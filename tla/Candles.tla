------------------------------- MODULE Candles -------------------------------
(***************************************************************************)
(* What the read side computes from stored trades: the range query, OHLCV  *)
(* candles, the rolling window and its volume-weighted price.              *)
(*                                                                         *)
(* Source: crates/clob-stream/src/candle.rs, api/http.rs, api/view.rs,     *)
(* store/memory.rs, store/clickhouse.rs                                    *)
(***************************************************************************)
EXTENDS Integers, Sequences, SequencesExt

CONSTANT MaxSlot \* bound: the last slot

NoCandle == [trades |-> 0]

Slots(trades) == {trades[n].slot : n \in DOMAIN trades}

InRange(trades, from_slot, to_slot) ==
  SelectSeq(trades, LAMBDA t : from_slot <= t.slot /\ t.slot <= to_slot)

(* The stable sort of the code: by slot, as written within one. *)
BySlot(trades) ==
  FoldLeft(LAMBDA sorted, slot : sorted \o InRange(trades, slot, slot),
           <<>>, [n \in 1 .. MaxSlot |-> n])

(* Mutant of Limited: the first rows of the range. *)
LimitedToOldest(trades, limit) ==
  SubSeq(trades, 1, IF Len(trades) > limit THEN limit ELSE Len(trades))

(* The most recent rows, still oldest first. *)
Limited(trades, limit) ==
  IF Len(trades) > limit
  THEN SubSeq(trades, Len(trades) - limit + 1, Len(trades)) ELSE trades

(* Memory::trades *)
TradesIn(rows, from_slot, to_slot, limit) ==
  Limited(BySlot(InRange(rows, from_slot, to_slot)), limit)

(* ClickHouse sorts by slot alone, so it may answer with the rows of one   *)
(* slot in any order, and cut the oldest slot anywhere.                    *)
ClickHouseAnswers(rows, from_slot, to_slot, limit) ==
  {Limited(order, limit) :
     order \in {p \in SetToSeqs(Range(InRange(rows, from_slot, to_slot))) :
                  \A i, j \in DOMAIN p : i < j => p[i].slot <= p[j].slot}}

-----------------------------------------------------------------------------
(* candle.rs *)

Bucket(slot, interval) == (slot \div interval) * interval

Opened(t, interval) ==
  [start_slot |-> Bucket(t.slot, interval), open |-> t.price, high |-> t.price,
   low |-> t.price, close |-> t.price, base_lots |-> t.lots, quote_lots |-> t.quote,
   trades |-> 1]

(* Mutant of Extended: the close is the price that opened the bucket. *)
ExtendedRange(c, t) ==
  [c EXCEPT !.high = IF t.price > @ THEN t.price ELSE @,
            !.low = IF t.price < @ THEN t.price ELSE @,
            !.base_lots = @ + t.lots, !.quote_lots = @ + t.quote, !.trades = @ + 1]

Extended(c, t) ==
  [c EXCEPT !.high = IF t.price > @ THEN t.price ELSE @,
            !.low = IF t.price < @ THEN t.price ELSE @,
            !.close = t.price,
            !.base_lots = @ + t.lots, !.quote_lots = @ + t.quote, !.trades = @ + 1]

(* aggregate *)
Aggregate(trades, interval) ==
  FoldLeft(LAMBDA candles, t :
             IF candles # <<>> /\ Last(candles).start_slot = Bucket(t.slot, interval)
             THEN Append(Front(candles), Extended(Last(candles), t))
             ELSE Append(candles, Opened(t, interval)),
           <<>>, trades)

(* summarise: one bucket, wide enough for every slot. *)
Summarise(trades) ==
  IF trades = <<>> THEN NoCandle ELSE Last(Aggregate(trades, MaxSlot + 1))

SumOf(trades, field(_)) == FoldLeft(LAMBDA sum, t : sum + field(t), 0, trades)

Lots(trades) == SumOf(trades, LAMBDA t : t.lots)
Quote(trades) == SumOf(trades, LAMBDA t : t.quote)

(* Mutant of Vwap: from the value traded, which is not in ticks. *)
VwapOfValue(trades) == Quote(trades) \div Lots(trades)

(* vwap of at least one trade, in ticks. *)
Vwap(trades) == SumOf(trades, LAMBDA t : t.price * t.lots) \div Lots(trades)

-----------------------------------------------------------------------------
(* The endpoints. *)

(* Mutant of WindowFrom: one slot more than was asked for. *)
WindowFromBefore(to_slot, slots) == IF to_slot > slots THEN to_slot - slots ELSE 0

WindowFrom(to_slot, slots) == IF to_slot >= slots THEN to_slot - (slots - 1) ELSE 0

(* /window, ending at the last slot processed. *)
Window(rows, to_slot, slots, max_trades) ==
  LET from_slot == WindowFrom(to_slot, slots)
      found == TradesIn(rows, from_slot, to_slot, max_trades)
  IN  [from_slot |-> from_slot, to_slot |-> to_slot, candle |-> Summarise(found),
       truncated |-> Len(found) >= max_trades]

WindowTrades(window) == window.candle.trades

(* /candles *)
CandlesOf(rows, interval, max_history, max_candles) ==
  Limited(Aggregate(TradesIn(rows, 0, MaxSlot, max_history), interval), max_candles)
=============================================================================
