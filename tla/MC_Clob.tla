------------------------------- MODULE MC_Clob -------------------------------
(* Small instances of Clob for TLC. *)
EXTENDS Clob, TLC

Limit(side, price, size, self_trade, match_limit) ==
  [kind |-> "Limit", side |-> side, price |-> price, size |-> size,
   slide |-> FALSE, min_fill |-> 0, self_trade |-> self_trade,
   match_limit |-> match_limit]

PostOnly(side, price, size, slide) ==
  [kind |-> "PostOnly", side |-> side, price |-> price, size |-> size,
   slide |-> slide, min_fill |-> 0, self_trade |-> "DecrementTake",
   match_limit |-> 0]

Ioc(side, price, size, min_fill, self_trade, match_limit) ==
  [kind |-> "ImmediateOrCancel", side |-> side, price |-> price, size |-> size,
   slide |-> FALSE, min_fill |-> min_fill, self_trade |-> self_trade,
   match_limit |-> match_limit]

(* Makers on two ticks of both sides; takers that stop for every reason:   *)
(* full, empty book, price, match limit, funds, self-trade, minimum fill.  *)
TradingPackets ==
  {Limit("Ask", p, 1, "DecrementTake", 9) : p \in {1, 2}}
  \cup {Limit("Bid", 2, n, "CancelProvide", 1) : n \in {1, 2}}
  \cup {Limit("Ask", 1, 2, "CancelProvide", 9),
        Ioc("Bid", NoPrice, 2, 2, "DecrementTake", 9),
        Ioc("Ask", 1, 2, 0, "Abort", 9)}

(* Quoting: post-only orders, rejected or slid, and a taker to move the    *)
(* touch between them.                                                     *)
QuotingPackets ==
  {PostOnly("Bid", 2, 1, TRUE), PostOnly("Ask", 1, 1, TRUE),
   PostOnly("Ask", 2, 1, FALSE), Limit("Bid", 1, 1, "DecrementTake", 9)}

Ladders1 == {<<PostOnly("Bid", 1, 1, FALSE), PostOnly("Ask", 2, 1, FALSE)>>,
             <<PostOnly("Ask", 2, 1, TRUE)>>}

MakerAsks == {Limit("Ask", 1, 1, "DecrementTake", 9), Limit("Ask", 2, 1, "DecrementTake", 9)}

SwapRequests ==
  {[side |-> "Bid", price |-> 2, size |-> 2, min_fill |-> n, match_limit |-> 9] :
     n \in {0, 2}}
  \cup {[side |-> "Ask", price |-> 1, size |-> 2, min_fill |-> 0, match_limit |-> 1]}

(* A swap whose one reserved fee is smaller than the fees of two fills. *)
StandingSwaps ==
  {[side |-> "Bid", price |-> 1, size |-> 2, min_fill |-> 0, match_limit |-> 9]}

(* Nothing in the program rejects a price of zero ticks. *)
ZeroPriceBids == {Limit("Bid", 0, 1, "DecrementTake", 9)}

None == {}

MCSymmetry == Permutations(Traders)
=============================================================================
