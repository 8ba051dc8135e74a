----------------------------- MODULE MC_Indexer -----------------------------
(* Small instances of Indexer for TLC. *)
EXTENDS Indexer, TLC

CONSTANTS a, b, swapper

Packet(kind, side, price, size, self_trade) ==
  [kind |-> kind, side |-> side, price |-> price, size |-> size, self_trade |-> self_trade]

Limit(side, price, size) == Packet("Limit", side, price, size, "DecrementTake")
PostOnly(side, price, size) == Packet("PostOnly", side, price, size, "Abort")
Ioc(side, price, size) == Packet("ImmediateOrCancel", side, price, size, "CancelProvide")

(* Makers on two ticks of both sides, takers that sweep them. *)
SweepingPackets ==
  {PostOnly("Ask", 1, 1), PostOnly("Ask", 2, 2), Limit("Bid", 2, 3), Limit("Ask", 1, 1)}

Batch(cancels, run) == [cancels |-> cancels, packets |-> run]

(* A ladder is replaced; a batch quotes and takes. *)
QuotingBatches ==
  {Batch(2, <<PostOnly("Ask", 2, 1)>>),
   Batch(0, <<PostOnly("Bid", 1, 1), Limit("Bid", 2, 1)>>)}

(* A batch replaces an order of its owner and takes. *)
ReplacingBatches == {Batch(1, <<Ioc("Bid", 2, 1)>>)}

SweepingSwaps == {Ioc("Bid", 2, 2)}

(* One lot at a time, from both sides. *)
OneLotPackets == {PostOnly("Ask", 1, 1), Limit("Bid", 1, 1), Ioc("Bid", 2, 1)}

BothSides == {PostOnly("Bid", 1, 1), PostOnly("Ask", 2, 1)}
CrossingBatches == {Batch(0, <<Ioc("Bid", 2, 1), Ioc("Ask", 1, 1)>>)}

WideFills == {PostOnly("Ask", 1, 4), Ioc("Bid", 1, 4)}

None == {}
=============================================================================
