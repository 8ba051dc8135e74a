------------------------------- MODULE MC_Bot -------------------------------
(* Small instances of Bot for TLC. *)
EXTENDS Bot, TLC

CONSTANTS bot, other

Quote(side, price) == [side |-> side, price |-> price, size |-> 1]

(* A bid, and an ask at the end of the word. *)
QuotesAtTheEnd == {Quote("Bid", 1), Quote("Ask", U64Max)}

QuotesEverywhere == {Quote("Bid", 5), Quote("Ask", 3), Quote("Ask", U64Max)}

NoQuotes == {}
=============================================================================
