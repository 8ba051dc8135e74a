------------------------------ MODULE TradeLog ------------------------------
(***************************************************************************)
(* What a store of trades promises: rows are only ever added, each once    *)
(* and after those already there, and a row whose append succeeded is      *)
(* there for good.                                                         *)
(*                                                                         *)
(* Source: the contract in crates/clob-stream/src/store/mod.rs             *)
(***************************************************************************)
EXTENDS Naturals, Sequences, SequencesExt

CONSTANT Same(_, _) \* whether two rows are the same trade

VARIABLES
  rows,    \* what a reader can be shown
  promised \* rows whose append succeeded

Distinct(s) == \A i, j \in DOMAIN s : i # j => ~ Same(s[i], s[j])

LogInit == rows = <<>> /\ promised = {}

(* The quantifiers name what was there and what is there now. *)
Extend ==
  \E old \in {rows}, new \in {rows'} :
    /\ IsPrefix(old, new)
    /\ Distinct(new)
    /\ promised \subseteq promised'
    /\ promised' \subseteq Range(new)

LogSpec == LogInit /\ [][Extend]_<<rows, promised>>
=============================================================================
