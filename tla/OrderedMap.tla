------------------------------ MODULE OrderedMap ------------------------------
(***************************************************************************)
(* What the tree promises its callers: a map of bounded size from keys to  *)
(* values.  A full map refuses a new key and still overwrites an old one.  *)
(*                                                                         *)
(* Source: the documented contract of crates/clob-book/src/tree            *)
(***************************************************************************)
EXTENDS Naturals, FiniteSets

CONSTANTS Keys, Values, Capacity

VARIABLE entries  \* the map, a function on the keys it holds

Without(map, key) == [k \in DOMAIN map \ {key} |-> map[k]]

With(map, key, value) ==
  [k \in DOMAIN map \cup {key} |-> IF k = key THEN value ELSE map[k]]

MapInit == entries = <<>>

Put(key, value) ==
  /\ key \in DOMAIN entries \/ Cardinality(DOMAIN entries) < Capacity
  /\ entries' = With(entries, key, value)

Take(key) ==
  /\ key \in DOMAIN entries
  /\ entries' = Without(entries, key)

Empty == entries' = <<>>

MapNext ==
  \/ \E k \in Keys, v \in Values : Put(k, v)
  \/ \E k \in Keys : Take(k)
  \/ Empty

MapSpec == MapInit /\ [][MapNext]_entries
=============================================================================
