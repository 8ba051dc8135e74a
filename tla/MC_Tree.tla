------------------------------- MODULE MC_Tree -------------------------------
(* A small instance of Tree for TLC: every history of a few slots and      *)
(* keys, and from there the tree grown to the full arena in ascending      *)
(* order and shrunk in any, which reaches the deep rebalancing.            *)
EXTENDS Tree, TLC

CONSTANTS SmallArena, SmallKeys, MaxRemovals

Small == tree.bump <= SmallArena

SmallStep ==
  /\ Small
  /\ \/ \E k \in SmallKeys, v \in Values :
          \/ Overwrite(k, v)
          \/ (tree.free_head # NIL \/ tree.bump < SmallArena) /\ Insert(k, v)
     \/ \E h \in Slots, v \in Values : ChangeAt(h, v)
     \/ \E k \in SmallKeys : Remove(k)
     \/ Clear

(* Slot h holds key h. *)
Grown == \A h \in Slots : h <= tree.bump => h \in Live /\ tree.nodes[h].key = h

Grow ==
  /\ \A h \in Live : tree.nodes[h].value = 1
  /\ Grown
  /\ Insert(tree.bump + 1, 1)

Shrink ==
  /\ tree.bump = Capacity
  /\ \/ \E k \in Keys : InsertFull(k) \/ Overwrite(k, 1)
     \/ tree.len > Capacity - MaxRemovals /\ \E k \in Keys : Remove(k)

TreeNext == SmallStep \/ Grow \/ Shrink \/ Fixup

TreeSpec == Init /\ [][TreeNext]_vars /\ WF_vars(Fixup)

(* What the map can tell apart: the bytes of a free slot are not read. *)
WithoutStaleBytes ==
  <<[tree EXCEPT !.nodes = [h \in Slots |->
       IF h \in Live THEN tree.nodes[h]
       ELSE [tree.nodes[h] EXCEPT !.key = 0, !.value = 0, !.color = RED]]], fix>>
=============================================================================
