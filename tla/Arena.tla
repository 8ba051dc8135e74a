-------------------------------- MODULE Arena --------------------------------
(***************************************************************************)
(* The red-black tree's memory: a header and an array of slots addressed   *)
(* by 1-based handles, slots taken from a free list or a bump pointer, and *)
(* the links between them.  Each operator is a function from a tree to a   *)
(* tree, or reads one; a handle used where the code would index out of the *)
(* array is an error here too.                                             *)
(*                                                                         *)
(* The code writes out each routine and its mirror image; here one         *)
(* definition takes the side as a parameter.                               *)
(*                                                                         *)
(* Source: crates/clob-book/src/tree/mod.rs, node.rs, rotate.rs, iter.rs   *)
(***************************************************************************)
EXTENDS Integers, Sequences, FiniteSets

CONSTANTS
  Capacity,  \* slots in the arena
  Keys,      \* a set of integers
  Values

ASSUME ArenaAssumption == Capacity \in Nat \ {0} /\ Keys \subseteq Nat

NIL == 0
RED == 0
BLACK == 1
Slots == 1 .. Capacity
Handles == {NIL} \cup Slots

Sides == {"left", "right"}
Mirror(side) == IF side = "left" THEN "right" ELSE "left"

ZeroNode == [left |-> NIL, right |-> NIL, parent |-> NIL, color |-> RED, key |-> 0, value |-> 0]

(* Zeroed memory is an empty tree. *)
NewTree == [root |-> NIL, free_head |-> NIL, bump |-> 0, len |-> 0,
            nodes |-> [h \in Slots |-> ZeroNode]]

(* Only the header is reset. *)
Cleared(t) == [NewTree EXCEPT !.nodes = t.nodes]

-----------------------------------------------------------------------------
(* Links and colours; NIL is black and has no relatives. *)

ChildOf(t, h, side) == IF h = NIL THEN NIL ELSE t.nodes[h][side]

ParentOf(t, h) == IF h = NIL THEN NIL ELSE t.nodes[h].parent

ColorOf(t, h) == IF h = NIL THEN BLACK ELSE t.nodes[h].color

SetColor(t, h, color) == IF h = NIL THEN t ELSE [t EXCEPT !.nodes[h].color = color]

SetParent(t, h, parent) == IF h = NIL THEN t ELSE [t EXCEPT !.nodes[h].parent = parent]

(* The side of its parent that a node hangs from. *)
SideOf(t, h, parent) == IF h = ChildOf(t, parent, "left") THEN "left" ELSE "right"

(* Puts v where u hangs: under u's parent, or at the root. *)
Transplant(t, u, v) ==
  LET parent == ParentOf(t, u)
      hung   == IF parent = NIL THEN [t EXCEPT !.root = v]
                ELSE [t EXCEPT !.nodes[parent][SideOf(t, u, parent)] = v]
  IN  SetParent(hung, v, parent)

(* Rotates x down to a side; its child y on the other side takes its place *)
(* and hands over its inner subtree.                                       *)
Rotate(t, x, side) ==
  LET y      == t.nodes[x][Mirror(side)]
      inner  == t.nodes[y][side]
      handed == SetParent([t EXCEPT !.nodes[x][Mirror(side)] = inner], inner, x)
      placed == Transplant(handed, x, y)
  IN  [placed EXCEPT !.nodes[y][side] = x, !.nodes[x].parent = y]

-----------------------------------------------------------------------------
(* Slots. *)

HasSlot(t) == t.free_head # NIL \/ t.bump < Capacity

NextSlot(t) == IF t.free_head # NIL THEN t.free_head ELSE t.bump + 1

(* Mutant of Alloc: leaves the slot on the free list. *)
AllocShared(t) == IF t.free_head # NIL THEN t ELSE [t EXCEPT !.bump = @ + 1]

Alloc(t) == IF t.free_head # NIL
            THEN [t EXCEPT !.free_head = t.nodes[t.free_head].left]
            ELSE [t EXCEPT !.bump = @ + 1]

(* The free list is threaded through left; key and value bytes stay. *)
Free(t, h) ==
  [t EXCEPT !.nodes[h] = [@ EXCEPT !.left = t.free_head, !.right = NIL, !.parent = NIL],
            !.free_head = h]

-----------------------------------------------------------------------------
(* Lookup and navigation. *)

(* Where a descent for key ends: [at, parent, side], at = NIL if absent. *)
Descend(t, key) ==
  LET from[h \in Slots] ==
        LET node == t.nodes[h]
            side == IF key < node.key THEN "left" ELSE "right"
        IN  IF key = node.key
            THEN [at |-> h, parent |-> node.parent, side |-> side]
            ELSE IF node[side] = NIL
                 THEN [at |-> NIL, parent |-> h, side |-> side] ELSE from[node[side]]
  IN  IF t.root = NIL THEN [at |-> NIL, parent |-> NIL, side |-> "left"] ELSE from[t.root]

Find(t, key) == Descend(t, key).at

(* The last node of a subtree on a side: min_from and max_from. *)
Extreme(t, h, side) ==
  LET down[n \in Slots] == IF t.nodes[n][side] = NIL THEN n ELSE down[t.nodes[n][side]]
  IN  IF h = NIL THEN NIL ELSE down[h]

MinHandle(t) == Extreme(t, t.root, "left")
MaxHandle(t) == Extreme(t, t.root, "right")

(* Mutant of Neighbour: takes the child for the next node. *)
NeighbourShallow(t, h, side) ==
  LET climb[n \in Slots] ==
        LET parent == t.nodes[n].parent
        IN  IF parent # NIL /\ n = t.nodes[parent][side] THEN climb[parent] ELSE parent
  IN  IF h = NIL THEN NIL
      ELSE IF t.nodes[h][side] # NIL THEN t.nodes[h][side] ELSE climb[h]

(* The next node towards a side: successor and predecessor. *)
Neighbour(t, h, side) ==
  LET climb[n \in Slots] ==
        LET parent == t.nodes[n].parent
        IN  IF parent # NIL /\ n = t.nodes[parent][side] THEN climb[parent] ELSE parent
  IN  IF h = NIL THEN NIL
      ELSE IF t.nodes[h][side] # NIL THEN Extreme(t, t.nodes[h][side], Mirror(side))
      ELSE climb[h]

(* The handles an iterator yields. *)
Walk(t, start, side) ==
  LET from[h \in Handles] == IF h = NIL THEN <<>> ELSE <<h>> \o from[Neighbour(t, h, side)]
  IN  from[start]

Iter(t) == Walk(t, MinHandle(t), "right")
IterRev(t) == Walk(t, MaxHandle(t), "left")

(* The handles of the free list, from its head. *)
FreeList(t) ==
  LET from[h \in Handles] == IF h = NIL THEN <<>> ELSE <<h>> \o from[t.nodes[h].left]
  IN  from[t.free_head]

(* The nodes of the tree. *)
LiveIn(t) == LET walk == Iter(t) IN {walk[i] : i \in DOMAIN walk}
=============================================================================
