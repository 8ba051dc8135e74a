--------------------------------- MODULE Tree ---------------------------------
(***************************************************************************)
(* The red-black tree: insert, remove, overwrite in place and clear, with  *)
(* the rebalancing loops one iteration to a step.                          *)
(*                                                                         *)
(* A call links or unlinks its node in one step; what remains of it is     *)
(* held in fix, the loop variables of insert_fixup or delete_fixup, until  *)
(* the loop ends and the next call can come.                               *)
(*                                                                         *)
(* Source: crates/clob-book/src/tree/insert.rs, remove.rs, invariants.rs   *)
(***************************************************************************)
EXTENDS Arena

VARIABLES
  tree,
  fix   \* [loop |-> "none" | "insert" | "delete", at, parent]

vars == <<tree, fix>>

Idle == [loop |-> "none", at |-> NIL, parent |-> NIL]

-----------------------------------------------------------------------------
(* Insertion. *)

(* An existing key keeps its node, also when the tree is full. *)
Overwrite(key, value) ==
  /\ fix = Idle
  /\ Find(tree, key) # NIL
  /\ tree' = [tree EXCEPT !.nodes[Find(tree, key)].value = value]
  /\ UNCHANGED fix

(* The value is changed through a handle, without a descent. *)
ChangeAt(handle, value) ==
  /\ fix = Idle
  /\ handle \in LiveIn(tree)
  /\ tree' = [tree EXCEPT !.nodes[handle].value = value]
  /\ UNCHANGED fix

NewNode(key, value, parent) ==
  [left |-> NIL, right |-> NIL, parent |-> parent, color |-> RED, key |-> key, value |-> value]

(* A new key is hung where the descent ended. *)
Hang(t, key, value) ==
  LET end    == Descend(t, key)
      handle == NextSlot(t)
      filled == [Alloc(t) EXCEPT !.nodes[handle] = NewNode(key, value, end.parent),
                                 !.len = @ + 1]
  IN  IF end.parent = NIL THEN [filled EXCEPT !.root = handle]
      ELSE [filled EXCEPT !.nodes[end.parent][end.side] = handle]

Insert(key, value) ==
  /\ fix = Idle
  /\ Find(tree, key) = NIL
  /\ HasSlot(tree)
  /\ tree' = Hang(tree, key, value)
  /\ fix' = [loop |-> "insert", at |-> NextSlot(tree), parent |-> NIL]

(* A new key in a full tree changes nothing and returns None. *)
InsertFull(key) ==
  /\ fix = Idle
  /\ Find(tree, key) = NIL
  /\ ~ HasSlot(tree)
  /\ UNCHANGED vars

RedParent == fix.loop = "insert" /\ ColorOf(tree, ParentOf(tree, fix.at)) = RED

Grandparent(h) == ParentOf(tree, ParentOf(tree, h))

ParentSide(h) == SideOf(tree, ParentOf(tree, h), Grandparent(h))

Uncle(h) == ChildOf(tree, Grandparent(h), Mirror(ParentSide(h)))

Recolour(t, parent, uncle, grandparent) ==
  SetColor(SetColor(SetColor(t, parent, BLACK), uncle, BLACK), grandparent, RED)

(* Case 1: a red uncle.  The violation moves two levels up. *)
InsertRecolour ==
  /\ RedParent
  /\ ColorOf(tree, Uncle(fix.at)) = RED
  /\ tree' = Recolour(tree, ParentOf(tree, fix.at), Uncle(fix.at), Grandparent(fix.at))
  /\ fix' = [fix EXCEPT !.at = Grandparent(fix.at)]

(* Cases 2 and 3: a zig-zag is straightened, then the grandparent rotated. *)
InsertRotate ==
  LET side     == ParentSide(fix.at)
      zigzag   == fix.at = ChildOf(tree, ParentOf(tree, fix.at), Mirror(side))
      z        == IF zigzag THEN ParentOf(tree, fix.at) ELSE fix.at
  IN  /\ RedParent
      /\ ColorOf(tree, Uncle(fix.at)) = BLACK
      /\ \E straight \in {IF zigzag THEN Rotate(tree, z, side) ELSE tree} :
           LET parent == ParentOf(straight, z)
               top    == ParentOf(straight, parent)
           IN  \E painted \in {SetColor(SetColor(straight, parent, BLACK), top, RED)} :
                 tree' = Rotate(painted, top, Mirror(side))
      /\ fix' = [fix EXCEPT !.at = z]

InsertDone ==
  /\ fix.loop = "insert"
  /\ ~ RedParent
  /\ tree' = SetColor(tree, tree.root, BLACK)
  /\ fix' = Idle

-----------------------------------------------------------------------------
(* Removal. *)

(* Unlinking a node: the tree without it, what moved into the place that   *)
(* lost a node (maybe NIL), its parent, and the colour that left the tree. *)
UnlinkSingle(t, z, child) ==
  [tree |-> Transplant(t, z, child), x |-> child, parent |-> ParentOf(t, z),
   color |-> ColorOf(t, z)]

(* Mutant of SpliceParent: reads it as if the successor had not moved. *)
SpliceParentStale(t, y, z) == t.nodes[y].parent

(* A direct child of z stays the parent of its own child. *)
SpliceParent(t, y, z) == IF t.nodes[y].parent = z THEN y ELSE t.nodes[y].parent

(* Mutant of Adopt: the left subtree is left behind. *)
AdoptColour(t, y, z) == [t EXCEPT !.nodes[y].color = t.nodes[z].color]

(* y takes over z's left subtree and colour. *)
Adopt(t, y, z) ==
  SetParent([t EXCEPT !.nodes[y].left = t.nodes[z].left, !.nodes[y].color = t.nodes[z].color],
            t.nodes[z].left, y)

(* The in-order successor y is spliced into z's place. *)
UnlinkSpliced(t, z) ==
  LET y     == Extreme(t, t.nodes[z].right, "left")
      x     == t.nodes[y].right
      freed == IF t.nodes[y].parent = z THEN t
               ELSE SetParent([Transplant(t, y, x) EXCEPT !.nodes[y].right = t.nodes[z].right],
                              t.nodes[z].right, y)
  IN  [tree |-> Adopt(Transplant(freed, z, y), y, z), x |-> x,
       parent |-> SpliceParent(t, y, z), color |-> t.nodes[y].color]

Unlink(t, z) ==
  IF t.nodes[z].left = NIL THEN UnlinkSingle(t, z, t.nodes[z].right)
  ELSE IF t.nodes[z].right = NIL THEN UnlinkSingle(t, z, t.nodes[z].left)
  ELSE UnlinkSpliced(t, z)

(* The slot is freed after the fixup, which never touches it. *)
Release(t, z) == [Free(t, z) EXCEPT !.len = @ - 1]

(* Mutant of Remove: with two children, copies the successor's entry into  *)
(* the node and unlinks the successor instead.                             *)
RemoveByCopy(key) ==
  LET z     == Find(tree, key)
      inner == z # NIL /\ {tree.nodes[z].left, tree.nodes[z].right} \cap {NIL} = {}
      gone  == IF inner THEN Extreme(tree, tree.nodes[z].right, "left") ELSE z
      cut   == Unlink(IF inner THEN [tree EXCEPT !.nodes[z].key = tree.nodes[gone].key,
                                                 !.nodes[z].value = tree.nodes[gone].value]
                      ELSE tree, gone)
  IN  /\ fix = Idle
      /\ z # NIL
      /\ tree' = Release(cut.tree, gone)
      /\ fix' = IF cut.color = BLACK
                THEN [loop |-> "delete", at |-> cut.x, parent |-> cut.parent] ELSE Idle

Remove(key) ==
  LET z   == Find(tree, key)
      cut == Unlink(tree, z)
  IN  /\ fix = Idle
      /\ z # NIL
      /\ tree' = Release(cut.tree, z)
      /\ fix' = IF cut.color = BLACK
                THEN [loop |-> "delete", at |-> cut.x, parent |-> cut.parent] ELSE Idle

(* The loop goes on while x carries an extra black; a lost parent ends it. *)
DoubleBlack ==
  /\ fix.loop = "delete"
  /\ fix.at # tree.root
  /\ ColorOf(tree, fix.at) = BLACK
  /\ fix.parent # NIL

DeleteSide == SideOf(tree, fix.at, fix.parent)

(* Case 1: a red sibling is rotated away first. *)
BlackSibling ==
  LET sibling == ChildOf(tree, fix.parent, Mirror(DeleteSide))
  IN  IF ColorOf(tree, sibling) = RED
      THEN Rotate(SetColor(SetColor(tree, sibling, BLACK), fix.parent, RED),
                  fix.parent, DeleteSide)
      ELSE tree

SiblingIn(t) == ChildOf(t, fix.parent, Mirror(DeleteSide))

Nephew(t, side) == ChildOf(t, SiblingIn(t), side)

NephewsBlack(t) == \A side \in Sides : ColorOf(t, Nephew(t, side)) = BLACK

(* Mutant of DeletePushUp: stays where it is. *)
DeleteRecolour ==
  /\ DoubleBlack
  /\ \E t \in {BlackSibling} :
       /\ NephewsBlack(t)
       /\ tree' = SetColor(t, SiblingIn(t), RED)
       /\ UNCHANGED fix

(* Case 2: the extra black moves up to the parent. *)
DeletePushUp ==
  /\ DoubleBlack
  /\ \E t \in {BlackSibling} :
       /\ NephewsBlack(t)
       /\ tree' = SetColor(t, SiblingIn(t), RED)
       /\ fix' = [fix EXCEPT !.at = fix.parent, !.parent = ParentOf(t, fix.parent)]

(* Mutant of FarNephewRed: only looks at the near nephew's side. *)
NearNephewRed(t) == t

(* Case 3: only the near nephew is red; it becomes the sibling. *)
FarNephewRed(t) ==
  IF ColorOf(t, Nephew(t, Mirror(DeleteSide))) = BLACK
  THEN Rotate(SetColor(SetColor(t, Nephew(t, DeleteSide), BLACK), SiblingIn(t), RED),
              SiblingIn(t), Mirror(DeleteSide))
  ELSE t

(* Case 4: the extra black is rotated away. *)
DeleteResolve ==
  /\ DoubleBlack
  /\ ~ NephewsBlack(BlackSibling)
  /\ \E t \in {FarNephewRed(BlackSibling)} :
       LET sibling == SiblingIn(t)
           far     == ChildOf(t, sibling, Mirror(DeleteSide))
           shared  == SetColor(t, sibling, ColorOf(t, fix.parent))
       IN  \E painted \in {SetColor(SetColor(shared, fix.parent, BLACK), far, BLACK)} :
             /\ tree' = Rotate(painted, fix.parent, DeleteSide)
             /\ fix' = [fix EXCEPT !.at = tree'.root, !.parent = NIL]

DeleteDone ==
  /\ fix.loop = "delete"
  /\ ~ DoubleBlack
  /\ tree' = SetColor(tree, fix.at, BLACK)
  /\ fix' = Idle

-----------------------------------------------------------------------------
Clear ==
  /\ fix = Idle
  /\ tree' = Cleared(tree)
  /\ UNCHANGED fix

Init == tree = NewTree /\ fix = Idle

Fixup == InsertRecolour \/ InsertRotate \/ InsertDone \/ DeletePushUp \/ DeleteResolve \/ DeleteDone

Next ==
  \/ \E k \in Keys, v \in Values : Overwrite(k, v) \/ Insert(k, v)
  \/ \E h \in Slots, v \in Values : ChangeAt(h, v)
  \/ \E k \in Keys : InsertFull(k) \/ Remove(k)
  \/ Clear
  \/ Fixup

Spec == Init /\ [][Next]_vars

(* A call runs to its end. *)
FairSpec == Spec /\ WF_vars(Fixup)

-----------------------------------------------------------------------------
(* The self-check of the code, part by part. *)

Live == LiveIn(tree)

CheckRoot ==
  /\ ColorOf(tree, tree.root) = BLACK
  /\ ParentOf(tree, tree.root) = NIL

CheckOrderingAndParents ==
  LET walk == Iter(tree)
  IN  /\ \A i \in 1 .. Len(walk) - 1 : tree.nodes[walk[i]].key < tree.nodes[walk[i + 1]].key
      /\ \A h \in Live, side \in Sides :
           ChildOf(tree, h, side) # NIL => ParentOf(tree, ChildOf(tree, h, side)) = h
      /\ Len(walk) = tree.len

(* 0 where the subtree violates the colouring. *)
BlackHeight ==
  LET height[h \in Handles] ==
        IF h = NIL THEN 1
        ELSE LET left  == height[tree.nodes[h].left]
                 right == height[tree.nodes[h].right]
                 redred == /\ ColorOf(tree, h) = RED
                           /\ \E side \in Sides : ColorOf(tree, ChildOf(tree, h, side)) = RED
             IN  IF redred \/ left = 0 \/ left # right THEN 0 ELSE left + ColorOf(tree, h)
  IN  height[tree.root]

CheckFreeList == Len(FreeList(tree)) + tree.len = tree.bump

-----------------------------------------------------------------------------
(* Properties. *)

TypeOK ==
  /\ {tree.root, tree.free_head, fix.at, fix.parent} \subseteq Handles
  /\ tree.bump \in 0 .. Capacity /\ tree.len \in 0 .. Capacity
  /\ \A h \in Slots : {tree.nodes[h].left, tree.nodes[h].right, tree.nodes[h].parent} \subseteq Handles
  /\ \A h \in Slots : tree.nodes[h].color \in {RED, BLACK}
  /\ fix.loop \in {"none", "insert", "delete"}

(* Between calls the tree passes its own check: a black root, keys in      *)
(* order with the links agreeing, no red child of a red node, equal black  *)
(* heights, and every slot handed out live or free.                        *)
CheckPasses ==
  fix = Idle =>
    /\ CheckRoot
    /\ CheckOrderingAndParents
    /\ BlackHeight # 0
    /\ CheckFreeList

(* Free slots are distinct and none of them is in the tree, also in the    *)
(* middle of a fixup: no order is on the book and on the free list.        *)
SlotsAreDisjoint ==
  LET list == FreeList(tree)
      free == {list[i] : i \in DOMAIN list}
  IN  /\ Cardinality(free) = Len(list)
      /\ free \cap Live = {}
      /\ free \cup Live \subseteq 1 .. tree.bump

(* The assertions of the fixups, which a release build does not evaluate:  *)
(* a doubly black node has a parent and a sibling, and the grandparent of  *)
(* a red-red pair exists.                                                  *)
FixupNeverLost ==
  /\ fix.loop = "delete" /\ fix.at # tree.root /\ ColorOf(tree, fix.at) = BLACK =>
       fix.parent # NIL /\ ChildOf(tree, fix.parent, Mirror(DeleteSide)) # NIL
  /\ RedParent => Grandparent(fix.at) # NIL

(* At any time the two iterations visit the same entries in opposite       *)
(* orders, and the first of them is the best.                              *)
IterationIsMirrored ==
  LET up == Iter(tree)
      down == IterRev(tree)
  IN  /\ Len(up) = tree.len /\ Len(down) = tree.len
      /\ \A i \in DOMAIN up : up[i] = down[Len(down) + 1 - i]

(* All of this in the middle of a fixup too. *)
SoundInMidCall == TypeOK /\ SlotsAreDisjoint /\ FixupNeverLost /\ IterationIsMirrored

(* The node that holds a key does not move while the key is in the tree:   *)
(* the engine removes and shrinks orders by the handle it was given.       *)
HandlesAreStable ==
  [][\A h \in Live, g \in Live' : tree'.nodes[g].key = tree.nodes[h].key => g = h]_vars

(* A call that rebalances comes to an end. *)
CallsReturn == [](fix # Idle => <>(fix = Idle))

(* Every call, with its rebalancing, does to the map what its contract     *)
(* says, and a full tree is left untouched.                                *)
Map == INSTANCE OrderedMap WITH
  entries <- [k \in {tree.nodes[h].key : h \in Live} |-> tree.nodes[Find(tree, k)].value]

TreeIsAMap == Map!MapSpec
=============================================================================
