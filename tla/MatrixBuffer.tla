------------------------------ MODULE MatrixBuffer ------------------------------
(***************************************************************************)
(* The buffer of matrix entries (core/MatrixBuffer.hpp): entries are added *)
(* in any order and read in the order of the rows and in the order of the  *)
(* columns, through two search trees over the same entries.  The trees are *)
(* treaps: a new entry goes down until it meets one of lower priority; the *)
(* subtree there is splayed and split around it.                           *)
(*                                                                         *)
(* A tree has the children of every node on both sides; node 0 stands for  *)
(* "none" and its children are the header of the splay; the root hangs on  *)
(* the side "root" of it.                                                  *)
(***************************************************************************)
EXTENDS Integers, Sequences

CONSTANT Priority   \* the hash of an entry: [row major -> [row -> [column -> Nat]]]

Orders == {"row", "col"}
Opposite(side) == IF side = "left" THEN "right" ELSE "left"

EmptyTree == [left |-> <<0>>, right |-> <<0>>, root |-> <<0>>]
EmptyBuffer == [entry |-> <<>>, tree |-> [row |-> EmptyTree, col |-> EmptyTree]]

(* Children are stored behind the header: node n at place n+1.              *)
Child(tree, side, n) == tree[side][n + 1]
SetChild(tree, side, n, m) == [tree EXCEPT ![side][n + 1] = m]

Lesser(order, e, f) ==
  LET major(x) == IF order = "row" THEN x.row ELSE x.col
      minor(x) == IF order = "row" THEN x.col ELSE x.row
  IN major(e) < major(f) \/ (major(e) = major(f) /\ minor(e) < minor(f))
PriorityOf(order, e) == Priority[order][e.row][e.col]

(* The side of node m on which entry e lies.                                *)
SideOf(buf, order, e, m) == IF Lesser(order, e, buf.entry[m]) THEN "left" ELSE "right"

-----------------------------------------------------------------------------
(* Splaying the subtree t for entry n.  hook[s] is the node of the header's *)
(* tree the next part is hung on, at its side s.                            *)

Assembled(tree, t, hook) ==
  LET joined == SetChild(SetChild(tree, "right", hook["right"], Child(tree, "left", t)),
                         "left", hook["left"], Child(tree, "right", t))
      rooted == SetChild(SetChild(joined, "left", t, Child(joined, "right", 0)), "right", t, Child(joined, "left", 0))
  IN [root |-> t, tree |-> SetChild(SetChild(rooted, "left", 0, 0), "right", 0, 0)]

RECURSIVE SplayLoop(_, _, _, _, _, _)
SplayLoop(buf, order, tree, n, t, hook) ==
  LET side == SideOf(buf, order, buf.entry[n], t)
      y == Child(tree, side, t)
      zigzig == /\ y # 0
                /\ IF side = "left" THEN Lesser(order, buf.entry[n], buf.entry[y])
                                    ELSE Lesser(order, buf.entry[y], buf.entry[n])
      turned == IF zigzig THEN SetChild(SetChild(tree, side, t, Child(tree, Opposite(side), y)), Opposite(side), y, t)
                          ELSE tree
      top == IF zigzig THEN y ELSE t
  IN IF y = 0 THEN Assembled(tree, t, hook)
     ELSE IF Child(turned, side, top) = 0 THEN Assembled(turned, top, hook)
     ELSE SplayLoop(buf, order, SetChild(turned, side, hook[side], top), n, Child(turned, side, top), [hook EXCEPT ![side] = top])

Splay(buf, order, tree, n, t) == SplayLoop(buf, order, tree, n, t, [left |-> 0, right |-> 0])

(* Mutant: the far side keeps the whole subtree.                            *)
SplitAroundNothing(buf, order, splayed, n) ==
  SetChild(splayed.tree, Opposite(SideOf(buf, order, buf.entry[n], splayed.root)), n, splayed.root)

(* n becomes the root of the splayed tree: the new root is split off.       *)
SplitAround(buf, order, splayed, n) ==
  LET t == splayed.root
      side == SideOf(buf, order, buf.entry[n], t)
      far == Opposite(side)
  IN SetChild(SetChild(SetChild(splayed.tree, side, n, Child(splayed.tree, side, t)), far, n, t), side, t, 0)

(* The entry is hung where the descent ended: on side at of node parent.    *)
RECURSIVE LinkBelow(_, _, _, _, _, _)
LinkBelow(buf, order, tree, n, parent, at) ==
  LET k == Child(tree, at, parent)
  IN IF k = 0 THEN SetChild(tree, at, parent, n)
     ELSE IF PriorityOf(order, buf.entry[k]) < PriorityOf(order, buf.entry[n])
     THEN SetChild(SplitAround(buf, order, Splay(buf, order, tree, n, k), n), at, parent, n)
     ELSE LinkBelow(buf, order, tree, n, k, SideOf(buf, order, buf.entry[n], k))

WithNode(tree) == [left |-> Append(tree.left, 0), right |-> Append(tree.right, 0), root |-> Append(tree.root, 0)]

LinkBoth(entered, n) ==
  [entered EXCEPT !.tree.row = LinkBelow(entered, "row", WithNode(@), n, 0, "root"),
                  !.tree.col = LinkBelow(entered, "col", WithNode(@), n, 0, "root")]

AddEntry(buf, row, col, val) ==
  LinkBoth([buf EXCEPT !.entry = Append(@, [row |-> row, col |-> col, val |-> val])], Len(buf.entry) + 1)

-----------------------------------------------------------------------------
(* Reading in order, with a stack of the nodes that are still to come.      *)

RECURSIVE LeftSpine(_, _, _)
LeftSpine(tree, k, stack) == IF k = 0 THEN stack ELSE LeftSpine(tree, Child(tree, "left", k), Append(stack, k))

First(tree) == LeftSpine(tree, Child(tree, "root", 0), <<>>)
After(tree, stack) ==
  LeftSpine(tree, Child(tree, "right", stack[Len(stack)]), SubSeq(stack, 1, Len(stack) - 1))

RECURSIVE Rest(_, _, _)
Rest(buf, tree, stack) ==
  IF stack = <<>> THEN <<>> ELSE <<buf.entry[stack[Len(stack)]]>> \o Rest(buf, tree, After(tree, stack))
InOrder(buf, order) == Rest(buf, buf.tree[order], First(buf.tree[order]))

(* The entries behind (row, col): the descent keeps what it leaves to the   *)
(* right.                                                                   *)
RECURSIVE StartBelow(_, _, _, _, _)
StartBelow(buf, order, e, k, stack) ==
  IF k = 0 THEN stack
  ELSE IF Lesser(order, e, buf.entry[k])
  THEN StartBelow(buf, order, e, Child(buf.tree[order], "left", k), Append(stack, k))
  ELSE StartBelow(buf, order, e, Child(buf.tree[order], "right", k), stack)
InOrderFrom(buf, order, row, col) ==
  Rest(buf, buf.tree[order], StartBelow(buf, order, [row |-> row, col |-> col], Child(buf.tree[order], "root", 0), <<>>))

RECURSIVE FindBelow(_, _, _, _)
FindBelow(buf, order, e, k) ==
  IF k = 0 THEN 0
  ELSE IF Lesser(order, e, buf.entry[k]) THEN FindBelow(buf, order, e, Child(buf.tree[order], "left", k))
  ELSE IF Lesser(order, buf.entry[k], e) THEN FindBelow(buf, order, e, Child(buf.tree[order], "right", k))
  ELSE k
FindEntry(buf, order, row, col) == FindBelow(buf, order, [row |-> row, col |-> col], Child(buf.tree[order], "root", 0))

(* The rows, or the columns, as they are laid out from the buffer.          *)
Lines(buf, order, n) ==
  [i \in 1..n |->
     LET line == SelectSeq(InOrder(buf, order), LAMBDA e : (IF order = "row" THEN e.row ELSE e.col) = i)
     IN [k \in DOMAIN line |-> [col |-> IF order = "row" THEN line[k].col ELSE line[k].row, val |-> line[k].val]]]
================================================================================
