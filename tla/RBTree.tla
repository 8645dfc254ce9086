-------------------------------- MODULE RBTree --------------------------------
(***************************************************************************)
(* util/rbtree: the red-black trees that the allocators keep their buffers *)
(* in.  A node is linked or unlinked in one step, and every turn of the    *)
(* loop that restores the balance is a step of its own.                    *)
(***************************************************************************)
EXTENDS Naturals, Sequences, SequencesExt, FiniteSets

CONSTANTS Nodes,   \* the nodes a program has
          Nil,     \* the null pointer
          Key      \* what the comparator compares: [Nodes -> Nat]

KeyAssumption == Nil \notin Nodes /\ Key \in [Nodes -> Nat]

VARIABLES t,         \* the tree: root, child and parent links, the set of red nodes
          size,      \* tree->size
          job,       \* the operation under way and its local variables
          contents   \* the nodes that have been inserted and not removed

vars == <<t, size, job, contents>>

LEFT == 0
RIGHT == 1
Idle == [op |-> "idle", node |-> Nil, parent |-> Nil, subject |-> Nil]
EmptyTree == [root |-> Nil, child |-> [n \in Nodes |-> [s \in {LEFT, RIGHT} |-> Nil]],
              parent |-> [n \in Nodes |-> Nil], red |-> {}]

Init == /\ t = EmptyTree
        /\ size = 0
        /\ job = Idle
        /\ contents = {}
-------------------------------------------------------------------------------
Red(tree, n) == n \in tree.red
SetBlack(tree, S) == [tree EXCEPT !.red = @ \ S]
SetRed(tree, n) == [tree EXCEPT !.red = @ \cup {n}]
SetParent(tree, n, p) == IF n = Nil THEN tree ELSE [tree EXCEPT !.parent[n] = p]
SetChild(tree, n, side, c) == [tree EXCEPT !.child[n][side] = c]

(* the side of p that n is not on: the variable `left` of the loops         *)
Across(tree, n, p) == IF n = tree.child[p][LEFT] THEN RIGHT ELSE LEFT

(* `new` takes the place of `old` below p, or at the root                   *)
Replace(tree, p, old, new) ==
  IF p = Nil THEN [tree EXCEPT !.root = new]
  ELSE SetChild(tree, p, 1 - Across(tree, old, p), new)

Rotate(tree, n, side) ==
  LET up == tree.child[n][side]
      inner == tree.child[up][1 - side]
      p == tree.parent[n]
  IN SetParent(SetParent(SetParent(
       Replace(SetChild(SetChild(tree, n, side, inner), up, 1 - side, n), p, n, up),
       inner, n), up, p), n, up)

(* the child of n on a side turns black and comes to be above n, which      *)
(* turns red                                                                *)
Promote(tree, n, side) == Rotate(SetRed(SetBlack(tree, {tree.child[n][side]}), n), n, side)

(* where a search for a key goes on from n: to the left of an equal         *)
Toward(tree, key, n) == tree.child[n][IF key <= Key[n] THEN LEFT ELSE RIGHT]

(* the last node that a search for a key passes                             *)
SearchEnd(tree, key) ==
  LET From[n \in Nodes] ==
        IF Toward(tree, key, n) = Nil THEN n ELSE From[Toward(tree, key, n)]
  IN IF tree.root = Nil THEN Nil ELSE From[tree.root]

(* rbtree_find: the last node passed that has the key                       *)
Find(tree, key) ==
  LET From[n \in Nodes \cup {Nil}] ==
        IF n = Nil THEN Nil
        ELSE LET below == From[Toward(tree, key, n)]
             IN IF below = Nil /\ Key[n] = key THEN n ELSE below
  IN From[tree.root]

(* do_minmax, from any node                                                 *)
Outermost(tree, n, side) ==
  LET From[x \in Nodes] == IF tree.child[x][side] = Nil THEN x ELSE From[tree.child[x][side]]
  IN From[n]

(* do_iterate                                                               *)
Iterate(tree, n, next) ==
  IF tree.child[n][next] # Nil THEN Outermost(tree, tree.child[n][next], 1 - next)
  ELSE LET Up[x \in Nodes] ==
             LET p == tree.parent[x]
             IN IF p = Nil THEN Nil
                ELSE IF x # tree.child[p][next] THEN p ELSE Up[p]
       IN Up[n]
-------------------------------------------------------------------------------
(* rbtree_insert does not link a node whose key is there                    *)
InsertRefused(n) == /\ job.op = "idle"
                    /\ n \notin contents
                    /\ Find(t, Key[n]) # Nil
                    /\ UNCHANGED vars

(* the node becomes a red leaf where the search ends                        *)
InsertLeaf(n, multi) ==
  /\ job.op = "idle"
  /\ n \notin contents
  /\ multi \/ Find(t, Key[n]) = Nil
  /\ LET p == SearchEnd(t, Key[n])
         linked == IF p = Nil THEN [t EXCEPT !.root = n]
                   ELSE SetChild(t, p, IF Key[n] <= Key[p] THEN LEFT ELSE RIGHT, n)
     IN t' = SetRed([linked EXCEPT !.child[n] = EmptyTree.child[n], !.parent[n] = p], n)
  /\ job' = [Idle EXCEPT !.op = "insert", !.node = n, !.subject = n]
  /\ UNCHANGED <<size, contents>>

Inserting == job.op = "insert" /\ t.parent[job.node] \in t.red

InsertParent == t.parent[job.node]
Grandparent == t.parent[InsertParent]
UncleSide == Across(t, InsertParent, Grandparent)
Uncle == t.child[Grandparent][UncleSide]

InsertRecolour ==
  /\ Inserting
  /\ Red(t, Uncle)
  /\ t' = SetRed(SetBlack(t, {Uncle, InsertParent}), Grandparent)
  /\ job' = [job EXCEPT !.node = Grandparent]
  /\ UNCHANGED <<size, contents>>

(* a node on the inside is first rotated outside, and changes places with   *)
(* its parent                                                               *)
InsertRotate ==
  /\ Inserting
  /\ ~Red(t, Uncle)
  /\ LET inside == t.child[InsertParent][UncleSide] = job.node
         outside == IF inside THEN Rotate(t, InsertParent, UncleSide) ELSE t
     IN /\ t' = Promote(outside, Grandparent, 1 - UncleSide)
        /\ job' = [job EXCEPT !.node = IF inside THEN InsertParent ELSE job.node]
  /\ UNCHANGED <<size, contents>>

(* mutant: the root keeps the colour that the loop gave it *)
InsertDoneUnpainted == /\ job.op = "insert"
                       /\ ~Inserting
                       /\ size' = size + 1
                       /\ contents' = contents \cup {job.subject}
                       /\ job' = Idle
                       /\ UNCHANGED t

InsertDone == /\ job.op = "insert"
              /\ ~Inserting
              /\ t' = SetBlack(t, {t.root})
              /\ size' = size + 1
              /\ contents' = contents \cup {job.subject}
              /\ job' = Idle
-------------------------------------------------------------------------------
(* mutant: the child still points up to the node removed *)
BypassForgetsParent(n) ==
  LET child == IF t.child[n][LEFT] = Nil THEN t.child[n][RIGHT] ELSE t.child[n][LEFT]
  IN [tree |-> Replace(t, t.parent[n], n, child),
      node |-> child, parent |-> t.parent[n], black |-> ~Red(t, n)]

(* a node with one child or none: the child takes its place                 *)
Bypass(n) ==
  LET child == IF t.child[n][LEFT] = Nil THEN t.child[n][RIGHT] ELSE t.child[n][LEFT]
      p == t.parent[n]
  IN [tree |-> Replace(SetParent(t, child, p), p, n, child),
      node |-> child, parent |-> p, black |-> ~Red(t, n)]

(* a node with two: its successor takes its place and its colour, and the   *)
(* successor's right child the place of the successor                       *)
Successor(n) == Outermost(t, t.child[n][RIGHT], LEFT)

Depart(tree, n, next) ==
  LET child == tree.child[next][RIGHT]
      p == tree.parent[next]
      right == tree.child[n][RIGHT]
  IN IF p = n THEN tree
     ELSE SetParent(SetChild(SetChild(SetParent(tree, child, p), p, LEFT, child),
                             next, RIGHT, right), right, next)

Inherit(tree, n, next) ==
  LET painted == IF Red(tree, n) THEN SetRed(tree, next) ELSE SetBlack(tree, {next})
      left == tree.child[n][LEFT]
  IN SetParent(SetChild(SetParent(painted, next, tree.parent[n]), next, LEFT, left), left, next)

Succeed(n, next) ==
  [tree |-> Inherit(Depart(Replace(t, t.parent[n], n, next), n, next), n, next),
   node |-> t.child[next][RIGHT],
   parent |-> IF t.parent[next] = n THEN next ELSE t.parent[next],
   black |-> ~Red(t, next)]

(* the place left is mended if a black node is gone from it                 *)
Unlink(n) ==
  /\ job.op = "idle"
  /\ n \in contents
  /\ LET u == IF Nil \in {t.child[n][LEFT], t.child[n][RIGHT]} THEN Bypass(n)
              ELSE Succeed(n, Successor(n))
     IN /\ t' = u.tree
        /\ job' = [op |-> IF u.black THEN "mend" ELSE "removed",
                   node |-> u.node, parent |-> u.parent, subject |-> n]
  /\ UNCHANGED <<size, contents>>

Mending == job.op = "mend" /\ ~Red(t, job.node) /\ job.node # t.root

MendSide == Across(t, job.node, job.parent)

(* one turn of recolor: a red sibling is first rotated above the parent     *)
Lift(tree, p, side) ==
  IF Red(tree, tree.child[p][side]) THEN Promote(tree, p, side) ELSE tree

Lifted == Lift(t, job.parent, MendSide)
Sibling == Lifted.child[job.parent][MendSide]
RedBelow(tree, n) == \E s \in {LEFT, RIGHT} : Red(tree, tree.child[n][s])

(* the sibling has no red child: it turns red, and the loop goes on above   *)
MendUp ==
  /\ Mending
  /\ ~RedBelow(Lifted, Sibling)
  /\ t' = SetRed(Lifted, Sibling)
  /\ job' = [job EXCEPT !.node = job.parent, !.parent = Lifted.parent[job.parent]]
  /\ UNCHANGED <<size, contents>>

(* the red one of the sibling's children is brought to the outside          *)
TurnOut(tree, s, side) ==
  IF Red(tree, tree.child[s][side]) THEN tree ELSE Promote(tree, s, 1 - side)

(* the sibling takes the parent's place and colour                          *)
Settle(tree, p, side) ==
  LET s == tree.child[p][side]
      painted == IF Red(tree, p) THEN SetRed(tree, s) ELSE SetBlack(tree, {s})
  IN Rotate(SetBlack(painted, {p, tree.child[s][side]}), p, side)

MendOver ==
  /\ Mending
  /\ RedBelow(Lifted, Sibling)
  /\ t' = Settle(TurnOut(Lifted, Sibling, MendSide), job.parent, MendSide)
  /\ job' = [job EXCEPT !.node = t'.root]
  /\ UNCHANGED <<size, contents>>

(* the node removed is the destructor's: nothing of it is read again        *)
RemoveDone ==
  /\ job.op \in {"mend", "removed"}
  /\ ~Mending
  /\ t' = LET mended == IF job.op = "mend" THEN SetBlack(t, {job.node}) ELSE t
          IN [SetBlack(mended, {job.subject}) EXCEPT
                !.child[job.subject] = EmptyTree.child[job.subject], !.parent[job.subject] = Nil]
  /\ size' = size - 1
  /\ contents' = contents \ {job.subject}
  /\ job' = Idle

(* rbtree_clear *)
Clear == /\ job.op = "idle"
         /\ t' = EmptyTree
         /\ size' = 0
         /\ contents' = {}
         /\ UNCHANGED job

Next == \/ \E n \in Nodes : \/ InsertRefused(n)
                            \/ \E multi \in BOOLEAN : InsertLeaf(n, multi)
                            \/ Unlink(n)
        \/ InsertRecolour \/ InsertRotate \/ InsertDone
        \/ MendUp \/ MendOver \/ RemoveDone \/ Clear

Spec == Init /\ [][Next]_vars
-------------------------------------------------------------------------------
InOrder == LET From[n \in Nodes \cup {Nil}] ==
                 IF n = Nil THEN <<>>
                 ELSE From[t.child[n][LEFT]] \o <<n>> \o From[t.child[n][RIGHT]]
           IN From[t.root]

BlacksAbove == LET From[n \in Nodes \cup {Nil}] ==
                     IF n = Nil THEN 0
                     ELSE (IF Red(t, n) THEN 0 ELSE 1) + From[t.parent[n]]
               IN From

Children(n) == {t.child[n][LEFT], t.child[n][RIGHT]} \ {Nil}
HasRoom(n) == Cardinality(Children(n)) < 2

(* Between two operations the tree is balanced: the root is black, no red   *)
(* node has a red child, and as many black nodes are above every free place.*)
TreeIsBalanced ==
  job.op = "idle" =>
    /\ ~Red(t, t.root)
    /\ \A n \in t.red : Children(n) \cap t.red = {}
    /\ \A m, n \in contents : HasRoom(m) /\ HasRoom(n) => BlacksAbove[m] = BlacksAbove[n]

(* Between two operations the tree holds, in order, the nodes that were     *)
(* inserted and not removed; every one of them is found by its key; size    *)
(* counts them; and stepping from node to node either way meets them all.   *)
TreeHoldsContents ==
  job.op = "idle" =>
    LET seq == InOrder
        At(i) == IF i \in DOMAIN seq THEN seq[i] ELSE Nil
    IN /\ Range(seq) = contents
       /\ Len(seq) = size /\ size = Cardinality(contents)
       /\ \A i \in 2 .. Len(seq) : Key[seq[i - 1]] <= Key[seq[i]]
       /\ \A n \in contents : Find(t, Key[n]) # Nil
       /\ \A i \in DOMAIN seq : /\ Iterate(t, seq[i], RIGHT) = At(i + 1)
                                /\ Iterate(t, seq[i], LEFT) = At(i - 1)
==============================================================================
