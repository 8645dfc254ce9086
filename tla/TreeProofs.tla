------------------------------ MODULE TreeProofs ------------------------------
(***************************************************************************)
(* The red-black trees: balanced and in order between any two operations,  *)
(* for any nodes, keys and numbers of them.                                *)
(*                                                                         *)
(* What carries it is a numbering of the nodes in their order (pos), and   *)
(* for every node the numbers that the nodes below it lie between (bnd):   *)
(* both are right or wrong link by link, and a rotation changes bnd of two *)
(* nodes.  Numbers of black nodes below (h) say the same of the balance.   *)
(***************************************************************************)
EXTENDS RBTree, Integers, WellFoundedInduction, FiniteSetTheorems, SequenceTheorems, TLAPS

Side == {LEFT, RIGHT}
Links == Nodes \cup {Nil}
Trees == [root : Links, child : [Nodes -> [Side -> Links]],
          parent : [Nodes -> Links], red : SUBSET Nodes]

(* v is on side s of w; and nothing fits in between                        *)
OnSide(s, v, w) == IF s = LEFT THEN v < w ELSE w < v
Beside(s, v, w) == IF s = LEFT THEN w = v + 1 ELSE v = w + 1

(* The links of the tree of the nodes S: down and up again.                 *)
Linked(tr, S) ==
  /\ tr \in Trees /\ S \subseteq Nodes /\ Nil \notin Nodes
  /\ tr.root \in S \cup {Nil} /\ (tr.root = Nil <=> S = {})
  /\ \A n \in S : tr.parent[n] \in S \cup {Nil}
  /\ \A n \in S : tr.parent[n] = Nil <=> n = tr.root
  /\ \A n \in S : n # tr.root => \E s \in Side : tr.child[tr.parent[n]][s] = n
  /\ \A n \in S, s \in Side : tr.child[n][s] # Nil =>
       tr.child[n][s] \in S /\ tr.parent[tr.child[n][s]] = n

(* pos numbers the nodes S from 1 to N.                                     *)
Numbered(S, N, pos) ==
  /\ N \in Nat /\ pos \in [Nodes -> Int]
  /\ \A n \in S : 1 <= pos[n] /\ pos[n] <= N
  /\ \A m, n \in S : pos[m] = pos[n] => m = n
  /\ \A i \in 1 .. N : \E n \in S : pos[n] = i

(* The nodes below n have the numbers between bnd[n][LEFT] and              *)
(* bnd[n][RIGHT]: n its own, its children those on either side of that.     *)
Bounded(tr, S, N, pos, bnd) ==
  /\ bnd \in [Nodes -> [Side -> Int]]
  /\ tr.root # Nil => bnd[tr.root][LEFT] = 0 /\ bnd[tr.root][RIGHT] = N + 1
  /\ \A n \in S : 0 <= bnd[n][LEFT] /\ bnd[n][RIGHT] <= N + 1
  /\ \A n \in S, s \in Side : OnSide(s, bnd[n][s], pos[n])
  /\ \A n \in S, s \in Side : tr.child[n][s] = Nil => Beside(s, bnd[n][s], pos[n])
  /\ \A n \in S, s \in Side : tr.child[n][s] # Nil =>
       /\ bnd[tr.child[n][s]][s] = bnd[n][s]
       /\ bnd[tr.child[n][s]][1 - s] = pos[n]

(* Of two nodes in a row one has the other below it.                        *)
Threaded(tr, S, pos) ==
  \A m, n \in S : pos[n] = pos[m] + 1 => tr.child[m][RIGHT] # Nil \/ tr.child[n][LEFT] # Nil

Ordered(tr, S, N, pos, bnd) ==
  Linked(tr, S) /\ Numbered(S, N, pos) /\ Bounded(tr, S, N, pos, bnd) /\ Threaded(tr, S, pos)

(* Sides come in two.                                                       *)
LEMMA Sides ==
  /\ Side = {0, 1} /\ LEFT = 0 /\ RIGHT = 1
  /\ \A s \in Side : s \in Int /\ 1 - s \in Side /\ 1 - (1 - s) = s /\ s # 1 - s
  /\ \A r, s \in Side : r = s \/ r = 1 - s
  /\ \A s \in Side, v, w \in Int : /\ ~(OnSide(s, v, w) /\ OnSide(1 - s, v, w))
                                   /\ Beside(s, v, w) => OnSide(s, v, w)
                                   /\ (OnSide(s, v, w) <=> OnSide(1 - s, w, v))
                                   /\ (Beside(s, v, w) <=> Beside(1 - s, w, v))
                                   /\ ~OnSide(s, v, v)
  /\ \A s \in Side, u, v, w \in Int :
       OnSide(s, u, v) /\ OnSide(s, v, w) => OnSide(s, u, w) /\ ~Beside(s, u, w)
<1>1. Side = {0, 1} /\ LEFT = 0 /\ RIGHT = 1
  BY DEF Side, LEFT, RIGHT
<1>2. 1 - 0 = 1 /\ 1 - 1 = 0
  OBVIOUS
<1>3. \A s \in Side : s = 0 \/ s = 1
  BY <1>1
<1>4. \A s \in Side : s \in Int /\ 1 - s \in Side /\ 1 - (1 - s) = s /\ s # 1 - s
  BY <1>1, <1>2, <1>3
<1>5. \A r, s \in Side : r = s \/ r = 1 - s
  BY <1>2, <1>3
<1>6. ASSUME NEW s \in Side, NEW v \in Int, NEW w \in Int
      PROVE  /\ ~(OnSide(s, v, w) /\ OnSide(1 - s, v, w))
             /\ Beside(s, v, w) => OnSide(s, v, w)
             /\ OnSide(s, v, w) <=> OnSide(1 - s, w, v)
             /\ Beside(s, v, w) <=> Beside(1 - s, w, v)
             /\ ~OnSide(s, v, v)
  <2>1. CASE s = 0
    BY <1>1, <1>2, <2>1 DEF OnSide, Beside
  <2>2. CASE s = 1
    BY <1>1, <1>2, <2>2 DEF OnSide, Beside
  <2>. QED
    BY <1>3, <2>1, <2>2
<1>7. ASSUME NEW s \in Side, NEW u \in Int, NEW v \in Int, NEW w \in Int,
             OnSide(s, u, v), OnSide(s, v, w)
      PROVE  OnSide(s, u, w) /\ ~Beside(s, u, w)
  <2>1. CASE s = 0
    BY <1>1, <1>2, <1>7, <2>1 DEF OnSide, Beside
  <2>2. CASE s = 1
    BY <1>1, <1>2, <1>7, <2>2 DEF OnSide, Beside
  <2>. QED
    BY <1>3, <2>1, <2>2
<1>. QED
  BY <1>1, <1>4, <1>5, <1>6, <1>7

(* What the links of a tree are.                                            *)
LEMMA LinkTypes ==
  ASSUME NEW tr, NEW S, Linked(tr, S)
  PROVE  /\ tr.root \in Links /\ tr.red \subseteq Nodes
         /\ tr.child \in [Nodes -> [Side -> Links]]
         /\ tr.parent \in [Nodes -> Links]
         /\ tr = [root |-> tr.root, child |-> tr.child, parent |-> tr.parent, red |-> tr.red]
         /\ Nil \notin S /\ S \subseteq Nodes
<1>1. tr \in Trees /\ S \subseteq Nodes /\ Nil \notin Nodes
  BY DEF Linked
<1>2. /\ tr.root \in Links /\ tr.red \in SUBSET Nodes
      /\ tr.child \in [Nodes -> [Side -> Links]]
      /\ tr.parent \in [Nodes -> Links]
  BY <1>1 DEF Trees
<1>3. tr = [root |-> tr.root, child |-> tr.child, parent |-> tr.parent, red |-> tr.red]
  BY <1>1 DEF Trees
<1>. QED
  BY <1>1, <1>2, <1>3

(* A node, a child of it and a child of that are three.                     *)
LEMMA Kin ==
  ASSUME NEW tr, NEW S, NEW N, NEW pos, NEW bnd, Ordered(tr, S, N, pos, bnd),
         NEW n \in S, NEW s \in Side, tr.child[n][s] # Nil
  PROVE  /\ tr.child[n][s] \in S /\ tr.parent[tr.child[n][s]] = n
         /\ tr.child[n][s] # n /\ tr.child[n][s] # tr.child[n][1 - s]
         /\ \A r \in Side : tr.child[tr.child[n][s]][r] # n
         /\ OnSide(s, pos[tr.child[n][s]], pos[n])
         /\ ~Beside(s, bnd[n][s], pos[n])
<1>. DEFINE c == tr.child[n][s]
<1>1. c \in S /\ tr.parent[c] = n
  BY DEF Ordered, Linked
<1>2. S \subseteq Nodes /\ pos[n] \in Int /\ pos[c] \in Int /\ 1 - s \in Side
      /\ \A r \in Side : bnd[n][r] \in Int /\ bnd[c][r] \in Int
  BY <1>1, Sides DEF Ordered, Linked, Numbered, Bounded
<1>3. /\ bnd[c][s] = bnd[n][s] /\ bnd[c][1 - s] = pos[n]
      /\ OnSide(s, bnd[c][s], pos[c]) /\ OnSide(1 - s, bnd[c][1 - s], pos[c])
      /\ OnSide(s, bnd[n][s], pos[n]) /\ OnSide(1 - s, bnd[n][1 - s], pos[n])
  BY <1>1, <1>2 DEF Ordered, Bounded
<1>4. OnSide(s, pos[c], pos[n])
  BY <1>2, <1>3, Sides
<1>5. c # n
  BY <1>2, <1>4, Sides
<1>6. c # tr.child[n][1 - s]
  <2>. SUFFICES ASSUME tr.child[n][1 - s] = c PROVE FALSE
    OBVIOUS
  <2>1. bnd[c][1 - s] = bnd[n][1 - s]
    BY <1>1, <1>2 DEF Ordered, Bounded
  <2>. QED
    BY <1>2, <1>3, <2>1, Sides
<1>7. ASSUME NEW r \in Side, tr.child[c][r] = n PROVE FALSE
  <2>1. c = tr.parent[n]
    BY <1>1, <1>7, LinkTypes DEF Ordered, Linked
  <2>2. bnd[n][r] = bnd[c][r] /\ bnd[n][1 - r] = pos[c] /\ 1 - r \in Side
    BY <1>1, <1>7, LinkTypes, Sides DEF Ordered, Bounded
  <2>3. r = s \/ r = 1 - s
    BY Sides
  <2>4. CASE r = s
    BY <1>2, <1>3, <1>4, <2>2, <2>4, Sides
  <2>5. CASE r = 1 - s
    BY <1>2, <1>3, <1>4, <2>2, <2>5, Sides
  <2>. QED
    BY <2>3, <2>4, <2>5
<1>8. ~Beside(s, bnd[n][s], pos[n])
  BY <1>2, <1>3, <1>4, Sides
<1>. QED
  BY <1>1, <1>4, <1>5, <1>6, <1>7, <1>8

-------------------------------------------------------------------------------
(***************************************************************************)
(* Rotation: `up`, below n on side s, comes to be above it.                *)
(***************************************************************************)

Rotated(tr, R, n, s) ==
  LET up == tr.child[n][s]
      inner == tr.child[up][1 - s]
      p == tr.parent[n]
  IN /\ R \in Trees
     /\ R.root = IF p = Nil THEN up ELSE tr.root
     /\ \A m \in Nodes, r \in Side :
          R.child[m][r] = IF m = n /\ r = s THEN inner
                          ELSE IF m = up /\ r = 1 - s THEN n
                          ELSE IF m = p /\ tr.child[p][r] = n THEN up
                          ELSE tr.child[m][r]
     /\ \A m \in Nodes : R.parent[m] = IF m = n THEN up
                                       ELSE IF m = up THEN p
                                       ELSE IF m = inner THEN n
                                       ELSE tr.parent[m]

(* What setting one link changes.                                           *)
Reparented(tr, R, n, p) ==
  /\ R \in Trees /\ R.root = tr.root /\ R.child = tr.child /\ R.red = tr.red
  /\ \A m \in Nodes : R.parent[m] = IF m = n THEN p ELSE tr.parent[m]

Relinked(tr, R, n, s, c) ==
  /\ R \in Trees /\ R.root = tr.root /\ R.parent = tr.parent /\ R.red = tr.red
  /\ \A m \in Nodes, r \in Side : R.child[m][r] = IF m = n /\ r = s THEN c ELSE tr.child[m][r]

PutBelow(tr, R, p, n, c) ==
  /\ R \in Trees /\ R.parent = tr.parent /\ R.red = tr.red
  /\ R.root = IF p = Nil THEN c ELSE tr.root
  /\ \A m \in Nodes, r \in Side :
       R.child[m][r] = IF m = p /\ tr.child[p][r] = n THEN c ELSE tr.child[m][r]

LEMMA SetParentIs ==
  ASSUME NEW tr \in Trees, Nil \notin Nodes, NEW n \in Links, NEW p \in Links
  PROVE  Reparented(tr, SetParent(tr, n, p), n, p)
<1>1. CASE n = Nil
  BY <1>1 DEF SetParent, Reparented
<1>2. CASE n # Nil
  <2>. DEFINE new == [tr.parent EXCEPT ![n] = p]
              R == [tr EXCEPT !.parent = new]
  <2>1. R = [root |-> tr.root, child |-> tr.child, parent |-> new, red |-> tr.red]
    <3>. HIDE DEF new
    <3>. QED
      BY DEF Trees
  <2>2. tr.parent \in [Nodes -> Links] /\ n \in Nodes
    BY <1>2 DEF Trees, Links
  <2>3. /\ new \in [Nodes -> Links]
        /\ \A m \in Nodes : new[m] = IF m = n THEN p ELSE tr.parent[m]
    BY <2>2
  <2>4. SetParent(tr, n, p) = R
    BY <1>2 DEF SetParent
  <2>. HIDE DEF new, R
  <2>5. R \in Trees
    BY <2>1, <2>3 DEF Trees
  <2>6. R.root = tr.root /\ R.child = tr.child /\ R.red = tr.red /\ R.parent = new
    BY <2>1
  <2>. QED
    BY <2>3, <2>4, <2>5, <2>6 DEF Reparented
<1>. QED
  BY <1>1, <1>2

LEMMA SetChildIs ==
  ASSUME NEW tr \in Trees, NEW n \in Nodes, NEW s \in Side, NEW c \in Links
  PROVE  Relinked(tr, SetChild(tr, n, s, c), n, s, c)
<1>. DEFINE new == [tr.child EXCEPT ![n][s] = c]
            R == SetChild(tr, n, s, c)
<1>1. R = [root |-> tr.root, child |-> new, parent |-> tr.parent, red |-> tr.red]
  <2>1. R = [tr EXCEPT !.child = new]
    BY DEF SetChild
  <2>. HIDE DEF R, new
  <2>. QED
    BY <2>1 DEF Trees
<1>2. tr.child \in [Nodes -> [Side -> Links]]
  BY DEF Trees
<1>3. new \in [Nodes -> [Side -> Links]]
      /\ \A m \in Nodes, r \in Side : new[m][r] = IF m = n /\ r = s THEN c ELSE tr.child[m][r]
  BY <1>2
<1>. HIDE DEF R, new
<1>4. R \in Trees
  BY <1>1, <1>3 DEF Trees
<1>5. R.root = tr.root /\ R.child = new /\ R.red = tr.red /\ R.parent = tr.parent
  BY <1>1
<1>6. \A m \in Nodes, r \in Side : R.child[m][r] = IF m = n /\ r = s THEN c ELSE tr.child[m][r]
  BY <1>3, <1>5
<1>7. Relinked(tr, R, n, s, c)
  BY <1>4, <1>5, <1>6 DEF Relinked
<1>. QED
  BY <1>7 DEF R

LEMMA ReplaceIs ==
  ASSUME NEW tr \in Trees, Nil \notin Nodes, NEW p \in Links, NEW n, NEW c \in Links,
         p # Nil => \E s \in Side : tr.child[p][s] = n /\ tr.child[p][1 - s] # n
  PROVE  PutBelow(tr, Replace(tr, p, n, c), p, n, c)
<1>1. CASE p = Nil
  <2>. DEFINE R == [tr EXCEPT !.root = c]
  <2>1. R = [root |-> c, child |-> tr.child, parent |-> tr.parent, red |-> tr.red] /\ R \in Trees
    BY DEF Trees
  <2>2. Replace(tr, p, n, c) = R
    BY <1>1 DEF Replace
  <2>. QED
    BY <1>1, <2>1, <2>2 DEF PutBelow
<1>2. CASE p # Nil
  <2>. DEFINE q == 1 - Across(tr, n, p)
              R == SetChild(tr, p, q, c)
  <2>1. PICK s \in Side : tr.child[p][s] = n /\ tr.child[p][1 - s] # n
    BY <1>2
  <2>2. LEFT \in Side /\ RIGHT \in Side /\ 1 - LEFT = RIGHT /\ 1 - RIGHT = LEFT /\ LEFT # RIGHT
        /\ (s = LEFT \/ s = RIGHT)
    BY Sides
  <2>3. q = s
    BY <2>1, <2>2 DEF Across
  <2>4. \A r \in Side : tr.child[p][r] = n <=> r = q
    BY <2>1, <2>3, Sides
  <2>5. Replace(tr, p, n, c) = R
    BY <1>2 DEF Replace
  <2>6. p \in Nodes /\ q \in Side
    BY <1>2, <2>3 DEF Links
  <2>. HIDE DEF q
  <2>7. Relinked(tr, R, p, q, c)
    BY <2>6, SetChildIs
  <2>. QED
    BY <1>2, <2>4, <2>5, <2>6, <2>7 DEF PutBelow, Relinked
<1>. QED
  BY <1>1, <1>2

(* The node above n, and the side that n is on.                             *)
LEMMA Above ==
  ASSUME NEW tr, NEW S, NEW N, NEW pos, NEW bnd, Ordered(tr, S, N, pos, bnd),
         NEW n \in S, tr.parent[n] # Nil
  PROVE  /\ tr.parent[n] \in S /\ n # tr.root
         /\ LET r == 1 - Across(tr, n, tr.parent[n])
            IN  r \in Side /\ tr.child[tr.parent[n]][r] = n /\ tr.child[tr.parent[n]][1 - r] # n
<1>. DEFINE p == tr.parent[n]
<1>1. p \in S /\ n # tr.root /\ Nil \notin S
  BY LinkTypes DEF Ordered, Linked
<1>2. PICK r \in Side : tr.child[p][r] = n
  BY <1>1 DEF Ordered, Linked
<1>3. tr.child[p][1 - r] # n
  BY <1>1, <1>2, Kin
<1>4. LEFT \in Side /\ RIGHT \in Side /\ 1 - LEFT = RIGHT /\ 1 - RIGHT = LEFT /\ LEFT # RIGHT
  BY Sides
<1>5. r = LEFT \/ r = RIGHT
  BY Sides
<1>6. 1 - Across(tr, n, p) = r
  BY <1>2, <1>3, <1>4, <1>5 DEF Across
<1>. QED
  BY <1>1, <1>2, <1>3, <1>6

(* Rotate is what its name says.                                            *)
LEMMA RotateIs ==
  ASSUME NEW tr, NEW S, NEW N, NEW pos, NEW bnd, Ordered(tr, S, N, pos, bnd),
         NEW n \in S, NEW s \in Side, tr.child[n][s] # Nil
  PROVE  Rotated(tr, Rotate(tr, n, s), n, s) /\ Rotate(tr, n, s).red = tr.red
<1>. DEFINE up == tr.child[n][s]
            inner == tr.child[up][1 - s]
            p == tr.parent[n]
            t0 == SetChild(tr, n, s, inner)
            t1 == SetChild(t0, up, 1 - s, n)
            t2 == Replace(t1, p, n, up)
            t3 == SetParent(t2, inner, n)
            t4 == SetParent(t3, up, p)
            R == SetParent(t4, n, up)
<1>1. /\ tr \in Trees /\ Nil \notin Nodes /\ Nil \notin S /\ S \subseteq Nodes
  BY LinkTypes DEF Ordered, Linked
<1>2. R = Rotate(tr, n, s)
  BY DEF Rotate
<1>3. /\ up \in S /\ up # n /\ tr.parent[up] = n /\ inner # n
      /\ \A r \in Side : tr.child[up][r] # n
      /\ 1 - s \in Side /\ s # 1 - s
  BY Kin, Sides
<1>4. /\ inner \in S \cup {Nil} /\ p \in S \cup {Nil} /\ inner # up
  <2>1. inner \in S \cup {Nil} /\ p \in S \cup {Nil}
    BY <1>3 DEF Ordered, Linked
  <2>2. inner # up
    BY <1>3, <2>1, Kin
  <2>. QED
    BY <2>1, <2>2
<1>5. /\ p # n /\ p # up
      /\ p # Nil => \E r \in Side : tr.child[p][r] = n /\ tr.child[p][1 - r] # n
  <2>1. p # Nil => \E r \in Side : tr.child[p][r] = n /\ tr.child[p][1 - r] # n
    BY Above
  <2>2. p # up
    BY <1>1, <1>3, <2>1
  <2>3. p # n
    BY <1>1, <2>1, Kin
  <2>. QED
    BY <2>1, <2>2, <2>3
<1>6. inner \in Links /\ p \in Links /\ n \in Links /\ up \in Links /\ n \in Nodes /\ up \in Nodes
  BY <1>1, <1>3, <1>4 DEF Links
<1>. HIDE DEF up, inner, p
<1>7. Relinked(tr, t0, n, s, inner) /\ t0 \in Trees
  BY <1>1, <1>6, SetChildIs DEF Relinked
<1>. HIDE DEF t0
<1>8. Relinked(t0, t1, up, 1 - s, n) /\ t1 \in Trees
  BY <1>3, <1>6, <1>7, SetChildIs DEF Relinked
<1>9. /\ t1.root = tr.root /\ t1.parent = tr.parent /\ t1.red = tr.red
      /\ \A m \in Nodes, r \in Side :
           t1.child[m][r] = IF m = n /\ r = s THEN inner
                            ELSE IF m = up /\ r = 1 - s THEN n
                            ELSE tr.child[m][r]
  <2>. HIDE DEF t1
  <2>. QED
    BY <1>3, <1>7, <1>8 DEF Relinked
<1>. HIDE DEF t1
<1>10. PutBelow(t1, t2, p, n, up) /\ t2 \in Trees
  <2>1. p \in Nodes => \A r \in Side : t1.child[p][r] = tr.child[p][r]
    BY <1>5, <1>9
  <2>2. p # Nil => \E r \in Side : t1.child[p][r] = n /\ t1.child[p][1 - r] # n
    BY <1>5, <1>6, <2>1, Sides DEF Links
  <2>. QED
    BY <1>1, <1>6, <1>8, <2>2, ReplaceIs DEF PutBelow
<1>11. /\ t2.root = (IF p = Nil THEN up ELSE tr.root) /\ t2.parent = tr.parent /\ t2.red = tr.red
       /\ \A m \in Nodes, r \in Side :
            t2.child[m][r] = IF m = n /\ r = s THEN inner
                             ELSE IF m = up /\ r = 1 - s THEN n
                             ELSE IF m = p /\ tr.child[p][r] = n THEN up
                             ELSE tr.child[m][r]
  <2>. HIDE DEF t2
  <2>. QED
    BY <1>5, <1>9, <1>10 DEF PutBelow
<1>. HIDE DEF t2
<1>12. Reparented(t2, t3, inner, n) /\ t3 \in Trees
  BY <1>1, <1>6, <1>10, SetParentIs DEF Reparented
<1>. HIDE DEF t3
<1>13. Reparented(t3, t4, up, p) /\ t4 \in Trees
  BY <1>1, <1>6, <1>12, SetParentIs DEF Reparented
<1>. HIDE DEF t4
<1>14. Reparented(t4, R, n, up) /\ R \in Trees
  BY <1>1, <1>6, <1>13, SetParentIs DEF Reparented
<1>. HIDE DEF R
<1>15. \A m \in Nodes : R.parent[m] = IF m = n THEN up
                                     ELSE IF m = up THEN p
                                     ELSE IF m = inner THEN n
                                     ELSE tr.parent[m]
  BY <1>11, <1>12, <1>13, <1>14 DEF Reparented
<1>16. R.root = t2.root /\ R.child = t2.child /\ R.red = tr.red
  BY <1>11, <1>12, <1>13, <1>14 DEF Reparented
<1>17. Rotated(tr, R, n, s)
  BY <1>11, <1>14, <1>15, <1>16 DEF Rotated, up, inner, p
<1>. QED
  BY <1>2, <1>16, <1>17

(* A rotation leaves the nodes in their order, and changes what two of them *)
(* lie between.                                                             *)
RotatedBounds(tr, pos, bnd, n, s) ==
  LET up == tr.child[n][s]
  IN [m \in Nodes |-> IF m = up THEN bnd[n]
                      ELSE IF m = n THEN [bnd[n] EXCEPT ![s] = pos[up]]
                      ELSE bnd[m]]

LEMMA RotateOrders ==
  ASSUME NEW tr, NEW R, NEW S, NEW N, NEW pos, NEW bnd, Ordered(tr, S, N, pos, bnd),
         NEW n \in S, NEW s \in Side, tr.child[n][s] # Nil, Rotated(tr, R, n, s)
  PROVE  Ordered(R, S, N, pos, RotatedBounds(tr, pos, bnd, n, s))
<1>. DEFINE up == tr.child[n][s]
            inner == tr.child[up][1 - s]
            p == tr.parent[n]
            b == RotatedBounds(tr, pos, bnd, n, s)
<1>1. /\ tr \in Trees /\ Nil \notin Nodes /\ Nil \notin S /\ S \subseteq Nodes
  BY LinkTypes DEF Ordered, Linked
<1>2. /\ up \in S /\ up # n /\ tr.parent[up] = n
      /\ \A r \in Side : tr.child[up][r] # n
      /\ 1 - s \in Side /\ s # 1 - s /\ 1 - (1 - s) = s
      /\ up # tr.child[n][1 - s]
  BY Kin, Sides
<1>3. /\ inner \in S \cup {Nil} /\ inner # up /\ inner # n
      /\ inner # Nil => tr.parent[inner] = up
  <2>1. inner \in S \cup {Nil} /\ (inner # Nil => tr.parent[inner] = up)
    BY <1>2 DEF Ordered, Linked
  <2>2. inner # up
    BY <1>1, <1>2, <2>1, Kin
  <2>. QED
    BY <1>2, <2>1, <2>2
<1>4. /\ p \in S \cup {Nil} /\ p # n /\ p # up
      /\ p = Nil <=> n = tr.root
      /\ p # Nil => \E r \in Side : tr.child[p][r] = n /\ tr.child[p][1 - r] # n
  <2>1. p # Nil => \E r \in Side : tr.child[p][r] = n /\ tr.child[p][1 - r] # n
    BY Above
  <2>2. p # up
    BY <1>1, <1>2, <2>1
  <2>3. p # n
    BY <1>1, <2>1, Kin
  <2>4. p \in S \cup {Nil} /\ (p = Nil <=> n = tr.root)
    BY DEF Ordered, Linked
  <2>. QED
    BY <2>1, <2>2, <2>3, <2>4
<1>5. R \in Trees /\ R.root = (IF p = Nil THEN up ELSE tr.root)
  BY DEF Rotated
<1>6. \A m \in Nodes, r \in Side :
        R.child[m][r] = IF m = n /\ r = s THEN inner
                        ELSE IF m = up /\ r = 1 - s THEN n
                        ELSE IF m = p /\ tr.child[p][r] = n THEN up
                        ELSE tr.child[m][r]
  BY DEF Rotated
<1>7. \A m \in Nodes : R.parent[m] = IF m = n THEN up
                                     ELSE IF m = up THEN p
                                     ELSE IF m = inner THEN n
                                     ELSE tr.parent[m]
  BY DEF Rotated
<1>8. /\ tr.root \in S /\ \A m \in S : tr.parent[m] \in S \cup {Nil}
      /\ \A m \in S : tr.parent[m] = Nil <=> m = tr.root
      /\ \A m \in S : m # tr.root => \E r \in Side : tr.child[tr.parent[m]][r] = m
      /\ \A m \in S, r \in Side : tr.child[m][r] # Nil =>
           tr.child[m][r] \in S /\ tr.parent[tr.child[m][r]] = m
  BY DEF Ordered, Linked
<1>9. /\ pos \in [Nodes -> Int] /\ bnd \in [Nodes -> [Side -> Int]] /\ N \in Nat
  BY DEF Ordered, Numbered, Bounded
<1>. HIDE DEF up, inner, p
<1>10. Linked(R, S)
  <2>1. R.root \in S \cup {Nil} /\ (R.root = Nil <=> S = {})
    BY <1>1, <1>2, <1>5, <1>8
  <2>2. \A m \in S : R.parent[m] \in S \cup {Nil}
    BY <1>1, <1>2, <1>4, <1>7, <1>8
  <2>3. ASSUME NEW m \in S PROVE R.parent[m] = Nil <=> m = R.root
    <3>1. CASE m = n
      BY <1>1, <1>2, <1>4, <1>5, <1>7, <3>1
    <3>2. CASE m = up
      BY <1>1, <1>2, <1>4, <1>5, <1>7, <1>8, <3>2
    <3>3. CASE m = inner
      BY <1>1, <1>2, <1>3, <1>4, <1>5, <1>7, <1>8, <3>3
    <3>4. CASE m \notin {n, up, inner}
      BY <1>1, <1>2, <1>4, <1>5, <1>7, <1>8, <3>4
    <3>. QED
      BY <3>1, <3>2, <3>3, <3>4
  <2>4. ASSUME NEW m \in S, m # R.root PROVE \E r \in Side : R.child[R.parent[m]][r] = m
    <3>1. CASE m = n
      BY <1>1, <1>2, <1>6, <1>7, <3>1
    <3>2. CASE m = up
      <4>1. p # Nil /\ R.parent[m] = p
        BY <1>1, <1>2, <1>5, <1>7, <2>4, <3>2
      <4>. QED
        BY <1>1, <1>4, <1>6, <3>2, <4>1
    <3>3. CASE m = inner
      BY <1>1, <1>2, <1>3, <1>6, <1>7, <3>3
    <3>4. CASE m \notin {n, up, inner}
      <4>1. R.parent[m] = tr.parent[m] /\ m # tr.root
        BY <1>1, <1>4, <1>5, <1>7, <2>4, <3>4
      <4>2. PICK r \in Side : tr.child[tr.parent[m]][r] = m
        BY <1>8, <4>1
      <4>3. tr.parent[m] \in Nodes
        BY <1>1, <1>8, <4>1
      <4>4. tr.parent[m] = n => r # s
        BY <3>4, <4>2 DEF up
      <4>5. tr.parent[m] = up => r # 1 - s
        BY <3>4, <4>2 DEF inner
      <4>6. R.child[tr.parent[m]][r] = m
        BY <1>6, <3>4, <4>2, <4>3, <4>4, <4>5
      <4>. QED
        BY <4>1, <4>6
    <3>. QED
      BY <3>1, <3>2, <3>3, <3>4
  <2>5. ASSUME NEW m \in S, NEW r \in Side, R.child[m][r] # Nil
        PROVE  R.child[m][r] \in S /\ R.parent[R.child[m][r]] = m
    <3>1. CASE m = n /\ r = s
      BY <1>1, <1>2, <1>3, <1>6, <1>7, <2>5, <3>1
    <3>2. CASE m = up /\ r = 1 - s
      BY <1>1, <1>2, <1>6, <1>7, <3>2
    <3>3. CASE m = p /\ tr.child[p][r] = n
      BY <1>1, <1>2, <1>4, <1>6, <1>7, <3>3
    <3>4. CASE /\ ~(m = n /\ r = s) /\ ~(m = up /\ r = 1 - s)
               /\ ~(m = p /\ tr.child[p][r] = n)
      <4>1. R.child[m][r] = tr.child[m][r]
        BY <1>1, <1>6, <3>4
      <4>2. tr.child[m][r] \in S /\ tr.parent[tr.child[m][r]] = m
        BY <1>8, <2>5, <4>1
      <4>3. tr.child[m][r] # n
        BY <1>4, <3>4, <4>2 DEF p
      <4>4. tr.child[m][r] # up
        <5>1. tr.child[m][r] = up => m = n
          BY <1>2, <4>2
        <5>2. r = s \/ r = 1 - s
          BY Sides
        <5>. QED
          BY <1>2, <3>4, <5>1, <5>2
      <4>5. tr.child[m][r] # inner
        <5>1. tr.child[m][r] = inner => m = up
          BY <1>1, <1>3, <4>2
        <5>2. r = s \/ r = 1 - s
          BY Sides
        <5>3. inner # Nil => inner # tr.child[up][s]
          BY <1>2, Kin DEF inner
        <5>. QED
          BY <2>5, <3>4, <4>1, <5>1, <5>2, <5>3
      <4>. QED
        BY <1>1, <1>7, <4>1, <4>2, <4>3, <4>4, <4>5
    <3>. QED
      BY <3>1, <3>2, <3>3, <3>4
  <2>. QED
    BY <1>1, <1>5, <2>1, <2>2, <2>3, <2>4, <2>5 DEF Linked
<1>11. /\ b \in [Nodes -> [Side -> Int]]
       /\ \A m \in Nodes, r \in Side :
            b[m][r] = IF m = up THEN bnd[n][r]
                      ELSE IF m = n /\ r = s THEN pos[up]
                      ELSE bnd[m][r]
  BY <1>1, <1>2, <1>9 DEF RotatedBounds, up
<1>12. /\ OnSide(s, pos[up], pos[n])
       /\ bnd[up][s] = bnd[n][s] /\ bnd[up][1 - s] = pos[n]
       /\ inner # Nil => bnd[inner][1 - s] = pos[n] /\ bnd[inner][s] = pos[up]
       /\ inner = Nil => Beside(1 - s, bnd[up][1 - s], pos[up])
  <2>1. OnSide(s, pos[up], pos[n])
    BY Kin DEF up
  <2>. QED
    BY <1>2, <2>1 DEF Ordered, Bounded, up, inner
<1>13. /\ tr.root # Nil => bnd[tr.root][LEFT] = 0 /\ bnd[tr.root][RIGHT] = N + 1
       /\ \A m \in S : 0 <= bnd[m][LEFT] /\ bnd[m][RIGHT] <= N + 1
       /\ \A m \in S, r \in Side : OnSide(r, bnd[m][r], pos[m])
       /\ \A m \in S, r \in Side : tr.child[m][r] = Nil => Beside(r, bnd[m][r], pos[m])
       /\ \A m \in S, r \in Side : tr.child[m][r] # Nil =>
            /\ bnd[tr.child[m][r]][r] = bnd[m][r]
            /\ bnd[tr.child[m][r]][1 - r] = pos[m]
       /\ \A m \in S : 1 <= pos[m] /\ pos[m] <= N
  BY DEF Ordered, Bounded, Numbered
<1>. HIDE DEF b
<1>14. Bounded(R, S, N, pos, b)
  <2>1. R.root # Nil => b[R.root][LEFT] = 0 /\ b[R.root][RIGHT] = N + 1
    BY <1>1, <1>2, <1>4, <1>5, <1>8, <1>11, <1>13, Sides
  <2>2. \A m \in S : 0 <= b[m][LEFT] /\ b[m][RIGHT] <= N + 1
    <3>1. pos[up] \in Int /\ 1 <= pos[up] /\ pos[up] <= N
      BY <1>1, <1>2, <1>9, <1>13
    <3>2. LEFT \in Side /\ RIGHT \in Side
      BY Sides
    <3>3. ASSUME NEW m \in S
          PROVE  b[m][LEFT] \in {bnd[n][LEFT], pos[up], bnd[m][LEFT]}
                 /\ b[m][RIGHT] \in {bnd[n][RIGHT], pos[up], bnd[m][RIGHT]}
      BY <1>1, <1>11, <3>2
    <3>4. ASSUME NEW m \in S
          PROVE  bnd[m][LEFT] \in Int /\ bnd[m][RIGHT] \in Int
      BY <1>1, <1>9, <3>2
    <3>. QED
      BY <1>9, <1>13, <3>1, <3>3, <3>4
  <2>3. ASSUME NEW m \in S, NEW r \in Side
        PROVE  OnSide(r, b[m][r], pos[m])
    <3>1. CASE m = up
      <4>1. r = s \/ r = 1 - s
        BY Sides
      <4>2. \A k \in Side : bnd[n][k] \in Int /\ pos[n] \in Int /\ pos[up] \in Int
        BY <1>1, <1>2, <1>9
      <4>3. CASE r = s
        BY <1>1, <1>2, <1>11, <1>12, <1>13, <3>1, <4>3
      <4>4. CASE r = 1 - s
        <5>1. OnSide(1 - s, bnd[n][1 - s], pos[n]) /\ OnSide(1 - s, pos[n], pos[up])
          BY <1>2, <1>12, <1>13, <4>2, Sides
        <5>2. b[m][r] = bnd[n][1 - s]
          BY <1>1, <1>2, <1>11, <3>1, <4>4
        <5>. QED
          BY <1>2, <3>1, <4>2, <4>4, <5>1, <5>2, Sides
      <4>. QED
        BY <4>1, <4>3, <4>4
    <3>2. CASE m = n /\ r = s
      BY <1>1, <1>2, <1>11, <1>12, <3>2
    <3>3. CASE m # up /\ ~(m = n /\ r = s)
      BY <1>1, <1>11, <1>13, <3>3
    <3>. QED
      BY <3>1, <3>2, <3>3
  <2>4. ASSUME NEW m \in S, NEW r \in Side, R.child[m][r] = Nil
        PROVE  Beside(r, b[m][r], pos[m])
    <3>1. CASE m = n /\ r = s
      <4>1. inner = Nil
        BY <1>1, <1>6, <2>4, <3>1
      <4>2. Beside(1 - s, pos[n], pos[up]) /\ pos[n] \in Int /\ pos[up] \in Int
        BY <1>1, <1>2, <1>9, <1>12, <4>1
      <4>3. Beside(s, pos[up], pos[n])
        BY <1>2, <4>2, Sides
      <4>4. b[m][r] = pos[up]
        BY <1>1, <1>2, <1>11, <3>1
      <4>. QED
        BY <3>1, <4>3, <4>4
    <3>2. CASE m = up
      <4>1. r = s
        BY <1>1, <1>2, <1>6, <2>4, <3>2, Sides
      <4>2. tr.child[up][s] = Nil
        BY <1>1, <1>2, <1>4, <1>6, <2>4, <3>2, <4>1
      <4>. QED
        BY <1>1, <1>2, <1>11, <1>12, <1>13, <3>2, <4>1, <4>2
    <3>3. CASE m # up /\ ~(m = n /\ r = s)
      <4>1. tr.child[m][r] = Nil
        BY <1>1, <1>2, <1>6, <2>4, <3>3
      <4>. QED
        BY <1>1, <1>11, <1>13, <3>3, <4>1
    <3>. QED
      BY <3>1, <3>2, <3>3
  <2>5. ASSUME NEW m \in S, NEW r \in Side, R.child[m][r] # Nil
        PROVE  /\ b[R.child[m][r]][r] = b[m][r]
               /\ b[R.child[m][r]][1 - r] = pos[m]
    <3>. 1 - r \in Side
      BY Sides
    <3>1. CASE m = n /\ r = s
      BY <1>1, <1>2, <1>3, <1>6, <1>11, <1>12, <2>5, <3>1
    <3>2. CASE m = up /\ r = 1 - s
      BY <1>1, <1>2, <1>6, <1>11, <1>12, <3>2
    <3>3. CASE m = p /\ tr.child[p][r] = n
      <4>1. R.child[m][r] = up /\ m # up /\ m # n
        BY <1>1, <1>4, <1>6, <3>3
      <4>2. bnd[n][r] = bnd[m][r] /\ bnd[n][1 - r] = pos[m]
        BY <1>1, <1>13, <3>3
      <4>. QED
        BY <1>1, <1>2, <1>11, <4>1, <4>2
    <3>4. CASE /\ ~(m = n /\ r = s) /\ ~(m = up /\ r = 1 - s)
               /\ ~(m = p /\ tr.child[p][r] = n)
      <4>. DEFINE c == tr.child[m][r]
      <4>1. R.child[m][r] = c
        BY <1>1, <1>6, <3>4
      <4>2. c \in S /\ tr.parent[c] = m /\ bnd[c][r] = bnd[m][r] /\ bnd[c][1 - r] = pos[m]
        BY <1>8, <1>13, <2>5, <4>1
      <4>3. c # n
        BY <1>4, <3>4, <4>2 DEF p
      <4>4. c # up
        <5>1. c = up => m = n
          BY <1>2, <4>2
        <5>2. r = s \/ r = 1 - s
          BY Sides
        <5>. QED
          BY <1>2, <3>4, <5>1, <5>2
      <4>5. b[c][r] = bnd[m][r] /\ b[c][1 - r] = pos[m]
        BY <1>1, <1>11, <4>2, <4>3, <4>4
      <4>6. b[m][r] = bnd[m][r]
        <5>1. CASE m = up
          <6>1. r = s
            BY <3>4, <5>1, Sides
          <6>. QED
            BY <1>1, <1>2, <1>11, <1>12, <5>1, <6>1
        <5>2. CASE m # up
          BY <1>1, <1>11, <3>4, <5>2
        <5>. QED
          BY <5>1, <5>2
      <4>. QED
        BY <4>1, <4>5, <4>6
    <3>. QED
      BY <3>1, <3>2, <3>3, <3>4
  <2>. QED
    BY <1>11, <2>1, <2>2, <2>3, <2>4, <2>5 DEF Bounded
<1>15. Threaded(R, S, pos)
  <2>. SUFFICES ASSUME NEW m \in S, NEW k \in S, pos[k] = pos[m] + 1
                PROVE  R.child[m][RIGHT] # Nil \/ R.child[k][LEFT] # Nil
    BY DEF Threaded
  <2>1. LEFT \in Side /\ RIGHT \in Side /\ LEFT = 0 /\ RIGHT = 1 /\ (s = 0 \/ s = 1)
    BY Sides
  <2>2. tr.child[m][RIGHT] # Nil \/ tr.child[k][LEFT] # Nil
    BY DEF Ordered, Threaded
  <2>3. \A x \in S, r \in Side : tr.child[x][r] # Nil /\ R.child[x][r] = Nil => x = n /\ r = s
    BY <1>1, <1>2, <1>6
  <2>. SUFFICES ASSUME R.child[m][RIGHT] = Nil, R.child[k][LEFT] = Nil PROVE FALSE
    OBVIOUS
  <2>4. inner = Nil
    BY <1>1, <1>6, <2>1, <2>2, <2>3
  <2>5. Beside(s, pos[up], pos[n])
    <3>1. pos[up] \in Int /\ pos[n] \in Int
      BY <1>1, <1>2, <1>9
    <3>. QED
      BY <1>2, <1>12, <2>4, <3>1, Sides
  <2>6. \A x, y \in S : pos[x] = pos[y] => x = y
    BY DEF Ordered, Numbered
  <2>7. R.child[up][1 - s] # Nil
    BY <1>1, <1>2, <1>6
  <2>8. pos[up] \in Int /\ pos[n] \in Int /\ pos[m] \in Int /\ pos[k] \in Int
    BY <1>1, <1>2, <1>9
  <2>9. CASE s = 0
    <3>1. k = n /\ pos[n] = pos[up] + 1
      BY <2>1, <2>2, <2>3, <2>5, <2>9 DEF Beside
    <3>2. m = up
      BY <1>2, <2>6, <2>8, <3>1
    <3>. QED
      BY <2>1, <2>7, <2>9, <3>2
  <2>10. CASE s = 1
    <3>1. m = n /\ pos[up] = pos[n] + 1
      BY <2>1, <2>2, <2>3, <2>5, <2>10 DEF Beside
    <3>2. k = up
      BY <1>2, <2>6, <2>8, <3>1
    <3>. QED
      BY <2>1, <2>7, <2>10, <3>2
  <2>. QED
    BY <2>1, <2>9, <2>10
<1>. QED
  BY <1>10, <1>14, <1>15 DEF Ordered, b

-------------------------------------------------------------------------------
(***************************************************************************)
(* The balance: bh[n] black nodes are on every way down from n to a free   *)
(* place, one less than that below the links X; and a red node has no red  *)
(* child, but those in U and the children of those in D.                   *)
(***************************************************************************)

Blacks(tr, n) == IF n \in tr.red THEN 0 ELSE 1

Fits(tr, h, n, X) ==
  \A s \in Side : h[n] = Blacks(tr, n) + h[tr.child[n][s]] + (IF <<n, s>> \in X THEN 1 ELSE 0)

Even(tr, S, h, X) ==
  h \in [Links -> Nat] /\ h[Nil] = 0 /\ \A n \in S : Fits(tr, h, n, X)

LinkOK(tr, n, c, U, D) == n \in tr.red /\ c \in tr.red => c \in U \/ n \in D

RedOK(tr, S, U, D) ==
  /\ tr.root \in tr.red => tr.root \in U
  /\ \A n \in S, s \in Side : LinkOK(tr, n, tr.child[n][s], U, D)

(* Paint leaves the links alone.                                            *)
Repainted(tr, R) ==
  R \in Trees /\ R.root = tr.root /\ R.child = tr.child /\ R.parent = tr.parent

LEMMA PaintIs ==
  ASSUME NEW tr \in Trees
  PROVE  /\ \A X : Repainted(tr, SetBlack(tr, X)) /\ SetBlack(tr, X).red = tr.red \ X
         /\ \A n \in Nodes : Repainted(tr, SetRed(tr, n)) /\ SetRed(tr, n).red = tr.red \cup {n}
<1>1. ASSUME NEW red \in SUBSET Nodes
      PROVE  Repainted(tr, [tr EXCEPT !.red = red]) /\ [tr EXCEPT !.red = red].red = red
  <2>1. [tr EXCEPT !.red = red] = [root |-> tr.root, child |-> tr.child, parent |-> tr.parent, red |-> red]
    BY DEF Trees
  <2>. QED
    BY <2>1 DEF Repainted, Trees
<1>2. tr.red \subseteq Nodes
  BY DEF Trees
<1>3. ASSUME NEW X PROVE Repainted(tr, SetBlack(tr, X)) /\ SetBlack(tr, X).red = tr.red \ X
  <2>1. tr.red \ X \in SUBSET Nodes
    BY <1>2
  <2>2. SetBlack(tr, X) = [tr EXCEPT !.red = tr.red \ X]
    BY DEF SetBlack
  <2>. QED
    BY <1>1, <2>1, <2>2
<1>4. ASSUME NEW n \in Nodes
      PROVE  Repainted(tr, SetRed(tr, n)) /\ SetRed(tr, n).red = tr.red \cup {n}
  <2>1. tr.red \cup {n} \in SUBSET Nodes
    BY <1>2
  <2>2. SetRed(tr, n) = [tr EXCEPT !.red = tr.red \cup {n}]
    BY DEF SetRed
  <2>. QED
    BY <1>1, <2>1, <2>2
<1>. QED
  BY <1>3, <1>4

LEMMA PaintOrders ==
  ASSUME NEW tr, NEW R, Repainted(tr, R), NEW S, NEW N, NEW pos, NEW bnd,
         Ordered(tr, S, N, pos, bnd)
  PROVE  Ordered(R, S, N, pos, bnd)
<1>1. R \in Trees /\ R.root = tr.root /\ R.child = tr.child /\ R.parent = tr.parent
  BY DEF Repainted
<1>2. Linked(R, S)
  BY <1>1 DEF Ordered, Linked
<1>3. Bounded(R, S, N, pos, bnd)
  BY <1>1 DEF Ordered, Bounded
<1>4. Threaded(R, S, pos)
  BY <1>1 DEF Ordered, Threaded
<1>. QED
  BY <1>2, <1>3, <1>4 DEF Ordered

(* Around a node n with a child on side s.                                  *)
Around(tr, S, n, s) ==
  LET up == tr.child[n][s]
      inner == tr.child[up][1 - s]
      p == tr.parent[n]
  IN /\ up \in S /\ up # n /\ tr.parent[up] = n
     /\ \A r \in Side : tr.child[up][r] # n /\ tr.child[up][r] # up /\ tr.child[n][r] # n
     /\ \A m \in {n, up}, r \in Side : tr.child[m][r] \in S \cup {Nil}
     /\ \A m \in S, r \in Side : tr.child[m][r] = up => m = n /\ r = s
     /\ p \in S \cup {Nil} /\ p # n /\ p # up
     /\ \A m \in S, r \in Side : tr.child[m][r] = n => m = p

LEMMA IsAround ==
  ASSUME NEW tr, NEW S, NEW N, NEW pos, NEW bnd, Ordered(tr, S, N, pos, bnd),
         NEW n \in S, NEW s \in Side, tr.child[n][s] # Nil
  PROVE  Around(tr, S, n, s)
<1>. DEFINE up == tr.child[n][s]
            inner == tr.child[up][1 - s]
            p == tr.parent[n]
<1>1. /\ tr \in Trees /\ Nil \notin Nodes /\ Nil \notin S /\ S \subseteq Nodes
  BY LinkTypes DEF Ordered, Linked
<1>2. /\ up \in S /\ up # n /\ tr.parent[up] = n
      /\ \A r \in Side : tr.child[up][r] # n
      /\ 1 - s \in Side /\ s # 1 - s /\ up # tr.child[n][1 - s]
  BY Kin, Sides
<1>3. \A m \in S, r \in Side : tr.child[m][r] \in S \cup {Nil} /\ tr.child[m][r] # m
  <2>1. ASSUME NEW m \in S, NEW r \in Side, tr.child[m][r] # Nil
        PROVE  tr.child[m][r] \in S /\ tr.child[m][r] # m
    BY <2>1, Kin
  <2>. QED
    BY <1>1, <2>1
<1>4. p \in S \cup {Nil} /\ p # n /\ p # up
  <2>1. p # Nil => \E r \in Side : tr.child[p][r] = n
    BY Above
  <2>2. p \in S \cup {Nil}
    BY DEF Ordered, Linked
  <2>. QED
    BY <1>1, <1>2, <1>3, <2>1, <2>2
<1>5. \A m \in S, r \in Side :
        (tr.child[m][r] = n => m = p) /\ (tr.child[m][r] = up => m = n)
  BY <1>1, <1>2 DEF Ordered, Linked
<1>6. \A r \in Side : tr.child[n][r] = up => r = s
  BY <1>2, Sides
<1>7. \A r \in Side : tr.child[up][r] # n /\ tr.child[up][r] # up /\ tr.child[n][r] # n
  BY <1>2, <1>3
<1>8. \A m \in {n, up}, r \in Side : tr.child[m][r] \in S \cup {Nil}
  BY <1>2, <1>3
<1>9. ASSUME NEW m \in S, NEW r \in Side, tr.child[m][r] = up PROVE m = n /\ r = s
  <2>1. m = n
    BY <1>5, <1>9
  <2>. QED
    BY <1>6, <1>9, <2>1
<1>10. /\ up \in S /\ up # n /\ tr.parent[up] = n
       /\ p \in S \cup {Nil} /\ p # n /\ p # up
  BY <1>2, <1>4
<1>11. \A m \in S, r \in Side : tr.child[m][r] = n => m = p
  BY <1>5
<1>. QED
  BY <1>7, <1>8, <1>9, <1>10, <1>11 DEF Around

(* A rotation of n leaves the heights as they were, but for those of the    *)
(* two nodes that it turns, if these four equations hold.                   *)
Turned(tr, n, up, s, h, a, X) ==
  LET Less(r) == IF <<n, r>> \in X THEN 1 ELSE 0
  IN /\ a = Blacks(tr, n) + h[tr.child[up][1 - s]] + Less(s)
     /\ a = Blacks(tr, n) + h[tr.child[n][1 - s]] + Less(1 - s)
     /\ h[n] = Blacks(tr, up) + a
     /\ h[n] = Blacks(tr, up) + h[tr.child[up][s]]
     /\ \A r \in Side : <<up, r>> \notin X

LEMMA RotateEvens ==
  ASSUME NEW tr, NEW R, NEW S, NEW N, NEW pos, NEW bnd, Ordered(tr, S, N, pos, bnd),
         NEW n \in S, NEW s \in Side, tr.child[n][s] # Nil,
         Rotated(tr, R, n, s), R.red = tr.red,
         NEW h, h \in [Links -> Nat], h[Nil] = 0, NEW X, NEW a \in Nat,
         \A m \in S \ {n, tr.child[n][s]} : Fits(tr, h, m, X),
         Turned(tr, n, tr.child[n][s], s, h, a, X)
  PROVE  Even(R, S, [h EXCEPT ![n] = a, ![tr.child[n][s]] = h[n]], X)
<1>. DEFINE up == tr.child[n][s]
            inner == tr.child[up][1 - s]
            p == tr.parent[n]
            e == [h EXCEPT ![n] = a, ![up] = h[n]]
<1>1. /\ tr \in Trees /\ Nil \notin Nodes /\ Nil \notin S /\ S \subseteq Nodes
      /\ 1 - s \in Side /\ s # 1 - s /\ \A r \in Side : r = s \/ r = 1 - s
  BY LinkTypes, Sides DEF Ordered, Linked
<1>2. Around(tr, S, n, s)
  BY IsAround
<1>3. /\ up \in S /\ up # n
      /\ inner \in S \cup {Nil} /\ inner # up /\ inner # n
      /\ tr.child[up][s] \in S \cup {Nil} /\ tr.child[up][s] # up /\ tr.child[up][s] # n
      /\ tr.child[n][1 - s] \in S \cup {Nil} /\ tr.child[n][1 - s] # n
      /\ tr.child[n][1 - s] # up
  BY <1>1, <1>2 DEF Around
<1>4. n \in Links /\ up \in Links /\ inner \in Links /\ tr.child[n][1 - s] \in Links
      /\ tr.child[up][s] \in Links
  BY <1>1, <1>3 DEF Links
<1>5. \A m \in Nodes, r \in Side :
        R.child[m][r] = IF m = n /\ r = s THEN inner
                        ELSE IF m = up /\ r = 1 - s THEN n
                        ELSE IF m = p /\ tr.child[p][r] = n THEN up
                        ELSE tr.child[m][r]
  BY DEF Rotated
<1>6. /\ p # n /\ p # up
      /\ \A m \in S, r \in Side : tr.child[m][r] = n => m = p
      /\ \A m \in S, r \in Side : tr.child[m][r] = up => m = n /\ r = s
  BY <1>2 DEF Around
<1>7. /\ \A m \in S \ {n, up} : Fits(tr, h, m, X)
      /\ Turned(tr, n, up, s, h, a, X)
      /\ \A m : Blacks(R, m) = Blacks(tr, m)
  BY DEF Blacks
<1>8. e \in [Links -> Nat] /\ e[Nil] = 0
      /\ \A m \in Links : e[m] = IF m = up THEN h[n] ELSE IF m = n THEN a ELSE h[m]
  BY <1>1, <1>3, <1>4 DEF Links
<1>. HIDE DEF up, inner, p, e
<1>9. ASSUME NEW m \in S PROVE Fits(R, e, m, X)
  <2>1. CASE m = n
    <3>1. R.child[n][s] = inner /\ R.child[n][1 - s] = tr.child[n][1 - s]
      BY <1>1, <1>3, <1>5, <1>6
    <3>2. e[n] = a /\ e[inner] = h[inner] /\ e[tr.child[n][1 - s]] = h[tr.child[n][1 - s]]
      BY <1>3, <1>4, <1>8
    <3>3. a = Blacks(R, n) + e[R.child[n][s]] + (IF <<n, s>> \in X THEN 1 ELSE 0)
      BY <1>7, <3>1, <3>2 DEF Turned, inner
    <3>4. a = Blacks(R, n) + e[R.child[n][1 - s]] + (IF <<n, 1 - s>> \in X THEN 1 ELSE 0)
      BY <1>7, <3>1, <3>2 DEF Turned
    <3>. QED
      BY <1>1, <2>1, <3>2, <3>3, <3>4 DEF Fits
  <2>2. CASE m = up
    <3>1. R.child[up][s] = tr.child[up][s] /\ R.child[up][1 - s] = n
      BY <1>1, <1>3, <1>5, <1>6
    <3>2. e[up] = h[n] /\ e[n] = a /\ e[tr.child[up][s]] = h[tr.child[up][s]]
      BY <1>3, <1>4, <1>8
    <3>3. a \in Nat /\ h[tr.child[up][s]] \in Nat /\ Blacks(R, up) \in Nat
      BY <1>4 DEF Blacks
    <3>4. \A r \in Side : <<up, r>> \notin X
      BY <1>7 DEF Turned
    <3>5. h[n] = Blacks(R, up) + e[R.child[up][s]] /\ h[n] = Blacks(R, up) + e[R.child[up][1 - s]]
      BY <1>7, <3>1, <3>2 DEF Turned
    <3>6. h[n] = Blacks(R, up) + e[R.child[up][s]] + 0
          /\ h[n] = Blacks(R, up) + e[R.child[up][1 - s]] + 0
      BY <3>1, <3>2, <3>3, <3>5
    <3>. QED
      BY <1>1, <2>2, <3>2, <3>4, <3>6 DEF Fits
  <2>3. CASE m \notin {n, up}
    <3>1. e[m] = h[m] /\ Fits(tr, h, m, X)
      BY <1>1, <1>7, <1>8, <2>3 DEF Links
    <3>2. ASSUME NEW r \in Side PROVE e[R.child[m][r]] = h[tr.child[m][r]]
      <4>1. CASE tr.child[m][r] = n
        BY <1>1, <1>4, <1>5, <1>6, <1>8, <2>3, <4>1
      <4>2. CASE tr.child[m][r] # n
        <5>1. R.child[m][r] = tr.child[m][r]
          BY <1>1, <1>5, <1>6, <2>3, <4>2
        <5>2. tr.child[m][r] # up
          BY <1>6, <2>3
        <5>3. tr.child[m][r] \in Links
          BY <1>1 DEF Trees
        <5>. QED
          BY <1>8, <4>2, <5>1, <5>2, <5>3
      <4>. QED
        BY <4>1, <4>2
    <3>3. Blacks(R, m) = Blacks(tr, m)
      BY <1>7
    <3>4. ASSUME NEW r \in Side
          PROVE  e[m] = Blacks(R, m) + e[R.child[m][r]] + (IF <<m, r>> \in X THEN 1 ELSE 0)
      BY <3>1, <3>2, <3>3 DEF Fits
    <3>. QED
      BY <3>4 DEF Fits
  <2>. QED
    BY <2>1, <2>2, <2>3
<1>10. Even(R, S, e, X)
  BY <1>8, <1>9 DEF Even
<1>. QED
  BY <1>10 DEF e, up

(* The links that a rotation makes, and those that it leaves.               *)
LinksAround(tr, S, n, s, U, D) ==
  LET up == tr.child[n][s]
  IN /\ \A m \in S, r \in Side :
          (m = n => r # s) /\ (m = up => r # 1 - s) /\ tr.child[m][r] # n
            => LinkOK(tr, m, tr.child[m][r], U, D)
     /\ LinkOK(tr, up, n, U, D)
     /\ LinkOK(tr, n, tr.child[up][1 - s], U, D)
     /\ LinkOK(tr, tr.parent[n], up, U, D)

LEMMA RotateLinks ==
  ASSUME NEW tr, NEW R, NEW S, NEW N, NEW pos, NEW bnd, Ordered(tr, S, N, pos, bnd),
         NEW n \in S, NEW s \in Side, tr.child[n][s] # Nil,
         Rotated(tr, R, n, s), R.red = tr.red, NEW U, NEW D,
         LinksAround(tr, S, n, s, U, D)
  PROVE  \A m \in S, r \in Side : LinkOK(R, m, R.child[m][r], U, D)
<1>. DEFINE up == tr.child[n][s]
            inner == tr.child[up][1 - s]
            p == tr.parent[n]
<1>1. S \subseteq Nodes /\ Nil \notin S
  BY LinkTypes DEF Ordered
<1>2. \A m \in Nodes, r \in Side :
        R.child[m][r] = IF m = n /\ r = s THEN inner
                        ELSE IF m = up /\ r = 1 - s THEN n
                        ELSE IF m = p /\ tr.child[p][r] = n THEN up
                        ELSE tr.child[m][r]
  BY DEF Rotated
<1>3. \A m \in S, r \in Side : tr.child[m][r] = n => m = p
  BY <1>1 DEF Ordered, Linked
<1>5. /\ \A m \in S, r \in Side :
            (m = n => r # s) /\ (m = up => r # 1 - s) /\ tr.child[m][r] # n
              => LinkOK(tr, m, tr.child[m][r], U, D)
      /\ LinkOK(tr, up, n, U, D) /\ LinkOK(tr, n, inner, U, D) /\ LinkOK(tr, p, up, U, D)
  BY DEF LinksAround
<1>. HIDE DEF up, inner, p
<1>4. ASSUME NEW m \in S, NEW r \in Side PROVE LinkOK(tr, m, R.child[m][r], U, D)
  <2>1. CASE m = n /\ r = s
    BY <1>1, <1>2, <1>5, <2>1
  <2>2. CASE m = up /\ r = 1 - s /\ ~(m = n /\ r = s)
    BY <1>1, <1>2, <1>5, <2>2
  <2>3. CASE m = p /\ tr.child[p][r] = n /\ ~(m = n /\ r = s) /\ ~(m = up /\ r = 1 - s)
    BY <1>1, <1>2, <1>5, <2>3
  <2>4. CASE ~(m = n /\ r = s) /\ ~(m = up /\ r = 1 - s) /\ ~(m = p /\ tr.child[p][r] = n)
    <3>1. tr.child[m][r] # n
      BY <1>3, <2>4
    <3>2. R.child[m][r] = tr.child[m][r]
      BY <1>1, <1>2, <2>4
    <3>. QED
      BY <1>5, <2>4, <3>1, <3>2
  <2>. QED
    BY <2>1, <2>2, <2>3, <2>4
<1>. QED
  BY <1>4 DEF LinkOK

(* A tree in order and balanced, but for the links X and the red nodes that *)
(* U and D allow for.                                                       *)
Good(tr, S, N, pos, X, U, D) ==
  /\ \E bnd : Ordered(tr, S, N, pos, bnd)
  /\ \E h : Even(tr, S, h, X)
  /\ RedOK(tr, S, U, D)

(* R is tr but for the nodes S.                                             *)
SameBut(S, tr, R) ==
  \A n \in Nodes \ S : /\ R.parent[n] = tr.parent[n] /\ (n \in R.red <=> n \in tr.red)
                       /\ \A s \in Side : R.child[n][s] = tr.child[n][s]

LEMMA RotateKeeps ==
  ASSUME NEW tr, NEW R, NEW S, NEW N, NEW pos, NEW bnd, Ordered(tr, S, N, pos, bnd),
         NEW n \in S, NEW s \in Side, tr.child[n][s] # Nil, Rotated(tr, R, n, s), R.red = tr.red
  PROVE  SameBut(S, tr, R)
<1>1. Around(tr, S, n, s) /\ S \subseteq Nodes /\ Nil \notin Nodes
  BY IsAround DEF Ordered, Linked
<1>2. 1 - s \in Side
  BY Sides
<1>3. tr.child[n][s] \in S /\ tr.child[tr.child[n][s]][1 - s] \in S \cup {Nil}
      /\ tr.parent[n] \in S \cup {Nil}
  BY <1>1, <1>2 DEF Around
<1>. QED
  BY <1>1, <1>3 DEF Rotated, SameBut

(* Promote, where the child is red and what comes to be below n is black.   *)
Promotable(tr, S, N, pos, n, s, X) ==
  /\ n \in S /\ s \in Side /\ Good(tr, S, N, pos, X, {}, {tr.child[n][s]})
  /\ n \notin tr.red /\ tr.child[n][s] \in tr.red /\ tr.child[n][1 - s] \notin tr.red
  /\ tr.child[tr.child[n][s]][1 - s] \notin tr.red
  /\ <<n, s>> \notin X /\ \A r \in Side : <<tr.child[n][s], r>> \notin X

Promoted(tr, R, S, N, pos, n, s, X) ==
  /\ Good(R, S, N, pos, X, {}, {})
  /\ Rotated(tr, R, n, s) /\ R.red = (tr.red \ {tr.child[n][s]}) \cup {n}
  /\ SameBut(S, tr, R)

LEMMA PromoteIsGood ==
  ASSUME NEW tr, NEW S, NEW N, NEW pos, NEW n, NEW s, NEW X,
         Promotable(tr, S, N, pos, n, s, X)
  PROVE  Promoted(tr, Promote(tr, n, s), S, N, pos, n, s, X)
<1>. DEFINE up == tr.child[n][s]
            inner == tr.child[up][1 - s]
            B == SetBlack(tr, {up})
            P == SetRed(B, n)
            R == Promote(tr, n, s)
<1>. /\ n \in S /\ s \in Side /\ Good(tr, S, N, pos, X, {}, {up})
     /\ n \notin tr.red /\ up \in tr.red /\ tr.child[n][1 - s] \notin tr.red
     /\ inner \notin tr.red /\ <<n, s>> \notin X /\ \A r \in Side : <<up, r>> \notin X
  BY DEF Promotable
<1>1. PICK bnd : Ordered(tr, S, N, pos, bnd)
  BY DEF Good
<1>2. PICK h : Even(tr, S, h, X)
  BY DEF Good
<1>3. /\ tr \in Trees /\ Nil \notin Nodes /\ Nil \notin S /\ S \subseteq Nodes /\ tr.red \subseteq Nodes
      /\ 1 - s \in Side /\ s # 1 - s /\ \A r \in Side : r = s \/ r = 1 - s
  BY <1>1, LinkTypes, Sides DEF Ordered, Linked
<1>4. up # Nil
  BY <1>3
<1>5. Around(tr, S, n, s)
  BY <1>1, <1>4, IsAround
<1>6. up \in S /\ up # n /\ inner # n /\ inner # up
  BY <1>3, <1>5 DEF Around
<1>7. /\ Repainted(tr, P) /\ P.red = (tr.red \ {up}) \cup {n}
  <2>1. Repainted(tr, B) /\ B.red = tr.red \ {up} /\ B \in Trees
    BY <1>3, PaintIs DEF Repainted
  <2>2. Repainted(B, P) /\ P.red = B.red \cup {n}
    <3>. HIDE DEF B
    <3>. QED
      BY <1>3, <2>1, PaintIs
  <2>. HIDE DEF B, P
  <2>. QED
    BY <2>1, <2>2 DEF Repainted
<1>8. R = Rotate(P, n, s)
  BY DEF Promote
<1>. HIDE DEF B, P, R
<1>9. P.child = tr.child /\ P.parent = tr.parent /\ P.root = tr.root
  BY <1>7 DEF Repainted
<1>10. Ordered(P, S, N, pos, bnd)
  BY <1>1, <1>7, PaintOrders
<1>11. Rotated(P, R, n, s) /\ R.red = P.red
  BY <1>4, <1>8, <1>9, <1>10, RotateIs
<1>12. Rotated(tr, R, n, s) /\ R.red = (tr.red \ {up}) \cup {n}
  BY <1>7, <1>9, <1>11 DEF Rotated
<1>13. Ordered(R, S, N, pos, RotatedBounds(P, pos, bnd, n, s))
  BY <1>4, <1>9, <1>10, <1>11, RotateOrders
<1>14. SameBut(S, tr, R)
  <2>1. SameBut(S, P, R)
    BY <1>4, <1>9, <1>10, <1>11, RotateKeeps
  <2>2. \A m \in Nodes \ S : m \in P.red <=> m \in tr.red
    BY <1>3, <1>6, <1>7
  <2>. QED
    BY <1>9, <2>1, <2>2 DEF SameBut
<1>15. \E e : Even(R, S, e, X)
  <2>1. h \in [Links -> Nat] /\ h[Nil] = 0 /\ \A m \in S : Fits(tr, h, m, X)
    BY <1>2 DEF Even
  <2>2. \A m \in S \ {n, up} : Fits(P, h, m, X)
    <3>1. \A m \in S \ {n, up} : Blacks(P, m) = Blacks(tr, m)
      BY <1>7 DEF Blacks
    <3>. QED
      BY <1>9, <2>1, <3>1 DEF Fits
  <2>3. /\ Blacks(tr, n) = 1 /\ Blacks(P, n) = 0 /\ Blacks(tr, up) = 0 /\ Blacks(P, up) = 1
    BY <1>6, <1>7 DEF Blacks
  <2>4. up \in Links /\ inner \in Links /\ tr.child[up][s] \in Links /\ tr.child[n][1 - s] \in Links
    BY <1>3, <1>5, <1>6 DEF Around, Links
  <2>5. h[up] \in Nat /\ h[inner] \in Nat /\ h[tr.child[up][s]] \in Nat /\ h[tr.child[n][1 - s]] \in Nat
    BY <2>1, <2>4
  <2>6. h[up] = h[inner] /\ h[up] = h[tr.child[up][s]]
    <3>1. \A r \in Side : h[up] = 0 + h[tr.child[up][r]] + 0
      BY <1>6, <2>1, <2>3 DEF Fits, up
    <3>. QED
      BY <1>3, <2>5, <3>1 DEF inner
  <2>7. h[n] = 1 + h[up] /\ h[n] = 1 + h[tr.child[n][1 - s]] + (IF <<n, 1 - s>> \in X THEN 1 ELSE 0)
    BY <1>3, <2>1, <2>3, <2>5 DEF Fits
  <2>8. Turned(P, n, up, s, h, h[up], X)
    <3>1. h[up] = 0 + h[inner] + 0 /\ h[n] = 1 + h[tr.child[up][s]]
          /\ h[up] = 0 + h[tr.child[n][1 - s]] + (IF <<n, 1 - s>> \in X THEN 1 ELSE 0)
      BY <2>5, <2>6, <2>7
    <3>. QED
      BY <1>9, <2>3, <2>7, <3>1 DEF Turned
  <2>9. Even(R, S, [h EXCEPT ![n] = h[up], ![up] = h[n]], X)
    BY <1>4, <1>9, <1>10, <1>11, <2>1, <2>2, <2>5, <2>8, RotateEvens
  <2>. QED
    BY <2>9
<1>16. RedOK(R, S, {}, {})
  <2>1. /\ tr.root \notin tr.red
        /\ \A m \in S, r \in Side : m \in tr.red /\ tr.child[m][r] \in tr.red => m = up
    BY DEF Good, RedOK, LinkOK
  <2>2. R.root \notin R.red
    <3>1. R.root = IF tr.parent[n] = Nil THEN up ELSE tr.root
      BY <1>12 DEF Rotated
    <3>2. tr.parent[n] # Nil => tr.root # n
      BY <1>1 DEF Ordered, Linked
    <3>. QED
      BY <1>6, <1>12, <2>1, <3>1, <3>2
  <2>3. ASSUME NEW m \in S, NEW r \in Side, m = n => r # s, m = up => r # 1 - s, P.child[m][r] # n
        PROVE  LinkOK(P, m, P.child[m][r], {}, {})
    <3>1. CASE m = n
      BY <1>3, <1>7, <1>9, <2>3, <3>1 DEF LinkOK
    <3>2. CASE m = up
      BY <1>6, <1>7, <3>2 DEF LinkOK
    <3>3. CASE m \notin {n, up}
      BY <1>7, <1>9, <2>1, <2>3, <3>3 DEF LinkOK
    <3>. QED
      BY <3>1, <3>2, <3>3
  <2>4. LinkOK(P, up, n, {}, {}) /\ LinkOK(P, P.parent[n], up, {}, {})
    BY <1>6, <1>7 DEF LinkOK
  <2>5. LinkOK(P, n, inner, {}, {})
    BY <1>6, <1>7 DEF LinkOK
  <2>6. \A m \in S, r \in Side : LinkOK(R, m, R.child[m][r], {}, {})
    <3>1. \A m \in S, r \in Side :
            (m = n => r # s) /\ (m = P.child[n][s] => r # 1 - s) /\ P.child[m][r] # n
              => LinkOK(P, m, P.child[m][r], {}, {})
      BY <1>9, <2>3
    <3>2. LinksAround(P, S, n, s, {}, {})
      BY <1>9, <2>4, <2>5, <3>1 DEF LinksAround
    <3>. QED
      BY <1>4, <1>9, <1>10, <1>11, <3>2, RotateLinks
  <2>. QED
    BY <2>2, <2>6 DEF RedOK
<1>. QED
  BY <1>12, <1>13, <1>14, <1>15, <1>16 DEF Good, R, Promoted

(* The first rotation of an insertion: the red node u below p, on the       *)
(* inside, comes to be above it.                                            *)
LEMMA InnerIsGood ==
  ASSUME NEW tr, NEW S, NEW N, NEW pos, NEW p \in S, NEW s \in Side,
         Good(tr, S, N, pos, {}, {tr.child[p][s]}, {}),
         tr.root \notin tr.red, p \in tr.red, tr.parent[p] \notin tr.red,
         tr.child[p][s] \in tr.red
  PROVE  LET u == tr.child[p][s]
             R == Rotate(tr, p, s)
         IN /\ Good(R, S, N, pos, {}, {}, {u})
            /\ Rotated(tr, R, p, s) /\ R.red = tr.red /\ SameBut(S, tr, R)
<1>. DEFINE u == tr.child[p][s]
            inner == tr.child[u][1 - s]
            R == Rotate(tr, p, s)
<1>1. PICK bnd : Ordered(tr, S, N, pos, bnd)
  BY DEF Good
<1>2. PICK h : Even(tr, S, h, {})
  BY DEF Good
<1>3. /\ tr \in Trees /\ Nil \notin Nodes /\ Nil \notin S /\ S \subseteq Nodes /\ tr.red \subseteq Nodes
      /\ 1 - s \in Side /\ s # 1 - s /\ \A r \in Side : r = s \/ r = 1 - s
  BY <1>1, LinkTypes, Sides DEF Ordered, Linked
<1>4. u # Nil
  BY <1>3
<1>5. Around(tr, S, p, s)
  BY <1>1, <1>4, IsAround
<1>6. /\ u \in S /\ u # p /\ inner # p /\ inner # u
      /\ \A m \in S, r \in Side : tr.child[m][r] = u => m = p /\ r = s
  BY <1>3, <1>5 DEF Around
<1>7. Rotated(tr, R, p, s) /\ R.red = tr.red
  BY <1>1, <1>4, RotateIs
<1>8. SameBut(S, tr, R)
  BY <1>1, <1>4, <1>7, RotateKeeps
<1>9. Ordered(R, S, N, pos, RotatedBounds(tr, pos, bnd, p, s))
  BY <1>1, <1>4, <1>7, RotateOrders
<1>10. \E e : Even(R, S, e, {})
  <2>1. h \in [Links -> Nat] /\ h[Nil] = 0 /\ \A m \in S : Fits(tr, h, m, {})
    BY <1>2 DEF Even
  <2>2. Blacks(tr, p) = 0 /\ Blacks(tr, u) = 0
    BY DEF Blacks
  <2>3. p \in Links /\ \A m \in {p, u}, r \in Side : tr.child[m][r] \in Links
    BY <1>3, <1>5 DEF Around, Links
  <2>4. \A m \in {p, u}, r \in Side : h[m] = 0 + h[tr.child[m][r]] + 0
    BY <1>6, <2>1, <2>2 DEF Fits
  <2>5. h[p] \in Nat /\ \A m \in {p, u}, r \in Side : h[m] = h[tr.child[m][r]]
    BY <2>1, <2>3, <2>4
  <2>6. h[p] = h[inner] /\ h[p] = h[tr.child[u][s]] /\ h[p] = h[tr.child[p][1 - s]]
    BY <1>3, <2>5
  <2>7. Turned(tr, p, u, s, h, h[p], {})
    <3>1. h[p] = 0 + h[p]
      BY <2>5
    <3>2. h[p] = 0 + h[inner] + 0 /\ h[p] = 0 + h[tr.child[p][1 - s]] + 0
          /\ h[p] = 0 + h[tr.child[u][s]]
      BY <2>5, <2>6
    <3>. QED
      BY <2>2, <3>1, <3>2 DEF Turned
  <2>8. Even(R, S, [h EXCEPT ![p] = h[p], ![u] = h[p]], {})
    BY <1>1, <1>4, <1>7, <2>1, <2>5, <2>7, RotateEvens
  <2>. QED
    BY <2>8
<1>11. RedOK(R, S, {}, {u})
  <2>1. \A m \in S, r \in Side : m \in tr.red /\ tr.child[m][r] \in tr.red => m = p /\ r = s
    BY <1>6 DEF Good, RedOK, LinkOK
  <2>2. R.root \notin R.red
    <3>1. R.root = IF tr.parent[p] = Nil THEN u ELSE tr.root
      BY <1>7 DEF Rotated
    <3>2. tr.parent[p] = Nil => p = tr.root
      BY <1>1 DEF Ordered, Linked
    <3>. QED
      BY <1>7, <3>1, <3>2
  <2>3. LinksAround(tr, S, p, s, {}, {u})
    <3>1. LinkOK(tr, u, p, {}, {u}) /\ LinkOK(tr, tr.parent[p], u, {}, {u})
      BY DEF LinkOK
    <3>2. LinkOK(tr, p, inner, {}, {u})
      BY <1>3, <1>6, <2>1 DEF LinkOK
    <3>3. \A m \in S, r \in Side : (m = p => r # s) => LinkOK(tr, m, tr.child[m][r], {}, {u})
      BY <2>1 DEF LinkOK
    <3>. QED
      BY <3>1, <3>2, <3>3 DEF LinksAround
  <2>4. \A m \in S, r \in Side : LinkOK(R, m, R.child[m][r], {}, {u})
    BY <1>1, <1>4, <1>7, <2>3, RotateLinks
  <2>. QED
    BY <2>2, <2>4 DEF RedOK
<1>12. Good(R, S, N, pos, {}, {}, {u})
  BY <1>9, <1>10, <1>11 DEF Good
<1>. QED
  BY <1>7, <1>8, <1>12

(* the links to c if it is red, and no other                                *)
OnlyRed(tr, S, X, c) ==
  \A n \in S, s \in Side : <<n, s>> \in X <=> c \in tr.red /\ tr.child[n][s] = c

(* Painting a red node black, when a black node was missing below the links *)
(* above it.                                                                *)
Blackened(tr, R, S, N, pos, c) ==
  Good(R, S, N, pos, {}, {}, {}) /\ Repainted(tr, R) /\ R.red = tr.red \ {c}

LEMMA BlackenedIsGood ==
  ASSUME NEW tr, NEW S, NEW N, NEW pos, NEW X, NEW c, NEW U, U = {c}, NEW D, D \subseteq U,
         Good(tr, S, N, pos, X, U, D), c \in S \cup {Nil}, OnlyRed(tr, S, X, c)
  PROVE  Blackened(tr, SetBlack(tr, U), S, N, pos, c)
<1>. DEFINE R == SetBlack(tr, U)
<1>1. PICK bnd : Ordered(tr, S, N, pos, bnd)
  BY DEF Good
<1>2. PICK h : Even(tr, S, h, X)
  BY DEF Good
<1>3. /\ tr \in Trees /\ Nil \notin Nodes /\ Nil \notin S /\ S \subseteq Nodes /\ tr.red \subseteq Nodes
  BY <1>1, LinkTypes DEF Ordered, Linked
<1>4. Repainted(tr, R) /\ R.red = tr.red \ {c}
  BY <1>3, PaintIs
<1>. HIDE DEF R
<1>5. R.child = tr.child /\ R.root = tr.root
  BY <1>4 DEF Repainted
<1>6. Ordered(R, S, N, pos, bnd)
  BY <1>1, <1>4, PaintOrders
<1>7. h \in [Links -> Nat] /\ h[Nil] = 0 /\ \A m \in S : Fits(tr, h, m, X)
  BY <1>2 DEF Even
<1>8. \E e : Even(R, S, e, {})
  <2>1. CASE c \notin tr.red
    <3>1. \A m : Blacks(R, m) = Blacks(tr, m)
      BY <1>4, <2>1 DEF Blacks
    <3>2. \A m \in S, s \in Side : <<m, s>> \notin X
      BY <2>1 DEF OnlyRed
    <3>3. ASSUME NEW m \in S, NEW s \in Side
          PROVE  h[m] = Blacks(R, m) + h[R.child[m][s]] + 0
      <4>1. h[m] = Blacks(tr, m) + h[tr.child[m][s]] + (IF <<m, s>> \in X THEN 1 ELSE 0)
        BY <1>7 DEF Fits
      <4>. QED
        BY <1>5, <3>1, <3>2, <4>1
    <3>4. \A m \in S : Fits(R, h, m, {})
      BY <3>3 DEF Fits
    <3>. QED
      BY <1>7, <3>4 DEF Even
  <2>2. CASE c \in tr.red
    <3>. DEFINE e == [h EXCEPT ![c] = h[c] + 1]
    <3>1. c \in S /\ c \in Links /\ c # Nil
      BY <1>3, <2>2 DEF Links
    <3>2. e \in [Links -> Nat] /\ e[Nil] = 0 /\ \A m \in Links : e[m] = IF m = c THEN h[m] + 1 ELSE h[m]
      BY <1>7, <3>1 DEF Links
    <3>. HIDE DEF e
    <3>3. ASSUME NEW m \in S, NEW s \in Side
          PROVE  e[m] = Blacks(R, m) + e[R.child[m][s]] + 0
      <4>1. m \in Links /\ tr.child[m][s] \in Links
        BY <1>3 DEF Trees, Links
      <4>2. h[m] \in Nat /\ h[tr.child[m][s]] \in Nat
        BY <1>7, <4>1
      <4>3. h[m] = Blacks(tr, m) + h[tr.child[m][s]] + (IF <<m, s>> \in X THEN 1 ELSE 0)
        BY <1>7 DEF Fits
      <4>4. <<m, s>> \in X <=> tr.child[m][s] = c
        BY <2>2 DEF OnlyRed
      <4>5. CASE m = c
        <5>1. tr.child[m][s] # c
          BY <1>1, <3>1, <4>5, Kin
        <5>2. Blacks(tr, m) = 0 /\ Blacks(R, m) = 1
          BY <1>4, <2>2, <4>5 DEF Blacks
        <5>3. e[m] = h[m] + 1 /\ e[tr.child[m][s]] = h[tr.child[m][s]]
          BY <3>2, <4>1, <4>5, <5>1
        <5>4. h[m] = 0 + h[tr.child[m][s]] + 0
          BY <4>3, <4>4, <5>1, <5>2
        <5>. QED
          BY <1>5, <4>2, <5>2, <5>3, <5>4
      <4>6. CASE m # c
        <5>1. Blacks(tr, m) = Blacks(R, m) /\ Blacks(R, m) \in Nat
          BY <1>4, <4>6 DEF Blacks
        <5>2. e[m] = h[m]
          BY <3>2, <4>1, <4>6
        <5>3. CASE tr.child[m][s] = c
          <6>1. e[c] = h[c] + 1 /\ h[m] = Blacks(R, m) + h[c] + 1
            BY <3>1, <3>2, <4>3, <4>4, <5>1, <5>3
          <6>. QED
            BY <1>5, <4>2, <5>1, <5>2, <5>3, <6>1
        <5>4. CASE tr.child[m][s] # c
          <6>1. e[tr.child[m][s]] = h[tr.child[m][s]] /\ h[m] = Blacks(R, m) + h[tr.child[m][s]] + 0
            BY <3>2, <4>1, <4>3, <4>4, <5>1, <5>4
          <6>. QED
            BY <1>5, <5>2, <6>1
        <5>. QED
          BY <5>3, <5>4
      <4>. QED
        BY <4>5, <4>6
    <3>4. \A m \in S : Fits(R, e, m, {})
      BY <3>3 DEF Fits
    <3>. QED
      BY <3>2, <3>4 DEF Even
  <2>. QED
    BY <2>1, <2>2
<1>9. RedOK(R, S, {}, {})
  BY <1>4, <1>5 DEF Good, RedOK, LinkOK
<1>. QED
  BY <1>4, <1>6, <1>8, <1>9 DEF Good, Blackened, R

-------------------------------------------------------------------------------
(***************************************************************************)
(* Insertion.                                                              *)
(***************************************************************************)

(* Above a red node whose parent p is red is a black node g, and p is the   *)
(* child of g across from the uncle.                                        *)
Elders(tr, S, node, p, g, us) ==
  /\ p \in S /\ g \in S /\ tr.parent[p] = g /\ tr.parent[node] = p /\ p \in tr.red
  /\ node # p /\ node # g /\ node # tr.root
  /\ tr.root \notin tr.red /\ g \notin tr.red /\ g # p
  /\ us \in Side /\ 1 - us \in Side /\ tr.child[g][1 - us] = p /\ tr.child[g][us] # p
  /\ \E r \in Side : tr.child[p][r] = node /\ tr.child[p][1 - r] # node

LEMMA InsertKin ==
  ASSUME NEW tr, NEW S, NEW N, NEW pos, NEW node \in S,
         Good(tr, S, N, pos, {}, {node}, {}), tr.parent[node] \in tr.red
  PROVE  LET p == tr.parent[node]
         IN  Elders(tr, S, node, p, tr.parent[p], Across(tr, p, tr.parent[p]))
<1>. DEFINE p == tr.parent[node]
            g == tr.parent[p]
            us == Across(tr, p, g)
<1>1. PICK bnd : Ordered(tr, S, N, pos, bnd)
  BY DEF Good
<1>2. /\ tr \in Trees /\ Nil \notin Nodes /\ Nil \notin S /\ S \subseteq Nodes /\ tr.red \subseteq Nodes
  BY <1>1, LinkTypes DEF Ordered, Linked
<1>3. p # Nil
  BY <1>2
<1>4. p \in S /\ node # tr.root /\ \E r \in Side : tr.child[p][r] = node /\ tr.child[p][1 - r] # node
  BY <1>1, <1>3, Above
<1>5. node # p
  BY <1>1, <1>2, <1>4, Kin
<1>6. tr.root \notin tr.red
  BY <1>4 DEF Good, RedOK
<1>7. g # Nil
  <2>1. p # tr.root
    BY <1>6
  <2>. QED
    BY <1>1, <1>4, <2>1 DEF Ordered, Linked
<1>8. g \in S /\ 1 - us \in Side /\ tr.child[g][1 - us] = p /\ tr.child[g][1 - (1 - us)] # p
  BY <1>1, <1>4, <1>7, Above
<1>9. us \in Side /\ 1 - (1 - us) = us
  BY Sides DEF Across, Side
<1>10. g # p
  BY <1>1, <1>2, <1>4, <1>8, Kin
<1>11. g \notin tr.red
  BY <1>4, <1>5, <1>8 DEF Good, RedOK, LinkOK
<1>12. node # g
  BY <1>1, <1>2, <1>4, <1>8, Kin
<1>13. tr.parent[p] = g /\ tr.parent[node] = p /\ p \in tr.red /\ tr.child[g][us] # p
  BY <1>8, <1>9
<1>. HIDE DEF us, g, p
<1>14. Elders(tr, S, node, p, g, us)
  BY <1>4, <1>5, <1>6, <1>7, <1>8, <1>9, <1>10, <1>11, <1>12, <1>13 DEF Elders
<1>. QED
  BY <1>14 DEF us, g, p

LEMMA RecolourIsGood ==
  ASSUME NEW tr, NEW S, NEW N, NEW pos, NEW node \in S, NEW p, NEW g, NEW us,
         Good(tr, S, N, pos, {}, {node}, {}), Elders(tr, S, node, p, g, us),
         tr.child[g][us] \in tr.red
  PROVE  LET R == SetRed(SetBlack(tr, {tr.child[g][us], p}), g)
         IN  /\ Good(R, S, N, pos, {}, {g}, {})
             /\ R.red = (tr.red \ {tr.child[g][us], p}) \cup {g} /\ Repainted(tr, R)
<1>. DEFINE u == tr.child[g][us]
            B == SetBlack(tr, {u, p})
            R == SetRed(B, g)
<1>1. PICK bnd : Ordered(tr, S, N, pos, bnd)
  BY DEF Good
<1>2. PICK h : Even(tr, S, h, {})
  BY DEF Good
<1>3. /\ tr \in Trees /\ Nil \notin Nodes /\ Nil \notin S /\ S \subseteq Nodes /\ tr.red \subseteq Nodes
  BY <1>1, LinkTypes DEF Ordered, Linked
<1>4. /\ p \in S /\ g \in S /\ tr.parent[p] = g /\ p \in tr.red /\ node # p /\ node # g /\ node # tr.root
      /\ tr.root \notin tr.red /\ g \notin tr.red /\ g # p /\ us \in Side /\ 1 - us \in Side
      /\ tr.child[g][1 - us] = p /\ u # p /\ tr.parent[node] = p
  BY DEF Elders
<1>5. /\ u \in S /\ tr.parent[u] = g /\ u # g
      /\ \A m \in S, r \in Side : /\ tr.child[m][r] = p => m = g /\ r = 1 - us
                                  /\ tr.child[m][r] = u => m = g /\ r = us
      /\ \A r \in Side : tr.child[g][r] \in {p, u}
      /\ \A m \in S, r \in Side : tr.child[m][r] = node => m = p
  <2>1. u # Nil
    BY <1>3
  <2>2. u \in S /\ tr.parent[u] = g /\ u # g
    BY <1>1, <1>4, <2>1, Kin
  <2>3. \A m \in S, r \in Side : (tr.child[m][r] = p => m = g) /\ (tr.child[m][r] = u => m = g)
                                 /\ (tr.child[m][r] = node => m = p)
    BY <1>1, <1>3, <1>4, <2>2 DEF Ordered, Linked
  <2>4. \A r \in Side : r = us \/ r = 1 - us
    BY <1>4, Sides
  <2>. QED
    BY <1>4, <2>2, <2>3, <2>4
<1>6. Repainted(tr, R) /\ R.red = (tr.red \ {u, p}) \cup {g}
  <2>1. Repainted(tr, B) /\ B.red = tr.red \ {u, p} /\ B \in Trees
    BY <1>3, PaintIs DEF Repainted
  <2>. HIDE DEF B
  <2>2. Repainted(B, R) /\ R.red = B.red \cup {g}
    BY <1>3, <1>4, <2>1, PaintIs
  <2>. HIDE DEF R
  <2>. QED
    BY <2>1, <2>2 DEF Repainted
<1>. HIDE DEF u, B, R
<1>7. R.child = tr.child /\ R.root = tr.root
  BY <1>6 DEF Repainted
<1>8. Ordered(R, S, N, pos, bnd)
  BY <1>1, <1>6, PaintOrders
<1>9. \E e : Even(R, S, e, {})
  <2>1. h \in [Links -> Nat] /\ h[Nil] = 0 /\ \A m \in S : Fits(tr, h, m, {})
    BY <1>2 DEF Even
  <2>. DEFINE e == [h EXCEPT ![p] = h[p] + 1, ![u] = h[u] + 1]
  <2>2. S \subseteq Links
    BY <1>3 DEF Links
  <2>3. /\ e \in [Links -> Nat] /\ e[Nil] = 0
        /\ \A m \in Links : e[m] = IF m \in {p, u} THEN h[m] + 1 ELSE h[m]
    BY <1>3, <1>4, <1>5, <2>1, <2>2 DEF Links
  <2>. HIDE DEF e
  <2>4. ASSUME NEW m \in S, NEW s \in Side
        PROVE  e[m] = Blacks(R, m) + e[R.child[m][s]] + 0
    <3>. DEFINE c == tr.child[m][s]
    <3>1. m \in Links /\ c \in Links
      BY <1>3, <2>2 DEF Trees
    <3>2. h[m] \in Nat /\ h[c] \in Nat /\ e[m] \in Nat /\ e[c] \in Nat
      BY <2>1, <2>3, <3>1
    <3>3. h[m] = Blacks(tr, m) + h[c] + 0
      BY <2>1 DEF Fits
    <3>4. CASE m \in {p, u}
      <4>1. c \notin {p, u}
        BY <1>4, <1>5, <3>4
      <4>2. Blacks(tr, m) = 0 /\ Blacks(R, m) = 1
        BY <1>4, <1>5, <1>6, <3>4 DEF Blacks, u
      <4>3. e[m] = h[m] + 1 /\ e[c] = h[c]
        BY <2>3, <3>1, <3>4, <4>1
      <4>. QED
        BY <1>7, <3>2, <3>3, <4>2, <4>3
    <3>5. CASE m = g
      <4>1. c \in {p, u} /\ m \notin {p, u}
        BY <1>4, <1>5, <3>5
      <4>2. Blacks(tr, m) = 1 /\ Blacks(R, m) = 0
        BY <1>4, <1>6, <3>5 DEF Blacks
      <4>3. e[m] = h[m] /\ e[c] = h[c] + 1
        BY <2>3, <3>1, <4>1
      <4>. QED
        BY <1>7, <3>2, <3>3, <4>2, <4>3
    <3>6. CASE m \notin {p, u, g}
      <4>1. c \notin {p, u}
        BY <1>5, <3>6
      <4>2. Blacks(tr, m) = Blacks(R, m)
        BY <1>6, <3>6 DEF Blacks
      <4>3. e[m] = h[m] /\ e[c] = h[c]
        BY <2>3, <3>1, <3>6, <4>1
      <4>. QED
        BY <1>7, <3>3, <4>2, <4>3
    <3>. QED
      BY <3>4, <3>5, <3>6
  <2>5. \A m \in S : Fits(R, e, m, {})
    BY <2>4 DEF Fits
  <2>. QED
    BY <2>3, <2>5 DEF Even
<1>10. RedOK(R, S, {g}, {})
  <2>1. R.root \in R.red => R.root = g
    BY <1>4, <1>6, <1>7
  <2>2. ASSUME NEW m \in S, NEW s \in Side PROVE LinkOK(R, m, R.child[m][s], {g}, {})
    <3>. SUFFICES ASSUME m \in R.red, tr.child[m][s] \in R.red, tr.child[m][s] # g PROVE FALSE
      BY <1>7 DEF LinkOK
    <3>1. m # g
      BY <1>4, <1>5, <1>6
    <3>2. m \in tr.red /\ tr.child[m][s] \in tr.red /\ m # p
      BY <1>6, <3>1
    <3>3. tr.child[m][s] = node
      BY <3>2 DEF Good, RedOK, LinkOK
    <3>. QED
      BY <1>5, <3>2, <3>3
  <2>. QED
    BY <2>1, <2>2 DEF RedOK
<1>11. Good(R, S, N, pos, {}, {g}, {})
  BY <1>8, <1>9, <1>10 DEF Good
<1>. QED
  BY <1>6, <1>11 DEF R, B, u

(* Both rotations.                                                          *)
LEMMA InsertRotateIsGood ==
  ASSUME NEW tr, NEW S, NEW N, NEW pos, NEW node \in S, NEW p, NEW g, NEW us,
         Good(tr, S, N, pos, {}, {node}, {}), Elders(tr, S, node, p, g, us),
         node \in tr.red, tr.child[g][us] \notin tr.red,
         NEW outside, outside = IF tr.child[p][us] = node THEN Rotate(tr, p, us) ELSE tr
  PROVE  LET R == Promote(outside, g, 1 - us)
         IN  /\ Good(R, S, N, pos, {}, {}, {}) /\ SameBut(S, tr, R)
             /\ (IF tr.child[p][us] = node THEN p ELSE node) \in R.red
<1>. DEFINE y == 1 - us
<1>1. PICK bnd : Ordered(tr, S, N, pos, bnd)
  BY DEF Good
<1>2. /\ tr \in Trees /\ Nil \notin Nodes /\ Nil \notin S /\ S \subseteq Nodes /\ tr.red \subseteq Nodes
  BY <1>1, LinkTypes DEF Ordered, Linked
<1>3. /\ p \in S /\ g \in S /\ tr.parent[p] = g /\ p \in tr.red /\ node # p /\ node # g /\ node # tr.root
      /\ tr.root \notin tr.red /\ g \notin tr.red /\ g # p /\ us \in Side /\ y \in Side /\ 1 - y = us
      /\ tr.child[g][y] = p /\ tr.child[g][us] # p /\ tr.parent[node] = p /\ us # y
      /\ \E r \in Side : tr.child[p][r] = node /\ tr.child[p][1 - r] # node
  BY Sides DEF Elders
<1>. HIDE DEF y
<1>4. \A m \in S, r \in Side : m \in tr.red /\ tr.child[m][r] \in tr.red => tr.child[m][r] = node
  BY DEF Good, RedOK, LinkOK
<1>5. \A m \in S, r \in Side : tr.child[m][r] = node => m = p
  BY <1>1, <1>2, <1>3 DEF Ordered, Linked
<1>6. CASE tr.child[p][us] # node
  <2>1. RedOK(tr, S, {}, {p})
    BY <1>3, <1>4, <1>5 DEF RedOK, LinkOK
  <2>2. Good(tr, S, N, pos, {}, {}, {tr.child[g][y]})
    BY <1>3, <2>1 DEF Good
  <2>3. tr.child[p][us] \notin tr.red
    BY <1>3, <1>4, <1>6
  <2>4. /\ Good(Promote(tr, g, y), S, N, pos, {}, {}, {})
        /\ Promote(tr, g, y).red = (tr.red \ {p}) \cup {g} /\ SameBut(S, tr, Promote(tr, g, y))
    <3>1. Promotable(tr, S, N, pos, g, y, {})
      BY <1>3, <2>2, <2>3 DEF Promotable
    <3>2. Promoted(tr, Promote(tr, g, y), S, N, pos, g, y, {})
      BY <3>1, PromoteIsGood
    <3>. QED
      BY <1>3, <3>2 DEF Promoted
  <2>5. outside = tr
    BY <1>6
  <2>. QED
    BY <1>3, <1>6, <2>4, <2>5 DEF y
<1>7. CASE tr.child[p][us] = node
  <2>. DEFINE T1 == Rotate(tr, p, us)
  <2>1. /\ Good(T1, S, N, pos, {}, {}, {node})
        /\ Rotated(tr, T1, p, us) /\ T1.red = tr.red /\ SameBut(S, tr, T1)
    <3>1. Good(tr, S, N, pos, {}, {tr.child[p][us]}, {}) /\ tr.child[p][us] \in tr.red
      BY <1>7
    <3>2. p \in S /\ us \in Side /\ tr.root \notin tr.red /\ p \in tr.red /\ tr.parent[p] \notin tr.red
      BY <1>3
    <3>3. /\ Good(T1, S, N, pos, {}, {}, {tr.child[p][us]})
          /\ Rotated(tr, T1, p, us) /\ T1.red = tr.red /\ SameBut(S, tr, T1)
      BY <3>1, <3>2, InnerIsGood
    <3>. QED
      BY <1>7, <3>3
  <2>. HIDE DEF T1
  <2>2. /\ T1.child[g][y] = node /\ T1.child[g][us] = tr.child[g][us]
        /\ T1.child[node][us] = tr.child[node][us]
    <3>1. \A m \in Nodes, r \in Side :
            T1.child[m][r] = IF m = p /\ r = us THEN tr.child[node][y]
                             ELSE IF m = node /\ r = y THEN p
                             ELSE IF m = g /\ tr.child[g][r] = p THEN node
                             ELSE tr.child[m][r]
      BY <1>3, <1>7, <2>1 DEF Rotated, y
    <3>. QED
      BY <1>2, <1>3, <3>1
  <2>3. tr.child[node][us] \notin tr.red
    BY <1>3, <1>4, <1>5
  <2>4. /\ Good(Promote(T1, g, y), S, N, pos, {}, {}, {})
        /\ Promote(T1, g, y).red = (T1.red \ {node}) \cup {g} /\ SameBut(S, T1, Promote(T1, g, y))
    <3>1. Good(T1, S, N, pos, {}, {}, {T1.child[g][y]})
      BY <2>1, <2>2
    <3>2. Promotable(T1, S, N, pos, g, y, {})
      BY <1>3, <2>1, <2>2, <2>3, <3>1 DEF Promotable
    <3>3. Promoted(T1, Promote(T1, g, y), S, N, pos, g, y, {})
      BY <3>2, PromoteIsGood
    <3>. QED
      BY <2>2, <3>3 DEF Promoted
  <2>5. SameBut(S, tr, Promote(T1, g, y))
    BY <2>1, <2>4 DEF SameBut
  <2>. QED
    BY <1>3, <1>7, <2>1, <2>4, <2>5 DEF y, T1
<1>. QED
  BY <1>6, <1>7

-------------------------------------------------------------------------------
(***************************************************************************)
(* Removal: a black node is missing below p on side y.                     *)
(***************************************************************************)

MendAt(tr, S, N, pos, p, y) ==
  /\ p \in S /\ y \in Side /\ Good(tr, S, N, pos, {<<p, y>>}, {}, {})
  /\ tr.child[p][y] \notin tr.red

(* There is a sibling, and no two red nodes in a row.                       *)
LEMMA SiblingIs ==
  ASSUME NEW tr, NEW S, NEW N, NEW pos, NEW p, NEW y, MendAt(tr, S, N, pos, p, y)
  PROVE  /\ tr.child[p][1 - y] \in S /\ Around(tr, S, p, 1 - y)
         /\ \A m \in S, r \in Side : ~(m \in tr.red /\ tr.child[m][r] \in tr.red)
         /\ tr.root \notin tr.red
<1>1. p \in S /\ y \in Side /\ Good(tr, S, N, pos, {<<p, y>>}, {}, {})
  BY DEF MendAt
<1>2. PICK bnd : Ordered(tr, S, N, pos, bnd)
  BY <1>1 DEF Good
<1>3. PICK h : Even(tr, S, h, {<<p, y>>})
  BY <1>1 DEF Good
<1>4. 1 - y \in Side /\ y # 1 - y
  BY <1>1, Sides
<1>5. tr.child[p][y] \in Links /\ tr.child[p][1 - y] \in Links
  BY <1>1, <1>2, <1>4, LinkTypes DEF Ordered
<1>6. h[tr.child[p][y]] \in Nat /\ h[tr.child[p][1 - y]] \in Nat /\ h[Nil] = 0
  BY <1>3, <1>5 DEF Even
<1>7. Fits(tr, h, p, {<<p, y>>})
  BY <1>1, <1>3 DEF Even
<1>8. h[p] = Blacks(tr, p) + h[tr.child[p][y]] + 1
  BY <1>1, <1>7 DEF Fits
<1>9. h[p] = Blacks(tr, p) + h[tr.child[p][1 - y]] + 0
  BY <1>4, <1>7 DEF Fits
<1>10. Blacks(tr, p) \in Nat
  BY DEF Blacks
<1>11. tr.child[p][1 - y] # Nil
  BY <1>6, <1>8, <1>9, <1>10
<1>12. Around(tr, S, p, 1 - y)
  BY <1>1, <1>2, <1>4, <1>11, IsAround
<1>13. tr.child[p][1 - y] \in S
  BY <1>12 DEF Around
<1>. QED
  BY <1>1, <1>12, <1>13 DEF Good, RedOK, LinkOK

(* A red sibling is rotated away.                                           *)
LEMMA LiftIsGood ==
  ASSUME NEW tr, NEW S, NEW N, NEW pos, NEW p, NEW y, MendAt(tr, S, N, pos, p, y)
  PROVE  LET R == Lift(tr, p, 1 - y)
         IN  /\ MendAt(R, S, N, pos, p, y) /\ SameBut(S, tr, R)
             /\ R.child[p][1 - y] \in S \ R.red
<1>. DEFINE R == Lift(tr, p, 1 - y)
            sib == tr.child[p][1 - y]
            X == {<<p, y>>}
<1>1. /\ p \in S /\ y \in Side /\ Good(tr, S, N, pos, X, {}, {}) /\ tr.child[p][y] \notin tr.red
      /\ 1 - y \in Side /\ 1 - (1 - y) = y /\ y # 1 - y
  BY Sides DEF MendAt
<1>2. /\ sib \in S /\ \A m \in S, r \in Side : ~(m \in tr.red /\ tr.child[m][r] \in tr.red)
  BY SiblingIs
<1>3. /\ sib # p /\ \A r \in Side : tr.child[sib][r] # p /\ tr.child[p][r] # p
  BY SiblingIs DEF Around
<1>4. S \subseteq Nodes /\ Nil \notin Nodes
  BY <1>1 DEF Good, Ordered, Linked
<1>5. CASE sib \notin tr.red
  <2>1. R = tr
    BY <1>5 DEF Lift, Red
  <2>2. SameBut(S, tr, tr)
    BY DEF SameBut
  <2>. QED
    BY <1>2, <1>5, <2>1, <2>2
<1>6. CASE sib \in tr.red
  <2>1. R = Promote(tr, p, 1 - y)
    BY <1>6 DEF Lift, Red
  <2>2. Good(tr, S, N, pos, X, {}, {sib})
    BY <1>1, <1>2 DEF Good, RedOK, LinkOK
  <2>3. <<p, 1 - y>> \notin X /\ \A r \in Side : <<sib, r>> \notin X
    BY <1>1, <1>3
  <2>4. p \notin tr.red /\ tr.child[sib][y] \notin tr.red
    BY <1>1, <1>2, <1>6
  <2>5. Promotable(tr, S, N, pos, p, 1 - y, X)
    <3>. HIDE DEF X
    <3>. QED
      BY <1>1, <1>6, <2>2, <2>3, <2>4 DEF Promotable
  <2>6. Promoted(tr, R, S, N, pos, p, 1 - y, X)
    <3>. HIDE DEF X
    <3>. QED
      BY <2>1, <2>5, PromoteIsGood
  <2>. HIDE DEF R
  <2>7. /\ Good(R, S, N, pos, X, {}, {}) /\ R.red = (tr.red \ {sib}) \cup {p} /\ SameBut(S, tr, R)
        /\ R.child[p][1 - y] = tr.child[sib][y] /\ R.child[p][y] = tr.child[p][y]
    <3>1. /\ Good(R, S, N, pos, X, {}, {}) /\ R.red = (tr.red \ {sib}) \cup {p} /\ SameBut(S, tr, R)
          /\ Rotated(tr, R, p, 1 - y)
      BY <2>6 DEF Promoted
    <3>2. tr.parent[p] # p
      BY SiblingIs DEF Around
    <3>. QED
      BY <1>1, <1>3, <1>4, <3>1, <3>2 DEF Rotated
  <2>8. MendAt(R, S, N, pos, p, y)
    BY <1>1, <1>3, <2>7 DEF MendAt
  <2>9. R.child[p][1 - y] \in S
    BY <2>8, SiblingIs
  <2>10. R.child[p][1 - y] \notin R.red
    BY <1>1, <1>3, <2>4, <2>7
  <2>. QED
    BY <2>7, <2>8, <2>9, <2>10 DEF R
<1>. QED
  BY <1>5, <1>6

(* A black sibling with a red child has it on the outside.                  *)
LEMMA TurnOutIsGood ==
  ASSUME NEW tr, NEW S, NEW N, NEW pos, NEW p, NEW y, MendAt(tr, S, N, pos, p, y),
         tr.child[p][1 - y] \notin tr.red, RedBelow(tr, tr.child[p][1 - y])
  PROVE  LET R == TurnOut(tr, tr.child[p][1 - y], 1 - y)
         IN  /\ MendAt(R, S, N, pos, p, y) /\ SameBut(S, tr, R)
             /\ R.child[p][1 - y] \in S \ R.red
             /\ R.child[R.child[p][1 - y]][1 - y] \in R.red
<1>. DEFINE s == tr.child[p][1 - y]
            far == tr.child[s][1 - y]
            near == tr.child[s][y]
            R == TurnOut(tr, s, 1 - y)
            X == {<<p, y>>}
<1>1. /\ p \in S /\ y \in Side /\ Good(tr, S, N, pos, X, {}, {}) /\ tr.child[p][y] \notin tr.red
      /\ 1 - y \in Side /\ 1 - (1 - y) = y /\ y # 1 - y
  BY Sides DEF MendAt
<1>2. /\ s \in S /\ \A m \in S, r \in Side : ~(m \in tr.red /\ tr.child[m][r] \in tr.red)
  BY SiblingIs
<1>3. /\ s # p /\ \A r \in Side : tr.child[s][r] # p /\ tr.child[s][r] # s
      /\ tr.child[p][y] # s
  BY <1>1, SiblingIs DEF Around
<1>4. S \subseteq Nodes /\ Nil \notin Nodes /\ tr.red \subseteq Nodes
  BY <1>1, LinkTypes DEF Good, Ordered, Linked
<1>5. far \in tr.red \/ near \in tr.red
  <2>1. \A r \in {LEFT, RIGHT} : r = y \/ r = 1 - y
    BY <1>1, Sides DEF Side
  <2>. QED
    BY <2>1 DEF RedBelow, Red
<1>6. CASE far \in tr.red
  <2>1. R = tr
    BY <1>6 DEF TurnOut, Red
  <2>2. SameBut(S, tr, tr)
    BY DEF SameBut
  <2>. QED
    BY <1>2, <1>6, <2>1, <2>2
<1>7. CASE far \notin tr.red
  <2>1. R = Promote(tr, s, y)
    BY <1>1, <1>7 DEF TurnOut, Red
  <2>2. near \in tr.red /\ near # Nil
    BY <1>4, <1>5, <1>7
  <2>3. Good(tr, S, N, pos, X, {}, {near})
    BY <1>1, <1>2 DEF Good, RedOK, LinkOK
  <2>4. near \in S /\ tr.child[near][1 - y] \notin tr.red
    <3>1. near \in S
      BY <1>1, <1>2, <2>2 DEF Good, Ordered, Linked
    <3>. QED
      BY <1>1, <1>2, <2>2, <3>1
  <2>5. <<s, y>> \notin X /\ \A r \in Side : <<near, r>> \notin X
    BY <1>1, <1>3
  <2>6. Promotable(tr, S, N, pos, s, y, X)
    <3>. HIDE DEF X
    <3>. QED
      BY <1>1, <1>2, <1>7, <2>2, <2>3, <2>4, <2>5 DEF Promotable
  <2>7. Promoted(tr, R, S, N, pos, s, y, X)
    <3>. HIDE DEF X
    <3>. QED
      BY <2>1, <2>6, PromoteIsGood
  <2>. HIDE DEF R
  <2>8. /\ Good(R, S, N, pos, X, {}, {}) /\ R.red = (tr.red \ {near}) \cup {s} /\ SameBut(S, tr, R)
        /\ Rotated(tr, R, s, y)
    BY <2>7 DEF Promoted
  <2>9. tr.parent[s] = p
    BY SiblingIs DEF Around
  <2>10. /\ R.child[p][1 - y] = near /\ R.child[p][y] = tr.child[p][y] /\ R.child[near][1 - y] = s
    <3>1. \A m \in Nodes, r \in Side :
            R.child[m][r] = IF m = s /\ r = y THEN tr.child[near][1 - y]
                            ELSE IF m = near /\ r = 1 - y THEN s
                            ELSE IF m = p /\ tr.child[p][r] = s THEN near
                            ELSE tr.child[m][r]
      BY <2>8, <2>9 DEF Rotated
    <3>2. near # p /\ near # s /\ s # p /\ p \in Nodes /\ near \in Nodes /\ tr.child[p][y] # s
      BY <1>1, <1>3, <1>4, <2>4
    <3>3. R.child[p][1 - y] = near
      BY <1>1, <3>1, <3>2
    <3>4. R.child[p][y] = tr.child[p][y]
      BY <1>1, <3>1, <3>2
    <3>5. R.child[near][1 - y] = s
      BY <1>1, <3>1, <3>2
    <3>. QED
      BY <3>3, <3>4, <3>5
  <2>11. MendAt(R, S, N, pos, p, y)
    BY <1>1, <1>3, <2>8, <2>10 DEF MendAt
  <2>. QED
    BY <1>1, <1>3, <2>4, <2>8, <2>10, <2>11 DEF R
<1>. QED
  BY <1>6, <1>7

(* The sibling, black and with a red child on the outside, takes the place  *)
(* and the colour of p: nothing is missing any more.                        *)
LEMMA SettleIsGood ==
  ASSUME NEW tr, NEW S, NEW N, NEW pos, NEW p, NEW y, MendAt(tr, S, N, pos, p, y),
         tr.child[p][1 - y] \notin tr.red, tr.child[tr.child[p][1 - y]][1 - y] \in tr.red
  PROVE  LET R == Settle(tr, p, 1 - y)
         IN  Good(R, S, N, pos, {}, {}, {}) /\ SameBut(S, tr, R)
<1>. DEFINE s == tr.child[p][1 - y]
            far == tr.child[s][1 - y]
            near == tr.child[s][y]
            node == tr.child[p][y]
            B == IF Red(tr, p) THEN SetRed(tr, s) ELSE SetBlack(tr, {s})
            P == SetBlack(B, {p, far})
            R == Settle(tr, p, 1 - y)
<1>1. /\ p \in S /\ y \in Side /\ Good(tr, S, N, pos, {<<p, y>>}, {}, {}) /\ node \notin tr.red
      /\ 1 - y \in Side /\ 1 - (1 - y) = y /\ y # 1 - y /\ \A r \in Side : r = y \/ r = 1 - y
  BY Sides DEF MendAt
<1>2. PICK bnd : Ordered(tr, S, N, pos, bnd)
  BY <1>1 DEF Good
<1>3. PICK h : Even(tr, S, h, {<<p, y>>})
  BY <1>1 DEF Good
<1>4. /\ tr \in Trees /\ Nil \notin Nodes /\ Nil \notin S /\ S \subseteq Nodes /\ tr.red \subseteq Nodes
  BY <1>2, LinkTypes DEF Ordered, Linked
<1>5. /\ s \in S /\ \A m \in S, r \in Side : ~(m \in tr.red /\ tr.child[m][r] \in tr.red)
      /\ tr.root \notin tr.red
  BY SiblingIs
<1>6. /\ s # p /\ node # s /\ node # p /\ \A r \in Side : tr.child[s][r] # p /\ tr.child[s][r] # s
      /\ tr.parent[s] = p
      /\ \A m \in S, r \in Side : tr.child[m][r] = s => m = p /\ r = 1 - y
      /\ \A r \in Side : tr.child[s][r] \in S \cup {Nil} /\ tr.child[p][r] \in S \cup {Nil}
  BY <1>1, SiblingIs DEF Around
<1>7. /\ far \in S /\ far \in tr.red /\ near # far /\ tr.parent[far] = s
      /\ \A m \in S, r \in Side : tr.child[m][r] = far => m = s /\ r = 1 - y
      /\ \A r \in Side : tr.child[far][r] # far
  <2>1. far # Nil
    BY <1>4
  <2>2. Around(tr, S, s, 1 - y)
    BY <1>1, <1>2, <1>5, <2>1, IsAround
  <2>3. /\ far \in S /\ tr.parent[far] = s
        /\ \A m \in S, r \in Side : tr.child[m][r] = far => m = s /\ r = 1 - y
        /\ \A r \in Side : tr.child[far][r] # far
    <3>. HIDE DEF s
    <3>. QED
      BY <2>2 DEF Around
  <2>. QED
    BY <1>1, <1>5, <2>3
<1>8. /\ Repainted(tr, P) /\ P.red = (IF p \in tr.red THEN tr.red \cup {s} ELSE tr.red \ {s}) \ {p, far}
  <2>1. Repainted(tr, B) /\ B.red = (IF p \in tr.red THEN tr.red \cup {s} ELSE tr.red \ {s})
    BY <1>4, <1>5, PaintIs DEF Red
  <2>2. B \in Trees
    BY <2>1 DEF Repainted
  <2>. HIDE DEF B
  <2>3. Repainted(B, P) /\ P.red = B.red \ {p, far}
    BY <2>2, PaintIs
  <2>. HIDE DEF P
  <2>. QED
    BY <2>1, <2>3 DEF Repainted
<1>9. R = Rotate(P, p, 1 - y)
  BY DEF Settle
<1>. HIDE DEF B, P, R
<1>10. P.child = tr.child /\ P.parent = tr.parent /\ P.root = tr.root
  BY <1>8 DEF Repainted
<1>11. s # Nil /\ P.child[p][1 - y] = s
  BY <1>4, <1>5, <1>10
<1>12. Ordered(P, S, N, pos, bnd)
  BY <1>2, <1>8, PaintOrders
<1>13. Rotated(P, R, p, 1 - y) /\ R.red = P.red
  BY <1>1, <1>9, <1>11, <1>12, RotateIs
<1>14. Ordered(R, S, N, pos, RotatedBounds(P, pos, bnd, p, 1 - y))
  BY <1>1, <1>11, <1>12, <1>13, RotateOrders
<1>15. SameBut(S, tr, R)
  <2>1. SameBut(S, P, R)
    BY <1>1, <1>11, <1>12, <1>13, RotateKeeps
  <2>2. \A m \in Nodes \ S : m \in P.red <=> m \in tr.red
    BY <1>1, <1>5, <1>7, <1>8
  <2>. QED
    BY <1>10, <2>1, <2>2 DEF SameBut
<1>16. /\ \A m \in S : m \in P.red <=> IF m = s THEN p \in tr.red ELSE m \in tr.red /\ m \notin {p, far}
  BY <1>5, <1>6, <1>7, <1>8
<1>17. \E e : Even(R, S, e, {})
  <2>. DEFINE k == [h EXCEPT ![far] = h[far] + 1]
  <2>1. /\ h \in [Links -> Nat] /\ h[Nil] = 0 /\ \A m \in S : Fits(tr, h, m, {<<p, y>>})
        /\ S \subseteq Links /\ \A m \in S, r \in Side : tr.child[m][r] \in Links
    <3>1. tr.child \in [Nodes -> [Side -> Links]]
      BY <1>2, LinkTypes DEF Ordered
    <3>2. S \subseteq Links
      BY <1>4 DEF Links
    <3>. QED
      BY <1>3, <1>4, <3>1, <3>2 DEF Even
  <2>2. /\ k \in [Links -> Nat] /\ k[Nil] = 0
        /\ \A m \in Links : k[m] = IF m = far THEN h[m] + 1 ELSE h[m]
    <3>1. far \in Links /\ far # Nil /\ Nil \in Links /\ h[far] + 1 \in Nat
      <4>1. Nil \in Links
        BY DEF Links
      <4>2. far \in Links /\ far # Nil
        BY <1>4, <1>7, <2>1
      <4>. HIDE DEF far
      <4>. QED
        BY <2>1, <4>1, <4>2
    <3>. HIDE DEF far
    <3>. QED
      BY <2>1, <3>1
  <2>. HIDE DEF k
  <2>3. ASSUME NEW m \in S \ {p, s} PROVE Fits(P, k, m, {})
    <3>1. ASSUME NEW r \in Side
          PROVE  k[m] = Blacks(P, m) + k[tr.child[m][r]] + 0
      <4>1. h[m] = Blacks(tr, m) + h[tr.child[m][r]] + 0
        BY <2>1, <2>3 DEF Fits
      <4>2. h[m] \in Nat /\ h[tr.child[m][r]] \in Nat
        BY <2>1
      <4>3. tr.child[m][r] # far /\ k[tr.child[m][r]] = h[tr.child[m][r]]
        BY <1>7, <2>1, <2>2, <2>3
      <4>4. CASE m = far
        <5>1. Blacks(tr, m) = 0 /\ Blacks(P, m) = 1 /\ k[m] = h[m] + 1
          BY <1>7, <1>16, <2>1, <2>2, <2>3, <4>4 DEF Blacks
        <5>. QED
          BY <4>1, <4>2, <4>3, <5>1
      <4>5. CASE m # far
        <5>1. Blacks(tr, m) = Blacks(P, m) /\ k[m] = h[m]
          BY <1>16, <2>1, <2>2, <2>3, <4>5 DEF Blacks
        <5>. QED
          BY <4>1, <4>3, <5>1
      <4>. QED
        BY <4>4, <4>5
    <3>. QED
      BY <1>10, <3>1 DEF Fits
  <2>4. /\ h[p] \in Nat /\ h[s] \in Nat /\ h[far] \in Nat /\ h[near] \in Nat /\ h[node] \in Nat
    BY <1>1, <1>5, <1>7, <2>1
  <2>5. /\ h[p] = Blacks(tr, p) + h[node] + 1 /\ h[p] = Blacks(tr, p) + h[s] + 0
        /\ h[s] = 1 + h[far] + 0 /\ h[s] = 1 + h[near] + 0
    <3>1. Fits(tr, h, p, {<<p, y>>}) /\ Fits(tr, h, s, {<<p, y>>})
      BY <1>1, <1>5, <2>1
    <3>2. h[p] = Blacks(tr, p) + h[node] + 1
      BY <1>1, <3>1 DEF Fits
    <3>3. h[p] = Blacks(tr, p) + h[s] + 0
      BY <1>1, <3>1 DEF Fits
    <3>4. \A r \in Side : h[s] = 1 + h[tr.child[s][r]] + 0
      BY <1>6, <3>1 DEF Fits, Blacks
    <3>. QED
      BY <1>1, <3>2, <3>3, <3>4
  <2>6. /\ Blacks(P, p) = 1 /\ Blacks(P, s) = Blacks(tr, p) /\ Blacks(tr, p) \in Nat
    BY <1>1, <1>5, <1>6, <1>16 DEF Blacks
  <2>7. k[p] = h[p] /\ k[near] = h[near] /\ k[node] = h[node] /\ k[far] = h[far] + 1
    <3>1. p # far /\ near # far /\ node # far
      BY <1>1, <1>6, <1>7
    <3>. QED
      BY <1>1, <1>5, <1>7, <2>1, <2>2, <3>1
  <2>8. /\ h[node] + 1 = Blacks(P, p) + k[near] /\ h[node] + 1 = Blacks(P, p) + k[node]
        /\ k[p] = Blacks(P, s) + (h[node] + 1) /\ k[p] = Blacks(P, s) + k[far]
    BY <2>4, <2>5, <2>6, <2>7
  <2>9. Turned(P, p, s, 1 - y, k, h[node] + 1, {})
    <3>1. Blacks(P, p) + k[near] \in Int /\ Blacks(P, p) + k[node] \in Int
      BY <2>4, <2>6, <2>7
    <3>2. /\ h[node] + 1 = Blacks(P, p) + k[P.child[s][1 - (1 - y)]] + 0
          /\ h[node] + 1 = Blacks(P, p) + k[P.child[p][1 - (1 - y)]] + 0
      BY <1>1, <1>10, <2>4, <2>6, <2>7, <2>8
    <3>3. k[p] = Blacks(P, s) + (h[node] + 1) /\ k[p] = Blacks(P, s) + k[P.child[s][1 - y]]
      BY <1>10, <2>8
    <3>. HIDE DEF node, s
    <3>. QED
      BY <3>2, <3>3 DEF Turned
  <2>10. Even(R, S, [k EXCEPT ![p] = h[node] + 1, ![P.child[p][1 - y]] = k[p]], {})
    <3>1. \A m \in S \ {p, P.child[p][1 - y]} : Fits(P, k, m, {})
      BY <1>11, <2>3
    <3>2. Turned(P, p, P.child[p][1 - y], 1 - y, k, h[node] + 1, {}) /\ P.child[p][1 - y] # Nil
      BY <1>11, <2>9
    <3>3. h[node] + 1 \in Nat
      BY <2>4
    <3>. HIDE DEF node, s
    <3>. QED
      BY <1>1, <1>12, <1>13, <2>2, <3>1, <3>2, <3>3, RotateEvens
  <2>. QED
    BY <2>10
<1>18. RedOK(R, S, {}, {})
  <2>1. R.root \notin R.red
    <3>1. R.root = IF tr.parent[p] = Nil THEN s ELSE tr.root
      BY <1>10, <1>11, <1>13 DEF Rotated
    <3>2. /\ tr.parent[p] = Nil => p = tr.root
          /\ tr.root \in S /\ (tr.parent[p] # Nil => tr.root # s)
      BY <1>1, <1>4, <1>5, <1>6, <1>2 DEF Ordered, Linked
    <3>. QED
      BY <1>5, <1>13, <1>16, <3>1, <3>2
  <2>2. LinksAround(P, S, p, 1 - y, {}, {})
    <3>1. ASSUME NEW m \in S, NEW r \in Side, m = p => r # 1 - y, m = s => r # y, tr.child[m][r] # p
          PROVE  LinkOK(P, m, tr.child[m][r], {}, {})
      <4>. SUFFICES ASSUME m \in P.red, tr.child[m][r] \in P.red PROVE FALSE
        BY DEF LinkOK
      <4>1. m # p /\ tr.child[m][r] \in S
        <5>1. tr.child[m][r] \in Nodes
          BY <1>4, <1>5, <1>8
        <5>2. tr.child[m][r] # Nil
          BY <1>4, <5>1
        <5>. QED
          BY <1>1, <1>2, <1>16, <1>6, <5>2 DEF Ordered, Linked
      <4>2. m # s
        BY <1>1, <1>7, <1>16, <1>6, <3>1, <4>1
      <4>3. tr.child[m][r] # s
        BY <1>6, <4>1
      <4>. QED
        BY <1>5, <1>16, <4>1, <4>2, <4>3
    <3>2. LinkOK(P, s, p, {}, {}) /\ LinkOK(P, p, near, {}, {})
      BY <1>1, <1>6, <1>16 DEF LinkOK
    <3>3. LinkOK(P, tr.parent[p], s, {}, {})
      <4>. SUFFICES ASSUME tr.parent[p] \in P.red, s \in P.red PROVE FALSE
        BY DEF LinkOK
      <4>1. p \in tr.red
        BY <1>5, <1>16
      <4>2. tr.parent[p] # Nil
        BY <1>4, <1>5, <1>8
      <4>3. tr.parent[p] \in S /\ tr.parent[p] # s /\ \E r \in Side : tr.child[tr.parent[p]][r] = p
        BY <1>1, <1>2, <1>6, <4>2, Above
      <4>. QED
        BY <1>5, <1>16, <4>1, <4>3
    <3>. HIDE DEF s, near
    <3>4. LinkOK(P, p, tr.child[s][1 - (1 - y)], {}, {})
      BY <1>1, <3>2 DEF near
    <3>. QED
      BY <1>1, <1>10, <1>11, <3>1, <3>2, <3>3, <3>4 DEF LinksAround
  <2>3. \A m \in S, r \in Side : LinkOK(R, m, R.child[m][r], {}, {})
    BY <1>1, <1>11, <1>12, <1>13, <2>2, RotateLinks
  <2>. QED
    BY <2>1, <2>3 DEF RedOK
<1>. QED
  BY <1>14, <1>15, <1>17, <1>18 DEF Good, R

LinksTo(tr, S, n) == {x \in S \X Side : tr.child[x[1]][x[2]] = n}

(* The sibling, black and without a red child, turns red: the black node is *)
(* missing above p.                                                         *)
LEMMA MendUpIsGood ==
  ASSUME NEW tr, NEW S, NEW N, NEW pos, NEW p, NEW y, MendAt(tr, S, N, pos, p, y),
         tr.child[p][1 - y] \notin tr.red, ~RedBelow(tr, tr.child[p][1 - y])
  PROVE  LET R == SetRed(tr, tr.child[p][1 - y])
         IN  /\ Good(R, S, N, pos, LinksTo(tr, S, p), {p}, {p})
             /\ Repainted(tr, R) /\ SameBut(S, tr, R)
<1>. DEFINE s == tr.child[p][1 - y]
            node == tr.child[p][y]
            R == SetRed(tr, s)
            X == {<<p, y>>}
            Z == LinksTo(tr, S, p)
<1>1. /\ p \in S /\ y \in Side /\ Good(tr, S, N, pos, X, {}, {}) /\ node \notin tr.red
      /\ 1 - y \in Side /\ y # 1 - y /\ \A r \in Side : r = y \/ r = 1 - y
  BY Sides DEF MendAt
<1>2. PICK bnd : Ordered(tr, S, N, pos, bnd)
  BY <1>1 DEF Good
<1>3. PICK h : Even(tr, S, h, X)
  BY <1>1 DEF Good
<1>4. /\ tr \in Trees /\ Nil \notin Nodes /\ Nil \notin S /\ S \subseteq Nodes /\ tr.red \subseteq Nodes
  BY <1>2, LinkTypes DEF Ordered, Linked
<1>5. /\ s \in S /\ \A m \in S, r \in Side : ~(m \in tr.red /\ tr.child[m][r] \in tr.red)
      /\ tr.root \notin tr.red
  BY SiblingIs
<1>6. /\ s # p /\ node # s /\ node # p /\ tr.parent[s] = p
      /\ \A r \in Side : tr.child[s][r] # p /\ tr.child[s][r] # s
      /\ \A m \in S, r \in Side : tr.child[m][r] = s => m = p /\ r = 1 - y
  BY <1>1, SiblingIs DEF Around
<1>7. Repainted(tr, R) /\ R.red = tr.red \cup {s}
  BY <1>4, <1>5, PaintIs
<1>8. \A r \in Side : tr.child[s][r] \notin tr.red
  BY DEF RedBelow, Red, Side
<1>9. \A m \in S, r \in Side : <<m, r>> \in Z <=> tr.child[m][r] = p
  BY DEF LinksTo
<1>. HIDE DEF R, Z, s, node
<1>10. R.child = tr.child /\ R.root = tr.root /\ R.parent = tr.parent
  BY <1>7 DEF Repainted
<1>11. SameBut(S, tr, R)
  BY <1>5, <1>7, <1>10 DEF SameBut
<1>12. Ordered(R, S, N, pos, bnd)
  BY <1>2, <1>7, PaintOrders
<1>13. \E e : Even(R, S, e, Z)
  <2>1. /\ h \in [Links -> Nat] /\ h[Nil] = 0 /\ \A m \in S : Fits(tr, h, m, X)
        /\ S \subseteq Links /\ \A m \in S, r \in Side : tr.child[m][r] \in Links
    <3>1. tr.child \in [Nodes -> [Side -> Links]]
      BY <1>2, LinkTypes DEF Ordered
    <3>2. S \subseteq Links
      BY <1>4 DEF Links
    <3>. QED
      BY <1>3, <1>4, <3>1, <3>2 DEF Even
  <2>2. h[p] \in Nat /\ h[s] \in Nat /\ h[node] \in Nat /\ h[tr.child[s][y]] \in Nat /\ Blacks(tr, p) \in Nat
    BY <1>1, <1>5, <2>1 DEF Blacks, node
  <2>3. h[p] = Blacks(tr, p) + h[node] + 1
    BY <1>1, <2>1 DEF Fits, node
  <2>4. h[p] = Blacks(tr, p) + h[s] + 0
    BY <1>1, <2>1 DEF Fits, s
  <2>5. h[s] = 1 + h[tr.child[s][y]] + 0
    <3>1. Fits(tr, h, s, X) /\ <<s, y>> \notin X /\ s \notin tr.red
      BY <1>5, <1>6, <2>1 DEF s
    <3>. QED
      BY <1>1, <3>1 DEF Fits, Blacks
  <2>. DEFINE e == [h EXCEPT ![p] = h[p] - 1, ![s] = h[s] - 1]
  <2>6. h[p] - 1 \in Nat /\ h[s] - 1 \in Nat
    BY <2>2, <2>3, <2>5
  <2>7. /\ e \in [Links -> Nat] /\ e[Nil] = 0
        /\ \A m \in Links : e[m] = IF m \in {p, s} THEN h[m] - 1 ELSE h[m]
    <3>1. s \in Links /\ p \in Links /\ s # Nil /\ p # Nil /\ s # p /\ Nil \in Links
      BY <1>1, <1>4, <1>5, <1>6, <2>1 DEF Links
    <3>. QED
      BY <2>1, <2>6, <3>1
  <2>. HIDE DEF e
  <2>8. ASSUME NEW m \in S, NEW r \in Side
        PROVE  e[m] = Blacks(R, m) + e[tr.child[m][r]] + (IF tr.child[m][r] = p THEN 1 ELSE 0)
    <3>. DEFINE c == tr.child[m][r]
    <3>1. h[m] = Blacks(tr, m) + h[c] + (IF <<m, r>> \in X THEN 1 ELSE 0)
      BY <2>1 DEF Fits
    <3>2. h[m] \in Nat /\ h[c] \in Nat /\ m \in Links /\ c \in Links
      BY <2>1
    <3>3. m # s => Blacks(R, m) = Blacks(tr, m)
      BY <1>7 DEF Blacks
    <3>4. CASE m = s
      <4>1. Blacks(tr, m) = 1 /\ Blacks(R, m) = 0 /\ <<m, r>> \notin X
        BY <1>6, <1>7, <3>4 DEF Blacks, s
      <4>2. e[m] = h[m] - 1 /\ e[c] = h[c] /\ c # p
        BY <1>6, <2>7, <3>2, <3>4
      <4>. QED
        BY <3>1, <3>2, <4>1, <4>2
    <3>5. CASE m = p /\ r = y
      <4>1. c = node /\ e[c] = h[c] /\ c # p
        BY <1>6, <2>7, <3>2, <3>5 DEF node
      <4>2. e[m] = h[m] - 1 /\ Blacks(R, m) = Blacks(tr, m)
        BY <1>1, <1>6, <2>1, <2>7, <3>3, <3>5
      <4>. QED
        BY <2>2, <2>3, <3>5, <4>1, <4>2
    <3>6. CASE m = p /\ r = 1 - y
      <4>1. c = s /\ e[c] = h[c] - 1 /\ c # p
        BY <1>6, <2>7, <3>2, <3>6 DEF s
      <4>2. e[m] = h[m] - 1 /\ Blacks(R, m) = Blacks(tr, m)
        BY <1>1, <1>6, <2>1, <2>7, <3>3, <3>6
      <4>. QED
        BY <2>2, <2>4, <3>6, <4>1, <4>2
    <3>7. CASE m \notin {p, s}
      <4>1. c # s /\ e[m] = h[m] /\ <<m, r>> \notin X /\ e[c] = IF c = p THEN h[c] - 1 ELSE h[c]
        BY <1>6, <2>7, <3>2, <3>7
      <4>2. Blacks(R, m) = Blacks(tr, m) /\ Blacks(tr, m) \in Nat
        BY <3>3, <3>7 DEF Blacks
      <4>. QED
        BY <3>1, <3>2, <4>1, <4>2
    <3>. QED
      BY <1>1, <3>4, <3>5, <3>6, <3>7
  <2>9. \A m \in S : Fits(R, e, m, Z)
    BY <1>9, <1>10, <2>8 DEF Fits
  <2>. QED
    BY <2>7, <2>9 DEF Even
<1>14. RedOK(R, S, {p}, {p})
  <2>1. R.root # s
    BY <1>1, <1>4, <1>2, <1>5, <1>6, <1>10 DEF Ordered, Linked
  <2>2. ASSUME NEW m \in S, NEW r \in Side, m \in R.red, tr.child[m][r] \in R.red
        PROVE  m = p
    BY <1>5, <1>6, <1>7, <1>8, <2>2
  <2>. QED
    BY <1>5, <1>7, <1>10, <2>1, <2>2 DEF RedOK, LinkOK
<1>15. Good(R, S, N, pos, Z, {p}, {p})
  BY <1>12, <1>13, <1>14 DEF Good
<1>. QED
  BY <1>7, <1>11, <1>15 DEF R, Z, s

-------------------------------------------------------------------------------
(***************************************************************************)
(* A leaf n comes in below p, on side r: where the gap after number g is.  *)
(***************************************************************************)

Shift(g, v) == IF v > g THEN v + 1 ELSE v
ShiftedPos(pos, n, g) == [m \in Nodes |-> IF m = n THEN g + 1 ELSE Shift(g, pos[m])]
ShiftedBounds(bnd, n, g) ==
  [m \in Nodes |-> [s \in Side |-> IF m = n THEN (IF s = LEFT THEN g ELSE g + 2)
                                   ELSE Shift(g, bnd[m][s])]]

Leafed(tr, R, n, p, r) ==
  /\ R \in Trees /\ R.red = tr.red \cup {n}
  /\ R.root = IF p = Nil THEN n ELSE tr.root
  /\ \A m \in Nodes, s \in Side : R.child[m][s] = IF m = n THEN Nil
                                                  ELSE IF m = p /\ s = r THEN n
                                                  ELSE tr.child[m][s]
  /\ \A m \in Nodes : R.parent[m] = IF m = n THEN p ELSE tr.parent[m]

GapAt(tr, S, pos, p, r, g) ==
  /\ r \in Side /\ p \in S \cup {Nil} /\ (p = Nil <=> tr.root = Nil)
  /\ p # Nil => tr.child[p][r] = Nil
  /\ g = IF p = Nil THEN 0 ELSE IF r = LEFT THEN pos[p] - 1 ELSE pos[p]

LEMMA LeafIsOrdered ==
  ASSUME NEW tr, NEW R, NEW S, NEW N, NEW pos, NEW bnd, Ordered(tr, S, N, pos, bnd),
         NEW n \in Nodes \ S, NEW p, NEW r, NEW g,
         GapAt(tr, S, pos, p, r, g), Leafed(tr, R, n, p, r)
  PROVE  /\ Ordered(R, S \cup {n}, N + 1, ShiftedPos(pos, n, g), ShiftedBounds(bnd, n, g))
         /\ g \in Int /\ 0 <= g /\ g <= N
<1>. DEFINE P == ShiftedPos(pos, n, g)
            B == ShiftedBounds(bnd, n, g)
            S2 == S \cup {n}
<1>1. /\ tr \in Trees /\ Nil \notin Nodes /\ Nil \notin S /\ S \subseteq Nodes
      /\ n \in Nodes /\ n \notin S /\ n # Nil /\ N \in Nat
  BY LinkTypes DEF Ordered, Linked, Numbered
<1>2. /\ r \in Side /\ p \in S \cup {Nil} /\ (p = Nil <=> tr.root = Nil)
      /\ p # Nil => p \in S /\ tr.child[p][r] = Nil
      /\ g = IF p = Nil THEN 0 ELSE IF r = LEFT THEN pos[p] - 1 ELSE pos[p]
  BY DEF GapAt
<1>3. /\ R \in Trees
      /\ R.root = (IF p = Nil THEN n ELSE tr.root)
      /\ \A m \in Nodes, s \in Side : R.child[m][s] = IF m = n THEN Nil
                                                      ELSE IF m = p /\ s = r THEN n
                                                      ELSE tr.child[m][s]
      /\ \A m \in Nodes : R.parent[m] = IF m = n THEN p ELSE tr.parent[m]
  BY DEF Leafed
<1>4. /\ tr.root \in S \cup {Nil} /\ (tr.root = Nil <=> S = {})
      /\ \A m \in S : tr.parent[m] \in S \cup {Nil}
      /\ \A m \in S : tr.parent[m] = Nil <=> m = tr.root
      /\ \A m \in S : m # tr.root => \E s \in Side : tr.child[tr.parent[m]][s] = m
      /\ \A m \in S, s \in Side : tr.child[m][s] # Nil =>
           tr.child[m][s] \in S /\ tr.parent[tr.child[m][s]] = m
  BY DEF Ordered, Linked
<1>5. /\ pos \in [Nodes -> Int] /\ bnd \in [Nodes -> [Side -> Int]]
      /\ \A m \in S : 1 <= pos[m] /\ pos[m] <= N
      /\ \A m, k \in S : pos[m] = pos[k] => m = k
      /\ \A i \in 1 .. N : \E m \in S : pos[m] = i
      /\ \A m \in S : 0 <= bnd[m][LEFT] /\ bnd[m][RIGHT] <= N + 1
      /\ \A m \in S, s \in Side : OnSide(s, bnd[m][s], pos[m])
      /\ \A m \in S, s \in Side : tr.child[m][s] = Nil => Beside(s, bnd[m][s], pos[m])
      /\ \A m \in S, s \in Side : tr.child[m][s] # Nil =>
           bnd[tr.child[m][s]][s] = bnd[m][s] /\ bnd[tr.child[m][s]][1 - s] = pos[m]
      /\ tr.root # Nil => bnd[tr.root][LEFT] = 0 /\ bnd[tr.root][RIGHT] = N + 1
      /\ \A m, k \in S : pos[k] = pos[m] + 1 => tr.child[m][RIGHT] # Nil \/ tr.child[k][LEFT] # Nil
  BY DEF Ordered, Numbered, Bounded, Threaded
<1>6. /\ LEFT \in Side /\ RIGHT \in Side /\ LEFT = 0 /\ RIGHT = 1 /\ Side = {0, 1}
      /\ 1 - LEFT = RIGHT /\ 1 - RIGHT = LEFT /\ \A s \in Side : 1 - s \in Side /\ (s = LEFT \/ s = RIGHT)
  BY Sides DEF Side
<1>7. p = Nil => N = 0 /\ S = {}
  BY <1>1, <1>2, <1>4, <1>5
<1>8. g \in Int /\ 0 <= g /\ g <= N
  BY <1>1, <1>2, <1>5, <1>7
<1>9. p # Nil => bnd[p][r] = (IF r = LEFT THEN g ELSE g + 1) /\ pos[p] = (IF r = LEFT THEN g + 1 ELSE g)
  <2>1. p # Nil => pos[p] \in Int /\ bnd[p][r] \in Int /\ Beside(r, bnd[p][r], pos[p])
    BY <1>1, <1>2, <1>5
  <2>. QED
    BY <1>2, <1>6, <2>1 DEF Beside
<1>s. /\ g + 1 \in Int /\ g + 2 \in Int
      /\ \A v \in Int : Shift(g, v) \in Int /\ Shift(g, v) # g + 1
      /\ Shift(g, g) = g /\ Shift(g, g + 1) = g + 2
  BY <1>8 DEF Shift
<1>v. ASSUME NEW v \in Int, NEW w \in Int
      PROVE  /\ v < w <=> Shift(g, v) < Shift(g, w)
             /\ Shift(g, v) = Shift(g, w) => v = w
             /\ Shift(g, w) = Shift(g, v) + 1 => w = v + 1 /\ v # g
             /\ w = v + 1 /\ v # g => Shift(g, w) = Shift(g, v) + 1
  BY <1>8 DEF Shift
<1>10. /\ P \in [Nodes -> Int] /\ P[n] = g + 1
       /\ \A m \in S : P[m] = Shift(g, pos[m])
  <2>1. \A m \in Nodes : pos[m] \in Int /\ Shift(g, pos[m]) \in Int
    BY <1>5, <1>s
  <2>. QED
    BY <1>1, <1>s, <2>1 DEF ShiftedPos
<1>11. /\ B \in [Nodes -> [Side -> Int]] /\ B[n][LEFT] = g /\ B[n][RIGHT] = g + 2
       /\ \A m \in S, s \in Side : B[m][s] = Shift(g, bnd[m][s])
  <2>1. B \in [Nodes -> [Side -> Int]]
    <3>1. \A m \in Nodes, s \in Side : bnd[m][s] \in Int /\ Shift(g, bnd[m][s]) \in Int
      BY <1>5, <1>s
    <3>. QED
      BY <1>8, <1>s, <3>1 DEF ShiftedBounds
  <2>2. \A m \in Nodes, s \in Side : B[m][s] = IF m = n THEN (IF s = LEFT THEN g ELSE g + 2)
                                               ELSE Shift(g, bnd[m][s])
    BY DEF ShiftedBounds
  <2>. QED
    BY <1>1, <1>6, <2>1, <2>2
<1>. HIDE DEF P, B
<1>12. Linked(R, S2)
  <2>1. R.root \in S2 \cup {Nil} /\ (R.root = Nil <=> S2 = {})
    BY <1>1, <1>2, <1>3, <1>4
  <2>2. \A m \in S2 : R.parent[m] \in S2 \cup {Nil}
    BY <1>1, <1>2, <1>3, <1>4
  <2>3. \A m \in S2 : R.parent[m] = Nil <=> m = R.root
    BY <1>1, <1>2, <1>3, <1>4, <1>7
  <2>4. ASSUME NEW m \in S2, m # R.root PROVE \E s \in Side : R.child[R.parent[m]][s] = m
    <3>1. CASE m = n
      BY <1>1, <1>2, <1>3, <2>4, <3>1
    <3>2. CASE m \in S
      <4>1. m # tr.root /\ R.parent[m] = tr.parent[m] /\ tr.parent[m] \in S
        BY <1>1, <1>2, <1>3, <1>4, <1>7, <2>4, <3>2
      <4>2. PICK s \in Side : tr.child[tr.parent[m]][s] = m
        BY <1>4, <3>2, <4>1
      <4>. QED
        BY <1>1, <1>2, <1>3, <3>2, <4>1, <4>2
    <3>. QED
      BY <3>1, <3>2
  <2>5. \A m \in S2, s \in Side : R.child[m][s] # Nil =>
          R.child[m][s] \in S2 /\ R.parent[R.child[m][s]] = m
    BY <1>1, <1>2, <1>3, <1>4
  <2>. QED
    BY <1>1, <1>3, <2>1, <2>2, <2>3, <2>4, <2>5 DEF Linked
<1>13. Numbered(S2, N + 1, P)
  <2>1. \A m \in S2 : 1 <= P[m] /\ P[m] <= N + 1
    <3>1. ASSUME NEW m \in S PROVE 1 <= Shift(g, pos[m]) /\ Shift(g, pos[m]) <= N + 1
      <4>1. pos[m] \in Int /\ 1 <= pos[m] /\ pos[m] <= N
        BY <1>1, <1>5
      <4>. QED
        BY <1>1, <1>8, <4>1 DEF Shift
    <3>. QED
      BY <1>1, <1>8, <1>10, <3>1
  <2>2. \A m, k \in S2 : P[m] = P[k] => m = k
    <3>1. \A m \in S : pos[m] \in Int
      BY <1>1, <1>5
    <3>. QED
      <4>1. ASSUME NEW m \in S, NEW k \in S, P[m] = P[k] PROVE m = k
        BY <1>5, <1>10, <1>v, <3>1, <4>1
      <4>2. \A m \in S : P[m] # P[n]
        BY <1>10, <1>s, <3>1
      <4>. QED
        BY <4>1, <4>2
  <2>3. ASSUME NEW i \in 1 .. (N + 1) PROVE \E m \in S2 : P[m] = i
    <3>1. CASE i = g + 1
      BY <1>10, <3>1
    <3>2. CASE i <= g
      <4>1. PICK m \in S : pos[m] = i
        BY <1>1, <1>5, <1>8, <3>2
      <4>2. P[m] = i
        BY <1>8, <1>10, <3>2, <4>1 DEF Shift
      <4>. QED
        BY <4>2
    <3>3. CASE i > g + 1
      <4>1. i - 1 \in 1 .. N
        BY <1>1, <1>8, <3>3
      <4>2. PICK m \in S : pos[m] = i - 1
        BY <1>5, <4>1
      <4>3. P[m] = i
        BY <1>8, <1>10, <3>3, <4>2 DEF Shift
      <4>. QED
        BY <4>3
    <3>. QED
      BY <1>8, <3>1, <3>2, <3>3
  <2>. QED
    BY <1>1, <1>10, <2>1, <2>2, <2>3 DEF Numbered
<1>14. \A m \in S : pos[m] \in Int /\ \A s \in Side : bnd[m][s] \in Int
  BY <1>1, <1>5
<1>15. ASSUME NEW m \in S, NEW s \in Side, tr.child[m][s] = Nil, ~(m = p /\ s = r)
       PROVE  /\ s = LEFT => bnd[m][s] # g
              /\ s = RIGHT => pos[m] # g
  <2>1. p # Nil
    BY <1>7
  <2>2. Beside(s, bnd[m][s], pos[m]) /\ pos[m] \in Int /\ bnd[m][s] \in Int /\ pos[p] \in Int
    BY <1>1, <1>2, <1>5, <1>15, <2>1
  <2>3. CASE s = LEFT
    <3>. SUFFICES ASSUME bnd[m][s] = g PROVE FALSE
      BY <1>6, <2>3
    <3>1. pos[m] = g + 1
      BY <2>2, <2>3 DEF Beside
    <3>2. CASE r = LEFT
      BY <1>2, <1>5, <1>9, <1>15, <2>1, <2>3, <3>1, <3>2
    <3>3. CASE r = RIGHT
      <4>1. pos[m] = pos[p] + 1
        BY <1>6, <1>9, <2>1, <3>1, <3>3
      <4>. QED
        BY <1>2, <1>5, <1>15, <2>1, <2>3, <3>3, <4>1
    <3>. QED
      BY <1>2, <1>6, <3>2, <3>3
  <2>4. CASE s = RIGHT
    <3>. SUFFICES ASSUME pos[m] = g PROVE FALSE
      BY <1>6, <2>4
    <3>1. CASE r = RIGHT
      BY <1>2, <1>5, <1>6, <1>9, <1>15, <2>1, <2>4, <3>1
    <3>2. CASE r = LEFT
      <4>1. pos[p] = pos[m] + 1
        BY <1>6, <1>9, <2>1, <3>2
      <4>. QED
        BY <1>2, <1>5, <1>15, <2>1, <2>4, <3>2, <4>1
    <3>. QED
      BY <1>2, <1>6, <3>1, <3>2
  <2>. QED
    BY <1>6, <2>3, <2>4
<1>16. Bounded(R, S2, N + 1, P, B)
  <2>1. R.root # Nil => B[R.root][LEFT] = 0 /\ B[R.root][RIGHT] = (N + 1) + 1
    <3>1. CASE p = Nil
      BY <1>2, <1>3, <1>7, <1>11, <3>1
    <3>2. CASE p # Nil
      <4>1. R.root = tr.root /\ tr.root \in S /\ bnd[tr.root][LEFT] = 0 /\ bnd[tr.root][RIGHT] = N + 1
        BY <1>2, <1>3, <1>4, <1>5, <3>2
      <4>2. B[R.root][LEFT] = Shift(g, 0) /\ B[R.root][RIGHT] = Shift(g, N + 1)
        BY <1>6, <1>11, <4>1
      <4>. QED
        BY <1>1, <1>8, <4>2 DEF Shift
    <3>. QED
      BY <3>1, <3>2
  <2>2. \A m \in S2 : 0 <= B[m][LEFT] /\ B[m][RIGHT] <= (N + 1) + 1
    <3>1. ASSUME NEW m \in S PROVE 0 <= Shift(g, bnd[m][LEFT]) /\ Shift(g, bnd[m][RIGHT]) <= (N + 1) + 1
      <4>1. bnd[m][LEFT] \in Int /\ bnd[m][RIGHT] \in Int /\ 0 <= bnd[m][LEFT] /\ bnd[m][RIGHT] <= N + 1
        BY <1>5, <1>6, <1>14
      <4>. QED
        BY <1>1, <1>8, <4>1 DEF Shift
    <3>. QED
      BY <1>1, <1>6, <1>8, <1>11, <3>1
  <2>3. \A m \in S2, s \in Side : OnSide(s, B[m][s], P[m])
    <3>1. ASSUME NEW m \in S, NEW s \in Side PROVE OnSide(s, B[m][s], P[m])
      <4>1. pos[m] \in Int /\ bnd[m][s] \in Int /\ OnSide(s, bnd[m][s], pos[m])
        BY <1>5, <1>14
      <4>2. /\ bnd[m][s] < pos[m] <=> Shift(g, bnd[m][s]) < Shift(g, pos[m])
            /\ pos[m] < bnd[m][s] <=> Shift(g, pos[m]) < Shift(g, bnd[m][s])
        BY <1>v, <4>1
      <4>3. B[m][s] = Shift(g, bnd[m][s]) /\ P[m] = Shift(g, pos[m])
        BY <1>10, <1>11
      <4>. QED
        BY <4>1, <4>2, <4>3 DEF OnSide
    <3>2. \A s \in Side : OnSide(s, B[n][s], P[n])
      BY <1>6, <1>8, <1>10, <1>11 DEF OnSide
    <3>. QED
      BY <3>1, <3>2
  <2>4. \A m \in S2, s \in Side : R.child[m][s] = Nil => Beside(s, B[m][s], P[m])
    <3>1. ASSUME NEW m \in S, NEW s \in Side, R.child[m][s] = Nil PROVE Beside(s, B[m][s], P[m])
      <4>1. tr.child[m][s] = Nil /\ ~(m = p /\ s = r)
        BY <1>1, <1>2, <1>3, <3>1
      <4>2. Beside(s, bnd[m][s], pos[m]) /\ (s = LEFT => bnd[m][s] # g) /\ (s = RIGHT => pos[m] # g)
        BY <1>5, <1>15, <4>1
      <4>3. Beside(s, Shift(g, bnd[m][s]), Shift(g, pos[m]))
        <5>1. pos[m] \in Int /\ bnd[m][s] \in Int
          BY <1>14
        <5>2. CASE s = LEFT
          <6>1. pos[m] = bnd[m][s] + 1 /\ bnd[m][s] # g
            BY <4>2, <5>2 DEF Beside
          <6>2. Shift(g, pos[m]) = Shift(g, bnd[m][s]) + 1
            BY <1>v, <5>1, <6>1
          <6>. QED
            BY <5>2, <6>2 DEF Beside
        <5>3. CASE s = RIGHT
          <6>1. bnd[m][s] = pos[m] + 1 /\ pos[m] # g
            BY <1>6, <4>2, <5>3 DEF Beside
          <6>2. Shift(g, bnd[m][s]) = Shift(g, pos[m]) + 1
            BY <1>v, <5>1, <6>1
          <6>. QED
            BY <1>6, <5>3, <6>2 DEF Beside
        <5>. QED
          BY <1>6, <5>2, <5>3
      <4>. QED
        BY <1>10, <1>11, <4>3
    <3>2. \A s \in Side : Beside(s, B[n][s], P[n])
      BY <1>6, <1>8, <1>10, <1>11 DEF Beside
    <3>. QED
      BY <3>1, <3>2
  <2>5. \A m \in S2, s \in Side : R.child[m][s] # Nil =>
          B[R.child[m][s]][s] = B[m][s] /\ B[R.child[m][s]][1 - s] = P[m]
    <3>1. ASSUME NEW m \in S2, NEW s \in Side, R.child[m][s] # Nil
          PROVE  B[R.child[m][s]][s] = B[m][s] /\ B[R.child[m][s]][1 - s] = P[m]
      <4>1. m \in S
        BY <1>1, <1>3, <3>1
      <4>2. CASE m = p /\ s = r
        <5>1. R.child[m][s] = n /\ p # Nil
          BY <1>1, <1>3, <4>1, <4>2
        <5>2. B[m][s] = Shift(g, bnd[p][r]) /\ P[m] = Shift(g, pos[p])
          BY <1>10, <1>11, <4>1, <4>2
        <5>3. Shift(g, g) = g /\ Shift(g, g + 1) = g + 2
          BY <1>s
        <5>4. CASE r = LEFT
          BY <1>6, <1>9, <1>11, <4>2, <5>1, <5>2, <5>3, <5>4
        <5>5. CASE r = RIGHT
          BY <1>6, <1>9, <1>11, <4>2, <5>1, <5>2, <5>3, <5>5
        <5>. QED
          BY <1>2, <1>6, <5>4, <5>5
      <4>3. CASE ~(m = p /\ s = r)
        <5>1. R.child[m][s] = tr.child[m][s] /\ tr.child[m][s] \in S
          BY <1>1, <1>3, <1>4, <3>1, <4>1, <4>3
        <5>. QED
          BY <1>1, <1>5, <1>6, <1>10, <1>11, <4>1, <5>1
      <4>. QED
        BY <4>2, <4>3
    <3>. QED
      BY <3>1
  <2>. QED
    BY <1>11, <2>1, <2>2, <2>3, <2>4, <2>5 DEF Bounded
<1>17. Threaded(R, S2, P)
  <2>. SUFFICES ASSUME NEW m \in S2, NEW k \in S2, P[k] = P[m] + 1,
                       R.child[m][RIGHT] = Nil, R.child[k][LEFT] = Nil
                PROVE  FALSE
    BY DEF Threaded
  <2>1. m # k
    <3>1. P[m] \in Int
      BY <1>1, <1>10
    <3>. QED
      BY <3>1
  <2>2. CASE m # n /\ k # n
    <3>1. m \in S /\ k \in S
      BY <2>2
    <3>2. pos[k] = pos[m] + 1
      BY <1>10, <1>14, <1>v, <3>1
    <3>3. tr.child[m][RIGHT] = Nil /\ tr.child[k][LEFT] = Nil
      BY <1>1, <1>2, <1>3, <1>6, <3>1
    <3>. QED
      BY <1>5, <3>1, <3>2, <3>3
  <2>3. CASE m = n
    <3>1. k \in S /\ P[k] = g + 2 /\ p # Nil
      BY <1>7, <1>8, <1>10, <2>1, <2>3
    <3>2. pos[k] = g + 1
      BY <1>8, <1>10, <1>14, <3>1 DEF Shift
    <3>3. CASE r = LEFT
      <4>1. k = p
        BY <1>2, <1>5, <1>9, <3>1, <3>2, <3>3
      <4>. QED
        BY <1>1, <1>3, <1>6, <3>1, <3>3, <4>1
    <3>4. CASE r = RIGHT
      <4>1. pos[k] = pos[p] + 1 /\ p \in S
        BY <1>2, <1>6, <1>9, <3>1, <3>2, <3>4
      <4>2. tr.child[k][LEFT] # Nil
        BY <1>2, <1>5, <3>1, <3>4, <4>1
      <4>. QED
        BY <1>1, <1>3, <1>6, <3>1, <3>4, <4>2
    <3>. QED
      BY <1>2, <1>6, <3>3, <3>4
  <2>4. CASE k = n
    <3>1. m \in S /\ P[m] = g /\ p # Nil
      <4>1. m \in S
        BY <2>1, <2>4
      <4>2. P[m] \in Int
        BY <1>1, <1>10
      <4>. QED
        BY <1>7, <1>8, <1>10, <2>4, <4>1, <4>2
    <3>2. pos[m] = g
      BY <1>8, <1>10, <1>14, <3>1 DEF Shift
    <3>3. CASE r = RIGHT
      <4>1. m = p
        BY <1>2, <1>5, <1>6, <1>9, <3>1, <3>2, <3>3
      <4>. QED
        BY <1>1, <1>3, <1>6, <3>1, <3>3, <4>1
    <3>4. CASE r = LEFT
      <4>1. pos[p] = pos[m] + 1 /\ p \in S
        BY <1>2, <1>6, <1>9, <3>1, <3>2, <3>4
      <4>2. tr.child[m][RIGHT] # Nil
        BY <1>2, <1>5, <3>1, <3>4, <4>1
      <4>. QED
        BY <1>1, <1>3, <1>6, <3>1, <3>4, <4>2
    <3>. QED
      BY <1>2, <1>6, <3>3, <3>4
  <2>. QED
    BY <2>2, <2>3, <2>4
<1>. QED
  BY <1>8, <1>12, <1>13, <1>16, <1>17 DEF Ordered, P, B

(* A red leaf upsets neither the order nor the numbers of black nodes.      *)
LEMMA LeafIsGood ==
  ASSUME NEW tr, NEW R, NEW S, NEW N, NEW pos, Good(tr, S, N, pos, {}, {}, {}),
         NEW n \in Nodes \ S, NEW p, NEW r, NEW g,
         GapAt(tr, S, pos, p, r, g), Leafed(tr, R, n, p, r)
  PROVE  Good(R, S \cup {n}, N + 1, ShiftedPos(pos, n, g), {}, {n}, {})
<1>1. PICK bnd : Ordered(tr, S, N, pos, bnd)
  BY DEF Good
<1>2. PICK h : Even(tr, S, h, {})
  BY DEF Good
<1>3. RedOK(tr, S, {}, {})
  BY DEF Good
<1>4. Ordered(R, S \cup {n}, N + 1, ShiftedPos(pos, n, g), ShiftedBounds(bnd, n, g))
  BY <1>1, LeafIsOrdered
<1>5. /\ Nil \notin Nodes /\ Nil \notin S /\ S \subseteq Nodes /\ n \in Nodes /\ n \notin S /\ n # Nil
      /\ tr.root \in S \cup {Nil} /\ tr.red \subseteq Nodes
      /\ \A m \in S, s \in Side : tr.child[m][s] \in S \cup {Nil}
  BY <1>1, LinkTypes DEF Ordered, Linked
<1>6. /\ p \in S \cup {Nil} /\ (p # Nil => tr.child[p][r] = Nil)
  BY DEF GapAt
<1>7. /\ R.red = tr.red \cup {n} /\ R.root = (IF p = Nil THEN n ELSE tr.root)
      /\ \A m \in Nodes, s \in Side : R.child[m][s] = IF m = n THEN Nil
                                                      ELSE IF m = p /\ s = r THEN n
                                                      ELSE tr.child[m][s]
  BY DEF Leafed
<1>8. /\ h \in [Links -> Nat] /\ h[Nil] = 0
      /\ \A m \in S, s \in Side : h[m] = Blacks(tr, m) + h[tr.child[m][s]] + 0
  BY <1>2 DEF Even, Fits
<1>. DEFINE k == [h EXCEPT ![n] = 0]
<1>9. k \in [Links -> Nat] /\ k[Nil] = 0 /\ k[n] = 0 /\ \A m \in S \cup {Nil} : k[m] = h[m]
  BY <1>5, <1>8 DEF Links
<1>. HIDE DEF k
<1>10. ASSUME NEW m \in S \cup {n}, NEW s \in Side
       PROVE  k[m] = Blacks(R, m) + k[R.child[m][s]] + 0
  <2>1. CASE m = n
    BY <1>7, <1>9, <1>5, <2>1 DEF Blacks
  <2>2. CASE m \in S
    <3>1. m # n /\ Blacks(R, m) = Blacks(tr, m) /\ k[m] = h[m] /\ h[m] = Blacks(tr, m) + h[tr.child[m][s]] + 0
      BY <1>5, <1>7, <1>8, <1>9, <2>2 DEF Blacks
    <3>2. k[R.child[m][s]] = h[tr.child[m][s]]
      <4>1. CASE m = p /\ s = r
        BY <1>5, <1>6, <1>7, <1>8, <1>9, <2>2, <4>1
      <4>2. CASE ~(m = p /\ s = r)
        BY <1>5, <1>7, <1>9, <2>2, <4>2
      <4>. QED
        BY <4>1, <4>2
    <3>. QED
      BY <3>1, <3>2
  <2>. QED
    BY <2>1, <2>2
<1>11. Even(R, S \cup {n}, k, {})
  BY <1>9, <1>10 DEF Even, Fits
<1>12. R.root \in R.red => R.root \in {n}
  BY <1>3, <1>7 DEF RedOK
<1>13. ASSUME NEW m \in S \cup {n}, NEW s \in Side, m \in R.red, R.child[m][s] \in R.red
       PROVE  R.child[m][s] = n
  <2>1. CASE m = n
    BY <1>5, <1>7, <1>13, <2>1
  <2>2. CASE m \in S /\ ~(m = p /\ s = r)
    <3>1. R.child[m][s] = tr.child[m][s] /\ m \in tr.red
      BY <1>5, <1>7, <1>13, <2>2
    <3>2. LinkOK(tr, m, tr.child[m][s], {}, {})
      BY <1>3, <2>2 DEF RedOK
    <3>. QED
      BY <1>7, <1>13, <3>1, <3>2 DEF LinkOK
  <2>3. CASE m = p /\ s = r /\ m \in S
    BY <1>5, <1>7, <2>3
  <2>. QED
    BY <2>1, <2>2, <2>3
<1>14. RedOK(R, S \cup {n}, {n}, {})
  BY <1>12, <1>13 DEF RedOK, LinkOK
<1>. QED
  BY <1>4, <1>11, <1>14 DEF Good

(* The numbers after number i has gone: those of nodes and upper bounds     *)
(* (RIGHT), and lower bounds (LEFT).                                        *)
Close(s, i, v) == IF s = LEFT THEN (IF v >= i THEN v - 1 ELSE v) ELSE (IF v > i THEN v - 1 ELSE v)
ClosedPos(pos, i) == [m \in Nodes |-> Close(RIGHT, i, pos[m])]
ClosedBounds(bnd, i) == [m \in Nodes |-> [s \in Side |-> Close(s, i, bnd[m][s])]]

(* R is tr with c in the place of n below p.                                *)
Bypassed(tr, R, n, p, c) ==
  /\ R \in Trees /\ R.red = tr.red
  /\ R.root = IF p = Nil THEN c ELSE tr.root
  /\ \A m \in Nodes, s \in Side :
       R.child[m][s] = IF m = p /\ tr.child[p][s] = n THEN c ELSE tr.child[m][s]
  /\ \A m \in Nodes : R.parent[m] = IF m = c THEN p ELSE tr.parent[m]

(* c is the only child of n, or Nil, and p its parent.                      *)
OnlyChild(tr, n, y, p, c) ==
  y \in Side /\ tr.child[n][1 - y] = Nil /\ c = tr.child[n][y] /\ p = tr.parent[n]

LEMMA CloseIs ==
  ASSUME NEW i \in Int
  PROVE  /\ \A s \in Side, v \in Int : Close(s, i, v) \in Int
         /\ \A v \in Int : v # i => Close(LEFT, i, v) = Close(RIGHT, i, v)
         /\ Close(LEFT, i, i) = i - 1 /\ Close(LEFT, i, i - 1) = i - 1
         /\ Close(RIGHT, i, i) = i /\ Close(RIGHT, i, i + 1) = i
         /\ Close(RIGHT, i, i - 1) = i - 1 /\ Close(LEFT, i, i + 1) = i
         /\ \A s \in Side, v, w \in Int : w # i => 
              /\ OnSide(s, v, w) => OnSide(s, Close(s, i, v), Close(RIGHT, i, w))
              /\ Beside(s, v, w) => Beside(s, Close(s, i, v), Close(RIGHT, i, w))
BY Sides DEF Close, OnSide, Beside

LEMMA BypassIsOrdered ==
  ASSUME NEW tr, NEW R, NEW S, NEW N, NEW pos, NEW bnd, Ordered(tr, S, N, pos, bnd),
         NEW n \in S, NEW y, NEW p, NEW c,
         OnlyChild(tr, n, y, p, c), Bypassed(tr, R, n, p, c)
  PROVE  Ordered(R, S \ {n}, N - 1, ClosedPos(pos, pos[n]), ClosedBounds(bnd, pos[n]))
<1>. DEFINE i == pos[n]
            P == ClosedPos(pos, i)
            B == ClosedBounds(bnd, i)
            S2 == S \ {n}
<1>1. /\ tr \in Trees /\ Nil \notin Nodes /\ Nil \notin S /\ S \subseteq Nodes
      /\ n \in Nodes /\ n # Nil /\ N \in Nat
  BY LinkTypes DEF Ordered, Linked, Numbered
<1>2. /\ y \in Side /\ 1 - y \in Side /\ tr.child[n][1 - y] = Nil /\ c = tr.child[n][y] /\ p = tr.parent[n]
      /\ \A s \in Side : s = y \/ s = 1 - y
  BY Sides DEF OnlyChild
<1>3. /\ R \in Trees
      /\ R.root = (IF p = Nil THEN c ELSE tr.root)
      /\ \A m \in Nodes, s \in Side :
           R.child[m][s] = IF m = p /\ tr.child[p][s] = n THEN c ELSE tr.child[m][s]
      /\ \A m \in Nodes : R.parent[m] = IF m = c THEN p ELSE tr.parent[m]
  BY DEF Bypassed
<1>4. /\ tr.root \in S \cup {Nil} /\ (tr.root = Nil <=> S = {})
      /\ \A m \in S : tr.parent[m] \in S \cup {Nil}
      /\ \A m \in S : tr.parent[m] = Nil <=> m = tr.root
      /\ \A m \in S : m # tr.root => \E s \in Side : tr.child[tr.parent[m]][s] = m
      /\ \A m \in S, s \in Side : tr.child[m][s] # Nil =>
           tr.child[m][s] \in S /\ tr.parent[tr.child[m][s]] = m
  BY DEF Ordered, Linked
<1>5. /\ pos \in [Nodes -> Int] /\ bnd \in [Nodes -> [Side -> Int]]
      /\ \A m \in S : 1 <= pos[m] /\ pos[m] <= N
      /\ \A m, k \in S : pos[m] = pos[k] => m = k
      /\ \A j \in 1 .. N : \E m \in S : pos[m] = j
      /\ \A m \in S : 0 <= bnd[m][LEFT] /\ bnd[m][RIGHT] <= N + 1
      /\ \A m \in S, s \in Side : OnSide(s, bnd[m][s], pos[m])
      /\ \A m \in S, s \in Side : tr.child[m][s] = Nil => Beside(s, bnd[m][s], pos[m])
      /\ \A m \in S, s \in Side : tr.child[m][s] # Nil =>
           bnd[tr.child[m][s]][s] = bnd[m][s] /\ bnd[tr.child[m][s]][1 - s] = pos[m]
      /\ tr.root # Nil => bnd[tr.root][LEFT] = 0 /\ bnd[tr.root][RIGHT] = N + 1
      /\ \A m, k \in S : pos[k] = pos[m] + 1 => tr.child[m][RIGHT] # Nil \/ tr.child[k][LEFT] # Nil
  BY DEF Ordered, Numbered, Bounded, Threaded
<1>6. /\ LEFT \in Side /\ RIGHT \in Side /\ LEFT = 0 /\ RIGHT = 1 /\ Side = {0, 1}
      /\ 1 - LEFT = RIGHT /\ 1 - RIGHT = LEFT
      /\ \A s \in Side : 1 - s \in Side /\ 1 - (1 - s) = s /\ (s = LEFT \/ s = RIGHT)
  BY Sides DEF Side
<1>7. i \in Int /\ 1 <= i /\ i <= N
  BY <1>1, <1>5
<1>8. /\ c \in S2 \cup {Nil} /\ p \in S2 \cup {Nil} /\ (p = Nil <=> n = tr.root)
      /\ c # Nil => c \in S /\ c # n /\ tr.parent[c] = n /\ c # p
  <2>1. c # Nil => c \in S /\ c # n /\ tr.parent[c] = n /\ \A r \in Side : tr.child[c][r] # n
    BY <1>2, Kin
  <2>2. p \in S \cup {Nil} /\ (p = Nil <=> n = tr.root)
    BY <1>2, <1>4
  <2>3. p # Nil => \E s \in Side : tr.child[p][s] = n
    BY <1>2, <1>4, <2>2
  <2>4. p # n
    BY <1>1, <2>2, <2>3, Kin
  <2>. QED
    BY <1>1, <1>2, <2>1, <2>2, <2>3, <2>4
<1>9. ASSUME NEW m \in S, NEW s \in Side, tr.child[m][s] = n PROVE m = p
  BY <1>1, <1>2, <1>4, <1>9
<1>10. ASSUME NEW m \in S2, tr.parent[m] = n PROVE m = c
  <2>1. m \in S /\ m # tr.root
    BY <1>1, <1>4, <1>10
  <2>2. PICK s \in Side : tr.child[n][s] = m
    BY <1>4, <1>10, <2>1
  <2>. QED
    BY <1>1, <1>2, <2>1, <2>2
<1>11. P \in [Nodes -> Int] /\ \A m \in Nodes : P[m] = Close(RIGHT, i, pos[m])
  BY <1>5, <1>6, <1>7, CloseIs DEF ClosedPos
<1>12. B \in [Nodes -> [Side -> Int]] /\ \A m \in Nodes, s \in Side : B[m][s] = Close(s, i, bnd[m][s])
  <2>1. \A m \in Nodes, s \in Side : bnd[m][s] \in Int /\ Close(s, i, bnd[m][s]) \in Int
    <3>1. \A m \in Nodes, s \in Side : bnd[m][s] \in Int
      BY <1>5
    <3>2. \A s \in Side, v \in Int : Close(s, i, v) \in Int
      BY <1>7, CloseIs
    <3>. QED
      BY <3>1, <3>2
  <2>. QED
    BY <2>1 DEF ClosedBounds
<1>13. \A m \in S2 : m \in S /\ m \in Nodes /\ pos[m] \in Int /\ pos[m] # i /\ \A s \in Side : bnd[m][s] \in Int
  BY <1>1, <1>5
<1>c. /\ \A s \in Side, v \in Int : Close(s, i, v) \in Int
      /\ \A v \in Int : v # i => Close(LEFT, i, v) = Close(RIGHT, i, v)
      /\ Close(LEFT, i, i) = i - 1 /\ Close(LEFT, i, i - 1) = i - 1
      /\ Close(RIGHT, i, i) = i /\ Close(RIGHT, i, i + 1) = i
      /\ Close(RIGHT, i, i - 1) = i - 1 /\ Close(LEFT, i, i + 1) = i
      /\ \A s \in Side, v, w \in Int : w # i =>
           /\ OnSide(s, v, w) => OnSide(s, Close(s, i, v), Close(RIGHT, i, w))
           /\ Beside(s, v, w) => Beside(s, Close(s, i, v), Close(RIGHT, i, w))
  BY <1>7, CloseIs
<1>. HIDE DEF P, B, i
<1>14. Linked(R, S2)
  <2>1. R.root \in S2 \cup {Nil}
    BY <1>3, <1>4, <1>8
  <2>2. R.root = Nil => S2 = {}
    <3>. SUFFICES ASSUME R.root = Nil PROVE \A m \in S : m = n
      OBVIOUS
    <3>1. p = Nil /\ c = Nil /\ n = tr.root /\ \A s \in Side : tr.child[n][s] = Nil
      BY <1>1, <1>2, <1>3, <1>4, <1>8
    <3>2. Beside(LEFT, bnd[n][LEFT], i) /\ Beside(RIGHT, bnd[n][RIGHT], i)
      BY <1>5, <1>6, <3>1 DEF i
    <3>3. bnd[n][LEFT] = 0 /\ bnd[n][RIGHT] = N + 1
      BY <1>1, <1>5, <3>1
    <3>4. i = 1 /\ N = 1
      BY <1>1, <1>6, <1>7, <3>2, <3>3 DEF Beside
    <3>. QED
      BY <1>1, <1>5, <3>4 DEF i
  <2>3. S2 = {} => R.root = Nil
    BY <2>1
  <2>4. \A m \in S2 : R.parent[m] \in S2 \cup {Nil}
    BY <1>1, <1>3, <1>4, <1>8, <1>10
  <2>5. \A m \in S2 : R.parent[m] = Nil <=> m = R.root
    BY <1>1, <1>3, <1>4, <1>8
  <2>6. ASSUME NEW m \in S2, m # R.root PROVE \E s \in Side : R.child[R.parent[m]][s] = m
    <3>1. CASE m = c
      <4>1. R.parent[m] = p /\ p # Nil /\ p \in Nodes
        BY <1>1, <1>3, <1>8, <2>6, <3>1
      <4>2. PICK s \in Side : tr.child[p][s] = n
        BY <1>1, <1>2, <1>4, <1>8, <4>1
      <4>. QED
        BY <1>3, <3>1, <4>1, <4>2
    <3>2. CASE m # c
      <4>1. m # tr.root /\ R.parent[m] = tr.parent[m] /\ tr.parent[m] \in S /\ tr.parent[m] # n
        BY <1>1, <1>3, <1>4, <1>8, <1>10, <2>6, <3>2
      <4>2. PICK s \in Side : tr.child[tr.parent[m]][s] = m
        BY <1>4, <4>1
      <4>. QED
        BY <1>1, <1>3, <4>1, <4>2
    <3>. QED
      BY <3>1, <3>2
  <2>7. ASSUME NEW m \in S2, NEW s \in Side, R.child[m][s] # Nil
        PROVE  R.child[m][s] \in S2 /\ R.parent[R.child[m][s]] = m
    <3>1. CASE m = p /\ tr.child[p][s] = n
      BY <1>1, <1>3, <1>8, <2>7, <3>1
    <3>2. CASE ~(m = p /\ tr.child[p][s] = n)
      <4>1. R.child[m][s] = tr.child[m][s] /\ tr.child[m][s] # n /\ m \in S
        BY <1>3, <1>9, <1>13, <3>2
      <4>2. tr.child[m][s] \in S /\ tr.parent[tr.child[m][s]] = m
        BY <1>4, <2>7, <4>1
      <4>3. tr.child[m][s] # c
        BY <1>8, <2>7, <4>1, <4>2
      <4>. QED
        BY <1>1, <1>3, <4>1, <4>2, <4>3
    <3>. QED
      BY <3>1, <3>2
  <2>. QED
    BY <1>1, <1>3, <2>1, <2>2, <2>3, <2>4, <2>5, <2>6, <2>7 DEF Linked
<1>15. Numbered(S2, N - 1, P)
  <2>1. ASSUME NEW m \in S2 PROVE 1 <= P[m] /\ P[m] <= N - 1
    <3>1. pos[m] \in Int /\ 1 <= pos[m] /\ pos[m] <= N /\ pos[m] # i /\ P[m] = Close(RIGHT, i, pos[m])
      BY <1>5, <1>11, <1>13
    <3>. QED
      BY <1>1, <1>6, <1>7, <3>1 DEF Close
  <2>2. ASSUME NEW m \in S2, NEW k \in S2, P[m] = P[k] PROVE m = k
    <3>1. /\ pos[m] \in Int /\ pos[m] # i /\ P[m] = Close(RIGHT, i, pos[m])
          /\ pos[k] \in Int /\ pos[k] # i /\ P[k] = Close(RIGHT, i, pos[k])
      BY <1>11, <1>13
    <3>2. pos[m] = pos[k]
      <4>1. /\ P[m] = IF pos[m] > i THEN pos[m] - 1 ELSE pos[m]
            /\ P[k] = IF pos[k] > i THEN pos[k] - 1 ELSE pos[k]
        BY <1>6, <3>1 DEF Close
      <4>2. (IF pos[m] > i THEN pos[m] - 1 ELSE pos[m]) = (IF pos[k] > i THEN pos[k] - 1 ELSE pos[k])
        BY <2>2, <4>1
      <4>. HIDE DEF i
      <4>. QED
        BY <1>7, <3>1, <4>2
    <3>. QED
      BY <1>5, <1>13, <3>2
  <2>3. ASSUME NEW j \in 1 .. (N - 1) PROVE \E m \in S2 : P[m] = j
    <3>1. CASE j < i
      <4>1. PICK m \in S : pos[m] = j
        BY <1>1, <1>5, <1>7, <3>1
      <4>. QED
        BY <1>1, <1>6, <1>7, <1>11, <3>1, <4>1 DEF Close, i
    <3>2. CASE j >= i
      <4>1. PICK m \in S : pos[m] = j + 1
        BY <1>1, <1>5, <1>7, <3>2
      <4>. QED
        BY <1>1, <1>6, <1>7, <1>11, <3>2, <4>1 DEF Close, i
    <3>. QED
      BY <1>7, <3>1, <3>2
  <2>4. N - 1 \in Nat
    BY <1>1, <1>7
  <2>. QED
    BY <1>11, <2>1, <2>2, <2>3, <2>4 DEF Numbered
<1>16. ASSUME NEW s \in Side, p # Nil, tr.child[p][s] = n
       PROVE  /\ bnd[n][s] = bnd[p][s] /\ bnd[n][1 - s] = pos[p] /\ p \in S2 /\ R.child[p][s] = c
              /\ c = Nil => Beside(s, bnd[p][s], i) /\ Beside(1 - s, pos[p], i)
              /\ c # Nil => /\ s = y => bnd[c][s] = bnd[p][s] /\ bnd[c][1 - s] = i /\ Beside(1 - s, pos[p], i)
                            /\ s # y => bnd[c][1 - s] = pos[p] /\ bnd[c][s] = i /\ Beside(s, bnd[p][s], i)
  <2>1. bnd[n][s] = bnd[p][s] /\ bnd[n][1 - s] = pos[p] /\ p \in S2 /\ R.child[p][s] = c
    BY <1>1, <1>3, <1>5, <1>8, <1>16
  <2>2. \A r \in Side : tr.child[n][r] = Nil => Beside(r, bnd[n][r], i)
    BY <1>5 DEF i
  <2>3. c # Nil => bnd[c][y] = bnd[n][y] /\ bnd[c][1 - y] = i
    BY <1>2, <1>5 DEF i
  <2>4. 1 - s \in Side /\ 1 - (1 - s) = s /\ (s = y \/ s = 1 - y) /\ (s # y => 1 - s = y)
    BY <1>2, <1>6
  <2>5. c = Nil => Beside(s, bnd[p][s], i) /\ Beside(1 - s, pos[p], i)
    BY <1>2, <2>1, <2>2, <2>4
  <2>6. c # Nil /\ s = y => bnd[c][s] = bnd[p][s] /\ bnd[c][1 - s] = i /\ Beside(1 - s, pos[p], i)
    BY <1>2, <2>1, <2>2, <2>3, <2>4
  <2>7. c # Nil /\ s # y => bnd[c][1 - s] = pos[p] /\ bnd[c][s] = i /\ Beside(s, bnd[p][s], i)
    BY <1>2, <2>1, <2>2, <2>3, <2>4
  <2>. QED
    BY <2>1, <2>5, <2>6, <2>7
<1>17. Bounded(R, S2, N - 1, P, B)
  <2>1. R.root # Nil => B[R.root][LEFT] = 0 /\ B[R.root][RIGHT] = (N - 1) + 1
    <3>. SUFFICES ASSUME R.root # Nil PROVE B[R.root][LEFT] = 0 /\ B[R.root][RIGHT] = (N - 1) + 1
      OBVIOUS
    <3>1. CASE p # Nil
      <4>1. R.root = tr.root /\ tr.root \in Nodes /\ bnd[tr.root][LEFT] = 0 /\ bnd[tr.root][RIGHT] = N + 1
        BY <1>1, <1>3, <1>4, <1>5, <3>1
      <4>2. B[R.root][LEFT] = Close(LEFT, i, 0) /\ B[R.root][RIGHT] = Close(RIGHT, i, N + 1)
        BY <1>6, <1>12, <4>1
      <4>. QED
        BY <1>1, <1>6, <1>7, <4>2 DEF Close
    <3>2. CASE p = Nil
      <4>1. R.root = c /\ c # Nil /\ c \in Nodes /\ n = tr.root
        BY <1>1, <1>3, <1>8, <3>2
      <4>2. bnd[n][LEFT] = 0 /\ bnd[n][RIGHT] = N + 1
        BY <1>1, <1>5, <4>1
      <4>3. bnd[c][y] = bnd[n][y] /\ bnd[c][1 - y] = i /\ Beside(1 - y, bnd[n][1 - y], i)
        BY <1>2, <1>5, <4>1 DEF i
      <4>4. B[c][LEFT] = Close(LEFT, i, bnd[c][LEFT]) /\ B[c][RIGHT] = Close(RIGHT, i, bnd[c][RIGHT])
        BY <1>6, <1>12, <4>1
      <4>5. CASE y = LEFT
        BY <1>1, <1>6, <1>7, <4>1, <4>2, <4>3, <4>4, <4>5 DEF Close, Beside
      <4>6. CASE y = RIGHT
        BY <1>1, <1>6, <1>7, <4>1, <4>2, <4>3, <4>4, <4>6 DEF Close, Beside
      <4>. QED
        BY <1>2, <1>6, <4>5, <4>6
    <3>. QED
      BY <3>1, <3>2
  <2>2. ASSUME NEW m \in S2 PROVE 0 <= B[m][LEFT] /\ B[m][RIGHT] <= (N - 1) + 1
    <3>1. /\ bnd[m][LEFT] \in Int /\ bnd[m][RIGHT] \in Int /\ 0 <= bnd[m][LEFT] /\ bnd[m][RIGHT] <= N + 1
          /\ B[m][LEFT] = Close(LEFT, i, bnd[m][LEFT]) /\ B[m][RIGHT] = Close(RIGHT, i, bnd[m][RIGHT])
      BY <1>5, <1>6, <1>12, <1>13
    <3>. QED
      BY <1>1, <1>6, <1>7, <3>1 DEF Close
  <2>3. ASSUME NEW m \in S2, NEW s \in Side PROVE OnSide(s, B[m][s], P[m])
    <3>1. pos[m] \in Int /\ pos[m] # i /\ bnd[m][s] \in Int /\ OnSide(s, bnd[m][s], pos[m])
      BY <1>5, <1>13
    <3>. QED
      BY <1>c, <1>11, <1>12, <1>13, <3>1
  <2>4. ASSUME NEW m \in S2, NEW s \in Side, R.child[m][s] = Nil PROVE Beside(s, B[m][s], P[m])
    <3>0. /\ pos[m] \in Int /\ pos[m] # i /\ bnd[m][s] \in Int /\ m \in S
          /\ B[m][s] = Close(s, i, bnd[m][s]) /\ P[m] = Close(RIGHT, i, pos[m])
      BY <1>11, <1>12, <1>13
    <3>1. CASE m = p /\ tr.child[p][s] = n
      <4>1. c = Nil /\ Beside(s, bnd[p][s], i) /\ Beside(1 - s, pos[p], i)
        BY <1>1, <1>16, <2>4, <3>0, <3>1
      <4>2. CASE s = LEFT
        BY <1>6, <1>7, <3>0, <3>1, <4>1, <4>2 DEF Beside, Close
      <4>3. CASE s = RIGHT
        BY <1>6, <1>7, <3>0, <3>1, <4>1, <4>3 DEF Beside, Close
      <4>. QED
        BY <1>6, <4>2, <4>3
    <3>2. CASE ~(m = p /\ tr.child[p][s] = n)
      <4>1. tr.child[m][s] = Nil
        BY <1>3, <1>13, <2>4, <3>2
      <4>2. Beside(s, bnd[m][s], pos[m])
        BY <1>5, <3>0, <4>1
      <4>. QED
        BY <1>c, <3>0, <4>2
    <3>. QED
      BY <3>1, <3>2
  <2>5. ASSUME NEW m \in S2, NEW s \in Side, R.child[m][s] # Nil
        PROVE  B[R.child[m][s]][s] = B[m][s] /\ B[R.child[m][s]][1 - s] = P[m]
    <3>. DEFINE x == R.child[m][s]
    <3>0. /\ pos[m] \in Int /\ pos[m] # i /\ bnd[m][s] \in Int /\ m \in S /\ x \in Nodes
          /\ B[m][s] = Close(s, i, bnd[m][s]) /\ P[m] = Close(RIGHT, i, pos[m])
          /\ B[x][s] = Close(s, i, bnd[x][s]) /\ B[x][1 - s] = Close(1 - s, i, bnd[x][1 - s])
      <4>1. x \in Nodes
        BY <1>1, <1>14, <2>5 DEF Linked
      <4>. QED
        BY <1>6, <1>11, <1>12, <1>13, <4>1
    <3>1. CASE m = p /\ tr.child[p][s] = n
      <4>1. x = c /\ c # Nil /\ p # Nil /\ bnd[p][s] \in Int /\ pos[p] \in Int /\ pos[p] # i
        BY <1>1, <1>16, <2>5, <3>0, <3>1
      <4>2. CASE s = y
        <5>1. bnd[c][s] = bnd[p][s] /\ bnd[c][1 - s] = i /\ Beside(1 - s, pos[p], i)
          BY <1>16, <3>1, <4>1, <4>2
        <5>2. Close(1 - s, i, i) = Close(RIGHT, i, pos[p])
          <6>1. CASE s = LEFT
            BY <1>6, <1>7, <4>1, <5>1, <6>1 DEF Beside, Close
          <6>2. CASE s = RIGHT
            BY <1>6, <1>7, <4>1, <5>1, <6>2 DEF Beside, Close
          <6>. QED
            BY <1>6, <6>1, <6>2
        <5>. QED
          BY <3>0, <3>1, <4>1, <5>1, <5>2
      <4>3. CASE s # y
        <5>1. bnd[c][1 - s] = pos[p] /\ bnd[c][s] = i /\ Beside(s, bnd[p][s], i)
          BY <1>16, <3>1, <4>1, <4>3
        <5>2. Close(1 - s, i, pos[p]) = Close(RIGHT, i, pos[p])
          BY <1>c, <1>6, <4>1
        <5>3. Close(s, i, i) = Close(s, i, bnd[p][s])
          <6>1. CASE s = LEFT
            BY <1>6, <1>7, <4>1, <5>1, <6>1 DEF Beside, Close
          <6>2. CASE s = RIGHT
            BY <1>6, <1>7, <4>1, <5>1, <6>2 DEF Beside, Close
          <6>. QED
            BY <1>6, <6>1, <6>2
        <5>. QED
          BY <3>0, <3>1, <4>1, <5>1, <5>2, <5>3
      <4>. QED
        BY <4>2, <4>3
    <3>2. CASE ~(m = p /\ tr.child[p][s] = n)
      <4>1. x = tr.child[m][s] /\ x # Nil
        BY <1>3, <1>13, <2>5, <3>2
      <4>2. bnd[x][s] = bnd[m][s] /\ bnd[x][1 - s] = pos[m]
        BY <1>5, <3>0, <4>1
      <4>3. Close(1 - s, i, pos[m]) = Close(RIGHT, i, pos[m])
        BY <1>c, <1>6, <3>0
      <4>. QED
        BY <3>0, <4>2, <4>3
    <3>. QED
      BY <3>1, <3>2
  <2>. QED
    BY <1>12, <2>1, <2>2, <2>3, <2>4, <2>5 DEF Bounded
<1>18. Threaded(R, S2, P)
  <2>. SUFFICES ASSUME NEW m \in S2, NEW k \in S2, P[k] = P[m] + 1,
                       R.child[m][RIGHT] = Nil, R.child[k][LEFT] = Nil
                PROVE  FALSE
    BY DEF Threaded
  <2>0. /\ pos[m] \in Int /\ pos[m] # i /\ m \in S /\ P[m] = Close(RIGHT, i, pos[m]) /\ m \in Nodes
        /\ pos[k] \in Int /\ pos[k] # i /\ k \in S /\ P[k] = Close(RIGHT, i, pos[k]) /\ k \in Nodes
    BY <1>11, <1>13
  <2>1. tr.child[m][RIGHT] # Nil => m = p /\ tr.child[p][RIGHT] = n /\ c = Nil
    BY <1>3, <1>6, <2>0
  <2>2. tr.child[k][LEFT] # Nil => k = p /\ tr.child[p][LEFT] = n /\ c = Nil
    BY <1>3, <1>6, <2>0
  <2>3. c = Nil => \A s \in Side : tr.child[n][s] = Nil
    BY <1>2
  <2>4. CASE pos[k] = pos[m] + 1
    <3>1. CASE tr.child[m][RIGHT] # Nil
      <4>1. Beside(LEFT, pos[m], i)
        BY <1>1, <1>6, <1>16, <2>0, <2>1, <3>1
      <4>. QED
        BY <2>0, <2>4, <4>1, <1>6 DEF Beside
    <3>2. CASE tr.child[k][LEFT] # Nil
      <4>1. Beside(RIGHT, pos[k], i)
        BY <1>1, <1>6, <1>16, <2>0, <2>2, <3>2
      <4>. QED
        BY <1>6, <1>7, <2>0, <2>4, <4>1 DEF Beside
    <3>. QED
      BY <1>5, <2>0, <2>4, <3>1, <3>2
  <2>5. CASE pos[m] = i - 1 /\ pos[k] = i + 1
    <3>0. m # k
      BY <1>7, <2>5
    <3>1. tr.child[m][RIGHT] # Nil \/ tr.child[n][LEFT] # Nil
      <4>1. i = pos[m] + 1
        BY <1>7, <2>5
      <4>. QED
        BY <1>5, <2>0, <4>1 DEF i
    <3>2. tr.child[n][RIGHT] # Nil \/ tr.child[k][LEFT] # Nil
      BY <1>5, <2>0, <2>5 DEF i
    <3>3. tr.child[n][LEFT] = Nil \/ tr.child[n][RIGHT] = Nil
      BY <1>2, <1>6
    <3>. QED
      BY <1>6, <2>1, <2>2, <2>3, <3>0, <3>1, <3>2, <3>3
  <2>. QED
    <3>1. pos[k] = pos[m] + 1 \/ (pos[m] = i - 1 /\ pos[k] = i + 1)
      BY <1>6, <1>7, <2>0 DEF Close
    <3>. QED
      BY <2>4, <2>5, <3>1
<1>. QED
  BY <1>14, <1>15, <1>17, <1>18 DEF Ordered, P, B, i

(* X is the link to the node to mend, if that is not the root.              *)
Placed(tr, S, node, parent, X) ==
  \/ node = tr.root /\ X = {}
  \/ /\ parent \in S
     /\ \E y \in Side : tr.child[parent][y] = node /\ X = {<<parent, y>>}

(* R is what is left of tr without n: a red node is gone, or a black one.   *)
Without(tr, R, S, N, Q, n, red, node, parent) ==
  /\ red => Good(R, S \ {n}, N - 1, Q, {}, {}, {})
  /\ ~red => \E X : /\ Placed(R, S \ {n}, node, parent, X)
                    /\ Good(R, S \ {n}, N - 1, Q, X, {node}, {node})
  /\ node \in (S \ {n}) \cup {Nil}
  /\ SameBut(S, tr, R)

LEMMA BypassIsGood ==
  ASSUME NEW tr, NEW R, NEW S, NEW N, NEW pos, Good(tr, S, N, pos, {}, {}, {}),
         NEW n \in S, NEW y, NEW p, NEW c,
         OnlyChild(tr, n, y, p, c), Bypassed(tr, R, n, p, c)
  PROVE  Without(tr, R, S, N, ClosedPos(pos, pos[n]), n, n \in tr.red, c, p)
<1>. DEFINE S2 == S \ {n}
            X == LinksTo(tr, S2, n)
            Left == IF n \in tr.red THEN {} ELSE X
            Q == ClosedPos(pos, pos[n])
<1>1. PICK bnd : Ordered(tr, S, N, pos, bnd)
  BY DEF Good
<1>2. PICK h : Even(tr, S, h, {})
  BY DEF Good
<1>3. RedOK(tr, S, {}, {})
  BY DEF Good
<1>4. Ordered(R, S2, N - 1, Q, ClosedBounds(bnd, pos[n]))
  BY <1>1, BypassIsOrdered
<1>5. /\ Nil \notin Nodes /\ Nil \notin S /\ S \subseteq Nodes /\ n \in Nodes /\ n # Nil
      /\ tr.root \in S \cup {Nil} /\ tr.red \subseteq Nodes
      /\ \A m \in S : tr.parent[m] \in S \cup {Nil} /\ (tr.parent[m] = Nil <=> m = tr.root)
      /\ \A m \in S : m # tr.root => \E s \in Side : tr.child[tr.parent[m]][s] = m
      /\ \A m \in S, s \in Side : tr.child[m][s] # Nil =>
           tr.child[m][s] \in S /\ tr.parent[tr.child[m][s]] = m
  BY <1>1, LinkTypes DEF Ordered, Linked
<1>6. y \in Side /\ 1 - y \in Side /\ c = tr.child[n][y] /\ p = tr.parent[n]
  BY Sides DEF OnlyChild
<1>7. /\ R.red = tr.red /\ R.root = (IF p = Nil THEN c ELSE tr.root)
      /\ \A m \in Nodes, s \in Side :
           R.child[m][s] = IF m = p /\ tr.child[p][s] = n THEN c ELSE tr.child[m][s]
      /\ \A m \in Nodes : R.parent[m] = IF m = c THEN p ELSE tr.parent[m]
  BY DEF Bypassed
<1>8. /\ h \in [Links -> Nat] /\ h[Nil] = 0
      /\ \A m \in S, s \in Side : h[m] = Blacks(tr, m) + h[tr.child[m][s]] + 0
  BY <1>2 DEF Even, Fits
<1>9. ASSUME NEW m \in S, NEW s \in Side, tr.child[m][s] = n
      PROVE  m = p /\ p \in S2 /\ tr.child[m][1 - s] # n
  <2>1. tr.parent[n] = m /\ m # n /\ tr.child[m][1 - s] # n
    BY <1>1, <1>5, <1>9, Kin
  <2>. QED
    BY <1>6, <2>1
<1>10. c \in S2 \cup {Nil}
  BY <1>1, <1>5, <1>6, Kin
<1>11. h[n] = Blacks(tr, n) + h[c]
  <2>1. h[n] = Blacks(tr, n) + h[c] + 0
    BY <1>6, <1>8
  <2>2. h[c] \in Nat /\ Blacks(tr, n) \in Nat
    BY <1>5, <1>8, <1>10 DEF Links, Blacks
  <2>. QED
    BY <2>1, <2>2
<1>12. \A m \in S2, s \in Side : <<m, s>> \in X <=> tr.child[m][s] = n
  BY DEF LinksTo
<1>13. ASSUME NEW m \in S2, NEW s \in Side
       PROVE  h[m] = Blacks(R, m) + h[R.child[m][s]] + (IF <<m, s>> \in Left THEN 1 ELSE 0)
  <2>1. h[m] = Blacks(tr, m) + h[tr.child[m][s]] + 0 /\ Blacks(R, m) = Blacks(tr, m) /\ Blacks(tr, m) \in Nat
    BY <1>7, <1>8 DEF Blacks
  <2>2. CASE tr.child[m][s] = n
    <3>1. R.child[m][s] = c /\ h[c] \in Nat
      BY <1>5, <1>7, <1>8, <1>9, <1>10, <2>2 DEF Links
    <3>2. <<m, s>> \in Left <=> n \notin tr.red
      BY <1>12, <2>2
    <3>. QED
      BY <1>11, <2>1, <2>2, <3>1, <3>2 DEF Blacks
  <2>3. CASE tr.child[m][s] # n
    <3>1. R.child[m][s] = tr.child[m][s]
      BY <1>5, <1>7, <2>3
    <3>2. <<m, s>> \notin X
      BY <1>12, <2>3
    <3>3. <<m, s>> \notin Left
      BY <3>2
    <3>. QED
      BY <2>1, <3>1, <3>3
  <2>. QED
    BY <2>2, <2>3
<1>14. Even(R, S2, h, Left)
  BY <1>8, <1>13 DEF Even, Fits
<1>15. \A m \in S, s \in Side : ~(m \in tr.red /\ tr.child[m][s] \in tr.red)
  BY <1>3 DEF RedOK, LinkOK
<1>16. ASSUME NEW m \in S2, NEW s \in Side, m \in R.red, R.child[m][s] \in R.red
       PROVE  R.child[m][s] = c /\ n \notin tr.red
  <2>1. tr.child[m][s] = n
    BY <1>5, <1>7, <1>15, <1>16
  <2>2. n \notin tr.red
    BY <1>7, <1>15, <1>16, <2>1
  <2>. QED
    BY <1>5, <1>7, <1>9, <2>1, <2>2
<1>17. R.root \in R.red => R.root = c /\ n \notin tr.red
  <2>1. tr.root \notin tr.red
    BY <1>3 DEF RedOK
  <2>2. p = Nil => n = tr.root
    BY <1>5, <1>6
  <2>. QED
    BY <1>7, <2>1, <2>2
<1>18. n \in tr.red => RedOK(R, S2, {}, {})
  BY <1>16, <1>17 DEF RedOK, LinkOK
<1>19. RedOK(R, S2, {c}, {c})
  BY <1>16, <1>17 DEF RedOK, LinkOK
<1>20. Placed(R, S2, c, p, X)
  <2>1. CASE p = Nil
    <3>1. R.root = c
      BY <1>7, <2>1
    <3>2. X = {}
      <4>1. \A m \in S2, s \in Side : tr.child[m][s] # n
        BY <1>5, <1>9, <2>1
      <4>. QED
        BY <4>1 DEF LinksTo
    <3>. QED
      BY <3>1, <3>2 DEF Placed
  <2>2. CASE p # Nil
    <3>1. p \in S /\ n # tr.root
      BY <1>5, <1>6, <2>2
    <3>2. PICK s \in Side : tr.child[p][s] = n
      BY <1>5, <1>6, <3>1
    <3>3. p \in S2 /\ R.child[p][s] = c /\ tr.child[p][1 - s] # n
      BY <1>5, <1>7, <1>9, <3>1, <3>2
    <3>4. X = {<<p, s>>}
      <4>1. <<p, s>> \in X
        BY <1>12, <3>2, <3>3
      <4>2. ASSUME NEW x \in X PROVE x = <<p, s>>
        <5>1. x \in S2 \X Side /\ tr.child[x[1]][x[2]] = n
          BY DEF LinksTo
        <5>2. PICK m \in S2, r \in Side : x = <<m, r>>
          BY <5>1
        <5>3. m = p /\ tr.child[p][r] = n
          BY <1>9, <5>1, <5>2
        <5>4. r = s
          BY <3>2, <3>3, <5>3, Sides
        <5>. QED
          BY <5>2, <5>3, <5>4
      <4>. QED
        BY <4>1, <4>2
    <3>. QED
      BY <3>2, <3>3, <3>4 DEF Placed
  <2>. QED
    BY <2>1, <2>2
<1>21. SameBut(S, tr, R)
  <2>1. p \in S \cup {Nil}
    BY <1>5, <1>6
  <2>. QED
    BY <1>5, <1>7, <1>10, <2>1 DEF SameBut
<1>22. n \in tr.red => Good(R, S2, N - 1, Q, {}, {}, {})
  BY <1>4, <1>14, <1>18 DEF Good
<1>23. n \notin tr.red => Good(R, S2, N - 1, Q, X, {c}, {c})
  BY <1>4, <1>14, <1>19 DEF Good
<1>. QED
  BY <1>10, <1>20, <1>21, <1>22, <1>23 DEF Without

-------------------------------------------------------------------------------
(***************************************************************************)
(* Recursion down and up a tree.                                           *)
(***************************************************************************)

(* There is no endless descent.                                             *)
Descends(m, Bad) == \A x \in Bad : \E y \in Bad : m[y] < m[x]

LEMMA DescentEnds ==
  ASSUME NEW D, NEW m \in [D -> Nat], NEW Bad \in SUBSET D, Descends(m, Bad)
  PROVE  Bad = {}
<1>. DEFINE R == OpToRel(<, Nat)
            I == {m[x] : x \in Bad}
<1>1. IsWellFoundedOn(R, Nat)
  BY NatLessThanWellFounded
<1>2. SUFFICES ASSUME Bad # {} PROVE FALSE
  OBVIOUS
<1>3. I \subseteq Nat /\ I # {}
  BY <1>2
<1>4. \E i \in I : \A j \in I : <<j, i>> \notin R
  <2>. HIDE DEF R, I
  <2>. QED
    BY <1>1, <1>3, WFMin
<1>5. PICK i \in I : \A j \in I : <<j, i>> \notin R
  BY <1>4
<1>6. PICK x \in Bad : i = m[x]
  OBVIOUS
<1>7. PICK y \in Bad : m[y] < m[x]
  BY DEF Descends
<1>8. m[y] \in I /\ m[y] \in Nat /\ m[x] \in Nat
  OBVIOUS
<1>. QED
  BY <1>5, <1>6, <1>7, <1>8 DEF OpToRel

(* A function that is given on Z, and elsewhere by its value at an argument *)
(* that is less, is there.                                                  *)
Given(D, Z, e, c, next, f, x) == f[x] = IF x \in Z THEN e[x] ELSE c[x][f[next[x]]]

Solves(D, V, Z, e, c, next, f) == f \in [D -> V] /\ \A x \in D : Given(D, Z, e, c, next, f, x)

Declines(D, Z, next, m, M) ==
  m \in [D -> Nat] /\ (\A x \in D : m[x] <= M) /\ \A x \in D \ Z : m[next[x]] < m[x]

LEMMA Recursion ==
  ASSUME NEW D, NEW V, NEW Z \in SUBSET D, NEW e \in [D -> V], NEW c \in [D -> [V -> V]],
         NEW next \in [D \ Z -> D], NEW m, NEW M \in Nat, Declines(D, Z, next, m, M)
  PROVE  \E f : Solves(D, V, Z, e, c, next, f)
<1>0. m \in [D -> Nat] /\ (\A x \in D : m[x] <= M) /\ \A x \in D \ Z : m[next[x]] < m[x]
  BY DEF Declines
<1>. DEFINE Solved(k) == \E f \in [D -> V] : \A x \in D : m[x] < k => Given(D, Z, e, c, next, f, x)
            Bad == {k \in Nat : ~Solved(k)}
            id == [k \in Nat |-> k]
<1>1. Solved(0)
  <2>1. \A x \in D : ~(m[x] < 0)
    BY <1>0
  <2>. QED
    BY <2>1
<1>2. ASSUME NEW k \in Nat, Solved(k) PROVE Solved(k + 1)
  <2>1. PICK f \in [D -> V] : \A x \in D : m[x] < k => Given(D, Z, e, c, next, f, x)
    BY <1>2
  <2>. DEFINE g == [x \in D |-> IF x \in Z THEN e[x] ELSE c[x][f[next[x]]]]
  <2>2. g \in [D -> V]
    <3>1. ASSUME NEW x \in D, x \notin Z PROVE c[x][f[next[x]]] \in V
      <4>1. next[x] \in D /\ c[x] \in [V -> V]
        BY <3>1
      <4>. QED
        BY <2>1, <4>1
    <3>2. \A x \in D : e[x] \in V
      OBVIOUS
    <3>. QED
      BY <3>1, <3>2
  <2>3. \A x \in D : g[x] = IF x \in Z THEN e[x] ELSE c[x][f[next[x]]]
    OBVIOUS
  <2>. HIDE DEF g
  <2>4. ASSUME NEW x \in D, m[x] < k + 1 PROVE Given(D, Z, e, c, next, g, x)
    <3>1. CASE x \in Z
      BY <2>3, <3>1 DEF Given
    <3>2. CASE x \notin Z
      <4>1. next[x] \in D /\ m[next[x]] \in Nat /\ m[x] \in Nat /\ m[next[x]] < m[x]
        BY <1>0, <3>2
      <4>2. m[next[x]] < k
        BY <2>4, <4>1
      <4>3. g[next[x]] = f[next[x]]
        BY <2>1, <2>3, <4>1, <4>2 DEF Given
      <4>. QED
        BY <2>3, <3>2, <4>3 DEF Given
    <3>. QED
      BY <3>1, <3>2
  <2>. QED
    BY <2>2, <2>4
<1>. HIDE DEF Solved
<1>3. ASSUME NEW k \in Bad PROVE \E j \in Bad : id[j] < id[k]
  <2>1. k \in Nat /\ k # 0 /\ ~Solved(k)
    BY <1>1, <1>3
  <2>2. k - 1 \in Nat /\ (k - 1) + 1 = k
    BY <2>1
  <2>3. ~Solved(k - 1)
    BY <1>2, <2>1, <2>2
  <2>. QED
    BY <2>1, <2>2, <2>3
<1>4. Bad = {}
  <2>1. id \in [Nat -> Nat] /\ Bad \in SUBSET Nat
    OBVIOUS
  <2>2. Descends(id, Bad)
    BY <1>3 DEF Descends
  <2>. HIDE DEF id, Bad
  <2>. QED
    BY <2>1, <2>2, DescentEnds
<1>5. Solved(M + 1)
  <2>1. M + 1 \in Nat
    OBVIOUS
  <2>. QED
    BY <1>4, <2>1
<1>6. \A x \in D : m[x] < M + 1
  <2>1. \A x \in D : m[x] \in Nat /\ m[x] <= M
    BY <1>0
  <2>. QED
    BY <2>1
<1>. QED
  BY <1>5, <1>6 DEF Solved, Solves

(* How many numbers there are between the bounds of a node, and one.        *)
Widths(S, bnd) == [n \in Nodes |-> IF n \in S THEN bnd[n][RIGHT] - bnd[n][LEFT] ELSE 0]

LEMMA WidthsAre ==
  ASSUME NEW tr, NEW S, NEW N, NEW pos, NEW bnd, Ordered(tr, S, N, pos, bnd)
  PROVE  /\ Widths(S, bnd) \in [Nodes -> Nat]
         /\ \A n \in Nodes : Widths(S, bnd)[n] <= N + 1
         /\ \A n \in S, s \in Side : tr.child[n][s] # Nil =>
              Widths(S, bnd)[tr.child[n][s]] < Widths(S, bnd)[n]
<1>1. /\ S \subseteq Nodes /\ N \in Nat /\ pos \in [Nodes -> Int] /\ bnd \in [Nodes -> [Side -> Int]]
      /\ \A n \in S : 0 <= bnd[n][LEFT] /\ bnd[n][RIGHT] <= N + 1
      /\ \A n \in S, s \in Side : OnSide(s, bnd[n][s], pos[n])
      /\ \A n \in S, s \in Side : tr.child[n][s] # Nil =>
           bnd[tr.child[n][s]][s] = bnd[n][s] /\ bnd[tr.child[n][s]][1 - s] = pos[n]
  BY DEF Ordered, Linked, Numbered, Bounded
<1>2. /\ LEFT \in Side /\ RIGHT \in Side /\ LEFT = 0 /\ RIGHT = 1
      /\ 1 - LEFT = RIGHT /\ 1 - RIGHT = LEFT /\ \A s \in Side : s = LEFT \/ s = RIGHT
  BY Sides DEF Side
<1>3. ASSUME NEW n \in S
      PROVE  /\ bnd[n][LEFT] \in Int /\ bnd[n][RIGHT] \in Int /\ pos[n] \in Int
             /\ bnd[n][LEFT] < pos[n] /\ pos[n] < bnd[n][RIGHT]
             /\ Widths(S, bnd)[n] = bnd[n][RIGHT] - bnd[n][LEFT]
             /\ Widths(S, bnd)[n] \in Nat /\ Widths(S, bnd)[n] <= N + 1
  <2>1. bnd[n][LEFT] \in Int /\ bnd[n][RIGHT] \in Int /\ pos[n] \in Int
    BY <1>1, <1>2
  <2>2. OnSide(LEFT, bnd[n][LEFT], pos[n]) /\ OnSide(RIGHT, bnd[n][RIGHT], pos[n])
    BY <1>1, <1>2
  <2>3. bnd[n][LEFT] < pos[n] /\ pos[n] < bnd[n][RIGHT]
    BY <1>2, <2>2 DEF OnSide
  <2>4. Widths(S, bnd)[n] = bnd[n][RIGHT] - bnd[n][LEFT]
    BY <1>1 DEF Widths
  <2>5. 0 <= bnd[n][LEFT] /\ bnd[n][RIGHT] <= N + 1
    BY <1>1
  <2>. QED
    BY <1>1, <2>1, <2>3, <2>4, <2>5
<1>4. \A n \in Nodes \ S : Widths(S, bnd)[n] = 0
  BY DEF Widths
<1>5. Widths(S, bnd) \in [Nodes -> Nat]
  <2>1. \A n \in Nodes : Widths(S, bnd)[n] \in Nat
    BY <1>3, <1>4
  <2>2. Widths(S, bnd) = [n \in Nodes |-> Widths(S, bnd)[n]]
    BY DEF Widths
  <2>. QED
    BY <2>1, <2>2
<1>6. \A n \in Nodes : Widths(S, bnd)[n] <= N + 1
  BY <1>1, <1>3, <1>4
<1>7. ASSUME NEW n \in S, NEW s \in Side, tr.child[n][s] # Nil
      PROVE  Widths(S, bnd)[tr.child[n][s]] < Widths(S, bnd)[n]
  <2>. DEFINE c == tr.child[n][s]
  <2>1. c \in S
    BY <1>7, Kin
  <2>2. bnd[c][s] = bnd[n][s] /\ bnd[c][1 - s] = pos[n]
    BY <1>1, <1>7
  <2>3. /\ bnd[n][LEFT] \in Int /\ bnd[n][RIGHT] \in Int /\ pos[n] \in Int
        /\ bnd[n][LEFT] < pos[n] /\ pos[n] < bnd[n][RIGHT]
        /\ Widths(S, bnd)[n] = bnd[n][RIGHT] - bnd[n][LEFT]
    BY <1>3
  <2>4. Widths(S, bnd)[c] = bnd[c][RIGHT] - bnd[c][LEFT]
    BY <1>3, <2>1
  <2>. HIDE DEF c
  <2>5. CASE s = LEFT
    BY <1>2, <2>2, <2>3, <2>4, <2>5 DEF c
  <2>6. CASE s = RIGHT
    BY <1>2, <2>2, <2>3, <2>4, <2>6 DEF c
  <2>. QED
    BY <1>2, <2>5, <2>6
<1>. QED
  BY <1>5, <1>6, <1>7

(* the node that has number i, or Nil                                       *)
At(S, pos, i) == IF \E n \in S : pos[n] = i THEN CHOOSE n \in S : pos[n] = i ELSE Nil

LEMMA AtIs ==
  ASSUME NEW S, NEW N, NEW pos, Numbered(S, N, pos)
  PROVE  /\ \A n \in S : At(S, pos, pos[n]) = n
         /\ \A i \in 1 .. N : At(S, pos, i) \in S /\ pos[At(S, pos, i)] = i
         /\ \A i \in Int : i \notin 1 .. N => At(S, pos, i) = Nil
<1>1. /\ N \in Nat /\ \A n \in S : 1 <= pos[n] /\ pos[n] <= N
      /\ \A m, n \in S : pos[m] = pos[n] => m = n
      /\ \A i \in 1 .. N : \E n \in S : pos[n] = i
  BY DEF Numbered
<1>2. ASSUME NEW i, NEW n \in S, pos[n] = i PROVE At(S, pos, i) = n
  <2>1. \A m \in S : pos[m] = i <=> m = n
    BY <1>1, <1>2
  <2>2. At(S, pos, i) \in S /\ pos[At(S, pos, i)] = i
    BY <1>2 DEF At
  <2>. QED
    BY <2>1, <2>2
<1>3. ASSUME NEW i \in Int, i \notin 1 .. N PROVE At(S, pos, i) = Nil
  BY <1>1, <1>3 DEF At
<1>4. ASSUME NEW i \in 1 .. N PROVE At(S, pos, i) \in S /\ pos[At(S, pos, i)] = i
  <2>1. PICK n \in S : pos[n] = i
    BY <1>1
  <2>. QED
    BY <1>2, <2>1
<1>. QED
  BY <1>2, <1>3, <1>4

(* the nodes that are not in the tree have no links and are not red         *)
Loose(tr, S) ==
  \A n \in Nodes \ S : /\ tr.parent[n] = Nil /\ n \notin tr.red
                       /\ \A s \in Side : tr.child[n][s] = Nil

(* the number next to a bound                                               *)
Edge(s, v) == IF s = LEFT THEN v + 1 ELSE v - 1

LEMMA OutermostIs ==
  ASSUME NEW tr, NEW S, NEW N, NEW pos, NEW bnd, Ordered(tr, S, N, pos, bnd), Loose(tr, S),
         NEW n \in S, NEW side \in Side
  PROVE  /\ Outermost(tr, n, side) = At(S, pos, Edge(side, bnd[n][side]))
         /\ Outermost(tr, n, side) \in Nodes /\ tr.child[Outermost(tr, n, side)][side] = Nil
<1>. DEFINE Eq(f) == f = [x \in Nodes |-> IF tr.child[x][side] = Nil THEN x ELSE f[tr.child[x][side]]]
            From == CHOOSE f : Eq(f)
            g == [x \in Nodes |-> IF x \in S THEN At(S, pos, Edge(side, bnd[x][side])) ELSE x]
            Bad == {x \in Nodes : From[x] # g[x]}
            Open == {x \in Nodes : From[x] \notin Nodes \/ tr.child[From[x]][side] # Nil}
<1>1. /\ S \subseteq Nodes /\ Nil \notin S
      /\ \A x \in S, s \in Side : tr.child[x][s] # Nil => tr.child[x][s] \in S
  BY LinkTypes DEF Ordered, Linked
<1>2. /\ pos \in [Nodes -> Int] /\ bnd \in [Nodes -> [Side -> Int]] /\ Numbered(S, N, pos)
      /\ \A x \in S, s \in Side : tr.child[x][s] = Nil => Beside(s, bnd[x][s], pos[x])
      /\ \A x \in S, s \in Side : tr.child[x][s] # Nil => bnd[tr.child[x][s]][s] = bnd[x][s]
  BY DEF Ordered, Numbered, Bounded
<1>3. ASSUME NEW x \in Nodes
      PROVE  g[x] = IF tr.child[x][side] = Nil THEN x ELSE g[tr.child[x][side]]
  <2>1. CASE x \notin S
    BY <2>1 DEF Loose
  <2>2. CASE x \in S /\ tr.child[x][side] # Nil
    BY <1>1, <1>2, <2>2
  <2>3. CASE x \in S /\ tr.child[x][side] = Nil
    <3>1. Beside(side, bnd[x][side], pos[x]) /\ bnd[x][side] \in Int /\ pos[x] \in Int
      BY <1>1, <1>2, <2>3
    <3>2. pos[x] = Edge(side, bnd[x][side])
      BY <3>1 DEF Edge, Beside
    <3>3. At(S, pos, pos[x]) = x
      BY <1>2, <2>3, AtIs
    <3>. QED
      BY <2>3, <3>2, <3>3
  <2>. QED
    BY <2>1, <2>2, <2>3
<1>4. Eq(g)
  <2>1. g = [x \in Nodes |-> g[x]]
    OBVIOUS
  <2>. HIDE DEF g
  <2>. QED
    BY <1>3, <2>1
<1>5. Eq(From)
  <2>. HIDE DEF Eq, g
  <2>. QED
    BY <1>4
<1>6. Outermost(tr, n, side) = From[n]
  BY DEF Outermost
<1>. HIDE DEF From, g
<1>7. \A x \in Nodes : From[x] = IF tr.child[x][side] = Nil THEN x ELSE From[tr.child[x][side]]
  BY <1>5
<1>8. Descends(Widths(S, bnd), Bad)
  <2>1. ASSUME NEW x \in Bad PROVE \E y \in Bad : Widths(S, bnd)[y] < Widths(S, bnd)[x]
    <3>1. x \in Nodes /\ tr.child[x][side] # Nil /\ From[tr.child[x][side]] # g[tr.child[x][side]]
      BY <1>3, <1>7
    <3>2. x \in S
      BY <3>1 DEF Loose
    <3>3. tr.child[x][side] \in Bad
      BY <1>1, <3>1, <3>2
    <3>. QED
      BY <3>1, <3>2, <3>3, WidthsAre
  <2>. QED
    BY <2>1 DEF Descends
<1>9. Bad = {}
  <2>1. Widths(S, bnd) \in [Nodes -> Nat] /\ Bad \in SUBSET Nodes
    BY WidthsAre
  <2>. HIDE DEF Bad
  <2>. QED
    BY <1>8, <2>1, DescentEnds
<1>10. From[n] = g[n]
  BY <1>1, <1>9
<1>11. Descends(Widths(S, bnd), Open)
  <2>1. ASSUME NEW x \in Open PROVE \E y \in Open : Widths(S, bnd)[y] < Widths(S, bnd)[x]
    <3>1. x \in Nodes /\ tr.child[x][side] # Nil /\ From[x] = From[tr.child[x][side]]
      BY <1>7
    <3>2. x \in S
      BY <3>1 DEF Loose
    <3>3. tr.child[x][side] \in Open
      BY <1>1, <3>1, <3>2
    <3>. QED
      BY <3>1, <3>2, <3>3, WidthsAre
  <2>. QED
    BY <2>1 DEF Descends
<1>12. Open = {}
  <2>1. Widths(S, bnd) \in [Nodes -> Nat] /\ Open \in SUBSET Nodes
    BY WidthsAre
  <2>. HIDE DEF Open
  <2>. QED
    BY <1>11, <2>1, DescentEnds
<1>13. From[n] \in Nodes /\ tr.child[From[n]][side] = Nil
  BY <1>1, <1>12
<1>. QED
  BY <1>1, <1>6, <1>10, <1>13 DEF g

-------------------------------------------------------------------------------
(***************************************************************************)
(* A node with two children: the next one takes its place.                 *)
(***************************************************************************)

(* T is D with `next` where n was.                                          *)
Named(n, next, x) == IF x = n THEN next ELSE x

Substituted(D, T, S, n, next) ==
  /\ T \in Trees
  /\ T.root = Named(n, next, D.root)
  /\ \A m \in S \ {n} :
       /\ \A s \in Side : T.child[m][s] = Named(n, next, D.child[Named(next, n, m)][s])
       /\ T.parent[m] = Named(n, next, D.parent[Named(next, n, m)])
       /\ m \in T.red <=> Named(next, n, m) \in D.red

LEMMA SubstitutionIsOrdered ==
  ASSUME NEW D, NEW T, NEW S \in SUBSET Nodes, NEW n \in S, NEW next \in S, n # next,
         NEW N, NEW pos, NEW bnd, Ordered(D, S \ {next}, N, pos, bnd),
         Substituted(D, T, S, n, next)
  PROVE  Ordered(T, S \ {n}, N, [pos EXCEPT ![next] = pos[n]], [bnd EXCEPT ![next] = bnd[n]])
<1>. DEFINE S1 == S \ {next}
            S2 == S \ {n}
            f(x) == Named(n, next, x)
            b(x) == Named(next, n, x)
            P == [pos EXCEPT ![next] = pos[n]]
            B == [bnd EXCEPT ![next] = bnd[n]]
<1>1. /\ Nil \notin Nodes /\ n \in S1 /\ S1 \subseteq Nodes /\ N \in Nat
      /\ D.root \in S1 \cup {Nil} /\ (D.root = Nil <=> S1 = {})
      /\ \A x \in S1 : D.parent[x] \in S1 \cup {Nil} /\ (D.parent[x] = Nil <=> x = D.root)
      /\ \A x \in S1 : x # D.root => \E s \in Side : D.child[D.parent[x]][s] = x
      /\ \A x \in S1, s \in Side : D.child[x][s] # Nil =>
           D.child[x][s] \in S1 /\ D.parent[D.child[x][s]] = x
  BY DEF Ordered, Linked, Numbered
<1>2. /\ pos \in [Nodes -> Int] /\ bnd \in [Nodes -> [Side -> Int]]
      /\ \A x \in S1 : 1 <= pos[x] /\ pos[x] <= N
      /\ \A x, y \in S1 : pos[x] = pos[y] => x = y
      /\ \A j \in 1 .. N : \E x \in S1 : pos[x] = j
      /\ D.root # Nil => bnd[D.root][LEFT] = 0 /\ bnd[D.root][RIGHT] = N + 1
      /\ \A x \in S1 : 0 <= bnd[x][LEFT] /\ bnd[x][RIGHT] <= N + 1
      /\ \A x \in S1, s \in Side : OnSide(s, bnd[x][s], pos[x])
      /\ \A x \in S1, s \in Side : D.child[x][s] = Nil => Beside(s, bnd[x][s], pos[x])
      /\ \A x \in S1, s \in Side : D.child[x][s] # Nil =>
           bnd[D.child[x][s]][s] = bnd[x][s] /\ bnd[D.child[x][s]][1 - s] = pos[x]
      /\ \A x, y \in S1 : pos[y] = pos[x] + 1 => D.child[x][RIGHT] # Nil \/ D.child[y][LEFT] # Nil
  BY DEF Ordered, Numbered, Bounded, Threaded
<1>3. next \in Nodes /\ S2 \subseteq Nodes /\ Nil \notin S2 /\ n # Nil /\ next # Nil /\ next \in S2
  BY <1>1
<1>4. /\ f(Nil) = Nil
      /\ \A x \in S1 : f(x) \in S2 /\ b(f(x)) = x
      /\ \A m \in S2 : b(m) \in S1 /\ f(b(m)) = m
  BY <1>1, <1>3 DEF Named
<1>5. /\ P \in [Nodes -> Int] /\ B \in [Nodes -> [Side -> Int]]
      /\ \A m \in S2 : P[m] = pos[b(m)] /\ B[m] = bnd[b(m)]
  BY <1>1, <1>2, <1>3 DEF Named
<1>6. /\ T \in Trees /\ T.root = f(D.root)
      /\ \A m \in S2 : (\A s \in Side : T.child[m][s] = f(D.child[b(m)][s])) /\ T.parent[m] = f(D.parent[b(m)])
  BY DEF Substituted
<1>7. Side = {LEFT, RIGHT} /\ \A s \in Side : 1 - s \in Side
  BY Sides DEF Side
<1>. HIDE DEF f, b, P, B
<1>8. \A x \in S1 \cup {Nil} : f(x) \in S2 \cup {Nil} /\ (f(x) = Nil <=> x = Nil)
  BY <1>1, <1>3, <1>4
<1>9. \A m \in S2, s \in Side : D.child[b(m)][s] \in S1 \cup {Nil} /\ D.parent[b(m)] \in S1 \cup {Nil}
  BY <1>1, <1>4
<1>10. ASSUME NEW m \in S2, NEW s \in Side, T.child[m][s] # Nil
       PROVE  /\ D.child[b(m)][s] # Nil /\ D.child[b(m)][s] \in S1
              /\ T.child[m][s] \in S2 /\ b(T.child[m][s]) = D.child[b(m)][s]
  BY <1>4, <1>6, <1>8, <1>9, <1>10
<1>11. ASSUME NEW m \in S2, NEW s \in Side, T.child[m][s] = Nil PROVE D.child[b(m)][s] = Nil
  BY <1>6, <1>8, <1>9, <1>11
<1>12. Linked(T, S2)
  <2>1. T.root \in S2 \cup {Nil} /\ (T.root = Nil <=> S2 = {})
    BY <1>1, <1>3, <1>6, <1>8
  <2>2. \A m \in S2 : T.parent[m] \in S2 \cup {Nil}
    BY <1>6, <1>7, <1>8, <1>9
  <2>3. ASSUME NEW m \in S2 PROVE T.parent[m] = Nil <=> m = T.root
    <3>1. T.parent[m] = Nil <=> D.parent[b(m)] = Nil
      BY <1>6, <1>7, <1>8, <1>9
    <3>2. D.parent[b(m)] = Nil <=> b(m) = D.root
      BY <1>1, <1>4
    <3>3. b(m) = D.root <=> m = T.root
      BY <1>1, <1>3, <1>4, <1>6
    <3>. QED
      BY <3>1, <3>2, <3>3
  <2>4. ASSUME NEW m \in S2, m # T.root PROVE \E s \in Side : T.child[T.parent[m]][s] = m
    <3>1. b(m) # D.root /\ b(m) \in S1
      BY <1>4, <1>6, <2>4
    <3>2. D.parent[b(m)] \in S1 /\ \E s \in Side : D.child[D.parent[b(m)]][s] = b(m)
      BY <1>1, <3>1
    <3>3. PICK s \in Side : D.child[D.parent[b(m)]][s] = b(m)
      BY <3>2
    <3>4. T.parent[m] \in S2 /\ b(T.parent[m]) = D.parent[b(m)]
      BY <1>4, <1>6, <3>2
    <3>5. T.child[T.parent[m]][s] = f(b(m))
      BY <1>6, <3>3, <3>4
    <3>. QED
      BY <1>4, <3>5
  <2>5. ASSUME NEW m \in S2, NEW s \in Side, T.child[m][s] # Nil
        PROVE  T.child[m][s] \in S2 /\ T.parent[T.child[m][s]] = m
    <3>1. D.parent[D.child[b(m)][s]] = b(m)
      BY <1>1, <1>4, <1>10, <2>5
    <3>2. T.parent[T.child[m][s]] = f(b(m))
      BY <1>6, <1>10, <2>5, <3>1
    <3>. QED
      BY <1>4, <1>10, <2>5, <3>2
  <2>. QED
    BY <1>1, <1>3, <1>6, <2>1, <2>2, <2>3, <2>4, <2>5 DEF Linked
<1>13. Numbered(S2, N, P)
  <2>1. \A m \in S2 : 1 <= P[m] /\ P[m] <= N
    BY <1>2, <1>4, <1>5
  <2>2. \A m, k \in S2 : P[m] = P[k] => m = k
    BY <1>2, <1>4, <1>5
  <2>3. ASSUME NEW j \in 1 .. N PROVE \E m \in S2 : P[m] = j
    <3>1. PICK x \in S1 : pos[x] = j
      BY <1>2
    <3>2. f(x) \in S2 /\ P[f(x)] = j
      BY <1>4, <1>5, <3>1
    <3>. QED
      BY <3>2
  <2>. QED
    BY <1>1, <1>5, <2>1, <2>2, <2>3 DEF Numbered
<1>14. Bounded(T, S2, N, P, B)
  <2>1. T.root # Nil => B[T.root][LEFT] = 0 /\ B[T.root][RIGHT] = N + 1
    <3>1. T.root # Nil => D.root # Nil /\ T.root \in S2 /\ b(T.root) = D.root
      BY <1>1, <1>4, <1>6, <1>8
    <3>. QED
      BY <1>2, <1>5, <3>1
  <2>2. \A m \in S2 : 0 <= B[m][LEFT] /\ B[m][RIGHT] <= N + 1
    BY <1>2, <1>4, <1>5
  <2>3. \A m \in S2, s \in Side : OnSide(s, B[m][s], P[m])
    BY <1>2, <1>4, <1>5
  <2>4. \A m \in S2, s \in Side : T.child[m][s] = Nil => Beside(s, B[m][s], P[m])
    BY <1>2, <1>4, <1>5, <1>11
  <2>5. ASSUME NEW m \in S2, NEW s \in Side, T.child[m][s] # Nil
        PROVE  B[T.child[m][s]][s] = B[m][s] /\ B[T.child[m][s]][1 - s] = P[m]
    <3>1. /\ D.child[b(m)][s] # Nil
          /\ T.child[m][s] \in S2 /\ b(T.child[m][s]) = D.child[b(m)][s]
      BY <1>10, <2>5
    <3>2. /\ bnd[D.child[b(m)][s]][s] = bnd[b(m)][s]
          /\ bnd[D.child[b(m)][s]][1 - s] = pos[b(m)]
      BY <1>2, <1>4, <3>1
    <3>. QED
      BY <1>5, <3>1, <3>2
  <2>. QED
    BY <1>5, <2>1, <2>2, <2>3, <2>4, <2>5 DEF Bounded
<1>15. Threaded(T, S2, P)
  <2>. SUFFICES ASSUME NEW m \in S2, NEW k \in S2, P[k] = P[m] + 1,
                       T.child[m][RIGHT] = Nil, T.child[k][LEFT] = Nil
                PROVE  FALSE
    BY DEF Threaded
  <2>1. D.child[b(m)][RIGHT] = Nil /\ D.child[b(k)][LEFT] = Nil
    BY <1>7, <1>11
  <2>2. b(m) \in S1 /\ b(k) \in S1 /\ pos[b(k)] = pos[b(m)] + 1
    BY <1>4, <1>5
  <2>. QED
    BY <1>2, <2>1, <2>2
<1>. QED
  BY <1>12, <1>13, <1>14, <1>15 DEF Ordered, P, B

(* the links of X, to or from n                                             *)
Moved(X, Y, S, n, next) ==
  \A m \in S \ {n}, s \in Side : <<m, s>> \in Y <=> <<Named(next, n, m), s>> \in X

LEMMA SubstitutionIsGood ==
  ASSUME NEW D, NEW T, NEW S \in SUBSET Nodes, NEW n \in S, NEW next \in S, n # next,
         NEW N, NEW pos, NEW X, NEW Y, NEW U, n \notin U, next \notin U,
         Good(D, S \ {next}, N, pos, X, U, U),
         Substituted(D, T, S, n, next), Moved(X, Y, S, n, next)
  PROVE  Good(T, S \ {n}, N, [pos EXCEPT ![next] = pos[n]], Y, U, U)
<1>. DEFINE S1 == S \ {next}
            S2 == S \ {n}
            f(x) == Named(n, next, x)
            b(x) == Named(next, n, x)
<1>1. PICK bnd : Ordered(D, S1, N, pos, bnd)
  BY DEF Good
<1>2. PICK h : Even(D, S1, h, X)
  BY DEF Good
<1>3. RedOK(D, S1, U, U)
  BY DEF Good
<1>4. Ordered(T, S2, N, [pos EXCEPT ![next] = pos[n]], [bnd EXCEPT ![next] = bnd[n]])
  BY <1>1, SubstitutionIsOrdered
<1>5. /\ Nil \notin Nodes /\ n \in S1 /\ S1 \subseteq Nodes /\ Nil \notin S2 /\ next \in Nodes /\ next # Nil /\ n # Nil
      /\ D.root \in S1 \cup {Nil} /\ D.red \subseteq Nodes /\ T.red \subseteq Nodes
      /\ \A x \in S1, s \in Side : D.child[x][s] \in S1 \cup {Nil}
  <2>1. Linked(D, S1) /\ Linked(T, S2)
    BY <1>1, <1>4 DEF Ordered
  <2>2. D.red \subseteq Nodes /\ T.red \subseteq Nodes
    BY <2>1, LinkTypes
  <2>3. /\ Nil \notin Nodes /\ D.root \in S1 \cup {Nil}
        /\ \A x \in S1, s \in Side : D.child[x][s] \in S1 \cup {Nil}
    BY <2>1 DEF Linked
  <2>. QED
    BY <2>2, <2>3
<1>6. /\ T.root = f(D.root)
      /\ \A m \in S2 : (\A s \in Side : T.child[m][s] = f(D.child[b(m)][s])) /\ (m \in T.red <=> b(m) \in D.red)
  BY DEF Substituted
<1>7. /\ f(Nil) = Nil
      /\ \A x \in S1 : f(x) \in S2 /\ b(f(x)) = x
      /\ \A m \in S2 : b(m) \in S1 /\ f(b(m)) = m
      /\ \A x \in S1 \cup {Nil} : f(x) \in S2 \cup {Nil} /\ (f(x) \in U <=> x \in U)
  BY <1>5 DEF Named
<1>8. /\ h \in [Links -> Nat] /\ h[Nil] = 0
      /\ \A m \in S1, s \in Side : h[m] = Blacks(D, m) + h[D.child[m][s]] + (IF <<m, s>> \in X THEN 1 ELSE 0)
  BY <1>2 DEF Even, Fits
<1>. DEFINE k == [h EXCEPT ![next] = h[n]]
<1>9. k \in [Links -> Nat] /\ k[Nil] = 0 /\ \A x \in S1 \cup {Nil} : k[f(x)] = h[x]
  BY <1>5, <1>8 DEF Links, Named
<1>10. \A m \in S2, s \in Side : <<m, s>> \in Y <=> <<b(m), s>> \in X
  BY DEF Moved
<1>. HIDE DEF k, f, b
<1>11. ASSUME NEW x \in S1 \cup {Nil} PROVE f(x) \in T.red <=> x \in D.red
  <2>1. CASE x = Nil
    BY <1>5, <1>7, <2>1
  <2>2. CASE x \in S1
    BY <1>6, <1>7, <2>2
  <2>. QED
    BY <2>1, <2>2
<1>12. ASSUME NEW m \in S2, NEW s \in Side
       PROVE  k[m] = Blacks(T, m) + k[T.child[m][s]] + (IF <<m, s>> \in Y THEN 1 ELSE 0)
  <2>1. h[b(m)] = Blacks(D, b(m)) + h[D.child[b(m)][s]] + (IF <<b(m), s>> \in X THEN 1 ELSE 0)
    BY <1>7, <1>8
  <2>2. k[m] = h[b(m)]
    BY <1>7, <1>9
  <2>3. k[T.child[m][s]] = h[D.child[b(m)][s]]
    BY <1>5, <1>6, <1>7, <1>9
  <2>4. Blacks(T, m) = Blacks(D, b(m))
    BY <1>6 DEF Blacks
  <2>5. <<m, s>> \in Y <=> <<b(m), s>> \in X
    BY <1>10
  <2>. QED
    BY <2>1, <2>2, <2>3, <2>4, <2>5
<1>13. Even(T, S2, k, Y)
  BY <1>9, <1>12 DEF Even, Fits
<1>14. T.root \in T.red => T.root \in U
  BY <1>3, <1>5, <1>6, <1>7, <1>11 DEF RedOK
<1>15. ASSUME NEW m \in S2, NEW s \in Side, m \in T.red, T.child[m][s] \in T.red
       PROVE  T.child[m][s] \in U \/ m \in U
  <2>1. b(m) \in S1 /\ b(m) \in D.red /\ D.child[b(m)][s] \in D.red
    BY <1>5, <1>6, <1>7, <1>11, <1>15
  <2>2. LinkOK(D, b(m), D.child[b(m)][s], U, U)
    BY <1>3, <2>1 DEF RedOK
  <2>3. D.child[b(m)][s] \in U \/ b(m) \in U
    BY <2>1, <2>2 DEF LinkOK
  <2>4. (T.child[m][s] \in U <=> D.child[b(m)][s] \in U) /\ (m \in U <=> b(m) \in U)
    BY <1>5, <1>6, <1>7, <2>1
  <2>. QED
    BY <2>3, <2>4
<1>16. RedOK(T, S2, U, U)
  BY <1>14, <1>15 DEF RedOK, LinkOK
<1>. QED
  BY <1>4, <1>13, <1>16 DEF Good

(* n has two children; p is above it, and pn above next, whose place c gets. *)
Following(tr, S, n, next, p, pn, c) ==
  /\ n \in S /\ next \in S /\ next # n /\ tr.child[next][LEFT] = Nil
  /\ p = tr.parent[n] /\ pn = tr.parent[next] /\ c = tr.child[next][RIGHT]
  /\ tr.child[n][LEFT] \in S /\ tr.child[n][RIGHT] \in S
  /\ pn \in S
  /\ pn = n => tr.child[n][RIGHT] = next
  /\ pn # n => tr.child[pn][LEFT] = next /\ tr.child[pn][RIGHT] # next
  /\ p # next /\ c # n

LEMMA SuccessorIs ==
  ASSUME NEW tr, NEW S, NEW N, NEW pos, NEW bnd, Ordered(tr, S, N, pos, bnd), Loose(tr, S),
         NEW n \in S, tr.child[n][LEFT] # Nil, tr.child[n][RIGHT] # Nil,
         NEW next, next = Outermost(tr, tr.child[n][RIGHT], LEFT)
  PROVE  /\ Following(tr, S, n, next, tr.parent[n], tr.parent[next], tr.child[next][RIGHT])
         /\ pos[next] = pos[n] + 1
<1>1. /\ Nil \notin Nodes /\ Nil \notin S /\ S \subseteq Nodes /\ N \in Nat
      /\ \A m \in S : tr.parent[m] \in S \cup {Nil} /\ (tr.parent[m] = Nil <=> m = tr.root)
      /\ \A m \in S : m # tr.root => \E s \in Side : tr.child[tr.parent[m]][s] = m
      /\ tr.root # Nil => bnd[tr.root][LEFT] = 0
      /\ pos \in [Nodes -> Int] /\ bnd \in [Nodes -> [Side -> Int]] /\ Numbered(S, N, pos)
      /\ \A m \in S : 1 <= pos[m] /\ pos[m] <= N
      /\ \A m, k \in S : pos[m] = pos[k] => m = k
      /\ \A m \in S, s \in Side : tr.child[m][s] = Nil => Beside(s, bnd[m][s], pos[m])
      /\ \A m \in S, s \in Side : tr.child[m][s] # Nil =>
           bnd[tr.child[m][s]][s] = bnd[m][s] /\ bnd[tr.child[m][s]][1 - s] = pos[m]
  BY LinkTypes DEF Ordered, Linked, Numbered, Bounded
<1>2. /\ LEFT \in Side /\ RIGHT \in Side /\ LEFT = 0 /\ RIGHT = 1 /\ 1 - RIGHT = LEFT /\ 1 - LEFT = RIGHT
      /\ \A s \in Side : s = LEFT \/ s = RIGHT
  BY Sides DEF Side
<1>3. ASSUME NEW m \in S, NEW s \in Side, tr.child[m][s] # Nil
      PROVE  /\ tr.child[m][s] \in S /\ tr.parent[tr.child[m][s]] = m /\ tr.child[m][s] # m
             /\ tr.child[m][s] # tr.child[m][1 - s]
             /\ \A r \in Side : tr.child[tr.child[m][s]][r] # m
             /\ OnSide(s, pos[tr.child[m][s]], pos[m])
  BY <1>3, Kin
<1>4. tr.child[n][LEFT] \in S /\ tr.child[n][RIGHT] \in S
  BY <1>2, <1>3
<1>. DEFINE x == tr.child[n][RIGHT]
<1>5. next = At(S, pos, pos[n] + 1) /\ next \in Nodes /\ tr.child[next][LEFT] = Nil
  <2>1. next = At(S, pos, Edge(LEFT, bnd[x][LEFT])) /\ next \in Nodes /\ tr.child[next][LEFT] = Nil
    BY <1>2, <1>4, OutermostIs
  <2>2. bnd[x][LEFT] = pos[n]
    BY <1>1, <1>2
  <2>. QED
    BY <2>1, <2>2 DEF Edge
<1>6. pos[n] + 1 \in 1 .. N
  <2>1. OnSide(RIGHT, pos[x], pos[n])
    BY <1>2, <1>3
  <2>2. pos[n] < pos[x] /\ pos[x] <= N /\ 1 <= pos[n] /\ pos[n] \in Int /\ pos[x] \in Int
    BY <1>1, <1>2, <1>4, <2>1 DEF OnSide
  <2>. QED
    BY <1>1, <2>2
<1>7. next \in S /\ pos[next] = pos[n] + 1
  BY <1>1, <1>5, <1>6, AtIs
<1>8. next # n /\ pos[n] \in Int /\ 1 <= pos[n]
  BY <1>1, <1>7
<1>9. Beside(LEFT, bnd[next][LEFT], pos[next])
  BY <1>1, <1>2, <1>5, <1>7
<1>10. bnd[next][LEFT] \in Int /\ bnd[next][LEFT] = pos[n]
  <2>1. bnd[next][LEFT] \in Int
    BY <1>1, <1>2, <1>7
  <2>. QED
    BY <1>2, <1>7, <1>8, <1>9, <2>1 DEF Beside
<1>. DEFINE pn == tr.parent[next]
<1>11. pn \in S /\ \E s \in Side : tr.child[pn][s] = next
  <2>1. next # tr.root
    BY <1>1, <1>7, <1>8, <1>10
  <2>. QED
    BY <1>1, <1>7, <2>1
<1>12. pn = n => tr.child[n][RIGHT] = next
  <2>. SUFFICES ASSUME pn = n, tr.child[n][LEFT] = next PROVE FALSE
    BY <1>2, <1>11
  <2>1. OnSide(LEFT, pos[next], pos[n])
    BY <1>2, <1>3
  <2>. QED
    BY <1>7, <1>8, <2>1 DEF OnSide
<1>13. pn # n => tr.child[pn][LEFT] = next /\ tr.child[pn][RIGHT] # next
  <2>. SUFFICES ASSUME pn # n PROVE tr.child[pn][RIGHT] # next
    BY <1>2, <1>11
  <2>. SUFFICES ASSUME tr.child[pn][RIGHT] = next PROVE FALSE
    OBVIOUS
  <2>1. bnd[next][LEFT] = pos[pn]
    BY <1>1, <1>2, <1>7, <1>11
  <2>2. pos[pn] = pos[n]
    BY <1>10, <2>1
  <2>3. \A m, k \in S : pos[m] = pos[k] => m = k
    BY <1>1
  <2>. QED
    BY <1>11, <2>2, <2>3
<1>14. tr.child[next][RIGHT] # n
  <2>. SUFFICES ASSUME tr.child[next][RIGHT] = n PROVE FALSE
    OBVIOUS
  <2>1. OnSide(RIGHT, pos[n], pos[next])
    BY <1>1, <1>2, <1>3, <1>7
  <2>. QED
    BY <1>2, <1>7, <1>8, <2>1 DEF OnSide
<1>15. tr.parent[n] # next
  <2>. SUFFICES ASSUME tr.parent[n] = next PROVE FALSE
    OBVIOUS
  <2>1. n # tr.root
    BY <1>1, <1>7
  <2>2. \E s \in Side : tr.child[next][s] = n
    BY <1>1, <2>1
  <2>. QED
    BY <1>1, <1>2, <1>5, <1>14, <2>2
<1>. QED
  BY <1>4, <1>5, <1>7, <1>8, <1>11, <1>12, <1>13, <1>14, <1>15 DEF Following

(* E is tr after Depart: next stands in n's place, and c in that of next.   *)
Departed(tr, E, n, next, p, pn, c) ==
  /\ E \in Trees /\ E.red = tr.red /\ E.root = (IF p = Nil THEN next ELSE tr.root)
  /\ \A m \in Nodes, s \in Side :
       E.child[m][s] = IF pn # n /\ m = next /\ s = RIGHT THEN tr.child[n][RIGHT]
                       ELSE IF pn # n /\ m = pn /\ s = LEFT THEN c
                       ELSE IF m = p /\ tr.child[p][s] = n THEN next
                       ELSE tr.child[m][s]
  /\ \A m \in Nodes :
       E.parent[m] = IF pn # n /\ m = tr.child[n][RIGHT] THEN next
                     ELSE IF pn # n /\ m = c THEN pn
                     ELSE tr.parent[m]

LEMMA DepartIs ==
  ASSUME NEW tr, NEW S, NEW N, NEW pos, NEW bnd, Ordered(tr, S, N, pos, bnd),
         NEW n, NEW next, NEW p, NEW pn, NEW c, Following(tr, S, n, next, p, pn, c)
  PROVE  Departed(tr, Depart(Replace(tr, p, n, next), n, next), n, next, p, pn, c)
<1>. DEFINE r == tr.child[n][RIGHT]
            A1 == Replace(tr, p, n, next)
            A2 == SetParent(A1, c, pn)
            A3 == SetChild(A2, pn, LEFT, c)
            A4 == SetChild(A3, next, RIGHT, r)
            A5 == SetParent(A4, r, next)
<1>1. /\ tr \in Trees /\ Nil \notin Nodes /\ S \subseteq Nodes /\ Nil \notin S
      /\ \A m \in S : tr.parent[m] \in S \cup {Nil}
      /\ \A m \in S, s \in Side : tr.child[m][s] # Nil =>
           tr.child[m][s] \in S /\ tr.parent[tr.child[m][s]] = m
  BY LinkTypes DEF Ordered, Linked
<1>2. /\ n \in S /\ next \in S /\ next # n /\ tr.child[next][LEFT] = Nil
      /\ p = tr.parent[n] /\ pn = tr.parent[next] /\ c = tr.child[next][RIGHT]
      /\ r \in S /\ pn \in S
      /\ pn # n => tr.child[pn][LEFT] = next /\ tr.child[pn][RIGHT] # next
      /\ p # next /\ c # n
  BY DEF Following
<1>3. LEFT \in Side /\ RIGHT \in Side /\ LEFT # RIGHT
  BY Sides DEF Side
<1>4. p \in S \cup {Nil} /\ c \in S \cup {Nil} /\ p # n
  <2>1. p \in S \cup {Nil} /\ c \in S \cup {Nil}
    BY <1>1, <1>2, <1>3
  <2>2. p # Nil => tr.child[p][1 - Across(tr, n, p)] = n /\ 1 - Across(tr, n, p) \in Side
    BY <1>2, Above
  <2>. QED
    BY <1>1, <1>2, <2>1, <2>2, Kin
<1>5. PutBelow(tr, A1, p, n, next)
  <2>1. p # Nil => \E s \in Side : tr.child[p][s] = n /\ tr.child[p][1 - s] # n
    BY <1>2, Above
  <2>2. p \in Links /\ next \in Links
    BY <1>1, <1>2, <1>4 DEF Links
  <2>. QED
    BY <1>1, <2>1, <2>2, ReplaceIs
<1>6. /\ A1 \in Trees /\ A1.parent = tr.parent /\ A1.red = tr.red
      /\ A1.root = (IF p = Nil THEN next ELSE tr.root)
      /\ \A m \in Nodes, s \in Side :
           A1.child[m][s] = IF m = p /\ tr.child[p][s] = n THEN next ELSE tr.child[m][s]
  BY <1>5 DEF PutBelow
<1>. HIDE DEF A1
<1>7. A1.child[next][RIGHT] = c /\ A1.parent[next] = pn /\ A1.child[n][RIGHT] = r
  BY <1>1, <1>2, <1>3, <1>4, <1>6
<1>8. Depart(A1, n, next) = IF pn = n THEN A1 ELSE A5
  BY <1>7 DEF Depart
<1>9. CASE pn = n
  BY <1>6, <1>8, <1>9 DEF Departed, A1
<1>10. CASE pn # n
  <2>0. pn \in Nodes /\ next \in Nodes /\ r \in Nodes /\ c \in Links /\ pn \in Links /\ r \in Links /\ next \in Links
    BY <1>1, <1>2, <1>4 DEF Links
  <2>1. Reparented(A1, A2, c, pn)
    BY <1>1, <1>6, <2>0, SetParentIs
  <2>2. /\ A2 \in Trees /\ A2.root = A1.root /\ A2.child = A1.child /\ A2.red = A1.red
        /\ \A m \in Nodes : A2.parent[m] = IF m = c THEN pn ELSE A1.parent[m]
    BY <2>1 DEF Reparented
  <2>. HIDE DEF A2
  <2>3. Relinked(A2, A3, pn, LEFT, c)
    BY <1>3, <2>0, <2>2, SetChildIs
  <2>4. /\ A3 \in Trees /\ A3.root = A2.root /\ A3.parent = A2.parent /\ A3.red = A2.red
        /\ \A m \in Nodes, s \in Side : A3.child[m][s] = IF m = pn /\ s = LEFT THEN c ELSE A2.child[m][s]
    BY <2>3 DEF Relinked
  <2>. HIDE DEF A3
  <2>5. Relinked(A3, A4, next, RIGHT, r)
    BY <1>3, <2>0, <2>4, SetChildIs
  <2>6. /\ A4 \in Trees /\ A4.root = A3.root /\ A4.parent = A3.parent /\ A4.red = A3.red
        /\ \A m \in Nodes, s \in Side : A4.child[m][s] = IF m = next /\ s = RIGHT THEN r ELSE A3.child[m][s]
    BY <2>5 DEF Relinked
  <2>. HIDE DEF A4
  <2>7. Reparented(A4, A5, r, next)
    BY <1>1, <2>0, <2>6, SetParentIs
  <2>8. /\ A5 \in Trees /\ A5.root = A4.root /\ A5.child = A4.child /\ A5.red = A4.red
        /\ \A m \in Nodes : A5.parent[m] = IF m = r THEN next ELSE A4.parent[m]
    BY <2>7 DEF Reparented
  <2>. HIDE DEF A5
  <2>9. A5.root = (IF p = Nil THEN next ELSE tr.root) /\ A5.red = tr.red
    BY <1>6, <2>2, <2>4, <2>6, <2>8
  <2>10. \A m \in Nodes, s \in Side :
           A5.child[m][s] = IF pn # n /\ m = next /\ s = RIGHT THEN r
                            ELSE IF pn # n /\ m = pn /\ s = LEFT THEN c
                            ELSE IF m = p /\ tr.child[p][s] = n THEN next
                            ELSE tr.child[m][s]
    BY <1>6, <1>10, <2>2, <2>4, <2>6, <2>8
  <2>11. \A m \in Nodes : A5.parent[m] = IF pn # n /\ m = r THEN next
                                         ELSE IF pn # n /\ m = c THEN pn
                                         ELSE tr.parent[m]
    BY <1>6, <1>10, <2>2, <2>4, <2>6, <2>8
  <2>12. Departed(tr, A5, n, next, p, pn, c)
    BY <2>8, <2>9, <2>10, <2>11 DEF Departed
  <2>. QED
    BY <1>8, <1>10, <2>12 DEF A1
<1>. QED
  BY <1>9, <1>10

(* T is E after Inherit.                                                    *)
Inherited(E, T, n, next) ==
  /\ T \in Trees /\ T.root = E.root
  /\ \A m \in Nodes : m \in T.red <=> IF m = next THEN n \in E.red ELSE m \in E.red
  /\ \A m \in Nodes, s \in Side :
       T.child[m][s] = IF m = next /\ s = LEFT THEN E.child[n][LEFT] ELSE E.child[m][s]
  /\ \A m \in Nodes : T.parent[m] = IF m = E.child[n][LEFT] THEN next
                                    ELSE IF m = next THEN E.parent[n]
                                    ELSE E.parent[m]

LEMMA InheritIs ==
  ASSUME NEW E \in Trees, Nil \notin Nodes, NEW n \in Nodes, NEW next \in Nodes,
         next # n
  PROVE  Inherited(E, Inherit(E, n, next), n, next)
<1>. DEFINE F == IF Red(E, n) THEN SetRed(E, next) ELSE SetBlack(E, {next})
            l == E.child[n][LEFT]
            F1 == SetParent(F, next, E.parent[n])
            F2 == SetChild(F1, next, LEFT, l)
            F3 == SetParent(F2, l, next)
<1>1. /\ LEFT \in Side /\ l \in Links /\ E.parent[n] \in Links /\ next \in Links
  BY Sides DEF Trees, Links, Side
<1>2. Repainted(E, F) /\ F.red = IF n \in E.red THEN E.red \cup {next} ELSE E.red \ {next}
  BY PaintIs DEF Red
<1>3. /\ F \in Trees /\ F.root = E.root /\ F.child = E.child /\ F.parent = E.parent
      /\ \A m \in Nodes : m \in F.red <=> IF m = next THEN n \in E.red ELSE m \in E.red
  BY <1>2 DEF Repainted
<1>. HIDE DEF F
<1>4. Reparented(F, F1, next, E.parent[n])
  BY <1>1, <1>3, SetParentIs
<1>5. /\ F1 \in Trees /\ F1.root = F.root /\ F1.child = F.child /\ F1.red = F.red
      /\ \A m \in Nodes : F1.parent[m] = IF m = next THEN E.parent[n] ELSE F.parent[m]
  BY <1>4 DEF Reparented
<1>. HIDE DEF F1
<1>6. Relinked(F1, F2, next, LEFT, l)
  BY <1>1, <1>5, SetChildIs
<1>7. /\ F2 \in Trees /\ F2.root = F1.root /\ F2.parent = F1.parent /\ F2.red = F1.red
      /\ \A m \in Nodes, s \in Side : F2.child[m][s] = IF m = next /\ s = LEFT THEN l ELSE F1.child[m][s]
  BY <1>6 DEF Relinked
<1>. HIDE DEF F2
<1>8. Reparented(F2, F3, l, next)
  BY <1>1, <1>7, SetParentIs
<1>9. /\ F3 \in Trees /\ F3.root = F2.root /\ F3.child = F2.child /\ F3.red = F2.red
      /\ \A m \in Nodes : F3.parent[m] = IF m = l THEN next ELSE F2.parent[m]
  BY <1>8 DEF Reparented
<1>10. Inherit(E, n, next) = F3
  BY DEF Inherit, F, F1, F2
<1>. HIDE DEF F3, l
<1>11. Inherited(E, F3, n, next)
  BY <1>3, <1>5, <1>7, <1>9 DEF Inherited, l
<1>. QED
  BY <1>10, <1>11

LEMMA BypassedIs ==
  ASSUME NEW tr, NEW S, NEW N, NEW pos, NEW bnd, Ordered(tr, S, N, pos, bnd),
         NEW n \in S, NEW y, NEW p, NEW c, OnlyChild(tr, n, y, p, c)
  PROVE  Bypassed(tr, Replace(SetParent(tr, c, p), p, n, c), n, p, c)
<1>. DEFINE A == SetParent(tr, c, p)
            B == Replace(A, p, n, c)
<1>1. /\ tr \in Trees /\ Nil \notin Nodes /\ S \subseteq Nodes
      /\ c \in Links /\ p \in Links /\ p = tr.parent[n]
  BY LinkTypes DEF Ordered, Linked, OnlyChild, Links
<1>2. Reparented(tr, A, c, p)
  BY <1>1, SetParentIs
<1>3. /\ A \in Trees /\ A.root = tr.root /\ A.child = tr.child /\ A.red = tr.red
      /\ \A m \in Nodes : A.parent[m] = IF m = c THEN p ELSE tr.parent[m]
  BY <1>2 DEF Reparented
<1>. HIDE DEF A
<1>4. p # Nil => \E s \in Side : A.child[p][s] = n /\ A.child[p][1 - s] # n
  BY <1>1, <1>3, Above
<1>5. PutBelow(A, B, p, n, c)
  BY <1>1, <1>3, <1>4, ReplaceIs
<1>. HIDE DEF B
<1>6. Bypassed(tr, B, n, p, c)
  BY <1>3, <1>5 DEF PutBelow, Bypassed
<1>. QED
  BY <1>6 DEF A, B

LEMMA SuccessionSubstitutes ==
  ASSUME NEW tr, NEW S, NEW N, NEW pos, NEW bnd, Ordered(tr, S, N, pos, bnd),
         NEW n, NEW next, NEW p, NEW pn, NEW c, Following(tr, S, n, next, p, pn, c),
         NEW D, Bypassed(tr, D, next, pn, c),
         NEW E, Departed(tr, E, n, next, p, pn, c),
         NEW T, Inherited(E, T, n, next)
  PROVE  Substituted(D, T, S, n, next) /\ SameBut(S, tr, T)
<1>. DEFINE l == tr.child[n][LEFT]
            r == tr.child[n][RIGHT]
<1>1. /\ tr \in Trees /\ Nil \notin Nodes /\ S \subseteq Nodes /\ Nil \notin S
      /\ \A m \in S : tr.parent[m] \in S \cup {Nil} /\ (tr.parent[m] = Nil <=> m = tr.root)
      /\ \A m \in S : m # tr.root => \E s \in Side : tr.child[tr.parent[m]][s] = m
      /\ \A m \in S, s \in Side : tr.child[m][s] # Nil =>
           tr.child[m][s] \in S /\ tr.parent[tr.child[m][s]] = m
  BY LinkTypes DEF Ordered, Linked
<1>2. /\ n \in S /\ next \in S /\ next # n /\ tr.child[next][LEFT] = Nil
      /\ p = tr.parent[n] /\ pn = tr.parent[next] /\ c = tr.child[next][RIGHT]
      /\ l \in S /\ r \in S /\ pn \in S
      /\ pn = n => r = next
      /\ pn # n => tr.child[pn][LEFT] = next /\ tr.child[pn][RIGHT] # next
      /\ p # next /\ c # n
  BY DEF Following
<1>3. /\ LEFT \in Side /\ RIGHT \in Side /\ LEFT # RIGHT /\ 1 - LEFT = RIGHT /\ 1 - RIGHT = LEFT
      /\ \A s \in Side : s = LEFT \/ s = RIGHT
  BY Sides DEF Side
<1>4. /\ l # r /\ l # n /\ r # n /\ tr.parent[l] = n /\ tr.parent[r] = n
      /\ p \in S \cup {Nil} /\ p # n /\ c \in S \cup {Nil} /\ c # next
      /\ c # Nil => tr.parent[c] = next
      /\ pn # next
  <2>1. l # r /\ l # n /\ r # n /\ tr.parent[l] = n /\ tr.parent[r] = n
    BY <1>1, <1>2, <1>3, Kin
  <2>2. p \in S \cup {Nil} /\ p # n
    <3>1. p # Nil => tr.child[p][1 - Across(tr, n, p)] = n /\ 1 - Across(tr, n, p) \in Side
      BY <1>2, Above
    <3>. QED
      BY <1>1, <1>2, <3>1, Kin
  <2>3. c \in S \cup {Nil} /\ (c # Nil => tr.parent[c] = next /\ c # next)
    BY <1>1, <1>2, <1>3, Kin
  <2>4. pn # next
    BY <1>1, <1>2, <1>3, Kin
  <2>. QED
    BY <1>1, <1>2, <2>1, <2>2, <2>3, <2>4
<1>5. c # l /\ c # r /\ l # next
  BY <1>1, <1>2, <1>4
<1>6. ASSUME NEW m \in S, tr.parent[m] = n PROVE m = l \/ m = r
  BY <1>1, <1>2, <1>3, <1>6
<1>7. /\ D.red = tr.red /\ D.root = tr.root
      /\ \A m \in Nodes, s \in Side :
           D.child[m][s] = IF m = pn /\ tr.child[pn][s] = next THEN c ELSE tr.child[m][s]
      /\ \A m \in Nodes : D.parent[m] = IF m = c THEN pn ELSE tr.parent[m]
  BY <1>1, <1>2 DEF Bypassed
<1>8. /\ E.red = tr.red /\ E.root = (IF p = Nil THEN next ELSE tr.root)
      /\ \A m \in Nodes, s \in Side :
           E.child[m][s] = IF pn # n /\ m = next /\ s = RIGHT THEN r
                           ELSE IF pn # n /\ m = pn /\ s = LEFT THEN c
                           ELSE IF m = p /\ tr.child[p][s] = n THEN next
                           ELSE tr.child[m][s]
      /\ \A m \in Nodes :
           E.parent[m] = IF pn # n /\ m = r THEN next
                         ELSE IF pn # n /\ m = c THEN pn
                         ELSE tr.parent[m]
  BY DEF Departed
<1>9. E.child[n][LEFT] = l /\ E.parent[n] = p
  BY <1>1, <1>2, <1>3, <1>4, <1>8
<1>10. /\ T \in Trees /\ T.root = E.root
       /\ \A m \in Nodes : m \in T.red <=> IF m = next THEN n \in tr.red ELSE m \in tr.red
       /\ \A m \in Nodes, s \in Side : T.child[m][s] = IF m = next /\ s = LEFT THEN l ELSE E.child[m][s]
       /\ \A m \in Nodes : T.parent[m] = IF m = l THEN next ELSE IF m = next THEN p ELSE E.parent[m]
  BY <1>8, <1>9 DEF Inherited
<1>. HIDE DEF l, r
<1>11. T.root = Named(n, next, D.root)
  BY <1>1, <1>2, <1>7, <1>8, <1>10 DEF Named
<1>12. ASSUME NEW s \in Side PROVE T.child[next][s] = Named(n, next, D.child[n][s])
  <2>1. CASE s = LEFT
    <3>1. T.child[next][s] = l
      BY <1>1, <1>2, <1>10, <2>1
    <3>2. D.child[n][s] = l
      BY <1>1, <1>2, <1>3, <1>5, <1>7, <2>1 DEF l
    <3>. QED
      BY <1>4, <3>1, <3>2 DEF Named
  <2>2. CASE s = RIGHT
    <3>1. T.child[next][s] = IF pn # n THEN r ELSE c
      BY <1>1, <1>2, <1>3, <1>8, <1>10, <2>2
    <3>2. D.child[n][s] = IF pn # n THEN r ELSE c
      BY <1>1, <1>2, <1>3, <1>7, <2>2 DEF r
    <3>. QED
      BY <1>2, <1>4, <3>1, <3>2 DEF Named
  <2>. QED
    BY <1>3, <2>1, <2>2
<1>13. ASSUME NEW m \in S \ {n}, m # next, NEW s \in Side
       PROVE  T.child[m][s] = Named(n, next, D.child[m][s])
  <2>1. T.child[m][s] = IF pn # n /\ m = pn /\ s = LEFT THEN c
                        ELSE IF m = p /\ tr.child[p][s] = n THEN next
                        ELSE tr.child[m][s]
    BY <1>1, <1>8, <1>10, <1>13
  <2>2. D.child[m][s] = IF m = pn /\ tr.child[pn][s] = next THEN c ELSE tr.child[m][s]
    BY <1>1, <1>7
  <2>3. tr.child[m][s] = n => m = p
    BY <1>1, <1>2
  <2>4. CASE m = pn /\ s = LEFT
    BY <1>2, <2>1, <2>2, <2>4 DEF Named
  <2>5. CASE ~(m = pn /\ s = LEFT)
    <3>1. D.child[m][s] = tr.child[m][s]
      BY <1>2, <1>3, <2>2, <2>5
    <3>. QED
      BY <2>1, <2>3, <2>5, <3>1 DEF Named
  <2>. QED
    BY <2>4, <2>5
<1>14. T.parent[next] = Named(n, next, D.parent[n])
  BY <1>1, <1>2, <1>4, <1>5, <1>7, <1>10 DEF Named
<1>15. ASSUME NEW m \in S \ {n}, m # next PROVE T.parent[m] = Named(n, next, D.parent[m])
  <2>0. m \in S /\ m \in Nodes
    BY <1>1
  <2>1. CASE m = l
    BY <1>1, <1>2, <1>4, <1>5, <1>7, <1>10, <2>0, <2>1 DEF Named
  <2>2. CASE m = r
    <3>1. pn # n
      BY <1>2, <1>15, <2>2
    <3>2. E.parent[m] = next
      BY <1>8, <2>0, <2>2, <3>1
    <3>3. T.parent[m] = next
      BY <1>4, <1>10, <1>15, <2>0, <2>2, <3>2
    <3>4. D.parent[m] = n
      BY <1>4, <1>5, <1>7, <2>0, <2>2
    <3>. QED
      BY <3>3, <3>4 DEF Named
  <2>3. CASE m = c
    <3>1. T.parent[m] = IF pn # n THEN pn ELSE tr.parent[m]
      BY <1>5, <1>8, <1>10, <1>15, <2>0, <2>3
    <3>2. D.parent[m] = pn /\ tr.parent[m] = next
      BY <1>1, <1>4, <1>7, <2>0, <2>3
    <3>. QED
      BY <3>1, <3>2 DEF Named
  <2>4. CASE m # l /\ m # r /\ m # c
    BY <1>6, <1>7, <1>8, <1>10, <1>15, <2>0, <2>4 DEF Named
  <2>. QED
    BY <2>1, <2>2, <2>3, <2>4
<1>16. ASSUME NEW m \in S \ {n}
       PROVE  /\ \A s \in Side : T.child[m][s] = Named(n, next, D.child[Named(next, n, m)][s])
              /\ T.parent[m] = Named(n, next, D.parent[Named(next, n, m)])
              /\ m \in T.red <=> Named(next, n, m) \in D.red
  <2>1. CASE m = next
    <3>1. Named(next, n, m) = n
      BY <2>1 DEF Named
    <3>. QED
      BY <1>1, <1>2, <1>7, <1>10, <1>12, <1>14, <2>1, <3>1
  <2>2. CASE m # next
    <3>1. Named(next, n, m) = m
      BY <2>2 DEF Named
    <3>. QED
      BY <1>1, <1>7, <1>10, <1>13, <1>15, <2>2, <3>1
  <2>. QED
    BY <2>1, <2>2
<1>17. Substituted(D, T, S, n, next)
  BY <1>10, <1>11, <1>16 DEF Substituted
<1>18. SameBut(S, tr, T)
  BY <1>1, <1>2, <1>4, <1>8, <1>10 DEF SameBut
<1>. QED
  BY <1>17, <1>18

(* Q numbers the nodes S in the order that pos does.                        *)
SameOrder(S, pos, Q) == \A m, k \in S : Q[m] < Q[k] => pos[m] < pos[k]

LEMMA ClosedOrder ==
  ASSUME NEW S, NEW N, NEW pos, Numbered(S, N, pos), S \subseteq Nodes, NEW n \in S
  PROVE  SameOrder(S \ {n}, pos, ClosedPos(pos, pos[n]))
<1>. DEFINE i == pos[n]
            P == ClosedPos(pos, i)
<1>1. ASSUME NEW m \in S \ {n}
      PROVE  pos[m] \in Int /\ pos[m] # i /\ P[m] = IF pos[m] > i THEN pos[m] - 1 ELSE pos[m]
  <2>1. pos[m] \in Int /\ pos[m] # i /\ P[m] = Close(RIGHT, i, pos[m])
    BY DEF Numbered, ClosedPos
  <2>. QED
    BY <2>1, Sides DEF Close
<1>2. i \in Int
  BY DEF Numbered
<1>. HIDE DEF P, i
<1>3. ASSUME NEW m \in S \ {n}, NEW k \in S \ {n}, P[m] < P[k] PROVE pos[m] < pos[k]
  <2>1. /\ pos[m] \in Int /\ pos[m] # i /\ P[m] = (IF pos[m] > i THEN pos[m] - 1 ELSE pos[m])
        /\ pos[k] \in Int /\ pos[k] # i /\ P[k] = (IF pos[k] > i THEN pos[k] - 1 ELSE pos[k])
    BY <1>1
  <2>. QED
    BY <1>2, <1>3, <2>1
<1>. QED
  BY <1>3 DEF SameOrder, P, i

LEMMA SuccessionIsGood ==
  ASSUME NEW tr, NEW S, NEW N, NEW pos, Good(tr, S, N, pos, {}, {}, {}), Loose(tr, S),
         NEW n \in S, tr.child[n][LEFT] # Nil, tr.child[n][RIGHT] # Nil,
         NEW next, next = Outermost(tr, tr.child[n][RIGHT], LEFT)
  PROVE  \E Q : /\ Without(tr, Inherit(Depart(Replace(tr, tr.parent[n], n, next), n, next), n, next),
                           S, N, Q, n, next \in tr.red, tr.child[next][RIGHT],
                           IF tr.parent[next] = n THEN next ELSE tr.parent[next])
                /\ SameOrder(S \ {n}, pos, Q)
<1>. DEFINE p == tr.parent[n]
            pn == tr.parent[next]
            c == tr.child[next][RIGHT]
            D == Replace(SetParent(tr, c, pn), pn, next, c)
            E == Depart(Replace(tr, p, n, next), n, next)
            T == Inherit(E, n, next)
            Q0 == ClosedPos(pos, pos[next])
            Q == [Q0 EXCEPT ![next] = Q0[n]]
            above == IF pn = n THEN next ELSE pn
<1>1. PICK bnd : Ordered(tr, S, N, pos, bnd)
  BY DEF Good
<1>2. Following(tr, S, n, next, p, pn, c) /\ pos[next] = pos[n] + 1
  BY <1>1, SuccessorIs
<1>3. /\ next \in S /\ next # n /\ pn \in S /\ S \subseteq Nodes /\ Nil \notin Nodes
      /\ tr.child[next][LEFT] = Nil /\ c # n
  BY <1>1, <1>2, LinkTypes DEF Following, Ordered, Linked
<1>4. OnlyChild(tr, next, RIGHT, pn, c)
  <2>1. RIGHT \in Side /\ 1 - RIGHT = LEFT
    BY Sides DEF Side
  <2>. QED
    BY <1>3, <2>1 DEF OnlyChild
<1>5. Bypassed(tr, D, next, pn, c)
  BY <1>1, <1>3, <1>4, BypassedIs
<1>6. Without(tr, D, S, N, Q0, next, next \in tr.red, c, pn)
  BY <1>3, <1>4, <1>5, BypassIsGood
<1>7. Departed(tr, E, n, next, p, pn, c)
  BY <1>1, <1>2, DepartIs
<1>8. Inherited(E, T, n, next)
  <2>1. E \in Trees
    BY <1>7 DEF Departed
  <2>. HIDE DEF E
  <2>. QED
    BY <1>3, <2>1, InheritIs
<1>. HIDE DEF p, pn, c, D, E, T, Q0
<1>9. Substituted(D, T, S, n, next) /\ SameBut(S, tr, T)
  BY <1>1, <1>2, <1>5, <1>7, <1>8, SuccessionSubstitutes
<1>10. c \in (S \ {next}) \cup {Nil} /\ c # n
  BY <1>3, <1>6 DEF Without
<1>11. next \in tr.red => Good(T, S \ {n}, N - 1, Q, {}, {}, {})
  <2>. SUFFICES ASSUME next \in tr.red PROVE Good(T, S \ {n}, N - 1, Q, {}, {}, {})
    OBVIOUS
  <2>1. Good(D, S \ {next}, N - 1, Q0, {}, {}, {})
    BY <1>6 DEF Without
  <2>2. Moved({}, {}, S, n, next) /\ n \notin {} /\ next \notin {}
    BY DEF Moved
  <2>. QED
    BY <1>3, <1>9, <2>1, <2>2, SubstitutionIsGood
<1>12. next \notin tr.red => \E X : Placed(T, S \ {n}, c, above, X) /\ Good(T, S \ {n}, N - 1, Q, X, {c}, {c})
  <2>. SUFFICES ASSUME next \notin tr.red
                PROVE  \E X : Placed(T, S \ {n}, c, above, X) /\ Good(T, S \ {n}, N - 1, Q, X, {c}, {c})
    OBVIOUS
  <2>1. PICK X : Placed(D, S \ {next}, c, pn, X) /\ Good(D, S \ {next}, N - 1, Q0, X, {c}, {c})
    BY <1>6 DEF Without
  <2>2. n \notin {c} /\ next \notin {c}
    BY <1>3, <1>10
  <2>3. CASE c = D.root /\ X = {}
    <3>1. Moved(X, {}, S, n, next)
      BY <2>3 DEF Moved
    <3>2. Good(T, S \ {n}, N - 1, Q, {}, {c}, {c})
      BY <1>3, <1>9, <2>1, <2>2, <3>1, SubstitutionIsGood
    <3>3. T.root = c
      BY <1>9, <1>10, <2>3 DEF Substituted, Named
    <3>. QED
      BY <3>2, <3>3 DEF Placed
  <2>4. ASSUME pn \in S \ {next}, NEW y \in Side, D.child[pn][y] = c, X = {<<pn, y>>}
        PROVE  \E Y : Placed(T, S \ {n}, c, above, Y) /\ Good(T, S \ {n}, N - 1, Q, Y, {c}, {c})
    <3>1. above \in S \ {n} /\ \A m \in S \ {n} : Named(next, n, m) = pn <=> m = above
      BY <1>3, <2>4 DEF Named
    <3>2. Moved(X, {<<above, y>>}, S, n, next)
      <4>1. \A m \in S \ {n}, s \in Side : <<m, s>> \in {<<above, y>>} <=> m = above /\ s = y
        OBVIOUS
      <4>2. \A m \in S \ {n}, s \in Side : <<Named(next, n, m), s>> \in X <=> m = above /\ s = y
        BY <2>4, <3>1
      <4>. QED
        BY <4>1, <4>2 DEF Moved
    <3>3. Good(T, S \ {n}, N - 1, Q, {<<above, y>>}, {c}, {c})
      BY <1>3, <1>9, <2>1, <2>2, <3>2, SubstitutionIsGood
    <3>4. T.child[above][y] = Named(n, next, D.child[Named(next, n, above)][y])
      BY <1>9, <3>1 DEF Substituted
    <3>5. T.child[above][y] = c
      BY <1>10, <2>4, <3>1, <3>4 DEF Named
    <3>6. Placed(T, S \ {n}, c, above, {<<above, y>>})
      BY <3>1, <3>5 DEF Placed
    <3>. QED
      BY <3>3, <3>6
  <2>. QED
    BY <2>1, <2>3, <2>4 DEF Placed
<1>13. c \in (S \ {n}) \cup {Nil}
  BY <1>10
<1>14. Without(tr, T, S, N, Q, n, next \in tr.red, c, above)
  BY <1>9, <1>11, <1>12, <1>13 DEF Without
<1>15. SameOrder(S \ {n}, pos, Q)
  <2>1. SameOrder(S \ {next}, pos, Q0)
    BY <1>1, <1>3, ClosedOrder DEF Ordered, Q0
  <2>2. pos \in [Nodes -> Int] /\ Numbered(S, N, pos) /\ Q0 \in [Nodes -> Int]
    <3>1. Q0 = ClosedPos(pos, pos[next]) /\ pos[next] \in Int /\ pos \in [Nodes -> Int] /\ Numbered(S, N, pos)
      BY <1>1, <1>3 DEF Ordered, Numbered, Q0
    <3>2. \A m \in Nodes : Close(RIGHT, pos[next], pos[m]) \in Int
      BY <3>1, Sides DEF Close
    <3>. QED
      BY <3>1, <3>2 DEF ClosedPos
  <2>3. Q[next] = Q0[n] /\ \A m \in S \ {n, next} : Q[m] = Q0[m]
    BY <1>3, <2>2
  <2>4. ASSUME NEW m \in S \ {n}, NEW k \in S \ {n}, Q[m] < Q[k] PROVE pos[m] < pos[k]
    <3>1. CASE m # next /\ k # next
      BY <2>1, <2>3, <2>4, <3>1 DEF SameOrder
    <3>2. CASE m = next /\ k # next
      <4>1. pos[n] < pos[k]
        BY <1>3, <2>1, <2>3, <2>4, <3>2 DEF SameOrder
      <4>2. pos[k] # pos[next] /\ pos[k] \in Int /\ pos[n] \in Int
        BY <1>3, <2>2, <3>2 DEF Numbered
      <4>. QED
        BY <1>2, <3>2, <4>1, <4>2
    <3>3. CASE m # next /\ k = next
      <4>1. pos[m] < pos[n]
        BY <1>3, <2>1, <2>3, <2>4, <3>3 DEF SameOrder
      <4>2. pos[m] \in Int /\ pos[n] \in Int
        BY <1>3, <2>2
      <4>. QED
        BY <1>2, <3>3, <4>1, <4>2
    <3>4. CASE m = next /\ k = next
      <4>1. Q[m] \in Int
        BY <1>3, <2>2
      <4>. QED
        BY <2>4, <3>4, <4>1
    <3>. QED
      BY <3>1, <3>2, <3>3, <3>4
  <2>. QED
    BY <2>4 DEF SameOrder
<1>. QED
  BY <1>14, <1>15 DEF T, E, p, pn, c

-------------------------------------------------------------------------------
(***************************************************************************)
(* Where keys are.                                                         *)
(***************************************************************************)
Sorted(S, pos) == \A m, k \in S : pos[m] < pos[k] => Key[m] <= Key[k]

(* the keys of the first g nodes are less than key, and no others           *)
Splits(S, N, pos, key, g) ==
  /\ g \in 0 .. N
  /\ \A m \in S : IF pos[m] <= g THEN Key[m] < key ELSE key <= Key[m]

LEMMA KeySplits ==
  ASSUME NEW S, S \subseteq Nodes, NEW N, NEW pos, Numbered(S, N, pos), Sorted(S, pos),
         Key \in [Nodes -> Nat], NEW key \in Nat
  PROVE  \E g : Splits(S, N, pos, key, g)
<1>. DEFINE I == {i \in Nat : \A m \in S : pos[m] > i => key <= Key[m]}
            id == [i \in Nat |-> i]
<1>1. /\ N \in Nat /\ \A m \in S : pos[m] \in Int /\ 1 <= pos[m] /\ pos[m] <= N
      /\ \A m, k \in S : pos[m] = pos[k] => m = k
  BY DEF Numbered
<1>2. \A m \in S : Key[m] \in Nat
  OBVIOUS
<1>3. N \in I
  BY <1>1
<1>4. ~Descends(id, I)
  <2>1. id \in [Nat -> Nat] /\ I \in SUBSET Nat /\ I # {}
    BY <1>3
  <2>. HIDE DEF id, I
  <2>. QED
    BY <2>1, DescentEnds
<1>5. PICK g \in I : \A i \in I : ~(i < g)
  BY <1>4 DEF Descends
<1>6. g \in Nat /\ g <= N /\ \A m \in S : pos[m] > g => key <= Key[m]
  BY <1>1, <1>3, <1>5
<1>7. ASSUME NEW m \in S, pos[m] <= g PROVE Key[m] < key
  <2>1. g - 1 \in Nat /\ g - 1 \notin I
    <3>1. g - 1 \in Nat /\ g - 1 < g
      BY <1>1, <1>6, <1>7
    <3>. QED
      BY <1>5, <3>1
  <2>2. PICK k \in S : pos[k] > g - 1 /\ ~(key <= Key[k])
    BY <2>1
  <2>3. pos[k] = g
    BY <1>1, <1>6, <2>2
  <2>4. Key[m] <= Key[k]
    <3>1. CASE pos[m] = g
      BY <1>1, <1>2, <2>3, <3>1
    <3>2. CASE pos[m] < g
      BY <2>3, <3>2 DEF Sorted
    <3>. QED
      BY <1>1, <1>6, <1>7, <3>1, <3>2
  <2>. QED
    BY <1>2, <2>2, <2>4
<1>8. \A m \in S : IF pos[m] <= g THEN Key[m] < key ELSE key <= Key[m]
  BY <1>1, <1>6, <1>7
<1>9. g \in 0 .. N
  BY <1>1, <1>6
<1>. QED
  BY <1>8, <1>9 DEF Splits

(* A search ends at the gap that the key belongs in.                        *)
EndsAt(tr, S, bnd, key, g, p) ==
  p \in S /\ Toward(tr, key, p) = Nil /\ bnd[p][LEFT] <= g /\ g < bnd[p][RIGHT]

LEMMA SearchEndIs ==
  ASSUME NEW tr, NEW S, NEW N, NEW pos, NEW bnd, Ordered(tr, S, N, pos, bnd), Loose(tr, S),
         tr.root # Nil, Key \in [Nodes -> Nat], NEW key \in Nat, NEW g, Splits(S, N, pos, key, g)
  PROVE  EndsAt(tr, S, bnd, key, g, SearchEnd(tr, key))
<1>. DEFINE Eq(f) == f = [x \in Nodes |-> IF Toward(tr, key, x) = Nil THEN x ELSE f[Toward(tr, key, x)]]
            From == CHOOSE f : Eq(f)
            Z == {x \in Nodes : Toward(tr, key, x) = Nil}
            e == [x \in Nodes |-> x]
            c == [x \in Nodes |-> e]
            next == [x \in Nodes \ Z |-> Toward(tr, key, x)]
            Within(x) == bnd[x][LEFT] <= g /\ g < bnd[x][RIGHT]
            Fine(x) == From[x] \in S /\ Toward(tr, key, From[x]) = Nil /\ Within(From[x])
            Bad == {x \in S : Within(x) /\ ~Fine(x)}
            W == Widths(S, bnd)
<1>1. /\ S \subseteq Nodes /\ Nil \notin Nodes /\ N \in Nat /\ tr.root \in S
      /\ pos \in [Nodes -> Int] /\ bnd \in [Nodes -> [Side -> Int]]
      /\ bnd[tr.root][LEFT] = 0 /\ bnd[tr.root][RIGHT] = N + 1
      /\ \A x \in S, s \in Side : tr.child[x][s] # Nil => tr.child[x][s] \in S
      /\ \A x \in S, s \in Side : tr.child[x][s] # Nil =>
           bnd[tr.child[x][s]][s] = bnd[x][s] /\ bnd[tr.child[x][s]][1 - s] = pos[x]
  BY DEF Ordered, Linked, Numbered, Bounded
<1>2. /\ LEFT \in Side /\ RIGHT \in Side /\ LEFT # RIGHT /\ 1 - LEFT = RIGHT /\ 1 - RIGHT = LEFT
      /\ \A s \in Side : s = LEFT \/ s = RIGHT
  BY Sides DEF Side
<1>3. /\ W \in [Nodes -> Nat] /\ \A x \in Nodes : W[x] <= N + 1
      /\ \A x \in S, s \in Side : tr.child[x][s] # Nil => W[tr.child[x][s]] < W[x]
  BY WidthsAre
<1>4. ASSUME NEW x \in Nodes
      PROVE  \E s \in Side : /\ Toward(tr, key, x) = tr.child[x][s]
                             /\ s = LEFT <=> key <= Key[x]
  BY <1>2 DEF Toward
<1>5. ASSUME NEW x \in Nodes, Toward(tr, key, x) # Nil
      PROVE  x \in S /\ Toward(tr, key, x) \in S /\ W[Toward(tr, key, x)] < W[x]
  <2>1. PICK s \in Side : Toward(tr, key, x) = tr.child[x][s]
    BY <1>4
  <2>2. x \in S
    BY <1>5, <2>1 DEF Loose
  <2>. QED
    BY <1>1, <1>3, <1>5, <2>1, <2>2
<1>. HIDE DEF W
<1>6. \E f : Eq(f)
  <2>1. Z \in SUBSET Nodes /\ e \in [Nodes -> Nodes] /\ c \in [Nodes -> [Nodes -> Nodes]]
    OBVIOUS
  <2>2. next \in [Nodes \ Z -> Nodes]
    BY <1>1, <1>5
  <2>3. Declines(Nodes, Z, next, W, N + 1)
    BY <1>3, <1>5 DEF Declines
  <2>4. N + 1 \in Nat
    BY <1>1
  <2>5. \E f : Solves(Nodes, Nodes, Z, e, c, next, f)
    <3>. HIDE DEF Z, e, c, next
    <3>. QED
      BY <2>1, <2>2, <2>3, <2>4, Recursion
  <2>6. PICK f : Solves(Nodes, Nodes, Z, e, c, next, f)
    BY <2>5
  <2>7. f \in [Nodes -> Nodes] /\ \A x \in Nodes : Given(Nodes, Z, e, c, next, f, x)
    BY <2>6 DEF Solves
  <2>8. ASSUME NEW x \in Nodes
        PROVE  f[x] = IF Toward(tr, key, x) = Nil THEN x ELSE f[Toward(tr, key, x)]
    <3>1. f[x] = IF x \in Z THEN e[x] ELSE c[x][f[next[x]]]
      BY <2>7 DEF Given
    <3>2. CASE x \in Z
      BY <3>1, <3>2
    <3>3. CASE x \notin Z
      <4>1. next[x] = Toward(tr, key, x) /\ Toward(tr, key, x) # Nil
        BY <3>3
      <4>2. f[Toward(tr, key, x)] \in Nodes
        BY <1>1, <1>5, <2>7, <4>1
      <4>. QED
        BY <3>1, <3>3, <4>1, <4>2
    <3>. QED
      BY <3>2, <3>3
  <2>9. f = [x \in Nodes |-> IF Toward(tr, key, x) = Nil THEN x ELSE f[Toward(tr, key, x)]]
    BY <2>7, <2>8
  <2>. QED
    BY <2>9
<1>7. Eq(From)
  <2>. HIDE DEF Eq
  <2>. QED
    BY <1>6
<1>8. SearchEnd(tr, key) = From[tr.root]
  BY DEF SearchEnd
<1>. HIDE DEF From
<1>9. \A x \in Nodes : From[x] = IF Toward(tr, key, x) = Nil THEN x ELSE From[Toward(tr, key, x)]
  BY <1>7
<1>10. Descends(W, Bad)
  <2>1. ASSUME NEW x \in Bad PROVE \E y \in Bad : W[y] < W[x]
    <3>. DEFINE y == Toward(tr, key, x)
    <3>0. x \in S /\ x \in Nodes /\ Within(x) /\ ~Fine(x)
      BY <1>1
    <3>1. y # Nil /\ From[x] = From[y]
      BY <1>9, <3>0
    <3>2. y \in S /\ W[y] < W[x]
      BY <1>5, <3>0, <3>1
    <3>3. PICK s \in Side : y = tr.child[x][s] /\ (s = LEFT <=> key <= Key[x])
      BY <1>4, <3>0
    <3>4. bnd[y][s] = bnd[x][s] /\ bnd[y][1 - s] = pos[x]
      BY <1>1, <3>0, <3>1, <3>3
    <3>5. pos[x] \in Int /\ g \in Int /\ (IF pos[x] <= g THEN Key[x] < key ELSE key <= Key[x]) /\ Key[x] \in Nat
      BY <1>1, <3>0 DEF Splits
    <3>6. Within(y)
      <4>1. CASE s = LEFT
        <5>1. ~(pos[x] <= g)
          BY <3>3, <3>5, <4>1
        <5>. QED
          BY <1>2, <3>0, <3>4, <3>5, <4>1, <5>1
      <4>2. CASE s = RIGHT
        <5>1. pos[x] <= g
          BY <1>2, <3>3, <3>5, <4>2
        <5>. QED
          BY <1>2, <3>0, <3>4, <3>5, <4>2, <5>1
      <4>. QED
        BY <1>2, <4>1, <4>2
    <3>7. ~Fine(y)
      BY <3>0, <3>1
    <3>. QED
      BY <3>2, <3>6, <3>7
  <2>. QED
    BY <2>1 DEF Descends
<1>11. Bad = {}
  <2>1. W \in [Nodes -> Nat] /\ Bad \in SUBSET Nodes
    BY <1>1, <1>3
  <2>. HIDE DEF Bad
  <2>. QED
    BY <1>10, <2>1, DescentEnds
<1>12. Within(tr.root)
  BY <1>1 DEF Splits
<1>. QED
  BY <1>1, <1>8, <1>11, <1>12 DEF EndsAt

(* the tree that InsertLeaf makes, and where it puts the node               *)
Linking(tr, n, p) ==
  LET linked == IF p = Nil THEN [tr EXCEPT !.root = n]
                ELSE SetChild(tr, p, IF Key[n] <= Key[p] THEN LEFT ELSE RIGHT, n)
  IN SetRed([linked EXCEPT !.child[n] = EmptyTree.child[n], !.parent[n] = p], n)

Grown(tr, R, S, N, pos, n, Q) ==
  /\ Good(R, S \cup {n}, N + 1, Q, {}, {n}, {}) /\ Sorted(S \cup {n}, Q)
  /\ n \in R.red /\ SameBut(S \cup {n}, tr, R)

LEMMA LeafGap ==
  ASSUME NEW tr, NEW S, NEW N, NEW pos, NEW bnd, Ordered(tr, S, N, pos, bnd), Loose(tr, S),
         Key \in [Nodes -> Nat], NEW key \in Nat, NEW g, Splits(S, N, pos, key, g),
         NEW p, p = SearchEnd(tr, key),
         NEW r, r = IF p # Nil /\ key <= Key[p] THEN LEFT ELSE RIGHT
  PROVE  GapAt(tr, S, pos, p, r, g)
<1>1. /\ S \subseteq Nodes /\ Nil \notin S /\ Nil \notin Nodes /\ N \in Nat
      /\ tr.root \in S \cup {Nil} /\ (tr.root = Nil <=> S = {})
      /\ pos \in [Nodes -> Int] /\ bnd \in [Nodes -> [Side -> Int]]
      /\ \A i \in 1 .. N : \E m \in S : pos[m] = i
      /\ \A x \in S, s \in Side : tr.child[x][s] = Nil => Beside(s, bnd[x][s], pos[x])
  BY LinkTypes DEF Ordered, Linked, Numbered, Bounded
<1>2. /\ LEFT \in Side /\ RIGHT \in Side /\ LEFT # RIGHT /\ \A s \in Side : s = LEFT \/ s = RIGHT
  BY Sides DEF Side
<1>3. r \in Side
  BY <1>2
<1>4. CASE tr.root = Nil
  <2>1. p = Nil
    BY <1>4 DEF SearchEnd
  <2>2. g = 0
    <3>1. N = 0
      BY <1>1, <1>4
    <3>. QED
      BY <3>1 DEF Splits
  <2>. QED
    BY <1>3, <1>4, <2>1, <2>2 DEF GapAt
<1>5. CASE tr.root # Nil
  <2>1. p \in S /\ Toward(tr, key, p) = Nil /\ bnd[p][LEFT] <= g /\ g < bnd[p][RIGHT]
    BY <1>5, SearchEndIs DEF EndsAt
  <2>2. p # Nil /\ p \in Nodes /\ tr.child[p][r] = Nil /\ (r = LEFT <=> key <= Key[p])
    BY <1>1, <1>2, <2>1 DEF Toward
  <2>3. /\ Beside(r, bnd[p][r], pos[p]) /\ pos[p] \in Int /\ bnd[p][LEFT] \in Int /\ bnd[p][RIGHT] \in Int
        /\ g \in Int /\ Key[p] \in Nat
        /\ IF pos[p] <= g THEN Key[p] < key ELSE key <= Key[p]
    BY <1>1, <1>2, <1>3, <2>1, <2>2 DEF Splits
  <2>4. CASE r = LEFT
    <3>1. ~(pos[p] <= g) /\ pos[p] = bnd[p][LEFT] + 1
      BY <2>2, <2>3, <2>4 DEF Beside
    <3>2. g = pos[p] - 1
      BY <2>1, <2>3, <3>1
    <3>. QED
      BY <1>3, <1>5, <2>1, <2>2, <2>4, <3>2 DEF GapAt
  <2>5. CASE r = RIGHT
    <3>1. pos[p] <= g /\ bnd[p][RIGHT] = pos[p] + 1
      BY <1>2, <2>2, <2>3, <2>5 DEF Beside
    <3>2. g = pos[p]
      BY <2>1, <2>3, <3>1
    <3>. QED
      BY <1>2, <1>3, <1>5, <2>1, <2>2, <2>5, <3>2 DEF GapAt
  <2>. QED
    BY <1>2, <1>3, <2>4, <2>5
<1>. QED
  BY <1>4, <1>5

LEMMA LinkingIs ==
  ASSUME NEW tr \in Trees, Nil \notin Nodes, NEW n \in Nodes, NEW p \in Links, p # n,
         NEW r, r = IF p # Nil /\ Key[n] <= Key[p] THEN LEFT ELSE RIGHT
  PROVE  Leafed(tr, Linking(tr, n, p), n, p, r)
<1>. DEFINE linked == IF p = Nil THEN [tr EXCEPT !.root = n]
                      ELSE SetChild(tr, p, IF Key[n] <= Key[p] THEN LEFT ELSE RIGHT, n)
            L == [linked EXCEPT !.child[n] = EmptyTree.child[n], !.parent[n] = p]
<1>0. /\ LEFT \in Side /\ RIGHT \in Side /\ r \in Side /\ Side = {LEFT, RIGHT}
      /\ n \in Links /\ Nil \in Links
  BY Sides DEF Side, Links
<1>1. /\ linked \in Trees /\ linked.parent = tr.parent /\ linked.red = tr.red
      /\ linked.root = (IF p = Nil THEN n ELSE tr.root)
      /\ \A m \in Nodes, s \in Side : linked.child[m][s] = IF m = p /\ s = r THEN n ELSE tr.child[m][s]
  <2>1. CASE p = Nil
    BY <1>0, <2>1 DEF Trees
  <2>2. CASE p # Nil
    <3>1. linked = SetChild(tr, p, r, n) /\ p \in Nodes
      BY <2>2 DEF Links
    <3>2. Relinked(tr, linked, p, r, n)
      BY <1>0, <3>1, SetChildIs
    <3>. QED
      BY <2>2, <3>2 DEF Relinked
  <2>. QED
    BY <2>1, <2>2
<1>. HIDE DEF linked
<1>2. EmptyTree.child[n] = [s \in Side |-> Nil]
  BY DEF EmptyTree, Side
<1>3. /\ L.root = linked.root /\ L.red = linked.red
      /\ L.child = [linked.child EXCEPT ![n] = [s \in Side |-> Nil]]
      /\ L.parent = [linked.parent EXCEPT ![n] = p]
      /\ L = [root |-> L.root, child |-> L.child, parent |-> L.parent, red |-> L.red]
  <2>1. linked = [root |-> linked.root, child |-> linked.child, parent |-> linked.parent, red |-> linked.red]
    BY <1>1 DEF Trees
  <2>2. L = [linked EXCEPT !.child = [linked.child EXCEPT ![n] = EmptyTree.child[n]],
                           !.parent = [linked.parent EXCEPT ![n] = p]]
    BY <2>1
  <2>3. L = [root |-> linked.root, child |-> [linked.child EXCEPT ![n] = [s \in Side |-> Nil]],
             parent |-> [linked.parent EXCEPT ![n] = p], red |-> linked.red]
    <3>. DEFINE C == [linked.child EXCEPT ![n] = [s \in Side |-> Nil]]
                A == [linked.parent EXCEPT ![n] = p]
    <3>1. L = [linked EXCEPT !.child = C, !.parent = A]
      BY <1>2, <2>2
    <3>. HIDE DEF C, A
    <3>2. linked \in Trees
      BY <1>1
    <3>3. L = [root |-> linked.root, child |-> C, parent |-> A, red |-> linked.red]
      <4>. HIDE DEF L
      <4>. QED
        BY <3>1, <3>2 DEF Trees
    <3>. QED
      BY <3>3 DEF C, A
  <2>. HIDE DEF L
  <2>. QED
    BY <2>3
<1>4. /\ linked.child \in [Nodes -> [Side -> Links]] /\ linked.parent \in [Nodes -> Links]
      /\ linked.root \in Links /\ linked.red \in SUBSET Nodes
  BY <1>1 DEF Trees
<1>. HIDE DEF L
<1>5. L.child \in [Nodes -> [Side -> Links]] /\ L.parent \in [Nodes -> Links]
  BY <1>0, <1>3, <1>4
<1>6. L \in Trees
  BY <1>3, <1>4, <1>5 DEF Trees
<1>7. /\ \A m \in Nodes, s \in Side : L.child[m][s] = IF m = n THEN Nil
                                                      ELSE IF m = p /\ s = r THEN n
                                                      ELSE tr.child[m][s]
      /\ \A m \in Nodes : L.parent[m] = IF m = n THEN p ELSE tr.parent[m]
  BY <1>1, <1>3, <1>4
<1>8. Repainted(L, SetRed(L, n)) /\ SetRed(L, n).red = L.red \cup {n}
  BY <1>6, PaintIs
<1>9. Leafed(tr, SetRed(L, n), n, p, r)
  BY <1>1, <1>3, <1>7, <1>8 DEF Leafed, Repainted
<1>. QED
  BY <1>9 DEF Linking, linked, L

LEMMA LinkingIsGood ==
  ASSUME NEW tr, NEW S, NEW N, NEW pos, Good(tr, S, N, pos, {}, {}, {}), Loose(tr, S),
         Sorted(S, pos), Key \in [Nodes -> Nat], NEW n \in Nodes \ S
  PROVE  \E Q : Grown(tr, Linking(tr, n, SearchEnd(tr, Key[n])), S, N, pos, n, Q)
<1>. DEFINE key == Key[n]
            p == SearchEnd(tr, key)
            r == IF p # Nil /\ key <= Key[p] THEN LEFT ELSE RIGHT
            R == Linking(tr, n, p)
<1>1. PICK bnd : Ordered(tr, S, N, pos, bnd)
  BY DEF Good
<1>2. /\ tr \in Trees /\ Nil \notin Nodes /\ S \subseteq Nodes /\ Numbered(S, N, pos) /\ key \in Nat
  BY <1>1 DEF Ordered, Linked
<1>3. PICK g : Splits(S, N, pos, key, g)
  BY <1>2, KeySplits
<1>4. GapAt(tr, S, pos, p, r, g)
  <2>. HIDE DEF key
  <2>. QED
    BY <1>1, <1>2, <1>3, LeafGap
<1>5. p \in S \cup {Nil}
  BY <1>4 DEF GapAt
<1>. HIDE DEF p
<1>6. Leafed(tr, R, n, p, r)
  <2>1. p \in Links /\ p # n
    BY <1>2, <1>5 DEF Links
  <2>. QED
    BY <1>2, <2>1, LinkingIs
<1>. DEFINE Q == ShiftedPos(pos, n, g)
<1>. HIDE DEF R, r
<1>7. Good(R, S \cup {n}, N + 1, Q, {}, {n}, {})
  <2>. HIDE DEF Q
  <2>. QED
    BY <1>4, <1>6, LeafIsGood DEF Q
<1>8. n \in R.red
  BY <1>6 DEF Leafed
<1>9. SameBut(S \cup {n}, tr, R)
  BY <1>2, <1>5, <1>6 DEF Leafed, SameBut
<1>10. /\ Q[n] = g + 1 /\ g \in Int /\ key = Key[n]
       /\ \A m \in S : Q[m] = (IF pos[m] > g THEN pos[m] + 1 ELSE pos[m]) /\ pos[m] \in Int /\ m # n
       /\ \A m \in S : (IF pos[m] <= g THEN Key[m] < key ELSE key <= Key[m]) /\ Key[m] \in Nat
  BY <1>2, <1>3 DEF ShiftedPos, Shift, Splits, Numbered
<1>. HIDE DEF Q, key
<1>11. ASSUME NEW m \in S \cup {n}, NEW k \in S \cup {n}, Q[m] < Q[k] PROVE Key[m] <= Key[k]
  <2>1. CASE m \in S /\ k \in S
    <3>1. pos[m] < pos[k]
      BY <1>10, <1>11, <2>1
    <3>. QED
      BY <2>1, <3>1 DEF Sorted
  <2>2. CASE m = n /\ k \in S
    <3>1. ~(pos[k] <= g)
      BY <1>10, <1>11, <2>2
    <3>. QED
      BY <1>10, <2>2, <3>1
  <2>3. CASE m \in S /\ k = n
    <3>1. pos[m] <= g
      BY <1>10, <1>11, <2>3
    <3>. QED
      BY <1>2, <1>10, <2>3, <3>1
  <2>4. CASE m = n /\ k = n
    BY <1>10, <1>11, <2>4
  <2>. QED
    BY <2>1, <2>2, <2>3, <2>4
<1>12. Sorted(S \cup {n}, Q)
  BY <1>11 DEF Sorted
<1>13. Grown(tr, R, S, N, pos, n, Q)
  BY <1>7, <1>8, <1>9, <1>12 DEF Grown
<1>. QED
  BY <1>13 DEF R, p, key

-------------------------------------------------------------------------------
(***************************************************************************)
(* The tree at every step of an operation.                                 *)
(***************************************************************************)
Sound(tr, S, N, X, U, D) == \E pos : Good(tr, S, N, pos, X, U, D) /\ Sorted(S, pos)

TreeIdle == job.op = "idle" /\ Sound(t, contents, size, {}, {}, {}) /\ Loose(t, contents)

TreeInserting ==
  /\ job.op = "insert" /\ job.subject \in Nodes \ contents
  /\ LET S == contents \cup {job.subject}
     IN /\ job.node \in S /\ job.node \in t.red
        /\ Sound(t, S, size + 1, {}, {job.node}, {}) /\ Loose(t, S)

TreeMending ==
  /\ job.op = "mend" /\ job.subject \in contents
  /\ LET S == contents \ {job.subject}
     IN /\ job.node \in S \cup {Nil}
        /\ \E X : Placed(t, S, job.node, job.parent, X) /\ Sound(t, S, size - 1, X, {job.node}, {job.node})
  /\ Loose(t, contents)

TreeRemoved ==
  /\ job.op = "removed" /\ job.subject \in contents
  /\ Sound(t, contents \ {job.subject}, size - 1, {}, {}, {})
  /\ Loose(t, contents)

(* The inductive invariant: at every step the nodes are in order, and the   *)
(* balance is off at one node at most, the one that the loops go on from.   *)
TreeInvariant ==
  /\ contents \in SUBSET Nodes /\ IsFiniteSet(contents) /\ size = Cardinality(contents)
  /\ t \in Trees
  /\ job \in [op : {"idle", "insert", "mend", "removed"}, node : Links, parent : Links, subject : Links]
  /\ TreeIdle \/ TreeInserting \/ TreeMending \/ TreeRemoved

LEMMA EmptyIsSound ==
  ASSUME Nil \notin Nodes
  PROVE  Sound(EmptyTree, {}, 0, {}, {}, {}) /\ Loose(EmptyTree, {}) /\ EmptyTree \in Trees
<1>. DEFINE pos == [n \in Nodes |-> 0]
            bnd == [n \in Nodes |-> [s \in Side |-> 0]]
            h == [n \in Links |-> 0]
<1>1. /\ EmptyTree \in Trees /\ EmptyTree.root = Nil /\ EmptyTree.red = {}
      /\ \A n \in Nodes : EmptyTree.parent[n] = Nil /\ \A s \in Side : EmptyTree.child[n][s] = Nil
  BY DEF EmptyTree, Trees, Side, Links
<1>2. Linked(EmptyTree, {})
  BY <1>1 DEF Linked
<1>3. Numbered({}, 0, pos)
  BY DEF Numbered
<1>4. Bounded(EmptyTree, {}, 0, pos, bnd) /\ Threaded(EmptyTree, {}, pos)
  BY <1>1 DEF Bounded, Threaded
<1>5. \E b : Ordered(EmptyTree, {}, 0, pos, b)
  BY <1>2, <1>3, <1>4 DEF Ordered
<1>6. Even(EmptyTree, {}, h, {})
  BY DEF Even, Links
<1>7. RedOK(EmptyTree, {}, {}, {})
  BY <1>1 DEF RedOK
<1>8. Good(EmptyTree, {}, 0, pos, {}, {}, {})
  BY <1>5, <1>6, <1>7 DEF Good
<1>9. Sorted({}, pos)
  BY DEF Sorted
<1>10. Loose(EmptyTree, {})
  BY <1>1 DEF Loose
<1>. QED
  BY <1>1, <1>8, <1>9, <1>10 DEF Sound

(* What is good stays good with more allowed.                               *)
LEMMA GoodWidens ==
  ASSUME NEW tr, NEW S, NEW N, NEW pos, NEW X, Good(tr, S, N, pos, X, {}, {}), NEW U, NEW D
  PROVE  Good(tr, S, N, pos, X, U, D)
<1>1. RedOK(tr, S, {}, {})
  BY DEF Good
<1>2. RedOK(tr, S, U, D)
  BY <1>1 DEF RedOK, LinkOK
<1>. QED
  BY <1>2 DEF Good

(* What is loose stays loose.                                               *)
LEMMA LooseKeeps ==
  ASSUME NEW tr, NEW R, NEW S, SameBut(S, tr, R), Loose(tr, S)
  PROVE  Loose(R, S)
BY DEF SameBut, Loose

LEMMA SameButTransits ==
  ASSUME NEW tr, NEW Q, NEW R, NEW S, SameBut(S, tr, Q), SameBut(S, Q, R)
  PROVE  SameBut(S, tr, R)
BY DEF SameBut

LEMMA GoodTypes ==
  ASSUME NEW tr, NEW S, NEW N, NEW pos, NEW X, NEW U, NEW D, Good(tr, S, N, pos, X, U, D)
  PROVE  /\ tr \in Trees /\ Nil \notin Nodes /\ Nil \notin S /\ S \subseteq Nodes
         /\ tr.root \in S \cup {Nil} /\ (tr.root = Nil <=> S = {})
         /\ \A m \in S : tr.parent[m] \in S \cup {Nil} /\ (tr.parent[m] = Nil <=> m = tr.root)
         /\ \A m \in S : m # tr.root => \E s \in Side : tr.child[tr.parent[m]][s] = m
         /\ \A m \in S, s \in Side : tr.child[m][s] # Nil =>
              tr.child[m][s] \in S /\ tr.parent[tr.child[m][s]] = m
         /\ N \in Nat /\ Numbered(S, N, pos)
<1>1. PICK bnd : Ordered(tr, S, N, pos, bnd)
  BY DEF Good
<1>2. Linked(tr, S) /\ Numbered(S, N, pos) /\ N \in Nat
  BY <1>1 DEF Ordered, Numbered
<1>3. Nil \notin S
  BY <1>2, LinkTypes
<1>. QED
  BY <1>2, <1>3 DEF Linked

LEMMA InsertLeafKeeps ==
  ASSUME KeyAssumption, TreeInvariant, NEW n \in Nodes, NEW multi \in BOOLEAN, InsertLeaf(n, multi)
  PROVE  TreeInvariant'
<1>1. Sound(t, contents, size, {}, {}, {}) /\ Loose(t, contents)
  BY DEF TreeInvariant, InsertLeaf, TreeIdle, TreeInserting, TreeMending, TreeRemoved
<1>2. PICK pos : Good(t, contents, size, pos, {}, {}, {}) /\ Sorted(contents, pos)
  BY <1>1 DEF Sound
<1>3. n \in Nodes \ contents /\ Key \in [Nodes -> Nat]
  BY DEF InsertLeaf, KeyAssumption
<1>4. t' = Linking(t, n, SearchEnd(t, Key[n]))
  BY DEF InsertLeaf, Linking
<1>5. /\ job' = [op |-> "insert", node |-> n, parent |-> Nil, subject |-> n]
      /\ UNCHANGED <<size, contents>>
  BY DEF InsertLeaf, Idle
<1>6. \E Q : Grown(t, t', contents, size, pos, n, Q)
  <2>1. \E Q : Grown(t, Linking(t, n, SearchEnd(t, Key[n])), contents, size, pos, n, Q)
    BY <1>1, <1>2, <1>3, LinkingIsGood
  <2>. QED
    BY <1>4, <2>1
<1>7. PICK Q : Grown(t, t', contents, size, pos, n, Q)
  BY <1>6
<1>8. /\ Good(t', contents \cup {n}, size + 1, Q, {}, {n}, {}) /\ Sorted(contents \cup {n}, Q)
      /\ n \in t'.red /\ SameBut(contents \cup {n}, t, t')
  BY <1>7 DEF Grown
<1>9. Loose(t', contents \cup {n})
  <2>1. Loose(t, contents \cup {n})
    BY <1>1 DEF Loose
  <2>. QED
    BY <1>8, <2>1, LooseKeeps
<1>10. TreeInserting'
  BY <1>3, <1>5, <1>8, <1>9 DEF TreeInserting, Sound
<1>11. t' \in Trees
  BY <1>8, GoodTypes
<1>. QED
  BY <1>3, <1>5, <1>10, <1>11 DEF TreeInvariant, Links

LEMMA InsertRecolourKeeps ==
  ASSUME KeyAssumption, TreeInvariant, InsertRecolour
  PROVE  TreeInvariant'
<1>. DEFINE S == contents \cup {job.subject}
            node == job.node
            p == t.parent[node]
            g == t.parent[p]
            us == Across(t, p, g)
            R == SetRed(SetBlack(t, {t.child[g][us], p}), g)
<1>1. /\ job.op = "insert" /\ job.subject \in Nodes \ contents
      /\ node \in S /\ Sound(t, S, size + 1, {}, {node}, {}) /\ Loose(t, S)
  BY DEF TreeInvariant, InsertRecolour, Inserting, TreeIdle, TreeInserting, TreeMending, TreeRemoved
<1>2. PICK pos : Good(t, S, size + 1, pos, {}, {node}, {}) /\ Sorted(S, pos)
  BY <1>1 DEF Sound
<1>3. /\ p \in t.red /\ t.child[g][us] \in t.red /\ t' = R /\ job' = [job EXCEPT !.node = g]
      /\ UNCHANGED <<size, contents>>
  BY DEF InsertRecolour, Inserting, InsertParent, Grandparent, Uncle, UncleSide, Red
<1>4. Elders(t, S, node, p, g, us)
  <2>. HIDE DEF S, node
  <2>. QED
    BY <1>1, <1>2, <1>3, InsertKin
<1>. HIDE DEF S, node, p, g, us
<1>5. /\ Good(R, S, size + 1, pos, {}, {g}, {})
      /\ R.red = (t.red \ {t.child[g][us], p}) \cup {g} /\ Repainted(t, R)
  BY <1>1, <1>2, <1>3, <1>4, RecolourIsGood
<1>. HIDE DEF R
<1>6. g \in S /\ p \in S /\ t.child[g][us] \in S
  <2>1. g \in S /\ p \in S /\ us \in Side
    BY <1>4 DEF Elders
  <2>2. t.red \subseteq Nodes /\ Nil \notin Nodes
    BY <1>2, GoodTypes DEF TreeInvariant, Trees
  <2>3. t.child[g][us] # Nil
    BY <1>3, <2>2
  <2>. QED
    BY <1>2, <2>1, <2>3, GoodTypes
<1>7. SameBut(S, t, R)
  BY <1>5, <1>6 DEF SameBut, Repainted
<1>8. Loose(R, S)
  BY <1>1, <1>7, LooseKeeps
<1>9. /\ job' \in [op : {"idle", "insert", "mend", "removed"}, node : Links, parent : Links, subject : Links]
      /\ job'.op = "insert" /\ job'.subject = job.subject /\ job'.node = g
  <2>1. g \in Links
    BY <1>2, <1>6, GoodTypes DEF Links
  <2>. QED
    BY <1>1, <1>3, <2>1 DEF TreeInvariant
<1>10. TreeInserting'
  BY <1>1, <1>2, <1>3, <1>5, <1>6, <1>8, <1>9 DEF TreeInserting, Sound, S
<1>11. t' \in Trees
  BY <1>3, <1>5, GoodTypes
<1>. QED
  BY <1>3, <1>9, <1>10, <1>11 DEF TreeInvariant

LEMMA InsertRotateKeeps ==
  ASSUME KeyAssumption, TreeInvariant, InsertRotate
  PROVE  TreeInvariant'
<1>. DEFINE S == contents \cup {job.subject}
            node == job.node
            p == t.parent[node]
            g == t.parent[p]
            us == Across(t, p, g)
            outside == IF t.child[p][us] = node THEN Rotate(t, p, us) ELSE t
            R == Promote(outside, g, 1 - us)
            next == IF t.child[p][us] = node THEN p ELSE node
<1>1. /\ job.op = "insert" /\ job.subject \in Nodes \ contents
      /\ node \in S /\ node \in t.red /\ Sound(t, S, size + 1, {}, {node}, {}) /\ Loose(t, S)
  BY DEF TreeInvariant, InsertRotate, Inserting, TreeIdle, TreeInserting, TreeMending, TreeRemoved
<1>2. PICK pos : Good(t, S, size + 1, pos, {}, {node}, {}) /\ Sorted(S, pos)
  BY <1>1 DEF Sound
<1>3. /\ p \in t.red /\ t.child[g][us] \notin t.red /\ t' = R /\ job' = [job EXCEPT !.node = next]
      /\ UNCHANGED <<size, contents>>
  BY DEF InsertRotate, Inserting, InsertParent, Grandparent, Uncle, UncleSide, Red
<1>4. Elders(t, S, node, p, g, us)
  <2>. HIDE DEF S, node
  <2>. QED
    BY <1>1, <1>2, <1>3, InsertKin
<1>. HIDE DEF S, node, p, g, us
<1>5. Good(R, S, size + 1, pos, {}, {}, {}) /\ SameBut(S, t, R) /\ next \in R.red
  BY <1>1, <1>2, <1>3, <1>4, InsertRotateIsGood
<1>. HIDE DEF R
<1>6. next \in S
  BY <1>1, <1>4 DEF Elders
<1>. HIDE DEF next
<1>7. Good(R, S, size + 1, pos, {}, {next}, {})
  BY <1>5, GoodWidens
<1>8. Loose(R, S)
  BY <1>1, <1>5, LooseKeeps
<1>9. /\ job' \in [op : {"idle", "insert", "mend", "removed"}, node : Links, parent : Links, subject : Links]
      /\ job'.op = "insert" /\ job'.subject = job.subject /\ job'.node = next
  <2>1. next \in Links
    BY <1>2, <1>6, GoodTypes DEF Links
  <2>. QED
    BY <1>1, <1>3, <2>1 DEF TreeInvariant
<1>10. TreeInserting'
  BY <1>1, <1>2, <1>3, <1>5, <1>6, <1>7, <1>8, <1>9 DEF TreeInserting, Sound, S
<1>11. t' \in Trees
  BY <1>3, <1>5, GoodTypes
<1>. QED
  BY <1>3, <1>9, <1>10, <1>11 DEF TreeInvariant

LEMMA InsertDoneKeeps ==
  ASSUME KeyAssumption, TreeInvariant, InsertDone
  PROVE  TreeInvariant'
<1>. DEFINE S == contents \cup {job.subject}
            node == job.node
            R == SetBlack(t, {t.root})
<1>1. /\ job.op = "insert" /\ job.subject \in Nodes \ contents
      /\ node \in S /\ Sound(t, S, size + 1, {}, {node}, {}) /\ Loose(t, S)
  BY DEF TreeInvariant, InsertDone, TreeIdle, TreeInserting, TreeMending, TreeRemoved
<1>2. PICK pos : Good(t, S, size + 1, pos, {}, {node}, {}) /\ Sorted(S, pos)
  BY <1>1 DEF Sound
<1>3. /\ t.parent[node] \notin t.red /\ t' = R /\ job' = Idle /\ size' = size + 1 /\ contents' = S
  BY <1>1 DEF InsertDone, Inserting
<1>. HIDE DEF S, node
<1>4. /\ Nil \notin S /\ t.root \in S \cup {Nil} /\ t \in Trees
      /\ \A m \in S : t.parent[m] \in S \cup {Nil} /\ (t.parent[m] = Nil <=> m = t.root)
      /\ \A m \in S, s \in Side : t.child[m][s] # Nil =>
           t.child[m][s] \in S /\ t.parent[t.child[m][s]] = m
      /\ t.red \subseteq Nodes /\ Nil \notin Nodes
  BY <1>2, GoodTypes DEF Trees
<1>5. RedOK(t, S, {t.root}, {})
  <2>1. RedOK(t, S, {node}, {})
    BY <1>2 DEF Good
  <2>2. ASSUME NEW m \in S, NEW s \in Side, m \in t.red, t.child[m][s] \in t.red PROVE FALSE
    <3>1. t.child[m][s] = node
      BY <2>1, <2>2 DEF RedOK, LinkOK
    <3>2. t.parent[node] = m
      BY <1>4, <2>2, <3>1
    <3>. QED
      BY <1>3, <2>2, <3>2
  <2>. QED
    BY <2>2 DEF RedOK, LinkOK
<1>6. Good(t, S, size + 1, pos, {}, {t.root}, {})
  BY <1>2, <1>5 DEF Good
<1>7. OnlyRed(t, S, {}, t.root) /\ {} \subseteq {t.root}
  BY <1>4 DEF OnlyRed
<1>8. Good(R, S, size + 1, pos, {}, {}, {}) /\ Repainted(t, R) /\ R.red = t.red \ {t.root}
  <2>1. Blackened(t, R, S, size + 1, pos, t.root)
    BY <1>4, <1>6, <1>7, BlackenedIsGood
  <2>. QED
    BY <2>1 DEF Blackened
<1>. HIDE DEF R
<1>9. SameBut(S, t, R)
  BY <1>4, <1>8 DEF SameBut, Repainted
<1>10. Loose(R, S)
  BY <1>1, <1>9, LooseKeeps DEF S
<1>11. TreeIdle'
  BY <1>2, <1>3, <1>8, <1>10 DEF TreeIdle, Sound, Idle
<1>12. /\ contents' \in SUBSET Nodes /\ IsFiniteSet(contents') /\ size' = Cardinality(contents')
  <2>1. IsFiniteSet(contents) /\ size = Cardinality(contents) /\ job.subject \notin contents /\ contents \subseteq Nodes
    BY <1>1 DEF TreeInvariant
  <2>2. IsFiniteSet(S) /\ Cardinality(S) = size + 1
    BY <2>1, FS_AddElement DEF S
  <2>3. S \subseteq Nodes
    BY <1>1, <2>1 DEF S
  <2>. QED
    BY <1>3, <2>2, <2>3
<1>13. t' \in Trees /\ job' \in [op : {"idle", "insert", "mend", "removed"}, node : Links, parent : Links, subject : Links]
  BY <1>3, <1>8, GoodTypes DEF Idle, Links
<1>. QED
  BY <1>11, <1>12, <1>13 DEF TreeInvariant

-------------------------------------------------------------------------------
(* what has been unlinked, and the place that is left                       *)
Unlinked(u, n, pos) ==
  /\ u.parent \in Links
  /\ \E Q : /\ Without(t, u.tree, contents, size, Q, n, ~u.black, u.node, u.parent)
            /\ SameOrder(contents \ {n}, pos, Q)

LEMMA BypassUnlinks ==
  ASSUME NEW pos, Good(t, contents, size, pos, {}, {}, {}), NEW n \in contents,
         Nil \in {t.child[n][LEFT], t.child[n][RIGHT]}
  PROVE  Unlinked(Bypass(n), n, pos)
<1>. DEFINE y == IF t.child[n][LEFT] = Nil THEN RIGHT ELSE LEFT
            c == t.child[n][y]
            p == t.parent[n]
            R == Replace(SetParent(t, c, p), p, n, c)
            Q == ClosedPos(pos, pos[n])
<1>1. PICK bnd : Ordered(t, contents, size, pos, bnd)
  BY DEF Good
<1>2. OnlyChild(t, n, y, p, c)
  <2>1. y \in Side /\ t.child[n][1 - y] = Nil
    BY Sides DEF Side
  <2>. QED
    BY <2>1 DEF OnlyChild
<1>3. c = IF t.child[n][LEFT] = Nil THEN t.child[n][RIGHT] ELSE t.child[n][LEFT]
  OBVIOUS
<1>. HIDE DEF y, c, p
<1>4. Bypassed(t, R, n, p, c)
  BY <1>1, <1>2, BypassedIs
<1>5. Without(t, R, contents, size, Q, n, n \in t.red, c, p)
  BY <1>2, <1>4, BypassIsGood
<1>6. SameOrder(contents \ {n}, pos, Q)
  <2>1. Numbered(contents, size, pos) /\ contents \subseteq Nodes
    BY GoodTypes
  <2>. QED
    BY <2>1, ClosedOrder
<1>7. /\ Bypass(n).tree = R /\ Bypass(n).node = c /\ Bypass(n).parent = p
      /\ ~Bypass(n).black <=> n \in t.red
  BY <1>3 DEF Bypass, p, Red
<1>8. Without(t, R, contents, size, Q, n, ~Bypass(n).black, c, p)
  BY <1>5, <1>7 DEF Without
<1>9. p \in Links
  BY GoodTypes DEF Links, p
<1>. QED
  BY <1>6, <1>7, <1>8, <1>9 DEF Unlinked

LEMMA SucceedUnlinks ==
  ASSUME NEW pos, Good(t, contents, size, pos, {}, {}, {}), Loose(t, contents), NEW n \in contents,
         Nil \notin {t.child[n][LEFT], t.child[n][RIGHT]}
  PROVE  Unlinked(Succeed(n, Successor(n)), n, pos)
<1>. DEFINE next == Successor(n)
            R == Inherit(Depart(Replace(t, t.parent[n], n, next), n, next), n, next)
            c == t.child[next][RIGHT]
            p == IF t.parent[next] = n THEN next ELSE t.parent[next]
<1>1. PICK bnd : Ordered(t, contents, size, pos, bnd)
  BY DEF Good
<1>2. /\ next = Outermost(t, t.child[n][RIGHT], LEFT)
      /\ t.child[n][LEFT] # Nil /\ t.child[n][RIGHT] # Nil
  BY DEF Successor
<1>3. /\ Succeed(n, next).tree = R /\ Succeed(n, next).node = c /\ Succeed(n, next).parent = p
      /\ ~Succeed(n, next).black <=> next \in t.red
  BY DEF Succeed, Red
<1>. HIDE DEF next
<1>4. Following(t, contents, n, next, t.parent[n], t.parent[next], c)
  BY <1>1, <1>2, SuccessorIs
<1>5. PICK Q : Without(t, R, contents, size, Q, n, next \in t.red, c, p) /\ SameOrder(contents \ {n}, pos, Q)
  BY <1>2, SuccessionIsGood
<1>6. p \in Links
  <2>1. next \in contents /\ t.parent[next] \in contents /\ contents \subseteq Nodes
    BY <1>4, GoodTypes DEF Following
  <2>. QED
    BY <2>1 DEF Links
<1>. HIDE DEF R, c, p
<1>7. Without(t, R, contents, size, Q, n, ~Succeed(n, next).black, c, p)
  BY <1>3, <1>5 DEF Without
<1>8. Unlinked(Succeed(n, next), n, pos)
  BY <1>3, <1>5, <1>6, <1>7 DEF Unlinked
<1>. QED
  BY <1>8 DEF next

LEMMA UnlinkKeeps ==
  ASSUME KeyAssumption, TreeInvariant, NEW n \in Nodes, Unlink(n)
  PROVE  TreeInvariant'
<1>. DEFINE u == IF Nil \in {t.child[n][LEFT], t.child[n][RIGHT]} THEN Bypass(n)
                 ELSE Succeed(n, Successor(n))
            S == contents \ {n}
<1>1. Sound(t, contents, size, {}, {}, {}) /\ Loose(t, contents) /\ n \in contents
  BY DEF TreeInvariant, Unlink, TreeIdle, TreeInserting, TreeMending, TreeRemoved
<1>2. PICK pos : Good(t, contents, size, pos, {}, {}, {}) /\ Sorted(contents, pos)
  BY <1>1 DEF Sound
<1>3. /\ t' = u.tree /\ job' = [op |-> IF u.black THEN "mend" ELSE "removed",
                               node |-> u.node, parent |-> u.parent, subject |-> n]
      /\ UNCHANGED <<size, contents>>
  BY DEF Unlink
<1>4. Unlinked(u, n, pos)
  <2>1. CASE Nil \in {t.child[n][LEFT], t.child[n][RIGHT]}
    <3>1. Unlinked(Bypass(n), n, pos)
      BY <1>1, <1>2, <2>1, BypassUnlinks
    <3>. QED
      BY <2>1, <3>1
  <2>2. CASE Nil \notin {t.child[n][LEFT], t.child[n][RIGHT]}
    <3>1. Unlinked(Succeed(n, Successor(n)), n, pos)
      BY <1>1, <1>2, <2>2, SucceedUnlinks
    <3>. QED
      BY <2>2, <3>1
  <2>. QED
    BY <2>1, <2>2
<1>. HIDE DEF u
<1>5. PICK Q : /\ Without(t, u.tree, contents, size, Q, n, ~u.black, u.node, u.parent)
               /\ SameOrder(S, pos, Q)
  BY <1>4 DEF Unlinked
<1>6. Sorted(S, Q)
  BY <1>2, <1>5 DEF Sorted, SameOrder
<1>7. u.node \in S \cup {Nil} /\ u.parent \in Links /\ contents \subseteq Nodes
  BY <1>2, <1>4, <1>5, GoodTypes DEF Unlinked, Without
<1>8. Loose(t', contents)
  <2>1. SameBut(contents, t, u.tree)
    BY <1>5 DEF Without
  <2>. QED
    BY <1>1, <1>3, <2>1, LooseKeeps
<1>9. job' \in [op : {"idle", "insert", "mend", "removed"}, node : Links, parent : Links, subject : Links]
  BY <1>3, <1>7 DEF Links
<1>10. TreeMending' \/ TreeRemoved'
  <2>1. CASE u.black
    <3>1. PICK X : Placed(u.tree, S, u.node, u.parent, X) /\ Good(u.tree, S, size - 1, Q, X, {u.node}, {u.node})
      BY <1>5, <2>1 DEF Without
    <3>2. \E Y : Placed(t', S, job'.node, job'.parent, Y) /\ Sound(t', S, size - 1, Y, {job'.node}, {job'.node})
      BY <1>3, <1>6, <3>1 DEF Sound
    <3>. QED
      BY <1>1, <1>3, <1>7, <1>8, <2>1, <3>2 DEF TreeMending
  <2>2. CASE ~u.black
    <3>1. Good(u.tree, S, size - 1, Q, {}, {}, {})
      BY <1>5, <2>2 DEF Without
    <3>. QED
      BY <1>1, <1>3, <1>6, <1>8, <2>2, <3>1 DEF TreeRemoved, Sound
  <2>. QED
    BY <2>1, <2>2
<1>11. t' \in Trees
  <2>1. Good(u.tree, S, size - 1, Q, {}, {}, {}) \/ \E X : Good(u.tree, S, size - 1, Q, X, {u.node}, {u.node})
    BY <1>5 DEF Without
  <2>. QED
    BY <1>3, <2>1, GoodTypes
<1>. QED
  BY <1>3, <1>9, <1>10, <1>11 DEF TreeInvariant

(* A node of the tree is where its links say.                               *)
LEMMA NodesArePlaced ==
  ASSUME NEW tr, NEW S, NEW N, NEW pos, NEW X, NEW U, NEW D, Good(tr, S, N, pos, X, U, D), NEW n \in S
  PROVE  Placed(tr, S, n, tr.parent[n], LinksTo(tr, S, n))
<1>1. PICK bnd : Ordered(tr, S, N, pos, bnd)
  BY DEF Good
<1>2. /\ Nil \notin S /\ (tr.parent[n] = Nil <=> n = tr.root) /\ tr.parent[n] \in S \cup {Nil}
      /\ n # tr.root => \E s \in Side : tr.child[tr.parent[n]][s] = n
      /\ \A m \in S, s \in Side : tr.child[m][s] # Nil => tr.parent[tr.child[m][s]] = m
  BY GoodTypes
<1>3. CASE n = tr.root
  <2>1. \A m \in S, s \in Side : tr.child[m][s] # n
    BY <1>2, <1>3
  <2>2. LinksTo(tr, S, n) = {}
    BY <2>1 DEF LinksTo
  <2>. QED
    BY <1>3, <2>2 DEF Placed
<1>4. CASE n # tr.root
  <2>1. PICK y \in Side : tr.child[tr.parent[n]][y] = n
    BY <1>2, <1>4
  <2>2. tr.parent[n] \in S
    BY <1>2, <1>4
  <2>3. n # tr.child[tr.parent[n]][1 - y]
    BY <1>1, <1>2, <2>1, <2>2, Kin
  <2>4. \A s \in Side : s = y \/ s = 1 - y
    BY Sides
  <2>5. ASSUME NEW m \in S, NEW s \in Side
        PROVE  tr.child[m][s] = n <=> m = tr.parent[n] /\ s = y
    <3>1. tr.child[m][s] = n => m = tr.parent[n]
      BY <1>2
    <3>. QED
      BY <2>1, <2>3, <2>4, <3>1
  <2>6. LinksTo(tr, S, n) = {<<tr.parent[n], y>>}
    BY <2>2, <2>5 DEF LinksTo
  <2>. QED
    BY <2>1, <2>2, <2>6 DEF Placed
<1>. QED
  BY <1>3, <1>4

(* The loop goes on: a black node is missing below the parent.              *)
LEMMA MendingIs ==
  ASSUME TreeInvariant, Mending
  PROVE  LET S == contents \ {job.subject}
         IN /\ TreeMending
            /\ \E pos, y : /\ MendAt(t, S, size - 1, pos, job.parent, y) /\ Sorted(S, pos)
                           /\ MendSide = 1 - y
<1>. DEFINE S == contents \ {job.subject}
            node == job.node
            p == job.parent
<1>1. TreeMending /\ node \notin t.red /\ node # t.root
  BY DEF TreeInvariant, Mending, Red, TreeIdle, TreeInserting, TreeRemoved
<1>2. PICK X : Placed(t, S, node, p, X) /\ Sound(t, S, size - 1, X, {node}, {node})
  BY <1>1 DEF TreeMending
<1>3. PICK pos : Good(t, S, size - 1, pos, X, {node}, {node}) /\ Sorted(S, pos)
  BY <1>2 DEF Sound
<1>. HIDE DEF S, node, p
<1>4. p \in S /\ \E y \in Side : t.child[p][y] = node /\ X = {<<p, y>>}
  BY <1>1, <1>2 DEF Placed
<1>5. PICK y \in Side : t.child[p][y] = node /\ X = {<<p, y>>}
  BY <1>4
<1>6. RedOK(t, S, {node}, {node})
  BY <1>3 DEF Good
<1>7. ASSUME NEW m \in S, NEW s \in Side PROVE ~(m \in t.red /\ t.child[m][s] \in t.red)
  BY <1>1, <1>6 DEF RedOK, LinkOK
<1>8. t.root \notin t.red
  BY <1>1, <1>6 DEF RedOK
<1>9. Good(t, S, size - 1, pos, {<<p, y>>}, {}, {})
  BY <1>3, <1>5, <1>7, <1>8 DEF Good, RedOK, LinkOK
<1>10. MendAt(t, S, size - 1, pos, p, y)
  BY <1>1, <1>4, <1>5, <1>9 DEF MendAt
<1>11. Across(t, node, p) = 1 - y
  <2>1. t.child[p][1 - y] \in S /\ 1 - y \in Side /\ 1 - (1 - y) = y
    BY <1>10, SiblingIs, Sides
  <2>2. Nil \notin S
    BY <1>3, GoodTypes
  <2>3. PICK bnd : Ordered(t, S, size - 1, pos, bnd)
    BY <1>9 DEF Good
  <2>4. t.child[p][1 - y] # t.child[p][1 - (1 - y)]
    BY <1>4, <2>1, <2>2, <2>3, Kin
  <2>5. t.child[p][1 - y] # node
    BY <1>5, <2>1, <2>4
  <2>6. y = LEFT \/ y = RIGHT
    BY DEF Side
  <2>7. 1 - LEFT = RIGHT /\ 1 - RIGHT = LEFT
    BY DEF LEFT, RIGHT
  <2>. QED
    BY <1>5, <2>5, <2>6, <2>7 DEF Across
<1>. QED
  BY <1>1, <1>3, <1>10, <1>11 DEF MendSide, S, node, p

LEMMA MendUpKeeps ==
  ASSUME KeyAssumption, TreeInvariant, MendUp
  PROVE  TreeInvariant'
<1>. DEFINE S == contents \ {job.subject}
            p == job.parent
            sib == Sibling
            R == SetRed(Lifted, sib)
            next == Lifted.parent[p]
<1>1. TreeMending /\ \E pos, y : MendAt(t, S, size - 1, pos, p, y) /\ Sorted(S, pos) /\ MendSide = 1 - y
  BY MendingIs DEF MendUp
<1>2. PICK pos, y : MendAt(t, S, size - 1, pos, p, y) /\ Sorted(S, pos) /\ MendSide = 1 - y
  BY <1>1
<1>3. Lifted = Lift(t, p, 1 - y) /\ sib = Lifted.child[p][1 - y]
  BY <1>2 DEF Lifted, Sibling
<1>4. /\ ~RedBelow(Lifted, sib) /\ t' = R /\ job' = [job EXCEPT !.node = p, !.parent = next]
      /\ UNCHANGED <<size, contents>>
  BY DEF MendUp
<1>5. job.subject \in contents /\ Loose(t, contents)
  BY <1>1 DEF TreeMending
<1>. HIDE DEF S, p, sib
<1>6. MendAt(Lifted, S, size - 1, pos, p, y) /\ SameBut(S, t, Lifted) /\ Lifted.child[p][1 - y] \in S \ Lifted.red
  BY <1>2, <1>3, LiftIsGood
<1>7. /\ Good(R, S, size - 1, pos, LinksTo(Lifted, S, p), {p}, {p})
      /\ Repainted(Lifted, R) /\ SameBut(S, Lifted, R)
  <2>1. ~RedBelow(Lifted, Lifted.child[p][1 - y]) /\ R = SetRed(Lifted, Lifted.child[p][1 - y])
    BY <1>3, <1>4
  <2>. HIDE DEF R
  <2>. QED
    BY <1>6, <2>1, MendUpIsGood
<1>8. p \in S /\ Good(Lifted, S, size - 1, pos, {<<p, y>>}, {}, {})
  BY <1>6 DEF MendAt
<1>9. Placed(R, S, p, next, LinksTo(Lifted, S, p))
  <2>1. Placed(Lifted, S, p, next, LinksTo(Lifted, S, p))
    BY <1>8, NodesArePlaced
  <2>. QED
    BY <1>7, <2>1 DEF Placed, Repainted
<1>10. next \in Links /\ p \in Links
  BY <1>8, GoodTypes DEF Links
<1>11. R \in Trees
  BY <1>7, GoodTypes
<1>12. Loose(R, contents)
  <2>1. SameBut(S, t, R)
    BY <1>6, <1>7, SameButTransits
  <2>2. SameBut(contents, t, R)
    BY <2>1 DEF SameBut, S
  <2>. QED
    BY <1>5, <2>2, LooseKeeps
<1>13. Sound(R, S, size - 1, LinksTo(Lifted, S, p), {p}, {p})
  BY <1>2, <1>7 DEF Sound
<1>. HIDE DEF R, next
<1>14. /\ job' \in [op : {"idle", "insert", "mend", "removed"}, node : Links, parent : Links, subject : Links]
       /\ job'.op = "mend" /\ job'.subject = job.subject /\ job'.node = p /\ job'.parent = next
  <2>1. job.op = "mend"
    BY <1>1 DEF TreeMending
  <2>. QED
    BY <1>4, <1>10, <2>1 DEF TreeInvariant
<1>15. TreeMending'
  BY <1>4, <1>5, <1>8, <1>9, <1>12, <1>13, <1>14 DEF TreeMending, S
<1>. QED
  BY <1>4, <1>11, <1>14, <1>15 DEF TreeInvariant

LEMMA MendOverKeeps ==
  ASSUME KeyAssumption, TreeInvariant, MendOver
  PROVE  TreeInvariant'
<1>. DEFINE S == contents \ {job.subject}
            p == job.parent
            sib == Sibling
            Q == TurnOut(Lifted, sib, MendSide)
            R == Settle(Q, p, MendSide)
<1>1. TreeMending /\ \E pos, y : MendAt(t, S, size - 1, pos, p, y) /\ Sorted(S, pos) /\ MendSide = 1 - y
  BY MendingIs DEF MendOver
<1>2. PICK pos, y : MendAt(t, S, size - 1, pos, p, y) /\ Sorted(S, pos) /\ MendSide = 1 - y
  BY <1>1
<1>3. Lifted = Lift(t, p, 1 - y) /\ sib = Lifted.child[p][1 - y]
  BY <1>2 DEF Lifted, Sibling
<1>4. /\ RedBelow(Lifted, sib) /\ t' = R /\ job' = [job EXCEPT !.node = t'.root]
      /\ UNCHANGED <<size, contents>>
  BY DEF MendOver
<1>5. job.subject \in contents /\ Loose(t, contents)
  BY <1>1 DEF TreeMending
<1>. HIDE DEF S, p, sib
<1>6. MendAt(Lifted, S, size - 1, pos, p, y) /\ SameBut(S, t, Lifted) /\ Lifted.child[p][1 - y] \in S \ Lifted.red
  BY <1>2, <1>3, LiftIsGood
<1>7. /\ MendAt(Q, S, size - 1, pos, p, y) /\ SameBut(S, Lifted, Q)
      /\ Q.child[p][1 - y] \in S \ Q.red /\ Q.child[Q.child[p][1 - y]][1 - y] \in Q.red
  <2>1. /\ Q = TurnOut(Lifted, Lifted.child[p][1 - y], 1 - y)
        /\ RedBelow(Lifted, Lifted.child[p][1 - y]) /\ Lifted.child[p][1 - y] \notin Lifted.red
    BY <1>2, <1>3, <1>4, <1>6
  <2>. HIDE DEF Q
  <2>. QED
    BY <1>6, <2>1, TurnOutIsGood
<1>. HIDE DEF Q
<1>8. Good(R, S, size - 1, pos, {}, {}, {}) /\ SameBut(S, Q, R)
  BY <1>2, <1>7, SettleIsGood
<1>. HIDE DEF R
<1>9. Good(R, S, size - 1, pos, {}, {R.root}, {R.root})
  BY <1>8, GoodWidens
<1>10. /\ R \in Trees /\ R.root \in S \cup {Nil} /\ S \subseteq Nodes
  BY <1>8, GoodTypes
<1>11. Loose(R, contents)
  <2>1. SameBut(S, t, Q)
    BY <1>6, <1>7, SameButTransits
  <2>2. SameBut(S, t, R)
    BY <1>8, <2>1, SameButTransits
  <2>3. SameBut(contents, t, R)
    BY <2>2 DEF SameBut, S
  <2>. QED
    BY <1>5, <2>3, LooseKeeps
<1>12. Sound(R, S, size - 1, {}, {R.root}, {R.root}) /\ Placed(R, S, R.root, p, {})
  BY <1>2, <1>9 DEF Sound, Placed
<1>13. /\ job' \in [op : {"idle", "insert", "mend", "removed"}, node : Links, parent : Links, subject : Links]
       /\ job'.op = "mend" /\ job'.subject = job.subject /\ job'.node = R.root /\ job'.parent = p
  <2>1. job.op = "mend"
    BY <1>1 DEF TreeMending
  <2>2. R.root \in Links
    BY <1>10 DEF Links
  <2>. QED
    BY <1>4, <2>1, <2>2 DEF TreeInvariant, p
<1>14. TreeMending'
  BY <1>4, <1>5, <1>10, <1>11, <1>12, <1>13 DEF TreeMending, S
<1>. QED
  BY <1>4, <1>10, <1>13, <1>14 DEF TreeInvariant

(* A tree of the nodes S is no more than their links and colours, and the   *)
(* root.                                                                    *)
Alike(tr, R, S) ==
  /\ R \in Trees /\ R.root = tr.root
  /\ \A n \in S : /\ R.parent[n] = tr.parent[n] /\ (n \in R.red <=> n \in tr.red)
                  /\ \A s \in Side : R.child[n][s] = tr.child[n][s]
  /\ Nil \notin R.red /\ Nil \notin tr.red

LEMMA AlikeIsGood ==
  ASSUME NEW tr, NEW R, NEW S, NEW N, NEW pos, Good(tr, S, N, pos, {}, {}, {}), Alike(tr, R, S)
  PROVE  Good(R, S, N, pos, {}, {}, {})
<1>1. PICK bnd : Ordered(tr, S, N, pos, bnd)
  BY DEF Good
<1>2. PICK h : Even(tr, S, h, {})
  BY DEF Good
<1>3. /\ R \in Trees /\ R.root = tr.root
      /\ \A n \in S : R.parent[n] = tr.parent[n] /\ (n \in R.red <=> n \in tr.red)
      /\ \A n \in S, s \in Side : R.child[n][s] = tr.child[n][s]
      /\ Nil \notin R.red /\ Nil \notin tr.red
  BY DEF Alike
<1>4. Linked(tr, S) /\ Numbered(S, N, pos) /\ Bounded(tr, S, N, pos, bnd) /\ Threaded(tr, S, pos)
  BY <1>1 DEF Ordered
<1>5. Linked(R, S)
  <2>1. /\ S \subseteq Nodes /\ Nil \notin Nodes
        /\ R.root \in S \cup {Nil} /\ (R.root = Nil <=> S = {})
        /\ \A n \in S : R.parent[n] \in S \cup {Nil}
        /\ \A n \in S : R.parent[n] = Nil <=> n = R.root
    BY <1>3, <1>4 DEF Linked
  <2>2. ASSUME NEW n \in S, n # R.root PROVE \E s \in Side : R.child[R.parent[n]][s] = n
    <3>1. tr.parent[n] \in S /\ \E s \in Side : tr.child[tr.parent[n]][s] = n
      BY <1>3, <1>4, <2>2 DEF Linked
    <3>. QED
      BY <1>3, <3>1
  <2>3. ASSUME NEW n \in S, NEW s \in Side, R.child[n][s] # Nil
        PROVE  R.child[n][s] \in S /\ R.parent[R.child[n][s]] = n
    <3>1. tr.child[n][s] \in S /\ tr.parent[tr.child[n][s]] = n
      BY <1>3, <1>4, <2>3 DEF Linked
    <3>. QED
      BY <1>3, <3>1
  <2>. QED
    BY <1>3, <2>1, <2>2, <2>3 DEF Linked
<1>6. Bounded(R, S, N, pos, bnd)
  BY <1>3, <1>4 DEF Bounded
<1>7. Threaded(R, S, pos)
  BY <1>3, <1>4 DEF Threaded, Side
<1>8. \E b : Ordered(R, S, N, pos, b)
  BY <1>4, <1>5, <1>6, <1>7 DEF Ordered
<1>9. Even(R, S, h, {})
  <2>1. ASSUME NEW n \in S, NEW s \in Side PROVE h[n] = Blacks(R, n) + h[R.child[n][s]] + 0
    <3>1. Blacks(R, n) = Blacks(tr, n) /\ R.child[n][s] = tr.child[n][s]
      BY <1>3 DEF Blacks
    <3>2. h[n] = Blacks(tr, n) + h[tr.child[n][s]] + 0
      BY <1>2 DEF Even, Fits
    <3>. QED
      BY <3>1, <3>2
  <2>2. \A n \in S : Fits(R, h, n, {})
    BY <2>1 DEF Fits
  <2>. QED
    BY <1>2, <2>2 DEF Even
<1>10. RedOK(R, S, {}, {})
  <2>1. /\ tr.root \notin tr.red
        /\ \A n \in S, s \in Side : ~(n \in tr.red /\ tr.child[n][s] \in tr.red)
    BY DEF Good, RedOK, LinkOK
  <2>2. \A m \in S \cup {Nil} : m \in R.red <=> m \in tr.red
    BY <1>3
  <2>3. R.root \in S \cup {Nil} /\ \A n \in S, s \in Side : R.child[n][s] \in S \cup {Nil}
    BY <1>5 DEF Linked
  <2>. QED
    BY <1>3, <2>1, <2>2, <2>3 DEF RedOK, LinkOK
<1>. QED
  BY <1>8, <1>9, <1>10 DEF Good

(* The black node missing at the end of the loop is made up for.            *)
LEMMA MendedIsGood ==
  ASSUME TreeInvariant, job.op = "mend", ~Mending
  PROVE  LET S == contents \ {job.subject}
             R == SetBlack(t, {job.node})
         IN /\ job.subject \in contents /\ Loose(t, contents) /\ job.node \in S \cup {Nil}
            /\ Sound(R, S, size - 1, {}, {}, {})
            /\ Repainted(t, R) /\ R.red = t.red \ {job.node}
<1>. DEFINE S == contents \ {job.subject}
            node == job.node
            R == SetBlack(t, {node})
<1>1. TreeMending /\ (node \in t.red \/ node = t.root)
  BY DEF TreeInvariant, Mending, Red, TreeIdle, TreeInserting, TreeRemoved
<1>2. PICK X : Placed(t, S, node, job.parent, X) /\ Sound(t, S, size - 1, X, {node}, {node})
  BY <1>1 DEF TreeMending
<1>3. PICK pos : Good(t, S, size - 1, pos, X, {node}, {node}) /\ Sorted(S, pos)
  BY <1>2 DEF Sound
<1>4. node \in S \cup {Nil} /\ job.subject \in contents /\ Loose(t, contents)
  BY <1>1 DEF TreeMending
<1>. HIDE DEF S, node
<1>5. PICK bnd : Ordered(t, S, size - 1, pos, bnd)
  BY <1>3 DEF Good
<1>6. /\ t.red \subseteq Nodes /\ Nil \notin Nodes /\ Nil \notin S
      /\ \A m \in S : t.parent[m] \in S \cup {Nil} /\ (t.parent[m] = Nil <=> m = t.root)
      /\ \A m \in S, s \in Side : t.child[m][s] # Nil => t.parent[t.child[m][s]] = m
      /\ t.root = Nil => S = {}
  BY <1>3, GoodTypes DEF Trees
<1>7. OnlyRed(t, S, X, node)
  <2>1. CASE node = t.root /\ X = {}
    BY <1>4, <1>6, <2>1 DEF OnlyRed
  <2>2. CASE ~(node = t.root /\ X = {})
    <3>1. PICK p \in S, y \in Side : p = job.parent /\ t.child[p][y] = node /\ X = {<<p, y>>}
      BY <1>2, <2>2 DEF Placed
    <3>2. node \in t.red /\ node # Nil
      BY <1>1, <1>4, <1>6, <3>1
    <3>3. t.child[p][1 - y] # node
      BY <1>5, <3>1, <3>2, Kin
    <3>4. ASSUME NEW m \in S, NEW s \in Side PROVE t.child[m][s] = node <=> m = p /\ s = y
      <4>1. t.child[m][s] = node => m = p
        BY <1>6, <3>1, <3>2
      <4>2. s = y \/ s = 1 - y
        BY Sides
      <4>. QED
        BY <3>1, <3>3, <4>1, <4>2
    <3>. QED
      BY <3>1, <3>2, <3>4 DEF OnlyRed
  <2>. QED
    BY <2>1, <2>2
<1>8. Blackened(t, R, S, size - 1, pos, node)
  BY <1>3, <1>4, <1>7, BlackenedIsGood
<1>. QED
  BY <1>3, <1>4, <1>8 DEF Blackened, Sound, S, node

LEMMA RemoveDoneKeeps ==
  ASSUME KeyAssumption, TreeInvariant, RemoveDone
  PROVE  TreeInvariant'
<1>. DEFINE n == job.subject
            S == contents \ {n}
            mended == IF job.op = "mend" THEN SetBlack(t, {job.node}) ELSE t
            bare == SetBlack(mended, {n})
            R == [bare EXCEPT !.child[n] = EmptyTree.child[n], !.parent[n] = Nil]
<1>1. /\ job.op \in {"mend", "removed"} /\ ~Mending /\ t' = R
      /\ size' = size - 1 /\ contents' = S /\ job' = Idle
  BY DEF RemoveDone
<1>2. /\ n \in contents /\ Loose(t, contents) /\ Sound(mended, S, size - 1, {}, {}, {})
      /\ Repainted(t, mended) /\ mended.red \subseteq t.red /\ SameBut(contents, t, mended)
  <2>1. CASE job.op = "mend"
    <3>1. /\ n \in contents /\ Loose(t, contents) /\ job.node \in S \cup {Nil}
          /\ Sound(SetBlack(t, {job.node}), S, size - 1, {}, {}, {})
          /\ Repainted(t, SetBlack(t, {job.node})) /\ SetBlack(t, {job.node}).red = t.red \ {job.node}
      BY <1>1, <2>1, MendedIsGood
    <3>2. Nil \notin Nodes
      BY DEF KeyAssumption
    <3>. QED
      BY <2>1, <3>1, <3>2 DEF SameBut, Repainted
  <2>2. CASE job.op = "removed"
    <3>1. n \in contents /\ Loose(t, contents) /\ Sound(t, S, size - 1, {}, {}, {})
      BY <2>2 DEF TreeInvariant, TreeIdle, TreeInserting, TreeMending, TreeRemoved
    <3>2. mended = t /\ t \in Trees
      BY <2>2 DEF TreeInvariant
    <3>. QED
      BY <3>1, <3>2 DEF SameBut, Repainted
  <2>. QED
    BY <1>1, <2>1, <2>2
<1>. HIDE DEF mended, n
<1>3. PICK pos : Good(mended, S, size - 1, pos, {}, {}, {}) /\ Sorted(S, pos)
  BY <1>2 DEF Sound
<1>4. mended \in Trees /\ Nil \notin Nodes /\ contents \subseteq Nodes /\ IsFiniteSet(contents) /\ size = Cardinality(contents)
  BY <1>3, GoodTypes DEF TreeInvariant
<1>5. Repainted(mended, bare) /\ bare.red = mended.red \ {n}
  BY <1>4, PaintIs
<1>. HIDE DEF bare
<1>6. /\ R \in Trees /\ R.root = bare.root /\ R.red = bare.red
      /\ \A m \in Nodes : R.parent[m] = IF m = n THEN Nil ELSE bare.parent[m]
      /\ \A m \in Nodes, s \in Side : R.child[m][s] = IF m = n THEN Nil ELSE bare.child[m][s]
  <2>. DEFINE cs == [bare.child EXCEPT ![n] = EmptyTree.child[n]]
              ps == [bare.parent EXCEPT ![n] = Nil]
  <2>1. bare \in Trees
    BY <1>5 DEF Repainted
  <2>2. n \in Nodes
    BY <1>2, <1>4
  <2>3. EmptyTree.child[n] \in [Side -> Links] /\ \A s \in Side : EmptyTree.child[n][s] = Nil
    BY <2>2 DEF EmptyTree, Side, Links
  <2>4. bare.child \in [Nodes -> [Side -> Links]] /\ bare.parent \in [Nodes -> Links] /\ Nil \in Links
    BY <2>1 DEF Trees, Links
  <2>5. /\ cs \in [Nodes -> [Side -> Links]] /\ ps \in [Nodes -> Links]
        /\ \A m \in Nodes : ps[m] = IF m = n THEN Nil ELSE bare.parent[m]
        /\ \A m \in Nodes, s \in Side : cs[m][s] = IF m = n THEN Nil ELSE bare.child[m][s]
    <3>1. \A m \in Nodes : cs[m] = IF m = n THEN EmptyTree.child[n] ELSE bare.child[m]
      BY <2>4
    <3>. QED
      BY <2>2, <2>3, <2>4, <3>1
  <2>6. R = [bare EXCEPT !.child = cs, !.parent = ps]
    BY <2>1 DEF Trees
  <2>. HIDE DEF cs, ps, R
  <2>7. R \in Trees /\ R.root = bare.root /\ R.red = bare.red /\ R.child = cs /\ R.parent = ps
    BY <2>1, <2>5, <2>6 DEF Trees
  <2>. QED
    BY <2>5, <2>7
<1>. HIDE DEF R
<1>7. Alike(mended, R, S)
  BY <1>2, <1>4, <1>5, <1>6 DEF Alike, Repainted, Trees
<1>8. Good(R, S, size - 1, pos, {}, {}, {})
  BY <1>3, <1>7, AlikeIsGood
<1>9. Loose(R, S)
  BY <1>2, <1>4, <1>5, <1>6 DEF Loose, SameBut, Repainted
<1>10. TreeIdle'
  BY <1>1, <1>3, <1>8, <1>9 DEF TreeIdle, Sound, Idle
<1>11. contents' \in SUBSET Nodes /\ IsFiniteSet(contents') /\ size' = Cardinality(contents')
  <2>1. IsFiniteSet(S) /\ Cardinality(S) = size - 1
    BY <1>2, <1>4, FS_RemoveElement
  <2>. QED
    BY <1>1, <1>4, <2>1
<1>. QED
  BY <1>1, <1>6, <1>10, <1>11 DEF TreeInvariant, Idle, Links

-------------------------------------------------------------------------------
(***************************************************************************)
(* What is read from a tree between two operations.                        *)
(***************************************************************************)

(* how far down a node is, at least                                         *)
Depths(S, N, bnd) == [n \in Nodes |-> N + 1 - Widths(S, bnd)[n]]

LEMMA DepthsAre ==
  ASSUME NEW tr, NEW S, NEW N, NEW pos, NEW bnd, Ordered(tr, S, N, pos, bnd)
  PROVE  /\ Depths(S, N, bnd) \in [Nodes -> Nat]
         /\ \A n \in S : tr.parent[n] # Nil =>
              /\ tr.parent[n] \in S
              /\ \E s \in Side : tr.child[tr.parent[n]][s] = n
              /\ Depths(S, N, bnd)[tr.parent[n]] < Depths(S, N, bnd)[n]
<1>. DEFINE W == Widths(S, bnd)
<1>1. /\ W \in [Nodes -> Nat] /\ \A n \in Nodes : W[n] <= N + 1
      /\ \A n \in S, s \in Side : tr.child[n][s] # Nil => W[tr.child[n][s]] < W[n]
  BY WidthsAre
<1>2. /\ N \in Nat /\ S \subseteq Nodes /\ Nil \notin S
      /\ \A n \in S : tr.parent[n] \in S \cup {Nil} /\ (tr.parent[n] = Nil <=> n = tr.root)
      /\ \A n \in S : n # tr.root => \E s \in Side : tr.child[tr.parent[n]][s] = n
  BY LinkTypes DEF Ordered, Linked, Numbered
<1>. HIDE DEF W
<1>3. \A n \in Nodes : Depths(S, N, bnd)[n] = N + 1 - W[n] /\ N + 1 - W[n] \in Nat
  BY <1>1, <1>2 DEF Depths, W
<1>4. Depths(S, N, bnd) \in [Nodes -> Nat]
  <2>1. Depths(S, N, bnd) = [n \in Nodes |-> Depths(S, N, bnd)[n]]
    BY DEF Depths
  <2>. QED
    BY <1>3, <2>1
<1>5. ASSUME NEW n \in S, tr.parent[n] # Nil
      PROVE  /\ tr.parent[n] \in S /\ \E s \in Side : tr.child[tr.parent[n]][s] = n
             /\ Depths(S, N, bnd)[tr.parent[n]] < Depths(S, N, bnd)[n]
  <2>1. tr.parent[n] \in S /\ \E s \in Side : tr.child[tr.parent[n]][s] = n
    BY <1>2, <1>5
  <2>2. n # Nil /\ n \in Nodes /\ tr.parent[n] \in Nodes
    BY <1>2, <2>1
  <2>3. W[n] < W[tr.parent[n]] /\ W[n] \in Nat /\ W[tr.parent[n]] \in Nat
    BY <1>1, <2>1, <2>2
  <2>4. /\ Depths(S, N, bnd)[n] = N + 1 - W[n]
        /\ Depths(S, N, bnd)[tr.parent[n]] = N + 1 - W[tr.parent[n]]
    BY <1>3, <2>2
  <2>. QED
    BY <1>2, <2>1, <2>3, <2>4
<1>. QED
  BY <1>4, <1>5

(* As many black nodes are above a node as its black height says.           *)
LEMMA BlacksAboveIs ==
  ASSUME NEW pos, NEW bnd, NEW h, Ordered(t, contents, size, pos, bnd),
         Even(t, contents, h, {}), Loose(t, contents), NEW n \in contents
  PROVE  BlacksAbove[n] = h[t.root] - h[n] + Blacks(t, n)
<1>. DEFINE S == contents
            Eq(f) == f = [x \in Nodes \cup {Nil} |->
                            IF x = Nil THEN 0 ELSE (IF Red(t, x) THEN 0 ELSE 1) + f[t.parent[x]]]
            From == CHOOSE f : Eq(f)
            g == [x \in Nodes \cup {Nil} |-> IF x \in S THEN h[t.root] - h[x] + Blacks(t, x)
                                             ELSE IF x = Nil THEN 0 ELSE Blacks(t, x)]
            Bad == {x \in S : From[x] # g[x]}
            P == Depths(S, size, bnd)
<1>1. /\ S \subseteq Nodes /\ Nil \notin Nodes /\ Nil \notin S /\ t.root \in S \cup {Nil}
      /\ \A x \in S : t.parent[x] \in S \cup {Nil} /\ (t.parent[x] = Nil <=> x = t.root)
      /\ \A x \in S, s \in Side : t.child[x][s] \in S \cup {Nil}
  BY LinkTypes DEF Ordered, Linked
<1>2. /\ P \in [Nodes -> Nat]
      /\ \A x \in S : t.parent[x] # Nil =>
           /\ t.parent[x] \in S /\ \E s \in Side : t.child[t.parent[x]][s] = x
           /\ P[t.parent[x]] < P[x]
  BY DepthsAre
<1>3. /\ h \in [Links -> Nat] /\ h[Nil] = 0
      /\ \A x \in S, s \in Side : h[x] = Blacks(t, x) + h[t.child[x][s]] + 0
  BY DEF Even, Fits
<1>4. \A x \in S \cup {Nil} : h[x] \in Nat
  BY <1>1, <1>3 DEF Links
<1>5. \A x : Blacks(t, x) \in Nat /\ Blacks(t, x) = IF Red(t, x) THEN 0 ELSE 1
  BY DEF Blacks, Red
<1>. HIDE DEF P, S
<1>6. ASSUME NEW x \in Nodes
      PROVE  g[x] = Blacks(t, x) + g[t.parent[x]] /\ g[Nil] = 0
  <2>0. g[Nil] = 0
    BY <1>1
  <2>1. CASE x \notin S
    <3>1. t.parent[x] = Nil
      BY <2>1 DEF Loose, S
    <3>2. g[x] = Blacks(t, x)
      BY <1>1, <2>1
    <3>. QED
      BY <1>5, <2>0, <3>1, <3>2
  <2>2. CASE x \in S /\ t.parent[x] = Nil
    <3>1. g[x] = h[t.root] - h[x] + Blacks(t, x) /\ x = t.root
      BY <1>1, <2>2
    <3>2. h[x] \in Nat /\ Blacks(t, x) \in Nat
      BY <1>4, <1>5, <2>2
    <3>. QED
      BY <2>0, <2>2, <3>1, <3>2
  <2>3. CASE x \in S /\ t.parent[x] # Nil
    <3>. DEFINE p == t.parent[x]
    <3>1. p \in S /\ p \in Nodes /\ h[p] = Blacks(t, p) + h[x] + 0
      BY <1>1, <1>2, <1>3, <2>3
    <3>2. g[x] = h[t.root] - h[x] + Blacks(t, x) /\ g[p] = h[t.root] - h[p] + Blacks(t, p)
      BY <1>1, <2>3, <3>1
    <3>3. /\ h[x] \in Nat /\ h[p] \in Nat /\ h[t.root] \in Nat
          /\ Blacks(t, x) \in Nat /\ Blacks(t, p) \in Nat
      BY <1>1, <1>4, <1>5, <2>3, <3>1
    <3>. HIDE DEF g, p
    <3>4. g[x] = Blacks(t, x) + g[p]
      BY <3>1, <3>2, <3>3
    <3>. QED
      BY <2>0, <3>4 DEF p
  <2>. QED
    BY <2>1, <2>2, <2>3
<1>7. Eq(g)
  <2>1. g = [x \in Nodes \cup {Nil} |-> g[x]]
    OBVIOUS
  <2>2. g[Nil] = 0
    BY <1>1
  <2>. HIDE DEF g
  <2>3. \A x \in Nodes \cup {Nil} :
          g[x] = IF x = Nil THEN 0 ELSE (IF Red(t, x) THEN 0 ELSE 1) + g[t.parent[x]]
    BY <1>1, <1>5, <1>6, <2>2
  <2>. QED
    BY <2>1, <2>3
<1>8. Eq(From)
  <2>. HIDE DEF Eq, g
  <2>. QED
    BY <1>7
<1>9. BlacksAbove = From
  BY DEF BlacksAbove
<1>. HIDE DEF From, g
<1>10. \A x \in Nodes : From[x] = Blacks(t, x) + From[t.parent[x]] /\ From[Nil] = 0
  BY <1>1, <1>5, <1>8
<1>11. Descends(P, Bad)
  <2>1. ASSUME NEW x \in Bad PROVE \E y \in Bad : P[y] < P[x]
    <3>1. x \in S /\ x \in Nodes /\ From[x] # g[x]
      BY <1>1
    <3>2. From[t.parent[x]] # g[t.parent[x]]
      BY <1>6, <1>10, <3>1
    <3>3. t.parent[x] # Nil
      BY <1>6, <1>10, <3>1, <3>2
    <3>. QED
      BY <1>2, <3>1, <3>2, <3>3
  <2>. QED
    BY <2>1 DEF Descends
<1>12. Bad = {}
  <2>1. P \in [Nodes -> Nat] /\ Bad \in SUBSET Nodes
    BY <1>1, <1>2
  <2>. HIDE DEF Bad
  <2>. QED
    BY <1>11, <2>1, DescentEnds
<1>. QED
  BY <1>1, <1>9, <1>12 DEF g, S

(* Between two operations, whatever they were, the tree is balanced.        *)
LEMMA SoundIsBalanced ==
  ASSUME NEW pos, Good(t, contents, size, pos, {}, {}, {}), Loose(t, contents), job.op = "idle"
  PROVE  TreeIsBalanced
<1>1. PICK bnd : Ordered(t, contents, size, pos, bnd)
  BY DEF Good
<1>2. PICK h : Even(t, contents, h, {})
  BY DEF Good
<1>3. /\ t.root \notin t.red
      /\ \A n \in contents, s \in Side : ~(n \in t.red /\ t.child[n][s] \in t.red)
  BY DEF Good, RedOK, LinkOK
<1>4. t.red \subseteq Nodes
  BY GoodTypes DEF Trees
<1>5. \A n \in t.red : Children(n) \cap t.red = {}
  <2>1. t.red \subseteq contents
    BY <1>4 DEF Loose
  <2>. QED
    BY <1>3, <2>1 DEF Children, Side
<1>6. ASSUME NEW n \in contents, HasRoom(n)
      PROVE  \E s \in Side : t.child[n][s] = Nil
  <2>1. SUFFICES ASSUME t.child[n][LEFT] # Nil, t.child[n][RIGHT] # Nil PROVE FALSE
    BY DEF Side
  <2>2. t.child[n][LEFT] # t.child[n][RIGHT]
    <3>1. LEFT \in Side /\ 1 - LEFT = RIGHT
      BY Sides DEF Side
    <3>. QED
      BY <1>1, <2>1, <3>1, Kin
  <2>3. Children(n) = {t.child[n][LEFT], t.child[n][RIGHT]}
    BY <2>1 DEF Children
  <2>4. Cardinality({t.child[n][LEFT], t.child[n][RIGHT]}) = 2
    <3>1. IsFiniteSet({t.child[n][LEFT]}) /\ Cardinality({t.child[n][LEFT]}) = 1
      BY FS_Singleton
    <3>2. Cardinality({t.child[n][LEFT]} \cup {t.child[n][RIGHT]}) = 1 + 1
      BY <2>2, <3>1, FS_AddElement
    <3>3. {t.child[n][LEFT]} \cup {t.child[n][RIGHT]} = {t.child[n][LEFT], t.child[n][RIGHT]}
      OBVIOUS
    <3>. QED
      BY <3>2, <3>3
  <2>. QED
    BY <1>6, <2>3, <2>4 DEF HasRoom
<1>7. ASSUME NEW n \in contents, HasRoom(n)
      PROVE  BlacksAbove[n] = h[t.root]
  <2>1. PICK s \in Side : t.child[n][s] = Nil
    BY <1>6, <1>7
  <2>2. h[n] = Blacks(t, n) + h[t.child[n][s]] + 0 /\ h[Nil] = 0
    BY <1>2 DEF Even, Fits
  <2>3. h[n] \in Nat /\ h[t.root] \in Nat /\ Blacks(t, n) \in Nat
    <3>1. h \in [Links -> Nat]
      BY <1>2 DEF Even
    <3>2. n \in Links /\ t.root \in Links
      BY GoodTypes DEF Links
    <3>. QED
      BY <3>1, <3>2 DEF Blacks
  <2>4. BlacksAbove[n] = h[t.root] - h[n] + Blacks(t, n)
    BY <1>1, <1>2, BlacksAboveIs
  <2>. QED
    BY <2>1, <2>2, <2>3, <2>4
<1>. QED
  BY <1>3, <1>5, <1>7 DEF TreeIsBalanced, Red

(* Stepping from a node leads to the one with the next number.              *)
LEMMA IterateIs ==
  ASSUME NEW tr, NEW S, NEW N, NEW pos, NEW bnd, Ordered(tr, S, N, pos, bnd), Loose(tr, S),
         NEW n \in S, NEW next \in Side
  PROVE  Iterate(tr, n, next) = At(S, pos, Edge(1 - next, pos[n]))
<1>. DEFINE Eq(f) == f = [x \in Nodes |-> IF tr.parent[x] = Nil THEN Nil
                                          ELSE IF x # tr.child[tr.parent[x]][next] THEN tr.parent[x]
                                          ELSE f[tr.parent[x]]]
            Up == CHOOSE f : Eq(f)
            g == [x \in Nodes |-> IF x \in S THEN At(S, pos, bnd[x][next]) ELSE Nil]
            Bad == {x \in S : Up[x] # g[x]}
            P == Depths(S, N, bnd)
            c == tr.child[n][next]
<1>1. /\ S \subseteq Nodes /\ Nil \notin Nodes /\ Nil \notin S
      /\ \A x \in S : tr.parent[x] \in S \cup {Nil} /\ (tr.parent[x] = Nil <=> x = tr.root)
      /\ \A x \in S, s \in Side : tr.child[x][s] # Nil =>
           tr.child[x][s] \in S /\ tr.parent[tr.child[x][s]] = x
  BY LinkTypes DEF Ordered, Linked
<1>2. /\ N \in Nat /\ Numbered(S, N, pos)
      /\ pos \in [Nodes -> Int] /\ bnd \in [Nodes -> [Side -> Int]]
      /\ tr.root # Nil => bnd[tr.root][LEFT] = 0 /\ bnd[tr.root][RIGHT] = N + 1
      /\ \A x \in S, s \in Side : tr.child[x][s] = Nil => Beside(s, bnd[x][s], pos[x])
      /\ \A x \in S, s \in Side : tr.child[x][s] # Nil =>
           bnd[tr.child[x][s]][s] = bnd[x][s] /\ bnd[tr.child[x][s]][1 - s] = pos[x]
  BY DEF Ordered, Numbered, Bounded
<1>3. /\ LEFT \in Side /\ RIGHT \in Side /\ LEFT # RIGHT /\ 1 - LEFT = RIGHT /\ 1 - RIGHT = LEFT
      /\ \A s \in Side : s = LEFT \/ s = RIGHT
      /\ 1 - next \in Side /\ 1 - (1 - next) = next /\ \A s \in Side : s = next \/ s = 1 - next
  BY Sides DEF Side
<1>4. /\ P \in [Nodes -> Nat]
      /\ \A x \in S : tr.parent[x] # Nil =>
           /\ tr.parent[x] \in S /\ \E s \in Side : tr.child[tr.parent[x]][s] = x
           /\ P[tr.parent[x]] < P[x]
  BY DepthsAre
<1>5. /\ \A x \in S : At(S, pos, pos[x]) = x
      /\ \A i \in Int : i \notin 1 .. N => At(S, pos, i) = Nil
  BY <1>2, AtIs
<1>. HIDE DEF P
<1>6. ASSUME NEW x \in Nodes
      PROVE  g[x] = IF tr.parent[x] = Nil THEN Nil
                    ELSE IF x # tr.child[tr.parent[x]][next] THEN tr.parent[x] ELSE g[tr.parent[x]]
  <2>. DEFINE p == tr.parent[x]
  <2>1. CASE x \notin S
    BY <2>1 DEF Loose
  <2>2. CASE x \in S /\ p = Nil
    <3>1. x = tr.root /\ tr.root # Nil
      BY <1>1, <2>2
    <3>2. bnd[x][next] = 0 \/ bnd[x][next] = N + 1
      BY <1>2, <1>3, <3>1
    <3>3. bnd[x][next] \in Int /\ bnd[x][next] \notin 1 .. N
      BY <1>2, <3>2
    <3>. QED
      BY <1>5, <2>2, <3>3
  <2>3. CASE x \in S /\ p # Nil /\ x # tr.child[p][next]
    <3>1. p \in S /\ x # Nil /\ tr.child[p][1 - next] = x
      BY <1>1, <1>3, <1>4, <2>3
    <3>2. bnd[x][next] = pos[p]
      BY <1>2, <1>3, <3>1
    <3>. QED
      BY <1>5, <2>3, <3>1, <3>2
  <2>4. CASE x \in S /\ p # Nil /\ x = tr.child[p][next]
    <3>1. p \in S /\ x # Nil /\ p \in Nodes
      BY <1>1, <1>4, <2>4
    <3>2. bnd[x][next] = bnd[p][next]
      BY <1>2, <2>4, <3>1
    <3>. QED
      BY <2>4, <3>1, <3>2
  <2>. QED
    BY <2>1, <2>2, <2>3, <2>4
<1>7. Eq(g)
  <2>1. g = [x \in Nodes |-> g[x]]
    OBVIOUS
  <2>. HIDE DEF g
  <2>. QED
    BY <1>6, <2>1
<1>8. Eq(Up)
  <2>. HIDE DEF Eq, g
  <2>. QED
    BY <1>7
<1>9. Iterate(tr, n, next) = IF c # Nil THEN Outermost(tr, c, 1 - next) ELSE Up[n]
  BY DEF Iterate
<1>. HIDE DEF Up, g
<1>10. \A x \in Nodes : Up[x] = IF tr.parent[x] = Nil THEN Nil
                                ELSE IF x # tr.child[tr.parent[x]][next] THEN tr.parent[x]
                                ELSE Up[tr.parent[x]]
  BY <1>8
<1>11. Descends(P, Bad)
  <2>1. ASSUME NEW x \in Bad PROVE \E y \in Bad : P[y] < P[x]
    <3>1. x \in S /\ x \in Nodes /\ Up[x] # g[x]
      BY <1>1
    <3>2. tr.parent[x] # Nil /\ Up[tr.parent[x]] # g[tr.parent[x]]
      BY <1>6, <1>10, <3>1
    <3>. QED
      BY <1>4, <3>1, <3>2
  <2>. QED
    BY <2>1 DEF Descends
<1>12. Bad = {}
  <2>1. P \in [Nodes -> Nat] /\ Bad \in SUBSET Nodes
    BY <1>1, <1>4
  <2>. HIDE DEF Bad
  <2>. QED
    BY <1>11, <2>1, DescentEnds
<1>13. CASE c = Nil
  <2>1. Iterate(tr, n, next) = At(S, pos, bnd[n][next])
    BY <1>1, <1>9, <1>12, <1>13 DEF g
  <2>2. Beside(next, bnd[n][next], pos[n]) /\ bnd[n][next] \in Int /\ pos[n] \in Int
    BY <1>1, <1>2, <1>13
  <2>3. bnd[n][next] = Edge(1 - next, pos[n])
    BY <1>3, <2>2 DEF Beside, Edge
  <2>. QED
    BY <2>1, <2>3
<1>14. CASE c # Nil
  <2>1. c \in S /\ bnd[c][1 - next] = pos[n]
    BY <1>1, <1>2, <1>14
  <2>2. Outermost(tr, c, 1 - next) = At(S, pos, Edge(1 - next, bnd[c][1 - next]))
    BY <1>3, <2>1, OutermostIs
  <2>. QED
    BY <1>9, <1>14, <2>1, <2>2
<1>. QED
  BY <1>13, <1>14

(* Every node is found by its key, or one that compares equal is.           *)
LEMMA FindIs ==
  ASSUME NEW tr, NEW S, NEW N, NEW pos, NEW bnd, Ordered(tr, S, N, pos, bnd), Loose(tr, S),
         Sorted(S, pos), Key \in [Nodes -> Nat], NEW n \in S
  PROVE  Find(tr, Key[n]) # Nil
<1>. DEFINE key == Key[n]
            D == Nodes \cup {Nil}
            Eq(f) == f = [x \in Nodes \cup {Nil} |->
                            IF x = Nil THEN Nil
                            ELSE IF f[Toward(tr, Key[n], x)] = Nil /\ Key[x] = Key[n] THEN x
                            ELSE f[Toward(tr, Key[n], x)]]
            From == CHOOSE f : Eq(f)
            Z == {Nil}
            e == [x \in D |-> Nil]
            c == [x \in D |-> [v \in D |-> IF v = Nil /\ Key[x] = key THEN x ELSE v]]
            next == [x \in D \ Z |-> Toward(tr, key, x)]
            Within(x) == bnd[x][LEFT] < pos[n] /\ pos[n] < bnd[x][RIGHT]
            Bad == {x \in S : Within(x) /\ From[x] = Nil}
            W == Widths(S, bnd)
            m == [x \in D |-> IF x = Nil THEN 0 ELSE W[x] + 1]
<1>1. /\ S \subseteq Nodes /\ Nil \notin Nodes /\ Nil \notin S /\ N \in Nat
      /\ tr.root \in S \cup {Nil} /\ (tr.root = Nil => S = {})
      /\ pos \in [Nodes -> Int] /\ bnd \in [Nodes -> [Side -> Int]]
      /\ tr.root # Nil => bnd[tr.root][LEFT] = 0 /\ bnd[tr.root][RIGHT] = N + 1
      /\ \A x \in S, s \in Side : tr.child[x][s] # Nil => tr.child[x][s] \in S
      /\ \A x \in S, s \in Side : tr.child[x][s] = Nil => Beside(s, bnd[x][s], pos[x])
      /\ \A x \in S, s \in Side : tr.child[x][s] # Nil =>
           bnd[tr.child[x][s]][s] = bnd[x][s] /\ bnd[tr.child[x][s]][1 - s] = pos[x]
      /\ \A x \in S : 1 <= pos[x] /\ pos[x] <= N
      /\ \A x, y \in S : pos[x] = pos[y] => x = y
  BY LinkTypes DEF Ordered, Linked, Numbered, Bounded
<1>2. /\ LEFT \in Side /\ RIGHT \in Side /\ LEFT # RIGHT /\ 1 - LEFT = RIGHT /\ 1 - RIGHT = LEFT
      /\ \A s \in Side : s = LEFT \/ s = RIGHT
  BY Sides DEF Side
<1>3. /\ W \in [Nodes -> Nat] /\ \A x \in Nodes : W[x] <= N + 1
      /\ \A x \in S, s \in Side : tr.child[x][s] # Nil => W[tr.child[x][s]] < W[x]
  BY WidthsAre
<1>4. ASSUME NEW x \in Nodes
      PROVE  \E s \in Side : /\ Toward(tr, key, x) = tr.child[x][s]
                             /\ s = LEFT <=> key <= Key[x]
  BY <1>2 DEF Toward
<1>. HIDE DEF W
<1>5. ASSUME NEW x \in Nodes
      PROVE  /\ Toward(tr, key, x) \in D
             /\ Toward(tr, key, x) # Nil => x \in S /\ Toward(tr, key, x) \in S /\ W[Toward(tr, key, x)] < W[x]
  <2>1. PICK s \in Side : Toward(tr, key, x) = tr.child[x][s]
    BY <1>4
  <2>2. Toward(tr, key, x) # Nil => x \in S
    BY <2>1 DEF Loose
  <2>. QED
    BY <1>1, <1>3, <2>1, <2>2
<1>6. \E f : Eq(f)
  <2>1. Z \in SUBSET D /\ e \in [D -> D] /\ c \in [D -> [D -> D]]
    OBVIOUS
  <2>2. next \in [D \ Z -> D]
    BY <1>1, <1>5
  <2>3. Declines(D, Z, next, m, N + 2)
    <3>1. \A x \in Nodes : W[x] \in Nat /\ W[x] <= N + 1 /\ m[x] = W[x] + 1 /\ m[Nil] = 0
      BY <1>1, <1>3
    <3>2. \A x \in D : m[x] \in Nat /\ m[x] <= N + 2
      BY <1>1, <3>1
    <3>3. m \in [D -> Nat]
      <4>1. m = [x \in D |-> m[x]]
        OBVIOUS
      <4>. QED
        BY <3>2, <4>1
    <3>4. ASSUME NEW x \in D \ Z PROVE m[next[x]] < m[x]
      <4>1. x \in Nodes /\ next[x] = Toward(tr, key, x) /\ next[x] \in D
        BY <1>5
      <4>2. CASE next[x] = Nil
        <5>1. m[next[x]] = 0 /\ m[x] = W[x] + 1 /\ W[x] \in Nat
          BY <3>1, <4>1, <4>2
        <5>. QED
          BY <5>1
      <4>3. CASE next[x] # Nil
        <5>1. next[x] \in Nodes /\ W[next[x]] < W[x]
          BY <1>5, <4>1, <4>3
        <5>2. m[next[x]] = W[next[x]] + 1 /\ m[x] = W[x] + 1 /\ W[x] \in Nat /\ W[next[x]] \in Nat
          BY <3>1, <4>1, <5>1
        <5>. QED
          BY <5>1, <5>2
      <4>. QED
        BY <4>2, <4>3
    <3>. QED
      BY <3>2, <3>3, <3>4 DEF Declines
  <2>4. N + 2 \in Nat
    BY <1>1
  <2>5. \E f : Solves(D, D, Z, e, c, next, f)
    <3>. HIDE DEF D, Z, e, c, next, m
    <3>. QED
      BY <2>1, <2>2, <2>3, <2>4, Recursion
  <2>6. PICK f : Solves(D, D, Z, e, c, next, f)
    BY <2>5
  <2>7. f \in [D -> D] /\ \A x \in D : Given(D, Z, e, c, next, f, x)
    BY <2>6 DEF Solves
  <2>8. ASSUME NEW x \in D
        PROVE  f[x] = IF x = Nil THEN Nil
                      ELSE IF f[Toward(tr, key, x)] = Nil /\ Key[x] = key THEN x
                      ELSE f[Toward(tr, key, x)]
    <3>1. f[x] = IF x \in Z THEN e[x] ELSE c[x][f[next[x]]]
      BY <2>7 DEF Given
    <3>2. CASE x \in Z
      BY <3>1, <3>2
    <3>3. CASE x \notin Z
      <4>1. x \in Nodes /\ next[x] = Toward(tr, key, x) /\ Toward(tr, key, x) \in D
        BY <1>5, <3>3
      <4>2. f[Toward(tr, key, x)] \in D
        BY <2>7, <4>1
      <4>3. c[x][f[Toward(tr, key, x)]] =
              IF f[Toward(tr, key, x)] = Nil /\ Key[x] = key THEN x ELSE f[Toward(tr, key, x)]
        BY <4>2
      <4>. QED
        BY <3>1, <3>3, <4>1, <4>3
    <3>. QED
      BY <3>2, <3>3
  <2>9. f = [x \in Nodes \cup {Nil} |->
               IF x = Nil THEN Nil
               ELSE IF f[Toward(tr, Key[n], x)] = Nil /\ Key[x] = Key[n] THEN x
               ELSE f[Toward(tr, Key[n], x)]]
    BY <2>7, <2>8
  <2>. QED
    BY <2>9
<1>7. Eq(From)
  <2>. HIDE DEF Eq
  <2>. QED
    BY <1>6
<1>8. Find(tr, Key[n]) = From[tr.root]
  BY DEF Find
<1>. HIDE DEF From
<1>9. \A x \in Nodes : From[x] = IF From[Toward(tr, key, x)] = Nil /\ Key[x] = key THEN x
                                 ELSE From[Toward(tr, key, x)]
  BY <1>1, <1>7
<1>10. Descends(W, Bad)
  <2>1. ASSUME NEW x \in Bad PROVE \E y \in Bad : W[y] < W[x]
    <3>. DEFINE y == Toward(tr, key, x)
    <3>0. x \in S /\ x \in Nodes /\ Within(x) /\ From[x] = Nil /\ x # Nil
      BY <1>1
    <3>1. From[y] = Nil /\ Key[x] # key
      BY <1>9, <3>0
    <3>2. PICK s \in Side : y = tr.child[x][s] /\ (s = LEFT <=> key <= Key[x])
      BY <1>4, <3>0
    <3>3. /\ pos[x] \in Int /\ pos[n] \in Int /\ key \in Nat /\ Key[x] \in Nat
          /\ bnd[x][LEFT] \in Int /\ bnd[x][RIGHT] \in Int
          /\ pos[x] = pos[n] => key = Key[x]
          /\ pos[x] < pos[n] => Key[x] <= key
          /\ pos[n] < pos[x] => key <= Key[x]
      BY <1>1, <1>2, <3>0 DEF Sorted
    <3>4. IF s = LEFT THEN pos[n] < pos[x] ELSE pos[x] < pos[n]
      BY <3>1, <3>2, <3>3
    <3>5. y # Nil
      <4>1. ~Beside(s, bnd[x][s], pos[x])
        <5>1. CASE s = LEFT
          BY <3>0, <3>3, <3>4, <5>1 DEF Beside
        <5>2. CASE s = RIGHT
          BY <1>2, <3>0, <3>3, <3>4, <5>2 DEF Beside
        <5>. QED
          BY <1>2, <5>1, <5>2
      <4>. QED
        BY <1>1, <3>0, <3>2, <4>1
    <3>6. y \in S /\ W[y] < W[x] /\ bnd[y][s] = bnd[x][s] /\ bnd[y][1 - s] = pos[x]
      BY <1>1, <1>5, <3>0, <3>2, <3>5
    <3>. HIDE DEF y
    <3>7. Within(y)
      <4>1. CASE s = LEFT
        BY <1>2, <3>0, <3>3, <3>4, <3>6, <4>1
      <4>2. CASE s = RIGHT
        BY <1>2, <3>0, <3>3, <3>4, <3>6, <4>2
      <4>. QED
        BY <1>2, <4>1, <4>2
    <3>. QED
      BY <3>1, <3>6, <3>7
  <2>. QED
    BY <2>1 DEF Descends
<1>11. Bad = {}
  <2>1. W \in [Nodes -> Nat] /\ Bad \in SUBSET Nodes
    BY <1>1, <1>3
  <2>. HIDE DEF Bad
  <2>. QED
    BY <1>10, <2>1, DescentEnds
<1>12. tr.root \in S /\ Within(tr.root)
  BY <1>1
<1>. QED
  BY <1>8, <1>11, <1>12

(* the nodes with the numbers between l and r, in order                     *)
Segment(S, pos, l, r) == [j \in 1 .. r - l - 1 |-> At(S, pos, l + j)]

Lists(S, pos, l, r, seq) ==
  /\ seq \in Seq(Links) /\ Len(seq) = r - l - 1
  /\ \A j \in 1 .. r - l - 1 : seq[j] = At(S, pos, l + j)

LEMMA SegmentIs ==
  ASSUME NEW S \in SUBSET Nodes, NEW N, NEW pos, Numbered(S, N, pos), NEW l \in Int, NEW r \in Int, l < r
  PROVE  Lists(S, pos, l, r, Segment(S, pos, l, r))
<1>1. \A i \in Int : At(S, pos, i) \in Links
  <2>1. /\ \A i \in 1 .. N : At(S, pos, i) \in S
        /\ \A i \in Int : i \notin 1 .. N => At(S, pos, i) = Nil
    BY AtIs
  <2>. QED
    BY <2>1 DEF Links
<1>2. r - l - 1 \in Nat
  OBVIOUS
<1>3. \A j \in 1 .. r - l - 1 : l + j \in Int
  OBVIOUS
<1>. DEFINE k == r - l - 1
<1>4. Segment(S, pos, l, r) \in [1 .. k -> Links]
  BY <1>1, <1>3 DEF Segment
<1>5. \A j \in 1 .. k : Segment(S, pos, l, r)[j] = At(S, pos, l + j)
  BY DEF Segment
<1>. HIDE DEF k
<1>6. Segment(S, pos, l, r) \in Seq(Links) /\ Len(Segment(S, pos, l, r)) = k
  BY <1>2, <1>4 DEF k
<1>. QED
  BY <1>5, <1>6 DEF k, Lists

Joined(S, pos, l, p, r, x) ==
  Segment(S, pos, l, p) \o <<x>> \o Segment(S, pos, p, r) = Segment(S, pos, l, r)

LEMMA SegmentsJoin ==
  ASSUME NEW S \in SUBSET Nodes, NEW N, NEW pos, Numbered(S, N, pos),
         NEW l \in Int, NEW p \in Int, NEW r \in Int, l < p, p < r, NEW x \in Links, x = At(S, pos, p)
  PROVE  Joined(S, pos, l, p, r, x)
<1>. DEFINE A == Segment(S, pos, l, p)
            B == Segment(S, pos, p, r)
            C == Segment(S, pos, l, r)
            M == A \o <<x>>
<1>1. /\ A \in Seq(Links) /\ Len(A) = p - l - 1
      /\ \A j \in 1 .. p - l - 1 : A[j] = At(S, pos, l + j)
  BY SegmentIs DEF Lists
<1>2. /\ B \in Seq(Links) /\ Len(B) = r - p - 1
      /\ \A j \in 1 .. r - p - 1 : B[j] = At(S, pos, p + j)
  <2>1. Lists(S, pos, p, r, Segment(S, pos, p, r))
    BY SegmentIs
  <2>. QED
    BY <2>1 DEF Lists
<1>3. /\ C \in Seq(Links) /\ Len(C) = r - l - 1
      /\ \A j \in 1 .. r - l - 1 : C[j] = At(S, pos, l + j)
  <2>1. l < r
    OBVIOUS
  <2>. QED
    BY <2>1, SegmentIs DEF Lists
<1>4. <<x>> \in Seq(Links) /\ Len(<<x>>) = 1 /\ <<x>>[1] = x
  OBVIOUS
<1>. HIDE DEF A, B, C
<1>5. /\ M \in Seq(Links) /\ Len(M) = p - l
      /\ \A j \in 1 .. p - l : M[j] = IF j <= p - l - 1 THEN A[j] ELSE x
  <2>1. /\ M \in Seq(Links) /\ Len(M) = Len(A) + Len(<<x>>)
        /\ \A j \in 1 .. Len(A) + Len(<<x>>) : M[j] = IF j <= Len(A) THEN A[j] ELSE <<x>>[j - Len(A)]
    BY <1>1, <1>4, ConcatProperties
  <2>2. Len(M) = p - l
    BY <1>1, <1>4, <2>1
  <2>3. ASSUME NEW j \in 1 .. p - l PROVE M[j] = IF j <= p - l - 1 THEN A[j] ELSE x
    <3>1. M[j] = IF j <= Len(A) THEN A[j] ELSE <<x>>[j - Len(A)]
      BY <1>1, <1>4, <2>1
    <3>2. ~(j <= p - l - 1) => j - Len(A) = 1
      BY <1>1
    <3>. QED
      BY <1>1, <1>4, <3>1, <3>2
  <2>. QED
    BY <2>1, <2>2, <2>3
<1>. HIDE DEF M
<1>6. /\ M \o B \in Seq(Links) /\ Len(M \o B) = r - l - 1
      /\ \A j \in 1 .. r - l - 1 : (M \o B)[j] = IF j <= p - l THEN M[j] ELSE B[j - (p - l)]
  <2>1. /\ M \o B \in Seq(Links) /\ Len(M \o B) = Len(M) + Len(B)
        /\ \A j \in 1 .. Len(M) + Len(B) : (M \o B)[j] = IF j <= Len(M) THEN M[j] ELSE B[j - Len(M)]
    BY <1>2, <1>5, ConcatProperties
  <2>2. Len(M) + Len(B) = r - l - 1
    BY <1>2, <1>5
  <2>. QED
    BY <1>5, <2>1, <2>2
<1>7. ASSUME NEW j \in 1 .. r - l - 1 PROVE (M \o B)[j] = C[j]
  <2>0. C[j] = At(S, pos, l + j)
    BY <1>3
  <2>1. CASE j <= p - l - 1
    <3>1. j \in 1 .. p - l /\ j \in 1 .. p - l - 1 /\ j <= p - l
      BY <2>1
    <3>. QED
      BY <1>1, <1>5, <1>6, <2>0, <2>1, <3>1
  <2>2. CASE j = p - l
    <3>1. j \in 1 .. p - l /\ ~(j <= p - l - 1) /\ l + j = p /\ j <= p - l
      BY <2>2
    <3>. QED
      BY <1>5, <1>6, <2>0, <3>1
  <2>3. CASE j > p - l
    <3>1. j - (p - l) \in 1 .. r - p - 1 /\ ~(j <= p - l) /\ p + (j - (p - l)) = l + j
      BY <2>3
    <3>2. (M \o B)[j] = B[j - (p - l)]
      BY <1>6, <3>1
    <3>3. B[j - (p - l)] = At(S, pos, p + (j - (p - l)))
      BY <1>2, <3>1
    <3>. QED
      BY <2>0, <3>1, <3>2, <3>3
  <2>4. j <= p - l - 1 \/ j = p - l \/ j > p - l
    OBVIOUS
  <2>. QED
    BY <2>1, <2>2, <2>3, <2>4
<1>8. M \o B = C
  BY <1>3, <1>6, <1>7, SeqEqual
<1>. QED
  BY <1>8 DEF A, B, C, M, Joined

(* The nodes in order are those of the numbers 1 to size.                   *)
LEMMA InOrderIs ==
  ASSUME NEW pos, NEW bnd, Ordered(t, contents, size, pos, bnd), Loose(t, contents)
  PROVE  InOrder = Segment(contents, pos, 0, size + 1)
<1>. DEFINE S == contents
            Eq(f) == f = [x \in Nodes \cup {Nil} |->
                            IF x = Nil THEN <<>>
                            ELSE f[t.child[x][LEFT]] \o <<x>> \o f[t.child[x][RIGHT]]]
            From == CHOOSE f : Eq(f)
            g == [x \in Nodes \cup {Nil} |-> IF x = Nil THEN <<>>
                                             ELSE IF x \in S THEN Segment(S, pos, bnd[x][LEFT], bnd[x][RIGHT])
                                             ELSE <<x>>]
            Bad == {x \in S : From[x] # g[x]}
            W == Widths(S, bnd)
<1>1. /\ S \in SUBSET Nodes /\ Nil \notin Nodes /\ Nil \notin S /\ size \in Nat
      /\ t.root \in S \cup {Nil} /\ (t.root = Nil => S = {})
      /\ pos \in [Nodes -> Int] /\ bnd \in [Nodes -> [Side -> Int]] /\ Numbered(S, size, pos)
      /\ t.root # Nil => bnd[t.root][LEFT] = 0 /\ bnd[t.root][RIGHT] = size + 1
      /\ \A x \in S, s \in Side : t.child[x][s] # Nil => t.child[x][s] \in S
      /\ \A x \in S, s \in Side : OnSide(s, bnd[x][s], pos[x])
      /\ \A x \in S, s \in Side : t.child[x][s] = Nil => Beside(s, bnd[x][s], pos[x])
      /\ \A x \in S, s \in Side : t.child[x][s] # Nil =>
           bnd[t.child[x][s]][s] = bnd[x][s] /\ bnd[t.child[x][s]][1 - s] = pos[x]
      /\ \A i \in 1 .. size : \E n \in S : pos[n] = i
  BY LinkTypes DEF Ordered, Linked, Numbered, Bounded
<1>2. /\ LEFT \in Side /\ RIGHT \in Side /\ LEFT # RIGHT /\ 1 - LEFT = RIGHT /\ 1 - RIGHT = LEFT
      /\ \A s \in Side : s = LEFT \/ s = RIGHT
  BY Sides DEF Side
<1>3. /\ W \in [Nodes -> Nat]
      /\ \A x \in S, s \in Side : t.child[x][s] # Nil => W[t.child[x][s]] < W[x]
  BY WidthsAre
<1>4. \A x \in S : At(S, pos, pos[x]) = x
  BY <1>1, AtIs
<1>. HIDE DEF W, S
<1>5. ASSUME NEW i \in Int PROVE Segment(S, pos, i, i + 1) = <<>>
  <2>1. i + 1 \in Int /\ i < i + 1
    OBVIOUS
  <2>2. Lists(S, pos, i, i + 1, Segment(S, pos, i, i + 1))
    BY <1>1, <2>1, SegmentIs
  <2>3. Segment(S, pos, i, i + 1) \in Seq(Links) /\ Len(Segment(S, pos, i, i + 1)) = 0
    BY <2>2 DEF Lists
  <2>. QED
    BY <2>3, EmptySeq
<1>6. ASSUME NEW x \in Nodes
      PROVE  g[x] = g[t.child[x][LEFT]] \o <<x>> \o g[t.child[x][RIGHT]]
  <2>0. g[Nil] = <<>>
    OBVIOUS
  <2>1. CASE x \notin S
    <3>1. t.child[x][LEFT] = Nil /\ t.child[x][RIGHT] = Nil
      BY <1>2, <2>1 DEF Loose, S
    <3>2. g[x] = <<x>>
      BY <1>1, <2>1
    <3>3. <<x>> \in Seq(Nodes)
      OBVIOUS
    <3>4. <<>> \o <<x>> \o <<>> = <<x>>
      BY <3>3, ConcatEmptySeq
    <3>. QED
      BY <2>0, <3>1, <3>2, <3>4
  <2>2. CASE x \in S
    <3>. DEFINE l == bnd[x][LEFT]
                r == bnd[x][RIGHT]
                p == pos[x]
    <3>1. l \in Int /\ p \in Int /\ r \in Int /\ l < p /\ p < r
      <4>1. OnSide(LEFT, l, p) /\ OnSide(RIGHT, r, p)
        BY <1>1, <1>2, <2>2
      <4>2. l \in Int /\ p \in Int /\ r \in Int
        BY <1>1, <1>2
      <4>. QED
        BY <1>2, <4>1, <4>2 DEF OnSide
    <3>2. g[t.child[x][LEFT]] = Segment(S, pos, l, p)
      <4>1. CASE t.child[x][LEFT] = Nil
        <5>1. Beside(LEFT, l, p)
          BY <1>1, <1>2, <2>2, <4>1
        <5>2. p = l + 1
          BY <5>1 DEF Beside
        <5>. QED
          BY <1>5, <2>0, <3>1, <4>1, <5>2
      <4>2. CASE t.child[x][LEFT] # Nil
        <5>1. /\ t.child[x][LEFT] \in S
              /\ bnd[t.child[x][LEFT]][LEFT] = l /\ bnd[t.child[x][LEFT]][RIGHT] = p
          BY <1>1, <1>2, <2>2, <4>2
        <5>. QED
          BY <1>1, <4>2, <5>1
      <4>. QED
        BY <4>1, <4>2
    <3>3. g[t.child[x][RIGHT]] = Segment(S, pos, p, r)
      <4>1. CASE t.child[x][RIGHT] = Nil
        <5>1. Beside(RIGHT, r, p)
          BY <1>1, <1>2, <2>2, <4>1
        <5>2. r = p + 1
          BY <1>2, <5>1 DEF Beside
        <5>. QED
          BY <1>5, <2>0, <3>1, <4>1, <5>2
      <4>2. CASE t.child[x][RIGHT] # Nil
        <5>1. /\ t.child[x][RIGHT] \in S
              /\ bnd[t.child[x][RIGHT]][LEFT] = p /\ bnd[t.child[x][RIGHT]][RIGHT] = r
          BY <1>1, <1>2, <2>2, <4>2
        <5>. QED
          BY <1>1, <4>2, <5>1
      <4>. QED
        BY <4>1, <4>2
    <3>4. g[x] = Segment(S, pos, l, r)
      BY <1>1, <2>2
    <3>5. x = At(S, pos, p) /\ x \in Links
      BY <1>4, <2>2 DEF Links
    <3>. HIDE DEF l, p, r, g
    <3>6. Joined(S, pos, l, p, r, x)
      BY <1>1, <3>1, <3>5, SegmentsJoin
    <3>. QED
      BY <3>2, <3>3, <3>4, <3>6 DEF Joined
  <2>. QED
    BY <2>1, <2>2
<1>7. Eq(g)
  <2>1. g = [x \in Nodes \cup {Nil} |-> g[x]] /\ g[Nil] = <<>>
    OBVIOUS
  <2>. HIDE DEF g
  <2>2. \A x \in Nodes \cup {Nil} :
          g[x] = IF x = Nil THEN <<>> ELSE g[t.child[x][LEFT]] \o <<x>> \o g[t.child[x][RIGHT]]
    BY <1>1, <1>6, <2>1
  <2>. QED
    BY <2>1, <2>2
<1>8. Eq(From)
  <2>. HIDE DEF Eq, g
  <2>. QED
    BY <1>7
<1>9. InOrder = From[t.root]
  BY DEF InOrder
<1>10. g[Nil] = <<>> /\ \A x \in S : g[x] = Segment(S, pos, bnd[x][LEFT], bnd[x][RIGHT])
  BY <1>1
<1>. HIDE DEF From, g
<1>11. From[Nil] = <<>> /\ \A x \in Nodes :
         From[x] = From[t.child[x][LEFT]] \o <<x>> \o From[t.child[x][RIGHT]]
  BY <1>1, <1>8
<1>12. Descends(W, Bad)
  <2>1. ASSUME NEW x \in Bad PROVE \E y \in Bad : W[y] < W[x]
    <3>1. x \in S /\ x \in Nodes /\ From[x] # g[x]
      BY <1>1
    <3>2. \E s \in Side : From[t.child[x][s]] # g[t.child[x][s]]
      BY <1>2, <1>6, <1>11, <3>1
    <3>3. PICK s \in Side : From[t.child[x][s]] # g[t.child[x][s]]
      BY <3>2
    <3>4. t.child[x][s] # Nil
      BY <1>10, <1>11, <3>3
    <3>. QED
      BY <1>1, <1>3, <3>1, <3>3, <3>4
  <2>. QED
    BY <2>1 DEF Descends
<1>13. Bad = {}
  <2>1. W \in [Nodes -> Nat] /\ Bad \in SUBSET Nodes
    BY <1>1, <1>3
  <2>. HIDE DEF Bad
  <2>. QED
    BY <1>12, <2>1, DescentEnds
<1>14. CASE t.root = Nil
  <2>1. size = 0
    BY <1>1, <1>14
  <2>2. Segment(S, pos, 0, 0 + 1) = <<>>
    BY <1>5
  <2>. QED
    BY <1>9, <1>11, <1>14, <2>1, <2>2 DEF S
<1>15. CASE t.root # Nil
  BY <1>1, <1>9, <1>10, <1>13, <1>15 DEF S
<1>. QED
  BY <1>14, <1>15

(* Between two operations, whatever they were, the tree holds what was put  *)
(* in, in order, and everything is found.                                   *)
LEMMA SoundHoldsContents ==
  ASSUME KeyAssumption, NEW pos, Good(t, contents, size, pos, {}, {}, {}), Sorted(contents, pos),
         Loose(t, contents), size = Cardinality(contents)
  PROVE  TreeHoldsContents
<1>. DEFINE S == contents
            seq == InOrder
            Elem(i) == IF i \in DOMAIN seq THEN seq[i] ELSE Nil
<1>1. PICK bnd : Ordered(t, S, size, pos, bnd)
  BY DEF Good
<1>2. S \in SUBSET Nodes /\ size \in Nat /\ Numbered(S, size, pos)
  BY GoodTypes
<1>3. Lists(S, pos, 0, size + 1, seq)
  <2>1. seq = Segment(S, pos, 0, size + 1)
    BY <1>1, InOrderIs
  <2>2. 0 \in Int /\ size + 1 \in Int /\ 0 < size + 1
    BY <1>2
  <2>3. Lists(S, pos, 0, size + 1, Segment(S, pos, 0, size + 1))
    BY <1>2, <2>2, SegmentIs
  <2>. QED
    BY <2>1, <2>3
<1>. HIDE DEF S, seq
<1>4. /\ seq \in Seq(Links) /\ Len(seq) = size /\ DOMAIN seq = 1 .. size
      /\ \A j \in 1 .. size : seq[j] = At(S, pos, j)
  <2>. DEFINE l == 0
              r == size + 1
  <2>1. r - l - 1 = size /\ \A j \in 1 .. size : l + j = j
    BY <1>2
  <2>0. Lists(S, pos, l, r, seq)
    BY <1>3
  <2>. HIDE DEF l, r
  <2>2. /\ seq \in Seq(Links) /\ Len(seq) = r - l - 1
        /\ \A j \in 1 .. r - l - 1 : seq[j] = At(S, pos, l + j)
    BY <2>0 DEF Lists
  <2>3. DOMAIN seq = 1 .. size
    BY <2>1, <2>2, LenProperties
  <2>. QED
    BY <2>1, <2>2, <2>3
<1>5. /\ \A n \in S : At(S, pos, pos[n]) = n /\ pos[n] \in 1 .. size
      /\ \A i \in 1 .. size : At(S, pos, i) \in S /\ pos[At(S, pos, i)] = i
      /\ \A i \in Int : i \notin 1 .. size => At(S, pos, i) = Nil
  <2>1. \A n \in S : pos[n] \in 1 .. size
    BY <1>2 DEF Numbered
  <2>. QED
    BY <1>2, <2>1, AtIs
<1>6. Range(seq) = S
  BY <1>4, <1>5 DEF Range
<1>7. ASSUME NEW i \in 2 .. Len(seq) PROVE Key[seq[i - 1]] <= Key[seq[i]]
  <2>1. i \in 1 .. size /\ i - 1 \in 1 .. size /\ i - 1 < i
    BY <1>2, <1>4
  <2>2. /\ seq[i] \in S /\ pos[seq[i]] = i
        /\ seq[i - 1] \in S /\ pos[seq[i - 1]] = i - 1
    BY <1>4, <1>5, <2>1
  <2>. QED
    BY <2>1, <2>2 DEF Sorted, S
<1>8. ASSUME NEW n \in S PROVE Find(t, Key[n]) # Nil
  <2>1. Key \in [Nodes -> Nat]
    BY DEF KeyAssumption
  <2>. QED
    BY <1>1, <2>1, FindIs DEF S
<1>9. ASSUME NEW i \in DOMAIN seq
      PROVE  Iterate(t, seq[i], RIGHT) = Elem(i + 1) /\ Iterate(t, seq[i], LEFT) = Elem(i - 1)
  <2>1. i \in 1 .. size /\ seq[i] \in S /\ pos[seq[i]] = i
    BY <1>4, <1>5
  <2>2. /\ LEFT \in Side /\ RIGHT \in Side /\ 1 - LEFT = RIGHT /\ 1 - RIGHT = LEFT
        /\ Edge(LEFT, i) = i + 1 /\ Edge(RIGHT, i) = i - 1
    BY Sides DEF Side, Edge
  <2>3. Iterate(t, seq[i], RIGHT) = At(S, pos, Edge(1 - RIGHT, pos[seq[i]]))
    BY <1>1, <2>1, <2>2, IterateIs DEF S
  <2>4. Iterate(t, seq[i], LEFT) = At(S, pos, Edge(1 - LEFT, pos[seq[i]]))
    BY <1>1, <2>1, <2>2, IterateIs DEF S
  <2>5. Elem(i + 1) = At(S, pos, i + 1) /\ Elem(i - 1) = At(S, pos, i - 1)
    <3>1. i + 1 \in Int /\ i - 1 \in Int
      BY <2>1
    <3>. QED
      BY <1>4, <1>5, <3>1
  <2>. QED
    BY <2>1, <2>2, <2>3, <2>4, <2>5
<1>. QED
  BY <1>2, <1>4, <1>6, <1>7, <1>8, <1>9 DEF TreeHoldsContents, S, seq

-------------------------------------------------------------------------------
(***************************************************************************)
(* The theorems.                                                           *)
(***************************************************************************)
LEMMA TreeInvariantHolds ==
  ASSUME KeyAssumption, Init
  PROVE  TreeInvariant
<1>1. /\ Sound(t, contents, size, {}, {}, {}) /\ Loose(t, contents) /\ t \in Trees
      /\ contents = {} /\ size = 0 /\ job = Idle
  BY EmptyIsSound DEF Init, KeyAssumption
<1>2. IsFiniteSet(contents) /\ Cardinality(contents) = 0
  BY <1>1, FS_EmptySet
<1>. QED
  BY <1>1, <1>2 DEF TreeInvariant, TreeIdle, Idle, Links

LEMMA ClearKeeps ==
  ASSUME KeyAssumption, TreeInvariant, Clear
  PROVE  TreeInvariant'
<1>1. t' = EmptyTree /\ size' = 0 /\ contents' = {} /\ job' = job /\ job.op = "idle"
  BY DEF Clear
<1>2. Sound(EmptyTree, {}, 0, {}, {}, {}) /\ Loose(EmptyTree, {}) /\ EmptyTree \in Trees
  BY EmptyIsSound DEF KeyAssumption
<1>3. IsFiniteSet({}) /\ Cardinality({}) = 0
  BY FS_EmptySet
<1>4. TreeIdle'
  BY <1>1, <1>2 DEF TreeIdle
<1>. QED
  BY <1>1, <1>2, <1>3, <1>4 DEF TreeInvariant

(* Every turn of the loops keeps the invariant.                             *)
LEMMA TreeInvariantKept ==
  ASSUME KeyAssumption, TreeInvariant, [Next]_vars
  PROVE  TreeInvariant'
<1>1. ASSUME NEW n \in Nodes, InsertRefused(n) PROVE TreeInvariant'
  <2>1. UNCHANGED vars
    BY <1>1 DEF InsertRefused
  <2>. QED
    BY <2>1 DEF vars, TreeInvariant, TreeIdle, TreeInserting, TreeMending, TreeRemoved
<1>2. CASE UNCHANGED vars
  BY <1>2 DEF vars, TreeInvariant, TreeIdle, TreeInserting, TreeMending, TreeRemoved
<1>3. ASSUME NEW n \in Nodes, NEW multi \in BOOLEAN, InsertLeaf(n, multi) PROVE TreeInvariant'
  BY <1>3, InsertLeafKeeps
<1>4. ASSUME NEW n \in Nodes, Unlink(n) PROVE TreeInvariant'
  BY <1>4, UnlinkKeeps
<1>5. CASE InsertRecolour
  BY <1>5, InsertRecolourKeeps
<1>6. CASE InsertRotate
  BY <1>6, InsertRotateKeeps
<1>7. CASE InsertDone
  BY <1>7, InsertDoneKeeps
<1>8. CASE MendUp
  BY <1>8, MendUpKeeps
<1>9. CASE MendOver
  BY <1>9, MendOverKeeps
<1>10. CASE RemoveDone
  BY <1>10, RemoveDoneKeeps
<1>11. CASE Clear
  BY <1>11, ClearKeeps
<1>. QED
  BY <1>1, <1>2, <1>3, <1>4, <1>5, <1>6, <1>7, <1>8, <1>9, <1>10, <1>11 DEF Next

LEMMA TreeInvariantSays ==
  ASSUME KeyAssumption, TreeInvariant
  PROVE  TreeIsBalanced /\ TreeHoldsContents
<1>1. CASE job.op = "idle"
  <2>1. Sound(t, contents, size, {}, {}, {}) /\ Loose(t, contents) /\ size = Cardinality(contents)
    BY <1>1 DEF TreeInvariant, TreeIdle, TreeInserting, TreeMending, TreeRemoved
  <2>2. PICK pos : Good(t, contents, size, pos, {}, {}, {}) /\ Sorted(contents, pos)
    BY <2>1 DEF Sound
  <2>3. TreeIsBalanced
    BY <1>1, <2>1, <2>2, SoundIsBalanced
  <2>4. TreeHoldsContents
    BY <2>1, <2>2, SoundHoldsContents
  <2>. QED
    BY <2>3, <2>4
<1>2. CASE job.op # "idle"
  BY <1>2 DEF TreeIsBalanced, TreeHoldsContents
<1>. QED
  BY <1>1, <1>2

(* For any nodes and keys, whatever is inserted and removed: between two    *)
(* operations the tree is balanced, it holds in order what was inserted and *)
(* not removed, and all of that is found and met by stepping through it.    *)
THEOREM TreeStaysSound ==
  ASSUME KeyAssumption
  PROVE  Spec => [](TreeIsBalanced /\ TreeHoldsContents)
<1>1. Init => TreeInvariant
  BY TreeInvariantHolds
<1>2. TreeInvariant /\ [Next]_vars => TreeInvariant'
  BY TreeInvariantKept
<1>3. TreeInvariant => TreeIsBalanced /\ TreeHoldsContents
  BY TreeInvariantSays
<1>. QED
  BY <1>1, <1>2, <1>3, PTL DEF Spec
=============================================================================
