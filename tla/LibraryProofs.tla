---------------------------- MODULE LibraryProofs ----------------------------
(***************************************************************************)
(* The safety of the parts of the library that MCLibrary checks together:  *)
(* the heaps, the trees under them (which TreeProofs is about), the        *)
(* services, the parameters of APT and the wave buffers of a channel.      *)
(***************************************************************************)
EXTENDS MCLibrary, WellFoundedInduction, SequenceTheorems, TLAPS

(***************************************************************************)
(* The heaps of linear memory and of VRAM: no cell is in two places, none  *)
(* is missing, and free blocks that touch are one, for any regions, sizes, *)
(* alignments and number of buffers.                                       *)
(*                                                                         *)
(* What carries it: a pool is a sequence of blocks in order with something *)
(* between any two (PoolOK), and every operation of a pool is a piece of   *)
(* that sequence replaced by another (Replaced).  Allocate takes from its  *)
(* cells those of the chunk (CarveTakes); Deallocate puts them back, or    *)
(* leaves the pool as it was (DeallocatePuts).                             *)
(***************************************************************************)

(***************************************************************************)
(* Places in a pool, and pieces of one put in the place of others.         *)
(***************************************************************************)

(* A set of natural numbers that is not empty has a least one, and Min is   *)
(* that.                                                                    *)
LEMMA LeastIsMin ==
  ASSUME NEW S, S \subseteq Nat, S # {}
  PROVE  /\ H!Min(S) \in S /\ \A x \in S : H!Min(S) <= x
         /\ N!Min(S) \in S /\ \A x \in S : N!Min(S) <= x
<1>. DEFINE R == OpToRel(<, Nat)
<1>1. IsWellFoundedOn(R, Nat)
  BY NatLessThanWellFounded
<1>2. \E m \in S : \A x \in S : <<x, m>> \notin R
  <2>. HIDE DEF R
  <2>. QED
    BY <1>1, WFMin
<1>3. PICK m \in S : \A x \in S : <<x, m>> \notin R
  BY <1>2
<1>4. \A x \in S : ~(x < m)
  BY <1>3 DEF OpToRel
<1>5. \E least \in S : \A x \in S : least <= x
  BY <1>4
<1>. QED
  BY <1>5 DEF H!Min, N!Min

(* the first place of a pool from which a chunk can be taken                *)
LEMMA FirstFitFits ==
  ASSUME NEW p, Len(p) \in Nat, NEW want, NEW align, H!FirstFit(p, want, align) # 0
  PROVE  LET i == H!FirstFit(p, want, align)
         IN  i \in 1 .. Len(p) /\ H!Waste(p[i], align) + want <= p[i].size
<1>. DEFINE I == {i \in 1 .. Len(p) : H!Waste(p[i], align) + want <= p[i].size}
<1>1. H!FirstFit(p, want, align) = IF I # {} THEN H!Min(I) ELSE 0
  BY DEF H!FirstFit, H!SelectInSeq
<1>2. I \subseteq Nat
  OBVIOUS
<1>3. I # {}
  BY <1>1
<1>4. H!Min(I) \in I
  <2>. HIDE DEF I
  <2>. QED
    BY <1>2, <1>3, LeastIsMin
<1>. QED
  BY <1>1, <1>3, <1>4

(* a piece of memory                                                        *)
Block == [base : Nat, size : Nat \ {0}]

(* a lies in b; a ends before b begins, with something in between          *)
Inside(a, b) == b.base <= a.base /\ a.base + a.size <= b.base + b.size
Ahead(a, b) == a.base + a.size < b.base

(* Pieces within pieces.                                                    *)
LEMMA Nested ==
  ASSUME NEW a \in Block, NEW b \in Block, NEW c \in Block
  PROVE  /\ Inside(a, b) /\ Inside(b, c) => Inside(a, c)
         /\ Ahead(c, b) /\ Inside(a, b) => Ahead(c, a)
         /\ Ahead(b, c) /\ Inside(a, b) => Ahead(a, c)
<1>1. /\ a.base \in Nat /\ a.size \in Nat /\ b.base \in Nat /\ b.size \in Nat
      /\ c.base \in Nat /\ c.size \in Nat
  BY DEF Block
<1>. QED
  BY <1>1 DEF Inside, Ahead

(* x is a cell of the pool p                                                *)
Within(x, c) == c.base <= x /\ x < c.base + c.size
InPool(x, p) == \E i \in DOMAIN p : Within(x, p[i])

(* the blocks of a pool of the region r are in order, with something        *)
(* between any two                                                          *)
PoolOK(p, r) ==
  /\ p \in Seq(Block)
  /\ \A i \in 1 .. Len(p) : Inside(p[i], r)
  /\ \A i, j \in 1 .. Len(p) : i < j => Ahead(p[i], p[j])

(* Pools put one after the other.                                           *)
LEMMA ConcatBlocks ==
  ASSUME NEW s1 \in Seq(Block), NEW s2 \in Seq(Block)
  PROVE  /\ s1 \o s2 \in Seq(Block) /\ Len(s1 \o s2) = Len(s1) + Len(s2)
         /\ \A k \in 1 .. Len(s1) + Len(s2) :
              (s1 \o s2)[k] = IF k <= Len(s1) THEN s1[k] ELSE s2[k - Len(s1)]
BY ConcatProperties

(* q is p with what is from place i up to place j replaced by mid           *)
Replaced(q, p, i, mid, j) ==
  /\ q \in Seq(Block)
  /\ Len(q) = (i - 1) + Len(mid) + (Len(p) + 1 - j)
  /\ \A k \in 1 .. Len(q) :
       q[k] = IF k < i THEN p[k]
              ELSE IF k < i + Len(mid) THEN mid[k - i + 1]
              ELSE p[k - i - Len(mid) + j]

(* The two ends of a pool with something put between them.                  *)
LEMMA SpliceReplaces ==
  ASSUME NEW p \in Seq(Block), NEW i \in 1 .. Len(p) + 1, NEW j \in i .. Len(p) + 1,
         NEW mid \in Seq(Block)
  PROVE  Replaced(SubSeq(p, 1, i - 1) \o mid \o SubSeq(p, j, Len(p)), p, i, mid, j)
<1>. DEFINE front == SubSeq(p, 1, i - 1)
            back == SubSeq(p, j, Len(p))
            q == front \o mid \o back
<1>1. Len(p) \in Nat /\ (\A k \in 1 .. Len(p) : p[k] \in Block) /\ i - 1 \in Nat /\ j \in Nat
  OBVIOUS
<1>2. front \in Seq(Block) /\ Len(front) = i - 1 /\ \A k \in 1 .. i - 1 : front[k] = p[k]
  <2>1. \A k \in 1 .. i - 1 : p[k] \in Block
    BY <1>1
  <2>2. /\ front \in Seq(Block)
        /\ Len(front) = IF 1 <= i - 1 THEN i - 1 - 1 + 1 ELSE 0
        /\ \A k \in 1 .. i - 1 - 1 + 1 : front[k] = p[1 + k - 1]
    BY <1>1, <2>1, SubSeqProperties
  <2>3. \A k \in 1 .. i - 1 : k \in 1 .. i - 1 - 1 + 1 /\ 1 + k - 1 = k
    BY <1>1
  <2>. QED
    BY <1>1, <2>2, <2>3
<1>3. /\ back \in Seq(Block) /\ Len(back) = Len(p) + 1 - j
      /\ \A k \in 1 .. Len(p) + 1 - j : back[k] = p[k + j - 1]
  <2>1. \A k \in j .. Len(p) : p[k] \in Block
    BY <1>1
  <2>2. /\ back \in Seq(Block)
        /\ Len(back) = IF j <= Len(p) THEN Len(p) - j + 1 ELSE 0
        /\ \A k \in 1 .. Len(p) - j + 1 : back[k] = p[j + k - 1]
    BY <1>1, <2>1, SubSeqProperties
  <2>3. \A k \in 1 .. Len(p) + 1 - j : k \in 1 .. Len(p) - j + 1 /\ j + k - 1 = k + j - 1
    BY <1>1
  <2>4. Len(back) = Len(p) + 1 - j
    BY <1>1, <2>2
  <2>. QED
    BY <2>2, <2>3, <2>4
<1>. HIDE DEF front, back
<1>4. /\ front \o mid \in Seq(Block)
      /\ Len(front \o mid) = i - 1 + Len(mid)
      /\ \A k \in 1 .. i - 1 + Len(mid) : (front \o mid)[k] = IF k < i THEN p[k] ELSE mid[k - i + 1]
  <2>1. /\ front \o mid \in Seq(Block) /\ Len(front \o mid) = Len(front) + Len(mid)
        /\ \A k \in 1 .. Len(front) + Len(mid) :
             (front \o mid)[k] = IF k <= Len(front) THEN front[k] ELSE mid[k - Len(front)]
    BY <1>2, ConcatBlocks
  <2>2. Len(mid) \in Nat
    OBVIOUS
  <2>3. \A k \in 1 .. i - 1 + Len(mid) :
          (k <= i - 1 <=> k < i) /\ k - (i - 1) = k - i + 1 /\ (k < i => k \in 1 .. i - 1)
    BY <1>1
  <2>. QED
    BY <1>2, <2>1, <2>2, <2>3
<1>5. /\ q \in Seq(Block) /\ Len(q) = i - 1 + Len(mid) + (Len(p) + 1 - j)
      /\ \A k \in 1 .. Len(q) :
           q[k] = IF k <= i - 1 + Len(mid) THEN (front \o mid)[k] ELSE back[k - (i - 1 + Len(mid))]
  <2>. DEFINE head == front \o mid
  <2>1. head \in Seq(Block) /\ Len(head) = i - 1 + Len(mid)
    BY <1>4
  <2>. HIDE DEF head
  <2>2. /\ head \o back \in Seq(Block) /\ Len(head \o back) = Len(head) + Len(back)
        /\ \A k \in 1 .. Len(head) + Len(back) :
             (head \o back)[k] = IF k <= Len(head) THEN head[k] ELSE back[k - Len(head)]
    <3>1. back \in Seq(Block)
      BY <1>3
    <3>. QED
      BY ONLY <2>1, <3>1, ConcatBlocks
  <2>. QED
    BY <1>3, <2>1, <2>2 DEF head
<1>. HIDE DEF q
<1>6. ASSUME NEW k \in 1 .. Len(q)
      PROVE  q[k] = IF k < i THEN p[k]
                    ELSE IF k < i + Len(mid) THEN mid[k - i + 1]
                    ELSE p[k - i - Len(mid) + j]
  <2>1. Len(mid) \in Nat
    OBVIOUS
  <2>2. CASE k <= i - 1 + Len(mid)
    <3>1. k \in 1 .. i - 1 + Len(mid) /\ (k < i \/ k < i + Len(mid))
      BY <1>1, <2>1, <2>2
    <3>. QED
      BY <1>4, <1>5, <2>2, <3>1
  <2>3. CASE ~(k <= i - 1 + Len(mid))
    <3>1. ~(k < i) /\ ~(k < i + Len(mid))
      BY <1>1, <2>1, <2>3
    <3>2. k - (i - 1 + Len(mid)) \in 1 .. Len(p) + 1 - j
      <4>1. k \in Nat /\ k <= i - 1 + Len(mid) + (Len(p) + 1 - j) /\ i \in Nat
        BY <1>1, <1>5
      <4>. QED
        BY ONLY <1>1, <2>1, <2>3, <4>1
    <3>3. k - (i - 1 + Len(mid)) + j - 1 = k - i - Len(mid) + j
      BY <1>1, <2>1
    <3>. QED
      BY <1>3, <1>5, <2>3, <3>1, <3>2, <3>3
  <2>. QED
    BY <2>2, <2>3
<1>. QED
  BY <1>5, <1>6 DEF Replaced, q, front, back

(* mid comes after what is before place i of p, and before what is from j on *)
Fits(mid, p, i, j) ==
  \A k \in 1 .. Len(mid) : /\ \A l \in 1 .. i - 1 : Ahead(p[l], mid[k])
                           /\ \A l \in j .. Len(p) : Ahead(mid[k], p[l])

(* A pool stays in order if what is put in fits between its neighbours; its *)
(* cells are those of what is left and of what is put in.                   *)
LEMMA ReplacedPool ==
  ASSUME NEW r \in Block, NEW p, PoolOK(p, r), NEW i \in 1 .. Len(p) + 1, NEW j \in i .. Len(p) + 1,
         NEW mid, PoolOK(mid, r), NEW q, Replaced(q, p, i, mid, j),
         Fits(mid, p, i, j)
  PROVE  /\ PoolOK(q, r)
         /\ \A x \in Int : InPool(x, q) <=> \/ \E k \in 1 .. i - 1 : Within(x, p[k])
                                           \/ InPool(x, mid)
                                           \/ \E k \in j .. Len(p) : Within(x, p[k])
<1>1. /\ p \in Seq(Block) /\ mid \in Seq(Block) /\ q \in Seq(Block)
      /\ Len(p) \in Nat /\ Len(mid) \in Nat /\ Len(q) \in Nat
      /\ DOMAIN mid = 1 .. Len(mid) /\ DOMAIN q = 1 .. Len(q)
      /\ Len(q) = (i - 1) + Len(mid) + (Len(p) + 1 - j)
  BY DEF PoolOK, Inside, Ahead, Replaced
<1>. DEFINE m == Len(mid)
            n == Len(p)
<1>2. m \in Nat /\ n \in Nat /\ Len(q) = (i - 1) + m + (n + 1 - j)
  BY <1>1
<1>3. /\ \A k \in 1 .. i - 1 : k \in 1 .. Len(q) /\ q[k] = p[k]
      /\ \A k \in 1 .. m : k + i - 1 \in 1 .. Len(q) /\ q[k + i - 1] = mid[k]
      /\ \A k \in j .. n : k - j + i + m \in 1 .. Len(q) /\ q[k - j + i + m] = p[k]
  <2>1. \A k \in 1 .. i - 1 : k \in 1 .. Len(q) /\ k < i
    BY <1>2
  <2>2. \A k \in 1 .. m : k + i - 1 \in 1 .. Len(q) /\ ~(k + i - 1 < i) /\ k + i - 1 < i + m
                           /\ (k + i - 1) - i + 1 = k
    BY <1>2
  <2>3. \A k \in j .. n : k - j + i + m \in 1 .. Len(q) /\ ~(k - j + i + m < i)
                           /\ ~(k - j + i + m < i + m) /\ (k - j + i + m) - i - m + j = k
    BY <1>2
  <2>4. \A k \in 1 .. Len(q) : q[k] = IF k < i THEN p[k]
                                   ELSE IF k < i + m THEN mid[k - i + 1]
                                   ELSE p[k - i - m + j]
    BY DEF Replaced
  <2>. HIDE DEF m, n
  <2>5. \A k \in 1 .. i - 1 : q[k] = p[k]
    BY <2>1, <2>4
  <2>6. \A k \in 1 .. m : q[k + i - 1] = mid[k]
    BY <2>2, <2>4
  <2>7. \A k \in j .. n : q[k - j + i + m] = p[k]
    BY <2>3, <2>4
  <2>. QED
    BY <2>1, <2>2, <2>3, <2>5, <2>6, <2>7
<1>4. ASSUME NEW k \in 1 .. Len(q)
      PROVE  \/ k \in 1 .. i - 1 /\ q[k] = p[k]
             \/ k \in i .. i + m - 1 /\ k - i + 1 \in 1 .. m /\ q[k] = mid[k - i + 1]
             \/ k \in i + m .. Len(q) /\ k - i - m + j \in j .. n /\ q[k] = p[k - i - m + j]
  <2>1. CASE k < i
    <3>1. k \in 1 .. i - 1
      BY <1>2, <2>1
    <3>. QED
      BY <2>1, <3>1 DEF Replaced
  <2>2. CASE ~(k < i) /\ k < i + m
    <3>1. k \in i .. i + m - 1 /\ k - i + 1 \in 1 .. m
      BY <1>2, <2>2
    <3>. QED
      BY <2>2, <3>1 DEF Replaced
  <2>3. CASE ~(k < i) /\ ~(k < i + m)
    <3>1. k \in i + m .. Len(q) /\ k - i - m + j \in j .. n
      BY <1>2, <2>3
    <3>. QED
      BY <2>3, <3>1 DEF Replaced
  <2>. QED
    BY <2>1, <2>2, <2>3
<1>. HIDE DEF m, n
<1>5. /\ \A k, l \in 1 .. n : k < l => p[k].base + p[k].size < p[l].base
      /\ \A k, l \in 1 .. m : k < l => mid[k].base + mid[k].size < mid[l].base
      /\ \A k \in 1 .. n : r.base <= p[k].base /\ p[k].base + p[k].size <= r.base + r.size
      /\ \A k \in 1 .. m : r.base <= mid[k].base /\ mid[k].base + mid[k].size <= r.base + r.size
      /\ \A k \in 1 .. m : /\ \A l \in 1 .. i - 1 : p[l].base + p[l].size < mid[k].base
                           /\ \A l \in j .. n : mid[k].base + mid[k].size < p[l].base
      /\ i \in 1 .. n + 1 /\ j \in i .. n + 1
  BY DEF PoolOK, Inside, Ahead, Fits, m, n
<1>6. PoolOK(q, r)
  <2>1. ASSUME NEW k \in 1 .. Len(q)
        PROVE  r.base <= q[k].base /\ q[k].base + q[k].size <= r.base + r.size
    <3>1. CASE k \in 1 .. i - 1 /\ q[k] = p[k]
      <4>1. k \in 1 .. n
        BY <1>2, <1>5, <3>1
      <4>. QED
        BY <1>5, <3>1, <4>1
    <3>2. CASE k - i + 1 \in 1 .. m /\ q[k] = mid[k - i + 1]
      BY <1>5, <3>2
    <3>3. CASE k - i - m + j \in j .. n /\ q[k] = p[k - i - m + j]
      <4>1. k - i - m + j \in 1 .. n
        BY <1>2, <1>5, <3>3
      <4>. QED
        BY <1>5, <3>3, <4>1
    <3>. QED
      BY <1>4, <3>1, <3>2, <3>3
  <2>2. ASSUME NEW k \in 1 .. Len(q), NEW l \in 1 .. Len(q), k < l
        PROVE  q[k].base + q[k].size < q[l].base
    <3>1. CASE k \in 1 .. i - 1 /\ q[k] = p[k]
      <4>1. CASE l \in 1 .. i - 1 /\ q[l] = p[l]
        <5>1. k \in 1 .. n /\ l \in 1 .. n
          BY <1>2, <1>5, <3>1, <4>1
        <5>. QED
          BY <1>5, <2>2, <3>1, <4>1, <5>1
      <4>2. CASE l - i + 1 \in 1 .. m /\ q[l] = mid[l - i + 1]
        BY <1>5, <3>1, <4>2
      <4>3. CASE l - i - m + j \in j .. n /\ q[l] = p[l - i - m + j]
        <5>1. k \in 1 .. n /\ l - i - m + j \in 1 .. n /\ k < l - i - m + j
          BY <1>2, <1>5, <3>1, <4>3
        <5>. QED
          BY <1>5, <3>1, <4>3, <5>1
      <4>. QED
        BY <1>4, <4>1, <4>2, <4>3
    <3>2. CASE k \in i .. i + m - 1 /\ k - i + 1 \in 1 .. m /\ q[k] = mid[k - i + 1]
      <4>1. CASE l - i + 1 \in 1 .. m /\ q[l] = mid[l - i + 1]
        <5>1. k - i + 1 < l - i + 1
          BY <1>2, <1>5, <2>2
        <5>. QED
          BY <1>5, <3>2, <4>1, <5>1
      <4>2. CASE l - i - m + j \in j .. n /\ q[l] = p[l - i - m + j]
        BY <1>5, <3>2, <4>2
      <4>3. ~(l \in 1 .. i - 1)
        <5>1. i \in Nat /\ k >= i /\ k \in Int /\ l \in Int
          BY <1>2, <1>5, <3>2
        <5>. QED
          BY ONLY <2>2, <5>1
      <4>. QED
        BY <1>4, <4>1, <4>2, <4>3
    <3>3. CASE k \in i + m .. Len(q) /\ k - i - m + j \in j .. n /\ q[k] = p[k - i - m + j]
      <4>1. l - i - m + j \in j .. n /\ q[l] = p[l - i - m + j]
        <5>1. i \in Nat /\ l > i + m - 1 /\ i + m - 1 >= i - 1
          <6>1. i \in Nat /\ k >= i + m
            BY <1>2, <1>5, <3>3
          <6>. QED
            BY <1>2, <2>2, <6>1
        <5>2. ~(l \in 1 .. i - 1) /\ ~(l \in i .. i + m - 1)
          BY <1>2, <5>1
        <5>. QED
          BY <1>4, <5>2
      <4>2. k - i - m + j \in 1 .. n /\ l - i - m + j \in 1 .. n /\ k - i - m + j < l - i - m + j
        BY <1>2, <1>5, <2>2, <3>3, <4>1
      <4>. QED
        BY <1>5, <3>3, <4>1, <4>2
    <3>. QED
      BY <1>4, <3>1, <3>2, <3>3
  <2>. QED
    BY <1>1, <2>1, <2>2 DEF PoolOK, Inside, Ahead
<1>7. ASSUME NEW x \in Int
      PROVE  InPool(x, q) <=> \/ \E k \in 1 .. i - 1 : Within(x, p[k])
                              \/ InPool(x, mid)
                              \/ \E k \in j .. n : Within(x, p[k])
  <2>1. InPool(x, mid) <=> \E k \in 1 .. m : Within(x, mid[k])
    BY <1>1 DEF InPool, m
  <2>2. InPool(x, q) <=> \E k \in 1 .. Len(q) : Within(x, q[k])
    BY <1>1 DEF InPool
  <2>3. (\E k \in 1 .. Len(q) : Within(x, q[k]))
          => \/ \E k \in 1 .. i - 1 : Within(x, p[k])
             \/ \E k \in 1 .. m : Within(x, mid[k])
             \/ \E k \in j .. n : Within(x, p[k])
    BY <1>4
  <2>4. ASSUME \/ \E k \in 1 .. i - 1 : Within(x, p[k])
               \/ \E k \in 1 .. m : Within(x, mid[k])
               \/ \E k \in j .. n : Within(x, p[k])
        PROVE  \E k \in 1 .. Len(q) : Within(x, q[k])
    BY <1>3, <2>4
  <2>. QED
    BY <2>1, <2>2, <2>3, <2>4
<1>. QED
  BY <1>6, <1>7 DEF n

-------------------------------------------------------------------------------
(***************************************************************************)
(* MemPool::Allocate: the first block with room is cut in three.           *)
(***************************************************************************)

(* one sequence after another                                               *)
LEMMA ShortSequences ==
  ASSUME NEW S, NEW a \in S, NEW z \in S
  PROVE  /\ <<a>> \in Seq(S) /\ <<z>> \in Seq(S) /\ <<>> \in Seq(S)
         /\ <<>> \o <<a>> = <<a>> /\ <<a>> \o <<>> = <<a>>
         /\ <<a>> \o <<z>> = <<a, z>>
<1>1. <<a>> \in Seq(S) /\ <<z>> \in Seq(S) /\ <<>> \in Seq(S)
  OBVIOUS
<1>2. <<>> \o <<a>> = <<a>> /\ <<a>> \o <<>> = <<a>>
  BY <1>1, ConcatEmptySeq
<1>3. <<a>> \o <<z>> = <<a, z>>
  <2>. DEFINE q == <<a>> \o <<z>>
  <2>1. /\ q \in Seq(S) /\ Len(q) = Len(<<a>>) + Len(<<z>>)
        /\ \A k \in 1 .. Len(<<a>>) + Len(<<z>>) :
             q[k] = IF k <= Len(<<a>>) THEN <<a>>[k] ELSE <<z>>[k - Len(<<a>>)]
    BY <1>1, ConcatProperties
  <2>2. Len(<<a>>) = 1 /\ Len(<<z>>) = 1 /\ <<a>>[1] = a /\ <<z>>[1] = z
    OBVIOUS
  <2>. HIDE DEF q
  <2>3. q \in Seq(S) /\ Len(q) = 2 /\ q[1] = a /\ q[2] = z
    BY <2>1, <2>2
  <2>4. <<a, z>> \in Seq(S) /\ Len(<<a, z>>) = 2 /\ <<a, z>>[1] = a /\ <<a, z>>[2] = z
    OBVIOUS
  <2>5. \A k \in 1 .. 2 : q[k] = <<a, z>>[k]
    BY <2>3, <2>4
  <2>6. q = <<a, z>>
    BY <2>3, <2>4, <2>5, SeqEqual
  <2>. QED
    BY <2>6 DEF q
<1>. QED
  BY <1>1, <1>2, <1>3

(* a chunk cut out of the block b, and what is left before and behind it    *)
Piece(b, waste, want, created) ==
  H!Chunk(b.base + waste, IF waste = 0 \/ created THEN want ELSE b.size - waste)
Before(b, waste) ==
  LET head == H!Chunk(b.base, waste) IN IF head.size = 0 THEN <<>> ELSE <<head>>
Behind(b, waste, want, created) ==
  LET head == H!Chunk(b.base, waste)
      tail == H!Chunk(b.base + waste + want, (b.base + b.size) - (b.base + waste + want))
  IN IF tail.size = 0 \/ (head.size # 0 /\ ~created) THEN <<>> ELSE <<tail>>

(* What is left is in order and is all of the block that is not the chunk.  *)
LEMMA CutOut ==
  ASSUME NEW b \in Block, NEW waste \in Nat, NEW want \in Nat \ {0}, waste + want <= b.size,
         NEW created \in BOOLEAN
  PROVE  /\ Piece(b, waste, want, created) \in Block
         /\ want <= Piece(b, waste, want, created).size
         /\ Inside(Piece(b, waste, want, created), b)
         /\ Before(b, waste) \in Seq(Block) /\ Behind(b, waste, want, created) \in Seq(Block)
         /\ PoolOK(Before(b, waste) \o Behind(b, waste, want, created), b)
         /\ \A x \in Int : InPool(x, Before(b, waste) \o Behind(b, waste, want, created))
                           <=> Within(x, b) /\ ~Within(x, Piece(b, waste, want, created))
<1>. DEFINE head == H!Chunk(b.base, waste)
            tail == H!Chunk(b.base + waste + want, (b.base + b.size) - (b.base + waste + want))
            c == Piece(b, waste, want, created)
            front == Before(b, waste)
            back == Behind(b, waste, want, created)
<1>. SUFFICES /\ c \in Block /\ want <= c.size
              /\ Inside(c, b)
              /\ front \in Seq(Block) /\ back \in Seq(Block)
              /\ PoolOK(front \o back, b)
              /\ \A x \in Int : InPool(x, front \o back) <=> Within(x, b) /\ ~Within(x, c)
  OBVIOUS
<1>0. /\ c = H!Chunk(b.base + waste, IF waste = 0 \/ created THEN want ELSE b.size - waste)
      /\ front = (IF head.size = 0 THEN <<>> ELSE <<head>>)
      /\ back = (IF tail.size = 0 \/ (head.size # 0 /\ ~created) THEN <<>> ELSE <<tail>>)
  BY DEF Piece, Before, Behind
<1>. DEFINE rest == b.size - waste - want
<1>. HIDE DEF c, front, back
<1>1. /\ b.base \in Nat /\ b.size \in Nat /\ rest \in Nat
      /\ waste \in Nat /\ want \in Nat \ {0} /\ waste + want <= b.size
  BY DEF Block
<1>2. head.base = b.base /\ head.size = waste
  BY DEF H!Chunk
<1>3. tail.base = b.base + waste + want /\ tail.size = rest
  <2>1. (b.base + b.size) - (b.base + waste + want) = rest
    BY <1>1
  <2>. QED
    BY <2>1 DEF H!Chunk
<1>4. c.base = b.base + waste /\ c.size = IF waste = 0 \/ created THEN want ELSE b.size - waste
  BY <1>0 DEF H!Chunk
<1>5. waste # 0 => head \in Block
  BY <1>1 DEF H!Chunk, Block
<1>6. rest # 0 => tail \in Block
  <2>1. (b.base + b.size) - (b.base + waste + want) = rest /\ b.base + waste + want \in Nat
    BY <1>1
  <2>. HIDE DEF rest
  <2>2. rest # 0 => rest \in Nat \ {0}
    BY <1>1
  <2>. QED
    BY <2>1, <2>2 DEF H!Chunk, Block
<1>7. c \in Block /\ want <= c.size
  <2>1. b.base + waste \in Nat /\ b.size - waste \in Nat \ {0} /\ want <= b.size - waste
    BY <1>1
  <2>2. c.size \in Nat \ {0} /\ c.base \in Nat
    BY <1>4, <2>1
  <2>3. c = [base |-> c.base, size |-> c.size]
    BY <1>0 DEF H!Chunk
  <2>. QED
    BY <1>4, <2>1, <2>2, <2>3 DEF Block
<1>8. Inside(c, b)
  BY <1>1, <1>4 DEF Inside
<1>. HIDE DEF rest, head, tail
<1>9. ASSUME NEW x \in Int
      PROVE  /\ Within(x, b) <=> b.base <= x /\ x < b.base + b.size
             /\ Within(x, c) <=> b.base + waste <= x
                                 /\ x < b.base + waste + (IF waste = 0 \/ created THEN want ELSE b.size - waste)
             /\ Within(x, head) <=> b.base <= x /\ x < b.base + waste
             /\ Within(x, tail) <=> b.base + waste + want <= x /\ x < b.base + waste + want + rest
  BY <1>2, <1>3, <1>4 DEF Within
<1>10. rest = b.size - waste - want
  BY DEF rest
<1>11. CASE waste = 0 /\ rest = 0
  <2>1. front = <<>> /\ back = <<>> /\ front \o back = <<>>
    BY <1>0, <1>2, <1>3, <1>11
  <2>2. ASSUME NEW x \in Int PROVE Within(x, b) <=> Within(x, c)
    <3>1. want = b.size
      BY ONLY <1>1, <1>10, <1>11
    <3>. QED
      BY ONLY <1>1, <1>9, <1>11, <3>1, x \in Int
  <2>. QED
    BY <1>7, <1>8, <2>1, <2>2 DEF PoolOK, Inside, Ahead, InPool
<1>12. CASE waste = 0 /\ rest # 0
  <2>1. front = <<>> /\ back = <<tail>> /\ tail \in Block
    BY <1>0, <1>2, <1>3, <1>6, <1>12
  <2>4. front \o back = <<tail>> /\ front \in Seq(Block) /\ back \in Seq(Block)
    BY <2>1, ShortSequences
  <2>2. ASSUME NEW x \in Int PROVE Within(x, tail) <=> Within(x, b) /\ ~Within(x, c)
    <3>1. /\ Within(x, b) <=> b.base <= x /\ x < b.base + b.size
          /\ Within(x, c) <=> b.base <= x /\ x < b.base + want
          /\ Within(x, tail) <=> b.base + want <= x /\ x < b.base + want + rest
      BY <1>1, <1>9, <1>12
    <3>. QED
      BY <1>1, <1>10, <1>12, <3>1
  <2>5. \A x \in Int : InPool(x, <<tail>>) <=> Within(x, tail)
    BY DEF InPool
  <2>3. b.base <= tail.base /\ tail.base + tail.size <= b.base + b.size
    BY <1>1, <1>3, <1>10
  <2>6. PoolOK(<<tail>>, b)
    BY <2>1, <2>3, <2>4 DEF PoolOK, Inside, Ahead
  <2>. QED
    BY <1>7, <1>8, <2>2, <2>4, <2>5, <2>6
<1>13. CASE waste # 0 /\ (rest = 0 \/ ~created)
  <2>1. front = <<head>> /\ back = <<>> /\ head \in Block
    BY <1>0, <1>2, <1>3, <1>5, <1>13
  <2>4. front \o back = <<head>> /\ front \in Seq(Block) /\ back \in Seq(Block)
    BY <2>1, ShortSequences
  <2>2. ASSUME NEW x \in Int PROVE Within(x, head) <=> Within(x, b) /\ ~Within(x, c)
    <3>1. IF waste = 0 \/ created THEN want = b.size - waste ELSE b.size - waste = b.size - waste
      BY <1>1, <1>10, <1>13
    <3>2. (IF waste = 0 \/ created THEN want ELSE b.size - waste) = b.size - waste
      BY <3>1
    <3>3. /\ Within(x, b) <=> b.base <= x /\ x < b.base + b.size
          /\ Within(x, c) <=> b.base + waste <= x /\ x < b.base + waste + (b.size - waste)
          /\ Within(x, head) <=> b.base <= x /\ x < b.base + waste
      BY <1>9, <3>2
    <3>. QED
      BY <1>1, <3>3
  <2>5. \A x \in Int : InPool(x, <<head>>) <=> Within(x, head)
    BY DEF InPool
  <2>3. b.base <= head.base /\ head.base + head.size <= b.base + b.size
    BY <1>1, <1>2
  <2>6. PoolOK(<<head>>, b)
    BY <2>1, <2>3, <2>4 DEF PoolOK, Inside, Ahead
  <2>. QED
    BY <1>7, <1>8, <2>2, <2>4, <2>5, <2>6
<1>14. CASE waste # 0 /\ rest # 0 /\ created
  <2>. DEFINE mid == <<head, tail>>
  <2>1. front = <<head>> /\ back = <<tail>> /\ head \in Block /\ tail \in Block
    BY <1>0, <1>2, <1>3, <1>5, <1>6, <1>14
  <2>2. /\ front \o back = mid /\ mid \in Seq(Block) /\ Len(mid) = 2 /\ DOMAIN mid = {1, 2}
        /\ mid[1] = head /\ mid[2] = tail
    <3>1. front \o back = mid
      BY <2>1, ShortSequences
    <3>. QED
      BY <2>1, <3>1
  <2>7. front \in Seq(Block) /\ back \in Seq(Block)
    BY <2>1, ShortSequences
  <2>. HIDE DEF mid
  <2>3. ASSUME NEW x \in Int
        PROVE  Within(x, head) \/ Within(x, tail) <=> Within(x, b) /\ ~Within(x, c)
    <3>1. /\ Within(x, b) <=> b.base <= x /\ x < b.base + b.size
          /\ Within(x, c) <=> b.base + waste <= x /\ x < b.base + waste + want
          /\ Within(x, head) <=> b.base <= x /\ x < b.base + waste
          /\ Within(x, tail) <=> b.base + waste + want <= x /\ x < b.base + waste + want + rest
      BY <1>9, <1>14
    <3>2. /\ b.base + waste + want + rest = b.base + b.size
          /\ b.base + waste <= b.base + b.size /\ b.base + waste + want <= b.base + b.size
      BY ONLY <1>1, <1>10
    <3>3. /\ Within(x, head) => Within(x, b) /\ ~Within(x, c)
          /\ Within(x, tail) => Within(x, b) /\ ~Within(x, c)
      BY <1>1, <3>1, <3>2
    <3>4. Within(x, b) /\ ~Within(x, c) => Within(x, head) \/ Within(x, tail)
      BY <1>1, <3>1, <3>2
    <3>. QED
      BY <3>3, <3>4
  <2>4. /\ b.base <= head.base /\ head.base + head.size <= b.base + b.size
        /\ b.base <= tail.base /\ tail.base + tail.size <= b.base + b.size
        /\ head.base + head.size < tail.base
    BY <1>1, <1>2, <1>3, <1>10
  <2>5. PoolOK(mid, b)
    <3>1. \A k, l \in 1 .. 2 : k < l => k = 1 /\ l = 2
      OBVIOUS
    <3>2. \A k \in 1 .. 2 : k = 1 \/ k = 2
      OBVIOUS
    <3>. QED
      BY <2>2, <2>4, <3>1, <3>2 DEF PoolOK, Inside, Ahead
  <2>6. \A x \in Int : InPool(x, mid) <=> Within(x, head) \/ Within(x, tail)
    BY <2>2 DEF InPool
  <2>. QED
    BY <1>7, <1>8, <2>2, <2>3, <2>5, <2>6, <2>7
<1>. QED
  BY <1>11, <1>12, <1>13, <1>14

(* Pools are put one after the other in any order of doing it.              *)
LEMMA BlocksConcat ==
  ASSUME NEW s1 \in Seq(Block), NEW s2 \in Seq(Block), NEW s3 \in Seq(Block)
  PROVE  (s1 \o s2) \o s3 = s1 \o (s2 \o s3)
BY ConcatAssociative

(* What Carve and Carved are made of.                                       *)
LEMMA CarveParts ==
  ASSUME NEW p \in Seq(Block), NEW i \in 1 .. Len(p), NEW want, NEW align, NEW created
  PROVE  /\ H!Carved(p, i, want, align, created)
              = Piece(p[i], H!Waste(p[i], align), want, created)
         /\ H!Carve(p, i, want, align, created)
              = SubSeq(p, 1, i - 1) \o Before(p[i], H!Waste(p[i], align))
                \o Behind(p[i], H!Waste(p[i], align), want, created)
                \o SubSeq(p, i + 1, Len(p))
BY Zenon DEF H!Carve, H!Carved, H!Tail_, H!End, Piece, Before, Behind

(* From a block that it fits in a chunk is taken: what is left of the pool  *)
(* is in order and has all its cells but those of the chunk.                *)
LEMMA CarveTakes ==
  ASSUME NEW r \in Block, NEW p, PoolOK(p, r), NEW i \in 1 .. Len(p),
         NEW want \in Nat \ {0}, NEW align \in Nat \ {0}, NEW created \in BOOLEAN,
         H!Waste(p[i], align) + want <= p[i].size,
         NEW c, c = H!Carved(p, i, want, align, created),
         NEW q, q = H!Carve(p, i, want, align, created)
  PROVE  /\ c \in Block /\ want <= c.size /\ Inside(c, r)
         /\ PoolOK(q, r)
         /\ \A x \in Int : Within(x, c) => InPool(x, p)
         /\ \A x \in Int : InPool(x, q) <=> InPool(x, p) /\ ~Within(x, c)
<1>. DEFINE b == p[i]
            waste == H!Waste(b, align)
            front == Before(b, waste)
            back == Behind(b, waste, want, created)
            mid == front \o back
<1>1. p \in Seq(Block) /\ Len(p) \in Nat /\ DOMAIN p = 1 .. Len(p) /\ b \in Block
      /\ (\A k \in 1 .. Len(p) : p[k] \in Block)
  BY DEF PoolOK
<1>2. waste \in Nat /\ waste + want <= b.size
  <2>1. b.base \in Int
    BY <1>1 DEF Block
  <2>2. (-b.base) % align \in Nat
    BY <2>1
  <2>. QED
    BY <2>2 DEF H!Waste
<1>3. /\ c = Piece(b, waste, want, created)
      /\ q = SubSeq(p, 1, i - 1) \o front \o back \o SubSeq(p, i + 1, Len(p))
  <2>1. p \in Seq(Block) /\ i \in 1 .. Len(p)
    BY <1>1
  <2>2. /\ H!Carved(p, i, want, align, created) = Piece(p[i], H!Waste(p[i], align), want, created)
        /\ H!Carve(p, i, want, align, created)
             = SubSeq(p, 1, i - 1) \o Before(p[i], H!Waste(p[i], align))
               \o Behind(p[i], H!Waste(p[i], align), want, created)
               \o SubSeq(p, i + 1, Len(p))
    BY <2>1, CarveParts
  <2>. QED
    BY <2>2
<1>5. /\ c \in Block /\ want <= c.size /\ Inside(c, b)
      /\ front \in Seq(Block) /\ back \in Seq(Block)
      /\ PoolOK(mid, b)
      /\ \A x \in Int : InPool(x, mid) <=> Within(x, b) /\ ~Within(x, c)
  BY <1>1, <1>2, <1>3, CutOut
<1>6. q = SubSeq(p, 1, i - 1) \o mid \o SubSeq(p, i + 1, Len(p))
  <2>. DEFINE start == SubSeq(p, 1, i - 1)
  <2>1. start \in Seq(Block)
    <3>1. \A k \in 1 .. i - 1 : p[k] \in Block
      BY <1>1
    <3>2. i - 1 \in Int
      OBVIOUS
    <3>. QED
      BY <3>1, <3>2, SubSeqProperties
  <2>. HIDE DEF start, front, back
  <2>2. (start \o front) \o back = start \o (front \o back)
    BY <1>5, <2>1, BlocksConcat
  <2>. QED
    BY <1>3, <2>2 DEF start
<1>7. Inside(b, r)
  BY DEF PoolOK
<1>. HIDE DEF b, waste, front, back, mid
<1>8. /\ mid \in Seq(Block) /\ Len(mid) \in Nat
      /\ \A k \in 1 .. Len(mid) : mid[k] \in Block /\ Inside(mid[k], b)
  BY <1>5 DEF PoolOK
<1>9. PoolOK(mid, r)
  <2>1. \A k \in 1 .. Len(mid) : Inside(mid[k], r)
    BY <1>1, <1>7, <1>8, Nested
  <2>. QED
    BY <1>5, <2>1 DEF PoolOK
<1>10. \A l \in 1 .. Len(p) :
         /\ l < i => Ahead(p[l], b)
         /\ l > i => Ahead(b, p[l])
  BY DEF PoolOK, b
<1>11. Fits(mid, p, i, i + 1)
  <2>1. \A l \in 1 .. i - 1 : l \in 1 .. Len(p) /\ l < i
    BY <1>1
  <2>2. \A l \in i + 1 .. Len(p) : l \in 1 .. Len(p) /\ l > i
    BY <1>1
  <2>. QED
    BY <1>1, <1>8, <1>10, <2>1, <2>2, Nested DEF Fits
<1>12. /\ PoolOK(q, r)
       /\ \A x \in Int : InPool(x, q) <=> \/ \E k \in 1 .. i - 1 : Within(x, p[k])
                                         \/ InPool(x, mid)
                                         \/ \E k \in i + 1 .. Len(p) : Within(x, p[k])
  <2>1. i \in 1 .. Len(p) + 1 /\ i + 1 \in i .. Len(p) + 1
    BY <1>1
  <2>2. Replaced(q, p, i, mid, i + 1)
    BY <1>1, <1>6, <1>8, <2>1, SpliceReplaces
  <2>. QED
    BY ONLY <1>9, <1>11, <2>1, <2>2, r \in Block, PoolOK(p, r), ReplacedPool
<1>13. ASSUME NEW x \in Int, Within(x, c)
       PROVE  Within(x, b)
  <2>1. b.base \in Nat /\ b.size \in Nat /\ c.base \in Nat /\ c.size \in Nat
    BY <1>1, <1>5 DEF Block
  <2>2. /\ c.base <= x /\ x < c.base + c.size
        /\ b.base <= c.base /\ c.base + c.size <= b.base + b.size
    BY <1>5, <1>13 DEF Within, Inside
  <2>3. b.base <= x /\ x < b.base + b.size
    BY <2>1, <2>2
  <2>. QED
    BY <2>3 DEF Within
<1>14. ASSUME NEW x \in Int, Within(x, b), NEW k \in 1 .. Len(p), Within(x, p[k])
       PROVE  k = i
  <2>1. p[k].base \in Nat /\ p[k].size \in Nat /\ b.base \in Nat /\ b.size \in Nat
    BY <1>1 DEF Block
  <2>2. /\ b.base <= x /\ x < b.base + b.size
        /\ p[k].base <= x /\ x < p[k].base + p[k].size
    BY <1>14 DEF Within
  <2>3. ~Ahead(p[k], b) /\ ~Ahead(b, p[k])
    BY ONLY <2>1, <2>2, x \in Int DEF Ahead
  <2>4. ~(k < i) /\ ~(k > i)
    BY <1>10, <2>3
  <2>. QED
    BY <1>1, <2>4
<1>15. ASSUME NEW x \in Int
       PROVE  /\ Within(x, c) => InPool(x, p)
              /\ InPool(x, q) <=> InPool(x, p) /\ ~Within(x, c)
  <2>1. InPool(x, p) <=> \E k \in 1 .. Len(p) : Within(x, p[k])
    BY <1>1 DEF InPool
  <2>2. \A k : k \in 1 .. Len(p) <=> k \in 1 .. i - 1 \/ k = i \/ k \in i + 1 .. Len(p)
    BY <1>1
  <2>3. InPool(x, p) <=> \/ \E k \in 1 .. i - 1 : Within(x, p[k])
                         \/ Within(x, b)
                         \/ \E k \in i + 1 .. Len(p) : Within(x, p[k])
    BY <2>1, <2>2 DEF b
  <2>4. Within(x, c) => /\ ~\E k \in 1 .. i - 1 : Within(x, p[k])
                        /\ ~\E k \in i + 1 .. Len(p) : Within(x, p[k])
    <3>1. \A k \in 1 .. i - 1 : k \in 1 .. Len(p) /\ k # i
      BY <1>1
    <3>2. \A k \in i + 1 .. Len(p) : k \in 1 .. Len(p) /\ k # i
      BY <1>1
    <3>. QED
      BY <1>13, <1>14, <3>1, <3>2
  <2>5. InPool(x, mid) <=> Within(x, b) /\ ~Within(x, c)
    BY <1>5
  <2>. QED
    BY <1>12, <1>13, <2>3, <2>4, <2>5
<1>16. Inside(c, r)
  BY <1>1, <1>5, <1>7, Nested
<1>. QED
  BY <1>5, <1>12, <1>15, <1>16

(* What is asked for is rounded up.                                         *)
LEMMA PaddedCovers ==
  ASSUME NEW n \in Nat \ {0}, NEW align \in Nat \ {0}
  PROVE  H!Padded(n, align) \in Nat \ {0} /\ n <= H!Padded(n, align)
<1>. DEFINE s == n + align - 1
<1>1. s \in Nat /\ align \in Int /\ align > 0
  OBVIOUS
<1>. HIDE DEF s
<1>2. s \div align \in Int
  BY <1>1
<1>3. (s \div align) * align <= s
  BY <1>1
<1>4. s < (s \div align) * align + align
  BY <1>1
<1>5. H!Padded(n, align) = (s \div align) * align
  BY DEF H!Padded, s
<1>. QED
  BY <1>1, <1>2, <1>3, <1>4, <1>5 DEF s

(* A multiple of n is zero or n away from it.                               *)
LEMMA TimesAtLeast ==
  ASSUME NEW m \in Int, NEW n \in Nat \ {0}
  PROVE  /\ m >= 1 => m * n >= n
         /\ m <= -1 => m * n <= -n
<1>1. CASE m >= 1
  <2>1. (m - 1) * n >= 0
    BY <1>1
  <2>2. (m - 1) * n = m * n - n
    OBVIOUS
  <2>. QED
    BY <1>1, <2>1, <2>2
<1>2. CASE m <= -1
  <2>1. (-1 - m) * n >= 0
    BY <1>2
  <2>2. (-1 - m) * n = -n - m * n
    OBVIOUS
  <2>. QED
    BY <1>2, <2>1, <2>2
<1>. QED
  BY <1>1, <1>2

(* What \div and % are to each other.                                       *)
LEMMA Divides ==
  ASSUME NEW y \in Int, NEW n \in Nat \ {0}
  PROVE  /\ y = (y \div n) * n + (y % n)
         /\ y \div n \in Int /\ y % n \in Int /\ 0 <= y % n /\ y % n < n
<1>1. n \in Int /\ n > 0
  OBVIOUS
<1>2. y \div n \in Int /\ y % n \in Int
  BY <1>1
<1>3. 0 <= y % n
  BY <1>1
<1>4. y % n < n
  BY <1>1
<1>5. y = n * (y \div n) + (y % n)
  BY <1>1
<1>6. n * (y \div n) = (y \div n) * n
  BY <1>1, <1>2
<1>. QED
  BY <1>2, <1>3, <1>4, <1>5, <1>6

(* Multiples of n leave nothing.                                           *)
LEMMA MultipleLeavesNothing ==
  ASSUME NEW k \in Int, NEW n \in Nat \ {0}
  PROVE  (k * n) % n = 0
<1>. DEFINE y == k * n
           d == y \div n
           r == y % n
<1>1. y \in Int
  OBVIOUS
<1>. HIDE DEF y
<1>2. y = d * n + r /\ d \in Int /\ r \in Int /\ 0 <= r /\ r < n
  BY <1>1, Divides
<1>. HIDE DEF d, r
<1>3. (k - d) * n = k * n - d * n
  BY <1>2
<1>4. (k - d) * n = r
  BY <1>1, <1>2, <1>3 DEF y
<1>5. k - d \in Int
  BY <1>2
<1>. DEFINE m == k - d
<1>6. m * n = r /\ m \in Int
  BY <1>4, <1>5
<1>. HIDE DEF m
<1>7. ~(m >= 1) /\ ~(m <= -1)
  BY <1>2, <1>6, TimesAtLeast
<1>8. m = 0
  BY <1>6, <1>7
<1>9. r = 0
  BY <1>6, <1>8
<1>. QED
  BY <1>9 DEF r, y

(* What is left before an aligned address is the least that may be.         *)
LEMMA WasteAligns ==
  ASSUME NEW x \in Int, NEW n \in Nat \ {0}
  PROVE  /\ (-x) % n \in Nat
         /\ (x + ((-x) % n)) % n = 0
         /\ \A a \in Int : x <= a /\ a % n = 0 => (-x) % n <= a - x
<1>. DEFINE w == (-x) % n
           q == (-x) \div n
<1>1. -x = q * n + w /\ q \in Int /\ w \in Int /\ 0 <= w /\ w < n
  BY Divides
<1>. HIDE DEF w, q
<1>2. x + w = (-q) * n
  BY <1>1
<1>3. (x + w) % n = 0
  <2>1. -q \in Int
    BY <1>1
  <2>2. ((-q) * n) % n = 0
    BY <2>1, MultipleLeavesNothing
  <2>. QED
    BY <1>2, <2>2
<1>4. ASSUME NEW a \in Int, x <= a, a % n = 0 PROVE w <= a - x
  <2>. DEFINE e == a \div n
  <2>1. a = e * n /\ e \in Int
    BY <1>4, Divides
  <2>. HIDE DEF e
  <2>2. a - x - w = (e + q) * n
    <3>1. (e + q) * n = e * n + q * n
      BY <1>1, <2>1
    <3>. QED
      BY <1>1, <2>1, <3>1
  <2>3. a - x - w > -n
    BY <1>1, <1>4
  <2>4. e + q \in Int
    BY <1>1, <2>1
  <2>5. ~(e + q <= -1)
    BY <2>2, <2>3, <2>4, TimesAtLeast
  <2>6. (e + q) * n >= 0
    BY <2>4, <2>5
  <2>. QED
    BY <1>1, <2>2, <2>6
<1>. QED
  BY <1>1, <1>3, <1>4 DEF w

(* The first address of a block that may begin a chunk.                     *)
LEMMA WasteIsLeast ==
  ASSUME NEW b \in Block, NEW align \in Nat \ {0}
  PROVE  /\ H!Waste(b, align) \in Nat
         /\ (b.base + H!Waste(b, align)) % align = 0
         /\ \A a \in Int : b.base <= a /\ a % align = 0 => H!Waste(b, align) <= a - b.base
<1>1. b.base \in Int
  BY DEF Block
<1>2. H!Waste(b, align) = (-b.base) % align
  BY DEF H!Waste
<1>. DEFINE x == b.base
<1>3. x \in Int
  BY <1>1
<1>. HIDE DEF x
<1>4. /\ (-x) % align \in Nat
      /\ (x + ((-x) % align)) % align = 0
      /\ \A a \in Int : x <= a /\ a % align = 0 => (-x) % align <= a - x
  BY <1>3, WasteAligns
<1>. QED
  BY <1>2, <1>4 DEF x

-------------------------------------------------------------------------------
(***************************************************************************)
(* MemPool::Deallocate: the chunk joins the blocks that it touches.        *)
(***************************************************************************)

(* m comes after what is before place i of p, and before what is from j on   *)
Between(m, p, i, j) ==
  /\ \A l \in 1 .. i - 1 : Ahead(p[l], m)
  /\ \A l \in j .. Len(p) : Ahead(m, p[l])

(* One block in the place of those from i up to j.                          *)
LEMMA OnePutIn ==
  ASSUME NEW r \in Block, NEW p, PoolOK(p, r), NEW i \in 1 .. Len(p) + 1, NEW j \in i .. Len(p) + 1,
         NEW m \in Block, Inside(m, r), NEW q, Replaced(q, p, i, <<m>>, j),
         Between(m, p, i, j)
  PROVE  /\ PoolOK(q, r)
         /\ \A x \in Int : InPool(x, q) <=> \/ \E k \in 1 .. i - 1 : Within(x, p[k])
                                           \/ Within(x, m)
                                           \/ \E k \in j .. Len(p) : Within(x, p[k])
<1>. DEFINE mid == <<m>>
<1>1. mid \in Seq(Block) /\ Len(mid) = 1 /\ mid[1] = m /\ DOMAIN mid = {1}
  OBVIOUS
<1>2. Replaced(q, p, i, mid, j)
  OBVIOUS
<1>. HIDE DEF mid
<1>3. \A k \in 1 .. Len(mid) : k = 1 /\ mid[k] = m
  BY <1>1
<1>4. PoolOK(mid, r)
  <2>1. \A k, l \in 1 .. Len(mid) : ~(k < l)
    BY <1>1
  <2>. QED
    BY <1>1, <1>3, <2>1 DEF PoolOK
<1>5. Fits(mid, p, i, j)
  BY <1>3 DEF Fits, Between
<1>6. \A x : InPool(x, mid) <=> Within(x, m)
  BY <1>1 DEF InPool
<1>7. /\ PoolOK(q, r)
      /\ \A x \in Int : InPool(x, q) <=> \/ \E k \in 1 .. i - 1 : Within(x, p[k])
                                        \/ InPool(x, mid)
                                        \/ \E k \in j .. Len(p) : Within(x, p[k])
  BY ONLY <1>2, <1>4, <1>5, r \in Block, PoolOK(p, r), i \in 1 .. Len(p) + 1,
          j \in i .. Len(p) + 1, ReplacedPool
<1>. QED
  BY <1>6, <1>7

(* The cells of a pool, before, at and from a place on.                     *)
LEMMA CellsSplit ==
  ASSUME NEW p \in Seq(Block), NEW i \in 1 .. Len(p) + 1
  PROVE  /\ \A x : InPool(x, p) <=> \/ \E k \in 1 .. i - 1 : Within(x, p[k])
                                    \/ \E k \in i .. Len(p) : Within(x, p[k])
         /\ i <= Len(p) => \A x : (\E k \in i .. Len(p) : Within(x, p[k])) <=>
                                    \/ Within(x, p[i])
                                    \/ \E k \in i + 1 .. Len(p) : Within(x, p[k])
<1>1. Len(p) \in Nat /\ DOMAIN p = 1 .. Len(p)
  OBVIOUS
<1>2. \A k : k \in 1 .. Len(p) <=> k \in 1 .. i - 1 \/ k \in i .. Len(p)
  BY <1>1
<1>3. i <= Len(p) => \A k : k \in i .. Len(p) <=> k = i \/ k \in i + 1 .. Len(p)
  BY <1>1
<1>4. \A x : InPool(x, p) <=> \E k \in 1 .. Len(p) : Within(x, p[k])
  BY <1>1 DEF InPool
<1>. QED
  BY <1>2, <1>3, <1>4

(* the chunk c is not in the pool: each block is clear of it, before or     *)
(* after                                                                    *)
Apart(b, c) == b.base + b.size <= c.base \/ c.base + c.size <= b.base

(* A block that has no cell of c is clear of it.                            *)
LEMMA NoCellApart ==
  ASSUME NEW b \in Block, NEW c \in Block, \A x \in Int : ~(Within(x, b) /\ Within(x, c))
  PROVE  Apart(b, c)
<1>1. b.base \in Nat /\ b.size \in Nat \ {0} /\ c.base \in Nat /\ c.size \in Nat \ {0}
  BY DEF Block
<1>2. ~(Within(b.base, b) /\ Within(b.base, c)) /\ ~(Within(c.base, b) /\ Within(c.base, c))
  BY <1>1
<1>. QED
  BY <1>1, <1>2 DEF Within, Apart

(* The ways in which a pool gets one block in place of others.              *)
LEMMA AppendReplaces ==
  ASSUME NEW p \in Seq(Block), NEW c \in Block
  PROVE  Replaced(Append(p, c), p, Len(p) + 1, <<c>>, Len(p) + 1)
<1>. DEFINE q == Append(p, c)
            mid == <<c>>
            n == Len(p)
<1>1. /\ q \in Seq(Block) /\ Len(q) = n + 1 /\ n \in Nat
      /\ (\A k \in 1 .. n : q[k] = p[k]) /\ q[n + 1] = c
  BY AppendProperties
<1>2. Len(mid) = 1 /\ mid[1] = c
  OBVIOUS
<1>. HIDE DEF q, mid, n
<1>3. Len(q) = (n + 1 - 1) + Len(mid) + (n + 1 - (n + 1))
  BY <1>1, <1>2
<1>4. ASSUME NEW k \in 1 .. Len(q)
      PROVE  q[k] = IF k < n + 1 THEN p[k] ELSE IF k < n + 1 + Len(mid) THEN mid[k - (n + 1) + 1]
                    ELSE p[k - (n + 1) - Len(mid) + (n + 1)]
  <2>1. k \in 1 .. n \/ k = n + 1
    BY <1>1
  <2>2. k \in 1 .. n => k < n + 1
    BY <1>1
  <2>3. k = n + 1 => ~(k < n + 1) /\ k < n + 1 + Len(mid) /\ k - (n + 1) + 1 = 1
    BY <1>1, <1>2
  <2>. QED
    BY <1>1, <1>2, <2>1, <2>2, <2>3
<1>5. Replaced(q, p, n + 1, mid, n + 1)
  BY <1>1, <1>3, <1>4 DEF Replaced, n
<1>. QED
  BY <1>5 DEF q, mid, n

(* A block that is changed.                                                 *)
LEMMA ExceptReplaces ==
  ASSUME NEW p \in Seq(Block), NEW i \in 1 .. Len(p), NEW m \in Block
  PROVE  Replaced([p EXCEPT ![i] = m], p, i, <<m>>, i + 1)
<1>. DEFINE q == [p EXCEPT ![i] = m]
            mid == <<m>>
            n == Len(p)
<1>1. /\ q \in Seq(Block) /\ Len(q) = n /\ n \in Nat /\ i \in 1 .. n
      /\ \A k \in 1 .. n : q[k] = IF k = i THEN m ELSE p[k]
  BY ExceptSeq
<1>2. Len(mid) = 1 /\ mid[1] = m
  OBVIOUS
<1>. HIDE DEF q, mid, n
<1>3. Len(q) = (i - 1) + Len(mid) + (n + 1 - (i + 1))
  BY <1>1, <1>2
<1>4. ASSUME NEW k \in 1 .. Len(q)
      PROVE  q[k] = IF k < i THEN p[k] ELSE IF k < i + Len(mid) THEN mid[k - i + 1]
                    ELSE p[k - i - Len(mid) + (i + 1)]
  <2>1. k < i => k # i
    BY <1>1
  <2>2. k = i => ~(k < i) /\ k < i + Len(mid) /\ k - i + 1 = 1
    BY <1>1, <1>2
  <2>3. k > i => ~(k < i) /\ ~(k < i + Len(mid)) /\ k - i - Len(mid) + (i + 1) = k /\ k # i
    BY <1>1, <1>2
  <2>4. k \in 1 .. n /\ (k < i \/ k = i \/ k > i)
    BY <1>1
  <2>. QED
    BY <1>1, <1>2, <2>1, <2>2, <2>3, <2>4
<1>5. Replaced(q, p, i, mid, i + 1)
  BY <1>1, <1>3, <1>4 DEF Replaced, n
<1>. QED
  BY <1>5 DEF q, mid

(* A block put before another.                                              *)
LEMMA InsertReplaces ==
  ASSUME NEW p \in Seq(Block), NEW i \in 1 .. Len(p), NEW c \in Block
  PROVE  Replaced(H!InsertAt(p, i, c), p, i, <<c>>, i)
<1>1. <<c>> \in Seq(Block) /\ i \in 1 .. Len(p) + 1 /\ i \in i .. Len(p) + 1
  OBVIOUS
<1>. QED
  BY <1>1, SpliceReplaces DEF H!InsertAt

(* The block at place i takes in the next one if they touch; no others do.  *)
LEMMA CoalesceReplaces ==
  ASSUME NEW p \in Seq(Block), NEW i \in 1 .. Len(p),
         \A k \in i + 2 .. Len(p) : H!End(p[k - 1]) # p[k].base,
         NEW last, last = IF i < Len(p) /\ H!End(p[i]) = p[i + 1].base THEN i + 1 ELSE i,
         NEW m \in Block, m = H!Chunk(p[i].base, H!End(p[last]) - p[i].base)
  PROVE  Replaced(H!CoalesceRight(p, i), p, i, <<m>>, last + 1)
<1>. DEFINE touching == {j \in i .. Len(p) : \A k \in i + 1 .. j : H!End(p[k - 1]) = p[k].base}
<1>1. Len(p) \in Nat /\ i \in Nat /\ i >= 1 /\ i <= Len(p)
  OBVIOUS
<1>2. last \in touching
  <2>1. \A k \in i + 1 .. i : FALSE
    BY <1>1
  <2>2. i < Len(p) => i + 1 \in i .. Len(p) /\ \A k \in i + 1 .. i + 1 : k = i + 1 /\ k - 1 = i
    BY <1>1
  <2>. QED
    BY <1>1, <2>1, <2>2
<1>3. ASSUME NEW j \in touching PROVE j <= last
  <2>1. j \in i .. Len(p) /\ \A k \in i + 1 .. j : H!End(p[k - 1]) = p[k].base
    OBVIOUS
  <2>. HIDE DEF touching
  <2>2. j > i => i < Len(p) /\ i + 1 \in i + 1 .. j /\ (i + 1) - 1 = i
    BY <1>1, <2>1
  <2>3. j > i + 1 => i + 2 \in i + 1 .. j /\ i + 2 \in i + 2 .. Len(p)
    BY <1>1, <2>1
  <2>4. j <= i + 1
    BY <1>1, <2>1, <2>3
  <2>5. j > i => last = i + 1
    BY <2>1, <2>2
  <2>. QED
    BY <1>1, <2>1, <2>4, <2>5
<1>4. touching \subseteq Nat
  BY <1>1
<1>. HIDE DEF touching
<1>5. (CHOOSE j \in touching : \A k \in touching : k <= j) = last
  <2>. DEFINE top == CHOOSE j \in touching : \A k \in touching : k <= j
  <2>1. top \in touching /\ \A k \in touching : k <= top
    BY <1>2, <1>3
  <2>2. top \in Nat /\ last \in Nat /\ top <= last /\ last <= top
    BY <1>2, <1>3, <1>4, <2>1
  <2>. HIDE DEF top
  <2>3. top = last
    BY <2>2
  <2>. QED
    BY <2>3 DEF top
<1>6. H!CoalesceRight(p, i) = SubSeq(p, 1, i - 1) \o <<m>> \o SubSeq(p, last + 1, Len(p))
  BY <1>5 DEF H!CoalesceRight, touching
<1>7. i \in 1 .. Len(p) + 1 /\ last + 1 \in i .. Len(p) + 1 /\ <<m>> \in Seq(Block)
  BY <1>1
<1>8. Replaced(SubSeq(p, 1, i - 1) \o <<m>> \o SubSeq(p, last + 1, Len(p)), p, i, <<m>>, last + 1)
  <2>1. p \in Seq(Block)
    OBVIOUS
  <2>. QED
    BY ONLY <1>7, <2>1, SpliceReplaces
<1>. QED
  BY <1>6, <1>8

(* the first block behind the chunk c, or right before it                   *)
Place(p, c) ==
  LET I == {i \in 1 .. Len(p) : p[i].base > c.base \/ H!End(p[i]) = c.base}
  IN  IF I # {} THEN H!Min(I) ELSE 0

(* The place divides the pool.                                              *)
LEMMA PlaceDivides ==
  ASSUME NEW p \in Seq(Block), NEW c \in Block
  PROVE  LET i == Place(p, c)
         IN  /\ i = 0 => \A l \in 1 .. Len(p) : p[l].base <= c.base /\ H!End(p[l]) # c.base
             /\ i # 0 => /\ i \in 1 .. Len(p)
                         /\ p[i].base > c.base \/ H!End(p[i]) = c.base
                         /\ \A l \in 1 .. i - 1 : p[l].base <= c.base /\ H!End(p[l]) # c.base
<1>. DEFINE I == {i \in 1 .. Len(p) : p[i].base > c.base \/ H!End(p[i]) = c.base}
            i == Place(p, c)
<1>1. i = IF I # {} THEN H!Min(I) ELSE 0
  BY DEF Place
<1>2. /\ c.base \in Nat /\ Len(p) \in Nat
      /\ \A l \in 1 .. Len(p) : p[l].base \in Nat
  <2>1. Len(p) \in Nat /\ \A l \in 1 .. Len(p) : p[l] \in Block
    OBVIOUS
  <2>. QED
    BY ONLY <2>1, c \in Block DEF Block
<1>3. \A l \in 1 .. Len(p) : l \notin I => p[l].base <= c.base /\ H!End(p[l]) # c.base
  BY <1>2
<1>4. I \subseteq Nat
  BY <1>2
<1>5. CASE I = {}
  BY <1>1, <1>3, <1>5
<1>6. CASE I # {}
  <2>1. i \in I /\ \A l \in I : i <= l
    <3>. HIDE DEF I
    <3>. QED
      BY <1>1, <1>4, <1>6, LeastIsMin
  <2>2. i \in 1 .. Len(p) /\ (p[i].base > c.base \/ H!End(p[i]) = c.base)
    BY <2>1
  <2>3. \A l \in 1 .. i - 1 : l \in 1 .. Len(p) /\ l \notin I
    <3>1. \A l \in 1 .. i - 1 : l \in 1 .. Len(p) /\ ~(i <= l)
      BY <1>2, <2>2
    <3>. QED
      BY <2>1, <3>1
  <2>4. i # 0
    BY <2>2
  <2>. HIDE DEF I, i
  <2>. QED
    BY <1>3, <2>2, <2>3, <2>4 DEF i
<1>. QED
  BY <1>5, <1>6

(* Deallocate, by the place and how the chunk lies to it.                   *)
LEMMA DeallocateCases ==
  ASSUME NEW p, NEW c, NEW created
  PROVE  LET i == Place(p, c)
         IN  H!Deallocate(p, c, created) =
               IF i = 0 THEN IF created THEN Append(p, c) ELSE p
               ELSE IF p[i].base <= c.base
                 THEN H!CoalesceRight([p EXCEPT ![i].size = @ + c.size], i)
               ELSE IF H!End(c) = p[i].base
                 THEN [p EXCEPT ![i] = H!Chunk(c.base, H!End(@) - c.base)]
               ELSE IF created THEN H!InsertAt(p, i, c) ELSE p
BY Zenon DEF H!Deallocate, H!SelectInSeq, Place

(* A chunk that is none of the pool's goes where it belongs, or nowhere.    *)
Kept(q, p, c) == \A x \in Int : InPool(x, q) <=> InPool(x, p)
Grown(q, p, c) == \A x \in Int : InPool(x, q) <=> InPool(x, p) \/ Within(x, c)

HasCells(m, p, i, j, c) ==
  \A x \in Int : Within(x, m) <=> Within(x, p[i]) \/ Within(x, p[j]) \/ Within(x, c)

(* A new block in a gap.                                                    *)
LEMMA GapFilled ==
  ASSUME NEW r \in Block, NEW p, PoolOK(p, r), NEW i \in 1 .. Len(p) + 1,
         NEW c \in Block, Inside(c, r), NEW q, Replaced(q, p, i, <<c>>, i),
         Between(c, p, i, i)
  PROVE  PoolOK(q, r) /\ Grown(q, p, c)
<1>1. p \in Seq(Block) /\ Len(p) \in Nat
  BY DEF PoolOK
<1>2. i \in i .. Len(p) + 1
  BY <1>1
<1>3. /\ PoolOK(q, r)
      /\ \A x \in Int : InPool(x, q) <=> \/ \E k \in 1 .. i - 1 : Within(x, p[k])
                                        \/ Within(x, c)
                                        \/ \E k \in i .. Len(p) : Within(x, p[k])
  BY <1>2, OnePutIn
<1>. QED
  BY <1>1, <1>3, CellsSplit DEF Grown

(* A block takes the place of the one at i, and of the next if j says so,   *)
(* and has their cells and those of c.                                      *)
LEMMA BlockGrown ==
  ASSUME NEW r \in Block, NEW p, PoolOK(p, r),
         NEW i \in 1 .. Len(p), NEW j \in {i, i + 1}, j <= Len(p),
         NEW c \in Block, NEW m \in Block, Inside(m, r), NEW q, Replaced(q, p, i, <<m>>, j + 1),
         Between(m, p, i, j + 1), HasCells(m, p, i, j, c)
  PROVE  PoolOK(q, r) /\ Grown(q, p, c)
<1>1. p \in Seq(Block) /\ Len(p) \in Nat /\ i \in Nat /\ i <= Len(p) /\ i >= 1
  BY DEF PoolOK
<1>2. i \in 1 .. Len(p) + 1 /\ j + 1 \in i .. Len(p) + 1 /\ j \in 1 .. Len(p) + 1
  BY <1>1
<1>3. /\ PoolOK(q, r)
      /\ \A x \in Int : InPool(x, q) <=> \/ \E k \in 1 .. i - 1 : Within(x, p[k])
                                        \/ Within(x, m)
                                        \/ \E k \in j + 1 .. Len(p) : Within(x, p[k])
  BY <1>2, OnePutIn
<1>4. \A x : InPool(x, p) <=> \/ \E k \in 1 .. i - 1 : Within(x, p[k])
                              \/ Within(x, p[i]) \/ Within(x, p[j])
                              \/ \E k \in j + 1 .. Len(p) : Within(x, p[k])
  <2>1. /\ \A x : InPool(x, p) <=> \/ \E k \in 1 .. i - 1 : Within(x, p[k])
                                   \/ \E k \in i .. Len(p) : Within(x, p[k])
        /\ \A x : (\E k \in i .. Len(p) : Within(x, p[k])) <=>
                    \/ Within(x, p[i])
                    \/ \E k \in i + 1 .. Len(p) : Within(x, p[k])
    BY <1>1, <1>2, CellsSplit
  <2>2. CASE j = i
    BY <2>1, <2>2
  <2>3. CASE j = i + 1
    <3>1. \A x : (\E k \in j .. Len(p) : Within(x, p[k])) <=>
                    \/ Within(x, p[j])
                    \/ \E k \in j + 1 .. Len(p) : Within(x, p[k])
      BY <1>1, <1>2, CellsSplit
    <3>. QED
      BY <2>1, <2>3, <3>1
  <2>. QED
    BY <2>2, <2>3
<1>. QED
  BY <1>3, <1>4 DEF Grown, HasCells

(* A chunk that no block of the pool has a cell of, in one of its gaps:     *)
(* blocks before it end before it begins, and blocks behind it begin after  *)
(* it ends, or they touch it.                                               *)
LEMMA DeallocatePuts ==
  ASSUME NEW r \in Block, NEW p, PoolOK(p, r), NEW c \in Block, Inside(c, r),
         \A x \in Int : ~(InPool(x, p) /\ Within(x, c)),
         NEW created \in BOOLEAN, NEW q, q = H!Deallocate(p, c, created)
  PROVE  PoolOK(q, r) /\ (Kept(q, p, c) \/ Grown(q, p, c))
<1>. DEFINE i == Place(p, c)
            n == Len(p)
<1>1. /\ p \in Seq(Block) /\ n \in Nat
      /\ \A l \in 1 .. n : p[l] \in Block /\ Apart(p[l], c) /\ Inside(p[l], r)
  <2>1. p \in Seq(Block) /\ n \in Nat /\ DOMAIN p = 1 .. n /\ \A l \in 1 .. n : p[l] \in Block /\ Inside(p[l], r)
    BY DEF PoolOK
  <2>2. ASSUME NEW l \in 1 .. n PROVE Apart(p[l], c)
    <3>1. \A x \in Int : ~(Within(x, p[l]) /\ Within(x, c))
      BY <2>1 DEF InPool
    <3>. QED
      BY <2>1, <3>1, NoCellApart
  <2>. QED
    BY <2>1, <2>2
<1>2. /\ c.base \in Nat /\ c.size \in Nat \ {0}
      /\ \A l \in 1 .. n : p[l].base \in Nat /\ p[l].size \in Nat \ {0}
  BY ONLY <1>1, c \in Block DEF Block
<1>3. /\ \A l \in 1 .. n : H!End(p[l]) = p[l].base + p[l].size
      /\ H!End(c) = c.base + c.size
  BY DEF H!End
<1>4. \A k, l \in 1 .. n : k < l => Ahead(p[k], p[l])
  BY DEF PoolOK
<1>. HIDE DEF i, n
(* before the place *)
<1>5. ASSUME NEW l \in 1 .. n, p[l].base <= c.base, H!End(p[l]) # c.base
      PROVE  Ahead(p[l], c)
  <2>1. /\ p[l].base \in Nat /\ p[l].size \in Nat \ {0} /\ c.base \in Nat /\ c.size \in Nat \ {0}
        /\ p[l].base + p[l].size # c.base
    BY <1>2, <1>3, <1>5
  <2>2. p[l].base + p[l].size <= c.base \/ c.base + c.size <= p[l].base
    BY <1>1 DEF Apart
  <2>3. p[l].base + p[l].size < c.base
    BY ONLY <1>5, <2>1, <2>2
  <2>. QED
    BY <2>3 DEF Ahead
(* behind it *)
<1>6. ASSUME NEW l \in 1 .. n, p[l].base > c.base
      PROVE  c.base + c.size <= p[l].base
  <2>1. /\ p[l].base \in Nat /\ p[l].size \in Nat \ {0} /\ c.base \in Nat /\ c.size \in Nat \ {0}
    BY <1>2
  <2>2. p[l].base + p[l].size <= c.base \/ c.base + c.size <= p[l].base
    BY <1>1 DEF Apart
  <2>. QED
    BY ONLY <1>6, <2>1, <2>2
<1>7. q = IF i = 0 THEN IF created THEN Append(p, c) ELSE p
          ELSE IF p[i].base <= c.base
            THEN H!CoalesceRight([p EXCEPT ![i].size = @ + c.size], i)
          ELSE IF H!End(c) = p[i].base
            THEN [p EXCEPT ![i] = H!Chunk(c.base, H!End(@) - c.base)]
          ELSE IF created THEN H!InsertAt(p, i, c) ELSE p
  BY DeallocateCases DEF i
<1>8. /\ i = 0 => \A l \in 1 .. n : p[l].base <= c.base /\ H!End(p[l]) # c.base
      /\ i # 0 => /\ i \in 1 .. n
                  /\ p[i].base > c.base \/ H!End(p[i]) = c.base
                  /\ \A l \in 1 .. i - 1 : p[l].base <= c.base /\ H!End(p[l]) # c.base
  BY <1>1, PlaceDivides DEF i, n
<1>9. PoolOK(p, r) /\ Kept(p, p, c)
  BY DEF Kept
<1>10. CASE i = 0
  <2>1. CASE ~created
    BY <1>7, <1>9, <1>10, <2>1
  <2>2. CASE created
    <3>1. Replaced(q, p, n + 1, <<c>>, n + 1)
      BY <1>1, <1>7, <1>10, <2>2, AppendReplaces DEF n
    <3>2. \A l \in 1 .. (n + 1) - 1 : Ahead(p[l], c)
      <4>1. \A l \in 1 .. (n + 1) - 1 : l \in 1 .. n
        BY <1>1
      <4>. QED
        BY <1>5, <1>8, <1>10, <4>1
    <3>3. \A l \in n + 1 .. n : FALSE
      BY <1>1
    <3>4. n + 1 \in 1 .. n + 1
      BY <1>1
    <3>5. Between(c, p, n + 1, n + 1)
      BY <3>2, <3>3 DEF Between, n
    <3>. QED
      BY <3>1, <3>4, <3>5, GapFilled DEF n
  <2>. QED
    BY <2>1, <2>2
<1>11. ASSUME i # 0
       PROVE  /\ i \in 1 .. n /\ i \in Nat
              /\ \A l \in 1 .. i - 1 : l \in 1 .. n /\ Ahead(p[l], c) /\ Ahead(p[l], p[i])
              /\ \A l \in i + 1 .. n : l \in 1 .. n /\ Ahead(p[i], p[l])
  <2>1. i \in 1 .. n /\ i \in Nat
    BY <1>1, <1>8, <1>11
  <2>2. \A l \in 1 .. i - 1 : l \in 1 .. n /\ l < i
    BY <1>1, <2>1
  <2>3. \A l \in i + 1 .. n : l \in 1 .. n /\ i < l
    BY <1>1, <2>1
  <2>. QED
    BY <1>4, <1>5, <1>8, <1>11, <2>1, <2>2, <2>3
<1>12. ASSUME i # 0, p[i].base > c.base
       PROVE  \A l \in i + 1 .. n : Ahead(c, p[l])
  <2>1. c.base + c.size <= p[i].base
    BY <1>6, <1>11, <1>12
  <2>. SUFFICES ASSUME NEW l \in i + 1 .. n PROVE Ahead(c, p[l])
    OBVIOUS
  <2>2. l \in 1 .. n /\ i \in 1 .. n /\ p[i].base + p[i].size < p[l].base
    BY <1>11, <1>12 DEF Ahead
  <2>3. c.base + c.size < p[l].base
    BY <1>2, <2>1, <2>2
  <2>. QED
    BY <2>3 DEF Ahead
<1>13. CASE i # 0 /\ p[i].base > c.base /\ H!End(c) # p[i].base
  <2>1. ~(p[i].base <= c.base)
    BY <1>2, <1>11, <1>13
  <2>2. CASE ~created
    BY <1>7, <1>9, <1>13, <2>1, <2>2
  <2>3. CASE created
    <3>1. Replaced(q, p, i, <<c>>, i)
      BY <1>1, <1>7, <1>11, <1>13, <2>1, <2>3, InsertReplaces DEF n
    <3>2. Ahead(c, p[i])
      <4>1. c.base + c.size <= p[i].base /\ c.base + c.size # p[i].base
        BY <1>3, <1>6, <1>11, <1>13
      <4>. QED
        BY <1>2, <1>11, <1>13, <4>1 DEF Ahead
    <3>3. \A l \in i .. n : Ahead(c, p[l])
      <4>1. \A l \in i .. n : l = i \/ l \in i + 1 .. n
        BY <1>1, <1>11, <1>13
      <4>. QED
        BY <1>12, <1>13, <3>2, <4>1
    <3>4. i \in 1 .. n + 1
      BY <1>1, <1>11, <1>13
    <3>5. Between(c, p, i, i)
      BY <1>11, <1>13, <3>3 DEF Between, n
    <3>. QED
      BY <3>1, <3>4, <3>5, GapFilled DEF n
  <2>. QED
    BY <2>2, <2>3
<1>14. CASE i # 0 /\ p[i].base > c.base /\ H!End(c) = p[i].base
  <2>. DEFINE m == H!Chunk(c.base, H!End(p[i]) - c.base)
  <2>1. ~(p[i].base <= c.base)
    BY <1>2, <1>11, <1>14
  <2>2. /\ i \in 1 .. n /\ p[i].base \in Nat /\ p[i].size \in Nat \ {0}
        /\ c.base + c.size = p[i].base /\ H!End(p[i]) = p[i].base + p[i].size
    BY <1>2, <1>3, <1>11, <1>14
  <2>3. m.base = c.base /\ m.size = H!End(p[i]) - c.base
    BY DEF H!Chunk
  <2>4. m.size = c.size + p[i].size
    BY <1>2, <2>2, <2>3
  <2>5. m \in Block
    <3>1. c.base \in Nat /\ H!End(p[i]) - c.base \in Nat \ {0}
      BY <1>2, <2>2
    <3>. QED
      BY <3>1 DEF H!Chunk, Block
  <2>6. q = [p EXCEPT ![i] = m]
    BY <1>1, <1>7, <1>14, <2>1, <2>2
  <2>. HIDE DEF m
  <2>7. Replaced(q, p, i, <<m>>, i + 1)
    BY <1>1, <2>2, <2>5, <2>6, ExceptReplaces DEF n
  <2>8. Inside(m, r)
    <3>1. /\ r.base <= c.base /\ p[i].base + p[i].size <= r.base + r.size
      BY <1>1, <2>2 DEF Inside
    <3>2. m.base + m.size = p[i].base + p[i].size
      BY ONLY <1>2, <2>2, <2>3, <2>4
    <3>. QED
      BY <2>3, <3>1, <3>2 DEF Inside
  <2>9. \A l \in 1 .. i - 1 : Ahead(p[l], m)
    BY <1>11, <1>14, <2>3 DEF Ahead
  <2>10. \A l \in i + 1 .. n : Ahead(m, p[l])
    <3>1. m.base + m.size = p[i].base + p[i].size
      BY ONLY <1>2, <2>2, <2>3, <2>4
    <3>. QED
      BY <1>11, <1>14, <3>1 DEF Ahead
  <2>11. \A x \in Int : Within(x, m) <=> Within(x, p[i]) \/ Within(x, c)
    <3>. SUFFICES ASSUME NEW x \in Int PROVE Within(x, m) <=> Within(x, p[i]) \/ Within(x, c)
      OBVIOUS
    <3>1. (c.base <= x /\ x < c.base + (c.size + p[i].size))
          <=> (p[i].base <= x /\ x < p[i].base + p[i].size) \/ (c.base <= x /\ x < c.base + c.size)
      BY ONLY <1>2, <2>2, x \in Int
    <3>. QED
      BY <2>3, <2>4, <3>1 DEF Within
  <2>12. i \in {i, i + 1} /\ i <= n
    BY <1>1, <2>2
  <2>13. Between(m, p, i, i + 1) /\ HasCells(m, p, i, i, c)
    BY <2>9, <2>10, <2>11 DEF Between, HasCells, n
  <2>14. i \in 1 .. Len(p) /\ i <= Len(p)
    BY <2>2, <2>12 DEF n
  <2>. QED
    BY <2>5, <2>7, <2>8, <2>12, <2>13, <2>14, BlockGrown
<1>15. CASE i # 0 /\ p[i].base <= c.base
  <2>. DEFINE b == [p[i] EXCEPT !.size = @ + c.size]
              s == [p EXCEPT ![i].size = @ + c.size]
              merged == i < n /\ c.base + c.size = p[i + 1].base
              last == IF merged THEN i + 1 ELSE i
              m == H!Chunk(p[i].base, H!End(s[last]) - p[i].base)
  <2>1. /\ i \in 1 .. n /\ i \in Nat /\ p[i] \in Block /\ p[i].base \in Nat /\ p[i].size \in Nat \ {0}
        /\ p[i].base + p[i].size = c.base
    <3>1. i \in 1 .. n /\ i \in Nat /\ p[i] \in Block /\ p[i].base \in Nat /\ p[i].size \in Nat \ {0}
      BY <1>1, <1>2, <1>11, <1>15
    <3>. QED
      BY <1>2, <1>3, <1>8, <1>15, <3>1
  <2>2. b \in Block /\ b.base = p[i].base /\ b.size = p[i].size + c.size
    <3>1. p[i].size + c.size \in Nat \ {0}
      BY <1>2, <2>1
    <3>. QED
      BY <2>1, <3>1 DEF Block
  <2>3. /\ s \in Seq(Block) /\ Len(s) = n
        /\ \A l \in 1 .. n : s[l] = IF l = i THEN b ELSE p[l]
    <3>1. s = [p EXCEPT ![i] = b]
      BY <1>1, <2>1
    <3>. HIDE DEF s, b
    <3>. QED
      BY <1>1, <2>1, <2>2, <3>1, ExceptSeq DEF n
  <2>4. q = H!CoalesceRight(s, i)
    BY <1>7, <1>15
  <2>. HIDE DEF s, b
  <2>5. \A l \in 1 .. n : H!End(s[l]) = IF l = i THEN c.base + c.size ELSE p[l].base + p[l].size
    <3>1. H!End(b) = c.base + c.size
      <4>1. p[i].base + (p[i].size + c.size) = c.base + c.size
        BY ONLY <1>2, <2>1
      <4>. QED
        BY <2>2, <4>1 DEF H!End
    <3>. QED
      BY <1>3, <2>3, <3>1
  <2>6. \A k \in i + 2 .. n : H!End(s[k - 1]) # s[k].base
    <3>. SUFFICES ASSUME NEW k \in i + 2 .. n PROVE H!End(s[k - 1]) # s[k].base
      OBVIOUS
    <3>1. k \in 1 .. n /\ k - 1 \in 1 .. n /\ k - 1 < k /\ k # i /\ k - 1 # i
      BY <1>1, <2>1
    <3>2. p[k - 1].base + p[k - 1].size < p[k].base
      BY <1>4, <3>1 DEF Ahead
    <3>3. H!End(s[k - 1]) = p[k - 1].base + p[k - 1].size /\ s[k].base = p[k].base
      BY <2>3, <2>5, <3>1
    <3>. QED
      BY <1>2, <3>1, <3>2, <3>3
  <2>7. /\ last \in 1 .. n /\ last \in {i, i + 1} /\ last <= n /\ last \in Nat
        /\ last = IF i < Len(s) /\ H!End(s[i]) = s[i + 1].base THEN i + 1 ELSE i
    <3>1. i < n => i + 1 \in 1 .. n /\ i + 1 # i
      BY <1>1, <2>1
    <3>2. i < n => s[i + 1] = p[i + 1]
      BY <2>3, <3>1
    <3>3. H!End(s[i]) = c.base + c.size
      BY <2>1, <2>5
    <3>4. last \in 1 .. n /\ last \in {i, i + 1} /\ last <= n /\ last \in Nat
      BY <1>1, <2>1
    <3>. QED
      BY <2>3, <3>2, <3>3, <3>4
  <2>. DEFINE top == H!End(s[last])
  <2>8. /\ top = IF last = i THEN c.base + c.size ELSE p[last].base + p[last].size
        /\ top \in Nat
        /\ last = i + 1 => p[last].base = c.base + c.size /\ last # i
    <3>1. last = i + 1 => merged /\ last # i
      BY <2>1
    <3>. HIDE DEF last
    <3>2. top = IF last = i THEN c.base + c.size ELSE p[last].base + p[last].size
      BY <2>5, <2>7
    <3>3. p[last].base + p[last].size \in Nat /\ c.base + c.size \in Nat
      <4>1. p[last].base \in Nat /\ p[last].size \in Nat /\ c.base \in Nat /\ c.size \in Nat
        BY <1>2, <2>7
      <4>. QED
        BY ONLY <4>1
    <3>4. top \in Nat
      BY <3>2, <3>3
    <3>. QED
      BY <3>1, <3>2, <3>4
  <2>9. last = i \/ last = i + 1
    BY <2>7
  <2>. HIDE DEF last, top
  <2>10. p[i].base + p[i].size + c.size <= top
    <3>1. CASE last = i
      BY <1>2, <2>1, <2>8, <3>1
    <3>2. CASE last = i + 1
      <4>1. p[last].base \in Nat /\ p[last].size \in Nat
        BY <1>2, <2>7
      <4>. QED
        BY <1>2, <2>1, <2>8, <3>2, <4>1
    <3>. QED
      BY <2>9, <3>1, <3>2
  <2>11. m \in Block /\ m.base = p[i].base /\ m.size = top - p[i].base /\ m.base + m.size = top
    <3>1. top - p[i].base \in Nat \ {0} /\ p[i].base + (top - p[i].base) = top
      BY <1>2, <2>1, <2>8, <2>10
    <3>2. m = [base |-> p[i].base, size |-> top - p[i].base]
      BY DEF H!Chunk, top
    <3>3. m.base = p[i].base /\ m.size = top - p[i].base
      BY <3>2
    <3>. QED
      BY <2>1, <3>1, <3>2, <3>3 DEF Block
  <2>12. m = H!Chunk(s[i].base, H!End(s[last]) - s[i].base)
    BY <2>1, <2>2, <2>3
  <2>. HIDE DEF m, merged
  <2>13. Replaced(q, s, i, <<m>>, last + 1)
    BY <2>1, <2>3, <2>4, <2>6, <2>7, <2>11, <2>12, CoalesceReplaces
  <2>14. Replaced(q, p, i, <<m>>, last + 1)
    <3>. DEFINE mid == <<m>>
    <3>1. Len(mid) = 1
      OBVIOUS
    <3>. HIDE DEF mid
    <3>2. /\ q \in Seq(Block)
          /\ Len(q) = (i - 1) + Len(mid) + (n + 1 - (last + 1))
          /\ \A k \in 1 .. Len(q) :
               q[k] = IF k < i THEN s[k]
                      ELSE IF k < i + Len(mid) THEN mid[k - i + 1]
                      ELSE s[k - i - Len(mid) + (last + 1)]
      BY <2>3, <2>13 DEF Replaced, mid
    <3>3. ASSUME NEW k \in 1 .. Len(q)
          PROVE  /\ k < i => k \in 1 .. n /\ k # i
                 /\ ~(k < i + Len(mid)) => LET l == k - i - Len(mid) + (last + 1)
                                           IN  l \in 1 .. n /\ l # i
      BY <1>1, <2>1, <2>7, <2>9, <3>1, <3>2
    <3>4. ASSUME NEW k \in 1 .. Len(q)
          PROVE  q[k] = IF k < i THEN p[k]
                        ELSE IF k < i + Len(mid) THEN mid[k - i + 1]
                        ELSE p[k - i - Len(mid) + (last + 1)]
      BY <2>3, <3>2, <3>3
    <3>5. Replaced(q, p, i, mid, last + 1)
      BY <3>2, <3>4 DEF Replaced, n
    <3>. QED
      BY <3>5 DEF mid
  <2>15. Inside(m, r)
    <3>1. /\ r.base <= p[i].base /\ c.base + c.size <= r.base + r.size
          /\ p[last].base + p[last].size <= r.base + r.size
      BY <1>1, <2>1, <2>7 DEF Inside
    <3>. QED
      BY <2>8, <2>9, <2>11, <3>1 DEF Inside
  <2>16. \A l \in 1 .. i - 1 : Ahead(p[l], m)
    BY <1>11, <1>15, <2>11 DEF Ahead
  <2>17. \A l \in last + 1 .. n : Ahead(m, p[l])
    <3>. SUFFICES ASSUME NEW l \in last + 1 .. n PROVE top < p[l].base
      BY <2>11 DEF Ahead
    <3>1. l \in 1 .. n /\ last < l /\ i < l
      BY <1>1, <2>1, <2>7, <2>9
    <3>2. CASE last = i + 1
      BY <1>4, <2>7, <2>8, <3>1, <3>2 DEF Ahead
    <3>3. CASE last = i
      <4>1. i < n /\ i + 1 \in 1 .. n /\ c.base + c.size # p[i + 1].base
        <5>1. i < n /\ i + 1 \in 1 .. n
          BY <1>1, <2>1, <3>1
        <5>. QED
          BY <2>1, <3>3, <5>1 DEF last, merged
      <4>2. p[i].base + p[i].size < p[i + 1].base
        BY <1>4, <2>1, <4>1 DEF Ahead
      <4>3. c.base + c.size < p[i + 1].base
        <5>1. c.base + c.size <= p[i + 1].base
          BY <1>2, <1>6, <2>1, <4>1, <4>2
        <5>. QED
          BY <1>2, <4>1, <5>1
      <4>4. l = i + 1 \/ p[i + 1].base + p[i + 1].size < p[l].base
        <5>1. l = i + 1 \/ i + 1 < l
          BY <2>1, <3>1
        <5>. QED
          BY <1>4, <3>1, <4>1, <5>1 DEF Ahead
      <4>. QED
        BY <1>2, <2>8, <3>1, <3>3, <4>1, <4>3, <4>4
    <3>. QED
      BY <2>9, <3>2, <3>3
  <2>18. \A x \in Int : Within(x, m) <=> Within(x, p[i]) \/ Within(x, p[last]) \/ Within(x, c)
    <3>. SUFFICES ASSUME NEW x \in Int
                  PROVE  Within(x, m) <=> Within(x, p[i]) \/ Within(x, p[last]) \/ Within(x, c)
      OBVIOUS
    <3>1. /\ Within(x, m) <=> p[i].base <= x /\ x < top
          /\ Within(x, p[i]) <=> p[i].base <= x /\ x < c.base
          /\ Within(x, c) <=> c.base <= x /\ x < c.base + c.size
          /\ Within(x, p[last]) <=> p[last].base <= x /\ x < p[last].base + p[last].size
      BY <2>1, <2>11 DEF Within
    <3>2. p[last].base \in Nat /\ p[last].size \in Nat \ {0}
      BY <1>2, <2>7
    <3>3. CASE last = i
      <4>1. top = c.base + c.size
        BY <2>8, <3>3
      <4>. QED
        BY <1>2, <2>1, <3>1, <3>3, <4>1
    <3>4. CASE last = i + 1
      <4>1. top = p[last].base + p[last].size /\ p[last].base = c.base + c.size
        BY <2>8, <3>4
      <4>. QED
        BY <1>2, <2>1, <3>1, <3>2, <4>1
    <3>. QED
      BY <2>9, <3>3, <3>4
  <2>. QED
    <3>1. i \in 1 .. Len(p) /\ last <= Len(p) /\ last \in {i, i + 1} /\ m \in Block
      BY <2>1, <2>7, <2>11 DEF n
    <3>2. Between(m, p, i, last + 1) /\ HasCells(m, p, i, last, c)
      BY <2>16, <2>17, <2>18 DEF Between, HasCells, n
    <3>. QED
      BY <2>14, <2>15, <3>1, <3>2, BlockGrown
<1>16. i # 0 => p[i].base > c.base \/ p[i].base <= c.base
  BY <1>2, <1>11
<1>. QED
  BY <1>10, <1>13, <1>14, <1>15, <1>16

-------------------------------------------------------------------------------
(***************************************************************************)
(* The heap: its pools, the chunks of its map and the cells it has lost.   *)
(***************************************************************************)

(* cells and pieces of the heap *)
InPools(x, P) == \E k \in DOMAIN P : InPool(x, P[k])
InChunks(x, M) == \E n \in M : Within(x, n)
InHeap(x) == \E k \in DOMAIN regions : Within(x, regions[k])
NoCellShared(b, c) == \A x \in Int : ~(Within(x, b) /\ Within(x, c))

(* a cell of the heap is free, in a chunk, or lost, and no two of these     *)
Parted(x, P, M, L) ==
  /\ InHeap(x) <=> InPools(x, P) \/ InChunks(x, M) \/ x \in L
  /\ ~(InPools(x, P) /\ InChunks(x, M))
  /\ ~(InPools(x, P) /\ x \in L)
  /\ ~(InChunks(x, M) /\ x \in L)

PoolsOK(P) == DOMAIN P = DOMAIN regions /\ \A k \in DOMAIN P : PoolOK(P[k], regions[k])
ChunksOK(M) ==
  /\ \A n \in M : n \in Block /\ \E k \in DOMAIN regions : Inside(n, regions[k])
  /\ \A m, n \in M : m # n => NoCellShared(m, n)
BuffersOK(B, M) ==
  /\ \A b \in B : b \in Block /\ \E n \in M : n.base = b.base /\ b.size <= n.size
  /\ \A b, d \in B : b.base = d.base => b = d
HeapSound(P, M, B, L) ==
  /\ PoolsOK(P) /\ ChunksOK(M) /\ BuffersOK(B, M)
  /\ L \subseteq Int
  /\ \A x \in Int : Parted(x, P, M, L)

(* A heap is one region, or two of which one lies behind the other.         *)
LEMMA RegionsLie ==
  ASSUME regions \in Layouts
  PROVE  /\ regions \in Seq(Block)
         /\ Len(regions) \in {1, 2} /\ DOMAIN regions = 1 .. Len(regions)
         /\ Len(regions) = 2 => regions[1].base + regions[1].size <= regions[2].base
         /\ \A k \in DOMAIN regions : regions[k] \in Block
<1>1. regions \in Seq([base : Nat, size : Nat \ {0}]) /\ Len(regions) \in {1, 2}
      /\ (Len(regions) = 2 => regions[1].base + regions[1].size <= regions[2].base)
  BY HeapAssumption DEF H!HeapAssumption
<1>2. regions \in Seq(Block)
  BY <1>1 DEF Block
<1>3. DOMAIN regions = 1 .. Len(regions) /\ \A k \in DOMAIN regions : regions[k] \in Block
  BY <1>2
<1>. QED
  BY <1>1, <1>2, <1>3

(* The regions have no cell in common, and the pool of an address is the    *)
(* one whose region it is in.                                               *)
LEMMA PoolOfInside ==
  ASSUME regions \in Layouts, NEW c \in Block, NEW k \in DOMAIN regions, Inside(c, regions[k])
  PROVE  H!PoolOf(c.base) = k
<1>1. c.base \in Nat /\ c.size \in Nat \ {0}
  BY DEF Block
<1>2. \A l \in DOMAIN regions : regions[l].base \in Nat /\ regions[l].size \in Nat
  BY RegionsLie DEF Block
<1>3. CASE k = 1
  <2>1. Len(regions) = 2 => ~(c.base >= regions[2].base)
    <3>1. SUFFICES ASSUME Len(regions) = 2 PROVE ~(c.base >= regions[2].base)
      OBVIOUS
    <3>2. /\ regions[1].base \in Nat /\ regions[1].size \in Nat /\ regions[2].base \in Nat
          /\ regions[1].base + regions[1].size <= regions[2].base
      BY <1>2, <3>1, RegionsLie
    <3>. QED
      BY <1>1, <1>3, <3>2 DEF Inside
  <2>. QED
    BY <1>3, <2>1 DEF H!PoolOf
<1>4. CASE k # 1
  <2>1. Len(regions) = 2 /\ k = 2
    BY <1>4, RegionsLie
  <2>. QED
    BY <2>1 DEF H!PoolOf, Inside
<1>. QED
  BY <1>3, <1>4

(* No cell is in two regions.                                               *)
LEMMA RegionsShareNothing ==
  ASSUME regions \in Layouts, NEW k \in DOMAIN regions, NEW l \in DOMAIN regions, k # l,
         NEW x \in Int
  PROVE  ~(Within(x, regions[k]) /\ Within(x, regions[l]))
<1>1. Len(regions) = 2 /\ ((k = 1 /\ l = 2) \/ (k = 2 /\ l = 1))
  BY RegionsLie
<1>2. /\ regions[1].base \in Nat /\ regions[1].size \in Nat /\ regions[2].base \in Nat
      /\ regions[1].base + regions[1].size <= regions[2].base
  BY <1>1, RegionsLie DEF Block
<1>. QED
  BY <1>1, <1>2 DEF Within

(* A cell of a piece is a cell of what the piece is in, and a block has a   *)
(* cell, its first.                                                         *)
LEMMA CellsInside ==
  ASSUME NEW b \in Block, NEW r \in Block
  PROVE  /\ Inside(b, r) => \A x \in Int : Within(x, b) => Within(x, r)
         /\ Within(b.base, b) /\ b.base \in Int
<1>1. b.base \in Nat /\ b.size \in Nat \ {0} /\ r.base \in Nat /\ r.size \in Nat
  BY DEF Block
<1>. QED
  BY <1>1 DEF Inside, Within

(* Blocks that share no cell do not begin at the same address.              *)
LEMMA BasesDiffer ==
  ASSUME NEW b \in Block, NEW c \in Block, NoCellShared(b, c)
  PROVE  b.base # c.base
BY CellsInside DEF NoCellShared, Block, Within

(* The cells of a pool are in its region.                                   *)
LEMMA PoolsInside ==
  ASSUME regions \in Layouts, NEW P, PoolsOK(P), NEW k \in DOMAIN P, NEW x \in Int, InPool(x, P[k])
  PROVE  Within(x, regions[k])
<1>1. k \in DOMAIN regions /\ PoolOK(P[k], regions[k]) /\ regions[k] \in Block
  BY RegionsLie DEF PoolsOK
<1>2. PICK i \in DOMAIN P[k] : Within(x, P[k][i])
  BY DEF InPool
<1>3. P[k][i] \in Block /\ Inside(P[k][i], regions[k])
  BY <1>1 DEF PoolOK
<1>. QED
  BY <1>1, <1>2, <1>3, CellsInside

(* pool k has become q                                                      *)
OnlyPool(k, q, Q, P) == k \in DOMAIN regions /\ Q = [P EXCEPT ![k] = q]

(* A pool that is replaced.                                                 *)
LEMMA OnePoolReplaced ==
  ASSUME NEW P, PoolsOK(P), NEW k, NEW q, PoolOK(q, regions[k]), NEW Q, OnlyPool(k, q, Q, P)
  PROVE  /\ PoolsOK(Q) /\ Q[k] = q
         /\ \A x \in Int : InPools(x, P) <=> \/ InPool(x, P[k])
                                             \/ \E l \in DOMAIN regions \ {k} : InPool(x, P[l])
         /\ \A x \in Int : InPools(x, Q) <=> \/ InPool(x, q)
                                             \/ \E l \in DOMAIN regions \ {k} : InPool(x, P[l])
<1>1. /\ DOMAIN P = DOMAIN regions /\ DOMAIN Q = DOMAIN regions /\ Q[k] = q
      /\ \A l \in DOMAIN regions \ {k} : Q[l] = P[l]
  BY DEF PoolsOK, OnlyPool
<1>2. k \in DOMAIN regions /\ PoolsOK(Q)
  BY <1>1 DEF PoolsOK, OnlyPool
<1>3. ASSUME NEW x
      PROVE  /\ InPools(x, P) <=> \/ InPool(x, P[k])
                                  \/ \E l \in DOMAIN regions \ {k} : InPool(x, P[l])
             /\ InPools(x, Q) <=> \/ InPool(x, q)
                                  \/ \E l \in DOMAIN regions \ {k} : InPool(x, P[l])
  BY <1>1, <1>2 DEF InPools
<1>. QED
  BY <1>1, <1>2, <1>3

(* A cell of one pool is in no other.                                       *)
LEMMA OnePoolEach ==
  ASSUME regions \in Layouts, NEW P, PoolsOK(P), NEW k \in DOMAIN regions, NEW x \in Int,
         Within(x, regions[k])
  PROVE  ~\E l \in DOMAIN regions \ {k} : InPool(x, P[l])
<1>1. SUFFICES ASSUME NEW l \in DOMAIN regions \ {k}, InPool(x, P[l])
               PROVE  FALSE
  OBVIOUS
<1>2. Within(x, regions[l])
  BY <1>1, PoolsInside DEF PoolsOK
<1>. QED
  BY <1>1, <1>2, RegionsShareNothing

(* a chunk of at least `want` is taken from block i of pool k               *)
Taken(c, Q, P, k, i, want, align, created) ==
  /\ k \in DOMAIN regions /\ want \in Nat \ {0} /\ align \in Nat \ {0} /\ created \in BOOLEAN
  /\ i \in 1 .. Len(P[k]) /\ H!Waste(P[k][i], align) + want <= P[k][i].size
  /\ c = H!Carved(P[k], i, want, align, created)
  /\ Q = [P EXCEPT ![k] = H!Carve(@, i, want, align, created)]

(* A chunk that is taken from a pool is a chunk of the heap, and a new one. *)
LEMMA ChunkTaken ==
  ASSUME regions \in Layouts, NEW P, NEW M, NEW B, NEW L, HeapSound(P, M, B, L),
         NEW k, NEW i, NEW want, NEW align, NEW created,
         NEW c, NEW Q, Taken(c, Q, P, k, i, want, align, created)
  PROVE  /\ HeapSound(Q, M \cup {c}, B, L)
         /\ c \in Block /\ want <= c.size
         /\ \A n \in M : n.base # c.base
<1>. DEFINE q == H!Carve(P[k], i, want, align, created)
<1>0. /\ k \in DOMAIN regions /\ want \in Nat \ {0} /\ align \in Nat \ {0} /\ created \in BOOLEAN
      /\ i \in 1 .. Len(P[k]) /\ H!Waste(P[k][i], align) + want <= P[k][i].size
      /\ c = H!Carved(P[k], i, want, align, created)
      /\ Q = [P EXCEPT ![k] = q]
  BY DEF Taken
<1>1. PoolsOK(P) /\ ChunksOK(M) /\ BuffersOK(B, M) /\ \A x \in Int : Parted(x, P, M, L)
  BY DEF HeapSound
<1>2. PoolOK(P[k], regions[k]) /\ regions[k] \in Block
  BY <1>0, <1>1, RegionsLie DEF PoolsOK
<1>3. /\ c \in Block /\ want <= c.size /\ Inside(c, regions[k])
      /\ PoolOK(q, regions[k])
      /\ \A x \in Int : Within(x, c) => InPool(x, P[k])
      /\ \A x \in Int : InPool(x, q) <=> InPool(x, P[k]) /\ ~Within(x, c)
  BY <1>0, <1>2, CarveTakes
<1>4. OnlyPool(k, q, Q, P)
  BY <1>0 DEF OnlyPool
<1>. HIDE DEF q
<1>5. /\ PoolsOK(Q)
      /\ \A x \in Int : InPools(x, P) <=> \/ InPool(x, P[k])
                                          \/ \E l \in DOMAIN regions \ {k} : InPool(x, P[l])
      /\ \A x \in Int : InPools(x, Q) <=> \/ InPool(x, q)
                                          \/ \E l \in DOMAIN regions \ {k} : InPool(x, P[l])
  <2>1. PoolsOK(P) /\ PoolOK(q, regions[k])
    BY <1>1, <1>3
  <2>. QED
    BY ONLY <1>4, <2>1, OnePoolReplaced
<1>6. \A x \in Int : Within(x, c) => ~\E l \in DOMAIN regions \ {k} : InPool(x, P[l])
  <2>1. \A x \in Int : Within(x, c) => Within(x, regions[k])
    BY <1>2, <1>3, CellsInside
  <2>. QED
    BY <1>0, <1>1, <2>1, OnePoolEach
<1>7. \A x \in Int : /\ Within(x, c) => InPools(x, P)
                     /\ InPools(x, Q) <=> InPools(x, P) /\ ~Within(x, c)
  BY <1>3, <1>5, <1>6
<1>8. \A n \in M : NoCellShared(n, c) /\ NoCellShared(c, n)
  <2>1. SUFFICES ASSUME NEW n \in M, NEW x \in Int, Within(x, n), Within(x, c)
                 PROVE  FALSE
    BY DEF NoCellShared
  <2>2. InChunks(x, M)
    BY <2>1 DEF InChunks
  <2>. QED
    BY <1>1, <1>7, <2>1, <2>2 DEF Parted
<1>9. ChunksOK(M \cup {c})
  <2>1. \A n \in M : n \in Block /\ \E l \in DOMAIN regions : Inside(n, regions[l])
    BY <1>1 DEF ChunksOK
  <2>2. \A m, n \in M : m # n => NoCellShared(m, n)
    BY <1>1 DEF ChunksOK
  <2>3. \A n \in M \cup {c} : n \in Block /\ \E l \in DOMAIN regions : Inside(n, regions[l])
    BY <1>0, <1>3, <2>1
  <2>4. \A m, n \in M \cup {c} : m # n => NoCellShared(m, n)
    BY <1>8, <2>2
  <2>. QED
    BY <2>3, <2>4 DEF ChunksOK
<1>10. BuffersOK(B, M \cup {c})
  BY <1>1 DEF BuffersOK
<1>11. ASSUME NEW x \in Int
       PROVE  Parted(x, Q, M \cup {c}, L)
  <2>1. InChunks(x, M \cup {c}) <=> InChunks(x, M) \/ Within(x, c)
    BY DEF InChunks
  <2>. QED
    BY <1>1, <1>7, <2>1 DEF Parted
<1>12. \A n \in M : n.base # c.base
  BY <1>1, <1>3, <1>8, BasesDiffer DEF ChunksOK
<1>. QED
  BY <1>3, <1>5, <1>9, <1>10, <1>11, <1>12 DEF HeapSound

(* x \in Cells(c) and the like, said of numbers.                            *)
LEMMA CellsAreWithin ==
  ASSUME NEW S, S \subseteq Block
  PROVE  /\ \A c \in S : \A x : x \in H!Cells(c) <=> x \in Int /\ Within(x, c)
         /\ \A x : x \in H!AllCells(S) <=> x \in Int /\ InChunks(x, S)
<1>1. ASSUME NEW c \in S, NEW x PROVE x \in H!Cells(c) <=> x \in Int /\ Within(x, c)
  <2>1. c.base \in Nat /\ c.size \in Nat
    BY DEF Block
  <2>. QED
    BY <2>1 DEF H!Cells, Within
<1>2. ASSUME NEW x PROVE x \in H!AllCells(S) <=> x \in Int /\ InChunks(x, S)
  BY <1>1 DEF H!AllCells, InChunks
<1>. QED
  BY <1>1, <1>2

(* The cells of the blocks of a pool.                                       *)
LEMMA CellsOfPool ==
  ASSUME NEW p \in Seq(Block)
  PROVE  \A x : x \in H!AllCells(H!Range(p)) <=> x \in Int /\ InPool(x, p)
<1>1. H!Range(p) = {p[i] : i \in DOMAIN p} /\ H!Range(p) \subseteq Block
  BY DEF H!Range
<1>2. \A x : x \in H!AllCells(H!Range(p)) <=> x \in Int /\ InChunks(x, H!Range(p))
  BY <1>1, CellsAreWithin
<1>. QED
  BY <1>1, <1>2 DEF InChunks, InPool

(* What the free cells are, next to what they were.                         *)
Same(Q, P)    == \A x \in Int : InPools(x, Q) <=> InPools(x, P)
More(Q, P, c) == \A x \in Int : InPools(x, Q) <=> InPools(x, P) \/ Within(x, c)
Less(Q, P, c) == \A x \in Int : InPools(x, Q) <=> InPools(x, P) /\ ~Within(x, c)

(* A chunk that no buffer needs is put back into its pool, or it    *)
(* is lost, all of it.                                                      *)
LEMMA ChunkGivenBack ==
  ASSUME regions \in Layouts, NEW P, NEW M, NEW B, NEW L, HeapSound(P, M, B, L),
         NEW n \in M, \A b \in B : b.base # n.base, NEW created \in BOOLEAN,
         NEW k, k = H!PoolOf(n.base),
         NEW Q, Q = [P EXCEPT ![k] = H!Deallocate(@, n, created)]
  PROVE  /\ HeapSound(Q, M \ {n}, B, L \cup (H!Cells(n) \ H!AllCells(H!Range(Q[k]))))
         /\ Same(Q, P) \/ More(Q, P, n)
<1>. DEFINE q == H!Deallocate(P[k], n, created)
            stray == H!Cells(n) \ H!AllCells(H!Range(Q[k]))
<1>1. PoolsOK(P) /\ ChunksOK(M) /\ BuffersOK(B, M) /\ (\A x \in Int : Parted(x, P, M, L))
      /\ L \subseteq Int
  BY DEF HeapSound
<1>2. n \in Block /\ k \in DOMAIN regions /\ Inside(n, regions[k])
  <2>1. PICK l \in DOMAIN regions : Inside(n, regions[l])
    BY <1>1 DEF ChunksOK
  <2>2. n \in Block
    BY <1>1 DEF ChunksOK
  <2>. QED
    BY <2>1, <2>2, PoolOfInside
<1>3. PoolOK(P[k], regions[k]) /\ regions[k] \in Block
  BY <1>1, <1>2, RegionsLie DEF PoolsOK
<1>4. ASSUME NEW x \in Int, Within(x, n) PROVE InChunks(x, M) /\ ~InPools(x, P)
  BY <1>1, <1>4 DEF Parted, InChunks
<1>5. \A x \in Int : ~(InPool(x, P[k]) /\ Within(x, n))
  BY <1>1, <1>2, <1>4 DEF InPools, PoolsOK
<1>6. PoolOK(q, regions[k]) /\ (Kept(q, P[k], n) \/ Grown(q, P[k], n))
  BY <1>2, <1>3, <1>5, DeallocatePuts
<1>7. OnlyPool(k, q, Q, P)
  BY <1>2 DEF OnlyPool
<1>. HIDE DEF q
<1>8. /\ PoolsOK(Q) /\ Q[k] = q
      /\ \A x \in Int : InPools(x, P) <=> \/ InPool(x, P[k])
                                          \/ \E l \in DOMAIN regions \ {k} : InPool(x, P[l])
      /\ \A x \in Int : InPools(x, Q) <=> \/ InPool(x, q)
                                          \/ \E l \in DOMAIN regions \ {k} : InPool(x, P[l])
  <2>1. PoolsOK(P) /\ PoolOK(q, regions[k])
    BY <1>1, <1>6
  <2>. QED
    BY ONLY <1>7, <2>1, OnePoolReplaced
<1>9. \A x \in Int : x \in stray <=> Within(x, n) /\ ~InPool(x, q)
  <2>1. q \in Seq(Block)
    BY <1>6 DEF PoolOK
  <2>2. \A x : x \in H!AllCells(H!Range(q)) <=> x \in Int /\ InPool(x, q)
    BY <2>1, CellsOfPool
  <2>3. \A x : x \in H!Cells(n) <=> x \in Int /\ Within(x, n)
    <3>1. {n} \subseteq Block
      BY <1>2
    <3>. QED
      BY <3>1, CellsAreWithin
  <2>. QED
    BY <1>8, <2>2, <2>3
<1>10. stray \subseteq Int
  <2>1. {n} \subseteq Block
    BY <1>2
  <2>. QED
    BY <2>1, CellsAreWithin
<1>. HIDE DEF stray
<1>11. ASSUME NEW x \in Int
       PROVE  /\ ~Within(x, n) => (InPools(x, Q) <=> InPools(x, P)) /\ ~(x \in stray)
              /\ Within(x, n) => (x \in stray <=> ~InPools(x, Q)) /\ ~InPools(x, P) /\ InChunks(x, M)
  <2>1. ~Within(x, n) => (InPool(x, q) <=> InPool(x, P[k]))
    BY <1>6 DEF Kept, Grown
  <2>. QED
    BY <1>4, <1>8, <1>9, <2>1
<1>12. \A x \in Int : InChunks(x, M \ {n}) <=> InChunks(x, M) /\ ~Within(x, n)
  <2>1. \A m \in M \ {n} : NoCellShared(m, n)
    BY <1>1 DEF ChunksOK
  <2>. QED
    BY <2>1 DEF InChunks, NoCellShared
<1>13. ASSUME NEW x \in Int
       PROVE  Parted(x, Q, M \ {n}, L \cup stray)
  <2>1. Parted(x, P, M, L)
    BY <1>1
  <2>. QED
    BY <1>11, <1>12, <2>1 DEF Parted
<1>14. ChunksOK(M \ {n})
  BY <1>1 DEF ChunksOK
<1>15. BuffersOK(B, M \ {n})
  BY <1>1 DEF BuffersOK
<1>16. Same(Q, P) \/ More(Q, P, n)
  BY <1>6, <1>8 DEF Kept, Grown, Same, More
<1>. QED
  BY <1>1, <1>8, <1>10, <1>13, <1>14, <1>15, <1>16 DEF HeapSound, stray

(* The orders name pools of the heap; the pool for a chunk has a block for  *)
(* it.                                                                      *)
LEMMA PoolChosen ==
  ASSUME regions \in Layouts, NEW order \in H!Orders, NEW want, NEW align,
         NEW j, j = H!PoolFor(order, want, align), j # 0,
         DOMAIN H!PoolsInitialised = DOMAIN regions,
         \A k \in DOMAIN regions : Len(H!PoolsInitialised[k]) \in Nat
  PROVE  /\ order[j] \in DOMAIN regions
         /\ LET p == H!PoolsInitialised[order[j]]
                i == H!FirstFit(p, want, align)
            IN  i \in 1 .. Len(p) /\ H!Waste(p[i], align) + want <= p[i].size
<1>1. Len(order) \in Nat /\ \A i \in 1 .. Len(order) : order[i] \in DOMAIN regions
  <2>1. Len(regions) \in {1, 2} /\ DOMAIN regions = 1 .. Len(regions)
    BY RegionsLie
  <2>2. \/ order = <<1>>
        \/ Len(regions) = 2 /\ order = <<2>>
        \/ Len(regions) = 2 /\ (order = <<1, 2>> \/ order = <<2, 1>>)
    BY <2>1 DEF H!Orders
  <2>. QED
    BY <2>1, <2>2
<1>. DEFINE J == {i \in 1 .. Len(order) : H!HasRoom(order[i], want, align)}
<1>2. H!PoolFor(order, want, align) = IF J # {} THEN H!Min(J) ELSE 0
  BY DEF H!PoolFor, H!SelectInSeq
<1>3. J \subseteq Nat
  BY <1>1
<1>4. J # {}
  BY <1>2
<1>5. j \in J
  <2>. HIDE DEF J
  <2>. QED
    BY <1>2, <1>3, <1>4, LeastIsMin
<1>6. order[j] \in DOMAIN regions /\ H!HasRoom(order[j], want, align)
  BY <1>1, <1>5
<1>7. H!FirstFit(H!PoolsInitialised[order[j]], want, align) # 0
  BY <1>6 DEF H!HasRoom
<1>. QED
  BY <1>6, <1>7, FirstFitFits

(* what a heap is, until a request is made with no block free               *)
HeapInv ==
  /\ regions \in Layouts
  /\ past = {} => /\ pools = [k \in DOMAIN regions |-> <<>>]
                  /\ map = {} /\ buffers = {} /\ lost = {}
  /\ past = {"started"} => HeapSound(pools, map, buffers, lost)

(* The first request of all makes each region one free block.               *)
LEMMA Initialised ==
  ASSUME HeapInv, H!PastInitialised = {"started"}
  PROVE  HeapSound(H!PoolsInitialised, H!MapInitialised, buffers, lost)
<1>1. CASE H!Ready
  <2>1. past = {"started"}
    BY <1>1 DEF H!PastInitialised
  <2>. QED
    BY <1>1, <2>1 DEF HeapInv, H!PoolsInitialised, H!MapInitialised
<1>2. CASE ~H!Ready
  <2>1. past = {}
    <3>1. past # {} => H!PastInitialised = past \cup {"restarted"}
      BY <1>2 DEF H!PastInitialised
    <3>2. "restarted" \notin {"started"}
      OBVIOUS
    <3>. QED
      BY <3>1, <3>2
  <2>. DEFINE P == [k \in DOMAIN regions |-> <<regions[k]>>]
  <2>2. H!PoolsInitialised = P /\ H!MapInitialised = {}
    BY <1>2 DEF H!PoolsInitialised, H!MapInitialised
  <2>3. map = {} /\ buffers = {} /\ lost = {} /\ regions \in Layouts
    BY <2>1 DEF HeapInv
  <2>4. \A k \in DOMAIN regions : regions[k] \in Block
    BY <2>3, RegionsLie
  <2>5. ASSUME NEW r \in Block
        PROVE  PoolOK(<<r>>, r) /\ \A x \in Int : InPool(x, <<r>>) <=> Within(x, r)
    BY DEF PoolOK, Inside, InPool, Block
  <2>6. PoolsOK(P)
    BY <2>4, <2>5 DEF PoolsOK
  <2>7. \A x \in Int : InPools(x, P) <=> InHeap(x)
    BY <2>4, <2>5 DEF InPools, InHeap
  <2>. HIDE DEF P
  <2>8. \A x \in Int : Parted(x, P, {}, {})
    BY <2>7 DEF Parted, InChunks
  <2>9. ChunksOK({}) /\ BuffersOK({}, {})
    BY DEF ChunksOK, BuffersOK
  <2>. QED
    BY <2>2, <2>3, <2>6, <2>8, <2>9 DEF HeapSound
<1>. QED
  BY <1>1, <1>2

(* A buffer that is put down on a new chunk of the map.                     *)
LEMMA BufferGiven ==
  ASSUME NEW P, NEW M, NEW B, NEW L, NEW c \in Block,
         HeapSound(P, M \cup {c}, B, L), BuffersOK(B, M),
         \A n \in M : n.base # c.base,
         NEW want \in Nat \ {0}, want <= c.size
  PROVE  HeapSound(P, M \cup {c}, B \cup {H!Chunk(c.base, want)}, L)
<1>. DEFINE b == H!Chunk(c.base, want)
<1>1. b \in Block /\ b.base = c.base /\ b.size <= c.size
  BY DEF H!Chunk, Block
<1>. HIDE DEF b
<1>2. \A d \in B : d \in Block /\ \E n \in M : n.base = d.base /\ d.size <= n.size
  BY DEF BuffersOK
<1>3. \A d \in B : d.base # b.base
  BY <1>1, <1>2
<1>4. BuffersOK(B \cup {b}, M \cup {c})
  <2>1. \A d, e \in B : d.base = e.base => d = e
    BY DEF BuffersOK
  <2>2. \A d \in B \cup {b} : d \in Block /\ \E n \in M \cup {c} : n.base = d.base /\ d.size <= n.size
    BY <1>1, <1>2
  <2>3. \A d, e \in B \cup {b} : d.base = e.base => d = e
    BY <1>3, <2>1
  <2>. QED
    BY <2>2, <2>3 DEF BuffersOK
<1>. QED
  BY <1>4 DEF HeapSound, b

(* Chunks that share no cell.                                               *)
LEMMA DisjointChunks ==
  ASSUME NEW b \in Block, NEW c \in Block, NoCellShared(b, c)
  PROVE  H!Cells(b) \cap H!Cells(c) = {}
<1>1. {b, c} \subseteq Block
  OBVIOUS
<1>2. \A x : /\ x \in H!Cells(b) <=> x \in Int /\ Within(x, b)
             /\ x \in H!Cells(c) <=> x \in Int /\ Within(x, c)
  BY <1>1, CellsAreWithin
<1>. QED
  BY <1>2 DEF NoCellShared

(* The invariant says what is claimed of the heap.                          *)
LEMMA HeapInvSuffices ==
  ASSUME HeapInv
  PROVE  H!EveryCellOnce /\ H!FreeBlocksAreMerged
<1>. SUFFICES ASSUME past = {"started"}
              PROVE  H!EveryCellOnce /\ H!FreeBlocksAreMerged
  BY DEF H!EveryCellOnce, H!FreeBlocksAreMerged, H!Undisturbed
<1>1. /\ regions \in Layouts /\ PoolsOK(pools) /\ ChunksOK(map) /\ BuffersOK(buffers, map)
      /\ lost \subseteq Int /\ \A x \in Int : Parted(x, pools, map, lost)
  BY DEF HeapInv, HeapSound
<1>2. \A k \in DOMAIN pools : /\ k \in DOMAIN regions /\ PoolOK(pools[k], regions[k])
                              /\ pools[k] \in Seq(Block) /\ regions[k] \in Block
  BY <1>1, RegionsLie DEF PoolsOK, PoolOK
<1>3. map \subseteq Block /\ buffers \subseteq Block
  BY <1>1 DEF ChunksOK, BuffersOK
<1>4. H!Disjoint(map)
  BY <1>1, <1>3, DisjointChunks DEF ChunksOK, H!Disjoint
<1>5. ASSUME NEW b \in buffers, NEW n \in map, n.base = b.base, b.size <= n.size
      PROVE  \A x \in Int : Within(x, b) => Within(x, n)
  BY <1>3, <1>5, CellsInside DEF Inside, Block
<1>6. H!BuffersAreDisjoint
  <2>1. SUFFICES ASSUME NEW b \in buffers, NEW d \in buffers, b # d
                 PROVE  NoCellShared(b, d)
    BY <1>3, DisjointChunks DEF H!BuffersAreDisjoint, H!Disjoint
  <2>2. PICK n \in map : n.base = b.base /\ b.size <= n.size
    BY <1>1 DEF BuffersOK
  <2>3. PICK m \in map : m.base = d.base /\ d.size <= m.size
    BY <1>1 DEF BuffersOK
  <2>4. n # m
    BY <1>1, <2>1, <2>2, <2>3 DEF BuffersOK
  <2>5. NoCellShared(n, m)
    BY <1>1, <2>4 DEF ChunksOK
  <2>6. \A x \in Int : (Within(x, b) => Within(x, n)) /\ (Within(x, d) => Within(x, m))
    BY <1>5, <2>2, <2>3
  <2>. QED
    BY <2>5, <2>6 DEF NoCellShared
<1>7. H!AllCells(buffers) \subseteq H!AllCells(map)
  <2>1. \A x : x \in H!AllCells(buffers) <=> x \in Int /\ InChunks(x, buffers)
    BY <1>3, CellsAreWithin
  <2>2. \A x : x \in H!AllCells(map) <=> x \in Int /\ InChunks(x, map)
    BY <1>3, CellsAreWithin
  <2>3. \A b \in buffers : \E n \in map : n.base = b.base /\ b.size <= n.size
    BY <1>1 DEF BuffersOK
  <2>. QED
    BY <1>5, <2>1, <2>2, <2>3 DEF InChunks
<1>8. /\ H!FreeBlocks \subseteq Block
      /\ \A c : c \in H!FreeBlocks
               <=> \E k \in DOMAIN pools : \E i \in 1 .. Len(pools[k]) : c = pools[k][i]
  <2>1. \A k \in DOMAIN pools : H!Range(pools[k]) = {pools[k][i] : i \in 1 .. Len(pools[k])}
    BY <1>2 DEF H!Range
  <2>2. \A k \in DOMAIN pools : \A i \in 1 .. Len(pools[k]) : pools[k][i] \in Block
    BY <1>2
  <2>. QED
    BY <2>1, <2>2 DEF H!FreeBlocks
<1>9. \A x : x \in H!AllCells(H!FreeBlocks) <=> x \in Int /\ InPools(x, pools)
  <2>1. \A x : x \in H!AllCells(H!FreeBlocks) <=> x \in Int /\ InChunks(x, H!FreeBlocks)
    BY <1>8, CellsAreWithin
  <2>2. \A k \in DOMAIN pools : DOMAIN pools[k] = 1 .. Len(pools[k])
    BY <1>2
  <2>3. ASSUME NEW x PROVE InChunks(x, H!FreeBlocks) <=> InPools(x, pools)
    BY <1>8, <2>2 DEF InChunks, InPools, InPool
  <2>. QED
    BY <2>1, <2>3
<1>10. \A x : x \in H!AllCells(H!Range(regions)) <=> x \in Int /\ InHeap(x)
  <2>1. regions \in Seq(Block)
    BY <1>1, RegionsLie
  <2>2. \A x : x \in H!AllCells(H!Range(regions)) <=> x \in Int /\ InPool(x, regions)
    BY <2>1, CellsOfPool
  <2>. QED
    BY <2>2 DEF InPool, InHeap
<1>11. \A x : x \in H!AllCells(map) <=> x \in Int /\ InChunks(x, map)
  BY <1>3, CellsAreWithin
<1>12. /\ H!AllCells(map) \cap lost = {}
       /\ H!AllCells(H!FreeBlocks) = H!AllCells(H!Range(regions)) \ (H!AllCells(map) \cup lost)
  <2>1. \A x \in Int : /\ InHeap(x) <=> InPools(x, pools) \/ InChunks(x, map) \/ x \in lost
                       /\ ~(InPools(x, pools) /\ InChunks(x, map))
                       /\ ~(InPools(x, pools) /\ x \in lost)
                       /\ ~(InChunks(x, map) /\ x \in lost)
    BY <1>1 DEF Parted
  <2>. QED
    BY <1>9, <1>10, <1>11, <2>1
<1>13. H!Disjoint(H!FreeBlocks)
  <2>1. SUFFICES ASSUME NEW c \in H!FreeBlocks, NEW d \in H!FreeBlocks, c # d
                 PROVE  NoCellShared(c, d)
    BY <1>8, DisjointChunks DEF H!Disjoint
  <2>2. PICK k \in DOMAIN pools : \E i \in 1 .. Len(pools[k]) : c = pools[k][i]
    BY <1>8
  <2>3. PICK l \in DOMAIN pools : \E i \in 1 .. Len(pools[l]) : d = pools[l][i]
    BY <1>8
  <2>4. PICK i \in 1 .. Len(pools[k]) : c = pools[k][i]
    BY <2>2
  <2>5. PICK j \in 1 .. Len(pools[l]) : d = pools[l][j]
    BY <2>3
  <2>6. CASE k = l
    <3>1. i < j \/ j < i
      BY <1>2, <2>1, <2>4, <2>5, <2>6
    <3>2. Ahead(c, d) \/ Ahead(d, c)
      BY <1>2, <2>4, <2>5, <2>6, <3>1 DEF PoolOK
    <3>3. c.base \in Nat /\ c.size \in Nat /\ d.base \in Nat /\ d.size \in Nat
      BY <1>8 DEF Block
    <3>. QED
      BY <3>2, <3>3 DEF Ahead, NoCellShared, Within
  <2>7. CASE k # l
    <3>1. SUFFICES ASSUME NEW x \in Int, Within(x, c), Within(x, d)
                   PROVE  FALSE
      BY DEF NoCellShared
    <3>2. InPool(x, pools[k]) /\ InPool(x, pools[l])
      BY <1>2, <2>4, <2>5, <3>1 DEF InPool
    <3>3. Within(x, regions[k]) /\ Within(x, regions[l])
      BY <1>1, <3>2, PoolsInside
    <3>. QED
      BY <1>1, <1>2, <2>7, <3>3, RegionsShareNothing
  <2>. QED
    BY <2>6, <2>7
<1>14. H!FreeBlocksAreMerged
  <2>1. SUFFICES ASSUME NEW k \in DOMAIN pools, NEW i \in 2 .. Len(pools[k])
                 PROVE  H!End(pools[k][i - 1]) < pools[k][i].base
    BY DEF H!FreeBlocksAreMerged
  <2>2. i - 1 \in 1 .. Len(pools[k]) /\ i \in 1 .. Len(pools[k]) /\ i - 1 < i
    BY <1>2
  <2>. QED
    BY <1>2, <2>2 DEF PoolOK, Ahead, H!End
<1>. QED
  BY <1>4, <1>6, <1>7, <1>12, <1>13, <1>14 DEF H!EveryCellOnce

(* A step that leaves the regions, told in the state before it.             *)
LEMMA HeapInvAfter ==
  ASSUME regions \in Layouts, UNCHANGED regions, past' # {},
         past' = {"started"} => HeapSound(pools', map', buffers', lost')
  PROVE  HeapInv'
<1>1. HeapSound(pools', map', buffers', lost') => HeapSound(pools, map, buffers, lost)'
  BY DEF HeapSound, PoolsOK, ChunksOK, BuffersOK, Parted, InHeap
<1>. QED
  BY <1>1 DEF HeapInv

(* A request is made of a heap that is initialised, then if not before.     *)
LEMMA HeapIsStarted ==
  ASSUME HeapInv
  PROVE  regions \in Layouts /\ H!PastInitialised # {}
<1>1. H!Ready => past # {}
  BY DEF HeapInv, H!Ready
<1>2. CASE H!Ready
  BY <1>1, <1>2 DEF H!PastInitialised, HeapInv
<1>3. CASE ~H!Ready /\ past = {}
  BY <1>3 DEF H!PastInitialised, HeapInv
<1>4. CASE ~H!Ready /\ past # {}
  BY <1>4 DEF H!PastInitialised, HeapInv
<1>. QED
  BY <1>2, <1>3, <1>4

(* Each operation of a heap keeps it sound: a request that finds no room,   *)
LEMMA OutOfMemoryKeeps ==
  ASSUME HeapInv, NEW n, NEW align, NEW order, H!OutOfMemory(n, align, order)
  PROVE  HeapInv'
<1>1. /\ pools' = H!PoolsInitialised /\ map' = H!MapInitialised /\ past' = H!PastInitialised
      /\ UNCHANGED <<regions, buffers, lost>>
  BY DEF H!OutOfMemory
<1>2. past' = {"started"} => HeapSound(pools', map', buffers', lost')
  BY <1>1, Initialised
<1>. QED
  BY <1>1, <1>2, HeapIsStarted, HeapInvAfter

(* A request that finds room: the block it is taken from, and the pool.     *)
LEMMA RoomFound ==
  ASSUME HeapInv, H!PastInitialised = {"started"}, NEW order \in H!Orders,
         NEW want, NEW align, NEW j, j = H!PoolFor(order, want, align), j # 0
  PROVE  /\ HeapSound(H!PoolsInitialised, H!MapInitialised, buffers, lost)
         /\ order[j] \in DOMAIN regions
         /\ LET p == H!PoolsInitialised[order[j]]
                i == H!FirstFit(p, want, align)
            IN  i \in 1 .. Len(p) /\ H!Waste(p[i], align) + want <= p[i].size
<1>1. HeapSound(H!PoolsInitialised, H!MapInitialised, buffers, lost)
  BY Initialised
<1>2. PoolsOK(H!PoolsInitialised) /\ regions \in Layouts
  BY <1>1, HeapIsStarted DEF HeapSound
<1>3. /\ DOMAIN H!PoolsInitialised = DOMAIN regions
      /\ \A k \in DOMAIN regions : Len(H!PoolsInitialised[k]) \in Nat
  BY <1>2 DEF PoolsOK, PoolOK
<1>. QED
  BY <1>1, <1>2, <1>3, PoolChosen

(* What is carved off a block begins at an aligned address.                 *)
LEMMA CarvedIsAligned ==
  ASSUME NEW P, PoolsOK(P), NEW k, NEW i, NEW want, NEW align, NEW created,
         NEW c, NEW Q, Taken(c, Q, P, k, i, want, align, created)
  PROVE  c.base % align = 0
<1>1. /\ k \in DOMAIN regions /\ i \in 1 .. Len(P[k]) /\ align \in Nat \ {0}
      /\ c = H!Carved(P[k], i, want, align, created)
  BY DEF Taken
<1>2. P[k][i] \in Block
  <2>1. P[k] \in Seq(Block)
    BY <1>1 DEF PoolsOK, PoolOK
  <2>. QED
    BY <1>1, <2>1
<1>3. c.base = P[k][i].base + H!Waste(P[k][i], align)
  BY <1>1 DEF H!Carved, H!Chunk
<1>. QED
  BY <1>1, <1>2, <1>3, WasteIsLeast

(* the chunk that a request gets: of the heap as it was, now in the map     *)
Given(c, n, align) ==
  /\ c \in Block /\ n <= c.size /\ c.base % align = 0
  /\ HeapSound(H!PoolsInitialised, H!MapInitialised, buffers, lost)
  /\ HeapSound(pools', H!MapInitialised \cup {c}, buffers, lost)
  /\ \A m \in H!MapInitialised : m.base # c.base
  /\ map' = H!MapInitialised \cup {c} /\ lost' = lost
  /\ buffers' = buffers \cup {H!Chunk(c.base, n)}
  /\ aligned' = [b \in buffers' |-> IF b = H!Chunk(c.base, n) THEN align ELSE aligned[b]]

(* one that finds some,                                                     *)
LEMMA MemAlignGives ==
  ASSUME HeapInv, NEW n \in Nat \ {0}, NEW align \in Nat \ {0}, NEW order \in H!Orders,
         NEW created \in BOOLEAN, H!MemAlign(n, align, order, created), past' = {"started"}
  PROVE  \E c : Given(c, n, align)
<1>. DEFINE want == H!Padded(n, align)
            j == H!PoolFor(order, want, align)
            k == order[j]
            P == H!PoolsInitialised
            M == H!MapInitialised
            i == H!FirstFit(P[k], want, align)
            c == H!Carved(P[k], i, want, align, created)
            Q == [P EXCEPT ![k] = H!Carve(@, i, want, align, created)]
            known == \E m \in M : m.base = c.base
<1>1. /\ j # 0
      /\ pools' = Q
      /\ map' = IF known THEN M ELSE M \cup {c}
      /\ lost' = IF known THEN lost \cup H!Cells(c) ELSE lost
      /\ buffers' = buffers \cup {H!Chunk(c.base, n)}
      /\ aligned' = [b \in buffers' |-> IF b = H!Chunk(c.base, n) THEN align ELSE aligned[b]]
      /\ past' = H!PastInitialised
      /\ UNCHANGED regions
  BY DEF H!MemAlign
<1>2. want \in Nat \ {0} /\ n <= want
  BY PaddedCovers
<1>. HIDE DEF want
<1>3. H!PastInitialised = {"started"} /\ regions \in Layouts
  BY <1>1, HeapIsStarted
<1>4. /\ HeapSound(P, M, buffers, lost)
      /\ k \in DOMAIN regions
      /\ i \in 1 .. Len(P[k]) /\ H!Waste(P[k][i], align) + want <= P[k][i].size
  BY <1>1, <1>3, RoomFound
<1>. HIDE DEF P, M, k, i
<1>5. Taken(c, Q, P, k, i, want, align, created)
  BY <1>2, <1>4 DEF Taken
<1>. HIDE DEF c, Q
<1>6. /\ HeapSound(Q, M \cup {c}, buffers, lost)
      /\ c \in Block /\ want <= c.size
      /\ \A m \in M : m.base # c.base
  BY <1>3, <1>4, <1>5, ChunkTaken
<1>7. c.base % align = 0
  <2>1. PoolsOK(P)
    BY <1>4 DEF HeapSound
  <2>. QED
    BY <1>5, <2>1, CarvedIsAligned
<1>8. ~known
  BY <1>6
<1>. HIDE DEF known
<1>9. map' = M \cup {c} /\ lost' = lost
  BY <1>1, <1>8
<1>10. n <= c.size
  BY <1>2, <1>6 DEF Block
<1>11. Given(c, n, align)
  BY <1>1, <1>4, <1>6, <1>7, <1>9, <1>10 DEF Given, P, M
<1>. QED
  BY <1>11

(* A memAlign that finds a block keeps the invariant.                       *)
LEMMA MemAlignKeeps ==
  ASSUME HeapInv, NEW n \in Nat \ {0}, NEW align \in Nat \ {0}, NEW order \in H!Orders,
         NEW created \in BOOLEAN, H!MemAlign(n, align, order, created)
  PROVE  HeapInv'
<1>1. past' = H!PastInitialised /\ UNCHANGED regions
  BY DEF H!MemAlign
<1>2. ASSUME past' = {"started"}
      PROVE  HeapSound(pools', map', buffers', lost')
  <2>1. PICK c : Given(c, n, align)
    BY <1>2, MemAlignGives
  <2>. DEFINE M == H!MapInitialised
  <2>2. /\ c \in Block /\ n <= c.size
        /\ HeapSound(pools', M \cup {c}, buffers, lost)
        /\ \A m \in M : m.base # c.base
        /\ map' = M \cup {c} /\ lost' = lost
        /\ buffers' = buffers \cup {H!Chunk(c.base, n)}
    BY <2>1 DEF Given
  <2>3. BuffersOK(buffers, M)
    BY <2>1 DEF Given, HeapSound
  <2>. HIDE DEF M
  <2>4. HeapSound(pools', M \cup {c}, buffers \cup {H!Chunk(c.base, n)}, lost)
    BY <2>2, <2>3, BufferGiven
  <2>. QED
    BY <2>2, <2>4
<1>. QED
  BY <1>1, <1>2, HeapIsStarted, HeapInvAfter

(* A chunk that is new in the map had its cells from the free ones.         *)
LEMMA TakenFromFree ==
  ASSUME NEW P, NEW Q, NEW M, NEW B, NEW L, NEW c \in Block,
         HeapSound(P, M, B, L), HeapSound(Q, M \cup {c}, B, L), \A m \in M : m.base # c.base
  PROVE  /\ \A x \in Int : Within(x, c) => InPools(x, P)
         /\ Less(Q, P, c)
<1>1. ASSUME NEW x \in Int
      PROVE  /\ Within(x, c) => InPools(x, P)
             /\ InPools(x, Q) <=> InPools(x, P) /\ ~Within(x, c)
  <2>1. Parted(x, P, M, L) /\ Parted(x, Q, M \cup {c}, L)
    BY DEF HeapSound
  <2>2. InChunks(x, M \cup {c}) <=> InChunks(x, M) \/ Within(x, c)
    BY DEF InChunks
  <2>3. ~(InChunks(x, M) /\ Within(x, c))
    <3>1. \A m \in M : m # c => NoCellShared(m, c)
      BY DEF HeapSound, ChunksOK
    <3>2. \A m \in M : NoCellShared(m, c)
      BY <3>1
    <3>. QED
      BY <3>2 DEF InChunks, NoCellShared
  <2>. QED
    BY <2>1, <2>2, <2>3 DEF Parted
<1>. QED
  BY <1>1 DEF Less

(* the chunk of a request that failed for want of a node, back or lost      *)
Mislaid(c) ==
  /\ c \in Block
  /\ HeapSound(H!PoolsInitialised, H!MapInitialised, buffers, lost)
  /\ HeapSound(pools', H!MapInitialised, buffers, lost')
  /\ \A x \in Int : Within(x, c) => InPools(x, H!PoolsInitialised)
  /\ Same(pools', H!PoolsInitialised) \/ Less(pools', H!PoolsInitialised, c)

(* one that the map has no node for,                                        *)
LEMMA NoNodeMislays ==
  ASSUME HeapInv, NEW n \in Nat \ {0}, NEW align \in Nat \ {0}, NEW order \in H!Orders,
         NEW created \in BOOLEAN, NEW again \in BOOLEAN, H!NoNode(n, align, order, created, again),
         past' = {"started"}
  PROVE  \E c : Mislaid(c)
<1>. DEFINE want == H!Padded(n, align)
            j == H!PoolFor(order, want, align)
            k == order[j]
            P == H!PoolsInitialised
            M == H!MapInitialised
            i == H!FirstFit(P[k], want, align)
            c == H!Carved(P[k], i, want, align, created)
            left == [P EXCEPT ![k] = H!Carve(@, i, want, align, created)]
            Q == [left EXCEPT ![H!PoolOf(c.base)] = H!Deallocate(@, c, again)]
            stray == H!Cells(c) \ H!AllCells(H!Range(Q[H!PoolOf(c.base)]))
<1>1. /\ j # 0
      /\ pools' = Q
      /\ lost' = lost \cup stray
      /\ map' = M
      /\ past' = H!PastInitialised
      /\ UNCHANGED <<regions, buffers>>
  BY DEF H!NoNode
<1>2. want \in Nat \ {0}
  BY PaddedCovers
<1>. HIDE DEF want
<1>3. H!PastInitialised = {"started"} /\ regions \in Layouts
  BY <1>1, HeapIsStarted
<1>4. /\ HeapSound(P, M, buffers, lost)
      /\ k \in DOMAIN regions
      /\ i \in 1 .. Len(P[k]) /\ H!Waste(P[k][i], align) + want <= P[k][i].size
  BY <1>1, <1>3, RoomFound
<1>. HIDE DEF P, M, k, i
<1>5. Taken(c, left, P, k, i, want, align, created)
  BY <1>2, <1>4 DEF Taken
<1>. HIDE DEF c, left
<1>6. /\ HeapSound(left, M \cup {c}, buffers, lost)
      /\ c \in Block /\ \A m \in M : m.base # c.base
  BY <1>3, <1>4, <1>5, ChunkTaken
<1>7. \A b \in buffers : b.base # c.base
  BY <1>4, <1>6 DEF HeapSound, BuffersOK
<1>8. /\ HeapSound(Q, (M \cup {c}) \ {c}, buffers, lost \cup stray)
      /\ Same(Q, left) \/ More(Q, left, c)
  <2>1. c \in M \cup {c}
    OBVIOUS
  <2>. DEFINE home == H!PoolOf(c.base)
  <2>2. home = H!PoolOf(c.base) /\ Q = [left EXCEPT ![home] = H!Deallocate(@, c, again)]
    OBVIOUS
  <2>. HIDE DEF Q, home
  <2>3. /\ HeapSound(Q, (M \cup {c}) \ {c}, buffers,
                      lost \cup (H!Cells(c) \ H!AllCells(H!Range(Q[home]))))
        /\ Same(Q, left) \/ More(Q, left, c)
    BY <1>3, <1>6, <1>7, <2>1, <2>2, ChunkGivenBack
  <2>. QED
    BY <2>2, <2>3
<1>9. (M \cup {c}) \ {c} = M
  BY <1>6
<1>10. (\A x \in Int : Within(x, c) => InPools(x, P)) /\ Less(left, P, c)
  BY <1>4, <1>6, TakenFromFree
<1>. HIDE DEF Q, stray
<1>11. Same(Q, P) \/ Less(Q, P, c)
  BY <1>8, <1>10 DEF Same, More, Less
<1>12. Mislaid(c)
  BY <1>1, <1>4, <1>6, <1>8, <1>9, <1>10, <1>11 DEF Mislaid, P, M
<1>. QED
  BY <1>12

(* A memAlign that cannot note its chunk in the map keeps the invariant.    *)
LEMMA NoNodeKeeps ==
  ASSUME HeapInv, NEW n \in Nat \ {0}, NEW align \in Nat \ {0}, NEW order \in H!Orders,
         NEW created \in BOOLEAN, NEW again \in BOOLEAN, H!NoNode(n, align, order, created, again)
  PROVE  HeapInv'
<1>1. map' = H!MapInitialised /\ past' = H!PastInitialised /\ UNCHANGED <<regions, buffers>>
  BY DEF H!NoNode
<1>2. ASSUME past' = {"started"}
      PROVE  HeapSound(pools', map', buffers', lost')
  BY <1>1, <1>2, NoNodeMislays DEF Mislaid
<1>. QED
  BY <1>1, <1>2, HeapIsStarted, HeapInvAfter

(* the chunk that went with a buffer, back or lost                          *)
Returned(n, b) ==
  /\ n \in map /\ n \in Block /\ n.base = b.base
  /\ HeapSound(pools, map, buffers, lost)
  /\ HeapSound(pools', map', buffers', lost')
  /\ map' = map \ {n}
  /\ Same(pools', pools) \/ More(pools', pools, n)

(* and a free.                                                              *)
LEMMA FreeReturns ==
  ASSUME HeapInv, NEW b \in buffers, NEW created \in BOOLEAN, H!Free(b, created),
         past' = {"started"}
  PROVE  \E n : Returned(n, b)
<1>. DEFINE known == map \ map'
            k == H!PoolOf(b.base)
<1>1. /\ buffers' = buffers \ {b}
      /\ map' = {n \in map : n.base # b.base}
      /\ pools' = IF known = {} THEN pools
                  ELSE [pools EXCEPT ![k] = H!Deallocate(@, CHOOSE n \in known : TRUE, created)]
      /\ lost' = lost \cup (H!AllCells(known) \ H!AllCells(H!Range(pools'[k])))
      /\ UNCHANGED <<regions, past>>
  BY DEF H!Free
<1>2. past = {"started"} /\ regions \in Layouts /\ HeapSound(pools, map, buffers, lost)
  BY <1>1 DEF HeapInv
<1>3. ChunksOK(map) /\ BuffersOK(buffers, map)
  BY <1>2 DEF HeapSound
<1>4. PICK n \in map : n.base = b.base
  BY <1>3 DEF BuffersOK
<1>5. \A m \in map : m # n => m.base # n.base
  BY <1>3, BasesDiffer DEF ChunksOK
<1>6. known = {n} /\ map' = map \ {n}
  BY <1>1, <1>4, <1>5
<1>7. (CHOOSE m \in known : TRUE) = n /\ known # {}
  BY <1>6
<1>8. H!AllCells({n}) = H!Cells(n)
  BY DEF H!AllCells
<1>9. /\ pools' = [pools EXCEPT ![k] = H!Deallocate(@, n, created)]
      /\ lost' = lost \cup (H!Cells(n) \ H!AllCells(H!Range(pools'[k])))
  BY <1>1, <1>6, <1>7, <1>8
<1>10. HeapSound(pools, map, buffers \ {b}, lost)
  BY <1>2 DEF HeapSound, BuffersOK
<1>11. \A d \in buffers \ {b} : d.base # n.base
  BY <1>3, <1>4 DEF BuffersOK
<1>12. k = H!PoolOf(n.base)
  BY <1>4
<1>13. /\ HeapSound(pools', map \ {n}, buffers \ {b},
                    lost \cup (H!Cells(n) \ H!AllCells(H!Range(pools'[k]))))
       /\ Same(pools', pools) \/ More(pools', pools, n)
  BY <1>2, <1>9, <1>10, <1>11, <1>12, ChunkGivenBack
<1>14. n \in Block
  BY <1>3 DEF ChunksOK
<1>15. Returned(n, b)
  BY <1>1, <1>2, <1>4, <1>6, <1>9, <1>13, <1>14 DEF Returned
<1>. QED
  BY <1>15

(* A free keeps the invariant.                                              *)
LEMMA FreeKeeps ==
  ASSUME HeapInv, NEW b \in buffers, NEW created \in BOOLEAN, H!Free(b, created)
  PROVE  HeapInv'
<1>1. UNCHANGED <<regions, past>>
  BY DEF H!Free
<1>2. past # {} /\ regions \in Layouts
  BY DEF HeapInv
<1>3. ASSUME past' = {"started"}
      PROVE  HeapSound(pools', map', buffers', lost')
  BY <1>3, FreeReturns DEF Returned
<1>. QED
  BY <1>1, <1>2, <1>3, HeapInvAfter

(* The invariant holds of every behaviour of the library.                   *)
LEMMA HeapInvHolds == LibSpec => []HeapInv
<1>1. LibInit => HeapInv
  BY DEF LibInit, H!Init, HeapInv
<1>2. HeapInv /\ [LibNext]_lvars => HeapInv'
  <2>. SUFFICES ASSUME HeapInv, [LibNext]_lvars PROVE HeapInv'
    OBVIOUS
  <2>1. CASE part = "heap" /\ H!Next
    <3>1. ASSUME NEW n \in Sizes, NEW align \in Alignments, NEW order \in H!Orders,
                 H!OutOfMemory(n, align, order)
          PROVE  HeapInv'
      BY <3>1, OutOfMemoryKeeps
    <3>2. Sizes \subseteq Nat \ {0} /\ Alignments \subseteq Nat \ {0}
      BY HeapAssumption DEF H!HeapAssumption
    <3>3. ASSUME NEW n \in Sizes, NEW align \in Alignments, NEW order \in H!Orders,
                 NEW created \in BOOLEAN, H!MemAlign(n, align, order, created)
          PROVE  HeapInv'
      BY <3>2, <3>3, MemAlignKeeps
    <3>4. ASSUME NEW n \in Sizes, NEW align \in Alignments, NEW order \in H!Orders,
                 NEW created \in BOOLEAN, NEW again \in BOOLEAN,
                 H!NoNode(n, align, order, created, again)
          PROVE  HeapInv'
      BY <3>2, <3>4, NoNodeKeeps
    <3>5. ASSUME NEW b \in buffers, NEW created \in BOOLEAN, H!Free(b, created)
          PROVE  HeapInv'
      BY <3>5, FreeKeeps
    <3>. QED
      BY <2>1, <3>1, <3>3, <3>4, <3>5 DEF H!Next
  <2>2. CASE UNCHANGED hvars
    BY <2>2 DEF hvars, HeapInv, HeapSound, PoolsOK, ChunksOK, BuffersOK, Parted, InHeap
  <2>. QED
    BY <2>1, <2>2 DEF LibNext, lvars
<1>. QED
  BY <1>1, <1>2, PTL DEF LibSpec

-------------------------------------------------------------------------------
(***************************************************************************)
(* The heap as an allocator: what it gives is free, aligned and as long as *)
(* asked for, and what it refuses has no place.                            *)
(***************************************************************************)

(* A search that finds nothing has looked at each block.                    *)
LEMMA NoFirstFit ==
  ASSUME NEW p, Len(p) \in Nat, NEW want, NEW align, H!FirstFit(p, want, align) = 0
  PROVE  \A i \in 1 .. Len(p) : ~(H!Waste(p[i], align) + want <= p[i].size)
<1>. DEFINE I == {i \in 1 .. Len(p) : H!Waste(p[i], align) + want <= p[i].size}
<1>1. H!FirstFit(p, want, align) = IF I # {} THEN H!Min(I) ELSE 0
  BY DEF H!FirstFit, H!SelectInSeq
<1>2. I \subseteq Nat /\ 0 \notin I
  OBVIOUS
<1>3. I = {}
  <2>. HIDE DEF I
  <2>. QED
    BY <1>1, <1>2, LeastIsMin
<1>. QED
  BY <1>3

(* Cells of a pool that follow each other are in one block: where it ends   *)
(* none is free.                                                            *)
LEMMA StretchInOneBlock ==
  ASSUME NEW r, NEW p, PoolOK(p, r), NEW a \in Int, NEW want \in Nat \ {0},
         \A x \in a .. a + want - 1 : InPool(x, p)
  PROVE  \E i \in 1 .. Len(p) : p[i].base <= a /\ a + want <= p[i].base + p[i].size
<1>0. p \in Seq(Block)
  BY DEF PoolOK
<1>1. Len(p) \in Nat /\ DOMAIN p = 1 .. Len(p)
      /\ \A i \in 1 .. Len(p) : p[i].base \in Nat /\ p[i].size \in Nat
  <2>1. Len(p) \in Nat /\ DOMAIN p = 1 .. Len(p) /\ \A i \in 1 .. Len(p) : p[i] \in Block
    BY <1>0
  <2>. QED
    BY <2>1 DEF Block
<1>2. a \in a .. a + want - 1
  OBVIOUS
<1>3. PICK i \in 1 .. Len(p) : Within(a, p[i])
  BY <1>1, <1>2 DEF InPool
<1>. DEFINE e == p[i].base + p[i].size
<1>4. e \in Int /\ p[i].base <= a /\ a < e
  BY <1>1, <1>3 DEF Within
<1>5. ~(e < a + want)
  <2>. SUFFICES ASSUME e < a + want PROVE FALSE
    OBVIOUS
  <2>1. e \in a .. a + want - 1
    <3>. HIDE DEF e
    <3>. QED
      BY <1>4
  <2>2. PICK k \in 1 .. Len(p) : Within(e, p[k])
    BY <1>1, <2>1 DEF InPool
  <2>3. p[k].base <= e /\ e < p[k].base + p[k].size
    BY <2>2 DEF Within
  <2>4. ~Ahead(p[k], p[i]) /\ ~Ahead(p[i], p[k])
    BY <1>1, <1>4, <2>3 DEF Ahead
  <2>5. k = i
    BY <1>1, <2>4 DEF PoolOK
  <2>. QED
    BY <1>1, <2>3, <2>5
<1>. QED
  BY <1>1, <1>4, <1>5

(* A pool in order refuses nothing that it has room for.                    *)
LEMMA PoolHasNoRoom ==
  ASSUME NEW r, NEW p, PoolOK(p, r), NEW align \in Nat \ {0}, NEW want \in Nat \ {0},
         H!FirstFit(p, want, align) = 0, NEW a \in Int, a % align = 0
  PROVE  ~\A x \in a .. a + want - 1 : InPool(x, p)
<1>. SUFFICES ASSUME \A x \in a .. a + want - 1 : InPool(x, p) PROVE FALSE
  OBVIOUS
<1>1. PICK i \in 1 .. Len(p) : p[i].base <= a /\ a + want <= p[i].base + p[i].size
  BY StretchInOneBlock
<1>2. p[i] \in Block /\ Len(p) \in Nat
  BY DEF PoolOK
<1>3. p[i].base \in Nat /\ p[i].size \in Nat
  BY <1>2 DEF Block
<1>. DEFINE w == H!Waste(p[i], align)
<1>4. w \in Nat /\ w <= a - p[i].base
  BY <1>1, <1>2, WasteIsLeast
<1>5. ~(w + want <= p[i].size)
  BY <1>2, NoFirstFit
<1>. HIDE DEF w
<1>. QED
  BY <1>1, <1>3, <1>4, <1>5

(* No request is refused by a pool that has an aligned stretch of free      *)
(* cells for it, however the free space has been cut up and put together,   *)
(* until a request finds no block free at all.                              *)
LEMMA NoRoomIsOverlooked ==
  ASSUME HeapInv
  PROVE  H!RoomIsFound
<1>. SUFFICES ASSUME past = {"started"},
                     NEW k \in DOMAIN pools, NEW n \in Sizes, NEW align \in Alignments,
                     H!FirstFit(pools[k], H!Padded(n, align), align) = 0,
                     NEW a \in H!AllCells(H!Range(pools[k])), a % align = 0
              PROVE  ~(a .. a + H!Padded(n, align) - 1 \subseteq H!AllCells(H!Range(pools[k])))
  BY DEF H!RoomIsFound, H!Undisturbed
<1>1. PoolsOK(pools)
  BY DEF HeapInv, HeapSound
<1>2. PoolOK(pools[k], regions[k]) /\ pools[k] \in Seq(Block)
  BY <1>1 DEF PoolsOK, PoolOK
<1>3. \A x : x \in H!AllCells(H!Range(pools[k])) <=> x \in Int /\ InPool(x, pools[k])
  BY <1>2, CellsOfPool
<1>4. n \in Nat \ {0} /\ align \in Nat \ {0}
  BY HeapAssumption DEF H!HeapAssumption
<1>. DEFINE want == H!Padded(n, align)
<1>5. want \in Nat \ {0}
  BY <1>4, PaddedCovers
<1>. HIDE DEF want
<1>6. H!FirstFit(pools[k], want, align) = 0
  BY DEF want
<1>7. a \in Int
  BY <1>3
<1>8. ~\A x \in a .. a + want - 1 : InPool(x, pools[k])
  BY <1>2, <1>4, <1>5, <1>6, <1>7, PoolHasNoRoom
<1>. QED
  BY <1>3, <1>8 DEF want

(* Every cell of a heap, of linear memory or of VRAM, is in one place, free *)
(* blocks that touch are one, and what a pool has room for it gives         *)
(* (linearMemAlign, linearFree, vramMemAlign and vramFree over MemPool),    *)
(* until a request finds no block free at all.                              *)
THEOREM HeapStaysSound == LibSpec => []HeapIsSound
<1>1. HeapInv => HeapIsSound
  BY HeapInvSuffices, NoRoomIsOverlooked DEF HeapIsSound
<1>. QED
  BY <1>1, HeapInvHolds, PTL

(* The cells of the free blocks of a heap.                                  *)
LEMMA CellsOfPools ==
  ASSUME NEW P, PoolsOK(P)
  PROVE  \A x : x \in H!AllCells(UNION {H!Range(P[k]) : k \in DOMAIN P})
                <=> x \in Int /\ InPools(x, P)
<1>. DEFINE S == UNION {H!Range(P[k]) : k \in DOMAIN P}
<1>1. \A k \in DOMAIN P : P[k] \in Seq(Block)
  BY DEF PoolsOK, PoolOK
<1>2. \A k \in DOMAIN P : H!Range(P[k]) = {P[k][i] : i \in DOMAIN P[k]}
  BY DEF H!Range
<1>3. S \subseteq Block
  BY <1>1, <1>2
<1>4. \A x : InChunks(x, S) <=> InPools(x, P)
  BY <1>2 DEF InChunks, InPools, InPool
<1>. HIDE DEF S
<1>5. \A x : x \in H!AllCells(S) <=> x \in Int /\ InChunks(x, S)
  BY <1>3, CellsAreWithin
<1>. QED
  BY <1>4, <1>5 DEF S

(* What is free to the program when it makes a request: the cells of the    *)
(* blocks of the heap, once it is initialised.                              *)
LEMMA FreeBefore ==
  ASSUME HeapInv, H!PastInitialised = {"started"}
  PROVE  /\ \A x : x \in H!FreeCells <=> x \in Int /\ InPools(x, H!PoolsInitialised)
         /\ H!MapInitialised = map
<1>1. CASE H!Ready
  <2>1. past = {"started"} /\ past # {}
    BY <1>1 DEF H!PastInitialised
  <2>2. H!PoolsInitialised = pools /\ H!MapInitialised = map
    BY <1>1 DEF H!PoolsInitialised, H!MapInitialised
  <2>3. PoolsOK(pools)
    BY <2>1 DEF HeapInv, HeapSound
  <2>4. H!FreeCells = H!AllCells(UNION {H!Range(pools[k]) : k \in DOMAIN pools})
    BY <2>1 DEF H!FreeCells, H!FreeBlocks
  <2>. QED
    BY <2>2, <2>3, <2>4, CellsOfPools
<1>2. CASE ~H!Ready
  <2>1. past = {}
    <3>1. past # {} => H!PastInitialised = past \cup {"restarted"}
      BY <1>2 DEF H!PastInitialised
    <3>2. "restarted" \notin {"started"}
      OBVIOUS
    <3>. QED
      BY <3>1, <3>2
  <2>2. H!PoolsInitialised = [k \in DOMAIN regions |-> <<regions[k]>>] /\ H!MapInitialised = {}
    BY <1>2 DEF H!PoolsInitialised, H!MapInitialised
  <2>3. map = {} /\ regions \in Layouts
    BY <2>1 DEF HeapInv
  <2>4. regions \in Seq(Block) /\ \A k \in DOMAIN regions : regions[k] \in Block
    BY <2>3, RegionsLie
  <2>5. \A x : InPools(x, H!PoolsInitialised) <=> InPool(x, regions)
    <3>1. ASSUME NEW r, NEW x PROVE InPool(x, <<r>>) <=> Within(x, r)
      BY DEF InPool
    <3>2. /\ DOMAIN H!PoolsInitialised = DOMAIN regions
          /\ \A k \in DOMAIN regions : H!PoolsInitialised[k] = <<regions[k]>>
      BY <2>2
    <3>3. \A x : \A k \in DOMAIN regions :
            InPool(x, H!PoolsInitialised[k]) <=> Within(x, regions[k])
      BY <3>1, <3>2
    <3>4. \A x : InPools(x, H!PoolsInitialised)
                   <=> \E k \in DOMAIN regions : InPool(x, H!PoolsInitialised[k])
      BY <3>2 DEF InPools
    <3>. QED
      BY <3>3, <3>4 DEF InPool
  <2>6. H!FreeCells = H!AllCells(H!Range(regions))
    BY <2>1 DEF H!FreeCells
  <2>. QED
    BY <2>2, <2>3, <2>4, <2>5, <2>6, CellsOfPool
<1>. QED
  BY <1>1, <1>2

(* ... and after it.                                                        *)
LEMMA FreeAfter ==
  ASSUME past' = {"started"}, PoolsOK(pools')
  PROVE  \A x : x \in H!FreeCells' <=> x \in Int /\ InPools(x, pools')
<1>1. H!FreeCells' = H!AllCells(UNION {H!Range(pools'[k]) : k \in DOMAIN pools'})
  <2>1. past' # {}
    OBVIOUS
  <2>. QED
    BY <2>1 DEF H!FreeCells, H!FreeBlocks
<1>. QED
  BY <1>1, CellsOfPools

(* What goes with a buffer is its chunk.                                    *)
LEMMA TakenIsChunk ==
  ASSUME NEW M, ChunksOK(M), NEW n \in M
  PROVE  {m \in M : m.base = n.base} = {n}
<1>1. \A m \in M : m # n => m.base # n.base
  BY BasesDiffer DEF ChunksOK
<1>. QED
  BY <1>1

(* The cells of a chunk are a stretch from one free cell to another.        *)
LEMMA ChunkIsStretch ==
  ASSUME NEW c \in Block, NEW F, \A x \in Int : Within(x, c) => x \in F
  PROVE  /\ <<c.base, c.base + c.size - 1>> \in F \X F
         /\ c.base <= c.base + c.size - 1
         /\ c.base .. c.base + c.size - 1 = H!Cells(c)
         /\ H!Cells(c) \subseteq F
         /\ \A x : x \in H!Cells(c) <=> x \in Int /\ Within(x, c)
<1>1. c.base \in Nat /\ c.size \in Nat /\ c.size > 0
  BY DEF Block
<1>2. Within(c.base, c) /\ Within(c.base + c.size - 1, c)
  BY <1>1 DEF Within
<1>3. \A x : x \in H!Cells(c) <=> x \in Int /\ Within(x, c)
  <2>1. {c} \subseteq Block
    OBVIOUS
  <2>. QED
    BY <2>1, CellsAreWithin
<1>4. c.base \in Int /\ c.base + c.size - 1 \in Int
  BY <1>1
<1>. QED
  BY <1>1, <1>2, <1>3, <1>4 DEF H!Cells

(* The steps of a heap are steps of the allocator: a request that is met,   *)
LEMMA MemAlignAllocates ==
  ASSUME HeapInv, NEW n \in Nat \ {0}, NEW align \in Nat \ {0}, NEW order \in H!Orders,
         NEW created \in BOOLEAN, H!MemAlign(n, align, order, created), past' = {"started"}
  PROVE  H!Al!Allocate(n, align)
<1>1. PICK c : Given(c, n, align)
  BY MemAlignGives
<1>2. /\ c \in Block /\ n <= c.size /\ c.base % align = 0
      /\ HeapSound(H!PoolsInitialised, H!MapInitialised, buffers, lost)
      /\ HeapSound(pools', H!MapInitialised \cup {c}, buffers, lost)
      /\ \A m \in H!MapInitialised : m.base # c.base
  BY <1>1 DEF Given
<1>3. H!PastInitialised = {"started"}
  BY DEF H!MemAlign
<1>4. /\ \A x : x \in H!FreeCells <=> x \in Int /\ InPools(x, H!PoolsInitialised)
      /\ H!MapInitialised = map
  BY <1>3, FreeBefore
<1>5. /\ \A x \in Int : Within(x, c) => InPools(x, H!PoolsInitialised)
      /\ Less(pools', H!PoolsInitialised, c)
  BY <1>2, TakenFromFree
<1>6. \A x : x \in H!FreeCells' <=> x \in Int /\ InPools(x, pools')
  <2>1. PoolsOK(pools')
    BY <1>2 DEF HeapSound
  <2>. QED
    BY <2>1, FreeAfter
<1>. DEFINE lo == c.base
            hi == c.base + c.size - 1
            b == H!Chunk(c.base, n)
<1>7. /\ <<lo, hi>> \in H!FreeCells \X H!FreeCells /\ lo <= hi /\ lo .. hi = H!Cells(c)
      /\ H!Cells(c) \subseteq H!FreeCells
      /\ \A x : x \in H!Cells(c) <=> x \in Int /\ Within(x, c)
  <2>1. \A x \in Int : Within(x, c) => x \in H!FreeCells
    BY <1>4, <1>5
  <2>. QED
    BY <1>2, <2>1, ChunkIsStretch
<1>8. <<lo, hi>> \in H!Al!Stretches
  BY <1>7 DEF H!Al!Stretches
<1>9. lo + n <= hi + 1
  <2>1. c.base \in Nat /\ c.size \in Nat
    BY <1>2 DEF Block
  <2>. QED
    BY <1>2, <2>1
<1>10. H!FreeCells' = H!FreeCells \ (lo .. hi)
  <2>1. \A x : x \in H!FreeCells' <=> x \in H!FreeCells /\ x \notin H!Cells(c)
    BY <1>4, <1>5, <1>6, <1>7 DEF Less
  <2>. QED
    BY <1>7, <2>1
<1>11. map' = map \cup {c} /\ buffers' = buffers \cup {b}
  BY <1>1, <1>4 DEF Given
<1>12. \A d \in buffers : d.base # c.base /\ d # b
  <2>1. \A d \in buffers : \E m \in map : m.base = d.base
    BY <1>2, <1>4 DEF HeapSound, BuffersOK
  <2>2. b.base = c.base
    BY DEF H!Chunk
  <2>. QED
    BY <1>2, <1>4, <2>1, <2>2
<1>13. H!TakenFor' = [d \in DOMAIN H!TakenFor \cup {b} |->
                        IF d = b THEN lo .. hi ELSE H!TakenFor[d]]
  <2>1. H!TakenFor' = [d \in buffers' |-> H!AllCells({m \in map' : m.base = d.base})]
    BY DEF H!TakenFor
  <2>2. H!TakenFor = [d \in buffers |-> H!AllCells({m \in map : m.base = d.base})]
    BY DEF H!TakenFor
  <2>3. \A d \in buffers : {m \in map' : m.base = d.base} = {m \in map : m.base = d.base}
    BY <1>11, <1>12
  <2>4. H!AllCells({m \in map' : m.base = b.base}) = lo .. hi
    <3>1. ChunksOK(map \cup {c}) /\ c \in map \cup {c}
      BY <1>2, <1>4 DEF HeapSound
    <3>2. {m \in map' : m.base = c.base} = {c}
      BY <1>11, <3>1, TakenIsChunk
    <3>3. b.base = c.base /\ H!AllCells({c}) = H!Cells(c)
      BY DEF H!Chunk, H!AllCells
    <3>. QED
      BY <1>7, <3>2, <3>3
  <2>. HIDE DEF b, lo, hi
  <2>. QED
    BY <1>11, <1>12, <2>1, <2>2, <2>3, <2>4
<1>14. aligned' = [d \in DOMAIN H!TakenFor' |-> IF d = b THEN align ELSE aligned[d]]
  <2>1. DOMAIN H!TakenFor' = buffers'
    BY DEF H!TakenFor
  <2>. QED
    BY <1>1, <2>1 DEF Given
<1>15. b = [base |-> lo, size |-> n]
  BY DEF H!Chunk
<1>. HIDE DEF b, lo, hi
<1>. DEFINE s == <<lo, hi>>
<1>16. s[1] = lo /\ s[2] = hi /\ s \in H!Al!Stretches
  BY <1>8
<1>17. lo % align = 0
  BY <1>2 DEF lo
<1>. HIDE DEF s
<1>. QED
  BY <1>9, <1>10, <1>13, <1>14, <1>15, <1>16, <1>17 DEF H!Al!Allocate

(* one that fails for want of a node,                                       *)
LEMMA NoNodeMislaysCells ==
  ASSUME HeapInv, NEW n \in Nat \ {0}, NEW align \in Nat \ {0}, NEW order \in H!Orders,
         NEW created \in BOOLEAN, NEW again \in BOOLEAN, H!NoNode(n, align, order, created, again),
         past' = {"started"}
  PROVE  H!Al!Mislay \/ UNCHANGED H!Al!vars
<1>1. PICK c : Mislaid(c)
  BY NoNodeMislays
<1>2. /\ c \in Block
      /\ HeapSound(pools', H!MapInitialised, buffers, lost')
      /\ \A x \in Int : Within(x, c) => InPools(x, H!PoolsInitialised)
      /\ Same(pools', H!PoolsInitialised) \/ Less(pools', H!PoolsInitialised, c)
  BY <1>1 DEF Mislaid
<1>3. /\ H!PastInitialised = {"started"} /\ map' = H!MapInitialised
      /\ UNCHANGED <<buffers, aligned>>
  BY DEF H!NoNode
<1>4. /\ \A x : x \in H!FreeCells <=> x \in Int /\ InPools(x, H!PoolsInitialised)
      /\ H!MapInitialised = map
  BY <1>3, FreeBefore
<1>5. \A x : x \in H!FreeCells' <=> x \in Int /\ InPools(x, pools')
  <2>1. PoolsOK(pools')
    BY <1>2 DEF HeapSound
  <2>. QED
    BY <2>1, FreeAfter
<1>6. H!TakenFor' = H!TakenFor
  BY <1>3, <1>4 DEF H!TakenFor
<1>7. CASE Same(pools', H!PoolsInitialised)
  <2>1. H!FreeCells' = H!FreeCells
    BY <1>4, <1>5, <1>7 DEF Same
  <2>. QED
    BY <1>3, <1>6, <2>1 DEF H!Al!vars
<1>8. CASE Less(pools', H!PoolsInitialised, c)
  <2>. DEFINE s == <<c.base, c.base + c.size - 1>>
  <2>1. /\ s \in H!FreeCells \X H!FreeCells /\ s[1] <= s[2] /\ s[1] .. s[2] = H!Cells(c)
        /\ H!Cells(c) \subseteq H!FreeCells
        /\ \A x : x \in H!Cells(c) <=> x \in Int /\ Within(x, c)
    <3>1. \A x \in Int : Within(x, c) => x \in H!FreeCells
      BY <1>2, <1>4
    <3>. QED
      BY <1>2, <3>1, ChunkIsStretch
  <2>. HIDE DEF s
  <2>2. s \in H!Al!Stretches
    BY <2>1 DEF H!Al!Stretches
  <2>3. H!FreeCells' = H!FreeCells \ (s[1] .. s[2])
    <3>1. \A x : x \in H!FreeCells' <=> x \in H!FreeCells /\ x \notin H!Cells(c)
      BY <1>4, <1>5, <1>8, <2>1 DEF Less
    <3>. QED
      BY <2>1, <3>1
  <2>. QED
    BY <1>3, <1>6, <2>2, <2>3 DEF H!Al!Mislay
<1>. QED
  BY <1>2, <1>7, <1>8

(* one that finds no room,                                                  *)
LEMMA OutOfMemoryStutters ==
  ASSUME HeapInv, NEW n, NEW align, NEW order, H!OutOfMemory(n, align, order), past' = {"started"}
  PROVE  UNCHANGED H!Al!vars
<1>1. /\ pools' = H!PoolsInitialised /\ map' = H!MapInitialised /\ H!PastInitialised = {"started"}
      /\ UNCHANGED <<buffers, aligned>>
  BY DEF H!OutOfMemory
<1>2. PoolsOK(pools')
  BY <1>1, Initialised DEF HeapSound
<1>3. /\ \A x : x \in H!FreeCells <=> x \in Int /\ InPools(x, H!PoolsInitialised)
      /\ H!MapInitialised = map
  BY <1>1, FreeBefore
<1>4. H!FreeCells' = H!FreeCells
  BY <1>1, <1>2, <1>3, FreeAfter
<1>5. H!TakenFor' = H!TakenFor
  BY <1>1, <1>3 DEF H!TakenFor
<1>. QED
  BY <1>1, <1>4, <1>5 DEF H!Al!vars

(* and a free.                                                              *)
LEMMA FreeFrees ==
  ASSUME HeapInv, NEW b \in buffers, NEW created \in BOOLEAN, H!Free(b, created),
         past' = {"started"}
  PROVE  b \in DOMAIN H!TakenFor /\ H!Al!Free(b)
<1>1. PICK n : Returned(n, b)
  BY FreeReturns
<1>2. /\ n \in map /\ n \in Block /\ n.base = b.base /\ map' = map \ {n}
      /\ HeapSound(pools, map, buffers, lost)
      /\ HeapSound(pools', map', buffers', lost')
      /\ Same(pools', pools) \/ More(pools', pools, n)
  BY <1>1 DEF Returned
<1>3. /\ past = {"started"} /\ buffers' = buffers \ {b}
      /\ aligned' = [d \in buffers' |-> aligned[d]]
  BY DEF H!Free
<1>4. PoolsOK(pools) /\ PoolsOK(pools') /\ ChunksOK(map) /\ BuffersOK(buffers, map)
  BY <1>2 DEF HeapSound
<1>5. \A x : x \in H!FreeCells <=> x \in Int /\ InPools(x, pools)
  <2>1. H!FreeCells = H!AllCells(UNION {H!Range(pools[k]) : k \in DOMAIN pools})
    <3>1. past # {}
      BY <1>3
    <3>. QED
      BY <3>1 DEF H!FreeCells, H!FreeBlocks
  <2>. QED
    BY <1>4, <2>1, CellsOfPools
<1>6. \A x : x \in H!FreeCells' <=> x \in Int /\ InPools(x, pools')
  BY <1>4, FreeAfter
<1>7. H!TakenFor = [d \in buffers |-> H!AllCells({m \in map : m.base = d.base})]
  BY DEF H!TakenFor
<1>8. DOMAIN H!TakenFor = buffers /\ H!TakenFor[b] = H!Cells(n)
  <2>1. {m \in map : m.base = b.base} = {n}
    BY <1>2, <1>4, TakenIsChunk
  <2>2. H!AllCells({n}) = H!Cells(n)
    BY DEF H!AllCells
  <2>. QED
    BY <1>7, <2>1, <2>2
<1>9. H!TakenFor' = [d \in DOMAIN H!TakenFor \ {b} |-> H!TakenFor[d]]
  <2>1. H!TakenFor' = [d \in buffers' |-> H!AllCells({m \in map' : m.base = d.base})]
    BY DEF H!TakenFor
  <2>2. \A d \in buffers \ {b} : d.base # n.base
    BY <1>2, <1>4 DEF BuffersOK
  <2>3. \A d \in buffers \ {b} : {m \in map' : m.base = d.base} = {m \in map : m.base = d.base}
    BY <1>2, <2>2
  <2>. QED
    BY <1>3, <1>7, <2>1, <2>3
<1>10. aligned' = [d \in DOMAIN H!TakenFor' |-> aligned[d]]
  BY <1>3 DEF H!TakenFor
<1>11. \A x : x \in H!Cells(n) <=> x \in Int /\ Within(x, n)
  <2>1. {n} \subseteq Block
    BY <1>2
  <2>. QED
    BY <2>1, CellsAreWithin
<1>12. H!FreeCells' = H!FreeCells \cup H!TakenFor[b] \/ H!FreeCells' = H!FreeCells
  <2>1. CASE Same(pools', pools)
    BY <1>5, <1>6, <2>1 DEF Same
  <2>2. CASE More(pools', pools, n)
    <3>1. \A x : x \in H!FreeCells' <=> x \in H!FreeCells \/ x \in H!Cells(n)
      BY <1>5, <1>6, <1>11, <2>2 DEF More
    <3>. QED
      BY <1>8, <3>1
  <2>. QED
    BY <1>2, <2>1, <2>2
<1>. QED
  BY <1>8, <1>9, <1>10, <1>12 DEF H!Al!Free

(* Every step of a heap that has not run out of free blocks is a step of    *)
(* the allocator that it promises to be, or changes neither what is free    *)
(* nor what is held (linearMemAlign, linearFree, vramMemAlign and vramFree  *)
(* over MemPool): what a request gets was free, is aligned and long enough, *)
(* whatever waste the search reckoned and however the chunk was cut; and    *)
(* what a free gives back is what went with the buffer.                     *)
THEOREM HeapImplementsAllocator == LibSpec => AllocatorIsImplemented
<1>1. LibInit => H!Al!Init
  BY DEF LibInit, H!Init, H!Al!Init, H!TakenFor
<1>2. HeapInv /\ [LibNext]_lvars => [H!Undisturbed' => H!Al!Next]_(H!Al!vars)
  <2>. SUFFICES ASSUME HeapInv, [LibNext]_lvars, past' = {"started"}
                PROVE  H!Al!Next \/ UNCHANGED H!Al!vars
    BY DEF H!Undisturbed
  <2>1. CASE part = "heap" /\ H!Next
    <3>1. Sizes \subseteq Nat \ {0} /\ Alignments \subseteq Nat \ {0}
      BY HeapAssumption DEF H!HeapAssumption
    <3>2. ASSUME NEW n \in Sizes, NEW align \in Alignments, NEW order \in H!Orders,
                 H!OutOfMemory(n, align, order)
          PROVE  UNCHANGED H!Al!vars
      BY <3>2, OutOfMemoryStutters
    <3>3. ASSUME NEW n \in Sizes, NEW align \in Alignments, NEW order \in H!Orders,
                 NEW created \in BOOLEAN, H!MemAlign(n, align, order, created)
          PROVE  H!Al!Next
      <4>1. H!Al!Allocate(n, align)
        BY <3>1, <3>3, MemAlignAllocates
      <4>. QED
        BY <4>1 DEF H!Al!Next
    <3>4. ASSUME NEW n \in Sizes, NEW align \in Alignments, NEW order \in H!Orders,
                 NEW created \in BOOLEAN, NEW again \in BOOLEAN,
                 H!NoNode(n, align, order, created, again)
          PROVE  H!Al!Next \/ UNCHANGED H!Al!vars
      <4>1. H!Al!Mislay \/ UNCHANGED H!Al!vars
        BY <3>1, <3>4, NoNodeMislaysCells
      <4>. QED
        BY <4>1 DEF H!Al!Next
    <3>5. ASSUME NEW b \in buffers, NEW created \in BOOLEAN, H!Free(b, created)
          PROVE  H!Al!Next
      <4>1. b \in DOMAIN H!TakenFor /\ H!Al!Free(b)
        BY <3>5, FreeFrees
      <4>. QED
        BY <4>1 DEF H!Al!Next
    <3>. QED
      BY <2>1, <3>2, <3>3, <3>4, <3>5 DEF H!Next
  <2>2. CASE UNCHANGED hvars
    <3>1. UNCHANGED H!FreeCells /\ UNCHANGED H!TakenFor /\ UNCHANGED aligned
      BY <2>2 DEF hvars, H!FreeCells, H!FreeBlocks, H!TakenFor
    <3>. QED
      BY <3>1 DEF H!Al!vars
  <2>. QED
    BY <2>1, <2>2 DEF LibNext, lvars
<1>. QED
  BY <1>1, <1>2, HeapInvHolds, PTL DEF LibSpec, AllocatorIsImplemented, H!ImplementsAllocator


-------------------------------------------------------------------------------
(***************************************************************************)
(* What the reference count of a service is good for, whatever its rows:   *)
(* it counts its users, and each of them has what the service acquires.    *)
(***************************************************************************)

Counting == svc.name \notin Miscounts

TypeInv == /\ svc \in Services
           /\ count \in Int
           /\ users \in Nat
           /\ step \in Nat
           /\ step # 0 => step \in DOMAIN svc.steps

(* the count is that of the users, or of the one init that is running       *)
CountInv == Counting => IF step = 0 THEN count = users ELSE count = 1 /\ users = 0

(* what the steps done so far acquired is still there                       *)
HoldInv ==
  Counting =>
    \A i \in Vital : (IF step = 0 THEN users > 0 ELSE i < step) =>
                       svc.steps[i].gets \subseteq open

(* A step that has a number has a row, and in a service that counts its     *)
(* failure is reported once, or not at all.                                 *)
LEMMA StepsOfRow ==
  ASSUME TypeInv
  PROVE  /\ Len(svc.steps) \in Nat \ {0}
         /\ DOMAIN svc.steps = 1 .. Len(svc.steps)
         /\ Counting /\ step # 0 => Running.fails \in {"drop", "exit", "ignore"}
  BY StepsAssumption, CountingAssumption DEF TypeInv, Counting, Running

(* A behaviour is about one service.                                        *)
LEMMA ServiceStays == [Next]_svars => svc' = svc
  BY DEF Next, CallInit, StepSucceeds, StepSkipped, StepFails, CallExit, svars

(* Every state is of its types.                                             *)
LEMMA TypeStep == TypeInv /\ [Next]_svars => TypeInv'
<1> SUFFICES ASSUME TypeInv, [Next]_svars PROVE TypeInv'
  OBVIOUS
<1>1. Len(svc.steps) \in Nat \ {0} /\ DOMAIN svc.steps = 1 .. Len(svc.steps)
  BY StepsOfRow
<1>2. GoOn => users' \in Nat /\ step' \in Nat /\ (step' # 0 => step' \in DOMAIN svc.steps)
  BY <1>1 DEF GoOn, TypeInv
<1>3. CASE CallInit
  BY <1>1, <1>3 DEF CallInit, TypeInv
<1>4. CASE StepSucceeds
  BY <1>2, <1>4 DEF StepSucceeds, TypeInv
<1>5. CASE StepSkipped
  BY <1>2, <1>5 DEF StepSkipped, TypeInv
<1>6. CASE StepFails
  <2>1. svc' = svc /\ count' \in Int
    BY <1>6 DEF StepFails, TypeInv, Dropped
  <2>2. GoOn \/ (step' = 0 /\ users' \in {users, users + 1})
    BY <1>6 DEF StepFails
  <2>. QED
    BY <1>2, <2>1, <2>2 DEF TypeInv
<1>7. CASE CallExit
  BY <1>7 DEF CallExit, TypeInv, Dropped
<1>8. CASE UNCHANGED svars
  BY <1>8 DEF svars, TypeInv
<1>. QED
  BY <1>3, <1>4, <1>5, <1>6, <1>7, <1>8 DEF Next

(* The count follows the users: an init that fails takes back its own unit  *)
(* once, one that succeeds hands it to its caller.                          *)
LEMMA CountStep == TypeInv /\ CountInv /\ [Next]_svars => CountInv'
<1> SUFFICES ASSUME TypeInv, CountInv, [Next]_svars, Counting, svc' = svc
             PROVE  IF step' = 0 THEN count' = users' ELSE count' = 1 /\ users' = 0
  BY ServiceStays DEF CountInv, Counting
<1>1. step # 0 /\ GoOn /\ count' = count =>
        IF step' = 0 THEN count' = users' ELSE count' = 1 /\ users' = 0
  BY DEF GoOn, CountInv, TypeInv
<1>2. CASE CallInit
  BY <1>2 DEF CallInit, CountInv, TypeInv
<1>3. CASE StepSucceeds
  BY <1>1, <1>3 DEF StepSucceeds
<1>4. CASE StepSkipped
  BY <1>1, <1>4 DEF StepSkipped
<1>5. CASE StepFails
  <2>1. step # 0 /\ Running.fails \in {"drop", "exit", "ignore"}
    BY <1>5, StepsOfRow DEF StepFails
  <2>2. CASE Running.fails = "ignore"
    <3>1. GoOn /\ count' = count
      BY <1>5, <2>2 DEF StepFails
    <3>. QED
      BY <1>1, <2>1, <3>1
  <2>3. CASE Running.fails \in {"drop", "exit"}
    <3>1. step' = 0 /\ users' = users /\ count' = count - 1
      BY <1>5, <2>3 DEF StepFails, Dropped
    <3>. QED
      BY <2>1, <3>1 DEF CountInv
  <2>. QED
    BY <2>1, <2>2, <2>3
<1>6. CASE CallExit
  BY <1>6 DEF CallExit, CountInv, TypeInv, Dropped
<1>7. CASE UNCHANGED svars
  BY <1>7 DEF svars, CountInv
<1>. QED
  BY <1>2, <1>3, <1>4, <1>5, <1>6, <1>7 DEF Next

(* What the vital steps acquired stays as long as there is a user: only the *)
(* exit that brings the count to zero, and it is the last user's, closes.   *)
LEMMA HoldStep == TypeInv /\ CountInv /\ HoldInv /\ [Next]_svars => HoldInv'
<1> SUFFICES ASSUME TypeInv, CountInv, HoldInv, [Next]_svars, Counting, svc' = svc,
                    NEW i \in Vital, IF step' = 0 THEN users' > 0 ELSE i < step'
             PROVE  svc.steps[i].gets \subseteq open'
  BY ServiceStays DEF HoldInv, Counting, Vital
<1>1. i \in 1 .. Len(svc.steps) /\ ~svc.steps[i].optional /\ svc.steps[i].fails # "ignore"
  BY StepsOfRow DEF Vital
<1>2. step # 0 /\ GoOn => i <= step
  BY <1>1, StepsOfRow DEF GoOn, TypeInv
<1>3. step # 0 /\ i < step => svc.steps[i].gets \subseteq open
  BY DEF HoldInv
<1>4. CASE CallInit
  BY <1>1, <1>4 DEF CallInit, HoldInv, CountInv, TypeInv
<1>5. CASE StepSucceeds
  <2>1. step # 0 /\ GoOn /\ open' = open \cup svc.steps[step].gets
    BY <1>5 DEF StepSucceeds, Running
  <2>2. CASE i = step
    BY <2>1, <2>2
  <2>3. CASE i # step
    BY <1>1, <1>2, <1>3, <2>1, <2>3 DEF TypeInv
  <2>. QED
    BY <2>2, <2>3
<1>6. CASE StepSkipped
  <2>1. step # 0 /\ GoOn /\ open' = open /\ svc.steps[step].optional
    BY <1>6 DEF StepSkipped, Running
  <2>. QED
    BY <1>1, <1>2, <1>3, <2>1 DEF TypeInv
<1>7. CASE StepFails
  <2>1. step # 0 /\ Running.fails \in {"drop", "exit", "ignore"}
    BY <1>7, StepsOfRow DEF StepFails
  <2>2. CASE Running.fails = "ignore"
    <3>1. GoOn /\ open' = open /\ svc.steps[step].fails = "ignore"
      BY <1>7, <2>2 DEF StepFails, Running
    <3>. QED
      BY <1>1, <1>2, <1>3, <2>1, <3>1 DEF TypeInv
  <2>3. CASE Running.fails \in {"drop", "exit"}
    <3>1. step' = 0 /\ users' = users
      BY <1>7, <2>3 DEF StepFails
    <3>. QED
      BY <2>1, <3>1 DEF CountInv
  <2>. QED
    BY <2>1, <2>2, <2>3
<1>8. CASE CallExit
  <2>1. step = 0 /\ step' = 0 /\ users' = users - 1 /\ open' = AfterExit
    BY <1>8 DEF CallExit
  <2>2. count = users /\ Dropped # 0
    BY <2>1 DEF CountInv, Dropped, TypeInv
  <2>. QED
    BY <2>1, <2>2 DEF AfterExit, HoldInv, TypeInv
<1>9. CASE UNCHANGED svars
  BY <1>9 DEF svars, HoldInv
<1>. QED
  BY <1>4, <1>5, <1>6, <1>7, <1>8, <1>9 DEF Next

(* Before the first call nothing is counted.                                *)
LEMMA Initially == Init => TypeInv /\ CountInv /\ HoldInv
  BY DEF Init, TypeInv, CountInv, HoldInv

(* For every list of services and every number of users, the count of a     *)
(* service not in Miscounts is the number of its users between two calls.   *)
THEOREM TheCountIsRight == Spec => []CountsItsUsers
<1>1. CountInv => CountsItsUsers
  BY DEF CountInv, CountsItsUsers, Counting
<1>. QED
  BY <1>1, Initially, TypeStep, CountStep, PTL DEF Spec

(* And each of these users has, until its own exit, everything that the     *)
(* steps of the init acquire whose success the init has seen.               *)
THEOREM UsersAreAlwaysServed == Spec => []UsersAreServed
<1>1. HoldInv => UsersAreServed
  BY DEF HoldInv, UsersAreServed, Counting
<1>. QED
  BY <1>1, Initially, TypeStep, CountStep, HoldStep, PTL DEF Spec

-------------------------------------------------------------------------------
(***************************************************************************)
(* What is acquired is given back.                                         *)
(***************************************************************************)

(* Whoever reports the failure of a step closes what the steps before it    *)
(* acquired; what is acquired the last exit closes; and an init that goes   *)
(* on without its count acquires nothing.                                   *)
GivesBack(s) ==
  \A i \in DOMAIN s.steps :
    /\ s.steps[i].gets \subseteq s.closes
    /\ s.steps[i].fails \in Failures
    /\ s.steps[i].fails \in {"drop", "keep", "lie"} =>
         \A j \in DOMAIN s.steps : j < i => s.steps[j].gets \subseteq s.steps[i].undo
    /\ s.steps[i].fails = "drop_on" => \A j \in DOMAIN s.steps : j # i => s.steps[j].gets = {}

(* Between calls what is open is counted, and by no more than the users;    *)
(* the init that opens it holds the first count.                            *)
OpenInv ==
  GivesBack(svc) =>
    /\ open \subseteq svc.closes
    /\ step = 0 /\ open # {} => count > 0 /\ count <= users
    /\ step # 0 => /\ \A x \in open : \E j \in DOMAIN svc.steps : j < step /\ x \in svc.steps[j].gets
                   /\ \/ count = 1
                      \/ open = {} /\ \A j \in DOMAIN svc.steps : j >= step => svc.steps[j].gets = {}

(* Going on keeps it.                                                       *)
LEMMA OpenGoesOn ==
  ASSUME TypeInv, OpenInv, step # 0, GoOn, UNCHANGED svc,
         open' \subseteq open \cup svc.steps[step].gets,
         \/ count' = count
         \/ open' = {} /\ \A j \in DOMAIN svc.steps : j > step => svc.steps[j].gets = {}
  PROVE  OpenInv'
<1> SUFFICES ASSUME GivesBack(svc)
             PROVE  /\ open' \subseteq svc.closes
                    /\ step' = 0 /\ open' # {} => count' > 0 /\ count' <= users'
                    /\ step' # 0 =>
                         /\ \A x \in open' : \E j \in DOMAIN svc.steps : j < step' /\ x \in svc.steps[j].gets
                         /\ \/ count' = 1
                            \/ open' = {} /\ \A j \in DOMAIN svc.steps : j >= step' => svc.steps[j].gets = {}
  BY DEF OpenInv, GivesBack
<1>1. /\ DOMAIN svc.steps = 1 .. Len(svc.steps) /\ Len(svc.steps) \in Nat
      /\ step \in DOMAIN svc.steps /\ step \in Nat /\ users \in Nat
  BY StepsOfRow DEF TypeInv
<1>2. svc.steps[step].gets \subseteq svc.closes
  BY <1>1 DEF GivesBack
<1>3. open' \subseteq svc.closes
  BY <1>2 DEF OpenInv
<1>4. count = 1 \/ (open = {} /\ \A j \in DOMAIN svc.steps : j >= step => svc.steps[j].gets = {})
  BY DEF OpenInv
<1>5. count' = 1 \/ open' = {}
  BY <1>1, <1>4
<1>6. CASE step' = 0
  BY <1>1, <1>3, <1>5, <1>6 DEF GoOn
<1>7. CASE step' # 0
  <2>1. step' = step + 1
    BY <1>7 DEF GoOn
  <2>2. \A x \in open' : \E j \in DOMAIN svc.steps : j < step' /\ x \in svc.steps[j].gets
    <3>. SUFFICES ASSUME NEW x \in open'
                  PROVE  \E j \in DOMAIN svc.steps : j < step' /\ x \in svc.steps[j].gets
      OBVIOUS
    <3>1. CASE x \in svc.steps[step].gets
      BY <1>1, <2>1, <3>1
    <3>2. CASE x \in open
      <4>1. PICK j \in DOMAIN svc.steps : j < step /\ x \in svc.steps[j].gets
        BY <3>2 DEF OpenInv
      <4>. QED
        BY <1>1, <2>1, <4>1
    <3>. QED
      BY <3>1, <3>2
  <2>3. \/ count' = 1
        \/ open' = {} /\ \A j \in DOMAIN svc.steps : j >= step' => svc.steps[j].gets = {}
    <3>1. \A j \in DOMAIN svc.steps : (j >= step' <=> j > step) /\ (j > step => j >= step)
      BY <1>1, <2>1
    <3>. QED
      BY <1>1, <1>4, <1>5, <3>1
  <2>. QED
    BY <1>3, <1>7, <2>2, <2>3
<1>. QED
  BY <1>6, <1>7

(* The end of an init that failed leaves nothing open.                      *)
LEMMA OpenStep == TypeInv /\ OpenInv /\ [Next]_svars => OpenInv'
<1> SUFFICES ASSUME TypeInv, OpenInv, [Next]_svars, svc' = svc, GivesBack(svc)
             PROVE  OpenInv'
  BY ServiceStays DEF OpenInv
<1>1. /\ DOMAIN svc.steps = 1 .. Len(svc.steps) /\ Len(svc.steps) \in Nat \ {0}
      /\ count \in Int /\ users \in Nat
      /\ step # 0 => step \in DOMAIN svc.steps /\ step \in Nat
  BY StepsOfRow DEF TypeInv
<1>2. CASE CallInit
  <2>1. CASE count = 0
    <3>1. open = {} /\ open' = {} /\ step' = 1 /\ count' = 1
      BY <1>2, <2>1 DEF CallInit, OpenInv
    <3>. QED
      BY <3>1 DEF OpenInv
  <2>2. CASE count # 0
    <3>1. open' = open /\ step = 0 /\ step' = 0 /\ count' = count + 1 /\ users' = users + 1
      BY <1>2, <2>2 DEF CallInit
    <3>. QED
      BY <1>1, <3>1 DEF OpenInv
  <2>. QED
    BY <2>1, <2>2
<1>3. CASE StepSucceeds
  BY <1>3, OpenGoesOn DEF StepSucceeds, Running
<1>4. CASE StepSkipped
  BY <1>4, OpenGoesOn DEF StepSkipped, Running
<1>5. CASE StepFails
  <2>. DEFINE row == svc.steps[step]
  <2>1. step # 0 /\ step \in DOMAIN svc.steps /\ row.fails \in Failures
    BY <1>1, <1>5 DEF StepFails, GivesBack
  <2>2. ASSUME step' = 0, open' = {} PROVE OpenInv'
    BY <2>2 DEF OpenInv
  <2>3. CASE row.fails = "ignore"
    BY <1>5, <2>1, <2>3, OpenGoesOn DEF StepFails, Running
  <2>4. CASE row.fails = "drop_on"
    <3>1. \A j \in DOMAIN svc.steps : j # step => svc.steps[j].gets = {}
      BY <2>1, <2>4 DEF GivesBack
    <3>2. open = {}
      BY <1>1, <2>1, <3>1 DEF OpenInv
    <3>3. GoOn /\ open' = open \ row.undo
      BY <1>5, <2>4 DEF StepFails, Running
    <3>4. open' = {} /\ \A j \in DOMAIN svc.steps : j > step => svc.steps[j].gets = {}
      BY <1>1, <2>1, <3>1, <3>2, <3>3
    <3>. QED
      BY <2>1, <3>2, <3>3, <3>4, OpenGoesOn
  <2>5. CASE row.fails = "exit"
    <3>1. step' = 0 /\ open' = AfterExit
      BY <1>5, <2>5 DEF StepFails, Running
    <3>2. open' = {}
      BY <1>1, <2>1, <3>1 DEF OpenInv, AfterExit, Dropped
    <3>. QED
      BY <2>2, <3>1, <3>2
  <2>6. CASE row.fails \in {"drop", "keep", "lie"}
    <3>1. step' = 0 /\ open' = open \ row.undo
      BY <1>5, <2>6 DEF StepFails, Running
    <3>2. open \subseteq row.undo
      <4>1. \A j \in DOMAIN svc.steps : j < step => svc.steps[j].gets \subseteq row.undo
        BY <2>1, <2>6 DEF GivesBack
      <4>. QED
        BY <2>1, <4>1 DEF OpenInv
    <3>. QED
      BY <2>2, <3>1, <3>2
  <2>. QED
    BY <2>1, <2>3, <2>4, <2>5, <2>6 DEF Failures
<1>6. CASE CallExit
  <2>1. /\ step = 0 /\ step' = 0 /\ users > 0 /\ users' = users - 1 /\ count' = count - 1
        /\ open' = IF count - 1 = 0 THEN open \ svc.closes ELSE open
    BY <1>6 DEF CallExit, AfterExit, Dropped
  <2>2. CASE count - 1 = 0
    BY <2>1, <2>2 DEF OpenInv
  <2>3. CASE count - 1 # 0
    <3>1. open' = open
      BY <2>1, <2>3
    <3>. QED
      BY <1>1, <2>1, <2>3, <3>1 DEF OpenInv
  <2>. QED
    BY <2>2, <2>3
<1>7. CASE UNCHANGED svars
  BY <1>7 DEF svars, OpenInv
<1>. QED
  BY <1>2, <1>3, <1>4, <1>5, <1>6, <1>7 DEF Next

(* All rows but those of MCLeaks give back what they acquire.               *)
LEMMA RowsGiveBack == \A s \in AllServices : s.name \notin MCLeaks => GivesBack(s)
<1>1. \A s \in {Ac, Am, Ampxi, Cdcchk, Cfgu, Frd, Frdn, Fsreg, Gsplcd, Loader, Mcuhwc, Ndmu, News,
                Ns, NwmExt, Pmapp, Pmdbg, Ps, PtmGets, PtmSets, PtmSysm, Ptmu, PxiDev, PxiPm, Qtm,
                Qtmc} : GivesBack(s)
  <2>1. \A name : GivesBack(Simple(name))
    BY DEF Simple, Service, GetSession, Step, GivesBack, Failures
  <2>. QED
    BY <2>1
       DEF Ac, Am, Ampxi, Cdcchk, Cfgu, Frd, Frdn, Fsreg, Gsplcd, Loader, Mcuhwc, Ndmu, News, Ns,
           NwmExt, Pmapp, Pmdbg, Ps, PtmGets, PtmSets, PtmSysm, Ptmu, PxiDev, PxiPm, Qtm, Qtmc
<1>2. \A s \in {Cam, Y2r, Nfc} : GivesBack(s)
  <2>1. \A name : GivesBack(Driven(name))
    BY DEF Driven, Service, GetSession, Step, GivesBack, Failures
  <2>. QED
    BY <2>1 DEF Cam, Y2r, Nfc
<1>3. GivesBack(Dsp)
  BY DEF Dsp, Service, GetSession, Step, GivesBack, Failures
<1>4. GivesBack(Errf)
  BY DEF Errf, Service, Step, GivesBack, Failures
<1>5. GivesBack(Srv)
  BY DEF Srv, Service, Step, GivesBack, Failures
<1>6. GivesBack(Act)
  BY DEF Act, Service, Step, GivesBack, Failures
<1>7. GivesBack(Boss)
  BY DEF Boss, Service, GetSession, Step, Optional, GivesBack, Failures
<1>8. GivesBack(Fs)
  BY DEF Fs, Service, GetSession, Step, Optional, GivesBack, Failures
<1>9. GivesBack(Nims)
  BY DEF Nims, Service, Step, Request, GivesBack, Failures
<1>10. GivesBack(Ir)
  BY DEF Ir, Service, GetSession, Step, GivesBack, Failures
<1>11. GivesBack(Mic)
  BY DEF Mic, Service, Step, GivesBack, Failures
<1>12. GivesBack(Mvd)
  BY DEF Mvd, Service, GetSession, Step, GivesBack, Failures
<1>13. GivesBack(Uds)
  BY DEF Uds, Service, Step, GivesBack, Failures
<1>14. GivesBack(Ndsp)
  BY DEF Ndsp, Service, Step, GivesBack, Failures
<1>15. \A s \in {Sslc, Irrst, Hid, Csnd, Gsp, Httpc, Apt} : s.name \in MCLeaks
  BY DEF Sslc, Irrst, Hid, Csnd, Gsp, Httpc, Apt, SharedMemory, Service, MCLeaks
<1>. QED
  BY <1>1, <1>2, <1>3, <1>4, <1>5, <1>6, <1>7, <1>8, <1>9, <1>10, <1>11, <1>12, <1>13,
     <1>14, <1>15 DEF AllServices

(* Of every service of the library but those of MCLeaks, however its inits  *)
(* fail and however many use it at once, nothing that an init acquired is   *)
(* open when nobody uses it.                                                *)
THEOREM NothingIsLeftOpen ==
  ASSUME Services \subseteq AllServices, MCLeaks \subseteq Leaks
  PROVE  LibSpec => []NothingStaysOpen
<1>1. LibInit => TypeInv /\ OpenInv
  BY Initially DEF LibInit, Init, OpenInv
<1>2. TypeInv /\ OpenInv /\ [LibNext]_lvars => (TypeInv /\ OpenInv)'
  <2>1. [LibNext]_lvars => [Next]_svars
    BY DEF LibNext, lvars
  <2>. QED
    BY <2>1, TypeStep, OpenStep
<1>3. TypeInv /\ OpenInv => NothingStaysOpen
  BY RowsGiveBack DEF TypeInv, OpenInv, NothingStaysOpen
<1>. QED
  BY <1>1, <1>2, <1>3, PTL DEF LibSpec

-------------------------------------------------------------------------------
(***************************************************************************)
(* The wave buffers of a channel, for any buffers and any number of slots, *)
(* whatever the DSP reports.                                               *)
(***************************************************************************)

(* the place k slots after slot c of a ring of n                            *)
LEMMA RingAt ==
  ASSUME NEW n \in Nat \ {0}, NEW c \in 0 .. n - 1, NEW k \in 0 .. n
  PROVE  (c + k) % n = IF c + k < n THEN c + k ELSE c + k - n
<1>1. CASE c + k \in 0 .. n - 1
  BY <1>1
<1>2. CASE c + k \in n .. 2 * n - 1
  BY <1>2
<1>. QED
  BY <1>1, <1>2

(* what the status of a buffer may be                                       *)
Statuses == {"free", "queued", "playing", "done"}

(* the types of what the proof speaks of                                    *)
SoundTypes ==
  /\ waveBuf \in Seq(WaveBufs)
  /\ status \in [WaveBufs -> Statuses]
  /\ queuedAt \in [WaveBufs -> Nat]
  /\ syncCount \in Nat
  /\ wavBufCount \in 0 .. BufSlots + 1
  /\ wavBufIdNext \in 0 .. BufSlots - 1
  /\ slot \in [0 .. BufSlots - 1 -> WaveBufs \cup {NoBuf}]

(* the buffers in the queue were added since the last clear, those that are *)
(* counted were given to the DSP, and what the sound thread is about to act *)
(* on was reported since the clear or there is nothing that it could be of  *)
SoundHistory ==
  /\ \A i \in 1 .. Len(waveBuf) : queuedAt[waveBuf[i]] = syncCount
  /\ \A i \in 1 .. wavBufCount : waveBuf[i] \in given
  /\ reading /\ wavBufCount > 0 => report.sync = syncCount

SoundInv == SoundTypes /\ N!QueueIsSound /\ SoundHistory

(* The constants of the channel are what NdspChannel asks for.              *)
LEMMA SoundConstants == BufSlots \in Nat \ {0} /\ NoBuf \notin WaveBufs
BY SoundAssumption DEF N!ChannelAssumption

(* A channel starts with an empty queue.                                    *)
LEMMA SoundInit == N!Init => SoundInv
<1> SUFFICES ASSUME N!Init PROVE SoundInv
  OBVIOUS
<1>1. SoundTypes
  <2>1. 0 \in 0 .. BufSlots + 1 /\ 0 \in 0 .. BufSlots - 1
    BY SoundConstants
  <2>. QED
    BY <2>1 DEF N!Init, N!Slots, SoundTypes, Statuses
<1>2. Len(waveBuf) = 0 /\ waveBuf = <<>> /\ wavBufCount = 0 /\ \A b \in WaveBufs : status[b] = "free"
  BY DEF N!Init
<1>3. N!QueueIsSound /\ SoundHistory
  BY <1>2 DEF N!QueueIsSound, N!Queued, SoundHistory
<1>. QED
  BY <1>1, <1>3 DEF SoundInv

(* A buffer is added behind those that are counted.                         *)
LEMMA SoundAdd ==
  ASSUME SoundInv, NEW b \in WaveBufs, N!WaveBufAdd(b)
  PROVE  SoundInv'
<1>1. /\ ~N!Queued(b) /\ waveBuf' = Append(waveBuf, b)
      /\ status' = [status EXCEPT ![b] = "queued"]
      /\ queuedAt' = [queuedAt EXCEPT ![b] = syncCount]
      /\ UNCHANGED <<wavBufCount, wavBufIdNext, syncCount, slot, report, reading, given>>
  BY DEF N!WaveBufAdd
<1>2. /\ waveBuf \in Seq(WaveBufs) /\ Len(waveBuf) \in Nat /\ DOMAIN waveBuf = 1 .. Len(waveBuf)
      /\ wavBufCount \in Nat /\ wavBufCount <= Len(waveBuf)
  BY DEF SoundInv, SoundTypes, N!QueueIsSound
<1>3. /\ waveBuf' \in Seq(WaveBufs) /\ Len(waveBuf') = Len(waveBuf) + 1
      /\ DOMAIN waveBuf' = 1 .. Len(waveBuf) + 1
      /\ waveBuf'[Len(waveBuf) + 1] = b
      /\ \A i \in 1 .. Len(waveBuf) : waveBuf'[i] = waveBuf[i] /\ waveBuf[i] \in WaveBufs
  BY <1>1, <1>2
<1>4. /\ status' \in [WaveBufs -> Statuses] /\ status'[b] = "queued"
      /\ \A x \in WaveBufs : x # b => status'[x] = status[x]
      /\ queuedAt' \in [WaveBufs -> Nat] /\ queuedAt'[b] = syncCount
      /\ \A x \in WaveBufs : x # b => queuedAt'[x] = queuedAt[x]
  BY <1>1 DEF SoundInv, SoundTypes, Statuses
<1>5. \A i \in 1 .. Len(waveBuf) : waveBuf[i] # b
  BY <1>1, <1>2 DEF SoundInv, N!QueueIsSound
<1>6. SoundTypes'
  BY <1>1, <1>3, <1>4 DEF SoundInv, SoundTypes
<1>7. N!QueueIsSound'
  <2>1. \A x \in WaveBufs : N!Queued(x)' <=> \E i \in 1 .. Len(waveBuf) + 1 : waveBuf'[i] = x
    <3> SUFFICES ASSUME NEW x \in WaveBufs
                 PROVE  N!Queued(x)' <=> \E i \in 1 .. Len(waveBuf) + 1 : waveBuf'[i] = x
      OBVIOUS
    <3>1. CASE x = b
      BY <1>2, <1>3, <1>4, <3>1 DEF N!Queued
    <3>2. CASE x # b
      <4>1. N!Queued(x)' <=> \E i \in 1 .. Len(waveBuf) : waveBuf[i] = x
        BY <1>2, <1>4, <3>2 DEF N!Queued, SoundInv, N!QueueIsSound
      <4>. QED
        BY <1>2, <1>3, <3>2, <4>1
    <3>. QED
      BY <3>1, <3>2
  <2>2. \A i, j \in 1 .. Len(waveBuf) + 1 : waveBuf'[i] = waveBuf'[j] => i = j
    <3>1. \A i, j \in 1 .. Len(waveBuf) : waveBuf[i] = waveBuf[j] => i = j
      BY <1>2 DEF SoundInv, N!QueueIsSound
    <3>. QED
      BY <1>2, <1>3, <1>5, <3>1
  <2>3. \A i \in 1 .. Len(waveBuf) + 1 : status'[waveBuf'[i]] = "playing" => i = 1
    <3>1. \A i \in 1 .. Len(waveBuf) : status[waveBuf[i]] = "playing" => i = 1
      BY <1>2 DEF SoundInv, N!QueueIsSound
    <3>2. \A i \in 1 .. Len(waveBuf) : status'[waveBuf'[i]] = status[waveBuf[i]]
      BY <1>3, <1>4, <1>5
    <3>3. status'[waveBuf'[Len(waveBuf) + 1]] # "playing"
      BY <1>3, <1>4
    <3>. QED
      BY <1>2, <3>1, <3>2, <3>3
  <2>4. \A i \in 2 .. wavBufCount :
          slot[(wavBufIdNext + BufSlots - 1 - (wavBufCount - i)) % BufSlots] = waveBuf'[i]
    <3>1. \A i \in 2 .. wavBufCount :
            slot[(wavBufIdNext + BufSlots - 1 - (wavBufCount - i)) % BufSlots] = waveBuf[i]
      BY DEF SoundInv, N!QueueIsSound
    <3>2. \A i \in 2 .. wavBufCount : waveBuf'[i] = waveBuf[i]
      BY <1>2, <1>3
    <3>. QED
      BY <3>1, <3>2
  <2>5. wavBufCount' <= Len(waveBuf')
    BY <1>1, <1>2, <1>3
  <2>6. \A i \in 2 .. wavBufCount' :
          slot'[(wavBufIdNext' + BufSlots - 1 - (wavBufCount' - i)) % BufSlots] = waveBuf'[i]
    BY <1>1, <2>4
  <2>. QED
    BY <1>3, <2>1, <2>2, <2>3, <2>5, <2>6 DEF N!QueueIsSound
<1>8. SoundHistory'
  <2>1. \A i \in 1 .. Len(waveBuf) + 1 : queuedAt'[waveBuf'[i]] = syncCount
    <3>1. \A i \in 1 .. Len(waveBuf) : queuedAt'[waveBuf'[i]] = queuedAt[waveBuf[i]]
      BY <1>3, <1>4, <1>5
    <3>2. \A i \in 1 .. Len(waveBuf) : queuedAt[waveBuf[i]] = syncCount
      BY DEF SoundInv, SoundHistory
    <3>3. queuedAt'[waveBuf'[Len(waveBuf) + 1]] = syncCount
      BY <1>3, <1>4
    <3>. QED
      BY <1>2, <3>1, <3>2, <3>3
  <2>2. \A i \in 1 .. wavBufCount : waveBuf'[i] \in given
    BY <1>2, <1>3 DEF SoundInv, SoundHistory
  <2>. QED
    BY <1>1, <1>3, <2>1, <2>2 DEF SoundInv, SoundHistory
<1>. QED
  BY <1>6, <1>7, <1>8 DEF SoundInv

(* A clear empties the queue, and a report read before it counts for        *)
(* nothing.                                                                 *)
LEMMA SoundClear ==
  ASSUME SoundInv, N!WaveBufClear
  PROVE  SoundInv'
<1>1. /\ syncCount' = syncCount + 1
      /\ status' = [b \in WaveBufs |-> IF N!Queued(b) THEN "done" ELSE status[b]]
      /\ waveBuf' = <<>> /\ wavBufCount' = 0 /\ wavBufIdNext' = 0
      /\ queuedAt' = [b \in WaveBufs |-> 0]
      /\ UNCHANGED slot
  BY DEF N!WaveBufClear
<1>2. SoundTypes'
  <2>1. 0 \in 0 .. BufSlots + 1 /\ 0 \in 0 .. BufSlots - 1
    BY SoundConstants
  <2>2. status' \in [WaveBufs -> Statuses]
    BY <1>1 DEF SoundInv, SoundTypes, Statuses
  <2>. QED
    BY <1>1, <2>1, <2>2 DEF SoundInv, SoundTypes
<1>3. \A b \in WaveBufs : ~N!Queued(b)'
  BY <1>1 DEF N!Queued
<1>4. Len(waveBuf') = 0 /\ DOMAIN waveBuf' = {}
  BY <1>1
<1>5. N!QueueIsSound' /\ SoundHistory'
  BY <1>1, <1>3, <1>4 DEF N!QueueIsSound, SoundHistory
<1>. QED
  BY <1>2, <1>5 DEF SoundInv

(* As many buffers as are taken out were counted.                           *)
LEMMA PassedIsCounted ==
  ASSUME wavBufCount \in Nat
  PROVE  N!Passed \in 0 .. wavBufCount
<1>1. CASE report.cur # 0
  <2>. DEFINE S == {i \in N!Given : N!IdAt(i) = report.cur} \cup {wavBufCount + 1}
  <2>1. S \subseteq 1 .. wavBufCount + 1 /\ wavBufCount + 1 \in S
    BY DEF N!Given
  <2>2. N!Min(S) \in 1 .. wavBufCount + 1
    <3>. HIDE DEF S
    <3>1. S \subseteq Nat /\ S # {}
      BY <2>1
    <3>2. N!Min(S) \in S
      BY <3>1, LeastIsMin
    <3>. QED
      BY <2>1, <3>2
  <2>3. N!Passed = N!Min(S) - 1
    BY <1>1 DEF N!Passed
  <2>. HIDE DEF S
  <2>. QED
    BY <2>2, <2>3
<1>2. CASE report.cur = 0
  <2>. DEFINE S == {i \in N!Given : report.last \in {N!IdAt(i), 0}} \cup {wavBufCount}
  <2>1. S \subseteq 0 .. wavBufCount /\ wavBufCount \in S
    BY DEF N!Given
  <2>2. N!Min(S) \in 0 .. wavBufCount
    <3>. HIDE DEF S
    <3>1. S \subseteq Nat /\ S # {}
      BY <2>1
    <3>2. N!Min(S) \in S
      BY <3>1, LeastIsMin
    <3>. QED
      BY <2>1, <3>2
  <2>3. N!Passed = N!Min(S)
    BY <1>2 DEF N!Passed
  <2>. HIDE DEF S
  <2>. QED
    BY <2>2, <2>3
<1>. QED
  BY <1>1, <1>2

(* What a report says of each buffer.                                       *)
LEMMA PassedStatus ==
  ASSUME SoundInv, N!TakePassed, NEW b \in WaveBufs
  PROVE  /\ (\E i \in 1 .. N!Passed : waveBuf[i] = b) => status'[b] = "done"
         /\ ~(\E i \in 1 .. N!Passed : waveBuf[i] = b) =>
              \/ status'[b] = "playing" /\ N!Passed < wavBufCount /\ waveBuf[N!Passed + 1] = b
              \/ status'[b] = status[b]
<1>1. status' = [x \in WaveBufs |->
                  CASE \E i \in 1 .. N!Passed : waveBuf[i] = x -> "done"
                    [] report.cur # 0 /\ N!Passed < wavBufCount /\ waveBuf[N!Passed + 1] = x -> "playing"
                    [] OTHER -> status[x]]
  BY DEF N!TakePassed
<1>2. CASE \E i \in 1 .. N!Passed : waveBuf[i] = b
  <2>1. PICK i \in 1 .. N!Passed : waveBuf[i] = b
    BY <1>2
  <2>2. N!Passed \in 0 .. wavBufCount /\ wavBufCount \in Nat
    BY PassedIsCounted DEF SoundInv, SoundTypes
  <2>3. ~(N!Passed < wavBufCount /\ waveBuf[N!Passed + 1] = b)
    <3>. SUFFICES ASSUME N!Passed < wavBufCount, waveBuf[N!Passed + 1] = b PROVE FALSE
      OBVIOUS
    <3>1. DOMAIN waveBuf = 1 .. Len(waveBuf) /\ Len(waveBuf) \in Nat /\ wavBufCount <= Len(waveBuf)
      BY DEF SoundInv, SoundTypes, N!QueueIsSound
    <3>2. i \in DOMAIN waveBuf /\ N!Passed + 1 \in DOMAIN waveBuf /\ i # N!Passed + 1
      BY <2>2, <3>1
    <3>. QED
      BY <2>1, <3>2 DEF SoundInv, N!QueueIsSound
  <2>. QED
    BY <1>1, <1>2, <2>3
<1>3. CASE ~\E i \in 1 .. N!Passed : waveBuf[i] = b
  BY <1>1, <1>3
<1>. QED
  BY <1>2, <1>3

(* Taking out what the DSP is through with: the rest moves to the front,    *)
(* with the slots counted from the last.                                    *)
LEMMA SoundTake ==
  ASSUME SoundInv, N!TakePassed
  PROVE  SoundInv'
<1>. DEFINE P == N!Passed
<1>1. /\ waveBuf' = SubSeq(waveBuf, P + 1, Len(waveBuf))
      /\ wavBufCount' = IF waveBuf # <<>> /\ report.cur = 0 THEN 0 ELSE wavBufCount - P
      /\ reading' = FALSE
      /\ given' = {b \in given : status'[b] # "done"}
      /\ queuedAt' = [b \in WaveBufs |-> IF status'[b] = "done" THEN 0 ELSE queuedAt[b]]
      /\ UNCHANGED <<wavBufIdNext, syncCount, slot>>
  BY DEF N!TakePassed
<1>2. /\ waveBuf \in Seq(WaveBufs) /\ Len(waveBuf) \in Nat /\ DOMAIN waveBuf = 1 .. Len(waveBuf)
      /\ wavBufCount \in 0 .. BufSlots + 1 /\ wavBufCount <= Len(waveBuf)
      /\ \A i \in 1 .. Len(waveBuf) : waveBuf[i] \in WaveBufs
  BY DEF SoundInv, SoundTypes, N!QueueIsSound
<1>3. P \in 0 .. wavBufCount
  BY <1>2, PassedIsCounted
<1>4. \A i, j \in 1 .. Len(waveBuf) : waveBuf[i] = waveBuf[j] => i = j
  BY <1>2 DEF SoundInv, N!QueueIsSound
<1>5. \A b \in WaveBufs :
        /\ (\E i \in 1 .. P : waveBuf[i] = b) => status'[b] = "done"
        /\ ~(\E i \in 1 .. P : waveBuf[i] = b) =>
             \/ status'[b] = "playing" /\ P < wavBufCount /\ waveBuf[P + 1] = b
             \/ status'[b] = status[b]
  BY PassedStatus
<1>. HIDE DEF P
<1>6. /\ waveBuf' \in Seq(WaveBufs) /\ Len(waveBuf') = Len(waveBuf) - P
      /\ DOMAIN waveBuf' = 1 .. Len(waveBuf) - P
      /\ \A i \in 1 .. Len(waveBuf) - P : waveBuf'[i] = waveBuf[i + P]
  <2>. DEFINE m == Len(waveBuf)
  <2>1. P \in Nat /\ P <= m /\ m \in Nat
    BY <1>2, <1>3
  <2>. HIDE DEF m
  <2>2. /\ SubSeq(waveBuf, P + 1, m) \in Seq(WaveBufs)
        /\ Len(SubSeq(waveBuf, P + 1, m)) = IF P + 1 <= m THEN m - (P + 1) + 1 ELSE 0
        /\ \A i \in 1 .. m - (P + 1) + 1 : SubSeq(waveBuf, P + 1, m)[i] = waveBuf[P + 1 + i - 1]
    <3>1. \A i \in P + 1 .. m : waveBuf[i] \in WaveBufs
      BY <1>2, <2>1 DEF m
    <3>. QED
      BY <2>1, <3>1, SubSeqProperties
  <2>3. Len(waveBuf') = m - P
    BY <1>1, <2>1, <2>2 DEF m
  <2>4. DOMAIN waveBuf' = 1 .. m - P
    BY <1>1, <2>2, <2>3 DEF m
  <2>5. \A i \in 1 .. m - P : waveBuf'[i] = waveBuf[i + P]
    <3>1. \A i \in 1 .. m - P : i \in 1 .. m - (P + 1) + 1 /\ P + 1 + i - 1 = i + P
      BY <2>1
    <3>. QED
      BY <1>1, <2>2, <3>1 DEF m
  <2>. QED
    BY <1>1, <2>2, <2>3, <2>4, <2>5 DEF m
<1>7. wavBufCount' \in {0, wavBufCount - P} /\ wavBufCount' \in 0 .. BufSlots + 1
      /\ wavBufCount' <= Len(waveBuf) - P
  BY <1>1, <1>2, <1>3, SoundConstants
<1>8. ASSUME NEW i \in 1 .. Len(waveBuf) - P
      PROVE  /\ i + P \in 1 .. Len(waveBuf) /\ waveBuf[i + P] \in WaveBufs
             /\ N!Queued(waveBuf[i + P]) /\ ~(\E j \in 1 .. P : waveBuf[j] = waveBuf[i + P])
             /\ status'[waveBuf[i + P]] \in {"queued", "playing"}
             /\ status'[waveBuf[i + P]] = "playing" => i = 1
  <2>1. i + P \in 1 .. Len(waveBuf) /\ i + P > P
    BY <1>2, <1>3
  <2>2. waveBuf[i + P] \in WaveBufs /\ N!Queued(waveBuf[i + P])
    BY <1>2, <2>1 DEF SoundInv, N!QueueIsSound
  <2>3. ASSUME NEW j \in 1 .. P, waveBuf[j] = waveBuf[i + P] PROVE FALSE
    <3>1. j \in 1 .. Len(waveBuf) /\ j # i + P
      BY <1>2, <1>3, <2>1
    <3>. QED
      BY <1>4, <2>1, <2>3, <3>1
  <2>4. \/ status'[waveBuf[i + P]] = "playing" /\ P < wavBufCount /\ waveBuf[P + 1] = waveBuf[i + P]
        \/ status'[waveBuf[i + P]] = status[waveBuf[i + P]]
    BY <1>5, <2>2, <2>3
  <2>5. status'[waveBuf[i + P]] \in {"queued", "playing"}
    BY <2>2, <2>4 DEF N!Queued
  <2>6. ASSUME status'[waveBuf[i + P]] = "playing" PROVE i = 1
    <3>1. CASE P < wavBufCount /\ waveBuf[P + 1] = waveBuf[i + P]
      <4>1. P + 1 \in 1 .. Len(waveBuf)
        BY <1>2, <1>3, <3>1
      <4>2. P + 1 = i + P
        BY <1>4, <2>1, <3>1, <4>1
      <4>. QED
        BY <1>3, <4>2
    <3>2. CASE status[waveBuf[i + P]] = "playing"
      <4>1. i + P = 1
        BY <1>2, <2>1, <3>2 DEF SoundInv, N!QueueIsSound
      <4>. QED
        BY <1>3, <4>1
    <3>. QED
      BY <2>4, <2>6, <3>1, <3>2
  <2>. QED
    BY <2>1, <2>2, <2>3, <2>5, <2>6
<1>9. SoundTypes'
  <2>1. status' \in [WaveBufs -> Statuses]
    <3>1. \A b \in WaveBufs : status'[b] \in Statuses
      BY <1>5 DEF SoundInv, SoundTypes, Statuses
    <3>2. status' = [b \in WaveBufs |-> status'[b]]
      BY DEF N!TakePassed
    <3>. QED
      BY <3>1, <3>2
  <2>2. queuedAt' \in [WaveBufs -> Nat]
    BY <1>1 DEF SoundInv, SoundTypes
  <2>. QED
    BY <1>1, <1>6, <1>7, <2>1, <2>2 DEF SoundInv, SoundTypes
<1>10. N!QueueIsSound'
  <2>1. \A b \in WaveBufs : N!Queued(b)' <=> \E i \in 1 .. Len(waveBuf) - P : waveBuf'[i] = b
    <3> SUFFICES ASSUME NEW b \in WaveBufs
                 PROVE  N!Queued(b)' <=> \E i \in 1 .. Len(waveBuf) - P : waveBuf'[i] = b
      OBVIOUS
    <3>1. ASSUME NEW i \in 1 .. Len(waveBuf) - P, waveBuf'[i] = b PROVE N!Queued(b)'
      <4>1. waveBuf[i + P] = b
        BY <1>6, <3>1
      <4>. QED
        BY <1>8, <4>1 DEF N!Queued
    <3>2. ASSUME N!Queued(b)' PROVE \E i \in 1 .. Len(waveBuf) - P : waveBuf'[i] = b
      <4>1. ~(\E i \in 1 .. P : waveBuf[i] = b)
        BY <1>5, <3>2 DEF N!Queued
      <4>2. CASE P < wavBufCount /\ waveBuf[P + 1] = b
        <5>1. 1 \in 1 .. Len(waveBuf) - P /\ 1 + P = P + 1
          BY <1>2, <1>3, <4>2
        <5>2. waveBuf'[1] = b
          BY <1>6, <4>2, <5>1
        <5>. QED
          BY <5>1, <5>2
      <4>3. CASE status'[b] = status[b]
        <5>1. PICK j \in 1 .. Len(waveBuf) : waveBuf[j] = b
          BY <1>2, <3>2, <4>3 DEF N!Queued, SoundInv, N!QueueIsSound
        <5>2. j \notin 1 .. P
          BY <4>1, <5>1
        <5>3. j - P \in 1 .. Len(waveBuf) - P /\ (j - P) + P = j
          BY <1>2, <1>3, <5>2
        <5>4. waveBuf'[j - P] = b
          BY <1>6, <5>1, <5>3
        <5>. QED
          BY <5>3, <5>4
      <4>. QED
        BY <1>5, <4>1, <4>2, <4>3
    <3>. QED
      BY <3>1, <3>2
  <2>2. \A i, j \in 1 .. Len(waveBuf) - P : waveBuf'[i] = waveBuf'[j] => i = j
    <3> SUFFICES ASSUME NEW i \in 1 .. Len(waveBuf) - P, NEW j \in 1 .. Len(waveBuf) - P,
                        waveBuf'[i] = waveBuf'[j]
                 PROVE  i = j
      OBVIOUS
    <3>1. waveBuf[i + P] = waveBuf[j + P]
      BY <1>6
    <3>2. i + P = j + P
      BY <1>4, <1>8, <3>1
    <3>. QED
      BY <1>2, <1>3, <3>2
  <2>3. \A i \in 1 .. Len(waveBuf) - P : status'[waveBuf'[i]] = "playing" => i = 1
    BY <1>6, <1>8
  <2>4. \A i \in 2 .. wavBufCount' :
          slot'[(wavBufIdNext' + BufSlots - 1 - (wavBufCount' - i)) % BufSlots] = waveBuf'[i]
    <3> SUFFICES ASSUME NEW i \in 2 .. wavBufCount'
                 PROVE  slot[(wavBufIdNext + BufSlots - 1 - (wavBufCount' - i)) % BufSlots] = waveBuf'[i]
      BY <1>1
    <3>1. wavBufCount' = wavBufCount - P /\ i \in 1 .. Len(waveBuf) - P /\ i + P \in 2 .. wavBufCount
      BY <1>2, <1>3, <1>7
    <3>2. slot[(wavBufIdNext + BufSlots - 1 - (wavBufCount - (i + P))) % BufSlots] = waveBuf[i + P]
      BY <3>1 DEF SoundInv, N!QueueIsSound
    <3>3. wavBufCount' - i = wavBufCount - (i + P)
      BY <1>2, <1>3, <3>1
    <3>. QED
      BY <1>6, <3>1, <3>2, <3>3
  <2>5. wavBufCount' <= Len(waveBuf')
    BY <1>6, <1>7
  <2>. QED
    BY <1>6, <2>1, <2>2, <2>3, <2>4, <2>5 DEF N!QueueIsSound
<1>11. SoundHistory'
  <2>1. \A i \in 1 .. Len(waveBuf) - P : queuedAt'[waveBuf'[i]] = syncCount
    <3> SUFFICES ASSUME NEW i \in 1 .. Len(waveBuf) - P PROVE queuedAt'[waveBuf'[i]] = syncCount
      OBVIOUS
    <3>1. queuedAt'[waveBuf[i + P]] = queuedAt[waveBuf[i + P]]
      BY <1>1, <1>8
    <3>. QED
      BY <1>6, <1>8, <3>1 DEF SoundInv, SoundHistory
  <2>2. \A i \in 1 .. wavBufCount' : waveBuf'[i] \in given'
    <3> SUFFICES ASSUME NEW i \in 1 .. wavBufCount' PROVE waveBuf'[i] \in given'
      OBVIOUS
    <3>1. i \in 1 .. Len(waveBuf) - P /\ i + P \in 1 .. wavBufCount
      BY <1>2, <1>3, <1>7
    <3>2. waveBuf[i + P] \in given
      BY <3>1 DEF SoundInv, SoundHistory
    <3>3. status'[waveBuf[i + P]] # "done"
      BY <1>8, <3>1
    <3>. QED
      BY <1>1, <1>6, <3>1, <3>2, <3>3
  <2>. QED
    BY <1>1, <1>6, <2>1, <2>2 DEF SoundHistory
<1>. QED
  BY <1>9, <1>10, <1>11 DEF SoundInv

(* the slot of buffer i, when buffer `first` goes to slot `start`           *)
PlaceAfter(start, first, i) == (start + i - first) % BufSlots

(* the slot of buffer i of c, when slot `next` is the next to be filled     *)
PlaceBefore(next, c, i) == (next + BufSlots - 1 - (c - i)) % BufSlots

(* The places in the ring, counted back from the next one: those of the     *)
(* buffers given now follow those given before, and they are not more than  *)
(* there are slots.                                                         *)
LEMMA SlotPlaces ==
  ASSUME NEW c \in 0 .. BufSlots + 1, NEW n \in 1 .. BufSlots + 1, c < n,
         NEW next \in 0 .. BufSlots - 1,
         NEW start \in 0 .. BufSlots - 1, start = (IF c = 0 THEN 0 ELSE next),
         NEW first \in 2 .. BufSlots + 2, first = (IF c = 0 THEN 2 ELSE c + 1)
  PROVE  /\ \A i \in first .. n : PlaceAfter(start, first, i) \in 0 .. BufSlots - 1
         /\ \A i, j \in first .. n :
              PlaceAfter(start, first, i) = PlaceAfter(start, first, j) => i = j
         /\ PlaceAfter(start, first, n + 1) \in 0 .. BufSlots - 1
         /\ \A i \in first .. n :
              PlaceBefore(PlaceAfter(start, first, n + 1), n, i) = PlaceAfter(start, first, i)
         /\ \A i \in 2 .. c :
              /\ PlaceBefore(PlaceAfter(start, first, n + 1), n, i) = PlaceBefore(next, c, i)
              /\ PlaceBefore(next, c, i) \in 0 .. BufSlots - 1
              /\ \A j \in first .. n : PlaceAfter(start, first, j) # PlaceBefore(next, c, i)
<1>. DEFINE B == BufSlots
            end == (start + (n + 1) - first) % B
<1>1. B \in Nat \ {0}
  BY SoundConstants
<1>2. start \in 0 .. B - 1 /\ first \in 2 .. B + 2 /\ n + 1 - first \in 0 .. B
  BY <1>1
<1>3. \A k \in 0 .. B : (start + k) % B = IF start + k < B THEN start + k ELSE start + k - B
  BY <1>1, <1>2, RingAt
<1>4. \A k \in 0 .. B : (next + k) % B = IF next + k < B THEN next + k ELSE next + k - B
  BY <1>1, RingAt
<1>5. end = IF start + (n + 1 - first) < B THEN start + (n + 1 - first) ELSE start + (n + 1 - first) - B
  <2>1. start + (n + 1) - first = start + (n + 1 - first)
    BY <1>2
  <2>. QED
    BY <1>2, <1>3, <2>1
<1>. HIDE DEF end
<1>6. end \in 0 .. B - 1
  BY <1>1, <1>2, <1>5
<1>7. \A k \in 0 .. B : (end + k) % B = IF end + k < B THEN end + k ELSE end + k - B
  BY <1>1, <1>6, RingAt
<1>8. ASSUME NEW i \in first .. n
      PROVE  (start + i - first) % B = IF start + (i - first) < B THEN start + (i - first)
                                                                 ELSE start + (i - first) - B
  <2>1. i - first \in 0 .. B /\ start + i - first = start + (i - first)
    BY <1>1, <1>2
  <2>. QED
    BY <1>3, <2>1
<1>9. ASSUME NEW i \in 2 .. n
      PROVE  (end + B - 1 - (n - i)) % B = IF end + (B - 1 - (n - i)) < B THEN end + (B - 1 - (n - i))
                                                                          ELSE end + (B - 1 - (n - i)) - B
  <2>1. B - 1 - (n - i) \in 0 .. B /\ end + B - 1 - (n - i) = end + (B - 1 - (n - i))
    BY <1>1, <1>6
  <2>. QED
    BY <1>7, <2>1
<1>10. ASSUME NEW i \in 2 .. c
       PROVE  (next + B - 1 - (c - i)) % B = IF next + (B - 1 - (c - i)) < B THEN next + (B - 1 - (c - i))
                                                                           ELSE next + (B - 1 - (c - i)) - B
  <2>1. B - 1 - (c - i) \in 0 .. B /\ next + B - 1 - (c - i) = next + (B - 1 - (c - i))
    BY <1>1
  <2>. QED
    BY <1>4, <2>1
<1>11. ASSUME NEW i \in first .. n PROVE (start + i - first) % B \in 0 .. B - 1
  BY <1>1, <1>2, <1>8
<1>12. ASSUME NEW i \in first .. n, NEW j \in first .. n,
              (start + i - first) % B = (start + j - first) % B
       PROVE  i = j
  BY <1>1, <1>2, <1>8, <1>12
<1>13. ASSUME NEW i \in first .. n PROVE (end + B - 1 - (n - i)) % B = (start + i - first) % B
  <2>1. i \in 2 .. n
    BY <1>2
  <2>. QED
    BY <1>1, <1>2, <1>5, <1>8, <1>9, <2>1
<1>14. ASSUME NEW i \in 2 .. c
       PROVE  /\ (end + B - 1 - (n - i)) % B = (next + B - 1 - (c - i)) % B
              /\ (next + B - 1 - (c - i)) % B \in 0 .. B - 1
              /\ \A j \in first .. n : (start + j - first) % B # (next + B - 1 - (c - i)) % B
  <2>1. i \in 2 .. n /\ start = next /\ first = c + 1
    OBVIOUS
  <2>2. (end + B - 1 - (n - i)) % B = (next + B - 1 - (c - i)) % B
    BY <1>1, <1>5, <1>9, <1>10, <2>1
  <2>3. (next + B - 1 - (c - i)) % B \in 0 .. B - 1
    BY <1>1, <1>10
  <2>4. ASSUME NEW j \in first .. n PROVE (start + j - first) % B # (next + B - 1 - (c - i)) % B
    BY <1>1, <1>8, <1>10, <2>1
  <2>. QED
    BY <2>2, <2>3, <2>4
<1>. QED
  BY <1>6, <1>11, <1>12, <1>13, <1>14 DEF end, PlaceAfter, PlaceBefore

(* The largest of a set of one number is that number.                       *)
LEMMA MaxOfOne ==
  ASSUME NEW S, NEW i \in Nat, i \in S, \A j \in S : j = i
  PROVE  N!Max(S) = i
<1>1. S = {i}
  OBVIOUS
<1>. QED
  BY <1>1 DEF N!Max

(* The buffers that the DSP is given now go to slots of their own, behind   *)
(* those of the buffers given before.                                       *)
LEMMA SoundUpdate ==
  ASSUME SoundInv, N!UpdateChn
  PROVE  SoundInv'
<1>. DEFINE n == N!Min({Len(waveBuf), N!Room})
            c == wavBufCount
            new == c + 1 .. n
            start == IF c = 0 THEN 0 ELSE wavBufIdNext
            first == IF c = 0 THEN 2 ELSE c + 1
            At(i) == (start + i - first) % BufSlots
            last(k) == {i \in new : i >= first /\ At(i) = k}
<1>1. /\ ~reading /\ new # {}
      /\ wavBufCount' = n
      /\ wavBufIdNext' = (start + n + 1 - first) % BufSlots
      /\ slot' = [k \in N!Slots |-> IF last(k) = {} THEN slot[k] ELSE waveBuf[N!Max(last(k))]]
      /\ status' = IF 1 \in new THEN [status EXCEPT ![waveBuf[1]] = "playing"] ELSE status
      /\ given' = given \cup {waveBuf[i] : i \in new}
      /\ UNCHANGED <<waveBuf, syncCount, reading, queuedAt>>
  BY DEF N!UpdateChn
<1>2. /\ waveBuf \in Seq(WaveBufs) /\ Len(waveBuf) \in Nat /\ DOMAIN waveBuf = 1 .. Len(waveBuf)
      /\ c \in 0 .. BufSlots + 1 /\ c <= Len(waveBuf)
      /\ \A i \in 1 .. Len(waveBuf) : waveBuf[i] \in WaveBufs
      /\ wavBufIdNext \in 0 .. BufSlots - 1
      /\ BufSlots \in Nat \ {0}
  BY SoundConstants DEF SoundInv, SoundTypes, N!QueueIsSound
<1>3. n \in Nat /\ n <= Len(waveBuf) /\ n <= BufSlots + 1
  <2>1. N!Room = BufSlots + 1
    BY DEF N!Room
  <2>2. {Len(waveBuf), BufSlots + 1} \subseteq Nat /\ {Len(waveBuf), BufSlots + 1} # {}
    BY <1>2
  <2>3. /\ n \in {Len(waveBuf), BufSlots + 1}
        /\ \A x \in {Len(waveBuf), BufSlots + 1} : n <= x
    BY <2>1, <2>2, LeastIsMin
  <2>. QED
    BY <2>2, <2>3
<1>. HIDE DEF n
<1>4. c < n /\ n \in 1 .. BufSlots + 1 /\ n \in 1 .. Len(waveBuf)
  BY <1>1, <1>2, <1>3
<1>5. first \in c + 1 .. c + 2 /\ first > 1 /\ (c # 0 => first = c + 1) /\ (c = 0 => first = 2)
  BY <1>2
<1>6. /\ start = (IF c = 0 THEN 0 ELSE wavBufIdNext) /\ start \in 0 .. BufSlots - 1
      /\ first = (IF c = 0 THEN 2 ELSE c + 1) /\ first \in 2 .. BufSlots + 2
  BY <1>2
<1>. DEFINE Here(i) == PlaceAfter(start, first, i)
            end == Here(n + 1)
            Old(i) == PlaceBefore(wavBufIdNext, c, i)
            Now(i) == PlaceBefore(end, n, i)
<1>7. /\ end \in 0 .. BufSlots - 1
      /\ \A i \in first .. n : Now(i) = Here(i) /\ Here(i) \in 0 .. BufSlots - 1
      /\ \A i, j \in first .. n : Here(i) = Here(j) => i = j
      /\ \A i \in 2 .. c : Now(i) = Old(i) /\ Old(i) \in 0 .. BufSlots - 1
      /\ \A i \in 2 .. c : \A j \in first .. n : Here(j) # Old(i)
  <2>. HIDE DEF c, start, first
  <2>1. /\ c \in 0 .. BufSlots + 1 /\ n \in 1 .. BufSlots + 1 /\ c < n
        /\ wavBufIdNext \in 0 .. BufSlots - 1
    BY <1>2, <1>4
  <2>. QED
    BY <1>6, <2>1, SlotPlaces
<1>8. /\ wavBufIdNext' = end
      /\ \A i : At(i) = Here(i)
  <2>1. start + n + 1 - first = start + (n + 1) - first
    BY <1>4, <1>6
  <2>. QED
    BY <1>1, <2>1 DEF PlaceAfter
<1>. HIDE DEF At, Here, end, Old, Now, start, first
<1>9. /\ 1 \in new <=> c = 0
      /\ \A i \in new : i \in 1 .. Len(waveBuf)
      /\ \A i \in first .. n : i \in new /\ i >= first
      /\ \A i \in new : i >= first => i \in first .. n
  BY <1>2, <1>3, <1>4, <1>5
<1>10. ASSUME NEW k \in 0 .. BufSlots - 1
       PROVE  /\ \A i \in first .. n : Here(i) = k => slot'[k] = waveBuf[i]
              /\ (\A i \in first .. n : Here(i) # k) => slot'[k] = slot[k]
              /\ slot'[k] \in WaveBufs \cup {NoBuf}
  <2>1. slot'[k] = IF last(k) = {} THEN slot[k] ELSE waveBuf[N!Max(last(k))]
    BY <1>1 DEF N!Slots
  <2>2. ASSUME NEW i \in first .. n, Here(i) = k
        PROVE  slot'[k] = waveBuf[i] /\ slot'[k] \in WaveBufs
    <3>1. i \in last(k) /\ i \in Nat
      BY <1>2, <1>8, <1>4, <1>5, <1>9, <2>2
    <3>2. \A j \in last(k) : j = i
      BY <1>7, <1>8, <1>9, <2>2
    <3>3. N!Max(last(k)) = i
      <4>. HIDE DEF last
      <4>. QED
        BY <3>1, <3>2, MaxOfOne
    <3>. QED
      BY <1>2, <1>9, <2>1, <2>2, <3>1, <3>3
  <2>3. (\A i \in first .. n : Here(i) # k) => last(k) = {}
    BY <1>8, <1>9
  <2>4. slot[k] \in WaveBufs \cup {NoBuf}
    BY DEF SoundInv, SoundTypes
  <2>. QED
    BY <2>1, <2>2, <2>3, <2>4
<1>11. /\ status' \in [WaveBufs -> Statuses]
       /\ c # 0 => status' = status
       /\ c = 0 => /\ status'[waveBuf[1]] = "playing"
                   /\ \A x \in WaveBufs : x # waveBuf[1] => status'[x] = status[x]
  <2>1. waveBuf[1] \in WaveBufs
    BY <1>2, <1>4
  <2>2. status \in [WaveBufs -> Statuses]
    BY DEF SoundInv, SoundTypes
  <2>3. CASE c = 0
    <3>1. status' = [status EXCEPT ![waveBuf[1]] = "playing"]
      BY <1>1, <1>9, <2>3
    <3>. QED
      BY <2>1, <2>2, <2>3, <3>1 DEF Statuses
  <2>4. CASE c # 0
    BY <1>1, <1>9, <2>2, <2>4
  <2>. QED
    BY <2>3, <2>4
<1>. HIDE DEF last
<1>12. SoundTypes'
  <2>1. slot' \in [0 .. BufSlots - 1 -> WaveBufs \cup {NoBuf}]
    <3>1. \A k \in 0 .. BufSlots - 1 : slot'[k] \in WaveBufs \cup {NoBuf}
      BY <1>10
    <3>2. slot' = [k \in 0 .. BufSlots - 1 |-> slot'[k]]
      BY <1>1 DEF N!Slots
    <3>. QED
      BY <3>1, <3>2
  <2>2. wavBufCount' \in 0 .. BufSlots + 1
    BY <1>1, <1>2, <1>4
  <2>. QED
    BY <1>1, <1>7, <1>8, <1>11, <2>1, <2>2 DEF SoundInv, SoundTypes
<1>13. N!QueueIsSound'
  <2>1. \A b \in WaveBufs : N!Queued(b)' <=> \E i \in DOMAIN waveBuf : waveBuf[i] = b
    <3> SUFFICES ASSUME NEW b \in WaveBufs PROVE N!Queued(b)' <=> N!Queued(b)
      BY DEF SoundInv, N!QueueIsSound
    <3>1. N!Queued(waveBuf[1])
      <4>1. waveBuf[1] \in WaveBufs /\ 1 \in DOMAIN waveBuf
        BY <1>2, <1>4
      <4>. QED
        BY <4>1 DEF SoundInv, N!QueueIsSound
    <3>. QED
      BY <1>11, <3>1 DEF N!Queued
  <2>2. \A i \in DOMAIN waveBuf : status'[waveBuf[i]] = "playing" => i = 1
    <3> SUFFICES ASSUME NEW i \in DOMAIN waveBuf, status'[waveBuf[i]] = "playing" PROVE i = 1
      OBVIOUS
    <3>1. status[waveBuf[i]] = "playing" \/ waveBuf[i] = waveBuf[1]
      BY <1>2, <1>11
    <3>2. 1 \in DOMAIN waveBuf
      BY <1>2, <1>4
    <3>. QED
      BY <3>1, <3>2 DEF SoundInv, N!QueueIsSound
  <2>3. ASSUME NEW i \in 2 .. n
        PROVE  slot'[Now(i)] = waveBuf[i]
    <3>1. CASE i <= c
      <4>1. i \in 2 .. c
        BY <1>2, <3>1
      <4>2. slot[Old(i)] = waveBuf[i]
        BY <4>1 DEF SoundInv, N!QueueIsSound, Old, PlaceBefore
      <4>3. slot'[Old(i)] = slot[Old(i)]
        BY <1>7, <1>10, <4>1
      <4>. QED
        BY <1>7, <4>1, <4>2, <4>3
    <3>2. CASE i > c
      <4>1. i \in first .. n
        BY <1>2, <1>4, <1>5, <3>2
      <4>. QED
        BY <1>7, <1>10, <4>1
    <3>. QED
      BY <1>2, <3>1, <3>2
  <2>4. \A i \in 2 .. wavBufCount' :
          slot'[(wavBufIdNext' + BufSlots - 1 - (wavBufCount' - i)) % BufSlots] = waveBuf'[i]
    BY <1>1, <1>8, <2>3 DEF Now, PlaceBefore
  <2>5. wavBufCount' <= Len(waveBuf')
    BY <1>1, <1>3
  <2>6. \A i, j \in DOMAIN waveBuf : waveBuf[i] = waveBuf[j] => i = j
    BY DEF SoundInv, N!QueueIsSound
  <2>. QED
    BY <1>1, <2>1, <2>2, <2>4, <2>5, <2>6 DEF N!QueueIsSound
<1>14. SoundHistory'
  <2>1. \A i \in 1 .. wavBufCount' : waveBuf[i] \in given'
    <3> SUFFICES ASSUME NEW i \in 1 .. n PROVE waveBuf[i] \in given'
      BY <1>1
    <3>1. CASE i <= c
      <4>1. i \in 1 .. c
        BY <1>2, <3>1
      <4>. QED
        BY <1>1, <4>1 DEF SoundInv, SoundHistory
    <3>2. CASE i > c
      <4>1. i \in new
        BY <1>2, <1>3, <3>2
      <4>. QED
        BY <1>1, <4>1
    <3>. QED
      BY <1>2, <3>1, <3>2
  <2>2. \A i \in 1 .. Len(waveBuf) : queuedAt[waveBuf[i]] = syncCount
    BY DEF SoundInv, SoundHistory
  <2>. QED
    BY <1>1, <2>1, <2>2 DEF SoundHistory
<1>. QED
  BY <1>12, <1>13, <1>14 DEF SoundInv

(* What has been read is of this moment.                                    *)
LEMMA SoundRead ==
  ASSUME SoundInv, N!ReadReport
  PROVE  SoundInv'
<1>1. /\ \E cur, last \in N!SeqIds : report' = [sync |-> syncCount, cur |-> cur, last |-> last]
      /\ UNCHANGED <<waveBuf, status, queuedAt, syncCount, wavBufCount, wavBufIdNext, slot, given>>
  BY DEF N!ReadReport
<1>2. report'.sync = syncCount
  BY <1>1
<1>3. SoundTypes' /\ N!QueueIsSound'
  BY <1>1 DEF SoundInv, SoundTypes, N!QueueIsSound, N!Queued
<1>4. SoundHistory'
  BY <1>1, <1>2 DEF SoundInv, SoundHistory
<1>. QED
  BY <1>3, <1>4 DEF SoundInv

(* Every step of the channel, and every step that leaves it alone.          *)
LEMMA SoundNext == SoundInv /\ [N!Next]_N!vars => SoundInv'
<1> SUFFICES ASSUME SoundInv, [N!Next]_N!vars PROVE SoundInv'
  OBVIOUS
<1>1. ASSUME UNCHANGED N!vars PROVE SoundInv'
  BY <1>1 DEF N!vars, SoundInv, SoundTypes, SoundHistory, N!QueueIsSound, N!Queued
<1>. QED
  BY <1>1, SoundAdd, SoundClear, SoundRead, SoundTake, SoundUpdate DEF N!Next

(* The sound thread's queue stays sound in a library of which it is a part. *)
LEMMA SoundHolds == LibSpec => []SoundInv
<1>1. LibInit => SoundInv
  BY SoundInit DEF LibInit
<1>2. SoundInv /\ [LibNext]_lvars => SoundInv'
  <2> SUFFICES ASSUME SoundInv, [LibNext]_lvars PROVE SoundInv'
    OBVIOUS
  <2>1. [N!Next]_N!vars
    BY DEF LibNext, lvars, nvars, N!vars
  <2>. QED
    BY <2>1, SoundNext
<1>. QED
  BY <1>1, <1>2, PTL DEF LibSpec

(* The queue of wave buffers, the counts, the statuses and the slots agree, *)
(* whatever the DSP reports and whenever the program adds and clears        *)
(* (ndsp-channel.c), for any number of buffers and slots.                   *)
THEOREM WaveBufsStayInOrder == LibSpec => []QueueIsSound
<1>1. SoundInv => QueueIsSound
  BY DEF SoundInv, QueueIsSound
<1>. QED
  BY <1>1, SoundHolds, PTL

(* A step marks a buffer done only by a clear, or by a report made of the   *)
(* queue that the buffer is in, after the DSP was given it.                 *)
LEMMA DoneStep ==
  ASSUME SoundInv, [N!Next]_N!vars, NEW b \in WaveBufs,
         N!Queued(b), status'[b] = "done", syncCount' = syncCount
  PROVE  b \in given /\ report.sync = queuedAt[b]
<1>1. status[b] # "done" /\ syncCount \in Nat /\ status \in [WaveBufs -> Statuses]
  BY DEF N!Queued, SoundInv, SoundTypes
<1>2. CASE N!TakePassed
  <2>1. N!Passed \in 0 .. wavBufCount /\ wavBufCount \in Nat /\ reading
    BY <1>2, PassedIsCounted DEF SoundInv, SoundTypes, N!TakePassed
  <2>2. PICK i \in 1 .. N!Passed : waveBuf[i] = b
    BY <1>1, <1>2, PassedStatus
  <2>3. i \in 1 .. wavBufCount /\ wavBufCount > 0
    BY <2>1
  <2>4. i \in 1 .. Len(waveBuf)
    BY <2>3 DEF SoundInv, SoundTypes, N!QueueIsSound
  <2>. QED
    BY <2>1, <2>2, <2>3, <2>4 DEF SoundInv, SoundHistory
<1>3. CASE \E x \in WaveBufs : N!WaveBufAdd(x)
  <2>1. PICK x \in WaveBufs : status' = [status EXCEPT ![x] = "queued"]
    BY <1>3 DEF N!WaveBufAdd
  <2>. QED
    BY <1>1, <2>1
<1>4. CASE N!WaveBufClear
  BY <1>1, <1>4 DEF N!WaveBufClear
<1>5. CASE N!UpdateChn
  <2>1. status' = status \/ status' = [status EXCEPT ![waveBuf[1]] = "playing"]
    BY <1>5 DEF N!UpdateChn
  <2>. QED
    BY <1>1, <2>1
<1>6. CASE N!ReadReport \/ UNCHANGED N!vars
  BY <1>1, <1>6 DEF N!ReadReport, N!vars
<1>. QED
  BY <1>2, <1>3, <1>4, <1>5, <1>6 DEF N!Next

(* A wave buffer is done because the channel was cleared, or because of a   *)
(* report that the DSP made of this queue after it was given the buffer: a  *)
(* clear between ndspiReadChnState and the lock makes no difference.        *)
THEOREM DoneIsEarned == LibSpec => DoneForAReason
<1>1. SoundInv /\ [LibNext]_lvars =>
        [\A b \in WaveBufs : N!Queued(b) /\ status'[b] = "done" /\ syncCount' = syncCount
                               => b \in given /\ report.sync = queuedAt[b]]_N!vars
  <2> SUFFICES ASSUME SoundInv, [LibNext]_lvars, NEW b \in WaveBufs,
                      N!Queued(b), status'[b] = "done", syncCount' = syncCount
               PROVE  b \in given /\ report.sync = queuedAt[b]
    OBVIOUS
  <2>1. [N!Next]_N!vars
    BY DEF LibNext, lvars, nvars, N!vars
  <2>. QED
    BY <2>1, DoneStep
<1>. QED
  BY <1>1, SoundHolds, PTL DEF LibSpec, DoneForAReason, N!DoneForAReason

-------------------------------------------------------------------------------
(***************************************************************************)
(* The relay of APT parameters loses none, whatever the commands: the      *)
(* invariant is inductive as it stands.                                    *)
(***************************************************************************)

(* The handler's half: every event it takes off ends in the event being     *)
(* signalled again, in the relay, or with nothing there for the main thread.*)
LEMMA HandlerStep == A!NoParameterLeftBehind /\ A!Handler => A!NoParameterLeftBehind'
<1> SUFFICES ASSUME A!NoParameterLeftBehind, A!Handler PROVE A!NoParameterLeftBehind'
  OBVIOUS
<1>1. CASE A!HandlerWakes
  BY <1>1 DEF A!HandlerWakes, A!NoParameterLeftBehind
<1>2. CASE A!HandlerRetries
  BY <1>2 DEF A!HandlerRetries, A!NoParameterLeftBehind
<1>3. CASE A!HandlerGoesOn
  BY <1>3 DEF A!HandlerGoesOn, A!NoParameterLeftBehind
<1>4. CASE A!ClearEvent
  BY <1>4 DEF A!ClearEvent, A!NoParameterLeftBehind
<1>5. CASE A!GlanceParameter
  BY <1>5 DEF A!GlanceParameter, A!NoParameterLeftBehind
<1>6. CASE A!HandledHere
  BY <1>6 DEF A!HandledHere, A!NoParameterLeftBehind
<1>7. CASE A!CancelSpurious
  BY <1>7 DEF A!CancelSpurious, A!NoParameterLeftBehind
<1>8. CASE A!Relay
  BY <1>8 DEF A!Relay, A!NoParameterLeftBehind
<1>. QED
  BY <1>1, <1>2, <1>3, <1>4, <1>5, <1>6, <1>7, <1>8 DEF A!Handler

(* The main thread's half: it clears the relayed event before it takes what *)
(* is there, and not after.                                                 *)
LEMMA MainStep == A!NoParameterLeftBehind /\ A!Main => A!NoParameterLeftBehind'
<1> SUFFICES ASSUME A!NoParameterLeftBehind, A!Main PROVE A!NoParameterLeftBehind'
  OBVIOUS
<1>1. ASSUME NEW commands, A!StartWaiting(commands) PROVE A!NoParameterLeftBehind'
  BY <1>1 DEF A!StartWaiting, A!NoParameterLeftBehind
<1>2. CASE A!WaitReceive
  BY <1>2 DEF A!WaitReceive, A!NoParameterLeftBehind
<1>3. CASE A!ClearReceive
  BY <1>3 DEF A!ClearReceive, A!NoParameterLeftBehind
<1>4. CASE A!ReceiveParameter
  BY <1>4 DEF A!ReceiveParameter, A!NoParameterLeftBehind
<1>. QED
  BY <1>1, <1>2, <1>3, <1>4 DEF A!Main

(* Every step, and those of the other parts.                                *)
LEMMA AptStep == A!NoParameterLeftBehind /\ [A!Next]_avars => A!NoParameterLeftBehind'
<1> SUFFICES ASSUME A!NoParameterLeftBehind, [A!Next]_avars PROVE A!NoParameterLeftBehind'
  OBVIOUS
<1>1. ASSUME NEW cmd, A!SendParameter(cmd) PROVE A!NoParameterLeftBehind'
  BY <1>1 DEF A!SendParameter, A!NoParameterLeftBehind
<1>2. CASE UNCHANGED avars
  BY <1>2 DEF avars, A!NoParameterLeftBehind
<1>. QED
  BY <1>1, <1>2, HandlerStep, MainStep DEF A!Next

(* For all commands, a parameter for the main thread is never left behind.  *)
THEOREM ParametersArriveAtMain == LibSpec => []NoParameterLeftBehind
<1>. DEFINE P == A!NoParameterLeftBehind
<1>1. LibInit => P
  BY DEF LibInit, A!Init, A!NoParameterLeftBehind
<1>2. P /\ [LibNext]_lvars => P'
  BY AptStep DEF LibNext, lvars
<1>3. P => NoParameterLeftBehind
  BY DEF NoParameterLeftBehind
<1>. QED
  BY <1>1, <1>2, <1>3, PTL DEF LibSpec

-------------------------------------------------------------------------------
(***************************************************************************)
(* The trees under the heaps.  TreeProofs is about RBTree on its own; its  *)
(* definitions are those of the tree of this composition, one by one.      *)
(***************************************************************************)
TreeTheory == INSTANCE TreeProofs

LEMMA SameSearches ==
  /\ \A x, k : T!Find(x, k) = TreeTheory!Find(x, k)
  /\ \A x, k : T!SearchEnd(x, k) = TreeTheory!SearchEnd(x, k)
  /\ \A x, n, s : T!Outermost(x, n, s) = TreeTheory!Outermost(x, n, s)
  /\ \A x, n, s : T!Iterate(x, n, s) = TreeTheory!Iterate(x, n, s)
<1>1. ASSUME NEW x, NEW k PROVE T!Find(x, k) = TreeTheory!Find(x, k)
  BY DEF T!Find, TreeTheory!Find, T!Toward, TreeTheory!Toward,
         T!LEFT, TreeTheory!LEFT, T!RIGHT, TreeTheory!RIGHT
<1>2. ASSUME NEW x, NEW k PROVE T!SearchEnd(x, k) = TreeTheory!SearchEnd(x, k)
  BY DEF T!SearchEnd, TreeTheory!SearchEnd, T!Toward, TreeTheory!Toward,
         T!LEFT, TreeTheory!LEFT, T!RIGHT, TreeTheory!RIGHT
<1>3. ASSUME NEW x, NEW n, NEW s PROVE T!Outermost(x, n, s) = TreeTheory!Outermost(x, n, s)
  BY DEF T!Outermost, TreeTheory!Outermost
<1>4. ASSUME NEW x, NEW n, NEW s PROVE T!Iterate(x, n, s) = TreeTheory!Iterate(x, n, s)
  BY <1>3 DEF T!Iterate, TreeTheory!Iterate
<1>. QED
  BY <1>1, <1>2, <1>3, <1>4

LEMMA SameOperators ==
  /\ T!LEFT = TreeTheory!LEFT /\ T!RIGHT = TreeTheory!RIGHT
  /\ T!Idle = TreeTheory!Idle /\ T!EmptyTree = TreeTheory!EmptyTree
  /\ \A x, n : T!Red(x, n) <=> TreeTheory!Red(x, n)
  /\ \A x, S : T!SetBlack(x, S) = TreeTheory!SetBlack(x, S)
  /\ \A x, n : T!SetRed(x, n) = TreeTheory!SetRed(x, n)
  /\ \A x, n, p : T!SetParent(x, n, p) = TreeTheory!SetParent(x, n, p)
  /\ \A x, n, s, c : T!SetChild(x, n, s, c) = TreeTheory!SetChild(x, n, s, c)
  /\ \A x, n, p : T!Across(x, n, p) = TreeTheory!Across(x, n, p)
BY DEF T!LEFT, TreeTheory!LEFT, T!RIGHT, TreeTheory!RIGHT, T!Idle, TreeTheory!Idle,
       T!EmptyTree, TreeTheory!EmptyTree, T!Red, TreeTheory!Red, T!SetBlack, TreeTheory!SetBlack,
       T!SetRed, TreeTheory!SetRed, T!SetParent, TreeTheory!SetParent,
       T!SetChild, TreeTheory!SetChild, T!Across, TreeTheory!Across

LEMMA SameRotations ==
  /\ \A x, p, o, n : T!Replace(x, p, o, n) = TreeTheory!Replace(x, p, o, n)
  /\ \A x, n, s : T!Rotate(x, n, s) = TreeTheory!Rotate(x, n, s)
  /\ \A x, n, s : T!Promote(x, n, s) = TreeTheory!Promote(x, n, s)
<1>1. ASSUME NEW x, NEW p, NEW o, NEW n PROVE T!Replace(x, p, o, n) = TreeTheory!Replace(x, p, o, n)
  BY SameOperators DEF T!Replace, TreeTheory!Replace
<1>2. ASSUME NEW x, NEW n, NEW s PROVE T!Rotate(x, n, s) = TreeTheory!Rotate(x, n, s)
  BY <1>1, SameOperators DEF T!Rotate, TreeTheory!Rotate
<1>3. ASSUME NEW x, NEW n, NEW s PROVE T!Promote(x, n, s) = TreeTheory!Promote(x, n, s)
  BY <1>2, SameOperators DEF T!Promote, TreeTheory!Promote
<1>. QED
  BY <1>1, <1>2, <1>3

LEMMA SameInserts ==
  /\ \A n : T!InsertRefused(n) <=> TreeTheory!InsertRefused(n)
  /\ \A n, multi : T!InsertLeaf(n, multi) <=> TreeTheory!InsertLeaf(n, multi)
  /\ T!InsertRecolour <=> TreeTheory!InsertRecolour
  /\ T!InsertRotate <=> TreeTheory!InsertRotate
  /\ T!InsertDone <=> TreeTheory!InsertDone
<1>1. ASSUME NEW n PROVE T!InsertRefused(n) <=> TreeTheory!InsertRefused(n)
  BY SameSearches DEF T!InsertRefused, TreeTheory!InsertRefused, T!vars, TreeTheory!vars
<1>2. ASSUME NEW n, NEW multi PROVE T!InsertLeaf(n, multi) <=> TreeTheory!InsertLeaf(n, multi)
  BY SameSearches, SameOperators DEF T!InsertLeaf, TreeTheory!InsertLeaf
<1>3. /\ T!Inserting <=> TreeTheory!Inserting
      /\ T!InsertParent = TreeTheory!InsertParent /\ T!Grandparent = TreeTheory!Grandparent
      /\ T!UncleSide = TreeTheory!UncleSide /\ T!Uncle = TreeTheory!Uncle
  BY SameOperators DEF T!Inserting, TreeTheory!Inserting, T!InsertParent, TreeTheory!InsertParent,
     T!Grandparent, TreeTheory!Grandparent, T!UncleSide, TreeTheory!UncleSide, T!Uncle, TreeTheory!Uncle
<1>4. T!InsertRecolour <=> TreeTheory!InsertRecolour
  BY <1>3, SameOperators DEF T!InsertRecolour, TreeTheory!InsertRecolour
<1>5. T!InsertRotate <=> TreeTheory!InsertRotate
  BY <1>3, SameOperators, SameRotations DEF T!InsertRotate, TreeTheory!InsertRotate
<1>6. T!InsertDone <=> TreeTheory!InsertDone
  BY <1>3, SameOperators DEF T!InsertDone, TreeTheory!InsertDone
<1>. QED
  BY <1>1, <1>2, <1>4, <1>5, <1>6

LEMMA SameRemovals ==
  /\ \A n : T!Unlink(n) <=> TreeTheory!Unlink(n)
  /\ T!MendUp <=> TreeTheory!MendUp
  /\ T!MendOver <=> TreeTheory!MendOver
  /\ T!RemoveDone <=> TreeTheory!RemoveDone
  /\ T!Clear <=> TreeTheory!Clear
<1>1. ASSUME NEW n PROVE T!Bypass(n) = TreeTheory!Bypass(n) /\ T!Successor(n) = TreeTheory!Successor(n)
  BY SameOperators, SameRotations, SameSearches
  DEF T!Bypass, TreeTheory!Bypass, T!Successor, TreeTheory!Successor
<1>2. ASSUME NEW x, NEW n, NEW next
      PROVE  /\ T!Depart(x, n, next) = TreeTheory!Depart(x, n, next)
             /\ T!Inherit(x, n, next) = TreeTheory!Inherit(x, n, next)
  BY SameOperators DEF T!Depart, TreeTheory!Depart, T!Inherit, TreeTheory!Inherit
<1>3. ASSUME NEW n, NEW next PROVE T!Succeed(n, next) = TreeTheory!Succeed(n, next)
  BY <1>2, SameOperators, SameRotations DEF T!Succeed, TreeTheory!Succeed
<1>4. ASSUME NEW n PROVE T!Unlink(n) <=> TreeTheory!Unlink(n)
  BY <1>1, <1>3, SameOperators DEF T!Unlink, TreeTheory!Unlink
<1>5. /\ T!Mending <=> TreeTheory!Mending
      /\ T!MendSide = TreeTheory!MendSide
      /\ \A x, p, s : T!Lift(x, p, s) = TreeTheory!Lift(x, p, s)
      /\ \A x, n : T!RedBelow(x, n) <=> TreeTheory!RedBelow(x, n)
      /\ \A x, n, s : T!TurnOut(x, n, s) = TreeTheory!TurnOut(x, n, s)
  BY SameOperators, SameRotations
  DEF T!Mending, TreeTheory!Mending, T!MendSide, TreeTheory!MendSide, T!Lift, TreeTheory!Lift,
      T!RedBelow, TreeTheory!RedBelow, T!TurnOut, TreeTheory!TurnOut
<1>6. ASSUME NEW x, NEW p, NEW s PROVE T!Settle(x, p, s) = TreeTheory!Settle(x, p, s)
  BY SameOperators, SameRotations DEF T!Settle, TreeTheory!Settle
<1>7. T!Lifted = TreeTheory!Lifted /\ T!Sibling = TreeTheory!Sibling
  BY <1>5 DEF T!Lifted, TreeTheory!Lifted, T!Sibling, TreeTheory!Sibling
<1>8. T!MendUp <=> TreeTheory!MendUp
  BY <1>5, <1>7, SameOperators DEF T!MendUp, TreeTheory!MendUp
<1>9. T!MendOver <=> TreeTheory!MendOver
  BY <1>5, <1>6, <1>7, SameOperators DEF T!MendOver, TreeTheory!MendOver
<1>10. T!RemoveDone <=> TreeTheory!RemoveDone
  BY <1>5, SameOperators DEF T!RemoveDone, TreeTheory!RemoveDone
<1>11. T!Clear <=> TreeTheory!Clear
  BY SameOperators DEF T!Clear, TreeTheory!Clear
<1>. QED
  BY <1>4, <1>8, <1>9, <1>10, <1>11

LEMMA SameTree ==
  /\ T!Init => TreeTheory!Init
  /\ [T!Next]_tvars => [TreeTheory!Next]_(TreeTheory!vars)
  /\ TreeTheory!TreeIsBalanced => T!TreeIsBalanced
  /\ TreeTheory!TreeHoldsContents => T!TreeHoldsContents
<1>1. T!Init => TreeTheory!Init
  BY SameOperators DEF T!Init, TreeTheory!Init
<1>2. [T!Next]_tvars => [TreeTheory!Next]_(TreeTheory!vars)
  BY SameInserts, SameRemovals DEF T!Next, TreeTheory!Next, tvars, TreeTheory!vars
<1>3. T!BlacksAbove = TreeTheory!BlacksAbove /\ T!InOrder = TreeTheory!InOrder
  BY DEF T!BlacksAbove, TreeTheory!BlacksAbove, T!InOrder, TreeTheory!InOrder, T!Red, TreeTheory!Red,
         T!LEFT, TreeTheory!LEFT, T!RIGHT, TreeTheory!RIGHT
<1>4. \A n : T!Children(n) = TreeTheory!Children(n) /\ (T!HasRoom(n) <=> TreeTheory!HasRoom(n))
  BY SameOperators DEF T!Children, TreeTheory!Children, T!HasRoom, TreeTheory!HasRoom,
     T!Cardinality, TreeTheory!Cardinality
<1>5. TreeTheory!TreeIsBalanced => T!TreeIsBalanced
  BY <1>3, <1>4, SameOperators DEF T!TreeIsBalanced, TreeTheory!TreeIsBalanced
<1>6. TreeTheory!TreeHoldsContents => T!TreeHoldsContents
  BY <1>3, SameSearches, SameOperators DEF T!TreeHoldsContents, TreeTheory!TreeHoldsContents,
     T!Range, TreeTheory!Range, T!Cardinality, TreeTheory!Cardinality
<1>. QED
  BY <1>1, <1>2, <1>5, <1>6

(* util/rbtree, for any nodes and keys: whatever is inserted and removed,   *)
(* between two operations the tree is balanced, holds in order what was     *)
(* inserted and not removed, and all of it is found and stepped through.    *)
THEOREM TreesStaySound == LibSpec => []TreeIsSound
<1>0. TreeTheory!KeyAssumption
  BY TreeAssumption DEF TreeTheory!KeyAssumption, T!KeyAssumption
<1>1. LibInit => TreeTheory!TreeInvariant
  <2>1. LibInit => TreeTheory!Init
    BY SameTree DEF LibInit
  <2>. QED
    BY <1>0, <2>1, TreeTheory!TreeInvariantHolds
<1>2. TreeTheory!TreeInvariant /\ [LibNext]_lvars => TreeTheory!TreeInvariant'
  <2>1. [LibNext]_lvars => [T!Next]_tvars
    BY DEF LibNext, lvars, tvars
  <2>. QED
    BY <1>0, <2>1, SameTree, TreeTheory!TreeInvariantKept
<1>3. TreeTheory!TreeInvariant => TreeIsSound
  BY <1>0, SameTree, TreeTheory!TreeInvariantSays DEF TreeIsSound
<1>. QED
  BY <1>1, <1>2, <1>3, PTL DEF LibSpec
==============================================================================
