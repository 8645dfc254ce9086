--------------------------------- MODULE Heap ---------------------------------
(***************************************************************************)
(* linearMemAlign / linearFree and vramMemAlignAt / vramFree over MemPool: *)
(* pools of free blocks kept in the order of their addresses, first fit,   *)
(* and a map from the address of a buffer to its chunk.  The linear heap   *)
(* is one pool; VRAM is two, for its two halves.  Addresses and sizes are  *)
(* counted in grains, the smallest alignment.  Every malloc may fail.      *)
(***************************************************************************)
EXTENDS Integers, Sequences, SequencesExt, FiniteSets

CONSTANTS Layouts,     \* sequences of regions [base, size]: the pools a heap may have
          Sizes,       \* sizes that are asked for
          Alignments,  \* alignments that are asked for, powers of two
          MaxBuffers,  \* bound: buffers in use at a time
          MaxLost      \* bound: cells lost

(* a heap is one region, or two of which the second lies behind the first   *)
HeapAssumption ==
  /\ Sizes \subseteq Nat \ {0} /\ Alignments \subseteq Nat \ {0}
  /\ \A l \in Layouts : /\ l \in Seq([base : Nat, size : Nat \ {0}]) /\ Len(l) \in {1, 2}
                        /\ Len(l) = 2 => l[1].base + l[1].size <= l[2].base

VARIABLES regions,   \* the layout of this heap
          pools,     \* the free blocks of each pool: MemPool first .. last
          map,       \* sAddrMap: the chunks of the buffers in use
          buffers,   \* what the program was given and has not freed
          lost,      \* cells that a failed malloc or a refused insert left nowhere
          aligned,   \* history: buffer -> the alignment it was asked to have
          past       \* what has happened: "started", "restarted"

vars == <<regions, pools, map, buffers, lost, aligned, past>>

Cells(c) == c.base .. c.base + c.size - 1
AllCells(S) == UNION {Cells(c) : c \in S}
End(b) == b.base + b.size
Chunk(base, size) == [base |-> base, size |-> size]

Init == /\ regions \in Layouts
        /\ pools = [k \in DOMAIN regions |-> <<>>]
        /\ map = {}
        /\ buffers = {}
        /\ lost = {}
        /\ aligned = [b \in {} |-> 0]
        /\ past = {}
-------------------------------------------------------------------------------
(* MemPool::Allocate *)
Padded(size, align) == ((size + align - 1) \div align) * align
(* mutant: the block is taken to begin at an aligned address *)
WasteNone(b, align) == 0
Waste(b, align) == (-b.base) % align

(* mutant: a block that fits exactly is passed over *)
FirstFitStrict(pool, size, align) ==
  SelectInSeq(pool, LAMBDA b : Waste(b, align) + size < b.size)

FirstFit(pool, size, align) ==
  SelectInSeq(pool, LAMBDA b : Waste(b, align) + size <= b.size)

Tail_(b, size, align) ==
  LET from == b.base + Waste(b, align) + size IN Chunk(from, End(b) - from)

(* the block without the chunk: what comes before it, and what after it;    *)
(* `created` is whether the node for the second part could be allocated     *)
Carve(pool, i, size, align, created) ==
  LET b == pool[i]
      head == Chunk(b.base, Waste(b, align))
      tail == Tail_(b, size, align)
  IN SubSeq(pool, 1, i - 1)
     \o (IF head.size = 0 THEN <<>> ELSE <<head>>)
     \o (IF tail.size = 0 \/ (head.size # 0 /\ ~created) THEN <<>> ELSE <<tail>>)
     \o SubSeq(pool, i + 1, Len(pool))

(* mutant: a tail without a node is in no chunk *)
CarvedForgetsTail(pool, i, size, align, created) ==
  Chunk(pool[i].base + Waste(pool[i], align), size)

(* the chunk has the tail as well if there is no node for it                *)
Carved(pool, i, size, align, created) ==
  LET b == pool[i]
      waste == Waste(b, align)
      kept == waste = 0 \/ created
  IN Chunk(b.base + waste, IF kept THEN size ELSE b.size - waste)

(* mutant: the blocks that follow stay as they are *)
CoalesceRightNot(pool, i) == pool

(* MemPool::CoalesceRight: the block takes in those that follow it closely  *)
CoalesceRight(pool, i) ==
  LET touching == {j \in i .. Len(pool) :
                     \A k \in i + 1 .. j : End(pool[k - 1]) = pool[k].base}
      last == CHOOSE j \in touching : \A k \in touching : k <= j
  IN SubSeq(pool, 1, i - 1)
     \o <<Chunk(pool[i].base, End(pool[last]) - pool[i].base)>>
     \o SubSeq(pool, last + 1, Len(pool))

(* MemPool::Deallocate, a new block only if it can be created               *)
Deallocate(pool, c, created) ==
  LET i == SelectInSeq(pool, LAMBDA b : b.base > c.base \/ End(b) = c.base)
  IN IF i = 0 THEN IF created THEN Append(pool, c) ELSE pool
     ELSE IF pool[i].base <= c.base
          THEN CoalesceRight([pool EXCEPT ![i].size = @ + c.size], i)
     ELSE IF End(c) = pool[i].base
          THEN [pool EXCEPT ![i] = Chunk(c.base, End(@) - c.base)]
     ELSE IF created THEN InsertAt(pool, i, c) ELSE pool

(* MemPool::GetFreeSpace *)
FreeSpace(pool) == Cardinality(AllCells(Range(pool)))
-------------------------------------------------------------------------------
(* linearInit / vramInit, when no pool has a block left                     *)
Ready == \E k \in DOMAIN pools : pools[k] # <<>>
PoolsInitialised == IF Ready THEN pools ELSE [k \in DOMAIN regions |-> <<regions[k]>>]
MapInitialised == IF Ready THEN map ELSE {}
PastInitialised == CASE Ready -> past
                     [] ~Ready /\ past = {} -> {"started"}
                     [] OTHER -> past \cup {"restarted"}

(* the pools tried, in order: one half on request, else the emptier first   *)
Orders == IF Len(regions) = 1 THEN {<<1>>}
          ELSE LET P == PoolsInitialised
               IN {<<1>>, <<2>>,
                   IF FreeSpace(P[1]) >= FreeSpace(P[2]) THEN <<1, 2>> ELSE <<2, 1>>}

HasRoom(k, size, align) == FirstFit(PoolsInitialised[k], size, align) # 0
PoolFor(order, size, align) == SelectInSeq(order, LAMBDA k : HasRoom(k, size, align))

(* vramPoolForAddr *)
PoolOf(addr) == IF Len(regions) = 2 /\ addr >= regions[2].base THEN 2 ELSE 1

(* no pool has room: the heap may have been initialised all the same        *)
OutOfMemory(size, align, order) ==
  /\ PoolFor(order, Padded(size, align), align) = 0
  /\ pools' = PoolsInitialised
  /\ map' = MapInitialised
  /\ past' = PastInitialised
  /\ UNCHANGED <<regions, buffers, lost, aligned>>

(* the chunk is taken, and is given back when the map has no node for it    *)
NoNode(size, align, order, created, again) ==
  LET padded == Padded(size, align)
      j == PoolFor(order, padded, align)
  IN /\ j # 0
     /\ LET k == order[j]
            P == PoolsInitialised
            i == FirstFit(P[k], padded, align)
            c == Carved(P[k], i, padded, align, created)
            left == [P EXCEPT ![k] = Carve(@, i, padded, align, created)]
        IN /\ pools' = [left EXCEPT ![PoolOf(c.base)] = Deallocate(@, c, again)]
           /\ lost' = lost \cup (Cells(c) \ AllCells(Range(pools'[PoolOf(c.base)])))
     /\ Cardinality(lost') <= MaxLost
     /\ map' = MapInitialised
     /\ past' = PastInitialised
     /\ UNCHANGED <<regions, buffers, aligned>>

(* rbtree_insert refuses an address that is in the map already: the chunk   *)
(* of the new buffer is then recorded nowhere                               *)
MemAlign(size, align, order, created) ==
  LET padded == Padded(size, align)
      j == PoolFor(order, padded, align)
  IN /\ j # 0
     /\ Cardinality(buffers) < MaxBuffers
     /\ LET k == order[j]
            P == PoolsInitialised
            i == FirstFit(P[k], padded, align)
            c == Carved(P[k], i, padded, align, created)
            known == \E n \in MapInitialised : n.base = c.base
        IN /\ pools' = [P EXCEPT ![k] = Carve(@, i, padded, align, created)]
           /\ map' = IF known THEN MapInitialised ELSE MapInitialised \cup {c}
           /\ lost' = IF known THEN lost \cup Cells(c) ELSE lost
           /\ Cardinality(lost') <= MaxLost
           /\ buffers' = buffers \cup {Chunk(c.base, size)}
           /\ aligned' = [b \in buffers' |-> IF b = Chunk(c.base, size) THEN align ELSE aligned[b]]
     /\ past' = PastInitialised
     /\ UNCHANGED regions

(* linearFree / vramFree: an address that the map does not know is ignored  *)
Free(b, created) ==
  /\ buffers' = buffers \ {b}
  /\ aligned' = [c \in buffers' |-> aligned[c]]
  /\ map' = {n \in map : n.base # b.base}
  /\ LET known == map \ map'
         k == PoolOf(b.base)
     IN /\ pools' = IF known = {} THEN pools
                    ELSE [pools EXCEPT ![k] =
                            Deallocate(@, CHOOSE n \in known : TRUE, created)]
        /\ lost' = lost \cup (AllCells(known) \ AllCells(Range(pools'[k])))
        /\ Cardinality(lost') <= MaxLost
  /\ UNCHANGED <<regions, past>>

Next == \/ \E size \in Sizes, align \in Alignments, order \in Orders :
             \/ OutOfMemory(size, align, order)
             \/ \E created \in BOOLEAN :
                  \/ MemAlign(size, align, order, created)
                  \/ \E again \in BOOLEAN : NoNode(size, align, order, created, again)
        \/ \E b \in buffers, created \in BOOLEAN : Free(b, created)

Spec == Init /\ [][Next]_vars
-------------------------------------------------------------------------------
Disjoint(S) == \A c, d \in S : c = d \/ Cells(c) \cap Cells(d) = {}
FreeBlocks == UNION {Range(pools[k]) : k \in DOMAIN pools}

(* The buffers that the program holds have no cell in common: so the code   *)
(* has it, which initialises a pool once.                                   *)
BuffersAreDisjoint == Disjoint(buffers)

(* in use, and never asked for anything once no block was free              *)
Undisturbed == past = {"started"}

(* Every cell of the heap is in exactly one place: a free block, a chunk of *)
(* the map, or lost for want of a node; and what the program holds is not   *)
(* free, and no two buffers share a cell.                                   *)
EveryCellOnce ==
  Undisturbed =>
    /\ BuffersAreDisjoint /\ Disjoint(map) /\ Disjoint(FreeBlocks)
    /\ AllCells(buffers) \subseteq AllCells(map)
    /\ AllCells(map) \cap lost = {}
    /\ AllCells(FreeBlocks) = AllCells(Range(regions)) \ (AllCells(map) \cup lost)

(* Free space is in pieces only because something lies in between: the      *)
(* blocks of a pool are in order, and no two of them touch.                 *)
FreeBlocksAreMerged ==
  Undisturbed =>
    \A k \in DOMAIN pools : \A i \in 2 .. Len(pools[k]) :
      End(pools[k][i - 1]) < pools[k][i].base

(* No request is refused for which the pool has room: where no block is     *)
(* found, no stretch of free cells is aligned and long enough, although the *)
(* search looks at one block at a time.                                     *)
RoomIsFound ==
  Undisturbed =>
    \A k \in DOMAIN pools, size \in Sizes, align \in Alignments :
      LET cells == AllCells(Range(pools[k]))
          padded == Padded(size, align)
      IN FirstFit(pools[k], padded, align) = 0 =>
           \A a \in cells : a % align = 0 => ~(a .. a + padded - 1 \subseteq cells)

(* The cells are free before the heap is first used as well; what went with *)
(* a buffer is the chunk at its address.                                    *)
FreeCells == IF past = {} THEN AllCells(Range(regions)) ELSE AllCells(FreeBlocks)
TakenFor  == [b \in buffers |-> AllCells({n \in map : n.base = b.base})]

Al == INSTANCE Allocator WITH free <- FreeCells, taken <- TakenFor

(* Until a request finds no block free, the heap is the allocator that it   *)
(* promises to be: buffers are cut from what is free, aligned and no        *)
(* shorter than asked, and freeing one gives back, or mislays, exactly what *)
(* went with it.                                                            *)
ImplementsAllocator == Al!Init /\ [][Undisturbed' => Al!Next]_Al!vars
==============================================================================
