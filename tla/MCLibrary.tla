------------------------------ MODULE MCLibrary ------------------------------
(***************************************************************************)
(* Five parts of the library that do not interact, checked in one run:     *)
(* the init and exit routines of every service, the heaps, the trees under *)
(* them, the parameters of APT and the wave buffers of a sound channel.  A *)
(* behaviour is one of one part.                                           *)
(***************************************************************************)
EXTENDS ServiceSession, Services, TLC

CONSTANTS Layouts, Sizes, Alignments, MaxBuffers, MaxLost,   \* Heap
          Nodes, Nil, Key,                                   \* RBTree
          Commands, NoCommand, HandlesDsp,                   \* AptParameters
          WaveBufs, NoBuf, BufSlots, SeqLimit, MaxSync       \* NdspChannel

VARIABLES part,   \* the part that this behaviour is of
          regions, pools, map, buffers, lost, aligned, past,
          t, size, job, contents,
          parameter, event, relay, spurious, handler, glanced, main, wanted,
          waveBuf, status, sequence_id, wavBufCount, wavBufIdNext, wavBufSeq,
          syncCount, slot, report, reading, given, queuedAt

H == INSTANCE Heap
T == INSTANCE RBTree
A == INSTANCE AptParameters
N == INSTANCE NdspChannel

(* The constants of the instances are what their modules ask for.           *)
ASSUME HeapAssumption == H!HeapAssumption
ASSUME TreeAssumption == T!KeyAssumption
ASSUME AptAssumption == A!CommandsAssumption
ASSUME SoundAssumption == N!ChannelAssumption

hvars == <<regions, pools, map, buffers, lost, aligned, past>>
tvars == <<t, size, job, contents>>
avars == <<parameter, event, relay, spurious, handler, glanced, main, wanted>>
nvars == <<waveBuf, status, sequence_id, wavBufCount, wavBufIdNext, wavBufSeq,
           syncCount, slot, report, reading, given, queuedAt>>
lvars == <<part, svars, hvars, tvars, avars, nvars>>

LibInit == /\ part \in {"service", "heap", "tree", "apt", "sound"}
           /\ Init /\ H!Init /\ T!Init /\ A!Init /\ N!Init
           /\ part # "service" => svc = Ac
           /\ part # "heap" => regions = CHOOSE l \in Layouts : TRUE
           /\ part # "apt" => ~spurious

LibNext == /\ UNCHANGED part
           /\ \/ part = "service" /\ Next /\ UNCHANGED <<hvars, tvars, avars, nvars>>
              \/ part = "heap" /\ H!Next /\ UNCHANGED <<svars, tvars, avars, nvars>>
              \/ part = "tree" /\ T!Next /\ UNCHANGED <<svars, hvars, avars, nvars>>
              \/ part = "apt" /\ A!Next /\ UNCHANGED <<svars, hvars, tvars, nvars>>
              \/ part = "sound" /\ N!Next /\ UNCHANGED <<svars, hvars, tvars, avars>>

LibSpec == LibInit /\ [][LibNext]_lvars
-------------------------------------------------------------------------------
(* six grains in one pool, or three in each of the halves of VRAM           *)
MCLayouts == {<<[base |-> 0, size |-> 6]>>, <<[base |-> 0, size |-> 3], [base |-> 3, size |-> 3]>>}

(* the last two nodes compare equal *)
MCKey == [n \in Nodes |-> IF n = 8 THEN 7 ELSE n]

(* services whose count differs from their users once an init has failed    *)
MCMiscounts == {"act", "apt", "hid", "mvd", "ndsp", "nims"}

(* services that are left with something open, some whatever happens        *)
MCLeaks == {"apt", "csnd", "gsp", "hid", "httpc", "irrst", "sslc"}

(* The wave buffers are all alike.                                          *)
MCSymmetry == Permutations(WaveBufs)

(* The heap, as long as its free blocks have not run out: no cell is in two *)
(* places, none is missing, no two buffers share one, free space is never   *)
(* in pieces that touch, and a request that a pool has room for is served.  *)
HeapIsSound == part = "heap" => H!EveryCellOnce /\ H!FreeBlocksAreMerged /\ H!RoomIsFound

(* The heaps implement the abstract allocator as long as their free blocks  *)
(* have not run out.                                                        *)
AllocatorIsImplemented == H!ImplementsAllocator

(* The trees stay balanced through every insertion and removal, and hold,   *)
(* in order, what was inserted and not removed.                             *)
TreeIsSound == part = "tree" => T!TreeIsBalanced /\ T!TreeHoldsContents

(* A parameter that was sent to the main thread is taken notice of.         *)
NoParameterLeftBehind == part = "apt" => A!NoParameterLeftBehind

(* The wave buffers of a channel, their statuses, counts and slots agree.   *)
QueueIsSound == part = "sound" => N!QueueIsSound

(* A wave buffer is done because it was cleared or because of a report made *)
(* of the queue it is in, after it was given to the DSP.                    *)
DoneForAReason == N!DoneForAReason

(* What the program holds of the heap does not overlap, always: so says the *)
(* comment that a pool is initialised if it is not ready.                   *)
BuffersAreDisjoint == part = "heap" => H!BuffersAreDisjoint
==============================================================================
