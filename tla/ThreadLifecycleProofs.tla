------------------------ MODULE ThreadLifecycleProofs ------------------------
(***************************************************************************)
(* Proofs about ThreadLifecycle for any number of threads, used in any of  *)
(* the ways the module allows.                                             *)
(*                                                                         *)
(* That a block is freed once rests on detached telling who may free it,   *)
(* the thread or its creator: the flag never changes once either of them   *)
(* has started to.  Local states that for one thread.                      *)
(*                                                                         *)
(* A creator may free a block whose thread has yet to read detached there  *)
(* (thread.c:130).  The theorems are about heaps that leave the flag alone *)
(* for that long, or programs whose threads are all created detached.      *)
(***************************************************************************)
EXTENDS ThreadLifecycle, TLAPS

\* The creator is in a call about thread c, and in those places of it.
CreatorAt(c, places) == subject = c /\ pc[Creator] \in places

Busy == CreatorPlaces \ {"idle"}

\* The flags follow the way the thread is used and the place it is at.
Flags(c) ==
  /\ finished[c] <=> pc[c] \notin {"none", "body"}
  /\ mem[c] # "none" /\ use[c] \in {"detached", "joinDetached"} => detached[c]
  /\ use[c] \in {"join", "poll"} => ~detached[c]

\* Who frees does so with the flag on its side, and having found finished set.
Freeing(c) ==
  /\ pc[c] \in {"freeClose", "freeBlock"} => detached[c]
  /\ CreatorAt(c, {"free", "freeClose", "freeBlock", "detach", "detachSet"}) =>
       ~detached[c]
  /\ CreatorAt(c, {"detach", "detachSet"}) => use[c] = "detach"
  /\ CreatorAt(c, {"freeClose", "freeBlock"}) => finished[c]
  /\ CreatorAt(c, {"free"}) /\ use[c] = "detach" => finished[c]
  /\ CreatorAt(c, {"readCode"}) => use[c] \in {"join", "poll"}
  /\ CreatorAt(c, {"join", "joinWait", "joined"}) =>
       use[c] \in {"join", "poll", "joinDetached"}
  /\ CreatorAt(c, {"storeHandle"}) /\ use[c] = "detach" => ~detached[c]

\* A freed block, and a closed handle, are behind the one who freed or closed.
Done(c) ==
  /\ mem[c] # "freedTwice" /\ handle[c] # "lost"
  /\ mem[c] = "none" =>
       pc[c] = "none" /\ handle[c] = "unset" /\ ~CreatorAt(c, Busy)
  /\ mem[c] = "freed" =>
       IF detached[c] THEN pc[c] \in {"svcExit", "exited"}
                      ELSE finished[c] /\ ~CreatorAt(c, Busy)
  /\ handle[c] = "closed" =>
       IF detached[c] THEN pc[c] \in {"freeBlock", "svcExit", "exited"}
                      ELSE mem[c] # "live" \/ CreatorAt(c, {"freeBlock"})

Local(c) == Flags(c) /\ Freeing(c) /\ Done(c)

\* The types the steps rely on; the values freedTwice and lost are allowed here.
Typed ==
  /\ mem \in [Children -> {"none", "live", "freed", "freedTwice"}]
  /\ handle \in [Children -> {"unset", "open", "closed", "lost"}]
  /\ detached \in [Children -> BOOLEAN]
  /\ finished \in [Children -> BOOLEAN]
  /\ rc \in [Children -> {"unset", "code"}]
  /\ kernel \in [Children -> {"none", "running", "exited"}]
  /\ pc \in [Children \cup {Creator} -> ChildPlaces \cup CreatorPlaces]
  /\ pc[Creator] \in CreatorPlaces
  /\ subject \in Children \cup {Creator}
  /\ pc[Creator] # "idle" => subject \in Children
  /\ use \in [Children -> Uses]
  /\ got \in [Children -> {"none", "unset", "code"}]

FlagReliable ==
  FreedMemoryKept \/ Uses \subseteq {"detached", "joinDetached"}

IInv == Typed /\ \A c \in Children : Local(c)

\* The invariant holds before anything is created.
LEMMA InitIInv == Init => IInv
BY ThreadAssumption
   DEF Init, IInv, Typed, ChildPlaces, CreatorPlaces, Busy, CreatorAt, Local,
       Flags, Freeing, Done

\* What is known of a thread stays so while its fields, its place and the
\* creator's business with it do.
LEMMA LocalKept ==
  ASSUME NEW c \in Children, Local(c),
         mem'[c] = mem[c], handle'[c] = handle[c], detached'[c] = detached[c],
         finished'[c] = finished[c], pc'[c] = pc[c], use' = use,
         \/ subject' = subject /\ pc'[Creator] = pc[Creator]
         \/ subject' # c /\ (subject # c \/ pc[Creator] = "idle")
  PROVE  Local(c)'
BY DEF Local, Flags, Freeing, Done, CreatorAt, Busy, CreatorPlaces

\* A step of one thread keeps the invariant.
LEMMA ChildStep ==
  ASSUME FlagReliable, IInv, NEW c \in Children, ChildProceeds(c)
  PROVE  IInv'
<1> USE ThreadAssumption
<1> DEFINE Kept == Typed' /\ Local(c)'
           OthersKept ==
             /\ use' = use /\ subject' = subject /\ pc'[Creator] = pc[Creator]
             /\ \A d \in Children : d # c =>
                  /\ mem'[d] = mem[d] /\ handle'[d] = handle[d]
                  /\ detached'[d] = detached[d] /\ finished'[d] = finished[d]
                  /\ pc'[d] = pc[d]
<1>1. SUFFICES Kept /\ OthersKept
  BY <1>1, LocalKept DEF IInv
<1>2. CASE Finish(c)
  BY <1>2 DEF Finish, Goto, IInv, Typed, ChildPlaces, CreatorPlaces, Busy,
              CreatorAt, Local, Flags, Freeing, Done
<1>3. CASE Decide(c)
  <2>1. Read(c, detached) = {detached[c]}
    <3>1. CASE FreedMemoryKept
      BY <3>1 DEF Read
    <3>2. CASE Uses \subseteq {"detached", "joinDetached"}
      <4>1. mem[c] # "none" /\ detached[c]
        BY <1>3, <3>2 DEF Decide, IInv, Typed, Local, Flags, Done
      <4>2. mem[c] = "live"
        BY <1>3, <4>1 DEF Decide, IInv, Typed, Local, Done
      <4>3. QED
        BY <4>2 DEF Read
    <3>3. QED
      BY <3>1, <3>2 DEF FlagReliable
  <2>2. QED
    BY <1>3, <2>1 DEF Decide, Goto, IInv, Typed, ChildPlaces, CreatorPlaces,
       Busy, CreatorAt, Local, Flags, Freeing, Done
<1>4. CASE StoreRc(c)
  BY <1>4 DEF StoreRc, Goto, IInv, Typed, ChildPlaces, CreatorPlaces, Busy,
              CreatorAt, Local, Flags, Freeing, Done
<1>5. CASE CloseOwn(c)
  BY <1>5 DEF CloseOwn, CloseHandle, Goto, IInv, Typed, ChildPlaces,
              CreatorPlaces, Busy, CreatorAt, Local, Flags, Freeing, Done
<1>6. CASE FreeOwn(c)
  BY <1>6 DEF FreeOwn, Free, Goto, IInv, Typed, ChildPlaces, CreatorPlaces,
              Busy, CreatorAt, Local, Flags, Freeing, Done
<1>7. CASE SvcExitThread(c)
  BY <1>7 DEF SvcExitThread, Goto, IInv, Typed, ChildPlaces, CreatorPlaces,
              Busy, CreatorAt, Local, Flags, Freeing, Done
<1>8. QED
  BY <1>2, <1>3, <1>4, <1>5, <1>6, <1>7 DEF ChildProceeds

\* So does threadCreate, of which every thread but the new one is unaware.
LEMMA CreateStep ==
  ASSUME IInv, NEW c \in Children, Create(c)
  PROVE  IInv'
<1> USE ThreadAssumption
<1>1. c # Creator /\ pc[c] = "none" /\ handle[c] = "unset"
  BY DEF Create, IInv, Local, Done
<1>2. Typed'
  BY <1>1 DEF Create, IInv, Typed, ChildPlaces, CreatorPlaces
<1>3. /\ mem'[c] = "live" /\ handle'[c] = "unset" /\ finished'[c] = FALSE
      /\ detached'[c] = (use'[c] \in {"detached", "joinDetached"})
      /\ pc'[c] = "body" /\ pc'[Creator] = "storeHandle"
  BY <1>1 DEF Create, IInv, Typed
<1>4. Local(c)'
  BY <1>2, <1>3 DEF Typed, CreatorAt, Busy, CreatorPlaces, Local, Flags, Freeing, Done
<1>5. ASSUME NEW d \in Children, d # c
      PROVE  Local(d)'
  <2>1. /\ mem'[d] = mem[d] /\ handle'[d] = handle[d]
        /\ detached'[d] = detached[d] /\ finished'[d] = finished[d]
        /\ pc'[d] = pc[d] /\ use' = use /\ subject' # d /\ pc[Creator] = "idle"
    BY <1>5 DEF Create, IInv, Typed
  <2>2. QED
    BY <1>5, <2>1, LocalKept DEF IInv
<1>6. QED
  BY <1>2, <1>4, <1>5 DEF IInv

\* So does every other step of the creator, which is about subject.
LEMMA CreatorStep ==
  ASSUME IInv, CreatorProceeds \/ JoinTimeout
  PROVE  IInv'
<1> USE ThreadAssumption
<1> DEFINE Kept == Typed' /\ Local(subject)'
           OthersKept ==
             /\ use' = use /\ subject' = subject /\ subject \in Children
             /\ \A d \in Children : d # subject =>
                  /\ mem'[d] = mem[d] /\ handle'[d] = handle[d]
                  /\ detached'[d] = detached[d] /\ finished'[d] = finished[d]
                  /\ pc'[d] = pc[d]
<1>1. SUFFICES Kept /\ OthersKept
  <2>1. ASSUME NEW d \in Children, d # subject
        PROVE  Local(d)'
    BY <1>1, <2>1, LocalKept DEF IInv
  <2>2. QED
    BY <1>1, <2>1 DEF IInv
<1>2. CASE StoreHandle
  BY <1>2 DEF StoreHandle, Goto, IInv, Typed, ChildPlaces, CreatorPlaces, Busy,
              CreatorAt, Local, Flags, Freeing, Done
<1>3. CASE JoinRead \/ JoinWait \/ JoinTimeout
  BY <1>3 DEF JoinRead, JoinWait, JoinTimeout, Goto, IInv, Typed, ChildPlaces,
              CreatorPlaces, Busy, CreatorAt, Local, Flags, Freeing, Done
<1>4. CASE ReadFinished
  BY <1>4 DEF ReadFinished, Goto, IInv, Typed, ChildPlaces, CreatorPlaces, Busy,
              CreatorAt, Local, Flags, Freeing, Done
<1>5. CASE ReadCode
  BY <1>5 DEF ReadCode, Goto, IInv, Typed, ChildPlaces, CreatorPlaces, Busy,
              CreatorAt, Local, Flags, Freeing, Done
<1>6. CASE FreeRead
  <2>1. subject \in Children /\ mem[subject] # "none" /\ ~detached[subject]
    BY <1>6 DEF FreeRead, IInv, Typed, Busy, CreatorPlaces, CreatorAt, Local, Freeing, Done
  <2>2. finished[subject] \/ use[subject] \in {"join", "poll"}
    BY <1>6, <2>1 DEF FreeRead, IInv, Typed, CreatorAt, Local, Flags, Freeing
  <2>3. QED
    BY <1>6, <2>1, <2>2 DEF FreeRead, Goto, IInv, Typed, ChildPlaces,
       CreatorPlaces, Busy, CreatorAt, Local, Flags, Freeing, Done
<1>7. CASE FreeClose
  BY <1>7 DEF FreeClose, CloseHandle, Goto, IInv, Typed, ChildPlaces,
              CreatorPlaces, Busy, CreatorAt, Local, Flags, Freeing, Done
<1>8. CASE FreeBlock
  BY <1>8 DEF FreeBlock, Free, Goto, IInv, Typed, ChildPlaces, CreatorPlaces,
              Busy, CreatorAt, Local, Flags, Freeing, Done
<1>9. CASE DetachRead
  BY <1>9 DEF DetachRead, Goto, IInv, Typed, ChildPlaces, CreatorPlaces, Busy,
              CreatorAt, Local, Flags, Freeing, Done
<1>10. CASE DetachSet
  BY <1>10 DEF DetachSet, Goto, IInv, Typed, ChildPlaces, CreatorPlaces, Busy,
               CreatorAt, Local, Flags, Freeing, Done
<1>11. QED
  BY <1>2, <1>3, <1>4, <1>5, <1>6, <1>7, <1>8, <1>9, <1>10 DEF CreatorProceeds

\* IInv is an inductive invariant of the specification.
LEMMA Invariance ==
  ASSUME FlagReliable
  PROVE  Spec => []IInv
<1>1. IInv /\ [Next]_vars => IInv'
  <2> SUFFICES ASSUME IInv, [Next]_vars PROVE IInv'
    OBVIOUS
  <2>1. CASE Next
    BY <2>1, ChildStep, CreateStep, CreatorStep DEF Next
  <2>2. CASE UNCHANGED vars
    BY <2>2 DEF vars, IInv, Typed, Busy, CreatorAt, Local, Flags, Freeing, Done
  <2>3. QED
    BY <2>1, <2>2
<1>2. QED
  BY <1>1, InitIInv, PTL DEF Spec

\* Every variable keeps its type, and no handle is closed twice.
THEOREM TypeCorrect ==
  ASSUME FlagReliable
  PROVE  Spec => []TypeOK
<1>1. IInv => TypeOK
  BY DEF IInv, Typed, TypeOK, Local, Done
<1>2. QED
  BY <1>1, Invariance, PTL

\* No block is freed twice, nor before its thread has set finished, however
\* threadFree, threadDetach and the end of the thread interleave.
THEOREM BlocksAreFreedOnce ==
  ASSUME FlagReliable
  PROVE  Spec => []FreedOnceFinished
<1>1. IInv => FreedAtMostOnce
  BY DEF IInv, Local, Done, FreedAtMostOnce
<1>2. IInv => FreedOnlyIfFinished
  BY DEF IInv, Typed, Local, Flags, Done, FreedOnlyIfFinished
<1>3. QED
  BY <1>1, <1>2, Invariance, PTL DEF FreedOnceFinished
=============================================================================
