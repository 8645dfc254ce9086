--------------------------- MODULE LightEventProofs ---------------------------
(***************************************************************************)
(* The safety of LightEvent for any finite set of waiters and drivers and  *)
(* both reset types.                                                       *)
(*                                                                         *)
(* The functions tell the two types of event apart by the state alone,     *)
(* which they read again and again.  What carries the proof is that this   *)
(* is enough: whatever a thread has read, it never comes to a place that   *)
(* is for events of the other type (ByType).                               *)
(***************************************************************************)
EXTENDS LightEvent, FiniteSetTheorems, TLAPS

Places == WaiterPlaces \cup DriverPlaces

OneshotOnly == {"reset", "setOne", "wakeOne", "clearOne", "pulseOne"}

StickyOnly == {"waitOnce", "asleepOnce", "lockSet", "setSticky", "wakeAll",
               "unlock", "lockClear", "clearSticky", "pulseAll"}

Held == {"setSticky", "wakeAll", "unlock", "clearSticky"}

Sleeping == {"asleepOnce", "asleepLoop"}

Types ==
  /\ pc \in [Threads -> Places]
  /\ \A w \in Waiters : pc[w] \in WaiterPlaces
  /\ timed \in [Waiters -> BOOLEAN]
  /\ seen \in [Waiters -> BOOLEAN]
  /\ owner \in Drivers \cup {NoThread}

ByType ==
  \/ /\ type = "oneshot"
     /\ state \in {CLEARED_ONESHOT, SIGNALED_ONESHOT}
     /\ credit = IF state = SIGNALED_ONESHOT THEN 1 ELSE 0
     /\ \A t \in Threads : pc[t] \notin StickyOnly
  \/ /\ type = "sticky"
     /\ state \in {CLEARED_STICKY, SIGNALED_STICKY}
     /\ credit = 0
     /\ \A t \in Threads : pc[t] \notin OneshotOnly

(* the lock keeps the state of a sticky event from its store to the wakeup  *)
Holding ==
  \A d \in Drivers : /\ pc[d] \in Held => owner = d
                     /\ pc[d] = "wakeAll" => state = SIGNALED_STICKY

(* a wait has noted every moment at which the event was set                 *)
Noted ==
  \A w \in Waiters : /\ pc[w] # "out" /\ state >= 0 => seen[w]
                     /\ pc[w] = "passed" => seen[w]

IInv == Types /\ ByType /\ Holding /\ Noted /\ NoLostWakeup
-------------------------------------------------------------------------------
(* A thread that goes to a place is there, and the others where they were.  *)
LEMMA Goes ==
  ASSUME pc \in [Threads -> Places], NEW t \in Threads, NEW place \in Places, Goto(t, place)
  PROVE  /\ pc' \in [Threads -> Places]
         /\ pc'[t] = place
         /\ \A u \in Threads : u # t => pc'[u] = pc[u]
BY DEF Goto

(* Waiters and drivers are different threads.                               *)
LEMMA Kinds ==
  /\ Waiters \subseteq Threads /\ Drivers \subseteq Threads
  /\ \A w \in Waiters, d \in Drivers : w # d
  /\ \A t \in Threads : t # NoThread
  /\ \A t \in Threads : t \in Waiters \/ t \in Drivers
BY LightEventAssumption DEF Threads

(* The sleepers are waiters at the two places, and a finite set.            *)
LEMMA Sleepers ==
  /\ Asleep \subseteq Waiters /\ IsFiniteSet(Asleep)
  /\ \A w \in Waiters : w \in Asleep <=> pc[w] \in Sleeping
  /\ Asleep' \subseteq Waiters
  /\ \A w \in Waiters : w \in Asleep' <=> pc'[w] \in Sleeping
<1>1. Asleep \subseteq Waiters
  BY DEF Asleep
<1>. QED
  BY <1>1, FS_Subset, LightEventAssumption DEF Asleep, Sleeping

(* A SIGNAL wakes sleepers, all of them if it is told so, and somebody if   *)
(* there is anybody.                                                        *)
LEMMA WhoIsWoken ==
  ASSUME NEW n \in {1, -1}, NEW W \in Wakeable(Asleep, n)
  PROVE  /\ W \subseteq Asleep
         /\ n = -1 => W = Asleep
         /\ Asleep # {} => W # {}
<1>1. CASE n = -1
  BY <1>1 DEF Wakeable
<1>2. CASE n = 1
  <2>1. CASE Cardinality(Asleep) <= 1
    BY <1>2, <2>1 DEF Wakeable
  <2>2. CASE ~(Cardinality(Asleep) <= 1)
    <3>1. W \subseteq Asleep /\ Cardinality(W) = 1
      BY <1>2, <2>2 DEF Wakeable
    <3>2. Cardinality({}) = 0
      BY FS_EmptySet
    <3>. QED
      BY <1>2, <3>1, <3>2
  <2>. QED
    BY <2>1, <2>2
<1>. QED
  BY <1>1, <1>2

(* Where a thread may go when it has only read the state.                   *)
MayGo(t, place) ==
  /\ place \in Places
  /\ t \in Waiters => place \in WaiterPlaces \ {"out"}
  /\ t \in Drivers => place \in DriverPlaces \ Held
  /\ type = "oneshot" => place \notin StickyOnly
  /\ type = "sticky" => place \notin OneshotOnly
  /\ place = "passed" => state = SIGNALED_STICKY
  /\ place \in Sleeping => state < 0
  /\ place # "wakeAll"

(* A step that only looks at the state and goes where it may keeps the      *)
(* invariant, unless it gives up a wakeup it was to send.                   *)
LEMMA BranchStep ==
  ASSUME IInv, NEW t \in Threads, NEW from, NEW place,
         from \notin {"wakeOne", "wakeAll"}, t \in Waiters => from # "out",
         Branch(t, from, place), MayGo(t, place)
  PROVE  IInv'
<1>1. /\ pc' \in [Threads -> Places] /\ pc'[t] = place /\ pc[t] = from
      /\ \A u \in Threads : u # t => pc'[u] = pc[u]
      /\ UNCHANGED <<state, owner, timed, type, seen, credit>>
  BY Goes DEF IInv, Types, Branch, MayGo
<1>0. state \in Int
  BY DEF IInv, ByType, CLEARED_ONESHOT, SIGNALED_ONESHOT, CLEARED_STICKY, SIGNALED_STICKY
<1>2. Types'
  BY <1>1, Kinds DEF IInv, Types, MayGo
<1>3. ByType'
  BY <1>1 DEF IInv, ByType, MayGo
<1>4. Holding'
  BY <1>1, Kinds DEF IInv, Holding, MayGo
<1>5. Noted'
  BY <1>1, Kinds DEF IInv, Noted, MayGo, SIGNALED_STICKY
<1>6. NoLostWakeup'
  <2> SUFFICES ASSUME Asleep' # {}, state >= 0
               PROVE  \/ \E d \in Drivers : pc'[d] \in {"wakeOne", "wakeAll"}
                      \/ /\ type = "oneshot"
                         /\ \E w \in Waiters : pc'[w] \notin {"out", "asleepOnce", "asleepLoop", "passed"}
    BY <1>1 DEF NoLostWakeup
  <2>1. Asleep # {}
    <3>1. PICK w \in Waiters : pc'[w] \in Sleeping
      BY Sleepers
    <3>2. w # t
      BY <1>0, <1>1, <3>1 DEF MayGo
    <3>. QED
      BY <1>1, <3>1, <3>2, Kinds, Sleepers
  <2>2. CASE \E d \in Drivers : pc[d] \in {"wakeOne", "wakeAll"}
    BY <1>1, <2>2, Kinds
  <2>3. CASE type = "oneshot" /\ \E w \in Waiters : pc[w] \notin {"out", "asleepOnce", "asleepLoop", "passed"}
    <3>1. state # SIGNALED_STICKY
      BY <2>3 DEF IInv, ByType, SIGNALED_STICKY, CLEARED_ONESHOT, SIGNALED_ONESHOT
    <3>2. t \in Waiters => place \notin {"out", "asleepOnce", "asleepLoop", "passed"}
      BY <1>0, <3>1 DEF MayGo, Sleeping
    <3>. QED
      BY <1>1, <2>3, <3>2, Kinds
  <2>. QED
    BY <2>1, <2>2, <2>3 DEF IInv, NoLostWakeup
<1>. QED
  BY <1>2, <1>3, <1>4, <1>5, <1>6 DEF IInv
(* The steps of a waiter that only look at the state.                       *)
LEMMA LookStep ==
  ASSUME IInv, NEW w \in Waiters,
         \/ WaitTop(w) \/ WaitAny(w) \/ WaitSticky(w) \/ WaitOneshot(w)
         \/ WaitOnce(w) \/ WaitLoop(w) \/ TryWaitTop(w)
  PROVE  IInv'
<1> USE DEF CLEARED_ONESHOT, SIGNALED_ONESHOT, CLEARED_STICKY, SIGNALED_STICKY
<1>1. PICK from, place : /\ Branch(w, from, place) /\ MayGo(w, place)
                         /\ from \notin {"out", "wakeOne", "wakeAll"}
  <2>1. w \in Threads /\ w \notin Drivers
    BY Kinds
  <2>2. state \in Int /\ (type = "oneshot" <=> state \in {CLEARED_ONESHOT, SIGNALED_ONESHOT})
        /\ (type = "sticky" <=> state \in {CLEARED_STICKY, SIGNALED_STICKY})
    BY DEF IInv, ByType
  <2> USE <2>1, <2>2 DEF MayGo, Places, WaiterPlaces, Held, Sleeping, OneshotOnly, StickyOnly
  <2>3. CASE WaitTop(w)
    BY <2>3 DEF WaitTop
  <2>4. CASE WaitAny(w)
    BY <2>4 DEF WaitAny
  <2>5. CASE WaitSticky(w)
    BY <2>5 DEF WaitSticky
  <2>6. CASE WaitOneshot(w)
    BY <2>6 DEF WaitOneshot
  <2>7. CASE WaitOnce(w)
    <3>1. state \in {CLEARED_STICKY, SIGNALED_STICKY}
      BY <2>7 DEF WaitOnce, Branch, IInv, ByType
    <3>. QED
      BY <2>7, <3>1 DEF WaitOnce, MustSleep
  <2>8. CASE WaitLoop(w)
    BY <2>8 DEF WaitLoop, MustSleep
  <2>9. CASE TryWaitTop(w)
    BY <2>9 DEF TryWaitTop
  <2>. QED
    BY <2>3, <2>4, <2>5, <2>6, <2>7, <2>8, <2>9
<1>. QED
  BY <1>1, BranchStep, Kinds

(* The steps of a driver that only look at the state, or at nothing.        *)
LEMMA DecideStep ==
  ASSUME IInv, NEW d \in Drivers,
         \/ Start(d) \/ SignalTop(d) \/ SignalTop2(d) \/ ClearTop(d) \/ ClearTop2(d)
         \/ PulseTop(d) \/ PulseTop2(d)
  PROVE  IInv'
<1> USE DEF CLEARED_ONESHOT, SIGNALED_ONESHOT, CLEARED_STICKY, SIGNALED_STICKY
<1>1. PICK from, place : /\ Branch(d, from, place) /\ MayGo(d, place)
                         /\ from \notin {"wakeOne", "wakeAll"}
  <2>1. d \in Threads /\ d \notin Waiters
    BY Kinds
  <2>2. /\ type = "oneshot" <=> state \in {CLEARED_ONESHOT, SIGNALED_ONESHOT}
        /\ type = "sticky" <=> state \in {CLEARED_STICKY, SIGNALED_STICKY}
    BY DEF IInv, ByType
  <2> USE <2>1, <2>2 DEF MayGo, Places, DriverPlaces, Held, Sleeping, OneshotOnly, StickyOnly
  <2>3. CASE Start(d)
    BY <2>3 DEF Start
  <2>4. CASE SignalTop(d)
    BY <2>4 DEF SignalTop
  <2>5. CASE SignalTop2(d)
    BY <2>5 DEF SignalTop2
  <2>6. CASE ClearTop(d)
    BY <2>6 DEF ClearTop
  <2>7. CASE ClearTop2(d)
    BY <2>7 DEF ClearTop2
  <2>8. CASE PulseTop(d)
    BY <2>8 DEF PulseTop
  <2>9. CASE PulseTop2(d)
    BY <2>9 DEF PulseTop2
  <2>. QED
    BY <2>3, <2>4, <2>5, <2>6, <2>7, <2>8, <2>9
<1>. QED
  BY <1>1, BranchStep, Kinds
(* A wait begins, having noted whether the event is set.                    *)
LEMMA StartStep ==
  ASSUME IInv, NEW w \in Waiters, StartWait(w) \/ StartTryWait(w)
  PROVE  IInv'
<1>1. PICK place \in {"top", "tryTop"} : Goto(w, place) /\ pc[w] = "out"
  BY DEF StartWait, StartTryWait
<1>2. /\ seen' = [seen EXCEPT ![w] = state >= 0]
      /\ timed' \in [Waiters -> BOOLEAN]
      /\ UNCHANGED <<state, owner, type, credit>>
  BY DEF StartWait, StartTryWait, IInv, Types
<1>3. place \in WaiterPlaces /\ place \in Places /\ w \in Threads
  BY Kinds DEF Places, WaiterPlaces
<1>4. pc' \in [Threads -> Places] /\ pc'[w] = place /\ \A u \in Threads : u # w => pc'[u] = pc[u]
  BY <1>1, <1>3, Goes DEF IInv, Types
<1>5. Types'
  BY <1>2, <1>3, <1>4, Kinds DEF IInv, Types
<1>6. ByType'
  BY <1>1, <1>2, <1>4 DEF IInv, ByType, OneshotOnly, StickyOnly
<1>7. Holding'
  BY <1>2, <1>4, Kinds DEF IInv, Holding
<1>8. Noted'
  <2>1. /\ seen'[w] = (state >= 0)
        /\ \A v \in Waiters : v # w => seen'[v] = seen[v] /\ pc'[v] = pc[v]
    BY <1>2, <1>4, Kinds DEF IInv, Types
  <2>. QED
    BY <1>1, <1>2, <1>4, <2>1 DEF IInv, Noted
<1>9. NoLostWakeup'
  <2>1. Asleep' = Asleep
    BY <1>1, <1>4, Kinds DEF Asleep
  <2>. QED
    BY <1>1, <1>2, <1>4, <2>1, Kinds DEF IInv, NoLostWakeup
<1>. QED
  BY <1>5, <1>6, <1>7, <1>8, <1>9 DEF IInv

(* A wait returns, which ends what it has noted; it is not the one that is  *)
(* about to consume a signal.                                               *)
LEMMA ReturnStep ==
  ASSUME IInv, NEW w \in Waiters, Return(w), UNCHANGED <<state, owner, type, credit>>,
         \/ pc[w] \in Sleeping \cup {"passed"}
         \/ state # SIGNALED_ONESHOT
  PROVE  IInv'
<1>1. "out" \in WaiterPlaces /\ "out" \in Places /\ w \in Threads
  BY Kinds DEF Places, WaiterPlaces
<1>2. pc' \in [Threads -> Places] /\ pc'[w] = "out" /\ \A u \in Threads : u # w => pc'[u] = pc[u]
  BY <1>1, Goes DEF IInv, Types, Return
<1>3. Types'
  BY <1>1, <1>2, Kinds DEF IInv, Types, Return
<1>4. ByType'
  BY <1>2 DEF IInv, ByType, OneshotOnly, StickyOnly
<1>5. Holding'
  BY <1>2, Kinds DEF IInv, Holding
<1>6. Noted'
  <2>1. \A v \in Waiters : v # w => seen'[v] = seen[v] /\ pc'[v] = pc[v]
    BY <1>2, Kinds DEF IInv, Types, Return
  <2>. QED
    BY <1>2, <2>1 DEF IInv, Noted
<1>7. NoLostWakeup'
  <2> SUFFICES ASSUME Asleep' # {}, state >= 0
               PROVE  \/ \E d \in Drivers : pc'[d] \in {"wakeOne", "wakeAll"}
                      \/ /\ type = "oneshot"
                         /\ \E v \in Waiters : pc'[v] \notin {"out", "asleepOnce", "asleepLoop", "passed"}
    BY DEF NoLostWakeup
  <2>1. Asleep # {}
    BY <1>2, Kinds, Sleepers DEF Sleeping
  <2>2. CASE \E d \in Drivers : pc[d] \in {"wakeOne", "wakeAll"}
    BY <1>2, <2>2, Kinds
  <2>3. CASE type = "oneshot" /\ \E v \in Waiters : pc[v] \notin {"out", "asleepOnce", "asleepLoop", "passed"}
    <3>1. state = SIGNALED_ONESHOT
      BY <2>3 DEF IInv, ByType, CLEARED_ONESHOT, SIGNALED_ONESHOT
    <3>. QED
      BY <1>2, <2>3, <3>1, Kinds DEF Sleeping
  <2>. QED
    BY <2>1, <2>2, <2>3 DEF IInv, NoLostWakeup
<1>. QED
  BY <1>3, <1>4, <1>5, <1>6, <1>7 DEF IInv

(* LightEvent_TryReset consumes a signal of a one-shot event or goes on.    *)
LEMMA ResetStep ==
  ASSUME IInv, NEW w \in Waiters,
         TryReset(w, "reset", "waitLoop") \/ TryReset(w, "tryReset", "out")
  PROVE  IInv'
<1>1. PICK from, failed : /\ TryReset(w, from, failed)
                          /\ <<from, failed>> \in {<<"reset", "waitLoop">>, <<"tryReset", "out">>}
  OBVIOUS
<1>2. CASE state # SIGNALED_ONESHOT /\ failed = "out"
  BY <1>1, <1>2, ReturnStep DEF TryReset
<1>3. CASE state # SIGNALED_ONESHOT /\ failed # "out"
  <2>1. Branch(w, "reset", "waitLoop")
    BY <1>1, <1>3 DEF TryReset, Branch
  <2>2. MayGo(w, "waitLoop")
    BY Kinds DEF MayGo, Places, WaiterPlaces, OneshotOnly, StickyOnly, Sleeping
  <2>. QED
    BY <2>1, <2>2, BranchStep, Kinds
<1>4. CASE state = SIGNALED_ONESHOT
  <2>1. /\ type = "oneshot" /\ credit = 1 /\ state' = CLEARED_ONESHOT /\ credit' = 0
        /\ UNCHANGED <<owner, type, timed, seen>> /\ Goto(w, "passed") /\ pc[w] = from
    BY <1>1, <1>4 DEF TryReset, IInv, ByType, SIGNALED_ONESHOT, CLEARED_STICKY, SIGNALED_STICKY
  <2>2. "passed" \in WaiterPlaces /\ "passed" \in Places /\ w \in Threads
    BY Kinds DEF Places, WaiterPlaces
  <2>3. pc' \in [Threads -> Places] /\ pc'[w] = "passed" /\ \A u \in Threads : u # w => pc'[u] = pc[u]
    BY <2>1, <2>2, Goes DEF IInv, Types
  <2>4. Types'
    BY <2>1, <2>2, <2>3, Kinds DEF IInv, Types
  <2>5. ByType'
    BY <2>1, <2>3 DEF IInv, ByType, OneshotOnly, StickyOnly, CLEARED_ONESHOT, SIGNALED_ONESHOT
  <2>6. Holding'
    <3>1. \A d \in Drivers : pc'[d] # "wakeAll"
      BY <2>1, <2>3, Kinds DEF IInv, ByType, StickyOnly
    <3>. QED
      BY <2>1, <2>3, <3>1, Kinds DEF IInv, Holding
  <2>7. Noted'
    <3>1. seen[w]
      BY <1>1, <1>4, <2>1 DEF IInv, Noted, SIGNALED_ONESHOT
    <3>. QED
      BY <2>1, <2>3, <3>1, Kinds DEF IInv, Noted, CLEARED_ONESHOT
  <2>8. NoLostWakeup'
    BY <2>1 DEF NoLostWakeup, CLEARED_ONESHOT
  <2>. QED
    BY <2>4, <2>5, <2>6, <2>7, <2>8 DEF IInv
<1>. QED
  BY <1>1, <1>2, <1>3, <1>4
(* A driver that moves on leaves every waiter where it is.                  *)
LEMMA DriverMoves ==
  ASSUME IInv, NEW d \in Drivers, NEW place \in DriverPlaces, Goto(d, place)
  PROVE  /\ pc' \in [Threads -> Places] /\ pc'[d] = place
         /\ \A u \in Threads : u # d => pc'[u] = pc[u]
         /\ \A w \in Waiters : pc'[w] = pc[w]
         /\ \A w \in Waiters : pc'[w] \in WaiterPlaces
         /\ Asleep' = Asleep
<1>1. d \in Threads /\ place \in Places /\ \A w \in Waiters : w # d /\ w \in Threads
  BY Kinds DEF Places
<1>2. /\ pc' \in [Threads -> Places] /\ pc'[d] = place
      /\ \A u \in Threads : u # d => pc'[u] = pc[u]
  BY <1>1, Goes DEF IInv, Types
<1>3. Asleep' = Asleep
  BY <1>1, <1>2 DEF Asleep
<1>. QED
  BY <1>1, <1>2, <1>3 DEF IInv, Types

(* The lock is taken while nobody holds it and given back by its holder.    *)
LEMMA LockStep ==
  ASSUME IInv, NEW d \in Drivers, LockSet(d) \/ LockClear(d) \/ Unlock(d)
  PROVE  IInv'
<1>1. PICK from, place : /\ Goto(d, place) /\ pc[d] = from
                         /\ UNCHANGED <<state, timed, type, seen, credit>>
                         /\ \/ /\ owner = NoThread /\ owner' = d
                               /\ from \in {"lockSet", "lockClear"}
                               /\ place \in {"setSticky", "clearSticky"}
                            \/ /\ from = "unlock" /\ owner' = NoThread /\ place = "out"
  BY DEF LockSet, LockClear, Lock, Unlock
<1>2. place \in DriverPlaces
  BY <1>1 DEF DriverPlaces
<1>3. /\ pc' \in [Threads -> Places] /\ pc'[d] = place
      /\ \A u \in Threads : u # d => pc'[u] = pc[u]
      /\ \A w \in Waiters : pc'[w] = pc[w]
      /\ \A w \in Waiters : pc'[w] \in WaiterPlaces
      /\ Asleep' = Asleep
  BY <1>1, <1>2, DriverMoves
<1>4. Types'
  BY <1>1, <1>3, Kinds DEF IInv, Types
<1>5. ByType'
  <2>1. type = "oneshot" => from \notin {"lockSet", "lockClear", "unlock"}
    BY <1>1, Kinds DEF IInv, ByType, StickyOnly
  <2>2. type # "oneshot" /\ place \notin OneshotOnly
    BY <1>1, <2>1 DEF OneshotOnly
  <2>. QED
    BY <1>1, <1>3, <2>2 DEF IInv, ByType
<1>6. Holding'
  <2>1. \A e \in Drivers : e # d => pc[e] \notin Held /\ pc'[e] \notin Held
    BY <1>1, <1>3, Kinds DEF IInv, Holding, Held
  <2>2. /\ pc'[d] \in Held => owner' = d
        /\ pc'[d] # "wakeAll"
    BY <1>1, <1>3 DEF Held
  <2>3. "wakeAll" \in Held
    BY DEF Held
  <2>. QED
    BY <2>1, <2>2, <2>3 DEF Holding
<1>7. Noted'
  BY <1>1, <1>3 DEF IInv, Noted
<1>8. NoLostWakeup'
  <2>1. \A e \in Drivers : pc[e] \in {"wakeOne", "wakeAll"} => pc'[e] = pc[e]
    BY <1>1, <1>3, Kinds
  <2>. QED
    BY <1>1, <1>3, <2>1 DEF IInv, NoLostWakeup
<1>. QED
  BY <1>4, <1>5, <1>6, <1>7, <1>8 DEF IInv

(* The four stores of a state.  Whoever sets the event goes on to wake the  *)
(* sleepers, and a sticky event is stored to by the holder of the lock.     *)
LEMMA SetStep ==
  ASSUME IInv, NEW d \in Drivers,
         \/ SetState(d, "setOne", SIGNALED_ONESHOT, "wakeOne")
         \/ SetState(d, "setSticky", SIGNALED_STICKY, "wakeAll")
         \/ SetState(d, "clearSticky", CLEARED_STICKY, "unlock")
         \/ SetState(d, "clearOne", CLEARED_ONESHOT, "out")
  PROVE  IInv'
<1>1. PICK from, value, place :
         /\ SetState(d, from, value, place)
         /\ \/ from = "setOne" /\ value = SIGNALED_ONESHOT /\ place = "wakeOne"
            \/ from = "setSticky" /\ value = SIGNALED_STICKY /\ place = "wakeAll"
            \/ from = "clearSticky" /\ value = CLEARED_STICKY /\ place = "unlock"
            \/ from = "clearOne" /\ value = CLEARED_ONESHOT /\ place = "out"
  OBVIOUS
<1>2. /\ pc[d] = from /\ Goto(d, place) /\ state' = value
      /\ credit' = IF value = SIGNALED_ONESHOT THEN 1 ELSE 0
      /\ seen' = [w \in Waiters |-> seen[w] \/ (value >= 0 /\ pc[w] # "out")]
      /\ UNCHANGED <<owner, timed, type>>
  BY <1>1 DEF SetState
<1>3. place \in DriverPlaces
  BY <1>1 DEF DriverPlaces
<1>4. /\ pc' \in [Threads -> Places] /\ pc'[d] = place
      /\ \A u \in Threads : u # d => pc'[u] = pc[u]
      /\ \A w \in Waiters : pc'[w] = pc[w]
      /\ \A w \in Waiters : pc'[w] \in WaiterPlaces
      /\ Asleep' = Asleep
  BY <1>2, <1>3, DriverMoves
<1>5. Types'
  BY <1>2, <1>4 DEF IInv, Types
<1>6. ByType'
  <2>1. CASE type = "oneshot"
    <3>1. from \notin StickyOnly /\ \A t \in Threads : pc[t] \notin StickyOnly
      BY <1>2, <2>1, Kinds DEF IInv, ByType
    <3>2. /\ value \in {SIGNALED_ONESHOT, CLEARED_ONESHOT}
          /\ place \notin StickyOnly
      BY <1>1, <3>1 DEF StickyOnly
    <3>. QED
      BY <1>2, <1>4, <2>1, <3>1, <3>2 DEF ByType
  <2>2. CASE type = "sticky"
    <3>1. from \notin OneshotOnly /\ \A t \in Threads : pc[t] \notin OneshotOnly
      BY <1>2, <2>2, Kinds DEF IInv, ByType
    <3>2. /\ value \in {SIGNALED_STICKY, CLEARED_STICKY}
          /\ place \notin OneshotOnly
          /\ value # SIGNALED_ONESHOT
      BY <1>1, <3>1 DEF OneshotOnly, SIGNALED_STICKY, CLEARED_STICKY, SIGNALED_ONESHOT
    <3>. QED
      BY <1>2, <1>4, <2>2, <3>1, <3>2 DEF ByType
  <2>. QED
    BY <2>1, <2>2 DEF IInv, ByType
<1>7. Holding'
  <2>1. CASE from \in Held
    <3>1. \A e \in Drivers : e # d => pc[e] \notin Held /\ pc'[e] \notin Held
      BY <1>2, <1>4, <2>1, Kinds DEF IInv, Holding
    <3>2. owner' = d /\ (place = "wakeAll" => state' = SIGNALED_STICKY)
      BY <1>1, <1>2, <2>1 DEF IInv, Holding
    <3>3. "wakeAll" \in Held
      BY DEF Held
    <3>. QED
      BY <1>4, <3>1, <3>2, <3>3 DEF Holding
  <2>2. CASE from \notin Held
    <3>1. type = "oneshot"
      BY <1>1, <1>2, <2>2, Kinds DEF IInv, ByType, Held, OneshotOnly
    <3>2. \A e \in Drivers : pc[e] \notin StickyOnly
      BY <3>1, Kinds DEF IInv, ByType
    <3>3. Held \subseteq StickyOnly /\ place \notin Held /\ "wakeAll" \in Held
      BY <1>1, <2>2 DEF Held, StickyOnly
    <3>4. \A e \in Drivers : pc'[e] \notin Held
      BY <1>4, <3>2, <3>3, Kinds
    <3>. QED
      BY <3>3, <3>4 DEF Holding
  <2>. QED
    BY <2>1, <2>2
<1>8. Noted'
  BY <1>2, <1>4 DEF IInv, Noted
<1>9. NoLostWakeup'
  <2>1. value >= 0 => place \in {"wakeOne", "wakeAll"}
    BY <1>1 DEF CLEARED_ONESHOT, CLEARED_STICKY
  <2>. QED
    BY <1>2, <1>4, <2>1 DEF NoLostWakeup
<1>. QED
  BY <1>5, <1>6, <1>7, <1>8, <1>9 DEF IInv
(* The four SIGNALs.  A sleeper of a one-shot event that is woken looks     *)
(* again; those of a sticky one are all woken, and while the holder of the  *)
(* lock wakes them the event is set.                                        *)
LEMMA WakeStep ==
  ASSUME IInv, NEW d \in Drivers,
         \/ Wake(d, "wakeOne", 1, "out") \/ Wake(d, "wakeAll", -1, "unlock")
         \/ Wake(d, "pulseOne", 1, "out") \/ Wake(d, "pulseAll", -1, "out")
  PROVE  IInv'
<1>1. PICK from, n, place :
         /\ Wake(d, from, n, place)
         /\ \/ from = "wakeOne" /\ n = 1 /\ place = "out"
            \/ from = "wakeAll" /\ n = -1 /\ place = "unlock"
            \/ from = "pulseOne" /\ n = 1 /\ place = "out"
            \/ from = "pulseAll" /\ n = -1 /\ place = "out"
  OBVIOUS
<1>0. n \in {1, -1}
  BY <1>1
<1>2. PICK W \in Wakeable(Asleep, n) :
         /\ pc' = [t \in Threads |-> IF t = d THEN place
                                    ELSE IF t \notin W THEN pc[t]
                                    ELSE IF pc[t] = "asleepOnce" THEN "passed" ELSE "top"]
         /\ seen' = [w \in Waiters |->
                       seen[w] \/ (w \in W /\ from \in {"pulseAll", "pulseOne"})]
  BY <1>1 DEF Wake
<1>3. pc[d] = from /\ UNCHANGED <<state, owner, timed, type, credit>>
  BY <1>1 DEF Wake
<1>4. W \subseteq Asleep /\ (n = -1 => W = Asleep) /\ (Asleep # {} => W # {})
  BY <1>0, WhoIsWoken
<1>5. /\ pc'[d] = place /\ d \notin W
      /\ \A t \in Threads : t # d /\ t \notin W => pc'[t] = pc[t]
      /\ \A w \in W : /\ w \in Waiters /\ pc[w] \in Sleeping
                      /\ pc'[w] = IF pc[w] = "asleepOnce" THEN "passed" ELSE "top"
  BY <1>2, <1>4, Kinds, Sleepers
<1>6. Types'
  <2>1. pc' \in [Threads -> Places]
    <3>1. {"passed", "top", place} \subseteq Places
      BY <1>1 DEF Places, WaiterPlaces, DriverPlaces
    <3>2. \A t \in Threads : pc'[t] \in Places
      BY <1>5, <3>1 DEF IInv, Types
    <3>. QED
      BY <1>2, <3>2
  <2>2. \A w \in Waiters : pc'[w] \in WaiterPlaces
    <3>1. "passed" \in WaiterPlaces /\ "top" \in WaiterPlaces
      BY DEF WaiterPlaces
    <3>. QED
      BY <1>5, <3>1, Kinds DEF IInv, Types
  <2>3. seen' \in [Waiters -> BOOLEAN]
    BY <1>2
  <2>. QED
    BY <1>3, <2>1, <2>2, <2>3 DEF IInv, Types
<1>7. ByType'
  <2>1. place \in StickyOnly => from \in StickyOnly
    BY <1>1 DEF StickyOnly
  <2>2. place \notin OneshotOnly
    BY <1>1 DEF OneshotOnly
  <2>3. {"passed", "top"} \cap (StickyOnly \cup OneshotOnly) = {}
    BY DEF StickyOnly, OneshotOnly
  <2>4. \A t \in Threads :
          \/ pc'[t] = pc[t]
          \/ pc'[t] \in {"passed", "top"}
          \/ t = d /\ pc'[t] = place /\ pc[t] = from
    <3>1. \A w \in W : pc'[w] \in {"passed", "top"}
      BY <1>5
    <3>. QED
      BY <1>3, <1>5, <3>1
  <2>5. /\ (\A t \in Threads : pc[t] \notin StickyOnly) => \A t \in Threads : pc'[t] \notin StickyOnly
        /\ (\A t \in Threads : pc[t] \notin OneshotOnly) => \A t \in Threads : pc'[t] \notin OneshotOnly
    BY <2>1, <2>2, <2>3, <2>4
  <2>. QED
    BY <1>3, <2>5 DEF IInv, ByType
<1>8. Holding'
  <2>1. \A e \in Drivers : e # d => pc'[e] = pc[e]
    BY <1>5, Kinds
  <2>2. place \in Held => from \in Held
    BY <1>1 DEF Held
  <2>3. place # "wakeAll"
    BY <1>1
  <2>. QED
    BY <1>3, <1>5, <2>1, <2>2, <2>3 DEF IInv, Holding
<1>9. Noted'
  <2> SUFFICES ASSUME NEW w \in Waiters
               PROVE  /\ pc'[w] # "out" /\ state >= 0 => seen'[w]
                      /\ pc'[w] = "passed" => seen'[w]
    BY <1>3 DEF Noted
  <2>1. seen'[w] = (seen[w] \/ (w \in W /\ from \in {"pulseAll", "pulseOne"})) /\ w # d /\ w \in Threads
    BY <1>2, Kinds
  <2>2. CASE w \notin W
    BY <1>5, <2>1, <2>2 DEF IInv, Noted
  <2>3. CASE w \in W /\ pc[w] # "asleepOnce"
    BY <1>5, <2>1, <2>3 DEF IInv, Noted, Sleeping
  <2>4. CASE w \in W /\ pc[w] = "asleepOnce"
    <3>1. type # "oneshot"
      BY <2>1, <2>4 DEF IInv, ByType, StickyOnly
    <3>2. from \in {"wakeAll", "pulseAll"}
      BY <1>1, <1>3, <3>1, Kinds DEF IInv, ByType, OneshotOnly
    <3>3. from = "wakeAll" => seen[w]
      BY <1>3, <2>4 DEF IInv, Holding, Noted, SIGNALED_STICKY
    <3>. QED
      BY <2>1, <2>4, <3>2, <3>3
  <2>. QED
    BY <2>2, <2>3, <2>4
<1>10. NoLostWakeup'
  <2>1. CASE n = -1
    <3>1. \A w \in Waiters : pc'[w] \notin Sleeping
      BY <1>4, <1>5, <2>1, Kinds, Sleepers DEF Sleeping
    <3>. QED
      BY <3>1, Sleepers DEF NoLostWakeup
  <2>2. CASE n = 1 /\ Asleep = {}
    <3>1. \A w \in Waiters : pc'[w] \notin Sleeping
      BY <1>4, <1>5, <2>2, Kinds, Sleepers
    <3>. QED
      BY <3>1, Sleepers DEF NoLostWakeup
  <2>3. CASE n = 1 /\ Asleep # {}
    <3>1. PICK w \in W : TRUE
      BY <1>4, <2>3
    <3>2. from \in OneshotOnly
      BY <1>1, <2>3 DEF OneshotOnly
    <3>3. type = "oneshot"
      BY <1>3, <3>2, Kinds DEF IInv, ByType
    <3>4. pc[w] # "asleepOnce" /\ w \in Waiters
      BY <1>5, <3>3, Kinds DEF IInv, ByType, StickyOnly
    <3>5. pc'[w] = "top"
      BY <1>5, <3>4
    <3>. QED
      BY <1>3, <3>3, <3>4, <3>5 DEF NoLostWakeup
  <2>. QED
    BY <1>0, <2>1, <2>2, <2>3
<1>. QED
  BY <1>6, <1>7, <1>8, <1>9, <1>10 DEF IInv
-------------------------------------------------------------------------------
(* Nobody is anywhere when an event is initialised.                         *)
LEMMA InitHolds == Init => IInv
<1> SUFFICES ASSUME Init PROVE IInv
  OBVIOUS
<1>1. Types
  BY DEF Init, Types, Places, WaiterPlaces, Threads
<1>2. ByType
  BY LightEventAssumption DEF Init, ByType, OneshotOnly, StickyOnly,
     CLEARED_ONESHOT, SIGNALED_ONESHOT, CLEARED_STICKY, SIGNALED_STICKY
<1>3. Holding /\ Noted
  BY Kinds DEF Init, Holding, Held, Noted
<1>4. NoLostWakeup
  BY Kinds DEF Init, NoLostWakeup, Asleep
<1>. QED
  BY <1>1, <1>2, <1>3, <1>4 DEF IInv

LEMMA StepHolds == IInv /\ [Next]_vars => IInv'
<1> SUFFICES ASSUME IInv, [Next]_vars PROVE IInv'
  OBVIOUS
<1>1. ASSUME NEW w \in Waiters, StartWait(w) \/ StartTryWait(w) PROVE IInv'
  BY <1>1, StartStep
<1>2. ASSUME NEW w \in Waiters, WaiterProceeds(w) PROVE IInv'
  <2>1. CASE Passed(w)
    BY <2>1, ReturnStep DEF Passed
  <2>. QED
    BY <1>2, <2>1, LookStep, ResetStep DEF WaiterProceeds
<1>3. ASSUME NEW w \in Waiters, Expire(w) PROVE IInv'
  BY <1>3, ReturnStep DEF Expire, Sleeping
<1>4. ASSUME NEW d \in Drivers, Start(d) \/ DriverProceeds(d) PROVE IInv'
  BY <1>4, DecideStep, LockStep, SetStep, WakeStep DEF DriverProceeds
<1>5. CASE UNCHANGED vars
  BY <1>5 DEF vars, IInv, Types, ByType, Holding, Noted, NoLostWakeup, Asleep
<1>. QED
  BY <1>1, <1>2, <1>3, <1>4, <1>5 DEF Next

LEMMA Invariant == Spec => []IInv
BY InitHolds, StepHolds, PTL DEF Spec

(* A wait passes only if the event was set, or pulsed, while it lasted: the *)
(* SIGNAL that belongs to an earlier LightEvent_Signal, even one of a       *)
(* driver that has been preempted in between, lets no later wait pass.      *)
THEOREM PassesAreEarned == Spec => []PassedOnlyIfSeen
<1>1. IInv => PassedOnlyIfSeen
  BY DEF IInv, Noted, PassedOnlyIfSeen
<1>. QED
  BY <1>1, Invariant, PTL

(* Each signal of a one-shot event lets at most one wait pass, however many *)
(* threads race for it in LightEvent_TryReset.                              *)
THEOREM SignalsPassOneEach == Spec => []OneShotPassesOne
<1>1. IInv => OneShotPassesOne
  BY DEF IInv, ByType, OneShotPassesOne
<1>. QED
  BY <1>1, Invariant, PTL

(* No thread is left asleep on an event that is set: somebody who will wake *)
(* it, or who takes the signal, is on the way.                              *)
THEOREM NobodySleepsOnASetEvent == Spec => []NoLostWakeup
<1>1. IInv => NoLostWakeup
  BY DEF IInv
<1>. QED
  BY <1>1, Invariant, PTL
===============================================================================
