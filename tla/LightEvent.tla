----------------------------- MODULE LightEvent -----------------------------
(***************************************************************************)
(* LightEvent (source/synchronization.c): an event in one word, on which   *)
(* its waiters sleep while it is negative, and a LightLock that Signal and *)
(* Clear hold while they change a sticky event.                            *)
(*                                                                         *)
(* The functions read event->state several times without synchronisation.  *)
(* Each read is a step of its own; a compiler that merges two reads only   *)
(* loses the behaviours in which somebody runs between them.               *)
(***************************************************************************)
EXTENDS AddressArbiter

CONSTANTS
  Waiters,       \* threads that call Wait, WaitTimeout and TryWait
  Drivers,       \* threads that call Signal, Clear and Pulse
  NoThread,      \* the owner of a free lock
  ResetTypes     \* the reset types events are created with

ASSUME LightEventAssumption ==
  /\ IsFiniteSet(Waiters) /\ IsFiniteSet(Drivers)
  /\ Waiters \cap Drivers = {}
  /\ NoThread \notin Waiters \cup Drivers
  /\ ResetTypes \subseteq {"oneshot", "sticky"}

CLEARED_STICKY   == -2
CLEARED_ONESHOT  == -1
SIGNALED_ONESHOT == 0
SIGNALED_STICKY  == 1

VARIABLES
  state,     \* event->state
  owner,     \* the owner of event->lock, an abstract mutex
  pc,        \* where each thread is, see below
  timed,     \* waiter -> is its wait a LightEvent_WaitTimeout?
  type,      \* history: the reset type given to LightEvent_Init
  seen,      \* history: waiter -> was the event set, or pulsed while the
             \*   waiter slept, at some moment of its current wait?
  credit     \* history: signals of a one-shot event not yet consumed

vars == <<state, owner, pc, timed, type, seen, credit>>

Threads == Waiters \cup Drivers

(* Where a waiter is:                                                      *)
(*   "top", "any", "sticky", "oneshot"  before one of the reads of state   *)
(*   "reset"     before LightEvent_TryReset                                *)
(*   "waitOnce"  before the WAIT_IF_LESS_THAN of a cleared sticky event    *)
(*   "waitLoop"  before the one at the end of the loop                     *)
(*   "asleepOnce", "asleepLoop"  inside them                               *)
(*   "tryTop", "tryReset"  in LightEvent_TryWait                           *)
(*   "passed"    about to return with success                              *)
(* Where a driver is:                                                      *)
(*   "signal", "signal2", "clear", "clear2", "pulse", "pulse2"             *)
(*               before a read of state in the function                    *)
(*   "setOne", "wakeOne"  signalling a one-shot event                      *)
(*   "lockSet", "setSticky", "wakeAll", "unlock"  signalling a sticky one  *)
(*   "lockClear", "clearSticky", "unlock"  clearing a sticky one           *)
(*   "clearOne"  clearing a one-shot one                                   *)
(*   "pulseAll", "pulseOne"  before the SIGNAL of LightEvent_Pulse         *)
WaiterPlaces ==
  {"out", "top", "any", "sticky", "oneshot", "reset", "waitOnce", "waitLoop",
   "asleepOnce", "asleepLoop", "tryTop", "tryReset", "passed"}
DriverPlaces ==
  {"out", "signal", "signal2", "clear", "clear2", "pulse", "pulse2", "setOne",
   "wakeOne", "lockSet", "setSticky", "wakeAll", "unlock", "lockClear",
   "clearSticky", "clearOne", "pulseAll", "pulseOne"}

Asleep == {w \in Waiters : pc[w] \in {"asleepOnce", "asleepLoop"}}

Init ==
  /\ type \in ResetTypes
  /\ state = IF type = "sticky" THEN CLEARED_STICKY ELSE CLEARED_ONESHOT
  /\ owner = NoThread
  /\ pc = [t \in Threads |-> "out"]
  /\ timed = [w \in Waiters |-> FALSE]
  /\ seen = [w \in Waiters |-> FALSE]
  /\ credit = 0

Goto(t, place) == pc' = [pc EXCEPT ![t] = place]

\* A read of event->state that only decides where to go on.
Branch(t, from, place) ==
  /\ pc[t] = from
  /\ Goto(t, place)
  /\ UNCHANGED <<state, owner, timed, type, seen, credit>>

\* The call of waiter w returns, and its locals with it.
Return(w) ==
  /\ Goto(w, "out")
  /\ timed' = [timed EXCEPT ![w] = FALSE]
  /\ seen' = [seen EXCEPT ![w] = FALSE]

-----------------------------------------------------------------------------
(***************************************************************************)
(* Slips the code avoids, each for the action named with it.               *)
(***************************************************************************)

\* For WaitLoop and WaitOnce: the kernel does not compare the word.
WaitLoopUnchecked(w) == Branch(w, "waitLoop", "asleepLoop")
WaitOnceUnchecked(w) == Branch(w, "waitOnce", "asleepOnce")

\* For TryReset: the state is stored without being compared first.
TryResetUnchecked(w, from, failed) ==
  /\ pc[w] = from
  /\ state' = CLEARED_ONESHOT
  /\ credit' = credit - 1
  /\ Goto(w, "passed")
  /\ UNCHANGED <<owner, timed, type, seen>>

\* For LockClear: a sticky event is cleared without the lock.
LockClearWithoutLock(d) ==
  /\ pc[d] = "lockClear"
  /\ state' = CLEARED_STICKY
  /\ Goto(d, "out")
  /\ UNCHANGED <<owner, timed, type, seen, credit>>

-----------------------------------------------------------------------------
\* LightEvent_Wait and LightEvent_WaitTimeout.

StartWait(w) ==
  /\ pc[w] = "out"
  /\ \E b \in BOOLEAN : timed' = [timed EXCEPT ![w] = b]
  /\ seen' = [seen EXCEPT ![w] = state >= 0]
  /\ Goto(w, "top")
  /\ UNCHANGED <<state, owner, type, credit>>

WaitTop(w) ==
  Branch(w, "top", IF state = CLEARED_STICKY THEN "waitOnce" ELSE "any")

WaitAny(w) ==
  Branch(w, "any", IF state # CLEARED_ONESHOT THEN "sticky" ELSE "waitLoop")

WaitSticky(w) ==
  Branch(w, "sticky", IF state = SIGNALED_STICKY THEN "passed" ELSE "oneshot")

WaitOneshot(w) ==
  Branch(w, "oneshot", IF state = SIGNALED_ONESHOT THEN "reset" ELSE "waitLoop")

\* LightEvent_TryReset consumes the signal of a one-shot event, if it is set.
TryReset(w, from, failed) ==
  /\ pc[w] = from
  /\ IF state # SIGNALED_ONESHOT
     THEN /\ IF failed = "out" THEN Return(w)
                               ELSE Goto(w, failed) /\ UNCHANGED <<timed, seen>>
          /\ UNCHANGED <<state, credit>>
     ELSE /\ state' = CLEARED_ONESHOT
          /\ credit' = credit - 1
          /\ Goto(w, "passed")
          /\ UNCHANGED <<timed, seen>>
  /\ UNCHANGED <<owner, type>>

\* After this call into the kernel the wait of a sticky event is over ...
WaitOnce(w) ==
  Branch(w, "waitOnce",
         IF MustSleep(state, SIGNALED_ONESHOT) THEN "asleepOnce" ELSE "passed")

\* ... and after this one the loop starts again.
WaitLoop(w) ==
  Branch(w, "waitLoop",
         IF MustSleep(state, SIGNALED_ONESHOT) THEN "asleepLoop" ELSE "top")

\* The kernel gives up on a sleeper whose time has come, and so does the wait.
Expire(w) ==
  /\ pc[w] \in {"asleepOnce", "asleepLoop"}
  /\ timed[w]
  /\ Return(w)
  /\ UNCHANGED <<state, owner, type, credit>>

Passed(w) ==
  /\ pc[w] = "passed"
  /\ Return(w)
  /\ UNCHANGED <<state, owner, type, credit>>

StartTryWait(w) ==
  /\ pc[w] = "out"
  /\ seen' = [seen EXCEPT ![w] = state >= 0]
  /\ Goto(w, "tryTop")
  /\ UNCHANGED <<state, owner, timed, type, credit>>

TryWaitTop(w) ==
  Branch(w, "tryTop", IF state = SIGNALED_STICKY THEN "passed" ELSE "tryReset")

-----------------------------------------------------------------------------
\* LightEvent_Signal, LightEvent_Clear and LightEvent_Pulse.

Start(d) == \E f \in {"signal", "clear", "pulse"} : Branch(d, "out", f)

SignalTop(d) ==
  Branch(d, "signal", IF state = CLEARED_ONESHOT THEN "setOne" ELSE "signal2")

SignalTop2(d) ==
  Branch(d, "signal2", IF state = CLEARED_STICKY THEN "lockSet" ELSE "out")

ClearTop(d) ==
  Branch(d, "clear", IF state = SIGNALED_STICKY THEN "lockClear" ELSE "clear2")

ClearTop2(d) ==
  Branch(d, "clear2", IF state = SIGNALED_ONESHOT THEN "clearOne" ELSE "out")

PulseTop(d) ==
  Branch(d, "pulse", IF state = CLEARED_STICKY THEN "pulseAll" ELSE "pulse2")

PulseTop2(d) ==
  Branch(d, "pulse2", IF state = CLEARED_ONESHOT THEN "pulseOne" ELSE "clear")

\* LightEvent_SetState, whatever the state is by then.
SetState(d, from, value, place) ==
  /\ pc[d] = from
  /\ state' = value
  /\ credit' = IF value = SIGNALED_ONESHOT THEN 1 ELSE 0
  /\ seen' = [w \in Waiters |-> seen[w] \/ (value >= 0 /\ pc[w] # "out")]
  /\ Goto(d, place)
  /\ UNCHANGED <<owner, timed, type>>

Lock(d, from, place) ==
  /\ owner = NoThread
  /\ owner' = d
  /\ pc[d] = from
  /\ Goto(d, place)
  /\ UNCHANGED <<state, timed, type, seen, credit>>

LockSet(d)   == Lock(d, "lockSet", "setSticky")
LockClear(d) == Lock(d, "lockClear", "clearSticky")

Unlock(d) ==
  /\ pc[d] = "unlock"
  /\ owner' = NoThread
  /\ Goto(d, "out")
  /\ UNCHANGED <<state, timed, type, seen, credit>>

\* The kernel wakes n sleepers.  A pulse is what lets a sleeper of a cleared
\* sticky event pass; a sleeper that goes round the loop has to look again.
Wake(d, from, n, place) ==
  /\ pc[d] = from
  /\ \E W \in Wakeable(Asleep, n) :
       /\ pc' = [t \in Threads |->
                   IF t = d THEN place
                   ELSE IF t \notin W THEN pc[t]
                   ELSE IF pc[t] = "asleepOnce" THEN "passed" ELSE "top"]
       /\ seen' = [w \in Waiters |->
                     seen[w] \/ (w \in W /\ from \in {"pulseAll", "pulseOne"})]
  /\ UNCHANGED <<state, owner, timed, type, credit>>

-----------------------------------------------------------------------------

WaiterProceeds(w) ==
  \/ WaitTop(w) \/ WaitAny(w) \/ WaitSticky(w) \/ WaitOneshot(w)
  \/ TryReset(w, "reset", "waitLoop") \/ WaitOnce(w) \/ WaitLoop(w)
  \/ TryWaitTop(w) \/ TryReset(w, "tryReset", "out") \/ Passed(w)

DriverProceeds(d) ==
  \/ SignalTop(d) \/ SignalTop2(d) \/ ClearTop(d) \/ ClearTop2(d)
  \/ PulseTop(d) \/ PulseTop2(d)
  \/ SetState(d, "setOne", SIGNALED_ONESHOT, "wakeOne")
  \/ SetState(d, "setSticky", SIGNALED_STICKY, "wakeAll")
  \/ SetState(d, "clearSticky", CLEARED_STICKY, "unlock")
  \/ SetState(d, "clearOne", CLEARED_ONESHOT, "out")
  \/ LockSet(d) \/ LockClear(d) \/ Unlock(d)
  \/ Wake(d, "wakeOne", 1, "out") \/ Wake(d, "wakeAll", -1, "unlock")
  \/ Wake(d, "pulseOne", 1, "out") \/ Wake(d, "pulseAll", -1, "out")

Next ==
  \/ \E w \in Waiters :
       StartWait(w) \/ StartTryWait(w) \/ WaiterProceeds(w) \/ Expire(w)
  \/ \E d \in Drivers : Start(d) \/ DriverProceeds(d)

\* The kernel runs every runnable thread; a wait need not time out and nobody
\* has to signal.
Fairness ==
  /\ \A w \in Waiters : WF_vars(WaiterProceeds(w))
  /\ \A d \in Drivers : WF_vars(DriverProceeds(d))

Spec == Init /\ [][Next]_vars /\ Fairness

-----------------------------------------------------------------------------

\* A wait succeeds only if the event was set, or pulsed, while it lasted: the
\* SIGNAL of an earlier LightEvent_Signal never lets a later wait pass.
PassedOnlyIfSeen == \A w \in Waiters : pc[w] = "passed" => seen[w]

\* One signal of a one-shot event lets at most one wait pass.
OneShotPassesOne == credit >= 0

\* Nobody sleeps while the event is set, unless a SIGNAL that wakes them is on
\* its way or, for a one-shot event, another waiter is about to consume it.
NoLostWakeup ==
  Asleep # {} /\ state >= 0 =>
    \/ \E d \in Drivers : pc[d] \in {"wakeOne", "wakeAll"}
    \/ /\ type = "oneshot"
       /\ \E w \in Waiters : pc[w] \notin {"out", "asleepOnce", "asleepLoop", "passed"}

\* An event does not stay set for ever next to a thread that sleeps on it.
SetEventsWake == []<>(state < 0 \/ Asleep = {})
=============================================================================
