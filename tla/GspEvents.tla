------------------------------- MODULE GspEvents -------------------------------
(***************************************************************************)
(* GSP's interrupts on their way to a program (source/services/gspgpu.c):  *)
(* GSP puts them in a ring of the shared memory and signals gspEvent; the  *)
(* event thread takes them off with an exclusive load and store, and       *)
(* passes each on, as a sticky LightEvent and as the last event, to the    *)
(* threads in gspWaitForEvent and gspWaitForAnyEvent.                      *)
(*                                                                         *)
(* GSP is external: it queues an interrupt when there is room and drops it *)
(* when there is none.  One thread stops the event thread in the end; until *)
(* then it waits for single events, or another thread waits for any: the   *)
(* two ways of waiting share nothing.  Callbacks are not here.             *)
(***************************************************************************)
EXTENDS Integers, Sequences

CONSTANTS
  EventIds,        \* GSPGPU_Event
  RingSlots,       \* slots of the interrupt ring, 0x34 in the code
  MaxInterrupts    \* bound: interrupts queued in a behaviour

GspEventsAssumption ==
  /\ EventIds \subseteq Nat
  /\ RingSlots \in Nat \ {0}
  /\ MaxInterrupts \in Nat

VARIABLES
  ring,        \* the interrupt ring: its slots, and the header's cur and count
  reserved,    \* is the exclusive load of the event thread still good?
  signalled,   \* gspEvent, a kernel event that resets itself
  gspRunEvents,
  thread,      \* the event thread: where it is, curEvt and the header to store
  gspEvents,   \* the events that are set
  gspLastEvent,
  waiter,      \* the thread in gspWaitForEvent or gspExit: where, id, nextEvent
  anyone,      \* the thread in gspWaitForAnyEvent: where it is, or "absent"
  queued,      \* history: the interrupts queued and not yet taken off
  raised       \* history: interrupts queued so far

vars == <<ring, reserved, signalled, gspRunEvents, thread, gspEvents,
          gspLastEvent, waiter, anyone, queued, raised>>

NoEvent == -1
RingIndices == 0 .. RingSlots - 1

\* The header is cleared and the event thread created by gspInit.
Init ==
  /\ ring = [slot |-> [i \in RingIndices |-> NoEvent], cur |-> 0, count |-> 0]
  /\ reserved = FALSE
  /\ signalled = FALSE
  /\ gspRunEvents = TRUE
  /\ thread = [at |-> "loops", curEvt |-> NoEvent, header |-> [cur |-> 0, count |-> 0]]
  /\ gspEvents = {}
  /\ gspLastEvent = NoEvent
  /\ waiter = [at |-> "idle", id |-> NoEvent, nextEvent |-> FALSE]
  /\ anyone \in {"absent", "idle"}
  /\ queued = <<>>
  /\ raised = 0

InRing(r) == [i \in 1 .. r.count |-> r.slot[(r.cur + i - 1) % RingSlots]]

ThreadGoes(from, to) == thread.at = from /\ thread' = [thread EXCEPT !.at = to]
WaiterGoes(from, to) == waiter.at = from /\ waiter' = [waiter EXCEPT !.at = to]

\* The interrupt that was loaded is off the ring.
StoreHeader ==
  /\ ring' = [ring EXCEPT !.cur = thread.header.cur, !.count = thread.header.count]
  /\ queued' = Tail(queued)

-----------------------------------------------------------------------------
(***************************************************************************)
(* Slips the code avoids, each for the definition named with it.           *)
(***************************************************************************)

\* For PopStore: the header is written back as if GSP did not write to it.
PopStoreUnchecked ==
  /\ ThreadGoes("stores", "signals")
  /\ StoreHeader
  /\ reserved' = FALSE
  /\ UNCHANGED <<signalled, gspRunEvents, gspEvents, gspLastEvent, waiter, anyone, raised>>

\* For Arbitrate: one interrupt is taken off for each time gspEvent is signalled.
ArbitrateThenWait ==
  /\ ThreadGoes("arbitrates", "loops")
  /\ anyone' = IF anyone = "asleep" THEN "loads" ELSE anyone
  /\ UNCHANGED <<ring, reserved, signalled, gspRunEvents, gspEvents, gspLastEvent,
                 waiter, queued, raised>>

-----------------------------------------------------------------------------
(***************************************************************************)
(* GSP                                                                     *)
(***************************************************************************)

Interrupt(e) ==
  /\ gspRunEvents /\ raised < MaxInterrupts
  /\ ring.count < RingSlots
  /\ ring' = [ring EXCEPT !.slot[(ring.cur + ring.count) % RingSlots] = e, !.count = @ + 1]
  /\ reserved' = FALSE
  /\ signalled' = TRUE
  /\ queued' = Append(queued, e)
  /\ raised' = raised + 1
  /\ UNCHANGED <<gspRunEvents, thread, gspEvents, gspLastEvent, waiter, anyone>>

-----------------------------------------------------------------------------
(***************************************************************************)
(* The event thread: gspEventThreadMain and popInterrupt                   *)
(***************************************************************************)

Loop ==
  /\ ThreadGoes("loops", IF gspRunEvents THEN "waits" ELSE "ended")
  /\ UNCHANGED <<ring, reserved, signalled, gspRunEvents, gspEvents, gspLastEvent,
                 waiter, anyone, queued, raised>>

WaitSignal ==
  /\ signalled
  /\ signalled' = FALSE
  /\ ThreadGoes("waits", "clears")
  /\ UNCHANGED <<ring, reserved, gspRunEvents, gspEvents, gspLastEvent, waiter,
                 anyone, queued, raised>>

ClearSignal ==
  /\ ThreadGoes("clears", "checks")
  /\ signalled' = FALSE
  /\ UNCHANGED <<ring, reserved, gspRunEvents, gspEvents, gspLastEvent, waiter,
                 anyone, queued, raised>>

CheckRun ==
  /\ ThreadGoes("checks", IF gspRunEvents THEN "pops" ELSE "ended")
  /\ UNCHANGED <<ring, reserved, signalled, gspRunEvents, gspEvents, gspLastEvent,
                 waiter, anyone, queued, raised>>

\* The header is loaded; with an interrupt in the ring its slot is read and the
\* new header worked out, else the thread waits again.
PopLoad ==
  /\ thread.at = "pops"
  /\ IF ring.count = 0
     THEN ThreadGoes("pops", "loops") /\ UNCHANGED reserved
     ELSE /\ thread' = [at |-> "stores", curEvt |-> ring.slot[ring.cur],
                        header |-> [cur |-> (ring.cur + 1) % RingSlots,
                                    count |-> ring.count - 1]]
          /\ reserved' = TRUE
  /\ UNCHANGED <<ring, signalled, gspRunEvents, gspEvents, gspLastEvent, waiter,
                 anyone, queued, raised>>

\* The header is stored, unless GSP has changed it in between.
PopStore ==
  /\ ThreadGoes("stores", IF reserved THEN "signals" ELSE "pops")
  /\ IF reserved THEN StoreHeader ELSE UNCHANGED <<ring, queued>>
  /\ reserved' = FALSE
  /\ UNCHANGED <<signalled, gspRunEvents, gspEvents, gspLastEvent, waiter, anyone, raised>>

SignalEvent ==
  /\ ThreadGoes("signals", "stamps")
  /\ gspEvents' = gspEvents \cup {thread.curEvt}
  /\ UNCHANGED <<ring, reserved, signalled, gspRunEvents, gspLastEvent, waiter,
                 anyone, queued, raised>>

Stamp ==
  /\ ThreadGoes("stamps", "arbitrates")
  /\ gspLastEvent' = thread.curEvt
  /\ UNCHANGED <<ring, reserved, signalled, gspRunEvents, gspEvents, waiter,
                 anyone, queued, raised>>

Arbitrate ==
  /\ ThreadGoes("arbitrates", "pops")
  /\ anyone' = IF anyone = "asleep" THEN "loads" ELSE anyone
  /\ UNCHANGED <<ring, reserved, signalled, gspRunEvents, gspEvents, gspLastEvent,
                 waiter, queued, raised>>

EventThread == Loop \/ WaitSignal \/ ClearSignal \/ CheckRun \/ PopLoad \/ PopStore
               \/ SignalEvent \/ Stamp \/ Arbitrate

-----------------------------------------------------------------------------
(***************************************************************************)
(* gspWaitForEvent, gspExit                                                *)
(***************************************************************************)

\* With nextEvent the event is cleared before, and without it after the wait.
WaitForEvent(e, nextEvent) ==
  /\ waiter.at = "idle" /\ anyone = "absent"
  /\ waiter' = [at |-> "waits", id |-> e, nextEvent |-> nextEvent]
  /\ gspEvents' = IF nextEvent THEN gspEvents \ {e} ELSE gspEvents
  /\ UNCHANGED <<ring, reserved, signalled, gspRunEvents, thread, gspLastEvent,
                 anyone, queued, raised>>

EventPasses ==
  /\ waiter.id \in gspEvents
  /\ WaiterGoes("waits", IF waiter.nextEvent THEN "idle" ELSE "clears")
  /\ UNCHANGED <<ring, reserved, signalled, gspRunEvents, thread, gspEvents,
                 gspLastEvent, anyone, queued, raised>>

ClearEvent ==
  /\ WaiterGoes("clears", "idle")
  /\ gspEvents' = gspEvents \ {waiter.id}
  /\ UNCHANGED <<ring, reserved, signalled, gspRunEvents, thread, gspLastEvent,
                 anyone, queued, raised>>

StopRun ==
  /\ WaiterGoes("idle", "stops")
  /\ gspRunEvents' = FALSE
  /\ UNCHANGED <<ring, reserved, signalled, thread, gspEvents, gspLastEvent,
                 anyone, queued, raised>>

SignalExit ==
  /\ WaiterGoes("stops", "joins")
  /\ signalled' = TRUE
  /\ UNCHANGED <<ring, reserved, gspRunEvents, thread, gspEvents, gspLastEvent,
                 anyone, queued, raised>>

Join ==
  /\ thread.at = "ended"
  /\ WaiterGoes("joins", "closed")
  /\ UNCHANGED <<ring, reserved, signalled, gspRunEvents, thread, gspEvents,
                 gspLastEvent, anyone, queued, raised>>

WaiterProceeds == EventPasses \/ ClearEvent \/ SignalExit \/ Join

-----------------------------------------------------------------------------
(***************************************************************************)
(* gspWaitForAnyEvent                                                      *)
(***************************************************************************)

WaitForAnyEvent ==
  /\ anyone = "idle"
  /\ anyone' = "loads"
  /\ UNCHANGED <<ring, reserved, signalled, gspRunEvents, thread, gspEvents,
                 gspLastEvent, waiter, queued, raised>>

\* The last event is taken; without one the thread goes to sleep ...
TakeLast ==
  /\ anyone = "loads"
  /\ anyone' = IF gspLastEvent = NoEvent THEN "sleeps" ELSE "idle"
  /\ gspLastEvent' = NoEvent
  /\ UNCHANGED <<ring, reserved, signalled, gspRunEvents, thread, gspEvents,
                 waiter, queued, raised>>

\* ... if there is still none by then.
SleepForLast ==
  /\ anyone = "sleeps"
  /\ anyone' = IF gspLastEvent < 0 THEN "asleep" ELSE "loads"
  /\ UNCHANGED <<ring, reserved, signalled, gspRunEvents, thread, gspEvents,
                 gspLastEvent, waiter, queued, raised>>

AnyoneProceeds == TakeLast \/ SleepForLast

-----------------------------------------------------------------------------

Next ==
  \/ EventThread \/ WaiterProceeds \/ StopRun \/ AnyoneProceeds \/ WaitForAnyEvent
  \/ \E e \in EventIds :
       \/ Interrupt(e)
       \/ \E nextEvent \in BOOLEAN : WaitForEvent(e, nextEvent)

\* The threads run; nobody has to call anything, and no interrupt has to come.
Fairness == WF_vars(EventThread) /\ WF_vars(WaiterProceeds) /\ WF_vars(AnyoneProceeds)

Spec == Init /\ [][Next]_vars /\ Fairness

-----------------------------------------------------------------------------

\* Every variable has its type.
TypeOK ==
  /\ ring.cur \in RingIndices /\ ring.count \in 0 .. RingSlots
  /\ ring.slot \in [RingIndices -> EventIds \cup {NoEvent}]
  /\ {reserved, signalled, gspRunEvents} \subseteq BOOLEAN
  /\ thread.at \in {"loops", "waits", "clears", "checks", "pops", "stores",
                    "signals", "stamps", "arbitrates", "ended"}
  /\ gspEvents \subseteq EventIds
  /\ gspLastEvent \in EventIds \cup {NoEvent}
  /\ waiter.at \in {"idle", "waits", "clears", "stops", "joins", "closed"}
  /\ anyone \in {"absent", "idle", "loads", "sleeps", "asleep"}
  /\ raised \in 0 .. MaxInterrupts

\* The ring holds the interrupts that were queued and not taken off, in their
\* order, and what the event thread is about to take off is the first of them
\* as long as its store would succeed: no interrupt is lost or passed on twice
\* by a pop that GSP comes between.
InterruptsInOrder ==
  /\ InRing(ring) = queued
  /\ thread.at = "stores" /\ reserved => thread.curEvt = Head(queued)

\* An interrupt that is queued while a thread waits for it wakes the thread; any
\* interrupt that is queued while a thread waits for any wakes that one; and
\* the event thread, whatever it is at, lets gspExit join it.
EventsArrive ==
  /\ \A e \in EventIds :
       waiter.at = "waits" /\ waiter.id = e /\ (\E i \in DOMAIN queued : queued[i] = e)
         ~> waiter.at # "waits"
  /\ anyone \in {"loads", "sleeps", "asleep"} /\ queued # <<>> ~> anyone = "idle" \/ ~gspRunEvents
  /\ waiter.at = "joins" ~> waiter.at = "closed"
=============================================================================
