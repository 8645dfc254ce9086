-------------------------------- MODULE MCGpu --------------------------------
(***************************************************************************)
(* A GX command queue, the buffer shared with GSP that it submits to and   *)
(* the interrupts that come back, for TLC.  Each is checked in the others' *)
(* absence: the queue takes GSP as executing what it is given in order,    *)
(* once, which is what the buffer is shown to do, and its interrupts as    *)
(* arriving, which is what the events are shown to do; the buffer takes    *)
(* its producers as holding a lock, as they do in the queue.  level says   *)
(* which of them moves.                                                    *)
(*                                                                         *)
(* MAX_PARALLEL_CMDS is 3 in the code; 2 keeps the same cases with fewer   *)
(* commands: a batch that is cut short, one that is refilled from an       *)
(* interrupt, and a queue longer than one batch.  Three slots stand for    *)
(* fifteen, and MaxCommands is more than twice round the ring.  The ring   *)
(* of interrupts has two slots for 52, and goes round once and a half.     *)
(***************************************************************************)
EXTENDS GxQueue

CONSTANTS Producers, Slots, MaxCommands,        \* GspCommandBuffer
          EventIds, RingSlots, MaxInterrupts    \* GspEvents

VARIABLES level, index, total, slot, bufOwner, bufPc, header, exclusive,
          active, accepted, bufExecuted,
          ring, reserved, signalled, gspRunEvents, thread, gspEvents,
          gspLastEvent, waiter, anyone, queued, raised

bufVars == <<index, total, slot, bufOwner, bufPc, header, exclusive, active,
             accepted, bufExecuted>>

Buffer == INSTANCE GspCommandBuffer
  WITH owner <- bufOwner, pc <- bufPc, executed <- bufExecuted

Events == INSTANCE GspEvents

eventVars == <<ring, reserved, signalled, gspRunEvents, thread, gspEvents,
               gspLastEvent, waiter, anyone, queued, raised>>

ASSUME QueueAssumption == GxQueueAssumption
ASSUME BufferAssumption == Buffer!GspCommandBufferAssumption

ASSUME EventsAssumption == Events!GspEventsAssumption

GpuInit ==
  /\ level \in {"queue", "buffer", "events"}
  /\ Init /\ Buffer!Init /\ Events!Init

GpuNext ==
  \/ level = "queue" /\ Next /\ UNCHANGED <<level, bufVars, eventVars>>
  \/ level = "buffer" /\ Buffer!Next /\ UNCHANGED <<level, vars, eventVars>>
  \/ level = "events" /\ Events!Next /\ UNCHANGED <<level, vars, bufVars>>

\* Events!Fairness where the events move: their thread would run at once.
EventsFairness ==
  /\ WF_eventVars(level = "events" /\ Events!EventThread)
  /\ WF_eventVars(level = "events" /\ Events!WaiterProceeds)
  /\ WF_eventVars(level = "events" /\ Events!AnyoneProceeds)

GpuSpec ==
  /\ GpuInit /\ [][GpuNext]_<<level, vars, bufVars, eventVars>>
  /\ Fairness /\ Buffer!Fairness /\ EventsFairness

\* All levels have their types.
GpuTypeOK == TypeOK /\ Buffer!TypeOK /\ Events!TypeOK

\* GSP executes what was submitted in the order of submission, each command
\* once (GspCommandBuffer.ExecutedOnceInOrder).
ExecutedOnceInOrder == Buffer!ExecutedOnceInOrder

\* Every command the buffer accepted is executed in the end
\* (GspCommandBuffer.EveryCommandExecuted).
EveryCommandExecuted == Buffer!EveryCommandExecuted

\* No interrupt is lost or passed on twice by the event thread
\* (GspEvents.InterruptsInOrder).
InterruptsInOrder == Events!InterruptsInOrder

\* Interrupts wake the threads that wait for them, and gspExit can join the
\* event thread (GspEvents.EventsArrive).
EventsArrive == Events!EventsArrive
=============================================================================
