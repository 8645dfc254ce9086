------------------------------- MODULE GxQueue -------------------------------
(***************************************************************************)
(* GX command queues (source/gpu/gxqueue.c): commands are collected in a   *)
(* queue and handed to GSP a few at a time, more of them from the event    *)
(* thread as GSP reports commands as completed.                            *)
(*                                                                         *)
(* queueLock (an abstract mutex) covers the counters of the queue, but     *)
(* curQueue, isActive and isRunning are also read and written without it.  *)
(*                                                                         *)
(* GSP is external: it executes the commands it was given in order and     *)
(* raises one interrupt for each.  The interrupts gxCmdQueueInterrupt is   *)
(* not interested in (VBlank, PSC1) change nothing and are left out; that  *)
(* VBlank keeps coming is why gxCmdQueueWait looks at isRunning again and  *)
(* again, and needs no wakeup.                                             *)
(***************************************************************************)
EXTENDS Integers, Sequences

CONSTANTS
  MAX_PARALLEL_CMDS,
  MaxEntries,          \* maxEntries of the queue
  RunAfterStop,        \* is a queue run again after it was stopped early?
  ClearAndReuse        \* is the queue cleared and filled again?

GxQueueAssumption ==
  /\ MAX_PARALLEL_CMDS \in Nat \ {0}
  /\ MaxEntries \in Nat
  /\ {RunAfterStop, ClearAndReuse} \subseteq BOOLEAN

\* The thread that calls the functions below, and the one that calls
\* gxCmdQueueInterrupt; nobody.
Client == "client"
Event  == "event"
Nobody == "nobody"

VARIABLES
  numEntries, curEntry, lastEntry,    \* the fields of the queue
  bound,        \* is curQueue the queue?  It is NULL otherwise
  isActive, isRunning, shouldStop,
  owner,        \* the owner of queueLock
  batch,        \* thread -> commands gxCmdQueueDoCommands may still submit
  pc,           \* thread -> the place it is at, by the names below
  waited,       \* did gxCmdQueueWait return with nothing called since?
  stopped,      \* history: was the queue stopped while it ran?
  fifo,         \* GSP: the indices of the commands it holds
  irqs,         \* GSP: completed commands not yet reported to the event thread
  executed      \* history: commands executed since the queue was last cleared

vars == <<numEntries, curEntry, lastEntry, bound, isActive, isRunning,
          shouldStop, owner, batch, pc, waited, stopped, fifo, irqs,
          executed>>

fields == <<numEntries, curEntry, lastEntry>>
flags  == <<bound, isActive, isRunning, shouldStop>>
client == <<waited, stopped>>
gsp    == <<fifo, irqs, executed>>

Threads == {Client, Event}
Places  == {"idle", "addLock", "runCheck", "runLock", "stopLock", "wait",
            "intLock", "submit", "unlock", "callback", "panic"}

Init ==
  /\ numEntries = 0 /\ curEntry = 0 /\ lastEntry = 0
  /\ bound = FALSE /\ isActive = FALSE /\ isRunning = FALSE /\ shouldStop = FALSE
  /\ owner = Nobody
  /\ batch = [t \in Threads |-> 0]
  /\ pc = [t \in Threads |-> "idle"]
  /\ waited = FALSE
  /\ stopped = FALSE
  /\ fifo = <<>> /\ irqs = 0 /\ executed = 0

Goto(t, place) == pc' = [pc EXCEPT ![t] = place]

TakeLock(t) == owner = Nobody /\ owner' = t

-----------------------------------------------------------------------------
(***************************************************************************)
(* Slips the code avoids, each for the definition named with it.           *)
(***************************************************************************)

\* For BatchSize: one command more than may be in flight.
BatchSizeOneMore(last) ==
  IF shouldStop THEN 0 ELSE last + MAX_PARALLEL_CMDS + 1 - curEntry

\* gxCmdQueueDoCommands begins: how many commands it may submit, none if the
\* queue is being stopped.
BatchSize(last) ==
  IF shouldStop THEN 0 ELSE last + MAX_PARALLEL_CMDS - curEntry

DoCommands(t, last) ==
  /\ batch' = [batch EXCEPT ![t] = BatchSize(last)]
  /\ Goto(t, "submit")

\* For AddLocked: a command added to an idle active queue waits for the next
\* interrupt.
AddLockedNoKick ==
  /\ pc[Client] = "addLock"
  /\ TakeLock(Client)
  /\ numEntries' = numEntries + 1
  /\ Goto(Client, "unlock")
  /\ UNCHANGED <<curEntry, lastEntry, flags, batch, client, gsp>>

\* For StopLocked: the queue is unbound even while it runs.
StopLockedAlways ==
  /\ pc[Client] = "stopLock"
  /\ TakeLock(Client)
  /\ bound' = FALSE /\ isActive' = FALSE /\ UNCHANGED shouldStop
  /\ Goto(Client, "unlock")
  /\ UNCHANGED <<fields, isRunning, batch, client, gsp>>

\* For InterruptLocked: the queue is finished one command early.
InterruptLockedEarly ==
  /\ pc[Event] = "intLock"
  /\ TakeLock(Event)
  /\ lastEntry' = lastEntry + 1
  /\ IF shouldStop THEN
       /\ bound' = FALSE /\ isActive' = FALSE
       /\ isRunning' = FALSE /\ shouldStop' = FALSE
       /\ Goto(Event, "unlock")
       /\ UNCHANGED batch
     ELSE IF lastEntry' + 1 < numEntries THEN
       DoCommands(Event, lastEntry') /\ UNCHANGED flags
     ELSE
       /\ isRunning' = FALSE
       /\ Goto(Event, "callback")
       /\ UNCHANGED <<bound, isActive, shouldStop, batch>>
  /\ UNCHANGED <<numEntries, curEntry, client, gsp>>

\* For InterruptLocked: no more commands are submitted as others complete.
InterruptLockedNoRefill ==
  /\ pc[Event] = "intLock"
  /\ TakeLock(Event)
  /\ lastEntry' = lastEntry + 1
  /\ isRunning' = (lastEntry' < numEntries)
  /\ Goto(Event, "unlock")
  /\ UNCHANGED <<numEntries, curEntry, bound, isActive, shouldStop, batch,
                 client, gsp>>

-----------------------------------------------------------------------------
\* gxCmdQueueDoCommands, under queueLock, one command per step.

Submit(t) ==
  /\ pc[t] = "submit"
  /\ curEntry < numEntries
  /\ batch[t] # 0
  /\ batch' = [batch EXCEPT ![t] = @ - 1]
  /\ curEntry' = curEntry + 1
  /\ fifo' = Append(fifo, curEntry + 1)
  /\ UNCHANGED <<numEntries, lastEntry, flags, owner, pc, client, irqs, executed>>

SubmitDone(t) ==
  /\ pc[t] = "submit"
  /\ curEntry >= numEntries \/ batch[t] = 0
  /\ batch' = [batch EXCEPT ![t] = 0]
  /\ Goto(t, "unlock")
  /\ UNCHANGED <<fields, flags, owner, client, gsp>>

Unlock(t) ==
  /\ pc[t] = "unlock"
  /\ owner' = Nobody
  /\ Goto(t, "idle")
  /\ UNCHANGED <<fields, flags, batch, client, gsp>>

-----------------------------------------------------------------------------
\* The client.

\* gxCmdQueueAdd; its caller respects the capacity, or it would panic.
Add ==
  /\ pc[Client] = "idle"
  /\ numEntries # MaxEntries
  /\ waited' = FALSE
  /\ Goto(Client, "addLock")
  /\ UNCHANGED <<stopped, fields, flags, owner, batch, gsp>>

AddLocked ==
  /\ pc[Client] = "addLock"
  /\ TakeLock(Client)
  /\ numEntries' = numEntries + 1
  /\ IF bound /\ isActive /\ ~isRunning
     THEN isRunning' = TRUE /\ DoCommands(Client, lastEntry)
     ELSE Goto(Client, "unlock") /\ UNCHANGED <<isRunning, batch>>
  /\ UNCHANGED <<curEntry, lastEntry, bound, isActive, shouldStop, client, gsp>>

\* gxCmdQueueRun does nothing while a queue runs ...
Run ==
  /\ pc[Client] = "idle"
  /\ ~isRunning
  /\ RunAfterStop \/ ~stopped
  /\ bound' = TRUE
  /\ isActive' = TRUE
  /\ waited' = FALSE
  /\ Goto(Client, "runCheck")
  /\ UNCHANGED <<stopped, fields, isRunning, shouldStop, owner, batch, gsp>>

\* ... and sets isRunning before it takes the lock.
RunCheck ==
  /\ pc[Client] = "runCheck"
  /\ isRunning' = (lastEntry < numEntries)
  /\ Goto(Client, IF isRunning' THEN "runLock" ELSE "idle")
  /\ UNCHANGED <<fields, bound, isActive, shouldStop, owner, batch, client, gsp>>

RunLocked ==
  /\ pc[Client] = "runLock"
  /\ TakeLock(Client)
  /\ DoCommands(Client, lastEntry)
  /\ UNCHANGED <<fields, flags, client, gsp>>

\* gxCmdQueueStop does nothing without a current queue.
Stop ==
  /\ pc[Client] = "idle"
  /\ bound
  /\ Goto(Client, "stopLock")
  /\ UNCHANGED <<fields, flags, owner, batch, client, gsp>>

StopLocked ==
  /\ pc[Client] = "stopLock"
  /\ TakeLock(Client)
  /\ IF ~isRunning
     THEN bound' = FALSE /\ isActive' = FALSE /\ UNCHANGED <<shouldStop, stopped>>
     ELSE shouldStop' = TRUE /\ stopped' = TRUE /\ UNCHANGED <<bound, isActive>>
  /\ Goto(Client, "unlock")
  /\ UNCHANGED <<fields, isRunning, batch, waited, gsp>>

\* gxCmdQueueWait; it may also give up at its timeout, which changes nothing.
Wait ==
  /\ pc[Client] = "idle"
  /\ Goto(Client, "wait")
  /\ UNCHANGED <<fields, flags, owner, batch, client, gsp>>

WaitReturns ==
  /\ pc[Client] = "wait"
  /\ ~isRunning
  /\ waited' = TRUE
  /\ Goto(Client, "idle")
  /\ UNCHANGED <<stopped, fields, flags, owner, batch, gsp>>

\* VBlank keeps coming: gspWaitForAnyEvent returns, and the queue still runs.
WaitAgain ==
  /\ pc[Client] = "wait"
  /\ isRunning
  /\ UNCHANGED vars

\* gxCmdQueueClear, called on a queue that has been waited for.
Clear ==
  /\ pc[Client] = "idle"
  /\ ClearAndReuse /\ waited /\ numEntries > 0
  /\ IF bound /\ isRunning
     THEN Goto(Client, "panic") /\ UNCHANGED <<fields, executed>>
     ELSE /\ numEntries' = 0 /\ curEntry' = 0 /\ lastEntry' = 0
          /\ executed' = 0
          /\ UNCHANGED pc
  /\ UNCHANGED <<flags, owner, batch, client, fifo, irqs>>

-----------------------------------------------------------------------------
\* The event thread, and GSP.

\* gxCmdQueueInterrupt looks at isRunning before it takes the lock.
Interrupt ==
  /\ pc[Event] = "idle"
  /\ irqs > 0
  /\ irqs' = irqs - 1
  /\ IF isRunning THEN Goto(Event, "intLock") ELSE UNCHANGED pc
  /\ UNCHANGED <<fields, flags, owner, batch, client, fifo, executed>>

InterruptLocked ==
  /\ pc[Event] = "intLock"
  /\ TakeLock(Event)
  /\ lastEntry' = lastEntry + 1
  /\ IF shouldStop THEN
       /\ bound' = FALSE /\ isActive' = FALSE
       /\ isRunning' = FALSE /\ shouldStop' = FALSE
       /\ Goto(Event, "unlock")
       /\ UNCHANGED batch
     ELSE IF lastEntry' < numEntries THEN
       DoCommands(Event, lastEntry') /\ UNCHANGED flags
     ELSE
       /\ isRunning' = FALSE
       /\ Goto(Event, "callback")
       /\ UNCHANGED <<bound, isActive, shouldStop, batch>>
  /\ UNCHANGED <<numEntries, curEntry, client, gsp>>

\* The lock is released before the user's callback runs; the callback is taken
\* not to use the queue.
Callback ==
  /\ pc[Event] = "callback"
  /\ owner' = Nobody
  /\ Goto(Event, "idle")
  /\ UNCHANGED <<fields, flags, batch, client, gsp>>

Execute ==
  /\ fifo # <<>>
  /\ fifo' = Tail(fifo)
  /\ irqs' = irqs + 1
  /\ executed' = executed + 1
  /\ UNCHANGED <<fields, flags, owner, batch, pc, client>>

-----------------------------------------------------------------------------

Proceeds(t) == Submit(t) \/ SubmitDone(t) \/ Unlock(t)
ClientProceeds ==
  AddLocked \/ RunCheck \/ RunLocked \/ StopLocked \/ WaitReturns \/ Proceeds(Client)
EventProceeds == Interrupt \/ InterruptLocked \/ Callback \/ Proceeds(Event)

Next ==
  \/ Add \/ Run \/ Stop \/ Wait \/ WaitAgain \/ Clear
  \/ ClientProceeds \/ EventProceeds \/ Execute

\* GSP executes what it is given; both threads run; with the lock free in
\* between infinitely often, neither is kept from it for ever.
Fairness ==
  /\ WF_vars(Execute)
  /\ SF_vars(ClientProceeds)
  /\ SF_vars(EventProceeds)

Spec == Init /\ [][Next]_vars /\ Fairness

-----------------------------------------------------------------------------

\* Every variable has its type, and the fields of the queue are in order.
TypeOK ==
  /\ numEntries \in 0 .. MaxEntries
  /\ curEntry \in 0 .. numEntries
  /\ lastEntry \in 0 .. curEntry
  /\ {bound, isActive, isRunning, shouldStop, waited} \subseteq BOOLEAN
  /\ owner \in Threads \cup {Nobody}
  /\ batch \in [Threads -> 0 .. MAX_PARALLEL_CMDS]
  /\ pc \in [Threads -> Places]
  /\ fifo \in Seq(1 .. MaxEntries)
  /\ irqs \in Nat
  /\ executed \in 0 .. MaxEntries

\* GSP never holds more commands than MAX_PARALLEL_CMDS, however additions,
\* runs and interrupts alternate; its own buffer would overflow otherwise.
InFlightBound == Len(fifo) <= MAX_PARALLEL_CMDS

\* The event thread, in gxCmdQueueInterrupt, never finds curQueue NULL: nobody
\* unbinds the queue between its look at isRunning and its use of curQueue.
CurQueueValid == pc[Event] = "intLock" => bound

\* When gxCmdQueueWait has returned on a queue that was run and not stopped
\* early, all its commands have been executed and reported.
WaitMeansDone ==
  waited /\ isActive => executed = numEntries /\ fifo = <<>> /\ irqs = 0

\* A command added to an active queue is not left lying when both threads are
\* done with it: the queue runs, or everything in it is complete.
NothingLeftBehind ==
  bound /\ isActive /\ (\A t \in Threads : pc[t] = "idle") /\ owner = Nobody =>
    isRunning \/ lastEntry = numEntries

\* A client that waits for the queue gets to the end of it.
WaitTerminates == pc[Client] = "wait" ~> pc[Client] = "idle"
=============================================================================
