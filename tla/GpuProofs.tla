------------------------------- MODULE GpuProofs -------------------------------
(***************************************************************************)
(* The safety of a GX command queue, for every batch size and every number *)
(* of entries, and of the two rings that a program shares with GSP, the    *)
(* buffer of commands and the ring of interrupts, for any number of slots, *)
(* producers and events.                                                   *)
(***************************************************************************)
EXTENDS MCGpu, TLAPS

-------------------------------------------------------------------------------
(***************************************************************************)
(* GX command queues: curQueue however a queue is used, the rest where a   *)
(* queue that was stopped early is not run again.                          *)
(*                                                                         *)
(* What carries it: until a queue is stopped early, the commands submitted *)
(* and not reported are curEntry - lastEntry exactly, none of them is lost *)
(* in an interrupt that nobody looks at, and only the owner of the lock    *)
(* submits more.                                                           *)
(***************************************************************************)

(* the types the proof needs                                                *)
Types ==
  /\ numEntries \in Nat /\ curEntry \in Nat /\ lastEntry \in Nat
  /\ curEntry <= numEntries
  /\ bound \in BOOLEAN /\ isActive \in BOOLEAN /\ isRunning \in BOOLEAN
  /\ shouldStop \in BOOLEAN /\ waited \in BOOLEAN /\ stopped \in BOOLEAN
  /\ owner \in Threads \cup {Nobody}
  /\ batch \in [Threads -> Nat]
  /\ pc \in [Threads -> Places]
  /\ fifo \in Seq(Nat)
  /\ irqs \in Nat
  /\ executed \in Nat

(* curQueue is set while the queue runs, and the queue runs while the event *)
(* thread is on its way to use it                                           *)
Bound ==
  /\ isRunning => bound
  /\ isActive => bound
  /\ shouldStop => isRunning
  /\ pc[Event] \in {"intLock", "submit"} => isRunning
  /\ pc[Client] = "runCheck" => bound /\ isActive /\ ~isRunning
  /\ waited => ~isRunning /\ pc[Client] \notin {"addLock", "runCheck", "runLock", "submit"}

(* the lock is held where commands are submitted, and nowhere else is a     *)
(* batch begun                                                              *)
Locking ==
  \A t \in Threads :
    /\ pc[t] \in {"submit", "unlock", "callback"} => owner = t
    /\ batch[t] # 0 => pc[t] = "submit"
    /\ pc[t] = "submit" => isRunning

(* a queue that was stopped early submits nothing more                      *)
Stopping ==
  /\ shouldStop => stopped
  /\ stopped => /\ pc[Client] \notin {"runCheck", "runLock"}
                /\ \A t \in Threads : batch[t] = 0
                /\ shouldStop \/ (~isRunning /\ ~bound /\ ~isActive)

(* the commands submitted whose completion is not counted                   *)
InFlight == Len(fifo) + irqs + (IF pc[Event] = "intLock" THEN 1 ELSE 0)

(* until an early stop every one of those is on its way: held by GSP,       *)
(* raised, or with the event thread                                         *)
Accounted ==
  ~stopped =>
    /\ InFlight = curEntry - lastEntry
    /\ executed + Len(fifo) = curEntry
    /\ \A t \in Threads : curEntry - lastEntry + batch[t] <= MAX_PARALLEL_CMDS
    /\ ~isRunning => curEntry = lastEntry
    /\ pc[Client] = "runLock" => curEntry = lastEntry /\ isRunning /\ pc[Event] # "submit"

(* what an active queue holds is complete when it does not run              *)
Complete == isActive /\ ~isRunning /\ pc[Client] # "runCheck" => lastEntry = numEntries

IInv == Types /\ Bound /\ Locking /\ Stopping /\ Accounted /\ Complete /\ InFlightBound
-------------------------------------------------------------------------------
(***************************************************************************)
(* curQueue, which needs little of the invariant and holds also where a    *)
(* stopped queue is run again.                                             *)
(***************************************************************************)
CurQueueInv ==
  /\ pc \in [Threads -> Places]
  /\ isRunning => bound
  /\ pc[Event] = "intLock" => isRunning
  /\ pc[Client] = "runCheck" => bound /\ ~isRunning

(* Nobody unbinds a running queue, and the event thread, on its way to use  *)
(* curQueue, is the only one that ends its running.                         *)
LEMMA CurQueueStep == CurQueueInv /\ [Next]_vars => CurQueueInv'
<1> SUFFICES ASSUME CurQueueInv, [Next]_vars PROVE CurQueueInv'
  OBVIOUS
<1> USE DEF CurQueueInv, Threads, Places, Client, Event, Goto
<1>1. CASE Add
  BY <1>1 DEF Add, fields, flags, gsp
<1>2. CASE Run
  BY <1>2 DEF Run, fields, gsp
<1>3. CASE Stop
  BY <1>3 DEF Stop, flags
<1>4. CASE Wait
  BY <1>4 DEF Wait, flags
<1>5. CASE WaitAgain
  BY <1>5 DEF WaitAgain, vars
<1>6. CASE Clear
  BY <1>6 DEF Clear, flags
<1>7. CASE AddLocked
  BY <1>7 DEF AddLocked, DoCommands
<1>8. CASE RunCheck
  BY <1>8 DEF RunCheck
<1>9. CASE RunLocked
  BY <1>9 DEF RunLocked, DoCommands, flags
<1>10. CASE StopLocked
  BY <1>10 DEF StopLocked
<1>11. CASE WaitReturns
  BY <1>11 DEF WaitReturns, flags
<1>12. ASSUME NEW t \in Threads, Proceeds(t) PROVE CurQueueInv'
  BY <1>12 DEF Proceeds, Submit, SubmitDone, Unlock, flags
<1>13. CASE Interrupt
  BY <1>13 DEF Interrupt, flags
<1>14. CASE InterruptLocked
  BY <1>14 DEF InterruptLocked, DoCommands, flags
<1>15. CASE Callback
  BY <1>15 DEF Callback, flags
<1>16. CASE Execute
  BY <1>16 DEF Execute, flags
<1>17. CASE UNCHANGED vars
  BY <1>17 DEF vars
<1>. QED
  BY <1>1, <1>2, <1>3, <1>4, <1>5, <1>6, <1>7, <1>8, <1>9, <1>10, <1>11, <1>12,
     <1>13, <1>14, <1>15, <1>16, <1>17 DEF Next, ClientProceeds, EventProceeds

(* For every size of batch and queue, and however the queue is used, the    *)
(* event thread never finds curQueue NULL in gxCmdQueueInterrupt.           *)
THEOREM CurQueueIsThere == Spec => []CurQueueValid
<1>1. Init => CurQueueInv
  BY DEF Init, CurQueueInv, Threads, Places, Client, Event
<1>2. CurQueueInv => CurQueueValid
  BY DEF CurQueueInv, CurQueueValid
<1>. QED
  BY <1>1, <1>2, CurQueueStep, PTL DEF Spec
-------------------------------------------------------------------------------
(***************************************************************************)
(* The rest, for queues that are not run again after an early stop.        *)
(***************************************************************************)
(* A thread that goes somewhere is there, and the other where it was.       *)
LEMMA ClientGoes ==
  ASSUME pc \in [Threads -> Places], NEW place \in Places, Goto(Client, place)
  PROVE  pc' \in [Threads -> Places] /\ pc'[Client] = place /\ pc'[Event] = pc[Event]
  BY DEF Goto, Threads, Client, Event

(* The same for the event thread.                                           *)
LEMMA EventGoes ==
  ASSUME pc \in [Threads -> Places], NEW place \in Places, Goto(Event, place)
  PROVE  pc' \in [Threads -> Places] /\ pc'[Event] = place /\ pc'[Client] = pc[Client]
  BY DEF Goto, Threads, Client, Event

(* A thread that begins gxCmdQueueDoCommands may submit no more than there  *)
(* is room for in flight, and nothing when the queue is being stopped.      *)
LEMMA ClientBegins ==
  ASSUME GxQueueAssumption, batch \in [Threads -> Nat], pc \in [Threads -> Places],
         curEntry \in Nat, lastEntry \in Nat,
         shouldStop \/ curEntry - lastEntry <= MAX_PARALLEL_CMDS,
         DoCommands(Client, lastEntry)
  PROVE  /\ batch' \in [Threads -> Nat] /\ batch'[Event] = batch[Event]
         /\ batch'[Client] = IF shouldStop THEN 0 ELSE lastEntry + MAX_PARALLEL_CMDS - curEntry
         /\ pc' \in [Threads -> Places] /\ pc'[Client] = "submit" /\ pc'[Event] = pc[Event]
<1>1. BatchSize(lastEntry) \in Nat
  BY DEF BatchSize, GxQueueAssumption
<1>2. "submit" \in Places
  BY DEF Places
<1>3. pc' \in [Threads -> Places] /\ pc'[Client] = "submit" /\ pc'[Event] = pc[Event]
  BY <1>2, ClientGoes DEF DoCommands
<1>4. batch' = [batch EXCEPT ![Client] = BatchSize(lastEntry)]
  BY DEF DoCommands
<1>. QED
  BY <1>1, <1>3, <1>4 DEF BatchSize, Threads, Client, Event

(* The same for the event thread, which has counted a completion.           *)
LEMMA EventBegins ==
  ASSUME GxQueueAssumption, batch \in [Threads -> Nat], pc \in [Threads -> Places],
         curEntry \in Nat, lastEntry \in Nat,
         curEntry - (lastEntry + 1) <= MAX_PARALLEL_CMDS, ~shouldStop,
         DoCommands(Event, lastEntry + 1)
  PROVE  /\ batch' \in [Threads -> Nat] /\ batch'[Client] = batch[Client]
         /\ batch'[Event] = lastEntry + 1 + MAX_PARALLEL_CMDS - curEntry
         /\ pc' \in [Threads -> Places] /\ pc'[Event] = "submit" /\ pc'[Client] = pc[Client]
<1>1. BatchSize(lastEntry + 1) \in Nat
  BY DEF BatchSize, GxQueueAssumption
<1>2. "submit" \in Places
  BY DEF Places
<1>3. pc' \in [Threads -> Places] /\ pc'[Event] = "submit" /\ pc'[Client] = pc[Client]
  BY <1>2, EventGoes DEF DoCommands
<1>4. batch' = [batch EXCEPT ![Event] = BatchSize(lastEntry + 1)]
  BY DEF DoCommands
<1>. QED
  BY <1>1, <1>3, <1>4 DEF BatchSize, Threads, Client, Event

(* What a thread submits is taken off its batch.                            *)
LEMMA Takes ==
  ASSUME NEW t \in Threads, batch \in [Threads -> Nat], batch[t] \in Nat \ {0},
         \A u \in Threads \ {t} : batch[u] = 0,
         batch' = [batch EXCEPT ![t] = batch[t] - 1],
         NEW n \in Nat, NEW m \in Nat, NEW room \in Nat,
         \A u \in Threads : n - m + batch[u] <= room
  PROVE  /\ batch' \in [Threads -> Nat]
         /\ \A u \in Threads \ {t} : batch'[u] = 0
         /\ \A u \in Threads : n + 1 - m + batch'[u] <= room
<1>1. batch[t] - 1 \in Nat
  OBVIOUS
<1>2. batch' \in [Threads -> Nat] /\ batch'[t] = batch[t] - 1
      /\ \A u \in Threads \ {t} : batch'[u] = 0
  BY <1>1
<1>3. ASSUME NEW u \in Threads PROVE n + 1 - m + batch'[u] <= room
  <2>1. CASE u = t
    BY <1>2, <2>1
  <2>2. CASE u # t
    <3>1. batch'[u] = 0 /\ n - m + batch[t] <= room
      BY <1>2, <2>2
    <3>. QED
      BY <3>1
  <2>. QED
    BY <2>1, <2>2
<1>. QED
  BY <1>2, <1>3

(* What GSP does to its commands, and a submission.                         *)
LEMMA Fifo ==
  ASSUME fifo \in Seq(Nat)
  PROVE  /\ fifo # <<>> => Tail(fifo) \in Seq(Nat) /\ Len(Tail(fifo)) = Len(fifo) - 1
         /\ \A i \in Nat : Append(fifo, i) \in Seq(Nat) /\ Len(Append(fifo, i)) = Len(fifo) + 1
         /\ Len(fifo) \in Nat
         /\ fifo # <<>> => Len(fifo) > 0
  OBVIOUS

(* Every step keeps the invariant, if a queue stopped early is not run.     *)
LEMMA IStep ==
  ASSUME GxQueueAssumption, ~RunAfterStop, IInv, [Next]_vars
  PROVE  IInv'
<1> USE DEF IInv, Types, Bound, Locking, Stopping, Accounted, Complete, InFlightBound,
            InFlight, GxQueueAssumption, Threads, Client, Event, Nobody
<1> "idle" \in Places /\ "addLock" \in Places /\ "runCheck" \in Places /\ "runLock" \in Places
    /\ "stopLock" \in Places /\ "wait" \in Places /\ "intLock" \in Places /\ "submit" \in Places
    /\ "unlock" \in Places /\ "callback" \in Places /\ "panic" \in Places
  BY DEF Places
<1>1. CASE Add
  <2>1. pc' \in [Threads -> Places] /\ pc'[Client] = "addLock" /\ pc'[Event] = pc[Event]
    BY <1>1, ClientGoes DEF Add
  <2>. QED
    BY <1>1, <2>1 DEF Add, fields, flags, gsp
<1>2. CASE Run
  <2>1. pc' \in [Threads -> Places] /\ pc'[Client] = "runCheck" /\ pc'[Event] = pc[Event]
    BY <1>2, ClientGoes DEF Run
  <2>. QED
    BY <1>2, <2>1 DEF Run, fields, gsp
<1>3. CASE Stop
  <2>1. pc' \in [Threads -> Places] /\ pc'[Client] = "stopLock" /\ pc'[Event] = pc[Event]
    BY <1>3, ClientGoes DEF Stop
  <2>. QED
    BY <1>3, <2>1 DEF Stop, fields, flags, client, gsp
<1>4. CASE Wait
  <2>1. pc' \in [Threads -> Places] /\ pc'[Client] = "wait" /\ pc'[Event] = pc[Event]
    BY <1>4, ClientGoes DEF Wait
  <2>. QED
    BY <1>4, <2>1 DEF Wait, fields, flags, client, gsp
<1>5. CASE StopLocked
  <2>1. pc' \in [Threads -> Places] /\ pc'[Client] = "unlock" /\ pc'[Event] = pc[Event]
    BY <1>5, ClientGoes DEF StopLocked
  <2>. QED
    BY <1>5, <2>1 DEF StopLocked, TakeLock, fields, gsp
<1>6. CASE WaitReturns
  <2>1. pc' \in [Threads -> Places] /\ pc'[Client] = "idle" /\ pc'[Event] = pc[Event]
    BY <1>6, ClientGoes DEF WaitReturns
  <2>. QED
    BY <1>6, <2>1 DEF WaitReturns, fields, flags, gsp
<1>7. CASE Callback
  <2>1. pc' \in [Threads -> Places] /\ pc'[Event] = "idle" /\ pc'[Client] = pc[Client]
    BY <1>7, EventGoes DEF Callback
  <2>. QED
    BY <1>7, <2>1 DEF Callback, fields, flags, client, gsp
<1>8. CASE Clear
  <2>1. pc' \in [Threads -> Places] /\ pc'[Client] \in {"idle", "panic"} /\ pc'[Event] = pc[Event]
    BY <1>8, ClientGoes DEF Clear
  <2>. QED
    BY <1>8, <2>1 DEF Clear, flags, client
<1>9. CASE RunCheck
  <2>1. CASE lastEntry < numEntries
    <3>1. isRunning'
      BY <1>9, <2>1 DEF RunCheck
    <3>2. pc' \in [Threads -> Places] /\ pc'[Client] = "runLock" /\ pc'[Event] = pc[Event]
      BY <1>9, <3>1, ClientGoes DEF RunCheck
    <3>. QED
      BY <1>9, <2>1, <3>1, <3>2 DEF RunCheck, fields, client, gsp
  <2>2. CASE ~(lastEntry < numEntries)
    <3>1. ~isRunning'
      BY <1>9, <2>2 DEF RunCheck
    <3>2. pc' \in [Threads -> Places] /\ pc'[Client] = "idle" /\ pc'[Event] = pc[Event]
      BY <1>9, <3>1, ClientGoes DEF RunCheck
    <3>3. Types'
      BY <1>9, <2>2, <3>1, <3>2 DEF RunCheck, fields, client, gsp
    <3>4. Bound'
      BY <1>9, <2>2, <3>1, <3>2 DEF RunCheck, fields, client, gsp
    <3>5. Locking'
      BY <1>9, <2>2, <3>1, <3>2 DEF RunCheck, fields, client, gsp
    <3>6. Stopping'
      BY <1>9, <2>2, <3>1, <3>2 DEF RunCheck, fields, client, gsp
    <3>7. Accounted'
      BY <1>9, <2>2, <3>1, <3>2 DEF RunCheck, fields, client, gsp
    <3>8. Complete'
      BY <1>9, <2>2, <3>1, <3>2 DEF RunCheck, fields, client, gsp
    <3>9. InFlightBound'
      BY <1>9, <2>2, <3>1, <3>2 DEF RunCheck, fields, client, gsp
    <3>. QED
      BY <3>3, <3>4, <3>5, <3>6, <3>7, <3>8, <3>9
  <2>. QED
    BY <2>1, <2>2
<1>10. CASE AddLocked
  <2>1. CASE bound /\ isActive /\ ~isRunning
    <3>1. DoCommands(Client, lastEntry)
      BY <1>10, <2>1 DEF AddLocked
    <3>2. /\ shouldStop \/ curEntry - lastEntry <= MAX_PARALLEL_CMDS
          /\ curEntry \in Nat /\ lastEntry \in Nat
          /\ batch \in [Threads -> Nat] /\ pc \in [Threads -> Places]
      BY <2>1
    <3>3. /\ batch' \in [Threads -> Nat] /\ batch'[Event] = batch[Event]
          /\ batch'[Client] = (IF shouldStop THEN 0 ELSE lastEntry + MAX_PARALLEL_CMDS - curEntry)
          /\ pc' \in [Threads -> Places] /\ pc'[Client] = "submit" /\ pc'[Event] = pc[Event]
      <4> HIDE DEF IInv, Types, Accounted, Stopping, Bound, Locking, Complete, InFlightBound,
                   InFlight, GxQueueAssumption, Threads, Client, Event, Nobody
      <4>. QED
        BY <3>1, <3>2, ClientBegins
    <3>. QED
      BY <1>10, <2>1, <3>3 DEF AddLocked, TakeLock, client, gsp
  <2>2. CASE ~(bound /\ isActive /\ ~isRunning)
    <3>1. pc' \in [Threads -> Places] /\ pc'[Client] = "unlock" /\ pc'[Event] = pc[Event]
      BY <1>10, <2>2, ClientGoes DEF AddLocked
    <3>. QED
      BY <1>10, <2>2, <3>1 DEF AddLocked, TakeLock, client, gsp
  <2>. QED
    BY <2>1, <2>2
<1>11. CASE RunLocked
  <2>0. /\ shouldStop \/ curEntry - lastEntry <= MAX_PARALLEL_CMDS
        /\ curEntry \in Nat /\ lastEntry \in Nat
        /\ batch \in [Threads -> Nat] /\ pc \in [Threads -> Places]
    BY <1>11 DEF RunLocked
  <2>1. /\ batch' \in [Threads -> Nat] /\ batch'[Event] = batch[Event]
        /\ batch'[Client] = (IF shouldStop THEN 0 ELSE lastEntry + MAX_PARALLEL_CMDS - curEntry)
        /\ pc' \in [Threads -> Places] /\ pc'[Client] = "submit" /\ pc'[Event] = pc[Event]
    <3> HIDE DEF IInv, Types, Accounted, Stopping, Bound, Locking, Complete, InFlightBound,
                 InFlight, GxQueueAssumption, Threads, Client, Event, Nobody
    <3>. QED
      BY <1>11, <2>0, ClientBegins DEF RunLocked
  <2>. QED
    BY <1>11, <2>1 DEF RunLocked, TakeLock, fields, flags, client, gsp
<1>12. CASE Interrupt
  <2>1. CASE isRunning
    <3>1. pc' \in [Threads -> Places] /\ pc'[Event] = "intLock" /\ pc'[Client] = pc[Client]
      BY <1>12, <2>1, EventGoes DEF Interrupt
    <3>. QED
      BY <1>12, <2>1, <3>1 DEF Interrupt, fields, flags, client
  <2>2. CASE ~isRunning
    <3>1. pc' = pc
      BY <1>12, <2>2 DEF Interrupt
    <3>. QED
      BY <1>12, <2>2, <3>1, Fifo DEF Interrupt, fields, flags, client
  <2>. QED
    BY <2>1, <2>2
<1>13. CASE InterruptLocked
  <2>0. pc[Event] = "intLock" /\ isRunning /\ lastEntry' = lastEntry + 1 /\ owner = Nobody
        /\ (\A t \in Threads : batch[t] = 0)
    BY <1>13 DEF InterruptLocked, TakeLock
  <2>1. CASE shouldStop
    <3>1. pc' \in [Threads -> Places] /\ pc'[Event] = "unlock" /\ pc'[Client] = pc[Client]
      BY <1>13, <2>1, EventGoes DEF InterruptLocked
    <3>2. /\ bound' = FALSE /\ isActive' = FALSE /\ isRunning' = FALSE /\ shouldStop' = FALSE
          /\ UNCHANGED <<batch, numEntries, curEntry, waited, stopped, fifo, irqs, executed>>
          /\ owner' = Event
      BY <1>13, <2>1 DEF InterruptLocked, TakeLock, client, gsp
    <3>3. Types'
      <4>1. Types /\ lastEntry' \in Nat
        BY <2>0
      <4>. HIDE DEF Accounted, Bound, Locking, Stopping, Complete, InFlightBound, IInv
      <4>. QED
        BY <4>1, <3>1, <3>2
    <3>4. Bound'
      BY <2>0, <2>1, <3>1, <3>2, <3>3 DEF IInv
    <3>5. Locking'
      BY <2>0, <2>1, <3>1, <3>2, <3>3 DEF IInv
    <3>6. Stopping'
      BY <2>0, <2>1, <3>1, <3>2, <3>3 DEF IInv
    <3>7. Accounted'
      BY <2>0, <2>1, <3>1, <3>2, <3>3 DEF IInv
    <3>8. Complete'
      BY <2>0, <2>1, <3>1, <3>2, <3>3 DEF IInv
    <3>9. InFlightBound'
      BY <2>0, <2>1, <3>1, <3>2, <3>3 DEF IInv
    <3>. QED
      BY <3>3, <3>4, <3>5, <3>6, <3>7, <3>8, <3>9
  <2>2. CASE ~shouldStop /\ lastEntry' < numEntries
    <3>1. ~stopped /\ curEntry - lastEntry <= MAX_PARALLEL_CMDS /\ lastEntry + 1 <= curEntry
      BY <2>0, <2>2, Fifo
    <3>2. DoCommands(Event, lastEntry + 1) /\ UNCHANGED flags
      BY <1>13, <2>0, <2>2 DEF InterruptLocked
    <3>3. /\ batch' \in [Threads -> Nat] /\ batch'[Client] = batch[Client]
          /\ batch'[Event] = (lastEntry + 1 + MAX_PARALLEL_CMDS - curEntry)
          /\ pc' \in [Threads -> Places] /\ pc'[Event] = "submit" /\ pc'[Client] = pc[Client]
      <4>1. /\ curEntry - (lastEntry + 1) <= MAX_PARALLEL_CMDS
            /\ curEntry \in Nat /\ lastEntry \in Nat /\ ~shouldStop
            /\ batch \in [Threads -> Nat] /\ pc \in [Threads -> Places]
        BY <3>1
      <4> HIDE DEF IInv, Types, Accounted, Stopping, Bound, Locking, Complete, InFlightBound,
                   InFlight, GxQueueAssumption, Threads, Client, Event, Nobody
      <4>. QED
        BY <4>1, <3>2, EventBegins
    <3>. QED
      BY <1>13, <2>0, <2>2, <3>1, <3>2, <3>3 DEF InterruptLocked, TakeLock, flags, client, gsp
  <2>3. CASE ~shouldStop /\ ~(lastEntry' < numEntries)
    <3>1. ~stopped /\ lastEntry + 1 <= curEntry
      BY <2>0, <2>3, Fifo
    <3>2. lastEntry' = numEntries /\ curEntry = numEntries
      BY <2>0, <2>3, <3>1
    <3>3. pc' \in [Threads -> Places] /\ pc'[Event] = "callback" /\ pc'[Client] = pc[Client]
      BY <1>13, <2>3, EventGoes DEF InterruptLocked
    <3>4. ~isRunning' /\ UNCHANGED <<bound, isActive, shouldStop, batch>>
      BY <1>13, <2>3 DEF InterruptLocked
    <3>5. Types'
      BY <1>13, <2>0, <2>3, <3>1, <3>2, <3>3, <3>4 DEF InterruptLocked, TakeLock, flags, client, gsp
    <3>6. Bound'
      BY <1>13, <2>0, <2>3, <3>1, <3>2, <3>3, <3>4 DEF InterruptLocked, TakeLock, flags, client, gsp
    <3>7. Locking'
      BY <1>13, <2>0, <2>3, <3>1, <3>2, <3>3, <3>4 DEF InterruptLocked, TakeLock, flags, client, gsp
    <3>8. Stopping'
      BY <1>13, <2>0, <2>3, <3>1, <3>2, <3>3, <3>4 DEF InterruptLocked, TakeLock, flags, client, gsp
    <3>9. Accounted'
      BY <1>13, <2>0, <2>3, <3>1, <3>2, <3>3, <3>4 DEF InterruptLocked, TakeLock, flags, client, gsp
    <3>10. Complete'
      BY <1>13, <2>0, <2>3, <3>1, <3>2, <3>3, <3>4 DEF InterruptLocked, TakeLock, flags, client, gsp
    <3>11. InFlightBound'
      BY <1>13, <2>0, <2>3, <3>1, <3>2, <3>3, <3>4 DEF InterruptLocked, TakeLock, flags, client, gsp
    <3>. QED
      BY <3>5, <3>6, <3>7, <3>8, <3>9, <3>10, <3>11
  <2>. QED
    BY <2>1, <2>2, <2>3
<1>14. CASE Execute
  <2>1. fifo' \in Seq(Nat) /\ Len(fifo') = Len(fifo) - 1 /\ Len(fifo) \in Nat
    BY <1>14, Fifo DEF Execute
  <2>2. /\ irqs' = irqs + 1 /\ executed' = executed + 1
        /\ UNCHANGED <<numEntries, curEntry, lastEntry, bound, isActive, isRunning, shouldStop,
                        owner, batch, pc, waited, stopped>>
    BY <1>14 DEF Execute, fields, flags, client
  <2>3. /\ Types' /\ Bound' /\ Locking' /\ Stopping' /\ Complete'
    BY <2>1, <2>2
  <2>4. Accounted' /\ InFlightBound'
    <3>1. /\ irqs \in Nat /\ executed \in Nat /\ Accounted /\ InFlightBound
          /\ MAX_PARALLEL_CMDS \in Nat
      OBVIOUS
    <3> HIDE DEF IInv, Types, Bound, Locking, Stopping, Complete, Accounted, InFlight
    <3>2. InFlight' = InFlight /\ executed' + Len(fifo') = executed + Len(fifo)
      BY <2>1, <2>2, <3>1 DEF InFlight
    <3>. QED
      BY <2>1, <2>2, <3>1, <3>2 DEF Accounted
  <2>. QED
    BY <2>3, <2>4
<1>15. ASSUME NEW t \in Threads, Submit(t) PROVE IInv'
  <2>1. fifo' \in Seq(Nat) /\ Len(fifo') = Len(fifo) + 1 /\ Len(fifo) \in Nat
    BY <1>15, Fifo DEF Submit
  <2>2. /\ pc[t] = "submit" /\ owner = t /\ curEntry < numEntries /\ curEntry' = curEntry + 1
        /\ batch[t] \in Nat \ {0}
        /\ batch' = [batch EXCEPT ![t] = batch[t] - 1]
        /\ \A u \in Threads \ {t} : batch[u] = 0 /\ pc[u] # "submit"
        /\ UNCHANGED <<numEntries, lastEntry, bound, isActive, isRunning, shouldStop, owner,
                        pc, waited, stopped, irqs, executed>>
    BY <1>15 DEF Submit, flags, client
  <2>3. isRunning /\ ~stopped
    BY <2>2
  <2>4. \A u \in Threads : curEntry - lastEntry + batch[u] <= MAX_PARALLEL_CMDS
    BY <2>3
  <2>5. /\ batch' \in [Threads -> Nat] /\ \A u \in Threads \ {t} : batch'[u] = 0
        /\ \A u \in Threads : curEntry + 1 - lastEntry + batch'[u] <= MAX_PARALLEL_CMDS
    <3>1. /\ batch \in [Threads -> Nat] /\ curEntry \in Nat /\ lastEntry \in Nat
          /\ MAX_PARALLEL_CMDS \in Nat
      OBVIOUS
    <3> HIDE DEF IInv, Types, Bound, Locking, Stopping, Accounted, Complete, InFlightBound,
                 InFlight, GxQueueAssumption, Threads, Client, Event, Nobody
    <3>. QED
      BY <2>2, <2>4, <3>1, Takes
  <2>6. InFlight' = curEntry + 1 - lastEntry /\ executed' + Len(fifo') = curEntry + 1
    <3>1. InFlight = curEntry - lastEntry /\ executed + Len(fifo) = curEntry
          /\ executed \in Nat /\ irqs \in Nat /\ curEntry \in Nat /\ lastEntry \in Nat
      BY <2>3
    <3> HIDE DEF IInv, Types, Bound, Locking, Stopping, Accounted, Complete, InFlightBound,
                 InFlight, GxQueueAssumption, Threads
    <3>2. InFlight' = Len(fifo) + 1 + irqs + (IF pc[Event] = "intLock" THEN 1 ELSE 0)
      BY <2>1, <2>2 DEF InFlight
    <3>3. InFlight' = InFlight + 1
      BY <2>1, <3>1, <3>2 DEF InFlight
    <3>4. executed' = executed
      BY <2>2
    <3>. QED
      BY <2>1, <3>1, <3>3, <3>4
  <2>7. pc[Client] # "runLock"
    BY <2>2, <2>3
  <2>8. Accounted'
    <3>1. curEntry \in Nat /\ lastEntry \in Nat
      OBVIOUS
    <3> HIDE DEF IInv, Types, Bound, Locking, Stopping, Complete, InFlightBound, InFlight
    <3>. QED
      BY <2>2, <2>3, <2>5, <2>6, <2>7, <3>1
  <2>9. InFlightBound'
    <3>1. curEntry + 1 - lastEntry + batch'[t] <= MAX_PARALLEL_CMDS /\ batch'[t] \in Nat
      BY <2>5
    <3>2. curEntry \in Nat /\ lastEntry \in Nat /\ irqs' \in Nat
      BY <2>2
    <3> HIDE DEF IInv, Types, Bound, Locking, Stopping, Accounted, Complete, InFlight,
                 GxQueueAssumption, Threads
    <3>3. InFlight' >= Len(fifo')
      BY <2>1, <3>2 DEF InFlight
    <3>4. curEntry + 1 - lastEntry <= MAX_PARALLEL_CMDS
      <4>1. MAX_PARALLEL_CMDS \in Nat
        BY DEF GxQueueAssumption
      <4>. QED
        BY <3>1, <3>2, <4>1
    <3>. QED
      BY <2>1, <2>6, <3>2, <3>3, <3>4 DEF GxQueueAssumption
  <2>10. Types'
    <3>1. Types
      OBVIOUS
    <3> HIDE DEF IInv, Bound, Locking, Stopping, Accounted, Complete, InFlightBound, InFlight
    <3>2. curEntry' \in Nat /\ curEntry' <= numEntries'
      BY <2>2, <3>1
    <3>. QED
      BY <2>1, <2>2, <2>5, <3>1, <3>2
  <2>11. Bound'
    BY <2>1, <2>2, <2>3, <2>5 DEF IInv
  <2>12. Locking'
    BY <2>1, <2>2, <2>3, <2>5 DEF IInv
  <2>13. Stopping'
    BY <2>1, <2>2, <2>3, <2>5 DEF IInv
  <2>14. Complete'
    BY <2>1, <2>2, <2>3, <2>5 DEF IInv
  <2>. QED
    BY <2>8, <2>9, <2>10, <2>11, <2>12, <2>13, <2>14
<1>16. ASSUME NEW t \in Threads, SubmitDone(t) PROVE IInv'
  <2>1. /\ pc' \in [Threads -> Places] /\ pc'[t] = "unlock"
        /\ (\A u \in Threads \ {t} : pc'[u] = pc[u])
    BY <1>16, "unlock" \in Places DEF SubmitDone, Goto
  <2>2. /\ batch' \in [Threads -> Nat] /\ batch'[t] = 0
        /\ (\A u \in Threads \ {t} : batch'[u] = batch[u])
    BY <1>16, <2>1, 0 \in Nat DEF SubmitDone
  <2>. QED
    BY <1>16, <2>1, <2>2 DEF SubmitDone, fields, flags, client, gsp
<1>17. ASSUME NEW t \in Threads, Unlock(t) PROVE IInv'
  <2>1. pc' \in [Threads -> Places] /\ pc'[t] = "idle" /\ (\A u \in Threads \ {t} : pc'[u] = pc[u])
    BY <1>17, "idle" \in Places DEF Unlock, Goto
  <2>. QED
    BY <1>17, <2>1 DEF Unlock, fields, flags, client, gsp
<1>18. CASE UNCHANGED vars
  BY <1>18 DEF vars
<1>19. CASE WaitAgain
  BY <1>19 DEF WaitAgain, vars
<1>. QED
  BY <1>1, <1>2, <1>3, <1>4, <1>5, <1>6, <1>7, <1>8, <1>9, <1>10,
     <1>11, <1>12, <1>13, <1>14, <1>15, <1>16, <1>17, <1>18, <1>19
     DEF Next, ClientProceeds, EventProceeds, Proceeds

(* An empty queue satisfies the invariant.                                  *)
LEMMA IInit == GxQueueAssumption /\ Init => IInv
<1> SUFFICES ASSUME GxQueueAssumption, Init PROVE IInv
  OBVIOUS
<1> USE DEF Init, Threads, Client, Event, Nobody, GxQueueAssumption
<1>1. Types
  <2>1. fifo \in Seq(Nat)
    OBVIOUS
  <2>2. batch \in [Threads -> Nat] /\ pc \in [Threads -> Places]
    BY DEF Places
  <2>3. /\ owner \in Threads \cup {Nobody}
        /\ {numEntries, curEntry, lastEntry, irqs, executed} \subseteq Nat
    OBVIOUS
  <2>4. bound \in BOOLEAN /\ isActive \in BOOLEAN /\ isRunning \in BOOLEAN
        /\ shouldStop \in BOOLEAN /\ waited \in BOOLEAN /\ stopped \in BOOLEAN
    OBVIOUS
  <2>. QED
    BY <2>1, <2>2, <2>3, <2>4, curEntry <= numEntries DEF Types
<1>2. Bound /\ Locking /\ Stopping /\ Complete
  BY DEF Bound, Locking, Stopping, Complete
<1>3. Len(fifo) = 0
  OBVIOUS
<1>4. Accounted /\ InFlightBound
  BY <1>3 DEF Accounted, InFlight, InFlightBound
<1>. QED
  BY <1>1, <1>2, <1>4 DEF IInv

(* The invariant of a queue that is not run again after an early stop, for  *)
(* every size of batch and queue.                                           *)
LEMMA QueueInvariant ==
  ASSUME GxQueueAssumption, ~RunAfterStop
  PROVE  Spec => []IInv
BY IInit, IStep, PTL DEF Spec

(* However additions, runs and interrupts alternate, GSP is never given     *)
(* more commands than MAX_PARALLEL_CMDS at once, for every value of it.     *)
THEOREM InFlightIsBounded ==
  ASSUME GxQueueAssumption, ~RunAfterStop
  PROVE  Spec => []InFlightBound
<1>1. IInv => InFlightBound
  BY DEF IInv
<1>. QED
  BY <1>1, QueueInvariant, PTL

(* Once gxCmdQueueWait has returned on an active queue, every command in it *)
(* has been executed and its completion counted.                            *)
THEOREM WaitIsForAll ==
  ASSUME GxQueueAssumption, ~RunAfterStop
  PROVE  Spec => []WaitMeansDone
<1>1. IInv => WaitMeansDone
  <2> SUFFICES ASSUME IInv, waited, isActive
               PROVE  executed = numEntries /\ fifo = <<>> /\ irqs = 0
    BY DEF WaitMeansDone
  <2>1. ~isRunning /\ pc[Client] # "runCheck" /\ ~stopped
    BY DEF IInv, Bound, Stopping
  <2>2. lastEntry = numEntries /\ curEntry = lastEntry /\ executed + Len(fifo) = curEntry
        /\ InFlight = 0
    BY <2>1 DEF IInv, Complete, Accounted, Types
  <2>3. fifo \in Seq(Nat) /\ Len(fifo) \in Nat /\ irqs \in Nat /\ executed \in Nat
    BY DEF IInv, Types
  <2>4. Len(fifo) = 0 /\ irqs = 0
    BY <2>2, <2>3 DEF InFlight
  <2>. QED
    BY <2>2, <2>3, <2>4
<1>. QED
  BY <1>1, QueueInvariant, PTL

(* A command added while the queue winds down is not left lying: an active  *)
(* queue that does not run has everything in it complete.                   *)
THEOREM NoCommandIsLeft ==
  ASSUME GxQueueAssumption, ~RunAfterStop
  PROVE  Spec => []NothingLeftBehind
<1>1. IInv => NothingLeftBehind
  BY DEF IInv, Complete, NothingLeftBehind, Threads, Client
<1>. QED
  BY <1>1, QueueInvariant, PTL
-------------------------------------------------------------------------------
(* The rest of the types: the queue does not grow past its capacity, and    *)
(* lastEntry does not overtake curEntry, for a running queue counts exactly *)
(* what is on its way, also while it is being stopped.                      *)
InBounds ==
  /\ numEntries <= MaxEntries
  /\ pc[Client] = "addLock" => numEntries < MaxEntries
  /\ fifo \in Seq(1 .. MaxEntries)

Counted ==
  /\ lastEntry <= curEntry
  /\ executed + Len(fifo) <= MaxEntries
  /\ isRunning => InFlight = curEntry - lastEntry

(* Commands are added below the capacity, and submitted from those added.   *)
LEMMA InBoundsStep ==
  ASSUME GxQueueAssumption, IInv, InBounds, [Next]_vars
  PROVE  InBounds'
<1> USE DEF InBounds, Client, Event, Threads
<1>1. /\ numEntries \in Nat /\ MaxEntries \in Nat /\ curEntry \in Nat /\ pc \in [Threads -> Places]
      /\ curEntry <= numEntries
  BY DEF IInv, Types, GxQueueAssumption
<1>2. ASSUME UNCHANGED numEntries, UNCHANGED fifo, pc'[Client] # "addLock" \/ UNCHANGED pc
      PROVE  InBounds'
  BY <1>2
<1>3. ASSUME NEW t \in Threads, NEW place \in Places, Goto(t, place), place # "addLock",
             UNCHANGED numEntries, UNCHANGED fifo
      PROVE  InBounds'
  BY <1>1, <1>3 DEF Goto
<1>4. CASE Add
  <2>1. numEntries < MaxEntries
    BY <1>1, <1>4 DEF Add
  <2>. QED
    BY <1>4, <2>1 DEF Add, fields, gsp
<1>5. CASE AddLocked
  <2>1. numEntries' = numEntries + 1 /\ numEntries < MaxEntries /\ UNCHANGED fifo
    BY <1>5 DEF AddLocked, gsp
  <2>2. pc'[Client] # "addLock"
    BY <1>1, <1>5 DEF AddLocked, DoCommands, Goto
  <2>. QED
    BY <1>1, <2>1, <2>2
<1>6. CASE Clear
  <2>1. pc'[Client] # "addLock"
    BY <1>1, <1>6 DEF Clear, Goto
  <2>2. numEntries' \in {0, numEntries} /\ UNCHANGED fifo
    BY <1>6 DEF Clear, fields
  <2>. QED
    BY <1>1, <2>1, <2>2
<1>7. ASSUME NEW t \in Threads, Submit(t) PROVE InBounds'
  <2>1. curEntry + 1 \in 1 .. MaxEntries
    BY <1>1, <1>7 DEF Submit
  <2>2. fifo' = Append(fifo, curEntry + 1) /\ UNCHANGED <<numEntries, pc>>
    BY <1>7 DEF Submit
  <2>3. fifo' \in Seq(1 .. MaxEntries)
    BY <2>1, <2>2
  <2>. QED
    BY <2>2, <2>3
<1>8. CASE Execute
  <2>1. fifo # <<>> /\ fifo' = Tail(fifo) /\ UNCHANGED <<numEntries, pc>>
    BY <1>8 DEF Execute, fields
  <2>2. fifo' \in Seq(1 .. MaxEntries)
    BY <2>1
  <2>. QED
    BY <2>1, <2>2
<1>9. ASSUME NEW t \in Threads, SubmitDone(t) \/ Unlock(t) PROVE InBounds'
  BY <1>3, <1>9 DEF SubmitDone, Unlock, Places, fields, gsp
<1>10. CASE Run \/ Stop \/ Wait \/ WaitReturns \/ StopLocked \/ RunCheck
  BY <1>3, <1>10 DEF Run, Stop, Wait, WaitReturns, StopLocked, RunCheck, Places, fields, gsp
<1>11. CASE RunLocked
  BY <1>3, <1>11 DEF RunLocked, DoCommands, Places, fields, gsp
<1>12. CASE WaitAgain \/ UNCHANGED vars
  BY <1>12 DEF WaitAgain, vars
<1>13. CASE Interrupt
  BY <1>2, <1>3, <1>13 DEF Interrupt, Places, fields
<1>14. CASE InterruptLocked
  BY <1>3, <1>14 DEF InterruptLocked, DoCommands, Places, gsp
<1>15. CASE Callback
  BY <1>3, <1>15 DEF Callback, Places, fields, gsp
<1>. QED
  BY <1>4, <1>5, <1>6, <1>7, <1>8, <1>9, <1>10, <1>11, <1>12, <1>13, <1>14, <1>15
     DEF Next, ClientProceeds, EventProceeds, Proceeds

(* Until an early stop this is in the invariant; from then on nothing is    *)
(* submitted, and what is in flight only comes back.                        *)
LEMMA CountedStep ==
  ASSUME GxQueueAssumption, IInv, InBounds, Counted, [Next]_vars, IInv', InBounds'
  PROVE  Counted'
<1>1. /\ numEntries \in Nat /\ MaxEntries \in Nat /\ curEntry \in Nat /\ lastEntry \in Nat
      /\ executed \in Nat /\ irqs \in Nat /\ fifo \in Seq(Nat) /\ Len(fifo) \in Nat
      /\ curEntry <= numEntries /\ numEntries <= MaxEntries
      /\ pc \in [Threads -> Places]
  BY DEF IInv, Types, InBounds, GxQueueAssumption
<1>2. /\ curEntry' \in Nat /\ lastEntry' \in Nat /\ executed' \in Nat /\ irqs' \in Nat
      /\ Len(fifo') \in Nat /\ curEntry' <= numEntries' /\ numEntries' <= MaxEntries
      /\ numEntries' \in Nat /\ isRunning' \in BOOLEAN
  BY DEF IInv, Types, InBounds
<1>3. CASE ~stopped'
  <2>1. InFlight' = curEntry' - lastEntry' /\ executed' + Len(fifo') = curEntry'
    BY <1>3 DEF IInv, Accounted
  <2>2. curEntry' - lastEntry' = Len(fifo') + irqs' + (IF pc'[Event] = "intLock" THEN 1 ELSE 0)
    BY <2>1 DEF InFlight
  <2>3. lastEntry' <= curEntry'
    BY ONLY <1>2, <2>2
  <2>4. executed' + Len(fifo') <= MaxEntries
    <3>1. curEntry' <= MaxEntries
      BY <1>1, <1>2
    <3>. QED
      BY <2>1, <3>1
  <2>. QED
    BY <2>1, <2>3, <2>4 DEF Counted
<1>4. CASE stopped' /\ ~stopped
  <2>1. UNCHANGED <<fields, isRunning, gsp>> /\ StopLocked
    BY <1>4 DEF Next, ClientProceeds, EventProceeds, Proceeds, Add, Run, Stop, Wait, WaitAgain, Clear,
       AddLocked, RunCheck, RunLocked, StopLocked, WaitReturns, Submit, SubmitDone, Unlock, Interrupt,
       InterruptLocked, Callback, Execute, vars, client
  <2>2. pc'[Event] = pc[Event]
    BY <1>1, <2>1 DEF StopLocked, Goto, Client, Event, Threads
  <2>. QED
    BY <2>1, <2>2 DEF Counted, InFlight, fields, gsp
<1>5. CASE stopped
  <2>1. /\ pc[Client] \notin {"runCheck", "runLock"}
        /\ \A t \in Threads : batch[t] = 0
        /\ shouldStop \/ (~isRunning /\ ~bound /\ ~isActive)
        /\ shouldStop => isRunning
        /\ pc[Event] = "intLock" => isRunning
    BY <1>5 DEF IInv, Stopping, Bound
  <2>2. ASSUME UNCHANGED <<fields, gsp>>, isRunning' => isRunning,
               (pc'[Event] = "intLock") = (pc[Event] = "intLock")
        PROVE  Counted'
    BY <2>2 DEF Counted, InFlight, fields, gsp
  <2>3. ASSUME NEW place \in Places, Goto(Client, place) PROVE pc'[Event] = pc[Event]
    BY <1>1, <2>3 DEF Goto, Threads, Client, Event
  <2>4. ASSUME NEW place \in Places, Goto(Event, place) PROVE pc'[Event] = place
    BY <1>1, <2>4 DEF Goto, Threads, Client, Event
  <2>5. CASE Add \/ Stop \/ Wait \/ WaitReturns \/ StopLocked \/ Run
    <3>1. UNCHANGED <<fields, gsp, isRunning>>
      BY <2>5 DEF Add, Stop, Wait, WaitReturns, StopLocked, Run, flags
    <3>2. \E place \in Places : Goto(Client, place)
      BY <2>5 DEF Add, Stop, Wait, WaitReturns, StopLocked, Run, Places
    <3>. QED
      BY <2>2, <2>3, <3>1, <3>2
  <2>6. CASE WaitAgain \/ UNCHANGED vars
    BY <2>6 DEF WaitAgain, vars, Counted, InFlight
  <2>7. CASE Clear
    <3>1. UNCHANGED <<fifo, irqs, isRunning>>
      BY <2>7 DEF Clear, flags
    <3>2. CASE bound /\ isRunning
      <4>1. UNCHANGED <<fields, executed>> /\ Goto(Client, "panic") /\ "panic" \in Places
        BY <2>7, <3>2 DEF Clear, Places
      <4>. QED
        BY <2>2, <2>3, <3>1, <4>1 DEF gsp
    <3>3. CASE ~(bound /\ isRunning)
      <4>1. curEntry' = 0 /\ lastEntry' = 0 /\ executed' = 0 /\ UNCHANGED pc
        BY <2>7, <3>3 DEF Clear
      <4>2. ~isRunning
        BY <3>3 DEF IInv, Bound
      <4>. QED
        BY <1>1, <3>1, <4>1, <4>2 DEF Counted
    <3>. QED
      BY <3>2, <3>3
  <2>8. CASE AddLocked
    <3>1. UNCHANGED <<curEntry, lastEntry, gsp>>
      BY <2>8 DEF AddLocked
    <3>2. isRunning' = isRunning /\ Goto(Client, "unlock") /\ "unlock" \in Places
      BY <2>1, <2>8 DEF AddLocked, Places
    <3>3. pc'[Event] = pc[Event]
      BY <2>3, <3>2
    <3>. QED
      BY <3>1, <3>2, <3>3 DEF Counted, InFlight, gsp
  <2>9. ASSUME NEW t \in Threads, SubmitDone(t) \/ Unlock(t) PROVE Counted'
    <3>1. UNCHANGED <<fields, gsp, isRunning>>
      BY <2>9 DEF SubmitDone, Unlock, flags
    <3>2. pc[t] \in {"submit", "unlock"} /\ \E place \in {"unlock", "idle"} : Goto(t, place)
      BY <2>9 DEF SubmitDone, Unlock
    <3>3. (pc'[Event] = "intLock") = (pc[Event] = "intLock")
      BY <1>1, <3>2 DEF Goto, Threads, Client, Event
    <3>. QED
      BY <2>2, <3>1, <3>3
  <2>10. ASSUME NEW t \in Threads, Submit(t) PROVE FALSE
    BY <2>1, <2>10 DEF Submit
  <2>11. CASE RunCheck \/ RunLocked
    BY <2>1, <2>11 DEF RunCheck, RunLocked
  <2>12. CASE Interrupt
    <3>1. pc[Event] = "idle" /\ irqs > 0 /\ irqs' = irqs - 1
          /\ UNCHANGED <<fields, isRunning, fifo, executed>>
      BY <2>12 DEF Interrupt, flags
    <3>2. isRunning => pc'[Event] = "intLock"
      BY <2>4, <2>12 DEF Interrupt, Places
    <3>3. isRunning => InFlight' = InFlight
      BY <1>1, <3>1, <3>2 DEF InFlight
    <3>. QED
      BY <3>1, <3>3 DEF Counted, fields
  <2>13. CASE InterruptLocked
    <3>1. pc[Event] = "intLock" /\ lastEntry' = lastEntry + 1 /\ UNCHANGED <<curEntry, gsp>>
      BY <2>13 DEF InterruptLocked
    <3>2. isRunning /\ shouldStop
      BY <2>1, <3>1
    <3>3. ~isRunning'
      BY <2>13, <3>2 DEF InterruptLocked
    <3>4. InFlight = curEntry - lastEntry /\ InFlight = Len(fifo) + irqs + 1
      BY <3>1, <3>2 DEF Counted, InFlight
    <3>5. lastEntry' <= curEntry'
      BY <1>1, <3>1, <3>4
    <3>. QED
      BY <3>1, <3>3, <3>5 DEF Counted, gsp
  <2>14. CASE Callback
    <3>1. pc[Event] = "callback" /\ Goto(Event, "idle") /\ "idle" \in Places
          /\ UNCHANGED <<fields, gsp, isRunning>>
      BY <2>14 DEF Callback, flags, Places
    <3>. QED
      BY <2>2, <2>4, <3>1
  <2>15. CASE Execute
    <3>1. fifo # <<>> /\ fifo' = Tail(fifo) /\ irqs' = irqs + 1 /\ executed' = executed + 1
          /\ UNCHANGED <<fields, isRunning, pc>>
      BY <2>15 DEF Execute, flags
    <3>2. Len(fifo') = Len(fifo) - 1
      BY <1>1, <3>1
    <3>3. InFlight' = InFlight /\ executed' + Len(fifo') = executed + Len(fifo)
      BY <1>1, <3>1, <3>2 DEF InFlight
    <3>. QED
      BY <3>1, <3>3 DEF Counted, fields
  <2>. QED
    BY <2>5, <2>6, <2>7, <2>8, <2>9, <2>10, <2>11, <2>12, <2>13, <2>14, <2>15
       DEF Next, ClientProceeds, EventProceeds, Proceeds, Threads
<1>. QED
  BY <1>3, <1>4, <1>5

(* These and the invariant make the types of the model.                     *)
LEMMA TypesFollow ==
  ASSUME GxQueueAssumption, IInv, InBounds, Counted
  PROVE  TypeOK
<1>1. /\ numEntries \in Nat /\ MaxEntries \in Nat /\ curEntry \in Nat /\ lastEntry \in Nat
      /\ executed \in Nat /\ Len(fifo) \in Nat /\ MAX_PARALLEL_CMDS \in Nat
      /\ batch \in [Threads -> Nat]
  BY DEF IInv, Types, GxQueueAssumption
<1>2. \A t \in Threads : batch[t] \in 0 .. MAX_PARALLEL_CMDS
  <2>1. CASE stopped
    BY <1>1, <2>1 DEF IInv, Stopping
  <2>2. CASE ~stopped
    BY <1>1, <2>2 DEF IInv, Accounted, Counted
  <2>. QED
    BY <2>1, <2>2 DEF IInv, Types
<1>3. batch \in [Threads -> 0 .. MAX_PARALLEL_CMDS]
  BY <1>1, <1>2
<1>4. /\ numEntries \in 0 .. MaxEntries /\ curEntry \in 0 .. numEntries
      /\ lastEntry \in 0 .. curEntry /\ executed \in 0 .. MaxEntries
  BY <1>1 DEF IInv, Types, InBounds, Counted
<1>. QED
  BY <1>3, <1>4 DEF TypeOK, IInv, Types, InBounds

(* Both are inductive with the invariant.                                   *)
LEMMA QueueTypes ==
  ASSUME GxQueueAssumption, ~RunAfterStop
  PROVE  /\ Init => IInv /\ InBounds /\ Counted
         /\ IInv /\ InBounds /\ Counted /\ [Next]_vars => (IInv /\ InBounds /\ Counted)'
<1>1. Init => InBounds /\ Counted
  <2> SUFFICES ASSUME Init PROVE InBounds /\ Counted
    OBVIOUS
  <2>1. fifo \in Seq(1 .. MaxEntries) /\ Len(fifo) = 0 /\ MaxEntries \in Nat
    BY DEF Init, GxQueueAssumption
  <2>2. numEntries = 0 /\ curEntry = 0 /\ lastEntry = 0 /\ executed = 0 /\ ~isRunning
        /\ pc[Client] # "addLock"
    BY DEF Init, Client, Threads
  <2>. QED
    BY <2>1, <2>2 DEF InBounds, Counted
<1>. QED
  BY <1>1, IInit, IStep, InBoundsStep, CountedStep

(* Whatever the sizes, the fields of a queue keep their order, lastEntry <= *)
(* curEntry <= numEntries <= maxEntries, also while it is being stopped.    *)
THEOREM FieldsKeepOrder ==
  ASSUME GxQueueAssumption, ~RunAfterStop
  PROVE  Spec => []TypeOK
BY QueueTypes, TypesFollow, PTL DEF Spec

-------------------------------------------------------------------------------
(***************************************************************************)
(* The two rings are written by two sides that only compare the header:    *)
(* what has to be shown is that a header that compares equal still         *)
(* describes the same contents.                                            *)
(***************************************************************************)

(* Rings: the place i slots after slot c of a ring of n.                    *)

LEMMA RingAt ==
  ASSUME NEW n \in Nat \ {0}, NEW c \in 0 .. n - 1, NEW i \in 0 .. n
  PROVE  (c + i) % n = IF c + i < n THEN c + i ELSE c + i - n
<1>1. CASE c + i \in 0 .. n - 1
  BY <1>1
<1>2. CASE c + i \in n .. 2 * n - 1
  BY <1>2
<1>. QED
  BY <1>1, <1>2

(* Slots at different distances are different.                              *)
LEMMA RingApart ==
  ASSUME NEW n \in Nat \ {0}, NEW c \in 0 .. n - 1, NEW i \in 0 .. n - 1, NEW j \in 0 .. n - 1
  PROVE  /\ (c + i) % n \in 0 .. n - 1
         /\ i # j => (c + i) % n # (c + j) % n
<1>1. i \in 0 .. n /\ j \in 0 .. n
  OBVIOUS
<1>2. (c + i) % n = IF c + i < n THEN c + i ELSE c + i - n
  BY <1>1, RingAt
<1>3. (c + j) % n = IF c + j < n THEN c + j ELSE c + j - n
  BY <1>1, RingAt
<1>. DEFINE a == (c + i) % n
            b == (c + j) % n
<1>4. a = (IF c + i < n THEN c + i ELSE c + i - n) /\ b = (IF c + j < n THEN c + j ELSE c + j - n)
  BY <1>2, <1>3
<1>5. a \in 0 .. n - 1 /\ (i # j => a # b)
  <2>. HIDE DEF a, b
  <2>. QED
    BY <1>4
<1>. QED
  BY <1>5

(* A ring that is entered one slot later.                                   *)
LEMMA RingNext ==
  ASSUME NEW n \in Nat \ {0}, NEW c \in 0 .. n - 1
  PROVE  /\ (c + 1) % n \in 0 .. n - 1
         /\ \A i \in 0 .. n - 1 : (((c + 1) % n) + i) % n = (c + (i + 1)) % n
         /\ (c + 0) % n = c
<1>. DEFINE d == (c + 1) % n
<1>1. d = IF c + 1 < n THEN c + 1 ELSE 0
  <2>1. (c + 1) % n = IF c + 1 < n THEN c + 1 ELSE c + 1 - n
    <3>1. 1 \in 0 .. n
      OBVIOUS
    <3>. QED
      BY <3>1, RingAt
  <2>2. ~(c + 1 < n) => c + 1 - n = 0
    OBVIOUS
  <2>. HIDE DEF d
  <2>3. d = IF c + 1 < n THEN c + 1 ELSE c + 1 - n
    BY <2>1 DEF d
  <2>. QED
    BY <2>2, <2>3
<1>2. d \in 0 .. n - 1
  <2>. HIDE DEF d
  <2>. QED
    BY <1>1
<1>3. ASSUME NEW i \in 0 .. n - 1 PROVE (d + i) % n = (c + (i + 1)) % n
  <2>. HIDE DEF d
  <2>. DEFINE k == i + 1
              e == (c + k) % n
              f == (d + i) % n
  <2>1. k \in 0 .. n /\ i \in 0 .. n
    OBVIOUS
  <2>. HIDE DEF k
  <2>2. e = IF c + k < n THEN c + k ELSE c + k - n
    BY <2>1, RingAt
  <2>3. f = IF d + i < n THEN d + i ELSE d + i - n
    BY <2>1, <1>2, RingAt
  <2>. HIDE DEF e, f
  <2>4. e = f
    BY <1>1, <2>2, <2>3 DEF k
  <2>. QED
    BY <2>4 DEF e, f, k
<1>4. (c + 0) % n = c
  OBVIOUS
<1>. QED
  BY <1>2, <1>3, <1>4

-------------------------------------------------------------------------------
(***************************************************************************)
(* The command buffer (GspCommandBuffer).                                  *)
(***************************************************************************)

Adding == {"copy", "store", "retry"}

(* the slot after the commands in the buffer                                *)
Free == (index + total) % Slots

(* the producers use the buffer one at a time                               *)
BufLocked == \A p \in Producers : bufPc[p] # "idle" => bufOwner = p

(* the buffer holds the commands accepted and not executed, in their order, *)
(* but for the one that is being added                                      *)
BufHolds ==
  /\ \A i \in 0 .. total - 1 : slot[(index + i) % Slots] = Len(bufExecuted) + i + 1
  /\ (\A p \in Producers : bufPc[p] \notin Adding) => accepted = Len(bufExecuted) + total

(* the command being added goes to the free slot, wherever GSP has moved    *)
(* the others, and a header that is stored unchanged is the present one     *)
BufAdds ==
  \A p \in Producers :
    /\ bufPc[p] \in Adding => /\ total < Slots
                              /\ accepted = Len(bufExecuted) + total + 1
    /\ bufPc[p] \in {"copy", "store"} =>
         /\ Buffer!NextCmd(header[p]) = Free
         /\ exclusive[p] => header[p] = [index |-> index, total |-> total]
    /\ bufPc[p] \in {"store", "retry"} => slot[Free] = accepted

BufInv == Buffer!TypeOK /\ BufLocked /\ BufHolds /\ BufAdds /\ Buffer!ExecutedOnceInOrder

LEMMA BufConstants ==
  Nobody \notin Producers /\ Slots \in Nat \ {0} /\ MaxCommands \in Nat
BY BufferAssumption DEF Buffer!GspCommandBufferAssumption

LEMMA BufInit == Buffer!Init => BufInv
<1> SUFFICES ASSUME Buffer!Init PROVE BufInv
  OBVIOUS
<1>1. Buffer!TypeOK
  <2>1. /\ index \in 0 .. Slots - 1 /\ total \in 0 .. Slots
        /\ accepted \in 0 .. MaxCommands
    BY BufConstants DEF Buffer!Init
  <2>2. slot \in [0 .. Slots - 1 -> 0 .. MaxCommands]
    BY BufConstants DEF Buffer!Init
  <2>3. 0 \in 0 .. Slots - 1 /\ 0 \in 0 .. Slots
    BY BufConstants
  <2>4. header \in [Producers -> [index : 0 .. Slots - 1, total : 0 .. Slots]]
    BY <2>3 DEF Buffer!Init
  <2>5. bufExecuted \in Seq(0 .. MaxCommands)
    BY DEF Buffer!Init
  <2>. QED
    BY <2>1, <2>2, <2>4, <2>5 DEF Buffer!Init, Buffer!TypeOK, Buffer!Places
<1>. QED
  BY <1>1, BufConstants DEF Buffer!Init, BufInv, BufLocked, BufHolds, BufAdds, Adding,
     Buffer!ExecutedOnceInOrder

(* A producer that moves is there, and the others where they were.          *)
LEMMA BufGoes ==
  ASSUME bufPc \in [Producers -> Buffer!Places], NEW p \in Producers,
         NEW place \in Buffer!Places, Buffer!Goto(p, place)
  PROVE  /\ bufPc' \in [Producers -> Buffer!Places] /\ bufPc'[p] = place
         /\ \A q \in Producers : q # p => bufPc'[q] = bufPc[q]
BY DEF Buffer!Goto

(* Taking the lock, finding the buffer full, and triggering GSP.            *)
LEMMA BufLockStep ==
  ASSUME BufInv, NEW p \in Producers,
         \/ Buffer!Lock(p) \/ Buffer!Trigger(p)
         \/ Buffer!Load(p) /\ Buffer!Full(total)
  PROVE  BufInv'
<1>1. /\ UNCHANGED <<index, total, slot, header, exclusive, accepted, bufExecuted>>
      /\ active' \in BOOLEAN
      /\ \/ bufOwner = Nobody /\ bufOwner' = p /\ bufPc[p] = "idle" /\ bufPc' = bufPc
         \/ bufOwner = p /\ bufOwner' = Nobody /\ bufPc[p] = "idle" /\ bufPc' = bufPc
         \/ /\ bufOwner = p /\ bufOwner' = Nobody /\ bufPc[p] = "trigger"
            /\ Buffer!Goto(p, "idle")
  <2>1. CASE Buffer!Lock(p)
    BY <2>1 DEF Buffer!Lock, BufInv, Buffer!TypeOK
  <2>2. CASE Buffer!Load(p) /\ Buffer!Full(total)
    BY <2>2 DEF Buffer!Load, BufInv, Buffer!TypeOK
  <2>3. CASE Buffer!Trigger(p)
    <3>1. bufOwner = p
      BY <2>3 DEF Buffer!Trigger, BufInv, BufLocked
    <3>2. active' \in BOOLEAN
      BY <2>3 DEF Buffer!Trigger, BufInv, Buffer!TypeOK
    <3>. QED
      BY <2>3, <3>1, <3>2 DEF Buffer!Trigger
  <2>. QED
    BY <2>1, <2>2, <2>3
<1>2. "idle" \in Buffer!Places
  BY DEF Buffer!Places
<1>3. /\ bufPc' \in [Producers -> Buffer!Places] /\ bufPc'[p] = "idle"
      /\ \A q \in Producers : q # p => bufPc'[q] = bufPc[q]
  BY <1>1, <1>2, BufGoes DEF BufInv, Buffer!TypeOK
<1>4. Buffer!TypeOK'
  BY <1>1, <1>3 DEF BufInv, Buffer!TypeOK
<1>5. BufLocked'
  BY <1>1, <1>3, BufConstants DEF BufInv, BufLocked
<1>6. BufHolds'
  BY <1>1, <1>3 DEF BufInv, BufHolds, Adding
<1>7. BufAdds'
  BY <1>1, <1>3 DEF BufInv, BufAdds, Adding, Free, Buffer!NextCmd
<1>. QED
  BY <1>1, <1>4, <1>5, <1>6, <1>7 DEF BufInv, Buffer!ExecutedOnceInOrder

(* Loading the header of a buffer with room for the command.                *)
LEMMA BufLoad ==
  ASSUME BufInv, NEW p \in Producers, Buffer!Load(p), ~Buffer!Full(total)
  PROVE  BufInv'
<1>1. /\ bufPc[p] = "idle" /\ bufOwner = p /\ accepted < MaxCommands
      /\ accepted' = accepted + 1
      /\ header' = [header EXCEPT ![p] = [index |-> index, total |-> total]]
      /\ exclusive' = [exclusive EXCEPT ![p] = TRUE]
      /\ Buffer!Goto(p, "copy")
      /\ UNCHANGED <<index, total, slot, bufOwner, active, bufExecuted>>
  BY DEF Buffer!Load
<1>2. total < Slots
  BY BufConstants DEF Buffer!Full, BufInv, Buffer!TypeOK
<1>3. "copy" \in Buffer!Places
  BY DEF Buffer!Places
<1>4. /\ bufPc' \in [Producers -> Buffer!Places] /\ bufPc'[p] = "copy"
      /\ \A q \in Producers : q # p => bufPc'[q] = bufPc[q]
  BY <1>1, <1>3, BufGoes DEF BufInv, Buffer!TypeOK
<1>5. \A q \in Producers : bufPc[q] = "idle"
  BY <1>1 DEF BufInv, BufLocked
<1>6. accepted = Len(bufExecuted) + total
  BY <1>5 DEF BufInv, BufHolds, Adding
<1>7. header'[p] = [index |-> index, total |-> total]
  BY <1>1 DEF BufInv, Buffer!TypeOK
<1>8. Buffer!TypeOK'
  <2>1. header' \in [Producers -> [index : 0 .. Slots - 1, total : 0 .. Slots]]
    BY <1>1 DEF BufInv, Buffer!TypeOK
  <2>2. accepted' \in 0 .. MaxCommands
    BY <1>1, BufConstants DEF BufInv, Buffer!TypeOK
  <2>3. exclusive' \in [Producers -> BOOLEAN]
    BY <1>1 DEF BufInv, Buffer!TypeOK
  <2>. QED
    BY <1>1, <1>4, <2>1, <2>2, <2>3 DEF BufInv, Buffer!TypeOK
<1>9. BufLocked'
  BY <1>1, <1>4 DEF BufInv, BufLocked
<1>10. BufHolds'
  BY <1>1, <1>4 DEF BufInv, BufHolds, Adding
<1>11. BufAdds'
  <2>1. ASSUME NEW q \in Producers, q # p PROVE bufPc'[q] = "idle"
    BY <1>4, <1>5, <2>1
  <2>2. accepted' = Len(bufExecuted') + total' + 1
    BY <1>1, <1>6, BufConstants DEF BufInv, Buffer!TypeOK
  <2>3. Buffer!NextCmd(header[p])' = Free'
    BY <1>1, <1>7 DEF Buffer!NextCmd, Free
  <2>. QED
    BY <1>1, <1>2, <1>4, <1>7, <2>1, <2>2, <2>3 DEF BufAdds, Adding
<1>. QED
  BY <1>1, <1>8, <1>9, <1>10, <1>11 DEF BufInv, Buffer!ExecutedOnceInOrder

(* Copying the command into the free slot.                                  *)
LEMMA BufCopy ==
  ASSUME BufInv, NEW p \in Producers, Buffer!Copy(p)
  PROVE  BufInv'
<1>1. /\ bufPc[p] = "copy" /\ Buffer!Goto(p, "store")
      /\ slot' = [slot EXCEPT ![Buffer!NextCmd(header[p])] = accepted]
      /\ UNCHANGED <<index, total, bufOwner, header, exclusive, active, accepted, bufExecuted>>
  BY DEF Buffer!Copy
<1>2. "store" \in Buffer!Places
  BY DEF Buffer!Places
<1>3. /\ bufPc' \in [Producers -> Buffer!Places] /\ bufPc'[p] = "store"
      /\ \A q \in Producers : q # p => bufPc'[q] = bufPc[q]
  BY <1>1, <1>2, BufGoes DEF BufInv, Buffer!TypeOK
<1>4. \A q \in Producers : q # p => bufPc[q] = "idle"
  BY <1>1 DEF BufInv, BufLocked
<1>5. /\ total < Slots /\ Buffer!NextCmd(header[p]) = Free
      /\ accepted = Len(bufExecuted) + total + 1
  BY <1>1 DEF BufInv, BufAdds, Adding
<1>6. /\ index \in 0 .. Slots - 1 /\ total \in 0 .. Slots - 1
      /\ slot \in [0 .. Slots - 1 -> 0 .. MaxCommands] /\ accepted \in 0 .. MaxCommands
  BY <1>5, BufConstants DEF BufInv, Buffer!TypeOK
<1>7. Free \in 0 .. Slots - 1
  BY <1>6, BufConstants, RingApart DEF Free
<1>8. /\ slot' \in [0 .. Slots - 1 -> 0 .. MaxCommands] /\ slot'[Free] = accepted
      /\ \A k \in 0 .. Slots - 1 : k # Free => slot'[k] = slot[k]
  BY <1>1, <1>5, <1>6, <1>7
<1>9. ASSUME NEW i \in 0 .. total - 1
      PROVE  slot'[(index + i) % Slots] = slot[(index + i) % Slots]
  <2>1. i \in 0 .. Slots - 1 /\ i # total
    BY <1>6, BufConstants
  <2>2. (index + i) % Slots \in 0 .. Slots - 1 /\ (index + i) % Slots # Free
    BY <1>6, <2>1, BufConstants, RingApart DEF Free
  <2>. QED
    BY <1>8, <2>2
<1>10. Buffer!TypeOK'
  BY <1>1, <1>3, <1>8 DEF BufInv, Buffer!TypeOK
<1>11. BufLocked'
  BY <1>1, <1>3 DEF BufInv, BufLocked
<1>12. BufHolds'
  <2>1. \A i \in 0 .. total' - 1 : slot'[(index' + i) % Slots] = Len(bufExecuted') + i + 1
    BY <1>1, <1>9 DEF BufInv, BufHolds
  <2>. QED
    BY <1>3, <2>1 DEF BufHolds, Adding
<1>13. BufAdds'
  <2>1. Free' = Free /\ \A q \in Producers : Buffer!NextCmd(header[q])' = Buffer!NextCmd(header[q])
    BY <1>1 DEF Free, Buffer!NextCmd
  <2>2. exclusive[p] => header[p] = [index |-> index, total |-> total]
    BY <1>1 DEF BufInv, BufAdds
  <2>3. slot'[Free'] = accepted'
    BY <1>1, <1>8, <2>1
  <2>. QED
    BY <1>1, <1>3, <1>4, <1>5, <2>1, <2>2, <2>3 DEF BufAdds, Adding
<1>. QED
  BY <1>1, <1>10, <1>11, <1>12, <1>13 DEF BufInv, Buffer!ExecutedOnceInOrder

(* Counting the command that is in the free slot.                           *)
LEMMA BufCount ==
  ASSUME BufInv, NEW p \in Producers, bufPc[p] \in {"store", "retry"},
         Buffer!StoreHeader(p, index, total + 1),
         UNCHANGED <<slot, bufOwner, active, accepted, bufExecuted>>
  PROVE  BufInv'
<1>1. /\ index' = index /\ total' = total + 1
      /\ exclusive' = [q \in Producers |-> FALSE]
      /\ header' = [header EXCEPT ![p] = [index |-> index, total |-> total + 1]]
      /\ Buffer!Goto(p, "trigger")
  BY DEF Buffer!StoreHeader, Buffer!BreakReservations
<1>2. "trigger" \in Buffer!Places
  BY DEF Buffer!Places
<1>3. /\ bufPc' \in [Producers -> Buffer!Places] /\ bufPc'[p] = "trigger"
      /\ \A q \in Producers : q # p => bufPc'[q] = bufPc[q]
  BY <1>1, <1>2, BufGoes DEF BufInv, Buffer!TypeOK
<1>4. \A q \in Producers : q # p => bufPc[q] = "idle"
  BY DEF BufInv, BufLocked
<1>5. /\ total < Slots /\ slot[Free] = accepted
      /\ accepted = Len(bufExecuted) + total + 1
  BY DEF BufInv, BufAdds, Adding
<1>6. /\ index \in 0 .. Slots - 1 /\ total \in 0 .. Slots - 1 /\ total + 1 \in 0 .. Slots
      /\ Len(bufExecuted) \in Nat
  BY <1>5, BufConstants DEF BufInv, Buffer!TypeOK
<1>7. Buffer!TypeOK'
  <2>1. header' \in [Producers -> [index : 0 .. Slots - 1, total : 0 .. Slots]]
    BY <1>1, <1>6 DEF BufInv, Buffer!TypeOK
  <2>. QED
    BY <1>1, <1>3, <1>6, <2>1 DEF BufInv, Buffer!TypeOK
<1>8. BufLocked'
  BY <1>3, <1>4 DEF BufInv, BufLocked
<1>9. BufHolds'
  <2>1. ASSUME NEW i \in 0 .. total PROVE slot[(index + i) % Slots] = Len(bufExecuted) + i + 1
    <3>1. CASE i = total
      BY <1>5, <3>1 DEF Free
    <3>2. CASE i # total
      <4>1. i \in 0 .. total - 1
        BY <1>6, <3>2
      <4>. QED
        BY <4>1 DEF BufInv, BufHolds
    <3>. QED
      BY <3>1, <3>2
  <2>2. \A i \in 0 .. total' - 1 : slot'[(index' + i) % Slots] = Len(bufExecuted') + i + 1
    <3>1. total' - 1 = total
      BY <1>1, <1>6
    <3>. QED
      BY <1>1, <2>1, <3>1
  <2>3. accepted' = Len(bufExecuted') + total'
    BY <1>1, <1>5, <1>6
  <2>. QED
    BY <2>2, <2>3 DEF BufHolds
<1>10. BufAdds'
  BY <1>3, <1>4 DEF BufAdds, Adding
<1>. QED
  BY <1>7, <1>8, <1>9, <1>10 DEF BufInv, Buffer!ExecutedOnceInOrder

(* Storing a header that GSP has not changed, or finding that it has.       *)
LEMMA BufStore ==
  ASSUME BufInv, NEW p \in Producers, Buffer!Store(p)
  PROVE  BufInv'
<1>1. bufPc[p] = "store" /\ UNCHANGED <<slot, bufOwner, active, accepted, bufExecuted>>
  BY DEF Buffer!Store
<1>2. CASE exclusive[p]
  <2>1. header[p] = [index |-> index, total |-> total]
    BY <1>1, <1>2 DEF BufInv, BufAdds
  <2>2. Buffer!StoreHeader(p, index, total + 1)
    BY <1>2, <2>1 DEF Buffer!Store
  <2>. QED
    BY <1>1, <2>2, BufCount
<1>3. CASE ~exclusive[p]
  <2>1. Buffer!Goto(p, "retry") /\ UNCHANGED <<index, total, header, exclusive>>
    BY <1>3 DEF Buffer!Store
  <2>2. "retry" \in Buffer!Places
    BY DEF Buffer!Places
  <2>3. /\ bufPc' \in [Producers -> Buffer!Places] /\ bufPc'[p] = "retry"
        /\ \A q \in Producers : q # p => bufPc'[q] = bufPc[q]
    BY <2>1, <2>2, BufGoes DEF BufInv, Buffer!TypeOK
  <2>4. Buffer!TypeOK'
    BY <1>1, <2>1, <2>3 DEF BufInv, Buffer!TypeOK
  <2>5. BufLocked'
    BY <1>1, <2>3 DEF BufInv, BufLocked
  <2>6. BufHolds'
    BY <1>1, <2>1, <2>3 DEF BufInv, BufHolds, Adding
  <2>7. BufAdds'
    BY <1>1, <2>1, <2>3 DEF BufInv, BufAdds, Adding, Free, Buffer!NextCmd
  <2>. QED
    BY <1>1, <2>4, <2>5, <2>6, <2>7 DEF BufInv, Buffer!ExecutedOnceInOrder
<1>. QED
  BY <1>2, <1>3

(* Counting it in the header as GSP has left it.                            *)
LEMMA BufRetry ==
  ASSUME BufInv, NEW p \in Producers, Buffer!Retry(p)
  PROVE  BufInv'
BY BufCount DEF Buffer!Retry

(* GSP takes the first command off: the free slot stays where it is.        *)
LEMMA BufExecutes ==
  ASSUME BufInv, Buffer!GspExecutes
  PROVE  BufInv'
<1>1. /\ total > 0
      /\ bufExecuted' = Append(bufExecuted, slot[index])
      /\ index' = (index + 1) % Slots /\ total' = total - 1
      /\ exclusive' = [q \in Producers |-> FALSE]
      /\ UNCHANGED <<slot, bufOwner, bufPc, header, active, accepted>>
  BY DEF Buffer!GspExecutes, Buffer!BreakReservations
<1>2. /\ index \in 0 .. Slots - 1 /\ total \in 0 .. Slots /\ total - 1 \in 0 .. Slots - 1
      /\ slot \in [0 .. Slots - 1 -> 0 .. MaxCommands]
      /\ bufExecuted \in Seq(0 .. MaxCommands) /\ Len(bufExecuted) \in Nat
  BY <1>1, BufConstants DEF BufInv, Buffer!TypeOK
<1>3. index' \in 0 .. Slots - 1
  BY <1>1, <1>2, BufConstants, RingNext
<1>4. \A i \in 0 .. Slots - 1 : (index' + i) % Slots = (index + (i + 1)) % Slots
  BY <1>1, <1>2, BufConstants, RingNext
<1>5. slot[index] = Len(bufExecuted) + 1
  <2>1. 0 \in 0 .. total - 1 /\ (index + 0) % Slots = index
    <3>1. 0 \in 0 .. total - 1
      BY <1>1, <1>2
    <3>2. (index + 0) % Slots = index
      BY ONLY <1>2, BufConstants, RingNext
    <3>. QED
      BY <3>1, <3>2
  <2>2. slot[(index + 0) % Slots] = Len(bufExecuted) + 0 + 1
    BY <2>1 DEF BufInv, BufHolds
  <2>. QED
    BY <1>2, <2>1, <2>2
<1>6. /\ bufExecuted' \in Seq(0 .. MaxCommands) /\ Len(bufExecuted') = Len(bufExecuted) + 1
      /\ bufExecuted'[Len(bufExecuted) + 1] = Len(bufExecuted) + 1
      /\ \A i \in 1 .. Len(bufExecuted) : bufExecuted'[i] = bufExecuted[i]
  BY <1>1, <1>2, <1>5
<1>7. Buffer!ExecutedOnceInOrder'
  BY <1>2, <1>6 DEF BufInv, Buffer!ExecutedOnceInOrder
<1>8. Free' = Free
  <2>1. (index' + (total - 1)) % Slots = (index + ((total - 1) + 1)) % Slots
    BY <1>2, <1>4
  <2>2. (total - 1) + 1 = total
    BY <1>2
  <2>. QED
    BY <1>1, <2>1, <2>2 DEF Free
<1>9. Buffer!TypeOK'
  <2>1. total' \in 0 .. Slots
    BY <1>1, <1>2, BufConstants
  <2>. QED
    BY <1>1, <1>3, <1>6, <2>1 DEF BufInv, Buffer!TypeOK
<1>10. BufLocked'
  BY <1>1 DEF BufInv, BufLocked
<1>11. Len(bufExecuted') + total' = Len(bufExecuted) + total
  BY <1>1, <1>2, <1>6
<1>12. BufHolds'
  <2>1. ASSUME NEW i \in 0 .. total' - 1
        PROVE  slot'[(index' + i) % Slots] = Len(bufExecuted') + i + 1
    <3>1. i \in 0 .. Slots - 1 /\ i + 1 \in 0 .. total - 1
      BY <1>1, <1>2, BufConstants
    <3>2. slot[(index + (i + 1)) % Slots] = Len(bufExecuted) + (i + 1) + 1
      BY <3>1 DEF BufInv, BufHolds
    <3>3. Len(bufExecuted) + (i + 1) + 1 = Len(bufExecuted') + i + 1
      BY <1>2, <1>6, <3>1
    <3>. QED
      BY <1>1, <1>4, <3>1, <3>2, <3>3
  <2>2. (\A p \in Producers : bufPc'[p] \notin Adding) => accepted' = Len(bufExecuted') + total'
    BY <1>1, <1>11 DEF BufInv, BufHolds
  <2>. QED
    BY <2>1, <2>2 DEF BufHolds
<1>13. BufAdds'
  <2>1. \A p \in Producers : Buffer!NextCmd(header[p])' = Buffer!NextCmd(header[p])
    BY <1>1 DEF Buffer!NextCmd
  <2>2. total' < total
    BY <1>1, <1>2
  <2>3. ASSUME NEW p \in Producers, bufPc[p] \in Adding
        PROVE  total' < Slots /\ accepted' = Len(bufExecuted') + total' + 1
    <3>1. total < Slots /\ accepted = Len(bufExecuted) + total + 1
      BY <2>3 DEF BufInv, BufAdds
    <3>. QED
      BY <1>1, <1>2, <1>11, <2>2, <3>1, BufConstants
  <2>4. ASSUME NEW p \in Producers, bufPc[p] \in {"copy", "store"}
        PROVE  Buffer!NextCmd(header[p])' = Free' /\ ~exclusive'[p]
    BY <1>1, <1>8, <2>1, <2>4 DEF BufInv, BufAdds
  <2>5. ASSUME NEW p \in Producers, bufPc[p] \in {"store", "retry"}
        PROVE  slot'[Free'] = accepted'
    BY <1>1, <1>8, <2>5 DEF BufInv, BufAdds
  <2>. QED
    BY <1>1, <2>3, <2>4, <2>5 DEF BufAdds
<1>. QED
  BY <1>7, <1>9, <1>10, <1>12, <1>13 DEF BufInv

(* Every step of the buffer, and the steps of the other parts.              *)
LEMMA BufNext == BufInv /\ (Buffer!Next \/ UNCHANGED bufVars) => BufInv'
<1> SUFFICES ASSUME BufInv, Buffer!Next \/ UNCHANGED bufVars PROVE BufInv'
  OBVIOUS
<1>1. CASE Buffer!GspExecutes
  BY <1>1, BufExecutes
<1>2. CASE Buffer!GspRests \/ UNCHANGED bufVars
  <2>1. /\ UNCHANGED <<index, total, slot, bufOwner, bufPc, header, exclusive, accepted, bufExecuted>>
        /\ active' \in BOOLEAN
    BY <1>2 DEF Buffer!GspRests, bufVars, BufInv, Buffer!TypeOK
  <2>2. Buffer!TypeOK'
    BY <2>1 DEF BufInv, Buffer!TypeOK
  <2>. QED
    BY <2>1, <2>2 DEF BufInv, BufLocked, BufHolds, BufAdds, Adding, Free, Buffer!NextCmd,
       Buffer!ExecutedOnceInOrder
<1>3. ASSUME NEW p \in Producers, Buffer!Lock(p) \/ Buffer!Load(p) \/ Buffer!Proceeds(p)
      PROVE  BufInv'
  BY <1>3, BufLockStep, BufLoad, BufCopy, BufStore, BufRetry DEF Buffer!Proceeds
<1>. QED
  BY <1>1, <1>2, <1>3 DEF Buffer!Next, Buffer!Gsp

(* GSP executes what was submitted in the order of submission, each command *)
(* once, whatever the number of slots and of producers, and however its     *)
(* execution falls between the exclusive loads and stores of a producer.    *)
THEOREM CommandsExecuteInOrder == GpuSpec => []ExecutedOnceInOrder
<1>1. GpuInit => BufInv
  BY BufInit DEF GpuInit
<1>2. BufInv /\ [GpuNext]_<<level, vars, bufVars, eventVars>> => BufInv'
  BY BufNext DEF GpuNext
<1>3. BufInv => ExecutedOnceInOrder
  BY DEF BufInv, ExecutedOnceInOrder
<1>. QED
  BY <1>1, <1>2, <1>3, PTL DEF GpuSpec

-------------------------------------------------------------------------------
(***************************************************************************)
(* The interrupts (GspEvents).                                             *)
(***************************************************************************)

AtPlaces == {"loops", "waits", "clears", "checks", "pops", "stores",
             "signals", "stamps", "arbitrates", "ended"}
Headers == [cur : Events!RingIndices, count : 0 .. RingSlots]

EvTypes ==
  /\ ring \in [slot : [Events!RingIndices -> EventIds \cup {Events!NoEvent}],
              cur : Events!RingIndices, count : 0 .. RingSlots]
  /\ thread \in [at : AtPlaces, curEvt : EventIds \cup {Events!NoEvent}, header : Headers]
  /\ waiter \in [at : {"idle", "waits", "clears", "stops", "joins", "closed"},
                 id : EventIds \cup {Events!NoEvent}, nextEvent : BOOLEAN]
  /\ queued \in Seq(EventIds)
  /\ reserved \in BOOLEAN /\ signalled \in BOOLEAN /\ gspRunEvents \in BOOLEAN
  /\ gspEvents \subseteq EventIds
  /\ gspLastEvent \in EventIds \cup {Events!NoEvent}
  /\ anyone \in {"absent", "idle", "loads", "sleeps", "asleep"}
  /\ raised \in 0 .. MaxInterrupts

(* the ring holds what was queued and not taken off, in its order           *)
EvHolds ==
  /\ Len(queued) = ring.count
  /\ \A k \in 0 .. ring.count - 1 : ring.slot[(ring.cur + k) % RingSlots] = queued[k + 1]

(* what the event thread has loaded is what the ring still says, as long as *)
(* its store would succeed                                                  *)
EvPops ==
  thread.at = "stores" /\ reserved =>
    /\ ring.count > 0
    /\ thread.curEvt = queued[1]
    /\ thread.header = [cur |-> (ring.cur + 1) % RingSlots, count |-> ring.count - 1]

(* an event that is passed on was read from a slot in use                   *)
EvPasses == thread.at \in {"stores", "signals", "stamps"} => thread.curEvt \in EventIds

EvInv == EvTypes /\ EvHolds /\ EvPops /\ EvPasses

LEMMA EventsConstants ==
  /\ EventIds \subseteq Nat /\ RingSlots \in Nat \ {0} /\ MaxInterrupts \in Nat
  /\ Events!NoEvent \notin EventIds /\ Events!RingIndices = 0 .. RingSlots - 1
BY EventsAssumption DEF Events!GspEventsAssumption, Events!NoEvent, Events!RingIndices

LEMMA EvInit == Events!Init => EvInv
<1> SUFFICES ASSUME Events!Init PROVE EvInv
  OBVIOUS
<1>1. /\ ring = [slot |-> [i \in Events!RingIndices |-> Events!NoEvent], cur |-> 0, count |-> 0]
      /\ thread = [at |-> "loops", curEvt |-> Events!NoEvent, header |-> [cur |-> 0, count |-> 0]]
      /\ waiter = [at |-> "idle", id |-> Events!NoEvent, nextEvent |-> FALSE]
      /\ reserved = FALSE /\ signalled = FALSE /\ gspRunEvents = TRUE
      /\ gspEvents = {} /\ gspLastEvent = Events!NoEvent /\ queued = <<>> /\ raised = 0
      /\ anyone \in {"absent", "idle"}
  BY DEF Events!Init
<1>2. 0 \in Events!RingIndices /\ 0 \in 0 .. RingSlots /\ 0 \in 0 .. MaxInterrupts
  BY EventsConstants
<1>3. ring \in [slot : [Events!RingIndices -> EventIds \cup {Events!NoEvent}],
               cur : Events!RingIndices, count : 0 .. RingSlots]
  BY <1>1, <1>2
<1>4. thread \in [at : AtPlaces, curEvt : EventIds \cup {Events!NoEvent}, header : Headers]
  BY <1>1, <1>2 DEF AtPlaces, Headers
<1>. QED
  BY <1>1, <1>2, <1>3, <1>4 DEF EvInv, EvTypes, EvHolds, EvPops, EvPasses

LEMMA EvTyped == EvTypes => Events!TypeOK
BY DEF EvTypes, Events!TypeOK, AtPlaces

(* GSP queues an interrupt.                                                 *)
LEMMA EvInterrupt ==
  ASSUME EvInv, NEW e \in EventIds, Events!Interrupt(e)
  PROVE  EvInv'
<1>1. /\ raised < MaxInterrupts /\ ring.count < RingSlots
      /\ ring' = [ring EXCEPT !.slot[(ring.cur + ring.count) % RingSlots] = e, !.count = @ + 1]
      /\ reserved' = FALSE /\ signalled' = TRUE
      /\ queued' = Append(queued, e) /\ raised' = raised + 1
      /\ UNCHANGED <<gspRunEvents, thread, gspEvents, gspLastEvent, waiter, anyone>>
  BY DEF Events!Interrupt
<1>. DEFINE free == (ring.cur + ring.count) % RingSlots
<1>2. /\ ring.cur \in 0 .. RingSlots - 1 /\ ring.count \in 0 .. RingSlots - 1
      /\ ring.slot \in [0 .. RingSlots - 1 -> EventIds \cup {Events!NoEvent}]
      /\ queued \in Seq(EventIds) /\ Len(queued) = ring.count
  BY <1>1, EventsConstants DEF EvInv, EvTypes, EvHolds
<1>3. free \in 0 .. RingSlots - 1
  BY <1>2, EventsConstants, RingApart
<1>4. /\ ring'.cur = ring.cur /\ ring'.count = ring.count + 1
      /\ ring'.slot = [ring.slot EXCEPT ![free] = e]
  BY <1>1 DEF EvInv, EvTypes
<1>5. ring' = [slot |-> [ring.slot EXCEPT ![free] = e], cur |-> ring.cur, count |-> ring.count + 1]
  BY <1>1 DEF EvInv, EvTypes
<1>. HIDE DEF free
<1>6. ring' \in [slot : [Events!RingIndices -> EventIds \cup {Events!NoEvent}],
                cur : Events!RingIndices, count : 0 .. RingSlots]
  <2>1. [ring.slot EXCEPT ![free] = e] \in [0 .. RingSlots - 1 -> EventIds \cup {Events!NoEvent}]
    BY <1>2, <1>3
  <2>2. ring.count + 1 \in 0 .. RingSlots
    BY <1>2, EventsConstants
  <2>. QED
    BY <1>2, <1>5, <2>1, <2>2, EventsConstants
<1>7. EvTypes'
  <2>1. raised' \in 0 .. MaxInterrupts
    BY <1>1, EventsConstants DEF EvInv, EvTypes
  <2>2. queued' \in Seq(EventIds)
    BY <1>1, <1>2
  <2>. QED
    BY <1>1, <1>6, <2>1, <2>2 DEF EvInv, EvTypes
<1>8. EvHolds'
  <2>1. Len(queued') = ring'.count
    BY <1>1, <1>2, <1>4
  <2>2. ASSUME NEW k \in 0 .. ring.count
        PROVE  ring'.slot[(ring.cur + k) % RingSlots] = queued'[k + 1]
    <3>1. CASE k = ring.count
      <4>1. ring'.slot[free] = e
        BY <1>2, <1>3, <1>4
      <4>2. queued'[ring.count + 1] = e
        BY <1>1, <1>2
      <4>. QED
        BY <3>1, <4>1, <4>2 DEF free
    <3>2. CASE k # ring.count
      <4>1. k \in 0 .. ring.count - 1 /\ k \in 0 .. RingSlots - 1 /\ k + 1 \in 1 .. Len(queued)
        BY <1>2, <3>2, EventsConstants
      <4>2. (ring.cur + k) % RingSlots \in 0 .. RingSlots - 1 /\ (ring.cur + k) % RingSlots # free
        BY <1>2, <3>2, <4>1, EventsConstants, RingApart DEF free
      <4>3. ring'.slot[(ring.cur + k) % RingSlots] = ring.slot[(ring.cur + k) % RingSlots]
        BY <1>2, <1>3, <1>4, <4>2
      <4>4. queued'[k + 1] = queued[k + 1]
        BY <1>1, <1>2, <4>1
      <4>5. ring.slot[(ring.cur + k) % RingSlots] = queued[k + 1]
        BY <4>1 DEF EvInv, EvHolds
      <4>. QED
        BY <4>3, <4>4, <4>5
    <3>. QED
      BY <3>1, <3>2
  <2>3. ring'.count - 1 = ring.count
    BY <1>2, <1>4
  <2>. QED
    BY <1>4, <2>1, <2>2, <2>3 DEF EvHolds
<1>. QED
  BY <1>1, <1>7, <1>8 DEF EvInv, EvPops, EvPasses

(* The event thread loads the header and reads the first slot.              *)
LEMMA EvPopLoad ==
  ASSUME EvInv, Events!PopLoad
  PROVE  EvInv'
<1>1. UNCHANGED <<ring, signalled, gspRunEvents, gspEvents, gspLastEvent, waiter, anyone, queued, raised>>
  BY DEF Events!PopLoad
<1>2. CASE ring.count = 0
  <2>1. thread' = [thread EXCEPT !.at = "loops"] /\ UNCHANGED reserved
    BY <1>2 DEF Events!PopLoad, Events!ThreadGoes
  <2>2. thread' \in [at : AtPlaces, curEvt : EventIds \cup {Events!NoEvent}, header : Headers]
        /\ thread'.at = "loops"
    BY <2>1 DEF EvInv, EvTypes, AtPlaces
  <2>3. EvTypes'
    BY <1>1, <2>1, <2>2 DEF EvInv, EvTypes
  <2>. QED
    BY <1>1, <2>2, <2>3 DEF EvInv, EvHolds, EvPops, EvPasses
<1>3. CASE ring.count # 0
  <2>1. /\ thread' = [at |-> "stores", curEvt |-> ring.slot[ring.cur],
                     header |-> [cur |-> (ring.cur + 1) % RingSlots, count |-> ring.count - 1]]
        /\ reserved' = TRUE
    BY <1>3 DEF Events!PopLoad
  <2>2. /\ ring.cur \in 0 .. RingSlots - 1 /\ ring.count \in 1 .. RingSlots
        /\ queued \in Seq(EventIds) /\ Len(queued) = ring.count
    BY <1>3, EventsConstants DEF EvInv, EvTypes, EvHolds
  <2>3. ring.slot[ring.cur] = queued[1]
    <3>1. 0 \in 0 .. ring.count - 1
      BY <2>2
    <3>2. (ring.cur + 0) % RingSlots = ring.cur
      BY ONLY <2>2, EventsConstants, RingNext
    <3>3. ring.slot[(ring.cur + 0) % RingSlots] = queued[0 + 1]
      BY <3>1 DEF EvInv, EvHolds
    <3>. QED
      BY <3>2, <3>3
  <2>4. queued[1] \in EventIds
    BY <2>2
  <2>5. (ring.cur + 1) % RingSlots \in 0 .. RingSlots - 1
    BY <2>2, EventsConstants, RingNext
  <2>6. ring.count - 1 \in 0 .. RingSlots
    BY <2>2, EventsConstants
  <2>7. thread' \in [at : AtPlaces, curEvt : EventIds \cup {Events!NoEvent}, header : Headers]
    BY <2>1, <2>3, <2>4, <2>5, <2>6, EventsConstants DEF AtPlaces, Headers
  <2>8. EvTypes'
    BY <1>1, <2>1, <2>7 DEF EvInv, EvTypes
  <2>9. EvPops'
    BY <1>1, <2>1, <2>2, <2>3 DEF EvPops
  <2>10. EvPasses'
    BY <2>1, <2>3, <2>4 DEF EvPasses
  <2>. QED
    BY <1>1, <2>8, <2>9, <2>10 DEF EvInv, EvHolds
<1>. QED
  BY <1>2, <1>3

(* Its store takes the first interrupt off the ring, or changes nothing.    *)
LEMMA EvPopStore ==
  ASSUME EvInv, Events!PopStore
  PROVE  EvInv'
<1>1. /\ thread.at = "stores" /\ reserved' = FALSE
      /\ thread' = [thread EXCEPT !.at = IF reserved THEN "signals" ELSE "pops"]
      /\ UNCHANGED <<signalled, gspRunEvents, gspEvents, gspLastEvent, waiter, anyone, raised>>
  BY DEF Events!PopStore, Events!ThreadGoes
<1>2. /\ thread' \in [at : AtPlaces, curEvt : EventIds \cup {Events!NoEvent}, header : Headers]
      /\ thread'.curEvt = thread.curEvt /\ thread'.at # "stores"
  BY <1>1 DEF EvInv, EvTypes, AtPlaces
<1>3. EvPops' /\ EvPasses'
  BY <1>1, <1>2 DEF EvInv, EvPops, EvPasses
<1>4. CASE ~reserved
  <2>1. UNCHANGED <<ring, queued>>
    BY <1>4 DEF Events!PopStore
  <2>2. EvTypes'
    BY <1>1, <1>2, <2>1 DEF EvInv, EvTypes
  <2>. QED
    BY <1>3, <2>1, <2>2 DEF EvInv, EvHolds
<1>5. CASE reserved
  <2>1. /\ ring' = [ring EXCEPT !.cur = thread.header.cur, !.count = thread.header.count]
        /\ queued' = Tail(queued)
    BY <1>5 DEF Events!PopStore, Events!StoreHeader
  <2>2. /\ ring.count > 0
        /\ thread.header = [cur |-> (ring.cur + 1) % RingSlots, count |-> ring.count - 1]
    BY <1>1, <1>5 DEF EvInv, EvPops
  <2>3. /\ ring.cur \in 0 .. RingSlots - 1 /\ ring.count \in 1 .. RingSlots
        /\ queued \in Seq(EventIds) /\ Len(queued) = ring.count
    BY <2>2, EventsConstants DEF EvInv, EvTypes, EvHolds
  <2>4. /\ (ring.cur + 1) % RingSlots \in 0 .. RingSlots - 1
        /\ \A i \in 0 .. RingSlots - 1 :
             (((ring.cur + 1) % RingSlots) + i) % RingSlots = (ring.cur + (i + 1)) % RingSlots
    BY <2>3, EventsConstants, RingNext
  <2>5. ring' = [slot |-> ring.slot, cur |-> (ring.cur + 1) % RingSlots, count |-> ring.count - 1]
    <3>1. ring = [slot |-> ring.slot, cur |-> ring.cur, count |-> ring.count]
      BY DEF EvInv, EvTypes
    <3>2. /\ thread.header.cur = (ring.cur + 1) % RingSlots
          /\ thread.header.count = ring.count - 1
      BY <2>2
    <3>. QED
      BY <2>1, <3>1, <3>2
  <2>6. ring.count - 1 \in 0 .. RingSlots
    BY <2>3, EventsConstants
  <2>7. ring' \in [slot : [Events!RingIndices -> EventIds \cup {Events!NoEvent}],
                  cur : Events!RingIndices, count : 0 .. RingSlots]
    BY <2>4, <2>5, <2>6, EventsConstants DEF EvInv, EvTypes
  <2>8. /\ queued' \in Seq(EventIds) /\ Len(queued') = ring.count - 1
        /\ \A k \in 1 .. ring.count - 1 : queued'[k] = queued[k + 1]
    <3>1. queued # <<>>
      BY <2>3
    <3>. QED
      BY <2>1, <2>3, <3>1
  <2>9. EvTypes'
    BY <1>1, <1>2, <2>7, <2>8 DEF EvInv, EvTypes
  <2>10. EvHolds'
    <3>1. ASSUME NEW k \in 0 .. ring.count - 2
          PROVE  ring.slot[(((ring.cur + 1) % RingSlots) + k) % RingSlots] = queued'[k + 1]
      <4>1. /\ k \in 0 .. RingSlots - 1 /\ k + 1 \in 0 .. ring.count - 1
            /\ k + 1 \in 1 .. ring.count - 1
        BY <2>3, EventsConstants
      <4>2. ring.slot[(ring.cur + (k + 1)) % RingSlots] = queued[(k + 1) + 1]
        BY <4>1 DEF EvInv, EvHolds
      <4>3. queued'[k + 1] = queued[(k + 1) + 1]
        BY <2>8, <4>1
      <4>. QED
        BY <2>4, <4>1, <4>2, <4>3
    <3>2. ring'.count - 1 = ring.count - 2
      BY <2>3, <2>5
    <3>. QED
      BY <2>5, <2>8, <3>1, <3>2 DEF EvHolds
  <2>. QED
    BY <1>3, <2>9, <2>10 DEF EvInv
<1>. QED
  BY <1>4, <1>5

(* The other steps of the event thread.                                     *)
LEMMA EvThread ==
  ASSUME EvInv, Events!EventThread, ~Events!PopLoad, ~Events!PopStore
  PROVE  EvInv'
<1>1. /\ UNCHANGED <<ring, reserved, gspRunEvents, waiter, queued, raised>>
      /\ \E to \in AtPlaces \ {"stores"} :
           /\ thread' = [thread EXCEPT !.at = to]
           /\ to = "signals" => FALSE
           /\ to = "stamps" => thread.at = "signals"
      /\ signalled' \in {signalled, FALSE}
      /\ anyone' \in {anyone, "loads"}
      /\ \/ UNCHANGED <<gspEvents, gspLastEvent>>
         \/ /\ thread.at \in {"signals", "stamps"}
            /\ gspEvents' \in {gspEvents, gspEvents \cup {thread.curEvt}}
            /\ gspLastEvent' \in {gspLastEvent, thread.curEvt}
  BY DEF Events!EventThread, Events!Loop, Events!WaitSignal, Events!ClearSignal, Events!CheckRun,
     Events!SignalEvent, Events!Stamp, Events!Arbitrate, Events!ThreadGoes, AtPlaces
<1>2. PICK to \in AtPlaces \ {"stores"} :
        /\ thread' = [thread EXCEPT !.at = to]
        /\ to = "signals" => FALSE
        /\ to = "stamps" => thread.at = "signals"
  BY <1>1
<1>3. /\ thread' \in [at : AtPlaces, curEvt : EventIds \cup {Events!NoEvent}, header : Headers]
      /\ thread'.at = to /\ thread'.curEvt = thread.curEvt
  BY <1>2 DEF EvInv, EvTypes
<1>4. EvPops' /\ EvPasses'
  BY <1>2, <1>3 DEF EvInv, EvPops, EvPasses
<1>5. gspEvents' \subseteq EventIds /\ gspLastEvent' \in EventIds \cup {Events!NoEvent}
  BY <1>1 DEF EvInv, EvTypes, EvPasses
<1>6. EvTypes'
  BY <1>1, <1>3, <1>5 DEF EvInv, EvTypes
<1>. QED
  BY <1>1, <1>4, <1>6 DEF EvInv, EvHolds

(* The steps of the threads that wait.                                      *)
LEMMA EvWaiters ==
  ASSUME EvInv,
         \/ Events!WaiterProceeds \/ Events!StopRun \/ Events!AnyoneProceeds
         \/ Events!WaitForAnyEvent
         \/ \E e \in EventIds : \E nextEvent \in BOOLEAN : Events!WaitForEvent(e, nextEvent)
  PROVE  EvInv'
<1>1. UNCHANGED <<ring, reserved, thread, queued, raised>>
  BY DEF Events!WaiterProceeds, Events!EventPasses, Events!ClearEvent, Events!SignalExit, Events!Join,
     Events!StopRun, Events!AnyoneProceeds, Events!TakeLast, Events!SleepForLast,
     Events!WaitForAnyEvent, Events!WaitForEvent
<1>2. /\ signalled' \in {signalled, TRUE}
      /\ gspRunEvents' \in {gspRunEvents, FALSE}
      /\ gspEvents' \subseteq gspEvents
      /\ gspLastEvent' \in {gspLastEvent, Events!NoEvent}
      /\ anyone' \in {anyone, "loads", "sleeps", "idle", "asleep"}
  BY DEF Events!WaiterProceeds, Events!EventPasses, Events!ClearEvent, Events!SignalExit, Events!Join,
     Events!StopRun, Events!AnyoneProceeds, Events!TakeLast, Events!SleepForLast,
     Events!WaitForAnyEvent, Events!WaitForEvent
<1>3. waiter' \in [at : {"idle", "waits", "clears", "stops", "joins", "closed"},
                  id : EventIds \cup {Events!NoEvent}, nextEvent : BOOLEAN]
  <2>1. waiter \in [at : {"idle", "waits", "clears", "stops", "joins", "closed"},
                   id : EventIds \cup {Events!NoEvent}, nextEvent : BOOLEAN]
    BY DEF EvInv, EvTypes
  <2>2. CASE \E e \in EventIds : \E nextEvent \in BOOLEAN : Events!WaitForEvent(e, nextEvent)
    BY <2>2 DEF Events!WaitForEvent
  <2>3. CASE ~(\E e \in EventIds : \E nextEvent \in BOOLEAN : Events!WaitForEvent(e, nextEvent))
    BY <2>1, <2>3 DEF Events!WaiterProceeds, Events!EventPasses, Events!ClearEvent, Events!SignalExit,
       Events!Join, Events!StopRun, Events!AnyoneProceeds, Events!TakeLast, Events!SleepForLast,
       Events!WaitForAnyEvent, Events!WaiterGoes
  <2>. QED
    BY <2>2, <2>3
<1>4. EvTypes'
  BY <1>1, <1>2, <1>3 DEF EvInv, EvTypes
<1>. QED
  BY <1>1, <1>4 DEF EvInv, EvHolds, EvPops, EvPasses

(* Every step of the interrupts, and the steps of the other parts.          *)
LEMMA EvNext == EvInv /\ (Events!Next \/ UNCHANGED eventVars) => EvInv'
<1> SUFFICES ASSUME EvInv, Events!Next \/ UNCHANGED eventVars PROVE EvInv'
  OBVIOUS
<1>1. CASE UNCHANGED eventVars
  <2>1. EvTypes'
    BY <1>1 DEF EvInv, EvTypes, eventVars
  <2>. QED
    BY <1>1, <2>1 DEF EvInv, EvHolds, EvPops, EvPasses, eventVars
<1>2. CASE Events!Next
  BY <1>2, EvInterrupt, EvPopLoad, EvPopStore, EvThread, EvWaiters DEF Events!Next
<1>. QED
  BY <1>1, <1>2

LEMMA EvInOrder == EvInv => InterruptsInOrder
<1> SUFFICES ASSUME EvInv PROVE InterruptsInOrder
  OBVIOUS
<1>1. /\ ring.cur \in 0 .. RingSlots - 1 /\ ring.count \in 0 .. RingSlots
      /\ queued \in Seq(EventIds) /\ Len(queued) = ring.count
  BY EventsConstants DEF EvInv, EvTypes, EvHolds
<1>2. ASSUME NEW i \in 1 .. ring.count
      PROVE  ring.slot[(ring.cur + i - 1) % RingSlots] = queued[i]
  <2>1. i - 1 \in 0 .. ring.count - 1 /\ (i - 1) + 1 = i
    BY <1>1
  <2>2. ring.slot[(ring.cur + (i - 1)) % RingSlots] = queued[(i - 1) + 1]
    BY <2>1 DEF EvInv, EvHolds
  <2>3. ring.cur + i - 1 = ring.cur + (i - 1)
    BY <1>1
  <2>. QED
    BY <2>1, <2>2, <2>3
<1>3. Events!InRing(ring) = queued
  <2>1. queued = [i \in 1 .. ring.count |-> queued[i]]
    BY <1>1
  <2>. QED
    BY <1>2, <2>1 DEF Events!InRing
<1>4. thread.at = "stores" /\ reserved => thread.curEvt = Head(queued)
  BY <1>1 DEF EvInv, EvPops
<1>. QED
  BY <1>3, <1>4 DEF InterruptsInOrder, Events!InterruptsInOrder

(* No interrupt is lost or passed on twice by the event thread, whatever    *)
(* the number of slots and whenever GSP queues one.                         *)
THEOREM InterruptsStayInOrder == GpuSpec => []InterruptsInOrder
<1>1. GpuInit => EvInv
  BY EvInit DEF GpuInit
<1>2. EvInv /\ [GpuNext]_<<level, vars, bufVars, eventVars>> => EvInv'
  BY EvNext DEF GpuNext
<1>. QED
  BY <1>1, <1>2, EvInOrder, PTL DEF GpuSpec

-------------------------------------------------------------------------------
(***************************************************************************)
(* The three together.                                                     *)
(***************************************************************************)

QueueInv == IInv /\ InBounds /\ Counted

(* All three keep their types where a queue is not run again after an early *)
(* stop: neither ring counts more than it has slots, and a queue's          *)
(* lastEntry, curEntry, numEntries and capacity are in that order.          *)
THEOREM GpuTypesHold ==
  ASSUME ~RunAfterStop
  PROVE  GpuSpec => []GpuTypeOK
<1>. DEFINE Inv == QueueInv /\ BufInv /\ EvInv
<1>1. GpuInit => Inv
  BY QueueAssumption, QueueTypes, BufInit, EvInit DEF GpuInit, QueueInv
<1>2. Inv /\ [GpuNext]_<<level, vars, bufVars, eventVars>> => Inv'
  <2> SUFFICES ASSUME Inv, [GpuNext]_<<level, vars, bufVars, eventVars>> PROVE Inv'
    OBVIOUS
  <2>1. [Next]_vars /\ (Buffer!Next \/ UNCHANGED bufVars) /\ (Events!Next \/ UNCHANGED eventVars)
    BY DEF GpuNext
  <2>. QED
    BY <2>1, QueueAssumption, QueueTypes, BufNext, EvNext DEF QueueInv
<1>3. Inv => GpuTypeOK
  BY QueueAssumption, TypesFollow, EvTyped DEF GpuTypeOK, QueueInv, BufInv, EvInv
<1>. QED
  BY <1>1, <1>2, <1>3, PTL DEF GpuSpec
================================================================================
