-------------------------- MODULE GspCommandBuffer --------------------------
(***************************************************************************)
(* The GX command buffer a process shares with the GSP module              *)
(* (gspSubmitGxCommand, source/services/gspgpu.c): a ring of slots and one *)
(* header word, the index of the first command and their number, that both *)
(* sides update with exclusive loads and stores.                           *)
(*                                                                         *)
(* The threads that submit take a lock first, as gxqueue.c does; without   *)
(* it two of them may choose the same slot, and the function is not meant  *)
(* for that.  GSP is external: once triggered it executes commands until   *)
(* the buffer is empty, taking each off the buffer as it starts it.        *)
(***************************************************************************)
EXTENDS Integers, Sequences

CONSTANTS
  Producers,     \* the threads that submit commands
  Nobody,        \* the owner of their lock when it is free
  Slots,         \* slots in the buffer, 15 in the code
  MaxCommands    \* bound: commands accepted in a behaviour

GspCommandBufferAssumption ==
  /\ Nobody \notin Producers
  /\ Slots \in Nat \ {0}
  /\ MaxCommands \in Nat

VARIABLES
  index, total,   \* the header: commandIndex and totalCommands
  slot,           \* slot number -> the command in it; 0 is none
  owner,          \* the producers' lock
  pc,             \* producer -> "idle", "copy", "store", "retry", "trigger"
  header,         \* producer -> the header it has loaded
  exclusive,      \* producer -> is its exclusive load still good?
  active,         \* GSP: is it working on the buffer?
  accepted,       \* history: commands accepted; they are numbered from 1
  executed        \* history: the commands GSP has executed, in order

vars == <<index, total, slot, owner, pc, header, exclusive, active, accepted,
          executed>>

Places == {"idle", "copy", "store", "retry", "trigger"}

Init ==
  /\ index = 0 /\ total = 0
  /\ slot = [i \in 0 .. Slots - 1 |-> 0]
  /\ owner = Nobody
  /\ pc = [p \in Producers |-> "idle"]
  /\ header = [p \in Producers |-> [index |-> 0, total |-> 0]]
  /\ exclusive = [p \in Producers |-> FALSE]
  /\ active = FALSE
  /\ accepted = 0
  /\ executed = <<>>

Goto(p, place) == pc' = [pc EXCEPT ![p] = place]

\* A store to the header takes every producer's reservation away.
BreakReservations == exclusive' = [p \in Producers |-> FALSE]

\* The slot after the commands of a loaded header.
NextCmd(h) == (h.index + h.total) % Slots

\* The header is stored; the first command in an empty buffer triggers GSP.
StoreHeader(p, i, n) ==
  /\ index' = i
  /\ total' = n
  /\ BreakReservations
  /\ header' = [header EXCEPT ![p] = [index |-> i, total |-> n]]
  /\ Goto(p, "trigger")

-----------------------------------------------------------------------------
(***************************************************************************)
(* Slips the code avoids, each for the definition named with it.           *)
(***************************************************************************)

\* For Full: a buffer with every slot taken is not full.
FullTooLate(n) == n > Slots

\* For Store: the header is written back as if GSP did not write to it.
StoreUnchecked(p) ==
  /\ pc[p] = "store"
  /\ StoreHeader(p, header[p].index, header[p].total + 1)
  /\ UNCHANGED <<slot, owner, active, accepted, executed>>

\* For Trigger: GSP is triggered only by the count first read.
TriggerNever(p) ==
  /\ pc[p] = "trigger"
  /\ UNCHANGED active
  /\ owner' = Nobody
  /\ Goto(p, "idle")
  /\ UNCHANGED <<index, total, slot, header, exclusive, accepted, executed>>

-----------------------------------------------------------------------------

Full(n) == n >= Slots

Lock(p) ==
  /\ pc[p] = "idle"
  /\ owner = Nobody
  /\ owner' = p
  /\ UNCHANGED <<index, total, slot, pc, header, exclusive, active, accepted,
                 executed>>

\* The header is loaded; a full buffer returns -2.
Load(p) ==
  /\ pc[p] = "idle" /\ owner = p
  /\ IF Full(total)
     THEN owner' = Nobody /\ UNCHANGED <<pc, header, exclusive, accepted>>
     ELSE /\ accepted < MaxCommands
          /\ accepted' = accepted + 1
          /\ header' = [header EXCEPT ![p] = [index |-> index, total |-> total]]
          /\ exclusive' = [exclusive EXCEPT ![p] = TRUE]
          /\ Goto(p, "copy")
          /\ UNCHANGED owner
  /\ UNCHANGED <<index, total, slot, active, executed>>

\* The command is copied into its slot ...
Copy(p) ==
  /\ pc[p] = "copy"
  /\ slot' = [slot EXCEPT ![NextCmd(header[p])] = accepted]
  /\ Goto(p, "store")
  /\ UNCHANGED <<index, total, owner, header, exclusive, active, accepted, executed>>

\* ... and counted, unless GSP has changed the header in between ...
Store(p) ==
  /\ pc[p] = "store"
  /\ IF exclusive[p]
     THEN StoreHeader(p, header[p].index, header[p].total + 1)
     ELSE Goto(p, "retry") /\ UNCHANGED <<index, total, header, exclusive>>
  /\ UNCHANGED <<slot, owner, active, accepted, executed>>

\* ... when the header is loaded again and the command added to that, as often
\* as it takes; the last attempt is atomic and the others change nothing.
Retry(p) ==
  /\ pc[p] = "retry"
  /\ StoreHeader(p, index, total + 1)
  /\ UNCHANGED <<slot, owner, active, accepted, executed>>

\* A buffer that was empty is brought to GSP's attention.
Trigger(p) ==
  /\ pc[p] = "trigger"
  /\ active' = (active \/ header[p].total = 1)
  /\ owner' = Nobody
  /\ Goto(p, "idle")
  /\ UNCHANGED <<index, total, slot, header, exclusive, accepted, executed>>

-----------------------------------------------------------------------------

GspExecutes ==
  /\ active /\ total > 0
  /\ executed' = Append(executed, slot[index])
  /\ index' = (index + 1) % Slots
  /\ total' = total - 1
  /\ BreakReservations
  /\ UNCHANGED <<slot, owner, pc, header, active, accepted>>

GspRests ==
  /\ active /\ total = 0
  /\ active' = FALSE
  /\ UNCHANGED <<index, total, slot, owner, pc, header, exclusive, accepted, executed>>

Proceeds(p) == Copy(p) \/ Store(p) \/ Retry(p) \/ Trigger(p)
Gsp == GspExecutes \/ GspRests

Next == Gsp \/ \E p \in Producers : Lock(p) \/ Load(p) \/ Proceeds(p)

\* A thread in the function goes on, and GSP works.
Fairness == WF_vars(Gsp) /\ \A p \in Producers : WF_vars(Proceeds(p))

SafetySpec == Init /\ [][Next]_vars

Spec == SafetySpec /\ Fairness

-----------------------------------------------------------------------------

\* Every variable has its type; in particular no more commands are counted
\* than there are slots.
TypeOK ==
  /\ index \in 0 .. Slots - 1
  /\ total \in 0 .. Slots
  /\ slot \in [0 .. Slots - 1 -> 0 .. MaxCommands]
  /\ owner \in Producers \cup {Nobody}
  /\ pc \in [Producers -> Places]
  /\ header \in [Producers -> [index : 0 .. Slots - 1, total : 0 .. Slots]]
  /\ exclusive \in [Producers -> BOOLEAN]
  /\ active \in BOOLEAN
  /\ accepted \in 0 .. MaxCommands
  /\ executed \in Seq(0 .. MaxCommands)

\* GSP executes the commands in the order they were submitted, each once: it
\* is never made to "reexecute old commands" (gspgpu.c:403), and none is
\* overwritten before it is executed.
ExecutedOnceInOrder == \A i \in 1 .. Len(executed) : executed[i] = i

\* Every command accepted is executed in the end.
EveryCommandExecuted ==
  \A n \in 1 .. MaxCommands : accepted >= n ~> Len(executed) >= n
=============================================================================
