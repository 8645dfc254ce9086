----------------------------- MODULE NdspChannel -----------------------------
(***************************************************************************)
(* The wave buffers of one ndsp channel (source/ndsp/ndsp-channel.c).  The *)
(* program queues buffers and clears the queue; the sound thread hands the *)
(* first of them to the DSP, the ones behind it through a few slots, and   *)
(* takes them out when the DSP reports which buffer it is at.  Both hold   *)
(* the channel's lock, but for the sound thread's look at the sync count.  *)
(*                                                                         *)
(* The DSP is external, and nothing is assumed of what it reports.  Rates, *)
(* mixing, pauses and what the DSP is told of them are left out.           *)
(***************************************************************************)
EXTENDS Integers, Sequences, FiniteSetsExt

CONSTANTS WaveBufs,   \* the wave buffers of the program
          NoBuf,      \* there is no buffer in a slot
          BufSlots,   \* slots for the buffers after the first, 4 in the code
          SeqLimit,   \* sequence numbers are below this, 2^16 in the code
          MaxSync     \* bound: the channel is cleared so often

ChannelAssumption == /\ NoBuf \notin WaveBufs
                     /\ BufSlots \in Nat \ {0}
                     /\ SeqLimit \in Nat \ {0, 1}
                     /\ MaxSync \in Nat

VARIABLES waveBuf,       \* the buffers from chn->waveBuf on
          status,        \* buffer -> its status
          sequence_id,   \* buffer -> its sequence number, from 1 on
          wavBufCount,   \* how many buffers the DSP has been given
          wavBufIdNext,  \* the slot for the next of them
          wavBufSeq,     \* the next sequence number, if it is not 0
          syncCount,
          slot,          \* the slots for the DSP: slot -> buffer
          report,        \* what the sound thread has read: [sync, cur, last]
          reading,       \* is it on its way to act on that?
          given,         \* history: the buffers in the queue that the DSP was given
          queuedAt       \* history: buffer in the queue -> syncCount when it was added

vars == <<waveBuf, status, sequence_id, wavBufCount, wavBufIdNext, wavBufSeq,
          syncCount, slot, report, reading, given, queuedAt>>

SeqIds == 0 .. SeqLimit - 1
Slots == 0 .. BufSlots - 1
NoReport == [sync |-> 0, cur |-> 0, last |-> 0]

Init == /\ waveBuf = <<>>
        /\ status = [b \in WaveBufs |-> "free"]
        /\ sequence_id = [b \in WaveBufs |-> 0]
        /\ wavBufCount = 0
        /\ wavBufIdNext = 0
        /\ wavBufSeq = 0
        /\ syncCount = 0
        /\ slot = [i \in Slots |-> NoBuf]
        /\ report = NoReport
        /\ reading = FALSE
        /\ given = {}
        /\ queuedAt = [b \in WaveBufs |-> 0]

Queued(b) == status[b] \in {"queued", "playing"}
-----------------------------------------------------------------------------
(* ndspChnWaveBufAdd: a buffer that is queued is not queued again           *)
WaveBufAdd(b) ==
  /\ ~Queued(b)
  /\ waveBuf' = Append(waveBuf, b)
  /\ status' = [status EXCEPT ![b] = "queued"]
  /\ LET seq == IF wavBufSeq = 0 THEN 1 ELSE wavBufSeq
     IN /\ sequence_id' = [sequence_id EXCEPT ![b] = seq]
        /\ wavBufSeq' = (seq + 1) % SeqLimit
  /\ queuedAt' = [queuedAt EXCEPT ![b] = syncCount]
  /\ UNCHANGED <<wavBufCount, wavBufIdNext, syncCount, slot, report, reading, given>>

(* ndspChnWaveBufClear, ndspChnReset                                        *)
WaveBufClear ==
  /\ syncCount < MaxSync
  /\ syncCount' = syncCount + 1
  /\ status' = [b \in WaveBufs |-> IF Queued(b) THEN "done" ELSE status[b]]
  /\ waveBuf' = <<>>
  /\ wavBufCount' = 0
  /\ wavBufIdNext' = 0
  /\ wavBufSeq' = 0
  /\ given' = {}
  /\ queuedAt' = [b \in WaveBufs |-> 0]
  /\ UNCHANGED <<sequence_id, slot, report, reading>>
-----------------------------------------------------------------------------
(* ndspiReadChnState: a report of before the last clear is not acted on     *)
ReadReport ==
  /\ ~reading
  /\ \E cur, last \in SeqIds :
       /\ cur # 0 => last = 0
       /\ report' = [sync |-> syncCount, cur |-> cur, last |-> last]
  /\ reading' = TRUE
  /\ UNCHANGED <<waveBuf, status, sequence_id, wavBufCount, wavBufIdNext, wavBufSeq,
                 syncCount, slot, given, queuedAt>>

Given == 1 .. wavBufCount
IdAt(i) == sequence_id[waveBuf[i]]

(* mutant: every buffer is looked at, whether the DSP has it or not *)
PassedAll ==
  IF report.cur # 0
  THEN Min({i \in DOMAIN waveBuf : IdAt(i) = report.cur} \cup {Len(waveBuf) + 1}) - 1
  ELSE Min({i \in DOMAIN waveBuf : report.last \in {IdAt(i), 0}} \cup {Len(waveBuf)})

(* the buffers that are over: those before the current one; those up to the *)
(* last one when there is no current one                                    *)
Passed ==
  IF report.cur # 0
  THEN Min({i \in Given : IdAt(i) = report.cur} \cup {wavBufCount + 1}) - 1
  ELSE Min({i \in Given : report.last \in {IdAt(i), 0}} \cup {wavBufCount})

TakePassed ==
  /\ reading
  /\ waveBuf' = SubSeq(waveBuf, Passed + 1, Len(waveBuf))
  /\ status' = [b \in WaveBufs |->
                  CASE \E i \in 1 .. Passed : waveBuf[i] = b -> "done"
                    [] report.cur # 0 /\ Passed < wavBufCount /\ waveBuf[Passed + 1] = b -> "playing"
                    [] OTHER -> status[b]]
  /\ wavBufCount' = IF waveBuf # <<>> /\ report.cur = 0 THEN 0 ELSE wavBufCount - Passed
  /\ reading' = FALSE
  /\ report' = NoReport
  /\ given' = {b \in given : status'[b] # "done"}
  /\ queuedAt' = [b \in WaveBufs |-> IF status'[b] = "done" THEN 0 ELSE queuedAt[b]]
  /\ UNCHANGED <<sequence_id, wavBufIdNext, wavBufSeq, syncCount, slot>>

(* mutant: one buffer more than there are slots *)
RoomOneMore == BufSlots + 2

(* ndspiUpdateChn: the first buffer, and one for every slot                 *)
Room == BufSlots + 1

UpdateChn ==
  /\ ~reading
  /\ LET n == Min({Len(waveBuf), Room})
         new == wavBufCount + 1 .. n              \* given now
         start == IF wavBufCount = 0 THEN 0 ELSE wavBufIdNext
         first == IF wavBufCount = 0 THEN 2 ELSE wavBufCount + 1   \* goes to the slot `start`
         At(i) == (start + i - first) % BufSlots
         last(k) == {i \in new : i >= first /\ At(i) = k}
     IN /\ new # {}
        /\ wavBufCount' = n
        /\ wavBufIdNext' = (start + n + 1 - first) % BufSlots
        /\ slot' = [k \in Slots |-> IF last(k) = {} THEN slot[k] ELSE waveBuf[Max(last(k))]]
        /\ status' = IF 1 \in new THEN [status EXCEPT ![waveBuf[1]] = "playing"] ELSE status
        /\ given' = given \cup {waveBuf[i] : i \in new}
  /\ UNCHANGED <<waveBuf, sequence_id, wavBufSeq, syncCount, report, reading, queuedAt>>

Next == \/ \E b \in WaveBufs : WaveBufAdd(b)
        \/ WaveBufClear
        \/ ReadReport \/ TakePassed \/ UpdateChn

Spec == Init /\ [][Next]_vars
-----------------------------------------------------------------------------
(* The queue, the counts, the statuses and the slots agree, whatever the    *)
(* DSP reports: exactly the buffers in the queue say so, no buffer is in it *)
(* twice, only the first may be playing; the walk over those given to the   *)
(* DSP ends within the queue; and each of them after the first is still in  *)
(* the slot it was put in.                                                  *)
QueueIsSound ==
  /\ \A b \in WaveBufs : Queued(b) <=> \E i \in DOMAIN waveBuf : waveBuf[i] = b
  /\ \A i, j \in DOMAIN waveBuf : waveBuf[i] = waveBuf[j] => i = j
  /\ \A i \in DOMAIN waveBuf : status[waveBuf[i]] = "playing" => i = 1
  /\ wavBufCount <= Len(waveBuf)
  /\ \A i \in 2 .. wavBufCount :
       slot[(wavBufIdNext + BufSlots - 1 - (wavBufCount - i)) % BufSlots] = waveBuf[i]

(* A buffer is done because the channel was cleared, or because of a report *)
(* that the DSP made of the same queue after it was given the buffer: a     *)
(* clear between the look at the sync count and the lock makes no           *)
(* difference.                                                              *)
DoneForAReason ==
  [][\A b \in WaveBufs :
       Queued(b) /\ status'[b] = "done" /\ syncCount' = syncCount
         => b \in given /\ report.sync = queuedAt[b]]_vars
==============================================================================
