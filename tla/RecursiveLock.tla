---------------------------- MODULE RecursiveLock ----------------------------
(***************************************************************************)
(* RecursiveLock (source/synchronization.c): a LightLock, the tag of the   *)
(* thread that holds it and how often it does.  A thread reads the tag     *)
(* before it has the lock, while others write it: finding its own tag      *)
(* there is taken for holding the lock.                                    *)
(*                                                                         *)
(* __syscall_cond_wait_recursive (source/system/syscalls.c) gives up the   *)
(* tag and the counter around a CondVar_WaitTimeout and restores them      *)
(* afterwards.  Of the wait, only that it releases the LightLock and takes *)
(* it again matters here.  The LightLock is the abstract mutex.            *)
(***************************************************************************)
EXTENDS LockThreads    \* a thread stands for its tag, its thread-local storage

CONSTANTS
  NoThread,    \* tag 0, and the owner of a free LightLock
  MaxDepth     \* bound on the nesting of calls

ASSUME RecursiveLockAssumption ==
  /\ NoThread \notin Threads
  /\ MaxDepth \in Nat \ {0}

VARIABLES
  owner,        \* the owner of lock->lock
  thread_tag,
  counter,
  pc,           \* where each thread is:
                \*   "out"       between calls
                \*   "lock"      tag differs, about to take the LightLock
                \*   "try"       the same, about to try to take it
                \*   "tag"       has the LightLock, about to store its tag
                \*   "count"     about to increment the counter
                \*   "untag"     counter at zero, about to clear the tag
                \*   "unlock"    about to release the LightLock
                \*   "clearTag", "clearCounter", "release"  giving up the
                \*               lock in cond_wait_recursive
                \*   "relock", "restoreTag", "restoreCounter"  taking it back
  depth         \* history: thread -> its Lock calls minus its Unlock calls

vars == <<owner, thread_tag, counter, pc, depth>>

Places == {"out", "lock", "try", "tag", "count", "untag", "unlock", "clearTag",
           "clearCounter", "release", "relock", "restoreTag", "restoreCounter"}

Init ==
  /\ owner = NoThread
  /\ thread_tag = NoThread
  /\ counter = 0
  /\ pc = [t \in Threads |-> "out"]
  /\ depth = [t \in Threads |-> 0]

Goto(t, place) == pc' = [pc EXCEPT ![t] = place]

-----------------------------------------------------------------------------
(***************************************************************************)
(* Slips the code avoids, each for the action named with it.               *)
(***************************************************************************)

\* For RestoreCounter: the counter is left as the last owner left it.
RestoreCounterForgotten(t) ==
  /\ pc[t] = "restoreCounter"
  /\ Goto(t, "out")
  /\ UNCHANGED <<owner, thread_tag, counter, depth>>

\* For CountDown: the counter is compared with zero before it goes down.
CountDownPostDecrement(t) ==
  /\ pc[t] = "out"
  /\ depth[t] > 0
  /\ counter' = counter - 1
  /\ depth' = [depth EXCEPT ![t] = @ - 1]
  /\ Goto(t, IF counter = 0 THEN "untag" ELSE "out")
  /\ UNCHANGED <<owner, thread_tag>>

\* For ReadTag: any tag is taken for one's own.
ReadTagNonZero(t) ==
  /\ pc[t] = "out"
  /\ depth[t] < MaxDepth
  /\ IF thread_tag # NoThread
     THEN Goto(t, "count")
     ELSE \E place \in {"lock", "try"} : Goto(t, place)
  /\ UNCHANGED <<owner, thread_tag, counter, depth>>

-----------------------------------------------------------------------------

\* RecursiveLock_Lock and RecursiveLock_TryLock read the tag ...
ReadTag(t) ==
  /\ pc[t] = "out"
  /\ depth[t] < MaxDepth
  /\ IF thread_tag = t
     THEN Goto(t, "count")
     ELSE \E place \in {"lock", "try"} : Goto(t, place)
  /\ UNCHANGED <<owner, thread_tag, counter, depth>>

\* ... take the LightLock if it is not theirs ...
TakeLock(t) ==
  /\ pc[t] \in {"lock", "try"}
  /\ owner = NoThread
  /\ owner' = t
  /\ Goto(t, "tag")
  /\ UNCHANGED <<thread_tag, counter, depth>>

\* ... (RecursiveLock_TryLock gives up if somebody else has it) ...
TryLockFails(t) ==
  /\ pc[t] = "try"
  /\ owner # NoThread
  /\ Goto(t, "out")
  /\ UNCHANGED <<owner, thread_tag, counter, depth>>

\* ... store the tag and count the call.
StoreTag(t) ==
  /\ pc[t] = "tag"
  /\ thread_tag' = t
  /\ Goto(t, "count")
  /\ UNCHANGED <<owner, counter, depth>>

CountUp(t) ==
  /\ pc[t] = "count"
  /\ counter' = counter + 1
  /\ depth' = [depth EXCEPT ![t] = @ + 1]
  /\ Goto(t, "out")
  /\ UNCHANGED <<owner, thread_tag>>

\* RecursiveLock_Unlock, called by a thread that has locked.
CountDown(t) ==
  /\ pc[t] = "out"
  /\ depth[t] > 0
  /\ counter' = counter - 1
  /\ depth' = [depth EXCEPT ![t] = @ - 1]
  /\ Goto(t, IF counter' = 0 THEN "untag" ELSE "out")
  /\ UNCHANGED <<owner, thread_tag>>

Untag(t) ==
  /\ pc[t] = "untag"
  /\ thread_tag' = NoThread
  /\ Goto(t, "unlock")
  /\ UNCHANGED <<owner, counter, depth>>

Unlock(t) ==
  /\ pc[t] = "unlock"
  /\ owner' = NoThread
  /\ Goto(t, "out")
  /\ UNCHANGED <<thread_tag, counter, depth>>

\* cond_wait_recursive refuses (EBADF) a lock that is held more than once.
CondWait(t) ==
  /\ pc[t] = "out"
  /\ depth[t] > 0
  /\ IF counter # 1 THEN UNCHANGED pc ELSE Goto(t, "clearTag")
  /\ UNCHANGED <<owner, thread_tag, counter, depth>>

ClearTag(t) ==
  /\ pc[t] = "clearTag"
  /\ thread_tag' = NoThread
  /\ Goto(t, "clearCounter")
  /\ UNCHANGED <<owner, counter, depth>>

ClearCounter(t) ==
  /\ pc[t] = "clearCounter"
  /\ counter' = 0
  /\ Goto(t, "release")
  /\ UNCHANGED <<owner, thread_tag, depth>>

\* CondVar_WaitTimeout releases the LightLock, waits, and takes it again.
ReleaseForWait(t) ==
  /\ pc[t] = "release"
  /\ owner' = NoThread
  /\ Goto(t, "relock")
  /\ UNCHANGED <<thread_tag, counter, depth>>

Relock(t) ==
  /\ pc[t] = "relock"
  /\ owner = NoThread
  /\ owner' = t
  /\ Goto(t, "restoreTag")
  /\ UNCHANGED <<thread_tag, counter, depth>>

RestoreTag(t) ==
  /\ pc[t] = "restoreTag"
  /\ thread_tag' = t
  /\ Goto(t, "restoreCounter")
  /\ UNCHANGED <<owner, counter, depth>>

RestoreCounter(t) ==
  /\ pc[t] = "restoreCounter"
  /\ counter' = 1
  /\ Goto(t, "out")
  /\ UNCHANGED <<owner, thread_tag, depth>>

\* What a thread does on its own once it is inside a call.
Proceed(t) ==
  \/ StoreTag(t) \/ CountUp(t) \/ Untag(t) \/ Unlock(t)
  \/ ClearTag(t) \/ ClearCounter(t) \/ ReleaseForWait(t)
  \/ RestoreTag(t) \/ RestoreCounter(t)

Next == \E t \in Threads :
  \/ ReadTag(t) \/ TakeLock(t) \/ TryLockFails(t)
  \/ CountDown(t) \/ CondWait(t) \/ Relock(t) \/ Proceed(t)

\* Every runnable thread runs; which of the waiting threads gets the LightLock,
\* and whether a thread ever calls Unlock, is left open.
Fairness == \A t \in Threads : WF_vars(Proceed(t))

Spec == Init /\ [][Next]_vars /\ Fairness

-----------------------------------------------------------------------------

\* Every variable has its type; the counter never exceeds the nesting allowed.
TypeOK ==
  /\ owner \in Threads \cup {NoThread}
  /\ thread_tag \in Threads \cup {NoThread}
  /\ counter \in 0 .. MaxDepth
  /\ pc \in [Threads -> Places]
  /\ depth \in [Threads -> 0 .. MaxDepth]

\* Does thread t hold the recursive lock, as its caller sees it?  A thread
\* waiting for a condition does not.
Holds(t) ==
  /\ depth[t] > 0
  /\ pc[t] \notin {"relock", "restoreTag", "restoreCounter"}

\* Two threads never hold the recursive lock at once.
MutualExclusion ==
  \A t, u \in Threads : Holds(t) /\ Holds(u) => t = u

\* A thread that finds its own tag has the LightLock: the unsynchronised read
\* of the tag is never fooled by what other threads store there meanwhile.
TagMeansOwner == \A t \in Threads : thread_tag = t => owner = t

\* A thread that holds the lock holds it alone, and between calls it finds it as
\* it left it: its own tag and as many levels as it has entered, whatever ran
\* while it waited.
HolderUndisturbed ==
  /\ MutualExclusion
  /\ \A t \in Threads : pc[t] = "out" /\ depth[t] > 0 =>
       owner = t /\ thread_tag = t /\ counter = depth[t]

\* How often a thread has the lock is what the code's own counter says of the
\* owner of the LightLock; the histories of the calls have no part in it.
Level == [t \in Threads |-> IF owner = t THEN counter ELSE 0]
Lent  == {t \in Threads : pc[t] \in {"release", "relock", "restoreTag", "restoreCounter"}}

R == INSTANCE RecursiveMutex WITH level <- Level, lent <- Lent

\* Every behaviour of RecursiveLock is one of the abstract recursive mutex: the
\* plain reads and writes of tag and counter add up to steps from one level to
\* the next, taken by the one thread that may, also around a wait.
ImplementsRecursiveMutex == R!Spec

\* The LightLock is not left with a thread that has unlocked as often as it
\* has locked, whichever path the calls took through the counter.
LockIsGivenBack ==
  \A t \in Threads : (owner = t /\ depth[t] = 0) ~> (owner # t \/ depth[t] > 0)
=============================================================================
