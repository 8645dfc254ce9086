------------------------------ MODULE SyncProofs ------------------------------
(***************************************************************************)
(* The safety of the RecursiveLock, the CondVar and the LightSemaphore for *)
(* any finite sets of threads.  What LightLockProofs shows of a LightLock  *)
(* is carried over to the composition that the runs check.                 *)
(***************************************************************************)
EXTENDS MCSync, FiniteSetTheorems, TLAPS

-------------------------------------------------------------------------------
(***************************************************************************)
(* RecursiveLock, for any set of threads and any nesting.                  *)
(*                                                                         *)
(* Mutual exclusion is not inductive: it rests on a thread's own tag being *)
(* found only by the owner of the LightLock, which rests on every place of *)
(* the code agreeing with the owner, the tag and the counter in a way of   *)
(* its own.  Local lists those, and IInv adds that a free lock is clean.   *)
(***************************************************************************)

\* What the owner of the LightLock finds, by where it is.
Owned(t) ==
  \/ pc[t] = "out" /\ depth[t] > 0 /\ counter = depth[t] /\ thread_tag = t
  \/ pc[t] = "count" /\ depth[t] < MaxDepth /\ counter = depth[t] /\ thread_tag = t
  \/ pc[t] \in {"tag", "unlock"} /\ depth[t] = 0 /\ counter = 0 /\ thread_tag = NoThread
  \/ pc[t] = "untag" /\ depth[t] = 0 /\ counter = 0 /\ thread_tag = t
  \/ pc[t] = "clearTag" /\ depth[t] = 1 /\ counter = 1 /\ thread_tag = t
  \/ pc[t] = "clearCounter" /\ depth[t] = 1 /\ counter = 1 /\ thread_tag = NoThread
  \/ pc[t] \in {"release", "restoreTag"} /\ depth[t] = 1 /\ counter = 0
     /\ thread_tag = NoThread
  \/ pc[t] = "restoreCounter" /\ depth[t] = 1 /\ counter = 0 /\ thread_tag = t

\* Where the others can be.
NotOwned(t) ==
  \/ pc[t] \in {"out", "lock", "try"} /\ depth[t] = 0
  \/ pc[t] = "relock" /\ depth[t] = 1

Local(t) == IF owner = t THEN Owned(t) ELSE NotOwned(t)

FreeIsClean == owner = NoThread => thread_tag = NoThread /\ counter = 0

IInv ==
  /\ TypeOK
  /\ FreeIsClean
  /\ \A t \in Threads : Local(t)

\* The invariant holds at the start: everybody is outside.
LEMMA InitIInv == Init => IInv
BY RecursiveLockAssumption
   DEF Init, IInv, TypeOK, Places, FreeIsClean, Local, NotOwned

\* A step of one thread leaves what is known of another alone, if the lock is
\* free or the stepping thread's, or the step touches nothing shared.
LEMMA OthersUndisturbed ==
  ASSUME IInv,
         NEW t \in Threads, NEW u \in Threads, u # t,
         pc'[u] = pc[u], depth'[u] = depth[u],
         \/ owner \in {t, NoThread} /\ owner' \in {t, NoThread}
         \/ UNCHANGED <<owner, thread_tag, counter>>
  PROVE  Local(u)'
<1>1. CASE UNCHANGED <<owner, thread_tag, counter>>
  BY <1>1 DEF IInv, Local, Owned, NotOwned
<1>2. CASE owner \in {t, NoThread} /\ owner' \in {t, NoThread}
  <2>1. owner # u /\ owner' # u
    BY <1>2, RecursiveLockAssumption
  <2>2. QED
    BY <2>1 DEF IInv, Local, NotOwned
<1>3. QED
  BY <1>1, <1>2

\* Every action of a thread keeps the invariant, one case per action.
LEMMA StepIInv ==
  ASSUME IInv, NEW t \in Threads,
         \/ ReadTag(t) \/ TakeLock(t) \/ TryLockFails(t)
         \/ CountDown(t) \/ CondWait(t) \/ Relock(t) \/ Proceed(t)
  PROVE  IInv'
<1> DEFINE Kept == TypeOK' /\ FreeIsClean' /\ Local(t)'
           OthersKept == \A u \in Threads : u # t =>
             /\ pc'[u] = pc[u]
             /\ depth'[u] = depth[u]
             /\ \/ owner \in {t, NoThread} /\ owner' \in {t, NoThread}
                \/ UNCHANGED <<owner, thread_tag, counter>>
<1> USE RecursiveLockAssumption
<1>1. SUFFICES Kept /\ OthersKept
  BY <1>1, OthersUndisturbed DEF IInv
<1>2. CASE ReadTag(t)
  BY <1>2 DEF ReadTag, Goto, IInv, TypeOK, Places, FreeIsClean, Local, Owned, NotOwned
<1>3. CASE TakeLock(t)
  BY <1>3 DEF TakeLock, Goto, IInv, TypeOK, Places, FreeIsClean, Local, Owned, NotOwned
<1>4. CASE TryLockFails(t)
  BY <1>4 DEF TryLockFails, Goto, IInv, TypeOK, Places, FreeIsClean, Local, Owned, NotOwned
<1>5. CASE CountDown(t)
  BY <1>5 DEF CountDown, Goto, IInv, TypeOK, Places, FreeIsClean, Local, Owned, NotOwned
<1>6. CASE CondWait(t)
  BY <1>6 DEF CondWait, Goto, IInv, TypeOK, Places, FreeIsClean, Local, Owned, NotOwned
<1>7. CASE Relock(t)
  BY <1>7 DEF Relock, Goto, IInv, TypeOK, Places, FreeIsClean, Local, Owned, NotOwned
<1>8. CASE StoreTag(t)
  BY <1>8 DEF StoreTag, Goto, IInv, TypeOK, Places, FreeIsClean, Local, Owned, NotOwned
<1>9. CASE CountUp(t)
  BY <1>9 DEF CountUp, Goto, IInv, TypeOK, Places, FreeIsClean, Local, Owned, NotOwned
<1>10. CASE Untag(t)
  BY <1>10 DEF Untag, Goto, IInv, TypeOK, Places, FreeIsClean, Local, Owned, NotOwned
<1>11. CASE Unlock(t)
  BY <1>11 DEF Unlock, Goto, IInv, TypeOK, Places, FreeIsClean, Local, Owned, NotOwned
<1>12. CASE ClearTag(t)
  BY <1>12 DEF ClearTag, Goto, IInv, TypeOK, Places, FreeIsClean, Local, Owned, NotOwned
<1>13. CASE ClearCounter(t)
  BY <1>13 DEF ClearCounter, Goto, IInv, TypeOK, Places, FreeIsClean, Local, Owned, NotOwned
<1>14. CASE ReleaseForWait(t)
  BY <1>14 DEF ReleaseForWait, Goto, IInv, TypeOK, Places, FreeIsClean, Local, Owned, NotOwned
<1>15. CASE RestoreTag(t)
  BY <1>15 DEF RestoreTag, Goto, IInv, TypeOK, Places, FreeIsClean, Local, Owned, NotOwned
<1>16. CASE RestoreCounter(t)
  BY <1>16 DEF RestoreCounter, Goto, IInv, TypeOK, Places, FreeIsClean, Local, Owned, NotOwned
<1>17. QED
  BY <1>2, <1>3, <1>4, <1>5, <1>6, <1>7, <1>8, <1>9, <1>10, <1>11, <1>12,
     <1>13, <1>14, <1>15, <1>16 DEF Proceed

\* A step of any thread, or none, keeps the invariant.
LEMMA NextIInv == IInv /\ [Next]_vars => IInv'
<1> SUFFICES ASSUME IInv, [Next]_vars PROVE IInv'
  OBVIOUS
<1>1. CASE Next
  BY <1>1, StepIInv DEF Next
<1>2. CASE UNCHANGED vars
  BY <1>2 DEF vars, IInv, TypeOK, FreeIsClean, Local, Owned, NotOwned
<1>3. QED
  BY <1>1, <1>2

\* IInv is an inductive invariant of the specification.
LEMMA Invariance == Spec => []IInv
BY InitIInv, NextIInv, PTL DEF Spec

\* Every variable keeps its type, and the counter its bound.
THEOREM TypeCorrect == Spec => []TypeOK
<1>1. IInv => TypeOK
  BY DEF IInv
<1>2. QED
  BY <1>1, Invariance, PTL

\* Two threads never hold the recursive lock at once, nor is the lock held
\* while a thread waits for a condition with it.
THEOREM RecursiveLockExcludes == Spec => []MutualExclusion
<1>1. IInv => MutualExclusion
  <2>1. ASSUME IInv, NEW t \in Threads, Holds(t)
        PROVE  owner = t
    BY <2>1 DEF IInv, TypeOK, Local, NotOwned, Holds
  <2>2. QED
    BY <2>1 DEF MutualExclusion
<1>2. QED
  BY <1>1, Invariance, PTL

\* A thread finds its own tag only if the LightLock is its own.
THEOREM OwnTagIsOwnership == Spec => []TagMeansOwner
<1>1. IInv => TagMeansOwner
  <2> SUFFICES ASSUME IInv, NEW t \in Threads, thread_tag = t PROVE owner = t
    BY DEF TagMeansOwner
  <2>1. owner \in Threads
    BY RecursiveLockAssumption DEF IInv, TypeOK, FreeIsClean
  <2>2. thread_tag \in {owner, NoThread}
    BY <2>1 DEF IInv, Local, Owned
  <2>3. QED
    BY <2>2, RecursiveLockAssumption
<1>2. QED
  BY <1>1, Invariance, PTL

\* Whatever runs between its calls, a thread that holds the lock holds it alone
\* and finds it as it left it.
THEOREM HolderIsUndisturbed == Spec => []HolderUndisturbed
<1>1. IInv /\ MutualExclusion => HolderUndisturbed
  BY DEF IInv, TypeOK, Local, Owned, NotOwned, HolderUndisturbed
<1>2. QED
  BY <1>1, Invariance, RecursiveLockExcludes, PTL

\* The levels start, and stay, as those of nobody while the lock is not clean.
LEMMA LevelsAre ==
  ASSUME IInv
  PROVE  /\ Level \in [Threads -> 0 .. MaxDepth]
         /\ \A t \in Threads : owner = t => Level[t] = counter /\ R!FreeFor(t)
         /\ \A t \in Threads : Level[t] > 0 => owner = t
<1>1. \A t \in Threads : Level[t] = IF owner = t THEN counter ELSE 0
  BY DEF Level
<1>2. counter \in 0 .. MaxDepth /\ MaxDepth \in Nat
  BY RecursiveLockAssumption DEF IInv, TypeOK
<1>. QED
  BY <1>1, <1>2 DEF Level, R!FreeFor

\* A step that leaves the level and the place in the wait of every thread.
LEMMA NothingHappens ==
  ASSUME IInv, NEW t \in Threads, NEW place \in Places, Goto(t, place),
         pc[t] \in {"release", "relock", "restoreTag", "restoreCounter"}
           <=> place \in {"release", "relock", "restoreTag", "restoreCounter"},
         UNCHANGED counter,
         UNCHANGED owner \/ counter = 0
  PROVE  UNCHANGED R!vars
<1>1. Lent' = Lent
  BY DEF Lent, Goto, IInv, TypeOK
<1>2. Level' = Level
  BY DEF Level
<1>. QED
  BY <1>1, <1>2 DEF R!vars

\* Each step of a thread is one of the abstract lock, or none: calls count when
\* the counter does, and a wait begins and ends where it is cleared and restored.
LEMMA StepRefines ==
  ASSUME IInv, NEW t \in Threads,
         \/ ReadTag(t) \/ TakeLock(t) \/ TryLockFails(t)
         \/ CountDown(t) \/ CondWait(t) \/ Relock(t) \/ Proceed(t)
  PROVE  [R!Next]_R!vars
<1> USE RecursiveLockAssumption
<1>0. Local(t) /\ pc \in [Threads -> Places] /\ (owner = NoThread => counter = 0)
  BY DEF IInv, TypeOK, FreeIsClean
<1>1. CASE ReadTag(t)
  <2>1. PICK place \in {"lock", "try", "count"} : Goto(t, place)
    BY <1>1 DEF ReadTag
  <2>. QED
    BY <1>1, <2>1, NothingHappens DEF ReadTag, Places
<1>2. CASE TakeLock(t) \/ Relock(t)
  BY <1>0, <1>2, NothingHappens DEF TakeLock, Relock, Places
<1>3. CASE TryLockFails(t) \/ StoreTag(t) \/ Untag(t) \/ ClearTag(t)
  BY <1>3, NothingHappens DEF TryLockFails, StoreTag, Untag, ClearTag, Places
<1>4. CASE RestoreTag(t)
  BY <1>4, NothingHappens DEF RestoreTag, Places
<1>5. CASE Unlock(t) \/ ReleaseForWait(t)
  <2>1. owner = t /\ counter = 0
    BY <1>0, <1>5 DEF Local, Owned, NotOwned, Unlock, ReleaseForWait
  <2>. QED
    BY <1>5, <2>1, NothingHappens DEF Unlock, ReleaseForWait, Places
<1>6. CASE CondWait(t)
  <2>1. CASE UNCHANGED pc
    BY <1>6, <2>1 DEF CondWait, R!vars, Level, Lent
  <2>2. CASE Goto(t, "clearTag")
    BY <1>6, <2>2, NothingHappens DEF CondWait, Places
  <2>. QED
    BY <1>6, <2>1, <2>2 DEF CondWait
<1>7. CASE CountUp(t)
  <2>1. owner = t /\ counter = depth[t] /\ depth[t] < MaxDepth
    BY <1>0, <1>7 DEF Local, Owned, NotOwned, CountUp
  <2>2. t \notin Lent /\ Lent' = Lent
    BY <1>0, <1>7 DEF Lent, CountUp, Goto
  <2>3. Level' = [Level EXCEPT ![t] = @ + 1]
    BY <1>7, <2>1 DEF Level, CountUp
  <2>4. R!Enter(t)
    BY <2>1, <2>2, <2>3, LevelsAre DEF R!Enter
  <2>. QED
    BY <2>4 DEF R!Next
<1>8. CASE CountDown(t)
  <2>1. owner = t /\ counter = depth[t] /\ depth[t] > 0
    BY <1>0, <1>8 DEF Local, Owned, NotOwned, CountDown
  <2>2. Lent' = Lent
    BY <1>0, <1>8 DEF Lent, CountDown, Goto
  <2>3. Level' = [Level EXCEPT ![t] = @ - 1]
    BY <1>8, <2>1 DEF Level, CountDown
  <2>4. R!Exit(t)
    BY <2>1, <2>2, <2>3, LevelsAre DEF R!Exit
  <2>. QED
    BY <2>4 DEF R!Next
<1>9. CASE ClearCounter(t)
  <2>1. owner = t /\ counter = 1
    BY <1>0, <1>9 DEF Local, Owned, NotOwned, ClearCounter
  <2>2. Lent' = Lent \cup {t}
    BY <1>0, <1>9 DEF Lent, ClearCounter, Goto
  <2>3. Level' = [Level EXCEPT ![t] = 0]
    BY <1>9, <2>1 DEF Level, ClearCounter
  <2>4. R!GiveUp(t)
    BY <2>1, <2>2, <2>3, LevelsAre DEF R!GiveUp
  <2>. QED
    BY <2>4 DEF R!Next
<1>10. CASE RestoreCounter(t)
  <2>1. owner = t
    BY <1>0, <1>10 DEF Local, Owned, NotOwned, RestoreCounter
  <2>2. t \in Lent /\ Lent' = Lent \ {t}
    BY <1>0, <1>10 DEF Lent, RestoreCounter, Goto
  <2>3. Level' = [Level EXCEPT ![t] = 1]
    BY <1>10, <2>1 DEF Level, RestoreCounter
  <2>4. R!TakeBack(t)
    BY <2>1, <2>2, <2>3, LevelsAre DEF R!TakeBack
  <2>. QED
    BY <2>4 DEF R!Next
<1>. QED
  BY <1>1, <1>2, <1>3, <1>4, <1>5, <1>6, <1>7, <1>8, <1>9, <1>10 DEF Proceed

\* RecursiveLock implements the abstract recursive mutex, for any threads and
\* any nesting: whatever the reads of the tag come upon, levels are entered,
\* left, given up for a wait and taken back one at a time, by one thread.
THEOREM RecursiveMutexIsRefined == Spec => ImplementsRecursiveMutex
<1>1. Init => R!Init
  BY RecursiveLockAssumption DEF Init, R!Init, Level, Lent
<1>2. IInv /\ [Next]_vars => [R!Next]_R!vars
  <2>1. CASE UNCHANGED vars
    BY <2>1 DEF vars, R!vars, Level, Lent
  <2>. QED
    BY <2>1, StepRefines DEF Next
<1>. QED
  BY <1>1, <1>2, Invariance, PTL DEF Spec, ImplementsRecursiveMutex, R!Spec

-------------------------------------------------------------------------------
(***************************************************************************)
(* CondVar.                                                                *)
(***************************************************************************)

CvReg == {w \in Waiters : cvPc[w] \in {"unlock", "wait", "asleep", "expired"}}

CvWaiting == {w \in Waiters : cvPc[w] \in {"wait", "asleep", "expired"}}

CvPlaces ==
  /\ \A w \in Waiters : cvPc[w] # "signal"
  /\ \A k \in Wakers : cvPc[k] \in {"out", "cs", "signal"}

CvHeld ==
  \A t \in Waiters \cup Wakers : cvPc[t] \in {"cs", "unlock", "signal"} => cvOwner = t

(* Registrations are owed to waiters only, and those that a waker has taken *)
(* are owed to others than those it has left.                               *)
CvCounted ==
  /\ -cv <= Cardinality(CvReg)
  /\ \A k \in Wakers : cvPc[k] = "signal" =>
       \/ cv = 0
       \/ count[k] > 0 /\ count[k] - cv <= Cardinality(CvReg)

CvInv == Cond!TypeOK /\ CvPlaces /\ CvHeld /\ CvCounted
         /\ toOne \cup toAll \subseteq CvWaiting

(* The finite sets of the instances are finite sets.                        *)
LEMMA CvFinite ==
  /\ IsFiniteSet(Waiters) /\ Waiters \cap Wakers = {}
  /\ NoThread \notin Waiters \cup Wakers
  /\ WakeCounts \subseteq (Nat \cup {-1}) \ {0} /\ MaxRegistered \in Nat
<1>1. \A S : Cond!IsFiniteSet(S) <=> IsFiniteSet(S)
  BY DEF Cond!IsFiniteSet, IsFiniteSet
<1>2. Cond!CondVarAssumption
  BY CondVarAssumption
<1>3. IsFiniteSet(Waiters \cup Wakers)
  BY <1>1, <1>2 DEF Cond!CondVarAssumption
<1>. QED
  BY <1>2, <1>3, FS_Subset DEF Cond!CondVarAssumption

LEMMA CvRegFinite == /\ IsFiniteSet(CvReg) /\ Cardinality(CvReg) \in Nat
                     /\ IsFiniteSet(CvReg') /\ Cardinality(CvReg') \in Nat
<1>1. CvReg \subseteq Waiters /\ CvReg' \subseteq Waiters
  BY DEF CvReg
<1>. QED
  BY <1>1, CvFinite, FS_Subset, FS_CardinalityType

LEMMA CvCounts ==
  ASSUME CvInv, NEW k \in Wakers
  PROVE  count[k] \in Int /\ count[k] # 0 /\ count[k] >= -1
<1>1. count[k] \in WakeCounts \cup {1}
  BY DEF CvInv, Cond!TypeOK
<1>2. \A n \in WakeCounts : n \in Int /\ n # 0 /\ n >= -1
  BY CvFinite
<1>. QED
  BY <1>1, <1>2

(* A thread that moves is where it goes, and the others are where they were. *)
LEMMA CvGoes ==
  ASSUME cvPc \in [Cond!Callers -> Cond!Places], NEW t \in Waiters \cup Wakers,
         NEW place \in Cond!Places, cvPc' = [cvPc EXCEPT ![t] = place]
  PROVE  /\ cvPc' \in [Cond!Callers -> Cond!Places]
         /\ cvPc'[t] = place
         /\ \A u \in Waiters \cup Wakers : u # t => cvPc'[u] = cvPc[u]
BY DEF Cond!Callers

(* How the waiters that count change when one thread moves.                 *)
LEMMA CvRegMoves ==
  ASSUME cvPc \in [Cond!Callers -> Cond!Places], NEW t \in Waiters \cup Wakers,
         NEW place \in Cond!Places, cvPc' = [cvPc EXCEPT ![t] = place]
  PROVE  /\ t \in Wakers => CvReg' = CvReg
         /\ t \in Waiters /\ (t \in CvReg <=> place \in {"unlock", "wait", "asleep", "expired"})
              => CvReg' = CvReg
         /\ t \in Waiters /\ t \notin CvReg /\ place = "unlock"
              => Cardinality(CvReg') = Cardinality(CvReg) + 1
         /\ t \in CvReg /\ place = "relock"
              => Cardinality(CvReg') = Cardinality(CvReg) - 1
<1>1. /\ cvPc'[t] = place
      /\ \A u \in Waiters \cup Wakers : u # t => cvPc'[u] = cvPc[u]
  BY CvGoes
<1>2. ASSUME t \in Wakers PROVE CvReg' = CvReg
  BY <1>1, <1>2, CvFinite DEF CvReg
<1>3. ASSUME t \in Waiters, t \in CvReg <=> place \in {"unlock", "wait", "asleep", "expired"}
      PROVE  CvReg' = CvReg
  BY <1>1, <1>3 DEF CvReg
<1>4. ASSUME t \in Waiters, t \notin CvReg, place = "unlock"
      PROVE  Cardinality(CvReg') = Cardinality(CvReg) + 1
  <2>1. CvReg' = CvReg \cup {t}
    BY <1>1, <1>4 DEF CvReg
  <2>. QED
    BY <1>4, <2>1, CvRegFinite, FS_AddElement
<1>5. ASSUME t \in CvReg, place = "relock"
      PROVE  Cardinality(CvReg') = Cardinality(CvReg) - 1
  <2>1. CvReg' = CvReg \ {t}
    BY <1>1, <1>5 DEF CvReg
  <2>. QED
    BY <1>5, <2>1, CvRegFinite, FS_RemoveElement
<1>. QED
  BY <1>2, <1>3, <1>4, <1>5

(* What a WakeUp leaves in a word.                                          *)
LEMMA CvEndWait ==
  ASSUME NEW v \in Int, v <= 0, NEW n \in Int, n # 0, n >= -1
  PROVE  /\ Cond!EndWait(v, n) \in Int
         /\ v <= Cond!EndWait(v, n) /\ Cond!EndWait(v, n) <= 0
         /\ \/ Cond!EndWait(v, n) = 0
            \/ n > 0 /\ Cond!EndWait(v, n) = v + n
         /\ n = 1 /\ v < 0 => Cond!EndWait(v, n) = v + 1
BY DEF Cond!EndWait, Cond!HasWaiters

(* The SIGNAL of a waker wakes sleepers, no more than it was told, and some *)
(* if there are any.                                                        *)
LEMMA CvSignal ==
  ASSUME CvInv, NEW k \in Wakers, Cond!Signal(k)
  PROVE  \E W \in SUBSET CvReg :
           /\ \A w \in W : cvPc[w] = "asleep"
           /\ cvPc' = [t \in Cond!Callers |->
                         IF t = k THEN "cs" ELSE IF t \in W THEN "relock" ELSE cvPc[t]]
           /\ Cond!StopWaiting(W)
           /\ count[k] > 0 => Cardinality(W) <= count[k]
           /\ Cond!Asleep # {} => W # {}
<1>1. PICK W \in Cond!Wakeable(Cond!Asleep, count[k]) :
        /\ cvPc' = [t \in Cond!Callers |->
                      IF t = k THEN (IF cvOwner = k THEN "cs" ELSE "out")
                      ELSE IF t \in W THEN "relock" ELSE cvPc[t]]
        /\ Cond!StopWaiting(W)
  BY DEF Cond!Signal
<1>2. cvOwner = k
  BY DEF Cond!Signal, CvInv, CvHeld
<1>3. Cond!Asleep \subseteq CvReg /\ \A w \in Cond!Asleep : cvPc[w] = "asleep"
  BY DEF Cond!Asleep, Cond!Callers, CvReg, CvInv, CvPlaces
<1>4. \A S : Cond!Cardinality(S) = Cardinality(S)
  BY DEF Cond!Cardinality, Cardinality
<1>5. IsFiniteSet(Cond!Asleep) /\ Cardinality(Cond!Asleep) \in Nat
  BY <1>3, CvRegFinite, FS_Subset, FS_CardinalityType
<1>6. count[k] \in Int /\ count[k] # 0
  BY CvCounts
<1>7. W \subseteq Cond!Asleep /\ (count[k] > 0 => Cardinality(W) <= count[k])
      /\ (Cond!Asleep # {} => W # {})
  <2>1. CASE count[k] < 0 \/ Cardinality(Cond!Asleep) <= count[k]
    <3>1. W = Cond!Asleep
      BY <1>4, <2>1 DEF Cond!Wakeable
    <3>. QED
      BY <1>5, <1>6, <2>1, <3>1
  <2>2. CASE ~(count[k] < 0 \/ Cardinality(Cond!Asleep) <= count[k])
    <3>1. W \subseteq Cond!Asleep /\ Cardinality(W) = count[k]
      BY <1>4, <2>2 DEF Cond!Wakeable
    <3>2. Cardinality({}) = 0
      BY FS_EmptySet
    <3>. QED
      BY <1>6, <2>2, <3>1, <3>2
  <2>. QED
    BY <2>1, <2>2
<1>. QED
  BY <1>1, <1>2, <1>3, <1>7

(* The steps of one thread that only moves it, or takes or gives the lock.  *)
LEMMA CvLockStep ==
  ASSUME CvInv, NEW t \in Waiters \cup Wakers,
         \/ Cond!Lock(t) \/ Cond!Unlock(t)
         \/ t \in Waiters /\ (Cond!ReleaseLock(t) \/ Cond!Relock(t) \/ Cond!Expire(t))
  PROVE  CvInv'
<1>1. PICK place \in Cond!Places :
        /\ cvPc' = [cvPc EXCEPT ![t] = place]
        /\ UNCHANGED <<cv, timed, timedOut, count, toOne, toAll>>
        /\ \/ cvPc[t] \in {"out", "relock"} /\ place = "cs" /\ cvOwner = NoThread /\ cvOwner' = t
           \/ cvPc[t] = "cs" /\ place = "out" /\ cvOwner' = NoThread
           \/ t \in Waiters /\ cvPc[t] = "unlock" /\ place = "wait" /\ cvOwner' = NoThread
           \/ t \in Waiters /\ cvPc[t] = "asleep" /\ place = "expired" /\ cvOwner' = cvOwner
  BY DEF Cond!Lock, Cond!Unlock, Cond!ReleaseLock, Cond!Relock, Cond!Expire, Cond!Places
<1>2. /\ cvPc' \in [Cond!Callers -> Cond!Places] /\ cvPc'[t] = place
      /\ \A u \in Waiters \cup Wakers : u # t => cvPc'[u] = cvPc[u]
  BY <1>1, CvGoes DEF CvInv, Cond!TypeOK
<1>3. Cond!TypeOK'
  BY <1>1, <1>2 DEF CvInv, Cond!TypeOK, Cond!Callers
<1>4. CvPlaces'
  BY <1>1, <1>2, CvFinite DEF CvInv, CvPlaces
<1>5. CvHeld'
  BY <1>1, <1>2, CvFinite DEF CvInv, CvHeld
<1>6. CvReg' = CvReg
  BY <1>1, <1>2, CvFinite DEF CvReg
<1>7. CvCounted'
  BY <1>1, <1>2, <1>6 DEF CvInv, CvCounted
<1>8. (toOne \cup toAll)' \subseteq CvWaiting'
  BY <1>1, <1>2, CvFinite DEF CvInv, CvWaiting
<1>. QED
  BY <1>3, <1>4, <1>5, <1>7, <1>8 DEF CvInv

(* A waiter registers while it holds the lock, so that no waker is between  *)
(* its two halves.                                                          *)
LEMMA CvBeginStep ==
  ASSUME CvInv, NEW w \in Waiters, Cond!BeginWait(w)
  PROVE  CvInv'
<1>1. /\ cvPc[w] = "cs" /\ cvPc' = [cvPc EXCEPT ![w] = "unlock"]
      /\ cv > -MaxRegistered /\ cv' = cv - 1
      /\ timed' \in [Waiters -> BOOLEAN] /\ timedOut' \in [Waiters -> BOOLEAN]
      /\ UNCHANGED <<cvOwner, count, toOne, toAll>>
  BY DEF Cond!BeginWait, CvInv, Cond!TypeOK
<1>2. "unlock" \in Cond!Places
  BY DEF Cond!Places
<1>3. /\ cvPc' \in [Cond!Callers -> Cond!Places] /\ cvPc'[w] = "unlock"
      /\ \A u \in Waiters \cup Wakers : u # w => cvPc'[u] = cvPc[u]
  BY <1>1, <1>2, CvGoes DEF CvInv, Cond!TypeOK
<1>4. Cond!TypeOK'
  BY <1>1, <1>3, CvFinite DEF CvInv, Cond!TypeOK, Cond!Callers
<1>5. CvPlaces'
  BY <1>1, <1>3, CvFinite DEF CvInv, CvPlaces
<1>6. CvHeld'
  BY <1>1, <1>3, CvFinite DEF CvInv, CvHeld
<1>7. CvCounted'
  <2>1. w \notin CvReg
    BY <1>1 DEF CvReg
  <2>2. Cardinality(CvReg') = Cardinality(CvReg) + 1
    BY <1>1, <1>2, <2>1, CvRegMoves DEF CvInv, Cond!TypeOK
  <2>3. \A k \in Wakers : cvPc'[k] # "signal"
    BY <1>1, <1>3, CvFinite DEF CvInv, CvHeld
  <2>4. cv \in Int
    BY CvFinite DEF CvInv, Cond!TypeOK
  <2>. QED
    BY <1>1, <2>2, <2>3, <2>4, CvRegFinite DEF CvInv, CvCounted
<1>8. (toOne \cup toAll)' \subseteq CvWaiting'
  BY <1>1, <1>3, CvFinite DEF CvInv, CvWaiting
<1>. QED
  BY <1>4, <1>5, <1>6, <1>7, <1>8 DEF CvInv

(* A waiter stops waiting: the word has no registrations, or it takes one.  *)
LEMMA CvEndStep ==
  ASSUME CvInv, NEW w \in Waiters, Cond!Arbitrate(w) \/ Cond!ExpiredWait(w)
  PROVE  CvInv'
<1>0. cv \in Int /\ cv <= 0
  BY CvFinite DEF CvInv, Cond!TypeOK
<1>1. PICK place \in {"asleep", "relock"} :
        /\ cvPc[w] \in {"wait", "expired"}
        /\ cvPc' = [cvPc EXCEPT ![w] = place]
        /\ place = "asleep" => UNCHANGED <<cv, toOne, toAll>>
        /\ place = "relock" => /\ cv' = IF cv < 0 THEN cv + 1 ELSE cv
                               /\ Cond!StopWaiting({w})
        /\ timedOut' \in [Waiters -> BOOLEAN]
        /\ UNCHANGED <<cvOwner, timed, count>>
  <2>1. CASE Cond!Arbitrate(w)
    BY <1>0, <2>1 DEF Cond!Arbitrate, Cond!MustSleep, CvInv, Cond!TypeOK
  <2>2. CASE Cond!ExpiredWait(w)
    <3>1. cv' = IF cv < 0 THEN cv + 1 ELSE cv
      BY <1>0, <2>2 DEF Cond!ExpiredWait, Cond!EndWait, Cond!HasWaiters
    <3>2. timedOut' \in [Waiters -> BOOLEAN]
      BY <1>0, <2>2 DEF Cond!ExpiredWait, Cond!HasWaiters, CvInv, Cond!TypeOK
    <3>. QED
      BY <2>2, <3>1, <3>2 DEF Cond!ExpiredWait
  <2>. QED
    BY <2>1, <2>2
<1>2. place \in Cond!Places
  BY DEF Cond!Places
<1>3. /\ cvPc' \in [Cond!Callers -> Cond!Places] /\ cvPc'[w] = place
      /\ \A u \in Waiters \cup Wakers : u # w => cvPc'[u] = cvPc[u]
  BY <1>1, <1>2, CvGoes DEF CvInv, Cond!TypeOK
<1>4. toOne' \subseteq toOne /\ toAll' \subseteq toAll
  BY <1>1 DEF Cond!StopWaiting
<1>5. Cond!TypeOK'
  <2>1. cv' \in -MaxRegistered .. 0
    BY <1>0, <1>1, CvFinite DEF CvInv, Cond!TypeOK
  <2>. QED
    BY <1>1, <1>3, <1>4, <2>1 DEF CvInv, Cond!TypeOK
<1>6. CvPlaces'
  BY <1>1, <1>3, CvFinite DEF CvInv, CvPlaces
<1>7. CvHeld'
  BY <1>1, <1>3, CvFinite DEF CvInv, CvHeld
<1>8. CvCounted'
  <2>1. w \in CvReg
    BY <1>1 DEF CvReg
  <2>2. \A k \in Wakers : cvPc'[k] = cvPc[k] /\ count'[k] = count[k] /\ count[k] \in Int
    BY <1>1, <1>3, CvCounts, CvFinite
  <2>3. CASE place = "asleep"
    <3>1. CvReg' = CvReg
      BY <1>1, <1>2, <2>1, <2>3, CvRegMoves DEF CvInv, Cond!TypeOK
    <3>. QED
      BY <1>1, <2>2, <2>3, <3>1 DEF CvInv, CvCounted
  <2>4. CASE place = "relock"
    <3>1. Cardinality(CvReg') = Cardinality(CvReg) - 1
      BY <1>1, <1>2, <2>1, <2>4, CvRegMoves DEF CvInv, Cond!TypeOK
    <3>2. cv' = IF cv < 0 THEN cv + 1 ELSE cv
      BY <1>1, <2>4
    <3>. QED
      BY <1>0, <2>2, <3>1, <3>2, CvRegFinite DEF CvInv, CvCounted
  <2>. QED
    BY <2>3, <2>4
<1>9. (toOne \cup toAll)' \subseteq CvWaiting'
  <2>1. place = "relock" => w \notin toOne' \cup toAll'
    BY <1>1 DEF Cond!StopWaiting
  <2>. QED
    BY <1>1, <1>3, <1>4, <2>1, CvFinite DEF CvInv, CvWaiting
<1>. QED
  BY <1>5, <1>6, <1>7, <1>8, <1>9 DEF CvInv

(* A waker takes registrations, which it holds the lock to do.              *)
LEMMA CvWakeUpStep ==
  ASSUME CvInv, NEW k \in Wakers, NEW n \in WakeCounts, Cond!WakeUp(k, n)
  PROVE  CvInv'
<1>0. cv \in Int /\ cv <= 0 /\ n \in Int /\ n # 0 /\ n >= -1
  BY CvFinite DEF CvInv, Cond!TypeOK
<1>1. PICK place \in {"cs", "signal"} :
        /\ cvPc[k] = "cs" /\ cvOwner = k
        /\ cvPc' = [cvPc EXCEPT ![k] = place]
        /\ cv' = Cond!EndWait(cv, n)
        /\ count' = [count EXCEPT ![k] = n]
        /\ UNCHANGED <<cvOwner, timed, timedOut>>
  BY DEF Cond!WakeUp, CvInv, CvHeld, Cond!TypeOK, Cond!Callers
<1>2. place \in Cond!Places
  BY DEF Cond!Places
<1>3. /\ cvPc' \in [Cond!Callers -> Cond!Places] /\ cvPc'[k] = place
      /\ \A u \in Waiters \cup Wakers : u # k => cvPc'[u] = cvPc[u]
  BY <1>1, <1>2, CvGoes DEF CvInv, Cond!TypeOK
<1>4. /\ cv' \in Int /\ cv <= cv' /\ cv' <= 0
      /\ \/ cv' = 0
         \/ n > 0 /\ cv' = cv + n
  BY <1>0, <1>1, CvEndWait
<1>5. Cond!Waiting = CvWaiting
  BY CvFinite DEF Cond!Waiting, CvWaiting, Cond!Callers, CvInv, CvPlaces
<1>6. /\ toOne' \cup toAll' \subseteq CvWaiting
      /\ CvWaiting' = CvWaiting
  <2>1. \A w \in Waiters : cvPc'[w] = cvPc[w]
    BY <1>3, CvFinite
  <2>. QED
    BY <1>5, <2>1 DEF Cond!WakeUp, CvInv, CvWaiting
<1>7. Cond!TypeOK'
  <2>1. cv' \in -MaxRegistered .. 0
    BY <1>0, <1>4, CvFinite DEF CvInv, Cond!TypeOK
  <2>2. toOne' \subseteq Waiters /\ toAll' \subseteq Waiters
    BY <1>6 DEF CvWaiting
  <2>3. count' \in [Wakers -> WakeCounts \cup {1}]
    BY <1>1 DEF CvInv, Cond!TypeOK
  <2>. QED
    BY <1>1, <1>3, <2>1, <2>2, <2>3 DEF CvInv, Cond!TypeOK
<1>8. CvPlaces'
  BY <1>1, <1>3, CvFinite DEF CvInv, CvPlaces
<1>9. CvHeld'
  BY <1>1, <1>3, CvFinite DEF CvInv, CvHeld
<1>10. CvCounted'
  <2>1. CvReg' = CvReg
    BY <1>1, <1>2, CvRegMoves DEF CvInv, Cond!TypeOK
  <2>2. \A u \in Wakers : u # k => cvPc'[u] # "signal"
    BY <1>1, <1>3 DEF CvInv, CvHeld
  <2>3. count'[k] = n
    BY <1>1 DEF CvInv, Cond!TypeOK
  <2>4. -cv <= Cardinality(CvReg)
    BY DEF CvInv, CvCounted
  <2>. QED
    BY <1>0, <1>4, <2>1, <2>2, <2>3, <2>4, CvRegFinite DEF CvCounted
<1>. QED
  BY <1>6, <1>7, <1>8, <1>9, <1>10 DEF CvInv

LEMMA CvSignalStep ==
  ASSUME CvInv, NEW k \in Wakers, Cond!Signal(k)
  PROVE  CvInv'
<1>1. PICK W \in SUBSET CvReg :
        /\ \A w \in W : cvPc[w] = "asleep"
        /\ cvPc' = [t \in Cond!Callers |->
                      IF t = k THEN "cs" ELSE IF t \in W THEN "relock" ELSE cvPc[t]]
        /\ Cond!StopWaiting(W)
        /\ count[k] > 0 => Cardinality(W) <= count[k]
  BY CvSignal
<1>2. /\ cvPc[k] = "signal" /\ cvOwner = k
      /\ UNCHANGED <<cv, cvOwner, timed, timedOut, count>>
  BY DEF Cond!Signal, CvInv, CvHeld
<1>3. /\ W \subseteq Waiters /\ cvPc'[k] = "cs"
      /\ \A w \in Waiters : cvPc'[w] = IF w \in W THEN "relock" ELSE cvPc[w]
      /\ \A u \in Wakers : u # k => cvPc'[u] = cvPc[u]
  BY <1>1, CvFinite DEF Cond!Callers, CvReg
<1>4. /\ toOne' \subseteq toOne /\ toAll' \subseteq toAll
      /\ (toOne' \cup toAll') \cap W = {}
  BY <1>1 DEF Cond!StopWaiting
<1>5. Cond!TypeOK'
  <2>1. cvPc' \in [Cond!Callers -> Cond!Places]
    BY <1>1 DEF CvInv, Cond!TypeOK, Cond!Places
  <2>. QED
    BY <1>2, <1>4, <2>1 DEF CvInv, Cond!TypeOK
<1>6. CvPlaces'
  BY <1>3 DEF CvInv, CvPlaces
<1>7. CvHeld'
  BY <1>2, <1>3 DEF CvInv, CvHeld
<1>8. CvCounted'
  <2>1. CvReg' = CvReg \ W
    BY <1>1, <1>3 DEF CvReg
  <2>2. /\ Cardinality(W) \in Nat
        /\ Cardinality(CvReg') = Cardinality(CvReg) - Cardinality(W)
    <3>1. CvReg \cap W = W
      OBVIOUS
    <3>2. Cardinality(W) \in Nat
      BY CvRegFinite, FS_Subset, FS_CardinalityType
    <3>3. Cardinality(CvReg \ W) = Cardinality(CvReg) - Cardinality(CvReg \cap W)
      BY CvRegFinite, FS_Difference
    <3>. QED
      BY <2>1, <3>1, <3>2, <3>3
  <2>3. \A u \in Wakers : cvPc'[u] # "signal"
    BY <1>2, <1>3 DEF CvInv, CvHeld
  <2>4. cv = 0 \/ Cardinality(W) - cv <= Cardinality(CvReg)
    <3>1. cv \in Int
      BY CvFinite DEF CvInv, Cond!TypeOK
    <3>. QED
      BY <1>1, <1>2, <2>2, <3>1, CvCounts, CvRegFinite DEF CvInv, CvCounted
  <2>5. cv \in Int
    BY CvFinite DEF CvInv, Cond!TypeOK
  <2>. QED
    BY <1>2, <2>2, <2>3, <2>4, <2>5, CvRegFinite DEF CvCounted
<1>9. (toOne \cup toAll)' \subseteq CvWaiting'
  BY <1>3, <1>4 DEF CvInv, CvWaiting
<1>. QED
  BY <1>5, <1>6, <1>7, <1>8, <1>9 DEF CvInv

LEMMA CvInit == Cond!Init => CvInv
<1> SUFFICES ASSUME Cond!Init PROVE CvInv
  OBVIOUS
<1>1. Cond!TypeOK
  BY CvFinite DEF Cond!Init, Cond!TypeOK, Cond!Callers, Cond!Places
<1>2. CvPlaces /\ CvHeld
  BY DEF Cond!Init, CvPlaces, CvHeld, Cond!Callers
<1>3. CvCounted
  BY CvRegFinite DEF Cond!Init, CvCounted, Cond!Callers
<1>. QED
  BY <1>1, <1>2, <1>3 DEF CvInv, Cond!Init

LEMMA CvNext == CvInv /\ [Cond!Next]_cvVars => CvInv'
<1> SUFFICES ASSUME CvInv, [Cond!Next]_cvVars PROVE CvInv'
  OBVIOUS
<1>1. ASSUME NEW t \in Waiters \cup Wakers, Cond!Lock(t) \/ Cond!Unlock(t) PROVE CvInv'
  BY <1>1, CvLockStep
<1>2. ASSUME NEW w \in Waiters,
             \/ Cond!BeginWait(w) \/ Cond!WaiterProceeds(w)
             \/ Cond!Expire(w) \/ Cond!Relock(w)
      PROVE  CvInv'
  BY <1>2, CvBeginStep, CvLockStep, CvEndStep DEF Cond!WaiterProceeds
<1>3. ASSUME NEW k \in Wakers, Cond!Signal(k) \/ \E n \in WakeCounts : Cond!WakeUp(k, n)
      PROVE  CvInv'
  BY <1>3, CvSignalStep, CvWakeUpStep
<1>4. CASE UNCHANGED cvVars
  <2>1. CvReg' = CvReg /\ CvWaiting' = CvWaiting
    BY <1>4 DEF cvVars, CvReg, CvWaiting
  <2>. QED
    BY <1>4, <2>1 DEF cvVars, CvInv, Cond!TypeOK, CvPlaces, CvHeld, CvCounted
<1>. QED
  BY <1>1, <1>2, <1>3, <1>4 DEF Cond!Next, Cond!Callers

-------------------------------------------------------------------------------
(* With one waiter the word is its registration, and the histories of the   *)
(* WakeUps addressed to it say who has taken it.                            *)
OneWaiter == \A v, w \in Waiters : v = w

CvOne ==
  \A w \in Waiters :
    /\ cvPc[w] \in {"out", "cs", "relock"} => cv = 0
    /\ cvPc[w] = "unlock" => cv = -1
    /\ cvPc[w] \in {"wait", "asleep", "expired"} =>
         \/ cv = -1 /\ w \notin toOne \cup toAll
         \/ cv = 0 /\ w \in toOne \cup toAll
    /\ cvPc[w] = "asleep" /\ cv = 0 => \E k \in Wakers : cvPc[k] = "signal"

LEMMA CvOneInit == Cond!Init => CvOne
BY DEF Cond!Init, CvOne, Cond!Callers

LEMMA CvOneWaiterStep ==
  ASSUME OneWaiter, CvInv, CvOne, NEW w \in Waiters,
         \/ Cond!Lock(w) \/ Cond!Unlock(w) \/ Cond!BeginWait(w) \/ Cond!WaiterProceeds(w)
         \/ Cond!Expire(w) \/ Cond!Relock(w)
  PROVE  CvOne'
<1>0. cv \in Int /\ cv <= 0 /\ (w \in toOne \cup toAll => cvPc[w] \in {"wait", "asleep", "expired"})
  BY CvFinite DEF CvInv, Cond!TypeOK, CvWaiting
<1>1. /\ cvPc[w] \in {"out", "cs", "relock"} => cv = 0
      /\ cvPc[w] = "unlock" => cv = -1
      /\ cvPc[w] \in {"wait", "asleep", "expired"} =>
           \/ cv = -1 /\ w \notin toOne \cup toAll
           \/ cv = 0 /\ w \in toOne \cup toAll
      /\ cvPc[w] = "asleep" /\ cv = 0 => \E k \in Wakers : cvPc[k] = "signal"
  BY DEF CvOne
<1>2. PICK place \in Cond!Places :
        /\ cvPc' = [cvPc EXCEPT ![w] = place]
        /\ \/ /\ cvPc[w] \in {"out", "cs", "relock"} /\ place \in {"out", "cs"}
              /\ UNCHANGED <<cv, toOne, toAll>>
           \/ /\ cvPc[w] = "cs" /\ place = "unlock"
              /\ cv' = cv - 1
           \/ /\ cvPc[w] = "unlock" /\ place = "wait"
              /\ UNCHANGED <<cv, toOne, toAll>>
           \/ /\ cvPc[w] = "wait" /\ place = "asleep" /\ cv < 0
              /\ UNCHANGED <<cv, toOne, toAll>>
           \/ /\ cvPc[w] = "asleep" /\ place = "expired"
              /\ UNCHANGED <<cv, toOne, toAll>>
           \/ /\ cvPc[w] \in {"wait", "expired"} /\ place = "relock"
              /\ cv' = 0
  <2>1. CASE Cond!Lock(w) \/ Cond!Unlock(w) \/ Cond!Relock(w)
    BY <2>1 DEF Cond!Lock, Cond!Unlock, Cond!Relock, Cond!Places
  <2>2. CASE Cond!BeginWait(w)
    BY <2>2 DEF Cond!BeginWait, Cond!Places
  <2>3. CASE Cond!ReleaseLock(w)
    BY <2>3 DEF Cond!ReleaseLock, Cond!Places
  <2>4. CASE Cond!Expire(w)
    BY <2>4 DEF Cond!Expire, Cond!Places
  <2>5. CASE Cond!Arbitrate(w)
    BY <1>0, <1>1, <2>5 DEF Cond!Arbitrate, Cond!MustSleep, Cond!Places
  <2>6. CASE Cond!ExpiredWait(w)
    <3>1. cv' = 0
      BY <1>1, <2>6 DEF Cond!ExpiredWait, Cond!EndWait, Cond!HasWaiters
    <3>. QED
      BY <2>6, <3>1 DEF Cond!ExpiredWait, Cond!Places
  <2>. QED
    BY <2>1, <2>2, <2>3, <2>4, <2>5, <2>6 DEF Cond!WaiterProceeds
<1>3. /\ cvPc'[w] = place
      /\ \A k \in Waiters \cup Wakers : k # w => cvPc'[k] = cvPc[k]
  BY <1>2, CvGoes DEF CvInv, Cond!TypeOK
<1>4. /\ place \in {"out", "cs", "relock"} => cv' = 0
      /\ place = "unlock" => cv' = -1
      /\ place \in {"wait", "asleep", "expired"} =>
           \/ cv' = -1 /\ w \notin toOne' \cup toAll'
           \/ cv' = 0 /\ w \in toOne' \cup toAll'
      /\ place = "asleep" => cv' # 0
  BY <1>0, <1>1, <1>2
<1>. QED
  BY <1>3, <1>4 DEF OneWaiter, CvOne

LEMMA CvOneWakerStep ==
  ASSUME OneWaiter, CvInv, CvOne, NEW k \in Wakers,
         \/ Cond!Lock(k) \/ Cond!Unlock(k) \/ Cond!Signal(k)
         \/ \E n \in WakeCounts : Cond!WakeUp(k, n)
  PROVE  CvOne'
<1>0. cv \in Int /\ cv <= 0
  BY CvFinite DEF CvInv, Cond!TypeOK
<1> SUFFICES ASSUME NEW w \in Waiters
             PROVE  /\ cvPc'[w] \in {"out", "cs", "relock"} => cv' = 0
                    /\ cvPc'[w] = "unlock" => cv' = -1
                    /\ cvPc'[w] \in {"wait", "asleep", "expired"} =>
                         \/ cv' = -1 /\ w \notin toOne' \cup toAll'
                         \/ cv' = 0 /\ w \in toOne' \cup toAll'
                    /\ cvPc'[w] = "asleep" /\ cv' = 0 => \E u \in Wakers : cvPc'[u] = "signal"
  BY DEF CvOne
<1>1. /\ cvPc[w] \in {"out", "cs", "relock"} => cv = 0
      /\ cvPc[w] = "unlock" => cv = -1
      /\ cvPc[w] \in {"wait", "asleep", "expired"} =>
           \/ cv = -1 /\ w \notin toOne \cup toAll
           \/ cv = 0 /\ w \in toOne \cup toAll
      /\ cvPc[w] = "asleep" /\ cv = 0 => \E u \in Wakers : cvPc[u] = "signal"
  BY DEF CvOne
<1>2. CASE Cond!Lock(k) \/ Cond!Unlock(k)
  <2>1. PICK place \in Cond!Places :
          /\ cvPc' = [cvPc EXCEPT ![k] = place] /\ cvPc[k] \in {"out", "cs"}
          /\ UNCHANGED <<cv, toOne, toAll>>
    BY <1>2 DEF Cond!Lock, Cond!Unlock, Cond!Places
  <2>2. /\ cvPc'[w] = cvPc[w]
        /\ \A u \in Wakers : cvPc[u] = "signal" => cvPc'[u] = cvPc[u]
    BY <2>1, CvGoes, CvFinite DEF CvInv, Cond!TypeOK
  <2>. QED
    BY <1>1, <2>1, <2>2
<1>3. CASE \E n \in WakeCounts : Cond!WakeUp(k, n)
  <2>1. PICK n \in WakeCounts : Cond!WakeUp(k, n)
    BY <1>3
  <2>2. n \in Int /\ n # 0 /\ n >= -1
    BY CvFinite
  <2>3. /\ cvPc'[w] = cvPc[w]
        /\ cv < 0 => cvPc'[k] = "signal"
        /\ cv = 0 => \A u \in Wakers : cvPc'[u] = cvPc[u]
    <3>1. CASE cv < 0
      <4>1. cvPc' = [cvPc EXCEPT ![k] = "signal"] /\ "signal" \in Cond!Places
        BY <2>1, <3>1 DEF Cond!WakeUp, Cond!HasWaiters, Cond!Places
      <4>2. cvPc'[k] = "signal" /\ \A u \in Waiters \cup Wakers : u # k => cvPc'[u] = cvPc[u]
        BY <4>1, CvGoes DEF CvInv, Cond!TypeOK
      <4>. QED
        BY <1>0, <3>1, <4>2, CvFinite
    <3>2. CASE cv = 0
      BY <2>1, <3>2 DEF Cond!WakeUp, Cond!HasWaiters
    <3>. QED
      BY <1>0, <3>1, <3>2
  <2>4. cvPc[w] # "unlock"
    BY <2>1, CvFinite DEF Cond!WakeUp, CvInv, CvHeld
  <2>5. cv \in {-1, 0} /\ cv' = 0
    <3>1. cv \in {-1, 0}
      BY <1>1, <2>4 DEF CvInv, Cond!TypeOK, Cond!Places, Cond!Callers, CvPlaces
    <3>. QED
      BY <2>1, <2>2, <3>1 DEF Cond!WakeUp, Cond!EndWait, Cond!HasWaiters
  <2>6. cvPc[w] \in {"wait", "asleep", "expired"} => w \in toOne' \cup toAll'
    <3>1. cvPc[w] \in {"wait", "asleep", "expired"} => w \in Cond!Waiting
      BY DEF Cond!Waiting, Cond!Callers
    <3>. QED
      BY <2>1, <3>1 DEF Cond!WakeUp
  <2>. QED
    BY <1>0, <1>1, <2>3, <2>4, <2>5, <2>6
<1>4. CASE Cond!Signal(k)
  <2>1. PICK W \in SUBSET CvReg :
          /\ \A v \in W : cvPc[v] = "asleep"
          /\ cvPc' = [t \in Cond!Callers |->
                        IF t = k THEN "cs" ELSE IF t \in W THEN "relock" ELSE cvPc[t]]
          /\ Cond!StopWaiting(W)
          /\ Cond!Asleep # {} => W # {}
    BY <1>4, CvSignal
  <2>2. /\ cvPc[k] = "signal" /\ UNCHANGED cv
    BY <1>4 DEF Cond!Signal
  <2>3. cv = 0
    <3>1. CvReg \subseteq {w}
      BY DEF CvReg, OneWaiter
    <3>2. Cardinality(CvReg) <= 1
      <4>1. IsFiniteSet({w}) /\ Cardinality({w}) = 1
        BY FS_Singleton
      <4>. QED
        BY <3>1, <4>1, FS_Subset
    <3>3. cv = 0 \/ (count[k] > 0 /\ count[k] - cv <= Cardinality(CvReg))
      BY <2>2 DEF CvInv, CvCounted
    <3>. QED
      BY <1>0, <3>2, <3>3, CvCounts, CvRegFinite
  <2>4. cvPc[w] = "asleep" => W = {w}
    <3>1. cvPc[w] = "asleep" => w \in Cond!Asleep
      BY DEF Cond!Asleep, Cond!Callers
    <3>2. W \subseteq {w}
      BY DEF CvReg, OneWaiter
    <3>. QED
      BY <2>1, <3>1, <3>2
  <2>5. cvPc'[w] = IF cvPc[w] = "asleep" THEN "relock" ELSE cvPc[w]
    <3>1. w # k /\ w \in Cond!Callers
      BY CvFinite DEF Cond!Callers
    <3>. QED
      BY <2>1, <2>4, <3>1
  <2>6. cvPc[w] # "asleep" => toOne' = toOne /\ toAll' = toAll
    <3>1. cvPc[w] # "asleep" => W = {}
      BY <2>1 DEF CvReg, OneWaiter
    <3>. QED
      BY <2>1, <3>1 DEF Cond!StopWaiting
  <2>. QED
    BY <1>1, <2>2, <2>3, <2>5, <2>6
<1>. QED
  BY <1>2, <1>3, <1>4

LEMMA CvOneNext == OneWaiter /\ CvInv /\ CvOne /\ [Cond!Next]_cvVars => CvOne'
<1> SUFFICES ASSUME OneWaiter, CvInv, CvOne, [Cond!Next]_cvVars PROVE CvOne'
  OBVIOUS
<1>1. ASSUME NEW t \in Waiters \cup Wakers, Cond!Lock(t) \/ Cond!Unlock(t) PROVE CvOne'
  BY <1>1, CvOneWaiterStep, CvOneWakerStep
<1>2. ASSUME NEW w \in Waiters,
             \/ Cond!BeginWait(w) \/ Cond!WaiterProceeds(w)
             \/ Cond!Expire(w) \/ Cond!Relock(w)
      PROVE  CvOne'
  BY <1>2, CvOneWaiterStep
<1>3. ASSUME NEW k \in Wakers, Cond!Signal(k) \/ \E n \in WakeCounts : Cond!WakeUp(k, n)
      PROVE  CvOne'
  BY <1>3, CvOneWakerStep
<1>4. CASE UNCHANGED cvVars
  BY <1>4 DEF cvVars, CvOne
<1>. QED
  BY <1>1, <1>2, <1>3, <1>4 DEF Cond!Next, Cond!Callers

(* A wait that ends after the kernel's timeout says so exactly if no waker  *)
(* has taken its registration.                                              *)
LEMMA CvTruthful ==
  ASSUME OneWaiter, CvInv, CvOne, [Cond!Next]_cvVars, NEW w \in Waiters,
         cvPc[w] = "expired", cvPc'[w] # "expired"
  PROVE  timedOut'[w] <=> w \notin toOne \cup toAll
<1>1. Cond!ExpiredWait(w)
  <2>1. ~UNCHANGED cvVars
    BY DEF cvVars
  <2>2. ASSUME NEW t \in Waiters \cup Wakers, NEW place \in Cond!Places,
               cvPc[t] # "expired", cvPc' = [cvPc EXCEPT ![t] = place]
        PROVE  FALSE
    BY <2>2, CvGoes DEF CvInv, Cond!TypeOK
  <2>3. ASSUME NEW t \in Waiters \cup Wakers, Cond!Lock(t) \/ Cond!Unlock(t) PROVE FALSE
    BY <2>2, <2>3 DEF Cond!Lock, Cond!Unlock, Cond!Places
  <2>4. ASSUME NEW v \in Waiters,
               \/ Cond!BeginWait(v) \/ Cond!ReleaseLock(v) \/ Cond!Arbitrate(v)
               \/ Cond!Expire(v) \/ Cond!Relock(v)
        PROVE  FALSE
    BY <2>4 DEF OneWaiter, Cond!BeginWait, Cond!ReleaseLock, Cond!Arbitrate, Cond!Expire, Cond!Relock
  <2>5. ASSUME NEW k \in Wakers, Cond!Signal(k) PROVE FALSE
    BY <2>5, CvSignal, CvFinite DEF Cond!Callers
  <2>6. ASSUME NEW k \in Wakers, NEW n \in WakeCounts, Cond!WakeUp(k, n) PROVE FALSE
    <3>1. cvPc' = [cvPc EXCEPT ![k] = "signal"] \/ cvPc' = cvPc
      BY <2>6 DEF Cond!WakeUp
    <3>2. cvPc[k] = "cs" /\ "signal" \in Cond!Places
      BY <2>6 DEF Cond!WakeUp, Cond!Places
    <3>. QED
      BY <2>2, <3>1, <3>2
  <2>7. PICK v \in Waiters : Cond!ExpiredWait(v)
    BY <2>1, <2>3, <2>4, <2>5, <2>6 DEF Cond!Next, Cond!Callers, Cond!WaiterProceeds
  <2>. QED
    BY <2>7 DEF OneWaiter
<1>2. timedOut'[w] <=> cv < 0
  BY <1>1 DEF Cond!ExpiredWait, Cond!HasWaiters, CvInv, Cond!TypeOK
<1>3. cv < 0 <=> w \notin toOne \cup toAll
  BY DEF CvOne
<1>. QED
  BY <1>2, <1>3

-------------------------------------------------------------------------------
(***************************************************************************)
(* LightSemaphore.                                                         *)
(***************************************************************************)

(* The count stays within its bounds whoever takes from it, because a       *)
(* request is compared with it where it is taken; the number of waiters is  *)
(* that of the threads between registering and unregistering.               *)
SmInv ==
  /\ current_count \in 0 .. MaxCount
  /\ semPc \in [Sem!Callers -> Sem!Places]
  /\ amount \in [Sem!Callers -> Needs \cup Gives \cup {0}]
  /\ old \in [Sem!Callers -> 0 .. MaxCount]
  /\ num_threads_acq = Cardinality(Sem!Registered)
  /\ \A t \in Sem!Acquiring : amount[t] \in Needs

LEMMA SmFinite ==
  /\ IsFiniteSet(Sem!Callers)
  /\ Needs \subseteq Nat \ {0} /\ Gives \subseteq Nat \ {0} /\ MaxCount \in Nat \ {0}
<1>1. \A S : Sem!IsFiniteSet(S) <=> IsFiniteSet(S)
  BY DEF Sem!IsFiniteSet, IsFiniteSet
<1>2. Sem!LightSemaphoreAssumption
  BY SemaphoreAssumption
<1>3. IsFiniteSet(Acquirers) /\ IsFiniteSet(Releasers)
  BY <1>1, <1>2 DEF Sem!LightSemaphoreAssumption
<1>. QED
  BY <1>2, <1>3, FS_Union DEF Sem!LightSemaphoreAssumption, Sem!Callers

LEMMA SmRegFinite ==
  /\ IsFiniteSet(Sem!Registered)
  /\ Cardinality(Sem!Registered) \in 0 .. Cardinality(Sem!Callers)
<1>1. Sem!Registered \subseteq Sem!Callers
  BY DEF Sem!Registered
<1>2. Cardinality(Sem!Callers) \in Nat
  BY SmFinite, FS_CardinalityType
<1>3. IsFiniteSet(Sem!Registered) /\ Cardinality(Sem!Registered) <= Cardinality(Sem!Callers)
  BY <1>1, SmFinite, FS_Subset
<1>4. Cardinality(Sem!Registered) \in Nat
  BY <1>3, FS_CardinalityType
<1>. QED
  BY <1>2, <1>3, <1>4

LEMMA SmGoes ==
  ASSUME semPc \in [Sem!Callers -> Sem!Places], NEW t \in Sem!Callers,
         NEW place \in Sem!Places, Sem!Goto(t, place)
  PROVE  /\ semPc' \in [Sem!Callers -> Sem!Places] /\ semPc'[t] = place
         /\ \A u \in Sem!Callers : u # t => semPc'[u] = semPc[u]
BY DEF Sem!Goto

(* A thread that moves within its wait, or outside it, leaves the registered *)
(* ones as they were.                                                       *)
LEMMA SmMoveStep ==
  ASSUME SmInv, NEW t \in Sem!Callers, NEW place \in Sem!Places, Sem!Goto(t, place),
         semPc[t] \in {"wait", "asleep", "leave"} <=> place \in {"wait", "asleep", "leave"},
         current_count' \in 0 .. MaxCount, UNCHANGED num_threads_acq,
         NEW n \in Needs \cup Gives \cup {0}, NEW o \in 0 .. MaxCount,
         amount' = [amount EXCEPT ![t] = n], old' = [old EXCEPT ![t] = o],
         place \in {"register", "wait", "asleep", "leave", "retry"} => n \in Needs
  PROVE  SmInv'
<1>1. /\ semPc' \in [Sem!Callers -> Sem!Places] /\ semPc'[t] = place
      /\ \A u \in Sem!Callers : u # t => semPc'[u] = semPc[u]
  BY SmGoes DEF SmInv
<1>2. Sem!Registered' = Sem!Registered
  BY <1>1 DEF Sem!Registered
<1>3. /\ amount' \in [Sem!Callers -> Needs \cup Gives \cup {0}]
      /\ old' \in [Sem!Callers -> 0 .. MaxCount]
      /\ amount'[t] = n /\ \A u \in Sem!Callers : u # t => amount'[u] = amount[u]
  BY DEF SmInv
<1>4. \A u \in Sem!Acquiring' : amount'[u] \in Needs
  BY <1>1, <1>3 DEF SmInv, Sem!Acquiring
<1>. QED
  BY <1>1, <1>2, <1>3, <1>4 DEF SmInv

LEMMA SmWaitStep ==
  ASSUME SmInv, NEW t \in Sem!Callers,
         \/ Sem!Arbitrate(t) \/ Sem!RetryEnough(t) \/ Sem!RetryTooLittle(t)
         \/ Sem!CheckWaiters(t)
  PROVE  SmInv'
<1>1. /\ amount[t] \in Needs \cup Gives \cup {0} /\ old[t] \in 0 .. MaxCount
      /\ amount = [amount EXCEPT ![t] = amount[t]] /\ old = [old EXCEPT ![t] = old[t]]
      /\ 0 \in Needs \cup Gives \cup {0} /\ 0 \in 0 .. MaxCount
      /\ semPc[t] \in {"wait", "retry"} => amount[t] \in Needs
  BY SmFinite DEF SmInv, Sem!Acquiring
<1>2. CASE Sem!Arbitrate(t)
  <2>1. PICK place \in {"asleep", "leave"} : Sem!Goto(t, place)
    BY <1>2 DEF Sem!Arbitrate
  <2>. QED
    BY <1>1, <1>2, <2>1, SmMoveStep DEF Sem!Arbitrate, Sem!Places, SmInv
<1>3. CASE Sem!RetryEnough(t)
  <2>1. current_count' \in 0 .. MaxCount
    <3>1. amount[t] \in Nat /\ current_count \in 0 .. MaxCount /\ MaxCount \in Nat
      BY <1>1, <1>3, SmFinite DEF Sem!RetryEnough, SmInv
    <3>. QED
      BY <1>3, <3>1 DEF Sem!RetryEnough
  <2>. QED
    BY <1>1, <1>3, <2>1, SmMoveStep DEF Sem!RetryEnough, Sem!Return, Sem!Places
<1>4. CASE Sem!RetryTooLittle(t)
  BY <1>1, <1>4, SmMoveStep DEF Sem!RetryTooLittle, Sem!Places, SmInv
<1>5. CASE Sem!CheckWaiters(t)
  BY <1>1, <1>5, SmMoveStep DEF Sem!CheckWaiters, Sem!Return, Sem!Places, SmInv
<1>. QED
  BY <1>2, <1>3, <1>4, <1>5

LEMMA SmCallStep ==
  ASSUME SmInv, NEW t \in Sem!Callers,
         \/ \E n \in Needs : \/ Sem!AcquireEnough(t, n) \/ Sem!AcquireTooLittle(t, n)
                             \/ Sem!TryAcquire(t, n)
         \/ \E n \in Gives : Sem!Release(t, n)
  PROVE  SmInv'
<1>1. ASSUME NEW n \in Needs, Sem!AcquireEnough(t, n) \/ Sem!TryAcquire(t, n) PROVE SmInv'
  <2>1. current_count' \in 0 .. MaxCount
    BY <1>1, SmFinite DEF Sem!AcquireEnough, Sem!TryAcquire, SmInv
  <2>2. Sem!Registered' = Sem!Registered /\ Sem!Acquiring' = Sem!Acquiring
    BY <1>1 DEF Sem!AcquireEnough, Sem!TryAcquire, Sem!Registered, Sem!Acquiring
  <2>. QED
    BY <1>1, <2>1, <2>2 DEF Sem!AcquireEnough, Sem!TryAcquire, SmInv
<1>2. ASSUME NEW n \in Needs, Sem!AcquireTooLittle(t, n) PROVE SmInv'
  <2>1. old = [old EXCEPT ![t] = old[t]] /\ old[t] \in 0 .. MaxCount
    BY DEF SmInv
  <2>. QED
    BY <1>2, <2>1, SmMoveStep DEF Sem!AcquireTooLittle, Sem!Places, SmInv
<1>3. ASSUME NEW n \in Gives, Sem!Release(t, n) PROVE SmInv'
  <2>1. current_count \in 0 .. MaxCount /\ current_count' \in 0 .. MaxCount
    BY <1>3, SmFinite DEF Sem!Release, SmInv
  <2>. QED
    BY <1>3, <2>1, SmMoveStep DEF Sem!Release, Sem!Places
<1>. QED
  BY <1>1, <1>2, <1>3

LEMMA SmRegisterStep ==
  ASSUME SmInv, NEW t \in Sem!Callers, Sem!Register(t) \/ Sem!Unregister(t)
  PROVE  SmInv'
<1>1. PICK from, place \in Sem!Places :
        /\ semPc[t] = from /\ Sem!Goto(t, place)
        /\ UNCHANGED <<current_count, amount, old>>
        /\ \/ from = "register" /\ place = "wait" /\ num_threads_acq' = num_threads_acq + 1
           \/ from = "leave" /\ place = "retry" /\ num_threads_acq' = num_threads_acq - 1
  BY DEF Sem!Register, Sem!Unregister, Sem!Places
<1>2. /\ semPc' \in [Sem!Callers -> Sem!Places] /\ semPc'[t] = place
      /\ \A u \in Sem!Callers : u # t => semPc'[u] = semPc[u]
  BY <1>1, SmGoes DEF SmInv
<1>3. \A u \in Sem!Acquiring' : amount'[u] \in Needs
  BY <1>1, <1>2 DEF SmInv, Sem!Acquiring
<1>4. num_threads_acq' = Cardinality(Sem!Registered')
  <2>1. CASE from = "register"
    <3>1. Sem!Registered' = Sem!Registered \cup {t} /\ t \notin Sem!Registered
      BY <1>1, <1>2, <2>1 DEF Sem!Registered
    <3>. QED
      BY <1>1, <2>1, <3>1, SmRegFinite, FS_AddElement DEF SmInv
  <2>2. CASE from = "leave"
    <3>1. Sem!Registered' = Sem!Registered \ {t} /\ t \in Sem!Registered
      BY <1>1, <1>2, <2>2 DEF Sem!Registered
    <3>. QED
      BY <1>1, <2>2, <3>1, SmRegFinite, FS_RemoveElement DEF SmInv
  <2>. QED
    BY <1>1, <2>1, <2>2
<1>. QED
  BY <1>1, <1>2, <1>3, <1>4 DEF SmInv

(* Those that a SIGNAL wakes were asleep and stay registered.               *)
LEMMA SmSignal ==
  ASSUME SmInv, NEW t \in Sem!Callers, Sem!Signal(t)
  PROVE  \E W \in SUBSET Sem!Asleep :
           semPc' = [u \in Sem!Callers |-> IF u = t THEN "out"
                                         ELSE IF u \in W THEN "leave" ELSE semPc[u]]
BY DEF Sem!Signal, Sem!Wakeable

LEMMA SmSignalStep ==
  ASSUME SmInv, NEW t \in Sem!Callers, Sem!Signal(t)
  PROVE  SmInv'
<1>1. PICK W \in SUBSET Sem!Asleep :
        semPc' = [u \in Sem!Callers |-> IF u = t THEN "out"
                                      ELSE IF u \in W THEN "leave" ELSE semPc[u]]
  BY SmSignal
<1>2. /\ semPc[t] = "signal" /\ UNCHANGED <<current_count, num_threads_acq>>
      /\ amount' = [amount EXCEPT ![t] = 0] /\ old' = [old EXCEPT ![t] = 0]
  BY DEF Sem!Signal
<1>3. semPc' \in [Sem!Callers -> Sem!Places]
  BY <1>1 DEF SmInv, Sem!Places
<1>4. Sem!Registered' = Sem!Registered /\ Sem!Acquiring' = Sem!Acquiring /\ t \notin Sem!Acquiring
  BY <1>1, <1>2 DEF Sem!Registered, Sem!Acquiring, Sem!Asleep
<1>5. /\ amount' \in [Sem!Callers -> Needs \cup Gives \cup {0}]
      /\ old' \in [Sem!Callers -> 0 .. MaxCount]
  BY <1>2, SmFinite DEF SmInv
<1>6. \A u \in Sem!Acquiring : amount'[u] \in Needs
  BY <1>2, <1>4 DEF SmInv, Sem!Acquiring
<1>. QED
  BY <1>2, <1>3, <1>4, <1>5, <1>6 DEF SmInv

LEMMA SmInit == Sem!Init => SmInv
<1> SUFFICES ASSUME Sem!Init PROVE SmInv
  OBVIOUS
<1>1. Sem!Registered = {} /\ Sem!Acquiring = {}
  BY DEF Sem!Init, Sem!Registered, Sem!Acquiring
<1>. QED
  BY <1>1, SmFinite, FS_EmptySet DEF Sem!Init, SmInv, Sem!Places

LEMMA SmNext == SmInv /\ [Sem!Next]_semVars => SmInv'
<1> SUFFICES ASSUME SmInv, [Sem!Next]_semVars PROVE SmInv'
  OBVIOUS
<1>1. ASSUME NEW t \in Sem!Callers, Sem!Proceed(t) PROVE SmInv'
  BY <1>1, SmWaitStep, SmRegisterStep, SmSignalStep DEF Sem!Proceed
<1>2. ASSUME NEW t \in Acquirers, NEW n \in Needs,
             \/ Sem!AcquireEnough(t, n) \/ Sem!AcquireTooLittle(t, n) \/ Sem!TryAcquire(t, n)
      PROVE  SmInv'
  BY <1>2, SmCallStep DEF Sem!Callers
<1>3. ASSUME NEW t \in Releasers, NEW n \in Gives, Sem!Release(t, n) PROVE SmInv'
  BY <1>3, SmCallStep DEF Sem!Callers
<1>4. CASE UNCHANGED semVars
  <2>1. Sem!Registered' = Sem!Registered /\ Sem!Acquiring' = Sem!Acquiring
    BY <1>4 DEF semVars, Sem!Registered, Sem!Acquiring
  <2>. QED
    BY <1>4, <2>1 DEF semVars, SmInv
<1>. QED
  BY <1>1, <1>2, <1>3, <1>4 DEF Sem!Next

(* What LightSemaphore does to the count and to those who wait for it is    *)
(* what the abstract semaphore may do.                                      *)
LEMMA SmRefines == SmInv /\ [Sem!Next]_semVars => [Sem!S!Next]_Sem!S!vars
<1> SUFFICES ASSUME SmInv, [Sem!Next]_semVars PROVE [Sem!S!Next]_Sem!S!vars
  OBVIOUS
<1> DEFINE want == [t \in Sem!Callers |-> IF t \in Sem!Acquiring THEN amount[t] ELSE 0]
<1>0. current_count \in Int /\ MaxCount \in Int
  BY SmFinite DEF SmInv
<1>1. ASSUME NEW t \in Sem!Callers, NEW n \in Needs,
             Sem!AcquireEnough(t, n) \/ Sem!TryAcquire(t, n)
      PROVE  Sem!S!Acquire(t, n) \/ UNCHANGED Sem!S!vars
  <2>1. semPc[t] = "out" /\ t \notin Sem!Acquiring /\ want' = want
    BY <1>1 DEF Sem!AcquireEnough, Sem!TryAcquire, Sem!Acquiring
  <2>2. want = [want EXCEPT ![t] = 0] /\ want[t] = 0
    BY <2>1
  <2>3. CASE current_count >= n
    BY <1>0, <1>1, <2>1, <2>2, <2>3, SmFinite DEF Sem!AcquireEnough, Sem!TryAcquire, Sem!S!Acquire
  <2>4. CASE ~(current_count >= n)
    BY <1>0, <1>1, <2>1, <2>4, SmFinite DEF Sem!AcquireEnough, Sem!TryAcquire, Sem!S!vars
  <2>. QED
    BY <2>3, <2>4
<1>2. ASSUME NEW t \in Sem!Callers, NEW n \in Needs, Sem!AcquireTooLittle(t, n)
      PROVE  Sem!S!Request(t, n)
  <2>1. semPc[t] = "out" /\ current_count' = current_count
        /\ amount' = [amount EXCEPT ![t] = n]
        /\ semPc' = [semPc EXCEPT ![t] = "register"]
    BY <1>2 DEF Sem!AcquireTooLittle, Sem!Goto
  <2>2. want[t] = 0 /\ want' = [want EXCEPT ![t] = n]
    BY <2>1 DEF SmInv, Sem!Acquiring
  <2>. QED
    BY <2>1, <2>2 DEF Sem!S!Request
<1>3. ASSUME NEW t \in Sem!Callers, NEW n \in Gives, Sem!Release(t, n)
      PROVE  Sem!S!Release(n)
  <2>1. semPc[t] = "out" /\ amount' = [amount EXCEPT ![t] = n]
        /\ semPc' = [semPc EXCEPT ![t] = "check"]
    BY <1>3 DEF Sem!Release, Sem!Goto
  <2>2. want' = want
    BY <2>1 DEF SmInv, Sem!Acquiring
  <2>3. n \in Int
    BY SmFinite
  <2>. QED
    BY <1>0, <1>3, <2>2, <2>3 DEF Sem!Release, Sem!S!Release
<1>4. ASSUME NEW t \in Sem!Callers, Sem!RetryEnough(t)
      PROVE  \E n \in Needs : Sem!S!Acquire(t, n)
  <2>1. semPc[t] = "retry" /\ amount' = [amount EXCEPT ![t] = 0]
        /\ semPc' = [semPc EXCEPT ![t] = "out"]
    BY <1>4 DEF Sem!RetryEnough, Sem!Return, Sem!Goto
  <2>2. t \in Sem!Acquiring /\ amount[t] \in Needs
    BY <2>1 DEF SmInv, Sem!Acquiring
  <2>3. want[t] = amount[t] /\ want' = [want EXCEPT ![t] = 0]
    BY <2>1, <2>2 DEF SmInv, Sem!Acquiring
  <2>4. PICK n \in Needs : n = amount[t]
    BY <2>2
  <2>5. Sem!S!Acquire(t, n)
    BY <1>4, <2>3, <2>4 DEF Sem!RetryEnough, Sem!S!Acquire
  <2>. QED
    BY <2>5
<1>5. ASSUME NEW t \in Sem!Callers,
             \/ Sem!Register(t) \/ Sem!Arbitrate(t) \/ Sem!Unregister(t) \/ Sem!RetryTooLittle(t)
      PROVE  UNCHANGED Sem!S!vars
  <2>1. PICK place \in {"register", "wait", "asleep", "leave", "retry"} : Sem!Goto(t, place)
    BY <1>5 DEF Sem!Register, Sem!Arbitrate, Sem!Unregister, Sem!RetryTooLittle
  <2>2. /\ semPc[t] \in {"register", "wait", "asleep", "leave", "retry"}
        /\ UNCHANGED <<current_count, amount>>
    BY <1>5 DEF Sem!Register, Sem!Arbitrate, Sem!Unregister, Sem!RetryTooLittle
  <2>3. Sem!Acquiring' = Sem!Acquiring
    BY <2>1, <2>2 DEF SmInv, Sem!Acquiring, Sem!Goto
  <2>. QED
    BY <2>2, <2>3 DEF Sem!S!vars
<1>6. ASSUME NEW t \in Sem!Callers, Sem!CheckWaiters(t)
      PROVE  UNCHANGED Sem!S!vars
  <2>1. PICK place \in {"signal", "out"} : semPc' = [semPc EXCEPT ![t] = place]
    BY <1>6 DEF Sem!CheckWaiters, Sem!Return, Sem!Goto
  <2>2. /\ semPc[t] = "check" /\ current_count' = current_count
        /\ \A u \in Sem!Callers : u # t => amount'[u] = amount[u]
    BY <1>6 DEF Sem!CheckWaiters, Sem!Return, SmInv
  <2>3. Sem!Acquiring' = Sem!Acquiring /\ t \notin Sem!Acquiring
    BY <2>1, <2>2 DEF SmInv, Sem!Acquiring
  <2>. QED
    BY <2>2, <2>3 DEF Sem!S!vars
<1>7. ASSUME NEW t \in Sem!Callers, Sem!Signal(t)
      PROVE  UNCHANGED Sem!S!vars
  <2>1. PICK W \in SUBSET Sem!Asleep :
          semPc' = [u \in Sem!Callers |-> IF u = t THEN "out"
                                        ELSE IF u \in W THEN "leave" ELSE semPc[u]]
    BY <1>7, SmSignal
  <2>2. /\ semPc[t] = "signal" /\ current_count' = current_count
        /\ \A u \in Sem!Callers : u # t => amount'[u] = amount[u]
    BY <1>7 DEF Sem!Signal, SmInv
  <2>3. Sem!Acquiring' = Sem!Acquiring /\ t \notin Sem!Acquiring
    BY <2>1, <2>2 DEF Sem!Acquiring, Sem!Asleep
  <2>. QED
    BY <2>2, <2>3 DEF Sem!S!vars
<1>8. CASE UNCHANGED semVars
  BY <1>8 DEF semVars, Sem!S!vars, Sem!Acquiring
<1>9. ASSUME NEW t \in Acquirers, NEW n \in Needs,
             \/ Sem!AcquireEnough(t, n) \/ Sem!AcquireTooLittle(t, n) \/ Sem!TryAcquire(t, n)
      PROVE  [Sem!S!Next]_Sem!S!vars
  <2>1. t \in Sem!Callers
    BY DEF Sem!Callers
  <2>2. Sem!S!Request(t, n) \/ Sem!S!Acquire(t, n) \/ UNCHANGED Sem!S!vars
    BY <1>1, <1>2, <1>9, <2>1
  <2>. QED
    BY <2>1, <2>2 DEF Sem!S!Next
<1>10. ASSUME NEW t \in Releasers, NEW n \in Gives, Sem!Release(t, n)
       PROVE  [Sem!S!Next]_Sem!S!vars
  BY <1>3, <1>10 DEF Sem!S!Next, Sem!Callers
<1>11. ASSUME NEW t \in Sem!Callers, Sem!Proceed(t)
       PROVE  [Sem!S!Next]_Sem!S!vars
  <2>1. CASE Sem!RetryEnough(t)
    BY <1>4, <2>1 DEF Sem!S!Next
  <2>2. CASE ~Sem!RetryEnough(t)
    BY <1>5, <1>6, <1>7, <1>11, <2>2 DEF Sem!Proceed
  <2>. QED
    BY <2>1, <2>2
<1>. QED
  BY <1>8, <1>9, <1>10, <1>11 DEF Sem!Next
-------------------------------------------------------------------------------
(***************************************************************************)
(* The composition.  One object moves and the others stay as they were, so *)
(* each of them only takes steps of its own.                               *)
(***************************************************************************)

LightProofs == INSTANCE LightLockProofs WITH pc <- lightPc

LEMMA SyncSteps ==
  ASSUME [SyncNext]_<<object, lightVars, vars, cvVars, semVars>>
  PROVE  [Light!Next]_lightVars /\ [Next]_vars /\ [Cond!Next]_cvVars /\ [Sem!Next]_semVars
BY DEF SyncNext, lightVars, vars, cvVars, semVars

(* The lemmas of LightLockProofs, for the LightLock of the composition.     *)
LEMMA LightThreads == LightProofs!IsFiniteSet(Threads)
BY ThreadsAssumption DEF LightProofs!IsFiniteSet, IsFiniteSet

LEMMA LightInit == Light!Init => LightProofs!IInv
<1>1. Light!Init => LightProofs!Init
  BY DEF Light!Init, LightProofs!Init
<1>. QED
  BY <1>1, LightThreads, LightProofs!InitIInv

LEMMA LightNext == LightProofs!IInv /\ [Light!Next]_lightVars => LightProofs!IInv'
<1>1. [Light!Next]_lightVars => [LightProofs!Next]_LightProofs!vars
  BY DEF lightVars, Light!vars, LightProofs!vars, Light!Next, LightProofs!Next,
     Light!LockFree, Light!LockHeld, Light!TryLock, Light!Unlock, Light!Proceed,
     Light!Arbitrate, Light!RetryFree, Light!RetryHeld, Light!Signal,
     LightProofs!LockFree, LightProofs!LockHeld, LightProofs!TryLock, LightProofs!Unlock,
     LightProofs!Proceed, LightProofs!Arbitrate, LightProofs!RetryFree,
     LightProofs!RetryHeld, LightProofs!Signal,
     Light!Valid, LightProofs!Valid, Light!MustSleep, LightProofs!MustSleep,
     Light!Asleep, LightProofs!Asleep, Light!Wakeable, LightProofs!Wakeable,
     Light!Cardinality, LightProofs!Cardinality
<1>. QED
  BY <1>1, LightThreads, LightProofs!NextIInv

LEMMA LightTypes == LightProofs!IInv => Light!TypeOK
<1>1. LightProofs!TypeOK => Light!TypeOK
  BY DEF LightProofs!TypeOK, Light!TypeOK, LightProofs!Cardinality, Light!Cardinality
<1>. QED
  BY <1>1, LightThreads, LightProofs!IInvTyped

SyncInv == LightProofs!IInv /\ IInv /\ CvInv /\ SmInv

LEMMA SyncInvariant == SyncSpec => []SyncInv
<1>1. SyncInit => SyncInv
  BY LightInit, InitIInv, CvInit, SmInit DEF SyncInit, SyncInv
<1>2. SyncInv /\ [SyncNext]_<<object, lightVars, vars, cvVars, semVars>> => SyncInv'
  BY SyncSteps, LightNext, NextIInv, CvNext, SmNext DEF SyncInv
<1>. QED
  BY <1>1, <1>2, PTL DEF SyncSpec

(* Every word, count and place keeps its type, for any finite sets of       *)
(* threads: the word of a LightLock never counts more threads than there    *)
(* are, that of a CondVar is never positive, and the count of a semaphore   *)
(* is never handed out below zero nor given back above its maximum.         *)
THEOREM TypesHold == SyncSpec => []SyncTypeOK
<1>1. SmInv => Sem!TypeOK
  <2>1. Sem!Cardinality(Sem!Callers) = Cardinality(Sem!Callers)
    BY DEF Sem!Cardinality, Cardinality
  <2>. QED
    BY <2>1, SmRegFinite DEF SmInv, Sem!TypeOK
<1>2. SyncInv => SyncTypeOK
  BY <1>1, LightTypes DEF SyncInv, SyncTypeOK, CvInv, IInv
<1>. QED
  BY <1>2, SyncInvariant, PTL

(* A free LightLock with sleepers has somebody on the way to them, between  *)
(* its store and its SIGNAL, too.                                           *)
THEOREM SleepersAreThoughtOf == SyncSpec => []NoLostWakeup
<1>1. SyncInv => NoLostWakeup
  BY DEF SyncInv, LightProofs!IInv, LightProofs!NoLostWakeup, NoLostWakeup, Light!NoLostWakeup,
         LightProofs!Asleep, Light!Asleep, LightProofs!Held, Light!Held
<1>. QED
  BY <1>1, SyncInvariant, PTL

(* A CondVar never owes a registration to a thread that does not wait, and  *)
(* the number of waiters of a LightSemaphore is that of those registered,   *)
(* although neither is updated together with the sleep it is about.         *)
THEOREM CountsAreRight == SyncSpec => [](Cond!CountsOnlyWaiters /\ Sem!CountsRegistered)
<1>1. CvInv => Cond!CountsOnlyWaiters
  <2>1. Cond!Cardinality(CvReg) = Cardinality(CvReg)
    BY DEF Cond!Cardinality, Cardinality
  <2>. QED
    BY <2>1 DEF CvInv, CvCounted, Cond!CountsOnlyWaiters, CvReg
<1>2. SmInv => Sem!CountsRegistered
  <2>1. Sem!Cardinality(Sem!Registered) = Cardinality(Sem!Registered)
    BY DEF Sem!Cardinality, Cardinality
  <2>. QED
    BY <2>1 DEF SmInv, Sem!CountsRegistered
<1>3. SyncInv => Cond!CountsOnlyWaiters /\ Sem!CountsRegistered
  BY <1>1, <1>2 DEF SyncInv
<1>. QED
  BY <1>3, SyncInvariant, PTL

LEMMA OneWaiterInvariant == ASSUME OneWaiter PROVE SyncSpec => []CvOne
<1>1. SyncInit => CvOne
  BY CvOneInit DEF SyncInit
<1>2. SyncInv /\ CvOne /\ [SyncNext]_<<object, lightVars, vars, cvVars, semVars>> => CvOne'
  BY OneWaiter, SyncSteps, CvOneNext DEF SyncInv
<1>. QED
  BY <1>1, <1>2, SyncInvariant, PTL DEF SyncSpec

(* With one waiter, and any number of wakers, a CondVar strands nobody: a   *)
(* thread that sleeps on a word without registrations has a SIGNAL coming.  *)
(* With two waiters it does not hold, as MCCondVarTwo shows.                *)
THEOREM OneWaiterIsCounted == ASSUME OneWaiter PROVE SyncSpec => []WaitersAreCounted
<1>1. CvInv /\ CvOne => Cond!NobodyStranded
  BY DEF CvInv, CvPlaces, CvOne, Cond!NobodyStranded, Cond!Asleep, Cond!Callers
<1>. QED
  BY <1>1, CountsAreRight, OneWaiterInvariant, SyncInvariant, PTL DEF WaitersAreCounted, SyncInv

(* ... and CondVar_WaitTimeout tells the truth, when a WakeUp comes between *)
(* the kernel's timeout and the withdrawal of the registration, too.        *)
THEOREM TimeoutsTellTheTruth == ASSUME OneWaiter PROVE SyncSpec => TimeoutIsTruthful
<1>1. SyncInv /\ CvOne /\ [SyncNext]_<<object, lightVars, vars, cvVars, semVars>> =>
        [\A w \in Waiters : cvPc[w] = "expired" /\ cvPc'[w] # "expired" =>
           (timedOut'[w] <=> w \notin toOne \cup toAll)]_Cond!vars
  BY OneWaiter, SyncSteps, CvTruthful DEF SyncInv
<1>. QED
  BY <1>1, OneWaiterInvariant, SyncInvariant, PTL
     DEF TimeoutIsTruthful, Cond!TimeoutIsTruthful, SyncSpec

(* LightSemaphore implements the abstract semaphore, as far as safety goes: *)
(* no interleaving of threads takes more than there is, or gives more than  *)
(* was released, whatever the numbers they ask for.                         *)
THEOREM SemaphoreIsRefined == SyncSpec => Sem!S!SafetySpec
<1>1. Sem!Init => Sem!S!Init
  BY SmInit DEF Sem!Init, Sem!S!Init, Sem!Acquiring, Sem!Callers
<1>2. SyncInit => Sem!S!Init
  BY <1>1 DEF SyncInit
<1>3. SyncInv /\ [SyncNext]_<<object, lightVars, vars, cvVars, semVars>> => [Sem!S!Next]_Sem!S!vars
  BY SyncSteps, SmRefines DEF SyncInv
<1>. QED
  BY <1>2, <1>3, SyncInvariant, PTL DEF SyncSpec, Sem!S!SafetySpec
===============================================================================
