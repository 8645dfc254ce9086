--------------------------- MODULE LightLockProofs ---------------------------
(***************************************************************************)
(* Proofs about LightLock for any finite set of threads.                   *)
(*                                                                         *)
(* The inductive invariant is IInv: the word is an integer (so that its    *)
(* arithmetic means something), it counts the waiters, at most one thread  *)
(* is inside, and no wakeup is lost.  None of the last three is inductive  *)
(* alone: exclusion needs the sign of the word to mean "held", the sign is *)
(* right after a retry only because the word counts the waiters, and an    *)
(* Unlock sends a signal only because the count shows who waits.           *)
(***************************************************************************)
EXTENDS LightLock, FiniteSetTheorems, TLAPS

PC == {"out", "wait", "asleep", "retry", "in", "signal"}

Typed ==
  /\ word \in Int
  /\ pc \in [Threads -> PC]

IInv ==
  /\ Typed
  /\ MutualExclusion
  /\ WordCountsWaiters
  /\ NoLostWakeup

\* Any set of threads is finite and has a cardinality in Nat.
LEMMA WaitersFinite ==
  /\ IsFiniteSet(Registered)
  /\ Cardinality(Registered) \in Nat
  /\ Cardinality(Registered) <= Cardinality(Threads)
  /\ Cardinality(Registered) = 0 <=> Registered = {}
  /\ Cardinality(Threads) \in Nat
<1>1. Registered \in SUBSET Threads
  BY DEF Registered
<1>2. IsFiniteSet(Registered) /\ Cardinality(Registered) <= Cardinality(Threads)
  BY <1>1, ThreadsAssumption, FS_Subset
<1>3. QED
  BY <1>2, ThreadsAssumption, FS_CardinalityType, FS_EmptySet

\* One SIGNAL 1 wakes nobody when nobody sleeps, and one sleeper otherwise.
LEMMA WakeOne ==
  ASSUME NEW S, IsFiniteSet(S), NEW W \in Wakeable(S, 1)
  PROVE  \/ S = {} /\ W = {}
         \/ \E s \in S : W = {s}
<1>1. Cardinality(S) \in Nat /\ (Cardinality(S) = 0 <=> S = {})
  BY FS_CardinalityType, FS_EmptySet
<1>2. CASE Cardinality(S) <= 1
  <2>1. W = S
    BY <1>2 DEF Wakeable
  <2>2. CASE Cardinality(S) = 0
    BY <1>1, <2>1, <2>2
  <2>3. CASE Cardinality(S) = 1
    <3>1. \E x : S = {x}
      BY <2>3, FS_Singleton
    <3>2. QED
      BY <2>1, <3>1
  <2>4. QED
    BY <1>1, <1>2, <2>2, <2>3
<1>3. CASE ~(Cardinality(S) <= 1)
  <2>1. W \in SUBSET S /\ Cardinality(W) = 1
    BY <1>1, <1>3 DEF Wakeable
  <2>2. IsFiniteSet(W)
    BY <2>1, FS_Subset
  <2>3. \E x : W = {x}
    BY <2>1, <2>2, FS_Singleton
  <2>4. QED
    BY <2>1, <2>3
<1>4. QED
  BY <1>2, <1>3

\* In the initial states nobody uses the lock.
LEMMA InitIInv == Init => IInv
<1> SUFFICES ASSUME Init PROVE IInv
  OBVIOUS
<1>1. Typed
  BY DEF Init, Typed, PC
<1>2. Registered = {} /\ Asleep = {} /\ ~Held
  BY DEF Init, Registered, Asleep, Held
<1>3. Cardinality(Registered) = 0
  BY <1>2, FS_EmptySet
<1>4. MutualExclusion
  BY DEF Init, MutualExclusion
<1>5. WordCountsWaiters
  BY <1>2, <1>3 DEF Init, WordCountsWaiters, Valid
<1>6. NoLostWakeup
  BY <1>2 DEF NoLostWakeup
<1>7. QED
  BY <1>1, <1>4, <1>5, <1>6 DEF IInv

\* Typing is kept by every step on its own.
LEMMA NextTyped == Typed /\ [Next]_vars => Typed'
<1> SUFFICES ASSUME Typed, [Next]_vars PROVE Typed'
  OBVIOUS
<1> USE DEF Typed, PC
<1>1. ASSUME NEW t \in Threads, LockFree(t) PROVE Typed'
  BY <1>1 DEF LockFree, Valid
<1>2. ASSUME NEW t \in Threads, LockHeld(t) PROVE Typed'
  BY <1>2 DEF LockHeld, Valid
<1>3. ASSUME NEW t \in Threads, TryLock(t) PROVE Typed'
  BY <1>3 DEF TryLock, Valid, vars
<1>4. ASSUME NEW t \in Threads, Unlock(t) PROVE Typed'
  BY <1>4 DEF Unlock
<1>5. ASSUME NEW t \in Threads, Arbitrate(t) PROVE Typed'
  BY <1>5 DEF Arbitrate
<1>6. ASSUME NEW t \in Threads, RetryFree(t) PROVE Typed'
  BY <1>6 DEF RetryFree
<1>7. ASSUME NEW t \in Threads, RetryHeld(t) PROVE Typed'
  BY <1>7 DEF RetryHeld
<1>8. ASSUME NEW t \in Threads, Signal(t) PROVE Typed'
  BY <1>8 DEF Signal
<1>9. CASE UNCHANGED vars
  BY <1>9 DEF vars
<1>10. QED
  BY <1>1, <1>2, <1>3, <1>4, <1>5, <1>6, <1>7, <1>8, <1>9 DEF Next, Proceed

\* What a change of one thread's place does to the set of waiters.
LEMMA WaitersMove ==
  ASSUME Typed, NEW t \in Threads, NEW c \in PC,
         pc' = [pc EXCEPT ![t] = c]
  PROVE  /\ pc[t] \notin {"wait", "asleep", "retry"}
              /\ c \in {"wait", "asleep", "retry"}
            => Cardinality(Registered') = Cardinality(Registered) + 1
         /\ pc[t] \in {"wait", "asleep", "retry"}
              /\ c \notin {"wait", "asleep", "retry"}
            => Cardinality(Registered') = Cardinality(Registered) - 1
         /\ (pc[t] \in {"wait", "asleep", "retry"}
              <=> c \in {"wait", "asleep", "retry"})
            => Registered' = Registered
<1> USE DEF Typed
<1>1. IsFiniteSet(Registered)
  BY WaitersFinite
<1>2. ASSUME pc[t] \notin {"wait", "asleep", "retry"},
             c \in {"wait", "asleep", "retry"}
      PROVE  Cardinality(Registered') = Cardinality(Registered) + 1
  <2>1. Registered' = Registered \cup {t} /\ t \notin Registered
    BY <1>2 DEF Registered
  <2>2. QED
    BY <1>1, <2>1, FS_AddElement
<1>3. ASSUME pc[t] \in {"wait", "asleep", "retry"},
             c \notin {"wait", "asleep", "retry"}
      PROVE  Cardinality(Registered') = Cardinality(Registered) - 1
  <2>1. Registered' = Registered \ {t} /\ t \in Registered
    BY <1>3 DEF Registered
  <2>2. QED
    BY <1>1, <2>1, FS_RemoveElement
<1>4. ASSUME pc[t] \in {"wait", "asleep", "retry"}
              <=> c \in {"wait", "asleep", "retry"}
      PROVE  Registered' = Registered
  BY <1>4 DEF Registered
<1>5. QED
  BY <1>2, <1>3, <1>4

\* A step that takes the lock finds it free and leaves it held by its thread.
LEMMA TakeLock ==
  ASSUME IInv, Typed', NEW t \in Threads,
         ~Held, pc' = [pc EXCEPT ![t] = "in"],
         word' = -(1 + Cardinality(Registered'))
  PROVE  IInv'
<1>1. Held' /\ MutualExclusion'
  BY DEF IInv, Typed, Held, MutualExclusion
<1>2. Cardinality(Registered') \in Nat
  <2>1. Registered' \in SUBSET Threads
    BY DEF Registered
  <2>2. QED
    BY <2>1, ThreadsAssumption, FS_Subset, FS_CardinalityType
<1>3. WordCountsWaiters'
  BY <1>1, <1>2 DEF WordCountsWaiters, Valid
<1>4. NoLostWakeup'
  BY <1>1 DEF NoLostWakeup
<1>5. QED
  BY <1>1, <1>3, <1>4 DEF IInv

LEMMA NextIInv == IInv /\ [Next]_vars => IInv'
<1> SUFFICES ASSUME IInv, [Next]_vars PROVE IInv'
  OBVIOUS
<1>1. Typed /\ Typed'
  BY NextTyped DEF IInv
<1>2. Cardinality(Registered) \in Nat /\ (Cardinality(Registered) = 0 <=> Registered = {})
  BY WaitersFinite
<1>3. word # 0 \/ Valid(word) = 1
  BY DEF Valid
<1>4. ASSUME NEW t \in Threads, LockFree(t) PROVE IInv'
  <2>1. pc[t] = "out" /\ pc' = [pc EXCEPT ![t] = "in"] /\ word' = -Valid(word)
    BY <1>4 DEF LockFree
  <2>2. ~Held
    BY <1>1, <1>2, <1>4 DEF LockFree, IInv, WordCountsWaiters
  <2>3. Registered' = Registered
    BY <1>1, <2>1, WaitersMove DEF PC
  <2>4. word' = -(1 + Cardinality(Registered'))
    BY <2>1, <2>2, <2>3 DEF IInv, WordCountsWaiters
  <2>5. QED
    BY <1>1, <2>1, <2>2, <2>4, TakeLock
<1>5. ASSUME NEW t \in Threads, TryLock(t) PROVE IInv'
  <2>1. CASE Valid(word) < 0
    <3>1. UNCHANGED vars
      BY <1>5, <2>1 DEF TryLock
    <3>2. QED
      BY <3>1 DEF vars, IInv, Typed, MutualExclusion, WordCountsWaiters,
                  NoLostWakeup, Held, Registered, Asleep, Valid
  <2>2. CASE ~(Valid(word) < 0)
    <3>1. pc[t] = "out" /\ pc' = [pc EXCEPT ![t] = "in"] /\ word' = -Valid(word)
      BY <1>5, <2>2 DEF TryLock
    <3>2. ~Held
      BY <1>1, <1>2, <2>2 DEF IInv, WordCountsWaiters
    <3>3. Registered' = Registered
      BY <1>1, <3>1, WaitersMove DEF PC
    <3>4. word' = -(1 + Cardinality(Registered'))
      BY <3>1, <3>2, <3>3 DEF IInv, WordCountsWaiters
    <3>5. QED
      BY <1>1, <3>1, <3>2, <3>4, TakeLock
  <2>3. QED
    BY <2>1, <2>2
<1>6. ASSUME NEW t \in Threads, LockHeld(t) PROVE IInv'
  <2>1. /\ pc[t] = "out"
        /\ pc' = [pc EXCEPT ![t] = "wait"]
        /\ word' = Valid(word) - 1
        /\ Valid(word) < 0
    BY <1>6 DEF LockHeld
  <2>2. Held
    BY <1>2, <2>1 DEF IInv, WordCountsWaiters
  <2>3. Held'
    BY <1>1, <2>1, <2>2 DEF Held, Typed
  <2>4. Cardinality(Registered') = Cardinality(Registered) + 1
    BY <1>1, <2>1, WaitersMove DEF PC
  <2>5. WordCountsWaiters'
    BY <1>2, <2>1, <2>2, <2>3, <2>4 DEF IInv, WordCountsWaiters, Valid
  <2>6. MutualExclusion'
    BY <1>1, <2>1 DEF IInv, MutualExclusion, Typed
  <2>7. NoLostWakeup'
    BY <2>3 DEF NoLostWakeup
  <2>8. QED
    BY <1>1, <2>5, <2>6, <2>7 DEF IInv
<1>7. ASSUME NEW t \in Threads, Arbitrate(t) PROVE IInv'
  <2> DEFINE c == IF MustSleep(word, 0) THEN "asleep" ELSE "retry"
  <2>1. /\ pc[t] = "wait" /\ word' = word
        /\ pc' = [pc EXCEPT ![t] = c] /\ c \in {"asleep", "retry"}
    BY <1>7 DEF Arbitrate
  <2>2. Held' <=> Held
    BY <1>1, <2>1 DEF Held, Typed
  <2>3. Registered' = Registered
    BY <1>1, <2>1, WaitersMove DEF PC
  <2>4. WordCountsWaiters'
    BY <2>1, <2>2, <2>3 DEF IInv, WordCountsWaiters, Valid
  <2>5. MutualExclusion'
    BY <1>1, <2>1 DEF IInv, MutualExclusion, Typed
  <2>6. NoLostWakeup'
    <3>1. CASE Held
      BY <2>2, <3>1 DEF NoLostWakeup
    <3>2. CASE ~Held
      <4>1. c = "retry"
        BY <1>1, <3>2 DEF IInv, WordCountsWaiters, MustSleep, Typed
      <4>2. pc'[t] = "retry"
        BY <1>1, <2>1, <4>1 DEF Typed
      <4>3. QED
        BY <4>2 DEF NoLostWakeup
    <3>3. QED
      BY <3>1, <3>2
  <2>7. QED
    BY <1>1, <2>4, <2>5, <2>6 DEF IInv
<1>8. ASSUME NEW t \in Threads, RetryFree(t) PROVE IInv'
  <2>1. /\ pc[t] = "retry" /\ word >= 0 /\ word' = -(word - 1)
        /\ pc' = [pc EXCEPT ![t] = "in"]
    BY <1>8 DEF RetryFree
  <2>2. ~Held
    BY <1>1, <2>1 DEF IInv, WordCountsWaiters, Typed
  <2>3. Cardinality(Registered') = Cardinality(Registered) - 1
    BY <1>1, <2>1, WaitersMove DEF PC
  <2>4. Cardinality(Registered) # 0
    BY <1>1, <1>2, <2>1 DEF Registered
  <2>5. word = 1 + Cardinality(Registered)
    BY <1>1, <1>2, <2>2, <2>4 DEF IInv, WordCountsWaiters, Valid, Typed
  <2>6. word' = -(1 + Cardinality(Registered'))
    BY <1>1, <1>2, <2>1, <2>3, <2>5 DEF Typed
  <2>7. QED
    BY <1>1, <2>1, <2>2, <2>6, TakeLock
<1>9. ASSUME NEW t \in Threads, RetryHeld(t) PROVE IInv'
  <2>1. /\ pc[t] = "retry" /\ word < 0 /\ word' = word
        /\ pc' = [pc EXCEPT ![t] = "wait"]
    BY <1>9 DEF RetryHeld
  <2>2. Held
    BY <1>1, <2>1 DEF IInv, WordCountsWaiters
  <2>3. Held'
    BY <1>1, <2>1, <2>2 DEF Held, Typed
  <2>4. Registered' = Registered
    BY <1>1, <2>1, WaitersMove DEF PC
  <2>5. WordCountsWaiters'
    BY <2>1, <2>2, <2>3, <2>4 DEF IInv, WordCountsWaiters, Valid
  <2>6. MutualExclusion'
    BY <1>1, <2>1 DEF IInv, MutualExclusion, Typed
  <2>7. NoLostWakeup'
    BY <2>3 DEF NoLostWakeup
  <2>8. QED
    BY <1>1, <2>5, <2>6, <2>7 DEF IInv
<1>10. ASSUME NEW t \in Threads, Unlock(t) PROVE IInv'
  <2> DEFINE c == IF word' > 1 THEN "signal" ELSE "out"
  <2>1. /\ pc[t] = "in" /\ word' = -word
        /\ pc' = [pc EXCEPT ![t] = c] /\ c \in {"signal", "out"}
    BY <1>10 DEF Unlock
  <2>2. Held /\ word = -(1 + Cardinality(Registered))
    BY <1>1, <1>2, <2>1 DEF IInv, WordCountsWaiters, Valid, Held, Typed
  <2>3. ~Held'
    BY <1>1, <2>1 DEF IInv, MutualExclusion, Held, Typed
  <2>4. Registered' = Registered
    BY <1>1, <2>1, WaitersMove DEF PC
  <2>5. WordCountsWaiters'
    BY <1>2, <2>1, <2>2, <2>3, <2>4 DEF WordCountsWaiters, Valid
  <2>6. MutualExclusion'
    BY <2>3 DEF MutualExclusion, Held
  <2>7. NoLostWakeup'
    <3>1. CASE c = "signal"
      <4>1. pc'[t] = "signal"
        BY <1>1, <2>1, <3>1 DEF Typed
      <4>2. QED
        BY <4>1 DEF NoLostWakeup
    <3>2. CASE c = "out"
      <4>1. Cardinality(Registered) = 0
        BY <1>2, <2>1, <2>2, <3>2
      <4>2. Registered' = {}
        BY <1>2, <2>4, <4>1
      <4>3. Asleep' = {}
        BY <4>2 DEF Asleep, Registered
      <4>4. QED
        BY <4>3 DEF NoLostWakeup
    <3>3. QED
      BY <2>1, <3>1, <3>2
  <2>8. QED
    BY <1>1, <2>5, <2>6, <2>7 DEF IInv
<1>11. ASSUME NEW t \in Threads, Signal(t) PROVE IInv'
  <2>1. PICK W \in Wakeable(Asleep, 1) :
          pc' = [u \in Threads |-> IF u = t THEN "out"
                                   ELSE IF u \in W THEN "retry" ELSE pc[u]]
    BY <1>11 DEF Signal
  <2>2. pc[t] = "signal" /\ word' = word
    BY <1>11 DEF Signal
  <2>3. \/ Asleep = {} /\ W = {}
        \/ \E s \in Asleep : W = {s}
    <3>1. Asleep \in SUBSET Threads
      BY DEF Asleep
    <3>2. IsFiniteSet(Asleep)
      BY <3>1, ThreadsAssumption, FS_Subset
    <3>3. QED
      BY <3>2, WakeOne
  <2>4. \A u \in W : u \in Threads /\ pc[u] = "asleep" /\ pc'[u] = "retry"
    BY <2>1, <2>2, <2>3 DEF Asleep
  <2>5. Held' <=> Held
    BY <1>1, <2>1, <2>2, <2>4 DEF Held, Typed
  <2>6. Registered' = Registered
    BY <1>1, <2>1, <2>2, <2>4 DEF Registered, Typed
  <2>7. WordCountsWaiters'
    BY <2>2, <2>5, <2>6 DEF IInv, WordCountsWaiters, Valid
  <2>8. MutualExclusion'
    BY <1>1, <2>1, <2>4 DEF IInv, MutualExclusion, Typed
  <2>9. NoLostWakeup'
    <3>1. CASE Asleep = {}
      BY <1>1, <2>1, <2>3, <3>1 DEF NoLostWakeup, Asleep, Typed
    <3>2. CASE \E s \in Asleep : W = {s}
      BY <2>4, <3>2 DEF NoLostWakeup, Asleep
    <3>3. QED
      BY <2>3, <3>1, <3>2
  <2>10. QED
    BY <1>1, <2>7, <2>8, <2>9 DEF IInv
<1>12. CASE UNCHANGED vars
  BY <1>12 DEF vars, IInv, Typed, MutualExclusion, WordCountsWaiters,
               NoLostWakeup, Held, Registered, Asleep, Valid
<1>13. QED
  BY <1>4, <1>5, <1>6, <1>7, <1>8, <1>9, <1>10, <1>11, <1>12 DEF Next, Proceed

\* The registered waiters are threads, so their number bounds the word.
LEMMA IInvTyped == IInv => TypeOK
<1> SUFFICES ASSUME IInv PROVE TypeOK
  OBVIOUS
<1>1. /\ Cardinality(Registered) \in Nat
      /\ Cardinality(Registered) <= Cardinality(Threads)
      /\ Cardinality(Threads) \in Nat
  BY WaitersFinite
<1>2. word \in -(1 + Cardinality(Threads)) .. 1 + Cardinality(Threads)
  BY <1>1 DEF IInv, Typed, WordCountsWaiters, Valid
<1>3. QED
  BY <1>2 DEF IInv, Typed, TypeOK, PC

\* The word and the places stay in range, whatever the number of threads.
THEOREM TypeCorrect == Spec => []TypeOK
BY IInvTyped, InitIInv, NextIInv, PTL DEF Spec, SafetySpec

\* LightLock_Lock and LightLock_TryLock never let a second thread in, for any
\* number of threads and any interleaving.
THEOREM LockExcludes == Spec => []MutualExclusion
<1>1. IInv => MutualExclusion
  BY DEF IInv
<1>2. QED
  BY <1>1, InitIInv, NextIInv, PTL DEF Spec, SafetySpec

\* The number in the lock word is always the number of registered waiters.
THEOREM WordIsAccurate == Spec => []WordCountsWaiters
<1>1. IInv => WordCountsWaiters
  BY DEF IInv
<1>2. QED
  BY <1>1, InitIInv, NextIInv, PTL DEF Spec, SafetySpec

\* The gap between the store of LightLock_Unlock and its SIGNAL, and the one
\* between registering as a waiter and falling asleep, never strand a waiter.
THEOREM WakeupsAreNotLost == Spec => []NoLostWakeup
<1>1. IInv => NoLostWakeup
  BY DEF IInv
<1>2. QED
  BY <1>1, InitIInv, NextIInv, PTL DEF Spec, SafetySpec

\* Where nobody is inside, the abstract lock is free, and conversely.
LEMMA FreeMeansNotHeld == M!Free <=> ~Held
BY DEF M!Free, AbstractStatus, Held

\* One step of LightLock is one step of the abstract mutex, or none.
LEMMA StepRefines == IInv /\ [Next]_vars => [M!Next]_AbstractStatus
<1> SUFFICES ASSUME IInv, [Next]_vars PROVE [M!Next]_AbstractStatus
  OBVIOUS
<1> USE DEF AbstractStatus, Registered, IInv, Typed, PC
<1>1. ASSUME NEW t \in Threads, pc[t] \in {"out", "retry"}, ~Held,
             pc' = [pc EXCEPT ![t] = "in"]
      PROVE  M!Acquire(t)
  <2>1. M!Free
    BY <1>1, FreeMeansNotHeld
  <2>2. QED
    BY <1>1, <2>1 DEF M!Acquire
<1>2. ASSUME NEW t \in Threads, LockFree(t) PROVE M!Acquire(t)
  <2>1. ~Held
    BY <1>2, WaitersFinite DEF LockFree, WordCountsWaiters
  <2>2. QED
    BY <1>1, <1>2, <2>1 DEF LockFree
<1>3. ASSUME NEW t \in Threads, TryLock(t)
      PROVE  M!Acquire(t) \/ UNCHANGED AbstractStatus
  <2>1. CASE Valid(word) < 0
    BY <1>3, <2>1 DEF TryLock, vars
  <2>2. CASE ~(Valid(word) < 0)
    <3>1. ~Held
      BY <2>2, WaitersFinite DEF WordCountsWaiters
    <3>2. QED
      BY <1>1, <1>3, <2>2, <3>1 DEF TryLock
  <2>3. QED
    BY <2>1, <2>2
<1>4. ASSUME NEW t \in Threads, LockHeld(t) PROVE M!Request(t)
  BY <1>4 DEF LockHeld, M!Request
<1>5. ASSUME NEW t \in Threads, Unlock(t) PROVE M!Release(t)
  BY <1>5 DEF Unlock, M!Release
<1>6. ASSUME NEW t \in Threads, RetryFree(t) PROVE M!Acquire(t)
  <2>1. ~Held
    BY <1>6 DEF RetryFree, WordCountsWaiters
  <2>2. QED
    BY <1>1, <1>6, <2>1 DEF RetryFree
<1>7. ASSUME NEW t \in Threads, Arbitrate(t) \/ RetryHeld(t)
      PROVE  UNCHANGED AbstractStatus
  BY <1>7 DEF Arbitrate, RetryHeld
<1>8. ASSUME NEW t \in Threads, Signal(t) PROVE UNCHANGED AbstractStatus
  <2>1. PICK W \in Wakeable(Asleep, 1) :
          pc' = [u \in Threads |-> IF u = t THEN "out"
                                   ELSE IF u \in W THEN "retry" ELSE pc[u]]
    BY <1>8 DEF Signal
  <2>2. IsFiniteSet(Asleep)
    BY ThreadsAssumption, FS_Subset DEF Asleep
  <2>3. \A u \in W : pc[u] = "asleep"
    BY <2>2, WakeOne DEF Asleep
  <2>4. QED
    BY <1>8, <2>1, <2>3 DEF Signal
<1>9. CASE UNCHANGED vars
  BY <1>9 DEF vars
<1>10. QED
  BY <1>2, <1>3, <1>4, <1>5, <1>6, <1>7, <1>8, <1>9 DEF Next, Proceed, M!Next

\* LightLock implements the abstract mutex, as far as safety goes: a client
\* proved correct with the abstract mutex is correct with a LightLock.
THEOREM ImplementsMutexSafety == Spec => M!SafetySpec
<1>1. Init => M!Init
  BY DEF Init, M!Init, AbstractStatus, Registered
<1>2. QED
  BY <1>1, InitIInv, NextIInv, StepRefines, PTL
     DEF Spec, SafetySpec, M!SafetySpec
=============================================================================
