SPECIFICATION SyncSpec
CONSTANTS
  Threads = {t1, t2, t3}
  NoThread = NoThread
  MaxDepth = 2
  Waiters = {w1}
  Wakers = {k1, k2}
  WakeCounts <- OneTwoOrAll
  MaxRegistered = 3
  Acquirers = {a1, a2}
  Releasers = {r1, r2}
  Needs = {2}
  Gives = {1, 3}
  MaxCount = 3
INVARIANTS SyncTypeOK NoLostWakeup HolderUndisturbed WaitersAreCounted
PROPERTIES ImplementsMutex ImplementsRecursiveMutex LockIsGivenBack TimeoutIsTruthful WakeupsArrive ImplementsSemaphore
