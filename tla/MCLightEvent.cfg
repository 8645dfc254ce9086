SPECIFICATION Spec
CONSTANTS
  Waiters = {w1, w2}
  Drivers = {d1, d2}
  NoThread = NoThread
  ResetTypes = {"oneshot", "sticky"}
INVARIANTS PassedOnlyIfSeen OneShotPassesOne NoLostWakeup
PROPERTY SetEventsWake
