SPECIFICATION Spec
CONSTANTS
  Waiters = {w1, w2}
  Wakers = {k1}
  NoThread = NoThread
  WakeCounts <- OnlyOne
  Timeouts = {FALSE}
  WakersHoldLock = TRUE
  MaxRegistered = 3
PROPERTIES SignalWakesOne
