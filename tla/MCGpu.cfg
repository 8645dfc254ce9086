SPECIFICATION GpuSpec
CONSTANTS
  MAX_PARALLEL_CMDS = 2
  MaxEntries = 4
  RunAfterStop = FALSE
  ClearAndReuse = TRUE
  Producers = {p1, p2}
  Slots = 3
  MaxCommands = 7
  EventIds = {0, 1}
  RingSlots = 2
  MaxInterrupts = 3
INVARIANTS GpuTypeOK InFlightBound CurQueueValid WaitMeansDone NothingLeftBehind ExecutedOnceInOrder InterruptsInOrder
PROPERTIES WaitTerminates EveryCommandExecuted EventsArrive
\* The bound on the number of commands has been reached.
CHECK_DEADLOCK FALSE
