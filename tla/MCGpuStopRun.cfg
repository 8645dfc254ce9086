SPECIFICATION GpuSpec
CONSTANTS
  MAX_PARALLEL_CMDS = 2
  MaxEntries = 2
  RunAfterStop = TRUE
  ClearAndReuse = FALSE
  Producers = {p1, p2}
  Slots = 3
  MaxCommands = 1
  EventIds = {0}
  RingSlots = 1
  MaxInterrupts = 0
PROPERTY WaitTerminates
\* The bound on the number of commands has been reached.
CHECK_DEADLOCK FALSE
