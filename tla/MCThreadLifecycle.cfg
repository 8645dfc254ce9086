SPECIFICATION Spec
CONSTANTS
  Children = {c1, c2}
  Creator = creator
  FreedMemoryKept = TRUE
  Uses = {"join", "poll", "detach", "detached", "joinDetached"}
INVARIANTS TypeOK FreedOnceFinished
PROPERTIES EventuallyFreed
\* Every thread has exited and every call has returned.
CHECK_DEADLOCK FALSE
