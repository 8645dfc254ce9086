SPECIFICATION Spec
CONSTANTS
  Children = {c1, c2}
  Creator = creator
  FreedMemoryKept = FALSE
  Uses = {"detach"}
PROPERTIES DetachedIsFreed
\* Every thread has exited and every call has returned.
CHECK_DEADLOCK FALSE
