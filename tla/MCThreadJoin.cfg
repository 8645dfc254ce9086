SPECIFICATION Spec
CONSTANTS
  Children = {c1, c2}
  Creator = creator
  FreedMemoryKept = FALSE
  Uses = {"join"}
INVARIANTS ExitCodeIsRight
\* Every thread has exited and every call has returned.
CHECK_DEADLOCK FALSE
