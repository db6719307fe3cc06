SPECIFICATION Spec
CONSTANTS
  Pids = {1, 2, 3}
  ForkMayFail = FALSE
INVARIANT LiveNeedsZero
