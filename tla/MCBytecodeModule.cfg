CONSTANTS
  Functions <- MCFunctions
  Strings = {0, 1, 2, 3}
  Named <- MCNamed
  Marked = {1}
  Sources <- MCSources
  Fragile <- MCFragile
  AotPresent = {1, 2}
SPECIFICATION Spec
INVARIANTS ExecSafe ReadsBack AotCallsPresent
PROPERTIES Decides
CHECK_DEADLOCK FALSE
