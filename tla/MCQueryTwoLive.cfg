SPECIFICATION Spec
CONSTANTS
  Vars = {a, b}
  Unset = Unset
  None = None
  Policies = {"NetworkOnly"}
  Artifacts <- MCDropped
  Overlapping = TRUE
  Departing = FALSE
  Faulty = FALSE
  MaxSends = 3
  MaxVersion = 1
INVARIANT OneLivePerKey
CHECK_DEADLOCK FALSE
