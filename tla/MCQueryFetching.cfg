SPECIFICATION Spec
CONSTANTS
  Vars = {a, b}
  Unset = Unset
  None = None
  Policies = {"NetworkOnly"}
  Artifacts <- MCPlain
  Overlapping = FALSE
  Departing = FALSE
  Faulty = TRUE
  MaxSends = 1
  MaxVersion = 1
INVARIANT FetchingInFlight
CHECK_DEADLOCK FALSE
