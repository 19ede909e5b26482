SPECIFICATION Spec
CONSTANTS
  Vars = {a}
  Unset = Unset
  None = None
  Policies = {"NetworkOnly"}
  Artifacts <- MCPlain
  Overlapping = FALSE
  Departing = TRUE
  Faulty = FALSE
  MaxSends = 2
  MaxVersion = 2
INVARIANT ShowsLatest
CHECK_DEADLOCK FALSE
