SPECIFICATION Spec
CONSTANTS
  Vars = {a, b}
  Unset = Unset
  None = None
  Policies = {"CacheAndNetwork"}
  Artifacts <- MCPlain
  Overlapping = TRUE
  Departing = FALSE
  Faulty = FALSE
  MaxSends = 3
  MaxVersion = 2
INVARIANT ShowsLatest
CHECK_DEADLOCK FALSE
