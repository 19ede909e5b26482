SPECIFICATION FairSpec
CONSTANTS
  Vars = {a}
  Unset = Unset
  None = None
  Policies = {"CacheAndNetwork"}
  Artifacts <- MCDedupes
  Overlapping = TRUE
  Departing = FALSE
  Faulty = TRUE
  MaxSends = 3
  MaxVersion = 1
INVARIANT RegisteredIsPending
PROPERTY EverySendReturns
CHECK_DEADLOCK FALSE
