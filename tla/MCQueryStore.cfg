SPECIFICATION Spec
CONSTANTS
  Vars = {a, b}
  Unset = Unset
  None = None
  Policies = {"CacheOrNetwork", "CacheOnly", "NetworkOnly", "CacheAndNetwork"}
  Artifacts <- MCPlain
  Overlapping = FALSE
  Departing = FALSE
  Faulty = FALSE
  MaxSends = 4
  MaxVersion = 2
INVARIANT TypeOK
INVARIANT ShowsLatest
INVARIANT SubscribedToLast
INVARIANT FetchingInFlight
CHECK_DEADLOCK FALSE
