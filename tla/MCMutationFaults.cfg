SPECIFICATION Spec
CONSTANTS
  Records <- MCRecords
  Fields <- MCFields
  LinkFields <- MCLinkFields
  Values <- MCValues
  Null = Null
  Absent = Absent
  r1 = r1
  name = name
  friend = friend
  promised = promised
  answered = answered
  queried = queried
  Mutations = {m1, m2}
  Query = Query
  Nobody = Nobody
  OptimisticPatches <- MCOptimistic
  ResponsePatches <- MCResponse
  QueryPatches <- MCQuery
  Abortable = {m1, m2}
  Faulty = TRUE
  MaxWrites = 1
  MaxResets = 1
INVARIANT PendingLayerKept
PROPERTY PendingLayerIsolated
CHECK_DEADLOCK FALSE
