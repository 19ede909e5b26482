SPECIFICATION Spec
CONSTANTS
  Records <- MCRecords
  Fields <- MCFields
  LinkFields <- MCLinkFields
  Values <- MCValues
  Null = Null
  Absent = Absent
  r1 = r1
  name = name
  friend = friend
  promised = promised
  answered = answered
  queried = queried
  Mutations = {m1, m2}
  Query = Query
  Nobody = Nobody
  OptimisticPatches <- MCOptimisticDeletes
  ResponsePatches <- MCResponseDeletes
  QueryPatches <- MCQuery
  Abortable = {}
  Faulty = FALSE
  MaxWrites = 2
  MaxResets = 0
PROPERTY MergeInvisible
CHECK_DEADLOCK FALSE
