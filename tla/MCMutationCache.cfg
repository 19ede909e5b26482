SPECIFICATION FairSpec
CONSTANTS
  Records <- MCRecords
  Fields <- MCFields
  LinkFields <- MCLinkFields
  Values <- MCValues
  Null = Null
  Absent = Absent
  r1 = r1
  name = name
  friend = friend
  promised = promised
  answered = answered
  queried = queried
  Mutations = {m1, m2}
  Query = Query
  Nobody = Nobody
  OptimisticPatches <- MCOptimistic
  ResponsePatches <- MCResponse
  QueryPatches <- MCQuery
  Abortable = {}
  Faulty = FALSE
  MaxWrites = 2
  MaxResets = 1
INVARIANT TypeOK
INVARIANT Compacted
INVARIANT SubscribersCurrent
PROPERTY MergeInvisible
PROPERTY ImplementsPatchLog
PROPERTY SettlesToOneLayer
CHECK_DEADLOCK FALSE
