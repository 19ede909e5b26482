SPECIFICATION MCLive
INVARIANTS
  AllTyped
  SessionIsolated
  NavigationShows
  HandlesKept
  ReferencesKept
  ListsFollow
  KeysTold
  Listens
  PagesConnect
  StoresFollow
  ReadsTold
  LinksLead
  PipelinesAnswer
  FragmentsFollow
  StreamReaches
PROPERTIES
  NavigationEnds
  KeptInView
CHECK_DEADLOCK FALSE
CONSTANTS
  NoValue = NoValue
  Urls = {"a1", "a2", "b"}
  Home = "a1"
  Documents = {"A", "B"}
  Variables = {"v1", "v2"}
  PageOf <- RouterPageOf
  DocsOf <- RouterDocsOf
  ArgsOf <- RouterArgsOf
  None = "none"
  MaxEvents = 3
  Stores = {"s1"}
  LiveVariables = {"v1", "v2"}
  Sessions = {"n1", "n2"}
  MaxSends = 3
  Calls = {1, 2, 3}
  MutationKeys = {"k1", "k2"}
  NestedCalls = {1}
  MaxMade <- MadeByCall
  MutationInputs <- NamedByCall
  PageQueries = {"a", "b", "c"}
  QueryComponents = {"c1", "c2"}
  QueryKeys = {"q1", "q2"}
  CacheSize = 1
  MaxUnits = 2
  MaxDrops = 1
  ListLength = 6
  PageSize = 2
  PageMethods = {"cursor", "offset"}
  MaxPageCalls = 5
  PipelinePlugins <- PluginHooks
  PipelineSends = {"s1"}
  PipelineValues = {"v"}
  MaxReplays = 1
  MaxForks = 1
  VariableNames = {"date", "id"}
  ScalarNames = {"date"}
  GivenValues = {"v", "w"}
  MaxRequests = 2
  MaxEdits = 1
  StoreReaders = {"r1"}
  StoreCalls = {1, 2}
  StoreVariables = {"v1", "v2"}
  StorePolicies = {"CacheOrNetwork"}
  Unset = Unset
  MaxWrites = 1
  MaxMoves = 2
  FragmentRecords = {"a", "b"}
  FragmentLists <- ListsOfRecords
  MaxFragmentWrites = 2
  MaxRenders = 3
  FragmentArguments = {"x", "y"}
  LastPage = 2
  MaxHandleCalls = 3
  MaxReferences = 2
