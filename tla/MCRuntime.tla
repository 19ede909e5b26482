----------------------------- MODULE MCRuntime ------------------------------
(***************************************************************************)
(* The components of the runtime that share no state with one another, on  *)
(* small instances.  Each behaviour is about one of them; the router's     *)
(* variables and properties have their own names.                          *)
(***************************************************************************)
EXTENDS ReactRouter, Runtime, TLC

\* The first call makes two optimistic keys.
MadeByCall == <<2, 1, 1>>

\* The second call may name a key twice, the third each key in another place.
NamedByCall ==
  <<{},
    {<<"k1", "variable">>, <<"k1", "item">>, <<"k2", "object">>},
    {<<"k1", "object">>, <<"k1", "item">>, <<"k2", "variable">>, <<"k2", "object">>}>>

\* Two pages: a1 and a2 are the same page with other variables for A, b has another document.
RouterPageOf == [u \in Urls |-> IF u = "b" THEN "pb" ELSE "pa"]
RouterDocsOf == [u \in Urls |-> IF u = "b" THEN {"B"} ELSE {"A"}]
RouterArgsOf == [u \in Urls |-> [d \in Documents |-> IF u = "a2" /\ d = "A" THEN "v2" ELSE "v1"]]

\* query { viewer { name ...F @include(if: $on) } all { name } }: the fragment F on User asks
\* for a masked bio, best friends are asked for if $on; Bots have less.
Field(n, sel, nullable, visible, when) ==
  [name |-> n, selection |-> sel, nullable |-> nullable, visible |-> visible, when |-> when]
Typename == Field("__typename", "", FALSE, FALSE, "always")
Name == Field("name", "", FALSE, TRUE, "always")
ReadTypes == [u1 |-> "User", u2 |-> "Bot", root |-> ""]
ReadFields ==
  [query |-> "" :> {Field("viewer", "user", TRUE, TRUE, "always"),
                    Field("all", "item", FALSE, TRUE, "always")},
   user  |-> "" :> {Typename, Name} @@
             "User" :> {Typename, Name, Field("bio", "", TRUE, FALSE, "always"),
                        Field("best", "item", TRUE, TRUE, "on")},
   item  |-> "" :> {Typename, Name}]
Null == [kind |-> "null"]
Scalar(s) == [kind |-> "scalar", value |-> s]
Link(id) == [kind |-> "link", id |-> id]
List(ids, nested) == [kind |-> "list", ids |-> ids, nested |-> nested]
ReadContent ==
  [root |-> [viewer |-> {Null, Link("u1")},
             all |-> {List(<<"u2", "null">>, FALSE), List(<<"u1">>, TRUE)}],
   u1 |-> [__typename |-> {Scalar("User")}, name |-> {Scalar("x")},
           bio |-> {Null, Scalar("b")}, best |-> {Null, Link("u2")}],
   u2 |-> [__typename |-> {Scalar("Bot")}, name |-> {Scalar("x")}]]

\* Routes with a param beside a static segment, an optional one, a rest and a group.
Static(n) == [kind |-> "static", name |-> n]
Param(n) == [kind |-> "param", name |-> n]
User == <<Static("users"), Param("id")>>
Shop == <<[kind |-> "group", name |-> "shop"]>>
Shops == Shop \o <<[kind |-> "optional", name |-> "lang"]>>
Docs == <<Static("docs")>>
Path == Docs \o <<[kind |-> "rest", name |-> "path"]>>
Dirs == {<<>>, <<Static("users")>>, User, <<Static("users"), Static("new")>>, Shop, Shops,
         Shops \o <<Static("cart")>>, Docs, Path}
Files == [d \in Dirs |-> CASE d \in {<<>>, <<Static("users")>>} -> {"page", "layout"}
                           [] d = Shop -> {"layout"}
                           [] d \in {Shops, Docs} -> {}
                           [] OTHER -> {"page"}]
IntArg(v) == v :> [type |-> "Int", required |-> FALSE]
PageQuery == [d \in Dirs |-> IF d = User THEN [name |-> "User", variables |-> IntArg("id") @@ IntArg("first")]
                             ELSE NoValue]
LayoutQuery == [d \in Dirs |-> IF d = <<Static("users")>> THEN [name |-> "Users", variables |-> IntArg("page")]
                               ELSE NoValue]
Written == {[d \in Dirs |-> IF d = User THEN {"User", "Users"} ELSE {}],
            [d \in Dirs |-> IF d = Shops \o <<Static("cart")>> THEN {"Users"} ELSE {}]}
Rank == "..." :> 1 @@ "_" :> 2 @@ "cart" :> 3 @@ "docs" :> 4 @@ "id" :> 5 @@ "lang" :> 6 @@
        "new" :> 7 @@ "path" :> 8 @@ "shop" :> 9 @@ "users" :> 10

\* Plugins with hooks of every phase, and with none of some.
PluginHooks == <<{"start", "network", "end", "catch"}, {"beforeNetwork", "afterNetwork", "catch"},
                 {"network", "end", "afterNetwork"}>>

\* Documents that register two lists by one name on two fields, two names on one field, and one
\* name under parents of two types; and the operations of fields of mutations.
RootParent == <<"Query", <<"root">>>>
Registered(n, p, k) == [name |-> n, parent |-> p, key |-> k]
Registers ==
  [d1 |-> <<Registered("All", RootParent, "users")>>,
   d2 |-> <<Registered("All", RootParent, "admins"), Registered("Everyone", RootParent, "users")>>,
   d3 |-> <<Registered("Friends", <<"User", <<"1">>>>, "friends"),
            Registered("Friends", <<"User", <<"2">>>>, "friends")>>,
   d4 |-> <<Registered("Friends", <<"Bot", <<"3">>>>, "friends")>>]
Filters == [users |-> {}, admins |-> {"admin"}, friends |-> {}]
Op(a, l, b, i) == [action |-> a, list |-> l, by |-> b, id |-> i, must |-> {}, mustNot |-> {}]
InsertOp == Op("insert", "All", "none", <<>>)
AdminsOp == [Op("toggle", "All", "all", <<>>) EXCEPT !.must = {"admin"}]
NotAdminsOp == [Op("remove", "All", "opaque", RootParent) EXCEPT !.mustNot = {"admin"}]
ToggleOp == Op("toggle", "Everyone", "none", <<>>)
BefriendOp == Op("toggle", "Friends", "parent", <<"1">>)
UpsertOp == Op("upsert", "Friends", "all", <<>>)
Operations ==
  {<<InsertOp>>, <<AdminsOp>>, <<NotAdminsOp>>, <<BefriendOp>>, <<UpsertOp>>, <<ToggleOp, InsertOp>>,
   <<AdminsOp, ToggleOp>>, <<NotAdminsOp, ToggleOp>>, <<BefriendOp, UpsertOp>>,
   <<Op("remove", "Friends", "none", <<>>)>>}

\* What a plural fragment is given.
ListsOfRecords == {<<>>, <<"a", "b">>, <<"b", "a">>}

VARIABLES
  part,  \* the component a behaviour is about; never changes
  \* CacheMemory
  memoryActive, memoryCounts, memoryItem, memoryFriend, memoryStored,
  memoryLifetimes, memoryTimes, memoryHydrated, memoryMarked, memoryCrowded,
  memoryWrites, memoryTicks,
  \* ListLayers
  listStack, listCalls, listServer, listGone, listTangled, listIds,
  listEvents,
  \* CacheReads
  readCell, readTyped, readMarked,
  \* RouteMatch
  routeWants, routeVisited, routePages, routeRefused, routeLink, routeUrl,
  routeFound,
  \* ListRegistry
  registryShown, registryContent, registryLists, registryByField,
  registryByOpaque

C == INSTANCE CacheMemory WITH
       Specs <- {"s1", "s2"}, Masking <- {"s2"}, Root <- "root", Items <- {"p", "q"},
       None <- "none", BufferSize <- 1, MaxWrites <- 2, MaxTicks <- 2,
       active <- memoryActive, counts <- memoryCounts, item <- memoryItem,
       friend <- memoryFriend, stored <- memoryStored, lifetimes <-
       memoryLifetimes, times <- memoryTimes, hydrated <- memoryHydrated,
       marked <- memoryMarked, crowded <- memoryCrowded, writes <-
       memoryWrites, ticks <- memoryTicks

L == INSTANCE ListLayers WITH
       Records <- {"x", "y"}, First <- <<"x">>, Mutations <- 1 .. 2,
       Actions <- {"append", "prepend", "remove", "toggle", "upsert", "delete"},
       MaxEvents <- 2,
       stack <- listStack, calls <- listCalls, server <- listServer, gone <-
       listGone, tangled <- listTangled, ids <- listIds, events <- listEvents

D == INSTANCE CacheReads WITH
       Root <- "root", Records <- {"u1", "u2"}, TypeOf <- ReadTypes, Content <- ReadContent,
       Fields <- ReadFields, Spreading <- {"user"}, Document <- "query", MaxMarks <- 1,
       cell <- readCell, typed <- readTyped, marked <- readMarked

M == INSTANCE RouteMatch WITH
       Dirs <- Dirs, Files <- Files, PageQuery <- PageQuery, LayoutQuery <- LayoutQuery,
       Written <- Written, Rank <- Rank, Values <- {"7", "x"}, Numbers <- {"7"}, None <- NoValue,
       wants <- routeWants, visited <- routeVisited, pages <- routePages,
       refused <- routeRefused, link <- routeLink, url <- routeUrl, found <-
       routeFound

K == INSTANCE ListRegistry WITH
       ListsOf <- Registers, Names <- {"All", "Everyone", "Friends"}, Filters <- Filters,
       Writes <- Operations, Records <- {"x"}, None <- NoValue,
       shown <- registryShown, content <- registryContent, lists <-
       registryLists, byField <- registryByField, byOpaque <- registryByOpaque

routerVars == vars
handleVars == <<
  handleUnits, handleSends, handleObservers, handleHeld, handleTimers,
  handleTree, handleMade, handleDrops>>
memoryVars == <<
  memoryActive, memoryCounts, memoryItem, memoryFriend, memoryStored,
  memoryLifetimes, memoryTimes, memoryHydrated, memoryMarked,
  memoryCrowded, memoryWrites, memoryTicks>>
listVars == <<
  listStack, listCalls, listServer, listGone, listTangled, listIds,
  listEvents>>
keysVars == <<
  keysCallbacks, keysKeyCache, keysObjectIDs, keysAliases, keysCalls,
  keysOrphans, keysReused>>
liveVars == <<liveStores, liveWaiting, liveClient, liveListeners, liveSent>>
pageVars == <<
  pageDocument, pageArgs, pageList, pageInfo, pagePrevious, pageNext,
  pageOut, pageUpset, pageCrossed, pageCalls>>
storeVars == <<
  storeClient, storeSetups, storeReaders, storeCount, storeListening,
  storeShown, storeObserver, storeLast, storeSubscribed,
  storeLoadPending, storeCalls, storeCache, storeFailed, storeAway,
  storeCrossed, storeClock, storeMoves>>
readVars == <<readCell, readTyped, readMarked>>
routeVars == <<
  routeWants, routeVisited, routePages, routeRefused, routeLink,
  routeUrl, routeFound>>
pipeVars == <<
  pipeWalks, pipeSettled, pipeAborted, pipeShown, pipeLast, pipePending,
  pipeEnds, pipeReplays, pipeForks>>
contextVars == <<
  contextLast, contextKept, contextSubscribed, contextContexts,
  contextPosted, contextCrossed, contextSends, contextEdits>>
fragmentVars == <<
  fragmentPlural, fragmentContent, fragmentPhase, fragmentMemo,
  fragmentWork, fragmentStray, fragmentBox, fragmentStore,
  fragmentPlugin, fragmentSent, fragmentData, fragmentEarly,
  fragmentResent, fragmentWrites, fragmentRenders>>
embeddedVars == <<
  embeddedFramework, embeddedPaginated, embeddedReference,
  embeddedObservers, embeddedStacks, embeddedArgs, embeddedOut,
  embeddedMoved, embeddedUntold, embeddedUpset, embeddedCalls,
  embeddedMoves>>
registryVars == <<
  registryShown, registryContent, registryLists, registryByField,
  registryByOpaque>>
streamVars == <<
  streamLoading, streamServer, streamPass, streamStream, streamWindow,
  streamHydrated, streamCache, streamData, streamSignals,
  streamArtifacts, streamAsked, streamDropped>>

MCVars == <<part, routerVars, handleVars, memoryVars, listVars, keysVars, liveVars, pageVars, storeVars, readVars, routeVars, pipeVars, contextVars, fragmentVars, embeddedVars, registryVars, streamVars>>

\* A behaviour moves one component; the others stay in an initial state.
MCInit ==
  /\ part \in {"router", "handle", "memory", "lists", "keys", "live", "pages", "stores", "reads", "routes", "pipeline", "context", "fragments", "embedded", "registry", "stream"}
  /\ Init
  /\ Q!Init
  /\ C!Init
  /\ part # "memory" => memoryItem = "none"
  /\ L!Init
  /\ O!Init
  /\ S!Init
  /\ P!Init
  /\ part # "pages" => pageDocument.method = "offset" /\ ~pageDocument.single
  /\ Y!Init
  /\ D!Init
  /\ M!Init
  /\ part # "routes" => routeWants = CHOOSE w \in Written : TRUE
  /\ B!Init
  /\ X!Init
  /\ F!Init
  /\ part # "fragments" => ~fragmentPlural
  /\ G!Init
  /\ part # "embedded" => embeddedFramework = "react" /\ ~embeddedPaginated /\ embeddedReference = "a"
  /\ K!Init
  /\ I!Init
  /\ part # "stream" => streamLoading = {}

Others ==
  /\ UNCHANGED part
  /\ part # "router" => UNCHANGED routerVars
  /\ part # "handle" => UNCHANGED handleVars
  /\ part # "memory" => UNCHANGED memoryVars
  /\ part # "lists" => UNCHANGED listVars
  /\ part # "keys" => UNCHANGED keysVars
  /\ part # "live" => UNCHANGED liveVars
  /\ part # "pages" => UNCHANGED pageVars
  /\ part # "stores" => UNCHANGED storeVars
  /\ part # "reads" => UNCHANGED readVars
  /\ part # "routes" => UNCHANGED routeVars
  /\ part # "pipeline" => UNCHANGED pipeVars
  /\ part # "context" => UNCHANGED contextVars
  /\ part # "fragments" => UNCHANGED fragmentVars
  /\ part # "embedded" => UNCHANGED embeddedVars
  /\ part # "registry" => UNCHANGED registryVars
  /\ part # "stream" => UNCHANGED streamVars

ReactRouterStep == part = "router" /\ Next /\ Others
QueryHandleStep == part = "handle" /\ Q!Next /\ Others
CacheMemoryStep == part = "memory" /\ C!Next /\ Others
ListLayersStep == part = "lists" /\ L!Next /\ Others
OptimisticKeysStep == part = "keys" /\ O!Next /\ Others
LiveSubscriptionStep == part = "live" /\ S!Next /\ Others
PaginationStep == part = "pages" /\ P!Next /\ Others
SvelteStoresStep == part = "stores" /\ Y!Next /\ Others
CacheReadsStep == part = "reads" /\ D!Next /\ Others
RouteMatchStep == part = "routes" /\ M!Next /\ Others
DocumentPipelineStep == part = "pipeline" /\ B!Next /\ Others
PipelineContextStep == part = "context" /\ X!Next /\ Others
ReactFragmentsStep == part = "fragments" /\ F!Next /\ Others
FragmentHandlesStep == part = "embedded" /\ G!Next /\ Others
ListRegistryStep == part = "registry" /\ K!Next /\ Others
PageStreamStep == part = "stream" /\ I!Next /\ Others

MCNext ==
  \/ ReactRouterStep
  \/ QueryHandleStep
  \/ CacheMemoryStep
  \/ ListLayersStep
  \/ OptimisticKeysStep
  \/ LiveSubscriptionStep
  \/ PaginationStep
  \/ SvelteStoresStep
  \/ CacheReadsStep
  \/ RouteMatchStep
  \/ DocumentPipelineStep
  \/ PipelineContextStep
  \/ ReactFragmentsStep
  \/ FragmentHandlesStep
  \/ ListRegistryStep
  \/ PageStreamStep

MCSpec == MCInit /\ [][MCNext]_MCVars

\* What React and the network owe a navigation (ReactRouter!Fairness).
MCLive ==
  /\ MCSpec
  /\ WF_MCVars(part = "router" /\ Reply /\ Others)
  /\ WF_MCVars(part = "router" /\ RenderTarget /\ Others)
  /\ WF_MCVars(part = "router" /\ ComponentArrives /\ Others)

-----------------------------------------------------------------------------
\* The component that moves keeps its types: see the TypeOK of each.
AllTyped ==
  /\ part = "router" => TypeOK
  /\ part = "handle" => Q!TypeOK
  /\ part = "memory" => C!TypeOK
  /\ part = "lists" => L!TypeOK
  /\ part = "keys" => O!TypeOK
  /\ part = "live" => S!TypeOK
  /\ part = "pages" => P!TypeOK
  /\ part = "stores" => Y!TypeOK
  /\ part = "reads" => D!TypeOK
  /\ part = "routes" => M!TypeOK
  /\ part = "pipeline" => B!TypeOK
  /\ part = "context" => X!TypeOK
  /\ part = "fragments" => F!TypeOK
  /\ part = "embedded" => G!TypeOK
  /\ part = "registry" => K!TypeOK
  /\ part = "stream" => I!TypeOK

\* Whatever a subscribed document shows, it holds a reference to, and once nobody
\* subscribes no reference is left: add, addMany, remove and the walks of a write
\* agree, across moved links and fragments (subscription.ts). What was marked stale
\* stays so until it is written again, whatever the collector does in between
\* (staleManager.ts), and a refresh reaches every document that shows one of its
\* records, masked or not (cache/index.ts).
ReferencesKept ==
  /\ part = "memory" => C!Covered
  /\ part = "memory" => C!NothingLeft
  /\ part = "memory" => C!MarkedStay
  /\ part = "memory" => C!Refreshed

\* No step, the collector's above all, drops a value that a subscribed document
\* shows (gc.ts).
KeptInView == C!KeptInView

\* Once no mutation is in flight a list shows the records that the server lists,
\* and at no time one of them twice, however insertions, removals and deletions
\* overlapped, failed and met refetches (storage.ts). The three indices of named
\* lists agree whatever subscribed or was collected, and a mutation's operations
\* change each list that they name, once (lists.ts).
ListsFollow ==
  /\ part = "lists" => L!Follows
  /\ part = "lists" => L!Once
  /\ part = "registry" => K!IndicesAgree
  /\ part = "registry" => K!Reached

\* A result of the cache that is not partial has every field its document asks for,
\* one that is not stale rests on no stale field, and null shows only where it may:
\* whatever was collected, deleted, marked or written, behind links, lists and
\* masks (cache/index.ts).
ReadsTold ==
  /\ part = "reads" => D!Complete
  /\ part = "reads" => D!Fresh
  /\ part = "reads" => D!NullsAllowed

\* However the concurrent walk of the routes goes, each page is in the manifest
\* within the layouts and queries of the directories on its way, and a link built
\* for it leads to it with the params it was given, or to a page earlier in the
\* manifest that has the same url (manifest.ts, match.ts, resolve-href.ts).
LinksLead ==
  /\ part = "routes" => M!Nested
  /\ part = "routes" => M!Complete
  /\ part = "routes" => M!LinksLead
  /\ part = "routes" => M!Fallback

=============================================================================
