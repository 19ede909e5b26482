------------------------------- MODULE Runtime -------------------------------
(***************************************************************************)
(* Components of the runtime side by side, for any values of their         *)
(* constants: live subscriptions, optimistic keys, the stream of the first *)
(* page, the data hooks, pagination, the pipeline of a request and the     *)
(* variables that go through it, Svelte stores and fragments.  They share  *)
(* no state with one another.                                              *)
(***************************************************************************)
EXTENDS Naturals, Sequences, FiniteSets

CONSTANTS
  NoValue,
  Stores, LiveVariables, Sessions, MaxSends,  \* LiveSubscription
  Calls, MutationKeys, NestedCalls, MaxMade, MutationInputs,  \* OptimisticKeys
  PageQueries,                                    \* PageStream
  QueryComponents, QueryKeys, CacheSize, MaxUnits, MaxDrops,  \* QueryHandle
  ListLength, PageSize, PageMethods, MaxPageCalls,           \* Pagination
  PipelinePlugins, PipelineSends, PipelineValues, MaxReplays, MaxForks,  \* DocumentPipeline
  VariableNames, ScalarNames, GivenValues, MaxRequests, MaxEdits,        \* PipelineContext
  StoreReaders, StoreCalls, StoreVariables, StorePolicies, Unset, MaxWrites, MaxMoves,  \* SvelteStores
  FragmentRecords, FragmentLists, MaxFragmentWrites, MaxRenders,         \* ReactFragments
  FragmentArguments, LastPage, MaxHandleCalls, MaxReferences             \* FragmentHandles

\* Nothing stands for a session or for variables but one of them.
LiveConstants == MaxSends \in Nat /\ NoValue \notin Sessions /\ NoValue \notin LiveVariables

\* 0 stands for a value that has not come.
KeysConstants == 0 \notin Calls /\ MaxMade \in [Calls -> Nat]

\* NoValue is not what a store has.
StreamConstants == NoValue \notin {"data", "errors", "placeholder"}

\* A tree is finite; the cache has a place; nothing stands for a key but one of them.
HandleConstants ==
  /\ IsFiniteSet(QueryComponents) /\ CacheSize \in Nat \ {0} /\ MaxUnits \in Nat /\ MaxDrops \in Nat
  /\ NoValue \notin QueryKeys

\* A page has items; a list may be empty.
PageConstants ==
  /\ ListLength \in Nat /\ PageSize \in Nat \ {0} /\ MaxPageCalls \in Nat
  /\ PageMethods \subseteq {"cursor", "offset"}

\* The plugins have hooks, and nothing is none of them.
PipelineConstants ==
  LET hooks == {"start", "beforeNetwork", "network", "afterNetwork", "end", "catch"}
  IN  PipelinePlugins \in Seq(SUBSET hooks) /\ NoValue \notin hooks

\* Calls are made in order; no variables, and no subscription, are told apart from any.
StoreConstants ==
  /\ StoreCalls \subseteq Nat /\ MaxWrites \in Nat
  /\ NoValue \notin StoreVariables /\ Unset \notin StoreVariables /\ Unset # NoValue

\* A list is one of records, and nothing is none of them.
FragmentConstants == NoValue \notin FragmentRecords /\ FragmentLists \subseteq Seq(FragmentRecords)

\* A connection has a page, and nothing stands for variables but some.
EmbeddedConstants ==
  /\ LastPage \in Nat
  /\ NoValue \notin [id : FragmentRecords, set : SUBSET FragmentArguments, page : 0 .. LastPage]

ASSUME RuntimeAssumption ==
  /\ LiveConstants /\ KeysConstants /\ StreamConstants /\ HandleConstants /\ PageConstants
  /\ PipelineConstants /\ StoreConstants /\ FragmentConstants /\ EmbeddedConstants

VARIABLES
  \* LiveSubscription
  liveStores, liveWaiting, liveClient, liveListeners, liveSent,
  \* OptimisticKeys
  keysCallbacks, keysKeyCache, keysObjectIDs, keysAliases, keysCalls,
  keysOrphans, keysReused,
  \* PageStream
  streamLoading, streamServer, streamPass, streamStream, streamWindow,
  streamHydrated, streamCache, streamData, streamSignals, streamArtifacts,
  streamAsked, streamDropped,
  \* QueryHandle
  handleUnits, handleSends, handleObservers, handleHeld, handleTimers,
  handleTree, handleMade, handleDrops,
  \* Pagination
  pageDocument, pageArgs, pageList, pageInfo, pagePrevious, pageNext, pageOut,
  pageUpset, pageCrossed, pageCalls,
  \* DocumentPipeline
  pipeWalks, pipeSettled, pipeAborted, pipeShown, pipeLast, pipePending,
  pipeEnds, pipeReplays, pipeForks,
  \* PipelineContext
  contextLast, contextKept, contextSubscribed, contextContexts, contextPosted,
  contextCrossed, contextSends, contextEdits,
  \* SvelteStores
  storeClient, storeSetups, storeReaders, storeCount, storeListening,
  storeShown, storeObserver, storeLast, storeSubscribed, storeLoadPending,
  storeCalls, storeCache, storeFailed, storeAway, storeCrossed, storeClock,
  storeMoves,
  \* ReactFragments
  fragmentPlural, fragmentContent, fragmentPhase, fragmentMemo, fragmentWork,
  fragmentStray, fragmentBox, fragmentStore, fragmentPlugin, fragmentSent,
  fragmentData, fragmentEarly, fragmentResent, fragmentWrites,
  fragmentRenders,
  \* FragmentHandles
  embeddedFramework, embeddedPaginated, embeddedReference, embeddedObservers,
  embeddedStacks, embeddedArgs, embeddedOut, embeddedMoved, embeddedUntold,
  embeddedUpset, embeddedCalls, embeddedMoves

S == INSTANCE LiveSubscription WITH
       Variables <- LiveVariables, None <- NoValue,
       stores <- liveStores, waiting <- liveWaiting, client <- liveClient,
       listeners <- liveListeners, sent <- liveSent

O == INSTANCE OptimisticKeys WITH
       Keys <- MutationKeys, Nested <- NestedCalls, Inputs <- MutationInputs,
       callbacks <- keysCallbacks, keyCache <- keysKeyCache, objectIDs <-
       keysObjectIDs, aliases <- keysAliases, calls <- keysCalls, orphans <-
       keysOrphans, reused <- keysReused

I == INSTANCE PageStream WITH
       Queries <- PageQueries, None <- NoValue,
       loading <- streamLoading, server <- streamServer, pass <- streamPass,
       stream <- streamStream, window <- streamWindow, hydrated <-
       streamHydrated, cache <- streamCache, data <- streamData, signals <-
       streamSignals, artifacts <- streamArtifacts, asked <- streamAsked,
       dropped <- streamDropped

Q == INSTANCE QueryHandle WITH
       Components <- QueryComponents, Keys <- QueryKeys, Capacity <- CacheSize,
       None <- NoValue, MaxSends <- MaxUnits,
       units <- handleUnits, sends <- handleSends, observers <-
       handleObservers, held <- handleHeld, timers <- handleTimers, tree <-
       handleTree, made <- handleMade, drops <- handleDrops

P == INSTANCE Pagination WITH
       Size <- ListLength, Methods <- PageMethods, MaxCalls <- MaxPageCalls,
       document <- pageDocument, args <- pageArgs, list <- pageList, info <-
       pageInfo, previous <- pagePrevious, next <- pageNext, out <- pageOut,
       upset <- pageUpset, crossed <- pageCrossed, calls <- pageCalls

B == INSTANCE DocumentPipeline WITH
       Plugins <- PipelinePlugins, Sends <- PipelineSends, Values <- PipelineValues,
       None <- NoValue,
       walks <- pipeWalks, settled <- pipeSettled, aborted <- pipeAborted,
       shown <- pipeShown, last <- pipeLast, pending <- pipePending, ends <-
       pipeEnds, replays <- pipeReplays, forks <- pipeForks

X == INSTANCE PipelineContext WITH
       Names <- VariableNames, Scalars <- ScalarNames, Given <- GivenValues,
       None <- NoValue, MaxSends <- MaxRequests,
       last <- contextLast, kept <- contextKept, subscribed <-
       contextSubscribed, contexts <- contextContexts, posted <- contextPosted,
       crossed <- contextCrossed, sends <- contextSends, edits <- contextEdits

Y == INSTANCE SvelteStores WITH
       Readers <- StoreReaders, Calls <- StoreCalls, Variables <- StoreVariables,
       Policies <- StorePolicies, None <- NoValue,
       client <- storeClient, setups <- storeSetups, readers <- storeReaders,
       count <- storeCount, listening <- storeListening, shown <- storeShown,
       observer <- storeObserver, last <- storeLast, subscribed <-
       storeSubscribed, loadPending <- storeLoadPending, calls <- storeCalls,
       cache <- storeCache, failed <- storeFailed, away <- storeAway, crossed
       <- storeCrossed, clock <- storeClock, moves <- storeMoves

F == INSTANCE ReactFragments WITH
       Records <- FragmentRecords, Lists <- FragmentLists, None <- NoValue,
       MaxWrites <- MaxFragmentWrites,
       plural <- fragmentPlural, content <- fragmentContent, phase <-
       fragmentPhase, memo <- fragmentMemo, work <- fragmentWork, stray <-
       fragmentStray, box <- fragmentBox, store <- fragmentStore, plugin <-
       fragmentPlugin, sent <- fragmentSent, data <- fragmentData, early <-
       fragmentEarly, resent <- fragmentResent, writes <- fragmentWrites,
       renders <- fragmentRenders

G == INSTANCE FragmentHandles WITH
       Records <- FragmentRecords, Arguments <- FragmentArguments, Pages <- LastPage, None <- NoValue,
       MaxCalls <- MaxHandleCalls, MaxMoves <- MaxReferences,
       framework <- embeddedFramework, paginated <- embeddedPaginated,
       reference <- embeddedReference, observers <- embeddedObservers, stacks
       <- embeddedStacks, args <- embeddedArgs, out <- embeddedOut, moved <-
       embeddedMoved, untold <- embeddedUntold, upset <- embeddedUpset, calls
       <- embeddedCalls, moves <- embeddedMoves

-----------------------------------------------------------------------------
\* A document with a live subscription has at most one open listener, and it is
\* that of the last send (subscription.ts, plugins/subscription.ts).
Listens == S!Listens

\* A mutation whose variables or input objects name the optimistic key of another is
\* sent once that one is over, its variables with the server's values, and one that
\* waits for such a value waits for a mutation that will say it; a list of keys is
\* sent as it is (optimisticKeys.ts).
KeysTold == O!KeysReplaced /\ O!WaitsForSomeone

\* On the first load, whatever the order of the answers, every query of the
\* hydrated page has its store or can be loaded, and the page shows what the server
\* got (Router.tsx, hydration.tsx).
StreamReaches == I!NoneHangs /\ I!ShowsAnswers

\* A store that a committed component holds listens to the cache, its reference
\* count is the number of its holders, and no store listens that nothing could tear
\* down any more (suspenseCache.ts, observerRefs.ts).
HandlesKept == Q!HeldAlive /\ Q!CountsAreHolders /\ Q!NothingLeaks

\* The pages of a connection that are asked for are the neighbours of the one
\* shown, and those that were appended or prepended make one stretch without gaps
\* or repetitions (pagination.ts).
PagesConnect == P!PagesFollow /\ P!NoGaps

\* Every send is answered once its walks are over, a value reaches the store
\* through all exit hooks of the plugins it passed, and an error through all catch
\* hooks of those before the one that threw; the variables that plugins set on the
\* way are sent converted once, and the cache knows the store by those that were
\* sent (documentStore.ts, scalars.ts).
PipelinesAnswer ==
  B!Answered /\ B!Exits /\ B!Catches /\ X!SentAsSet /\ X!SubscribedAsSent

\* Once all is quiet a query store of houdini-svelte that somebody reads shows its
\* document store and listens to the cache for what it shows, and a component's
\* fetch is turned away only while a load is out or after one failed
\* (stores/base.ts, stores/query.ts).
StoresFollow ==
  /\ Y!Follows
  /\ Y!LoadsInProgress

\* A component shows the record of its fragment's reference as the cache has it,
\* through renders that React gives up, effects that run again and writes in
\* between; a refetched or paginated fragment shows the record of its reference
\* with the arguments that it says, and its cursors lead back (useFragment.ts,
\* fragment.ts, useFragmentHandle.ts, refetchable.ts).
FragmentsFollow ==
  /\ F!ShowsRecord
  /\ F!ShowsRecords
  /\ G!ShowsItsRecord
  /\ G!ArgumentsTold
  /\ G!LeadsBack
=============================================================================
