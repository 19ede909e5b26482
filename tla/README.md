# Houdini in TLA+

Houdini is a GraphQL client for SvelteKit and React.  A compiler turns the documents of an application into artifacts; a
runtime sends them through a pipeline of plugins and keeps what comes back in a normalized cache, which notifies the
documents on screen; a router and a server render pages and keep a session; a development server and a language server
recompile while files change.  This directory holds TLA+ models of these parts, TLC configurations that check them on
small instances, and TLAPS proofs about them.

    tlc -workers 2 -config MCMutationCache.cfg MCMutationCache     # check an instance
    tlapm MutationCacheProofs.tla                                  # check the proofs

Paths: `cache/...` and other bare names are relative to `src/packages/houdini/src/runtime`, `plugins/...` to
`src/packages/houdini-core/runtime/plugins`; `react/`, `svelte/` and `lsp/` stand for `src/packages/houdini-react/runtime`,
`src/packages/houdini-svelte/runtime` and `src/packages/houdini-lsp/src`; `lib/`, `vite/` and `router/` for the
directories of `src/packages/houdini/src`.

Contents: 1 inventory, 2 modules, 3 runs, 4 proofs, 5 what the models leave out of single components, 6 disagreements met
without a run, 7 plan, 8 not modelled.

## 1. Inventory

### The runtime

| component | state | operations | talks to |
|---|---|---|---|
| layered storage `cache/storage.ts` | `data`: the stack of layers, each `optimistic` or not, with `fields`, `links`, `operations`; `idCount`; `idMaps` | `createLayer`, `topLayer`, `get`, `Layer.clear`, `resolveLayer`, `writeLayer`, list operations, `hydrate` | owned by the cache |
| cache `cache/index.ts` | the storage, subscriptions, lists, lifetimes, staleness | `write`, `read`, `clearLayer`, `delete`, `reset`, `subscribe`, `refresh`, `markTypeStale` | calls subscribers' `onMessage` synchronously |
| list handler `cache/lists.ts` | lists by name, parent and field; by field; by opaque id | insert, remove, toggle, upsert, delete, `when` filters | writes operations into a layer |
| subscription registry `cache/subscription.ts` | specs per record and field, with reference counts | `add`, `addMany`, `remove`, `copySubscribers`, `reset` | read by writes, clears and the collector |
| lifetimes `cache/gc.ts`, staleness `cache/staleManager.ts` | ticks and times per record and field | `tick`, `resetLifetime`, `markStale`, `getFieldTime` | deletes fields of the storage |
| document store `documentStore.ts` | `state`, `#lastVariables`, `#lastContext`; the module's `inflightRequests` | `send`, `#step`, `cleanup` | runs the hooks of the plugins; every document of a page has one |
| query plugin `plugins/query.ts` | `subscriptionSpec`, `lastVariables` | start, end, cleanup, `onMessage` | subscribes to the cache |
| mutation plugin `plugins/mutation.ts` | the layer in `ctx.cacheParams` | start, afterNetwork, end, catch | creates, clears and resolves layers |
| cachePolicy plugin `plugins/cache.ts` | none | beforeNetwork, afterNetwork | reads and writes the cache |
| fetch plugin `plugins/fetch.ts` | none | network | the server |
| optimistic keys `plugins/optimisticKeys.ts` | `keyCache`, `callbackCache`, `objectIDs` | blocks mutations on keys of others | other mutations' pipelines |
| live subscription `plugins/subscription.ts` | the client, `clearSubscription`, `check` | start, network, cleanup | a websocket |
| fragment, throwOnError, sessionRelay | little | one hook each | the cache, the pipeline, the server |
| pagination `pagination.ts` | the stacks of cursors | `loadNextPage`, `loadPreviousPage`, `fetch` | `send` |
| React hooks `react/hooks` | the suspense cache, `observerRefs`, refs and memos of components | retain, release, evict, subscribe in effects, refetch, page | document stores, React's renders and effects |
| React router `react/routing` | caches of artifacts, data and components, pending signals, the session | navigate, preload, load, hydrate, change session | document stores, the server's stream |
| Svelte stores `svelte/stores` | `#store`, `#subscriberCount`, a document store each, `loadPending` | `setup`, `subscribe`, `fetch`, `get` | document stores |
| writable store `store.ts` | subscribers, the shared `subscriber_queue` | `set`, `subscribe` | components |

### The compiler, the server and the tools

| component | state | operations |
|---|---|---|
| orchestrator `lib/codegen.ts` | plugin processes, connections, `pendingRequests`, the pipeline lock | start-up, `run_pipeline`, `trigger_hook`, `invoke_hook`, `close` |
| database `lib/database.ts`, `lib/db.ts` | a SQLite file, and on wasm a copy of it in memory | open, flush, reload, poll for plugin rows |
| Go plugins `houdini-core/plugin`, `houdini-react/plugin`, `houdini-svelte/plugin` | tables of the database | extraction, validation, generation |
| Go plugin library `src/plugins` | a connection per plugin | dispatch of hooks |
| routes `router/manifest.ts`, `match.ts`, `resolve-href.ts` | the manifest | walk of the directories, match of a url, href of a link |
| server and session `router/server.ts`, `session.ts`, `auth-token.ts` | the cookie, consumed nonces, a random key | login, callback, relay, update, forms, logout |
| hot reload `vite/hmr.ts`, `vite/schema.ts` | queue, pending batch, `processing`, tasks in the database | debounce, extract, load, close over dependents, validate, generate |
| dev server sessions `vite/session.ts` | the active session of the process | configure, hand off, register, dispose |
| language server `lsp/` | overlays, timers, the rows of the compiler's database | edit, save, close, full run, restart |
| CLI, adapters, editor extension, scaffolding | little | drivers |

### What is hard

* *Interleaving.*  JavaScript runs to the next `await`, so the atoms are the stretches between awaits.  Mutations, queries,
  aborts, live messages, renders and writes by hand interleave at the marshalling of inputs, at the network, at every
  asynchronous hook, at dynamic imports, and between a render and its effects.
* *Order.*  Responses come in any order; every one of them merges layers or replaces the state of a document.  Scripts of a
  streamed page come before the module that reads what they leave.
* *Failure.*  A hook, the network, a plugin process or the server may fail; an abort cuts the pipeline at its next step, catch
  hooks included.
* *Staleness.*  Whether variables changed is decided when a document is sent and used when its answer comes; values that were
  read, memoized or subscribed to change under the documents that show them.
* *Shared registries.*  Deduplication, named lists, suspense units, keys of optimistic records, the client's copy of the
  session, the active dev session: written at the beginning and at the end of operations of different actors.
* *Resources.*  Deferred disposal, the collector's buffer, an LRU, processes and their pending requests.

`PROJECT.json` lists each hazard at the line where it bites, with the properties that cover it.

### What makes each component correct

* Storage: a mutation in flight keeps its own layer; committing changes nothing that is displayed; a rollback leaves no
  trace; what is displayed is the last thing said in the order in which operations *began*; the stack stays bounded.
* Notification: a subscriber's last news is what a read would give.
* Reads: a result that is not partial is complete, one that is not stale rests on nothing stale, nulls respect the schema.
* Document store: it shows what the cache has for its variables, is subscribed to it, loads only while something is out,
  and every `send` returns, through exactly the hooks that the pipeline promises.
* Deduplication: at most one of the calls that count as the same is out; no entry outlives its call.
* Lists: after all is settled a list shows what the server lists, and nothing twice at any time; the registry's indices agree.
* Registry and collector: a spec is counted exactly while its owner wants it; nothing displayed is collected; a mark stays.
* Optimistic keys: no mutation is sent with the invented key of one that is out, but inside lists of keys; where it names the key
  as a variable it is sent with the real one, and it waits only for one who will call it.
* Live subscriptions: one listener, for the last send.
* Pagination: pages asked for are the neighbours of the one shown; the list has no gaps.
* React and Svelte: what a component holds is not disposed of and what nobody holds is; a component shows the record of its
  reference; a navigation ends, never blanks the page, and never shows another session's data; hydration loses no query.
* Routes: a link leads to its page with its params.
* Orchestrator: every hook request settles; runs that take the lock do not overlap; no process is left behind; what was
  written is seen.
* Dev tools: what is generated is what the files say; one compiler is up; editors show the errors of what they contain.
* Session: what the page shows is what the cookie says.

## 2. Modules

| module | what it is |
|---|---|
| `LayeredStorage` | the layers: reading, writing, clearing, merging, as operators on a stack |
| `PatchLog` | what the cache promises, with no layers in it: a log of patches |
| `MutationCache` | mutations in flight, query writes, resets and subscribers over the layers; implements `PatchLog` |
| `QueryStore` | one query document: `send`, its requests, deduplication, the cache subscription |
| `DocumentPipeline`, `PipelineContext` | the interpreter of the plugins' hooks; the variables on their way through it |
| `CacheReads`, `CacheMemory` | the walk of a read; reference counts, collector and stale manager under writes that move links |
| `ListLayers`, `ListRegistry` | one list under the operations of mutations, refetches and live writes; the indices of named lists |
| `OptimisticKeys`, `LiveSubscription`, `Pagination` | a plugin or helper of the runtime each |
| `QueryHandle`, `ReactFragments`, `FragmentHandles` | the React hooks for queries and fragments (`FragmentHandles` also those of Svelte) |
| `SvelteStores` | a query store of houdini-svelte |
| `ReactRouter`, `PageStream`, `RouteMatch` | navigation and its caches; the first load; the manifest, links and matches |
| `ServerSession` | the cookie, its writers, and the router's copy |
| `PluginHost`, `CompilerDatabase` | the orchestrator; the database it shares with the plugins |
| `HotReload`, `DevSession`, `LanguageServer` | recompiling, server restarts, live validation |
| `Runtime`, `Tooling` | components of the runtime, and those of the server and the tools, side by side, for any constants |
| `MCMutationCache`, `MCQueryStore`, `MCRuntime`, `MCTooling` | the instances that the configurations need |
| `*Proofs` | lemmas and theorems, checked by TLAPS |

### LayeredStorage, MutationCache, PatchLog

A layer is a record `[id, optimistic, fields, deleted]`.  `fields` joins the code's `fields` and `links`, of which a key
occupies one; a `LinkFields` field holds a link to one record.  `deleted` is the set of records whose `operations` entry has
`deleted` set.  A stack is a sequence with `data[0]` of the code at index 1.

| definition | code |
|---|---|
| `Lookup` | `InMemoryStorage.get`: the topmost layer with a value or a delete decides, a value before a delete |
| `WithTop`, `WriteAt` | `topLayer`, and what `writeSelection` leaves in the layer it is given, a null over a null link left out |
| `ResolveAt` | `resolveLayer`: mark committed, merge the run of committed layers around it, splice |
| `MergedFields` | `writeLayer`: deletes remove what the target has; the flag is not passed on |
| `IsDisplayLayer` | `Layer.isDisplayLayer`, which compares ids |
| `WriteNotifies`, `ClearNotifies` | which subscribers `write` and `clearLayer` collect |

`MutationCache` has one action per stretch of a mutation's pipeline:

| action | code |
|---|---|
| `Start` | `mutation.start` to its await: an optimistic layer in any case |
| `WriteOptimistic` | the rest of it; an abort in between is noticed afterwards |
| `MarshalFails` | `marshalSelection` throws: an error in `start` of plugin *n* goes to the catch hooks *before* it |
| `Respond` | `mutation.afterNetwork` clears the layer, `cachePolicy.afterNetwork` writes into it; both are synchronous |
| `ResponseUnwritable` | the write throws half way |
| `EndCommits`, `EndRollsBack` | `mutation.end` without and with errors |
| `NetworkFails`, `EndHookFails` | the catch hooks run, `mutation.catch` among them |
| `Abort`, `Rejected` | the signal; `#step` then refuses every hook |
| `LayerGone` | a hook after `cache.reset()` finds no layer and throws |
| `QueryWrite`, `Reset`, `Subscribe` | `Cache.write` without a layer, `Cache.reset`, `InMemorySubscriptions.add` |

`shown` holds, for every cell that has a subscriber, what that subscriber was told last.  `log` is a history variable: it
records what each operation said, and nothing reads it.  `PatchLog` is what a careful reader would call the contract.  An
entry per operation, in the order in which they *began*; a mutation may rewrite its own entry until it settles; a reader
sees the last thing the log says about a cell.  The comment in `mutation.start` ("a query which fires after this mutation
has been sent will overwrite any return values from the mutation") is an instance of it.  `ImplementsPatchLog` states that
`MutationCache` implements it, with `view <- Display(data)` and `open` the mutations that have not settled.

### QueryStore

A call of `send` is a record in `requests`.  The stretch from `send` to the request is one action, because none of the
hooks in between awaits: it takes the registry's decision, merges the variables, computes `changed`, and does what
`cachePolicy.beforeNetwork` does with a hit or a miss.

| action | code |
|---|---|
| `Send` | `DocumentStore.send` to the network, with `query.start` and `cachePolicy.beforeNetwork`, and `query.end` on a hit |
| `Serve` | the server answers with the data it has now, or with errors |
| `Deliver`, `DeliverErrors` | the backwards phase: the write, its notification of the old subscription, `query.end`, the state |
| `Fail` | the request fails or its signal is aborted; the error phase rejects the promise |
| `Forget` | the `finally` block of `send`, a microtask after the promise settled |
| `Abort` | a caller's `AbortController`, also after the request is over |
| `Arrive`, `Leave` | the store's first subscriber comes; the last goes: `#lastVariables`, then every plugin's `cleanup` |
| `OtherWrite`, `MarkStale`, `ServerChanges` | mutations and other documents, `markTypeStale`, the outside world |

The value of the query for given variables is the *version* of the server's data it came from, so "most recent" has a
meaning.  `cache[v]` is what a read of the whole selection for `v` finds.  A subscription is the number of the request whose
context its `onMessage` closed over: `resolve(ctx, ...)` sends an update through that request's pipeline.  A document begins
as `HoudiniClient.observe` makes it, not loading.  `match: None` means no deduplication and is `cancel |-> "never"`.

### The runtime's other components

Each module's header and comments name its code line by line; `PROJECT.json` maps every definition.  In short:

| module | state | actions (code) |
|---|---|---|
| `DocumentPipeline` | `walks`: the calls of `#step` that are under way, with direction, phase and plugin | `Send`, `Run` (a hook answers: next, resolve, resolve again, throw), `Bound` (the end of a direction), `Abort` |
| `PipelineContext` | a request's variables as given and as marshaled; the store's last ones, the query plugin's | `Send`, `Start`, `SetVariable`, `DropVariable`, `Post`, `Answer`, `Fail`, `Cleanup` |
| `CacheReads` | every content that a cache can have, and the fields marked stale | a choice of content and marks; the read is the operator `Result` (`getSelection`, `hydrateNestedList`) |
| `CacheMemory` | the links root → item → friend, reference counts by spec, lifetimes, times | `Subscribe`, `Unsubscribe`, `WriteItem`, `WriteFriend`, `WriteNarrow`, `Mark`, `Tick` |
| `ListLayers` | a stack whose layers have a full list or operations, the server's list | `Start`, `Succeed`, `Fail` of six list operations, `Refetch`, `LiveInsert`, `LiveRemove` |
| `ListRegistry` | the lists by name, by field, by opaque id, and the fields' content | `Show`, `Leave`, `Collect`, `Delete`, `Mutate`, `Reset` |
| `OptimisticKeys` | `callbackCache`, `keyCache`, `objectIDs`, aliases in the storage | `Start`, `BeforeNetwork`, `Succeed`, `End`, `Throw` |
| `LiveSubscription` | per store the plugin's `check` and what it listens to; the shared client; sends that wait for it | `SendTo`, `Resume` (the client is there), `Message`, `Error`, `Cleanup` |
| `Pagination` | the store's variables, list and page info, two stacks of cursors, requests out | `NextPage`, `PreviousPage`, `NextFromStack`, `PreviousFromStack`, `NextOffset`, `Fetch`, `Answer`, `Fail` |
| `QueryHandle` | suspense units, held stores and their counts, timers, the components' phases | `Render`, `Commit`, `Replay` (strict mode), `Unmount`, `Dispose`, `Answer`, `Invalidate` |
| `ReactFragments` | refs, memo and pending render of a component, the plugin's spec, the box that is shown | `Render`, `GiveUp`, `Effects`, `RenderAll`, `EffectsAll`, `Write`, `Unmount` |
| `FragmentHandles` | observers and stacks, by component (React) or record (Svelte) | `Refetch`, `NextPage`, `PreviousPage`, `Answer`, `Failure`, `Move` |
| `SvelteStores` | `#store` and its readers, the document store, calls by where they await | `ClientLoads`, `Continue`, `Subscribe`, `Unsubscribe`, `Fetch`, `Prepare`, `Start`, `AfterSilent`, `Reply`, `Fail`, `OtherWrite` |
| `ReactRouter` | `data_cache`, `last_variables`, signals and imports by document; the url and the one React renders for | `Navigate`, `Preload`, `RenderTarget`, `ComponentArrives`, `RenderRouter`, `RenderPage`, `ArtifactArrives` or a send's `Answer` (both `Reply`), `ArtifactFails`, `HotUpdate`, `ChangeSession` |
| `PageStream` | the server's answers and rendering pass, the stream, the window's globals, the router's caches | `Answered`, `Shell`, `Close`, `Script`, `HydratePage`, `LoadQuery` |
| `RouteMatch` | the directories visited, the pages, a link and the page that its url shows | the visit of a directory, a link, a foreign url |

### The server, the compiler and the tools

| module | state | actions (code) |
|---|---|---|
| `ServerSession` | cookie jar, the server's key and consumed nonces, the page's cookie, `local` (useSession), messages | `Mutate`, `Relay`, `Mirror`, `Update`, `Submit`, `LogOut`, `Login`, `Callback`, `Execute`, `Apply`, `Write`, `Rendered`, `Lose`, `Repeat`, `Reload`, `Restart` |
| `PluginHost` | processes, connections, requests out, plugins at work, runs with their steps and the lock | `Register`, `Configure`, `Startup`, `Submit`, `Step` (any request, answer, time-out or hand-over), `ErrorAnswer`, `Late`, `Crash`, `Close` |
| `CompilerDatabase` | the rows of the file and of the copy in memory, by writer and stamped; hooks that are out | `Connect`, `Spawn`, `PollFlush`, `InsertRow`, `Poll`, `WriteConfig`, `Write`, `Trigger`, `PluginWrites`, `Return`, `Fail`, `Restore` |
| `HotReload` | the disk, queue, pending batch, the run's stage, rows, documents and artifacts | `Save`, `ChangeSchema`, `Step` (timer and every stage), `Fail` |
| `DevSession` | servers by stage, the active session, teardowns, compilers, databases | `Resolve`, `Open`, `Configure`, `Spawn`, `Register`, `SetupFails`, `HttpClose`, `TornDown` |
| `LanguageServer` | the disk, buffers, timers, held events, tasks for the lock, rows, squiggles, compilers | `Open`, `Edit`, `Save`, `Close`, `LiveTimer`, `ChangeOutside`, `ChangeConfig`, `Handle`, `Begin`, `End`, `WatchTimer`, `SetUp`, `SetUpFails`, `TornDown`, `Shutdown` |

*What is external.*  React (renders, commits, strict mode, transitions), Vite (the order of creating and closing servers),
the plugin processes, the GraphQL server and the operating system are modelled from how the code uses them: every order
in which they may call is an action.

*Composition.*  `MutationCache` composes the mutation and cache policy plugins, the pipeline, the cache and the layers.
`QueryStore` composes the document store, the query, cache policy and fetch plugins and the registry of requests.
`SvelteStores` and `QueryHandle` take of the document store what `QueryStore` says of it; `ReactFragments` composes hooks,
document store, fragment plugin and cache; `PageStream` composes server, stream and router; `ServerSession` composes
server, relay plugin and router; `LanguageServer` and `HotReload` take of the orchestrator its lock, which `PluginHost`
models; `CompilerDatabase` takes its hooks.  The components of `MCRuntime` and of `MCTooling` share no state: see below.

## 3. Runs

| run | instance | what it asks |
|---|---|---|
| `MutationCache` | 2 mutations, 1 record with a scalar and a link, 2 query writes, 1 reset; no aborts, no throwing hooks, no null of the link | the types, `Compacted`, `SubscribersCurrent`, `MergeInvisible`, `ImplementsPatchLog`, `SettlesToOneLayer` |
| `MutationFaults` | 2 mutations, both abortable, hooks may throw; 1 write, 1 reset | `PendingLayerKept`, `PendingLayerIsolated` |
| `MutationAbort` | 1 mutation that may be aborted | `FailedMutationReverted`, **violated** |
| `MutationDelete` | 2 mutations that may delete the record, 2 writes | `MergeInvisible`, **violated** |
| `QueryStore` | 2 variables, 4 policies, 4 calls one after the other, 2 versions, readers that come at any time and leave between calls, no failures | the types, `ShowsLatest`, `SubscribedToLast`, `FetchingInFlight` |
| `QueryDedupe` | 3 overlapping calls that fail and are aborted, two kinds of `@dedupe` | `RegisteredIsPending`, `EverySendReturns` |
| `QueryOverlap` | 3 overlapping calls, 2 variables | `ShowsLatest`, **violated** |
| `QueryDeparture` | 2 calls one after the other, readers that leave at any time | `ShowsLatest`, **violated** |
| `QueryFetching` | 1 call that may fail | `FetchingInFlight`, **violated** |
| `QueryTwoLive` | 3 calls, `@dedupe` with the default arguments | `OneLivePerKey`, **violated** |
| `Runtime` | sixteen components of the runtime, listed below | `AllTyped` and the properties below |
| `Tooling` | six components of the server and the tools, listed below | `AllTyped` and the properties below |

*Runs of many components.*  The components of `Runtime` and of `Tooling` share no state, so their interleavings say nothing.
The runs check their *sum*: a constant variable `part`, chosen in `RuntimeInit` and `ToolingInit`, says which one moves; the
others stay in one initial state; a property has one conjunct per component, which speaks when it is that component's turn.
The states of the run are those of the components one after the other.  `Tooling` extends `DevSession` and has instances of the
other five; `MCTooling` only gives it constants.  `Runtime` has the ten components of the runtime that the proofs are about;
`MCRuntime` extends it and `ReactRouter`, has instances of the others, and composes all.  So the definitions the theorems are
about are those the runs check.

`Runtime`:

| component | instance | properties |
|---|---|---|
| `ReactRouter` | 3 urls of 2 pages with 2 documents, 3 events (navigations, preloads, session changes, hot updates, failures) | `SessionIsolated`, `NavigationShows`, `NavigationEnds` (liveness) |
| `QueryHandle` | 2 components, 2 keys, an LRU of 1, 2 sends, 1 invalidation | `HandlesKept` |
| `CacheMemory` | 2 documents, one masking the friend of an item, 2 items, a buffer of 1 tick, 2 writes, 2 ticks | `ReferencesKept`, `KeptInView` (action) |
| `ListLayers`, `ListRegistry` | 2 records, 2 mutations with the 6 operations, 2 refetches or live messages; 4 documents with shared names and fields, 10 sequences of operations, 1 record | `ListsFollow` |
| `OptimisticKeys` | 3 mutations, 2 keys, the first of which makes two records; the others name keys as variables, in input objects and in lists | `KeysTold` |
| `LiveSubscription` | 1 store, 2 variables, 2 sessions, 3 sends | `Listens` |
| `Pagination` | a list of 6, pages of 2, 5 calls, by cursor and by offset, infinite and single page | `PagesConnect` |
| `SvelteStores` | 1 reader, 2 calls, 2 variables, 1 write by others, 2 changes of readership | `StoresFollow` |
| `CacheReads` | a root, a User and a Bot behind links and lists, every content and one stale mark | `ReadsTold` |
| `RouteMatch` | 9 directories with static, parameter, optional, rest and group segments | `LinksLead` |
| `DocumentPipeline`, `PipelineContext` | 3 plugins with every answer of a hook, 1 extra resolve, 1 fork; 2 inputs of which one is a custom scalar, 2 sends, 1 edit by a plugin | `PipelinesAnswer` |
| `ReactFragments`, `FragmentHandles` | 2 records, 3 lists, 2 writes, 3 renders; 2 records, 2 arguments, 2 pages, 3 calls, 2 changes of reference | `FragmentsFollow` |
| `PageStream` | 3 queries, blocking, streamed and `@loading`, answered in any order around the shell | `StreamReaches` |

`Tooling`:

| component | instance | properties |
|---|---|---|
| `PluginHost` | a core and a framework plugin, 1 set-up hook of one of them, a parallel and a sequential step of both, 3 runs, 1 fault, both transports | `RunsOrdered`, `RunsEnd` (liveness) |
| `HotReload` | 2 files of which one spreads the other's fragment, 2 versions, 3 saves, 1 schema change, 1 fault | `Fresh`, `Settles` (liveness) |
| `DevSession` | 4 servers, in one context or nested | `OneCompiler` |
| `ServerSession` | 3 writers (login, merging update, logout), 2 requests, 1 mishap (loss, repetition, reload, restart) | `CopyIsTheCookie` |
| `LanguageServer` | 2 files, 3 events, 1 restart, 1 fault | `EditorTold` |
| `CompilerDatabase` | native and sql.js, 2 plugins, 1 table, 2 calls, 9 writes | `WritesSeen` |

*Bounds.*  Every bound is a `Max...` constant or a set, named in the guard of the action that spends it.  In the cache, two
mutations and two writes give every stack of up to four layers in which a committed layer lies below, between and above
optimistic ones; that is every shape of a merge, which takes at most three layers (lemma `ResolveMergesRun` proves that
for any stack).  Of the two cells one may be left out by a response that an optimistic response promised, and one is a
link.  The writes of the run have no null for that link: a skipped null (`Skipped`, section 6) is only met by the proofs, whose
patches are any, and `ImplementsPatchLog` excludes it there by assumption.  Three calls are what it takes for one to be out, one to be dropped and one to be let through;
four let a subscription be made, left, and made again.  Of the other components, an instance has one more of everything
than its hazard needs: two actors and a third event for what overtakes, two keys and one place for an eviction, one fault,
because the cases after two faults are those after one.  Four dev servers are the one that closes, the one that opens, and
one more of each kind (another context).  Deadlock is not checked: when everything has settled, or all calls have been
made, and the bounds are used up, the system may stop.

*Fairness.*  Weak fairness of each mutation's steps, and of each request's: the event loop runs a hook that is ready, and a
request is answered or fails (`fetch` does one of the two).  For the router, of the answers (`Reply`), of React rendering the
url it was given (`RenderTarget`) and of a page's bundle that arrives (`ComponentArrives`).  For the orchestrator, of `Step`:
a request is answered or times out, the lock is handed on; a plugin owes nothing, because its silence is a time-out.  For
hot reloading, of `Step`: the debounce timer fires and a run goes on.  Nothing is assumed of users and applications:
starting a mutation, calling `send`, aborting, navigating, saving and resetting are never fair.

*What the passing runs show.*  Whatever the overlap, a mutation's layer is its own; merging is invisible and leaves nothing
behind; the contract `PatchLog` holds; subscribers are never behind.  A document used by one caller at a time, whose readers
wait for it, shows the latest value and is subscribed to it, and with any overlap, failure or abort every call returns and
the registry is clean.  For the other components the comment before each property says what holds and of which code.

*What the properties leave out, and how.*  Where the code is known to depart from what one would ask, the model takes the
step all the same, notes in a *history variable* that the case happened, and the property is stated for the behaviours
without it.  `overtaken` and `crossed` say that an answer or a run went past another, `missed` in `HotReload` and
`LanguageServer` that an event was ignored or that a pass published for a document opened anew, `kept` in `HotReload` that a
file was saved again in one debounce window and went out with what it held first, `early` in `ReactFragments` that a record was written between a render and its
effects, `tangled` in `ListLayers` which records two operations were about, `crowded` in `CacheMemory` that two documents
shared a link that moved; the declaration of each variable says what it notes.  No guard reads one, so no behaviour is
lost to the other properties.  Section 6 lists the cases.  Such a property draws a boundary: on this side of it the code
does what it should.

*What the violated runs show.*

1. `MutationAbort`: `#step` looks at the abort signal before it calls any hook, catch hooks too, so an aborted mutation's
   optimistic layer stays for good (`documentStore.ts:426`); the documentation says that a failed mutation is reverted.
2. `MutationDelete`: `writeLayer` applies a delete to the layer it merges into and does not record it there
   (`cache/storage.ts:630`), so what still older layers say of the record is read again.
3. `QueryOverlap`: `changed` is decided when a document is sent (`documentStore.ts:643`) and used when the answer comes
   (`plugins/query.ts:59`): answers in the wrong order leave a document showing one thing and subscribed to another.
4. `QueryDeparture`: the reply to a request that was sent with unchanged variables, arriving after the last reader left,
   restores `#lastVariables` and not the subscription (`documentStore.ts:121`): those who come back are never subscribed.
5. `QueryFetching`: no hook puts `fetching` back when a request fails (`plugins/cache.ts:150`).
6. `QueryTwoLive`: the `finally` block deletes the registry entry for its key whoever made it (`documentStore.ts:244`).

They decide what the passing runs of the cache and of a query assume: `Compacted`, `SettlesToOneLayer` and
`ImplementsPatchLog` are stated without aborts, the last also without null links (section 6), `MergeInvisible` without deletes, `ShowsLatest` and `SubscribedToLast`
without overlap and with readers that wait for the answer (`Overlapping`, `Departing`), `FetchingInFlight` without failures
(`Faulty`).  `ShowsLatest` also needs that nobody aborts: the subscription speaks through the request that made it, and
falls silent when that request's controller is aborted, even afterwards.

## 4. Proofs

TLC has checked every formula below on the instances of section 3; the theorems hold for every value of the constants that
meets the named assumptions.  What an assumption says of constants in general is a named `ASSUME` of its module, which TLC
evaluates in the runs; where it says which kind of instance is meant (`NothingDeletes`, `Sequential`), the run has such an instance.

`MutationCacheProofs`, for every set of records, fields, values, mutations and patches and for all bounds:

| theorem | states |
|---|---|
| `InvHolds` | the inductive invariant `Inv` |
| `TypeCorrect`, `IdsGrowHolds`, `PendingLayerKeptHolds` | the types; ids grow up the stack; a mutation finds its layer: parts of `Inv` |
| `PendingLayerIsolatedHolds` | the action property: nobody else touches an optimistic layer |
| `CompactedHolds` | assuming that no abort fires and no hook throws on its data |
| `MergeInvisibleHolds` | assuming that no operation deletes records (`NothingDeletes`) |
| `SubscribersCurrentHolds` | assuming `NothingDeletes` and that no hook throws on its data; aborts and resets included |
| `ImplementsPatchLogHolds` (`PatchLogProofs`) | the refinement, assuming `Plain`: `NothingDeletes`, no null of a link, no abort, no hook that throws |

The extra assumptions are not conveniences: the runs `MutationAbort` and `MutationDelete` show properties fail without
them, a response that cannot be written (`ResponseUnwritable`) leaves data that nobody was told of, and section 6 (*Layers and
lists*) says what a null of a link does.  The other assumptions are `StorageAssumption` and `MutationAssumption`.

*The argument.*  `PendingLayerKept` is not inductive.  That a mutation finds its own layer after another one's merge needs
that ids are not shared, hence that they grow up the stack (`IdsGrow`) and that no two mutations hold one (`Owners`), hence
that the counter is ahead of both; and that a merge takes a bounded run of committed layers needs that committed layers do
not lie on one another (`Alternating`), which every merge must restore.  `Inv` is the conjunction.  `ResolveMergesRun` finds
the run that `resolveLayer` merges, `CollapseShape` describes the splice position by position, and `ResolveEffect` draws from
them what the actions need: order and alternation are kept, the other optimistic layers are kept as they were, nothing
appears.  All hooks of a mutation then satisfy one action, `Hook`, and `HookKeepsInv` is proved of that.  `MergedCell` and
`CollapseInvisible` carry the proof that a merge changes no read.

`SubscribersCurrent` rests on three facts.  A write or a clear that notifies tells what the stack then gives (`WriteTells`,
`ClearTells`); one that does not notify leaves the cell's read as it was (`QuietWrite`, `QuietClear`), which is where
`isDisplayLayer` compares ids for heights and so needs `IdsGrow`; and new layers and merges change no read.

The refinement needs what ties the log to the layers (`LogInv`): a *placement*, which puts each entry of the log into a layer,
later entries in the same layer or above, so that what a layer says of a cell is what the last entry in it that speaks of the
cell says (`Tells`); the entries of a mutation in flight are those in its own layer, one at most, and that is empty until the
optimistic response is marshalled (`LogShape`).  From a placement follows that what is read is the view (`TellsView`).  A new
entry lies on top (`TellsAppend`), a rewritten one is alone in its layer (`TellsRewrite`), and a merge moves the entries of the
run to one layer and keeps the order (`TellsMerge`) without handing any to a mutation in flight (`MergeOwns`).  `StepImplements`
then maps `Start` to `Begin`, `WriteOptimistic`, `Respond` and the failures to `Rewrite`, `EndCommits` and `LayerGone` to
`Settle`, `QueryWrite` to `Write`, and `Subscribe` to a stutter.

`QueryStoreProofs`, for every set of variables and versions, any number of calls, all policies and all documents:

| theorem | states |
|---|---|
| `RegistryHolds` | the inductive invariant `TypeOK /\ Registered` |
| `TypeCorrect`, `RegisteredIsPendingHolds` | the types, and that no entry of the registry outlives its call, under any overlap, abort or failure |
| `SubscribedToLastHolds` | assuming `Sequential`: calls wait for each other and readers for the answer; requests may fail and be aborted |
| `ShowsLatestHolds`, `FetchingInFlightHolds` | assuming `Undisturbed`: `Sequential`, and nothing fails |

`QueryOverlap`, `QueryDeparture` and `QueryFetching` show what becomes of the last three without their assumption.

*The argument.*  `RegisteredIsPending` needs that an entry's key is that of the call that made it (`Registered`): only then does
the `finally` block that ends the call remove it.  `SubscribedToLast` needs two facts about the request that is out: it is the
last one (`OneAtATime`), and if it will not subscribe, the store still remembers its variables when it ends (`Unchanged`).
That second fact is the one that the overlap and the departure break.  `ShowsLatest` then follows from `Fresh`, which holds
while requests are out too: every write of the variables on display passes through the subscription, `Linked` says that it is
the right one, and `Unaborted` that it is heard.  `FetchingInFlight` is inductive together with `Unaborted`: every end of a
pipeline clears the flag (`LoadingEnds`), and whatever sets it leaves a request out (`SendLoading`).

`ReactRouterProofs`, for every set of urls, documents and variables and any number of events:

| theorem | states |
|---|---|
| `InvHolds`, `SessionIsolatedHolds` | assuming `RouterConstants` (urls give documents variables): the data cache holds nothing of an older session |
| `ShowsHolds`, `NavigationShowsHolds` | assuming also `Marked` (`None` is no variable): `NavigationShows` |

*The argument.*  That the data cache holds nothing of an older session is not inductive, because answers that were asked for in an
older session may still come.  `Inv` says of each document's entry that it is `Sound`: what it holds, and what a pending request
will put there, carries the generation that it was asked in, the session is one ahead of the generations that were dropped, and
a request of an older generation has lost its place in the caches.  `Shows` says where a document is going: loads are in order
(`Orderly`), and the last of what is out for it has the variables that were recorded last (`Heading`); while its artifact is
imported it may have one load and no store (`Lone`).  Only what moves an entry on (`Onward`: its sends grow, its store is kept or
dropped) is asked of each of the ways in which the router touches one; a change of session drops all stores.

`RuntimeProofs` and `RequestProofs`, for any stores, sends, sessions, mutations, keys, queries, plugins and variables:

| theorem | states | assuming |
|---|---|---|
| `LiveInvHolds`, `LiveTypeCorrect`, `ListensHolds` | `S!Spec => []Listens` | `LiveConstants` |
| `KeysToldHolds` | `O!Spec => []KeysTold` | `KeysConstants` |
| `StreamReachesHolds` | `I!Spec => []StreamReaches` | `StreamConstants` |
| `HandleInvHolds`, `HandleTypeCorrect`, `HandlesKeptHolds` | `Q!Spec => []HandlesKept` | `HandleConstants` |
| `PageInvHolds`, `PageTypeCorrect`, `PagesConnectHolds` (`RequestProofs`) | `P!Spec => []PagesConnect` | `PageConstants` |
| `PipeInvHolds`, `PipeTypeCorrect`, `ContextInvHolds`, `PipelinesAnswerHolds` (`RequestProofs`) | `B!Spec /\ X!Spec => []PipelinesAnswer` | `PipelineConstants` |
| `StoreInvHolds`, `StoreTypeCorrect`, `StoresFollowHolds` (`RequestProofs`) | `Y!Spec => []StoresFollow` | `StoreConstants` |
| `FragmentInvHolds`, `FragmentTypeCorrect`, `EmbeddedInvHolds`, `EmbeddedTypeCorrect`, `FragmentsFollowHolds` | `F!Spec /\ G!Spec => []FragmentsFollow` | `FragmentConstants`, `EmbeddedConstants` |

Each of the first four assumptions says that the model value for "nothing" is none of the values it is told apart from, and that a
bound is a number; the fourth also that the cache has a place, and that a page has finitely many components.  `PageConstants`
says that a page has items (`pagination.ts:87` refuses a load without a page size); the connection may be empty.
`PipelineConstants` says that the plugins come in a sequence, each with some of the six hooks, none of which is "nothing".  `StoreConstants` numbers
the calls and tells "no variables" and "no subscription" apart from variables; the readers may be any set, as those there are at a
time are finitely many because they come one by one.  `FragmentConstants` says that a list is a sequence of records and that
"nothing" is no record, `EmbeddedConstants` that a connection has a first page and "nothing" is not variables of a handle.

*The arguments.*  `LiveInv` adds to the two halves of `Listens` who may clear which listener (`ClearsOwn`, `Owned`), that the
plugin's `check` is what the listener was made for (`Checked`), that nobody listens before the client is there (`ClientMade`) and
that among the sends that wait for the client the last one is a last one (`LastWaits`).  `KeysInv` is about both ends of a
callback: keys that are named or waited for were made (`Named`), one mutation makes a key (`Single`, but for reused keys), there
are callbacks for a key exactly while its maker is under way (`Open`), a mutation waits exactly where it is among the callbacks
(`Waiters`), and what it was told is what a maker got, which is over (`Values`; so are, once it waits, the makers of the keys that
it names and does not wait for, except in lists).  `Open` is the part that fails for the keys in `Lost`.
`StreamInv` follows an answer: what scripts and window claim is what the server got (`Told`), until the module runs each
answer is in a script or in the window (`Reaching`), and then in the page (`Reached`); `streamDropped` is the one way to get lost.
`HandleInv` is about what is taken for granted of a store.  A component that shows it, a unit that has an answer and a request
that will not subscribe (its variables are those of the last one) all take it for subscribed (`TreeSound`, `UnitsSound`,
`SendsSound`); a store that listens has a hold or a unit that will tear it down (`OwnersSound`), as has one with a request out,
whose answer may subscribe it.  `Swept` shows that an eviction keeps all four: a store that has lost a unit and has no hold is
torn down, and notes who had it still.  `Counted` says that a count is that of the mounted components and that a store whose
count is 0 has a timer, which is what a component that comes back meanwhile relies on.

`PageInv` is about where a connection's pages lie.  What is shown is the items from `s` to `e` for some `s` and `e` (`Stretched`; of a
single page, those of its variables, `SingleShown`), and that is not inductive: an answer keeps it only if its page joins them.
So an update that is out goes on from an item of the stretch and is no farther from its end than a page (`Adjoins`); and because
several may be out for one end, those that were sent later go on from the same item or farther out (`PagesOrdered`), so that
after the first the others still join.  Which item may come again is why appended pages push old entries out: `KeptStretch`,
`NextJoined` and `PreviousJoined` show that what stays and what comes make one stretch.  With offsets nothing is pushed out, one
request at a time is what the property presupposes (`OneOut`), and a page may be longer than the document says (`PageLong`).  The stacks of a single page (`StacksAgree`) have cursors one
page apart, the last of them one page from the page that will be shown once all is answered (`PageTarget`), which is why a page
popped off a stack adjoins the one shown.

`PipelinesAnswer` speaks of walks that are over.  `PipeInv` says of each walk on its way that what it has passed, followed by what is
still ahead of it (`Remaining`), is all that a walk which turned there owes (`Expected`); for an error, that what it has passed,
followed by the catch hooks below it, is those of all plugins before the one that threw (`Throwing`), unless its send was
aborted.  `Down(hook, i)`, the plugins from `i` down that have the hook, is a choice by rank; `DownStep` says that it starts with
the plugin that `#step` goes to next, and `DownEmpty` that nothing is left where `#step` finds none; so every step takes one plugin from what
is ahead and adds it to what was passed.  A hook that answers more than once, or answers and goes on, makes another walk with
the same right to this.  For the variables, `ContextInv` says that a context's converted variables are its present ones, each converted from
its present value (`Converted`); that one which was set for this request was never converted before, which only the variables of the last subscription were
(`ContextSound`); and that while nothing has crossed there is one context, and the variables it compares with are those
the cache knows the store by (`OneContext`).  The bound of `X!TypeOK` on how often a value is converted is only model-checked.

`StoresFollow` speaks of a quiet store.  `StoreInv` says what the parts of one are while it is not.  Set-ups are counted neither
by readers nor by calls, so the proof needs who still relies on one: a reader (`StoreShows`) and a call that has prepared (`Attended`)
have a store that listens or a continuation to come, and no continuation is left when a request starts (`NoneWaits`), since
continuations run before anything else.  A continuation of a fetch, which does not take up the subscription, has its call
still ahead of it (`SetUps`), so the store is not taken for settled.  Then the subscription is that of the last variables (`Agree`),
a store that does not listen has neither (`Departed`), and the request that is out decided rightly whether its variables
changed (`OneOutside`), because whoever could change the last variables meanwhile is excepted by `crossed`.  `Cached` (what was
shown is in the cache) is what makes a silent miss harmless: the variables it subscribes are not those shown.

For a fragment, `FragmentInv` follows a reference through three places: the render under way, the commit, and the plugin.  What a
render read anew is what the cache has, unless it was written since (`Reads`); a render with the committed reference keeps what
was read for that (`Remembers`); what is committed was sent and is subscribed (`Subscribed`),
so a write after the effects reaches the box (`ShowsSelected`), but for an effect that ran again and the leftovers of a render that was
given up (`Strays`).  Of a list the specs are those of the references that were rendered (`ListShown`), entry by entry.
For the handles, `EmbeddedInv` says whose record an observer and its requests are (`OwnRecord` in Svelte, `SameRecord` in React until the
reference moves), and of refetch and pagination what is shown or, if a request is out, what will be (`ArgumentsKept`,
`CursorsKept`: a stack is 0, 1, ... up to the page before, `Lead`).

`ToolingProofs` and `EditorProofs`, of `Tooling` with any constants.  `ComponentsRun` says that a behaviour of `Tooling` is one of each component,
so what is proved of a component's specification holds of the sum (`EditorRuns` says it of the language server):

| theorem | states | assuming |
|---|---|---|
| `DevInvHolds`, `DevTypeCorrect`, `OneCompilerHolds` | `OneCompiler`, for any servers in any contexts | `ServersAssumption` |
| `DatabaseInvHolds`, `DatabaseTypeCorrect`, `WritesSeenHolds` | `WritesSeen`, for any plugins, tables, calls and their nesting | `DatabaseConstants` |
| `SessionInvHolds`, `CopyIsTheCookieHolds` | `CopyIsTheCookie`, for any sessions, writes, requests and mishaps | `SessionConstants` |
| `SessionTypeCorrect` | what cookies and messages carry is what was written, merged key by key | `WriteConstants` |
| `HostInvHolds`, `HostTypeCorrect`, `RunsOrderedHolds` | `RunsOrdered`, for any plugins, hooks, pipelines and runs | `HostConstants` |
| `HotInvHolds`, `HotTypeCorrect`, `FreshHolds` | `Fresh`, for any files, dependencies and number of saves | `HotConstants` |
| `EditorInvHolds`, `EditorTypeCorrect`, `EditorToldHolds` | `EditorTold`, for any files, edits, saves, restarts and faults | `EditorConstants` |
| `AllTypedHolds` | `AllTyped`, of `Tooling` as a whole | all of these |

The assumptions: servers, calls and runs are numbered from 1 (`0` stands for none, and is the start-up run); there is a clock;
a pipeline has a step; `.gql` files are files, and a file has a version that is neither `"absent"` nor `"plain"`; a write that
clears is not merged and leaves the empty session (a relay has `session: next ?? {}` and `merge: next != null && ...`);
for the types alone, sessions are functions on the keys of the empty one; the mark for no text is neither a text nor a file.
They are stated beside the constants, in `Tooling`, `Runtime` and `ReactRouter`.

*The arguments.*

* `DevInv` says that a compiler's state follows from its server's stage and teardown (`Phases`), that servers start one after the
  other (`Ordered`), that the registered session is that of the last one that finished (`Registered`), and that the teardowns
  under way while a server starts are those it waits for (`Awaited`), which is what keeps two compilers apart.
* `WritesSeen` speaks only of a running orchestrator with no hook out, or of one with a hook out; `DatabaseInv` says what each
  copy holds in between: up to the first hook (`StartSeen`: the file everything, the copy all but what websocket plugins
  inserted, the poll's copy what the file has), and then (`HooksSeen`: the copy everything unless a hook that is out or has
  failed has written).  `OnlySpawned` keeps the rows of the last session out of the file, the copy and the poll.
* `CopyIsTheCookie` speaks of an idle browser.  `SessionInv` says where the copy is on the way there: a browser that has been
  told everything has one message or login out at most (`Lone`), and what that message carries, or what the answer to it will
  set, is in step with the copy (`InStep`), kind by kind.
* `RunsOrdered` needs that a request belongs to a run that still waits for it (`Out`), that a sequential hook has one request out
  and a parallel one one of each plugin (`Alone`), that a run which lacks an answer has failed (`Missing`), and that a run which
  takes the lock begins in its turn (`InTurn`).  A failed run gives the lock back while its parallel requests are out;
  `RunsApart` excepts it, and the proof needs `Out` to know that these are all.
* `Fresh` speaks of a quiet server.  `HotInv` says of every file that a batch to come will bring it up to date (`Due`), or that
  its documents are those of its rows, and these those of the disk (`Loads`), stage by stage of the run that is under way; that a
  file which was deleted and is back is queued after its deletion (`Returned`); and of every complete document that its artifact
  was made of the documents it spreads, or that the run will make it (`Made`).
* `EditorTold` speaks of a quiet language server.  `EditorInv` says what will still speak for each document and each file while it
  is not.  For a document: a pass, a debounce, a save that waits for the lock (`LiveDue`), or the last pass was of its text
  (`Lives`).  For what the document shows of its file: a full run is asked for, or what it shows that no pass found its file has
  (`Above`), and what its file has it shows, unless another file stopped the last full run (`Below`); `RunsOfDisk` and `Noticed`
  carry this through a run that works while the disk changes.  For the rows: tasks wait in the lock in an order, so what counts
  is the last one that writes a file (`IsLast`), and it must write what the disk or the editor has, unless an event is due for
  it (`Rowed`); a task of a close carries the text that the disk had when it was queued, so `Reconciles` has to say that a change
  since is due as well.  `Queue` gives each open pass its one overlay in the lock.  One compiler: it runs, is being closed or is
  being set up (`Life`).  The parts about full runs, rows and compilers hold unless two restarts crossed, which `crossed` records
  (section 6).

*What the proofs corrected.*  Three properties that TLC had found to hold turned out to hold only up to the bounds of their runs:
the attempt to prove them led to a counterexample that needs more events, which TLC then confirmed.  `NavigationShows` failed
when a page was tagged with a destination's variables (`TaggedRight` is now an exception of `NeverBlank`, and listed in section
6); `Fresh` with four saves, when a debounce window keeps the first content of a file (`kept`); `EditorTold` with six events, when
a document is reopened, or opened before its change outside was noticed (`missed`).  In each the code does what the model said,
and the property had left the case out.
In the other direction, `ArgumentsTold` and `LeadsBack` used to except a handle whose reference had moved; the proof did not need
it, and they now hold of those handles too.

*Only model-checked*: `FailedMutationReverted` and the other properties that runs refute; of `Runtime`
`ReferencesKept`, `ListsFollow`, `ReadsTold`, `LinksLead` and `KeptInView`; and `AllTyped` of `Runtime`.  Every invariant of the run `Tooling` is proved.
*Out of the prover's reach*: `SettlesToOneLayer`, `EverySendReturns`, `NavigationEnds`, `RunsEnd` and `Settles`, which are
liveness under fairness; what the recursive walks of `CacheReads` and `RouteMatch` compute.

## 5. What the models leave out of single components

The status and note of each component in `PROJECT.json` are the full list; what a reader of the modules should know:

* `LayeredStorage`, `MutationCache`: serialization (`hydrate`), ids renamed by `registerIDMapping` and `replaceID`.  A link
  field holds one record; lists are in `ListLayers`.
* `QueryStore`: the NoCache policy, partial hits, `@loading` placeholders, `silenceEcho` and `setup`, updates by pagination,
  several stores of one artifact (they share the registry), the collector (that is `CacheMemory`).
* `PipelineContext`: runtime scalars; `DocumentPipeline` has hooks with every answer, but no `throwOnError` of its own.
* `CacheReads`: `@loading` placeholders and component fields; the `cursor` of an edge, whose absence neither makes a result partial
  nor passes a null on (`embeddedCursor`, `cache/index.ts:1336`); and the object that an abstract selection with `@required` fields
  has in place of a null (`abstractHasRequired`, `:1475`).  Contents are those that writes can leave, chosen freely.
* `ListLayers`, `ListRegistry`: edges and page info of connections.
* `CacheMemory`: `copySubscribers` (`OptimisticKeys` has its effect) and `reset`.
* `SvelteStores` is checked with `CacheOrNetwork` only; mutation and subscription stores pass their arguments on.
* `QueryHandle`, `ReactFragments`: renders, commits, replays and effects in every order that React allows; no priorities.
* `PageStream`: one page; a later navigation is `ReactRouter`.
* `PluginHost` takes a plugin as a process that answers, fails, dies or is silent.
* `CompilerDatabase`: SQL is abstracted to rows with a writer; `HotReload`, `LanguageServer`: a document is a version of a file.
* `ServerSession`: tokens are model values that only the server can make; the providers' pages are one answer.

## 6. Disagreements met without a run

Each is a behaviour of the code found while modelling.  The models keep them (as steps noted by a history variable) unless
it is said that they are left out; section 3 says how the properties treat them.

*Pipeline.*  The query plugin keeps `lastVariables` marshaled and puts them under `ctx.variables` as if given, so a send
without variables converts custom scalars twice (`plugins/query.ts:28`, against `documentStore.ts:596`: "only marshal the
changed variables so we don't double marshal"); marshaled inputs keep variables that a plugin removed; a request sent with
`disableSubscriptions` leaves `#lastVariables`, so the next with the same variables is not subscribed.  On an abort no catch
hook runs.  `createPluginHooks` returns at a nested plugin function and drops the rest of its array (`client.ts`).  `pendingPromise` is
never reset.

*Layers and lists.*  A null over a link that reads null is not written, whichever layer that null comes from
(`cache/index.ts:651`).  So when two mutations unlink a record optimistically and the first one's answer takes its null back, the
link shows again though the second is still out; and a query's null over an optimistic one is lost when the mutation is answered
(against the comment at `plugins/mutation.ts:13`).  The model keeps this (`Skipped`); `ImplementsPatchLog` is stated, checked and
proved for patches without it.  When a layer that deleted a record is rolled back, `clearLayer` asks `activeFields`
(`cache/subscription.ts:47`), which takes `Object.keys` of a `Map` and gets none.  Inserting a record that is present, or into
the base layer before a differing refetch, shows it twice; a removal outlives the refetch that confirms it, or is
forgotten when it merges next to a full list; a removal in a lower layer hides an insert above; appended records of one
operation come reversed; a record deleted and inserted again does not reappear.  A delete in the base layer leaves
scalars readable and does not clear `typenames`.  `writeLink` spreads `operations[id]` where it undoes `operations[value]`
(`cache/storage.ts:427`).

*List registry.*  The `when` of an upsert is not resolved (`cache/index.ts:1105`), so `must` never holds and `must_not` always
does; `@parentID` is taken for an id of the type of the first list of that name; a list whose document went makes an
operation without an id ambiguous; a list whose `when` failed counts as processed, so a second operation on its field is
skipped; after `cache.reset` documents register again only when they fetch.

*Reads and memory.*  Lists in lists do not pass on that they are stale or had data; `nullable` of a list stands for its
entries; a deleted record behind a link reads as null and counts as complete.  `addMany` adds once per subscriber
under a link, `remove` walks the writer's selection, `markTypeFieldStale` marks the bare field, `copySubscribers` shares a map.

*Optimistic keys.*  `onIDChange` passes (real, optimistic), so the optimistic record's subscribers are replaced by the
real one's (`plugins/optimisticKeys.ts:142`, `cache/subscription.ts:50`); of several keys in one response the last is tracked; two keys of
one millisecond collide; who depends on a failing mutation waits for ever; a numeric key is never matched; a response
without the key's entry throws.  The documentation says of a key that another mutation references that this one "will block until
the real ID comes back from the server" (`docs/shared/_partials/optimistic-key.mdx:31`).  A key that is itself an item of a list
(`ids: [key]`) is not looked for: `extractInputKeys` and `replaceKeyWithVariable` go only into those items that are objects
(`plugins/optimisticKeys.ts:280`, `:425`), so a mutation that names it only there is sent at once with the invented key, and one
that waits because it names the key elsewhere too keeps it in the list.  A key in an input object is waited for, but sent all the same: it is replaced
in the object that the caller gave, of which `marshalInputs` made a copy at the start (`scalars.ts:77`), and the
copy is made anew only for a variable that is another value than before (`documentStore.ts:596`), which the object is not.  The model
has the three places (`Places`), and `KeysReplaced` says for each what is sent.

*Live subscriptions.*  A send that overtakes one that waits leaves its variables stale; going back to the variables of
the last message counts as unchanged; after a server error the same variables do not reconnect; leaving while a
send waits leaks the listener; React's `useSubscriptionHandle` passes unbound methods.  `pendingCreate` is never null again,
against `subscription.ts:50`.

*Pagination.*  A bidirectional single page pushes `after` of a page that was loaded backward (`pagination.ts:212`); failed or
overlapping calls unsettle the stacks; an offset loaded twice duplicates; `start` never advances; a late older
page reorders the list.  `loadNextPage` adds its parameter `offset`, which may be absent, to the page size, so after it `currentOffset` is NaN and a
refetch counts anew (`getOffset`), which of a single page includes the offset: it asks for that many items more than a page
from the same offset, and what it asked for stays the limit of later pages (`pagination.ts:450`, `:471`, `:528`).

*React data hooks.*  A shared store whose last holder unmounts before its commit shows a dead store; the unit of a component
that suspends again outlives its unmount; a sharer's change affects the other.  An effect that runs again for the record of
`lastReference` ends the cache subscription for good (against `fragment.ts:7`, "fine-reactivity for cache updates"); a null
reference keeps the old record; changed variables of one parent are not read again; writes between a render and its
effects are missed; plural null and `[]` are not told apart; a cleanup unsubscribes twice.  A fragment's refetch observer is
memoized by artifact, so after another reference it shows and pages the old record; its arguments differ from the data
after overlapping or failed calls.

*React router.*  A lagging commit writes `last_vars` with the destination's variables; answers out of order leave old variables in
`data_cache`; `load_query` records `last_variables` before its pending-signal return; an artifact that cannot be imported, and an
`AbortError`, leave the navigation hanging; an answer of an old session still writes the normalized cache.

*Streamed pages.*  The script of a `@loading` query that is answered before the shell flushes is dropped while
`hydrate_page` registers its signal, so `load_query` returns it for ever (the comment in the template, "the client refetches
anything a dropped chunk carried", assumes otherwise); the streamed script's live-cache branch cannot be reached on a first load;
signals of answered queries are not cleared; null data is not primed.

*Routes.*  Pages are listed by id in byte order, in which `_` precedes lower-case letters, so `/users/[id]` shadows the
static `/users/new`; two routes can have one page id (`/a-b` and `/a/b`); a page query's variables leak to the children's
context (`router/manifest.ts:166`); `resolveHref` gives `''` for `/[[lang]]` without a language, does not encode, and leaves the name of
an absent required parameter; `/[lang]/docs/[[version]]/[...path]` with only a path is read back as a version.

*Svelte stores.*  Readers that leave while others stay are never unsubscribed from `#store` (`stores/base.ts:78`); `loadPending` is not
reset when a load fails (`stores/query.ts:178`) and is reset by another request's end; readers that leave and come back
during a fetch leave the store subscribed to the old variables; a store that comes back shows what it showed; a reader
that ends before `setup` continues leaves a listener.  Of a refetchable fragment, `fragmentArgs` is per `get()`.  The cache
plugin's `serverSideFallback` is overwritten in its closure for good.

*Session.*  Overlapping `updateSession` calls lose one; an older answer after a logout puts the session back; the relay is
mirrored when the server refused it, and refused if the session changed in between; a page's form token is stale after an
enhanced change; a second login's transaction replaces the first; with a random key a restart loses sessions.

*Orchestrator and database.*  A `.wasm` plugin on the websocket transport cannot be invoked; `wait_for_plugin_db`'s import has
no catch (`lib/codegen.ts:274`); when one of parallel hooks fails the lock is released while others work; the start-up run takes
no lock.  On sql.js, a nested hook's flush overwrites what the outer plugin wrote, a failed hook skips the
reload so that the next flush wipes partial writes, `pollDb` may lose a row that a plugin inserts, and writes made while a
hook is out are lost at its reload.

*Hot reload and dev servers.*  An event that comes while its batch's rows are out is ignored (`vite/hmr.ts:206`, `:236`); a file saved twice in one
debounce window is queued with what it held first (`vite/hmr.ts:666`), so a document that the second save added can be left out of
the batch's closure (the comment above it, "Keeping the first content/readFn is safe because the debounce window (50ms) is far
longer than the microsecond gap between env calls", thinks of the two environments only); one bad
document leaves the others of its batch stale; a failed extraction leaves old and new rows; a batch of a deletion and an update does
not revalidate dependents of the deleted document; created and deleted in one window fails extraction; a failure
in `AfterExtract` keeps `current_task`; artifacts of removed documents stay.  `register` comes only after `codegen_setup`; a second
`dispose` does not wait for one in progress; servers of one context share `ctx.db`, which the first teardown closes; when
the replacement fails to start the old server is left without a compiler; a failed set-up leaves its connection.

*Language server.*  A document that is closed and opened again counts its versions anew, so a pass that is out from the first
time takes itself for current and publishes for a text that is not there (`overlay.ts:166`).  A file that is changed outside during a
restart and opened before the server is ready is passed over (`lifecycle.ts:124`), so a full run that its old text stopped is not
repeated and holds back the errors of other saved documents.  The reset of a file that is not on the disk runs outside the lock (`overlay.ts:198`); a restart drops
timers and passes, and open buffers are not validated again; a save that waited clears the diagnostics of later edits; a second config
change during the first restart makes two set-ups and leaks a compiler (against "so editor reloads don't leak Go
processes"); closing a bad file clears its squiggles until the next full run; a full run for another file overwrites the
overlays of open buffers.

## 7. Plan

In the order of their weight:

1. *Proofs.*  `ReferencesKept` and `ListsFollow`, whose modules are then instances of `Runtime`.
2. *Composition.*  `QueryStore` over `LayeredStorage` in place of versions, with `MutationCache` as the other writer; `PluginHost`
   under `HotReload` and `LanguageServer`, which now take only its lock.
3. *Operations* that section 5 lists: connections in `ListLayers`, `replaceID`, partial hits and `@loading` in `QueryStore`, several
   stores of one artifact, `reset` in `CacheMemory`, the other policies in `SvelteStores`, a fetch with other variables in `Pagination`.
4. *The plugin side of the transports* (`src/plugins`, Go), against `PluginHost`.

## 8. Not modelled

* *Writable store* (`store.ts`): its re-entrant queue runs to its end within one synchronous `set`; the modules take a `set` and
  its notifications as one step.
* *Runtime helpers*: pure functions over payloads that the models abstract: encoding of requests, scalars, form data, keys.
* *Framework compiler plugins (Go)*, and of the core plugin extraction, validation and generation: batch transformations of syntax trees
  into files, without shared state, covered by table tests in the repository.
* *Compiler plugin library (Go)*: see the plan.
* *CLI, configuration and build steps, adapters, scaffolding and the editor extension*: input and output around the compiler and the
  server, without state of their own.
