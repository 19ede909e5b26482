------------------------------- MODULE Tooling -------------------------------
(***************************************************************************)
(* The compiler's host, its database, the development server, the session  *)
(* of the router's server and the language server, composed.  They share   *)
(* no state with one another, so a behaviour moves one of them and leaves  *)
(* the others in an initial state.  DevSession's variables and properties  *)
(* have their own names.                                                   *)
(***************************************************************************)
EXTENDS DevSession, Naturals, Sequences

CONSTANTS
  Plugins, HooksOf, SetupSteps, PipelineSteps, Parallel, Runs,  \* PluginHost
  Files, Gql, Versions, DependsOn, MaxSaves, MaxSchema, \* HotReload
  Empty, Writes, MaxSends, MaxMishaps,                  \* ServerSession
  Broken, NoText, MaxEvents, MaxRestarts,               \* LanguageServer, of Files
  Tables, Calls, MaxWrites,                             \* CompilerDatabase, of Plugins
  MaxFaults                                             \* of each

VARIABLES
  part,  \* the component a behaviour is about; never changes
  \* PluginHost
  hostTransport, hostPhase, hostProcesses, hostConnections, hostRequests,
  hostWorking, hostRuns, hostFaults,
  \* HotReload
  hmrDisk, hmrQueue, hmrPending, hmrBatch, hmrProcessing, hmrCleanup,
  hmrSchema, hmrRun, hmrRows, hmrDocs, hmrArtifacts, hmrMissed, hmrKept,
  hmrOwed, hmrBudget,
  \* ServerSession
  authRemote, authConfigured, authProcess, authConsumed, authJar, authTxn,
  authLogins, authPage, authLocal, authTraffic, authRequests, authMishaps,
  authSettled,
  \* LanguageServer
  lspDisk, lspBuffer, lspTimers, lspPasses, lspHeld, lspTasks, lspRows,
  lspLive, lspShown, lspPiped, lspWatch, lspCompiler, lspAlive, lspTeardowns,
  lspSetups, lspReady, lspMissed, lspGhosts, lspCrossed, lspEvents,
  lspRestarts, lspFaults,
  \* CompilerDatabase
  databasePlatform, databaseTransport, databasePreserve, databaseStamp,
  databaseStage, databaseMemory, databaseFile, databasePlugins, databasePoll,
  databaseCalls, databaseClock, databaseTruth, databaseCrossed

H == INSTANCE PluginHost WITH
       Steps <- PipelineSteps,
       transport <- hostTransport, phase <- hostPhase, processes <-
       hostProcesses, connections <- hostConnections, requests <- hostRequests,
       working <- hostWorking, runs <- hostRuns, faults <- hostFaults

W == INSTANCE HotReload WITH
       disk <- hmrDisk, queue <- hmrQueue, pending <- hmrPending, batch <-
       hmrBatch, processing <- hmrProcessing, cleanup <- hmrCleanup, schema <-
       hmrSchema, run <- hmrRun, rows <- hmrRows, docs <- hmrDocs, artifacts <-
       hmrArtifacts, missed <- hmrMissed, kept <-
       hmrKept, owed <- hmrOwed, budget <- hmrBudget

V == INSTANCE ServerSession WITH
       remote <- authRemote, configured <- authConfigured, process <-
       authProcess, consumed <- authConsumed, jar <- authJar, txn <- authTxn,
       logins <- authLogins, page <- authPage, local <- authLocal, traffic <-
       authTraffic, requests <- authRequests, mishaps <- authMishaps, settled
       <- authSettled

E == INSTANCE LanguageServer WITH
       None <- NoText,
       disk <- lspDisk, buffer <- lspBuffer, timers <- lspTimers, passes <-
       lspPasses, held <- lspHeld, tasks <- lspTasks, rows <- lspRows, live <-
       lspLive, shown <- lspShown, piped <- lspPiped, watch <- lspWatch,
       compiler <- lspCompiler, alive <- lspAlive, teardowns <- lspTeardowns,
       setups <- lspSetups, ready <- lspReady, missed <- lspMissed, ghosts <-
       lspGhosts, crossed <- lspCrossed, events <- lspEvents, restarts <-
       lspRestarts, faults <- lspFaults

C == INSTANCE CompilerDatabase WITH
       Plugins <- H!Names,
       platform <- databasePlatform, transport <- databaseTransport, preserve
       <- databasePreserve, stamp <- databaseStamp, stage <- databaseStage,
       memory <- databaseMemory, file <- databaseFile, plugins <-
       databasePlugins, poll <- databasePoll, calls <- databaseCalls, clock <-
       databaseClock, truth <- databaseTruth, crossed <- databaseCrossed

hostVars == <<
  hostTransport, hostPhase, hostProcesses, hostConnections,
  hostRequests, hostWorking, hostRuns, hostFaults>>
hmrVars == <<
  hmrDisk, hmrQueue, hmrPending, hmrBatch, hmrProcessing, hmrCleanup,
  hmrSchema, hmrRun, hmrRows, hmrDocs, hmrArtifacts, hmrMissed, hmrKept,
  hmrOwed, hmrBudget>>
devVars == vars
authVars == <<
  authRemote, authConfigured, authProcess, authConsumed, authJar,
  authTxn, authLogins, authPage, authLocal, authTraffic, authRequests,
  authMishaps, authSettled>>
lspVars == <<
  lspDisk, lspBuffer, lspTimers, lspPasses, lspHeld, lspTasks, lspRows,
  lspLive, lspShown, lspPiped, lspWatch, lspCompiler, lspAlive,
  lspTeardowns, lspSetups, lspReady, lspMissed, lspGhosts, lspCrossed,
  lspEvents, lspRestarts, lspFaults>>
databaseVars == <<
  databasePlatform, databaseTransport, databasePreserve, databaseStamp,
  databaseStage, databaseMemory, databaseFile, databasePlugins,
  databasePoll, databaseCalls, databaseClock, databaseTruth,
  databaseCrossed>>

ToolingVars == <<part, hostVars, hmrVars, devVars, authVars, lspVars, databaseVars>>

\* A behaviour moves one component; the others stay in an initial state.
ToolingInit ==
  /\ part \in {"plugins", "hmr", "dev", "session", "lsp", "database"}
  /\ H!Init
  /\ part # "plugins" => hostTransport = "stdio"
  /\ W!Init
  /\ Init
  /\ part # "dev" => ~shared
  /\ V!Init
  /\ part # "session" => ~authRemote /\ ~authConfigured
  /\ E!Init
  /\ C!Init
  /\ part # "database" => databasePlatform = "native" /\ databaseTransport = "stdio" /\ databasePreserve /\ databaseStamp = "none"

Others ==
  /\ UNCHANGED part
  /\ part # "plugins" => UNCHANGED hostVars
  /\ part # "hmr" => UNCHANGED hmrVars
  /\ part # "dev" => UNCHANGED devVars
  /\ part # "session" => UNCHANGED authVars
  /\ part # "lsp" => UNCHANGED lspVars
  /\ part # "database" => UNCHANGED databaseVars

PluginHostStep == part = "plugins" /\ H!Next /\ Others
HotReloadStep == part = "hmr" /\ W!Next /\ Others
DevSessionStep == part = "dev" /\ Next /\ Others
ServerSessionStep == part = "session" /\ V!Next /\ Others
LanguageServerStep == part = "lsp" /\ E!Next /\ Others
CompilerDatabaseStep == part = "database" /\ C!Next /\ Others

ToolingNext ==
  \/ PluginHostStep
  \/ HotReloadStep
  \/ DevSessionStep
  \/ ServerSessionStep
  \/ LanguageServerStep
  \/ CompilerDatabaseStep

ToolingSpec == ToolingInit /\ [][ToolingNext]_ToolingVars

\* Answers and time-outs, the lock handed on, timers, and the steps of a run.
ToolingLive ==
  /\ ToolingSpec
  /\ WF_ToolingVars(part = "plugins" /\ H!Step /\ Others)
  /\ WF_ToolingVars(part = "hmr" /\ W!Step /\ Others)

-----------------------------------------------------------------------------
(* What the proofs assume of the constants.                                *)

\* The runs of the proxy are numbered from 1, and a pipeline has at least one step.
HostConstants ==
  /\ Runs \subseteq Nat \ {0} /\ 1 \in Runs /\ MaxFaults \in Nat
  /\ DOMAIN Plugins \subseteq Nat
  /\ SetupSteps \in Seq(SUBSET H!Hooks) \ {<<>>} /\ PipelineSteps \in Seq(SUBSET H!Hooks) \ {<<>>}

\* A .gql file is a file, and what a file may hold is not one of the other contents.
HotConstants ==
  /\ Gql \subseteq Files /\ Versions # {} /\ "absent" \notin Versions /\ "plain" \notin Versions
  /\ DependsOn \in [Files -> SUBSET Files]

\* What is cleared is not merged, and leaves the empty session: a relay has
\* session: next ?? {} and merge: next != null && ... (sessionRelay.ts).
SessionConstants ==
  \A w \in Writes : /\ w.merge \in BOOLEAN /\ w.clear \in BOOLEAN
                    /\ w.clear => ~w.merge /\ w.session = Empty

\* A session has a value for each key of the empty one, which stands for a key that is not there;
\* the bounds are bounds.
WriteConstants ==
  /\ SessionConstants /\ MaxSends \in Nat /\ MaxMishaps \in Nat
  /\ \A s \in {Empty} \cup {w.session : w \in Writes} : s \in [DOMAIN Empty -> V!Values]

\* What stands for no text and no file is neither.
EditorConstants == NoText \notin Files /\ NoText \notin E!Texts

\* There is a clock, and calls are numbered from 1.
DatabaseConstants == MaxWrites \in Nat \ {0} /\ Calls \subseteq Nat \ {0}

ASSUME ToolingAssumption ==
  HostConstants /\ HotConstants /\ SessionConstants /\ WriteConstants /\ EditorConstants /\ DatabaseConstants

-----------------------------------------------------------------------------
\* The component that moves keeps its types: see the TypeOK of each.
AllTyped ==
  /\ part = "plugins" => H!TypeOK
  /\ part = "hmr" => W!TypeOK
  /\ part = "dev" => TypeOK
  /\ part = "session" => V!TypeOK
  /\ part = "lsp" => E!TypeOK
  /\ part = "database" => C!TypeOK

\* The requests of two runs that take the pipeline lock are not out together, a run
\* succeeds only after every plugin answered every hook, and neither a failed start
\* nor a close leaves a plugin process behind (codegen.ts).
RunsOrdered ==
  /\ part = "plugins" => H!RunsApart
  /\ part = "plugins" => H!DoneIsComplete
  /\ part = "plugins" => H!NoneLeftRunning

\* A pipeline run that is submitted ends, through crashes, time-outs and close: the
\* lock is given back and no request waits for ever (codegen.ts).
RunsEnd == H!RunsEnd

\* Once the dev server is quiet, what is loaded is what the files hold, and each
\* artifact was generated from its document and the fragments it spreads, however
\* saves, deletions, schema changes and failing runs interleaved (hmr.ts).
Fresh == part = "hmr" => W!Fresh

\* Processing ends: no save is left behind in a queue, a pending batch or the lock
\* (hmr.ts).
Settles == W!Settles

\* What useSession shows is the session of the cookie, whichever way it was
\* written, once all is answered (router/session.ts, router/server.ts).
CopyIsTheCookie == part = "session" => V!CopyIsTheCookie

\* Once the language server is quiet, the editor shows the errors of the text it
\* shows, and the compiler's rows are of that text, but for what a restart took
\* away; and no compiler is left running that the server has let go of, unless
\* restarts crossed (overlay.ts, diagnostics.ts, lifecycle.ts).
EditorTold ==
  /\ part = "lsp" => E!RowsFollow
  /\ part = "lsp" => E!Diagnosed
  /\ part = "lsp" => E!OneAlive

\* Whether the orchestrator shares one database with its plugins or has a copy of
\* its own, each sees what the other wrote before it, as long as they do not write
\* at the same time; and the plugins it calls are those that it spawned (db.ts,
\* codegen.ts).
WritesSeen == part = "database" => C!WritesSeen
=============================================================================
