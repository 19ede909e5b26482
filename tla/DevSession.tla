----------------------------- MODULE DevSession -----------------------------
(***************************************************************************)
(* The handoff between the development servers of one process              *)
(* (houdini/src/vite/session.ts with the hooks of houdini.ts, hmr.ts and   *)
(* index.ts).  Vite, external here, creates the replacement of a server    *)
(* while the old one is still listening, and closes the old one later, or  *)
(* never; or a program closes a server and starts another.                 *)
(***************************************************************************)
EXTENDS Naturals, FiniteSets

CONSTANT Servers \* 1 .. n, in the order they are created

ASSUME ServersAssumption == Servers \subseteq Nat \ {0}

VARIABLES
  shared,    \* TRUE: the servers share one plugin context, and its database
  servers,   \* how far each server has come
  listening, \* the ones whose http server is open
  active,    \* sessions: the registered session of the database file, 0 for none
  teardown,  \* the dispose of each session: not begun, running or finished
  awaits,    \* the session whose dispose a starting server waits for
  compiler,  \* the compiler each server created
  database,  \* the connection of each context
  hasty      \* servers that were starting while a closed server's teardown ran (history)

vars == <<shared, servers, listening, active, teardown, awaits, compiler, database, hasty>>

None == 0
Context(s) == IF shared THEN 1 ELSE s

Init ==
  /\ shared \in BOOLEAN
  /\ servers = [s \in Servers |-> "none"] /\ listening = {}
  /\ active = None
  /\ teardown = [s \in Servers |-> "none"] /\ compiler = [s \in Servers |-> "none"]
  /\ database = [s \in Servers |-> "none"]
  /\ awaits = [s \in Servers |-> None] /\ hasty = {}

\* A plugin process of the server may be running.
Up(s) == servers[s] = "spawning" \/ compiler[s] \in {"running", "closing"}

-----------------------------------------------------------------------------
(* dispose: at most once for a session; later calls share its promise.     *)

Disposed(s) ==
  /\ teardown' = [teardown EXCEPT ![s] = IF @ = "none" THEN "running" ELSE @]
  /\ compiler' = [compiler EXCEPT ![s] = IF teardown[s] = "none" THEN "closing" ELSE @]

\* dispose_active_session: the caller waits for the dispose it begins, not for
\* one that a closing server has begun.
Handoff(s, phase) ==
  /\ servers' = [servers EXCEPT ![s] = phase]
  /\ awaits' = [awaits EXCEPT ![s] = active]
  /\ active' = None
  /\ IF active = None THEN UNCHANGED <<teardown, compiler>> ELSE Disposed(active)

\* Faulty variant: the new server does not wait for the old one's teardown.
HandedOffAtOnce(s) == TRUE

HandedOff(s) == awaits[s] # None => teardown[awaits[s]] = "done"

\* close has ended: the connection and the processes are gone.
TornDown(s) ==
  /\ teardown[s] = "running"
  /\ teardown' = [teardown EXCEPT ![s] = "done"]
  /\ compiler' = [compiler EXCEPT ![s] = "closed"]
  /\ database' = [database EXCEPT ![Context(s)] = "closed"]
  /\ UNCHANGED <<shared, servers, listening, active, awaits, hasty>>

-----------------------------------------------------------------------------
(* A server starts.                                                        *)

Settled(s) == servers[s] \in {"serving", "failed", "gone"}

\* configResolved.  A context that has a database skips the handoff.
Resolve(s) ==
  /\ servers[s] = "none" /\ \A e \in Servers : e < s => Settled(e)
  /\ IF database[Context(s)] = "none"
     THEN Handoff(s, "resolving")
     ELSE /\ servers' = [servers EXCEPT ![s] = "opened"]
          /\ UNCHANGED <<active, teardown, awaits, compiler>>
  /\ hasty' = IF \E e \in Servers : teardown[e] = "running" THEN hasty \cup {s} ELSE hasty
  /\ UNCHANGED <<shared, listening, database>>

\* init_db.
Open(s) ==
  /\ servers[s] = "resolving" /\ HandedOff(s)
  /\ servers' = [servers EXCEPT ![s] = "opened"]
  /\ database' = [database EXCEPT ![Context(s)] = "open"]
  /\ UNCHANGED <<shared, listening, active, teardown, awaits, compiler, hasty>>

\* configureServer hands off once more, and then spawns the plugins.
Configure(s) ==
  /\ servers[s] = "opened"
  /\ Handoff(s, "configuring")
  /\ UNCHANGED <<shared, listening, database, hasty>>

Spawn(s) ==
  /\ servers[s] = "configuring" /\ HandedOff(s)
  /\ servers' = [servers EXCEPT ![s] = "spawning"]
  /\ UNCHANGED <<shared, listening, active, teardown, awaits, compiler, database, hasty>>

\* register_session, once codegen_setup is over.
Register(s) ==
  /\ servers[s] = "spawning" /\ database[Context(s)] = "open"
  /\ servers' = [servers EXCEPT ![s] = "serving"]
  /\ compiler' = [compiler EXCEPT ![s] = "running"]
  /\ active' = s
  /\ listening' = listening \cup {s}
  /\ UNCHANGED <<shared, teardown, awaits, database, hasty>>

\* codegen_setup fails, and takes its plugins down.
SetupFails(s) ==
  /\ servers[s] = "spawning"
  /\ servers' = [servers EXCEPT ![s] = "failed"]
  /\ UNCHANGED <<shared, listening, active, teardown, awaits, compiler, database, hasty>>

\* Faulty variant: the disposer takes out whatever session is registered.
HttpCloseAny(s) ==
  /\ s \in listening
  /\ listening' = listening \ {s}
  /\ servers' = [servers EXCEPT ![s] = "gone"]
  /\ active' = None
  /\ Disposed(s)
  /\ database' = [database EXCEPT ![Context(s)] = "closed"]
  /\ hasty' = IF teardown[s] = "none"
              THEN hasty \cup {t \in Servers : servers[t] # "none" /\ ~Settled(t)} ELSE hasty
  /\ UNCHANGED <<shared, awaits>>

\* The http server closes: the session's disposer, and close_db.
HttpClose(s) ==
  /\ s \in listening
  /\ listening' = listening \ {s}
  /\ servers' = [servers EXCEPT ![s] = "gone"]
  /\ active' = IF active = s THEN None ELSE active
  /\ Disposed(s)
  /\ database' = [database EXCEPT ![Context(s)] = "closed"]
  /\ hasty' = IF teardown[s] = "none"
              THEN hasty \cup {t \in Servers : servers[t] # "none" /\ ~Settled(t)} ELSE hasty
  /\ UNCHANGED <<shared, awaits>>

Next ==
  \E s \in Servers :
    \/ Resolve(s) \/ Open(s) \/ Configure(s) \/ Spawn(s) \/ Register(s)
    \/ SetupFails(s) \/ HttpClose(s) \/ TornDown(s)

Spec == Init /\ [][Next]_vars

-----------------------------------------------------------------------------
TypeOK ==
  /\ servers \in [Servers -> {"none", "resolving", "opened", "configuring", "spawning",
                              "serving", "failed", "gone"}]
  /\ listening \subseteq Servers /\ hasty \subseteq Servers
  /\ active \in Servers \cup {None}
  /\ teardown \in [Servers -> {"none", "running", "done"}]
  /\ awaits \in [Servers -> Servers \cup {None}]
  /\ compiler \in [Servers -> {"none", "running", "closing", "closed"}]
  /\ database \in [Servers -> {"none", "open", "closed"}]

\* The plugin processes of two servers are never up at once, unless the newer one was
\* starting while a closed server's teardown ran (nobody waits for that one).
NoOverlap == \A s, t \in Servers : s < t /\ Up(s) /\ Up(t) => t \in hasty

\* A running compiler is the registered session's: a handoff finds it, and the late close
\* of an old server does not take the new one's registration away.
Owned == \A s \in Servers : compiler[s] = "running" => active = s

\* A running compiler has its database open, where servers do not share a context.
OwnDatabase ==
  ~shared => \A s \in Servers : compiler[s] = "running" => database[s] = "open"

\* The plugin processes of two dev servers are never up at once, a running compiler is the
\* registered one and its database is open: a handoff neither overlaps nor loses anything.
OneCompiler == NoOverlap /\ Owned /\ OwnDatabase
=============================================================================
