-------------------------- MODULE CompilerDatabase --------------------------
(***************************************************************************)
(* The database that the orchestrator and its plugins share.  Natively it  *)
(* is one file; on the wasm platform the orchestrator works on a copy in   *)
(* its memory, which it writes to the file before a hook (flush) and reads *)
(* from the file after it (reload), and plugins write to the file.         *)
(***************************************************************************)
EXTENDS Naturals, FiniteSets

CONSTANTS
  Plugins, Tables,
  Calls,       \* the hooks that are triggered, 1 .. n
  MaxWrites    \* bound on what is written

VARIABLES
  platform,    \* "native" or "wasm"
  transport,   \* "stdio" or "websocket", how plugins register
  preserve,    \* whether the rows of the last session are to be kept
  stamp,       \* user_version of the file: "none", "old" or "current"
  stage,       \* of the orchestrator
  memory,      \* wasm: the rows of the orchestrator's copy; 0 is no row
  file,        \* the rows of the file
  plugins,     \* "off", "spawned", "inserted", "found" or "ready"
  poll,        \* the rows of a poll's own connection between its reload and its flush
  calls,       \* [status, by, wrote] of each call of trigger_hook
  clock,       \* each write has a number of its own
  truth,       \* what one database would hold
  crossed      \* the orchestrator and a plugin wrote at the same time

vars == <<platform, transport, preserve, stamp, stage, memory, file, plugins, poll, calls, clock, truth, crossed>>
fixed == <<platform, transport, preserve>>

Keys == Tables \cup Plugins
Rows == [Keys -> 0 .. MaxWrites]
NoRows == [k \in Keys |-> 0]
Kept == [k \in Keys |-> 1]      \* the rows of the last session
NoPoll == [of |-> {}, rows |-> NoRows]
NewCall == [status |-> "new", by |-> 0, wrote |-> FALSE]

Init ==
  /\ platform \in {"native", "wasm"} /\ transport \in {"stdio", "websocket"} /\ preserve \in BOOLEAN
  /\ stamp \in {"none", "old", "current"}
  /\ file = (IF stamp = "none" THEN NoRows ELSE Kept)
  /\ stage = "off" /\ memory = NoRows /\ plugins = [p \in Plugins |-> "off"] /\ poll = NoPoll
  /\ calls = [c \in Calls |-> NewCall] /\ clock = 1 /\ truth = file /\ crossed = FALSE

Wasm == platform = "wasm"
Out == {c \in Calls : calls[c].status = "out"}
Written == {c \in Calls : calls[c].status \in {"out", "failed"} /\ calls[c].wrote}
Seen == IF Wasm THEN memory ELSE file            \* what the orchestrator reads

\* flush and reload of a SqlJsDb do what their names say; a NativeDb needs neither.
Flushed(rows) == IF Wasm THEN rows ELSE file
Reloaded(rows) == IF Wasm THEN rows ELSE memory

\* The orchestrator, and a plugin, write rows.
RunWith(rows) ==
  IF Wasm THEN memory' = rows /\ UNCHANGED file ELSE file' = rows /\ UNCHANGED memory
Overlaid(ks) == [k \in Keys |-> IF k \in ks THEN clock + 1 ELSE Seen[k]]
InTruth(ks) == truth' = [k \in Keys |-> IF k \in ks THEN clock + 1 ELSE truth[k]]
Tick == clock < MaxWrites /\ clock' = clock + 1

-----------------------------------------------------------------------------
(* Start-up.                                                               *)

\* init_db and connect_db: a database that is not to be kept, or of another schema, is removed.
Connect ==
  /\ stage = "off" /\ stage' = "connected"
  /\ LET rows == IF preserve /\ stamp = "current" THEN file ELSE NoRows
     IN  file' = rows /\ memory' = Reloaded(rows) /\ truth' = rows
  /\ stamp' = "current"
  /\ UNCHANGED <<fixed, plugins, poll, calls, clock, crossed>>

\* codegen_setup forgets who was registered before it spawns anyone.
\* Faulty variant: it does not.
UnregisteredNone == Seen
Unregistered == [k \in Keys |-> IF k \in Plugins THEN 0 ELSE Seen[k]]
Spawn ==
  /\ stage = "connected" /\ stage' = "spawning"
  /\ file' = Unregistered /\ memory' = Reloaded(Unregistered)
  /\ truth' = [k \in Keys |-> IF k \in Plugins THEN 0 ELSE truth[k]]
  /\ plugins' = [p \in Plugins |-> "spawned"]
  /\ UNCHANGED <<fixed, stamp, poll, calls, clock, crossed>>

\* wait_for_plugin_stdio: the orchestrator inserts the row of a plugin that says register.
RegisterStdio(p) ==
  /\ stage = "spawning" /\ transport = "stdio" /\ plugins[p] = "spawned" /\ Tick
  /\ LET rows == Overlaid({p})
     IN  file' = rows /\ memory' = Reloaded(rows) /\ InTruth({p})
  /\ plugins' = [plugins EXCEPT ![p] = "ready"]
  /\ UNCHANGED <<fixed, stamp, stage, poll, calls, crossed>>

\* A websocket plugin inserts its row itself, and a connection of its own polls for it.
InsertRow(p) ==
  /\ stage = "spawning" /\ transport = "websocket" /\ plugins[p] = "spawned" /\ Tick
  /\ file' = [file EXCEPT ![p] = clock + 1] /\ InTruth({p})
  /\ plugins' = [plugins EXCEPT ![p] = "inserted"]
  /\ crossed' = (crossed \/ (Wasm /\ poll # NoPoll))
  /\ UNCHANGED <<fixed, stamp, stage, memory, poll, calls>>

Poll(p) ==
  /\ stage = "spawning" /\ transport = "websocket" /\ poll = NoPoll
  /\ plugins[p] \in {"spawned", "inserted"} /\ file[p] # 0
  /\ poll' = [of |-> {p}, rows |-> file]
  /\ plugins' = [plugins EXCEPT ![p] = "found"]
  /\ UNCHANGED <<fixed, stamp, stage, memory, file, calls, clock, truth, crossed>>

\* It adds the plugin's config to the row.
PollFlush ==
  /\ poll # NoPoll /\ Tick
  /\ file' = [k \in Keys |-> IF k \in poll.of THEN clock + 1 ELSE Flushed(poll.rows)[k]]
  /\ InTruth(poll.of)
  /\ plugins' = [p \in Plugins |-> IF p \in poll.of THEN "ready" ELSE plugins[p]]
  /\ poll' = NoPoll
  /\ UNCHANGED <<fixed, stamp, stage, memory, calls, crossed>>

\* Everyone is registered: the rows of plugins are read, the config is written for them.
WriteConfig ==
  /\ stage = "spawning" /\ poll = NoPoll /\ Tick /\ \A p \in Plugins : plugins[p] = "ready"
  /\ LET from == IF Wasm THEN file ELSE Seen
         rows == [k \in Keys |-> IF k \in Tables THEN clock + 1 ELSE from[k]]
     IN  file' = rows /\ memory' = Reloaded(rows) /\ InTruth(Tables)
  /\ stage' = "running"
  /\ UNCHANGED <<fixed, stamp, plugins, poll, calls, crossed>>

-----------------------------------------------------------------------------
(* Hooks.                                                                  *)

\* The orchestrator writes between hooks; the batch of a save also while the start-up's
\* pipeline is out, which takes no lock.
Write(t) ==
  /\ stage = "running" /\ Tick
  /\ RunWith(Overlaid({t})) /\ InTruth({t})
  /\ crossed' = (crossed \/ (Wasm /\ Out # {}))
  /\ UNCHANGED <<fixed, stamp, stage, plugins, poll, calls>>

\* trigger_hook, of the orchestrator or for a plugin whose hook asks for it.
\* Faulty variant: it does not flush.
BeforeUnflushed == file
Before == Flushed(memory)
Trigger(c, by) ==
  /\ stage = "running" /\ calls[c].status = "new"
  /\ by = 0 \/ by \in Out
  /\ file' = Before
  /\ calls' = [calls EXCEPT ![c] = [status |-> "out", by |-> by, wrote |-> FALSE]]
  /\ crossed' = (crossed \/ (Wasm /\ Written # {}))
  /\ UNCHANGED <<fixed, stamp, stage, memory, plugins, poll, clock, truth>>

\* A plugin writes while it has the hook.  Of a parallel hook others go on after one failed.
PluginWrites(c, t) ==
  /\ calls[c].status \in {"out", "failed"} /\ Tick
  /\ file' = [file EXCEPT ![t] = clock + 1] /\ InTruth({t})
  /\ calls' = [calls EXCEPT ![c].wrote = TRUE]
  /\ UNCHANGED <<fixed, stamp, stage, memory, plugins, poll, crossed>>

\* All plugins have answered.  Faulty variant: the copy is not read again.
AfterKept == memory
After == Reloaded(file)
Return(c) ==
  /\ calls[c].status = "out" /\ \A d \in Out : calls[d].by # c
  /\ memory' = After
  /\ calls' = [calls EXCEPT ![c].status = "done"]
  /\ UNCHANGED <<fixed, stamp, stage, file, plugins, poll, clock, truth, crossed>>

\* One has failed: reload is left out.
Fail(c) ==
  /\ calls[c].status = "out" /\ \A d \in Out : calls[d].by # c
  /\ calls' = [calls EXCEPT ![c].status = "failed"]
  /\ UNCHANGED <<fixed, stamp, stage, memory, file, plugins, poll, clock, truth, crossed>>

\* batchCallback puts back the rows that a failed extraction would have replaced.
Restore(c, t) ==
  /\ calls[c].status = "failed" /\ calls[c].by = 0 /\ Out = {} /\ Tick
  /\ LET rows == Overlaid({t})
     IN  file' = rows /\ memory' = Reloaded(rows) /\ InTruth({t})
  /\ crossed' = (crossed \/ (Wasm /\ Written # {}))
  /\ UNCHANGED <<fixed, stamp, stage, plugins, poll, calls>>

Next ==
  \/ Connect \/ Spawn \/ PollFlush \/ WriteConfig
  \/ \E p \in Plugins : RegisterStdio(p) \/ InsertRow(p) \/ Poll(p)
  \/ \E t \in Tables : Write(t)
  \/ \E c \in Calls : Return(c) \/ Fail(c) \/ (\E by \in 0 .. c - 1 : Trigger(c, by))
                      \/ \E t \in Tables : PluginWrites(c, t) \/ Restore(c, t)

Spec == Init /\ [][Next]_vars

-----------------------------------------------------------------------------
TypeOK ==
  /\ memory \in Rows /\ file \in Rows /\ truth \in Rows /\ clock \in 1 .. MaxWrites
  /\ poll.of \subseteq Plugins /\ poll.rows \in Rows
  /\ \A c \in Calls : calls[c].status \in {"new", "out", "done", "failed"} /\ calls[c].by \in 0 .. c - 1

\* While nobody has written at the same time as another, plugins see all that was written when
\* they have a hook, and the orchestrator does after the last hook returned; natively everybody
\* does at any time.
AllSeen ==
  /\ ~Wasm => file = truth
  /\ (Wasm /\ ~crossed /\ stage = "running") =>
       /\ Out # {} => file = truth
       /\ (Out = {} /\ Written = {}) => memory = truth

\* The plugins that the orchestrator calls are those it spawned, not those of the last session.
OwnPlugins == \A p \in poll.of : poll.rows[p] > 1

\* Both: what is written is seen, and by those that were spawned (db.ts, codegen.ts).
WritesSeen == AllSeen /\ OwnPlugins
=============================================================================
