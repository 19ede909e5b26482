--------------------------- MODULE LanguageServer ---------------------------
(***************************************************************************)
(* The language server (houdini-lsp/src): live validation of open buffers  *)
(* (overlay.ts), validation from the disk on a save or a change outside    *)
(* (diagnostics.ts), and the life of the compiler under it (lifecycle.ts). *)
(* Runs of the pipeline take turns in the compiler's lock.  Handlers that   *)
(* await state.ready run in the order of their events, before anything     *)
(* else happens once it is resolved.                                       *)
(***************************************************************************)
EXTENDS Naturals, Sequences, FiniteSets, FiniteSetsExt

CONSTANTS
  Files,
  Broken,       \* those that exist to begin with, with an error
  None,
  MaxEvents,    \* bound: what the editor and others do to files
  MaxRestarts,  \* bound: changes of the config file, shutdown
  MaxFaults     \* bound: failed set-ups

VARIABLES
  disk,       \* the text of each file
  buffer,     \* [text, version] of each open document
  timers,     \* live_timers
  passes,     \* the live pass of each file that waits for its overlay, and rerun
  held,       \* handlers that wait for state.ready
  tasks,      \* pipeline_lock: the first one is running
  rows,       \* raw_documents
  live,       \* live_diagnostics
  shown,      \* the diagnostics the editor shows
  piped,      \* pipeline_diagnostic_uris
  watch,      \* the timer of watched files, and watch_restart
  compiler,   \* state.compiler, 0 for null; its schema and database come and go with it
  alive,      \* compilers whose processes run
  teardowns,  \* compilers being closed, 0 where there was none, and whether for good
  setups,     \* compilers being set up
  ready,      \* state.ready is resolved
  missed,     \* documents whose last change a restart took from the server, that show what a
              \* pass found in an earlier opening of theirs, or that were open when the server
              \* passed over a change outside (history)
  ghosts,     \* files closed without a file on the disk, with a pass out (history)
  crossed,    \* a restart or shutdown began during another, or during a set-up (history)
  events, restarts, faults

editor == <<disk, buffer, events>>
lsp == <<timers, passes, held, tasks, rows, live, shown, piped, watch, missed, ghosts>>
life == <<compiler, alive, teardowns, setups, ready, crossed, restarts, faults>>
vars == <<editor, lsp, life>>

\* "bad" breaks a rule of the compiler, "torn" does not parse.
Texts == {"ok", "bad", "torn"}
Fast(t)    == IF t = "torn" THEN {"torn"} ELSE {}   \* validate_block
Overlay(t) == IF t = "bad" THEN {"bad"} ELSE {}     \* run_overlay
Errors(t)  == Fast(t) \cup Overlay(t)

\* A full run stops at the documents that do not parse.
Reported(f) == IF \E g \in Files : rows[g] = "torn" THEN Fast(rows[f]) ELSE Errors(rows[f])

Closed == [text |-> None, version |-> 0]
IsOpen(f) == buffer[f] # Closed
NoPass == [version |-> 0, text |-> None, again |-> FALSE]
Task(kind, f, t) == [kind |-> kind, file |-> f, text |-> t, begun |-> FALSE]

\* The server has started, and run over the project once.
Init ==
  /\ disk = [f \in Files |-> IF f \in Broken THEN "bad" ELSE None]
  /\ buffer = [f \in Files |-> Closed] /\ events = 0
  /\ timers = {} /\ passes = [f \in Files |-> NoPass] /\ held = <<>> /\ tasks = <<>>
  /\ rows = disk
  /\ live = [f \in Files |-> {}] /\ shown = [f \in Files |-> Errors(disk[f])]
  /\ piped = {f \in Files : Errors(disk[f]) # {}}
  /\ watch = [timer |-> FALSE, restart |-> FALSE] /\ missed = {} /\ ghosts = {}
  /\ compiler = 1 /\ alive = {1} /\ teardowns = {} /\ setups = {} /\ ready = TRUE
  /\ crossed = FALSE /\ restarts = 0 /\ faults = 0

-----------------------------------------------------------------------------
(* The editor, and others who write files.                                 *)

\* Nothing else happens between an event and a handler that can run.
Free == ~(ready /\ held # <<>>)
Down == restarts > MaxRestarts
Event == Free /\ ~Down /\ events < MaxEvents /\ events' = events + 1
Hold(kind, f) == held' = Append(held, [kind |-> kind, file |-> f])

\* onDidChangeContent, which a document that opens fires too.
Typed(f, t) ==
  /\ Event
  /\ buffer' = [buffer EXCEPT ![f] = [text |-> t, version |-> @.version + 1]]
  /\ timers' = timers \cup {f}
  /\ UNCHANGED <<disk, passes, held, tasks, rows, live, shown, piped, watch, missed, ghosts, life>>

Open(f) == ~IsOpen(f) /\ Typed(f, IF disk[f] = None THEN "ok" ELSE disk[f])
Edit(f, t) == IsOpen(f) /\ buffer[f].text # t /\ Typed(f, t)

Save(f) ==
  /\ IsOpen(f) /\ Event
  /\ disk' = [disk EXCEPT ![f] = buffer[f].text]
  /\ Hold("save", f)
  /\ UNCHANGED <<buffer, timers, passes, tasks, rows, live, shown, piped, watch, missed, ghosts,
                 life>>

\* onDidClose, up to its await.
Close(f) ==
  /\ IsOpen(f) /\ Event
  /\ buffer' = [buffer EXCEPT ![f] = Closed]
  /\ timers' = timers \ {f}
  /\ live' = [live EXCEPT ![f] = {}] /\ shown' = [shown EXCEPT ![f] = {}]
  /\ Hold("close", f)
  /\ UNCHANGED <<disk, passes, tasks, rows, piped, watch, missed, ghosts, life>>

\* A checkout, a generator.  Changes of open documents reach the server as edits.
ChangeOutside(f, t) ==
  /\ ~IsOpen(f) /\ disk[f] # t /\ Event
  /\ disk' = [disk EXCEPT ![f] = t]
  /\ Hold("watch", f)
  /\ UNCHANGED <<buffer, timers, passes, tasks, rows, live, shown, piped, watch, missed, ghosts,
                 life>>

ChangeConfig ==
  /\ Event /\ restarts < MaxRestarts /\ restarts' = restarts + 1
  /\ Hold("config", None)
  /\ UNCHANGED <<disk, buffer, timers, passes, tasks, rows, live, shown, piped, watch, missed, ghosts,
                 compiler, alive, teardowns, setups, ready, crossed, faults>>

-----------------------------------------------------------------------------
(* Live validation.                                                        *)

\* live_validate_pass, up to the lock.  A torn document is not sent to the compiler.
Pass(f, queue) ==
  LET b == buffer[f]
  IN  IF compiler = 0
      THEN /\ passes' = [passes EXCEPT ![f] = NoPass]
           /\ missed' = missed \cup {f}
           /\ tasks' = queue
           /\ UNCHANGED <<live, shown>>
      ELSE /\ live' = [live EXCEPT ![f] = Fast(b.text)]
           /\ shown' = [shown EXCEPT ![f] = Fast(b.text)]
           /\ missed' = missed \ {f}
           /\ IF b.text = "torn"
              THEN passes' = [passes EXCEPT ![f] = NoPass] /\ tasks' = queue
              ELSE /\ passes' = [passes EXCEPT ![f] = [version |-> b.version, text |-> b.text,
                                                       again |-> FALSE]]
                   /\ tasks' = Append(queue, Task("overlay", f, b.text))

\* The debounced change: state.ready, then live_validate.
LiveTimer(f) ==
  /\ Free /\ f \in timers
  /\ timers' = timers \ {f}
  /\ Hold("live", f)
  /\ UNCHANGED <<editor, passes, tasks, rows, live, shown, piped, watch, missed, ghosts, life>>

LiveValidate(f) ==
  /\ CASE passes[f] # NoPass /\ IsOpen(f) ->
            /\ passes' = [passes EXCEPT ![f].again = TRUE]
            /\ UNCHANGED <<tasks, live, shown, missed>>
       [] passes[f] = NoPass /\ IsOpen(f) -> Pass(f, tasks)
       [] ~IsOpen(f) -> UNCHANGED <<passes, tasks, live, shown, missed>>
  /\ UNCHANGED <<timers, rows, piped, watch, ghosts>>

\* reconcile_from_disk.  Without a file there is no turn in the lock to wait for.
Reconcile(f) ==
  /\ IF disk[f] = None
     THEN /\ rows' = IF compiler = 0 THEN rows ELSE [rows EXCEPT ![f] = None]
          /\ ghosts' = IF passes[f] # NoPass THEN ghosts \cup {f} ELSE ghosts
          /\ UNCHANGED tasks
     ELSE /\ tasks' = IF compiler = 0 THEN tasks
                      ELSE Append(tasks, Task("reconcile", f, disk[f]))
          /\ UNCHANGED <<rows, ghosts>>
  /\ UNCHANGED <<timers, passes, live, shown, piped, watch, missed>>

\* Faulty variant: a pass publishes what it found whatever the buffer says by then.
CurrentAlways(f) == IsOpen(f)

\* The buffer has not moved on while the pipeline ran, by its version; a document that is
\* opened again counts its versions anew.
Current(f) == IsOpen(f) /\ buffer[f].version = passes[f].version

\* The version is that of a document that was closed since (history).
Reopened(f) == buffer[f].version = passes[f].version /\ buffer[f].text # passes[f].text

\* The end of an overlay: its pass publishes, and starts again if it was asked to.
OverlayEnds(f, queue) ==
  IF passes[f].again /\ IsOpen(f)
  THEN Pass(f, queue)
  ELSE /\ passes' = [passes EXCEPT ![f] = NoPass]
       /\ tasks' = queue
       /\ IF Current(f)
          THEN /\ live' = [live EXCEPT ![f] = Overlay(passes[f].text)]
               /\ shown' = [shown EXCEPT ![f] = Overlay(passes[f].text)]
               /\ missed' = IF Reopened(f) THEN missed \cup {f} ELSE missed
          ELSE UNCHANGED <<live, shown, missed>>

-----------------------------------------------------------------------------
(* Validation from the disk.                                               *)

\* validate, up to the lock: the run supersedes what the saved file shows.  A save
\* that had to wait supersedes later changes too, and takes their timer with it.
Validate(f) ==
  /\ IF compiler = 0 THEN missed' = missed \cup ({f} \ {None}) /\ UNCHANGED <<tasks, live, shown>>
     ELSE /\ tasks' = Append(tasks, Task("full", f, None))
          /\ IF f = None THEN UNCHANGED <<live, shown, missed>>
             ELSE /\ live' = [live EXCEPT ![f] = {}] /\ shown' = [shown EXCEPT ![f] = {}]
                  /\ missed' = IF buffer[f].text = disk[f] THEN missed \ {f}
                                ELSE missed \cup {f}
  /\ UNCHANGED <<passes, rows, piped, ghosts>>

\* onDidSave, onDidClose, onDidChangeWatchedFiles and the live timer go on.  A file that
\* was changed outside and opened before its handler could run is passed over.
Handle ==
  LET h == Head(held)
  IN  /\ ready /\ held # <<>>
      /\ held' = Tail(held)
      /\ CASE h.kind = "live"  -> LiveValidate(h.file)
           [] h.kind = "close" -> Reconcile(h.file)
           [] h.kind = "save"  -> Validate(h.file) /\ timers' = timers \ {h.file} /\ UNCHANGED watch
           [] h.kind = "watch" -> /\ IF IsOpen(h.file)
                                     THEN missed' = missed \cup {f \in Files : IsOpen(f)} /\ UNCHANGED watch
                                     ELSE watch' = [watch EXCEPT !.timer = TRUE] /\ UNCHANGED missed
                                  /\ UNCHANGED <<timers, passes, tasks, rows, live, shown, piped,
                                                 ghosts>>
           [] h.kind = "config" -> /\ watch' = [timer |-> TRUE, restart |-> TRUE]
                                   /\ UNCHANGED <<timers, passes, tasks, rows, live, shown, piped,
                                                  missed, ghosts>>
      /\ UNCHANGED <<editor, life>>

\* What is left of the last run's diagnostics once it is cleared.
Uncovered == [f \in Files |-> IF f \in piped THEN live[f] ELSE shown[f]]

\* A task has its turn: the rows of an overlay; or the walk of a run from the disk,
\* where leftover rows go, whichever file they are of.
Begin ==
  LET k == Head(tasks)
  IN  /\ Free /\ tasks # <<>> /\ ~k.begun
      /\ tasks' = [tasks EXCEPT ![1].begun = TRUE]
      /\ IF k.kind = "full"
         THEN rows' = disk /\ shown' = Uncovered /\ piped' = {}
         ELSE rows' = [rows EXCEPT ![k.file] = k.text] /\ UNCHANGED <<shown, piped>>
      /\ UNCHANGED <<editor, timers, passes, held, live, watch, missed, ghosts, life>>

\* The first run of a compiler resolves state.ready.
End ==
  LET k == Head(tasks)
      wrong == {f \in Files : Reported(f) # {}}
  IN  /\ Free /\ tasks # <<>> /\ k.begun
      /\ CASE k.kind = "overlay" -> OverlayEnds(k.file, Tail(tasks)) /\ UNCHANGED piped
           [] k.kind = "reconcile" ->
                tasks' = Tail(tasks) /\ UNCHANGED <<passes, live, shown, piped, missed>>
           [] k.kind = "full" ->
                /\ tasks' = Tail(tasks)
                /\ shown' = [f \in Files |-> IF f \in wrong THEN live[f] \cup Reported(f)
                                             ELSE shown[f]]
                /\ piped' = wrong
                /\ UNCHANGED <<passes, live, missed>>
      /\ ready' = (ready \/ k.kind = "full")
      /\ UNCHANGED <<editor, timers, held, rows, watch, ghosts, compiler, alive, teardowns,
                     setups, crossed, restarts, faults>>

-----------------------------------------------------------------------------
(* The compiler comes and goes.                                            *)

\* teardown, up to its await.  close rejects what is out: the tasks in the lock end,
\* a full run having cleared its diagnostics first.
Teardown(final) ==
  LET out == {f \in Files : passes[f] # NoPass}
      runs == \E i \in DOMAIN tasks : tasks[i].kind = "full"
  IN  /\ timers' = {} /\ passes' = [f \in Files |-> NoPass] /\ tasks' = <<>>
      /\ missed' = missed \cup timers \cup out
      /\ IF runs THEN shown' = Uncovered /\ piped' = {} ELSE UNCHANGED <<shown, piped>>
      /\ compiler' = 0
      /\ teardowns' = teardowns \cup {[of |-> compiler, final |-> final]}
      /\ crossed' = (crossed \/ teardowns # {} \/ setups # {})

\* The timer of the watched files: restart_compiler, or a full run.
WatchTimer ==
  /\ Free /\ watch.timer
  /\ watch' = [timer |-> FALSE, restart |-> FALSE]
  /\ IF watch.restart
     THEN Teardown(FALSE) /\ UNCHANGED <<rows, live, ghosts, alive, setups, ready, restarts, faults>>
     ELSE Validate(None) /\ UNCHANGED <<timers, life>>
  /\ UNCHANGED <<editor, held>>

Shutdown ==
  /\ Free /\ ~Down /\ restarts' = MaxRestarts + 1
  /\ Teardown(TRUE)
  /\ UNCHANGED <<editor, held, rows, live, watch, ghosts, alive, setups, ready, faults>>

\* Faulty variant: the processes of the compiler before are left to themselves.
CloseNothing(t) == alive

CloseCompiler(t) == alive \ {t.of}

\* teardown ends; a restart sets the next compiler up, and state.ready is its promise.
TornDown(t) ==
  LET g == Min((1 .. Cardinality(alive) + 1) \ alive)
  IN  /\ Free /\ t \in teardowns
      /\ teardowns' = teardowns \ {t}
      /\ IF t.final THEN alive' = CloseCompiler(t) /\ UNCHANGED <<setups, ready>>
         ELSE /\ setups' = setups \cup {g} /\ ready' = FALSE
              /\ alive' = CloseCompiler(t) \cup {g}
      /\ UNCHANGED <<editor, lsp, compiler, crossed, restarts, faults>>

\* codegen_setup is over; the first run follows.
SetUp(g) ==
  /\ Free /\ g \in setups
  /\ setups' = setups \ {g}
  /\ compiler' = g
  /\ tasks' = Append(tasks, Task("full", None, None))
  /\ UNCHANGED <<editor, timers, passes, held, rows, live, shown, piped, watch, missed, ghosts,
                 alive, teardowns, ready, crossed, restarts, faults>>

\* It fails, and takes its plugins down.
SetUpFails(g) ==
  /\ Free /\ g \in setups /\ faults < MaxFaults /\ faults' = faults + 1
  /\ setups' = setups \ {g} /\ alive' = alive \ {g}
  /\ ready' = TRUE
  /\ UNCHANGED <<editor, lsp, compiler, teardowns, crossed, restarts>>

Next ==
  \/ \E f \in Files : \/ Open(f) \/ Save(f) \/ Close(f) \/ LiveTimer(f)
                      \/ \E t \in Texts : Edit(f, t)
                      \/ \E t \in Texts \cup {None} : ChangeOutside(f, t)
  \/ ChangeConfig \/ Handle \/ Begin \/ End
  \/ WatchTimer \/ Shutdown
  \/ \E t \in teardowns : TornDown(t)
  \/ \E g \in setups : SetUp(g) \/ SetUpFails(g)

Spec == Init /\ [][Next]_vars

-----------------------------------------------------------------------------
TypeOK ==
  /\ \A f \in Files : /\ disk[f] \in Texts \cup {None} /\ rows[f] \in Texts \cup {None}
                      /\ live[f] \subseteq {"bad", "torn"} /\ shown[f] \subseteq {"bad", "torn"}
                      /\ passes[f].version <= events
  /\ timers \subseteq {f \in Files : IsOpen(f)} /\ piped \subseteq Files
  /\ \A i \in DOMAIN held : held[i].kind \in {"live", "save", "close", "watch", "config"}
  /\ \A i \in DOMAIN tasks : tasks[i].kind \in {"overlay", "reconcile", "full"}
  /\ watch.restart => watch.timer
  /\ compiler \in Nat /\ alive \subseteq Nat \ {0} /\ setups \subseteq alive
  /\ missed \subseteq Files /\ ghosts \subseteq Files

Quiet ==
  /\ ready /\ held = <<>> /\ timers = {} /\ tasks = <<>> /\ ~watch.timer
  /\ teardowns = {} /\ setups = {} /\ compiler # 0 /\ ~crossed

\* At rest, the database has of each file what the disk or its buffer says, and of a
\* closed one what the disk says.  Not of one that was closed without being on the disk
\* while a pass was out: the pass writes its rows after the reset, which took no turn.
RowsFollow ==
  Quiet => \A f \in Files \ ghosts :
    \/ rows[f] = disk[f]
    \/ IsOpen(f) /\ (rows[f] = buffer[f].text \/ buffer[f].text = "torn")

\* At rest, a document in the editor shows its errors, and none but its own or those
\* its file has; unless its last change was taken from the server by a restart, or by
\* an earlier save that waited for one; or a pass that was out when the document was closed
\* took the document that was opened again for its own, by a version of the same number; or
\* a change outside during a restart was passed over, as it may have stopped a full run.
Diagnosed ==
  Quiet => \A f \in Files \ missed : IsOpen(f) =>
    /\ shown[f] \subseteq Errors(buffer[f].text) \cup Errors(disk[f])
    /\ (\A g \in Files : disk[g] # "torn") => Errors(buffer[f].text) \subseteq shown[f]

\* Compilers do not pile up: at most one has its processes up, and it is the one in use,
\* unless the config file changed again, or the editor left, during a restart.
OneAlive ==
  crossed \/ /\ Cardinality(alive) <= 1
             /\ (teardowns = {} /\ setups = {}) => alive = {compiler} \ {0}
=============================================================================
