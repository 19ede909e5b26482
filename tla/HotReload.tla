----------------------------- MODULE HotReload -----------------------------
(***************************************************************************)
(* Recompiling documents while the development server runs                 *)
(* (houdini/src/vite/hmr.ts): saves are collected for a moment, one batch  *)
(* is compiled at a time under the pipeline lock, and a batch compiles the *)
(* documents it extracted together with those that depend on them.         *)
(***************************************************************************)
EXTENDS Naturals, FiniteSets

CONSTANTS
  Files,      \* source files, each holding at most one document
  Gql,        \* the ones that are .gql files
  Versions,   \* the documents a file may hold
  DependsOn,  \* the fragments the document of a file spreads: a function to sets of files
  MaxSaves,   \* bound: saves and deletions of files
  MaxSchema,  \* bound: changes of the schema
  MaxFaults   \* bound: hooks that fail for a reason of their own

VARIABLES
  disk,       \* what the files hold
  queue,      \* createDebounceHmr: updateQueue, deleteQueue and updateTimer
  pending,    \* pendingBatch
  batch,      \* the batch being processed, before it has the lock
  processing, \* isProcessing
  cleanup,    \* cleanupFiles
  schema,     \* the schema's run, waiting for the lock
  run,        \* the run that holds the lock
  rows,       \* raw_documents: the versions each file has rows of
  docs,       \* documents: the ones that are loaded
  artifacts,  \* what the artifact of each document was generated from
  missed,     \* files whose event was ignored while their rows were out, or whose
              \* extraction failed (history)
  owed,       \* files whose artifact was due in a run that failed (history)
  kept,       \* files whose document a batch left out, by the earlier content that they were
              \* queued with (history)
  budget      \* what is left of the bounds

vars == <<disk, queue, pending, batch, processing, cleanup, schema, run, rows,
          docs, artifacts, owed, missed, kept, budget>>
compiled == <<rows, docs, artifacts>>

\* A .gql file is a document; another file may hold none.
Contents(f) == Versions \cup {"absent"} \cup (IF f \in Gql THEN {} ELSE {"plain"})
Found(c) == {c} \cap Versions

\* Faulty variant: the task leaves out the documents that depend on the extracted ones.
DependentsNone(f) == {}
Dependents(f) == {g \in Files : docs[g] # {} /\ f \in DependsOn[g]}
Dependencies(f) == IF docs[f] # {} THEN DependsOn[f] ELSE {}

\* The recursive queries of the batch: the least set that holds S and what R leads to.
Reach(S, R(_)) ==
  {f \in Files : \A X \in SUBSET Files : S \subseteq X /\ (\A g \in X : R(g) \subseteq X) => f \in X}

Nothing == [f \in {} |-> FALSE]
NoBatch == [files |-> Nothing, deletes |-> {}]
IsEmpty(b) == DOMAIN b.files = {} /\ b.deletes = {}
NoRun == [stage |-> "none", chosen |-> {}, task |-> {}, found |-> Nothing, saved |-> Nothing, all |-> FALSE]

Init ==
  /\ disk = [f \in Files |-> CHOOSE v \in Versions : TRUE]
  /\ queue = [files |-> Nothing, deletes |-> {}, timer |-> FALSE]
  /\ pending = NoBatch /\ batch = NoBatch /\ processing = FALSE
  /\ cleanup = {} /\ schema = FALSE /\ run = NoRun
  /\ rows = [f \in Files |-> Found(disk[f])] /\ docs = rows
  /\ artifacts = [f \in Files |-> [g \in {f} \cup DependsOn[f] |-> docs[g]]]
  /\ owed = {} /\ missed = {} /\ kept = {}
  /\ budget = [saves |-> MaxSaves, schema |-> MaxSchema, faults |-> MaxFaults]

-----------------------------------------------------------------------------
(* The watcher's events.                                                   *)

\* queueUpdate keeps the first content of a file, queueDelete only its path.
Queued(f, marked) ==
  queue' = [queue EXCEPT !.files = [g \in DOMAIN @ \cup {f} |-> IF g \in DOMAIN @ THEN @[g] ELSE marked],
                         !.timer = TRUE]

QueuedDelete(f) == queue' = [queue EXCEPT !.deletes = @ \cup {f}, !.timer = TRUE]

\* hotUpdate.  An event of a file that is not .gql and holds no document is
\* ignored when the database has no rows of it; while a batch is being extracted
\* it has none of the files of the batch.
Ignored(f, c) == f \notin Gql /\ c \notin Versions /\ rows[f] = {}

HotUpdate(f, c) ==
  IF Ignored(f, c)
  THEN /\ missed' = IF f \in run.chosen /\ run.stage = "write" THEN missed \cup {f} ELSE missed
       /\ UNCHANGED <<queue, cleanup>>
  ELSE /\ IF c = "absent" THEN QueuedDelete(f) ELSE Queued(f, c \in Versions)
       /\ cleanup' = IF c = "plain" THEN cleanup \cup {f} ELSE cleanup
       /\ UNCHANGED missed

Save(f, c) ==
  /\ budget.saves > 0 /\ c # disk[f]
  /\ budget' = [budget EXCEPT !.saves = @ - 1]
  /\ disk' = [disk EXCEPT ![f] = c]
  /\ HotUpdate(f, c)
  /\ UNCHANGED <<pending, batch, processing, schema, run, compiled, owed, kept>>

\* refresh_on_schema and watch_local_schema.
ChangeSchema ==
  /\ budget.schema > 0 /\ ~schema
  /\ budget' = [budget EXCEPT !.schema = @ - 1]
  /\ schema' = TRUE
  /\ UNCHANGED <<disk, queue, pending, batch, processing, cleanup, run, compiled, owed, missed, kept>>

-----------------------------------------------------------------------------
(* The debounce.                                                           *)

\* The queued files are read; the content of a .gql file is read only here.
Read(fs) == [f \in {g \in DOMAIN fs : g \notin Gql \/ disk[g] # "absent"} |-> fs[f]]

\* Faulty variant: what was queued meanwhile takes the place of the pending batch.
MergedReplacing(b) == [files |-> queue.files, deletes |-> queue.deletes]

Merged(b) ==
  [files |-> [f \in DOMAIN b.files \cup DOMAIN queue.files |->
                IF f \in DOMAIN queue.files THEN queue.files[f] ELSE b.files[f]],
   deletes |-> b.deletes \cup queue.deletes]

Fire ==
  /\ queue.timer
  /\ queue' = [files |-> Nothing, deletes |-> {}, timer |-> FALSE]
  /\ IF processing
     THEN pending' = Merged(pending) /\ UNCHANGED <<batch, processing>>
     ELSE /\ processing' = TRUE
          /\ batch' = [files |-> Read(queue.files), deletes |-> queue.deletes]
          /\ UNCHANGED pending
  /\ UNCHANGED <<disk, cleanup, schema, run, compiled, owed, missed, kept, budget>>

\* Faulty variant: the end of the loop leaves isProcessing as it is.
NextBatchStuck ==
  IF IsEmpty(pending)
  THEN batch' = NoBatch /\ UNCHANGED <<pending, processing>>
  ELSE /\ batch' = [files |-> Read(pending.files), deletes |-> pending.deletes]
       /\ pending' = NoBatch /\ UNCHANGED processing

\* The loop that follows a batch: the next one, or the end of processing.
NextBatch ==
  IF IsEmpty(pending)
  THEN processing' = FALSE /\ batch' = NoBatch /\ UNCHANGED pending
  ELSE /\ batch' = [files |-> Read(pending.files), deletes |-> pending.deletes]
       /\ pending' = NoBatch /\ UNCHANGED processing

-----------------------------------------------------------------------------
(* A batch.                                                                *)

Free == run = NoRun

\* The run is over; a batch's is followed by the next batch.
Over ==
  /\ run' = NoRun
  /\ IF run.all THEN UNCHANGED <<pending, batch, processing>> ELSE NextBatch

Without(m, fs) == [f \in Files |-> IF f \in fs THEN {} ELSE m[f]]

\* The batch has the lock: its rows go, and extraction begins.  A batch of
\* deletions alone goes through the pipeline as a whole.
BeginBatch ==
  LET chosen == {f \in DOMAIN batch.files : f \in Gql \/ batch.files[f] \/ f \in cleanup}
      left == Without(rows, batch.deletes)
  IN  /\ Free /\ processing
      /\ cleanup' = cleanup \ {f \in DOMAIN batch.files : f \notin Gql /\ ~batch.files[f]}
      /\ kept' = kept \cup {f \in DOMAIN batch.files \ chosen :
                            disk[f] \in Versions /\ left[f] # {disk[f]}}
      /\ rows' = Without(left, chosen)
      /\ docs' = Without(docs, batch.deletes \cup chosen)
      /\ IF chosen = {} /\ batch.deletes = {}
         THEN run' = NoRun /\ NextBatch
         ELSE /\ run' = [NoRun EXCEPT !.stage = IF chosen = {} THEN "validate" ELSE "extract",
                                      !.chosen = chosen,
                                      !.task = IF chosen = {} THEN Files ELSE {},
                                      !.saved = [f \in chosen |-> left[f]]]
              /\ UNCHANGED <<pending, batch, processing>>
      /\ UNCHANGED <<disk, queue, schema, artifacts, owed, missed, budget>>

\* The schema's run starts at Schema and extracts every file.
BeginSchema ==
  /\ Free /\ schema
  /\ schema' = FALSE
  /\ run' = [NoRun EXCEPT !.stage = "extract", !.chosen = Files, !.all = TRUE]
  /\ UNCHANGED <<disk, queue, pending, batch, processing, cleanup, compiled, owed, missed, kept, budget>>

\* The plugin reads the files.
Extract ==
  /\ run.stage = "extract"
  /\ run' = [run EXCEPT !.stage = "write", !.found = [f \in run.chosen |-> disk[f]]]
  /\ missed' = missed \ run.chosen /\ kept' = kept \ run.chosen
  /\ UNCHANGED <<disk, queue, pending, batch, processing, cleanup, schema, compiled, owed, budget>>

\* The rows are written.  A file of a batch that has gone is an error: the old
\* rows come back, beside the new ones of the other files.  A walk of all files
\* does not find it, and removes its rows.
Write ==
  /\ run.stage = "write"
  /\ IF ~run.all /\ \E f \in run.chosen : run.found[f] = "absent"
     THEN /\ rows' = [f \in Files |->
                        IF f \in run.chosen THEN Found(run.found[f]) \cup run.saved[f] ELSE rows[f]]
          /\ missed' = missed \cup run.chosen
          /\ Over
     ELSE /\ rows' = [f \in Files |-> IF f \in run.chosen THEN Found(run.found[f]) ELSE rows[f]]
          /\ IF ~run.all /\ \A f \in run.chosen : Found(run.found[f]) = {} /\ run.saved[f] = {}
             THEN Over
             ELSE /\ run' = [run EXCEPT !.stage = "load"]
                  /\ UNCHANGED <<pending, batch, processing>>
          /\ UNCHANGED missed
  /\ docs' = IF run.all THEN [f \in Files |-> docs[f] \cap rows'[f]] ELSE docs
  /\ UNCHANGED <<disk, queue, cleanup, schema, artifacts, owed, kept, budget>>

\* AfterExtract, and then the task takes in what depends on its documents and
\* what they depend on.
Load ==
  /\ run.stage = "load"
  /\ docs' = [f \in Files |-> IF f \in run.chosen THEN rows[f] ELSE docs[f]]
  /\ run' = [run EXCEPT !.stage = "closure"]
  /\ UNCHANGED <<disk, queue, pending, batch, processing, cleanup, schema, rows, artifacts, owed, missed, kept, budget>>

Closure ==
  LET seed == {f \in run.chosen : docs[f] # {}}
  IN  /\ run.stage = "closure"
      /\ run' = [run EXCEPT !.stage = "validate",
                            !.task = IF run.all THEN Files
                                     ELSE Reach(seed, Dependents) \cup Reach(seed, Dependencies)]
      /\ UNCHANGED <<disk, queue, pending, batch, processing, cleanup, schema, compiled, owed, missed, kept, budget>>

\* A document spreads fragments that exist, and no name is taken twice.
Valid(f) == docs[f] # {} => /\ Cardinality(docs[f]) = 1
                            /\ \A g \in DependsOn[f] : docs[g] # {}

Validate ==
  /\ run.stage = "validate"
  /\ IF \A f \in run.task : Valid(f)
     THEN /\ run' = [run EXCEPT !.stage = "generate"]
          /\ UNCHANGED <<pending, batch, processing, owed>>
     ELSE owed' = owed \cup run.task /\ Over
  /\ UNCHANGED <<disk, queue, cleanup, schema, compiled, missed, kept, budget>>

\* The artifacts of documents that have gone stay on the disk.
Generate ==
  /\ run.stage = "generate"
  /\ artifacts' = [f \in Files |->
                     IF f \in run.task /\ docs[f] # {}
                     THEN [g \in {f} \cup DependsOn[f] |-> docs[g]] ELSE artifacts[f]]
  /\ owed' = owed \ run.task
  /\ Over
  /\ UNCHANGED <<disk, queue, cleanup, schema, rows, docs, missed, kept, budget>>

\* A hook fails: what it has done by then stays.
Fail ==
  /\ budget.faults > 0 /\ run.stage \in {"write", "load", "validate", "generate"}
  /\ budget' = [budget EXCEPT !.faults = @ - 1]
  /\ rows' = IF run.stage = "write"
             THEN [f \in Files |-> IF f \in DOMAIN run.saved THEN run.saved[f] ELSE rows[f]]
             ELSE rows
  /\ missed' = IF run.stage \in {"write", "load"} THEN missed \cup run.chosen ELSE missed
  /\ owed' = owed \cup run.task
  /\ Over
  /\ UNCHANGED <<disk, queue, cleanup, schema, docs, artifacts, kept>>

Step == \/ Fire \/ BeginBatch \/ BeginSchema
        \/ Extract \/ Write \/ Load \/ Closure \/ Validate \/ Generate

Next ==
  \/ \E f \in Files : \E c \in Contents(f) : Save(f, c)
  \/ ChangeSchema
  \/ Step
  \/ Fail

Spec == Init /\ [][Next]_vars

\* Timers fire, the lock is handed on, and a run takes its next step.
Live == Spec /\ WF_vars(Step)

-----------------------------------------------------------------------------
Batches == [files : UNION {[fs -> BOOLEAN] : fs \in SUBSET Files}, deletes : SUBSET Files]

TypeOK ==
  /\ \A f \in Files : /\ disk[f] \in Contents(f)
                      /\ rows[f] \subseteq Versions /\ docs[f] \subseteq Versions
  /\ \A f \in DOMAIN queue.files : f \in Files /\ queue.files[f] \in BOOLEAN
  /\ queue.deletes \subseteq Files /\ queue.timer \in BOOLEAN
  /\ pending \in Batches /\ batch \in Batches
  /\ processing \in BOOLEAN /\ schema \in BOOLEAN /\ cleanup \subseteq Files
  /\ run.stage \in {"none", "extract", "write", "load", "closure", "validate", "generate"}
  /\ run.chosen \subseteq Files /\ run.task \subseteq Files
  /\ missed \subseteq Files /\ kept \subseteq Files /\ owed \subseteq Files

Quiet == ~queue.timer /\ ~processing /\ Free /\ ~schema

\* The project on the disk is one that compiles, as far as f goes.
Sound(f) == disk[f] \in Versions /\ \A g \in DependsOn[f] : disk[g] \in Versions

\* Once the server is quiet, what is loaded is what the files hold, and the artifact of
\* each document that compiles was generated from it and from the fragments it spreads:
\* however saves, deletions, schema changes and failing runs interleaved.  Three cases
\* escape: an event that hotUpdate ignored while a batch had the rows of its file out, or
\* an extraction that failed (missed); a document that a batch left out by an earlier
\* content of its file (kept); and a run that failed before generating (owed).
Fresh ==
  Quiet => \A f \in Files \ (missed \cup kept) :
    /\ docs[f] = Found(disk[f])
    /\ f \notin owed /\ Sound(f) /\ DependsOn[f] \cap (missed \cup kept) = {} =>
         artifacts[f] = [g \in {f} \cup DependsOn[f] |-> Found(disk[g])]

\* Processing ends: no save is left behind in a queue, a pending batch or the lock.
Settles == []<>Quiet
=============================================================================
