----------------------------- MODULE PluginHost -----------------------------
(***************************************************************************)
(* The compiler's orchestrator (houdini/src/lib/codegen.ts): it spawns the *)
(* plugin processes, waits for each to register, and runs pipelines of     *)
(* hooks by sending requests to the plugins.  The plugins are external:    *)
(* they answer, answer with an error, are slow, or die.                    *)
(***************************************************************************)
EXTENDS Naturals, Sequences, SequencesExt

CONSTANTS
  Plugins,     \* the plugins, in the order of the config: a sequence
  HooksOf,     \* for each of them, the hooks it takes part in
  SetupSteps,  \* the hooks codegen_setup runs itself, a sequence of sets of hooks
  Steps,       \* the hooks of run_pipeline after that; a set is run concurrently
  Parallel,    \* the hooks that are parallel_safe
  Runs,        \* pipeline runs: 1 is the one of startup, the others take the lock
  MaxFaults    \* bound: crashes, slow answers and errors

VARIABLES
  transport,   \* pluginTransport: "stdio" or "websocket"; never changes
  phase,       \* of codegen_setup and of the proxy it returns
  processes,   \* the plugin processes
  connections, \* wsConnections: plugins with an open socket
  requests,    \* pendingRequests, and those that wait for a socket
  working,     \* requests that a plugin is working on
  runs,        \* the runs; 0 stands for the hooks of codegen_setup
  faults

vars == <<transport, phase, processes, connections, requests, working, runs, faults>>

Names == Range(Plugins)
AllRuns == Runs \cup {0}
StepsOf(r) == IF r = 0 THEN SetupSteps ELSE Steps
Hooks == UNION (Range(SetupSteps) \cup Range(Steps))

\* trigger_hook goes to the plugins that have the hook, in their order.
Takers(h) == {p \in Names : h \in HooksOf[p]}

\* The one of ps that comes first in that order, if there is one.
First(ps) ==
  {Plugins[i] : i \in {n \in DOMAIN Plugins :
                        Plugins[n] \in ps /\ \A m \in DOMAIN Plugins : m < n => Plugins[m] \notin ps}}

\* Whom _fireHook asks when ps have still to answer: all at once, or one after the other.
Asks(h, ps) == IF h \in Parallel THEN ps ELSE First(ps)

Request == [run : AllRuns, hook : Hooks, plugin : Names, open : BOOLEAN]
RequestOf(r, h, p) == [run |-> r, hook |-> h, plugin |-> p]

\* left: the plugins of each hook of the step that have still to be asked or to
\* answer.  missed: some hook did not get all its answers (history).
Statuses == {"idle", "queued", "running", "done", "failed"}

NewRun == [status |-> "idle", step |-> 0, left |-> [h \in {} |-> {}], missed |-> FALSE]

Init ==
  /\ transport \in {"stdio", "websocket"}
  /\ phase = "spawning"
  /\ processes = [p \in Names |-> "starting"]
  /\ connections = {} /\ requests = {} /\ working = {}
  /\ runs = [r \in AllRuns |-> NewRun] /\ faults = 0

Alive(p) == processes[p] \in {"starting", "registered"}
Settled(r) == runs[r].status \in {"done", "failed"}

-----------------------------------------------------------------------------
(* Asking plugins.                                                         *)

\* invoke_hook.  A websocket that is not open is opened first; there is no
\* pending request, and no timeout, until it is.
Asked(r, h, p) ==
  [run |-> r, hook |-> h, plugin |-> p, open |-> transport = "stdio" \/ p \in connections]

\* The first requests of the hooks of a step.
Opening(r, hs) ==
  UNION {{Asked(r, h, p) : p \in Asks(h, Takers(h))} : h \in hs}

Sent(qs) == {RequestOf(q.run, q.hook, q.plugin) : q \in {x \in qs : x.open /\ Alive(x.plugin)}}

Closing == phase \in {"closing", "closed"}

\* Faulty variant: the step is counted before it is entered and again in it.
EnterTwice(r, k) ==
  /\ runs' = [runs EXCEPT ![r].status = "running", ![r].step = k + 1,
                          ![r].left = [h \in StepsOf(r)[k] |-> Takers(h)]]
  /\ requests' = requests \cup Opening(r, StepsOf(r)[k])
  /\ working' = working \cup Sent(Opening(r, StepsOf(r)[k]))

\* Run r comes to its k-th step.  close has taken the stdio channels away, so a
\* plugin asked after it is an error at once; a websocket is opened again.
Enter(r, k) ==
  LET qs == Opening(r, StepsOf(r)[k])
  IN  IF qs # {} /\ transport = "stdio" /\ Closing
      THEN /\ runs' = [runs EXCEPT ![r].status = "failed", ![r].missed = TRUE]
           /\ UNCHANGED <<requests, working>>
      ELSE /\ runs' = [runs EXCEPT ![r].status = "running", ![r].step = k,
                                   ![r].left = [h \in StepsOf(r)[k] |-> Takers(h)]]
           /\ requests' = requests \cup qs
           /\ working' = working \cup Sent(qs)

Start(r) == Enter(r, 1)

\* The step of run r is over: the next one, or the end.
Advance(r) ==
  /\ runs[r].status = "running"
  /\ \A h \in DOMAIN runs[r].left : runs[r].left[h] = {}
  /\ IF runs[r].step < Len(StepsOf(r))
     THEN Enter(r, runs[r].step + 1)
     ELSE /\ runs' = [runs EXCEPT ![r].status = "done"]
          /\ UNCHANGED <<requests, working>>
  /\ UNCHANGED <<transport, phase, processes, connections, faults>>

\* run_pipeline at startup does not take the lock.
Startup ==
  /\ phase = "ready" /\ runs[1].status = "idle"
  /\ Start(1)
  /\ UNCHANGED <<transport, phase, processes, connections, faults>>

\* pipeline_lock: a run begins when the ones submitted before it have settled.
Submit(r) ==
  /\ phase = "ready" /\ r \in Runs \ {1} /\ runs[r].status = "idle"
  /\ \A s \in Runs \ {1} : s < r => runs[s].status # "idle"
  /\ runs' = [runs EXCEPT ![r].status = "queued"]
  /\ UNCHANGED <<transport, phase, processes, connections, requests, working, faults>>

\* Faulty variants: a run does not wait; a run waits for the ones before it to succeed.
TurnAtOnce(r) == TRUE
TurnAfterSuccess(r) == \A s \in Runs \ {1} : s < r => runs[s].status = "done"

Turn(r) == \A s \in Runs \ {1} : s < r => Settled(s)

Begin(r) ==
  /\ r \in Runs \ {1} /\ runs[r].status = "queued" /\ Turn(r)
  /\ Start(r)
  /\ UNCHANGED <<transport, phase, processes, connections, faults>>

-----------------------------------------------------------------------------
(* Answers.                                                                *)

\* A hook that is not parallel asks its plugins one after the other, and goes on
\* with that even when another hook of the step has failed the run.
Answered(q) ==
  LET left == runs[q.run].left[q.hook] \ {q.plugin}
      more == IF q.hook \in Parallel THEN {}
              ELSE {Asked(q.run, q.hook, p) : p \in First(left)}
  IN  /\ runs' = [runs EXCEPT ![q.run].left[q.hook] = left]
      /\ requests' = (requests \ {q}) \cup more
      /\ working' = (working \ {RequestOf(q.run, q.hook, q.plugin)}) \cup Sent(more)

\* A promise is rejected: the hook and its run are over, whatever else is out.
Rejected(qs, rs) ==
  [r \in AllRuns |->
     IF \E q \in qs : q.run = r
     THEN [rs[r] EXCEPT !.status = IF @ = "running" THEN "failed" ELSE @, !.missed = TRUE]
     ELSE rs[r]]

Answer(q) ==
  /\ q.open /\ RequestOf(q.run, q.hook, q.plugin) \in working
  /\ Answered(q)
  /\ UNCHANGED <<transport, phase, processes, connections, faults>>

Fault == faults < MaxFaults /\ faults' = faults + 1

ErrorAnswer(q) ==
  /\ Fault
  /\ q.open /\ RequestOf(q.run, q.hook, q.plugin) \in working
  /\ runs' = Rejected({q}, runs)
  /\ requests' = requests \ {q}
  /\ working' = working \ {RequestOf(q.run, q.hook, q.plugin)}
  /\ UNCHANGED <<transport, phase, processes, connections>>

\* Thirty seconds.  What the plugin sends later finds no pending request.
Timeout(q) ==
  /\ q.open
  /\ IF RequestOf(q.run, q.hook, q.plugin) \in working THEN Fault ELSE UNCHANGED faults
  /\ runs' = Rejected({q}, runs)
  /\ requests' = requests \ {q}
  /\ UNCHANGED <<transport, phase, processes, connections, working>>

Late(w) ==
  /\ ~\E q \in requests : RequestOf(q.run, q.hook, q.plugin) = w
  /\ working' = working \ {w}
  /\ UNCHANGED <<transport, phase, processes, connections, requests, runs, faults>>

\* getOrCreateWS.
Connect(q) ==
  /\ ~q.open
  /\ IF Alive(q.plugin)
     THEN /\ connections' = connections \cup {q.plugin}
          /\ requests' = (requests \ {q}) \cup {[q EXCEPT !.open = TRUE]}
          /\ working' = working \cup {RequestOf(q.run, q.hook, q.plugin)}
          /\ UNCHANGED runs
     ELSE /\ connections' = connections \ {q.plugin}
          /\ requests' = requests \ {q}
          /\ runs' = Rejected({q}, runs)
          /\ UNCHANGED working
  /\ UNCHANGED <<transport, phase, processes, faults>>

\* A process dies.  The end of its stdout rejects its requests; a socket that
\* closes leaves them to their timeouts.
Crash(p) ==
  LET mine == {q \in requests : q.plugin = p}
  IN  /\ Fault /\ processes[p] = "registered" /\ phase # "closed"
      /\ processes' = [processes EXCEPT ![p] = "dead"]
      /\ connections' = connections \ {p}
      /\ working' = {w \in working : w.plugin # p}
      /\ IF transport = "stdio"
         THEN requests' = requests \ mine /\ runs' = Rejected(mine, runs)
         ELSE UNCHANGED <<requests, runs>>
      /\ UNCHANGED <<transport, phase>>

-----------------------------------------------------------------------------
(* codegen_setup and close.                                                *)

Register(p) ==
  /\ phase = "spawning" /\ processes[p] = "starting"
  /\ processes' = [processes EXCEPT ![p] = "registered"]
  /\ UNCHANGED <<transport, phase, connections, requests, working, runs, faults>>

\* kill_spawned.
Signalled == [p \in Names |-> IF Alive(p) THEN "signalled" ELSE processes[p]]

\* A plugin does not register in ten seconds, or its stdout ends before that.
SetupFails ==
  /\ Fault
  /\ phase = "spawning" /\ \E p \in Names : processes[p] = "starting"
  /\ phase' = "failed"
  /\ processes' = Signalled
  /\ UNCHANGED <<transport, connections, requests, working, runs>>

\* Every plugin has registered: the Config, AfterLoad and Schema hooks.
Configure ==
  /\ phase = "spawning" /\ \A p \in Names : processes[p] \in {"registered", "dead"}
  /\ phase' = "configuring"
  /\ Start(0)
  /\ UNCHANGED <<transport, processes, connections, faults>>

Configured ==
  /\ phase = "configuring" /\ Settled(0)
  /\ IF runs[0].status = "done"
     THEN phase' = "ready" /\ UNCHANGED processes
     ELSE phase' = "failed" /\ processes' = Signalled
  /\ UNCHANGED <<transport, connections, requests, working, runs, faults>>

\* close, up to its pause: every pending request is rejected.
Close ==
  LET pending == {q \in requests : q.open}
  IN  /\ phase = "ready"
      /\ phase' = "closing"
      /\ connections' = {}
      /\ requests' = requests \ pending
      /\ runs' = Rejected(pending, runs)
      /\ UNCHANGED <<transport, processes, working, faults>>

\* And after it: the processes that are still there get a signal.
Closed ==
  /\ phase = "closing"
  /\ phase' = "closed"
  /\ processes' = Signalled
  /\ working' = {}
  /\ UNCHANGED <<transport, connections, requests, runs, faults>>

Step ==
  \/ \E q \in requests : Answer(q) \/ Timeout(q) \/ Connect(q)
  \/ \E r \in AllRuns : Advance(r) \/ Begin(r)

Next ==
  \/ Step
  \/ \E q \in requests : ErrorAnswer(q)
  \/ \E w \in working : Late(w)
  \/ \E p \in Names : Crash(p) \/ Register(p)
  \/ SetupFails \/ Configure \/ Configured \/ Startup \/ Close \/ Closed
  \/ \E r \in Runs : Submit(r)

Spec == Init /\ [][Next]_vars

-----------------------------------------------------------------------------
TypeOK ==
  /\ transport \in {"stdio", "websocket"}
  /\ phase \in {"spawning", "configuring", "ready", "closing", "closed", "failed"}
  /\ processes \in [Names -> {"starting", "registered", "dead", "signalled"}]
  /\ connections \subseteq Names /\ requests \subseteq Request
  /\ working \subseteq {RequestOf(r, h, p) : r \in AllRuns, h \in Hooks, p \in Names}
  /\ \A r \in AllRuns :
       /\ runs[r].status \in Statuses /\ runs[r].step \in 0 .. Len(StepsOf(r)) /\ runs[r].missed \in BOOLEAN
       /\ \A h \in DOMAIN runs[r].left : h \in Hooks /\ runs[r].left[h] \subseteq Takers(h)
  /\ faults \in 0 .. MaxFaults

Locked == Runs \ {1}

\* The requests of two runs that take the lock are never out together, but for those a
\* parallel hook of the earlier run left behind when it failed: a batch of saves and a
\* change of the schema do not write the database at the same time.
RunsApart ==
  \A q, w \in requests :
    (q.run \in Locked /\ w.run \in Locked /\ q.run < w.run) => runs[q.run].status = "failed"

\* A run that succeeds has had the answer of every plugin to every hook.
DoneIsComplete ==
  \A r \in AllRuns :
    runs[r].status = "done" => /\ ~runs[r].missed
                               /\ \A q \in requests : q.run # r

\* Neither a failed start nor a close leaves a plugin process behind.
NoneLeftRunning ==
  phase \in {"failed", "closed"} => \A p \in Names : ~Alive(p)

\* Plugins answer or time out, sockets open or fail, runs go on.
Live == Spec /\ WF_vars(Step)

Underway(r) == runs[r].status \in {"queued", "running"}

\* A run that is submitted ends, through crashes, time-outs and close: the lock is given
\* back, and no request waits for ever.
RunsEnd == \A r \in AllRuns : Underway(r) ~> ~Underway(r)
=============================================================================
