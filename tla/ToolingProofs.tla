---------------------------- MODULE ToolingProofs ----------------------------
(***************************************************************************)
(* The handoff between development servers, the orchestrator, its          *)
(* database, hot reloading and the session of the router's server keep     *)
(* what they promise in Tooling, for any values of their constants.        *)
(***************************************************************************)
EXTENDS Tooling, TLAPS

(***************************************************************************)
(* The handoff keeps the compilers apart, for any number of servers, in    *)
(* one context or in several.                                              *)
(***************************************************************************)

Started == {"serving", "gone"}

\* What has become of a server's compiler follows from how far it and its teardown have come.
Compiler(s) ==
  IF servers[s] \notin Started THEN "none"
  ELSE IF teardown[s] = "none" THEN "running"
  ELSE IF teardown[s] = "running" THEN "closing" ELSE "closed"

Phases ==
  \A s \in Servers : /\ compiler[s] = Compiler(s)
                     /\ servers[s] \notin Started => teardown[s] = "none"

\* One server starts at a time.
Ordered == \A s, e \in Servers : e < s /\ servers[s] # "none" => Settled(e)

\* The registered session is that of a server that serves, and none is while another starts its
\* plugins.
Registered ==
  /\ active # None => servers[active] = "serving"
  /\ \A s \in listening : servers[s] = "serving"
  /\ \A s \in Servers : servers[s] \in {"configuring", "spawning"} => active = None

\* The teardowns that are under way while a server starts are its own to wait for.
Awaited ==
  \A s, e \in Servers : s \notin hasty /\ teardown[e] = "running" =>
    /\ servers[s] \notin {"opened", "spawning"}
    /\ servers[s] \in {"resolving", "configuring"} => awaits[s] = e

DevInv ==
  /\ TypeOK /\ Phases /\ Ordered /\ Registered /\ Awaited
  /\ NoOverlap /\ Owned /\ OwnDatabase

-----------------------------------------------------------------------------
(* What a dispose and a handoff do.                                        *)

\* A dispose leaves the session's compiler closing or closed, and touches no other.
LEMMA DisposedShape ==
  ASSUME DevInv, NEW x \in Servers, servers[x] = "serving", Disposed(x)
  PROVE  /\ teardown' \in [Servers -> {"none", "running", "done"}]
         /\ compiler' \in [Servers -> {"none", "running", "closing", "closed"}]
         /\ teardown'[x] # "none" /\ compiler'[x] \in {"closing", "closed"}
         /\ compiler'[x] = IF teardown'[x] = "running" THEN "closing" ELSE "closed"
         /\ teardown[x] # "none" => teardown'[x] = teardown[x]
         /\ \A e \in Servers \ {x} : teardown'[e] = teardown[e] /\ compiler'[e] = compiler[e]
BY DEF DevInv, TypeOK, Phases, Compiler, Started, Disposed

\* A handoff leaves no compiler running, and nothing to tear down but what was and what the
\* server waits for.
LEMMA HandoffShape ==
  ASSUME DevInv, NEW s \in Servers, NEW phase \in {"resolving", "configuring"},
         servers[s] \in {"none", "opened"}, Handoff(s, phase)
  PROVE  /\ servers' = [servers EXCEPT ![s] = phase]
         /\ active' = None
         /\ awaits' = [awaits EXCEPT ![s] = active]
         /\ teardown' \in [Servers -> {"none", "running", "done"}]
         /\ compiler' \in [Servers -> {"none", "running", "closing", "closed"}]
         /\ \A e \in Servers :
              /\ compiler'[e] # "running"
              /\ compiler'[e] = "closing" => compiler[e] \in {"running", "closing"}
              /\ teardown'[e] = "running" => teardown[e] = "running" \/ e = active
              /\ compiler'[e] = Compiler(e)'
              /\ servers'[e] \notin Started => teardown'[e] = "none"
<1>1. CASE active = None
  BY <1>1, ServersAssumption DEF DevInv, TypeOK, Phases, Compiler, Started, Owned, Handoff, None
<1>2. CASE active # None
  <2>1. active \in Servers /\ servers[active] = "serving" /\ Disposed(active) /\ active # s
    BY <1>2 DEF DevInv, TypeOK, Registered, Handoff
  <2>2. /\ teardown' \in [Servers -> {"none", "running", "done"}]
        /\ compiler' \in [Servers -> {"none", "running", "closing", "closed"}]
        /\ teardown'[active] # "none" /\ compiler'[active] \in {"closing", "closed"}
        /\ compiler'[active] = IF teardown'[active] = "running" THEN "closing" ELSE "closed"
        /\ teardown[active] # "none" => teardown'[active] = teardown[active]
        /\ \A e \in Servers \ {active} : teardown'[e] = teardown[e] /\ compiler'[e] = compiler[e]
    BY <2>1, DisposedShape
  <2>3. servers' = [servers EXCEPT ![s] = phase] /\ active' = None
        /\ awaits' = [awaits EXCEPT ![s] = active]
    BY DEF Handoff
  <2>4. compiler[active] \in {"running", "closing", "closed"}
    BY <2>1 DEF DevInv, Phases, Compiler, Started
  <2>5. teardown[active] = "done" => compiler'[active] = "closed"
    BY <2>2, <2>1 DEF DevInv, TypeOK
  <2>6. compiler'[active] = "closing" => compiler[active] \in {"running", "closing"}
    BY <2>1, <2>2, <2>4, <2>5 DEF DevInv, TypeOK, Phases, Compiler, Started
  <2> QED
    BY <2>1, <2>2, <2>3, <2>6 DEF DevInv, TypeOK, Phases, Compiler, Started, Owned
<1> QED  BY <1>1, <1>2

-----------------------------------------------------------------------------
(* Each step keeps the invariant.                                          *)

LEMMA ResolveKeeps ==
  ASSUME DevInv, NEW s \in Servers, Resolve(s)
  PROVE  DevInv'
<1>0. /\ UNCHANGED <<shared, listening, database>>
      /\ servers[s] = "none"
      /\ \A e \in Servers : e < s => Settled(e)
      /\ hasty \subseteq hasty' /\ hasty' \subseteq hasty \cup {s}
      /\ s \notin hasty' => \A e \in Servers : teardown[e] # "running"
  BY DEF Resolve
<1>1. CASE Handoff(s, "resolving")
  <2>1. /\ servers' = [servers EXCEPT ![s] = "resolving"]
        /\ active' = None
        /\ awaits' = [awaits EXCEPT ![s] = active]
        /\ teardown' \in [Servers -> {"none", "running", "done"}]
        /\ compiler' \in [Servers -> {"none", "running", "closing", "closed"}]
        /\ \A e \in Servers :
              /\ compiler'[e] # "running"
              /\ compiler'[e] = "closing" => compiler[e] \in {"running", "closing"}
              /\ teardown'[e] = "running" => teardown[e] = "running" \/ e = active
              /\ compiler'[e] = Compiler(e)'
              /\ servers'[e] \notin Started => teardown'[e] = "none"
    BY <1>0, <1>1, HandoffShape
  <2>2. TypeOK'
    BY <1>0, <2>1 DEF DevInv, TypeOK
  <2>3. Phases' /\ Owned' /\ OwnDatabase'
    BY <2>1 DEF Phases, Owned, OwnDatabase
  <2>4. Ordered'
    BY <1>0, <2>1 DEF DevInv, TypeOK, Ordered, Settled
  <2>5. Registered'
    BY <1>0, <2>1 DEF DevInv, TypeOK, Registered
  <2>6. Awaited'
    <3> SUFFICES ASSUME NEW t \in Servers, NEW e \in Servers,
                        t \notin hasty', teardown'[e] = "running"
                 PROVE  /\ servers'[t] \notin {"opened", "spawning"}
                        /\ servers'[t] \in {"resolving", "configuring"} => awaits'[t] = e
      BY DEF Awaited
    <3>1. CASE t = s
      BY <1>0, <2>1, <3>1 DEF DevInv, TypeOK
    <3>2. CASE t # s
      <4>1. t < s \/ s < t
        BY <3>2, ServersAssumption
      <4>2. Settled(t) \/ servers[t] = "none"
        BY <1>0, <4>1 DEF DevInv, Ordered, Settled
      <4> QED  BY <2>1, <3>2, <4>2 DEF DevInv, TypeOK, Settled
    <3> QED  BY <3>1, <3>2
  <2>7. NoOverlap'
    BY <1>0, <2>1 DEF DevInv, TypeOK, NoOverlap, Up
  <2> QED  BY <2>2, <2>3, <2>4, <2>5, <2>6, <2>7 DEF DevInv
<1>2. CASE /\ servers' = [servers EXCEPT ![s] = "opened"]
           /\ UNCHANGED <<active, teardown, awaits, compiler>>
  <2>1. TypeOK' /\ Registered' /\ Owned' /\ OwnDatabase'
    BY <1>0, <1>2 DEF DevInv, TypeOK, Registered, Owned, OwnDatabase
  <2>2. Phases'
    BY <1>0, <1>2 DEF DevInv, TypeOK, Phases, Compiler, Started
  <2>3. Ordered'
    BY <1>0, <1>2 DEF DevInv, TypeOK, Ordered, Settled
  <2>4. Awaited'
    BY <1>0, <1>2 DEF DevInv, TypeOK, Awaited
  <2>5. NoOverlap'
    BY <1>0, <1>2 DEF DevInv, TypeOK, NoOverlap, Up
  <2> QED  BY <2>1, <2>2, <2>3, <2>4, <2>5 DEF DevInv
<1> QED  BY <1>1, <1>2 DEF Resolve

LEMMA ConfigureKeeps ==
  ASSUME DevInv, NEW s \in Servers, Configure(s)
  PROVE  DevInv'
<1>0. UNCHANGED <<shared, listening, database, hasty>> /\ servers[s] = "opened"
  BY DEF Configure
<1>1. /\ servers' = [servers EXCEPT ![s] = "configuring"]
      /\ active' = None
      /\ awaits' = [awaits EXCEPT ![s] = active]
      /\ teardown' \in [Servers -> {"none", "running", "done"}]
      /\ compiler' \in [Servers -> {"none", "running", "closing", "closed"}]
      /\ \A e \in Servers :
            /\ compiler'[e] # "running"
            /\ compiler'[e] = "closing" => compiler[e] \in {"running", "closing"}
            /\ teardown'[e] = "running" => teardown[e] = "running" \/ e = active
            /\ compiler'[e] = Compiler(e)'
            /\ servers'[e] \notin Started => teardown'[e] = "none"
  BY <1>0, HandoffShape DEF Configure
<1>2. TypeOK'
  BY <1>0, <1>1 DEF DevInv, TypeOK
<1>3. Phases' /\ Owned' /\ OwnDatabase'
  BY <1>1 DEF Phases, Owned, OwnDatabase
<1>4. Ordered'
  BY <1>0, <1>1 DEF DevInv, TypeOK, Ordered, Settled
<1>5. Registered'
  BY <1>0, <1>1 DEF DevInv, TypeOK, Registered
<1>6. Awaited'
  <2> SUFFICES ASSUME NEW t \in Servers, NEW e \in Servers,
                      t \notin hasty, teardown'[e] = "running"
               PROVE  /\ servers'[t] \notin {"opened", "spawning"}
                      /\ servers'[t] \in {"resolving", "configuring"} => awaits'[t] = e
    BY <1>0 DEF Awaited
  <2>1. CASE t = s
    <3>1. teardown[e] # "running"
      BY <1>0, <2>1 DEF DevInv, Awaited
    <3> QED  BY <1>1, <2>1, <3>1 DEF DevInv, TypeOK
  <2>2. CASE t # s
    <3>1. t < s \/ s < t
      BY <2>2, ServersAssumption
    <3>2. Settled(t) \/ servers[t] = "none"
      BY <1>0, <3>1 DEF DevInv, Ordered, Settled
    <3> QED  BY <1>1, <2>2, <3>2 DEF DevInv, TypeOK, Settled
  <2> QED  BY <2>1, <2>2
<1>7. NoOverlap'
  BY <1>0, <1>1 DEF DevInv, TypeOK, NoOverlap, Up
<1> QED  BY <1>2, <1>3, <1>4, <1>5, <1>6, <1>7 DEF DevInv

LEMMA OpenKeeps ==
  ASSUME DevInv, NEW s \in Servers, Open(s)
  PROVE  DevInv'
<1>1. /\ servers[s] = "resolving" /\ HandedOff(s)
      /\ servers' = [servers EXCEPT ![s] = "opened"]
      /\ database' = [database EXCEPT ![Context(s)] = "open"]
      /\ UNCHANGED <<shared, listening, active, teardown, awaits, compiler, hasty>>
  BY DEF Open
<1>2. TypeOK' /\ Registered'
  BY <1>1 DEF DevInv, TypeOK, Registered
<1>3. Owned' /\ OwnDatabase'
  BY <1>1 DEF DevInv, TypeOK, Owned, OwnDatabase
<1>4. Phases'
  BY <1>1 DEF DevInv, TypeOK, Phases, Compiler, Started
<1>5. Ordered'
  BY <1>1 DEF DevInv, TypeOK, Ordered, Settled
<1>6. Awaited'
  BY <1>1, ServersAssumption DEF DevInv, TypeOK, Awaited, HandedOff, None
<1>7. NoOverlap'
  BY <1>1 DEF DevInv, TypeOK, NoOverlap, Up
<1> QED  BY <1>2, <1>3, <1>4, <1>5, <1>6, <1>7 DEF DevInv

LEMMA SpawnKeeps ==
  ASSUME DevInv, NEW s \in Servers, Spawn(s)
  PROVE  DevInv'
<1>1. /\ servers[s] = "configuring" /\ HandedOff(s)
      /\ servers' = [servers EXCEPT ![s] = "spawning"]
      /\ UNCHANGED <<shared, listening, active, teardown, awaits, compiler, database, hasty>>
  BY DEF Spawn
<1>2. TypeOK' /\ Registered' /\ Owned' /\ OwnDatabase'
  BY <1>1 DEF DevInv, TypeOK, Registered, Owned, OwnDatabase
<1>3. Phases'
  BY <1>1 DEF DevInv, TypeOK, Phases, Compiler, Started
<1>4. Ordered'
  BY <1>1 DEF DevInv, TypeOK, Ordered, Settled
<1>5. \A e \in Servers : s \notin hasty => teardown[e] # "running"
  BY <1>1, ServersAssumption DEF DevInv, TypeOK, Awaited, HandedOff, None
<1>6. Awaited'
  BY <1>1, <1>5 DEF DevInv, TypeOK, Awaited
<1>7. NoOverlap'
  <2> SUFFICES ASSUME NEW e \in Servers, NEW t \in Servers, e < t, Up(e)', Up(t)', t \notin hasty
               PROVE  FALSE
    BY <1>1 DEF NoOverlap
  <2>1. CASE t = s
    <3>1. e # s /\ compiler[e] \in {"running", "closing"}
      BY <1>1, <2>1, ServersAssumption DEF DevInv, TypeOK, Up, Ordered, Settled
    <3>2. active = None
      BY <1>1 DEF DevInv, Registered
    <3>3. compiler[e] # "running"
      BY <3>2, ServersAssumption DEF DevInv, Owned, None
    <3>4. teardown[e] = "running"
      BY <3>1, <3>3 DEF DevInv, TypeOK, Phases, Compiler
    <3> QED  BY <1>5, <2>1, <3>4
  <2>2. CASE e = s
    <3>1. servers[t] = "none"
      BY <1>1, <2>2 DEF DevInv, Ordered, Settled
    <3> QED  BY <1>1, <2>2, <3>1, ServersAssumption DEF DevInv, Phases, Compiler, Started, Up, TypeOK
  <2>3. CASE e # s /\ t # s
    BY <1>1, <2>3 DEF DevInv, TypeOK, NoOverlap, Up
  <2> QED  BY <2>1, <2>2, <2>3
<1> QED  BY <1>2, <1>3, <1>4, <1>6, <1>7 DEF DevInv

LEMMA RegisterKeeps ==
  ASSUME DevInv, NEW s \in Servers, Register(s)
  PROVE  DevInv'
<1>1. /\ servers[s] = "spawning" /\ database[Context(s)] = "open"
      /\ servers' = [servers EXCEPT ![s] = "serving"]
      /\ compiler' = [compiler EXCEPT ![s] = "running"]
      /\ active' = s
      /\ listening' = listening \cup {s}
      /\ UNCHANGED <<shared, teardown, awaits, database, hasty>>
  BY DEF Register
<1>2. active = None /\ \A e \in Servers : compiler[e] # "running"
  BY <1>1, ServersAssumption DEF DevInv, Registered, Owned, None
<1>3. TypeOK'
  BY <1>1 DEF DevInv, TypeOK
<1>4. Owned'
  BY <1>1, <1>2 DEF DevInv, TypeOK, Owned
<1>5. OwnDatabase'
  BY <1>1, <1>2 DEF DevInv, TypeOK, OwnDatabase, Context
<1>6. Phases'
  BY <1>1 DEF DevInv, TypeOK, Phases, Compiler, Started
<1>7. Ordered'
  BY <1>1 DEF DevInv, TypeOK, Ordered, Settled
<1>8. Registered'
  <2> SUFFICES ASSUME NEW t \in Servers, t # s, servers[t] \in {"configuring", "spawning"}
               PROVE  FALSE
    BY <1>1 DEF DevInv, TypeOK, Registered
  <2>1. t < s \/ s < t
    BY ServersAssumption
  <2> QED  BY <1>1, <2>1 DEF DevInv, Ordered, Settled
<1>9. Awaited'
  BY <1>1 DEF DevInv, TypeOK, Awaited
<1>10. NoOverlap'
  BY <1>1 DEF DevInv, TypeOK, NoOverlap, Up
<1> QED  BY <1>3, <1>4, <1>5, <1>6, <1>7, <1>8, <1>9, <1>10 DEF DevInv

LEMMA SetupFailsKeeps ==
  ASSUME DevInv, NEW s \in Servers, SetupFails(s)
  PROVE  DevInv'
<1>1. /\ servers[s] = "spawning"
      /\ servers' = [servers EXCEPT ![s] = "failed"]
      /\ UNCHANGED <<shared, listening, active, teardown, awaits, compiler, database, hasty>>
  BY DEF SetupFails
<1>2. TypeOK' /\ Registered' /\ Owned' /\ OwnDatabase'
  BY <1>1 DEF DevInv, TypeOK, Registered, Owned, OwnDatabase
<1>3. Phases'
  BY <1>1 DEF DevInv, TypeOK, Phases, Compiler, Started
<1>4. Ordered'
  BY <1>1 DEF DevInv, TypeOK, Ordered, Settled
<1>5. Awaited'
  BY <1>1 DEF DevInv, TypeOK, Awaited
<1>6. NoOverlap'
  BY <1>1 DEF DevInv, TypeOK, NoOverlap, Up
<1> QED  BY <1>2, <1>3, <1>4, <1>5, <1>6 DEF DevInv

LEMMA HttpCloseKeeps ==
  ASSUME DevInv, NEW s \in Servers, HttpClose(s)
  PROVE  DevInv'
<1>1. /\ s \in listening
      /\ listening' = listening \ {s}
      /\ servers' = [servers EXCEPT ![s] = "gone"]
      /\ active' = IF active = s THEN None ELSE active
      /\ database' = [database EXCEPT ![Context(s)] = "closed"]
      /\ hasty' = IF teardown[s] = "none"
                  THEN hasty \cup {t \in Servers : servers[t] # "none" /\ ~Settled(t)} ELSE hasty
      /\ UNCHANGED <<shared, awaits>>
  BY DEF HttpClose
<1>2. servers[s] = "serving"
  BY <1>1 DEF DevInv, Registered
<1>3. /\ teardown' \in [Servers -> {"none", "running", "done"}]
      /\ compiler' \in [Servers -> {"none", "running", "closing", "closed"}]
      /\ teardown'[s] # "none" /\ compiler'[s] \in {"closing", "closed"}
      /\ compiler'[s] = IF teardown'[s] = "running" THEN "closing" ELSE "closed"
      /\ teardown[s] # "none" => teardown'[s] = teardown[s]
      /\ \A e \in Servers \ {s} : teardown'[e] = teardown[e] /\ compiler'[e] = compiler[e]
  BY <1>2, DisposedShape DEF HttpClose
<1>4. TypeOK'
  BY <1>1, <1>3 DEF DevInv, TypeOK
<1>5. Phases'
  BY <1>1, <1>2, <1>3 DEF DevInv, TypeOK, Phases, Compiler, Started
<1>6. Ordered'
  BY <1>1, <1>2 DEF DevInv, TypeOK, Ordered, Settled
<1>7. Registered'
  BY <1>1, <1>2, ServersAssumption DEF DevInv, TypeOK, Registered, None
<1>8. Owned'
  BY <1>1, <1>3 DEF DevInv, TypeOK, Owned
<1>9. OwnDatabase'
  BY <1>1, <1>3 DEF DevInv, TypeOK, OwnDatabase, Context
<1>10. Awaited'
  <2> SUFFICES ASSUME NEW t \in Servers, NEW e \in Servers,
                      t \notin hasty', teardown'[e] = "running"
               PROVE  /\ servers'[t] \notin {"opened", "spawning"}
                      /\ servers'[t] \in {"resolving", "configuring"} => awaits'[t] = e
    BY DEF Awaited
  <2>1. CASE teardown[e] = "running"
    BY <1>1, <2>1 DEF DevInv, TypeOK, Awaited
  <2>2. CASE teardown[e] # "running"
    <3>1. e = s /\ teardown[s] = "none"
      BY <1>3, <2>2 DEF DevInv, TypeOK
    <3>2. servers[t] = "none" \/ Settled(t)
      BY <1>1, <3>1
    <3> QED  BY <1>1, <3>2 DEF DevInv, TypeOK, Settled
  <2> QED  BY <2>1, <2>2
<1>11. NoOverlap'
  <2>1. compiler[s] = "closed" => compiler'[s] = "closed"
    BY <1>2, <1>3 DEF DevInv, TypeOK, Phases, Compiler, Started
  <2>2. compiler[s] # "none"
    BY <1>2 DEF DevInv, Phases, Compiler, Started
  <2>3. \A e \in Servers : Up(e)' => Up(e)
    BY <1>1, <1>3, <2>1, <2>2 DEF DevInv, TypeOK, Up
  <2> QED  BY <1>1, <2>3 DEF DevInv, NoOverlap
<1> QED  BY <1>4, <1>5, <1>6, <1>7, <1>8, <1>9, <1>10, <1>11 DEF DevInv

LEMMA TornDownKeeps ==
  ASSUME DevInv, NEW s \in Servers, TornDown(s)
  PROVE  DevInv'
<1>1. /\ teardown[s] = "running"
      /\ teardown' = [teardown EXCEPT ![s] = "done"]
      /\ compiler' = [compiler EXCEPT ![s] = "closed"]
      /\ database' = [database EXCEPT ![Context(s)] = "closed"]
      /\ UNCHANGED <<shared, servers, listening, active, awaits, hasty>>
  BY DEF TornDown
<1>2. TypeOK' /\ Registered'
  BY <1>1 DEF DevInv, TypeOK, Registered
<1>3. Phases'
  BY <1>1 DEF DevInv, TypeOK, Phases, Compiler, Started
<1>4. Ordered'
  BY <1>1 DEF DevInv, Ordered, Settled
<1>5. Owned'
  BY <1>1 DEF DevInv, TypeOK, Owned
<1>6. OwnDatabase'
  BY <1>1 DEF DevInv, TypeOK, OwnDatabase, Context
<1>7. Awaited'
  BY <1>1 DEF DevInv, TypeOK, Awaited
<1>8. NoOverlap'
  BY <1>1 DEF DevInv, TypeOK, NoOverlap, Up, Phases, Compiler
<1> QED  BY <1>2, <1>3, <1>4, <1>5, <1>6, <1>7, <1>8 DEF DevInv

-----------------------------------------------------------------------------
(* The theorems.                                                           *)

\* For any number of servers: how far a server's compiler is follows from its teardown, servers
\* start one after the other, and one that starts waits for every teardown but a closed server's
\* (vite/session.ts).
THEOREM DevInvHolds == Spec => []DevInv
<1>1. Init => DevInv
  BY ServersAssumption DEF Init, DevInv, TypeOK, Phases, Compiler, Started, Ordered, Registered, Awaited,
     NoOverlap, Up, Owned, OwnDatabase, None
<1>2. DevInv /\ [Next]_vars => DevInv'
  <2> SUFFICES ASSUME DevInv, [Next]_vars PROVE DevInv'
    OBVIOUS
  <2>1. ASSUME NEW s \in Servers, Resolve(s) PROVE DevInv'
    BY <2>1, ResolveKeeps
  <2>2. ASSUME NEW s \in Servers, Open(s) PROVE DevInv'
    BY <2>2, OpenKeeps
  <2>3. ASSUME NEW s \in Servers, Configure(s) PROVE DevInv'
    BY <2>3, ConfigureKeeps
  <2>4. ASSUME NEW s \in Servers, Spawn(s) PROVE DevInv'
    BY <2>4, SpawnKeeps
  <2>5. ASSUME NEW s \in Servers, Register(s) PROVE DevInv'
    BY <2>5, RegisterKeeps
  <2>6. ASSUME NEW s \in Servers, SetupFails(s) PROVE DevInv'
    BY <2>6, SetupFailsKeeps
  <2>7. ASSUME NEW s \in Servers, HttpClose(s) PROVE DevInv'
    BY <2>7, HttpCloseKeeps
  <2>8. ASSUME NEW s \in Servers, TornDown(s) PROVE DevInv'
    BY <2>8, TornDownKeeps
  <2>9. CASE UNCHANGED vars
    BY <2>9 DEF vars, DevInv, TypeOK, Phases, Compiler, Ordered, Settled, Registered, Awaited,
       NoOverlap, Up, Owned, OwnDatabase
  <2> QED  BY <2>1, <2>2, <2>3, <2>4, <2>5, <2>6, <2>7, <2>8, <2>9 DEF Next
<1> QED  BY <1>1, <1>2, PTL DEF Spec

\* The sessions keep their types.
THEOREM DevTypeCorrect == Spec => []TypeOK
<1>1. DevInv => TypeOK
  BY DEF DevInv
<1> QED  BY <1>1, DevInvHolds, PTL

-----------------------------------------------------------------------------
(***************************************************************************)
(* Flushes before hooks and reloads after them make two databases one, for *)
(* any plugins, tables and nesting of hooks.                               *)
(***************************************************************************)

DatabaseTyped ==
  /\ databaseTransport \in {"stdio", "websocket"}
  /\ databaseStage \in {"off", "connected", "spawning", "running"}
  /\ databaseMemory \in C!Rows /\ databaseFile \in C!Rows /\ databaseTruth \in C!Rows
  /\ databaseClock \in 1 .. MaxWrites
  /\ databasePoll \in [of : SUBSET H!Names, rows : C!Rows]
  /\ databaseCalls \in [Calls -> [status : {"new", "out", "done", "failed"}, by : Nat, wrote : BOOLEAN]]
  /\ \A c \in Calls : databaseCalls[c].by \in 0 .. c - 1

\* Only a websocket plugin is polled for, and hooks are called once all are registered.
Stages ==
  /\ databasePoll # C!NoPoll => databaseStage = "spawning" /\ databaseTransport = "websocket"
  /\ databaseStage # "running" => \A c \in Calls : databaseCalls[c].status = "new"

\* While plugins register, no row that may be read is one of the last session's.
OnlySpawned ==
  databaseStage = "spawning" => /\ \A p \in H!Names : databaseFile[p] # 1 /\ databasePoll.rows[p] # 1
                                /\ C!Wasm /\ databaseTransport = "stdio" => \A p \in H!Names : databaseMemory[p] # 1

\* Up to the first hook the file has everything.  The copy has, but for what websocket plugins
\* wrote, and a poll's own copy has what the file has.
StartSeen ==
  (C!Wasm /\ ~databaseCrossed) =>
    /\ databaseStage = "connected" => databaseMemory = databaseTruth
    /\ databaseStage = "spawning" => /\ databaseFile = databaseTruth
                                     /\ databaseTransport = "stdio" =>
                                          databaseMemory = databaseTruth
                                     /\ databasePoll # C!NoPoll => databasePoll.rows = databaseFile

\* Afterwards the file has everything while a hook is out, and the copy unless a plugin wrote
\* in a hook that has not been read back.
HooksSeen ==
  (C!Wasm /\ ~databaseCrossed /\ databaseStage = "running") =>
    /\ C!Out # {} => databaseFile = databaseTruth
    /\ C!Written = {} => databaseMemory = databaseTruth

OneFile == ~C!Wasm => databaseFile = databaseTruth

\* Inductive.
DatabaseInv == DatabaseTyped /\ Stages /\ OnlySpawned /\ StartSeen /\ HooksSeen /\ OneFile /\ C!OwnPlugins

-----------------------------------------------------------------------------
(* Start-up.                                                               *)

LEMMA DatabaseInit ==
  ASSUME DatabaseConstants, C!Init
  PROVE  DatabaseInv
<1>1. C!NoRows \in C!Rows /\ C!Kept \in C!Rows /\ \A p \in H!Names : C!NoRows[p] = 0
  BY DEF DatabaseConstants, C!NoRows, C!Kept, C!Rows, C!Keys
<1>2. DatabaseTyped
  BY <1>1 DEF DatabaseConstants, C!Init, DatabaseTyped, C!NoPoll, C!NewCall
<1>3. Stages /\ OnlySpawned /\ StartSeen /\ HooksSeen /\ OneFile /\ C!OwnPlugins
  BY DEF C!Init, Stages, OnlySpawned, StartSeen, HooksSeen, OneFile, C!OwnPlugins, C!NoPoll, C!NewCall
<1> QED  BY <1>2, <1>3 DEF DatabaseInv

\* Rows written over rows are rows, with the writes in them and the others as they were.
LEMMA OverlaidShape ==
  ASSUME DatabaseConstants, DatabaseTyped, C!Tick, NEW ks
  PROVE  /\ C!Overlaid(ks) \in C!Rows
         /\ C!InTruth(ks) => databaseTruth' \in C!Rows
         /\ C!InTruth(ks) /\ C!Seen = databaseTruth => C!Overlaid(ks) = databaseTruth'
         /\ \A k \in C!Keys : C!Overlaid(ks)[k] = IF k \in ks THEN databaseClock + 1 ELSE C!Seen[k]
         /\ databaseClock' \in 1 .. MaxWrites /\ databaseClock + 1 > 1
BY DEF DatabaseConstants, DatabaseTyped, C!Rows, C!Tick, C!Overlaid, C!InTruth, C!Seen

LEMMA ConnectKeeps ==
  ASSUME DatabaseConstants, DatabaseInv, C!Connect
  PROVE  DatabaseInv'
<1>1. C!NoRows \in C!Rows
  BY DEF DatabaseConstants, C!NoRows, C!Rows
<1>2. DatabaseTyped'
  BY <1>1 DEF DatabaseInv, DatabaseTyped, C!Connect, C!Reloaded, C!Wasm, C!fixed
<1>3. Stages' /\ OnlySpawned' /\ StartSeen' /\ HooksSeen' /\ OneFile' /\ C!OwnPlugins'
  BY DEF DatabaseInv, Stages, OnlySpawned, StartSeen, HooksSeen, OneFile, C!OwnPlugins, C!Connect, C!Reloaded,
         C!Wasm, C!fixed
<1> QED  BY <1>2, <1>3 DEF DatabaseInv

LEMMA DatabaseSpawnKeeps ==
  ASSUME DatabaseConstants, DatabaseInv, C!Spawn
  PROVE  DatabaseInv'
<1>1. /\ C!Unregistered \in C!Rows /\ databaseTruth' \in C!Rows
      /\ \A p \in H!Names : C!Unregistered[p] = 0
      /\ C!Seen = databaseTruth => C!Unregistered = databaseTruth'
  BY DEF DatabaseConstants, DatabaseInv, DatabaseTyped, C!Unregistered, C!Rows, C!Keys, C!Seen, C!Spawn
<1>2. DatabaseTyped'
  BY <1>1 DEF DatabaseInv, DatabaseTyped, C!Spawn, C!Reloaded, C!Wasm, C!fixed
<1>3. databasePoll = C!NoPoll
  BY DEF DatabaseInv, Stages, C!Spawn
<1>4. OnlySpawned'
  BY <1>1, <1>3 DEF DatabaseInv, OnlySpawned, C!Spawn, C!Reloaded, C!Wasm, C!fixed, C!NoPoll, C!NoRows, C!Keys
<1>5. StartSeen' /\ OneFile'
  BY <1>1, <1>3 DEF DatabaseInv, StartSeen, OneFile, C!Spawn, C!Reloaded, C!Seen, C!Wasm, C!fixed
<1>6. Stages' /\ HooksSeen' /\ C!OwnPlugins'
  BY DEF DatabaseInv, Stages, HooksSeen, C!OwnPlugins, C!Spawn, C!fixed
<1> QED  BY <1>2, <1>4, <1>5, <1>6 DEF DatabaseInv

LEMMA RegisterStdioKeeps ==
  ASSUME DatabaseConstants, DatabaseInv, NEW p \in H!Names, C!RegisterStdio(p)
  PROVE  DatabaseInv'
<1>1. /\ databaseStage = "spawning" /\ databaseTransport = "stdio" /\ databasePoll = C!NoPoll
      /\ databaseFile' = C!Overlaid({p}) /\ databaseMemory' = C!Reloaded(databaseFile')
      /\ UNCHANGED <<databasePlatform, databaseTransport, databaseStage, databasePoll,
                     databaseCalls, databaseCrossed>>
  BY DEF DatabaseInv, Stages, C!RegisterStdio, C!fixed
<1>2. /\ databaseFile' \in C!Rows /\ databaseTruth' \in C!Rows
      /\ C!Seen = databaseTruth => databaseFile' = databaseTruth'
      /\ \A k \in C!Keys : databaseFile'[k] = IF k \in {p} THEN databaseClock + 1 ELSE C!Seen[k]
      /\ databaseClock' \in 1 .. MaxWrites /\ databaseClock + 1 > 1
  BY <1>1, OverlaidShape DEF DatabaseInv, C!RegisterStdio
<1>3. DatabaseTyped'
  BY <1>1, <1>2 DEF DatabaseInv, DatabaseTyped, C!Reloaded, C!Wasm
<1>4. OnlySpawned'
  <2> SUFFICES ASSUME NEW q \in H!Names
               PROVE  /\ databaseFile'[q] # 1 /\ databasePoll.rows[q] # 1
                      /\ C!Wasm => databaseMemory'[q] # 1
    BY <1>1 DEF OnlySpawned, C!Wasm
  <2>1. q \in C!Keys /\ C!Seen[q] # 1 /\ databasePoll.rows[q] # 1
    BY <1>1 DEF DatabaseInv, OnlySpawned, C!Keys, C!Seen
  <2>2. databaseFile'[q] # 1
    BY <1>2, <2>1 DEF DatabaseConstants, DatabaseInv, DatabaseTyped
  <2> QED  BY <1>1, <2>1, <2>2 DEF C!Reloaded
<1>5. StartSeen' /\ OneFile'
  BY <1>1, <1>2 DEF DatabaseInv, StartSeen, OneFile, C!Reloaded, C!Seen, C!Wasm
<1>6. Stages' /\ HooksSeen' /\ C!OwnPlugins'
  BY <1>1 DEF DatabaseInv, Stages, HooksSeen, C!OwnPlugins, C!NoPoll
<1> QED  BY <1>3, <1>4, <1>5, <1>6 DEF DatabaseInv

\* A row of the file that a plugin writes, with a number of its own.
LEMMA PluginRow ==
  ASSUME DatabaseConstants, DatabaseTyped, C!Tick, NEW k \in C!Keys
  PROVE  /\ [databaseFile EXCEPT ![k] = databaseClock + 1] \in C!Rows
         /\ C!InTruth({k}) => databaseTruth' \in C!Rows
         /\ C!InTruth({k}) /\ databaseFile = databaseTruth =>
              [databaseFile EXCEPT ![k] = databaseClock + 1] = databaseTruth'
         /\ \A x \in C!Keys :
              [databaseFile EXCEPT ![k] = databaseClock + 1][x] = IF x = k THEN databaseClock + 1 ELSE databaseFile[x]
         /\ databaseClock' \in 1 .. MaxWrites /\ databaseClock + 1 > 1
BY DEF DatabaseConstants, DatabaseTyped, C!Rows, C!Tick, C!InTruth

LEMMA InsertRowKeeps ==
  ASSUME DatabaseConstants, DatabaseInv, NEW p \in H!Names, C!InsertRow(p)
  PROVE  DatabaseInv'
<1>1. /\ databaseFile' \in C!Rows /\ databaseTruth' \in C!Rows
      /\ databaseFile = databaseTruth => databaseFile' = databaseTruth'
      /\ \A x \in C!Keys : databaseFile'[x] = IF x = p THEN databaseClock + 1 ELSE databaseFile[x]
      /\ databaseClock' \in 1 .. MaxWrites /\ databaseClock + 1 > 1
  BY PluginRow DEF DatabaseInv, C!InsertRow, C!Keys
<1>2. /\ databaseStage = "spawning" /\ databaseTransport = "websocket"
      /\ databaseCrossed' = (databaseCrossed \/ (C!Wasm /\ databasePoll # C!NoPoll))
      /\ UNCHANGED <<databasePlatform, databaseTransport, databaseStage, databaseMemory,
                     databasePoll, databaseCalls>>
  BY DEF C!InsertRow, C!fixed
<1>3. DatabaseTyped'
  BY <1>1, <1>2 DEF DatabaseInv, DatabaseTyped
<1>4. OnlySpawned'
  BY <1>1, <1>2 DEF DatabaseConstants, DatabaseInv, OnlySpawned, C!Keys
<1>5. StartSeen' /\ OneFile'
  BY <1>1, <1>2 DEF DatabaseInv, StartSeen, OneFile, C!Wasm
<1>6. Stages' /\ HooksSeen' /\ C!OwnPlugins'
  BY <1>2 DEF DatabaseInv, Stages, HooksSeen, C!OwnPlugins
<1> QED  BY <1>3, <1>4, <1>5, <1>6 DEF DatabaseInv

LEMMA PollKeeps ==
  ASSUME DatabaseConstants, DatabaseInv, NEW p \in H!Names, C!Poll(p)
  PROVE  DatabaseInv'
<1>1. /\ databaseStage = "spawning" /\ databaseTransport = "websocket" /\ databaseFile[p] # 0
      /\ databasePoll' = [of |-> {p}, rows |-> databaseFile]
      /\ UNCHANGED <<databasePlatform, databaseTransport, databaseStage, databaseMemory,
                     databaseFile, databaseCalls, databaseClock, databaseTruth, databaseCrossed>>
  BY DEF C!Poll, C!fixed
<1>2. DatabaseTyped'
  BY <1>1 DEF DatabaseInv, DatabaseTyped
<1>3. C!OwnPlugins' /\ OnlySpawned'
  <2>1. databaseFile[p] \in Nat /\ databaseFile[p] # 1
    BY <1>1 DEF DatabaseInv, DatabaseTyped, C!Rows, C!Keys, DatabaseConstants, OnlySpawned
  <2> QED  BY <1>1, <2>1 DEF DatabaseInv, OnlySpawned, C!OwnPlugins, C!Wasm
<1>4. StartSeen' /\ OneFile' /\ Stages' /\ HooksSeen'
  BY <1>1 DEF DatabaseInv, StartSeen, OneFile, Stages, HooksSeen, C!Wasm
<1> QED  BY <1>2, <1>3, <1>4 DEF DatabaseInv

LEMMA PollFlushKeeps ==
  ASSUME DatabaseConstants, DatabaseInv, C!PollFlush
  PROVE  DatabaseInv'
<1>1. /\ databaseStage = "spawning" /\ databaseTransport = "websocket" /\ databasePoll # C!NoPoll
      /\ databasePoll' = C!NoPoll
      /\ databaseFile' = [k \in C!Keys |-> IF k \in databasePoll.of THEN databaseClock + 1 ELSE C!Flushed(databasePoll.rows)[k]]
      /\ databaseTruth' = [k \in C!Keys |-> IF k \in databasePoll.of THEN databaseClock + 1 ELSE databaseTruth[k]]
      /\ databaseClock < MaxWrites /\ databaseClock' = databaseClock + 1
      /\ UNCHANGED <<databasePlatform, databaseTransport, databaseStage, databaseMemory,
                     databaseCalls, databaseCrossed>>
  BY DEF DatabaseInv, Stages, C!PollFlush, C!InTruth, C!Tick, C!fixed
<1>2. /\ databasePoll.rows \in C!Rows /\ databaseFile \in C!Rows /\ databaseTruth \in C!Rows
      /\ databaseClock \in 1 .. MaxWrites
      /\ C!Flushed(databasePoll.rows) \in C!Rows /\ C!NoRows \in C!Rows
  BY DEF DatabaseInv, DatabaseTyped, C!Flushed, C!NoRows, C!Rows, DatabaseConstants
<1>3. databaseFile' \in C!Rows /\ databaseTruth' \in C!Rows /\ databaseClock' \in 1 .. MaxWrites
  BY <1>1, <1>2 DEF C!Rows, DatabaseConstants
<1>4. DatabaseTyped'
  BY <1>1, <1>2, <1>3 DEF DatabaseInv, DatabaseTyped, C!NoPoll
<1>5. OnlySpawned' /\ C!OwnPlugins'
  <2>1. ASSUME NEW p \in H!Names
        PROVE  databaseFile'[p] # 1 /\ C!NoRows[p] # 1
    <3>1. C!Flushed(databasePoll.rows)[p] # 1
      BY <1>1 DEF DatabaseInv, OnlySpawned, C!Flushed
    <3> QED  BY <1>1, <1>2, <3>1 DEF DatabaseConstants, C!NoRows, C!Keys
  <2> QED  BY <1>1, <2>1 DEF OnlySpawned, C!OwnPlugins, C!NoPoll
<1>6. StartSeen' /\ OneFile'
  BY <1>1, <1>2 DEF DatabaseInv, StartSeen, OneFile, C!Flushed, C!Wasm, C!Rows
<1>7. Stages' /\ HooksSeen'
  BY <1>1 DEF DatabaseInv, Stages, HooksSeen
<1> QED  BY <1>4, <1>5, <1>6, <1>7 DEF DatabaseInv

LEMMA WriteConfigKeeps ==
  ASSUME DatabaseConstants, DatabaseInv, C!WriteConfig
  PROVE  DatabaseInv'
<1>1. databaseFile' = [k \in C!Keys |-> IF k \in Tables THEN databaseClock + 1 ELSE databaseFile[k]]
  BY DEF C!WriteConfig, C!Seen
<1>2. databaseMemory' = C!Reloaded(databaseFile')
  BY DEF C!WriteConfig, C!Reloaded
<1>3. /\ databaseStage = "spawning" /\ databaseStage' = "running" /\ databasePoll = C!NoPoll
      /\ databaseTruth' = [k \in C!Keys |-> IF k \in Tables THEN databaseClock + 1 ELSE databaseTruth[k]]
      /\ databaseClock < MaxWrites /\ databaseClock' = databaseClock + 1
      /\ UNCHANGED <<databasePlatform, databaseTransport, databasePoll, databaseCalls,
                     databaseCrossed>>
  BY DEF C!WriteConfig, C!InTruth, C!Tick, C!fixed
<1>4. databaseFile' \in C!Rows /\ databaseTruth' \in C!Rows /\ databaseClock' \in 1 .. MaxWrites
  BY <1>1, <1>3 DEF DatabaseInv, DatabaseTyped, C!Rows, DatabaseConstants
<1>5. DatabaseTyped'
  BY <1>2, <1>3, <1>4 DEF DatabaseInv, DatabaseTyped, C!Reloaded, C!Wasm
<1>6. databaseFile = databaseTruth => databaseFile' = databaseTruth'
  BY <1>1, <1>3
<1>7. OneFile' /\ HooksSeen'
  BY <1>2, <1>3, <1>6 DEF DatabaseInv, OneFile, StartSeen, HooksSeen, C!Reloaded, C!Wasm
<1>8. StartSeen' /\ OnlySpawned' /\ Stages' /\ C!OwnPlugins'
  BY <1>3 DEF DatabaseInv, StartSeen, OnlySpawned, Stages, C!OwnPlugins, C!NoPoll
<1> QED  BY <1>5, <1>7, <1>8 DEF DatabaseInv

-----------------------------------------------------------------------------
(* Hooks.                                                                  *)

LEMMA DatabaseWriteKeeps ==
  ASSUME DatabaseConstants, DatabaseInv, NEW t \in Tables, C!Write(t)
  PROVE  DatabaseInv'
<1>1. /\ databaseStage = "running"
      /\ IF C!Wasm THEN databaseMemory' = C!Overlaid({t}) /\ databaseFile' = databaseFile
                 ELSE databaseFile' = C!Overlaid({t}) /\ databaseMemory' = databaseMemory
      /\ databaseCrossed' = (databaseCrossed \/ (C!Wasm /\ C!Out # {}))
      /\ UNCHANGED <<databasePlatform, databaseTransport, databaseStage, databasePoll,
                     databaseCalls>>
  BY DEF C!Write, C!RunWith, C!fixed
<1>2. /\ C!Overlaid({t}) \in C!Rows /\ databaseTruth' \in C!Rows
      /\ C!Seen = databaseTruth => C!Overlaid({t}) = databaseTruth'
      /\ databaseClock' \in 1 .. MaxWrites
  BY OverlaidShape DEF DatabaseInv, C!Write
<1>3. DatabaseTyped'
  BY <1>1, <1>2 DEF DatabaseInv, DatabaseTyped
<1>4. OneFile' /\ HooksSeen'
  BY <1>1, <1>2 DEF DatabaseInv, OneFile, HooksSeen, C!Seen, C!Wasm, C!Out, C!Written
<1>5. StartSeen' /\ OnlySpawned' /\ Stages' /\ C!OwnPlugins'
  BY <1>1 DEF DatabaseInv, StartSeen, OnlySpawned, Stages, C!OwnPlugins
<1> QED  BY <1>3, <1>4, <1>5 DEF DatabaseInv

LEMMA TriggerKeeps ==
  ASSUME DatabaseConstants, DatabaseInv, NEW c \in Calls, NEW by \in 0 .. c - 1, C!Trigger(c, by)
  PROVE  DatabaseInv'
<1>1. /\ databaseStage = "running" /\ databaseCalls[c].status = "new"
      /\ databaseFile' = IF C!Wasm THEN databaseMemory ELSE databaseFile
      /\ databaseCalls' = [databaseCalls EXCEPT ![c] = [status |-> "out", by |-> by, wrote |-> FALSE]]
      /\ databaseCrossed' = (databaseCrossed \/ (C!Wasm /\ C!Written # {}))
      /\ UNCHANGED <<databasePlatform, databaseTransport, databaseStage, databaseMemory,
                     databasePoll, databaseClock, databaseTruth>>
  BY DEF C!Trigger, C!Before, C!Flushed, C!fixed
<1>2. DatabaseTyped'
  BY <1>1 DEF DatabaseConstants, DatabaseInv, DatabaseTyped
<1>3. C!Written' = C!Written
  BY <1>1 DEF DatabaseInv, DatabaseTyped, C!Written
<1>4. OneFile' /\ HooksSeen'
  BY <1>1, <1>3 DEF DatabaseInv, OneFile, HooksSeen, C!Wasm
<1>5. StartSeen' /\ OnlySpawned' /\ Stages' /\ C!OwnPlugins'
  BY <1>1 DEF DatabaseInv, StartSeen, OnlySpawned, Stages, C!OwnPlugins
<1> QED  BY <1>2, <1>4, <1>5 DEF DatabaseInv

LEMMA PluginWritesKeeps ==
  ASSUME DatabaseConstants, DatabaseInv, NEW c \in Calls, NEW t \in Tables, C!PluginWrites(c, t)
  PROVE  DatabaseInv'
<1>1. /\ databaseStage = "running" /\ databaseCalls[c].status \in {"out", "failed"}
      /\ databaseCalls' = [databaseCalls EXCEPT ![c].wrote = TRUE]
      /\ UNCHANGED <<databasePlatform, databaseTransport, databaseStage, databaseMemory,
                     databasePoll, databaseCrossed>>
  BY DEF DatabaseInv, Stages, C!PluginWrites, C!fixed
<1>2. /\ databaseFile' \in C!Rows /\ databaseTruth' \in C!Rows /\ databaseClock' \in 1 .. MaxWrites
      /\ databaseFile = databaseTruth => databaseFile' = databaseTruth'
  BY PluginRow DEF DatabaseInv, C!PluginWrites, C!Keys
<1>3. DatabaseTyped'
  BY <1>1, <1>2 DEF DatabaseInv, DatabaseTyped
<1>4. C!Out' = C!Out /\ c \in C!Written'
  BY <1>1 DEF DatabaseInv, DatabaseTyped, C!Out, C!Written
<1>5. OneFile' /\ HooksSeen'
  BY <1>1, <1>2, <1>4 DEF DatabaseInv, OneFile, HooksSeen, C!Wasm
<1>6. StartSeen' /\ OnlySpawned' /\ Stages' /\ C!OwnPlugins'
  BY <1>1 DEF DatabaseInv, StartSeen, OnlySpawned, Stages, C!OwnPlugins
<1> QED  BY <1>3, <1>5, <1>6 DEF DatabaseInv

LEMMA ReturnKeeps ==
  ASSUME DatabaseConstants, DatabaseInv, NEW c \in Calls, C!Return(c)
  PROVE  DatabaseInv'
<1>1. /\ databaseStage = "running" /\ c \in C!Out
      /\ databaseMemory' = IF C!Wasm THEN databaseFile ELSE databaseMemory
      /\ databaseCalls' = [databaseCalls EXCEPT ![c].status = "done"]
      /\ UNCHANGED <<databasePlatform, databaseTransport, databaseStage, databaseFile, databasePoll,
                     databaseClock, databaseTruth, databaseCrossed>>
  BY DEF DatabaseInv, Stages, C!Return, C!After, C!Reloaded, C!Out, C!fixed
<1>2. DatabaseTyped'
  BY <1>1 DEF DatabaseInv, DatabaseTyped
<1>3. OneFile' /\ HooksSeen'
  BY <1>1 DEF DatabaseInv, OneFile, HooksSeen, C!Wasm
<1>4. StartSeen' /\ OnlySpawned' /\ Stages' /\ C!OwnPlugins'
  BY <1>1 DEF DatabaseInv, StartSeen, OnlySpawned, Stages, C!OwnPlugins
<1> QED  BY <1>2, <1>3, <1>4 DEF DatabaseInv

LEMMA FailKeeps ==
  ASSUME DatabaseConstants, DatabaseInv, NEW c \in Calls, C!Fail(c)
  PROVE  DatabaseInv'
<1>1. /\ databaseStage = "running" /\ c \in C!Out
      /\ databaseCalls' = [databaseCalls EXCEPT ![c].status = "failed"]
      /\ UNCHANGED <<databasePlatform, databaseTransport, databaseStage, databaseMemory,
                     databaseFile, databasePoll, databaseClock, databaseTruth, databaseCrossed>>
  BY DEF DatabaseInv, Stages, C!Fail, C!Out, C!fixed
<1>2. DatabaseTyped'
  BY <1>1 DEF DatabaseInv, DatabaseTyped
<1>3. C!Written' = C!Written
  BY <1>1 DEF DatabaseInv, DatabaseTyped, C!Out, C!Written
<1>4. OneFile' /\ HooksSeen'
  BY <1>1, <1>3 DEF DatabaseInv, OneFile, HooksSeen, C!Wasm
<1>5. StartSeen' /\ OnlySpawned' /\ Stages' /\ C!OwnPlugins'
  BY <1>1 DEF DatabaseInv, StartSeen, OnlySpawned, Stages, C!OwnPlugins
<1> QED  BY <1>2, <1>4, <1>5 DEF DatabaseInv

LEMMA RestoreKeeps ==
  ASSUME DatabaseConstants, DatabaseInv, NEW c \in Calls, NEW t \in Tables, C!Restore(c, t)
  PROVE  DatabaseInv'
<1>1. /\ databaseStage = "running"
      /\ databaseFile' = C!Overlaid({t}) /\ databaseMemory' = C!Reloaded(databaseFile')
      /\ databaseCrossed' = (databaseCrossed \/ (C!Wasm /\ C!Written # {}))
      /\ UNCHANGED <<databasePlatform, databaseTransport, databaseStage, databasePoll,
                     databaseCalls>>
  BY DEF DatabaseInv, Stages, C!Restore, C!fixed
<1>2. /\ databaseFile' \in C!Rows /\ databaseTruth' \in C!Rows /\ databaseClock' \in 1 .. MaxWrites
      /\ C!Seen = databaseTruth => databaseFile' = databaseTruth'
  BY <1>1, OverlaidShape DEF DatabaseInv, C!Restore
<1>3. DatabaseTyped'
  BY <1>1, <1>2 DEF DatabaseInv, DatabaseTyped, C!Reloaded
<1>4. OneFile' /\ HooksSeen'
  BY <1>1, <1>2 DEF DatabaseInv, OneFile, HooksSeen, C!Seen, C!Reloaded, C!Wasm, C!Out, C!Written
<1>5. StartSeen' /\ OnlySpawned' /\ Stages' /\ C!OwnPlugins'
  BY <1>1 DEF DatabaseInv, StartSeen, OnlySpawned, Stages, C!OwnPlugins
<1> QED  BY <1>3, <1>4, <1>5 DEF DatabaseInv

-----------------------------------------------------------------------------
\* For any number of calls, tables and plugins: what the file, the copy and a poll's copy lack
\* follows from the stage and the hooks that are out.
THEOREM DatabaseInvHolds ==
  ASSUME DatabaseConstants
  PROVE  C!Spec => []DatabaseInv
<1>1. C!Init => DatabaseInv
  BY DatabaseInit
<1>2. DatabaseInv /\ [C!Next]_(C!vars) => DatabaseInv'
  <2> SUFFICES ASSUME DatabaseInv, [C!Next]_(C!vars)  PROVE DatabaseInv'
    OBVIOUS
  <2>1. CASE C!Connect
    BY <2>1, ConnectKeeps
  <2>2. CASE C!Spawn
    BY <2>2, DatabaseSpawnKeeps
  <2>3. CASE C!PollFlush
    BY <2>3, PollFlushKeeps
  <2>4. CASE C!WriteConfig
    BY <2>4, WriteConfigKeeps
  <2>5. CASE \E p \in H!Names : C!RegisterStdio(p) \/ C!InsertRow(p) \/ C!Poll(p)
    BY <2>5, RegisterStdioKeeps, InsertRowKeeps, PollKeeps
  <2>6. CASE \E t \in Tables : C!Write(t)
    BY <2>6, DatabaseWriteKeeps
  <2>7. CASE \E c \in Calls : C!Return(c) \/ C!Fail(c)
    BY <2>7, ReturnKeeps, FailKeeps
  <2>8. CASE \E c \in Calls : \E by \in 0 .. c - 1 : C!Trigger(c, by)
    BY <2>8, TriggerKeeps
  <2>9. CASE \E c \in Calls : \E t \in Tables : C!PluginWrites(c, t) \/ C!Restore(c, t)
    BY <2>9, PluginWritesKeeps, RestoreKeeps
  <2>10. CASE UNCHANGED C!vars
    BY <2>10 DEF C!vars, C!fixed, DatabaseInv, DatabaseTyped, Stages, OnlySpawned, StartSeen, HooksSeen, OneFile,
                 C!OwnPlugins, C!Wasm, C!Out, C!Written
  <2> QED  BY <2>1, <2>2, <2>3, <2>4, <2>5, <2>6, <2>7, <2>8, <2>9, <2>10 DEF C!Next
<1> QED  BY <1>1, <1>2, PTL DEF C!Spec

\* The rows keep their types.
THEOREM DatabaseTypeCorrect ==
  ASSUME DatabaseConstants
  PROVE  C!Spec => []C!TypeOK
<1>1. DatabaseInv => C!TypeOK
  BY DEF DatabaseInv, DatabaseTyped, C!TypeOK
<1> QED  BY <1>1, DatabaseInvHolds, PTL

-----------------------------------------------------------------------------
(***************************************************************************)
(* The copy of the session is the cookie's, for any sessions, writes and   *)
(* mishaps.                                                                *)
(***************************************************************************)

\* The shape of a message, whatever its cookies.
Message(m) ==
  m \in [id : {m.id}, kind : {"mutation", "relay", "update", "form", "logout"},
         at : {"server", "browser"}, write : Writes, cookie : {m.cookie}, bound : {m.bound},
         sets : {m.sets}]

SessionTyped ==
  /\ authConfigured \in BOOLEAN /\ authRemote \in BOOLEAN /\ authSettled \in BOOLEAN
  /\ authProcess \in Nat \ {0}
  /\ \A m \in authTraffic : Message(m)

\* The answer sets a cookie, and it is of session s.
SetsTo(m, s) == m.sets # {} /\ \A c \in m.sets : V!SessionOf(c) = s

\* Where the copy is while the only message of a settled browser is on its way.
InStep(m) ==
  /\ m.at = "server" \/ m.kind = "relay" => m.cookie = authJar
  /\ m.kind \in {"mutation", "relay"} => authLocal = V!SessionOf(authJar)
  /\ m.kind = "update" => IF m.at = "server" THEN authLocal = V!After(V!SessionOf(authJar), m.write)
                          ELSE SetsTo(m, authLocal)
  /\ (m.at = "browser" /\ (m.kind = "relay" \/ (m.kind = "mutation" /\ m.bound = V!NoToken)))
       => SetsTo(m, V!After(authLocal, m.write))

\* At most one message or login is on its way.
Lone ==
  /\ \A m, n \in authTraffic : m = n
  /\ \A l, k \in authLogins : l = k
  /\ authTraffic = {} \/ authLogins = {}

\* Inductive: a settled browser has one message at most, the copy is in step with it, and once
\* it is answered the copy is the cookie's session.
SessionInv ==
  /\ SessionTyped
  /\ authSettled => /\ Lone /\ \A m \in authTraffic : InStep(m)
                    /\ V!Idle => authLocal = V!SessionOf(authJar)

-----------------------------------------------------------------------------
\* A cookie of this process verifies.
LEMMA OwnCookie ==
  ASSUME NEW s
  PROVE  V!SessionOf(V!Cookie(s)) = s
BY DEF V!SessionOf, V!Cookie, V!Verified

\* What settles a browser while all is answered.
LEMMA Quiet ==
  ASSUME SessionTyped', authSettled' => authTraffic' = {} /\ (\A l, k \in authLogins' : l = k)
                                    /\ (authLogins' = {} => authLocal' = V!SessionOf(authJar)')
  PROVE  SessionInv'
BY DEF SessionInv, Lone, V!Idle

-----------------------------------------------------------------------------
(* One lemma for each action.                                              *)

LEMMA SendKeeps ==
  ASSUME SessionConstants, SessionInv, NEW w \in Writes,
         NEW kind \in {"mutation", "form", "logout", "update"}, V!Send(kind, w),
         authLocal' = IF kind = "update" THEN V!After(authLocal, w) ELSE authLocal
  PROVE  SessionInv'
<1> PICK m : m = V!Sent(kind, w)
  OBVIOUS
<1>1. /\ Message(m) /\ m.kind = kind /\ m.at = "server" /\ m.write = w /\ m.cookie = authJar
  BY DEF Message, V!Sent
<1>2. /\ authTraffic' = authTraffic \cup {m} /\ authSettled' = (authSettled /\ V!Idle)
      /\ authJar' = authJar
      /\ authLogins' = authLogins /\ authProcess' = authProcess /\ authConfigured' = authConfigured
      /\ authRemote' = authRemote
  BY DEF V!Send, V!server
<1>3. SessionTyped'
  BY <1>1, <1>2 DEF SessionInv, SessionTyped
<1>4. ASSUME authSettled'
      PROVE  /\ authTraffic' = {m} /\ authLogins' = {} /\ InStep(m)'
  <2>1. authSettled /\ authTraffic = {} /\ authLogins = {} /\ authLocal = V!SessionOf(authJar)
    BY <1>2, <1>4 DEF SessionInv, SessionTyped, V!Idle
  <2>2. /\ V!SessionOf(authJar)' = V!SessionOf(authJar)
        /\ V!After(V!SessionOf(authJar), w)' = V!After(V!SessionOf(authJar), w)
    BY <1>2 DEF V!SessionOf, V!Verified, V!After, V!Spread
  <2>3. kind = "update" => authLocal' = V!After(V!SessionOf(authJar), w)
    BY <2>1
  <2>4. kind = "mutation" => authLocal' = V!SessionOf(authJar)
    BY <2>1
  <2>5. InStep(m)'
    BY <2>2, <2>3, <2>4, <1>1, <1>2 DEF InStep
  <2> QED  BY <2>1, <2>5, <1>2
<1> QED  BY <1>3, <1>4 DEF SessionInv, Lone, V!Idle

\* The server acts on message m and leaves the browser alone.  What it makes of m keeps step.
LEMMA ServeKeeps ==
  ASSUME SessionInv, V!Serve, NEW m \in authTraffic, NEW a, Message(a),
         authTraffic' = (authTraffic \ {m}) \cup {a}, authSettled' \in BOOLEAN,
         authSettled' => authSettled /\ (InStep(m) => InStep(a))
  PROVE  SessionInv'
<1>1. /\ authJar' = authJar /\ authLocal' = authLocal /\ authLogins' = authLogins
      /\ authProcess' = authProcess
      /\ authConfigured' = authConfigured /\ authRemote' = authRemote
  BY DEF V!Serve, V!server
<1>2. SessionTyped'
  BY <1>1 DEF SessionInv, SessionTyped
<1>3. ASSUME authSettled'
      PROVE  /\ authTraffic' = {a} /\ authLogins' = {} /\ InStep(a)'
  <2>1. authSettled /\ authTraffic = {m} /\ authLogins = {} /\ InStep(a)
    BY <1>3 DEF SessionInv, Lone
  <2>2. /\ V!SessionOf(authJar)' = V!SessionOf(authJar)
        /\ V!After(V!SessionOf(authJar), a.write)' = V!After(V!SessionOf(authJar), a.write)
        /\ V!After(authLocal, a.write)' = V!After(authLocal, a.write)
    BY <1>1 DEF V!SessionOf, V!Verified, V!After, V!Spread
  <2>3. \A s : SetsTo(a, s)' <=> SetsTo(a, s)
    BY <1>1 DEF SetsTo, V!SessionOf, V!Verified
  <2>4. SetsTo(a, authLocal)' <=> SetsTo(a, authLocal)
    BY <1>1 DEF SetsTo, V!SessionOf, V!Verified
  <2>5. SetsTo(a, V!After(authLocal, a.write))' <=> SetsTo(a, V!After(authLocal, a.write))
    BY <1>1, <2>2 DEF SetsTo, V!SessionOf, V!Verified
  <2>6. InStep(a)'
    BY <2>1, <2>2, <2>4, <2>5, <1>1 DEF InStep
  <2> QED  BY <2>1, <2>6, <1>1
<1> QED  BY <1>2, <1>3 DEF SessionInv, Lone, V!Idle

LEMMA ExecuteKeeps ==
  ASSUME SessionInv, NEW m \in authTraffic, V!Execute(m)
  PROVE  SessionInv'
<1>1. Message(m) /\ m.at = "server" /\ m.kind = "mutation" /\ V!Serve /\ authSettled' = authSettled
      /\ authProcess # 0 /\ authSettled \in BOOLEAN
  BY DEF SessionInv, SessionTyped, V!Execute
<1>2. CASE authRemote
  <2> DEFINE c == V!Cookie(V!After(V!SessionOf(m.cookie), m.write))
             a == [m EXCEPT !.at = "browser", !.sets = {c}]
  <2>1. authTraffic' = (authTraffic \ {m}) \cup {a}
    BY <1>2 DEF V!Execute, V!Proxied, V!Answer
  <2>2. /\ Message(a) /\ a.kind = "mutation" /\ a.at = "browser" /\ a.write = m.write
        /\ a.sets = {c}
    BY <1>1 DEF Message
  <2>3. InStep(m) => InStep(a)
    <3> SUFFICES ASSUME InStep(m)
                 PROVE  InStep(a)
      OBVIOUS
    <3>1. authLocal = V!SessionOf(authJar) /\ m.cookie = authJar
      BY <1>1 DEF InStep
    <3>2. V!SessionOf(c) = V!After(authLocal, m.write)
      BY <3>1, OwnCookie
    <3> QED  BY <3>1, <3>2, <2>2 DEF InStep, SetsTo
  <2> QED  BY <1>1, <2>1, <2>2, <2>3, ServeKeeps
<1>3. CASE ~authRemote
  <2> DEFINE b == V!Cookie(V!SessionOf(m.cookie))
             a == [m EXCEPT !.at = "browser", !.bound = b]
  <2>1. authTraffic' = (authTraffic \ {m}) \cup {a}
    BY <1>3 DEF V!Execute
  <2>2. /\ Message(a) /\ a.kind = "mutation" /\ a.at = "browser" /\ a.bound = b
    BY <1>1 DEF Message
  <2>3. b # V!NoToken
    BY <1>1 DEF V!Cookie, V!NoToken
  <2>4. InStep(m) => InStep(a)
    BY <1>1, <2>2, <2>3 DEF InStep
  <2> QED  BY <1>1, <2>1, <2>2, <2>4, ServeKeeps
<1> QED  BY <1>2, <1>3

LEMMA ApplyKeeps ==
  ASSUME SessionInv, NEW m \in authTraffic, V!Apply(m)
  PROVE  SessionInv'
<1> DEFINE accepted == V!Presented(m) /\ m.id \notin authConsumed
           c == V!Cookie(V!After(V!SessionOf(m.cookie), m.write))
           sets == IF accepted THEN {c} ELSE {}
           a == [m EXCEPT !.at = "browser", !.sets = sets]
<1>1. /\ Message(m) /\ m.at = "server" /\ m.kind = "relay" /\ V!Serve
      /\ authSettled' = (authSettled /\ accepted)
  BY DEF SessionInv, SessionTyped, V!Apply
<1>2. authTraffic' = (authTraffic \ {m}) \cup {a}
  BY DEF V!Apply, V!Answer
<1>3. /\ Message(a) /\ a.kind = "relay" /\ a.at = "browser" /\ a.write = m.write
      /\ a.sets = sets /\ a.cookie = m.cookie
  <2> HIDE DEF sets
  <2> QED  BY <1>1 DEF Message
<1>4. authSettled' => authSettled /\ (InStep(m) => InStep(a))
  <2> SUFFICES ASSUME authSettled', InStep(m)
               PROVE  authSettled /\ InStep(a)
    BY <1>1 DEF SessionInv, SessionTyped
  <2>1. accepted /\ authSettled
    BY <1>1 DEF SessionInv, SessionTyped
  <2>2. authLocal = V!SessionOf(authJar) /\ m.cookie = authJar
    BY <1>1 DEF InStep
  <2>3. V!SessionOf(c) = V!After(authLocal, m.write)
    BY <2>2, OwnCookie
  <2>4. sets = {c}
    BY <2>1
  <2> HIDE DEF sets, c, accepted, a
  <2> QED  BY <2>1, <2>2, <2>3, <2>4, <1>1, <1>3 DEF InStep, SetsTo
<1>5. authSettled' \in BOOLEAN
  BY <1>1 DEF SessionInv, SessionTyped
<1> HIDE DEF a, sets, accepted, c
<1> QED  BY <1>1, <1>2, <1>3, <1>4, <1>5, ServeKeeps

LEMMA SessionWriteKeeps ==
  ASSUME SessionInv, NEW m \in authTraffic, V!Write(m)
  PROVE  SessionInv'
<1> DEFINE accepted == m.kind = "form" => V!Presented(m)
           c == V!Cookie(V!After(V!SessionOf(m.cookie), m.write))
           sets == IF accepted THEN {c} ELSE {}
           a == [m EXCEPT !.at = "browser", !.sets = sets]
<1>1. Message(m) /\ m.at = "server" /\ m.kind \in {"update", "form", "logout"} /\ V!Serve
      /\ authSettled' = authSettled /\ authSettled \in BOOLEAN
  BY DEF SessionInv, SessionTyped, V!Write
<1>2. authTraffic' = (authTraffic \ {m}) \cup {a}
  BY DEF V!Write, V!Answer
<1>3. /\ Message(a) /\ a.kind = m.kind /\ a.at = "browser" /\ a.write = m.write
      /\ a.sets = sets
  <2> HIDE DEF sets
  <2> QED  BY <1>1 DEF Message
<1>4. ASSUME InStep(m)
      PROVE  InStep(a)
  <2>1. /\ m.cookie = authJar
        /\ (m.kind = "update" => authLocal = V!After(V!SessionOf(authJar), m.write))
    BY <1>1, <1>4 DEF InStep
  <2>2. V!SessionOf(c) = V!After(V!SessionOf(authJar), m.write)
    BY <2>1, OwnCookie
  <2>3. m.kind = "update" => sets = {c}
    OBVIOUS
  <2> HIDE DEF sets, c, accepted, a
  <2>4. m.kind = "update" => SetsTo(a, authLocal)
    BY <2>1, <2>2, <2>3, <1>3 DEF SetsTo
  <2> QED  BY <2>4, <1>1, <1>3 DEF InStep
<1> HIDE DEF a, sets, accepted, c
<1> QED  BY <1>1, <1>2, <1>3, <1>4, ServeKeeps

\* A mutation or a form fails at the server.
LEMMA FailsKeeps ==
  ASSUME SessionInv, NEW m \in authTraffic, V!Fails(m)
  PROVE  SessionInv'
<1>1. Message(m) /\ m.at = "server" /\ m.kind \in {"mutation", "form"} /\ V!Serve
      /\ authSettled' = authSettled /\ authSettled \in BOOLEAN
  BY DEF SessionInv, SessionTyped, V!Fails
<1>2. CASE m.kind = "form"
  <2> DEFINE a == [m EXCEPT !.at = "browser", !.sets = {}]
  <2>1. authTraffic' = (authTraffic \ {m}) \cup {a}
    BY <1>2 DEF V!Fails, V!Answer
  <2>2. Message(a) /\ a.kind = "form" /\ a.at = "browser"
    BY <1>1, <1>2 DEF Message
  <2>3. InStep(a)
    BY <2>2 DEF InStep
  <2> QED  BY <1>1, <2>1, <2>2, <2>3, ServeKeeps
<1>3. CASE m.kind = "mutation"
  <2>1. /\ authTraffic' = authTraffic \ {m} /\ authJar' = authJar /\ authLocal' = authLocal
        /\ authLogins' = authLogins
        /\ authProcess' = authProcess /\ authConfigured' = authConfigured
        /\ authRemote' = authRemote
    BY <1>1, <1>3 DEF V!Fails, V!Serve, V!server
  <2>2. SessionTyped'
    BY <1>1, <2>1 DEF SessionInv, SessionTyped
  <2>3. authSettled' => authTraffic' = {} /\ authLogins' = {} /\ authLocal' = V!SessionOf(authJar)'
    BY <1>1, <1>3, <2>1 DEF SessionInv, Lone, InStep, V!SessionOf, V!Verified
  <2> QED  BY <2>2, <2>3, Quiet
<1> QED  BY <1>1, <1>2, <1>3

-----------------------------------------------------------------------------
(* The browser.                                                            *)

LEMMA RelayKeeps ==
  ASSUME SessionInv, NEW m \in authTraffic, V!Relay(m)
  PROVE  SessionInv'
<1> DEFINE a == [m EXCEPT !.kind = "relay", !.at = "server", !.cookie = authJar]
<1>1. Message(m) /\ m.kind = "mutation" /\ authSettled' = authSettled /\ authSettled \in BOOLEAN
  BY DEF SessionInv, SessionTyped, V!Relay, V!Receive
<1>2. V!Serve /\ authTraffic' = (authTraffic \ {m}) \cup {a}
  BY DEF V!Serve, V!Relay, V!Receive, V!server
<1>3. Message(a) /\ a.kind = "relay" /\ a.at = "server" /\ a.cookie = authJar
  BY <1>1 DEF Message
<1>4. InStep(m) => InStep(a)
  <2> HIDE DEF a
  <2> QED  BY <1>1, <1>3 DEF InStep
<1> QED  BY <1>1, <1>2, <1>3, <1>4, ServeKeeps

LEMMA RepeatKeeps ==
  ASSUME SessionInv, NEW m \in authTraffic, V!Repeat(m)
  PROVE  SessionInv'
<1> DEFINE a == [m EXCEPT !.at = "server", !.sets = {}]
<1>1. /\ Message(m) /\ m.kind = "relay" /\ m.at = "browser" /\ authSettled' = authSettled
      /\ authSettled \in BOOLEAN
  BY DEF SessionInv, SessionTyped, V!Repeat
<1>2. V!Serve /\ authTraffic' = (authTraffic \ {m}) \cup {a}
  BY DEF V!Serve, V!Repeat, V!server
<1>3. Message(a) /\ a.kind = "relay" /\ a.at = "server" /\ a.cookie = m.cookie
  BY <1>1 DEF Message
<1>4. InStep(m) => InStep(a)
  BY <1>1, <1>3 DEF InStep
<1> QED  BY <1>1, <1>2, <1>3, <1>4, ServeKeeps

\* The cookie that an answer sets is the one that the browser keeps.
LEMMA KeptShape ==
  ASSUME NEW m, NEW s, SetsTo(m, s)
  PROVE  V!SessionOf(V!Kept(m)) = s
<1>1. PICK c \in m.sets : TRUE
  BY DEF SetsTo
<1>2. V!Kept(m) \in m.sets
  BY <1>1 DEF V!Kept
<1> QED  BY <1>2 DEF SetsTo

LEMMA MirrorKeeps ==
  ASSUME SessionConstants, SessionInv, NEW m \in authTraffic, V!Mirror(m)
  PROVE  SessionInv'
<1>1. /\ Message(m) /\ m.at = "browser" /\ m.kind \in {"relay", "mutation"}
      /\ m.kind = "mutation" => m.bound = V!NoToken
      /\ authSettled' = authSettled /\ authTraffic' = authTraffic \ {m} /\ authLogins' = authLogins
      /\ authJar' = V!Kept(m)
      /\ authLocal' = V!Mirrored(authLocal, m.write)
      /\ authProcess' = authProcess /\ authConfigured' = authConfigured /\ authRemote' = authRemote
  BY DEF SessionInv, SessionTyped, V!Mirror, V!Receive, V!server
<1>2. V!Mirrored(authLocal, m.write) = V!After(authLocal, m.write)
  BY <1>1 DEF SessionConstants, Message, V!Mirrored, V!After
<1>3. SessionTyped'
  BY <1>1 DEF SessionInv, SessionTyped
<1>4. ASSUME authSettled'
      PROVE  authTraffic' = {} /\ authLogins' = {} /\ authLocal' = V!SessionOf(authJar)'
  <2>1. authTraffic = {m} /\ authLogins = {} /\ InStep(m)
    BY <1>1, <1>4 DEF SessionInv, Lone
  <2>2. SetsTo(m, V!After(authLocal, m.write))
    BY <2>1, <1>1 DEF InStep
  <2>3. V!SessionOf(authJar)' = V!SessionOf(V!Kept(m))
    BY <1>1 DEF V!SessionOf, V!Verified
  <2>4. V!SessionOf(V!Kept(m)) = V!After(authLocal, m.write)
    BY <2>2, KeptShape
  <2> QED  BY <2>1, <2>3, <2>4, <1>1, <1>2
<1> QED  BY <1>3, <1>4, Quiet

LEMMA UpdatedKeeps ==
  ASSUME SessionInv, NEW m \in authTraffic, V!Updated(m)
  PROVE  SessionInv'
<1>1. /\ m.at = "browser" /\ m.kind = "update"
      /\ authSettled' = authSettled /\ authTraffic' = authTraffic \ {m} /\ authLogins' = authLogins
      /\ authJar' = V!Kept(m)
      /\ authLocal' = authLocal /\ authProcess' = authProcess /\ authConfigured' = authConfigured
      /\ authRemote' = authRemote
  BY DEF V!Updated, V!Receive, V!server
<1>2. SessionTyped'
  BY <1>1 DEF SessionInv, SessionTyped
<1>3. ASSUME authSettled'
      PROVE  authTraffic' = {} /\ authLogins' = {} /\ authLocal' = V!SessionOf(authJar)'
  <2>1. authTraffic = {m} /\ authLogins = {} /\ SetsTo(m, authLocal)
    BY <1>1, <1>3 DEF SessionInv, Lone, InStep
  <2>2. V!SessionOf(authJar)' = V!SessionOf(V!Kept(m))
    BY <1>1 DEF V!SessionOf, V!Verified
  <2> QED  BY <2>1, <2>2, <1>1, KeptShape
<1> QED  BY <1>2, <1>3, Quiet

LEMMA RenderedKeeps ==
  ASSUME SessionInv, NEW m \in authTraffic, V!Rendered(m)
  PROVE  SessionInv'
<1>1. /\ authSettled' = authSettled /\ authTraffic' = authTraffic \ {m} /\ authLogins' = authLogins
      /\ authJar' = V!Kept(m)
      /\ authLocal' = V!SessionOf(V!Kept(m))
      /\ authProcess' = authProcess /\ authConfigured' = authConfigured /\ authRemote' = authRemote
  BY DEF V!Rendered, V!Receive, V!Loaded, V!server
<1>2. SessionTyped'
  BY <1>1 DEF SessionInv, SessionTyped
<1>3. authLocal' = V!SessionOf(authJar)'
  BY <1>1 DEF V!SessionOf, V!Verified
<1> QED  BY <1>1, <1>2, <1>3, Quiet DEF SessionInv, Lone

\* A page is loaded again, or a login returns to one.
LEMMA LoadKeeps ==
  ASSUME SessionInv, \/ V!Reload
                     \/ \E l \in authLogins, w \in Writes : V!Callback(l, w)
  PROVE  SessionInv'
<1>1. /\ authTraffic' = authTraffic /\ authLocal' = V!SessionOf(authJar')
      /\ authLogins' \subseteq authLogins
      /\ authProcess' = authProcess /\ authConfigured' = authConfigured /\ authRemote' = authRemote
      /\ authSettled' \in BOOLEAN
      /\ authSettled' => authTraffic = {} /\ \A l, k \in authLogins : l = k
  <2>1. CASE V!Reload
    BY <2>1 DEF SessionInv, SessionTyped, V!Reload, V!Loaded, V!Idle, V!server
  <2>2. ASSUME NEW l \in authLogins, NEW w \in Writes, V!Callback(l, w)
        PROVE  <1>1
    <3>1. /\ authTraffic' = authTraffic /\ authLocal' = V!SessionOf(authJar')
          /\ authLogins' \subseteq authLogins
          /\ authProcess' = authProcess /\ authConfigured' = authConfigured
          /\ authRemote' = authRemote
          /\ authSettled' = authSettled
      BY <2>2 DEF V!Callback, V!Loaded, V!server
    <3> QED  BY <3>1 DEF SessionInv, SessionTyped, Lone
  <2> QED  BY <2>1, <2>2
<1>2. SessionTyped'
  BY <1>1 DEF SessionInv, SessionTyped
<1>3. authLocal' = V!SessionOf(authJar)'
  BY <1>1 DEF V!SessionOf, V!Verified
<1> QED  BY <1>1, <1>2, <1>3, Quiet

LEMMA LoginKeeps ==
  ASSUME SessionInv, V!Login
  PROVE  SessionInv'
<1>1. /\ authTraffic' = authTraffic /\ authLocal' = authLocal /\ authJar' = authJar
      /\ authSettled' = (authSettled /\ V!Idle)
      /\ authLogins' = authLogins \cup {[nonce |-> authRequests + 1, process |-> authProcess]}
      /\ authProcess' = authProcess /\ authConfigured' = authConfigured /\ authRemote' = authRemote
  BY DEF V!Login, V!server
<1>2. SessionTyped'
  BY <1>1 DEF SessionInv, SessionTyped
<1>3. authSettled' => authTraffic' = {} /\ (\A l, k \in authLogins' : l = k) /\ authLogins' # {}
  BY <1>1 DEF SessionInv, SessionTyped, V!Idle
<1> QED  BY <1>2, <1>3, Quiet

LEMMA LoseKeeps ==
  ASSUME SessionInv, NEW m \in authTraffic, V!Lose(m)
  PROVE  SessionInv'
BY DEF SessionInv, SessionTyped, V!Lose, V!server

\* Configured keys outlive the server's process.
LEMMA RestartKeeps ==
  ASSUME SessionInv, V!Restart
  PROVE  SessionInv'
<1>1. /\ authTraffic' = authTraffic /\ authLocal' = authLocal /\ authJar' = authJar
      /\ authLogins' = authLogins
      /\ authSettled' = (authSettled /\ authConfigured) /\ authProcess' = authProcess + 1
      /\ authConfigured' = authConfigured /\ authRemote' = authRemote
  BY DEF V!Restart, V!server
<1>2. SessionTyped'
  BY <1>1 DEF SessionInv, SessionTyped
<1>3. ASSUME authSettled'
      PROVE  /\ authSettled /\ V!SessionOf(authJar)' = V!SessionOf(authJar)
             /\ \A m \in authTraffic : InStep(m) => InStep(m)'
  <2>1. authSettled /\ authConfigured
    BY <1>1, <1>3 DEF SessionInv, SessionTyped
  <2>2. V!SessionOf(authJar)' = V!SessionOf(authJar)
    BY <2>1, <1>1 DEF V!SessionOf, V!Verified
  <2>3. ASSUME NEW m \in authTraffic
        PROVE  InStep(m) => InStep(m)'
    <3>1. /\ V!After(V!SessionOf(authJar), m.write)' = V!After(V!SessionOf(authJar), m.write)
          /\ V!After(authLocal, m.write)' = V!After(authLocal, m.write)
      BY <2>2, <1>1 DEF V!After, V!Spread
    <3>2. /\ SetsTo(m, authLocal)' <=> SetsTo(m, authLocal)
          /\ SetsTo(m, V!After(authLocal, m.write))' <=> SetsTo(m, V!After(authLocal, m.write))
      BY <2>1, <3>1, <1>1 DEF SetsTo, V!SessionOf, V!Verified
    <3> QED  BY <2>2, <3>1, <3>2, <1>1 DEF InStep
  <2> QED  BY <2>1, <2>2, <2>3
<1> QED  BY <1>1, <1>2, <1>3 DEF SessionInv, Lone, V!Idle

-----------------------------------------------------------------------------
LEMMA SessionInit ==
  ASSUME V!Init
  PROVE  SessionInv
BY DEF V!Init, SessionInv, SessionTyped, Lone, V!Idle, V!SessionOf

LEMMA SessionNext ==
  ASSUME SessionConstants, SessionInv, [V!Next]_(V!vars)
  PROVE  SessionInv'
<1>1. ASSUME NEW w \in Writes, V!Mutate(w) \/ V!Submit(w) \/ V!LogOut(w) \/ V!Update(w)
      PROVE  SessionInv'
  <2>1. CASE V!Mutate(w)
    BY <2>1, SendKeeps DEF V!Mutate
  <2>2. CASE V!Submit(w)
    BY <2>2, SendKeeps DEF V!Submit
  <2>3. CASE V!LogOut(w)
    BY <2>3, SendKeeps DEF V!LogOut
  <2>4. CASE V!Update(w)
    BY <2>4, SendKeeps DEF V!Update
  <2> QED  BY <1>1, <2>1, <2>2, <2>3, <2>4
<1>2. ASSUME NEW m \in authTraffic, \/ V!Execute(m) \/ V!Apply(m) \/ V!Write(m) \/ V!Relay(m) \/ V!Mirror(m)
                                    \/ V!Updated(m) \/ V!Rendered(m) \/ V!Fails(m) \/ V!Lose(m) \/ V!Repeat(m)
      PROVE  SessionInv'
  BY <1>2, ExecuteKeeps, ApplyKeeps, SessionWriteKeeps, RelayKeeps, MirrorKeeps, UpdatedKeeps,
     RenderedKeeps, FailsKeeps, LoseKeeps, RepeatKeeps
<1>3. CASE V!Reload \/ \E l \in authLogins, w \in Writes : V!Callback(l, w)
  BY <1>3, LoadKeeps
<1>4. CASE V!Login \/ V!Restart
  BY <1>4, LoginKeeps, RestartKeeps
<1>5. CASE UNCHANGED V!vars
  <2>1. /\ SessionTyped' = SessionTyped /\ Lone' = Lone /\ V!Idle' = V!Idle
        /\ V!SessionOf(authJar)' = V!SessionOf(authJar)
        /\ \A m \in authTraffic : InStep(m)' = InStep(m)
    BY <1>5 DEF V!vars, SessionTyped, Lone, V!Idle, V!SessionOf, V!Verified, InStep, SetsTo, V!After, V!Spread
  <2> QED  BY <1>5, <2>1 DEF V!vars, SessionInv
<1> QED  BY <1>1, <1>2, <1>3, <1>4, <1>5 DEF V!Next

\* For any sessions, writes and bounds: the copy of a browser is in step with its cookie while
\* at most one message is on its way and nothing went wrong.
THEOREM SessionInvHolds ==
  ASSUME SessionConstants
  PROVE  V!Spec => []SessionInv
<1>1. V!Init => SessionInv
  BY SessionInit
<1>2. SessionInv /\ [V!Next]_(V!vars) => SessionInv'
  BY SessionNext
<1> QED  BY <1>1, <1>2, PTL DEF V!Spec

-----------------------------------------------------------------------------
(* The types of the session's cookies, tokens and messages.                *)

MessageTyped(m) ==
  /\ Message(m) /\ m.id \in 1 .. authRequests
  /\ m.cookie \in V!Cookies /\ m.bound \in V!Cookies /\ m.sets \subseteq V!Cookies

\* Inductive, with SessionTyped.
CookiesTyped ==
  /\ authMishaps \in 0 .. MaxMishaps /\ authProcess \in 1 .. authMishaps + 1
  /\ authRequests \in 0 .. MaxSends /\ authTxn \in 0 .. authRequests
  /\ authConsumed \subseteq 1 .. authRequests
  /\ authJar \in V!Cookies /\ authPage \in V!Cookies /\ authLocal \in V!Sessions
  /\ \A l \in authLogins : l.nonce \in 1 .. authRequests /\ l.process \in 1 .. authProcess
  /\ \A m \in authTraffic : MessageTyped(m)

\* What is written, and what is signed, are sessions and cookies.
LEMMA SessionsTyped ==
  ASSUME WriteConstants, CookiesTyped
  PROVE  /\ \A w \in Writes : w.session \in V!Sessions
         /\ \A s \in V!Sessions, w \in Writes : V!After(s, w) \in V!Sessions /\ V!Mirrored(s, w) \in V!Sessions
         /\ \A s \in V!Sessions : V!Cookie(s) \in V!Cookies
         /\ \A c \in V!Cookies : V!SessionOf(c) \in V!Sessions
         /\ \A m \in authTraffic : V!Kept(m) \in V!Cookies
         /\ V!NoToken \in V!Cookies
<1>1. (\A w \in Writes : w.session \in V!Sessions) /\ Empty \in V!Sessions
  BY DEF WriteConstants, V!Sessions
<1>2. ASSUME NEW s \in V!Sessions, NEW w \in Writes PROVE V!Spread(s, w.session) \in V!Sessions
  <2>1. DOMAIN s = DOMAIN Empty /\ \A k \in DOMAIN Empty : w.session[k] \in V!Values /\ s[k] \in V!Values
    BY DEF WriteConstants, V!Sessions
  <2>2. \A k \in DOMAIN Empty : s[k] = Empty[k] \/ \E v \in Writes : s[k] = v.session[k]
    BY DEF V!Sessions
  <2> QED  BY <2>1, <2>2 DEF V!Spread, V!Sessions
<1>3. authProcess \in 0 .. MaxMishaps + 1 /\ 0 \in 0 .. MaxMishaps + 1
  BY DEF WriteConstants, CookiesTyped
<1>4. \A s \in V!Sessions : V!Cookie(s) \in V!Cookies
  BY <1>3 DEF V!Cookie, V!Cookies
<1>5. \A c \in V!Cookies : V!SessionOf(c) \in V!Sessions
  BY <1>1 DEF V!SessionOf, V!Cookies
<1>6. ASSUME NEW m \in authTraffic PROVE V!Kept(m) \in V!Cookies
  <2>1. authJar \in V!Cookies /\ m.sets \subseteq V!Cookies
    BY DEF CookiesTyped, MessageTyped
  <2> QED  BY <2>1 DEF V!Kept
<1>7. V!NoToken \in V!Cookies
  BY <1>1, <1>3 DEF V!NoToken, V!Cookies
<1>8. \A s \in V!Sessions, w \in Writes : V!After(s, w) \in V!Sessions /\ V!Mirrored(s, w) \in V!Sessions
  BY <1>1, <1>2 DEF V!After, V!Mirrored
<1> QED  BY <1>1, <1>4, <1>5, <1>6, <1>7, <1>8

\* A message moves on.
LEMMA TrafficTyped ==
  ASSUME CookiesTyped, NEW m \in authTraffic, NEW a, Message(a), a.id = m.id,
         a.cookie \in V!Cookies, a.bound \in V!Cookies, a.sets \subseteq V!Cookies,
         authTraffic' = (authTraffic \ {m}) \cup {a}, authConsumed' \subseteq authConsumed \cup {m.id},
         UNCHANGED <<authJar, authPage, authLocal, authTxn, authLogins, authRequests, authProcess>>,
         authMishaps' = authMishaps
           \/ (authMishaps < MaxMishaps /\ authMishaps' = authMishaps + 1 /\ MaxMishaps \in Nat)
  PROVE  CookiesTyped'
<1>1. m.id \in 1 .. authRequests /\ MessageTyped(a)'
  BY DEF CookiesTyped, MessageTyped
<1>2. \A n \in authTraffic : MessageTyped(n)'
  BY DEF CookiesTyped, MessageTyped
<1>3. authMishaps' \in 0 .. MaxMishaps /\ authProcess' \in 1 .. authMishaps' + 1
  BY DEF CookiesTyped
<1>4. authConsumed' \subseteq 1 .. authRequests'
  BY <1>1 DEF CookiesTyped
<1> QED  BY <1>1, <1>2, <1>3, <1>4 DEF CookiesTyped

\* A message arrives, or is lost.
LEMMA ArrivedTyped ==
  ASSUME CookiesTyped, NEW m \in authTraffic, authTraffic' = authTraffic \ {m},
         authJar' \in V!Cookies, authPage' \in V!Cookies, authLocal' \in V!Sessions,
         UNCHANGED <<authConsumed, authTxn, authLogins, authRequests, authProcess>>,
         authMishaps' = authMishaps
           \/ (authMishaps < MaxMishaps /\ authMishaps' = authMishaps + 1 /\ MaxMishaps \in Nat)
  PROVE  CookiesTyped'
<1>1. \A n \in authTraffic : MessageTyped(n)'
  BY DEF CookiesTyped, MessageTyped
<1>2. authMishaps' \in 0 .. MaxMishaps /\ authProcess' \in 1 .. authMishaps' + 1
  BY DEF CookiesTyped
<1> QED  BY <1>1, <1>2 DEF CookiesTyped

LEMMA CookiesNext ==
  ASSUME WriteConstants, SessionTyped, CookiesTyped, V!Next
  PROVE  CookiesTyped'
<1>0. MaxSends \in Nat /\ MaxMishaps \in Nat
  BY DEF WriteConstants
<1>1. ASSUME NEW w \in Writes, NEW k \in {"mutation", "form", "logout", "update"}, V!Send(k, w),
             authLocal' \in V!Sessions
      PROVE  CookiesTyped'
  <2> PICK e : e = V!Sent(k, w)
    OBVIOUS
  <2>1. /\ authRequests' = authRequests + 1 /\ authRequests < MaxSends /\ authRequests \in Nat
        /\ authTraffic' = authTraffic \cup {e}
        /\ UNCHANGED <<authProcess, authConsumed, authJar, authTxn, authLogins, authPage, authMishaps>>
    BY <1>0, <1>1 DEF V!Send, V!server, CookiesTyped
  <2>2. Message(e) /\ e.id = authRequests'
    BY <2>1 DEF V!Sent, Message
  <2>3. e.cookie \in V!Cookies /\ e.bound \in V!Cookies /\ e.sets \subseteq V!Cookies
    BY SessionsTyped DEF V!Sent, CookiesTyped
  <2>4. MessageTyped(e)'
    BY <2>1, <2>2, <2>3 DEF MessageTyped
  <2>5. 1 .. authRequests \subseteq 1 .. authRequests' /\ authRequests' \in 0 .. MaxSends
    BY <1>0, <2>1
  <2>6. authTxn' \in 0 .. authRequests'
    BY <2>1 DEF CookiesTyped
  <2>7. \A m \in authTraffic : MessageTyped(m)'
    BY <2>5 DEF CookiesTyped, MessageTyped
  <2> QED  BY <1>1, <2>1, <2>4, <2>5, <2>6, <2>7 DEF CookiesTyped
<1>2. ASSUME NEW w \in Writes, V!Mutate(w) \/ V!Submit(w) \/ V!LogOut(w) \/ V!Update(w)
      PROVE  CookiesTyped'
  <2>1. authLocal \in V!Sessions /\ V!After(authLocal, w) \in V!Sessions
    BY SessionsTyped DEF CookiesTyped
  <2> QED  BY <1>1, <1>2, <2>1 DEF V!Mutate, V!Submit, V!LogOut, V!Update
<1>3. ASSUME NEW m \in authTraffic
      PROVE  /\ Message(m) /\ m.write \in Writes
             /\ m.cookie \in V!Cookies /\ m.bound \in V!Cookies /\ m.sets \subseteq V!Cookies
             /\ V!Cookie(V!SessionOf(m.cookie)) \in V!Cookies
             /\ V!Cookie(V!After(V!SessionOf(m.cookie), m.write)) \in V!Cookies
             /\ V!Mirrored(authLocal, m.write) \in V!Sessions
             /\ V!Kept(m) \in V!Cookies /\ V!SessionOf(V!Kept(m)) \in V!Sessions
             /\ V!Cookie(V!SessionOf(V!Kept(m))) \in V!Cookies
  <2>1. /\ Message(m) /\ m.cookie \in V!Cookies /\ m.bound \in V!Cookies /\ m.sets \subseteq V!Cookies
        /\ authLocal \in V!Sessions
    BY DEF CookiesTyped, MessageTyped
  <2>2. m.write \in Writes
    BY <2>1 DEF Message
  <2> QED  BY <2>1, <2>2, SessionsTyped
<1>4. ASSUME NEW m \in authTraffic, V!Serve, UNCHANGED authMishaps, authConsumed' \subseteq authConsumed \cup {m.id},
             NEW sets \in SUBSET V!Cookies, V!Answer(m, sets)
      PROVE  CookiesTyped'
  <2> DEFINE a == [m EXCEPT !.at = "browser", !.sets = sets]
  <2>1. Message(a) /\ a.id = m.id /\ a.cookie = m.cookie /\ a.bound = m.bound /\ a.sets = sets
    BY <1>3 DEF Message
  <2>2. /\ authTraffic' = (authTraffic \ {m}) \cup {a}
        /\ UNCHANGED <<authJar, authPage, authLocal, authTxn, authLogins, authRequests, authProcess>>
    BY <1>4 DEF V!Answer, V!Serve, V!server
  <2> HIDE DEF a
  <2> QED  BY <1>3, <1>4, <2>1, <2>2, TrafficTyped
<1>5. ASSUME NEW m \in authTraffic, V!Execute(m) PROVE CookiesTyped'
  <2>1. CASE authRemote
    BY <1>3, <1>4, <1>5, <2>1 DEF V!Execute, V!Proxied
  <2>2. CASE ~authRemote
    <3> DEFINE b == V!Cookie(V!SessionOf(m.cookie))
               a == [m EXCEPT !.at = "browser", !.bound = b]
    <3>1. Message(a) /\ a.id = m.id /\ a.cookie = m.cookie /\ a.bound = b /\ a.sets = m.sets
      BY <1>3 DEF Message
    <3>2. /\ authTraffic' = (authTraffic \ {m}) \cup {a} /\ UNCHANGED <<authConsumed, authMishaps>>
          /\ UNCHANGED <<authJar, authPage, authLocal, authTxn, authLogins, authRequests, authProcess>>
      BY <1>5, <2>2 DEF V!Execute, V!Serve, V!server
    <3>3. b \in V!Cookies
      BY <1>3
    <3> HIDE DEF a, b
    <3> QED  BY <1>3, <3>1, <3>2, <3>3, TrafficTyped
  <2> QED  BY <2>1, <2>2
<1>6. ASSUME NEW m \in authTraffic, V!Apply(m) \/ V!Write(m) PROVE CookiesTyped'
  BY <1>3, <1>4, <1>6 DEF V!Apply, V!Write
<1>7. ASSUME NEW m \in authTraffic, V!Relay(m) PROVE CookiesTyped'
  <2> DEFINE a == [m EXCEPT !.kind = "relay", !.at = "server", !.cookie = authJar]
  <2>1. Message(a) /\ a.id = m.id /\ a.cookie = authJar /\ a.bound = m.bound /\ a.sets = m.sets
    BY <1>3 DEF Message
  <2>2. /\ authTraffic' = (authTraffic \ {m}) \cup {a} /\ UNCHANGED <<authConsumed, authMishaps>>
        /\ UNCHANGED <<authJar, authPage, authLocal, authTxn, authLogins, authRequests, authProcess>>
    BY <1>7 DEF V!Relay, V!Receive, V!server
  <2>3. authJar \in V!Cookies
    BY DEF CookiesTyped
  <2> HIDE DEF a
  <2> QED  BY <1>3, <2>1, <2>2, <2>3, TrafficTyped
<1>8. ASSUME NEW m \in authTraffic, V!Mirror(m) \/ V!Updated(m) \/ V!Rendered(m) PROVE CookiesTyped'
  <2>1. /\ authTraffic' = authTraffic \ {m} /\ UNCHANGED <<authMishaps, authConsumed, authTxn, authLogins, authRequests>>
        /\ authProcess' = authProcess /\ authConfigured' = authConfigured /\ authJar' = V!Kept(m)
    BY <1>8 DEF V!Mirror, V!Updated, V!Rendered, V!Receive, V!server
  <2>2. authPage' \in V!Cookies /\ authLocal' \in V!Sessions
    BY <1>3, <1>8 DEF V!Mirror, V!Updated, V!Rendered, V!Loaded, CookiesTyped
  <2> QED  BY <1>3, <2>1, <2>2, ArrivedTyped
<1>9. ASSUME V!Reload \/ \E l \in authLogins, w \in Writes : V!Callback(l, w) PROVE CookiesTyped'
  <2>1. /\ UNCHANGED <<authConsumed, authTraffic, authRequests, authMishaps, authProcess>>
        /\ authTxn' = authTxn \/ authTxn' = 0
        /\ authLogins' \subseteq authLogins
    BY <1>9 DEF V!Reload, V!Callback, V!server
  <2>2. authJar' \in V!Cookies
    BY <1>9, SessionsTyped DEF V!Reload, V!Callback, CookiesTyped
  <2>3. authLocal' = V!SessionOf(authJar') /\ authPage' = V!Cookie(V!SessionOf(authJar'))
    BY <1>9 DEF V!Reload, V!Callback, V!Loaded
  <2>4. authLocal' \in V!Sessions /\ authPage' \in V!Cookies
    BY <2>2, <2>3, SessionsTyped
  <2>5. \A m \in authTraffic : MessageTyped(m)'
    BY <2>1 DEF CookiesTyped, MessageTyped
  <2>6. authTxn' \in 0 .. authRequests'
    BY <2>1 DEF CookiesTyped
  <2> QED  BY <2>1, <2>2, <2>4, <2>5, <2>6 DEF CookiesTyped
<1>10. ASSUME V!Login PROVE CookiesTyped'
  <2>1. /\ authRequests' = authRequests + 1 /\ authTxn' = authRequests + 1 /\ authRequests < MaxSends
        /\ authLogins' = authLogins \cup {[nonce |-> authRequests + 1, process |-> authProcess]}
        /\ UNCHANGED <<authProcess, authConsumed, authJar, authPage, authLocal, authTraffic, authMishaps>>
    BY <1>10 DEF V!Login, V!server
  <2>2. /\ 1 .. authRequests \subseteq 1 .. authRequests' /\ authRequests' \in 0 .. MaxSends
        /\ authTxn' \in 0 .. authRequests' /\ authRequests + 1 \in 1 .. authRequests'
    BY <1>0, <2>1 DEF CookiesTyped
  <2>3. authProcess \in 1 .. authProcess
    BY DEF CookiesTyped
  <2>4. \A m \in authTraffic : MessageTyped(m)'
    BY <2>1, <2>2 DEF CookiesTyped, MessageTyped
  <2> QED  BY <2>1, <2>2, <2>3, <2>4 DEF CookiesTyped
<1>11. ASSUME NEW m \in authTraffic, V!Fails(m) PROVE CookiesTyped'
  <2>1. /\ authMishaps < MaxMishaps /\ authMishaps' = authMishaps + 1 /\ authConsumed' = authConsumed
        /\ UNCHANGED <<authJar, authPage, authLocal, authTxn, authLogins, authRequests, authProcess>>
    BY <1>11 DEF V!Fails, V!Mishap, V!Serve, V!server
  <2>2. CASE m.kind = "mutation"
    <3>1. authTraffic' = authTraffic \ {m}
      BY <1>11, <2>2 DEF V!Fails
    <3>2. authJar \in V!Cookies /\ authPage \in V!Cookies /\ authLocal \in V!Sessions
      BY DEF CookiesTyped
    <3> QED  BY <1>0, <2>1, <3>1, <3>2, ArrivedTyped
  <2>3. CASE m.kind # "mutation"
    <3> DEFINE a == [m EXCEPT !.at = "browser", !.sets = {}]
    <3>1. Message(a) /\ a.id = m.id /\ a.cookie = m.cookie /\ a.bound = m.bound /\ a.sets = {}
      BY <1>3 DEF Message
    <3>2. authTraffic' = (authTraffic \ {m}) \cup {a}
      BY <1>11, <2>3 DEF V!Fails, V!Answer
    <3> HIDE DEF a
    <3> QED  BY <1>0, <1>3, <2>1, <3>1, <3>2, TrafficTyped
  <2> QED  BY <2>2, <2>3
<1>12. ASSUME NEW m \in authTraffic, V!Lose(m) PROVE CookiesTyped'
  <2>1. /\ authMishaps < MaxMishaps /\ authMishaps' = authMishaps + 1 /\ authTraffic' = authTraffic \ {m}
        /\ UNCHANGED <<authConsumed, authJar, authPage, authTxn, authLogins, authRequests, authProcess>>
        /\ authLocal' = authLocal \/ authLocal' = V!Mirrored(authLocal, m.write)
    BY <1>12 DEF V!Lose, V!Mishap, V!server
  <2>2. authJar \in V!Cookies /\ authPage \in V!Cookies /\ authLocal \in V!Sessions
    BY DEF CookiesTyped
  <2> QED  BY <1>0, <1>3, <2>1, <2>2, ArrivedTyped
<1>13. ASSUME NEW m \in authTraffic, V!Repeat(m) PROVE CookiesTyped'
  <2> DEFINE a == [m EXCEPT !.at = "server", !.sets = {}]
  <2>1. Message(a) /\ a.id = m.id /\ a.cookie = m.cookie /\ a.bound = m.bound /\ a.sets = {}
    BY <1>3 DEF Message
  <2>2. /\ authTraffic' = (authTraffic \ {m}) \cup {a} /\ authConsumed' = authConsumed
        /\ authMishaps < MaxMishaps /\ authMishaps' = authMishaps + 1
        /\ UNCHANGED <<authJar, authPage, authLocal, authTxn, authLogins, authRequests, authProcess>>
    BY <1>13 DEF V!Repeat, V!Mishap, V!server
  <2> HIDE DEF a
  <2> QED  BY <1>0, <1>3, <2>1, <2>2, TrafficTyped
<1>14. ASSUME V!Restart PROVE CookiesTyped'
  <2>1. /\ authMishaps < MaxMishaps /\ authMishaps' = authMishaps + 1 /\ authProcess' = authProcess + 1
        /\ authConsumed' = {}
        /\ UNCHANGED <<authJar, authTxn, authLogins, authPage, authLocal, authTraffic, authRequests>>
    BY <1>14 DEF V!Restart, V!Mishap
  <2>2. /\ authMishaps' \in 0 .. MaxMishaps /\ authProcess' \in 1 .. authMishaps' + 1
        /\ 1 .. authProcess \subseteq 1 .. authProcess'
    BY <1>0, <2>1 DEF CookiesTyped
  <2>3. \A m \in authTraffic : MessageTyped(m)'
    BY <2>1 DEF CookiesTyped, MessageTyped
  <2> QED  BY <2>1, <2>2, <2>3 DEF CookiesTyped
<1> QED  BY <1>2, <1>5, <1>6, <1>7, <1>8, <1>9, <1>10, <1>11, <1>12, <1>13, <1>14 DEF V!Next

\* For any sessions, writes and bounds: cookies are of sessions that were written or merged and of
\* processes that ran, and tokens and answers of requests that were sent (session.ts, auth-token.ts).
THEOREM SessionTypeCorrect ==
  ASSUME WriteConstants
  PROVE  V!Spec => []V!TypeOK
<1>1. V!Init => CookiesTyped
  <2> SUFFICES ASSUME V!Init PROVE CookiesTyped
    OBVIOUS
  <2>1. Empty \in V!Sessions /\ MaxSends \in Nat /\ MaxMishaps \in Nat
    BY DEF WriteConstants, V!Sessions
  <2> QED  BY <2>1 DEF V!Init, CookiesTyped, V!Cookies
<1>2. SessionInv /\ CookiesTyped /\ [V!Next]_(V!vars) => CookiesTyped'
  <2> SUFFICES ASSUME SessionInv, CookiesTyped, [V!Next]_(V!vars) PROVE CookiesTyped'
    OBVIOUS
  <2>1. CASE UNCHANGED V!vars
    BY <2>1 DEF V!vars, CookiesTyped, MessageTyped
  <2> QED  BY <2>1, CookiesNext DEF SessionInv
<1>3. CookiesTyped => V!TypeOK
  <2> SUFFICES ASSUME CookiesTyped PROVE V!TypeOK
    OBVIOUS
  <2>1. MaxSends \in Nat /\ MaxMishaps \in Nat
    BY DEF WriteConstants
  <2>2. authProcess \in 1 .. MaxMishaps + 1 /\ authTxn \in 0 .. MaxSends /\ 1 .. authRequests \subseteq 1 .. MaxSends
    BY <2>1 DEF CookiesTyped
  <2>3. \A m \in authTraffic : /\ m.id \in 1 .. authRequests /\ m.write \in Writes
                               /\ m.cookie \in V!Cookies /\ m.bound \in V!Cookies /\ m.sets \subseteq V!Cookies
                               /\ m.at \in {"server", "browser"}
                               /\ m.kind \in {"mutation", "relay", "update", "form", "logout"}
    BY DEF CookiesTyped, MessageTyped, Message
  <2> QED  BY <2>2, <2>3 DEF CookiesTyped, V!TypeOK
<1>4. WriteConstants => SessionConstants
  BY DEF WriteConstants
<1> QED  BY <1>1, <1>2, <1>3, <1>4, SessionInvHolds, PTL DEF V!Spec

-----------------------------------------------------------------------------
(***************************************************************************)
(* The orchestrator's runs keep apart, and ask every plugin, whatever      *)
(* answers, fails or dies.                                                 *)
(***************************************************************************)

Lefts == UNION {[hs -> SUBSET H!Names] : hs \in SUBSET H!Hooks}
RunRecord == [status : H!Statuses, step : Nat, left : Lefts, missed : BOOLEAN]

\* As TypeOK, with the type of the runs' records.
HostTyped ==
  /\ hostTransport \in {"stdio", "websocket"}
  /\ hostPhase \in {"spawning", "configuring", "ready", "closing", "closed", "failed"}
  /\ hostProcesses \in [H!Names -> {"starting", "registered", "dead", "signalled"}]
  /\ hostConnections \subseteq H!Names /\ hostRequests \subseteq H!Request
  /\ hostWorking \subseteq {H!RequestOf(r, h, p) : r \in H!AllRuns, h \in H!Hooks, p \in H!Names}
  /\ hostFaults \in 0 .. MaxFaults

RunsTyped ==
  /\ hostRuns \in [H!AllRuns -> RunRecord]
  /\ \A r \in H!AllRuns :
       /\ hostRuns[r].step \in 0 .. Len(H!StepsOf(r))
       /\ \A h \in DOMAIN hostRuns[r].left : hostRuns[r].left[h] \subseteq H!Takers(h)

\* A request is one that a run under way, or that has failed, still waits for.
Out ==
  \A q \in hostRequests :
    /\ hostRuns[q.run].status \in {"running", "failed"}
    /\ q.hook \in DOMAIN hostRuns[q.run].left /\ q.plugin \in hostRuns[q.run].left[q.hook]

\* A hook has one request out, or one for each plugin.
Alone ==
  \A q, w \in hostRequests :
    /\ q.run = w.run /\ q.hook = w.hook
    /\ q.hook \notin Parallel \/ q.plugin = w.plugin
    => q = w

\* Only a run that has failed lacks an answer.
Missing == \A r \in H!AllRuns : hostRuns[r].status # "failed" => ~hostRuns[r].missed

\* A run that takes the lock has begun in its turn.
InTurn ==
  \A r \in H!Locked : hostRuns[r].status \in {"running", "done", "failed"} => H!Turn(r)

\* No hook runs before every plugin has registered.
SetupIdle == hostPhase = "spawning" => hostRuns[0].status = "idle"

RunsInv == RunsTyped /\ Out /\ Alone /\ Missing /\ InTurn
HostInv == HostTyped /\ RunsInv /\ SetupIdle /\ H!NoneLeftRunning

-----------------------------------------------------------------------------
\* At most one plugin comes first, and it is one of those that are asked for.
LEMMA FirstIsOne ==
  ASSUME HostConstants, NEW ps, NEW p \in H!First(ps)
  PROVE  p \in ps /\ \A o \in H!First(ps) : o = p
<1> SUFFICES ASSUME NEW o \in H!First(ps)
             PROVE  p \in ps /\ o = p
  BY DEF H!First
<1>1. PICK i \in DOMAIN Plugins : /\ p = Plugins[i] /\ Plugins[i] \in ps
                                  /\ \A m \in DOMAIN Plugins : m < i => Plugins[m] \notin ps
  BY DEF H!First
<1>2. PICK j \in DOMAIN Plugins : /\ o = Plugins[j] /\ Plugins[j] \in ps
                                  /\ \A m \in DOMAIN Plugins : m < j => Plugins[m] \notin ps
  BY DEF H!First
<1>3. i \in Nat /\ j \in Nat /\ ~(i < j) /\ ~(j < i)
  BY <1>1, <1>2 DEF HostConstants
<1>4. i = j
  BY <1>3
<1> QED  BY <1>1, <1>2, <1>4

\* Whoever is asked is one of those that are asked for, and alone unless the hook is parallel.
LEMMA AsksSome ==
  ASSUME HostConstants, NEW h, NEW ps
  PROVE  /\ H!Asks(h, ps) \subseteq ps
         /\ h \notin Parallel => \A p, o \in H!Asks(h, ps) : p = o
BY FirstIsOne DEF H!Asks

\* Which plugins are left of each hook, when those left of one of them change.
LEMMA LeftsShape ==
  ASSUME NEW f \in Lefts
  PROVE  /\ DOMAIN f \in SUBSET H!Hooks /\ f = [h \in DOMAIN f |-> f[h]]
         /\ \A h \in DOMAIN f : f[h] \in SUBSET H!Names
         /\ \A h \in DOMAIN f, x \in SUBSET H!Names :
              /\ [f EXCEPT ![h] = x] \in Lefts /\ DOMAIN [f EXCEPT ![h] = x] = DOMAIN f
              /\ [f EXCEPT ![h] = x][h] = x
              /\ \A g \in DOMAIN f \ {h} : [f EXCEPT ![h] = x][g] = f[g]
<1>1. PICK hs \in SUBSET H!Hooks : f \in [hs -> SUBSET H!Names]
  BY DEF Lefts
<1>2. \A h \in hs, x \in SUBSET H!Names : [f EXCEPT ![h] = x] \in [hs -> SUBSET H!Names]
  BY <1>1
<1>3. [hs -> SUBSET H!Names] \subseteq Lefts
  BY DEF Lefts
<1> QED  BY <1>1, <1>2, <1>3

\* All the takers of each hook are left when a step opens.
LEMMA OpeningLefts ==
  ASSUME NEW hs \in SUBSET H!Hooks
  PROVE  [h \in hs |-> H!Takers(h)] \in Lefts
<1>1. [h \in hs |-> H!Takers(h)] \in [hs -> SUBSET H!Names]
  BY DEF H!Takers
<1> QED  BY <1>1 DEF Lefts

LEMMA StepHooks ==
  ASSUME HostConstants, NEW r \in H!AllRuns, NEW k \in 1 .. Len(H!StepsOf(r))
  PROVE  H!StepsOf(r)[k] \in SUBSET H!Hooks /\ Len(H!StepsOf(r)) \in Nat
BY DEF HostConstants, H!StepsOf

LEMMA FirstStep ==
  ASSUME HostConstants, NEW r \in H!AllRuns
  PROVE  1 \in 1 .. Len(H!StepsOf(r))
BY DEF HostConstants, H!StepsOf

\* What is asked is a request.
LEMMA AskedShape ==
  ASSUME HostTyped, NEW r \in H!AllRuns, NEW h \in H!Hooks, NEW p \in H!Names
  PROVE  /\ H!Asked(r, h, p) \in H!Request
         /\ H!Asked(r, h, p).run = r /\ H!Asked(r, h, p).hook = h /\ H!Asked(r, h, p).plugin = p
BY DEF H!Asked, H!Request, HostTyped

LEMMA SentShape ==
  ASSUME NEW qs \in SUBSET H!Request
  PROVE  H!Sent(qs) \subseteq {H!RequestOf(r, h, p) : r \in H!AllRuns, h \in H!Hooks, p \in H!Names}
BY DEF H!Sent, H!Request

\* The first requests of a step are of the run, of the step's hooks, and one or all of a hook's
\* plugins.
LEMMA OpeningShape ==
  ASSUME HostConstants, HostTyped, NEW r \in H!AllRuns, NEW hs \in SUBSET H!Hooks
  PROVE  /\ H!Opening(r, hs) \subseteq H!Request
         /\ \A q \in H!Opening(r, hs) : q.run = r /\ q.hook \in hs /\ q.plugin \in H!Takers(q.hook)
         /\ \A q, w \in H!Opening(r, hs) :
              q.hook = w.hook /\ (q.hook \notin Parallel \/ q.plugin = w.plugin) => q = w
<1>1. \A q \in H!Opening(r, hs) : \E h \in hs : \E p \in H!Asks(h, H!Takers(h)) : q = H!Asked(r, h, p)
  BY DEF H!Opening
<1>2. \A h \in hs : \A p \in H!Asks(h, H!Takers(h)) : p \in H!Takers(h) /\ p \in H!Names
  BY AsksSome DEF H!Takers
<1>3. \A q \in H!Opening(r, hs) : \E h \in hs : \E p \in H!Asks(h, H!Takers(h)) :
        /\ q = H!Asked(r, h, p) /\ q \in H!Request
        /\ q.run = r /\ q.hook = h /\ q.plugin = p /\ p \in H!Takers(h)
  BY <1>1, <1>2, AskedShape
<1>4. ASSUME NEW q \in H!Opening(r, hs), NEW w \in H!Opening(r, hs), q.hook = w.hook,
             q.hook \notin Parallel \/ q.plugin = w.plugin
      PROVE  q = w
  <2>1. PICK h \in hs : \E p \in H!Asks(h, H!Takers(h)) :
          q = H!Asked(r, h, p) /\ q.hook = h /\ q.plugin = p
    BY <1>3
  <2>2. PICK g \in hs : \E o \in H!Asks(g, H!Takers(g)) :
          w = H!Asked(r, g, o) /\ w.hook = g /\ w.plugin = o
    BY <1>3
  <2>3. PICK p \in H!Asks(h, H!Takers(h)) : q = H!Asked(r, h, p) /\ q.hook = h /\ q.plugin = p
    BY <2>1
  <2>4. PICK o \in H!Asks(g, H!Takers(g)) : w = H!Asked(r, g, o) /\ w.hook = g /\ w.plugin = o
    BY <2>2
  <2>5. g = h /\ o = p
    BY <1>4, <2>3, <2>4, AsksSome
  <2> QED  BY <2>3, <2>4, <2>5
<1> QED  BY <1>3, <1>4

-----------------------------------------------------------------------------
(* What a step of a run, an answer and a rejection do to the runs.         *)

\* A run without requests enters a step.
LEMMA EnterKeeps ==
  ASSUME HostConstants, HostTyped, RunsInv, NEW r \in H!AllRuns, NEW k \in 1 .. Len(H!StepsOf(r)),
         hostRuns[r].status \in {"idle", "queued", "running"}, \A q \in hostRequests : q.run # r,
         r \in H!Locked => H!Turn(r), H!Enter(r, k)
  PROVE  /\ RunsInv' /\ hostRequests' \subseteq H!Request
         /\ hostWorking' \subseteq {H!RequestOf(s, h, p) : s \in H!AllRuns, h \in H!Hooks, p \in H!Names}
         /\ \A s \in H!AllRuns \ {r} : hostRuns'[s] = hostRuns[s]
<1> DEFINE hs == H!StepsOf(r)[k]
           qs == H!Opening(r, hs)
           left == [h \in hs |-> H!Takers(h)]
<1>1. /\ hs \in SUBSET H!Hooks /\ Len(H!StepsOf(r)) \in Nat /\ left \in Lefts /\ k \in Nat
      /\ hostRuns \in [H!AllRuns -> RunRecord] /\ hostRuns[r] \in RunRecord
  BY StepHooks, OpeningLefts DEF RunsInv, RunsTyped
<1>2. /\ qs \subseteq H!Request
      /\ \A q \in qs : q.run = r /\ q.hook \in hs /\ q.plugin \in H!Takers(q.hook)
      /\ \A q, w \in qs :
           q.hook = w.hook /\ (q.hook \notin Parallel \/ q.plugin = w.plugin) => q = w
  BY <1>1, OpeningShape
<1>3. hostRequests \subseteq H!Request
      /\ hostWorking \subseteq {H!RequestOf(s, h, p) : s \in H!AllRuns, h \in H!Hooks, p \in H!Names}
  BY DEF HostTyped
<1>4. CASE /\ hostRuns' = [hostRuns EXCEPT ![r].status = "failed", ![r].missed = TRUE]
           /\ UNCHANGED <<hostRequests, hostWorking>>
  <2>1. /\ hostRuns' \in [H!AllRuns -> RunRecord] /\ hostRuns'[r].status = "failed"
        /\ hostRuns'[r].step = hostRuns[r].step /\ hostRuns'[r].left = hostRuns[r].left
        /\ \A s \in H!AllRuns \ {r} : hostRuns'[s] = hostRuns[s]
    BY <1>1, <1>4 DEF RunRecord, H!Statuses
  <2>2. RunsTyped'
    BY <2>1 DEF RunsInv, RunsTyped
  <2>3. Out' /\ Alone' /\ Missing'
    BY <1>3, <1>4, <2>1 DEF RunsInv, Out, Alone, Missing, H!Request
  <2>4. InTurn'
    BY <2>1 DEF RunsInv, InTurn, H!Turn, H!Settled, H!Locked, H!AllRuns
  <2> QED  BY <1>3, <1>4, <2>1, <2>2, <2>3, <2>4 DEF RunsInv
<1>5. CASE /\ hostRuns' = [hostRuns EXCEPT ![r].status = "running", ![r].step = k, ![r].left = left]
           /\ hostRequests' = hostRequests \cup qs /\ hostWorking' = hostWorking \cup H!Sent(qs)
  <2>1. /\ hostRuns' \in [H!AllRuns -> RunRecord] /\ hostRuns'[r].status = "running"
        /\ hostRuns'[r].step = k /\ hostRuns'[r].left = left /\ hostRuns'[r].missed = hostRuns[r].missed
        /\ \A s \in H!AllRuns \ {r} : hostRuns'[s] = hostRuns[s]
    BY <1>1, <1>5 DEF RunRecord, H!Statuses
  <2>2. RunsTyped'
    BY <1>1, <2>1 DEF RunsInv, RunsTyped
  <2>3. Out'
    BY <1>2, <1>3, <1>5, <2>1 DEF RunsInv, Out, H!Request
  <2>4. Alone'
    BY <1>2, <1>5 DEF RunsInv, Alone
  <2>5. Missing'
    BY <2>1 DEF RunsInv, Missing
  <2>6. InTurn'
    BY <2>1 DEF RunsInv, InTurn, H!Turn, H!Settled, H!Locked, H!AllRuns
  <2>7. H!Sent(qs) \subseteq {H!RequestOf(s, h, p) : s \in H!AllRuns, h \in H!Hooks, p \in H!Names}
    BY <1>2, SentShape
  <2> QED  BY <1>2, <1>3, <1>5, <2>1, <2>2, <2>3, <2>4, <2>5, <2>6, <2>7 DEF RunsInv
<1> QED  BY <1>4, <1>5 DEF H!Enter

\* Rejected requests fail their runs, and change nothing else of them.
LEMMA RejectedShape ==
  ASSUME RunsTyped, NEW qs \in SUBSET hostRequests
  PROVE  /\ H!Rejected(qs, hostRuns) \in [H!AllRuns -> RunRecord]
         /\ \A r \in H!AllRuns :
              LET n == H!Rejected(qs, hostRuns)[r]
              IN  /\ n.step = hostRuns[r].step /\ n.left = hostRuns[r].left
                  /\ (\A q \in qs : q.run # r) => n = hostRuns[r]
                  /\ n.status = hostRuns[r].status \/ (hostRuns[r].status = "running" /\ n.status = "failed")
                  /\ n.missed = hostRuns[r].missed \/ \E q \in qs : q.run = r
                  /\ (\E q \in qs : q.run = r) => n.status # "running"
<1> SUFFICES ASSUME NEW r \in H!AllRuns
             PROVE  LET n == H!Rejected(qs, hostRuns)[r]
                    IN  /\ n \in RunRecord /\ n.step = hostRuns[r].step /\ n.left = hostRuns[r].left
                        /\ (\A q \in qs : q.run # r) => n = hostRuns[r]
                        /\ n.status = hostRuns[r].status
                           \/ (hostRuns[r].status = "running" /\ n.status = "failed")
                        /\ n.missed = hostRuns[r].missed \/ \E q \in qs : q.run = r
                        /\ (\E q \in qs : q.run = r) => n.status # "running"
  BY DEF H!Rejected
<1>1. hostRuns[r] \in RunRecord
  BY DEF RunsTyped
<1>2. CASE \E q \in qs : q.run = r
  BY <1>1, <1>2 DEF H!Rejected, RunRecord, H!Statuses
<1>3. CASE \A q \in qs : q.run # r
  BY <1>1, <1>3 DEF H!Rejected
<1> QED  BY <1>2, <1>3

\* Rejected requests are gone, and leave the runs as they should be.
LEMMA RejectedKeeps ==
  ASSUME HostConstants, HostTyped, RunsInv, NEW qs \in SUBSET hostRequests,
         hostRuns' = H!Rejected(qs, hostRuns), hostRequests' = hostRequests \ qs
  PROVE  /\ RunsInv' /\ hostRequests' \subseteq H!Request
         /\ hostRuns[0].status = "idle" => hostRuns'[0].status = "idle"
<1>1. /\ hostRuns' \in [H!AllRuns -> RunRecord] /\ hostRequests \subseteq H!Request
      /\ \A r \in H!AllRuns :
           /\ hostRuns'[r].step = hostRuns[r].step /\ hostRuns'[r].left = hostRuns[r].left
           /\ (\A q \in qs : q.run # r) => hostRuns'[r] = hostRuns[r]
           /\ \/ hostRuns'[r].status = hostRuns[r].status
              \/ hostRuns[r].status = "running" /\ hostRuns'[r].status = "failed"
           /\ hostRuns'[r].missed = hostRuns[r].missed \/ \E q \in qs : q.run = r
           /\ (\E q \in qs : q.run = r) => hostRuns'[r].status # "running"
  BY RejectedShape DEF RunsInv, HostTyped
<1>2. RunsTyped'
  BY <1>1 DEF RunsInv, RunsTyped
<1>3. \A q \in hostRequests : q.run \in H!AllRuns
  BY <1>1 DEF H!Request
<1>4. Out'
  BY <1>1, <1>3 DEF RunsInv, Out
<1>5. Alone'
  BY DEF RunsInv, Alone
<1>6. ASSUME NEW r \in H!AllRuns, hostRuns'[r].status # "failed"
      PROVE  ~hostRuns'[r].missed
  <2>1. hostRuns[r].status = hostRuns'[r].status /\ ~hostRuns[r].missed
    BY <1>1, <1>6 DEF RunsInv, Missing
  <2>2. ~\E q \in qs : q.run = r
    BY <1>1, <1>3, <1>6, <2>1 DEF RunsInv, Out
  <2> QED  BY <1>1, <2>1, <2>2
<1>7. InTurn'
  BY <1>1 DEF RunsInv, InTurn, H!Turn, H!Settled, H!Locked, H!AllRuns
<1> QED  BY <1>1, <1>2, <1>4, <1>5, <1>6, <1>7 DEF RunsInv, Missing, H!AllRuns

\* An answer is taken off the run, and the next plugin of the hook is asked.
LEMMA AnsweredKeeps ==
  ASSUME HostConstants, HostTyped, RunsInv, NEW q \in hostRequests, H!Answered(q)
  PROVE  /\ RunsInv' /\ hostRequests' \subseteq H!Request
         /\ hostWorking' \subseteq {H!RequestOf(r, h, p) : r \in H!AllRuns, h \in H!Hooks, p \in H!Names}
         /\ hostRuns[0].status = "idle" => hostRuns'[0].status = "idle"
<1> DEFINE left == hostRuns[q.run].left[q.hook] \ {q.plugin}
           more == IF q.hook \in Parallel THEN {}
                   ELSE {H!Asked(q.run, q.hook, p) : p \in H!First(left)}
<1>1. /\ hostRuns' = [hostRuns EXCEPT ![q.run].left[q.hook] = left]
      /\ hostRequests' = (hostRequests \ {q}) \cup more
      /\ hostWorking' = (hostWorking \ {H!RequestOf(q.run, q.hook, q.plugin)}) \cup H!Sent(more)
  BY DEF H!Answered
<1>2. /\ hostRequests \subseteq H!Request /\ q \in H!Request
      /\ q.run \in H!AllRuns /\ q.hook \in H!Hooks /\ q.plugin \in H!Names
      /\ hostWorking \subseteq {H!RequestOf(r, h, p) : r \in H!AllRuns, h \in H!Hooks, p \in H!Names}
  BY DEF HostTyped, H!Request
<1>3. /\ hostRuns \in [H!AllRuns -> RunRecord] /\ hostRuns[q.run] \in RunRecord
      /\ hostRuns[q.run].left \in Lefts /\ q.hook \in DOMAIN hostRuns[q.run].left
      /\ hostRuns[q.run].status \in {"running", "failed"}
  BY <1>2 DEF RunsInv, RunsTyped, RunRecord, Out
<1>4. left \in SUBSET H!Names /\ left \subseteq H!Takers(q.hook)
  BY <1>2, <1>3, LeftsShape DEF RunsInv, RunsTyped, H!Takers
<1> DEFINE n == [hostRuns[q.run].left EXCEPT ![q.hook] = left]
<1>5. /\ n \in Lefts /\ DOMAIN n = DOMAIN hostRuns[q.run].left /\ n[q.hook] = left
      /\ \A h \in DOMAIN n \ {q.hook} : n[h] = hostRuns[q.run].left[h]
  BY <1>3, <1>4, LeftsShape
<1>6. /\ hostRuns' \in [H!AllRuns -> RunRecord] /\ hostRuns'[q.run].left = n
      /\ hostRuns'[q.run].status = hostRuns[q.run].status /\ hostRuns'[q.run].step = hostRuns[q.run].step
      /\ hostRuns'[q.run].missed = hostRuns[q.run].missed
      /\ \A r \in H!AllRuns \ {q.run} : hostRuns'[r] = hostRuns[r]
  <2>1. hostRuns' = [hostRuns EXCEPT ![q.run].left = n]
    BY <1>1
  <2> HIDE DEF n, left, more
  <2> QED  BY <1>2, <1>3, <1>5, <2>1 DEF RunRecord
<1>7. /\ more \subseteq H!Request
      /\ \A w \in more : /\ w.run = q.run /\ w.hook = q.hook /\ w.plugin \in left
                         /\ q.hook \notin Parallel
      /\ \A v, w \in more : v = w
  <2>1. \A p \in H!First(left) : p \in left /\ p \in H!Names /\ \A o \in H!First(left) : o = p
    BY <1>4, FirstIsOne
  <2>2. \A w \in more : \E p \in H!First(left) :
          /\ q.hook \notin Parallel /\ w = H!Asked(q.run, q.hook, p) /\ w \in H!Request
          /\ w.run = q.run /\ w.hook = q.hook /\ w.plugin = p
    <3>1. \A p \in H!First(left) :
            /\ H!Asked(q.run, q.hook, p) \in H!Request
            /\ H!Asked(q.run, q.hook, p).run = q.run /\ H!Asked(q.run, q.hook, p).hook = q.hook
            /\ H!Asked(q.run, q.hook, p).plugin = p
      BY <1>2, <2>1, AskedShape
    <3>2. \A w \in more : q.hook \notin Parallel /\ \E p \in H!First(left) : w = H!Asked(q.run, q.hook, p)
      OBVIOUS
    <3> QED  BY <3>1, <3>2
  <2> QED  BY <2>1, <2>2
<1> HIDE DEF n, left, more
<1>8. RunsTyped'
  BY <1>2, <1>4, <1>5, <1>6 DEF RunsInv, RunsTyped
<1>9. ASSUME NEW w \in hostRequests, w # q, w.run = q.run, w.hook = q.hook
      PROVE  w.plugin # q.plugin /\ q.hook \in Parallel
  BY <1>9 DEF RunsInv, Alone
<1>10. Out'
  <2> SUFFICES ASSUME NEW w \in hostRequests'
               PROVE  /\ hostRuns'[w.run].status \in {"running", "failed"}
                      /\ w.hook \in DOMAIN hostRuns'[w.run].left
                      /\ w.plugin \in hostRuns'[w.run].left[w.hook]
    BY DEF Out
  <2>1. CASE w \in more
    BY <1>3, <1>5, <1>6, <1>7, <2>1
  <2>2. CASE w \in hostRequests /\ w # q
    <3>1. /\ w.run \in H!AllRuns /\ hostRuns[w.run].status \in {"running", "failed"}
          /\ w.hook \in DOMAIN hostRuns[w.run].left /\ w.plugin \in hostRuns[w.run].left[w.hook]
      BY <1>2, <2>2 DEF RunsInv, Out, H!Request
    <3>2. CASE w.run # q.run
      BY <1>6, <3>1, <3>2
    <3>3. CASE w.run = q.run /\ w.hook # q.hook
      BY <1>5, <1>6, <3>1, <3>3
    <3>4. CASE w.run = q.run /\ w.hook = q.hook
      <4>1. w.plugin \in left
        BY <1>9, <2>2, <3>1, <3>4 DEF left
      <4> QED  BY <1>5, <1>6, <3>1, <3>4, <4>1
    <3> QED  BY <3>2, <3>3, <3>4
  <2> QED  BY <1>1, <2>1, <2>2
<1>11. Alone'
  <2>1. \A v, w \in hostRequests' :
          /\ v.run = w.run /\ v.hook = w.hook /\ (v.hook \notin Parallel \/ v.plugin = w.plugin)
          => v = w
    BY <1>1, <1>7, <1>9 DEF RunsInv, Alone
  <2> QED  BY <2>1 DEF Alone
<1>12. Missing' /\ InTurn'
  <2>1. \A r \in H!AllRuns :
          hostRuns'[r].status = hostRuns[r].status /\ hostRuns'[r].missed = hostRuns[r].missed
    BY <1>6
  <2> QED  BY <2>1 DEF RunsInv, Missing, InTurn, H!Turn, H!Settled, H!Locked, H!AllRuns
<1>13. hostWorking' \subseteq {H!RequestOf(r, h, p) : r \in H!AllRuns, h \in H!Hooks, p \in H!Names}
  BY <1>1, <1>2, <1>7, SentShape
<1>14. hostRuns'[0].status = hostRuns[0].status
  BY <1>6 DEF H!AllRuns
<1> QED  BY <1>1, <1>2, <1>7, <1>8, <1>10, <1>11, <1>12, <1>13, <1>14 DEF RunsInv

-----------------------------------------------------------------------------
(* The steps.                                                              *)

LEMMA HostInit ==
  ASSUME HostConstants
  PROVE  H!Init => HostInv
<1> SUFFICES ASSUME H!Init
             PROVE  HostInv
  OBVIOUS
<1>1. H!NewRun.left \in Lefts /\ DOMAIN H!NewRun.left = {}
  <2>1. H!NewRun.left \in [{} -> SUBSET H!Names] /\ DOMAIN H!NewRun.left = {} /\ {} \in SUBSET H!Hooks
    BY DEF H!NewRun
  <2> QED  BY <2>1 DEF Lefts
<1>2. /\ H!NewRun.status = "idle" /\ H!NewRun.step = 0 /\ ~H!NewRun.missed /\ H!NewRun \in RunRecord
  BY <1>1 DEF H!NewRun, RunRecord, H!Statuses
<1>3. \A r \in H!AllRuns : hostRuns[r] = H!NewRun /\ Len(H!StepsOf(r)) \in Nat
  BY DEF H!Init, HostConstants, H!StepsOf
<1>4. RunsTyped
  BY <1>1, <1>2, <1>3 DEF H!Init, RunsTyped
<1>5. Out /\ Alone /\ Missing /\ InTurn /\ SetupIdle
  BY <1>2, <1>3 DEF H!Init, Out, Alone, Missing, InTurn, SetupIdle, H!Locked, H!AllRuns
<1>6. HostTyped /\ H!NoneLeftRunning
  BY DEF H!Init, HostTyped, H!NoneLeftRunning, HostConstants
<1> QED  BY <1>4, <1>5, <1>6 DEF HostInv, RunsInv

LEMMA AdvanceKeeps ==
  ASSUME HostConstants, HostInv, NEW r \in H!AllRuns, H!Advance(r)
  PROVE  HostInv'
<1>1. /\ HostTyped /\ RunsInv /\ hostRuns \in [H!AllRuns -> RunRecord] /\ hostRuns[r] \in RunRecord
      /\ hostRuns[r].status = "running" /\ hostRequests \subseteq H!Request
  BY DEF H!Advance, HostInv, RunsInv, RunsTyped, HostTyped
<1>2. \A q \in hostRequests : q.run # r
  BY <1>1 DEF H!Advance, RunsInv, Out
<1>3. UNCHANGED <<hostTransport, hostPhase, hostProcesses, hostConnections, hostFaults>>
  BY DEF H!Advance
<1>4. hostPhase = "spawning" => r # 0
  BY <1>1 DEF HostInv, SetupIdle
<1>5. CASE hostRuns[r].step < Len(H!StepsOf(r)) /\ H!Enter(r, hostRuns[r].step + 1)
  <2>1. hostRuns[r].step + 1 \in 1 .. Len(H!StepsOf(r)) /\ hostRuns[r].step \in Nat
    BY <1>1, <1>5 DEF RunRecord, HostConstants, H!StepsOf
  <2>2. r \in H!Locked => H!Turn(r)
    BY <1>1 DEF RunsInv, InTurn
  <2>3. /\ RunsInv' /\ hostRequests' \subseteq H!Request
        /\ hostWorking' \subseteq {H!RequestOf(s, h, p) : s \in H!AllRuns, h \in H!Hooks, p \in H!Names}
        /\ \A s \in H!AllRuns \ {r} : hostRuns'[s] = hostRuns[s]
    BY <1>1, <1>2, <1>5, <2>1, <2>2, EnterKeeps
  <2> QED  BY <1>3, <1>4, <2>3 DEF HostInv, HostTyped, SetupIdle, H!NoneLeftRunning, H!Alive, H!AllRuns
<1>6. CASE hostRuns' = [hostRuns EXCEPT ![r].status = "done"] /\ UNCHANGED <<hostRequests, hostWorking>>
  <2>1. /\ hostRuns' \in [H!AllRuns -> RunRecord] /\ hostRuns'[r].status = "done"
        /\ hostRuns'[r].step = hostRuns[r].step /\ hostRuns'[r].left = hostRuns[r].left
        /\ hostRuns'[r].missed = hostRuns[r].missed
        /\ \A s \in H!AllRuns \ {r} : hostRuns'[s] = hostRuns[s]
    BY <1>1, <1>6 DEF RunRecord, H!Statuses
  <2>2. RunsTyped'
    BY <2>1 DEF HostInv, RunsInv, RunsTyped
  <2>3. Out' /\ Alone' /\ Missing'
    BY <1>1, <1>2, <1>6, <2>1 DEF RunsInv, Out, Alone, Missing, H!Request
  <2>4. InTurn'
    BY <1>1, <2>1 DEF RunsInv, InTurn, H!Turn, H!Settled, H!Locked, H!AllRuns
  <2> QED  BY <1>3, <1>4, <1>6, <2>1, <2>2, <2>3, <2>4
           DEF HostInv, RunsInv, HostTyped, SetupIdle, H!NoneLeftRunning, H!Alive, H!AllRuns
<1> QED  BY <1>5, <1>6 DEF H!Advance

\* A run begins: at startup, in its turn, or the hooks of codegen_setup.
LEMMA StartKeeps ==
  ASSUME HostConstants, HostInv, NEW r \in H!AllRuns, hostRuns[r].status \in {"idle", "queued"},
         r \in H!Locked => H!Turn(r), H!Start(r),
         UNCHANGED <<hostTransport, hostProcesses, hostConnections, hostFaults>>,
         \/ hostPhase' = hostPhase /\ (hostPhase = "spawning" => r # 0)
         \/ hostPhase' = "configuring"
  PROVE  HostInv'
<1>1. HostTyped /\ RunsInv /\ \A q \in hostRequests : q.run # r
  BY DEF HostInv, RunsInv, Out
<1>2. 1 \in 1 .. Len(H!StepsOf(r))
  BY FirstStep
<1>3. /\ RunsInv' /\ hostRequests' \subseteq H!Request
      /\ hostWorking' \subseteq {H!RequestOf(s, h, p) : s \in H!AllRuns, h \in H!Hooks, p \in H!Names}
      /\ \A s \in H!AllRuns \ {r} : hostRuns'[s] = hostRuns[s]
  BY <1>1, <1>2, EnterKeeps DEF H!Start
<1> QED  BY <1>3 DEF HostInv, HostTyped, SetupIdle, H!NoneLeftRunning, H!Alive, H!AllRuns

LEMMA StartupKeeps ==
  ASSUME HostConstants, HostInv, H!Startup
  PROVE  HostInv'
<1>1. 1 \in H!AllRuns /\ 1 \notin H!Locked /\ hostRuns[1].status = "idle" /\ hostPhase' = hostPhase
  BY DEF HostConstants, H!AllRuns, H!Locked, H!Startup
<1> QED  BY <1>1, StartKeeps DEF H!Startup

LEMMA BeginKeeps ==
  ASSUME HostConstants, HostInv, NEW r \in H!AllRuns, H!Begin(r)
  PROVE  HostInv'
<1>1. r # 0 /\ hostRuns[r].status = "queued" /\ hostPhase' = hostPhase
  BY DEF HostConstants, H!Begin
<1> QED  BY <1>1, StartKeeps DEF H!Begin

LEMMA SetupHooksKeep ==
  ASSUME HostConstants, HostInv, H!Configure
  PROVE  HostInv'
<1>1. 0 \in H!AllRuns /\ 0 \notin H!Locked /\ hostRuns[0].status = "idle"
  BY DEF HostConstants, H!AllRuns, H!Locked, H!Configure, HostInv, SetupIdle
<1> QED  BY <1>1, StartKeeps DEF H!Configure

LEMMA SubmitKeeps ==
  ASSUME HostConstants, HostInv, NEW r \in Runs, H!Submit(r)
  PROVE  HostInv'
<1>1. /\ HostTyped /\ RunsInv /\ hostRuns \in [H!AllRuns -> RunRecord] /\ r \in H!AllRuns
      /\ hostRuns[r] \in RunRecord /\ hostRequests \subseteq H!Request /\ r # 0
  BY DEF HostInv, RunsInv, RunsTyped, HostTyped, H!AllRuns, HostConstants
<1>2. /\ hostRuns' = [hostRuns EXCEPT ![r].status = "queued"] /\ hostRuns[r].status = "idle"
      /\ UNCHANGED <<hostTransport, hostPhase, hostProcesses, hostConnections, hostRequests, hostWorking, hostFaults>>
  BY DEF H!Submit
<1>3. /\ hostRuns' \in [H!AllRuns -> RunRecord] /\ hostRuns'[r].status = "queued"
      /\ hostRuns'[r].step = hostRuns[r].step /\ hostRuns'[r].left = hostRuns[r].left
      /\ hostRuns'[r].missed = hostRuns[r].missed
      /\ \A s \in H!AllRuns \ {r} : hostRuns'[s] = hostRuns[s]
  BY <1>1, <1>2 DEF RunRecord, H!Statuses
<1>4. RunsTyped'
  BY <1>1, <1>3 DEF RunsInv, RunsTyped
<1>5. Out' /\ Alone' /\ Missing'
  BY <1>1, <1>2, <1>3 DEF RunsInv, Out, Alone, Missing, H!Request
<1>6. InTurn'
  BY <1>1, <1>2, <1>3 DEF RunsInv, InTurn, H!Turn, H!Settled, H!Locked, H!AllRuns
<1> QED  BY <1>1, <1>2, <1>3, <1>4, <1>5, <1>6
         DEF HostInv, RunsInv, HostTyped, SetupIdle, H!NoneLeftRunning, H!Alive, H!AllRuns

LEMMA AnswerKeeps ==
  ASSUME HostConstants, HostInv, NEW q \in hostRequests, H!Answer(q)
  PROVE  HostInv'
<1>1. /\ RunsInv' /\ hostRequests' \subseteq H!Request
      /\ hostWorking' \subseteq {H!RequestOf(r, h, p) : r \in H!AllRuns, h \in H!Hooks, p \in H!Names}
      /\ hostRuns[0].status = "idle" => hostRuns'[0].status = "idle"
  BY AnsweredKeeps DEF H!Answer, HostInv
<1> QED  BY <1>1 DEF H!Answer, HostInv, HostTyped, SetupIdle, H!NoneLeftRunning, H!Alive

\* Requests are rejected, and no plugin comes to life.
LEMMA RejectionKeeps ==
  ASSUME HostConstants, HostInv, NEW qs \in SUBSET hostRequests,
         hostRuns' = H!Rejected(qs, hostRuns), hostRequests' = hostRequests \ qs, hostWorking' \subseteq hostWorking,
         hostFaults' \in 0 .. MaxFaults, hostConnections' \subseteq H!Names, UNCHANGED hostTransport,
         hostPhase' = hostPhase \/ hostPhase' = "closing",
         hostProcesses' \in [H!Names -> {"starting", "registered", "dead", "signalled"}],
         \A p \in H!Names : ~H!Alive(p) => ~H!Alive(p)'
  PROVE  HostInv'
<1>1. /\ RunsInv' /\ hostRequests' \subseteq H!Request
      /\ hostRuns[0].status = "idle" => hostRuns'[0].status = "idle"
  BY RejectedKeeps DEF HostInv
<1> QED  BY <1>1 DEF HostInv, HostTyped, SetupIdle, H!NoneLeftRunning

LEMMA FaultShape ==
  ASSUME HostConstants, HostTyped, H!Fault
  PROVE  hostFaults' \in 0 .. MaxFaults
BY DEF HostConstants, HostTyped, H!Fault

LEMMA ErrorAnswerKeeps ==
  ASSUME HostConstants, HostInv, NEW q \in hostRequests, H!ErrorAnswer(q)
  PROVE  HostInv'
<1>1. HostTyped /\ hostFaults' \in 0 .. MaxFaults
  BY FaultShape DEF HostInv, H!ErrorAnswer
<1> QED  BY <1>1, RejectionKeeps DEF H!ErrorAnswer, HostTyped, H!Alive

LEMMA TimeoutKeeps ==
  ASSUME HostConstants, HostInv, NEW q \in hostRequests, H!Timeout(q)
  PROVE  HostInv'
<1>1. HostTyped /\ hostFaults' \in 0 .. MaxFaults
  BY FaultShape DEF HostInv, HostTyped, H!Timeout
<1> QED  BY <1>1, RejectionKeeps DEF H!Timeout, HostTyped, H!Alive

LEMMA CloseKeeps ==
  ASSUME HostConstants, HostInv, H!Close
  PROVE  HostInv'
BY RejectionKeeps DEF H!Close, HostInv, HostTyped, H!Alive

LEMMA CrashKeeps ==
  ASSUME HostConstants, HostInv, NEW p \in H!Names, H!Crash(p)
  PROVE  HostInv'
<1> DEFINE mine == {q \in hostRequests : q.plugin = p}
<1>1. /\ HostTyped /\ hostFaults' \in 0 .. MaxFaults /\ UNCHANGED <<hostTransport, hostPhase>>
      /\ hostWorking' \subseteq hostWorking /\ hostConnections' \subseteq H!Names
      /\ hostProcesses' = [hostProcesses EXCEPT ![p] = "dead"]
  BY FaultShape DEF HostInv, HostTyped, H!Crash
<1>2. /\ hostProcesses' \in [H!Names -> {"starting", "registered", "dead", "signalled"}]
      /\ \A o \in H!Names : ~H!Alive(o) => ~H!Alive(o)'
  BY <1>1 DEF HostTyped, H!Alive
<1>3. CASE hostRequests' = hostRequests \ mine /\ hostRuns' = H!Rejected(mine, hostRuns)
  BY <1>1, <1>2, <1>3, RejectionKeeps
<1>4. CASE UNCHANGED <<hostRequests, hostRuns>>
  BY <1>1, <1>2, <1>4
     DEF HostInv, HostTyped, RunsInv, RunsTyped, Out, Alone, Missing, InTurn, H!Turn, H!Settled,
         SetupIdle, H!NoneLeftRunning
<1> QED  BY <1>3, <1>4 DEF H!Crash

\* A socket that opens leaves the request what it was, but for its being open.
LEMMA SocketKeeps ==
  ASSUME HostConstants, HostInv, NEW q \in hostRequests, H!Connect(q)
  PROVE  HostInv'
<1>1. /\ HostTyped /\ RunsInv /\ hostRequests \subseteq H!Request /\ q \in H!Request
      /\ UNCHANGED <<hostTransport, hostPhase, hostProcesses, hostFaults>>
  BY DEF HostInv, HostTyped, H!Connect
<1>2. CASE H!Alive(q.plugin)
  <2> DEFINE o == [q EXCEPT !.open = TRUE]
  <2>1. /\ o \in H!Request /\ o.run = q.run /\ o.hook = q.hook /\ o.plugin = q.plugin
        /\ q.run \in H!AllRuns /\ q.hook \in H!Hooks /\ q.plugin \in H!Names
    BY <1>1 DEF H!Request
  <2>2. /\ hostRequests' = (hostRequests \ {q}) \cup {o} /\ UNCHANGED hostRuns
        /\ hostWorking' = hostWorking \cup {H!RequestOf(q.run, q.hook, q.plugin)}
        /\ hostConnections' = hostConnections \cup {q.plugin}
    BY <1>2 DEF H!Connect
  <2> HIDE DEF o
  <2>3. HostTyped'
    BY <1>1, <2>1, <2>2 DEF HostTyped
  <2>4. Out'
    BY <1>1, <2>1, <2>2 DEF RunsInv, Out
  <2>5. Alone'
    BY <1>1, <2>1, <2>2 DEF RunsInv, Alone
  <2> QED  BY <1>1, <2>2, <2>3, <2>4, <2>5
           DEF HostInv, RunsInv, RunsTyped, Missing, InTurn, H!Turn, H!Settled, SetupIdle,
               H!NoneLeftRunning, H!Alive
<1>3. CASE ~H!Alive(q.plugin)
  BY <1>1, <1>3, RejectionKeeps DEF H!Connect, HostTyped, H!Alive
<1> QED  BY <1>2, <1>3

\* The other steps leave the runs alone.
LEMMA ProcessesKeep ==
  ASSUME HostConstants, HostInv, UNCHANGED <<hostTransport, hostRequests, hostRuns>>,
         hostConnections' = hostConnections, hostWorking' \subseteq hostWorking, hostFaults' \in 0 .. MaxFaults,
         hostPhase' \in {"spawning", "configuring", "ready", "closing", "closed", "failed"},
         hostPhase' = "spawning" => hostPhase = "spawning",
         hostProcesses' \in [H!Names -> {"starting", "registered", "dead", "signalled"}],
         hostPhase' \in {"failed", "closed"} => \A p \in H!Names : ~H!Alive(p)'
  PROVE  HostInv'
BY DEF HostInv, HostTyped, RunsInv, RunsTyped, Out, Alone, Missing, InTurn, H!Turn, H!Settled,
       SetupIdle, H!NoneLeftRunning

LEMMA SignalledShape ==
  ASSUME HostTyped, hostProcesses' = H!Signalled
  PROVE  /\ hostProcesses' \in [H!Names -> {"starting", "registered", "dead", "signalled"}]
         /\ \A p \in H!Names : ~H!Alive(p)'
BY DEF HostTyped, H!Signalled, H!Alive

LEMMA OthersKeep ==
  ASSUME HostConstants, HostInv
  PROVE  /\ \A w \in hostWorking : H!Late(w) => HostInv'
         /\ \A p \in H!Names : H!Register(p) => HostInv'
         /\ H!SetupFails => HostInv'
         /\ H!Configured => HostInv'
         /\ H!Closed => HostInv'
<1>1. HostTyped /\ hostFaults \in 0 .. MaxFaults
  BY DEF HostInv, HostTyped
<1>2. ASSUME NEW w \in hostWorking, H!Late(w)
      PROVE  HostInv'
  BY <1>1, <1>2, ProcessesKeep DEF H!Late, HostInv, HostTyped, H!NoneLeftRunning, H!Alive
<1>3. ASSUME NEW p \in H!Names, H!Register(p)
      PROVE  HostInv'
  <2>1. hostProcesses' \in [H!Names -> {"starting", "registered", "dead", "signalled"}]
    BY <1>1, <1>3 DEF H!Register, HostTyped
  <2> QED  BY <1>1, <1>3, <2>1, ProcessesKeep DEF H!Register
<1>4. ASSUME H!SetupFails
      PROVE  HostInv'
  BY <1>1, <1>4, SignalledShape, FaultShape, ProcessesKeep DEF H!SetupFails
<1>5. ASSUME H!Configured
      PROVE  HostInv'
  BY <1>1, <1>5, SignalledShape, ProcessesKeep DEF H!Configured, HostTyped
<1>6. ASSUME H!Closed
      PROVE  HostInv'
  BY <1>1, <1>6, SignalledShape, ProcessesKeep DEF H!Closed
<1> QED  BY <1>2, <1>3, <1>4, <1>5, <1>6

LEMMA HostNext ==
  ASSUME HostConstants, HostInv, [H!Next]_(H!vars)
  PROVE  HostInv'
<1>1. CASE H!Step
  BY <1>1, AnswerKeeps, TimeoutKeeps, SocketKeeps, AdvanceKeeps, BeginKeeps DEF H!Step
<1>2. CASE \E q \in hostRequests : H!ErrorAnswer(q)
  BY <1>2, ErrorAnswerKeeps
<1>3. CASE \E w \in hostWorking : H!Late(w)
  BY <1>3, OthersKeep
<1>4. CASE \E p \in H!Names : H!Crash(p) \/ H!Register(p)
  BY <1>4, CrashKeeps, OthersKeep
<1>5. CASE H!SetupFails \/ H!Configure \/ H!Configured \/ H!Startup \/ H!Close \/ H!Closed
  BY <1>5, OthersKeep, SetupHooksKeep, StartupKeeps, CloseKeeps
<1>6. CASE \E r \in Runs : H!Submit(r)
  BY <1>6, SubmitKeeps
<1>7. CASE UNCHANGED H!vars
  BY <1>7 DEF H!vars, HostInv, HostTyped, RunsInv, RunsTyped, Out, Alone, Missing, InTurn, H!Turn,
              H!Settled, SetupIdle, H!NoneLeftRunning, H!Alive
<1> QED  BY <1>1, <1>2, <1>3, <1>4, <1>5, <1>6, <1>7 DEF H!Next

\* A run's requests are those it waits for, one for a hook or for each of its plugins, and runs
\* that take the lock begin in their turn.
THEOREM HostInvHolds ==
  ASSUME HostConstants
  PROVE  H!Spec => []HostInv
<1>1. H!Init => HostInv
  BY HostInit
<1>2. HostInv /\ [H!Next]_(H!vars) => HostInv'
  BY HostNext
<1> QED  BY <1>1, <1>2, PTL DEF H!Spec

\* The orchestrator keeps its types.
THEOREM HostTypeCorrect ==
  ASSUME HostConstants
  PROVE  H!Spec => []H!TypeOK
<1>1. ASSUME HostInv
      PROVE  H!TypeOK
  <2>1. \A r \in H!AllRuns : hostRuns[r] \in RunRecord /\ hostRuns[r].left \in Lefts
    BY <1>1 DEF HostInv, RunsInv, RunsTyped, RunRecord
  <2>2. \A r \in H!AllRuns : DOMAIN hostRuns[r].left \in SUBSET H!Hooks
    BY <2>1, LeftsShape
  <2> QED  BY <1>1, <2>1, <2>2 DEF HostInv, HostTyped, RunsInv, RunsTyped, RunRecord, H!TypeOK
<1> QED  BY <1>1, HostInvHolds, PTL

-----------------------------------------------------------------------------
(***************************************************************************)
(* Once the dev server is quiet, what is compiled is what the files hold.  *)
(***************************************************************************)

Marks(fs) ==
  /\ fs = [f \in DOMAIN fs |-> fs[f]] /\ DOMAIN fs \subseteq Files
  /\ \A f \in DOMAIN fs : fs[f] \in BOOLEAN

IsBatch(b) ==
  b = [files |-> b.files, deletes |-> b.deletes] /\ Marks(b.files) /\ b.deletes \subseteq Files

RunStages == {"none", "extract", "write", "load", "closure", "validate", "generate"}

HotTyped ==
  /\ hmrDisk \in [Files -> Versions \cup {"absent", "plain"}] /\ \A f \in Files : hmrDisk[f] \in W!Contents(f)
  /\ hmrRows \in [Files -> SUBSET Versions] /\ hmrDocs \in [Files -> SUBSET Versions]
  /\ DOMAIN hmrQueue = {"files", "deletes", "timer"}
  /\ Marks(hmrQueue.files) /\ hmrQueue.deletes \subseteq Files /\ hmrQueue.timer \in BOOLEAN
  /\ IsBatch(hmrPending) /\ IsBatch(hmrBatch)
  /\ hmrProcessing \in BOOLEAN /\ hmrSchema \in BOOLEAN /\ hmrCleanup \subseteq Files
  /\ hmrMissed \subseteq Files /\ hmrKept \subseteq Files /\ hmrOwed \subseteq Files

RunFields == {"stage", "chosen", "task", "found", "saved", "all"}

RunTyped ==
  /\ DOMAIN hmrRun = RunFields
  /\ hmrRun.stage \in RunStages /\ hmrRun.all \in BOOLEAN
  /\ hmrRun.chosen \subseteq Files /\ hmrRun.task \subseteq Files

Waiting == hmrProcessing /\ (hmrRun.stage = "none" \/ hmrRun.all)

Queueing == DOMAIN hmrQueue.files \cup DOMAIN hmrPending.files \cup (IF Waiting THEN DOMAIN hmrBatch.files ELSE {})
Deleting == hmrQueue.deletes \cup hmrPending.deletes \cup (IF Waiting THEN hmrBatch.deletes ELSE {})

\* A batch to come will bring f up to date.
Due(f) ==
  IF hmrDisk[f] = "absent" THEN f \in Deleting
  ELSE f \in Queueing /\ (hmrDisk[f] = "plain" => f \in hmrCleanup)

\* A file that was deleted and is back is queued after its deletion.
Returned ==
  \A f \in Files : hmrDisk[f] \in Versions =>
    /\ f \in hmrQueue.deletes => f \in DOMAIN hmrQueue.files
    /\ f \in hmrPending.deletes => f \in DOMAIN hmrPending.files \cup DOMAIN hmrQueue.files
    /\ Waiting /\ f \in hmrBatch.deletes => f \in Queueing

Loaded(f) ==
  IF f \in hmrRun.chosen /\ hmrRun.stage \in {"extract", "write", "load"}
  THEN /\ hmrRun.stage = "write" => hmrRun.found[f] = hmrDisk[f] \/ Due(f)
       /\ hmrRun.stage = "load" => hmrRows[f] = W!Found(hmrDisk[f]) \/ Due(f)
  ELSE hmrDocs[f] = hmrRows[f] /\ (hmrDocs[f] = W!Found(hmrDisk[f]) \/ Due(f))

Loads == \A f \in Files \ (hmrMissed \cup hmrKept) : Loaded(f)

Emptied ==
  \A f \in hmrRun.chosen : ~hmrRun.all =>
     /\ hmrRun.stage \in {"extract", "write"} => hmrRows[f] = {}
     /\ hmrRun.stage \in {"extract", "write", "load"} => hmrDocs[f] = {}

Single(s) == \A v, w \in s : v = w
Singles ==
  /\ \A f \in Files : Single(hmrDocs[f])
  /\ hmrRun.stage = "load" => \A f \in hmrRun.chosen : Single(hmrRows[f])

Complete(f) == hmrDocs[f] # {} /\ \A g \in DependsOn[f] : hmrDocs[g] # {}
Made ==
  \A f \in Files \ hmrOwed : Complete(f) =>
    \/ hmrArtifacts[f] = [g \in {f} \cup DependsOn[f] |-> hmrDocs[g]]
    \/ hmrRun.stage = "closure" /\ ({f} \cup DependsOn[f]) \cap hmrRun.chosen # {}
    \/ hmrRun.stage \in {"validate", "generate"} /\ f \in hmrRun.task

HotStages ==
  /\ hmrRun.stage = "none" => hmrRun = W!NoRun
  /\ hmrRun.all => hmrRun.chosen = Files
  /\ ~hmrProcessing => W!IsEmpty(hmrPending) /\ hmrBatch = W!NoBatch /\ (hmrRun.stage = "none" \/ hmrRun.all)
  /\ ~hmrQueue.timer => DOMAIN hmrQueue.files = {} /\ hmrQueue.deletes = {}
  /\ hmrRun.stage = "write" => /\ DOMAIN hmrRun.found = hmrRun.chosen
                               /\ \A f \in hmrRun.chosen : hmrRun.found[f] \in W!Contents(f)
  /\ \A f \in DOMAIN hmrRun.saved : f \in Files /\ hmrRun.saved[f] \subseteq Versions
  /\ ~hmrRun.all => DOMAIN hmrRun.saved = hmrRun.chosen

HotInv == HotTyped /\ RunTyped /\ HotStages /\ Returned /\ Loads /\ Emptied /\ Singles /\ Made

-----------------------------------------------------------------------------
\* The fields of a run that goes on.
LEMMA StageFields ==
  ASSUME RunTyped, NEW s, hmrRun' = [hmrRun EXCEPT !.stage = s]
  PROVE  /\ DOMAIN hmrRun' = RunFields /\ hmrRun'.stage = s /\ hmrRun'.chosen = hmrRun.chosen
         /\ hmrRun'.task = hmrRun.task /\ hmrRun'.found = hmrRun.found /\ hmrRun'.saved = hmrRun.saved
         /\ hmrRun'.all = hmrRun.all
BY DEF RunTyped, RunFields

\* No run.
LEMMA NoRunFields ==
  /\ DOMAIN W!NoRun = RunFields /\ W!NoRun.stage = "none" /\ W!NoRun.chosen = {} /\ W!NoRun.task = {}
  /\ W!NoRun.found = W!Nothing /\ W!NoRun.saved = W!Nothing /\ W!NoRun.all = FALSE
  /\ DOMAIN W!Nothing = {}
BY DEF W!NoRun, RunFields, W!Nothing

LEMMA NoBatchShape == IsBatch(W!NoBatch) /\ DOMAIN W!NoBatch.files = {} /\ W!NoBatch.deletes = {}
                      /\ Marks(W!Nothing) /\ DOMAIN W!Nothing = {}
BY DEF IsBatch, Marks, W!NoBatch, W!Nothing

\* What is read keeps its marks, and lacks only .gql files that have gone.
LEMMA ReadShape ==
  ASSUME NEW fs, Marks(fs)
  PROVE  /\ Marks(W!Read(fs)) /\ DOMAIN W!Read(fs) \subseteq DOMAIN fs
         /\ \A f \in DOMAIN fs : hmrDisk[f] # "absent" => f \in DOMAIN W!Read(fs)
<1>1. DOMAIN W!Read(fs) = {g \in DOMAIN fs : g \notin Gql \/ hmrDisk[g] # "absent"}
  BY DEF W!Read
<1>2. \A f \in DOMAIN W!Read(fs) : W!Read(fs)[f] = fs[f]
  BY DEF W!Read
<1>3. W!Read(fs) = [f \in DOMAIN W!Read(fs) |-> W!Read(fs)[f]]
  BY DEF W!Read
<1> QED  BY <1>1, <1>2, <1>3 DEF Marks

\* The task holds the seed and what depends on it.
LEMMA Reached ==
  ASSUME NEW S \in SUBSET Files
  PROVE  /\ W!Reach(S, W!Dependents) \subseteq Files /\ W!Reach(S, W!Dependencies) \subseteq Files
         /\ S \subseteq W!Reach(S, W!Dependents)
         /\ \A g \in S : W!Dependents(g) \subseteq W!Reach(S, W!Dependents)
BY DEF W!Reach, W!Dependents

LEMMA FoundShape ==
  ASSUME NEW c
  PROVE  W!Found(c) \in SUBSET Versions /\ Single(W!Found(c)) /\ (c \notin Versions => W!Found(c) = {})
BY DEF W!Found, Single

-----------------------------------------------------------------------------
(* The end of a run, and the next batch.                                   *)

\* The next batch brings up to date what was pending.
LEMMA NextBatchKeeps ==
  ASSUME HotConstants, HotTyped, Returned, W!NextBatch, hmrProcessing, hmrRun' = W!NoRun, UNCHANGED <<hmrDisk, hmrQueue>>
  PROVE  /\ IsBatch(hmrPending') /\ IsBatch(hmrBatch') /\ hmrProcessing' \in BOOLEAN
         /\ ~hmrProcessing' => W!IsEmpty(hmrPending') /\ hmrBatch' = W!NoBatch
         /\ \A f \in Files : hmrDisk[f] # "absent" /\ f \in DOMAIN hmrQueue.files \cup DOMAIN hmrPending.files
                               => f \in Queueing'
         /\ hmrQueue.deletes \cup hmrPending.deletes \subseteq Deleting'
         /\ Returned'
<1>1. IsBatch(hmrPending) /\ IsBatch(hmrBatch) /\ hmrPending.deletes \subseteq Files
  BY DEF HotTyped, IsBatch
<1>2. Waiting' = hmrProcessing'
  BY NoRunFields DEF Waiting, W!NextBatch, HotTyped
<1>3. CASE W!IsEmpty(hmrPending)
  <2>1. hmrProcessing' = FALSE /\ hmrBatch' = W!NoBatch /\ UNCHANGED hmrPending
    BY <1>3 DEF W!NextBatch
  <2>2. Queueing' = DOMAIN hmrQueue.files \cup DOMAIN hmrPending.files
    BY <1>2, <2>1 DEF Queueing
  <2>3. Deleting' = hmrQueue.deletes \cup hmrPending.deletes
    BY <1>2, <2>1 DEF Deleting
  <2>4. Returned'
    BY <1>2, <2>1 DEF Returned
  <2> QED  BY <1>1, <1>3, <2>1, <2>2, <2>3, <2>4, NoBatchShape
<1>4. CASE ~W!IsEmpty(hmrPending)
  <2>1. /\ hmrBatch' = [files |-> W!Read(hmrPending.files), deletes |-> hmrPending.deletes]
        /\ hmrPending' = W!NoBatch /\ hmrProcessing' = TRUE
    BY <1>4 DEF W!NextBatch
  <2>2. /\ hmrBatch'.files = W!Read(hmrPending.files) /\ hmrBatch'.deletes = hmrPending.deletes
        /\ IsBatch(hmrBatch') /\ Marks(W!Read(hmrPending.files))
    BY <1>1, <2>1, ReadShape DEF IsBatch
  <2>3. \A f \in DOMAIN hmrPending.files : hmrDisk[f] # "absent" => f \in DOMAIN hmrBatch'.files
    BY <1>1, <2>2, ReadShape DEF IsBatch
  <2>4. Queueing' = DOMAIN hmrQueue.files \cup DOMAIN hmrBatch'.files
    BY <1>2, <2>1, NoBatchShape DEF Queueing
  <2>5. Deleting' = hmrQueue.deletes \cup hmrBatch'.deletes
    BY <1>2, <2>1, NoBatchShape DEF Deleting
  <2>6. Returned'
    <3> SUFFICES ASSUME NEW f \in Files, hmrDisk[f] \in Versions
                 PROVE  /\ f \in hmrQueue.deletes => f \in DOMAIN hmrQueue.files
                        /\ f \in hmrPending'.deletes =>
                             f \in DOMAIN hmrPending'.files \cup DOMAIN hmrQueue.files
                        /\ f \in hmrBatch'.deletes => f \in Queueing'
      BY <1>2, <2>1 DEF Returned
    <3>1. f \notin hmrPending'.deletes /\ DOMAIN hmrPending'.files = {}
      BY <2>1, NoBatchShape
    <3>2. hmrDisk[f] # "absent"
      BY DEF HotConstants
    <3>3. /\ f \in hmrQueue.deletes => f \in DOMAIN hmrQueue.files
          /\ f \in hmrPending.deletes => f \in DOMAIN hmrPending.files \cup DOMAIN hmrQueue.files
      BY DEF Returned
    <3> QED  BY <2>2, <2>3, <2>4, <3>1, <3>2, <3>3
  <2> QED  BY <2>1, <2>2, <2>3, <2>4, <2>5, <2>6, NoBatchShape
<1> QED  BY <1>3, <1>4

\* A run that ends leaves no less to come.
LEMMA OverKeeps ==
  ASSUME HotConstants, HotTyped, RunTyped, HotStages, Returned, W!Over, hmrRun.stage # "none",
         UNCHANGED <<hmrDisk, hmrQueue, hmrCleanup>>
  PROVE  /\ RunTyped' /\ HotStages' /\ Returned' /\ hmrRun' = W!NoRun
         /\ IsBatch(hmrPending') /\ IsBatch(hmrBatch') /\ hmrProcessing' \in BOOLEAN
         /\ \A f \in Files : Due(f) => Due(f)'
<1>1. hmrRun' = W!NoRun /\ RunTyped'
  BY NoRunFields DEF W!Over, RunTyped, RunStages
<1>2. CASE hmrRun.all
  <2>1. UNCHANGED <<hmrPending, hmrBatch, hmrProcessing>>
    BY <1>2 DEF W!Over
  <2>2. Waiting' = Waiting
    BY <1>1, <1>2, <2>1, NoRunFields DEF Waiting
  <2>3. Queueing' = Queueing /\ Deleting' = Deleting
    BY <2>1, <2>2 DEF Queueing, Deleting
  <2>4. Returned'
    BY <2>1, <2>2, <2>3 DEF Returned
  <2>5. HotStages'
    BY <1>1, <2>1, NoRunFields DEF HotStages
  <2> QED  BY <1>1, <2>1, <2>3, <2>4, <2>5 DEF Due, HotTyped
<1>3. CASE ~hmrRun.all
  <2>1. W!NextBatch /\ hmrProcessing /\ ~Waiting
    BY <1>3 DEF W!Over, HotStages, Waiting, HotTyped
  <2>2. /\ IsBatch(hmrPending') /\ IsBatch(hmrBatch') /\ hmrProcessing' \in BOOLEAN /\ Returned'
        /\ ~hmrProcessing' => W!IsEmpty(hmrPending') /\ hmrBatch' = W!NoBatch
        /\ \A f \in Files : hmrDisk[f] # "absent" /\ f \in DOMAIN hmrQueue.files \cup DOMAIN hmrPending.files
                              => f \in Queueing'
        /\ hmrQueue.deletes \cup hmrPending.deletes \subseteq Deleting'
    BY <1>1, <2>1, NextBatchKeeps
  <2>3. /\ Queueing = DOMAIN hmrQueue.files \cup DOMAIN hmrPending.files
        /\ Deleting = hmrQueue.deletes \cup hmrPending.deletes
    BY <2>1 DEF Queueing, Deleting
  <2>4. HotStages'
    BY <1>1, <2>2, NoRunFields DEF HotStages
  <2>5. \A f \in Files : Due(f) => Due(f)'
    BY <2>2, <2>3 DEF Due
  <2> QED  BY <1>1, <2>2, <2>4, <2>5
<1> QED  BY <1>2, <1>3

\* What is loaded stays so, where nothing but what is to come has changed.
LEMMA LoadsKept ==
  ASSUME Loads, UNCHANGED <<hmrDisk, hmrRun, hmrRows, hmrDocs>>, hmrMissed \subseteq hmrMissed', hmrKept \subseteq hmrKept',
         \A f \in Files : Due(f) => Due(f)'
  PROVE  Loads'
<1> SUFFICES ASSUME NEW f \in Files \ (hmrMissed' \cup hmrKept')
             PROVE  Loaded(f)'
  BY DEF Loads
<1>1. Loaded(f) /\ (Due(f) => Due(f)')
  BY DEF Loads
<1> QED  BY <1>1 DEF Loaded

\* The rest of the invariant is about what is compiled and the run.
LEMMA RestKept ==
  ASSUME UNCHANGED <<hmrRun, hmrRows, hmrDocs, hmrArtifacts, hmrOwed>>, Emptied, Singles, Made, RunTyped
  PROVE  Emptied' /\ Singles' /\ Made' /\ RunTyped'
BY DEF Emptied, Singles, Made, RunTyped, Complete

-----------------------------------------------------------------------------
(* The watcher's events and the debounce.                                  *)

LEMMA QueuedShape ==
  ASSUME HotTyped, NEW f \in Files, NEW marked \in BOOLEAN, W!Queued(f, marked)
  PROVE  /\ DOMAIN hmrQueue' = {"files", "deletes", "timer"} /\ Marks(hmrQueue'.files)
         /\ DOMAIN hmrQueue'.files = DOMAIN hmrQueue.files \cup {f}
         /\ hmrQueue'.deletes = hmrQueue.deletes /\ hmrQueue'.timer = TRUE
<1> DEFINE fs == [g \in DOMAIN hmrQueue.files \cup {f} |->
                    IF g \in DOMAIN hmrQueue.files THEN hmrQueue.files[g] ELSE marked]
<1>1. hmrQueue' = [hmrQueue EXCEPT !.files = fs, !.timer = TRUE]
  BY DEF W!Queued
<1>2. DOMAIN fs = DOMAIN hmrQueue.files \cup {f} /\ Marks(fs)
  <2>1. Marks(hmrQueue.files)
    BY DEF HotTyped
  <2>2. \A g \in DOMAIN fs : fs[g] \in BOOLEAN
    BY <2>1 DEF Marks
  <2>3. fs = [g \in DOMAIN fs |-> fs[g]]
    OBVIOUS
  <2> QED  BY <2>1, <2>2, <2>3 DEF Marks
<1> HIDE DEF fs
<1>3. /\ DOMAIN hmrQueue' = {"files", "deletes", "timer"} /\ hmrQueue'.files = fs
      /\ hmrQueue'.deletes = hmrQueue.deletes /\ hmrQueue'.timer = TRUE
  BY <1>1 DEF HotTyped
<1> QED  BY <1>2, <1>3

\* A save leaves every other file as it was, and queues its own.
LEMMA SaveQueues ==
  ASSUME HotConstants, HotInv, NEW f \in Files, NEW c \in W!Contents(f), W!Save(f, c)
  PROVE  /\ DOMAIN hmrQueue' = {"files", "deletes", "timer"} /\ Marks(hmrQueue'.files)
         /\ hmrQueue'.deletes \subseteq Files /\ hmrQueue'.timer \in BOOLEAN
         /\ hmrCleanup \subseteq hmrCleanup' /\ hmrCleanup' \subseteq Files
         /\ hmrMissed \subseteq hmrMissed' /\ hmrMissed' \subseteq Files
         /\ DOMAIN hmrQueue.files \subseteq DOMAIN hmrQueue'.files /\ hmrQueue.deletes \subseteq hmrQueue'.deletes
         /\ hmrQueue'.deletes \subseteq hmrQueue.deletes \cup {f}
         /\ hmrQueue'.timer \/ hmrQueue' = hmrQueue
         /\ \/ W!Ignored(f, c)
            \/ c = "absent" /\ f \in hmrQueue'.deletes
            \/ /\ c # "absent" /\ f \in DOMAIN hmrQueue'.files /\ (c = "plain" => f \in hmrCleanup')
               /\ hmrQueue'.deletes = hmrQueue.deletes
         /\ W!Ignored(f, c) /\ f \in hmrRun.chosen /\ hmrRun.stage = "write" => f \in hmrMissed'
<1>1. HotTyped
  BY DEF HotInv
<1>2. W!HotUpdate(f, c)
  BY DEF W!Save
<1>3. CASE W!Ignored(f, c)
  <2>1. /\ hmrMissed' = IF f \in hmrRun.chosen /\ hmrRun.stage = "write" THEN hmrMissed \cup {f} ELSE hmrMissed
        /\ hmrQueue' = hmrQueue /\ hmrCleanup' = hmrCleanup
    BY <1>2, <1>3 DEF W!HotUpdate
  <2> QED  BY <1>1, <1>3, <2>1 DEF HotTyped
<1>4. CASE ~W!Ignored(f, c)
  <2>1. /\ IF c = "absent" THEN W!QueuedDelete(f) ELSE W!Queued(f, c \in Versions)
        /\ hmrCleanup' = IF c = "plain" THEN hmrCleanup \cup {f} ELSE hmrCleanup
        /\ hmrMissed' = hmrMissed
    BY <1>2, <1>4 DEF W!HotUpdate
  <2>2. CASE c = "absent"
    <3>1. hmrQueue' = [hmrQueue EXCEPT !.deletes = @ \cup {f}, !.timer = TRUE]
      BY <2>1, <2>2 DEF W!QueuedDelete
    <3>2. /\ DOMAIN hmrQueue' = {"files", "deletes", "timer"} /\ hmrQueue'.files = hmrQueue.files
          /\ hmrQueue'.deletes = hmrQueue.deletes \cup {f} /\ hmrQueue'.timer = TRUE
      BY <1>1, <3>1 DEF HotTyped
    <3>3. /\ hmrQueue.deletes \subseteq Files /\ hmrMissed \subseteq Files /\ hmrCleanup \subseteq Files
          /\ Marks(hmrQueue.files)
      BY <1>1 DEF HotTyped
    <3>4. hmrCleanup' = hmrCleanup
      BY <2>1, <2>2
    <3> QED  BY <1>4, <2>1, <2>2, <3>2, <3>3, <3>4
  <2>3. CASE c # "absent"
    <3>1. (c \in Versions) \in BOOLEAN
      OBVIOUS
    <3>2. W!Queued(f, c \in Versions)
      BY <2>1, <2>3
    <3>3. /\ DOMAIN hmrQueue' = {"files", "deletes", "timer"} /\ Marks(hmrQueue'.files)
          /\ DOMAIN hmrQueue'.files = DOMAIN hmrQueue.files \cup {f}
          /\ hmrQueue'.deletes = hmrQueue.deletes /\ hmrQueue'.timer = TRUE
      BY <1>1, <3>1, <3>2, QueuedShape
    <3>4. c = "plain" => f \in hmrCleanup'
      BY <2>1
    <3>5. hmrCleanup \subseteq hmrCleanup' /\ hmrCleanup' \subseteq Files
      BY <1>1, <2>1 DEF HotTyped
    <3>6. hmrQueue.deletes \subseteq Files /\ hmrMissed \subseteq Files
      BY <1>1 DEF HotTyped
    <3> QED  BY <1>4, <2>1, <2>3, <3>3, <3>4, <3>5, <3>6
  <2> QED  BY <2>2, <2>3
<1> QED  BY <1>3, <1>4

LEMMA SaveKeeps ==
  ASSUME HotConstants, HotInv, NEW f \in Files, NEW c \in W!Contents(f), W!Save(f, c)
  PROVE  HotInv'
<1>1. HotTyped /\ RunTyped /\ HotStages /\ Returned /\ Loads /\ Emptied /\ Singles /\ Made
  BY DEF HotInv
<1>2. /\ hmrDisk' = [hmrDisk EXCEPT ![f] = c]
      /\ UNCHANGED <<hmrPending, hmrBatch, hmrProcessing, hmrSchema, hmrRun, hmrRows, hmrDocs, hmrArtifacts, hmrOwed, hmrKept>>
  BY DEF W!Save, W!compiled
<1>3. /\ DOMAIN hmrQueue' = {"files", "deletes", "timer"} /\ Marks(hmrQueue'.files)
      /\ hmrQueue'.deletes \subseteq Files /\ hmrQueue'.timer \in BOOLEAN
      /\ hmrCleanup \subseteq hmrCleanup' /\ hmrCleanup' \subseteq Files
      /\ hmrMissed \subseteq hmrMissed' /\ hmrMissed' \subseteq Files
      /\ DOMAIN hmrQueue.files \subseteq DOMAIN hmrQueue'.files /\ hmrQueue.deletes \subseteq hmrQueue'.deletes
      /\ hmrQueue'.deletes \subseteq hmrQueue.deletes \cup {f}
      /\ hmrQueue'.timer \/ hmrQueue' = hmrQueue
      /\ \/ W!Ignored(f, c)
         \/ c = "absent" /\ f \in hmrQueue'.deletes
         \/ /\ c # "absent" /\ f \in DOMAIN hmrQueue'.files /\ (c = "plain" => f \in hmrCleanup')
            /\ hmrQueue'.deletes = hmrQueue.deletes
      /\ W!Ignored(f, c) /\ f \in hmrRun.chosen /\ hmrRun.stage = "write" => f \in hmrMissed'
  BY SaveQueues
<1>4. /\ hmrDisk'[f] = c /\ \A g \in Files \ {f} : hmrDisk'[g] = hmrDisk[g]
      /\ hmrDisk' \in [Files -> Versions \cup {"absent", "plain"}]
      /\ \A g \in Files : hmrDisk'[g] \in W!Contents(g)
  BY <1>1, <1>2 DEF HotTyped, W!Contents
<1>5. HotTyped'
  BY <1>1, <1>2, <1>3, <1>4 DEF HotTyped, IsBatch, Marks
<1>6. Emptied' /\ Singles' /\ Made' /\ RunTyped'
  BY <1>1, <1>2, RestKept
<1>7. HotStages'
  BY <1>1, <1>2, <1>3 DEF HotStages
<1>8. /\ Waiting' = Waiting /\ Queueing \subseteq Queueing' /\ Deleting \subseteq Deleting'
      /\ DOMAIN hmrQueue'.files \subseteq Queueing' /\ hmrQueue'.deletes \subseteq Deleting'
  BY <1>2, <1>3 DEF Waiting, Queueing, Deleting
<1>9. \A g \in Files \ {f} : Due(g) => Due(g)'
  BY <1>3, <1>4, <1>8 DEF Due
<1>10. W!Ignored(f, c) \/ Due(f)'
  BY <1>3, <1>4, <1>8 DEF Due, HotConstants
<1>11. Returned'
  <2> SUFFICES ASSUME NEW g \in Files, hmrDisk'[g] \in Versions
               PROVE  /\ g \in hmrQueue'.deletes => g \in DOMAIN hmrQueue'.files
                      /\ g \in hmrPending'.deletes => g \in DOMAIN hmrPending'.files \cup DOMAIN hmrQueue'.files
                      /\ Waiting' /\ g \in hmrBatch'.deletes => g \in Queueing'
    BY DEF Returned
  <2>1. CASE g # f
    <3>1. hmrDisk[g] \in Versions
      BY <1>4, <2>1
    <3>2. /\ g \in hmrQueue.deletes => g \in DOMAIN hmrQueue.files
          /\ g \in hmrPending.deletes => g \in DOMAIN hmrPending.files \cup DOMAIN hmrQueue.files
          /\ Waiting /\ g \in hmrBatch.deletes => g \in Queueing
      BY <1>1, <3>1 DEF Returned
    <3> QED  BY <1>2, <1>3, <1>8, <2>1, <3>2
  <2>2. CASE g = f
    <3>1. c \in Versions /\ c # "absent" /\ ~W!Ignored(f, c)
      BY <1>4, <2>2 DEF W!Ignored, HotConstants
    <3>2. f \in DOMAIN hmrQueue'.files
      BY <1>3, <3>1
    <3> QED  BY <1>8, <2>2, <3>2
  <2> QED  BY <2>1, <2>2
<1>12. Loads'
  <2> SUFFICES ASSUME NEW g \in Files \ (hmrMissed' \cup hmrKept')
               PROVE  Loaded(g)'
    BY DEF Loads
  <2>1. Loaded(g)
    BY <1>1, <1>2, <1>3 DEF Loads
  <2>2. CASE g # f
    BY <1>2, <1>4, <1>9, <2>1, <2>2 DEF Loaded
  <2>3. CASE g = f /\ Due(f)'
    BY <1>2, <2>1, <2>3 DEF Loaded
  <2>4. CASE g = f /\ W!Ignored(f, c)
    <3>1. hmrRows[f] = {} /\ W!Found(c) = {} /\ ~(f \in hmrRun.chosen /\ hmrRun.stage = "write")
      BY <1>3, <2>4, FoundShape DEF W!Ignored
    <3> QED  BY <1>2, <1>4, <2>1, <2>4, <3>1 DEF Loaded
  <2> QED  BY <1>10, <2>2, <2>3, <2>4
<1> QED  BY <1>5, <1>6, <1>7, <1>11, <1>12 DEF HotInv

LEMMA ChangeSchemaKeeps ==
  ASSUME HotInv, W!ChangeSchema
  PROVE  HotInv'
<1>1. HotTyped /\ RunTyped /\ HotStages /\ Returned /\ Loads /\ Emptied /\ Singles /\ Made
  BY DEF HotInv
<1>2. /\ hmrSchema' = TRUE
      /\ UNCHANGED <<hmrDisk, hmrQueue, hmrPending, hmrBatch, hmrProcessing, hmrCleanup, hmrRun, hmrRows, hmrDocs, hmrArtifacts,
                     hmrOwed, hmrMissed, hmrKept>>
  BY DEF W!ChangeSchema, W!compiled
<1>3. Waiting' = Waiting /\ Queueing' = Queueing /\ Deleting' = Deleting
  BY <1>2 DEF Waiting, Queueing, Deleting
<1>4. \A f \in Files : Due(f) => Due(f)'
  BY <1>2, <1>3 DEF Due
<1>5. Loads'
  BY <1>1, <1>2, <1>4, LoadsKept
<1>6. Emptied' /\ Singles' /\ Made' /\ RunTyped'
  BY <1>1, <1>2, RestKept
<1>7. HotTyped' /\ HotStages' /\ Returned'
  BY <1>1, <1>2, <1>3 DEF HotTyped, IsBatch, Marks, HotStages, Returned
<1> QED  BY <1>5, <1>6, <1>7 DEF HotInv

\* What was queued is now pending, or the batch.
LEMMA FireKeeps ==
  ASSUME HotConstants, HotInv, W!Fire
  PROVE  HotInv'
<1>1. HotTyped /\ RunTyped /\ HotStages /\ Returned /\ Loads /\ Emptied /\ Singles /\ Made
  BY DEF HotInv
<1>2. /\ hmrQueue' = [files |-> W!Nothing, deletes |-> {}, timer |-> FALSE]
      /\ UNCHANGED <<hmrDisk, hmrCleanup, hmrSchema, hmrRun, hmrRows, hmrDocs, hmrArtifacts, hmrOwed, hmrMissed, hmrKept>>
  BY DEF W!Fire, W!compiled
<1>3. /\ DOMAIN hmrQueue' = {"files", "deletes", "timer"} /\ Marks(hmrQueue'.files)
      /\ DOMAIN hmrQueue'.files = {} /\ hmrQueue'.deletes = {} /\ hmrQueue'.timer = FALSE
  BY <1>2, NoBatchShape
<1>4. Marks(hmrQueue.files) /\ IsBatch(hmrPending) /\ hmrQueue.deletes \subseteq Files
  BY <1>1 DEF HotTyped
<1>5. CASE hmrProcessing
  <2>1. hmrPending' = W!Merged(hmrPending) /\ UNCHANGED <<hmrBatch, hmrProcessing>>
    BY <1>5 DEF W!Fire
  <2>2. /\ DOMAIN hmrPending'.files = DOMAIN hmrPending.files \cup DOMAIN hmrQueue.files
        /\ hmrPending'.deletes = hmrPending.deletes \cup hmrQueue.deletes /\ IsBatch(hmrPending')
    <3> DEFINE fs == [f \in DOMAIN hmrPending.files \cup DOMAIN hmrQueue.files |->
                        IF f \in DOMAIN hmrQueue.files THEN hmrQueue.files[f] ELSE hmrPending.files[f]]
    <3>1. hmrPending' = [files |-> fs, deletes |-> hmrPending.deletes \cup hmrQueue.deletes]
      BY <2>1 DEF W!Merged
    <3>2. /\ DOMAIN fs = DOMAIN hmrPending.files \cup DOMAIN hmrQueue.files /\ Marks(fs)
      <4>1. Marks(hmrPending.files)
        BY <1>4 DEF IsBatch
      <4>2. \A g \in DOMAIN fs : fs[g] \in BOOLEAN
        BY <1>4, <4>1 DEF Marks
      <4>3. fs = [g \in DOMAIN fs |-> fs[g]]
        OBVIOUS
      <4> QED  BY <1>4, <4>1, <4>2, <4>3 DEF Marks
    <3> HIDE DEF fs
    <3> QED  BY <1>4, <3>1, <3>2 DEF IsBatch
  <2>3. Waiting' = Waiting /\ Queueing' = Queueing /\ Deleting' = Deleting
    BY <1>2, <1>3, <2>1, <2>2 DEF Waiting, Queueing, Deleting
  <2>4. \A f \in Files : Due(f) => Due(f)'
    BY <1>2, <2>3 DEF Due
  <2>5. Returned'
    <3> SUFFICES ASSUME NEW g \in Files, hmrDisk[g] \in Versions
                 PROVE  /\ g \in hmrPending'.deletes => g \in DOMAIN hmrPending'.files
                        /\ Waiting /\ g \in hmrBatch.deletes => g \in Queueing
      BY <1>2, <1>3, <2>1, <2>3 DEF Returned
    <3> QED  BY <1>1, <2>2 DEF Returned
  <2>6. Loads'
    BY <1>1, <1>2, <2>4, LoadsKept
  <2>7. Emptied' /\ Singles' /\ Made' /\ RunTyped'
    BY <1>1, <1>2, RestKept
  <2>8. HotStages'
    BY <1>1, <1>2, <1>3, <1>5, <2>1 DEF HotStages
  <2>9. HotTyped'
    BY <1>1, <1>2, <1>3, <2>1, <2>2 DEF HotTyped, IsBatch, Marks
  <2> QED  BY <2>5, <2>6, <2>7, <2>8, <2>9 DEF HotInv
<1>6. CASE ~hmrProcessing
  <2>1. /\ hmrProcessing' = TRUE /\ hmrPending' = hmrPending
        /\ hmrBatch' = [files |-> W!Read(hmrQueue.files), deletes |-> hmrQueue.deletes]
    BY <1>6 DEF W!Fire
  <2>2. /\ IsBatch(hmrBatch') /\ hmrBatch'.deletes = hmrQueue.deletes
        /\ DOMAIN hmrBatch'.files \subseteq DOMAIN hmrQueue.files
        /\ \A f \in DOMAIN hmrQueue.files : hmrDisk[f] # "absent" => f \in DOMAIN hmrBatch'.files
    BY <1>4, <2>1, ReadShape DEF IsBatch
  <2>3. /\ DOMAIN hmrPending.files = {} /\ hmrPending.deletes = {}
        /\ hmrRun.stage = "none" \/ hmrRun.all
    BY <1>1, <1>6 DEF HotStages, W!IsEmpty
  <2>4. Waiting' /\ ~Waiting
    BY <1>2, <1>6, <2>1, <2>3 DEF Waiting
  <2>5. /\ Queueing = DOMAIN hmrQueue.files /\ Queueing' = DOMAIN hmrBatch'.files
        /\ Deleting = hmrQueue.deletes /\ Deleting' = hmrQueue.deletes
    BY <1>3, <2>1, <2>2, <2>3, <2>4 DEF Queueing, Deleting
  <2>6. \A f \in Files : Due(f) => Due(f)'
    BY <1>2, <2>2, <2>5 DEF Due
  <2>7. Returned'
    <3> SUFFICES ASSUME NEW g \in Files, hmrDisk[g] \in Versions
                 PROVE  g \in hmrQueue.deletes => g \in DOMAIN hmrBatch'.files
      BY <1>2, <1>3, <2>1, <2>2, <2>3, <2>5 DEF Returned
    <3> QED  BY <1>1, <2>2 DEF Returned, HotConstants
  <2>8. Loads'
    BY <1>1, <1>2, <2>6, LoadsKept
  <2>9. Emptied' /\ Singles' /\ Made' /\ RunTyped'
    BY <1>1, <1>2, RestKept
  <2>10. HotStages'
    BY <1>1, <1>2, <1>3, <2>1 DEF HotStages
  <2>11. HotTyped'
    BY <1>1, <1>2, <1>3, <2>1, <2>2 DEF HotTyped, IsBatch, Marks
  <2> QED  BY <2>7, <2>8, <2>9, <2>10, <2>11 DEF HotInv
<1> QED  BY <1>1, <1>5, <1>6 DEF HotTyped

-----------------------------------------------------------------------------
(* The lock is taken.                                                      *)

\* What the batch takes up: the fields of its run, and the run's name for it.
Chosen == {f \in DOMAIN hmrBatch.files : f \in Gql \/ hmrBatch.files[f] \/ f \in hmrCleanup}
Left == W!Without(hmrRows, hmrBatch.deletes)

LEMMA BatchTaken ==
  ASSUME HotConstants, HotInv, W!BeginBatch
  PROVE  /\ hmrRun = W!NoRun /\ hmrProcessing = TRUE /\ Chosen \subseteq DOMAIN hmrBatch.files
         /\ Chosen \subseteq Files /\ DOMAIN hmrBatch.files \subseteq Files
         /\ hmrCleanup' \subseteq hmrCleanup /\ hmrCleanup \subseteq hmrCleanup' \cup Chosen
         /\ hmrKept \subseteq hmrKept' /\ hmrKept' \subseteq Files
         /\ \A f \in DOMAIN hmrBatch.files \ Chosen :
              /\ f \notin hmrCleanup
              /\ f \in hmrKept' \/ hmrDisk[f] \notin Versions \/ Left[f] = {hmrDisk[f]}
         /\ Left \in [Files -> SUBSET Versions]
         /\ \A f \in Files : Left[f] = IF f \in hmrBatch.deletes THEN {} ELSE hmrRows[f]
         /\ hmrRows' \in [Files -> SUBSET Versions] /\ hmrDocs' \in [Files -> SUBSET Versions]
         /\ \A f \in Files : /\ hmrRows'[f] = IF f \in Chosen THEN {} ELSE Left[f]
                             /\ hmrDocs'[f] = IF f \in hmrBatch.deletes \cup Chosen THEN {} ELSE hmrDocs[f]
         /\ UNCHANGED <<hmrDisk, hmrQueue, hmrSchema, hmrArtifacts, hmrOwed, hmrMissed>>
         /\ IF Chosen = {} /\ hmrBatch.deletes = {}
            THEN hmrRun' = W!NoRun /\ W!NextBatch
            ELSE /\ hmrRun' = [W!NoRun EXCEPT !.stage = IF Chosen = {} THEN "validate" ELSE "extract",
                                         !.chosen = Chosen,
                                         !.task = IF Chosen = {} THEN Files ELSE {},
                                         !.saved = [f \in Chosen |-> Left[f]]]
                 /\ UNCHANGED <<hmrPending, hmrBatch, hmrProcessing>>
<1>1. /\ W!Free /\ hmrProcessing
      /\ hmrCleanup' = hmrCleanup \ {f \in DOMAIN hmrBatch.files : f \notin Gql /\ ~hmrBatch.files[f]}
      /\ hmrKept' = hmrKept \cup {f \in DOMAIN hmrBatch.files \ Chosen :
                            hmrDisk[f] \in Versions /\ Left[f] # {hmrDisk[f]}}
      /\ hmrRows' = W!Without(Left, Chosen)
      /\ hmrDocs' = W!Without(hmrDocs, hmrBatch.deletes \cup Chosen)
      /\ UNCHANGED <<hmrDisk, hmrQueue, hmrSchema, hmrArtifacts, hmrOwed, hmrMissed>>
      /\ IF Chosen = {} /\ hmrBatch.deletes = {}
         THEN hmrRun' = W!NoRun /\ W!NextBatch
         ELSE /\ hmrRun' = [W!NoRun EXCEPT !.stage = IF Chosen = {} THEN "validate" ELSE "extract",
                                      !.chosen = Chosen,
                                      !.task = IF Chosen = {} THEN Files ELSE {},
                                      !.saved = [f \in Chosen |-> Left[f]]]
              /\ UNCHANGED <<hmrPending, hmrBatch, hmrProcessing>>
  BY DEF W!BeginBatch, Chosen, Left
<1>2. /\ hmrRows \in [Files -> SUBSET Versions] /\ hmrDocs \in [Files -> SUBSET Versions]
      /\ DOMAIN hmrBatch.files \subseteq Files /\ hmrProcessing \in BOOLEAN /\ hmrKept \subseteq Files
  BY DEF HotInv, HotTyped, IsBatch, Marks
<1>3. Chosen \subseteq DOMAIN hmrBatch.files /\ \A f \in DOMAIN hmrBatch.files \ Chosen : f \notin hmrCleanup
  BY DEF Chosen
<1>4. hmrCleanup \subseteq hmrCleanup' \cup Chosen
  BY <1>1 DEF Chosen
<1>5. /\ Left \in [Files -> SUBSET Versions]
      /\ \A f \in Files : Left[f] = IF f \in hmrBatch.deletes THEN {} ELSE hmrRows[f]
  BY <1>2 DEF Left, W!Without
<1>6. /\ hmrRows' \in [Files -> SUBSET Versions] /\ hmrDocs' \in [Files -> SUBSET Versions]
      /\ \A f \in Files : /\ hmrRows'[f] = IF f \in Chosen THEN {} ELSE Left[f]
                          /\ hmrDocs'[f] = IF f \in hmrBatch.deletes \cup Chosen THEN {} ELSE hmrDocs[f]
  BY <1>1, <1>2, <1>5 DEF W!Without
<1>7. \A f \in DOMAIN hmrBatch.files \ Chosen :
        f \in hmrKept' \/ hmrDisk[f] \notin Versions \/ Left[f] = {hmrDisk[f]}
  BY <1>1
<1>8. hmrRun = W!NoRun /\ hmrProcessing = TRUE
  BY <1>1, <1>2 DEF W!Free
<1>9. hmrCleanup' \subseteq hmrCleanup /\ hmrKept \subseteq hmrKept' /\ hmrKept' \subseteq Files
  BY <1>1, <1>2
<1> QED  BY <1>1, <1>2, <1>3, <1>4, <1>5, <1>6, <1>7, <1>8, <1>9

\* What of f is still to come, when the batch has been taken up.
Later(f) ==
  IF hmrDisk[f] = "absent" THEN f \in hmrQueue.deletes \cup hmrPending.deletes
  ELSE /\ f \in DOMAIN hmrQueue.files \cup DOMAIN hmrPending.files
       /\ hmrDisk[f] = "plain" => f \in hmrCleanup'

\* A file that the batch does not take up is as it is on the disk, or comes later.
LEMMA BatchLeaves ==
  ASSUME HotConstants, HotInv, W!BeginBatch, NEW f \in Files \ (hmrMissed \cup hmrKept'), f \notin Chosen
  PROVE  hmrDocs'[f] = hmrRows'[f] /\ (hmrDocs'[f] = W!Found(hmrDisk[f]) \/ Later(f))
<1>1. /\ hmrRun = W!NoRun /\ hmrProcessing = TRUE /\ hmrCleanup \subseteq hmrCleanup' \cup Chosen
      /\ hmrKept \subseteq hmrKept'
      /\ f \in DOMAIN hmrBatch.files => /\ f \notin hmrCleanup
                                        /\ hmrDisk[f] \notin Versions \/ Left[f] = {hmrDisk[f]}
      /\ Left[f] = IF f \in hmrBatch.deletes THEN {} ELSE hmrRows[f]
      /\ hmrRows'[f] = Left[f] /\ hmrDocs'[f] = IF f \in hmrBatch.deletes THEN {} ELSE hmrDocs[f]
  BY BatchTaken
<1>2. hmrRun.stage = "none" /\ hmrRun.chosen = {} /\ Waiting
  BY <1>1, NoRunFields DEF Waiting
<1>3. hmrDocs[f] = hmrRows[f] /\ (hmrDocs[f] = W!Found(hmrDisk[f]) \/ Due(f))
  BY <1>1, <1>2 DEF HotInv, Loads, Loaded
<1>4. hmrDocs'[f] = hmrRows'[f]
  BY <1>1, <1>3
<1>5. /\ Queueing = DOMAIN hmrQueue.files \cup DOMAIN hmrPending.files \cup DOMAIN hmrBatch.files
      /\ Deleting = hmrQueue.deletes \cup hmrPending.deletes \cup hmrBatch.deletes
  BY <1>2 DEF Queueing, Deleting
<1>6. hmrDisk[f] \in Versions \/ hmrDisk[f] = "absent" \/ hmrDisk[f] = "plain"
  BY DEF HotInv, HotTyped
<1>7. hmrDisk[f] \in Versions => hmrDisk[f] # "absent" /\ hmrDisk[f] # "plain" /\ W!Found(hmrDisk[f]) = {hmrDisk[f]}
  BY DEF HotConstants, W!Found
<1>8. hmrDisk[f] \notin Versions => W!Found(hmrDisk[f]) = {}
  BY FoundShape
<1>9. CASE f \in hmrBatch.deletes
  <2>1. hmrDocs'[f] = {} /\ Left[f] = {}
    BY <1>1, <1>9
  <2>2. CASE hmrDisk[f] \in Versions
    <3>1. f \in Queueing
      BY <1>2, <1>9, <2>2 DEF HotInv, Returned
    <3>2. f \notin DOMAIN hmrBatch.files
      BY <1>1, <2>1, <2>2
    <3> QED  BY <1>4, <1>5, <1>7, <2>2, <3>1, <3>2 DEF Later
  <2> QED  BY <1>4, <1>8, <2>1, <2>2
<1>10. CASE f \notin hmrBatch.deletes /\ hmrDocs[f] = W!Found(hmrDisk[f])
  BY <1>1, <1>4, <1>10
<1>11. CASE f \notin hmrBatch.deletes /\ Due(f)
  <2>1. CASE hmrDisk[f] = "absent"
    BY <1>4, <1>5, <1>11, <2>1 DEF Due, Later
  <2>2. CASE hmrDisk[f] # "absent" /\ f \in DOMAIN hmrQueue.files \cup DOMAIN hmrPending.files
    BY <1>1, <1>4, <1>11, <2>2 DEF Due, Later
  <2>3. CASE hmrDisk[f] # "absent" /\ f \in DOMAIN hmrBatch.files
    <3>1. hmrDisk[f] # "plain"
      BY <1>1, <1>11, <2>3 DEF Due
    <3>2. Left[f] = {hmrDisk[f]} /\ W!Found(hmrDisk[f]) = {hmrDisk[f]}
      BY <1>1, <1>6, <1>7, <2>3, <3>1
    <3> QED  BY <1>1, <1>4, <3>2
  <2> QED  BY <1>5, <1>11, <2>1, <2>2, <2>3 DEF Due
<1> QED  BY <1>3, <1>9, <1>10, <1>11

LEMMA BeginBatchKeeps ==
  ASSUME HotConstants, HotInv, W!BeginBatch
  PROVE  HotInv'
<1>1. HotTyped /\ RunTyped /\ HotStages /\ Returned /\ Loads /\ Emptied /\ Singles /\ Made
  BY DEF HotInv
<1>2. /\ hmrRun = W!NoRun /\ hmrProcessing = TRUE /\ Chosen \subseteq Files
      /\ hmrCleanup' \subseteq hmrCleanup
      /\ hmrKept' \subseteq Files
      /\ Left \in [Files -> SUBSET Versions]
      /\ hmrRows' \in [Files -> SUBSET Versions] /\ hmrDocs' \in [Files -> SUBSET Versions]
      /\ \A f \in Files : /\ hmrRows'[f] = IF f \in Chosen THEN {} ELSE Left[f]
                          /\ hmrDocs'[f] = IF f \in hmrBatch.deletes \cup Chosen THEN {} ELSE hmrDocs[f]
      /\ UNCHANGED <<hmrDisk, hmrQueue, hmrSchema, hmrArtifacts, hmrOwed, hmrMissed>>
      /\ IF Chosen = {} /\ hmrBatch.deletes = {}
         THEN hmrRun' = W!NoRun /\ W!NextBatch
         ELSE /\ hmrRun' = [W!NoRun EXCEPT !.stage = IF Chosen = {} THEN "validate" ELSE "extract",
                                      !.chosen = Chosen,
                                      !.task = IF Chosen = {} THEN Files ELSE {},
                                      !.saved = [f \in Chosen |-> Left[f]]]
              /\ UNCHANGED <<hmrPending, hmrBatch, hmrProcessing>>
  BY BatchTaken
<1>3. hmrRun.stage = "none" /\ hmrRun.chosen = {} /\ hmrRun.all = FALSE
  BY <1>2, NoRunFields
<1>4. \A f \in Files : /\ Single(hmrDocs'[f])
                       /\ hmrDocs'[f] # {} => hmrDocs'[f] = hmrDocs[f]
  BY <1>1, <1>2 DEF Singles, Single
<1>5. \A f \in Files \ hmrOwed' : Complete(f)' =>
        hmrArtifacts'[f] = [g \in {f} \cup DependsOn[f] |-> hmrDocs'[g]]
  <2> SUFFICES ASSUME NEW f \in Files \ hmrOwed, Complete(f)'
               PROVE  hmrArtifacts[f] = [g \in {f} \cup DependsOn[f] |-> hmrDocs'[g]]
    BY <1>2
  <2>1. DependsOn[f] \subseteq Files
    BY DEF HotConstants
  <2>2. \A g \in {f} \cup DependsOn[f] : hmrDocs'[g] = hmrDocs[g] /\ hmrDocs[g] # {}
    BY <1>4, <2>1 DEF Complete
  <2>3. hmrArtifacts[f] = [g \in {f} \cup DependsOn[f] |-> hmrDocs[g]]
    BY <1>1, <1>3, <2>2 DEF Made, Complete
  <2> QED  BY <2>2, <2>3
<1>6. CASE Chosen = {} /\ hmrBatch.deletes = {}
  <2>1. hmrRun' = W!NoRun /\ W!NextBatch
    BY <1>2, <1>6
  <2>2. /\ IsBatch(hmrPending') /\ IsBatch(hmrBatch') /\ hmrProcessing' \in BOOLEAN /\ Returned'
        /\ ~hmrProcessing' => W!IsEmpty(hmrPending') /\ hmrBatch' = W!NoBatch
        /\ \A f \in Files : hmrDisk[f] # "absent" /\ f \in DOMAIN hmrQueue.files \cup DOMAIN hmrPending.files
                              => f \in Queueing'
        /\ hmrQueue.deletes \cup hmrPending.deletes \subseteq Deleting'
    BY <1>1, <1>2, <2>1, NextBatchKeeps
  <2>3. /\ RunTyped' /\ hmrRun'.stage = "none" /\ hmrRun'.chosen = {} /\ hmrRun'.all = FALSE
        /\ DOMAIN hmrRun'.saved = {}
    BY <2>1, NoRunFields DEF RunTyped, RunStages
  <2>4. HotTyped'
    BY <1>1, <1>2, <2>2 DEF HotTyped, Marks
  <2>5. HotStages'
    BY <1>1, <1>2, <2>1, <2>2, <2>3 DEF HotStages
  <2>6. Loads'
    <3> SUFFICES ASSUME NEW f \in Files \ (hmrMissed \cup hmrKept')
                 PROVE  Loaded(f)'
      BY <1>2 DEF Loads
    <3>1. hmrDocs'[f] = hmrRows'[f] /\ (hmrDocs'[f] = W!Found(hmrDisk[f]) \/ Later(f))
      BY <1>6, BatchLeaves
    <3>2. Later(f) => Due(f)'
      BY <1>2, <2>2 DEF Later, Due
    <3> QED  BY <1>2, <2>3, <3>1, <3>2 DEF Loaded
  <2>7. Emptied' /\ Singles' /\ Made'
    BY <1>4, <1>5, <2>3 DEF Emptied, Singles, Made
  <2> QED  BY <2>2, <2>3, <2>4, <2>5, <2>6, <2>7 DEF HotInv
<1>7. CASE ~(Chosen = {} /\ hmrBatch.deletes = {})
  <2> DEFINE s == IF Chosen = {} THEN "validate" ELSE "extract"
             t == IF Chosen = {} THEN Files ELSE {}
             y == [f \in Chosen |-> Left[f]]
  <2>1. /\ hmrRun' = [W!NoRun EXCEPT !.stage = s, !.chosen = Chosen, !.task = t, !.saved = y]
        /\ UNCHANGED <<hmrPending, hmrBatch, hmrProcessing>>
    BY <1>2, <1>7
  <2>2. /\ DOMAIN y = Chosen /\ \A f \in Chosen : y[f] \subseteq Versions
        /\ t \subseteq Files /\ s \in {"extract", "validate"} /\ (s = "extract" <=> Chosen # {})
    BY <1>2
  <2> HIDE DEF s, t, y
  <2>3. /\ DOMAIN hmrRun' = RunFields /\ hmrRun'.stage = s /\ hmrRun'.chosen = Chosen /\ hmrRun'.task = t
        /\ hmrRun'.saved = y /\ hmrRun'.all = FALSE
    BY <2>1, NoRunFields DEF RunFields
  <2>4. RunTyped'
    BY <1>2, <2>2, <2>3 DEF RunTyped, RunStages
  <2>5. HotTyped'
    BY <1>1, <1>2, <2>1 DEF HotTyped, Marks, IsBatch
  <2>6. HotStages'
    BY <1>1, <1>2, <2>1, <2>2, <2>3 DEF HotStages
  <2>7. /\ Queueing' = DOMAIN hmrQueue.files \cup DOMAIN hmrPending.files /\ ~Waiting'
        /\ Deleting' = hmrQueue.deletes \cup hmrPending.deletes
    BY <1>2, <2>1, <2>2, <2>3 DEF Queueing, Deleting, Waiting
  <2>8. Returned'
    BY <1>1, <1>2, <2>1, <2>7 DEF Returned
  <2>9. Loads'
    <3> SUFFICES ASSUME NEW f \in Files \ (hmrMissed \cup hmrKept')
                 PROVE  Loaded(f)'
      BY <1>2 DEF Loads
    <3>1. CASE f \in Chosen
      BY <2>2, <2>3, <3>1 DEF Loaded
    <3>2. CASE f \notin Chosen
      <4>1. hmrDocs'[f] = hmrRows'[f] /\ (hmrDocs'[f] = W!Found(hmrDisk[f]) \/ Later(f))
        BY <3>2, BatchLeaves
      <4>2. Later(f) => Due(f)'
        BY <1>2, <2>7 DEF Later, Due
      <4> QED  BY <1>2, <2>3, <3>2, <4>1, <4>2 DEF Loaded
    <3> QED  BY <3>1, <3>2
  <2>10. Emptied' /\ Singles'
    BY <1>2, <1>4, <2>2, <2>3 DEF Emptied, Singles
  <2>11. Made'
    BY <1>5 DEF Made
  <2> QED  BY <2>4, <2>5, <2>6, <2>8, <2>9, <2>10, <2>11 DEF HotInv
<1> QED  BY <1>6, <1>7

\* The schema's run takes every file.
LEMMA BeginSchemaKeeps ==
  ASSUME HotConstants, HotInv, W!BeginSchema
  PROVE  HotInv'
<1>1. HotTyped /\ RunTyped /\ HotStages /\ Returned /\ Loads /\ Emptied /\ Singles /\ Made
  BY DEF HotInv
<1>2. /\ hmrRun = W!NoRun /\ hmrSchema' = FALSE
      /\ hmrRun' = [W!NoRun EXCEPT !.stage = "extract", !.chosen = Files, !.all = TRUE]
      /\ UNCHANGED <<hmrDisk, hmrQueue, hmrPending, hmrBatch, hmrProcessing, hmrCleanup, hmrRows, hmrDocs, hmrArtifacts,
                     hmrOwed, hmrMissed, hmrKept>>
  BY DEF W!BeginSchema, W!Free, W!compiled
<1>3. hmrRun.stage = "none" /\ hmrRun.chosen = {}
  BY <1>2, NoRunFields
<1>4. /\ DOMAIN hmrRun' = RunFields /\ hmrRun'.stage = "extract" /\ hmrRun'.chosen = Files
      /\ hmrRun'.task = {} /\ hmrRun'.saved = W!Nothing /\ hmrRun'.all = TRUE /\ DOMAIN W!Nothing = {}
  BY <1>2, NoRunFields DEF RunFields
<1>5. Waiting' = Waiting
  BY <1>1, <1>2, <1>3, <1>4 DEF Waiting, HotTyped
<1>6. Queueing' = Queueing /\ Deleting' = Deleting
  BY <1>2, <1>5 DEF Queueing, Deleting
<1>7. HotTyped' /\ Returned'
  BY <1>1, <1>2, <1>5, <1>6 DEF HotTyped, IsBatch, Marks, Returned
<1>8. RunTyped' /\ HotStages'
  BY <1>1, <1>2, <1>4 DEF RunTyped, RunStages, HotStages
<1>9. Loads' /\ Emptied' /\ Singles'
  BY <1>1, <1>2, <1>4 DEF Loads, Loaded, Emptied, Singles
<1>10. Made'
  BY <1>1, <1>2, <1>3 DEF Made, Complete
<1> QED  BY <1>7, <1>8, <1>9, <1>10 DEF HotInv

-----------------------------------------------------------------------------
(* The steps of a run.                                                     *)

\* A step of the run leaves what waits as it is.
LEMMA RunGoesOn ==
  ASSUME HotTyped, RunTyped, HotStages, Returned, hmrRun.stage # "none", hmrRun'.stage # "none",
         hmrRun'.all = hmrRun.all, UNCHANGED <<hmrDisk, hmrQueue, hmrCleanup, hmrPending, hmrBatch, hmrProcessing>>
  PROVE  Returned' /\ \A f \in Files : Due(f) => Due(f)'
<1>1. Waiting' = Waiting
  BY DEF Waiting, HotTyped, RunTyped
<1>2. Queueing' = Queueing /\ Deleting' = Deleting
  BY <1>1 DEF Queueing, Deleting
<1> QED  BY <1>1, <1>2 DEF Returned, Due

LEMMA ExtractKeeps ==
  ASSUME HotConstants, HotInv, W!Extract
  PROVE  HotInv'
<1>1. HotTyped /\ RunTyped /\ HotStages /\ Returned /\ Loads /\ Emptied /\ Singles /\ Made
  BY DEF HotInv
<1> DEFINE x == [f \in hmrRun.chosen |-> hmrDisk[f]]
<1>2. /\ hmrRun.stage = "extract"
      /\ hmrRun' = [hmrRun EXCEPT !.stage = "write", !.found = x]
      /\ hmrMissed' = hmrMissed \ hmrRun.chosen /\ hmrKept' = hmrKept \ hmrRun.chosen
      /\ UNCHANGED <<hmrDisk, hmrQueue, hmrPending, hmrBatch, hmrProcessing, hmrCleanup, hmrSchema, hmrRows, hmrDocs, hmrArtifacts,
                     hmrOwed>>
  BY DEF W!Extract, W!compiled
<1>3. DOMAIN x = hmrRun.chosen /\ \A f \in hmrRun.chosen : x[f] = hmrDisk[f]
  OBVIOUS
<1> HIDE DEF x
<1>4. /\ DOMAIN hmrRun' = RunFields /\ hmrRun'.stage = "write" /\ hmrRun'.chosen = hmrRun.chosen
      /\ hmrRun'.task = hmrRun.task /\ hmrRun'.found = x /\ hmrRun'.saved = hmrRun.saved /\ hmrRun'.all = hmrRun.all
  BY <1>1, <1>2 DEF RunTyped, RunFields
<1>5. Returned' /\ \A f \in Files : Due(f) => Due(f)'
  BY <1>1, <1>2, <1>4, RunGoesOn
<1>6. HotTyped' /\ RunTyped'
  BY <1>1, <1>2, <1>4 DEF HotTyped, IsBatch, Marks, RunTyped, RunStages
<1>7. HotStages'
  <2>1. \A f \in hmrRun.chosen : x[f] \in W!Contents(f)
    BY <1>1, <1>3 DEF HotTyped, RunTyped
  <2> QED  BY <1>1, <1>2, <1>3, <1>4, <2>1 DEF HotStages
<1>8. Emptied' /\ Singles' /\ Made'
  BY <1>1, <1>2, <1>4 DEF Emptied, Singles, Made, Complete
<1>9. Loads'
  <2> SUFFICES ASSUME NEW f \in Files \ (hmrMissed' \cup hmrKept')
               PROVE  Loaded(f)'
    BY DEF Loads
  <2>1. CASE f \in hmrRun.chosen
    BY <1>2, <1>3, <1>4, <2>1 DEF Loaded
  <2>2. CASE f \notin hmrRun.chosen
    <3>1. Loaded(f)
      BY <1>1, <1>2, <2>2 DEF Loads
    <3> QED  BY <1>2, <1>4, <1>5, <2>2, <3>1 DEF Loaded
  <2> QED  BY <2>1, <2>2
<1> QED  BY <1>5, <1>6, <1>7, <1>8, <1>9 DEF HotInv

\* The artifacts are made where nothing that is loaded changed before the task was set.
LEMMA MadeKept ==
  ASSUME Made, hmrRun.stage \notin {"closure", "validate", "generate"},
         UNCHANGED <<hmrDocs, hmrArtifacts>>, hmrOwed \subseteq hmrOwed'
  PROVE  Made'
BY DEF Made, Complete

LEMMA WriteKeeps ==
  ASSUME HotConstants, HotInv, W!Write
  PROVE  HotInv'
<1>1. HotTyped /\ RunTyped /\ HotStages /\ Returned /\ Loads /\ Emptied /\ Singles /\ Made
  BY DEF HotInv
<1> DEFINE err == ~hmrRun.all /\ \E f \in hmrRun.chosen : hmrRun.found[f] = "absent"
           early == ~hmrRun.all /\ \A f \in hmrRun.chosen : W!Found(hmrRun.found[f]) = {} /\ hmrRun.saved[f] = {}
<1>2. /\ hmrRun.stage = "write"
      /\ hmrDocs' = IF hmrRun.all THEN [f \in Files |-> hmrDocs[f] \cap hmrRows'[f]] ELSE hmrDocs
      /\ UNCHANGED <<hmrDisk, hmrQueue, hmrCleanup, hmrSchema, hmrArtifacts, hmrOwed, hmrKept>>
  BY DEF W!Write
<1>3. /\ err => /\ hmrRows' = [f \in Files |-> IF f \in hmrRun.chosen
                                         THEN W!Found(hmrRun.found[f]) \cup hmrRun.saved[f] ELSE hmrRows[f]]
                /\ hmrMissed' = hmrMissed \cup hmrRun.chosen /\ W!Over
      /\ ~err => /\ hmrRows' = [f \in Files |-> IF f \in hmrRun.chosen THEN W!Found(hmrRun.found[f])
                                          ELSE hmrRows[f]]
                 /\ hmrMissed' = hmrMissed
                 /\ early => W!Over
                 /\ ~early => /\ hmrRun' = [hmrRun EXCEPT !.stage = "load"]
                              /\ UNCHANGED <<hmrPending, hmrBatch, hmrProcessing>>
  BY DEF W!Write
<1>4. /\ hmrRows \in [Files -> SUBSET Versions] /\ hmrDocs \in [Files -> SUBSET Versions]
      /\ hmrRun.chosen \subseteq Files /\ hmrRun.all \in BOOLEAN
      /\ ~hmrRun.all => DOMAIN hmrRun.saved = hmrRun.chosen
      /\ \A f \in DOMAIN hmrRun.saved : hmrRun.saved[f] \subseteq Versions
      /\ hmrRun.all => hmrRun.chosen = Files
      /\ hmrMissed \subseteq Files
  BY <1>1 DEF HotTyped, RunTyped, HotStages
<1>5. \A f \in Files : f \in hmrRun.chosen => W!Found(hmrRun.found[f]) \in SUBSET Versions
                                            /\ Single(W!Found(hmrRun.found[f]))
  BY FoundShape
<1>6. CASE err
  <2>1. /\ \A f \in Files : hmrRows'[f] = IF f \in hmrRun.chosen THEN W!Found(hmrRun.found[f]) \cup hmrRun.saved[f]
                                       ELSE hmrRows[f]
        /\ hmrRows' \in [Files -> SUBSET Versions]
        /\ hmrMissed' = hmrMissed \cup hmrRun.chosen /\ hmrDocs' = hmrDocs /\ W!Over /\ ~hmrRun.all
    <3>1. ~hmrRun.all
      BY <1>6
    <3>2. /\ hmrRows' = [f \in Files |-> IF f \in hmrRun.chosen
                                  THEN W!Found(hmrRun.found[f]) \cup hmrRun.saved[f] ELSE hmrRows[f]]
          /\ hmrMissed' = hmrMissed \cup hmrRun.chosen /\ W!Over
      BY <1>3, <1>6
    <3>3. hmrDocs' = hmrDocs
      BY <1>2, <3>1
    <3>4. \A f \in Files : f \in hmrRun.chosen => hmrRun.saved[f] \subseteq Versions
      BY <1>4, <3>1
    <3> HIDE DEF err, early
    <3> QED  BY <1>4, <1>5, <3>1, <3>2, <3>3, <3>4
  <2>2. /\ RunTyped' /\ HotStages' /\ Returned' /\ hmrRun' = W!NoRun
        /\ IsBatch(hmrPending') /\ IsBatch(hmrBatch') /\ hmrProcessing' \in BOOLEAN
        /\ \A f \in Files : Due(f) => Due(f)'
    BY <1>1, <1>2, <2>1, OverKeeps
  <2>3. hmrRun'.stage = "none" /\ hmrRun'.chosen = {}
    BY <2>2, NoRunFields
  <2>4. HotTyped'
    BY <1>1, <1>2, <1>4, <2>1, <2>2 DEF HotTyped, Marks
  <2>5. Loads'
    <3> SUFFICES ASSUME NEW f \in Files \ (hmrMissed' \cup hmrKept')
                 PROVE  Loaded(f)'
      BY DEF Loads
    <3>1. Loaded(f) /\ f \notin hmrRun.chosen
      BY <1>1, <1>2, <2>1 DEF Loads
    <3> QED  BY <1>2, <2>1, <2>2, <2>3, <3>1 DEF Loaded
  <2>6. Emptied' /\ Singles'
    BY <1>1, <2>1, <2>3 DEF Emptied, Singles
  <2>7. Made'
    BY <1>1, <1>2, <2>1, MadeKept
  <2> QED  BY <2>2, <2>4, <2>5, <2>6, <2>7 DEF HotInv
<1>7. CASE ~err /\ early
  <2>1. /\ \A f \in Files : hmrRows'[f] = IF f \in hmrRun.chosen THEN {} ELSE hmrRows[f]
        /\ hmrRows' \in [Files -> SUBSET Versions]
        /\ hmrMissed' = hmrMissed /\ hmrDocs' = hmrDocs /\ W!Over /\ ~hmrRun.all
        /\ \A f \in hmrRun.chosen : W!Found(hmrRun.found[f]) = {}
    BY <1>2, <1>3, <1>4, <1>5, <1>7
  <2>2. /\ RunTyped' /\ HotStages' /\ Returned' /\ hmrRun' = W!NoRun
        /\ IsBatch(hmrPending') /\ IsBatch(hmrBatch') /\ hmrProcessing' \in BOOLEAN
        /\ \A f \in Files : Due(f) => Due(f)'
    BY <1>1, <1>2, <2>1, OverKeeps
  <2>3. hmrRun'.stage = "none" /\ hmrRun'.chosen = {}
    BY <2>2, NoRunFields
  <2>4. HotTyped'
    BY <1>1, <1>2, <1>4, <2>1, <2>2 DEF HotTyped, Marks
  <2>5. Loads'
    <3> SUFFICES ASSUME NEW f \in Files \ (hmrMissed \cup hmrKept)
                 PROVE  Loaded(f)'
      BY <1>2, <2>1 DEF Loads
    <3>1. Loaded(f)
      BY <1>1 DEF Loads
    <3>2. CASE f \in hmrRun.chosen
      <4>1. hmrRun.found[f] = hmrDisk[f] \/ Due(f)
        BY <1>2, <3>1, <3>2 DEF Loaded
      <4>2. hmrDocs[f] = {}
        BY <1>1, <1>2, <2>1, <3>2 DEF Emptied
      <4> QED  BY <1>2, <2>1, <2>2, <2>3, <3>2, <4>1, <4>2 DEF Loaded
    <3>3. CASE f \notin hmrRun.chosen
      BY <1>2, <2>1, <2>2, <2>3, <3>1, <3>3 DEF Loaded
    <3> QED  BY <3>2, <3>3
  <2>6. Emptied' /\ Singles'
    BY <1>1, <2>1, <2>3 DEF Emptied, Singles
  <2>7. Made'
    BY <1>1, <1>2, <2>1, MadeKept
  <2> QED  BY <2>2, <2>4, <2>5, <2>6, <2>7 DEF HotInv
<1>8. CASE ~err /\ ~early
  <2>1. /\ \A f \in Files : hmrRows'[f] = IF f \in hmrRun.chosen THEN W!Found(hmrRun.found[f]) ELSE hmrRows[f]
        /\ hmrRows' \in [Files -> SUBSET Versions]
        /\ hmrMissed' = hmrMissed
        /\ hmrRun' = [hmrRun EXCEPT !.stage = "load"] /\ UNCHANGED <<hmrPending, hmrBatch, hmrProcessing>>
    BY <1>3, <1>4, <1>5, <1>8
  <2>2. /\ hmrDocs' \in [Files -> SUBSET Versions]
        /\ ~hmrRun.all => hmrDocs' = hmrDocs
        /\ \A f \in Files : hmrDocs'[f] \subseteq hmrDocs[f]
    BY <1>2, <1>4
  <2>3. /\ DOMAIN hmrRun' = RunFields /\ hmrRun'.stage = "load" /\ hmrRun'.chosen = hmrRun.chosen
        /\ hmrRun'.task = hmrRun.task /\ hmrRun'.found = hmrRun.found /\ hmrRun'.saved = hmrRun.saved
        /\ hmrRun'.all = hmrRun.all
    BY <1>1, <2>1, StageFields
  <2>4. Returned' /\ \A f \in Files : Due(f) => Due(f)'
    BY <1>1, <1>2, <2>1, <2>3, RunGoesOn
  <2>5. HotTyped' /\ RunTyped' /\ HotStages'
    BY <1>1, <1>2, <2>1, <2>2, <2>3
    DEF HotTyped, IsBatch, Marks, RunTyped, RunStages, HotStages
  <2>6. Loads'
    <3> SUFFICES ASSUME NEW f \in Files \ (hmrMissed \cup hmrKept)
                 PROVE  Loaded(f)'
      BY <1>2, <2>1 DEF Loads
    <3>1. Loaded(f)
      BY <1>1 DEF Loads
    <3>2. CASE f \in hmrRun.chosen
      BY <1>2, <2>1, <2>3, <2>4, <3>1, <3>2 DEF Loaded
    <3>3. CASE f \notin hmrRun.chosen
      <4>1. ~hmrRun.all
        BY <1>4, <3>3
      <4>2. hmrDocs' = hmrDocs
        BY <2>2, <4>1
      <4> QED  BY <1>2, <2>1, <2>3, <2>4, <3>1, <3>3, <4>2 DEF Loaded
    <3> QED  BY <3>2, <3>3
  <2>7. Emptied'
    BY <1>1, <1>2, <2>2, <2>3 DEF Emptied
  <2>8. Singles'
    BY <1>1, <1>4, <1>5, <2>1, <2>2, <2>3 DEF Singles, Single
  <2>9. Made'
    <3> SUFFICES ASSUME NEW f \in Files \ hmrOwed, Complete(f)'
                 PROVE  hmrArtifacts[f] = [g \in {f} \cup DependsOn[f] |-> hmrDocs'[g]]
      BY <1>2 DEF Made
    <3>1. DependsOn[f] \subseteq Files
      BY DEF HotConstants
    <3>2. \A g \in {f} \cup DependsOn[f] : hmrDocs'[g] = hmrDocs[g] /\ hmrDocs[g] # {}
      <4> SUFFICES ASSUME NEW g \in {f} \cup DependsOn[f]
                   PROVE  hmrDocs'[g] = hmrDocs[g] /\ hmrDocs[g] # {}
        OBVIOUS
      <4>1. hmrDocs'[g] # {} /\ hmrDocs'[g] \subseteq hmrDocs[g] /\ Single(hmrDocs[g])
        BY <1>1, <2>2, <3>1 DEF Complete, Singles
      <4> QED  BY <4>1 DEF Single
    <3>3. hmrArtifacts[f] = [g \in {f} \cup DependsOn[f] |-> hmrDocs[g]]
      BY <1>1, <1>2, <3>2 DEF Made, Complete
    <3> QED  BY <3>2, <3>3
  <2> QED  BY <2>4, <2>5, <2>6, <2>7, <2>8, <2>9 DEF HotInv
<1> QED  BY <1>6, <1>7, <1>8

LEMMA HotLoadKeeps ==
  ASSUME HotConstants, HotInv, W!Load
  PROVE  HotInv'
<1>1. HotTyped /\ RunTyped /\ HotStages /\ Returned /\ Loads /\ Emptied /\ Singles /\ Made
  BY DEF HotInv
<1>2. /\ hmrRun.stage = "load"
      /\ hmrDocs' = [f \in Files |-> IF f \in hmrRun.chosen THEN hmrRows[f] ELSE hmrDocs[f]]
      /\ hmrRun' = [hmrRun EXCEPT !.stage = "closure"]
      /\ UNCHANGED <<hmrDisk, hmrQueue, hmrPending, hmrBatch, hmrProcessing, hmrCleanup, hmrSchema, hmrRows, hmrArtifacts,
                     hmrOwed, hmrMissed, hmrKept>>
  BY DEF W!Load
<1>3. /\ hmrDocs' \in [Files -> SUBSET Versions]
      /\ \A f \in Files : hmrDocs'[f] = IF f \in hmrRun.chosen THEN hmrRows[f] ELSE hmrDocs[f]
  BY <1>1, <1>2 DEF HotTyped
<1>4. /\ DOMAIN hmrRun' = RunFields /\ hmrRun'.stage = "closure" /\ hmrRun'.chosen = hmrRun.chosen
      /\ hmrRun'.task = hmrRun.task /\ hmrRun'.found = hmrRun.found /\ hmrRun'.saved = hmrRun.saved
      /\ hmrRun'.all = hmrRun.all
  BY <1>1, <1>2, StageFields
<1>5. Returned' /\ \A f \in Files : Due(f) => Due(f)'
  BY <1>1, <1>2, <1>4, RunGoesOn
<1>6. HotTyped' /\ RunTyped' /\ HotStages'
  BY <1>1, <1>2, <1>3, <1>4 DEF HotTyped, IsBatch, Marks, RunTyped, RunStages, HotStages
<1>7. Loads'
  <2> SUFFICES ASSUME NEW f \in Files \ (hmrMissed \cup hmrKept)
               PROVE  Loaded(f)'
    BY <1>2 DEF Loads
  <2>1. Loaded(f)
    BY <1>1 DEF Loads
  <2> QED  BY <1>2, <1>3, <1>4, <1>5, <2>1 DEF Loaded
<1>8. Emptied' /\ Singles'
  BY <1>1, <1>2, <1>3, <1>4 DEF Emptied, Singles
<1>9. Made'
  <2> SUFFICES ASSUME NEW f \in Files \ hmrOwed, Complete(f)',
                      ({f} \cup DependsOn[f]) \cap hmrRun.chosen = {}
               PROVE  hmrArtifacts[f] = [g \in {f} \cup DependsOn[f] |-> hmrDocs'[g]]
    BY <1>2, <1>4 DEF Made
  <2>1. DependsOn[f] \subseteq Files
    BY DEF HotConstants
  <2>2. \A g \in {f} \cup DependsOn[f] : hmrDocs'[g] = hmrDocs[g] /\ hmrDocs[g] # {}
    BY <1>3, <2>1 DEF Complete
  <2>3. hmrArtifacts[f] = [g \in {f} \cup DependsOn[f] |-> hmrDocs[g]]
    BY <1>1, <1>2, <2>2 DEF Made, Complete
  <2> QED  BY <2>2, <2>3
<1> QED  BY <1>5, <1>6, <1>7, <1>8, <1>9 DEF HotInv

\* What depends on a document that was loaded is in the task.
LEMMA ClosureKeeps ==
  ASSUME HotConstants, HotInv, W!Closure
  PROVE  HotInv'
<1>1. HotTyped /\ RunTyped /\ HotStages /\ Returned /\ Loads /\ Emptied /\ Singles /\ Made
  BY DEF HotInv
<1> DEFINE seed == {f \in hmrRun.chosen : hmrDocs[f] # {}}
           t == IF hmrRun.all THEN Files ELSE W!Reach(seed, W!Dependents) \cup W!Reach(seed, W!Dependencies)
<1>2. /\ hmrRun.stage = "closure"
      /\ hmrRun' = [hmrRun EXCEPT !.stage = "validate", !.task = t]
      /\ UNCHANGED <<hmrDisk, hmrQueue, hmrPending, hmrBatch, hmrProcessing, hmrCleanup, hmrSchema, hmrRows, hmrDocs, hmrArtifacts,
                     hmrOwed, hmrMissed, hmrKept>>
  BY DEF W!Closure, W!compiled
<1>3. seed \in SUBSET Files
  BY <1>1 DEF RunTyped
<1>4. /\ t \subseteq Files
      /\ seed \subseteq t /\ \A g \in seed : W!Dependents(g) \subseteq t
  BY <1>3, Reached DEF W!Dependents
<1>5. \A f \in Files : Complete(f) /\ ({f} \cup DependsOn[f]) \cap hmrRun.chosen # {} => f \in t
  <2> SUFFICES ASSUME NEW f \in Files, Complete(f),
                      NEW g \in {f} \cup DependsOn[f], g \in hmrRun.chosen
               PROVE  f \in t
    OBVIOUS
  <2>1. g \in seed /\ hmrDocs[f] # {}
    BY DEF Complete
  <2>2. g # f => f \in W!Dependents(g)
    BY <2>1 DEF W!Dependents
  <2> QED  BY <1>4, <2>1, <2>2
<1> HIDE DEF t, seed
<1>6. /\ DOMAIN hmrRun' = RunFields /\ hmrRun'.stage = "validate" /\ hmrRun'.chosen = hmrRun.chosen
      /\ hmrRun'.task = t /\ hmrRun'.found = hmrRun.found /\ hmrRun'.saved = hmrRun.saved /\ hmrRun'.all = hmrRun.all
  BY <1>1, <1>2 DEF RunTyped, RunFields
<1>7. Returned' /\ \A f \in Files : Due(f) => Due(f)'
  BY <1>1, <1>2, <1>6, RunGoesOn
<1>8. HotTyped' /\ RunTyped' /\ HotStages'
  BY <1>1, <1>2, <1>4, <1>6 DEF HotTyped, IsBatch, Marks, RunTyped, RunStages, HotStages
<1>9. Loads'
  <2> SUFFICES ASSUME NEW f \in Files \ (hmrMissed \cup hmrKept)
               PROVE  Loaded(f)'
    BY <1>2 DEF Loads
  <2>1. Loaded(f)
    BY <1>1 DEF Loads
  <2> QED  BY <1>2, <1>6, <1>7, <2>1 DEF Loaded
<1>10. Emptied' /\ Singles'
  BY <1>1, <1>2, <1>6 DEF Emptied, Singles
<1>11. Made'
  BY <1>1, <1>2, <1>5, <1>6 DEF Made, Complete
<1> QED  BY <1>7, <1>8, <1>9, <1>10, <1>11 DEF HotInv

LEMMA ValidateKeeps ==
  ASSUME HotConstants, HotInv, W!Validate
  PROVE  HotInv'
<1>1. HotTyped /\ RunTyped /\ HotStages /\ Returned /\ Loads /\ Emptied /\ Singles /\ Made
  BY DEF HotInv
<1>2. /\ hmrRun.stage = "validate"
      /\ UNCHANGED <<hmrDisk, hmrQueue, hmrCleanup, hmrSchema, hmrRows, hmrDocs, hmrArtifacts, hmrMissed, hmrKept>>
  BY DEF W!Validate, W!compiled
<1>3. CASE \A f \in hmrRun.task : W!Valid(f)
  <2>1. hmrRun' = [hmrRun EXCEPT !.stage = "generate"] /\ UNCHANGED <<hmrPending, hmrBatch, hmrProcessing, hmrOwed>>
    BY <1>3 DEF W!Validate
  <2>2. /\ DOMAIN hmrRun' = RunFields /\ hmrRun'.stage = "generate" /\ hmrRun'.chosen = hmrRun.chosen
        /\ hmrRun'.task = hmrRun.task /\ hmrRun'.found = hmrRun.found /\ hmrRun'.saved = hmrRun.saved
        /\ hmrRun'.all = hmrRun.all
    BY <1>1, <2>1, StageFields
  <2>3. Returned' /\ \A f \in Files : Due(f) => Due(f)'
    BY <1>1, <1>2, <2>1, <2>2, RunGoesOn
  <2>4. HotTyped' /\ RunTyped' /\ HotStages'
    BY <1>1, <1>2, <2>1, <2>2 DEF HotTyped, IsBatch, Marks, RunTyped, RunStages, HotStages
  <2>5. Loads'
    <3> SUFFICES ASSUME NEW f \in Files \ (hmrMissed \cup hmrKept)
                 PROVE  Loaded(f)'
      BY <1>2 DEF Loads
    <3>1. Loaded(f)
      BY <1>1 DEF Loads
    <3> QED  BY <1>2, <2>2, <2>3, <3>1 DEF Loaded
  <2>6. Emptied' /\ Singles' /\ Made'
    BY <1>1, <1>2, <2>1, <2>2 DEF Emptied, Singles, Made, Complete
  <2> QED  BY <2>3, <2>4, <2>5, <2>6 DEF HotInv
<1>4. CASE ~(\A f \in hmrRun.task : W!Valid(f))
  <2>1. hmrOwed' = hmrOwed \cup hmrRun.task /\ W!Over
    BY <1>4 DEF W!Validate
  <2>2. /\ RunTyped' /\ HotStages' /\ Returned' /\ hmrRun' = W!NoRun
        /\ IsBatch(hmrPending') /\ IsBatch(hmrBatch') /\ hmrProcessing' \in BOOLEAN
        /\ \A f \in Files : Due(f) => Due(f)'
    BY <1>1, <1>2, <2>1, OverKeeps
  <2>3. hmrRun'.stage = "none" /\ hmrRun'.chosen = {}
    BY <2>2, NoRunFields
  <2>4. HotTyped'
    BY <1>1, <1>2, <2>1, <2>2 DEF HotTyped, Marks, RunTyped
  <2>5. Loads'
    <3> SUFFICES ASSUME NEW f \in Files \ (hmrMissed \cup hmrKept)
                 PROVE  Loaded(f)'
      BY <1>2 DEF Loads
    <3>1. Loaded(f)
      BY <1>1 DEF Loads
    <3> QED  BY <1>2, <2>2, <2>3, <3>1 DEF Loaded
  <2>6. Emptied' /\ Singles' /\ Made'
    BY <1>1, <1>2, <2>1, <2>3 DEF Emptied, Singles, Made, Complete
  <2> QED  BY <2>2, <2>4, <2>5, <2>6 DEF HotInv
<1> QED  BY <1>3, <1>4

LEMMA GenerateKeeps ==
  ASSUME HotConstants, HotInv, W!Generate
  PROVE  HotInv'
<1>1. HotTyped /\ RunTyped /\ HotStages /\ Returned /\ Loads /\ Emptied /\ Singles /\ Made
  BY DEF HotInv
<1>2. /\ hmrRun.stage = "generate"
      /\ hmrArtifacts' = [f \in Files |->
                         IF f \in hmrRun.task /\ hmrDocs[f] # {}
                         THEN [g \in {f} \cup DependsOn[f] |-> hmrDocs[g]] ELSE hmrArtifacts[f]]
      /\ hmrOwed' = hmrOwed \ hmrRun.task /\ W!Over
      /\ UNCHANGED <<hmrDisk, hmrQueue, hmrCleanup, hmrSchema, hmrRows, hmrDocs, hmrMissed, hmrKept>>
  BY DEF W!Generate
<1>3. /\ RunTyped' /\ HotStages' /\ Returned' /\ hmrRun' = W!NoRun
      /\ IsBatch(hmrPending') /\ IsBatch(hmrBatch') /\ hmrProcessing' \in BOOLEAN
      /\ \A f \in Files : Due(f) => Due(f)'
  BY <1>1, <1>2, OverKeeps
<1>4. hmrRun'.stage = "none" /\ hmrRun'.chosen = {}
  BY <1>3, NoRunFields
<1>5. HotTyped'
  BY <1>1, <1>2, <1>3 DEF HotTyped, Marks
<1>6. Loads'
  <2> SUFFICES ASSUME NEW f \in Files \ (hmrMissed \cup hmrKept)
               PROVE  Loaded(f)'
    BY <1>2 DEF Loads
  <2>1. Loaded(f)
    BY <1>1 DEF Loads
  <2> QED  BY <1>2, <1>3, <1>4, <2>1 DEF Loaded
<1>7. Emptied' /\ Singles'
  BY <1>1, <1>2, <1>4 DEF Emptied, Singles
<1>8. Made'
  <2> SUFFICES ASSUME NEW f \in Files \ hmrOwed', Complete(f)
               PROVE  hmrArtifacts'[f] = [g \in {f} \cup DependsOn[f] |-> hmrDocs[g]]
    BY <1>2 DEF Made, Complete
  <2>1. CASE f \in hmrRun.task
    BY <1>2, <2>1 DEF Complete
  <2>2. CASE f \notin hmrRun.task
    <3>1. hmrArtifacts[f] = [g \in {f} \cup DependsOn[f] |-> hmrDocs[g]]
      BY <1>1, <1>2, <2>2 DEF Made
    <3> QED  BY <1>2, <2>2, <3>1
  <2> QED  BY <2>1, <2>2
<1> QED  BY <1>3, <1>5, <1>6, <1>7, <1>8 DEF HotInv

LEMMA HotFailKeeps ==
  ASSUME HotConstants, HotInv, W!Fail
  PROVE  HotInv'
<1>1. HotTyped /\ RunTyped /\ HotStages /\ Returned /\ Loads /\ Emptied /\ Singles /\ Made
  BY DEF HotInv
<1>2. /\ hmrRun.stage \in {"write", "load", "validate", "generate"}
      /\ hmrRows' = IF hmrRun.stage = "write"
                 THEN [f \in Files |-> IF f \in DOMAIN hmrRun.saved THEN hmrRun.saved[f] ELSE hmrRows[f]]
                 ELSE hmrRows
      /\ hmrMissed' = IF hmrRun.stage \in {"write", "load"} THEN hmrMissed \cup hmrRun.chosen ELSE hmrMissed
      /\ hmrOwed' = hmrOwed \cup hmrRun.task /\ W!Over
      /\ UNCHANGED <<hmrDisk, hmrQueue, hmrCleanup, hmrSchema, hmrDocs, hmrArtifacts, hmrKept>>
  BY DEF W!Fail
<1>3. /\ RunTyped' /\ HotStages' /\ Returned' /\ hmrRun' = W!NoRun
      /\ IsBatch(hmrPending') /\ IsBatch(hmrBatch') /\ hmrProcessing' \in BOOLEAN
      /\ \A f \in Files : Due(f) => Due(f)'
  BY <1>1, <1>2, OverKeeps
<1>4. hmrRun'.stage = "none" /\ hmrRun'.chosen = {}
  BY <1>3, NoRunFields
<1>5. hmrRows' \in [Files -> SUBSET Versions]
  <2>1. CASE hmrRun.stage = "write"
    <3>1. \A f \in DOMAIN hmrRun.saved : hmrRun.saved[f] \subseteq Versions
      BY <1>1 DEF HotStages
    <3> QED  BY <1>1, <1>2, <2>1, <3>1 DEF HotTyped
  <2> QED  BY <1>1, <1>2, <2>1 DEF HotTyped
<1>6. HotTyped'
  BY <1>1, <1>2, <1>3, <1>5 DEF HotTyped, Marks, RunTyped
<1>7. Loads'
  <2> SUFFICES ASSUME NEW f \in Files \ (hmrMissed' \cup hmrKept')
               PROVE  Loaded(f)'
    BY DEF Loads
  <2>1. /\ Loaded(f)
        /\ ~(f \in hmrRun.chosen /\ hmrRun.stage \in {"extract", "write", "load"})
    BY <1>1, <1>2 DEF Loads
  <2>2. hmrRows'[f] = hmrRows[f]
    <3>1. CASE hmrRun.stage = "write"
      <4>1. ~hmrRun.all /\ DOMAIN hmrRun.saved = hmrRun.chosen
        BY <1>1, <2>1, <3>1 DEF HotStages
      <4> QED  BY <1>2, <2>1, <3>1, <4>1
    <3> QED  BY <1>2, <3>1
  <2> QED  BY <1>2, <1>3, <1>4, <2>1, <2>2 DEF Loaded
<1>8. Emptied' /\ Singles' /\ Made'
  BY <1>1, <1>2, <1>4 DEF Emptied, Singles, Made, Complete
<1> QED  BY <1>3, <1>6, <1>7, <1>8 DEF HotInv

-----------------------------------------------------------------------------
(* The specification.                                                      *)

LEMMA HotInit ==
  ASSUME HotConstants, W!Init
  PROVE  HotInv
<1>1. /\ hmrDisk = [f \in Files |-> CHOOSE v \in Versions : TRUE]
      /\ hmrQueue = [files |-> W!Nothing, deletes |-> {}, timer |-> FALSE]
      /\ hmrPending = W!NoBatch /\ hmrBatch = W!NoBatch /\ hmrProcessing = FALSE
      /\ hmrCleanup = {} /\ hmrSchema = FALSE /\ hmrRun = W!NoRun
      /\ hmrRows = [f \in Files |-> W!Found(hmrDisk[f])] /\ hmrDocs = hmrRows
      /\ hmrArtifacts = [f \in Files |-> [g \in {f} \cup DependsOn[f] |-> hmrDocs[g]]]
      /\ hmrOwed = {} /\ hmrMissed = {} /\ hmrKept = {}
  BY DEF W!Init
<1>2. (CHOOSE v \in Versions : TRUE) \in Versions
  BY DEF HotConstants
<1>3. hmrDisk \in [Files -> Versions] /\ \A f \in Files : hmrDisk[f] \in W!Contents(f)
  BY <1>1, <1>2 DEF W!Contents
<1>4. /\ DOMAIN hmrQueue = {"files", "deletes", "timer"} /\ hmrQueue.files = W!Nothing
      /\ hmrQueue.deletes = {} /\ hmrQueue.timer = FALSE
  BY <1>1
<1>5. hmrRows \in [Files -> SUBSET Versions] /\ \A f \in Files : hmrRows[f] = W!Found(hmrDisk[f]) /\ Single(hmrRows[f])
  BY <1>1, FoundShape
<1>6. hmrRun.stage = "none" /\ hmrRun.chosen = {} /\ hmrRun.task = {} /\ hmrRun.all = FALSE /\ DOMAIN hmrRun = RunFields
      /\ DOMAIN hmrRun.saved = {}
  BY <1>1, NoRunFields
<1>7. HotTyped
  BY <1>1, <1>3, <1>4, <1>5, NoBatchShape DEF HotTyped
<1>8. RunTyped
  BY <1>6 DEF RunTyped, RunStages
<1>9. HotStages
  BY <1>1, <1>4, <1>6, NoBatchShape DEF HotStages, W!IsEmpty
<1>10. Returned /\ Loads /\ Emptied /\ Singles
  BY <1>1, <1>4, <1>5, <1>6, NoBatchShape DEF Returned, Loads, Loaded, Emptied, Singles, Waiting
<1>11. Made
  BY <1>1 DEF Made
<1> QED  BY <1>7, <1>8, <1>9, <1>10, <1>11 DEF HotInv

LEMMA HotNext ==
  ASSUME HotConstants, HotInv, [W!Next]_(W!vars)
  PROVE  HotInv'
<1>1. CASE \E f \in Files : \E c \in W!Contents(f) : W!Save(f, c)
  BY <1>1, SaveKeeps
<1>2. CASE W!ChangeSchema
  BY <1>2, ChangeSchemaKeeps
<1>3. CASE W!Fire
  BY <1>3, FireKeeps
<1>4. CASE W!BeginBatch
  BY <1>4, BeginBatchKeeps
<1>5. CASE W!BeginSchema
  BY <1>5, BeginSchemaKeeps
<1>6. CASE W!Extract
  BY <1>6, ExtractKeeps
<1>7. CASE W!Write
  BY <1>7, WriteKeeps
<1>8. CASE W!Load
  BY <1>8, HotLoadKeeps
<1>9. CASE W!Closure
  BY <1>9, ClosureKeeps
<1>10. CASE W!Validate
  BY <1>10, ValidateKeeps
<1>11. CASE W!Generate
  BY <1>11, GenerateKeeps
<1>12. CASE W!Fail
  BY <1>12, HotFailKeeps
<1>13. CASE UNCHANGED W!vars
  <2>1. UNCHANGED <<hmrDisk, hmrQueue, hmrPending, hmrBatch, hmrProcessing, hmrCleanup, hmrSchema, hmrRun, hmrRows,
                    hmrDocs, hmrArtifacts, hmrOwed, hmrMissed, hmrKept>>
    BY <1>13 DEF W!vars
  <2>2. Waiting' = Waiting /\ Queueing' = Queueing /\ Deleting' = Deleting
    BY <2>1 DEF Waiting, Queueing, Deleting
  <2>3. HotTyped' /\ RunTyped' /\ HotStages' /\ Returned'
    BY <2>1, <2>2 DEF HotInv, HotTyped, RunTyped, HotStages, Returned, IsBatch, Marks
  <2>4. Loads'
    BY <2>1, <2>2, LoadsKept DEF HotInv, Due
  <2>5. Emptied' /\ Singles' /\ Made'
    BY <2>1, RestKept DEF HotInv
  <2> QED  BY <2>3, <2>4, <2>5 DEF HotInv
<1> QED  BY <1>1, <1>2, <1>3, <1>4, <1>5, <1>6, <1>7, <1>8, <1>9, <1>10, <1>11, <1>12, <1>13
         DEF W!Next, W!Step

THEOREM HotInvHolds ==
  ASSUME HotConstants
  PROVE  W!Spec => []HotInv
<1>1. W!Init => HotInv
  BY HotInit
<1>2. HotInv /\ [W!Next]_(W!vars) => HotInv'
  BY HotNext
<1> QED  BY <1>1, <1>2, PTL DEF W!Spec

THEOREM HotTypeCorrect ==
  ASSUME HotConstants
  PROVE  W!Spec => []W!TypeOK
<1>1. HotInv => W!TypeOK
  <2> SUFFICES ASSUME HotInv
               PROVE  W!TypeOK
    OBVIOUS
  <2>1. HotTyped /\ RunTyped
    BY DEF HotInv
  <2>2. \A b : IsBatch(b) => b \in W!Batches
    <3> SUFFICES ASSUME NEW b, IsBatch(b)
                 PROVE  b \in W!Batches
      OBVIOUS
    <3>1. b.files \in [DOMAIN b.files -> BOOLEAN] /\ DOMAIN b.files \in SUBSET Files
      BY DEF IsBatch, Marks
    <3>2. b.files \in UNION {[fs -> BOOLEAN] : fs \in SUBSET Files}
      BY <3>1
    <3> QED  BY <3>2 DEF IsBatch, W!Batches
  <2>3. hmrPending \in W!Batches /\ hmrBatch \in W!Batches
    BY <2>1, <2>2 DEF HotTyped
  <2>4. \A f \in Files : /\ hmrDisk[f] \in W!Contents(f)
                         /\ hmrRows[f] \subseteq Versions /\ hmrDocs[f] \subseteq Versions
    BY <2>1 DEF HotTyped
  <2>5. \A f \in DOMAIN hmrQueue.files : f \in Files /\ hmrQueue.files[f] \in BOOLEAN
    BY <2>1 DEF HotTyped, Marks
  <2> QED  BY <2>1, <2>3, <2>4, <2>5 DEF HotTyped, RunTyped, RunStages, W!TypeOK
<1> QED  BY <1>1, HotInvHolds, PTL

-----------------------------------------------------------------------------
(***************************************************************************)
(* The components share no state: a behaviour of Tooling is a behaviour of *)
(* each of them, so that what they promise holds in Tooling.               *)
(***************************************************************************)

\* A step of Tooling is a step of the dev servers or leaves them alone.
LEMMA DevSteps == [ToolingNext]_ToolingVars => [Next]_vars
<1> SUFFICES ASSUME [ToolingNext]_ToolingVars
             PROVE  Next \/ UNCHANGED devVars
  BY DEF devVars
<1>1. CASE DevSessionStep
  BY <1>1 DEF DevSessionStep
<1>2. CASE PluginHostStep \/ HotReloadStep \/ ServerSessionStep \/ LanguageServerStep
           \/ CompilerDatabaseStep
  BY <1>2 DEF PluginHostStep, HotReloadStep, ServerSessionStep, LanguageServerStep,
              CompilerDatabaseStep, Others
<1>3. CASE UNCHANGED ToolingVars
  BY <1>3 DEF ToolingVars
<1> QED  BY <1>1, <1>2, <1>3 DEF ToolingNext

\* So it is with the session.
LEMMA SessionSteps == [ToolingNext]_ToolingVars => [V!Next]_(V!vars)
<1> SUFFICES ASSUME [ToolingNext]_ToolingVars
             PROVE  V!Next \/ UNCHANGED authVars
  BY DEF authVars, V!vars
<1>1. CASE ServerSessionStep
  BY <1>1 DEF ServerSessionStep
<1>2. CASE PluginHostStep \/ HotReloadStep \/ DevSessionStep \/ LanguageServerStep
           \/ CompilerDatabaseStep
  BY <1>2 DEF PluginHostStep, HotReloadStep, DevSessionStep, LanguageServerStep,
              CompilerDatabaseStep, Others
<1>3. CASE UNCHANGED ToolingVars
  BY <1>3 DEF ToolingVars
<1> QED  BY <1>1, <1>2, <1>3 DEF ToolingNext

\* And with the database.
LEMMA DatabaseSteps == [ToolingNext]_ToolingVars => [C!Next]_(C!vars)
<1> SUFFICES ASSUME [ToolingNext]_ToolingVars
             PROVE  C!Next \/ UNCHANGED databaseVars
  BY DEF databaseVars, C!vars
<1>1. CASE CompilerDatabaseStep
  BY <1>1 DEF CompilerDatabaseStep
<1>2. CASE PluginHostStep \/ HotReloadStep \/ DevSessionStep \/ ServerSessionStep
           \/ LanguageServerStep
  BY <1>2 DEF PluginHostStep, HotReloadStep, DevSessionStep, ServerSessionStep,
              LanguageServerStep, Others
<1>3. CASE UNCHANGED ToolingVars
  BY <1>3 DEF ToolingVars
<1> QED  BY <1>1, <1>2, <1>3 DEF ToolingNext

\* And with the orchestrator.
LEMMA HostSteps == [ToolingNext]_ToolingVars => [H!Next]_(H!vars)
<1> SUFFICES ASSUME [ToolingNext]_ToolingVars
             PROVE  H!Next \/ UNCHANGED hostVars
  BY DEF hostVars, H!vars
<1>1. CASE PluginHostStep
  BY <1>1 DEF PluginHostStep
<1>2. CASE HotReloadStep \/ DevSessionStep \/ ServerSessionStep \/ LanguageServerStep
           \/ CompilerDatabaseStep
  BY <1>2 DEF HotReloadStep, DevSessionStep, ServerSessionStep, LanguageServerStep,
              CompilerDatabaseStep, Others
<1>3. CASE UNCHANGED ToolingVars
  BY <1>3 DEF ToolingVars
<1> QED  BY <1>1, <1>2, <1>3 DEF ToolingNext

\* And with hot reloading.
LEMMA HotSteps == [ToolingNext]_ToolingVars => [W!Next]_(W!vars)
<1> SUFFICES ASSUME [ToolingNext]_ToolingVars
             PROVE  W!Next \/ UNCHANGED W!vars
  OBVIOUS
<1>1. CASE HotReloadStep
  BY <1>1 DEF HotReloadStep
<1>2. CASE PluginHostStep \/ DevSessionStep \/ ServerSessionStep \/ LanguageServerStep
           \/ CompilerDatabaseStep
  <2>1. UNCHANGED hmrVars
    BY <1>2 DEF PluginHostStep, DevSessionStep, ServerSessionStep, LanguageServerStep,
                CompilerDatabaseStep, Others
  <2> QED  BY <2>1 DEF hmrVars, W!vars
<1>3. CASE UNCHANGED ToolingVars
  BY <1>3 DEF ToolingVars, hmrVars, W!vars
<1> QED  BY <1>1, <1>2, <1>3 DEF ToolingNext

\* Tooling implements its components.
THEOREM ComponentsRun == ToolingSpec => Spec /\ V!Spec /\ C!Spec /\ H!Spec /\ W!Spec
<1>1. ToolingInit => Init /\ V!Init /\ C!Init /\ H!Init /\ W!Init
  BY DEF ToolingInit
<1> QED  BY <1>1, DevSteps, SessionSteps, DatabaseSteps, HostSteps, HotSteps, PTL
         DEF ToolingSpec, Spec, V!Spec, C!Spec, H!Spec, W!Spec

\* The plugin processes of two dev servers are never up at once, a running compiler is the
\* registered one and has its database open, over any number of restarts (vite/session.ts).
THEOREM OneCompilerHolds == ToolingSpec => []OneCompiler
<1>1. DevInv => OneCompiler
  BY DEF DevInv, OneCompiler
<1> QED  BY <1>1, DevInvHolds, ComponentsRun, PTL

\* Whoever writes not at the same time as another sees what the other wrote before, on both
\* platforms, and the plugins that are called are those that were spawned (db.ts, codegen.ts).
THEOREM WritesSeenHolds ==
  ASSUME DatabaseConstants
  PROVE  ToolingSpec => []WritesSeen
<1>1. DatabaseInv => WritesSeen
  BY DEF DatabaseInv, OneFile, HooksSeen, WritesSeen, C!WritesSeen, C!AllSeen
<1> QED  BY <1>1, DatabaseInvHolds, ComponentsRun, PTL

\* What useSession shows once all is answered is the session of the cookie, whichever way each
\* write took, unless two overlapped, a message was lost or refused, or the key changed
\* (router/session.ts, router/server.ts).
THEOREM CopyIsTheCookieHolds ==
  ASSUME SessionConstants
  PROVE  ToolingSpec => []CopyIsTheCookie
<1>1. SessionInv => CopyIsTheCookie
  BY DEF SessionInv, CopyIsTheCookie, V!CopyIsTheCookie
<1> QED  BY <1>1, SessionInvHolds, ComponentsRun, PTL

\* The requests of two runs that take the pipeline lock are not out together, but for those that a
\* failed one left behind; a run succeeds only after every plugin answered every hook; and
\* neither a failed start nor a close leaves a plugin process behind (codegen.ts).
THEOREM RunsOrderedHolds ==
  ASSUME HostConstants
  PROVE  ToolingSpec => []RunsOrdered
<1>1. ASSUME HostInv
      PROVE  RunsOrdered
  <2>1. /\ hostRequests \subseteq H!Request /\ hostRuns \in [H!AllRuns -> RunRecord]
        /\ \A q \in hostRequests : q.run \in H!AllRuns
    BY <1>1 DEF HostInv, HostTyped, RunsInv, RunsTyped, H!Request
  <2>2. H!RunsApart
    <3> SUFFICES ASSUME NEW q \in hostRequests, NEW w \in hostRequests,
                        q.run \in H!Locked, w.run \in H!Locked, q.run < w.run
                 PROVE  hostRuns[q.run].status = "failed"
      BY DEF H!RunsApart
    <3>1. H!Settled(q.run)
      BY <1>1 DEF HostInv, RunsInv, Out, InTurn, H!Turn, H!Locked
    <3> QED  BY <1>1, <3>1 DEF HostInv, RunsInv, Out, H!Settled
  <2>3. H!DoneIsComplete
    BY <1>1 DEF HostInv, RunsInv, Out, Missing, H!DoneIsComplete
  <2> QED  BY <1>1, <2>2, <2>3 DEF HostInv, RunsOrdered
<1> QED  BY <1>1, HostInvHolds, ComponentsRun, PTL

\* Once the dev server is quiet, what is loaded is what the files hold and each artifact was
\* generated from its document and the fragments that it spreads, but for the files whose event was
\* ignored or whose extraction failed, that a batch left out by the content they were queued with,
\* or whose run failed before generating (hmr.ts).
THEOREM FreshHolds ==
  ASSUME HotConstants
  PROVE  ToolingSpec => []Fresh
<1>1. ASSUME HotInv
      PROVE  Fresh
  <2> SUFFICES ASSUME W!Quiet, NEW f \in Files \ (hmrMissed \cup hmrKept)
               PROVE  /\ hmrDocs[f] = W!Found(hmrDisk[f])
                      /\ f \notin hmrOwed /\ W!Sound(f) /\ DependsOn[f] \cap (hmrMissed \cup hmrKept) = {} =>
                           hmrArtifacts[f] = [g \in {f} \cup DependsOn[f] |-> W!Found(hmrDisk[g])]
    BY DEF Fresh, W!Fresh
  <2>1. /\ hmrRun.stage = "none" /\ hmrRun.chosen = {}
        /\ ~hmrQueue.timer /\ ~hmrProcessing
    BY NoRunFields DEF W!Quiet, W!Free
  <2>2. /\ DOMAIN hmrQueue.files = {} /\ hmrQueue.deletes = {}
        /\ DOMAIN hmrPending.files = {} /\ hmrPending.deletes = {} /\ ~Waiting
    BY <1>1, <2>1 DEF HotInv, HotStages, W!IsEmpty, Waiting
  <2>3. Queueing = {} /\ Deleting = {}
    BY <2>2 DEF Queueing, Deleting
  <2>4. \A g \in Files \ (hmrMissed \cup hmrKept) : hmrDocs[g] = W!Found(hmrDisk[g])
    BY <1>1, <2>1, <2>3 DEF HotInv, Loads, Loaded, Due
  <2>5. ASSUME f \notin hmrOwed, W!Sound(f), DependsOn[f] \cap (hmrMissed \cup hmrKept) = {}
        PROVE  hmrArtifacts[f] = [g \in {f} \cup DependsOn[f] |-> W!Found(hmrDisk[g])]
    <3>1. DependsOn[f] \subseteq Files \ (hmrMissed \cup hmrKept)
      BY <2>5 DEF HotConstants
    <3>2. \A g \in {f} \cup DependsOn[f] : hmrDocs[g] = W!Found(hmrDisk[g]) /\ hmrDocs[g] # {}
      BY <2>4, <2>5, <3>1 DEF W!Sound, W!Found
    <3>3. hmrArtifacts[f] = [g \in {f} \cup DependsOn[f] |-> hmrDocs[g]]
      BY <1>1, <2>1, <2>5, <3>2 DEF HotInv, Made, Complete
    <3> QED  BY <3>2, <3>3
  <2> QED  BY <2>4, <2>5
<1> QED  BY <1>1, HotInvHolds, ComponentsRun, PTL
=============================================================================
