-------------------------- MODULE DocumentPipeline --------------------------
(***************************************************************************)
(* The interpreter of a document store's plugins (documentStore.ts: send,  *)
(* #step): every request walks forward through the enter hooks of three    *)
(* phases, turns where a hook resolves it, and walks back through the exit *)
(* hooks; an error walks back through the catch hooks.  Hooks answer when  *)
(* they like, more than once, or with an error.                            *)
(***************************************************************************)
EXTENDS Integers, Sequences, FiniteSets

CONSTANTS
  Plugins,     \* the hooks that each plugin has, in order
  Sends,       \* the sends
  Values,      \* what hooks resolve with
  None,
  MaxReplays,  \* bound: walks that start again
  MaxForks     \* bound: hooks that answer and go on

VARIABLES
  walks,       \* where each walk of the pipeline is
  settled,     \* the promise of each send: "none", "open", "resolved" or "rejected"
  aborted,
  shown,       \* the value of the store
  last,        \* the send that #lastVariables are of
  pending,     \* the send that pendingPromise is of
  ends,        \* how walks that are over went (history)
  replays, forks

vars == <<walks, settled, aborted, shown, last, pending, ends, replays, forks>>

Forward == <<"start", "beforeNetwork", "network">>
Backwards == <<"end", "afterNetwork">>
N == Len(Plugins)

\* The hook of a direction and a phase; backwards, the network phase has none.
Hook(t) ==
  CASE t.direction = "forward"   -> Forward[t.phase]
    [] t.direction = "backwards" -> IF t.phase \in DOMAIN Backwards THEN Backwards[t.phase] ELSE None
    [] t.direction = "error"     -> "catch"

\* The first plugin from the walk's index on, in its direction, with the hook; 0 for none.
Targets(t) ==
  {i \in 1 .. N : Hook(t) \in Plugins[i] /\ IF t.direction = "forward" THEN i >= t.index ELSE i <= t.index}
Target(t) ==
  IF Targets(t) = {} THEN 0
  ELSE IF t.direction = "forward" THEN CHOOSE i \in Targets(t) : \A j \in Targets(t) : i <= j
  ELSE CHOOSE i \in Targets(t) : \A j \in Targets(t) : j <= i

Init ==
  /\ walks = {} /\ settled = [s \in Sends |-> "none"] /\ aborted = {}
  /\ shown = None /\ last = None /\ pending = None
  /\ ends = {} /\ replays = 0 /\ forks = 0

-----------------------------------------------------------------------------
(* One #step.                                                              *)

\* from is the plugin whose hook made the step; turn, where the walk turned; seen, the
\* hooks it has gone through since.
Walk(s, setup) == [send |-> s, setup |-> setup, direction |-> "forward", phase |-> 1, index |-> 1, value |-> None,
            from |-> 0, turn |-> <<>>, seen |-> <<>>]

Onward(t, i) == [t EXCEPT !.direction = "forward", !.index = i, !.from = i - 1]
Again(t, i, from) == [t EXCEPT !.direction = "forward", !.phase = 1, !.index = i, !.from = from,
                               !.turn = <<>>, !.seen = <<>>]
Turn(t, i, v) == [t EXCEPT !.direction = "backwards", !.index = i, !.value = v, !.from = i,
                           !.turn = <<"resolved", t.phase, i>>, !.seen = <<>>]
Back(t, i, v) == [t EXCEPT !.index = i - 1, !.value = v, !.from = i, !.seen = Append(@, <<Hook(t), i>>)]

\* Faulty variant: an error is first offered to the plugin that threw it.
ErrorOwn(t, i) == [t EXCEPT !.direction = "error", !.index = i, !.from = i,
                            !.turn = <<"thrown", t.phase, i>>, !.seen = <<>>]

Error(t, i) == [t EXCEPT !.direction = "error", !.index = i - 1, !.from = i,
                         !.turn = <<"thrown", t.phase, i>>, !.seen = <<>>]
Rethrown(t, i) == [t EXCEPT !.index = i - 1, !.from = i, !.seen = Append(@, <<"catch", i>>)]

\* What the hook of plugin i does with a walk: the walks that follow.
Answers(t, i) ==
  CASE t.direction = "forward" ->
         {{Onward(t, i + 1)}} \cup {{Turn(t, i, v)} : v \in Values} \cup {{Error(t, i)}}
    [] t.direction = "backwards" ->
         {{Back(t, i, v)} : v \in Values \cup {t.value}} \cup {{Error(t, i)}}
    [] t.direction = "error" ->
         {{Rethrown(t, i)}} \cup {{Turn(t, i, v)} : v \in Values}

\* A hook runs, unless the request has been aborted.  One that goes on after its answer may
\* answer again, or throw.
Run(t) ==
  /\ t \in walks /\ Target(t) # 0
  /\ LET i == Target(t) IN
     IF t.send \in aborted
     THEN /\ walks' = (walks \ {t}) \cup
                        {IF t.direction = "error" THEN [t EXCEPT !.index = i - 1, !.from = i] ELSE Error(t, i)}
          /\ UNCHANGED <<replays, forks>>
     ELSE \/ /\ \E more \in Answers(t, i) : walks' = (walks \ {t}) \cup more
             /\ UNCHANGED <<replays, forks>>
          \/ /\ forks < MaxForks /\ forks' = forks + 1
             /\ \E more \in Answers(t, i) : walks' = walks \cup more
             /\ UNCHANGED replays
          \/ /\ t.direction # "forward" /\ replays < MaxReplays /\ replays' = replays + 1
             /\ walks' = (walks \ {t}) \cup
                           {Again(t, IF t.direction = "error" THEN i + 1 ELSE i, i)}
             /\ UNCHANGED forks
  /\ UNCHANGED <<settled, aborted, shown, last, pending, ends>>

Settle(s, how) == settled' = [settled EXCEPT ![s] = IF @ = "open" THEN how ELSE @]
Ended(t, how) == ends' = ends \cup {[how |-> how, turn |-> t.turn, seen |-> t.seen,
                                     aborted |-> t.send \in aborted]}

\* No hook is left in this direction and phase.
Bound(t) ==
  /\ t \in walks /\ Target(t) = 0
  /\ CASE t.direction = "forward" ->
            \* a setup turns here; nobody resolving is an error for the last that called next
            /\ walks' = (walks \ {t}) \cup
                 {CASE t.setup ->
                         [Turn(t, N, shown) EXCEPT !.phase = 1, !.turn = <<"setup", 1, N>>]
                    [] ~t.setup /\ t.phase < Len(Forward) ->
                         [t EXCEPT !.phase = @ + 1, !.index = 1]
                    [] OTHER -> Error(t, t.from)}
            /\ UNCHANGED <<settled, shown, last, ends>>
       [] t.direction = "error" ->
            /\ walks' = walks \ {t}
            /\ Settle(t.send, "rejected") /\ Ended(t, "rejected")
            /\ UNCHANGED <<shown, last>>
       [] t.direction = "backwards" /\ t.phase > 1 ->
            /\ walks' = (walks \ {t}) \cup {[t EXCEPT !.phase = @ - 1, !.index = N]}
            /\ UNCHANGED <<settled, shown, last, ends>>
       [] OTHER ->
            /\ walks' = walks \ {t}
            /\ shown' = t.value
            /\ Settle(t.send, "resolved") /\ Ended(t, "resolved")
            /\ last' = t.send
  /\ UNCHANGED <<aborted, pending, replays, forks>>

Send(s, setup) ==
  /\ settled[s] = "none"
  /\ settled' = [settled EXCEPT ![s] = "open"]
  /\ walks' = walks \cup {Walk(s, setup)}
  /\ pending' = IF pending = None THEN s ELSE pending
  /\ UNCHANGED <<aborted, shown, last, ends, replays, forks>>

Abort(s) ==
  /\ settled[s] # "none" /\ s \notin aborted
  /\ aborted' = aborted \cup {s}
  /\ UNCHANGED <<walks, settled, shown, last, pending, ends, replays, forks>>

Next ==
  \/ \E s \in Sends : Abort(s) \/ \E setup \in BOOLEAN : Send(s, setup)
  \/ \E t \in walks : Run(t) \/ Bound(t)

Spec == Init /\ [][Next]_vars

-----------------------------------------------------------------------------
TypeOK ==
  /\ \A t \in walks : /\ t.send \in Sends /\ t.index \in -1 .. N + 1
                      /\ t.direction \in {"forward", "backwards", "error"} /\ t.phase \in 1 .. 3
  /\ settled \in [Sends -> {"none", "open", "resolved", "rejected"}]
  /\ aborted \subseteq Sends

\* The hooks of a kind, from plugin i down.
Down(hook, i) ==
  LET has == {j \in 1 .. i : hook \in Plugins[j]}
      nth(k) == CHOOSE j \in has : Cardinality({m \in has : j < m}) = k - 1
  IN  [k \in 1 .. Cardinality(has) |-> <<hook, nth(k)>>]

\* Nobody waits for nothing: a send of which no walk is left has been answered.
Answered == \A s \in Sends : settled[s] = "open" => \E t \in walks : t.send = s

\* What a value has passed when it reaches the store: from a start hook, the end hooks up to
\* its plugin; from beforeNetwork, the afterNetwork hooks up to it and all end hooks; from
\* the network, all of both.
Exits ==
  \A e \in ends : e.how = "resolved" =>
    e.seen = CASE e.turn[2] = 1 -> Down("end", e.turn[3])
               [] e.turn[2] = 2 -> Down("afterNetwork", e.turn[3]) \o Down("end", N)
               [] e.turn[2] = 3 -> Down("afterNetwork", N) \o Down("end", N)

\* An error that nobody resolved has passed every catch hook of the plugins before the one
\* that threw, and not its own; once aborted it passes none.
Catches ==
  \A e \in ends : e.how = "rejected" /\ ~e.aborted /\ e.turn[3] > 0 =>
    e.seen = Down("catch", e.turn[3] - 1)
=============================================================================
