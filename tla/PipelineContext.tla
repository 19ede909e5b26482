--------------------------- MODULE PipelineContext ---------------------------
(***************************************************************************)
(* The variables of a request on their way through a store's plugins       *)
(* (documentStore.ts: ClientPluginContextWrapper, variablesChanged): each  *)
(* context holds them as they were given and as they are sent, with custom *)
(* scalars converted (scalars.ts: marshalInputs).  The query plugin puts   *)
(* those of the last subscription under them and subscribes when they have *)
(* changed; other plugins set, add or remove some.                         *)
(***************************************************************************)
EXTENDS Naturals, Functions

CONSTANTS
  Names,       \* variables of the document
  Scalars,     \* those whose type is a custom scalar
  Given,       \* values
  None,
  MaxSends,    \* bound
  MaxEdits     \* bound: changes that other plugins make

VARIABLES
  last,        \* #lastVariables: those of the last request that ended
  kept,        \* the query plugin's lastVariables
  subscribed,  \* the variables that the cache knows the store by, or None
  contexts,    \* requests in the pipeline
  posted,      \* what the last step sent to the server (history)
  crossed,     \* requests overlapped, one did not subscribe, or the store was left (history)
  sends, edits

vars == <<last, kept, subscribed, contexts, posted, crossed, sends, edits>>

Empty == [n \in {} |-> None]

\* A value as it was given, converted a number of times.
As(v) == [is |-> v, times |-> 0]

\* marshalInputs: what has a custom scalar's type is converted, the rest left alone.
Marshal(n, v) == IF n \in Scalars THEN [v EXCEPT !.times = @ + 1] ELSE v

\* { ...g, ...f }
Over(f, g) == [n \in DOMAIN f \cup DOMAIN g |-> IF n \in DOMAIN f THEN f[n] ELSE g[n]]

Init ==
  /\ last = None /\ kept = Empty /\ subscribed = None
  /\ contexts = {} /\ posted = {} /\ crossed = FALSE /\ sends = 0 /\ edits = 0

-----------------------------------------------------------------------------
(* A context.  given: what this request or its plugins have set (history). *)

Context(id, silent) ==
  [id |-> id, silent |-> silent, phase |-> "start", variables |-> Empty, marshaled |-> Empty,
   init |-> FALSE, changed |-> FALSE, lastVariables |-> last, given |-> {}]

\* The names whose value differs from the one of the context.
Changed(c, val) ==
  {n \in DOMAIN val : n \notin DOMAIN c.variables \/ val[n] # c.variables[n]}

\* Faulty variant: all variables are converted again.
AppliedAgain(c, val) ==
  LET marshaled == [n \in DOMAIN c.marshaled \cup DOMAIN val |->
                      IF n \in DOMAIN c.marshaled THEN Marshal(n, c.marshaled[n]) ELSE Marshal(n, val[n])]
  IN  [c EXCEPT !.variables = val, !.marshaled = marshaled, !.init = TRUE,
                !.changed = marshaled # c.lastVariables]

\* Faulty variant: the flag says what this step has changed.
AppliedSince(c, val) ==
  LET marshaled == Over([n \in Changed(c, val) |-> Marshal(n, val[n])], c.marshaled)
  IN  [c EXCEPT !.variables = val, !.marshaled = marshaled, !.init = TRUE,
                !.changed = marshaled # c.marshaled]

\* applyVariables: what has changed is converted, over what had been converted before.
Applied(c, val) ==
  LET changed == Changed(c, val)
      marshaled == IF changed # {} \/ ~c.init
                   THEN Over([n \in changed |-> Marshal(n, val[n])], c.marshaled)
                   ELSE c.marshaled
  IN  [c EXCEPT !.variables = val, !.marshaled = marshaled, !.init = TRUE,
                !.changed = marshaled # c.lastVariables]

\* send, with these variables; a silent one asks for no subscription.
Send(val, silent) ==
  /\ sends < MaxSends /\ sends' = sends + 1
  /\ contexts' = contexts \cup
       {[Applied(Context(sends + 1, silent), val) EXCEPT !.given = DOMAIN val]}
  /\ crossed' = (crossed \/ silent \/ contexts # {})
  /\ UNCHANGED <<last, kept, subscribed, posted, edits>>

Becomes(c, d) == contexts' = (contexts \ {c}) \cup {d}

\* The query plugin's start.
Start(c) ==
  /\ c.phase = "start"
  /\ Becomes(c, [Applied(c, Over(c.variables, kept)) EXCEPT !.phase = "enter"])
  /\ UNCHANGED <<last, kept, subscribed, posted, crossed, sends, edits>>

\* Another plugin, before the query plugin or after, sets a variable or takes one out, and
\* goes on with the context.
Edit(c, val, more) ==
  /\ c.phase \in {"start", "enter"} /\ edits < MaxEdits /\ edits' = edits + 1
  /\ Becomes(c, [Applied(c, val) EXCEPT !.given = (@ \cup more) \cap DOMAIN val])
  /\ UNCHANGED <<last, kept, subscribed, posted, crossed, sends>>

SetVariable(c, n, v) == Edit(c, Over([m \in {n} |-> As(v)], c.variables), {n})
DropVariable(c, n) ==
  n \in DOMAIN c.variables /\ Edit(c, Restrict(c.variables, DOMAIN c.variables \ {n}), {})

\* The network plugin sends marshalVariables(ctx).
Post(c) ==
  /\ c.phase = "enter"
  /\ posted' = {c}
  /\ Becomes(c, [c EXCEPT !.phase = "out"])
  /\ UNCHANGED <<last, kept, subscribed, crossed, sends, edits>>

\* The answer goes back through the query plugin's end to the store.
Answer(c) ==
  /\ c.phase = "out"
  /\ contexts' = contexts \ {c}
  /\ IF c.changed /\ ~c.silent
     THEN kept' = c.marshaled /\ subscribed' = c.marshaled
     ELSE UNCHANGED <<kept, subscribed>>
  /\ last' = c.marshaled
  /\ posted' = {}
  /\ UNCHANGED <<crossed, sends, edits>>

Fail(c) ==
  /\ contexts' = contexts \ {c}
  /\ posted' = {}
  /\ UNCHANGED <<last, kept, subscribed, crossed, sends, edits>>

\* The last reader leaves.
Cleanup ==
  /\ last' = None /\ subscribed' = None
  /\ kept' = IF subscribed = None THEN kept ELSE Empty
  /\ crossed' = (crossed \/ contexts # {})
  /\ UNCHANGED <<contexts, posted, sends, edits>>

Inputs == UNION {[ns -> {As(v) : v \in Given}] : ns \in SUBSET Names}

Next ==
  \/ \E val \in Inputs, silent \in BOOLEAN : Send(val, silent)
  \/ \E c \in contexts :
       \/ Start(c) \/ Post(c) \/ Answer(c) \/ Fail(c)
       \/ \E n \in Names : DropVariable(c, n) \/ \E v \in Given : SetVariable(c, n, v)
  \/ Cleanup

Spec == Init /\ [][Next]_vars

-----------------------------------------------------------------------------
Values == [is : Given, times : 0 .. MaxSends + 1]
Assignments == UNION {[ns -> Values] : ns \in SUBSET Names}

TypeOK ==
  /\ last \in Assignments \cup {None} /\ subscribed \in Assignments \cup {None}
  /\ kept \in Assignments
  /\ \A c \in contexts : /\ c.variables \in Assignments /\ c.marshaled \in Assignments
                         /\ c.given \subseteq Names

\* "only marshal the changed variables so we don't double marshal": whatever plugins have
\* done, each variable set for a request is sent with its latest value, converted once if
\* its type asks for that, and nothing that is not a variable is; those that come from
\* the last subscription keep their value but are converted once more.
SentAsSet ==
  \A c \in posted : \A n \in DOMAIN c.variables :
    /\ n \in DOMAIN c.marshaled /\ c.marshaled[n].is = c.variables[n].is
    /\ n \in c.given => c.marshaled[n] = Marshal(n, As(c.variables[n].is))

\* When nothing is on its way, the cache knows the store by the variables of the data it
\* shows: variablesChanged, asked once at the end, sees through changes that plugins made
\* and took back, or made after the query plugin, unless requests overlapped or one was
\* sent without a subscription.
SubscribedAsSent == contexts = {} /\ ~crossed /\ last # None => subscribed = last
=============================================================================
