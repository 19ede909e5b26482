-------------------------- MODULE FragmentHandles --------------------------
(***************************************************************************)
(* The handle of a fragment that is embedded in a query by the id of its   *)
(* record: refetch() with other arguments, or one page of its connection   *)
(* after another, in place of what the fragment reads (useFragmentHandle;  *)
(* the refetchable and the cursor stores of houdini-svelte).  React has    *)
(* one observer and one stack of cursors for a component, whatever its     *)
(* reference; svelte has one of each for a record, wherever get() is       *)
(* called.                                                                 *)
(***************************************************************************)
EXTENDS Naturals, Sequences

CONSTANTS
  Records,
  Arguments,   \* of the fragment
  Pages,       \* the number of the last page of each connection, from 0
  None,
  MaxCalls,    \* bound: calls of refetch, loadNext and loadPrevious
  MaxMoves     \* bound: renders, and get()s, with a reference

VARIABLES
  framework,   \* "react" or "svelte"; never changes
  paginated,   \* the refetch artifact's flag, with the mode SinglePage; never changes
  reference,   \* the record of the reference
  observers,   \* what the observers of the embedded query have: data and variables
  stacks,      \* their previousCursors
  args,        \* refetchArgs: what was passed to refetch so far
  out,         \* the requests under way
  moved,       \* the reference is another than that of what was fetched (history)
  untold,      \* arguments are known not to be those of what is shown (history)
  upset,       \* a call was made while another was out, or failed (history)
  calls, moves

fixed == <<framework, paginated>>
history == <<moved, untold, upset>>
vars == <<fixed, reference, observers, stacks, args, out, history, calls, moves>>

\* The variables of the embedded query: the record's id, the arguments that are not the
\* initial ones, and the page.
HandleVariables == [id : Records, set : SUBSET Arguments, page : 0 .. Pages]
Initial(r) == [id |-> r, set |-> {}, page |-> 0]
Fresh == [data |-> None, variables |-> None]

\* The observer of a reference: React memoizes it by the name of the artifact.
\* Faulty variant: svelte too.
KeyByArtifact(r) == "component"
Key(r) == IF framework = "react" THEN "component" ELSE r
Keys == Records \cup {"component"}

Init ==
  /\ framework \in {"react", "svelte"} /\ paginated \in BOOLEAN
  /\ reference \in Records
  /\ observers = [k \in Keys |-> Fresh] /\ stacks = [k \in Keys |-> <<>>]
  /\ args = {} /\ out = {}
  /\ moved = FALSE /\ untold = FALSE /\ upset = FALSE /\ calls = 0 /\ moves = 0

Mine == observers[Key(reference)]

\* What is shown: what was fetched last, or else what the fragment reads.
Shown == IF Mine.data = None THEN Initial(reference) ELSE Mine.data
CurrentVariables == IF Mine.variables = None THEN Initial(reference) ELSE Mine.variables

-----------------------------------------------------------------------------
Send(v) ==
  /\ calls < MaxCalls /\ calls' = calls + 1
  /\ out' = out \cup {[key |-> Key(reference), variables |-> v, call |-> calls]}
  /\ upset' = (upset \/ out # {})
  /\ UNCHANGED <<fixed, reference, observers, moved, moves>>

\* refetch: the id is the reference's, whatever was fetched; the arguments add up.
\* Faulty variant: the arguments start anew from those of the fragment.
RefetchAnew(a) ==
  /\ ~paginated
  /\ Send([Initial(reference) EXCEPT !.set = {a}])
  /\ args' = args \cup {a}
  /\ UNCHANGED <<stacks, untold>>

Refetch(a) ==
  /\ ~paginated
  /\ Send([CurrentVariables EXCEPT !.id = reference, !.set = @ \cup {a}])
  /\ args' = args \cup {a}
  /\ UNCHANGED <<stacks, untold>>

\* The id of a page: React's handlers prefer the variables of the observer, svelte's the
\* entity that is shown, if its id is not masked.
AtPage(n) == [CurrentVariables EXCEPT !.page = n]

NextPage ==
  /\ paginated /\ Shown.page < Pages
  /\ Send(AtPage(Shown.page + 1))
  /\ stacks' = [stacks EXCEPT ![Key(reference)] = Append(@, CurrentVariables.page)]
  /\ UNCHANGED <<args, untold>>

PreviousPage ==
  LET stack == stacks[Key(reference)] IN
  /\ paginated /\ stack # <<>>
  /\ Send(AtPage(stack[Len(stack)]))
  /\ stacks' = [stacks EXCEPT ![Key(reference)] = SubSeq(stack, 1, Len(stack) - 1)]
  /\ UNCHANGED <<args, untold>>

Answer(q) ==
  /\ q \in out /\ out' = out \ {q}
  /\ observers' = [observers EXCEPT ![q.key] = [data |-> q.variables, variables |-> q.variables]]
  /\ moved' = (moved /\ q.variables.id # reference)
  /\ UNCHANGED <<fixed, reference, stacks, args, untold, upset, calls, moves>>

\* A request fails: the store keeps what it has, the handle what it noted of the call.
Failure(q) ==
  /\ q \in out /\ out' = out \ {q}
  /\ upset' = TRUE
  /\ UNCHANGED <<fixed, reference, observers, stacks, args, moved, untold, calls, moves>>

\* A render with a reference, of this record or another; or get(), which the component calls
\* again whenever its parent's data changes, and which starts from no arguments.
Move(r) ==
  /\ moves < MaxMoves /\ moves' = moves + 1
  /\ reference' = r
  /\ IF framework = "react"
     THEN /\ moved' = (moved \/ (r # reference /\ Mine.data # None))
          /\ UNCHANGED <<args, untold>>
     ELSE /\ args' = {}
          /\ untold' = (observers[r].data # None \/ \E q \in out : q.key = r)
          /\ UNCHANGED moved
  /\ upset' = (upset \/ (r # reference /\ out # {}))
  /\ UNCHANGED <<fixed, observers, stacks, out, calls>>

Next ==
  \/ \E a \in Arguments : Refetch(a)
  \/ NextPage \/ PreviousPage
  \/ \E q \in out : Answer(q) \/ Failure(q)
  \/ \E r \in Records : Move(r)

Spec == Init /\ [][Next]_vars

-----------------------------------------------------------------------------
TypeOK ==
  /\ framework \in {"react", "svelte"} /\ paginated \in BOOLEAN /\ reference \in Records
  /\ \A k \in Keys : /\ observers[k].data \in HandleVariables \cup {None}
                     /\ observers[k].variables \in HandleVariables \cup {None}
  /\ args \subseteq Arguments

\* What is shown is of the record of the reference: in svelte always, in React until the
\* component is given another reference after or during a fetch.
ShowsItsRecord == (framework = "react" /\ (moved \/ upset)) \/ Shown.id = reference

\* Once nothing is out, the arguments that the handle says are those of what it shows, unless
\* calls overlapped or failed, or get() was called after a fetch.
ArgumentsTold == out = {} /\ ~paginated /\ ~upset /\ ~untold => Shown.set = args

\* Once nothing is out, the cursors lead back over the pages before the one shown, unless
\* calls overlapped or failed: however often get() was called or the reference changed.
LeadsBack ==
  out = {} /\ paginated /\ ~upset =>
    stacks[Key(reference)] = [i \in 1 .. Shown.page |-> i - 1]
=============================================================================
