---------------------------- MODULE QueryHandle ----------------------------
(***************************************************************************)
(* useQuery in React: suspense units kept by query and variables           *)
(* (hooks/suspenseCache.ts), document stores held by the components that   *)
(* committed them (hooks/observerRefs.ts), and the hook that ties the two  *)
(* together (hooks/useQueryHandle.ts).  A component that suspends before   *)
(* its first commit forgets its state; one that has committed keeps it.    *)
(***************************************************************************)
EXTENDS Naturals, Sequences, SequencesExt, FiniteSets

CONSTANTS
  Components,  \* places of the tree that call the hook
  Keys,        \* identifiers: artifact, variables and fetch key
  Capacity,    \* of the suspense cache, 1000 in the code
  None,
  MaxSends,    \* bound: units, and with them requests, ever made
  MaxDrops     \* bound: session changes and replays of effects

VARIABLES
  units,       \* the LRU cache of suspense units, the least recent first
  sends,       \* requests that units have out
  observers,   \* the document stores made so far
  held,        \* observerRefs: the stores with a hold, and their counts
  timers,      \* disposals deferred, for each store
  tree,        \* the components
  made,        \* units made so far
  drops

vars == <<units, sends, observers, held, timers, tree, made, drops>>

Ids == 1..MaxSends

\* answered: the variables of the state.  known: #lastVariables.  History: dropped,
\* torn down while a request was out; late, while a unit or a render had it still.
Observer == [subscribed : BOOLEAN, answered : Keys \cup {None}, known : Keys \cup {None},
             dropped : BOOLEAN, late : BOOLEAN]
NewObserver == [subscribed |-> FALSE, answered |-> None, known |-> None,
                dropped |-> FALSE, late |-> FALSE]

Unit == [key : Keys, observer : Ids, id : Ids, state : {"pending", "resolved", "rejected"}]
Request == [unit : Ids, observer : Ids, key : Keys, changed : BOOLEAN]

Component == [phase : {"absent", "suspended", "rendered", "shown"}, mounted : BOOLEAN,
              key : Keys \cup {None}, want : Keys \cup {None},
              observer : Ids \cup {0}]
Absent == [phase |-> "absent", mounted |-> FALSE, key |-> None, want |-> None,
           observer |-> 0]

Init ==
  /\ units = <<>> /\ sends = {} /\ observers = <<>>
  /\ held = [o \in {} |-> 0] /\ timers = [o \in Ids |-> 0]
  /\ tree = [c \in Components |-> Absent]
  /\ made = 0 /\ drops = 0

-----------------------------------------------------------------------------
(* The cache.                                                              *)

Cached(k) == \E i \in DOMAIN units : units[i].key = k
Position(us, k) == CHOOSE i \in DOMAIN us : us[i].key = k

\* LRUCache.get: the key becomes the most recent one.
Touched(k) == Append(RemoveAt(units, Position(units, k)), units[Position(units, k)])

\* LRUCache.delete.
Without(us, k) == IF \E i \in DOMAIN us : us[i].key = k THEN RemoveAt(us, Position(us, k)) ELSE us

\* The plugin cleanups of a store, us being the units left.
TornDown(o, e, us) ==
  [e EXCEPT !.subscribed = FALSE,
            !.dropped = @ \/ \E s \in sends : s.observer = o,
            !.late = \/ @
                     \/ \E u \in Range(us) : u.observer = o
                     \/ \E c \in Components : tree[c].phase = "rendered" /\ tree[c].observer = o]

\* Faulty variant: a unit is dropped and its store left as it is.
CleanedNothing(os, us) == os

\* The eviction callback, us being the units left, disposes of the stores of those that
\* are gone, but for the stores that a component has committed.
Cleaned(os, us) ==
  LET gone == {u.observer : u \in Range(units) \ Range(us)}
  IN  [o \in DOMAIN os |-> IF o \in gone \ DOMAIN held THEN TornDown(o, os[o], us) ELSE os[o]]

\* releaseObserver.  The last one out sets a timer.
Released(t) ==
  IF t.mounted
  THEN /\ held' = [held EXCEPT ![t.observer] = @ - 1]
       /\ timers' = [timers EXCEPT ![t.observer] =
                       IF held[t.observer] = 1 THEN @ + 1 ELSE @]
  ELSE UNCHANGED <<held, timers>>

\* The cleanups of an identifier's effect and of the hold, in that order; us being the
\* units before them.
Leave(c, us) ==
  LET left == IF tree[c].mounted THEN Without(us, tree[c].key) ELSE us
  IN  /\ units' = left
      /\ observers' = Cleaned(observers, left)
      /\ tree' = [tree EXCEPT ![c] = Absent]
      /\ Released(tree[c])
      /\ UNCHANGED <<sends, made, drops>>

-----------------------------------------------------------------------------
(* Rendering.                                                              *)

\* No unit: the component starts a fetch and suspends on it.
StartFetch(c, k) ==
  LET mine == tree[c].mounted
      o    == IF mine THEN tree[c].observer ELSE Len(observers) + 1
      os   == IF mine THEN observers ELSE Append(observers, NewObserver)
      full == Len(units) >= Capacity
      kept == IF full THEN Tail(units) ELSE units
  IN  /\ ~Cached(k) /\ made < MaxSends
      /\ made' = made + 1
      /\ units' = Append(kept, [key |-> k, observer |-> o, id |-> made + 1, state |-> "pending"])
      /\ sends' = sends \cup {[unit |-> made + 1, observer |-> o, key |-> k,
                               changed |-> os[o].known # k]}
      /\ observers' = Cleaned(os, kept)
      /\ tree' = [tree EXCEPT ![c].phase = "suspended", ![c].want = k]
      /\ UNCHANGED <<held, timers, drops>>

\* A parked error: the unit goes, and the boundary takes the component's place.
ThrowError(c, k) ==
  /\ Cached(k) /\ units[Position(units, k)].state = "rejected"
  /\ Leave(c, Without(units, k))

\* A unit: its store is taken up, or kept, and shown when it has something.
UseUnit(c, k) ==
  LET u == units[Position(units, k)]
      o == IF tree[c].mounted THEN tree[c].observer ELSE u.observer
      ready == u.state = "resolved" \/ observers[o].answered # None
  IN  /\ Cached(k) /\ u.state # "rejected"
      /\ units' = Touched(k)
      /\ tree' = [tree EXCEPT ![c] = IF ready
                    THEN [@ EXCEPT !.phase = "rendered", !.want = k, !.observer = o]
                    ELSE [@ EXCEPT !.phase = "suspended", !.want = k]]
      /\ UNCHANGED <<sends, observers, held, timers, made, drops>>

Render(c, k) ==
  /\ tree[c].phase = "suspended" => tree[c].want = k
  /\ StartFetch(c, k) \/ ThrowError(c, k) \/ UseUnit(c, k)

\* The effects of a commit: the old identifier leaves, a new component retains.
Commit(c) ==
  LET t == tree[c]
      left == IF t.mounted /\ t.key # t.want THEN Without(units, t.key) ELSE units
  IN  /\ t.phase = "rendered"
      /\ units' = left
      /\ held' = IF t.mounted THEN held
                 ELSE [o \in DOMAIN held \cup {t.observer} |->
                         (IF o \in DOMAIN held THEN held[o] ELSE 0)
                         + (IF o = t.observer THEN 1 ELSE 0)]
      /\ observers' = Cleaned(observers, left)
      /\ tree' = [tree EXCEPT ![c].phase = "shown", ![c].mounted = TRUE, ![c].key = t.want]
      /\ UNCHANGED <<sends, timers, made, drops>>

Unmount(c) ==
  /\ tree[c].phase # "absent"
  /\ Leave(c, units)

\* Strict mode runs the cleanups of a component and its effects again.
Replay(c) ==
  LET t == tree[c]
  IN  /\ t.phase = "shown" /\ drops < MaxDrops
      /\ drops' = drops + 1
      /\ units' = Without(units, t.key)
      /\ timers' = [timers EXCEPT ![t.observer] = IF held[t.observer] = 1 THEN @ + 1 ELSE @]
      /\ observers' = Cleaned(observers, Without(units, t.key))
      /\ UNCHANGED <<sends, held, tree, made>>

\* Faulty variant: the timer disposes of the store without looking at its holders.
DisposeUnchecked(o) ==
  /\ timers[o] > 0
  /\ timers' = [timers EXCEPT ![o] = @ - 1]
  /\ held' = [x \in DOMAIN held \ {o} |-> held[x]]
  /\ observers' = [observers EXCEPT ![o] = [TornDown(o, @, units) EXCEPT !.known = None]]
  /\ UNCHANGED <<units, sends, tree, made, drops>>

\* The timer of a release: whoever came back meanwhile keeps the store.
Dispose(o) ==
  /\ timers[o] > 0
  /\ timers' = [timers EXCEPT ![o] = @ - 1]
  /\ IF o \in DOMAIN held /\ held[o] = 0
     THEN /\ held' = [x \in DOMAIN held \ {o} |-> held[x]]
          /\ observers' = [observers EXCEPT ![o] = [TornDown(o, @, units) EXCEPT !.known = None]]
     ELSE UNCHANGED <<held, observers>>
  /\ UNCHANGED <<units, sends, tree, made, drops>>

\* invalidateSuspenseCache: a session change sweeps every unit.
Invalidate ==
  /\ drops < MaxDrops /\ units # <<>>
  /\ drops' = drops + 1
  /\ units' = <<>>
  /\ observers' = Cleaned(observers, <<>>)
  /\ UNCHANGED <<sends, held, timers, tree, made>>

\* What a store e keeps of its answer.  A thrown error ends the fetch before the hook
\* that subscribes.
Answered(e, s, outcome) ==
  [e EXCEPT !.subscribed = @ \/ (outcome # "thrown" /\ s.changed),
            !.known = IF outcome # "thrown" THEN s.key ELSE @,
            !.answered = IF outcome = "data" THEN s.key ELSE @]

\* The fetch ends.
Answer(s, outcome) ==
  /\ sends' = sends \ {s}
  /\ observers' = [observers EXCEPT ![s.observer] = Answered(@, s, outcome)]
  /\ units' = [i \in DOMAIN units |->
       IF units[i].id = s.unit
       THEN [units[i] EXCEPT !.state = IF outcome = "data" THEN "resolved" ELSE "rejected"]
       ELSE units[i]]
  /\ UNCHANGED <<held, timers, tree, made, drops>>

Next ==
  \/ \E c \in Components : \/ \E k \in Keys : Render(c, k)
                           \/ Commit(c) \/ Unmount(c) \/ Replay(c)
  \/ \E o \in Ids : Dispose(o)
  \/ \E s \in sends, outcome \in {"data", "errors", "thrown"} : Answer(s, outcome)
  \/ Invalidate

Spec == Init /\ [][Next]_vars

-----------------------------------------------------------------------------
TypeOK ==
  /\ units \in Seq(Unit) /\ Len(units) <= Capacity
  /\ sends \subseteq Request
  /\ observers \in Seq(Observer)
  /\ DOMAIN held \subseteq Ids /\ \A o \in DOMAIN held : held[o] \in Nat
  /\ timers \in [Ids -> Nat]
  /\ tree \in [Components -> Component]
  /\ made \in 0..MaxSends /\ drops \in 0..MaxDrops

\* The store of a mounted component listens to the cache: neither a deferred disposal
\* nor an eviction tears down a store that a committed component holds.  Two cases
\* escape: a store torn down while a unit or an uncommitted render still had it, and
\* one torn down while its request was out.
HeldAlive ==
  \A c \in Components :
    tree[c].mounted => \/ observers[tree[c].observer].subscribed
                       \/ observers[tree[c].observer].late
                       \/ observers[tree[c].observer].dropped

\* The count of a store is the number of mounted components that hold it, through
\* strict-mode replays, moves between identifiers and shared units.
CountsAreHolders ==
  \A o \in DOMAIN held :
    held[o] = Cardinality({c \in Components : tree[c].mounted /\ tree[c].observer = o})

\* Somebody will still use or tear down a store.
InUse(o) ==
  \/ timers[o] > 0
  \/ \E i \in DOMAIN units : units[i].observer = o
  \/ \E c \in Components : tree[c].phase # "absent" /\ tree[c].observer = o
  \/ \E s \in sends : s.observer = o

\* No store goes on listening to the cache once no unit, component, request or timer is
\* left to tear it down, unless it was torn down while its request was out (the answer
\* subscribes it again).
NothingLeaks ==
  \A o \in DOMAIN observers :
    (observers[o].subscribed /\ ~observers[o].dropped) => InUse(o)
=============================================================================
