---------------------------- MODULE CacheMemory ----------------------------
(***************************************************************************)
(* What keeps the fields of the cache alive and fresh: the registry of     *)
(* subscriptions with its reference counts (cache/subscription.ts), the    *)
(* garbage collector (cache/gc.ts) and the stale manager                   *)
(* (cache/staleManager.ts), driven by writes that move links (writeSelection *)
(* of cache/index.ts).  Every document selects                             *)
(*     item { name  friend { name } }                                      *)
(* of the root record, some of them with friend behind a fragment.         *)
(***************************************************************************)
EXTENDS Naturals, FiniteSets, FiniteSetsExt, Functions

CONSTANTS
  Specs,       \* the documents (a subscription each)
  Masking,     \* those that reach friend through a fragment
  Root,
  Items,       \* records the links can point to
  None,
  BufferSize,  \* cacheBufferSize
  MaxWrites,   \* bound: writes, marks
  MaxTicks     \* bound: runs of the collector

VARIABLES
  active,      \* subscribed documents
  counts,      \* references of a document to a field, in plain view or masked
  item,        \* the root's link
  friend,      \* the link of each item
  stored,      \* the fields with a value
  lifetimes,   \* ticks since the field was last used, for the fields known
  times,       \* fieldsTime: "fresh" stands for a date, "stale" for null
  hydrated,    \* pendingHydrated
  marked,      \* fields marked stale and not written since (history)
  crowded,     \* two documents shared a moved link, or a narrow write moved one (history)
  writes,
  ticks

vars == <<active, counts, item, friend, stored, lifetimes, times, hydrated, marked,
          crowded, writes, ticks>>

Fields == {<<Root, "item">>} \cup (Items \X {"name", "friend"})
Modes == {"shown", "masked"}

NoCounts == [f \in Fields |-> [s \in Specs |-> [m \in Modes |-> 0]]]
NoFriends == [x \in Items |-> None]

\* A cache starts empty or with what the server rendered.
Init ==
  /\ \/ item = None /\ friend = NoFriends /\ stored = {} /\ hydrated = {}
     \/ \E x, y \in Items :
          /\ item = x /\ x # y /\ friend = [NoFriends EXCEPT ![x] = y]
          /\ stored = {<<Root, "item">>, <<x, "name">>, <<x, "friend">>, <<y, "name">>}
          /\ hydrated = stored
  /\ active = {} /\ counts = NoCounts
  /\ lifetimes = [f \in {} |-> 0] /\ times = [f \in {} |-> "fresh"]
  /\ marked = {} /\ crowded = FALSE /\ writes = 0 /\ ticks = 0

-----------------------------------------------------------------------------
(* The registry.                                                           *)

Below(s, m) == IF s \in Masking THEN "masked" ELSE m

\* Faulty variant: the collector asks for subscribers in plain view only.
WatchedShown(c, f) == \E s \in Specs : c[f][s]["shown"] > 0

Subscribers(c, f, m) == {s \in Specs : c[f][s][m] > 0}
Watched(c, f) == \E s \in Specs, m \in Modes : c[f][s][m] > 0

Added(c, f, s, m) == [c EXCEPT ![f][s][m] = @ + 1]

\* Faulty variant: the count is not compared with zero.
RemovedUnchecked(c, f, s, m) == [c EXCEPT ![f][s][m] = @ - 1]

\* removeSubscribers: the count of the walk's own mode first, then the other.
Removed(c, f, s, m) ==
  LET other == IF m = "shown" THEN "masked" ELSE "shown"
  IN  CASE c[f][s][m] > 0                          -> [c EXCEPT ![f][s][m] = @ - 1]
        [] c[f][s][m] = 0 /\ c[f][s][other] > 0    -> [c EXCEPT ![f][s][other] = @ - 1]
        [] c[f][s][m] = 0 /\ c[f][s][other] = 0    -> c

\* add, from an item down.
AddItem(c, x, s, m) ==
  LET c1 == Added(Added(c, <<x, "name">>, s, m), <<x, "friend">>, s, Below(s, m))
  IN  IF friend[x] = None THEN c1 ELSE Added(c1, <<friend[x], "name">>, s, Below(s, m))

\* Faulty variant: the records under the link are not subscribed.
AddManyItemShallow(c, x, subs) ==
  LET Own(f, s, m) == \/ f = <<x, "name">> /\ m = "shown"
                      \/ f = <<x, "friend">> /\ m = Below(s, "shown")
  IN  [f \in Fields |-> [s \in Specs |-> [m \in Modes |->
         c[f][s][m] + (IF s \in subs /\ Own(f, s, m) THEN 1 ELSE 0)]]]

\* addMany, from an item down: under the link each subscriber's turn adds them all.
AddManyItem(c, x, subs) ==
  LET own == [f \in Fields |-> [s \in Specs |-> [m \in Modes |->
        IF s \in subs /\ \/ f = <<x, "name">> /\ m = "shown"
                         \/ f = <<x, "friend">> /\ m = Below(s, "shown")
        THEN 1 ELSE 0]]]
      deep == [f \in Fields |-> [s \in Specs |-> [m \in Modes |->
        IF s \in subs /\ friend[x] # None /\ f = <<friend[x], "name">>
        THEN Cardinality({t \in subs : Below(t, "shown") = m}) ELSE 0]]]
  IN  [f \in Fields |-> [s \in Specs |-> [m \in Modes |->
         c[f][s][m] + own[f][s][m] + deep[f][s][m]]]]

\* remove, from an item down along the selection of the document that writes.
RemoveItem(c, x, subs, narrow, masked) ==
  LET m   == IF masked THEN "masked" ELSE "shown"
      cut == {"name"} \cup (IF narrow THEN {} ELSE {"friend"})
      c1  == FoldSet(LAMBDA s, d : Removed(d, <<x, "name">>, s, "shown"), c, subs)
      c2  == FoldSet(LAMBDA s, d : Removed(d, <<x, "friend">>, s, m), c1, subs)
      c3  == IF friend[x] = None THEN c2
             ELSE FoldSet(LAMBDA s, d : Removed(d, <<friend[x], "name">>, s, m), c2, subs)
  IN  IF narrow THEN c1 ELSE c3

\* Every addFieldSubscription and every write resets the lifetime.
Touched(l, fs) == [f \in DOMAIN l \cup fs |-> IF f \in fs THEN 0 ELSE l[f]]
Grown(c, d) == {f \in Fields : \E s \in Specs, m \in Modes : d[f][s][m] > c[f][s][m]}

Subscribe(s) ==
  LET c1 == Added(counts, <<Root, "item">>, s, "shown")
      c2 == IF item = None THEN c1 ELSE AddItem(c1, item, s, "shown")
  IN  /\ s \notin active
      /\ active' = active \cup {s}
      /\ counts' = c2
      /\ lifetimes' = Touched(lifetimes, Grown(counts, c2))
      /\ UNCHANGED <<item, friend, stored, times, hydrated, marked, crowded, writes, ticks>>

Unsubscribe(s) ==
  LET c1 == Removed(counts, <<Root, "item">>, s, "shown")
  IN  /\ s \in active
      /\ active' = active \ {s}
      /\ counts' = IF item = None THEN c1
                   ELSE RemoveItem(c1, item, {s}, FALSE, s \in Masking)
      /\ UNCHANGED <<item, friend, stored, lifetimes, times, hydrated, marked, crowded,
                     writes, ticks>>

-----------------------------------------------------------------------------
(* Writes.                                                                 *)

\* Faulty variant: the documents keep their references to the old record.
MoveItemKeeping(c, x, narrow, masked) ==
  LET subs == Subscribers(c, <<Root, "item">>, "shown")
  IN  IF x = item \/ x = None THEN c ELSE AddManyItem(c, x, subs)

\* A link moves: its documents leave the old record, then take up the new one.
MoveItem(c, x, narrow, masked) ==
  LET subs == Subscribers(c, <<Root, "item">>, "shown")
      c1   == IF item = None THEN c ELSE RemoveItem(c, item, subs, narrow, masked)
  IN  CASE x = item             -> c
        [] x # item /\ x = None -> c1
        [] OTHER                -> AddManyItem(c1, x, subs)

MoveFriend(c, x, y) ==
  LET shown == Subscribers(c, <<x, "friend">>, "shown")
      mask  == Subscribers(c, <<x, "friend">>, "masked")
      Leave(s, d)  == Removed(d, <<friend[x], "name">>, s, "shown")
      Enter(s, d)  == Added(d, <<y, "name">>, s, "shown")
      EnterM(s, d) == Added(d, <<y, "name">>, s, "masked")
      left == IF friend[x] = None THEN c
              ELSE FoldSet(Leave, FoldSet(Leave, c, shown), mask)
  IN  CASE y = friend[x]             -> c
        [] y # friend[x] /\ y = None -> left
        [] OTHER -> FoldSet(EnterM, FoldSet(Enter, left, shown), mask)

\* The fields of a payload: stored, in use again, and dated.
Wrote(fs, c) ==
  /\ writes < MaxWrites /\ writes' = writes + 1
  /\ counts' = c
  /\ stored' = stored \cup fs
  /\ lifetimes' = Touched(lifetimes, fs \cup Grown(counts, c))
  /\ times' = [f \in DOMAIN times \cup fs |-> IF f \in fs THEN "fresh" ELSE times[f]]
  /\ marked' = marked \ fs
  /\ UNCHANGED <<active, hydrated, ticks>>

NameOf(y) == IF y = None THEN {} ELSE {<<y, "name">>}

\* The payload of a document: item { name friend { name } }.
WriteItem(masked, x, y) ==
  /\ Wrote({<<Root, "item">>} \cup (IF x = None THEN {}
              ELSE {<<x, "name">>, <<x, "friend">>} \cup NameOf(y)),
           LET c == MoveItem(counts, x, FALSE, masked)
           IN  IF x = None THEN c ELSE MoveFriend(c, x, y))
  /\ item' = x
  /\ friend' = IF x = None THEN friend ELSE [friend EXCEPT ![x] = y]
  /\ crowded' = (crowded \/ (x # item /\ Cardinality(active) > 1))

\* The payload of a mutation: item { name }.
WriteNarrow(x) ==
  /\ Wrote({<<Root, "item">>, <<x, "name">>}, MoveItem(counts, x, TRUE, FALSE))
  /\ item' = x
  /\ crowded' = (crowded \/ x # item)
  /\ UNCHANGED friend

\* The payload of another mutation, about one item.
WriteFriend(x, y) ==
  /\ Wrote({<<x, "friend">>} \cup NameOf(y), MoveFriend(counts, x, y))
  /\ friend' = [friend EXCEPT ![x] = y]
  /\ UNCHANGED <<item, crowded>>

-----------------------------------------------------------------------------
(* The stale manager and the collector.                                    *)

\* Faulty variant: only the fields with a date are marked.
MarkDated(scope) ==
  /\ writes < MaxWrites /\ writes' = writes + 1
  /\ times' = [f \in DOMAIN times |-> IF f[1] \in scope THEN "stale" ELSE times[f]]
  /\ hydrated' = {}
  /\ marked' = marked \cup {f \in stored : f[1] \in scope}
  /\ UNCHANGED <<active, counts, item, friend, stored, lifetimes, crowded, ticks>>

\* #flushHydrated, then the mark: of one record, one type or all.
Mark(scope) ==
  LET known == [f \in DOMAIN times \cup hydrated |->
                  IF f \in DOMAIN times THEN times[f] ELSE "fresh"]
  IN  /\ writes < MaxWrites /\ writes' = writes + 1
      /\ times' = [f \in DOMAIN known |-> IF f[1] \in scope THEN "stale" ELSE known[f]]
      /\ hydrated' = {}
      /\ marked' = marked \cup {f \in stored : f[1] \in scope}
      /\ UNCHANGED <<active, counts, item, friend, stored, lifetimes, crowded, ticks>>

\* tick.  late: the pause before it was longer than defaultLifetime.
Tick(late) ==
  LET idle == {f \in DOMAIN lifetimes : ~Watched(counts, f)}
      gone == {f \in idle : lifetimes[f] + 1 > BufferSize}
      aged == IF late THEN (idle \ gone) \cap DOMAIN times ELSE {}
  IN  /\ ticks < MaxTicks /\ ticks' = ticks + 1
      /\ lifetimes' = [f \in DOMAIN lifetimes \ gone |->
                         IF f \in idle THEN lifetimes[f] + 1 ELSE lifetimes[f]]
      /\ stored' = stored \ gone
      /\ item' = IF <<Root, "item">> \in gone THEN None ELSE item
      /\ friend' = [x \in Items |-> IF <<x, "friend">> \in gone THEN None ELSE friend[x]]
      /\ times' = [f \in DOMAIN times \ gone |-> IF f \in aged THEN "stale" ELSE times[f]]
      /\ UNCHANGED <<active, counts, hydrated, marked, crowded, writes>>

\* Faulty variant: documents that hold a record behind a fragment are not asked.
RefetchedShown(ids) ==
  {s \in Specs : \E f \in Fields : f[1] \in ids /\ counts[f][s]["shown"] > 0}

\* cache.refresh: the documents that are asked, once each, to fetch again because they hold
\* one of the records, masked ones included (getAll).
Refetched(ids) ==
  {s \in Specs : \E f \in Fields, m \in Modes : f[1] \in ids /\ counts[f][s][m] > 0}

\* cache.refreshAll, after a change of session.
RefetchedAll == Refetched(Items \cup {Root})

Next ==
  \/ \E s \in Specs : Subscribe(s) \/ Unsubscribe(s)
  \/ \E x \in Items, y \in Items \cup {None}, masked \in BOOLEAN : WriteItem(masked, x, y)
  \/ WriteItem(FALSE, None, None)
  \/ \E x \in Items : \/ WriteNarrow(x)
                      \/ \E y \in Items \cup {None} : WriteFriend(x, y)
  \/ \E scope \in {{x} : x \in Items} \cup {Items, Items \cup {Root}} : Mark(scope)
  \/ \E late \in BOOLEAN : Tick(late)

Spec == Init /\ [][Next]_vars

-----------------------------------------------------------------------------
\* What a subscribed document shows.
InView ==
  {<<Root, "item">>} \cup
  (IF item = None THEN {}
   ELSE {<<item, "name">>, <<item, "friend">>} \cup NameOf(friend[item]))

TypeOK ==
  /\ active \subseteq Specs /\ counts \in [Fields -> [Specs -> [Modes -> Nat]]]
  /\ item \in Items \cup {None} /\ friend \in [Items -> Items \cup {None}]
  /\ stored \subseteq Fields /\ hydrated \subseteq Fields /\ marked \subseteq Fields
  /\ DOMAIN lifetimes \subseteq Fields /\ Range(lifetimes) \subseteq 0..BufferSize
  /\ DOMAIN times \subseteq Fields /\ Range(times) \subseteq {"fresh", "stale"}
  /\ crowded \in BOOLEAN /\ writes \in 0..MaxWrites /\ ticks \in 0..MaxTicks

\* Whatever a subscribed document shows, it holds a reference to: add, addMany, remove and
\* the walks of a write agree, across moved links and fragments.
Covered ==
  \A s \in active, f \in InView : \E m \in Modes : counts[f][s][m] > 0

\* A refresh of a record reaches every document that shows it, in plain view or through a
\* fragment, and one of everything all documents there are.
Refreshed ==
  /\ \A s \in active, f \in InView : s \in Refetched({f[1]})
  /\ active \subseteq RefetchedAll

\* No step (the collector's above all) drops a value that a subscribed document shows.
KeptInView ==
  [][active # {} => (stored \cap InView) \subseteq stored']_vars

\* Once nobody subscribes, no reference is left, unless two documents shared a link that
\* moved or a narrower document moved one (remove walks the writer's selection).
NothingLeft ==
  (active = {} /\ ~crowded) => counts = NoCounts

\* A field marked stale stays so until it is written again, hydrated fields without a
\* date included, and whatever the collector does in between.
MarkedStay ==
  \A f \in marked \cap stored : f \in DOMAIN times /\ times[f] = "stale"
=============================================================================
