----------------------------- MODULE QueryStore -----------------------------
(***************************************************************************)
(* One query document in the client: DocumentStore.send and its pipeline   *)
(* (packages/houdini/src/runtime/documentStore.ts), the cachePolicy and    *)
(* query plugins (packages/houdini-core/runtime/plugins) and the cache     *)
(* subscription the query plugin keeps.                                    *)
(*                                                                         *)
(* A call of send runs without interruption until the network request, so  *)
(* it is one action; the reply, the rejection and the finally block of     *)
(* send are the others.  Requests are numbered in the order of the calls.  *)
(* The values a document reads are abstracted to a version of the server's *)
(* data per value of the variables: 0 when the cache lacks some of it.     *)
(***************************************************************************)
EXTENDS Integers, Sequences

CONSTANTS
  Vars,        \* values of the query's (marshaled) variables
  Unset,       \* send() without variables
  None,        \* null
  Policies,    \* the cache policies that callers use
  Artifacts,   \* the @dedupe arguments of the document: [cancel, match]
  Overlapping, \* may send be called while an earlier call is out?
  Departing,   \* may the last reader leave while a request is out?
  Faulty,      \* may requests fail or be aborted?
  MaxSends,    \* bound: calls of send
  MaxVersion   \* bound: versions of the server's data

ASSUME QueryAssumption ==
  /\ Unset \notin Vars /\ None \notin Vars /\ Unset # None
  /\ Policies \subseteq {"CacheOrNetwork", "CacheOnly", "NetworkOnly", "CacheAndNetwork"}
  /\ Artifacts \subseteq [cancel : {"never", "first", "last"}, match : {"Operation", "Variables"}]
  /\ {Overlapping, Departing, Faulty} \subseteq BOOLEAN
  /\ MaxSends \in Nat /\ MaxVersion \in Nat \ {0}

VARIABLES
  artifact,   \* which document this is; never changes
  requests,   \* the calls of send so far
  registry,   \* inflightRequests: for each key, the request whose controller is there
  doc,        \* the store and its query plugin
  cache,      \* what a read of the cache finds, for each value of the variables
  server      \* the version of the server's data

vars == <<artifact, requests, registry, doc, cache, server>>

Nothing  == 0
Versions == 1 .. MaxVersion

Keys == Vars \cup {Unset, None}

Deduped == artifact.cancel # "never"

\* controllerKey: the variables that send was called with count only if the
\* document matches on them.
Key(raw) == IF Deduped /\ artifact.match = "Variables" THEN raw ELSE None

Request ==
  [key     : Keys,               \* its controllerKey
   vars    : Vars,               \* the variables after query.start
   changed : BOOLEAN,            \* stuff.inputs.changed
   net     : {"waiting", "served", "over"},
   version : 0 .. MaxVersion,    \* what the server answered, 0 for errors
   promise : {"open", "settled", "forgotten"},
   aborted : BOOLEAN]

Doc ==
  [vars       : Vars \cup {None},   \* state.variables
   data       : {None} \cup (Vars \X Versions), \* state.data
   fetching   : BOOLEAN,            \* state.fetching
   last       : Vars \cup {None},   \* DocumentStore's #lastVariables
   inputs     : Vars \cup {None},   \* the query plugin's lastVariables
   spec       : 0 .. MaxSends,      \* the request whose subscriptionSpec it keeps
   subscribed : BOOLEAN,            \* does the cache have that spec?
   watched    : BOOLEAN]            \* has the store a subscriber?

\* A document as HoudiniClient.observe makes it: it is not loading.

Init ==
  /\ artifact \in Artifacts
  /\ requests = <<>>
  /\ registry = [k \in Keys |-> Nothing]
  /\ doc = [vars |-> None, data |-> None, fetching |-> FALSE, last |-> None,
            inputs |-> None, spec |-> Nothing, subscribed |-> FALSE,
            watched |-> FALSE]
  /\ cache = [v \in Vars |-> [version |-> 0, stale |-> FALSE]]
  /\ server = 1

-----------------------------------------------------------------------------
(* What the pipeline does to the store                                      *)

InFlight(q) == q.net \in {"waiting", "served"}
Live(q)     == InFlight(q) /\ ~q.aborted
Quiet       == \A r \in DOMAIN requests : ~InFlight(requests[r])
Idle        == Quiet /\ \A r \in DOMAIN requests : requests[r].promise = "forgotten"

\* A faulty query.end that subscribes on the first result only.
EndOnce(d, r, q, data) ==
  LET ready == IF q.changed /\ d.spec = Nothing
                 THEN [d EXCEPT !.spec = r, !.subscribed = TRUE, !.inputs = q.vars] ELSE d
  IN  [ready EXCEPT !.vars = q.vars, !.data = data, !.fetching = FALSE, !.last = q.vars]

\* query.end and the end of the pipeline: if the variables of request q (number
\* r) had changed when it was sent, leave the old subscription for a new one;
\* then set the state and remember the variables.
End(d, r, q, data) ==
  LET ready == IF q.changed
                 THEN [d EXCEPT !.spec = r, !.subscribed = TRUE, !.inputs = q.vars] ELSE d
  IN  [ready EXCEPT !.vars = q.vars, !.data = data, !.fetching = FALSE, !.last = q.vars]

\* A write of version n for v: if the value changed, or the write is one of a
\* mutation, the subscription's onMessage resolves the pipeline of the request
\* that subscribed, unless that one is aborted.
Told(d, v, n, force) ==
  IF /\ d.subscribed
     /\ requests[d.spec].vars = v
     /\ ~requests[d.spec].aborted
     /\ force \/ cache[v].version # n
    THEN [d EXCEPT !.vars = v, !.data = <<v, n>>, !.fetching = FALSE, !.last = v]
    ELSE d

\* A request that is over needs nothing of what it would have delivered.
Over(q) == [q EXCEPT !.net = "over", !.version = 0, !.changed = FALSE]

Cached(v, n) == [cache EXCEPT ![v] = [version |-> n, stale |-> FALSE]]

-----------------------------------------------------------------------------
(* send                                                                     *)

\* The registered request that has not been aborted yet.
Existing(raw) ==
  LET r == registry[Key(raw)]
  IN  IF r # Nothing /\ ~requests[r].aborted THEN r ELSE Nothing

\* Does this call of send abort itself, or an earlier one?
Dropped(raw)  == Deduped /\ Existing(raw) # Nothing /\ artifact.cancel = "last"
Canceled(raw) ==
  IF Deduped /\ artifact.cancel = "first" THEN {Existing(raw)} \ {Nothing} ELSE {}

\* What query.start makes of the variables: those of the last subscription
\* stand in for what the caller leaves out.
Merged(raw) == IF raw = Unset THEN doc.inputs ELSE raw

Hit(v)      == cache[v].version > 0
UsesCache(policy, v) == policy # "NetworkOnly" /\ Hit(v)

\* Whether cachePolicy.beforeNetwork stops at the cache.
StopsAtCache(policy, v) ==
  \/ policy = "CacheOnly"
  \/ policy = "CacheOrNetwork" /\ Hit(v) /\ ~cache[v].stale

\* A faulty beforeNetwork that does not look whether the value is complete.
AfterSendUnchecked(r, q, policy) ==
  IF q.aborted THEN doc
  ELSE IF UsesCache(policy, q.vars) \/ policy = "CacheOnly"
    THEN End(doc, r, q, <<q.vars, cache[q.vars].version>>)
  ELSE [doc EXCEPT !.fetching = TRUE]

\* A faulty beforeNetwork that starts to load before it knows it may not.
AfterSendLoading(r, q, policy) ==
  IF q.aborted THEN doc
  ELSE IF UsesCache(policy, q.vars) THEN End(doc, r, q, <<q.vars, cache[q.vars].version>>)
  ELSE [doc EXCEPT !.fetching = TRUE]

\* What the store holds when send has run as far as it can.
AfterSend(r, q, policy) ==
  IF q.aborted THEN doc
  ELSE IF UsesCache(policy, q.vars) THEN End(doc, r, q, <<q.vars, cache[q.vars].version>>)
  ELSE IF policy = "CacheOnly"      THEN End(doc, r, q, doc.data)
  ELSE [doc EXCEPT !.fetching = TRUE]

Send(raw, policy) ==
  LET r == Len(requests) + 1
      v == Merged(raw)
      q == [key |-> Key(raw), vars |-> v, changed |-> v # doc.last,
            net |-> IF Dropped(raw) \/ StopsAtCache(policy, v) THEN "over" ELSE "waiting",
            version |-> 0,
            promise |-> IF Dropped(raw) \/ UsesCache(policy, v) \/ policy = "CacheOnly"
                          THEN "settled" ELSE "open",
            aborted |-> Dropped(raw)]
  IN  /\ Len(requests) < MaxSends
      /\ Overlapping \/ Idle
      /\ v # None
      /\ requests' = Append([i \in DOMAIN requests |->
                               [requests[i] EXCEPT !.aborted = @ \/ i \in Canceled(raw)]],
                            IF q.net = "over" THEN Over(q) ELSE q)
      /\ registry' = IF Deduped /\ ~Dropped(raw) THEN [registry EXCEPT ![Key(raw)] = r]
                                                 ELSE registry
      /\ doc' = AfterSend(r, q, policy)
      /\ UNCHANGED <<artifact, cache, server>>

-----------------------------------------------------------------------------
(* The rest of a request                                                    *)

Update(r, q) == requests' = [requests EXCEPT ![r] = q]

\* The promise settles once.
Settled(q) == IF q.promise = "open" THEN "settled" ELSE q.promise

\* The server answers, with data or with errors and no data.
Serve(r) ==
  /\ requests[r].net = "waiting"
  /\ \E n \in {server} \cup (IF Faulty THEN {0} ELSE {}) :
       Update(r, [requests[r] EXCEPT !.net = "served", !.version = n])
  /\ UNCHANGED <<artifact, registry, doc, cache, server>>

\* A faulty reply that leaves the promise open.
DeliverSilently(r) ==
  LET q == requests[r]
  IN  /\ q.net = "served" /\ ~q.aborted /\ q.version > 0
      /\ cache' = Cached(q.vars, q.version)
      /\ doc' = End(Told(doc, q.vars, q.version, FALSE), r, q, <<q.vars, q.version>>)
      /\ Update(r, Over(q))
      /\ UNCHANGED <<artifact, registry, server>>

\* The reply: cachePolicy.afterNetwork writes it, which tells the subscription
\* the store has from before, and reads it back for the end hooks.
Deliver(r) ==
  LET q == requests[r]
  IN  /\ q.net = "served" /\ ~q.aborted /\ q.version > 0
      /\ cache' = Cached(q.vars, q.version)
      /\ doc' = End(Told(doc, q.vars, q.version, FALSE), r, q, <<q.vars, q.version>>)
      /\ Update(r, [Over(q) EXCEPT !.promise = Settled(q)])
      /\ UNCHANGED <<artifact, registry, server>>

DeliverErrors(r) ==
  LET q == requests[r]
  IN  /\ q.net = "served" /\ ~q.aborted /\ q.version = 0
      /\ doc' = End(doc, r, q, None)
      /\ Update(r, [Over(q) EXCEPT !.promise = Settled(q)])
      /\ UNCHANGED <<artifact, registry, cache, server>>

\* The request fails, or its signal is aborted: the error passes the catch
\* hooks and rejects the promise.  Nothing puts the store's state back.
Fail(r) ==
  LET q == requests[r]
  IN  /\ InFlight(q)
      /\ Faulty \/ q.aborted
      /\ Update(r, [Over(q) EXCEPT !.promise = Settled(q)])
      /\ UNCHANGED <<artifact, registry, doc, cache, server>>

\* A faulty finally block that an abort skips.
ForgetUnlessAborted(r) ==
  LET q == requests[r]
  IN  /\ q.promise = "settled"
      /\ Update(r, [q EXCEPT !.promise = "forgotten"])
      /\ registry' = IF q.aborted THEN registry ELSE [registry EXCEPT ![q.key] = Nothing]
      /\ UNCHANGED <<artifact, doc, cache, server>>

\* The finally block of send deletes the entry for its key, whoever's it is.
Forget(r) ==
  LET q == requests[r]
  IN  /\ q.promise = "settled"
      /\ Update(r, [q EXCEPT !.promise = "forgotten"])
      /\ registry' = [registry EXCEPT ![q.key] = Nothing]
      /\ UNCHANGED <<artifact, doc, cache, server>>

\* The caller's own AbortController, while the request is out or afterwards,
\* when the document's subscription is still the one that the request made.
Abort(r) ==
  /\ Faulty
  /\ ~requests[r].aborted
  /\ InFlight(requests[r]) \/ doc.spec = r
  /\ Update(r, [requests[r] EXCEPT !.aborted = TRUE])
  /\ UNCHANGED <<artifact, registry, doc, cache, server>>

-----------------------------------------------------------------------------
(* The rest of the application                                              *)

\* A faulty cleanup that keeps #lastVariables.
LeaveRemembering ==
  /\ doc.watched /\ (Departing \/ Quiet)
  /\ doc' = [doc EXCEPT !.watched = FALSE, !.subscribed = FALSE,
                        !.inputs = IF doc.spec = Nothing THEN @ ELSE None]
  /\ UNCHANGED <<artifact, requests, registry, cache, server>>

\* The first of the store's subscribers comes, before or after it is sent.
Arrive ==
  /\ ~doc.watched
  /\ doc' = [doc EXCEPT !.watched = TRUE]
  /\ UNCHANGED <<artifact, requests, registry, cache, server>>

\* The last of them goes: the store forgets its variables and every plugin
\* cleans up.
Leave ==
  /\ doc.watched /\ (Departing \/ Quiet)
  /\ doc' = [doc EXCEPT !.watched = FALSE, !.last = None, !.subscribed = FALSE,
                        !.inputs = IF doc.spec = Nothing THEN @ ELSE None]
  /\ UNCHANGED <<artifact, requests, registry, cache, server>>

ServerChanges ==
  /\ server < MaxVersion
  /\ server' = server + 1
  /\ UNCHANGED <<artifact, requests, registry, doc, cache>>

\* A mutation, a subscription or another query brings what the server has now.
OtherWrite(v) ==
  /\ cache' = Cached(v, server)
  /\ \E force \in BOOLEAN : doc' = Told(doc, v, server, force)
  /\ UNCHANGED <<artifact, requests, registry, server>>

MarkStale(v) ==
  /\ Hit(v) /\ ~cache[v].stale
  /\ cache' = [cache EXCEPT ![v].stale = TRUE]
  /\ UNCHANGED <<artifact, requests, registry, doc, server>>

Answer(r) == Serve(r) \/ Deliver(r) \/ DeliverErrors(r) \/ Fail(r) \/ Forget(r)

Next ==
  \/ \E raw \in Vars \cup {Unset}, policy \in Policies : Send(raw, policy)
  \/ \E r \in DOMAIN requests : Answer(r) \/ Abort(r)
  \/ Arrive \/ Leave
  \/ ServerChanges
  \/ \E v \in Vars : OtherWrite(v) \/ MarkStale(v)

Spec == Init /\ [][Next]_vars

\* The event loop runs what is ready, and a request is answered or fails.
Fairness == \A r \in 1 .. MaxSends : WF_vars(r \in DOMAIN requests /\ Answer(r))

FairSpec == Spec /\ Fairness

-----------------------------------------------------------------------------
(* Properties                                                               *)

TypeOK ==
  /\ artifact \in Artifacts
  /\ requests \in Seq(Request) /\ Len(requests) <= MaxSends
  /\ registry \in [Keys -> 0 .. Len(requests)]
  /\ doc \in Doc /\ doc.spec <= Len(requests)
  /\ cache \in [Vars -> [version : 0 .. MaxVersion, stale : BOOLEAN]]
  /\ server \in Versions

\* What the store shows its readers is what the cache has for the variables it shows, and
\* so the most recent value that any document brought (docs: data is updated
\* as mutations, subscriptions and other queries bring in more recent values),
\* once its own requests are done, from when it was sent until its last reader
\* leaves.
ShowsLatest ==
  Quiet /\ doc.watched /\ doc.last # None /\ doc.data # None /\ Hit(doc.vars) =>
    doc.data = <<doc.vars, cache[doc.vars].version>>

\* A document that remembers its variables is subscribed to the records that
\* those variables select, not to those of an earlier call, nor to none.
SubscribedToLast ==
  Quiet /\ doc.last # None => doc.subscribed /\ requests[doc.spec].vars = doc.last

\* fetching means that a request is out (docs: true while a network request is
\* in flight): a loading state always has somebody who will end it.
FetchingInFlight == doc.fetching => ~Quiet

\* A registered request is one whose call of send has not returned: an entry
\* that outlived its call would make @dedupe drop every later one.
RegisteredIsPending ==
  \A k \in Keys : registry[k] # Nothing => requests[registry[k]].promise # "forgotten"

\* Of two calls that @dedupe takes for the same, at most one is out.
OneLivePerKey ==
  Deduped => \A i, j \in DOMAIN requests :
    i # j /\ requests[i].key = requests[j].key
      => ~(Live(requests[i]) /\ Live(requests[j]))

\* Every call of send returns, with a result or an error, and once: whichever
\* hook fails, whoever aborts it.
EverySendReturns ==
  \A r \in 1 .. MaxSends :
    (r \in DOMAIN requests) ~> (r \in DOMAIN requests /\ requests[r].promise = "forgotten")
=============================================================================
