-------------------------- MODULE QueryStoreProofs --------------------------
(* Proofs of the safety properties of QueryStore. *)
EXTENDS QueryStore, TLAPS

Data == {None} \cup (Vars \X Versions)

\* The bounds are numbers.
LEMMA Bounds == MaxVersion \in Nat /\ MaxVersion >= 1 /\ MaxSends \in Nat
BY QueryAssumption

-----------------------------------------------------------------------------
(* What the parts of an action return                                       *)

\* The end of a pipeline sets the state, and subscribes if it was told to.
LEMMA EndEffect ==
  ASSUME NEW d \in Doc, NEW r \in 0 .. MaxSends, NEW q \in Request, NEW data \in Data
  PROVE  /\ End(d, r, q, data) \in Doc
         /\ End(d, r, q, data).vars = q.vars
         /\ End(d, r, q, data).data = data
         /\ End(d, r, q, data).last = q.vars
         /\ q.changed => End(d, r, q, data).spec = r /\ End(d, r, q, data).subscribed
         /\ ~q.changed => /\ End(d, r, q, data).spec = d.spec
                          /\ End(d, r, q, data).subscribed = d.subscribed
<1>1. q.changed \in BOOLEAN /\ q.vars \in Vars
  BY DEF Request
<1>2. CASE q.changed
  BY <1>1, <1>2 DEF End, Doc, Data
<1>3. CASE ~q.changed
  BY <1>1, <1>3 DEF End, Doc, Data
<1> QED  BY <1>1, <1>2, <1>3

\* A write changes what the store shows, never what it is subscribed to.
LEMMA ToldEffect ==
  ASSUME NEW d \in Doc, NEW v \in Vars, NEW n \in Versions, NEW force
  PROVE  /\ Told(d, v, n, force) \in Doc
         /\ Told(d, v, n, force).spec = d.spec
         /\ Told(d, v, n, force).subscribed = d.subscribed
         /\ \/ Told(d, v, n, force) = d
            \/ /\ d.subscribed /\ requests[d.spec].vars = v
               /\ Told(d, v, n, force).vars = v
               /\ Told(d, v, n, force).data = <<v, n>>
               /\ Told(d, v, n, force).last = v
<1> DEFINE C == /\ d.subscribed
                /\ requests[d.spec].vars = v
                /\ ~requests[d.spec].aborted
                /\ force \/ cache[v].version # n
<1>1. CASE C
  <2>1. Told(d, v, n, force) =
          [d EXCEPT !.vars = v, !.data = <<v, n>>, !.fetching = FALSE, !.last = v]
    BY <1>1 DEF Told
  <2>2. d.subscribed /\ requests[d.spec].vars = v
    BY <1>1
  <2> HIDE DEF C
  <2>3. n \in 1 .. MaxVersion /\ <<v, n>> \in Vars \X Versions
    BY DEF Versions
  <2>4. Told(d, v, n, force) \in Doc
    BY <2>1, <2>3 DEF Doc
  <2> QED  BY <2>1, <2>2, <2>4 DEF Doc
<1>2. CASE ~C
  <2>1. Told(d, v, n, force) = d
    BY <1>2 DEF Told
  <2> QED  BY <2>1
<1> QED  BY <1>1, <1>2

\* A request that is updated stays where it is, and the others as they are.
LEMMA UpdateEffect ==
  ASSUME requests \in Seq(Request), NEW r \in DOMAIN requests, NEW q \in Request, Update(r, q)
  PROVE  /\ requests' \in Seq(Request)
         /\ Len(requests') = Len(requests)
         /\ requests'[r] = q
         /\ \A i \in DOMAIN requests : i # r => requests'[i] = requests[i]
BY DEF Update

\* Whatever ends a request's turn keeps it a request.
LEMMA OverType ==
  ASSUME NEW q \in Request
  PROVE  /\ Over(q) \in Request
         /\ Over(q).key = q.key /\ Over(q).vars = q.vars /\ Over(q).promise = q.promise
         /\ Over(q).aborted = q.aborted /\ ~InFlight(Over(q))
<1>0. 0 \in 0 .. MaxVersion
  BY Bounds
<1>1. Over(q) \in Request
  BY <1>0 DEF Over, Request
<1>2. /\ Over(q).key = q.key /\ Over(q).vars = q.vars
      /\ Over(q).promise = q.promise /\ Over(q).net = "over"
  BY DEF Over, Request
<1>3. Over(q).aborted = q.aborted
  BY DEF Over, Request
<1> QED  BY <1>1, <1>2, <1>3 DEF InFlight

\* The same, when its promise is settled with it.
LEMMA OverSettledType ==
  ASSUME NEW q \in Request
  PROVE  /\ [Over(q) EXCEPT !.promise = Settled(q)] \in Request
         /\ [Over(q) EXCEPT !.promise = Settled(q)].key = q.key
         /\ [Over(q) EXCEPT !.promise = Settled(q)].vars = q.vars
         /\ [Over(q) EXCEPT !.promise = Settled(q)].aborted = q.aborted
         /\ ~InFlight([Over(q) EXCEPT !.promise = Settled(q)])
         /\ q.promise # "forgotten"
              => [Over(q) EXCEPT !.promise = Settled(q)].promise # "forgotten"
<1>1. q.promise \in {"open", "settled", "forgotten"}
  BY DEF Request
<1>2. Settled(q) \in {"settled", "forgotten"}
      /\ (q.promise # "forgotten" => Settled(q) # "forgotten")
  BY <1>1 DEF Settled
<1> DEFINE p == Settled(q)
           done == [Over(q) EXCEPT !.promise = p]
<1> HIDE DEF p
<1>3. p \in {"settled", "forgotten"} /\ (q.promise # "forgotten" => p # "forgotten")
  BY <1>2 DEF p
<1>4. /\ done \in Request
      /\ done.key = q.key /\ done.vars = q.vars /\ done.aborted = q.aborted
      /\ done.promise = p /\ done.net = "over"
  BY <1>3, OverType DEF Over, Request
<1> QED  BY <1>3, <1>4 DEF InFlight, p

\* What the store holds after send: what it held, perhaps loading, or the end
\* of a pipeline with what the cache has, or a miss that CacheOnly accepts.
LEMMA AfterSendEffect ==
  ASSUME TypeOK, NEW r \in 0 .. MaxSends, NEW q \in Request, NEW policy \in Policies
  PROVE  \/ AfterSend(r, q, policy) = doc
         \/ AfterSend(r, q, policy) = [doc EXCEPT !.fetching = TRUE]
         \/ /\ cache[q.vars].version \in Versions
            /\ AfterSend(r, q, policy) = End(doc, r, q, <<q.vars, cache[q.vars].version>>)
         \/ /\ cache[q.vars].version = 0
            /\ AfterSend(r, q, policy) = End(doc, r, q, doc.data)
<1>1. q.vars \in Vars
  BY DEF Request
<1>2. cache[q.vars].version \in 0 .. MaxVersion
  BY <1>1 DEF TypeOK
<1>3. CASE q.aborted
  BY <1>3 DEF AfterSend
<1>4. CASE ~q.aborted /\ UsesCache(policy, q.vars)
  <2>1. AfterSend(r, q, policy) = End(doc, r, q, <<q.vars, cache[q.vars].version>>)
    BY <1>4 DEF AfterSend, UsesCache
  <2>2. cache[q.vars].version \in Versions
    BY <1>2, <1>4 DEF UsesCache, Hit, Versions
  <2> QED  BY <2>1, <2>2
<1>5. CASE ~q.aborted /\ ~UsesCache(policy, q.vars)
  <2>1. CASE policy = "CacheOnly"
    <3>1. cache[q.vars].version = 0
      BY <1>2, <1>5, <2>1 DEF UsesCache, Hit
    <3>2. AfterSend(r, q, policy) = End(doc, r, q, doc.data)
      BY <1>5, <2>1 DEF AfterSend
    <3> QED  BY <3>1, <3>2
  <2>2. CASE policy # "CacheOnly"
    BY <1>5, <2>2 DEF AfterSend
  <2> QED  BY <2>1, <2>2
<1> QED  BY <1>3, <1>4, <1>5

-----------------------------------------------------------------------------
(* What the actions do                                                      *)

\* A request's turn leaves its key and its variables, does not put it in flight
\* again, and aborts it only if the environment does such things.
Turn(r, q) ==
  /\ Update(r, q)
  /\ q.key = requests[r].key
  /\ q.vars = requests[r].vars
  /\ InFlight(q) => InFlight(requests[r]) /\ q.changed = requests[r].changed
  /\ q.aborted => requests[r].aborted \/ Faulty

\* Every action of a request is a turn, and either leaves the registry and the
\* call of send alone or is the finally block.
LEMMA AnswerIsTurn ==
  ASSUME TypeOK, NEW r \in DOMAIN requests, Answer(r) \/ Abort(r)
  PROVE  \E q \in Request :
           /\ Turn(r, q)
           /\ \/ /\ registry' = registry
                 /\ requests[r].promise # "forgotten" => q.promise # "forgotten"
              \/ registry' = [registry EXCEPT ![requests[r].key] = Nothing]
<1> DEFINE old == requests[r]
<1>1. old \in Request
  BY DEF TypeOK
<1> HIDE DEF old
<1>2. CASE Serve(r)
  <2>1. PICK n \in {server} \cup (IF Faulty THEN {0} ELSE {}) :
          Update(r, [old EXCEPT !.net = "served", !.version = n])
    BY <1>2 DEF Serve, old
  <2>2. n \in 0 .. MaxVersion
    BY <2>1, Bounds DEF TypeOK, Versions
  <2> DEFINE q == [old EXCEPT !.net = "served", !.version = n]
  <2>3. /\ q \in Request /\ q.key = old.key /\ q.vars = old.vars
        /\ q.promise = old.promise /\ q.aborted = old.aborted
    BY <1>1, <2>2 DEF Request
  <2>4. InFlight(old) /\ q.changed = old.changed
    BY <1>1, <1>2 DEF Serve, old, InFlight, Request
  <2>5. Update(r, q) /\ registry' = registry
    BY <1>2, <2>1 DEF Serve
  <2> HIDE DEF q
  <2> QED  BY <2>3, <2>4, <2>5 DEF Turn, old
<1>3. CASE Deliver(r) \/ DeliverErrors(r) \/ Fail(r)
  <2> DEFINE q == [Over(old) EXCEPT !.promise = Settled(old)]
  <2>1. Update(r, q) /\ registry' = registry
    BY <1>3 DEF Deliver, DeliverErrors, Fail, old
  <2>2. /\ q \in Request /\ q.key = old.key /\ q.vars = old.vars /\ ~InFlight(q)
        /\ q.aborted = old.aborted
        /\ old.promise # "forgotten" => q.promise # "forgotten"
    BY <1>1, OverSettledType
  <2> HIDE DEF q
  <2> QED  BY <2>1, <2>2 DEF Turn, old
<1>4. CASE Forget(r)
  <2> DEFINE q == [old EXCEPT !.promise = "forgotten"]
  <2>1. Update(r, q) /\ registry' = [registry EXCEPT ![old.key] = Nothing]
    BY <1>4 DEF Forget, old
  <2>2. q \in Request /\ q.key = old.key /\ q.vars = old.vars /\ q.net = old.net
    BY <1>1 DEF Request
  <2>3. q.changed = old.changed /\ q.aborted = old.aborted
    BY <1>1 DEF Request
  <2> HIDE DEF q
  <2> QED  BY <2>1, <2>2, <2>3 DEF Turn, old, InFlight
<1>5. CASE Abort(r)
  <2> DEFINE q == [old EXCEPT !.aborted = TRUE]
  <2>1. Update(r, q) /\ registry' = registry /\ Faulty
    BY <1>5 DEF Abort, old
  <2>2. /\ q \in Request /\ q.key = old.key /\ q.vars = old.vars /\ q.net = old.net
        /\ q.promise = old.promise
    BY <1>1 DEF Request
  <2>3. q.changed = old.changed
    BY <1>1 DEF Request
  <2> HIDE DEF q
  <2> QED  BY <2>1, <2>2, <2>3 DEF Turn, old, InFlight
<1> QED  BY <1>2, <1>3, <1>4, <1>5 DEF Answer

\* What a request's turn does to the store and to the cache.
LEMMA AnswerStore ==
  ASSUME TypeOK, NEW r \in DOMAIN requests, Answer(r) \/ Abort(r)
  PROVE  /\ UNCHANGED <<artifact, server>>
         /\ \/ UNCHANGED <<doc, cache>>
            \/ LET q == requests[r]
               IN  /\ InFlight(q) /\ q.version \in Versions
                   /\ cache' = Cached(q.vars, q.version)
                   /\ doc' = End(Told(doc, q.vars, q.version, FALSE), r, q,
                                 <<q.vars, q.version>>)
            \/ /\ InFlight(requests[r])
               /\ doc' = End(doc, r, requests[r], None)
               /\ cache' = cache
<1>1. requests[r].version \in 0 .. MaxVersion
  <2>1. requests[r] \in Request
    BY DEF TypeOK
  <2> QED  BY <2>1 DEF Request
<1>2. CASE Deliver(r)
  <2>1. requests[r].version \in Versions
    BY <1>1, <1>2 DEF Deliver, Versions
  <2> QED  BY <1>2, <2>1 DEF Deliver, InFlight
<1>3. CASE DeliverErrors(r)
  BY <1>3 DEF DeliverErrors, InFlight
<1>4. CASE Serve(r) \/ Fail(r) \/ Forget(r) \/ Abort(r)
  BY <1>4 DEF Serve, Fail, Forget, Abort
<1> QED  BY <1>2, <1>3, <1>4 DEF Answer

\* Nothing but being aborted tells p from q.
Alike(p, q) ==
  /\ p.key = q.key /\ p.vars = q.vars /\ p.changed = q.changed
  /\ p.net = q.net /\ p.promise = q.promise

\* A call of send that may go out makes a request of its own, with the merged
\* variables; the requests before it may be cancelled, and nothing else.
LEMMA SendEffect ==
  ASSUME TypeOK, NEW raw \in Vars \cup {Unset}, NEW policy \in Policies, Send(raw, policy)
  PROVE  \E q \in Request :
           /\ q.key = Key(raw) /\ q.promise # "forgotten"
           /\ q.changed = (q.vars # doc.last) /\ q.aborted = Dropped(raw)
           /\ Overlapping \/ Idle
           /\ Len(requests) + 1 \in 1 .. MaxSends
           /\ requests' \in Seq(Request) /\ Len(requests') = Len(requests) + 1
           /\ \A i \in DOMAIN requests :
                /\ Alike(requests'[i], requests[i])
                /\ requests'[i].aborted => requests[i].aborted \/ i \in Canceled(raw)
           /\ requests'[Len(requests) + 1] \in {q, Over(q)}
           /\ registry' \in {registry, [registry EXCEPT ![Key(raw)] = Len(requests) + 1]}
           /\ doc' = AfterSend(Len(requests) + 1, q, policy)
           /\ UNCHANGED <<artifact, cache, server>>
<1> DEFINE r == Len(requests) + 1
           v == Merged(raw)
           q == [key |-> Key(raw), vars |-> v, changed |-> v # doc.last,
                 net |-> IF Dropped(raw) \/ StopsAtCache(policy, v) THEN "over" ELSE "waiting",
                 version |-> 0,
                 promise |-> IF Dropped(raw) \/ UsesCache(policy, v) \/ policy = "CacheOnly"
                               THEN "settled" ELSE "open",
                 aborted |-> Dropped(raw)]
           earlier == [i \in DOMAIN requests |->
                         [requests[i] EXCEPT !.aborted = @ \/ i \in Canceled(raw)]]
<1>1. /\ Len(requests) < MaxSends /\ (Overlapping \/ Idle) /\ v # None
      /\ requests' = Append(earlier, IF q.net = "over" THEN Over(q) ELSE q)
      /\ registry' \in {registry, [registry EXCEPT ![Key(raw)] = r]}
      /\ doc' = AfterSend(r, q, policy)
      /\ UNCHANGED <<artifact, cache, server>>
  BY DEF Send
<1>2. v \in Vars
  BY <1>1 DEF Merged, TypeOK, Doc
<1>3. q \in Request
  <2>1. Key(raw) \in Keys /\ Dropped(raw) \in BOOLEAN
    BY DEF Key, Keys, Dropped
  <2>2. 0 \in 0 .. MaxVersion
    BY Bounds
  <2> HIDE DEF v
  <2> QED  BY <1>2, <2>1, <2>2 DEF Request
<1>4. /\ q.key = Key(raw) /\ q.promise # "forgotten"
      /\ q.changed = (q.vars # doc.last) /\ q.aborted = Dropped(raw)
  BY Zenon
<1>5. earlier \in Seq(Request) /\ Len(earlier) = Len(requests)
  <2>1. \A i \in 1 .. Len(requests) : requests[i] \in Request
    BY DEF TypeOK
  <2>2. ASSUME NEW x \in Request, NEW b \in BOOLEAN
        PROVE  [x EXCEPT !.aborted = b] \in Request
    BY DEF Request
  <2>3. ASSUME NEW i \in 1 .. Len(requests)
        PROVE  earlier[i] \in Request
    <3> DEFINE b == requests[i].aborted \/ i \in Canceled(raw)
    <3>1. b \in BOOLEAN
      OBVIOUS
    <3>2. earlier[i] = [requests[i] EXCEPT !.aborted = b]
      BY <2>1 DEF TypeOK
    <3> HIDE DEF b
    <3> QED  BY <2>1, <2>2, <3>1, <3>2
  <2>4. DOMAIN earlier = 1 .. Len(requests) /\ Len(requests) \in Nat
    BY DEF TypeOK
  <2>5. earlier = [i \in 1 .. Len(requests) |-> earlier[i]]
    BY <2>4
  <2> HIDE DEF earlier
  <2> QED  BY <2>3, <2>4, <2>5
<1>6. r \in 1 .. MaxSends
  BY <1>1, Bounds DEF TypeOK
<1>7. ASSUME NEW i \in DOMAIN requests
      PROVE  /\ Alike(earlier[i], requests[i])
             /\ earlier[i].aborted => requests[i].aborted \/ i \in Canceled(raw)
  <2>1. requests[i] \in Request
    BY DEF TypeOK
  <2> DEFINE b == requests[i].aborted \/ i \in Canceled(raw)
  <2>2. earlier[i] = [requests[i] EXCEPT !.aborted = b]
    OBVIOUS
  <2>3. earlier[i].aborted => b
    <3> HIDE DEF b
    <3> QED  BY <2>1, <2>2 DEF Request
  <2>4. Alike(earlier[i], requests[i])
    <3> HIDE DEF b
    <3> QED  BY <2>1, <2>2 DEF Request, Alike
  <2> QED  BY <2>3, <2>4
<1>8. PICK last \in {q, Over(q)} : requests' = Append(earlier, last)
  BY <1>1
<1>9. last \in Request
  BY <1>3, <1>8, OverType
<1> HIDE DEF q, earlier
<1>10. /\ requests' \in Seq(Request) /\ Len(requests') = Len(requests) + 1
       /\ requests'[Len(requests) + 1] = last
       /\ \A i \in DOMAIN requests : requests'[i] = earlier[i]
  BY <1>5, <1>8, <1>9 DEF TypeOK
<1> QED  BY <1>1, <1>3, <1>4, <1>6, <1>7, <1>8, <1>10

-----------------------------------------------------------------------------
(* Types, and the registry                                                  *)

\* Whoever is in the registry registered itself with that key and has not
\* returned.
Registered ==
  \A k \in Keys : registry[k] # Nothing =>
    /\ requests[registry[k]].key = k
    /\ requests[registry[k]].promise # "forgotten"

\* What a call of send leaves in the store is a store.
LEMMA SendDoc ==
  ASSUME TypeOK, NEW r \in 0 .. MaxSends, NEW q \in Request, NEW policy \in Policies
  PROVE  /\ AfterSend(r, q, policy) \in Doc
         /\ AfterSend(r, q, policy).spec \in {doc.spec, r}
<1>1. doc \in Doc /\ doc.data \in Data /\ q.vars \in Vars
  BY DEF TypeOK, Doc, Data, Request
<1>2. [doc EXCEPT !.fetching = TRUE] \in Doc
      /\ [doc EXCEPT !.fetching = TRUE].spec = doc.spec
  BY <1>1 DEF Doc
<1>3. ASSUME NEW data \in Data
      PROVE  End(doc, r, q, data) \in Doc /\ End(doc, r, q, data).spec \in {doc.spec, r}
  <2>1. q.changed \in BOOLEAN
    BY DEF Request
  <2> QED  BY <1>1, <2>1, EndEffect
<1>4. cache[q.vars].version \in Versions => <<q.vars, cache[q.vars].version>> \in Data
  BY <1>1 DEF Data
<1> QED  BY <1>1, <1>2, <1>3, <1>4, AfterSendEffect

\* A write leaves every cached value a value.
LEMMA CachedType ==
  ASSUME TypeOK, NEW v \in Vars, NEW n \in Versions
  PROVE  /\ Cached(v, n) \in [Vars -> [version : 0 .. MaxVersion, stale : BOOLEAN]]
         /\ Cached(v, n)[v].version = n
         /\ \A u \in Vars : u # v => Cached(v, n)[u] = cache[u]
<1>1. n \in 0 .. MaxVersion
  BY Bounds DEF Versions
<1> QED  BY <1>1 DEF Cached, TypeOK

\* The first state has no requests, and nothing registered.
LEMMA InitTyped == Init => TypeOK /\ Registered
<1> SUFFICES ASSUME Init PROVE TypeOK /\ Registered
  OBVIOUS
<1>1. requests \in Seq(Request) /\ Len(requests) = 0
  BY DEF Init
<1>2. registry \in [Keys -> 0 .. Len(requests)]
  BY <1>1 DEF Init, Nothing
<1>3. doc \in Doc /\ doc.spec = 0
  BY Bounds DEF Init, Doc, Nothing
<1>4. cache \in [Vars -> [version : 0 .. MaxVersion, stale : BOOLEAN]] /\ server \in Versions
  BY Bounds DEF Init, Versions
<1>5. artifact \in Artifacts /\ Registered
  BY DEF Init, Registered, Nothing
<1> QED  BY <1>1, <1>2, <1>3, <1>4, <1>5, Bounds DEF TypeOK

\* A call of send keeps both.
LEMMA SendTyped ==
  ASSUME TypeOK, Registered,
         NEW raw \in Vars \cup {Unset}, NEW policy \in Policies, Send(raw, policy)
  PROVE  TypeOK' /\ Registered'
<1> DEFINE r == Len(requests) + 1
<1>1. PICK q \in Request :
        /\ q.key = Key(raw) /\ q.promise # "forgotten"
        /\ r \in 1 .. MaxSends
        /\ requests' \in Seq(Request) /\ Len(requests') = r
        /\ \A i \in DOMAIN requests : Alike(requests'[i], requests[i])
        /\ requests'[r] \in {q, Over(q)}
        /\ registry' \in {registry, [registry EXCEPT ![Key(raw)] = r]}
        /\ doc' = AfterSend(r, q, policy)
        /\ UNCHANGED <<artifact, cache, server>>
  BY SendEffect
<1>2. requests'[r].key = Key(raw) /\ requests'[r].promise # "forgotten"
  BY <1>1, OverType
<1>3. Len(requests) \in Nat /\ r \in 0 .. MaxSends /\ r > Len(requests)
  BY <1>1 DEF TypeOK
<1>4. doc' \in Doc /\ doc'.spec \in {doc.spec, r}
  BY <1>1, <1>3, SendDoc
<1>5. doc'.spec <= r
  BY <1>3, <1>4 DEF TypeOK, Doc
<1>6. registry' \in [Keys -> 0 .. r]
  BY <1>1, <1>3 DEF TypeOK
<1>7. TypeOK'
  BY <1>1, <1>3, <1>4, <1>5, <1>6 DEF TypeOK
<1>8. ASSUME NEW k \in Keys, registry'[k] # Nothing
      PROVE  requests'[registry'[k]].key = k /\ requests'[registry'[k]].promise # "forgotten"
  <2>1. CASE registry'[k] = registry[k]
    <3>1. registry[k] \in DOMAIN requests
      BY <1>8, <2>1 DEF TypeOK, Nothing
    <3> QED  BY <1>1, <1>8, <2>1, <3>1 DEF Registered, Alike
  <2>2. CASE registry'[k] # registry[k]
    <3>1. k = Key(raw) /\ registry'[k] = r
      BY <1>1, <2>2 DEF TypeOK
    <3> QED  BY <1>2, <3>1
  <2> QED  BY <2>1, <2>2
<1> QED  BY <1>7, <1>8 DEF Registered

\* So does a request's turn: the finally block removes its own entry, if any.
LEMMA AnswerTyped ==
  ASSUME TypeOK, Registered, NEW r \in DOMAIN requests, Answer(r) \/ Abort(r)
  PROVE  TypeOK' /\ Registered'
<1>1. PICK q \in Request :
        /\ Turn(r, q)
        /\ \/ registry' = registry /\ (requests[r].promise # "forgotten" => q.promise # "forgotten")
           \/ registry' = [registry EXCEPT ![requests[r].key] = Nothing]
  BY AnswerIsTurn
<1>2. /\ requests' \in Seq(Request) /\ Len(requests') = Len(requests)
      /\ requests'[r] = q
      /\ \A i \in DOMAIN requests : i # r => requests'[i] = requests[i]
  BY <1>1, UpdateEffect DEF Turn, TypeOK
<1>3. requests[r] \in Request /\ r \in 0 .. MaxSends
  BY Bounds DEF TypeOK
<1>4. /\ doc' \in Doc /\ doc'.spec \in {doc.spec, r}
      /\ cache' \in [Vars -> [version : 0 .. MaxVersion, stale : BOOLEAN]]
  <2> DEFINE old == requests[r]
  <2>1. old.vars \in Vars /\ old.changed \in BOOLEAN
    BY <1>3 DEF Request
  <2>2. doc \in Doc /\ None \in Data
    BY DEF TypeOK, Data
  <2>3. CASE UNCHANGED <<doc, cache>>
    BY <2>2, <2>3 DEF TypeOK
  <2>4. CASE /\ old.version \in Versions
             /\ cache' = Cached(old.vars, old.version)
             /\ doc' = End(Told(doc, old.vars, old.version, FALSE), r, old,
                           <<old.vars, old.version>>)
    <3> DEFINE told == Told(doc, old.vars, old.version, FALSE)
    <3>1. told \in Doc /\ told.spec = doc.spec
      <4>1. \A force : Told(doc, old.vars, old.version, force) \in Doc
                       /\ Told(doc, old.vars, old.version, force).spec = doc.spec
        BY <2>1, <2>2, <2>4, ToldEffect
      <4> QED  BY <4>1, Zenon
    <3>2. <<old.vars, old.version>> \in Data
      BY <2>1, <2>4 DEF Data
    <3>3. doc' \in Doc /\ doc'.spec \in {doc.spec, r}
      <4>1. doc' = End(told, r, old, <<old.vars, old.version>>)
        BY <2>4
      <4> HIDE DEF told, old
      <4> QED  BY <1>3, <2>1, <3>1, <3>2, <4>1, EndEffect DEF old
    <3> QED  BY <2>1, <2>4, <3>3, CachedType
  <2>5. CASE doc' = End(doc, r, old, None) /\ cache' = cache
    BY <1>3, <2>1, <2>2, <2>5, EndEffect DEF TypeOK
  <2> QED  BY <2>3, <2>4, <2>5, AnswerStore
<1>5. registry' \in [Keys -> 0 .. Len(requests)]
  BY <1>1 DEF TypeOK, Nothing
<1>6. UNCHANGED <<artifact, server>>
  BY AnswerStore
<1>7. TypeOK'
  BY <1>2, <1>4, <1>5, <1>6 DEF TypeOK, Doc
<1>8. ASSUME NEW k \in Keys, registry'[k] # Nothing
      PROVE  requests'[registry'[k]].key = k /\ requests'[registry'[k]].promise # "forgotten"
  <2>1. registry'[k] = registry[k]
    BY <1>1, <1>8 DEF TypeOK
  <2>2. /\ registry[k] \in DOMAIN requests
        /\ requests[registry[k]].key = k /\ requests[registry[k]].promise # "forgotten"
    BY <1>8, <2>1 DEF TypeOK, Nothing, Registered
  <2>3. CASE registry[k] # r
    BY <1>2, <2>1, <2>2, <2>3
  <2>4. CASE registry[k] = r
    <3>1. registry' = registry
      BY <1>1, <1>8, <2>2, <2>4 DEF TypeOK
    <3>2. q.promise # "forgotten"
      <4>1. CASE registry' = [registry EXCEPT ![requests[r].key] = Nothing]
        BY <1>8, <2>2, <2>4, <4>1 DEF TypeOK
      <4> QED  BY <1>1, <2>2, <2>4, <4>1
    <3> QED  BY <1>1, <1>2, <2>1, <2>2, <2>4, <3>2 DEF Turn
  <2> QED  BY <2>3, <2>4
<1> QED  BY <1>7, <1>8 DEF Registered

\* The rest of the application touches neither the requests nor the registry.
LEMMA OthersTyped ==
  ASSUME TypeOK, Registered,
         Arrive \/ Leave \/ ServerChanges \/ \E v \in Vars : OtherWrite(v) \/ MarkStale(v)
  PROVE  TypeOK' /\ Registered' /\ UNCHANGED <<artifact, requests, registry>>
<1>1. CASE Leave
  <2>1. doc' \in Doc /\ doc'.spec = doc.spec
    BY <1>1 DEF Leave, TypeOK, Doc
  <2> QED  BY <1>1, <2>1 DEF Leave, TypeOK, Registered
<1>2. CASE ServerChanges
  <2>1. server' \in Versions
    BY <1>2, Bounds DEF ServerChanges, TypeOK, Versions
  <2> QED  BY <1>2, <2>1 DEF ServerChanges, TypeOK, Registered
<1>3. ASSUME NEW v \in Vars, OtherWrite(v)
      PROVE  TypeOK' /\ Registered' /\ UNCHANGED <<artifact, requests, registry>>
  <2>1. PICK force \in BOOLEAN : doc' = Told(doc, v, server, force)
    BY <1>3 DEF OtherWrite
  <2>2. doc' \in Doc /\ doc'.spec = doc.spec
    BY <2>1, ToldEffect DEF TypeOK
  <2>3. cache' \in [Vars -> [version : 0 .. MaxVersion, stale : BOOLEAN]]
    BY <1>3, CachedType DEF OtherWrite, TypeOK
  <2> QED  BY <1>3, <2>2, <2>3 DEF OtherWrite, TypeOK, Registered
<1>4. ASSUME NEW v \in Vars, MarkStale(v)
      PROVE  TypeOK' /\ Registered' /\ UNCHANGED <<artifact, requests, registry>>
  <2>1. cache' \in [Vars -> [version : 0 .. MaxVersion, stale : BOOLEAN]]
    BY <1>4 DEF MarkStale, TypeOK
  <2> QED  BY <1>4, <2>1 DEF MarkStale, TypeOK, Registered
<1>5. CASE Arrive
  <2>1. doc' \in Doc /\ doc'.spec = doc.spec
    BY <1>5 DEF Arrive, TypeOK, Doc
  <2> QED  BY <1>5, <2>1 DEF Arrive, TypeOK, Registered
<1> QED  BY <1>1, <1>2, <1>3, <1>4, <1>5

\* Every step keeps the types and the registry.
LEMMA NextTyped ==
  TypeOK /\ Registered /\ [Next]_vars => (TypeOK /\ Registered)'
<1> SUFFICES ASSUME TypeOK, Registered, [Next]_vars
             PROVE  (TypeOK /\ Registered)'
  OBVIOUS
<1>1. CASE \E raw \in Vars \cup {Unset}, policy \in Policies : Send(raw, policy)
  BY <1>1, SendTyped
<1>2. CASE \E r \in DOMAIN requests : Answer(r) \/ Abort(r)
  BY <1>2, AnswerTyped
<1>3. CASE Arrive \/ Leave \/ ServerChanges \/ \E v \in Vars : OtherWrite(v) \/ MarkStale(v)
  BY <1>3, OthersTyped
<1>4. CASE UNCHANGED vars
  BY <1>4 DEF vars, TypeOK, Registered
<1> QED  BY <1>1, <1>2, <1>3, <1>4 DEF Next

\* Types and registry are right in every state.
THEOREM RegistryHolds == Spec => [](TypeOK /\ Registered)
BY InitTyped, NextTyped, PTL DEF Spec

\* Every step keeps the types.
THEOREM TypeCorrect == Spec => []TypeOK
BY RegistryHolds, PTL

\* An entry of inflightRequests never outlives the call of send that made it,
\* whatever is cancelled, aborted or fails: @dedupe drops nothing for good.
THEOREM RegisteredIsPendingHolds == Spec => []RegisteredIsPending
<1>1. TypeOK /\ Registered => RegisteredIsPending
  BY DEF Registered, RegisteredIsPending
<1> QED  BY <1>1, RegistryHolds, PTL

-----------------------------------------------------------------------------
(* One call of send after the other                                         *)

\* Callers wait for each call of send, and no reader leaves before it is over.
Sequential == Overlapping = FALSE /\ Departing = FALSE

OneAtATime == \A i \in DOMAIN requests : InFlight(requests[i]) => i = Len(requests)

\* A store d remembers the variables that it is subscribed to.
Remembers(d) ==
  /\ d.last # None => d.subscribed
  /\ d.subscribed => d.spec # Nothing /\ requests[d.spec].vars = d.last

\* A request that will not subscribe needs no new subscription.
Unchanged(d) ==
  \A i \in DOMAIN requests :
    InFlight(requests[i]) /\ ~requests[i].changed => d.last = requests[i].vars

\* The inductive invariant of SubscribedToLast: without the last part, a reply
\* could leave the store subscribed to the variables of another request.
Linked == Remembers(doc) /\ OneAtATime /\ Unchanged(doc)

\* Where a pipeline ends, the store is subscribed to the variables of its
\* request, by that request or by an earlier one.
LEMMA EndRemembers ==
  ASSUME NEW d \in Doc, Remembers(d), NEW r \in 1 .. MaxSends, NEW q \in Request,
         NEW data \in Data, ~q.changed => d.last = q.vars
  PROVE  LET e == End(d, r, q, data)
         IN  /\ e.last = q.vars /\ e.subscribed /\ e.spec # Nothing
             /\ \/ e.spec = r
                \/ e.spec = d.spec /\ requests[d.spec].vars = q.vars
<1> DEFINE e == End(d, r, q, data)
<1>1. r \in 0 .. MaxSends /\ r # Nothing
  BY Bounds DEF Nothing
<1>2. /\ e.last = q.vars
      /\ q.changed => e.spec = r /\ e.subscribed
      /\ ~q.changed => e.spec = d.spec /\ e.subscribed = d.subscribed
  BY <1>1, EndEffect
<1>3. CASE q.changed
  BY <1>1, <1>2, <1>3
<1>4. CASE ~q.changed
  <2>1. q.vars # None
    BY QueryAssumption DEF Request
  <2>2. d.subscribed /\ d.spec # Nothing /\ requests[d.spec].vars = q.vars
    BY <1>4, <2>1 DEF Remembers
  <2> QED  BY <1>2, <1>4, <2>2
<1> QED  BY <1>3, <1>4

\* A write to the cache never changes what the store remembers.
LEMMA ToldRemembers ==
  ASSUME TypeOK, Remembers(doc), NEW v \in Vars, NEW n \in Versions, NEW force
  PROVE  /\ Told(doc, v, n, force) \in Doc
         /\ Told(doc, v, n, force).last = doc.last
         /\ Told(doc, v, n, force).spec = doc.spec
         /\ Told(doc, v, n, force).subscribed = doc.subscribed
<1>1. doc \in Doc
  BY DEF TypeOK
<1> QED  BY <1>1, ToldEffect DEF Remembers

\* A call of send keeps all of it.
LEMMA SendLinked ==
  ASSUME Sequential, TypeOK, Linked,
         NEW raw \in Vars \cup {Unset}, NEW policy \in Policies, Send(raw, policy)
  PROVE  Linked'
<1> DEFINE r == Len(requests) + 1
<1>1. PICK q \in Request :
        /\ q.changed = (q.vars # doc.last)
        /\ Idle
        /\ r \in 1 .. MaxSends
        /\ requests' \in Seq(Request) /\ Len(requests') = r
        /\ \A i \in DOMAIN requests : Alike(requests'[i], requests[i])
        /\ requests'[r] \in {q, Over(q)}
        /\ doc' = AfterSend(r, q, policy)
  BY SendEffect DEF Sequential
<1>2. /\ Len(requests) \in Nat /\ doc \in Doc /\ r \in 0 .. MaxSends
      /\ DOMAIN requests = 1 .. Len(requests)
      /\ DOMAIN requests' = 1 .. r /\ DOMAIN requests' = DOMAIN requests \cup {r}
      /\ r \notin DOMAIN requests
      /\ doc.spec # Nothing => doc.spec \in DOMAIN requests
  BY <1>1 DEF TypeOK, Nothing, Doc
<1>3. requests'[r].vars = q.vars /\ (InFlight(requests'[r]) => requests'[r].changed = q.changed)
  BY <1>1, OverType
<1>4. \A i \in DOMAIN requests : ~InFlight(requests'[i])
  BY <1>1 DEF Idle, Quiet, Alike, InFlight
<1>5. OneAtATime'
  BY <1>1, <1>2, <1>4 DEF OneAtATime, InFlight
<1>6. q.vars \in Vars /\ q.vars # None
  BY QueryAssumption DEF Request
<1>7. CASE doc' = doc \/ doc' = [doc EXCEPT !.fetching = TRUE]
  <2>1. doc'.last = doc.last /\ doc'.spec = doc.spec /\ doc'.subscribed = doc.subscribed
    BY <1>2, <1>7 DEF Doc
  <2>2. Remembers(doc)'
    BY <1>1, <1>2, <2>1 DEF Linked, Remembers, Alike
  <2>3. Unchanged(doc)'
    BY <1>1, <1>2, <1>3, <1>4, <2>1 DEF Unchanged, InFlight
  <2> QED  BY <1>5, <2>2, <2>3 DEF Linked
<1>8. ASSUME NEW data \in Data, doc' = End(doc, r, q, data)
      PROVE  Linked'
  <2>1. ~q.changed => doc.last = q.vars
    BY <1>1
  <2>2. /\ doc'.last = q.vars /\ doc'.subscribed /\ doc'.spec # Nothing
        /\ doc'.spec = r \/ (doc'.spec = doc.spec /\ requests[doc.spec].vars = q.vars)
    BY <1>1, <1>2, <1>8, <2>1, EndRemembers DEF Linked
  <2>3. requests'[doc'.spec].vars = q.vars
    <3>1. CASE doc'.spec = r
      BY <1>3, <3>1
    <3>2. CASE doc'.spec = doc.spec /\ requests[doc.spec].vars = q.vars
      BY <1>1, <1>2, <2>2, <3>2 DEF Alike
    <3> QED  BY <2>2, <3>1, <3>2
  <2>4. Remembers(doc)'
    BY <2>2, <2>3 DEF Remembers
  <2>5. Unchanged(doc)'
    BY <1>2, <1>3, <1>4, <2>2 DEF Unchanged, InFlight
  <2> QED  BY <1>5, <2>4, <2>5 DEF Linked
<1>9. doc.data \in Data /\ \A n \in Versions : <<q.vars, n>> \in Data
  BY <1>2, <1>6 DEF Data, Doc
<1> QED  BY <1>1, <1>2, <1>7, <1>8, <1>9, AfterSendEffect

\* So does a request's turn.
LEMMA AnswerLinked ==
  ASSUME TypeOK, Linked, NEW r \in DOMAIN requests, Answer(r) \/ Abort(r)
  PROVE  Linked'
<1> DEFINE old == requests[r]
<1>1. PICK q \in Request : Turn(r, q)
  BY AnswerIsTurn
<1>2. /\ Len(requests') = Len(requests) /\ DOMAIN requests' = DOMAIN requests
      /\ requests'[r] = q
      /\ \A i \in DOMAIN requests : i # r => requests'[i] = requests[i]
      /\ q.vars = old.vars
      /\ InFlight(q) => InFlight(old) /\ q.changed = old.changed
  BY <1>1, UpdateEffect DEF Turn, TypeOK
<1>3. \A i \in DOMAIN requests :
        /\ requests'[i].vars = requests[i].vars
        /\ InFlight(requests'[i]) => /\ InFlight(requests[i])
                                     /\ requests'[i].changed = requests[i].changed
  BY <1>2
<1>4. /\ old \in Request /\ r \in 1 .. MaxSends /\ doc \in Doc
      /\ doc.spec # Nothing => doc.spec \in DOMAIN requests
  BY Bounds DEF TypeOK, Nothing, Doc
<1>5. OneAtATime'
  BY <1>2, <1>3 DEF Linked, OneAtATime
<1>6. CASE doc' = doc
  <2>1. Remembers(doc)'
    BY <1>3, <1>4, <1>6 DEF Linked, Remembers
  <2>2. Unchanged(doc)'
    BY <1>2, <1>3, <1>6 DEF Linked, Unchanged
  <2> QED  BY <1>5, <2>1, <2>2 DEF Linked
<1>7. ASSUME InFlight(old),
             NEW d \in Doc, d.last = doc.last, d.spec = doc.spec, d.subscribed = doc.subscribed,
             NEW data \in Data, doc' = End(d, r, old, data)
      PROVE  Linked'
  <2>1. Remembers(d) /\ (~old.changed => d.last = old.vars)
    BY <1>7 DEF Linked, Remembers, Unchanged
  <2>2. /\ doc'.last = old.vars /\ doc'.subscribed /\ doc'.spec # Nothing
        /\ doc'.spec = r \/ (doc'.spec = d.spec /\ requests[d.spec].vars = old.vars)
    <3> HIDE DEF old
    <3> QED  BY <1>4, <1>7, <2>1, EndRemembers
  <2>3. requests'[doc'.spec].vars = old.vars
    BY <1>3, <1>4, <1>7, <2>2
  <2>4. Remembers(doc)'
    BY <2>2, <2>3 DEF Remembers
  <2>5. \A i \in DOMAIN requests : InFlight(requests[i]) => i = r
    BY <1>7 DEF Linked, OneAtATime
  <2>6. Unchanged(doc)'
    BY <1>2, <1>3, <2>2, <2>5 DEF Unchanged
  <2> QED  BY <1>5, <2>4, <2>6 DEF Linked
<1>8. CASE /\ InFlight(old) /\ old.version \in Versions
           /\ doc' = End(Told(doc, old.vars, old.version, FALSE), r, old,
                         <<old.vars, old.version>>)
  <2>1. old.vars \in Vars
    BY <1>4 DEF Request
  <2>2. <<old.vars, old.version>> \in Data
    BY <1>8, <2>1 DEF Data
  <2>3. \A force : /\ Told(doc, old.vars, old.version, force) \in Doc
                   /\ Told(doc, old.vars, old.version, force).last = doc.last
                   /\ Told(doc, old.vars, old.version, force).spec = doc.spec
                   /\ Told(doc, old.vars, old.version, force).subscribed = doc.subscribed
    BY <1>8, <2>1, ToldRemembers DEF Linked
  <2> DEFINE told == Told(doc, old.vars, old.version, FALSE)
  <2>4. /\ told \in Doc /\ told.last = doc.last
        /\ told.spec = doc.spec /\ told.subscribed = doc.subscribed
    BY <2>3, Zenon
  <2>5. doc' = End(told, r, old, <<old.vars, old.version>>)
    BY <1>8
  <2> HIDE DEF told
  <2> QED  BY <1>7, <1>8, <2>2, <2>4, <2>5
<1>9. CASE InFlight(old) /\ doc' = End(doc, r, old, None)
  <2>1. None \in Data
    BY DEF Data
  <2> QED  BY <1>4, <1>7, <1>9, <2>1
<1> QED  BY <1>6, <1>8, <1>9, AnswerStore

\* So does the rest of the application, as long as nobody leaves too early.
LEMMA OthersLinked ==
  ASSUME Sequential, TypeOK, Linked, UNCHANGED <<artifact, requests, registry>>,
         Arrive \/ Leave \/ ServerChanges \/ \E v \in Vars : OtherWrite(v) \/ MarkStale(v)
  PROVE  Linked'
<1>1. doc \in Doc
  BY DEF TypeOK
<1>2. OneAtATime'
  BY DEF Linked, OneAtATime
<1>3. CASE Leave
  <2>1. doc'.last = None /\ ~doc'.subscribed /\ Quiet
    BY <1>1, <1>3 DEF Leave, Doc, Sequential
  <2> QED  BY <1>2, <2>1 DEF Linked, Remembers, Unchanged, Quiet
<1>4. CASE doc' = doc
  BY <1>2, <1>4 DEF Linked, Remembers, Unchanged
<1>5. ASSUME NEW v \in Vars, OtherWrite(v) PROVE Linked'
  <2>1. PICK force \in BOOLEAN : doc' = Told(doc, v, server, force)
    BY <1>5 DEF OtherWrite
  <2>2. doc'.last = doc.last /\ doc'.spec = doc.spec /\ doc'.subscribed = doc.subscribed
    BY <2>1, ToldRemembers DEF Linked, TypeOK
  <2> QED  BY <1>2, <2>2 DEF Linked, Remembers, Unchanged
<1>6. CASE Arrive
  <2>1. doc'.last = doc.last /\ doc'.spec = doc.spec /\ doc'.subscribed = doc.subscribed
    BY <1>1, <1>6 DEF Arrive, Doc
  <2> QED  BY <1>2, <2>1 DEF Linked, Remembers, Unchanged
<1> QED  BY <1>3, <1>4, <1>5, <1>6 DEF ServerChanges, MarkStale

\* Every step keeps the link between what is remembered and what is subscribed.
LEMMA NextLinked ==
  ASSUME Sequential, TypeOK, Registered, Linked, [Next]_vars
  PROVE  Linked'
<1>1. CASE \E raw \in Vars \cup {Unset}, policy \in Policies : Send(raw, policy)
  BY <1>1, SendLinked
<1>2. CASE \E r \in DOMAIN requests : Answer(r) \/ Abort(r)
  BY <1>2, AnswerLinked
<1>3. CASE Arrive \/ Leave \/ ServerChanges \/ \E v \in Vars : OtherWrite(v) \/ MarkStale(v)
  BY <1>3, OthersTyped, OthersLinked
<1>4. CASE UNCHANGED vars
  BY <1>4 DEF vars, Linked, Remembers, OneAtATime, Unchanged
<1> QED  BY <1>1, <1>2, <1>3, <1>4 DEF Next

\* Where callers wait for each other and for their answers, a document that
\* remembers variables is subscribed to them, however requests fail or are
\* aborted, readers leave and come back, and others write.
THEOREM SubscribedToLastHolds ==
  ASSUME Sequential
  PROVE  Spec => []SubscribedToLast
<1>1. Init => Linked
  BY DEF Init, Linked, Remembers, OneAtATime, Unchanged
<1>2. (TypeOK /\ Registered) /\ Linked /\ [Next]_vars => Linked'
  BY NextLinked
<1>3. Linked => SubscribedToLast
  BY DEF Linked, Remembers, SubscribedToLast
<1> QED  BY <1>1, <1>2, <1>3, RegistryHolds, PTL DEF Spec

-----------------------------------------------------------------------------
(* The same, without failures                                               *)

Undisturbed == Sequential /\ Faulty = FALSE

Unaborted == \A i \in DOMAIN requests : ~requests[i].aborted

\* The inductive invariant of ShowsLatest: it needs Linked, for a write that
\* reaches the cache must reach the store, and Unaborted, for an aborted
\* request's subscription is deaf.
Fresh ==
  doc.last # None =>
    /\ doc.vars = doc.last
    /\ doc.data # None /\ Hit(doc.vars) => doc.data = <<doc.vars, cache[doc.vars].version>>

\* A call of send that finds no other at work is neither dropped nor drops any.
LEMMA IdleKeepsAll ==
  ASSUME TypeOK, Registered, Idle, NEW raw \in Vars \cup {Unset}
  PROVE  ~Dropped(raw) /\ Canceled(raw) = {}
<1>1. Key(raw) \in Keys
  BY DEF Key, Keys
<1>2. registry[Key(raw)] = Nothing
  <2>1. registry[Key(raw)] # Nothing => registry[Key(raw)] \in DOMAIN requests
    BY <1>1 DEF TypeOK, Nothing
  <2> QED  BY <1>1, <2>1 DEF Registered, Idle
<1>3. Existing(raw) = Nothing
  BY <1>2 DEF Existing
<1> QED  BY <1>3 DEF Dropped, Canceled

\* A call of send shows what the cache has, or what it showed before.
LEMMA SendFresh ==
  ASSUME Undisturbed, TypeOK, Registered, Fresh, Unaborted,
         NEW raw \in Vars \cup {Unset}, NEW policy \in Policies, Send(raw, policy)
  PROVE  Fresh' /\ Unaborted'
<1> DEFINE r == Len(requests) + 1
<1>1. PICK q \in Request :
        /\ Idle /\ q.aborted = Dropped(raw)
        /\ r \in 1 .. MaxSends
        /\ requests' \in Seq(Request) /\ Len(requests') = r
        /\ \A i \in DOMAIN requests :
             requests'[i].aborted => requests[i].aborted \/ i \in Canceled(raw)
        /\ requests'[r] \in {q, Over(q)}
        /\ doc' = AfterSend(r, q, policy)
        /\ cache' = cache
  BY SendEffect DEF Undisturbed, Sequential
<1>2. /\ doc \in Doc /\ doc.data \in Data /\ r \in 0 .. MaxSends /\ q.vars \in Vars
      /\ DOMAIN requests' = DOMAIN requests \cup {r}
  <2>1. doc \in Doc /\ doc.data \in Data
    BY DEF TypeOK, Doc, Data
  <2>2. q.vars \in Vars
    BY DEF Request
  <2> QED  BY <1>1, <2>1, <2>2 DEF TypeOK
<1>3. Unaborted'
  <2>1. requests'[r].aborted = q.aborted
    BY <1>1, OverType
  <2> QED  BY <1>1, <1>2, <2>1, IdleKeepsAll DEF Unaborted
<1>4. CASE doc' = doc \/ doc' = [doc EXCEPT !.fetching = TRUE]
  <2>1. doc'.last = doc.last /\ doc'.vars = doc.vars /\ doc'.data = doc.data
    BY <1>2, <1>4 DEF Doc
  <2> QED  BY <1>1, <1>3, <2>1 DEF Fresh, Hit
<1>5. ASSUME NEW data \in Data, doc' = End(doc, r, q, data),
             Hit(q.vars) => data = <<q.vars, cache[q.vars].version>>
      PROVE  Fresh'
  <2>1. doc'.vars = q.vars /\ doc'.data = data /\ doc'.last = q.vars
    BY <1>2, <1>5, EndEffect
  <2> QED  BY <1>1, <1>5, <2>1 DEF Fresh, Hit
<1>6. CASE /\ cache[q.vars].version \in Versions
           /\ doc' = End(doc, r, q, <<q.vars, cache[q.vars].version>>)
  <2>1. <<q.vars, cache[q.vars].version>> \in Data
    BY <1>2, <1>6 DEF Data
  <2> QED  BY <1>3, <1>5, <1>6, <2>1
<1>7. CASE cache[q.vars].version = 0 /\ doc' = End(doc, r, q, doc.data)
  <2>1. ~Hit(q.vars)
    BY <1>7 DEF Hit
  <2> QED  BY <1>2, <1>3, <1>5, <1>7, <2>1
<1> QED  BY <1>1, <1>2, <1>4, <1>6, <1>7, <1>3, AfterSendEffect

\* A reply is written to the cache and shown.
LEMMA AnswerFresh ==
  ASSUME Undisturbed, TypeOK, Fresh, Unaborted,
         NEW r \in DOMAIN requests, Answer(r) \/ Abort(r)
  PROVE  Fresh' /\ Unaborted'
<1> DEFINE old == requests[r]
<1>1. PICK q \in Request : Turn(r, q)
  BY AnswerIsTurn
<1>2. Unaborted'
  <2>1. /\ DOMAIN requests' = DOMAIN requests /\ requests'[r] = q
        /\ \A i \in DOMAIN requests : i # r => requests'[i] = requests[i]
    BY <1>1, UpdateEffect DEF Turn, TypeOK
  <2>2. ~q.aborted
    BY <1>1 DEF Turn, Unaborted, Undisturbed
  <2> QED  BY <2>1, <2>2 DEF Unaborted
<1>3. /\ old \in Request /\ r \in 0 .. MaxSends /\ doc \in Doc
      /\ old.vars \in Vars
  <2>1. old \in Request /\ r \in 0 .. MaxSends /\ doc \in Doc
    BY Bounds DEF TypeOK
  <2> HIDE DEF old
  <2> QED  BY <2>1 DEF Request
<1>4. CASE UNCHANGED <<doc, cache>>
  BY <1>2, <1>4 DEF Fresh, Hit
<1>5. CASE /\ old.version \in Versions
           /\ cache' = Cached(old.vars, old.version)
           /\ doc' = End(Told(doc, old.vars, old.version, FALSE), r, old,
                         <<old.vars, old.version>>)
  <2>1. \A force : Told(doc, old.vars, old.version, force) \in Doc
    BY <1>3, <1>5, ToldEffect
  <2> DEFINE told == Told(doc, old.vars, old.version, FALSE)
  <2>2. told \in Doc
    BY <2>1, Zenon
  <2>3. doc' = End(told, r, old, <<old.vars, old.version>>)
    BY <1>5
  <2>4. <<old.vars, old.version>> \in Data
    BY <1>3, <1>5 DEF Data
  <2>5. doc'.vars = old.vars /\ doc'.data = <<old.vars, old.version>>
    <3> HIDE DEF told, old
    <3> QED  BY <1>3, <2>2, <2>3, <2>4, EndEffect
  <2>6. doc'.last = old.vars
    <3> HIDE DEF told, old
    <3> QED  BY <1>3, <2>2, <2>3, <2>4, EndEffect
  <2>7. cache'[old.vars].version = old.version
    BY <1>3, <1>5, CachedType
  <2> QED  BY <1>2, <2>5, <2>6, <2>7 DEF Fresh
<1>6. CASE doc' = End(doc, r, old, None) /\ cache' = cache
  <2>1. None \in Data
    BY DEF Data
  <2>2. doc'.vars = old.vars /\ doc'.data = None /\ doc'.last = old.vars
    <3> HIDE DEF old
    <3> QED  BY <1>3, <1>6, <2>1, EndEffect
  <2> QED  BY <1>2, <2>2 DEF Fresh
<1> QED  BY <1>4, <1>5, <1>6, AnswerStore

\* A write of what the store shows reaches it, and no other write matters.
LEMMA OthersFresh ==
  ASSUME Undisturbed, TypeOK, Linked, Fresh, Unaborted, UNCHANGED <<artifact, requests, registry>>,
         Arrive \/ Leave \/ ServerChanges \/ \E v \in Vars : OtherWrite(v) \/ MarkStale(v)
  PROVE  Fresh' /\ Unaborted'
<1>1. doc \in Doc
  BY DEF TypeOK
<1>2. Unaborted'
  BY DEF Unaborted
<1>3. CASE Leave
  <2>1. doc'.last = None
    BY <1>1, <1>3 DEF Leave, Doc
  <2> QED  BY <1>2, <2>1 DEF Fresh
<1>4. CASE ServerChanges
  BY <1>2, <1>4 DEF ServerChanges, Fresh, Hit
<1>5. ASSUME NEW v \in Vars, MarkStale(v) PROVE Fresh'
  <2>1. \A u \in Vars : cache'[u].version = cache[u].version
    BY <1>5 DEF MarkStale, TypeOK
  <2>2. doc' = doc /\ (doc.last # None => doc.last \in Vars)
    BY <1>1, <1>5 DEF MarkStale, Doc
  <2> QED  BY <2>1, <2>2 DEF Fresh, Hit
<1>6. ASSUME NEW v \in Vars, OtherWrite(v) PROVE Fresh'
  <2>1. PICK force \in BOOLEAN : doc' = Told(doc, v, server, force)
    BY <1>6 DEF OtherWrite
  <2>2. /\ server \in Versions /\ cache' = Cached(v, server)
        /\ cache'[v].version = server
        /\ \A u \in Vars : u # v => cache'[u] = cache[u]
    BY <1>6, CachedType DEF OtherWrite, TypeOK
  <2>3. CASE doc'.vars = v /\ doc'.data = <<v, server>> /\ doc'.last = v
    BY <2>2, <2>3 DEF Fresh
  <2>4. CASE doc' = doc /\ doc.last # v
    <3>1. doc.last # None => doc.last \in Vars
      BY <1>1 DEF Doc
    <3> QED  BY <2>2, <2>4, <3>1 DEF Fresh, Hit
  <2>5. CASE doc' = doc /\ doc.last = v
    <3>1. v # None
      BY QueryAssumption
    <3>2. /\ doc.subscribed /\ requests[doc.spec].vars = v
          /\ doc.spec \in DOMAIN requests
      BY <1>1, <2>5, <3>1 DEF Linked, Remembers, TypeOK, Doc, Nothing
    <3>3. ~requests[doc.spec].aborted
      BY <3>2 DEF Unaborted
    <3>4. CASE force \/ cache[v].version # server
      <4>1. doc' = [doc EXCEPT !.vars = v, !.data = <<v, server>>,
                               !.fetching = FALSE, !.last = v]
        BY <2>1, <3>2, <3>3, <3>4 DEF Told
      <4>2. doc'.vars = v /\ doc'.data = <<v, server>> /\ doc'.last = v
        BY <1>1, <4>1 DEF Doc
      <4> QED  BY <2>3, <4>2
    <3>5. CASE cache[v].version = server
      BY <2>2, <2>5, <3>5 DEF Fresh, Hit
    <3> QED  BY <3>4, <3>5
  <2> QED  BY <1>1, <2>1, <2>2, <2>3, <2>4, <2>5, ToldEffect
<1>7. CASE Arrive
  <2>1. doc'.last = doc.last /\ doc'.vars = doc.vars /\ doc'.data = doc.data
    BY <1>1, <1>7 DEF Arrive, Doc
  <2>2. cache' = cache
    BY <1>7 DEF Arrive
  <2> QED  BY <1>2, <2>1, <2>2 DEF Fresh, Hit
<1> QED  BY <1>2, <1>3, <1>4, <1>5, <1>6, <1>7

\* Every step keeps the store fresh.
LEMMA NextFresh ==
  ASSUME Undisturbed, TypeOK, Registered, Linked, Fresh, Unaborted, [Next]_vars
  PROVE  (Fresh /\ Unaborted)'
<1>1. CASE \E raw \in Vars \cup {Unset}, policy \in Policies : Send(raw, policy)
  BY <1>1, SendFresh
<1>2. CASE \E r \in DOMAIN requests : Answer(r) \/ Abort(r)
  BY <1>2, AnswerFresh
<1>3. CASE Arrive \/ Leave \/ ServerChanges \/ \E v \in Vars : OtherWrite(v) \/ MarkStale(v)
  BY <1>3, OthersTyped, OthersFresh
<1>4. CASE UNCHANGED vars
  BY <1>4 DEF vars, Fresh, Hit, Unaborted
<1> QED  BY <1>1, <1>2, <1>3, <1>4 DEF Next

\* Where callers wait for each other and for their answers, and no request
\* fails, a document shows what the cache has for its variables, after any
\* number of sends and of writes by others.
THEOREM ShowsLatestHolds ==
  ASSUME Undisturbed
  PROVE  Spec => []ShowsLatest
<1>1. Init => Linked /\ Fresh /\ Unaborted
  BY DEF Init, Linked, Remembers, OneAtATime, Unchanged, Fresh, Unaborted
<1>2. (TypeOK /\ Registered) /\ (Linked /\ Fresh /\ Unaborted) /\ [Next]_vars
        => (Linked /\ Fresh /\ Unaborted)'
  BY NextLinked, NextFresh DEF Undisturbed
<1>3. Linked /\ Fresh /\ Unaborted => ShowsLatest
  BY DEF Fresh, ShowsLatest
<1> QED  BY <1>1, <1>2, <1>3, RegistryHolds, PTL DEF Spec

-----------------------------------------------------------------------------
(* Who loads                                                                *)

\* Nothing that ends a pipeline leaves the store loading, and no write makes it load.
LEMMA LoadingEnds ==
  ASSUME NEW d \in Doc, NEW r \in 0 .. MaxSends, NEW q \in Request, NEW data \in Data
  PROVE  End(d, r, q, data).fetching = FALSE
<1>1. CASE q.changed
  BY <1>1 DEF End, Doc, Data
<1>2. CASE ~q.changed
  BY <1>2 DEF End, Doc, Data
<1> QED  BY <1>1, <1>2

\* A call of send that shows no result of the cache has a request out.
LEMMA SendLoading ==
  ASSUME Undisturbed, TypeOK, Registered, FetchingInFlight,
         NEW raw \in Vars \cup {Unset}, NEW policy \in Policies, Send(raw, policy)
  PROVE  FetchingInFlight'
<1> DEFINE r == Len(requests) + 1
           v == Merged(raw)
           q == [key |-> Key(raw), vars |-> v, changed |-> v # doc.last,
                 net |-> IF Dropped(raw) \/ StopsAtCache(policy, v) THEN "over" ELSE "waiting",
                 version |-> 0,
                 promise |-> IF Dropped(raw) \/ UsesCache(policy, v) \/ policy = "CacheOnly"
                               THEN "settled" ELSE "open",
                 aborted |-> Dropped(raw)]
           earlier == [i \in DOMAIN requests |->
                         [requests[i] EXCEPT !.aborted = @ \/ i \in Canceled(raw)]]
<1>1. /\ Len(requests) < MaxSends /\ Idle /\ v # None
      /\ requests' = Append(earlier, IF q.net = "over" THEN Over(q) ELSE q)
      /\ doc' = AfterSend(r, q, policy)
  BY DEF Send, Undisturbed, Sequential
<1>2. ~Dropped(raw) /\ ~doc.fetching
  BY <1>1, IdleKeepsAll DEF Idle, FetchingInFlight
<1>3. v \in Vars /\ doc \in Doc /\ doc.data \in Data /\ r \in 0 .. MaxSends
  BY <1>1, Bounds DEF Merged, TypeOK, Doc, Data
<1>4. q \in Request
  <2>1. Key(raw) \in Keys /\ Dropped(raw) \in BOOLEAN /\ 0 \in 0 .. MaxVersion
    BY Bounds DEF Key, Keys, Dropped
  <2> HIDE DEF v
  <2> QED  BY <1>3, <2>1 DEF Request
<1>5. ~q.aborted /\ q.vars = v
  BY <1>2
<1>6. cache[v].version \in 0 .. MaxVersion
  BY <1>3 DEF TypeOK
<1>7. CASE UsesCache(policy, v)
  <2>1. doc' = End(doc, r, q, <<v, cache[v].version>>)
    <3> HIDE DEF q
    <3> QED  BY <1>1, <1>5, <1>7 DEF AfterSend
  <2>2. <<v, cache[v].version>> \in Data
    BY <1>3, <1>6, <1>7 DEF Data, UsesCache, Hit, Versions
  <2>3. doc'.fetching = FALSE
    <3> HIDE DEF q, v
    <3> QED  BY <1>3, <1>4, <2>1, <2>2, LoadingEnds
  <2> QED  BY <2>3 DEF FetchingInFlight
<1>8. CASE ~UsesCache(policy, v) /\ policy = "CacheOnly"
  <2>1. doc' = End(doc, r, q, doc.data)
    <3> HIDE DEF q
    <3> QED  BY <1>1, <1>5, <1>8 DEF AfterSend
  <2>2. doc'.fetching = FALSE
    <3> HIDE DEF q, v
    <3> QED  BY <1>3, <1>4, <2>1, LoadingEnds
  <2> QED  BY <2>2 DEF FetchingInFlight
<1>9. CASE ~UsesCache(policy, v) /\ policy # "CacheOnly"
  <2>1. q.net = "waiting"
    BY <1>2, <1>9 DEF StopsAtCache, UsesCache
  <2>2. requests' = Append(earlier, q) /\ Len(earlier) = Len(requests)
    BY <1>1, <2>1 DEF TypeOK
  <2>3. r \in DOMAIN requests' /\ requests'[r] = q
    <3> HIDE DEF q
    <3>1. earlier \in Seq(Request)
      <4>1. ASSUME NEW x \in Request, NEW b \in BOOLEAN
            PROVE  [x EXCEPT !.aborted = b] \in Request
        BY DEF Request
      <4>2. ASSUME NEW i \in 1 .. Len(requests)
            PROVE  earlier[i] \in Request
        <5> DEFINE b == requests[i].aborted \/ i \in Canceled(raw)
        <5>1. requests[i] \in Request /\ b \in BOOLEAN
          BY DEF TypeOK
        <5>2. i \in DOMAIN requests
          BY DEF TypeOK
        <5>3. earlier[i] = [requests[i] EXCEPT !.aborted = b]
          BY <5>1, <5>2
        <5> HIDE DEF b
        <5> QED  BY <4>1, <5>1, <5>3
      <4>3. DOMAIN earlier = 1 .. Len(requests) /\ Len(requests) \in Nat
        BY DEF TypeOK
      <4>4. earlier = [i \in 1 .. Len(requests) |-> earlier[i]]
        BY <4>3
      <4> HIDE DEF earlier
      <4> QED  BY <4>2, <4>3, <4>4
    <3> HIDE DEF earlier
    <3> QED  BY <1>4, <2>2, <3>1 DEF TypeOK
  <2>4. InFlight(requests'[r])
    BY <2>1, <2>3 DEF InFlight
  <2> QED  BY <2>3, <2>4 DEF FetchingInFlight, Quiet
<1> QED  BY <1>7, <1>8, <1>9

\* A reply ends the loading of its store, and nothing else of a request does; where nothing
\* fails, no request is over without one.
LEMMA AnswerLoading ==
  ASSUME Undisturbed, TypeOK, Unaborted, FetchingInFlight,
         NEW r \in DOMAIN requests, Answer(r) \/ Abort(r)
  PROVE  FetchingInFlight'
<1> DEFINE old == requests[r]
<1>1. /\ old \in Request /\ r \in 0 .. MaxSends /\ doc \in Doc
      /\ old.vars \in Vars /\ old.version \in 0 .. MaxVersion
  <2>1. old \in Request /\ r \in 0 .. MaxSends /\ doc \in Doc
    BY Bounds DEF TypeOK
  <2> HIDE DEF old
  <2> QED  BY <2>1 DEF Request
<1>2. ASSUME NEW q \in Request, Update(r, q), InFlight(old) => InFlight(q), doc' = doc
      PROVE  FetchingInFlight'
  <2>1. /\ DOMAIN requests' = DOMAIN requests /\ requests'[r] = q
        /\ \A i \in DOMAIN requests : i # r => requests'[i] = requests[i]
    BY <1>2, UpdateEffect DEF TypeOK
  <2> QED  BY <1>2, <2>1 DEF FetchingInFlight, Quiet
<1>3. CASE Serve(r)
  <2>1. PICK n \in {server} \cup (IF Faulty THEN {0} ELSE {}) :
          Update(r, [old EXCEPT !.net = "served", !.version = n])
    BY <1>3 DEF Serve
  <2>2. n \in 0 .. MaxVersion /\ doc' = doc
    BY <1>3, <2>1, Bounds DEF TypeOK, Versions, Serve
  <2> DEFINE q == [old EXCEPT !.net = "served", !.version = n]
  <2>3. q \in Request /\ InFlight(q) /\ Update(r, q)
    <3> HIDE DEF old
    <3> QED  BY <1>1, <2>1, <2>2 DEF Request, InFlight
  <2> HIDE DEF q
  <2> QED  BY <1>2, <2>2, <2>3
<1>4. CASE Forget(r)
  <2> DEFINE q == [old EXCEPT !.promise = "forgotten"]
  <2>1. Update(r, q) /\ doc' = doc
    BY <1>4 DEF Forget
  <2>2. q \in Request /\ q.net = old.net
    <3> HIDE DEF old
    <3> QED  BY <1>1 DEF Request
  <2> HIDE DEF q
  <2> QED  BY <1>2, <2>1, <2>2 DEF InFlight
<1>5. CASE Deliver(r)
  <2>1. old.version \in Versions
    BY <1>1, <1>5 DEF Deliver, Versions
  <2>2. \A force : Told(doc, old.vars, old.version, force) \in Doc
    BY <1>1, <2>1, ToldEffect
  <2> DEFINE told == Told(doc, old.vars, old.version, FALSE)
  <2>3. told \in Doc
    BY <2>2, Zenon
  <2>4. doc' = End(told, r, old, <<old.vars, old.version>>)
    BY <1>5 DEF Deliver
  <2>5. <<old.vars, old.version>> \in Data
    BY <1>1, <2>1 DEF Data
  <2>6. doc'.fetching = FALSE
    <3> HIDE DEF told, old
    <3> QED  BY <1>1, <2>3, <2>4, <2>5, LoadingEnds
  <2> QED  BY <2>6 DEF FetchingInFlight
<1>6. CASE DeliverErrors(r)
  <2>1. None \in Data /\ doc' = End(doc, r, old, None)
    BY <1>6 DEF Data, DeliverErrors
  <2>2. doc'.fetching = FALSE
    <3> HIDE DEF old
    <3> QED  BY <1>1, <2>1, LoadingEnds
  <2> QED  BY <2>2 DEF FetchingInFlight
<1>7. ~Fail(r) /\ ~Abort(r)
  BY DEF Fail, Abort, Undisturbed, Unaborted
<1> QED  BY <1>3, <1>4, <1>5, <1>6, <1>7 DEF Answer

\* Nobody else makes the store load.
LEMMA OthersLoading ==
  ASSUME TypeOK, FetchingInFlight, UNCHANGED <<artifact, requests, registry>>,
         Arrive \/ Leave \/ ServerChanges \/ \E v \in Vars : OtherWrite(v) \/ MarkStale(v)
  PROVE  FetchingInFlight'
<1>1. doc \in Doc
  BY DEF TypeOK
<1>2. ASSUME doc'.fetching \in {FALSE, doc.fetching} PROVE FetchingInFlight'
  BY <1>2 DEF FetchingInFlight, Quiet
<1>3. CASE Arrive \/ Leave
  <2>1. doc'.fetching = doc.fetching
    BY <1>1, <1>3 DEF Arrive, Leave, Doc
  <2> QED  BY <1>2, <2>1
<1>4. CASE ServerChanges \/ \E v \in Vars : MarkStale(v)
  <2>1. doc' = doc
    BY <1>4 DEF ServerChanges, MarkStale
  <2> QED  BY <1>2, <2>1
<1>5. ASSUME NEW v \in Vars, OtherWrite(v) PROVE FetchingInFlight'
  <2>1. PICK force \in BOOLEAN : doc' = Told(doc, v, server, force)
    BY <1>5 DEF OtherWrite
  <2>2. \/ doc' = doc
        \/ doc' = [doc EXCEPT !.vars = v, !.data = <<v, server>>,
                              !.fetching = FALSE, !.last = v]
    BY <2>1 DEF Told
  <2>3. doc'.fetching \in {FALSE, doc.fetching}
    BY <1>1, <2>2 DEF Doc
  <2> QED  BY <1>2, <2>3
<1> QED  BY <1>3, <1>4, <1>5

\* Where callers wait for each other and no request fails, a document that says it loads has a
\* request out, whatever the policies of its sends and whatever else writes to the cache.
THEOREM FetchingInFlightHolds ==
  ASSUME Undisturbed
  PROVE  Spec => []FetchingInFlight
<1>1. Init => Linked /\ Fresh /\ Unaborted /\ FetchingInFlight
  BY DEF Init, Linked, Remembers, OneAtATime, Unchanged, Fresh, Unaborted, FetchingInFlight
<1>2. (TypeOK /\ Registered) /\ (Linked /\ Fresh /\ Unaborted /\ FetchingInFlight) /\ [Next]_vars
        => (Linked /\ Fresh /\ Unaborted /\ FetchingInFlight)'
  <2> SUFFICES ASSUME TypeOK, Registered, Linked, Fresh, Unaborted, FetchingInFlight, [Next]_vars
               PROVE  (Linked /\ Fresh /\ Unaborted /\ FetchingInFlight)'
    OBVIOUS
  <2>1. (Linked /\ Fresh /\ Unaborted)'
    BY NextLinked, NextFresh DEF Undisturbed
  <2>2. CASE \E raw \in Vars \cup {Unset}, policy \in Policies : Send(raw, policy)
    BY <2>1, <2>2, SendLoading
  <2>3. CASE \E r \in DOMAIN requests : Answer(r) \/ Abort(r)
    BY <2>1, <2>3, AnswerLoading
  <2>4. CASE Arrive \/ Leave \/ ServerChanges \/ \E v \in Vars : OtherWrite(v) \/ MarkStale(v)
    BY <2>1, <2>4, OthersTyped, OthersLoading
  <2>5. CASE UNCHANGED vars
    BY <2>1, <2>5 DEF vars, FetchingInFlight, Quiet
  <2> QED  BY <2>2, <2>3, <2>4, <2>5 DEF Next
<1> QED  BY <1>1, <1>2, RegistryHolds, PTL DEF Spec
=============================================================================
