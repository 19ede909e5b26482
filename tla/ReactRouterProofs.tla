-------------------------- MODULE ReactRouterProofs --------------------------
(***************************************************************************)
(* The caches of the router keep to the session they were filled in, and   *)
(* what a page shows follows from the requests that its entries have sent. *)
(***************************************************************************)
EXTENDS ReactRouter, TLAPS

\* The requests of an entry know the session and the generation they were sent in, those for one
\* store were sent in one session, and those for the store in data_cache in the current one.
Sound(e) ==
  /\ e \in Entry
  /\ e.store \in 0 .. Len(e.stores)
  /\ \A i \in DOMAIN e.sends : /\ e.sends[i].store \in 1 .. Len(e.stores)
                               /\ e.sends[i].session = e.sends[i].generation + 1
  /\ \A i, j \in DOMAIN e.sends :
       e.sends[i].store = e.sends[j].store => e.sends[i].session = e.sends[j].session
  /\ e.store # 0 =>
       /\ e.stores[e.store].session = session
       /\ \A i \in DOMAIN e.sends : e.sends[i].store = e.store => e.sends[i].session = session

\* The urls on their way are urls.
Places == url \in Urls /\ target \in Urls \cup {None}

Inv ==
  /\ Places
  /\ generation \in Nat /\ session = generation + 1
  /\ DOMAIN docs = Documents /\ docs = [d \in Documents |-> docs[d]]
  /\ \A d \in Documents : Sound(docs[d])

-----------------------------------------------------------------------------
(* What happens to one entry.                                              *)

\* The fields of an entry.
LEMMA EntryFields ==
  ASSUME NEW e \in Entry
  PROVE  /\ e.sends \in Seq(Send) /\ e.stores \in Seq(Result \cup {NoResult})
         /\ e.imports \in Seq(Variables) /\ e.artifact \in BOOLEAN /\ e.signal \in BOOLEAN
         /\ e.last \in Variables \cup {None} /\ e.failed \in BOOLEAN /\ e.store \in Nat
         /\ Len(e.stores) \in Nat /\ DOMAIN e.stores = 1 .. Len(e.stores)
         /\ Len(e.sends) \in Nat /\ DOMAIN e.sends = 1 .. Len(e.sends)
         /\ \A i \in DOMAIN e.sends : e.sends[i] \in Send
<1>1. /\ e.sends \in Seq(Send) /\ e.stores \in Seq(Result \cup {NoResult})
      /\ e.imports \in Seq(Variables) /\ e.artifact \in BOOLEAN /\ e.signal \in BOOLEAN
      /\ e.last \in Variables \cup {None} /\ e.failed \in BOOLEAN /\ e.store \in Nat
  BY DEF Entry
<1> QED  BY <1>1

\* An entry whose requests and stores stay as they are stays sound, if it keeps its store or
\* drops it.
LEMMA SoundKept ==
  ASSUME NEW e, Sound(e), NEW r \in Entry, r.sends = e.sends, r.stores = e.stores,
         r.store \in {0, e.store}
  PROVE  Sound(r)
BY DEF Sound

\* A request of the current session for the store in data_cache, or for a new one.
LEMMA SoundSend ==
  ASSUME generation \in Nat, session = generation + 1,
         NEW e, Sound(e), NEW r \in Entry, NEW s \in Send,
         r.store = e.store, r.sends = Append(e.sends, s),
         s.session = session, s.generation = generation,
         \/ r.stores = e.stores /\ e.store # 0 /\ s.store = e.store
         \/ r.stores = Append(e.stores, NoResult) /\ s.store = Len(e.stores) + 1
  PROVE  Sound(r)
<1> DEFINE n == Len(e.sends)
           m == Len(e.stores)
<1>1. e \in Entry
  BY DEF Sound
<1>2. /\ e.sends \in Seq(Send) /\ n \in Nat /\ DOMAIN e.sends = 1 .. n
      /\ e.stores \in Seq(Result \cup {NoResult}) /\ m \in Nat /\ DOMAIN e.stores = 1 .. m
  BY <1>1, EntryFields
<1>3. /\ DOMAIN r.sends = 1 .. n + 1 /\ r.sends[n + 1] = s
      /\ \A i \in 1 .. n : r.sends[i] = e.sends[i]
  BY <1>2
<1>4. /\ Len(r.stores) \in {m, m + 1} /\ s.store \in 1 .. Len(r.stores)
      /\ \A i \in 1 .. m : r.stores[i] = e.stores[i]
  <2>1. CASE r.stores = e.stores /\ e.store # 0 /\ s.store = e.store
    BY <2>1, <1>2 DEF Sound
  <2>2. CASE r.stores = Append(e.stores, NoResult) /\ s.store = Len(e.stores) + 1
    BY <2>2, <1>2
  <2> QED  BY <2>1, <2>2
<1>5. \A i \in 1 .. n : /\ e.sends[i].store \in 1 .. m
                        /\ e.sends[i].session = e.sends[i].generation + 1
                        /\ e.sends[i].store = s.store => e.sends[i].session = session
  BY <1>2 DEF Sound
<1> HIDE DEF n, m
<1>6. \A i \in DOMAIN r.sends : /\ r.sends[i].store \in 1 .. Len(r.stores)
                                /\ r.sends[i].session = r.sends[i].generation + 1
  <2>1. 1 .. m \subseteq 1 .. Len(r.stores)
    BY <1>2, <1>4
  <2>2. ASSUME NEW i \in 1 .. n
        PROVE  /\ r.sends[i].store \in 1 .. Len(r.stores)
               /\ r.sends[i].session = r.sends[i].generation + 1
    BY <2>1, <1>3, <1>5
  <2>3. \A i \in 1 .. n + 1 : i \in 1 .. n \/ i = n + 1
    BY <1>2
  <2> QED  BY <2>2, <2>3, <1>3, <1>4
<1>7. \A i, j \in DOMAIN r.sends :
        r.sends[i].store = r.sends[j].store => r.sends[i].session = r.sends[j].session
  <2>1. \A i, j \in 1 .. n :
          e.sends[i].store = e.sends[j].store => e.sends[i].session = e.sends[j].session
    BY <1>2 DEF Sound
  <2> SUFFICES ASSUME NEW i \in 1 .. n + 1, NEW j \in 1 .. n + 1,
                      r.sends[i].store = r.sends[j].store
               PROVE  r.sends[i].session = r.sends[j].session
    BY <1>3
  <2>2. CASE i \in 1 .. n /\ j \in 1 .. n
    <3>1. r.sends[i] = e.sends[i] /\ r.sends[j] = e.sends[j]
      BY <2>2, <1>3
    <3> QED  BY <2>1, <2>2, <3>1
  <2>3. CASE i = n + 1 /\ j \in 1 .. n
    <3>1. r.sends[i] = s /\ r.sends[j] = e.sends[j]
      BY <2>3, <1>3
    <3> QED  BY <2>3, <3>1, <1>5
  <2>4. CASE i \in 1 .. n /\ j = n + 1
    <3>1. r.sends[i] = e.sends[i] /\ r.sends[j] = s
      BY <2>4, <1>3
    <3> QED  BY <2>4, <3>1, <1>5
  <2>5. CASE i = n + 1 /\ j = n + 1
    BY <2>5
  <2> QED  BY <2>2, <2>3, <2>4, <2>5, <1>2
<1>8. r.store # 0 =>
        /\ r.stores[r.store].session = session
        /\ \A i \in DOMAIN r.sends : r.sends[i].store = r.store => r.sends[i].session = session
  <2> SUFFICES ASSUME e.store # 0
               PROVE  /\ r.stores[e.store].session = session
                      /\ \A i \in 1 .. n + 1 :
                           r.sends[i].store = e.store => r.sends[i].session = session
    BY <1>3
  <2>1. /\ e.store \in 1 .. m /\ e.stores[e.store].session = session
        /\ \A i \in 1 .. n : e.sends[i].store = e.store => e.sends[i].session = session
    BY <1>2 DEF Sound, m
  <2>2. r.stores[e.store].session = session
    BY <2>1, <1>4
  <2>3. ASSUME NEW i \in 1 .. n + 1, r.sends[i].store = e.store
        PROVE  r.sends[i].session = session
    <3>1. CASE i \in 1 .. n
      <4>1. r.sends[i] = e.sends[i]
        BY <3>1, <1>3
      <4> QED  BY <2>1, <2>3, <3>1, <4>1
    <3>2. CASE i = n + 1
      BY <3>2, <1>3
    <3> QED  BY <3>1, <3>2, <1>2
  <2> QED  BY <2>2, <2>3
<1>9. r.store \in 0 .. Len(r.stores)
  BY <1>2, <1>4 DEF Sound, m
<1> QED  BY <1>6, <1>7, <1>8, <1>9 DEF Sound

\* load_query.
LEMMA LoadQuerySound ==
  ASSUME generation \in Nat, session = generation + 1,
         NEW e, Sound(e), NEW v \in Variables
  PROVE  Sound(LoadQuery(e, v))
<1> DEFINE r == LoadQuery(e, v)
           s == [load |-> TRUE, store |-> IF e.store = 0 THEN Len(e.stores) + 1 ELSE e.store,
                 vars |-> v, session |-> session, generation |-> generation]
<1>1. e \in Entry
  BY DEF Sound
<1>2. /\ e.sends \in Seq(Send) /\ e.stores \in Seq(Result \cup {NoResult})
      /\ e.store \in Nat /\ Len(e.stores) \in Nat
  BY <1>1, EntryFields
<1>3. CASE e.signal
  <2>1. r = [e EXCEPT !.last = v]
    BY <1>3 DEF LoadQuery
  <2>2. r \in Entry /\ r.sends = e.sends /\ r.stores = e.stores /\ r.store = e.store
    BY <2>1, <1>1 DEF Entry
  <2> QED  BY <2>2, SoundKept
<1>4. CASE ~e.signal
  <2>1. s \in Send /\ s.session = session /\ s.generation = generation
        /\ s.store = IF e.store = 0 THEN Len(e.stores) + 1 ELSE e.store
    BY <1>2 DEF Send
  <2>2. r = [e EXCEPT !.last = v, !.signal = TRUE, !.sends = Append(e.sends, s),
                      !.stores = IF e.store = 0 THEN Append(e.stores, NoResult) ELSE e.stores]
    BY <1>4 DEF LoadQuery
  <2> HIDE DEF r, s
  <2>3. /\ Append(e.sends, s) \in Seq(Send)
        /\ Append(e.stores, NoResult) \in Seq(Result \cup {NoResult})
    BY <2>1, <1>2
  <2>4. /\ r \in Entry /\ r.store = e.store /\ r.sends = Append(e.sends, s)
        /\ r.stores = IF e.store = 0 THEN Append(e.stores, NoResult) ELSE e.stores
    BY <2>2, <2>3, <1>1, <1>2 DEF Entry
  <2>5. Sound(r)
    BY <2>1, <2>4, SoundSend
  <2> QED  BY <2>5 DEF r
<1> QED  BY <1>3, <1>4

\* loadData, for one document.
LEMMA LoadDocumentSound ==
  ASSUME generation \in Nat, session = generation + 1,
         NEW e, Sound(e), NEW v \in Variables
  PROVE  Sound(LoadDocument(e, v))
<1> DEFINE c == Evicted(e, v)
           asked == IF v \in Range(c.imports) THEN c.imports ELSE Append(c.imports, v)
<1>1. e \in Entry
  BY DEF Sound
<1>2. Sound(c)
  <2>1. CASE e.last # None /\ e.last # v
    <3> DEFINE r == [e EXCEPT !.store = 0, !.signal = FALSE]
    <3>1. c = r
      BY <2>1 DEF Evicted
    <3> HIDE DEF c
    <3>2. r \in Entry /\ r.sends = e.sends /\ r.stores = e.stores /\ r.store = 0
      BY <1>1 DEF Entry
    <3> HIDE DEF r
    <3>3. Sound(r)
      BY <3>2, SoundKept
    <3> QED  BY <3>1, <3>3
  <2>2. CASE ~(e.last # None /\ e.last # v)
    BY <2>2 DEF Evicted
  <2> QED  BY <2>1, <2>2
<1>3. c \in Entry
  BY <1>2 DEF Sound
<1>4. c.artifact \in BOOLEAN /\ c.imports \in Seq(Variables)
  BY <1>3, EntryFields
<1> HIDE DEF c
<1>5. asked \in Seq(Variables)
  BY <1>4
<1> HIDE DEF asked
<1>6. CASE ~c.artifact
  <2>1. LoadDocument(e, v) = [c EXCEPT !.imports = asked, !.failed = FALSE]
    BY <1>6 DEF LoadDocument, c, asked
  <2> DEFINE r == [c EXCEPT !.imports = asked, !.failed = FALSE]
  <2>2. r \in Entry /\ r.sends = c.sends /\ r.stores = c.stores /\ r.store = c.store
    BY <1>3, <1>5 DEF Entry
  <2> HIDE DEF r
  <2>3. Sound(r)
    BY <2>2, <1>2, SoundKept
  <2> QED  BY <2>1, <2>3 DEF r
<1>7. CASE c.artifact /\ c.store = 0
  <2>1. LoadDocument(e, v) = LoadQuery(c, v)
    BY <1>7 DEF LoadDocument, c
  <2> QED  BY <2>1, <1>2, LoadQuerySound
<1>8. CASE c.artifact /\ c.store # 0
  <2>1. LoadDocument(e, v) = c
    BY <1>8 DEF LoadDocument, c
  <2> QED  BY <2>1, <1>2
<1> QED  BY <1>4, <1>6, <1>7, <1>8

\* The revalidation of a committed navigation.
LEMMA RevalidatedSound ==
  ASSUME generation \in Nat, session = generation + 1,
         NEW e, Sound(e), NEW v \in Variables
  PROVE  Sound(Revalidated(e, v))
<1>1. CASE e.store = 0
  BY <1>1 DEF Revalidated
<1>2. CASE e.store # 0
  <2> DEFINE s == [load |-> FALSE, store |-> e.store, vars |-> v, session |-> session,
                   generation |-> generation]
             r == [e EXCEPT !.sends = Append(e.sends, s)]
  <2>1. Revalidated(e, v) = r
    BY <1>2 DEF Revalidated
  <2>2. e \in Entry /\ e.sends \in Seq(Send) /\ e.store \in Nat
    BY EntryFields DEF Sound
  <2>3. s \in Send /\ s.session = session /\ s.generation = generation /\ s.store = e.store
    BY <2>2 DEF Send
  <2> HIDE DEF s
  <2>4. Append(e.sends, s) \in Seq(Send)
    BY <2>2, <2>3
  <2>5. /\ r \in Entry /\ r.store = e.store /\ r.stores = e.stores
        /\ r.sends = Append(e.sends, s)
    BY <2>2, <2>4 DEF Entry
  <2> HIDE DEF r
  <2>6. Sound(r)
    BY <2>3, <2>5, <1>2, SoundSend
  <2> QED  BY <2>1, <2>6
<1> QED  BY <1>1, <1>2

\* What a sequence has without one of its elements.
LEMMA RemoveAtElements ==
  ASSUME NEW S, NEW q \in Seq(S), NEW i \in DOMAIN q
  PROVE  /\ RemoveAt(q, i) \in Seq(S) /\ DOMAIN RemoveAt(q, i) = 1 .. Len(q) - 1
         /\ \A j \in 1 .. Len(q) - 1 : /\ j < i => RemoveAt(q, i)[j] = q[j]
                                       /\ j >= i => RemoveAt(q, i)[j] = q[j + 1]
<1>1. Len(q) \in Nat /\ DOMAIN q = 1 .. Len(q) /\ i \in 1 .. Len(q)
  OBVIOUS
<1> DEFINE a == SubSeq(q, 1, i - 1)
           b == SubSeq(q, i + 1, Len(q))
<1>2. /\ a \in Seq(S) /\ Len(a) = i - 1
      /\ \A j \in 1 .. i - 1 : a[j] = q[j]
  BY <1>1
<1>3. /\ b \in Seq(S) /\ Len(b) = Len(q) - i
      /\ \A j \in 1 .. Len(q) - i : b[j] = q[i + j]
  BY <1>1
<1> HIDE DEF a, b
<1>4. Len(a) + Len(b) = Len(q) - 1 /\ Len(q) - 1 \in Nat
  BY <1>1, <1>2, <1>3
<1>5. a \o b \in Seq(S) /\ Len(a \o b) = Len(q) - 1
  BY <1>2, <1>3, <1>4
<1>6. DOMAIN (a \o b) = 1 .. Len(q) - 1
  BY <1>4, <1>5
<1>7. ASSUME NEW j \in 1 .. Len(q) - 1
      PROVE  /\ j < i => (a \o b)[j] = q[j]
             /\ j >= i => (a \o b)[j] = q[j + 1]
  <2>1. (a \o b)[j] = IF j <= i - 1 THEN a[j] ELSE b[j - (i - 1)]
    BY <1>1, <1>2, <1>3, <1>4
  <2>2. CASE j < i
    <3>1. j <= i - 1 /\ j \in 1 .. i - 1
      BY <2>2, <1>1
    <3> QED  BY <3>1, <2>1, <2>2, <1>1, <1>2
  <2>3. CASE j >= i
    <3>1. ~(j <= i - 1) /\ j - (i - 1) \in 1 .. Len(q) - i /\ i + (j - (i - 1)) = j + 1
      BY <2>3, <1>1
    <3>2. b[j - (i - 1)] = q[j + 1]
      BY <3>1, <1>3
    <3> QED  BY <3>1, <3>2, <2>1, <2>3, <1>1
  <2> QED  BY <2>2, <2>3, <1>1
<1> QED  BY <1>5, <1>6, <1>7 DEF RemoveAt, a, b

\* All of them were there before.
LEMMA RemoveAtEffect ==
  ASSUME NEW S, NEW q \in Seq(S), NEW i \in DOMAIN q
  PROVE  /\ RemoveAt(q, i) \in Seq(S)
         /\ \A j \in DOMAIN RemoveAt(q, i) : \E k \in DOMAIN q : RemoveAt(q, i)[j] = q[k]
<1>1. /\ RemoveAt(q, i) \in Seq(S) /\ DOMAIN RemoveAt(q, i) = 1 .. Len(q) - 1
      /\ \A j \in 1 .. Len(q) - 1 : /\ j < i => RemoveAt(q, i)[j] = q[j]
                                    /\ j >= i => RemoveAt(q, i)[j] = q[j + 1]
  BY RemoveAtElements
<1>2. \A j \in 1 .. Len(q) - 1 : j \in DOMAIN q /\ j + 1 \in DOMAIN q /\ (j < i \/ j >= i)
  OBVIOUS
<1> QED  BY <1>1, <1>2

\* An answer.  If it is installed, it was asked for in the current generation, hence session.
LEMMA AnswerSound ==
  ASSUME generation \in Nat, session = generation + 1,
         NEW e, Sound(e), NEW i \in DOMAIN e.sends
  PROVE  Sound(Arrived([e EXCEPT !.sends = RemoveAt(e.sends, i),
                                 !.stores = [e.stores EXCEPT ![e.sends[i].store] =
                                   [vars |-> e.sends[i].vars, session |-> e.sends[i].session]]],
                       e.sends[i]))
<1> DEFINE s == e.sends[i]
           out == RemoveAt(e.sends, i)
           res == [vars |-> s.vars, session |-> s.session]
           got == [e.stores EXCEPT ![s.store] = res]
           x == [e EXCEPT !.sends = out, !.stores = got]
           r == Arrived(x, s)
<1>1. /\ e \in Entry /\ e.sends \in Seq(Send) /\ e.stores \in Seq(Result \cup {NoResult})
      /\ s \in Send /\ e.store \in Nat /\ Len(e.stores) \in Nat
      /\ DOMAIN e.stores = 1 .. Len(e.stores)
  BY EntryFields DEF Sound
<1>2. /\ s.load \in BOOLEAN /\ s.store \in Nat /\ s.vars \in Variables /\ s.session \in Nat
      /\ s.generation \in Nat
  BY <1>1 DEF Send
<1>3. res \in Result /\ res.session = s.session
  BY <1>2 DEF Result
<1>4. s.store \in 1 .. Len(e.stores) /\ s.session = s.generation + 1
  BY DEF Sound
<1>5. /\ \A j \in DOMAIN e.sends : /\ e.sends[j].store \in 1 .. Len(e.stores)
                                   /\ e.sends[j].session = e.sends[j].generation + 1
                                   /\ e.sends[j].store = s.store => e.sends[j].session = s.session
      /\ \A j, k \in DOMAIN e.sends :
           e.sends[j].store = e.sends[k].store => e.sends[j].session = e.sends[k].session
      /\ e.store \in 0 .. Len(e.stores)
      /\ e.store # 0 =>
           /\ e.stores[e.store].session = session
           /\ \A j \in DOMAIN e.sends : e.sends[j].store = e.store => e.sends[j].session = session
  BY DEF Sound
<1>6. /\ out \in Seq(Send)
      /\ \A j \in DOMAIN out : \E k \in DOMAIN e.sends : out[j] = e.sends[k]
  BY <1>1, RemoveAtEffect
<1> HIDE DEF s, res, out
<1>7. /\ got \in Seq(Result \cup {NoResult}) /\ Len(got) = Len(e.stores)
      /\ got[s.store] = res
      /\ \A j \in 1 .. Len(e.stores) : j # s.store => got[j] = e.stores[j]
  BY <1>1, <1>3, <1>4
<1> HIDE DEF got
<1>8. x \in Entry /\ x.sends = out /\ x.stores = got /\ x.store = e.store
  BY <1>1, <1>6, <1>7 DEF Entry
<1> HIDE DEF x
<1>9. /\ r \in Entry /\ r.sends = out /\ r.stores = got
      /\ r.store = IF s.load /\ s.generation = generation THEN s.store ELSE e.store
  BY <1>2, <1>8 DEF Arrived, Entry
<1> HIDE DEF r
<1>10. r.store # 0 =>
         /\ got[r.store].session = session
         /\ \A j \in DOMAIN e.sends : e.sends[j].store = r.store => e.sends[j].session = session
  <2>1. CASE r.store = s.store
    <3>1. s.session = session
      <4>1. CASE s.load /\ s.generation = generation
        BY <4>1, <1>4
      <4>2. CASE ~(s.load /\ s.generation = generation)
        <5>1. e.store = s.store /\ e.store # 0
          BY <4>2, <2>1, <1>4, <1>9
        <5> QED  BY <5>1, <1>5 DEF s
      <4> QED  BY <4>1, <4>2
    <3> QED  BY <3>1, <2>1, <1>3, <1>5, <1>7
  <2>2. CASE r.store # s.store
    <3>1. r.store = e.store
      BY <2>2, <1>9
    <3> QED  BY <3>1, <2>2, <1>5, <1>7
  <2> QED  BY <2>1, <2>2
<1>11. /\ r.store \in 0 .. Len(got)
       /\ \A j \in DOMAIN out : /\ out[j].store \in 1 .. Len(got)
                                /\ out[j].session = out[j].generation + 1
       /\ \A j, k \in DOMAIN out : out[j].store = out[k].store => out[j].session = out[k].session
       /\ r.store # 0 => \A j \in DOMAIN out : out[j].store = r.store => out[j].session = session
  <2>1. r.store \in 0 .. Len(got)
    BY <1>4, <1>5, <1>7, <1>9
  <2>2. ASSUME NEW j \in DOMAIN out
        PROVE  /\ out[j].store \in 1 .. Len(got)
               /\ out[j].session = out[j].generation + 1
               /\ r.store # 0 /\ out[j].store = r.store => out[j].session = session
    <3>1. PICK k \in DOMAIN e.sends : out[j] = e.sends[k]
      BY <1>6
    <3> QED  BY <3>1, <1>5, <1>7, <1>10
  <2>3. ASSUME NEW j \in DOMAIN out, NEW k \in DOMAIN out, out[j].store = out[k].store
        PROVE  out[j].session = out[k].session
    <3>1. PICK a \in DOMAIN e.sends : out[j] = e.sends[a]
      BY <1>6
    <3>2. PICK b \in DOMAIN e.sends : out[k] = e.sends[b]
      BY <1>6
    <3> QED  BY <2>3, <3>1, <3>2, <1>5
  <2> QED  BY <2>1, <2>2, <2>3
<1>12. Sound(r)
  BY <1>9, <1>10, <1>11 DEF Sound
<1> QED  BY <1>12 DEF r, x, out, got, res, s

-----------------------------------------------------------------------------
(* The steps of the router.                                                *)

\* A step that keeps the session need only keep each entry sound.
LEMMA SameSession ==
  ASSUME Inv, session' = session, generation' = generation, Places',
         docs' = [d \in Documents |-> docs'[d]], \A d \in Documents : Sound(docs'[d])
  PROVE  Inv'
<1>1. \A d \in Documents : Sound(docs[d])'
  BY DEF Sound
<1> QED  BY <1>1 DEF Inv

\* Loading a page keeps the entries sound.
LEMMA LoadDataSound ==
  ASSUME RouterConstants, Inv, NEW u \in Urls
  PROVE  /\ LoadData(u) = [d \in Documents |-> LoadData(u)[d]]
         /\ \A d \in Documents : Sound(LoadData(u)[d])
<1>1. LoadData(u) = [d \in Documents |-> LoadData(u)[d]]
  BY DEF LoadData
<1>2. ASSUME NEW d \in Documents
      PROVE  Sound(LoadData(u)[d])
  <2>1. ArgsOf[u][d] \in Variables /\ Sound(docs[d]) /\ generation \in Nat /\ session = generation + 1
    BY DEF RouterConstants, Inv
  <2>2. Sound(LoadDocument(docs[d], ArgsOf[u][d]))
    BY <2>1, LoadDocumentSound
  <2>3. LoadData(u)[d] = IF d \in DocsOf[u] THEN LoadDocument(docs[d], ArgsOf[u][d]) ELSE docs[d]
    BY DEF LoadData
  <2> QED  BY <2>1, <2>2, <2>3
<1> QED  BY <1>1, <1>2

\* The renders.
LEMMA RenderKeeps ==
  ASSUME RouterConstants, Inv,
         \/ \E u \in Urls : Navigate(u) \/ Preload(u)
         \/ RenderTarget \/ ComponentArrives \/ RenderRouter \/ RenderPage
  PROVE  Inv'
<1>1. url \in Urls /\ target \in Urls \cup {None}
  BY DEF Inv, Places
<1>2. docs = [d \in Documents |-> docs[d]] /\ \A d \in Documents : Sound(docs[d])
  BY DEF Inv
<1>3. ASSUME NEW u \in Urls, Navigate(u)
      PROVE  Inv'
  <2>1. docs' = LoadData(url) /\ UNCHANGED <<url, generation, session>> /\ target' = u
    BY <1>3 DEF Navigate
  <2> QED  BY <2>1, <1>1, LoadDataSound, SameSession DEF Places
<1>4. ASSUME NEW u \in Urls, Preload(u)
      PROVE  Inv'
  <2>1. docs' = LoadData(u) /\ UNCHANGED <<url, target, generation, session>>
    BY <1>4 DEF Preload
  <2> QED  BY <2>1, <1>1, LoadDataSound, SameSession DEF Places
<1>5. CASE RenderTarget
  <2>1. target \in Urls
    BY <1>5, <1>1 DEF RenderTarget, Lagging
  <2>2. /\ UNCHANGED <<target, generation, session>> /\ url' \in {url, target}
        /\ \/ docs' = [d \in Documents |-> IF d \in DocsOf[target]
                        THEN Revalidated(LoadData(target)[d], ArgsOf[target][d])
                        ELSE LoadData(target)[d]]
           \/ docs' = LoadData(target)
    BY <1>5 DEF RenderTarget
  <2>3. \A d \in Documents : Sound(LoadData(target)[d])
    BY <2>1, LoadDataSound
  <2>4. ASSUME NEW d \in Documents
        PROVE  Sound(Revalidated(LoadData(target)[d], ArgsOf[target][d]))
    BY <2>1, <2>3, RevalidatedSound DEF RouterConstants, Inv
  <2>5. CASE docs' = LoadData(target)
    BY <2>1, <2>2, <2>5, <1>1, LoadDataSound, SameSession DEF Places
  <2>6. CASE docs' = [d \in Documents |-> IF d \in DocsOf[target]
                        THEN Revalidated(LoadData(target)[d], ArgsOf[target][d])
                        ELSE LoadData(target)[d]]
    <3>1. docs' = [d \in Documents |-> docs'[d]] /\ \A d \in Documents : Sound(docs'[d])
      BY <2>3, <2>4, <2>6
    <3> QED  BY <3>1, <2>1, <2>2, <1>1, SameSession DEF Places
  <2> QED  BY <2>2, <2>5, <2>6
<1>6. CASE ComponentArrives
  <2>1. UNCHANGED <<docs, url, target, generation, session>>
    BY <1>6 DEF ComponentArrives
  <2> QED  BY <2>1, <1>1, <1>2, SameSession DEF Places
<1>7. CASE RenderRouter
  <2>1. docs' = LoadData(url) /\ UNCHANGED <<url, target, generation, session>>
    BY <1>7 DEF RenderRouter
  <2> QED  BY <2>1, <1>1, LoadDataSound, SameSession DEF Places
<1>8. CASE RenderPage
  <2>1. UNCHANGED <<docs, url, target, generation, session>>
    BY <1>8 DEF RenderPage
  <2> QED  BY <2>1, <1>1, <1>2, SameSession DEF Places
<1> QED  BY <1>3, <1>4, <1>5, <1>6, <1>7, <1>8

\* The artifact of a document arrives, or not, or a request is answered.
LEMMA ReplyKeeps ==
  ASSUME RouterConstants, Inv, NEW d \in Documents,
         \/ ArtifactArrives(d) \/ ArtifactFails(d)
         \/ \E i \in DOMAIN docs[d].sends : Answer(d, i)
  PROVE  Inv'
<1>1. /\ Sound(docs[d]) /\ docs[d] \in Entry /\ generation \in Nat /\ session = generation + 1
      /\ docs = [x \in Documents |-> docs[x]] /\ \A x \in Documents : Sound(docs[x])
      /\ Places
  BY DEF Inv, Sound
<1>2. ASSUME NEW r, Sound(r), docs' = [docs EXCEPT ![d] = r],
             UNCHANGED <<url, target, generation, session>>
      PROVE  Inv'
  <2>1. docs' = [x \in Documents |-> docs'[x]] /\ \A x \in Documents : Sound(docs'[x])
    BY <1>1, <1>2
  <2> QED  BY <2>1, <1>1, <1>2, SameSession DEF Places
<1>3. docs[d].imports \in Seq(Variables)
  BY <1>1, EntryFields
<1>4. CASE ArtifactArrives(d)
  <2> DEFINE e == [docs[d] EXCEPT !.artifact = TRUE, !.imports = <<>>]
             q == LoadQuery(e, Head(docs[d].imports))
             r == [q EXCEPT !.last = Last(docs[d].imports)]
  <2>1. docs[d].imports # <<>> /\ docs' = [docs EXCEPT ![d] = r]
        /\ UNCHANGED <<url, target, generation, session>>
    BY <1>4 DEF ArtifactArrives
  <2>2. Head(docs[d].imports) \in Variables /\ Last(docs[d].imports) \in Variables
    BY <2>1, <1>3 DEF Last
  <2>3. e \in Entry /\ e.sends = docs[d].sends /\ e.stores = docs[d].stores
        /\ e.store = docs[d].store
    <3>1. <<>> \in Seq(Variables)
      OBVIOUS
    <3> QED  BY <3>1, <1>1 DEF Entry
  <2> HIDE DEF e
  <2>4. Sound(e)
    BY <2>3, <1>1, SoundKept
  <2>5. Sound(q)
    BY <2>2, <2>4, <1>1, LoadQuerySound
  <2> HIDE DEF q
  <2>6. q \in Entry
    BY <2>5 DEF Sound
  <2>7. r \in Entry /\ r.sends = q.sends /\ r.stores = q.stores /\ r.store = q.store
    BY <2>2, <2>6 DEF Entry
  <2> HIDE DEF r
  <2>8. Sound(r)
    BY <2>5, <2>7, SoundKept
  <2> QED  BY <2>1, <2>8, <1>2
<1>5. CASE ArtifactFails(d)
  <2> DEFINE r == [docs[d] EXCEPT !.imports = <<>>, !.failed = TRUE]
  <2>1. docs' = [docs EXCEPT ![d] = r] /\ UNCHANGED <<url, target, generation, session>>
    BY <1>5, <1>1 DEF ArtifactFails
  <2>2. r \in Entry /\ r.sends = docs[d].sends /\ r.stores = docs[d].stores
        /\ r.store = docs[d].store
    <3>1. <<>> \in Seq(Variables)
      OBVIOUS
    <3> QED  BY <3>1, <1>1 DEF Entry
  <2> HIDE DEF r
  <2>3. Sound(r)
    BY <2>2, <1>1, SoundKept
  <2> QED  BY <2>1, <2>3, <1>2
<1>6. ASSUME NEW i \in DOMAIN docs[d].sends, Answer(d, i)
      PROVE  Inv'
  <2> DEFINE s == docs[d].sends[i]
             r == Arrived([docs[d] EXCEPT !.sends = RemoveAt(docs[d].sends, i),
                                          !.stores = [docs[d].stores EXCEPT ![s.store] =
                                            [vars |-> s.vars, session |-> s.session]]], s)
  <2>1. docs' = [docs EXCEPT ![d] = r] /\ UNCHANGED <<url, target, generation, session>>
    BY <1>6 DEF Answer
  <2>2. Sound(r)
    BY <1>1, AnswerSound
  <2> HIDE DEF r
  <2> QED  BY <2>1, <2>2, <1>2
<1> QED  BY <1>4, <1>5, <1>6

\* A session change empties data_cache: what is out belongs to the session before.
LEMMA ChangeSessionKeeps ==
  ASSUME Inv, ChangeSession
  PROVE  Inv'
<1>1. /\ docs' = [d \in Documents |-> Invalidated(docs[d])]
      /\ generation' = generation + 1 /\ session' = session + 1
      /\ UNCHANGED <<url, target>>
  BY DEF ChangeSession
<1>2. ASSUME NEW d \in Documents
      PROVE  Sound(docs[d])'
  <2> DEFINE r == [docs[d] EXCEPT !.store = 0, !.signal = FALSE, !.last = None]
  <2>1. docs'[d] = r
    BY <1>1 DEF Invalidated
  <2>2. Sound(docs[d]) /\ docs[d] \in Entry
    BY DEF Inv, Sound
  <2>3. r \in Entry /\ r.sends = docs[d].sends /\ r.stores = docs[d].stores /\ r.store = 0
    BY <2>2 DEF Entry
  <2> HIDE DEF r
  <2>4. Len(r.stores) \in Nat
    BY <2>3, EntryFields
  <2> QED  BY <2>1, <2>2, <2>3, <2>4 DEF Sound
<1> QED  BY <1>1, <1>2 DEF Inv, Places

\* A new artifact in development.
LEMMA HotUpdateKeeps ==
  ASSUME RouterConstants, Inv, NEW d \in Documents, HotUpdate(d)
  PROVE  Inv'
<1> DEFINE e == [docs[d] EXCEPT !.store = 0, !.signal = FALSE]
           r == IF d \in DocsOf[url] THEN LoadDocument(e, ArgsOf[url][d]) ELSE e
<1>1. docs' = [LoadData(url) EXCEPT ![d] = r] /\ UNCHANGED <<url, target, generation, session>>
  BY DEF HotUpdate
<1>2. /\ Sound(docs[d]) /\ docs[d] \in Entry /\ Places /\ url \in Urls
      /\ generation \in Nat /\ session = generation + 1 /\ ArgsOf[url][d] \in Variables
  BY DEF Inv, Sound, Places, RouterConstants
<1>3. e \in Entry /\ e.sends = docs[d].sends /\ e.stores = docs[d].stores /\ e.store = 0
  BY <1>2 DEF Entry
<1> HIDE DEF e
<1>4. Sound(e)
  BY <1>2, <1>3, SoundKept
<1>5. Sound(r)
  BY <1>2, <1>4, LoadDocumentSound
<1> HIDE DEF r
<1>6. docs' = [x \in Documents |-> docs'[x]] /\ \A x \in Documents : Sound(docs'[x])
  BY <1>1, <1>2, <1>5, LoadDataSound
<1> QED  BY <1>1, <1>2, <1>6, SameSession DEF Places

\* The invariant on requests and entries, for any urls, documents and number of events
\* (load_query, handleNewSession in Router.tsx).
THEOREM InvHolds ==
  ASSUME RouterConstants
  PROVE  Spec => []Inv
<1>1. Init => Inv
  <2> SUFFICES ASSUME Init PROVE Inv
    OBVIOUS
  <2>1. generation = 0 /\ session = 1 /\ url \in Urls /\ target = None
    BY DEF Init, RouterConstants
  <2>2. ASSUME NEW d \in Documents
        PROVE  Sound(docs[d])
    <3>1. NewEntry \in Entry /\ NewEntry.sends = <<>> /\ NewEntry.store = 0 /\ NewEntry.stores = <<>>
      BY DEF NewEntry, Entry
    <3>2. CASE d \in DocsOf[Home]
      <4> DEFINE v == ArgsOf[Home][d]
                 first == [vars |-> v, session |-> 1]
      <4>1. v \in Variables
        BY DEF RouterConstants
      <4>2. first \in Result /\ first.session = 1
        BY <4>1 DEF Result
      <4>3. docs[d] = [NewEntry EXCEPT !.artifact = TRUE, !.store = 1, !.last = v,
                                       !.stores = <<first>>]
        BY <3>2 DEF Init, Hydrated
      <4> HIDE DEF v, first
      <4>4. <<first>> \in Seq(Result \cup {NoResult}) /\ Len(<<first>>) = 1 /\ <<first>>[1] = first
        BY <4>2
      <4>5. /\ docs[d] \in Entry /\ docs[d].sends = <<>> /\ docs[d].store = 1
            /\ docs[d].stores = <<first>>
        <5> DEFINE q == <<first>>
        <5>1. q \in Seq(Result \cup {NoResult})
          BY <4>4
        <5>2. docs[d] = [artifact |-> TRUE, store |-> 1, signal |-> FALSE, last |-> v,
                         imports |-> <<>>, failed |-> FALSE, sends |-> <<>>, stores |-> q]
          BY <4>3 DEF NewEntry
        <5> HIDE DEF q
        <5>3. docs[d] \in Entry /\ docs[d].sends = <<>> /\ docs[d].store = 1 /\ docs[d].stores = q
          <6>1. <<>> \in Seq(Variables) /\ <<>> \in Seq(Send)
            OBVIOUS
          <6> QED  BY <4>1, <5>1, <5>2, <6>1 DEF Entry
        <5> QED  BY <5>3 DEF q
      <4> QED  BY <4>2, <4>4, <4>5, <2>1 DEF Sound
    <3>3. CASE d \notin DocsOf[Home]
      <4>1. docs[d] = NewEntry
        BY <3>3 DEF Init
      <4> QED  BY <4>1, <3>1 DEF Sound
    <3> QED  BY <3>2, <3>3
  <2>3. docs = [d \in Documents |-> docs[d]] /\ DOMAIN docs = Documents
    BY DEF Init
  <2> QED  BY <2>1, <2>2, <2>3 DEF Inv, Places
<1>2. Inv /\ [Next]_vars => Inv'
  <2> SUFFICES ASSUME Inv, [Next]_vars PROVE Inv'
    OBVIOUS
  <2>1. CASE \/ \E u \in Urls : Navigate(u) \/ Preload(u)
             \/ RenderTarget \/ ComponentArrives \/ RenderRouter \/ RenderPage
    BY <2>1, RenderKeeps
  <2>2. CASE Reply
    BY <2>2, ReplyKeeps DEF Reply
  <2>3. ASSUME NEW d \in Documents, ArtifactFails(d)
        PROVE  Inv'
    BY <2>3, ReplyKeeps
  <2>4. ASSUME NEW d \in Documents, HotUpdate(d)
        PROVE  Inv'
    BY <2>4, HotUpdateKeeps
  <2>5. CASE ChangeSession
    BY <2>5, ChangeSessionKeeps
  <2>6. CASE UNCHANGED vars
    <3>1. UNCHANGED <<docs, url, target, generation, session>>
      BY <2>6 DEF vars
    <3> QED  BY <3>1, SameSession DEF Inv, Places
  <2> QED  BY <2>1, <2>2, <2>3, <2>4, <2>5, <2>6 DEF Next
<1> QED  BY <1>1, <1>2, PTL DEF Spec

\* What the router's data_cache holds was asked for in the current session, however many sessions,
\* navigations and requests overlap (Router.tsx).
THEOREM SessionIsolatedHolds ==
  ASSUME RouterConstants
  PROVE  Spec => []SessionIsolated
<1>1. Inv => SessionIsolated
  BY DEF Inv, Sound, SessionIsolated
<1> QED  BY <1>1, InvHolds, PTL

-----------------------------------------------------------------------------
(* What a page shows, once nothing is on its way for it, was asked for     *)
(* with the variables of its url, and no navigation blanks it.             *)

\* The loads on their way whose results will be installed, and the requests for one store.
Loads(e, g) == {i \in DOMAIN e.sends : e.sends[i].load /\ e.sends[i].generation = g}
Of(e, id) == {i \in DOMAIN e.sends : e.sends[i].store = id}

\* A load is the only request for its store, which is not installed; what has no artifact or no
\* variables has nothing installed and loads nothing.
Orderly(e, g) ==
  /\ \A i \in DOMAIN e.sends : e.sends[i].generation <= g
  /\ \A i \in DOMAIN e.sends : e.sends[i].load => e.sends[i].store # e.store
  /\ \A i, j \in DOMAIN e.sends :
       e.sends[i].load /\ e.sends[i].store = e.sends[j].store => i = j
  /\ e.artifact => e.imports = <<>>
  /\ ~e.artifact \/ e.last = None => e.store = 0 /\ Loads(e, g) = {}

\* Answers in order leave the last variables in the store: the last load has them, or without
\* a load the last request for the installed store, or without that the store itself.
Heading(e, g) ==
  e.last # None =>
    /\ \A i \in Loads(e, g) : (\A j \in Loads(e, g) : j <= i) => e.sends[i].vars = e.last
    /\ Loads(e, g) = {} /\ e.store # 0 =>
         /\ \A i \in Of(e, e.store) :
              (\A j \in Of(e, e.store) : j <= i) => e.sends[i].vars = e.last
         /\ Of(e, e.store) = {} => e.stores[e.store].vars = e.last

\* Two imports of an artifact ended at once, with variables of which the first were sent.
Lone(e, g) == /\ \A i, j \in Loads(e, g) : i = j
              /\ Loads(e, g) # {} => e.store = 0

Shows ==
  /\ \A d \in Documents :
       /\ Orderly(docs[d], generation)
       /\ d \notin overtaken => Heading(docs[d], generation) \/ Lone(docs[d], generation)
  /\ \A d \in DocsOf[url] : /\ docs[d].artifact /\ shown[d].store # 0
                            /\ d \notin overtaken => Heading(docs[d], generation)
  /\ disturbed \/ Lagging \/ \A d \in DocsOf[url] : docs[d].last = ArgsOf[url][d]
  /\ NeverBlank

\* What no step takes from an entry.
Onward(e, r, g) ==
  /\ Orderly(r, g)
  /\ Heading(e, g) => Heading(r, g)
  /\ Lone(e, g) => Heading(r, g) \/ Lone(r, g)
  /\ e.artifact => r.artifact

\* An entry whose requests and stores stay as they are, and that keeps its store or drops it.
LEMMA OnwardKept ==
  ASSUME NEW e, NEW g, Sound(e), Orderly(e, g), NEW r \in Entry, r.sends = e.sends,
         r.stores = e.stores, r.store \in {0, e.store}, r.last = e.last,
         e.artifact => r.artifact, r.artifact => r.imports = <<>>,
         ~r.artifact \/ r.last = None => ~e.artifact \/ e.last = None
  PROVE  Onward(e, r, g)
<1>1. Loads(r, g) = Loads(e, g) /\ \A id : Of(r, id) = Of(e, id)
  BY DEF Loads, Of
<1>2. \A i \in DOMAIN e.sends : e.sends[i].store # 0
  <2>1. \A i \in DOMAIN e.sends : e.sends[i].store \in 1 .. Len(e.stores)
    BY DEF Sound
  <2> QED  BY <2>1
<1>3. Orderly(r, g)
  BY <1>1, <1>2 DEF Orderly
<1>4. Heading(e, g) => Heading(r, g)
  BY <1>1 DEF Heading
<1>5. Lone(e, g) => Lone(r, g)
  BY <1>1 DEF Lone
<1> QED  BY <1>3, <1>4, <1>5 DEF Onward

\* load_query, where nothing is installed.
LEMMA LoadQueryOnward ==
  ASSUME Marked, generation \in Nat, session = generation + 1,
         NEW e, Sound(e), Orderly(e, generation), e.artifact, e.store = 0, NEW v \in Variables
  PROVE  LET r == LoadQuery(e, v) IN
         /\ Orderly(r, generation) /\ r.artifact /\ r.last = v /\ r.store = 0
         /\ e.signal => r.sends = e.sends /\ r.stores = e.stores
         /\ ~e.signal => Heading(r, generation)
         /\ Loads(e, generation) = {} => Lone(r, generation)
<1> DEFINE r == LoadQuery(e, v)
           n == Len(e.sends)
           s == [load |-> TRUE, store |-> Len(e.stores) + 1, vars |-> v, session |-> session,
                 generation |-> generation]
<1>1. /\ e \in Entry /\ e.sends \in Seq(Send) /\ n \in Nat /\ DOMAIN e.sends = 1 .. n
      /\ e.stores \in Seq(Result \cup {NoResult}) /\ Len(e.stores) \in Nat
      /\ e.signal \in BOOLEAN /\ v # None
  BY EntryFields DEF Sound, Marked
<1>2. /\ \A i \in 1 .. n : /\ e.sends[i].store \in 1 .. Len(e.stores)
                           /\ e.sends[i].generation <= generation
      /\ \A i, j \in 1 .. n : e.sends[i].load /\ e.sends[i].store = e.sends[j].store => i = j
      /\ e.imports = <<>>
  BY <1>1 DEF Sound, Orderly
<1>3. CASE e.signal
  <2>1. r = [e EXCEPT !.last = v]
    BY <1>3 DEF LoadQuery
  <2>2. /\ r.sends = e.sends /\ r.stores = e.stores /\ r.store = 0 /\ r.last = v /\ r.artifact
        /\ r.imports = <<>>
    BY <2>1, <1>1, <1>2 DEF Entry
  <2> HIDE DEF r
  <2>3. Loads(r, generation) = Loads(e, generation)
    BY <2>2 DEF Loads
  <2>4. Orderly(r, generation)
    BY <2>2, <2>3, <1>1 DEF Orderly
  <2>5. Loads(e, generation) = {} => Lone(r, generation)
    BY <2>3 DEF Lone
  <2> QED  BY <2>2, <2>4, <2>5, <1>3 DEF r
<1>4. CASE ~e.signal
  <2>1. r = [e EXCEPT !.last = v, !.signal = TRUE, !.sends = Append(e.sends, s),
                      !.stores = Append(e.stores, NoResult)]
    BY <1>4 DEF LoadQuery
  <2>2. /\ r.sends = Append(e.sends, s) /\ r.store = 0 /\ r.last = v /\ r.artifact
        /\ r.imports = <<>>
    BY <2>1, <1>1, <1>2 DEF Entry
  <2>3. s \in Send /\ s.load /\ s.store = Len(e.stores) + 1 /\ s.vars = v
        /\ s.generation = generation
    BY <1>1 DEF Send
  <2> HIDE DEF r, s
  <2>4. /\ DOMAIN r.sends = 1 .. n + 1 /\ r.sends[n + 1] = s
        /\ \A i \in 1 .. n : r.sends[i] = e.sends[i]
    BY <2>2, <2>3, <1>1
  <2>5. \A i \in 1 .. n + 1 : i \in 1 .. n \/ i = n + 1
    BY <1>1
  <2>6. \A i \in 1 .. n : e.sends[i].store # s.store /\ e.sends[i].store # 0 /\ s.store # 0
    BY <1>1, <1>2, <2>3
  <2>7. n + 1 \in Loads(r, generation)
    BY <2>3, <2>4, <1>1 DEF Loads
  <2>8. ASSUME NEW i \in DOMAIN r.sends
        PROVE  /\ r.sends[i].generation <= generation /\ r.sends[i].store # 0
    BY <2>3, <2>4, <2>5, <2>6, <1>2
  <2>9. ASSUME NEW i \in DOMAIN r.sends, NEW j \in DOMAIN r.sends,
               r.sends[i].load, r.sends[i].store = r.sends[j].store
        PROVE  i = j
    <3>1. CASE i \in 1 .. n /\ j \in 1 .. n
      BY <2>4, <2>9, <3>1, <1>2
    <3>2. CASE i = n + 1 /\ j \in 1 .. n
      BY <2>4, <2>6, <2>9, <3>2
    <3>3. CASE i \in 1 .. n /\ j = n + 1
      BY <2>4, <2>6, <2>9, <3>3
    <3> QED  BY <2>4, <2>5, <3>1, <3>2, <3>3
  <2>10. Orderly(r, generation)
    BY <2>2, <2>8, <2>9, <1>1 DEF Orderly
  <2>11. Heading(r, generation)
    <3>1. ASSUME NEW i \in Loads(r, generation), \A j \in Loads(r, generation) : j <= i
          PROVE  r.sends[i].vars = v
      <4>1. i \in 1 .. n + 1 /\ n + 1 <= i
        BY <3>1, <2>4, <2>7 DEF Loads
      <4>2. i = n + 1
        BY <4>1, <1>1
      <4> QED  BY <4>2, <2>3, <2>4
    <3> QED  BY <3>1, <2>2, <2>7 DEF Heading
  <2>12. Loads(e, generation) = {} => Lone(r, generation)
    <3> SUFFICES ASSUME Loads(e, generation) = {}
                 PROVE  Lone(r, generation)
      OBVIOUS
    <3>1. ASSUME NEW i \in Loads(r, generation)
          PROVE  i = n + 1
      <4>1. i \in 1 .. n + 1 /\ r.sends[i].load /\ r.sends[i].generation = generation
        BY <2>4 DEF Loads
      <4>2. i \notin 1 .. n
        BY <4>1, <2>4, <1>1 DEF Loads
      <4> QED  BY <4>1, <4>2, <2>5
    <3> QED  BY <3>1, <2>2 DEF Lone
  <2> QED  BY <2>2, <2>10, <2>11, <2>12, <1>4 DEF r
<1> QED  BY <1>1, <1>3, <1>4

\* loadData, for one document: its last variables become those of the url.
LEMMA LoadDocumentOnward ==
  ASSUME Marked, generation \in Nat, session = generation + 1,
         NEW e, Sound(e), Orderly(e, generation), NEW v \in Variables
  PROVE  LET r == LoadDocument(e, v) IN
         /\ Onward(e, r, generation)
         /\ e.artifact => r.last = v
         /\ r.store # 0 => e.artifact
<1> DEFINE c == Evicted(e, v)
           r == LoadDocument(e, v)
           asked == IF v \in Range(c.imports) THEN c.imports ELSE Append(c.imports, v)
<1>1. e \in Entry /\ v # None /\ e.artifact \in BOOLEAN /\ e.signal \in BOOLEAN
  BY EntryFields DEF Sound, Marked
<1>2. /\ c \in Entry /\ c.sends = e.sends /\ c.stores = e.stores /\ c.store \in {0, e.store}
      /\ c.last = e.last /\ c.artifact = e.artifact /\ c.imports = e.imports
      /\ IF e.last # None /\ e.last # v THEN c.store = 0 /\ ~c.signal ELSE c = e
  <2>1. CASE e.last # None /\ e.last # v
    <3> DEFINE t == [e EXCEPT !.store = 0, !.signal = FALSE]
    <3>1. c = t
      BY <2>1 DEF Evicted
    <3> HIDE DEF c
    <3>2. /\ t \in Entry /\ t.store = 0 /\ t.signal = FALSE /\ t.sends = e.sends
          /\ t.stores = e.stores /\ t.last = e.last /\ t.artifact = e.artifact
          /\ t.imports = e.imports
      BY <1>1 DEF Entry
    <3> HIDE DEF t
    <3> QED  BY <3>1, <3>2, <2>1
  <2>2. CASE ~(e.last # None /\ e.last # v)
    <3>1. c = e
      BY <2>2 DEF Evicted
    <3> QED  BY <3>1, <2>2, <1>1
  <2> QED  BY <2>1, <2>2
<1>3. /\ c.artifact \in BOOLEAN /\ c.signal \in BOOLEAN /\ c.imports \in Seq(Variables)
  BY <1>2, EntryFields
<1>4. Sound(c)
  BY <1>2, SoundKept
<1> HIDE DEF c
<1>5. Onward(e, c, generation) /\ Orderly(c, generation)
  <2>1. e.artifact => e.imports = <<>>
    BY DEF Orderly
  <2>2. Onward(e, c, generation)
    BY <1>2, <2>1, OnwardKept
  <2> QED  BY <2>2 DEF Onward
<1>6. CASE ~c.artifact
  <2>1. r = [c EXCEPT !.imports = asked, !.failed = FALSE]
    BY <1>6 DEF LoadDocument, c, asked
  <2>2. asked \in Seq(Variables)
    BY <1>3
  <2> HIDE DEF asked
  <2>3. /\ r \in Entry /\ r.sends = c.sends /\ r.stores = c.stores /\ r.store = c.store
        /\ r.last = c.last /\ r.artifact = c.artifact
    BY <2>1, <2>2, <1>2 DEF Entry
  <2> HIDE DEF r
  <2>4. Onward(c, r, generation)
    BY <2>3, <1>4, <1>5, <1>6, OnwardKept
  <2>5. r.store = 0
    BY <2>3, <1>5, <1>6 DEF Orderly
  <2> QED  BY <2>4, <2>5, <1>2, <1>5, <1>6 DEF Onward, r
<1>7. CASE c.artifact /\ c.store = 0
  <2>1. r = LoadQuery(c, v)
    BY <1>7 DEF LoadDocument, c
  <2> HIDE DEF r
  <2>2. /\ Orderly(r, generation) /\ r.artifact /\ r.last = v /\ r.store = 0
        /\ c.signal => r.sends = c.sends /\ r.stores = c.stores
        /\ ~c.signal => Heading(r, generation)
    BY <2>1, <1>4, <1>5, <1>7, LoadQueryOnward
  <2>3. CASE ~c.signal
    BY <2>2, <2>3, <1>2, <1>7 DEF Onward, r
  <2>4. CASE c.signal
    <3>1. c = e /\ (e.last = None \/ e.last = v)
      BY <2>4, <1>2
    <3>2. Loads(r, generation) = Loads(e, generation) /\ r.store = 0
      BY <2>2, <2>4, <3>1 DEF Loads
    <3>3. Heading(e, generation) => Heading(r, generation)
      <4>1. CASE e.last = None
        <5>1. Loads(e, generation) = {}
          BY <4>1 DEF Orderly
        <5> QED  BY <5>1, <3>2 DEF Heading
      <4>2. CASE e.last = v
        <5> SUFFICES ASSUME Heading(e, generation)
                     PROVE  Heading(r, generation)
          OBVIOUS
        <5>1. \A i \in Loads(e, generation) :
                (\A j \in Loads(e, generation) : j <= i) => e.sends[i].vars = v
          BY <4>2, <1>1 DEF Heading
        <5> QED  BY <5>1, <2>2, <2>4, <3>1, <3>2 DEF Heading
      <4> QED  BY <3>1, <4>1, <4>2
    <3>4. Lone(e, generation) => Lone(r, generation)
      BY <3>2 DEF Lone
    <3> QED  BY <2>2, <3>1, <3>3, <3>4, <1>7 DEF Onward, r
  <2> QED  BY <2>3, <2>4, <1>3
<1>8. CASE c.artifact /\ c.store # 0
  <2>1. r = c
    BY <1>8 DEF LoadDocument, c
  <2>2. r.last = v
    <3>1. c = e /\ (e.last = None \/ e.last = v)
      BY <1>2, <1>8
    <3>2. e.last # None
      BY <3>1, <1>8 DEF Orderly
    <3> QED  BY <2>1, <3>1, <3>2
  <2> QED  BY <2>1, <2>2, <1>2, <1>5, <1>8
<1> QED  BY <1>3, <1>6, <1>7, <1>8

\* The revalidation of a committed navigation is the last request for the installed store.
LEMMA RevalidatedHeading ==
  ASSUME Marked, generation \in Nat, session = generation + 1,
         NEW e, Sound(e), Orderly(e, generation), NEW v \in Variables,
         e.store # 0, e.last = v
  PROVE  LET r == Revalidated(e, v) IN
         /\ Orderly(r, generation) /\ r.artifact /\ r.last = v /\ r.store = e.store
         /\ Heading(e, generation) \/ Lone(e, generation) => Heading(r, generation)
<1> DEFINE s == [load |-> FALSE, store |-> e.store, vars |-> v, session |-> session,
                 generation |-> generation]
           r == Revalidated(e, v)
           n == Len(e.sends)
<1>1. /\ e \in Entry /\ e.sends \in Seq(Send) /\ n \in Nat /\ DOMAIN e.sends = 1 .. n
      /\ e.store \in Nat /\ v # None
  BY EntryFields DEF Sound, Marked
<1>2. /\ e.artifact /\ e.imports = <<>>
      /\ \A i \in 1 .. n : /\ e.sends[i].generation <= generation
                           /\ e.sends[i].load => e.sends[i].store # e.store
      /\ \A i, j \in 1 .. n : e.sends[i].load /\ e.sends[i].store = e.sends[j].store => i = j
  BY <1>1 DEF Orderly
<1>3. r = [e EXCEPT !.sends = Append(e.sends, s)]
  BY DEF Revalidated
<1>4. /\ s \in Send /\ ~s.load /\ s.store = e.store /\ s.vars = v /\ s.generation = generation
  BY <1>1 DEF Send
<1> HIDE DEF s
<1>5. /\ r.sends = Append(e.sends, s) /\ r.store = e.store /\ r.last = v /\ r.artifact
      /\ r.imports = <<>> /\ r.stores = e.stores
  BY <1>1, <1>2, <1>3 DEF Entry
<1> HIDE DEF r
<1>6. /\ DOMAIN r.sends = 1 .. n + 1 /\ r.sends[n + 1] = s
      /\ \A i \in 1 .. n : r.sends[i] = e.sends[i]
  BY <1>1, <1>4, <1>5
<1>7. \A i \in 1 .. n + 1 : i \in 1 .. n \/ i = n + 1
  BY <1>1
<1>8. Loads(r, generation) = Loads(e, generation)
  <2>1. \A i \in Loads(e, generation) : i \in Loads(r, generation)
    BY <1>1, <1>6 DEF Loads
  <2>2. \A i \in Loads(r, generation) : i \in 1 .. n
    BY <1>4, <1>6, <1>7 DEF Loads
  <2>3. \A i \in Loads(r, generation) : i \in Loads(e, generation)
    BY <2>2, <1>1, <1>6 DEF Loads
  <2> QED  BY <2>1, <2>3
<1>9. Orderly(r, generation)
  <2>1. ASSUME NEW i \in DOMAIN r.sends
        PROVE  /\ r.sends[i].generation <= generation
               /\ r.sends[i].load => r.sends[i].store # r.store
    BY <1>1, <1>2, <1>4, <1>5, <1>6, <1>7
  <2>2. ASSUME NEW i \in DOMAIN r.sends, NEW j \in DOMAIN r.sends,
               r.sends[i].load, r.sends[i].store = r.sends[j].store
        PROVE  i = j
    <3>1. i \in 1 .. n
      BY <2>2, <1>4, <1>6, <1>7
    <3>2. CASE j \in 1 .. n
      BY <2>2, <3>1, <3>2, <1>2, <1>6
    <3>3. CASE j = n + 1
      BY <2>2, <3>1, <3>3, <1>2, <1>4, <1>6
    <3> QED  BY <3>2, <3>3, <1>6, <1>7
  <2> QED  BY <2>1, <2>2, <1>1, <1>5 DEF Orderly
<1>10. ASSUME Heading(e, generation) \/ Lone(e, generation)
       PROVE  Heading(r, generation)
  <2>1. ASSUME NEW i \in Loads(r, generation), \A j \in Loads(r, generation) : j <= i
        PROVE  r.sends[i].vars = v
    <3>1. i \in Loads(e, generation) /\ \A j \in Loads(e, generation) : j <= i
      BY <2>1, <1>8
    <3>2. Heading(e, generation)
      BY <3>1, <1>10 DEF Lone
    <3>3. e.sends[i].vars = v
      BY <3>1, <3>2, <1>1 DEF Heading
    <3>4. r.sends[i] = e.sends[i]
      BY <3>1, <1>1, <1>6 DEF Loads
    <3> QED  BY <3>3, <3>4
  <2>2. n + 1 \in Of(r, r.store)
    BY <1>1, <1>4, <1>5, <1>6 DEF Of
  <2>3. ASSUME NEW i \in Of(r, r.store), \A j \in Of(r, r.store) : j <= i
        PROVE  r.sends[i].vars = v
    <3>1. i \in 1 .. n + 1 /\ n + 1 <= i
      BY <2>2, <2>3, <1>6 DEF Of
    <3>2. i = n + 1
      BY <3>1, <1>1
    <3> QED  BY <3>2, <1>4, <1>6
  <2> QED  BY <2>1, <2>2, <2>3, <1>5 DEF Heading
<1> QED  BY <1>5, <1>9, <1>10 DEF r

\* An answer.
LEMMA ArrivedOrderly ==
  ASSUME generation \in Nat, session = generation + 1,
         NEW e, Sound(e), Orderly(e, generation), NEW i \in DOMAIN e.sends
  PROVE  LET s == e.sends[i]
             x == [e EXCEPT !.sends = RemoveAt(e.sends, i),
                            !.stores = [e.stores EXCEPT ![s.store] =
                                          [vars |-> s.vars, session |-> s.session]]]
             r == Arrived(x, s)
         IN  /\ Orderly(r, generation)
             /\ r.artifact = e.artifact /\ r.last = e.last
             /\ i = 1 => Onward(e, r, generation)
<1> DEFINE n == Len(e.sends)
           s == e.sends[i]
           out == RemoveAt(e.sends, i)
           got == [e.stores EXCEPT ![s.store] = [vars |-> s.vars, session |-> s.session]]
           x == [e EXCEPT !.sends = out, !.stores = got]
           r == Arrived(x, s)
           from == [j \in 1 .. n - 1 |-> IF j < i THEN j ELSE j + 1]
<1>1. /\ e \in Entry /\ e.sends \in Seq(Send) /\ n \in Nat /\ DOMAIN e.sends = 1 .. n
      /\ e.stores \in Seq(Result \cup {NoResult}) /\ e.store \in Nat
      /\ DOMAIN e.stores = 1 .. Len(e.stores) /\ s \in Send /\ i \in 1 .. n
      /\ s.store \in 1 .. Len(e.stores)
  BY EntryFields DEF Sound
<1>2. s.load \in BOOLEAN /\ s.generation \in Nat
  BY <1>1 DEF Send
<1>3. DOMAIN out = 1 .. n - 1 /\ out \in Seq(Send) /\ \A j \in 1 .. n - 1 : out[j] = e.sends[from[j]]
  <2>1. /\ DOMAIN out = 1 .. n - 1 /\ out \in Seq(Send)
        /\ \A j \in 1 .. n - 1 : /\ j < i => out[j] = e.sends[j]
                                 /\ j >= i => out[j] = e.sends[j + 1]
    BY <1>1, RemoveAtElements
  <2> HIDE DEF out
  <2>2. ASSUME NEW j \in 1 .. n - 1
        PROVE  out[j] = e.sends[from[j]]
    <3>1. CASE j < i
      <4>1. from[j] = j
        BY <3>1, <1>1
      <4> HIDE DEF from
      <4> QED  BY <3>1, <4>1, <2>1
    <3>2. CASE j >= i
      <4>1. from[j] = j + 1
        BY <3>2, <1>1
      <4> QED  BY <3>2, <4>1, <2>1
    <3> QED  BY <3>1, <3>2, <1>1
  <2> QED  BY <2>1, <2>2
<1>4. /\ \A j \in 1 .. n - 1 : from[j] \in 1 .. n /\ from[j] # i
      /\ \A j, k \in 1 .. n - 1 : from[j] = from[k] => j = k
  BY <1>1
<1>5. /\ got \in Seq(Result \cup {NoResult}) /\ got[s.store].vars = s.vars
      /\ \A id \in DOMAIN e.stores : id # s.store => got[id] = e.stores[id]
  <2>1. [vars |-> s.vars, session |-> s.session] \in Result
    BY <1>1 DEF Send, Result
  <2> QED  BY <2>1, <1>1
<1>6. /\ \A j \in 1 .. n : /\ e.sends[j].generation <= generation
                           /\ e.sends[j].load => e.sends[j].store # e.store
      /\ \A j, k \in 1 .. n : e.sends[j].load /\ e.sends[j].store = e.sends[k].store => j = k
      /\ e.artifact => e.imports = <<>>
      /\ ~e.artifact \/ e.last = None => e.store = 0 /\ Loads(e, generation) = {}
  BY <1>1 DEF Orderly
<1>7. \A j \in 1 .. n : j # i => ~(s.load /\ e.sends[j].store = s.store)
  BY <1>1, <1>6
<1>8. s.load /\ s.generation = generation <=> i \in Loads(e, generation)
  BY DEF Loads
<1> HIDE DEF s, out, got
<1>9. /\ x \in Entry /\ x.sends = out /\ x.stores = got /\ x.store = e.store
      /\ x.artifact = e.artifact /\ x.last = e.last /\ x.imports = e.imports
  BY <1>1, <1>3, <1>5 DEF Entry
<1> HIDE DEF x
<1>10. /\ r.sends = out /\ r.stores = got /\ r.artifact = e.artifact /\ r.last = e.last
       /\ r.imports = e.imports
       /\ r.store = IF s.load /\ s.generation = generation THEN s.store ELSE e.store
  BY <1>2, <1>9 DEF Arrived, Entry
<1>11. r.store = IF i \in Loads(e, generation) THEN s.store ELSE e.store
  BY <1>8, <1>10
<1> HIDE DEF r
<1>12. \A j \in 1 .. n - 1 : j \in Loads(r, generation) <=> from[j] \in Loads(e, generation)
  BY <1>1, <1>3, <1>4, <1>10, <1>11 DEF Loads
<1>13. Loads(r, generation) \subseteq 1 .. n - 1
  BY <1>3, <1>10, <1>11 DEF Loads
<1>14. Orderly(r, generation)
  <2>1. ASSUME NEW j \in 1 .. n - 1
        PROVE  /\ out[j].generation <= generation
               /\ out[j].load => out[j].store # r.store
    <3>1. out[j] = e.sends[from[j]] /\ from[j] \in 1 .. n /\ from[j] # i
      BY <1>3, <1>4
    <3> HIDE DEF from
    <3>2. ASSUME out[j].load
          PROVE  out[j].store # r.store
      <4>1. CASE i \in Loads(e, generation)
        <5>1. r.store = s.store /\ s.load
          BY <4>1, <1>8, <1>11
        <5> QED  BY <5>1, <3>1, <1>7
      <4>2. CASE i \notin Loads(e, generation)
        BY <4>2, <3>1, <3>2, <1>6, <1>11
      <4> QED  BY <4>1, <4>2
    <3> QED  BY <3>1, <3>2, <1>6
  <2>2. ASSUME NEW j \in 1 .. n - 1, NEW k \in 1 .. n - 1, out[j].load, out[j].store = out[k].store
        PROVE  j = k
    <3>1. /\ out[j] = e.sends[from[j]] /\ from[j] \in 1 .. n
          /\ out[k] = e.sends[from[k]] /\ from[k] \in 1 .. n
          /\ from[j] = from[k] => j = k
      BY <1>3, <1>4
    <3> HIDE DEF from
    <3> QED  BY <2>2, <3>1, <1>6
  <2>3. ASSUME ~e.artifact \/ e.last = None
        PROVE  r.store = 0 /\ Loads(r, generation) = {}
    <3>1. e.store = 0 /\ Loads(e, generation) = {}
      BY <2>3, <1>6
    <3> HIDE DEF from
    <3> QED  BY <3>1, <1>11, <1>12, <1>13
  <2> QED  BY <2>1, <2>2, <2>3, <1>3, <1>6, <1>10, <1>11 DEF Orderly
<1>15. ASSUME i = 1
       PROVE  Onward(e, r, generation)
  <2>1. /\ \A j \in 1 .. n - 1 : out[j] = e.sends[j + 1]
        /\ \A j \in 1 .. n - 1 : j \in Loads(r, generation) <=> j + 1 \in Loads(e, generation)
    <3>1. \A j \in 1 .. n - 1 : from[j] = j + 1
      BY <1>15
    <3> HIDE DEF from
    <3> QED  BY <3>1, <1>3, <1>12
  <2>2. \A k \in 1 .. n : k # 1 => k - 1 \in 1 .. n - 1 /\ (k - 1) + 1 = k
    BY <1>1
  <2>3. Loads(e, generation) \subseteq 1 .. n /\ Of(e, e.store) \subseteq 1 .. n
    BY <1>1 DEF Loads, Of
  <2>4. \A k \in Loads(e, generation) : k # 1 => k - 1 \in Loads(r, generation)
    BY <2>1, <2>2, <2>3
  <2>5. ASSUME Heading(e, generation)
        PROVE  Heading(r, generation)
    <3> SUFFICES ASSUME e.last # None
                 PROVE  /\ \A j \in Loads(r, generation) :
                             (\A k \in Loads(r, generation) : k <= j) => out[j].vars = e.last
                        /\ Loads(r, generation) = {} /\ r.store # 0 =>
                             /\ \A j \in Of(r, r.store) :
                                  (\A k \in Of(r, r.store) : k <= j) => out[j].vars = e.last
                             /\ Of(r, r.store) = {} => got[r.store].vars = e.last
      BY <1>10, <1>11 DEF Heading
    <3>1. /\ \A j \in Loads(e, generation) :
               (\A k \in Loads(e, generation) : k <= j) => e.sends[j].vars = e.last
          /\ Loads(e, generation) = {} /\ e.store # 0 =>
               /\ \A j \in Of(e, e.store) :
                    (\A k \in Of(e, e.store) : k <= j) => e.sends[j].vars = e.last
               /\ Of(e, e.store) = {} => e.stores[e.store].vars = e.last
      BY <2>5 DEF Heading
    <3>2. ASSUME NEW j \in Loads(r, generation), \A k \in Loads(r, generation) : k <= j
          PROVE  out[j].vars = e.last
      <4>1. j \in 1 .. n - 1 /\ j + 1 \in Loads(e, generation) /\ out[j] = e.sends[j + 1]
        BY <1>13, <2>1
      <4>2. ASSUME NEW k \in Loads(e, generation)
            PROVE  k <= j + 1
        <5>1. k \in 1 .. n
          BY <2>3
        <5>2. CASE k = 1
          BY <5>2, <4>1
        <5>3. CASE k # 1
          <6>1. k - 1 <= j
            BY <5>3, <2>4, <3>2
          <6> QED  BY <6>1, <5>1, <4>1
        <5> QED  BY <5>2, <5>3
      <4> QED  BY <4>1, <4>2, <3>1
    <3>3. ASSUME Loads(r, generation) = {}, r.store # 0
          PROVE  /\ \A j \in Of(r, r.store) :
                      (\A k \in Of(r, r.store) : k <= j) => out[j].vars = e.last
                 /\ Of(r, r.store) = {} => got[r.store].vars = e.last
      <4>1. \A k \in Loads(e, generation) : k = 1
        BY <2>4, <3>3
      <4>2. Of(r, r.store) \subseteq 1 .. n - 1
        BY <1>3, <1>10, <1>11 DEF Of
      <4>3. CASE 1 \in Loads(e, generation)
        <5>1. r.store = s.store /\ s.load
          BY <4>3, <1>8, <1>11, <1>15
        <5>2. Of(r, r.store) = {}
          <6> SUFFICES ASSUME NEW j \in Of(r, r.store)
                       PROVE  FALSE
            OBVIOUS
          <6>1. j \in 1 .. n - 1 /\ out[j].store = s.store
            BY <5>1, <4>2, <1>10, <1>11 DEF Of
          <6>2. out[j] = e.sends[j + 1] /\ j + 1 \in 1 .. n /\ j + 1 # 1
            BY <6>1, <2>1, <1>1
          <6> QED  BY <6>1, <6>2, <5>1, <1>7, <1>15
        <5>3. 1 <= 1 /\ e.sends[1].vars = e.last
          BY <4>1, <4>3, <3>1
        <5>4. got[r.store].vars = e.last
          BY <5>1, <5>3, <1>5, <1>15 DEF s
        <5> QED  BY <5>2, <5>4
      <4>4. CASE 1 \notin Loads(e, generation)
        <5>1. Loads(e, generation) = {} /\ r.store = e.store
          BY <4>1, <4>4, <1>11, <1>15
        <5>2. /\ \A j \in Of(e, e.store) :
                   (\A k \in Of(e, e.store) : k <= j) => e.sends[j].vars = e.last
              /\ Of(e, e.store) = {} => e.stores[e.store].vars = e.last
          BY <5>1, <3>1, <3>3
        <5>3. \A j \in 1 .. n - 1 : j \in Of(r, r.store) <=> j + 1 \in Of(e, e.store)
          <6> SUFFICES ASSUME NEW j \in 1 .. n - 1
                       PROVE  j \in Of(r, r.store) <=> j + 1 \in Of(e, e.store)
            OBVIOUS
          <6>1. j + 1 \in 1 .. n /\ out[j] = e.sends[j + 1]
            BY <2>1, <1>1
          <6> QED  BY <6>1, <5>1, <1>1, <1>3, <1>10, <1>11 DEF Of
        <5>4. \A k \in Of(e, e.store) : k # 1 => k - 1 \in Of(r, r.store)
          BY <5>3, <2>2, <2>3
        <5>5. ASSUME NEW j \in Of(r, r.store), \A k \in Of(r, r.store) : k <= j
              PROVE  out[j].vars = e.last
          <6>1. j \in 1 .. n - 1 /\ j + 1 \in Of(e, e.store) /\ out[j] = e.sends[j + 1]
            BY <4>2, <5>3, <2>1
          <6>2. ASSUME NEW k \in Of(e, e.store)
                PROVE  k <= j + 1
            <7>1. k \in 1 .. n
              BY <2>3
            <7>2. CASE k = 1
              BY <7>2, <6>1
            <7>3. CASE k # 1
              <8>1. k - 1 <= j
                BY <7>3, <5>4, <5>5
              <8> QED  BY <8>1, <7>1, <6>1
            <7> QED  BY <7>2, <7>3
          <6> QED  BY <6>1, <6>2, <5>2
        <5>6. ASSUME Of(r, r.store) = {}
              PROVE  got[r.store].vars = e.last
          <6>1. \A k \in Of(e, e.store) : k = 1
            BY <5>4, <5>6
          <6>2. CASE s.store = e.store
            <7>1. 1 \in Of(e, e.store)
              BY <6>2, <1>1, <1>15 DEF Of, s
            <7>2. e.sends[1].vars = e.last
              BY <7>1, <6>1, <5>2
            <7> QED  BY <7>2, <6>2, <5>1, <1>5, <1>15 DEF s
          <6>3. CASE s.store # e.store
            <7>1. 1 \notin Of(e, e.store)
              BY <6>3, <1>15 DEF Of, s
            <7>2. e.stores[e.store].vars = e.last
              BY <7>1, <6>1, <5>2
            <7>3. e.store \in DOMAIN e.stores
              BY <5>1, <3>3, <1>1 DEF Sound
            <7> QED  BY <7>2, <7>3, <6>3, <5>1, <1>5
          <6> QED  BY <6>2, <6>3
        <5> QED  BY <5>5, <5>6
      <4> QED  BY <4>3, <4>4
    <3> QED  BY <3>2, <3>3
  <2>6. ASSUME Lone(e, generation)
        PROVE  Heading(r, generation) \/ Lone(r, generation)
    <3>1. /\ \A j, k \in Loads(e, generation) : j = k
          /\ Loads(e, generation) # {} => e.store = 0
      BY <2>6 DEF Lone
    <3>2. \A j \in Loads(r, generation) : j \in 1 .. n - 1 /\ j + 1 \in Loads(e, generation)
      BY <1>13, <2>1
    <3>3. \A j, k \in Loads(r, generation) : j = k
      <4>1. ASSUME NEW j \in Loads(r, generation), NEW k \in Loads(r, generation)
            PROVE  j = k
        <5>1. j \in 1 .. n - 1 /\ k \in 1 .. n - 1 /\ j + 1 = k + 1
          BY <3>1, <3>2
        <5> QED  BY <5>1
      <4> QED  BY <4>1
    <3>4. Loads(r, generation) # {} => r.store = 0
      <4> SUFFICES ASSUME NEW j \in Loads(r, generation)
                   PROVE  r.store = 0
        OBVIOUS
      <4>1. j \in 1 .. n - 1 /\ j + 1 \in Loads(e, generation) /\ j + 1 # 1
        BY <3>2, <1>1
      <4>2. 1 \notin Loads(e, generation)
        BY <3>1, <4>1
      <4> QED  BY <4>1, <4>2, <3>1, <1>11, <1>15
    <3> QED  BY <3>3, <3>4 DEF Lone
  <2> QED  BY <2>5, <2>6, <1>10, <1>14 DEF Onward
<1> QED  BY <1>10, <1>14, <1>15 DEF r, x, got, out, s

\* The visible page renders: it keeps its stores, and it suspends only if it is tagged with
\* variables that are not those of its url.
LEMMA ShowPageShows ==
  ASSUME RouterConstants, Marked, url \in Urls, NEW now, ShowPage(now), url' = url,
         disturbed' = disturbed, \A d \in DocsOf[url] : shown[d].store # 0,
         disturbed \/ Lagging \/ \A d \in DocsOf[url] : now[d].last = ArgsOf[url][d]
  PROVE  /\ \A d \in DocsOf[url] : shown'[d].store # 0
         /\ NeverBlank'
<1>1. CASE \A d \in DocsOf[url] : StoreRef(d, now[d]) # 0
  <2>1. /\ shown' = [d \in Documents |-> IF d \in DocsOf[url]
                      THEN [store |-> StoreRef(d, now[d]), vars |-> now[d].last]
                      ELSE shown[d]]
        /\ blank' = FALSE
    BY <1>1 DEF ShowPage
  <2>2. DocsOf[url] \subseteq Documents
    BY DEF RouterConstants
  <2> QED  BY <1>1, <2>1, <2>2 DEF NeverBlank
<1>2. CASE ~\A d \in DocsOf[url] : StoreRef(d, now[d]) # 0
  <2>1. shown' = shown
    BY <1>2 DEF ShowPage
  <2>2. PICK d \in DocsOf[url] : StoreRef(d, now[d]) = 0
    BY <1>2
  <2>3. ~Lagging /\ (shown[d].vars = None \/ shown[d].vars # now[d].last)
    BY <2>2 DEF StoreRef
  <2>4. d \in Documents /\ ArgsOf[url][d] # None
    BY DEF RouterConstants, Marked
  <2>5. disturbed \/ shown[d].vars # ArgsOf[url][d]
    BY <2>3, <2>4
  <2>6. disturbed' \/ ~TaggedRight'
    BY <2>1, <2>5 DEF TaggedRight
  <2> QED  BY <2>1, <2>6 DEF NeverBlank
<1> QED  BY <1>1, <1>2

\* A step that keeps the page, the generation and what is disturbed.
LEMMA SamePage ==
  ASSUME Shows, generation' = generation, url' = url, disturbed' = disturbed,
         overtaken \subseteq overtaken',
         \A d \in Documents : /\ Orderly(docs'[d], generation)
                              /\ docs[d].artifact => docs'[d].artifact
                              /\ d \notin overtaken' => Onward(docs[d], docs'[d], generation),
         DocsOf[url] \subseteq Documents,
         \A d \in DocsOf[url] : shown'[d].store # 0,
         disturbed \/ Lagging' \/ \A d \in DocsOf[url] : docs'[d].last = ArgsOf[url][d],
         NeverBlank'
  PROVE  Shows'
<1>1. ASSUME NEW d \in Documents
      PROVE  /\ Orderly(docs'[d], generation')
             /\ d \notin overtaken' =>
                  Heading(docs'[d], generation') \/ Lone(docs'[d], generation')
  BY DEF Shows, Onward
<1>2. ASSUME NEW d \in DocsOf[url]
      PROVE  /\ docs'[d].artifact /\ shown'[d].store # 0
             /\ d \notin overtaken' => Heading(docs'[d], generation')
  BY DEF Shows, Onward
<1> QED  BY <1>1, <1>2 DEF Shows

\* What does nothing to an entry.
LEMMA Unmoved ==
  ASSUME NEW e, NEW g, Orderly(e, g)
  PROVE  Onward(e, e, g)
BY DEF Onward

\* Loading a page moves every entry onward and leaves the variables of its url.
LEMMA LoadDataOnward ==
  ASSUME RouterConstants, Marked, Inv, Shows, NEW u \in Urls, NEW d \in Documents
  PROVE  /\ Onward(docs[d], LoadData(u)[d], generation)
         /\ Orderly(LoadData(u)[d], generation)
         /\ docs[d].artifact => LoadData(u)[d].artifact
         /\ d \in DocsOf[u] /\ docs[d].artifact => LoadData(u)[d].last = ArgsOf[u][d]
         /\ d \in DocsOf[u] /\ LoadData(u)[d].store # 0 => docs[d].artifact
<1>1. /\ Sound(docs[d]) /\ Orderly(docs[d], generation) /\ ArgsOf[u][d] \in Variables
      /\ generation \in Nat /\ session = generation + 1
  BY DEF Inv, Shows, RouterConstants
<1>2. LoadData(u)[d] = IF d \in DocsOf[u] THEN LoadDocument(docs[d], ArgsOf[u][d]) ELSE docs[d]
  BY DEF LoadData
<1>3. CASE d \in DocsOf[u]
  <2> DEFINE r == LoadDocument(docs[d], ArgsOf[u][d])
  <2>1. /\ Onward(docs[d], r, generation)
        /\ docs[d].artifact => r.last = ArgsOf[u][d]
        /\ r.store # 0 => docs[d].artifact
    BY <1>1, LoadDocumentOnward
  <2>2. LoadData(u)[d] = r
    BY <1>2, <1>3
  <2> HIDE DEF r
  <2> QED  BY <2>1, <2>2, <1>3 DEF Onward
<1>4. CASE d \notin DocsOf[u]
  <2>1. LoadData(u)[d] = docs[d]
    BY <1>2, <1>4
  <2> QED  BY <2>1, <1>1, <1>4, Unmoved
<1> QED  BY <1>3, <1>4

\* The renders that leave the url as it is.
LEMMA RenderShows ==
  ASSUME RouterConstants, Marked, Inv, Shows,
         \/ \E u \in Urls : Navigate(u) \/ Preload(u)
         \/ ComponentArrives \/ RenderRouter \/ RenderPage
  PROVE  Shows'
<1>1. url \in Urls /\ DocsOf[url] \subseteq Documents
  BY DEF Inv, Places, RouterConstants
<1>2. /\ \A d \in Documents : Orderly(docs[d], generation) /\ Onward(docs[d], docs[d], generation)
      /\ \A d \in DocsOf[url] : docs[d].artifact /\ shown[d].store # 0
      /\ disturbed \/ Lagging \/ \A d \in DocsOf[url] : docs[d].last = ArgsOf[url][d]
      /\ NeverBlank
  BY Unmoved DEF Shows
<1>3. \A d \in DocsOf[url] : LoadData(url)[d].last = ArgsOf[url][d]
  BY <1>1, <1>2, LoadDataOnward
<1>4. ASSUME NEW u \in Urls
      PROVE  \A d \in Documents : /\ Orderly(LoadData(u)[d], generation)
                                  /\ docs[d].artifact => LoadData(u)[d].artifact
                                  /\ Onward(docs[d], LoadData(u)[d], generation)
  BY LoadDataOnward
<1>5. ASSUME NEW u \in Urls, Navigate(u)
      PROVE  Shows'
  <2>1. docs' = LoadData(url) /\ UNCHANGED <<url, generation, shown, blank, disturbed, overtaken>>
    BY <1>5 DEF Navigate, history
  <2>2. NeverBlank'
    BY <2>1, <1>2 DEF NeverBlank, TaggedRight
  <2> QED  BY <2>1, <2>2, <1>1, <1>2, <1>3, <1>4, SamePage
<1>6. ASSUME NEW u \in Urls, Preload(u)
      PROVE  Shows'
  <2>1. /\ docs' = LoadData(u) /\ disturbed' = TRUE
        /\ UNCHANGED <<url, generation, shown, blank, overtaken>>
    BY <1>6 DEF Preload
  <2>2. NeverBlank'
    BY <2>1 DEF NeverBlank
  <2>3. \A d \in Documents :
          /\ Orderly(docs'[d], generation')
          /\ d \notin overtaken' => Heading(docs'[d], generation') \/ Lone(docs'[d], generation')
    BY <2>1, <1>4 DEF Shows, Onward
  <2>4. \A d \in DocsOf[url] : /\ docs'[d].artifact /\ shown'[d].store # 0
                               /\ d \notin overtaken' => Heading(docs'[d], generation')
    BY <2>1, <1>1, <1>4 DEF Shows, Onward
  <2> QED  BY <2>1, <2>2, <2>3, <2>4 DEF Shows
<1>7. CASE ComponentArrives
  <2>1. UNCHANGED <<docs, url, target, generation, shown, blank, disturbed, overtaken>>
    BY <1>7 DEF ComponentArrives, history
  <2>2. NeverBlank' /\ (Lagging' <=> Lagging)
    BY <2>1, <1>2 DEF NeverBlank, TaggedRight, Lagging
  <2> QED  BY <2>1, <2>2, <1>1, <1>2, SamePage
<1>8. CASE RenderRouter
  <2>1. /\ docs' = LoadData(url) /\ ShowPage(docs')
        /\ UNCHANGED <<url, target, generation, disturbed, overtaken>>
    BY <1>8 DEF RenderRouter, history
  <2>2. (\A d \in DocsOf[url] : shown'[d].store # 0) /\ NeverBlank'
    BY <2>1, <1>1, <1>2, <1>3, ShowPageShows
  <2> QED  BY <2>1, <2>2, <1>1, <1>3, <1>4, SamePage
<1>9. CASE RenderPage
  <2>1. /\ ShowPage(docs)
        /\ UNCHANGED <<docs, url, target, generation, disturbed, overtaken>>
    BY <1>9 DEF RenderPage, history
  <2>2. (\A d \in DocsOf[url] : shown'[d].store # 0) /\ NeverBlank'
    BY <2>1, <1>1, <1>2, ShowPageShows
  <2>3. Lagging' <=> Lagging
    BY <2>1 DEF Lagging
  <2> QED  BY <2>1, <2>2, <2>3, <1>1, <1>2, SamePage
<1> QED  BY <1>5, <1>6, <1>7, <1>8, <1>9

\* The destination is rendered, and perhaps committed.
LEMMA RenderTargetShows ==
  ASSUME RouterConstants, Marked, Inv, Shows, RenderTarget
  PROVE  Shows'
<1> DEFINE now == LoadData(target)
<1>1. /\ url \in Urls /\ DocsOf[url] \subseteq Documents /\ target \in Urls
      /\ DocsOf[target] \subseteq Documents /\ Lagging
  BY DEF Inv, Places, RouterConstants, RenderTarget, Lagging
<1>2. UNCHANGED <<target, generation, disturbed, overtaken>>
  BY DEF RenderTarget, history
<1>3. \A d \in Documents : /\ Orderly(now[d], generation)
                           /\ docs[d].artifact => now[d].artifact
                           /\ Onward(docs[d], now[d], generation)
                           /\ d \in DocsOf[target] /\ docs[d].artifact =>
                                now[d].last = ArgsOf[target][d]
                           /\ d \in DocsOf[target] /\ now[d].store # 0 => docs[d].artifact
  BY <1>1, LoadDataOnward
<1>4. \A d \in Documents : Sound(now[d])
  BY <1>1, LoadDataSound
<1>5. \/ /\ \A d \in DocsOf[target] : now[d].store # 0
         /\ url' = target
         /\ docs' = [d \in Documents |-> IF d \in DocsOf[target]
                       THEN Revalidated(now[d], ArgsOf[target][d]) ELSE now[d]]
         /\ shown' = [d \in Documents |-> IF d \in DocsOf[target]
                        THEN [store |-> now[d].store, vars |-> now[d].last]
                        ELSE NotShown]
         /\ blank' = FALSE
      \/ docs' = now /\ UNCHANGED <<url, shown, blank>>
  BY DEF RenderTarget
<1> HIDE DEF now
<1>6. CASE docs' = now /\ UNCHANGED <<url, shown, blank>>
  <2>1. Lagging'
    BY <1>1, <1>2, <1>6 DEF Lagging
  <2>2. NeverBlank' /\ \A d \in DocsOf[url] : shown'[d].store # 0
    BY <1>2, <1>6 DEF Shows, NeverBlank, TaggedRight
  <2> QED  BY <2>1, <2>2, <1>1, <1>2, <1>3, <1>6, SamePage
<1>7. CASE /\ \A d \in DocsOf[target] : now[d].store # 0
           /\ url' = target
           /\ docs' = [d \in Documents |-> IF d \in DocsOf[target]
                         THEN Revalidated(now[d], ArgsOf[target][d]) ELSE now[d]]
           /\ shown' = [d \in Documents |-> IF d \in DocsOf[target]
                          THEN [store |-> now[d].store, vars |-> now[d].last]
                          ELSE NotShown]
           /\ blank' = FALSE
  <2>1. ASSUME NEW d \in DocsOf[target]
        PROVE  /\ Orderly(docs'[d], generation) /\ docs'[d].artifact
               /\ docs'[d].last = ArgsOf[target][d] /\ shown'[d].store # 0
               /\ d \notin overtaken => Heading(docs'[d], generation)
    <3> DEFINE r == Revalidated(now[d], ArgsOf[target][d])
    <3>1. d \in Documents /\ ArgsOf[target][d] \in Variables
      BY <1>1 DEF RouterConstants
    <3>2. now[d].store # 0 /\ now[d].last = ArgsOf[target][d]
      BY <3>1, <1>3, <1>7
    <3>3. /\ Orderly(r, generation) /\ r.artifact /\ r.last = ArgsOf[target][d]
          /\ Heading(now[d], generation) \/ Lone(now[d], generation) => Heading(r, generation)
      BY <3>1, <3>2, <1>3, <1>4, RevalidatedHeading DEF Inv
    <3>4. d \notin overtaken => Heading(now[d], generation) \/ Lone(now[d], generation)
      BY <3>1, <1>3 DEF Shows, Onward
    <3>5. docs'[d] = r /\ shown'[d].store = now[d].store
      BY <3>1, <1>7
    <3> HIDE DEF r
    <3> QED  BY <3>2, <3>3, <3>4, <3>5
  <2>2. ASSUME NEW d \in Documents, d \notin DocsOf[target]
        PROVE  /\ Orderly(docs'[d], generation)
               /\ d \notin overtaken => Heading(docs'[d], generation) \/ Lone(docs'[d], generation)
    <3>1. docs'[d] = now[d]
      BY <2>2, <1>7
    <3> QED  BY <3>1, <1>3 DEF Shows, Onward
  <2>3. NeverBlank'
    BY <1>7 DEF NeverBlank
  <2>4. \A d \in Documents :
          /\ Orderly(docs'[d], generation')
          /\ d \notin overtaken' => Heading(docs'[d], generation') \/ Lone(docs'[d], generation')
    BY <2>1, <2>2, <1>2
  <2>5. \A d \in DocsOf[url'] : /\ docs'[d].artifact /\ shown'[d].store # 0
                                /\ docs'[d].last = ArgsOf[url'][d]
                                /\ d \notin overtaken' => Heading(docs'[d], generation')
    BY <2>1, <1>2, <1>7
  <2> QED  BY <2>3, <2>4, <2>5 DEF Shows
<1> QED  BY <1>5, <1>6, <1>7

\* The artifact of a document arrives, or not, or a request is answered.
LEMMA ReplyShows ==
  ASSUME RouterConstants, Marked, Inv, Shows, NEW d \in Documents,
         \/ ArtifactArrives(d) \/ ArtifactFails(d)
         \/ \E i \in DOMAIN docs[d].sends : Answer(d, i)
  PROVE  Shows'
<1>1. /\ Sound(docs[d]) /\ docs[d] \in Entry /\ generation \in Nat /\ session = generation + 1
      /\ docs = [x \in Documents |-> docs[x]] /\ DocsOf[url] \subseteq Documents
      /\ Orderly(docs[d], generation) /\ docs[d].imports \in Seq(Variables)
      /\ docs[d].artifact \in BOOLEAN
  BY EntryFields DEF Inv, Sound, Shows, RouterConstants, Places
<1>2. /\ UNCHANGED <<url, target, generation, shown, blank, disturbed>>
      /\ overtaken \subseteq overtaken'
  BY DEF ArtifactArrives, ArtifactFails, Answer, history
<1>3. (Lagging' <=> Lagging) /\ NeverBlank' /\ \A x \in DocsOf[url] : shown'[x].store # 0
  BY <1>2 DEF Shows, NeverBlank, TaggedRight, Lagging
<1>4. ASSUME NEW r, docs' = [docs EXCEPT ![d] = r], Orderly(r, generation),
             r.artifact = docs[d].artifact, r.last = docs[d].last,
             d \notin overtaken' => Onward(docs[d], r, generation)
      PROVE  Shows'
  <2>1. \A x \in Documents : docs'[x] = IF x = d THEN r ELSE docs[x]
    BY <1>1, <1>4
  <2>2. \A x \in Documents : /\ Orderly(docs'[x], generation)
                             /\ docs[x].artifact => docs'[x].artifact
                             /\ x \notin overtaken' => Onward(docs[x], docs'[x], generation)
    BY <2>1, <1>4, Unmoved DEF Shows
  <2>3. \A x \in DocsOf[url] : docs'[x].last = docs[x].last
    BY <2>1, <1>1, <1>4
  <2> QED  BY <2>2, <2>3, <1>1, <1>2, <1>3, SamePage DEF Shows
<1>5. CASE ArtifactArrives(d)
  <2> DEFINE e == [docs[d] EXCEPT !.artifact = TRUE, !.imports = <<>>]
             q == LoadQuery(e, Head(docs[d].imports))
             r == [q EXCEPT !.last = Last(docs[d].imports)]
  <2>1. docs[d].imports # <<>> /\ docs' = [docs EXCEPT ![d] = r] /\ overtaken' = overtaken
    BY <1>5 DEF ArtifactArrives, history
  <2>2. Head(docs[d].imports) \in Variables /\ Last(docs[d].imports) \in Variables
    BY <2>1, <1>1 DEF Last
  <2>3. ~docs[d].artifact /\ docs[d].store = 0 /\ Loads(docs[d], generation) = {}
    BY <2>1, <1>1 DEF Orderly
  <2>4. e \in Entry /\ e.sends = docs[d].sends /\ e.stores = docs[d].stores
        /\ e.store = docs[d].store /\ e.artifact = TRUE /\ e.imports = <<>>
        /\ e.last = docs[d].last
    <3>1. <<>> \in Seq(Variables)
      OBVIOUS
    <3> QED  BY <3>1, <1>1 DEF Entry
  <2> HIDE DEF e
  <2>5. Sound(e) /\ Orderly(e, generation) /\ Loads(e, generation) = {}
    <3>1. Sound(e)
      BY <2>4, <1>1, SoundKept
    <3>2. Loads(e, generation) = {}
      BY <2>3, <2>4 DEF Loads
    <3>3. Orderly(e, generation)
      BY <2>3, <2>4, <3>2, <1>1 DEF Orderly
    <3> QED  BY <3>1, <3>2, <3>3
  <2>6. Orderly(q, generation) /\ q.artifact /\ Lone(q, generation) /\ q.store = 0
    BY <2>2, <2>3, <2>4, <2>5, <1>1, LoadQueryOnward
  <2>7. q \in Entry
    BY <2>2, <2>5, <1>1, LoadQuerySound DEF Sound
  <2> HIDE DEF q
  <2>8. /\ r \in Entry /\ r.sends = q.sends /\ r.stores = q.stores /\ r.store = q.store
        /\ r.artifact = q.artifact /\ r.imports = q.imports /\ r.last \in Variables
    BY <2>2, <2>7 DEF Entry
  <2> HIDE DEF r
  <2>9. Loads(r, generation) = Loads(q, generation)
    BY <2>8 DEF Loads
  <2>10. Orderly(r, generation) /\ Lone(r, generation)
    BY <2>6, <2>8, <2>9 DEF Orderly, Lone, Marked
  <2>11. \A x \in Documents : docs'[x] = IF x = d THEN r ELSE docs[x]
    BY <2>1, <1>1
  <2>12. d \notin DocsOf[url]
    BY <2>3 DEF Shows
  <2>13. \A x \in Documents :
          /\ Orderly(docs'[x], generation')
          /\ x \notin overtaken' => Heading(docs'[x], generation') \/ Lone(docs'[x], generation')
    BY <2>1, <2>10, <2>11, <1>2 DEF Shows
  <2>14. \A x \in DocsOf[url] : docs'[x] = docs[x]
    BY <2>11, <2>12, <1>1
  <2> QED  BY <2>1, <2>13, <2>14, <1>2, <1>3 DEF Shows
<1>6. CASE ArtifactFails(d)
  <2> DEFINE r == [docs[d] EXCEPT !.imports = <<>>, !.failed = TRUE]
  <2>1. docs' = [docs EXCEPT ![d] = r] /\ overtaken' = overtaken
    BY <1>6, <1>1 DEF ArtifactFails, history
  <2>2. r \in Entry /\ r.sends = docs[d].sends /\ r.stores = docs[d].stores
        /\ r.store = docs[d].store /\ r.artifact = docs[d].artifact /\ r.last = docs[d].last
        /\ r.imports = <<>>
    <3>1. <<>> \in Seq(Variables)
      OBVIOUS
    <3> QED  BY <3>1, <1>1 DEF Entry
  <2> HIDE DEF r
  <2>3. Onward(docs[d], r, generation)
    BY <2>2, <1>1, OnwardKept
  <2> QED  BY <2>1, <2>2, <2>3, <1>4 DEF Onward
<1>7. ASSUME NEW i \in DOMAIN docs[d].sends, Answer(d, i)
      PROVE  Shows'
  <2> DEFINE s == docs[d].sends[i]
             r == Arrived([docs[d] EXCEPT !.sends = RemoveAt(docs[d].sends, i),
                                          !.stores = [docs[d].stores EXCEPT ![s.store] =
                                            [vars |-> s.vars, session |-> s.session]]], s)
  <2>1. /\ docs' = [docs EXCEPT ![d] = r]
        /\ overtaken' = IF i = 1 THEN overtaken ELSE overtaken \cup {d}
    BY <1>7 DEF Answer
  <2>2. /\ Orderly(r, generation) /\ r.artifact = docs[d].artifact /\ r.last = docs[d].last
        /\ i = 1 => Onward(docs[d], r, generation)
    BY <1>1, ArrivedOrderly
  <2> HIDE DEF r, s
  <2> QED  BY <2>1, <2>2, <1>4
<1> QED  BY <1>5, <1>6, <1>7

\* What drops the caches.
LEMMA DropShows ==
  ASSUME RouterConstants, Marked, Inv, Shows, ChangeSession \/ \E d \in Documents : HotUpdate(d)
  PROVE  Shows'
<1>1. /\ \A d \in Documents : Sound(docs[d]) /\ docs[d] \in Entry
      /\ generation \in Nat /\ session = generation + 1 /\ url \in Urls
      /\ docs = [x \in Documents |-> docs[x]] /\ DocsOf[url] \subseteq Documents
  BY DEF Inv, Sound, RouterConstants, Places
<1>2. NeverBlank' /\ disturbed'
  BY DEF ChangeSession, HotUpdate, NeverBlank
<1>3. url' = url /\ shown' = shown /\ overtaken' = overtaken
  BY DEF ChangeSession, HotUpdate
<1>4. CASE ChangeSession
  <2>1. docs' = [d \in Documents |-> Invalidated(docs[d])] /\ generation' = generation + 1
    BY <1>4 DEF ChangeSession
  <2>2. ASSUME NEW d \in Documents
        PROVE  /\ Orderly(docs'[d], generation') /\ Heading(docs'[d], generation')
               /\ docs'[d].artifact = docs[d].artifact
    <3> DEFINE r == [docs[d] EXCEPT !.store = 0, !.signal = FALSE, !.last = None]
    <3>1. docs'[d] = r
      BY <2>1 DEF Invalidated
    <3>2. /\ r.sends = docs[d].sends /\ r.store = 0 /\ r.last = None
          /\ r.artifact = docs[d].artifact /\ r.imports = docs[d].imports
      BY <1>1 DEF Entry
    <3> HIDE DEF r
    <3>3. \A i \in DOMAIN r.sends : /\ r.sends[i] \in Send /\ r.sends[i].generation <= generation
                                    /\ r.sends[i].store \in 1 .. Len(docs[d].stores)
      BY <3>2, <1>1, EntryFields DEF Shows, Orderly, Sound
    <3>4. \A i \in DOMAIN r.sends : /\ r.sends[i].generation <= generation + 1
                                    /\ r.sends[i].generation # generation + 1
                                    /\ r.sends[i].store # 0
      BY <3>3, <1>1 DEF Send
    <3>5. Loads(r, generation + 1) = {}
      BY <3>4 DEF Loads
    <3>6. /\ \A i, j \in DOMAIN r.sends :
               r.sends[i].load /\ r.sends[i].store = r.sends[j].store => i = j
          /\ r.artifact => r.imports = <<>>
      BY <3>2 DEF Shows, Orderly
    <3>7. Orderly(r, generation + 1)
      BY <3>2, <3>4, <3>5, <3>6 DEF Orderly
    <3>8. Heading(r, generation + 1)
      BY <3>2 DEF Heading
    <3> QED  BY <3>1, <3>2, <3>7, <3>8, <2>1
  <2>3. \A d \in DocsOf[url] : docs'[d].artifact /\ Heading(docs'[d], generation')
    BY <2>2, <1>1 DEF Shows
  <2> QED  BY <2>2, <2>3, <1>2, <1>3 DEF Shows
<1>5. ASSUME NEW d \in Documents, HotUpdate(d)
      PROVE  Shows'
  <2> DEFINE e == [docs[d] EXCEPT !.store = 0, !.signal = FALSE]
             r == IF d \in DocsOf[url] THEN LoadDocument(e, ArgsOf[url][d]) ELSE e
  <2>1. docs' = [LoadData(url) EXCEPT ![d] = r] /\ generation' = generation
    BY <1>5 DEF HotUpdate
  <2>2. e \in Entry /\ e.sends = docs[d].sends /\ e.stores = docs[d].stores /\ e.store = 0
        /\ e.last = docs[d].last /\ e.artifact = docs[d].artifact /\ e.imports = docs[d].imports
    BY <1>1 DEF Entry
  <2> HIDE DEF e
  <2>3. Orderly(docs[d], generation) /\ ArgsOf[url][d] \in Variables
    BY <1>1 DEF Shows, RouterConstants
  <2>4. Onward(docs[d], e, generation)
    <3>1. docs[d].artifact => docs[d].imports = <<>>
      BY <2>3 DEF Orderly
    <3> QED  BY <2>2, <2>3, <3>1, <1>1, OnwardKept
  <2>5. Sound(e) /\ Orderly(e, generation)
    BY <2>2, <2>4, <1>1, SoundKept DEF Onward
  <2>6. Onward(e, r, generation)
    <3>1. CASE d \in DocsOf[url]
      BY <2>3, <2>5, <3>1, <1>1, LoadDocumentOnward
    <3>2. CASE d \notin DocsOf[url]
      BY <2>5, <3>2, Unmoved
    <3> QED  BY <3>1, <3>2
  <2> HIDE DEF r
  <2>7. Onward(docs[d], r, generation)
    BY <2>4, <2>6 DEF Onward
  <2>8. \A x \in Documents : docs'[x] = IF x = d THEN r ELSE LoadData(url)[x]
    <3>1. LoadData(url) = [x \in Documents |-> LoadData(url)[x]]
      BY <1>1, LoadDataSound
    <3> QED  BY <3>1, <2>1
  <2>9. \A x \in Documents : Onward(docs[x], docs'[x], generation)
    BY <2>7, <2>8, <1>1, LoadDataOnward
  <2>10. \A x \in Documents :
           /\ Orderly(docs'[x], generation')
           /\ x \notin overtaken' => Heading(docs'[x], generation') \/ Lone(docs'[x], generation')
    BY <2>1, <2>9, <1>3 DEF Shows, Onward
  <2>11. \A x \in DocsOf[url] : /\ docs'[x].artifact /\ shown'[x].store # 0
                                /\ x \notin overtaken' => Heading(docs'[x], generation')
    BY <2>1, <2>9, <1>1, <1>3 DEF Shows, Onward
  <2> QED  BY <2>10, <2>11, <1>2, <1>3 DEF Shows
<1> QED  BY <1>4, <1>5

\* The invariant on what pages show, for any urls, documents and number of events (loadData,
\* load_query, useQueryResult and the revalidation in Router.tsx).
THEOREM ShowsHolds ==
  ASSUME RouterConstants, Marked
  PROVE  Spec => []Shows
<1>1. Init => Shows
  <2> SUFFICES ASSUME Init PROVE Shows
    OBVIOUS
  <2>1. /\ generation = 0 /\ url = Home /\ Home \in Urls /\ ~blank /\ DocsOf[Home] \subseteq Documents
        /\ docs = [d \in Documents |-> IF d \in DocsOf[Home] THEN Hydrated(d) ELSE NewEntry]
        /\ shown = [d \in Documents |-> IF d \in DocsOf[Home]
                      THEN [store |-> 1, vars |-> ArgsOf[Home][d]] ELSE NotShown]
    BY DEF Init, RouterConstants
  <2>2. ASSUME NEW d \in DocsOf[Home]
        PROVE  /\ Orderly(docs[d], 0) /\ Heading(docs[d], 0) /\ docs[d].artifact
               /\ docs[d].last = ArgsOf[Home][d] /\ shown[d].store # 0
    <3> DEFINE v == ArgsOf[Home][d]
               q == <<[vars |-> v, session |-> 1]>>
    <3>1. v # None /\ d \in Documents
      BY <2>1 DEF RouterConstants, Marked
    <3>2. docs[d] = [artifact |-> TRUE, store |-> 1, signal |-> FALSE, last |-> v,
                     imports |-> <<>>, failed |-> FALSE, sends |-> <<>>, stores |-> q]
      BY <2>1, <3>1 DEF Hydrated, NewEntry
    <3>3. q[1].vars = v /\ shown[d].store = 1
      BY <2>1, <3>1
    <3> HIDE DEF q, v
    <3>4. /\ docs[d].artifact /\ docs[d].store = 1 /\ docs[d].last = v /\ docs[d].imports = <<>>
          /\ docs[d].sends = <<>> /\ docs[d].stores = q
      BY <3>2
    <3>5. Loads(docs[d], 0) = {} /\ Of(docs[d], 1) = {} /\ DOMAIN docs[d].sends = {}
      BY <3>4 DEF Loads, Of
    <3>6. Orderly(docs[d], 0)
      BY <3>1, <3>4, <3>5 DEF Orderly
    <3>7. Heading(docs[d], 0)
      BY <3>3, <3>4, <3>5 DEF Heading
    <3> QED  BY <3>3, <3>4, <3>6, <3>7 DEF v
  <2>3. ASSUME NEW d \in Documents, d \notin DocsOf[Home]
        PROVE  Orderly(docs[d], 0) /\ Heading(docs[d], 0)
    <3>1. docs[d] = NewEntry
      BY <2>1, <2>3
    <3>2. /\ ~docs[d].artifact /\ docs[d].store = 0 /\ docs[d].last = None
          /\ docs[d].sends = <<>>
      BY <3>1 DEF NewEntry
    <3>3. Loads(docs[d], 0) = {} /\ DOMAIN docs[d].sends = {}
      BY <3>2 DEF Loads
    <3> QED  BY <3>2, <3>3 DEF Orderly, Heading
  <2> QED  BY <2>1, <2>2, <2>3 DEF Shows, NeverBlank
<1>2. Inv /\ Shows /\ [Next]_vars => Shows'
  <2> SUFFICES ASSUME Inv, Shows, [Next]_vars PROVE Shows'
    OBVIOUS
  <2>1. CASE \/ \E u \in Urls : Navigate(u) \/ Preload(u)
             \/ ComponentArrives \/ RenderRouter \/ RenderPage
    BY <2>1, RenderShows
  <2>2. CASE RenderTarget
    BY <2>2, RenderTargetShows
  <2>3. CASE Reply \/ \E d \in Documents : ArtifactFails(d)
    BY <2>3, ReplyShows DEF Reply
  <2>4. CASE ChangeSession \/ \E d \in Documents : HotUpdate(d)
    BY <2>4, DropShows
  <2>5. CASE UNCHANGED vars
    <3>1. UNCHANGED <<docs, url, target, generation, shown, blank, disturbed, overtaken>>
      BY <2>5 DEF vars
    <3> QED  BY <3>1 DEF Shows, NeverBlank, TaggedRight, Lagging
  <2> QED  BY <2>1, <2>2, <2>3, <2>4, <2>5 DEF Next
<1> QED  BY <1>1, <1>2, InvHolds, PTL DEF Spec

\* A navigation never blanks the page that it leaves, and once nothing is on its way for a
\* document of the page, what it shows was asked for with the variables of its url.
THEOREM NavigationShowsHolds ==
  ASSUME RouterConstants, Marked
  PROVE  Spec => []NavigationShows
<1>1. Inv /\ Shows => NavigationShows
  <2> SUFFICES ASSUME Inv, Shows PROVE NavigationShows
    OBVIOUS
  <2>1. ASSUME NEW d \in DocsOf[url], docs[d].sends = <<>>, d \notin overtaken,
               docs[d].store # 0, docs[d].last = ArgsOf[url][d]
        PROVE  docs[d].stores[docs[d].store].vars = ArgsOf[url][d]
    <3>1. ArgsOf[url][d] \in Variables
      BY DEF Inv, Places, RouterConstants
    <3>2. docs[d].last # None /\ Heading(docs[d], generation)
      BY <2>1, <3>1 DEF Shows, Marked
    <3>3. Loads(docs[d], generation) = {} /\ Of(docs[d], docs[d].store) = {}
      BY <2>1 DEF Loads, Of
    <3> QED  BY <2>1, <3>2, <3>3 DEF Heading
  <2>2. Converged
    BY <2>1 DEF Converged
  <2> QED  BY <2>2 DEF NavigationShows, Shows
<1> QED  BY <1>1, InvHolds, ShowsHolds, PTL
=============================================================================
