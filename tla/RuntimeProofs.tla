---------------------------- MODULE RuntimeProofs ----------------------------
(***************************************************************************)
(* The components of Runtime keep what they promise, for any values of     *)
(* their constants.                                                        *)
(***************************************************************************)
EXTENDS Runtime, Integers, FiniteSetTheorems, SequenceTheorems, TLAPS

(***************************************************************************)
(* Live subscriptions.                                                     *)
(***************************************************************************)

\* clear points at a listener of its own store.
ClearsOwn ==
  \A s \in Stores : liveStores[s].clear # 0 =>
    liveStores[s].clear \in DOMAIN liveListeners /\ liveListeners[liveStores[s].clear].store = s

\* An open listener is the one that its store would end.
Owned ==
  \A i \in DOMAIN liveListeners : liveListeners[i].open => liveStores[liveListeners[i].store].clear = i

\* A store that remembers a session is in use.
Checked ==
  \A s \in Stores : liveStores[s].check # NoValue => liveStores[s].used /\ liveStores[s].asked # NoValue

\* Nothing has happened that ListensToLast excludes.
Calm(s) == ~liveStores[s].overtaken /\ ~liveStores[s].failed /\ ~liveStores[s].hasty

\* The send at place i is the last one of its store that waits.
LastOf(s, i) ==
  liveWaiting[i].store = s /\ \A j \in DOMAIN liveWaiting : j > i => liveWaiting[j].store # s

\* The last send that waits is the last send.
LastWaits ==
  \A s \in Stores : \A i \in DOMAIN liveWaiting :
    (Calm(s) /\ LastOf(s, i)) => liveStores[s].used /\ liveStores[s].asked = liveWaiting[i].vars

\* Whoever waits for the client, or has listened with it, has made it.
ClientMade ==
  (liveWaiting # <<>> \/ \E s \in Stores : liveStores[s].check # NoValue) => liveClient # NoValue

LiveInv == S!TypeOK /\ ClearsOwn /\ Owned /\ Checked /\ ClientMade /\ LastWaits /\ S!ListensToLast

-----------------------------------------------------------------------------
\* What is listened to for whom.
LEMMA ListenerFields ==
  ASSUME S!TypeOK, NEW i \in DOMAIN liveListeners
  PROVE  /\ liveListeners[i] \in S!Listener
         /\ liveListeners[i].store \in Stores /\ liveListeners[i].vars \in LiveVariables
         /\ liveListeners[i].open \in BOOLEAN
<1>1. liveListeners[i] \in S!Listener
  BY DEF S!TypeOK
<1> QED  BY <1>1 DEF S!Listener

\* clearSubscription closes the listener that clear points at, and changes nothing else.
LEMMA ClearedEffect ==
  ASSUME S!TypeOK, NEW s \in Stores
  PROVE  /\ S!Cleared(liveListeners, s) \in Seq(S!Listener)
         /\ Len(S!Cleared(liveListeners, s)) = Len(liveListeners)
         /\ DOMAIN S!Cleared(liveListeners, s) = DOMAIN liveListeners
         /\ \A i \in DOMAIN liveListeners :
              /\ S!Cleared(liveListeners, s)[i].store = liveListeners[i].store
              /\ S!Cleared(liveListeners, s)[i].vars = liveListeners[i].vars
              /\ S!Cleared(liveListeners, s)[i].open = (liveListeners[i].open /\ i # liveStores[s].clear)
<1>1. liveListeners \in Seq(S!Listener)
  BY DEF S!TypeOK
<1>2. ASSUME NEW i \in DOMAIN liveListeners
      PROVE  /\ S!Cleared(liveListeners, s)[i] \in S!Listener
             /\ S!Cleared(liveListeners, s)[i].store = liveListeners[i].store
             /\ S!Cleared(liveListeners, s)[i].vars = liveListeners[i].vars
             /\ S!Cleared(liveListeners, s)[i].open = (liveListeners[i].open /\ i # liveStores[s].clear)
  <2>1. liveListeners[i] \in S!Listener /\ liveListeners[i].open \in BOOLEAN
    BY ListenerFields
  <2>2. S!Cleared(liveListeners, s)[i] =
          IF i = liveStores[s].clear THEN [liveListeners[i] EXCEPT !.open = FALSE] ELSE liveListeners[i]
    BY DEF S!Cleared
  <2> QED  BY <2>1, <2>2 DEF S!Listener
<1>3. S!Cleared(liveListeners, s) = [i \in 1 .. Len(liveListeners) |-> S!Cleared(liveListeners, s)[i]]
  BY <1>1 DEF S!Cleared
<1>5. DOMAIN liveListeners = 1 .. Len(liveListeners) /\ Len(liveListeners) \in Nat
  BY <1>1
<1>6. DOMAIN S!Cleared(liveListeners, s) = DOMAIN liveListeners
  BY DEF S!Cleared
<1>7. S!Cleared(liveListeners, s) \in Seq(S!Listener)
  BY <1>2, <1>5, <1>6, <1>3
<1>8. Len(S!Cleared(liveListeners, s)) = Len(liveListeners)
  BY <1>5, <1>6, <1>7
<1> QED  BY <1>2, <1>6, <1>7, <1>8

\* What a store does to listen: whatever else the step changes of the store, its clear is the
\* new listener and no listener of another store is touched.
LEMMA ListenEffect ==
  ASSUME LiveInv, NEW s \in Stores, NEW l \in S!Listener, l.store = s, l.open,
         liveStores' \in [Stores -> S!Store],
         liveStores'[s].clear = Len(liveListeners) + 1,
         \A t \in Stores : t # s => liveStores'[t] = liveStores[t],
         liveListeners' = Append(S!Cleared(liveListeners, s), l)
  PROVE  /\ liveListeners' \in Seq(S!Listener)
         /\ ClearsOwn' /\ Owned'
         /\ \E i \in DOMAIN liveListeners' :
              liveListeners'[i].store = s /\ liveListeners'[i].open /\ liveListeners'[i].vars = l.vars
         /\ \A t \in Stores : t # s =>
              S!Open(t)' = S!Open(t) /\ \A i \in S!Open(t) : liveListeners'[i].vars = liveListeners[i].vars
<1> DEFINE n == Len(liveListeners)
           c == S!Cleared(liveListeners, s)
<1>1. /\ c \in Seq(S!Listener) /\ Len(c) = n /\ DOMAIN c = DOMAIN liveListeners
      /\ \A i \in DOMAIN liveListeners :
           /\ c[i].store = liveListeners[i].store /\ c[i].vars = liveListeners[i].vars
           /\ c[i].open = (liveListeners[i].open /\ i # liveStores[s].clear)
  BY ClearedEffect DEF LiveInv
<1>2. liveListeners \in Seq(S!Listener) /\ n \in Nat /\ DOMAIN liveListeners = 1 .. n
  BY DEF LiveInv, S!TypeOK
<1> HIDE DEF n, c
<1>3. /\ liveListeners' \in Seq(S!Listener) /\ DOMAIN liveListeners' = 1 .. n + 1
      /\ liveListeners'[n + 1] = l /\ \A i \in 1 .. n : liveListeners'[i] = c[i]
  BY <1>1, <1>2 DEF c
<1>4. liveStores'[s].clear = n + 1
  BY DEF n
<1>5. \A i \in 1 .. n : liveListeners[i].store \in Stores /\ liveListeners[i].open \in BOOLEAN
  BY <1>2, ListenerFields DEF LiveInv
<1>6. ClearsOwn'
  <2> SUFFICES ASSUME NEW t \in Stores, liveStores'[t].clear # 0
               PROVE  /\ liveStores'[t].clear \in DOMAIN liveListeners'
                      /\ liveListeners'[liveStores'[t].clear].store = t
    BY DEF ClearsOwn
  <2>1. CASE t = s
    BY <2>1, <1>2, <1>3, <1>4
  <2>2. CASE t # s
    <3>1. liveStores'[t] = liveStores[t]
      BY <2>2
    <3>2. liveStores[t].clear \in 1 .. n /\ liveListeners[liveStores[t].clear].store = t
      BY <3>1, <1>2 DEF LiveInv, ClearsOwn
    <3> QED  BY <3>1, <3>2, <1>1, <1>2, <1>3
  <2> QED  BY <2>1, <2>2
<1>7. Owned'
  <2> SUFFICES ASSUME NEW i \in DOMAIN liveListeners', liveListeners'[i].open
               PROVE  liveStores'[liveListeners'[i].store].clear = i
    BY DEF Owned
  <2>1. CASE i = n + 1
    BY <2>1, <1>3, <1>4
  <2>2. CASE i \in 1 .. n
    <3>1. liveListeners[i].open /\ i # liveStores[s].clear
      BY <2>2, <1>1, <1>2, <1>3
    <3>2. liveStores[liveListeners[i].store].clear = i
      BY <3>1, <2>2, <1>2 DEF LiveInv, Owned
    <3>3. liveListeners[i].store # s
      BY <3>1, <3>2
    <3> QED  BY <3>2, <3>3, <2>2, <1>1, <1>2, <1>3, <1>5
  <2> QED  BY <2>1, <2>2, <1>2, <1>3
<1>8. ASSUME NEW t \in Stores, t # s
      PROVE  /\ S!Open(t)' = S!Open(t)
             /\ \A i \in S!Open(t) : liveListeners'[i].vars = liveListeners[i].vars
  <2>1. ASSUME NEW i \in 1 .. n, liveListeners[i].store = t
        PROVE  i # liveStores[s].clear
    BY <2>1, <1>8, <1>2 DEF LiveInv, ClearsOwn
  <2>2. \A i \in 1 .. n : liveListeners[i].store = t =>
          liveListeners'[i].store = t /\ liveListeners'[i].open = liveListeners[i].open
            /\ liveListeners'[i].vars = liveListeners[i].vars
    <3> SUFFICES ASSUME NEW i \in 1 .. n, liveListeners[i].store = t
                 PROVE  /\ liveListeners'[i].store = t
                        /\ liveListeners'[i].open = liveListeners[i].open
                          /\ liveListeners'[i].vars = liveListeners[i].vars
      OBVIOUS
    <3>1. /\ c[i].store = liveListeners[i].store /\ c[i].vars = liveListeners[i].vars
          /\ c[i].open = (liveListeners[i].open /\ i # liveStores[s].clear)
          /\ liveListeners'[i] = c[i] /\ liveListeners[i].open \in BOOLEAN
      BY <1>1, <1>2, <1>3, <1>5
    <3>2. i # liveStores[s].clear
      BY <2>1
    <3> QED  BY <3>1, <3>2
  <2>3. \A i \in 1 .. n : liveListeners'[i].store = liveListeners[i].store
    BY <1>1, <1>2, <1>3
  <2>4. liveListeners'[n + 1].store # t
    BY <1>3, <1>8
  <2> QED  BY <2>2, <2>3, <2>4, <1>2, <1>3 DEF S!Open
<1>9. \E i \in DOMAIN liveListeners' :
        liveListeners'[i].store = s /\ liveListeners'[i].open /\ liveListeners'[i].vars = l.vars
  BY <1>2, <1>3
<1> QED  BY <1>3, <1>6, <1>7, <1>8, <1>9

\* What a store does to stop listening.
LEMMA SilenceEffect ==
  ASSUME LiveInv, NEW s \in Stores,
         liveStores' \in [Stores -> S!Store],
         liveStores'[s].clear = liveStores[s].clear,
         \A t \in Stores : t # s => liveStores'[t] = liveStores[t],
         liveListeners' = S!Cleared(liveListeners, s)
  PROVE  /\ liveListeners' \in Seq(S!Listener)
         /\ ClearsOwn' /\ Owned' /\ S!Open(s)' = {}
         /\ \A t \in Stores : t # s =>
              S!Open(t)' = S!Open(t) /\ \A i \in S!Open(t) : liveListeners'[i].vars = liveListeners[i].vars
<1>1. /\ liveListeners' \in Seq(S!Listener) /\ DOMAIN liveListeners' = DOMAIN liveListeners
      /\ \A i \in DOMAIN liveListeners :
           /\ liveListeners'[i].store = liveListeners[i].store
           /\ liveListeners'[i].vars = liveListeners[i].vars
           /\ liveListeners'[i].open = (liveListeners[i].open /\ i # liveStores[s].clear)
  BY ClearedEffect DEF LiveInv
<1>2. \A i \in DOMAIN liveListeners : liveListeners[i].store \in Stores /\ liveListeners[i].open \in BOOLEAN
  BY ListenerFields DEF LiveInv
<1>3. \A t \in Stores : liveStores'[t].clear = liveStores[t].clear
  OBVIOUS
<1>4. ClearsOwn'
  BY <1>1, <1>3 DEF LiveInv, ClearsOwn
<1>5. Owned'
  BY <1>1, <1>2, <1>3 DEF LiveInv, Owned
<1>6. S!Open(s)' = {}
  <2>1. ASSUME NEW i \in DOMAIN liveListeners, liveListeners[i].store = s, liveListeners'[i].open
        PROVE  FALSE
    BY <2>1, <1>1, <1>2 DEF LiveInv, Owned
  <2> QED  BY <2>1, <1>1 DEF S!Open
<1>7. ASSUME NEW t \in Stores, t # s
      PROVE  /\ S!Open(t)' = S!Open(t)
             /\ \A i \in S!Open(t) : liveListeners'[i].vars = liveListeners[i].vars
  <2>1. \A i \in DOMAIN liveListeners : liveListeners[i].store = t => i # liveStores[s].clear
    BY <1>7 DEF LiveInv, ClearsOwn, S!TypeOK
  <2> QED  BY <2>1, <1>1, <1>2 DEF S!Open
<1> QED  BY <1>1, <1>4, <1>5, <1>6, <1>7

-----------------------------------------------------------------------------
(* One lemma for each action.                                              *)

\* A send that finds another session waits.
LEMMA SendWaits ==
  ASSUME LiveConstants, LiveInv, NEW s \in Stores, NEW v \in LiveVariables, NEW n \in Sessions,
         S!SendTo(s, v, n), liveStores[s].check # n
  PROVE  LiveInv'
<1> DEFINE w == [store |-> s, vars |-> v, session |-> n]
<1>1. /\ liveWaiting' = Append(liveWaiting, w)
      /\ liveClient' = IF liveClient = NoValue THEN n ELSE liveClient
      /\ liveListeners' = liveListeners /\ liveSent' = liveSent + 1 /\ liveSent < MaxSends
      /\ liveStores' = [liveStores EXCEPT ![s] =
           [liveStores[s] EXCEPT !.asked = v, !.used = TRUE, !.check = n,
                             !.overtaken = @ \/ (liveStores[s].check = n
                                                   /\ (S!Awaited(s) \/ S!WentBack(s, v)))]]
  BY DEF S!SendTo
<1>2. w \in S!Send /\ liveWaiting \in Seq(S!Send) /\ liveStores \in [Stores -> S!Store]
  BY DEF S!Send, LiveInv, S!TypeOK
<1>3. /\ liveStores'[s].asked = v /\ liveStores'[s].used = TRUE /\ liveStores'[s].check = n
      /\ liveStores'[s].clear = liveStores[s].clear /\ liveStores'[s] \in S!Store
      /\ \A t \in Stores : t # s => liveStores'[t] = liveStores[t]
  BY <1>1, <1>2 DEF S!Store
<1>4. liveStores' \in [Stores -> S!Store]
  BY <1>1, <1>2, <1>3
<1> HIDE DEF w
<1>5. S!TypeOK'
  BY <1>1, <1>2, <1>4 DEF LiveInv, S!TypeOK, LiveConstants
<1>6. ClearsOwn'
  BY <1>1, <1>3 DEF LiveInv, ClearsOwn
<1>7. Owned'
  <2>1. \A i \in DOMAIN liveListeners : liveListeners[i].store \in Stores
    BY ListenerFields DEF LiveInv
  <2> QED  BY <2>1, <1>1, <1>3 DEF LiveInv, Owned
<1>8. Checked'
  BY <1>3 DEF LiveInv, Checked, LiveConstants
<1>9. /\ DOMAIN liveWaiting' = 1 .. Len(liveWaiting) + 1
      /\ DOMAIN liveWaiting = 1 .. Len(liveWaiting)
      /\ Len(liveWaiting) \in Nat
      /\ liveWaiting'[Len(liveWaiting) + 1] = w
      /\ \A i \in DOMAIN liveWaiting : liveWaiting'[i] = liveWaiting[i]
  BY <1>1, <1>2
<1>10. w.store = s /\ w.vars = v
  BY DEF w
<1>11. LastWaits'
  <2> SUFFICES ASSUME NEW t \in Stores, NEW i \in DOMAIN liveWaiting', Calm(t)', LastOf(t, i)'
               PROVE  liveStores'[t].used /\ liveStores'[t].asked = liveWaiting'[i].vars
    BY DEF LastWaits
  <2>1. CASE t = s
    <3>1. i = Len(liveWaiting) + 1
      BY <2>1, <1>9, <1>10 DEF LastOf
    <3> QED  BY <3>1, <2>1, <1>3, <1>9, <1>10
  <2>2. CASE t # s
    <3>1. i \in DOMAIN liveWaiting
      BY <2>2, <1>9, <1>10 DEF LastOf
    <3>2. LastOf(t, i)
      BY <3>1, <1>9 DEF LastOf
    <3>3. Calm(t)
      BY <2>2, <1>3 DEF Calm
    <3> QED  BY <3>1, <3>2, <3>3, <2>2, <1>3, <1>9 DEF LiveInv, LastWaits
  <2> QED  BY <2>1, <2>2
<1>12. S!ListensToLast'
  <2> SUFFICES ASSUME NEW t \in Stores, ~S!Awaited(t)'
               PROVE  (\/ liveStores[t].overtaken \/ liveStores[t].failed \/ liveStores[t].hasty
                       \/ IF liveStores[t].used THEN \E i \in S!Open(t) : liveListeners[i].vars = liveStores[t].asked
                                            ELSE S!Open(t) = {})'
    BY DEF S!ListensToLast
  <2>1. t # s
    BY <1>9, <1>10 DEF S!Awaited
  <2>2. ~S!Awaited(t)
    BY <1>9 DEF S!Awaited
  <2>3. S!Open(t)' = S!Open(t)
    BY <1>1 DEF S!Open
  <2> QED  BY <2>1, <2>2, <2>3, <1>1, <1>3 DEF LiveInv, Listens, S!ListensToLast
<1>13. ClientMade'
  BY <1>1 DEF ClientMade, LiveConstants
<1> QED  BY <1>5, <1>6, <1>7, <1>8, <1>11, <1>12, <1>13 DEF LiveInv

\* A send in the session of the last one listens, or changes nothing.
LEMMA SendListens ==
  ASSUME LiveConstants, LiveInv, NEW s \in Stores, NEW v \in LiveVariables, NEW n \in Sessions,
         S!SendTo(s, v, n), liveStores[s].check = n
  PROVE  LiveInv'
<1> DEFINE asked == [liveStores[s] EXCEPT !.asked = v, !.used = TRUE, !.check = n,
                       !.overtaken = @ \/ (liveStores[s].check = n
                                             /\ (S!Awaited(s) \/ S!WentBack(s, v)))]
           l == [store |-> s, vars |-> v, session |-> n, made |-> liveClient, open |-> TRUE]
<1>1. /\ liveWaiting' = liveWaiting /\ liveClient' = liveClient /\ liveSent' = liveSent + 1
      /\ liveSent < MaxSends
      /\ IF liveStores[s].last # v
         THEN /\ liveListeners' = Append(S!Cleared(liveListeners, s), l)
              /\ liveStores' = [liveStores EXCEPT ![s] = [asked EXCEPT !.clear = Len(liveListeners) + 1]]
         ELSE liveStores' = [liveStores EXCEPT ![s] = asked] /\ liveListeners' = liveListeners
  BY DEF S!SendTo
<1>2. liveStores \in [Stores -> S!Store] /\ liveStores[s] \in S!Store /\ Len(liveListeners) \in Nat
  BY DEF LiveInv, S!TypeOK
<1>3. n # NoValue /\ v # NoValue
  BY DEF LiveConstants
<1>4. liveStores[s].used /\ liveStores[s].asked # NoValue
  BY <1>3 DEF LiveInv, Checked
<1>5. asked \in S!Store /\ asked.asked = v /\ asked.used = TRUE /\ asked.check = n
      /\ asked.clear = liveStores[s].clear /\ asked.failed = liveStores[s].failed
      /\ asked.hasty = liveStores[s].hasty
      /\ asked.overtaken = (liveStores[s].overtaken \/ S!Awaited(s) \/ S!WentBack(s, v))
  <2>1. S!Awaited(s) \in BOOLEAN /\ S!WentBack(s, v) \in BOOLEAN
    BY DEF S!Awaited, S!WentBack
  <2> QED  BY <1>2, <2>1 DEF S!Store
<1> HIDE DEF asked
<1>6. /\ liveStores' \in [Stores -> S!Store]
      /\ \A t \in Stores : t # s => liveStores'[t] = liveStores[t]
      /\ liveStores'[s].asked = v /\ liveStores'[s].used = TRUE /\ liveStores'[s].check = n
      /\ liveStores'[s].overtaken = (liveStores[s].overtaken \/ S!Awaited(s) \/ S!WentBack(s, v))
      /\ liveStores'[s].failed = liveStores[s].failed /\ liveStores'[s].hasty = liveStores[s].hasty
      /\ IF liveStores[s].last # v THEN liveStores'[s].clear = Len(liveListeners) + 1
                               ELSE liveStores'[s].clear = liveStores[s].clear
  <2> DEFINE moved == [asked EXCEPT !.clear = Len(liveListeners) + 1]
  <2>1. /\ moved \in S!Store /\ moved.clear = Len(liveListeners) + 1 /\ moved.asked = asked.asked
        /\ moved.used = asked.used /\ moved.check = asked.check
        /\ moved.overtaken = asked.overtaken /\ moved.failed = asked.failed
        /\ moved.hasty = asked.hasty
    BY <1>2, <1>5 DEF S!Store
  <2>2. liveStores' = [liveStores EXCEPT ![s] = IF liveStores[s].last # v THEN moved ELSE asked]
    BY <1>1
  <2> HIDE DEF moved
  <2>3. /\ liveStores' \in [Stores -> S!Store]
        /\ \A t \in Stores : t # s => liveStores'[t] = liveStores[t]
        /\ liveStores'[s] = IF liveStores[s].last # v THEN moved ELSE asked
    BY <1>2, <1>5, <2>1, <2>2
  <2> QED  BY <1>5, <2>1, <2>3
<1>7. Checked'
  BY <1>3, <1>6 DEF LiveInv, Checked
<1>8. \A t \in Stores : S!Awaited(t)' = S!Awaited(t)
  BY <1>1 DEF S!Awaited
<1>9. LastWaits'
  <2> SUFFICES ASSUME NEW t \in Stores, NEW i \in DOMAIN liveWaiting, Calm(t)', LastOf(t, i)
               PROVE  liveStores'[t].used /\ liveStores'[t].asked = liveWaiting[i].vars
    BY <1>1 DEF LastWaits, LastOf
  <2>1. t # s
    BY <1>6 DEF Calm, LastOf, S!Awaited
  <2> QED  BY <2>1, <1>6 DEF LiveInv, LastWaits, Calm
<1>10. liveClient \in Sessions /\ ClientMade'
  <2>1. liveClient # NoValue
    BY <1>3 DEF LiveInv, ClientMade
  <2> QED  BY <2>1, <1>1 DEF LiveInv, S!TypeOK, ClientMade
<1>11. l \in S!Listener /\ l.store = s /\ l.vars = v /\ l.open
  BY <1>10 DEF S!Listener
<1> HIDE DEF l
<1>12. CASE liveStores[s].last # v
  <2>1. /\ liveListeners' = Append(S!Cleared(liveListeners, s), l)
        /\ liveStores'[s].clear = Len(liveListeners) + 1
    BY <1>12, <1>1, <1>6
  <2>2. /\ liveListeners' \in Seq(S!Listener)
        /\ ClearsOwn' /\ Owned'
        /\ \E i \in DOMAIN liveListeners' :
             liveListeners'[i].store = s /\ liveListeners'[i].open /\ liveListeners'[i].vars = l.vars
        /\ \A t \in Stores : t # s =>
             S!Open(t)' = S!Open(t) /\ \A i \in S!Open(t) : liveListeners'[i].vars = liveListeners[i].vars
    BY <2>1, <1>6, <1>11, ListenEffect
  <2>3. S!TypeOK'
    BY <2>2, <1>1, <1>6 DEF LiveInv, S!TypeOK, LiveConstants
  <2>4. S!ListensToLast'
    <3>1. \E i \in S!Open(s)' : liveListeners'[i].vars = liveStores'[s].asked
      BY <2>2, <1>6, <1>11 DEF S!Open
    <3> QED  BY <3>1, <2>2, <1>6, <1>8 DEF LiveInv, Listens, S!ListensToLast
  <2> QED  BY <2>2, <2>3, <2>4, <1>7, <1>9, <1>10 DEF LiveInv
<1>13. CASE liveStores[s].last = v
  <2>1. /\ liveListeners' = liveListeners
        /\ \A t \in Stores : liveStores'[t].clear = liveStores[t].clear
    BY <1>13, <1>1, <1>6
  <2>2. S!TypeOK'
    BY <2>1, <1>1, <1>6 DEF LiveInv, S!TypeOK, LiveConstants
  <2>3. ClearsOwn' /\ Owned'
    <3>1. \A i \in DOMAIN liveListeners : liveListeners[i].store \in Stores
      BY ListenerFields DEF LiveInv
    <3> QED  BY <3>1, <2>1 DEF LiveInv, ClearsOwn, Owned
  <2>4. \A t \in Stores : S!Open(t)' = S!Open(t)
    BY <2>1 DEF S!Open
  <2>5. ~S!Awaited(s) /\ ~liveStores'[s].overtaken => liveStores[s].asked = v
    BY <1>13, <1>4, <1>6 DEF S!WentBack
  <2>6. S!ListensToLast'
    <3> SUFFICES ASSUME NEW t \in Stores, ~S!Awaited(t)',
                        ~(liveStores'[t].overtaken \/ liveStores'[t].failed \/ liveStores'[t].hasty)
                 PROVE  IF liveStores'[t].used
                        THEN \E i \in S!Open(t)' : liveListeners'[i].vars = liveStores'[t].asked
                        ELSE S!Open(t)' = {}
      BY DEF S!ListensToLast
    <3>1. ~S!Awaited(t) /\ S!Open(t)' = S!Open(t) /\ liveListeners' = liveListeners
      BY <1>8, <2>1, <2>4
    <3>2. CASE t = s
      <4>1. liveStores[s].asked = v /\ ~liveStores[s].overtaken
        BY <2>5, <3>1, <3>2, <1>6
      <4>2. \E i \in S!Open(s) : liveListeners[i].vars = liveStores[s].asked
        BY <3>1, <3>2, <4>1, <1>4, <1>6 DEF LiveInv, Listens, S!ListensToLast
      <4> QED  BY <3>1, <3>2, <4>1, <4>2, <1>6
    <3>3. CASE t # s
      <4>1. liveStores'[t] = liveStores[t]
        BY <3>3, <1>6
      <4> QED  BY <3>1, <4>1 DEF LiveInv, Listens, S!ListensToLast
    <3> QED  BY <3>2, <3>3
  <2> QED  BY <2>2, <2>3, <2>6, <1>7, <1>9, <1>10 DEF LiveInv
<1> QED  BY <1>12, <1>13

\* A send that waited listens.
LEMMA ResumeKeeps ==
  ASSUME LiveInv, S!Resume
  PROVE  LiveInv'
<1> DEFINE w == Head(liveWaiting)
           s == w.store
           l == [store |-> w.store, vars |-> w.vars, session |-> w.session,
                 made |-> liveClient, open |-> TRUE]
<1>1. /\ liveWaiting # <<>> /\ liveWaiting' = Tail(liveWaiting) /\ liveClient' = liveClient
      /\ liveSent' = liveSent
      /\ liveListeners' = Append(S!Cleared(liveListeners, s), l)
      /\ liveStores' = [liveStores EXCEPT ![s] = [@ EXCEPT !.clear = Len(liveListeners) + 1]]
  BY DEF S!Resume, S!Listen
<1>2. /\ liveWaiting \in Seq(S!Send) /\ liveStores \in [Stores -> S!Store]
      /\ liveClient \in Sessions
      /\ Len(liveListeners) \in Nat
  BY <1>1 DEF LiveInv, S!TypeOK, ClientMade
<1>3. w \in S!Send /\ s \in Stores /\ w = liveWaiting[1]
  <2>1. w = liveWaiting[1] /\ w \in S!Send
    BY <1>1, <1>2
  <2> QED  BY <2>1 DEF S!Send
<1>4. l \in S!Listener /\ l.store = s /\ l.vars = w.vars /\ l.open
  BY <1>2, <1>3 DEF S!Listener, S!Send
<1> HIDE DEF w, s, l
<1>5. /\ liveStores' \in [Stores -> S!Store]
      /\ liveStores'[s].clear = Len(liveListeners) + 1
      /\ \A t \in Stores : t # s => liveStores'[t] = liveStores[t]
      /\ liveStores'[s].asked = liveStores[s].asked /\ liveStores'[s].used = liveStores[s].used
      /\ liveStores'[s].check = liveStores[s].check
      /\ liveStores'[s].overtaken = liveStores[s].overtaken
      /\ liveStores'[s].failed = liveStores[s].failed
      /\ liveStores'[s].hasty = liveStores[s].hasty
  <2> DEFINE moved == [liveStores[s] EXCEPT !.clear = Len(liveListeners) + 1]
  <2>1. /\ moved \in S!Store /\ moved.clear = Len(liveListeners) + 1
        /\ moved.asked = liveStores[s].asked
        /\ moved.used = liveStores[s].used /\ moved.check = liveStores[s].check
        /\ moved.overtaken = liveStores[s].overtaken /\ moved.failed = liveStores[s].failed
        /\ moved.hasty = liveStores[s].hasty
    BY <1>2, <1>3 DEF S!Store
  <2>2. liveStores' = [liveStores EXCEPT ![s] = moved]
    BY <1>1
  <2> HIDE DEF moved
  <2> QED  BY <1>2, <1>3, <2>1, <2>2
<1>6. /\ liveListeners' \in Seq(S!Listener)
      /\ ClearsOwn' /\ Owned'
      /\ \E i \in DOMAIN liveListeners' :
           liveListeners'[i].store = s /\ liveListeners'[i].open /\ liveListeners'[i].vars = l.vars
      /\ \A t \in Stores : t # s =>
           S!Open(t)' = S!Open(t) /\ \A i \in S!Open(t) : liveListeners'[i].vars = liveListeners[i].vars
  BY <1>1, <1>3, <1>4, <1>5, ListenEffect
<1>7. /\ liveWaiting' \in Seq(S!Send) /\ Len(liveWaiting) \in Nat
      /\ DOMAIN liveWaiting = 1 .. Len(liveWaiting)
      /\ DOMAIN liveWaiting' = 1 .. Len(liveWaiting) - 1 /\ 1 \in DOMAIN liveWaiting
      /\ \A i \in DOMAIN liveWaiting' :
           liveWaiting'[i] = liveWaiting[i + 1] /\ i + 1 \in DOMAIN liveWaiting
  BY <1>1, <1>2
<1>8. S!TypeOK'
  BY <1>1, <1>5, <1>6, <1>7 DEF LiveInv, S!TypeOK
<1>9. Checked' /\ ClientMade'
  BY <1>1, <1>2, <1>5, <1>3 DEF LiveInv, Checked, ClientMade
<1>10. LastWaits'
  <2> SUFFICES ASSUME NEW t \in Stores, NEW i \in DOMAIN liveWaiting', Calm(t)', LastOf(t, i)'
               PROVE  liveStores'[t].used /\ liveStores'[t].asked = liveWaiting'[i].vars
    BY DEF LastWaits
  <2>1. LastOf(t, i + 1)
    <3>1. ASSUME NEW j \in DOMAIN liveWaiting, j > i + 1
          PROVE  liveWaiting[j].store # t
      <4>1. j - 1 \in DOMAIN liveWaiting' /\ j - 1 > i /\ (j - 1) + 1 = j
        BY <3>1, <1>7
      <4> QED  BY <4>1, <1>7 DEF LastOf
    <3> QED  BY <3>1, <1>7 DEF LastOf
  <2>2. Calm(t)
    BY <1>5 DEF Calm
  <2>3. liveStores[t].used /\ liveStores[t].asked = liveWaiting[i + 1].vars
    BY <2>1, <2>2, <1>7 DEF LiveInv, LastWaits
  <2> QED  BY <2>3, <1>5, <1>7
<1>11. S!ListensToLast'
  <2> SUFFICES ASSUME NEW t \in Stores, ~S!Awaited(t)', Calm(t)
               PROVE  IF liveStores'[t].used THEN \E i \in S!Open(t)' : liveListeners'[i].vars = liveStores'[t].asked
                                         ELSE S!Open(t)' = {}
    BY <1>5 DEF S!ListensToLast, Calm
  <2>1. \A i \in DOMAIN liveWaiting : i # 1 => liveWaiting[i].store # t
    <3> SUFFICES ASSUME NEW i \in DOMAIN liveWaiting, i # 1
                 PROVE  liveWaiting[i].store # t
      OBVIOUS
    <3>1. i - 1 \in DOMAIN liveWaiting' /\ (i - 1) + 1 = i
      BY <1>7
    <3> QED  BY <3>1, <1>7 DEF S!Awaited
  <2>2. CASE t = s
    <3>1. LastOf(s, 1)
      BY <2>1, <2>2, <1>3, <1>7 DEF LastOf, s
    <3>2. liveStores[s].used /\ liveStores[s].asked = w.vars
      BY <3>1, <2>2, <1>3, <1>7 DEF LiveInv, LastWaits
    <3> QED  BY <3>2, <2>2, <1>4, <1>5, <1>6 DEF S!Open
  <2>3. CASE t # s
    <3>1. ~S!Awaited(t)
      BY <2>1, <2>3, <1>3 DEF S!Awaited, s
    <3> QED  BY <3>1, <2>3, <1>5, <1>6 DEF LiveInv, Listens, S!ListensToLast, Calm
  <2> QED  BY <2>2, <2>3
<1> QED  BY <1>6, <1>8, <1>9, <1>10, <1>11 DEF LiveInv

\* A message tells the store which variables it was about.
LEMMA MessageKeeps ==
  ASSUME LiveInv, NEW i \in DOMAIN liveListeners, S!Message(i)
  PROVE  LiveInv'
<1> DEFINE s == liveListeners[i].store
<1>1. /\ s \in Stores /\ liveListeners[i].vars \in LiveVariables
      /\ liveStores \in [Stores -> S!Store]
      /\ \A j \in DOMAIN liveListeners : liveListeners[j].store \in Stores
  BY ListenerFields DEF LiveInv, S!TypeOK
<1>2. /\ liveStores' = [liveStores EXCEPT ![s].last = liveListeners[i].vars]
      /\ UNCHANGED <<liveWaiting, liveClient, liveListeners, liveSent>>
  BY DEF S!Message
<1> HIDE DEF s
<1>3. liveStores' \in [Stores -> S!Store]
  BY <1>1, <1>2 DEF S!Store
<1>4. \A t \in Stores :
        /\ liveStores'[t].check = liveStores[t].check /\ liveStores'[t].clear = liveStores[t].clear
        /\ liveStores'[t].asked = liveStores[t].asked /\ liveStores'[t].used = liveStores[t].used
        /\ liveStores'[t].overtaken = liveStores[t].overtaken
        /\ liveStores'[t].failed = liveStores[t].failed
        /\ liveStores'[t].hasty = liveStores[t].hasty
  <2>1. liveStores[s] \in S!Store
    BY <1>1
  <2> SUFFICES ASSUME NEW t \in Stores
               PROVE  /\ liveStores'[t].check = liveStores[t].check
                      /\ liveStores'[t].clear = liveStores[t].clear
                      /\ liveStores'[t].asked = liveStores[t].asked
                      /\ liveStores'[t].used = liveStores[t].used
                      /\ liveStores'[t].overtaken = liveStores[t].overtaken
                      /\ liveStores'[t].failed = liveStores[t].failed
                      /\ liveStores'[t].hasty = liveStores[t].hasty
    OBVIOUS
  <2>2. CASE t = s
    <3>1. liveStores'[t] = [liveStores[s] EXCEPT !.last = liveListeners[i].vars]
      BY <2>2, <1>1, <1>2
    <3> QED  BY <2>1, <2>2, <3>1 DEF S!Store
  <2>3. CASE t # s
    BY <2>3, <1>1, <1>2
  <2> QED  BY <2>2, <2>3
<1>5. S!TypeOK'
  BY <1>2, <1>3 DEF LiveInv, S!TypeOK
<1>6. ClearsOwn' /\ Owned' /\ Checked' /\ ClientMade'
  BY <1>1, <1>2, <1>4 DEF LiveInv, ClearsOwn, Owned, Checked, ClientMade
<1>7. LastWaits'
  BY <1>2, <1>4 DEF LiveInv, LastWaits, LastOf, Calm
<1>8. S!ListensToLast'
  BY <1>2, <1>4 DEF LiveInv, Listens, S!ListensToLast, S!Awaited, S!Open
<1> QED  BY <1>5, <1>6, <1>7, <1>8 DEF LiveInv

\* An error silences the store, and ListensToLast says no more about it.
LEMMA ErrorKeeps ==
  ASSUME LiveInv, NEW i \in DOMAIN liveListeners, S!Error(i)
  PROVE  LiveInv'
<1> DEFINE s == liveListeners[i].store
<1>1. s \in Stores /\ liveListeners[i].vars \in LiveVariables /\ liveStores \in [Stores -> S!Store]
  BY ListenerFields DEF LiveInv, S!TypeOK
<1>2. /\ liveStores' = [liveStores EXCEPT ![s].last = liveListeners[i].vars, ![s].failed = TRUE]
      /\ liveListeners' = S!Cleared(liveListeners, s)
      /\ UNCHANGED <<liveWaiting, liveClient, liveSent>>
  BY DEF S!Error
<1> HIDE DEF s
<1>3. liveStores' \in [Stores -> S!Store]
  <2>1. [liveStores[s] EXCEPT !.last = liveListeners[i].vars, !.failed = TRUE] \in S!Store
    BY <1>1 DEF S!Store
  <2>2. liveStores' = [liveStores EXCEPT ![s] = [liveStores[s] EXCEPT !.last = liveListeners[i].vars,
                                                          !.failed = TRUE]]
    BY <1>1, <1>2
  <2> QED  BY <1>1, <2>1, <2>2
<1>4. /\ \A t \in Stores : t # s => liveStores'[t] = liveStores[t]
      /\ liveStores'[s].check = liveStores[s].check /\ liveStores'[s].clear = liveStores[s].clear
      /\ liveStores'[s].asked = liveStores[s].asked /\ liveStores'[s].used = liveStores[s].used
      /\ liveStores'[s].failed
  BY <1>1, <1>2 DEF S!Store
<1>5. /\ liveListeners' \in Seq(S!Listener)
      /\ ClearsOwn' /\ Owned'
      /\ \A t \in Stores : t # s =>
           S!Open(t)' = S!Open(t) /\ \A j \in S!Open(t) : liveListeners'[j].vars = liveListeners[j].vars
  BY <1>1, <1>2, <1>3, <1>4, SilenceEffect
<1>6. S!TypeOK' /\ Checked' /\ ClientMade'
  BY <1>1, <1>2, <1>3, <1>4, <1>5 DEF LiveInv, S!TypeOK, Checked, ClientMade
<1>7. LastWaits'
  <2> SUFFICES ASSUME NEW t \in Stores, NEW j \in DOMAIN liveWaiting, Calm(t)', LastOf(t, j)
               PROVE  liveStores'[t].used /\ liveStores'[t].asked = liveWaiting[j].vars
    BY <1>2 DEF LastWaits, LastOf
  <2>1. t # s
    BY <1>4 DEF Calm
  <2> QED  BY <2>1, <1>4 DEF LiveInv, LastWaits, Calm
<1>8. S!ListensToLast'
  <2> SUFFICES ASSUME NEW t \in Stores, ~S!Awaited(t), Calm(t)'
               PROVE  IF liveStores'[t].used THEN \E j \in S!Open(t)' : liveListeners'[j].vars = liveStores'[t].asked
                                         ELSE S!Open(t)' = {}
    BY <1>2 DEF S!ListensToLast, Calm, S!Awaited
  <2>1. t # s
    BY <1>4 DEF Calm
  <2> QED  BY <2>1, <1>4, <1>5 DEF LiveInv, Listens, S!ListensToLast, Calm
<1> QED  BY <1>5, <1>6, <1>7, <1>8 DEF LiveInv

\* Whoever leaves does not listen any more.
LEMMA CleanupKeeps ==
  ASSUME LiveInv, NEW s \in Stores, NEW gone \in BOOLEAN, S!Cleanup(s, gone)
  PROVE  LiveInv'
<1>1. /\ liveStores \in [Stores -> S!Store]
      /\ liveListeners' = S!Cleared(liveListeners, s)
      /\ UNCHANGED <<liveWaiting, liveClient, liveSent>>
      /\ liveStores' = [liveStores EXCEPT ![s] =
           [liveStores[s] EXCEPT !.check = NoValue, !.used = FALSE, !.asked = NoValue,
                             !.hasty = liveStores[s].hasty \/ S!Awaited(s),
                             !.last = IF gone THEN NoValue ELSE liveStores[s].last]]
  BY DEF S!Cleanup, LiveInv, S!TypeOK
<1>2. S!Awaited(s) \in BOOLEAN
  BY DEF S!Awaited
<1>3. /\ liveStores' \in [Stores -> S!Store]
      /\ \A t \in Stores : t # s => liveStores'[t] = liveStores[t]
      /\ liveStores'[s].check = NoValue /\ ~liveStores'[s].used
      /\ liveStores'[s].clear = liveStores[s].clear
      /\ liveStores'[s].hasty = (liveStores[s].hasty \/ S!Awaited(s))
  <2> DEFINE left == [liveStores[s] EXCEPT !.check = NoValue, !.used = FALSE, !.asked = NoValue,
                        !.hasty = liveStores[s].hasty \/ S!Awaited(s),
                             !.last = IF gone THEN NoValue ELSE liveStores[s].last]
  <2>1. /\ left \in S!Store /\ left.check = NoValue /\ ~left.used
        /\ left.clear = liveStores[s].clear
        /\ left.hasty = (liveStores[s].hasty \/ S!Awaited(s))
    <3>1. liveStores[s] \in S!Store
      BY <1>1
    <3> QED  BY <3>1, <1>2 DEF S!Store
  <2>2. liveStores' = [liveStores EXCEPT ![s] = left]
    BY <1>1
  <2> HIDE DEF left
  <2> QED  BY <1>1, <2>1, <2>2
<1>4. /\ liveListeners' \in Seq(S!Listener)
      /\ ClearsOwn' /\ Owned' /\ S!Open(s)' = {}
      /\ \A t \in Stores : t # s =>
           S!Open(t)' = S!Open(t) /\ \A i \in S!Open(t) : liveListeners'[i].vars = liveListeners[i].vars
  BY <1>1, <1>3, SilenceEffect
<1>5. S!TypeOK' /\ Checked' /\ ClientMade'
  BY <1>1, <1>3, <1>4 DEF LiveInv, S!TypeOK, Checked, ClientMade
<1>6. LastWaits'
  <2> SUFFICES ASSUME NEW t \in Stores, NEW i \in DOMAIN liveWaiting, Calm(t)', LastOf(t, i)
               PROVE  liveStores'[t].used /\ liveStores'[t].asked = liveWaiting[i].vars
    BY <1>1 DEF LastWaits, LastOf
  <2>1. t # s
    BY <1>3 DEF Calm, LastOf, S!Awaited
  <2> QED  BY <2>1, <1>3 DEF LiveInv, LastWaits, Calm
<1>7. S!ListensToLast'
  BY <1>1, <1>3, <1>4 DEF LiveInv, Listens, S!ListensToLast, S!Awaited
<1> QED  BY <1>4, <1>5, <1>6, <1>7 DEF LiveInv

-----------------------------------------------------------------------------
(* The theorems.                                                           *)

\* In any number of stores, whatever they ask for: the inductive invariant, which says of a
\* store's listeners and waiting sends what ListensToLast needs (plugins/subscription.ts).
THEOREM LiveInvHolds ==
  ASSUME LiveConstants
  PROVE  S!Spec => []LiveInv
<1>1. S!Init => LiveInv
  <2> SUFFICES ASSUME S!Init PROVE LiveInv
    OBVIOUS
  <2>1. S!TypeOK
    BY DEF S!Init, S!TypeOK, S!Fresh, S!Store, LiveConstants
  <2>2. \A s \in Stores : liveStores[s] = S!Fresh
    BY DEF S!Init
  <2>3. \A s \in Stores : ~S!Awaited(s) /\ S!Open(s) = {}
    BY DEF S!Init, S!Awaited, S!Open
  <2>4. ClearsOwn /\ Owned /\ Checked /\ ClientMade /\ LastWaits
    BY <2>2 DEF S!Init, ClearsOwn, Owned, Checked, ClientMade, LastWaits, S!Fresh
  <2>5. S!ListensToLast
    BY <2>2, <2>3 DEF S!ListensToLast, S!Fresh
  <2> QED  BY <2>1, <2>4, <2>5 DEF LiveInv
<1>2. LiveInv /\ [S!Next]_(S!vars) => LiveInv'
  <2> SUFFICES ASSUME LiveInv, [S!Next]_(S!vars) PROVE LiveInv'
    OBVIOUS
  <2>1. ASSUME NEW s \in Stores, NEW v \in LiveVariables, NEW n \in Sessions, S!SendTo(s, v, n)
        PROVE  LiveInv'
    BY <2>1, SendWaits, SendListens
  <2>2. ASSUME NEW s \in Stores, NEW gone \in BOOLEAN, S!Cleanup(s, gone)
        PROVE  LiveInv'
    BY <2>2, CleanupKeeps
  <2>3. CASE S!Resume
    BY <2>3, ResumeKeeps
  <2>4. ASSUME NEW i \in DOMAIN liveListeners, S!Message(i) \/ S!Error(i)
        PROVE  LiveInv'
    BY <2>4, MessageKeeps, ErrorKeeps
  <2>5. CASE UNCHANGED S!vars
    BY <2>5 DEF S!vars, LiveInv, S!TypeOK, ClearsOwn, Owned, Checked, ClientMade, LastWaits, LastOf,
                Calm, S!ListensToLast, S!Awaited, S!Open
  <2> QED  BY <2>1, <2>2, <2>3, <2>4, <2>5 DEF S!Next
<1> QED  BY <1>1, <1>2, PTL DEF S!Spec

\* A document with a live subscription has at most one open listener, and it is that of the last
\* send, in any number of stores and whatever overlaps (plugins/subscription.ts).
THEOREM ListensHolds ==
  ASSUME LiveConstants
  PROVE  S!Spec => []Listens
<1>1. LiveInv => Listens
  <2> SUFFICES ASSUME LiveInv PROVE Listens
    OBVIOUS
  <2>1. S!OneListener
    BY DEF LiveInv, Owned, S!OneListener, S!Open
  <2> QED  BY <2>1 DEF LiveInv, Listens, S!Listens
<1> QED  BY <1>1, LiveInvHolds, PTL

\* The plugin's state keeps its types.
THEOREM LiveTypeCorrect ==
  ASSUME LiveConstants
  PROVE  S!Spec => []S!TypeOK
<1>1. LiveInv => S!TypeOK
  BY DEF LiveInv
<1> QED  BY <1>1, LiveInvHolds, PTL

-----------------------------------------------------------------------------
(***************************************************************************)
(* Optimistic keys.                                                        *)
(***************************************************************************)

\* Types, of what the proof needs.
KeysTyped ==
  /\ keysCalls \in [Calls -> O!Call]
  /\ DOMAIN keysCallbacks \subseteq MutationKeys
  /\ \A k \in DOMAIN keysCallbacks : keysCallbacks[k] \in Seq(Calls)
  /\ DOMAIN keysKeyCache \subseteq Calls /\ keysOrphans \subseteq MutationKeys
  /\ keysReused \subseteq MutationKeys

\* The keys that are looked for among names: in a list they are passed over.
Seen(names) == {k \in MutationKeys : \E place \in {"variable", "object"} : <<k, place>> \in names}

\* Keys that are named, waited for or tracked were made, and a mutation under way is tracked.
Named ==
  /\ DOMAIN keysCallbacks \subseteq O!Registered
  /\ \A c \in Calls : /\ DOMAIN keysCalls[c].got \subseteq Seen(keysCalls[c].names)
                      /\ keysCalls[c].names \subseteq O!Registered \X O!Places
                      /\ keysCalls[c].phase = "idle" => keysCalls[c].makes = <<>>
                      /\ keysCalls[c].phase \in {"idle", "started"} => DOMAIN keysCalls[c].got = {}
                      /\ O!Pending(c) /\ keysCalls[c].makes # <<>> => c \in DOMAIN keysKeyCache
  /\ \A c \in DOMAIN keysKeyCache : keysKeyCache[c].key \in O!Range(keysCalls[c].makes)

\* A key that was made once has one maker.
Single == \A k \in MutationKeys \ keysReused : \A d, e \in O!Makers(k) : d = e

\* Keys that KeysReplaced excepts, and keys whose makers have all ended.
Lost == keysOrphans \cup keysReused
Over(k) == \A d \in O!Makers(k) : ~O!Pending(d)

\* Callbacks are kept for the keys whose maker is under way, and for no others.
Open ==
  \A k \in MutationKeys \ Lost :
    /\ k \in DOMAIN keysCallbacks => \E d \in O!Makers(k) : O!Pending(d)
    /\ k \in DOMAIN keysCallbacks \/ Over(k)

\* Who waits for a key is among its callbacks, and conversely.
Waiters ==
  /\ \A k \in DOMAIN keysCallbacks : \A c \in O!Range(keysCallbacks[k]) :
       keysCalls[c].phase = "waiting" /\ k \in DOMAIN keysCalls[c].got /\ keysCalls[c].got[k] = 0
  /\ \A c \in Calls : keysCalls[c].phase = "waiting" =>
       /\ \E k \in DOMAIN keysCalls[c].got : keysCalls[c].got[k] = 0
       /\ \A k \in DOMAIN keysCalls[c].got \ Lost :
            keysCalls[c].got[k] = 0 => k \in DOMAIN keysCallbacks /\ c \in O!Range(keysCallbacks[k])

\* What was told is the value of a maker, which is over, and so was what was not waited for.
Values ==
  \A c \in Calls :
    /\ \A k \in DOMAIN keysCalls[c].got :
         /\ keysCalls[c].got[k] \in O!Makers(k) \cup {0}
         /\ keysCalls[c].phase = "sent" => keysCalls[c].got[k] # 0
         /\ keysCalls[c].got[k] # 0 /\ k \notin Lost => Over(k)
    /\ keysCalls[c].phase \in {"waiting", "sent"} =>
         \A k \in (Seen(keysCalls[c].names) \ DOMAIN keysCalls[c].got) \ Lost : Over(k)

\* Inductive: who named, made and waits for which key, and what was said of it.
KeysInv == KeysTyped /\ Named /\ Single /\ Open /\ Waiters /\ Values

-----------------------------------------------------------------------------
\* A key that is looked for was named.
LEMMA SeenNamed ==
  ASSUME NEW R, NEW names \in SUBSET (R \X O!Places), NEW k \in Seen(names)
  PROVE  k \in R /\ k \in MutationKeys
BY DEF Seen

\* The fields of a call.
LEMMA CallFields ==
  ASSUME NEW r \in O!Call
  PROVE  /\ r.phase \in {"idle", "started", "waiting", "sent", "done"}
         /\ r.makes \in Seq(MutationKeys)
         /\ r.names \in SUBSET (MutationKeys \X O!Places) /\ DOMAIN r.got \subseteq MutationKeys
         /\ r.got \in [DOMAIN r.got -> Calls \cup {0}]
<1>1. /\ r.phase \in {"idle", "started", "waiting", "sent", "done"} /\ r.makes \in Seq(MutationKeys)
      /\ r.names \in SUBSET (MutationKeys \X O!Places)
      /\ r.got \in UNION {[ks -> Calls \cup {0}] : ks \in SUBSET MutationKeys}
  BY DEF O!Call
<1>2. PICK ks \in SUBSET MutationKeys : r.got \in [ks -> Calls \cup {0}]
  BY <1>1
<1> QED  BY <1>1, <1>2

LEMMA IsCall ==
  ASSUME NEW r, NEW ks \in SUBSET MutationKeys, NEW phase \in {"idle", "started", "waiting", "sent", "done"},
         NEW makes \in Seq(MutationKeys), NEW names \in SUBSET (MutationKeys \X O!Places), NEW got \in [ks -> Calls \cup {0}],
         r = [phase |-> phase, makes |-> makes, names |-> names, got |-> got]
  PROVE  r \in O!Call
<1>1. got \in UNION {[js -> Calls \cup {0}] : js \in SUBSET MutationKeys}
  OBVIOUS
<1> QED  BY <1>1 DEF O!Call

LEMMA DoneCall ==
  ASSUME NEW r \in O!Call
  PROVE  /\ O!Done(r) \in O!Call /\ O!Done(r).phase = "done" /\ O!Done(r).makes = r.makes
         /\ O!Done(r).names = {} /\ DOMAIN O!Done(r).got = {}
<1> DEFINE C == [phase : {"idle", "done"}, makes : Seq(MutationKeys), names : {{}}, got : {O!Nothing}]
<1>1. r.makes \in Seq(MutationKeys) /\ O!Idle \in C
  BY CallFields DEF O!Idle
<1>2. /\ O!Done(r) \in C /\ O!Done(r).phase = "done" /\ O!Done(r).makes = r.makes
      /\ O!Done(r).names = {} /\ O!Done(r).got = O!Nothing
  <2> HIDE DEF C
  <2>1. O!Done(r) = [O!Idle EXCEPT !.phase = "done", !.makes = r.makes]
    BY DEF O!Done
  <2> QED  BY <1>1, <2>1 DEF C
<1>3. /\ O!Nothing \in UNION {[ks -> Calls \cup {0}] : ks \in SUBSET MutationKeys}
      /\ DOMAIN O!Nothing = {}
  <2>1. O!Nothing \in [{} -> Calls \cup {0}] /\ {} \in SUBSET MutationKeys /\ DOMAIN O!Nothing = {}
    BY DEF O!Nothing
  <2> QED  BY <2>1
<1>4. C \subseteq O!Call
  BY <1>3 DEF O!Call
<1> QED  BY <1>2, <1>3, <1>4

\* Keys have the makers that they had if no optimistic response is new.
LEMMA SameMakers ==
  ASSUME \A d \in Calls : keysCalls'[d].makes = keysCalls[d].makes
  PROVE  O!Registered' = O!Registered /\ \A k : O!Makers(k)' = O!Makers(k)
BY DEF O!Registered, O!Makers

LEMMA KeysInit ==
  ASSUME KeysConstants, O!Init
  PROVE  KeysInv
<1>1. /\ O!Idle \in O!Call /\ O!Idle.phase = "idle" /\ O!Idle.makes = <<>> /\ O!Idle.names = {}
      /\ DOMAIN O!Idle.got = {}
  <2>1. O!Nothing \in [{} -> Calls \cup {0}] /\ DOMAIN O!Nothing = {} /\ <<>> \in Seq(MutationKeys)
    BY DEF O!Nothing
  <2> QED  BY <2>1, IsCall DEF O!Idle
<1>2. /\ keysCalls = [c \in Calls |-> O!Idle] /\ DOMAIN keysCallbacks = {}
      /\ DOMAIN keysKeyCache = {}
      /\ keysOrphans = {} /\ keysReused = {}
  BY DEF O!Init
<1>3. \A c \in Calls : keysCalls[c] = O!Idle
  BY <1>2
<1>4. O!Range(<<>>) = {}
  BY DEF O!Range
<1>5. \A k : O!Makers(k) = {}
  BY <1>1, <1>3, <1>4 DEF O!Makers
<1>6. KeysTyped
  BY <1>1, <1>2 DEF KeysTyped
<1> QED  BY <1>1, <1>2, <1>3, <1>5, <1>6
        DEF KeysInv, Named, Single, Open, Over, Waiters, Values, O!Pending

-----------------------------------------------------------------------------
(* The end of a mutation.                                                  *)

\* One that does not say its keys loses them.
LEMMA LosingKeeps ==
  ASSUME KeysInv, NEW c \in Calls, keysCalls[c].phase = "sent", keysCalls' = [keysCalls EXCEPT ![c] = O!Done(@)],
         keysCallbacks' = keysCallbacks, keysReused' = keysReused, keysOrphans' = keysOrphans \cup O!Range(keysCalls[c].makes),
         DOMAIN keysKeyCache' \subseteq DOMAIN keysKeyCache, DOMAIN keysKeyCache \subseteq DOMAIN keysKeyCache' \cup {c},
         \A d \in DOMAIN keysKeyCache' : keysKeyCache'[d] = keysKeyCache[d]
  PROVE  KeysInv'
<1>1. /\ keysCalls \in [Calls -> O!Call] /\ keysCalls[c] \in O!Call
      /\ O!Done(keysCalls[c]) \in O!Call
      /\ keysCalls[c].makes \in Seq(MutationKeys)
  BY DoneCall, CallFields DEF KeysInv, KeysTyped
<1>2. /\ keysCalls' \in [Calls -> O!Call] /\ keysCalls'[c] = O!Done(keysCalls[c])
      /\ \A d \in Calls \ {c} : keysCalls'[d] = keysCalls[d]
  BY <1>1
<1>3. /\ keysCalls'[c].phase = "done" /\ keysCalls'[c].makes = keysCalls[c].makes
      /\ keysCalls'[c].names = {}
      /\ DOMAIN keysCalls'[c].got = {}
  BY <1>1, <1>2, DoneCall
<1>4. O!Registered' = O!Registered /\ \A k : O!Makers(k)' = O!Makers(k)
  BY <1>2, <1>3, SameMakers
<1>5. O!Range(keysCalls[c].makes) \subseteq MutationKeys
  BY <1>1 DEF O!Range
<1>6. /\ \A d \in Calls : O!Pending(d)' => O!Pending(d)
      /\ \A d \in Calls \ {c} : O!Pending(d)' = O!Pending(d)
  BY <1>2, <1>3 DEF O!Pending
<1>7. Lost' = Lost \cup O!Range(keysCalls[c].makes)
  BY DEF Lost
<1>8. KeysTyped'
  BY <1>2, <1>5 DEF KeysInv, KeysTyped
<1>9. Named'
  <2>1. ASSUME NEW d \in Calls
        PROVE  /\ DOMAIN keysCalls'[d].got \subseteq Seen(keysCalls'[d].names)
               /\ keysCalls'[d].names \subseteq O!Registered \X O!Places
               /\ keysCalls'[d].phase = "idle" => keysCalls'[d].makes = <<>>
               /\ keysCalls'[d].phase \in {"idle", "started"} => DOMAIN keysCalls'[d].got = {}
               /\ O!Pending(d)' /\ keysCalls'[d].makes # <<>> => d \in DOMAIN keysKeyCache'
    <3>1. CASE d = c
      BY <3>1, <1>3 DEF O!Pending
    <3>2. CASE d # c
      BY <3>2, <1>2, <1>6 DEF KeysInv, Named
    <3> QED  BY <3>1, <3>2
  <2>2. \A d \in DOMAIN keysKeyCache' : keysKeyCache'[d].key \in O!Range(keysCalls'[d].makes)
    <3> SUFFICES ASSUME NEW d \in DOMAIN keysKeyCache'
                 PROVE  keysKeyCache'[d].key \in O!Range(keysCalls'[d].makes)
      OBVIOUS
    <3>1. d \in DOMAIN keysKeyCache /\ d \in Calls /\ keysKeyCache'[d] = keysKeyCache[d]
      BY DEF KeysInv, KeysTyped
    <3>2. keysCalls'[d].makes = keysCalls[d].makes
      BY <3>1, <1>2, <1>3
    <3> QED  BY <3>1, <3>2 DEF KeysInv, Named
  <2> QED  BY <2>1, <2>2, <1>4 DEF KeysInv, Named
<1>10. Single'
  BY <1>4 DEF KeysInv, Single
<1>11. \A k : Over(k) => Over(k)'
  BY <1>4, <1>6 DEF Over, O!Makers
<1>12. Open'
  <2> SUFFICES ASSUME NEW k \in MutationKeys \ Lost'
               PROVE  /\ k \in DOMAIN keysCallbacks => \E d \in O!Makers(k) : O!Pending(d)'
                      /\ k \in DOMAIN keysCallbacks \/ Over(k)'
    BY <1>4 DEF Open
  <2>1. k \in MutationKeys \ Lost /\ c \notin O!Makers(k)
    BY <1>7 DEF O!Makers
  <2> QED  BY <2>1, <1>6, <1>11 DEF KeysInv, Open, O!Makers
<1>13. Waiters'
  <2>1. \A k \in DOMAIN keysCallbacks : \A d \in O!Range(keysCallbacks[k]) : d \in Calls \ {c}
    BY DEF KeysInv, KeysTyped, Waiters, O!Range
  <2> QED  BY <2>1, <1>2, <1>3, <1>7 DEF KeysInv, Waiters
<1>14. Values'
  BY <1>2, <1>3, <1>4, <1>7, <1>11 DEF KeysInv, Values
<1> QED  BY <1>8, <1>9, <1>10, <1>12, <1>13, <1>14 DEF KeysInv

LEMMA EndKeeps ==
  ASSUME KeysInv, NEW c \in Calls, O!End(c) \/ O!Throw(c)
  PROVE  KeysInv'
<1>1. CASE O!End(c)
  BY <1>1, LosingKeeps DEF O!End, O!Without
<1>2. CASE O!Throw(c)
  BY <1>2, LosingKeeps DEF O!Throw
<1> QED  BY <1>1, <1>2

-----------------------------------------------------------------------------
(* Before the network.                                                     *)

\* What does not depend on who waits for what.
LEMMA SameMade ==
  ASSUME KeysInv, \A d \in Calls : keysCalls'[d].makes = keysCalls[d].makes /\ O!Pending(d)' = O!Pending(d),
         keysOrphans' = keysOrphans, keysReused' = keysReused
  PROVE  /\ O!Registered' = O!Registered /\ \A k : O!Makers(k)' = O!Makers(k) /\ Over(k)' = Over(k)
         /\ Single' /\ Lost' = Lost
<1>1. O!Registered' = O!Registered /\ \A k : O!Makers(k)' = O!Makers(k)
  BY SameMakers
<1>2. \A k : Over(k)' = Over(k)
  BY <1>1 DEF Over, O!Makers
<1> QED  BY <1>1, <1>2 DEF KeysInv, Single, Lost

LEMMA BeforeNetworkKeeps ==
  ASSUME KeysConstants, KeysInv, NEW c \in Calls, O!BeforeNetwork(c)
  PROVE  KeysInv'
<1> DEFINE found == O!InputKeys(c)
<1>1. /\ keysCalls \in [Calls -> O!Call] /\ keysCalls[c] \in O!Call
      /\ keysCalls[c].phase = "started"
      /\ DOMAIN keysCalls[c].got = {} /\ keysCalls[c].names \subseteq MutationKeys \X O!Places
      /\ keysKeyCache' = keysKeyCache /\ keysOrphans' = keysOrphans /\ keysReused' = keysReused
  BY CallFields DEF KeysInv, KeysTyped, Named, O!BeforeNetwork
<1>2. CASE /\ DOMAIN keysKeyCache = {} \/ found = {}
           /\ keysCalls' = [keysCalls EXCEPT ![c].phase = "sent"] /\ keysCallbacks' = keysCallbacks
  <2>1. /\ keysCalls'[c] = [keysCalls[c] EXCEPT !.phase = "sent"]
        /\ \A d \in Calls \ {c} : keysCalls'[d] = keysCalls[d]
    BY <1>1, <1>2
  <2>2. /\ keysCalls'[c].phase = "sent" /\ keysCalls'[c].makes = keysCalls[c].makes
        /\ keysCalls'[c] \in O!Call
        /\ keysCalls'[c].names = keysCalls[c].names /\ keysCalls'[c].got = keysCalls[c].got
    BY <2>1, <1>1 DEF O!Call
  <2>3. keysCalls' \in [Calls -> O!Call]
    BY <1>1, <1>2, <2>1, <2>2
  <2>4. \A d \in Calls : keysCalls'[d].makes = keysCalls[d].makes /\ O!Pending(d)' = O!Pending(d)
    <3> SUFFICES ASSUME NEW d \in Calls
                 PROVE  keysCalls'[d].makes = keysCalls[d].makes /\ O!Pending(d)' = O!Pending(d)
      OBVIOUS
    <3>1. CASE d = c
      BY <3>1, <1>1, <2>2 DEF O!Pending
    <3>2. CASE d # c
      BY <3>2, <2>1 DEF O!Pending
    <3> QED  BY <3>1, <3>2
  <2>5. /\ O!Registered' = O!Registered /\ \A k : O!Makers(k)' = O!Makers(k) /\ Over(k)' = Over(k)
        /\ Single' /\ Lost' = Lost
    BY <1>1, <2>4, SameMade
  <2>6. ASSUME NEW k \in Seen(keysCalls[c].names) \ Lost
        PROVE  Over(k)
    <3>1. k \in MutationKeys
      BY DEF Seen
    <3>2. CASE DOMAIN keysKeyCache = {}
      <4>1. ASSUME NEW d \in O!Makers(k)
            PROVE  ~O!Pending(d)
        <5>1. d \in Calls /\ keysCalls[d].makes # <<>>
          BY DEF O!Makers, O!Range
        <5> QED  BY <5>1, <3>2 DEF KeysInv, Named
      <4> QED  BY <4>1 DEF Over
    <3>3. CASE found = {}
      <4>1. k \notin DOMAIN keysCallbacks
        BY <3>3, <3>1 DEF O!InputKeys, Seen
      <4> QED  BY <4>1, <3>1 DEF KeysInv, Open
    <3> QED  BY <3>2, <3>3, <1>2
  <2>7. KeysTyped'
    BY <1>1, <1>2, <2>3 DEF KeysInv, KeysTyped
  <2>8. Named'
    <3>1. \A d \in DOMAIN keysKeyCache : keysKeyCache[d].key \in O!Range(keysCalls'[d].makes)
      BY <2>4 DEF KeysInv, KeysTyped, Named
    <3> QED  BY <3>1, <1>1, <1>2, <2>1, <2>2, <2>4, <2>5 DEF KeysInv, Named
  <2>9. Open'
    BY <1>2, <2>4, <2>5 DEF KeysInv, Open, O!Makers
  <2>10. Waiters'
    <3>1. \A k \in DOMAIN keysCallbacks : \A d \in O!Range(keysCallbacks[k]) : d \in Calls \ {c}
      BY <1>1 DEF KeysInv, KeysTyped, Waiters, O!Range
    <3> QED  BY <3>1, <1>2, <2>1, <2>2, <2>5 DEF KeysInv, Waiters
  <2>11. Values'
    <3>1. ASSUME NEW d \in Calls
          PROVE  /\ \A k \in DOMAIN keysCalls'[d].got :
                      /\ keysCalls'[d].got[k] \in O!Makers(k) \cup {0}
                      /\ keysCalls'[d].phase = "sent" => keysCalls'[d].got[k] # 0
                      /\ keysCalls'[d].got[k] # 0 /\ k \notin Lost => Over(k)
                 /\ keysCalls'[d].phase \in {"waiting", "sent"} =>
                      \A k \in (Seen(keysCalls'[d].names) \ DOMAIN keysCalls'[d].got) \ Lost : Over(k)
      <4>1. CASE d = c
        BY <4>1, <1>1, <2>2, <2>6
      <4>2. CASE d # c
        BY <4>2, <2>1 DEF KeysInv, Values
      <4> QED  BY <4>1, <4>2
    <3> QED  BY <3>1, <2>5 DEF Values
  <2> QED  BY <2>5, <2>7, <2>8, <2>9, <2>10, <2>11 DEF KeysInv
<1>3. ASSUME found # {}, keysCalls' = [keysCalls EXCEPT ![c].phase = "waiting", ![c].got = [k \in found |-> 0]],
             keysCallbacks' = [k \in DOMAIN keysCallbacks |->
                             IF k \in found THEN Append(keysCallbacks[k], c) ELSE keysCallbacks[k]]
      PROVE  KeysInv'
  <2> DEFINE got == [k \in found |-> 0]
  <2>1. found = Seen(keysCalls[c].names) \cap DOMAIN keysCallbacks /\ found \subseteq MutationKeys
    BY <1>1 DEF O!InputKeys, Seen, KeysInv, KeysTyped
  <2>2. got \in [found -> Calls \cup {0}] /\ DOMAIN got = found /\ \A k \in found : got[k] = 0
    OBVIOUS
  <2>3. /\ keysCalls'[c] = [keysCalls[c] EXCEPT !.phase = "waiting", !.got = got]
        /\ \A d \in Calls \ {c} : keysCalls'[d] = keysCalls[d]
    BY <1>1, <1>3
  <2> HIDE DEF got, found
  <2>4. /\ keysCalls'[c] \in O!Call /\ keysCalls'[c].phase = "waiting" /\ keysCalls'[c].got = got
        /\ keysCalls'[c].makes = keysCalls[c].makes /\ keysCalls'[c].names = keysCalls[c].names
    <3> PICK n : n = keysCalls'[c]
      OBVIOUS
    <3>1. n = [keysCalls[c] EXCEPT !.phase = "waiting", !.got = got]
      BY <2>3
    <3>2. /\ found \in SUBSET MutationKeys /\ got \in [found -> Calls \cup {0}]
          /\ keysCalls[c] \in O!Call
      BY <1>1, <2>1, <2>2
    <3>3. /\ n \in O!Call /\ n.phase = "waiting" /\ n.got = got
          /\ n.makes = keysCalls[c].makes /\ n.names = keysCalls[c].names
      <4>1. got \in UNION {[js -> Calls \cup {0}] : js \in SUBSET MutationKeys}
        BY <3>2
      <4> QED  BY <3>1, <3>2, <4>1 DEF O!Call
    <3> QED  BY <3>3
  <2>5. keysCalls' \in [Calls -> O!Call]
    BY <1>1, <1>3, <2>3, <2>4
  <2>6. \A d \in Calls : keysCalls'[d].makes = keysCalls[d].makes /\ O!Pending(d)' = O!Pending(d)
    <3> SUFFICES ASSUME NEW d \in Calls
                 PROVE  keysCalls'[d].makes = keysCalls[d].makes /\ O!Pending(d)' = O!Pending(d)
      OBVIOUS
    <3>1. CASE d = c
      BY <3>1, <1>1, <2>4 DEF O!Pending
    <3>2. CASE d # c
      BY <3>2, <2>3 DEF O!Pending
    <3> QED  BY <3>1, <3>2
  <2>7. /\ O!Registered' = O!Registered /\ \A k : O!Makers(k)' = O!Makers(k) /\ Over(k)' = Over(k)
        /\ Single' /\ Lost' = Lost
    BY <1>1, <2>6, SameMade
  <2>8. /\ DOMAIN keysCallbacks' = DOMAIN keysCallbacks
        /\ \A k \in found : keysCallbacks'[k] = Append(keysCallbacks[k], c)
        /\ \A k \in DOMAIN keysCallbacks \ found : keysCallbacks'[k] = keysCallbacks[k]
    BY <1>3, <2>1
  <2>9. \A k \in DOMAIN keysCallbacks : keysCallbacks[k] \in Seq(Calls)
    BY DEF KeysInv, KeysTyped
  <2>10. /\ \A k \in found :
              keysCallbacks'[k] \in Seq(Calls) /\ O!Range(keysCallbacks'[k]) = O!Range(keysCallbacks[k]) \cup {c}
         /\ \A k \in DOMAIN keysCallbacks \ found :
              keysCallbacks'[k] \in Seq(Calls) /\ O!Range(keysCallbacks'[k]) = O!Range(keysCallbacks[k])
    <3>1. ASSUME NEW k \in found
          PROVE  /\ keysCallbacks'[k] \in Seq(Calls)
                 /\ O!Range(keysCallbacks'[k]) = O!Range(keysCallbacks[k]) \cup {c}
      <4> PICK w \in Seq(Calls) : w = keysCallbacks[k]
        BY <2>1, <2>9
      <4>1. /\ Append(w, c) \in Seq(Calls) /\ Len(w) \in Nat /\ DOMAIN w = 1 .. Len(w)
            /\ DOMAIN Append(w, c) = 1 .. Len(w) + 1 /\ Append(w, c)[Len(w) + 1] = c
            /\ \A i \in 1 .. Len(w) : Append(w, c)[i] = w[i]
        OBVIOUS
      <4>2. O!Range(Append(w, c)) = O!Range(w) \cup {c}
        BY <4>1 DEF O!Range
      <4> QED  BY <4>1, <4>2, <2>8
    <3> QED  BY <3>1, <2>8, <2>9
  <2>11. KeysTyped'
    BY <1>1, <2>5, <2>8, <2>10 DEF KeysInv, KeysTyped
  <2>12. Named'
    <3>1. \A d \in DOMAIN keysKeyCache : keysKeyCache[d].key \in O!Range(keysCalls'[d].makes)
      BY <2>6 DEF KeysInv, KeysTyped, Named
    <3>2. ASSUME NEW d \in Calls
          PROVE  /\ DOMAIN keysCalls'[d].got \subseteq Seen(keysCalls'[d].names)
                 /\ keysCalls'[d].names \subseteq O!Registered \X O!Places
                 /\ keysCalls'[d].phase = "idle" => keysCalls'[d].makes = <<>>
                 /\ keysCalls'[d].phase \in {"idle", "started"} => DOMAIN keysCalls'[d].got = {}
                 /\ O!Pending(d)' /\ keysCalls'[d].makes # <<>> => d \in DOMAIN keysKeyCache
      <4>1. CASE d = c
        BY <4>1, <2>1, <2>2, <2>4, <2>6 DEF KeysInv, Named
      <4>2. CASE d # c
        BY <4>2, <2>3, <2>6 DEF KeysInv, Named
      <4> QED  BY <4>1, <4>2
    <3> QED  BY <3>1, <3>2, <1>1, <2>7, <2>8 DEF KeysInv, Named
  <2>13. Open'
    BY <2>6, <2>7, <2>8 DEF KeysInv, Open, O!Makers
  <2>14. Waiters'
    <3>1. ASSUME NEW k \in DOMAIN keysCallbacks, NEW d \in O!Range(keysCallbacks'[k])
          PROVE  /\ keysCalls'[d].phase = "waiting" /\ k \in DOMAIN keysCalls'[d].got
                 /\ keysCalls'[d].got[k] = 0
      <4>1. CASE d = c /\ k \in found
        BY <4>1, <2>2, <2>4
      <4>2. CASE d \in O!Range(keysCallbacks[k])
        <5>1. d \in Calls /\ keysCalls[d].phase = "waiting"
          BY <4>2 DEF KeysInv, KeysTyped, Waiters, O!Range
        <5> QED  BY <5>1, <4>2, <1>1, <2>3 DEF KeysInv, Waiters
      <4> QED  BY <4>1, <4>2, <2>10
    <3>2. ASSUME NEW d \in Calls, keysCalls'[d].phase = "waiting"
          PROVE  /\ \E k \in DOMAIN keysCalls'[d].got : keysCalls'[d].got[k] = 0
                 /\ \A k \in DOMAIN keysCalls'[d].got \ Lost :
                      keysCalls'[d].got[k] = 0 => k \in DOMAIN keysCallbacks /\ d \in O!Range(keysCallbacks'[k])
      <4>1. CASE d = c
        BY <4>1, <1>3, <2>1, <2>2, <2>4, <2>10
      <4>2. CASE d # c
        <5>1. \A k \in DOMAIN keysCallbacks : O!Range(keysCallbacks[k]) \subseteq O!Range(keysCallbacks'[k])
          BY <2>10
        <5> QED  BY <5>1, <4>2, <3>2, <2>3 DEF KeysInv, Waiters
      <4> QED  BY <4>1, <4>2
    <3> QED  BY <3>1, <3>2, <2>7, <2>8 DEF Waiters
  <2>15. Values'
    <3>1. ASSUME NEW k \in (Seen(keysCalls[c].names) \ found) \ Lost
          PROVE  Over(k)
      <4>1. k \in MutationKeys
        BY DEF Seen
      <4>2. k \notin DOMAIN keysCallbacks
        BY <2>1
      <4> QED  BY <4>1, <4>2 DEF KeysInv, Open
    <3>2. ASSUME NEW d \in Calls
          PROVE  /\ \A k \in DOMAIN keysCalls'[d].got :
                      /\ keysCalls'[d].got[k] \in O!Makers(k) \cup {0}
                      /\ keysCalls'[d].phase = "sent" => keysCalls'[d].got[k] # 0
                      /\ keysCalls'[d].got[k] # 0 /\ k \notin Lost => Over(k)
                 /\ keysCalls'[d].phase \in {"waiting", "sent"} =>
                      \A k \in (Seen(keysCalls'[d].names) \ DOMAIN keysCalls'[d].got) \ Lost : Over(k)
      <4>1. CASE d = c
        BY <4>1, <3>1, <2>2, <2>4
      <4>2. CASE d # c
        BY <4>2, <2>3 DEF KeysInv, Values
      <4> QED  BY <4>1, <4>2
    <3> QED  BY <3>2, <2>7 DEF Values
  <2> QED  BY <2>7, <2>11, <2>12, <2>13, <2>14, <2>15 DEF KeysInv
<1> QED  BY <1>2, <1>3 DEF O!BeforeNetwork

-----------------------------------------------------------------------------
(* The answer of a mutation.                                               *)

\* Who waits for key k has its value, and is sent if that was the last one.
LEMMA ToldShape ==
  ASSUME KeysInv, NEW k \in DOMAIN keysCallbacks, NEW v \in Calls, NEW d \in O!Range(keysCallbacks[k]),
         NEW r, r = O!Told(keysCalls, keysCallbacks[k], k, v)[d]
  PROVE  LET got == [keysCalls[d].got EXCEPT ![k] = v] IN
         /\ d \in Calls /\ r \in O!Call /\ r.makes = keysCalls[d].makes
         /\ r.names = keysCalls[d].names
         /\ r.got = got /\ DOMAIN r.got = DOMAIN keysCalls[d].got
         /\ r.phase = IF \A j \in DOMAIN got : got[j] # 0 THEN "sent" ELSE "waiting"
<1> DEFINE got == [keysCalls[d].got EXCEPT ![k] = v]
           phase == IF \A j \in DOMAIN got : got[j] # 0 THEN "sent" ELSE keysCalls[d].phase
<1>1. /\ d \in Calls /\ keysCalls[d] \in O!Call /\ keysCalls[d].phase = "waiting"
      /\ k \in DOMAIN keysCalls[d].got
  BY DEF KeysInv, KeysTyped, Waiters, O!Range
<1>2. r = [keysCalls[d] EXCEPT !.got = got, !.phase = phase]
  BY <1>1 DEF O!Told
<1>3. /\ DOMAIN keysCalls[d].got \in SUBSET MutationKeys
      /\ keysCalls[d].got \in [DOMAIN keysCalls[d].got -> Calls \cup {0}]
  BY <1>1, CallFields
<1>4. got \in [DOMAIN keysCalls[d].got -> Calls \cup {0}] /\ DOMAIN got = DOMAIN keysCalls[d].got
  BY <1>1, <1>3
<1>5. got \in UNION {[ks -> Calls \cup {0}] : ks \in SUBSET MutationKeys}
  BY <1>3, <1>4
<1>6. /\ phase \in {"sent", "waiting"}
      /\ phase = IF \A j \in DOMAIN got : got[j] # 0 THEN "sent" ELSE "waiting"
  BY <1>1
<1> HIDE DEF got, phase
<1>7. /\ r \in O!Call /\ r.makes = keysCalls[d].makes /\ r.names = keysCalls[d].names /\ r.got = got
      /\ r.phase = phase
  BY <1>1, <1>2, <1>5, <1>6 DEF O!Call
<1> QED  BY <1>1, <1>4, <1>6, <1>7 DEF got

LEMMA SucceedKeeps ==
  ASSUME KeysConstants, KeysInv, NEW c \in Calls, O!Succeed(c)
  PROVE  KeysInv'
<1> PICK k : k = keysKeyCache[c].key
  OBVIOUS
<1> PICK w : w = O!Range(keysCallbacks[k])
  OBVIOUS
<1>1. /\ keysCalls[c].phase = "sent" /\ c \in DOMAIN keysKeyCache /\ k \in DOMAIN keysCallbacks
      /\ keysCalls' = [O!Told(keysCalls, keysCallbacks[k], k, c) EXCEPT ![c] = O!Done(@)]
      /\ keysCallbacks' = O!Without(keysCallbacks, k) /\ keysKeyCache' = O!Without(keysKeyCache, c)
      /\ keysOrphans' = keysOrphans \cup (O!Range(keysCalls[c].makes) \ {k})
      /\ keysReused' = keysReused
  BY DEF O!Succeed, O!Extracted
<1>2. /\ keysCalls \in [Calls -> O!Call] /\ keysCalls[c].makes \in Seq(MutationKeys)
      /\ k \in MutationKeys
      /\ k \in O!Range(keysCalls[c].makes) /\ c \in O!Makers(k)
  BY <1>1, CallFields DEF KeysInv, KeysTyped, Named, O!Makers
<1>3. w \subseteq Calls /\ c \notin w
  BY <1>1 DEF KeysInv, KeysTyped, Waiters, O!Range
<1>4. /\ keysCalls'[c] = O!Done(keysCalls[c])
      /\ \A d \in Calls \ {c} : keysCalls'[d] = O!Told(keysCalls, keysCallbacks[k], k, c)[d]
      /\ DOMAIN keysCalls' = Calls
  BY <1>1, <1>2, <1>3 DEF O!Told
<1>5. /\ keysCalls'[c] \in O!Call /\ keysCalls'[c].phase = "done"
      /\ keysCalls'[c].makes = keysCalls[c].makes
      /\ keysCalls'[c].names = {} /\ DOMAIN keysCalls'[c].got = {}
  BY <1>2, <1>4, DoneCall
<1>6. \A d \in Calls \ (w \cup {c}) : keysCalls'[d] = keysCalls[d]
  BY <1>4 DEF O!Told
<1>7. ASSUME NEW d \in w
      PROVE  /\ keysCalls[d].phase = "waiting" /\ keysCalls'[d] \in O!Call
             /\ keysCalls'[d].makes = keysCalls[d].makes
             /\ keysCalls'[d].names = keysCalls[d].names
             /\ DOMAIN keysCalls'[d].got = DOMAIN keysCalls[d].got
             /\ keysCalls'[d].got[k] = c
             /\ \A j \in DOMAIN keysCalls[d].got \ {k} : keysCalls'[d].got[j] = keysCalls[d].got[j]
             /\ keysCalls'[d].phase \in {"waiting", "sent"}
             /\ keysCalls'[d].phase = "sent" <=> \A j \in DOMAIN keysCalls[d].got : keysCalls'[d].got[j] # 0
  <2> PICK r : r = keysCalls'[d]
    OBVIOUS
  <2>1. /\ d \in Calls /\ keysCalls[d].phase = "waiting" /\ k \in DOMAIN keysCalls[d].got /\ d # c
    BY <1>1, <1>3 DEF KeysInv, Waiters
  <2>2. r = O!Told(keysCalls, keysCallbacks[k], k, c)[d]
    BY <2>1, <1>4
  <2> DEFINE got == [keysCalls[d].got EXCEPT ![k] = c]
  <2>3. /\ r \in O!Call /\ r.makes = keysCalls[d].makes /\ r.names = keysCalls[d].names
        /\ r.got = got /\ DOMAIN r.got = DOMAIN keysCalls[d].got
        /\ r.phase = IF \A j \in DOMAIN got : got[j] # 0 THEN "sent" ELSE "waiting"
    BY <2>2, <1>1, ToldShape
  <2>4. got[k] = c /\ \A j \in DOMAIN keysCalls[d].got \ {k} : got[j] = keysCalls[d].got[j]
    BY <2>1
  <2> HIDE DEF got
  <2> QED  BY <2>1, <2>3, <2>4
<1>8. keysCalls' \in [Calls -> O!Call]
  <2>1. \A d \in Calls : keysCalls'[d] \in O!Call
    BY <1>2, <1>5, <1>6, <1>7
  <2>2. keysCalls' = [d \in Calls |-> keysCalls'[d]]
    BY <1>1, <1>2, <1>4 DEF O!Told
  <2> QED  BY <2>1, <2>2
<1>9. \A d \in Calls : keysCalls'[d].makes = keysCalls[d].makes
  BY <1>5, <1>6, <1>7
<1>10. O!Registered' = O!Registered /\ \A j : O!Makers(j)' = O!Makers(j)
  BY <1>9, SameMakers
<1>11. /\ \A d \in Calls \ {c} : O!Pending(d)' = O!Pending(d)
       /\ ~O!Pending(c)' /\ \A d \in Calls : O!Pending(d)' => O!Pending(d)
  <2>1. ASSUME NEW d \in Calls \ {c}
        PROVE  O!Pending(d)' = O!Pending(d)
    <3>1. CASE d \in w
      BY <3>1, <1>7 DEF O!Pending
    <3>2. CASE d \notin w
      BY <3>2, <1>6 DEF O!Pending
    <3> QED  BY <3>1, <3>2
  <2>2. ~O!Pending(c)'
    BY <1>5 DEF O!Pending
  <2> QED  BY <2>1, <2>2
<1>12. \A j : Over(j) => Over(j)'
  BY <1>10, <1>11 DEF Over, O!Makers
<1>13. Lost' = Lost \cup (O!Range(keysCalls[c].makes) \ {k})
  BY <1>1 DEF Lost
<1>14. /\ DOMAIN keysCallbacks' = DOMAIN keysCallbacks \ {k}
       /\ \A j \in DOMAIN keysCallbacks' : keysCallbacks'[j] = keysCallbacks[j]
       /\ DOMAIN keysKeyCache' = DOMAIN keysKeyCache \ {c}
       /\ \A d \in DOMAIN keysKeyCache' : keysKeyCache'[d] = keysKeyCache[d]
  BY <1>1 DEF O!Without
<1>15. KeysTyped'
  <2>1. O!Range(keysCalls[c].makes) \subseteq MutationKeys
    BY <1>2 DEF O!Range
  <2> QED  BY <2>1, <1>1, <1>8, <1>14 DEF KeysInv, KeysTyped
<1>16. Named'
  <2>1. ASSUME NEW d \in Calls
        PROVE  /\ DOMAIN keysCalls'[d].got \subseteq Seen(keysCalls'[d].names)
               /\ keysCalls'[d].names \subseteq O!Registered \X O!Places
               /\ keysCalls'[d].phase = "idle" => keysCalls'[d].makes = <<>>
               /\ keysCalls'[d].phase \in {"idle", "started"} => DOMAIN keysCalls'[d].got = {}
               /\ O!Pending(d)' /\ keysCalls'[d].makes # <<>> => d \in DOMAIN keysKeyCache'
    <3>1. CASE d = c
      BY <3>1, <1>5, <1>11
    <3>2. CASE d \in w
      BY <3>2, <1>3, <1>7, <1>11, <1>14 DEF KeysInv, Named
    <3>3. CASE d \notin w /\ d # c
      BY <3>3, <1>6, <1>11, <1>14 DEF KeysInv, Named
    <3> QED  BY <3>1, <3>2, <3>3
  <2>2. \A d \in DOMAIN keysKeyCache' : keysKeyCache'[d].key \in O!Range(keysCalls'[d].makes)
    <3> SUFFICES ASSUME NEW d \in DOMAIN keysKeyCache'
                 PROVE  keysKeyCache'[d].key \in O!Range(keysCalls'[d].makes)
      OBVIOUS
    <3>1. d \in DOMAIN keysKeyCache /\ d \in Calls /\ keysKeyCache'[d] = keysKeyCache[d]
      BY <1>14 DEF KeysInv, KeysTyped
    <3>2. keysCalls'[d].makes = keysCalls[d].makes
      BY <3>1, <1>9
    <3> QED  BY <3>1, <3>2 DEF KeysInv, Named
  <2>3. DOMAIN keysCallbacks' \subseteq O!Registered'
    BY <1>10, <1>14 DEF KeysInv, Named
  <2> QED  BY <2>1, <2>2, <2>3, <1>10 DEF Named
<1>17. Single'
  BY <1>1, <1>10 DEF KeysInv, Single
<1>18. Open'
  <2> SUFFICES ASSUME NEW j \in MutationKeys \ Lost'
               PROVE  /\ j \in DOMAIN keysCallbacks' => \E d \in O!Makers(j) : O!Pending(d)'
                      /\ j \in DOMAIN keysCallbacks' \/ Over(j)'
    BY <1>10 DEF Open
  <2>1. CASE j = k
    <3>1. \A d \in O!Makers(k) : d = c
      BY <2>1, <1>2, <1>13 DEF KeysInv, Single, Lost
    <3>2. Over(k)'
      BY <3>1, <1>10, <1>11 DEF Over
    <3> QED  BY <2>1, <3>2, <1>14
  <2>2. CASE j # k
    <3>1. j \in MutationKeys \ Lost /\ c \notin O!Makers(j)
      BY <2>2, <1>13 DEF O!Makers
    <3> QED  BY <3>1, <2>2, <1>11, <1>12, <1>14 DEF KeysInv, Open, O!Makers
  <2> QED  BY <2>1, <2>2
<1>19. Waiters'
  <2>1. ASSUME NEW j \in DOMAIN keysCallbacks', NEW d \in O!Range(keysCallbacks'[j])
        PROVE  /\ keysCalls'[d].phase = "waiting" /\ j \in DOMAIN keysCalls'[d].got
               /\ keysCalls'[d].got[j] = 0
    <3>1. /\ j # k /\ d \in Calls \ {c} /\ keysCalls[d].phase = "waiting"
          /\ j \in DOMAIN keysCalls[d].got
          /\ keysCalls[d].got[j] = 0
      BY <1>1, <1>14 DEF KeysInv, KeysTyped, Waiters, O!Range
    <3>2. CASE d \in w
      BY <3>1, <3>2, <1>7
    <3>3. CASE d \notin w
      BY <3>1, <3>3, <1>6
    <3> QED  BY <3>2, <3>3
  <2>2. ASSUME NEW d \in Calls, keysCalls'[d].phase = "waiting"
        PROVE  /\ \E j \in DOMAIN keysCalls'[d].got : keysCalls'[d].got[j] = 0
               /\ \A j \in DOMAIN keysCalls'[d].got \ Lost' :
                    keysCalls'[d].got[j] = 0 => j \in DOMAIN keysCallbacks' /\ d \in O!Range(keysCallbacks'[j])
    <3>1. d # c
      BY <2>2, <1>5
    <3>2. CASE d \in w
      <4>1. \E j \in DOMAIN keysCalls'[d].got : keysCalls'[d].got[j] = 0
        BY <3>2, <2>2, <1>7
      <4>2. ASSUME NEW j \in DOMAIN keysCalls'[d].got \ Lost', keysCalls'[d].got[j] = 0
            PROVE  j \in DOMAIN keysCallbacks' /\ d \in O!Range(keysCallbacks'[j])
        <5>1. j # k
          BY <4>2, <3>2, <1>7 DEF KeysConstants
        <5>2. /\ j \in DOMAIN keysCalls[d].got \ Lost /\ keysCalls[d].got[j] = 0
              /\ keysCalls[d].phase = "waiting"
          BY <4>2, <5>1, <3>2, <1>7, <1>13
        <5> QED  BY <5>1, <5>2, <1>14 DEF KeysInv, Waiters
      <4> QED  BY <4>1, <4>2
    <3>3. CASE d \notin w
      <4>1. keysCalls'[d] = keysCalls[d]
        BY <3>1, <3>3, <1>6
      <4>2. \A j \in DOMAIN keysCalls[d].got \ Lost : keysCalls[d].got[j] = 0 => j # k
        BY <2>2, <3>3, <4>1 DEF KeysInv, Waiters
      <4> QED  BY <4>1, <4>2, <2>2, <1>13, <1>14 DEF KeysInv, Waiters
    <3> QED  BY <3>2, <3>3
  <2> QED  BY <2>1, <2>2 DEF Waiters
<1>20. k \notin Lost' => Over(k)'
  <2> SUFFICES ASSUME k \notin Lost', NEW d \in O!Makers(k)
               PROVE  ~O!Pending(d)'
    BY <1>10 DEF Over
  <2>1. d = c
    BY <1>2, <1>13 DEF KeysInv, Single, Lost
  <2> QED  BY <2>1, <1>11
<1>21. Values'
  <2> SUFFICES ASSUME NEW d \in Calls
               PROVE  /\ \A j \in DOMAIN keysCalls'[d].got :
                           /\ keysCalls'[d].got[j] \in O!Makers(j) \cup {0}
                           /\ keysCalls'[d].phase = "sent" => keysCalls'[d].got[j] # 0
                           /\ keysCalls'[d].got[j] # 0 /\ j \notin Lost' => Over(j)'
                      /\ keysCalls'[d].phase \in {"waiting", "sent"} =>
                           \A j \in (Seen(keysCalls'[d].names) \ DOMAIN keysCalls'[d].got) \ Lost' : Over(j)
    BY <1>10, <1>12 DEF Values
  <2>1. CASE d = c
    BY <2>1, <1>5
  <2>2. CASE d \in w
    <3>1. ASSUME NEW j \in DOMAIN keysCalls'[d].got
          PROVE  /\ keysCalls'[d].got[j] \in O!Makers(j) \cup {0}
                 /\ keysCalls'[d].phase = "sent" => keysCalls'[d].got[j] # 0
                 /\ keysCalls'[d].got[j] # 0 /\ j \notin Lost' => Over(j)'
      <4>1. CASE j = k
        BY <4>1, <3>1, <2>2, <1>2, <1>7, <1>20
      <4>2. CASE j # k
        BY <4>2, <3>1, <2>2, <1>7, <1>12, <1>13 DEF KeysInv, Values
      <4> QED  BY <4>1, <4>2
    <3>2. \A j \in (Seen(keysCalls'[d].names) \ DOMAIN keysCalls'[d].got) \ Lost' : Over(j)
      BY <2>2, <1>7, <1>13 DEF KeysInv, Values
    <3> QED  BY <3>1, <3>2
  <2>3. CASE d \notin w /\ d # c
    BY <2>3, <1>6, <1>12, <1>13 DEF KeysInv, Values
  <2> QED  BY <2>1, <2>2, <2>3
<1> QED  BY <1>15, <1>16, <1>17, <1>18, <1>19, <1>21 DEF KeysInv

-----------------------------------------------------------------------------
(* A mutation starts.                                                      *)

LEMMA StartKeeps ==
  ASSUME KeysConstants, KeysInv, NEW c \in Calls, NEW makes \in O!Responses(c),
         NEW names \in SUBSET (O!Registered \X O!Places), O!Start(c, makes, names)
  PROVE  KeysInv'
<1> PICK new : new = O!Range(makes)
  OBVIOUS
<1>1. /\ makes \in Seq(MutationKeys) /\ new \subseteq MutationKeys
      /\ (Len(makes) # 0 => makes[Len(makes)] \in new)
  <2>1. makes \in Seq(MutationKeys)
    <3>1. CASE makes = <<>>
      BY <3>1
    <3>2. ASSUME NEW m \in 1 .. MaxMade[c], makes \in [1 .. m -> MutationKeys]
          PROVE  makes \in Seq(MutationKeys)
      <4>1. m \in Nat
        BY DEF KeysConstants
      <4> QED  BY <4>1, <3>2
    <3> QED  BY <3>1, <3>2 DEF O!Responses
  <2> QED  BY <2>1 DEF O!Range
<1>2. /\ keysCalls \in [Calls -> O!Call] /\ keysCalls[c] \in O!Call /\ keysCalls[c].phase = "idle"
      /\ keysCalls[c].makes = <<>> /\ DOMAIN keysCalls[c].got = {}
      /\ O!Registered \subseteq MutationKeys
      /\ \A d \in Calls : keysCalls[d].names \subseteq O!Registered \X O!Places
  <2>1. \A d \in Calls : keysCalls[d].makes \in Seq(MutationKeys)
    BY CallFields DEF KeysInv, KeysTyped
  <2>2. O!Registered \subseteq MutationKeys
    BY <2>1 DEF O!Registered, O!Range
  <2> QED  BY <2>2 DEF KeysInv, KeysTyped, Named, O!Start
<1>3. /\ keysCalls' = [keysCalls EXCEPT ![c].phase = "started", ![c].makes = makes, ![c].names = names]
      /\ keysCallbacks' = [k \in DOMAIN keysCallbacks \cup new |->
                         IF k \in new THEN <<>> ELSE keysCallbacks[k]]
      /\ keysKeyCache' = IF Len(makes) = 0 THEN keysKeyCache
                     ELSE [d \in DOMAIN keysKeyCache \cup {c} |->
                             IF d = c THEN [path |-> Len(makes), key |-> makes[Len(makes)]]
                             ELSE keysKeyCache[d]]
      /\ keysReused \cup (new \cap O!Registered) \subseteq keysReused'
      /\ keysReused' \subseteq keysReused \cup new /\ keysOrphans' = keysOrphans
  BY DEF O!Start
<1>4. /\ keysCalls'[c] = [keysCalls[c] EXCEPT !.phase = "started", !.makes = makes, !.names = names]
      /\ \A d \in Calls \ {c} : keysCalls'[d] = keysCalls[d]
  BY <1>2, <1>3
<1>5. /\ keysCalls'[c] \in O!Call /\ keysCalls'[c].phase = "started" /\ keysCalls'[c].makes = makes
      /\ keysCalls'[c].names = names /\ keysCalls'[c].got = keysCalls[c].got
  <2>1. names \in SUBSET (MutationKeys \X O!Places)
    BY <1>2
  <2> QED  BY <2>1, <1>1, <1>2, <1>4 DEF O!Call
<1>6. keysCalls' \in [Calls -> O!Call]
  <2>1. DOMAIN keysCalls' = Calls /\ \A d \in Calls : keysCalls'[d] \in O!Call
    BY <1>2, <1>3, <1>4, <1>5
  <2>2. keysCalls' = [d \in Calls |-> keysCalls'[d]]
    BY <2>1, <1>2, <1>3
  <2> QED  BY <2>1, <2>2
<1>7. /\ \A k : c \notin O!Makers(k)
      /\ \A k \in new : O!Makers(k)' = O!Makers(k) \cup {c}
      /\ \A k : k \notin new => O!Makers(k)' = O!Makers(k)
      /\ \A k : k \notin O!Registered => O!Makers(k) = {}
      /\ O!Registered' = O!Registered \cup new
  <2>1. O!Range(keysCalls[c].makes) = {} /\ O!Range(keysCalls'[c].makes) = new
    BY <1>2, <1>5 DEF O!Range
  <2>2. \A d \in Calls \ {c} : O!Range(keysCalls'[d].makes) = O!Range(keysCalls[d].makes)
    BY <1>4
  <2> QED  BY <2>1, <2>2 DEF O!Makers, O!Registered
<1>8. O!Pending(c)' /\ \A d \in Calls \ {c} : O!Pending(d)' = O!Pending(d)
  BY <1>4, <1>5 DEF O!Pending
<1>9. \A k : k \notin new => Over(k)' = Over(k)
  BY <1>7, <1>8 DEF Over, O!Makers
<1>10. Lost \subseteq Lost' /\ \A k \in new \ Lost' : k \notin O!Registered
  BY <1>3 DEF Lost
<1>11. /\ DOMAIN keysCallbacks' = DOMAIN keysCallbacks \cup new
       /\ \A k \in new : keysCallbacks'[k] = <<>> /\ O!Range(keysCallbacks'[k]) = {}
       /\ \A k \in DOMAIN keysCallbacks \ new : keysCallbacks'[k] = keysCallbacks[k]
  BY <1>3 DEF O!Range
<1>12. /\ DOMAIN keysKeyCache' \subseteq DOMAIN keysKeyCache \cup {c}
       /\ DOMAIN keysKeyCache \subseteq DOMAIN keysKeyCache'
       /\ \A d \in DOMAIN keysKeyCache' \ {c} : keysKeyCache'[d] = keysKeyCache[d]
       /\ Len(makes) # 0 => c \in DOMAIN keysKeyCache' /\ keysKeyCache'[c].key = makes[Len(makes)]
       /\ Len(makes) = 0 => keysKeyCache' = keysKeyCache
  BY <1>3
<1>13. c \notin DOMAIN keysKeyCache
  <2>1. O!Range(keysCalls[c].makes) = {}
    BY <1>2 DEF O!Range
  <2> QED  BY <2>1 DEF KeysInv, Named
<1>14. KeysTyped'
  BY <1>1, <1>3, <1>6, <1>11, <1>12 DEF KeysInv, KeysTyped
<1>15. Named'
  <2>1. ASSUME NEW d \in Calls
        PROVE  /\ DOMAIN keysCalls'[d].got \subseteq Seen(keysCalls'[d].names)
               /\ keysCalls'[d].names \subseteq O!Registered' \X O!Places
               /\ keysCalls'[d].phase = "idle" => keysCalls'[d].makes = <<>>
               /\ keysCalls'[d].phase \in {"idle", "started"} => DOMAIN keysCalls'[d].got = {}
               /\ O!Pending(d)' /\ keysCalls'[d].makes # <<>> => d \in DOMAIN keysKeyCache'
    <3>1. CASE d = c
      BY <3>1, <1>1, <1>2, <1>5, <1>7, <1>12
    <3>2. CASE d # c
      BY <3>2, <1>4, <1>7, <1>8, <1>12 DEF KeysInv, Named
    <3> QED  BY <3>1, <3>2
  <2>2. ASSUME NEW d \in DOMAIN keysKeyCache'
        PROVE  keysKeyCache'[d].key \in O!Range(keysCalls'[d].makes)
    <3>1. CASE d = c
      BY <3>1, <1>1, <1>5, <1>12, <1>13
    <3>2. CASE d # c
      <4>1. /\ d \in DOMAIN keysKeyCache /\ d \in Calls /\ keysKeyCache'[d] = keysKeyCache[d]
            /\ keysCalls'[d] = keysCalls[d]
        BY <3>2, <1>4, <1>12 DEF KeysInv, KeysTyped
      <4> QED  BY <4>1 DEF KeysInv, Named
    <3> QED  BY <3>1, <3>2
  <2>3. DOMAIN keysCallbacks' \subseteq O!Registered'
    BY <1>7, <1>11 DEF KeysInv, Named
  <2> QED  BY <2>1, <2>2, <2>3 DEF Named
<1>16. Single'
  <2> SUFFICES ASSUME NEW k \in MutationKeys \ keysReused', NEW d \in O!Makers(k)', NEW e \in O!Makers(k)'
               PROVE  d = e
    BY DEF Single
  <2>1. CASE k \in new
    <3>1. k \notin O!Registered
      BY <2>1, <1>3
    <3> QED  BY <2>1, <3>1, <1>7
  <2>2. CASE k \notin new
    BY <2>2, <1>3, <1>7 DEF KeysInv, Single
  <2> QED  BY <2>1, <2>2
<1>17. Open'
  <2> SUFFICES ASSUME NEW k \in MutationKeys \ Lost'
               PROVE  /\ k \in DOMAIN keysCallbacks' => \E d \in O!Makers(k)' : O!Pending(d)'
                      /\ k \in DOMAIN keysCallbacks' \/ Over(k)'
    BY DEF Open
  <2>1. CASE k \in new
    BY <2>1, <1>7, <1>8, <1>11
  <2>2. CASE k \notin new
    <3>1. k \in MutationKeys \ Lost /\ \A d \in O!Makers(k) : d \in Calls \ {c}
      BY <1>7, <1>10 DEF O!Makers
    <3> QED  BY <2>2, <3>1, <1>7, <1>8, <1>9, <1>11 DEF KeysInv, Open
  <2> QED  BY <2>1, <2>2
<1>18. Waiters'
  <2>1. ASSUME NEW k \in DOMAIN keysCallbacks', NEW d \in O!Range(keysCallbacks'[k])
        PROVE  /\ keysCalls'[d].phase = "waiting" /\ k \in DOMAIN keysCalls'[d].got
               /\ keysCalls'[d].got[k] = 0
    <3>1. /\ k \in DOMAIN keysCallbacks \ new /\ d \in Calls /\ keysCalls[d].phase = "waiting"
          /\ k \in DOMAIN keysCalls[d].got /\ keysCalls[d].got[k] = 0
      BY <1>11 DEF KeysInv, KeysTyped, Waiters, O!Range
    <3> QED  BY <3>1, <1>2, <1>4
  <2>2. ASSUME NEW d \in Calls, keysCalls'[d].phase = "waiting"
        PROVE  /\ \E k \in DOMAIN keysCalls'[d].got : keysCalls'[d].got[k] = 0
               /\ \A k \in DOMAIN keysCalls'[d].got \ Lost' :
                    keysCalls'[d].got[k] = 0 => k \in DOMAIN keysCallbacks' /\ d \in O!Range(keysCallbacks'[k])
    <3>1. d # c /\ keysCalls'[d] = keysCalls[d]
      BY <2>2, <1>4, <1>5
    <3>2. \A k \in DOMAIN keysCalls[d].got : k \in O!Registered
      BY <1>2, SeenNamed DEF KeysInv, Named
    <3> QED  BY <2>2, <3>1, <3>2, <1>10, <1>11 DEF KeysInv, Waiters
  <2> QED  BY <2>1, <2>2 DEF Waiters
<1>19. Values'
  <2> SUFFICES ASSUME NEW d \in Calls
               PROVE  /\ \A k \in DOMAIN keysCalls'[d].got :
                           /\ keysCalls'[d].got[k] \in O!Makers(k)' \cup {0}
                           /\ keysCalls'[d].phase = "sent" => keysCalls'[d].got[k] # 0
                           /\ keysCalls'[d].got[k] # 0 /\ k \notin Lost' => Over(k)'
                      /\ keysCalls'[d].phase \in {"waiting", "sent"} =>
                           \A k \in (Seen(keysCalls'[d].names) \ DOMAIN keysCalls'[d].got) \ Lost' : Over(k)'
    BY DEF Values
  <2>1. CASE d = c
    BY <2>1, <1>2, <1>5
  <2>2. CASE d # c
    <3>1. \A k \in Seen(keysCalls[d].names) \ Lost' : k \notin new
      BY <1>2, <1>10, SeenNamed
    <3>2. \A k : O!Makers(k) \subseteq O!Makers(k)'
      BY <1>7
    <3>3. DOMAIN keysCalls[d].got \subseteq Seen(keysCalls[d].names)
      BY DEF KeysInv, Named
    <3> QED  BY <2>2, <3>1, <3>2, <3>3, <1>4, <1>9, <1>10 DEF KeysInv, Values
  <2> QED  BY <2>1, <2>2
<1> QED  BY <1>14, <1>15, <1>16, <1>17, <1>18, <1>19 DEF KeysInv

-----------------------------------------------------------------------------
LEMMA KeysNext ==
  ASSUME KeysConstants, KeysInv, [O!Next]_(O!vars)
  PROVE  KeysInv'
<1>1. CASE UNCHANGED O!vars
  BY <1>1 DEF O!vars, KeysInv, KeysTyped, Named, Single, Open, Over, Lost, Waiters, Values,
              O!Makers, O!Registered, O!Pending
<1>2. ASSUME NEW c \in Calls, NEW makes \in O!Responses(c), NEW names \in SUBSET (O!Registered \X O!Places),
             O!Start(c, makes, names)
      PROVE  KeysInv'
  BY <1>2, StartKeeps
<1>3. ASSUME NEW c \in Calls, O!BeforeNetwork(c)
      PROVE  KeysInv'
  BY <1>3, BeforeNetworkKeeps
<1>4. ASSUME NEW c \in Calls, O!Succeed(c)
      PROVE  KeysInv'
  BY <1>4, SucceedKeeps
<1>5. ASSUME NEW c \in Calls, O!End(c) \/ O!Throw(c)
      PROVE  KeysInv'
  BY <1>5, EndKeeps
<1> QED  BY <1>1, <1>2, <1>3, <1>4, <1>5 DEF O!Next

\* The calls are sent and wait as the invariant says.
LEMMA KeysTell ==
  ASSUME KeysConstants, KeysInv
  PROVE  O!KeysReplaced /\ O!WaitsForSomeone
<1>1. O!KeysReplaced
  <2> SUFFICES ASSUME NEW c \in Calls, keysCalls[c].phase = "sent", NEW n \in keysCalls[c].names
               PROVE  LET r == O!Sent(keysCalls[c])[n] IN
                      IF "real" \in DOMAIN r THEN r.real \in O!Makers(n[1])
                      ELSE \/ n[2] = "item"
                           \/ n[1] \in keysReused \cup keysOrphans
                           \/ \A d \in O!Makers(n[1]) : ~O!Pending(d)
    BY DEF O!KeysReplaced, O!Sent
  <2> DEFINE r == O!Sent(keysCalls[c])[n]
             told == n \in O!Replaced(keysCalls[c]) /\ n[2] = "variable"
  <2>1. CASE told
    <3>1. r = [real |-> keysCalls[c].got[n[1]]]
      BY <2>1 DEF O!Sent
    <3>2. "real" \in DOMAIN r /\ r.real = keysCalls[c].got[n[1]]
      BY <3>1
    <3>3. keysCalls[c].got[n[1]] \in O!Makers(n[1])
      BY <2>1 DEF O!Replaced, KeysInv, Values
    <3> QED  BY <3>2, <3>3
  <2>2. CASE ~told /\ n[2] # "item"
    <3>1. r = [key |-> n[1]]
      BY <2>2 DEF O!Sent
    <3>2. "real" \notin DOMAIN r
      BY <3>1
    <3>3. n[1] \in Lost \/ Over(n[1])
      <4>1. n[1] \in Seen(keysCalls[c].names)
        <5>1. keysCalls[c] \in O!Call /\ n \in MutationKeys \X O!Places
          BY CallFields DEF KeysInv, KeysTyped
        <5> QED  BY <5>1, <2>2 DEF Seen, O!Places
      <4>2. CASE n[1] \notin DOMAIN keysCalls[c].got
        BY <4>1, <4>2 DEF KeysInv, Values
      <4>3. CASE n[1] \in DOMAIN keysCalls[c].got
        BY <4>3 DEF KeysInv, Values
      <4> QED  BY <4>2, <4>3
    <3> QED  BY <3>2, <3>3 DEF Lost, Over
  <2>3. CASE n[2] = "item"
    <3>1. r = [key |-> n[1]]
      BY <2>3 DEF O!Sent, O!Replaced
    <3>2. "real" \notin DOMAIN r
      BY <3>1
    <3> QED  BY <3>2, <2>3
  <2> QED  BY <2>1, <2>2, <2>3
<1>2. O!WaitsForSomeone
  <2> SUFFICES ASSUME NEW c \in Calls, keysCalls[c].phase = "waiting"
               PROVE  \E k \in DOMAIN keysCalls[c].got :
                        /\ keysCalls[c].got[k] = 0
                        /\ \/ k \in keysOrphans \cup keysReused
                           \/ /\ k \in DOMAIN keysCallbacks /\ c \in O!Range(keysCallbacks[k])
                              /\ \E d \in O!Makers(k) :
                                   O!Pending(d) /\ k \in O!Range(keysCalls[d].makes)
    BY DEF O!WaitsForSomeone
  <2>1. PICK k \in DOMAIN keysCalls[c].got : keysCalls[c].got[k] = 0
    BY DEF KeysInv, Waiters
  <2>2. CASE k \in Lost
    BY <2>1, <2>2 DEF Lost
  <2>3. CASE k \notin Lost
    <3>1. k \in DOMAIN keysCallbacks /\ c \in O!Range(keysCallbacks[k]) /\ k \in MutationKeys
      BY <2>1, <2>3 DEF KeysInv, KeysTyped, Waiters
    <3>2. \E d \in O!Makers(k) : O!Pending(d)
      BY <3>1, <2>3 DEF KeysInv, Open
    <3> QED  BY <2>1, <3>1, <3>2 DEF O!Makers
  <2> QED  BY <2>2, <2>3
<1> QED  BY <1>1, <1>2

\* For any calls, keys, responses and inputs: a call that is sent names, outside of lists of
\* keys, no invented key whose mutation is under way, its variables have values that the
\* keys' mutations told, and a call that waits waits for a mutation that knows of it
\* (optimisticKeys.ts).
THEOREM KeysToldHolds ==
  ASSUME KeysConstants
  PROVE  O!Spec => []KeysTold
<1>1. O!Init => KeysInv
  BY KeysInit
<1>2. KeysInv /\ [O!Next]_(O!vars) => KeysInv'
  BY KeysNext
<1>3. KeysInv => KeysTold
  BY KeysTell DEF KeysTold
<1> QED  BY <1>1, <1>2, <1>3, PTL DEF O!Spec

-----------------------------------------------------------------------------
(***************************************************************************)
(* The stream of the first page.                                           *)
(***************************************************************************)

\* The scripts of the stream, and what they leave in the window.
Chunk == [kind : {"initial", "data", "errors"}, query : PageQueries \cup {NoValue},
          snapshot : SUBSET PageQueries]
Window == [initial : SUBSET PageQueries, snapshots : Seq(SUBSET PageQueries), data : SUBSET PageQueries,
           errors : SUBSET PageQueries]

StreamTyped ==
  /\ streamLoading \subseteq PageQueries
  /\ streamServer \in [PageQueries -> {"sent", "data", "errors"}]
  /\ streamPass \in {"shell", "open", "closed", "error"} /\ streamStream \in Seq(Chunk)
  /\ streamWindow \in Window
  /\ streamHydrated \in BOOLEAN
  /\ streamData \in [PageQueries -> {NoValue, "data", "errors", "placeholder"}]
  /\ streamCache \subseteq PageQueries /\ streamDropped \subseteq PageQueries

\* A script says what the server got, and a window has what scripts said.
Told ==
  /\ \A i \in DOMAIN streamStream :
       /\ streamStream[i].snapshot \subseteq I!Snapshot
       /\ streamStream[i].kind \in {"data", "errors"} =>
            streamStream[i].query \in PageQueries /\ streamServer[streamStream[i].query] = streamStream[i].kind
       /\ streamStream[i].kind = "data" => streamStream[i].query \in streamStream[i].snapshot
  /\ \A i \in DOMAIN streamStream :
       streamStream[i].kind = "initial" => PageQueries \ streamLoading \subseteq streamStream[i].snapshot
  /\ I!Hydrated \subseteq I!Snapshot
  /\ ~streamHydrated => \A q \in streamWindow.data :
                       \E i \in DOMAIN streamWindow.snapshots : q \in streamWindow.snapshots[i]
  /\ \A q \in streamWindow.data : streamServer[q] = "data"
  /\ \A q \in streamWindow.errors : streamServer[q] = "errors"

\* Up to the module each answer is in a script or in the window, but for those before the
\* stream opened; and the queries that are not @loading are in the first snapshot.
Reaching ==
  ~streamHydrated =>
    /\ \A q \in I!Settled \ streamDropped :
         \/ \E i \in DOMAIN streamStream :
              streamStream[i].kind = streamServer[q] /\ streamStream[i].query = q
         \/ q \in streamWindow.data \/ q \in streamWindow.errors
    /\ streamPass \in {"open", "closed"} =>
         \/ \E i \in DOMAIN streamStream : streamStream[i].kind = "initial"
         \/ PageQueries \ streamLoading \subseteq streamWindow.initial
    /\ streamPass = "shell" => streamStream = <<>>
    /\ streamPass = "closed" => I!Settled = PageQueries
    /\ streamAsked = {} /\ streamSignals = {}

\* Afterwards the cache answers for them, and each @loading query has its store.
Reached ==
  streamHydrated =>
    /\ streamPass = "closed" /\ streamStream = <<>> /\ streamSignals = streamLoading
    /\ streamAsked = {}
    /\ PageQueries \ streamLoading \subseteq streamCache /\ streamCache \subseteq I!Snapshot
    /\ \A q \in PageQueries : streamData[q] # NoValue => streamData[q] = streamServer[q]
    /\ \A q \in streamLoading : streamData[q] # NoValue \/ q \in streamDropped

\* Inductive: an answer of the server is on its way until the page has it.
StreamInv == StreamTyped /\ Told /\ Reaching /\ Reached

-----------------------------------------------------------------------------
LEMMA StreamInit ==
  ASSUME I!Init
  PROVE  StreamInv
<1>1. streamStream = <<>> /\ streamStream \in Seq(Chunk) /\ DOMAIN streamStream = {}
  BY DEF I!Init
<1>2. /\ streamWindow \in Window /\ streamWindow.data = {} /\ streamWindow.errors = {}
      /\ I!Hydrated = {}
  BY DEF I!Init, I!NoWindow, Window, I!Hydrated
<1>3. StreamTyped
  BY <1>1, <1>2 DEF I!Init, StreamTyped
<1> QED  BY <1>1, <1>2, <1>3 DEF I!Init, StreamInv, Told, Reaching, Reached, I!Settled

-----------------------------------------------------------------------------
(* One lemma for each action.                                              *)

LEMMA AnsweredKeeps ==
  ASSUME StreamConstants, StreamInv, NEW q \in PageQueries, NEW how \in {"data", "errors"},
         I!Answered(q, how)
  PROVE  StreamInv'
<1> DEFINE c == IF how = "data" THEN [kind |-> "data", query |-> q, snapshot |-> I!Snapshot \cup {q}]
                ELSE [kind |-> "errors", query |-> q, snapshot |-> {}]
<1>1. /\ streamServer[q] = "sent" /\ streamPass \in {"shell", "open"}
      /\ streamServer' = [streamServer EXCEPT ![q] = how]
      /\ I!Inject(q, c)
      /\ streamLoading' = streamLoading /\ streamPass' = streamPass /\ streamWindow' = streamWindow
      /\ streamHydrated' = streamHydrated
      /\ streamCache' = streamCache /\ streamData' = streamData /\ streamSignals' = streamSignals
      /\ streamAsked' = streamAsked
  BY DEF I!Answered
<1>2. /\ streamServer' \in [PageQueries -> {"sent", "data", "errors"}] /\ streamServer'[q] = how
      /\ \A r \in PageQueries \ {q} : streamServer'[r] = streamServer[r]
  BY <1>1 DEF StreamInv, StreamTyped
<1>3. /\ I!Snapshot \subseteq I!Snapshot' /\ I!Settled' = I!Settled \cup {q} /\ ~streamHydrated
      /\ how = "data" => q \in I!Snapshot'
      /\ I!Hydrated' = I!Hydrated
  BY <1>1, <1>2 DEF I!Snapshot, I!Settled, StreamInv, Reached, I!Hydrated
<1>4. c \in Chunk /\ c.kind = how /\ c.query = q /\ c.snapshot \subseteq I!Snapshot'
      /\ (how = "data" => q \in c.snapshot)
  BY <1>3 DEF Chunk, I!Snapshot
<1> HIDE DEF c
<1>5. CASE streamPass = "open"
  <2>1. streamStream' = Append(streamStream, c) /\ streamDropped' = streamDropped
    BY <1>1, <1>5 DEF I!Inject
  <2>2. /\ streamStream \in Seq(Chunk) /\ Len(streamStream) \in Nat
        /\ DOMAIN streamStream = 1 .. Len(streamStream)
    BY DEF StreamInv, StreamTyped
  <2>3. /\ streamStream' \in Seq(Chunk) /\ DOMAIN streamStream' = 1 .. Len(streamStream) + 1
        /\ \A i \in 1 .. Len(streamStream) : streamStream'[i] = streamStream[i]
        /\ streamStream'[Len(streamStream) + 1] = c
    BY <2>1, <2>2, <1>4
  <2>4. StreamTyped'
    BY <2>1, <2>3, <1>1, <1>2 DEF StreamInv, StreamTyped
  <2>5. Told'
    <3>1. ASSUME NEW i \in DOMAIN streamStream'
          PROVE  /\ streamStream'[i].snapshot \subseteq I!Snapshot'
                 /\ streamStream'[i].kind = "initial" =>
                      PageQueries \ streamLoading' \subseteq streamStream'[i].snapshot
                 /\ streamStream'[i].kind \in {"data", "errors"} =>
                      streamStream'[i].query \in PageQueries /\ streamServer'[streamStream'[i].query] = streamStream'[i].kind
                 /\ streamStream'[i].kind = "data" =>
                      streamStream'[i].query \in streamStream'[i].snapshot
      <4>1. CASE i \in 1 .. Len(streamStream)
        BY <4>1, <2>2, <2>3, <1>1, <1>2, <1>3 DEF StreamInv, Told
      <4>2. CASE i = Len(streamStream) + 1
        BY <4>2, <2>3, <1>2, <1>4
      <4> QED  BY <4>1, <4>2, <2>2, <2>3
    <3>2. /\ I!Hydrated' \subseteq I!Snapshot'
          /\ \A r \in streamWindow'.data :
               \E i \in DOMAIN streamWindow'.snapshots : r \in streamWindow'.snapshots[i]
      BY <1>1, <1>3 DEF StreamInv, Told
    <3>3. /\ \A r \in streamWindow'.data : streamServer'[r] = "data"
          /\ \A r \in streamWindow'.errors : streamServer'[r] = "errors"
      BY <1>1, <1>2 DEF StreamInv, StreamTyped, Window, Told
    <3> QED  BY <3>1, <3>2, <3>3 DEF Told
  <2>6. Reaching'
    <3>1. ASSUME NEW r \in I!Settled' \ streamDropped'
          PROVE  \/ \E i \in DOMAIN streamStream' :
                      streamStream'[i].kind = streamServer'[r] /\ streamStream'[i].query = r
                 \/ r \in streamWindow'.data \/ r \in streamWindow'.errors
      <4>1. CASE r = q
        BY <4>1, <2>2, <2>3, <1>2, <1>4
      <4>2. CASE r # q
        <5>1. r \in I!Settled \ streamDropped /\ streamServer'[r] = streamServer[r]
          BY <4>2, <3>1, <2>1, <1>2, <1>3 DEF I!Settled
        <5> QED  BY <5>1, <2>2, <2>3, <1>1, <1>3 DEF StreamInv, Reaching
      <4> QED  BY <4>1, <4>2
    <3>2. \/ \E i \in DOMAIN streamStream' : streamStream'[i].kind = "initial"
          \/ PageQueries \ streamLoading' \subseteq streamWindow'.initial
      BY <2>2, <2>3, <1>1, <1>3, <1>5 DEF StreamInv, Reaching
    <3> QED  BY <3>1, <3>2, <1>1, <1>3, <1>5 DEF StreamInv, Reaching
  <2>7. Reached'
    BY <1>1, <1>3 DEF Reached
  <2> QED  BY <2>4, <2>5, <2>6, <2>7 DEF StreamInv
<1>6. CASE streamPass = "shell"
  <2>1. streamStream' = streamStream /\ streamDropped' = streamDropped \cup {q}
    BY <1>1, <1>6 DEF I!Inject
  <2>2. StreamTyped'
    BY <2>1, <1>1, <1>2 DEF StreamInv, StreamTyped
  <2>3. Told'
    <3>1. /\ \A r \in streamWindow'.data : streamServer'[r] = "data"
          /\ \A r \in streamWindow'.errors : streamServer'[r] = "errors"
      BY <1>1, <1>2 DEF StreamInv, StreamTyped, Window, Told
    <3>2. \A i \in DOMAIN streamStream :
            streamStream[i].kind \in {"data", "errors"} => streamServer'[streamStream[i].query] = streamStream[i].kind
      BY <1>1, <1>2 DEF StreamInv, Told
    <3> QED  BY <3>1, <3>2, <2>1, <1>1, <1>3 DEF StreamInv, Told
  <2>4. Reaching'
    <3>1. \A r \in I!Settled' \ streamDropped' : r \in I!Settled \ streamDropped /\ streamServer'[r] = streamServer[r]
      BY <2>1, <1>2, <1>3 DEF I!Settled
    <3> QED  BY <3>1, <2>1, <1>1, <1>3, <1>6 DEF StreamInv, Reaching
  <2>5. Reached'
    BY <1>1, <1>3 DEF Reached
  <2> QED  BY <2>2, <2>3, <2>4, <2>5 DEF StreamInv
<1> QED  BY <1>1, <1>5, <1>6

LEMMA ShellKeeps ==
  ASSUME StreamConstants, StreamInv, I!Shell
  PROVE  StreamInv'
<1>1. /\ streamPass = "shell" /\ streamLoading' = streamLoading /\ streamServer' = streamServer
      /\ streamWindow' = streamWindow
      /\ streamHydrated' = streamHydrated /\ streamCache' = streamCache /\ streamData' = streamData
      /\ streamSignals' = streamSignals
      /\ streamAsked' = streamAsked /\ streamDropped' = streamDropped
      /\ I!Settled' = I!Settled /\ I!Snapshot' = I!Snapshot /\ I!Hydrated' = I!Hydrated
      /\ ~streamHydrated
  BY DEF I!Shell, I!Settled, I!Snapshot, I!Hydrated, StreamInv, Reached
<1>2. CASE streamPass' = "error" /\ streamStream' = streamStream
  BY <1>1, <1>2 DEF StreamInv, StreamTyped, Told, Reaching, Reached
<1>3. ASSUME \A q \in PageQueries \ streamLoading : streamServer[q] = "data", streamPass' = "open",
             streamStream' = <<[kind |-> "initial", query |-> NoValue, snapshot |-> I!Snapshot]>>
      PROVE  StreamInv'
  <2> DEFINE c == [kind |-> "initial", query |-> NoValue, snapshot |-> I!Snapshot]
  <2>1. c \in Chunk /\ c.kind = "initial" /\ c.snapshot = I!Snapshot
    BY DEF Chunk, I!Snapshot
  <2>2. streamStream' = <<c>>
    BY <1>3
  <2> HIDE DEF c
  <2>3. streamStream' \in Seq(Chunk) /\ DOMAIN streamStream' = {1} /\ streamStream'[1] = c
    BY <2>1, <2>2
  <2>4. PageQueries \ streamLoading \subseteq I!Snapshot
    BY <1>3 DEF I!Snapshot
  <2>5. ASSUME NEW q \in I!Settled \ streamDropped
        PROVE  q \in streamWindow.data \/ q \in streamWindow.errors
    <3>1. streamStream = <<>> /\ DOMAIN streamStream = {}
      BY <1>1 DEF StreamInv, Reaching
    <3> QED  BY <3>1, <1>1 DEF StreamInv, Reaching
  <2>6. StreamTyped'
    BY <1>1, <1>3, <2>3 DEF StreamInv, StreamTyped
  <2> QED  BY <1>1, <1>3, <2>1, <2>3, <2>4, <2>5, <2>6 DEF StreamInv, Told, Reaching, Reached
<1> QED  BY <1>2, <1>3 DEF I!Shell

LEMMA CloseKeeps ==
  ASSUME StreamInv, I!Close
  PROVE  StreamInv'
<1>1. /\ streamPass = "open" /\ I!Settled = PageQueries /\ streamPass' = "closed"
      /\ streamLoading' = streamLoading
      /\ streamServer' = streamServer /\ streamStream' = streamStream
      /\ streamWindow' = streamWindow /\ streamHydrated' = streamHydrated
      /\ streamCache' = streamCache /\ streamData' = streamData /\ streamSignals' = streamSignals
      /\ streamAsked' = streamAsked
      /\ streamDropped' = streamDropped
      /\ I!Settled' = I!Settled /\ I!Snapshot' = I!Snapshot /\ I!Hydrated' = I!Hydrated
  BY DEF I!Close, I!Settled, I!Snapshot, I!Hydrated
<1> QED  BY <1>1 DEF StreamInv, StreamTyped, Told, Reaching, Reached

-----------------------------------------------------------------------------
\* A script that has run leaves what it says in the window.
LEMMA LeftShape ==
  ASSUME streamWindow \in Window, NEW c \in Chunk, c.kind # "initial" => c.query \in PageQueries
  PROVE  LET w == I!Left(c)
         IN /\ w \in Window
            /\ w.initial = IF c.kind = "initial" THEN c.snapshot ELSE streamWindow.initial
            /\ w.data = IF c.kind = "data" THEN streamWindow.data \cup {c.query} ELSE streamWindow.data
            /\ w.errors = IF c.kind = "errors" THEN streamWindow.errors \cup {c.query} ELSE streamWindow.errors
            /\ w.snapshots = IF c.kind = "data" THEN Append(streamWindow.snapshots, c.snapshot)
                             ELSE streamWindow.snapshots
<1>1. CASE c.kind = "initial"
  BY <1>1 DEF I!Left, Window, Chunk
<1>2. CASE c.kind = "data"
  <2>1. /\ Append(streamWindow.snapshots, c.snapshot) \in Seq(SUBSET PageQueries)
        /\ streamWindow.data \cup {c.query} \in SUBSET PageQueries
    BY <1>2 DEF Window, Chunk
  <2>2. I!Left(c) = [streamWindow EXCEPT !.snapshots = Append(@, c.snapshot), !.data = @ \cup {c.query}]
    BY <1>2 DEF I!Left
  <2> QED  BY <1>2, <2>1, <2>2 DEF Window
<1>3. CASE c.kind = "errors"
  BY <1>3 DEF I!Left, Window, Chunk
<1> QED  BY <1>1, <1>2, <1>3 DEF Chunk

LEMMA ScriptKeeps ==
  ASSUME StreamConstants, StreamInv, I!Script
  PROVE  StreamInv'
<1> PICK c : c = Head(streamStream)
  OBVIOUS
<1>1. /\ streamStream # <<>> /\ streamStream' = Tail(streamStream) /\ streamWindow' = I!Left(c)
      /\ streamLoading' = streamLoading
      /\ streamServer' = streamServer /\ streamPass' = streamPass
      /\ streamHydrated' = streamHydrated /\ streamCache' = streamCache
      /\ streamData' = streamData /\ streamSignals' = streamSignals /\ streamAsked' = streamAsked
      /\ streamDropped' = streamDropped
      /\ I!Settled' = I!Settled /\ I!Snapshot' = I!Snapshot
  BY DEF I!Script, I!Settled, I!Snapshot
<1>2. /\ streamStream \in Seq(Chunk) /\ Len(streamStream) \in Nat \ {0}
      /\ DOMAIN streamStream = 1 .. Len(streamStream)
      /\ streamWindow \in Window
  BY <1>1 DEF StreamInv, StreamTyped
<1>3. /\ c \in Chunk /\ c = streamStream[1] /\ streamStream' \in Seq(Chunk)
      /\ DOMAIN streamStream' = 1 .. Len(streamStream) - 1
      /\ \A i \in 1 .. Len(streamStream) - 1 : streamStream'[i] = streamStream[i + 1]
  BY <1>1, <1>2
<1>4. /\ c.snapshot \subseteq I!Snapshot
      /\ c.kind = "initial" => PageQueries \ streamLoading \subseteq c.snapshot
      /\ c.kind # "initial" => c.query \in PageQueries /\ streamServer[c.query] = c.kind
      /\ c.kind = "data" => c.query \in c.snapshot
  BY <1>2, <1>3 DEF StreamInv, Told, Chunk
<1>5. /\ streamWindow' \in Window
      /\ streamWindow'.initial = IF c.kind = "initial" THEN c.snapshot ELSE streamWindow.initial
      /\ streamWindow'.data = IF c.kind = "data" THEN streamWindow.data \cup {c.query} ELSE streamWindow.data
      /\ streamWindow'.errors = IF c.kind = "errors" THEN streamWindow.errors \cup {c.query} ELSE streamWindow.errors
      /\ streamWindow'.snapshots = IF c.kind = "data" THEN Append(streamWindow.snapshots, c.snapshot)
                             ELSE streamWindow.snapshots
  BY <1>1, <1>2, <1>3, <1>4, LeftShape
<1>6. /\ streamWindow.snapshots \in Seq(SUBSET PageQueries) /\ Len(streamWindow.snapshots) \in Nat
      /\ DOMAIN streamWindow.snapshots = 1 .. Len(streamWindow.snapshots)
      /\ c.snapshot \in SUBSET PageQueries
  BY <1>2, <1>3 DEF Window, Chunk
<1>7. /\ DOMAIN streamWindow.snapshots \subseteq DOMAIN streamWindow'.snapshots
      /\ \A i \in DOMAIN streamWindow.snapshots :
           streamWindow'.snapshots[i] = streamWindow.snapshots[i]
      /\ \A i \in DOMAIN streamWindow'.snapshots \ DOMAIN streamWindow.snapshots :
           c.kind = "data" /\ streamWindow'.snapshots[i] = c.snapshot
      /\ c.kind = "data" => \E i \in DOMAIN streamWindow'.snapshots : streamWindow'.snapshots[i] = c.snapshot
  <2>1. CASE c.kind = "data"
    <3>1. streamWindow'.snapshots = Append(streamWindow.snapshots, c.snapshot)
      BY <2>1, <1>5
    <3>2. /\ DOMAIN streamWindow'.snapshots = 1 .. Len(streamWindow.snapshots) + 1
          /\ \A i \in 1 .. Len(streamWindow.snapshots) :
               streamWindow'.snapshots[i] = streamWindow.snapshots[i]
          /\ streamWindow'.snapshots[Len(streamWindow.snapshots) + 1] = c.snapshot
      BY <3>1, <1>6
    <3> QED  BY <2>1, <3>2, <1>6
  <2>2. CASE c.kind # "data"
    BY <2>2, <1>5
  <2> QED  BY <2>1, <2>2
<1>8. ~streamHydrated
  BY <1>1 DEF StreamInv, Reached
<1>9. StreamTyped'
  BY <1>1, <1>3, <1>5 DEF StreamInv, StreamTyped
<1>10. Told'
  <2>1. ASSUME NEW i \in DOMAIN streamStream'
        PROVE  /\ streamStream'[i].snapshot \subseteq I!Snapshot'
               /\ streamStream'[i].kind = "initial" =>
                    PageQueries \ streamLoading' \subseteq streamStream'[i].snapshot
               /\ streamStream'[i].kind \in {"data", "errors"} =>
                    streamStream'[i].query \in PageQueries /\ streamServer'[streamStream'[i].query] = streamStream'[i].kind
               /\ streamStream'[i].kind = "data" =>
                    streamStream'[i].query \in streamStream'[i].snapshot
    <3>1. i + 1 \in DOMAIN streamStream /\ streamStream'[i] = streamStream[i + 1]
      BY <1>2, <1>3
    <3> QED  BY <3>1, <1>1 DEF StreamInv, Told
  <2>2. I!Hydrated' \subseteq I!Snapshot'
    BY <1>1, <1>4, <1>5, <1>7 DEF StreamInv, Told, I!Hydrated
  <2>3. \A q \in streamWindow'.data : \E i \in DOMAIN streamWindow'.snapshots : q \in streamWindow'.snapshots[i]
    BY <1>4, <1>5, <1>7, <1>8 DEF StreamInv, Told
  <2>4. /\ \A q \in streamWindow'.data : streamServer'[q] = "data"
        /\ \A q \in streamWindow'.errors : streamServer'[q] = "errors"
    BY <1>1, <1>4, <1>5 DEF StreamInv, Told
  <2> QED  BY <2>1, <2>2, <2>3, <2>4 DEF Told
<1>11. Reaching'
  <2>1. ASSUME NEW q \in I!Settled \ streamDropped
        PROVE  \/ \E i \in DOMAIN streamStream' :
                    streamStream'[i].kind = streamServer[q] /\ streamStream'[i].query = q
               \/ q \in streamWindow'.data \/ q \in streamWindow'.errors
    <3>1. CASE \E i \in DOMAIN streamStream : streamStream[i].kind = streamServer[q] /\ streamStream[i].query = q
      <4>1. PICK i \in DOMAIN streamStream : streamStream[i].kind = streamServer[q] /\ streamStream[i].query = q
        BY <3>1
      <4>2. CASE i = 1
        BY <4>1, <4>2, <1>3, <1>5 DEF I!Settled, StreamInv, StreamTyped
      <4>3. CASE i # 1
        <5>1. i - 1 \in DOMAIN streamStream' /\ streamStream'[i - 1] = streamStream[i]
          BY <4>3, <1>2, <1>3
        <5> QED  BY <5>1, <4>1
      <4> QED  BY <4>2, <4>3
    <3>2. CASE q \in streamWindow.data \/ q \in streamWindow.errors
      BY <3>2, <1>5
    <3> QED  BY <3>1, <3>2, <1>8 DEF StreamInv, Reaching
  <2>2. streamPass \in {"open", "closed"} =>
          \/ \E i \in DOMAIN streamStream' : streamStream'[i].kind = "initial"
          \/ PageQueries \ streamLoading \subseteq streamWindow'.initial
    <3>1. CASE \E i \in DOMAIN streamStream : streamStream[i].kind = "initial"
      <4>1. PICK i \in DOMAIN streamStream : streamStream[i].kind = "initial"
        BY <3>1
      <4>2. CASE i = 1
        BY <4>1, <4>2, <1>3, <1>4, <1>5
      <4>3. CASE i # 1
        <5>1. i - 1 \in DOMAIN streamStream' /\ streamStream'[i - 1] = streamStream[i]
          BY <4>3, <1>2, <1>3
        <5> QED  BY <5>1, <4>1
      <4> QED  BY <4>2, <4>3
    <3>2. CASE PageQueries \ streamLoading \subseteq streamWindow.initial
      BY <3>2, <1>4, <1>5
    <3> QED  BY <3>1, <3>2, <1>8 DEF StreamInv, Reaching
  <2>3. streamPass # "shell"
    BY <1>1, <1>8 DEF StreamInv, Reaching
  <2> QED  BY <2>1, <2>2, <2>3, <1>1, <1>8 DEF StreamInv, Reaching
<1>12. Reached'
  BY <1>1, <1>8 DEF Reached
<1> QED  BY <1>9, <1>10, <1>11, <1>12 DEF StreamInv

\* hydrate_page: what was answered has its store, or the cache answers for it.
LEMMA HydratePageKeeps ==
  ASSUME StreamConstants, StreamInv, I!HydratePage
  PROVE  StreamInv'
<1>1. /\ streamPass = "closed" /\ streamStream = <<>> /\ DOMAIN streamStream = {} /\ ~streamHydrated
      /\ streamHydrated' = TRUE
      /\ streamCache' = I!Hydrated /\ streamData' = [q \in PageQueries |-> I!Store(q)]
      /\ streamSignals' = streamLoading
      /\ streamWindow' = [streamWindow EXCEPT !.snapshots = <<>>, !.errors = {}]
      /\ streamLoading' = streamLoading /\ streamServer' = streamServer /\ streamPass' = streamPass
      /\ streamStream' = streamStream
      /\ streamAsked' = streamAsked /\ streamDropped' = streamDropped
      /\ I!Settled' = I!Settled /\ I!Snapshot' = I!Snapshot
  BY DEF I!HydratePage, I!Settled, I!Snapshot
<1>2. streamWindow \in Window /\ I!Hydrated \subseteq I!Snapshot /\ I!Snapshot \subseteq PageQueries
      /\ I!Settled = PageQueries /\ streamAsked = {}
  BY <1>1 DEF StreamInv, StreamTyped, Told, Reaching, I!Snapshot
<1>3. /\ streamWindow' \in Window /\ streamWindow'.snapshots = <<>>
      /\ DOMAIN streamWindow'.snapshots = {}
      /\ streamWindow'.initial = streamWindow.initial
      /\ streamWindow'.data = streamWindow.data /\ streamWindow'.errors = {}
  <2>1. <<>> \in Seq(SUBSET PageQueries) /\ DOMAIN <<>> = {} /\ {} \in SUBSET PageQueries
    OBVIOUS
  <2> QED  BY <1>1, <1>2, <2>1 DEF Window
<1>4. \A q \in streamWindow.data : q \in I!Hydrated
  BY <1>1 DEF StreamInv, Told, I!Hydrated
<1>5. PageQueries \ streamLoading \subseteq I!Hydrated
  BY <1>1 DEF StreamInv, Reaching, I!Hydrated
<1>6. ASSUME NEW q \in PageQueries
      PROVE  /\ streamData'[q] \in {NoValue, "data", "errors"}
             /\ streamData'[q] # NoValue => streamData'[q] = streamServer[q]
             /\ streamData'[q] # NoValue \/ q \in streamDropped
  <2>1. streamData'[q] = I!Store(q)
    BY <1>1
  <2>2. CASE q \in streamWindow.errors
    BY <2>1, <2>2 DEF I!Store, StreamInv, Told, StreamConstants
  <2>3. CASE q \in streamWindow.data \ streamWindow.errors
    BY <2>1, <2>3, <1>4 DEF I!Store, StreamInv, Told, StreamConstants
  <2>4. CASE q \notin streamWindow.data /\ q \notin streamWindow.errors
    <3>1. I!Store(q) = NoValue
      BY <2>4 DEF I!Store
    <3>2. q \in streamDropped
      BY <2>4, <1>1, <1>2 DEF StreamInv, Reaching
    <3> QED  BY <3>1, <3>2, <2>1
  <2> QED  BY <2>2, <2>3, <2>4
<1>7. StreamTyped'
  <2>1. streamData' \in [PageQueries -> {NoValue, "data", "errors", "placeholder"}]
    BY <1>1, <1>6
  <2> QED  BY <2>1, <1>1, <1>2, <1>3 DEF StreamInv, StreamTyped
<1>8. Told'
  <2>1. I!Hydrated' \subseteq I!Snapshot'
    BY <1>1, <1>2, <1>3 DEF I!Hydrated
  <2> QED  BY <2>1, <1>1, <1>3 DEF StreamInv, Told
<1>9. Reaching' /\ Reached'
  BY <1>1, <1>2, <1>5, <1>6 DEF Reaching, Reached, StreamInv, StreamTyped
<1> QED  BY <1>7, <1>8, <1>9 DEF StreamInv

\* What is not @loading is in the cache, so nothing is asked for.
LEMMA LoadQueryKeeps ==
  ASSUME StreamConstants, StreamInv, NEW q \in PageQueries, I!LoadQuery(q)
  PROVE  StreamInv'
<1>1. /\ streamHydrated /\ streamData[q] = NoValue /\ streamLoading' = streamLoading
      /\ streamServer' = streamServer /\ streamPass' = streamPass
      /\ streamStream' = streamStream /\ streamWindow' = streamWindow
      /\ streamHydrated' = streamHydrated /\ streamCache' = streamCache
      /\ streamSignals' = streamSignals /\ streamDropped' = streamDropped
      /\ I!Settled' = I!Settled /\ I!Snapshot' = I!Snapshot /\ I!Hydrated' = I!Hydrated
  BY DEF I!LoadQuery, I!Settled, I!Snapshot, I!Hydrated
<1>2. /\ streamData \in [PageQueries -> {NoValue, "data", "errors", "placeholder"}]
      /\ streamSignals = streamLoading /\ PageQueries \ streamLoading \subseteq streamCache
      /\ streamCache \subseteq I!Snapshot
  BY <1>1 DEF StreamInv, StreamTyped, Reached
<1>3. /\ streamAsked' = streamAsked
      /\ (streamData' = streamData \/ (q \in streamCache /\ streamData' = [streamData EXCEPT ![q] = "data"]))
  BY <1>2 DEF I!LoadQuery
<1>4. q \in streamCache => streamServer[q] = "data"
  BY <1>2 DEF I!Snapshot
<1>5. StreamTyped' /\ Told' /\ Reaching'
  BY <1>1, <1>2, <1>3 DEF StreamInv, StreamTyped, Told, Reaching
<1>6. Reached'
  <2>1. /\ \A r \in PageQueries : streamData[r] # NoValue => streamData[r] = streamServer[r]
        /\ \A r \in streamLoading : streamData[r] # NoValue \/ r \in streamDropped
        /\ streamPass = "closed" /\ streamStream = <<>> /\ streamAsked = {}
        /\ streamLoading \subseteq PageQueries
    BY <1>1 DEF StreamInv, StreamTyped, Reached
  <2>2. ASSUME NEW r \in PageQueries
        PROVE  /\ streamData'[r] # NoValue => streamData'[r] = streamServer[r]
               /\ streamData[r] # NoValue => streamData'[r] # NoValue
    <3>1. CASE streamData' = streamData
      BY <3>1, <2>1
    <3>2. CASE q \in streamCache /\ streamData' = [streamData EXCEPT ![q] = "data"]
      <4>1. streamData'[r] = IF r = q THEN "data" ELSE streamData[r]
        BY <3>2, <1>2
      <4> QED  BY <4>1, <3>2, <2>1, <1>1, <1>4
    <3> QED  BY <3>1, <3>2, <1>3
  <2> QED  BY <2>1, <2>2, <1>1, <1>2, <1>3 DEF Reached
<1> QED  BY <1>5, <1>6 DEF StreamInv

-----------------------------------------------------------------------------
LEMMA StreamNext ==
  ASSUME StreamConstants, StreamInv, [I!Next]_(I!vars)
  PROVE  StreamInv'
<1>1. ASSUME NEW q \in PageQueries, NEW how \in {"data", "errors"}, I!Answered(q, how)
      PROVE  StreamInv'
  BY <1>1, AnsweredKeeps
<1>2. ASSUME NEW q \in PageQueries, I!LoadQuery(q)
      PROVE  StreamInv'
  BY <1>2, LoadQueryKeeps
<1>3. CASE I!Shell \/ I!Close \/ I!Script \/ I!HydratePage
  BY <1>3, ShellKeeps, CloseKeeps, ScriptKeeps, HydratePageKeeps
<1>4. CASE UNCHANGED I!vars
  BY <1>4 DEF I!vars, StreamInv, StreamTyped, Told, Reaching, Reached, I!Settled, I!Snapshot, I!Hydrated
<1> QED  BY <1>1, <1>2, <1>3, <1>4 DEF I!Next

\* For any queries, however their answers, the scripts and the module come: once the page is
\* hydrated each query has its store or can be loaded, and the page shows what the server got
\* (Router.tsx, hydration.tsx).
THEOREM StreamReachesHolds ==
  ASSUME StreamConstants
  PROVE  I!Spec => []StreamReaches
<1>1. I!Init => StreamInv
  BY StreamInit
<1>2. StreamInv /\ [I!Next]_(I!vars) => StreamInv'
  BY StreamNext
<1>3. StreamInv => StreamReaches
  <2> SUFFICES ASSUME StreamInv, streamHydrated
               PROVE  I!NoneHangs /\ I!ShowsAnswers
    BY DEF StreamReaches, I!NoneHangs, I!ShowsAnswers
  <2>1. /\ streamSignals = streamLoading /\ streamAsked = {}
        /\ streamData \in [PageQueries -> {NoValue, "data", "errors", "placeholder"}]
        /\ streamServer \in [PageQueries -> {"sent", "data", "errors"}]
        /\ \A q \in PageQueries : streamData[q] # NoValue => streamData[q] = streamServer[q]
        /\ \A q \in streamLoading : streamData[q] # NoValue \/ q \in streamDropped
    BY DEF StreamInv, StreamTyped, Reached
  <2> QED  BY <2>1 DEF I!NoneHangs, I!ShowsAnswers
<1> QED  BY <1>1, <1>2, <1>3, PTL DEF I!Spec

-----------------------------------------------------------------------------
(***************************************************************************)
(* The data hooks: stores listen as long as a committed component holds    *)
(* them, and no longer than something is left to tear them down.           *)
(***************************************************************************)

\* A store whose subscription is there, or was taken in one of the two ways that are named.
Heard(e) == e.subscribed \/ e.late \/ e.dropped
HasKnown(e) == e.known # NoValue \/ e.answered # NoValue
Shows(t) == t.mounted \/ t.phase = "rendered"

\* Of the stores os, with the units us, the requests ss, the tree and the stores hd with a hold: what
\* is taken for loaded has been heard, and a store that listens can be torn down.
UnitsSound(us, os) ==
  \A u \in us : /\ u.observer \in DOMAIN os
                /\ HasKnown(os[u.observer]) => Heard(os[u.observer])
                /\ u.state = "resolved" => os[u.observer].answered # NoValue
SendsSound(us, os, ss, hd) ==
  \A s \in ss : /\ s.observer \in DOMAIN os
                /\ s.changed \/ Heard(os[s.observer])
                /\ s.observer \in hd \/ os[s.observer].dropped \/ \E u \in us : u.id = s.unit
                /\ \A u \in us : u.id = s.unit => u.observer = s.observer
TreeSound(os, tr, hd) ==
  \A c \in QueryComponents :
    /\ tr[c].observer \in DOMAIN os \cup {0}
    /\ Shows(tr[c]) => tr[c].observer # 0 /\ Heard(os[tr[c].observer])
    /\ tr[c].mounted => tr[c].observer \in hd
OwnersSound(us, os, hd) ==
  \A o \in DOMAIN os : os[o].subscribed /\ ~os[o].dropped => o \in hd \/ \E u \in us : u.observer = o
HandleSound(us, os, ss, tr, hd) ==
  UnitsSound(us, os) /\ SendsSound(us, os, ss, hd) /\ TreeSound(os, tr, hd) /\ OwnersSound(us, os, hd)

Holders(tr, o) == {c \in QueryComponents : tr[c].mounted /\ tr[c].observer = o}

\* A hold counts its holders; one without has a timer.
Counted(tr, hd, ts) ==
  \A o \in DOMAIN hd : hd[o] = Cardinality(Holders(tr, o)) /\ (hd[o] = 0 => ts[o] > 0)

HandleTyped ==
  /\ handleUnits \in Seq(Q!Unit) /\ Len(handleUnits) <= CacheSize
  /\ handleSends \subseteq Q!Request
  /\ handleObservers \in Seq(Q!Observer) /\ Len(handleObservers) <= handleMade
  /\ handleHeld = [o \in DOMAIN handleHeld |-> handleHeld[o]] /\ DOMAIN handleHeld \subseteq DOMAIN handleObservers
  /\ handleTimers \in [Q!Ids -> Nat]
  /\ handleTree \in [QueryComponents -> Q!Component]
  /\ handleMade \in 0 .. MaxUnits /\ handleDrops \in 0 .. MaxDrops
  /\ \A u \in Q!Range(handleUnits) : u.id <= handleMade
  /\ \A s \in handleSends : s.unit <= handleMade

\* A component that is there wants something, one that has committed shows something.
PhasesRight(tr) ==
  \A c \in QueryComponents : /\ tr[c].phase # "absent" => tr[c].want \in QueryKeys
                             /\ tr[c].mounted => tr[c].phase # "absent" /\ tr[c].key \in QueryKeys
                             /\ tr[c].phase = "shown" => tr[c].mounted

\* Inductive.
HandleInv ==
  /\ HandleTyped /\ PhasesRight(handleTree)
  /\ HandleSound(Q!Range(handleUnits), handleObservers, handleSends, handleTree, DOMAIN handleHeld)
  /\ Counted(handleTree, handleHeld, handleTimers)

-----------------------------------------------------------------------------
\* A sequence without one of its elements.
LEMMA RemovedElements ==
  ASSUME NEW Elem, NEW q \in Seq(Elem), NEW i \in DOMAIN q
  PROVE  /\ Q!RemoveAt(q, i) \in Seq(Elem) /\ Len(Q!RemoveAt(q, i)) = Len(q) - 1
         /\ Q!Range(Q!RemoveAt(q, i)) \subseteq Q!Range(q)
         /\ Q!Range(q) \subseteq Q!Range(Q!RemoveAt(q, i)) \cup {q[i]}
<1> DEFINE a == SubSeq(q, 1, i - 1)
           b == SubSeq(q, i + 1, Len(q))
<1>1. Len(q) \in Nat /\ DOMAIN q = 1 .. Len(q) /\ i \in 1 .. Len(q) /\ i \in Nat /\ Len(q) \in Int /\ i \in Int
  OBVIOUS
<1>2. /\ a \in Seq(Elem) /\ Len(a) = i - 1
      /\ \A j \in 1 .. i - 1 : a[j] = q[j]
  BY <1>1
<1>3. /\ b \in Seq(Elem) /\ Len(b) = Len(q) - i
      /\ \A j \in 1 .. Len(q) - i : b[j] = q[i + j]
  BY <1>1
<1> HIDE DEF a, b
<1>4. Len(a) + Len(b) = Len(q) - 1 /\ Len(q) - 1 \in Nat
  BY <1>1, <1>2, <1>3
<1>5. a \o b \in Seq(Elem) /\ Len(a \o b) = Len(q) - 1 /\ DOMAIN (a \o b) = 1 .. Len(q) - 1
  BY <1>2, <1>3, <1>4
<1>6. \A j \in 1 .. Len(q) - 1 : (a \o b)[j] = IF j <= i - 1 THEN a[j] ELSE b[j - (i - 1)]
  BY <1>1, <1>2, <1>3, <1>4
<1>7. ASSUME NEW j \in 1 .. Len(q) - 1 PROVE (a \o b)[j] \in Q!Range(q)
  <2>1. CASE j <= i - 1
    BY <1>1, <1>2, <1>6, <2>1 DEF Q!Range
  <2>2. CASE ~(j <= i - 1)
    <3>1. j - (i - 1) \in 1 .. Len(q) - i /\ i + (j - (i - 1)) = j + 1 /\ j + 1 \in 1 .. Len(q)
      BY <1>1, <2>2
    <3>2. (a \o b)[j] = q[j + 1]
      BY <1>3, <1>6, <2>2, <3>1
    <3> QED  BY <1>1, <3>1, <3>2 DEF Q!Range
  <2> QED  BY <2>1, <2>2
<1>8. ASSUME NEW j \in 1 .. Len(q), j # i PROVE \E k \in 1 .. Len(q) - 1 : (a \o b)[k] = q[j]
  <2>1. CASE j < i
    <3>1. j \in 1 .. i - 1 /\ j <= i - 1 /\ j \in 1 .. Len(q) - 1
      BY <1>1, <2>1
    <3> QED  BY <3>1, <1>2, <1>6
  <2>2. CASE j > i
    <3>1. /\ j - 1 \in 1 .. Len(q) - 1 /\ ~(j - 1 <= i - 1)
          /\ j - i \in 1 .. Len(q) - i /\ (j - 1) - (i - 1) = j - i /\ i + (j - i) = j
      BY <1>1, <2>2
    <3>2. (a \o b)[j - 1] = b[j - i]
      BY <1>6, <3>1
    <3>3. b[j - i] = q[j]
      BY <1>3, <3>1
    <3> QED  BY <3>1, <3>2, <3>3
  <2>3. j < i \/ j > i
    BY <1>1, <1>8
  <2> QED  BY <2>1, <2>2, <2>3
<1>9. Q!RemoveAt(q, i) = a \o b
  BY DEF Q!RemoveAt, a, b
<1> QED  BY <1>1, <1>5, <1>7, <1>8, <1>9 DEF Q!Range

\* The units left when one is taken out.
LEMMA WithoutLess ==
  ASSUME NEW us \in Seq(Q!Unit), NEW k
  PROVE  /\ Q!Without(us, k) \in Seq(Q!Unit) /\ Len(Q!Without(us, k)) <= Len(us)
         /\ Q!Range(Q!Without(us, k)) \subseteq Q!Range(us)
<1>1. CASE \E i \in DOMAIN us : us[i].key = k
  <2>1. Q!Position(us, k) \in DOMAIN us
    BY <1>1 DEF Q!Position
  <2>2. Len(us) \in Nat /\ Q!Without(us, k) = Q!RemoveAt(us, Q!Position(us, k))
    BY <1>1 DEF Q!Without
  <2>3. /\ Q!RemoveAt(us, Q!Position(us, k)) \in Seq(Q!Unit) /\ Len(Q!RemoveAt(us, Q!Position(us, k))) = Len(us) - 1
        /\ Q!Range(Q!RemoveAt(us, Q!Position(us, k))) \subseteq Q!Range(us)
    BY <2>1, RemovedElements
  <2> QED  BY <2>2, <2>3
<1>2. CASE ~\E i \in DOMAIN us : us[i].key = k
  BY <1>2 DEF Q!Without
<1> QED  BY <1>1, <1>2

\* A sequence with one more.
LEMMA AppendedElements ==
  ASSUME NEW Elem, NEW q \in Seq(Elem), NEW e \in Elem
  PROVE  /\ Append(q, e) \in Seq(Elem) /\ Len(Append(q, e)) = Len(q) + 1
         /\ Q!Range(Append(q, e)) = Q!Range(q) \cup {e}
<1>1. /\ Append(q, e) \in Seq(Elem) /\ Len(Append(q, e)) = Len(q) + 1 /\ Len(q) \in Nat
      /\ DOMAIN q = 1 .. Len(q) /\ DOMAIN Append(q, e) = 1 .. Len(q) + 1
      /\ Append(q, e)[Len(q) + 1] = e /\ \A i \in 1 .. Len(q) : Append(q, e)[i] = q[i]
  OBVIOUS
<1>2. \A i \in 1 .. Len(q) + 1 : i \in 1 .. Len(q) \/ i = Len(q) + 1
  BY <1>1
<1>3. 1 .. Len(q) \subseteq 1 .. Len(q) + 1 /\ Len(q) + 1 \in 1 .. Len(q) + 1
  BY <1>1
<1> QED  BY <1>1, <1>2, <1>3 DEF Q!Range

\* The key that is touched moves to the end.
LEMMA TouchedSame ==
  ASSUME handleUnits \in Seq(Q!Unit), NEW k, Q!Cached(k)
  PROVE  /\ Q!Touched(k) \in Seq(Q!Unit) /\ Len(Q!Touched(k)) = Len(handleUnits)
         /\ Q!Range(Q!Touched(k)) = Q!Range(handleUnits)
         /\ handleUnits[Q!Position(handleUnits, k)] \in Q!Range(handleUnits)
<1> DEFINE i == Q!Position(handleUnits, k)
           r == Q!RemoveAt(handleUnits, i)
<1>1. i \in DOMAIN handleUnits
  BY DEF Q!Cached, Q!Position
<1>2. handleUnits[i] \in Q!Range(handleUnits) /\ handleUnits[i] \in Q!Unit /\ Len(handleUnits) \in Nat
  BY <1>1 DEF Q!Range
<1>3. /\ r \in Seq(Q!Unit) /\ Len(r) = Len(handleUnits) - 1 /\ Q!Range(r) \subseteq Q!Range(handleUnits)
      /\ Q!Range(handleUnits) \subseteq Q!Range(r) \cup {handleUnits[i]}
  BY <1>1, RemovedElements
<1>4. Q!Touched(k) = Append(r, handleUnits[i])
  BY DEF Q!Touched
<1> HIDE DEF i, r
<1>5. Q!Range(Append(r, handleUnits[i])) = Q!Range(r) \cup {handleUnits[i]}
  BY <1>2, <1>3, AppendedElements
<1> QED  BY <1>2, <1>3, <1>4, <1>5 DEF i

\* What becomes of a store e that is torn down, us being the units left.
IsTorn(o, e, t, us) ==
  /\ t \in Q!Observer /\ ~t.subscribed /\ t.known = e.known /\ t.answered = e.answered
  /\ (\E s \in handleSends : s.observer = o) => t.dropped
  /\ (\E u \in Q!Range(us) : u.observer = o) => t.late
  /\ (\E c \in QueryComponents : handleTree[c].phase = "rendered" /\ handleTree[c].observer = o) => t.late

LEMMA TornDownIs ==
  ASSUME NEW o, NEW e \in Q!Observer, NEW us
  PROVE  IsTorn(o, e, Q!TornDown(o, e, us), us)
<1> DEFINE d == e.dropped \/ \E s \in handleSends : s.observer = o
           l == \/ e.late
                \/ \E u \in Q!Range(us) : u.observer = o
                \/ \E c \in QueryComponents : handleTree[c].phase = "rendered" /\ handleTree[c].observer = o
<1>1. d \in BOOLEAN /\ l \in BOOLEAN
  BY DEF Q!Observer
<1>2. Q!TornDown(o, e, us) = [e EXCEPT !.subscribed = FALSE, !.dropped = d, !.late = l]
  BY DEF Q!TornDown
<1> HIDE DEF d, l
<1>3. /\ Q!TornDown(o, e, us) \in Q!Observer /\ ~Q!TornDown(o, e, us).subscribed
      /\ Q!TornDown(o, e, us).known = e.known /\ Q!TornDown(o, e, us).answered = e.answered
      /\ Q!TornDown(o, e, us).dropped = d /\ Q!TornDown(o, e, us).late = l
  BY <1>1, <1>2 DEF Q!Observer
<1> QED  BY <1>3 DEF IsTorn, d, l

\* Units that leave the cache take the stores along that nobody has committed.
LEMMA Swept ==
  ASSUME NEW os \in Seq(Q!Observer), NEW us, Q!Range(us) \subseteq Q!Range(handleUnits),
         HandleSound(Q!Range(handleUnits), os, handleSends, handleTree, DOMAIN handleHeld)
  PROVE  /\ Q!Cleaned(os, us) \in Seq(Q!Observer) /\ Len(Q!Cleaned(os, us)) = Len(os)
         /\ DOMAIN Q!Cleaned(os, us) = DOMAIN os
         /\ \A o \in DOMAIN os : o \in DOMAIN handleHeld \/ (\A u \in Q!Range(handleUnits) : u.observer # o)
                                 => Q!Cleaned(os, us)[o] = os[o]
         /\ HandleSound(Q!Range(us), Q!Cleaned(os, us), handleSends, handleTree, DOMAIN handleHeld)
<1> DEFINE cl == Q!Cleaned(os, us)
           hd == DOMAIN handleHeld
           gone(o) == o \notin hd /\ \E u \in Q!Range(handleUnits) \ Q!Range(us) : u.observer = o
<1>1. /\ cl = [o \in DOMAIN os |-> IF gone(o) THEN Q!TornDown(o, os[o], us) ELSE os[o]]
  BY DEF Q!Cleaned
<1>2. DOMAIN os = 1 .. Len(os) /\ Len(os) \in Nat /\ \A o \in DOMAIN os : os[o] \in Q!Observer
  OBVIOUS
<1>3. ASSUME NEW o \in DOMAIN os
      PROVE  /\ cl[o] \in Q!Observer
             /\ ~gone(o) => cl[o] = os[o]
             /\ gone(o) => /\ ~cl[o].subscribed /\ cl[o].answered = os[o].answered
                           /\ (\E s \in handleSends : s.observer = o) => cl[o].dropped
                           /\ (\E u \in Q!Range(us) : u.observer = o) => cl[o].late
                           /\ (\E c \in QueryComponents :
                                 handleTree[c].phase = "rendered" /\ handleTree[c].observer = o) => cl[o].late
  <2> DEFINE t == Q!TornDown(o, os[o], us)
  <2>1. os[o] \in Q!Observer
    BY <1>2
  <2>2. IsTorn(o, os[o], t, us)
    BY <2>1, TornDownIs
  <2>3. cl[o] = IF gone(o) THEN t ELSE os[o]
    BY <1>1
  <2> HIDE DEF t, cl, gone
  <2> QED  BY <2>1, <2>2, <2>3 DEF IsTorn
<1>4. cl \in Seq(Q!Observer) /\ Len(cl) = Len(os) /\ DOMAIN cl = DOMAIN os
  BY <1>1, <1>2, <1>3
<1>5. \A o \in DOMAIN os : ~gone(o) => cl[o] = os[o]
  BY <1>3
<1>6. \A o \in DOMAIN os : gone(o) =>
        /\ ~cl[o].subscribed /\ cl[o].answered = os[o].answered
        /\ (\E s \in handleSends : s.observer = o) => cl[o].dropped
        /\ (\E u \in Q!Range(us) : u.observer = o) => cl[o].late
        /\ (\E c \in QueryComponents :
              handleTree[c].phase = "rendered" /\ handleTree[c].observer = o) => cl[o].late
  BY <1>3
<1> HIDE DEF cl
<1>7. UnitsSound(Q!Range(us), cl)
  <2> SUFFICES ASSUME NEW u \in Q!Range(us)
               PROVE  /\ u.observer \in DOMAIN cl
                      /\ HasKnown(cl[u.observer]) => Heard(cl[u.observer])
                      /\ u.state = "resolved" => cl[u.observer].answered # NoValue
    BY DEF UnitsSound
  <2>1. /\ u.observer \in DOMAIN os
        /\ HasKnown(os[u.observer]) => Heard(os[u.observer])
        /\ u.state = "resolved" => os[u.observer].answered # NoValue
    BY DEF HandleSound, UnitsSound
  <2>2. CASE gone(u.observer)
    BY <1>4, <1>6, <2>1, <2>2 DEF Heard
  <2>3. CASE ~gone(u.observer)
    BY <1>4, <1>5, <2>1, <2>3
  <2> QED  BY <2>2, <2>3
<1>8. SendsSound(Q!Range(us), cl, handleSends, hd)
  <2> SUFFICES ASSUME NEW s \in handleSends
               PROVE  /\ s.observer \in DOMAIN cl
                      /\ s.changed \/ Heard(cl[s.observer])
                      /\ s.observer \in hd \/ cl[s.observer].dropped \/ \E u \in Q!Range(us) : u.id = s.unit
                      /\ \A u \in Q!Range(us) : u.id = s.unit => u.observer = s.observer
    BY DEF SendsSound
  <2>1. /\ s.observer \in DOMAIN os
        /\ s.changed \/ Heard(os[s.observer])
        /\ s.observer \in hd \/ os[s.observer].dropped \/ \E u \in Q!Range(handleUnits) : u.id = s.unit
        /\ \A u \in Q!Range(handleUnits) : u.id = s.unit => u.observer = s.observer
    BY DEF HandleSound, SendsSound
  <2>2. CASE gone(s.observer)
    BY <1>4, <1>6, <2>1, <2>2 DEF Heard
  <2>3. CASE ~gone(s.observer)
    <3>1. cl[s.observer] = os[s.observer]
      BY <1>5, <2>1, <2>3
    <3> QED  BY <1>4, <2>1, <2>3, <3>1
  <2> QED  BY <2>2, <2>3
<1>9. TreeSound(cl, handleTree, hd)
  <2> SUFFICES ASSUME NEW c \in QueryComponents
               PROVE  /\ handleTree[c].observer \in DOMAIN cl \cup {0}
                      /\ Shows(handleTree[c]) => handleTree[c].observer # 0 /\ Heard(cl[handleTree[c].observer])
                      /\ handleTree[c].mounted => handleTree[c].observer \in hd
    BY DEF TreeSound
  <2>1. /\ handleTree[c].observer \in DOMAIN os \cup {0}
        /\ Shows(handleTree[c]) => handleTree[c].observer # 0 /\ Heard(os[handleTree[c].observer])
        /\ handleTree[c].mounted => handleTree[c].observer \in hd
    BY DEF HandleSound, TreeSound
  <2>2. CASE Shows(handleTree[c]) /\ gone(handleTree[c].observer)
    BY <1>4, <1>6, <2>1, <2>2 DEF Heard, Shows
  <2>3. CASE ~(Shows(handleTree[c]) /\ gone(handleTree[c].observer))
    BY <1>4, <1>5, <2>1, <2>3
  <2> QED  BY <2>2, <2>3
<1>10. OwnersSound(Q!Range(us), cl, hd)
  <2> SUFFICES ASSUME NEW o \in DOMAIN cl, cl[o].subscribed, ~cl[o].dropped, o \notin hd
               PROVE  \E u \in Q!Range(us) : u.observer = o
    BY DEF OwnersSound
  <2>1. ~gone(o) /\ cl[o] = os[o]
    BY <1>4, <1>5, <1>6
  <2>2. \E u \in Q!Range(handleUnits) : u.observer = o
    BY <1>4, <2>1 DEF HandleSound, OwnersSound
  <2> QED  BY <2>1, <2>2
<1> QED  BY <1>4, <1>5, <1>7, <1>8, <1>9, <1>10 DEF HandleSound, cl

\* The tree moves, and holds may come with it.
LEMMA TreeMoves ==
  ASSUME NEW us, NEW os, NEW ss, NEW tr, NEW hd, HandleSound(us, os, ss, tr, hd),
         NEW r, NEW h, hd \subseteq h, TreeSound(os, r, h)
  PROVE  HandleSound(us, os, ss, r, h)
<1>1. SendsSound(us, os, ss, h)
  BY DEF HandleSound, SendsSound
<1>2. OwnersSound(us, os, h)
  BY DEF HandleSound, OwnersSound
<1> QED  BY <1>1, <1>2 DEF HandleSound

\* Stores that are there have the numbers of units that were made.
LEMMA StoresNumbered ==
  ASSUME HandleConstants, HandleTyped
  PROVE  /\ DOMAIN handleObservers = 1 .. Len(handleObservers) /\ Len(handleObservers) \in Nat
         /\ handleMade \in Nat /\ MaxUnits \in Nat /\ handleMade <= MaxUnits
         /\ DOMAIN handleObservers \subseteq Q!Ids /\ DOMAIN handleHeld \subseteq Q!Ids
         /\ \A o \in DOMAIN handleObservers : handleObservers[o] \in Q!Observer
         /\ \A c \in QueryComponents : handleTree[c] \in Q!Component
<1>1. handleObservers \in Seq(Q!Observer) /\ Len(handleObservers) <= handleMade
  BY DEF HandleTyped
<1>2. handleMade \in Nat /\ MaxUnits \in Nat /\ handleMade <= MaxUnits
  BY DEF HandleTyped, HandleConstants
<1>3. DOMAIN handleObservers = 1 .. Len(handleObservers) /\ Len(handleObservers) \in Nat
  BY <1>1
<1>4. DOMAIN handleObservers \subseteq Q!Ids
  BY <1>1, <1>2, <1>3 DEF Q!Ids
<1> QED  BY <1>1, <1>2, <1>3, <1>4 DEF HandleTyped

\* Who does not mount, unmount or change its store leaves the holders as they are.
LEMMA CountedSame ==
  ASSUME NEW tr, NEW hd, NEW ts, Counted(tr, hd, ts), NEW r, NEW t,
         \A c \in QueryComponents : /\ r[c].mounted <=> tr[c].mounted
                                    /\ tr[c].mounted => r[c].observer = tr[c].observer,
         \A o \in DOMAIN hd : ts[o] > 0 => t[o] > 0
  PROVE  Counted(r, hd, t)
<1>1. \A o : Holders(r, o) = Holders(tr, o)
  BY DEF Holders
<1> QED  BY <1>1 DEF Counted

\* A step that sweeps units, and moves the tree and holds.
LEMMA SweepKeeps ==
  ASSUME HandleConstants, HandleInv, NEW us \in Seq(Q!Unit), Len(us) <= Len(handleUnits),
         Q!Range(us) \subseteq Q!Range(handleUnits),
         handleUnits' = us, handleObservers' = Q!Cleaned(handleObservers, us),
         UNCHANGED <<handleSends, handleMade>>, handleDrops' \in 0 .. MaxDrops,
         handleHeld' = [o \in DOMAIN handleHeld' |-> handleHeld'[o]],
         DOMAIN handleHeld \subseteq DOMAIN handleHeld', DOMAIN handleHeld' \subseteq DOMAIN handleObservers,
         handleTimers' \in [Q!Ids -> Nat], handleTree' \in [QueryComponents -> Q!Component],
         PhasesRight(handleTree'), Counted(handleTree', handleHeld', handleTimers'),
         TreeSound(Q!Cleaned(handleObservers, us), handleTree, DOMAIN handleHeld)
           => TreeSound(Q!Cleaned(handleObservers, us), handleTree', DOMAIN handleHeld')
  PROVE  HandleInv'
<1> DEFINE cl == Q!Cleaned(handleObservers, us)
<1>1. /\ cl \in Seq(Q!Observer) /\ Len(cl) = Len(handleObservers) /\ DOMAIN cl = DOMAIN handleObservers
      /\ HandleSound(Q!Range(us), cl, handleSends, handleTree, DOMAIN handleHeld)
  BY Swept DEF HandleInv, HandleTyped
<1> HIDE DEF cl
<1>2. HandleSound(Q!Range(us), cl, handleSends, handleTree', DOMAIN handleHeld')
  BY <1>1, TreeMoves DEF HandleSound, cl
<1>3. HandleTyped'
  <2>1. Len(us) <= CacheSize
    BY DEF HandleInv, HandleTyped, HandleConstants
  <2>2. (Q!Range(handleUnits))' = Q!Range(us)
    BY DEF Q!Range
  <2>3. \A u \in Q!Range(us) : u.id <= handleMade
    BY DEF HandleInv, HandleTyped
  <2> QED  BY <1>1, <2>1, <2>2, <2>3 DEF HandleInv, HandleTyped, Q!Ids, cl
<1>4. (Q!Range(handleUnits))' = Q!Range(us)
  BY DEF Q!Range
<1> QED  BY <1>2, <1>3, <1>4 DEF HandleInv, cl

\* A component leaves.
LEMMA TreeWithout ==
  ASSUME NEW os, NEW tr \in [QueryComponents -> Q!Component], NEW hd, NEW c \in QueryComponents,
         TreeSound(os, tr, hd), PhasesRight(tr)
  PROVE  /\ [tr EXCEPT ![c] = Q!Absent] \in [QueryComponents -> Q!Component]
         /\ TreeSound(os, [tr EXCEPT ![c] = Q!Absent], hd) /\ PhasesRight([tr EXCEPT ![c] = Q!Absent])
<1> DEFINE r == [tr EXCEPT ![c] = Q!Absent]
<1>1. /\ Q!Absent \in Q!Component /\ ~Q!Absent.mounted /\ Q!Absent.phase = "absent" /\ Q!Absent.observer = 0
  BY DEF Q!Absent, Q!Component
<1>2. r \in [QueryComponents -> Q!Component] /\ \A d \in QueryComponents : r[d] = IF d = c THEN Q!Absent ELSE tr[d]
  BY <1>1
<1> HIDE DEF r
<1>3. TreeSound(os, r, hd)
  BY <1>1, <1>2 DEF TreeSound, Shows
<1>4. PhasesRight(r)
  BY <1>1, <1>2 DEF PhasesRight
<1> QED  BY <1>2, <1>3, <1>4 DEF r

\* What a component releases is counted.
LEMMA ReleaseCounts ==
  ASSUME HandleConstants, HandleInv, NEW c \in QueryComponents, Q!Released(handleTree[c])
  PROVE  /\ DOMAIN handleHeld' = DOMAIN handleHeld /\ handleHeld' = [o \in DOMAIN handleHeld' |-> handleHeld'[o]]
         /\ handleTimers' \in [Q!Ids -> Nat]
         /\ Counted([handleTree EXCEPT ![c] = Q!Absent], handleHeld', handleTimers')
<1> DEFINE r == [handleTree EXCEPT ![c] = Q!Absent]
           x == handleTree[c].observer
<1>1. /\ handleTree \in [QueryComponents -> Q!Component] /\ handleTimers \in [Q!Ids -> Nat]
      /\ handleHeld = [o \in DOMAIN handleHeld |-> handleHeld[o]] /\ DOMAIN handleHeld \subseteq Q!Ids
      /\ Counted(handleTree, handleHeld, handleTimers) /\ TreeSound(handleObservers, handleTree, DOMAIN handleHeld)
  BY StoresNumbered DEF HandleInv, HandleTyped, HandleSound
<1>2. \A d \in QueryComponents : r[d] = IF d = c THEN Q!Absent ELSE handleTree[d]
  BY <1>1
<1>3. ~Q!Absent.mounted
  BY DEF Q!Absent
<1> HIDE DEF r
<1>4. CASE ~handleTree[c].mounted
  <2>1. UNCHANGED <<handleHeld, handleTimers>>
    BY <1>4 DEF Q!Released
  <2>2. \A d \in QueryComponents : /\ r[d].mounted <=> handleTree[d].mounted
                                   /\ handleTree[d].mounted => r[d].observer = handleTree[d].observer
    BY <1>1, <1>2, <1>3, <1>4 DEF Q!Component
  <2>3. Counted(r, handleHeld, handleTimers)
    BY <1>1, <2>2, CountedSame
  <2> QED  BY <1>1, <2>1, <2>3 DEF r
<1>5. CASE handleTree[c].mounted
  <2>1. x \in DOMAIN handleHeld /\ x \in Q!Ids
    BY <1>1, <1>5 DEF TreeSound
  <2>2. /\ handleHeld' = [handleHeld EXCEPT ![x] = @ - 1]
        /\ handleTimers' = [handleTimers EXCEPT ![x] = IF handleHeld[x] = 1 THEN @ + 1 ELSE @]
    BY <1>5 DEF Q!Released
  <2>3. \A o \in DOMAIN handleHeld : /\ handleHeld[o] = Cardinality(Holders(handleTree, o))
                                     /\ handleHeld[o] = 0 => handleTimers[o] > 0
    BY <1>1 DEF Counted
  <2>4. \A o \in DOMAIN handleHeld : IsFiniteSet(Holders(handleTree, o))
    <3>1. \A o : Holders(handleTree, o) \subseteq QueryComponents
      BY DEF Holders
    <3> QED  BY <3>1, FS_Subset DEF HandleConstants
  <2>5. \A o \in DOMAIN handleHeld : handleHeld[o] \in Nat
    BY <2>3, <2>4, FS_CardinalityType
  <2>6. Holders(r, x) = Holders(handleTree, x) \ {c} /\ c \in Holders(handleTree, x)
    BY <1>2, <1>3, <1>5 DEF Holders
  <2>7. \A o : o # x => Holders(r, o) = Holders(handleTree, o)
    BY <1>2, <1>3, <1>5 DEF Holders
  <2>8. Cardinality(Holders(r, x)) = handleHeld[x] - 1
    BY <2>1, <2>3, <2>4, <2>6, FS_RemoveElement
  <2>9. /\ DOMAIN handleHeld' = DOMAIN handleHeld /\ handleHeld' = [o \in DOMAIN handleHeld' |-> handleHeld'[o]]
        /\ \A o \in DOMAIN handleHeld : handleHeld'[o] = IF o = x THEN handleHeld[o] - 1 ELSE handleHeld[o]
    BY <1>1, <2>1, <2>2
  <2>10. /\ handleTimers' \in [Q!Ids -> Nat]
         /\ \A o \in Q!Ids : handleTimers'[o] = IF o = x /\ handleHeld[x] = 1 THEN handleTimers[o] + 1 ELSE handleTimers[o]
    BY <1>1, <2>1, <2>2
  <2>11. ASSUME NEW o \in DOMAIN handleHeld
         PROVE  handleHeld'[o] = Cardinality(Holders(r, o)) /\ (handleHeld'[o] = 0 => handleTimers'[o] > 0)
    <3>1. CASE o = x
      <4>1. handleHeld'[x] = 0 => handleHeld[x] = 1
        BY <2>1, <2>5, <2>9
      <4>2. handleHeld[x] = 1 => handleTimers'[x] > 0
        BY <1>1, <2>1, <2>10
      <4> QED  BY <2>1, <2>8, <2>9, <3>1, <4>1, <4>2
    <3>2. CASE o # x
      <4>1. o \in Q!Ids
        BY <1>1
      <4> QED  BY <2>3, <2>7, <2>9, <2>10, <3>2, <4>1
    <3> QED  BY <3>1, <3>2
  <2> QED  BY <2>9, <2>10, <2>11 DEF Counted, r
<1> QED  BY <1>4, <1>5

LEMMA LeaveKeeps ==
  ASSUME HandleConstants, HandleInv, NEW c \in QueryComponents, NEW us \in Seq(Q!Unit),
         Len(us) <= Len(handleUnits), Q!Range(us) \subseteq Q!Range(handleUnits), Q!Leave(c, us)
  PROVE  HandleInv'
<1> PICK left : left = IF handleTree[c].mounted THEN Q!Without(us, handleTree[c].key) ELSE us
  OBVIOUS
<1>1. /\ handleUnits' = left /\ handleObservers' = Q!Cleaned(handleObservers, left)
      /\ handleTree' = [handleTree EXCEPT ![c] = Q!Absent] /\ Q!Released(handleTree[c])
      /\ UNCHANGED <<handleSends, handleMade, handleDrops>>
  BY DEF Q!Leave
<1>2. left \in Seq(Q!Unit) /\ Len(left) <= Len(us) /\ Q!Range(left) \subseteq Q!Range(us)
  BY WithoutLess
<1>3. Len(left) <= Len(handleUnits) /\ Q!Range(left) \subseteq Q!Range(handleUnits)
  <2>1. handleUnits \in Seq(Q!Unit)
    BY DEF HandleInv, HandleTyped
  <2>2. Len(left) \in Nat /\ Len(us) \in Nat /\ Len(handleUnits) \in Nat
    BY <1>2, <2>1
  <2> QED  BY <1>2, <2>2
<1>4. /\ DOMAIN handleHeld' = DOMAIN handleHeld /\ handleHeld' = [o \in DOMAIN handleHeld' |-> handleHeld'[o]]
      /\ handleTimers' \in [Q!Ids -> Nat] /\ Counted(handleTree', handleHeld', handleTimers')
  BY <1>1, ReleaseCounts
<1>5. handleTree \in [QueryComponents -> Q!Component] /\ PhasesRight(handleTree)
  BY DEF HandleInv, HandleTyped
<1>6. /\ handleTree' \in [QueryComponents -> Q!Component] /\ PhasesRight(handleTree')
      /\ TreeSound(Q!Cleaned(handleObservers, left), handleTree, DOMAIN handleHeld)
           => TreeSound(Q!Cleaned(handleObservers, left), handleTree', DOMAIN handleHeld)
  <2>1. /\ handleTree' \in [QueryComponents -> Q!Component] /\ PhasesRight(handleTree')
    <3>1. TreeSound(handleObservers, handleTree, DOMAIN handleHeld)
      BY DEF HandleInv, HandleSound
    <3> QED  BY <1>1, <1>5, <3>1, TreeWithout
  <2> QED  BY <1>1, <1>5, <2>1, TreeWithout
<1>7. DOMAIN handleHeld \subseteq DOMAIN handleObservers /\ handleDrops \in 0 .. MaxDrops
  BY DEF HandleInv, HandleTyped
<1> QED  BY <1>1, <1>2, <1>3, <1>4, <1>6, <1>7, SweepKeeps

LEMMA CommitKeeps ==
  ASSUME HandleConstants, HandleInv, NEW c \in QueryComponents, Q!Commit(c)
  PROVE  HandleInv'
<1> DEFINE t == handleTree[c]
           x == handleTree[c].observer
<1> PICK left : left = IF t.mounted /\ t.key # t.want THEN Q!Without(handleUnits, t.key) ELSE handleUnits
  OBVIOUS
<1>1. /\ handleUnits' = left /\ handleObservers' = Q!Cleaned(handleObservers, left) /\ t.phase = "rendered"
      /\ handleTree' = [handleTree EXCEPT ![c].phase = "shown", ![c].mounted = TRUE, ![c].key = t.want]
      /\ UNCHANGED <<handleSends, handleTimers, handleMade, handleDrops>>
      /\ handleHeld' = IF t.mounted THEN handleHeld
                       ELSE [o \in DOMAIN handleHeld \cup {x} |->
                               (IF o \in DOMAIN handleHeld THEN handleHeld[o] ELSE 0) + (IF o = x THEN 1 ELSE 0)]
  BY DEF Q!Commit
<1>2. /\ handleUnits \in Seq(Q!Unit) /\ handleTree \in [QueryComponents -> Q!Component]
      /\ handleTimers \in [Q!Ids -> Nat] /\ handleDrops \in 0 .. MaxDrops
      /\ handleHeld = [o \in DOMAIN handleHeld |-> handleHeld[o]] /\ DOMAIN handleHeld \subseteq DOMAIN handleObservers
      /\ PhasesRight(handleTree) /\ Counted(handleTree, handleHeld, handleTimers)
      /\ TreeSound(handleObservers, handleTree, DOMAIN handleHeld)
  BY DEF HandleInv, HandleTyped, HandleSound
<1>3. left \in Seq(Q!Unit) /\ Len(left) <= Len(handleUnits) /\ Q!Range(left) \subseteq Q!Range(handleUnits)
  BY <1>2, WithoutLess
<1>4. t \in Q!Component /\ t.want \in QueryKeys /\ x \in DOMAIN handleObservers /\ (t.mounted => x \in DOMAIN handleHeld)
  BY <1>1, <1>2 DEF PhasesRight, TreeSound, Shows
<1>5. /\ handleTree' \in [QueryComponents -> Q!Component]
      /\ \A d \in QueryComponents : d # c => handleTree'[d] = handleTree[d]
      /\ handleTree'[c] = [t EXCEPT !.phase = "shown", !.mounted = TRUE, !.key = t.want]
      /\ handleTree'[c].phase = "shown" /\ handleTree'[c].mounted /\ handleTree'[c].key = t.want
      /\ handleTree'[c].want = t.want /\ handleTree'[c].observer = x
  BY <1>1, <1>2, <1>4 DEF Q!Component
<1>6. PhasesRight(handleTree')
  BY <1>2, <1>4, <1>5 DEF PhasesRight
<1>7. /\ handleHeld' = [o \in DOMAIN handleHeld' |-> handleHeld'[o]]
      /\ DOMAIN handleHeld' = DOMAIN handleHeld \cup {x}
  BY <1>1, <1>2, <1>4
<1>8. TreeSound(Q!Cleaned(handleObservers, left), handleTree, DOMAIN handleHeld)
        => TreeSound(Q!Cleaned(handleObservers, left), handleTree', DOMAIN handleHeld')
  BY <1>1, <1>5, <1>7 DEF TreeSound, Shows
<1>9. Counted(handleTree', handleHeld', handleTimers')
  <2>1. CASE t.mounted
    <3>1. \A d \in QueryComponents : /\ handleTree'[d].mounted <=> handleTree[d].mounted
                                     /\ handleTree[d].mounted => handleTree'[d].observer = handleTree[d].observer
      BY <1>5, <2>1
    <3> QED  BY <1>1, <1>2, <2>1, <3>1, CountedSame
  <2>2. CASE ~t.mounted
    <3>1. /\ handleHeld' = [o \in DOMAIN handleHeld \cup {x} |->
                               (IF o \in DOMAIN handleHeld THEN handleHeld[o] ELSE 0) + (IF o = x THEN 1 ELSE 0)]
          /\ handleTimers' = handleTimers
      BY <1>1, <2>2
    <3>2. Holders(handleTree', x) = Holders(handleTree, x) \cup {c} /\ c \notin Holders(handleTree, x)
      BY <1>5, <2>2 DEF Holders
    <3>3. \A o : o # x => Holders(handleTree', o) = Holders(handleTree, o)
      BY <1>5, <2>2 DEF Holders
    <3>4. IsFiniteSet(Holders(handleTree, x))
      <4>1. Holders(handleTree, x) \subseteq QueryComponents
        BY DEF Holders
      <4> QED  BY <4>1, FS_Subset DEF HandleConstants
    <3>5. /\ Cardinality(Holders(handleTree', x)) = Cardinality(Holders(handleTree, x)) + 1
          /\ Cardinality(Holders(handleTree, x)) \in Nat
      BY <3>2, <3>4, FS_AddElement, FS_CardinalityType
    <3>6. (IF x \in DOMAIN handleHeld THEN handleHeld[x] ELSE 0) = Cardinality(Holders(handleTree, x))
      <4>1. CASE x \in DOMAIN handleHeld
        BY <1>2, <4>1 DEF Counted
      <4>2. CASE x \notin DOMAIN handleHeld
        <5>1. Holders(handleTree, x) = {}
          BY <1>2, <4>2 DEF Holders, TreeSound
        <5> QED  BY <4>2, <5>1, FS_EmptySet
      <4> QED  BY <4>1, <4>2
    <3>7. \A o \in DOMAIN handleHeld : /\ handleHeld[o] = Cardinality(Holders(handleTree, o))
                                       /\ handleHeld[o] = 0 => handleTimers[o] > 0
      BY <1>2 DEF Counted
    <3>8. ASSUME NEW o \in DOMAIN handleHeld'
          PROVE  handleHeld'[o] = Cardinality(Holders(handleTree', o)) /\ (handleHeld'[o] = 0 => handleTimers[o] > 0)
      <4>1. CASE o = x
        <5>1. handleHeld'[x] = Cardinality(Holders(handleTree, x)) + 1
          BY <1>7, <3>1, <3>6
        <5> QED  BY <3>5, <4>1, <5>1
      <4>2. CASE o # x
        <5>1. o \in DOMAIN handleHeld /\ handleHeld'[o] = handleHeld[o] + 0
          BY <1>7, <3>1, <4>2
        <5>2. handleHeld[o] \in Nat
          <6>1. Holders(handleTree, o) \subseteq QueryComponents
            BY DEF Holders
          <6> QED  BY <3>7, <5>1, <6>1, FS_Subset, FS_CardinalityType DEF HandleConstants
        <5> QED  BY <3>3, <3>7, <4>2, <5>1, <5>2
      <4> QED  BY <4>1, <4>2
    <3> QED  BY <3>1, <3>8 DEF Counted
  <2> QED  BY <2>1, <2>2
<1>10. /\ handleUnits' = left /\ handleObservers' = Q!Cleaned(handleObservers, left)
       /\ handleSends' = handleSends /\ handleMade' = handleMade /\ handleDrops' \in 0 .. MaxDrops
       /\ handleHeld' = [o \in DOMAIN handleHeld' |-> handleHeld'[o]]
       /\ DOMAIN handleHeld \subseteq DOMAIN handleHeld' /\ DOMAIN handleHeld' \subseteq DOMAIN handleObservers
       /\ handleTimers' \in [Q!Ids -> Nat] /\ handleTree' \in [QueryComponents -> Q!Component]
  BY <1>1, <1>2, <1>4, <1>5, <1>7
<1> HIDE DEF t, x
<1> QED  BY <1>3, <1>6, <1>8, <1>9, <1>10, SweepKeeps

LEMMA ReplayKeeps ==
  ASSUME HandleConstants, HandleInv, NEW c \in QueryComponents, Q!Replay(c)
  PROVE  HandleInv'
<1> DEFINE x == handleTree[c].observer
<1> PICK left : left = Q!Without(handleUnits, handleTree[c].key)
  OBVIOUS
<1>1. /\ handleUnits' = left /\ handleObservers' = Q!Cleaned(handleObservers, left)
      /\ handleTree[c].phase = "shown" /\ handleDrops < MaxDrops /\ handleDrops' = handleDrops + 1
      /\ handleTimers' = [handleTimers EXCEPT ![x] = IF handleHeld[x] = 1 THEN @ + 1 ELSE @]
      /\ UNCHANGED <<handleSends, handleHeld, handleTree, handleMade>>
  BY DEF Q!Replay
<1>2. /\ handleUnits \in Seq(Q!Unit) /\ handleTree \in [QueryComponents -> Q!Component]
      /\ handleTimers \in [Q!Ids -> Nat] /\ handleDrops \in 0 .. MaxDrops
      /\ handleHeld = [o \in DOMAIN handleHeld |-> handleHeld[o]] /\ DOMAIN handleHeld \subseteq DOMAIN handleObservers
      /\ PhasesRight(handleTree) /\ Counted(handleTree, handleHeld, handleTimers) /\ DOMAIN handleHeld \subseteq Q!Ids
  BY StoresNumbered DEF HandleInv, HandleTyped
<1>3. left \in Seq(Q!Unit) /\ Len(left) <= Len(handleUnits) /\ Q!Range(left) \subseteq Q!Range(handleUnits)
  BY <1>2, WithoutLess
<1>4. x \in DOMAIN handleHeld /\ x \in Q!Ids
  <2>1. TreeSound(handleObservers, handleTree, DOMAIN handleHeld)
    BY DEF HandleInv, HandleSound
  <2> QED  BY <1>1, <1>2, <2>1 DEF TreeSound, PhasesRight
<1>5. /\ handleTimers' \in [Q!Ids -> Nat]
      /\ \A o \in Q!Ids : handleTimers[o] > 0 => handleTimers'[o] > 0
  <2>1. \A o \in Q!Ids : /\ handleTimers[o] \in Nat
                         /\ \/ handleTimers'[o] = handleTimers[o]
                            \/ handleTimers'[o] = handleTimers[o] + 1
    BY <1>1, <1>2, <1>4
  <2>2. handleTimers' = [o \in Q!Ids |-> handleTimers'[o]]
    BY <1>1, <1>2
  <2>3. \A o \in Q!Ids : /\ handleTimers'[o] \in Nat
                         /\ handleTimers[o] > 0 => handleTimers'[o] > 0
    BY <2>1
  <2> QED  BY <2>2, <2>3
<1>6. handleDrops' \in 0 .. MaxDrops
  BY <1>1, <1>2 DEF HandleConstants
<1>7. Counted(handleTree, handleHeld, handleTimers')
  <2>1. \A o \in DOMAIN handleHeld : handleTimers[o] > 0 => handleTimers'[o] > 0
    BY <1>2, <1>5
  <2> HIDE DEF x
  <2> QED  BY <1>2, <2>1, CountedSame
<1>8. /\ handleTree' = handleTree /\ handleHeld' = handleHeld /\ handleSends' = handleSends /\ handleMade' = handleMade
      /\ DOMAIN handleHeld' = DOMAIN handleHeld
  BY <1>1
<1> HIDE DEF x
<1> QED  BY <1>1, <1>2, <1>3, <1>5, <1>6, <1>7, <1>8, SweepKeeps

LEMMA InvalidateKeeps ==
  ASSUME HandleConstants, HandleInv, Q!Invalidate
  PROVE  HandleInv'
<1>1. /\ handleUnits' = <<>> /\ handleObservers' = Q!Cleaned(handleObservers, <<>>)
      /\ handleDrops < MaxDrops /\ handleDrops' = handleDrops + 1
      /\ UNCHANGED <<handleSends, handleHeld, handleTimers, handleTree, handleMade>>
  BY DEF Q!Invalidate
<1>2. /\ handleUnits \in Seq(Q!Unit) /\ handleTree \in [QueryComponents -> Q!Component]
      /\ handleTimers \in [Q!Ids -> Nat] /\ handleDrops \in 0 .. MaxDrops
      /\ handleHeld = [o \in DOMAIN handleHeld |-> handleHeld[o]] /\ DOMAIN handleHeld \subseteq DOMAIN handleObservers
      /\ PhasesRight(handleTree) /\ Counted(handleTree, handleHeld, handleTimers)
  BY DEF HandleInv, HandleTyped
<1>3. <<>> \in Seq(Q!Unit) /\ Len(<<>>) <= Len(handleUnits) /\ Q!Range(<<>>) \subseteq Q!Range(handleUnits)
  BY <1>2 DEF Q!Range
<1>4. handleDrops' \in 0 .. MaxDrops
  BY <1>1, <1>2 DEF HandleConstants
<1> QED  BY <1>1, <1>2, <1>3, <1>4, SweepKeeps

\* A unit is used: its component shows a store that has been heard, or waits.
LEMMA UseUnitKeeps ==
  ASSUME HandleConstants, HandleInv, NEW c \in QueryComponents, NEW k \in QueryKeys, Q!UseUnit(c, k)
  PROVE  HandleInv'
<1> DEFINE t == handleTree[c]
           us == Q!Range(handleUnits)
<1> PICK u : u = handleUnits[Q!Position(handleUnits, k)]
  OBVIOUS
<1> PICK o : o = IF t.mounted THEN t.observer ELSE u.observer
  OBVIOUS
<1> PICK r : r = IF u.state = "resolved" \/ handleObservers[o].answered # NoValue
                 THEN [t EXCEPT !.phase = "rendered", !.want = k, !.observer = o]
                 ELSE [t EXCEPT !.phase = "suspended", !.want = k]
  OBVIOUS
<1>1. /\ Q!Cached(k) /\ handleUnits' = Q!Touched(k) /\ handleTree' = [handleTree EXCEPT ![c] = r]
      /\ UNCHANGED <<handleSends, handleObservers, handleHeld, handleTimers, handleMade, handleDrops>>
  BY DEF Q!UseUnit
<1>2. HandleTyped /\ PhasesRight(handleTree) /\ Counted(handleTree, handleHeld, handleTimers)
  BY DEF HandleInv
<1>3. /\ UnitsSound(us, handleObservers) /\ SendsSound(us, handleObservers, handleSends, DOMAIN handleHeld)
      /\ TreeSound(handleObservers, handleTree, DOMAIN handleHeld) /\ OwnersSound(us, handleObservers, DOMAIN handleHeld)
  BY DEF HandleInv, HandleSound
<1>4. /\ handleUnits' \in Seq(Q!Unit) /\ Len(handleUnits') = Len(handleUnits) /\ Q!Range(handleUnits') = us
      /\ u \in us
  BY <1>1, <1>2, TouchedSame DEF HandleTyped
<1>5. /\ u.observer \in DOMAIN handleObservers
      /\ u.state = "resolved" => handleObservers[u.observer].answered # NoValue
      /\ HasKnown(handleObservers[u.observer]) => Heard(handleObservers[u.observer])
  BY <1>3, <1>4 DEF UnitsSound
<1>6. t \in Q!Component /\ DOMAIN handleObservers \subseteq Q!Ids /\ handleTree \in [QueryComponents -> Q!Component]
  BY <1>2, StoresNumbered DEF HandleTyped
<1>7. t.mounted => t.observer \in DOMAIN handleObservers /\ t.observer # 0 /\ Heard(handleObservers[t.observer])
  BY <1>3 DEF TreeSound, Shows
<1>8. o \in DOMAIN handleObservers /\ o # 0
  BY <1>5, <1>6, <1>7 DEF Q!Ids
<1>9. /\ r \in Q!Component /\ (r.mounted <=> t.mounted) /\ r.want = k /\ r.key = t.key
      /\ r.phase \in {"rendered", "suspended"}
      /\ r.phase = "rendered" => r.observer = o /\ (u.state = "resolved" \/ handleObservers[o].answered # NoValue)
      /\ r.phase = "suspended" => r.observer = t.observer
  BY <1>6, <1>8 DEF Q!Component
<1>10. /\ handleTree' \in [QueryComponents -> Q!Component] /\ handleTree'[c] = r
       /\ \A d \in QueryComponents : d # c => handleTree'[d] = handleTree[d]
  BY <1>1, <1>6, <1>9
<1>11. TreeSound(handleObservers, handleTree', DOMAIN handleHeld)
  <2>1. t.mounted => r.observer = t.observer
    BY <1>9
  <2>2. Shows(r) => r.observer # 0 /\ Heard(handleObservers[r.observer])
    <3>1. CASE t.mounted
      BY <1>7, <2>1, <3>1
    <3>2. CASE ~t.mounted /\ r.phase = "rendered"
      BY <1>5, <1>8, <1>9, <3>2 DEF HasKnown
    <3> QED  BY <1>9, <3>1, <3>2 DEF Shows
  <2>3. /\ r.observer \in DOMAIN handleObservers \cup {0}
        /\ r.mounted => r.observer \in DOMAIN handleHeld
    BY <1>3, <1>8, <1>9, <2>1 DEF TreeSound
  <2> QED  BY <1>3, <1>10, <2>2, <2>3 DEF TreeSound
<1>12. PhasesRight(handleTree')
  <2>1. t.mounted => t.phase # "absent" /\ t.key \in QueryKeys
    BY <1>2 DEF PhasesRight
  <2>2. /\ r.phase # "absent" /\ r.phase # "shown" /\ r.want \in QueryKeys
        /\ r.mounted => r.key \in QueryKeys
    BY <1>9, <2>1
  <2> HIDE DEF t
  <2> QED  BY <1>2, <1>10, <2>2 DEF PhasesRight
<1>13. Counted(handleTree', handleHeld, handleTimers)
  <2>1. \A d \in QueryComponents : /\ handleTree'[d].mounted <=> handleTree[d].mounted
                                   /\ handleTree[d].mounted => handleTree'[d].observer = handleTree[d].observer
    BY <1>9, <1>10
  <2> QED  BY <1>2, <2>1, CountedSame
<1>14. HandleTyped'
  BY <1>1, <1>2, <1>4, <1>10 DEF HandleTyped, Q!Ids, Q!Range
<1>15. (Q!Range(handleUnits))' = us
  BY <1>4 DEF Q!Range
<1> QED  BY <1>1, <1>3, <1>11, <1>12, <1>13, <1>14, <1>15 DEF HandleInv, HandleSound

\* A store is made: nobody knows it yet.
LEMMA StoreAdded ==
  ASSUME handleObservers \in Seq(Q!Observer), NEW us, NEW ss, NEW tr, NEW hd,
         HandleSound(us, handleObservers, ss, tr, hd)
  PROVE  LET os == Append(handleObservers, Q!NewObserver)
         IN  /\ os \in Seq(Q!Observer) /\ Len(os) = Len(handleObservers) + 1
             /\ os[Len(handleObservers) + 1] = Q!NewObserver
             /\ DOMAIN os = DOMAIN handleObservers \cup {Len(handleObservers) + 1}
             /\ HandleSound(us, os, ss, tr, hd)
<1> DEFINE n == Len(handleObservers) + 1
           os == Append(handleObservers, Q!NewObserver)
<1>1. Q!NewObserver \in Q!Observer /\ ~Q!NewObserver.subscribed
  BY DEF Q!NewObserver, Q!Observer
<1>2. /\ os \in Seq(Q!Observer) /\ Len(os) = n /\ os[n] = Q!NewObserver
      /\ \A o \in DOMAIN handleObservers : os[o] = handleObservers[o]
      /\ DOMAIN handleObservers = 1 .. Len(handleObservers) /\ DOMAIN os = 1 .. n /\ Len(handleObservers) \in Nat
  BY <1>1
<1>3. DOMAIN os = DOMAIN handleObservers \cup {n}
  BY <1>2
<1> HIDE DEF os, n
<1>4. UnitsSound(us, os)
  BY <1>2, <1>3 DEF HandleSound, UnitsSound
<1>5. SendsSound(us, os, ss, hd)
  BY <1>2, <1>3 DEF HandleSound, SendsSound
<1>6. TreeSound(os, tr, hd)
  <2>1. 0 \notin DOMAIN handleObservers
    BY <1>2
  <2> QED  BY <1>2, <1>3, <2>1 DEF HandleSound, TreeSound
<1>7. OwnersSound(us, os, hd)
  BY <1>1, <1>2, <1>3 DEF HandleSound, OwnersSound
<1> QED  BY <1>2, <1>3, <1>4, <1>5, <1>6, <1>7 DEF HandleSound, os, n

\* A component starts a fetch: its store is new, or the one it shows.
LEMMA StartFetchKeeps ==
  ASSUME HandleConstants, HandleInv, NEW c \in QueryComponents, NEW k \in QueryKeys, Q!StartFetch(c, k)
  PROVE  HandleInv'
<1> DEFINE t == handleTree[c]
           hd == DOMAIN handleHeld
           us == Q!Range(handleUnits)
           r == [handleTree EXCEPT ![c].phase = "suspended", ![c].want = k]
<1> PICK o : o = IF t.mounted THEN t.observer ELSE Len(handleObservers) + 1
  OBVIOUS
<1> PICK os : os = IF t.mounted THEN handleObservers ELSE Append(handleObservers, Q!NewObserver)
  OBVIOUS
<1> PICK kept : kept = IF Len(handleUnits) >= CacheSize THEN Tail(handleUnits) ELSE handleUnits
  OBVIOUS
<1> PICK n : n = [key |-> k, observer |-> o, id |-> handleMade + 1, state |-> "pending"]
  OBVIOUS
<1> PICK s : s = [unit |-> handleMade + 1, observer |-> o, key |-> k, changed |-> os[o].known # k]
  OBVIOUS
<1> PICK cl : cl = Q!Cleaned(os, kept)
  OBVIOUS
<1>1. /\ handleMade < MaxUnits /\ handleMade' = handleMade + 1
      /\ handleUnits' = Append(kept, n) /\ handleSends' = handleSends \cup {s}
      /\ handleObservers' = cl /\ handleTree' = r
      /\ UNCHANGED <<handleHeld, handleTimers, handleDrops>>
  BY DEF Q!StartFetch
<1>2. /\ HandleTyped /\ PhasesRight(handleTree) /\ Counted(handleTree, handleHeld, handleTimers)
      /\ HandleSound(us, handleObservers, handleSends, handleTree, hd)
  BY DEF HandleInv
<1>3. /\ handleObservers \in Seq(Q!Observer) /\ handleUnits \in Seq(Q!Unit) /\ Len(handleUnits) <= CacheSize
      /\ handleTree \in [QueryComponents -> Q!Component] /\ handleMade \in Nat /\ MaxUnits \in Nat
      /\ Len(handleObservers) \in Nat /\ Len(handleObservers) <= handleMade
      /\ DOMAIN handleObservers = 1 .. Len(handleObservers)
      /\ CacheSize \in Nat \ {0} /\ NoValue \notin QueryKeys
  BY <1>2, StoresNumbered DEF HandleTyped, HandleConstants
<1>4. t.mounted => t.observer \in DOMAIN handleObservers
  BY <1>2, <1>3 DEF HandleSound, TreeSound, Shows
<1>5. /\ os \in Seq(Q!Observer) /\ Len(os) <= handleMade + 1 /\ o \in DOMAIN os
      /\ DOMAIN handleObservers \subseteq DOMAIN os /\ 0 \notin DOMAIN os
      /\ HandleSound(us, os, handleSends, handleTree, hd)
  <2>1. CASE t.mounted
    BY <1>2, <1>3, <1>4, <2>1
  <2>2. CASE ~t.mounted
    BY <1>2, <1>3, <2>2, StoreAdded
  <2> QED  BY <2>1, <2>2
<1>6. ~t.mounted => os[o] = Q!NewObserver
  BY <1>2, <1>3, StoreAdded
<1>7. /\ kept \in Seq(Q!Unit) /\ Len(kept) \in Nat /\ Len(kept) + 1 <= CacheSize
      /\ Q!Range(kept) \subseteq us
  <2>1. CASE Len(handleUnits) >= CacheSize
    <3>1. /\ kept \in Seq(Q!Unit) /\ Len(kept) = Len(handleUnits) - 1 /\ Len(handleUnits) \in Nat \ {0}
          /\ \A i \in 1 .. Len(kept) : kept[i] = handleUnits[i + 1]
      BY <1>3, <2>1
    <3>2. \A i \in 1 .. Len(kept) : i + 1 \in DOMAIN handleUnits
      BY <1>3, <3>1
    <3> QED  BY <1>3, <3>1, <3>2 DEF Q!Range
  <2>2. CASE ~(Len(handleUnits) >= CacheSize)
    BY <1>3, <2>2
  <2> QED  BY <2>1, <2>2
<1>8. /\ cl \in Seq(Q!Observer) /\ Len(cl) = Len(os) /\ DOMAIN cl = DOMAIN os
      /\ HandleSound(Q!Range(kept), cl, handleSends, handleTree, hd)
  BY <1>5, <1>7, Swept
<1>9. ~t.mounted => cl[o] = Q!NewObserver
  <2>1. \A u \in us : u.observer \in DOMAIN handleObservers
    BY <1>2 DEF HandleSound, UnitsSound
  <2>2. ~t.mounted => \A u \in us : u.observer # o
    BY <1>3, <2>1
  <2>3. ASSUME ~t.mounted PROVE Q!Cleaned(os, kept)[o] = os[o]
    <3>1. \A u \in Q!Range(handleUnits) : u.observer # o
      BY <2>2, <2>3
    <3>2. /\ os \in Seq(Q!Observer) /\ o \in DOMAIN os /\ Q!Range(kept) \subseteq Q!Range(handleUnits)
          /\ HandleSound(Q!Range(handleUnits), os, handleSends, handleTree, DOMAIN handleHeld)
      BY <1>5, <1>7
    <3> HIDE DEF us, t, hd
    <3>3. \A x \in DOMAIN os : x \in DOMAIN handleHeld \/ (\A u \in Q!Range(handleUnits) : u.observer # x)
                               => Q!Cleaned(os, kept)[x] = os[x]
      BY ONLY <3>2, Swept
    <3> QED  BY <3>1, <3>2, <3>3
  <2> QED  BY <1>6, <2>3
<1>10. t.mounted => Heard(cl[o])
  BY <1>8 DEF HandleSound, TreeSound, Shows
<1>11. /\ o \in Q!Ids /\ n \in Q!Unit /\ s \in Q!Request
       /\ n.observer = o /\ n.id = handleMade + 1 /\ n.state = "pending"
       /\ s.observer = o /\ s.unit = handleMade + 1 /\ s.changed = (os[o].known # k)
  <2>1. o \in Q!Ids /\ handleMade + 1 \in Q!Ids
    BY <1>1, <1>3, <1>5 DEF Q!Ids
  <2> QED  BY <2>1 DEF Q!Unit, Q!Request
<1>12. /\ Append(kept, n) \in Seq(Q!Unit) /\ Len(Append(kept, n)) = Len(kept) + 1
       /\ Q!Range(Append(kept, n)) = Q!Range(kept) \cup {n}
  <2> HIDE DEF us, t, hd
  <2>1. kept \in Seq(Q!Unit) /\ n \in Q!Unit
    BY <1>7, <1>11
  <2> QED  BY ONLY <2>1, AppendedElements
<1>13. /\ \A u \in Q!Range(kept) : u.id <= handleMade /\ u.id \in Nat
       /\ \A x \in handleSends : x.unit <= handleMade /\ x.unit \in Nat
  <2>1. /\ \A u \in us : u \in Q!Unit /\ u.id <= handleMade
        /\ \A x \in handleSends : x \in Q!Request /\ x.unit <= handleMade
    BY <1>2, <1>3 DEF HandleTyped, Q!Range
  <2> QED  BY <1>7, <2>1 DEF Q!Unit, Q!Request, Q!Ids
<1>14. UnitsSound(Q!Range(kept) \cup {n}, cl)
  <2>1. o \in DOMAIN cl /\ n.state # "resolved"
    BY <1>5, <1>8, <1>11
  <2>2. HasKnown(cl[o]) => Heard(cl[o])
    BY <1>9, <1>10 DEF HasKnown, Q!NewObserver
  <2> QED  BY <1>8, <1>11, <2>1, <2>2 DEF HandleSound, UnitsSound
<1>15. SendsSound(Q!Range(kept) \cup {n}, cl, handleSends \cup {s}, hd)
  <2>1. s.observer \in DOMAIN cl
    BY <1>5, <1>8, <1>11
  <2>2. s.changed \/ Heard(cl[s.observer])
    <3>1. ASSUME ~t.mounted PROVE s.changed
      <4>1. os[o].known = NoValue /\ k # NoValue
        BY <1>3, <1>6, <3>1 DEF Q!NewObserver
      <4> QED  BY <1>11, <4>1
    <3>2. ASSUME t.mounted PROVE Heard(cl[s.observer])
      BY <1>10, <1>11, <3>2
    <3> QED  BY <3>1, <3>2
  <2>3. \A u \in Q!Range(kept) : u.id # s.unit
    BY <1>3, <1>11, <1>13
  <2>4. \A x \in handleSends : x.unit # n.id
    BY <1>3, <1>11, <1>13
  <2>5. SendsSound(Q!Range(kept), cl, handleSends, hd)
    BY <1>8 DEF HandleSound
  <2> QED  BY <1>11, <2>1, <2>2, <2>3, <2>4, <2>5 DEF SendsSound
<1>16. /\ r \in [QueryComponents -> Q!Component]
       /\ \A d \in QueryComponents : d # c => r[d] = handleTree[d]
       /\ r[c].phase = "suspended" /\ r[c].want = k /\ r[c].key = t.key
       /\ r[c].observer = t.observer /\ (r[c].mounted <=> t.mounted)
  BY <1>3 DEF Q!Component
<1> HIDE DEF r
<1>17. TreeSound(cl, r, hd)
  <2>1. TreeSound(cl, handleTree, hd)
    BY <1>8 DEF HandleSound
  <2> QED  BY <1>16, <2>1 DEF TreeSound, Shows
<1>18. PhasesRight(r)
  <2>1. t.mounted => t.key \in QueryKeys
    BY <1>2 DEF PhasesRight
  <2>2. /\ r[c].phase # "absent" /\ r[c].phase # "shown" /\ r[c].want \in QueryKeys
        /\ r[c].mounted => r[c].key \in QueryKeys
    BY <1>16, <2>1
  <2> HIDE DEF t
  <2> QED  BY <1>2, <1>16, <2>2 DEF PhasesRight
<1>19. Counted(r, handleHeld, handleTimers)
  <2>1. \A d \in QueryComponents : /\ r[d].mounted <=> handleTree[d].mounted
                                   /\ handleTree[d].mounted => r[d].observer = handleTree[d].observer
    BY <1>16
  <2> QED  BY <1>2, <2>1, CountedSame
<1>20. HandleSound(Q!Range(kept) \cup {n}, cl, handleSends \cup {s}, r, hd)
  <2>1. OwnersSound(Q!Range(kept), cl, hd)
    BY <1>8 DEF HandleSound
  <2>2. OwnersSound(Q!Range(kept) \cup {n}, cl, hd)
    BY <2>1 DEF OwnersSound
  <2> QED  BY <1>14, <1>15, <1>17, <2>2 DEF HandleSound
<1>21. (Q!Range(handleUnits))' = Q!Range(kept) \cup {n}
  <2>1. (Q!Range(handleUnits))' = Q!Range(Append(kept, n))
    BY <1>1 DEF Q!Range
  <2> QED  BY <1>12, <2>1
<1>22. HandleTyped'
  <2>1. /\ \A u \in Q!Range(kept) \cup {n} : u.id <= handleMade + 1
        /\ \A x \in handleSends \cup {s} : x.unit <= handleMade + 1
    BY <1>3, <1>11, <1>13
  <2>2. /\ handleUnits' \in Seq(Q!Unit) /\ Len(handleUnits') <= CacheSize
        /\ handleSends' \subseteq Q!Request
    BY <1>1, <1>2, <1>3, <1>7, <1>11, <1>12 DEF HandleTyped
  <2>3. /\ handleObservers' \in Seq(Q!Observer) /\ Len(handleObservers') <= handleMade'
        /\ DOMAIN handleHeld' \subseteq DOMAIN handleObservers'
    BY <1>1, <1>2, <1>5, <1>8 DEF HandleTyped
  <2>4. handleMade' \in 0 .. MaxUnits
    BY <1>1, <1>3
  <2>5. handleTree' \in [QueryComponents -> Q!Component]
    BY <1>1, <1>16
  <2> HIDE DEF us, hd, t
  <2> QED  BY <1>1, <1>2, <1>21, <2>1, <2>2, <2>3, <2>4, <2>5 DEF HandleTyped, Q!Ids
<1> QED  BY <1>1, <1>18, <1>19, <1>20, <1>21, <1>22 DEF HandleInv

\* A timer tears a store down that nobody holds, or finds it held again.
LEMMA DisposeKeeps ==
  ASSUME HandleConstants, HandleInv, NEW o \in Q!Ids, Q!Dispose(o)
  PROVE  HandleInv'
<1> DEFINE hd == DOMAIN handleHeld
           us == Q!Range(handleUnits)
           torn == Q!TornDown(o, handleObservers[o], handleUnits)
           e == [torn EXCEPT !.known = NoValue]
<1>1. /\ handleTimers[o] > 0 /\ handleTimers' = [handleTimers EXCEPT ![o] = @ - 1]
      /\ UNCHANGED <<handleUnits, handleSends, handleTree, handleMade, handleDrops>>
  BY DEF Q!Dispose
<1>2. /\ HandleTyped /\ PhasesRight(handleTree) /\ Counted(handleTree, handleHeld, handleTimers)
      /\ HandleSound(us, handleObservers, handleSends, handleTree, hd)
  BY DEF HandleInv
<1>3. /\ handleObservers \in Seq(Q!Observer) /\ handleTimers \in [Q!Ids -> Nat]
      /\ handleHeld = [x \in hd |-> handleHeld[x]] /\ hd \subseteq DOMAIN handleObservers
  BY <1>2 DEF HandleTyped
<1>4. /\ handleTimers' \in [Q!Ids -> Nat]
      /\ \A x \in Q!Ids : x # o => handleTimers'[x] = handleTimers[x]
  <2>1. handleTimers[o] \in Nat /\ handleTimers[o] - 1 \in Nat
    BY <1>1, <1>3
  <2> QED  BY <1>1, <1>3, <2>1
<1>5. hd \subseteq Q!Ids
  BY <1>2, StoresNumbered
<1>6. (Q!Range(handleUnits))' = us
  BY <1>1 DEF Q!Range
<1>7. CASE o \in hd /\ handleHeld[o] = 0
  <2>1. /\ handleHeld' = [x \in hd \ {o} |-> handleHeld[x]]
        /\ handleObservers' = [handleObservers EXCEPT ![o] = e]
    BY <1>7 DEF Q!Dispose
  <2>2. o \in DOMAIN handleObservers /\ handleObservers[o] \in Q!Observer
    BY <1>3, <1>7
  <2>3. IsTorn(o, handleObservers[o], torn, handleUnits)
    BY <2>2, TornDownIs
  <2> HIDE DEF torn
  <2>4. /\ e \in Q!Observer /\ ~e.subscribed /\ e.answered = handleObservers[o].answered
        /\ (\E s \in handleSends : s.observer = o) => e.dropped
        /\ (\E u \in us : u.observer = o) => e.late
        /\ (\E c \in QueryComponents : handleTree[c].phase = "rendered" /\ handleTree[c].observer = o) => e.late
    BY <2>3 DEF IsTorn, Q!Observer
  <2> HIDE DEF e
  <2>5. /\ handleObservers' \in Seq(Q!Observer) /\ Len(handleObservers') = Len(handleObservers)
        /\ DOMAIN handleObservers' = DOMAIN handleObservers /\ handleObservers'[o] = e
        /\ \A x \in DOMAIN handleObservers : x # o => handleObservers'[x] = handleObservers[x]
    BY <1>3, <2>1, <2>2, <2>4
  <2>6. Holders(handleTree, o) = {}
    <3>1. Holders(handleTree, o) \subseteq QueryComponents
      BY DEF Holders
    <3>2. IsFiniteSet(Holders(handleTree, o))
      BY <3>1, FS_Subset DEF HandleConstants
    <3>3. Cardinality(Holders(handleTree, o)) = 0
      BY <1>2, <1>7 DEF Counted
    <3> QED  BY <3>2, <3>3, FS_EmptySet
  <2>7. DOMAIN handleHeld' = hd \ {o} /\ \A x \in hd \ {o} : handleHeld'[x] = handleHeld[x]
    BY <2>1
  <2> HIDE DEF us, hd
  <2>8. UnitsSound(us, handleObservers')
    BY <1>2, <2>4, <2>5 DEF HandleSound, UnitsSound, Heard
  <2>9. SendsSound(us, handleObservers', handleSends, hd \ {o})
    BY <1>2, <2>4, <2>5 DEF HandleSound, SendsSound, Heard
  <2>10. TreeSound(handleObservers', handleTree, hd \ {o})
    <3>1. TreeSound(handleObservers, handleTree, hd)
      BY <1>2 DEF HandleSound
    <3>2. \A c \in QueryComponents : handleTree[c].mounted => handleTree[c].observer # o
      BY <2>6 DEF Holders
    <3> QED  BY <2>4, <2>5, <3>1, <3>2 DEF TreeSound, Heard, Shows
  <2>11. OwnersSound(us, handleObservers', hd \ {o})
    BY <1>2, <2>4, <2>5 DEF HandleSound, OwnersSound
  <2>12. Counted(handleTree, handleHeld', handleTimers')
    <3>1. \A x \in hd : /\ handleHeld[x] = Cardinality(Holders(handleTree, x))
                        /\ handleHeld[x] = 0 => handleTimers[x] > 0
      BY <1>2 DEF Counted, hd
    <3>2. \A x \in hd \ {o} : handleTimers'[x] = handleTimers[x]
      BY <1>4, <1>5
    <3> QED  BY <2>7, <3>1, <3>2 DEF Counted
  <2>13. HandleTyped'
    <3>1. handleHeld' = [x \in DOMAIN handleHeld' |-> handleHeld'[x]]
      BY <2>1
    <3>2. DOMAIN handleHeld' \subseteq DOMAIN handleObservers'
      BY <1>3, <2>5, <2>7
    <3> QED  BY <1>1, <1>2, <1>4, <2>5, <3>1, <3>2 DEF HandleTyped, Q!Ids, Q!Range
  <2> QED  BY <1>1, <1>2, <1>6, <2>7, <2>8, <2>9, <2>10, <2>11, <2>12, <2>13 DEF HandleInv, HandleSound
<1>8. CASE ~(o \in hd /\ handleHeld[o] = 0)
  <2>1. UNCHANGED <<handleHeld, handleObservers>>
    BY <1>8 DEF Q!Dispose
  <2>2. Counted(handleTree, handleHeld, handleTimers')
    BY <1>2, <1>4, <1>5, <1>8 DEF Counted
  <2>3. HandleTyped'
    BY <1>1, <1>2, <1>4, <2>1 DEF HandleTyped, Q!Ids, Q!Range
  <2> HIDE DEF us, hd
  <2>4. (DOMAIN handleHeld)' = hd
    BY <2>1 DEF hd
  <2> QED  BY <1>1, <1>2, <1>6, <2>1, <2>2, <2>3, <2>4 DEF HandleInv
<1> QED  BY <1>7, <1>8

\* A fetch ends: its store has been heard from now on, unless the request never got there.
LEMMA AnswerKeeps ==
  ASSUME HandleConstants, HandleInv, NEW s \in handleSends, NEW outcome \in {"data", "errors", "thrown"},
         Q!Answer(s, outcome)
  PROVE  HandleInv'
<1> DEFINE hd == DOMAIN handleHeld
           us == Q!Range(handleUnits)
           o == s.observer
           e == Q!Answered(handleObservers[o], s, outcome)
           marked(u) == IF u.id = s.unit
                        THEN [u EXCEPT !.state = IF outcome = "data" THEN "resolved" ELSE "rejected"]
                        ELSE u
<1> PICK vs : vs = [i \in DOMAIN handleUnits |-> marked(handleUnits[i])]
  OBVIOUS
<1>1. /\ handleSends' = handleSends \ {s} /\ handleObservers' = [handleObservers EXCEPT ![o] = e]
      /\ handleUnits' = vs
      /\ UNCHANGED <<handleHeld, handleTimers, handleTree, handleMade, handleDrops>>
  BY DEF Q!Answer
<1>2. /\ HandleTyped /\ PhasesRight(handleTree) /\ Counted(handleTree, handleHeld, handleTimers)
      /\ HandleSound(us, handleObservers, handleSends, handleTree, hd)
  BY DEF HandleInv
<1>3. /\ handleObservers \in Seq(Q!Observer) /\ handleUnits \in Seq(Q!Unit) /\ s \in Q!Request
      /\ s.key \in QueryKeys /\ s.key # NoValue
  BY <1>2 DEF HandleTyped, HandleConstants, Q!Request
<1>4. /\ o \in DOMAIN handleObservers /\ handleObservers[o] \in Q!Observer
      /\ s.changed \/ Heard(handleObservers[o])
      /\ o \in hd \/ handleObservers[o].dropped \/ \E u \in us : u.id = s.unit
      /\ \A u \in us : u.id = s.unit => u.observer = o
  BY <1>2, <1>3 DEF HandleSound, SendsSound
<1>5. /\ e \in Q!Observer /\ (e.late <=> handleObservers[o].late) /\ (e.dropped <=> handleObservers[o].dropped)
      /\ handleObservers[o].subscribed => e.subscribed
      /\ e.subscribed /\ ~handleObservers[o].subscribed => outcome # "thrown"
      /\ outcome # "thrown" => Heard(e)
      /\ outcome = "thrown" => e.known = handleObservers[o].known /\ e.answered = handleObservers[o].answered
      /\ handleObservers[o].answered # NoValue \/ outcome = "data" => e.answered # NoValue
  <2> PICK b : b = (handleObservers[o].subscribed \/ (outcome # "thrown" /\ s.changed))
    OBVIOUS
  <2> PICK kn : kn = IF outcome # "thrown" THEN s.key ELSE handleObservers[o].known
    OBVIOUS
  <2> PICK an : an = IF outcome = "data" THEN s.key ELSE handleObservers[o].answered
    OBVIOUS
  <2>1. e = [handleObservers[o] EXCEPT !.subscribed = b, !.known = kn, !.answered = an]
    BY DEF Q!Answered
  <2>2. b \in BOOLEAN /\ kn \in QueryKeys \cup {NoValue} /\ an \in QueryKeys \cup {NoValue}
    BY <1>3, <1>4 DEF Q!Observer
  <2> HIDE DEF e
  <2>3. /\ e \in Q!Observer /\ e.subscribed = b /\ e.known = kn /\ e.answered = an
        /\ e.late = handleObservers[o].late /\ e.dropped = handleObservers[o].dropped
    BY <1>4, <2>1, <2>2 DEF Q!Observer
  <2> QED  BY <1>3, <1>4, <2>3 DEF Heard
<1> HIDE DEF e
<1>6. /\ handleObservers' \in Seq(Q!Observer) /\ Len(handleObservers') = Len(handleObservers)
      /\ DOMAIN handleObservers' = DOMAIN handleObservers /\ handleObservers'[o] = e
      /\ \A x \in DOMAIN handleObservers : x # o => handleObservers'[x] = handleObservers[x]
  BY <1>1, <1>3, <1>4, <1>5
<1>7. \A u \in Q!Unit : /\ marked(u) \in Q!Unit /\ marked(u).id = u.id /\ marked(u).observer = u.observer
                        /\ marked(u).state = "resolved" => u.state = "resolved" \/ (u.id = s.unit /\ outcome = "data")
  BY DEF Q!Unit
<1> HIDE DEF marked
<1>8. /\ vs \in Seq(Q!Unit) /\ Len(vs) = Len(handleUnits)
      /\ \A v \in Q!Range(vs) : \E u \in us : v = marked(u)
      /\ \A u \in us : marked(u) \in Q!Range(vs)
      /\ us \subseteq Q!Unit
  BY <1>3, <1>7 DEF Q!Range
<1> HIDE DEF us, hd
<1>9. \A x \in DOMAIN handleObservers : Heard(handleObservers[x]) => Heard(handleObservers'[x])
  BY <1>5, <1>6 DEF Heard
<1>10. UnitsSound(Q!Range(vs), handleObservers')
  <2> SUFFICES ASSUME NEW v \in Q!Range(vs)
               PROVE  /\ v.observer \in DOMAIN handleObservers'
                      /\ HasKnown(handleObservers'[v.observer]) => Heard(handleObservers'[v.observer])
                      /\ v.state = "resolved" => handleObservers'[v.observer].answered # NoValue
    BY DEF UnitsSound
  <2> PICK u \in us : v = marked(u)
    BY <1>8
  <2>1. /\ v.id = u.id /\ v.observer = u.observer
        /\ v.state = "resolved" => u.state = "resolved" \/ (u.id = s.unit /\ outcome = "data")
    BY <1>7, <1>8
  <2>2. /\ u.observer \in DOMAIN handleObservers
        /\ HasKnown(handleObservers[u.observer]) => Heard(handleObservers[u.observer])
        /\ u.state = "resolved" => handleObservers[u.observer].answered # NoValue
    BY <1>2 DEF HandleSound, UnitsSound
  <2>3. CASE u.observer # o
    <3>1. u.id # s.unit
      BY <1>4, <2>3
    <3> QED  BY <1>6, <2>1, <2>2, <2>3, <3>1
  <2>4. CASE u.observer = o
    <3>1. HasKnown(e) => Heard(e)
      BY <1>5, <1>6, <1>9, <2>2, <2>4 DEF HasKnown
    <3> QED  BY <1>5, <1>6, <2>1, <2>2, <2>4, <3>1
  <2> QED  BY <2>3, <2>4
<1>11. SendsSound(Q!Range(vs), handleObservers', handleSends \ {s}, hd)
  <2> SUFFICES ASSUME NEW x \in handleSends
               PROVE  /\ x.observer \in DOMAIN handleObservers'
                      /\ x.changed \/ Heard(handleObservers'[x.observer])
                      /\ \/ x.observer \in hd \/ handleObservers'[x.observer].dropped
                         \/ \E v \in Q!Range(vs) : v.id = x.unit
                      /\ \A v \in Q!Range(vs) : v.id = x.unit => v.observer = x.observer
    BY DEF SendsSound
  <2>1. /\ x.observer \in DOMAIN handleObservers
        /\ x.changed \/ Heard(handleObservers[x.observer])
        /\ x.observer \in hd \/ handleObservers[x.observer].dropped \/ \E u \in us : u.id = x.unit
        /\ \A u \in us : u.id = x.unit => u.observer = x.observer
    BY <1>2 DEF HandleSound, SendsSound
  <2>2. \A v \in Q!Range(vs) : v.id = x.unit => v.observer = x.observer
    BY <1>7, <1>8, <2>1
  <2>3. (\E u \in us : u.id = x.unit) => \E v \in Q!Range(vs) : v.id = x.unit
    BY <1>7, <1>8
  <2>4. handleObservers[x.observer].dropped => handleObservers'[x.observer].dropped
    BY <1>5, <1>6, <2>1
  <2> QED  BY <1>6, <1>9, <2>1, <2>2, <2>3, <2>4
<1>12. TreeSound(handleObservers', handleTree, hd)
  <2>1. 0 \notin DOMAIN handleObservers
    BY <1>3
  <2> QED  BY <1>2, <1>6, <1>9, <2>1 DEF HandleSound, TreeSound
<1>13. OwnersSound(Q!Range(vs), handleObservers', hd)
  <2> SUFFICES ASSUME NEW x \in DOMAIN handleObservers, handleObservers'[x].subscribed,
                      ~handleObservers'[x].dropped, x \notin hd
               PROVE  \E v \in Q!Range(vs) : v.observer = x
    BY <1>6 DEF OwnersSound
  <2>1. \E u \in us : u.observer = x
    <3>1. CASE handleObservers[x].subscribed
      <4>1. ~handleObservers[x].dropped
        BY <1>5, <1>6
      <4> QED  BY <1>2, <3>1, <4>1 DEF HandleSound, OwnersSound
    <3>2. CASE ~handleObservers[x].subscribed
      <4>1. x = o /\ ~handleObservers[x].dropped
        BY <1>5, <1>6, <3>2
      <4> QED  BY <1>4, <4>1
    <3> QED  BY <3>1, <3>2
  <2> QED  BY <1>7, <1>8, <2>1
<1>14. (Q!Range(handleUnits))' = Q!Range(vs) /\ (DOMAIN handleHeld)' = hd
  BY <1>1 DEF Q!Range, hd
<1>15. HandleTyped'
  <2>1. \A v \in Q!Range(vs) : v.id <= handleMade
    <3>1. \A u \in us : u.id <= handleMade
      BY <1>2 DEF HandleTyped, us
    <3> QED  BY <1>7, <1>8, <3>1
  <2> QED  BY <1>1, <1>2, <1>6, <1>8, <1>14, <2>1 DEF HandleTyped, Q!Ids
<1> QED  BY <1>1, <1>2, <1>10, <1>11, <1>12, <1>13, <1>14, <1>15 DEF HandleInv, HandleSound

LEMMA HandleInit ==
  ASSUME HandleConstants, Q!Init
  PROVE  HandleInv
<1>1. /\ handleUnits = <<>> /\ handleSends = {} /\ handleObservers = <<>> /\ handleHeld = [o \in {} |-> 0]
      /\ handleTimers = [o \in Q!Ids |-> 0] /\ handleTree = [c \in QueryComponents |-> Q!Absent]
      /\ handleMade = 0 /\ handleDrops = 0
  BY DEF Q!Init
<1>2. /\ Q!Absent \in Q!Component /\ ~Q!Absent.mounted /\ Q!Absent.phase = "absent" /\ Q!Absent.observer = 0
  BY DEF Q!Absent, Q!Component
<1>3. /\ Q!Range(handleUnits) = {} /\ DOMAIN handleObservers = {} /\ DOMAIN handleHeld = {}
      /\ \A c \in QueryComponents : handleTree[c] = Q!Absent
  BY <1>1 DEF Q!Range
<1>4. HandleTyped
  <2>1. /\ handleUnits \in Seq(Q!Unit) /\ Len(handleUnits) <= CacheSize
        /\ handleObservers \in Seq(Q!Observer) /\ Len(handleObservers) <= handleMade
    BY <1>1 DEF HandleConstants
  <2>2. handleHeld = [o \in DOMAIN handleHeld |-> handleHeld[o]]
    BY <1>1
  <2>3. handleTree \in [QueryComponents -> Q!Component] /\ handleTimers \in [Q!Ids -> Nat]
    BY <1>1, <1>2
  <2> QED  BY <1>1, <1>3, <2>1, <2>2, <2>3 DEF HandleTyped, HandleConstants
<1>5. PhasesRight(handleTree)
  BY <1>2, <1>3 DEF PhasesRight
<1>6. /\ UnitsSound({}, handleObservers) /\ SendsSound({}, handleObservers, {}, {})
      /\ TreeSound(handleObservers, handleTree, {}) /\ OwnersSound({}, handleObservers, {})
  BY <1>2, <1>3 DEF UnitsSound, SendsSound, TreeSound, OwnersSound, Shows
<1>7. Counted(handleTree, handleHeld, handleTimers)
  BY <1>3 DEF Counted
<1> QED  BY <1>1, <1>3, <1>4, <1>5, <1>6, <1>7 DEF HandleInv, HandleSound

LEMMA HandleNext ==
  ASSUME HandleConstants, HandleInv, [Q!Next]_(Q!vars)
  PROVE  HandleInv'
<1>1. handleUnits \in Seq(Q!Unit)
  BY DEF HandleInv, HandleTyped
<1>2. ASSUME NEW c \in QueryComponents, NEW k \in QueryKeys, Q!Render(c, k) PROVE HandleInv'
  <2>1. CASE Q!StartFetch(c, k)
    BY <2>1, StartFetchKeeps
  <2>2. CASE Q!ThrowError(c, k)
    BY <1>1, <2>2, WithoutLess, LeaveKeeps DEF Q!ThrowError
  <2>3. CASE Q!UseUnit(c, k)
    BY <2>3, UseUnitKeeps
  <2> QED  BY <1>2, <2>1, <2>2, <2>3 DEF Q!Render
<1>3. ASSUME NEW c \in QueryComponents, Q!Unmount(c) PROVE HandleInv'
  <2>1. Len(handleUnits) <= Len(handleUnits)
    BY <1>1
  <2> QED  BY <1>1, <1>3, <2>1, LeaveKeeps DEF Q!Unmount
<1>4. CASE UNCHANGED Q!vars
  <2>1. UNCHANGED <<handleUnits, handleSends, handleObservers, handleHeld, handleTimers, handleTree, handleMade,
                    handleDrops>>
    BY <1>4 DEF Q!vars
  <2>2. (Q!Range(handleUnits))' = Q!Range(handleUnits)
    BY <2>1 DEF Q!Range
  <2>3. HandleTyped'
    BY <2>1, <2>2 DEF HandleInv, HandleTyped, Q!Ids
  <2> QED  BY <2>1, <2>2, <2>3 DEF HandleInv
<1> QED  BY <1>2, <1>3, <1>4, CommitKeeps, ReplayKeeps, InvalidateKeeps, DisposeKeeps, AnswerKeeps DEF Q!Next

\* The invariant of the data hooks.
THEOREM HandleInvHolds == Q!Spec => []HandleInv
<1>1. HandleConstants
  BY RuntimeAssumption
<1>2. Q!Init => HandleInv
  BY <1>1, HandleInit
<1>3. HandleInv /\ [Q!Next]_(Q!vars) => HandleInv'
  BY <1>1, HandleNext
<1> QED  BY <1>2, <1>3, PTL DEF Q!Spec

\* The types of suspenseCache.ts, observerRefs.ts and useQueryHandle.ts.
THEOREM HandleTypeCorrect == Q!Spec => []Q!TypeOK
<1>1. HandleConstants
  BY RuntimeAssumption
<1>2. HandleInv => Q!TypeOK
  <2> SUFFICES ASSUME HandleInv PROVE Q!TypeOK
    OBVIOUS
  <2>1. HandleTyped /\ Counted(handleTree, handleHeld, handleTimers)
    BY DEF HandleInv
  <2>2. DOMAIN handleHeld \subseteq Q!Ids
    BY <1>1, <2>1, StoresNumbered
  <2>3. \A o \in DOMAIN handleHeld : handleHeld[o] \in Nat
    <3>1. \A o : Holders(handleTree, o) \subseteq QueryComponents
      BY DEF Holders
    <3>2. \A o : Cardinality(Holders(handleTree, o)) \in Nat
      BY <1>1, <3>1, FS_Subset, FS_CardinalityType DEF HandleConstants
    <3> QED  BY <2>1, <3>2 DEF Counted
  <2> QED  BY <2>1, <2>2, <2>3 DEF HandleTyped, Q!TypeOK
<1> QED  BY <1>2, HandleInvHolds, PTL

\* The store of a committed component listens, its count is the number of its holders, and a
\* store that listens can still be torn down.
THEOREM HandlesKeptHolds == Q!Spec => []HandlesKept
<1>1. HandleInv => HandlesKept
  <2> SUFFICES ASSUME HandleInv PROVE HandlesKept
    OBVIOUS
  <2>1. /\ TreeSound(handleObservers, handleTree, DOMAIN handleHeld)
        /\ OwnersSound(Q!Range(handleUnits), handleObservers, DOMAIN handleHeld)
        /\ Counted(handleTree, handleHeld, handleTimers) /\ PhasesRight(handleTree)
    BY DEF HandleInv, HandleSound
  <2>2. Q!HeldAlive
    BY <2>1 DEF TreeSound, Shows, Heard, Q!HeldAlive
  <2>3. Q!CountsAreHolders
    <3>1. \A o : Holders(handleTree, o) = {c \in QueryComponents : handleTree[c].mounted /\ handleTree[c].observer = o}
      BY DEF Holders
    <3>2. \A x : Q!Cardinality(x) = Cardinality(x)
      BY DEF Cardinality, Q!Cardinality
    <3> QED  BY <2>1, <3>1, <3>2 DEF Counted, Q!CountsAreHolders
  <2>4. Q!NothingLeaks
    <3> SUFFICES ASSUME NEW o \in DOMAIN handleObservers, handleObservers[o].subscribed, ~handleObservers[o].dropped
                 PROVE  Q!InUse(o)
      BY DEF Q!NothingLeaks
    <3>1. CASE \E u \in Q!Range(handleUnits) : u.observer = o
      BY <3>1 DEF Q!InUse, Q!Range
    <3>2. CASE o \in DOMAIN handleHeld
      <4>1. CASE handleHeld[o] = 0
        BY <2>1, <3>2, <4>1 DEF Counted, Q!InUse
      <4>2. CASE handleHeld[o] # 0
        <5>1. Holders(handleTree, o) # {}
          BY <2>1, <3>2, <4>2, FS_EmptySet DEF Counted
        <5> QED  BY <2>1, <5>1 DEF Holders, PhasesRight, Q!InUse
      <4> QED  BY <4>1, <4>2
    <3> QED  BY <2>1, <3>1, <3>2 DEF OwnersSound
  <2> QED  BY <2>2, <2>3, <2>4 DEF HandlesKept
<1> QED  BY <1>1, HandleInvHolds, PTL

(***************************************************************************)
(* The handles of embedded fragments.                                      *)
(***************************************************************************)

EmbeddedState == [data : G!HandleVariables \cup {NoValue}, variables : G!HandleVariables \cup {NoValue}]
EmbeddedRequest == [key : G!Keys, variables : G!HandleVariables, call : Nat]

\* The cursors that lead back from a page.
Lead(n) == [i \in 1 .. n |-> i - 1]

\* The page that an observer shows, and the arguments.
PageOf(k) == IF embeddedObservers[k].data = NoValue THEN 0 ELSE embeddedObservers[k].data.page
SetOf(k) == IF embeddedObservers[k].data = NoValue THEN {} ELSE embeddedObservers[k].data.set

EmbeddedTypes ==
  /\ embeddedFramework \in {"react", "svelte"} /\ embeddedPaginated \in BOOLEAN
  /\ embeddedReference \in FragmentRecords /\ embeddedArgs \subseteq FragmentArguments
  /\ embeddedMoved \in BOOLEAN /\ embeddedUntold \in BOOLEAN /\ embeddedUpset \in BOOLEAN
  /\ embeddedObservers \in [G!Keys -> EmbeddedState] /\ embeddedStacks \in [G!Keys -> Seq(0 .. LastPage)]
  /\ embeddedOut \subseteq EmbeddedRequest /\ embeddedCalls \in Nat

\* An observer's data are those of its variables.
Paired == \A k \in G!Keys : embeddedObservers[k].data = embeddedObservers[k].variables

\* Where calls do not overlap, the request that is out is the reference's.
OneRequest ==
  ~embeddedUpset => \A q \in embeddedOut : q.key = G!Key(embeddedReference) /\ embeddedOut = {q}

\* In svelte an observer and its requests are of one record; in React, while the reference
\* stays, of that.
OwnRecord ==
  embeddedFramework = "svelte" =>
    /\ \A k \in FragmentRecords : embeddedObservers[k].data # NoValue => embeddedObservers[k].data.id = k
    /\ \A q \in embeddedOut : q.key \in FragmentRecords /\ q.variables.id = q.key

SameRecord ==
  embeddedFramework = "react" /\ ~embeddedMoved /\ ~embeddedUpset =>
    /\ embeddedObservers["component"].data # NoValue =>
         embeddedObservers["component"].data.id = embeddedReference
    /\ \A q \in embeddedOut : q.variables.id = embeddedReference

\* What was passed to refetch is shown, or will be by the request that is out.
ArgumentsKept ==
  ~embeddedPaginated /\ ~embeddedUpset /\ ~embeddedUntold =>
    /\ embeddedOut = {} => SetOf(G!Key(embeddedReference)) = embeddedArgs
    /\ \A q \in embeddedOut : q.variables.set = embeddedArgs

\* Each stack leads back from the page that its observer shows, or will show.
CursorsKept ==
  embeddedPaginated /\ ~embeddedUpset =>
    /\ \A k \in G!Keys : (\A q \in embeddedOut : q.key # k) => embeddedStacks[k] = Lead(PageOf(k))
    /\ \A q \in embeddedOut : embeddedStacks[q.key] = Lead(q.variables.page)

EmbeddedInv ==
  /\ EmbeddedTypes /\ Paired /\ OneRequest /\ OwnRecord /\ SameRecord
  /\ ArgumentsKept /\ CursorsKept

-----------------------------------------------------------------------------
LEMMA KeyIs ==
  ASSUME EmbeddedTypes
  PROVE  /\ \A r \in FragmentRecords : G!Key(r) \in G!Keys
         /\ embeddedFramework = "react" => \A r : G!Key(r) = "component"
         /\ embeddedFramework = "svelte" => \A r : G!Key(r) = r
BY DEF EmbeddedTypes, G!Key, G!Keys

LEMMA LeadIs ==
  ASSUME NEW n \in Nat
  PROVE  /\ Lead(n) \in Seq(Nat) /\ Len(Lead(n)) = n
         /\ Append(Lead(n), n) = Lead(n + 1)
         /\ n > 0 => /\ Lead(n) # <<>> /\ Lead(n)[Len(Lead(n))] = n - 1
                     /\ SubSeq(Lead(n), 1, Len(Lead(n)) - 1) = Lead(n - 1)
<1>1. \A m \in Nat : Lead(m) \in Seq(Nat) /\ Len(Lead(m)) = m /\ \A i \in 1 .. m : Lead(m)[i] = i - 1
  <2> TAKE m \in Nat
  <2>1. Lead(m) \in [1 .. m -> Nat]
    BY DEF Lead
  <2>2. Lead(m) \in Seq(Nat) /\ Len(Lead(m)) = m
    BY <2>1
  <2>3. \A i \in 1 .. m : Lead(m)[i] = i - 1
    BY DEF Lead
  <2> QED  BY <2>2, <2>3
<1>2. Append(Lead(n), n) = Lead(n + 1)
  <2> DEFINE p == Lead(n)  q == Append(p, n)  l == Lead(n + 1)
  <2>1. p \in Seq(Nat) /\ Len(p) = n /\ \A i \in 1 .. n : p[i] = i - 1
    BY <1>1
  <2>2. n + 1 \in Nat
    OBVIOUS
  <2>3. l \in Seq(Nat) /\ Len(l) = n + 1 /\ \A i \in 1 .. n + 1 : l[i] = i - 1
    BY <1>1, <2>2
  <2> HIDE DEF p, l
  <2>4. q \in Seq(Nat) /\ Len(q) = n + 1 /\ \A i \in 1 .. n + 1 : q[i] = i - 1
    BY <2>1
  <2> HIDE DEF q
  <2>5. \A i \in 1 .. Len(q) : q[i] = l[i]
    BY <2>3, <2>4
  <2>6. q = l
    BY <2>3, <2>4, <2>5, SeqEqual
  <2> QED  BY <2>6 DEF q, p, l
<1>3. ASSUME n > 0
      PROVE  /\ Lead(n) # <<>> /\ Lead(n)[Len(Lead(n))] = n - 1
             /\ SubSeq(Lead(n), 1, Len(Lead(n)) - 1) = Lead(n - 1)
  <2> DEFINE p == Lead(n)  q == SubSeq(p, 1, n - 1)  l == Lead(n - 1)
  <2>1. p \in Seq(Nat) /\ Len(p) = n /\ \A i \in 1 .. n : p[i] = i - 1
    BY <1>1
  <2>2. n - 1 \in Nat
    BY <1>3
  <2>3. l \in Seq(Nat) /\ Len(l) = n - 1 /\ \A i \in 1 .. n - 1 : l[i] = i - 1
    BY <1>1, <2>2
  <2> HIDE DEF p, l
  <2>4. q \in Seq(Nat) /\ Len(q) = n - 1 /\ \A i \in 1 .. n - 1 : q[i] = i - 1
    BY <2>1, <2>2, <1>3
  <2> HIDE DEF q
  <2>5. \A i \in 1 .. Len(q) : q[i] = l[i]
    BY <2>3, <2>4
  <2>6. q = l
    BY <2>3, <2>4, <2>5, SeqEqual
  <2>7. SubSeq(p, 1, Len(p) - 1) = l
    BY <2>1, <2>6 DEF q
  <2>8. p # <<>> /\ p[Len(p)] = n - 1
    BY <1>3, <2>1
  <2> QED  BY <2>7, <2>8 DEF p, l
<1> QED  BY <1>1, <1>2, <1>3

\* What the reference shows.
LEMMA ShownIs ==
  ASSUME EmbeddedInv, EmbeddedConstants
  PROVE  LET k == G!Key(embeddedReference)
         IN  /\ G!Shown \in G!HandleVariables /\ G!CurrentVariables = G!Shown
             /\ G!Shown.page = PageOf(k) /\ G!Shown.set = SetOf(k)
             /\ embeddedObservers[k].data = NoValue => G!Shown.id = embeddedReference
             /\ embeddedObservers[k].data # NoValue => G!Shown = embeddedObservers[k].data
<1> DEFINE k == G!Key(embeddedReference)
<1>1. k \in G!Keys /\ embeddedReference \in FragmentRecords
  BY KeyIs DEF EmbeddedInv, EmbeddedTypes
<1> HIDE DEF k
<1>2. embeddedObservers[k] \in EmbeddedState /\ embeddedObservers[k].data = embeddedObservers[k].variables
  BY <1>1 DEF EmbeddedInv, EmbeddedTypes, Paired
<1>3. /\ embeddedObservers[k].data \in G!HandleVariables \cup {NoValue}
      /\ embeddedObservers[k].variables = embeddedObservers[k].data
  BY <1>2 DEF EmbeddedState
<1>4. G!Initial(embeddedReference) \in G!HandleVariables
  BY <1>1 DEF G!Initial, G!HandleVariables, EmbeddedConstants
<1>5. /\ G!Initial(embeddedReference).page = 0 /\ G!Initial(embeddedReference).set = {}
      /\ G!Initial(embeddedReference).id = embeddedReference
  BY DEF G!Initial
<1>6. /\ G!Shown = IF embeddedObservers[k].data = NoValue THEN G!Initial(embeddedReference)
                   ELSE embeddedObservers[k].data
      /\ G!CurrentVariables = IF embeddedObservers[k].variables = NoValue THEN G!Initial(embeddedReference)
                              ELSE embeddedObservers[k].variables
  BY DEF G!Shown, G!CurrentVariables, G!Mine, k
<1>7. CASE embeddedObservers[k].data = NoValue
  BY <1>3, <1>4, <1>5, <1>6, <1>7 DEF PageOf, SetOf, k
<1>8. CASE embeddedObservers[k].data # NoValue
  BY <1>3, <1>6, <1>8 DEF PageOf, SetOf, k
<1> QED  BY <1>7, <1>8

\* Whose record that is.
LEMMA ShownOwn ==
  ASSUME EmbeddedInv, EmbeddedConstants,
         embeddedFramework = "svelte" \/ (~embeddedMoved /\ ~embeddedUpset)
  PROVE  G!Shown.id = embeddedReference
<1> DEFINE k == G!Key(embeddedReference)
<1>1. embeddedReference \in FragmentRecords /\ embeddedFramework \in {"react", "svelte"}
  BY DEF EmbeddedInv, EmbeddedTypes
<1>2. embeddedObservers[k].data # NoValue => embeddedObservers[k].data.id = embeddedReference
  <2>1. CASE embeddedFramework = "svelte"
    <3>1. k = embeddedReference
      BY <2>1, KeyIs DEF EmbeddedInv
    <3> HIDE DEF k
    <3> QED  BY <1>1, <2>1, <3>1 DEF EmbeddedInv, OwnRecord
  <2>2. CASE embeddedFramework = "react"
    <3>1. k = "component"
      BY <2>2, KeyIs DEF EmbeddedInv
    <3> HIDE DEF k
    <3> QED  BY <2>2, <3>1 DEF EmbeddedInv, SameRecord
  <2> QED  BY <1>1, <2>1, <2>2
<1> QED  BY <1>2, ShownIs

\* A request goes out.
LEMMA EmbeddedSend ==
  ASSUME EmbeddedInv, NEW v \in G!HandleVariables, G!Send(v),
         embeddedFramework = "svelte" \/ (~embeddedMoved /\ ~embeddedUpset) => v.id = embeddedReference
  PROVE  /\ embeddedOut' \subseteq EmbeddedRequest /\ embeddedCalls' \in Nat /\ embeddedUpset' \in BOOLEAN
         /\ Paired' /\ OneRequest' /\ OwnRecord' /\ SameRecord'
         /\ ~embeddedUpset' =>
              /\ ~embeddedUpset /\ embeddedOut = {} /\ embeddedOut' # {}
              /\ \A q \in embeddedOut' : q.key = G!Key(embeddedReference) /\ q.variables = v
<1> DEFINE k == G!Key(embeddedReference)
           p == [key |-> k, variables |-> v, call |-> embeddedCalls]
<1>1. /\ embeddedOut' = embeddedOut \cup {p} /\ embeddedUpset' = (embeddedUpset \/ embeddedOut # {})
      /\ embeddedCalls' = embeddedCalls + 1
      /\ UNCHANGED <<embeddedFramework, embeddedPaginated, embeddedReference, embeddedObservers, embeddedMoved>>
  BY DEF G!Send, G!fixed
<1>2. /\ k \in G!Keys /\ embeddedReference \in FragmentRecords /\ embeddedCalls \in Nat
      /\ embeddedOut \subseteq EmbeddedRequest /\ embeddedFramework \in {"react", "svelte"}
  BY KeyIs DEF EmbeddedInv, EmbeddedTypes
<1>3. embeddedFramework = "svelte" => k = embeddedReference
  BY KeyIs DEF EmbeddedInv
<1>4. G!Key(embeddedReference)' = k
  BY <1>1 DEF G!Key
<1> HIDE DEF k
<1>5. p \in EmbeddedRequest /\ p.key = k /\ p.variables = v
  BY <1>2 DEF EmbeddedRequest
<1> HIDE DEF p
<1>6. ~embeddedUpset' => ~embeddedUpset /\ embeddedOut = {} /\ embeddedOut' = {p}
  BY <1>1
<1>7. OneRequest'
  BY <1>4, <1>5, <1>6 DEF OneRequest
<1>8. OwnRecord'
  <2>1. OwnRecord
    BY DEF EmbeddedInv
  <2>2. embeddedFramework = "svelte" => p.key \in FragmentRecords /\ p.variables.id = p.key
    BY <1>2, <1>3, <1>5
  <2> QED  BY <1>1, <2>1, <2>2 DEF OwnRecord
<1>9. SameRecord'
  <2>1. SameRecord
    BY DEF EmbeddedInv
  <2> QED  BY <1>1, <1>5, <1>6, <2>1 DEF SameRecord
<1>10. Paired'
  BY <1>1 DEF EmbeddedInv, Paired, G!Keys
<1>11. embeddedUpset' \in BOOLEAN /\ embeddedCalls' \in Nat /\ embeddedOut' \subseteq EmbeddedRequest
  BY <1>1, <1>2, <1>5
<1> QED  BY <1>5, <1>6, <1>7, <1>8, <1>9, <1>10, <1>11 DEF k

LEMMA RefetchKeeps ==
  ASSUME EmbeddedInv, EmbeddedConstants, NEW a \in FragmentArguments, G!Refetch(a)
  PROVE  EmbeddedInv'
<1> DEFINE v == [G!CurrentVariables EXCEPT !.id = embeddedReference, !.set = @ \cup {a}]
<1>1. /\ ~embeddedPaginated /\ G!Send(v) /\ embeddedArgs' = embeddedArgs \cup {a}
      /\ UNCHANGED <<embeddedStacks, embeddedUntold>>
  BY DEF G!Refetch
<1>2. /\ G!Shown \in G!HandleVariables /\ G!CurrentVariables = G!Shown
      /\ G!Shown.set = SetOf(G!Key(embeddedReference))
  BY ShownIs
<1>3. embeddedReference \in FragmentRecords /\ embeddedArgs \subseteq FragmentArguments
  BY DEF EmbeddedInv, EmbeddedTypes
<1>4. /\ v \in G!HandleVariables /\ v.id = embeddedReference
      /\ v.set = SetOf(G!Key(embeddedReference)) \cup {a}
  BY <1>2, <1>3 DEF G!HandleVariables
<1> HIDE DEF v
<1>5. /\ UNCHANGED <<embeddedFramework, embeddedPaginated, embeddedReference, embeddedObservers, embeddedMoved>>
  BY <1>1 DEF G!Send, G!fixed
<1>6. /\ embeddedOut' \subseteq EmbeddedRequest /\ embeddedCalls' \in Nat /\ embeddedUpset' \in BOOLEAN
      /\ Paired' /\ OneRequest' /\ OwnRecord' /\ SameRecord'
      /\ ~embeddedUpset' =>
           /\ ~embeddedUpset /\ embeddedOut = {} /\ embeddedOut' # {}
           /\ \A q \in embeddedOut' : q.key = G!Key(embeddedReference) /\ q.variables = v
  BY <1>1, <1>4, EmbeddedSend
<1>7. EmbeddedTypes'
  BY <1>1, <1>3, <1>5, <1>6 DEF EmbeddedInv, EmbeddedTypes, G!Keys
<1>8. ArgumentsKept'
  <2> SUFFICES ASSUME ~embeddedUpset', ~embeddedUntold'
               PROVE  embeddedOut' # {} /\ \A q \in embeddedOut' : q.variables.set = embeddedArgs'
    BY DEF ArgumentsKept
  <2>1. SetOf(G!Key(embeddedReference)) = embeddedArgs
    BY <1>1, <1>6 DEF EmbeddedInv, ArgumentsKept
  <2> QED  BY <1>1, <1>4, <1>6, <2>1
<1>9. CursorsKept'
  BY <1>1, <1>5 DEF CursorsKept
<1> QED  BY <1>6, <1>7, <1>8, <1>9 DEF EmbeddedInv

\* A page is asked for, and the stack of the reference leads back from it.
LEMMA PageKeeps ==
  ASSUME EmbeddedInv, EmbeddedConstants, embeddedPaginated, NEW n \in 0 .. LastPage, G!Send(G!AtPage(n)),
         NEW s \in Seq(0 .. LastPage),
         embeddedStacks' = [embeddedStacks EXCEPT ![G!Key(embeddedReference)] = s],
         embeddedOut = {} /\ ~embeddedUpset => s = Lead(n),
         UNCHANGED <<embeddedArgs, embeddedUntold>>
  PROVE  EmbeddedInv'
<1> DEFINE v == G!AtPage(n)
           k == G!Key(embeddedReference)
<1>1. G!Shown \in G!HandleVariables /\ G!CurrentVariables = G!Shown
  BY ShownIs
<1>2. v = [G!CurrentVariables EXCEPT !.page = n]
  BY DEF G!AtPage
<1>3. v \in G!HandleVariables /\ v.id = G!Shown.id /\ v.page = n
  BY <1>1, <1>2 DEF G!HandleVariables
<1> HIDE DEF v
<1>4. embeddedFramework = "svelte" \/ (~embeddedMoved /\ ~embeddedUpset) => v.id = embeddedReference
  BY <1>3, ShownOwn
<1>5. G!Send(v)
  BY DEF v
<1>6. UNCHANGED <<embeddedFramework, embeddedPaginated, embeddedReference, embeddedObservers, embeddedMoved>>
  BY <1>5 DEF G!Send, G!fixed
<1>7. /\ embeddedOut' \subseteq EmbeddedRequest /\ embeddedCalls' \in Nat /\ embeddedUpset' \in BOOLEAN
      /\ Paired' /\ OneRequest' /\ OwnRecord' /\ SameRecord'
      /\ ~embeddedUpset' =>
           /\ ~embeddedUpset /\ embeddedOut = {} /\ embeddedOut' # {}
           /\ \A q \in embeddedOut' : q.key = k /\ q.variables = v
  BY <1>3, <1>4, <1>5, EmbeddedSend
<1>8. k \in G!Keys /\ embeddedStacks \in [G!Keys -> Seq(0 .. LastPage)]
  BY KeyIs DEF EmbeddedInv, EmbeddedTypes
<1> HIDE DEF k
<1>9. embeddedStacks' \in [G!Keys -> Seq(0 .. LastPage)] /\ embeddedStacks'[k] = s
      /\ \A j \in G!Keys \ {k} : embeddedStacks'[j] = embeddedStacks[j]
  BY <1>8 DEF k
<1>10. EmbeddedTypes'
  BY <1>6, <1>7, <1>9 DEF EmbeddedInv, EmbeddedTypes, G!Keys
<1>11. ArgumentsKept'
  BY <1>6 DEF ArgumentsKept
<1>12. CursorsKept'
  <2> SUFFICES ASSUME ~embeddedUpset'
               PROVE  /\ \A j \in G!Keys : (\A q \in embeddedOut' : q.key # j) =>
                                              embeddedStacks'[j] = Lead(PageOf(j)')
                      /\ \A q \in embeddedOut' : embeddedStacks'[q.key] = Lead(q.variables.page)
    BY DEF CursorsKept, G!Keys
  <2>1. \A j : PageOf(j)' = PageOf(j)
    BY <1>6 DEF PageOf
  <2>2. \A j \in G!Keys : embeddedStacks[j] = Lead(PageOf(j))
    BY <1>7 DEF EmbeddedInv, CursorsKept
  <2>3. \A q \in embeddedOut' : q.key = k /\ q.variables.page = n
    BY <1>3, <1>7
  <2>4. s = Lead(n) /\ \E q \in embeddedOut' : q.key = k
    BY <1>7
  <2> QED  BY <1>9, <2>1, <2>2, <2>3, <2>4
<1> QED  BY <1>7, <1>10, <1>11, <1>12 DEF EmbeddedInv

LEMMA NextPageKeeps ==
  ASSUME EmbeddedInv, EmbeddedConstants, G!NextPage
  PROVE  EmbeddedInv'
<1> DEFINE k == G!Key(embeddedReference)
           n == G!Shown.page
           s == Append(embeddedStacks[k], G!CurrentVariables.page)
<1>1. /\ embeddedPaginated /\ n < LastPage /\ G!Send(G!AtPage(n + 1))
      /\ embeddedStacks' = [embeddedStacks EXCEPT ![k] = s]
      /\ UNCHANGED <<embeddedArgs, embeddedUntold>>
  BY DEF G!NextPage
<1>2. n \in 0 .. LastPage /\ G!CurrentVariables.page = n /\ n = PageOf(k)
  BY ShownIs DEF G!HandleVariables
<1>3. k \in G!Keys /\ embeddedStacks[k] \in Seq(0 .. LastPage)
  BY KeyIs DEF EmbeddedInv, EmbeddedTypes
<1> HIDE DEF k, n
<1>4. LastPage \in Nat /\ n \in Nat /\ n + 1 \in 0 .. LastPage
  BY <1>1, <1>2 DEF EmbeddedConstants
<1>5. s \in Seq(0 .. LastPage)
  BY <1>2, <1>3, <1>4
<1>6. ASSUME embeddedOut = {}, ~embeddedUpset PROVE s = Lead(n + 1)
  <2>1. embeddedStacks[k] = Lead(n)
    BY <1>1, <1>2, <1>3, <1>6 DEF EmbeddedInv, CursorsKept
  <2> QED  BY <1>2, <1>4, <2>1, LeadIs
<1> HIDE DEF s
<1>7. embeddedStacks' = [embeddedStacks EXCEPT ![G!Key(embeddedReference)] = s]
  BY <1>1 DEF k
<1> QED  BY <1>1, <1>4, <1>5, <1>6, <1>7, PageKeeps

LEMMA FrontIs ==
  ASSUME NEW Elem, NEW q \in Seq(Elem), q # <<>>
  PROVE  q[Len(q)] \in Elem /\ SubSeq(q, 1, Len(q) - 1) \in Seq(Elem)
<1>1. Len(q) \in Nat \ {0}
  OBVIOUS
<1> QED  BY <1>1

LEMMA PreviousPageKeeps ==
  ASSUME EmbeddedInv, EmbeddedConstants, G!PreviousPage
  PROVE  EmbeddedInv'
<1> DEFINE k == G!Key(embeddedReference)
           stack == embeddedStacks[k]
           n == stack[Len(stack)]
           s == SubSeq(stack, 1, Len(stack) - 1)
<1>1. /\ embeddedPaginated /\ stack # <<>> /\ G!Send(G!AtPage(n))
      /\ embeddedStacks' = [embeddedStacks EXCEPT ![k] = s]
      /\ UNCHANGED <<embeddedArgs, embeddedUntold>>
  BY DEF G!PreviousPage
<1>2. k \in G!Keys /\ stack \in Seq(0 .. LastPage) /\ PageOf(k) \in Nat
  <2>1. k \in G!Keys /\ stack \in Seq(0 .. LastPage)
    BY KeyIs DEF EmbeddedInv, EmbeddedTypes
  <2>2. G!Shown.page = PageOf(k) /\ G!Shown.page \in 0 .. LastPage
    BY ShownIs DEF G!HandleVariables
  <2> QED  BY <2>1, <2>2
<1> HIDE DEF stack
<1>3. n \in 0 .. LastPage /\ s \in Seq(0 .. LastPage)
  <2>1. stack # <<>> /\ stack \in Seq(0 .. LastPage)
    BY <1>1, <1>2
  <2> QED  BY <2>1, FrontIs
<1>4. ASSUME embeddedOut = {}, ~embeddedUpset PROVE s = Lead(n)
  <2> DEFINE m == PageOf(k)
  <2>1. m \in Nat /\ stack = Lead(m)
    BY <1>1, <1>2, <1>4 DEF EmbeddedInv, CursorsKept, stack
  <2> HIDE DEF m
  <2>2. Lead(0) = <<>>
    BY DEF Lead
  <2>3. m > 0
    BY <1>1, <2>1, <2>2
  <2>4. n = m - 1 /\ s = Lead(m - 1)
    BY <2>1, <2>3, LeadIs
  <2> QED  BY <2>4
<1> HIDE DEF s, n
<1>5. embeddedStacks' = [embeddedStacks EXCEPT ![G!Key(embeddedReference)] = s]
  BY <1>1 DEF k
<1> QED  BY <1>1, <1>3, <1>4, <1>5, PageKeeps

LEMMA EmbeddedAnswerKeeps ==
  ASSUME EmbeddedInv, EmbeddedConstants, NEW q, G!Answer(q)
  PROVE  EmbeddedInv'
<1> DEFINE d == [data |-> q.variables, variables |-> q.variables]
<1>1. /\ q \in embeddedOut /\ embeddedOut' = embeddedOut \ {q}
      /\ embeddedObservers' = [embeddedObservers EXCEPT ![q.key] = d]
      /\ embeddedMoved' = (embeddedMoved /\ q.variables.id # embeddedReference)
      /\ UNCHANGED <<embeddedFramework, embeddedPaginated, embeddedReference, embeddedStacks, embeddedArgs,
                     embeddedUntold, embeddedUpset, embeddedCalls>>
  BY DEF G!Answer, G!fixed
<1>2. /\ q.key \in G!Keys /\ q.variables \in G!HandleVariables /\ EmbeddedTypes
      /\ embeddedReference \in FragmentRecords /\ embeddedFramework \in {"react", "svelte"}
  BY <1>1 DEF EmbeddedInv, EmbeddedTypes, EmbeddedRequest
<1>3. d \in EmbeddedState /\ d.data = q.variables /\ d.variables = q.variables
  BY <1>2 DEF EmbeddedState
<1> HIDE DEF d
<1>4. /\ embeddedObservers' \in [G!Keys -> EmbeddedState] /\ embeddedObservers'[q.key] = d
      /\ \A k \in G!Keys \ {q.key} : embeddedObservers'[k] = embeddedObservers[k]
  BY <1>1, <1>2, <1>3 DEF EmbeddedTypes
<1>5. EmbeddedTypes'
  BY <1>1, <1>2, <1>4 DEF EmbeddedTypes, G!Keys
<1>6. Paired'
  BY <1>3, <1>4 DEF EmbeddedInv, Paired, G!Keys
<1>7. G!Key(embeddedReference)' = G!Key(embeddedReference)
  BY <1>1 DEF G!Key
<1>8. OneRequest' /\ (~embeddedUpset => embeddedOut' = {} /\ q.key = G!Key(embeddedReference))
  BY <1>1, <1>7 DEF EmbeddedInv, OneRequest
<1>9. OwnRecord'
  <2>1. OwnRecord
    BY DEF EmbeddedInv
  <2>2. FragmentRecords \subseteq G!Keys
    BY DEF G!Keys
  <2> QED  BY <1>1, <1>2, <1>3, <1>4, <2>1, <2>2 DEF OwnRecord
<1>10. SameRecord'
  <2> SUFFICES ASSUME embeddedFramework = "react", ~embeddedMoved', ~embeddedUpset
               PROVE  /\ embeddedObservers'["component"].data # NoValue =>
                           embeddedObservers'["component"].data.id = embeddedReference
                      /\ \A p \in embeddedOut' : p.variables.id = embeddedReference
    BY <1>1 DEF SameRecord
  <2>1. q.key = "component" /\ embeddedOut' = {}
    BY <1>2, <1>8, KeyIs
  <2>2. q.variables.id = embeddedReference
    <3>1. CASE embeddedMoved
      BY <1>1, <3>1
    <3>2. CASE ~embeddedMoved
      BY <1>1, <3>2 DEF EmbeddedInv, SameRecord
    <3> QED  BY <3>1, <3>2
  <2> QED  BY <1>3, <1>4, <2>1, <2>2
<1>11. q.variables # NoValue
  BY <1>2 DEF EmbeddedConstants, G!HandleVariables
<1>12. \A k \in G!Keys \ {q.key} : PageOf(k)' = PageOf(k) /\ SetOf(k)' = SetOf(k)
  BY <1>4 DEF PageOf, SetOf
<1>13. PageOf(q.key)' = q.variables.page /\ SetOf(q.key)' = q.variables.set
  BY <1>3, <1>4, <1>11 DEF PageOf, SetOf
<1>14. ArgumentsKept'
  <2> SUFFICES ASSUME ~embeddedPaginated, ~embeddedUpset, ~embeddedUntold
               PROVE  embeddedOut' = {} /\ SetOf(G!Key(embeddedReference))' = embeddedArgs
    BY <1>1 DEF ArgumentsKept
  <2>1. q.variables.set = embeddedArgs
    BY <1>1 DEF EmbeddedInv, ArgumentsKept
  <2>2. SetOf(q.key)' = SetOf(G!Key(embeddedReference))'
    BY <1>1, <1>8 DEF SetOf, G!Key
  <2> QED  BY <1>8, <1>13, <2>1, <2>2
<1>15. CursorsKept'
  <2> SUFFICES ASSUME embeddedPaginated, ~embeddedUpset
               PROVE  \A k \in G!Keys : embeddedStacks[k] = Lead(PageOf(k)')
    BY <1>1, <1>8 DEF CursorsKept, G!Keys
  <2>1. embeddedStacks[q.key] = Lead(q.variables.page)
    BY <1>1 DEF EmbeddedInv, CursorsKept
  <2>2. ASSUME NEW k \in G!Keys \ {q.key} PROVE embeddedStacks[k] = Lead(PageOf(k))
    <3>1. embeddedOut = {q}
      BY <1>1 DEF EmbeddedInv, OneRequest
    <3> QED  BY <3>1 DEF EmbeddedInv, CursorsKept
  <2> QED  BY <1>12, <1>13, <2>1, <2>2
<1> QED  BY <1>5, <1>6, <1>8, <1>9, <1>10, <1>14, <1>15 DEF EmbeddedInv

LEMMA FailureKeeps ==
  ASSUME EmbeddedInv, NEW q, G!Failure(q)
  PROVE  EmbeddedInv'
<1>1. /\ embeddedUpset' = TRUE /\ embeddedOut' = embeddedOut \ {q}
      /\ UNCHANGED <<embeddedFramework, embeddedPaginated, embeddedReference, embeddedObservers, embeddedStacks,
                     embeddedArgs, embeddedMoved, embeddedUntold, embeddedCalls>>
  BY DEF G!Failure, G!fixed
<1>2. EmbeddedTypes'
  BY <1>1 DEF EmbeddedInv, EmbeddedTypes, G!Keys
<1>3. Paired' /\ OneRequest' /\ SameRecord' /\ ArgumentsKept' /\ CursorsKept'
  BY <1>1 DEF EmbeddedInv, Paired, G!Keys, OneRequest, SameRecord, ArgumentsKept, CursorsKept
<1>4. OwnRecord'
  BY <1>1 DEF EmbeddedInv, OwnRecord
<1> QED  BY <1>2, <1>3, <1>4 DEF EmbeddedInv

LEMMA MoveKeeps ==
  ASSUME EmbeddedInv, NEW r \in FragmentRecords, G!Move(r)
  PROVE  EmbeddedInv'
<1>1. /\ embeddedReference' = r
      /\ embeddedUpset' = (embeddedUpset \/ (r # embeddedReference /\ embeddedOut # {}))
      /\ UNCHANGED <<embeddedFramework, embeddedPaginated, embeddedObservers, embeddedStacks, embeddedOut,
                     embeddedCalls>>
  BY DEF G!Move, G!fixed
<1>2. /\ EmbeddedTypes /\ embeddedFramework \in {"react", "svelte"}
      /\ embeddedMoved \in BOOLEAN /\ embeddedUntold \in BOOLEAN /\ embeddedUpset \in BOOLEAN
  BY DEF EmbeddedInv, EmbeddedTypes
<1>3. CASE embeddedFramework = "react"
  <2>1. /\ embeddedMoved' = (embeddedMoved \/ (r # embeddedReference /\ embeddedObservers["component"].data # NoValue))
        /\ UNCHANGED <<embeddedArgs, embeddedUntold>>
    BY <1>3 DEF G!Move, G!Mine, G!Key
  <2>2. \A s : G!Key(s) = "component" /\ G!Key(s)' = "component"
    BY <1>1, <1>3 DEF G!Key
  <2>3. EmbeddedTypes'
    BY <1>1, <1>2, <2>1 DEF EmbeddedTypes, G!Keys
  <2>4. Paired' /\ OwnRecord'
    BY <1>1, <1>3 DEF EmbeddedInv, Paired, G!Keys, OwnRecord
  <2>5. OneRequest'
    BY <1>1, <2>2 DEF EmbeddedInv, OneRequest
  <2>6. SameRecord'
    <3> SUFFICES ASSUME ~embeddedMoved', ~embeddedUpset'
                 PROVE  /\ embeddedObservers["component"].data # NoValue =>
                             embeddedObservers["component"].data.id = r
                        /\ \A q \in embeddedOut : q.variables.id = r
      BY <1>1 DEF SameRecord
    <3>1. /\ ~embeddedMoved /\ ~embeddedUpset
          /\ r = embeddedReference \/ (embeddedObservers["component"].data = NoValue /\ embeddedOut = {})
      BY <1>1, <2>1
    <3> QED  BY <1>3, <3>1 DEF EmbeddedInv, SameRecord
  <2>7. ArgumentsKept'
    <3>1. \A s : SetOf(G!Key(s))' = SetOf(G!Key(s))
      BY <1>1, <2>2 DEF SetOf
    <3>2. SetOf(G!Key(embeddedReference))' = SetOf(G!Key(embeddedReference))
      BY <1>1, <2>2 DEF SetOf
    <3> QED  BY <1>1, <2>1, <3>2 DEF EmbeddedInv, ArgumentsKept
  <2>8. CursorsKept'
    <3>1. \A k : PageOf(k)' = PageOf(k)
      BY <1>1 DEF PageOf
    <3> QED  BY <1>1, <3>1 DEF EmbeddedInv, CursorsKept, G!Keys
  <2> QED  BY <2>3, <2>4, <2>5, <2>6, <2>7, <2>8 DEF EmbeddedInv
<1>4. CASE embeddedFramework = "svelte"
  <2>1. /\ embeddedArgs' = {} /\ UNCHANGED embeddedMoved
        /\ embeddedUntold' = (embeddedObservers[r].data # NoValue \/ \E q \in embeddedOut : q.key = r)
    BY <1>4 DEF G!Move
  <2>2. \A s : G!Key(s) = s /\ G!Key(s)' = s
    BY <1>1, <1>4 DEF G!Key
  <2>3. EmbeddedTypes'
    BY <1>1, <1>2, <2>1 DEF EmbeddedTypes, G!Keys
  <2>4. Paired' /\ OwnRecord' /\ SameRecord'
    BY <1>1, <1>4 DEF EmbeddedInv, Paired, G!Keys, OwnRecord, SameRecord
  <2>5. OneRequest'
    <3>1. OneRequest
      BY DEF EmbeddedInv
    <3>2. G!Key(embeddedReference)' = r /\ G!Key(embeddedReference) = embeddedReference
      BY <1>1, <1>4 DEF G!Key
    <3> QED  BY <1>1, <3>1, <3>2 DEF OneRequest
  <2>6. ArgumentsKept'
    <3> SUFFICES ASSUME ~embeddedUpset', ~embeddedUntold'
                 PROVE  /\ SetOf(r)' = {}
                        /\ embeddedOut = {}
      <4>1. G!Key(embeddedReference)' = r
        BY <1>1, <1>4 DEF G!Key
      <4>2. SetOf(G!Key(embeddedReference))' = SetOf(r)'
        BY <1>1, <4>1 DEF SetOf
      <4> QED  BY <1>1, <2>1, <4>2 DEF ArgumentsKept
    <3>1. embeddedObservers[r].data = NoValue /\ \A q \in embeddedOut : q.key # r
      BY <2>1
    <3>2. SetOf(r)' = {}
      BY <1>1, <3>1 DEF SetOf
    <3>3. ~embeddedUpset /\ (r = embeddedReference \/ embeddedOut = {})
      BY <1>1
    <3>4. \A q \in embeddedOut : q.key = embeddedReference
      BY <2>2, <3>3 DEF EmbeddedInv, OneRequest
    <3> QED  BY <3>1, <3>2, <3>3, <3>4
  <2>7. CursorsKept'
    <3>1. \A k : PageOf(k)' = PageOf(k)
      BY <1>1 DEF PageOf
    <3> QED  BY <1>1, <3>1 DEF EmbeddedInv, CursorsKept, G!Keys
  <2> QED  BY <2>3, <2>4, <2>5, <2>6, <2>7 DEF EmbeddedInv
<1> QED  BY <1>2, <1>3, <1>4

LEMMA EmbeddedInit == EmbeddedConstants /\ G!Init => EmbeddedInv
<1> SUFFICES ASSUME EmbeddedConstants, G!Init
             PROVE  EmbeddedInv
  OBVIOUS
<1>1. /\ embeddedFramework \in {"react", "svelte"} /\ embeddedPaginated \in BOOLEAN
      /\ embeddedReference \in FragmentRecords
      /\ embeddedObservers = [k \in G!Keys |-> G!Fresh] /\ embeddedStacks = [k \in G!Keys |-> <<>>]
      /\ embeddedArgs = {} /\ embeddedOut = {}
      /\ embeddedMoved = FALSE /\ embeddedUntold = FALSE /\ embeddedUpset = FALSE /\ embeddedCalls = 0
  BY DEF G!Init
<1>2. G!Fresh \in EmbeddedState /\ G!Fresh.data = NoValue /\ G!Fresh.variables = NoValue
  BY DEF G!Fresh, EmbeddedState
<1>3. \A k \in G!Keys : embeddedObservers[k] = G!Fresh /\ embeddedStacks[k] = <<>>
  BY <1>1
<1>4. EmbeddedTypes
  <2>1. embeddedObservers \in [G!Keys -> EmbeddedState]
    <3>1. \A k \in G!Keys : embeddedObservers[k] \in EmbeddedState
      BY <1>2, <1>3
    <3>2. embeddedObservers = [k \in G!Keys |-> embeddedObservers[k]]
      BY <1>1
    <3> QED  BY <3>1, <3>2
  <2>2. embeddedStacks \in [G!Keys -> Seq(0 .. LastPage)]
    BY <1>1
  <2> QED  BY <1>1, <2>1, <2>2 DEF EmbeddedTypes
<1>5. Paired /\ OwnRecord /\ SameRecord
  <2>1. FragmentRecords \subseteq G!Keys /\ "component" \in G!Keys
    BY DEF G!Keys
  <2> QED  BY <1>1, <1>2, <1>3, <2>1 DEF Paired, OwnRecord, SameRecord
<1>6. OneRequest
  BY <1>1 DEF OneRequest
<1>7. \A k \in G!Keys : PageOf(k) = 0 /\ SetOf(k) = {}
  BY <1>2, <1>3 DEF PageOf, SetOf
<1>8. ArgumentsKept
  BY <1>1, <1>4, <1>7, KeyIs DEF ArgumentsKept
<1>9. Lead(0) = <<>>
  BY DEF Lead
<1>10. CursorsKept
  BY <1>1, <1>3, <1>7, <1>9 DEF CursorsKept
<1> QED  BY <1>4, <1>5, <1>6, <1>8, <1>10 DEF EmbeddedInv

(* FragmentHandles: in svelte an observer is of one record, in React of that of the reference until it   *)
(* changes; each stack leads back from the page that is shown or under way, and the arguments passed to   *)
(* refetch are those shown or under way.                                                                  *)
THEOREM EmbeddedInvHolds == G!Spec => []EmbeddedInv
<1>1. EmbeddedConstants
  BY RuntimeAssumption
<1>2. G!Init => EmbeddedInv
  BY <1>1, EmbeddedInit
<1>3. EmbeddedInv /\ [G!Next]_(G!vars) => EmbeddedInv'
  <2> SUFFICES ASSUME EmbeddedInv, [G!Next]_(G!vars) PROVE EmbeddedInv'
    OBVIOUS
  <2>1. ASSUME NEW a \in FragmentArguments, G!Refetch(a) PROVE EmbeddedInv'
    BY <1>1, <2>1, RefetchKeeps
  <2>2. CASE G!NextPage \/ G!PreviousPage
    BY <1>1, <2>2, NextPageKeeps, PreviousPageKeeps
  <2>3. ASSUME NEW q \in embeddedOut, G!Answer(q) \/ G!Failure(q) PROVE EmbeddedInv'
    BY <1>1, <2>3, EmbeddedAnswerKeeps, FailureKeeps
  <2>4. ASSUME NEW r \in FragmentRecords, G!Move(r) PROVE EmbeddedInv'
    BY <2>4, MoveKeeps
  <2>5. CASE UNCHANGED G!vars
    BY <2>5 DEF G!vars, G!fixed, G!history, EmbeddedInv, EmbeddedTypes, Paired, OneRequest, OwnRecord, SameRecord,
                ArgumentsKept, CursorsKept, PageOf, SetOf, G!Key, G!Keys
  <2> QED  BY <2>1, <2>2, <2>3, <2>4, <2>5 DEF G!Next
<1> QED  BY <1>2, <1>3, PTL DEF G!Spec

(* The types of the handle, its observers and its requests.                                               *)
THEOREM EmbeddedTypeCorrect == G!Spec => []G!TypeOK
<1>1. EmbeddedInv => G!TypeOK
  BY DEF EmbeddedInv, EmbeddedTypes, EmbeddedState, G!TypeOK
<1> QED  BY <1>1, EmbeddedInvHolds, PTL

LEMMA EmbeddedFollows ==
  ASSUME EmbeddedInv, EmbeddedConstants
  PROVE  G!ShowsItsRecord /\ G!ArgumentsTold /\ G!LeadsBack
<1>1. embeddedFramework \in {"react", "svelte"} /\ embeddedReference \in FragmentRecords
  BY DEF EmbeddedInv, EmbeddedTypes
<1>2. G!ShowsItsRecord
  BY <1>1, ShownOwn DEF G!ShowsItsRecord
<1>3. G!ArgumentsTold
  BY ShownIs DEF G!ArgumentsTold, EmbeddedInv, ArgumentsKept
<1>4. G!LeadsBack
  <2>1. G!Key(embeddedReference) \in G!Keys /\ G!Shown.page = PageOf(G!Key(embeddedReference))
    BY <1>1, KeyIs, ShownIs DEF EmbeddedInv
  <2> QED  BY <2>1 DEF G!LeadsBack, EmbeddedInv, CursorsKept, Lead
<1> QED  BY <1>2, <1>3, <1>4

(***************************************************************************)
(* A component that reads a fragment.                                      *)
(***************************************************************************)

Spread == fragmentPhase \in {"mounting", "rendered"}
Enabled(ref) == ref \in F!References /\ ~F!Disabled(ref)

\* The reference that was committed, and that of the render under way.
Committed == fragmentMemo.reference
Rendered == fragmentWork.reference

FragmentReads == [reference : F!References, initial : [record : FragmentRecords \cup {NoValue}, version : Nat],
                  renewed : BOOLEAN]

FragmentTypes ==
  /\ fragmentPlural \in BOOLEAN /\ fragmentContent \in [FragmentRecords -> Nat]
  /\ fragmentPhase \in {"absent", "mounting", "rendered", "idle", "gone"}
  /\ fragmentStray \subseteq {"seed", "deps"}
  /\ fragmentMemo \in FragmentReads /\ fragmentWork \in FragmentReads
  /\ fragmentPlugin \in [spec : FragmentRecords \cup {NoValue}, last : FragmentRecords \cup {NoValue}]
  /\ fragmentEarly \subseteq FragmentRecords /\ fragmentSent \in BOOLEAN /\ fragmentResent \in BOOLEAN
  /\ fragmentWrites \in Nat

\* Nothing is committed before the effects, nor subscribed by what has no reference.
Mounts == fragmentPhase \in {"absent", "mounting"} => fragmentMemo = F!Unread
Unsubscribed ==
  /\ fragmentPlural \/ F!Disabled(Committed) => fragmentPlugin.spec = NoValue
  /\ fragmentPlugin.spec \in {NoValue, Committed.record}

\* What is committed was sent, and subscribed unless it had been before.
Subscribed ==
  ~fragmentPlural /\ fragmentPhase # "gone" /\ Enabled(Committed) =>
    /\ fragmentPlugin.last = Committed.record /\ fragmentSent
    /\ ~fragmentResent => fragmentPlugin.spec = Committed.record

\* Only a render that had other dependencies leaves something behind, and the next has them too.
Strays ==
  /\ fragmentStray # {} => "deps" \in fragmentStray
  /\ ~fragmentPlural /\ fragmentPhase = "rendered" /\ fragmentStray # {} => fragmentWork.renewed

\* A render with the committed reference keeps what was read for it.
Remembers ==
  ~fragmentPlural /\ fragmentPhase = "rendered" /\ Rendered = Committed => fragmentWork.initial = fragmentMemo.initial

\* What a render read anew is what the cache has, but for what was written since.
Reads ==
  ~fragmentPlural /\ Spread /\ Enabled(Rendered) /\ Rendered # Committed =>
    Rendered.record \in fragmentEarly \/ fragmentWork.initial = F!Read(Rendered)

\* What is shown of the committed record is, but for that.
ShowsSelected ==
  ~fragmentPlural /\ Enabled(Committed) /\ ~fragmentResent /\ fragmentStray = {}
    /\ (fragmentPhase = "idle" \/ (fragmentPhase = "rendered" /\ Rendered = Committed /\ ~fragmentWork.renewed))
  => Committed.record \in fragmentEarly \/ fragmentBox = F!Read(Committed)

\* A list is shown, and subscribed to after its effects.
ListOf(list) == list \in Seq(FragmentRecords)

DataShape ==
  /\ fragmentData = [references |-> fragmentData.references, list |-> fragmentData.list,
                      seeded |-> fragmentData.seeded, specs |-> fragmentData.specs]
  /\ ~fragmentPlural => fragmentData.specs = <<>>

ListShown ==
  fragmentPlural /\ fragmentPhase # "absent" =>
    /\ ListOf(fragmentData.references) /\ ListOf(fragmentData.seeded) /\ ListOf(fragmentData.specs)
    /\ fragmentData.list = [i \in DOMAIN fragmentData.seeded |-> fragmentData.list[i]]
    /\ fragmentPhase \in {"mounting", "idle"} => fragmentData.seeded = fragmentData.references
    /\ fragmentPhase \in {"rendered", "idle"} => fragmentData.specs = fragmentData.seeded
    /\ fragmentPhase = "mounting" => fragmentData.specs = <<>>
    /\ fragmentPhase # "gone" =>
         \A i \in DOMAIN fragmentData.seeded :
           \/ fragmentData.seeded[i] \in fragmentEarly
           \/ fragmentData.list[i] = F!Value(fragmentData.seeded[i], fragmentContent[fragmentData.seeded[i]])

FragmentInv ==
  /\ FragmentTypes /\ Mounts /\ Unsubscribed /\ Subscribed /\ Strays /\ Remembers /\ Reads /\ ShowsSelected
  /\ DataShape /\ ListShown
-----------------------------------------------------------------------------
LEMMA ReadIs ==
  ASSUME FragmentConstants, fragmentContent \in [FragmentRecords -> Nat], NEW ref \in F!References
  PROVE  /\ F!Read(ref) \in [record : FragmentRecords \cup {NoValue}, version : Nat]
         /\ Enabled(ref) => /\ ref.record \in FragmentRecords /\ ~ref.loading
                            /\ F!Read(ref) = F!Value(ref.record, fragmentContent[ref.record])
                            /\ F!Read(ref) # F!Null
<1>1. ref.record \in FragmentRecords \cup {NoValue} /\ ref.loading \in BOOLEAN
  BY DEF F!References
<1>2. F!Read(ref) \in [record : FragmentRecords \cup {NoValue}, version : Nat]
  BY <1>1 DEF F!Read, F!Null, F!Value
<1>3. ASSUME Enabled(ref)
      PROVE  /\ ref.record \in FragmentRecords /\ ~ref.loading
             /\ F!Read(ref) = F!Value(ref.record, fragmentContent[ref.record]) /\ F!Read(ref) # F!Null
  <2>1. ref.record \in FragmentRecords /\ ~ref.loading /\ ref.record # NoValue
    BY <1>1, <1>3 DEF Enabled, F!Disabled
  <2>2. F!Read(ref) = F!Value(ref.record, fragmentContent[ref.record])
    BY <2>1 DEF F!Read
  <2>3. F!Read(ref).record = ref.record /\ F!Null.record = NoValue
    BY <2>2 DEF F!Value, F!Null
  <2>4. F!Read(ref) # F!Null
    BY <2>1, <2>3
  <2> QED  BY <2>1, <2>2, <2>4
<1> QED  BY <1>2, <1>3

\* References that are enabled are told apart by their records.
LEMMA SameReference ==
  ASSUME NEW ref, NEW other, Enabled(ref), Enabled(other), ref.record = other.record
  PROVE  ref = other
BY DEF Enabled, F!Disabled, F!References

LEMMA UnreadIs ==
  F!Unread \in FragmentReads /\ F!Disabled(F!Unread.reference) /\ F!Unread.reference.record = NoValue /\ ~F!Unread.renewed
BY DEF F!Unread, F!Disabled, F!References, F!Null, F!Value, FragmentReads

LEMMA RenderKeeps ==
  ASSUME FragmentInv, FragmentConstants, NEW ref \in F!References, NEW session \in BOOLEAN, F!Render(ref, session)
  PROVE  FragmentInv'
<1> DEFINE again == fragmentPhase = "idle" /\ ref = Committed
           initial == IF again THEN fragmentMemo.initial ELSE F!Read(ref)
           w == [reference |-> ref, initial |-> initial, renewed |-> session \/ "deps" \in fragmentStray]
<1>1. /\ ~fragmentPlural /\ fragmentPhase \in {"absent", "idle"} /\ fragmentWork' = w
      /\ fragmentBox' = IF initial # F!Null /\ (~again \/ "seed" \in fragmentStray) THEN initial ELSE fragmentBox
      /\ fragmentEarly' = IF again THEN fragmentEarly ELSE {}
      /\ fragmentPhase' = IF fragmentPhase = "absent" THEN "mounting" ELSE "rendered"
      /\ UNCHANGED <<fragmentPlural, fragmentContent, fragmentMemo, fragmentStray, fragmentPlugin, fragmentSent,
                     fragmentData, fragmentResent, fragmentWrites>>
  BY DEF F!Render, Committed
<1>2. /\ FragmentTypes /\ Mounts /\ fragmentContent \in [FragmentRecords -> Nat] /\ fragmentMemo \in FragmentReads
      /\ fragmentEarly \subseteq FragmentRecords
  BY DEF FragmentInv, FragmentTypes
<1>3. initial \in [record : FragmentRecords \cup {NoValue}, version : Nat] /\ (~again => initial = F!Read(ref))
  BY <1>2, ReadIs DEF FragmentReads
<1>4. again => initial = fragmentMemo.initial
  OBVIOUS
<1>5. again \in BOOLEAN /\ (fragmentPhase = "idle" /\ ref = Committed => again) /\ (again => ref = Committed)
  OBVIOUS
<1> HIDE DEF initial, again
<1>6. /\ w \in FragmentReads /\ w.reference = ref /\ w.initial = initial
      /\ w.renewed = (session \/ "deps" \in fragmentStray)
  BY <1>3 DEF FragmentReads
<1> HIDE DEF w
<1>7. Rendered' = ref /\ Committed' = Committed
  BY <1>1, <1>6 DEF Rendered, Committed
<1>8. FragmentTypes'
  BY <1>1, <1>2, <1>6 DEF FragmentTypes
<1>9. Mounts'
  BY <1>1, <1>2 DEF Mounts
<1>10. Unsubscribed' /\ Subscribed'
  BY <1>1, <1>7 DEF FragmentInv, Unsubscribed, Subscribed, Enabled, F!Disabled, F!References
<1>11. Strays'
  BY <1>1, <1>6 DEF FragmentInv, Strays
<1>12. Remembers'
  <2> SUFFICES ASSUME fragmentPhase' = "rendered", Rendered' = Committed'
               PROVE  fragmentWork'.initial = fragmentMemo.initial
    BY <1>1 DEF Remembers
  <2>1. again
    BY <1>1, <1>5, <1>7
  <2> QED  BY <1>1, <1>4, <1>6, <2>1
<1>13. Reads'
  <2> SUFFICES ASSUME ref # Committed
               PROVE  fragmentWork'.initial = F!Read(ref)'
    BY <1>7 DEF Reads, Rendered, Committed
  <2>1. F!Read(ref)' = F!Read(ref)
    BY <1>1 DEF F!Read
  <2> QED  BY <1>1, <1>3, <1>5, <1>6, <2>1
<1>14. ShowsSelected'
  <2> SUFFICES ASSUME Enabled(Committed), ~fragmentResent, fragmentStray = {}, fragmentPhase' = "rendered",
                      ref = Committed
               PROVE  Committed.record \in fragmentEarly' \/ fragmentBox' = F!Read(Committed)
    <3>1. F!Read(Committed)' = F!Read(Committed)
      BY <1>1, <1>7 DEF F!Read
    <3>2. Enabled(Committed)' = Enabled(Committed)
      BY <1>7 DEF Enabled, F!References, F!Disabled
    <3>3. fragmentPhase' # "idle"
      BY <1>1
    <3> QED  BY <1>1, <1>7, <3>1, <3>2, <3>3 DEF ShowsSelected
  <2>1. fragmentPhase = "idle" /\ again
    BY <1>1, <1>5
  <2>2. fragmentBox' = fragmentBox /\ fragmentEarly' = fragmentEarly
    BY <1>1, <2>1
  <2> QED  BY <1>1, <2>1, <2>2 DEF FragmentInv, ShowsSelected
<1>15. DataShape' /\ ListShown'
  BY <1>1 DEF FragmentInv, DataShape, ListShown
<1> QED  BY <1>8, <1>9, <1>10, <1>11, <1>12, <1>13, <1>14, <1>15 DEF FragmentInv

LEMMA GiveUpKeeps ==
  ASSUME FragmentInv, FragmentConstants, F!GiveUp
  PROVE  FragmentInv'
<1>1. /\ ~fragmentPlural /\ fragmentPhase = "rendered" /\ fragmentPhase' = "idle" /\ fragmentWork' = F!Unread
      /\ fragmentStray' = fragmentStray
           \cup (IF fragmentWork.initial # fragmentMemo.initial /\ fragmentWork.initial # F!Null THEN {"seed"} ELSE {})
           \cup (IF fragmentWork.renewed \/ fragmentWork.reference # fragmentMemo.reference THEN {"deps"} ELSE {})
      /\ UNCHANGED <<fragmentPlural, fragmentContent, fragmentMemo, fragmentBox, fragmentPlugin, fragmentSent,
                     fragmentData, fragmentEarly, fragmentResent, fragmentWrites>>
  BY DEF F!GiveUp
<1>2. Committed' = Committed
  BY <1>1 DEF Committed
<1>3. fragmentWork.renewed \/ Rendered # Committed => "deps" \in fragmentStray'
  BY <1>1 DEF Rendered, Committed
<1>4. Rendered = Committed => fragmentWork.initial = fragmentMemo.initial
  BY <1>1 DEF FragmentInv, Remembers
<1>5. FragmentTypes'
  BY <1>1, UnreadIs DEF FragmentInv, FragmentTypes
<1>6. Mounts' /\ Unsubscribed' /\ Subscribed'
  BY <1>1, <1>2 DEF FragmentInv, Mounts, Unsubscribed, Subscribed, Enabled, F!Disabled, F!References
<1>7. Strays'
  <2>1. fragmentStray' # {} => "deps" \in fragmentStray'
    <3>1. CASE fragmentWork.renewed \/ Rendered # Committed
      BY <1>3, <3>1
    <3>2. CASE ~(fragmentWork.renewed \/ Rendered # Committed)
      BY <1>1, <1>4, <3>2 DEF FragmentInv, Strays, Rendered, Committed
    <3> QED  BY <3>1, <3>2
  <2> QED  BY <1>1, <2>1 DEF Strays
<1>8. Remembers' /\ Reads'
  BY <1>1 DEF Remembers, Reads, Spread
<1>9. ShowsSelected'
  <2> SUFFICES ASSUME Enabled(Committed), ~fragmentResent, fragmentStray' = {}
               PROVE  Committed.record \in fragmentEarly \/ fragmentBox = F!Read(Committed)
    <3>1. F!Read(Committed)' = F!Read(Committed)
      BY <1>1, <1>2 DEF F!Read
    <3>2. Enabled(Committed)' = Enabled(Committed)
      BY <1>2 DEF Enabled, F!References, F!Disabled
    <3> QED  BY <1>1, <1>2, <3>1, <3>2 DEF ShowsSelected
  <2>1. fragmentStray = {} /\ ~fragmentWork.renewed /\ Rendered = Committed
    BY <1>1, <1>3
  <2> QED  BY <1>1, <2>1 DEF FragmentInv, ShowsSelected
<1>10. DataShape' /\ ListShown'
  BY <1>1 DEF FragmentInv, DataShape, ListShown
<1> QED  BY <1>5, <1>6, <1>7, <1>8, <1>9, <1>10 DEF FragmentInv

LEMMA EffectsKeep ==
  ASSUME FragmentInv, FragmentConstants, F!Effects
  PROVE  FragmentInv'
<1> DEFINE r == Rendered.record
           changed == fragmentPhase = "mounting" \/ fragmentWork.renewed \/ Rendered # Committed
           kept == IF F!Disabled(Committed) THEN fragmentPlugin ELSE [fragmentPlugin EXCEPT !.spec = NoValue]
           value == IF fragmentWork.initial = F!Null THEN fragmentStore ELSE fragmentWork.initial
           m == [fragmentWork EXCEPT !.renewed = FALSE]
           subscribes == F!Subscribes(r)
<1>1. /\ ~fragmentPlural /\ fragmentPhase \in {"mounting", "rendered"} /\ fragmentPhase' = "idle"
      /\ fragmentMemo' = m /\ fragmentWork' = F!Unread /\ fragmentStray' = {}
      /\ UNCHANGED <<fragmentPlural, fragmentContent, fragmentData, fragmentEarly, fragmentWrites>>
  BY DEF F!Effects
<1>2. /\ ~changed => UNCHANGED <<fragmentPlugin, fragmentSent, fragmentBox, fragmentResent>>
      /\ changed /\ F!Disabled(Rendered) =>
           fragmentPlugin' = kept /\ UNCHANGED <<fragmentSent, fragmentBox, fragmentResent>>
      /\ changed /\ ~F!Disabled(Rendered) =>
           /\ fragmentPlugin' = IF subscribes THEN [spec |-> r, last |-> r] ELSE kept
           /\ fragmentResent' = (fragmentPlugin.last = r /\ fragmentSent)
           /\ fragmentSent' = TRUE /\ fragmentBox' = value
  BY DEF F!Effects, Rendered, Committed
<1>3. subscribes = (fragmentPlugin.last # r \/ ~fragmentSent)
  BY DEF F!Subscribes
<1>4. /\ fragmentMemo \in FragmentReads /\ fragmentWork \in FragmentReads /\ FragmentTypes
      /\ fragmentPlugin \in [spec : FragmentRecords \cup {NoValue}, last : FragmentRecords \cup {NoValue}]
      /\ fragmentContent \in [FragmentRecords -> Nat] /\ fragmentSent \in BOOLEAN /\ fragmentResent \in BOOLEAN
  BY DEF FragmentInv, FragmentTypes
<1>5. Rendered \in F!References /\ Committed \in F!References /\ r \in FragmentRecords \cup {NoValue}
  BY <1>4 DEF FragmentReads, Rendered, Committed, F!References
<1>6. m \in FragmentReads /\ m.reference = Rendered
  BY <1>4 DEF FragmentReads, Rendered
<1> HIDE DEF m
<1>7. Committed' = Rendered
  BY <1>1, <1>6 DEF Committed
<1>8. kept.spec = NoValue /\ kept.last = fragmentPlugin.last
      /\ kept \in [spec : FragmentRecords \cup {NoValue}, last : FragmentRecords \cup {NoValue}]
  <2>1. CASE F!Disabled(Committed)
    BY <1>4, <2>1 DEF FragmentInv, Unsubscribed
  <2>2. CASE ~F!Disabled(Committed)
    BY <1>4, <2>2
  <2> QED  BY <2>1, <2>2
<1> HIDE DEF kept, subscribes, value
<1>9. changed \in BOOLEAN /\ (~changed => fragmentPhase = "rendered" /\ ~fragmentWork.renewed /\ Rendered = Committed)
  BY <1>1
<1> HIDE DEF changed
<1>10. \A ref \in F!References : F!Disabled(ref) \/ Enabled(ref)
  BY DEF Enabled
<1>11. FragmentTypes'
  <2>1. /\ fragmentPlugin' \in [spec : FragmentRecords \cup {NoValue}, last : FragmentRecords \cup {NoValue}]
        /\ fragmentSent' \in BOOLEAN /\ fragmentResent' \in BOOLEAN
    <3>1. CASE ~changed
      BY <1>2, <1>4, <3>1
    <3>2. CASE changed /\ F!Disabled(Rendered)
      BY <1>2, <1>4, <1>8, <3>2
    <3>3. CASE changed /\ ~F!Disabled(Rendered)
      <4>1. (fragmentPlugin.last = r /\ fragmentSent) \in BOOLEAN
        OBVIOUS
      <4> QED  BY <1>2, <1>5, <1>8, <3>3, <4>1
    <3> QED  BY <3>1, <3>2, <3>3
  <2> QED  BY <1>1, <1>4, <1>6, <2>1, UnreadIs DEF FragmentTypes
<1>12. Mounts' /\ Strays' /\ Remembers' /\ Reads'
  BY <1>1 DEF Mounts, Strays, Remembers, Reads, Spread
<1>13. Unsubscribed'
  <2>1. CASE ~changed
    BY <1>1, <1>2, <1>7, <1>9, <2>1 DEF FragmentInv, Unsubscribed, F!Disabled
  <2>2. CASE changed /\ F!Disabled(Rendered)
    BY <1>2, <1>7, <1>8, <2>2 DEF Unsubscribed
  <2>3. CASE changed /\ ~F!Disabled(Rendered)
    <3>1. fragmentPlugin'.spec \in {NoValue, r}
      BY <1>2, <1>8, <2>3
    <3>2. ~F!Disabled(Committed)'
      BY <1>7, <2>3 DEF F!Disabled
    <3> QED  BY <1>1, <1>7, <3>1, <3>2 DEF Unsubscribed
  <2> QED  BY <2>1, <2>2, <2>3
<1>14. Subscribed'
  <2> SUFFICES ASSUME Enabled(Rendered)
               PROVE  /\ fragmentPlugin'.last = r /\ fragmentSent'
                      /\ ~fragmentResent' => fragmentPlugin'.spec = r
    BY <1>7 DEF Subscribed, Enabled, F!Disabled, F!References
  <2>1. CASE ~changed
    BY <1>1, <1>2, <1>9, <2>1 DEF FragmentInv, Subscribed
  <2>2. CASE changed
    <3>1. ~F!Disabled(Rendered)
      BY DEF Enabled
    <3>2. CASE subscribes
      BY <1>2, <2>2, <3>1, <3>2
    <3>3. CASE ~subscribes
      BY <1>2, <1>3, <1>8, <2>2, <3>1, <3>3
    <3> QED  BY <3>2, <3>3
  <2> QED  BY <1>9, <2>1, <2>2
<1>15. ShowsSelected'
  <2> SUFFICES ASSUME Enabled(Rendered), ~fragmentResent'
               PROVE  r \in fragmentEarly \/ fragmentBox' = F!Read(Rendered)
    <3>1. F!Read(Rendered) = F!Read(Committed)'
      BY <1>1, <1>7 DEF F!Read
    <3>2. Enabled(Committed)' = Enabled(Rendered)
      BY <1>7 DEF Enabled, F!References, F!Disabled
    <3> QED  BY <1>1, <1>7, <3>1, <3>2 DEF ShowsSelected
  <2>1. CASE ~changed
    <3>1. fragmentStray = {}
      BY <1>1, <1>9, <2>1 DEF FragmentInv, Strays
    <3> QED  BY <1>1, <1>2, <1>9, <2>1, <3>1 DEF FragmentInv, ShowsSelected
  <2>2. CASE changed
    <3>1. ~F!Disabled(Rendered) /\ ~(fragmentPlugin.last = r /\ fragmentSent) /\ fragmentBox' = value
      BY <1>2, <2>2 DEF Enabled
    <3>2. Rendered # Committed
      <4> SUFFICES ASSUME Rendered = Committed PROVE FALSE
        OBVIOUS
      <4>1. fragmentPlugin.last = r /\ fragmentSent
        BY <1>1 DEF FragmentInv, Subscribed
      <4> QED  BY <3>1, <4>1
    <3>3. r \in fragmentEarly \/ fragmentWork.initial = F!Read(Rendered)
      BY <1>1, <3>2 DEF FragmentInv, Reads, Spread
    <3>4. F!Read(Rendered) # F!Null
      BY <1>4, <1>5, ReadIs
    <3> QED  BY <3>1, <3>3, <3>4 DEF value
  <2> QED  BY <1>9, <2>1, <2>2
<1>16. DataShape' /\ ListShown'
  BY <1>1 DEF FragmentInv, DataShape, ListShown
<1> QED  BY <1>11, <1>12, <1>13, <1>14, <1>15, <1>16 DEF FragmentInv

\* A plural fragment has none of the rest.
LEMMA PluralKeeps ==
  ASSUME FragmentInv, fragmentPlural,
         UNCHANGED <<fragmentPlural, fragmentContent, fragmentMemo, fragmentWork, fragmentStray, fragmentPlugin,
                     fragmentSent, fragmentResent, fragmentWrites>>,
         fragmentPhase' \in {"mounting", "rendered", "idle"}, fragmentPhase' = "mounting" => fragmentPhase = "absent",
         fragmentEarly' \subseteq FragmentRecords
  PROVE  /\ FragmentTypes' /\ Mounts' /\ Unsubscribed' /\ Subscribed' /\ Strays' /\ Remembers' /\ Reads' /\ ShowsSelected'
<1>1. FragmentTypes'
  BY DEF FragmentInv, FragmentTypes
<1>2. Mounts'
  BY DEF FragmentInv, Mounts
<1>3. Unsubscribed' /\ Subscribed'
  BY DEF FragmentInv, Unsubscribed, Subscribed, Committed, F!Disabled
<1>4. Strays' /\ Remembers' /\ Reads' /\ ShowsSelected'
  BY DEF FragmentInv, Strays, Remembers, Reads, ShowsSelected
<1> QED  BY <1>1, <1>2, <1>3, <1>4

LEMMA RenderAllKeeps ==
  ASSUME FragmentInv, FragmentConstants, NEW list \in FragmentLists, F!RenderAll(list)
  PROVE  FragmentInv'
<1> DEFINE d == [references |-> list, list |-> F!ReadAll(list), seeded |-> list, specs |-> <<>>]
<1>1. /\ fragmentPlural /\ fragmentPhase \in {"absent", "idle"}
      /\ fragmentPhase' = IF fragmentPhase = "absent" THEN "mounting" ELSE "rendered"
      /\ fragmentData' = IF fragmentPhase = "absent" THEN d ELSE [fragmentData EXCEPT !.references = list]
      /\ UNCHANGED <<fragmentPlural, fragmentContent, fragmentMemo, fragmentWork, fragmentStray, fragmentPlugin,
                     fragmentSent, fragmentResent, fragmentEarly, fragmentWrites>>
  BY DEF F!RenderAll, F!one
<1>2. ListOf(list)
  BY DEF FragmentConstants, ListOf
<1>3. fragmentEarly \subseteq FragmentRecords
  BY DEF FragmentInv, FragmentTypes
<1>4. ListShown'
  <2>1. CASE fragmentPhase = "absent"
    <3>1. /\ d.references = list /\ d.seeded = list /\ d.specs = <<>>
          /\ d.list = [i \in DOMAIN list |-> F!Value(list[i], fragmentContent[list[i]])]
      BY DEF F!ReadAll
    <3> HIDE DEF d
    <3>2. d.list = [i \in DOMAIN d.seeded |-> d.list[i]]
      BY <3>1
    <3>3. ListOf(<<>>)
      BY DEF ListOf
    <3> QED  BY <1>1, <1>2, <2>1, <3>1, <3>2, <3>3 DEF ListShown
  <2>2. CASE fragmentPhase = "idle"
    <3>1. /\ fragmentData'.references = list /\ fragmentData'.list = fragmentData.list
          /\ fragmentData'.seeded = fragmentData.seeded /\ fragmentData'.specs = fragmentData.specs
      BY <1>1, <2>2 DEF FragmentInv, DataShape
    <3>2. fragmentPhase' = "rendered"
      BY <1>1, <2>2
    <3> QED  BY <1>1, <1>2, <2>2, <3>1, <3>2 DEF FragmentInv, ListShown, F!Value
  <2> QED  BY <1>1, <2>1, <2>2
<1>5. DataShape'
  <2>1. CASE fragmentPhase = "absent"
    BY <1>1, <2>1 DEF DataShape
  <2>2. CASE fragmentPhase = "idle"
    BY <1>1, <2>2 DEF FragmentInv, DataShape
  <2> QED  BY <1>1, <2>1, <2>2
<1>6. fragmentPhase' \in {"mounting", "rendered", "idle"} /\ (fragmentPhase' = "mounting" => fragmentPhase = "absent")
  BY <1>1
<1> QED  BY <1>1, <1>3, <1>4, <1>5, <1>6, PluralKeeps DEF FragmentInv

LEMMA EffectsAllKeep ==
  ASSUME FragmentInv, FragmentConstants, F!EffectsAll
  PROVE  FragmentInv'
<1> DEFINE other == fragmentData.seeded # fragmentData.references
<1>1. /\ fragmentPlural /\ fragmentPhase \in {"mounting", "rendered"} /\ fragmentPhase' = "idle"
      /\ fragmentData' = [fragmentData EXCEPT !.list = IF other THEN F!ReadAll(fragmentData.references) ELSE @,
                                              !.seeded = fragmentData.references, !.specs = fragmentData.references]
      /\ fragmentEarly' = IF other THEN {} ELSE fragmentEarly
      /\ UNCHANGED <<fragmentPlural, fragmentContent, fragmentMemo, fragmentWork, fragmentStray, fragmentPlugin,
                     fragmentSent, fragmentResent, fragmentWrites>>
  BY DEF F!EffectsAll, F!one
<1>2. /\ fragmentData'.references = fragmentData.references /\ fragmentData'.seeded = fragmentData.references
      /\ fragmentData'.specs = fragmentData.references
      /\ fragmentData'.list = IF other THEN F!ReadAll(fragmentData.references) ELSE fragmentData.list
  BY <1>1 DEF FragmentInv, DataShape
<1>3. DataShape'
  BY <1>1 DEF FragmentInv, DataShape
<1>4. fragmentEarly' \subseteq FragmentRecords
  BY <1>1 DEF FragmentInv, FragmentTypes
<1>5. /\ ListOf(fragmentData.references) /\ ListShown
      /\ fragmentData.list = [i \in DOMAIN fragmentData.seeded |-> fragmentData.list[i]]
  BY <1>1 DEF FragmentInv, ListShown
<1>6. ListShown'
  <2>1. CASE other
    <3> DEFINE l == F!ReadAll(fragmentData.references)
    <3>1. l = [i \in DOMAIN fragmentData.references |->
                 F!Value(fragmentData.references[i], fragmentContent[fragmentData.references[i]])]
      BY DEF F!ReadAll
    <3> HIDE DEF l
    <3>2. /\ l = [i \in DOMAIN fragmentData.references |-> l[i]]
          /\ \A i \in DOMAIN fragmentData.references :
               l[i] = F!Value(fragmentData.references[i], fragmentContent[fragmentData.references[i]])
      BY <3>1
    <3>3. fragmentData'.list = l
      BY <1>2, <2>1 DEF l
    <3>4. \A i \in DOMAIN fragmentData'.seeded :
             fragmentData'.list[i] = F!Value(fragmentData'.seeded[i], fragmentContent'[fragmentData'.seeded[i]])
      BY <1>1, <1>2, <3>2, <3>3
    <3>5. fragmentData'.list = [i \in DOMAIN fragmentData'.seeded |-> fragmentData'.list[i]]
      BY <1>2, <3>2, <3>3
    <3> QED  BY <1>1, <1>2, <1>5, <3>4, <3>5 DEF ListShown, F!Value
  <2>2. CASE ~other
    BY <1>1, <1>2, <1>5, <2>2 DEF ListShown, F!Value
  <2> QED  BY <2>1, <2>2
<1> QED  BY <1>1, <1>3, <1>4, <1>6, PluralKeeps DEF FragmentInv

LEMMA FragmentWriteKeeps ==
  ASSUME FragmentInv, FragmentConstants, NEW r \in FragmentRecords, F!Write(r)
  PROVE  FragmentInv'
<1> DEFINE value == F!Value(r, fragmentWrites + 2)
           told == \E i \in DOMAIN fragmentData.specs : fragmentData.specs[i] = r
           l == [i \in DOMAIN fragmentData.list |->
                   IF i \in DOMAIN fragmentData.specs /\ fragmentData.specs[i] = r THEN value
                   ELSE fragmentData.list[i]]
<1>1. /\ fragmentWrites' = fragmentWrites + 1
      /\ fragmentContent' = [fragmentContent EXCEPT ![r] = fragmentWrites + 2]
      /\ fragmentBox' = IF fragmentPlugin.spec = r THEN value ELSE fragmentBox
      /\ fragmentData' = [fragmentData EXCEPT !.list = l]
      /\ fragmentEarly' = IF fragmentPlugin.spec = r \/ told THEN fragmentEarly \ {r}
                          ELSE IF Spread THEN fragmentEarly \cup {r} ELSE fragmentEarly
      /\ UNCHANGED <<fragmentPlural, fragmentPhase, fragmentMemo, fragmentWork, fragmentStray, fragmentPlugin,
                     fragmentSent, fragmentResent>>
  BY DEF F!Write, Spread
<1>2. /\ FragmentTypes /\ fragmentContent \in [FragmentRecords -> Nat] /\ fragmentWrites \in Nat
      /\ fragmentEarly \subseteq FragmentRecords
  BY DEF FragmentInv, FragmentTypes
<1>3. fragmentWrites + 2 \in Nat
  BY <1>2
<1>4. /\ fragmentContent' \in [FragmentRecords -> Nat] /\ fragmentContent'[r] = fragmentWrites + 2
      /\ \A s \in FragmentRecords \ {r} : fragmentContent'[s] = fragmentContent[s]
  BY <1>1, <1>2, <1>3
<1>5. FragmentTypes'
  BY <1>1, <1>2, <1>4 DEF FragmentTypes
<1>6. Committed' = Committed /\ Rendered' = Rendered
  BY <1>1 DEF Committed, Rendered
<1>7. Mounts' /\ Unsubscribed' /\ Subscribed' /\ Strays' /\ Remembers'
  BY <1>1, <1>6 DEF FragmentInv, Mounts, Unsubscribed, Subscribed, Strays, Remembers, Enabled, F!Disabled, F!References
<1> HIDE DEF value, told, l
<1>8. /\ fragmentData'.references = fragmentData.references /\ fragmentData'.seeded = fragmentData.seeded
      /\ fragmentData'.specs = fragmentData.specs /\ fragmentData'.list = l /\ DataShape'
  BY <1>1 DEF FragmentInv, DataShape
<1>9. ASSUME NEW ref, Enabled(ref)
      PROVE  /\ ref.record # r => F!Read(ref)' = F!Read(ref)
             /\ ref.record = r => F!Read(ref)' = value
  <2>1. ref.record \in FragmentRecords /\ ~ref.loading /\ ref.record # NoValue
    BY <1>9 DEF Enabled, F!Disabled, F!References
  <2>2. /\ F!Read(ref) = F!Value(ref.record, fragmentContent[ref.record])
        /\ F!Read(ref)' = F!Value(ref.record, fragmentContent'[ref.record])
    BY <2>1 DEF F!Read, F!Value
  <2> QED  BY <1>4, <2>1, <2>2 DEF value
<1> PICK c : c = Committed
  OBVIOUS
<1> PICK d : d = Rendered
  OBVIOUS
<1>10. /\ F!Read(Committed)' = F!Read(c)' /\ F!Read(Committed) = F!Read(c)
       /\ F!Read(Rendered)' = F!Read(d)' /\ F!Read(Rendered) = F!Read(d)
       /\ Enabled(Committed)' = Enabled(c) /\ Enabled(Committed) = Enabled(c)
       /\ Enabled(Rendered)' = Enabled(d) /\ Enabled(Rendered) = Enabled(d)
  <2>1. Committed' = c /\ Rendered' = d /\ Committed = c /\ Rendered = d
    BY <1>6
  <2>2. F!Read(Committed)' = F!Read(c)' /\ F!Read(Committed) = F!Read(c)
    BY <2>1 DEF F!Read
  <2>3. F!Read(Rendered)' = F!Read(d)' /\ F!Read(Rendered) = F!Read(d)
    BY <2>1 DEF F!Read
  <2>4. Enabled(Committed)' = Enabled(c) /\ Enabled(Committed) = Enabled(c)
    BY <2>1 DEF Enabled, F!Disabled, F!References
  <2>5. Enabled(Rendered)' = Enabled(d) /\ Enabled(Rendered) = Enabled(d)
    BY <2>1 DEF Enabled, F!Disabled, F!References
  <2> QED  BY <2>2, <2>3, <2>4, <2>5
<1>11. ~fragmentPlural => ~told
  BY DEF FragmentInv, DataShape, told
<1>12. r # NoValue
  BY DEF FragmentConstants
<1>13. Reads'
  <2> SUFFICES ASSUME ~fragmentPlural, Spread, Enabled(d), d # c
               PROVE  d.record \in fragmentEarly' \/ fragmentWork.initial = F!Read(d)'
    BY <1>1, <1>6, <1>10 DEF Reads, Spread
  <2>1. d.record \in fragmentEarly \/ fragmentWork.initial = F!Read(d)
    BY <1>10 DEF FragmentInv, Reads
  <2>2. CASE d.record # r
    <3>1. F!Read(d)' = F!Read(d)
      BY <1>9, <2>2
    <3>2. d.record \in fragmentEarly => d.record \in fragmentEarly'
      BY <1>1, <2>2
    <3> QED  BY <2>1, <3>1, <3>2
  <2>3. CASE d.record = r
    <3>1. fragmentPlugin.spec # r
      <4> SUFFICES ASSUME fragmentPlugin.spec = r PROVE FALSE
        OBVIOUS
      <4>1. Committed.record = r /\ ~F!Disabled(Committed)
        BY <1>12 DEF FragmentInv, Unsubscribed
      <4>2. Committed \in F!References
        BY <1>2 DEF FragmentTypes, FragmentReads, Committed
      <4>3. Enabled(c) /\ c.record = r
        BY <1>10, <4>1, <4>2 DEF Enabled
      <4> QED  BY <2>3, <4>3, SameReference
    <3> QED  BY <1>1, <1>11, <2>3, <3>1
  <2> QED  BY <2>2, <2>3
<1>14. ShowsSelected'
  <2> SUFFICES ASSUME ~fragmentPlural, Enabled(c), ~fragmentResent, fragmentStray = {},
                      fragmentPhase = "idle" \/ (fragmentPhase = "rendered" /\ Rendered = Committed /\ ~fragmentWork.renewed)
               PROVE  c.record \in fragmentEarly' \/ fragmentBox' = F!Read(c)'
    BY <1>1, <1>6, <1>10 DEF ShowsSelected
  <2>1. fragmentPlugin.spec = c.record
    BY <1>10 DEF FragmentInv, Subscribed
  <2>2. CASE c.record = r
    <3>1. F!Read(c)' = value
      BY <1>9, <2>2
    <3> QED  BY <1>1, <2>1, <2>2, <3>1
  <2>3. CASE c.record # r
    <3>1. c.record \in fragmentEarly \/ fragmentBox = F!Read(c)
      BY <1>10 DEF FragmentInv, ShowsSelected
    <3>2. F!Read(c)' = F!Read(c)
      BY <1>9, <2>3
    <3>3. c.record \in fragmentEarly => c.record \in fragmentEarly'
      BY <1>1, <2>3
    <3> QED  BY <1>1, <2>1, <2>3, <3>1, <3>2, <3>3
  <2> QED  BY <2>2, <2>3
<1>15. ListShown'
  <2> SUFFICES ASSUME fragmentPlural, fragmentPhase # "absent"
               PROVE  ListShown'
    BY <1>1 DEF ListShown
  <2> DEFINE s == fragmentData.seeded
             p == fragmentData.specs
  <2>1. /\ ListOf(fragmentData.references) /\ ListOf(s) /\ ListOf(p)
        /\ fragmentData.list = [i \in DOMAIN s |-> fragmentData.list[i]]
        /\ fragmentPhase \in {"mounting", "idle"} => s = fragmentData.references
        /\ fragmentPhase \in {"rendered", "idle"} => p = s
        /\ fragmentPhase = "mounting" => p = <<>>
        /\ fragmentPhase # "gone" =>
             \A i \in DOMAIN s : s[i] \in fragmentEarly \/ fragmentData.list[i] = F!Value(s[i], fragmentContent[s[i]])
    BY DEF FragmentInv, ListShown
  <2>2. DOMAIN fragmentData.list = DOMAIN s
    BY <2>1
  <2>3. /\ l = [i \in DOMAIN s |-> l[i]]
        /\ \A i \in DOMAIN s : l[i] = IF i \in DOMAIN p /\ p[i] = r THEN value ELSE fragmentData.list[i]
    BY <2>2 DEF l
  <2>4. fragmentPlugin.spec # r
    BY <1>12 DEF FragmentInv, Unsubscribed
  <2>5. \A i \in DOMAIN s : s[i] \in FragmentRecords
    BY <2>1 DEF ListOf
  <2>6. told <=> \E i \in DOMAIN p : p[i] = r
    BY DEF told
  <2>7. fragmentPhase \in {"absent", "mounting", "rendered", "idle", "gone"}
    BY <1>2 DEF FragmentTypes
  <2> HIDE DEF s, p
  <2>8. ASSUME fragmentPhase # "gone", NEW i \in DOMAIN s
        PROVE  s[i] \in fragmentEarly' \/ l[i] = F!Value(s[i], fragmentContent'[s[i]])
    <3>1. CASE s[i] = r
      <4>1. CASE fragmentPhase \in {"rendered", "idle"}
        <5>1. l[i] = value
          BY <2>1, <2>3, <2>8, <3>1, <4>1
        <5> QED  BY <1>4, <3>1, <5>1 DEF value
      <4>2. CASE fragmentPhase = "mounting"
        <5>1. ~told
          BY <2>1, <2>6, <4>2
        <5> QED  BY <1>1, <2>4, <3>1, <4>2, <5>1 DEF Spread
      <4> QED  BY <2>7, <2>8, <4>1, <4>2
    <3>2. CASE s[i] # r
      <4>1. s[i] \in fragmentEarly \/ fragmentData.list[i] = F!Value(s[i], fragmentContent[s[i]])
        BY <2>1, <2>8
      <4>2. s[i] \in fragmentEarly => s[i] \in fragmentEarly'
        BY <1>1, <3>2
      <4>3. l[i] = fragmentData.list[i]
        <5>1. CASE p = s
          BY <2>3, <2>8, <3>2, <5>1
        <5>2. CASE p = <<>>
          BY <2>3, <2>8, <5>2
        <5> QED  BY <2>1, <2>7, <2>8, <5>1, <5>2
      <4> QED  BY <1>4, <2>5, <2>8, <3>2, <4>1, <4>2, <4>3
    <3> QED  BY <3>1, <3>2
  <2> QED  BY <1>1, <1>8, <2>1, <2>3, <2>8 DEF ListShown, s, p, F!Value
<1> QED  BY <1>5, <1>7, <1>8, <1>13, <1>14, <1>15 DEF FragmentInv

LEMMA UnmountKeeps ==
  ASSUME FragmentInv, F!Unmount
  PROVE  FragmentInv'
<1>1. /\ fragmentPhase = "idle" /\ fragmentPhase' = "gone"
      /\ fragmentPlugin' = [fragmentPlugin EXCEPT !.spec = NoValue] /\ fragmentSent' = FALSE
      /\ fragmentData' = [fragmentData EXCEPT !.specs = <<>>]
      /\ UNCHANGED <<fragmentPlural, fragmentContent, fragmentMemo, fragmentWork, fragmentStray, fragmentBox,
                     fragmentEarly, fragmentResent, fragmentWrites>>
  BY DEF F!Unmount
<1>2. fragmentPlugin \in [spec : FragmentRecords \cup {NoValue}, last : FragmentRecords \cup {NoValue}]
  BY DEF FragmentInv, FragmentTypes
<1>3. /\ fragmentPlugin' \in [spec : FragmentRecords \cup {NoValue}, last : FragmentRecords \cup {NoValue}]
      /\ fragmentPlugin'.spec = NoValue
  BY <1>1, <1>2
<1>4. FragmentTypes'
  BY <1>1, <1>3 DEF FragmentInv, FragmentTypes
<1>5. Mounts' /\ Unsubscribed' /\ Subscribed' /\ Remembers' /\ Reads' /\ ShowsSelected'
  BY <1>1, <1>3 DEF Mounts, Unsubscribed, Subscribed, Remembers, Reads, ShowsSelected, Spread
<1>6. Strays'
  BY <1>1 DEF FragmentInv, Strays
<1>7. /\ fragmentData'.references = fragmentData.references /\ fragmentData'.seeded = fragmentData.seeded
      /\ fragmentData'.specs = <<>> /\ fragmentData'.list = fragmentData.list /\ DataShape'
  BY <1>1 DEF FragmentInv, DataShape
<1>8. ListOf(<<>>)
  BY DEF ListOf
<1>9. ListShown'
  BY <1>1, <1>7, <1>8 DEF FragmentInv, ListShown
<1> QED  BY <1>4, <1>5, <1>6, <1>7, <1>9 DEF FragmentInv

LEMMA FragmentInit == FragmentConstants /\ F!Init => FragmentInv
<1> SUFFICES ASSUME FragmentConstants, F!Init
             PROVE  FragmentInv
  OBVIOUS
<1>1. /\ fragmentPlural \in BOOLEAN /\ fragmentContent = [r \in FragmentRecords |-> 1]
      /\ fragmentPhase = "absent" /\ fragmentMemo = F!Unread /\ fragmentWork = F!Unread /\ fragmentStray = {}
      /\ fragmentPlugin = [spec |-> NoValue, last |-> NoValue] /\ fragmentSent = FALSE
      /\ fragmentData = [references |-> <<>>, list |-> <<>>, seeded |-> <<>>, specs |-> <<>>]
      /\ fragmentEarly = {} /\ fragmentResent = FALSE /\ fragmentWrites = 0
  BY DEF F!Init
<1>2. FragmentTypes
  BY <1>1, UnreadIs DEF FragmentTypes
<1>3. F!Disabled(Committed) /\ Committed.record = NoValue
  BY <1>1, UnreadIs DEF Committed
<1>4. Mounts /\ Unsubscribed /\ Subscribed /\ Strays /\ Remembers /\ Reads /\ ShowsSelected
  BY <1>1, <1>3 DEF Mounts, Unsubscribed, Subscribed, Strays, Remembers, Reads, ShowsSelected, Spread, Enabled
<1>5. DataShape /\ ListShown
  BY <1>1 DEF DataShape, ListShown
<1> QED  BY <1>2, <1>4, <1>5 DEF FragmentInv

(* ReactFragments: what has been committed was sent and is subscribed unless the effect ran again for it, what  *)
(* a render read anew is what the cache has but for what was written since, and so is what is shown.            *)
THEOREM FragmentInvHolds == F!Spec => []FragmentInv
<1>1. FragmentConstants
  BY RuntimeAssumption
<1>2. F!Init => FragmentInv
  BY <1>1, FragmentInit
<1>3. FragmentInv /\ [F!Next]_(F!vars) => FragmentInv'
  <2> SUFFICES ASSUME FragmentInv, [F!Next]_(F!vars) PROVE FragmentInv'
    OBVIOUS
  <2>1. ASSUME NEW ref \in F!References, NEW session \in BOOLEAN, F!Render(ref, session) PROVE FragmentInv'
    BY <1>1, <2>1, RenderKeeps
  <2>2. CASE F!GiveUp \/ F!Effects \/ F!EffectsAll \/ F!Unmount
    BY <1>1, <2>2, GiveUpKeeps, EffectsKeep, EffectsAllKeep, UnmountKeeps
  <2>3. ASSUME NEW list \in FragmentLists, F!RenderAll(list) PROVE FragmentInv'
    BY <1>1, <2>3, RenderAllKeeps
  <2>4. ASSUME NEW r \in FragmentRecords, F!Write(r) PROVE FragmentInv'
    BY <1>1, <2>4, FragmentWriteKeeps
  <2>5. CASE UNCHANGED F!vars
    <3>1. UNCHANGED <<fragmentPlural, fragmentContent, fragmentPhase, fragmentMemo, fragmentWork, fragmentStray, fragmentBox,
                      fragmentPlugin, fragmentSent, fragmentData, fragmentEarly, fragmentResent, fragmentWrites>>
      BY <2>5 DEF F!vars, F!one
    <3>2. UNCHANGED <<Committed, Rendered, Spread>>
      BY <3>1 DEF Committed, Rendered, Spread
    <3>3. \A ref : F!Read(ref)' = F!Read(ref)
      BY <3>1 DEF F!Read
    <3>4. F!Read(Committed)' = F!Read(Committed) /\ F!Read(Rendered)' = F!Read(Rendered)
      BY <3>1, <3>2 DEF F!Read
    <3>5. FragmentTypes' /\ Mounts' /\ Strays' /\ Remembers' /\ DataShape'
      BY <3>1, <3>2 DEF FragmentInv, FragmentTypes, Mounts, Strays, Remembers, DataShape
    <3>6. Unsubscribed' /\ Subscribed'
      BY <3>1, <3>2 DEF FragmentInv, Unsubscribed, Subscribed, Enabled, F!Disabled, F!References
    <3>7. Reads' /\ ShowsSelected'
      BY <3>1, <3>2, <3>4 DEF FragmentInv, Reads, ShowsSelected, Enabled, F!Disabled, F!References
    <3>8. ListShown'
      BY <3>1 DEF FragmentInv, ListShown, F!Value
    <3> QED  BY <3>5, <3>6, <3>7, <3>8 DEF FragmentInv
  <2> QED  BY <2>1, <2>2, <2>3, <2>4, <2>5 DEF F!Next
<1> QED  BY <1>2, <1>3, PTL DEF F!Spec

(* The types of a component's renders, its plugin and what it shows.                                             *)
THEOREM FragmentTypeCorrect == F!Spec => []F!TypeOK
<1>1. FragmentInv => F!TypeOK
  BY DEF FragmentInv, FragmentTypes, FragmentReads, F!TypeOK
<1> QED  BY <1>1, FragmentInvHolds, PTL

LEMMA FragmentShows ==
  ASSUME FragmentInv, FragmentConstants
  PROVE  F!ShowsRecord /\ F!ShowsRecords
<1>1. F!ShowsRecord
  <2>1. Committed \in F!References
    BY DEF FragmentInv, FragmentTypes, FragmentReads, Committed
  <2> QED  BY <2>1 DEF F!ShowsRecord, FragmentInv, ShowsSelected, Enabled, Committed
<1>2. F!ShowsRecords
  <2> SUFFICES ASSUME fragmentPlural, fragmentPhase = "idle"
               PROVE  /\ DOMAIN fragmentData.list = DOMAIN fragmentData.references
                      /\ \A i \in DOMAIN fragmentData.list :
                           \/ fragmentData.references[i] \in fragmentEarly
                           \/ fragmentData.list[i] = F!ReadAll(fragmentData.references)[i]
    BY DEF F!ShowsRecords
  <2>1. /\ fragmentData.seeded = fragmentData.references
        /\ fragmentData.list = [i \in DOMAIN fragmentData.seeded |-> fragmentData.list[i]]
        /\ \A i \in DOMAIN fragmentData.seeded :
             \/ fragmentData.seeded[i] \in fragmentEarly
             \/ fragmentData.list[i] = F!Value(fragmentData.seeded[i], fragmentContent[fragmentData.seeded[i]])
    BY DEF FragmentInv, ListShown
  <2>2. \A i \in DOMAIN fragmentData.references : F!ReadAll(fragmentData.references)[i] =
          F!Value(fragmentData.references[i], fragmentContent[fragmentData.references[i]])
    BY DEF F!ReadAll
  <2>3. DOMAIN fragmentData.list = DOMAIN fragmentData.references
    BY <2>1
  <2> QED  BY <2>1, <2>2, <2>3
<1> QED  BY <1>1, <1>2

(* FragmentHandles and ReactFragments: a component shows the record of its reference, or each record of its      *)
(* list, as the cache has it, but for what was written between a render and its effects, an effect that ran      *)
(* again and a render given up; what was refetched or paginated is of the record of the reference, with the      *)
(* arguments that the handle says and cursors that lead back.                                                     *)
THEOREM FragmentsFollowHolds == F!Spec /\ G!Spec => []FragmentsFollow
<1>1. FragmentConstants /\ EmbeddedConstants
  BY RuntimeAssumption
<1>2. FragmentInv /\ EmbeddedInv => FragmentsFollow
  BY <1>1, FragmentShows, EmbeddedFollows DEF FragmentsFollow
<1> QED  BY <1>2, FragmentInvHolds, EmbeddedInvHolds, PTL
=============================================================================
