---------------------------- MODULE OptimisticKeys ----------------------------
(***************************************************************************)
(* The optimistic keys plugin (plugins/optimisticKeys.ts): a mutation may  *)
(* invent the key of a record it creates; a call whose variables name that *)
(* key waits before the network until the mutation's answer says what the  *)
(* key really is.  Keys are looked for among the values of fields; the     *)
(* strings of a list are passed over.                                      *)
(***************************************************************************)
EXTENDS Naturals, Sequences, SequencesExt, FiniteSets

CONSTANTS
  Calls,       \* calls of documents, 1 .. n in the order they start
  Keys,        \* optimistic keys: times in milliseconds, or given by the caller
  Nested,      \* calls whose response holds the second key in an object of the first
  MaxMade,     \* bound: keys in the optimistic response of each call, Calls -> Nat
  Inputs       \* bound: the keys a call may name, and where, Calls -> SUBSET (Keys \X Places)

VARIABLES
  callbacks,   \* callbackCache: the calls waiting for each key registered
  keyCache,    \* what each mutation under way tracks: a path and its key
  objectIDs,   \* the object that holds each key of a mutation
  aliases,     \* cache.registerKeyMap: an answer's object and its optimistic one
  calls,       \* the calls
  orphans,     \* keys whose mutation ended without saying their value (history)
  reused       \* keys registered more than once (history)

vars == <<callbacks, keyCache, objectIDs, aliases, calls, orphans, reused>>

Paths == UNION {1 .. MaxMade[c] : c \in Calls}

\* Where the variables name a key: as a variable (or in an object that is sent as it is
\* given), as a field of an input object, which is converted to a copy, or in a list.
Places == {"variable", "object", "item"}

\* makes: the keys of the optimistic response, by path in the order of the walk.
\* got: the values of the pending variables, 0 when null.
Call == [phase : {"idle", "started", "waiting", "sent", "done"}, makes : Seq(Keys),
         names : SUBSET (Keys \X Places), got : UNION {[ks -> Calls \cup {0}] : ks \in SUBSET Keys}]

Nothing == [k \in {} |-> 0]
Idle == [phase |-> "idle", makes |-> <<>>, names |-> {}, got |-> Nothing]

Init ==
  /\ callbacks = [k \in {} |-> <<>>]
  /\ keyCache = [c \in {} |-> [path |-> 1, key |-> CHOOSE k \in Keys : TRUE]]
  /\ objectIDs = [c \in {} |-> Nothing]
  /\ aliases = {} /\ calls = [c \in Calls |-> Idle] /\ orphans = {} /\ reused = {}

Pending(c) == calls[c].phase \in {"started", "waiting", "sent"}
Registered == UNION {Range(calls[c].makes) : c \in Calls}

\* start and addKeysToResponse: of the keys of one response only the last path is
\* tracked.  An object's key is filed after those of the objects in it.
Start(c, makes, names) ==
  LET n     == Len(makes)
      File  == IF c \in Nested THEN Reverse([p \in 1..n |-> p]) ELSE [p \in 1..n |-> p]
      Owner(k) == File[CHOOSE i \in 1..n : makes[File[i]] = k
                                           /\ \A j \in i + 1 .. n : makes[File[j]] # k]
  IN  /\ calls[c].phase = "idle" /\ \A d \in Calls : d < c => calls[d].phase # "idle"
      /\ calls' = [calls EXCEPT ![c].phase = "started", ![c].makes = makes,
                                ![c].names = names]
      /\ callbacks' = [k \in DOMAIN callbacks \cup Range(makes) |->
                         IF k \in Range(makes) THEN <<>> ELSE callbacks[k]]
      /\ keyCache' = IF n = 0 THEN keyCache
                     ELSE [d \in DOMAIN keyCache \cup {c} |->
                             IF d = c THEN [path |-> n, key |-> makes[n]] ELSE keyCache[d]]
      /\ objectIDs' = IF n = 0 THEN objectIDs
                      ELSE [d \in DOMAIN objectIDs \cup {c} |->
                              IF d = c THEN [k \in Range(makes) |-> Owner(k)] ELSE objectIDs[d]]
      /\ reused' = reused \cup (Range(makes) \cap Registered)
                          \cup {k \in Range(makes) : \E p, q \in 1..n :
                                  p # q /\ makes[p] = k /\ makes[q] = k}
      /\ UNCHANGED <<aliases, orphans>>

\* extractInputKeys: the registered keys that are values of a field, at any depth.
InputKeys(c) ==
  {k \in DOMAIN callbacks : \E place \in {"variable", "object"} : <<k, place>> \in calls[c].names}

\* beforeNetwork: a callback for each variable that is a registered key.
BeforeNetwork(c) ==
  LET found == InputKeys(c)
  IN  /\ calls[c].phase = "started"
      /\ IF DOMAIN keyCache = {} \/ found = {}
         THEN /\ calls' = [calls EXCEPT ![c].phase = "sent"]
              /\ UNCHANGED callbacks
         ELSE /\ calls' = [calls EXCEPT ![c].phase = "waiting",
                                        ![c].got = [k \in found |-> 0]]
              /\ callbacks' = [k \in DOMAIN callbacks |->
                                 IF k \in found THEN Append(callbacks[k], c) ELSE callbacks[k]]
      /\ UNCHANGED <<keyCache, objectIDs, aliases, orphans, reused>>

\* Faulty variant: the first value a call waits for sends it.
ToldAtOnce(cs, waiters, k, value) ==
  [c \in Calls |->
     IF c \notin Range(waiters) THEN cs[c]
     ELSE [cs[c] EXCEPT !.got[k] = value, !.phase = "sent"]]

\* The callbacks of key k: the last value a call waits for sends it.
Told(cs, waiters, k, value) ==
  [c \in Calls |->
     IF c \notin Range(waiters) THEN cs[c]
     ELSE LET got == [cs[c].got EXCEPT ![k] = value]
          IN  [cs[c] EXCEPT !.got = got,
                            !.phase = IF \A j \in DOMAIN got : got[j] # 0 THEN "sent" ELSE @]]

\* replaceKeyWithVariable: the fields that hold a key the call waited for get its value.
Replaced(call) == {n \in call.names : n[1] \in DOMAIN call.got /\ n[2] # "item"}

\* applyVariables, marshalVariables: what a call is sent with for each key it names.  Only a
\* variable that is another value is converted again: an input object is the object that
\* it was, and the copy made of it at the start still has the key.
Sent(call) ==
  [n \in call.names |-> IF n \in Replaced(call) /\ n[2] = "variable"
                        THEN [real |-> call.got[n[1]]] ELSE [key |-> n[1]]]

\* extractResponseKeys: the answer has the path that the mutation tracks.  Its key is told,
\* and the object of the answer and the one the key was filed under are one record.
Extracted(c) ==
  LET k == keyCache[c].key
  IN  [key |-> k, alias |-> <<c, keyCache[c].path, objectIDs[c][k]>>]

Done(call) == [Idle EXCEPT !.phase = "done", !.makes = call.makes]

Without(f, c) == [d \in DOMAIN f \ {c} |-> f[d]]

\* Faulty variant: the mutation forgets the key without calling those that wait.
SucceedSilently(c) ==
  LET k == Extracted(c).key
  IN  /\ calls[c].phase = "sent" /\ c \in DOMAIN keyCache /\ k \in DOMAIN callbacks
      /\ calls' = [calls EXCEPT ![c] = Done(@)]
      /\ callbacks' = Without(callbacks, k)
      /\ aliases' = aliases \cup {Extracted(c).alias}
      /\ keyCache' = Without(keyCache, c)
      /\ objectIDs' = Without(objectIDs, c)
      /\ orphans' = orphans \cup (Range(calls[c].makes) \ {k})
      /\ UNCHANGED reused

\* afterNetwork and end of a mutation that brought its record.
Succeed(c) ==
  LET k == Extracted(c).key
  IN  /\ calls[c].phase = "sent" /\ c \in DOMAIN keyCache /\ k \in DOMAIN callbacks
      /\ calls' = [Told(calls, callbacks[k], k, c) EXCEPT ![c] = Done(@)]
      /\ callbacks' = Without(callbacks, k)
      /\ aliases' = aliases \cup {Extracted(c).alias}
      /\ keyCache' = Without(keyCache, c)
      /\ objectIDs' = Without(objectIDs, c)
      /\ orphans' = orphans \cup (Range(calls[c].makes) \ {k})
      /\ UNCHANGED reused

\* An answer with errors, or a call that creates nothing: end forgets the mutation.
End(c) ==
  /\ calls[c].phase = "sent"
  /\ calls' = [calls EXCEPT ![c] = Done(@)]
  /\ keyCache' = Without(keyCache, c)
  /\ objectIDs' = Without(objectIDs, c)
  /\ orphans' = orphans \cup Range(calls[c].makes)
  /\ UNCHANGED <<callbacks, aliases, reused>>

\* The fetch throws, or afterNetwork does over a key that another mutation used up:
\* there is no catch hook, and end does not run.
Throw(c) ==
  /\ calls[c].phase = "sent" /\ calls[c].makes # <<>>
  /\ calls' = [calls EXCEPT ![c] = Done(@)]
  /\ orphans' = orphans \cup Range(calls[c].makes)
  /\ UNCHANGED <<callbacks, keyCache, objectIDs, aliases, reused>>

Answer(c) == Succeed(c) \/ End(c) \/ Throw(c)

\* The optimistic responses: each key is given by the caller, or the time (generateKey).
Responses(c) == {<<>>} \cup UNION {[1..n -> Keys] : n \in 1 .. MaxMade[c]}

Next ==
  \E c \in Calls :
    \/ \E makes \in Responses(c), names \in SUBSET (Inputs[c] \cap (Registered \X Places)) :
         Start(c, makes, names)
    \/ BeforeNetwork(c)
    \/ Succeed(c) \/ End(c) \/ Throw(c)

Spec == Init /\ [][Next]_vars

-----------------------------------------------------------------------------
TypeOK ==
  /\ DOMAIN callbacks \subseteq Keys /\ \A k \in DOMAIN callbacks : callbacks[k] \in Seq(Calls)
  /\ DOMAIN keyCache \subseteq Calls /\ DOMAIN objectIDs \subseteq Calls
  /\ \A c \in DOMAIN keyCache : keyCache[c] \in [path : Paths, key : Keys]
  /\ aliases \subseteq Calls \X Paths \X Paths
  /\ calls \in [Calls -> Call] /\ orphans \subseteq Keys /\ reused \subseteq Keys

Makers(k) == {c \in Calls : k \in Range(calls[c].makes)}

\* A call that is sent names no invented key whose mutation is still under way: it waited
\* for every value.  Where it names the key as a variable it is sent with the value that a
\* mutation which made the key told; in an input object the key stays, though the call
\* waited.  Excepted: a key in a list of keys, which nobody looks at; one that was made
\* twice; one that its mutation lost (only the last of a response is tracked).
KeysReplaced ==
  \A c \in Calls : calls[c].phase = "sent" =>
    LET sent == Sent(calls[c]) IN
    \A n \in DOMAIN sent :
      IF "real" \in DOMAIN sent[n] THEN sent[n].real \in Makers(n[1])
      ELSE \/ n[2] = "item"
           \/ n[1] \in reused \cup orphans
           \/ \A d \in Makers(n[1]) : ~Pending(d)

\* A call that waits has a key whose mutation is still to answer and knows of the call,
\* unless the mutation ended without saying (it failed, or made several keys).
WaitsForSomeone ==
  \A c \in Calls : calls[c].phase = "waiting" =>
    \E k \in DOMAIN calls[c].got :
      /\ calls[c].got[k] = 0
      /\ \/ k \in orphans \cup reused
         \/ /\ k \in DOMAIN callbacks /\ c \in Range(callbacks[k])
            /\ \E d \in Makers(k) : Pending(d) /\ k \in Range(calls[d].makes)
=============================================================================
