--------------------------- MODULE MutationCache ----------------------------
(***************************************************************************)
(* Mutations in flight over the layered cache: the mutation plugin         *)
(* (houdini-core/runtime/plugins/mutation.ts), the cachePolicy plugin's    *)
(* write, the parts of DocumentStore.#step that decide which hooks a       *)
(* failing mutation still runs, and the cache's notification of readers.   *)
(*                                                                         *)
(* JavaScript runs a hook to its next await without interruption, so an    *)
(* action is what one such stretch does.  The awaits are: the marshalling  *)
(* of the optimistic response in mutation.start, the network, and the end  *)
(* hook of a user's plugin, which runs between cachePolicy.afterNetwork    *)
(* and mutation.end and may be async.                                      *)
(***************************************************************************)
EXTENDS LayeredStorage

CONSTANTS
  Mutations,          \* calls of mutate()
  Query,              \* the owner of what queries write
  Nobody,             \* in shown: the cell has no subscriber
  OptimisticPatches,  \* what an optimistic response may say
  ResponsePatches,    \* what a mutation's response may say
  QueryPatches,       \* what a query, or the imperative cache api, may write
  Abortable,          \* the mutations whose AbortController may fire
  Faulty,             \* may a hook throw on data it cannot handle?
  MaxWrites,          \* bound: writes that are not a mutation's
  MaxResets           \* bound: calls of cache.reset()

ASSUME MutationAssumption ==
  /\ Query \notin Mutations
  /\ Nobody \notin Values \cup {Absent}
  /\ OptimisticPatches \subseteq Patch
  /\ ResponsePatches \subseteq Patch
  /\ QueryPatches \subseteq Patch
  /\ NoPatch \in ResponsePatches
  /\ Abortable \subseteq Mutations
  /\ Faulty \in BOOLEAN
  /\ MaxWrites \in Nat
  /\ MaxResets \in Nat

VARIABLES
  data,      \* InMemoryStorage.data
  idCount,   \* InMemoryStorage.idCount
  phase,     \* where each mutation's pipeline is
  layerOf,   \* ctx.cacheParams.layer.id of each mutation
  aborted,   \* the mutations whose signal is aborted
  writes,    \* bound: how many writes there have been
  resets,    \* bound: how many resets there have been
  shown,     \* what the subscriber of each cell, if any, was last told
  log        \* history: the patch of each operation, in the order they began

vars == <<data, idCount, phase, layerOf, aborted, writes, resets, shown, log>>

Active  == {"marshalling", "inflight", "ending", "endingWithErrors"}
Settled == {"committed", "rolledback", "rejected"}
Phases  == {"idle"} \cup Active \cup Settled

NoLayer == 0

Told == [Cell -> Values \cup {Absent, Nobody}]

Init ==
  /\ data = <<>>
  /\ idCount = 1
  /\ phase = [m \in Mutations |-> "idle"]
  /\ layerOf = [m \in Mutations |-> NoLayer]
  /\ aborted = {}
  /\ writes = 0
  /\ resets = 0
  /\ shown = [c \in Cell |-> Nobody]
  /\ log = <<>>

-----------------------------------------------------------------------------
(* Notifying subscribers                                                    *)

\* Whether Cache.write, writing patch p in layer i, tells the subscriber of
\* cell c.  force is the forceNotify of the mutation plugin's cacheParams.
WriteNotifies(stack, i, p, force, c) ==
  /\ p.writes[c] # Absent
  /\ ~Skipped(stack, c, p.writes[c])
  /\ \/ c[2] \in LinkFields /\ p.writes[c] = Null
     \/ /\ IsDisplayLayer(stack, i, c)
        /\ force \/ p.writes[c] # Lookup(stack, c)

\* Whether Cache.clearLayer, clearing layer i, tells the subscriber of cell c:
\* the layer was displaying the cell and the cell now reads otherwise.
ClearNotifies(stack, i, c) ==
  /\ stack[i].fields[c] # Absent
  /\ Decides(stack, i, c)
  /\ Lookup(ClearAt(stack, i), c) # stack[i].fields[c]

\* Deleting a record removes its subscribers, after it has told them.
AfterWrite(told, stack, i, p, force) ==
  [c \in Cell |-> IF told[c] = Nobody \/ c[1] \in p.deletes THEN Nobody
                   ELSE IF WriteNotifies(stack, i, p, force, c)
                     THEN Lookup(WriteAt(stack, i, p), c) ELSE told[c]]

AfterClear(told, stack, i) ==
  [c \in Cell |-> IF told[c] # Nobody /\ ClearNotifies(stack, i, c)
                    THEN Lookup(ClearAt(stack, i), c) ELSE told[c]]

-----------------------------------------------------------------------------
(* The history                                                              *)

LogRewrite(m, p) ==
  [i \in DOMAIN log |-> IF log[i].owner = m THEN [log[i] EXCEPT !.patch = p] ELSE log[i]]

LogAppend(owner, p) == Append(log, [owner |-> owner, patch |-> p])

-----------------------------------------------------------------------------
(* The pipeline of a mutation                                               *)

GoTo(m, p) == phase' = [phase EXCEPT ![m] = p]

Bounds == <<writes, resets>>

HasOwnLayer(m) == HasLayer(data, layerOf[m])
OwnLayer(m)    == IndexOf(data, layerOf[m])

\* mutation.start up to its first await: an optimistic layer in any case, and
\* an optimistic response to marshal if the caller passed one.
Start(m) ==
  /\ phase[m] = "idle"
  /\ data' = Append(data, NewLayer(idCount, TRUE))
  /\ idCount' = idCount + 1
  /\ layerOf' = [layerOf EXCEPT ![m] = idCount]
  /\ \E next \in {"marshalling", "inflight"} : GoTo(m, next)
  /\ log' = LogAppend(m, NoPatch)
  /\ UNCHANGED <<aborted, shown, Bounds>>

\* The rest of mutation.start.  An abort is noticed by the next hook only, so
\* the optimistic response is written all the same.
WriteOptimistic(m) ==
  /\ phase[m] = "marshalling"
  /\ HasOwnLayer(m)
  /\ \E p \in OptimisticPatches :
       /\ data' = WriteAt(data, OwnLayer(m), p)
       /\ shown' = AfterWrite(shown, data, OwnLayer(m), p, FALSE)
       /\ log' = LogRewrite(m, IF m \in aborted THEN NoPatch ELSE p)
  /\ GoTo(m, IF m \in aborted THEN "rejected" ELSE "inflight")
  /\ UNCHANGED <<idCount, layerOf, aborted, Bounds>>

\* marshalSelection throws in mutation.start: the error goes to the catch
\* hooks of the plugins before this one, so mutation.catch does not run.
MarshalFails(m) ==
  /\ Faulty
  /\ phase[m] = "marshalling"
  /\ GoTo(m, "rejected")
  /\ UNCHANGED <<data, idCount, layerOf, aborted, shown, log, Bounds>>

\* A response: mutation.afterNetwork clears the layer, cachePolicy.afterNetwork
\* writes the data, if there is any, with forceNotify.
Respond(m) ==
  /\ phase[m] = "inflight"
  /\ m \notin aborted
  /\ HasOwnLayer(m)
  /\ LET i == OwnLayer(m)
         cleared == ClearAt(data, i)
     IN  \E p \in ResponsePatches :
           /\ data' = WriteAt(cleared, i, p)
           /\ shown' = AfterWrite(AfterClear(shown, data, i), cleared, i, p, TRUE)
           /\ log' = LogRewrite(m, p)
  /\ \E next \in {"ending", "endingWithErrors"} : GoTo(m, next)
  /\ UNCHANGED <<idCount, layerOf, aborted, Bounds>>

\* writeSelection throws on the response (a parentID that is no string, an
\* interface without its __typename) after it has written some of it.
\* cachePolicy is the first plugin: no catch hook comes before it.
ResponseUnwritable(m) ==
  /\ Faulty
  /\ phase[m] = "inflight"
  /\ m \notin aborted
  /\ HasOwnLayer(m)
  /\ LET i == OwnLayer(m)
         cleared == ClearAt(data, i)
     IN  \E p \in ResponsePatches :
           /\ data' = WriteAt(cleared, i, p)
           /\ shown' = AfterClear(shown, data, i)
           /\ log' = LogRewrite(m, NoPatch)
  /\ GoTo(m, "rejected")
  /\ UNCHANGED <<idCount, layerOf, aborted, Bounds>>

\* A faulty mutation.catch that clears the layer and does not resolve it.
CatchUnresolved(m) ==
  LET i == OwnLayer(m)
  IN  /\ data' = ClearAt(data, i)
      /\ shown' = AfterClear(shown, data, i)
      /\ log' = LogRewrite(m, NoPatch)
      /\ GoTo(m, "rolledback")
      /\ UNCHANGED <<idCount, layerOf, aborted, Bounds>>

\* mutation.catch: roll the layer back and merge what is left of it.
Catch(m) ==
  LET i == OwnLayer(m)
  IN  /\ data' = ResolveAt(ClearAt(data, i), i)
      /\ shown' = AfterClear(shown, data, i)
      /\ log' = LogRewrite(m, NoPatch)
      /\ GoTo(m, "rolledback")
      /\ UNCHANGED <<idCount, layerOf, aborted, Bounds>>

\* The request fails, or a plugin that comes after the mutation plugin throws.
NetworkFails(m) ==
  /\ phase[m] = "inflight"
  /\ m \notin aborted
  /\ HasOwnLayer(m)
  /\ Catch(m)

EndHookFails(m) ==
  /\ phase[m] \in {"ending", "endingWithErrors"}
  /\ m \notin aborted
  /\ HasOwnLayer(m)
  /\ Catch(m)

\* mutation.end
EndCommits(m) ==
  /\ phase[m] = "ending"
  /\ m \notin aborted
  /\ HasOwnLayer(m)
  /\ data' = ResolveAt(data, OwnLayer(m))
  /\ GoTo(m, "committed")
  /\ UNCHANGED <<idCount, layerOf, aborted, shown, log, Bounds>>

EndRollsBack(m) ==
  /\ phase[m] = "endingWithErrors"
  /\ m \notin aborted
  /\ HasOwnLayer(m)
  /\ Catch(m)

\* The caller's AbortController fires, or a deduplicated call aborts this one.
Abort(m) ==
  /\ m \in Abortable \ aborted
  /\ phase[m] \in Active
  /\ aborted' = aborted \cup {m}
  /\ UNCHANGED <<data, idCount, phase, layerOf, shown, log, Bounds>>

\* #step refuses to run any hook, a catch hook included, once the signal is
\* aborted: the promise rejects and the layer stays where it is.
Rejected(m) ==
  /\ phase[m] \in Active \ {"marshalling"}
  /\ m \in aborted
  /\ GoTo(m, "rejected")
  /\ log' = LogRewrite(m, NoPatch)
  /\ UNCHANGED <<data, idCount, layerOf, aborted, shown, Bounds>>

\* The cache was reset under the mutation: getLayer throws in the next hook.
LayerGone(m) ==
  /\ phase[m] \in Active
  /\ ~HasOwnLayer(m)
  /\ GoTo(m, "rejected")
  /\ UNCHANGED <<data, idCount, layerOf, aborted, shown, log, Bounds>>

-----------------------------------------------------------------------------
(* The rest of the cache's users                                            *)

\* A faulty topLayer that does not count the layer it makes.
QueryWriteUncounted ==
  /\ writes < MaxWrites
  /\ LET stack == WithTop(data, idCount)
         top == Len(stack)
     IN  \E p \in QueryPatches :
           /\ data' = WriteAt(stack, top, p)
           /\ shown' = AfterWrite(shown, stack, top, p, FALSE)
           /\ log' = LogAppend(Query, p)
  /\ writes' = writes + 1
  /\ UNCHANGED <<idCount, phase, layerOf, aborted, resets>>

\* A query's response, or a write through the imperative api, goes to the
\* layer on top, on a new one if a mutation's layer is there.
QueryWrite ==
  /\ writes < MaxWrites
  /\ LET stack == WithTop(data, idCount)
         top == Len(stack)
     IN  \E p \in QueryPatches :
           /\ data' = WriteAt(stack, top, p)
           /\ shown' = AfterWrite(shown, stack, top, p, FALSE)
           /\ log' = LogAppend(Query, p)
  /\ idCount' = IF NeedsTop(data) THEN idCount + 1 ELSE idCount
  /\ writes' = writes + 1
  /\ UNCHANGED <<phase, layerOf, aborted, resets>>

\* A faulty reset that starts the ids again.
ResetIds ==
  /\ resets < MaxResets
  /\ data' = <<>>
  /\ idCount' = 1
  /\ shown' = [c \in Cell |-> Nobody]
  /\ log' = <<>>
  /\ resets' = resets + 1
  /\ UNCHANGED <<phase, layerOf, aborted, writes>>

\* Cache.reset: the layers go and the ids go on; the subscribers of the records
\* are told, once more, and removed.
Reset ==
  /\ resets < MaxResets
  /\ data' = <<>>
  /\ shown' = [c \in Cell |-> Nobody]
  /\ log' = <<>>
  /\ resets' = resets + 1
  /\ UNCHANGED <<idCount, phase, layerOf, aborted, writes>>

\* Documents subscribe to the records they have read, when they are sent or
\* when a write links a record to one of theirs.
Subscribe ==
  /\ \E c \in Cell : shown[c] = Nobody
  /\ shown' = Display(data)
  /\ UNCHANGED <<data, idCount, phase, layerOf, aborted, log, Bounds>>

Step(m) ==
  \/ WriteOptimistic(m) \/ MarshalFails(m)
  \/ Respond(m) \/ ResponseUnwritable(m) \/ NetworkFails(m)
  \/ EndCommits(m) \/ EndRollsBack(m) \/ EndHookFails(m)
  \/ Rejected(m) \/ LayerGone(m)

Next ==
  \/ \E m \in Mutations : Start(m) \/ Step(m) \/ Abort(m)
  \/ QueryWrite
  \/ Reset
  \/ Subscribe

Spec == Init /\ [][Next]_vars

\* The event loop runs what is ready, and a request is answered or fails.
Fairness == \A m \in Mutations : WF_vars(Step(m))

FairSpec == Spec /\ Fairness

-----------------------------------------------------------------------------
(* Properties                                                               *)

TypeOK ==
  /\ data \in Seq(Layer)
  /\ idCount \in Nat
  /\ phase \in [Mutations -> Phases]
  /\ layerOf \in [Mutations -> Nat]
  /\ aborted \in SUBSET Mutations
  /\ writes \in 0 .. MaxWrites
  /\ resets \in 0 .. MaxResets
  /\ shown \in Told
  /\ log \in Seq([owner : Mutations \cup {Query}, patch : Patch])

\* Layer ids grow up the stack and are never used twice, which is what
\* isDisplayLayer takes for granted when it compares ids to compare heights,
\* and what getLayer does when it takes the first layer with the id.
IdsGrow ==
  /\ \A i \in DOMAIN data : data[i].id \in 1 .. idCount - 1
  /\ \A i, j \in DOMAIN data : i < j => data[i].id < data[j].id

\* A mutation in flight finds its own layer, still optimistic, whatever the
\* others have merged in the meantime (unless the cache was reset under it).
PendingLayerKept ==
  \A m \in Mutations : phase[m] \in Active =>
    \/ \E i \in DOMAIN data : data[i].id = layerOf[m] /\ data[i].optimistic
    \/ resets > 0 /\ ~HasOwnLayer(m)

\* An optimistic layer is touched by the hooks of its own mutation only: a
\* step that leaves the mutation where it is leaves its layer as it is, though
\* it may move in the stack.  A reset is the one exception.
PendingLayerIsolated ==
  [][resets' = resets =>
       \A i \in DOMAIN data :
         data[i].optimistic /\ (\A m \in Mutations : layerOf[m] = data[i].id => phase'[m] = phase[m])
           => \E j \in DOMAIN data' : data'[j] = data[i]]_vars

\* resolveLayer leaves no two committed layers one above the other, and no
\* layer stays optimistic once its mutation has settled: what is stored is
\* bounded by the mutations in flight, and by one layer when there are none.
Compacted ==
  /\ Alternating(data)
  /\ \A i \in DOMAIN data : data[i].optimistic =>
       \E m \in Mutations : phase[m] \in Active /\ layerOf[m] = data[i].id

\* Every subscriber has been told what a read of the cache would give it now:
\* no write, rollback or merge changes a cell behind its subscriber's back.
SubscribersCurrent == \A c \in Cell : shown[c] \in {Nobody, Lookup(data, c)}

\* A mutation that failed shows nothing any more (docs: the optimistic
\* changes are reverted and the promise rejects with the error): no layer
\* that is still its own holds anything.
FailedMutationReverted ==
  \A m \in Mutations : phase[m] \in {"rolledback", "rejected"} =>
    \A i \in DOMAIN data :
      data[i].id = layerOf[m] /\ data[i].optimistic =>
        data[i].fields = NoContents /\ data[i].deleted = {}

\* Merging a layer that succeeded is invisible: the response was already
\* being displayed, and nothing else may surface or vanish with the merge.
MergeInvisible ==
  [][(\E m \in Mutations : phase[m] = "ending" /\ phase'[m] = "committed")
       => Display(data') = Display(data)]_vars

\* The layers implement the log of patches: what is read is always the last
\* thing said, in the order in which the operations began.  This leaves out
\* nulls of links, which a write skips where the link reads null already.
Patches == INSTANCE PatchLog
             WITH open <- {m \in Mutations : phase[m] \in Active},
                  view <- Display(data)
ImplementsPatchLog == Patches!Spec

\* Once every mutation that began has been answered, one layer is left.
SettlesToOneLayer == []<>(Len(data) <= 1)
=============================================================================
