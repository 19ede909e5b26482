---------------------------- MODULE SvelteStores ----------------------------
(***************************************************************************)
(* A query store of houdini-svelte in the browser (stores/base.ts,         *)
(* stores/query.ts): what components subscribe to is a copy, #store, of a  *)
(* document store that exists once the client is loaded, and fetch is      *)
(* called by loads and by components.  Of the document store the module    *)
(* has what QueryStore says of send, its subscription and its cleanup.     *)
(***************************************************************************)
EXTENDS Naturals, Sequences

CONSTANTS
  Readers,    \* who subscribes
  Calls,      \* bound: calls of fetch, in order
  Variables,
  Policies,   \* of fetch: "CacheOrNetwork", "NetworkOnly"
  None,       \* no variables
  Unset,      \* no last variables, no subscription
  MaxWrites,  \* bound: writes of other documents
  MaxMoves    \* bound: readers that come

VARIABLES
  client,       \* client.ts: "absent", "loading" or "ready"
  setups,       \* continuations of setup, with their init
  readers,      \* who has subscribed and not left
  count,        \* #subscriberCount
  listening,    \* #unsubscribe is set
  shown,        \* the value of #store
  observer,     \* the value of the document store
  last,         \* its #lastVariables
  subscribed,   \* the variables of its subscription in the cache
  loadPending,
  calls,
  cache,        \* the version of what the cache has for each variables, 0 for nothing
  failed,       \* a load has failed (history)
  away,         \* readers were away since the observer was last set (history)
  crossed,      \* requests were out together, one failed, or readers left during one (history)
  clock, moves

page == <<readers, count>>
document == <<observer, last, subscribed>>
history == <<failed, away, crossed>>
vars == <<client, setups, page, listening, shown, document, loadPending, calls, cache, history,
          clock, moves>>

Idle == [kind |-> "load", variables |-> None, policy |-> "NetworkOnly", blocking |-> TRUE,
         changed |-> FALSE, at |-> "idle"]
Empty == [variables |-> None, version |-> 0]

Init ==
  /\ client = "absent" /\ setups = <<>>
  /\ readers = {} /\ count = 0 /\ listening = FALSE
  /\ shown = Empty /\ observer = Empty /\ last = Unset /\ subscribed = Unset
  /\ loadPending = FALSE /\ calls = [c \in Calls |-> Idle]
  /\ cache = [v \in Variables |-> 0]
  /\ failed = FALSE /\ away = FALSE /\ crossed = FALSE
  /\ clock = 0 /\ moves = 0

\* A continuation that can run does so before anything but the code that runs now.
Free == ~(client = "ready" /\ setups # <<>>)
Out == {c \in Calls : calls[c].at = "out"}
Underway == {c \in Calls : calls[c].at \in {"client", "params", "silent", "out"}}

-----------------------------------------------------------------------------
(* The document store.                                                     *)

\* Its value changes, and with it that of #store if it listens.
Set(o) ==
  /\ observer' = o
  /\ shown' = IF listening THEN o ELSE shown
  /\ away' = (away /\ o = observer)

\* The end of the pipeline: the subscription follows variables that had changed.
Ends(v, changed) ==
  /\ subscribed' = IF changed THEN v ELSE subscribed
  /\ last' = v

\* The last subscriber leaves; svelte's get is one that leaves at once.
Cleanup == last' = Unset /\ subscribed' = Unset
Get == IF listening THEN UNCHANGED <<last, subscribed>> ELSE Cleanup

-----------------------------------------------------------------------------
(* BaseStore.                                                              *)

\* setup, up to the promise of the client.
SetUp(init) ==
  /\ setups' = Append(setups, init)
  /\ client' = IF client = "absent" THEN "loading" ELSE client

\* Faulty variant: the store that listens again leaves the subscription to the next fetch.
InitializesNever(init) == FALSE

Initializes(init) == init

\* The rest of setup.
Continue ==
  /\ client = "ready" /\ setups # <<>>
  /\ setups' = Tail(setups)
  /\ IF listening THEN UNCHANGED <<listening, shown, last, subscribed>>
     ELSE /\ listening' = TRUE
          /\ shown' = observer
          /\ IF Initializes(Head(setups)) THEN Ends(observer.variables, last # observer.variables)
             ELSE UNCHANGED <<last, subscribed>>
  /\ UNCHANGED <<client, page, observer, loadPending, calls, cache, history, clock, moves>>

ClientLoads ==
  /\ client = "loading"
  /\ client' = "ready"
  /\ UNCHANGED <<setups, page, listening, shown, document, loadPending, calls, cache, history,
                 clock, moves>>

Subscribe(r) ==
  /\ r \notin readers /\ moves < MaxMoves /\ moves' = moves + 1
  /\ readers' = readers \cup {r} /\ count' = count + 1
  /\ IF count = 0 \/ ~listening THEN SetUp(TRUE) ELSE UNCHANGED <<setups, client>>
  /\ UNCHANGED <<listening, shown, document, loadPending, calls, cache, history, clock>>

Unsubscribe(r) ==
  /\ r \in readers
  /\ readers' = readers \ {r} /\ count' = count - 1
  /\ IF count' = 0
     THEN /\ listening' = FALSE
          /\ IF listening THEN Cleanup ELSE UNCHANGED <<last, subscribed>>
          /\ away' = TRUE
          /\ crossed' = (crossed \/ Underway # {})
     ELSE UNCHANGED <<listening, last, subscribed, away, crossed>>
  /\ UNCHANGED <<client, setups, shown, observer, loadPending, calls, cache, failed, clock, moves>>

-----------------------------------------------------------------------------
(* QueryStore.fetch.                                                       *)

\* A load fetches with an event, and blocks if the configuration, throwOnError or the
\* caller say so; a component always does.  (With a loading state none would.)
Fetch(c, kind, v, policy, blocking) ==
  /\ Free /\ calls[c] = Idle /\ \A b \in Calls : b < c => calls[b] # Idle
  /\ kind = "component" => blocking
  /\ calls' = [calls EXCEPT ![c] = [kind |-> kind, variables |-> v, policy |-> policy,
                                    blocking |-> blocking, changed |-> FALSE, at |-> "client"]]
  /\ client' = IF client = "absent" THEN "loading" ELSE client
  /\ UNCHANGED <<setups, page, listening, shown, document, loadPending, cache, history, clock,
                 moves>>

\* After initClient.  A load then waits for the session of its parent.
Prepare(c) ==
  /\ calls[c].at = "client" /\ client = "ready"
  /\ calls' = [calls EXCEPT ![c].at = "params"]
  /\ SetUp(FALSE)
  /\ UNCHANGED <<page, listening, shown, document, loadPending, cache, history, clock, moves>>

\* A call that is over is forgotten but for its end.
To(c, at) == calls' = [calls EXCEPT ![c] = [(IF at = "silent" THEN @ ELSE Idle) EXCEPT !.at = at]]

\* The request of a call: answered by the cache, or out.  The get that returns the value
\* runs once the cache has answered, or with the request out if the call does not wait.
Request(c) ==
  LET k == calls[c]
      v == k.variables
      hit == k.policy = "CacheOrNetwork" /\ cache[v] # 0
  IN  /\ IF hit
         THEN /\ Set([variables |-> v, version |-> cache[v]])
              /\ IF listening THEN Ends(v, last # v) ELSE Cleanup
              /\ To(c, "done")
              /\ loadPending' = FALSE
         ELSE /\ calls' = [calls EXCEPT ![c].at = "out", ![c].changed = last # v]
              /\ loadPending' = (loadPending \/ k.kind = "load")
              /\ IF k.blocking THEN UNCHANGED <<last, subscribed>> ELSE Get
              /\ UNCHANGED <<observer, shown, away>>
      /\ crossed' = (crossed \/ Out # {})
      /\ UNCHANGED failed

Stops(c) == loadPending /\ calls[c].kind = "component"

\* A call that does not wait shows what the cache has first; a miss says nothing, but
\* it is subscribed.
Start(c) ==
  LET k == calls[c]
      v == k.variables
  IN  /\ Free /\ k.at = "params"
      /\ CASE Stops(c) ->
                To(c, "stopped") /\ Get /\ UNCHANGED <<observer, shown, loadPending, history>>
           [] ~Stops(c) /\ ~k.blocking /\ k.policy = "CacheOrNetwork" ->
                /\ To(c, "silent")
                /\ loadPending' = (loadPending \/ k.kind = "load")
                /\ Ends(v, last # v)
                /\ IF cache[v] = 0 THEN UNCHANGED <<observer, shown, away>>
                   ELSE Set([variables |-> v, version |-> cache[v]])
                /\ crossed' = (crossed \/ Out # {})
                /\ UNCHANGED failed
           [] OTHER -> Request(c)
      /\ UNCHANGED <<client, setups, page, listening, cache, clock, moves>>

AfterSilent(c) ==
  /\ Free /\ calls[c].at = "silent"
  /\ Request(c)
  /\ UNCHANGED <<client, setups, page, listening, cache, clock, moves>>

\* The answer is written, which tells the subscription, and ends the pipeline.
Reply(c) ==
  LET k == calls[c]
      v == k.variables
  IN  /\ Free /\ k.at = "out" /\ clock' = clock + 1
      /\ cache' = [cache EXCEPT ![v] = clock']
      /\ Set([variables |-> v, version |-> clock'])
      /\ IF k.blocking /\ ~listening THEN Cleanup ELSE Ends(v, k.changed)
      /\ To(c, "done")
      /\ loadPending' = FALSE
      /\ UNCHANGED <<client, setups, page, listening, failed, crossed, moves>>

\* Nobody hears of it: the promise of a load that does not wait has a silent catch.
Fail(c) ==
  /\ Free /\ calls[c].at = "out"
  /\ To(c, "failed")
  /\ failed' = (failed \/ calls[c].kind = "load")
  /\ crossed' = TRUE
  /\ UNCHANGED <<client, setups, page, listening, shown, document, loadPending, cache, away,
                 clock, moves>>

-----------------------------------------------------------------------------
\* Another document writes what this one may show.
OtherWrite(v) ==
  /\ Free /\ clock < MaxWrites /\ clock' = clock + 1
  /\ cache' = [cache EXCEPT ![v] = clock']
  /\ IF subscribed = v
     THEN Set([variables |-> v, version |-> clock']) /\ last' = v
     ELSE UNCHANGED <<observer, shown, away, last>>
  /\ UNCHANGED <<client, setups, page, listening, subscribed, loadPending, calls, failed, crossed,
                 moves>>

Next ==
  \/ ClientLoads \/ Continue
  \/ \E r \in Readers : Subscribe(r) \/ Unsubscribe(r)
  \/ \E c \in Calls : \/ \E kind \in {"load", "component"}, v \in Variables, policy \in Policies,
                            blocking \in BOOLEAN : Fetch(c, kind, v, policy, blocking)
                      \/ Prepare(c) \/ Start(c) \/ AfterSilent(c) \/ Reply(c) \/ Fail(c)
  \/ \E v \in Variables : OtherWrite(v)

Spec == Init /\ [][Next]_vars

-----------------------------------------------------------------------------
Places == {"idle", "client", "params", "silent", "out", "done", "stopped", "failed"}
Values == [variables : Variables \cup {None}, version : Nat]

TypeOK ==
  /\ client \in {"absent", "loading", "ready"} /\ setups \in Seq(BOOLEAN)
  /\ readers \subseteq Readers /\ count \in Nat
  /\ listening \in BOOLEAN /\ shown \in Values /\ observer \in Values
  /\ last \in Variables \cup {None, Unset} /\ subscribed \in Variables \cup {None, Unset}
  /\ loadPending \in BOOLEAN /\ \A c \in Calls : calls[c].at \in Places

Quiet == setups = <<>> /\ client # "loading"
         /\ Underway = {}

\* Once all is quiet, a store that somebody reads listens to its document store and that
\* one to the cache, for the variables it shows: however loading the client, leaving,
\* coming back and fetching interleaved (base.ts: setup, subscribe).  Requests that were
\* out together, that failed or that found nobody are left to QueryStore, and what was
\* written while everybody was away is only seen with the next fetch.
Follows ==
  Quiet /\ readers # {} =>
    /\ listening /\ shown = observer
    /\ ~crossed => subscribed = observer.variables
    /\ ~crossed /\ ~away /\ observer # Empty => observer.version = cache[observer.variables]

\* A component's fetch is ignored only while a load is under way, or after one failed
\* (query.ts: loadPending).
LoadsInProgress ==
  loadPending =>
    failed \/ \E c \in Calls : calls[c].kind = "load" /\ calls[c].at \in {"silent", "out"}
=============================================================================
