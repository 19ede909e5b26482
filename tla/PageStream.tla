------------------------------ MODULE PageStream ------------------------------
(***************************************************************************)
(* The first load of a page of houdini-react: the server sends the queries *)
(* of the page at once, streams the html when those that are not @loading  *)
(* have been answered, and a script for each answer that comes later; the  *)
(* browser runs the scripts as they come and the page's module, which is   *)
(* deferred, when the document is complete.  From what the scripts left    *)
(* the module sets up the router's caches and renders.                     *)
(***************************************************************************)
EXTENDS Naturals, Sequences, FiniteSets, SequencesExt

CONSTANTS
  Queries,     \* of the page and its layouts
  None

VARIABLES
  loading,     \* the queries that are @loading; never changes
  server,      \* for each query: "sent", "data" or "errors"
  pass,        \* the render: "shell", "open", "closed" or "error" (its second pass)
  stream,      \* the scripts that the browser has not run
  window,      \* what scripts have left: snapshots of the cache, data and errors
  hydrated,    \* hydrate_page has run
  cache,       \* the queries that the browser's cache can answer
  data,        \* data_cache: for each query None, "data", "errors" or "placeholder"
  signals,     \* ssr_signals
  artifacts,   \* artifact_cache
  asked,       \* the queries that the browser has to send to the API
  dropped      \* the answers for which no script could be sent (history)

vars == <<loading, server, pass, stream, window, hydrated, cache, data, signals, artifacts, asked,
          dropped>>

Settled == {q \in Queries : server[q] # "sent"}
\* What the server's cache has, and serialize writes.
Snapshot == {q \in Queries : server[q] = "data"}
NoWindow == [initial |-> {}, snapshots |-> <<>>, data |-> {}, errors |-> {}]

Init ==
  /\ loading \in SUBSET Queries
  /\ server = [q \in Queries |-> "sent"] /\ pass = "shell" /\ stream = <<>>
  /\ window = NoWindow /\ hydrated = FALSE
  /\ cache = {} /\ data = [q \in Queries |-> None] /\ signals = {} /\ artifacts = {}
  /\ asked = {} /\ dropped = {}

-----------------------------------------------------------------------------
(* The server.                                                             *)

\* The script for an answer, if the stream is there to take it.
Inject(q, chunk) ==
  IF pass = "open" THEN stream' = Append(stream, chunk) /\ UNCHANGED dropped
  ELSE dropped' = dropped \cup {q} /\ UNCHANGED stream

\* The send of load_query ends.  What it throws becomes errors of the store.
Answered(q, how) ==
  /\ server[q] = "sent" /\ pass \in {"shell", "open"}
  /\ server' = [server EXCEPT ![q] = how]
  /\ Inject(q, IF how = "data" THEN [kind |-> "data", query |-> q, snapshot |-> Snapshot \cup {q}]
               ELSE [kind |-> "errors", query |-> q, snapshot |-> {}])
  /\ UNCHANGED <<loading, pass, window, hydrated, cache, data, signals, artifacts, asked>>

\* The first pass ends, with the script of the initial values, or is rejected for the errors
\* of a query that nothing shows the loading state of; the second shows the errors instead.
Shell ==
  /\ pass = "shell"
  /\ \/ /\ \E q \in Settled \ loading : server[q] # "data"
        /\ pass' = "error"
        /\ UNCHANGED stream
     \/ /\ \A q \in Queries \ loading : server[q] = "data"
        /\ pass' = "open"
        /\ stream' = <<[kind |-> "initial", query |-> None, snapshot |-> Snapshot]>>
  /\ UNCHANGED <<loading, server, window, hydrated, cache, data, signals, artifacts, asked, dropped>>

Close ==
  /\ pass = "open" /\ Settled = Queries /\ pass' = "closed"
  /\ UNCHANGED <<loading, server, stream, window, hydrated, cache, data, signals, artifacts, asked, dropped>>

-----------------------------------------------------------------------------
(* The browser.                                                            *)

\* A script runs before the page's module: it leaves its snapshot and data, or its errors.
\* Faulty variant: the errors are only given to caches that are there.
LeftNoErrors(c) ==
  CASE c.kind = "initial" -> [window EXCEPT !.initial = c.snapshot]
    [] c.kind = "data" -> [window EXCEPT !.snapshots = Append(@, c.snapshot), !.data = @ \cup {c.query}]
    [] c.kind = "errors" -> window
Left(c) ==
  CASE c.kind = "initial" -> [window EXCEPT !.initial = c.snapshot]
    [] c.kind = "data" -> [window EXCEPT !.snapshots = Append(@, c.snapshot), !.data = @ \cup {c.query}]
    [] c.kind = "errors" -> [window EXCEPT !.errors = @ \cup {c.query}]

Script ==
  /\ stream # <<>> /\ stream' = Tail(stream)
  /\ window' = Left(Head(stream))
  /\ UNCHANGED <<loading, server, pass, hydrated, cache, data, signals, artifacts, asked, dropped>>

\* The cache is hydrated with the initial snapshot and each of those that were queued, and a
\* store made for whatever has data or errors; one reads what the cache has for it.
Hydrated == window.initial \cup UNION {window.snapshots[i] : i \in DOMAIN window.snapshots}
Store(q) ==
  CASE q \in window.errors -> "errors"
    [] q \in window.data \ window.errors -> IF q \in Hydrated THEN "data" ELSE "placeholder"
    [] OTHER -> None

\* hydrate_page, and router_cache with a signal for every query that is @loading.
HydratePage ==
  /\ pass = "closed" /\ stream = <<>> /\ ~hydrated
  /\ hydrated' = TRUE /\ cache' = Hydrated
  /\ data' = [q \in Queries |-> Store(q)]
  /\ artifacts' = window.data \cup window.errors
  /\ signals' = loading
  /\ window' = [window EXCEPT !.snapshots = <<>>, !.errors = {}]
  /\ UNCHANGED <<loading, server, pass, stream, asked, dropped>>

\* loadData of the first render, and of those when an artifact has come: load_query sends
\* what has no store and no signal; the cache answers it if it can.
LoadQuery(q) ==
  /\ hydrated /\ data[q] = None
  /\ artifacts' = artifacts \cup {q}
  /\ IF q \in signals THEN UNCHANGED <<data, asked>>
     ELSE IF q \in cache THEN data' = [data EXCEPT ![q] = "data"] /\ UNCHANGED asked
     ELSE asked' = asked \cup {q} /\ UNCHANGED data
  /\ UNCHANGED <<loading, server, pass, stream, window, hydrated, cache, signals, dropped>>

Next ==
  \/ \E q \in Queries : \/ \E how \in {"data", "errors"} : Answered(q, how)
                        \/ LoadQuery(q)
  \/ Shell \/ Close \/ Script \/ HydratePage

Spec == Init /\ [][Next]_vars

-----------------------------------------------------------------------------
TypeOK ==
  /\ loading \subseteq Queries /\ signals \subseteq loading /\ asked \subseteq Queries
  /\ server \in [Queries -> {"sent", "data", "errors"}]
  /\ data \in [Queries -> {None, "data", "errors", "placeholder"}]

\* No query of a hydrated page is left waiting: each has its store, or can be loaded; unless
\* it is @loading and was answered before the html could be streamed.
NoneHangs ==
  hydrated => \A q \in Queries : data[q] # None \/ q \notin signals \/ q \in dropped

\* The page shows what the server got: nothing that the server has answered is asked for
\* again, no store reads a placeholder for it, and errors reach the page as errors.
ShowsAnswers ==
  hydrated => \A q \in Queries :
    /\ q \notin asked
    /\ data[q] \in {None, IF server[q] = "data" THEN "data" ELSE "errors"}
=============================================================================
