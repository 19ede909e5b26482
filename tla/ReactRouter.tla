---------------------------- MODULE ReactRouter ----------------------------
(***************************************************************************)
(* The React router (houdini-react/runtime/routing/Router.tsx): the caches *)
(* its renders share, the navigation that waits for them, and the session  *)
(* change that drops them.  A render may be repeated or abandoned, so what *)
(* it does to the caches is not tied to what reaches the screen.           *)
(***************************************************************************)
EXTENDS Naturals, Sequences, SequencesExt

CONSTANTS
  Urls,        \* locations the application can show
  Home,        \* the location of the first page, hydrated from the server
  Documents,   \* names of query documents
  Variables,   \* values of a document's variables
  PageOf,      \* Urls -> the page a url matches
  DocsOf,      \* Urls -> the documents of that page
  ArgsOf,      \* Urls -> Documents -> the variables a url gives a document
  None,
  MaxEvents    \* bound: navigations, preloads, session changes, urgent renders

\* Urls give documents variables.
RouterConstants ==
  /\ Home \in Urls
  /\ ArgsOf \in [Urls -> [Documents -> Variables]]
  /\ DocsOf \in [Urls -> SUBSET Documents]

\* None is not a value of a variable.
Marked == None \notin Variables
ASSUME RouterAssumption == RouterConstants /\ Marked

VARIABLES
  url,         \* currentURL, as committed
  target,      \* pendingURL
  pinged,      \* the pending transition has a reason to be rendered again
  docs,        \* the entry of each document in the five caches
  components,  \* component_cache
  generation,  \* data_cache.generation
  session,     \* latestSession.current
  shown,       \* last_store and last_vars of the mounted useQueryResult
  blank,       \* the page on screen has suspended into its fallback
  disturbed,   \* a session change, hot update or preload has happened (history)
  overtaken,   \* the documents with an answer that passed an earlier one (history)
  events

vars == <<url, target, pinged, docs, components, generation, session, shown,
          blank, disturbed, overtaken, events>>

history == <<disturbed, overtaken>>

Result == [vars : Variables, session : Nat]
NoResult == [vars |-> None, session |-> 0]

\* A request that a document store has out, by load_query or by revalidation.
Send == [load : BOOLEAN, store : Nat, vars : Variables, session : Nat,
         generation : Nat]

\* artifact_cache, data_cache, ssr_signals and last_variables for one name,
\* the imports of its artifact under way, and the stores made for it so far.
Entry == [artifact : BOOLEAN, store : Nat, signal : BOOLEAN,
          last : Variables \cup {None}, imports : Seq(Variables),
          failed : BOOLEAN, sends : Seq(Send), stores : Seq(Result \cup {NoResult})]

NewEntry == [artifact |-> FALSE, store |-> 0, signal |-> FALSE, last |-> None,
             imports |-> <<>>, failed |-> FALSE, sends |-> <<>>, stores |-> <<>>]

\* hydrate_page: what the server streamed is in the caches before the first render.
Hydrated(d) ==
  [NewEntry EXCEPT !.artifact = TRUE, !.store = 1, !.last = ArgsOf[Home][d],
                   !.stores = <<[vars |-> ArgsOf[Home][d], session |-> 1]>>]

NotShown == [store |-> 0, vars |-> None]

Init ==
  /\ url = Home /\ target = None /\ pinged = FALSE
  /\ docs = [d \in Documents |->
               IF d \in DocsOf[Home] THEN Hydrated(d) ELSE NewEntry]
  /\ components = {PageOf[Home]}
  /\ generation = 0 /\ session = 1
  /\ shown = [d \in Documents |-> IF d \in DocsOf[Home]
                THEN [store |-> 1, vars |-> ArgsOf[Home][d]] ELSE NotShown]
  /\ blank = FALSE /\ disturbed = FALSE /\ overtaken = {} /\ events = 0

-----------------------------------------------------------------------------
(* What a render does to the caches.                                       *)

\* load_query.  The variables are recorded before the pending signal is seen.
LoadQuery(e, v) ==
  LET fresh == e.store = 0
      id    == IF fresh THEN Len(e.stores) + 1 ELSE e.store
      send  == [load |-> TRUE, store |-> id, vars |-> v, session |-> session,
                generation |-> generation]
  IN  IF e.signal
      THEN [e EXCEPT !.last = v]
      ELSE [e EXCEPT !.last = v, !.signal = TRUE, !.sends = Append(@, send),
                     !.stores = IF fresh THEN Append(@, NoResult) ELSE @]

\* loadData, for one document of the page.
Evicted(e, v) ==
  IF e.last # None /\ e.last # v
  THEN [e EXCEPT !.store = 0, !.signal = FALSE] ELSE e

\* Faulty variant: the page is loaded without looking at the variables it was sent with.
LoadDocumentKeeping(e, v) ==
  CASE ~e.artifact -> [e EXCEPT !.imports = IF v \in Range(@) THEN @ ELSE Append(@, v),
                                !.failed = FALSE]
    [] e.artifact /\ e.store = 0 -> LoadQuery(e, v)
    [] OTHER -> e

LoadDocument(e, v) ==
  LET c == Evicted(e, v)
  IN  CASE ~c.artifact -> [c EXCEPT !.imports = IF v \in Range(@) THEN @ ELSE Append(@, v),
                                    !.failed = FALSE]
        [] c.artifact /\ c.store = 0 -> LoadQuery(c, v)
        [] OTHER -> c

LoadData(u) ==
  [d \in Documents |-> IF d \in DocsOf[u] THEN LoadDocument(docs[d], ArgsOf[u][d])
                                          ELSE docs[d]]

\* The revalidation effect of a committed navigation.
Revalidated(e, v) ==
  IF e.store = 0 THEN e
  ELSE [e EXCEPT !.sends = Append(@, [load |-> FALSE, store |-> e.store, vars |-> v,
                                      session |-> session, generation |-> generation])]

-----------------------------------------------------------------------------
(* useQueryResult: which store a render of the page shows.                 *)

Lagging == target # None /\ url # target

\* Faulty variant: the last store is kept while the render lags only.
StoreRefLagging(d, e) ==
  IF shown[d].store # 0 /\ Lagging THEN shown[d].store ELSE e.store

StoreRef(d, e) ==
  IF shown[d].store # 0 /\ (Lagging \/ (e.store = 0 /\ shown[d].vars # None
                                        /\ shown[d].vars = e.last))
  THEN shown[d].store ELSE e.store

\* The visible page renders with the caches as they are then.
ShowPage(now) ==
  IF \A d \in DocsOf[url] : StoreRef(d, now[d]) # 0
  THEN /\ shown' = [d \in Documents |-> IF d \in DocsOf[url]
                      THEN [store |-> StoreRef(d, now[d]), vars |-> now[d].last]
                      ELSE shown[d]]
       /\ blank' = FALSE
  ELSE /\ blank' = TRUE
       /\ UNCHANGED shown

Event == events < MaxEvents /\ events' = events + 1

\* goto, or the back button.  The urgent half of it renders the old page.
Navigate(u) ==
  /\ Event
  /\ target' = u
  /\ pinged' = (u # url)
  /\ docs' = LoadData(url)
  /\ UNCHANGED <<url, components, generation, session, shown, blank, history>>

\* A render of the destination, in the transition's lane.  If it suspends,
\* nothing of it but its effects on the caches remains.
RenderTarget ==
  /\ Lagging /\ pinged
  /\ LET now   == LoadData(target)
         ready == /\ PageOf[target] \in components
                  /\ \A d \in DocsOf[target] : now[d].store # 0
     IN  IF ready
         THEN /\ url' = target
              /\ docs' = [d \in Documents |-> IF d \in DocsOf[target]
                            THEN Revalidated(now[d], ArgsOf[target][d]) ELSE now[d]]
              /\ shown' = [d \in Documents |-> IF d \in DocsOf[target]
                             THEN [store |-> now[d].store, vars |-> now[d].last]
                             ELSE NotShown]
              /\ blank' = FALSE
         ELSE /\ docs' = now
              /\ UNCHANGED <<url, shown, blank>>
  /\ pinged' = FALSE
  /\ UNCHANGED <<target, components, generation, session, history, events>>

\* loadComponent resolves.
ComponentArrives ==
  /\ Lagging /\ PageOf[target] \notin components
  /\ components' = components \cup {PageOf[target]}
  /\ pinged' = TRUE
  /\ UNCHANGED <<url, target, docs, generation, session, shown, blank, history, events>>

\* The router renders the committed url urgently (a timer of the loading state,
\* the session), and the pending transition is rendered again on top of it.
RenderRouter ==
  /\ Event
  /\ docs' = LoadData(url)
  /\ ShowPage(docs')
  /\ pinged' = Lagging
  /\ UNCHANGED <<url, target, components, generation, session, history>>

\* Only the page renders: one of its stores has news, or the bump effect ran.
RenderPage ==
  /\ ShowPage(docs)
  /\ UNCHANGED <<url, target, pinged, docs, components, generation, session,
                 history, events>>

\* The pointer rests on a link: its page is loaded without being rendered.
Preload(u) ==
  /\ Event
  /\ docs' = LoadData(u)
  /\ disturbed' = TRUE
  /\ UNCHANGED <<url, target, pinged, components, generation, session, shown, blank, overtaken>>

-----------------------------------------------------------------------------
(* Answers.                                                                *)

\* The imports of one artifact resolve together, in the order they were asked: the first
\* sends, the others find its signal and only record their variables.
ArtifactArrives(d) ==
  LET e == [docs[d] EXCEPT !.artifact = TRUE, !.imports = <<>>] IN
  /\ docs[d].imports # <<>>
  /\ docs' = [docs EXCEPT ![d] = [LoadQuery(e, Head(docs[d].imports)) EXCEPT
                                    !.last = Last(docs[d].imports)]]
  /\ UNCHANGED <<url, target, pinged, components, generation, session, shown, blank,
                 history, events>>

\* The import fails: the error is logged.
ArtifactFails(d) ==
  /\ docs[d].imports # <<>>
  /\ docs' = [docs EXCEPT ![d].imports = <<>>, ![d].failed = TRUE]
  /\ UNCHANGED <<url, target, pinged, components, generation, session, shown, blank,
                 history, events>>

\* Faulty variant: a result is kept whatever the caches' generation.
ArrivedUnchecked(e, s) ==
  IF s.load THEN [e EXCEPT !.signal = FALSE, !.store = s.store] ELSE e

\* The then of load_query: a result of another generation is dropped.  An error
\* is kept in the store and takes the same way.
Arrived(e, s) ==
  IF s.load
  THEN [e EXCEPT !.signal = FALSE,
                 !.store = IF s.generation = generation THEN s.store ELSE @]
  ELSE e

Answer(d, i) ==
  LET e      == docs[d]
      s      == e.sends[i]
      result == [vars |-> s.vars, session |-> s.session]
  IN  /\ overtaken' = IF i = 1 THEN overtaken ELSE overtaken \cup {d}
      /\ docs' = [docs EXCEPT ![d] =
                    Arrived([e EXCEPT !.sends = RemoveAt(e.sends, i),
                                      !.stores = [e.stores EXCEPT ![s.store] = result]], s)]
      /\ pinged' = (pinged \/ (Lagging /\ s.load /\ s.generation = generation))
      /\ UNCHANGED <<url, target, components, generation, session, shown, blank,
                     disturbed, events>>

-----------------------------------------------------------------------------
(* What drops the caches.                                                  *)

\* handleNewSession and updateSession, and the render that follows them.
\* Faulty variant: the pending signals survive.
InvalidatedKeepingSignals(e) == [e EXCEPT !.store = 0, !.last = None]
Invalidated(e) == [e EXCEPT !.store = 0, !.signal = FALSE, !.last = None]

ChangeSession ==
  /\ Event
  /\ docs' = [d \in Documents |-> Invalidated(docs[d])]
  /\ generation' = generation + 1
  /\ session' = session + 1
  /\ disturbed' = TRUE
  /\ pinged' = Lagging
  /\ UNCHANGED <<url, target, components, shown, blank, overtaken>>

\* onArtifactUpdate, in development: the store is made again from a new artifact.
HotUpdate(d) ==
  /\ Event
  /\ docs[d].artifact
  /\ docs' = [LoadData(url) EXCEPT ![d] =
                LET e == [docs[d] EXCEPT !.store = 0, !.signal = FALSE]
                IN  IF d \in DocsOf[url] THEN LoadDocument(e, ArgsOf[url][d]) ELSE e]
  /\ disturbed' = TRUE
  /\ UNCHANGED <<url, target, pinged, components, generation, session, shown, blank, overtaken>>

Reply ==
  \E d \in Documents : \/ ArtifactArrives(d)
                       \/ \E i \in DOMAIN docs[d].sends : Answer(d, i)

Next ==
  \/ \E u \in Urls : Navigate(u) \/ Preload(u)
  \/ RenderTarget \/ ComponentArrives \/ RenderRouter \/ RenderPage
  \/ Reply
  \/ \E d \in Documents : ArtifactFails(d) \/ HotUpdate(d)
  \/ ChangeSession

Spec == Init /\ [][Next]_vars

-----------------------------------------------------------------------------
TypeOK ==
  /\ url \in Urls /\ target \in Urls \cup {None} /\ pinged \in BOOLEAN
  /\ docs \in [Documents -> Entry]
  /\ components \subseteq Range([u \in Urls |-> PageOf[u]])
  /\ generation \in Nat /\ session \in Nat
  /\ shown \in [Documents -> [store : Nat, vars : Variables \cup {None}]]
  /\ blank \in BOOLEAN /\ disturbed \in BOOLEAN /\ overtaken \subseteq Documents
  /\ events \in 0..MaxEvents

\* What data_cache holds was asked for in the current session: a request sent before a
\* session change and answered after it is not installed (the generation of load_query).
SessionIsolated ==
  \A d \in Documents :
    docs[d].store # 0 => docs[d].stores[docs[d].store].session = session

\* The mounted page is tagged (last_vars) with the variables of its own url, and not with those
\* of a destination that it was rendered in the middle of.
TaggedRight == \A d \in DocsOf[url] : shown[d].vars = ArgsOf[url][d]

\* Navigating never replaces the page on screen by its fallback: useQueryResult shows
\* its last store while a destination loads, unless a session change, a hot update or a
\* preload took the store away, or the page is tagged with a destination's variables.
NeverBlank == blank => (disturbed \/ ~TaggedRight)

\* Once nothing is on its way for a document, its store holds the answer for the
\* variables of the committed url, unless answers overtook one another.
Converged ==
  \A d \in DocsOf[url] :
    (/\ docs[d].sends = <<>> /\ docs[d].imports = <<>> /\ d \notin overtaken
     /\ docs[d].store # 0 /\ docs[d].last = ArgsOf[url][d])
    => docs[d].stores[docs[d].store].vars = ArgsOf[url][d]

\* A navigation never blanks the page that it leaves, and the page that it reaches comes to
\* show the answer for its url, for as long as the exceptions above do not apply (Router.tsx).
NavigationShows == NeverBlank /\ Converged

\* Requests are answered, imports resolve or fail, and React renders again what a
\* settled promise pinged.
Fairness ==
  /\ WF_vars(Reply) /\ WF_vars(RenderTarget) /\ WF_vars(ComponentArrives)

\* A navigation commits or is given up for another, unless the import of one of its
\* artifacts failed: no signal is left for a render to wait on.
NavigationEnds ==
  Lagging ~> (~Lagging \/ \E d \in DocsOf[target] : docs[d].failed)

Live == Spec /\ Fairness
=============================================================================
