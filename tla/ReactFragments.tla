--------------------------- MODULE ReactFragments ---------------------------
(***************************************************************************)
(* A component that reads a fragment: useFragment with one reference, by   *)
(* way of useDocumentSubscription, useDocumentStore and the fragment       *)
(* plugin, or with the list of references of a @plural fragment.  A render *)
(* reads the cache and seeds what is shown; the effects of a commit        *)
(* subscribe; React may give up a render of a transition before its        *)
(* commit, and what it wrote to refs stays.                                *)
(***************************************************************************)
EXTENDS Naturals, Sequences

CONSTANTS
  Records,
  Lists,       \* the lists of references that a plural fragment is given
  None,        \* no record
  MaxWrites,   \* bound: writes to the cache
  MaxRenders   \* bound: renders

VARIABLES
  plural,      \* the artifact's flag; never changes
  content,     \* the version of each record in the cache
  phase,       \* "absent", "mounting" or "rendered" (before its effects), "idle", "gone"
  memo,        \* the last commit: its reference and what useMemo keeps for it
  work,        \* the same of the render under way
  stray,       \* refs that a render given up has left behind: "seed", "deps"
  box,         \* what useSyncExternalStore shows
  store,       \* the state of the observer
  plugin,      \* the fragment plugin: its live subscription and its lastReference
  sent,        \* the observer has last variables
  data,        \* of a plural fragment: the list, the one it was seeded for, its specs
  early,       \* records written between the render that read them and its effects (history)
  resent,      \* the effect ran again for the record of lastReference (history)
  writes, renders

one == <<memo, work, stray, box, store, plugin, sent, resent>>
vars == <<plural, content, phase, one, data, early, writes, renders>>

Value(r, v) == [record |-> r, version |-> v]
Null == Value(None, 0)
References == [record : Records \cup {None}, loading : BOOLEAN]
Disabled(ref) == ref.loading \/ ref.record = None

\* What the cache says of a reference: a placeholder, of version 0, while it is loading; a
\* reference to nothing is shown as it is.
Read(ref) ==
  IF ref.record = None THEN Null ELSE Value(ref.record, IF ref.loading THEN 0 ELSE content[ref.record])
ReadAll(list) == [i \in DOMAIN list |-> Value(list[i], content[list[i]])]

Unread == [reference |-> [record |-> None, loading |-> FALSE], initial |-> Null, renewed |-> FALSE]

Init ==
  /\ plural \in BOOLEAN /\ content = [r \in Records |-> 1]
  /\ phase = "absent" /\ memo = Unread /\ work = Unread /\ stray = {}
  /\ box = Null /\ store = Null /\ plugin = [spec |-> None, last |-> None] /\ sent = FALSE
  /\ data = [references |-> <<>>, list |-> <<>>, seeded |-> <<>>, specs |-> <<>>]
  /\ early = {} /\ resent = FALSE /\ writes = 0 /\ renders = 0

-----------------------------------------------------------------------------
(* One reference.                                                          *)

\* The render: what is read is kept for as long as the reference stays, and anything read
\* anew, or read by another render than the last, is put in the box at once.
Render(ref, session) ==
  /\ ~plural /\ phase \in {"absent", "idle"} /\ renders < MaxRenders
  /\ LET again == phase = "idle" /\ ref = memo.reference
         initial == IF again THEN memo.initial ELSE Read(ref)
     IN  /\ work' = [reference |-> ref, initial |-> initial, renewed |-> session \/ "deps" \in stray]
         /\ box' = IF initial # Null /\ (~again \/ "seed" \in stray) THEN initial ELSE box
         /\ store' = IF phase = "absent" THEN initial ELSE store
         /\ early' = IF again THEN early ELSE {}
  /\ phase' = IF phase = "absent" THEN "mounting" ELSE "rendered"
  /\ renders' = renders + 1
  /\ UNCHANGED <<plural, content, memo, stray, plugin, sent, data, resent, writes>>

\* A transition that is interrupted.
GiveUp ==
  /\ ~plural /\ phase = "rendered"
  /\ stray' = stray \cup (IF work.initial # memo.initial /\ work.initial # Null THEN {"seed"} ELSE {})
                    \cup (IF work.renewed \/ work.reference # memo.reference THEN {"deps"} ELSE {})
  /\ phase' = "idle" /\ work' = Unread
  /\ UNCHANGED <<plural, content, memo, box, store, plugin, sent, data, early, resent, writes, renders>>

\* The start hook of the fragment plugin, for the record r: it subscribes when the reference
\* or the variables of the send are not those of the last.
\* Faulty variant: only the variables are compared.
SubscribesToVariables(r) == ~sent
Subscribes(r) == plugin.last # r \/ ~sent

\* The effects of a commit.  When the dependencies have changed the subscription is cleaned
\* up and the observer is sent the reference, with what the render read as its state.
Effects ==
  /\ ~plural /\ phase \in {"mounting", "rendered"}
  /\ LET r == work.reference.record
         changed == phase = "mounting" \/ work.renewed \/ work.reference # memo.reference
         kept == IF Disabled(memo.reference) THEN plugin ELSE [plugin EXCEPT !.spec = None]
         value == IF work.initial = Null THEN store ELSE work.initial
     IN  IF ~changed THEN UNCHANGED <<plugin, sent, store, box, resent>>
         ELSE IF Disabled(work.reference)
         THEN plugin' = kept /\ UNCHANGED <<sent, store, box, resent>>
         ELSE /\ plugin' = IF Subscribes(r) THEN [spec |-> r, last |-> r] ELSE kept
              /\ resent' = (plugin.last = r /\ sent)
              /\ sent' = TRUE /\ store' = value /\ box' = value
  /\ memo' = [work EXCEPT !.renewed = FALSE] /\ work' = Unread /\ stray' = {} /\ phase' = "idle"
  /\ UNCHANGED <<plural, content, data, early, writes, renders>>

-----------------------------------------------------------------------------
(* A list of references.                                                   *)

RenderAll(list) ==
  /\ plural /\ phase \in {"absent", "idle"} /\ renders < MaxRenders
  /\ data' = IF phase = "absent"
             THEN [references |-> list, list |-> ReadAll(list), seeded |-> list, specs |-> <<>>]
             ELSE [data EXCEPT !.references = list]
  /\ phase' = IF phase = "absent" THEN "mounting" ELSE "rendered"
  /\ renders' = renders + 1
  /\ UNCHANGED <<plural, content, one, early, writes>>

\* The list is read anew when it is one of other records, and each record subscribed to.
\* Faulty variant: the list is read by its first render only.
EffectsAllUnseeded ==
  /\ plural /\ phase \in {"mounting", "rendered"}
  /\ data' = [data EXCEPT !.seeded = data.references, !.specs = data.references]
  /\ phase' = "idle"
  /\ UNCHANGED <<plural, content, one, early, writes, renders>>

EffectsAll ==
  /\ plural /\ phase \in {"mounting", "rendered"}
  /\ LET other == data.seeded # data.references IN
     /\ data' = [data EXCEPT !.list = IF other THEN ReadAll(data.references) ELSE @,
                             !.seeded = data.references, !.specs = data.references]
     /\ early' = IF other THEN {} ELSE early
  /\ phase' = "idle"
  /\ UNCHANGED <<plural, content, one, writes, renders>>

-----------------------------------------------------------------------------
\* A write to the cache and its message to who has subscribed: a plural fragment puts the
\* value at the place that the record had when it subscribed.
Write(r) ==
  /\ writes < MaxWrites /\ writes' = writes + 1
  /\ content' = [content EXCEPT ![r] = writes + 2]
  /\ LET value == Value(r, writes + 2) IN
     /\ store' = IF plugin.spec = r THEN value ELSE store
     /\ box' = IF plugin.spec = r THEN value ELSE box
     /\ data' = [data EXCEPT !.list = [i \in DOMAIN @ |->
                   IF i \in DOMAIN data.specs /\ data.specs[i] = r THEN value ELSE @[i]]]
  /\ early' = IF plugin.spec = r \/ \E i \in DOMAIN data.specs : data.specs[i] = r THEN early \ {r}
              ELSE IF phase \in {"mounting", "rendered"} THEN early \cup {r} ELSE early
  /\ UNCHANGED <<plural, phase, memo, work, stray, plugin, sent, resent, renders>>

\* The store loses its last subscriber, and forgets its variables.
Unmount ==
  /\ phase = "idle" /\ phase' = "gone"
  /\ plugin' = [plugin EXCEPT !.spec = None] /\ sent' = FALSE
  /\ data' = [data EXCEPT !.specs = <<>>]
  /\ UNCHANGED <<plural, content, memo, work, stray, box, store, early, resent, writes, renders>>

Next ==
  \/ \E ref \in References, session \in BOOLEAN : Render(ref, session)
  \/ GiveUp \/ Effects
  \/ \E list \in Lists : RenderAll(list)
  \/ EffectsAll
  \/ \E r \in Records : Write(r)
  \/ Unmount

Spec == Init /\ [][Next]_vars

-----------------------------------------------------------------------------
TypeOK ==
  /\ plural \in BOOLEAN /\ content \in [Records -> Nat]
  /\ phase \in {"absent", "mounting", "rendered", "idle", "gone"} /\ stray \subseteq {"seed", "deps"}
  /\ memo.reference \in References /\ work.reference \in References
  /\ plugin \in [spec : Records \cup {None}, last : Records \cup {None}]
  /\ early \subseteq Records /\ sent \in BOOLEAN /\ resent \in BOOLEAN

\* A component shows the record of its reference as the cache has it: unless it was written
\* between the render and the effects, the effect ran again for the record it had subscribed
\* to (the plugin takes it for subscribed), or React gave up a render since.
ShowsRecord ==
  LET ref == memo.reference IN
  ~plural /\ phase = "idle" /\ stray = {} /\ ~Disabled(ref) /\ ~resent /\ ref.record \notin early
    => box = Read(ref)

\* A plural fragment shows each of its records as the cache has it, unless it was written
\* between the first render and its effects.
ShowsRecords ==
  plural /\ phase = "idle" =>
    /\ DOMAIN data.list = DOMAIN data.references
    /\ \A i \in DOMAIN data.list :
         data.references[i] \in early \/ data.list[i] = ReadAll(data.references)[i]
=============================================================================
