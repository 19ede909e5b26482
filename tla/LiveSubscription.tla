--------------------------- MODULE LiveSubscription ---------------------------
(***************************************************************************)
(* Live subscriptions (plugins/subscription.ts): each store keeps one      *)
(* listener on a client that all the stores of the page share.  A send     *)
(* that finds another session waits for the client between the decision    *)
(* to listen again and the listening; other sends, and the departure of    *)
(* the reader, may come in between.                                        *)
(***************************************************************************)
EXTENDS Naturals, Sequences, SequencesExt

CONSTANTS
  Stores,      \* stores of subscription documents
  Variables,   \* values of their variables
  Sessions,    \* values of the session
  None,
  MaxSends     \* bound: calls of send

VARIABLES
  stores,      \* the plugin's closure and the store's lastVariables, for each store
  waiting,     \* sends at the await of loadClient, in the order they came
  client,      \* the session the shared client was made with
  listeners,   \* what was subscribed on the client, in order
  sent         \* calls of send

vars == <<stores, waiting, client, listeners, sent>>

\* clear: the listener that clearSubscription ends.  asked, used: what the reader
\* wants.  History: overtaken, a send went past one that waits or went back to the
\* variables before it; failed, the server ended a listener; hasty, the reader left
\* while a send was waiting.
Store == [check : Sessions \cup {None}, clear : Nat, last : Variables \cup {None},
          asked : Variables \cup {None}, used : BOOLEAN,
          overtaken : BOOLEAN, failed : BOOLEAN, hasty : BOOLEAN]
Send == [store : Stores, vars : Variables, session : Sessions]
Listener == [store : Stores, vars : Variables, session : Sessions, made : Sessions,
             open : BOOLEAN]

Fresh == [check |-> None, clear |-> 0, last |-> None, asked |-> None, used |-> FALSE,
          overtaken |-> FALSE, failed |-> FALSE, hasty |-> FALSE]

Init ==
  /\ stores = [s \in Stores |-> Fresh]
  /\ waiting = <<>> /\ client = None /\ listeners = <<>> /\ sent = 0

Awaited(s) == \E i \in DOMAIN waiting : waiting[i].store = s

\* clearSubscription, if there is one.
Cleared(ls, s) ==
  [i \in DOMAIN ls |-> IF i = stores[s].clear THEN [ls[i] EXCEPT !.open = FALSE] ELSE ls[i]]

\* Faulty variant: the listener is ended before the client is awaited only.
ListenAlone(w, made) ==
  /\ listeners' = Append(listeners,
                         [store |-> w.store, vars |-> w.vars, session |-> w.session,
                          made |-> made, open |-> TRUE])
  /\ stores' = [stores EXCEPT ![w.store] = [@ EXCEPT !.clear = Len(listeners) + 1]]

Listen(w, made) ==
  /\ listeners' = Append(Cleared(listeners, w.store),
                         [store |-> w.store, vars |-> w.vars, session |-> w.session,
                          made |-> made, open |-> TRUE])
  /\ stores' = [stores EXCEPT ![w.store] = [@ EXCEPT !.clear = Len(listeners) + 1]]

\* The variables of the last message are asked for before those that took their
\* place have had a message: the send takes them for unchanged.
WentBack(s, v) == stores[s].last = v /\ stores[s].asked \notin {None, v}

\* network, up to the await if the session changed, else to its end.  loadClient
\* makes the client in the same breath; once made, its promise stays for good.
SendTo(s, v, session) ==
  LET st      == stores[s]
      w       == [store |-> s, vars |-> v, session |-> session]
      asked   == [st EXCEPT !.asked = v, !.used = TRUE, !.check = session,
                            !.overtaken = @ \/ (st.check = session
                                                      /\ (Awaited(s) \/ WentBack(s, v)))]
  IN  /\ sent < MaxSends /\ sent' = sent + 1
      /\ IF st.check # session
         THEN /\ waiting' = Append(waiting, w)
              /\ client' = IF client = None THEN session ELSE client
              /\ stores' = [stores EXCEPT ![s] = asked]
              /\ UNCHANGED listeners
         ELSE /\ IF st.last # v
                 THEN /\ listeners' = Append(Cleared(listeners, s),
                                        [store |-> s, vars |-> v, session |-> session,
                                         made |-> client, open |-> TRUE])
                      /\ stores' = [stores EXCEPT ![s] =
                                      [asked EXCEPT !.clear = Len(listeners) + 1]]
                 ELSE /\ stores' = [stores EXCEPT ![s] = asked]
                      /\ UNCHANGED listeners
              /\ UNCHANGED <<waiting, client>>

\* The await is over: the sends go on in the order they came.
Resume ==
  /\ waiting # <<>>
  /\ Listen(Head(waiting), client)
  /\ waiting' = Tail(waiting)
  /\ UNCHANGED <<client, sent>>

\* A message of the server resolves the pipeline of the send that listens.
Message(i) ==
  LET l == listeners[i]
  IN  /\ l.open
      /\ stores' = [stores EXCEPT ![l.store].last = l.vars]
      /\ UNCHANGED <<waiting, client, listeners, sent>>

\* An error of the server: whatever listener the store has by now is ended.
Error(i) ==
  LET l == listeners[i]
  IN  /\ l.open
      /\ listeners' = Cleared(listeners, l.store)
      /\ stores' = [stores EXCEPT ![l.store].last = l.vars, ![l.store].failed = TRUE]
      /\ UNCHANGED <<waiting, client, sent>>

\* Faulty variant: the check survives the cleanup, so that the next send is taken for one
\* that changes nothing.
CleanupKeepingCheck(s, gone) ==
  /\ stores[s].used
  /\ listeners' = Cleared(listeners, s)
  /\ stores' = [stores EXCEPT ![s] =
       [@ EXCEPT !.used = FALSE, !.asked = None, !.hasty = @ \/ Awaited(s),
                 !.last = IF gone THEN None ELSE @]]
  /\ UNCHANGED <<waiting, client, sent>>

\* cleanup: unlisten, or the reader of the store goes away for good.
Cleanup(s, gone) ==
  LET st == stores[s] IN
  /\ st.used
  /\ listeners' = Cleared(listeners, s)
  /\ stores' = [stores EXCEPT ![s] =
       [st EXCEPT !.check = None, !.used = FALSE, !.asked = None,
                  !.hasty = st.hasty \/ Awaited(s), !.last = IF gone THEN None ELSE st.last]]
  /\ UNCHANGED <<waiting, client, sent>>

Next ==
  \/ \E s \in Stores : \/ \E v \in Variables, n \in Sessions : SendTo(s, v, n)
                       \/ \E gone \in BOOLEAN : Cleanup(s, gone)
  \/ Resume
  \/ \E i \in DOMAIN listeners : Message(i) \/ Error(i)

Spec == Init /\ [][Next]_vars

-----------------------------------------------------------------------------
TypeOK ==
  /\ stores \in [Stores -> Store] /\ waiting \in Seq(Send)
  /\ client \in Sessions \cup {None} /\ listeners \in Seq(Listener)
  /\ sent \in 0..MaxSends

Open(s) == {i \in DOMAIN listeners : listeners[i].store = s /\ listeners[i].open}

\* A store has at most one open listener, whatever arrives while a send waits for the
\* client: each listening ends the one before it.
OneListener == \A s \in Stores : \A i, j \in Open(s) : i = j

\* With no send waiting, a store in use listens with the variables of the last send, and
\* one that is not in use does not listen.  Not so once a send went past a waiting one or
\* went back to variables already answered, the server ended a listener, or the reader
\* left while a send was waiting.
ListensToLast ==
  \A s \in Stores : ~Awaited(s) =>
    \/ stores[s].overtaken \/ stores[s].failed \/ stores[s].hasty
    \/ IF stores[s].used THEN \E i \in Open(s) : listeners[i].vars = stores[s].asked
                         ELSE Open(s) = {}

\* What a store listens to is what was asked of it last, and nothing besides.
Listens == OneListener /\ ListensToLast
=============================================================================
