--------------------------- MODULE ServerSession ---------------------------
(***************************************************************************)
(* The session of a browser: a signed cookie, written by the server        *)
(* (houdini/src/router/session.ts, auth-token.ts and server.ts), and the   *)
(* router's copy of it (Router.tsx), which useSession shows.  @session     *)
(* mutations and the relay of their tokens, updateSession, native forms,   *)
(* log-out forms and redirect logins write them.                           *)
(***************************************************************************)
EXTENDS Naturals, FiniteSets

CONSTANTS
  Empty,      \* the empty session: a record of fields without a value
  Writes,     \* what a mutation may do: [session, merge, clear]
  MaxSends,   \* bound: requests that write
  MaxMishaps  \* bound: messages lost, repeated or failed, restarts of the server

VARIABLES
  remote,     \* there is no local schema: @session mutations go through the proxy
  configured, \* the session keys are configured: they outlive the server's process
  process,    \* the server's process, which makes the random key
  consumed,   \* consumedSessionTokens
  jar,        \* the session cookie
  txn,        \* the transaction cookie of a redirect login, 0 for none
  logins,     \* logins that are at the provider
  page,       \* the session that the page's form token is bound to
  local,      \* latestSession
  traffic,    \* requests and answers on their way
  requests, mishaps,
  settled     \* since the last full page load nothing overlapped or failed (history)

vars == <<remote, configured, process, consumed, jar, txn, logins, page, local, traffic,
          requests, mishaps, settled>>
server == <<remote, configured, process>>

Init ==
  /\ remote \in BOOLEAN /\ configured \in BOOLEAN
  /\ process = 1 /\ consumed = {} /\ jar = [session |-> Empty, process |-> 1]
  /\ txn = 0 /\ logins = {} /\ page = jar /\ local = Empty
  /\ traffic = {} /\ requests = 0 /\ mishaps = 0 /\ settled = TRUE

\* A signature counts if its key is still the server's.
Verified(p) == configured \/ p = process

\* get_session: a cookie that does not verify is the empty session.
SessionOf(c) == IF Verified(c.process) THEN c.session ELSE Empty
Cookie(s) == [session |-> s, process |-> process]

\* {...s, ...t}, and the three ways to write a session.
Spread(s, t) == [k \in DOMAIN s |-> IF t[k] = Empty[k] THEN s[k] ELSE t[k]]

\* Faulty variant: the server merges what it should replace.
AfterAlwaysMerging(s, w) == IF w.clear THEN Empty ELSE Spread(s, w.session)
After(s, w) == IF w.clear THEN Empty ELSE IF w.merge THEN Spread(s, w.session) ELSE w.session

\* handleNewSession: the copy after an event.
Mirrored(s, w) == IF w.merge THEN Spread(s, w.session) ELSE w.session

Idle == traffic = {} /\ logins = {}

-----------------------------------------------------------------------------
(* Messages.  at: who is to act on it.  bound: the session its token is    *)
(* bound to (sid), with the process that signed it, 0 for no token.  sets: *)
(* the cookie that the answer sets, if any.                                *)

NoToken == [session |-> Empty, process |-> 0]

Sent(kind, w) ==
  [id |-> requests + 1, kind |-> kind, at |-> "server", write |-> w, cookie |-> jar,
   bound |-> IF kind = "form" THEN page ELSE NoToken, sets |-> {}]

Send(kind, w) ==
  /\ requests < MaxSends
  /\ requests' = requests + 1
  /\ traffic' = traffic \cup {Sent(kind, w)}
  /\ settled' = (settled /\ Idle)
  /\ UNCHANGED <<server, consumed, jar, txn, logins, page, mishaps>>

\* A @session mutation; a native form that runs one; a log-out form.
Mutate(w) == Send("mutation", w) /\ UNCHANGED local
Submit(w) == ~remote /\ Send("form", w) /\ UNCHANGED local
LogOut(w) == w.clear /\ Send("logout", w) /\ UNCHANGED local

\* updateSession changes the copy before it asks the server.
Update(w) ==
  /\ w.merge \/ w.clear
  /\ Send("update", w)
  /\ local' = After(local, w)

Answer(m, sets) ==
  traffic' = (traffic \ {m}) \cup {[m EXCEPT !.at = "browser", !.sets = sets]}

\* What the server does with a request leaves the browser alone.
Serve == UNCHANGED <<server, jar, txn, logins, page, local, requests>>

\* handleSessionProxy runs a mutation at the remote server and writes what it extracts
\* into the cookie of its own answer; there is no token to relay.
Proxied(m) ==
  /\ Answer(m, {Cookie(After(SessionOf(m.cookie), m.write))})
  /\ consumed' = consumed \cup {m.id}

\* A mutation runs.  With a local schema its answer carries a token bound to the session
\* that it ran under.
Execute(m) ==
  /\ m.at = "server" /\ m.kind = "mutation"
  /\ IF remote THEN Proxied(m)
     ELSE /\ traffic' = (traffic \ {m}) \cup
                        {[m EXCEPT !.at = "browser", !.bound = Cookie(SessionOf(m.cookie))]}
          /\ UNCHANGED consumed
  /\ Serve /\ UNCHANGED <<mishaps, settled>>

\* applySessionToken: the signature, the session that presents it, its first use.
Presented(m) == Verified(m.bound.process) /\ m.bound.session = SessionOf(m.cookie)

Apply(m) ==
  LET accepted == Presented(m) /\ m.id \notin consumed
  IN /\ m.at = "server" /\ m.kind = "relay"
     /\ Answer(m, IF accepted THEN {Cookie(After(SessionOf(m.cookie), m.write))} ELSE {})
     /\ consumed' = IF Presented(m) THEN consumed \cup {m.id} ELSE consumed
     /\ settled' = (settled /\ accepted)
     /\ Serve /\ UNCHANGED mishaps

\* The session endpoint's POST, and the form handlers'.
Write(m) ==
  LET accepted == m.kind = "form" => Presented(m)
  IN /\ m.at = "server" /\ m.kind \in {"update", "form", "logout"}
     /\ Answer(m, IF accepted THEN {Cookie(After(SessionOf(m.cookie), m.write))} ELSE {})
     /\ Serve /\ UNCHANGED <<consumed, mishaps, settled>>

Kept(m) == IF m.sets = {} THEN jar ELSE CHOOSE c \in m.sets : TRUE

Receive == UNCHANGED <<server, consumed, txn, logins, requests, mishaps, settled>>

\* The browser has the answer of a mutation, whose token it relays, or whose write
\* the proxy has made.
Relay(m) ==
  /\ m.at = "browser" /\ m.kind = "mutation" /\ m.bound # NoToken
  /\ traffic' = (traffic \ {m}) \cup
                {[m EXCEPT !.kind = "relay", !.at = "server", !.cookie = jar]}
  /\ Receive /\ UNCHANGED <<jar, page, local>>

\* Faulty variant: an event replaces the copy, whatever its merge flag says.
MirrorReplacing(m) ==
  /\ m.at = "browser" /\ m.kind \in {"relay", "mutation"}
  /\ m.kind = "mutation" => m.bound = NoToken
  /\ traffic' = traffic \ {m}
  /\ jar' = Kept(m)
  /\ local' = m.write.session
  /\ Receive /\ UNCHANGED page

\* The relay has ended, accepted or not, or the proxy has written: mirror the write.
Mirror(m) ==
  /\ m.at = "browser" /\ m.kind \in {"relay", "mutation"}
  /\ m.kind = "mutation" => m.bound = NoToken
  /\ traffic' = traffic \ {m}
  /\ jar' = Kept(m)
  /\ local' = Mirrored(local, m.write)
  /\ Receive /\ UNCHANGED page

Updated(m) ==
  /\ m.at = "browser" /\ m.kind = "update"
  /\ traffic' = traffic \ {m}
  /\ jar' = Kept(m)
  /\ Receive /\ UNCHANGED <<page, local>>

\* The answer of a form is a page, rendered with the cookie's session.  A refused
\* form ends on an error page, which the user leaves.
Loaded(c) == local' = SessionOf(c) /\ page' = Cookie(SessionOf(c))

Rendered(m) ==
  /\ m.at = "browser" /\ m.kind \in {"form", "logout"}
  /\ traffic' = traffic \ {m}
  /\ jar' = Kept(m) /\ Loaded(Kept(m))
  /\ Receive

Reload ==
  /\ Idle
  /\ Loaded(jar) /\ settled' = TRUE
  /\ UNCHANGED <<server, consumed, jar, txn, logins, traffic, requests, mishaps>>

-----------------------------------------------------------------------------
(* Redirect logins: login_endpoint sets the transaction cookie; the        *)
(* callback burns it, whatever its outcome.                                *)

Login ==
  /\ requests < MaxSends
  /\ requests' = requests + 1
  /\ txn' = requests + 1
  /\ logins' = logins \cup {[nonce |-> requests + 1, process |-> process]}
  /\ settled' = (settled /\ Idle)
  /\ UNCHANGED <<server, consumed, jar, page, local, traffic, mishaps>>

Callback(l, w) ==
  /\ l \in logins /\ ~w.merge /\ ~w.clear
  /\ logins' = logins \ {l}
  /\ txn' = 0
  /\ jar' = IF txn = l.nonce /\ Verified(l.process) THEN Cookie(w.session) ELSE jar
  /\ Loaded(jar')
  /\ UNCHANGED <<server, consumed, traffic, requests, mishaps, settled>>

-----------------------------------------------------------------------------
(* Mishaps.                                                                *)

Mishap == mishaps < MaxMishaps /\ mishaps' = mishaps + 1

\* A mutation or a form's mutation ends with errors, which write nothing; the form's
\* page is rendered again.
Fails(m) ==
  /\ Mishap
  /\ m.at = "server" /\ m.kind \in {"mutation", "form"}
  /\ IF m.kind = "mutation"
     THEN traffic' = traffic \ {m} /\ UNCHANGED consumed
     ELSE Answer(m, {}) /\ UNCHANGED consumed
  /\ Serve /\ UNCHANGED settled

\* A request or its answer is lost.  A relay that fails mirrors its write.
Lose(m) ==
  /\ Mishap
  /\ traffic' = traffic \ {m}
  /\ local' = IF m.kind = "relay" THEN Mirrored(local, m.write) ELSE local
  /\ settled' = FALSE
  /\ UNCHANGED <<server, consumed, jar, txn, logins, page, requests>>

\* The answer of a relay is lost and the relay sent once more.
Repeat(m) ==
  /\ Mishap
  /\ m.at = "browser" /\ m.kind = "relay"
  /\ traffic' = (traffic \ {m}) \cup {[m EXCEPT !.at = "server", !.sets = {}]}
  /\ UNCHANGED <<server, consumed, jar, txn, logins, page, local, requests, settled>>

\* A restart forgets the tokens and, unless the keys are configured, all signatures.
Restart ==
  /\ Mishap
  /\ process' = process + 1
  /\ consumed' = {}
  /\ settled' = (settled /\ configured)
  /\ UNCHANGED <<remote, configured, jar, txn, logins, page, local, traffic, requests>>

Next ==
  \/ \E w \in Writes : Mutate(w) \/ Submit(w) \/ LogOut(w) \/ Update(w)
  \/ \E m \in traffic : \/ Execute(m) \/ Apply(m) \/ Write(m)
                        \/ Relay(m) \/ Mirror(m) \/ Updated(m) \/ Rendered(m)
                        \/ Fails(m) \/ Lose(m) \/ Repeat(m)
  \/ Reload
  \/ Login \/ \E l \in logins, w \in Writes : Callback(l, w)
  \/ Restart

Spec == Init /\ [][Next]_vars

-----------------------------------------------------------------------------

\* A session holds of each key nothing, or what somebody wrote there.
Values == {s[k] : s \in {Empty} \cup {w.session : w \in Writes}, k \in DOMAIN Empty}
Sessions == {s \in [DOMAIN Empty -> Values] :
               \A k \in DOMAIN Empty : s[k] = Empty[k] \/ \E w \in Writes : s[k] = w.session[k]}
Cookies == [session : Sessions, process : 0..(MaxMishaps + 1)]

TypeOK ==
  /\ process \in 1..(MaxMishaps + 1)
  /\ consumed \subseteq 1..MaxSends
  /\ jar \in Cookies /\ page \in Cookies /\ local \in Sessions
  /\ txn \in 0..MaxSends
  /\ \A l \in logins : l.nonce \in 1..requests /\ l.process \in 1..process
  /\ \A m \in traffic : /\ m.id \in 1..requests /\ m.write \in Writes
                        /\ m.cookie \in Cookies /\ m.bound \in Cookies
                        /\ m.sets \subseteq Cookies
                        /\ m.at \in {"server", "browser"}
                        /\ m.kind \in {"mutation", "relay", "update", "form", "logout"}

\* What useSession shows is the session of the cookie ("The cookie ... stays the source
\* of truth; this just reflects it"), whichever way each write took and wherever each
\* side merged, replaced or cleared, once all is answered, unless since the page was
\* loaded two writes overlapped, a message was lost or refused, or the key changed.
CopyIsTheCookie == Idle /\ settled => local = SessionOf(jar)
=============================================================================
