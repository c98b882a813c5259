------------------------------ MODULE Sessions ------------------------------
(***************************************************************************)
(* Logging in and out.  A session is a signed cookie: the server keeps     *)
(* nothing.  attach_session decodes the cookie that came with a request,   *)
(* the handler works on its own copy, and only a response whose handler    *)
(* changed the copy carries a new cookie, which replaces the browser's     *)
(* whatever other responses have stored there in the meantime.             *)
(***************************************************************************)
EXTENDS Naturals, Sequences

CONSTANTS
  Browsers,
  People,     \* GitHub accounts
  Logins,   \* requests in flight
  MaxStates   \* bound: flows that are begun

ASSUME SessionsAssumption == MaxStates \in Nat

Nobody == "nobody"
NoState == 0
NoBrowser == "no browser"

VARIABLES
  cookie,     \* per browser: its github_oauth_state and user_id
  copy,       \* per request: the data of its session
  browser,    \* per request: where it came from
  stage,      \* per request: "idle", "authorizing" or "answering"
  flow,       \* per request: the callback it was sent with
  callbacks,  \* what GitHub redirects to: a state and who allowed it
  lastState,  \* the states handed out so far
  begunIn,    \* history: per state, the browser it was handed to
  completed   \* history: who has completed a flow in which browser

sessionVars == <<cookie, copy, browser, stage, flow, callbacks, lastState, begunIn, completed>>

NoFlow == [state |-> NoState, who |-> Nobody]
NoData == [state |-> NoState, user |-> Nobody]

SessionsInit ==
  /\ cookie = [b \in Browsers |-> NoData]
  /\ copy = [h \in Logins |-> NoData]
  /\ browser = [h \in Logins |-> NoBrowser]
  /\ stage = [h \in Logins |-> "idle"]
  /\ flow = [h \in Logins |-> NoFlow]
  /\ callbacks = {}
  /\ lastState = NoState
  /\ begunIn = << >>
  /\ completed = {}

\* attach_session: the request has what the browser's cookie says.
AttachSession(h, b, next) ==
  /\ stage[h] = "idle"
  /\ stage' = [stage EXCEPT ![h] = next]
  /\ browser' = [browser EXCEPT ![h] = b]

\* begin_session: a new state goes into the session and, in the answer, to GitHub.
BeginSession(h, b) ==
  /\ AttachSession(h, b, "answering")
  /\ lastState < MaxStates
  /\ lastState' = lastState + 1
  /\ copy' = [copy EXCEPT ![h] = [cookie[b] EXCEPT !.state = lastState + 1]]
  /\ begunIn' = Append(begunIn, b)
  /\ UNCHANGED <<cookie, flow, callbacks, completed>>

\* GitHub asks somebody to allow the login, and redirects (external).
Allow(state, p) ==
  /\ state \in 1 .. lastState
  /\ callbacks' = callbacks \cup {[state |-> state, who |-> p]}
  /\ UNCHANGED <<cookie, copy, browser, stage, flow, lastState, begunIn, completed>>

\* Mutant: only a missing state is refused.
StateMatches_some(b, c) == cookie[b].state # NoState

\* authorize_session: the state of the session is the one of the query.
StateMatches(b, c) == cookie[b].state # NoState /\ cookie[b].state = c.state

\* authorize_session up to the first await.  The state is taken from the session
\* whether or not it matches; when it does not, that is all the answer stores.
AuthorizeSession(h, b, c) ==
  /\ AttachSession(h, b, IF StateMatches(b, c) THEN "authorizing" ELSE "answering")
  /\ copy' = [copy EXCEPT ![h] = [cookie[b] EXCEPT !.state = NoState]]
  /\ flow' = [flow EXCEPT ![h] = IF StateMatches(b, c) THEN c ELSE NoFlow]
  /\ UNCHANGED <<cookie, callbacks, lastState, begunIn, completed>>

\* GitHub takes the code, which it does once, and tells who it is; the user is saved.
LogIn(h) ==
  /\ stage[h] = "authorizing"
  /\ flow[h] \in callbacks
  /\ callbacks' = callbacks \ {flow[h]}
  /\ copy' = [copy EXCEPT ![h].user = flow[h].who]
  /\ stage' = [stage EXCEPT ![h] = "answering"]
  /\ completed' = completed \cup {<<browser[h], flow[h].who>>}
  /\ UNCHANGED <<cookie, browser, flow, lastState, begunIn>>

\* GitHub refuses the code or cannot be reached, or the user is not saved: an error
\* is answered, which has its cookie too.
LogInFails(h) ==
  /\ stage[h] = "authorizing"
  /\ stage' = [stage EXCEPT ![h] = "answering"]
  /\ UNCHANGED <<cookie, copy, browser, flow, callbacks, lastState, begunIn, completed>>

\* end_session
EndSession(h, b) ==
  /\ AttachSession(h, b, "answering")
  /\ copy' = [copy EXCEPT ![h] = [cookie[b] EXCEPT !.user = Nobody]]
  /\ UNCHANGED <<cookie, flow, callbacks, lastState, begunIn, completed>>

\* The answer reaches the browser, and its cookie replaces the one there; the answers
\* of requests that overlap arrive in any order.
Answer(h) ==
  /\ stage[h] = "answering"
  /\ cookie' = [cookie EXCEPT ![browser[h]] = copy[h]]
  /\ stage' = [stage EXCEPT ![h] = "idle"]
  /\ copy' = [copy EXCEPT ![h] = NoData]
  /\ flow' = [flow EXCEPT ![h] = NoFlow]
  /\ UNCHANGED <<browser, callbacks, lastState, begunIn, completed>>

SessionsNext ==
  \/ \E h \in Logins, b \in Browsers :
       \/ BeginSession(h, b)
       \/ \E c \in callbacks : AuthorizeSession(h, b, c)
       \/ EndSession(h, b)
  \/ \E s \in 1 .. MaxStates, p \in People : Allow(s, p)
  \/ \E h \in Logins : LogIn(h) \/ LogInFails(h) \/ Answer(h)

SessionsSpec == SessionsInit /\ [][SessionsNext]_sessionVars

-----------------------------------------------------------------------------
\* Sessions and requests have their types.
SessionsTypeOK ==
  /\ lastState \in 0 .. MaxStates /\ Len(begunIn) = lastState
  /\ \A b \in Browsers : cookie[b].state \in 0 .. lastState /\ cookie[b].user \in People \cup {Nobody}
  /\ \A h \in Logins : stage[h] \in {"idle", "authorizing", "answering"}
  /\ \A h \in Logins : flow[h] # NoFlow => stage[h] # "idle" /\ flow[h].state \in 1 .. lastState

\* authorize_session: a flow is completed only in the browser in which it was begun,
\* wherever its redirect is opened.
FlowStaysInBrowser ==
  \A h \in Logins : flow[h] # NoFlow => begunIn[flow[h].state] = browser[h]

\* attach_session: a browser has the session of somebody only if that person has
\* logged in there, however answers overlap: what a late answer brings back is at most
\* a login that was ended, never one of another browser.
SessionByLogin ==
  \A b \in Browsers : cookie[b].user # Nobody => <<b, cookie[b].user>> \in completed

\* begin, authorize and the session cookie: a browser is logged in only as somebody who
\* logged in there, through a flow that was begun there.
SessionsInv == SessionsTypeOK /\ FlowStaysInBrowser /\ SessionByLogin
=============================================================================
