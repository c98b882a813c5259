-------------------------- MODULE CredentialsProofs --------------------------
(***************************************************************************)
(* Proofs about who may act for whom: sessions, mail addresses, API        *)
(* tokens, administrators, owners and trusted publishing, for any people,  *)
(* browsers, requests, addresses, teams, JWTs and configurations.          *)
(***************************************************************************)
EXTENDS Sessions, MailAddresses, ApiTokens, Admins, Ownership, TrustedPublishing, TLAPS

-----------------------------------------------------------------------------
(* Sessions.                                                               *)

Stages == {"idle", "authorizing", "answering"}
SessionData == [state : Nat, user : People \cup {Nobody}]
Flows == [state : Nat, who : People \cup {Nobody}]

\* The types the argument needs.
SessionTypes ==
  /\ cookie \in [Browsers -> SessionData]
  /\ copy \in [Logins -> SessionData]
  /\ browser \in [Logins -> Browsers \cup {NoBrowser}]
  /\ stage \in [Logins -> Stages]
  /\ flow \in [Logins -> Flows]
  /\ callbacks \subseteq [state : Nat, who : People]
  /\ lastState \in 0 .. MaxStates
  /\ begunIn \in Seq(Browsers)
  /\ Len(begunIn) = lastState
  /\ completed \subseteq Browsers \X People

\* The state in a cookie, or in the copy of it that a request works on, was handed to that
\* very browser.
StatesStay ==
  /\ \A b \in Browsers : cookie[b].state # NoState =>
       cookie[b].state \in 1 .. lastState /\ begunIn[cookie[b].state] = b
  /\ \A h \in Logins : copy[h].state # NoState =>
       copy[h].state \in 1 .. lastState /\ begunIn[copy[h].state] = browser[h]

\* The copy of a request that has not been answered shows a login of its browser.
CopyByLogin ==
  \A h \in Logins : copy[h].user # Nobody => <<browser[h], copy[h].user>> \in completed

\* A request that is under way came from a browser, and a flow belongs to a request.
RequestsSound ==
  /\ \A h \in Logins : stage[h] # "idle" => browser[h] \in Browsers
  /\ \A h \in Logins : flow[h] # NoFlow => stage[h] # "idle" /\ flow[h].state \in 1 .. lastState
  /\ \A h \in Logins : stage[h] = "idle" => copy[h] = NoData

SessionInd ==
  SessionTypes /\ StatesStay /\ CopyByLogin /\ RequestsSound /\ FlowStaysInBrowser /\ SessionByLogin

\* Session data with another state.
LEMMA WithState ==
  ASSUME NEW d \in SessionData, NEW n \in Nat
  PROVE  [d EXCEPT !.state = n] = [state |-> n, user |-> d.user]
  BY DEF SessionData

\* The initial states satisfy it.
LEMMA InitSessionInd == SessionsInit => SessionInd
  BY SessionsAssumption
     DEF SessionsInit, SessionInd, SessionTypes, StatesStay, CopyByLogin, RequestsSound,
         FlowStaysInBrowser, SessionByLogin, SessionData, Flows, Stages, NoData, NoFlow, NoState

\* Every step preserves it.
LEMMA StepSessionInd == SessionInd /\ [SessionsNext]_sessionVars => SessionInd'
  <1> SUFFICES ASSUME SessionInd, [SessionsNext]_sessionVars PROVE SessionInd'
    OBVIOUS
  <1> USE SessionsAssumption
      DEF SessionInd, SessionTypes, StatesStay, CopyByLogin, RequestsSound,
          FlowStaysInBrowser, SessionByLogin, SessionData, Flows, Stages, NoData, NoFlow, NoState
  <1>1. ASSUME NEW h \in Logins, NEW b \in Browsers, BeginSession(h, b)
        PROVE  SessionInd'
    <2>1. stage[h] = "idle" /\ flow[h] = NoFlow
      BY <1>1 DEF BeginSession, AttachSession
    <2>2. begunIn' \in Seq(Browsers) /\ Len(begunIn') = lastState + 1
      BY <1>1 DEF BeginSession
    <2>3. begunIn'[lastState + 1] = b /\ \A s \in 1 .. lastState : begunIn'[s] = begunIn[s]
      BY <1>1 DEF BeginSession
    <2>4. SessionTypes'
      <3>1. lastState' \in 0 .. MaxStates
        BY <1>1 DEF BeginSession
      <3>2. copy' \in [Logins -> SessionData]
        <4>1. [cookie[b] EXCEPT !.state = lastState + 1]
                = [state |-> lastState + 1, user |-> cookie[b].user]
          BY WithState
        <4>2. copy' = [copy EXCEPT ![h] = [state |-> lastState + 1, user |-> cookie[b].user]]
          BY <1>1, <4>1 DEF BeginSession
        <4> QED
          BY <4>2
      <3> QED
        BY <1>1, <2>2, <3>1, <3>2 DEF BeginSession, AttachSession
    <2>5. StatesStay'
      BY <1>1, <2>1, <2>3 DEF BeginSession, AttachSession
    <2>6. CopyByLogin' /\ RequestsSound' /\ SessionByLogin'
      BY <1>1, <2>1 DEF BeginSession, AttachSession
    <2>7. FlowStaysInBrowser'
      BY <1>1, <2>1, <2>3 DEF BeginSession, AttachSession
    <2> QED
      BY <2>4, <2>5, <2>6, <2>7
  <1>2. ASSUME NEW s \in 1 .. MaxStates, NEW p \in People, Allow(s, p)
        PROVE  SessionInd'
    BY <1>2 DEF Allow
  <1>3. ASSUME NEW h \in Logins, NEW b \in Browsers, NEW c \in callbacks, AuthorizeSession(h, b, c)
        PROVE  SessionInd'
    <2>1. CASE StateMatches(b, c)
      <3>1. c.state \in 1 .. lastState /\ begunIn[c.state] = b
        BY <2>1 DEF StateMatches
      <3>2. copy' = [copy EXCEPT ![h] = [state |-> NoState, user |-> cookie[b].user]]
        <4>1. [cookie[b] EXCEPT !.state = NoState] = [state |-> NoState, user |-> cookie[b].user]
          BY WithState
        <4> QED
          BY <1>3, <4>1 DEF AuthorizeSession
      <3>3. /\ flow' = [flow EXCEPT ![h] = c] /\ browser' = [browser EXCEPT ![h] = b]
            /\ stage' = [stage EXCEPT ![h] = "authorizing"]
            /\ UNCHANGED <<cookie, callbacks, lastState, begunIn, completed>>
        BY <1>3, <2>1 DEF AuthorizeSession, AttachSession
      <3>4. SessionTypes'
        BY <3>2, <3>3
      <3>5. StatesStay' /\ CopyByLogin' /\ SessionByLogin'
        BY <3>2, <3>3
      <3>6. FlowStaysInBrowser' /\ RequestsSound'
        BY <3>1, <3>2, <3>3
      <3> QED
        BY <3>4, <3>5, <3>6
    <2>2. CASE ~StateMatches(b, c)
      BY <1>3, <2>2 DEF AuthorizeSession, AttachSession
    <2> QED
      BY <2>1, <2>2
  <1>4. ASSUME NEW h \in Logins, NEW b \in Browsers, EndSession(h, b)
        PROVE  SessionInd'
    BY <1>4 DEF EndSession, AttachSession
  <1>5. ASSUME NEW h \in Logins, LogIn(h)
        PROVE  SessionInd'
    BY <1>5 DEF LogIn
  <1>6. ASSUME NEW h \in Logins, LogInFails(h)
        PROVE  SessionInd'
    BY <1>6 DEF LogInFails
  <1>7. ASSUME NEW h \in Logins, Answer(h)
        PROVE  SessionInd'
    BY <1>7 DEF Answer
  <1>8. CASE UNCHANGED sessionVars
    BY <1>8 DEF sessionVars
  <1> QED
    BY <1>1, <1>2, <1>3, <1>4, <1>5, <1>6, <1>7, <1>8 DEF SessionsNext

\* begin_session, authorize_session and the cookie: however the answers of requests overlap
\* and wherever redirects are opened, a browser is logged in only as somebody who has logged in
\* there, and a flow is completed only where it was begun.
THEOREM SessionsAreSound == SessionsSpec => []SessionsInv
  <1>1. SessionInd => SessionsInv
    BY DEF SessionInd, SessionTypes, StatesStay, RequestsSound, SessionsInv, SessionsTypeOK,
           SessionData, Flows, Stages, NoFlow, NoState
  <1> QED
    BY InitSessionInd, StepSessionInd, <1>1, PTL DEF SessionsSpec

-----------------------------------------------------------------------------
(* Mail addresses.                                                         *)

EmailRows == [addr : Addresses \cup {NoAddress}, token : Nat, verified : BOOLEAN]
Letters == [user : Accounts, addr : Addresses, token : Nat]
Mails == [to : Addresses, user : Accounts, token : Nat]

Busy(r) == upc[r] # "idle"

\* A row of emails is none, or that of a registered user with a token that was drawn.
EmailSound(u) ==
  /\ emails[u] \in EmailRows
  /\ emails[u].addr # NoAddress => u \in registered /\ emails[u].token \in 1 .. drawn
  /\ emails[u].addr = NoAddress => emails[u].token = NoSecret /\ ~emails[u].verified

\* A request that is under way has a letter with a token that was drawn.
UpdateSound(r) ==
  /\ Busy(r) => about[r] \in Letters /\ about[r].token \in 1 .. drawn
  /\ ~Busy(r) => about[r] = Nothing

\* The types the argument needs; every token has been drawn.
MailTypes ==
  /\ registered \subseteq Accounts
  /\ drawn \in Nat
  /\ DOMAIN emails = Accounts
  /\ \A u \in Accounts : EmailSound(u)
  /\ DOMAIN upc = Updates /\ DOMAIN about = Updates
  /\ \A r \in Updates : UpdateSound(r)
  /\ mailbox \subseteq Mails
  /\ \A m \in mailbox : m.token \in 1 .. drawn

\* Letters with the same token, sent or about to be sent, are for the same user and address.
LettersAgree ==
  /\ \A m, n \in mailbox : m.token = n.token => m.user = n.user /\ m.to = n.to
  /\ \A m \in mailbox, r \in Updates : Busy(r) /\ m.token = about[r].token =>
       m.user = about[r].user /\ m.to = about[r].addr
  /\ \A q, r \in Updates : Busy(q) /\ Busy(r) /\ about[q].token = about[r].token =>
       about[q].user = about[r].user /\ about[q].addr = about[r].addr

\* A letter whose token is in a row is for the user and the address of this row.
RowsAgree ==
  /\ \A u \in Accounts, m \in mailbox : emails[u].token = m.token =>
       m.user = u /\ m.to = emails[u].addr
  /\ \A u \in Accounts, r \in Updates : Busy(r) /\ emails[u].token = about[r].token =>
       about[r].user = u /\ about[r].addr = emails[u].addr
  /\ \A u, v \in Accounts : u # v /\ emails[u].token = emails[v].token => emails[u].token = NoSecret

\* A row whose token is being replaced keeps its address until then: it is locked.
ResentStays ==
  \A r \in Updates : upc[r] \in {"resending", "mailed"} =>
    emails[about[r].user].addr = about[r].addr

MailInd == MailTypes /\ LettersAgree /\ RowsAgree /\ ResentStays /\ VerifiedMeansOpened

\* What a row, a letter and a mail are made of.
LEMMA EmailRow ==
  ASSUME NEW a \in Addresses \cup {NoAddress}, NEW t \in Nat, NEW v \in BOOLEAN
  PROVE  LET row == [addr |-> a, token |-> t, verified |-> v] IN
         row \in EmailRows /\ row.addr = a /\ row.token = t /\ row.verified = v
  BY DEF EmailRows
LEMMA EmailFields ==
  ASSUME NEW row \in EmailRows
  PROVE  /\ row.addr \in Addresses \cup {NoAddress} /\ row.token \in Nat /\ row.verified \in BOOLEAN
         /\ row = [addr |-> row.addr, token |-> row.token, verified |-> row.verified]
  BY DEF EmailRows
LEMMA VerifiedRow ==
  ASSUME NEW row \in EmailRows, NEW v \in BOOLEAN
  PROVE  [row EXCEPT !.verified = v] = [addr |-> row.addr, token |-> row.token, verified |-> v]
  BY DEF EmailRows
LEMMA LetterFields ==
  ASSUME NEW l \in Letters
  PROVE  l.user \in Accounts /\ l.addr \in Addresses /\ l.token \in Nat /\ l # Nothing
  BY MailAssumption DEF Letters, Nothing
LEMMA MailFields ==
  ASSUME NEW m \in Mails
  PROVE  m.user \in Accounts /\ m.to \in Addresses /\ m.token \in Nat
  BY DEF Mails

\* The initial states satisfy it.
LEMMA InitMailInd == MailInit => MailInd
  BY DEF MailInit, MailInd, MailTypes, EmailSound, UpdateSound, LettersAgree, RowsAgree, ResentStays,
         VerifiedMeansOpened, EmailRows, Busy, NoRowOfEmail, NoSecret

\* A row with a token that was just drawn or that the row had is stored, or none is; a mail with
\* the new token is sent, or none is.
LEMMA StoreRow ==
  ASSUME MailInd, NEW u \in Accounts, AccountUnlocked(u) \/ emails' = emails,
         NEW row \in EmailRows, row.addr # NoAddress, ~row.verified,
         \/ row.token = drawn + 1
         \/ row.token = emails[u].token /\ row.addr = emails[u].addr,
         drawn' = drawn + 1,
         \/ emails' = emails
         \/ emails' = [emails EXCEPT ![u] = row] /\ u \in registered',
         registered \subseteq registered', registered' \subseteq Accounts,
         NEW sent \in SUBSET Mails, mailbox' = mailbox \cup sent,
         \A m \in sent : m.token = drawn + 1 /\ m.user = u /\ m.to = row.addr,
         sent # {} => row.token = drawn + 1,
         UNCHANGED <<upc, about, opened>>
  PROVE  MailInd'
  <1> USE DEF MailInd, NoSecret
  <1>1. /\ DOMAIN emails' = Accounts
        /\ \A v \in Accounts : emails'[v] = emails[v] \/ (v = u /\ emails'[v] = row /\ u \in registered')
    BY DEF MailTypes
  <1>2. \A r \in Updates : Busy(r) => about[r].token \in 1 .. drawn
    BY DEF MailTypes, UpdateSound
  <1>3. \A v \in Accounts : emails[v].token \in 0 .. drawn /\ emails[v] \in EmailRows
    BY DEF MailTypes, EmailSound
  <1>4. \A m \in mailbox : m.token \in 1 .. drawn
    BY DEF MailTypes
  <1>5. drawn \in Nat /\ \A m \in mailbox' : m \in mailbox \/ m \in sent
    BY DEF MailTypes
  <1>6. row.token \in 1 .. drawn + 1
    BY <1>3, <1>5 DEF MailTypes, EmailSound
  <1>7. MailTypes'
    <2>1. \A v \in Accounts : EmailSound(v)'
      BY <1>1, <1>3, <1>5, <1>6 DEF MailTypes, EmailSound
    <2>2. \A r \in Updates : UpdateSound(r)'
      BY <1>5 DEF MailTypes, UpdateSound, Busy
    <2> QED
      BY <1>1, <1>4, <1>5, <2>1, <2>2 DEF MailTypes
  <1>8. LettersAgree'
    BY <1>2, <1>4, <1>5 DEF LettersAgree, Busy
  <1>9. RowsAgree'
    <2>1. ASSUME NEW v \in Accounts, NEW m \in mailbox', emails'[v].token = m.token
          PROVE  m.user = v /\ m.to = emails'[v].addr
      <3>1. CASE emails'[v] = emails[v]
        BY <1>3, <1>5, <2>1, <3>1 DEF RowsAgree
      <3>2. CASE v = u /\ emails'[v] = row
        BY <1>3, <1>4, <1>5, <2>1, <3>2 DEF RowsAgree
      <3> QED
        BY <1>1, <3>1, <3>2
    <2>2. ASSUME NEW v \in Accounts, NEW r \in Updates, Busy(r), emails'[v].token = about[r].token
          PROVE  about[r].user = v /\ about[r].addr = emails'[v].addr
      BY <1>1, <1>2, <1>5, <2>2 DEF RowsAgree
    <2>3. ASSUME NEW v \in Accounts, NEW w \in Accounts, v # w, emails'[v].token = emails'[w].token
          PROVE  emails'[v].token = NoSecret
      BY <1>1, <1>3, <1>5, <2>3 DEF RowsAgree
    <2> QED
      BY <2>1, <2>2, <2>3 DEF RowsAgree, Busy
  <1>10. \A r \in Updates : Busy(r) => about[r].user \in Accounts
    BY LetterFields DEF MailTypes, UpdateSound
  <1>11. ResentStays'
    BY <1>1, <1>10 DEF ResentStays, AccountUnlocked, Busy
  <1>12. VerifiedMeansOpened'
    BY <1>1 DEF VerifiedMeansOpened
  <1> QED
    BY <1>7, <1>8, <1>9, <1>11, <1>12

\* A login, the first or a later one.
LEMMA LogInMailInd ==
  ASSUME MailInd, NEW u \in Accounts, LogInUser(u) \/ LogInUserFails(u)
  PROVE  MailInd'
  <1> DEFINE mail == [to |-> Profile[u], user |-> u, token |-> drawn + 1]
             row == [addr |-> Profile[u], token |-> drawn + 1, verified |-> FALSE]
  <1>1. drawn \in Nat /\ registered \subseteq Accounts /\ DOMAIN emails = Accounts
    BY DEF MailInd, MailTypes
  <1>2. ASSUME Profile[u] # NoAddress
        PROVE  /\ mail \in Mails /\ mail.token = drawn + 1 /\ mail.user = u /\ mail.to = Profile[u]
               /\ row \in EmailRows /\ row.addr = Profile[u] /\ row.token = drawn + 1
               /\ row.verified = FALSE
    BY <1>1, <1>2, MailAssumption DEF Mails, EmailRows
  <1> HIDE DEF mail, row
  <1>3. CASE LogInUser(u) /\ Profile[u] # NoAddress /\ emails[u] = NoRowOfEmail
    <2>1. PICK sent \in SUBSET {mail} : mailbox' = mailbox \cup sent
      BY <1>3 DEF LogInUser, mail
    <2>2. sent \in SUBSET Mails
      BY <1>2, <1>3, <2>1
    <2>3. \A m \in sent : m.token = drawn + 1 /\ m.user = u /\ m.to = row.addr
      BY <1>2, <1>3, <2>1
    <2>4. /\ AccountUnlocked(u) /\ drawn' = drawn + 1 /\ registered' = registered \cup {u}
          /\ emails' = [emails EXCEPT ![u] = row] /\ UNCHANGED <<upc, about, opened>>
      BY <1>3 DEF LogInUser, row
    <2> QED
      BY <1>1, <1>2, <1>3, <2>1, <2>2, <2>3, <2>4, StoreRow
  <1>4. CASE LogInUser(u) /\ ~(Profile[u] # NoAddress /\ emails[u] = NoRowOfEmail)
    <2>1. registered' = registered \cup {u} /\ UNCHANGED <<emails, upc, about, drawn, mailbox, opened>>
      BY <1>4 DEF LogInUser
    <2> QED
      BY <2>1 DEF MailInd, MailTypes, EmailSound, UpdateSound, Busy, LettersAgree, RowsAgree,
                  ResentStays, VerifiedMeansOpened
  <1>5. CASE LogInUserFails(u)
    <2>1. /\ Profile[u] # NoAddress /\ drawn' = drawn + 1 /\ mailbox' = mailbox \cup {mail}
          /\ UNCHANGED <<registered, emails, upc, about, opened>>
      BY <1>5 DEF LogInUserFails, mail
    <2>2. {mail} \in SUBSET Mails
      BY <1>2, <2>1
    <2>3. \A m \in {mail} : m.token = drawn + 1 /\ m.user = u /\ m.to = row.addr
      BY <1>2, <2>1
    <2> QED
      BY <1>1, <1>2, <2>1, <2>2, <2>3, StoreRow
  <1> QED
    BY <1>3, <1>4, <1>5

\* A request takes a letter with a token that is new, or that of the row it has stored.
LEMMA TakeLetter ==
  ASSUME MailInd, NEW r \in Updates, NEW u \in Accounts, u \in registered, AccountUnlocked(u),
         NEW l \in Letters, l.user = u, upc[r] = "idle", NEW next, next # "idle",
         upc' = [upc EXCEPT ![r] = next], about' = [about EXCEPT ![r] = l], drawn' = drawn + 1,
         UNCHANGED <<registered, mailbox, opened>>,
         \/ l.token = drawn + 1
         \/ l.token = emails[u].token /\ l.addr = emails[u].addr,
         \/ /\ emails' = emails /\ l.token = drawn + 1
            /\ next # "mailing" => l.addr = emails[u].addr
         \/ /\ next = "mailing"
            /\ emails' = [emails EXCEPT ![u] = [addr |-> l.addr, token |-> l.token, verified |-> FALSE]]
  PROVE  MailInd'
  <1> DEFINE row == [addr |-> l.addr, token |-> l.token, verified |-> FALSE]
  <1>1. /\ row \in EmailRows /\ row.addr = l.addr /\ row.token = l.token /\ ~row.verified
        /\ l.addr \in Addresses /\ l.addr # NoAddress /\ l.token \in Nat /\ l # Nothing
    BY LetterFields, EmailRow, MailAssumption
  <1> HIDE DEF row
  <1>2. /\ DOMAIN emails' = Accounts
        /\ \A v \in Accounts : emails'[v] = emails[v] \/ (v = u /\ emails'[v] = row /\ next = "mailing")
    BY DEF MailInd, MailTypes, row
  <1>3. /\ DOMAIN upc' = Updates /\ DOMAIN about' = Updates
        /\ upc'[r] = next /\ about'[r] = l
        /\ \A q \in Updates \ {r} : upc'[q] = upc[q] /\ about'[q] = about[q]
    BY DEF MailInd, MailTypes
  <1>4. \A q \in Updates : Busy(q) => about[q].token \in 1 .. drawn
    BY DEF MailInd, MailTypes, UpdateSound
  <1>5. \A v \in Accounts : emails[v].token \in 0 .. drawn /\ emails[v] \in EmailRows
    BY DEF MailInd, MailTypes, EmailSound, NoSecret
  <1>6. drawn \in Nat /\ \A m \in mailbox : m.token \in 1 .. drawn
    BY DEF MailInd, MailTypes
  <1>7. l.token \in 1 .. drawn + 1
    BY <1>1, <1>5, <1>6 DEF MailInd, MailTypes, EmailSound
  <1>8. MailTypes'
    <2>1. \A v \in Accounts : EmailSound(v)'
      BY <1>1, <1>2, <1>5, <1>6, <1>7 DEF MailInd, MailTypes, EmailSound
    <2>2. \A q \in Updates : UpdateSound(q)'
      BY <1>1, <1>3, <1>6, <1>7 DEF MailInd, MailTypes, UpdateSound, Busy
    <2> QED
      BY <1>2, <1>3, <1>6, <2>1, <2>2 DEF MailInd, MailTypes
  <1>9. LettersAgree'
    BY <1>3, <1>4, <1>5, <1>6, <1>7 DEF MailInd, LettersAgree, RowsAgree, Busy
  <1>10. RowsAgree'
    <2>1. ASSUME NEW v \in Accounts, NEW m \in mailbox, emails'[v].token = m.token
          PROVE  m.user = v /\ m.to = emails'[v].addr
      BY <1>1, <1>2, <1>5, <1>6, <2>1 DEF MailInd, RowsAgree
    <2>2. ASSUME NEW v \in Accounts, NEW q \in Updates, Busy(q)', emails'[v].token = about'[q].token
          PROVE  about'[q].user = v /\ about'[q].addr = emails'[v].addr
      <3>1. CASE q = r
        <4>1. CASE l.token = drawn + 1
          BY <1>1, <1>2, <1>3, <1>5, <1>6, <2>2, <3>1, <4>1
        <4>2. CASE l.token = emails[u].token /\ l.addr = emails[u].addr
          <5>1. emails[u].token \in 1 .. drawn
            BY <1>1, <4>2 DEF MailInd, MailTypes, EmailSound
          <5> QED
            BY <1>1, <1>2, <1>3, <1>5, <1>6, <2>2, <3>1, <4>2, <5>1 DEF MailInd, RowsAgree, NoSecret
        <4> QED
          BY <4>1, <4>2
      <3>2. CASE q # r
        BY <1>1, <1>2, <1>3, <1>4, <1>5, <1>6, <2>2, <3>2 DEF MailInd, RowsAgree, Busy
      <3> QED
        BY <3>1, <3>2
    <2>3. ASSUME NEW v \in Accounts, NEW w \in Accounts, v # w, emails'[v].token = emails'[w].token
          PROVE  emails'[v].token = NoSecret
      BY <1>1, <1>2, <1>5, <1>6, <2>3 DEF MailInd, RowsAgree, NoSecret
    <2> QED
      BY <2>1, <2>2, <2>3 DEF RowsAgree, Busy
  <1>11. \A q \in Updates : Busy(q) => about[q].user \in Accounts
    BY LetterFields DEF MailInd, MailTypes, UpdateSound
  <1>12. ResentStays'
    BY <1>1, <1>2, <1>3, <1>11 DEF MailInd, ResentStays, AccountUnlocked, Busy
  <1>13. VerifiedMeansOpened'
    BY <1>1, <1>2 DEF MailInd, VerifiedMeansOpened
  <1> QED
    BY <1>8, <1>9, <1>10, <1>12, <1>13 DEF MailInd

\* A mail with the letter of a request is sent.
LEMMA SendLetter ==
  ASSUME MailInd, NEW r \in Updates, Busy(r),
         NEW sent \in SUBSET {[to |-> about[r].addr, user |-> about[r].user, token |-> about[r].token]},
         mailbox' = mailbox \cup sent, UNCHANGED <<registered, emails, drawn, opened>>,
         DOMAIN upc' = Updates /\ DOMAIN about' = Updates,
         \/ upc'[r] = "idle" /\ about'[r] = Nothing
         \/ upc'[r] = "mailed" /\ upc[r] = "resending" /\ about'[r] = about[r],
         \A q \in Updates \ {r} : upc'[q] = upc[q] /\ about'[q] = about[q]
  PROVE  MailInd'
  <1>1. about[r] \in Letters /\ about[r].token \in 1 .. drawn /\ drawn \in Nat
    BY DEF MailInd, MailTypes, UpdateSound
  <1>2. /\ sent \subseteq Mails
        /\ \A m \in sent : m.to = about[r].addr /\ m.user = about[r].user /\ m.token = about[r].token
    BY <1>1 DEF Letters, Mails
  <1>3. \A m \in mailbox' : m \in mailbox \/ m \in sent
    OBVIOUS
  <1>4. MailTypes'
    <2>1. \A v \in Accounts : EmailSound(v)'
      BY DEF MailInd, MailTypes, EmailSound
    <2>2. \A q \in Updates : UpdateSound(q)'
      BY <1>1 DEF MailInd, MailTypes, UpdateSound, Busy
    <2> QED
      BY <1>1, <1>2, <1>3, <2>1, <2>2 DEF MailInd, MailTypes
  <1>5. LettersAgree'
    BY <1>2, <1>3 DEF MailInd, LettersAgree, Busy
  <1>6. RowsAgree'
    BY <1>2, <1>3 DEF MailInd, RowsAgree, Busy
  <1>7. ResentStays' /\ VerifiedMeansOpened'
    BY DEF MailInd, ResentStays, VerifiedMeansOpened
  <1> QED
    BY <1>4, <1>5, <1>6, <1>7 DEF MailInd

\* The letter of a request that is rolled back, or whose token is committed, is no more.
LEMMA EndResend ==
  ASSUME MailInd, NEW r \in Updates, CommitResent(r) \/ ResendFails(r)
  PROVE  MailInd'
  <1> DEFINE u == about[r].user
             row == [addr |-> emails[u].addr, token |-> about[r].token, verified |-> emails[u].verified]
  <1>1. /\ Busy(r) /\ about[r] \in Letters /\ u \in Accounts /\ about[r].token \in 1 .. drawn
        /\ about[r].addr = emails[u].addr /\ about[r].addr # NoAddress /\ drawn \in Nat
        /\ emails[u] \in EmailRows /\ u \in registered
    <2>1. upc[r] \in {"resending", "mailed"} /\ about[r] \in Letters /\ about[r].token \in 1 .. drawn
      BY DEF MailInd, MailTypes, UpdateSound, Busy, CommitResent, ResendFails
    <2> QED
      BY <2>1, LetterFields, MailAssumption DEF MailInd, MailTypes, EmailSound, Busy, ResentStays
  <1>2. /\ row \in EmailRows /\ row.addr = emails[u].addr /\ row.token = about[r].token
        /\ row.verified = emails[u].verified
    BY <1>1, EmailFields DEF EmailRows
  <1>3. /\ DOMAIN emails' = Accounts
        /\ \A v \in Accounts : emails'[v] = emails[v] \/ (v = u /\ emails'[v] = row)
    <2>1. CASE CommitResent(r)
      <3>1. [emails[u] EXCEPT !.token = about[r].token] = row
        BY <1>1 DEF EmailRows
      <3>2. emails' = [emails EXCEPT ![u] = row]
        BY <2>1, <3>1 DEF CommitResent
      <3> QED
        BY <1>1, <3>2 DEF MailInd, MailTypes
    <2>2. CASE ResendFails(r)
      BY <2>2 DEF ResendFails, MailInd, MailTypes
    <2> QED
      BY <2>1, <2>2
  <1> HIDE DEF row
  <1>4. /\ DOMAIN upc' = Updates /\ DOMAIN about' = Updates
        /\ upc'[r] = "idle" /\ about'[r] = Nothing
        /\ \A q \in Updates \ {r} : upc'[q] = upc[q] /\ about'[q] = about[q]
        /\ UNCHANGED <<registered, drawn, mailbox, opened>>
    BY DEF MailInd, MailTypes, CommitResent, ResendFails, Done
  <1>5. MailTypes'
    <2>1. \A v \in Accounts : EmailSound(v)'
      BY <1>1, <1>2, <1>3, <1>4 DEF MailInd, MailTypes, EmailSound
    <2>2. \A q \in Updates : UpdateSound(q)'
      BY <1>4 DEF MailInd, MailTypes, UpdateSound, Busy
    <2> QED
      BY <1>3, <1>4, <2>1, <2>2 DEF MailInd, MailTypes
  <1>6. LettersAgree'
    BY <1>4 DEF MailInd, LettersAgree, Busy
  <1>7. RowsAgree'
    <2>1. ASSUME NEW v \in Accounts, NEW m \in mailbox, emails'[v].token = m.token
          PROVE  m.user = v /\ m.to = emails'[v].addr
      BY <1>1, <1>2, <1>3, <2>1 DEF MailInd, RowsAgree, LettersAgree
    <2>2. ASSUME NEW v \in Accounts, NEW q \in Updates \ {r}, Busy(q), emails'[v].token = about[q].token
          PROVE  about[q].user = v /\ about[q].addr = emails'[v].addr
      BY <1>1, <1>2, <1>3, <2>2 DEF MailInd, RowsAgree, LettersAgree
    <2>3. ASSUME NEW v \in Accounts, NEW w \in Accounts, v # w, emails'[v].token = emails'[w].token
          PROVE  emails'[v].token = NoSecret
      BY <1>1, <1>2, <1>3, <2>3 DEF MailInd, RowsAgree
    <2> QED
      BY <1>4, <2>1, <2>2, <2>3 DEF RowsAgree, Busy
  <1>8. \A q \in Updates : Busy(q) => about[q].user \in Accounts
    BY LetterFields DEF MailInd, MailTypes, UpdateSound
  <1>9. ResentStays' /\ VerifiedMeansOpened'
    BY <1>2, <1>3, <1>4, <1>8 DEF MailInd, ResentStays, VerifiedMeansOpened, Busy
  <1> QED
    BY <1>5, <1>6, <1>7, <1>9 DEF MailInd

\* A link is opened.
LEMMA ConfirmMailInd ==
  ASSUME MailInd, NEW m \in mailbox, ConfirmUserEmail(m)
  PROVE  MailInd'
  <1>1. DOMAIN emails' = Accounts /\ UNCHANGED <<registered, upc, about, drawn, mailbox>>
    BY DEF ConfirmUserEmail
  <1>2. ASSUME NEW u \in Accounts
        PROVE  /\ emails'[u] \in EmailRows /\ emails'[u].addr = emails[u].addr
               /\ emails'[u].token = emails[u].token
               /\ emails'[u].verified => emails[u].verified \/ emails[u].token = m.token
    <2>1. emails[u] \in EmailRows
      BY DEF MailInd, MailTypes, EmailSound
    <2>2. [emails[u] EXCEPT !.verified = TRUE] = [addr |-> emails[u].addr, token |-> emails[u].token,
                                                  verified |-> TRUE]
      BY <2>1, VerifiedRow
    <2>3. emails'[u] = IF emails[u].token = m.token
                       THEN [addr |-> emails[u].addr, token |-> emails[u].token, verified |-> TRUE]
                       ELSE emails[u]
      <3> DEFINE opened_row == [emails[u] EXCEPT !.verified = TRUE]
      <3>1. emails'[u] = IF emails[u].token = m.token THEN opened_row ELSE emails[u]
        BY DEF ConfirmUserEmail
      <3> HIDE DEF opened_row
      <3>2. opened_row = [addr |-> emails[u].addr, token |-> emails[u].token, verified |-> TRUE]
        BY <2>2 DEF opened_row
      <3> QED
        BY <3>1, <3>2
    <2> QED
      BY <2>1, <2>3, EmailFields DEF EmailRows
  <1>3. m.token # NoSecret /\ m \in Mails
    BY DEF MailInd, MailTypes, NoSecret
  <1>4. MailTypes'
    <2>1. \A v \in Accounts : EmailSound(v)'
      BY <1>1, <1>2, <1>3 DEF MailInd, MailTypes, EmailSound
    <2>2. \A q \in Updates : UpdateSound(q)'
      BY <1>1 DEF MailInd, MailTypes, UpdateSound, Busy
    <2> QED
      BY <1>1, <2>1, <2>2 DEF MailInd, MailTypes
  <1>5. LettersAgree' /\ RowsAgree'
    BY <1>1, <1>2 DEF MailInd, LettersAgree, RowsAgree, Busy
  <1>6. \A q \in Updates : Busy(q) => about[q].user \in Accounts
    BY LetterFields DEF MailInd, MailTypes, UpdateSound
  <1>7. ResentStays'
    BY <1>1, <1>2, <1>6 DEF MailInd, ResentStays, Busy
  <1>8. VerifiedMeansOpened'
    <2>1. opened' = opened \cup {[user |-> m.user, addr |-> m.to]}
      BY DEF ConfirmUserEmail
    <2> QED
      BY <1>2, <2>1 DEF MailInd, VerifiedMeansOpened, RowsAgree
  <1> QED
    BY <1>4, <1>5, <1>7, <1>8 DEF MailInd

\* Every step preserves the invariant.
LEMMA StepMailInd == MailInd /\ [MailNext]_mailVars => MailInd'
  <1> SUFFICES ASSUME MailInd, [MailNext]_mailVars PROVE MailInd'
    OBVIOUS
  <1>1. ASSUME NEW r \in Updates, NEW u \in Accounts, NEW a \in Addresses, UpdateEmail(r, u, a)
        PROVE  MailInd'
    <2> DEFINE token == IF emails[u].addr = a THEN emails[u].token ELSE drawn + 1
               l == [user |-> u, addr |-> a, token |-> token]
    <2>1. /\ u \in registered /\ AccountUnlocked(u) /\ drawn' = drawn + 1
          /\ emails' = [emails EXCEPT ![u] = [addr |-> a, token |-> token, verified |-> FALSE]]
          /\ upc[r] = "idle" /\ upc' = [upc EXCEPT ![r] = "mailing"] /\ about' = [about EXCEPT ![r] = l]
          /\ UNCHANGED <<registered, mailbox, opened>>
      BY <1>1 DEF UpdateEmail, Reconfirmed, Mailing
    <2>2. token \in Nat /\ (token = drawn + 1 \/ (token = emails[u].token /\ a = emails[u].addr))
      BY DEF MailInd, MailTypes, EmailSound, EmailRows
    <2> HIDE DEF token
    <2>3. l \in Letters /\ l.user = u /\ l.addr = a /\ l.token = token
      BY <2>2 DEF Letters
    <2> HIDE DEF l
    <2> QED
      BY <2>1, <2>2, <2>3, TakeLetter
  <1>2. ASSUME NEW r \in Updates, NEW u \in Accounts, Resend(r, u)
        PROVE  MailInd'
    <2> DEFINE l == [user |-> u, addr |-> emails[u].addr, token |-> drawn + 1]
    <2>1. /\ u \in registered /\ AccountUnlocked(u) /\ drawn' = drawn + 1 /\ emails' = emails
          /\ upc[r] = "idle" /\ upc' = [upc EXCEPT ![r] = "resending"] /\ about' = [about EXCEPT ![r] = l]
          /\ UNCHANGED <<registered, mailbox, opened>>
      BY <1>2 DEF Resend, Mailing
    <2>2. emails[u].addr \in Addresses /\ drawn \in Nat
      BY <1>2, EmailFields DEF Resend, MailInd, MailTypes, EmailSound, NoRowOfEmail
    <2>3. l \in Letters /\ l.user = u /\ l.addr = emails[u].addr /\ l.token = drawn + 1
      BY <2>2 DEF Letters
    <2> HIDE DEF l
    <2> QED
      BY <2>1, <2>2, <2>3, TakeLetter
  <1>3. ASSUME NEW r \in Updates, SendConfirmation(r) \/ SendResent(r)
        PROVE  MailInd'
    <2> DEFINE mail == [to |-> about[r].addr, user |-> about[r].user, token |-> about[r].token]
    <2>1. PICK sent \in SUBSET {mail} : mailbox' = mailbox \cup sent
      BY <1>3 DEF SendConfirmation, SendResent
    <2>2. /\ Busy(r) /\ UNCHANGED <<registered, emails, drawn, opened>>
          /\ DOMAIN upc' = Updates /\ DOMAIN about' = Updates
          /\ \/ upc'[r] = "idle" /\ about'[r] = Nothing
             \/ upc'[r] = "mailed" /\ upc[r] = "resending" /\ about'[r] = about[r]
          /\ \A q \in Updates \ {r} : upc'[q] = upc[q] /\ about'[q] = about[q]
      BY <1>3 DEF SendConfirmation, SendResent, Done, Busy, MailInd, MailTypes
    <2> QED
      BY <2>1, <2>2, SendLetter
  <1>4. CASE UNCHANGED mailVars
    BY <1>4 DEF mailVars, MailInd, MailTypes, EmailSound, UpdateSound, Busy, LettersAgree, RowsAgree,
                ResentStays, VerifiedMeansOpened
  <1> QED
    BY <1>1, <1>2, <1>3, <1>4, LogInMailInd, EndResend, ConfirmMailInd DEF MailNext

\* emails.verified, on which publishing and owning crates depend: for any users, addresses and
\* requests an address counts as verified only when a link that was mailed to it for this user
\* was opened, however late, and no two rows share a token.
THEOREM MailIsSound == MailSpec => []MailInv
  <1>1. MailInd => MailTypeOK
    <2> SUFFICES ASSUME MailInd PROVE MailTypeOK
      OBVIOUS
    <2>1. ASSUME NEW u \in Accounts, emails[u] # NoRowOfEmail
          PROVE  emails[u].addr \in Addresses
      BY <2>1, EmailFields DEF MailInd, MailTypes, EmailSound, NoRowOfEmail
    <2>2. \A r \in Updates : (upc[r] = "idle") <=> (about[r] = Nothing)
      BY LetterFields DEF MailInd, MailTypes, UpdateSound, Busy
    <2> QED
      BY <2>1, <2>2, MailAssumption DEF MailInd, MailTypes, EmailSound, RowsAgree, MailTypeOK
  <1>2. MailInd => MailInv
    BY <1>1 DEF MailInd, MailInv
  <1> QED
    BY InitMailInd, StepMailInd, <1>2, PTL DEF MailSpec

-----------------------------------------------------------------------------
(* API tokens and the mails before they expire.                            *)

TokenRows == [user : Holders, scopes : Scopes, expires : Expiries, revoked : BOOLEAN, notified : BOOLEAN]

\* The types the argument needs: a row and a count of mails per token.
TokenTypes ==
  /\ clock \in 0 .. MaxClock
  /\ locked \subseteq Holders
  /\ apiTokens \in Seq(TokenRows)
  /\ mails \in Seq(Nat)
  /\ Len(mails) = Len(apiTokens)
  /\ making \in [Makers -> SUBSET Holders]
  /\ batch \in [Notifiers -> SUBSET Ids]
  /\ told \in [Notifiers -> SUBSET Ids]
  /\ \A n \in Notifiers : told[n] \subseteq batch[n] /\ \A s, t \in told[n] : s = t
  /\ shared \subseteq Ids /\ unmarked \subseteq Ids

\* A mail is out when a run has told its token.
ToldAreMailed ==
  \A n \in Notifiers : \A t \in told[n] : apiTokens[t].user \in Reachable => mails[t] > 0

\* A token that no two runs had at once, and whose mark was not lost: one run at most has
\* it, and has it unmarked; it has no mail before a run has told it or marked it.
ReadOnce(t) ==
  /\ \A n, m \in Notifiers : t \in batch[n] /\ t \in batch[m] => n = m
  /\ \A n \in Notifiers : t \in batch[n] => ~apiTokens[t].notified
  /\ mails[t] <= 1
  /\ ~apiTokens[t].notified /\ (\A n \in Notifiers : t \notin told[n]) => mails[t] = 0

MailsFollowMarks == \A t \in Ids : t \in shared \/ t \in unmarked \/ ReadOnce(t)

TokensInd == TokenTypes /\ ToldAreMailed /\ NotifiedMeansTold /\ MailsFollowMarks

\* What one of the two updates of a row leaves as it is.
LEMMA RowUpdate ==
  ASSUME NEW row \in TokenRows, NEW v \in BOOLEAN
  PROVE  /\ [row EXCEPT !.revoked = v] \in TokenRows
         /\ [row EXCEPT !.revoked = v].user = row.user
         /\ [row EXCEPT !.revoked = v].notified = row.notified
         /\ [row EXCEPT !.notified = v] \in TokenRows
         /\ [row EXCEPT !.notified = v].user = row.user
         /\ [row EXCEPT !.notified = v].notified = v
  BY DEF TokenRows

\* The table with one row replaced.
LEMMA RowReplaced ==
  ASSUME apiTokens \in Seq(TokenRows), NEW t \in Ids, NEW row \in TokenRows,
         apiTokens' = [apiTokens EXCEPT ![t] = row]
  PROVE  /\ apiTokens' \in Seq(TokenRows) /\ Len(apiTokens') = Len(apiTokens) /\ Ids' = Ids
         /\ \A s \in Ids : apiTokens'[s] = IF s = t THEN row ELSE apiTokens[s]
  BY DEF Ids

\* The two updates, of the table.
LEMMA RevokedRows ==
  ASSUME TokenTypes, NEW t \in Ids, apiTokens' = [apiTokens EXCEPT ![t].revoked = TRUE]
  PROVE  /\ apiTokens' \in Seq(TokenRows) /\ Len(apiTokens') = Len(apiTokens) /\ Ids' = Ids
         /\ \A s \in Ids : /\ apiTokens'[s].user = apiTokens[s].user
                           /\ apiTokens'[s].notified = apiTokens[s].notified
  <1> DEFINE row == [apiTokens[t] EXCEPT !.revoked = TRUE]
  <1>1. apiTokens \in Seq(TokenRows) /\ apiTokens[t] \in TokenRows
    BY DEF TokenTypes, Ids
  <1>2. row \in TokenRows /\ row.user = apiTokens[t].user /\ row.notified = apiTokens[t].notified
    BY <1>1, RowUpdate
  <1>3. apiTokens' = [apiTokens EXCEPT ![t] = row]
    OBVIOUS
  <1> HIDE DEF row
  <1>4. /\ apiTokens' \in Seq(TokenRows) /\ Len(apiTokens') = Len(apiTokens) /\ Ids' = Ids
        /\ \A s \in Ids : apiTokens'[s] = IF s = t THEN row ELSE apiTokens[s]
    BY <1>1, <1>2, <1>3, RowReplaced, Zenon
  <1> QED
    BY <1>2, <1>4
LEMMA MarkedRows ==
  ASSUME TokenTypes, NEW t \in Ids, apiTokens' = [apiTokens EXCEPT ![t].notified = TRUE]
  PROVE  /\ apiTokens' \in Seq(TokenRows) /\ Len(apiTokens') = Len(apiTokens) /\ Ids' = Ids
         /\ \A s \in Ids : apiTokens'[s].user = apiTokens[s].user
         /\ \A s \in Ids \ {t} : apiTokens'[s].notified = apiTokens[s].notified
         /\ apiTokens'[t].notified
  <1> DEFINE row == [apiTokens[t] EXCEPT !.notified = TRUE]
  <1>1. apiTokens \in Seq(TokenRows) /\ apiTokens[t] \in TokenRows
    BY DEF TokenTypes, Ids
  <1>2. row \in TokenRows /\ row.user = apiTokens[t].user /\ row.notified = TRUE
    BY <1>1, RowUpdate
  <1>3. apiTokens' = [apiTokens EXCEPT ![t] = row]
    OBVIOUS
  <1> HIDE DEF row
  <1>4. /\ apiTokens' \in Seq(TokenRows) /\ Len(apiTokens') = Len(apiTokens) /\ Ids' = Ids
        /\ \A s \in Ids : apiTokens'[s] = IF s = t THEN row ELSE apiTokens[s]
    BY <1>1, <1>2, <1>3, RowReplaced, Zenon
  <1> QED
    BY <1>2, <1>4

\* The initial states satisfy the invariant.
LEMMA InitTokensInd == TokensInit => TokensInd
  BY TokensAssumption
     DEF TokensInit, TokensInd, TokenTypes, ToldAreMailed, NotifiedMeansTold, MailsFollowMarks, Ids

\* Steps that touch neither the marks nor the job.
LEMMA OtherTokenSteps ==
  ASSUME TokensInd, UNCHANGED <<batch, told, mails, shared, unmarked>>,
         apiTokens' \in Seq(TokenRows), Len(apiTokens') = Len(apiTokens), Ids' = Ids,
         \A t \in Ids : /\ apiTokens'[t].user = apiTokens[t].user
                        /\ apiTokens'[t].notified = apiTokens[t].notified,
         clock' \in 0 .. MaxClock, locked' \subseteq Holders, making' \in [Makers -> SUBSET Holders]
  PROVE  TokensInd'
  <1>1. TokenTypes'
    BY DEF TokensInd, TokenTypes
  <1>2. ToldAreMailed'
    BY DEF TokensInd, TokenTypes, ToldAreMailed
  <1>3. NotifiedMeansTold'
    BY DEF TokensInd, NotifiedMeansTold
  <1>4. MailsFollowMarks'
    BY DEF TokensInd, MailsFollowMarks, ReadOnce
  <1> QED
    BY <1>1, <1>2, <1>3, <1>4 DEF TokensInd

\* A run is done with some tokens, or gives them up: what it has told of them is marked, or
\* its mark is lost.
LEMMA DoneKeepsTokensInd ==
  ASSUME TokensInd, NEW n \in Notifiers, NEW dropped \in SUBSET Ids, DoneWith(n, dropped),
         UNCHANGED <<clock, making, locked, mails, shared>>,
         told[n] \subseteq dropped,
         apiTokens' \in Seq(TokenRows), Len(apiTokens') = Len(apiTokens), Ids' = Ids,
         \A t \in Ids : /\ apiTokens'[t].user = apiTokens[t].user
                        /\ apiTokens[t].notified => apiTokens'[t].notified
                        /\ apiTokens'[t].notified =>
                             apiTokens[t].notified \/ (t \in told[n]),
         unmarked \subseteq unmarked', unmarked' \subseteq Ids,
         \A t \in told[n] : t \in unmarked' \/ apiTokens'[t].notified
  PROVE  TokensInd'
  <1>1. /\ batch' = [batch EXCEPT ![n] = @ \ dropped] /\ told' = [told EXCEPT ![n] = {}]
        /\ batch \in [Notifiers -> SUBSET Ids] /\ told \in [Notifiers -> SUBSET Ids]
        /\ \A m \in Notifiers : told[m] \subseteq batch[m] /\ \A s, t \in told[m] : s = t
    BY DEF DoneWith, TokensInd, TokenTypes
  <1>2. /\ batch' \in [Notifiers -> SUBSET Ids] /\ told' \in [Notifiers -> SUBSET Ids]
        /\ batch'[n] = batch[n] \ dropped /\ told'[n] = {}
        /\ \A m \in Notifiers \ {n} : batch'[m] = batch[m] /\ told'[m] = told[m]
    BY <1>1
  <1>3. TokenTypes'
    BY <1>1, <1>2 DEF TokensInd, TokenTypes
  <1>4. ToldAreMailed'
    BY <1>1, <1>2 DEF TokensInd, ToldAreMailed
  <1>5. NotifiedMeansTold'
    BY <1>1 DEF TokensInd, ToldAreMailed, NotifiedMeansTold
  <1>6. ASSUME NEW t \in Ids, t \notin shared', t \notin unmarked'
        PROVE  ReadOnce(t)'
    <2>1. ReadOnce(t)
      BY <1>6 DEF TokensInd, MailsFollowMarks
    <2>2. \A m \in Notifiers : (t \in batch'[m] => t \in batch[m]) /\ (t \in told'[m] => t \in told[m])
      BY <1>1, <1>2
    <2>3. CASE t \in told[n]
      <3>1. apiTokens'[t].notified /\ t \in batch[n] /\ t \notin batch'[n]
        BY <1>1, <1>2, <1>6, <2>3
      <3>2. \A m \in Notifiers : t \notin batch'[m]
        BY <1>2, <2>1, <3>1 DEF ReadOnce
      <3> QED
        BY <2>1, <3>1, <3>2 DEF ReadOnce
    <2>4. CASE t \notin told[n]
      <3>1. \A m \in Notifiers : t \in told'[m] <=> t \in told[m]
        BY <1>2, <2>4
      <3>2. apiTokens'[t].notified <=> apiTokens[t].notified
        BY <1>6, <2>4
      <3> QED
        BY <2>1, <2>2, <3>1, <3>2 DEF ReadOnce
    <2> QED
      BY <2>3, <2>4
  <1> QED
    BY <1>3, <1>4, <1>5, <1>6 DEF TokensInd, MailsFollowMarks

\* Every step preserves it.
LEMMA StepTokensInd == TokensInd /\ [TokensNext]_tokenVars => TokensInd'
  <1> SUFFICES ASSUME TokensInd, [TokensNext]_tokenVars PROVE TokensInd'
    OBVIOUS
  <1>1. /\ clock \in 0 .. MaxClock /\ locked \subseteq Holders /\ making \in [Makers -> SUBSET Holders]
        /\ apiTokens \in Seq(TokenRows) /\ mails \in Seq(Nat) /\ Len(mails) = Len(apiTokens)
        /\ batch \in [Notifiers -> SUBSET Ids] /\ told \in [Notifiers -> SUBSET Ids]
        /\ \A n \in Notifiers : told[n] \subseteq batch[n] /\ \A s, t \in told[n] : s = t
        /\ Ids = 1 .. Len(apiTokens) /\ shared \subseteq Ids /\ unmarked \subseteq Ids
    BY DEF TokensInd, TokenTypes, Ids
  <1>0. apiTokens' = apiTokens =>
          /\ apiTokens' \in Seq(TokenRows) /\ Len(apiTokens') = Len(apiTokens) /\ Ids' = Ids
          /\ \A t \in Ids : /\ apiTokens'[t].user = apiTokens[t].user
                            /\ apiTokens'[t].notified = apiTokens[t].notified
    BY <1>1 DEF Ids
  <1>2. ASSUME NEW r \in Makers, NEW u \in Holders, CountTokens(r, u)
        PROVE  TokensInd'
    BY <1>0, <1>1, <1>2, OtherTokenSteps DEF CountTokens, jobVars
  <1>3. ASSUME NEW r \in Makers, NEW s \in Scopes, NEW e \in Expiries, InsertToken(r, s, e)
        PROVE  TokensInd'
    <2>1. PICK u \in making[r] :
            /\ apiTokens' = Append(apiTokens, [user |-> u, scopes |-> s, expires |-> e,
                                               revoked |-> FALSE, notified |-> FALSE])
            /\ mails' = Append(mails, 0)
            /\ making' = [making EXCEPT ![r] = {}]
            /\ UNCHANGED <<clock, locked, batch, told, shared, unmarked>>
      BY <1>3 DEF InsertToken, jobVars
    <2> DEFINE row == [user |-> u, scopes |-> s, expires |-> e, revoked |-> FALSE, notified |-> FALSE]
    <2>2. row \in TokenRows /\ row.notified = FALSE /\ apiTokens' = Append(apiTokens, row)
      BY <1>1, <2>1 DEF TokenRows
    <2> HIDE DEF row
    <2>0. PICK n : n = Len(apiTokens) + 1
      OBVIOUS
    <2>3. /\ apiTokens' \in Seq(TokenRows) /\ mails' \in Seq(Nat)
          /\ Len(apiTokens') = n /\ Len(mails') = n /\ Ids' = 1 .. n
          /\ apiTokens'[n] = row /\ mails'[n] = 0
          /\ \A t \in Ids : apiTokens'[t] = apiTokens[t] /\ mails'[t] = mails[t]
      BY <1>1, <2>0, <2>1, <2>2 DEF Ids
    <2> DEFINE count == Len(apiTokens)
    <2>4. /\ n \notin Ids /\ Ids \subseteq Ids'
          /\ \A t \in Ids' : t \in Ids \/ t = n
          /\ apiTokens'[n].notified = FALSE
      <3>1. count \in Nat /\ Ids = 1 .. count /\ Ids' = 1 .. count + 1 /\ n = count + 1
        BY <1>1, <2>0, <2>3
      <3>2. count + 1 \notin 1 .. count /\ \A t \in 1 .. count + 1 : t \in 1 .. count \/ t = count + 1
        BY <3>1
      <3> QED
        BY <2>2, <2>3, <3>1, <3>2
    <2>5. TokenTypes'
      BY <1>1, <2>1, <2>3, <2>4 DEF TokensInd, TokenTypes
    <2>6. ToldAreMailed'
      BY <1>1, <2>1, <2>3, <2>4 DEF TokensInd, ToldAreMailed
    <2>7. NotifiedMeansTold'
      BY <2>3, <2>4 DEF TokensInd, NotifiedMeansTold
    <2>8. \A m \in Notifiers : n \notin batch'[m] /\ n \notin told'[m]
      BY <1>1, <2>1, <2>4
    <2>9. ReadOnce(n)'
      BY <2>3, <2>4, <2>8 DEF ReadOnce
    <2>10. \A t \in Ids : ReadOnce(t) => ReadOnce(t)'
      BY <2>1, <2>3 DEF ReadOnce
    <2>11. MailsFollowMarks'
      BY <2>1, <2>4, <2>9, <2>10 DEF TokensInd, MailsFollowMarks
    <2> QED
      BY <2>5, <2>6, <2>7, <2>11 DEF TokensInd
  <1>4. ASSUME NEW r \in Makers, CreateFails(r)
        PROVE  TokensInd'
    BY <1>0, <1>1, <1>4, OtherTokenSteps DEF CreateFails, jobVars
  <1>5. ASSUME NEW t \in Ids, Revoked(t)
        PROVE  TokensInd'
    <2>1. /\ apiTokens' = [apiTokens EXCEPT ![t].revoked = TRUE]
          /\ UNCHANGED <<clock, making, locked, mails, batch, told, shared, unmarked>>
      BY <1>5 DEF Revoked, jobVars
    <2>2. /\ apiTokens' \in Seq(TokenRows) /\ Len(apiTokens') = Len(apiTokens) /\ Ids' = Ids
          /\ \A s \in Ids : /\ apiTokens'[s].user = apiTokens[s].user
                            /\ apiTokens'[s].notified = apiTokens[s].notified
      BY <2>1, RevokedRows DEF TokensInd
    <2> QED
      BY <1>1, <2>1, <2>2, OtherTokenSteps
  <1>6. ASSUME NEW u \in Holders, LockAccount(u)
        PROVE  TokensInd'
    BY <1>0, <1>1, <1>6, OtherTokenSteps DEF LockAccount, jobVars
  <1>7. ASSUME NEW n \in Notifiers, FindExpiringTokens(n)
        PROVE  TokensInd'
    <2>1. PICK found \in SUBSET Expiring :
            /\ batch[n] = {} /\ batch' = [batch EXCEPT ![n] = found]
            /\ shared' = shared \cup {t \in found : \E m \in Notifiers : t \in batch[m]}
            /\ UNCHANGED <<clock, apiTokens, making, locked, told, mails, unmarked>>
      BY <1>7 DEF FindExpiringTokens
    <2>2. found \subseteq Ids /\ \A t \in found : ~apiTokens[t].notified
      BY DEF Expiring
    <2>3. /\ batch' \in [Notifiers -> SUBSET Ids] /\ batch'[n] = found
          /\ \A m \in Notifiers \ {n} : batch'[m] = batch[m]
      BY <1>1, <2>1, <2>2
    <2>4. Ids' = Ids /\ shared' \subseteq Ids
      BY <1>1, <2>1, <2>2 DEF Ids
    <2>5. told[n] = {} /\ told' = told
      BY <1>1, <2>1
    <2>6. TokenTypes'
      BY <1>1, <2>1, <2>3, <2>4, <2>5 DEF TokensInd, TokenTypes
    <2>7. ToldAreMailed' /\ NotifiedMeansTold'
      BY <2>1, <2>4, <2>5 DEF TokensInd, ToldAreMailed, NotifiedMeansTold
    <2>8. ASSUME NEW t \in Ids, t \notin shared', t \notin unmarked
          PROVE  ReadOnce(t)'
      <3>1. ReadOnce(t)
        BY <2>1, <2>8 DEF TokensInd, MailsFollowMarks
      <3>2. t \in found => \A m \in Notifiers : t \notin batch[m]
        BY <2>1, <2>8
      <3>3. \A m \in Notifiers : t \in batch'[m] => t \in batch[m] \/ (m = n /\ t \in found)
        BY <2>3
      <3> QED
        BY <2>1, <2>2, <2>5, <3>1, <3>2, <3>3 DEF ReadOnce
    <2> QED
      BY <2>1, <2>4, <2>6, <2>7, <2>8 DEF TokensInd, MailsFollowMarks
  <1>8. ASSUME NEW n \in Notifiers, NEW t \in batch[n], SendExpiryMail(n, t)
        PROVE  TokensInd'
    <2>1. /\ t \in Ids /\ told[n] = {} /\ told' = [told EXCEPT ![n] = {t}]
          /\ UNCHANGED <<clock, apiTokens, making, locked, batch, shared, unmarked>>
      BY <1>1, <1>8 DEF SendExpiryMail
    <2>2. /\ mails' \in Seq(Nat) /\ Len(mails') = Len(mails)
          /\ \A s \in Ids \ {t} : mails'[s] = mails[s]
          /\ mails'[t] = IF apiTokens[t].user \in Reachable THEN mails[t] + 1 ELSE mails[t]
          /\ mails[t] \in Nat
      BY <1>1, <1>8, <2>1 DEF SendExpiryMail
    <2>3. /\ told' \in [Notifiers -> SUBSET Ids] /\ told'[n] = {t}
          /\ \A m \in Notifiers \ {n} : told'[m] = told[m]
      BY <1>1, <2>1
    <2>4. Ids' = Ids /\ \A s \in Ids : mails[s] \in Nat
      BY <1>1, <2>1 DEF Ids
    <2>5. TokenTypes'
      <3>1. \A m \in Notifiers : told'[m] \subseteq batch'[m] /\ \A s, u \in told'[m] : s = u
        BY <1>1, <2>1, <2>3
      <3> QED
        BY <1>1, <2>1, <2>2, <2>3, <2>4, <3>1 DEF TokensInd, TokenTypes
    <2>6. /\ \A s \in Ids : mails[s] > 0 => mails'[s] > 0
          /\ apiTokens[t].user \in Reachable => mails'[t] > 0
      BY <2>2, <2>4
    <2>7. ToldAreMailed'
      BY <1>1, <2>1, <2>3, <2>6 DEF TokensInd, ToldAreMailed
    <2>8. NotifiedMeansTold'
      BY <2>1, <2>4, <2>6 DEF TokensInd, NotifiedMeansTold
    <2>9. ASSUME NEW s \in Ids, s \notin shared, s \notin unmarked
          PROVE  ReadOnce(s)'
      <3>1. ReadOnce(s)
        BY <2>9 DEF TokensInd, MailsFollowMarks
      <3>2. CASE s = t
        <4>1. \A m \in Notifiers : t \notin told[m]
          BY <1>1, <1>8, <2>1, <3>1, <3>2 DEF ReadOnce
        <4>2. mails[t] = 0 /\ ~apiTokens[t].notified
          BY <1>8, <3>1, <3>2, <4>1 DEF ReadOnce
        <4>3. mails'[t] <= 1 /\ t \in told'[n]
          BY <2>2, <2>3, <4>2
        <4> QED
          BY <2>1, <3>1, <3>2, <4>3 DEF ReadOnce
      <3>3. CASE s # t
        <4>1. mails'[s] = mails[s] /\ \A m \in Notifiers : s \in told'[m] <=> s \in told[m]
          BY <2>1, <2>2, <2>3, <3>3
        <4> QED
          BY <2>1, <3>1, <4>1 DEF ReadOnce
      <3> QED
        BY <3>2, <3>3
    <2> QED
      BY <2>1, <2>4, <2>5, <2>7, <2>8, <2>9 DEF TokensInd, MailsFollowMarks
  <1>9. ASSUME NEW n \in Notifiers, NEW t \in batch[n], ExpiryMailFails(n, t)
        PROVE  TokensInd'
    <2>1. t \in Ids /\ {t} \in SUBSET Ids
      BY <1>1
    <2>2. /\ told[n] \subseteq {t} /\ unmarked' = unmarked \cup told[n] /\ DoneWith(n, {t})
          /\ UNCHANGED <<clock, apiTokens, making, locked, mails, shared>>
      BY <1>9 DEF ExpiryMailFails
    <2>3. unmarked' \subseteq Ids
      BY <1>1, <2>2
    <2> QED
      BY <1>0, <2>1, <2>2, <2>3, DoneKeepsTokensInd
  <1>10. ASSUME NEW n \in Notifiers, NEW t \in batch[n], MarkNotified(n, t)
        PROVE  TokensInd'
    <2>1. /\ t \in told[n] /\ t \in Ids /\ apiTokens' = [apiTokens EXCEPT ![t].notified = TRUE]
          /\ DoneWith(n, {t}) /\ told[n] \subseteq {t} /\ {t} \in SUBSET Ids
          /\ UNCHANGED <<clock, making, locked, mails, shared, unmarked>>
      BY <1>1, <1>10 DEF MarkNotified
    <2>2. /\ apiTokens' \in Seq(TokenRows) /\ Len(apiTokens') = Len(apiTokens) /\ Ids' = Ids
          /\ \A s \in Ids : apiTokens'[s].user = apiTokens[s].user
          /\ \A s \in Ids \ {t} : apiTokens'[s].notified = apiTokens[s].notified
          /\ apiTokens'[t].notified
      BY <2>1, MarkedRows DEF TokensInd
    <2>3. \A s \in Ids : /\ apiTokens'[s].user = apiTokens[s].user
                         /\ apiTokens[s].notified => apiTokens'[s].notified
                         /\ apiTokens'[s].notified => apiTokens[s].notified \/ s \in told[n]
      BY <2>1, <2>2
    <2>4. \A s \in told[n] : s \in unmarked' \/ apiTokens'[s].notified
      BY <2>1, <2>2
    <2>5. unmarked \subseteq unmarked' /\ unmarked' \subseteq Ids
      BY <1>1, <2>1
    <2> QED
      BY <2>1, <2>2, <2>3, <2>4, <2>5, DoneKeepsTokensInd
  <1>11. ASSUME NEW n \in Notifiers, JobLost(n)
         PROVE  TokensInd'
    <2>1. /\ batch[n] \in SUBSET Ids /\ told[n] \subseteq batch[n] /\ DoneWith(n, batch[n])
          /\ unmarked' = unmarked \cup told[n]
          /\ UNCHANGED <<clock, apiTokens, making, locked, mails, shared>>
      BY <1>1, <1>11 DEF JobLost
    <2>2. unmarked' \subseteq Ids
      BY <1>1, <2>1
    <2> QED
      BY <1>0, <2>1, <2>2, DoneKeepsTokensInd
  <1>12. CASE TickClock
    BY <1>0, <1>1, <1>12, TokensAssumption, OtherTokenSteps DEF TickClock, jobVars
  <1>13. CASE UNCHANGED tokenVars
    BY <1>0, <1>1, <1>13, OtherTokenSteps DEF tokenVars, jobVars
  <1> QED
    BY <1>2, <1>3, <1>4, <1>5, <1>6, <1>7, <1>8, <1>9, <1>10, <1>11, <1>12, <1>13
       DEF TokensNext, RevokeApiToken, RevokeCurrentApiToken, AlertRevokeApiToken

\* handle_expiring_token: for any tokens, runs and failures, a token is marked only after its
\* holder was told, and who is told again owes it to a lost mark or to runs that overlap.
THEOREM TokensAreAnnounced == TokensSpec => []TokensInv
  <1>1. TokensInd => TokensInv
    <2> SUFFICES ASSUME TokensInd PROVE TokensInv
      OBVIOUS
    <2>1. apiTokens \in Seq(TokenRows) /\ making \in [Makers -> SUBSET Holders]
      BY DEF TokensInd, TokenTypes
    <2>2. \A t \in Ids : apiTokens[t].user \in Holders /\ apiTokens[t].expires \in Expiries
      <3>1. \A t \in Ids : apiTokens[t] \in TokenRows
        BY <2>1 DEF Ids
      <3> QED
        BY <3>1 DEF TokenRows
    <2> QED
      BY <2>1, <2>2 DEF TokensInd, TokenTypes, MailsFollowMarks, ReadOnce,
                            TokensInv, TokensTypeOK, ToldOnce
  <1> QED
    BY InitTokensInd, StepTokensInd, <1>1, PTL DEF TokensSpec

-----------------------------------------------------------------------------
(* Administrators.                                                         *)

\* What the variables range over.
AdminsTyped ==
  /\ AdminsTypeOK /\ permitted \subseteq Team
  /\ spc \in [Syncs -> {"idle", "asked", "read", "granted"}]
  /\ repoAdmins \in [Syncs -> SUBSET Team]
  /\ DOMAIN rows = Syncs
  /\ known \in [Syncs -> SUBSET Team] /\ sure \in [Syncs -> SUBSET Team]

\* A run has the answer that holds of the people it knows, and is under way.
AnswerHolds(n, p) ==
  p \in known[n] => spc[n] # "idle" /\ (p \in repoAdmins[n] <=> p \in permitted)

\* Only those whom the repository named are to be granted access.
NamedRows(n) == \A r \in rows[n] : ~r.admin => r.user \in repoAdmins[n]

HasRow(n, p) == \E r \in rows[n] : r.user = p
IsNew(n, p) == \E r \in rows[n] : r.user = p /\ ~r.admin

\* What a run has yet to do about somebody it is sure of.
SureHolds(n, p) ==
  p \in sure[n] /\ spc[n] \in {"read", "granted"} =>
    /\ p \in admins /\ p \notin permitted => HasRow(n, p)
    /\ p \in permitted /\ p \in members => p \in admins \/ (spc[n] = "read" /\ IsNew(n, p))

AdminsInd ==
  /\ AdminsTyped /\ AdminsSettle
  /\ \A n \in Syncs : NamedRows(n) /\ \A p \in Team : AnswerHolds(n, p) /\ SureHolds(n, p)

\* Granting adds those of the rows who were not administrators.
LEMMA AccessGranted ==
  ASSUME AdminsInd, NEW n \in Syncs, Grant(n)
  PROVE  /\ \A p : p \in admins' <=> p \in admins \/ IsNew(n, p)
         /\ \A p \in known[n] : p \in admins' /\ p \notin admins => p \in permitted
  <1>1. \A p : p \in {r.user : r \in {r \in rows[n] : ~r.admin}} <=> IsNew(n, p)
    BY DEF IsNew
  <1>2. \A p : p \in admins' <=> p \in admins \/ IsNew(n, p)
    BY <1>1 DEF Grant
  <1>3. \A p : IsNew(n, p) => p \in repoAdmins[n]
    BY DEF IsNew, AdminsInd, NamedRows
  <1> QED
    BY <1>2, <1>3 DEF AdminsInd, AnswerHolds, AdminsTyped

\* Revoking takes access from those of the rows whom the repository did not name.
LEMMA AccessRevoked ==
  ASSUME AdminsInd, NEW n \in Syncs, Revoke(n)
  PROVE  /\ \A p : p \in admins' <=> p \in admins /\ ~(HasRow(n, p) /\ p \notin repoAdmins[n])
         /\ \A p \in known[n] : p \in admins /\ p \notin admins' => p \notin permitted
  <1> DEFINE wanted == repoAdmins[n]
             looked == rows[n]
  <1>0. Obsolete(n) = {r.user : r \in {r \in looked : r.user \notin wanted}}
    BY DEF Obsolete
  <1> HIDE DEF wanted, looked
  <1>1. \A p : p \in Obsolete(n) <=> (\E r \in looked : r.user = p) /\ p \notin wanted
    BY <1>0
  <1>2. \A p : p \in admins' <=> p \in admins /\ ~(HasRow(n, p) /\ p \notin repoAdmins[n])
    BY <1>1 DEF Revoke, HasRow, wanted, looked
  <1> QED
    BY <1>2 DEF AdminsInd, AnswerHolds, AdminsTyped

\* A step that makes administrators or unmakes them does not upset what other runs, and the
\* runs that have ended, are sure of.
LEMMA OthersStaySure ==
  ASSUME AdminsInd, NEW n \in Syncs,
         UNCHANGED <<permitted, members>>,
         \A p \in known[n] : p \in admins' /\ p \notin admins => p \in permitted /\ p \in members,
         \A p \in known[n] : p \in admins /\ p \notin admins' => p \notin permitted
  PROVE  /\ \A p \in settled \ Misjudged(n) : p \in admins' <=> p \in permitted /\ p \in members
         /\ \A m \in Syncs : \A p \in sure[m] \ Misjudged(n) :
              spc[m] \in {"read", "granted"} =>
                /\ p \in admins' /\ p \notin permitted => HasRow(m, p)
                /\ p \in permitted /\ p \in members =>
                     p \in admins' \/ (spc[m] = "read" /\ IsNew(m, p))
  <1>1. \A p \in Team : p \notin Misjudged(n) =>
          (p \in admins' <=> p \in admins) \/ p \in known[n]
    BY DEF Misjudged
  <1>2. settled \subseteq Team
    BY DEF AdminsInd, AdminsTyped, AdminsTypeOK
  <1>3. \A p \in settled \ Misjudged(n) : p \in admins' <=> p \in permitted /\ p \in members
    BY <1>1, <1>2 DEF AdminsInd, AdminsSettle
  <1>4. ASSUME NEW m \in Syncs, NEW p \in sure[m] \ Misjudged(n), spc[m] \in {"read", "granted"}
        PROVE  /\ p \in admins' /\ p \notin permitted => HasRow(m, p)
               /\ p \in permitted /\ p \in members =>
                    p \in admins' \/ (spc[m] = "read" /\ IsNew(m, p))
    <2>1. p \in Team
      BY <1>4 DEF AdminsInd, AdminsTyped
    <2>2. SureHolds(m, p)
      BY <2>1 DEF AdminsInd
    <2> QED
      BY <1>1, <1>4, <2>1, <2>2 DEF SureHolds
  <1> QED
    BY <1>3, <1>4

\* Every step preserves the types.
LEMMA StepAdminsTyped == AdminsInd /\ [AdminsNext]_adminVars => AdminsTyped'
  <1> SUFFICES ASSUME AdminsInd, [AdminsNext]_adminVars PROVE AdminsTyped'
    OBVIOUS
  <1> USE DEF AdminsTyped, AdminsTypeOK
  <1>0. AdminsTyped
    BY DEF AdminsInd
  <1>1. ASSUME NEW p \in Team, ChangePermission(p)
        PROVE  AdminsTyped'
    BY <1>0, <1>1 DEF ChangePermission, Disturbed, syncVars
  <1>2. ASSUME NEW p \in Team, Register(p)
        PROVE  AdminsTyped'
    BY <1>0, <1>2 DEF Register, Disturbed, syncVars
  <1>3. ASSUME NEW n \in Syncs, AskRepo(n)
        PROVE  AdminsTyped'
    BY <1>0, <1>3 DEF AskRepo
  <1>4. ASSUME NEW n \in Syncs, ReadUsers(n)
        PROVE  AdminsTyped'
    <2>1. \A r \in rows'[n] : r.user \in members
      BY <1>0, <1>4 DEF ReadUsers
    <2>2. \A m \in Syncs : m # n => rows'[m] = rows[m]
      BY <1>0, <1>4 DEF ReadUsers
    <2> QED
      BY <1>0, <1>4, <2>1, <2>2 DEF ReadUsers, surenessVars
  <1>5. ASSUME NEW n \in Syncs, Grant(n)
        PROVE  AdminsTyped'
    <2>1. admins' \subseteq members
      <3>1. \A p : IsNew(n, p) => p \in members
        BY <1>0, <1>5 DEF IsNew
      <3> QED
        BY <1>0, <1>5, <3>1, AccessGranted
    <2> QED
      BY <1>0, <1>5, <2>1 DEF Grant
  <1>6. ASSUME NEW n \in Syncs, Revoke(n)
        PROVE  AdminsTyped'
    <2>1. settled' \subseteq Team
      BY <1>0, <1>6 DEF Revoke
    <2> QED
      BY <1>0, <1>6, <2>1 DEF Revoke, SyncEnds
  <1>7. ASSUME NEW n \in Syncs, SyncFails(n)
        PROVE  AdminsTyped'
    BY <1>0, <1>7 DEF SyncFails, SyncEnds
  <1>8. CASE UNCHANGED adminVars
    BY <1>0, <1>8 DEF adminVars, syncVars, surenessVars
  <1> QED
    BY <1>1, <1>2, <1>3, <1>4, <1>5, <1>6, <1>7, <1>8 DEF AdminsNext

\* Every step preserves the invariant.
LEMMA StepAdminsInd == AdminsInd /\ [AdminsNext]_adminVars => AdminsInd'
  <1> SUFFICES ASSUME AdminsInd, [AdminsNext]_adminVars PROVE AdminsInd'
    OBVIOUS
  <1>0. AdminsTyped'
    BY StepAdminsTyped
  <1> USE DEF AdminsTyped, AdminsTypeOK, AdminsSettle, AnswerHolds, NamedRows, SureHolds
  <1>1. ASSUME NEW p \in Team, ChangePermission(p)
        PROVE  AdminsInd'
    BY <1>0, <1>1 DEF AdminsInd, ChangePermission, Disturbed, syncVars, HasRow, IsNew
  <1>2. ASSUME NEW p \in Team, Register(p)
        PROVE  AdminsInd'
    BY <1>0, <1>2 DEF AdminsInd, Register, Disturbed, syncVars, HasRow, IsNew
  <1>3. ASSUME NEW n \in Syncs, AskRepo(n)
        PROVE  AdminsInd'
    BY <1>0, <1>3 DEF AdminsInd, AskRepo, HasRow, IsNew
  <1>4. ASSUME NEW n \in Syncs, ReadUsers(n)
        PROVE  AdminsInd'
    <2>1. \A u \in admins \cup (members \cap repoAdmins[n]) :
            \E r \in rows'[n] : r.user = u /\ (r.admin <=> u \in admins)
      <3> SUFFICES ASSUME NEW u \in admins \cup (members \cap repoAdmins[n])
                   PROVE  \E r \in rows'[n] : r.user = u /\ (r.admin <=> u \in admins)
        OBVIOUS
      <3>1. [user |-> u, admin |-> u \in admins] \in rows'[n]
        BY <1>4 DEF AdminsInd, ReadUsers
      <3> QED
        BY <3>1
    <2>2. \A r \in rows'[n] : ~r.admin => r.user \in repoAdmins[n]
      <3> DEFINE Row(u) == [user |-> u, admin |-> u \in admins]
      <3>1. rows'[n] = {Row(u) : u \in admins \cup (members \cap repoAdmins[n])}
        BY <1>4 DEF AdminsInd, ReadUsers
      <3>2. \A u : Row(u).user = u /\ (Row(u).admin <=> u \in admins)
        OBVIOUS
      <3> HIDE DEF Row
      <3> QED
        BY <3>1, <3>2
    <2>3. \A m \in Syncs : m # n => rows'[m] = rows[m] /\ spc'[m] = spc[m]
      BY <1>4 DEF AdminsInd, ReadUsers
    <2>4. spc'[n] = "read" /\ spc[n] = "asked"
      BY <1>4 DEF AdminsInd, ReadUsers
    <2>5. UNCHANGED <<permitted, members, admins, repoAdmins, known, sure, settled>>
      BY <1>4 DEF ReadUsers, surenessVars
    <2>6. \A m \in Syncs : NamedRows(m)'
      BY <2>2, <2>3, <2>5 DEF AdminsInd
    <2>7. \A m \in Syncs : \A p \in Team : AnswerHolds(m, p)'
      BY <2>3, <2>4, <2>5 DEF AdminsInd
    <2>8. ASSUME NEW p \in sure[n]
          PROVE  SureHolds(n, p)'
      <3>1. p \in Team /\ (p \in repoAdmins[n] <=> p \in permitted)
        BY DEF AdminsInd
      <3>2. p \in admins => HasRow(n, p)'
        BY <2>1 DEF HasRow
      <3>3. p \in permitted /\ p \in members => p \in admins \/ IsNew(n, p)'
        BY <2>1, <3>1 DEF IsNew
      <3> QED
        BY <2>4, <2>5, <3>2, <3>3
    <2>9. ASSUME NEW m \in Syncs, NEW p \in Team
          PROVE  SureHolds(m, p)'
      <3>1. CASE m = n
        BY <2>5, <2>8, <3>1
      <3>2. CASE m # n
        <4>1. (HasRow(m, p) => HasRow(m, p)') /\ (IsNew(m, p) => IsNew(m, p)')
          BY <2>3, <3>2 DEF HasRow, IsNew
        <4> QED
          BY <2>3, <2>5, <3>2, <4>1 DEF AdminsInd
      <3> QED
        BY <3>1, <3>2
    <2> QED
      BY <1>0, <2>5, <2>6, <2>7, <2>9 DEF AdminsInd
  <1>5. ASSUME NEW n \in Syncs, Grant(n)
        PROVE  AdminsInd'
    <2>1. /\ \A p : p \in admins' <=> p \in admins \/ IsNew(n, p)
          /\ \A p \in known[n] : p \in admins' /\ p \notin admins => p \in permitted
      BY <1>5, AccessGranted
    <2>2. UNCHANGED <<permitted, members, repoAdmins, rows, known>>
      BY <1>5 DEF Grant
    <2>3. admins' \subseteq members
      BY <1>0, <2>2
    <2>4. \A p \in known[n] : p \in admins' /\ p \notin admins => p \in permitted /\ p \in members
      BY <2>1, <2>3
    <2>5. \A p \in known[n] : p \in admins /\ p \notin admins' => p \notin permitted
      BY <2>1
    <2>6. /\ \A p \in settled \ Misjudged(n) : p \in admins' <=> p \in permitted /\ p \in members
          /\ \A m \in Syncs : \A p \in sure[m] \ Misjudged(n) :
               spc[m] \in {"read", "granted"} =>
                 /\ p \in admins' /\ p \notin permitted => HasRow(m, p)
                 /\ p \in permitted /\ p \in members =>
                      p \in admins' \/ (spc[m] = "read" /\ IsNew(m, p))
      BY <2>2, <2>4, <2>5, OthersStaySure
    <2>7. AdminsSettle'
      BY <1>5, <2>2, <2>6 DEF Grant
    <2>8. ASSUME NEW m \in Syncs, NEW p \in Team
          PROVE  SureHolds(m, p)'
      <3>1. (HasRow(m, p) => HasRow(m, p)') /\ (IsNew(m, p) => IsNew(m, p)')
        BY <2>2 DEF HasRow, IsNew
      <3>2. p \in sure'[m] => p \in sure[m] \ Misjudged(n)
        BY <1>5 DEF Grant
      <3>3. spc[n] = "read" /\ spc'[n] = "granted" /\ (m # n => spc'[m] = spc[m])
        BY <1>5 DEF AdminsInd, Grant
      <3>4. CASE m = n
        BY <2>1, <2>2, <2>6, <3>1, <3>2, <3>3, <3>4
      <3>5. CASE m # n
        BY <2>2, <2>6, <3>1, <3>2, <3>3, <3>5
      <3> QED
        BY <3>4, <3>5
    <2>9. \A m \in Syncs : NamedRows(m)' /\ \A p \in Team : AnswerHolds(m, p)'
      BY <1>5, <2>2 DEF AdminsInd, Grant
    <2> QED
      BY <1>0, <2>7, <2>8, <2>9 DEF AdminsInd
  <1>6. ASSUME NEW n \in Syncs, Revoke(n)
        PROVE  AdminsInd'
    <2>1. /\ \A p : p \in admins' <=> p \in admins /\ ~(HasRow(n, p) /\ p \notin repoAdmins[n])
          /\ \A p \in known[n] : p \in admins /\ p \notin admins' => p \notin permitted
      BY <1>6, AccessRevoked
    <2>2. UNCHANGED <<permitted, members>>
      BY <1>6 DEF Revoke
    <2>3. spc[n] = "granted" /\ spc'[n] = "idle" /\ rows'[n] = {} /\ known'[n] = {} /\ sure'[n] = {}
      BY <1>6 DEF AdminsInd, Revoke, SyncEnds
    <2>4. \A m \in Syncs : m # n =>
            /\ spc'[m] = spc[m] /\ rows'[m] = rows[m] /\ known'[m] = known[m]
            /\ repoAdmins'[m] = repoAdmins[m] /\ sure'[m] = sure[m] \ Misjudged(n)
      BY <1>6 DEF AdminsInd, Revoke, SyncEnds
    <2>5. \A p \in known[n] : p \in admins' /\ p \notin admins => p \in permitted /\ p \in members
      BY <2>1
    <2>6. /\ \A p \in settled \ Misjudged(n) : p \in admins' <=> p \in permitted /\ p \in members
          /\ \A m \in Syncs : \A p \in sure[m] \ Misjudged(n) :
               spc[m] \in {"read", "granted"} =>
                 /\ p \in admins' /\ p \notin permitted => HasRow(m, p)
                 /\ p \in permitted /\ p \in members =>
                      p \in admins' \/ (spc[m] = "read" /\ IsNew(m, p))
      BY <2>1, <2>2, <2>5, OthersStaySure
    <2>7. ASSUME NEW p \in sure[n]
          PROVE  p \in admins' <=> p \in permitted /\ p \in members
      <3>1. p \in Team /\ p \in known[n]
        BY DEF AdminsInd
      <3>2. (p \in repoAdmins[n] <=> p \in permitted) /\ SureHolds(n, p)
        BY <3>1 DEF AdminsInd
      <3>3. admins \subseteq members
        BY DEF AdminsInd
      <3> QED
        BY <2>1, <2>3, <3>2, <3>3
    <2>8. AdminsSettle'
      <3>1. \A p \in settled' : p \in settled \ Misjudged(n) \/ p \in sure[n]
        BY <1>6 DEF Revoke
      <3> QED
        BY <2>2, <2>6, <2>7, <3>1
    <2>9. ASSUME NEW m \in Syncs, NEW p \in Team
          PROVE  NamedRows(m)' /\ AnswerHolds(m, p)' /\ SureHolds(m, p)'
      <3>1. CASE m = n
        BY <2>3, <3>1
      <3>2. CASE m # n
        <4>1. (HasRow(m, p) => HasRow(m, p)') /\ (IsNew(m, p) => IsNew(m, p)')
          BY <2>4, <3>2 DEF HasRow, IsNew
        <4>2. SureHolds(m, p)'
          BY <2>2, <2>4, <2>6, <3>2, <4>1
        <4> QED
          BY <2>2, <2>4, <3>2, <4>2 DEF AdminsInd
      <3> QED
        BY <3>1, <3>2
    <2>10. \A m \in Syncs : NamedRows(m)'
      BY <2>3, <2>4 DEF AdminsInd
    <2> QED
      BY <1>0, <2>8, <2>9, <2>10 DEF AdminsInd
  <1>7. ASSUME NEW n \in Syncs, SyncFails(n)
        PROVE  AdminsInd'
    BY <1>0, <1>7 DEF AdminsInd, SyncFails, SyncEnds, HasRow, IsNew
  <1>8. CASE UNCHANGED adminVars
    BY <1>0, <1>8 DEF AdminsInd, adminVars, syncVars, surenessVars, HasRow, IsNew
  <1> QED
    BY <1>1, <1>2, <1>3, <1>4, <1>5, <1>6, <1>7, <1>8 DEF AdminsNext

\* SyncAdmins: for any team and any number of runs at a time, a run that ends well leaves each
\* person an administrator exactly if they have the permission and an account, except those
\* who changed since it asked and those of whom an older run has changed is_admin since.
THEOREM AdminsAreSynced == AdminsSpec => []AdminsInv
  <1>1. AdminsInit => AdminsInd
    BY DEF AdminsInit, AdminsInd, AdminsTyped, AdminsTypeOK, AdminsSettle, AnswerHolds,
           NamedRows, SureHolds
  <1>2. AdminsInd => AdminsInv
    BY DEF AdminsInd, AdminsTyped, AdminsInv
  <1> QED
    BY StepAdminsInd, <1>1, <1>2, PTL DEF AdminsSpec

-----------------------------------------------------------------------------
(* Owners, invitations and the requests that race for them.                *)

\* What an open transaction has written belongs to its operation.
WritesBelong ==
  \A h \in Handlers :
    /\ removed[h] # {} => pc[h] \in {"removing", "checked"}
    /\ added[h] # {} => pc[h] = "adding"
    /\ added[h] \cap seen[h] = {}

\* A removal that was checked leaves an individual owner when it commits, and of two
\* such removals at most one has removed anybody.
ChecksHold ==
  ~skewed =>
    \A h \in Handlers :
      pc[h] = "checked" =>
        /\ exists => Remaining(h) # {}
        /\ \A g \in Handlers \ {h} : pc[g] = "checked" => removed[g] = {} \/ removed[h] = {}

\* A request that answers has an invitation that was not answered before, and no
\* other request has the same.
AnswersAreBacked ==
  /\ \A h \in Handlers : pc[h] \in {"accepting", "declining"} => target[h] \in Users
  /\ ~doubled =>
       \A h \in Handlers :
         target[h] \in Users =>
           /\ answered[target[h]] + 1 <= invited[target[h]]
           /\ \A g \in Handlers : target[g] = target[h] => g = h

\* An add_owners under way has loaded all individual owners.
OwnersAreSeen ==
  ~crossed => \A h \in Handlers : pc[h] = "adding" => owners \cap Users \subseteq seen[h]

IndInv ==
  /\ TypeOK
  /\ WritesBelong
  /\ ChecksHold
  /\ IndividualOwnerLeft
  /\ AnswersAreBacked
  /\ InvitationUsedOnce
  /\ OwnersAreSeen
  /\ NoInvitationForOwners

-----------------------------------------------------------------------------
\* The initial states satisfy the invariant.
LEMMA InitIndInv == Init => IndInv
  <1> SUFFICES ASSUME Init PROVE IndInv
    OBVIOUS
  <1> USE OwnershipAssumption DEF Init
  <1>1. TypeOK
    BY DEF TypeOK, Steps
  <1>2. WritesBelong /\ ChecksHold /\ AnswersAreBacked /\ OwnersAreSeen
    BY DEF WritesBelong, ChecksHold, AnswersAreBacked, OwnersAreSeen
  <1>3. IndividualOwnerLeft /\ NoInvitationForOwners
    BY DEF IndividualOwnerLeft, NoInvitationForOwners
  <1>4. InvitationUsedOnce
    BY DEF InvitationUsedOnce
  <1> QED
    BY <1>1, <1>2, <1>3, <1>4 DEF IndInv

-----------------------------------------------------------------------------
\* Every step preserves types.
LEMMA TypeStep == TypeOK /\ AnswersAreBacked /\ [Next]_vars => TypeOK'
  <1> SUFFICES ASSUME TypeOK, AnswersAreBacked, [Next]_vars PROVE TypeOK'
    OBVIOUS
  <1> USE OwnershipAssumption DEF TypeOK, Steps, txn, history
  <1>1. ASSUME NEW h \in Handlers, ModifyNext(h) PROVE TypeOK'
    <2>1. ASSUME NEW u \in Users, NEW op \in {"adding", "removing"}, BeginModify(h, u, op)
          PROVE TypeOK'
      BY <2>1 DEF BeginModify
    <2>2. ASSUME NEW t \in Teams, AddTeamOwner(h, t) PROVE TypeOK'
      BY <2>2 DEF AddTeamOwner
    <2>3. ASSUME NEW u \in Users, InviteUserOwner(h, u) PROVE TypeOK'
      BY <2>3 DEF InviteUserOwner
    <2>4. ASSUME NEW x \in Users \cup Teams, OwnerRemove(h, x) PROVE TypeOK'
      BY <2>4 DEF OwnerRemove
    <2>5. CASE CheckRemaining(h)
      BY <2>5 DEF CheckRemaining
    <2>6. CASE CommitModify(h)
      BY <2>6 DEF CommitModify, EndModify
    <2>7. CASE RollbackModify(h)
      BY <2>7 DEF RollbackModify, EndModify
    <2> QED
      BY <1>1, <2>1, <2>2, <2>3, <2>4, <2>5, <2>6, <2>7 DEF ModifyNext
  <1>2. ASSUME NEW h \in Handlers, AnswerNext(h) PROVE TypeOK'
    <2>1. ASSUME NEW u \in Users, NEW op \in {"accepting", "declining"}, LoadInvite(h, u, op)
          PROVE TypeOK'
      BY <2>1 DEF LoadInvite
    <2>2. CASE Accept(h)
      <3>1. target[h] \in Users
        BY <2>2 DEF Accept, AnswersAreBacked
      <3> QED
        BY <2>2, <3>1 DEF Accept, DeleteInvite, EndAnswer
    <2>3. CASE Decline(h)
      <3>1. target[h] \in Users
        BY <2>3 DEF Decline, AnswersAreBacked
      <3> QED
        BY <2>3, <3>1 DEF Decline, DeleteInvite, EndAnswer
    <2>4. CASE Abandon(h)
      BY <2>4 DEF Abandon, EndAnswer
    <2> QED
      BY <1>2, <2>1, <2>2, <2>3, <2>4 DEF AnswerNext
  <1>3. ASSUME NEW u \in Users, Expire(u) PROVE TypeOK'
    BY <1>3 DEF Expire
  <1>4. CASE DeleteCrate
    BY <1>4 DEF DeleteCrate
  <1>5. CASE UNCHANGED vars
    BY <1>5 DEF vars
  <1> QED
    BY <1>1, <1>2, <1>3, <1>4, <1>5 DEF Next

-----------------------------------------------------------------------------
\* Every step preserves what is known of removals: the individual owner of the
\* crate, and the one each checked removal leaves.
LEMMA RemovalStep ==
  IndInv /\ [Next]_vars => WritesBelong' /\ ChecksHold' /\ IndividualOwnerLeft'
  <1> SUFFICES ASSUME IndInv, [Next]_vars
               PROVE WritesBelong' /\ ChecksHold' /\ IndividualOwnerLeft'
    OBVIOUS
  <1> DEFINE Goal == WritesBelong' /\ ChecksHold' /\ IndividualOwnerLeft'
  <1> USE OwnershipAssumption DEF IndInv, TypeOK, Steps, txn, history, WritesBelong,
          ChecksHold, IndividualOwnerLeft, Remaining
  <1>1. ASSUME NEW h \in Handlers, ModifyNext(h) PROVE Goal
    <2>1. ASSUME NEW u \in Users, NEW op \in {"adding", "removing"}, BeginModify(h, u, op)
          PROVE Goal
      BY <2>1 DEF BeginModify
    <2>2. ASSUME NEW t \in Teams, AddTeamOwner(h, t) PROVE Goal
      BY <2>2 DEF AddTeamOwner, MayAdd
    <2>3. ASSUME NEW u \in Users, InviteUserOwner(h, u) PROVE Goal
      BY <2>3 DEF InviteUserOwner, MayAdd
    <2>4. ASSUME NEW x \in Users \cup Teams, OwnerRemove(h, x) PROVE Goal
      BY <2>4 DEF OwnerRemove
    <2>5. CASE CheckRemaining(h)
      BY <2>5 DEF CheckRemaining
    <2>6. CASE CommitModify(h)
      <3>1. WritesBelong'
        BY <2>6 DEF CommitModify, EndModify
      <3>2. ASSUME ~skewed, exists PROVE owners' \cap Users # {}
        <4>1. CASE removed[h] = {}
          BY <2>6, <3>2, <4>1 DEF CommitModify
        <4>2. CASE removed[h] # {}
          BY <2>6, <3>2, <4>2 DEF CommitModify
        <4> QED
          BY <4>1, <4>2
      <3>3. ASSUME ~skewed, exists, NEW g \in Handlers \ {h}, pc[g] = "checked"
            PROVE  Remaining(g)' # {}
        <4>1. CASE removed[h] = {}
          BY <2>6, <3>3, <4>1 DEF CommitModify, EndModify
        <4>2. CASE removed[h] # {}
          <5>1. removed[g] = {}
            BY <2>6, <3>3, <4>2 DEF CommitModify
          <5> QED
            BY <2>6, <3>2, <3>3, <5>1 DEF CommitModify, EndModify
        <4> QED
          BY <4>1, <4>2
      <3> QED
        BY <2>6, <3>1, <3>2, <3>3 DEF CommitModify, EndModify
    <2>7. CASE RollbackModify(h)
      BY <2>7 DEF RollbackModify, EndModify
    <2> QED
      BY <1>1, <2>1, <2>2, <2>3, <2>4, <2>5, <2>6, <2>7 DEF ModifyNext
  <1>2. ASSUME NEW h \in Handlers, AnswerNext(h) PROVE Goal
    <2>1. ASSUME NEW u \in Users, NEW op \in {"accepting", "declining"}, LoadInvite(h, u, op)
          PROVE Goal
      BY <2>1 DEF LoadInvite
    <2>2. CASE Accept(h)
      BY <2>2 DEF Accept, EndAnswer
    <2>3. CASE Decline(h)
      BY <2>3 DEF Decline, EndAnswer
    <2>4. CASE Abandon(h)
      BY <2>4 DEF Abandon, EndAnswer
    <2> QED
      BY <1>2, <2>1, <2>2, <2>3, <2>4 DEF AnswerNext
  <1>3. ASSUME NEW u \in Users, Expire(u) PROVE Goal
    BY <1>3 DEF Expire
  <1>4. CASE DeleteCrate
    BY <1>4 DEF DeleteCrate
  <1>5. CASE UNCHANGED vars
    BY <1>5 DEF vars
  <1> QED
    BY <1>1, <1>2, <1>3, <1>4, <1>5 DEF Next

-----------------------------------------------------------------------------
\* Every step preserves what is known of invitations and the requests that answer
\* them.
LEMMA AnswerStep == IndInv /\ [Next]_vars => AnswersAreBacked' /\ InvitationUsedOnce'
  <1> SUFFICES ASSUME IndInv, [Next]_vars PROVE AnswersAreBacked' /\ InvitationUsedOnce'
    OBVIOUS
  <1> DEFINE Goal == AnswersAreBacked' /\ InvitationUsedOnce'
  <1> USE OwnershipAssumption DEF IndInv, TypeOK, Steps, txn, history, AnswersAreBacked,
          InvitationUsedOnce
  <1>1. ASSUME NEW h \in Handlers, ModifyNext(h) PROVE Goal
    <2>1. ASSUME NEW u \in Users, NEW op \in {"adding", "removing"}, BeginModify(h, u, op)
          PROVE Goal
      BY <2>1 DEF BeginModify
    <2>2. ASSUME NEW t \in Teams, AddTeamOwner(h, t) PROVE Goal
      BY <2>2 DEF AddTeamOwner
    <2>3. ASSUME NEW u \in Users, InviteUserOwner(h, u) PROVE Goal
      BY <2>3 DEF InviteUserOwner
    <2>4. ASSUME NEW x \in Users \cup Teams, OwnerRemove(h, x) PROVE Goal
      BY <2>4 DEF OwnerRemove
    <2>5. CASE CheckRemaining(h)
      BY <2>5 DEF CheckRemaining
    <2>6. CASE CommitModify(h)
      BY <2>6 DEF CommitModify, EndModify
    <2>7. CASE RollbackModify(h)
      BY <2>7 DEF RollbackModify, EndModify
    <2> QED
      BY <1>1, <2>1, <2>2, <2>3, <2>4, <2>5, <2>6, <2>7 DEF ModifyNext
  <1>2. ASSUME NEW h \in Handlers, AnswerNext(h) PROVE Goal
    <2>1. ASSUME NEW u \in Users, NEW op \in {"accepting", "declining"}, LoadInvite(h, u, op)
          PROVE Goal
      BY <2>1 DEF LoadInvite
    <2>2. CASE Accept(h)
      <3>1. target[h] \in Users
        BY <2>2 DEF Accept
      <3> QED
        BY <2>2, <3>1 DEF Accept, DeleteInvite, EndAnswer
    <2>3. CASE Decline(h)
      <3>1. target[h] \in Users
        BY <2>3 DEF Decline
      <3> QED
        BY <2>3, <3>1 DEF Decline, DeleteInvite, EndAnswer
    <2>4. CASE Abandon(h)
      BY <2>4 DEF Abandon, EndAnswer
    <2> QED
      BY <1>2, <2>1, <2>2, <2>3, <2>4 DEF AnswerNext
  <1>3. ASSUME NEW u \in Users, Expire(u) PROVE Goal
    BY <1>3 DEF Expire
  <1>4. CASE DeleteCrate
    BY <1>4 DEF DeleteCrate
  <1>5. CASE UNCHANGED vars
    BY <1>5 DEF vars
  <1> QED
    BY <1>1, <1>2, <1>3, <1>4, <1>5 DEF Next

-----------------------------------------------------------------------------
\* Every step preserves that owners are not invited.
LEMMA AddStep == IndInv /\ [Next]_vars => OwnersAreSeen' /\ NoInvitationForOwners'
  <1> SUFFICES ASSUME IndInv, [Next]_vars PROVE OwnersAreSeen' /\ NoInvitationForOwners'
    OBVIOUS
  <1> DEFINE Goal == OwnersAreSeen' /\ NoInvitationForOwners'
  <1> USE OwnershipAssumption DEF IndInv, TypeOK, Steps, txn, history, OwnersAreSeen,
          NoInvitationForOwners, WritesBelong
  <1>1. ASSUME NEW h \in Handlers, ModifyNext(h) PROVE Goal
    <2>1. ASSUME NEW u \in Users, NEW op \in {"adding", "removing"}, BeginModify(h, u, op)
          PROVE Goal
      BY <2>1 DEF BeginModify
    <2>2. ASSUME NEW t \in Teams, AddTeamOwner(h, t) PROVE Goal
      BY <2>2 DEF AddTeamOwner
    <2>3. ASSUME NEW u \in Users, InviteUserOwner(h, u) PROVE Goal
      BY <2>3 DEF InviteUserOwner
    <2>4. ASSUME NEW x \in Users \cup Teams, OwnerRemove(h, x) PROVE Goal
      BY <2>4 DEF OwnerRemove
    <2>5. CASE CheckRemaining(h)
      BY <2>5 DEF CheckRemaining
    <2>6. CASE CommitModify(h)
      BY <2>6 DEF CommitModify, EndModify
    <2>7. CASE RollbackModify(h)
      BY <2>7 DEF RollbackModify, EndModify
    <2> QED
      BY <1>1, <2>1, <2>2, <2>3, <2>4, <2>5, <2>6, <2>7 DEF ModifyNext
  <1>2. ASSUME NEW h \in Handlers, AnswerNext(h) PROVE Goal
    <2>1. ASSUME NEW u \in Users, NEW op \in {"accepting", "declining"}, LoadInvite(h, u, op)
          PROVE Goal
      BY <2>1 DEF LoadInvite
    <2>2. CASE Accept(h)
      <3>1. target[h] \in Users
        BY <2>2 DEF Accept, AnswersAreBacked
      <3> QED
        BY <2>2, <3>1 DEF Accept, DeleteInvite, EndAnswer
    <2>3. CASE Decline(h)
      <3>1. target[h] \in Users
        BY <2>3 DEF Decline, AnswersAreBacked
      <3> QED
        BY <2>3, <3>1 DEF Decline, DeleteInvite, EndAnswer
    <2>4. CASE Abandon(h)
      BY <2>4 DEF Abandon, EndAnswer
    <2> QED
      BY <1>2, <2>1, <2>2, <2>3, <2>4 DEF AnswerNext
  <1>3. ASSUME NEW u \in Users, Expire(u) PROVE Goal
    BY <1>3 DEF Expire
  <1>4. CASE DeleteCrate
    BY <1>4 DEF DeleteCrate
  <1>5. CASE UNCHANGED vars
    BY <1>5 DEF vars
  <1> QED
    BY <1>1, <1>2, <1>3, <1>4, <1>5 DEF Next

-----------------------------------------------------------------------------
\* The inductive invariant holds in every reachable state.
LEMMA Invariance == Spec => []IndInv
  <1>1. IndInv /\ [Next]_vars => IndInv'
    BY TypeStep, RemovalStep, AnswerStep, AddStep DEF IndInv
  <1> QED
    BY InitIndInv, <1>1, PTL DEF Spec

\* remove_owners: however many requests run at a time, a crate keeps an individual
\* owner as long as no removal is checked while another is open.
THEOREM IndividualOwnerStays == Spec => []IndividualOwnerLeft
  <1>1. IndInv => IndividualOwnerLeft
    BY DEF IndInv
  <1> QED
    BY Invariance, <1>1, PTL

\* accept and decline: no invitation is answered twice, as long as no two requests
\* have loaded the same one.
THEOREM InvitationsAreUsedOnce == Spec => []InvitationUsedOnce
  <1>1. IndInv => InvitationUsedOnce
    BY DEF IndInv
  <1> QED
    BY Invariance, <1>1, PTL

\* add_owners and accept: no owner has an invitation left, as long as none is accepted
\* while an add_owners is under way.
THEOREM OwnersAreNotInvited == Spec => []NoInvitationForOwners
  <1>1. IndInv => NoInvitationForOwners
    BY DEF IndInv
  <1> QED
    BY Invariance, <1>1, PTL

\* Owners and invitations, for any users, teams and number of requests: an individual owner
\* is left unless removals overlap, an invitation is answered once unless two requests had
\* loaded it, and owners have none unless one was accepted during an add_owners.
THEOREM OwnershipIsSound == Spec => []OwnershipInv
  <1>1. IndInv => OwnershipInv
    BY DEF IndInv, OwnershipInv
  <1> QED
    BY Invariance, <1>1, PTL

-----------------------------------------------------------------------------
(* Trusted publishing.                                                     *)

Owners == {o.owner : o \in Offers} \cup {Claims[j].owner : j \in Jwts} \cup {NoOwner}

ConfigRows == [id : Nat, crate : Crates, repo : {o.repo : o \in Offers},
               workflow : {o.workflow : o \in Offers}, environment : {o.environment : o \in Offers},
               owner : Owners]

\* The types the arguments need.
TrustpubTypes ==
  /\ provider \in Providers
  /\ now \in 0 .. MaxNow
  /\ provided \in [Keys[provider] -> Int]
  /\ cache \in [keys : SUBSET Keys[provider], updated : Int]
  /\ alive \subseteq Crates
  /\ configs \subseteq ConfigRows
  /\ issued \in [Jwts -> Nat]
  /\ gone \in [Crates -> Int]
  /\ xpc \in [Exchanges -> {"idle", "loading", "decoded", "txn"}]
  /\ jwt \in [Exchanges -> Jwts \cup {None}]
  /\ begun \in [Exchanges -> Nat]
  /\ jwks \in [Exchanges -> SUBSET Keys[provider]]
  /\ loaded \in [Exchanges -> SUBSET ConfigRows]
  /\ counted \in [Creators -> SUBSET Offers]
  /\ nextConfig \in Nat
  /\ \A t \in tokens : t.jwt \in Jwts /\ t.crates # {} /\ t.crates \subseteq Crates /\ t.expires \in Int

\* An exchange has a JWT, and one in a transaction has loaded configurations.
ExchangesAgree ==
  /\ \A x \in Exchanges : xpc[x] = "idle" <=> jwt[x] = None
  /\ \A x \in Exchanges : loaded[x] # {} <=> xpc[x] = "txn"

\* Configurations belong to crates that exist, and their ids have been given out.
ConfigsAgree == \A c \in configs : c.crate \in alive /\ c.id < nextConfig

\* Requests did not begin in the future, and do not take longer than they may.
RequestsInTime ==
  \A x \in Exchanges : begun[x] <= now /\ (xpc[x] # "idle" => now <= begun[x] + RequestTime)

TrustpubTyped == TrustpubTypes /\ ExchangesAgree /\ ConfigsAgree /\ RequestsInTime

\* A configuration with another owner.
LEMMA WithOwner ==
  ASSUME NEW c \in ConfigRows, NEW o \in Owners
  PROVE  [c EXCEPT !.owner = o] = [id |-> c.id, crate |-> c.crate, repo |-> c.repo,
                                   workflow |-> c.workflow, environment |-> c.environment, owner |-> o]
  BY DEF ConfigRows

\* Storing namespace ids keeps everything else of the configurations.
LEMMA StoredRows ==
  ASSUME TrustpubTypes, NEW x \in Exchanges, jwt[x] \in Jwts
  PROVE  /\ Stored(x) \subseteq ConfigRows
         /\ \A d \in Stored(x) : \E c \in configs :
              /\ d.id = c.id /\ d.crate = c.crate /\ d.repo = c.repo
              /\ \/ d = c
                 \/ /\ provider = "gitlab" /\ d.owner = Claims[jwt[x]].owner
                    /\ \E l \in loaded[x] : l.id = c.id
         /\ \A c \in configs : \E d \in Stored(x) : d.id = c.id /\ d.crate = c.crate
  <1> DEFINE new == Claims[jwt[x]].owner
             bound(c) == /\ provider = "gitlab" /\ c.owner = NoOwner
                         /\ \E l \in loaded[x] : l.id = c.id /\ l.owner = NoOwner
             row(c) == IF bound(c) THEN [c EXCEPT !.owner = new] ELSE c
  <1>1. new \in Owners
    BY DEF Owners
  <1>2. Stored(x) = {row(c) : c \in configs}
    BY DEF Stored
  <1>3. ASSUME NEW c \in configs
        PROVE  /\ row(c) \in ConfigRows
               /\ row(c).id = c.id /\ row(c).crate = c.crate /\ row(c).repo = c.repo
               /\ row(c) = c \/ (bound(c) /\ row(c).owner = new)
    <2>1. c \in ConfigRows
      BY DEF TrustpubTypes
    <2>2. CASE bound(c)
      <3>1. row(c) = [id |-> c.id, crate |-> c.crate, repo |-> c.repo,
                      workflow |-> c.workflow, environment |-> c.environment, owner |-> new]
        BY <1>1, <2>1, <2>2, WithOwner
      <3> QED
        BY <1>1, <2>1, <2>2, <3>1 DEF ConfigRows
    <2>3. CASE ~bound(c)
      BY <2>1, <2>3
    <2> QED
      BY <2>2, <2>3
  <1> HIDE DEF row
  <1> QED
    BY <1>2, <1>3

\* What the answer to an exchange does.
LEMMA AnsweredExchange ==
  ASSUME TrustpubTyped, NEW x \in Exchanges, Answered(x)
  PROVE  /\ xpc' \in [Exchanges -> {"idle", "loading", "decoded", "txn"}]
         /\ jwt' \in [Exchanges -> Jwts \cup {None}]
         /\ begun' \in [Exchanges -> Nat] /\ jwks' \in [Exchanges -> SUBSET Keys[provider]]
         /\ loaded' \in [Exchanges -> SUBSET ConfigRows]
         /\ xpc'[x] = "idle" /\ jwt'[x] = None /\ loaded'[x] = {}
         /\ \A y \in Exchanges \ {x} : /\ xpc'[y] = xpc[y] /\ jwt'[y] = jwt[y] /\ begun'[y] = begun[y]
                                       /\ jwks'[y] = jwks[y] /\ loaded'[y] = loaded[y]
         /\ ExchangesAgree'
         /\ now' = now => RequestsInTime'
  <1>1. /\ xpc' \in [Exchanges -> {"idle", "loading", "decoded", "txn"}]
        /\ xpc'[x] = "idle" /\ \A y \in Exchanges \ {x} : xpc'[y] = xpc[y]
    BY DEF Answered, TrustpubTyped, TrustpubTypes
  <1>2. /\ jwt' \in [Exchanges -> Jwts \cup {None}]
        /\ jwt'[x] = None /\ \A y \in Exchanges \ {x} : jwt'[y] = jwt[y]
    BY DEF Answered, TrustpubTyped, TrustpubTypes
  <1>3. /\ loaded' \in [Exchanges -> SUBSET ConfigRows]
        /\ loaded'[x] = {} /\ \A y \in Exchanges \ {x} : loaded'[y] = loaded[y]
    BY DEF Answered, TrustpubTyped, TrustpubTypes
  <1>4. /\ begun' \in [Exchanges -> Nat]
        /\ begun'[x] = 0 /\ \A y \in Exchanges \ {x} : begun'[y] = begun[y]
    BY DEF Answered, TrustpubTyped, TrustpubTypes
  <1>5. /\ jwks' \in [Exchanges -> SUBSET Keys[provider]]
        /\ \A y \in Exchanges \ {x} : jwks'[y] = jwks[y]
    BY DEF Answered, TrustpubTyped, TrustpubTypes
  <1>6. ExchangesAgree'
    BY <1>1, <1>2, <1>3 DEF TrustpubTyped, ExchangesAgree
  <1>7. now' = now => RequestsInTime'
    BY <1>1, <1>4 DEF TrustpubTyped, TrustpubTypes, RequestsInTime
  <1> QED
    BY <1>1, <1>2, <1>3, <1>4, <1>5, <1>6, <1>7

\* What the beginning of a request does.
LEMMA BegunRequest ==
  ASSUME TrustpubTyped, NEW x \in Exchanges, NEW j \in Jwts, NEW step \in {"loading", "decoded"},
         Begun(x, j, step), UNCHANGED <<now, loaded>>
  PROVE  /\ xpc' \in [Exchanges -> {"idle", "loading", "decoded", "txn"}]
         /\ jwt' \in [Exchanges -> Jwts \cup {None}] /\ begun' \in [Exchanges -> Nat]
         /\ xpc[x] = "idle" /\ xpc'[x] = step /\ begun'[x] = now /\ loaded[x] = {}
         /\ \A y \in Exchanges \ {x} : xpc'[y] = xpc[y] /\ jwt'[y] = jwt[y] /\ begun'[y] = begun[y]
         /\ ExchangesAgree' /\ RequestsInTime'
  <1>1. /\ xpc \in [Exchanges -> {"idle", "loading", "decoded", "txn"}]
        /\ jwt \in [Exchanges -> Jwts \cup {None}] /\ begun \in [Exchanges -> Nat] /\ now \in Nat
    BY DEF TrustpubTyped, TrustpubTypes
  <1>2. xpc[x] = "idle" /\ loaded[x] = {}
    BY DEF Begun, TrustpubTyped, ExchangesAgree
  <1>3. /\ xpc' = [xpc EXCEPT ![x] = step] /\ jwt' = [jwt EXCEPT ![x] = j]
        /\ begun' = [begun EXCEPT ![x] = now]
    BY DEF Begun
  <1>4. /\ xpc' \in [Exchanges -> {"idle", "loading", "decoded", "txn"}]
        /\ jwt' \in [Exchanges -> Jwts \cup {None}] /\ begun' \in [Exchanges -> Nat]
        /\ xpc'[x] = step /\ jwt'[x] = j /\ begun'[x] = now
        /\ \A y \in Exchanges \ {x} : xpc'[y] = xpc[y] /\ jwt'[y] = jwt[y] /\ begun'[y] = begun[y]
    BY <1>1, <1>3
  <1>5. j # None /\ RequestTime \in Nat
    BY TrustedPublishingAssumption
  <1>6. ExchangesAgree'
    BY <1>2, <1>4, <1>5 DEF TrustpubTyped, ExchangesAgree
  <1>7. RequestsInTime'
    BY <1>1, <1>4, <1>5 DEF TrustpubTyped, RequestsInTime
  <1> QED
    BY <1>2, <1>4, <1>6, <1>7

\* The steps of an exchange up to the decoded JWT.
KeyStep(x) ==
  \/ \E j \in Jwts : KeyCached(x, j) \/ FetchKeys(x, j)
  \/ UpdateKeys(x) \/ UpdateKeysFails(x)

\* They concern one exchange, which has loaded no configurations, and the cache.
LEMMA KeySteps ==
  ASSUME TrustpubTyped, NEW x \in Exchanges, KeyStep(x)
  PROVE  /\ TrustpubTyped' /\ xpc'[x] # "txn" /\ UNCHANGED loaded
         /\ \A y \in Exchanges \ {x} : /\ xpc'[y] = xpc[y] /\ jwt'[y] = jwt[y] /\ begun'[y] = begun[y]
                                       /\ jwks'[y] = jwks[y]
         /\ loaded[x] = {}
         /\ UNCHANGED <<provider, now, tables, exchangeHistory, provided, counted, nextConfig>>
  <1>1. Published \subseteq Keys[provider]
    BY DEF Published, TrustpubTyped, TrustpubTypes
  <1>2. ASSUME NEW j \in Jwts, KeyCached(x, j)
        PROVE  /\ TrustpubTyped' /\ xpc'[x] # "txn" /\ UNCHANGED <<loaded, jwks>> /\ loaded[x] = {}
               /\ \A y \in Exchanges \ {x} : xpc'[y] = xpc[y] /\ jwt'[y] = jwt[y] /\ begun'[y] = begun[y]
               /\ UNCHANGED <<provider, now, tables, exchangeHistory, provided, counted, nextConfig>>
    <2>1. /\ Begun(x, j, "decoded")
          /\ UNCHANGED <<now, tables, exchangeHistory, keyStore, jwks, loaded, counted, nextConfig>>
      BY <1>2 DEF KeyCached
    <2> QED
      BY <2>1, BegunRequest
         DEF TrustpubTyped, TrustpubTypes, ConfigsAgree, tables, exchangeHistory, keyStore
  <1>3. ASSUME NEW j \in Jwts, FetchKeys(x, j)
        PROVE  /\ TrustpubTyped' /\ xpc'[x] # "txn" /\ UNCHANGED loaded /\ loaded[x] = {}
               /\ \A y \in Exchanges \ {x} : /\ xpc'[y] = xpc[y] /\ jwt'[y] = jwt[y]
                                             /\ begun'[y] = begun[y] /\ jwks'[y] = jwks[y]
               /\ UNCHANGED <<provider, now, tables, exchangeHistory, provided, counted, nextConfig>>
    <2>1. /\ Begun(x, j, "loading") /\ jwks' = [jwks EXCEPT ![x] = Published]
          /\ UNCHANGED <<now, tables, exchangeHistory, keyStore, loaded, counted, nextConfig>>
      BY <1>3 DEF FetchKeys
    <2>2. /\ jwks' \in [Exchanges -> SUBSET Keys[provider]]
          /\ \A y \in Exchanges \ {x} : jwks'[y] = jwks[y]
      BY <1>1, <2>1 DEF TrustpubTyped, TrustpubTypes
    <2> QED
      BY <2>1, <2>2, BegunRequest
         DEF TrustpubTyped, TrustpubTypes, ConfigsAgree, tables, exchangeHistory, keyStore
  <1>4. xpc[x] = "loading" => jwt[x] \in Jwts /\ loaded[x] = {} /\ jwks[x] \subseteq Keys[provider]
    BY DEF TrustpubTyped, TrustpubTypes, ExchangesAgree
  <1>5. ASSUME xpc[x] = "loading", Answered(x),
               cache' \in [keys : SUBSET Keys[provider], updated : Int],
               UNCHANGED <<provider, now, tables, exchangeHistory, provided, counted, nextConfig>>
        PROVE  /\ TrustpubTyped' /\ xpc'[x] # "txn" /\ UNCHANGED loaded
               /\ \A y \in Exchanges \ {x} : /\ xpc'[y] = xpc[y] /\ jwt'[y] = jwt[y]
                                             /\ begun'[y] = begun[y] /\ jwks'[y] = jwks[y]
    <2>1. loaded' = loaded
      BY <1>4, <1>5 DEF Answered, TrustpubTyped, TrustpubTypes
    <2> QED
      BY <1>5, <2>1, AnsweredExchange
         DEF TrustpubTyped, TrustpubTypes, ConfigsAgree, tables, exchangeHistory
  <1>6. ASSUME UpdateKeysFails(x)
        PROVE  /\ TrustpubTyped' /\ xpc'[x] # "txn" /\ UNCHANGED loaded /\ loaded[x] = {}
               /\ \A y \in Exchanges \ {x} : /\ xpc'[y] = xpc[y] /\ jwt'[y] = jwt[y]
                                             /\ begun'[y] = begun[y] /\ jwks'[y] = jwks[y]
               /\ UNCHANGED <<provider, now, tables, exchangeHistory, provided, counted, nextConfig>>
    <2>1. PICK some \in SUBSET jwks[x] : cache' = [cache EXCEPT !.keys = some]
      BY <1>6 DEF UpdateKeysFails
    <2>2. xpc[x] = "loading"
      BY <1>6 DEF UpdateKeysFails
    <2>3. some \in SUBSET Keys[provider]
      BY <1>4, <2>2
    <2>4. cache' \in [keys : SUBSET Keys[provider], updated : Int]
      BY <2>1, <2>3 DEF TrustpubTyped, TrustpubTypes
    <2> QED
      BY <1>4, <1>5, <1>6, <2>4 DEF UpdateKeysFails
  <1>7. ASSUME UpdateKeys(x)
        PROVE  /\ TrustpubTyped' /\ xpc'[x] # "txn" /\ UNCHANGED loaded /\ loaded[x] = {}
               /\ \A y \in Exchanges \ {x} : /\ xpc'[y] = xpc[y] /\ jwt'[y] = jwt[y]
                                             /\ begun'[y] = begun[y] /\ jwks'[y] = jwks[y]
               /\ UNCHANGED <<provider, now, tables, exchangeHistory, provided, counted, nextConfig>>
    <2>1. /\ xpc[x] = "loading" /\ cache' = [keys |-> jwks[x], updated |-> now]
          /\ UNCHANGED <<provider, now, tables, exchangeHistory, provided, counted, nextConfig>>
      BY <1>7 DEF UpdateKeys
    <2>2. cache' \in [keys : SUBSET Keys[provider], updated : Int]
      BY <1>4, <2>1 DEF TrustpubTyped, TrustpubTypes
    <2>3. CASE Answered(x)
      BY <1>4, <1>5, <2>1, <2>2, <2>3
    <2>4. CASE /\ xpc' = [xpc EXCEPT ![x] = "decoded"]
               /\ jwks' = [jwks EXCEPT ![x] = {}]
               /\ UNCHANGED <<jwt, begun, loaded>>
      <3>1. /\ xpc' \in [Exchanges -> {"idle", "loading", "decoded", "txn"}] /\ xpc'[x] = "decoded"
            /\ \A y \in Exchanges \ {x} : xpc'[y] = xpc[y]
        BY <2>4 DEF TrustpubTyped, TrustpubTypes
      <3>2. /\ jwks' \in [Exchanges -> SUBSET Keys[provider]]
            /\ \A y \in Exchanges \ {x} : jwks'[y] = jwks[y]
        BY <2>4 DEF TrustpubTyped, TrustpubTypes
      <3>3. ExchangesAgree' /\ RequestsInTime'
        BY <2>1, <2>4, <3>1 DEF TrustpubTyped, ExchangesAgree, RequestsInTime
      <3> QED
        BY <1>4, <2>1, <2>2, <2>4, <3>1, <3>2, <3>3
           DEF TrustpubTyped, TrustpubTypes, ConfigsAgree, tables, exchangeHistory
    <2> QED
      BY <1>7, <2>3, <2>4 DEF UpdateKeys
  <1> QED
    BY <1>2, <1>3, <1>6, <1>7 DEF KeyStep

\* A transaction begins with the configurations of the repository of its JWT.
LEMMA BegunExchange ==
  ASSUME TrustpubTyped, NEW x \in Exchanges, BeginExchange(x)
  PROVE  /\ xpc' \in [Exchanges -> {"idle", "loading", "decoded", "txn"}]
         /\ loaded' \in [Exchanges -> SUBSET ConfigRows]
         /\ jwt[x] \in Jwts /\ OfRepository(jwt[x]) \subseteq configs /\ loaded'[x] = OfRepository(jwt[x])
         /\ xpc'[x] = "txn"
         /\ \A y \in Exchanges \ {x} : xpc'[y] = xpc[y] /\ loaded'[y] = loaded[y]
         /\ ExchangesAgree' /\ RequestsInTime'
  <1>1. OfRepository(jwt[x]) \subseteq configs /\ configs \subseteq ConfigRows
    BY DEF OfRepository, TrustpubTyped, TrustpubTypes
  <1>2. /\ xpc[x] = "decoded" /\ OfRepository(jwt[x]) # {}
        /\ xpc' = [xpc EXCEPT ![x] = "txn"]
        /\ loaded' = [loaded EXCEPT ![x] = OfRepository(jwt[x])] /\ UNCHANGED <<now, jwt, begun>>
    BY DEF BeginExchange
  <1>3. /\ xpc' \in [Exchanges -> {"idle", "loading", "decoded", "txn"}] /\ xpc'[x] = "txn"
        /\ \A y \in Exchanges \ {x} : xpc'[y] = xpc[y]
    BY <1>2 DEF TrustpubTyped, TrustpubTypes
  <1>4. /\ loaded' \in [Exchanges -> SUBSET ConfigRows] /\ loaded'[x] = OfRepository(jwt[x])
        /\ \A y \in Exchanges \ {x} : loaded'[y] = loaded[y]
    BY <1>1, <1>2 DEF TrustpubTyped, TrustpubTypes
  <1>5. jwt[x] \in Jwts
    BY <1>2 DEF TrustpubTyped, TrustpubTypes, ExchangesAgree
  <1>6. RequestsInTime'
    BY <1>2, <1>3 DEF TrustpubTyped, RequestsInTime
  <1> QED
    BY <1>1, <1>2, <1>3, <1>4, <1>5, <1>6 DEF TrustpubTyped, ExchangesAgree

\* A configuration that is inserted has the next id and no owner id that was not given to it.
LEMMA InsertedConfig ==
  ASSUME TrustpubTyped, NEW r \in Creators, InsertConfig(r)
  PROVE  \E row \in ConfigRows :
           /\ configs' = configs \cup {row} /\ row.id = nextConfig /\ row.crate \in alive
           /\ nextConfig' = nextConfig + 1 /\ counted' \in [Creators -> SUBSET Offers]
           /\ provider = "gitlab" => row.owner = NoOwner
           /\ UNCHANGED <<now, alive, jtis, tokens, exchangeHistory, keyStore, exchanges>>
  <1>1. PICK o \in counted[r] :
          /\ o.crate \in alive
          /\ configs' = configs \cup {IF provider = "github" THEN NewGitHubConfig(nextConfig, o)
                                                             ELSE NewGitLabConfig(nextConfig, o)}
          /\ nextConfig' = nextConfig + 1
          /\ counted' = [counted EXCEPT ![r] = {}]
          /\ UNCHANGED <<now, alive, jtis, tokens, exchangeHistory, keyStore, exchanges>>
    BY DEF InsertConfig
  <1>2. o \in Offers /\ o.crate \in Crates /\ nextConfig \in Nat /\ counted' \in [Creators -> SUBSET Offers]
    BY <1>1, TrustedPublishingAssumption DEF TrustpubTyped, TrustpubTypes
  <1>3. ASSUME NEW owner \in Owners
        PROVE  LET row == Config(nextConfig, o, owner) IN
               row \in ConfigRows /\ row.id = nextConfig /\ row.crate = o.crate /\ row.owner = owner
    BY <1>2 DEF Config, ConfigRows
  <1>4. o.owner \in Owners /\ NoOwner \in Owners
    BY <1>2 DEF Owners
  <1>5. CASE provider = "github"
    <2> DEFINE row == Config(nextConfig, o, o.owner)
    <2>1. row \in ConfigRows /\ row.id = nextConfig /\ row.crate = o.crate
      BY <1>3, <1>4
    <2>2. configs' = configs \cup {row}
      BY <1>1, <1>5 DEF NewGitHubConfig
    <2> HIDE DEF row
    <2> QED
      BY <1>1, <1>2, <1>5, <2>1, <2>2
  <1>6. CASE provider # "github"
    <2> DEFINE row == Config(nextConfig, o, NoOwner)
    <2>1. row \in ConfigRows /\ row.id = nextConfig /\ row.crate = o.crate /\ row.owner = NoOwner
      BY <1>3, <1>4
    <2>2. configs' = configs \cup {row}
      BY <1>1, <1>6 DEF NewGitLabConfig
    <2> HIDE DEF row
    <2> QED
      BY <1>1, <1>2, <2>1, <2>2
  <1> QED
    BY <1>5, <1>6

-----------------------------------------------------------------------------
(* Types, and what exchanges and configurations have in common.            *)

LEMMA InitTrustpubTyped == TrustpubInit => TrustpubTyped
  BY TrustedPublishingAssumption
     DEF TrustpubInit, TrustpubTyped, TrustpubTypes, ExchangesAgree, ConfigsAgree, RequestsInTime, Never

\* A successful exchange inserts its token and stores namespace ids.
LEMMA FinishTyped ==
  ASSUME TrustpubTyped, NEW x \in Exchanges, FinishExchange(x)
  PROVE  TrustpubTyped'
  <1>1. /\ configs' = Stored(x) /\ Matching(x) # {} /\ xpc[x] = "txn" /\ Answered(x)
        /\ tokens' = tokens \cup {[jwt |-> jwt[x], nr |-> issued[jwt[x]] + 1,
                                   expires |-> now + TokenLife,
                                   crates |-> {c.crate : c \in Matching(x)}]}
        /\ issued' = [issued EXCEPT ![jwt[x]] = @ + 1]
        /\ UNCHANGED <<now, alive, gone, keyStore, counted, nextConfig>>
    BY DEF FinishExchange
  <1>2. jwt[x] \in Jwts
    BY <1>1 DEF TrustpubTyped, TrustpubTypes, ExchangesAgree
  <1>3. Matching(x) \subseteq loaded[x] /\ loaded[x] \subseteq ConfigRows
    BY DEF Matching, GitHubMatching, GitLabMatching, TrustpubTyped, TrustpubTypes
  <1>4. {c.crate : c \in Matching(x)} # {} /\ {c.crate : c \in Matching(x)} \subseteq Crates
    BY <1>1, <1>3 DEF ConfigRows
  <1>5. issued' \in [Jwts -> Nat]
    BY <1>1, <1>2 DEF TrustpubTyped, TrustpubTypes
  <1>6. \A t \in tokens' : t.jwt \in Jwts /\ t.crates # {} /\ t.crates \subseteq Crates /\ t.expires \in Int
    <2>1. now + TokenLife \in Int
      BY TrustedPublishingAssumption DEF TrustpubTyped, TrustpubTypes
    <2> DEFINE token == [jwt |-> jwt[x], nr |-> issued[jwt[x]] + 1, expires |-> now + TokenLife,
                         crates |-> {c.crate : c \in Matching(x)}]
    <2>2. /\ token.jwt \in Jwts /\ token.crates # {} /\ token.crates \subseteq Crates
          /\ token.expires \in Int
      BY <1>2, <1>4, <2>1
    <2>3. tokens' = tokens \cup {token}
      BY <1>1
    <2> HIDE DEF token
    <2> QED
      BY <2>2, <2>3 DEF TrustpubTyped, TrustpubTypes
  <1>7. configs' \subseteq ConfigRows /\ \A d \in configs' : \E c \in configs : d.id = c.id /\ d.crate = c.crate
    BY <1>1, <1>2, StoredRows DEF TrustpubTyped
  <1>8. ConfigsAgree'
    BY <1>1, <1>7 DEF TrustpubTyped, ConfigsAgree
  <1>9. TrustpubTypes'
    BY <1>1, <1>5, <1>6, <1>7, AnsweredExchange DEF TrustpubTyped, TrustpubTypes, keyStore
  <1> QED
    BY <1>1, <1>8, <1>9, AnsweredExchange DEF TrustpubTyped

LEMMA ExchangeTyped ==
  ASSUME TrustpubTyped, NEW x \in Exchanges, ExchangeNext(x)
  PROVE  TrustpubTyped'
  <1>1. CASE BeginExchange(x)
    <2>1. UNCHANGED <<now, tables, exchangeHistory, keyStore, jwt, begun, jwks, counted, nextConfig>>
      BY <1>1 DEF BeginExchange
    <2> QED
      BY <1>1, <2>1, BegunExchange
         DEF TrustpubTyped, TrustpubTypes, ConfigsAgree, tables, exchangeHistory, keyStore
  <1>2. CASE RefuseExchange(x)
    <2>1. Answered(x) /\ UNCHANGED <<now, tables, exchangeHistory, keyStore, counted, nextConfig>>
      BY <1>2 DEF RefuseExchange
    <2> QED
      BY <2>1, AnsweredExchange
         DEF TrustpubTyped, TrustpubTypes, ConfigsAgree, tables, exchangeHistory, keyStore
  <1> QED
    BY <1>1, <1>2, KeySteps, FinishTyped DEF ExchangeNext, KeyStep

\* The crates that lost their last configuration have it noted now, the others as before.
LEMMA CeasedNow ==
  ASSUME TrustpubTyped, NEW after, gone' = Ceased(after)
  PROVE  /\ gone' \in [Crates -> Int]
         /\ \A c \in Crates : gone'[c] = gone[c] \/ gone'[c] = now
         /\ \A c \in Crates : (\E r \in configs : r.crate = c) =>
              gone'[c] = now \/ \E r \in after : r.crate = c
  BY DEF Ceased, TrustpubTyped, TrustpubTypes

\* Configurations are deleted, one by one or with their crate.
Removed ==
  \E after \in SUBSET configs :
    /\ configs' = after
    /\ gone' = Ceased(after)
    /\ alive' \subseteq alive
    /\ \A c \in after : c.crate \in alive'
    /\ UNCHANGED <<now, jtis, tokens, issued, keyStore, exchanges, counted, nextConfig>>

LEMMA RemovedConfigs ==
  ASSUME TrustpubTyped,
         \/ \E r \in configs : DeleteGitHubConfig(r) \/ DeleteGitLabConfig(r)
         \/ \E c \in Crates : DeleteCrateRow(c)
  PROVE  Removed
  <1>1. ASSUME NEW r \in configs, RemoveConfig(r)
        PROVE  Removed
    <2>1. configs \ {r} \in SUBSET configs
      OBVIOUS
    <2> QED
      BY <1>1, <2>1 DEF RemoveConfig, Removed, TrustpubTyped, ConfigsAgree
  <1>2. ASSUME NEW c \in Crates, DeleteCrateRow(c)
        PROVE  Removed
    <2> DEFINE after == {r \in configs : r.crate # c}
    <2>1. after \in SUBSET configs
      OBVIOUS
    <2>2. /\ configs' = after /\ gone' = Ceased(after) /\ alive' = alive \ {c}
          /\ UNCHANGED <<now, jtis, tokens, issued, keyStore, exchanges, counted, nextConfig>>
      BY <1>2 DEF DeleteCrateRow
    <2>3. \A r \in after : r.crate \in alive'
      BY <2>2 DEF TrustpubTyped, ConfigsAgree
    <2> HIDE DEF after
    <2> QED
      BY <2>1, <2>2, <2>3 DEF Removed
  <1> QED
    BY <1>1, <1>2 DEF DeleteGitHubConfig, DeleteGitLabConfig

LEMMA ConfigTyped ==
  ASSUME TrustpubTyped, ConfigNext
  PROVE  TrustpubTyped'
  <1> USE DEF TrustpubTyped, TrustpubTypes, ExchangesAgree, ConfigsAgree, RequestsInTime,
              tables, exchangeHistory, keyStore, exchanges
  <1>1. ASSUME NEW r \in Creators, NEW o \in Offers, CheckConfig(r, o)
        PROVE  TrustpubTyped'
    BY <1>1 DEF CheckConfig
  <1>2. ASSUME NEW r \in Creators, InsertConfig(r)
        PROVE  TrustpubTyped'
    <2>1. PICK row \in ConfigRows :
            /\ configs' = configs \cup {row} /\ row.id = nextConfig /\ row.crate \in alive
            /\ nextConfig' = nextConfig + 1 /\ counted' \in [Creators -> SUBSET Offers]
            /\ UNCHANGED <<now, alive, jtis, tokens, exchangeHistory, keyStore, exchanges>>
      BY <1>2, InsertedConfig
    <2>2. configs' \subseteq ConfigRows
      BY <2>1
    <2>3. \A c \in configs' : c.crate \in alive' /\ c.id < nextConfig'
      <3>1. \A c \in configs : c.id \in Nat
        BY DEF ConfigRows
      <3> QED
        BY <2>1, <3>1
    <2> QED
      BY <2>1, <2>2, <2>3
  <1>3. ASSUME NEW r \in Creators, GiveUpConfig(r)
        PROVE  TrustpubTyped'
    BY <1>3 DEF GiveUpConfig
  <1>4. CASE Removed
    <2>1. PICK after \in SUBSET configs :
            /\ configs' = after /\ gone' = Ceased(after) /\ alive' \subseteq alive
            /\ \A c \in after : c.crate \in alive'
            /\ UNCHANGED <<now, jtis, tokens, issued, keyStore, exchanges, counted, nextConfig>>
      BY <1>4 DEF Removed
    <2>2. gone' \in [Crates -> Int]
      BY <2>1, CeasedNow
    <2> QED
      BY <2>1, <2>2
  <1> QED
    BY <1>1, <1>2, <1>3, <1>4, RemovedConfigs DEF ConfigNext

LEMMA StepTrustpubTyped == TrustpubTyped /\ [TrustpubNext]_trustpubVars => TrustpubTyped'
  <1> SUFFICES ASSUME TrustpubTyped, [TrustpubNext]_trustpubVars PROVE TrustpubTyped'
    OBVIOUS
  <1> USE DEF TrustpubTyped, TrustpubTypes, ExchangesAgree, ConfigsAgree, RequestsInTime,
              tables, exchangeHistory, keyStore, exchanges
  <1>1. ASSUME NEW k \in DOMAIN provided, RotateKeys(k)
        PROVE  TrustpubTyped'
    BY <1>1 DEF RotateKeys, Never
  <1>2. CASE TokenNext
    BY <1>2 DEF TokenNext, RevokeToken, AlertRevokeToken, DeleteExpiredJtis, DeleteExpiredTokens
  <1>3. CASE TickTrustpub
    BY <1>3, TrustedPublishingAssumption DEF TickTrustpub
  <1>4. CASE UNCHANGED trustpubVars
    BY <1>4 DEF trustpubVars
  <1> QED
    BY <1>1, <1>2, <1>3, <1>4, ExchangeTyped, ConfigTyped DEF TrustpubNext

-----------------------------------------------------------------------------
(* A JWT is exchanged once.                                                *)

Jti(j) == Claims[j].jti

JtiRow(j) == [jti |-> Claims[j].jti, expires |-> Claims[j].exp]

\* The row of a JWT that was exchanged is there until the JWT has expired; a transaction has
\* a jti that is not in the table, and that no other transaction has.
JtisUsed ==
  /\ \A j \in Jwts : issued[j] > 0 => now > Claims[j].exp \/ JtiRow(j) \in jtis
  /\ \A x \in Exchanges : xpc[x] = "txn" => \A r \in jtis : r.jti # Jti(jwt[x])
  /\ \A x, y \in Exchanges : x # y /\ xpc[x] = "txn" /\ xpc[y] = "txn" => Jti(jwt[x]) # Jti(jwt[y])

JtisInd == TrustpubTyped /\ JtisUsed

LEMMA JtiRows ==
  ASSUME NEW j \in Jwts
  PROVE  JtiRow(j).jti = Jti(j) /\ JtiRow(j).expires = Claims[j].exp /\ Claims[j].exp \in Nat
  BY TrustedPublishingAssumption DEF JtiRow, Jti

\* An exchange that finishes is the first of its JWT, unless that has expired.
LEMMA FinishIsFirst ==
  ASSUME JtisInd, NEW x \in Exchanges, FinishExchange(x), issued[jwt[x]] > 0
  PROVE  now > Claims[jwt[x]].exp
  <1>1. xpc[x] = "txn" /\ jwt[x] \in Jwts
    BY DEF FinishExchange, JtisInd, TrustpubTyped, TrustpubTypes, ExchangesAgree
  <1> QED
    BY <1>1, JtiRows DEF JtisInd, JtisUsed

LEMMA FinishKeepsJtis ==
  ASSUME JtisInd, NEW x \in Exchanges, FinishExchange(x)
  PROVE  JtisUsed'
  <1>1. /\ xpc[x] = "txn" /\ jwt[x] \in Jwts /\ Answered(x) /\ now' = now
        /\ jtis' = jtis \cup {JtiRow(jwt[x])}
        /\ issued' = [issued EXCEPT ![jwt[x]] = @ + 1]
    BY DEF FinishExchange, JtiRow, JtisInd, TrustpubTyped, TrustpubTypes, ExchangesAgree
  <1>2. /\ xpc'[x] = "idle"
        /\ \A y \in Exchanges \ {x} : xpc'[y] = xpc[y] /\ jwt'[y] = jwt[y]
    BY <1>1, AnsweredExchange DEF JtisInd
  <1>3. \A j \in Jwts : issued'[j] > 0 => j = jwt[x] \/ issued[j] > 0
    BY <1>1 DEF JtisInd, TrustpubTyped, TrustpubTypes
  <1>4. \A j \in Jwts : issued'[j] > 0 => now' > Claims[j].exp \/ JtiRow(j) \in jtis'
    BY <1>1, <1>3 DEF JtisInd, JtisUsed
  <1>5. ASSUME NEW y \in Exchanges, xpc'[y] = "txn", NEW r \in jtis'
        PROVE  r.jti # Jti(jwt'[y])
    <2>1. y # x /\ xpc[y] = "txn" /\ jwt'[y] = jwt[y]
      BY <1>2, <1>5
    <2> QED
      BY <1>1, <1>5, <2>1, JtiRows DEF JtisInd, JtisUsed
  <1>6. \A y, z \in Exchanges : y # z /\ xpc'[y] = "txn" /\ xpc'[z] = "txn" => Jti(jwt'[y]) # Jti(jwt'[z])
    BY <1>2 DEF JtisInd, JtisUsed
  <1> QED
    BY <1>4, <1>5, <1>6 DEF JtisUsed, JtiRow, Jti

LEMMA ExchangeKeepsJtis ==
  ASSUME JtisInd, NEW x \in Exchanges, ExchangeNext(x)
  PROVE  JtisUsed'
  <1>1. ASSUME UNCHANGED <<now, jtis, issued>>, xpc'[x] # "txn",
               \A y \in Exchanges \ {x} : xpc'[y] = xpc[y] /\ jwt'[y] = jwt[y]
        PROVE  JtisUsed'
    BY <1>1 DEF JtisInd, JtisUsed, JtiRow, Jti
  <1>2. CASE KeyStep(x)
    <2>1. UNCHANGED <<now, jtis, issued>>
      BY <1>2, KeySteps DEF JtisInd, tables, exchangeHistory
    <2> QED
      BY <1>1, <1>2, <2>1, KeySteps DEF JtisInd
  <1>3. CASE BeginExchange(x)
    <2>1. InsertJti(x) /\ UNCHANGED <<now, jtis, issued, jwt>>
      BY <1>3 DEF BeginExchange, tables, exchangeHistory
    <2>2. xpc'[x] = "txn" /\ \A y \in Exchanges \ {x} : xpc'[y] = xpc[y]
      BY <1>3, BegunExchange DEF JtisInd
    <2> QED
      BY <2>1, <2>2 DEF InsertJti, JtisInd, JtisUsed, JtiRow, Jti
  <1>4. CASE RefuseExchange(x)
    <2>1. Answered(x) /\ UNCHANGED <<now, jtis, issued>>
      BY <1>4 DEF RefuseExchange, tables, exchangeHistory
    <2> QED
      BY <1>1, <2>1, AnsweredExchange DEF JtisInd
  <1> QED
    BY <1>2, <1>3, <1>4, FinishKeepsJtis DEF ExchangeNext, KeyStep

LEMMA StepJtisInd == JtisInd /\ [TrustpubNext]_trustpubVars => JtisInd'
  <1> SUFFICES ASSUME JtisInd, [TrustpubNext]_trustpubVars PROVE JtisUsed'
    BY StepTrustpubTyped DEF JtisInd
  <1>1. ASSUME UNCHANGED <<now, jtis, issued, exchanges>>
        PROVE  JtisUsed'
    BY <1>1 DEF JtisInd, JtisUsed, JtiRow, Jti, exchanges
  <1>2. ASSUME NEW k \in DOMAIN provided, RotateKeys(k)
        PROVE  JtisUsed'
    BY <1>1, <1>2 DEF RotateKeys, tables, exchangeHistory
  <1>3. CASE ConfigNext
    <2>1. ASSUME NEW r \in Creators, InsertConfig(r)
          PROVE  JtisUsed'
      BY <1>1, <2>1 DEF InsertConfig, exchangeHistory
    <2>2. ASSUME NEW r \in Creators, (\E o \in Offers : CheckConfig(r, o)) \/ GiveUpConfig(r)
          PROVE  JtisUsed'
      BY <1>1, <2>2 DEF CheckConfig, GiveUpConfig, tables, exchangeHistory
    <2>3. CASE Removed
      BY <1>1, <2>3 DEF Removed
    <2> QED
      BY <1>3, <2>1, <2>2, <2>3, RemovedConfigs DEF ConfigNext, JtisInd
  <1>4. ASSUME NEW t \in tokens, RevokeToken(t) \/ AlertRevokeToken(t)
        PROVE  JtisUsed'
    BY <1>1, <1>4 DEF RevokeToken, AlertRevokeToken, exchangeHistory
  <1>5. CASE DeleteExpiredTokens
    BY <1>1, <1>5 DEF DeleteExpiredTokens, exchangeHistory
  <1>6. CASE DeleteExpiredJtis
    <2>1. jtis' = {r \in jtis : r.expires >= now} /\ UNCHANGED <<now, issued, exchanges>>
      BY <1>6 DEF DeleteExpiredJtis, exchangeHistory
    <2>2. ASSUME NEW j \in Jwts, JtiRow(j) \in jtis, JtiRow(j) \notin jtis'
          PROVE  now > Claims[j].exp
      BY <2>1, <2>2, JtiRows DEF JtisInd, TrustpubTyped, TrustpubTypes
    <2> QED
      BY <2>1, <2>2 DEF JtisInd, JtisUsed, JtiRow, Jti, exchanges
  <1>7. CASE TickTrustpub
    <2>1. now' = now + 1 /\ UNCHANGED <<jtis, issued, exchanges>>
      BY <1>7 DEF TickTrustpub, tables, exchangeHistory
    <2>2. \A j \in Jwts : now > Claims[j].exp => now' > Claims[j].exp
      BY <2>1, JtiRows DEF JtisInd, TrustpubTyped, TrustpubTypes
    <2> QED
      BY <2>1, <2>2 DEF JtisInd, JtisUsed, JtiRow, Jti, exchanges
  <1>8. CASE UNCHANGED trustpubVars
    BY <1>1, <1>8 DEF trustpubVars, tables, exchangeHistory
  <1> QED
    BY <1>2, <1>3, <1>4, <1>5, <1>6, <1>7, <1>8, ExchangeKeepsJtis DEF TrustpubNext, TokenNext

\* trustpub_used_jtis: for any JWTs, requests at a time, clean-ups and leeway, an exchange of a
\* JWT that was exchanged before can only be one after the JWT has expired.
THEOREM JwtsAreExchangedOnce == TrustpubSpec => ExchangedOnce
  <1>1. TrustpubInit => JtisInd
    BY InitTrustpubTyped DEF JtisInd, JtisUsed, TrustpubInit
  <1>2. JtisInd /\ [TrustpubNext]_trustpubVars
          => [\A j \in Jwts : issued[j] > 0 /\ issued'[j] # issued[j] => now > Claims[j].exp]_trustpubVars
    <2> SUFFICES ASSUME JtisInd, TrustpubNext, NEW j \in Jwts, issued[j] > 0, issued'[j] # issued[j]
                 PROVE  now > Claims[j].exp
      OBVIOUS
    <2>1. issued' # issued
      OBVIOUS
    <2>2. ASSUME NEW x \in Exchanges, ExchangeNext(x)
          PROVE  FinishExchange(x)
      BY <2>1, <2>2 DEF ExchangeNext, KeyCached, FetchKeys, UpdateKeys, UpdateKeysFails,
                        BeginExchange, RefuseExchange, exchangeHistory
    <2>3. ASSUME NEW x \in Exchanges, FinishExchange(x)
          PROVE  now > Claims[j].exp
      <3>1. jwt[x] \in Jwts
        BY <2>3 DEF FinishExchange, JtisInd, TrustpubTyped, TrustpubTypes, ExchangesAgree
      <3>2. issued' = [issued EXCEPT ![jwt[x]] = @ + 1]
        BY <2>3 DEF FinishExchange
      <3>3. j = jwt[x]
        BY <3>1, <3>2 DEF JtisInd, TrustpubTyped, TrustpubTypes
      <3> QED
        BY <2>3, <3>3, FinishIsFirst
    <2>4. ~ConfigNext
      <3>1. ConfigNext => issued' = issued
        BY RemovedConfigs DEF ConfigNext, CheckConfig, InsertConfig, GiveUpConfig, Removed,
                              exchangeHistory, JtisInd
      <3> QED
        BY <2>1, <3>1
    <2>5. ~TokenNext /\ ~TickTrustpub /\ ~(\E k \in DOMAIN provided : RotateKeys(k))
      BY <2>1 DEF TokenNext, RevokeToken, AlertRevokeToken, DeleteExpiredJtis, DeleteExpiredTokens,
                  TickTrustpub, RotateKeys, exchangeHistory
    <2> QED
      BY <2>2, <2>3, <2>4, <2>5 DEF TrustpubNext
  <1> QED
    BY StepJtisInd, <1>1, <1>2, PTL DEF TrustpubSpec, ExchangedOnce

-----------------------------------------------------------------------------
(* The key store.                                                          *)

\* The exchange with the write lock of the key store has an answer that lacks no key published
\* before its request began, and the store was not refreshed in the meantime.
LoadingHolds ==
  \A x \in Exchanges : xpc[x] = "loading" =>
    /\ ~RecentlyUpdated
    /\ {k \in Published : provided[k] < begun[x]} \subseteq jwks[x]
    /\ \A y \in Exchanges \ {x} : xpc[y] # "loading"

\* The store was not refreshed in the future.
KeyStoreInd == TrustpubTyped /\ cache.updated <= now /\ KeyStoreFresh /\ LoadingHolds

LEMMA StepKeyStoreInd == KeyStoreInd /\ [TrustpubNext]_trustpubVars => KeyStoreInd'
  <1> SUFFICES ASSUME KeyStoreInd, [TrustpubNext]_trustpubVars
               PROVE  (cache.updated <= now /\ KeyStoreFresh /\ LoadingHolds)'
    BY StepTrustpubTyped DEF KeyStoreInd
  <1> DEFINE Kept == (cache.updated <= now /\ KeyStoreFresh /\ LoadingHolds)'
  <1>1. /\ now \in Nat /\ cache \in [keys : SUBSET Keys[provider], updated : Int]
        /\ provided \in [Keys[provider] -> Int] /\ MinAge \in Nat \ {0} /\ cache.updated \in Int
        /\ RequestTime \in Nat /\ begun \in [Exchanges -> Nat]
    BY TrustedPublishingAssumption DEF KeyStoreInd, TrustpubTyped, TrustpubTypes
  <1>2. ASSUME UNCHANGED <<now, keyStore>>,
               \A x \in Exchanges : xpc'[x] = "loading" =>
                 xpc[x] = "loading" /\ begun'[x] = begun[x] /\ jwks'[x] = jwks[x]
        PROVE  Kept
    BY <1>2 DEF KeyStoreInd, KeyStoreFresh, LoadingHolds, RecentlyUpdated, Published, keyStore
  <1>3. ASSUME NEW x \in Exchanges, NEW j \in Jwts, FetchKeys(x, j)
        PROVE  Kept
    <2>1. /\ CacheUnlocked /\ ~RecentlyUpdated /\ Begun(x, j, "loading")
          /\ jwks' = [jwks EXCEPT ![x] = Published] /\ UNCHANGED <<now, keyStore, loaded>>
      BY <1>3 DEF FetchKeys
    <2>2. /\ \A y \in Exchanges \ {x} : xpc'[y] # "loading"
          /\ jwks'[x] = Published
      BY <2>1, BegunRequest DEF CacheUnlocked, KeyStoreInd, TrustpubTyped, TrustpubTypes
    <2>3. RecentlyUpdated' = RecentlyUpdated /\ Published' = Published
      BY <2>1 DEF RecentlyUpdated, Published, keyStore
    <2>4. LoadingHolds'
      BY <2>1, <2>2, <2>3 DEF LoadingHolds
    <2> QED
      BY <2>1, <2>3, <2>4 DEF KeyStoreInd, KeyStoreFresh, keyStore
  <1>4. ASSUME NEW x \in Exchanges, UpdateKeys(x)
        PROVE  Kept
    <2>1. /\ xpc[x] = "loading" /\ cache' = [keys |-> jwks[x], updated |-> now]
          /\ UNCHANGED <<now, provided>>
      BY <1>4 DEF UpdateKeys
    <2>2. cache'.keys = jwks[x] /\ cache'.updated = now /\ Published' = Published
      BY <2>1 DEF Published
    <2>3. now <= begun[x] + RequestTime
      BY <2>1 DEF KeyStoreInd, TrustpubTyped, RequestsInTime
    <2>4. \A k \in Published : provided[k] \in Int
      BY <1>1 DEF Published
    <2>5. \A k \in Published : provided[k] + RequestTime < now => k \in jwks[x]
      BY <1>1, <2>1, <2>3, <2>4 DEF KeyStoreInd, LoadingHolds
    <2>6. KeyStoreFresh'
      BY <2>1, <2>2, <2>5 DEF KeyStoreFresh
    <2>7. \A y \in Exchanges : xpc'[y] # "loading"
      <3>1. xpc'[x] # "loading"
        BY <1>4 DEF UpdateKeys, Answered, KeyStoreInd, TrustpubTyped, TrustpubTypes
      <3>2. \A y \in Exchanges \ {x} : xpc'[y] = xpc[y]
        BY <1>4, KeySteps DEF KeyStep, KeyStoreInd
      <3> QED
        BY <2>1, <3>1, <3>2 DEF KeyStoreInd, LoadingHolds
    <2> QED
      BY <1>1, <2>1, <2>2, <2>6, <2>7 DEF LoadingHolds
  <1>5. ASSUME NEW x \in Exchanges, UpdateKeysFails(x)
        PROVE  Kept
    <2>1. xpc[x] = "loading" /\ UNCHANGED <<now, provided>>
      BY <1>5 DEF UpdateKeysFails
    <2>2. PICK some \in SUBSET jwks[x] : cache' = [cache EXCEPT !.keys = some]
      BY <1>5 DEF UpdateKeysFails
    <2>3. cache'.updated = cache.updated
      BY <1>1, <2>2
    <2>4. ~RecentlyUpdated'
      BY <2>1, <2>3 DEF KeyStoreInd, LoadingHolds, RecentlyUpdated
    <2>5. \A y \in Exchanges : xpc'[y] # "loading"
      BY <1>5, <2>1, AnsweredExchange DEF UpdateKeysFails, KeyStoreInd, LoadingHolds
    <2> QED
      BY <2>1, <2>3, <2>4, <2>5 DEF KeyStoreInd, KeyStoreFresh, LoadingHolds
  <1>6. ASSUME NEW k \in DOMAIN provided, RotateKeys(k)
        PROVE  Kept
    <2>1. /\ UNCHANGED <<now, cache, xpc, begun, jwks>>
          /\ provided' = [provided EXCEPT ![k] = IF provided[k] = Never THEN now ELSE Never]
      BY <1>6 DEF RotateKeys, exchanges
    <2>2. \A l \in Keys[provider] \ {k} : provided'[l] = provided[l]
      BY <1>1, <2>1
    <2>3. provided'[k] = Never \/ provided'[k] = now
      BY <1>1, <2>1
    <2>4. DOMAIN provided' = Keys[provider] /\ DOMAIN provided = Keys[provider]
      BY <1>1, <2>1
    <2>5. \A l \in Published' : provided'[l] = now \/ (l \in Published /\ provided'[l] = provided[l])
      BY <1>1, <2>1, <2>2, <2>3, <2>4 DEF Published
    <2>6. KeyStoreFresh'
      BY <1>1, <2>1, <2>5 DEF KeyStoreInd, KeyStoreFresh, RecentlyUpdated
    <2>7. \A x \in Exchanges : begun[x] <= now
      BY DEF KeyStoreInd, TrustpubTyped, RequestsInTime
    <2>8. LoadingHolds'
      BY <1>1, <2>1, <2>5, <2>7 DEF KeyStoreInd, LoadingHolds, RecentlyUpdated
    <2> QED
      BY <2>1, <2>6, <2>8 DEF KeyStoreInd
  <1>7. CASE TickTrustpub
    <2>1. now' = now + 1 /\ UNCHANGED <<keyStore, exchanges>>
      BY <1>7 DEF TickTrustpub
    <2>2. RecentlyUpdated' => RecentlyUpdated
      BY <1>1, <2>1 DEF RecentlyUpdated, keyStore
    <2>3. cache'.updated <= now'
      BY <1>1, <2>1 DEF KeyStoreInd, keyStore
    <2> QED
      BY <2>1, <2>2, <2>3
         DEF KeyStoreInd, KeyStoreFresh, LoadingHolds, Published, keyStore, exchanges
  <1>8. ASSUME NEW x \in Exchanges, NEW j \in Jwts, KeyCached(x, j)
        PROVE  Kept
    <2>1. /\ Begun(x, j, "decoded") /\ UNCHANGED <<now, keyStore, jwks, loaded>>
      BY <1>8 DEF KeyCached
    <2> QED
      BY <1>2, <2>1, BegunRequest DEF KeyStoreInd
  <1>9. ASSUME NEW x \in Exchanges, BeginExchange(x)
        PROVE  Kept
    <2>1. UNCHANGED <<now, keyStore, begun, jwks>>
      BY <1>9 DEF BeginExchange
    <2> QED
      BY <1>2, <1>9, <2>1, BegunExchange DEF KeyStoreInd
  <1>10. ASSUME NEW x \in Exchanges, FinishExchange(x) \/ RefuseExchange(x)
         PROVE  Kept
    <2>1. Answered(x) /\ UNCHANGED <<now, keyStore>>
      BY <1>10 DEF FinishExchange, RefuseExchange
    <2> QED
      BY <1>2, <2>1, AnsweredExchange DEF KeyStoreInd
  <1>11. ASSUME NEW x \in Exchanges, ExchangeNext(x)
         PROVE  Kept
    BY <1>3, <1>4, <1>5, <1>8, <1>9, <1>10, <1>11 DEF ExchangeNext
  <1>12. CASE ConfigNext
    <2>1. UNCHANGED <<now, keyStore, exchanges>>
      BY <1>12, RemovedConfigs
         DEF ConfigNext, CheckConfig, InsertConfig, GiveUpConfig, Removed, KeyStoreInd
    <2> QED
      BY <1>2, <2>1 DEF exchanges
  <1>13. CASE TokenNext
    BY <1>2, <1>13
       DEF TokenNext, RevokeToken, AlertRevokeToken, DeleteExpiredJtis, DeleteExpiredTokens, exchanges
  <1>14. CASE UNCHANGED trustpubVars
    BY <1>2, <1>14 DEF trustpubVars, exchanges
  <1> QED
    BY <1>6, <1>7, <1>11, <1>12, <1>13, <1>14 DEF TrustpubNext

-----------------------------------------------------------------------------
(* Tokens and configurations.                                              *)

Configured(c) == \E r \in configs : r.crate = c

\* Tokens live for TokenLife.  Every crate of a token has a configuration, or it lost the last
\* one when the token had at most its full life and the time of a request ahead; and every
\* configuration that a transaction has loaded is of a crate with a configuration, or one that
\* lost its last one since the request began.
TokensBacked ==
  /\ \A t \in tokens : t.expires <= now + TokenLife
  /\ \A t \in tokens : \A c \in t.crates :
       Configured(c) \/ (gone[c] # Never /\ t.expires <= gone[c] + TokenLife + RequestTime)
  /\ \A x \in Exchanges : \A l \in loaded[x] : Configured(l.crate) \/ gone[l.crate] >= begun[x]

BackedInd == TrustpubTyped /\ TokensBacked

\* Configurations of the same crates are left, and neither time nor tokens have changed.
LEMMA SameCrates ==
  ASSUME BackedInd, \A c \in Crates : Configured(c) => Configured(c)',
         tokens' \subseteq tokens, UNCHANGED <<now, gone>>,
         \A x \in Exchanges : loaded'[x] = {} \/ (loaded'[x] = loaded[x] /\ begun'[x] = begun[x])
  PROVE  TokensBacked'
  <1>1. \A t \in tokens : t.crates \subseteq Crates
    BY DEF BackedInd, TrustpubTyped, TrustpubTypes
  <1>2. \A x \in Exchanges : \A l \in loaded[x] : l.crate \in Crates
    BY DEF BackedInd, TrustpubTyped, TrustpubTypes, ConfigRows
  <1> QED
    BY <1>1, <1>2 DEF BackedInd, TokensBacked

LEMMA StoredCrates ==
  ASSUME TrustpubTypes, NEW x \in Exchanges, jwt[x] \in Jwts, configs' = Stored(x)
  PROVE  \A c \in Crates : Configured(c) => Configured(c)'
  BY StoredRows DEF Configured

\* An exchange that finishes gives a token for the crates of configurations it has loaded.
LEMMA FinishBacked ==
  ASSUME BackedInd, NEW x \in Exchanges, FinishExchange(x)
  PROVE  TokensBacked'
  <1> DEFINE token == [jwt |-> jwt[x], nr |-> issued[jwt[x]] + 1, expires |-> now + TokenLife,
                       crates |-> {c.crate : c \in Matching(x)}]
  <1>1. /\ configs' = Stored(x) /\ xpc[x] = "txn" /\ Answered(x)
        /\ tokens' = tokens \cup {token} /\ UNCHANGED <<now, gone>>
    BY DEF FinishExchange
  <1>2. /\ jwt[x] \in Jwts /\ now \in Nat /\ TokenLife \in Nat /\ RequestTime \in Nat
        /\ begun[x] \in Nat /\ now <= begun[x] + RequestTime /\ gone \in [Crates -> Int]
    BY <1>1, TrustedPublishingAssumption
       DEF BackedInd, TrustpubTyped, TrustpubTypes, ExchangesAgree, RequestsInTime
  <1>3. \A c \in Crates : Configured(c) => Configured(c)'
    BY <1>1, <1>2, StoredCrates DEF BackedInd, TrustpubTyped
  <1>4. token.expires = now + TokenLife /\ \A c \in token.crates : \E l \in loaded[x] : l.crate = c
    BY DEF Matching, GitHubMatching, GitLabMatching
  <1> HIDE DEF token
  <1>5. /\ \A t \in tokens : t.crates \subseteq Crates
        /\ \A y \in Exchanges : \A l \in loaded[y] : l.crate \in Crates
    BY DEF BackedInd, TrustpubTyped, TrustpubTypes, ConfigRows
  <1>6. \A y \in Exchanges : loaded'[y] = {} \/ (loaded'[y] = loaded[y] /\ begun'[y] = begun[y])
    BY <1>1, AnsweredExchange DEF BackedInd
  <1>7. \A c \in token.crates : c \in Crates /\ (Configured(c)' \/ gone[c] >= begun[x])
    BY <1>3, <1>4, <1>5 DEF BackedInd, TokensBacked
  <1>8. /\ token.expires <= now + TokenLife
        /\ \A c \in token.crates :
             Configured(c)' \/ (gone'[c] # Never /\ token.expires <= gone'[c] + TokenLife + RequestTime)
    BY <1>1, <1>2, <1>4, <1>7 DEF Never
  <1>9. \A t \in tokens : /\ t.expires <= now + TokenLife
                          /\ \A c \in t.crates :
                               Configured(c)' \/ (gone'[c] # Never /\ t.expires <= gone'[c] + TokenLife + RequestTime)
    BY <1>1, <1>3, <1>5 DEF BackedInd, TokensBacked
  <1>10. \A y \in Exchanges : \A l \in loaded'[y] : Configured(l.crate)' \/ gone'[l.crate] >= begun'[y]
    BY <1>1, <1>3, <1>5, <1>6 DEF BackedInd, TokensBacked
  <1> QED
    BY <1>1, <1>8, <1>9, <1>10 DEF TokensBacked

\* Crates that lose their last configuration have it noted.
LEMMA RemovedBacked ==
  ASSUME BackedInd, Removed
  PROVE  TokensBacked'
  <1>1. /\ gone' = Ceased(configs') /\ UNCHANGED <<now, tokens, begun, loaded>>
    BY DEF Removed, exchanges
  <1>2. /\ \A c \in Crates : gone'[c] = gone[c] \/ gone'[c] = now
        /\ \A c \in Crates : Configured(c) => gone'[c] = now \/ Configured(c)'
    BY <1>1, CeasedNow DEF BackedInd, Configured
  <1>3. /\ \A t \in tokens : t.crates \subseteq Crates /\ t.expires \in Int
        /\ \A y \in Exchanges : \A l \in loaded[y] : l.crate \in Crates
    BY DEF BackedInd, TrustpubTyped, TrustpubTypes, ConfigRows
  <1>4. now \in Nat /\ now # Never /\ TokenLife \in Nat /\ RequestTime \in Nat
    BY TrustedPublishingAssumption DEF BackedInd, TrustpubTyped, TrustpubTypes, Never
  <1>5. ASSUME NEW t \in tokens, NEW c \in t.crates
        PROVE  Configured(c)' \/ (gone'[c] # Never /\ t.expires <= gone'[c] + TokenLife + RequestTime)
    <2>1. c \in Crates /\ t.expires \in Int /\ t.expires <= now + TokenLife
      BY <1>3 DEF BackedInd, TokensBacked
    <2>2. CASE gone'[c] = now
      BY <1>4, <2>1, <2>2
    <2>3. CASE gone'[c] # now
      <3>1. Configured(c) => Configured(c)'
        BY <1>2, <2>1, <2>3
      <3>2. gone'[c] = gone[c]
        BY <1>2, <2>1, <2>3
      <3> QED
        BY <3>1, <3>2 DEF BackedInd, TokensBacked
    <2> QED
      BY <2>2, <2>3
  <1>6. ASSUME NEW y \in Exchanges, NEW l \in loaded[y]
        PROVE  Configured(l.crate)' \/ gone'[l.crate] >= begun[y]
    <2>1. l.crate \in Crates /\ now >= begun[y]
      BY <1>3 DEF BackedInd, TrustpubTyped, RequestsInTime
    <2> QED
      BY <1>2, <2>1 DEF BackedInd, TokensBacked
  <1> QED
    BY <1>1, <1>5, <1>6 DEF BackedInd, TokensBacked

LEMMA StepBackedInd == BackedInd /\ [TrustpubNext]_trustpubVars => BackedInd'
  <1> SUFFICES ASSUME BackedInd, [TrustpubNext]_trustpubVars PROVE TokensBacked'
    BY StepTrustpubTyped DEF BackedInd
  <1>1. ASSUME UNCHANGED <<now, configs, gone, loaded>>, tokens' \subseteq tokens,
               \A x \in Exchanges : loaded[x] # {} => begun'[x] = begun[x]
        PROVE  TokensBacked'
    BY <1>1 DEF BackedInd, TokensBacked, Configured
  <1>2. ASSUME NEW x \in Exchanges, BeginExchange(x)
        PROVE  TokensBacked'
    <2>1. UNCHANGED <<now, configs, tokens, gone, begun>>
      BY <1>2 DEF BeginExchange, tables, exchangeHistory
    <2>2. /\ \A l \in loaded'[x] : Configured(l.crate)
          /\ \A y \in Exchanges \ {x} : loaded'[y] = loaded[y]
      BY <1>2, BegunExchange DEF BackedInd, Configured
    <2> QED
      BY <2>1, <2>2 DEF BackedInd, TokensBacked, Configured
  <1>3. ASSUME NEW x \in Exchanges, RefuseExchange(x)
        PROVE  TokensBacked'
    <2>1. Answered(x) /\ UNCHANGED <<now, configs, tokens, gone>>
      BY <1>3 DEF RefuseExchange, tables, exchangeHistory
    <2>2. \A y \in Exchanges : loaded'[y] = {} \/ (loaded'[y] = loaded[y] /\ begun'[y] = begun[y])
      BY <2>1, AnsweredExchange DEF BackedInd
    <2> QED
      BY <2>1, <2>2, SameCrates DEF Configured
  <1>4. ASSUME NEW x \in Exchanges, ExchangeNext(x)
        PROVE  TokensBacked'
    <2>1. CASE KeyStep(x)
      <3>1. UNCHANGED <<now, configs, gone, loaded, tokens>>
        BY <2>1, KeySteps DEF BackedInd, tables, exchangeHistory
      <3>2. \A y \in Exchanges : loaded[y] # {} => begun'[y] = begun[y]
        BY <2>1, KeySteps DEF BackedInd
      <3> QED
        BY <1>1, <3>1, <3>2
    <2> QED
      BY <1>2, <1>3, <1>4, <2>1, FinishBacked DEF ExchangeNext, KeyStep
  <1>5. ASSUME NEW r \in Creators, InsertConfig(r)
        PROVE  TokensBacked'
    <2>1. configs \subseteq configs' /\ UNCHANGED <<now, tokens, gone, begun, loaded>>
      BY <1>5 DEF InsertConfig, exchangeHistory, exchanges
    <2> QED
      BY <2>1, SameCrates DEF Configured
  <1>6. CASE ConfigNext
    BY <1>1, <1>5, <1>6, RemovedConfigs, RemovedBacked
       DEF ConfigNext, CheckConfig, GiveUpConfig, tables, exchangeHistory, exchanges, BackedInd
  <1>7. CASE TokenNext
    BY <1>1, <1>7 DEF TokenNext, RevokeToken, AlertRevokeToken, DeleteExpiredJtis, DeleteExpiredTokens,
                      exchangeHistory, exchanges
  <1>8. CASE TickTrustpub
    <2>1. now' = now + 1 /\ UNCHANGED <<configs, tokens, gone, begun, loaded>>
      BY <1>8 DEF TickTrustpub, tables, exchangeHistory, exchanges
    <2>2. \A t \in tokens : t.expires <= now' + TokenLife
      BY <2>1, TrustedPublishingAssumption DEF BackedInd, TokensBacked, TrustpubTyped, TrustpubTypes
    <2> QED
      BY <2>1, <2>2 DEF BackedInd, TokensBacked, Configured
  <1>9. CASE UNCHANGED trustpubVars
    BY <1>1, <1>9 DEF trustpubVars, tables, exchangeHistory, exchanges
  <1>10. ASSUME NEW k \in DOMAIN provided, RotateKeys(k)
         PROVE  TokensBacked'
    BY <1>1, <1>10 DEF RotateKeys, tables, exchangeHistory, exchanges
  <1> QED
    BY <1>4, <1>6, <1>7, <1>8, <1>9, <1>10 DEF TrustpubNext

LEMMA BackedFollow == BackedInd => TokensFollowConfigs
  <1> SUFFICES ASSUME BackedInd, NEW t \in tokens, NEW c \in t.crates, MayPublish(t, c), ~Configured(c)
               PROVE  gone[c] # Never /\ now - gone[c] < TokenLife + RequestTime
    BY DEF TokensFollowConfigs, Configured
  <1>1. gone[c] # Never /\ t.expires <= gone[c] + TokenLife + RequestTime /\ t.expires > now
    BY DEF BackedInd, TokensBacked, MayPublish
  <1>2. gone[c] \in Int /\ t.expires \in Int /\ now \in Int /\ TokenLife \in Int /\ RequestTime \in Int
    BY TrustedPublishingAssumption DEF BackedInd, TrustpubTyped, TrustpubTypes
  <1> QED
    BY <1>1, <1>2

-----------------------------------------------------------------------------
(* Namespace ids.                                                          *)

\* An id stands for one repository, also in what a transaction has loaded, which is all of the
\* repository of its JWT.
IdsAgree ==
  /\ \A c, d \in configs : c.id = d.id => c.repo = d.repo
  /\ \A x \in Exchanges : \A l \in loaded[x] :
       /\ l.id < nextConfig
       /\ Lower[l.repo] = Lower[Claims[jwt[x]].repo]
       /\ \A c \in configs : c.id = l.id => c.repo = l.repo

NamespaceInd == TrustpubTyped /\ IdsAgree /\ NamespaceFromExchange

\* What is left of the configurations, and of what was loaded.
LEMMA FewerConfigs ==
  ASSUME NamespaceInd, configs' \subseteq configs, UNCHANGED <<nextConfig, provider, issued>>,
         \A x \in Exchanges : \/ loaded'[x] = {}
                              \/ loaded'[x] = loaded[x] /\ jwt'[x] = jwt[x]
  PROVE  IdsAgree' /\ NamespaceFromExchange'
  <1>1. IdsAgree'
    BY DEF NamespaceInd, IdsAgree
  <1>2. NamespaceFromExchange'
    BY DEF NamespaceInd, NamespaceFromExchange
  <1> QED
    BY <1>1, <1>2

LEMMA FinishNamespace ==
  ASSUME NamespaceInd, NEW x \in Exchanges, FinishExchange(x)
  PROVE  IdsAgree' /\ NamespaceFromExchange'
  <1>1. /\ configs' = Stored(x) /\ xpc[x] = "txn" /\ Answered(x)
        /\ issued' = [issued EXCEPT ![jwt[x]] = @ + 1]
        /\ UNCHANGED <<provider, nextConfig>>
    BY DEF FinishExchange, keyStore
  <1>2. jwt[x] \in Jwts /\ issued \in [Jwts -> Nat]
    BY <1>1 DEF NamespaceInd, TrustpubTyped, TrustpubTypes, ExchangesAgree
  <1>3. \A d \in configs' : \E c \in configs :
          /\ d.id = c.id /\ d.crate = c.crate /\ d.repo = c.repo
          /\ \/ d = c
             \/ /\ provider = "gitlab" /\ d.owner = Claims[jwt[x]].owner
                /\ \E l \in loaded[x] : l.id = c.id
    BY <1>1, <1>2, StoredRows DEF NamespaceInd, TrustpubTyped
  <1>4. \A y \in Exchanges : loaded'[y] = {} \/ (loaded'[y] = loaded[y] /\ jwt'[y] = jwt[y])
    BY <1>1, AnsweredExchange DEF NamespaceInd
  <1>5. IdsAgree'
    <2>1. \A c, d \in configs' : c.id = d.id => c.repo = d.repo
      BY <1>3 DEF NamespaceInd, IdsAgree
    <2>2. ASSUME NEW y \in Exchanges, NEW l \in loaded'[y]
          PROVE  /\ l.id < nextConfig' /\ Lower[l.repo] = Lower[Claims[jwt'[y]].repo]
                 /\ \A c \in configs' : c.id = l.id => c.repo = l.repo
      <3>1. l \in loaded[y] /\ jwt'[y] = jwt[y]
        BY <1>4, <2>2
      <3> QED
        BY <1>1, <1>3, <3>1 DEF NamespaceInd, IdsAgree
    <2> QED
      BY <2>1, <2>2 DEF IdsAgree
  <1>6. issued'[jwt[x]] > 0 /\ \A j \in Jwts : issued[j] > 0 => issued'[j] > 0
    BY <1>1, <1>2
  <1>7. ASSUME NEW d \in configs', provider = "gitlab", d.owner # NoOwner
        PROVE  \E j \in Jwts : /\ issued'[j] > 0 /\ Claims[j].owner = d.owner
                               /\ Lower[Claims[j].repo] = Lower[d.repo]
    <2>1. PICK c \in configs : /\ d.repo = c.repo
                               /\ \/ d = c
                                  \/ /\ d.owner = Claims[jwt[x]].owner
                                     /\ \E l \in loaded[x] : l.id = c.id
      BY <1>3
    <2>2. CASE d = c
      BY <1>6, <1>7, <2>2 DEF NamespaceInd, NamespaceFromExchange
    <2>3. CASE d.owner = Claims[jwt[x]].owner /\ \E l \in loaded[x] : l.id = c.id
      <3>1. PICK l \in loaded[x] : l.id = c.id
        BY <2>3
      <3>2. Lower[l.repo] = Lower[Claims[jwt[x]].repo] /\ c.repo = l.repo
        BY <3>1 DEF NamespaceInd, IdsAgree
      <3> QED
        BY <1>2, <1>6, <2>1, <2>3, <3>2
    <2> QED
      BY <2>1, <2>2, <2>3
  <1> QED
    BY <1>1, <1>5, <1>7 DEF NamespaceFromExchange

LEMMA InsertNamespace ==
  ASSUME NamespaceInd, NEW r \in Creators, InsertConfig(r)
  PROVE  IdsAgree' /\ NamespaceFromExchange'
  <1>1. PICK row \in ConfigRows :
          /\ configs' = configs \cup {row} /\ row.id = nextConfig
          /\ nextConfig' = nextConfig + 1
          /\ provider = "gitlab" => row.owner = NoOwner
          /\ UNCHANGED <<exchangeHistory, keyStore, exchanges>>
    BY InsertedConfig DEF NamespaceInd
  <1>2. /\ nextConfig \in Nat /\ \A c \in configs : c.id \in Nat /\ c.id < nextConfig
        /\ \A x \in Exchanges : \A l \in loaded[x] : l.id \in Nat
    BY DEF NamespaceInd, TrustpubTyped, TrustpubTypes, ConfigsAgree, ConfigRows
  <1>3. IdsAgree'
    BY <1>1, <1>2 DEF NamespaceInd, IdsAgree, exchanges
  <1>4. NamespaceFromExchange'
    BY <1>1 DEF NamespaceInd, NamespaceFromExchange, exchangeHistory, keyStore
  <1> QED
    BY <1>3, <1>4

LEMMA StepNamespaceInd == NamespaceInd /\ [TrustpubNext]_trustpubVars => NamespaceInd'
  <1> SUFFICES ASSUME NamespaceInd, [TrustpubNext]_trustpubVars
               PROVE  IdsAgree' /\ NamespaceFromExchange'
    BY StepTrustpubTyped DEF NamespaceInd
  <1>1. ASSUME UNCHANGED <<provider, configs, issued, jwt, loaded, nextConfig>>
        PROVE  IdsAgree' /\ NamespaceFromExchange'
    BY <1>1, FewerConfigs
  <1>2. ASSUME NEW x \in Exchanges, KeyStep(x)
        PROVE  IdsAgree' /\ NamespaceFromExchange'
    <2>1. UNCHANGED <<provider, configs, issued, loaded, nextConfig>>
      BY <1>2, KeySteps DEF NamespaceInd, tables, exchangeHistory
    <2>2. \A y \in Exchanges : loaded'[y] = {} \/ (loaded'[y] = loaded[y] /\ jwt'[y] = jwt[y])
      BY <1>2, KeySteps DEF NamespaceInd
    <2> QED
      BY <2>1, <2>2, FewerConfigs
  <1>3. ASSUME NEW x \in Exchanges, BeginExchange(x)
        PROVE  IdsAgree' /\ NamespaceFromExchange'
    <2>1. UNCHANGED <<provider, configs, issued, jwt, nextConfig>>
      BY <1>3 DEF BeginExchange, tables, exchangeHistory, keyStore
    <2>2. /\ loaded'[x] = OfRepository(jwt[x]) /\ OfRepository(jwt[x]) \subseteq configs
          /\ \A y \in Exchanges \ {x} : loaded'[y] = loaded[y]
      BY <1>3, BegunExchange DEF NamespaceInd
    <2>3. IdsAgree'
      <3>1. \A l \in loaded'[x] : /\ l.id < nextConfig
                                  /\ Lower[l.repo] = Lower[Claims[jwt[x]].repo]
                                  /\ \A c \in configs : c.id = l.id => c.repo = l.repo
        BY <2>2 DEF NamespaceInd, IdsAgree, OfRepository, TrustpubTyped, ConfigsAgree
      <3> QED
        BY <2>1, <2>2, <3>1 DEF NamespaceInd, IdsAgree
    <2>4. NamespaceFromExchange'
      BY <2>1 DEF NamespaceInd, NamespaceFromExchange
    <2> QED
      BY <2>3, <2>4
  <1>4. ASSUME NEW x \in Exchanges, RefuseExchange(x)
        PROVE  IdsAgree' /\ NamespaceFromExchange'
    <2>1. Answered(x) /\ UNCHANGED <<provider, configs, issued, nextConfig>>
      BY <1>4 DEF RefuseExchange, tables, exchangeHistory, keyStore
    <2>2. \A y \in Exchanges : loaded'[y] = {} \/ (loaded'[y] = loaded[y] /\ jwt'[y] = jwt[y])
      BY <2>1, AnsweredExchange DEF NamespaceInd
    <2> QED
      BY <2>1, <2>2, FewerConfigs
  <1>5. ASSUME NEW x \in Exchanges, ExchangeNext(x)
        PROVE  IdsAgree' /\ NamespaceFromExchange'
    BY <1>2, <1>3, <1>4, <1>5, FinishNamespace DEF ExchangeNext, KeyStep
  <1>6. CASE Removed
    BY <1>6, FewerConfigs DEF Removed, keyStore, exchanges
  <1>7. CASE ConfigNext
    BY <1>1, <1>6, <1>7, InsertNamespace, RemovedConfigs
       DEF ConfigNext, CheckConfig, GiveUpConfig, tables, exchangeHistory, keyStore, exchanges, NamespaceInd
  <1>8. CASE TokenNext
    BY <1>1, <1>8 DEF TokenNext, RevokeToken, AlertRevokeToken, DeleteExpiredJtis, DeleteExpiredTokens,
                      exchangeHistory, keyStore, exchanges
  <1>9. CASE TickTrustpub
    BY <1>1, <1>9 DEF TickTrustpub, tables, exchangeHistory, keyStore, exchanges
  <1>10. ASSUME NEW k \in DOMAIN provided, RotateKeys(k)
         PROVE  IdsAgree' /\ NamespaceFromExchange'
    BY <1>1, <1>10 DEF RotateKeys, tables, exchangeHistory, exchanges
  <1>11. CASE UNCHANGED trustpubVars
    BY <1>1, <1>11 DEF trustpubVars, tables, exchangeHistory, keyStore, exchanges
  <1> QED
    BY <1>5, <1>7, <1>8, <1>9, <1>10, <1>11 DEF TrustpubNext

\* Trusted publishing, for any crates, configurations, keys and requests at a time: while the key
\* store refuses to refresh it lacks only keys younger than its last refresh and a request; a
\* GitLab configuration is bound only to a namespace whose exchange succeeded; and a crate that
\* lost its last configuration cannot be published once the life of a token and the time of a
\* request have passed.
THEOREM TrustpubIsSound == TrustpubSpec => []TrustpubInv
  <1>1. TrustpubInit => KeyStoreInd /\ BackedInd /\ NamespaceInd
    BY InitTrustpubTyped
       DEF TrustpubInit, KeyStoreInd, KeyStoreFresh, LoadingHolds, RecentlyUpdated, BackedInd, TokensBacked,
           NamespaceInd, IdsAgree, NamespaceFromExchange, Never
  <1>2. KeyStoreInd /\ BackedInd /\ NamespaceInd => TrustpubInv
    <2>1. TrustpubTyped => TrustpubTypeOK
      BY DEF TrustpubTyped, TrustpubTypes, ExchangesAgree, ConfigsAgree, TrustpubTypeOK
    <2> QED
      BY <2>1, BackedFollow DEF KeyStoreInd, NamespaceInd, TrustpubInv
  <1>3. KeyStoreInd /\ BackedInd /\ NamespaceInd /\ [TrustpubNext]_trustpubVars
          => (KeyStoreInd /\ BackedInd /\ NamespaceInd)'
    BY StepKeyStoreInd, StepBackedInd, StepNamespaceInd
  <1> QED
    BY <1>1, <1>2, <1>3, PTL DEF TrustpubSpec
=============================================================================
