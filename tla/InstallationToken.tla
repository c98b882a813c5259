-------------------------- MODULE InstallationToken -------------------------
(***************************************************************************)
(* GitHubAppClient::installation_token: the access token for GitHub's API, *)
(* cached together with the id of the app's installation.  A call holds a  *)
(* lock for its whole duration, the requests to GitHub included.  A caller *)
(* may be dropped while it waits for an answer; what it has written to the *)
(* cache so far stays.                                                     *)
(*                                                                         *)
(* GitHub is the environment: the app is installed under an id, or not at  *)
(* all, and may be installed again under a new id at any time.             *)
(***************************************************************************)
EXTENDS Integers, FiniteSets

CONSTANTS
  AppCallers,     \* calls at work at a time
  RefreshMargin,  \* REFRESH_MARGIN, in ticks
  TokenLife,      \* how long a token of GitHub's is valid, in ticks
  MaxAppNow,      \* bound: the clock
  MaxInstalls     \* bound: installations of the app

ASSUME InstallationTokenAssumption ==
  /\ RefreshMargin \in Nat /\ TokenLife \in Nat /\ TokenLife > RefreshMargin
  /\ MaxAppNow \in Nat /\ MaxInstalls \in Nat \ {0}

NoInstall == 0
NoToken == [id |-> NoInstall, expires |-> 0]

VARIABLES
  appNow,     \* the clock
  installed,  \* the id under which the app is installed, or NoInstall
  lastId,     \* the last id given
  cachedId,   \* State.installation_id
  cachedTok,  \* State.token
  call,       \* per call: its step; "waits" is the wait for the lock
  calm,       \* history: per call, whether GitHub has answered and not changed
  answer,     \* per call: the token it has returned last
  failed      \* history: the calls that have failed although GitHub was calm

appVars == <<appNow, installed, lastId, cachedId, cachedTok, call, calm, answer, failed>>

AppInit ==
  /\ appNow = 0
  /\ installed \in {NoInstall, 1} /\ lastId = 1
  /\ cachedId = NoInstall /\ cachedTok = NoToken
  /\ call = [c \in AppCallers |-> "idle"]
  /\ calm = [c \in AppCallers |-> TRUE]
  /\ answer = [c \in AppCallers |-> NoToken]
  /\ failed = {}

AppUnlocked == \A c \in AppCallers : call[c] \in {"idle", "waits"}

AppReturn(c, t) ==
  /\ answer' = [answer EXCEPT ![c] = t]
  /\ call' = [call EXCEPT ![c] = "idle"]
  /\ UNCHANGED failed

AppFail(c) ==
  /\ call' = [call EXCEPT ![c] = "idle"]
  /\ failed' = IF calm[c] /\ installed # NoInstall THEN failed \cup {c} ELSE failed
  /\ UNCHANGED answer

BeginCall(c) ==
  /\ call[c] = "idle"
  /\ call' = [call EXCEPT ![c] = "waits"]
  /\ calm' = [calm EXCEPT ![c] = TRUE]
  /\ answer' = [answer EXCEPT ![c] = NoToken]
  /\ UNCHANGED <<appNow, installed, lastId, cachedId, cachedTok, failed>>

\* valid_until
Fresh_expired(t) == t # NoToken /\ appNow < t.expires

Fresh(t) == t # NoToken /\ appNow < t.expires - RefreshMargin

TakeLock(c) ==
  /\ call[c] = "waits" /\ AppUnlocked
  /\ IF Fresh(cachedTok)
     THEN AppReturn(c, cachedTok)
     ELSE call' = [call EXCEPT ![c] = IF cachedId = NoInstall THEN "lookup" ELSE "mint"] /\ UNCHANGED <<answer, failed>>
  /\ UNCHANGED <<appNow, installed, lastId, cachedId, cachedTok, calm>>

Mint(c) ==
  /\ call[c] \in {"mint", "remint"}
  /\ \/ /\ cachedId = installed
        /\ LET t == [id |-> cachedId, expires |-> appNow + TokenLife] IN
           cachedTok' = t /\ AppReturn(c, t)
        /\ UNCHANGED cachedId
     \/ /\ cachedId # installed /\ call[c] = "mint"
        /\ cachedId' = NoInstall
        /\ call' = [call EXCEPT ![c] = "lookup"]
        /\ UNCHANGED <<cachedTok, answer, failed>>
     \/ /\ cachedId # installed /\ call[c] = "remint"
        /\ AppFail(c)
        /\ UNCHANGED <<cachedId, cachedTok>>
  /\ UNCHANGED <<appNow, installed, lastId, calm>>

\* fetch_installation_id; an app that is not installed is an error.
LookUp(c) ==
  /\ call[c] = "lookup"
  /\ IF installed = NoInstall
     THEN AppFail(c) /\ UNCHANGED cachedId
     ELSE /\ cachedId' = installed
          /\ call' = [call EXCEPT ![c] = "remint"]
          /\ UNCHANGED <<answer, failed>>
  /\ UNCHANGED <<appNow, installed, lastId, cachedTok, calm>>

\* A request to GitHub fails or takes longer than its timeout.
RequestFails(c) ==
  /\ call[c] \in {"mint", "lookup", "remint"}
  /\ call' = [call EXCEPT ![c] = "idle"]
  /\ UNCHANGED <<appNow, installed, lastId, cachedId, cachedTok, calm, answer, failed>>

\* The caller is dropped, in the queue for the lock or while it has it.
CallDropped(c) ==
  /\ call[c] # "idle"
  /\ call' = [call EXCEPT ![c] = "idle"]
  /\ UNCHANGED <<appNow, installed, lastId, cachedId, cachedTok, calm, answer, failed>>

\* GitHub: the app is removed, or installed again; no call in progress is calm.
Reinstall(on) ==
  /\ on \/ installed # NoInstall
  /\ on => lastId < MaxInstalls
  /\ installed' = IF on THEN lastId + 1 ELSE NoInstall
  /\ lastId' = IF on THEN lastId + 1 ELSE lastId
  /\ calm' = [c \in AppCallers |-> FALSE]
  /\ UNCHANGED <<appNow, cachedId, cachedTok, call, answer, failed>>

AppTick ==
  /\ appNow < MaxAppNow
  /\ appNow' = appNow + 1
  /\ answer' = [c \in AppCallers |-> NoToken]
  /\ UNCHANGED <<installed, lastId, cachedId, cachedTok, call, calm, failed>>

AppNext ==
  \/ \E c \in AppCallers :
       \/ BeginCall(c)
       \/ TakeLock(c)
       \/ Mint(c)
       \/ LookUp(c)
       \/ RequestFails(c)
       \/ CallDropped(c)
  \/ \E on \in BOOLEAN : Reinstall(on)
  \/ AppTick

AppSpec == AppInit /\ [][AppNext]_appVars

-----------------------------------------------------------------------------

AppIds == 0..MaxInstalls
AppToken == [id : AppIds, expires : 0..MaxAppNow + TokenLife]

\* Types; one call at a time has the lock.
AppTypeOK ==
  /\ appNow \in 0..MaxAppNow
  /\ installed \in AppIds /\ lastId \in AppIds /\ cachedId \in AppIds
  /\ cachedTok \in AppToken
  /\ call \in [AppCallers -> {"idle", "waits", "lookup", "mint", "remint"}]
  /\ Cardinality({c \in AppCallers : call[c] \notin {"idle", "waits"}}) =< 1
  /\ calm \in [AppCallers -> BOOLEAN]
  /\ answer \in [AppCallers -> AppToken]
  /\ failed \subseteq AppCallers

\* A token that is returned can be used for longer than the margin, whether it
\* was cached or minted for this call.  (answer is of this very moment.)
TokenLasts ==
  \A c \in AppCallers : answer[c] # NoToken => answer[c].expires > appNow + RefreshMargin

\* As long as the app is installed and GitHub answers, a call succeeds: what
\* earlier calls have left in the cache, when they failed, were dropped half
\* way, or met another installation, never stands in the way.
CalmCallsSucceed == failed = {}

\* installation_token: a token that is given out is good for the margin, and calls during
\* which nothing changes succeed.
AppInv == AppTypeOK /\ TokenLasts /\ CalmCallsSucceed
=============================================================================
