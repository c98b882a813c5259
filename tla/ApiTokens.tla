------------------------------ MODULE ApiTokens ------------------------------
(***************************************************************************)
(* API tokens: created by a user who is logged in, used by cargo within    *)
(* their scopes, revoked by the user, by the token itself or by GitHub's   *)
(* secret scanning, and announced by mail some days before they expire.    *)
(*                                                                         *)
(* SendTokenExpiryNotifications reads a batch of tokens and then, for each *)
(* of them, sends mail and marks the token, without a transaction: a mail  *)
(* that fails leaves the token for the next run, and a worker that is lost *)
(* after a mail was sent leads to a second mail.  So do two runs at once:  *)
(* the default queue has several workers, and enqueuing the job does not   *)
(* look at one that runs.                                                  *)
(***************************************************************************)
EXTENDS Integers, FiniteSets, Sequences

CONSTANTS
  Holders,       \* users,
  Reachable,     \*   and those of them who have a mail address
  Expiries,      \* the expiry dates that are asked for
  Scopes,        \* the scopes that are asked for: endpoints and crates, each
                 \*   the set of a set of scopes, or {} for none (a legacy token)
  Makers,        \* requests that create a token at a time
  MaxPerUser,    \* max_token_per_user
  Threshold,     \* EXPIRY_THRESHOLD
  Notifiers,     \* runs of SendTokenExpiryNotifications at a time
  MaxRows,       \* MAX_ROWS
  MaxTokenId,    \* bound: tokens created
  MaxClock,      \* bound: time
  MaxLosses      \* bound: mails or marks that fail

ASSUME TokensAssumption == MaxClock \in Nat /\ MaxLosses \in Nat

NoExpiry == -1
NoScope == "none"
NoCrate == "none"

VARIABLES
  clock,
  apiTokens,     \* rows of api_tokens, in the order of their ids
  making,        \* per request: the user whose tokens it has counted
  locked,        \* users whose account is locked
  batch,         \* per run: the tokens it has read and not dealt with
  told,          \* per run: the first of them, when the mail about it is out
  mails,         \* history: per token, the mails that were delivered
  shared,        \* history: the tokens that a run has read while another had them,
  unmarked,      \*   and those whose mark was lost after the mail
  losses         \* history: mails and marks that failed

jobVars == <<batch, told, shared, unmarked, losses>>
tokenVars == <<clock, apiTokens, making, locked, mails, jobVars>>

Ids == DOMAIN apiTokens

TokensInit ==
  /\ clock = 0
  /\ apiTokens = << >>
  /\ making = [r \in Makers |-> {}]
  /\ locked = {}
  /\ batch = [n \in Notifiers |-> {}]
  /\ told = [n \in Notifiers |-> {}]
  /\ shared = {}
  /\ unmarked = {}
  /\ mails = << >>
  /\ losses = 0

-----------------------------------------------------------------------------
(* Authentication with a token.                                            *)

\* find_by_api_token: neither revoked nor expired.
Valid(t) ==
  /\ ~apiTokens[t].revoked
  /\ apiTokens[t].expires = NoExpiry \/ apiTokens[t].expires > clock

\* AuthCheck::endpoint_scope_matches: a legacy token may do everything; a token with
\* scopes only what has one of them, and nothing where no scope is asked for.
EndpointScopeMatches(scopes, endpoint) ==
  \A some \in scopes.endpoints : endpoint # NoScope /\ endpoint \in some

\* AuthCheck::crate_scope_matches
CrateScopeMatches(scopes, name) ==
  \A some \in scopes.crates : some = {} \/ (name # NoCrate /\ name \in some)

\* AuthCheck::check for a request with a token: authenticate, then the scopes.
Allows(t, endpoint, name) ==
  /\ Valid(t)
  /\ apiTokens[t].user \notin locked
  /\ EndpointScopeMatches(apiTokens[t].scopes, endpoint)
  /\ CrateScopeMatches(apiTokens[t].scopes, name)

-----------------------------------------------------------------------------
Belonging(u) == {t \in Ids : apiTokens[t].user = u}

\* create_api_token for a user with a session, never with a token: all the tokens the
\* user ever had are counted, mail is sent,
CountTokens(r, u) ==
  /\ making[r] = {}
  /\ u \notin locked
  /\ Cardinality(Belonging(u)) < MaxPerUser
  /\ making' = [making EXCEPT ![r] = {u}]
  /\ UNCHANGED <<clock, apiTokens, locked, mails, jobVars>>

\* and the row inserted.
InsertToken(r, scopes, expires) ==
  \E u \in making[r] :
    /\ Len(apiTokens) < MaxTokenId
    /\ apiTokens' = Append(apiTokens, [user |-> u, scopes |-> scopes, expires |-> expires,
                                       revoked |-> FALSE, notified |-> FALSE])
    /\ mails' = Append(mails, 0)
    /\ making' = [making EXCEPT ![r] = {}]
    /\ UNCHANGED <<clock, locked, jobVars>>

\* A scope cannot be parsed, or the insert fails.
CreateFails(r) ==
  /\ making[r] # {}
  /\ making' = [making EXCEPT ![r] = {}]
  /\ UNCHANGED <<clock, apiTokens, locked, mails, jobVars>>

Revoked(t) ==
  /\ apiTokens' = [apiTokens EXCEPT ![t].revoked = TRUE]
  /\ UNCHANGED <<clock, making, locked, mails, jobVars>>

\* revoke_api_token: by a user, with a session or with a legacy token.
RevokeApiToken(t) ==
  /\ apiTokens[t].user \notin locked
  /\ Revoked(t)

\* revoke_current_api_token: with the token itself; no scope will do.
RevokeCurrentApiToken(t) == Allows(t, NoScope, NoCrate) /\ Revoked(t)

\* alert_revoke_token, for a token that is not revoked; mail may fail.
AlertRevokeApiToken(t) == ~apiTokens[t].revoked /\ Revoked(t)

\* An operator locks or unlocks an account.
LockAccount(u) ==
  /\ locked' = IF u \in locked THEN locked \ {u} ELSE locked \cup {u}
  /\ UNCHANGED <<clock, apiTokens, making, mails, jobVars>>

-----------------------------------------------------------------------------
(* SendTokenExpiryNotifications.                                           *)

\* find_expiring_tokens, before the limit
Expiring ==
  {t \in Ids : /\ Valid(t)
               /\ apiTokens[t].expires # NoExpiry
               /\ apiTokens[t].expires < clock + Threshold
               /\ ~apiTokens[t].notified}

\* find_expiring_tokens takes the MAX_ROWS most urgent.
FindExpiringTokens(n) ==
  /\ batch[n] = {}
  /\ \E found \in SUBSET Expiring :
       /\ Cardinality(found) = IF Cardinality(Expiring) < MaxRows THEN Cardinality(Expiring) ELSE MaxRows
       /\ \A t \in found, s \in Expiring \ found : apiTokens[t].expires <= apiTokens[s].expires
       /\ batch' = [batch EXCEPT ![n] = found]
       /\ shared' = shared \cup {t \in found : \E m \in Notifiers : t \in batch[m]}
  /\ UNCHANGED <<clock, apiTokens, making, locked, told, mails, unmarked, losses>>

First(n, t) == t \in batch[n] /\ \A s \in batch[n] : apiTokens[t].expires <= apiTokens[s].expires

\* handle_expiring_token: the mail, for a user who has an address,
SendExpiryMail(n, t) ==
  /\ First(n, t) /\ told[n] = {}
  /\ told' = [told EXCEPT ![n] = {t}]
  /\ mails' = [mails EXCEPT ![t] = IF apiTokens[t].user \in Reachable THEN @ + 1 ELSE @]
  /\ UNCHANGED <<clock, apiTokens, making, locked, batch, shared, unmarked, losses>>

\* The run is done with the tokens of a set, or gives them up.
DoneWith(n, tokens) ==
  /\ batch' = [batch EXCEPT ![n] = @ \ tokens]
  /\ told' = [told EXCEPT ![n] = {}]

\* Mutant: a token is marked before its mail is sent.
ExpiryMailFails_marked(n, t) ==
  /\ First(n, t) /\ told[n] \subseteq {t}
  /\ losses < MaxLosses
  /\ losses' = losses + 1
  /\ apiTokens' = [apiTokens EXCEPT ![t].notified = TRUE]
  /\ DoneWith(n, {t})
  /\ UNCHANGED <<clock, making, locked, mails, shared, unmarked>>

\* or the mail fails, or the mark after it, and the job goes on with the next token.
ExpiryMailFails(n, t) ==
  /\ First(n, t) /\ told[n] \subseteq {t}
  /\ losses < MaxLosses
  /\ losses' = losses + 1
  /\ unmarked' = unmarked \cup told[n]
  /\ DoneWith(n, {t})
  /\ UNCHANGED <<clock, apiTokens, making, locked, mails, shared>>

\* Then the token is marked.
MarkNotified(n, t) ==
  /\ t \in told[n]
  /\ apiTokens' = [apiTokens EXCEPT ![t].notified = TRUE]
  /\ DoneWith(n, {t})
  /\ UNCHANGED <<clock, making, locked, mails, shared, unmarked, losses>>

\* The worker is lost, before or after a mail.
JobLost(n) ==
  /\ batch[n] # {}
  /\ losses < MaxLosses
  /\ losses' = losses + 1
  /\ unmarked' = unmarked \cup told[n]
  /\ DoneWith(n, batch[n])
  /\ UNCHANGED <<clock, apiTokens, making, locked, mails, shared>>

TickClock ==
  /\ clock < MaxClock
  /\ clock' = clock + 1
  /\ UNCHANGED <<apiTokens, making, locked, mails, jobVars>>

TokensNext ==
  \/ \E r \in Makers, u \in Holders : CountTokens(r, u)
  \/ \E r \in Makers, s \in Scopes, e \in Expiries : InsertToken(r, s, e)
  \/ \E r \in Makers : CreateFails(r)
  \/ \E t \in Ids : RevokeApiToken(t) \/ RevokeCurrentApiToken(t) \/ AlertRevokeApiToken(t)
  \/ \E u \in Holders : LockAccount(u)
  \/ \E n \in Notifiers : FindExpiringTokens(n) \/ JobLost(n)
  \/ \E n \in Notifiers : \E t \in batch[n] :
       SendExpiryMail(n, t) \/ ExpiryMailFails(n, t) \/ MarkNotified(n, t)
  \/ TickClock

TokensSpec == TokensInit /\ [][TokensNext]_tokenVars

-----------------------------------------------------------------------------
\* Rows, requests and runs of the job have their types.
TokensTypeOK ==
  /\ clock \in 0 .. MaxClock
  /\ locked \subseteq Holders
  /\ \A t \in Ids : apiTokens[t].user \in Holders /\ apiTokens[t].expires \in Expiries
  /\ \A r \in Makers : making[r] \subseteq Holders
  /\ \A n \in Notifiers :
       batch[n] \subseteq Ids /\ told[n] \subseteq batch[n] /\ \A s, t \in told[n] : s = t

\* handle_expiring_token: a token that is marked as notified has been announced to its
\* user, or the user could not be reached; an attempt that failed does not count.
NotifiedMeansTold ==
  \A t \in Ids : apiTokens[t].notified /\ apiTokens[t].user \in Reachable => mails[t] > 0

\* expiry_notification_at: a user gets one mail about a token, and another one only when
\* the mark was lost after a mail, or when a run had read the token while another run
\* was still to mark it.
ToldOnce == \A t \in Ids \ (shared \cup unmarked) : mails[t] <= 1

\* SendTokenExpiryNotifications: a token is marked only after its holder was told, and
\* the holder is told again only after the loss of a mark or by runs that overlap.
TokensInv == TokensTypeOK /\ NotifiedMeansTold /\ ToldOnce
=============================================================================
