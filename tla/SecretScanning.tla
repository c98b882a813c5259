--------------------------- MODULE SecretScanning ---------------------------
(***************************************************************************)
(* POST /api/github/secret-scanning/verify: GitHub reports tokens that it  *)
(* has found in public, in a signed request.  The keys of the signatures   *)
(* are fetched from GitHub and cached for a day, under a lock that is held *)
(* while they are fetched.  The tokens of a request are revoked one after  *)
(* another, without a transaction, and their owners get a mail.            *)
(*                                                                         *)
(* GitHub may deliver a report again when it has got no answer, and may    *)
(* report a token in two requests.  A signature is modelled by the key it  *)
(* was made with; requests of others are left out.                         *)
(***************************************************************************)
EXTENDS Integers, FiniteSets, Sequences

CONSTANTS
  ApiSecrets,     \* API tokens
  PubSecrets,     \* Trusted Publishing tokens
  Reports,        \* requests at work at a time
  KeyLifetime,    \* PUBLIC_KEY_CACHE_LIFETIME, in ticks
  MaxFetchTicks,  \* bound: the ticks a fetch of the keys may take
  MaxScanNow,     \* bound: the clock
  MaxKeys,        \* bound: keys of GitHub's
  MaxReports      \* bound: requests

ASSUME SecretScanningAssumption ==
  /\ ApiSecrets \cap PubSecrets = {}
  /\ KeyLifetime \in Nat \ {0} /\ MaxFetchTicks \in Nat
  /\ MaxScanNow \in Nat /\ MaxKeys \in Nat \ {0} /\ MaxReports \in Nat

Secrets == ApiSecrets \cup PubSecrets
Keys == 1..MaxKeys
NoTime == -1
NoReport == [step |-> "idle", key |-> 0, tokens |-> <<>>, labels |-> <<>>, fetched |-> 0, since |-> 0]

VARIABLES
  scanNow,    \* the clock
  currentKey, \* the key with which GitHub signs
  retired,    \* per key: when GitHub has replaced it, or NoTime
  cachedKey,  \* PUBLIC_KEY_CACHE: the current key it knows, and its timestamp
  cachedAt,
  known,      \* the API tokens that have a row, and the Trusted Publishing
              \* tokens that had one at the start
  valid,      \* the tokens that can be used
  report,     \* per request: its progress
  reports,    \* requests so far
  mails,      \* history: per token, the mails about it (sent or failed)
  answers,    \* history: the labels of the answers, per token
  clash,      \* history: the API tokens two requests have looked at, at a time
  cut,        \* history: the tokens whose request has ended without an answer
  lateKeys    \* history: how long after their replacement keys were accepted

scanVars == <<scanNow, currentKey, retired, cachedKey, cachedAt, known, valid, report, reports, mails,
              answers, clash, cut, lateKeys>>

ScanInit ==
  /\ scanNow = 0
  /\ currentKey = 1 /\ retired = [k \in Keys |-> NoTime]
  /\ cachedKey = 0 /\ cachedAt = NoTime
  /\ known \in SUBSET Secrets
  /\ valid \in {v \in SUBSET known : known \cap PubSecrets \subseteq v}
  /\ report = [r \in Reports |-> NoReport]
  /\ reports = 0
  /\ mails = [t \in Secrets |-> 0]
  /\ answers = [t \in Secrets |-> {}]
  /\ clash = {} /\ cut = {} /\ lateKeys = {}

ScanUnlocked == \A r \in Reports : report[r].step # "fetch"
First(r) == Head(report[r].tokens)

\* A request arrives, signed with the key that is current.
ReportArrives(r, tokens) ==
  /\ report[r].step = "idle" /\ reports < MaxReports
  /\ reports' = reports + 1
  /\ report' = [report EXCEPT ![r] = [NoReport EXCEPT !.step = "verify", !.key = currentKey, !.tokens = tokens]]
  /\ UNCHANGED <<known, scanNow, currentKey, retired, cachedKey, cachedAt, valid, mails, answers, clash, cut, lateKeys>>

CacheValid == cachedAt # NoTime /\ scanNow < cachedAt + KeyLifetime

\* The rest of verify_github_signature: the key must be the current one, to
\* our knowledge.  How late a replaced key is accepted is noted.
Verified(r, key) ==
  IF report[r].key = key
  THEN /\ report' = [report EXCEPT ![r].step = "alerts"]
       /\ lateKeys' = IF retired[key] = NoTime THEN lateKeys ELSE lateKeys \cup {scanNow - retired[key]}
       /\ UNCHANGED cut
  ELSE /\ report' = [report EXCEPT ![r] = NoReport]
       /\ cut' = cut \cup {report[r].tokens[i] : i \in 1..Len(report[r].tokens)}
       /\ UNCHANGED lateKeys

\* get_public_keys, with the lock: from the cache, or a fetch starts.
GetKeys(r) ==
  /\ report[r].step = "verify" /\ ScanUnlocked
  /\ \/ CacheValid /\ Verified(r, cachedKey)
     \/ /\ ~ CacheValid
        /\ report' = [report EXCEPT ![r].step = "fetch", ![r].fetched = 0, ![r].since = scanNow]
        /\ UNCHANGED <<lateKeys, cut>>
  /\ UNCHANGED <<known, scanNow, currentKey, retired, cachedKey, cachedAt, valid, reports, mails, answers, clash>>

\* GitHub answers with the keys of this moment ...
KeysSent(r) ==
  /\ report[r].step = "fetch" /\ report[r].fetched = 0
  /\ report' = [report EXCEPT ![r].fetched = currentKey]
  /\ UNCHANGED <<known, scanNow, currentKey, retired, cachedKey, cachedAt, valid, reports, mails, answers, clash, cut, lateKeys>>

\* ... and when they arrive, they are cached with the time of their arrival.
KeysArrive(r) ==
  /\ report[r].step = "fetch" /\ report[r].fetched # 0
  /\ cachedKey' = report[r].fetched
  /\ cachedAt' = scanNow
  /\ Verified(r, report[r].fetched)
  /\ UNCHANGED <<known, scanNow, currentKey, retired, valid, reports, mails, answers, clash>>

\* The label of a token, with what is done about it.  The DELETE of a Trusted
\* Publishing token finds a row once; an API token is read and then updated.
Labelled(r, label) ==
  report' = [report EXCEPT ![r].step = "alerts", ![r].tokens = Tail(@), ![r].labels = Append(@, <<First(r), label>>)]

RevokePub(r) ==
  /\ report[r].step = "alerts" /\ report[r].tokens # <<>> /\ First(r) \in PubSecrets
  /\ valid' = valid \ {First(r)}
  /\ IF First(r) \in valid
     THEN report' = [report EXCEPT ![r].step = "mail"]
     ELSE Labelled(r, FALSE)
  /\ UNCHANGED <<known, scanNow, currentKey, retired, cachedKey, cachedAt, reports, mails, answers, clash, cut, lateKeys>>

\* An API token that is revoked keeps its row, and is a true positive; one
\* without a row is a false positive.
ReadApiToken(r) ==
  /\ report[r].step = "alerts" /\ report[r].tokens # <<>> /\ First(r) \in ApiSecrets
  /\ IF First(r) \in valid
     THEN report' = [report EXCEPT ![r].step = "revoke"]
     ELSE Labelled(r, First(r) \in known)
  /\ clash' = IF \E q \in Reports \ {r} : report[q].step = "revoke" /\ First(q) = First(r)
              THEN clash \cup {First(r)} ELSE clash
  /\ UNCHANGED <<known, scanNow, currentKey, retired, cachedKey, cachedAt, valid, reports, mails, answers, cut, lateKeys>>

RevokeApi_asked(r) ==
  /\ report[r].step = "revoke"
  /\ report' = [report EXCEPT ![r].step = "mail"]
  /\ UNCHANGED <<known, scanNow, currentKey, retired, cachedKey, cachedAt, valid, reports, mails, answers, clash, cut, lateKeys>>

RevokeApi(r) ==
  /\ report[r].step = "revoke"
  /\ valid' = valid \ {First(r)}
  /\ report' = [report EXCEPT ![r].step = "mail"]
  /\ UNCHANGED <<known, scanNow, currentKey, retired, cachedKey, cachedAt, reports, mails, answers, clash, cut, lateKeys>>

\* The mails; when they fail that is logged, and the label is the same.
SendAlertMail(r) ==
  /\ report[r].step = "mail"
  /\ mails' = [mails EXCEPT ![First(r)] = @ + 1]
  /\ Labelled(r, TRUE)
  /\ UNCHANGED <<known, scanNow, currentKey, retired, cachedKey, cachedAt, valid, reports, answers, clash, cut, lateKeys>>

\* The answer, when all tokens of the request are through.
AnswerReport(r) ==
  /\ report[r].step = "alerts" /\ report[r].tokens = <<>>
  /\ answers' = [t \in Secrets |->
                   answers[t] \cup {report[r].labels[i][2] : i \in {j \in 1..Len(report[r].labels) : report[r].labels[j][1] = t}}]
  /\ report' = [report EXCEPT ![r] = NoReport]
  /\ UNCHANGED <<known, scanNow, currentKey, retired, cachedKey, cachedAt, valid, reports, mails, clash, cut, lateKeys>>

\* An error of the database or of the fetch, or the end of the process or of
\* the connection: no answer.
ReportCut(r) ==
  /\ report[r].step # "idle"
  /\ cut' = cut \cup {report[r].tokens[i] : i \in 1..Len(report[r].tokens)}
                \cup {report[r].labels[i][1] : i \in 1..Len(report[r].labels)}
  /\ report' = [report EXCEPT ![r] = NoReport]
  /\ UNCHANGED <<known, scanNow, currentKey, retired, cachedKey, cachedAt, valid, reports, mails, answers, clash, lateKeys>>

RotateKey ==
  /\ currentKey < MaxKeys
  /\ currentKey' = currentKey + 1
  /\ retired' = [retired EXCEPT ![currentKey] = scanNow]
  /\ UNCHANGED <<known, scanNow, cachedKey, cachedAt, valid, report, reports, mails, answers, clash, cut, lateKeys>>

ScanTick ==
  /\ scanNow < MaxScanNow
  /\ \A r \in Reports : report[r].step = "fetch" => scanNow < report[r].since + MaxFetchTicks
  /\ scanNow' = scanNow + 1
  /\ UNCHANGED <<known, currentKey, retired, cachedKey, cachedAt, valid, report, reports, mails, answers, clash, cut, lateKeys>>

ScanNext ==
  \/ \E r \in Reports :
       \/ \E s, t \in Secrets : \E tokens \in {<<s>>, <<s, t>>} : ReportArrives(r, tokens)
       \/ GetKeys(r)
       \/ KeysSent(r)
       \/ KeysArrive(r)
       \/ RevokePub(r)
       \/ ReadApiToken(r)
       \/ RevokeApi(r)
       \/ SendAlertMail(r)
       \/ AnswerReport(r)
       \/ ReportCut(r)
  \/ RotateKey
  \/ ScanTick

ScanSpec == ScanInit /\ [][ScanNext]_scanVars

-----------------------------------------------------------------------------
\* Type invariant: the variables have their types, only tokens that exist can
\* be used, and one request at a time fetches keys (PUBLIC_KEY_CACHE is locked
\* meanwhile).
ScanTypeOK ==
  /\ scanNow \in 0..MaxScanNow /\ currentKey \in Keys
  /\ retired \in [Keys -> {NoTime} \cup 0..MaxScanNow]
  /\ cachedKey \in {0} \cup Keys /\ cachedAt \in {NoTime} \cup 0..MaxScanNow
  /\ known \subseteq Secrets /\ valid \subseteq known
  /\ reports \in 0..MaxReports
  /\ mails \in [Secrets -> Nat] /\ answers \in [Secrets -> SUBSET BOOLEAN]
  /\ clash \subseteq ApiSecrets /\ cut \subseteq Secrets
  /\ Cardinality({r \in Reports : report[r].step = "fetch"}) <= 1

\* What verify answers is true of the database: a token GitHub has had an
\* answer about can no longer be used, and only a token that exists or existed
\* is a true positive; an API token keeps its row and is one every time.
AnsweredIsRevoked ==
  \A t \in Secrets :
    /\ answers[t] # {} => t \notin valid
    /\ TRUE \in answers[t] => t \in known
    /\ t \in ApiSecrets \cap known => FALSE \notin answers[t]

\* The owners of a token hear of it once, however often it is reported, and
\* GitHub hears that it was real: the exceptions are an API token that two
\* requests look at before either has revoked it (two mails), and a request
\* that was cut off after it had revoked a token (no mail, and a Trusted
\* Publishing token is a false positive the next time).
ToldOnce ==
  \A t \in Secrets :
    /\ t \notin clash => mails[t] <= 1
    /\ ((\A r \in Reports : report[r].step = "idle") /\ t \in (known \cap PubSecrets) \ (cut \cup valid))
         => mails[t] = 1 /\ TRUE \in answers[t]

\* A key that GitHub has replaced is refused once the cache has run out: it is
\* accepted for less than the life of the cache and the time of the fetch that
\* filled it.
ReplacedKeyRefused == \A d \in lateKeys : d < KeyLifetime + MaxFetchTicks

\* Secret scanning: a token in an answer is revoked, its owner is told once, and a key that
\* was replaced is refused once the cache has run out.
ScanInv == ScanTypeOK /\ AnsweredIsRevoked /\ ToldOnce /\ ReplacedKeyRefused
=============================================================================
