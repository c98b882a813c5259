---------------------------- MODULE SimilarNames ----------------------------
(***************************************************************************)
(* CheckTyposquat: a job that compares the name of a new crate with those  *)
(* of the most downloaded crates, and tells people about names that are    *)
(* similar, unless the two crates share an owner.                          *)
(*                                                                         *)
(* The popular crates and their owners are loaded once per process, by the *)
(* first job that needs them, with two queries; the result is kept, and so *)
(* is an error.  A process runs several jobs at a time.  A name is a       *)
(* sequence of words; besides the words that are often added (checks.rs),  *)
(* names resemble each other in ways that a library knows (Resembles).     *)
(* That a mail could not be sent is only logged, so an alarm stands for    *)
(* the attempt.                                                            *)
(***************************************************************************)
EXTENDS Integers, FiniteSets, Sequences

CONSTANTS
  OldNames,        \* crates that exist from the start
  NewNames,        \* crates that may be published
  AffixWords,      \* SUFFIXES
  Resembles,       \* pairs of names that the checks of the library find
  NameOwners,      \* owners: kind and id
  CheckTasks,      \* jobs at work at a time, in the process
  TopCrates,       \* TOP_CRATES
  MaxNameChanges,  \* bound: changes of owners, downloads and crates
  MaxLoadFails     \* bound: errors while the popular crates are loaded

ASSUME SimilarNamesAssumption ==
  /\ OldNames \cap NewNames = {} /\ IsFiniteSet(OldNames) /\ IsFiniteSet(NewNames)
  /\ <<>> \notin NewNames
  /\ Resembles \subseteq NewNames \X OldNames
  /\ TopCrates \in Nat /\ MaxNameChanges \in Nat /\ MaxLoadFails \in Nat

Names == OldNames \cup NewNames

VARIABLES
  names,        \* the crates
  ownersOf,     \* their owners
  fewDownloads, \* the crates with few downloads; the others have many
  notify,       \* whether TYPOSQUAT_NOTIFICATION_EMAILS is set
  corpus,       \* typosquat_cache of the process
  typoJob,      \* per new crate: its job
  typoTask,     \* per task: its job, its step, and the owners it has read
  nameChanges,  \* changes so far
  loadFails,    \* errors of the load so far
  checkedNames, \* history: the crates that were compared
  alarms,       \* history: the pairs that were reported
  touched       \* history: the crates that have changed since the start

typoVars == <<names, ownersOf, fewDownloads, notify, corpus, typoJob, typoTask, nameChanges, loadFails,
              checkedNames, alarms, touched>>
typoDb == <<names, ownersOf, fewDownloads, notify>>

NoCorpus == [state |-> "empty", owners |-> [c \in {} |-> {}]]
NoTask == [name |-> <<>>, step |-> "idle", owners |-> {}]

TypoInit ==
  /\ names = OldNames
  /\ ownersOf \in [Names -> SUBSET NameOwners]
  /\ \A c \in NewNames : ownersOf[c] = {}
  /\ fewDownloads \in SUBSET OldNames
  /\ notify \in BOOLEAN
  /\ corpus = NoCorpus
  /\ typoJob = [n \in NewNames |-> "none"]
  /\ typoTask = [t \in CheckTasks |-> NoTask]
  /\ nameChanges = 0 /\ loadFails = 0
  /\ checkedNames = {} /\ alarms = {} /\ touched = {}

OwnerKey(o) == o
Keyed(os) == {OwnerKey(o) : o \in os}

\* Affixes::check: one name has a word more, at the front or at the end.
Affixed(n, s) ==
  \E w \in AffixWords :
    \/ n = <<w>> \o s \/ n = s \o <<w>>
    \/ s = <<w>> \o n \/ s = n \o <<w>>

Alike(n, s) == Affixed(n, s) \/ <<n, s>> \in Resembles

\* check_package: the names in the corpus that are alike, without those with
\* an owner in common (possible_squat).
Squats(n, os) == {s \in DOMAIN corpus.owners : Alike(n, s) /\ corpus.owners[s] \cap Keyed(os) = {}}

-----------------------------------------------------------------------------
(***************************************************************************)
(* The crates                                                              *)
(***************************************************************************)

\* A publication enqueues the check of a new crate.
PublishName(n, os) ==
  /\ n \in NewNames \ names /\ typoJob[n] = "none"
  /\ os # {}
  /\ names' = names \cup {n}
  /\ ownersOf' = [ownersOf EXCEPT ![n] = os]
  /\ fewDownloads' = fewDownloads \cup {n}
  /\ typoJob' = [typoJob EXCEPT ![n] = "waits"]
  /\ UNCHANGED <<notify, corpus, typoTask, nameChanges, loadFails, checkedNames, alarms, touched>>

NameChanges(cs) ==
  /\ nameChanges < MaxNameChanges
  /\ nameChanges' = nameChanges + 1
  /\ touched' = touched \cup cs
  /\ UNCHANGED <<notify, corpus, typoJob, typoTask, loadFails, checkedNames, alarms>>

ChangeOwners(c, os) ==
  /\ c \in names
  /\ NameChanges({c})
  /\ ownersOf' = [ownersOf EXCEPT ![c] = os]
  /\ UNCHANGED <<names, fewDownloads>>

DeleteName(c) ==
  /\ c \in names
  /\ NameChanges({c})
  /\ names' = names \ {c}
  /\ ownersOf' = [ownersOf EXCEPT ![c] = {}]
  /\ UNCHANGED fewDownloads

\* A crate becomes popular, and so changes which crates are the top ones.
Downloaded(c) ==
  /\ c \in fewDownloads
  /\ NameChanges(Names)
  /\ fewDownloads' = fewDownloads \ {c}
  /\ UNCHANGED <<names, ownersOf>>

-----------------------------------------------------------------------------
(***************************************************************************)
(* The job                                                                 *)
(***************************************************************************)

StepTo(t, step) == typoTask' = [typoTask EXCEPT ![t].step = step]

\* The job ends, or waits to be run again.
EndCheck(t, state) ==
  /\ typoJob' = [typoJob EXCEPT ![typoTask[t].name] = state]
  /\ typoTask' = [typoTask EXCEPT ![t] = NoTask]

StartCheck(t, n) ==
  /\ typoTask[t] = NoTask /\ typoJob[n] = "waits"
  /\ typoJob' = [typoJob EXCEPT ![n] = "runs"]
  /\ typoTask' = [typoTask EXCEPT ![t] = [NoTask EXCEPT !.name = n, !.step = "cache"]]
  /\ UNCHANGED <<typoDb, corpus, nameChanges, loadFails, checkedNames, alarms, touched>>

\* get_or_init: the first task loads, and the others wait for it.  Without
\* addresses there is nothing to load.  The first query: the top crates.
LoadTopCrates(t) ==
  /\ typoTask[t].step = "cache" /\ corpus.state = "empty"
  /\ IF ~ notify
     THEN corpus' = [corpus EXCEPT !.state = "off"] /\ UNCHANGED typoTask
     ELSE /\ StepTo(t, "load")
          /\ \E top \in SUBSET names :
               /\ Cardinality(top) = IF Cardinality(names) < TopCrates THEN Cardinality(names) ELSE TopCrates
               /\ \A c \in top, d \in names \ top : c \in fewDownloads => d \in fewDownloads
               /\ corpus' = [state |-> "loading", owners |-> [c \in top |-> {}]]
  /\ UNCHANGED <<typoDb, typoJob, nameChanges, loadFails, checkedNames, alarms, touched>>

\* The second query: their owners, as they are by now.
LoadOwners(t) ==
  /\ typoTask[t].step = "load"
  /\ corpus' = [state |-> "ready", owners |-> [c \in DOMAIN corpus.owners |-> Keyed(ownersOf[c])]]
  /\ StepTo(t, "cache")
  /\ UNCHANGED <<typoDb, typoJob, nameChanges, loadFails, checkedNames, alarms, touched>>

\* Either query fails: the error is kept.
LoadFails(t) ==
  /\ typoTask[t].step = "load" /\ loadFails < MaxLoadFails
  /\ loadFails' = loadFails + 1
  /\ corpus' = [NoCorpus EXCEPT !.state = "failed"]
  /\ StepTo(t, "cache")
  /\ UNCHANGED <<typoDb, typoJob, nameChanges, checkedNames, alarms, touched>>

\* The job goes on with what is kept: an error fails it.
UseCorpus_lenient(t) ==
  /\ typoTask[t].step = "cache" /\ corpus.state \in {"ready", "failed", "off"}
  /\ IF corpus.state = "ready" THEN StepTo(t, "lookup") /\ UNCHANGED typoJob ELSE EndCheck(t, "done")
  /\ UNCHANGED <<typoDb, corpus, nameChanges, loadFails, checkedNames, alarms, touched>>

UseCorpus(t) ==
  /\ typoTask[t].step = "cache"
  /\ \/ corpus.state = "ready" /\ StepTo(t, "lookup") /\ UNCHANGED typoJob
     \/ corpus.state = "failed" /\ EndCheck(t, "waits")
     \/ corpus.state = "off" /\ EndCheck(t, "done")
  /\ UNCHANGED <<typoDb, corpus, nameChanges, loadFails, checkedNames, alarms, touched>>

\* Crate::from_name: the crate, and then its owners.
LookUpName(t) ==
  /\ typoTask[t].step = "lookup"
  /\ IF typoTask[t].name \in names THEN StepTo(t, "owners") /\ UNCHANGED typoJob ELSE EndCheck(t, "done")
  /\ UNCHANGED <<typoDb, corpus, nameChanges, loadFails, checkedNames, alarms, touched>>

ReadNewOwners(t) ==
  /\ typoTask[t].step = "owners"
  /\ typoTask' = [typoTask EXCEPT ![t].owners = ownersOf[typoTask[t].name], ![t].step = "check"]
  /\ UNCHANGED <<typoDb, corpus, typoJob, nameChanges, loadFails, checkedNames, alarms, touched>>

CheckName(t) ==
  LET n == typoTask[t].name IN
  /\ typoTask[t].step = "check"
  /\ alarms' = alarms \cup {<<n, s>> : s \in Squats(n, typoTask[t].owners)}
  /\ checkedNames' = checkedNames \cup {n}
  /\ EndCheck(t, "done")
  /\ UNCHANGED <<typoDb, corpus, nameChanges, loadFails, touched>>

\* A query of the check fails.
CheckFails(t) ==
  /\ typoTask[t].step \in {"lookup", "owners"}
  /\ EndCheck(t, "waits")
  /\ UNCHANGED <<typoDb, corpus, nameChanges, loadFails, checkedNames, alarms, touched>>

\* The process ends, and another one takes over.
RestartWorker ==
  /\ corpus' = NoCorpus
  /\ typoJob' = [n \in NewNames |-> IF typoJob[n] = "runs" THEN "waits" ELSE typoJob[n]]
  /\ typoTask' = [t \in CheckTasks |-> NoTask]
  /\ UNCHANGED <<typoDb, nameChanges, loadFails, checkedNames, alarms, touched>>

TypoNext ==
  \/ \E n \in NewNames, os \in SUBSET NameOwners : PublishName(n, os)
  \/ \E c \in names, os \in SUBSET NameOwners : ChangeOwners(c, os)
  \/ \E c \in names : DeleteName(c)
  \/ \E c \in fewDownloads : Downloaded(c)
  \/ \E t \in CheckTasks, n \in NewNames : StartCheck(t, n)
  \/ \E t \in CheckTasks : LoadTopCrates(t)
  \/ \E t \in CheckTasks : LoadOwners(t)
  \/ \E t \in CheckTasks : LoadFails(t)
  \/ \E t \in CheckTasks : UseCorpus(t)
  \/ \E t \in CheckTasks : LookUpName(t)
  \/ \E t \in CheckTasks : ReadNewOwners(t)
  \/ \E t \in CheckTasks : CheckName(t)
  \/ \E t \in CheckTasks : CheckFails(t)
  \/ RestartWorker

TypoSpec == TypoInit /\ [][TypoNext]_typoVars

-----------------------------------------------------------------------------

\* Types; at most one task loads the popular crates (OnceCell), and a job runs
\* in one task.
TypoTypeOK ==
  /\ names \subseteq Names /\ fewDownloads \subseteq Names
  /\ ownersOf \in [Names -> SUBSET NameOwners]
  /\ corpus.state \in {"empty", "loading", "ready", "failed", "off"}
  /\ DOMAIN corpus.owners \subseteq Names /\ Cardinality(DOMAIN corpus.owners) =< TopCrates
  /\ typoJob \in [NewNames -> {"none", "waits", "runs", "done"}]
  /\ nameChanges \in 0..MaxNameChanges /\ loadFails \in 0..MaxLoadFails
  /\ Cardinality({t \in CheckTasks : typoTask[t].step = "load"}) = IF corpus.state = "loading" THEN 1 ELSE 0
  /\ \A n \in NewNames :
       Cardinality({t \in CheckTasks : typoTask[t].name = n}) = IF typoJob[n] = "runs" THEN 1 ELSE 0

\* No check is skipped: the job of a new crate ends only after a comparison,
\* however often the load fails, its error is met again, or the process ends;
\* or else the crate was deleted, or nobody wants to be told.
NoneSkipped ==
  \A n \in NewNames : typoJob[n] = "done" => ~ notify \/ n \in checkedNames \/ n \notin names

\* Between two crates that have not changed since the start, each alarm is one
\* about similar names without a common owner, users and teams being told
\* apart.  While no crate at all has changed, or become popular, each such pair
\* has its alarm if the older crate is certainly among the top ones.
SurelyTop(s) ==
  s \notin fewDownloads /\ Cardinality(names \ fewDownloads) =< TopCrates

AlarmsExact ==
  \A n \in checkedNames \ touched, s \in OldNames \ touched :
    LET suspect == Alike(n, s) /\ ownersOf[n] \cap ownersOf[s] = {} IN
    /\ <<n, s>> \in alarms => suspect
    /\ suspect /\ touched = {} /\ SurelyTop(s) => <<n, s>> \in alarms

\* CheckTyposquat: no new crate goes without a check, and what changes nowhere meanwhile has
\* the right alarms.
TypoInv == TypoTypeOK /\ NoneSkipped /\ AlarmsExact
=============================================================================
