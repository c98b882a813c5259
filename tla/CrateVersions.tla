--------------------------- MODULE CrateVersions ----------------------------
(***************************************************************************)
(* The versions of one crate: publish, yank, unyank, the admin tools that  *)
(* yank and delete versions, the deletion of the crate, and the job that   *)
(* recomputes the default version.                                         *)
(*                                                                         *)
(* publish and the deletions are transactions on the crate's rows, which   *)
(* they lock: the trigger on the versions table updates the crate's row of *)
(* default_versions.  A yank is a sequence of statements of their own,     *)
(* each committed at once.  Jobs are counted rows: that a committed change *)
(* always has a row that will see it, and that one run after another       *)
(* brings the git index up to date, is proved in JobQueueProofs.           *)
(***************************************************************************)
EXTENDS Integers, FiniteSetsExt

CONSTANTS
  Versions,    \* version numbers, ordered as semver orders them
  Prerelease,  \* those with a pre-release identifier
  Messages,    \* yank messages
  Jobs,        \* the jobs that are looked at: "default", "index" or both
  Handlers,    \* requests and admin commands at work at a time
  Workers,     \* workers of the queue that runs UpdateDefaultVersion
  MaxRows      \* bound: rows of one job, beyond which none is enqueued

ASSUME CrateVersionsAssumption ==
  /\ Versions \subseteq Nat
  /\ IsFiniteSet(Versions)
  /\ Prerelease \subseteq Versions
  /\ Jobs \subseteq {"default", "index"}
  /\ MaxRows \in Nat \ {0}

None == -1
NoMessage == "no message"

VARIABLES
  krate,        \* "absent", "present" or "deleted"
  versions,     \* the versions in the versions table,
  yanked,       \*   whether they are yanked,
  message,      \*   and their yank_message
  default,      \* the version_id of the crate's row in default_versions,
  numVersions,  \*   and its num_versions
  txn,          \* the open transaction that has the crate's rows locked
  rows,         \* per job: its rows in the queue that no worker has locked
  index,        \* what the index shows: its versions, and which are yanked
  hpc,          \* per handler: "idle", "loaded", "txn", "updated" or "recorded"
  target,       \* per handler: the version it works on
  yank,         \* per handler: the value of yanked it will write
  text,         \* per handler: the yank_message it will write
  todo,         \* per handler: the jobs it has yet to enqueue
  wpc,          \* per worker: "idle", "started", "calculated" or "saved"
  calculated,   \* per worker: the default version it has calculated
  interrupted,  \* history: a handler was lost between its write and its enqueues
  overlapped    \* history: two runs of the default version job have overlapped

table == <<krate, versions, yanked, message, default, numVersions>>
request == <<target, yank, text>>
handlers == <<hpc, request, todo>>
workers == <<wpc, calculated, overlapped>>
vars == <<table, txn, rows, index, handlers, workers, interrupted>>

NoTxn == [op |-> "none", versions |-> {}, default |-> None]

Init ==
  /\ krate = "absent"
  /\ versions = {}
  /\ yanked = [v \in Versions |-> FALSE]
  /\ message = [v \in Versions |-> NoMessage]
  /\ default = None
  /\ numVersions = 0
  /\ txn = NoTxn
  /\ rows = [k \in Jobs |-> 0]
  /\ index = [versions |-> {}, yanked |-> {}]
  /\ hpc = [h \in Handlers |-> "idle"]
  /\ target = [h \in Handlers |-> None]
  /\ yank = [h \in Handlers |-> FALSE]
  /\ text = [h \in Handlers |-> NoMessage]
  /\ todo = [h \in Handlers |-> {}]
  /\ wpc = [w \in Workers |-> "idle"]
  /\ calculated = [w \in Workers |-> None]
  /\ interrupted = FALSE
  /\ overlapped = FALSE

-----------------------------------------------------------------------------
(* The order of versions that decides the default version.                 *)

\* ord_tuple, and the ORDER BY of calculate_default_version: not yanked, then not
\* a pre-release, then the higher number.
Below(v, vYanked, w, wYanked) ==
  \/ vYanked /\ ~wYanked
  \/ /\ vYanked <=> wYanked
     /\ \/ v \in Prerelease /\ w \notin Prerelease
        \/ (v \in Prerelease <=> w \in Prerelease) /\ v < w

\* calculate_default_version, on the versions vs
Calculate(vs) ==
  IF vs = {} THEN None
  ELSE CHOOSE v \in vs : \A w \in vs \ {v} : Below(w, yanked[w], v, yanked[v])

-----------------------------------------------------------------------------
(* The queue.                                                              *)

\* BackgroundJob::enqueue of deduplicated jobs: a row that is there suffices,
\* unless another enqueuer has it locked.
Enqueue(K) ==
  \E new \in SUBSET (K \cap Jobs) :
    /\ \A k \in new : rows[k] < MaxRows
    /\ \A k \in (K \cap Jobs) \ new : rows[k] > 0
    /\ rows' = [k \in Jobs |-> IF k \in new THEN rows[k] + 1 ELSE rows[k]]

-----------------------------------------------------------------------------
(* Transactions on the crate: publish, delete_version, delete_crate.       *)

Lock(h, op, vs, d) ==
  /\ hpc[h] = "idle"
  /\ txn = NoTxn
  /\ txn' = [op |-> op, versions |-> vs, default |-> d]
  /\ hpc' = [hpc EXCEPT ![h] = "txn"]
  /\ UNCHANGED <<table, rows, index, request, todo, workers, interrupted>>

\* The default version a publish of v writes.  The trigger has inserted the row
\* when there was none; otherwise the one that is there is compared with v.
PublishedDefault(v) ==
  IF default = None \/ Below(default, yanked[default], v, FALSE) THEN v ELSE default

\* publish: the new version is inserted and the default version chosen.
Publish(h, v) ==
  /\ krate # "deleted"
  /\ v \notin versions
  /\ Lock(h, "publish", {v}, PublishedDefault(v))

\* delete_version: the versions are deleted and the default version of the others
\* is calculated.  With no other version the deferred foreign key fails and
\* nothing is deleted.
DeleteVersions(h, vs) ==
  /\ krate = "present"
  /\ vs # {} /\ vs # versions
  /\ Lock(h, "delete", vs, Calculate(versions \ vs))

\* The transaction ends without effect.
Rollback(h) ==
  /\ hpc[h] = "txn"
  /\ txn' = NoTxn
  /\ hpc' = [hpc EXCEPT ![h] = "idle"]
  /\ UNCHANGED <<table, rows, index, request, todo, workers, interrupted>>

\* publish commits, with its jobs; the trigger has counted the version.
CommitPublish(h) ==
  /\ hpc[h] = "txn"
  /\ txn.op = "publish"
  /\ krate' = "present"
  /\ versions' = versions \cup txn.versions
  /\ default' = txn.default
  /\ numVersions' = numVersions + 1
  /\ Enqueue(Jobs)
  /\ txn' = NoTxn
  /\ hpc' = [hpc EXCEPT ![h] = "idle"]
  /\ UNCHANGED <<yanked, message, index, request, todo, workers, interrupted>>

\* delete_version commits; it enqueues the index jobs afterwards.
CommitDelete(h) ==
  /\ hpc[h] = "txn"
  /\ txn.op = "delete"
  /\ versions' = versions \ txn.versions
  /\ yanked' = [v \in Versions |-> yanked[v] /\ v \notin txn.versions]
  /\ message' = [v \in Versions |-> IF v \in txn.versions THEN NoMessage ELSE message[v]]
  /\ default' = txn.default
  /\ numVersions' = numVersions - Cardinality(txn.versions)
  /\ txn' = NoTxn
  /\ hpc' = [hpc EXCEPT ![h] = "recorded"]
  /\ todo' = [todo EXCEPT ![h] = Jobs \cap {"index"}]
  /\ UNCHANGED <<krate, rows, index, request, workers, interrupted>>

\* delete_crate: the rows of the crate go by cascade, with their locks held from
\* the first statement to the commit.
DeleteCrate ==
  /\ krate = "present"
  /\ txn = NoTxn
  /\ krate' = "deleted"
  /\ versions' = {}
  /\ yanked' = [v \in Versions |-> FALSE]
  /\ message' = [v \in Versions |-> NoMessage]
  /\ default' = None
  /\ numVersions' = 0
  /\ Enqueue({"index"})
  /\ UNCHANGED <<txn, index, handlers, workers, interrupted>>

\* An UPDATE of the version v finds its row and, for the trigger touch_crate, the
\* row of the crate unlocked.
Unlocked(v) == v \notin txn.versions /\ txn.op # "publish"

\* yank_version of crates-admin: one transaction on a version that was not yanked
\* when it was loaded.
AdminYank(v) ==
  /\ v \in versions
  /\ Unlocked(v)
  /\ yanked' = [yanked EXCEPT ![v] = TRUE]
  /\ Enqueue(Jobs)
  /\ UNCHANGED <<krate, versions, message, default, numVersions, txn, index,
                 handlers, workers, interrupted>>

-----------------------------------------------------------------------------
(* Yank, unyank and update of a version by a request: no transaction.      *)

\* validate_yank_update, on the version as it was loaded
Valid(v, action, m) ==
  m # NoMessage => action = "yank" \/ (action = "none" /\ yanked[v])

\* modify_yank and update_version load the version and check the request; action
\* is what the request says of yanked.
LoadVersion(h, v, action, m) ==
  /\ hpc[h] = "idle"
  /\ v \in versions
  /\ Valid(v, action, m)
  /\ hpc' = [hpc EXCEPT ![h] = "loaded"]
  /\ target' = [target EXCEPT ![h] = v]
  /\ yank' = [yank EXCEPT ![h] = action = "yank" \/ (action = "none" /\ yanked[v])]
  /\ text' = [text EXCEPT ![h] = m]
  /\ UNCHANGED <<table, txn, rows, index, todo, workers, interrupted>>

\* The handler returns, and its variables are gone.
Return(h) ==
  /\ hpc' = [hpc EXCEPT ![h] = "idle"]
  /\ target' = [target EXCEPT ![h] = None]
  /\ yank' = [yank EXCEPT ![h] = FALSE]
  /\ text' = [text EXCEPT ![h] = NoMessage]
  /\ todo' = [todo EXCEPT ![h] = {}]

\* The version is there and its row differs from what the request asks for.
Differs(h) ==
  /\ target[h] \in versions
  /\ yanked[target[h]] # yank[h] \/ message[target[h]] # text[h]

\* perform_version_yank_update: the UPDATE changes a row.
UpdateVersion(h) ==
  /\ hpc[h] = "loaded"
  /\ Differs(h)
  /\ Unlocked(target[h])
  /\ yanked' = [yanked EXCEPT ![target[h]] = yank[h]]
  /\ message' = [message EXCEPT ![target[h]] = text[h]]
  /\ hpc' = [hpc EXCEPT ![h] = "updated"]
  /\ UNCHANGED <<krate, versions, default, numVersions, txn, rows, index, request,
                 todo, workers, interrupted>>

\* perform_version_yank_update: no row changes, so nothing more is done.
UpdateNothing(h) ==
  /\ hpc[h] = "loaded"
  /\ ~Differs(h)
  /\ Return(h)
  /\ UNCHANGED <<table, txn, rows, index, workers, interrupted>>

\* The request is refused, for missing rights or by the rate limit.
Refuse(h) ==
  /\ hpc[h] = "loaded"
  /\ Return(h)
  /\ UNCHANGED <<table, txn, rows, index, workers, interrupted>>

\* Mutant: the default version job is forgotten.
YankJobs_without_default == Jobs \ {"default"}

\* The jobs of perform_version_yank_update.
YankJobs == Jobs

\* perform_version_yank_update: the owner action is inserted.
RecordAction(h) ==
  /\ hpc[h] = "updated"
  /\ hpc' = [hpc EXCEPT ![h] = "recorded"]
  /\ todo' = [todo EXCEPT ![h] = YankJobs]
  /\ UNCHANGED <<table, txn, rows, index, request, workers, interrupted>>

\* One of the enqueues of try_join!, each a statement of its own.
EnqueueNext(h, k) ==
  /\ hpc[h] = "recorded"
  /\ k \in todo[h]
  /\ Enqueue({k})
  /\ todo' = [todo EXCEPT ![h] = @ \ {k}]
  /\ UNCHANGED <<table, txn, index, hpc, request, workers, interrupted>>

HandlerDone(h) ==
  /\ hpc[h] = "recorded"
  /\ todo[h] = {}
  /\ Return(h)
  /\ UNCHANGED <<table, txn, rows, index, workers, interrupted>>

\* The handler is lost after its write: the process dies, the client goes away
\* and the future is dropped, or a statement fails.
Interrupt(h) ==
  /\ hpc[h] \in {"updated", "recorded"}
  /\ Return(h)
  /\ interrupted' = TRUE
  /\ UNCHANGED <<table, txn, rows, index, workers>>

-----------------------------------------------------------------------------
(* The jobs.                                                               *)

\* A worker starts a run of UpdateDefaultVersion.
StartRun(w) ==
  /\ wpc[w] = "idle"
  /\ "default" \in Jobs
  /\ rows["default"] > 0
  /\ rows' = [rows EXCEPT !["default"] = @ - 1]
  /\ wpc' = [wpc EXCEPT ![w] = "started"]
  /\ overlapped' = (overlapped \/ \E u \in Workers \ {w} : wpc[u] # "idle")
  /\ UNCHANGED <<table, txn, index, handlers, calculated, interrupted>>

\* Mutant: the highest version, yanked or not.
CalculateDefault_highest(w) ==
  /\ wpc[w] = "started"
  /\ versions # {}
  /\ wpc' = [wpc EXCEPT ![w] = "calculated"]
  /\ calculated' = [calculated EXCEPT ![w] = Max(versions)]
  /\ UNCHANGED <<table, txn, rows, index, handlers, overlapped, interrupted>>

\* update_default_version: the first statement.
CalculateDefault(w) ==
  /\ wpc[w] = "started"
  /\ versions # {}
  /\ wpc' = [wpc EXCEPT ![w] = "calculated"]
  /\ calculated' = [calculated EXCEPT ![w] = Calculate(versions)]
  /\ UNCHANGED <<table, txn, rows, index, handlers, overlapped, interrupted>>

\* Mutant: no foreign key to the versions table.
SaveDefault_without_key(w) ==
  /\ wpc[w] = "calculated"
  /\ txn = NoTxn
  /\ default' = calculated[w]
  /\ wpc' = [wpc EXCEPT ![w] = "saved"]
  /\ UNCHANGED <<krate, versions, yanked, message, numVersions, txn, rows, index,
                 handlers, calculated, overlapped, interrupted>>

\* update_default_version: the upsert.  It waits for the row lock of an open
\* transaction.
SaveDefault(w) ==
  /\ wpc[w] = "calculated"
  /\ txn = NoTxn
  /\ calculated[w] \in versions
  /\ default' = calculated[w]
  /\ wpc' = [wpc EXCEPT ![w] = "saved"]
  /\ UNCHANGED <<krate, versions, yanked, message, numVersions, txn, rows, index,
                 handlers, calculated, overlapped, interrupted>>

EndRun(w) ==
  /\ wpc' = [wpc EXCEPT ![w] = "idle"]
  /\ calculated' = [calculated EXCEPT ![w] = None]
  /\ UNCHANGED <<table, txn, index, handlers, overlapped, interrupted>>

\* UpdateDefaultVersion::run returns Ok: it has saved the default version and
\* enqueued the image job, or has found no version.
RunOk(w) ==
  /\ \/ wpc[w] = "saved"
     \/ wpc[w] = "started" /\ versions = {}
  /\ UNCHANGED rows
  /\ EndRun(w)

\* The run fails, as it must when the calculated version is gone and its foreign
\* key with it, or its worker dies.  The row is there again.
RunFails(w) ==
  /\ wpc[w] # "idle"
  /\ rows' = [rows EXCEPT !["default"] = @ + 1]
  /\ EndRun(w)

\* What get_index_data makes of the versions.
IndexContent == [versions |-> versions, yanked |-> {v \in versions : yanked[v]}]

\* A successful run of the index job, see IndexSync.
SyncIndex ==
  /\ "index" \in Jobs
  /\ rows["index"] > 0
  /\ rows' = [rows EXCEPT !["index"] = @ - 1]
  /\ index' = IndexContent
  /\ UNCHANGED <<table, txn, handlers, workers, interrupted>>

-----------------------------------------------------------------------------
YankStep(h) ==
  \/ UpdateVersion(h)
  \/ UpdateNothing(h)
  \/ Refuse(h)
  \/ RecordAction(h)
  \/ \E k \in Jobs : EnqueueNext(h, k)
  \/ HandlerDone(h)

HandlerStep(h) ==
  \/ \E v \in Versions : Publish(h, v)
  \/ \E vs \in SUBSET versions : DeleteVersions(h, vs)
  \/ CommitPublish(h) \/ CommitDelete(h) \/ Rollback(h)
  \/ \E v \in Versions, a \in {"yank", "unyank", "none"}, m \in Messages \cup {NoMessage} :
       LoadVersion(h, v, a, m)
  \/ YankStep(h)
  \/ Interrupt(h)

RunStep(w) == StartRun(w) \/ CalculateDefault(w) \/ SaveDefault(w) \/ RunOk(w)

Next ==
  \/ \E h \in Handlers : HandlerStep(h)
  \/ \E w \in Workers : RunStep(w) \/ RunFails(w)
  \/ \E v \in Versions : AdminYank(v)
  \/ DeleteCrate
  \/ SyncIndex

Spec == Init /\ [][Next]_vars

\* The version a run has calculated was deleted: the foreign key fails.
MustFail(w) == wpc[w] = "calculated" /\ calculated[w] \notin versions

\* Requests that have begun and runs go on, and runs do not fail for ever.
FairSpec ==
  /\ Spec
  /\ \A h \in Handlers :
       WF_vars(CommitPublish(h) \/ CommitDelete(h) \/ Rollback(h) \/ YankStep(h))
  /\ \A w \in Workers : WF_vars(RunStep(w)) /\ WF_vars(MustFail(w) /\ RunFails(w))
  /\ <>[][\A w \in Workers : RunFails(w) => MustFail(w)]_vars

-----------------------------------------------------------------------------
\* Rows of the crate, requests and runs have their types; no job has fewer than zero rows.
TypeOK ==
  /\ krate \in {"absent", "present", "deleted"}
  /\ versions \in SUBSET Versions
  /\ yanked \in [Versions -> BOOLEAN]
  /\ message \in [Versions -> Messages \cup {NoMessage}]
  /\ default \in Versions \cup {None}
  /\ numVersions \in Nat
  /\ txn \in [op : {"none", "publish", "delete"}, versions : SUBSET Versions,
              default : Versions \cup {None}]
  /\ rows \in [Jobs -> Nat]
  /\ index \in [versions : SUBSET Versions, yanked : SUBSET Versions]
  /\ hpc \in [Handlers -> {"idle", "loaded", "txn", "updated", "recorded"}]
  /\ target \in [Handlers -> Versions \cup {None}]
  /\ yank \in [Handlers -> BOOLEAN]
  /\ text \in [Handlers -> Messages \cup {NoMessage}]
  /\ todo \in [Handlers -> SUBSET Jobs]
  /\ wpc \in [Workers -> {"idle", "started", "calculated", "saved"}]
  /\ calculated \in [Workers -> Versions \cup {None}]
  /\ interrupted \in BOOLEAN
  /\ overlapped \in BOOLEAN

\* A crate that can be seen has versions, its default version is one of them, and
\* num_versions counts them, whichever handlers and jobs run at the same time.
DefaultRowSound ==
  /\ krate = "present" <=> default # None
  /\ krate = "present" <=> versions # {}
  /\ krate = "present" => default \in versions
  /\ numVersions = Cardinality(versions)

\* validate_yank_update: a version that is not yanked has no yank message, also
\* when it is unyanked between the check of a request and its UPDATE.
MessageOnlyOnYanked ==
  \A v \in Versions : message[v] # NoMessage => v \in versions /\ yanked[v]

\* The rows of versions and default_versions agree, whatever requests, admin commands and
\* runs overlap: a message is only at a yanked version, and the default version of a crate
\* is one of its versions.
RowsSound == TypeOK /\ MessageOnlyOnYanked /\ DefaultRowSound

HandlersIdle == txn = NoTxn /\ \A h \in Handlers : hpc[h] = "idle"

\* Nothing is under way that could still change the default version.
DefaultQuiet ==
  /\ HandlersIdle
  /\ "default" \in Jobs /\ rows["default"] = 0
  /\ \A w \in Workers : wpc[w] = "idle"

\* When all is quiet the default version is the best one, unless a yank was
\* interrupted or two runs of the job have overlapped: no other interleaving of
\* publishes, yanks, deletions and runs leaves an outdated one.
DefaultSettles ==
  DefaultQuiet /\ ~interrupted /\ ~overlapped => default = Calculate(versions)

\* When all is quiet the index shows the versions as they are, unless a handler
\* was interrupted between its write and its enqueues.
IndexSettles ==
  HandlersIdle /\ "index" \in Jobs /\ rows["index"] = 0 /\ ~interrupted
  => index = IndexContent

\* Once no handler and no job is left, default_versions and the index are what the
\* versions say, unless a handler was interrupted or two runs overlapped.
VersionsSettle == DefaultSettles /\ IndexSettles

\* UpdateDefaultVersion: once requests cease, the default version becomes the best
\* one and stays so, with the same exceptions.
DefaultCatchesUp ==
  <>[]HandlersIdle => <>[](interrupted \/ overlapped \/ default = Calculate(versions))
=============================================================================
