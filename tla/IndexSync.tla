----------------------------- MODULE IndexSync ------------------------------
(***************************************************************************)
(* The index jobs on top of the job queue: handlers change a crate and     *)
(* enqueue SyncToGitIndex and SyncToSparseIndex in one transaction; a run  *)
(* of a job reads the crate from the database, later writes what it read   *)
(* to the index, and then returns.                                         *)
(*                                                                         *)
(* One crate is modelled: jobs of different crates are different kinds and *)
(* write different files.  The content of an index file is abstracted to   *)
(* the number of changes the database had committed when it was read.      *)
(***************************************************************************)
EXTENDS JobQueue

CONSTANTS
  SyncToGitIndex,      \* the kind of the crate's git index job
  SyncToSparseIndex,   \* the kind of its sparse index job
  GitWorker,           \* the only worker of the "repository" queue
  MaxChanges           \* bound: changes to the crate

ASSUME IndexKindsAssumption ==
  /\ Kinds \subseteq {SyncToGitIndex, SyncToSparseIndex}
  /\ Deduplicated = Kinds
  /\ GitWorker \in Workers
  /\ \A w \in Workers : SyncToGitIndex \in Registered[w] => w = GitWorker
  /\ MaxChanges \in Nat
  /\ SyncToGitIndex # SyncToSparseIndex

\* What a worker that has not read any crate yet has read.
Unread == -1

VARIABLES
  db,       \* per kind: the committed changes to what the job acts on
  index,    \* per kind: the state of the crate its index file shows
  content,  \* per worker: what get_index_data returned to its run
  written   \* per worker: its run has written the index file

indexVars == <<db, index, content, written>>
syncVars == <<vars, indexVars>>

SyncInit ==
  /\ Init
  /\ db = [k \in Kinds |-> 0]
  /\ index = [k \in Kinds |-> 0]
  /\ content = [w \in Workers |-> Unread]
  /\ written = [w \in Workers |-> FALSE]

\* The statements of a handler's transaction on the crate.  Every change is a
\* change to the input of both index jobs.
ChangeCrate(c) ==
  /\ \A k \in Kinds : db[k] < MaxChanges
  /\ Change(c, Kinds)
  /\ UNCHANGED indexVars

\* SyncToGitIndex::new(..).enqueue, SyncToSparseIndex::new(..).enqueue
EnqueueSync(c, k) ==
  /\ EnqueueDeduplicated(c, k)
  /\ UNCHANGED indexVars

CommitChange(c) ==
  /\ Commit(c)
  /\ db' = [k \in Kinds |-> IF k \in changed[c] THEN db[k] + 1 ELSE db[k]]
  /\ UNCHANGED <<index, content, written>>

RollbackChange(c) ==
  /\ Rollback(c)
  /\ UNCHANGED indexVars

\* get_index_data
ReadCrate(w) ==
  /\ ReadInput(w)
  /\ content' = [content EXCEPT ![w] = db[kind[job[w]]]]
  /\ written' = [written EXCEPT ![w] = FALSE]
  /\ UNCHANGED <<db, index>>

\* Mutant: the entry is removed in a commit of its own before it is written.
WriteIndex_removing(w) ==
  /\ pc[w] = "read"
  /\ ~written[w]
  /\ \E removed \in BOOLEAN :
       /\ index' = [index EXCEPT ![kind[job[w]]] = IF removed THEN 0 ELSE content[w]]
       /\ written' = [written EXCEPT ![w] = ~removed]
  /\ UNCHANGED <<vars, db, content>>

\* The commit to the git index is pushed, or sync_index puts or deletes the file
\* in the sparse index.
WriteIndex(w) ==
  /\ pc[w] = "read"
  /\ ~written[w]
  /\ index' = [index EXCEPT ![kind[job[w]]] = content[w]]
  /\ written' = [written EXCEPT ![w] = TRUE]
  /\ UNCHANGED <<vars, db, content>>

\* Mutant: the run does not wait for the write.
SyncOk_before_write(w) ==
  /\ BodyOk(w)
  /\ UNCHANGED indexVars

\* The run returns Ok after it has written; it may also fail after it has
\* written, when the CDN paths cannot be queued.
SyncOk(w) ==
  /\ written[w]
  /\ BodyOk(w)
  /\ UNCHANGED indexVars

\* The other steps of workers leave database and indexes alone.
QueueStep(w) ==
  /\ \/ \E i \in Ids : StartJob(w, i)
     \/ BodyErr(w)
     \/ DeleteSuccessfulJob(w)
     \/ UpdateFailedJob(w)
     \/ Abort(w)
     \/ LoseConnection(w)
     \/ NoticeLoss(w)
  /\ UNCHANGED indexVars

SyncTick == Tick /\ UNCHANGED indexVars

HandlerNext(c) ==
  \/ ChangeCrate(c)
  \/ \E k \in Kinds : EnqueueSync(c, k)
  \/ CommitChange(c)
  \/ RollbackChange(c)

RunNext(w) == ReadCrate(w) \/ WriteIndex(w) \/ SyncOk(w) \/ QueueStep(w)

SyncNext ==
  \/ \E c \in Clients : HandlerNext(c)
  \/ \E w \in Workers : RunNext(w)
  \/ SyncTick

SyncSpec == SyncInit /\ [][SyncNext]_syncVars

\* The fairness of the queue, and of the writes of a run.
SyncFairness ==
  /\ SchedulingFairness
  /\ TransientFailures
  /\ CrashesStop
  /\ \A w \in Workers : WF_syncVars(WriteIndex(w))

SyncFairSpec == SyncSpec /\ SyncFairness

-----------------------------------------------------------------------------
\* A run has read nothing, or a state of the crate that get_index_data returned.
SyncTypeOK ==
  /\ TypeOK
  /\ db \in [Kinds -> Nat]
  /\ index \in [Kinds -> Nat]
  /\ content \in [Workers -> Nat \cup {Unread}]
  /\ written \in [Workers -> BOOLEAN]

\* Once every change has been seen by a successful run, the git index shows the
\* crate as it is in the database, whatever failed or was repeated before.
GitIndexCurrent ==
  SyncToGitIndex \notin unseen => index[SyncToGitIndex] = db[SyncToGitIndex]

\* What the handlers and SyncToGitIndex keep true together: the git index is the
\* database unless a change still waits for a run.
SyncInv == SyncTypeOK /\ GitIndexCurrent

\* The git index implements the abstract copy: it never goes back to an older
\* state of the crate and never shows one that was not committed.
GitCopy == INSTANCE IndexCopy WITH source <- db[SyncToGitIndex],
                                   copy <- index[SyncToGitIndex]
GitIndexIsCopy == GitCopy!Spec

\* The git index is current again and again, so every change reaches it or is
\* overtaken by a later one that does.
GitIndexCatchesUp == []<>(index[SyncToGitIndex] = db[SyncToGitIndex])
=============================================================================
