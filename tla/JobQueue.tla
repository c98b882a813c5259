------------------------------ MODULE JobQueue ------------------------------
(***************************************************************************)
(* The PostgreSQL-backed job queue of crates_io_worker: the table          *)
(* background_jobs with its row locks, the transactions that enqueue jobs, *)
(* and the worker tasks that poll, run, delete and retry them.             *)
(*                                                                         *)
(* The database is used at READ COMMITTED: a statement sees committed rows *)
(* and the rows of its own transaction; FOR UPDATE locks a row until the   *)
(* end of the transaction; SKIP LOCKED passes over the rows other          *)
(* transactions have locked.  Time is counted in minutes, as in the        *)
(* backoff, and kept as elapsed time so that no absolute clock is needed.  *)
(***************************************************************************)
EXTENDS Integers, FiniteSets

CONSTANTS
  Workers,        \* the tasks Runner::start spawns, in every worker process
  Clients,        \* the other connections, whose transactions enqueue jobs
  Kinds,          \* the (job_type, data, priority) triples of the jobs
  Deduplicated,   \* the kinds whose job type sets DEDUPLICATED
  Registered,     \* Registered[w]: the kinds worker w's queue has registered
  Priority,       \* Priority[k]: a higher number runs first
  Healthy,        \* the kinds whose failures are transient (for liveness)
  MaxId,          \* bound: ids the table's sequence hands out
  MaxRetries,     \* bound: retries saturates here
  MaxRun,         \* bound: minutes a run may take
  AgeCap,         \* bound: ages saturate here, past the longest backoff
  ShutdownWhenQueueEmpty,
  Nobody          \* the holder of a row that is not locked

ASSUME BoundsAssumption ==
  /\ MaxId \in Nat
  /\ MaxRetries \in Nat
  /\ AgeCap \in Nat
  /\ MaxRun \in Nat

ASSUME BackoffAssumption ==
  /\ AgeCap > 2 ^ MaxRetries
  /\ MaxRun <= 2 ^ MaxRetries

ASSUME KindsAssumption ==
  /\ Kinds # {}
  /\ Deduplicated \subseteq Kinds
  /\ Healthy \subseteq Kinds
  /\ Registered \in [Workers -> SUBSET Kinds]
  /\ Priority \in [Kinds -> Int]
  /\ ShutdownWhenQueueEmpty \in BOOLEAN

ASSUME HoldersAssumption ==
  /\ Workers \cap Clients = {}
  /\ Nobody \notin Workers \cup Clients

Ids == 1 .. MaxId

VARIABLES
  state,      \* per id: "none", "new" (inserted, not committed) or "live"
  kind,       \* per id: the job's kind
  retries,    \* per id
  age,        \* per id: minutes since last_retry
  lock,       \* per id: the transaction that has the row locked
  nextId,     \* the table's id sequence; a rolled back id is not reused
  pc,         \* per worker: where run_next_job is
  job,        \* per worker: the id of the job it runs (0: none yet)
  elapsed,    \* per worker: minutes since its transaction began
  connected,  \* per worker: its database session is still alive
  missed,     \* per worker: a change it should act on came after it read
  changed,    \* per client: kinds whose input its open transaction changed
  enqueued,   \* per client: kinds its open transaction enqueued a job of
  unseen      \* kinds with a committed change no successful run has read

rowVars    == <<state, kind, retries, age, lock, nextId>>
workerVars == <<pc, job, elapsed, connected, missed>>
clientVars == <<changed, enqueued>>
vars == <<rowVars, workerVars, clientVars, unseen>>

Steps == {"idle", "started", "read", "ok", "err", "stopped"}
Running == {"started", "read", "ok", "err"}

AtMost(n, cap) == IF n < cap THEN n ELSE cap

Init ==
  /\ state = [i \in Ids |-> "none"]
  /\ kind = [i \in Ids |-> CHOOSE k \in Kinds : TRUE]
  /\ retries = [i \in Ids |-> 0]
  /\ age = [i \in Ids |-> 0]
  /\ lock = [i \in Ids |-> Nobody]
  /\ nextId = 1
  /\ pc = [w \in Workers |-> "idle"]
  /\ job = [w \in Workers |-> 0]
  /\ elapsed = [w \in Workers |-> 0]
  /\ connected = [w \in Workers |-> TRUE]
  /\ missed = [w \in Workers |-> FALSE]
  /\ changed = [c \in Clients |-> {}]
  /\ enqueued = [c \in Clients |-> {}]
  /\ unseen = {}

-----------------------------------------------------------------------------
(* Enqueuing, inside a client's transaction.                               *)

\* A client's transaction changes data that jobs of the kinds K act on.
Change(c, K) ==
  /\ changed' = [changed EXCEPT ![c] = @ \cup K]
  /\ UNCHANGED <<rowVars, workerVars, enqueued, unseen>>

\* INSERT of one row.  last_retry defaults to 1970, so the row is ready at once.
Insert(c, k) ==
  /\ nextId \in Ids
  /\ nextId' = nextId + 1
  /\ state' = [state EXCEPT ![nextId] = "new"]
  /\ kind' = [kind EXCEPT ![nextId] = k]
  /\ age' = [age EXCEPT ![nextId] = AgeCap]
  /\ lock' = [lock EXCEPT ![nextId] = c]
  /\ UNCHANGED retries

\* Mutant: a subquery without SKIP LOCKED that also counts the running jobs.
Similar_counting_running(c, k) ==
  {i \in Ids : kind[i] = k /\ state[i] = "live"}

\* The rows the subquery of enqueue_deduplicated returns to transaction c: the
\* visible rows of kind k that no other transaction has locked.
Similar(c, k) ==
  {i \in Ids : /\ kind[i] = k
               /\ state[i] = "live" \/ (state[i] = "new" /\ lock[i] = c)
               /\ lock[i] \in {Nobody, c}}

EnqueueSimple(c, k) ==
  /\ k \notin Deduplicated
  /\ Insert(c, k)
  /\ enqueued' = [enqueued EXCEPT ![c] = @ \cup {k}]
  /\ UNCHANGED <<workerVars, changed, unseen>>

\* Mutant: the subquery has lost its FOR UPDATE.
LockSimilar_without_for_update(c, i) == UNCHANGED lock

\* The row lock of FOR UPDATE, which is kept until the transaction of c ends.
LockSimilar(c, i) == lock' = [lock EXCEPT ![i] = c]

\* EXISTS stops at the first similar row.
EnqueueDeduplicated(c, k) ==
  /\ k \in Deduplicated
  /\ \/ /\ Similar(c, k) = {}
        /\ Insert(c, k)
     \/ \E i \in Similar(c, k) :
          /\ LockSimilar(c, i)
          /\ UNCHANGED <<state, kind, retries, age, nextId>>
  /\ enqueued' = [enqueued EXCEPT ![c] = @ \cup {k}]
  /\ UNCHANGED <<workerVars, changed, unseen>>

\* The rows that client c's transaction inserted.
Inserted(c) == {i \in Ids : state[i] = "new" /\ lock[i] = c}

\* The end of client c's transaction, whose new rows become "live" or vanish.
EndTransaction(c, outcome) ==
  /\ state' = [i \in Ids |-> IF i \in Inserted(c) THEN outcome ELSE state[i]]
  /\ lock' = [i \in Ids |-> IF lock[i] = c THEN Nobody ELSE lock[i]]
  /\ changed' = [changed EXCEPT ![c] = {}]
  /\ enqueued' = [enqueued EXCEPT ![c] = {}]
  /\ UNCHANGED <<kind, retries, age, nextId, pc, job, elapsed, connected>>

\* The handlers commit only after they enqueued a job for everything they
\* changed.  A run that has read its input already misses the change.
Commit(c) ==
  /\ enqueued[c] # {}
  /\ changed[c] \subseteq enqueued[c]
  /\ EndTransaction(c, "live")
  /\ unseen' = unseen \cup changed[c]
  /\ missed' = [w \in Workers |->
                  \/ missed[w]
                  \/ pc[w] \in {"read", "ok"} /\ kind[job[w]] \in changed[c]]

\* The handler returns an error, or its process or connection dies.
Rollback(c) ==
  /\ changed[c] # {} \/ enqueued[c] # {}
  /\ EndTransaction(c, "none")
  /\ UNCHANGED <<missed, unseen>>

-----------------------------------------------------------------------------
(* The workers.                                                            *)

\* Mutant: no backoff.
Retriable_always(i) == TRUE

Retriable(i) == age[i] > 2 ^ retries[i]

\* The rows find_next_unlocked_job can return to worker w, and their order.
Ready(w) ==
  {i \in Ids : /\ state[i] = "live"
               /\ lock[i] = Nobody
               /\ kind[i] \in Registered[w]
               /\ Retriable(i)}

Before(i, j) ==
  \/ Priority[kind[i]] > Priority[kind[j]]
  \/ Priority[kind[i]] = Priority[kind[j]] /\ i <= j

\* run_next_job opens its transaction, finds the next job and locks it.
StartJob(w, i) ==
  /\ pc[w] = "idle"
  /\ i \in Ready(w)
  /\ \A j \in Ready(w) : Before(i, j)
  /\ lock' = [lock EXCEPT ![i] = w]
  /\ pc' = [pc EXCEPT ![w] = "started"]
  /\ job' = [job EXCEPT ![w] = i]
  /\ elapsed' = [elapsed EXCEPT ![w] = 0]
  /\ connected' = [connected EXCEPT ![w] = TRUE]
  /\ missed' = [missed EXCEPT ![w] = FALSE]
  /\ UNCHANGED <<state, kind, retries, age, nextId, clientVars, unseen>>

\* No job to run: the worker polls again later, or it ends when asked to.
ShutDown(w) ==
  /\ pc[w] = "idle"
  /\ Ready(w) = {}
  /\ ShutdownWhenQueueEmpty
  /\ pc' = [pc EXCEPT ![w] = "stopped"]
  /\ UNCHANGED <<rowVars, job, elapsed, connected, missed, clientVars, unseen>>

\* The body of the job reads, on another connection, the data it acts on.
ReadInput(w) ==
  /\ pc[w] = "started"
  /\ pc' = [pc EXCEPT ![w] = "read"]
  /\ UNCHANGED <<rowVars, job, elapsed, connected, missed, clientVars, unseen>>

\* The body, whose effects are outside the transaction, returns Ok.
BodyOk(w) ==
  /\ pc[w] = "read"
  /\ pc' = [pc EXCEPT ![w] = "ok"]
  /\ UNCHANGED <<rowVars, job, elapsed, connected, missed, clientVars, unseen>>

\* The body returns an error or panics, at any point.
BodyErr(w) ==
  /\ pc[w] \in {"started", "read"}
  /\ pc' = [pc EXCEPT ![w] = "err"]
  /\ UNCHANGED <<rowVars, job, elapsed, connected, missed, clientVars, unseen>>

Unlock(w) == lock' = [lock EXCEPT ![job[w]] = Nobody]

Finish(w) ==
  /\ pc' = [pc EXCEPT ![w] = "idle"]
  /\ job' = [job EXCEPT ![w] = 0]
  /\ elapsed' = [elapsed EXCEPT ![w] = 0]
  /\ connected' = [connected EXCEPT ![w] = TRUE]
  /\ missed' = [missed EXCEPT ![w] = FALSE]

\* Mutant: the result of a run that panicked is dropped.
RunSucceeded_or_failed(w) == pc[w] \in {"ok", "err"}

\* The Ok arm of the match on the result of a run.
RunSucceeded(w) == pc[w] = "ok"

\* delete_successful_job and the commit of the worker's transaction.
DeleteSuccessfulJob(w) ==
  /\ RunSucceeded(w)
  /\ connected[w]
  /\ state' = [state EXCEPT ![job[w]] = "none"]
  /\ retries' = [retries EXCEPT ![job[w]] = 0]
  /\ age' = [age EXCEPT ![job[w]] = 0]
  /\ Unlock(w)
  /\ unseen' = IF missed[w] THEN unseen ELSE unseen \ {kind[job[w]]}
  /\ Finish(w)
  /\ UNCHANGED <<kind, nextId, clientVars>>

\* Mutants: retries is not counted, or counted the wrong way.
BumpRetries_forgotten(i) == UNCHANGED retries

BumpRetries(i) == retries' = [retries EXCEPT ![i] = AtMost(@ + 1, MaxRetries)]

\* update_failed_job and the commit.  SQL's now() is the time the transaction
\* began, so last_retry is when the failed run was started.
UpdateFailedJob(w) ==
  /\ pc[w] = "err"
  /\ connected[w]
  /\ BumpRetries(job[w])
  /\ age' = [age EXCEPT ![job[w]] = elapsed[w]]
  /\ Unlock(w)
  /\ Finish(w)
  /\ UNCHANGED <<state, kind, nextId, clientVars, unseen>>

\* The worker process dies, or a statement or the commit fails: the database
\* rolls back, and the row is as it was before the run.
Abort(w) ==
  /\ pc[w] \in Running
  /\ connected[w]
  /\ Unlock(w)
  /\ Finish(w)
  /\ UNCHANGED <<state, kind, retries, age, nextId, clientVars, unseen>>

\* The session of a running job's transaction is lost (a failover, a broken
\* connection): the lock is gone, and the body runs on without knowing.
LoseConnection(w) ==
  /\ pc[w] \in Running
  /\ connected[w]
  /\ Unlock(w)
  /\ connected' = [connected EXCEPT ![w] = FALSE]
  /\ UNCHANGED <<state, kind, retries, age, nextId, pc, job, elapsed, missed,
                 clientVars, unseen>>

\* The body has ended; deleting or updating the row fails for want of a session.
NoticeLoss(w) ==
  /\ pc[w] \in {"ok", "err"}
  /\ ~connected[w]
  /\ Finish(w)
  /\ UNCHANGED <<rowVars, clientVars, unseen>>

-----------------------------------------------------------------------------
\* A minute passes.  No run takes longer than MaxRun.
Tick ==
  /\ \A w \in Workers : pc[w] \in Running => elapsed[w] < MaxRun
  /\ age' = [i \in Ids |-> IF state[i] = "none" THEN age[i]
                           ELSE AtMost(age[i] + 1, AgeCap)]
  /\ elapsed' = [w \in Workers |-> IF pc[w] \in Running THEN elapsed[w] + 1
                                   ELSE elapsed[w]]
  /\ UNCHANGED <<state, kind, retries, lock, nextId, pc, job, connected, missed,
                 clientVars, unseen>>

ClientNext(c) ==
  \/ \E K \in SUBSET Kinds : Change(c, K)
  \/ \E k \in Kinds : EnqueueSimple(c, k) \/ EnqueueDeduplicated(c, k)
  \/ Commit(c)
  \/ Rollback(c)

WorkerNext(w) ==
  \/ \E i \in Ids : StartJob(w, i)
  \/ ShutDown(w)
  \/ ReadInput(w)
  \/ BodyOk(w)
  \/ BodyErr(w)
  \/ DeleteSuccessfulJob(w)
  \/ UpdateFailedJob(w)
  \/ Abort(w)
  \/ LoseConnection(w)
  \/ NoticeLoss(w)

Next ==
  \/ \E c \in Clients : ClientNext(c)
  \/ \E w \in Workers : WorkerNext(w)
  \/ Tick

Spec == Init /\ [][Next]_vars

-----------------------------------------------------------------------------
\* What the scheduling gives.  Time passes; a transaction ends; an idle worker
\* polls every poll_interval; the tokio task of a run makes progress and the
\* run ends.  A worker polls for ever, so a row that is again and again ready
\* and first in its order is picked at some point (strong fairness).
SchedulingFairness ==
  /\ WF_vars(Tick)
  /\ \A c \in Clients : WF_vars(Commit(c) \/ Rollback(c))
  /\ \A w \in Workers : /\ WF_vars(ReadInput(w))
                        /\ WF_vars(BodyOk(w) \/ BodyErr(w))
                        /\ WF_vars(NoticeLoss(w))
                        /\ WF_vars(\/ DeleteSuccessfulJob(w)
                                   \/ UpdateFailedJob(w)
                                   \/ Abort(w))
  /\ \A i \in Ids : SF_vars(\E w \in Workers : StartJob(w, i))

\* The failures of healthy kinds are transient: a job that is run again and
\* again at some point returns Ok with its session alive, and at some point its
\* deletion commits.  Other jobs may fail for ever.
TransientFailures ==
  \A i \in Ids :
    /\ SF_vars(\E w \in Workers : /\ job[w] = i
                                  /\ kind[i] \in Healthy
                                  /\ connected[w]
                                  /\ ReadInput(w))
    /\ SF_vars(\E w \in Workers : /\ job[w] = i
                                  /\ kind[i] \in Healthy
                                  /\ connected[w]
                                  /\ BodyOk(w))
    /\ SF_vars(\E w \in Workers : /\ job[w] = i
                                  /\ kind[i] \in Healthy
                                  /\ DeleteSuccessfulJob(w))

\* A run that ends in a crash or a failed commit is started again at once, with
\* retries as before: a job that always kills its worker would run for ever.
CrashesStop == <>[][\A w \in Workers : ~Abort(w) /\ ~LoseConnection(w)]_vars

SchedulingSpec == Spec /\ SchedulingFairness
FairSpec == SchedulingSpec /\ CrashesStop /\ TransientFailures

-----------------------------------------------------------------------------
\* Rows, locks, runs and transactions have their types; retries is never negative.
TypeOK ==
  /\ state \in [Ids -> {"none", "new", "live"}]
  /\ kind \in [Ids -> Kinds]
  /\ retries \in [Ids -> Nat]
  /\ age \in [Ids -> Nat]
  /\ lock \in [Ids -> Workers \cup Clients \cup {Nobody}]
  /\ nextId \in 1 .. MaxId + 1
  /\ pc \in [Workers -> Steps]
  /\ job \in [Workers -> Ids \cup {0}]
  /\ elapsed \in [Workers -> Nat]
  /\ connected \in [Workers -> BOOLEAN]
  /\ missed \in [Workers -> BOOLEAN]
  /\ changed \in [Clients -> SUBSET Kinds]
  /\ enqueued \in [Clients -> SUBSET Kinds]
  /\ unseen \subseteq Kinds

\* Row i is being run by a worker that will delete it without having read a
\* change that was committed meanwhile.
ReadTooEarly(i) ==
  \E w \in Workers : /\ lock[i] = w
                     /\ pc[w] \in {"read", "ok"}
                     /\ missed[w]

\* No lost wake-up: while a committed change waits to be acted on, the table
\* holds a job of its kind whose run will read it.  It is what the row lock that
\* enqueue_deduplicated keeps on the row it found, and its skipping of rows that
\* workers have locked, are for.
NoLostWakeup ==
  \A k \in unseen :
    \E i \in Ids : /\ state[i] = "live"
                   /\ kind[i] = k
                   /\ ~ReadTooEarly(i)

\* Two workers whose sessions are alive never run the same job: the row lock
\* taken by find_next_unlocked_job excludes the others until the run is over.
RunsExclude ==
  \A v, w \in Workers :
    /\ v # w
    /\ pc[v] \in Running /\ connected[v]
    /\ pc[w] \in Running /\ connected[w]
    => job[v] # job[w]

\* What BackgroundJob::enqueue and Worker::run_next_job keep true of background_jobs: no
\* committed change is left without a job that will read it, and workers with live
\* sessions run different jobs.
QueueInv == TypeOK /\ NoLostWakeup /\ RunsExclude

\* A committed job leaves the table only when a run of it returned Ok: no
\* failure, panic, crash, lost session or rolled back enqueue removes it.
OnlySuccessRemoves ==
  [][\A i \in Ids :
       state[i] = "live" /\ state'[i] # "live" =>
         \E w \in Workers : job[w] = i /\ pc[w] = "ok" /\ pc'[w] = "idle"]_vars

\* Every committed change of a healthy kind is acted on by a run that read it,
\* however enqueuers, retries, crashes and lost sessions interleave, and even
\* while jobs of a higher priority fail for ever: the backoff of retriable makes
\* room for it.
ChangesAreSeen == \A k \in Healthy : k \in unseen ~> k \notin unseen

\* failed_job_count counts these.
FailedJobs == {i \in Ids : state[i] = "live" /\ retries[i] > 0}

\* When the last worker shuts down because its queue is empty, every job that is
\* left has failed before or belongs to a transaction that is still open, so that
\* wait_for_shutdown followed by check_for_failed_jobs misses no job.
DrainedOnShutdown ==
  [][(\A w \in Workers : pc'[w] = "stopped") /\ pc' # pc =>
       \A i \in Ids : state[i] = "live" => \/ i \in FailedJobs
                                          \/ lock[i] \in Clients]_vars
=============================================================================
