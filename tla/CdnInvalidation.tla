-------------------------- MODULE CdnInvalidation ---------------------------
(***************************************************************************)
(* How the caches of the CDNs learn that a file in storage has changed.    *)
(*                                                                         *)
(* Three kinds of jobs change files.  SyncToSparseIndex and the jobs that  *)
(* write feeds and images purge Fastly and queue the path for CloudFront   *)
(* themselves; DeleteCrateFromStorage leaves both to an InvalidateCdns     *)
(* job.  Queued paths are rows of cloudfront_invalidation_queue, which the *)
(* only worker of the "cloudfront" queue sends in batches.                 *)
(*                                                                         *)
(* The content of a file is a number; an edge cache holds the content it   *)
(* fetched last.  A job whose run fails or whose worker is lost is run     *)
(* again: its row waits.                                                   *)
(***************************************************************************)
EXTENDS Integers, FiniteSets

CONSTANTS
  IndexPaths,    \* files of the sparse index, written by SyncToSparseIndex
  DerivedPaths,  \* RSS feeds and OG images
  CratePaths,    \* the files of one crate, deleted by DeleteCrateFromStorage
  BatchSize,     \* BATCH_SIZE
  MaxAttempts,   \* MAX_RETRIES
  MaxContent,    \* bound: contents of one file
  MaxChanged,    \* bound: files that change
  MaxFailures    \* bound: failed runs and lost workers

ASSUME CdnAssumption ==
  /\ BatchSize \in Nat \ {0}
  /\ MaxAttempts \in Nat \ {0}
  /\ MaxContent \in Nat \ {0} /\ MaxChanged \in Nat /\ MaxFailures \in Nat
  /\ IsFiniteSet(CratePaths)
  /\ IndexPaths \cap DerivedPaths = {}
  /\ CratePaths \cap (IndexPaths \cup DerivedPaths) = {}

Paths == IndexPaths \cup DerivedPaths \cup CratePaths
Cdns == {"cloudfront", "fastly"}
None == -1
Gone == 0

VARIABLES
  wanted,    \* per path: the content the database asks for
  origin,    \* per path: the content in storage
  edge,      \* per CDN and path: the content in its caches, or None
  due,       \* per path: its job waits in the background_jobs table
  writer,    \* per path: the progress of the run of its job
  cdnJobs,   \* the InvalidateCdns jobs that wait: sets of paths
  cdnRun,    \* the run of an InvalidateCdns job
  items,     \* the rows of cloudfront_invalidation_queue
  nextItem,  \* the id of the next row
  process,   \* ProcessCloudfrontInvalidationQueue: whether a job waits, its run, and
             \*   (history) whether an enqueue was given up since the last one
  failures,  \* failed runs so far
  lost       \* history: paths whose invalidation a job has given up

files == <<wanted, origin, edge>>
jobs == <<due, writer, cdnJobs, cdnRun>>
queue == <<items, nextItem>>
cdnVars == <<files, jobs, queue, process, failures, lost>>

NoRun == [pc |-> "idle", paths |-> {}]
NoBatch == [pc |-> "idle", dist |-> "Index", batch |-> {}, attempt |-> 0]

CdnInit ==
  /\ wanted = [p \in Paths |-> 1]
  /\ origin = [p \in Paths |-> 1]
  /\ edge = [c \in Cdns |-> [p \in Paths |-> 1]]
  /\ due = [p \in Paths |-> FALSE]
  /\ writer = [p \in Paths |-> "idle"]
  /\ cdnJobs = {}
  /\ cdnRun = NoRun
  /\ items = {}
  /\ nextItem = 1
  /\ process = [waits |-> FALSE, run |-> NoBatch, missed |-> FALSE]
  /\ failures = 0
  /\ lost = {}

-----------------------------------------------------------------------------
(* The queue of paths.                                                     *)

\* CloudFrontDistribution, and the distribution each job queues its paths for
Distribution(p) == IF p \in IndexPaths THEN "Index" ELSE "Static"

\* CloudFrontInvalidationQueueItem::queue_paths
QueuePaths(ps) ==
  /\ \E ids \in [ps -> nextItem..(nextItem + Cardinality(ps) - 1)] :
       /\ \A p, q \in ps : ids[p] = ids[q] => p = q
       /\ items' = items \cup {[id |-> ids[p], path |-> p] : p \in ps}
  /\ nextItem' = nextItem + Cardinality(ps)

\* ProcessCloudfrontInvalidationQueue.enqueue: a waiting job suffices, one that
\* runs does not
EnqueueProcess == process' = [process EXCEPT !.waits = TRUE, !.missed = FALSE]

\* CloudFrontInvalidationQueueItem::fetch_batch: the oldest BatchSize rows
FetchBatch(d) ==
  LET own == {i \in items : Distribution(i.path) = d}
  IN {i \in own : Cardinality({j \in own : j.id < i.id}) < BatchSize}

\* Fastly::purge_both_domains, CloudFront::invalidate_many: the caches drop the paths
Purged(c, ps) == [edge EXCEPT ![c] = [p \in Paths |-> IF p \in ps THEN None ELSE @[p]]]

\* A run fails, or its worker is lost; its job is run again.
Fail ==
  /\ failures < MaxFailures
  /\ failures' = failures + 1

-----------------------------------------------------------------------------
(* The jobs that change files.                                             *)

\* A handler changes what a file is made from, or deletes the crate, and enqueues
\* the job that brings the file up to date.
ChangeContent(p) ==
  /\ p \in CratePaths => wanted[p] # Gone
  /\ wanted[p] < MaxContent
  /\ wanted[p] # 1 \/ Cardinality({q \in Paths : wanted[q] # 1}) < MaxChanged
  /\ wanted' = IF p \in CratePaths
               THEN [q \in Paths |-> IF q \in CratePaths THEN Gone ELSE wanted[q]]
               ELSE [wanted EXCEPT ![p] = @ + 1]
  /\ due' = [q \in Paths |-> due[q] \/ q = p \/ (p \in CratePaths /\ q \in CratePaths)]
  /\ UNCHANGED <<origin, edge, writer, cdnJobs, cdnRun, queue, process, failures, lost>>

\* A run of SyncToSparseIndex, a feed job or GenerateOgImage writes the file.
Write(p) ==
  /\ p \notin CratePaths
  /\ due[p] /\ writer[p] = "idle"
  /\ origin' = [origin EXCEPT ![p] = wanted[p]]
  /\ due' = [due EXCEPT ![p] = FALSE]
  /\ writer' = [writer EXCEPT ![p] = "wrote"]
  /\ UNCHANGED <<wanted, edge, cdnJobs, cdnRun, queue, process, failures, lost>>

\* The index job purges Fastly before it queues the path, the jobs of feeds and
\* images after they have enqueued the processing job.  An error is only logged.
PurgeFastly(p) ==
  /\ writer[p] = IF p \in IndexPaths THEN "wrote" ELSE "scheduled"
  /\ \/ edge' = Purged("fastly", {p}) /\ UNCHANGED lost
     \/ lost' = lost \cup {<<"fastly", p>>} /\ UNCHANGED edge
  /\ writer' = [writer EXCEPT ![p] = IF p \in IndexPaths THEN "purged" ELSE "idle"]
  /\ UNCHANGED <<wanted, origin, due, cdnJobs, cdnRun, queue, process, failures>>

\* queue_paths, in a transaction of its own
QueuePath(p) ==
  /\ writer[p] = IF p \in IndexPaths THEN "purged" ELSE "wrote"
  /\ QueuePaths({p})
  /\ writer' = [writer EXCEPT ![p] = "queued"]
  /\ UNCHANGED <<files, due, cdnJobs, cdnRun, process, failures, lost>>

\* The processing job is enqueued; the index job then returns Ok.
Schedule(p) ==
  /\ writer[p] = "queued"
  /\ EnqueueProcess
  /\ writer' = [writer EXCEPT ![p] = IF p \in IndexPaths THEN "idle" ELSE "scheduled"]
  /\ UNCHANGED <<files, due, cdnJobs, cdnRun, queue, failures, lost>>

\* Feeds and images: an error of queue_paths or enqueue is only logged.  A feed job
\* then leaves Fastly alone, too; GenerateOgImage goes on to purge it.
GiveUp(p, feed) ==
  /\ p \in DerivedPaths
  /\ writer[p] \in {"wrote", "queued"}
  /\ lost' = lost \cup {<<c, p>> : c \in IF feed THEN Cdns ELSE {"cloudfront"}}
  /\ writer' = [writer EXCEPT ![p] = IF feed THEN "idle" ELSE "scheduled"]
  /\ process' = [process EXCEPT !.missed = TRUE]
  /\ UNCHANGED <<files, due, cdnJobs, cdnRun, queue, failures>>

\* The run fails, or its worker is lost, after the file was written.
WriterFail(p) ==
  /\ p \notin CratePaths
  /\ writer[p] # "idle"
  /\ due' = [due EXCEPT ![p] = TRUE]
  /\ writer' = [writer EXCEPT ![p] = "idle"]
  /\ Fail
  /\ UNCHANGED <<files, cdnJobs, cdnRun, queue, process, lost>>

\* The files of the crate that are in storage.
Listed == {p \in CratePaths : origin[p] # Gone}

Deleted(ps) == [p \in Paths |-> IF p \in ps THEN Gone ELSE origin[p]]

\* DeleteCrateFromStorage deletes the files it lists and enqueues InvalidateCdns for
\* them.
DeleteCrateFromStorage ==
  /\ \A p \in CratePaths : due[p]
  /\ CratePaths # {}
  /\ origin' = Deleted(Listed)
  /\ cdnJobs' = cdnJobs \cup {Listed}
  /\ due' = [p \in Paths |-> due[p] /\ p \notin CratePaths]
  /\ UNCHANGED <<wanted, edge, writer, cdnRun, queue, process, failures, lost>>

\* The run fails, or its worker is lost, after some of the files were deleted.  The
\* next run will not list those, so they will not be invalidated.
DeleteCrateFail ==
  /\ \A p \in CratePaths : due[p]
  /\ \E ps \in SUBSET Listed \ {{}} :
       /\ origin' = Deleted(ps)
       /\ lost' = lost \cup (Cdns \X ps)
  /\ Fail
  /\ UNCHANGED <<wanted, edge, jobs, queue, process>>

-----------------------------------------------------------------------------
(* InvalidateCdns                                                          *)

\* A run takes a job and purges Fastly.
CdnPurge(ps) ==
  /\ cdnRun.pc = "idle"
  /\ ps \in cdnJobs
  /\ cdnJobs' = cdnJobs \ {ps}
  /\ edge' = Purged("fastly", ps)
  /\ cdnRun' = [pc |-> "purged", paths |-> ps]
  /\ UNCHANGED <<wanted, origin, due, writer, queue, process, failures, lost>>

CdnQueue ==
  /\ cdnRun.pc = "purged"
  /\ QueuePaths(cdnRun.paths)
  /\ cdnRun' = [cdnRun EXCEPT !.pc = "queued"]
  /\ UNCHANGED <<files, due, writer, cdnJobs, process, failures, lost>>

CdnSchedule ==
  /\ cdnRun.pc = "queued"
  /\ EnqueueProcess
  /\ cdnRun' = NoRun
  /\ UNCHANGED <<files, due, writer, cdnJobs, queue, failures, lost>>

\* A purge, the insert or the enqueue fails, or the worker is lost.
CdnFail ==
  /\ cdnRun.pc # "idle"
  /\ cdnJobs' = cdnJobs \cup {cdnRun.paths}
  /\ cdnRun' = NoRun
  /\ Fail
  /\ UNCHANGED <<files, due, writer, queue, process, lost>>

-----------------------------------------------------------------------------
(* ProcessCloudfrontInvalidationQueue                                      *)

\* A run starts with the first distribution.
ProcessStart ==
  /\ process.waits /\ process.run.pc = "idle"
  /\ process' = [process EXCEPT !.waits = FALSE, !.run = [NoBatch EXCEPT !.pc = "next"]]
  /\ UNCHANGED <<files, jobs, queue, failures, lost>>

\* Mutant: the rows are removed as they are read.
ProcessFetch_removing ==
  LET batch == FetchBatch(process.run.dist) IN
  /\ process.run.pc = "next"
  /\ items' = items \ batch
  /\ process' = [process EXCEPT !.run =
       IF batch # {} THEN [pc |-> "fetched", dist |-> @.dist, batch |-> batch, attempt |-> 1]
       ELSE IF @.dist = "Index" THEN [NoBatch EXCEPT !.pc = "next", !.dist = "Static"]
       ELSE NoBatch]
  /\ UNCHANGED <<files, jobs, nextItem, failures, lost>>

\* process_batch reads a batch.  Without rows the run goes on to the next
\* distribution, and after the last one returns Ok.
ProcessFetch ==
  LET d == process.run.dist
      batch == FetchBatch(d)
  IN
  /\ process.run.pc = "next"
  /\ process' = [process EXCEPT !.run =
       IF batch # {} THEN [pc |-> "fetched", dist |-> d, batch |-> batch, attempt |-> 1]
       ELSE IF d = "Index" THEN [NoBatch EXCEPT !.pc = "next", !.dist = "Static"]
       ELSE NoBatch]
  /\ UNCHANGED <<files, jobs, queue, failures, lost>>

BatchPaths == {i.path : i \in process.run.batch}

\* CloudFront accepts the paths of the batch.
Invalidate ==
  /\ process.run.pc = "fetched"
  /\ edge' = Purged("cloudfront", BatchPaths)
  /\ process' = [process EXCEPT !.run.pc = "accepted"]
  /\ UNCHANGED <<wanted, origin, jobs, queue, failures, lost>>

\* invalidate_with_backoff: TooManyInvalidationsInProgress, and another attempt
Backoff ==
  /\ process.run.pc = "fetched"
  /\ process.run.attempt < MaxAttempts
  /\ process' = [process EXCEPT !.run.attempt = @ + 1]
  /\ UNCHANGED <<files, jobs, queue, failures, lost>>

\* Mutant: the rows of the batch stay.
RemoveItems_none ==
  /\ process.run.pc = "accepted"
  /\ process' = [process EXCEPT !.run = [NoBatch EXCEPT !.pc = "next", !.dist = process.run.dist]]
  /\ UNCHANGED <<files, jobs, queue, failures, lost>>

\* remove_items, and the next batch of the distribution
RemoveItems ==
  /\ process.run.pc = "accepted"
  /\ items' = items \ process.run.batch
  /\ process' = [process EXCEPT !.run = [NoBatch EXCEPT !.pc = "next", !.dist = process.run.dist]]
  /\ UNCHANGED <<files, jobs, nextItem, failures, lost>>

\* Another error, the last attempt, or the worker is lost: after CloudFront has
\* accepted the batch, too.
ProcessFail ==
  /\ process.run.pc # "idle"
  /\ process' = [process EXCEPT !.waits = TRUE, !.run = NoBatch]
  /\ Fail
  /\ UNCHANGED <<files, jobs, queue, lost>>

-----------------------------------------------------------------------------
\* A request reaches a cache that does not have the file.
EdgeFetch(c, p) ==
  /\ edge[c][p] = None
  /\ origin[p] # Gone
  /\ edge' = [edge EXCEPT ![c][p] = origin[p]]
  /\ UNCHANGED <<wanted, origin, jobs, queue, process, failures, lost>>

WriterNext(p) ==
  \/ Write(p)
  \/ PurgeFastly(p)
  \/ QueuePath(p)
  \/ Schedule(p)

PurgeNext == (\E ps \in cdnJobs : CdnPurge(ps)) \/ CdnQueue \/ CdnSchedule

ProcessNext == ProcessStart \/ ProcessFetch \/ Invalidate \/ RemoveItems

CdnNext ==
  \/ \E p \in Paths : ChangeContent(p) \/ WriterNext(p) \/ WriterFail(p)
  \/ \E p \in Paths, feed \in BOOLEAN : GiveUp(p, feed)
  \/ DeleteCrateFromStorage
  \/ DeleteCrateFail
  \/ PurgeNext
  \/ CdnFail
  \/ ProcessNext
  \/ Backoff
  \/ ProcessFail
  \/ \E c \in Cdns, p \in Paths : EdgeFetch(c, p)

CdnSpec == CdnInit /\ [][CdnNext]_cdnVars

\* A job that waits is run and a run goes on, unless it fails; the bound on
\* failures makes them transient, which is what the retries assume.
CdnFairness ==
  /\ \A p \in Paths : WF_cdnVars(WriterNext(p))
  /\ WF_cdnVars(DeleteCrateFromStorage)
  /\ WF_cdnVars(PurgeNext)
  /\ WF_cdnVars(ProcessNext)

CdnFairSpec == CdnSpec /\ CdnFairness

-----------------------------------------------------------------------------
(* Properties.                                                             *)

\* A run has at most BatchSize rows of one distribution in its batch.
CdnTypeOK ==
  /\ origin \in [Paths -> 0..MaxContent]
  /\ edge \in [Cdns -> [Paths -> None..MaxContent]]
  /\ \A i, j \in items : i.id = j.id => i = j
  /\ \A i \in items : i.path \in Paths /\ i.id < nextItem
  /\ cdnJobs \subseteq SUBSET CratePaths
  /\ Cardinality(process.run.batch) <= BatchSize
  /\ process.run.attempt \in 0..MaxAttempts
  /\ \A i \in process.run.batch : Distribution(i.path) = process.run.dist
  /\ lost \subseteq Cdns \X Paths

Stale(c, p) == edge[c][p] \notin {None, origin[p]}

\* The invalidation of the path has not been forgotten: its job waits or runs, an
\* InvalidateCdns job has it, or it is in the queue of paths.
Remembered(c, p) ==
  \/ due[p]
  \/ writer[p] # "idle"
  \/ \E ps \in cdnJobs \cup {cdnRun.paths} : p \in ps
  \/ c = "cloudfront" /\ \E i \in items : i.path = p

\* A cache that holds an outdated file will be told: however runs fail, workers are
\* lost and batches are repeated, the invalidation is still somewhere - unless a
\* job has given it up.
StaleIsRemembered ==
  \A c \in Cdns, p \in Paths : Stale(c, p) /\ <<c, p>> \notin lost => Remembered(c, p)

\* Paths never wait in the queue with no job that will process them, except after
\* an enqueue whose error was only logged.
NoItemStranded ==
  items # {} =>
    \/ process.waits
    \/ process.run.pc # "idle"
    \/ \E p \in Paths : writer[p] # "idle" \/ due[p]
    \/ cdnRun.pc # "idle" \/ cdnJobs # {}
    \/ process.missed

\* What the jobs keep true of the CDNs: a path whose cached file is outdated is known to
\* a job, a run or the queue, and no row of the queue is without a job to process it.
CdnInv == CdnTypeOK /\ StaleIsRemembered /\ NoItemStranded

\* Every cache is brought up to date again and again: none keeps an outdated file
\* for ever, unless a job has given its invalidation up.
StaleIsPurged ==
  \A c \in Cdns, p \in Paths : []<>(~Stale(c, p) \/ <<c, p>> \in lost)
=============================================================================
