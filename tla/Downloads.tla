------------------------------ MODULE Downloads ------------------------------
(***************************************************************************)
(* From the log files of the CDNs to the download counts.                  *)
(*                                                                         *)
(* A message of an SQS queue announces log files.  ProcessCdnLogQueue      *)
(* enqueues a ProcessCdnLog job for each of them, which adds the downloads *)
(* it counts to the rows of version_downloads.  UpdateDownloads carries    *)
(* the rows into the totals of versions, crates and the whole registry.    *)
(* CleanProcessedLogFiles forgets old log files; ArchiveVersionDownloads   *)
(* moves old rows into files of an archive.                                *)
(*                                                                         *)
(* Time is a day.  A transaction is one step at its commit; a row lock is  *)
(* modelled only where a statement uses what it read before it waited.     *)
(***************************************************************************)
EXTENDS Integers, SequencesExt, FiniteSetsExt

CONSTANTS
  Versions,      \* the versions in the database
  Crates,
  CrateOf,       \* [Versions -> Crates]
  Logs,          \* log files: their paths
  Extension,     \* [Logs -> the extension of the path]
  Format,        \* [Logs -> {"#", "<", "?"}]: the first byte of the file
  Lines,         \* [Logs -> Seq(line)]
  Ignored,       \* log files of the index domains
  Messages,      \* the messages that announce log files
  Records,       \* [Messages -> SUBSET Logs]; {}: an invalid or empty message
  QueueRuns,     \* runs of ProcessCdnLogQueue at the same time
  LogWorkers,    \* workers that run ProcessCdnLog
  Updaters,      \* workers that run UpdateDownloads
  Archivers,     \* workers that run ArchiveVersionDownloads
  MaxMessages,   \* max_messages
  MaxBatch,      \* MAX_BATCH_SIZE of the queue
  BatchSize,     \* BATCH_SIZE of batch_update
  KeepMarks,     \* days until a processed log file is forgotten
  MaxDay,        \* bound: the last day
  MaxTrouble     \* bound: messages sent, failed runs, lost workers and rows read twice

Days == 1..MaxDay

\* What is read of a line: of one that is not a request, only its kind and columns
LogLine == [kind : STRING, columns : Nat, method : STRING, status : Nat, agent : STRING,
            path : [version : STRING, encoded : Nat], date : Nat]

DownloadKeys == Versions \X Days
NoRow == [downloads |-> 0, counted |-> 0, processed |-> FALSE, exists |-> FALSE]

ASSUME DownloadsAssumption ==
  /\ CrateOf \in [Versions -> Crates] /\ Ignored \subseteq Logs
  /\ Records \in [Messages -> SUBSET Logs]
  /\ Format \in [Logs -> {"#", "<", "?"}]
  /\ Lines \in [Logs -> Seq(LogLine)]
  /\ IsFiniteSet(Versions) /\ IsFiniteSet(Logs)
  /\ MaxMessages \in Nat /\ MaxBatch \in Nat \ {0} /\ BatchSize \in Nat \ {0}
  /\ KeepMarks \in Nat /\ MaxDay \in Nat \ {0} /\ MaxTrouble \in Nat

VARIABLES
  day,
  sqs,         \* the messages in the SQS queue
  queueRun,    \* per run of ProcessCdnLogQueue
  waiting,     \* per log file: its ProcessCdnLog jobs that wait
  logRun,      \* per worker: its run of ProcessCdnLog
  marks,       \* processed_log_files: the day of each log file, 0 if there is no row
  rows,        \* version_downloads, by version and date
  totals,      \* downloads of versions, crate_downloads, metadata.total_downloads
  updRun,      \* per worker: its run of UpdateDownloads
  archRun,     \* per worker: its run of ArchiveVersionDownloads
  archive,     \* per date: the file of the archive, or {}
  saved,       \* history: how often the downloads of each log file were saved
  forgiven,    \* history: log files forgotten and dates that came late
  removed,     \* history: the dates whose rows were archived and deleted
  twice,       \* history: the rows that two runs of UpdateDownloads read at once
  trouble      \* messages sent, failed runs, lost workers and rows read twice so far

front == <<sqs, queueRun, waiting>>
counts == <<rows, totals>>
store == <<archRun, archive>>
downloadHistory == <<saved, forgiven, removed, twice>>
downloadVars == <<day, front, logRun, marks, counts, updRun, store, downloadHistory, trouble>>

-----------------------------------------------------------------------------
(* Counting the lines of a log file.                                       *)

\* should_count_user_agent: a request without a user agent is counted
ShouldCountUserAgent(agent) == agent \in {"none", "cargo"}

\* parse_path after `rounds` of percent-decoding: a version whose name is still
\* encoded does not parse.
ParsePath(path, rounds) == path.version # "" /\ path.encoded <= rounds

\* The conditions the two formats share
Counts(line, rounds) ==
  /\ line.method = "GET"
  /\ line.status = 200
  /\ ShouldCountUserAgent(line.agent)
  /\ ParsePath(line.path, rounds)

\* DownloadsMap::add
Add(map, line) ==
  LET k == <<line.path.version, line.date>> IN
  [x \in DOMAIN map \cup {k} |->
     IF x # k THEN map[x] ELSE IF x \in DOMAIN map THEN map[x] + 1 ELSE 1]

EmptyMap == [x \in {} |-> 0]

\* cloudfront::count_downloads: a #Fields header says how many columns the lines
\* after it have; CloudFront encodes the encoded path again.
CountCloudFront(lines) ==
  LET step(acc, line) ==
        CASE line.kind = "version" -> [acc EXCEPT !.ok = @ /\ line.columns = 1]
          [] line.kind = "fields" -> [acc EXCEPT !.columns = line.columns]
          [] OTHER ->
               IF line.columns = acc.columns /\ Counts(line, 2) /\ line.date \in Days
               THEN [acc EXCEPT !.map = Add(@, line)]
               ELSE acc
      result == FoldLeft(step, [ok |-> TRUE, columns |-> 0, map |-> EmptyMap], lines)
  IN [ok |-> result.ok, map |-> result.map]

\* fastly::count_downloads: a line without JSON, or with JSON that does not parse,
\* is skipped.
CountFastly(lines) ==
  LET step(map, line) ==
        IF line.kind = "json" /\ Counts(line, 1) THEN Add(map, line) ELSE map
  IN FoldLeft(step, EmptyMap, lines)

Failed == [ok |-> FALSE, map |-> EmptyMap]

\* count_downloads: the first byte tells the format.
CountDownloads(l) ==
  CASE Format[l] = "#" -> CountCloudFront(Lines[l])
    [] Format[l] = "<" -> [ok |-> TRUE, map |-> CountFastly(Lines[l])]
    [] Format[l] = "?" -> Failed

\* Decompressor::from_extension
Decompresses(l) == Extension[l] \in {"gz", "zst"}

\* load_and_count
LoadAndCount(l) == IF Decompresses(l) THEN CountDownloads(l) ELSE Failed

Counted == [l \in Logs |-> LoadAndCount(l)]

\* The downloads a log file has for a version that exists
InLog(l, k) == IF k \in DOMAIN Counted[l].map THEN Counted[l].map[k] ELSE 0

-----------------------------------------------------------------------------
NoQueueRun == [pc |-> "idle", left |-> 0, batch |-> {}, message |-> {}]
NoLogRun == [pc |-> "idle", log |-> {}]
NoUpdate == [pc |-> "idle", batch |-> EmptyMap, gone |-> {}]
NoArchive == [pc |-> "idle", files |-> EmptyMap, dates |-> {}]

DownloadsInit ==
  /\ day = 1
  /\ sqs = {}
  /\ queueRun = [q \in QueueRuns |-> NoQueueRun]
  /\ waiting = [l \in Logs |-> 0]
  /\ logRun = [w \in LogWorkers |-> NoLogRun]
  /\ marks = [l \in Logs |-> 0]
  /\ rows = [k \in DownloadKeys |-> NoRow]
  /\ totals = [versions |-> [v \in Versions |-> 0], crates |-> [c \in Crates |-> 0], all |-> 0]
  /\ updRun = [u \in Updaters |-> NoUpdate]
  /\ archRun = [a \in Archivers |-> NoArchive]
  /\ archive = [d \in Days |-> EmptyMap]
  /\ saved = [l \in Logs |-> 0]
  /\ forgiven = [forgotten |-> [l \in Logs |-> 0], dates |-> {}]
  /\ removed = {}
  /\ twice = {}
  /\ trouble = 0

Trouble ==
  /\ trouble < MaxTrouble
  /\ trouble' = trouble + 1

-----------------------------------------------------------------------------
(* ProcessCdnLogQueue                                                      *)

\* The dates a log file is about
LogDates(l) == {k[2] : k \in DOMAIN Counted[l].map}

\* S3 announces a log file once it is complete, or announces it again.
Announce(m) ==
  /\ m \notin sqs
  /\ \A l \in Records[m] : \A d \in LogDates(l) : d <= day
  /\ sqs' = sqs \cup {m}
  /\ Trouble
  /\ UNCHANGED <<day, queueRun, waiting, logRun, marks, counts, updRun, store, downloadHistory>>

\* run: a run starts, or goes on, with the next batch.  SQS may return fewer messages
\* than it has, and messages another run has received; without any the run ends.
Receive(q) ==
  LET run == queueRun[q]
      left == IF run.pc = "idle" THEN MaxMessages ELSE run.left
      size == Min({left, MaxBatch})
  IN
  /\ run.pc \in {"idle", "next"}
  /\ run.batch = {}
  /\ \E got \in SUBSET sqs :
       /\ Cardinality(got) <= size
       /\ queueRun' = [queueRun EXCEPT ![q] =
            IF got = {} THEN NoQueueRun
            ELSE [NoQueueRun EXCEPT !.pc = "next", !.left = left - size, !.batch = got]]
  /\ UNCHANGED <<day, sqs, waiting, logRun, marks, counts, updRun, store, downloadHistory, trouble>>

\* process_body, jobs_from_message: an invalid message has no jobs
JobsFromMessage(m) == Records[m] \ Ignored

\* enqueue_jobs: ProcessCdnLog is deduplicated; a job that runs is locked and does
\* not count.
Enqueued(ls) == [l \in Logs |-> IF l \in ls /\ waiting[l] = 0 THEN 1 ELSE waiting[l]]

\* process_message, up to the deletion of the message
ProcessBody(q, m) ==
  /\ queueRun[q].pc = "next"
  /\ m \in queueRun[q].batch
  /\ waiting' = Enqueued(JobsFromMessage(m))
  /\ queueRun' = [queueRun EXCEPT ![q].pc = "delete", ![q].message = {m}]
  /\ UNCHANGED <<day, sqs, logRun, marks, counts, updRun, store, downloadHistory, trouble>>

DeleteMessage(q) ==
  /\ queueRun[q].pc = "delete"
  /\ sqs' = sqs \ queueRun[q].message
  /\ queueRun' = [queueRun EXCEPT ![q].pc = "next", ![q].message = {},
                                  ![q].batch = @ \ queueRun[q].message]
  /\ UNCHANGED <<day, waiting, logRun, marks, counts, updRun, store, downloadHistory, trouble>>

\* Receiving, enqueueing or deleting fails, some of the jobs of a message having
\* been enqueued, or the worker is lost: the run starts anew.
QueueFail(q) ==
  /\ queueRun[q].pc # "idle"
  /\ \E m \in queueRun[q].batch \cup queueRun[q].message :
       \E ls \in SUBSET JobsFromMessage(m) : waiting' = Enqueued(ls)
  /\ queueRun' = [queueRun EXCEPT ![q] = NoQueueRun]
  /\ Trouble
  /\ UNCHANGED <<day, sqs, logRun, marks, counts, updRun, store, downloadHistory>>

-----------------------------------------------------------------------------
(* ProcessCdnLog                                                           *)

\* already_processed looks at what is committed.
AlreadyProcessed(l) == marks[l] # 0

\* A worker takes the job; load_and_count reads the file.  One without downloads is done, and not
\* marked.
StartLog(w, l) ==
  /\ logRun[w].pc = "idle"
  /\ waiting[l] > 0
  /\ waiting' = [waiting EXCEPT ![l] = @ - 1]
  /\ logRun' = IF AlreadyProcessed(l) \/ Counted[l] = [ok |-> TRUE, map |-> EmptyMap] THEN logRun
               ELSE [logRun EXCEPT ![w] = [pc |-> "loaded", log |-> {l}]]
  /\ UNCHANGED <<day, sqs, queueRun, marks, counts, updRun, store, downloadHistory, trouble>>

\* Mutant: the log file is marked without the unique constraint.
SaveAsProcessed_again(w, l) ==
  /\ logRun[w] = [pc |-> "loaded", log |-> {l}]
  /\ logRun' = [logRun EXCEPT ![w].pc = "marked"]
  /\ UNCHANGED <<day, front, marks, counts, updRun, store, downloadHistory, trouble>>

\* save_as_processed: the insert waits for a transaction that has inserted the same
\* path.
SaveAsProcessed(w, l) ==
  /\ logRun[w] = [pc |-> "loaded", log |-> {l}]
  /\ Counted[l].ok
  /\ \A x \in LogWorkers : logRun[x] # [pc |-> "marked", log |-> {l}]
  /\ marks[l] = 0
  /\ logRun' = [logRun EXCEPT ![w].pc = "marked"]
  /\ UNCHANGED <<day, front, marks, counts, updRun, store, downloadHistory, trouble>>

\* save_downloads: the downloads of versions that do not exist are dropped; the
\* others are added to the row of the version and date.
SaveDownloads(l) ==
  [k \in DownloadKeys |->
     IF k \in DOMAIN Counted[l].map
     THEN [rows[k] EXCEPT !.downloads = @ + InLog(l, k), !.exists = TRUE]
     ELSE rows[k]]

\* Dates a run of the archive has exported and not deleted, and those deleted before
Archived == removed \cup UNION {DOMAIN archRun[a].files : a \in Archivers}

\* The transaction commits, and the job is done.
CommitLog(w, l) ==
  /\ logRun[w] = [pc |-> "marked", log |-> {l}]
  /\ marks' = [marks EXCEPT ![l] = day]
  /\ rows' = SaveDownloads(l)
  /\ logRun' = [logRun EXCEPT ![w] = NoLogRun]
  /\ saved' = [saved EXCEPT ![l] = @ + 1]
  /\ forgiven' = [forgiven EXCEPT !.dates = @ \cup (LogDates(l) \cap Archived)]
  /\ UNCHANGED <<day, front, totals, updRun, store, removed, twice, trouble>>

\* The run ends without a commit, and its job waits again.
EndLog(w, l) ==
  /\ logRun[w].pc # "idle"
  /\ logRun[w].log = {l}
  /\ logRun' = [logRun EXCEPT ![w] = NoLogRun]
  /\ waiting' = [waiting EXCEPT ![l] = @ + 1]
  /\ UNCHANGED <<day, sqs, queueRun, marks, counts, updRun, store, downloadHistory>>

\* The file cannot be read, or the insert violates the unique constraint.
RejectLog(w, l) ==
  /\ logRun[w].pc = "loaded"
  /\ ~Counted[l].ok \/ marks[l] # 0
  /\ EndLog(w, l)
  /\ UNCHANGED trouble

\* Another error, or a lost worker
LogFail(w, l) == EndLog(w, l) /\ Trouble

\* CleanProcessedLogFiles: rows older than a week are deleted.
CleanProcessedLogFiles ==
  LET old == {l \in Logs : marks[l] # 0 /\ marks[l] < day - KeepMarks} IN
  /\ old # {}
  /\ marks' = [l \in Logs |-> IF l \in old THEN 0 ELSE marks[l]]
  /\ forgiven' = [forgiven EXCEPT !.forgotten =
                   [l \in Logs |-> IF l \in old THEN @[l] + 1 ELSE @[l]]]
  /\ UNCHANGED <<day, front, logRun, counts, updRun, store, saved, removed, twice,
                 trouble>>

-----------------------------------------------------------------------------
(* UpdateDownloads                                                         *)

\* crates-admin enqueue-job update_downloads, and a worker takes the job.  The command
\* enqueues none beside another, waiting or running; still two may run: two commands
\* look before either enqueues, or the session that locks the job of a run is lost.
StartUpdate(u) ==
  /\ updRun[u].pc = "idle"
  /\ updRun' = [updRun EXCEPT ![u].pc = "next"]
  /\ UNCHANGED <<day, front, logRun, marks, counts, store, downloadHistory, trouble>>

Uncounted == {k \in DownloadKeys : ~rows[k].processed /\ rows[k].downloads # rows[k].counted}

\* Rows in the batch of some run
Reading == UNION {DOMAIN updRun[u].batch : u \in Updaters}

\* update_metadata.sql: the statement reads its batch, and what each row is ahead.
BatchRead(u) ==
  /\ updRun[u].pc = "next"
  /\ \E ks \in SUBSET Uncounted :
       /\ Cardinality(ks) = Min({BatchSize, Cardinality(Uncounted)})
       /\ updRun' = [updRun EXCEPT ![u] =
            [pc |-> "read", gone |-> {},
             batch |-> [k \in ks |-> rows[k].downloads - rows[k].counted]]]
       /\ twice' = twice \cup (ks \cap Reading)
       /\ IF ks \cap Reading = {} THEN UNCHANGED trouble ELSE Trouble
  /\ UNCHANGED <<day, front, logRun, marks, counts, store, saved, forgiven, removed>>

SumOf(f, S) == MapThenSumSet(LAMBDA k : f[k], S)

\* metadata.total_downloads is updated only by a positive sum.
NewTotal(sum) == IF sum > 0 THEN totals.all + sum ELSE totals.all

\* The rows of the batch, once the statement has their locks: not a row that was
\* deleted since, nor one that has replaced it.
Applied(batch, gone) ==
  [k \in DownloadKeys |-> IF k \in DOMAIN batch \ gone
                  THEN [rows[k] EXCEPT !.counted = @ + batch[k]]
                  ELSE rows[k]]

\* The statement updates and commits, all with the differences it read.  A full batch
\* is followed by another one, unless 45 minutes have passed.
BatchApply(u, timeout) ==
  LET batch == updRun[u].batch IN
  /\ updRun[u].pc = "read"
  /\ timeout => Cardinality(DOMAIN batch) = BatchSize
  /\ rows' = Applied(batch, updRun[u].gone)
  /\ totals' =
       [versions |-> [v \in Versions |->
          totals.versions[v] + SumOf(batch, {k \in DOMAIN batch : k[1] = v})],
        crates |-> [c \in Crates |->
          totals.crates[c] + SumOf(batch, {k \in DOMAIN batch : CrateOf[k[1]] = c})],
        all |-> NewTotal(SumOf(batch, DOMAIN batch))]
  /\ updRun' = [updRun EXCEPT ![u] = [NoUpdate EXCEPT !.pc =
       IF Cardinality(DOMAIN batch) = BatchSize /\ ~timeout THEN "next" ELSE "freeze"]]
  /\ UNCHANGED <<day, front, logRun, marks, store, downloadHistory, trouble>>

\* The rows of earlier days that are counted
Frozen(row, d) == row.exists /\ d < day /\ row.downloads = row.counted

\* The last statements: the rows are frozen, the view recent_crate_downloads, which
\* only searches read, is refreshed, and the job is done.
Freeze(u) ==
  /\ updRun[u].pc = "freeze"
  /\ rows' = [k \in DownloadKeys |-> IF Frozen(rows[k], k[2]) THEN [rows[k] EXCEPT !.processed = TRUE]
                                                      ELSE rows[k]]
  /\ updRun' = [updRun EXCEPT ![u] = NoUpdate]
  /\ UNCHANGED <<day, front, logRun, marks, totals, store, downloadHistory, trouble>>

\* A statement fails or the worker is lost: what was committed stays, and the job is
\* run again.
UpdateFail(u) ==
  /\ updRun[u].pc # "idle"
  /\ updRun' = [updRun EXCEPT ![u] = NoUpdate]
  /\ Trouble
  /\ UNCHANGED <<day, front, logRun, marks, counts, store, downloadHistory>>

-----------------------------------------------------------------------------
(* ArchiveVersionDownloads                                                 *)

\* export and split: a CSV file per date before the given one, by default that of
\* ninety days ago.  Runs with different dates are different jobs.
Export(a, before) ==
  LET dates == {d \in Days : d < before /\ \E v \in Versions : rows[<<v, d>>].exists}
      content(d) == [v \in {x \in Versions : rows[<<x, d>>].exists} |-> rows[<<v, d>>].downloads]
  IN
  /\ archRun[a].pc = "idle"
  /\ dates # {}
  /\ archRun' = [archRun EXCEPT ![a] =
       [pc |-> "upload", files |-> [d \in dates |-> content(d)], dates |-> {}]]
  /\ UNCHANGED <<day, front, logRun, marks, counts, updRun, archive, downloadHistory, trouble>>

\* upload: each file replaces the one of its date; files that fail are left out.
UploadCsv(a) ==
  /\ archRun[a].pc = "upload"
  /\ \E ok \in SUBSET DOMAIN archRun[a].files :
       /\ archive' = [d \in Days |-> IF d \in ok THEN archRun[a].files[d] ELSE archive[d]]
       /\ archRun' = [archRun EXCEPT ![a].pc = "delete", ![a].dates = ok]
  /\ UNCHANGED <<day, front, logRun, marks, counts, updRun, downloadHistory, trouble>>

\* delete: the rows of the uploaded dates, all of them; an error is only logged.
\* IndexVersionDownloadsArchive is enqueued.
DeleteArchived(a, ok) ==
  LET dates == IF ok THEN archRun[a].dates ELSE {}
      deleted == {k \in DownloadKeys : k[2] \in dates}
  IN
  /\ archRun[a].pc = "delete"
  /\ rows' = [k \in DownloadKeys |-> IF k \in deleted THEN NoRow ELSE rows[k]]
  /\ updRun' = [u \in Updaters |->
       [updRun[u] EXCEPT !.gone = @ \cup (deleted \cap DOMAIN updRun[u].batch)]]
  /\ removed' = removed \cup dates
  /\ archRun' = [archRun EXCEPT ![a] = NoArchive]
  /\ UNCHANGED <<day, front, logRun, marks, totals, archive, saved, forgiven, twice, trouble>>

\* The run fails or its worker is lost, with some of the files uploaded.
ArchiveFail(a) ==
  /\ archRun[a].pc # "idle"
  /\ archRun' = [archRun EXCEPT ![a] = NoArchive]
  /\ Trouble
  /\ UNCHANGED <<day, front, logRun, marks, counts, updRun, archive, downloadHistory>>

-----------------------------------------------------------------------------
NextDay ==
  /\ day < MaxDay
  /\ day' = day + 1
  /\ UNCHANGED <<front, logRun, marks, counts, updRun, store, downloadHistory, trouble>>

QueueNext(q) ==
  \/ Receive(q)
  \/ \E m \in Messages : ProcessBody(q, m)
  \/ DeleteMessage(q)

LogNext(w) ==
  \E l \in Logs : SaveAsProcessed(w, l) \/ CommitLog(w, l) \/ RejectLog(w, l)

UpdateNext(u) ==
  \/ StartUpdate(u)
  \/ BatchRead(u)
  \/ \E timeout \in BOOLEAN : BatchApply(u, timeout)
  \/ Freeze(u)

ArchiveNext(a) ==
  \/ \E before \in Days \cup {MaxDay + 1} : Export(a, before)
  \/ UploadCsv(a)
  \/ \E ok \in BOOLEAN : DeleteArchived(a, ok)

DownloadsNext ==
  \/ NextDay
  \/ \E m \in Messages : Announce(m)
  \/ \E q \in QueueRuns : QueueNext(q) \/ QueueFail(q)
  \/ \E w \in LogWorkers : LogNext(w)
  \/ \E w \in LogWorkers, l \in Logs : StartLog(w, l) \/ LogFail(w, l)
  \/ CleanProcessedLogFiles
  \/ \E u \in Updaters : UpdateNext(u) \/ UpdateFail(u)
  \/ \E a \in Archivers : ArchiveNext(a) \/ ArchiveFail(a)

DownloadsSpec == DownloadsInit /\ [][DownloadsNext]_downloadVars

-----------------------------------------------------------------------------
(* Properties.                                                             *)

\* Log files of the index domains are never processed, and a run of the update has
\* at most BatchSize rows.
DownloadsTypeOK ==
  /\ day \in Days
  /\ sqs \subseteq Messages
  /\ \A l \in Logs : waiting[l] \in Nat /\ marks[l] \in 0..day
  /\ \A l \in Ignored : waiting[l] = 0
  /\ \A k \in DownloadKeys : rows[k].downloads \in Nat /\ rows[k].counted \in Int
  /\ \A u \in Updaters : Cardinality(DOMAIN updRun[u].batch) <= BatchSize

\* However often a log file is announced, its job enqueued or run, its downloads are
\* saved once - twice only after the week in which it is remembered.
SavedOnce == \A l \in Logs : saved[l] <= 1 + forgiven.forgotten[l]

\* What the saved log files have for a version and date
Expected(k) == SumOf([l \in Logs |-> saved[l] * InLog(l, k)], {l \in Logs : saved[l] > 0})

InArchive(k) == IF k[1] \in DOMAIN archive[k[2]] THEN archive[k[2]][k[1]] ELSE 0

\* No download is lost or doubled between the log files, the table and the archive:
\* a row that is gone is in the archive with all of its downloads, however many runs
\* archive it.  Excepted are dates for which a log file was saved after their rows were
\* deleted, or between their export and the end of that run, whose deletion takes what
\* is not in the file (archive_version_downloads.rs:65-70).
DownloadsConserved ==
  \A k \in DownloadKeys : k[2] \notin forgiven.dates =>
    Expected(k) = IF rows[k].exists THEN rows[k].downloads ELSE InArchive(k)

\* The totals of crates agree with those of their versions at every moment, whatever
\* commits between the read and the updates of a batch and wherever a run is cut short.
\* So does the total of the registry, as long as no two runs have read the same row at
\* once; what they have added twice is taken back from versions and crates, but not
\* from that total, which is too high from then on (update_metadata.sql:41).
TotalsAgree ==
  /\ \A c \in Crates : totals.crates[c] = SumOf(totals.versions, {v \in Versions : CrateOf[v] = c})
  /\ totals.all >= SumOf(totals.versions, Versions)
  /\ twice = {} => totals.all = SumOf(totals.versions, Versions)

\* The downloads of a version are those its rows say are counted - however log files
\* were saved between the read and the update of a batch, and however many runs have
\* read it - and none is counted that was not in a log file, unless two runs read a row
\* of the version at once.
CountedIsTotal ==
  \A v \in Versions :
    LET own == {k \in DownloadKeys : k[1] = v} IN
    /\ own \cap twice = {} =>
         totals.versions[v] <= SumOf([k \in DownloadKeys |-> Expected(k)], own)
    /\ (\A d \in Days : archive[d] = EmptyMap) =>
         totals.versions[v] = SumOf([k \in DownloadKeys |-> rows[k].counted], own)

\* Counting of downloads: each log file is saved once while it is remembered, no download
\* is lost between rows and archive but of dates whose log files came late, and the totals
\* agree with the rows and, but for rows two runs have read at once, with each other.
DownloadsInv ==
  /\ DownloadsTypeOK
  /\ SavedOnce
  /\ DownloadsConserved
  /\ TotalsAgree
  /\ CountedIsTotal

==============================================================================
