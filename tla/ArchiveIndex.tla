---------------------------- MODULE ArchiveIndex ----------------------------
(***************************************************************************)
(* The two pages that list the archived download counts, index.html and    *)
(* index.json: IndexVersionDownloadsArchive, enqueued by the job that      *)
(* uploads the archived files (which is part of Downloads).                *)
(***************************************************************************)
EXTENDS Integers, FiniteSets

CONSTANTS
  CsvFiles,      \* the files of the days
  IndexWorkers,  \* workers of the default queue
  MaxIndexFails  \* bound: failures of either job

ASSUME ArchiveIndexAssumption == MaxIndexFails \in Nat /\ CsvFiles \cap {"index.html", "index.json"} = {}

VARIABLES
  bucket,      \* the names of the files in the store
  htmlPage,    \* the files that index.html lists
  jsonPage,    \* the files that index.json lists
  archiving,   \* whether a run of ArchiveVersionDownloads is at work or waits
  indexRows,   \* the rows of the index job that no worker has locked
  indexRun,    \* per worker: its step, and the files it has found
  indexFails,  \* failures so far
  indexClash   \* history: whether two runs were at work at a time

archiveVars == <<bucket, htmlPage, jsonPage, archiving, indexRows, indexRun, indexFails, indexClash>>

NoIndexRun == [step |-> "idle", found |-> {}]

ArchiveInit ==
  /\ bucket = {} /\ htmlPage = {} /\ jsonPage = {}
  /\ archiving = FALSE
  /\ indexRows = 0
  /\ indexRun = [w \in IndexWorkers |-> NoIndexRun]
  /\ indexFails = 0
  /\ indexClash = FALSE

ArchiveStarts ==
  /\ ~ archiving
  /\ archiving' = TRUE
  /\ UNCHANGED <<bucket, htmlPage, jsonPage, indexRows, indexRun, indexFails, indexClash>>

\* The uploads, one by one; a run that fails is retried, so it stays at work.
UploadDay(f) ==
  /\ archiving
  /\ f \notin bucket
  /\ bucket' = bucket \cup {f}
  /\ UNCHANGED <<htmlPage, jsonPage, archiving, indexRows, indexRun, indexFails, indexClash>>

\* Its last step enqueues the index job, deduplicated.
ArchiveEnds ==
  /\ archiving
  /\ archiving' = FALSE
  /\ indexRows' = IF indexRows = 0 THEN 1 ELSE indexRows
  /\ UNCHANGED <<bucket, htmlPage, jsonPage, indexRun, indexFails, indexClash>>

\* crates-admin enqueue-job index-version-downloads-archive
EnqueueIndexJob ==
  /\ indexRows = 0
  /\ indexRows' = 1
  /\ UNCHANGED <<bucket, htmlPage, jsonPage, archiving, indexRun, indexFails, indexClash>>

FileSet == {f \in bucket : f \in CsvFiles}

ListStore(w) ==
  /\ indexRun[w] = NoIndexRun
  /\ indexRows > 0
  /\ indexRows' = indexRows - 1
  /\ indexRun' = [indexRun EXCEPT ![w] = [step |-> "html", found |-> FileSet]]
  /\ indexClash' = (indexClash \/ \E v \in IndexWorkers : indexRun[v] # NoIndexRun)
  /\ UNCHANGED <<bucket, htmlPage, jsonPage, archiving, indexFails>>

GenerateHtml(w) ==
  /\ indexRun[w].step = "html"
  /\ htmlPage' = indexRun[w].found
  /\ bucket' = bucket \cup {"index.html"}
  /\ indexRun' = [indexRun EXCEPT ![w].step = "json"]
  /\ UNCHANGED <<jsonPage, archiving, indexRows, indexFails, indexClash>>

\* After this only the invalidation of the CDNs is left.
GenerateJson(w) ==
  /\ indexRun[w].step = "json"
  /\ jsonPage' = indexRun[w].found
  /\ bucket' = bucket \cup {"index.json"}
  /\ indexRun' = [indexRun EXCEPT ![w] = NoIndexRun]
  /\ UNCHANGED <<htmlPage, archiving, indexRows, indexFails, indexClash>>

\* An error anywhere fails the job, which is retried from the start.
IndexJobFails_silently(w) ==
  /\ indexRun[w] # NoIndexRun
  /\ indexFails < MaxIndexFails
  /\ indexFails' = indexFails + 1
  /\ indexRun' = [indexRun EXCEPT ![w] = NoIndexRun]
  /\ UNCHANGED <<bucket, htmlPage, jsonPage, archiving, indexRows, indexClash>>

IndexJobFails(w) ==
  /\ indexRun[w] # NoIndexRun
  /\ indexFails < MaxIndexFails
  /\ indexFails' = indexFails + 1
  /\ indexRows' = indexRows + 1
  /\ indexRun' = [indexRun EXCEPT ![w] = NoIndexRun]
  /\ UNCHANGED <<bucket, htmlPage, jsonPage, archiving, indexClash>>

ArchiveNext ==
  \/ ArchiveStarts
  \/ \E f \in CsvFiles : UploadDay(f)
  \/ ArchiveEnds
  \/ EnqueueIndexJob
  \/ \E w \in IndexWorkers : ListStore(w) \/ GenerateHtml(w) \/ GenerateJson(w) \/ IndexJobFails(w)

ArchiveSpec == ArchiveInit /\ [][ArchiveNext]_archiveVars

-----------------------------------------------------------------------------

\* Types; the pages list archived files only.
ArchiveTypeOK ==
  /\ bucket \subseteq CsvFiles \cup {"index.html", "index.json"}
  /\ htmlPage \subseteq CsvFiles /\ jsonPage \subseteq CsvFiles
  /\ archiving \in BOOLEAN /\ indexClash \in BOOLEAN
  /\ indexRows \in 0..MaxIndexFails + 1 /\ indexFails \in 0..MaxIndexFails
  /\ \A w \in IndexWorkers : indexRun[w].found \subseteq CsvFiles

\* Once neither job waits or runs, both pages list every archived file: also
\* when files were uploaded during a run, or a run failed between the pages.
\* (Two runs at a time may finish in either order, and are left out.)
PagesComplete ==
  ~ indexClash /\ ~ archiving /\ indexRows = 0 /\ (\A w \in IndexWorkers : indexRun[w] = NoIndexRun)
    => htmlPage = bucket \cap CsvFiles /\ jsonPage = htmlPage

\* IndexVersionDownloadsArchive: when no job is left, both pages list every file of the
\* archive, unless two runs overlapped.
ArchiveInv == ArchiveTypeOK /\ PagesComplete
=============================================================================
