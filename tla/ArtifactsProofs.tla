--------------------------- MODULE ArtifactsProofs ---------------------------
(***************************************************************************)
(* Proofs about what the jobs make of a publication, for any versions,     *)
(* workers and users: the pages of the archive, the mails to the owners,   *)
(* the rendered READMEs, the images, the names that look alike, the feeds. *)
(***************************************************************************)
EXTENDS ArchiveIndex, PublishMail, Readmes, CrateImages, SimilarNames, Feeds, FiniteSetTheorems, TLAPS

-----------------------------------------------------------------------------
(* The pages of the archive.                                               *)

IndexRuns == [step : {"idle", "html", "json"}, found : SUBSET CsvFiles]

ArchiveTypes ==
  /\ bucket \subseteq CsvFiles \cup {"index.html", "index.json"}
  /\ htmlPage \subseteq CsvFiles /\ jsonPage \subseteq CsvFiles
  /\ archiving \in BOOLEAN /\ indexClash \in BOOLEAN
  /\ indexFails \in 0..MaxIndexFails /\ indexRows \in 0..indexFails + 1
  /\ indexRun \in [IndexWorkers -> IndexRuns]
  /\ \A w \in IndexWorkers : indexRun[w].step = "idle" => indexRun[w] = NoIndexRun

\* Without a clash one run is at work at most.
OneIndexRun ==
  ~ indexClash => \A v, w \in IndexWorkers : v # w => indexRun[v] = NoIndexRun \/ indexRun[w] = NoIndexRun

\* When no job waits, the last run has seen every file, and so has the page it has written.
LastRunComplete ==
  ~ indexClash /\ ~ archiving /\ indexRows = 0 =>
    \A w \in IndexWorkers :
      /\ indexRun[w] # NoIndexRun => indexRun[w].found = bucket \cap CsvFiles
      /\ indexRun[w].step = "json" => htmlPage = bucket \cap CsvFiles

ArchiveInd == ArchiveTypes /\ OneIndexRun /\ LastRunComplete /\ PagesComplete

\* The worker of a step is alone in what becomes of its run.
LEMMA RunReplaced ==
  ASSUME ArchiveTypes, NEW w \in IndexWorkers, NEW r, indexRun' = [indexRun EXCEPT ![w] = r]
  PROVE  indexRun'[w] = r /\ \A v \in IndexWorkers : v # w => indexRun'[v] = indexRun[v]
  BY DEF ArchiveTypes

\* A run that is not at work.
LEMMA IdleRun == NoIndexRun.step = "idle" /\ NoIndexRun \in IndexRuns
  BY DEF NoIndexRun, IndexRuns

\* Every step preserves it.
LEMMA StepArchiveInd == ArchiveInd /\ [ArchiveNext]_archiveVars => ArchiveInd'
  <1> SUFFICES ASSUME ArchiveInd, [ArchiveNext]_archiveVars PROVE ArchiveInd'
    OBVIOUS
  <1>0. MaxIndexFails \in Nat /\ "index.html" \notin CsvFiles /\ "index.json" \notin CsvFiles
    BY ArchiveIndexAssumption
  <1> USE DEF ArchiveInd, OneIndexRun, LastRunComplete, PagesComplete
  <1>1. CASE ArchiveStarts
    BY <1>1 DEF ArchiveStarts, ArchiveTypes
  <1>2. ASSUME NEW f \in CsvFiles, UploadDay(f) PROVE ArchiveInd'
    BY <1>2 DEF UploadDay, ArchiveTypes
  <1>3. CASE ArchiveEnds
    <2>1. /\ indexRows' \in 0..indexFails + 1 /\ indexRows' # 0 /\ archiving' = FALSE
          /\ UNCHANGED <<bucket, htmlPage, jsonPage, indexRun, indexFails, indexClash>>
      BY <1>0, <1>3 DEF ArchiveEnds, ArchiveTypes
    <2>2. ArchiveTypes'
      BY <2>1 DEF ArchiveTypes
    <2> QED
      BY <2>1, <2>2
  <1>4. CASE EnqueueIndexJob
    <2>1. ArchiveTypes' /\ indexRows' # 0
      BY <1>0, <1>4 DEF EnqueueIndexJob, ArchiveTypes
    <2> QED
      BY <1>4, <2>1 DEF EnqueueIndexJob
  <1>5. ASSUME NEW w \in IndexWorkers, ListStore(w) PROVE ArchiveInd'
    <2> DEFINE r == [step |-> "html", found |-> FileSet]
    <2>1. r \in IndexRuns /\ r.step = "html" /\ r.found = bucket \cap CsvFiles /\ r # NoIndexRun
      BY IdleRun DEF FileSet, IndexRuns
    <2>2. indexRun' = [indexRun EXCEPT ![w] = r]
      BY <1>5 DEF ListStore
    <2> HIDE DEF r
    <2>3. indexRun'[w] = r /\ \A v \in IndexWorkers : v # w => indexRun'[v] = indexRun[v]
      BY <2>2, RunReplaced
    <2>4. ArchiveTypes'
      BY <1>0, <1>5, <2>1, <2>2 DEF ListStore, ArchiveTypes
    <2>5. ~ indexClash' => \A v \in IndexWorkers : indexRun[v] = NoIndexRun
      BY <1>5 DEF ListStore
    <2> QED
      BY <1>5, <2>1, <2>3, <2>4, <2>5, IdleRun DEF ListStore
  <1>6. ASSUME NEW w \in IndexWorkers, GenerateHtml(w) PROVE ArchiveInd'
    <2> DEFINE r == [indexRun[w] EXCEPT !.step = "json"]
    <2>1. r \in IndexRuns /\ r.step = "json" /\ r.found = indexRun[w].found /\ r # NoIndexRun
      BY IdleRun DEF ArchiveTypes, IndexRuns
    <2>2. indexRun' = [indexRun EXCEPT ![w] = r]
      BY <1>6 DEF GenerateHtml
    <2> HIDE DEF r
    <2>3. indexRun'[w] = r /\ \A v \in IndexWorkers : v # w => indexRun'[v] = indexRun[v]
      BY <2>2, RunReplaced
    <2>4. indexRun[w] # NoIndexRun /\ indexRun[w].found \subseteq CsvFiles
      BY <1>6, IdleRun DEF GenerateHtml, ArchiveTypes, IndexRuns
    <2>5. ArchiveTypes'
      BY <1>6, <2>1, <2>2, <2>4 DEF GenerateHtml, ArchiveTypes
    <2>6. bucket' \cap CsvFiles = bucket \cap CsvFiles
      BY <1>0, <1>6 DEF GenerateHtml
    <2> QED
      BY <1>6, <2>1, <2>3, <2>4, <2>5, <2>6, IdleRun DEF GenerateHtml
  <1>7. ASSUME NEW w \in IndexWorkers, GenerateJson(w) PROVE ArchiveInd'
    <2>1. indexRun' = [indexRun EXCEPT ![w] = NoIndexRun]
      BY <1>7 DEF GenerateJson
    <2>2. indexRun'[w] = NoIndexRun /\ \A v \in IndexWorkers : v # w => indexRun'[v] = indexRun[v]
      BY <2>1, RunReplaced
    <2>3. indexRun[w] # NoIndexRun /\ indexRun[w].found \subseteq CsvFiles
      BY <1>7, IdleRun DEF GenerateJson, ArchiveTypes, IndexRuns
    <2>4. ArchiveTypes'
      BY <1>7, <2>1, <2>3, IdleRun DEF GenerateJson, ArchiveTypes
    <2>5. bucket' \cap CsvFiles = bucket \cap CsvFiles
      BY <1>0, <1>7 DEF GenerateJson
    <2> QED
      BY <1>7, <2>2, <2>3, <2>4, <2>5, IdleRun DEF GenerateJson
  <1>8. ASSUME NEW w \in IndexWorkers, IndexJobFails(w) PROVE ArchiveInd'
    <2>1. indexRun' = [indexRun EXCEPT ![w] = NoIndexRun]
      BY <1>8 DEF IndexJobFails
    <2>2. indexRun'[w] = NoIndexRun /\ \A v \in IndexWorkers : v # w => indexRun'[v] = indexRun[v]
      BY <2>1, RunReplaced
    <2>3. ArchiveTypes' /\ indexRows' # 0
      BY <1>0, <1>8, <2>1, IdleRun DEF IndexJobFails, ArchiveTypes
    <2> QED
      BY <1>8, <2>2, <2>3 DEF IndexJobFails
  <1>9. CASE UNCHANGED archiveVars
    BY <1>9 DEF archiveVars, ArchiveTypes
  <1> QED
    BY <1>1, <1>2, <1>3, <1>4, <1>5, <1>6, <1>7, <1>8, <1>9 DEF ArchiveNext

\* IndexVersionDownloadsArchive: for any files and workers, when no job is left both pages
\* list every file of the archive, unless two runs overlapped.
THEOREM ArchiveIsListed == ArchiveSpec => []ArchiveInv
  <1>1. ArchiveInit => ArchiveInd
    <2> SUFFICES ASSUME ArchiveInit PROVE ArchiveInd
      OBVIOUS
    <2>1. \A w \in IndexWorkers : indexRun[w] = NoIndexRun
      BY DEF ArchiveInit
    <2>2. ArchiveTypes
      <3>1. indexRun \in [IndexWorkers -> IndexRuns]
        BY IdleRun DEF ArchiveInit
      <3>2. indexFails \in 0..MaxIndexFails /\ indexRows \in 0..indexFails + 1
        BY ArchiveIndexAssumption DEF ArchiveInit
      <3> QED
        BY <2>1, <3>1, <3>2 DEF ArchiveInit, ArchiveTypes
    <2> QED
      BY <2>1, <2>2, IdleRun DEF ArchiveInit, ArchiveInd, OneIndexRun, LastRunComplete, PagesComplete
  <1>2. ArchiveInd => ArchiveInv
    BY ArchiveIndexAssumption
       DEF ArchiveInd, ArchiveTypes, ArchiveInv, ArchiveTypeOK, IndexRuns
  <1> QED
    BY StepArchiveInd, <1>1, <1>2, PTL DEF ArchiveSpec

-----------------------------------------------------------------------------
(* The mails to the owners.                                                *)

NoticeTypes ==
  /\ mailOwners \subseteq MailUsers /\ subscribed \subseteq MailUsers /\ confirmed \subseteq MailUsers
  /\ mailChanges \in 0..MaxMailChanges /\ mailFails \in 0..MaxMailFails
  /\ versionRow \in BOOLEAN /\ unheeded \in BOOLEAN /\ killed \in BOOLEAN
  /\ mailJob \in {"waits", "details", "sending", "done"}
  /\ recipients \subseteq MailUsers
  /\ inbox \in [MailUsers -> Nat]
  /\ numSent \in Nat

\* A run mails each recipient once, and there are no more runs than failures and one.
InboxBounded ==
  \A u \in MailUsers :
    /\ inbox[u] <= mailFails + 1
    /\ mailJob \in {"waits", "details"} \/ (mailJob = "sending" /\ u \in recipients) => inbox[u] <= mailFails

\* The mails of a run are no more than the users who are not left to try.
SentBounded ==
  /\ mailJob = "details" => numSent = 0
  /\ mailJob = "sending" => numSent <= Cardinality(MailUsers \ recipients)
  /\ numSent <= Cardinality(MailUsers)

\* Unless a worker was killed, whoever is still to be mailed has got no mail.
UntriedAreEmpty ==
  ~ killed =>
    \A u \in MailUsers :
      /\ mailJob \in {"waits", "details"} \/ (mailJob = "sending" /\ (u \in recipients \/ numSent = 0)) => inbox[u] = 0
      /\ inbox[u] <= 1

\* What the count of a run stands for, and what a lack of recipients means.
CountIsReal ==
  /\ mailJob = "sending" /\ numSent > 0 => \E u \in MailUsers : inbox[u] > 0
  /\ Recipients = {} => unheeded

NoticeInd == NoticeTypes /\ InboxBounded /\ SentBounded /\ UntriedAreEmpty /\ CountIsReal /\ SomeoneTold

\* Every step preserves it.
LEMMA StepNoticeInd == NoticeInd /\ [NoticeNext]_noticeVars => NoticeInd'
  <1> SUFFICES ASSUME NoticeInd, [NoticeNext]_noticeVars PROVE NoticeInd'
    OBVIOUS
  <1>0. Cardinality(MailUsers) \in Nat /\ MaxMailFails \in Nat /\ MaxMailChanges \in Nat
    BY PublishMailAssumption, FS_CardinalityType
  <1> USE DEF NoticeInd, NoticeTypes, InboxBounded, SentBounded, UntriedAreEmpty, CountIsReal, SomeoneTold, Recipients
  <1>1. ASSUME NEW u \in MailUsers, PeopleChange(u) PROVE NoticeInd'
    <2>1. /\ mailOwners' \subseteq MailUsers /\ subscribed' \subseteq MailUsers /\ confirmed' \subseteq MailUsers
          /\ mailChanges' \in 0..MaxMailChanges
      BY <1>0, <1>1 DEF PeopleChange, Toggled
    <2>2. /\ UNCHANGED <<versionRow, mailJob, recipients, numSent, mailFails, inbox, killed>>
          /\ unheeded' = (unheeded \/ Recipients' = {})
      BY <1>1 DEF PeopleChange
    <2> HIDE DEF Recipients
    <2>3. NoticeTypes' /\ CountIsReal' /\ SomeoneTold'
      BY <2>1, <2>2
    <2>4. InboxBounded' /\ SentBounded' /\ UntriedAreEmpty'
      BY <2>2
    <2> QED
      BY <2>3, <2>4
  <1>2. CASE VersionDeleted
    BY <1>2 DEF VersionDeleted, mailPeople
  <1>3. CASE LoadDetails
    BY <1>0, <1>3 DEF LoadDetails, mailPeople
  <1>4. CASE LoadRecipients
    <2>1. Cardinality(MailUsers \ recipients') \in Nat
      BY PublishMailAssumption, FS_Difference, FS_CardinalityType
    <2> QED
      BY <1>0, <1>4, <2>1 DEF LoadRecipients, mailPeople
  <1>5. ASSUME NEW u \in MailUsers, NEW sent \in BOOLEAN, SendMail(u, sent) PROVE NoticeInd'
    <2> DEFINE tried == MailUsers \ recipients
    <2>1. MailUsers \ recipients' = tried \cup {u} /\ u \notin tried
      BY <1>5 DEF SendMail
    <2>2. IsFiniteSet(tried)
      BY PublishMailAssumption, FS_Difference
    <2>3. IsFiniteSet(tried \cup {u}) /\ Cardinality(tried \cup {u}) = Cardinality(tried) + 1
      BY <2>1, <2>2, FS_AddElement
    <2>4. tried \cup {u} \subseteq MailUsers
      OBVIOUS
    <2> HIDE DEF tried
    <2>5. Cardinality(tried \cup {u}) <= Cardinality(MailUsers) /\ Cardinality(tried) \in Nat
      BY <2>2, <2>4, PublishMailAssumption, FS_Subset, FS_CardinalityType
    <2>6. numSent <= Cardinality(tried)
      BY <1>5 DEF SendMail, tried
    <2>7. NoticeTypes'
      BY <1>5 DEF SendMail, mailPeople
    <2> DEFINE tries == Cardinality(tried)
    <2>10. numSent' <= tries + 1 /\ tries + 1 <= Cardinality(MailUsers)
      <3>1. tries \in Nat /\ numSent \in Nat /\ numSent <= tries /\ tries + 1 <= Cardinality(MailUsers)
        BY <2>3, <2>5, <2>6
      <3>2. numSent' = numSent \/ numSent' = numSent + 1
        BY <1>5 DEF SendMail
      <3> HIDE DEF tries
      <3> QED
        BY <3>1, <3>2
    <2>11. SentBounded'
      <3>1. Cardinality(MailUsers \ recipients') = tries + 1
        BY <2>1, <2>3
      <3>2. tries \in Nat
        BY <2>5
      <3> HIDE DEF tries
      <3>3. numSent' <= Cardinality(MailUsers)
        BY <1>0, <2>7, <2>10, <3>2
      <3> QED
        BY <1>5, <2>10, <3>1, <3>3 DEF SendMail
    <2>8. CountIsReal' /\ SomeoneTold'
      BY <1>5 DEF SendMail, mailPeople
    <2>9. InboxBounded' /\ UntriedAreEmpty'
      BY <1>0, <1>5 DEF SendMail, mailPeople
    <2> QED
      BY <2>7, <2>8, <2>9, <2>11
  <1>6. CASE EndOfMails
    BY <1>0, <1>6 DEF EndOfMails, mailPeople
  <1>7. CASE RunCut
    <2>1. NoticeTypes' /\ SentBounded' /\ CountIsReal' /\ SomeoneTold'
      BY <1>0, <1>7 DEF RunCut, mailPeople
    <2>2. mailFails' = mailFails + 1 /\ inbox' = inbox /\ mailFails \in Nat
      BY <1>0, <1>7 DEF RunCut
    <2>3. InboxBounded'
      BY <2>2
    <2>4. UntriedAreEmpty'
      BY <1>7 DEF RunCut
    <2> QED
      BY <2>1, <2>3, <2>4
  <1>8. CASE UNCHANGED noticeVars
    BY <1>8 DEF noticeVars
  <1> QED
    BY <1>1, <1>2, <1>3, <1>4, <1>5, <1>6, <1>7, <1>8 DEF NoticeNext

\* SendPublishNotificationsJob: for any users and any number of retries nobody is mailed twice,
\* unless a worker ended in the middle of a run, and the job ends well without a mail only if the
\* version was deleted or nobody was to be told at some time since the publication.
THEOREM OwnersAreMailedOnce == NoticeSpec => []NoticeInv
  <1>1. Cardinality(MailUsers) \in Nat /\ MaxMailFails \in Nat /\ MaxMailChanges \in Nat
    BY PublishMailAssumption, FS_CardinalityType
  <1>2. NoticeInit => NoticeInd
    <2> SUFFICES ASSUME NoticeInit PROVE NoticeInd
      OBVIOUS
    <2>0. unheeded = (Recipients = {})
      BY DEF NoticeInit
    <2>1. /\ mailOwners \subseteq MailUsers /\ subscribed \subseteq MailUsers /\ confirmed \subseteq MailUsers
          /\ mailChanges = 0 /\ mailFails = 0 /\ numSent = 0 /\ versionRow = TRUE /\ killed = FALSE
          /\ mailJob = "waits" /\ recipients = {}
          /\ inbox \in [MailUsers -> Nat] /\ \A u \in MailUsers : inbox[u] = 0
      BY DEF NoticeInit
    <2>2. unheeded \in BOOLEAN
      BY <2>0
    <2>6. 0 \in 0..MaxMailChanges /\ 0 \in 0..MaxMailFails /\ 0 \in Nat /\ 0 <= Cardinality(MailUsers)
      BY <1>1
    <2>3. NoticeTypes
      <3>1. /\ versionRow \in BOOLEAN /\ unheeded \in BOOLEAN /\ killed \in BOOLEAN
            /\ mailJob \in {"waits", "details", "sending", "done"} /\ recipients \subseteq MailUsers
        BY <2>1, <2>2
      <3>2. /\ mailChanges \in 0..MaxMailChanges /\ mailFails \in 0..MaxMailFails /\ numSent \in Nat
        BY <2>1, <2>6
      <3> QED
        BY <2>1, <3>1, <3>2, Zenon DEF NoticeTypes
    <2>4. InboxBounded /\ UntriedAreEmpty
      BY <2>1 DEF InboxBounded, UntriedAreEmpty
    <2>5. SentBounded /\ CountIsReal /\ SomeoneTold
      <3>1. SentBounded
        BY <2>1, <2>6 DEF SentBounded
      <3>2. numSent > 0 => FALSE
        BY <2>1
      <3> QED
        BY <2>0, <2>1, <3>1, <3>2 DEF CountIsReal, SomeoneTold
    <2> QED
      BY <2>3, <2>4, <2>5 DEF NoticeInd
  <1>3. NoticeInd => NoticeInv
    BY <1>1 DEF NoticeInd, NoticeTypes, InboxBounded, SentBounded, UntriedAreEmpty, SomeoneTold, NoticeInv,
                NoticeTypeOK, MailOnce
  <1> QED
    BY StepNoticeInd, <1>2, <1>3, PTL DEF NoticeSpec


-----------------------------------------------------------------------------
(* The rendered READMEs.                                                   *)

JobsOf(vs) == {RenderJob(v) : v \in vs} \cup {DeleteJob(c) : c \in ReadmeCrates}
WorkOf(vs) ==
  [job : JobsOf(vs) \cup {NoJob}, step : {"idle", "render", "recorded", "stored", "delete"},
   left : SUBSET {"crates", "readmes"}]
ToolOf(vs) == [step : {"idle", "pages"}, todo : SUBSET vs, page : SUBSET vs, tasks : SUBSET vs]

ReadmeTypes ==
  /\ published \subseteq ReadmeVersion /\ present \subseteq published
  /\ rendered \subseteq present
  /\ paths \subseteq {CrateFilePath(v) : v \in published} \cup {ReadmePath(v) : v \in published}
  /\ readmeJobs \subseteq JobsOf(published)
  /\ working \in [ReadmeWorkers -> WorkOf(published)]
  /\ tool \in ToolOf(published) /\ tool.tasks \subseteq byTool
  /\ remover \subseteq published \ present
  /\ \A u, v \in remover : u = v
  /\ fails \in 0..MaxReadmeFails /\ tools \in 0..MaxTools

\* The step of a worker tells what its job is.
WorkFits ==
  \A w \in ReadmeWorkers :
    /\ working[w].step = "idle" => working[w] = NoWork
    /\ working[w].step \in {"render", "recorded", "stored"} => working[w].job.kind = "render" /\ working[w].left = {}
    /\ working[w].step = "delete" => working[w].job.kind = "delete"

\* The version of an open transaction is there, and so is the file it has uploaded.
LocksHold ==
  \A w \in ReadmeWorkers :
    /\ working[w].step \in {"recorded", "stored"} => Rendering(w) \in present
    /\ working[w].step = "stored" => ReadmePath(Rendering(w)) \in paths

\* A crate whose deletion waits or runs has no versions left, and gets none.
DeletedStay ==
  \A c \in ReadmeCrates :
    DeleteJob(c) \in readmeJobs \/ (\E w \in ReadmeWorkers : working[w].job = DeleteJob(c)) =>
      Of(c, present) = {} /\ Of(c, published) # {}

\* Where the deletion has been, nothing is left or comes back.
DeletedGone ==
  \A w \in ReadmeWorkers, v \in published \ byTool :
    working[w].job = DeleteJob(v[1]) =>
      /\ "crates" \notin working[w].left => CrateFilePath(v) \notin paths
      /\ "readmes" \notin working[w].left => ReadmePath(v) \notin paths

ReadmeInd ==
  ReadmeTypes /\ WorkFits /\ LocksHold /\ DeletedStay /\ DeletedGone /\ RecordedIsStored /\ NothingLeftBehind

\* The paths of versions are their own, and directories keep them apart.
LEMMA PathsApart ==
  /\ \A u, v \in ReadmeVersion :
       /\ CrateFilePath(u) = CrateFilePath(v) => u = v
       /\ ReadmePath(u) = ReadmePath(v) => u = v
       /\ CrateFilePath(u) # ReadmePath(v)
  /\ \A v \in ReadmeVersion, c \in ReadmeCrates :
       /\ CrateFilePath(v) \in Within("crates", c) <=> CrateFilePath(v) \in paths /\ v[1] = c
       /\ ReadmePath(v) \in Within("readmes", c) <=> ReadmePath(v) \in paths /\ v[1] = c
       /\ CrateFilePath(v) \notin Within("readmes", c) /\ ReadmePath(v) \notin Within("crates", c)
  BY DEF ReadmeVersion, CrateFilePath, ReadmePath, Within

\* Jobs tell what they are about.
LEMMA JobsApart ==
  /\ \A v \in ReadmeVersion : RenderJob(v).kind = "render" /\ <<RenderJob(v).crate, RenderJob(v).num>> = v
  /\ \A c : DeleteJob(c).kind = "delete" /\ DeleteJob(c).crate = c
  /\ \A c, d \in ReadmeCrates : DeleteJob(c) = DeleteJob(d) => c = d
  /\ NoJob.kind = "none" /\ NoWork.job = NoJob /\ NoWork.step = "idle" /\ NoWork.left = {}
  BY DEF RenderJob, DeleteJob, NoJob, NoWork, ReadmeVersion

\* The version of a run that renders, and the crate of one that deletes.
LEMMA RunIsAbout ==
  ASSUME ReadmeTypes, WorkFits, NEW w \in ReadmeWorkers
  PROVE  /\ working[w].step \in {"render", "recorded", "stored"} =>
              /\ Rendering(w) \in published /\ working[w].job = RenderJob(Rendering(w))
              /\ \A c \in ReadmeCrates : working[w].job # DeleteJob(c)
         /\ working[w].left # {} => \E c \in ReadmeCrates : working[w].job = DeleteJob(c) /\ working[w].job.crate = c
  <1>1. working[w] \in WorkOf(published)
    BY DEF ReadmeTypes
  <1>2. /\ working[w].job \in JobsOf(published) \cup {NoJob}
        /\ working[w].step \in {"idle", "render", "recorded", "stored", "delete"}
    BY <1>1 DEF WorkOf
  <1>3. CASE working[w].job = NoJob
    BY <1>2, <1>3, JobsApart DEF WorkFits
  <1>4. ASSUME NEW v \in published, working[w].job = RenderJob(v)
        PROVE  /\ working[w].left = {} /\ Rendering(w) = v
               /\ \A c \in ReadmeCrates : working[w].job # DeleteJob(c)
    <2>1. v \in ReadmeVersion
      BY DEF ReadmeTypes
    <2> QED
      BY <1>2, <1>4, <2>1, JobsApart DEF WorkFits, Rendering
  <1>5. ASSUME NEW c \in ReadmeCrates, working[w].job = DeleteJob(c)
        PROVE  working[w].step \notin {"render", "recorded", "stored"} /\ working[w].job.crate = c
    BY <1>2, <1>5, JobsApart DEF WorkFits
  <1> QED
    BY <1>2, <1>3, <1>4, <1>5 DEF JobsOf


\* A step of one worker leaves the others as they are.
LEMMA WorkReplaced ==
  ASSUME ReadmeTypes, NEW w \in ReadmeWorkers, NEW r, working' = [working EXCEPT ![w] = r]
  PROVE  /\ working'[w] = r
         /\ \A u \in ReadmeWorkers : u # w => working'[u] = working[u] /\ Rendering(u)' = Rendering(u)
  BY DEF ReadmeTypes, Rendering

\* More versions allow for more jobs.
LEMMA MoreVersions ==
  ASSUME NEW S, NEW T, S \subseteq T
  PROVE  JobsOf(S) \subseteq JobsOf(T) /\ WorkOf(S) \subseteq WorkOf(T) /\ ToolOf(S) \subseteq ToolOf(T)
  BY DEF JobsOf, WorkOf, ToolOf

\* A publication.
LEMMA PublishReadmeInd ==
  ASSUME ReadmeInd, NEW v \in ReadmeVersion, NEW readme \in BOOLEAN, PublishVersion(v, readme)
  PROVE  ReadmeInd'
  <1>1. /\ published' = published \cup {v} /\ present' = present \cup {v}
        /\ paths' = paths \cup {CrateFilePath(v)}
        /\ readmeJobs' \subseteq readmeJobs \cup {RenderJob(v)} /\ readmeJobs \subseteq readmeJobs'
        /\ UNCHANGED <<rendered, working, tool, remover, fails, tools, byTool, spared>>
        /\ v \notin published
    BY DEF PublishVersion
  <1>2. v[1] \in ReadmeCrates
    BY DEF ReadmeVersion
  <1>3. Of(v[1], published) = {} \/ Of(v[1], present) # {}
    BY DEF PublishVersion
  <1>4. ReadmeTypes'
    <2>1. JobsOf(published) \subseteq JobsOf(published') /\ RenderJob(v) \in JobsOf(published')
      BY <1>1, MoreVersions DEF JobsOf
    <2>2. working' \in [ReadmeWorkers -> WorkOf(published')] /\ tool' \in ToolOf(published')
      BY <1>1, MoreVersions DEF ReadmeInd, ReadmeTypes
    <2>3. readmeJobs' \subseteq JobsOf(published')
      BY <1>1, <2>1 DEF ReadmeInd, ReadmeTypes
    <2> QED
      BY <1>1, <2>2, <2>3 DEF ReadmeInd, ReadmeTypes
  <1>5. WorkFits' /\ LocksHold'
    BY <1>1 DEF ReadmeInd, WorkFits, LocksHold, Rendering
  <1>6. \A c \in ReadmeCrates :
          DeleteJob(c) \in readmeJobs' \/ (\E w \in ReadmeWorkers : working[w].job = DeleteJob(c)) =>
            Of(c, present) = {} /\ Of(c, published) # {} /\ c # v[1]
    BY <1>1, <1>3, JobsApart DEF ReadmeInd, DeletedStay
  <1>7. DeletedStay'
    BY <1>1, <1>6 DEF DeletedStay, Of
  <1>8. DeletedGone'
    <2> SUFFICES ASSUME NEW w \in ReadmeWorkers, NEW u \in published' \ byTool', working'[w].job = DeleteJob(u[1])
                 PROVE  /\ "crates" \notin working'[w].left => CrateFilePath(u) \notin paths'
                        /\ "readmes" \notin working'[w].left => ReadmePath(u) \notin paths'
      BY DEF DeletedGone
    <2>1. u \in ReadmeVersion /\ u[1] \in ReadmeCrates
      BY <1>1 DEF ReadmeInd, ReadmeTypes, ReadmeVersion
    <2>2. u # v /\ u \in published
      BY <1>1, <1>6, <2>1
    <2> QED
      BY <1>1, <2>1, <2>2, PathsApart DEF ReadmeInd, DeletedGone
  <1>9. RecordedIsStored'
    BY <1>1 DEF ReadmeInd, RecordedIsStored
  <1>10. NothingLeftBehind'
    <2> SUFFICES ASSUME NEW u \in published' \ (present' \cup remover' \cup byTool' \cup spared')
                 PROVE  \/ CrateFilePath(u) \notin paths' /\ ReadmePath(u) \notin paths'
                        \/ DeleteJob(u[1]) \in readmeJobs'
                        \/ \E w \in ReadmeWorkers : working'[w].job = DeleteJob(u[1])
      BY DEF NothingLeftBehind
    <2>1. u \in published /\ u # v /\ u \in ReadmeVersion
      BY <1>1 DEF ReadmeInd, ReadmeTypes
    <2> QED
      BY <1>1, <2>1, PathsApart DEF ReadmeInd, NothingLeftBehind
  <1> QED
    BY <1>4, <1>5, <1>7, <1>8, <1>9, <1>10 DEF ReadmeInd

\* The deletions of rows, of crates and of versions.
LEMMA DeleteCrateReadmeInd ==
  ASSUME ReadmeInd, NEW c \in ReadmeCrates, DeleteCrateOfReadmes(c)
  PROVE  ReadmeInd'
  <1>1. /\ present' = present \ Of(c, present) /\ rendered' = rendered \ Of(c, present)
        /\ readmeJobs' = readmeJobs \cup {DeleteJob(c)}
        /\ Of(c, present) # {} /\ Of(c, present) \cap LockedVersions = {}
        /\ UNCHANGED <<published, paths, working, tool, remover, fails, tools, byTool, spared>>
    BY DEF DeleteCrateOfReadmes
  <1>2. ReadmeTypes'
    BY <1>1 DEF ReadmeInd, ReadmeTypes, JobsOf
  <1>3. WorkFits' /\ LocksHold' /\ DeletedGone' /\ RecordedIsStored'
    BY <1>1 DEF ReadmeInd, WorkFits, LocksHold, DeletedGone, RecordedIsStored, Rendering, LockedVersions
  <1>4. DeletedStay'
    <2>1. Of(c, present') = {} /\ Of(c, published') # {}
      BY <1>1 DEF ReadmeInd, ReadmeTypes, Of
    <2>2. \A d \in ReadmeCrates : Of(d, present) = {} => Of(d, present') = {}
      BY <1>1 DEF Of
    <2> QED
      BY <1>1, <2>1, <2>2, JobsApart DEF ReadmeInd, DeletedStay
  <1>5. NothingLeftBehind'
    BY <1>1 DEF ReadmeInd, NothingLeftBehind, Of
  <1> QED
    BY <1>2, <1>3, <1>4, <1>5 DEF ReadmeInd

LEMMA RemoveRowReadmeInd ==
  ASSUME ReadmeInd, NEW v \in present, RemoveRow(v)
  PROVE  ReadmeInd'
  <1>1. /\ present' = present \ {v} /\ rendered' = rendered \ {v} /\ remover' = {v}
        /\ remover = {} /\ v \notin LockedVersions /\ Of(v[1], present) # {v}
        /\ UNCHANGED <<published, paths, readmeJobs, working, tool, fails, tools, byTool, spared>>
    BY DEF RemoveRow
  <1>2. ReadmeTypes'
    BY <1>1 DEF ReadmeInd, ReadmeTypes
  <1>3. WorkFits' /\ LocksHold' /\ DeletedGone' /\ RecordedIsStored'
    BY <1>1 DEF ReadmeInd, WorkFits, LocksHold, DeletedGone, RecordedIsStored, Rendering, LockedVersions
  <1>4. DeletedStay' /\ NothingLeftBehind'
    BY <1>1 DEF ReadmeInd, DeletedStay, NothingLeftBehind, Of
  <1> QED
    BY <1>2, <1>3, <1>4 DEF ReadmeInd

LEMMA RemoveFilesReadmeInd ==
  ASSUME ReadmeInd, NEW failed, RemoveFiles(failed)
  PROVE  ReadmeInd'
  <1>1. PICK v \in remover :
          /\ failed \subseteq {CrateFilePath(v), ReadmePath(v)}
          /\ paths' = paths \ ({CrateFilePath(v), ReadmePath(v)} \ failed)
          /\ remover' = {}
          /\ spared' = IF failed = {} THEN spared ELSE spared \cup {v}
          /\ UNCHANGED <<published, present, rendered, readmeJobs, working, tool, fails, tools, byTool>>
    BY DEF RemoveFiles
  <1>2. v \in ReadmeVersion /\ v \notin present /\ remover = {v} /\ present \subseteq ReadmeVersion
    BY DEF ReadmeInd, ReadmeTypes
  <1>3. ReadmeTypes'
    BY <1>1 DEF ReadmeInd, ReadmeTypes
  <1>4. \A u \in present : ReadmePath(u) \in paths => ReadmePath(u) \in paths'
    BY <1>1, <1>2, PathsApart
  <1>5. WorkFits' /\ LocksHold' /\ DeletedStay' /\ DeletedGone'
    BY <1>1, <1>4 DEF ReadmeInd, WorkFits, LocksHold, DeletedStay, DeletedGone, Rendering
  <1>6. RecordedIsStored'
    BY <1>1, <1>4 DEF ReadmeInd, ReadmeTypes, RecordedIsStored
  <1>7. NothingLeftBehind'
    <2> SUFFICES ASSUME NEW u \in published' \ (present' \cup remover' \cup byTool' \cup spared')
                 PROVE  \/ CrateFilePath(u) \notin paths' /\ ReadmePath(u) \notin paths'
                        \/ DeleteJob(u[1]) \in readmeJobs'
                        \/ \E w \in ReadmeWorkers : working'[w].job = DeleteJob(u[1])
      BY DEF NothingLeftBehind
    <2>1. CASE u = v
      BY <1>1, <2>1
    <2>2. CASE u # v
      BY <1>1, <1>2, <2>2 DEF ReadmeInd, NothingLeftBehind
    <2> QED
      BY <2>1, <2>2
  <1> QED
    BY <1>3, <1>5, <1>6, <1>7 DEF ReadmeInd


\* The jobs: one that starts, renders, or ends.
LEMMA StartReadmeInd ==
  ASSUME ReadmeInd, NEW w \in ReadmeWorkers, NEW j \in readmeJobs, StartJob(w, j)
  PROVE  ReadmeInd'
  <1> DEFINE r == [job |-> j, step |-> j.kind, left |-> IF j.kind = "delete" THEN {"crates", "readmes"} ELSE {}]
  <1>1. /\ working[w] = NoWork /\ readmeJobs' = readmeJobs \ {j} /\ working' = [working EXCEPT ![w] = r]
        /\ UNCHANGED <<published, present, rendered, paths, tool, remover, fails, tools, byTool, spared>>
    BY DEF StartJob
  <1>2. j \in JobsOf(published) /\ j.kind \in {"render", "delete"} /\ published \subseteq ReadmeVersion
    BY JobsApart DEF ReadmeInd, ReadmeTypes, JobsOf
  <1>3. /\ r \in WorkOf(published) /\ r.job = j /\ r.step = j.kind
        /\ r.left = IF j.kind = "delete" THEN {"crates", "readmes"} ELSE {}
    BY <1>2 DEF WorkOf
  <1> HIDE DEF r
  <1>4. /\ working'[w] = r
        /\ \A u \in ReadmeWorkers : u # w => working'[u] = working[u] /\ Rendering(u)' = Rendering(u)
    BY <1>1, WorkReplaced DEF ReadmeInd
  <1>5. ReadmeTypes'
    BY <1>1, <1>3 DEF ReadmeInd, ReadmeTypes
  <1>6. WorkFits' /\ LocksHold'
    BY <1>1, <1>2, <1>3, <1>4 DEF ReadmeInd, WorkFits, LocksHold
  <1>7. DeletedStay' /\ RecordedIsStored'
    BY <1>1, <1>3, <1>4 DEF ReadmeInd, DeletedStay, RecordedIsStored
  <1>8. DeletedGone'
    <2> SUFFICES ASSUME NEW u \in ReadmeWorkers, NEW v \in published' \ byTool', working'[u].job = DeleteJob(v[1])
                 PROVE  /\ "crates" \notin working'[u].left => CrateFilePath(v) \notin paths'
                        /\ "readmes" \notin working'[u].left => ReadmePath(v) \notin paths'
      BY DEF DeletedGone
    <2>1. CASE u = w
      BY <1>3, <1>4, <2>1, JobsApart
    <2>2. CASE u # w
      BY <1>1, <1>4, <2>2 DEF ReadmeInd, DeletedGone
    <2> QED
      BY <2>1, <2>2
  <1>9. NothingLeftBehind'
    <2> SUFFICES ASSUME NEW v \in published' \ (present' \cup remover' \cup byTool' \cup spared')
                 PROVE  \/ CrateFilePath(v) \notin paths' /\ ReadmePath(v) \notin paths'
                        \/ DeleteJob(v[1]) \in readmeJobs'
                        \/ \E u \in ReadmeWorkers : working'[u].job = DeleteJob(v[1])
      BY DEF NothingLeftBehind
    <2>1. v[1] \in ReadmeCrates
      BY <1>1, <1>2 DEF ReadmeVersion
    <2>2. working[w].job # DeleteJob(v[1])
      BY <1>1, JobsApart
    <2>3. CASE j = DeleteJob(v[1])
      BY <1>3, <1>4, <2>3
    <2>4. CASE j # DeleteJob(v[1])
      BY <1>1, <1>4, <2>2, <2>4 DEF ReadmeInd, NothingLeftBehind
    <2> QED
      BY <2>3, <2>4
  <1> QED
    BY <1>5, <1>6, <1>7, <1>8, <1>9 DEF ReadmeInd

\* A run that renders goes on, or ends; the file it uploads is that of a version that is there,
\* and so is the version it commits.
LEMMA RenderReadmeInd ==
  ASSUME ReadmeInd, NEW w \in ReadmeWorkers, NEW r, working' = [working EXCEPT ![w] = r],
         working[w].step \in {"render", "recorded", "stored"},
         \/ r = NoWork
         \/ /\ r \in WorkOf(published) /\ r.job = working[w].job /\ r.left = {}
            /\ r.step \in {"recorded", "stored"} /\ Rendering(w) \in present
            /\ r.step = "stored" => ReadmePath(Rendering(w)) \in paths',
         \/ paths' = paths
         \/ Rendering(w) \in present /\ paths' = paths \cup {ReadmePath(Rendering(w))},
         \/ rendered' = rendered
         \/ working[w].step = "stored" /\ rendered' = rendered \cup ({Rendering(w)} \cap present),
         UNCHANGED <<published, present, readmeJobs, tool, remover, fails, tools, byTool, spared>>
  PROVE  ReadmeInd'
  <1>1. /\ working'[w] = r
        /\ \A u \in ReadmeWorkers : u # w => working'[u] = working[u] /\ Rendering(u)' = Rendering(u)
    BY WorkReplaced DEF ReadmeInd
  <1>2. /\ Rendering(w) \in published /\ \A c \in ReadmeCrates : working[w].job # DeleteJob(c) /\ r.job # DeleteJob(c)
        /\ published \subseteq ReadmeVersion
    BY RunIsAbout, JobsApart DEF ReadmeInd, ReadmeTypes
  <1>3. r \in WorkOf(published)
    BY DEF WorkOf, NoWork
  <1>4. ReadmeTypes'
    BY <1>2, <1>3 DEF ReadmeInd, ReadmeTypes
  <1>5. WorkFits'
    BY <1>1, JobsApart DEF ReadmeInd, WorkFits
  <1>6. LocksHold'
    <2>1. r # NoWork => Rendering(w)' = Rendering(w)
      BY <1>1 DEF Rendering
    <2>2. paths \subseteq paths'
      OBVIOUS
    <2> QED
      BY <1>1, <2>1, <2>2, JobsApart DEF ReadmeInd, LocksHold
  <1>7. DeletedStay'
    BY <1>1, <1>2 DEF ReadmeInd, DeletedStay
  <1>8. DeletedGone'
    <2> SUFFICES ASSUME NEW u \in ReadmeWorkers, NEW v \in published' \ byTool', working'[u].job = DeleteJob(v[1])
                 PROVE  /\ "crates" \notin working'[u].left => CrateFilePath(v) \notin paths'
                        /\ "readmes" \notin working'[u].left => ReadmePath(v) \notin paths'
      BY DEF DeletedGone
    <2>1. v \in published /\ v \in ReadmeVersion /\ v[1] \in ReadmeCrates
      BY <1>2 DEF ReadmeVersion
    <2>2. u # w
      BY <1>1, <1>2, <2>1
    <2>3. working[u].job = DeleteJob(v[1])
      BY <1>1, <2>2
    <2>4. v \notin present
      BY <2>1, <2>3 DEF ReadmeInd, DeletedStay, Of
    <2>5. /\ "crates" \notin working[u].left => CrateFilePath(v) \notin paths
          /\ "readmes" \notin working[u].left => ReadmePath(v) \notin paths
      BY <2>1, <2>3 DEF ReadmeInd, DeletedGone
    <2> QED
      BY <1>1, <1>2, <2>1, <2>2, <2>4, <2>5, PathsApart
  <1>9. RecordedIsStored'
    BY DEF ReadmeInd, LocksHold, RecordedIsStored
  <1>10. NothingLeftBehind'
    <2> SUFFICES ASSUME NEW v \in published' \ (present' \cup remover' \cup byTool' \cup spared')
                 PROVE  \/ CrateFilePath(v) \notin paths' /\ ReadmePath(v) \notin paths'
                        \/ DeleteJob(v[1]) \in readmeJobs'
                        \/ \E u \in ReadmeWorkers : working'[u].job = DeleteJob(v[1])
      BY DEF NothingLeftBehind
    <2>1. v \in published /\ v \in ReadmeVersion /\ v[1] \in ReadmeCrates /\ v \notin present
      BY <1>2 DEF ReadmeVersion
    <2>2. \/ CrateFilePath(v) \notin paths /\ ReadmePath(v) \notin paths
          \/ DeleteJob(v[1]) \in readmeJobs
          \/ \E u \in ReadmeWorkers : u # w /\ working[u].job = DeleteJob(v[1])
      BY <1>2, <2>1 DEF ReadmeInd, NothingLeftBehind
    <2> QED
      BY <1>1, <1>2, <2>1, <2>2, PathsApart
  <1> QED
    BY <1>4, <1>5, <1>6, <1>7, <1>8, <1>9, <1>10 DEF ReadmeInd

\* The deletion of a directory of a crate.
LEMMA DeleteFilesReadmeInd ==
  ASSUME ReadmeInd, NEW w \in ReadmeWorkers, NEW dir \in working[w].left, DeleteFiles(w, dir)
  PROVE  ReadmeInd'
  <1> DEFINE r == IF working[w].left = {dir} THEN NoWork
                  ELSE [working[w] EXCEPT !.left = @ \ {dir}]
  <1>1. /\ paths' = paths \ Within(dir, working[w].job.crate)
        /\ working' = [working EXCEPT ![w] = r]
        /\ UNCHANGED <<published, present, rendered, readmeJobs, tool, remover, fails, tools, byTool, spared>>
    BY DEF DeleteFiles
  <1>2. PICK c \in ReadmeCrates : working[w].job = DeleteJob(c) /\ working[w].job.crate = c
    BY RunIsAbout DEF ReadmeInd
  <1>3. /\ working[w] \in WorkOf(published) /\ published \subseteq ReadmeVersion /\ dir \in {"crates", "readmes"}
        /\ present \subseteq published /\ rendered \subseteq present
    BY DEF ReadmeInd, ReadmeTypes, WorkOf
  <1>4. /\ r \in WorkOf(published)
        /\ \/ r = NoWork /\ working[w].left = {dir}
           \/ r.job = DeleteJob(c) /\ r.step = working[w].step /\ r.left = working[w].left \ {dir}
              /\ r.step \notin {"idle", "render", "recorded", "stored"}
    BY <1>2, <1>3, JobsApart DEF WorkOf, NoWork, ReadmeInd, WorkFits
  <1> HIDE DEF r
  <1>5. /\ working'[w] = r
        /\ \A u \in ReadmeWorkers : u # w => working'[u] = working[u] /\ Rendering(u)' = Rendering(u)
    BY <1>1, WorkReplaced DEF ReadmeInd
  <1>6. Of(c, present) = {}
    BY <1>2 DEF ReadmeInd, DeletedStay
  <1>7. \A v \in ReadmeVersion :
          /\ CrateFilePath(v) \in paths' <=> CrateFilePath(v) \in paths /\ ~ (dir = "crates" /\ v[1] = c)
          /\ ReadmePath(v) \in paths' <=> ReadmePath(v) \in paths /\ ~ (dir = "readmes" /\ v[1] = c)
    BY <1>1, <1>2, <1>3, PathsApart
  <1>8. ReadmeTypes'
    BY <1>1, <1>4 DEF ReadmeInd, ReadmeTypes
  <1>9. WorkFits'
    BY <1>2, <1>4, <1>5, JobsApart DEF ReadmeInd, WorkFits
  <1>10. LocksHold'
    BY <1>1, <1>3, <1>4, <1>5, <1>6, <1>7, JobsApart DEF ReadmeInd, LocksHold, Of
  <1>11. DeletedStay'
    BY <1>1, <1>2, <1>4, <1>5, JobsApart DEF ReadmeInd, DeletedStay
  <1>12. RecordedIsStored'
    BY <1>1, <1>3, <1>6, <1>7 DEF ReadmeInd, RecordedIsStored, Of
  <1>13. \A v \in published \ byTool : v[1] = c =>
           /\ "crates" \notin working[w].left \ {dir} => CrateFilePath(v) \notin paths'
           /\ "readmes" \notin working[w].left \ {dir} => ReadmePath(v) \notin paths'
    BY <1>2, <1>3, <1>7 DEF ReadmeInd, DeletedGone
  <1>14. DeletedGone'
    <2> SUFFICES ASSUME NEW u \in ReadmeWorkers, NEW v \in published \ byTool, working'[u].job = DeleteJob(v[1])
                 PROVE  /\ "crates" \notin working'[u].left => CrateFilePath(v) \notin paths'
                        /\ "readmes" \notin working'[u].left => ReadmePath(v) \notin paths'
      BY <1>1 DEF DeletedGone
    <2>1. v[1] \in ReadmeCrates /\ v \in ReadmeVersion
      BY <1>3 DEF ReadmeVersion
    <2>2. CASE u = w
      <3>1. r # NoWork
        BY <1>5, <2>1, <2>2, JobsApart
      <3>2. v[1] = c
        BY <1>4, <1>5, <2>1, <2>2, <3>1, JobsApart
      <3> QED
        BY <1>4, <1>5, <1>13, <2>2, <3>1, <3>2
    <2>3. CASE u # w
      BY <1>5, <1>7, <2>1, <2>3 DEF ReadmeInd, DeletedGone
    <2> QED
      BY <2>2, <2>3
  <1>15. NothingLeftBehind'
    <2> SUFFICES ASSUME NEW v \in published \ (present \cup remover \cup byTool \cup spared)
                 PROVE  \/ CrateFilePath(v) \notin paths' /\ ReadmePath(v) \notin paths'
                        \/ DeleteJob(v[1]) \in readmeJobs'
                        \/ \E u \in ReadmeWorkers : working'[u].job = DeleteJob(v[1])
      BY <1>1 DEF NothingLeftBehind
    <2>1. v[1] \in ReadmeCrates /\ v \in ReadmeVersion
      BY <1>3 DEF ReadmeVersion
    <2>2. CASE v[1] = c
      BY <1>4, <1>5, <1>13, <2>2
    <2>3. CASE v[1] # c
      BY <1>1, <1>2, <1>5, <1>7, <2>1, <2>3, JobsApart DEF ReadmeInd, NothingLeftBehind
    <2> QED
      BY <2>2, <2>3
  <1> QED
    BY <1>8, <1>9, <1>10, <1>11, <1>12, <1>14, <1>15 DEF ReadmeInd


\* A run that fails waits again.
LEMMA FailReadmeInd ==
  ASSUME ReadmeInd, NEW w \in ReadmeWorkers, JobFails(w)
  PROVE  ReadmeInd'
  <1>1. /\ working[w] # NoWork /\ fails < MaxReadmeFails /\ fails' = fails + 1
        /\ readmeJobs' = readmeJobs \cup {working[w].job} /\ working' = [working EXCEPT ![w] = NoWork]
        /\ UNCHANGED <<published, present, rendered, paths, tool, remover, tools, byTool, spared>>
    BY DEF JobFails
  <1>2. /\ working'[w] = NoWork
        /\ \A u \in ReadmeWorkers : u # w => working'[u] = working[u] /\ Rendering(u)' = Rendering(u)
    BY <1>1, WorkReplaced DEF ReadmeInd
  <1>3. working[w] \in WorkOf(published) /\ NoWork \in WorkOf(published)
    BY DEF ReadmeInd, ReadmeTypes, WorkOf, NoWork
  <1>4. working[w].job \in JobsOf(published)
    <2>1. /\ working[w].job \in JobsOf(published) \cup {NoJob}
          /\ working[w].step \in {"render", "recorded", "stored", "delete"}
      BY <1>1, <1>3 DEF WorkOf, ReadmeInd, WorkFits
    <2> QED
      BY <2>1, JobsApart DEF ReadmeInd, WorkFits
  <1>5. ReadmeTypes'
    BY <1>1, <1>3, <1>4, ReadmesAssumption DEF ReadmeInd, ReadmeTypes
  <1>6. WorkFits' /\ LocksHold' /\ RecordedIsStored'
    BY <1>1, <1>2, JobsApart DEF ReadmeInd, WorkFits, LocksHold, RecordedIsStored
  <1>7. \A c \in ReadmeCrates : NoWork.job # DeleteJob(c)
    BY JobsApart
  <1>8. DeletedStay'
    BY <1>1, <1>2, <1>7 DEF ReadmeInd, DeletedStay
  <1>9. \A v \in published : v[1] \in ReadmeCrates
    BY DEF ReadmeInd, ReadmeTypes, ReadmeVersion
  <1>10. DeletedGone' /\ NothingLeftBehind'
    BY <1>1, <1>2, <1>7, <1>9 DEF ReadmeInd, DeletedGone, NothingLeftBehind
  <1> QED
    BY <1>5, <1>6, <1>8, <1>10 DEF ReadmeInd

\* The tool: what it records stays exempt, and only that is uploaded by its tasks.
LEMMA ToolReadmeInd ==
  ASSUME ReadmeInd, tool' \in ToolOf(published), tool'.tasks \subseteq byTool', tools' \in 0..MaxTools,
         byTool \subseteq byTool', byTool' \subseteq byTool \cup present,
         rendered \subseteq rendered', rendered' \subseteq present, rendered' \ rendered \subseteq byTool',
         paths' = paths \/ \E v \in published \cap byTool : paths' = paths \cup {ReadmePath(v)},
         UNCHANGED <<published, present, readmeJobs, working, remover, fails, spared>>
  PROVE  ReadmeInd'
  <1>1. ReadmeTypes'
    BY DEF ReadmeInd, ReadmeTypes
  <1>2. published \subseteq ReadmeVersion
    BY DEF ReadmeInd, ReadmeTypes
  <1>3. \A v \in published \ byTool' :
          /\ CrateFilePath(v) \in paths' <=> CrateFilePath(v) \in paths
          /\ ReadmePath(v) \in paths' <=> ReadmePath(v) \in paths
    BY <1>2, PathsApart
  <1>4. paths \subseteq paths'
    OBVIOUS
  <1>5. WorkFits' /\ LocksHold' /\ DeletedStay'
    BY <1>4 DEF ReadmeInd, WorkFits, LocksHold, DeletedStay, Rendering
  <1>6. DeletedGone'
    BY <1>3 DEF ReadmeInd, DeletedGone
  <1>7. RecordedIsStored'
    BY <1>4 DEF ReadmeInd, RecordedIsStored
  <1>8. NothingLeftBehind'
    BY <1>3 DEF ReadmeInd, NothingLeftBehind
  <1> QED
    BY <1>1, <1>5, <1>6, <1>7, <1>8 DEF ReadmeInd

\* Every step preserves it.
LEMMA StepReadmeInd == ReadmeInd /\ [ReadmeNext]_readmeVars => ReadmeInd'
  <1> SUFFICES ASSUME ReadmeInd, [ReadmeNext]_readmeVars PROVE ReadmeInd'
    OBVIOUS
  <1>0. /\ rendered \subseteq present /\ present \subseteq published /\ tool \in ToolOf(published)
        /\ tool.tasks \subseteq byTool /\ tools \in 0..MaxTools /\ MaxTools \in Nat
        /\ tool.todo \subseteq published /\ tool.page \subseteq published /\ tool.tasks \subseteq published
        /\ NoTool \in ToolOf(published) /\ NoTool.tasks = {}
        /\ \A w \in ReadmeWorkers : working[w] \in WorkOf(published)
    BY ReadmesAssumption DEF ReadmeInd, ReadmeTypes, ToolOf, NoTool
  <1>1. ASSUME NEW w \in ReadmeWorkers, RecordRendering(w) PROVE ReadmeInd'
    <2> DEFINE r == [working[w] EXCEPT !.step = "recorded"]
    <2>1. Rendering(w) \in present =>
            /\ working' = [working EXCEPT ![w] = r] /\ r \in WorkOf(published)
            /\ r.job = working[w].job /\ r.left = {} /\ r.step = "recorded"
      BY <1>0, <1>1 DEF RecordRendering, WorkOf, ReadmeInd, WorkFits
    <2> HIDE DEF r
    <2>2. Rendering(w) \notin present => working' = [working EXCEPT ![w] = NoWork]
      BY <1>1 DEF RecordRendering
    <2> QED
      BY <1>1, <2>1, <2>2, RenderReadmeInd DEF RecordRendering
  <1>2. ASSUME NEW w \in ReadmeWorkers, RenderEmpty(w) PROVE ReadmeInd'
    BY <1>2, RenderReadmeInd DEF RenderEmpty
  <1>3. ASSUME NEW w \in ReadmeWorkers, UploadReadme(w) PROVE ReadmeInd'
    <2> DEFINE r == [working[w] EXCEPT !.step = "stored"]
    <2>1. /\ working' = [working EXCEPT ![w] = r] /\ r \in WorkOf(published)
          /\ r.job = working[w].job /\ r.left = {} /\ r.step = "stored"
          /\ Rendering(w) \in present
      BY <1>0, <1>3 DEF UploadReadme, WorkOf, ReadmeInd, WorkFits, LocksHold
    <2> HIDE DEF r
    <2> QED
      BY <1>3, <2>1, RenderReadmeInd DEF UploadReadme
  <1>4. ASSUME NEW w \in ReadmeWorkers, CommitRendering(w) PROVE ReadmeInd'
    BY <1>4, RenderReadmeInd DEF CommitRendering
  <1>5. ASSUME NEW older \in SUBSET rendered, SelectVersions(older) PROVE ReadmeInd'
    <2>1. tool' = [step |-> "pages", todo |-> older \cup (present \ rendered), page |-> {}, tasks |-> {}]
      BY <1>5 DEF SelectVersions, NoTool
    <2>2. tool' \in ToolOf(published) /\ tool'.tasks = {}
      BY <1>0, <2>1 DEF ToolOf
    <2>3. tools' \in 0..MaxTools
      BY <1>0, <1>5 DEF SelectVersions
    <2> QED
      BY <1>0, <1>5, <2>2, <2>3, ToolReadmeInd DEF SelectVersions
  <1>6. ASSUME NEW chunk \in SUBSET tool.todo, NextPage(chunk) PROVE ReadmeInd'
    <2>1. tool' \in ToolOf(published) /\ tool'.tasks \subseteq tool.tasks
      BY <1>0, <1>6 DEF NextPage, ToolOf
    <2> QED
      <3>1. UNCHANGED <<published, present, rendered, paths, readmeJobs, working, remover, fails, tools, byTool, spared>>
        BY <1>6 DEF NextPage
      <3> QED
        BY <1>0, <2>1, <3>1, ToolReadmeInd
  <1>7. ASSUME NEW v \in tool.page, RecordByTool(v) PROVE ReadmeInd'
    <2>1. tool' \in ToolOf(published) /\ tool'.tasks \subseteq byTool'
      <3>1. CASE v \in present
        <4>1. tool' = [tool EXCEPT !.page = @ \ {v}, !.tasks = @ \cup {v}] /\ byTool' = byTool \cup {v}
          BY <1>7, <3>1 DEF RecordByTool
        <4>2. v \in published
          BY <1>0
        <4> QED
          BY <1>0, <4>1, <4>2 DEF ToolOf
      <3>2. CASE v \notin present
        BY <1>0, <1>7, <3>2 DEF RecordByTool
      <3> QED
        BY <3>1, <3>2
    <2> QED
      BY <1>0, <1>7, <2>1, ToolReadmeInd DEF RecordByTool
  <1>8. ASSUME NEW v \in tool.tasks, TaskUploads(v) PROVE ReadmeInd'
    <2>1. tool' \in ToolOf(published) /\ tool'.tasks \subseteq tool.tasks
      BY <1>0, <1>8 DEF TaskUploads, ToolOf
    <2>2. /\ v \in published \cap byTool /\ paths' = paths \cup {ReadmePath(v)}
          /\ UNCHANGED <<published, present, rendered, readmeJobs, working, remover, fails, tools, byTool, spared>>
      BY <1>0, <1>8 DEF TaskUploads
    <2> QED
      BY <1>0, <2>1, <2>2, ToolReadmeInd
  <1>9. ASSUME NEW v \in tool.tasks, TaskEnds(v) PROVE ReadmeInd'
    <2>1. tool' \in ToolOf(published) /\ tool'.tasks \subseteq tool.tasks
      BY <1>0, <1>9 DEF TaskEnds, ToolOf
    <2> QED
      BY <1>0, <1>9, <2>1, ToolReadmeInd DEF TaskEnds
  <1>10. CASE UNCHANGED readmeVars
    BY <1>0, <1>10, ToolReadmeInd DEF readmeVars
  <1> QED
    BY <1>1, <1>2, <1>3, <1>4, <1>5, <1>6, <1>7, <1>8, <1>9, <1>10, PublishReadmeInd, DeleteCrateReadmeInd,
       RemoveRowReadmeInd, RemoveFilesReadmeInd, StartReadmeInd, DeleteFilesReadmeInd, FailReadmeInd DEF ReadmeNext

\* Readmes: for any crates, versions and workers, a version that the job has recorded has its
\* README in storage, unless render-readmes has recorded it too; and once the job of a deletion
\* has run nothing is left of the versions, whatever job was at work meanwhile, but for those that
\* render-readmes has recorded and those of which delete-version could not delete a file.
THEOREM ReadmesAreKept == ReadmeSpec => []ReadmeInv
  <1>1. ReadmeInit => ReadmeInd
    <2> SUFFICES ASSUME ReadmeInit PROVE ReadmeInd
      OBVIOUS
    <2>1. \A w \in ReadmeWorkers : working[w] = NoWork
      BY DEF ReadmeInit
    <2>2. working \in [ReadmeWorkers -> WorkOf(published)]
      BY DEF ReadmeInit, WorkOf, NoWork
    <2>3. tool \in ToolOf(published) /\ tool.tasks = {}
      BY DEF ReadmeInit, ToolOf, NoTool
    <2>4. ReadmeTypes
      BY <2>2, <2>3, ReadmesAssumption DEF ReadmeInit, ReadmeTypes
    <2> QED
      BY <2>1, <2>4, JobsApart
         DEF ReadmeInit, ReadmeInd, WorkFits, LocksHold, DeletedStay, DeletedGone, RecordedIsStored, NothingLeftBehind
  <1>2. ReadmeInd => ReadmeInv
    <2> SUFFICES ASSUME ReadmeInd PROVE ReadmeInv
      OBVIOUS
    <2>1. \A w \in ReadmeWorkers : working[w] \in WorkOf(published)
      BY DEF ReadmeInd, ReadmeTypes
    <2>2. tool.todo \cup tool.page \cup tool.tasks \subseteq published
      BY DEF ReadmeInd, ReadmeTypes, ToolOf
    <2>3. ReadmeTypeOK
      BY <2>1, <2>2 DEF ReadmeInd, ReadmeTypes, ReadmeTypeOK, JobsOf, WorkOf
    <2> QED
      BY <2>3 DEF ReadmeInd, ReadmeInv
  <1> QED
    BY StepReadmeInd, <1>1, <1>2, PTL DEF ReadmeSpec


-----------------------------------------------------------------------------
(* The images.                                                             *)

DrawSteps == {"og", "ogLow", "ogQuiet"}
CountSteps == {"analyze", "download", "check"}
ImageRuns ==
  [job : ImageJobs \cup {NoRun.job},
   step : DrawSteps \cup CountSteps \cup {"idle", "upload", "default", "enqueue", "delete"}, seen : Images]

ImageTypes ==
  /\ liveNums \subseteq everNums /\ everNums \subseteq ImageNums
  /\ mainNum \in (IF liveNums = {} THEN {0} ELSE liveNums)
  /\ counted \subseteq liveNums /\ crateFiles \subseteq everNums
  /\ image \in Images
  /\ imageRows \in [ImageJobs -> 0..MaxImageRows]
  /\ imageRun \in [ImageWorkers -> ImageRuns]
  /\ extras \in 0..MaxExtras
  /\ lost \in BOOLEAN

\* The step of a worker tells what its job is.
RunFits ==
  \A w \in ImageWorkers :
    /\ imageRun[w].step = "idle" <=> imageRun[w] = NoRun
    /\ imageRun[w].step \in DrawSteps \cup {"upload"} <=> Drawing(w)
    /\ imageRun[w].step \in {"default", "enqueue"} <=> imageRun[w].job = DefaultVersion
    /\ imageRun[w].step \in CountSteps =>
         imageRun[w].job.num \in ImageNums /\ imageRun[w].job = Analyze(imageRun[w].job.num)
    /\ imageRun[w].step = "delete" <=> imageRun[w].job = DeleteFromStorage

\* The files of a crate are deleted only once it is gone, and it does not come back.
DeletionIsFinal ==
  imageRows[DeleteFromStorage] > 0 \/ (\E w \in ImageWorkers : imageRun[w].step = "delete") =>
    liveNums = {} /\ everNums # {}

\* What the image is to show.
Wanted == [num |-> mainNum, lines |-> mainNum \in counted]

\* A job or a run that is still to draw the image, or to enqueue that.
Comes(w) ==
  \/ imageRun[w].step \in DrawSteps \cup {"default", "enqueue"}
  \/ imageRun[w].step \in CountSteps /\ imageRun[w].job.num = mainNum
Waits == \E j \in OgImages \cup {DefaultVersion, Analyze(mainNum)} : imageRows[j] > 0
Coming == Waits \/ \E w \in ImageWorkers : Comes(w)

\* What is in storage, or on its way to it, is what the image is to show.
Current ==
  /\ \A w \in ImageWorkers : imageRun[w].step = "upload" => imageRun[w].seen = Wanted
  /\ (\A w \in ImageWorkers : imageRun[w].step # "upload") => image = Wanted

\* As long as nothing is lost one run draws at a time, and the image is current or will be.
OneDrawing == ~ lost => \A v, w \in ImageWorkers : Drawing(v) /\ Drawing(w) => v = w
ImageFollows == ~ lost /\ liveNums # {} => Coming \/ Current

ImageInd == ImageTypes /\ RunFits /\ DeletionIsFinal /\ OneDrawing /\ ImageFollows

\* Jobs tell what they are about.
LEMMA ImageJobsApart ==
  /\ \A j \in OgImages : j \in ImageJobs /\ j.kind \in DrawSteps /\ j # DefaultVersion /\ j # DeleteFromStorage /\ j # NoRun.job
  /\ \A n \in ImageNums :
       /\ Analyze(n) \in ImageJobs /\ Analyze(n).kind = "analyze" /\ Analyze(n).num = n
       /\ Analyze(n) \notin OgImages \cup {DefaultVersion, DeleteFromStorage, NoRun.job}
  /\ DefaultVersion \in ImageJobs /\ DefaultVersion.kind = "default"
  /\ DeleteFromStorage \in ImageJobs /\ DeleteFromStorage.kind = "delete"
  /\ DefaultVersion # DeleteFromStorage /\ NoRun.job \notin {DefaultVersion, DeleteFromStorage}
  /\ NoRun.step = "idle" /\ NoRun.job \notin OgImages /\ OgImage \in OgImages
  /\ \A j \in ImageJobs :
       j \in OgImages \/ j = DefaultVersion \/ j = DeleteFromStorage \/ (j.num \in ImageNums /\ j = Analyze(j.num))
  <1> USE DEF OgImages, OgImage, OgImageLow, OgImageQuiet, DefaultVersion, DeleteFromStorage, NoRun
  <1>1. \A j \in OgImages : j \in ImageJobs /\ j # DefaultVersion /\ j # DeleteFromStorage /\ j # NoRun.job
    BY DEF ImageJobs
  <1>2. \A j \in OgImages : j.kind \in DrawSteps
    BY DEF DrawSteps
  <1>3. \A n \in ImageNums :
          /\ Analyze(n) \in ImageJobs /\ Analyze(n).kind = "analyze" /\ Analyze(n).num = n
          /\ Analyze(n) \notin OgImages \cup {DefaultVersion, DeleteFromStorage, NoRun.job}
    BY DEF ImageJobs, Analyze
  <1>4. /\ DefaultVersion \in ImageJobs /\ DefaultVersion.kind = "default"
        /\ DeleteFromStorage \in ImageJobs /\ DeleteFromStorage.kind = "delete"
        /\ DefaultVersion # DeleteFromStorage /\ NoRun.job \notin {DefaultVersion, DeleteFromStorage}
        /\ NoRun.step = "idle" /\ NoRun.job \notin OgImages /\ OgImage \in OgImages
    BY DEF ImageJobs
  <1> HIDE DEF OgImages, DefaultVersion, DeleteFromStorage
  <1>5. \A j \in ImageJobs :
          j \in OgImages \/ j = DefaultVersion \/ j = DeleteFromStorage \/ (j.num \in ImageNums /\ j = Analyze(j.num))
    BY <1>3 DEF ImageJobs
  <1> QED
    BY <1>1, <1>2, <1>3, <1>4, <1>5

\* What a job is can be told from its kind.
LEMMA KindOfJob ==
  \A j \in ImageJobs :
    /\ j.kind \in DrawSteps \cup {"default", "delete", "analyze"}
    /\ j.kind \in DrawSteps <=> j \in OgImages
    /\ j.kind = "default" <=> j = DefaultVersion
    /\ j.kind = "delete" <=> j = DeleteFromStorage
    /\ j.kind = "analyze" => j.num \in ImageNums /\ j = Analyze(j.num)
  <1> SUFFICES ASSUME NEW j \in ImageJobs
               PROVE  /\ j.kind \in DrawSteps \cup {"default", "delete", "analyze"}
                      /\ j.kind \in DrawSteps <=> j \in OgImages
                      /\ j.kind = "default" <=> j = DefaultVersion
                      /\ j.kind = "delete" <=> j = DeleteFromStorage
                      /\ j.kind = "analyze" => j.num \in ImageNums /\ j = Analyze(j.num)
    OBVIOUS
  <1>1. CASE j \in OgImages
    <2>1. j.kind \in DrawSteps /\ j # DefaultVersion /\ j # DeleteFromStorage
      BY <1>1, ImageJobsApart
    <2> QED
      BY <1>1, <2>1 DEF DrawSteps
  <1>2. CASE j = DefaultVersion
    <2>1. j.kind = "default" /\ j \notin OgImages /\ j # DeleteFromStorage
      BY <1>2, ImageJobsApart
    <2> QED
      BY <1>2, <2>1 DEF DrawSteps
  <1>3. CASE j = DeleteFromStorage
    <2>1. j.kind = "delete" /\ j \notin OgImages /\ j # DefaultVersion
      BY <1>3, ImageJobsApart
    <2> QED
      BY <1>3, <2>1 DEF DrawSteps
  <1>4. CASE j.num \in ImageNums /\ j = Analyze(j.num)
    <2>1. j.kind = "analyze" /\ j \notin OgImages /\ j # DefaultVersion /\ j # DeleteFromStorage
      BY <1>4, ImageJobsApart
    <2> QED
      BY <1>4, <2>1 DEF DrawSteps
  <1> QED
    BY <1>1, <1>2, <1>3, <1>4, ImageJobsApart

\* A deduplicated enqueue leaves a row of each job, and no other job gets one.
LEMMA EnqueuedRows ==
  ASSUME ImageTypes, NEW js, imageRows' = Enqueued(js)
  PROVE  /\ imageRows' \in [ImageJobs -> 0..MaxImageRows]
         /\ \A j \in ImageJobs : imageRows'[j] > 0 <=> j \in js \/ imageRows[j] > 0
  BY CrateImagesAssumption DEF ImageTypes, Enqueued

\* So does an insertion, where there is room.
LEMMA InsertedRows ==
  ASSUME ImageTypes, NEW js, js \subseteq ImageJobs, Room(js), imageRows' = Inserted(js)
  PROVE  /\ imageRows' \in [ImageJobs -> 0..MaxImageRows]
         /\ \A j \in ImageJobs : imageRows'[j] > 0 <=> j \in js \/ imageRows[j] > 0
  BY CrateImagesAssumption DEF ImageTypes, Inserted, Room

\* A step of one worker leaves the others as they are.
LEMMA ImageRunReplaced ==
  ASSUME ImageTypes, NEW w \in ImageWorkers, NEW r, imageRun' = [imageRun EXCEPT ![w] = r]
  PROVE  imageRun'[w] = r /\ \A v \in ImageWorkers : v # w => imageRun'[v] = imageRun[v]
  BY DEF ImageTypes

\* A step of one run, which ends or goes on with its job: what it stood for stays to come, or it
\* is what makes the image current.
LEMMA RunStepImageInd ==
  ASSUME ImageInd, ImageTypes', NEW w \in ImageWorkers, NEW r, imageRun' = [imageRun EXCEPT ![w] = r],
         UNCHANGED <<liveNums, everNums>>, lost => lost',
         r = NoRun \/ (r.job = imageRun[w].job /\ r.step # "idle"),
         imageRun[w] # NoRun,
         /\ r.step \in DrawSteps \cup {"upload"} <=> r.job \in OgImages
         /\ r.step \in {"default", "enqueue"} <=> r.job = DefaultVersion
         /\ r.step \in CountSteps => r.job.num \in ImageNums /\ r.job = Analyze(r.job.num)
         /\ r.step = "delete" <=> r.job = DeleteFromStorage,
         \A j \in ImageJobs : imageRows[j] > 0 => imageRows'[j] > 0,
         imageRows'[DeleteFromStorage] > 0 => imageRows[DeleteFromStorage] > 0 \/ imageRun[w].step = "delete",
         ~ lost' /\ liveNums # {} =>
           \/ imageRows'[DefaultVersion] > 0 \/ imageRows'[OgImage] > 0 \/ Comes(w)' \/ Waits'
           \/ /\ mainNum' = mainNum /\ ~ Comes(w) /\ Wanted' = Wanted
              /\ \/ image' = image /\ imageRun[w].step # "upload" /\ r.step # "upload"
                 \/ image' = imageRun[w].seen /\ imageRun[w].step = "upload" /\ r.step # "upload"
           \/ /\ mainNum' = mainNum /\ Wanted' = Wanted /\ image' = image
              /\ Drawing(w) /\ r.step = "upload" /\ r.seen = Wanted
  PROVE  ImageInd'
  <1>1. imageRun'[w] = r /\ \A v \in ImageWorkers : v # w => imageRun'[v] = imageRun[v]
    BY ImageRunReplaced DEF ImageInd
  <1>2. RunFits'
    BY <1>1, ImageJobsApart DEF ImageInd, RunFits, Drawing
  <1>3. OneDrawing'
    BY <1>1, ImageJobsApart DEF ImageInd, OneDrawing, Drawing
  <1>4. DeletionIsFinal'
    BY <1>1, ImageJobsApart DEF ImageInd, DeletionIsFinal, RunFits
  <1>5. ImageFollows'
    <2> SUFFICES ASSUME ~ lost', liveNums # {} PROVE Coming' \/ Current'
      BY DEF ImageFollows
    <2>1. CASE imageRows'[DefaultVersion] > 0 \/ imageRows'[OgImage] > 0 \/ Comes(w)' \/ Waits'
      BY <2>1, ImageJobsApart DEF Coming, Waits
    <2>2. CASE /\ mainNum' = mainNum /\ ~ Comes(w) /\ Wanted' = Wanted
               /\ \/ image' = image /\ imageRun[w].step # "upload" /\ r.step # "upload"
                  \/ image' = imageRun[w].seen /\ imageRun[w].step = "upload" /\ r.step # "upload"
      <3>1. Waits => Waits'
        <4>1. mainNum \in ImageNums
          BY DEF ImageInd, ImageTypes
        <4> QED
          BY <2>2, <4>1, ImageJobsApart DEF Waits
      <3>2. (\E v \in ImageWorkers : Comes(v)) => \E v \in ImageWorkers : Comes(v)'
        BY <1>1, <2>2 DEF Comes
      <3>3. Current => Current'
        <4>1. CASE image' = image /\ imageRun[w].step # "upload" /\ r.step # "upload"
          BY <1>1, <2>2, <4>1 DEF Current
        <4>2. CASE image' = imageRun[w].seen /\ imageRun[w].step = "upload" /\ r.step # "upload"
          BY <1>1, <2>2, <4>2 DEF Current
        <4> QED
          BY <2>2, <4>1, <4>2
      <3> QED
        BY <3>1, <3>2, <3>3 DEF ImageInd, ImageFollows, Coming
    <2>3. CASE /\ mainNum' = mainNum /\ Wanted' = Wanted /\ image' = image
               /\ Drawing(w) /\ r.step = "upload" /\ r.seen = Wanted
      <3>1. \A v \in ImageWorkers : v # w => imageRun[v].step # "upload"
        BY <2>3 DEF ImageInd, OneDrawing, RunFits
      <3> QED
        BY <1>1, <2>3, <3>1 DEF Current
    <2> QED
      BY <2>1, <2>2, <2>3
  <1> QED
    BY <1>2, <1>3, <1>4, <1>5 DEF ImageInd

\* A run starts.
LEMMA StartImageInd ==
  ASSUME ImageInd, NEW w \in ImageWorkers, NEW j \in ImageJobs, StartImageJob(w, j)
  PROVE  ImageInd'
  <1> DEFINE r == [job |-> j, step |-> j.kind, seen |-> NoImage]
  <1>1. /\ imageRun[w] = NoRun /\ imageRows[j] > 0
        /\ imageRows' = [imageRows EXCEPT ![j] = imageRows[j] - 1]
        /\ imageRun' = [imageRun EXCEPT ![w] = r]
        /\ lost' = (lost \/ (j \in OgImages /\ \E v \in ImageWorkers : Drawing(v)))
        /\ UNCHANGED <<liveNums, everNums, mainNum, counted, crateFiles, image, extras>>
    BY DEF StartImageJob
  <1>2. NoRun \in ImageRuns
    BY DEF ImageRuns, NoRun, NoImage, Images
  <1>3. r.job = j /\ r.step = j.kind /\ r.step # "idle" /\ r.step # "upload" /\ r \in ImageRuns
    <2>1. j.kind \in DrawSteps \cup {"default", "delete", "analyze"}
      BY KindOfJob
    <2>2. NoImage \in Images
      BY DEF NoImage, Images
    <2> QED
      BY <2>1, <2>2 DEF ImageRuns, DrawSteps, CountSteps
  <1> HIDE DEF r
  <1>4. imageRun'[w] = r /\ \A v \in ImageWorkers : v # w => imageRun'[v] = imageRun[v]
    BY <1>1, ImageRunReplaced DEF ImageInd
  <1>5. ImageTypes'
    <2>1. imageRows' \in [ImageJobs -> 0..MaxImageRows]
      BY <1>1, CrateImagesAssumption DEF ImageInd, ImageTypes
    <2>2. lost' \in BOOLEAN
      BY <1>1 DEF ImageInd, ImageTypes
    <2> QED
      BY <1>1, <1>3, <2>1, <2>2 DEF ImageInd, ImageTypes
  <1>6. RunFits'
    <2>1. \A v \in ImageWorkers : v # w => (Drawing(v)' <=> Drawing(v))
      BY <1>4 DEF Drawing
    <2>2. r.step \in DrawSteps <=> r.job \in OgImages
      BY <1>3, ImageJobsApart DEF DrawSteps
    <2>3. /\ r.step \in {"default", "enqueue"} <=> r.job = DefaultVersion
          /\ r.step \in CountSteps => r.job.num \in ImageNums /\ r.job = Analyze(r.job.num)
          /\ r.step = "delete" <=> r.job = DeleteFromStorage
      BY <1>3, ImageJobsApart DEF DrawSteps, CountSteps
    <2> QED
      BY <1>3, <1>4, <2>1, <2>2, <2>3, ImageJobsApart DEF ImageInd, RunFits, Drawing
  <1>7. DeletionIsFinal'
    <2>1. imageRows'[DeleteFromStorage] > 0 => imageRows[DeleteFromStorage] > 0
      BY <1>1, ImageJobsApart DEF ImageInd, ImageTypes
    <2>2. r.step = "delete" => imageRows[DeleteFromStorage] > 0
      BY <1>1, <1>3, KindOfJob
    <2> QED
      BY <1>1, <1>4, <2>1, <2>2 DEF ImageInd, DeletionIsFinal
  <1>8. OneDrawing'
    <2>1. \A v \in ImageWorkers : v # w => (Drawing(v)' <=> Drawing(v))
      BY <1>4 DEF Drawing
    <2>2. Drawing(w)' <=> j \in OgImages
      BY <1>3, <1>4 DEF Drawing
    <2> QED
      BY <1>1, <2>1, <2>2 DEF ImageInd, OneDrawing
  <1>9. ImageFollows'
    <2> SUFFICES ASSUME ~ lost', liveNums # {} PROVE Coming' \/ Current'
      BY <1>1 DEF ImageFollows
    <2>1. ~ lost /\ mainNum \in ImageNums /\ Wanted' = Wanted
      BY <1>1 DEF ImageInd, ImageTypes, Wanted
    <2>2. CASE j \in OgImages \cup {DefaultVersion, Analyze(mainNum)}
      <3>1. j.kind \in DrawSteps \cup {"default"} \/ (j.kind = "analyze" /\ j.num = mainNum)
        BY <2>1, <2>2, ImageJobsApart
      <3>2. Comes(w)'
        BY <1>1, <1>3, <1>4, <3>1 DEF Comes, CountSteps
      <3> QED
        BY <3>2 DEF Coming
    <2>3. CASE j \notin OgImages \cup {DefaultVersion, Analyze(mainNum)}
      <3>1. Waits => Waits'
        BY <1>1, <2>1, <2>3, ImageJobsApart DEF Waits, ImageInd, ImageTypes
      <3>2. ~ Comes(w)
        BY <1>1, ImageJobsApart DEF Comes, DrawSteps, CountSteps
      <3>3. \A v \in ImageWorkers : Comes(v) => Comes(v)'
        BY <1>1, <1>4, <3>2 DEF Comes
      <3>4. Current => Current'
        BY <1>1, <1>3, <1>4, <2>1, ImageJobsApart DEF Current
      <3> QED
        BY <2>1, <3>1, <3>3, <3>4 DEF ImageInd, ImageFollows, Coming
    <2> QED
      BY <2>2, <2>3
  <1> QED
    BY <1>5, <1>6, <1>7, <1>8, <1>9 DEF ImageInd


\* Every step of the crate and of the tools preserves it.
LEMMA CrateImageInd ==
  ASSUME ImageInd,
         \/ \E n \in ImageNums : PublishFirst(n)
         \/ \E n \in ImageNums, better \in BOOLEAN : PublishNext(n, better)
         \/ YankOrUnyank
         \/ DeleteCrateOfImage
         \/ \E n, d \in liveNums : DeleteVersionOfImage(n, d)
         \/ \E ns \in SUBSET liveNums : AnalyzeCrates(ns)
         \/ \E j \in ImageJobs : RenderOgImages(j)
  PROVE  ImageInd'
  <1>0. /\ liveNums \subseteq ImageNums /\ mainNum \in (IF liveNums = {} THEN {0} ELSE liveNums)
        /\ ImageTypes /\ DefaultVersion \in ImageJobs /\ DeleteFromStorage \in ImageJobs /\ OgImage \in ImageJobs
        /\ imageRows[DeleteFromStorage] \in Nat /\ MaxExtras \in Nat
    BY ImageJobsApart, CrateImagesAssumption DEF ImageInd, ImageTypes
  <1>1. ASSUME NEW n \in ImageNums, PublishFirst(n) PROVE ImageInd'
    <2> DEFINE js == {Analyze(n), OgImage}
    <2>1. /\ everNums = {} /\ everNums' = {n} /\ liveNums' = {n} /\ crateFiles' = {n} /\ mainNum' = n
          /\ imageRows' = Enqueued(js)
          /\ UNCHANGED <<counted, image, imageRun, extras, lost>>
      BY <1>1 DEF PublishFirst
    <2>2. OgImage \in js /\ DeleteFromStorage \notin js
      BY ImageJobsApart
    <2> HIDE DEF js
    <2>3. /\ imageRows' \in [ImageJobs -> 0..MaxImageRows]
          /\ \A j \in ImageJobs : imageRows'[j] > 0 <=> j \in js \/ imageRows[j] > 0
      BY <1>0, <2>1, EnqueuedRows
    <2>4. liveNums = {} /\ counted = {}
      BY <2>1 DEF ImageInd, ImageTypes
    <2>5. ImageTypes'
      BY <1>0, <2>1, <2>3, <2>4 DEF ImageTypes
    <2>6. RunFits' /\ OneDrawing'
      BY <2>1 DEF ImageInd, RunFits, OneDrawing, Drawing
    <2>7. ~ (imageRows[DeleteFromStorage] > 0) /\ \A w \in ImageWorkers : imageRun[w].step # "delete"
      BY <2>1 DEF ImageInd, DeletionIsFinal
    <2>8. DeletionIsFinal'
      BY <1>0, <2>1, <2>2, <2>3, <2>7 DEF DeletionIsFinal
    <2>9. ImageFollows'
      BY <1>0, <2>2, <2>3, ImageJobsApart DEF ImageFollows, Coming, Waits
    <2> QED
      BY <2>5, <2>6, <2>8, <2>9 DEF ImageInd
  <1>2. ASSUME ImageTypes', UNCHANGED <<image, imageRun>>, lost => lost', liveNums # {}, liveNums' # {},
               everNums \subseteq everNums', NEW js, DeleteFromStorage \notin js,
               \A j \in ImageJobs : imageRows'[j] > 0 <=> j \in js \/ imageRows[j] > 0,
               ~ lost' => DefaultVersion \in js \/ (mainNum' = mainNum /\ Wanted' = Wanted)
        PROVE  ImageInd'
    <2>1. RunFits' /\ OneDrawing'
      BY <1>2 DEF ImageInd, RunFits, OneDrawing, Drawing
    <2>2. DeletionIsFinal'
      BY <1>0, <1>2 DEF ImageInd, DeletionIsFinal
    <2>3. CASE DefaultVersion \in js \/ lost'
      <3>1. ImageFollows'
        BY <1>0, <1>2, <2>3 DEF ImageFollows, Coming, Waits
      <3> QED
        BY <1>2, <2>1, <2>2, <3>1 DEF ImageInd
    <2>4. CASE ~ lost' /\ mainNum' = mainNum /\ Wanted' = Wanted
      <3>1. mainNum \in ImageNums
        BY <1>0, <1>2
      <3>2. Waits => Waits'
        BY <1>2, <2>4, <3>1, ImageJobsApart DEF Waits
      <3>3. \A w \in ImageWorkers : Comes(w) => Comes(w)'
        BY <1>2, <2>4 DEF Comes
      <3>4. Current => Current'
        BY <1>2, <2>4 DEF Current
      <3>5. ImageFollows'
        BY <1>2, <2>4, <3>2, <3>3, <3>4 DEF ImageInd, ImageFollows, Coming
      <3> QED
        BY <1>2, <2>1, <2>2, <3>5 DEF ImageInd
    <2> QED
      BY <1>2, <2>3, <2>4
  <1>3. ASSUME NEW n \in ImageNums, NEW better \in BOOLEAN, PublishNext(n, better) PROVE ImageInd'
    <2> DEFINE js == {Analyze(n), DefaultVersion}
    <2>1. /\ liveNums # {} /\ liveNums' = liveNums \cup {n} /\ everNums' = everNums \cup {n}
          /\ crateFiles' = crateFiles \cup {n} /\ mainNum' \in liveNums'
          /\ imageRows' = Enqueued(js)
          /\ UNCHANGED <<counted, image, imageRun, extras, lost>>
      BY <1>0, <1>3 DEF PublishNext
    <2>2. DefaultVersion \in js /\ DeleteFromStorage \notin js
      BY ImageJobsApart
    <2> HIDE DEF js
    <2>3. /\ imageRows' \in [ImageJobs -> 0..MaxImageRows]
          /\ \A j \in ImageJobs : imageRows'[j] > 0 <=> j \in js \/ imageRows[j] > 0
      BY <1>0, <2>1, EnqueuedRows
    <2>4. ImageTypes'
      BY <1>0, <2>1, <2>3 DEF ImageTypes
    <2> QED
      BY <1>2, <2>1, <2>2, <2>3, <2>4
  <1>4. CASE YankOrUnyank
    <2>1. /\ liveNums # {} /\ extras' \in 0..MaxExtras /\ imageRows' = Enqueued({DefaultVersion})
          /\ UNCHANGED <<liveNums, everNums, mainNum, counted, crateFiles, image, imageRun, lost>>
      BY <1>0, <1>4 DEF YankOrUnyank, Extra, ImageTypes
    <2>2. /\ imageRows' \in [ImageJobs -> 0..MaxImageRows]
          /\ \A j \in ImageJobs : imageRows'[j] > 0 <=> j \in {DefaultVersion} \/ imageRows[j] > 0
      BY <1>0, <2>1, EnqueuedRows
    <2>3. ImageTypes'
      BY <1>0, <2>1, <2>2 DEF ImageTypes
    <2> QED
      BY <1>2, <2>1, <2>2, <2>3, ImageJobsApart
  <1>5. CASE DeleteCrateOfImage
    <2>1. /\ liveNums # {} /\ liveNums' = {} /\ counted' = {} /\ mainNum' = 0
          /\ imageRows' = Enqueued({DeleteFromStorage})
          /\ UNCHANGED <<everNums, crateFiles, image, imageRun, extras, lost>>
      BY <1>5 DEF DeleteCrateOfImage
    <2>2. imageRows' \in [ImageJobs -> 0..MaxImageRows]
      BY <1>0, <2>1, EnqueuedRows
    <2>3. ImageTypes'
      BY <1>0, <2>1, <2>2 DEF ImageTypes
    <2>4. RunFits' /\ OneDrawing' /\ ImageFollows'
      BY <2>1 DEF ImageInd, RunFits, OneDrawing, ImageFollows, Drawing
    <2>5. DeletionIsFinal'
      BY <1>0, <2>1 DEF DeletionIsFinal, ImageTypes
    <2> QED
      BY <2>3, <2>4, <2>5 DEF ImageInd
  <1>6. ASSUME NEW n \in liveNums, NEW d \in liveNums, DeleteVersionOfImage(n, d) PROVE ImageInd'
    <2>1. /\ d # n /\ liveNums' = liveNums \ {n} /\ counted' = counted \ {n} /\ crateFiles' = crateFiles \ {n}
          /\ mainNum' = d /\ lost' = (lost \/ d # mainNum)
          /\ UNCHANGED <<everNums, image, imageRows, imageRun, extras>>
      BY <1>6 DEF DeleteVersionOfImage
    <2>2. ImageTypes'
      BY <1>0, <2>1 DEF ImageTypes
    <2>3. ~ lost' => mainNum' = mainNum /\ Wanted' = Wanted
      <3>1. SUFFICES ASSUME d = mainNum PROVE (d \in counted') = (mainNum \in counted)
        BY <2>1 DEF Wanted
      <3> QED
        BY <2>1, <3>1
    <2>4. DeleteFromStorage \notin {}
      OBVIOUS
    <2>5. \A j \in ImageJobs : imageRows'[j] > 0 <=> j \in {} \/ imageRows[j] > 0
      BY <2>1
    <2>6. liveNums # {} /\ liveNums' # {} /\ (lost => lost') /\ everNums \subseteq everNums' /\ UNCHANGED <<image, imageRun>>
      BY <2>1
    <2> QED
      BY <1>2, <2>2, <2>3, <2>4, <2>5, <2>6
  <1>7. ASSUME liveNums # {}, NEW js \in SUBSET ImageJobs, DeleteFromStorage \notin js, Room(js), imageRows' = Inserted(js),
               Extra, UNCHANGED <<liveNums, everNums, mainNum, counted, crateFiles, image, imageRun, lost>>
        PROVE  ImageInd'
    <2>1. /\ imageRows' \in [ImageJobs -> 0..MaxImageRows]
          /\ \A j \in ImageJobs : imageRows'[j] > 0 <=> j \in js \/ imageRows[j] > 0
      BY <1>0, <1>7, InsertedRows
    <2>2. extras' \in 0..MaxExtras
      BY <1>0, <1>7 DEF Extra, ImageTypes
    <2>3. ImageTypes' /\ Wanted' = Wanted
      BY <1>0, <1>7, <2>1, <2>2 DEF ImageTypes, Wanted
    <2> QED
      BY <1>2, <1>7, <2>1, <2>3
  <1>8. ASSUME NEW ns \in SUBSET liveNums, AnalyzeCrates(ns) PROVE ImageInd'
    <2> DEFINE js == {Analyze(n) : n \in ns}
    <2>1. js \in SUBSET ImageJobs /\ DeleteFromStorage \notin js
      BY <1>0, ImageJobsApart
    <2>2. /\ liveNums # {} /\ Room(js) /\ imageRows' = Inserted(js) /\ Extra
          /\ UNCHANGED <<liveNums, everNums, mainNum, counted, crateFiles, image, imageRun, lost>>
      BY <1>8 DEF AnalyzeCrates
    <2> HIDE DEF js
    <2> QED
      BY <1>7, <2>1, <2>2
  <1>9. ASSUME NEW j \in ImageJobs, RenderOgImages(j) PROVE ImageInd'
    <2>1. {j} \in SUBSET ImageJobs /\ DeleteFromStorage \notin {j}
      BY <1>9, ImageJobsApart DEF RenderOgImages, OgImages
    <2> QED
      BY <1>7, <1>9, <2>1 DEF RenderOgImages
  <1> QED
    BY <1>1, <1>3, <1>4, <1>5, <1>6, <1>8, <1>9


\* The steps of the runs preserve it.
LEMMA RunsImageInd ==
  ASSUME ImageInd, NEW w \in ImageWorkers,
         \/ \E n \in ImageNums : UpdateDefault(w, n)
         \/ EnqueueImage(w)
         \/ LookUpVersion(w)
         \/ CountLines(w)
         \/ \E error \in BOOLEAN : CheckDefault(w, error)
         \/ FetchCrateData(w)
         \/ UploadImage(w)
         \/ DeleteImage(w)
         \/ ImageJobFails(w)
  PROVE  ImageInd'
  <1> DEFINE job == imageRun[w].job
             step == imageRun[w].step
             r(s) == [imageRun[w] EXCEPT !.step = s]
  <1>0. /\ ImageTypes /\ liveNums \subseteq ImageNums /\ mainNum \in (IF liveNums = {} THEN {0} ELSE liveNums)
        /\ imageRun[w] \in ImageRuns
        /\ \A j \in ImageJobs : imageRows[j] \in 0..MaxImageRows
    BY DEF ImageInd, ImageTypes
  <1>1. /\ job \in ImageJobs \cup {NoRun.job} /\ imageRun[w].seen \in Images
        /\ step \in DrawSteps \cup CountSteps \cup {"idle", "upload", "default", "enqueue", "delete"}
    BY <1>0 DEF ImageRuns
  <1>2. /\ step \in DrawSteps \cup {"upload"} => job \in OgImages
        /\ step \in {"default", "enqueue"} => job = DefaultVersion
        /\ step \in CountSteps => job.num \in ImageNums /\ job = Analyze(job.num)
        /\ step = "delete" => job = DeleteFromStorage
        /\ imageRun[w] # NoRun <=> step # "idle"
    BY DEF ImageInd, RunFits, Drawing
  <1>3. NoRun \in ImageRuns /\ NoRun.step = "idle" /\ NoRun.job \notin OgImages \cup {DefaultVersion, DeleteFromStorage}
    BY ImageJobsApart DEF ImageRuns, NoRun, NoImage, Images
  <1>4. /\ NoRun.step \in DrawSteps \cup {"upload"} <=> NoRun.job \in OgImages
        /\ NoRun.step \in {"default", "enqueue"} <=> NoRun.job = DefaultVersion
        /\ NoRun.step \in CountSteps => NoRun.job.num \in ImageNums /\ NoRun.job = Analyze(NoRun.job.num)
        /\ NoRun.step = "delete" <=> NoRun.job = DeleteFromStorage
        /\ NoRun.step # "upload"
    BY <1>3 DEF DrawSteps, CountSteps
  <1>5. ASSUME NEW s \in DrawSteps \cup CountSteps \cup {"upload", "default", "enqueue", "delete"}
        PROVE  r(s) \in ImageRuns /\ r(s).step = s /\ r(s).job = job /\ r(s).seen = imageRun[w].seen
    BY <1>0 DEF ImageRuns
  <1> HIDE DEF r
  \* A run that ends.
  <1>6. ASSUME step # "idle", EndOfRun(w), ImageTypes',
               UNCHANGED <<liveNums, everNums>>, lost => lost',
               \A j \in ImageJobs : imageRows[j] > 0 => imageRows'[j] > 0,
               imageRows'[DeleteFromStorage] > 0 => imageRows[DeleteFromStorage] > 0 \/ step = "delete",
               ~ lost' /\ liveNums # {} =>
                 \/ imageRows'[DefaultVersion] > 0 \/ imageRows'[OgImage] > 0 \/ Waits'
                 \/ /\ mainNum' = mainNum /\ ~ Comes(w) /\ Wanted' = Wanted
                    /\ \/ image' = image /\ step # "upload"
                       \/ image' = imageRun[w].seen /\ step = "upload"
        PROVE  ImageInd'
    <2>1. imageRun' = [imageRun EXCEPT ![w] = NoRun]
      BY <1>6 DEF EndOfRun
    <2> QED
      BY <1>2, <1>4, <1>6, <2>1, RunStepImageInd
  \* It is typed.
  <1>7. ASSUME EndOfRun(w), UNCHANGED <<liveNums, everNums, mainNum, counted, crateFiles, image, imageRows, extras, lost>>
        PROVE  ImageTypes'
    BY <1>0, <1>3, <1>7 DEF ImageTypes, EndOfRun
  <1>8. CASE EnqueueImage(w)
    <2>1. /\ step = "enqueue" /\ EndOfRun(w) /\ (liveNums # {} => imageRows' = Enqueued({OgImage}))
          /\ liveNums = {} => imageRows' = imageRows
          /\ UNCHANGED <<liveNums, everNums, mainNum, counted, crateFiles, image, extras, lost>>
      BY <1>8 DEF EnqueueImage
    <2>2. /\ imageRows' \in [ImageJobs -> 0..MaxImageRows]
          /\ \A j \in ImageJobs : imageRows[j] > 0 => imageRows'[j] > 0
          /\ liveNums # {} => imageRows'[OgImage] > 0
          /\ imageRows'[DeleteFromStorage] > 0 => imageRows[DeleteFromStorage] > 0
      BY <1>0, <2>1, EnqueuedRows, ImageJobsApart DEF ImageTypes
    <2>3. ImageTypes'
      BY <1>0, <1>3, <2>1, <2>2 DEF ImageTypes, EndOfRun
    <2> QED
      BY <1>6, <2>1, <2>2, <2>3
  <1>9. ASSUME NEW n \in ImageNums, UpdateDefault(w, n) PROVE ImageInd'
    <2>1. CASE liveNums = {}
      <3>1. /\ step = "default" /\ EndOfRun(w)
            /\ UNCHANGED <<liveNums, everNums, mainNum, counted, crateFiles, image, imageRows, extras, lost>>
        BY <1>9, <2>1 DEF UpdateDefault
      <3> QED
        BY <1>6, <1>7, <2>1, <3>1
    <2>2. CASE liveNums # {}
      <3>1. /\ step = "default" /\ mainNum' \in liveNums /\ imageRun' = [imageRun EXCEPT ![w] = r("enqueue")]
            /\ UNCHANGED <<liveNums, everNums, counted, crateFiles, image, imageRows, extras, lost>>
        BY <1>9, <2>2 DEF UpdateDefault, r
      <3>2. r("enqueue") \in ImageRuns /\ r("enqueue").step = "enqueue" /\ r("enqueue").job = DefaultVersion
        BY <1>2, <1>5, <3>1
      <3>3. ImageTypes'
        BY <1>0, <3>1, <3>2 DEF ImageTypes
      <3>4. Comes(w)'
        BY <1>0, <3>1, <3>2 DEF Comes, ImageTypes
      <3> QED
        BY <1>2, <3>1, <3>2, <3>3, <3>4, ImageJobsApart, RunStepImageInd DEF DrawSteps, CountSteps
    <2> QED
      BY <2>1, <2>2
  <1>10. CASE LookUpVersion(w)
    <2>1. CASE job.num \notin liveNums
      <3>1. /\ step = "analyze" /\ EndOfRun(w)
            /\ UNCHANGED <<liveNums, everNums, mainNum, counted, crateFiles, image, imageRows, extras, lost>>
        BY <1>10, <2>1 DEF LookUpVersion
      <3>2. liveNums # {} => ~ Comes(w) /\ Wanted' = Wanted
        BY <1>0, <2>1, <3>1 DEF Comes, DrawSteps, Wanted
      <3> QED
        BY <1>6, <1>7, <3>1, <3>2
    <2>2. CASE job.num \in liveNums
      <3>1. /\ step = "analyze" /\ imageRun' = [imageRun EXCEPT ![w] = r("download")]
            /\ UNCHANGED <<liveNums, everNums, mainNum, counted, crateFiles, image, imageRows, extras, lost>>
        BY <1>10, <2>2 DEF LookUpVersion, r
      <3>2. r("download") \in ImageRuns /\ r("download").step = "download" /\ r("download").job = job
        BY <1>5 DEF CountSteps
      <3>3. ImageTypes'
        BY <1>0, <3>1, <3>2 DEF ImageTypes
      <3>4. job.num \in ImageNums /\ job = Analyze(job.num) /\ job \notin OgImages \cup {DefaultVersion, DeleteFromStorage}
        BY <1>2, <3>1, ImageJobsApart DEF CountSteps
      <3>5. Comes(w)' \/ ~ Comes(w)
        BY <1>0, <3>1, <3>2 DEF Comes, ImageTypes, CountSteps, DrawSteps
      <3>6. Wanted' = Wanted
        BY <3>1 DEF Wanted
      <3> QED
        BY <1>2, <3>1, <3>2, <3>3, <3>4, <3>5, <3>6, RunStepImageInd DEF DrawSteps, CountSteps
    <2> QED
      BY <2>1, <2>2
  <1>11. CASE CountLines(w)
    <2>1. /\ step = "download" /\ counted' = counted \cup ({job.num} \cap liveNums)
          /\ imageRun' = [imageRun EXCEPT ![w] = r("check")]
          /\ UNCHANGED <<liveNums, everNums, mainNum, crateFiles, image, imageRows, extras, lost>>
      BY <1>11 DEF CountLines, r
    <2>2. r("check") \in ImageRuns /\ r("check").step = "check" /\ r("check").job = job
      BY <1>5 DEF CountSteps
    <2>3. ImageTypes'
      BY <1>0, <2>1, <2>2 DEF ImageTypes
    <2>4. job.num \in ImageNums /\ job = Analyze(job.num) /\ job \notin OgImages \cup {DefaultVersion, DeleteFromStorage}
      BY <1>2, <2>1, ImageJobsApart DEF CountSteps
    <2>5. job.num = mainNum => Comes(w)'
      BY <1>0, <2>1, <2>2 DEF Comes, ImageTypes, CountSteps
    <2>6. job.num # mainNum => ~ Comes(w) /\ Wanted' = Wanted
      <3>1. job.num # mainNum => (mainNum \in counted') = (mainNum \in counted)
        BY <2>1
      <3> QED
        BY <2>1, <3>1 DEF Comes, DrawSteps, Wanted
    <2> QED
      BY <1>2, <2>1, <2>2, <2>3, <2>4, <2>5, <2>6, RunStepImageInd DEF DrawSteps, CountSteps
  <1>12. ASSUME NEW error \in BOOLEAN, CheckDefault(w, error) PROVE ImageInd'
    <2>1. /\ step = "check" /\ EndOfRun(w) /\ lost' = (lost \/ error)
          /\ imageRows' = IF job.num = mainNum /\ ~ error THEN Enqueued({OgImage}) ELSE imageRows
          /\ UNCHANGED <<liveNums, everNums, mainNum, counted, crateFiles, image, extras>>
      BY <1>12 DEF CheckDefault
    <2>2. /\ imageRows' \in [ImageJobs -> 0..MaxImageRows]
          /\ \A j \in ImageJobs : imageRows[j] > 0 => imageRows'[j] > 0
          /\ job.num = mainNum /\ ~ error => imageRows'[OgImage] > 0
          /\ imageRows'[DeleteFromStorage] > 0 => imageRows[DeleteFromStorage] > 0
      <3>1. CASE job.num = mainNum /\ ~ error
        <4>1. imageRows' = Enqueued({OgImage})
          BY <2>1, <3>1
        <4>2. /\ imageRows' \in [ImageJobs -> 0..MaxImageRows]
              /\ \A j \in ImageJobs : imageRows'[j] > 0 <=> j \in {OgImage} \/ imageRows[j] > 0
          BY <1>0, <4>1, EnqueuedRows
        <4> QED
          BY <3>1, <4>2, ImageJobsApart
      <3>2. CASE ~ (job.num = mainNum /\ ~ error)
        BY <1>0, <2>1, <3>2 DEF ImageTypes
      <3> QED
        BY <3>1, <3>2
    <2>3. lost' \in BOOLEAN
      BY <1>0, <2>1 DEF ImageTypes
    <2>4. ImageTypes'
      BY <1>0, <1>3, <2>1, <2>2, <2>3 DEF ImageTypes, EndOfRun
    <2>5. job.num # mainNum => ~ Comes(w)
      BY <2>1 DEF Comes, DrawSteps
    <2>6. Wanted' = Wanted
      BY <2>1 DEF Wanted
    <2> QED
      BY <1>6, <2>1, <2>2, <2>4, <2>5, <2>6
  <1>13. CASE FetchCrateData(w)
    <2>1. step \in DrawSteps /\ UNCHANGED <<liveNums, everNums, mainNum, counted, crateFiles, image, imageRows, extras, lost>>
      BY <1>13 DEF FetchCrateData, DrawSteps
    <2>2. CASE liveNums = {}
      <3>1. EndOfRun(w) /\ step # "idle"
        BY <1>13, <2>2 DEF FetchCrateData
      <3> QED
        BY <1>6, <1>7, <2>1, <2>2, <3>1
    <2>3. CASE liveNums # {}
      <3> DEFINE q == [imageRun[w] EXCEPT !.step = "upload", !.seen = Wanted]
      <3>1. imageRun' = [imageRun EXCEPT ![w] = q]
        BY <1>13, <2>3 DEF FetchCrateData, Wanted
      <3>2. Wanted \in Images
        BY <1>0, <2>3 DEF Wanted, Images
      <3>3. q \in ImageRuns /\ q.step = "upload" /\ q.job = job /\ q.seen = Wanted
        BY <1>0, <3>2 DEF ImageRuns
      <3> HIDE DEF q
      <3>4. ImageTypes'
        BY <1>0, <2>1, <3>1, <3>3 DEF ImageTypes
      <3>5. job \in OgImages /\ Drawing(w) /\ job # DefaultVersion /\ job # DeleteFromStorage
        BY <1>2, <2>1, ImageJobsApart DEF Drawing
      <3>6. Wanted' = Wanted
        BY <2>1 DEF Wanted
      <3>7. imageRun[w] # NoRun
        BY <3>5, ImageJobsApart
      <3> QED
        BY <2>1, <3>1, <3>3, <3>4, <3>5, <3>6, <3>7, RunStepImageInd DEF CountSteps
    <2> QED
      BY <2>2, <2>3
  <1>14. CASE UploadImage(w)
    <2>1. /\ step = "upload" /\ image' = imageRun[w].seen /\ EndOfRun(w)
          /\ UNCHANGED <<liveNums, everNums, mainNum, counted, crateFiles, imageRows, extras, lost>>
      BY <1>14 DEF UploadImage
    <2>2. ImageTypes'
      BY <1>0, <1>1, <1>3, <2>1 DEF ImageTypes, EndOfRun
    <2>3. ~ Comes(w) /\ Wanted' = Wanted
      BY <2>1 DEF Comes, DrawSteps, CountSteps, Wanted
    <2> QED
      BY <1>6, <2>1, <2>2, <2>3
  <1>15. CASE DeleteImage(w)
    <2>1. /\ step = "delete" /\ image' = NoImage /\ crateFiles' = {} /\ EndOfRun(w)
          /\ UNCHANGED <<liveNums, everNums, mainNum, counted, imageRows, extras, lost>>
      BY <1>15 DEF DeleteImage
    <2>2. liveNums = {}
      BY <2>1 DEF ImageInd, DeletionIsFinal
    <2>3. NoImage \in Images
      BY DEF NoImage, Images
    <2>4. ImageTypes'
      BY <1>0, <1>3, <2>1, <2>3 DEF ImageTypes, EndOfRun
    <2> QED
      BY <1>6, <2>1, <2>2, <2>4
  <1>16. CASE ImageJobFails(w)
    <2>1. /\ imageRun[w] # NoRun /\ Extra /\ Room({job}) /\ imageRows' = Inserted({job}) /\ EndOfRun(w)
          /\ UNCHANGED <<liveNums, everNums, mainNum, counted, crateFiles, image, lost>>
      BY <1>16 DEF ImageJobFails
    <2>2. step # "idle" /\ job \in ImageJobs
      BY <1>1, <1>2, <2>1, ImageJobsApart
    <2>3. /\ imageRows' \in [ImageJobs -> 0..MaxImageRows]
          /\ \A j \in ImageJobs : imageRows'[j] > 0 <=> j \in {job} \/ imageRows[j] > 0
      BY <1>0, <2>1, <2>2, InsertedRows
    <2>4. extras' \in 0..MaxExtras
      BY <1>0, <2>1, CrateImagesAssumption DEF Extra, ImageTypes
    <2>5. ImageTypes'
      BY <1>0, <1>3, <2>1, <2>3, <2>4 DEF ImageTypes, EndOfRun
    <2>6. imageRows'[DeleteFromStorage] > 0 => imageRows[DeleteFromStorage] > 0 \/ step = "delete"
      <3>1. job = DeleteFromStorage => step = "delete"
        BY DEF ImageInd, RunFits
      <3> QED
        BY <2>3, <3>1, ImageJobsApart
    <2>7. Wanted' = Wanted
      BY <2>1 DEF Wanted
    <2>8. Comes(w) \/ step = "upload" => Waits'
      <3>1. Comes(w) \/ step = "upload" => job \in OgImages \cup {DefaultVersion, Analyze(mainNum)}
        BY <1>2 DEF Comes
      <3> QED
        BY <2>1, <2>2, <2>3, <3>1 DEF Waits
    <2> QED
      BY <1>6, <2>1, <2>2, <2>3, <2>5, <2>6, <2>7, <2>8
  <1> QED
    BY <1>8, <1>9, <1>10, <1>11, <1>12, <1>13, <1>14, <1>15, <1>16

\* Images: for any versions and workers, once no job waits or runs the image of a crate shows
\* its default version and the lines counted in it, unless two drawings overlapped or an enqueue
\* was lost.
THEOREM ImagesSettle == ImageSpec => []ImageInv
  <1>1. ImageInit => ImageInd
    <2> SUFFICES ASSUME ImageInit PROVE ImageInd
      OBVIOUS
    <2>1. (\A w \in ImageWorkers : imageRun[w] = NoRun) /\ (\A j \in ImageJobs : imageRows[j] = 0)
      BY DEF ImageInit
    <2>2. imageRun \in [ImageWorkers -> ImageRuns] /\ image \in Images
      BY DEF ImageInit, ImageRuns, NoRun, NoImage, Images
    <2>3. imageRows \in [ImageJobs -> 0..MaxImageRows] /\ extras \in 0..MaxExtras
      BY CrateImagesAssumption DEF ImageInit
    <2>4. ImageTypes
      BY <2>2, <2>3 DEF ImageInit, ImageTypes
    <2>5. NoRun.step = "idle" /\ NoRun.job \notin OgImages \cup {DefaultVersion, DeleteFromStorage}
      BY ImageJobsApart
    <2>6. RunFits
      BY <2>1, <2>5 DEF RunFits, Drawing, DrawSteps, CountSteps
    <2> QED
      BY <2>1, <2>4, <2>5, <2>6, ImageJobsApart
         DEF ImageInit, ImageInd, DeletionIsFinal, OneDrawing, ImageFollows, Drawing
  <1>2. ImageInd /\ [ImageNext]_imageVars => ImageInd'
    <2> SUFFICES ASSUME ImageInd, [ImageNext]_imageVars PROVE ImageInd'
      OBVIOUS
    <2>1. CASE UNCHANGED imageVars
      BY <2>1 DEF imageVars, ImageInd, ImageTypes, RunFits, DeletionIsFinal, OneDrawing, ImageFollows, Drawing, Coming,
                  Waits, Comes, Current, Wanted
    <2>2. ASSUME NEW w \in ImageWorkers, NEW j \in ImageJobs, StartImageJob(w, j) PROVE ImageInd'
      BY <2>2, StartImageInd
    <2> QED
      BY <2>1, <2>2, CrateImageInd, RunsImageInd DEF ImageNext
  <1>3. ImageInd => ImageInv
    <2> SUFFICES ASSUME ImageInd PROVE ImageInv
      OBVIOUS
    <2>1. ImageTypeOK
      BY DEF ImageInd, ImageTypes, ImageTypeOK, ImageRuns
    <2>2. ImageSettles
      <3> SUFFICES ASSUME ~ lost, liveNums # {}, \A j \in ImageJobs : imageRows[j] = 0,
                          \A w \in ImageWorkers : imageRun[w] = NoRun
                   PROVE  image = [num |-> mainNum, lines |-> mainNum \in counted]
        BY DEF ImageSettles
      <3>1. mainNum \in ImageNums
        BY DEF ImageInd, ImageTypes
      <3>2. ~ Waits
        BY <3>1, ImageJobsApart DEF Waits
      <3>3. \A w \in ImageWorkers : ~ Comes(w) /\ imageRun[w].step # "upload"
        BY ImageJobsApart DEF Comes, DrawSteps, CountSteps
      <3>4. Current
        BY <3>2, <3>3 DEF ImageInd, ImageFollows, Coming
      <3> QED
        BY <3>3, <3>4 DEF Current, Wanted
    <2> QED
      BY <2>1, <2>2 DEF ImageInv
  <1> QED
    BY <1>1, <1>2, <1>3, PTL DEF ImageSpec

-----------------------------------------------------------------------------
(* Similar names.                                                          *)

Corpora == [state : {"empty", "loading", "ready", "failed", "off"},
            owners : UNION {[top -> SUBSET NameOwners] : top \in SUBSET Names}]
TypoTasks == [name : NewNames \cup {<<>>}, step : {"idle", "cache", "load", "lookup", "owners", "check"},
              owners : SUBSET NameOwners]

TypoTypes ==
  /\ names \subseteq Names /\ fewDownloads \subseteq Names
  /\ ownersOf \in [Names -> SUBSET NameOwners]
  /\ corpus \in Corpora /\ Cardinality(DOMAIN corpus.owners) =< TopCrates
  /\ typoJob \in [NewNames -> {"none", "waits", "runs", "done"}]
  /\ typoTask \in [CheckTasks -> TypoTasks]
  /\ nameChanges \in 0..MaxNameChanges /\ loadFails \in 0..MaxLoadFails
  /\ checkedNames \subseteq NewNames

\* A job runs in one task, and one task loads.
TasksApart ==
  /\ \A t, u \in CheckTasks : typoTask[t].name = typoTask[u].name /\ typoTask[t].name \in NewNames => t = u
  /\ \A n \in NewNames : typoJob[n] = "runs" <=> \E t \in CheckTasks : typoTask[t].name = n
  /\ \A t, u \in CheckTasks : typoTask[t].step = "load" /\ typoTask[u].step = "load" => t = u
  /\ corpus.state = "loading" <=> \E t \in CheckTasks : typoTask[t].step = "load"

\* A task compares with a corpus that is loaded, and with the owners that its crate has now.
TaskFits(k) ==
  /\ k.step # "idle" => k.name \in NewNames
  /\ k.step \in {"lookup", "owners", "check"} => corpus.state = "ready"
  /\ k.step = "check" /\ k.name \notin touched => k.owners = ownersOf[k.name]

\* The corpus knows the owners of now, and all the crates that are certainly among the top ones.
CorpusFits ==
  /\ corpus.state = "off" => ~ notify
  /\ corpus.state = "ready" =>
       \A s \in OldNames \cap DOMAIN corpus.owners : s \notin touched => corpus.owners[s] = ownersOf[s]
  /\ corpus.state \in {"loading", "ready"} /\ touched = {} =>
       \A s \in OldNames : SurelyTop(s) => s \in DOMAIN corpus.owners

NameFits(n) ==
  /\ typoJob[n] = "none" => n \notin checkedNames
  /\ typoJob[n] # "none" /\ n \notin names => n \in touched
  /\ typoJob[n] = "done" => ~ notify \/ n \in checkedNames \/ n \notin names

Suspect(n, s) == Alike(n, s) /\ ownersOf[n] \cap ownersOf[s] = {}

AlarmFits(n, s) ==
  /\ <<n, s>> \in alarms => n \in checkedNames
  /\ <<n, s>> \in alarms /\ n \notin touched /\ s \notin touched => Suspect(n, s)
  /\ n \in checkedNames /\ touched = {} /\ SurelyTop(s) /\ Suspect(n, s) => <<n, s>> \in alarms

TypoInd ==
  /\ TypoTypes
  /\ TasksApart
  /\ \A t \in CheckTasks : TaskFits(typoTask[t])
  /\ CorpusFits
  /\ \A n \in NewNames : NameFits(n)
  /\ OldNames \ touched \subseteq names
  /\ \A n \in NewNames, s \in OldNames : AlarmFits(n, s)

\* The records of no task and no corpus.
LEMMA NoTaskRecord ==
  /\ NoTask \in TypoTasks /\ NoTask.step = "idle" /\ NoTask.name \notin NewNames
  /\ NoCorpus \in Corpora /\ NoCorpus.state = "empty" /\ DOMAIN NoCorpus.owners = {}
  <1> DEFINE none == <<>>
             table == [c \in {} |-> {}]
  <1>1. none \notin NewNames /\ NoTask = [name |-> none, step |-> "idle", owners |-> {}]
    BY SimilarNamesAssumption DEF NoTask
  <1>2. table \in [{} -> SUBSET NameOwners] /\ DOMAIN table = {} /\ NoCorpus = [state |-> "empty", owners |-> table]
    BY DEF NoCorpus
  <1>3. table \in UNION {[top -> SUBSET NameOwners] : top \in SUBSET Names}
    BY <1>2
  <1> HIDE DEF table
  <1>4. NoCorpus \in Corpora /\ NoCorpus.state = "empty" /\ DOMAIN NoCorpus.owners = {}
    BY <1>2, <1>3 DEF Corpora
  <1>5. none \in NewNames \cup {<<>>}
    OBVIOUS
  <1> HIDE DEF none
  <1>6. NoTask \in TypoTasks /\ NoTask.step = "idle" /\ NoTask.name = none
    BY <1>1, <1>5 DEF TypoTasks
  <1> QED
    BY <1>1, <1>4, <1>6

\* The crates change, and the process does not.
LEMMA CratesChange ==
  ASSUME TypoInd, UNCHANGED <<notify, corpus, typoTask, loadFails, checkedNames, alarms>>,
         names' \subseteq Names, fewDownloads' \subseteq Names, ownersOf' \in [Names -> SUBSET NameOwners],
         nameChanges' \in 0..MaxNameChanges, typoJob' \in [NewNames -> {"none", "waits", "runs", "done"}],
         touched \subseteq touched',
         \A n \in NewNames : typoJob'[n] = typoJob[n] \/ (typoJob[n] = "none" /\ typoJob'[n] = "waits" /\ n \in names'),
         \A n \in NewNames : n \in names /\ n \notin names' => n \in touched',
         \A n \in NewNames : n \in names' /\ n \notin names => typoJob[n] = "none",
         OldNames \ touched' \subseteq names',
         \A c \in Names : ownersOf'[c] = ownersOf[c] \/ c \in touched' \/ (c \in NewNames /\ typoJob[c] = "none"),
         touched' = {} => names' \ fewDownloads' = names \ fewDownloads /\ OldNames \cap fewDownloads' = OldNames \cap fewDownloads
  PROVE  TypoInd'
  <1>1. TypoTypes'
    BY DEF TypoInd, TypoTypes
  <1>2. \A n \in NewNames : typoJob'[n] = "runs" <=> typoJob[n] = "runs"
    OBVIOUS
  <1>3. TasksApart'
    BY <1>2 DEF TypoInd, TasksApart
  <1>4. OldNames \subseteq Names /\ NewNames \subseteq Names /\ OldNames \cap NewNames = {}
    BY SimilarNamesAssumption DEF Names
  <1>5. \A s \in OldNames : touched' = {} /\ SurelyTop(s)' => SurelyTop(s)
    BY DEF SurelyTop
  <1>6. ASSUME NEW t \in CheckTasks PROVE TaskFits(typoTask[t])'
    <2> PICK k : k = typoTask[t]
      OBVIOUS
    <2>1. TaskFits(k) /\ typoTask'[t] = k
      BY DEF TypoInd
    <2>2. k.step = "check" => k.name \in NewNames /\ typoJob[k.name] # "none"
      BY <2>1 DEF TypoInd, TasksApart, TaskFits
    <2>3. TaskFits(k)'
      BY <1>4, <2>1, <2>2 DEF TaskFits
    <2> QED
      BY <2>1, <2>3 DEF TaskFits
  <1>7. CorpusFits'
    <2>1. CorpusFits
      BY DEF TypoInd
    <2>2. \A s \in OldNames : s \notin touched' => s \notin touched /\ ownersOf'[s] = ownersOf[s]
      BY <1>4
    <2> QED
      BY <1>5, <2>1, <2>2 DEF CorpusFits
  <1>8. ASSUME NEW n \in NewNames PROVE NameFits(n)'
    BY <1>2 DEF TypoInd, NameFits
  <1>9. ASSUME NEW n \in NewNames, NEW s \in OldNames PROVE AlarmFits(n, s)'
    <2>1. AlarmFits(n, s) /\ NameFits(n)
      BY DEF TypoInd
    <2>2. n \in checkedNames => typoJob[n] # "none"
      BY <2>1 DEF NameFits
    <2>3. n \in checkedNames /\ n \notin touched' /\ s \notin touched' => ownersOf'[n] = ownersOf[n] /\ ownersOf'[s] = ownersOf[s]
      BY <1>4, <2>2
    <2>4. n \in checkedNames /\ n \notin touched' /\ s \notin touched' => (Suspect(n, s)' <=> Suspect(n, s))
      BY <2>3 DEF Suspect, Alike, Affixed
    <2>5. touched' = {} => n \notin touched' /\ s \notin touched' /\ touched = {}
      OBVIOUS
    <2> QED
      BY <1>5, <2>1, <2>4, <2>5 DEF AlarmFits
  <1> QED
    BY <1>1, <1>3, <1>6, <1>7, <1>8, <1>9 DEF TypoInd

LEMMA CrateStepInd ==
  ASSUME TypoInd,
         \/ \E n \in NewNames, os \in SUBSET NameOwners : PublishName(n, os)
         \/ \E c \in names, os \in SUBSET NameOwners : ChangeOwners(c, os)
         \/ \E c \in names : DeleteName(c)
         \/ \E c \in fewDownloads : Downloaded(c)
  PROVE  TypoInd'
  <1>0. TypoTypes /\ OldNames \ touched \subseteq names /\ MaxNameChanges \in Nat
    BY SimilarNamesAssumption DEF TypoInd
  <1>1. OldNames \subseteq Names /\ NewNames \subseteq Names /\ OldNames \cap NewNames = {}
    BY SimilarNamesAssumption DEF Names
  <1>2. ASSUME NEW n \in NewNames, NEW os \in SUBSET NameOwners, PublishName(n, os) PROVE TypoInd'
    <2>1. /\ n \notin names /\ typoJob[n] = "none" /\ names' = names \cup {n}
          /\ ownersOf' = [ownersOf EXCEPT ![n] = os] /\ fewDownloads' = fewDownloads \cup {n}
          /\ typoJob' = [typoJob EXCEPT ![n] = "waits"]
          /\ UNCHANGED <<notify, corpus, typoTask, nameChanges, loadFails, checkedNames, alarms, touched>>
      BY <1>2 DEF PublishName
    <2>2. ownersOf' \in [Names -> SUBSET NameOwners] /\ \A c \in Names : c # n => ownersOf'[c] = ownersOf[c]
      BY <1>0, <1>1, <2>1 DEF TypoTypes
    <2>3. /\ typoJob' \in [NewNames -> {"none", "waits", "runs", "done"}]
          /\ \A m \in NewNames : typoJob'[m] = typoJob[m] \/ (typoJob[m] = "none" /\ typoJob'[m] = "waits" /\ m \in names')
      BY <1>0, <2>1 DEF TypoTypes
    <2>4. names' \ fewDownloads' = names \ fewDownloads /\ OldNames \cap fewDownloads' = OldNames \cap fewDownloads
      BY <1>1, <2>1
    <2> QED
      BY <1>0, <1>1, <2>1, <2>2, <2>3, <2>4, CratesChange DEF TypoTypes
  <1>3. ASSUME NEW cs \in SUBSET Names, cs # {}, NameChanges(cs), names' \subseteq names, names \ names' \subseteq cs,
               fewDownloads' \subseteq fewDownloads, ownersOf' \in [Names -> SUBSET NameOwners],
               \A c \in Names \ cs : ownersOf'[c] = ownersOf[c]
        PROVE  TypoInd'
    <2>1. /\ nameChanges < MaxNameChanges /\ nameChanges' = nameChanges + 1 /\ touched' = touched \cup cs
          /\ UNCHANGED <<notify, corpus, typoJob, typoTask, loadFails, checkedNames, alarms>>
      BY <1>3 DEF NameChanges
    <2>2. nameChanges' \in 0..MaxNameChanges /\ touched' # {}
      BY <1>0, <1>3, <2>1 DEF TypoTypes
    <2>3. /\ \A n \in NewNames : n \in names /\ n \notin names' => n \in touched'
          /\ OldNames \ touched' \subseteq names' /\ touched \subseteq touched'
          /\ \A c \in Names : ownersOf'[c] = ownersOf[c] \/ c \in touched'
      BY <1>0, <1>3, <2>1
    <2> QED
      BY <1>0, <1>3, <2>1, <2>2, <2>3, CratesChange DEF TypoTypes
  <1>4. ASSUME NEW c \in names, NEW os \in SUBSET NameOwners, ChangeOwners(c, os) PROVE TypoInd'
    <2>1. NameChanges({c}) /\ ownersOf' = [ownersOf EXCEPT ![c] = os] /\ names' = names /\ fewDownloads' = fewDownloads
      BY <1>4 DEF ChangeOwners
    <2>2. ownersOf' \in [Names -> SUBSET NameOwners] /\ \A d \in Names \ {c} : ownersOf'[d] = ownersOf[d]
      BY <1>0, <2>1 DEF TypoTypes
    <2> QED
      BY <1>0, <1>3, <2>1, <2>2 DEF TypoTypes
  <1>5. ASSUME NEW c \in names, DeleteName(c) PROVE TypoInd'
    <2>1. NameChanges({c}) /\ ownersOf' = [ownersOf EXCEPT ![c] = {}] /\ names' = names \ {c} /\ fewDownloads' = fewDownloads
      BY <1>5 DEF DeleteName
    <2>2. ownersOf' \in [Names -> SUBSET NameOwners] /\ \A d \in Names \ {c} : ownersOf'[d] = ownersOf[d]
      BY <1>0, <2>1 DEF TypoTypes
    <2> QED
      BY <1>0, <1>3, <2>1, <2>2 DEF TypoTypes
  <1>6. ASSUME NEW c \in fewDownloads, Downloaded(c) PROVE TypoInd'
    <2>1. NameChanges(Names) /\ fewDownloads' = fewDownloads \ {c} /\ UNCHANGED <<names, ownersOf>>
      BY <1>6 DEF Downloaded
    <2>2. Names # {}
      BY <1>0 DEF TypoTypes
    <2> QED
      BY <1>0, <1>3, <2>1, <2>2 DEF TypoTypes
  <1> QED
    BY <1>2, <1>4, <1>5, <1>6


\* Nothing changes but the tasks, the jobs, the corpus, and what was found.
LEMMA Unmoved ==
  ASSUME TypoInd, UNCHANGED <<typoDb, touched>>
  PROVE  /\ \A s : SurelyTop(s)' <=> SurelyTop(s)
         /\ \A n, s : Suspect(n, s)' <=> Suspect(n, s)
         /\ corpus' = corpus => CorpusFits'
         /\ OldNames \ touched' \subseteq names'
  <1>1. \A s : SurelyTop(s)' <=> SurelyTop(s)
    BY DEF SurelyTop, typoDb
  <1>2. \A n, s : Suspect(n, s)' <=> Suspect(n, s)
    BY DEF Suspect, Alike, Affixed, typoDb
  <1>3. corpus' = corpus => CorpusFits'
    BY <1>1 DEF TypoInd, CorpusFits, typoDb
  <1> QED
    BY <1>1, <1>2, <1>3 DEF TypoInd, typoDb

\* A task goes on with its job.
LEMMA TaskStepInd ==
  ASSUME TypoInd, NEW t \in CheckTasks, NEW k \in TypoTasks, typoTask' = [typoTask EXCEPT ![t] = k],
         k.name = typoTask[t].name, typoTask[t].step # "load", k.step # "load",
         UNCHANGED <<typoDb, corpus, typoJob, nameChanges, loadFails, checkedNames, alarms, touched>>, TaskFits(k)
  PROVE  TypoInd'
  <1>1. typoTask'[t] = k /\ \A u \in CheckTasks : u # t => typoTask'[u] = typoTask[u]
    BY DEF TypoInd, TypoTypes
  <1>2. TypoTypes'
    BY DEF TypoInd, TypoTypes, typoDb
  <1>3. \A u \in CheckTasks : typoTask'[u].name = typoTask[u].name /\ (typoTask'[u].step = "load" <=> typoTask[u].step = "load")
    BY <1>1
  <1>4. TasksApart'
    BY <1>3 DEF TypoInd, TasksApart
  <1>5. ASSUME NEW u \in CheckTasks PROVE TaskFits(typoTask[u])'
    <2>1. TaskFits(typoTask[u])
      BY DEF TypoInd
    <2> QED
      BY <1>1, <2>1 DEF TaskFits, typoDb
  <1>6. \A n \in NewNames : NameFits(n)'
    BY DEF TypoInd, NameFits, typoDb
  <1>7. \A n \in NewNames, s \in OldNames : AlarmFits(n, s)'
    BY Unmoved DEF TypoInd, AlarmFits
  <1> QED
    BY <1>2, <1>4, <1>5, <1>6, <1>7, Unmoved DEF TypoInd

\* A task loads the corpus, step by step.
LEMMA LoadStepInd ==
  ASSUME TypoInd, NEW t \in CheckTasks, NEW k \in TypoTasks, typoTask' = [typoTask EXCEPT ![t] = k],
         k.name = typoTask[t].name, k.name \in NewNames, k.step \in {"cache", "load"},
         UNCHANGED <<typoDb, typoJob, nameChanges, checkedNames, alarms, touched>>, loadFails' \in 0..MaxLoadFails,
         corpus.state # "ready", corpus.state = "loading" <=> typoTask[t].step = "load",
         corpus' \in Corpora, Cardinality(DOMAIN corpus'.owners) =< TopCrates,
         corpus'.state = "loading" <=> k.step = "load", CorpusFits'
  PROVE  TypoInd'
  <1>1. typoTask'[t] = k /\ \A u \in CheckTasks : u # t => typoTask'[u] = typoTask[u]
    BY DEF TypoInd, TypoTypes
  <1>2. TypoTypes'
    BY DEF TypoInd, TypoTypes, typoDb
  <1>3. \A u \in CheckTasks : typoTask'[u].name = typoTask[u].name
    BY <1>1
  <1>4. \A u \in CheckTasks : typoTask'[u].step = "load" <=> (u = t /\ k.step = "load")
    BY <1>1 DEF TypoInd, TasksApart
  <1>5. TasksApart'
    BY <1>3, <1>4 DEF TypoInd, TasksApart
  <1>6. ASSUME NEW u \in CheckTasks PROVE TaskFits(typoTask[u])'
    <2>1. TaskFits(typoTask[u])
      BY DEF TypoInd
    <2> QED
      BY <1>1, <2>1 DEF TaskFits
  <1>7. \A n \in NewNames : NameFits(n)'
    BY DEF TypoInd, NameFits, typoDb
  <1>8. \A n \in NewNames, s \in OldNames : AlarmFits(n, s)'
    BY Unmoved DEF TypoInd, AlarmFits
  <1> QED
    BY <1>2, <1>5, <1>6, <1>7, <1>8, Unmoved DEF TypoInd

\* A job ends, or waits to be run again.
LEMMA EndCheckInd ==
  ASSUME TypoInd, NEW t \in CheckTasks, typoTask[t].step \in {"cache", "lookup", "owners", "check"},
         NEW state \in {"waits", "done"}, EndCheck(t, state),
         UNCHANGED <<typoDb, corpus, nameChanges, loadFails, touched>>,
         checkedNames' = checkedNames \/ checkedNames' = checkedNames \cup {typoTask[t].name},
         state = "done" => ~ notify \/ typoTask[t].name \in checkedNames' \/ typoTask[t].name \notin names,
         \A n \in NewNames, s \in OldNames : AlarmFits(n, s)'
  PROVE  TypoInd'
  <1> PICK n0 : n0 = typoTask[t].name
    OBVIOUS
  <1>1. /\ typoJob' = [typoJob EXCEPT ![n0] = state] /\ typoTask' = [typoTask EXCEPT ![t] = NoTask]
        /\ TypoTypes /\ TasksApart /\ n0 \in NewNames
    BY DEF EndCheck, TypoInd, TaskFits
  <1>2. typoTask'[t] = NoTask /\ \A u \in CheckTasks : u # t => typoTask'[u] = typoTask[u]
    BY <1>1 DEF TypoTypes
  <1>3. typoJob'[n0] = state /\ \A n \in NewNames : n # n0 => typoJob'[n] = typoJob[n]
    BY <1>1 DEF TypoTypes
  <1>4. TypoTypes'
    BY <1>1, NoTaskRecord DEF TypoTypes, typoDb
  <1>5. TasksApart'
    <2>1. \A u, v \in CheckTasks : typoTask'[u].name = typoTask'[v].name /\ typoTask'[u].name \in NewNames => u = v
      BY <1>1, <1>2, NoTaskRecord DEF TasksApart
    <2>2. \A u \in CheckTasks : u # t => typoTask[u].name # n0
      BY <1>1 DEF TasksApart
    <2>3. \A n \in NewNames : typoJob'[n] = "runs" <=> \E u \in CheckTasks : typoTask'[u].name = n
      BY <1>1, <1>2, <1>3, <2>2, NoTaskRecord DEF TasksApart
    <2>4. \A u \in CheckTasks : typoTask'[u].step = "load" <=> typoTask[u].step = "load"
      BY <1>2, NoTaskRecord
    <2> QED
      BY <1>1, <2>1, <2>3, <2>4 DEF TasksApart
  <1>6. ASSUME NEW u \in CheckTasks PROVE TaskFits(typoTask[u])'
    <2>1. TaskFits(typoTask[u])
      BY DEF TypoInd
    <2> QED
      BY <1>2, <2>1, NoTaskRecord DEF TaskFits, typoDb
  <1>7. ASSUME NEW n \in NewNames PROVE NameFits(n)'
    <2>1. NameFits(n) /\ typoJob[n0] = "runs"
      BY <1>1 DEF TypoInd, TasksApart
    <2>2. CASE n = n0
      <3>1. n0 \notin names => n0 \in touched
        BY <2>1, <2>2 DEF NameFits
      <3> QED
        BY <1>3, <2>2, <3>1 DEF NameFits, typoDb
    <2>3. CASE n # n0
      BY <1>3, <2>1, <2>3 DEF NameFits, typoDb
    <2> QED
      BY <2>2, <2>3
  <1> QED
    BY <1>4, <1>5, <1>6, <1>7, Unmoved DEF TypoInd

\* Nothing was found by the step.
LEMMA AlarmsOn ==
  ASSUME TypoInd, UNCHANGED <<typoDb, checkedNames, alarms, touched>>
  PROVE  \A n \in NewNames, s \in OldNames : AlarmFits(n, s)'
  BY Unmoved DEF TypoInd, AlarmFits

LEMMA StartCheckInd ==
  ASSUME TypoInd, NEW t \in CheckTasks, NEW n \in NewNames, StartCheck(t, n)
  PROVE  TypoInd'
  <1> PICK k : k = [NoTask EXCEPT !.name = n, !.step = "cache"]
    OBVIOUS
  <1>1. /\ typoTask[t] = NoTask /\ typoJob[n] = "waits" /\ typoJob' = [typoJob EXCEPT ![n] = "runs"]
        /\ typoTask' = [typoTask EXCEPT ![t] = k] /\ TypoTypes /\ TasksApart
        /\ UNCHANGED <<typoDb, corpus, nameChanges, loadFails, checkedNames, alarms, touched>>
    BY DEF StartCheck, TypoInd
  <1>2. k \in TypoTasks /\ k.name = n /\ k.step = "cache"
    BY NoTaskRecord DEF TypoTasks
  <1>3. typoTask'[t] = k /\ \A u \in CheckTasks : u # t => typoTask'[u] = typoTask[u]
    BY <1>1 DEF TypoTypes
  <1>4. typoJob'[n] = "runs" /\ \A m \in NewNames : m # n => typoJob'[m] = typoJob[m]
    BY <1>1 DEF TypoTypes
  <1>5. TypoTypes'
    BY <1>1, <1>2 DEF TypoTypes, typoDb
  <1>6. TasksApart'
    <2>1. \A u \in CheckTasks : typoTask[u].name # n
      BY <1>1 DEF TasksApart
    <2>2. \A u, v \in CheckTasks : typoTask'[u].name = typoTask'[v].name /\ typoTask'[u].name \in NewNames => u = v
      BY <1>1, <1>2, <1>3, <2>1 DEF TasksApart
    <2>3. ASSUME NEW m \in NewNames PROVE typoJob'[m] = "runs" <=> \E u \in CheckTasks : typoTask'[u].name = m
      <3>1. CASE m = n
        BY <1>2, <1>3, <1>4, <3>1
      <3>2. CASE m # n
        <4>1. typoJob[m] = "runs" <=> \E u \in CheckTasks : typoTask[u].name = m
          BY <1>1 DEF TasksApart
        <4>2. \A u \in CheckTasks : typoTask'[u].name = m <=> typoTask[u].name = m
          BY <1>1, <1>2, <1>3, <3>2, NoTaskRecord
        <4> QED
          BY <1>4, <3>2, <4>1, <4>2
      <3> QED
        BY <3>1, <3>2
    <2>4. \A u \in CheckTasks : typoTask'[u].step = "load" <=> typoTask[u].step = "load"
      BY <1>1, <1>2, <1>3, NoTaskRecord
    <2> QED
      BY <1>1, <2>2, <2>3, <2>4 DEF TasksApart
  <1>7. ASSUME NEW u \in CheckTasks PROVE TaskFits(typoTask[u])'
    <2>1. TaskFits(typoTask[u])
      BY DEF TypoInd
    <2> QED
      BY <1>1, <1>2, <1>3, <2>1 DEF TaskFits, typoDb
  <1>8. ASSUME NEW m \in NewNames PROVE NameFits(m)'
    <2>1. NameFits(m)
      BY DEF TypoInd
    <2> QED
      BY <1>1, <1>4, <2>1 DEF NameFits, typoDb
  <1> QED
    BY <1>1, <1>5, <1>6, <1>7, <1>8, AlarmsOn, Unmoved DEF TypoInd


LEMMA LoadTopCratesInd ==
  ASSUME TypoInd, NEW t \in CheckTasks, LoadTopCrates(t)
  PROVE  TypoInd'
  <1> PICK h : h = typoTask[t]
    OBVIOUS
  <1>1. /\ h.step = "cache" /\ corpus.state = "empty" /\ TypoTypes /\ TaskFits(h) /\ CorpusFits
        /\ UNCHANGED <<typoDb, typoJob, nameChanges, loadFails, checkedNames, alarms, touched>>
    BY DEF LoadTopCrates, TypoInd
  <1>2. h \in TypoTasks /\ h.name \in NewNames /\ loadFails' \in 0..MaxLoadFails
    BY <1>1 DEF TypoTypes, TaskFits
  <1>3. CASE ~ notify
    <2> PICK c : c = [corpus EXCEPT !.state = "off"]
      OBVIOUS
    <2>1. corpus' = c /\ typoTask' = typoTask
      BY <1>3 DEF LoadTopCrates
    <2>2. c \in Corpora /\ c.state = "off" /\ c.owners = corpus.owners
      BY <1>1 DEF TypoTypes, Corpora
    <2>3. typoTask' = [typoTask EXCEPT ![t] = h]
      BY <1>1, <2>1 DEF TypoTypes
    <2>4. CorpusFits'
      BY <1>1, <1>3, <2>1, <2>2 DEF CorpusFits, typoDb
    <2>5. Cardinality(DOMAIN corpus'.owners) =< TopCrates
      BY <1>1, <2>1, <2>2 DEF TypoTypes
    <2> QED
      BY <1>1, <1>2, <2>1, <2>2, <2>3, <2>4, <2>5, LoadStepInd
  <1>4. CASE notify
    <2> PICK k : k = [h EXCEPT !.step = "load"]
      OBVIOUS
    <2>1. typoTask' = [typoTask EXCEPT ![t] = k]
      BY <1>1, <1>4 DEF LoadTopCrates, StepTo, TypoTypes
    <2>2. k \in TypoTasks /\ k.name = h.name /\ k.step = "load"
      BY <1>2 DEF TypoTasks
    <2>3. PICK top \in SUBSET names :
            /\ Cardinality(top) = IF Cardinality(names) < TopCrates THEN Cardinality(names) ELSE TopCrates
            /\ \A c \in top, d \in names \ top : c \in fewDownloads => d \in fewDownloads
            /\ corpus' = [state |-> "loading", owners |-> [c \in top |-> {}]]
      BY <1>4 DEF LoadTopCrates
    <2> PICK table : table = [c \in top |-> {}]
      OBVIOUS
    <2>4. DOMAIN table = top /\ top \in SUBSET Names /\ table \in UNION {[s -> SUBSET NameOwners] : s \in SUBSET Names}
      <3>1. top \in SUBSET Names /\ table \in [top -> SUBSET NameOwners]
        BY <1>1, <2>3 DEF TypoTypes
      <3> QED
        BY <3>1
    <2>5. corpus' = [state |-> "loading", owners |-> table]
      BY <2>3
    <2>6. corpus' \in Corpora /\ corpus'.state = "loading" /\ corpus'.owners = table
      BY <2>4, <2>5 DEF Corpora
    <2>7. IsFiniteSet(names) /\ TopCrates \in Nat /\ Cardinality(names) \in Nat /\ IsFiniteSet(top) /\ Cardinality(top) \in Nat
      <3>1. IsFiniteSet(Names)
        BY SimilarNamesAssumption, FS_Union DEF Names
      <3>2. IsFiniteSet(names) /\ IsFiniteSet(top)
        BY <1>1, <2>4, <3>1, FS_Subset DEF TypoTypes
      <3> QED
        BY <3>2, FS_CardinalityType, SimilarNamesAssumption
    <2>8. Cardinality(top) =< TopCrates
      BY <2>3, <2>7
    <2>9. ASSUME NEW s \in OldNames, touched = {}, SurelyTop(s) PROVE s \in top
      <3>1. s \in names /\ s \notin fewDownloads /\ Cardinality(names \ fewDownloads) =< TopCrates
        BY <2>9 DEF TypoInd, SurelyTop
      <3> SUFFICES ASSUME s \notin top PROVE FALSE
        OBVIOUS
      <3> PICK many : many = names \ fewDownloads
        OBVIOUS
      <3>2. top \subseteq many /\ s \in many /\ many \subseteq names /\ top # many
        BY <2>3, <3>1
      <3>3. IsFiniteSet(many) /\ Cardinality(many) \in Nat /\ Cardinality(many) =< TopCrates
        BY <2>7, <3>1, <3>2, FS_Subset, FS_CardinalityType
      <3>4. Cardinality(top) < Cardinality(many) /\ Cardinality(many) =< Cardinality(names)
        BY <2>7, <3>2, <3>3, FS_Subset
      <3> QED
        BY <2>3, <2>7, <3>3, <3>4
    <2>10. CorpusFits'
      <3>1. \A s : SurelyTop(s)' <=> SurelyTop(s)
        BY <1>1, Unmoved
      <3> QED
        BY <1>1, <2>4, <2>6, <2>9, <3>1 DEF CorpusFits
    <2>11. Cardinality(DOMAIN corpus'.owners) =< TopCrates
      BY <2>4, <2>6, <2>8
    <2> QED
      BY <1>1, <1>2, <2>1, <2>2, <2>6, <2>10, <2>11, LoadStepInd
  <1> QED
    BY <1>1, <1>3, <1>4

LEMMA LoadedInd ==
  ASSUME TypoInd, NEW t \in CheckTasks, LoadOwners(t) \/ LoadFails(t)
  PROVE  TypoInd'
  <1> PICK h : h = typoTask[t]
    OBVIOUS
  <1> PICK k : k = [h EXCEPT !.step = "cache"]
    OBVIOUS
  <1>1. /\ h.step = "load" /\ TypoTypes /\ TaskFits(h) /\ CorpusFits /\ TasksApart /\ MaxLoadFails \in Nat /\ TopCrates \in Nat
        /\ typoTask' = [typoTask EXCEPT ![t].step = "cache"]
        /\ UNCHANGED <<typoDb, typoJob, nameChanges, checkedNames, alarms, touched>>
    BY SimilarNamesAssumption DEF LoadOwners, LoadFails, StepTo, TypoInd
  <1>2. h \in TypoTasks /\ h.name \in NewNames /\ corpus.state = "loading"
    BY <1>1 DEF TypoTypes, TaskFits, TasksApart
  <1>3. k \in TypoTasks /\ k.name = h.name /\ k.step = "cache" /\ typoTask' = [typoTask EXCEPT ![t] = k]
    BY <1>1, <1>2 DEF TypoTasks, TypoTypes
  <1>6. /\ corpus.state # "ready" /\ (corpus.state = "loading" <=> typoTask[t].step = "load")
        /\ k.name = typoTask[t].name /\ k.name \in NewNames /\ k.step \in {"cache", "load"}
    BY <1>1, <1>2, <1>3
  <1>4. CASE LoadOwners(t)
    <2> PICK top : top = DOMAIN corpus.owners
      OBVIOUS
    <2> PICK table : table = [c \in top |-> Keyed(ownersOf[c])]
      OBVIOUS
    <2>1. corpus' = [state |-> "ready", owners |-> table] /\ loadFails' = loadFails
      BY <1>4 DEF LoadOwners
    <2>2. top \in SUBSET Names /\ Cardinality(top) =< TopCrates
      BY <1>1 DEF TypoTypes, Corpora
    <2>3. \A c \in top : table[c] = ownersOf[c] /\ ownersOf[c] \in SUBSET NameOwners
      BY <1>1, <2>2 DEF TypoTypes, Keyed, OwnerKey
    <2>4. DOMAIN table = top /\ table \in UNION {[s -> SUBSET NameOwners] : s \in SUBSET Names}
      <3>1. table \in [top -> SUBSET NameOwners]
        BY <2>3
      <3> QED
        BY <2>2, <3>1
    <2>5. corpus' \in Corpora /\ corpus'.state = "ready" /\ corpus'.owners = table
      BY <2>1, <2>4 DEF Corpora
    <2>6. CorpusFits'
      <3>1. \A s : SurelyTop(s)' <=> SurelyTop(s)
        BY <1>1, Unmoved
      <3>2. ownersOf' = ownersOf /\ touched' = touched
        BY <1>1 DEF typoDb
      <3> QED
        BY <1>1, <1>2, <2>3, <2>4, <2>5, <3>1, <3>2 DEF CorpusFits
    <2>7. Cardinality(DOMAIN corpus'.owners) =< TopCrates /\ loadFails' \in 0..MaxLoadFails
      BY <1>1, <2>1, <2>2, <2>4, <2>5 DEF TypoTypes
    <2> QED
      BY <1>1, <1>3, <1>6, <2>5, <2>6, <2>7, LoadStepInd
  <1>5. CASE LoadFails(t)
    <2> PICK c : c = [NoCorpus EXCEPT !.state = "failed"]
      OBVIOUS
    <2>1. corpus' = c /\ loadFails < MaxLoadFails /\ loadFails' = loadFails + 1
      BY <1>5 DEF LoadFails
    <2>2. c \in Corpora /\ c.state = "failed" /\ DOMAIN c.owners = {}
      BY NoTaskRecord DEF Corpora
    <2>3. CorpusFits'
      BY <2>1, <2>2 DEF CorpusFits
    <2>4. DOMAIN corpus'.owners = {} /\ loadFails' \in 0..MaxLoadFails
      BY <1>1, <2>1, <2>2 DEF TypoTypes
    <2>5. Cardinality(DOMAIN corpus'.owners) =< TopCrates
      BY <1>1, <2>4, FS_EmptySet
    <2>6. corpus' \in Corpora /\ corpus'.state = "failed"
      BY <2>1, <2>2
    <2> QED
      BY <1>1, <1>3, <1>6, <2>3, <2>4, <2>5, <2>6, LoadStepInd
  <1> QED
    BY <1>4, <1>5

LEMMA UseCorpusInd ==
  ASSUME TypoInd, NEW t \in CheckTasks, UseCorpus(t)
  PROVE  TypoInd'
  <1> PICK h : h = typoTask[t]
    OBVIOUS
  <1>1. /\ h.step = "cache" /\ TypoTypes /\ TaskFits(h) /\ CorpusFits
        /\ UNCHANGED <<typoDb, corpus, nameChanges, loadFails, checkedNames, alarms, touched>>
    BY DEF UseCorpus, TypoInd
  <1>2. CASE corpus.state = "ready" /\ StepTo(t, "lookup") /\ UNCHANGED typoJob
    <2> PICK k : k = [h EXCEPT !.step = "lookup"]
      OBVIOUS
    <2>1. h \in TypoTasks /\ typoTask' = [typoTask EXCEPT ![t] = k]
      BY <1>1, <1>2 DEF StepTo, TypoTypes
    <2>2. k \in TypoTasks /\ k.name = h.name /\ k.step = "lookup"
      BY <2>1 DEF TypoTasks
    <2>3. TaskFits(k)
      BY <1>1, <1>2, <2>2 DEF TaskFits
    <2> QED
      BY <1>1, <1>2, <2>1, <2>2, <2>3, TaskStepInd
  <1>3. CASE EndCheck(t, "waits")
    BY <1>1, <1>3, AlarmsOn, EndCheckInd
  <1>4. CASE corpus.state = "off" /\ EndCheck(t, "done")
    BY <1>1, <1>4, AlarmsOn, EndCheckInd DEF CorpusFits
  <1> QED
    BY <1>2, <1>3, <1>4 DEF UseCorpus

LEMMA LookUpNameInd ==
  ASSUME TypoInd, NEW t \in CheckTasks, LookUpName(t)
  PROVE  TypoInd'
  <1> PICK h : h = typoTask[t]
    OBVIOUS
  <1>1. /\ h.step = "lookup" /\ TypoTypes /\ TaskFits(h) /\ TasksApart
        /\ UNCHANGED <<typoDb, corpus, nameChanges, loadFails, checkedNames, alarms, touched>>
    BY DEF LookUpName, TypoInd
  <1>2. CASE h.name \in names
    <2> PICK k : k = [h EXCEPT !.step = "owners"]
      OBVIOUS
    <2>1. h \in TypoTasks /\ typoTask' = [typoTask EXCEPT ![t] = k] /\ UNCHANGED typoJob
      BY <1>1, <1>2 DEF LookUpName, StepTo, TypoTypes
    <2>2. k \in TypoTasks /\ k.name = h.name /\ k.step = "owners"
      BY <2>1 DEF TypoTasks
    <2>3. TaskFits(k)
      BY <1>1, <1>2, <2>2 DEF TaskFits
    <2> QED
      BY <1>1, <2>1, <2>2, <2>3, TaskStepInd
  <1>3. CASE h.name \notin names
    <2>1. EndCheck(t, "done")
      BY <1>3 DEF LookUpName
    <2> QED
      BY <1>1, <1>3, <2>1, AlarmsOn, EndCheckInd
  <1> QED
    BY <1>2, <1>3


LEMMA ReadNewOwnersInd ==
  ASSUME TypoInd, NEW t \in CheckTasks, ReadNewOwners(t)
  PROVE  TypoInd'
  <1> PICK h : h = typoTask[t]
    OBVIOUS
  <1> PICK os : os = ownersOf[h.name]
    OBVIOUS
  <1> PICK k : k = [h EXCEPT !.owners = os, !.step = "check"]
    OBVIOUS
  <1>1. /\ h.step = "owners" /\ TypoTypes /\ TaskFits(h)
        /\ UNCHANGED <<typoDb, corpus, typoJob, nameChanges, loadFails, checkedNames, alarms, touched>>
    BY DEF ReadNewOwners, TypoInd
  <1>2. h \in TypoTasks /\ h.name \in NewNames /\ corpus.state = "ready"
    BY <1>1 DEF TypoTypes, TaskFits
  <1>3. os \in SUBSET NameOwners
    BY <1>1, <1>2 DEF TypoTypes, Names
  <1>4. typoTask' = [typoTask EXCEPT ![t] = k]
    BY <1>1, <1>2 DEF ReadNewOwners, TypoTypes
  <1>5. k \in TypoTasks /\ k.name = h.name /\ k.step = "check" /\ k.owners = os
    BY <1>2, <1>3 DEF TypoTasks
  <1>6. TaskFits(k)
    BY <1>2, <1>5 DEF TaskFits
  <1> QED
    BY <1>1, <1>4, <1>5, <1>6, TaskStepInd

LEMMA CheckNameInd ==
  ASSUME TypoInd, NEW t \in CheckTasks, CheckName(t)
  PROVE  TypoInd'
  <1> PICK h : h = typoTask[t]
    OBVIOUS
  <1> PICK n0 : n0 = h.name
    OBVIOUS
  <1> PICK squats : squats = Squats(n0, h.owners)
    OBVIOUS
  <1>1. /\ h.step = "check" /\ TypoTypes /\ TaskFits(h) /\ CorpusFits /\ EndCheck(t, "done")
        /\ alarms' = alarms \cup {<<n0, s>> : s \in squats} /\ checkedNames' = checkedNames \cup {n0}
        /\ UNCHANGED <<typoDb, corpus, nameChanges, loadFails, touched>>
    BY DEF CheckName, TypoInd
  <1>2. /\ n0 \in NewNames /\ corpus.state = "ready" /\ (n0 \notin touched => h.owners = ownersOf[n0])
        /\ NewNames \subseteq Names /\ OldNames \subseteq Names
    BY <1>1 DEF TaskFits, Names
  <1>3. ASSUME NEW s \in OldNames, n0 \notin touched, s \notin touched
        PROVE  s \in squats <=> s \in DOMAIN corpus.owners /\ Suspect(n0, s)
    <2>1. Keyed(h.owners) = ownersOf[n0]
      BY <1>2, <1>3 DEF Keyed, OwnerKey
    <2>2. s \in DOMAIN corpus.owners => corpus.owners[s] = ownersOf[s]
      BY <1>1, <1>2, <1>3 DEF CorpusFits
    <2> QED
      BY <2>1, <2>2 DEF Squats, Suspect
  <1>4. ASSUME NEW n \in NewNames, NEW s \in OldNames PROVE <<n, s>> \in alarms' <=> <<n, s>> \in alarms \/ (n = n0 /\ s \in squats)
    BY <1>1
  <1>5. ASSUME NEW n \in NewNames, NEW s \in OldNames PROVE AlarmFits(n, s)'
    <2>1. AlarmFits(n, s) /\ (Suspect(n, s)' <=> Suspect(n, s)) /\ (SurelyTop(s)' <=> SurelyTop(s)) /\ touched' = touched
      BY <1>1, Unmoved DEF TypoInd
    <2>2. <<n, s>> \in alarms' => n \in checkedNames'
      BY <1>1, <1>4, <2>1 DEF AlarmFits
    <2>3. <<n, s>> \in alarms' /\ n \notin touched' /\ s \notin touched' => Suspect(n, s)'
      BY <1>3, <1>4, <2>1 DEF AlarmFits
    <2>4. n \in checkedNames' /\ touched' = {} /\ SurelyTop(s)' /\ Suspect(n, s)' => <<n, s>> \in alarms'
      <3> SUFFICES ASSUME n \in checkedNames', touched = {}, SurelyTop(s), Suspect(n, s) PROVE <<n, s>> \in alarms'
        BY <2>1
      <3>1. CASE n = n0
        <4>1. s \in DOMAIN corpus.owners
          BY <1>1, <1>2 DEF CorpusFits
        <4> QED
          BY <1>3, <1>4, <3>1, <4>1
      <3>2. CASE n # n0
        BY <1>1, <1>4, <2>1, <3>2 DEF AlarmFits
      <3> QED
        BY <3>1, <3>2
    <2> QED
      BY <2>2, <2>3, <2>4 DEF AlarmFits
  <1>6. n0 \in checkedNames' /\ n0 = typoTask[t].name /\ typoTask[t].step = "check"
    BY <1>1
  <1> QED
    BY <1>1, <1>5, <1>6, EndCheckInd

\* The process ends and another one takes over, or nothing happens.
LEMMA RestartWorkerInd ==
  ASSUME TypoInd, RestartWorker \/ UNCHANGED typoVars
  PROVE  TypoInd'
  <1>1. CASE RestartWorker
    <2>1. /\ corpus' = NoCorpus /\ typoTask' = [t \in CheckTasks |-> NoTask]
          /\ typoJob' = [n \in NewNames |-> IF typoJob[n] = "runs" THEN "waits" ELSE typoJob[n]]
          /\ UNCHANGED <<typoDb, nameChanges, loadFails, checkedNames, alarms, touched>>
      BY <1>1 DEF RestartWorker
    <2>2. \A t \in CheckTasks : typoTask'[t] = NoTask
      BY <2>1
    <2>3. \A n \in NewNames : typoJob'[n] = typoJob[n] \/ (typoJob[n] = "runs" /\ typoJob'[n] = "waits")
      BY <2>1
    <2>4. typoJob' \in [NewNames -> {"none", "waits", "runs", "done"}] /\ \A n \in NewNames : typoJob'[n] # "runs"
      BY <2>1 DEF TypoInd, TypoTypes
    <2>5. Cardinality(DOMAIN corpus'.owners) =< TopCrates
      BY <2>1, NoTaskRecord, FS_EmptySet, SimilarNamesAssumption
    <2>6. TypoTypes'
      BY <2>1, <2>4, <2>5, NoTaskRecord DEF TypoInd, TypoTypes, typoDb
    <2>7. TasksApart'
      BY <2>1, <2>2, <2>4, NoTaskRecord DEF TasksApart
    <2>8. \A t \in CheckTasks : TaskFits(typoTask[t])'
      BY <2>2, NoTaskRecord DEF TaskFits
    <2>9. CorpusFits'
      BY <2>1, NoTaskRecord DEF CorpusFits
    <2>10. ASSUME NEW n \in NewNames PROVE NameFits(n)'
      <3>1. NameFits(n)
        BY DEF TypoInd
      <3> QED
        BY <2>1, <2>3, <3>1 DEF NameFits, typoDb
    <2> QED
      BY <2>1, <2>6, <2>7, <2>8, <2>9, <2>10, AlarmsOn, Unmoved DEF TypoInd
  <1>2. CASE UNCHANGED typoVars
    <2>1. /\ UNCHANGED <<typoDb, corpus, typoJob, typoTask, nameChanges, loadFails, checkedNames, alarms, touched>>
      BY <1>2 DEF typoVars, typoDb
    <2>2. TypoTypes' /\ TasksApart'
      BY <2>1 DEF TypoInd, TypoTypes, TasksApart, typoDb
    <2>3. \A t \in CheckTasks : TaskFits(typoTask[t])'
      BY <2>1 DEF TypoInd, TaskFits, typoDb
    <2>4. \A n \in NewNames : NameFits(n)'
      BY <2>1 DEF TypoInd, NameFits, typoDb
    <2> QED
      BY <2>1, <2>2, <2>3, <2>4, AlarmsOn, Unmoved DEF TypoInd
  <1> QED
    BY <1>1, <1>2

LEMMA StepTypoInd == TypoInd /\ [TypoNext]_typoVars => TypoInd'
  <1> SUFFICES ASSUME TypoInd, [TypoNext]_typoVars PROVE TypoInd'
    OBVIOUS
  <1>1. CASE RestartWorker \/ UNCHANGED typoVars
    BY <1>1, RestartWorkerInd
  <1>2. CASE \/ \E n \in NewNames, os \in SUBSET NameOwners : PublishName(n, os)
             \/ \E c \in names, os \in SUBSET NameOwners : ChangeOwners(c, os)
             \/ \E c \in names : DeleteName(c)
             \/ \E c \in fewDownloads : Downloaded(c)
    BY <1>2, CrateStepInd
  <1>3. ASSUME NEW t \in CheckTasks, NEW n \in NewNames, StartCheck(t, n) PROVE TypoInd'
    BY <1>3, StartCheckInd
  <1>4. ASSUME NEW t \in CheckTasks, LoadTopCrates(t) \/ LoadOwners(t) \/ LoadFails(t) PROVE TypoInd'
    BY <1>4, LoadTopCratesInd, LoadedInd
  <1>5. ASSUME NEW t \in CheckTasks, UseCorpus(t) \/ LookUpName(t) \/ ReadNewOwners(t) PROVE TypoInd'
    BY <1>5, UseCorpusInd, LookUpNameInd, ReadNewOwnersInd
  <1>6. ASSUME NEW t \in CheckTasks, CheckName(t) PROVE TypoInd'
    BY <1>6, CheckNameInd
  <1>7. ASSUME NEW t \in CheckTasks, CheckFails(t) PROVE TypoInd'
    <2>1. /\ typoTask[t].step \in {"cache", "lookup", "owners", "check"} /\ EndCheck(t, "waits")
          /\ UNCHANGED <<typoDb, corpus, nameChanges, loadFails, checkedNames, alarms, touched>>
      BY <1>7 DEF CheckFails
    <2> QED
      BY <2>1, AlarmsOn, EndCheckInd
  <1> QED
    BY <1>1, <1>2, <1>3, <1>4, <1>5, <1>6, <1>7 DEF TypoNext

LEMMA InitTypoInd == TypoInit => TypoInd
  <1> SUFFICES ASSUME TypoInit PROVE TypoInd
    OBVIOUS
  <1>1. /\ names = OldNames /\ ownersOf \in [Names -> SUBSET NameOwners] /\ fewDownloads \subseteq OldNames
        /\ corpus = NoCorpus /\ typoJob = [n \in NewNames |-> "none"] /\ typoTask = [t \in CheckTasks |-> NoTask]
        /\ nameChanges = 0 /\ loadFails = 0 /\ checkedNames = {} /\ alarms = {} /\ touched = {}
    BY DEF TypoInit
  <1>2. Cardinality(DOMAIN corpus.owners) =< TopCrates
    BY <1>1, NoTaskRecord, FS_EmptySet, SimilarNamesAssumption
  <1>3. TypoTypes
    BY <1>1, <1>2, NoTaskRecord, SimilarNamesAssumption DEF TypoTypes, Names
  <1>4. \A t \in CheckTasks : typoTask[t] = NoTask
    BY <1>1
  <1>5. TasksApart /\ CorpusFits /\ \A t \in CheckTasks : TaskFits(typoTask[t])
    BY <1>1, <1>4, NoTaskRecord DEF TasksApart, CorpusFits, TaskFits
  <1>6. \A n \in NewNames : NameFits(n)
    BY <1>1 DEF NameFits
  <1>7. \A n \in NewNames, s \in OldNames : AlarmFits(n, s)
    BY <1>1 DEF AlarmFits
  <1> QED
    BY <1>1, <1>3, <1>5, <1>6, <1>7 DEF TypoInd

\* A set that has an element, and no two of them.
LEMMA ExactlyOne ==
  ASSUME NEW S, NEW P \in BOOLEAN, \A x, y \in S : x = y, P <=> S # {}
  PROVE  Cardinality(S) = IF P THEN 1 ELSE 0
  <1>1. CASE P
    <2>1. PICK x \in S : TRUE
      BY <1>1
    <2>2. S = {x}
      BY <2>1
    <2> QED
      BY <1>1, <2>2, FS_Singleton
  <1>2. CASE ~ P
    BY <1>2, FS_EmptySet
  <1> QED
    BY <1>1, <1>2

\* CheckTyposquat: for any names, owners and jobs at a time, no new crate goes without its check
\* unless it is deleted; alarms between crates that have not changed are right, and while nothing
\* has changed none is missing, whatever process had loaded what it compares with.
THEOREM TyposAreReported == TypoSpec => []TypoInv
  <1>1. TypoInd => TypoInv
    <2> SUFFICES ASSUME TypoInd PROVE TypoInv
      OBVIOUS
    <2>1. TypoTypes /\ TasksApart
      BY DEF TypoInd
    <2>2. Cardinality({t \in CheckTasks : typoTask[t].step = "load"}) = IF corpus.state = "loading" THEN 1 ELSE 0
      <3> DEFINE S == {t \in CheckTasks : typoTask[t].step = "load"}
                 P == corpus.state = "loading"
      <3>1. (\A x, y \in S : x = y) /\ (P <=> S # {}) /\ P \in BOOLEAN
        BY <2>1 DEF TasksApart
      <3> HIDE DEF S, P
      <3>2. Cardinality(S) = IF P THEN 1 ELSE 0
        BY <3>1, ExactlyOne
      <3> QED
        BY <3>2 DEF S, P
    <2>3. ASSUME NEW n \in NewNames
          PROVE  Cardinality({t \in CheckTasks : typoTask[t].name = n}) = IF typoJob[n] = "runs" THEN 1 ELSE 0
      <3> DEFINE S == {t \in CheckTasks : typoTask[t].name = n}
                 P == typoJob[n] = "runs"
      <3>1. (\A x, y \in S : x = y) /\ (P <=> S # {}) /\ P \in BOOLEAN
        BY <2>1 DEF TasksApart
      <3> HIDE DEF S, P
      <3>2. Cardinality(S) = IF P THEN 1 ELSE 0
        BY <3>1, ExactlyOne
      <3> QED
        BY <3>2 DEF S, P
    <2>4. TypoTypeOK
      <3>1. corpus.state \in {"empty", "loading", "ready", "failed", "off"} /\ DOMAIN corpus.owners \subseteq Names
        BY <2>1 DEF TypoTypes, Corpora
      <3> QED
        BY <2>1, <2>2, <2>3, <3>1 DEF TypoTypes, TypoTypeOK
    <2>5. NoneSkipped
      BY DEF TypoInd, NameFits, NoneSkipped
    <2>6. ASSUME NEW n \in checkedNames \ touched, NEW s \in OldNames \ touched
          PROVE  /\ <<n, s>> \in alarms => Suspect(n, s)
                 /\ Suspect(n, s) /\ touched = {} /\ SurelyTop(s) => <<n, s>> \in alarms
      BY <2>1 DEF TypoInd, TypoTypes, AlarmFits
    <2>7. AlarmsExact
      BY <2>6 DEF AlarmsExact, Suspect
    <2> QED
      BY <2>4, <2>5, <2>7 DEF TypoInv
  <1> QED
    BY <1>1, InitTypoInd, StepTypoInd, PTL DEF TypoSpec

-----------------------------------------------------------------------------
(* The feeds.                                                              *)

PendingItems == [crate : FeedCrates, num : FeedNums, at : 0..MaxFeedNow]
FeedSyncs == [step : {"idle", "load", "pad", "upload"}, loaded : SUBSET Item]
ItemsAsked == NumItems[Kind(watched)]

FeedTypes ==
  /\ watched \in FeedIds
  /\ feedNow \in 0..MaxFeedNow
  /\ items \subseteq Item /\ IsFiniteSet(items) /\ gone \subseteq items
  /\ request \in [FeedPublishers -> PendingItems \cup {NoPublish}]
  /\ feedRows \in 0..MaxFeedJobs
  /\ doomed \in BOOLEAN /\ overlap \in BOOLEAN
  /\ syncing \in [FeedWorkers -> FeedSyncs]
  /\ \A w \in FeedWorkers : syncing[w].loaded \subseteq Subjects
  /\ feed \subseteq Subjects

\* As long as no job waits and no two have overlapped: a job that pads had too few young items, what
\* it is about to upload is complete, and so is the feed while none is at work.
FeedFits ==
  ~ overlap /\ feedRows = 0 =>
    /\ \A w \in FeedWorkers : syncing[w].step = "pad" => Cardinality(Young(Query)) < ItemsAsked
    /\ \A w \in FeedWorkers : syncing[w].step = "upload" => Promised \ gone \subseteq syncing[w].loaded
    /\ (\A w \in FeedWorkers : syncing[w] = NoSync) => Promised \ gone \subseteq feed

OneSync == ~ overlap => \A v, w \in FeedWorkers : syncing[v] # NoSync /\ syncing[w] # NoSync => v = w

\* A crate whose feed is to be deleted is not published again.
DoomedFits ==
  doomed =>
    /\ watched \in FeedCrates /\ Subjects \subseteq gone
    /\ \E i \in gone : i.crate = watched /\ i.num = 0
    /\ \A q \in FeedPublishers : request[q].crate # watched

FeedInd == FeedTypes /\ OneSync /\ FeedFits /\ DoomedFits

\* What the queries count.
LEMMA FeedSets ==
  ASSUME FeedTypes
  PROVE  /\ ItemsAsked \in Nat /\ AlwaysIncludeAge[Kind(watched)] \in Nat /\ feedNow \in Nat
         /\ Subjects \subseteq items /\ \A i \in items : i.at \in Nat
         /\ \A s \in SUBSET Subjects : IsFiniteSet(s) /\ Cardinality(s) \in Nat
         /\ Young(Query) \subseteq Query /\ Query \subseteq Subjects
  <1>1. Kind(watched) \in Kinds
    BY DEF FeedTypes, FeedIds, Kind, Kinds
  <1>2. Subjects \subseteq items
    BY DEF Subjects
  <1>3. ASSUME NEW s \in SUBSET Subjects PROVE IsFiniteSet(s) /\ Cardinality(s) \in Nat
    BY <1>2, FS_Subset, FS_CardinalityType DEF FeedTypes
  <1>4. \A i \in items : i.at \in Nat
    BY FeedsAssumption DEF FeedTypes, Item
  <1> QED
    BY <1>1, <1>2, <1>3, <1>4, FeedsAssumption DEF FeedTypes, ItemsAsked, Young, Query

\* Enough young items: they are what was promised.
LEMMA YoungSuffice ==
  ASSUME FeedTypes, Cardinality(Young(Query)) >= ItemsAsked
  PROVE  Promised \ gone \subseteq Young(Query)
  <1> PICK young : young = Young(Query)
    OBVIOUS
  <1>1. /\ ItemsAsked \in Nat /\ young \subseteq Subjects /\ IsFiniteSet(young) /\ Cardinality(young) \in Nat
        /\ feedNow \in Nat /\ AlwaysIncludeAge[Kind(watched)] \in Nat
    BY FeedSets
  <1> SUFFICES ASSUME NEW i \in Promised \ gone, i \notin young PROVE FALSE
    OBVIOUS
  <1>2. i \in Subjects /\ i \in Query /\ i.at \in Nat /\ \A j \in young : j.at \in Nat
    BY <1>1, FeedSets DEF Promised, Query
  <1> PICK above : above = {j \in Subjects : j.at >= i.at}
    OBVIOUS
  <1>3. ~ (i.at > feedNow - AlwaysIncludeAge[Kind(watched)])
    BY <1>2 DEF Young
  <1>4. Cardinality(above) =< ItemsAsked
    BY <1>2, <1>3 DEF Promised, Young, ItemsAsked
  <1>5. \A j \in young : j.at > feedNow - AlwaysIncludeAge[Kind(watched)]
    BY DEF Young
  <1>6. young \cup {i} \subseteq above
    BY <1>1, <1>2, <1>3, <1>5
  <1>7. IsFiniteSet(above) /\ Cardinality(above) \in Nat
    BY FeedSets
  <1>8. Cardinality(young \cup {i}) = Cardinality(young) + 1
    BY <1>1, FS_AddElement
  <1>9. Cardinality(young \cup {i}) =< Cardinality(above)
    BY <1>6, <1>7, FS_Subset
  <1> QED
    BY <1>1, <1>4, <1>7, <1>8, <1>9

\* Too few young items: the newest ones are what was promised.
LEMMA NewestSuffice ==
  ASSUME FeedTypes, Cardinality(Young(Query)) < ItemsAsked, NEW rows \in Newest(Query, ItemsAsked)
  PROVE  Promised \ gone \subseteq rows
  <1> PICK n : n = ItemsAsked
    OBVIOUS
  <1> PICK all : all = Query
    OBVIOUS
  <1>1. /\ n \in Nat /\ all \subseteq Subjects /\ IsFiniteSet(all) /\ Cardinality(all) \in Nat
        /\ feedNow \in Nat /\ AlwaysIncludeAge[Kind(watched)] \in Nat
    BY FeedSets
  <1>2. /\ rows \subseteq all /\ Cardinality(rows) = IF Cardinality(all) < n THEN Cardinality(all) ELSE n
        /\ \A i \in rows, j \in all \ rows : i.at >= j.at
    BY DEF Newest
  <1>3. IsFiniteSet(rows) /\ Cardinality(rows) \in Nat
    BY <1>1, <1>2, FeedSets
  <1> SUFFICES ASSUME NEW i \in Promised \ gone, i \notin rows PROVE FALSE
    OBVIOUS
  <1>4. i \in Subjects /\ i \in all /\ i.at \in Nat /\ \A j \in rows : j.at \in Nat /\ j.at >= i.at
    BY <1>1, <1>2, FeedSets DEF Promised, Query
  <1>5. Cardinality(rows) = n
    <2>1. rows # all
      BY <1>4
    <2>2. Cardinality(rows) # Cardinality(all)
      BY <1>1, <1>2, <1>3, <2>1, FS_Subset
    <2> QED
      BY <1>2, <2>2
  <1>6. CASE i.at > feedNow - AlwaysIncludeAge[Kind(watched)]
    <2> PICK young : young = Young(Query)
      OBVIOUS
    <2>1. rows \subseteq young
      BY <1>1, <1>2, <1>4, <1>6 DEF Young
    <2>2. IsFiniteSet(young) /\ Cardinality(young) \in Nat
      BY FeedSets
    <2>3. Cardinality(rows) =< Cardinality(young)
      BY <2>1, <2>2, FS_Subset
    <2> QED
      BY <1>1, <1>5, <2>2, <2>3
  <1>7. CASE ~ (i.at > feedNow - AlwaysIncludeAge[Kind(watched)])
    <2> PICK above : above = {j \in Subjects : j.at >= i.at}
      OBVIOUS
    <2>1. Cardinality(above) =< n
      BY <1>4, <1>7 DEF Promised, Young, ItemsAsked
    <2>2. rows \cup {i} \subseteq above
      BY <1>1, <1>2, <1>4
    <2>3. IsFiniteSet(above) /\ Cardinality(above) \in Nat
      BY FeedSets
    <2>4. Cardinality(rows \cup {i}) = Cardinality(rows) + 1
      BY <1>3, FS_AddElement
    <2>5. Cardinality(rows \cup {i}) =< Cardinality(above)
      BY <2>2, <2>3, FS_Subset
    <2> QED
      BY <1>1, <1>5, <2>1, <2>3, <2>4, <2>5
  <1> QED
    BY <1>6, <1>7

\* Time and deletions leave less to promise.
LEMMA PromiseShrinks ==
  ASSUME FeedTypes, FeedTypes', Subjects' = Subjects, watched' = watched, feedNow =< feedNow', gone \subseteq gone'
  PROVE  /\ (Promised \ gone)' \subseteq Promised \ gone
         /\ Cardinality(Young(Query))' =< Cardinality(Young(Query))
         /\ ItemsAsked' = ItemsAsked
         /\ Cardinality(Young(Query))' \in Nat /\ Cardinality(Young(Query)) \in Nat
  <1>1. /\ AlwaysIncludeAge[Kind(watched)] \in Nat /\ feedNow \in Nat /\ feedNow' \in Nat
        /\ \A i \in Subjects : i.at \in Nat
    BY FeedSets DEF FeedTypes
  <1>2. \A i \in Subjects : i.at > feedNow' - AlwaysIncludeAge[Kind(watched)] => i.at > feedNow - AlwaysIncludeAge[Kind(watched)]
    BY <1>1
  <1>3. Young(Subjects)' \subseteq Young(Subjects)
    BY <1>2 DEF Young, Kind
  <1>4. Promised' \subseteq Promised
    BY <1>3 DEF Promised, Kind
  <1>5. Young(Query)' \subseteq Young(Query)
    BY <1>2 DEF Young, Query, Kind
  <1>6. IsFiniteSet(Young(Query)) /\ Cardinality(Young(Query)) \in Nat
    BY FeedSets
  <1> PICK before : before = Young(Query)
    OBVIOUS
  <1>7. Cardinality(Young(Query)') =< Cardinality(before) /\ Cardinality(Young(Query)') \in Nat
    BY <1>5, <1>6, FS_Subset, FS_CardinalityType
  <1> QED
    BY <1>4, <1>6, <1>7 DEF ItemsAsked, Kind


\* The rows change, or the time; no job does.
LEMMA RowsMove ==
  ASSUME FeedInd, FeedTypes', UNCHANGED <<watched, syncing, feed, overlap>>, DoomedFits',
         feedRows' > 0 \/ (feedRows' = feedRows /\ Subjects' = Subjects /\ feedNow =< feedNow' /\ gone \subseteq gone')
  PROVE  FeedInd'
  <1>1. OneSync'
    BY DEF FeedInd, OneSync
  <1>2. CASE feedRows' > 0
    BY <1>1, <1>2 DEF FeedInd, FeedFits
  <1>3. CASE feedRows' = feedRows /\ Subjects' = Subjects /\ feedNow =< feedNow' /\ gone \subseteq gone'
    <2>1. /\ (Promised \ gone)' \subseteq Promised \ gone /\ ItemsAsked \in Nat
          /\ Cardinality(Young(Query))' =< Cardinality(Young(Query)) /\ ItemsAsked' = ItemsAsked
          /\ Cardinality(Young(Query))' \in Nat /\ Cardinality(Young(Query)) \in Nat
      BY <1>3, PromiseShrinks, FeedSets DEF FeedInd
    <2>2. Cardinality(Young(Query)) < ItemsAsked => Cardinality(Young(Query))' < ItemsAsked'
      BY <2>1
    <2>3. FeedFits'
      BY <1>3, <2>1, <2>2 DEF FeedInd, FeedFits
    <2> QED
      BY <1>1, <2>3 DEF FeedInd
  <1> QED
    BY <1>2, <1>3

\* The rows a feed is about, for each kind of feed.
LEMMA SubjectsAre ==
  ASSUME FeedTypes
  PROVE  /\ watched = "updates" => Subjects = {i \in items : i.num # 0}
         /\ watched = "crates" => Subjects = {i \in items : i.num = 0}
         /\ watched \in FeedCrates => Subjects = {i \in items : i.crate = watched /\ i.num # 0}
         /\ watched = "updates" \/ watched = "crates" \/ watched \in FeedCrates
  BY FeedsAssumption DEF FeedTypes, FeedIds, Subjects

LEMMA PublishBeginInd ==
  ASSUME FeedInd, NEW p \in FeedPublishers, NEW c \in FeedCrates, NEW n \in FeedNums, PublishBegin(p, c, n)
  PROVE  FeedInd'
  <1> PICK r : r = [crate |-> c, num |-> n, at |-> feedNow]
    OBVIOUS
  <1>1. /\ \A i \in gone : i.crate = c => i.num \notin {0, n}
        /\ request' = [request EXCEPT ![p] = r]
        /\ UNCHANGED <<watched, feedNow, items, gone, feedRows, doomed, syncing, feed, overlap>>
    BY DEF PublishBegin
  <1>2. r \in PendingItems /\ r.crate = c
    BY DEF FeedInd, FeedTypes, PendingItems
  <1>3. Subjects' = Subjects
    BY <1>1 DEF Subjects
  <1>4. FeedTypes'
    BY <1>1, <1>2, <1>3 DEF FeedInd, FeedTypes
  <1>5. feedNow =< feedNow'
    BY <1>1, FeedSets DEF FeedInd
  <1>6. DoomedFits'
    <2>1. doomed => c # watched
      BY <1>1 DEF FeedInd, DoomedFits
    <2>2. doomed => \A q \in FeedPublishers : request'[q].crate # watched
      BY <1>1, <1>2, <2>1 DEF FeedInd, FeedTypes, DoomedFits
    <2> QED
      BY <1>1, <1>3, <2>2 DEF FeedInd, DoomedFits
  <1> QED
    BY <1>1, <1>3, <1>4, <1>5, <1>6, RowsMove

LEMMA PublishEndInd ==
  ASSUME FeedInd, NEW p \in FeedPublishers, PublishEnd(p)
  PROVE  FeedInd'
  <1> PICK r : r = request[p]
    OBVIOUS
  <1> PICK new : new = \A i \in items : ~ (i.crate = r.crate /\ i.num = 0)
    OBVIOUS
  <1> PICK own : own = [r EXCEPT !.num = 0]
    OBVIOUS
  <1> PICK fs : fs = {r.crate, "updates"} \cup (IF new THEN {"crates"} ELSE {})
    OBVIOUS
  <1>1. /\ r # NoPublish /\ items' = items \cup {r} \cup (IF new THEN {own} ELSE {})
        /\ feedRows' = IF watched \in fs /\ feedRows = 0 THEN 1 ELSE feedRows
        /\ request' = [request EXCEPT ![p] = NoPublish]
        /\ UNCHANGED <<watched, feedNow, gone, doomed, syncing, feed, overlap>>
    BY DEF PublishEnd, EnqueueFeeds
  <1>2. FeedTypes /\ r \in PendingItems
    BY <1>1 DEF FeedInd, FeedTypes
  <1>3. /\ r \in Item /\ r.num \in FeedNums /\ r.num # 0 /\ r.crate \in FeedCrates
        /\ own \in Item /\ own.crate = r.crate /\ own.num = 0
    BY <1>2, FeedsAssumption DEF PendingItems, Item
  <1>4. items \subseteq items' /\ items' \subseteq Item /\ IsFiniteSet(items')
    <2>1. IsFiniteSet(items \cup {r})
      BY <1>2, FS_AddElement DEF FeedTypes
    <2>2. IsFiniteSet(items \cup {r} \cup {own})
      BY <2>1, FS_AddElement
    <2>3. items' = items \cup {r} \/ items' = items \cup {r} \cup {own}
      BY <1>1
    <2> QED
      BY <1>2, <1>3, <2>1, <2>2, <2>3 DEF FeedTypes
  <1>5. Subjects \subseteq Subjects'
    BY <1>1, <1>4 DEF Subjects
  <1>6. request' \in [FeedPublishers -> PendingItems \cup {NoPublish}] /\ feedRows' \in 0..MaxFeedJobs
    BY <1>1, <1>2, FeedsAssumption DEF FeedTypes
  <1>7. FeedTypes'
    BY <1>1, <1>2, <1>4, <1>5, <1>6 DEF FeedTypes
  <1>8. watched \in fs \/ Subjects' = Subjects
    <2> SUFFICES ASSUME watched \notin fs PROVE Subjects' = Subjects
      OBVIOUS
    <2>1. watched # "updates" /\ watched # r.crate /\ (new => watched # "crates")
      OBVIOUS
    <2>2. CASE watched = "crates"
      <3>1. items' = items \cup {r}
        BY <1>1, <2>1, <2>2
      <3> QED
        BY <1>1, <1>3, <2>2, <3>1 DEF Subjects
    <2>3. CASE watched # "crates"
      <3>1. Subjects = {i \in items : i.crate = watched /\ i.num # 0}
        BY <1>2, <2>1, <2>3, SubjectsAre
      <3>2. Subjects' = {i \in items' : i.crate = watched /\ i.num # 0}
        BY <1>1, <2>1, <2>3 DEF Subjects
      <3>3. \A i \in items' : i \in items \/ i.crate = r.crate
        BY <1>1, <1>3
      <3> QED
        BY <1>4, <2>1, <3>1, <3>2, <3>3
    <2> QED
      BY <2>2, <2>3
  <1>9. DoomedFits'
    <2> SUFFICES ASSUME doomed PROVE DoomedFits'
      BY <1>1 DEF DoomedFits
    <2>1. /\ watched \in FeedCrates /\ Subjects \subseteq gone /\ watched # r.crate
          /\ \E i \in gone : i.crate = watched /\ i.num = 0
          /\ \A q \in FeedPublishers : request[q].crate # watched
      BY DEF FeedInd, DoomedFits
    <2>2. Subjects' = Subjects
      <3>1. Subjects = {i \in items : i.crate = watched /\ i.num # 0}
        BY <1>2, <2>1, SubjectsAre
      <3>2. Subjects' = {i \in items' : i.crate = watched /\ i.num # 0}
        BY <1>1, <1>7, <2>1, SubjectsAre, FeedsAssumption DEF Subjects
      <3>3. \A i \in items' : i \in items \/ i.crate = r.crate
        BY <1>1, <1>3
      <3> QED
        BY <1>4, <2>1, <3>1, <3>2, <3>3
    <2>3. NoPublish.crate # watched
      BY <2>1, FeedsAssumption
    <2> QED
      BY <1>1, <1>2, <2>1, <2>2, <2>3 DEF DoomedFits, FeedTypes
  <1>10. feedNow =< feedNow' /\ feedRows \in Nat
    BY <1>1, <1>2, FeedSets, FeedsAssumption DEF FeedTypes
  <1> QED
    BY <1>1, <1>7, <1>8, <1>9, <1>10, RowsMove

LEMMA DeleteCrateRowsInd ==
  ASSUME FeedInd, NEW c \in FeedCrates, DeleteCrateRows(c)
  PROVE  FeedInd'
  <1>1. /\ \A q \in FeedPublishers : request[q].crate # c
        /\ gone' = gone \cup {i \in items : i.crate = c} /\ doomed' = (doomed \/ c = watched)
        /\ UNCHANGED <<watched, feedNow, items, request, feedRows, syncing, feed, overlap>>
    BY DEF DeleteCrateRows
  <1>2. \E i \in items : i.crate = c /\ i.num = 0
    BY DEF DeleteCrateRows
  <1>3. Subjects' = Subjects
    BY <1>1 DEF Subjects
  <1>4. FeedTypes'
    BY <1>1, <1>3 DEF FeedInd, FeedTypes
  <1>5. feedNow =< feedNow'
    BY <1>1, FeedSets DEF FeedInd
  <1>6. DoomedFits'
    <2>1. CASE c = watched
      <3>1. Subjects \subseteq {i \in items : i.crate = c}
        BY <2>1, SubjectsAre DEF FeedInd
      <3>2. \E i \in gone' : i.crate = watched /\ i.num = 0
        BY <1>1, <1>2, <2>1
      <3> QED
        BY <1>1, <1>3, <2>1, <3>1, <3>2 DEF DoomedFits
    <2>2. CASE c # watched
      BY <1>1, <1>3, <2>2 DEF FeedInd, DoomedFits, FeedTypes
    <2> QED
      BY <2>1, <2>2
  <1> QED
    BY <1>1, <1>3, <1>4, <1>5, <1>6, RowsMove

LEMMA DeleteVersionRowInd ==
  ASSUME FeedInd, NEW i \in items, DeleteVersionRow(i)
  PROVE  FeedInd'
  <1>1. /\ gone' = gone \cup {i}
        /\ UNCHANGED <<watched, feedNow, items, request, feedRows, doomed, syncing, feed, overlap>>
    BY DEF DeleteVersionRow
  <1>2. Subjects' = Subjects
    BY <1>1 DEF Subjects
  <1>3. FeedTypes' /\ feedNow =< feedNow' /\ DoomedFits'
    BY <1>1, <1>2, FeedSets DEF FeedInd, FeedTypes, DoomedFits
  <1> QED
    BY <1>1, <1>2, <1>3, RowsMove

LEMMA EnqueueFeedJobInd ==
  ASSUME FeedInd, NEW f \in FeedIds, EnqueueFeedJob(f)
  PROVE  FeedInd'
  <1>1. /\ feedRows' = 1 \/ feedRows' = feedRows
        /\ UNCHANGED <<watched, feedNow, items, gone, request, doomed, syncing, feed, overlap>>
    BY DEF EnqueueFeedJob, EnqueueFeeds
  <1>2. Subjects' = Subjects
    BY <1>1 DEF Subjects
  <1>3. FeedTypes'
    BY <1>1, <1>2, FeedsAssumption DEF FeedInd, FeedTypes
  <1>4. feedNow =< feedNow' /\ DoomedFits'
    BY <1>1, <1>2, FeedSets DEF FeedInd, DoomedFits
  <1> QED
    BY <1>1, <1>2, <1>3, <1>4, RowsMove

LEMMA FeedTickInd ==
  ASSUME FeedInd, FeedTick
  PROVE  FeedInd'
  <1>1. /\ feedNow < MaxFeedNow /\ feedNow' = feedNow + 1
        /\ UNCHANGED <<watched, items, gone, request, feedRows, doomed, syncing, feed, overlap>>
    BY DEF FeedTick
  <1>2. Subjects' = Subjects
    BY <1>1 DEF Subjects
  <1>3. feedNow' \in 0..MaxFeedNow /\ feedNow =< feedNow'
    BY <1>1, FeedsAssumption DEF FeedInd, FeedTypes
  <1>4. FeedTypes' /\ DoomedFits'
    BY <1>1, <1>2, <1>3 DEF FeedInd, FeedTypes, DoomedFits
  <1> QED
    BY <1>1, <1>2, <1>3, <1>4, RowsMove

LEMMA DeleteFeedInd ==
  ASSUME FeedInd, DeleteFeed
  PROVE  FeedInd'
  <1>1. /\ doomed /\ doomed' = FALSE /\ feed' = {}
        /\ UNCHANGED <<watched, feedNow, items, gone, request, feedRows, syncing, overlap>>
    BY DEF DeleteFeed
  <1>2. Subjects' = Subjects /\ Query' = Query
    BY <1>1 DEF Query, Subjects
  <1>3. Young(Query)' = Young(Query) /\ ItemsAsked' = ItemsAsked
    BY <1>1, <1>2 DEF Young, ItemsAsked, Kind
  <1>4. Promised' = Promised
    BY <1>1, <1>2 DEF Promised, Young, Kind
  <1>5. Promised \ gone = {}
    BY <1>1 DEF FeedInd, DoomedFits, Promised
  <1>6. FeedTypes'
    BY <1>1, <1>2 DEF FeedInd, FeedTypes
  <1>7. FeedFits'
    BY <1>1, <1>3, <1>4, <1>5 DEF FeedInd, FeedFits
  <1> QED
    BY <1>1, <1>6, <1>7 DEF FeedInd, OneSync, DoomedFits

\* What the steps of a job leave alone.
LEMMA RowsRest ==
  ASSUME FeedInd, UNCHANGED <<watched, feedNow, items, gone, request, doomed>>
  PROVE  /\ Subjects' = Subjects /\ Query' = Query /\ Young(Query)' = Young(Query)
         /\ ItemsAsked' = ItemsAsked /\ Promised' = Promised /\ DoomedFits'
  <1>1. Subjects' = Subjects /\ Query' = Query
    BY DEF Query, Subjects
  <1>2. Young(Query)' = Young(Query) /\ ItemsAsked' = ItemsAsked
    BY <1>1 DEF Young, ItemsAsked, Kind
  <1>3. Promised' = Promised
    BY <1>1 DEF Promised, Young, Kind
  <1> QED
    BY <1>1, <1>2, <1>3 DEF FeedInd, DoomedFits

\* A job that starts alone is alone.
LEMMA SyncFeedInd ==
  ASSUME FeedInd, NEW w \in FeedWorkers, SyncFeed(w)
  PROVE  FeedInd'
  <1> PICK started : started = [NoSync EXCEPT !.step = "load"]
    OBVIOUS
  <1>1. /\ syncing[w] = NoSync /\ feedRows > 0 /\ feedRows' = feedRows - 1
        /\ overlap' = (overlap \/ \E v \in FeedWorkers : syncing[v] # NoSync)
        /\ syncing' = [syncing EXCEPT ![w] = started]
        /\ UNCHANGED <<watched, feedNow, items, gone, request, doomed, feed>>
    BY DEF SyncFeed
  <1>2. started = [step |-> "load", loaded |-> {}]
    BY DEF NoSync
  <1>3. Subjects' = Subjects /\ DoomedFits'
    BY <1>1, RowsRest
  <1>4. /\ syncing \in [FeedWorkers -> FeedSyncs] /\ started \in FeedSyncs
        /\ syncing' \in [FeedWorkers -> FeedSyncs]
    BY <1>1, <1>2 DEF FeedInd, FeedTypes, FeedSyncs
  <1>5. feedRows' \in 0..MaxFeedJobs
    BY <1>1, FeedsAssumption DEF FeedInd, FeedTypes
  <1>6. \A v \in FeedWorkers : syncing'[v] = IF v = w THEN started ELSE syncing[v]
    BY <1>1, <1>4
  <1>7. FeedTypes'
    BY <1>1, <1>2, <1>3, <1>4, <1>5, <1>6 DEF FeedInd, FeedTypes
  <1>8. ~ overlap' => \A v \in FeedWorkers : v # w => syncing'[v] = NoSync
    BY <1>1, <1>6
  <1>9. OneSync'
    BY <1>8 DEF OneSync
  <1>10. NoSync.step = "idle" /\ started.step = "load"
    BY <1>2 DEF NoSync
  <1>11. FeedFits'
    BY <1>6, <1>8, <1>10 DEF FeedFits
  <1> QED
    BY <1>3, <1>7, <1>9, <1>11 DEF FeedInd

\* One job moves on: what it holds for the upload, or for the padding, fits.
LEMMA SyncMoves ==
  ASSUME FeedInd, NEW w \in FeedWorkers, NEW now \in FeedSyncs,
         syncing[w] # NoSync, syncing' = [syncing EXCEPT ![w] = now],
         now # NoSync, now.loaded \subseteq Subjects,
         UNCHANGED <<watched, feedNow, items, gone, request, feedRows, doomed, feed, overlap>>,
         ~ overlap /\ feedRows = 0 =>
           /\ now.step = "pad" => Cardinality(Young(Query)) < ItemsAsked
           /\ now.step = "upload" => Promised \ gone \subseteq now.loaded
  PROVE  FeedInd'
  <1>1. syncing \in [FeedWorkers -> FeedSyncs]
    BY DEF FeedInd, FeedTypes
  <1>2. \A v \in FeedWorkers : syncing'[v] = IF v = w THEN now ELSE syncing[v]
    BY <1>1
  <1>3. /\ Subjects' = Subjects /\ Young(Query)' = Young(Query)
        /\ ItemsAsked' = ItemsAsked /\ Promised' = Promised /\ DoomedFits'
    BY RowsRest
  <1>4. syncing' \in [FeedWorkers -> FeedSyncs]
    BY <1>1
  <1>5. FeedTypes'
    BY <1>2, <1>3, <1>4 DEF FeedInd, FeedTypes
  <1>6. OneSync'
    BY <1>2 DEF FeedInd, OneSync
  <1>7. FeedFits'
    BY <1>2, <1>3 DEF FeedInd, FeedFits
  <1> QED
    BY <1>3, <1>5, <1>6, <1>7 DEF FeedInd

LEMMA LoadYoungInd ==
  ASSUME FeedInd, NEW w \in FeedWorkers, LoadYoung(w)
  PROVE  FeedInd'
  <1> PICK young : young = Young(Query)
    OBVIOUS
  <1> PICK now : now = [step |-> IF Cardinality(young) >= ItemsAsked THEN "upload" ELSE "pad",
                        loaded |-> IF Cardinality(young) >= ItemsAsked THEN young ELSE {}]
    OBVIOUS
  <1>1. syncing \in [FeedWorkers -> FeedSyncs]
    BY DEF FeedInd, FeedTypes
  <1>2. /\ syncing[w].step = "load"
        /\ syncing' = [syncing EXCEPT ![w].step = IF Cardinality(young) >= ItemsAsked THEN "upload" ELSE "pad",
                                      ![w].loaded = IF Cardinality(young) >= ItemsAsked THEN young ELSE {}]
        /\ UNCHANGED <<watched, feedNow, items, gone, request, feedRows, doomed, feed, overlap>>
    BY DEF LoadYoung, ItemsAsked
  <1>0. FeedTypes
    BY DEF FeedInd
  <1>3. syncing' = [syncing EXCEPT ![w] = now]
    <2> PICK step : step = IF Cardinality(young) >= ItemsAsked THEN "upload" ELSE "pad"
      OBVIOUS
    <2> PICK loaded : loaded = IF Cardinality(young) >= ItemsAsked THEN young ELSE {}
      OBVIOUS
    <2>1. syncing' = [syncing EXCEPT ![w].step = step, ![w].loaded = loaded]
      BY <1>2
    <2>2. now = [step |-> step, loaded |-> loaded]
      OBVIOUS
    <2> PICK T : T = {"idle", "load", "pad", "upload"}
      OBVIOUS
    <2> PICK U : U = SUBSET Item
      OBVIOUS
    <2>3. syncing[w] \in [step : T, loaded : U]
      BY <1>1 DEF FeedSyncs
    <2>4. step \in T /\ loaded \in U
      BY <1>0, FeedSets DEF FeedTypes, Newest, Query, Young
    <2> PICK half : half = [syncing[w] EXCEPT !.step = step]
      OBVIOUS
    <2>5. half \in [step : T, loaded : U] /\ half.step = step
      BY <2>3, <2>4
    <2> PICK full : full = [half EXCEPT !.loaded = loaded]
      OBVIOUS
    <2>6. full \in [step : T, loaded : U] /\ full.loaded = loaded
      BY <2>4, <2>5
    <2>7. full.step = step
      BY <2>5
    <2>8. full = [step |-> full.step, loaded |-> full.loaded]
      BY <2>6
    <2>9. full = now
      BY <2>2, <2>6, <2>7, <2>8
    <2>10. syncing' = [syncing EXCEPT ![w] = full]
      BY <1>1, <2>1
    <2> QED
      BY <2>9, <2>10
  <1>4. syncing[w] # NoSync /\ now # NoSync
    BY <1>2 DEF NoSync
  <1>5. /\ young \subseteq Subjects /\ Subjects \subseteq Item /\ Cardinality(young) \in Nat /\ ItemsAsked \in Nat
    BY FeedSets DEF FeedInd, FeedTypes
  <1>6. now \in FeedSyncs /\ now.loaded \subseteq Subjects
    BY <1>5 DEF FeedSyncs
  <1>7. now.step = "pad" => Cardinality(young) < ItemsAsked
    BY <1>5
  <1>8. now.step = "upload" => Promised \ gone \subseteq now.loaded
    BY YoungSuffice DEF FeedInd
  <1> QED
    BY <1>2, <1>3, <1>4, <1>6, <1>7, <1>8, SyncMoves

LEMMA LoadPaddedInd ==
  ASSUME FeedInd, NEW w \in FeedWorkers, LoadPadded(w)
  PROVE  FeedInd'
  <1>1. syncing \in [FeedWorkers -> FeedSyncs]
    BY DEF FeedInd, FeedTypes
  <1> PICK rows \in Newest(Query, ItemsAsked) : syncing' = [syncing EXCEPT ![w].step = "upload", ![w].loaded = rows]
    BY DEF LoadPadded, ItemsAsked
  <1> PICK now : now = [step |-> "upload", loaded |-> rows]
    OBVIOUS
  <1>2. /\ syncing[w].step = "pad"
        /\ UNCHANGED <<watched, feedNow, items, gone, request, feedRows, doomed, feed, overlap>>
    BY DEF LoadPadded
  <1>0. FeedTypes
    BY DEF FeedInd
  <1>3. syncing' = [syncing EXCEPT ![w] = now]
    <2> PICK step : step = "upload"
      OBVIOUS
    <2> PICK loaded : loaded = rows
      OBVIOUS
    <2>1. syncing' = [syncing EXCEPT ![w].step = step, ![w].loaded = loaded]
      BY <1>2
    <2>2. now = [step |-> step, loaded |-> loaded]
      OBVIOUS
    <2> PICK T : T = {"idle", "load", "pad", "upload"}
      OBVIOUS
    <2> PICK U : U = SUBSET Item
      OBVIOUS
    <2>3. syncing[w] \in [step : T, loaded : U]
      BY <1>1 DEF FeedSyncs
    <2>4. step \in T /\ loaded \in U
      BY <1>0, FeedSets DEF FeedTypes, Newest, Query, Young
    <2> PICK half : half = [syncing[w] EXCEPT !.step = step]
      OBVIOUS
    <2>5. half \in [step : T, loaded : U] /\ half.step = step
      BY <2>3, <2>4
    <2> PICK full : full = [half EXCEPT !.loaded = loaded]
      OBVIOUS
    <2>6. full \in [step : T, loaded : U] /\ full.loaded = loaded
      BY <2>4, <2>5
    <2>7. full.step = step
      BY <2>5
    <2>8. full = [step |-> full.step, loaded |-> full.loaded]
      BY <2>6
    <2>9. full = now
      BY <2>2, <2>6, <2>7, <2>8
    <2>10. syncing' = [syncing EXCEPT ![w] = full]
      BY <1>1, <2>1
    <2> QED
      BY <2>9, <2>10
  <1>4. syncing[w] # NoSync /\ now # NoSync
    BY <1>2 DEF NoSync
  <1>5. rows \subseteq Subjects /\ Subjects \subseteq Item
    BY FeedSets DEF FeedInd, FeedTypes, Newest, Query
  <1>6. now \in FeedSyncs /\ now.loaded \subseteq Subjects
    BY <1>5 DEF FeedSyncs
  <1>7. ~ overlap /\ feedRows = 0 => Promised \ gone \subseteq rows
    BY <1>2, NewestSuffice DEF FeedInd, FeedFits
  <1> QED
    BY <1>2, <1>3, <1>4, <1>6, <1>7, SyncMoves

LEMMA UploadFeedInd ==
  ASSUME FeedInd, NEW w \in FeedWorkers, UploadFeed(w)
  PROVE  FeedInd'
  <1>1. /\ syncing[w].step = "upload" /\ feed' = syncing[w].loaded /\ syncing' = [syncing EXCEPT ![w] = NoSync]
        /\ UNCHANGED <<watched, feedNow, items, gone, request, feedRows, doomed, overlap>>
    BY DEF UploadFeed
  <1>2. syncing \in [FeedWorkers -> FeedSyncs] /\ syncing[w].loaded \subseteq Subjects
    BY DEF FeedInd, FeedTypes
  <1>3. \A v \in FeedWorkers : syncing'[v] = IF v = w THEN NoSync ELSE syncing[v]
    BY <1>1, <1>2
  <1>4. NoSync \in FeedSyncs /\ NoSync.loaded = {} /\ NoSync.step = "idle"
    BY DEF NoSync, FeedSyncs
  <1>5. /\ Subjects' = Subjects /\ Young(Query)' = Young(Query)
        /\ ItemsAsked' = ItemsAsked /\ Promised' = Promised /\ DoomedFits'
    BY <1>1, RowsRest
  <1>6. syncing' \in [FeedWorkers -> FeedSyncs]
    BY <1>1, <1>2, <1>4
  <1>7. FeedTypes'
    BY <1>1, <1>2, <1>3, <1>4, <1>5, <1>6 DEF FeedInd, FeedTypes
  <1>8. OneSync'
    BY <1>1, <1>3 DEF FeedInd, OneSync
  <1>9. ~ overlap /\ feedRows = 0 => Promised \ gone \subseteq syncing[w].loaded
    BY <1>1 DEF FeedInd, FeedFits
  <1>10. ~ overlap => \A v \in FeedWorkers : syncing'[v] = NoSync
    BY <1>1, <1>3, <1>4 DEF FeedInd, OneSync
  <1>11. FeedFits'
    BY <1>1, <1>4, <1>5, <1>9, <1>10 DEF FeedFits
  <1> QED
    BY <1>5, <1>7, <1>8, <1>11 DEF FeedInd

LEMMA SyncFailsInd ==
  ASSUME FeedInd, NEW w \in FeedWorkers, SyncFails(w)
  PROVE  FeedInd'
  <1>1. /\ feedRows < MaxFeedJobs /\ feedRows' = feedRows + 1 /\ syncing' = [syncing EXCEPT ![w] = NoSync]
        /\ UNCHANGED <<watched, feedNow, items, gone, request, doomed, feed, overlap>>
    BY DEF SyncFails
  <1>2. syncing \in [FeedWorkers -> FeedSyncs]
    BY DEF FeedInd, FeedTypes
  <1>3. \A v \in FeedWorkers : syncing'[v] = IF v = w THEN NoSync ELSE syncing[v]
    BY <1>1, <1>2
  <1>4. NoSync \in FeedSyncs /\ NoSync.loaded = {}
    BY DEF NoSync, FeedSyncs
  <1>5. Subjects' = Subjects /\ DoomedFits'
    BY <1>1, RowsRest
  <1>6. syncing' \in [FeedWorkers -> FeedSyncs]
    BY <1>1, <1>2, <1>4
  <1>7. feedRows' \in 0..MaxFeedJobs /\ feedRows' # 0
    BY <1>1, FeedsAssumption DEF FeedInd, FeedTypes
  <1>8. FeedTypes'
    BY <1>1, <1>3, <1>4, <1>5, <1>6, <1>7 DEF FeedInd, FeedTypes
  <1>9. OneSync' /\ FeedFits'
    BY <1>1, <1>3, <1>7 DEF FeedInd, OneSync, FeedFits
  <1> QED
    BY <1>5, <1>8, <1>9 DEF FeedInd

LEMMA FeedRestInd ==
  ASSUME FeedInd, UNCHANGED feedVars
  PROVE  FeedInd'
  <1>1. UNCHANGED <<watched, feedNow, items, gone, request, feedRows, doomed, syncing, feed, overlap>>
    BY DEF feedVars
  <1>2. Subjects' = Subjects /\ DoomedFits' /\ feedNow =< feedNow'
    BY <1>1, RowsRest, FeedSets DEF FeedInd
  <1>3. FeedTypes'
    BY <1>1, <1>2 DEF FeedInd, FeedTypes
  <1> QED
    BY <1>1, <1>2, <1>3, RowsMove

LEMMA StepFeedInd ==
  ASSUME FeedInd, [FeedNext]_feedVars
  PROVE  FeedInd'
  BY PublishBeginInd, PublishEndInd, DeleteCrateRowsInd, DeleteFeedInd, DeleteVersionRowInd, EnqueueFeedJobInd,
     SyncFeedInd, LoadYoungInd, LoadPaddedInd, UploadFeedInd, SyncFailsInd, FeedTickInd, FeedRestInd
     DEF FeedNext

LEMMA InitFeedInd ==
  ASSUME FeedInit
  PROVE  FeedInd
  <1>1. /\ watched \in FeedIds /\ feedNow = 0 /\ items = {} /\ gone = {}
        /\ request = [p \in FeedPublishers |-> NoPublish] /\ feedRows = 0 /\ doomed = FALSE
        /\ syncing = [w \in FeedWorkers |-> NoSync] /\ feed = {} /\ overlap = FALSE
    BY DEF FeedInit
  <1>2. Subjects = {} /\ Promised \ gone = {}
    BY <1>1 DEF Subjects, Promised
  <1>3. NoSync \in FeedSyncs /\ NoSync.loaded = {} /\ NoSync.step = "idle"
    BY DEF NoSync, FeedSyncs
  <1>4. FeedTypes
    <2>1. IsFiniteSet(items) /\ items \subseteq Item
      BY <1>1, FS_EmptySet
    <2>2. feedNow \in 0..MaxFeedNow /\ feedRows \in 0..MaxFeedJobs
      BY <1>1, FeedsAssumption
    <2>3. request \in [FeedPublishers -> PendingItems \cup {NoPublish}]
      BY <1>1
    <2>4. syncing \in [FeedWorkers -> FeedSyncs] /\ \A w \in FeedWorkers : syncing[w].loaded = {}
      BY <1>1, <1>3
    <2> QED
      BY <1>1, <2>1, <2>2, <2>3, <2>4 DEF FeedTypes
  <1>5. OneSync /\ DoomedFits
    BY <1>1 DEF OneSync, DoomedFits
  <1>6. FeedFits
    BY <1>1, <1>2, <1>3 DEF FeedFits
  <1> QED
    BY <1>4, <1>5, <1>6 DEF FeedInd

\* SyncUpdatesFeed, SyncCratesFeed, SyncCrateFeed: however publications, deletions, failures and
\* the two queries of a job interleave, a feed none of whose jobs waits or runs has, of every row
\* that there was, the young ones and the latest NUM_ITEMS, except those deleted since, unless two
\* of its jobs overlapped.
THEOREM FeedsAreComplete == FeedSpec => []FeedInv
  <1>1. FeedInit => FeedInd
    BY InitFeedInd
  <1>2. FeedInd /\ [FeedNext]_feedVars => FeedInd'
    BY StepFeedInd
  <1>3. FeedInd => FeedInv
    <2> SUFFICES ASSUME FeedInd PROVE FeedInv
      OBVIOUS
    <2>1. FeedComplete
      BY DEF FeedInd, FeedFits, FeedComplete
    <2>2. PendingItems \subseteq Item
      BY DEF PendingItems, Item
    <2>3. FeedTypeOK
      BY <2>2 DEF FeedInd, FeedTypes, FeedTypeOK, FeedSyncs
    <2> QED
      BY <2>1, <2>3 DEF FeedInv
  <1> QED
    BY <1>1, <1>2, <1>3, PTL DEF FeedSpec
=============================================================================
