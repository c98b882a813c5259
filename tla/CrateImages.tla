---------------------------- MODULE CrateImages -----------------------------
(***************************************************************************)
(* The Open Graph image of a crate, which shows its default version and    *)
(* the lines of code in it; the job that counts these lines; the job that  *)
(* chooses the default version; and the tools that enqueue them.           *)
(*                                                                         *)
(* The three jobs run on the default queue, which has several workers, and *)
(* meet only in the database.  Which version becomes the default is the    *)
(* subject of CrateVersions: here it is any.  An image is the version it   *)
(* shows and whether it shows its lines; owners, keywords and the rest are *)
(* left out, and so is the invalidation of the CDNs (CdnInvalidation).     *)
(***************************************************************************)
EXTENDS Integers, FiniteSets

CONSTANTS
  ImageNums,     \* version numbers of the crate, all above 0
  ImageWorkers,  \* workers of the default queue
  MaxImageRows,  \* bound: rows of one job that wait
  MaxExtras      \* bound: yanks, runs of the tools and failures of jobs, together

ASSUME CrateImagesAssumption ==
  /\ ImageNums \subseteq Nat \ {0}
  /\ MaxImageRows \in Nat \ {0} /\ MaxExtras \in Nat

VARIABLES
  liveNums,    \* the versions of the crate; none: there is no crate
  everNums,    \* history: the versions ever published
  mainNum,     \* default_versions: the default version, or 0
  counted,     \* the versions that have linecounts
  crateFiles,  \* the versions whose crate file is in storage
  image,       \* the image in storage
  imageRows,   \* per job: its rows that no worker has locked
  imageRun,    \* per worker: its job, its step, and what it has read
  extras,      \* yanks, runs of the tools and failures so far
  lost         \* history: two images at work at a time, or none enqueued

imageVars == <<liveNums, everNums, mainNum, counted, crateFiles, image, imageRows, imageRun, extras,
               lost>>

NoImage == [num |-> 0, lines |-> FALSE]

\* The jobs, by what deduplicates them, their data and their priority:
\* GenerateOgImage; with the low priority the tool gives it; and likewise
\* without the invalidation of the CDNs.
OgImage == [kind |-> "og", num |-> 0]
OgImageLow == [kind |-> "ogLow", num |-> 0]
OgImageQuiet == [kind |-> "ogQuiet", num |-> 0]
OgImages == {OgImage, OgImageLow, OgImageQuiet}
DefaultVersion == [kind |-> "default", num |-> 0]
DeleteFromStorage == [kind |-> "delete", num |-> 0]
Analyze(n) == [kind |-> "analyze", num |-> n]

ImageJobs ==
  OgImages \cup {DefaultVersion, DeleteFromStorage} \cup {Analyze(n) : n \in ImageNums}

NoRun == [job |-> [kind |-> "none", num |-> 0], step |-> "idle", seen |-> NoImage]

Drawing(w) == imageRun[w].job \in OgImages

ImageInit ==
  /\ liveNums = {} /\ everNums = {}
  /\ mainNum = 0
  /\ counted = {} /\ crateFiles = {}
  /\ image = NoImage
  /\ imageRows = [j \in ImageJobs |-> 0]
  /\ imageRun = [w \in ImageWorkers |-> NoRun]
  /\ extras = 0
  /\ lost = FALSE

\* Deduplicated enqueues: a row that no worker has locked is enough.
Enqueued_running(js) ==
  [j \in ImageJobs |-> IF j \in js /\ imageRows[j] = 0 /\ \A w \in ImageWorkers : imageRun[w].job # j
                       THEN 1 ELSE imageRows[j]]

Enqueued(js) == [j \in ImageJobs |-> IF j \in js /\ imageRows[j] = 0 THEN 1 ELSE imageRows[j]]

\* Rows inserted by a tool, which does not look for those that wait.
Inserted(js) == [j \in ImageJobs |-> IF j \in js THEN imageRows[j] + 1 ELSE imageRows[j]]
Room(js) == \A j \in js : imageRows[j] < MaxImageRows

Extra == extras < MaxExtras /\ extras' = extras + 1

-----------------------------------------------------------------------------
(***************************************************************************)
(* What changes the crate                                                  *)
(***************************************************************************)

\* The first version: a trigger makes it the default one.
PublishFirst(n) ==
  /\ everNums = {}
  /\ everNums' = {n} /\ liveNums' = {n} /\ crateFiles' = {n}
  /\ mainNum' = n
  /\ imageRows' = Enqueued({Analyze(n), OgImage})
  /\ UNCHANGED <<counted, image, imageRun, extras, lost>>

\* A later version: at once the default one when it is better, and a job looks
\* again; that job is to enqueue the image.
PublishNext(n, better) ==
  /\ liveNums # {} /\ n \notin everNums
  /\ everNums' = everNums \cup {n}
  /\ liveNums' = liveNums \cup {n}
  /\ crateFiles' = crateFiles \cup {n}
  /\ mainNum' = IF better THEN n ELSE mainNum
  /\ imageRows' = Enqueued({Analyze(n), DefaultVersion})
  /\ UNCHANGED <<counted, image, imageRun, extras, lost>>

YankOrUnyank ==
  /\ liveNums # {}
  /\ Extra
  /\ imageRows' = Enqueued({DefaultVersion})
  /\ UNCHANGED <<liveNums, everNums, mainNum, counted, crateFiles, image, imageRun, lost>>

DeleteCrateOfImage ==
  /\ liveNums # {}
  /\ liveNums' = {} /\ counted' = {}
  /\ mainNum' = 0
  /\ imageRows' = Enqueued({DeleteFromStorage})
  /\ UNCHANGED <<everNums, crateFiles, image, imageRun, extras, lost>>

\* crates-admin delete-version looks for a default version by itself, and
\* enqueues no image.
DeleteVersionOfImage(n, d) ==
  /\ n \in liveNums /\ d \in liveNums \ {n}
  /\ liveNums' = liveNums \ {n} /\ counted' = counted \ {n} /\ crateFiles' = crateFiles \ {n}
  /\ mainNum' = d
  /\ lost' = (lost \/ d # mainNum)
  /\ UNCHANGED <<everNums, image, imageRows, imageRun, extras>>

\* crates-admin analyze-crates: all versions without linecounts, or those that
\* were named.
AnalyzeCrates(ns) ==
  /\ ns = liveNums \ counted \/ ns \subseteq liveNums
  /\ ns # {} /\ Room({Analyze(n) : n \in ns})
  /\ Extra
  /\ imageRows' = Inserted({Analyze(n) : n \in ns})
  /\ UNCHANGED <<liveNums, everNums, mainNum, counted, crateFiles, image, imageRun, lost>>

\* crates-admin render-og-images
RenderOgImages(j) ==
  /\ j \in {OgImageLow, OgImageQuiet}
  /\ liveNums # {} /\ Room({j})
  /\ Extra
  /\ imageRows' = Inserted({j})
  /\ UNCHANGED <<liveNums, everNums, mainNum, counted, crateFiles, image, imageRun, lost>>

-----------------------------------------------------------------------------
(***************************************************************************)
(* The jobs                                                                *)
(***************************************************************************)

\* Two runs that draw the image at a time may upload in the wrong order.
StartImageJob(w, j) ==
  /\ imageRun[w] = NoRun
  /\ imageRows[j] > 0
  /\ imageRows' = [imageRows EXCEPT ![j] = @ - 1]
  /\ imageRun' = [imageRun EXCEPT ![w] = [job |-> j, step |-> j.kind, seen |-> NoImage]]
  /\ lost' = (lost \/ (j \in OgImages /\ \E v \in ImageWorkers : Drawing(v)))
  /\ UNCHANGED <<liveNums, everNums, mainNum, counted, crateFiles, image, extras>>

EndOfRun(w) == imageRun' = [imageRun EXCEPT ![w] = NoRun]

\* UpdateDefaultVersion: NotFound ends the job.
UpdateDefault(w, n) ==
  /\ imageRun[w].step = "default"
  /\ IF liveNums = {}
     THEN mainNum' = mainNum /\ EndOfRun(w)
     ELSE /\ n \in liveNums
          /\ mainNum' = n
          /\ imageRun' = [imageRun EXCEPT ![w].step = "enqueue"]
  /\ UNCHANGED <<liveNums, everNums, counted, crateFiles, image, imageRows, extras, lost>>

EnqueueImage(w) ==
  /\ imageRun[w].step = "enqueue"
  /\ imageRows' = IF liveNums = {} THEN imageRows ELSE Enqueued({OgImage})
  /\ EndOfRun(w)
  /\ UNCHANGED <<liveNums, everNums, mainNum, counted, crateFiles, image, extras, lost>>

\* AnalyzeCrateFile: a version that is gone ends the job; without its file the
\* job fails (ImageJobFails).
LookUpVersion(w) ==
  /\ imageRun[w].step = "analyze"
  /\ IF imageRun[w].job.num \in liveNums
     THEN imageRun' = [imageRun EXCEPT ![w].step = "download"]
     ELSE EndOfRun(w)
  /\ UNCHANGED <<liveNums, everNums, mainNum, counted, crateFiles, image, imageRows, extras, lost>>

CountLines(w) ==
  LET n == imageRun[w].job.num IN
  /\ imageRun[w].step = "download"
  /\ n \in crateFiles
  /\ counted' = counted \cup ({n} \cap liveNums)
  /\ imageRun' = [imageRun EXCEPT ![w].step = "check"]
  /\ UNCHANGED <<liveNums, everNums, mainNum, crateFiles, image, imageRows, extras, lost>>

\* handle_og_image_rerender, whose errors are only logged.
CheckDefault(w, error) ==
  /\ imageRun[w].step = "check"
  /\ imageRows' = IF imageRun[w].job.num = mainNum /\ ~ error THEN Enqueued({OgImage}) ELSE imageRows
  /\ lost' = (lost \/ error)
  /\ EndOfRun(w)
  /\ UNCHANGED <<liveNums, everNums, mainNum, counted, crateFiles, image, extras>>

\* GenerateOgImage: one query for the crate and its default version; without a
\* row the job ends.
FetchCrateData(w) ==
  /\ imageRun[w].step \in {"og", "ogLow", "ogQuiet"}
  /\ IF liveNums = {}
     THEN EndOfRun(w)
     ELSE imageRun' = [imageRun EXCEPT ![w].step = "upload",
                                       ![w].seen = [num |-> mainNum, lines |-> mainNum \in counted]]
  /\ UNCHANGED <<liveNums, everNums, mainNum, counted, crateFiles, image, imageRows, extras, lost>>

UploadImage(w) ==
  /\ imageRun[w].step = "upload"
  /\ image' = imageRun[w].seen
  /\ EndOfRun(w)
  /\ UNCHANGED <<liveNums, everNums, mainNum, counted, crateFiles, imageRows, extras, lost>>

\* DeleteCrateFromStorage
DeleteImage(w) ==
  /\ imageRun[w].step = "delete"
  /\ image' = NoImage /\ crateFiles' = {}
  /\ EndOfRun(w)
  /\ UNCHANGED <<liveNums, everNums, mainNum, counted, imageRows, extras, lost>>

\* An error, or the end of the worker: the row waits again.
ImageJobFails(w) ==
  /\ imageRun[w] # NoRun
  /\ Extra /\ Room({imageRun[w].job})
  /\ imageRows' = Inserted({imageRun[w].job})
  /\ EndOfRun(w)
  /\ UNCHANGED <<liveNums, everNums, mainNum, counted, crateFiles, image, lost>>

ImageNext ==
  \/ \E n \in ImageNums : PublishFirst(n)
  \/ \E n \in ImageNums, better \in BOOLEAN : PublishNext(n, better)
  \/ YankOrUnyank
  \/ DeleteCrateOfImage
  \/ \E n, d \in liveNums : DeleteVersionOfImage(n, d)
  \/ \E ns \in SUBSET liveNums : AnalyzeCrates(ns)
  \/ \E j \in ImageJobs : RenderOgImages(j)
  \/ \E w \in ImageWorkers, j \in ImageJobs : StartImageJob(w, j)
  \/ \E w \in ImageWorkers, n \in ImageNums : UpdateDefault(w, n)
  \/ \E w \in ImageWorkers : EnqueueImage(w)
  \/ \E w \in ImageWorkers : LookUpVersion(w)
  \/ \E w \in ImageWorkers : CountLines(w)
  \/ \E w \in ImageWorkers, error \in BOOLEAN : CheckDefault(w, error)
  \/ \E w \in ImageWorkers : FetchCrateData(w)
  \/ \E w \in ImageWorkers : UploadImage(w)
  \/ \E w \in ImageWorkers : DeleteImage(w)
  \/ \E w \in ImageWorkers : ImageJobFails(w)

ImageSpec == ImageInit /\ [][ImageNext]_imageVars

-----------------------------------------------------------------------------

Images == [num : ImageNums \cup {0}, lines : BOOLEAN]

\* Types; a crate has a default version, one of its own, as long as it exists.
ImageTypeOK ==
  /\ liveNums \subseteq everNums /\ everNums \subseteq ImageNums
  /\ mainNum \in (IF liveNums = {} THEN {0} ELSE liveNums)
  /\ counted \subseteq liveNums /\ crateFiles \subseteq everNums
  /\ image \in Images
  /\ imageRows \in [ImageJobs -> 0..MaxImageRows]
  /\ \A w \in ImageWorkers :
       /\ imageRun[w].job \in ImageJobs \cup {NoRun.job}
       /\ imageRun[w].seen \in Images
  /\ extras \in 0..MaxExtras
  /\ lost \in BOOLEAN

\* Once no job waits or runs, the image of a crate shows its default version,
\* and its lines of code when they are counted: in whatever order the default
\* version changes, the lines are counted, and images are drawn, and whichever
\* of these jobs is repeated.  (Left out: two drawings that overlap, an image
\* that could not be enqueued, and a default that delete-version has changed.)
ImageSettles ==
  ~ lost /\ liveNums # {}
    /\ (\A j \in ImageJobs : imageRows[j] = 0) /\ (\A w \in ImageWorkers : imageRun[w] = NoRun)
      => image = [num |-> mainNum, lines |-> mainNum \in counted]

\* Images: when no job is left, the image of a crate is that of its default version,
\* unless two runs that draw it overlapped.
ImageInv == ImageTypeOK /\ ImageSettles
=============================================================================
