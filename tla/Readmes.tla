------------------------------ MODULE Readmes -------------------------------
(***************************************************************************)
(* The rendered READMEs: the job that a publication enqueues, the admin    *)
(* tool that renders them again, and the deletions of versions and crates  *)
(* that remove them from storage.                                          *)
(*                                                                         *)
(* The job records the rendering and uploads the file in one transaction.  *)
(* Its row of readme_renderings refers to the version, so until it ends no *)
(* other transaction can delete that version.  The tool records without a  *)
(* transaction, and uploads later.                                         *)
(*                                                                         *)
(* Storage is the set of the paths of its files.  The text of a README is  *)
(* left out: rendering it gives an empty text or not.  What is deleted is  *)
(* not published again here: that is the subject of Publication.           *)
(***************************************************************************)
EXTENDS Integers, FiniteSets

CONSTANTS
  ReadmeCrates,    \* names of crates
  ReadmeNums,      \* version numbers
  ReadmeWorkers,   \* workers of the default queue
  PageSize,        \* --page-size of render-readmes
  MaxReadmeFails,  \* bound: failures of jobs
  MaxTools         \* bound: runs of render-readmes

ASSUME ReadmesAssumption ==
  PageSize \in Nat \ {0} /\ MaxReadmeFails \in Nat /\ MaxTools \in Nat

VARIABLES
  published,   \* history: the versions ever published
  present,     \* the rows of versions
  rendered,    \* the versions with a row in readme_renderings
  paths,       \* the files in storage
  readmeJobs,  \* the jobs that wait: to render a version, to delete a crate
  working,     \* per worker: its job
  tool,        \* render-readmes: what it has selected, its page and its tasks
  remover,     \* delete-version: the version whose files it is about to delete
  fails,       \* failures of jobs so far
  tools,       \* runs of render-readmes so far
  byTool,      \* history: the versions the tool has recorded
  spared       \* history: the versions of which delete-version left a file

readmeVars == <<published, present, rendered, paths, readmeJobs, working, tool, remover, fails,
                tools, byTool, spared>>

ReadmeVersion == ReadmeCrates \X ReadmeNums

CrateFilePath(v) == <<"crates", v[1], v[2]>>
ReadmePath(v) == <<"readmes", v[1], v[2]>>

\* delete_all_with_prefix, of the store's list: the files in a directory, not
\* those of a name that only starts with it.
Within(dir, name) == {p \in paths : p[1] = dir /\ p[2] = name}

RenderJob(v) == [kind |-> "render", crate |-> v[1], num |-> v[2]]
DeleteJob(c) == [kind |-> "delete", crate |-> c, num |-> 0]
NoJob == [kind |-> "none", crate |-> "", num |-> 0]
NoWork == [job |-> NoJob, step |-> "idle", left |-> {}]
NoTool == [step |-> "idle", todo |-> {}, page |-> {}, tasks |-> {}]

Rendering(w) == <<working[w].job.crate, working[w].job.num>>
Of(c, versions) == {v \in versions : v[1] = c}

ReadmeInit ==
  /\ published = {} /\ present = {} /\ rendered = {}
  /\ paths = {}
  /\ readmeJobs = {}
  /\ working = [w \in ReadmeWorkers |-> NoWork]
  /\ tool = NoTool
  /\ remover = {}
  /\ fails = 0 /\ tools = 0
  /\ byTool = {} /\ spared = {}

LockedVersions ==
  {Rendering(w) : w \in {u \in ReadmeWorkers : working[u].step \in {"recorded", "stored"}}}

-----------------------------------------------------------------------------
(***************************************************************************)
(* Publication and deletion, as far as READMEs see them                    *)
(***************************************************************************)

\* publish: the file is uploaded, then the rows and the jobs are committed.
PublishVersion(v, readme) ==
  /\ v \notin published
  /\ Of(v[1], published) = {} \/ Of(v[1], present) # {}
  /\ published' = published \cup {v}
  /\ present' = present \cup {v}
  /\ paths' = paths \cup {CrateFilePath(v)}
  /\ readmeJobs' = IF readme THEN readmeJobs \cup {RenderJob(v)} ELSE readmeJobs
  /\ UNCHANGED <<rendered, working, tool, remover, fails, tools, byTool, spared>>

DeleteCrateOfReadmes(c) ==
  /\ Of(c, present) # {}
  /\ Of(c, present) \cap LockedVersions = {}
  /\ present' = present \ Of(c, present)
  /\ rendered' = rendered \ Of(c, present)
  /\ readmeJobs' = readmeJobs \cup {DeleteJob(c)}
  /\ UNCHANGED <<published, paths, working, tool, remover, fails, tools, byTool, spared>>

\* crates-admin delete-version: the row first (here never the last one of its
\* crate), then the files; when a deletion fails it warns and goes on.
RemoveRow(v) ==
  /\ remover = {}
  /\ v \in present \ LockedVersions
  /\ Of(v[1], present) # {v}
  /\ present' = present \ {v}
  /\ rendered' = rendered \ {v}
  /\ remover' = {v}
  /\ UNCHANGED <<published, paths, readmeJobs, working, tool, fails, tools, byTool, spared>>

RemoveFiles(failed) ==
  \E v \in remover :
    /\ failed \subseteq {CrateFilePath(v), ReadmePath(v)}
    /\ paths' = paths \ ({CrateFilePath(v), ReadmePath(v)} \ failed)
    /\ remover' = {}
    /\ spared' = IF failed = {} THEN spared ELSE spared \cup {v}
    /\ UNCHANGED <<published, present, rendered, readmeJobs, working, tool, fails, tools, byTool>>

-----------------------------------------------------------------------------
(***************************************************************************)
(* The jobs                                                                *)
(***************************************************************************)

StartJob(w, j) ==
  /\ working[w] = NoWork
  /\ j \in readmeJobs
  /\ readmeJobs' = readmeJobs \ {j}
  /\ working' = [working EXCEPT ![w] = [job |-> j, step |-> j.kind,
                                        left |-> IF j.kind = "delete" THEN {"crates", "readmes"} ELSE {}]]
  /\ UNCHANGED <<published, present, rendered, paths, tool, remover, fails, tools, byTool, spared>>

\* record_readme_rendering, after a text that is not empty was rendered.  When
\* the version is gone the foreign key refuses the row, and the job ends.
RecordRendering_free(w) ==
  /\ working[w].step = "render"
  /\ rendered' = rendered \cup ({Rendering(w)} \cap present)
  /\ working' = [working EXCEPT ![w] = IF Rendering(w) \in present THEN [@ EXCEPT !.step = "recorded"] ELSE NoWork]
  /\ UNCHANGED <<published, present, paths, readmeJobs, tool, remover, fails, tools, byTool, spared>>

RecordRendering(w) ==
  /\ working[w].step = "render"
  /\ working' = [working EXCEPT ![w] = IF Rendering(w) \in present THEN [@ EXCEPT !.step = "recorded"] ELSE NoWork]
  /\ UNCHANGED <<published, present, rendered, paths, readmeJobs, tool, remover, fails, tools, byTool, spared>>

\* An empty text is neither recorded nor uploaded.
RenderEmpty(w) ==
  /\ working[w].step = "render"
  /\ working' = [working EXCEPT ![w] = NoWork]
  /\ UNCHANGED <<published, present, rendered, paths, readmeJobs, tool, remover, fails, tools, byTool, spared>>

UploadReadme(w) ==
  /\ working[w].step = "recorded"
  /\ paths' = paths \cup {ReadmePath(Rendering(w))}
  /\ working' = [working EXCEPT ![w].step = "stored"]
  /\ UNCHANGED <<published, present, rendered, readmeJobs, tool, remover, fails, tools, byTool, spared>>

CommitRendering(w) ==
  /\ working[w].step = "stored"
  /\ rendered' = rendered \cup ({Rendering(w)} \cap present)
  /\ working' = [working EXCEPT ![w] = NoWork]
  /\ UNCHANGED <<published, present, paths, readmeJobs, tool, remover, fails, tools, byTool, spared>>

\* DeleteCrateFromStorage runs its deletions side by side.
DeleteFiles(w, dir) ==
  /\ dir \in working[w].left
  /\ paths' = paths \ Within(dir, working[w].job.crate)
  /\ working' = [working EXCEPT ![w] = IF working[w].left = {dir} THEN NoWork
                                       ELSE [working[w] EXCEPT !.left = @ \ {dir}]]
  /\ UNCHANGED <<published, present, rendered, readmeJobs, tool, remover, fails, tools, byTool, spared>>

\* An error or the end of the worker rolls the transaction back and the job
\* waits again: also after the upload, when the commit fails.
JobFails(w) ==
  /\ working[w] # NoWork
  /\ fails < MaxReadmeFails
  /\ fails' = fails + 1
  /\ readmeJobs' = readmeJobs \cup {working[w].job}
  /\ working' = [working EXCEPT ![w] = NoWork]
  /\ UNCHANGED <<published, present, rendered, paths, tool, remover, tools, byTool, spared>>

-----------------------------------------------------------------------------
(***************************************************************************)
(* crates-admin render-readmes                                             *)
(***************************************************************************)

\* It selects the versions rendered before a given time, or never; since that
\* time is any, some of the rendered ones.
SelectVersions(older) ==
  /\ tool = NoTool
  /\ tools < MaxTools
  /\ older \subseteq rendered
  /\ tools' = tools + 1
  /\ tool' = [NoTool EXCEPT !.step = "pages", !.todo = older \cup (present \ rendered)]
  /\ UNCHANGED <<published, present, rendered, paths, readmeJobs, working, remover, fails, byTool, spared>>

\* The next page: those of its versions that still exist.  A page waits for
\* the tasks of the one before it.
NextPage(chunk) ==
  /\ tool.step = "pages" /\ tool.page = {} /\ tool.tasks = {}
  /\ chunk \subseteq tool.todo
  /\ chunk = tool.todo \/ Cardinality(chunk) = PageSize
  /\ Cardinality(chunk) =< PageSize
  /\ tool' = IF chunk = {} THEN NoTool
             ELSE [tool EXCEPT !.todo = @ \ chunk, !.page = chunk \cap present]
  /\ UNCHANGED <<published, present, rendered, paths, readmeJobs, working, remover, fails, tools, byTool, spared>>

\* Each rendering is recorded before its task is spawned; when the version is
\* gone by now, the tool stops with an error, and its tasks with it.
RecordByTool(v) ==
  /\ v \in tool.page
  /\ \A w \in ReadmeWorkers : Rendering(w) = v => working[w].step \notin {"recorded", "stored"}
  /\ IF v \in present
     THEN /\ rendered' = rendered \cup {v}
          /\ byTool' = byTool \cup {v}
          /\ tool' = [tool EXCEPT !.page = @ \ {v}, !.tasks = @ \cup {v}]
     ELSE tool' = NoTool /\ UNCHANGED <<rendered, byTool>>
  /\ UNCHANGED <<published, present, paths, readmeJobs, working, remover, fails, tools, spared>>

\* A task fetches the crate file and uploads what it renders of it; nothing,
\* when the manifest or the file says there is no README; an error is printed.
TaskUploads(v) ==
  /\ v \in tool.tasks
  /\ CrateFilePath(v) \in paths
  /\ paths' = paths \cup {ReadmePath(v)}
  /\ tool' = [tool EXCEPT !.tasks = @ \ {v}]
  /\ UNCHANGED <<published, present, rendered, readmeJobs, working, remover, fails, tools, byTool, spared>>

TaskEnds(v) ==
  /\ v \in tool.tasks
  /\ tool' = [tool EXCEPT !.tasks = @ \ {v}]
  /\ UNCHANGED <<published, present, rendered, paths, readmeJobs, working, remover, fails, tools, byTool, spared>>

ReadmeNext ==
  \/ \E v \in ReadmeVersion, readme \in BOOLEAN : PublishVersion(v, readme)
  \/ \E c \in ReadmeCrates : DeleteCrateOfReadmes(c)
  \/ \E v \in present : RemoveRow(v)
  \/ \E failed \in SUBSET paths : RemoveFiles(failed)
  \/ \E w \in ReadmeWorkers : \E j \in readmeJobs : StartJob(w, j)
  \/ \E w \in ReadmeWorkers : RecordRendering(w)
  \/ \E w \in ReadmeWorkers : RenderEmpty(w)
  \/ \E w \in ReadmeWorkers : UploadReadme(w)
  \/ \E w \in ReadmeWorkers : CommitRendering(w)
  \/ \E w \in ReadmeWorkers : \E dir \in working[w].left : DeleteFiles(w, dir)
  \/ \E w \in ReadmeWorkers : JobFails(w)
  \/ \E older \in SUBSET rendered : SelectVersions(older)
  \/ \E chunk \in SUBSET tool.todo : NextPage(chunk)
  \/ \E v \in tool.page : RecordByTool(v)
  \/ \E v \in tool.tasks : TaskUploads(v)
  \/ \E v \in tool.tasks : TaskEnds(v)

ReadmeSpec == ReadmeInit /\ [][ReadmeNext]_readmeVars

-----------------------------------------------------------------------------

\* Types; a row of readme_renderings refers to a version.
ReadmeTypeOK ==
  /\ published \subseteq ReadmeVersion /\ present \subseteq published
  /\ rendered \subseteq present
  /\ paths \subseteq {CrateFilePath(v) : v \in published} \cup {ReadmePath(v) : v \in published}
  /\ readmeJobs \subseteq {RenderJob(v) : v \in published} \cup {DeleteJob(c) : c \in ReadmeCrates}
  /\ \A w \in ReadmeWorkers : working[w].left \subseteq {"crates", "readmes"}
  /\ tool.todo \cup tool.page \cup tool.tasks \subseteq published
  /\ remover \subseteq published \ present
  /\ fails \in 0..MaxReadmeFails /\ tools \in 0..MaxTools

\* A version that only the job has recorded as rendered has its README in
\* storage: the pages of the version link to it.  (The tool records first, and
\* leaves the row when its task fails.)
RecordedIsStored ==
  \A v \in rendered \ byTool : ReadmePath(v) \in paths

\* Nothing is left behind: once a crate is deleted and its job has run, no
\* README and no crate file of it is in storage, whatever job was at work when
\* it was deleted; likewise for a version removed by delete-version.  Left out
\* are versions that render-readmes has recorded, whose tasks hold no lock and
\* may upload later, and those of which delete-version could not delete a file,
\* as it only warns of that.
NothingLeftBehind ==
  \A v \in published \ (present \cup remover \cup byTool \cup spared) :
    \/ CrateFilePath(v) \notin paths /\ ReadmePath(v) \notin paths
    \/ DeleteJob(v[1]) \in readmeJobs
    \/ \E w \in ReadmeWorkers : working[w].job = DeleteJob(v[1])

\* Readmes: what readme_renderings records is in the storage, and nothing is left of
\* versions that are gone, except by render-readmes and by deletions that failed.
ReadmeInv == ReadmeTypeOK /\ RecordedIsStored /\ NothingLeftBehind
=============================================================================
