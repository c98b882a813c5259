------------------------------ MODULE GitIndex -------------------------------
(***************************************************************************)
(* The git index: a repository on GitHub that only the jobs of the         *)
(* "repository" queue write.  SyncToGitIndex and BulkSyncToGitIndex bring  *)
(* the files of crates up to date, NormalizeIndex rewrites all of them,    *)
(* SquashIndex and SquashIndexViaApi replace the history by one commit and *)
(* keep it on a snapshot branch, which ArchiveIndexBranch, on the default  *)
(* queue, copies to another repository.                                    *)
(*                                                                         *)
(* A process of the background worker has one worker for the repository    *)
(* queue and one bare clone.  There is one process, except while a new     *)
(* release replaces the old one.  The queue itself is JobQueue's: here a   *)
(* job waits in a set, and is put back when its run fails.                 *)
(*                                                                         *)
(* A commit has a tree and the set of commits reachable from it; a file    *)
(* of the tree holds the state of a crate in the database, in the old or   *)
(* in the normal form.                                                     *)
(***************************************************************************)
EXTENDS Integers, Sequences, FiniteSets

CONSTANTS
  IndexCrates,    \* crates
  Processes,      \* processes of the background worker
  Batches,        \* the sets of crates an administrator synchronises
  MaxEdits,       \* bound: changes of the database
  MaxDay,         \* bound: the date
  MaxCommits,     \* bound: commits ever made
  MaxOrders,      \* bound: jobs enqueued by administrators
  MaxFaults       \* bound: failed runs and lost processes

ASSUME GitIndexAssumption ==
  /\ IsFiniteSet(Processes)
  /\ Batches \subseteq SUBSET IndexCrates
  /\ MaxEdits \in Nat /\ MaxDay \in Nat \ {0} /\ MaxCommits \in Nat /\ MaxOrders \in Nat
  /\ MaxFaults \in Nat

VARIABLES
  db,          \* per crate: its state in the database
  edits,       \* changes of the database so far
  waiting,     \* the jobs that wait
  orders,      \* jobs enqueued by administrators so far
  day,         \* the date
  commits,     \* the commits made so far, pushed or not
  remote,      \* per branch of the index repository: its commit
  archive,     \* per branch of the archive: its commit
  alive,       \* the processes
  clone,       \* per process: the head of its bare clone
  work,        \* per process: the run of its repository worker
  archiver,    \* the run of an ArchiveIndexBranch job
  faults,      \* failed runs and lost processes so far
  overwritten  \* history: commits a squash through the API moved master away from
               \*   without having seen them

repoVars == <<commits, remote>>
gitVars == <<db, edits, waiting, orders, day, repoVars, archive, alive, clone, work,
             archiver, faults, overwritten>>

Absent == 0
NoCommit == 0
Master == <<"master", 0>>
DryRun == <<"normalization-dry-run", 0>>
Snapshot(d) == <<"snapshot", d>>
Branches == {Master, DryRun} \cup {Snapshot(d) : d \in 1..MaxDay}

\* The file of a crate that is not in the database, and of one that is.
NoFile == [state |-> Absent, form |-> "none"]
File(s) == IF s = Absent THEN NoFile ELSE [state |-> s, form |-> "normal"]

Job(kind, crates) == [kind |-> kind, crates |-> crates, day |-> 0]
ArchiveIndexBranch(d) == [kind |-> "archive", crates |-> {}, day |-> d]
Nothing == [c \in {} |-> NoFile]
NoWork == [pc |-> "idle", job |-> Job("none", {}), seen |-> Nothing, head |-> NoCommit,
           new |-> NoCommit, day |-> 0, checked |-> {}]
NoArchiver == [day |-> 0, commit |-> NoCommit]

GitInit ==
  /\ db = [c \in IndexCrates |-> 1]
  /\ edits = 1
  /\ waiting = {}
  /\ orders = 0
  /\ day = 1
  /\ commits = <<[tree |-> [c \in IndexCrates |-> [state |-> 1, form |-> "old"]],
                  past |-> {1}, dry |-> FALSE]>>
  /\ remote = [b \in Branches |-> IF b = Master THEN 1 ELSE NoCommit]
  /\ archive = [d \in 1..MaxDay |-> NoCommit]
  /\ alive \in {{p} : p \in Processes} \cup {Processes}
  /\ clone = [p \in Processes |-> NoCommit]
  /\ work = [p \in Processes |-> NoWork]
  /\ archiver = NoArchiver
  /\ faults = 0
  /\ overwritten = {}

Past(i) == IF i = NoCommit THEN {} ELSE commits[i].past
Tree(i) == commits[i].tree

\* What git accepts without force: the branch is new, or its commit is an ancestor.
FastForward(b, i) == remote[b] = NoCommit \/ remote[b] \in Past(i)

-----------------------------------------------------------------------------
(* What the jobs come from.                                                *)

\* A handler publishes, changes or deletes a crate, and enqueues SyncToGitIndex.
EditCrate(c) ==
  /\ edits < MaxEdits
  /\ edits' = edits + 1
  /\ \E s \in {Absent, edits + 1} :
       /\ s # db[c]
       /\ db' = [db EXCEPT ![c] = s]
  /\ waiting' = waiting \cup {Job("sync", {c})}
  /\ UNCHANGED <<orders, day, repoVars, archive, alive, clone, work, archiver, faults,
                 overwritten>>

\* An administrator has jobs to enqueue.
Order(jobs) ==
  /\ orders < MaxOrders
  /\ orders' = orders + 1
  /\ waiting' = waiting \cup jobs
  /\ UNCHANGED <<db, edits, day, repoVars, archive, alive, clone, work, archiver, faults,
                 overwritten>>

\* crates-admin sync-index: crates that exist, in batches or one by one
SyncIndexTool(kind, crates) ==
  /\ \A c \in crates : db[c] # Absent
  /\ Order(IF kind = "bulk" THEN {Job("bulk", crates)} ELSE {Job("sync", {c}) : c \in crates})

\* crates-admin enqueue-job: normalize-index, squash-index, squash-index-via-api
EnqueueJob(kind) == Order({Job(kind, {})})

NextDay ==
  /\ day < MaxDay
  /\ day' = day + 1
  /\ UNCHANGED <<db, edits, waiting, orders, repoVars, archive, alive, clone, work, archiver,
                 faults, overwritten>>

-----------------------------------------------------------------------------
(* Runs of the repository worker of a process.                             *)

Goes(p, pc) == work' = [work EXCEPT ![p].pc = pc]

\* The worker takes a job.  SyncToGitIndex reads the crate before it locks the clone.
Take(p, j) ==
  /\ work[p].pc = "idle"
  /\ j \in waiting /\ j.kind # "archive"
  /\ waiting' = waiting \ {j}
  /\ work' = [work EXCEPT ![p] =
       [NoWork EXCEPT !.pc = "taken", !.job = j,
                      !.seen = IF j.kind = "sync" THEN [c \in j.crates |-> File(db[c])] ELSE Nothing]]
  /\ UNCHANGED <<db, edits, orders, day, repoVars, archive, alive, clone, archiver, faults,
                 overwritten>>

\* Mutant: a clone that is there is used as it is.
LockIndex_kept(p) ==
  /\ work[p].pc = "taken" /\ work[p].job.kind # "api"
  /\ clone' = [clone EXCEPT ![p] = IF @ = NoCommit THEN remote[Master] ELSE @]
  /\ Goes(p, "locked")
  /\ UNCHANGED <<db, edits, waiting, orders, day, repoVars, archive, alive, archiver, faults,
                 overwritten>>

\* Repository::open: a fresh bare clone
Opened == remote[Master]

\* reset_head: fetch, and whatever an earlier run left in the clone is dropped
ResetHead == remote[Master]

\* lock_index: open when the process has no clone yet, reset_head when it has
LockIndex(p) ==
  /\ work[p].pc = "taken" /\ work[p].job.kind # "api"
  /\ clone' = [clone EXCEPT ![p] = IF @ = NoCommit THEN Opened ELSE ResetHead]
  /\ Goes(p, "locked")
  /\ UNCHANGED <<db, edits, waiting, orders, day, repoVars, archive, alive, archiver, faults,
                 overwritten>>

\* BulkSyncToGitIndex reads the crates one by one, with the clone locked.
ReadCrate(p, c) ==
  /\ work[p].pc = "locked" /\ work[p].job.kind = "bulk"
  /\ c \in work[p].job.crates \ DOMAIN work[p].seen
  /\ work' = [work EXCEPT ![p].seen =
       [x \in DOMAIN @ \cup {c} |-> IF x = c THEN File(db[c]) ELSE @[x]]]
  /\ UNCHANGED <<db, edits, waiting, orders, day, repoVars, archive, alive, clone, archiver,
                 faults, overwritten>>

\* normalize_entry, on the entries of the tree
Normalized(tree) ==
  [c \in IndexCrates |-> IF tree[c] = NoFile THEN NoFile ELSE File(tree[c].state)]

\* CommitBuilder: the tree of the head with the staged operations
Updated(p) ==
  LET tree == Tree(clone[p])
      seen == work[p].seen
  IN IF work[p].job.kind \in {"normalize", "dry"} THEN Normalized(tree)
     ELSE [c \in IndexCrates |-> IF c \in DOMAIN seen THEN seen[c] ELSE tree[c]]

NewCommit(tree, past, dry) ==
  /\ Len(commits) < MaxCommits
  /\ commits' = Append(commits, [tree |-> tree, past |-> past \cup {Len(commits) + 1},
                                 dry |-> dry])

\* All that is staged has been read.
Staged(p) ==
  /\ work[p].pc = "locked"
  /\ \/ work[p].job.kind \in {"sync", "normalize", "dry"}
     \/ work[p].job.kind = "bulk" /\ DOMAIN work[p].seen = work[p].job.crates

\* commit_and_push: the commit in the clone
MakeCommit(p) ==
  /\ Staged(p)
  /\ Updated(p) # Tree(clone[p])
  /\ NewCommit(Updated(p), Past(clone[p]), work[p].job.kind = "dry")
  /\ clone' = [clone EXCEPT ![p] = Len(commits) + 1]
  /\ Goes(p, "committed")
  /\ UNCHANGED <<db, edits, waiting, orders, day, remote, archive, alive, archiver, faults,
                 overwritten>>

\* Nothing has changed: the job returns Ok.
NoChanges(p) ==
  /\ Staged(p)
  /\ Updated(p) = Tree(clone[p])
  /\ work' = [work EXCEPT ![p] = NoWork]
  /\ UNCHANGED <<db, edits, waiting, orders, day, repoVars, archive, alive, clone, archiver,
                 faults, overwritten>>

Target(p) == IF work[p].job.kind = "dry" THEN DryRun ELSE Master

\* commit_and_push: git push, without force
Push(p) ==
  /\ work[p].pc = "committed" /\ work[p].job.kind # "squash"
  /\ FastForward(Target(p), clone[p])
  /\ remote' = [remote EXCEPT ![Target(p)] = clone[p]]
  /\ Goes(p, "pushed")
  /\ UNCHANGED <<db, edits, waiting, orders, day, commits, archive, alive, clone, archiver,
                 faults, overwritten>>

\* SquashIndex: squash_to_single_commit, a commit without parents that has the tree
\* of the head; the date names the snapshot branch.
SquashCommit(p) ==
  /\ work[p].pc = "locked" /\ work[p].job.kind = "squash"
  /\ NewCommit(Tree(clone[p]), {}, FALSE)
  /\ work' = [work EXCEPT ![p].pc = "committed", ![p].head = clone[p], ![p].day = day]
  /\ clone' = [clone EXCEPT ![p] = Len(commits) + 1]
  /\ UNCHANGED <<db, edits, waiting, orders, day, remote, archive, alive, archiver, faults,
                 overwritten>>

\* Mutant: without the lease, the push overwrites whatever master is.
Leased_not(p) == FastForward(Snapshot(work[p].day), work[p].head)

\* git push --atomic --force-with-lease: master still is the commit that was squashed,
\* and the snapshot branch of the day is new or behind it.
Leased(p) ==
  /\ remote[Master] = work[p].head
  /\ FastForward(Snapshot(work[p].day), work[p].head)

SquashPush(p) ==
  /\ work[p].pc = "committed" /\ work[p].job.kind = "squash"
  /\ Leased(p)
  /\ remote' = [remote EXCEPT ![Master] = clone[p], ![Snapshot(work[p].day)] = work[p].head]
  /\ Goes(p, "pushed")
  /\ UNCHANGED <<db, edits, waiting, orders, day, commits, archive, alive, clone, archiver,
                 faults, overwritten>>

\* SquashIndexViaApi: get_ref, get_commit and create_commit
ApiCommit(p) ==
  /\ work[p].pc = "taken" /\ work[p].job.kind = "api"
  /\ NewCommit(Tree(remote[Master]), {}, FALSE)
  /\ work' = [work EXCEPT ![p].pc = "created", ![p].head = remote[Master], ![p].day = day,
                          ![p].new = Len(commits) + 1]
  /\ UNCHANGED <<db, edits, waiting, orders, day, remote, archive, alive, clone, archiver,
                 faults, overwritten>>

\* create_ref, which GitHub refuses when the branch exists
ApiSnapshot(p) ==
  /\ work[p].pc = "created"
  /\ remote[Snapshot(work[p].day)] = NoCommit
  /\ remote' = [remote EXCEPT ![Snapshot(work[p].day)] = work[p].head]
  /\ Goes(p, "kept")
  /\ UNCHANGED <<db, edits, waiting, orders, day, commits, archive, alive, clone, archiver,
                 faults, overwritten>>

\* The drift check: master is read again.  (The run keeps, as history, what it saw.)
ApiCheck(p) ==
  /\ work[p].pc = "kept"
  /\ remote[Master] = work[p].head
  /\ work' = [work EXCEPT ![p].pc = "checked", ![p].checked = Past(remote[Master])]
  /\ UNCHANGED <<db, edits, waiting, orders, day, repoVars, archive, alive, clone, archiver,
                 faults, overwritten>>

\* update_ref with force: whatever master is by now
ApiUpdate(p) ==
  /\ work[p].pc = "checked"
  /\ remote' = [remote EXCEPT ![Master] = work[p].new]
  /\ overwritten' = overwritten \cup (Past(remote[Master]) \ work[p].checked)
  /\ Goes(p, "pushed")
  /\ UNCHANGED <<db, edits, waiting, orders, day, commits, archive, alive, clone, archiver,
                 faults>>

\* The job returns Ok.  A squash enqueues ArchiveIndexBranch first; an error of that
\* is only logged.
Finish(p) ==
  /\ work[p].pc = "pushed"
  /\ work' = [work EXCEPT ![p] = NoWork]
  /\ \/ work[p].job.kind \in {"squash", "api"}
        /\ waiting' = waiting \cup {ArchiveIndexBranch(work[p].day)}
     \/ UNCHANGED waiting
  /\ UNCHANGED <<db, edits, orders, day, repoVars, archive, alive, clone, archiver, faults,
                 overwritten>>

\* What a step of the run asks of GitHub is refused.
Refused(p) ==
  \/ /\ work[p].pc = "committed" /\ work[p].job.kind # "squash"
     /\ ~FastForward(Target(p), clone[p])
  \/ work[p].pc = "committed" /\ work[p].job.kind = "squash" /\ ~Leased(p)
  \/ work[p].pc = "created" /\ remote[Snapshot(work[p].day)] # NoCommit
  \/ work[p].pc = "kept" /\ remote[Master] # work[p].head

GiveBack(p) ==
  /\ waiting' = waiting \cup {work[p].job}
  /\ work' = [work EXCEPT ![p] = NoWork]

\* The run fails and the job waits again; the clone keeps the commit.
RunRefused(p) ==
  /\ Refused(p)
  /\ GiveBack(p)
  /\ UNCHANGED <<db, edits, orders, day, repoVars, archive, alive, clone, archiver, faults,
                 overwritten>>

\* A request or a git command fails, though what it asked may have been done; or the
\* process is lost, and its clone with it.
GitRunFails(p, lost) ==
  /\ work[p].pc # "idle"
  /\ faults < MaxFaults
  /\ faults' = faults + 1
  /\ GiveBack(p)
  /\ clone' = IF lost THEN [clone EXCEPT ![p] = NoCommit] ELSE clone
  /\ UNCHANGED <<db, edits, orders, day, repoVars, archive, alive, archiver, overwritten>>

-----------------------------------------------------------------------------
(* ArchiveIndexBranch, on the default queue, where an archive is set up.   *)

\* A fresh clone of the snapshot branch
ArchiveClone(d) ==
  /\ archiver = NoArchiver
  /\ ArchiveIndexBranch(d) \in waiting
  /\ remote[Snapshot(d)] # NoCommit
  /\ waiting' = waiting \ {ArchiveIndexBranch(d)}
  /\ archiver' = [day |-> d, commit |-> remote[Snapshot(d)]]
  /\ UNCHANGED <<db, edits, orders, day, repoVars, archive, alive, clone, work, faults,
                 overwritten>>

ArchivePush ==
  /\ archiver # NoArchiver
  /\ archive[archiver.day] \in Past(archiver.commit) \cup {NoCommit}
  /\ archive' = [archive EXCEPT ![archiver.day] = archiver.commit]
  /\ archiver' = NoArchiver
  /\ UNCHANGED <<db, edits, waiting, orders, day, repoVars, alive, clone, work, faults,
                 overwritten>>

\* The clone or the push fails, before or after the archive has it.
ArchiveFails(pushed) ==
  /\ archiver # NoArchiver
  /\ faults < MaxFaults
  /\ faults' = faults + 1
  /\ pushed => archive[archiver.day] \in Past(archiver.commit) \cup {NoCommit}
  /\ archive' = IF pushed THEN [archive EXCEPT ![archiver.day] = archiver.commit] ELSE archive
  /\ waiting' = waiting \cup {ArchiveIndexBranch(archiver.day)}
  /\ archiver' = NoArchiver
  /\ UNCHANGED <<db, edits, orders, day, repoVars, alive, clone, work, overwritten>>

GitNext ==
  \/ \E c \in IndexCrates : EditCrate(c)
  \/ \E kind \in {"sync", "bulk"}, crates \in Batches : SyncIndexTool(kind, crates)
  \/ \E kind \in {"squash", "api", "normalize", "dry"} : EnqueueJob(kind)
  \/ NextDay
  \/ \E p \in alive :
       \/ \E j \in waiting : Take(p, j)
       \/ LockIndex(p)
       \/ \E c \in IndexCrates : ReadCrate(p, c)
       \/ MakeCommit(p)
       \/ NoChanges(p)
       \/ Push(p)
       \/ SquashCommit(p)
       \/ SquashPush(p)
       \/ ApiCommit(p)
       \/ ApiSnapshot(p)
       \/ ApiCheck(p)
       \/ ApiUpdate(p)
       \/ Finish(p)
       \/ RunRefused(p)
       \/ \E lost \in BOOLEAN : GitRunFails(p, lost)
  \/ \E d \in 1..MaxDay : ArchiveClone(d)
  \/ ArchivePush
  \/ \E pushed \in BOOLEAN : ArchiveFails(pushed)

GitSpec == GitInit /\ [][GitNext]_gitVars

-----------------------------------------------------------------------------
(* Properties.                                                             *)

\* Branches point to commits, and a run that has made one has read a head.
GitTypeOK ==
  /\ remote \in [Branches -> 0..Len(commits)]
  /\ remote[Master] # NoCommit
  /\ clone \in [Processes -> 0..Len(commits)]
  /\ \A p \in Processes \ alive : work[p] = NoWork
  /\ \A p \in Processes : work[p].pc \in {"locked", "committed"} => clone[p] # NoCommit
  /\ \A p \in Processes : work[p].job.kind = "squash" /\ work[p].pc \in {"committed", "pushed"}
                            => work[p].head # NoCommit

\* The commits of the repository on GitHub.
Reachable == UNION {Past(remote[b]) : b \in Branches}

\* SquashIndex and SquashIndexViaApi lose no history: no step makes a commit that a
\* branch leads to unreachable - whatever fails between the requests of a squash, and
\* with two workers during a release - except that the forced update of a squash
\* through the API drops what was pushed after its drift check.  And a squash changes
\* the history of master and no file.
HistoryKept ==
  [][/\ Reachable \subseteq Reachable' \cup overwritten'
     /\ LET old == remote[Master] new == remote'[Master] IN
        old \notin commits'[new].past /\ overwritten' = overwritten
          => commits'[new].tree = Tree(old)]_gitVars

\* NormalizeIndex: what a dry run commits in the clone never gets to master.
DryRunApart == \A i \in Past(remote[Master]) : ~commits[i].dry

\* With the one worker of the repository queue, a crate's file on master shows the
\* crate as it is in the database, or a job that will see to it waits, or runs and has
\* read the crate as it is: pushes that were refused, bulk jobs, squashes and
\* normalizations do not bring an outdated file back.
MasterFollows ==
  Cardinality(alive) = 1 =>
    \A c \in IndexCrates :
      \/ Tree(remote[Master])[c].state = db[c]
      \/ Job("sync", {c}) \in waiting
      \/ \E p \in alive : work[p].job = Job("sync", {c}) /\ work[p].seen[c] = File(db[c])

\* ArchiveIndexBranch: the archive has of a snapshot branch what the index repository
\* has, and no push to it is refused.
ArchiveFollows ==
  /\ \A d \in 1..MaxDay : archive[d] \in Past(remote[Snapshot(d)]) \cup {NoCommit}
  /\ archiver # NoArchiver =>
       archive[archiver.day] \in Past(archiver.commit) \cup {NoCommit}

\* The repository of the index: files of master follow the database, no commit of a dry
\* run is on master, and the archive follows the snapshots.
GitInv == GitTypeOK /\ DryRunApart /\ MasterFollows /\ ArchiveFollows
=============================================================================
