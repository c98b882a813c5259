--------------------------- MODULE GitIndexProofs ---------------------------
(***************************************************************************)
(* Proofs about GitIndex, for any crates, processes and bounds: what is on *)
(* master follows the database, the squashes lose no history, and the      *)
(* archive follows the snapshot branches.                                  *)
(***************************************************************************)
EXTENDS GitIndex, FiniteSetTheorems, SequenceTheorems, TLAPS

-----------------------------------------------------------------------------
(* The invariant.                                                          *)

Kinds == {"sync", "bulk", "normalize", "dry", "squash", "api"}
Pcs == {"idle", "taken", "locked", "committed", "created", "kept", "checked", "pushed"}

Files == [state : Nat, form : {"none", "old", "normal"}]
Trees == [IndexCrates -> Files]
CommitSet == [tree : Trees, past : SUBSET Nat, dry : BOOLEAN]
JobSet == [kind : Kinds \cup {"none", "archive"}, crates : SUBSET IndexCrates, day : Nat]
Seens == UNION {[S -> Files] : S \in SUBSET IndexCrates}
WorkSet == [pc : Pcs, job : JobSet, seen : Seens, head : Nat, new : Nat, day : Nat,
            checked : SUBSET Nat]

\* The steps of SquashIndexViaApi between its first request and its last.
ApiPcs == {"created", "kept", "checked"}

DataTypes ==
  /\ db \in [IndexCrates -> Nat]
  /\ edits \in Nat
  /\ waiting \in SUBSET JobSet
  /\ \A j \in waiting : j.kind # "none"
  /\ day \in 1..MaxDay
  /\ commits \in Seq(CommitSet)

WorkTypes ==
  /\ work \in [Processes -> WorkSet]
  /\ alive \in SUBSET Processes
  /\ \A p \in Processes \ alive : work[p] = NoWork

RefTypes ==
  /\ remote \in [Branches -> 0..Len(commits)]
  /\ remote[Master] # NoCommit
  /\ clone \in [Processes -> 0..Len(commits)]
  /\ archive \in [1..MaxDay -> 0..Len(commits)]
  /\ archiver \in [day : 0..MaxDay, commit : 0..Len(commits)]
  /\ archiver # NoArchiver => archiver.day # 0 /\ archiver.commit # NoCommit
  /\ overwritten \in SUBSET (1..Len(commits))

\* Which job a run has and what it remembers, at each of its steps.
RunShape(p) ==
  LET w == work[p] IN
  /\ IF w.pc = "idle" THEN w.job.kind = "none" ELSE w.job.kind \in Kinds
  /\ w.pc \in {"locked", "committed"} => w.job.kind # "api" /\ clone[p] # NoCommit
  /\ w.pc \in ApiPcs => w.job.kind = "api" /\ w.new # NoCommit
  /\ w.job.kind = "sync" => DOMAIN w.seen = w.job.crates
  /\ w.head <= Len(commits) /\ w.new <= Len(commits)
  /\ \/ w.pc \in ApiPcs
     \/ w.job.kind = "squash" /\ w.pc \in {"committed", "pushed"}
     => w.head # NoCommit /\ w.day \in 1..MaxDay

RunShapes == \A p \in Processes : RunShape(p)

\* What is reachable from a commit was made before it, and is kept closed.
PastsClosed ==
  \A i \in 1..Len(commits) :
    /\ i \in commits[i].past
    /\ commits[i].past \subseteq 1..i
    /\ \A j \in commits[i].past : commits[j].past \subseteq commits[i].past

\* No commit of a dry run is reachable from i.
Clean(i) == \A j \in Past(i) : ~commits[j].dry

\* Nor from what a run could push to master.
DryApart ==
  /\ Clean(remote[Master])
  /\ \A p \in Processes :
       /\ \/ work[p].pc = "locked"
          \/ work[p].pc = "committed" /\ work[p].job.kind # "dry"
          => Clean(clone[p])
       /\ work[p].pc \in ApiPcs => Clean(work[p].new)

\* A file of the commit i shows the crate as it is, or a job that will see to it waits.
Right(i, c) == Tree(i)[c].state = db[c] \/ Job("sync", {c}) \in waiting

\* With one process: what a run has read, committed or pushed is right.
FollowsInd ==
  Cardinality(alive) = 1 =>
    /\ MasterFollows
    /\ \A p \in alive :
         /\ \A c \in DOMAIN work[p].seen :
              work[p].seen[c] = File(db[c]) \/ Job("sync", {c}) \in waiting
         /\ work[p].pc = "locked" => clone[p] = remote[Master]
         /\ \A c \in IndexCrates :
              /\ work[p].pc = "committed" /\ work[p].job.kind # "dry" => Right(clone[p], c)
              /\ work[p].pc \in ApiPcs => Right(work[p].new, c)
              /\ work[p].pc = "pushed" => Right(remote[Master], c)

\* The archive is behind its snapshot branch, and so is what is about to be pushed to it.
ArchiveInd ==
  /\ ArchiveFollows
  /\ archiver # NoArchiver => archiver.commit \in Past(remote[Snapshot(archiver.day)])

\* The commit that a run has made and nobody has been told of.
Loose(p) ==
  IF work[p].pc = "committed" THEN {clone[p]}
  ELSE IF work[p].pc \in ApiPcs THEN {work[p].new} ELSE {}

\* The commits that a run has read.
Known(p) == {work[p].head} \cup (IF work[p].pc = "locked" THEN {clone[p]} ELSE {})

Fresh(p, u) ==
  /\ \A i \in 1..Len(commits) : u \in commits[i].past => i = u
  /\ \A b \in Branches : remote[b] # u
  /\ u \notin overwritten
  /\ \A q \in Processes : u \notin Known(q)
  /\ \A q \in Processes \ {p} : u \notin Loose(q)

LooseFresh == \A p \in Processes : \A u \in Loose(p) : Fresh(p, u)

\* A squash makes a commit with the files of the head it has read, and once the snapshot
\* branch has been created it leads to that head.
SquashRuns ==
  \A p \in Processes :
    LET w == work[p] IN
    /\ w.pc = "committed" /\ w.job.kind = "squash" => Tree(clone[p]) = Tree(w.head)
    /\ w.pc \in ApiPcs => Tree(w.new) = Tree(w.head)
    /\ w.pc \in {"kept", "checked"} => w.head \in Past(remote[Snapshot(w.day)])
    /\ w.pc = "checked" =>
         w.checked = Past(w.head) /\ (remote[Master] \in Past(w.head) => remote[Master] = w.head)

HistoryInd == SquashRuns /\ remote[Master] \notin overwritten

GitTypes == DataTypes /\ WorkTypes /\ RefTypes /\ RunShapes /\ PastsClosed
GitInd == GitTypes /\ DryApart /\ FollowsInd /\ ArchiveInd /\ LooseFresh /\ HistoryInd


-----------------------------------------------------------------------------
\* The files of some crates, as a run has read them.
LEMMA SeenIn ==
  ASSUME NEW S \in SUBSET IndexCrates, NEW f \in [S -> Files]
  PROVE  f \in Seens
  <1>1. [S -> Files] \in {[T -> Files] : T \in SUBSET IndexCrates}
    OBVIOUS
  <1> QED
    BY <1>1 DEF Seens

\* What a run has read is files of some crates.
LEMMA SeenOut ==
  ASSUME NEW f \in Seens
  PROVE  DOMAIN f \in SUBSET IndexCrates /\ f \in [DOMAIN f -> Files]
  <1>1. PICK S \in SUBSET IndexCrates : f \in [S -> Files]
    BY DEF Seens
  <1> QED
    BY <1>1

-----------------------------------------------------------------------------
(* Commits.                                                                *)

\* A commit that is added to the repository leaves the others as they are.
LEMMA Grown ==
  ASSUME commits \in Seq(CommitSet), PastsClosed,
         NEW tree \in Trees, NEW past \in SUBSET (1..Len(commits)), NEW dry \in BOOLEAN,
         \A i \in past : commits[i].past \subseteq past,
         NewCommit(tree, past, dry)
  PROVE  /\ commits' \in Seq(CommitSet)
         /\ Len(commits') = Len(commits) + 1
         /\ \A i \in 1..Len(commits) : commits'[i] = commits[i]
         /\ commits'[Len(commits) + 1] =
              [tree |-> tree, past |-> past \cup {Len(commits) + 1}, dry |-> dry]
         /\ PastsClosed'
  <1> DEFINE n == Len(commits) + 1
             new == [tree |-> tree, past |-> past \cup {n}, dry |-> dry]
  <1>1. Len(commits) \in Nat
    BY LenProperties
  <1>2. new \in CommitSet
    <2>1. \A i \in past \cup {n} : i \in Nat
      BY <1>1
    <2> QED
      BY <2>1 DEF CommitSet
  <1>3. commits' = Append(commits, new)
    BY DEF NewCommit
  <1> HIDE DEF new
  <1>4. /\ commits' \in Seq(CommitSet)
        /\ Len(commits') = n
        /\ \A i \in 1..Len(commits) : commits'[i] = commits[i]
        /\ commits'[n] = new
    BY <1>1, <1>2, <1>3, AppendProperties
  <1>5. PastsClosed'
    <2> SUFFICES ASSUME NEW i \in 1..n
                 PROVE  /\ i \in commits'[i].past
                        /\ commits'[i].past \subseteq 1..i
                        /\ \A j \in commits'[i].past : commits'[j].past \subseteq commits'[i].past
      BY <1>4 DEF PastsClosed
    <2>1. CASE i \in 1..Len(commits)
      <3>1. /\ i \in commits[i].past /\ commits[i].past \subseteq 1..i
            /\ \A j \in commits[i].past : commits[j].past \subseteq commits[i].past
        BY <2>1 DEF PastsClosed
      <3>2. \A j \in commits[i].past : j \in 1..Len(commits)
        BY <1>1, <2>1, <3>1
      <3> QED
        BY <1>4, <2>1, <3>1, <3>2
    <2>2. CASE i = n
      <3>1. commits'[n].past = past \cup {n}
        BY <1>4 DEF new
      <3>2. \A j \in past : commits'[j].past \subseteq past
        BY <1>4
      <3>3. past \cup {n} \subseteq 1..n
        BY <1>1
      <3> QED
        BY <2>2, <3>1, <3>2, <3>3
    <2> QED
      BY <1>1, <2>1, <2>2
  <1> QED
    BY <1>4, <1>5 DEF new

\* Of a branch that a push moves forward, everything stays reachable.
LEMMA PastGrows ==
  ASSUME commits \in Seq(CommitSet), PastsClosed,
         NEW i \in 0..Len(commits), NEW j \in 0..Len(commits), i = NoCommit \/ i \in Past(j)
  PROVE  Past(i) \subseteq Past(j)
  <1>1. Len(commits) \in Nat
    BY LenProperties
  <1> QED
    BY <1>1 DEF Past, PastsClosed, NoCommit

\* A commit is in its own past, and that is among the commits.
LEMMA PastOf ==
  ASSUME commits \in Seq(CommitSet), PastsClosed, NEW i \in 1..Len(commits)
  PROVE  /\ Past(i) = commits[i].past
         /\ i \in Past(i) /\ Past(i) \subseteq 1..Len(commits) /\ i # NoCommit
         /\ Past(i) \in SUBSET Nat
  <1>1. Len(commits) \in Nat
    BY LenProperties
  <1> QED
    BY <1>1 DEF Past, PastsClosed, NoCommit

-----------------------------------------------------------------------------
(* The initial states.                                                     *)

\* At first: one commit, on master, with the files of all crates in the old form.
LEMMA InitGit == GitInit => GitInd
  <1> SUFFICES ASSUME GitInit PROVE GitInd
    OBVIOUS
  <1> USE GitIndexAssumption DEF GitInit
  <1>1. \E t \in Trees : commits = <<[tree |-> t, past |-> {1}, dry |-> FALSE]>>
    BY DEF Trees, Files
  <1>2. PICK t \in Trees : commits = <<[tree |-> t, past |-> {1}, dry |-> FALSE]>>
    BY <1>1
  <1>3. PICK x : x = [tree |-> t, past |-> {1}, dry |-> FALSE]
    OBVIOUS
  <1>4. x \in CommitSet
    BY <1>3 DEF CommitSet
  <1>5. commits \in Seq(CommitSet) /\ Len(commits) = 1 /\ commits[1] = x
    <2>1. commits = <<x>>
      BY <1>2, <1>3
    <2>2. <<x>> \in Seq(CommitSet)
      BY <1>4
    <2>3. Len(<<x>>) = 1 /\ <<x>>[1] = x
      OBVIOUS
    <2> QED
      BY <2>1, <2>2, <2>3
  <1>6. NoWork \in WorkSet /\ \A c : DOMAIN NoWork.seen = {}
    <2>1. Job("none", {}) \in JobSet
      BY DEF Job, JobSet
    <2>2. Nothing \in [{} -> Files]
      BY DEF Nothing
    <2>3. Nothing \in Seens
      BY <2>2, SeenIn
    <2> QED
      BY <2>1, <2>3 DEF NoWork, WorkSet, Pcs, NoCommit, Nothing
  <1>7. \A p \in Processes : work[p] = NoWork
    OBVIOUS
  <1>8. NoWork.pc = "idle" /\ NoWork.job.kind = "none" /\ NoWork.head = 0 /\ NoWork.new = 0
    BY DEF NoWork, Job, NoCommit
  <1>9. DataTypes
    <2>1. commits \in Seq(CommitSet)
      BY <1>5
    <2>2. waiting = {} /\ day \in 1..MaxDay /\ db \in [IndexCrates -> Nat] /\ edits \in Nat
      OBVIOUS
    <2> QED
      BY <2>1, <2>2 DEF DataTypes
  <1>10. WorkTypes
    BY <1>6 DEF WorkTypes
  <1>11. RefTypes
    <2>1. remote \in [Branches -> 0..Len(commits)] /\ remote[Master] # NoCommit
      BY <1>5 DEF NoCommit, Branches
    <2>2. archiver \in [day : 0..MaxDay, commit : 0..Len(commits)]
      BY <1>5 DEF NoCommit, NoArchiver
    <2> QED
      BY <1>5, <2>1, <2>2 DEF RefTypes, NoCommit
  <1>12. RunShapes
    BY <1>5, <1>7, <1>8 DEF RunShapes, RunShape, Kinds, ApiPcs
  <1>13. PastsClosed
    BY <1>3, <1>5 DEF PastsClosed
  <1>14. DryApart
    BY <1>3, <1>5, <1>7, <1>8 DEF DryApart, Clean, Past, ApiPcs, Branches
  <1>15. FollowsInd
    <2>1. MasterFollows
      <3>1. remote[Master] = 1
        BY DEF Branches
      <3>2. \A c \in IndexCrates : Tree(1)[c].state = db[c]
        BY <1>5 DEF Tree
      <3> QED
        BY <3>1, <3>2 DEF MasterFollows
    <2>2. \A p \in alive : p \in Processes
      OBVIOUS
    <2>3. \A p \in alive : DOMAIN work[p].seen = {} /\ work[p].pc = "idle"
      BY <1>6, <1>7, <1>8, <2>2
    <2> QED
      BY <2>1, <2>3 DEF FollowsInd, ApiPcs
  <1>16. ArchiveInd
    BY DEF ArchiveInd, ArchiveFollows
  <1>17. LooseFresh
    BY <1>7, <1>8 DEF LooseFresh, Loose, ApiPcs
  <1>18. HistoryInd
    BY <1>7, <1>8 DEF HistoryInd, SquashRuns, ApiPcs
  <1> QED
    BY <1>9, <1>10, <1>11, <1>12, <1>13, <1>14, <1>15, <1>16, <1>17, <1>18 DEF GitInd, GitTypes


-----------------------------------------------------------------------------
(* Steps that neither make a commit nor move a branch.                     *)

\* The next step of a run, with nothing else to remember.
LEMMA GoesFields ==
  ASSUME work \in [Processes -> WorkSet], NEW p \in Processes, NEW pc \in Pcs, Goes(p, pc)
  PROVE  /\ work' \in [Processes -> WorkSet]
         /\ work'[p].pc = pc
         /\ work'[p].job = work[p].job /\ work'[p].seen = work[p].seen
         /\ work'[p].head = work[p].head /\ work'[p].new = work[p].new
         /\ work'[p].day = work[p].day /\ work'[p].checked = work[p].checked
         /\ \A q \in Processes \ {p} : work'[q] = work[q]
  BY DEF Goes, WorkSet

\* A worker without a run.
LEMMA NoWorkFields ==
  /\ NoWork \in WorkSet
  /\ NoWork.pc = "idle" /\ NoWork.job.kind = "none" /\ NoWork.head = 0 /\ NoWork.new = 0
  /\ DOMAIN NoWork.seen = {}
  <1>1. Job("none", {}) \in JobSet
    BY DEF Job, JobSet
  <1>2. Nothing \in [{} -> Files]
    BY DEF Nothing
  <1>3. Nothing \in Seens
    BY <1>2, SeenIn
  <1>4. NoWork \in WorkSet
    BY <1>1, <1>3 DEF NoWork, WorkSet, Pcs, NoCommit
  <1>5. /\ NoWork.pc = "idle" /\ NoWork.job.kind = "none" /\ NoWork.head = 0 /\ NoWork.new = 0
        /\ NoWork.seen = Nothing
    BY DEF NoWork, Job, NoCommit
  <1> QED
    BY <1>2, <1>4, <1>5

\* The runs of the other processes stay as they are.
LEMMA OtherShapes ==
  ASSUME RunShapes, NEW p \in Processes, RunShape(p)',
         Len(commits) \in Nat, Len(commits') \in Nat, Len(commits) <= Len(commits'),
         work \in [Processes -> WorkSet],
         \A q \in Processes \ {p} : work'[q] = work[q] /\ clone'[q] = clone[q]
  PROVE  RunShapes'
  <1> SUFFICES ASSUME NEW q \in Processes \ {p} PROVE RunShape(q)'
    BY DEF RunShapes
  <1>1. work[q].head \in Nat /\ work[q].new \in Nat
    BY DEF WorkSet
  <1>2. work'[q] = work[q] /\ clone'[q] = clone[q] /\ RunShape(q)
    BY DEF RunShapes
  <1> QED
    BY <1>1, <1>2 DEF RunShape

\* A commit that a run has made is not NoCommit.
LEMMA LooseCommit ==
  ASSUME RefTypes, WorkTypes, RunShapes, Len(commits) \in Nat,
         NEW p \in Processes, NEW u \in Loose(p)
  PROVE  u \in 1..Len(commits)
  <1>1. clone[p] \in 0..Len(commits) /\ work[p].new \in Nat /\ RunShape(p)
    BY DEF RefTypes, WorkTypes, WorkSet, RunShapes
  <1> QED
    BY <1>1 DEF Loose, RunShape, NoCommit, ApiPcs

\* No commit becomes known that was made by a run in progress: runs read branches.
LEMMA LooseKept ==
  ASSUME GitTypes, LooseFresh, UNCHANGED <<commits, remote, overwritten>>,
         \A q \in Processes :
           /\ Loose(q)' \subseteq Loose(q)
           /\ Known(q)' \subseteq Known(q) \cup {remote[b] : b \in Branches} \cup {NoCommit}
  PROVE  LooseFresh'
  <1> SUFFICES ASSUME NEW p \in Processes, NEW u \in Loose(p)' PROVE Fresh(p, u)'
    BY DEF LooseFresh
  <1>1. u \in Loose(p) /\ Fresh(p, u)
    BY DEF LooseFresh
  <1>2. u \in 1..Len(commits) /\ u # NoCommit
    BY <1>1, LooseCommit, LenProperties DEF GitTypes, DataTypes, NoCommit
  <1> QED
    BY <1>1, <1>2 DEF Fresh

\* What an administrator orders, a crate that changes, with its job, or the next day.
LEMMA QueueStep ==
  ASSUME GitInd, UNCHANGED <<commits, remote, archive, alive, clone, work, archiver, overwritten>>,
         db' \in [IndexCrates -> Nat], edits' \in Nat, day' \in 1..MaxDay,
         waiting \subseteq waiting', waiting' \in SUBSET JobSet,
         \A j \in waiting' : j.kind # "none",
         \A c \in IndexCrates : db'[c] = db[c] \/ Job("sync", {c}) \in waiting'
  PROVE  GitInd'
  <1> USE DEF GitInd, GitTypes
  <1>1. DataTypes'
    BY DEF DataTypes
  <1>2. WorkTypes' /\ RefTypes' /\ PastsClosed'
    BY DEF WorkTypes, RefTypes, PastsClosed, Branches
  <1>3. RunShapes'
    BY DEF RunShapes, RunShape
  <1>4. DryApart' /\ ArchiveInd'
    BY DEF DryApart, Clean, Past, ArchiveInd, ArchiveFollows
  <1>5. LooseFresh' /\ HistoryInd'
    <2>1. \A q \in Processes : Loose(q)' = Loose(q) /\ Known(q)' = Known(q)
      BY DEF Loose, Known
    <2>2. LooseFresh'
      BY <2>1, LooseKept
    <2>3. HistoryInd'
      BY DEF HistoryInd, SquashRuns, Tree, Past
    <2> QED
      BY <2>2, <2>3
  <1>6. FollowsInd'
    <2> SUFFICES ASSUME Cardinality(alive) = 1 PROVE FollowsInd'
      BY DEF FollowsInd
    <2>1. \A c \in IndexCrates : \A i : Right(i, c) => Right(i, c)'
      BY DEF Right, Tree
    <2>2. MasterFollows'
      BY DEF FollowsInd, MasterFollows, Tree
    <2>3. \A p \in alive : DOMAIN work[p].seen \subseteq IndexCrates
      BY SeenOut DEF WorkTypes, WorkSet
    <2>4. \A p \in alive : \A c \in DOMAIN work[p].seen :
            work[p].seen[c] = File(db'[c]) \/ Job("sync", {c}) \in waiting'
      BY <2>3 DEF FollowsInd
    <2> QED
      BY <2>1, <2>2, <2>4 DEF FollowsInd
  <1> QED
    BY <1>1, <1>2, <1>3, <1>4, <1>5, <1>6

\* The end of a run, one way or another.
LEMMA RunEnds ==
  ASSUME GitInd, NEW p \in Processes, p \in alive, work' = [work EXCEPT ![p] = NoWork],
         clone' = clone \/ clone' = [clone EXCEPT ![p] = NoCommit],
         UNCHANGED <<db, edits, day, commits, remote, archive, alive, archiver, overwritten>>,
         waiting \subseteq waiting', waiting' \in SUBSET JobSet,
         \A j \in waiting' : j.kind # "none",
         Cardinality(alive) = 1 =>
           \A c \in IndexCrates :
             work[p].job = Job("sync", {c}) /\ work[p].seen[c] = File(db[c])
             => Right(remote[Master], c)'
  PROVE  GitInd'
  <1> USE DEF GitInd, GitTypes
  <1>0. /\ work'[p] = NoWork /\ work \in [Processes -> WorkSet]
        /\ \A q \in Processes \ {p} : work'[q] = work[q] /\ clone'[q] = clone[q]
        /\ Len(commits) \in Nat
    BY LenProperties DEF WorkTypes, RefTypes, DataTypes
  <1>1. DataTypes'
    BY DEF DataTypes
  <1>2. WorkTypes' /\ PastsClosed'
    BY <1>0, NoWorkFields DEF WorkTypes, PastsClosed
  <1>3. RefTypes'
    BY <1>0 DEF RefTypes, NoCommit, Branches
  <1>4. RunShapes'
    <2>1. RunShape(p)'
      BY <1>0, NoWorkFields DEF RunShape, ApiPcs
    <2> QED
      BY <1>0, <2>1, OtherShapes
  <1>5. DryApart'
    BY <1>0, NoWorkFields DEF DryApart, Clean, Past, ApiPcs
  <1>6. ArchiveInd'
    BY DEF ArchiveInd, ArchiveFollows, Past
  <1>7. LooseFresh'
    <2>1. \A q \in Processes :
            /\ Loose(q)' \subseteq Loose(q)
            /\ Known(q)' \subseteq Known(q) \cup {NoCommit}
      BY <1>0, NoWorkFields DEF Loose, Known, ApiPcs, NoCommit
    <2> QED
      BY <2>1, LooseKept
  <1>8. HistoryInd'
    BY <1>0, NoWorkFields DEF HistoryInd, SquashRuns, Tree, Past, ApiPcs
  <1>9. FollowsInd'
    <2> SUFFICES ASSUME Cardinality(alive) = 1 PROVE FollowsInd'
      BY DEF FollowsInd
    <2>1. alive = {p}
      BY FS_Singleton, FS_Subset, GitIndexAssumption DEF WorkTypes
    <2>2. MasterFollows'
      BY <2>1 DEF FollowsInd, MasterFollows, Right, Tree
    <2> QED
      BY <1>0, <2>1, <2>2, NoWorkFields DEF FollowsInd, ApiPcs
  <1> QED
    BY <1>1, <1>2, <1>3, <1>4, <1>5, <1>6, <1>7, <1>8, <1>9


\* The run of one process moves on, with its job, and reads commits or the database.
LEMMA RunMoves ==
  ASSUME GitInd, NEW p \in Processes, p \in alive,
         UNCHANGED <<db, edits, day, commits, remote, archive, alive, archiver, overwritten>>,
         waiting' \in SUBSET waiting,
         work' \in [Processes -> WorkSet],
         \A q \in Processes \ {p} : work'[q] = work[q] /\ clone'[q] = clone[q],
         clone' \in [Processes -> 0..Len(commits)],
         RunShape(p)',
         work[p].pc \notin {"committed"} \cup ApiPcs => work'[p].pc \in {"taken", "locked"},
         work[p].pc \in ApiPcs => work'[p].pc \in ApiPcs /\ work'[p].new = work[p].new,
         work[p].pc # "committed",
         work'[p].pc = "locked" => clone'[p] = remote[Master] \/ (work[p].pc = "locked" /\ clone' = clone),
         work'[p].head = work[p].head \/ work'[p].head = NoCommit,
         HistoryInd',
         Cardinality(alive) = 1 =>
           /\ MasterFollows'
           /\ \A c \in DOMAIN work'[p].seen :
                work'[p].seen[c] = File(db[c]) \/ Job("sync", {c}) \in waiting'
           /\ work[p].pc \in ApiPcs => waiting' = waiting
  PROVE  GitInd'
  <1> USE DEF GitInd, GitTypes
  <1>0. Len(commits) \in Nat /\ work \in [Processes -> WorkSet]
    BY LenProperties DEF DataTypes, WorkTypes
  <1>1. DataTypes' /\ PastsClosed'
    BY DEF DataTypes, PastsClosed
  <1>2. WorkTypes'
    BY DEF WorkTypes
  <1>3. RefTypes'
    BY DEF RefTypes, Branches
  <1>4. RunShapes'
    BY <1>0, OtherShapes
  <1>5. DryApart'
    <2>1. \A i : Clean(i) => Clean(i)'
      BY DEF Clean, Past
    <2> QED
      BY <2>1 DEF DryApart, ApiPcs, Clean, Past
  <1>6. ArchiveInd'
    BY DEF ArchiveInd, ArchiveFollows, Past
  <1>7. LooseFresh'
    <2>1. remote[Master] \in {remote[b] : b \in Branches}
      BY DEF Branches
    <2>2. \A q \in Processes :
            /\ Loose(q)' \subseteq Loose(q)
            /\ Known(q)' \subseteq Known(q) \cup {remote[b] : b \in Branches} \cup {NoCommit}
      BY <2>1 DEF Loose, Known, ApiPcs, NoCommit
    <2> QED
      BY <2>2, LooseKept
  <1>8. FollowsInd'
    <2> SUFFICES ASSUME Cardinality(alive) = 1 PROVE FollowsInd'
      BY DEF FollowsInd
    <2>1. alive = {p}
      BY FS_Singleton, FS_Subset, GitIndexAssumption DEF WorkTypes
    <2>2. work'[p].pc = "locked" => clone'[p] = remote[Master]
      BY <2>1 DEF FollowsInd
    <2>3. PICK n : n = work[p].new
      OBVIOUS
    <2>4. /\ work[p].pc \in ApiPcs => \A c \in IndexCrates : Right(n, c)'
          /\ work[p].pc \in ApiPcs => work'[p].new = n
      BY <2>1, <2>3 DEF FollowsInd, Right, Tree
    <2>5. work'[p].pc \in {"taken", "locked"} \cup ApiPcs
      OBVIOUS
    <2>6. work'[p].pc \in ApiPcs => work[p].pc \in ApiPcs
      BY DEF ApiPcs, WorkTypes, WorkSet, Pcs
    <2>7. alive' = {p} /\ work'[p].pc \notin {"committed", "pushed"}
      BY <2>1, <2>5 DEF ApiPcs
    <2>8. \A c \in DOMAIN work'[p].seen :
            work'[p].seen[c] = File(db'[c]) \/ Job("sync", {c}) \in waiting'
      OBVIOUS
    <2>9. work'[p].pc = "locked" => clone'[p] = remote'[Master]
      BY <2>2
    <2>10. \A c \in IndexCrates : work'[p].pc \in ApiPcs => Right(work[p].new, c)'
      BY <2>6, <2>4 DEF Right, Tree
    <2> QED
      BY <2>7, <2>8, <2>9, <2>10 DEF FollowsInd
  <1> QED
    BY <1>1, <1>2, <1>3, <1>4, <1>5, <1>6, <1>7, <1>8

\* The worker takes a job, and SyncToGitIndex reads the crate: from here on the run is what
\* will see to it.
LEMMA TakeStep ==
  ASSUME GitInd, NEW p \in alive, NEW j \in waiting, Take(p, j)
  PROVE  GitInd'
  <1> USE DEF GitInd, GitTypes
  <1>0. /\ p \in Processes /\ work \in [Processes -> WorkSet] /\ RunShape(p)
        /\ j \in JobSet /\ j.kind # "none" /\ j.kind # "archive" /\ j.crates \subseteq IndexCrates
        /\ clone \in [Processes -> 0..Len(commits)]
        /\ work[p].pc = "idle" /\ waiting' = waiting \ {j} /\ UNCHANGED clone
        /\ UNCHANGED <<db, edits, day, commits, remote, archive, alive, archiver, overwritten>>
    BY DEF DataTypes, WorkTypes, RefTypes, RunShapes, JobSet, Take, repoVars
  <1>1. PICK seen : seen = IF j.kind = "sync" THEN [c \in j.crates |-> File(db[c])] ELSE Nothing
    OBVIOUS
  <1>2. /\ seen \in Seens
        /\ j.kind = "sync" => DOMAIN seen = j.crates
        /\ \A c \in DOMAIN seen : seen[c] = File(db[c])
    <2>1. CASE j.kind = "sync"
      <3>1. seen \in [j.crates -> Files]
        BY <1>0, <1>1, <2>1 DEF DataTypes, File, NoFile, Absent, Files
      <3> QED
        BY <1>0, <1>1, <2>1, <3>1, SeenIn
    <2>2. CASE j.kind # "sync"
      BY <1>1, <2>2, NoWorkFields DEF NoWork, WorkSet, Nothing
    <2> QED
      BY <2>1, <2>2
  <1>3. PICK w : w = [NoWork EXCEPT !.pc = "taken", !.job = j, !.seen = seen]
    OBVIOUS
  <1>4. /\ w \in WorkSet
        /\ w.pc = "taken" /\ w.job = j /\ w.seen = seen /\ w.head = 0 /\ w.new = 0
    BY <1>0, <1>2, <1>3, NoWorkFields DEF WorkSet, Pcs
  <1>5. work' = [work EXCEPT ![p] = w]
    BY <1>1, <1>3 DEF Take
  <1>6. /\ work' \in [Processes -> WorkSet] /\ work'[p] = w
        /\ \A q \in Processes \ {p} : work'[q] = work[q]
    BY <1>0, <1>4, <1>5
  <1>7. RunShape(p)'
    BY <1>0, <1>2, <1>4, <1>6, LenProperties DEF RunShape, ApiPcs, Kinds, JobSet, DataTypes
  <1>8. HistoryInd'
    BY <1>0, <1>4, <1>6 DEF HistoryInd, SquashRuns, Tree, Past, ApiPcs
  <1>9. ASSUME Cardinality(alive) = 1
        PROVE  /\ MasterFollows'
               /\ \A c \in DOMAIN seen : seen[c] = File(db[c])
    <2>1. alive = {p}
      BY <1>9, FS_Singleton, FS_Subset, GitIndexAssumption DEF WorkTypes
    <2>2. \A c : work[p].job # Job("sync", {c})
      BY <1>0 DEF RunShape, Job
    <2>3. ASSUME NEW c \in IndexCrates
          PROVE  \/ Right(remote[Master], c)'
                 \/ w.job = Job("sync", {c}) /\ w.seen[c] = File(db[c])
      <3>1. Right(remote[Master], c)
        BY <1>9, <2>1, <2>2 DEF FollowsInd, MasterFollows, Right
      <3>2. CASE j = Job("sync", {c})
        <4>1. j.kind = "sync" /\ j.crates = {c}
          BY <3>2 DEF Job
        <4> QED
          BY <1>2, <1>4, <3>2, <4>1
      <3>3. CASE j # Job("sync", {c})
        BY <1>0, <3>1, <3>3 DEF Right, Tree
      <3> QED
        BY <3>2, <3>3
    <2>4. alive' = {p} /\ work'[p] = w
      BY <1>0, <1>6, <2>1
    <2> QED
      BY <1>0, <1>2, <2>3, <2>4 DEF MasterFollows, Right
  <1> QED
    BY <1>0, <1>4, <1>6, <1>7, <1>8, <1>9, RunMoves DEF ApiPcs, NoCommit

\* open and reset_head: the clone is what master is.
LEMMA LockIndexStep ==
  ASSUME GitInd, NEW p \in alive, LockIndex(p)
  PROVE  GitInd'
  <1> USE DEF GitInd, GitTypes
  <1>0. /\ p \in Processes /\ work \in [Processes -> WorkSet] /\ RunShape(p)
        /\ work[p].pc = "taken" /\ work[p].job.kind # "api"
        /\ UNCHANGED <<db, edits, day, commits, remote, archive, alive, archiver, overwritten, waiting>>
    BY DEF WorkTypes, RunShapes, LockIndex, repoVars
  <1>1. /\ clone' = [clone EXCEPT ![p] = remote[Master]]
        /\ clone \in [Processes -> 0..Len(commits)] /\ remote[Master] \in 0..Len(commits)
        /\ remote[Master] # NoCommit
    BY DEF LockIndex, Opened, ResetHead, RefTypes, Branches
  <1>2. /\ work' \in [Processes -> WorkSet]
        /\ work'[p].pc = "locked"
        /\ work'[p].job = work[p].job /\ work'[p].seen = work[p].seen
        /\ work'[p].head = work[p].head /\ work'[p].new = work[p].new
        /\ \A q \in Processes \ {p} : work'[q] = work[q]
    BY <1>0, GoesFields DEF LockIndex, Pcs
  <1>3. RunShape(p)'
    BY <1>0, <1>1, <1>2 DEF RunShape, ApiPcs
  <1>4. HistoryInd'
    BY <1>0, <1>1, <1>2 DEF HistoryInd, SquashRuns, Tree, Past, ApiPcs
  <1>5. ASSUME Cardinality(alive) = 1
        PROVE  /\ MasterFollows'
               /\ \A c \in DOMAIN work'[p].seen :
                    work'[p].seen[c] = File(db[c]) \/ Job("sync", {c}) \in waiting
    <2>1. alive = {p}
      BY <1>5, FS_Singleton, FS_Subset, GitIndexAssumption DEF WorkTypes
    <2> QED
      BY <1>0, <1>2, <1>5, <2>1 DEF FollowsInd, MasterFollows, Tree
  <1> QED
    BY <1>0, <1>1, <1>2, <1>3, <1>4, <1>5, RunMoves DEF ApiPcs

\* BulkSyncToGitIndex reads a crate.
LEMMA ReadCrateStep ==
  ASSUME GitInd, NEW p \in alive, NEW c \in IndexCrates, ReadCrate(p, c)
  PROVE  GitInd'
  <1> USE DEF GitInd, GitTypes
  <1>0. /\ p \in Processes /\ work \in [Processes -> WorkSet] /\ RunShape(p)
        /\ work[p].pc = "locked" /\ work[p].job.kind = "bulk"
        /\ clone \in [Processes -> 0..Len(commits)]
        /\ UNCHANGED <<db, edits, day, commits, remote, archive, alive, archiver, overwritten,
                       waiting, clone>>
    BY DEF WorkTypes, RunShapes, RefTypes, ReadCrate, repoVars
  <1>1. PICK seen : seen = [x \in DOMAIN work[p].seen \cup {c} |->
                              IF x = c THEN File(db[c]) ELSE work[p].seen[x]]
    OBVIOUS
  <1>2. seen \in Seens
    <2>1. work[p].seen \in Seens
      BY <1>0 DEF WorkSet
    <2>2. /\ DOMAIN work[p].seen \in SUBSET IndexCrates
          /\ work[p].seen \in [DOMAIN work[p].seen -> Files]
      BY <2>1, SeenOut
    <2>3. File(db[c]) \in Files
      BY DEF DataTypes, File, NoFile, Absent, Files
    <2>4. seen \in [DOMAIN work[p].seen \cup {c} -> Files]
      BY <1>1, <2>2, <2>3
    <2> QED
      BY <2>2, <2>4, SeenIn
  <1>3. work' = [work EXCEPT ![p].seen = seen]
    BY <1>1 DEF ReadCrate
  <1>4. /\ work' \in [Processes -> WorkSet]
        /\ work'[p].pc = "locked"
        /\ work'[p].job = work[p].job /\ work'[p].seen = seen
        /\ work'[p].head = work[p].head /\ work'[p].new = work[p].new
        /\ \A q \in Processes \ {p} : work'[q] = work[q]
    BY <1>0, <1>2, <1>3 DEF WorkSet
  <1>5. RunShape(p)'
    BY <1>0, <1>4 DEF RunShape, ApiPcs
  <1>6. HistoryInd'
    BY <1>0, <1>4 DEF HistoryInd, SquashRuns, Tree, Past, ApiPcs
  <1>7. ASSUME Cardinality(alive) = 1
        PROVE  /\ MasterFollows'
               /\ \A x \in DOMAIN work'[p].seen :
                    work'[p].seen[x] = File(db[x]) \/ Job("sync", {x}) \in waiting
    <2>1. alive = {p}
      BY <1>7, FS_Singleton, FS_Subset, GitIndexAssumption DEF WorkTypes
    <2>2. \A x : work[p].job # Job("sync", {x})
      BY <1>0 DEF Job
    <2>3. MasterFollows'
      BY <1>0, <1>7, <2>1, <2>2 DEF FollowsInd, MasterFollows, Tree
    <2>4. \A x \in DOMAIN work[p].seen :
            work[p].seen[x] = File(db[x]) \/ Job("sync", {x}) \in waiting
      BY <1>7, <2>1 DEF FollowsInd
    <2>5. /\ DOMAIN seen = DOMAIN work[p].seen \cup {c}
          /\ \A x \in DOMAIN seen : seen[x] = IF x = c THEN File(db[c]) ELSE work[p].seen[x]
      BY <1>1
    <2> QED
      BY <1>4, <2>3, <2>4, <2>5
  <1> QED
    BY <1>0, <1>4, <1>5, <1>6, <1>7, RunMoves DEF ApiPcs

\* The drift check of SquashIndexViaApi.
LEMMA ApiCheckStep ==
  ASSUME GitInd, NEW p \in alive, ApiCheck(p)
  PROVE  GitInd'
  <1> USE DEF GitInd, GitTypes
  <1>0. /\ p \in Processes /\ work \in [Processes -> WorkSet] /\ RunShape(p)
        /\ work[p].pc = "kept" /\ remote[Master] = work[p].head
        /\ clone \in [Processes -> 0..Len(commits)]
        /\ UNCHANGED <<db, edits, day, commits, remote, archive, alive, archiver, overwritten,
                       waiting, clone>>
    BY DEF WorkTypes, RunShapes, RefTypes, ApiCheck, repoVars
  <1>1. Past(remote[Master]) \in SUBSET Nat
    <2>1. remote[Master] \in 1..Len(commits)
      BY LenProperties DEF RefTypes, DataTypes, Branches, NoCommit
    <2> QED
      BY <2>1, PastOf DEF DataTypes
  <1>2. /\ work' \in [Processes -> WorkSet]
        /\ work'[p].pc = "checked" /\ work'[p].checked = Past(remote[Master])
        /\ work'[p].job = work[p].job /\ work'[p].seen = work[p].seen
        /\ work'[p].head = work[p].head /\ work'[p].new = work[p].new /\ work'[p].day = work[p].day
        /\ \A q \in Processes \ {p} : work'[q] = work[q]
    BY <1>0, <1>1 DEF ApiCheck, WorkSet, Pcs
  <1>3. RunShape(p)'
    BY <1>0, <1>2 DEF RunShape, ApiPcs
  <1>4. HistoryInd'
    BY <1>0, <1>2 DEF HistoryInd, SquashRuns, Tree, Past, ApiPcs
  <1>5. ASSUME Cardinality(alive) = 1
        PROVE  /\ MasterFollows'
               /\ \A c \in DOMAIN work'[p].seen :
                    work'[p].seen[c] = File(db[c]) \/ Job("sync", {c}) \in waiting
    <2>1. alive = {p}
      BY <1>5, FS_Singleton, FS_Subset, GitIndexAssumption DEF WorkTypes
    <2>2. \A c : work[p].job # Job("sync", {c})
      BY <1>0 DEF RunShape, Job, ApiPcs
    <2>3. MasterFollows'
      BY <1>0, <1>5, <2>1, <2>2 DEF FollowsInd, MasterFollows, Tree
    <2>4. \A x \in DOMAIN work[p].seen :
            work[p].seen[x] = File(db[x]) \/ Job("sync", {x}) \in waiting
      BY <1>5, <2>1 DEF FollowsInd
    <2> QED
      BY <1>2, <2>3, <2>4
  <1> QED
    BY <1>0, <1>2, <1>3, <1>4, <1>5, RunMoves DEF ApiPcs


\* The other ends of a run: nothing has changed, it has been pushed, or it is refused or fails
\* and its job waits again.
LEMMA EndSteps ==
  ASSUME GitInd, NEW p \in alive,
         NoChanges(p) \/ Finish(p) \/ RunRefused(p) \/ \E lost \in BOOLEAN : GitRunFails(p, lost)
  PROVE  GitInd'
  <1> USE DEF GitInd, GitTypes
  <1>0. /\ p \in Processes /\ work[p] \in WorkSet /\ RunShape(p)
        /\ waiting \in SUBSET JobSet /\ \A j \in waiting : j.kind # "none"
    BY DEF WorkTypes, RunShapes, DataTypes
  <1>1. work[p].job \in JobSet /\ work[p].day \in Nat
    BY <1>0 DEF WorkSet
  <1>2. ASSUME Cardinality(alive) = 1 PROVE alive = {p}
    BY <1>2, FS_Singleton, FS_Subset, GitIndexAssumption DEF WorkTypes
  <1>3. CASE NoChanges(p)
    <2>1. /\ work[p].pc = "locked" /\ Updated(p) = Tree(clone[p])
          /\ work' = [work EXCEPT ![p] = NoWork]
          /\ UNCHANGED <<db, edits, day, commits, remote, archive, alive, archiver, overwritten,
                         waiting, clone>>
      BY <1>3 DEF NoChanges, Staged, repoVars
    <2>2. ASSUME Cardinality(alive) = 1, NEW c \in IndexCrates,
                 work[p].job = Job("sync", {c}), work[p].seen[c] = File(db[c])
          PROVE  Right(remote[Master], c)'
      <3>1. clone[p] = remote[Master]
        BY <1>2, <2>1, <2>2 DEF FollowsInd
      <3>2. DOMAIN work[p].seen = {c} /\ work[p].job.kind = "sync"
        BY <1>0, <2>2 DEF RunShape, Job
      <3>3. Updated(p)[c] = File(db[c])
        BY <2>2, <3>2 DEF Updated
      <3>4. Tree(remote[Master])[c].state = db[c]
        BY <2>1, <3>1, <3>3 DEF File, NoFile, Absent
      <3> QED
        BY <2>1, <3>4 DEF Right, Tree
    <2> QED
      BY <1>0, <2>1, <2>2, RunEnds
  <1>4. CASE Finish(p)
    <2>1. /\ work[p].pc = "pushed"
          /\ work' = [work EXCEPT ![p] = NoWork]
          /\ UNCHANGED <<db, edits, day, commits, remote, archive, alive, archiver, overwritten, clone>>
          /\ waiting' = waiting \cup {ArchiveIndexBranch(work[p].day)} \/ waiting' = waiting
      BY <1>4 DEF Finish, repoVars
    <2>2. ArchiveIndexBranch(work[p].day) \in JobSet /\ ArchiveIndexBranch(work[p].day).kind # "none"
      BY <1>1 DEF ArchiveIndexBranch, JobSet
    <2>3. ASSUME Cardinality(alive) = 1, NEW c \in IndexCrates PROVE Right(remote[Master], c)'
      <3>1. Right(remote[Master], c)
        BY <1>2, <2>1, <2>3 DEF FollowsInd
      <3> QED
        BY <2>1, <3>1 DEF Right, Tree
    <2> QED
      BY <1>0, <2>1, <2>2, <2>3, RunEnds
  <1>5. CASE RunRefused(p) \/ \E lost \in BOOLEAN : GitRunFails(p, lost)
    <2>1. /\ work[p].pc # "idle" /\ GiveBack(p)
          /\ clone' = clone \/ clone' = [clone EXCEPT ![p] = NoCommit]
          /\ UNCHANGED <<db, edits, day, commits, remote, archive, alive, archiver, overwritten>>
      BY <1>5 DEF RunRefused, Refused, GitRunFails, repoVars
    <2>2. waiting' = waiting \cup {work[p].job} /\ work' = [work EXCEPT ![p] = NoWork]
      BY <2>1 DEF GiveBack
    <2>3. work[p].job.kind # "none"
      BY <1>0, <2>1 DEF RunShape, Kinds
    <2>4. ASSUME NEW c \in IndexCrates, work[p].job = Job("sync", {c})
          PROVE  Right(remote[Master], c)'
      BY <2>2, <2>4 DEF Right
    <2> QED
      BY <1>0, <1>1, <2>1, <2>2, <2>3, <2>4, RunEnds
  <1> QED
    BY <1>3, <1>4, <1>5

\* ArchiveIndexBranch: the archive gets the commit that was cloned, which the snapshot branch
\* still leads to.
LEMMA ArchiverSteps ==
  ASSUME GitInd,
         \/ \E d \in 1..MaxDay : ArchiveClone(d)
         \/ ArchivePush
         \/ \E pushed \in BOOLEAN : ArchiveFails(pushed)
  PROVE  GitInd'
  <1> USE DEF GitInd, GitTypes
  <1>0. /\ UNCHANGED <<db, edits, day, commits, remote, alive, clone, work, overwritten>>
        /\ \A c : Job("sync", {c}) \in waiting => Job("sync", {c}) \in waiting'
        /\ waiting' \in SUBSET JobSet /\ \A j \in waiting' : j.kind # "none"
    <2>1. archiver.day \in Nat
      BY GitIndexAssumption DEF RefTypes
    <2>2. \A d \in Nat : /\ ArchiveIndexBranch(d) \in JobSet /\ ArchiveIndexBranch(d).kind = "archive"
                         /\ \A c : Job("sync", {c}) # ArchiveIndexBranch(d)
      BY DEF ArchiveIndexBranch, JobSet, Job
    <2>3. /\ UNCHANGED <<db, edits, day, commits, remote, alive, clone, work, overwritten>>
          /\ \E d \in Nat : \/ waiting' = waiting \cup {ArchiveIndexBranch(d)}
                          \/ waiting' = waiting \ {ArchiveIndexBranch(d)}
                          \/ waiting' = waiting
      <3>1. CASE \E d \in 1..MaxDay : ArchiveClone(d)
        BY <3>1, GitIndexAssumption DEF ArchiveClone, repoVars
      <3>2. CASE ArchivePush
        BY <2>1, <3>2 DEF ArchivePush, repoVars
      <3>3. CASE \E pushed \in BOOLEAN : ArchiveFails(pushed)
        BY <2>1, <3>3 DEF ArchiveFails, repoVars
      <3> QED
        BY <3>1, <3>2, <3>3
    <2>4. waiting \in SUBSET JobSet /\ \A j \in waiting : j.kind # "none"
      BY DEF DataTypes
    <2> QED
      BY <2>2, <2>3, <2>4
  <1>1. archive \in [1..MaxDay -> 0..Len(commits)] /\ archiver \in [day : 0..MaxDay, commit : 0..Len(commits)]
    BY DEF RefTypes
  <1>2. \A d \in 1..MaxDay : remote[Snapshot(d)] \in 0..Len(commits)
    BY DEF RefTypes, Branches
  <1>3. /\ archive' \in [1..MaxDay -> 0..Len(commits)]
        /\ archiver' \in [day : 0..MaxDay, commit : 0..Len(commits)]
        /\ archiver' # NoArchiver => archiver'.day # 0 /\ archiver'.commit # NoCommit
        /\ ArchiveInd'
    <2>1. ASSUME NEW d \in 1..MaxDay, ArchiveClone(d)
          PROVE  /\ archive' \in [1..MaxDay -> 0..Len(commits)]
                 /\ archiver' \in [day : 0..MaxDay, commit : 0..Len(commits)]
                 /\ archiver' # NoArchiver => archiver'.day # 0 /\ archiver'.commit # NoCommit
                 /\ ArchiveInd'
      <3>1. /\ archiver' = [day |-> d, commit |-> remote[Snapshot(d)]]
            /\ archive' = archive /\ remote[Snapshot(d)] # NoCommit
        BY <2>1 DEF ArchiveClone
      <3>2. remote[Snapshot(d)] \in Past(remote[Snapshot(d)])
        <4>1. remote[Snapshot(d)] \in 1..Len(commits)
          BY <1>2, <3>1, LenProperties DEF NoCommit, DataTypes
        <4> QED
          BY <4>1, PastOf DEF DataTypes
      <3>3. ArchiveInd'
        BY <1>0, <3>1, <3>2 DEF ArchiveInd, ArchiveFollows, Past
      <3>4. archiver' \in [day : 0..MaxDay, commit : 0..Len(commits)] /\ archiver'.day # 0
        BY <1>2, <3>1, GitIndexAssumption
      <3> QED
        BY <1>1, <3>1, <3>3, <3>4
    <2>2. CASE ArchivePush \/ \E pushed \in BOOLEAN : ArchiveFails(pushed)
      <3>1. /\ archiver # NoArchiver /\ archiver' = NoArchiver
            /\ archive' = archive \/ archive' = [archive EXCEPT ![archiver.day] = archiver.commit]
        BY <2>2 DEF ArchivePush, ArchiveFails
      <3>2. archiver.day \in 1..MaxDay /\ archiver.commit \in Past(remote[Snapshot(archiver.day)])
        BY <1>1, <3>1, GitIndexAssumption DEF RefTypes, ArchiveInd
      <3>3. archive' \in [1..MaxDay -> 0..Len(commits)]
        BY <1>1, <3>1, <3>2
      <3>4. NoArchiver \in [day : 0..MaxDay, commit : 0..Len(commits)]
        BY GitIndexAssumption, LenProperties DEF NoArchiver, NoCommit, DataTypes
      <3>5. \A d \in 1..MaxDay : archive'[d] = archive[d] \/ archive'[d] \in Past(remote[Snapshot(d)])
        BY <1>1, <3>1, <3>2
      <3>6. ArchiveInd'
        BY <1>0, <3>1, <3>5 DEF ArchiveInd, ArchiveFollows, Past
      <3> QED
        BY <3>1, <3>3, <3>4, <3>6
    <2> QED
      BY <2>1, <2>2
  <1>4. DataTypes'
    BY <1>0 DEF DataTypes
  <1>5. WorkTypes' /\ PastsClosed' /\ RunShapes'
    BY <1>0 DEF WorkTypes, PastsClosed, RunShapes, RunShape
  <1>6. RefTypes'
    BY <1>0, <1>3 DEF RefTypes, Branches
  <1>7. DryApart'
    BY <1>0 DEF DryApart, Clean, Past
  <1>8. LooseFresh' /\ HistoryInd'
    <2>1. \A q \in Processes : Loose(q)' = Loose(q) /\ Known(q)' = Known(q)
      BY <1>0 DEF Loose, Known
    <2>2. LooseFresh'
      BY <1>0, <2>1, LooseKept
    <2> QED
      BY <1>0, <2>2 DEF HistoryInd, SquashRuns, Tree, Past
  <1>9. FollowsInd'
    BY <1>0 DEF FollowsInd, MasterFollows, Right, Tree
  <1> QED
    BY <1>3, <1>4, <1>5, <1>6, <1>7, <1>8, <1>9


-----------------------------------------------------------------------------
(* Steps that make a commit.                                               *)

\* A run makes a commit of its own: on top of the head that it has locked, or without parents.
LEMMA CommitStep ==
  ASSUME GitInd, NEW p \in Processes, p \in alive,
         NEW tree \in Trees, NEW past \in SUBSET (1..Len(commits)), NEW dry \in BOOLEAN,
         \A i \in past : commits[i].past \subseteq past,
         NewCommit(tree, past, dry),
         past = {} \/ (work[p].pc = "locked" /\ past = Past(clone[p])),
         UNCHANGED <<db, edits, waiting, day, remote, archive, alive, archiver, overwritten>>,
         work' \in [Processes -> WorkSet],
         \A q \in Processes \ {p} : work'[q] = work[q] /\ clone'[q] = clone[q],
         clone' \in [Processes -> 0..Len(commits) + 1],
         RunShape(p)',
         work[p].pc \in {"taken", "locked"},
         \/ work'[p].pc = "committed" /\ clone'[p] = Len(commits) + 1
         \/ work'[p].pc = "created" /\ work'[p].new = Len(commits) + 1,
         work'[p].job = work[p].job, work'[p].seen = work[p].seen,
         work'[p].head \in Known(p) \cup {remote[Master]},
         dry <=> work[p].job.kind = "dry",
         ~dry => \A i \in past : ~commits[i].dry,
         \/ work'[p].pc = "created"
         \/ work[p].job.kind = "squash"
         => work'[p].head \in 1..Len(commits) /\ tree = Tree(work'[p].head),
         Cardinality(alive) = 1 =>
           /\ \A c \in IndexCrates : work[p].job = Job("sync", {c}) => work[p].pc = "locked"
           /\ ~dry => \A c \in IndexCrates :
                        tree[c].state = db[c] \/ Job("sync", {c}) \in waiting
  PROVE  GitInd'
  <1> USE DEF GitInd, GitTypes
  <1>0. /\ Len(commits) \in Nat /\ work \in [Processes -> WorkSet]
        /\ commits \in Seq(CommitSet)
    BY LenProperties DEF DataTypes, WorkTypes
  <1>1. PICK n \in Nat : n = Len(commits) + 1
    BY <1>0
  <1>2. PICK new : new = [tree |-> tree, past |-> past \cup {n}, dry |-> dry]
    OBVIOUS
  <1>3. new.tree = tree /\ new.past = past \cup {n} /\ new.dry = dry
    BY <1>2
  <1>4. /\ commits' \in Seq(CommitSet)
        /\ Len(commits') = n
        /\ \A i \in 1..Len(commits) : commits'[i] = commits[i]
        /\ commits'[n] = new
        /\ PastsClosed'
    BY <1>0, <1>1, <1>2, Grown
  <1>5. \A i \in 0..Len(commits) : Past(i)' = Past(i)
    BY <1>4 DEF Past, NoCommit
  <1>6. /\ remote \in [Branches -> 0..Len(commits)] /\ remote[Master] \in 1..Len(commits)
        /\ clone \in [Processes -> 0..Len(commits)]
        /\ archiver \in [day : 0..MaxDay, commit : 0..Len(commits)]
    BY <1>0 DEF RefTypes, Branches, NoCommit
  <1>7. \A i \in 0..Len(commits) : Past(i) \subseteq 1..Len(commits)
    BY <1>0, PastOf DEF Past, NoCommit
  <1>8. DataTypes'
    BY <1>4 DEF DataTypes
  <1>9. WorkTypes'
    BY DEF WorkTypes
  <1>10. RefTypes'
    <2>1. 0..Len(commits) \subseteq 0..n /\ 1..Len(commits) \subseteq 1..n
      BY <1>0, <1>1
    <2>2. remote' \in [Branches -> 0..n]
      BY <1>6, <2>1
    <2>3. archive' \in [1..MaxDay -> 0..n]
      BY <2>1 DEF RefTypes
    <2>4. archiver' \in [day : 0..MaxDay, commit : 0..n]
      BY <1>6, <2>1
    <2>5. overwritten' \in SUBSET (1..n)
      BY <2>1 DEF RefTypes
    <2> QED
      BY <1>1, <1>4, <2>2, <2>3, <2>4, <2>5 DEF RefTypes
  <1>11. RunShapes'
    BY <1>0, <1>1, <1>4, OtherShapes
  <1>12. Loose(p) = {} /\ Loose(p)' = {n} /\ Known(p)' = {work'[p].head}
    BY <1>1 DEF Loose, Known, ApiPcs
  <1>13. \A q \in Processes \ {p} : Loose(q)' = Loose(q) /\ Known(q)' = Known(q)
    BY DEF Loose, Known
  <1>14. \A q \in Processes : /\ Known(q) \subseteq 0..Len(commits)
                              /\ Loose(q) \subseteq 1..Len(commits)
    <2> TAKE q \in Processes
    <2>1. RunShape(q) /\ work[q].head \in Nat /\ clone[q] \in 0..Len(commits)
      BY <1>0, <1>6 DEF RunShapes, WorkSet
    <2>2. Known(q) \subseteq 0..Len(commits)
      BY <1>0, <2>1 DEF Known, RunShape
    <2> QED
      BY <1>0, <2>2, LooseCommit
  <1>15. DryApart'
    <2>1. \A i \in 0..Len(commits) : Clean(i) => Clean(i)'
      BY <1>4, <1>5, <1>7 DEF Clean
    <2>2. Clean(remote[Master])'
      BY <1>6, <2>1 DEF DryApart
    <2>3. ~dry => \A i \in past \cup {n} : ~commits'[i].dry
      BY <1>3, <1>4
    <2>4. ~dry => Clean(n)'
      BY <1>1, <1>3, <1>4, <2>3 DEF Clean, Past
    <2>5. ASSUME NEW q \in Processes \ {p}
          PROVE  /\ \/ work'[q].pc = "locked"
                    \/ work'[q].pc = "committed" /\ work'[q].job.kind # "dry"
                    => Clean(clone[q])'
                 /\ work'[q].pc \in ApiPcs => Clean(work[q].new)'
      <3>1. work[q].pc \in ApiPcs => work[q].new \in 0..Len(commits)
        <4>1. RunShape(q) /\ work[q].new \in Nat
          BY <1>0 DEF RunShapes, WorkSet
        <4> QED
          BY <1>0, <4>1 DEF RunShape
      <3>2. PICK m : m = work[q].new
        OBVIOUS
      <3>3. work[q].pc \in ApiPcs => Clean(m)'
        BY <2>1, <3>1, <3>2 DEF DryApart
      <3>4. PICK k : k = clone[q]
        OBVIOUS
      <3>5. \/ work[q].pc = "locked"
            \/ work[q].pc = "committed" /\ work[q].job.kind # "dry"
            => Clean(k)'
        BY <1>6, <2>1, <3>4 DEF DryApart
      <3> QED
        BY <3>2, <3>3, <3>4, <3>5 DEF Clean, Past
    <2>6. /\ \/ work'[p].pc = "locked"
             \/ work'[p].pc = "committed" /\ work'[p].job.kind # "dry"
             => Clean(clone[p])'
          /\ work'[p].pc \in ApiPcs => Clean(work[p].new)'
      <3>1. work'[p].pc = "committed" /\ work'[p].job.kind # "dry" => Clean(clone[p])'
        BY <1>1, <2>4 DEF Clean, Past
      <3>2. RunShape(p)' /\ (work'[p].pc = "created" => work'[p].job.kind # "dry")
        BY DEF RunShape, ApiPcs
      <3>3. work'[p].pc \in ApiPcs => Clean(work[p].new)'
        BY <1>1, <2>4, <3>2 DEF Clean, Past, ApiPcs
      <3> QED
        BY <3>1, <3>3
    <2> QED
      BY <2>2, <2>5, <2>6 DEF DryApart
  <1>16. ArchiveInd'
    <2>1. ASSUME NEW b \in Branches PROVE Past(remote[b])' = Past(remote[b])
      <3>1. PICK i \in 0..Len(commits) : i = remote[b] /\ i = remote'[b]
        BY <1>6
      <3> QED
        BY <1>5, <3>1 DEF Past
    <2>2. Past(archiver.commit)' = Past(archiver.commit)
      <3>1. PICK i \in 0..Len(commits) : i = archiver.commit /\ i = archiver'.commit
        BY <1>6
      <3> QED
        BY <1>5, <3>1 DEF Past
    <2>3. /\ \A d \in 1..MaxDay : Snapshot(d) \in Branches
          /\ archiver # NoArchiver => archiver.day \in 1..MaxDay
      BY <1>6, GitIndexAssumption DEF Branches, RefTypes
    <2> QED
      BY <2>1, <2>2, <2>3 DEF ArchiveInd, ArchiveFollows
  <1>17. LooseFresh'
    <2> SUFFICES ASSUME NEW q \in Processes, NEW u \in Loose(q)' PROVE Fresh(q, u)'
      BY DEF LooseFresh
    <2>1. CASE q = p
      <3>1. u = n /\ n \notin 0..Len(commits)
        BY <1>0, <1>1, <1>12, <2>1
      <3>2. \A i \in 1..n : n \in commits'[i].past => i = n
        BY <1>0, <1>1, <1>4, <3>1 DEF PastsClosed
      <3>3. \A b \in Branches : remote'[b] # n
        BY <1>6, <3>1
      <3>4. overwritten' \subseteq 0..Len(commits)
        BY <1>0 DEF RefTypes
      <3>5. \A r \in Processes : n \notin Known(r)'
        BY <1>6, <1>12, <1>13, <1>14, <3>1
      <3>6. \A r \in Processes \ {p} : n \notin Loose(r)'
        BY <1>0, <1>13, <1>14, <3>1
      <3> QED
        BY <1>4, <2>1, <3>1, <3>2, <3>3, <3>4, <3>5, <3>6 DEF Fresh
    <2>2. CASE q # p
      <3>1. u \in Loose(q) /\ Fresh(q, u) /\ u \in 1..Len(commits)
        BY <1>13, <1>14, <2>2 DEF LooseFresh
      <3>2. \A i \in 1..n : u \in commits'[i].past => i = u
        <4> TAKE i \in 1..n
        <4>1. CASE i \in 1..Len(commits)
          BY <1>4, <3>1, <4>1 DEF Fresh
        <4>2. CASE i = n
          <5>1. u \notin past
            <6>1. CASE work[p].pc = "locked" /\ past = Past(clone[p])
              <7>1. clone[p] \in Known(p) /\ u # clone[p]
                BY <3>1, <6>1 DEF Known, Fresh
              <7>2. clone[p] \in 1..Len(commits) \/ clone[p] = NoCommit
                BY <1>0, <1>6 DEF NoCommit
              <7> QED
                BY <3>1, <6>1, <7>1, <7>2 DEF Fresh, Past
            <6> QED
              BY <6>1
          <5> QED
            BY <1>0, <1>1, <1>3, <1>4, <3>1, <4>2, <5>1
        <4> QED
          BY <1>0, <1>1, <4>1, <4>2
      <3>3. \A r \in Processes : u \notin Known(r)'
        <4>1. u \notin Known(p) /\ u # remote[Master]
          BY <3>1 DEF Fresh, Branches
        <4> QED
          BY <1>12, <1>13, <3>1, <4>1 DEF Fresh
      <3>4. \A r \in Processes \ {q} : u \notin Loose(r)'
        BY <1>0, <1>1, <1>12, <1>13, <3>1 DEF Fresh
      <3> QED
        BY <1>4, <3>1, <3>2, <3>3, <3>4 DEF Fresh
    <2> QED
      BY <2>1, <2>2
  <1>18. HistoryInd'
    <2>1. \A i \in 1..Len(commits) : Tree(i)' = Tree(i)
      BY <1>4 DEF Tree
    <2>2. Tree(n)' = tree
      BY <1>3, <1>4 DEF Tree
    <2>3. ASSUME NEW q \in Processes \ {p}
          PROVE  LET w == work'[q] IN
                 /\ w.pc = "committed" /\ w.job.kind = "squash" => Tree(clone[q])' = Tree(work[q].head)'
                 /\ w.pc \in ApiPcs => Tree(work[q].new)' = Tree(work[q].head)'
                 /\ w.pc \in {"kept", "checked"} => w.head \in Past(remote[Snapshot(work[q].day)])'
                 /\ w.pc = "checked" =>
                      /\ w.checked = Past(work[q].head)'
                      /\ remote'[Master] \in Past(work[q].head)' => remote'[Master] = w.head
      <3>1. PICK w : w = work[q]
        OBVIOUS
      <3>2. PICK k : k = clone[q]
        OBVIOUS
      <3>3. /\ w.pc \in ApiPcs \/ (w.job.kind = "squash" /\ w.pc = "committed")
               => w.head \in 1..Len(commits) /\ w.day \in 1..MaxDay
            /\ w.pc \in ApiPcs => w.new \in 1..Len(commits)
            /\ w.pc = "committed" => k \in 1..Len(commits)
        <4>1. RunShape(q) /\ w.head \in Nat
          BY <1>0, <3>1 DEF RunShapes, WorkSet
        <4> QED
          BY <1>0, <1>14, <3>1, <3>2, <4>1 DEF RunShape, Loose, ApiPcs, NoCommit
      <3>4. /\ w.pc = "committed" /\ w.job.kind = "squash" => Tree(k) = Tree(w.head)
            /\ w.pc \in ApiPcs => Tree(w.new) = Tree(w.head)
            /\ w.pc \in {"kept", "checked"} => w.head \in Past(remote[Snapshot(w.day)])
            /\ w.pc = "checked" =>
                 /\ w.checked = Past(w.head)
                 /\ remote[Master] \in Past(w.head) => remote[Master] = w.head
        BY <3>1, <3>2 DEF HistoryInd, SquashRuns
      <3>5. w.pc = "committed" /\ w.job.kind = "squash" => Tree(k)' = Tree(w.head)'
        BY <2>1, <3>3, <3>4
      <3>6. w.pc \in ApiPcs => Tree(w.new)' = Tree(w.head)'
        BY <2>1, <3>3, <3>4
      <3>7. w.pc \in {"kept", "checked"} => w.head \in Past(remote[Snapshot(w.day)])'
        <4> SUFFICES ASSUME w.pc \in {"kept", "checked"}
                     PROVE  w.head \in Past(remote[Snapshot(w.day)])'
          OBVIOUS
        <4>1. PICK b \in Branches : b = Snapshot(w.day)
          BY <3>3 DEF Branches, ApiPcs
        <4>2. PICK i \in 0..Len(commits) : i = remote[b]
          BY <1>6
        <4>3. w.head \in Past(i)'
          BY <1>5, <3>4, <4>1, <4>2
        <4> QED
          BY <4>1, <4>2, <4>3
      <3>8. w.pc = "checked" =>
              /\ w.checked = Past(w.head)'
              /\ remote'[Master] \in Past(w.head)' => remote'[Master] = w.head
        <4>1. w.pc = "checked" => Past(w.head)' = Past(w.head)
          BY <1>0, <1>5, <3>3 DEF ApiPcs
        <4> QED
          BY <3>4, <4>1
      <3> QED
        BY <3>1, <3>2, <3>5, <3>6, <3>7, <3>8 DEF Tree, Past
    <2>4. LET w == work'[p] IN
          /\ w.pc = "committed" /\ w.job.kind = "squash" => Tree(clone[p])' = Tree(work[p].head)'
          /\ w.pc \in ApiPcs => Tree(work[p].new)' = Tree(work[p].head)'
      <3>1. PICK h : h = work'[p].head
        OBVIOUS
      <3>2. work'[p].pc = "created" \/ work[p].job.kind = "squash" => Tree(n)' = Tree(h)'
        BY <2>1, <2>2, <3>1
      <3> QED
        BY <1>1, <3>1, <3>2 DEF Tree, ApiPcs
    <2>5. work'[p].pc \notin {"kept", "checked"}
      OBVIOUS
    <2>6. SquashRuns'
      BY <2>3, <2>4, <2>5 DEF SquashRuns
    <2> QED
      BY <2>6 DEF HistoryInd
  <1>19. FollowsInd'
    <2> SUFFICES ASSUME Cardinality(alive) = 1 PROVE FollowsInd'
      BY DEF FollowsInd
    <2>1. alive = {p} /\ alive' = {p}
      BY FS_Singleton, FS_Subset, GitIndexAssumption DEF WorkTypes
    <2>2. PICK m \in 1..Len(commits) : m = remote[Master] /\ m = remote'[Master]
      BY <1>6
    <2>3. Tree(m)' = Tree(m)
      BY <1>4 DEF Tree
    <2>4. MasterFollows'
      BY <2>1, <2>2, <2>3 DEF FollowsInd, MasterFollows
    <2>5. \A c \in DOMAIN work[p].seen :
            work[p].seen[c] = File(db[c]) \/ Job("sync", {c}) \in waiting
      BY <2>1 DEF FollowsInd
    <2>6. ~dry => \A c \in IndexCrates : Right(n, c)'
      BY <1>3, <1>4 DEF Right, Tree
    <2>7. work'[p].pc \in ApiPcs => ~dry
      BY DEF RunShape, ApiPcs
    <2>8. \A c \in IndexCrates :
            /\ work'[p].pc = "committed" /\ work'[p].job.kind # "dry" => Right(clone[p], c)'
            /\ work'[p].pc \in ApiPcs => Right(work[p].new, c)'
      BY <1>1, <2>6, <2>7 DEF Right, Tree, ApiPcs
    <2>9. work'[p].pc \notin {"locked", "pushed"}
      OBVIOUS
    <2> QED
      BY <2>1, <2>4, <2>5, <2>8, <2>9 DEF FollowsInd
  <1> QED
    BY <1>4, <1>8, <1>9, <1>10, <1>11, <1>15, <1>16, <1>17, <1>18, <1>19


\* commit_and_push: the commit on top of the head of the clone.
LEMMA MakeCommitStep ==
  ASSUME GitInd, NEW p \in alive, MakeCommit(p)
  PROVE  GitInd'
  <1> USE DEF GitInd, GitTypes
  <1>0. /\ p \in Processes /\ work \in [Processes -> WorkSet] /\ RunShape(p)
        /\ work[p].pc = "locked" /\ work[p].job.kind \in {"sync", "bulk", "normalize", "dry"}
        /\ clone \in [Processes -> 0..Len(commits)]
        /\ UNCHANGED <<db, edits, waiting, day, remote, archive, alive, archiver, overwritten>>
        /\ Len(commits) \in Nat /\ commits \in Seq(CommitSet)
    BY LenProperties DEF WorkTypes, DataTypes, RunShapes, RefTypes, MakeCommit, Staged
  <1>1. clone[p] \in 1..Len(commits)
    BY <1>0 DEF RunShape, NoCommit
  <1>2. PICK old \in CommitSet : old = commits[clone[p]]
    BY <1>0, <1>1, ElementOfSeq
  <1>3. PICK tree : tree = Updated(p)
    OBVIOUS
  <1>4. old.tree = Tree(clone[p]) /\ old.tree \in Trees
    BY <1>2 DEF Tree, CommitSet
  <1>5. work[p].seen \in [DOMAIN work[p].seen -> Files]
    BY <1>0, SeenOut DEF WorkSet
  <1>6. tree \in Trees
    <2>1. \A c \in IndexCrates : old.tree[c] \in Files
      BY <1>4 DEF Trees
    <2>2. \A c \in IndexCrates : Normalized(old.tree)[c] \in Files
      BY <2>1 DEF Normalized, File, NoFile, Files, Absent
    <2>3. Normalized(old.tree) \in Trees
      BY <2>2 DEF Normalized, Trees
    <2>4. [c \in IndexCrates |-> IF c \in DOMAIN work[p].seen THEN work[p].seen[c] ELSE old.tree[c]]
            \in Trees
      BY <1>5, <2>1 DEF Trees
    <2> QED
      BY <1>3, <1>4, <2>3, <2>4 DEF Updated
  <1>7. PICK past : past = Past(clone[p])
    OBVIOUS
  <1>8. past \in SUBSET (1..Len(commits)) /\ \A i \in past : commits[i].past \subseteq past
    BY <1>0, <1>1, <1>7, PastOf DEF PastsClosed
  <1>9. PICK dry \in BOOLEAN : dry <=> work[p].job.kind = "dry"
    OBVIOUS
  <1>10. NewCommit(tree, past, dry)
    BY <1>3, <1>7, <1>9 DEF MakeCommit
  <1>11. /\ work' \in [Processes -> WorkSet]
         /\ work'[p].pc = "committed"
         /\ work'[p].job = work[p].job /\ work'[p].seen = work[p].seen
         /\ work'[p].head = work[p].head /\ work'[p].new = work[p].new
         /\ \A q \in Processes \ {p} : work'[q] = work[q]
    BY <1>0, GoesFields DEF MakeCommit, Pcs
  <1>12. /\ clone' \in [Processes -> 0..Len(commits) + 1]
         /\ clone'[p] = Len(commits) + 1
         /\ \A q \in Processes \ {p} : clone'[q] = clone[q]
    BY <1>0 DEF MakeCommit
  <1>13. Len(commits') = Len(commits) + 1
    BY <1>0, <1>6, <1>8, <1>10, Grown
  <1>14. RunShape(p)'
    BY <1>0, <1>11, <1>12, <1>13 DEF RunShape, ApiPcs, NoCommit, Kinds, WorkSet
  <1>15. ~dry => \A i \in past : ~commits[i].dry
    BY <1>0, <1>7, <1>9 DEF DryApart, Clean
  <1>16. ASSUME Cardinality(alive) = 1, NEW c \in IndexCrates
         PROVE  tree[c].state = db[c] \/ Job("sync", {c}) \in waiting
    <2>1. alive = {p}
      BY <1>16, FS_Singleton, FS_Subset, GitIndexAssumption DEF WorkTypes
    <2>2. clone[p] = remote[Master]
      BY <1>0, <1>16, <2>1 DEF FollowsInd
    <2>3. \/ old.tree[c].state = db[c]
          \/ Job("sync", {c}) \in waiting
          \/ work[p].job = Job("sync", {c}) /\ work[p].seen[c] = File(db[c])
      BY <1>4, <1>16, <2>1, <2>2 DEF FollowsInd, MasterFollows
    <2>4. \A d \in DOMAIN work[p].seen : work[p].seen[d] = File(db[d]) \/ Job("sync", {d}) \in waiting
      BY <1>16, <2>1 DEF FollowsInd
    <2>5. File(db[c]).state = db[c]
      BY DEF File, NoFile, Absent
    <2>6. CASE work[p].job.kind \in {"normalize", "dry"}
      <3>1. tree[c].state = old.tree[c].state
        BY <1>3, <1>4, <2>6 DEF Updated, Normalized, File, NoFile, Absent
      <3>2. work[p].job # Job("sync", {c})
        BY <2>6 DEF Job
      <3> QED
        BY <2>3, <3>1, <3>2
    <2>7. CASE work[p].job.kind \notin {"normalize", "dry"}
      <3>1. tree[c] = IF c \in DOMAIN work[p].seen THEN work[p].seen[c] ELSE old.tree[c]
        BY <1>3, <1>4, <2>7 DEF Updated
      <3>2. work[p].job = Job("sync", {c}) => c \in DOMAIN work[p].seen
        BY <1>0 DEF RunShape, Job
      <3> QED
        BY <2>3, <2>4, <2>5, <3>1, <3>2
    <2> QED
      BY <2>6, <2>7
  <1>17. work'[p].head \in Known(p)
    BY <1>11 DEF Known
  <1> QED
    BY <1>0, <1>6, <1>7, <1>8, <1>9, <1>10, <1>11, <1>12, <1>14, <1>15, <1>16, <1>17, CommitStep

\* squash_to_single_commit, and create_commit of SquashIndexViaApi: a commit without parents
\* that has the files of the head.
LEMMA SquashCommitSteps ==
  ASSUME GitInd, NEW p \in alive, SquashCommit(p) \/ ApiCommit(p)
  PROVE  GitInd'
  <1> USE DEF GitInd, GitTypes
  <1>0. /\ p \in Processes /\ work \in [Processes -> WorkSet] /\ RunShape(p)
        /\ clone \in [Processes -> 0..Len(commits)]
        /\ UNCHANGED <<db, edits, waiting, day, remote, archive, alive, archiver, overwritten>>
        /\ Len(commits) \in Nat /\ commits \in Seq(CommitSet)
        /\ remote[Master] \in 1..Len(commits) /\ day \in Nat
    <2>1. /\ p \in Processes /\ work \in [Processes -> WorkSet] /\ RunShape(p)
          /\ clone \in [Processes -> 0..Len(commits)]
      BY DEF WorkTypes, RunShapes, RefTypes
    <2>2. UNCHANGED <<db, edits, waiting, day, remote, archive, alive, archiver, overwritten>>
      BY DEF SquashCommit, ApiCommit
    <2>3. Len(commits) \in Nat /\ commits \in Seq(CommitSet) /\ day \in Nat
      BY LenProperties, GitIndexAssumption DEF DataTypes
    <2>4. remote[Master] \in 0..Len(commits) /\ remote[Master] # NoCommit
      BY DEF RefTypes, Branches
    <2> QED
      BY <2>1, <2>2, <2>3, <2>4 DEF NoCommit
  <1>1. PICK head \in 1..Len(commits) :
          /\ SquashCommit(p) => head = clone[p]
          /\ ApiCommit(p) => head = remote[Master]
    <2>1. CASE SquashCommit(p)
      <3>1. clone[p] \in 1..Len(commits) /\ work[p].pc = "locked"
        BY <1>0, <2>1 DEF SquashCommit, RunShape, NoCommit
      <3>2. ~ApiCommit(p)
        BY <3>1 DEF ApiCommit
      <3> QED
        BY <3>1, <3>2
    <2>2. CASE ~SquashCommit(p)
      BY <1>0, <2>2
    <2> QED
      BY <2>1, <2>2
  <1>2. head \in Nat /\ head # NoCommit
    BY <1>0 DEF NoCommit
  <1>3. PICK old \in CommitSet : old = commits[head]
    BY <1>0, <1>1, ElementOfSeq
  <1>4. PICK tree \in Trees : tree = Tree(head)
    BY <1>3 DEF Tree, CommitSet
  <1>5. PICK past \in SUBSET (1..Len(commits)) : past = {}
    OBVIOUS
  <1>6. PICK dry \in BOOLEAN : dry = FALSE
    OBVIOUS
  <1>7. /\ \A i \in past : commits[i].past \subseteq past
        /\ ~dry => \A i \in past : ~commits[i].dry
    BY <1>5
  <1>8. NewCommit(tree, past, dry)
    BY <1>1, <1>4, <1>5, <1>6 DEF SquashCommit, ApiCommit
  <1>9. Len(commits') = Len(commits) + 1
    BY <1>0, <1>8, <1>7, Grown
  <1>10. ASSUME Cardinality(alive) = 1, work[p].job.kind # "sync",
               work[p].pc = "locked" \/ head = remote[Master], NEW c \in IndexCrates
        PROVE  tree[c].state = db[c] \/ Job("sync", {c}) \in waiting
    <2>1. alive = {p}
      BY <1>10, FS_Singleton, FS_Subset, GitIndexAssumption DEF WorkTypes
    <2>2. work[p].pc = "locked" => clone[p] = remote[Master]
      BY <1>10, <2>1 DEF FollowsInd
    <2>3. head = remote[Master]
      BY <1>1, <1>10, <2>2 DEF ApiCommit, SquashCommit
    <2>4. work[p].job # Job("sync", {c})
      BY <1>10 DEF Job
    <2> QED
      BY <1>4, <1>10, <2>1, <2>3, <2>4 DEF FollowsInd, MasterFollows
  <1>11. CASE SquashCommit(p)
    <2>1. /\ work[p].pc = "locked" /\ work[p].job.kind = "squash" /\ head = clone[p]
          /\ work' = [work EXCEPT ![p].pc = "committed", ![p].head = head, ![p].day = day]
      BY <1>1, <1>11 DEF SquashCommit
    <2>2. /\ work' \in [Processes -> WorkSet]
          /\ work'[p].pc = "committed" /\ work'[p].head = head /\ work'[p].day = day
          /\ work'[p].job = work[p].job /\ work'[p].seen = work[p].seen
          /\ work'[p].new = work[p].new
          /\ \A q \in Processes \ {p} : work'[q] = work[q]
      <3>1. PICK w : w = [work[p] EXCEPT !.pc = "committed", !.head = head, !.day = day]
        OBVIOUS
      <3>2. /\ w \in WorkSet /\ w.pc = "committed" /\ w.head = head /\ w.day = day
            /\ w.job = work[p].job /\ w.seen = work[p].seen /\ w.new = work[p].new
        BY <1>0, <1>2, <3>1 DEF WorkSet, Pcs
      <3>3. work' = [work EXCEPT ![p] = w]
        BY <2>1, <3>1
      <3> QED
        BY <1>0, <3>2, <3>3
    <2>3. /\ clone' \in [Processes -> 0..Len(commits) + 1]
          /\ clone'[p] = Len(commits) + 1
          /\ \A q \in Processes \ {p} : clone'[q] = clone[q]
      BY <1>0, <1>11 DEF SquashCommit
    <2>4. RunShape(p)'
      BY <1>0, <1>2, <1>9, <2>1, <2>2, <2>3
         DEF RunShape, ApiPcs, NoCommit, Kinds, WorkSet, DataTypes
    <2>5. work'[p].head \in Known(p)
      BY <2>1, <2>2 DEF Known
    <2>6. \A c : work[p].job # Job("sync", {c})
      BY <2>1 DEF Job
    <2>7. dry <=> work[p].job.kind = "dry"
      BY <1>6, <2>1
    <2>8. work'[p].head \in 1..Len(commits) /\ tree = Tree(work'[p].head)
      BY <1>4, <2>2
    <2> QED
      BY <1>0, <1>4, <1>8, <1>10, <1>5, <1>7, <2>1, <2>2, <2>3, <2>4, <2>5, <2>6, <2>7, <2>8, CommitStep
  <1>12. CASE ApiCommit(p)
    <2>1. /\ work[p].pc = "taken" /\ work[p].job.kind = "api" /\ head = remote[Master]
          /\ work' = [work EXCEPT ![p].pc = "created", ![p].head = head, ![p].day = day,
                                  ![p].new = Len(commits) + 1]
          /\ clone' = clone
      BY <1>1, <1>12 DEF ApiCommit
    <2>2. /\ work' \in [Processes -> WorkSet]
          /\ work'[p].pc = "created" /\ work'[p].head = head /\ work'[p].day = day
          /\ work'[p].job = work[p].job /\ work'[p].seen = work[p].seen
          /\ work'[p].new = Len(commits) + 1
          /\ \A q \in Processes \ {p} : work'[q] = work[q]
      <3>1. PICK w : w = [work[p] EXCEPT !.pc = "created", !.head = head, !.day = day,
                                         !.new = Len(commits) + 1]
        OBVIOUS
      <3>4. Len(commits) + 1 \in Nat /\ work[p] \in WorkSet
        BY <1>0
      <3>2. /\ w \in WorkSet /\ w.pc = "created" /\ w.head = head /\ w.day = day
            /\ w.job = work[p].job /\ w.seen = work[p].seen /\ w.new = Len(commits) + 1
        BY <1>0, <1>2, <3>1, <3>4 DEF WorkSet, Pcs
      <3>3. work' = [work EXCEPT ![p] = w]
        BY <2>1, <3>1
      <3> QED
        BY <1>0, <3>2, <3>3
    <2>3. clone' \in [Processes -> 0..Len(commits) + 1]
      BY <1>0, <2>1
    <2>4. RunShape(p)'
      BY <1>0, <1>2, <1>9, <2>1, <2>2, <2>3
         DEF RunShape, ApiPcs, NoCommit, Kinds, WorkSet, DataTypes
    <2>6. \A c : work[p].job # Job("sync", {c})
      BY <2>1 DEF Job
    <2>7. dry <=> work[p].job.kind = "dry"
      BY <1>6, <2>1
    <2>8. work'[p].head \in 1..Len(commits) /\ tree = Tree(work'[p].head)
      BY <1>4, <2>2
    <2>9. \A q \in Processes \ {p} : work'[q] = work[q] /\ clone'[q] = clone[q]
      BY <2>1, <2>2
    <2>10. work'[p].head \in Known(p) \cup {remote[Master]}
      BY <2>1, <2>2
    <2>11. Cardinality(alive) = 1 =>
             \A c \in IndexCrates : tree[c].state = db[c] \/ Job("sync", {c}) \in waiting
      BY <1>10, <2>1
    <2>12. /\ past = {} \/ (work[p].pc = "locked" /\ past = Past(clone[p]))
           /\ work[p].pc \in {"taken", "locked"}
           /\ \/ work'[p].pc = "committed" /\ clone'[p] = Len(commits) + 1
              \/ work'[p].pc = "created" /\ work'[p].new = Len(commits) + 1
      BY <1>5, <2>1, <2>2
    <2>13. \/ work'[p].pc = "created"
           \/ work[p].job.kind = "squash"
           => work'[p].head \in 1..Len(commits) /\ tree = Tree(work'[p].head)
      BY <2>8
    <2>14. Cardinality(alive) = 1 =>
           /\ \A c \in IndexCrates : work[p].job = Job("sync", {c}) => work[p].pc = "locked"
           /\ ~dry => \A c \in IndexCrates :
                        tree[c].state = db[c] \/ Job("sync", {c}) \in waiting
      BY <2>6, <2>11
    <2>15. p \in alive /\ GitInd
      OBVIOUS
    <2> HIDE DEF GitInd, GitTypes
    <2> QED
      BY <1>0, <1>8, <1>7, <2>2, <2>3, <2>4, <2>7, <2>9, <2>10, <2>12, <2>13, <2>14, <2>15, CommitStep
  <1> QED
    BY <1>11, <1>12


-----------------------------------------------------------------------------
(* Steps that move a branch.                                               *)

\* A branch gets the commit that a run has made, or a snapshot branch the head it has read;
\* snapshot branches only move forward.
LEMMA BranchStep ==
  ASSUME GitInd, NEW p \in Processes, p \in alive,
         UNCHANGED <<db, edits, waiting, day, commits, archive, alive, clone, archiver>>,
         NEW pc \in {"pushed", "kept"}, Goes(p, pc),
         work[p].pc \in {"committed", "created", "checked"},
         pc = "kept" <=> work[p].pc = "created",
         remote' \in [Branches -> 0..Len(commits)],
         \A d \in 1..MaxDay : remote[Snapshot(d)] = NoCommit
                              \/ remote[Snapshot(d)] \in Past(remote'[Snapshot(d)]),
         \A b \in Branches :
           \/ remote'[b] = remote[b]
           \/ remote'[b] = work[p].head
           \/ pc = "pushed" /\ remote'[b] \in Loose(p),
         \/ remote'[Master] = remote[Master] /\ overwritten' = overwritten
            /\ (pc = "pushed" => work[p].job.kind = "dry")
         \/ remote'[Master] \in Loose(p) /\ pc = "pushed" /\ work[p].job.kind # "dry",
         overwritten' \subseteq overwritten \cup Past(remote[Master]),
         pc = "kept" => work[p].head \in Past(remote'[Snapshot(work[p].day)])
  PROVE  GitInd'
  <1> USE DEF GitInd, GitTypes
  <1>0. /\ Len(commits) \in Nat /\ work \in [Processes -> WorkSet]
        /\ commits \in Seq(CommitSet) /\ PastsClosed
        /\ remote \in [Branches -> 0..Len(commits)]
        /\ clone \in [Processes -> 0..Len(commits)]
    BY LenProperties DEF DataTypes, WorkTypes, RefTypes
  <1>1. remote[Master] \in 1..Len(commits)
    BY <1>0 DEF RefTypes, Branches, NoCommit
  <1>2. /\ work' \in [Processes -> WorkSet]
        /\ work'[p].pc = pc
        /\ work'[p].job = work[p].job /\ work'[p].seen = work[p].seen
        /\ work'[p].head = work[p].head /\ work'[p].new = work[p].new
        /\ work'[p].day = work[p].day /\ work'[p].checked = work[p].checked
        /\ \A q \in Processes \ {p} : work'[q] = work[q]
    BY <1>0, GoesFields DEF Pcs
  <1>3. \A q \in Processes : RunShape(q) /\ work[q].head \in Nat /\ work[q].new \in Nat
    BY <1>0 DEF RunShapes, WorkSet
  <1>4. \A q \in Processes : Loose(q) \subseteq 1..Len(commits)
    BY <1>0, LooseCommit
  <1>5. /\ Loose(p)' = IF pc = "kept" THEN Loose(p) ELSE {}
        /\ Known(p)' = {work[p].head} /\ Known(p) = {work[p].head}
        /\ \A q \in Processes \ {p} : Loose(q)' = Loose(q) /\ Known(q)' = Known(q)
    BY <1>2 DEF Loose, Known, ApiPcs
  <1>6. \A i : Past(i)' = Past(i) /\ Tree(i)' = Tree(i)
    BY DEF Past, Tree
  <1>7. \A u \in Loose(p) : u \notin overwritten /\ u \notin Past(remote[Master])
                            /\ \A q \in Processes : u \notin Past(work[q].head)
    <2> TAKE u \in Loose(p)
    <2>1. Fresh(p, u)
      BY DEF LooseFresh
    <2>2. u # remote[Master] /\ u \notin overwritten
      BY <2>1 DEF Fresh, Branches
    <2>3. u \notin Past(remote[Master])
      BY <1>1, <2>1, <2>2 DEF Fresh, Past
    <2>4. ASSUME NEW q \in Processes PROVE u \notin Past(work[q].head)
      <3>1. work[q].head \in 0..Len(commits)
        BY <1>0, <1>3 DEF RunShape
      <3>2. u # work[q].head
        BY <2>1 DEF Fresh, Known
      <3>3. work[q].head \in 1..Len(commits) \/ work[q].head = NoCommit
        BY <1>0, <3>1 DEF NoCommit
      <3> QED
        BY <2>1, <3>2, <3>3 DEF Fresh, Past
    <2> QED
      BY <2>2, <2>3, <2>4
  <1>8. DataTypes' /\ PastsClosed'
    BY DEF DataTypes, PastsClosed
  <1>9. WorkTypes'
    BY <1>2 DEF WorkTypes
  <1>10. remote'[Master] \in 1..Len(commits)
    BY <1>1, <1>4
  <1>11. RefTypes'
    <2>1. overwritten' \in SUBSET (1..Len(commits))
      BY <1>0, <1>1, PastOf DEF RefTypes
    <2>2. remote'[Master] # NoCommit
      BY <1>0, <1>10 DEF NoCommit
    <2> QED
      BY <1>0, <2>1, <2>2 DEF RefTypes
  <1>12. RunShapes'
    <2>1. RunShape(p)'
      BY <1>2, <1>3 DEF RunShape, ApiPcs
    <2>2. /\ Len(commits') \in Nat /\ Len(commits) <= Len(commits')
          /\ \A q \in Processes \ {p} : work'[q] = work[q] /\ clone'[q] = clone[q]
      BY <1>0, <1>2
    <2> QED
      BY <1>0, <2>1, <2>2, OtherShapes
  <1>13. DryApart'
    <2>1. ASSUME remote'[Master] \in Loose(p), pc = "pushed", work[p].job.kind # "dry"
          PROVE  \A j \in Past(remote'[Master]) : ~commits[j].dry
      BY <2>1 DEF DryApart, Clean, Loose, ApiPcs
    <2>2. \A j \in Past(remote'[Master]) : ~commits[j].dry
      BY <2>1 DEF DryApart, Clean
    <2>3. Clean(remote[Master])'
      BY <2>2 DEF Clean, Past
    <2>4. ASSUME NEW q \in Processes
          PROVE  /\ \/ work'[q].pc = "locked"
                    \/ work'[q].pc = "committed" /\ work'[q].job.kind # "dry"
                    => Clean(clone[q])'
                 /\ work'[q].pc \in ApiPcs => Clean(work[q].new)'
      <3>1. CASE q = p
        BY <1>2, <3>1 DEF DryApart, Clean, Past, ApiPcs
      <3>2. CASE q # p
        BY <1>2, <3>2 DEF DryApart, Clean, Past
      <3> QED
        BY <3>1, <3>2
    <2> QED
      BY <2>3, <2>4 DEF DryApart
  <1>14. \A d \in 1..MaxDay : Past(remote[Snapshot(d)]) \subseteq Past(remote'[Snapshot(d)])
    <2> TAKE d \in 1..MaxDay
    <2>1. remote[Snapshot(d)] \in 0..Len(commits) /\ remote'[Snapshot(d)] \in 0..Len(commits)
      BY <1>0 DEF Branches
    <2> QED
      BY <1>0, <2>1, PastGrows
  <1>15. ArchiveInd'
    <2>1. \A d \in 1..MaxDay : archive[d] \in Past(remote'[Snapshot(d)]) \cup {NoCommit}
      BY <1>14 DEF ArchiveInd, ArchiveFollows
    <2>2. archiver # NoArchiver => archiver.commit \in Past(remote'[Snapshot(archiver.day)])
      <3>1. archiver # NoArchiver => archiver.day \in 1..MaxDay
        BY GitIndexAssumption DEF RefTypes
      <3> QED
        BY <1>14, <3>1 DEF ArchiveInd
    <2>3. archiver # NoArchiver => archive[archiver.day] \in Past(archiver.commit) \cup {NoCommit}
      BY DEF ArchiveInd, ArchiveFollows
    <2> QED
      BY <2>1, <2>2, <2>3 DEF ArchiveInd, ArchiveFollows, Past
  <1>16. LooseFresh'
    <2> SUFFICES ASSUME NEW q \in Processes, NEW u \in Loose(q)' PROVE Fresh(q, u)'
      BY DEF LooseFresh
    <2>1. u \in Loose(q) /\ Fresh(q, u)
      BY <1>5 DEF LooseFresh
    <2>2. u # work[p].head /\ (pc = "pushed" => u \notin Loose(p))
      BY <1>5, <2>1 DEF Fresh, Known
    <2>3. \A b \in Branches : remote'[b] # u
      BY <2>1, <2>2 DEF Fresh
    <2>4. u \notin Past(remote[Master])
      BY <1>1, <2>1 DEF Fresh, Past, Branches
    <2>5. u \notin overwritten'
      BY <2>1, <2>4 DEF Fresh
    <2>6. /\ \A r \in Processes : u \notin Known(r)'
          /\ \A r \in Processes \ {q} : u \notin Loose(r)'
      BY <1>5, <2>1 DEF Fresh
    <2> QED
      BY <2>1, <2>3, <2>5, <2>6 DEF Fresh
  <1>17. HistoryInd'
    <2>1. remote'[Master] \notin overwritten'
      BY <1>7 DEF HistoryInd
    <2>2. \A q \in Processes : remote'[Master] = remote[Master] \/ remote'[Master] \notin Past(work[q].head)
      BY <1>7
    <2>3. ASSUME NEW q \in Processes
          PROVE  LET w == work'[q] IN
                 /\ w.pc = "committed" /\ w.job.kind = "squash" => Tree(clone[q]) = Tree(w.head)
                 /\ w.pc \in ApiPcs => Tree(w.new) = Tree(w.head)
                 /\ w.pc \in {"kept", "checked"} => w.head \in Past(remote'[Snapshot(w.day)])
                 /\ w.pc = "checked" =>
                      /\ w.checked = Past(w.head)
                      /\ remote'[Master] \in Past(w.head) => remote'[Master] = w.head
      <3>1. CASE q = p
        <4>1. pc = "kept" => Tree(work[p].new) = Tree(work[p].head)
          BY DEF HistoryInd, SquashRuns, ApiPcs
        <4> QED
          BY <1>2, <3>1, <4>1 DEF ApiPcs
      <3>2. CASE q # p
        <4>1. work'[q] = work[q]
          BY <1>2, <3>2
        <4>2. work[q].pc \in ApiPcs => work[q].day \in 1..MaxDay
          BY <1>3 DEF RunShape
        <4> QED
          BY <1>14, <2>2, <4>1, <4>2 DEF HistoryInd, SquashRuns, ApiPcs
      <3> QED
        BY <3>1, <3>2
    <2>4. SquashRuns'
      BY <2>3 DEF SquashRuns, Tree, Past
    <2> QED
      BY <2>1, <2>4 DEF HistoryInd
  <1>18. FollowsInd'
    <2> SUFFICES ASSUME Cardinality(alive) = 1 PROVE FollowsInd'
      BY DEF FollowsInd
    <2>1. alive = {p} /\ alive' = {p}
      BY FS_Singleton, FS_Subset, GitIndexAssumption DEF WorkTypes
    <2>2. ASSUME NEW c \in IndexCrates
          PROVE  \/ Tree(remote'[Master])[c].state = db[c]
                 \/ Job("sync", {c}) \in waiting
      <3>1. CASE remote'[Master] = remote[Master] /\ (pc = "pushed" => work[p].job.kind = "dry")
        <4>1. work[p].job.kind # "sync"
          BY <1>3, <3>1 DEF RunShape, ApiPcs
        <4>2. work[p].job # Job("sync", {c})
          BY <4>1 DEF Job
        <4> QED
          BY <2>1, <3>1, <4>2 DEF FollowsInd, MasterFollows
      <3>2. CASE remote'[Master] \in Loose(p) /\ work[p].job.kind # "dry"
        BY <2>1, <3>2 DEF FollowsInd, Loose, Right, ApiPcs
      <3> QED
        BY <3>1, <3>2
    <2>3. MasterFollows'
      BY <2>2 DEF MasterFollows, Tree
    <2>4. \A c \in IndexCrates : Right(remote[Master], c)'
      BY <2>2 DEF Right, Tree
    <2>5. \A c \in DOMAIN work'[p].seen :
            work'[p].seen[c] = File(db[c]) \/ Job("sync", {c}) \in waiting
      BY <1>2, <2>1 DEF FollowsInd
    <2>6. pc = "kept" => \A c \in IndexCrates : Right(work[p].new, c)'
      <3>1. pc = "kept" => \A c \in IndexCrates : Right(work[p].new, c)
        BY <2>1 DEF FollowsInd, ApiPcs
      <3> QED
        BY <1>2, <3>1 DEF Right, Tree
    <2>7. work'[p].pc \in ApiPcs => pc = "kept"
      BY <1>2 DEF ApiPcs
    <2>8. work'[p].pc \notin {"committed", "locked"}
      BY <1>2
    <2> QED
      BY <2>1, <2>3, <2>4, <2>5, <2>6, <2>7, <2>8 DEF FollowsInd
  <1> QED
    BY <1>8, <1>9, <1>11, <1>12, <1>13, <1>15, <1>16, <1>17, <1>18


\* Push, the atomic push of SquashIndex, create_ref and update_ref.
LEMMA PushSteps ==
  ASSUME GitInd, NEW p \in alive,
         Push(p) \/ SquashPush(p) \/ ApiSnapshot(p) \/ ApiUpdate(p)
  PROVE  GitInd'
  <1> USE DEF GitInd, GitTypes
  <1>0. /\ p \in Processes /\ work \in [Processes -> WorkSet] /\ RunShape(p)
        /\ clone \in [Processes -> 0..Len(commits)]
        /\ remote \in [Branches -> 0..Len(commits)]
        /\ Len(commits) \in Nat /\ commits \in Seq(CommitSet) /\ PastsClosed
        /\ work[p].head \in 0..Len(commits)
    <2>1. /\ p \in Processes /\ work \in [Processes -> WorkSet] /\ RunShape(p)
          /\ clone \in [Processes -> 0..Len(commits)]
          /\ remote \in [Branches -> 0..Len(commits)]
          /\ Len(commits) \in Nat /\ commits \in Seq(CommitSet)
      BY LenProperties DEF WorkTypes, RunShapes, RefTypes, DataTypes
    <2> QED
      BY <2>1 DEF RunShape, WorkSet
  <1>1. /\ Master \in Branches /\ DryRun \in Branches /\ Master # DryRun
        /\ \A d : Snapshot(d) # Master /\ Snapshot(d) # DryRun
        /\ \A d \in 1..MaxDay : Snapshot(d) \in Branches
        /\ \A d, e : Snapshot(d) = Snapshot(e) => d = e
    BY DEF Branches, Master, DryRun, Snapshot
  <1>2. \A b \in Branches : remote[b] = NoCommit \/ remote[b] \in Past(remote[b])
    <2> TAKE b \in Branches
    <2>1. remote[b] = NoCommit \/ remote[b] \in 1..Len(commits)
      BY <1>0 DEF NoCommit
    <2> QED
      BY <1>0, <2>1, PastOf
  <1>3. CASE Push(p)
    <2>1. /\ work[p].pc = "committed" /\ Goes(p, "pushed")
          /\ remote' = [remote EXCEPT ![Target(p)] = clone[p]]
          /\ UNCHANGED <<db, edits, waiting, day, commits, archive, alive, clone, archiver, overwritten>>
      BY <1>3 DEF Push
    <2>2. Target(p) = IF work[p].job.kind = "dry" THEN DryRun ELSE Master
      BY DEF Target
    <2>3. Loose(p) = {clone[p]}
      BY <2>1 DEF Loose
    <2>4. /\ remote' \in [Branches -> 0..Len(commits)]
          /\ \A b \in Branches : remote'[b] = IF b = Target(p) THEN clone[p] ELSE remote[b]
      BY <1>0, <1>1, <2>1, <2>2
    <2>5. \A d \in 1..MaxDay : remote'[Snapshot(d)] = remote[Snapshot(d)]
      BY <1>1, <2>2, <2>4
    <2>6. \/ remote'[Master] = remote[Master] /\ work[p].job.kind = "dry"
          \/ remote'[Master] \in Loose(p) /\ work[p].job.kind # "dry"
      BY <1>1, <2>2, <2>3, <2>4
    <2>7. PICK pc \in {"pushed", "kept"} : pc = "pushed"
      OBVIOUS
    <2>8. \A b \in Branches : remote'[b] = remote[b] \/ remote'[b] \in Loose(p)
      BY <2>3, <2>4
    <2>9. \A d \in 1..MaxDay : remote[Snapshot(d)] = NoCommit
                               \/ remote[Snapshot(d)] \in Past(remote'[Snapshot(d)])
      BY <1>1, <1>2, <2>5
    <2>10. /\ pc = "kept" <=> work[p].pc = "created"
           /\ pc = "kept" => work[p].head \in Past(remote'[Snapshot(work[p].day)])
      BY <2>1, <2>7
    <2> HIDE DEF GitInd, GitTypes
    <2> QED
      BY <1>0, <2>1, <2>4, <2>6, <2>7, <2>8, <2>9, <2>10, BranchStep
  <1>4. CASE SquashPush(p)
    <2>1. /\ work[p].pc = "committed" /\ work[p].job.kind = "squash" /\ Goes(p, "pushed")
          /\ Leased(p)
          /\ remote' = [remote EXCEPT ![Master] = clone[p], ![Snapshot(work[p].day)] = work[p].head]
          /\ UNCHANGED <<db, edits, waiting, day, commits, archive, alive, clone, archiver, overwritten>>
      BY <1>4 DEF SquashPush
    <2>2. work[p].day \in 1..MaxDay
      BY <1>0, <2>1 DEF RunShape
    <2>3. Loose(p) = {clone[p]}
      BY <2>1 DEF Loose
    <2>4. /\ remote' \in [Branches -> 0..Len(commits)]
          /\ remote'[Master] = clone[p]
          /\ remote'[Snapshot(work[p].day)] = work[p].head
          /\ \A b \in Branches \ {Master, Snapshot(work[p].day)} : remote'[b] = remote[b]
      BY <1>0, <1>1, <2>1, <2>2
    <2>5. \A d \in 1..MaxDay : remote[Snapshot(d)] = NoCommit
                               \/ remote[Snapshot(d)] \in Past(remote'[Snapshot(d)])
      <3> TAKE d \in 1..MaxDay
      <3>1. CASE d = work[p].day
        BY <2>1, <2>4, <3>1 DEF Leased, FastForward
      <3>2. CASE d # work[p].day
        <4>1. remote'[Snapshot(d)] = remote[Snapshot(d)]
          BY <1>1, <2>4, <3>2
        <4> QED
          BY <1>1, <1>2, <4>1
      <3> QED
        BY <3>1, <3>2
    <2>6. remote'[Master] \in Loose(p) /\ work[p].job.kind # "dry"
      BY <2>1, <2>3, <2>4
    <2>7. PICK pc \in {"pushed", "kept"} : pc = "pushed"
      OBVIOUS
    <2>8. \A b \in Branches :
            remote'[b] = remote[b] \/ remote'[b] = work[p].head \/ remote'[b] \in Loose(p)
      BY <2>3, <2>4
    <2>10. /\ pc = "kept" <=> work[p].pc = "created"
           /\ pc = "kept" => work[p].head \in Past(remote'[Snapshot(work[p].day)])
      BY <2>1, <2>7
    <2> HIDE DEF GitInd, GitTypes
    <2> QED
      BY <1>0, <2>1, <2>4, <2>5, <2>6, <2>7, <2>8, <2>10, BranchStep
  <1>5. CASE ApiSnapshot(p)
    <2>1. /\ work[p].pc = "created" /\ Goes(p, "kept")
          /\ remote[Snapshot(work[p].day)] = NoCommit
          /\ remote' = [remote EXCEPT ![Snapshot(work[p].day)] = work[p].head]
          /\ UNCHANGED <<db, edits, waiting, day, commits, archive, alive, clone, archiver, overwritten>>
      BY <1>5 DEF ApiSnapshot
    <2>2. work[p].day \in 1..MaxDay /\ work[p].head \in 1..Len(commits)
      BY <1>0, <2>1 DEF RunShape, ApiPcs, NoCommit
    <2>4. /\ remote' \in [Branches -> 0..Len(commits)]
          /\ remote'[Snapshot(work[p].day)] = work[p].head
          /\ \A b \in Branches \ {Snapshot(work[p].day)} : remote'[b] = remote[b]
      BY <1>0, <1>1, <2>1, <2>2
    <2>5. \A d \in 1..MaxDay : remote[Snapshot(d)] = NoCommit
                               \/ remote[Snapshot(d)] \in Past(remote'[Snapshot(d)])
      <3> TAKE d \in 1..MaxDay
      <3>1. CASE d = work[p].day
        BY <2>1, <3>1
      <3>2. CASE d # work[p].day
        <4>1. remote'[Snapshot(d)] = remote[Snapshot(d)]
          BY <1>1, <2>4, <3>2
        <4> QED
          BY <1>1, <1>2, <4>1
      <3> QED
        BY <3>1, <3>2
    <2>6. remote'[Master] = remote[Master]
      BY <1>1, <2>4
    <2>7. PICK pc \in {"pushed", "kept"} : pc = "kept"
      OBVIOUS
    <2>8. \A b \in Branches : remote'[b] = remote[b] \/ remote'[b] = work[p].head
      BY <2>4
    <2>9. work[p].head \in Past(remote'[Snapshot(work[p].day)])
      BY <1>0, <2>2, <2>4, PastOf
    <2>10. pc = "kept" <=> work[p].pc = "created"
      BY <2>1, <2>7
    <2> HIDE DEF GitInd, GitTypes
    <2> QED
      BY <1>0, <2>1, <2>4, <2>5, <2>6, <2>7, <2>8, <2>9, <2>10, BranchStep
  <1>6. CASE ApiUpdate(p)
    <2>1. /\ work[p].pc = "checked" /\ Goes(p, "pushed")
          /\ remote' = [remote EXCEPT ![Master] = work[p].new]
          /\ overwritten' = overwritten \cup (Past(remote[Master]) \ work[p].checked)
          /\ UNCHANGED <<db, edits, waiting, day, commits, archive, alive, clone, archiver>>
      BY <1>6 DEF ApiUpdate
    <2>2. Loose(p) = {work[p].new} /\ work[p].new \in 0..Len(commits) /\ work[p].job.kind # "dry"
      BY <1>0, <2>1 DEF Loose, ApiPcs, RunShape, WorkSet
    <2>4. /\ remote' \in [Branches -> 0..Len(commits)]
          /\ remote'[Master] = work[p].new
          /\ \A b \in Branches \ {Master} : remote'[b] = remote[b]
      BY <1>0, <1>1, <2>1, <2>2
    <2>5. \A d \in 1..MaxDay : remote[Snapshot(d)] = NoCommit
                               \/ remote[Snapshot(d)] \in Past(remote'[Snapshot(d)])
      <3> TAKE d \in 1..MaxDay
      <3>1. remote'[Snapshot(d)] = remote[Snapshot(d)]
        BY <1>1, <2>4
      <3> QED
        BY <1>1, <1>2, <3>1
    <2>6. remote'[Master] \in Loose(p)
      BY <2>2, <2>4
    <2>7. PICK pc \in {"pushed", "kept"} : pc = "pushed"
      OBVIOUS
    <2>8. \A b \in Branches : remote'[b] = remote[b] \/ remote'[b] \in Loose(p)
      BY <2>2, <2>4
    <2>10. /\ pc = "kept" <=> work[p].pc = "created"
           /\ pc = "kept" => work[p].head \in Past(remote'[Snapshot(work[p].day)])
      BY <2>1, <2>7
    <2>11. overwritten' \subseteq overwritten \cup Past(remote[Master])
      BY <2>1
    <2> HIDE DEF GitInd, GitTypes
    <2> QED
      BY <1>0, <2>1, <2>2, <2>4, <2>5, <2>6, <2>7, <2>8, <2>10, <2>11, BranchStep
  <1> QED
    BY <1>3, <1>4, <1>5, <1>6


-----------------------------------------------------------------------------
(* The theorems.                                                           *)

\* The jobs that are enqueued.
LEMMA JobTyped ==
  ASSUME NEW kind \in Kinds, NEW crates \in SUBSET IndexCrates
  PROVE  Job(kind, crates) \in JobSet /\ Job(kind, crates).kind # "none"
  <1>1. kind # "none" /\ kind \in Kinds \cup {"none", "archive"}
    BY DEF Kinds
  <1> QED
    BY <1>1 DEF Job, JobSet

\* Every step preserves the invariant.
LEMMA StepGit == GitInd /\ [GitNext]_gitVars => GitInd'
  <1> SUFFICES ASSUME GitInd, [GitNext]_gitVars PROVE GitInd'
    OBVIOUS
  <1>0. /\ db \in [IndexCrates -> Nat] /\ edits \in Nat /\ day \in 1..MaxDay
        /\ waiting \in SUBSET JobSet /\ \A j \in waiting : j.kind # "none"
        /\ alive \in SUBSET Processes
    BY DEF GitInd, GitTypes, DataTypes, WorkTypes
  <1>1. ASSUME NEW c \in IndexCrates, EditCrate(c) PROVE GitInd'
    <2>1. PICK s \in {Absent, edits + 1} : db' = [db EXCEPT ![c] = s]
      BY <1>1 DEF EditCrate
    <2>2. s \in Nat
      BY <1>0 DEF Absent
    <2>3. /\ db' \in [IndexCrates -> Nat]
          /\ \A d \in IndexCrates : d # c => db'[d] = db[d]
      BY <1>0, <2>1, <2>2
    <2>5. Job("sync", {c}) \in JobSet /\ Job("sync", {c}).kind # "none"
      BY JobTyped DEF Kinds
    <2>4. /\ waiting' = waiting \cup {Job("sync", {c})} /\ edits' = edits + 1
          /\ UNCHANGED <<day, commits, remote, archive, alive, clone, work, archiver, overwritten>>
      BY <1>1 DEF EditCrate, repoVars
    <2>6. \A d \in IndexCrates : db'[d] = db[d] \/ Job("sync", {d}) \in waiting'
      BY <2>3, <2>4
    <2>7. /\ waiting \subseteq waiting' /\ waiting' \in SUBSET JobSet
          /\ \A j \in waiting' : j.kind # "none"
      BY <1>0, <2>4, <2>5
    <2>8. edits' \in Nat /\ day' \in 1..MaxDay
      BY <1>0, <2>4
    <2> QED
      BY <2>3, <2>4, <2>6, <2>7, <2>8, QueueStep
  <1>2. ASSUME NEW jobs \in SUBSET JobSet, \A j \in jobs : j.kind # "none", Order(jobs)
        PROVE  GitInd'
    BY <1>0, <1>2, QueueStep DEF Order, repoVars
  <1>3. ASSUME NEW kind \in {"sync", "bulk"}, NEW crates \in Batches, SyncIndexTool(kind, crates)
        PROVE  GitInd'
    <2>1. crates \subseteq IndexCrates
      BY GitIndexAssumption
    <2>2. PICK jobs : jobs = IF kind = "bulk" THEN {Job("bulk", crates)}
                             ELSE {Job("sync", {c}) : c \in crates}
      OBVIOUS
    <2>3. jobs \in SUBSET JobSet /\ \A j \in jobs : j.kind # "none"
      BY <2>1, <2>2, JobTyped DEF Kinds
    <2>4. Order(jobs)
      BY <1>3, <2>2 DEF SyncIndexTool
    <2> QED
      BY <1>2, <2>3, <2>4
  <1>4. ASSUME NEW kind \in {"squash", "api", "normalize", "dry"}, EnqueueJob(kind)
        PROVE  GitInd'
    <2>1. PICK jobs : jobs = {Job(kind, {})}
      OBVIOUS
    <2>2. jobs \in SUBSET JobSet /\ \A j \in jobs : j.kind # "none"
      BY <2>1, JobTyped DEF Kinds
    <2>3. Order(jobs)
      BY <1>4, <2>1 DEF EnqueueJob
    <2> QED
      BY <1>2, <2>2, <2>3
  <1>5. CASE NextDay
    <2>1. /\ day' \in 1..MaxDay
          /\ UNCHANGED <<db, edits, waiting, commits, remote, archive, alive, clone, work, archiver,
                         overwritten>>
      BY <1>0, <1>5, GitIndexAssumption DEF NextDay, repoVars
    <2> QED
      BY <1>0, <2>1, QueueStep
  <1>6. CASE UNCHANGED gitVars
    BY <1>0, <1>6, QueueStep DEF gitVars, repoVars
  <1> QED
    BY <1>0, <1>1, <1>3, <1>4, <1>5, <1>6, TakeStep, LockIndexStep, ReadCrateStep, MakeCommitStep,
       EndSteps, SquashCommitSteps, PushSteps, ApiCheckStep, ArchiverSteps DEF GitNext

\* The git index: with one process of the background worker, a file of master shows its crate
\* as it is in the database or a job will see to it, whatever pushes are refused, runs fail and
\* squashes come between; no commit of a dry run gets to master; and the archive follows the
\* snapshot branches.
THEOREM GitIndexIsRight == GitSpec => []GitInv
  <1>1. GitInd => GitInv
    <2> SUFFICES ASSUME GitInd PROVE GitInv
      OBVIOUS
    <2> USE DEF GitInd, GitTypes
    <2>1. GitTypeOK
      BY DEF GitTypeOK, RefTypes, WorkTypes, RunShapes, RunShape
    <2>2. DryRunApart
      BY DEF DryRunApart, DryApart, Clean
    <2>3. MasterFollows
      BY DEF FollowsInd, MasterFollows
    <2>4. ArchiveFollows
      BY DEF ArchiveInd
    <2> QED
      BY <2>1, <2>2, <2>3, <2>4 DEF GitInv
  <1> QED
    BY InitGit, StepGit, <1>1, PTL DEF GitSpec

\* What HistoryKept says of a step.
StepKeepsHistory ==
  /\ Reachable \subseteq Reachable' \cup overwritten'
  /\ LET old == remote[Master] new == remote'[Master] IN
     old \notin commits'[new].past /\ overwritten' = overwritten
       => commits'[new].tree = Tree(old)

\* A step that moves no branch, whatever commits it makes.
LEMMA BranchesKept ==
  ASSUME GitInd, GitInd', remote' = remote, overwritten' = overwritten,
         \A i \in 1..Len(commits) : commits'[i] = commits[i]
  PROVE  StepKeepsHistory
  <1> USE DEF GitInd, GitTypes
  <1>1. /\ Len(commits) \in Nat /\ commits \in Seq(CommitSet)
        /\ remote \in [Branches -> 0..Len(commits)] /\ remote[Master] \in 1..Len(commits)
    BY LenProperties DEF DataTypes, RefTypes, Branches, NoCommit
  <1>2. ASSUME NEW b \in Branches PROVE Past(remote[b])' = Past(remote[b])
    <2>1. remote[b] = NoCommit \/ remote[b] \in 1..Len(commits)
      BY <1>1 DEF NoCommit
    <2> QED
      BY <2>1 DEF Past
  <1>3. Reachable = Reachable'
    BY <1>2 DEF Reachable
  <1>4. remote[Master] \in commits'[remote'[Master]].past
    BY <1>1 DEF PastsClosed
  <1> QED
    BY <1>3, <1>4 DEF StepKeepsHistory

\* A step that moves branches: what they led to stays reachable or is recorded.
LEMMA BranchesMoved ==
  ASSUME GitInd, UNCHANGED commits, remote' \in [Branches -> 0..Len(commits)],
         \A b \in Branches \ {Master} :
           remote[b] = NoCommit \/ remote[b] \in Past(remote'[b]),
         NEW b \in Branches, Past(remote[Master]) \subseteq Past(remote'[b]) \cup overwritten'
  PROVE  Reachable \subseteq Reachable' \cup overwritten'
  <1> USE DEF GitInd, GitTypes
  <1>1. /\ Len(commits) \in Nat /\ commits \in Seq(CommitSet) /\ PastsClosed
        /\ remote \in [Branches -> 0..Len(commits)]
    BY LenProperties DEF DataTypes, RefTypes
  <1>2. \A a \in Branches \ {Master} : Past(remote[a]) \subseteq Past(remote'[a])
    BY <1>1, PastGrows
  <1>3. \A a \in Branches : Past(remote'[a]) \subseteq Reachable'
    BY DEF Reachable, Past
  <1>4. \A a \in Branches : Past(remote[a]) \subseteq Reachable' \cup overwritten'
    BY <1>2, <1>3
  <1> QED
    BY <1>4 DEF Reachable


\* Push: master or the branch of dry runs moves to a commit on top of it.
LEMMA PushKeeps ==
  ASSUME GitInd, GitInd', NEW p \in alive, Push(p)
  PROVE  StepKeepsHistory
  <1> USE DEF GitInd, GitTypes
  <1>0. /\ p \in Processes /\ clone \in [Processes -> 0..Len(commits)]
        /\ remote \in [Branches -> 0..Len(commits)] /\ remote[Master] # NoCommit
        /\ commits' = commits /\ overwritten' = overwritten
        /\ Master \in Branches /\ DryRun \in Branches /\ Master # DryRun
    BY DEF WorkTypes, RefTypes, Push, Branches, Master, DryRun
  <1>1. Target(p) \in {Master, DryRun}
    BY DEF Target
  <1>2. /\ remote' \in [Branches -> 0..Len(commits)]
        /\ \A b \in Branches : remote'[b] = IF b = Target(p) THEN clone[p] ELSE remote[b]
    BY <1>0, <1>1 DEF Push
  <1>3. remote[Target(p)] = NoCommit \/ remote[Target(p)] \in Past(clone[p])
    BY DEF Push, FastForward
  <1>4. /\ Len(commits) \in Nat /\ commits \in Seq(CommitSet) /\ PastsClosed
    BY LenProperties DEF DataTypes
  <1>5. \A b \in Branches : remote[b] = NoCommit \/ remote[b] \in Past(remote'[b])
    <2> TAKE b \in Branches
    <2>1. CASE b = Target(p)
      BY <1>2, <1>3, <2>1
    <2>2. CASE b # Target(p)
      <3>1. remote[b] = NoCommit \/ remote[b] \in 1..Len(commits)
        BY <1>0, <1>4 DEF NoCommit
      <3> QED
        BY <1>2, <1>4, <2>2, <3>1, PastOf
    <2> QED
      BY <2>1, <2>2
  <1>6. Past(remote[Master]) \subseteq Past(remote'[Master])
    BY <1>0, <1>2, <1>4, <1>5, PastGrows
  <1>7. Reachable \subseteq Reachable' \cup overwritten'
    BY <1>0, <1>2, <1>5, <1>6, BranchesMoved
  <1>8. remote[Master] \in commits'[remote'[Master]].past
    <2>1. remote[Master] \in Past(remote'[Master])
      BY <1>0, <1>5
    <2> QED
      BY <1>0, <2>1 DEF Past
  <1> QED
    BY <1>7, <1>8 DEF StepKeepsHistory

\* SquashIndex: the lease has seen that master still is the head, which the snapshot branch
\* now leads to; the commit that replaces it has its files.
LEMMA SquashPushKeeps ==
  ASSUME GitInd, GitInd', NEW p \in alive, SquashPush(p)
  PROVE  StepKeepsHistory
  <1> USE DEF GitInd, GitTypes
  <1>0. /\ p \in Processes /\ clone \in [Processes -> 0..Len(commits)] /\ RunShape(p)
        /\ remote \in [Branches -> 0..Len(commits)]
        /\ Len(commits) \in Nat /\ commits \in Seq(CommitSet) /\ PastsClosed
    BY LenProperties DEF WorkTypes, RefTypes, RunShapes, DataTypes
  <1>1. /\ work[p].pc = "committed" /\ work[p].job.kind = "squash"
        /\ remote[Master] = work[p].head
        /\ FastForward(Snapshot(work[p].day), work[p].head)
        /\ remote' = [remote EXCEPT ![Master] = clone[p], ![Snapshot(work[p].day)] = work[p].head]
        /\ commits' = commits /\ overwritten' = overwritten
    BY DEF SquashPush, Leased
  <1>2. work[p].day \in 1..MaxDay
    BY <1>0, <1>1 DEF RunShape
  <1>3. PICK s \in Branches : s = Snapshot(work[p].day) /\ s # Master
    BY <1>2 DEF Branches, Master, Snapshot
  <1>4. Master \in Branches
    BY DEF Branches
  <1>5. /\ remote' \in [Branches -> 0..Len(commits)]
        /\ remote'[Master] = clone[p] /\ remote'[s] = remote[Master]
        /\ \A b \in Branches \ {Master, s} : remote'[b] = remote[b]
    BY <1>0, <1>1, <1>3, <1>4
  <1>6. \A b \in Branches \ {Master} : remote[b] = NoCommit \/ remote[b] \in Past(remote'[b])
    <2> TAKE b \in Branches \ {Master}
    <2>1. CASE b = s
      BY <1>1, <1>3, <1>5, <2>1 DEF FastForward
    <2>2. CASE b # s
      <3>1. remote[b] = NoCommit \/ remote[b] \in 1..Len(commits)
        BY <1>0 DEF NoCommit
      <3> QED
        BY <1>0, <1>5, <2>2, <3>1, PastOf
    <2> QED
      BY <2>1, <2>2
  <1>7. Past(remote[Master]) \subseteq Past(remote'[s]) \cup overwritten'
    BY <1>5
  <1>8. Reachable \subseteq Reachable' \cup overwritten'
    BY <1>1, <1>3, <1>5, <1>6, <1>7, BranchesMoved
  <1>9. commits'[remote'[Master]].tree = Tree(remote[Master])
    BY <1>0, <1>1, <1>5 DEF HistoryInd, SquashRuns, Tree
  <1> QED
    BY <1>8, <1>9 DEF StepKeepsHistory

\* create_ref of SquashIndexViaApi: a new branch.
LEMMA ApiSnapshotKeeps ==
  ASSUME GitInd, GitInd', NEW p \in alive, ApiSnapshot(p)
  PROVE  StepKeepsHistory
  <1> USE DEF GitInd, GitTypes
  <1>0. /\ p \in Processes /\ RunShape(p)
        /\ remote \in [Branches -> 0..Len(commits)] /\ remote[Master] # NoCommit
        /\ Len(commits) \in Nat /\ commits \in Seq(CommitSet) /\ PastsClosed
        /\ work[p].head \in 0..Len(commits)
    <2>1. p \in Processes /\ RunShape(p) /\ work[p].head \in Nat
      BY DEF WorkTypes, RunShapes, WorkSet
    <2> QED
      BY <2>1, LenProperties DEF RunShape, RefTypes, DataTypes
  <1>1. /\ work[p].pc = "created"
        /\ remote[Snapshot(work[p].day)] = NoCommit
        /\ remote' = [remote EXCEPT ![Snapshot(work[p].day)] = work[p].head]
        /\ commits' = commits /\ overwritten' = overwritten
    BY DEF ApiSnapshot
  <1>2. work[p].day \in 1..MaxDay
    BY <1>0, <1>1 DEF RunShape, ApiPcs
  <1>3. PICK s \in Branches : s = Snapshot(work[p].day) /\ s # Master
    BY <1>2 DEF Branches, Master, Snapshot
  <1>4. /\ remote' \in [Branches -> 0..Len(commits)]
        /\ \A b \in Branches \ {s} : remote'[b] = remote[b]
        /\ remote[s] = NoCommit
    BY <1>0, <1>1, <1>3
  <1>5. \A b \in Branches : remote[b] = NoCommit \/ remote[b] \in Past(remote'[b])
    <2> TAKE b \in Branches
    <2>1. remote[b] = NoCommit \/ remote[b] \in 1..Len(commits)
      BY <1>0 DEF NoCommit
    <2> QED
      BY <1>0, <1>4, <2>1, PastOf
  <1>6. Master \in Branches /\ remote'[Master] = remote[Master]
    BY <1>3, <1>4 DEF Branches
  <1>7. Reachable \subseteq Reachable' \cup overwritten'
    BY <1>1, <1>4, <1>5, <1>6, BranchesMoved
  <1>8. remote[Master] \in commits'[remote'[Master]].past
    <2>1. remote[Master] \in Past(remote'[Master])
      BY <1>0, <1>5, <1>6
    <2> QED
      BY <1>0, <1>1, <1>6, <2>1 DEF Past
  <1> QED
    BY <1>7, <1>8 DEF StepKeepsHistory

\* update_ref of SquashIndexViaApi, with force: what master led to and the drift check has
\* not seen is recorded; if it has seen everything then master still is the head that was
\* squashed.
LEMMA ApiUpdateKeeps ==
  ASSUME GitInd, GitInd', NEW p \in alive, ApiUpdate(p)
  PROVE  StepKeepsHistory
  <1> USE DEF GitInd, GitTypes
  <1>0. /\ p \in Processes /\ RunShape(p)
        /\ remote \in [Branches -> 0..Len(commits)]
        /\ Len(commits) \in Nat /\ commits \in Seq(CommitSet) /\ PastsClosed
        /\ work[p].head \in 1..Len(commits) /\ work[p].new \in 0..Len(commits)
        /\ remote[Master] \in 1..Len(commits)
    <2>1. p \in Processes /\ RunShape(p) /\ work[p].head \in Nat /\ work[p].new \in Nat
      BY DEF WorkTypes, RunShapes, WorkSet
    <2>2. work[p].pc = "checked"
      BY DEF ApiUpdate
    <2>3. Len(commits) \in Nat
      BY LenProperties DEF DataTypes
    <2>4. work[p].head \in 1..Len(commits) /\ work[p].new \in 0..Len(commits)
      BY <2>1, <2>2, <2>3 DEF RunShape, ApiPcs, NoCommit
    <2>5. remote \in [Branches -> 0..Len(commits)] /\ remote[Master] # NoCommit
      BY DEF RefTypes
    <2>6. remote[Master] \in 1..Len(commits)
      <3>1. Master \in Branches
        BY DEF Branches
      <3> QED
        BY <2>3, <2>5, <3>1 DEF NoCommit
    <2>7. commits \in Seq(CommitSet) /\ PastsClosed
      BY DEF DataTypes
    <2> QED
      BY <2>1, <2>3, <2>4, <2>5, <2>6, <2>7
  <1>1. /\ work[p].pc = "checked"
        /\ remote' = [remote EXCEPT ![Master] = work[p].new]
        /\ overwritten' = overwritten \cup (Past(remote[Master]) \ work[p].checked)
        /\ commits' = commits
    BY DEF ApiUpdate
  <1>2. /\ work[p].checked = Past(work[p].head)
        /\ remote[Master] \in Past(work[p].head) => remote[Master] = work[p].head
        /\ work[p].head \in Past(remote[Snapshot(work[p].day)])
        /\ Tree(work[p].new) = Tree(work[p].head)
    BY <1>0, <1>1 DEF HistoryInd, SquashRuns, ApiPcs
  <1>3. PICK s \in Branches : s = Snapshot(work[p].day) /\ s # Master
    <2>1. work[p].day \in 1..MaxDay
      BY <1>0, <1>1 DEF RunShape, ApiPcs
    <2> QED
      BY <2>1 DEF Branches, Master, Snapshot
  <1>4. /\ remote' \in [Branches -> 0..Len(commits)]
        /\ \A b \in Branches \ {Master} : remote'[b] = remote[b]
        /\ Master \in Branches /\ remote'[Master] = work[p].new
    BY <1>0, <1>1 DEF Branches
  <1>5. \A b \in Branches \ {Master} : remote[b] = NoCommit \/ remote[b] \in Past(remote'[b])
    <2> TAKE b \in Branches \ {Master}
    <2>1. remote[b] = NoCommit \/ remote[b] \in 1..Len(commits)
      BY <1>0 DEF NoCommit
    <2> QED
      BY <1>0, <1>4, <2>1, PastOf
  <1>6. Past(work[p].head) \subseteq Past(remote'[s])
    <2>1. Past(work[p].head) \subseteq Past(remote[s])
      BY <1>0, <1>2, <1>3, PastGrows
    <2> QED
      BY <1>3, <1>4, <2>1
  <1>7. Past(remote[Master]) \subseteq Past(remote'[s]) \cup overwritten'
    BY <1>1, <1>2, <1>6
  <1>8. Reachable \subseteq Reachable' \cup overwritten'
    BY <1>1, <1>3, <1>4, <1>5, <1>7, BranchesMoved
  <1>9. overwritten' = overwritten => remote[Master] = work[p].head
    <2>1. remote[Master] \in Past(remote[Master]) /\ remote[Master] \notin overwritten
      BY <1>0, PastOf DEF HistoryInd
    <2> QED
      BY <1>1, <1>2, <2>1
  <1>10. overwritten' = overwritten => commits'[remote'[Master]].tree = Tree(remote[Master])
    BY <1>1, <1>2, <1>4, <1>9 DEF Tree
  <1> QED
    BY <1>8, <1>10 DEF StepKeepsHistory

\* Every step keeps the history.
LEMMA EveryStepKeeps ==
  ASSUME GitInd, GitInd', [GitNext]_gitVars
  PROVE  StepKeepsHistory
  <1>0. commits \in Seq(CommitSet)
    BY DEF GitInd, GitTypes, DataTypes
  <1>1. ASSUME NEW tree, NEW past, NEW dry, NewCommit(tree, past, dry)
        PROVE  \A i \in 1..Len(commits) : commits'[i] = commits[i]
    <2>1. PICK x : commits' = Append(commits, x)
      BY <1>1 DEF NewCommit
    <2>2. commits \in Seq(CommitSet \cup {x})
      BY <1>0, SeqMonotonic
    <2> QED
      BY <2>1, <2>2, AppendProperties
  <1>2. ASSUME NEW p \in alive, MakeCommit(p) \/ SquashCommit(p) \/ ApiCommit(p)
        PROVE  StepKeepsHistory
    <2>1. remote' = remote /\ overwritten' = overwritten
      BY <1>2 DEF MakeCommit, SquashCommit, ApiCommit
    <2>2. \A i \in 1..Len(commits) : commits'[i] = commits[i]
      BY <1>1, <1>2 DEF MakeCommit, SquashCommit, ApiCommit
    <2> QED
      BY <2>1, <2>2, BranchesKept
  <1>3. ASSUME UNCHANGED <<commits, remote, overwritten>> PROVE StepKeepsHistory
    BY <1>3, BranchesKept
  <1>4. ASSUME NEW p \in alive,
               \/ \E j \in waiting : Take(p, j)
               \/ LockIndex(p)
               \/ \E c \in IndexCrates : ReadCrate(p, c)
               \/ NoChanges(p) \/ ApiCheck(p) \/ Finish(p) \/ RunRefused(p)
               \/ \E lost \in BOOLEAN : GitRunFails(p, lost)
        PROVE  StepKeepsHistory
    BY <1>3, <1>4
       DEF Take, LockIndex, ReadCrate, NoChanges, ApiCheck, Finish, RunRefused, GitRunFails, repoVars
  <1>5. ASSUME \/ \E c \in IndexCrates : EditCrate(c)
               \/ \E kind \in {"sync", "bulk"}, crates \in Batches : SyncIndexTool(kind, crates)
               \/ \E kind \in {"squash", "api", "normalize", "dry"} : EnqueueJob(kind)
               \/ NextDay
        PROVE  StepKeepsHistory
    BY <1>3, <1>5 DEF EditCrate, SyncIndexTool, EnqueueJob, Order, NextDay, repoVars
  <1>6. ASSUME \/ \E d \in 1..MaxDay : ArchiveClone(d)
               \/ ArchivePush
               \/ \E pushed \in BOOLEAN : ArchiveFails(pushed)
        PROVE  StepKeepsHistory
    BY <1>3, <1>6 DEF ArchiveClone, ArchivePush, ArchiveFails, repoVars
  <1>7. CASE UNCHANGED gitVars
    BY <1>3, <1>7 DEF gitVars, repoVars
  <1> QED
    BY <1>2, <1>4, <1>5, <1>6, <1>7, PushKeeps, SquashPushKeeps, ApiSnapshotKeeps, ApiUpdateKeeps
       DEF GitNext

\* SquashIndex and SquashIndexViaApi: no step makes a commit unreachable that a branch led to,
\* whatever fails between the requests of a squash and however many workers there are during a
\* release, except what the forced update through the API moves master away from; and a squash
\* changes the history of master and no file.
THEOREM HistoryIsKept == GitSpec => HistoryKept
  <1>1. GitInd /\ GitInd' /\ [GitNext]_gitVars => [StepKeepsHistory]_gitVars
    BY EveryStepKeeps
  <1>2. GitSpec => [][StepKeepsHistory]_gitVars
    BY InitGit, StepGit, <1>1, PTL DEF GitSpec
  <1> QED
    BY <1>2 DEF HistoryKept, StepKeepsHistory
=============================================================================
