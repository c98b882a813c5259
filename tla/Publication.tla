---------------------------- MODULE Publication -----------------------------
(***************************************************************************)
(* Names, dependencies and files of crates: publish, the deletion of a     *)
(* crate by its owner and by the admin tool, and the job that deletes the  *)
(* files of a name.                                                        *)
(*                                                                         *)
(* publish looks at deleted_crates and crates, then works in a transaction *)
(* that has the crate's row locked (it updates or creates it) and the rows *)
(* of the dependencies share-locked (their foreign key), and uploads the   *)
(* file before it commits.  A deletion takes its transaction in one step,  *)
(* when no lock is in its way.  Storage is not part of any transaction.    *)
(*                                                                         *)
(* Who may publish is left to Ownership and TrustedPublishing, and what    *)
(* makes a manifest valid to Manifest: here a publication may be refused.  *)
(***************************************************************************)
EXTENDS Integers, FiniteSets

CONSTANTS
  Names,        \* the spellings of crate names
  Canon,        \* canon_crate_name, on Names
  Reserved,     \* the names in reserved_crate_names
  Nums,         \* version numbers
  Publishers,   \* publish requests at work at a time
  Deleters,     \* delete requests at work at a time
  Admins,       \* admin tools at work at a time
  Workers,      \* workers of the default queue
  Day,          \* 24 hours, in ticks of the clock
  FreeAge,      \* 72 hours, in ticks of the clock
  AdminDelays,  \* the values of --availability-delay, in ticks
  DailyLimit,   \* new_version_rate_limit
  MaxNow,       \* bound: the clock
  MaxId,        \* bound: crates ever created
  MaxRows,      \* bound: storage jobs queued for one name
  MaxExcused    \* bound: names that have met a race, beyond which nothing happens

ASSUME PublicationAssumption ==
  /\ Canon \in [Names -> Names]
  /\ \A n \in Names : Canon[Canon[n]] = Canon[n]
  /\ Reserved \subseteq Names
  /\ IsFiniteSet(Nums)
  /\ Day \in Nat /\ FreeAge \in Nat /\ AdminDelays \subseteq Nat
  /\ DailyLimit \in Nat /\ MaxNow \in Nat /\ MaxId \in Nat /\ MaxRows \in Nat \ {0} /\ MaxExcused \in Nat

None == 0

VARIABLES
  pubClock,     \* the time
  crates,     \* the crates table
  versions,   \* the versions table, with the rows of dependencies of each version
  deleted,    \* the deleted_crates table
  nextId,     \* the next id of a crate
  files,      \* the crate files in storage
  queued,     \* per name: its DeleteCrateFromStorage jobs that wait
  publisher,  \* per publish request: its progress
  deleter,    \* per delete request: its progress
  admin,      \* per admin tool: its progress
  run,        \* per worker: the storage job it runs
  excused     \* history: the canonical names whose files have met a race

tables == <<crates, versions, deleted, nextId>>
vars == <<pubClock, tables, files, queued, publisher, deleter, admin, run, excused>>

Idle == [pc |-> "idle"]

NoCrate == [id |-> None, name |-> "", createdAt |-> 0]

NoRequest ==
  [pc |-> "idle", name |-> "", num |-> 0, user |-> TRUE, seen |-> {}, time |-> 0,
   crate |-> NoCrate, deps |-> {}]

Init ==
  /\ pubClock = 0
  /\ crates = {}
  /\ versions = {}
  /\ deleted = {}
  /\ nextId = 1
  /\ files = {}
  /\ queued = [n \in Names |-> 0]
  /\ publisher = [p \in Publishers |-> NoRequest]
  /\ deleter = [d \in Deleters |-> Idle]
  /\ admin = [a \in Admins |-> Idle]
  /\ run = [w \in Workers |-> Idle]
  /\ excused = {}

-----------------------------------------------------------------------------
(* Tables and storage.                                                     *)

\* Crate::by_name: the crate, if any, whose name differs from n in case, dashes and
\* underscores only
ByName(n) == {c \in crates : Canon[c.name] = Canon[n]}

\* crates::name.eq_any: the crate, if any, with exactly this name
ByExactName(n) == {c \in crates : c.name = n}

\* The rows of deleted_crates that reserve the name n.
Reservations(n) == {r \in deleted : Canon[r.name] = Canon[n] /\ r.availableAt > pubClock}

\* has_rev_dep
Dependents(id) == {v \in versions : id \in v.deps}

InTxn(p) == publisher[p].pc \in {"txn", "uploaded"}

\* No open transaction has the row of the crate locked, by an update of it or by
\* a foreign key to it.
Unlocked(id) ==
  \A p \in Publishers : InTxn(p) => id # publisher[p].crate.id /\ id \notin publisher[p].deps

\* The names with a storage job that waits or runs.
Pending ==
  {Canon[n] : n \in {m \in Names : queued[m] > 0}}
    \cup {Canon[run[w].name] : w \in {x \in Workers : run[x].pc = "listed"}}
    \cup {Canon[admin[a].name] : a \in {x \in Admins : admin[x].pc = "deleted"}}

\* crate_file_path, upload_crate_file: a put replaces what is there
Uploaded(p) ==
  {f \in files : f.name # publisher[p].name \/ f.num # publisher[p].num}
    \cup {[name |-> publisher[p].name, num |-> publisher[p].num, by |-> p]}

-----------------------------------------------------------------------------
(* publish                                                                 *)

\* The record of a request that has passed the checks before the transaction.  seen
\* keeps the rows of deleted_crates there were.
Checked(n, v, user) ==
  [pc |-> "checked", name |-> n, num |-> v, user |-> user, seen |-> deleted,
   time |-> pubClock, crate |-> NoCrate, deps |-> {}]

\* Mutant: names in deleted_crates are not looked up.
PublishCheck_unreserved(p, n, v, user) ==
  /\ publisher[p] = NoRequest
  /\ user \/ ByName(n) # {}
  /\ publisher' = [publisher EXCEPT ![p] = Checked(n, v, user)]
  /\ UNCHANGED <<pubClock, tables, files, queued, deleter, admin, run, excused>>

\* The request is read, and the name looked up in deleted_crates and crates.  A
\* trusted publication needs a crate that is there.
PublishCheck(p, n, v, user) ==
  /\ publisher[p] = NoRequest
  /\ Reservations(n) = {}
  /\ user \/ ByName(n) # {}
  /\ publisher' = [publisher EXCEPT ![p] = Checked(n, v, user)]
  /\ UNCHANGED <<pubClock, tables, files, queued, deleter, admin, run, excused>>

\* count_versions_published_today
PublishedToday(id, start) ==
  Cardinality({v \in versions : v.crate = id /\ v.createdAt > start - Day})

\* NewCrate::create, or NewCrate::update when the insert hits the unique index on
\* the canonical name.  A new row is dated by now(), the start of the transaction.  A
\* trusted publication (user is FALSE) only updates.
PersistCrate(n, user, start) ==
  IF ByName(n) # {} THEN ByName(n)
  ELSE IF user THEN {[id |-> nextId, name |-> n, createdAt |-> start]} ELSE {}

\* add_dependencies: the ids of the crates with exactly these names
DependencyIds(ns, c) == {d.id : d \in {x \in crates \cup {c} : x.name \in ns}}

\* The statements of the transaction up to the upload.  The row of the crate, or
\* the unique index, makes a publication of the same name wait, so that now() in
\* the transaction, the time it started at, may be long ago.
PublishTxn(p, ns, start) ==
  LET n == publisher[p].name IN
  /\ publisher[p].pc = "checked"
  /\ start >= publisher[p].time
  /\ n \notin {m \in Names : Canon[m] \in {Canon[r] : r \in Reserved}}
  /\ \A q \in Publishers \ {p} : InTxn(q) => Canon[publisher[q].name] # Canon[n]
  /\ \E c \in PersistCrate(n, publisher[p].user, start) :
       /\ c.name = n
       /\ PublishedToday(c.id, start) < DailyLimit
       /\ \A v \in versions : v.crate = c.id => v.num # publisher[p].num
       /\ \A m \in ns : \E x \in crates \cup {c} : x.name = m
       /\ nextId' = IF c.id = nextId THEN nextId + 1 ELSE nextId
       /\ c.id <= MaxId
       /\ publisher' = [publisher EXCEPT ![p] =
            [pc |-> "txn", name |-> n, num |-> @.num, user |-> @.user, seen |-> @.seen,
             time |-> start, crate |-> c, deps |-> DependencyIds(ns, c)]]
  /\ UNCHANGED <<pubClock, crates, versions, deleted, files, queued, deleter, admin, run, excused>>

\* The request is refused: by the checks before the transaction or in it, or by an
\* error before the upload.
PublishRefused(p) ==
  /\ publisher[p].pc \in {"checked", "txn"}
  /\ publisher' = [publisher EXCEPT ![p] = NoRequest]
  /\ UNCHANGED <<pubClock, tables, files, queued, deleter, admin, run, excused>>

\* Mutant: an error of the upload is only logged.
Upload_logged(p) ==
  LET r == publisher[p] IN
  /\ r.pc = "txn"
  /\ files' \in {files, Uploaded(p)}
  /\ publisher' = [publisher EXCEPT ![p].pc = "uploaded"]
  /\ UNCHANGED <<pubClock, tables, queued, deleter, admin, run, excused>>

\* storage.upload_crate_file.  A storage job for the name may be left: it has
\* outlived the reservation of the name, or the name was deleted after this request
\* had looked it up.  Both are excused.
Upload(p) ==
  LET r == publisher[p] IN
  /\ r.pc = "txn"
  /\ files' = Uploaded(p)
  /\ publisher' = [publisher EXCEPT ![p].pc = "uploaded"]
  /\ excused' = IF Canon[r.name] \in Pending /\ Reservations(r.name) \cap r.seen = {}
                THEN excused \cup {Canon[r.name]} ELSE excused
  /\ UNCHANGED <<pubClock, tables, queued, deleter, admin, run>>

\* The transaction commits.
PublishCommit(p) ==
  LET r == publisher[p] IN
  /\ r.pc = "uploaded"
  /\ crates' = crates \cup {r.crate}
  /\ versions' = versions \cup {[crate |-> r.crate.id, num |-> r.num, by |-> p,
                                 createdAt |-> r.time, deps |-> r.deps]}
  /\ publisher' = [publisher EXCEPT ![p] = NoRequest]
  /\ UNCHANGED <<pubClock, deleted, nextId, files, queued, deleter, admin, run, excused>>

\* An error after the upload, or a failed commit: the file stays.
PublishRollback(p) ==
  /\ publisher[p].pc = "uploaded"
  /\ publisher' = [publisher EXCEPT ![p] = NoRequest]
  /\ UNCHANGED <<pubClock, tables, files, queued, deleter, admin, run, excused>>

\* The connection of an open transaction is lost: the database rolls it back at
\* once, while the handler is still at its upload.
PublishCut(p) ==
  /\ publisher[p].pc = "txn"
  /\ publisher' = [publisher EXCEPT ![p].pc = "cut"]
  /\ UNCHANGED <<pubClock, tables, files, queued, deleter, admin, run, excused>>

\* The upload of a handler whose transaction is gone; its next statement fails.
UploadCut(p) ==
  /\ publisher[p].pc = "cut"
  /\ files' = Uploaded(p)
  /\ publisher' = [publisher EXCEPT ![p] = NoRequest]
  /\ excused' = excused \cup {Canon[publisher[p].name]}
  /\ UNCHANGED <<pubClock, tables, queued, deleter, admin, run>>

-----------------------------------------------------------------------------
(* Deletions                                                               *)

\* DELETE FROM crates, with the rows that refer to the crate: its versions, and the
\* dependencies of others on it
DeleteRows(id) ==
  /\ crates' = {c \in crates : c.id # id}
  /\ versions' = {[v EXCEPT !.deps = @ \ {id}] : v \in {w \in versions : w.crate # id}}

\* DeleteCrateFromStorage::enqueue (deduplicated: a waiting job suffices).  A job for
\* a name whose crate the caller has not just deleted is an excused race.
EnqueueStorage(n, found) ==
  /\ queued' = [queued EXCEPT ![n] = IF @ = 0 THEN 1 ELSE @]
  /\ excused' = IF found THEN excused ELSE excused \cup {Canon[n]}

\* delete_crate: the crate is loaded by the name in the path, and everything that
\* forbids its deletion is checked.
DeleteCheck(d, n, owners, popular) ==
  /\ deleter[d] = Idle
  /\ \E c \in ByName(n) :
       /\ pubClock - c.createdAt > FreeAge => owners = 1 /\ ~popular
       /\ Dependents(c.id) = {}
       /\ deleter' = [deleter EXCEPT ![d] = [pc |-> "checked", crate |-> c, path |-> n]]
  /\ UNCHANGED <<pubClock, tables, files, queued, publisher, admin, run, excused>>

\* The transaction of delete_crate.  Deleting a row that is gone is no error.
DeleteCommit(d) ==
  LET c == deleter[d].crate IN
  /\ deleter[d].pc = "checked"
  /\ Unlocked(c.id)
  /\ DeleteRows(c.id)
  /\ deleted' = deleted \cup {[name |-> c.name, availableAt |-> pubClock + Day]}
  /\ EnqueueStorage(deleter[d].path, c \in crates)
  /\ deleter' = [deleter EXCEPT ![d] = Idle]
  /\ UNCHANGED <<pubClock, nextId, files, publisher, admin, run>>

\* The request is lost, or its transaction is rolled back.
DeleteFail(d) ==
  /\ deleter[d].pc = "checked"
  /\ deleter' = [deleter EXCEPT ![d] = Idle]
  /\ UNCHANGED <<pubClock, tables, files, queued, publisher, admin, run, excused>>

\* crates-admin delete-crate: the crate is looked up, then an operator is asked.
AdminLookup(a, n) ==
  /\ admin[a] = Idle
  /\ admin' = [admin EXCEPT ![a] =
       [pc |-> "asking", name |-> n, crates |-> ByExactName(n), time |-> pubClock]]
  /\ UNCHANGED <<pubClock, tables, files, queued, publisher, deleter, run, excused>>

\* delete_from_database.  The end of the reservation was computed from the time of the
\* operator's answer, before any of the deletions of the command.
AdminDelete(a, delay, start) ==
  LET c == CHOOSE x \in admin[a].crates : TRUE IN
  /\ admin[a].pc = "asking"
  /\ start >= admin[a].time
  /\ admin[a].crates # {}
  /\ Unlocked(c.id)
  /\ DeleteRows(c.id)
  /\ deleted' = deleted \cup {[name |-> c.name, availableAt |-> start + delay]}
  /\ admin' = [admin EXCEPT ![a] = [pc |-> "deleted", name |-> c.name, found |-> c \in crates]]
  /\ UNCHANGED <<pubClock, nextId, files, queued, publisher, deleter, run, excused>>

\* The crate was not found, or its deletion failed with a warning.
AdminSkip(a) ==
  /\ admin[a].pc = "asking"
  /\ admin' = [admin EXCEPT ![a] = [pc |-> "deleted", name |-> @.name, found |-> FALSE]]
  /\ UNCHANGED <<pubClock, tables, files, queued, publisher, deleter, run, excused>>

\* The jobs are enqueued, each in a transaction of its own, whatever became of the
\* deletion.
AdminEnqueue(a) ==
  /\ admin[a].pc = "deleted"
  /\ EnqueueStorage(admin[a].name, admin[a].found)
  /\ admin' = [admin EXCEPT ![a] = Idle]
  /\ UNCHANGED <<pubClock, tables, files, publisher, deleter, run>>

\* The tool is stopped, by the operator's answer or by an error.
AdminStop(a) ==
  /\ admin[a].pc \in {"asking", "deleted"}
  /\ admin' = [admin EXCEPT ![a] = Idle]
  /\ UNCHANGED <<pubClock, tables, files, queued, publisher, deleter, run, excused>>

-----------------------------------------------------------------------------
(* DeleteCrateFromStorage                                                  *)

\* A run starts and lists the files of the name.
StorageList(w, n) ==
  /\ run[w] = Idle
  /\ queued[n] > 0
  /\ queued' = [queued EXCEPT ![n] = @ - 1]
  /\ run' = [run EXCEPT ![w] =
       [pc |-> "listed", name |-> n, files |-> {f \in files : f.name = n}]]
  /\ UNCHANGED <<pubClock, tables, files, publisher, deleter, admin, excused>>

Keys(fs) == {<<f.name, f.num>> : f \in fs}

\* delete_all_with_prefix: what is under the listed paths is deleted, and the run
\* returns Ok.
StorageDelete(w) ==
  /\ run[w].pc = "listed"
  /\ files' = {f \in files : <<f.name, f.num>> \notin Keys(run[w].files)}
  /\ run' = [run EXCEPT ![w] = Idle]
  /\ UNCHANGED <<pubClock, tables, queued, publisher, deleter, admin, excused>>

\* The run fails, or its worker is lost, with part of the files deleted; the job is
\* there for another run.
StorageFail(w) ==
  /\ run[w].pc = "listed"
  /\ queued[run[w].name] < MaxRows
  /\ \E part \in SUBSET Keys(run[w].files) :
       files' = {f \in files : <<f.name, f.num>> \notin part}
  /\ queued' = [queued EXCEPT ![run[w].name] = @ + 1]
  /\ run' = [run EXCEPT ![w] = Idle]
  /\ UNCHANGED <<pubClock, tables, publisher, deleter, admin, excused>>

-----------------------------------------------------------------------------
PassTime ==
  /\ pubClock < MaxNow
  /\ pubClock' = pubClock + 1
  /\ UNCHANGED <<tables, files, queued, publisher, deleter, admin, run, excused>>

PublishNext(p) ==
  \/ \E n \in Names, v \in Nums, user \in BOOLEAN : PublishCheck(p, n, v, user)
  \/ \E ns \in SUBSET Names, start \in 0..pubClock : PublishTxn(p, ns, start)
  \/ PublishRefused(p)
  \/ Upload(p)
  \/ PublishCommit(p)
  \/ PublishRollback(p)
  \/ PublishCut(p)
  \/ UploadCut(p)

DeleteNext(d) ==
  \/ \E n \in Names, owners \in 1..2, popular \in BOOLEAN : DeleteCheck(d, n, owners, popular)
  \/ DeleteCommit(d)
  \/ DeleteFail(d)

AdminNext(a) ==
  \/ \E n \in Names : AdminLookup(a, n)
  \/ \E delay \in AdminDelays, start \in 0..pubClock : AdminDelete(a, delay, start)
  \/ AdminSkip(a)
  \/ AdminEnqueue(a)
  \/ AdminStop(a)

StorageNext(w) ==
  \/ \E n \in Names : StorageList(w, n)
  \/ StorageDelete(w)
  \/ StorageFail(w)

Next ==
  /\ Cardinality(excused) <= MaxExcused
  /\ \/ \E p \in Publishers : PublishNext(p)
     \/ \E d \in Deleters : DeleteNext(d)
     \/ \E a \in Admins : AdminNext(a)
     \/ \E w \in Workers : StorageNext(w)
     \/ PassTime

Spec == Init /\ [][Next]_vars

-----------------------------------------------------------------------------
(* Properties.                                                             *)

Request ==
  [pc : {"idle", "checked", "txn", "uploaded", "cut"}, name : Names \cup {""},
   num : Nums \cup {0}, user : BOOLEAN, seen : SUBSET deleted, time : 0..pubClock,
   crate : [id : 0..nextId, name : Names \cup {""}, createdAt : 0..pubClock],
   deps : SUBSET (1..nextId)]

\* Rows refer to crates that there are, requests to rows there have been.
TypeOK ==
  /\ pubClock \in 0..MaxNow
  /\ crates \subseteq [id : 1..MaxId, name : Names, createdAt : 0..pubClock]
  /\ \A v \in versions : \E c \in crates : c.id = v.crate
  /\ \A v \in versions : v.deps \subseteq {c.id : c \in crates}
  /\ deleted \subseteq [name : Names, availableAt : Nat]
  /\ publisher \in [Publishers -> Request]
  /\ queued \in [Names -> 0..MaxRows]
  /\ excused \subseteq Names

\* The file of every version is in storage, and it is the one its checksum was
\* computed from - unless the name has met one of the races: a job that deletes
\* files was left from an earlier crate of the name, was enqueued for a crate
\* that had been deleted before, or a handler uploaded without its transaction.
FilesComplete ==
  \A v \in versions : \A c \in crates : c.id = v.crate /\ Canon[c.name] \notin excused =>
    [name |-> c.name, num |-> v.num, by |-> v.by] \in files

\* No crate is created under a name that deleted_crates reserves, except by a
\* request that had looked the name up before that deletion.
NameNotReused ==
  [][\A c \in crates' \ crates : \A r \in Reservations(c.name) :
       \E p \in Publishers : publisher[p].crate = c /\ r \notin publisher[p].seen]_vars

\* Whatever publications wait for each other, no crate gets more than DailyLimit
\* versions in any 24 hours.
DailyLimitKept ==
  \A c \in crates : \A t \in 0..MaxNow :
    Cardinality({v \in versions : v.crate = c.id /\ v.createdAt \in (t - Day + 1)..t})
      <= DailyLimit

\* What publish, delete_crate, the operator's tool and DeleteCrateFromStorage keep true
\* together: every version has its file, and no crate has more new versions in a day
\* than its limit.
PublicationInv == TypeOK /\ FilesComplete /\ DailyLimitKept
=============================================================================
