-------------------------- MODULE PublicationProofs --------------------------
(***************************************************************************)
(* Proofs about Publication, for any names, requests, tools and workers:   *)
(* a reserved name is not given away, a version keeps its file, and a      *)
(* crate stays within its daily limit.  And about the rate limiter that a  *)
(* publication passes: for every rate, burst, set of overrides and number  *)
(* of concurrent requests, the token bucket admits no more of them than    *)
(* its burst and the time that has passed allow, and it honours the retry  *)
(* time it tells.                                                          *)
(***************************************************************************)
EXTENDS Publication, RateLimiter, FiniteSetTheorems, TLAPS

Rows == [id : 1..MaxId, name : Names, createdAt : Nat]

VersionRows == [crate : Nat, num : Nums, by : Publishers, createdAt : Nat, deps : SUBSET Nat]

Files == [name : Names, num : Nums, by : Publishers]

DeleterRecords == {Idle} \cup [pc : {"checked"}, crate : Rows, path : Names]

AdminRecords ==
  {Idle} \cup [pc : {"asking"}, name : Names, crates : SUBSET Rows, time : Nat]
         \cup [pc : {"deleted"}, name : Names, found : BOOLEAN]

RunRecords == {Idle} \cup [pc : {"listed"}, name : Names, files : SUBSET Files]

TablesTyped ==
  /\ pubClock \in 0..MaxNow
  /\ nextId \in Nat \ {0}
  /\ crates \subseteq Rows
  /\ \A c \in crates : c.createdAt <= pubClock
  /\ versions \subseteq VersionRows
  /\ \A v \in versions : \E c \in crates : c.id = v.crate
  /\ \A v \in versions : \A i \in v.deps : \E c \in crates : c.id = i
  /\ deleted \subseteq [name : Names, availableAt : Nat]

RequestsTyped ==
  /\ publisher \in [Publishers -> Request]
  /\ \A p \in Publishers : publisher[p].pc # "idle" => publisher[p].name \in Names /\ publisher[p].num \in Nums
  /\ \A p \in Publishers : InTxn(p) => publisher[p].crate \in Rows

\* A deletion ends in a job for the name of its crate, and a job has listed files of its
\* name.
JobsTyped ==
  /\ files \subseteq Files
  /\ queued \in [Names -> 0..MaxRows]
  /\ excused \subseteq Names
  /\ deleter \in [Deleters -> DeleterRecords]
  /\ admin \in [Admins -> AdminRecords]
  /\ run \in [Workers -> RunRecords]
  /\ \A d \in Deleters : deleter[d].pc = "checked" => Canon[deleter[d].path] = Canon[deleter[d].crate.name]
  /\ \A a \in Admins : admin[a].pc = "asking" => \A c \in admin[a].crates : c.name = admin[a].name
  /\ \A w \in Workers : run[w].pc = "listed" => \A f \in run[w].files : f.name = run[w].name

PubTyped == TablesTyped /\ RequestsTyped /\ JobsTyped

\* Nobody else writes to the crate of an open transaction: it has the one row of its
\* name, or will create it.
TxnsApart ==
  /\ \A c, d \in crates : Canon[c.name] = Canon[d.name] \/ c.id = d.id => c = d
  /\ \A c \in crates : c.id < nextId
  /\ \A p \in Publishers : InTxn(p) =>
       /\ publisher[p].crate.name = publisher[p].name
       /\ publisher[p].crate.id < nextId
       /\ \A c \in crates :
            Canon[c.name] = Canon[publisher[p].name] \/ c.id = publisher[p].crate.id
              => c = publisher[p].crate
       /\ \A v \in versions : v.crate = publisher[p].crate.id => v.num # publisher[p].num
       /\ \A i \in publisher[p].deps : i = publisher[p].crate.id \/ \E c \in crates : c.id = i
  /\ \A p, q \in Publishers : InTxn(p) /\ InTxn(q) /\ p # q =>
       /\ Canon[publisher[p].name] # Canon[publisher[q].name]
       /\ publisher[p].crate.id # publisher[q].crate.id

\* What a request saw of deleted_crates has not reserved its name since.
SeenExpired ==
  \A p \in Publishers : publisher[p].pc \in {"checked", "txn", "uploaded"} =>
    \A r \in publisher[p].seen :
      Canon[r.name] = Canon[publisher[p].name] => r.availableAt <= pubClock

\* The names with a storage job of a crate that was there when it was deleted.
Marked(k) ==
  \/ \E n \in Names : queued[n] > 0 /\ k = Canon[n]
  \/ \E w \in Workers : run[w].pc = "listed" /\ k = Canon[run[w].name]
  \/ \E a \in Admins : admin[a].pc = "deleted" /\ admin[a].found /\ k = Canon[admin[a].name]

\* Without a race, a name with such a job has no version and no upload, and what was
\* uploaded is there.
MarkedEmpty ==
  /\ \A c \in crates : \A v \in versions :
       v.crate = c.id /\ Canon[c.name] \notin excused => ~Marked(Canon[c.name])
  /\ \A p \in Publishers :
       publisher[p].pc = "uploaded" /\ Canon[publisher[p].name] \notin excused =>
         /\ ~Marked(Canon[publisher[p].name])
         /\ [name |-> publisher[p].name, num |-> publisher[p].num, by |-> p] \in files

\* An open transaction has room for one more version.
RoomLeft ==
  /\ IsFiniteSet(versions)
  /\ \A p \in Publishers : InTxn(p) =>
       PublishedToday(publisher[p].crate.id, publisher[p].time) < DailyLimit

-----------------------------------------------------------------------------
(* The types.                                                              *)

\* What is deleted, and how far ids and the clock have come, only grows.
Grows == deleted \subseteq deleted' /\ nextId' \in Nat /\ nextId' >= nextId /\ pubClock' \in Nat /\ pubClock' >= pubClock

LEMMA RequestsStay ==
  ASSUME TablesTyped, Grows, NEW r \in Request
  PROVE  r \in Request'
<1>1. /\ nextId \in Nat /\ nextId' \in Nat /\ nextId <= nextId'
      /\ pubClock \in Nat /\ pubClock' \in Nat /\ pubClock <= pubClock'
      /\ deleted \subseteq deleted'
  BY PublicationAssumption DEF TablesTyped, Grows
<1>2. /\ 0..nextId \subseteq 0..nextId' /\ 0..pubClock \subseteq 0..pubClock'
      /\ SUBSET (1..nextId) \subseteq SUBSET (1..nextId') /\ SUBSET deleted \subseteq SUBSET deleted'
  BY <1>1
<1> QED
  BY <1>2 DEF Request

\* A request that moves on, and is otherwise what it was.
Moves(p, x) ==
  /\ publisher'[p] = [pc |-> x, name |-> publisher[p].name, num |-> publisher[p].num,
                      user |-> publisher[p].user, seen |-> publisher[p].seen,
                      time |-> publisher[p].time, crate |-> publisher[p].crate,
                      deps |-> publisher[p].deps]
  /\ \A q \in Publishers \ {p} : publisher'[q] = publisher[q]
  /\ publisher' = [q \in Publishers |-> publisher'[q]]

LEMMA UploadMoves ==
  ASSUME RequestsTyped, NEW p \in Publishers, publisher' = [publisher EXCEPT ![p].pc = "uploaded"]
  PROVE  Moves(p, "uploaded")
<1>1. publisher \in [Publishers -> Request]
  BY DEF RequestsTyped
<1> QED
  BY <1>1 DEF Moves, Request

LEMMA CutMoves ==
  ASSUME RequestsTyped, NEW p \in Publishers, publisher' = [publisher EXCEPT ![p].pc = "cut"]
  PROVE  Moves(p, "cut")
<1>1. publisher \in [Publishers -> Request]
  BY DEF RequestsTyped
<1> QED
  BY <1>1 DEF Moves, Request

LEMMA NoRequestTyped ==
  ASSUME TablesTyped
  PROVE  NoRequest \in Request
<1>1. pubClock \in Nat /\ nextId \in Nat
  BY PublicationAssumption DEF TablesTyped
<1> QED
  BY <1>1 DEF NoRequest, NoCrate, None, Request

\* What a step does to publisher[p] alone.
LEMMA OneRequest ==
  ASSUME RequestsTyped, NEW p \in Publishers, NEW r, publisher' = [publisher EXCEPT ![p] = r]
  PROVE  /\ publisher'[p] = r
         /\ \A q \in Publishers \ {p} : publisher'[q] = publisher[q]
         /\ publisher' = [q \in Publishers |-> publisher'[q]]
<1>1. publisher \in [Publishers -> Request]
  BY DEF RequestsTyped
<1> QED
  BY <1>1

LEMMA PubTypedInit == Init => PubTyped
<1> SUFFICES ASSUME Init PROVE PubTyped
  OBVIOUS
<1>1. TablesTyped
  <2>1. pubClock \in 0..MaxNow
    BY PublicationAssumption DEF Init
  <2>2. crates = {} /\ versions = {} /\ deleted = {} /\ nextId = 1
    BY DEF Init
  <2> QED
    BY <2>1, <2>2 DEF TablesTyped
<1>2. RequestsTyped
  <2>1. publisher \in [Publishers -> Request]
    BY <1>1, NoRequestTyped DEF Init
  <2>2. \A p \in Publishers : publisher[p].pc = "idle"
    BY DEF Init, NoRequest
  <2> QED
    BY <2>1, <2>2 DEF RequestsTyped, InTxn
<1>3. JobsTyped
  <2>1. queued \in [Names -> 0..MaxRows]
    <3>1. MaxRows \in Nat
      BY PublicationAssumption
    <3> QED
      BY <3>1 DEF Init
  <2>2. /\ deleter \in [Deleters -> DeleterRecords]
        /\ admin \in [Admins -> AdminRecords]
        /\ run \in [Workers -> RunRecords]
    BY DEF Init, DeleterRecords, AdminRecords, RunRecords
  <2>3. /\ \A d \in Deleters : deleter[d].pc = "idle"
        /\ \A a \in Admins : admin[a].pc = "idle"
        /\ \A w \in Workers : run[w].pc = "idle"
    BY DEF Init, Idle
  <2>4. files = {} /\ excused = {}
    BY DEF Init
  <2> QED
    BY <2>1, <2>2, <2>3, <2>4 DEF JobsTyped
<1> QED
  BY <1>1, <1>2, <1>3 DEF PubTyped

\* A crate is deleted, by its owner or by an operator.
RowsDeleted(id) ==
  /\ Unlocked(id)
  /\ DeleteRows(id)
  /\ \E n \in Names, end \in Nat : deleted' = deleted \cup {[name |-> n, availableAt |-> end]}
  /\ UNCHANGED <<pubClock, nextId, publisher>>

\* A step leaves the tables alone, or is one of three.
LEMMA TableSteps ==
  ASSUME PubTyped, [Next]_vars
  PROVE  \/ UNCHANGED tables /\ UNCHANGED pubClock
         \/ PassTime
         \/ \E p \in Publishers, ns \in SUBSET Names, start \in 0..pubClock : PublishTxn(p, ns, start)
         \/ \E p \in Publishers : PublishCommit(p)
         \/ \E id \in Nat : RowsDeleted(id)
<1>1. CASE UNCHANGED vars
  BY <1>1 DEF vars
<1>2. ASSUME NEW p \in Publishers, PublishNext(p)
      PROVE  \/ UNCHANGED tables /\ UNCHANGED pubClock
             \/ \E ns \in SUBSET Names, start \in 0..pubClock : PublishTxn(p, ns, start)
             \/ PublishCommit(p)
  BY <1>2 DEF PublishNext, PublishCheck, PublishRefused, Upload, PublishRollback, PublishCut, UploadCut
<1>3. ASSUME NEW d \in Deleters, DeleteNext(d)
      PROVE  (UNCHANGED tables /\ UNCHANGED pubClock) \/ \E id \in Nat : RowsDeleted(id)
  <2>1. CASE DeleteCommit(d)
    <3>1. deleter[d].crate.id \in Nat /\ deleter[d].crate.name \in Names
      <4>1. deleter[d] \in [pc : {"checked"}, crate : Rows, path : Names]
        BY <2>1 DEF PubTyped, JobsTyped, DeleterRecords, DeleteCommit, Idle
      <4>2. deleter[d].crate \in Rows
        BY <4>1
      <4> QED
        BY <4>2 DEF Rows
    <3>2. pubClock + Day \in Nat
      <4>1. Day \in Nat /\ pubClock \in Nat
        BY PublicationAssumption DEF PubTyped, TablesTyped
      <4> QED
        BY <4>1
    <3> QED
      BY <2>1, <3>1, <3>2 DEF DeleteCommit, RowsDeleted
  <2> QED
    BY <1>3, <2>1 DEF DeleteNext, DeleteCheck, DeleteFail
<1>4. ASSUME NEW a \in Admins, AdminNext(a)
      PROVE  (UNCHANGED tables /\ UNCHANGED pubClock) \/ \E id \in Nat : RowsDeleted(id)
  <2>1. ASSUME NEW delay \in AdminDelays, NEW start \in 0..pubClock, AdminDelete(a, delay, start)
        PROVE  \E id \in Nat : RowsDeleted(id)
    <3> DEFINE c == CHOOSE x \in admin[a].crates : TRUE
    <3>1. admin[a].crates \subseteq Rows
      BY <2>1 DEF PubTyped, JobsTyped, AdminRecords, AdminDelete, Idle
    <3>2. c \in Rows
      BY <2>1, <3>1 DEF AdminDelete
    <3>3. c.id \in Nat /\ c.name \in Names
      BY <3>2 DEF Rows
    <3>4. start + delay \in Nat
      <4>1. delay \in Nat /\ start \in Nat
        BY PublicationAssumption
      <4> QED
        BY <4>1
    <3> QED
      BY <2>1, <3>3, <3>4 DEF AdminDelete, RowsDeleted
  <2> QED
    BY <1>4, <2>1 DEF AdminNext, AdminLookup, AdminSkip, AdminEnqueue, AdminStop
<1>5. ASSUME NEW w \in Workers, StorageNext(w)
      PROVE  UNCHANGED tables /\ UNCHANGED pubClock
  BY <1>5 DEF StorageNext, StorageList, StorageDelete, StorageFail
<1> QED
  BY <1>1, <1>2, <1>3, <1>4, <1>5 DEF Next

LEMMA Growing ==
  ASSUME PubTyped, [Next]_vars
  PROVE  Grows
<1>1. pubClock \in Nat /\ nextId \in Nat
  BY PublicationAssumption DEF PubTyped, TablesTyped
<1>2. CASE UNCHANGED tables /\ UNCHANGED pubClock
  BY <1>1, <1>2 DEF Grows, tables
<1>3. CASE PassTime
  BY <1>1, <1>3 DEF Grows, PassTime, tables
<1>4. ASSUME NEW p \in Publishers, NEW ns \in SUBSET Names, NEW start \in 0..pubClock, PublishTxn(p, ns, start)
      PROVE  Grows
  <2>1. deleted' = deleted /\ pubClock' = pubClock /\ nextId' \in {nextId, nextId + 1}
    BY <1>4 DEF PublishTxn
  <2> QED
    BY <1>1, <2>1 DEF Grows
<1>5. ASSUME NEW p \in Publishers, PublishCommit(p)
      PROVE  Grows
  BY <1>1, <1>5 DEF Grows, PublishCommit
<1>6. ASSUME NEW id \in Nat, RowsDeleted(id)
      PROVE  Grows
  BY <1>1, <1>6 DEF Grows, RowsDeleted
<1> QED
  BY <1>2, <1>3, <1>4, <1>5, <1>6, TableSteps

\* What is left of the versions when a crate is deleted.
LEMMA DeletedVersion ==
  ASSUME NEW v \in VersionRows, NEW id
  PROVE  [v EXCEPT !.deps = @ \ {id}] =
           [crate |-> v.crate, num |-> v.num, by |-> v.by, createdAt |-> v.createdAt, deps |-> v.deps \ {id}]
  BY DEF VersionRows

LEMMA DeletedVersions ==
  ASSUME TablesTyped, NEW id, DeleteRows(id), NEW u \in versions'
  PROVE  \E v \in versions :
           /\ v.crate # id
           /\ u = [crate |-> v.crate, num |-> v.num, by |-> v.by, createdAt |-> v.createdAt,
                   deps |-> v.deps \ {id}]
<1>1. PICK v \in versions : v.crate # id /\ u = [v EXCEPT !.deps = @ \ {id}]
  BY DEF DeleteRows
<1>2. v \in VersionRows
  BY DEF TablesTyped
<1> QED
  BY <1>1, <1>2, DeletedVersion

\* The request of an open transaction.
LEMMA TxnRequest ==
  ASSUME PubTyped, NEW p \in Publishers, InTxn(p)
  PROVE  /\ publisher[p].crate \in Rows /\ publisher[p].crate.id \in Nat
         /\ publisher[p].crate.createdAt <= pubClock
         /\ publisher[p].name \in Names /\ publisher[p].num \in Nums
         /\ publisher[p].time \in Nat
         /\ publisher[p].deps \subseteq Nat
<1>1. /\ publisher[p] \in Request
      /\ publisher[p].crate \in Rows
      /\ publisher[p].name \in Names /\ publisher[p].num \in Nums
  BY DEF PubTyped, RequestsTyped, InTxn
<1>2. pubClock \in Nat /\ nextId \in Nat
  BY PublicationAssumption DEF PubTyped, TablesTyped
<1>3. /\ publisher[p].crate.createdAt \in 0..pubClock
      /\ publisher[p].time \in 0..pubClock /\ publisher[p].deps \subseteq 1..nextId
  BY <1>1 DEF Request
<1>4. /\ publisher[p].crate.createdAt <= pubClock /\ publisher[p].time \in Nat
      /\ publisher[p].deps \subseteq Nat
  BY <1>2, <1>3
<1>5. publisher[p].crate.id \in Nat
  BY <1>1, PublicationAssumption DEF Rows
<1> QED
  BY <1>1, <1>4, <1>5

LEMMA TablesStep ==
  ASSUME PubTyped, TxnsApart, [Next]_vars
  PROVE  TablesTyped'
<1>1. pubClock \in Nat /\ nextId \in Nat /\ MaxNow \in Nat
  BY PublicationAssumption DEF PubTyped, TablesTyped
<1>2. CASE UNCHANGED tables /\ UNCHANGED pubClock
  BY <1>2 DEF PubTyped, TablesTyped, tables
<1>3. CASE PassTime
  <2>1. crates' = crates /\ versions' = versions /\ deleted' = deleted /\ nextId' = nextId
    BY <1>3 DEF PassTime, tables
  <2>2. pubClock' \in 0..MaxNow /\ pubClock <= pubClock' /\ pubClock' \in Nat
    BY <1>1, <1>3 DEF PassTime, PubTyped, TablesTyped
  <2>3. \A c \in crates : c.createdAt <= pubClock'
    BY <1>1, <2>2 DEF PubTyped, TablesTyped, Rows
  <2> QED
    BY <2>1, <2>2, <2>3 DEF PubTyped, TablesTyped
<1>4. ASSUME NEW p \in Publishers, NEW ns \in SUBSET Names, NEW start \in 0..pubClock, PublishTxn(p, ns, start)
      PROVE  TablesTyped'
  <2>1. /\ deleted' = deleted /\ pubClock' = pubClock /\ nextId' \in {nextId, nextId + 1}
        /\ crates' = crates /\ versions' = versions
    BY <1>4 DEF PublishTxn
  <2>2. nextId' \in Nat \ {0}
    BY <2>1 DEF PubTyped, TablesTyped
  <2> QED
    BY <2>1, <2>2 DEF PubTyped, TablesTyped
<1>5. ASSUME NEW p \in Publishers, PublishCommit(p)
      PROVE  TablesTyped'
  <2> DEFINE r == publisher[p]
             new == [crate |-> r.crate.id, num |-> r.num, by |-> p, createdAt |-> r.time, deps |-> r.deps]
  <2>1. /\ crates' = crates \cup {r.crate} /\ versions' = versions \cup {new}
        /\ deleted' = deleted /\ pubClock' = pubClock /\ nextId' = nextId
    BY <1>5 DEF PublishCommit
  <2>2. InTxn(p)
    BY <1>5 DEF PublishCommit, InTxn
  <2>3. /\ r.crate \in Rows /\ r.crate.createdAt <= pubClock /\ new \in VersionRows
        /\ r.crate.id \in Nat
    BY <2>2, TxnRequest DEF VersionRows
  <2>4. \A i \in r.deps : i = r.crate.id \/ \E c \in crates : c.id = i
    BY <2>2 DEF TxnsApart
  <2>5. \A v \in versions' : \E c \in crates' : c.id = v.crate
    BY <2>1 DEF PubTyped, TablesTyped
  <2>6. \A v \in versions' : \A i \in v.deps : \E c \in crates' : c.id = i
    <3>1. \A i \in new.deps : \E c \in crates' : c.id = i
      BY <2>1, <2>4
    <3> QED
      BY <2>1, <3>1 DEF PubTyped, TablesTyped
  <2> QED
    BY <2>1, <2>3, <2>5, <2>6 DEF PubTyped, TablesTyped
<1>6. ASSUME NEW id \in Nat, RowsDeleted(id)
      PROVE  TablesTyped'
  <2>1. /\ DeleteRows(id) /\ crates' = {c \in crates : c.id # id}
        /\ pubClock' = pubClock /\ nextId' = nextId
    BY <1>6 DEF RowsDeleted, DeleteRows
  <2>2. deleted' \subseteq [name : Names, availableAt : Nat]
    <3>1. PICK n \in Names, end \in Nat : deleted' = deleted \cup {[name |-> n, availableAt |-> end]}
      BY <1>6 DEF RowsDeleted
    <3> QED
      BY <3>1 DEF PubTyped, TablesTyped
  <2>3. ASSUME NEW u \in versions'
        PROVE  /\ u \in VersionRows
               /\ \E c \in crates' : c.id = u.crate
               /\ \A i \in u.deps : \E c \in crates' : c.id = i
    <3>1. PICK v \in versions :
           /\ v.crate # id
           /\ u = [crate |-> v.crate, num |-> v.num, by |-> v.by, createdAt |-> v.createdAt,
                   deps |-> v.deps \ {id}]
      BY <2>1, DeletedVersions DEF PubTyped
    <3>2. v \in VersionRows /\ (\E c \in crates : c.id = v.crate) /\ \A i \in v.deps : \E c \in crates : c.id = i
      BY DEF PubTyped, TablesTyped
    <3>3. u \in VersionRows
      BY <3>1, <3>2 DEF VersionRows
    <3> QED
      BY <2>1, <3>1, <3>2, <3>3
  <2> QED
    BY <2>1, <2>2, <2>3 DEF PubTyped, TablesTyped
<1> QED
  BY <1>2, <1>3, <1>4, <1>5, <1>6, TableSteps

LEMMA RequestReplaced ==
  ASSUME PubTyped, Grows, NEW p \in Publishers,
         publisher' = [q \in Publishers |-> publisher'[q]],
         \A q \in Publishers \ {p} : publisher'[q] = publisher[q],
         publisher'[p] \in Request',
         publisher'[p].pc # "idle" => publisher'[p].name \in Names /\ publisher'[p].num \in Nums,
         publisher'[p].pc \in {"txn", "uploaded"} => publisher'[p].crate \in Rows
  PROVE  RequestsTyped'
<1>1. ASSUME NEW q \in Publishers
      PROVE  /\ publisher'[q] \in Request'
             /\ publisher'[q].pc # "idle" => publisher'[q].name \in Names /\ publisher'[q].num \in Nums
             /\ publisher'[q].pc \in {"txn", "uploaded"} => publisher'[q].crate \in Rows
  <2>1. CASE q = p
    BY <2>1
  <2>2. CASE q # p
    <3>1. publisher'[q] = publisher[q] /\ publisher[q] \in Request
      BY <2>2 DEF PubTyped, RequestsTyped
    <3>2. publisher[q] \in Request'
      BY <3>1, RequestsStay DEF PubTyped
    <3> QED
      BY <3>1, <3>2 DEF PubTyped, RequestsTyped, InTxn
  <2> QED
    BY <2>1, <2>2
<1>2. publisher' \in [Publishers -> Request']
  BY <1>1
<1> QED
  BY <1>1, <1>2 DEF RequestsTyped, InTxn

LEMMA MovedTyped ==
  ASSUME PubTyped, Grows, NEW p \in Publishers, NEW x \in {"uploaded", "cut"}, Moves(p, x),
         InTxn(p)
  PROVE  RequestsTyped'
<1>1. publisher[p] \in Request'
  BY RequestsStay DEF PubTyped, RequestsTyped
<1>2. publisher'[p] = [pc |-> x, name |-> publisher[p].name, num |-> publisher[p].num,
                      user |-> publisher[p].user, seen |-> publisher[p].seen,
                      time |-> publisher[p].time, crate |-> publisher[p].crate,
                      deps |-> publisher[p].deps]
  BY DEF Moves
<1>4. publisher'[p] \in Request'
  <2>1. x \in {"idle", "checked", "txn", "uploaded", "cut"}
    OBVIOUS
  <2>2. /\ publisher[p].name \in Names \cup {""} /\ publisher[p].num \in Nums \cup {0}
        /\ publisher[p].user \in BOOLEAN /\ publisher[p].seen \in SUBSET deleted'
        /\ publisher[p].time \in 0..pubClock'
        /\ publisher[p].crate \in [id : 0..nextId', name : Names \cup {""}, createdAt : 0..pubClock']
        /\ publisher[p].deps \in SUBSET (1..nextId')
    BY <1>1 DEF Request
  <2>3. \A ds \in SUBSET (1..nextId'), sn \in SUBSET deleted' :
          [pc |-> x, name |-> publisher[p].name, num |-> publisher[p].num,
           user |-> publisher[p].user, seen |-> sn, time |-> publisher[p].time,
           crate |-> publisher[p].crate, deps |-> ds] \in Request'
    BY <2>1, <2>2 DEF Request
  <2> QED
    BY <1>2, <2>2, <2>3
<1>5. publisher[p].name \in Names /\ publisher[p].num \in Nums /\ publisher[p].crate \in Rows
  BY DEF PubTyped, RequestsTyped, InTxn
<1>3. publisher'[p].name \in Names /\ publisher'[p].num \in Nums /\ publisher'[p].crate \in Rows
  BY <1>2, <1>5
<1> QED
  BY <1>4, <1>3, RequestReplaced DEF Moves

\* A request of a crate that is there, or is created, in its transaction.
LEMMA PersistedCrate ==
  ASSUME PubTyped, NEW n \in Names, NEW user \in BOOLEAN, NEW start \in 0..pubClock,
         NEW c \in PersistCrate(n, user, start), c.id <= MaxId
  PROVE  /\ c \in Rows
         /\ c.createdAt <= pubClock
         /\ \/ c \in ByName(n)
            \/ ByName(n) = {} /\ c.id = nextId
<1>1. CASE ByName(n) # {}
  BY <1>1 DEF PersistCrate, ByName, PubTyped, TablesTyped
<1>2. CASE ByName(n) = {}
  <2>1. c = [id |-> nextId, name |-> n, createdAt |-> start]
    BY <1>2 DEF PersistCrate
  <2>2. c.id = nextId /\ c.createdAt = start
    BY <2>1
  <2>3. nextId \in 1..MaxId /\ pubClock \in Nat /\ start \in Nat
    BY <2>2, PublicationAssumption DEF PubTyped, TablesTyped
  <2>4. c \in Rows
    BY <2>1, <2>3 DEF Rows
  <2>5. c.createdAt <= pubClock
    BY <2>2, <2>3
  <2> QED
    BY <1>2, <2>2, <2>4, <2>5
<1> QED
  BY <1>1, <1>2

\* What a transaction has done up to its upload.
Opened(p, ns, start, c) ==
  /\ publisher[p].pc = "checked"
  /\ \A q \in Publishers \ {p} : InTxn(q) => Canon[publisher[q].name] # Canon[publisher[p].name]
  /\ c \in PersistCrate(publisher[p].name, publisher[p].user, start)
  /\ c.name = publisher[p].name
  /\ PublishedToday(c.id, start) < DailyLimit
  /\ \A v \in versions : v.crate = c.id => v.num # publisher[p].num
  /\ c.id <= MaxId
  /\ nextId' = IF c.id = nextId THEN nextId + 1 ELSE nextId
  /\ publisher'[p] = [pc |-> "txn", name |-> publisher[p].name, num |-> publisher[p].num,
                      user |-> publisher[p].user, seen |-> publisher[p].seen,
                      time |-> start, crate |-> c, deps |-> DependencyIds(ns, c)]
  /\ \A q \in Publishers \ {p} : publisher'[q] = publisher[q]
  /\ publisher' = [q \in Publishers |-> publisher'[q]]
  /\ c \in Rows /\ c.createdAt <= pubClock
  /\ \/ c \in ByName(publisher[p].name)
     \/ ByName(publisher[p].name) = {} /\ c.id = nextId
  /\ UNCHANGED <<pubClock, crates, versions, deleted, files, queued, deleter, admin, run, excused>>

LEMMA TxnOpens ==
  ASSUME PubTyped, NEW p \in Publishers, NEW ns \in SUBSET Names, NEW start \in 0..pubClock,
         PublishTxn(p, ns, start)
  PROVE  \E c \in Rows : Opened(p, ns, start, c)
<1> DEFINE r == publisher[p]
<1>1. PICK c \in PersistCrate(r.name, r.user, start) :
        /\ c.name = r.name
        /\ PublishedToday(c.id, start) < DailyLimit
        /\ \A v \in versions : v.crate = c.id => v.num # r.num
        /\ nextId' = IF c.id = nextId THEN nextId + 1 ELSE nextId
        /\ c.id <= MaxId
        /\ publisher' = [publisher EXCEPT ![p] =
             [pc |-> "txn", name |-> r.name, num |-> r.num, user |-> r.user, seen |-> r.seen,
              time |-> start, crate |-> c, deps |-> DependencyIds(ns, c)]]
  BY DEF PublishTxn
<1>2. r \in Request /\ r.name \in Names
  BY DEF PublishTxn, PubTyped, RequestsTyped
<1>3. r.user \in BOOLEAN
  BY <1>2 DEF Request
<1>4. /\ c \in Rows /\ c.createdAt <= pubClock
      /\ c \in ByName(r.name) \/ (ByName(r.name) = {} /\ c.id = nextId)
  BY <1>1, <1>2, <1>3, PersistedCrate
<1>5. /\ publisher'[p] = [pc |-> "txn", name |-> r.name, num |-> r.num, user |-> r.user, seen |-> r.seen,
                          time |-> start, crate |-> c, deps |-> DependencyIds(ns, c)]
      /\ \A q \in Publishers \ {p} : publisher'[q] = publisher[q]
      /\ publisher' = [q \in Publishers |-> publisher'[q]]
  BY <1>1, OneRequest DEF PubTyped
<1>6. /\ r.pc = "checked"
      /\ \A q \in Publishers \ {p} : InTxn(q) => Canon[publisher[q].name] # Canon[r.name]
      /\ UNCHANGED <<pubClock, crates, versions, deleted, files, queued, deleter, admin, run, excused>>
  BY DEF PublishTxn
<1> QED
  BY <1>1, <1>4, <1>5, <1>6 DEF Opened

\* The ids of the dependencies have been given out.
LEMMA DependencyIdsTyped ==
  ASSUME PubTyped, TxnsApart, Grows, NEW ns, NEW c \in Rows, c.id < nextId'
  PROVE  DependencyIds(ns, c) \subseteq 1..nextId'
<1>1. nextId \in Nat /\ nextId' \in Nat /\ nextId <= nextId'
  BY DEF PubTyped, TablesTyped, Grows
<1>2. \A d \in crates \cup {c} : d.id \in 1..MaxId
  BY DEF PubTyped, TablesTyped, Rows
<1>3. \A d \in crates \cup {c} : d.id \in Nat /\ d.id >= 1 /\ d.id < nextId'
  BY <1>1, <1>2, PublicationAssumption DEF TxnsApart
<1> QED
  BY <1>1, <1>3 DEF DependencyIds

LEMMA OpenedTyped ==
  ASSUME PubTyped, TxnsApart, Grows, NEW p \in Publishers, NEW ns \in SUBSET Names,
         NEW start \in 0..pubClock, NEW c \in Rows, Opened(p, ns, start, c)
  PROVE  RequestsTyped'
<1> DEFINE r == publisher[p]
<1>1. /\ pubClock \in Nat /\ pubClock' = pubClock
      /\ nextId \in Nat /\ nextId' \in Nat /\ nextId <= nextId' /\ c.id < nextId'
  <2>1. nextId \in Nat /\ c.id \in Nat
    BY PublicationAssumption DEF PubTyped, TablesTyped, Rows
  <2>2. c.id <= nextId
    BY <2>1 DEF Opened, TxnsApart, ByName
  <2> QED
    BY <2>1, <2>2, PublicationAssumption DEF Opened, Grows, PubTyped, TablesTyped
<1>2. c \in [id : 0..nextId', name : Names \cup {""}, createdAt : 0..pubClock']
  <2>1. /\ c = [id |-> c.id, name |-> c.name, createdAt |-> c.createdAt]
        /\ c.id \in 1..MaxId /\ c.name \in Names /\ c.createdAt \in Nat
    BY DEF Rows
  <2>2. c.id \in 0..nextId' /\ c.createdAt \in 0..pubClock'
    BY <1>1, <2>1, PublicationAssumption DEF Opened
  <2> QED
    BY <2>1, <2>2
<1>3. DependencyIds(ns, c) \in SUBSET (1..nextId')
  BY <1>1, DependencyIdsTyped
<1>4. r \in Request' /\ r.name \in Names /\ r.num \in Nums
  BY RequestsStay DEF PubTyped, RequestsTyped, Opened
<1>5. r.user \in BOOLEAN /\ r.seen \in SUBSET deleted'
  BY <1>4 DEF Request
<1>6. start \in 0..pubClock'
  BY <1>1
<1>7. publisher'[p] = [pc |-> "txn", name |-> r.name, num |-> r.num, user |-> r.user, seen |-> r.seen,
                       time |-> start, crate |-> c, deps |-> DependencyIds(ns, c)]
  BY DEF Opened
<1>8. publisher'[p] \in Request'
  <2>1. r.name \in Names \cup {""} /\ r.num \in Nums \cup {0}
    BY <1>4
  <2>2. \A ds \in SUBSET (1..nextId'), sn \in SUBSET deleted' :
          [pc |-> "txn", name |-> r.name, num |-> r.num, user |-> r.user, seen |-> sn,
           time |-> start, crate |-> c, deps |-> ds] \in Request'
    BY <1>2, <1>5, <1>6, <2>1 DEF Request
  <2> QED
    BY <1>3, <1>5, <1>7, <2>2
<1>9. /\ publisher'[p].name \in Names /\ publisher'[p].num \in Nums /\ publisher'[p].crate \in Rows
  BY <1>4, <1>7
<1> QED
  BY <1>8, <1>9, RequestReplaced DEF Opened

LEMMA EndedTyped ==
  ASSUME PubTyped, Grows, NEW p \in Publishers, publisher' = [publisher EXCEPT ![p] = NoRequest]
  PROVE  RequestsTyped'
<1>1. NoRequest \in Request'
  BY NoRequestTyped, RequestsStay DEF PubTyped
<1>2. NoRequest.pc = "idle"
  BY DEF NoRequest
<1> QED
  BY <1>1, <1>2, OneRequest, RequestReplaced DEF PubTyped

LEMMA CheckTyped ==
  ASSUME PubTyped, Grows, NEW p \in Publishers, NEW n \in Names, NEW v \in Nums, NEW user \in BOOLEAN,
         UNCHANGED <<pubClock, deleted>>, publisher' = [publisher EXCEPT ![p] = Checked(n, v, user)]
  PROVE  RequestsTyped'
<1>1. NoRequest \in Request'
  BY NoRequestTyped, RequestsStay DEF PubTyped
<1>2. /\ NoCrate \in [id : 0..nextId', name : Names \cup {""}, createdAt : 0..pubClock']
      /\ {} \in SUBSET (1..nextId') /\ deleted \in SUBSET deleted'
  BY <1>1 DEF NoRequest, Request
<1>5. pubClock \in 0..pubClock'
  BY PublicationAssumption DEF PubTyped, TablesTyped
<1>3. Checked(n, v, user) \in Request'
  <2>1. \A ds \in SUBSET (1..nextId'), sn \in SUBSET deleted' :
          [pc |-> "checked", name |-> n, num |-> v, user |-> user, seen |-> sn,
           time |-> pubClock, crate |-> NoCrate, deps |-> ds] \in Request'
    BY <1>2, <1>5 DEF Request
  <2> QED
    BY <1>2, <2>1 DEF Checked
<1>4. Checked(n, v, user).pc = "checked" /\ Checked(n, v, user).name = n /\ Checked(n, v, user).num = v
  BY DEF Checked
<1> QED
  BY <1>3, <1>4, OneRequest, RequestReplaced DEF PubTyped

\* Only publish requests write to their own records.
LEMMA RequestsKept ==
  ASSUME [Next]_vars
  PROVE  \/ \E p \in Publishers : PublishNext(p)
         \/ publisher' = publisher
<1>1. ASSUME NEW d \in Deleters, DeleteNext(d)
      PROVE  publisher' = publisher
  BY <1>1 DEF DeleteNext, DeleteCheck, DeleteCommit, DeleteFail
<1>2. ASSUME NEW a \in Admins, AdminNext(a)
      PROVE  publisher' = publisher
  BY <1>2 DEF AdminNext, AdminLookup, AdminDelete, AdminSkip, AdminEnqueue, AdminStop
<1>3. ASSUME NEW w \in Workers, StorageNext(w)
      PROVE  publisher' = publisher
  BY <1>3 DEF StorageNext, StorageList, StorageDelete, StorageFail
<1> QED
  BY <1>1, <1>2, <1>3 DEF Next, vars, PassTime

LEMMA RequestsStep ==
  ASSUME PubTyped, TxnsApart, [Next]_vars
  PROVE  RequestsTyped'
<1>1. Grows
  BY Growing
<1>2. ASSUME publisher' = publisher
      PROVE  RequestsTyped'
  <2>1. \A p \in Publishers : publisher[p] \in Request'
    BY <1>1, RequestsStay DEF PubTyped, RequestsTyped
  <2>2. publisher' \in [Publishers -> Request']
    BY <1>2, <2>1 DEF PubTyped, RequestsTyped
  <2> QED
    BY <1>2, <2>2 DEF PubTyped, RequestsTyped, InTxn
<1>3. ASSUME NEW p \in Publishers, PublishNext(p)
      PROVE  RequestsTyped'
  <2>1. ASSUME NEW n \in Names, NEW v \in Nums, NEW user \in BOOLEAN, PublishCheck(p, n, v, user)
        PROVE  RequestsTyped'
    BY <1>1, <2>1, CheckTyped DEF PublishCheck, tables
  <2>2. ASSUME NEW ns \in SUBSET Names, NEW start \in 0..pubClock, PublishTxn(p, ns, start)
        PROVE  RequestsTyped'
    BY <1>1, <2>2, TxnOpens, OpenedTyped
  <2>3. CASE Upload(p)
    <3>1. publisher' = [publisher EXCEPT ![p].pc = "uploaded"] /\ InTxn(p)
      BY <2>3 DEF Upload, InTxn
    <3> QED
      BY <1>1, <3>1, UploadMoves, MovedTyped DEF PubTyped
  <2>4. CASE PublishCut(p)
    <3>1. publisher' = [publisher EXCEPT ![p].pc = "cut"] /\ InTxn(p)
      BY <2>4 DEF PublishCut, InTxn
    <3> QED
      BY <1>1, <3>1, CutMoves, MovedTyped DEF PubTyped
  <2>5. CASE PublishRefused(p) \/ PublishCommit(p) \/ PublishRollback(p) \/ UploadCut(p)
    <3>1. publisher' = [publisher EXCEPT ![p] = NoRequest]
      BY <2>5 DEF PublishRefused, PublishCommit, PublishRollback, UploadCut
    <3> QED
      BY <1>1, <3>1, EndedTyped
  <2> QED
    BY <1>3, <2>1, <2>2, <2>3, <2>4, <2>5 DEF PublishNext
<1> QED
  BY <1>2, <1>3, RequestsKept

LEMMA CanonTyped == \A n \in Names : Canon[n] \in Names
  BY PublicationAssumption

LEMMA UploadedTyped ==
  ASSUME PubTyped, NEW p \in Publishers, publisher[p].pc # "idle"
  PROVE  Uploaded(p) \subseteq Files
<1>1. publisher[p].name \in Names /\ publisher[p].num \in Nums
  BY DEF PubTyped, RequestsTyped
<1>2. [name |-> publisher[p].name, num |-> publisher[p].num, by |-> p] \in Files
  BY <1>1 DEF Files
<1> QED
  BY <1>2 DEF Uploaded, PubTyped, JobsTyped

LEMMA EnqueuedTyped ==
  ASSUME PubTyped, NEW n \in Names, NEW found, EnqueueStorage(n, found)
  PROVE  queued' \in [Names -> 0..MaxRows] /\ excused' \subseteq Names
<1>1. queued \in [Names -> 0..MaxRows] /\ excused \subseteq Names /\ MaxRows \in Nat \ {0}
  BY PublicationAssumption DEF PubTyped, JobsTyped
<1>2. queued' = [queued EXCEPT ![n] = IF queued[n] = 0 THEN 1 ELSE queued[n]]
  BY DEF EnqueueStorage
<1>3. queued' \in [Names -> 0..MaxRows]
  BY <1>1, <1>2
<1>4. excused' \subseteq excused \cup {Canon[n]}
  BY DEF EnqueueStorage
<1> QED
  BY <1>1, <1>3, <1>4, CanonTyped

LEMMA JobsStep ==
  ASSUME PubTyped, [Next]_vars
  PROVE  JobsTyped'
<1> USE DEF PubTyped, JobsTyped
<1>0. ASSUME UNCHANGED <<files, queued, excused, deleter, admin, run>>
      PROVE  JobsTyped'
  BY <1>0
<1>1. ASSUME NEW p \in Publishers, PublishNext(p)
      PROVE  JobsTyped'
  <2>1. CASE Upload(p) \/ UploadCut(p)
    <3>1. /\ publisher[p].pc # "idle" /\ files' = Uploaded(p)
          /\ excused' \subseteq excused \cup {Canon[publisher[p].name]}
          /\ UNCHANGED <<queued, deleter, admin, run>>
      BY <2>1 DEF Upload, UploadCut
    <3>2. Canon[publisher[p].name] \in Names
      BY <3>1, CanonTyped DEF RequestsTyped
    <3>3. files' \subseteq Files
      BY <3>1, UploadedTyped
    <3> QED
      BY <3>1, <3>2, <3>3
  <2> QED
    BY <1>0, <1>1, <2>1 DEF PublishNext, PublishCheck, PublishTxn, PublishRefused, PublishCommit,
                            PublishRollback, PublishCut
<1>2. ASSUME NEW d \in Deleters, DeleteNext(d)
      PROVE  JobsTyped'
  <2>1. ASSUME NEW n \in Names, NEW owners \in 1..2, NEW popular \in BOOLEAN, DeleteCheck(d, n, owners, popular)
        PROVE  JobsTyped'
    <3>1. PICK c \in ByName(n) : deleter' = [deleter EXCEPT ![d] = [pc |-> "checked", crate |-> c, path |-> n]]
      BY <2>1 DEF DeleteCheck
    <3>2. c \in Rows /\ Canon[c.name] = Canon[n]
      BY DEF ByName, TablesTyped
    <3>3. [pc |-> "checked", crate |-> c, path |-> n] \in DeleterRecords
      BY <3>2 DEF DeleterRecords
    <3>4. deleter' \in [Deleters -> DeleterRecords]
      BY <3>1, <3>3
    <3>5. \A e \in Deleters : deleter'[e].pc = "checked" => Canon[deleter'[e].path] = Canon[deleter'[e].crate.name]
      BY <3>1, <3>2
    <3>6. UNCHANGED <<files, queued, excused, admin, run>>
      BY <2>1 DEF DeleteCheck
    <3> QED
      BY <3>4, <3>5, <3>6
  <2>2. ASSUME deleter' = [deleter EXCEPT ![d] = Idle]
        PROVE  /\ deleter' \in [Deleters -> DeleterRecords]
               /\ \A e \in Deleters : deleter'[e].pc = "checked" => Canon[deleter'[e].path] = Canon[deleter'[e].crate.name]
    BY <2>2 DEF DeleterRecords, Idle
  <2>3. CASE DeleteCommit(d)
    <3>1. /\ deleter[d].pc = "checked" /\ deleter' = [deleter EXCEPT ![d] = Idle]
          /\ EnqueueStorage(deleter[d].path, deleter[d].crate \in crates)
          /\ UNCHANGED <<files, admin, run>>
      BY <2>3 DEF DeleteCommit
    <3>2. deleter[d].path \in Names
      BY <3>1 DEF DeleterRecords, Idle
    <3>3. queued' \in [Names -> 0..MaxRows] /\ excused' \subseteq Names
      BY <3>1, <3>2, EnqueuedTyped
    <3> QED
      BY <2>2, <3>1, <3>3
  <2>4. CASE DeleteFail(d)
    BY <2>2, <2>4 DEF DeleteFail
  <2> QED
    BY <1>2, <2>1, <2>3, <2>4 DEF DeleteNext
<1>3. ASSUME NEW a \in Admins, AdminNext(a)
      PROVE  JobsTyped'
  <2>1. ASSUME NEW r \in AdminRecords, admin' = [admin EXCEPT ![a] = r],
               r.pc = "asking" => \A c \in r.crates : c.name = r.name
        PROVE  /\ admin' \in [Admins -> AdminRecords]
               /\ \A b \in Admins : admin'[b].pc = "asking" => \A c \in admin'[b].crates : c.name = admin'[b].name
    BY <2>1
  <2>2. ASSUME NEW n \in Names, AdminLookup(a, n)
        PROVE  JobsTyped'
    <3> DEFINE r == [pc |-> "asking", name |-> n, crates |-> ByExactName(n), time |-> pubClock]
    <3>1. r \in AdminRecords
      BY PublicationAssumption DEF AdminRecords, ByExactName, TablesTyped
    <3>2. \A c \in r.crates : c.name = r.name
      BY DEF ByExactName
    <3>3. admin' = [admin EXCEPT ![a] = r] /\ UNCHANGED <<files, queued, excused, deleter, run>>
      BY <2>2 DEF AdminLookup
    <3> HIDE DEF r
    <3> QED
      BY <2>1, <3>1, <3>2, <3>3
  <2>3. ASSUME NEW delay \in AdminDelays, NEW start \in 0..pubClock, AdminDelete(a, delay, start)
        PROVE  JobsTyped'
    <3> DEFINE c == CHOOSE x \in admin[a].crates : TRUE
               r == [pc |-> "deleted", name |-> c.name, found |-> c \in crates]
    <3>1. admin[a].crates \subseteq Rows
      BY <2>3 DEF AdminRecords, AdminDelete, Idle
    <3>2. c \in Rows
      BY <2>3, <3>1 DEF AdminDelete
    <3>3. c.name \in Names
      BY <3>2 DEF Rows
    <3>4. r \in AdminRecords /\ r.pc = "deleted"
      BY <3>3 DEF AdminRecords
    <3>5. admin' = [admin EXCEPT ![a] = r] /\ UNCHANGED <<files, queued, excused, deleter, run>>
      BY <2>3 DEF AdminDelete
    <3> HIDE DEF r
    <3> QED
      BY <2>1, <3>4, <3>5
  <2>4. CASE AdminSkip(a)
    <3> DEFINE r == [pc |-> "deleted", name |-> admin[a].name, found |-> FALSE]
    <3>1. admin[a].name \in Names
      BY <2>4 DEF AdminRecords, AdminSkip, Idle
    <3>2. r \in AdminRecords /\ r.pc = "deleted"
      BY <3>1 DEF AdminRecords
    <3>3. admin' = [admin EXCEPT ![a] = r] /\ UNCHANGED <<files, queued, excused, deleter, run>>
      BY <2>4 DEF AdminSkip
    <3> HIDE DEF r
    <3> QED
      BY <2>1, <3>2, <3>3
  <2>5. Idle \in AdminRecords /\ Idle.pc = "idle"
    BY DEF AdminRecords, Idle
  <2>6. CASE AdminEnqueue(a)
    <3>1. /\ EnqueueStorage(admin[a].name, admin[a].found) /\ admin[a].pc = "deleted"
          /\ admin' = [admin EXCEPT ![a] = Idle] /\ UNCHANGED <<files, deleter, run>>
      BY <2>6 DEF AdminEnqueue
    <3>2. admin[a].name \in Names
      BY <3>1 DEF AdminRecords, Idle
    <3>3. queued' \in [Names -> 0..MaxRows] /\ excused' \subseteq Names
      BY <3>1, <3>2, EnqueuedTyped
    <3> QED
      BY <2>1, <2>5, <3>1, <3>3
  <2>7. CASE AdminStop(a)
    <3>1. admin' = [admin EXCEPT ![a] = Idle] /\ UNCHANGED <<files, queued, excused, deleter, run>>
      BY <2>7 DEF AdminStop
    <3> QED
      BY <2>1, <2>5, <3>1
  <2> QED
    BY <1>3, <2>2, <2>3, <2>4, <2>6, <2>7 DEF AdminNext
<1>4. ASSUME NEW w \in Workers, StorageNext(w)
      PROVE  JobsTyped'
  <2>1. ASSUME NEW r \in RunRecords, run' = [run EXCEPT ![w] = r],
               r.pc = "listed" => \A f \in r.files : f.name = r.name
        PROVE  /\ run' \in [Workers -> RunRecords]
               /\ \A x \in Workers : run'[x].pc = "listed" => \A f \in run'[x].files : f.name = run'[x].name
    BY <2>1
  <2>2. Idle \in RunRecords /\ Idle.pc = "idle"
    BY DEF RunRecords, Idle
  <2>3. ASSUME NEW n \in Names, StorageList(w, n)
        PROVE  JobsTyped'
    <3> DEFINE r == [pc |-> "listed", name |-> n, files |-> {f \in files : f.name = n}]
    <3>1. r \in RunRecords
      BY DEF RunRecords
    <3>2. \A f \in r.files : f.name = r.name
      OBVIOUS
    <3>3. /\ run' = [run EXCEPT ![w] = r] /\ UNCHANGED <<files, excused, deleter, admin>>
          /\ queued[n] > 0 /\ queued' = [queued EXCEPT ![n] = queued[n] - 1]
      BY <2>3 DEF StorageList
    <3>4. queued' \in [Names -> 0..MaxRows]
      BY <3>3, PublicationAssumption
    <3> HIDE DEF r
    <3> QED
      BY <2>1, <3>1, <3>2, <3>3, <3>4
  <2>4. CASE StorageDelete(w)
    <3>1. /\ run' = [run EXCEPT ![w] = Idle] /\ files' \subseteq files
          /\ UNCHANGED <<queued, excused, deleter, admin>>
      BY <2>4 DEF StorageDelete
    <3> QED
      BY <2>1, <2>2, <3>1
  <2>5. CASE StorageFail(w)
    <3>1. /\ run' = [run EXCEPT ![w] = Idle] /\ files' \subseteq files
          /\ run[w].pc = "listed" /\ queued[run[w].name] < MaxRows
          /\ queued' = [queued EXCEPT ![run[w].name] = queued[run[w].name] + 1]
          /\ UNCHANGED <<excused, deleter, admin>>
      BY <2>5 DEF StorageFail
    <3>2. run[w].name \in Names
      BY <3>1 DEF RunRecords, Idle
    <3>3. queued' \in [Names -> 0..MaxRows]
      BY <3>1, <3>2, PublicationAssumption
    <3> QED
      BY <2>1, <2>2, <3>1, <3>3
  <2> QED
    BY <1>4, <2>3, <2>4, <2>5 DEF StorageNext
<1> QED
  BY <1>0, <1>1, <1>2, <1>3, <1>4 DEF Next, vars, PassTime, tables

-----------------------------------------------------------------------------
(* Transactions and the rows of a name.                                    *)

\* Open transactions go on as they are, or end.
SameTxns ==
  \A p \in Publishers : InTxn(p)' =>
    /\ InTxn(p)
    /\ publisher'[p].name = publisher[p].name /\ publisher'[p].num = publisher[p].num
    /\ publisher'[p].time = publisher[p].time /\ publisher'[p].crate = publisher[p].crate
    /\ publisher'[p].deps = publisher[p].deps

LEMMA MovedSame ==
  ASSUME PubTyped, NEW p \in Publishers, InTxn(p), NEW x, Moves(p, x)
  PROVE  SameTxns
<1>1. /\ publisher'[p].name = publisher[p].name /\ publisher'[p].num = publisher[p].num
      /\ publisher'[p].time = publisher[p].time /\ publisher'[p].crate = publisher[p].crate
      /\ publisher'[p].deps = publisher[p].deps
  BY DEF Moves
<1>2. \A q \in Publishers \ {p} : publisher'[q] = publisher[q]
  BY DEF Moves
<1> QED
  BY <1>1, <1>2 DEF SameTxns, InTxn

LEMMA ReplacedSame ==
  ASSUME PubTyped, NEW p \in Publishers, NEW r, publisher' = [publisher EXCEPT ![p] = r],
         r.pc \notin {"txn", "uploaded"}
  PROVE  SameTxns
<1>1. publisher'[p] = r /\ \A q \in Publishers \ {p} : publisher'[q] = publisher[q]
  BY OneRequest DEF PubTyped
<1> QED
  BY <1>1 DEF SameTxns, InTxn

\* A step opens a transaction, or leaves the open ones as they are.
LEMMA TxnSteps ==
  ASSUME PubTyped, [Next]_vars
  PROVE  \/ \E p \in Publishers, ns \in SUBSET Names, start \in 0..pubClock, c \in Rows : Opened(p, ns, start, c)
         \/ /\ SameTxns
            /\ \/ UNCHANGED <<crates, versions, nextId>>
               \/ \E p \in Publishers : PublishCommit(p)
               \/ \E id \in Nat : RowsDeleted(id)
<1>1. ASSUME NEW p \in Publishers, NEW ns \in SUBSET Names, NEW start \in 0..pubClock, PublishTxn(p, ns, start)
      PROVE  \E c \in Rows : Opened(p, ns, start, c)
  BY <1>1, TxnOpens
<1>2. ASSUME NEW p \in Publishers, PublishNext(p),
             ~ \E ns \in SUBSET Names, start \in 0..pubClock : PublishTxn(p, ns, start)
      PROVE  SameTxns
  <2>1. ASSUME NEW n \in Names, NEW v \in Nums, NEW user \in BOOLEAN, PublishCheck(p, n, v, user)
        PROVE  SameTxns
    <3>1. Checked(n, v, user).pc = "checked"
      BY DEF Checked
    <3> QED
      BY <2>1, <3>1, ReplacedSame DEF PublishCheck
  <2>2. CASE Upload(p)
    <3>1. publisher' = [publisher EXCEPT ![p].pc = "uploaded"] /\ InTxn(p)
      BY <2>2 DEF Upload, InTxn
    <3> QED
      BY <3>1, UploadMoves, MovedSame DEF PubTyped
  <2>3. CASE PublishCut(p)
    <3>1. publisher' = [publisher EXCEPT ![p].pc = "cut"] /\ InTxn(p)
      BY <2>3 DEF PublishCut, InTxn
    <3> QED
      BY <3>1, CutMoves, MovedSame DEF PubTyped
  <2>4. CASE PublishRefused(p) \/ PublishCommit(p) \/ PublishRollback(p) \/ UploadCut(p)
    <3>1. publisher' = [publisher EXCEPT ![p] = NoRequest] /\ NoRequest.pc = "idle"
      BY <2>4 DEF PublishRefused, PublishCommit, PublishRollback, UploadCut, NoRequest
    <3> QED
      BY <3>1, ReplacedSame
  <2> QED
    BY <1>2, <2>1, <2>2, <2>3, <2>4 DEF PublishNext
<1>3. ASSUME publisher' = publisher
      PROVE  SameTxns
  BY <1>3 DEF SameTxns, InTxn
<1>4. \/ \E p \in Publishers, ns \in SUBSET Names, start \in 0..pubClock : PublishTxn(p, ns, start)
      \/ SameTxns
  BY <1>2, <1>3, RequestsKept
<1>5. \/ UNCHANGED <<crates, versions, nextId>>
      \/ \E p \in Publishers, ns \in SUBSET Names, start \in 0..pubClock : PublishTxn(p, ns, start)
      \/ \E p \in Publishers : PublishCommit(p)
      \/ \E id \in Nat : RowsDeleted(id)
  BY TableSteps DEF tables, PassTime
<1> QED
  BY <1>1, <1>4, <1>5

\* The transaction that opens has its name and its crate for itself.
LEMMA OpenedApart ==
  ASSUME PubTyped, TxnsApart, NEW p \in Publishers, NEW ns \in SUBSET Names,
         NEW start \in 0..pubClock, NEW c \in Rows, Opened(p, ns, start, c)
  PROVE  TxnsApart'
<1> DEFINE r == publisher[p]
<1>1. /\ r.name \in Names /\ c.name = r.name
      /\ crates' = crates /\ versions' = versions
      /\ nextId' = IF c.id = nextId THEN nextId + 1 ELSE nextId
  BY DEF Opened, PubTyped, RequestsTyped
<1>2. /\ publisher'[p].pc = "txn" /\ publisher'[p].name = r.name /\ publisher'[p].num = r.num
      /\ publisher'[p].crate = c /\ publisher'[p].deps = DependencyIds(ns, c)
      /\ \A q \in Publishers \ {p} : publisher'[q] = publisher[q]
  BY DEF Opened
<1>3. /\ nextId \in Nat /\ c.id \in Nat /\ \A d \in crates : d.id \in Nat
      /\ \A q \in Publishers : InTxn(q) => publisher[q].crate.id \in Nat
  BY TxnRequest, PublicationAssumption DEF PubTyped, TablesTyped, Rows
<1>4. c.id <= nextId /\ (c \in crates => c.id < nextId)
  BY <1>3 DEF Opened, TxnsApart, ByName
<1>5. c.id < nextId' /\ nextId <= nextId' /\ nextId' \in Nat
  BY <1>1, <1>3, <1>4
<1>6. ASSUME NEW d \in crates, Canon[d.name] = Canon[r.name] \/ d.id = c.id
      PROVE  d = c
  <2>1. CASE c \in crates
    BY <1>1, <1>6, <2>1 DEF TxnsApart
  <2>2. CASE c \notin crates
    <3>1. ByName(r.name) = {} /\ c.id = nextId
      BY <2>2 DEF Opened, ByName
    <3>2. d.id # nextId
      BY <1>3 DEF TxnsApart
    <3>3. Canon[d.name] # Canon[r.name]
      BY <3>1 DEF ByName
    <3> QED
      BY <1>6, <3>1, <3>2, <3>3
  <2> QED
    BY <2>1, <2>2
<1>7. \A i \in DependencyIds(ns, c) : i = c.id \/ \E d \in crates : d.id = i
  BY DEF DependencyIds
<1>8. \A v \in versions : v.crate = c.id => v.num # r.num
  BY DEF Opened
<1>9. ASSUME NEW q \in Publishers \ {p}, InTxn(q)
      PROVE  /\ Canon[publisher[q].name] # Canon[r.name]
             /\ publisher[q].crate.id # c.id
             /\ publisher[q].crate.id < nextId'
  <2>1. Canon[publisher[q].name] # Canon[r.name]
    BY <1>9 DEF Opened
  <2>2. /\ publisher[q].crate.name = publisher[q].name /\ publisher[q].crate.id < nextId
        /\ \A d \in crates : d.id = publisher[q].crate.id => d = publisher[q].crate
    BY <1>9 DEF TxnsApart
  <2>5. publisher[q].crate.id \in Nat
    BY <1>3, <1>9
  <2>6. publisher[q].crate.id < nextId'
    BY <1>3, <1>5, <2>2, <2>5
  <2>3. CASE c \in crates
    BY <1>1, <2>1, <2>2, <2>3, <2>6
  <2>4. CASE c \notin crates
    <3>1. c.id = nextId
      BY <2>4 DEF Opened, ByName
    <3>2. publisher[q].crate.id # nextId
      BY <1>3, <2>2, <2>5
    <3> QED
      BY <2>1, <2>6, <3>1, <3>2
  <2> QED
    BY <2>3, <2>4
<1>10. ASSUME NEW d \in crates
       PROVE  d.id < nextId'
  <2>1. d.id \in Nat /\ d.id < nextId
    BY <1>3 DEF TxnsApart
  <2> QED
    BY <1>3, <1>5, <2>1
<1>11. \A q \in Publishers : InTxn(q)' => q = p \/ InTxn(q)
  BY <1>2 DEF InTxn
<1>12. ASSUME NEW q \in Publishers, InTxn(q)'
       PROVE  /\ publisher'[q].crate.name = publisher'[q].name
              /\ publisher'[q].crate.id < nextId'
              /\ \A d \in crates :
                   Canon[d.name] = Canon[publisher'[q].name] \/ d.id = publisher'[q].crate.id
                     => d = publisher'[q].crate
              /\ \A v \in versions : v.crate = publisher'[q].crate.id => v.num # publisher'[q].num
              /\ \A i \in publisher'[q].deps : i = publisher'[q].crate.id \/ \E d \in crates : d.id = i
  <2>1. CASE q = p
    BY <1>1, <1>2, <1>5, <1>6, <1>7, <1>8, <2>1
  <2>2. CASE q # p
    <3>1. publisher'[q] = publisher[q] /\ InTxn(q)
      BY <1>2, <1>11, <1>12, <2>2
    <3> QED
      BY <1>9, <2>2, <3>1 DEF TxnsApart
  <2> QED
    BY <2>1, <2>2
<1>13. ASSUME NEW q \in Publishers, NEW s \in Publishers, InTxn(q)', InTxn(s)', q # s
       PROVE  /\ Canon[publisher'[q].name] # Canon[publisher'[s].name]
              /\ publisher'[q].crate.id # publisher'[s].crate.id
  BY <1>2, <1>9, <1>11, <1>13 DEF TxnsApart
<1> QED
  BY <1>1, <1>10, <1>12, <1>13 DEF TxnsApart

LEMMA ApartStep ==
  ASSUME PubTyped, TxnsApart, [Next]_vars
  PROVE  TxnsApart'
<1>1. ASSUME NEW p \in Publishers, NEW ns \in SUBSET Names, NEW start \in 0..pubClock, NEW c \in Rows,
             Opened(p, ns, start, c)
      PROVE  TxnsApart'
  BY <1>1, OpenedApart
<1>2. ASSUME SameTxns, UNCHANGED <<crates, versions, nextId>>
      PROVE  TxnsApart'
  BY <1>2 DEF TxnsApart, SameTxns
<1>3. ASSUME SameTxns, NEW p \in Publishers, PublishCommit(p)
      PROVE  TxnsApart'
  <2> DEFINE r == publisher[p]
             new == [crate |-> r.crate.id, num |-> r.num, by |-> p, createdAt |-> r.time, deps |-> r.deps]
  <2>1. /\ crates' = crates \cup {r.crate} /\ versions' = versions \cup {new} /\ nextId' = nextId
        /\ publisher' = [publisher EXCEPT ![p] = NoRequest]
    BY <1>3 DEF PublishCommit
  <2>2. InTxn(p) /\ ~InTxn(p)'
    <3>1. publisher'[p].pc = "idle"
      BY <2>1, OneRequest DEF NoRequest, PubTyped
    <3> QED
      BY <1>3, <3>1 DEF PublishCommit, InTxn
  <2>3. /\ r.crate.name = r.name /\ r.crate.id < nextId
        /\ \A c \in crates : Canon[c.name] = Canon[r.name] \/ c.id = r.crate.id => c = r.crate
    BY <2>2 DEF TxnsApart
  <2>4. ASSUME NEW q \in Publishers, InTxn(q)'
        PROVE  /\ InTxn(q) /\ Canon[publisher[q].name] # Canon[r.name] /\ publisher[q].crate.id # r.crate.id
               /\ publisher'[q].crate.name = publisher'[q].name
               /\ publisher'[q].crate.id < nextId
               /\ \A c \in crates' :
                    Canon[c.name] = Canon[publisher'[q].name] \/ c.id = publisher'[q].crate.id
                      => c = publisher'[q].crate
               /\ \A v \in versions' : v.crate = publisher'[q].crate.id => v.num # publisher'[q].num
               /\ \A i \in publisher'[q].deps : i = publisher'[q].crate.id \/ \E c \in crates' : c.id = i
    <3>1. InTxn(q) /\ q # p
      BY <1>3, <2>2, <2>4 DEF SameTxns
    <3>2. Canon[publisher[q].name] # Canon[r.name] /\ publisher[q].crate.id # r.crate.id
      BY <2>2, <3>1 DEF TxnsApart
    <3>3. /\ publisher'[q].name = publisher[q].name /\ publisher'[q].num = publisher[q].num
          /\ publisher'[q].crate = publisher[q].crate /\ publisher'[q].deps = publisher[q].deps
      BY <1>3, <2>4 DEF SameTxns
    <3>4. \A v \in versions' : v.crate = publisher[q].crate.id => v.num # publisher[q].num
      BY <2>1, <3>1, <3>2 DEF TxnsApart
    <3> QED
      BY <2>1, <2>3, <3>1, <3>2, <3>3, <3>4 DEF TxnsApart
  <2>5. \A q, s \in Publishers : InTxn(q)' /\ InTxn(s)' /\ q # s =>
          /\ Canon[publisher'[q].name] # Canon[publisher'[s].name]
          /\ publisher'[q].crate.id # publisher'[s].crate.id
    BY <1>3 DEF SameTxns, TxnsApart
  <2>6. /\ \A c, d \in crates' : Canon[c.name] = Canon[d.name] \/ c.id = d.id => c = d
        /\ \A c \in crates' : c.id < nextId'
    BY <2>1, <2>3 DEF TxnsApart
  <2> QED
    BY <2>1, <2>4, <2>5, <2>6 DEF TxnsApart
<1>4. ASSUME SameTxns, NEW id \in Nat, RowsDeleted(id)
      PROVE  TxnsApart'
  <2>1. /\ crates' = {c \in crates : c.id # id} /\ DeleteRows(id) /\ nextId' = nextId
        /\ \A p \in Publishers : InTxn(p) => id # publisher[p].crate.id /\ id \notin publisher[p].deps
    BY <1>4 DEF RowsDeleted, DeleteRows, Unlocked
  <2>2. \A u \in versions' : \E v \in versions : u.crate = v.crate /\ u.num = v.num
    BY <2>1, DeletedVersions DEF PubTyped
  <2>3. ASSUME NEW q \in Publishers, InTxn(q)'
        PROVE  /\ publisher'[q].crate.name = publisher'[q].name
               /\ publisher'[q].crate.id < nextId
               /\ \A c \in crates' :
                    Canon[c.name] = Canon[publisher'[q].name] \/ c.id = publisher'[q].crate.id
                      => c = publisher'[q].crate
               /\ \A v \in versions' : v.crate = publisher'[q].crate.id => v.num # publisher'[q].num
               /\ \A i \in publisher'[q].deps : i = publisher'[q].crate.id \/ \E c \in crates' : c.id = i
    <3>1. InTxn(q) /\ id \notin publisher[q].deps
      BY <1>4, <2>1, <2>3 DEF SameTxns
    <3>2. /\ publisher'[q].name = publisher[q].name /\ publisher'[q].num = publisher[q].num
          /\ publisher'[q].crate = publisher[q].crate /\ publisher'[q].deps = publisher[q].deps
      BY <1>4, <2>3 DEF SameTxns
    <3>3. \A v \in versions' : v.crate = publisher[q].crate.id => v.num # publisher[q].num
      BY <2>2, <3>1 DEF TxnsApart
    <3>4. \A i \in publisher[q].deps : i = publisher[q].crate.id \/ \E c \in crates' : c.id = i
      BY <2>1, <3>1 DEF TxnsApart
    <3> QED
      BY <2>1, <3>1, <3>2, <3>3, <3>4 DEF TxnsApart
  <2>4. \A q, s \in Publishers : InTxn(q)' /\ InTxn(s)' /\ q # s =>
          /\ Canon[publisher'[q].name] # Canon[publisher'[s].name]
          /\ publisher'[q].crate.id # publisher'[s].crate.id
    BY <1>4 DEF SameTxns, TxnsApart
  <2>5. /\ \A c, d \in crates' : Canon[c.name] = Canon[d.name] \/ c.id = d.id => c = d
        /\ \A c \in crates' : c.id < nextId'
    BY <2>1 DEF TxnsApart
  <2> QED
    BY <2>1, <2>3, <2>4, <2>5 DEF TxnsApart
<1> QED
  BY <1>1, <1>2, <1>3, <1>4, TxnSteps

-----------------------------------------------------------------------------
(* Reserved names.                                                         *)

LEMMA SeenStep ==
  ASSUME PubTyped, SeenExpired, [Next]_vars
  PROVE  SeenExpired'
<1>1. Grows /\ pubClock \in Nat
  BY Growing, PublicationAssumption DEF PubTyped, TablesTyped
<1>2. \A r \in deleted : r.availableAt \in Nat
  BY DEF PubTyped, TablesTyped
<1>3. ASSUME NEW q \in Publishers, publisher'[q].pc \in {"checked", "txn", "uploaded"} =>
               /\ publisher[q].pc \in {"checked", "txn", "uploaded"}
               /\ publisher'[q].name = publisher[q].name /\ publisher'[q].seen = publisher[q].seen
      PROVE  publisher'[q].pc \in {"checked", "txn", "uploaded"} =>
               \A r \in publisher'[q].seen :
                 Canon[r.name] = Canon[publisher'[q].name] => r.availableAt <= pubClock'
  <2> SUFFICES ASSUME publisher[q].pc \in {"checked", "txn", "uploaded"}, NEW r \in publisher[q].seen,
                      Canon[r.name] = Canon[publisher[q].name]
               PROVE  r.availableAt <= pubClock'
    BY <1>3
  <2>1. r.availableAt <= pubClock
    BY DEF SeenExpired
  <2>2. r \in deleted
    BY DEF PubTyped, RequestsTyped, Request
  <2> QED
    BY <1>1, <1>2, <2>1, <2>2 DEF Grows
<1>4. ASSUME NEW p \in Publishers, PublishNext(p)
      PROVE  SeenExpired'
  <2>0. ASSUME \A q \in Publishers \ {p} : publisher'[q] = publisher[q],
               publisher'[p].pc \in {"checked", "txn", "uploaded"} =>
               /\ publisher[p].pc \in {"checked", "txn", "uploaded"}
               /\ publisher'[p].name = publisher[p].name /\ publisher'[p].seen = publisher[p].seen
        PROVE  SeenExpired'
    BY <1>3, <2>0 DEF SeenExpired
  <2>1. ASSUME NEW n \in Names, NEW v \in Nums, NEW user \in BOOLEAN, PublishCheck(p, n, v, user)
        PROVE  SeenExpired'
    <3>1. /\ publisher'[p] = Checked(n, v, user)
          /\ \A q \in Publishers \ {p} : publisher'[q] = publisher[q]
      BY <2>1, OneRequest DEF PublishCheck, PubTyped
    <3>2. publisher'[p].name = n /\ publisher'[p].seen = deleted
      BY <3>1 DEF Checked
    <3>3. ASSUME NEW r \in deleted, Canon[r.name] = Canon[n]
          PROVE  r.availableAt <= pubClock
      <4>1. ~(r.availableAt > pubClock)
        BY <2>1, <3>3 DEF PublishCheck, Reservations
      <4> QED
        BY <1>1, <1>2, <4>1
    <3>4. pubClock' = pubClock
      BY <2>1 DEF PublishCheck
    <3> QED
      BY <1>3, <3>1, <3>2, <3>3, <3>4 DEF SeenExpired
  <2>2. ASSUME NEW ns \in SUBSET Names, NEW start \in 0..pubClock, NEW c \in Rows, Opened(p, ns, start, c)
        PROVE  SeenExpired'
    <3>1. publisher[p].pc = "checked" /\ publisher'[p].name = publisher[p].name /\ publisher'[p].seen = publisher[p].seen
      BY <2>2 DEF Opened
    <3> QED
      BY <2>0, <2>2, <3>1 DEF Opened
  <2>3. CASE Upload(p)
    <3>1. publisher' = [publisher EXCEPT ![p].pc = "uploaded"] /\ publisher[p].pc = "txn"
      BY <2>3 DEF Upload
    <3>2. Moves(p, "uploaded")
      BY <3>1, UploadMoves DEF PubTyped
    <3>3. publisher'[p].name = publisher[p].name /\ publisher'[p].seen = publisher[p].seen
      BY <3>2 DEF Moves
    <3> QED
      BY <2>0, <3>1, <3>2, <3>3 DEF Moves
  <2>4. CASE PublishCut(p)
    <3>1. publisher' = [publisher EXCEPT ![p].pc = "cut"]
      BY <2>4 DEF PublishCut
    <3>2. Moves(p, "cut")
      BY <3>1, CutMoves DEF PubTyped
    <3>3. publisher'[p].pc = "cut"
      BY <3>2 DEF Moves
    <3> QED
      BY <2>0, <3>2, <3>3 DEF Moves
  <2>5. CASE PublishRefused(p) \/ PublishCommit(p) \/ PublishRollback(p) \/ UploadCut(p)
    <3>1. publisher' = [publisher EXCEPT ![p] = NoRequest] /\ NoRequest.pc = "idle"
      BY <2>5 DEF PublishRefused, PublishCommit, PublishRollback, UploadCut, NoRequest
    <3>2. publisher'[p].pc = "idle" /\ \A q \in Publishers \ {p} : publisher'[q] = publisher[q]
      BY <3>1, OneRequest DEF PubTyped
    <3> QED
      BY <2>0, <3>2
  <2> QED
    BY <1>4, <2>1, <2>2, <2>3, <2>4, <2>5, TxnOpens DEF PublishNext
<1>5. ASSUME publisher' = publisher
      PROVE  SeenExpired'
  BY <1>3, <1>5 DEF SeenExpired
<1> QED
  BY <1>4, <1>5, RequestsKept

-----------------------------------------------------------------------------
(* The daily limit.                                                        *)

\* A set counts at most one more with one more element.
LEMMA OneMore ==
  ASSUME NEW W, NEW x, IsFiniteSet(W)
  PROVE  /\ IsFiniteSet(W \cup {x})
         /\ Cardinality(W \cup {x}) \in Nat
         /\ Cardinality(W \cup {x}) <= Cardinality(W) + 1
<1> DEFINE n == Cardinality(W)
           m == Cardinality(W \cup {x})
<1>1. IsFiniteSet(W \cup {x}) /\ m = IF x \in W THEN n ELSE n + 1
  BY FS_AddElement
<1>2. n \in Nat /\ m \in Nat
  BY <1>1, FS_CardinalityType
<1> HIDE DEF n, m
<1>3. m <= n + 1
  BY <1>1, <1>2
<1> QED
  BY <1>1, <1>2, <1>3 DEF n, m

\* The versions counted before a crate was deleted are at least those counted after.
LEMMA CountDeleted ==
  ASSUME TablesTyped, IsFiniteSet(versions), NEW id, DeleteRows(id),
         NEW T \in SUBSET versions, NEW U \in SUBSET versions',
         \A v \in versions, u \in U : u.crate = v.crate /\ u.createdAt = v.createdAt => v \in T
  PROVE  IsFiniteSet(U) /\ Cardinality(U) <= Cardinality(T) /\ Cardinality(U) \in Nat /\ Cardinality(T) \in Nat
<1> DEFINE f == [v \in T |-> [crate |-> v.crate, num |-> v.num, by |-> v.by, createdAt |-> v.createdAt,
                              deps |-> v.deps \ {id}]]
           V == {f[v] : v \in T}
<1>1. IsFiniteSet(T)
  BY FS_Subset
<1>2. f \in Surjection(T, V)
  BY DEF Surjection
<1>3. IsFiniteSet(V) /\ Cardinality(V) <= Cardinality(T)
  BY <1>1, <1>2, FS_Surjection
<1>4. ASSUME NEW u \in U
      PROVE  u \in V
  <2>1. PICK v \in versions :
           u = [crate |-> v.crate, num |-> v.num, by |-> v.by, createdAt |-> v.createdAt, deps |-> v.deps \ {id}]
    BY DeletedVersions
  <2>2. u.crate = v.crate /\ u.createdAt = v.createdAt
    BY <2>1
  <2>3. v \in T
    BY <2>2
  <2> QED
    BY <2>1, <2>3
<1>5. U \in SUBSET V
  BY <1>4
<1> HIDE DEF V
<1>6. IsFiniteSet(U) /\ Cardinality(U) <= Cardinality(V)
  BY <1>3, <1>5, FS_Subset
<1> QED
  BY <1>1, <1>3, <1>6, FS_CardinalityType

LEMMA RoomStep ==
  ASSUME PubTyped, TxnsApart, RoomLeft, [Next]_vars
  PROVE  RoomLeft'
<1> DEFINE Since(vs, k, s) == {v \in vs : v.crate = k /\ v.createdAt > s - Day}
<1>1. /\ IsFiniteSet(versions) /\ DailyLimit \in Nat
      /\ \A p \in Publishers : InTxn(p) =>
           Cardinality(Since(versions, publisher[p].crate.id, publisher[p].time)) < DailyLimit
  BY PublicationAssumption DEF RoomLeft, PublishedToday
<1>2. ASSUME IsFiniteSet(versions'),
             \A p \in Publishers : InTxn(p)' =>
               Cardinality(Since(versions', publisher'[p].crate.id, publisher'[p].time)) < DailyLimit
      PROVE  RoomLeft'
  BY <1>2 DEF RoomLeft, PublishedToday
<1>3. ASSUME NEW p \in Publishers, NEW ns \in SUBSET Names, NEW start \in 0..pubClock, NEW c \in Rows,
             Opened(p, ns, start, c)
      PROVE  RoomLeft'
  <2>1. /\ publisher'[p].crate = c /\ publisher'[p].time = start
        /\ \A q \in Publishers \ {p} : publisher'[q] = publisher[q]
        /\ versions' = versions
    BY <1>3 DEF Opened
  <2>2. Cardinality(Since(versions, c.id, start)) < DailyLimit
    BY <1>3 DEF Opened, PublishedToday
  <2> HIDE DEF Since
  <2> QED
    BY <1>1, <1>2, <2>1, <2>2 DEF InTxn
<1>4. ASSUME SameTxns, versions' = versions
      PROVE  RoomLeft'
  <2> HIDE DEF Since
  <2> QED
    BY <1>1, <1>2, <1>4 DEF SameTxns
<1>5. ASSUME SameTxns, NEW p \in Publishers, PublishCommit(p)
      PROVE  RoomLeft'
  <2> DEFINE r == publisher[p]
             new == [crate |-> r.crate.id, num |-> r.num, by |-> p, createdAt |-> r.time, deps |-> r.deps]
  <2>1. versions' = versions \cup {new} /\ publisher' = [publisher EXCEPT ![p] = NoRequest]
    BY <1>5 DEF PublishCommit
  <2>2. InTxn(p) /\ ~InTxn(p)'
    <3>1. publisher'[p].pc = "idle"
      BY <2>1, OneRequest DEF NoRequest, PubTyped
    <3> QED
      BY <1>5, <3>1 DEF PublishCommit, InTxn
  <2>3. IsFiniteSet(versions')
    BY <1>1, <2>1, FS_AddElement
  <2>4. ASSUME NEW q \in Publishers, InTxn(q)'
        PROVE  Cardinality(Since(versions', publisher'[q].crate.id, publisher'[q].time)) < DailyLimit
    <3>1. /\ InTxn(q) /\ q # p /\ publisher'[q].crate = publisher[q].crate
          /\ publisher'[q].time = publisher[q].time
      BY <1>5, <2>2, <2>4 DEF SameTxns
    <3>2. publisher[q].crate.id # new.crate
      BY <2>2, <3>1 DEF TxnsApart
    <3>3. Since(versions', publisher[q].crate.id, publisher[q].time)
            = Since(versions, publisher[q].crate.id, publisher[q].time)
      <4> HIDE DEF new
      <4> QED
        BY <2>1, <3>2
    <3> HIDE DEF Since
    <3> QED
      BY <1>1, <3>1, <3>3
  <2> HIDE DEF Since
  <2> QED
    BY <1>2, <2>3, <2>4
<1>6. ASSUME SameTxns, NEW id \in Nat, RowsDeleted(id)
      PROVE  RoomLeft'
  <2>1. DeleteRows(id)
    BY <1>6 DEF RowsDeleted
  <2>2. ASSUME NEW k, NEW s
        PROVE  /\ Cardinality(Since(versions', k, s)) <= Cardinality(Since(versions, k, s))
               /\ Cardinality(Since(versions', k, s)) \in Nat /\ Cardinality(Since(versions, k, s)) \in Nat
    <3> DEFINE T == Since(versions, k, s)
               U == Since(versions', k, s)
    <3>1. T \in SUBSET versions /\ U \in SUBSET versions'
      OBVIOUS
    <3>2. \A v \in versions, u \in U : u.crate = v.crate /\ u.createdAt = v.createdAt => v \in T
      OBVIOUS
    <3> HIDE DEF T, U
    <3>3. Cardinality(U) <= Cardinality(T) /\ Cardinality(U) \in Nat /\ Cardinality(T) \in Nat
      BY <1>1, <2>1, <3>1, <3>2, CountDeleted DEF PubTyped
    <3> QED
      BY <3>3 DEF T, U
  <2>3. IsFiniteSet(versions')
    <3>1. \A v \in versions, u \in versions' : u.crate = v.crate /\ u.createdAt = v.createdAt => v \in versions
      OBVIOUS
    <3> QED
      BY <1>1, <2>1, <3>1, CountDeleted DEF PubTyped
  <2>4. ASSUME NEW q \in Publishers, InTxn(q)'
        PROVE  Cardinality(Since(versions', publisher'[q].crate.id, publisher'[q].time)) < DailyLimit
    <3>1. InTxn(q) /\ publisher'[q].crate = publisher[q].crate /\ publisher'[q].time = publisher[q].time
      BY <1>6, <2>4 DEF SameTxns
    <3> HIDE DEF Since
    <3> QED
      BY <1>1, <2>2, <3>1
  <2> HIDE DEF Since
  <2> QED
    BY <1>2, <2>3, <2>4
<1> QED
  BY <1>3, <1>4, <1>5, <1>6, TxnSteps

LEMMA DailyStep ==
  ASSUME PubTyped, TxnsApart, RoomLeft, DailyLimitKept, [Next]_vars
  PROVE  DailyLimitKept'
<1> DEFINE During(vs, k, t) == {v \in vs : v.crate = k /\ v.createdAt \in (t - Day + 1)..t}
<1>1. /\ IsFiniteSet(versions) /\ DailyLimit \in Nat /\ Day \in Nat /\ MaxNow \in Nat
      /\ \A c \in crates : \A t \in 0..MaxNow : Cardinality(During(versions, c.id, t)) <= DailyLimit
  BY PublicationAssumption DEF RoomLeft, DailyLimitKept
<1>2. ASSUME \A c \in crates' : \A t \in 0..MaxNow : Cardinality(During(versions', c.id, t)) <= DailyLimit
      PROVE  DailyLimitKept'
  BY <1>2 DEF DailyLimitKept
<1>3. ASSUME UNCHANGED <<crates, versions>>
      PROVE  DailyLimitKept'
  BY <1>3 DEF DailyLimitKept
<1>4. ASSUME NEW p \in Publishers, PublishCommit(p)
      PROVE  DailyLimitKept'
  <2> DEFINE r == publisher[p]
             new == [crate |-> r.crate.id, num |-> r.num, by |-> p, createdAt |-> r.time, deps |-> r.deps]
  <2>1. crates' = crates \cup {r.crate} /\ versions' = versions \cup {new}
    BY <1>4 DEF PublishCommit
  <2>2. InTxn(p)
    BY <1>4 DEF PublishCommit, InTxn
  <2>3. /\ new.crate = r.crate.id /\ new.createdAt = r.time /\ r.time \in Nat
        /\ \A v \in versions : v.createdAt \in Nat
        /\ \A c \in crates : c.id = r.crate.id => c = r.crate
        /\ \A v \in versions : \E c \in crates : c.id = v.crate
    BY <2>2, TxnRequest DEF TxnsApart, PubTyped, TablesTyped, VersionRows
  <2> HIDE DEF new
  <2>4. ASSUME NEW t \in 0..MaxNow
        PROVE  Cardinality(During(versions', r.crate.id, t)) <= DailyLimit
    <3> DEFINE W == During(versions, r.crate.id, t)
               S == {v \in versions : v.crate = r.crate.id /\ v.createdAt > r.time - Day}
    <3>1. IsFiniteSet(W) /\ IsFiniteSet(S) /\ Cardinality(W) \in Nat /\ Cardinality(S) \in Nat
      <4>1. W \in SUBSET versions /\ S \in SUBSET versions
        OBVIOUS
      <4> HIDE DEF W, S
      <4> QED
        BY <1>1, <4>1, FS_Subset, FS_CardinalityType
    <3>2. CASE r.time \in (t - Day + 1)..t
      <4>1. Cardinality(S) < DailyLimit
        BY <2>2 DEF RoomLeft, PublishedToday
      <4>2. ASSUME NEW v \in W
            PROVE  v \in S
        <5>1. v \in versions /\ v.crate = r.crate.id /\ v.createdAt \in Nat /\ v.createdAt >= t - Day + 1
          BY <2>3
        <5>2. v.createdAt > r.time - Day
          BY <1>1, <2>3, <3>2, <5>1
        <5> QED
          BY <5>1, <5>2
      <4>3. During(versions', r.crate.id, t) = W \cup {new}
        BY <2>1, <2>3, <3>2
      <4> HIDE DEF W, S
      <4>4. W \in SUBSET S
        BY <4>2
      <4>5. Cardinality(W) <= Cardinality(S)
        BY <3>1, <4>4, FS_Subset
      <4>6. /\ Cardinality(W \cup {new}) \in Nat
            /\ Cardinality(W \cup {new}) <= Cardinality(W) + 1
        BY <3>1, OneMore
      <4>7. Cardinality(W \cup {new}) <= DailyLimit
        BY <1>1, <3>1, <4>1, <4>5, <4>6
      <4> QED
        BY <4>3, <4>7
    <3>3. CASE r.time \notin (t - Day + 1)..t
      <4>1. During(versions', r.crate.id, t) = W
        BY <2>1, <2>3, <3>3
      <4>2. CASE r.crate \in crates
        BY <1>1, <4>1, <4>2
      <4>3. CASE r.crate \notin crates
        <5>1. W = {}
          BY <2>3, <4>3
        <5>2. During(versions', r.crate.id, t) = {}
          BY <4>1, <5>1
        <5> HIDE DEF During
        <5> QED
          BY <1>1, <5>2, FS_EmptySet
      <4> QED
        BY <4>2, <4>3
    <3> QED
      BY <3>2, <3>3
  <2>5. ASSUME NEW c \in crates', NEW t \in 0..MaxNow
        PROVE  Cardinality(During(versions', c.id, t)) <= DailyLimit
    <3>1. CASE c.id = r.crate.id
      BY <2>4, <3>1
    <3>2. CASE c.id # r.crate.id
      <4>1. c \in crates
        BY <2>1, <3>2
      <4>2. During(versions', c.id, t) = During(versions, c.id, t)
        BY <2>1, <2>3, <3>2
      <4> HIDE DEF During
      <4> QED
        BY <1>1, <4>1, <4>2
    <3> QED
      BY <3>1, <3>2
  <2> HIDE DEF During
  <2> QED
    BY <1>2, <2>5
<1>5. ASSUME NEW id \in Nat, RowsDeleted(id)
      PROVE  DailyLimitKept'
  <2>1. DeleteRows(id) /\ crates' = {c \in crates : c.id # id}
    BY <1>5 DEF RowsDeleted, DeleteRows
  <2>2. ASSUME NEW c \in crates', NEW t \in 0..MaxNow
        PROVE  Cardinality(During(versions', c.id, t)) <= DailyLimit
    <3> DEFINE T == During(versions, c.id, t)
               U == During(versions', c.id, t)
    <3>1. T \in SUBSET versions /\ U \in SUBSET versions'
      OBVIOUS
    <3>2. \A v \in versions, u \in U : u.crate = v.crate /\ u.createdAt = v.createdAt => v \in T
      OBVIOUS
    <3>3. Cardinality(T) <= DailyLimit
      BY <1>1, <2>1
    <3> HIDE DEF T, U
    <3>4. Cardinality(U) <= Cardinality(T) /\ Cardinality(U) \in Nat /\ Cardinality(T) \in Nat
      BY <1>1, <2>1, <3>1, <3>2, CountDeleted DEF PubTyped
    <3>5. Cardinality(U) <= DailyLimit
      BY <1>1, <3>3, <3>4
    <3> QED
      BY <3>5 DEF U
  <2> HIDE DEF During
  <2> QED
    BY <1>2, <2>2
<1>6. ASSUME NEW p \in Publishers, NEW ns \in SUBSET Names, NEW start \in 0..pubClock, NEW c \in Rows,
             Opened(p, ns, start, c)
      PROVE  DailyLimitKept'
  BY <1>3, <1>6 DEF Opened
<1> QED
  BY <1>3, <1>4, <1>5, <1>6, TxnSteps

-----------------------------------------------------------------------------
(* The files.                                                              *)

\* No version and no upload of the name is left.
Unused(k) ==
  /\ \A c \in crates : Canon[c.name] # k
  /\ \A p \in Publishers : publisher[p].pc = "uploaded" => Canon[publisher[p].name] # k

\* What most steps have in common: versions and uploads are those there were, a file goes
\* only for a job of its name, and a job comes only to a name that is not used.
LEMMA FilesKept ==
  ASSUME FilesComplete, MarkedEmpty,
         excused \subseteq excused',
         \A c \in crates', v \in versions' : v.crate = c.id =>
           c \in crates /\ \E u \in versions : u.crate = v.crate /\ u.num = v.num /\ u.by = v.by,
         \A p \in Publishers : publisher'[p].pc = "uploaded" =>
           publisher[p].pc = "uploaded" /\ publisher'[p].name = publisher[p].name /\ publisher'[p].num = publisher[p].num,
         \A f \in files : f \in files' \/ Canon[f.name] \in excused' \/ Marked(Canon[f.name]),
         \A k \in Names : Marked(k)' => k \in excused' \/ Marked(k) \/ Unused(k)',
         \A c \in crates' : Canon[c.name] \in Names,
         \A p \in Publishers : publisher'[p].pc = "uploaded" => Canon[publisher'[p].name] \in Names
  PROVE  FilesComplete' /\ MarkedEmpty'
<1>1. ASSUME NEW c \in crates', NEW v \in versions', v.crate = c.id, Canon[c.name] \notin excused'
      PROVE  [name |-> c.name, num |-> v.num, by |-> v.by] \in files' /\ ~Marked(Canon[c.name])'
  <2>1. PICK u \in versions : u.crate = c.id /\ u.num = v.num /\ u.by = v.by /\ c \in crates
    BY <1>1
  <2>2. Canon[c.name] \notin excused
    BY <1>1
  <2>3. [name |-> c.name, num |-> v.num, by |-> v.by] \in files /\ ~Marked(Canon[c.name])
    BY <2>1, <2>2 DEF FilesComplete, MarkedEmpty
  <2>4. [name |-> c.name, num |-> v.num, by |-> v.by].name = c.name
    OBVIOUS
  <2>5. [name |-> c.name, num |-> v.num, by |-> v.by] \in files'
    BY <1>1, <2>3, <2>4
  <2>6. ~Unused(Canon[c.name])'
    BY DEF Unused
  <2>7. Canon[c.name] \in Names
    OBVIOUS
  <2> HIDE DEF Marked, Unused
  <2> QED
    BY <1>1, <2>3, <2>5, <2>6, <2>7
<1>2. ASSUME NEW p \in Publishers, publisher'[p].pc = "uploaded",
             NEW k, k = Canon[publisher'[p].name], k \notin excused'
      PROVE  /\ ~Marked(k)'
             /\ [name |-> publisher'[p].name, num |-> publisher'[p].num, by |-> p] \in files'
  <2>1. /\ publisher[p].pc = "uploaded" /\ publisher'[p].name = publisher[p].name
        /\ publisher'[p].num = publisher[p].num /\ k = Canon[publisher[p].name] /\ k \notin excused
        /\ k \in Names
    BY <1>2
  <2>2. /\ ~Marked(k)
        /\ [name |-> publisher[p].name, num |-> publisher[p].num, by |-> p] \in files
    BY <2>1 DEF MarkedEmpty
  <2>3. [name |-> publisher[p].name, num |-> publisher[p].num, by |-> p].name = publisher[p].name
    OBVIOUS
  <2>4. [name |-> publisher[p].name, num |-> publisher[p].num, by |-> p] \in files'
    BY <1>2, <2>1, <2>2, <2>3
  <2>5. ~Unused(k)'
    BY <1>2 DEF Unused
  <2> QED
    BY <1>2, <2>1, <2>2, <2>4, <2>5
<1>3. FilesComplete'
  BY <1>1 DEF FilesComplete
<1>4. MarkedEmpty'
  BY <1>1, <1>2 DEF MarkedEmpty
<1> QED
  BY <1>3, <1>4

\* A crate is deleted while nobody publishes to it.
LEMMA DeletedUnused ==
  ASSUME PubTyped, TxnsApart, NEW c \in crates, RowsDeleted(c.id)
  PROVE  Unused(Canon[c.name])'
<1>1. /\ crates' = {d \in crates : d.id # c.id} /\ publisher' = publisher
      /\ \A p \in Publishers : InTxn(p) => c.id # publisher[p].crate.id
  BY DEF RowsDeleted, DeleteRows, Unlocked
<1>2. \A d \in crates' : Canon[d.name] # Canon[c.name]
  BY <1>1 DEF TxnsApart
<1>3. ASSUME NEW p \in Publishers, publisher[p].pc = "uploaded", Canon[publisher[p].name] = Canon[c.name]
      PROVE  FALSE
  <2>1. InTxn(p)
    BY <1>3 DEF InTxn
  <2>2. c = publisher[p].crate
    BY <1>3, <2>1 DEF TxnsApart
  <2> QED
    BY <1>1, <2>1, <2>2
<1> QED
  BY <1>1, <1>2, <1>3 DEF Unused

\* The crates and uploads after a step have canonical names.
LEMMA CanonicalNames ==
  ASSUME PubTyped'
  PROVE  /\ \A c \in crates' : Canon[c.name] \in Names
         /\ \A p \in Publishers : publisher'[p].pc = "uploaded" => Canon[publisher'[p].name] \in Names
<1>1. \A c \in crates' : c.name \in Names
  BY DEF PubTyped, TablesTyped, Rows
<1>2. \A p \in Publishers : publisher'[p].pc = "uploaded" => publisher'[p].name \in Names
  BY DEF PubTyped, RequestsTyped
<1> QED
  BY <1>1, <1>2, CanonTyped

\* The steps of publish.
LEMMA PublishFiles ==
  ASSUME PubTyped, PubTyped', TxnsApart, SeenExpired, FilesComplete, MarkedEmpty,
         NEW p \in Publishers, PublishNext(p)
  PROVE  FilesComplete' /\ MarkedEmpty'
<1> DEFINE r == publisher[p]
<1>1. UNCHANGED <<queued, admin, run>>
  BY DEF PublishNext, PublishCheck, PublishTxn, PublishRefused, Upload, PublishCommit, PublishRollback,
         PublishCut, UploadCut
<1>2. \A k : Marked(k)' <=> Marked(k)
  BY <1>1 DEF Marked
<1>3. ASSUME UNCHANGED <<crates, versions>>, excused \subseteq excused',
             \A q \in Publishers : publisher'[q].pc = "uploaded" => publisher'[q] = publisher[q],
             \A f \in files : f \in files' \/ Canon[f.name] \in excused'
      PROVE  FilesComplete' /\ MarkedEmpty'
  BY <1>2, <1>3, FilesKept, CanonicalNames
<1>4. ASSUME UNCHANGED <<crates, versions, files, excused>>,
             \A q \in Publishers \ {p} : publisher'[q] = publisher[q], publisher'[p].pc # "uploaded"
      PROVE  FilesComplete' /\ MarkedEmpty'
  BY <1>3, <1>4
<1>5. ASSUME NEW n \in Names, NEW v \in Nums, NEW user \in BOOLEAN, PublishCheck(p, n, v, user)
      PROVE  FilesComplete' /\ MarkedEmpty'
  <2>1. Checked(n, v, user).pc = "checked"
    BY DEF Checked
  <2> QED
    BY <1>4, <1>5, <2>1, OneRequest DEF PublishCheck, PubTyped, tables
<1>6. ASSUME NEW ns \in SUBSET Names, NEW start \in 0..pubClock, NEW c \in Rows, Opened(p, ns, start, c)
      PROVE  FilesComplete' /\ MarkedEmpty'
  <2>1. publisher'[p].pc = "txn"
    BY <1>6 DEF Opened
  <2> QED
    BY <1>4, <1>6, <2>1 DEF Opened
<1>7. CASE PublishRefused(p) \/ PublishRollback(p)
  <2>1. NoRequest.pc = "idle" /\ publisher' = [publisher EXCEPT ![p] = NoRequest]
    BY <1>7 DEF NoRequest, PublishRefused, PublishRollback
  <2> QED
    BY <1>4, <1>7, <2>1, OneRequest DEF PublishRefused, PublishRollback, PubTyped, tables
<1>8. CASE PublishCut(p)
  <2>1. publisher' = [publisher EXCEPT ![p].pc = "cut"]
    BY <1>8 DEF PublishCut
  <2>2. Moves(p, "cut")
    BY <2>1, CutMoves DEF PubTyped
  <2>3. publisher'[p].pc = "cut" /\ \A q \in Publishers \ {p} : publisher'[q] = publisher[q]
    BY <2>2 DEF Moves
  <2> QED
    BY <1>4, <1>8, <2>3 DEF PublishCut, tables
<1>9. CASE UploadCut(p)
  <2>1. /\ NoRequest.pc = "idle" /\ publisher' = [publisher EXCEPT ![p] = NoRequest]
        /\ UNCHANGED <<crates, versions>> /\ excused' = excused \cup {Canon[r.name]} /\ files' = Uploaded(p)
    BY <1>9 DEF NoRequest, UploadCut, tables
  <2>2. publisher'[p].pc = "idle" /\ \A q \in Publishers \ {p} : publisher'[q] = publisher[q]
    BY <2>1, OneRequest DEF PubTyped
  <2>3. \A f \in files : f \in files' \/ Canon[f.name] \in excused'
    BY <2>1 DEF Uploaded
  <2> QED
    BY <1>3, <2>1, <2>2, <2>3
<1>10. CASE Upload(p)
  <2> DEFINE file == [name |-> r.name, num |-> r.num, by |-> p]
  <2>1. /\ publisher' = [publisher EXCEPT ![p].pc = "uploaded"] /\ r.pc = "txn"
        /\ crates' = crates /\ versions' = versions
        /\ files' = Uploaded(p)
        /\ excused' = IF Canon[r.name] \in Pending /\ Reservations(r.name) \cap r.seen = {}
                      THEN excused \cup {Canon[r.name]} ELSE excused
    BY <1>10 DEF Upload, tables
  <2>2. InTxn(p) /\ r.name \in Names
    BY <2>1 DEF InTxn, PubTyped, RequestsTyped
  <2>3. /\ publisher'[p].pc = "uploaded" /\ publisher'[p].name = r.name /\ publisher'[p].num = r.num
        /\ \A q \in Publishers \ {p} : publisher'[q] = publisher[q]
    <3>1. Moves(p, "uploaded")
      BY <2>1, UploadMoves DEF PubTyped
    <3> QED
      BY <3>1 DEF Moves
  <2>4. Reservations(r.name) \cap r.seen = {}
    <3> SUFFICES ASSUME NEW x \in Reservations(r.name), x \in r.seen PROVE FALSE
      OBVIOUS
    <3>1. Canon[x.name] = Canon[r.name] /\ x.availableAt > pubClock /\ x \in deleted
      BY DEF Reservations
    <3>2. x.availableAt <= pubClock
      BY <2>1, <3>1 DEF SeenExpired
    <3>3. x.availableAt \in Nat /\ pubClock \in Nat
      BY <3>1, PublicationAssumption DEF PubTyped, TablesTyped
    <3> QED
      BY <3>1, <3>2, <3>3
  <2>5. excused \subseteq excused' /\ (Canon[r.name] \in Pending => Canon[r.name] \in excused')
    BY <2>1, <2>4
  <2>6. Marked(Canon[r.name]) => Canon[r.name] \in Pending
    <3>1. /\ \A n \in Names : queued[n] > 0 => Canon[n] \in Pending
          /\ \A w \in Workers : run[w].pc = "listed" => Canon[run[w].name] \in Pending
          /\ \A a \in Admins : admin[a].pc = "deleted" => Canon[admin[a].name] \in Pending
      BY DEF Pending
    <3> QED
      BY <3>1 DEF Marked
  <2>7. file \in files' /\ \A f \in files : f \in files' \/ (f.name = r.name /\ f.num = r.num)
    BY <2>1 DEF Uploaded
  <2>8. ASSUME NEW c \in crates, NEW v \in versions, v.crate = c.id, Canon[c.name] \notin excused'
        PROVE  [name |-> c.name, num |-> v.num, by |-> v.by] \in files' /\ ~Marked(Canon[c.name])
    <3> DEFINE f == [name |-> c.name, num |-> v.num, by |-> v.by]
    <3>1. f \in files /\ ~Marked(Canon[c.name])
      BY <2>5, <2>8 DEF FilesComplete, MarkedEmpty
    <3>2. ASSUME c.name = r.name, v.num = r.num
          PROVE  FALSE
      <4>1. c = r.crate
        BY <2>2, <3>2 DEF TxnsApart
      <4> QED
        BY <2>2, <2>8, <3>2, <4>1 DEF TxnsApart
    <3>3. f.name = c.name /\ f.num = v.num
      OBVIOUS
    <3> HIDE DEF f
    <3>4. f \in files'
      BY <2>7, <3>1, <3>2, <3>3
    <3> QED
      BY <3>1, <3>4 DEF f
  <2>9. ASSUME NEW q \in Publishers, publisher'[q].pc = "uploaded", Canon[publisher'[q].name] \notin excused'
        PROVE  /\ ~Marked(Canon[publisher'[q].name])
               /\ [name |-> publisher'[q].name, num |-> publisher'[q].num, by |-> q] \in files'
    <3>1. CASE q = p
      BY <2>3, <2>5, <2>6, <2>7, <2>9, <3>1
    <3>2. CASE q # p
      <4> DEFINE f == [name |-> publisher[q].name, num |-> publisher[q].num, by |-> q]
      <4>1. publisher'[q] = publisher[q] /\ publisher[q].pc = "uploaded"
        BY <2>3, <2>9, <3>2
      <4>2. f \in files /\ ~Marked(Canon[publisher[q].name])
        BY <2>5, <2>9, <4>1 DEF MarkedEmpty
      <4>3. Canon[publisher[q].name] # Canon[r.name]
        BY <2>2, <3>2, <4>1 DEF TxnsApart, InTxn
      <4>4. f.name = publisher[q].name
        OBVIOUS
      <4>5. f \in files'
        BY <2>7, <4>2, <4>3, <4>4
      <4> QED
        BY <4>1, <4>2, <4>5
    <3> QED
      BY <3>1, <3>2
  <2> HIDE DEF r
  <2>10. FilesComplete'
    BY <2>1, <2>8 DEF FilesComplete
  <2>11. MarkedEmpty'
    <3>1. \A c \in crates' : \A v \in versions' :
            v.crate = c.id /\ Canon[c.name] \notin excused' => ~Marked(Canon[c.name])'
      BY <1>2, <2>1, <2>8
    <3>2. ASSUME NEW q \in Publishers, publisher'[q].pc = "uploaded",
                 NEW k, k = Canon[publisher'[q].name], k \notin excused'
          PROVE  ~Marked(k)'
      BY <1>2, <2>9, <3>2
    <3> QED
      BY <2>9, <3>1, <3>2 DEF MarkedEmpty
  <2> QED
    BY <2>10, <2>11
<1>11. CASE PublishCommit(p)
  <2> DEFINE new == [crate |-> r.crate.id, num |-> r.num, by |-> p, createdAt |-> r.time, deps |-> r.deps]
  <2>1. /\ crates' = crates \cup {r.crate} /\ versions' = versions \cup {new}
        /\ publisher' = [publisher EXCEPT ![p] = NoRequest] /\ r.pc = "uploaded"
        /\ files' = files /\ excused' = excused
    BY <1>11 DEF PublishCommit
  <2>2. /\ NoRequest.pc = "idle" /\ publisher'[p] = NoRequest
        /\ \A q \in Publishers \ {p} : publisher'[q] = publisher[q]
    BY <2>1, OneRequest DEF NoRequest, PubTyped
  <2>3. InTxn(p)
    BY <2>1 DEF InTxn
  <2>4. /\ r.crate.name = r.name
        /\ \A c \in crates : c.id = r.crate.id => c = r.crate
        /\ \A v \in versions : \E c \in crates : c.id = v.crate
    BY <2>3 DEF TxnsApart, PubTyped, TablesTyped
  <2>5. new.crate = r.crate.id /\ new.num = r.num /\ new.by = p
    OBVIOUS
  <2>6. Canon[r.name] \notin excused =>
          ~Marked(Canon[r.name]) /\ [name |-> r.name, num |-> r.num, by |-> p] \in files
    BY <2>1 DEF MarkedEmpty
  <2> HIDE DEF new
  <2>7. ASSUME NEW c \in crates', NEW v \in versions', v.crate = c.id, Canon[c.name] \notin excused
        PROVE  [name |-> c.name, num |-> v.num, by |-> v.by] \in files /\ ~Marked(Canon[c.name])
    <3>1. CASE v = new
      <4>1. c = r.crate
        BY <2>1, <2>4, <2>5, <2>7, <3>1
      <4> QED
        BY <2>4, <2>5, <2>6, <2>7, <3>1, <4>1
    <3>2. CASE v # new
      <4>1. v \in versions
        BY <2>1, <3>2
      <4>2. c \in crates
        BY <2>1, <2>4, <2>7, <4>1
      <4> QED
        BY <2>7, <4>1, <4>2 DEF FilesComplete, MarkedEmpty
    <3> QED
      BY <3>1, <3>2
  <2>8. FilesComplete'
    BY <2>1, <2>7 DEF FilesComplete
  <2>9. MarkedEmpty'
    <3>1. \A c \in crates' : \A v \in versions' :
            v.crate = c.id /\ Canon[c.name] \notin excused' => ~Marked(Canon[c.name])'
      BY <1>2, <2>1, <2>7
    <3>2. ASSUME NEW q \in Publishers, publisher'[q].pc = "uploaded",
                 NEW k, k = Canon[publisher'[q].name], k \notin excused'
          PROVE  ~Marked(k)' /\ [name |-> publisher'[q].name, num |-> publisher'[q].num, by |-> q] \in files'
      <4>1. publisher'[q] = publisher[q]
        BY <2>2, <3>2
      <4> QED
        BY <1>2, <2>1, <3>2, <4>1 DEF MarkedEmpty
    <3> QED
      BY <3>1, <3>2 DEF MarkedEmpty
  <2> QED
    BY <2>8, <2>9
<1> QED
  BY <1>5, <1>6, <1>7, <1>8, <1>9, <1>10, <1>11, TxnOpens DEF PublishNext

LEMMA DeletedVersionsRemain ==
  ASSUME PubTyped, NEW id, DeleteRows(id)
  PROVE  \A c \in crates', v \in versions' : v.crate = c.id =>
           c \in crates /\ \E u \in versions : u.crate = v.crate /\ u.num = v.num /\ u.by = v.by
<1>1. \A v \in versions' : \E u \in versions : u.crate = v.crate /\ u.num = v.num /\ u.by = v.by
  BY DeletedVersions DEF PubTyped
<1> QED
  BY <1>1 DEF DeleteRows

\* A job that is enqueued marks its name, or excuses it.
LEMMA EnqueueMarks ==
  ASSUME PubTyped, NEW n \in Names, NEW found, EnqueueStorage(n, found)
  PROVE  /\ excused \subseteq excused'
         /\ ~found => Canon[n] \in excused'
         /\ \A m \in Names \ {n} : queued'[m] = queued[m]
  BY DEF EnqueueStorage, PubTyped, JobsTyped

LEMMA DeleteFiles ==
  ASSUME PubTyped, PubTyped', TxnsApart, FilesComplete, MarkedEmpty,
         NEW d \in Deleters, DeleteNext(d)
  PROVE  FilesComplete' /\ MarkedEmpty'
<1>1. /\ UNCHANGED <<files, publisher, admin, run>>
      /\ DeleteCommit(d) \/ UNCHANGED <<crates, versions, queued, excused>>
  BY DEF DeleteNext, DeleteCheck, DeleteCommit, DeleteFail, tables
<1>2. CASE UNCHANGED <<crates, versions, queued, excused>>
  <2>1. \A k : Marked(k)' <=> Marked(k)
    BY <1>1, <1>2 DEF Marked
  <2> QED
    BY <1>1, <1>2, <2>1, FilesKept, CanonicalNames
<1>3. CASE DeleteCommit(d)
  <2>0. PICK c, n : c = deleter[d].crate /\ n = deleter[d].path
    OBVIOUS
  <2>1. /\ n \in Names /\ Canon[n] = Canon[c.name] /\ c \in Rows
        /\ EnqueueStorage(n, c \in crates) /\ DeleteRows(c.id) /\ Unlocked(c.id)
        /\ UNCHANGED <<pubClock, nextId, publisher>>
        /\ deleted' = deleted \cup {[name |-> c.name, availableAt |-> pubClock + Day]}
    <3>1. deleter[d].pc = "checked"
      BY <1>3 DEF DeleteCommit
    <3>2. deleter[d].path \in Names /\ deleter[d].crate \in Rows
      BY <3>1 DEF PubTyped, JobsTyped, DeleterRecords, Idle
    <3> QED
      BY <1>3, <2>0, <3>1, <3>2 DEF PubTyped, JobsTyped, DeleteCommit
  <2>2. RowsDeleted(c.id)
    <3>1. c.name \in Names /\ Day \in Nat /\ pubClock \in Nat
      BY <2>1, PublicationAssumption DEF Rows, PubTyped, TablesTyped
    <3>2. pubClock + Day \in Nat
      BY <3>1
    <3> QED
      BY <2>1, <3>1, <3>2 DEF RowsDeleted
  <2>3. c \in crates => Unused(Canon[c.name])'
    BY <2>2, DeletedUnused
  <2>4. ASSUME NEW k \in Names, Marked(k)'
        PROVE  k \in excused' \/ Marked(k) \/ Unused(k)'
    <3>1. CASE k = Canon[n] /\ c \in crates
      <4>1. k = Canon[c.name]
        BY <2>1, <3>1
      <4>2. PICK key : key = Canon[c.name]
        OBVIOUS
      <4>3. Unused(key)'
        BY <2>3, <3>1, <4>2
      <4> QED
        BY <4>1, <4>2, <4>3
    <3>2. CASE k = Canon[n] /\ c \notin crates
      <4>1. EnqueueStorage(n, c \in crates)
        BY <2>1
      <4>2. Canon[n] \in excused'
        BY <3>2, <4>1 DEF EnqueueStorage
      <4> QED
        BY <3>2, <4>2
    <3>3. CASE k # Canon[n]
      BY <1>1, <2>1, <2>4, <3>3, EnqueueMarks DEF Marked
    <3> QED
      BY <3>1, <3>2, <3>3
  <2>5. excused \subseteq excused'
    BY <2>1, EnqueueMarks
  <2> QED
    BY <1>1, <2>1, <2>4, <2>5, DeletedVersionsRemain, FilesKept, CanonicalNames
<1> QED
  BY <1>1, <1>2, <1>3

LEMMA AdminFiles ==
  ASSUME PubTyped, PubTyped', TxnsApart, FilesComplete, MarkedEmpty,
         NEW a \in Admins, AdminNext(a)
  PROVE  FilesComplete' /\ MarkedEmpty'
<1>1. UNCHANGED <<files, publisher, run>>
  BY DEF AdminNext, AdminLookup, AdminDelete, AdminSkip, AdminEnqueue, AdminStop
<1>2. admin \in [Admins -> AdminRecords]
  BY DEF PubTyped, JobsTyped
<1>3. ASSUME UNCHANGED <<crates, versions>>, excused \subseteq excused',
             \A k \in Names : Marked(k)' => k \in excused' \/ Marked(k)
      PROVE  FilesComplete' /\ MarkedEmpty'
  BY <1>1, <1>3, FilesKept, CanonicalNames
<1>4. ASSUME UNCHANGED <<crates, versions, queued, excused>>,
             NEW r, admin' = [admin EXCEPT ![a] = r], r.pc = "deleted" => ~r.found
      PROVE  FilesComplete' /\ MarkedEmpty'
  <2>1. \A b \in Admins : admin'[b].pc = "deleted" /\ admin'[b].found => admin'[b] = admin[b]
    BY <1>2, <1>4
  <2>2. \A k \in Names : Marked(k)' => Marked(k)
    BY <1>1, <1>4, <2>1 DEF Marked
  <2> QED
    BY <1>3, <1>4, <2>2
<1>5. ASSUME NEW n \in Names, AdminLookup(a, n)
      PROVE  FilesComplete' /\ MarkedEmpty'
  BY <1>4, <1>5 DEF AdminLookup, tables
<1>6. CASE AdminSkip(a)
  BY <1>4, <1>6 DEF AdminSkip, tables
<1>7. CASE AdminStop(a)
  BY <1>4, <1>7 DEF AdminStop, Idle, tables
<1>8. CASE AdminEnqueue(a)
  <2> DEFINE n == admin[a].name
  <2>1. /\ admin[a].pc = "deleted" /\ n \in Names
        /\ EnqueueStorage(n, admin[a].found)
        /\ admin' = [admin EXCEPT ![a] = Idle] /\ UNCHANGED <<crates, versions>>
    <3>1. admin[a].pc = "deleted"
      BY <1>8 DEF AdminEnqueue
    <3>2. admin[a].name \in Names
      BY <1>2, <3>1 DEF AdminRecords, Idle
    <3> QED
      BY <1>8, <3>2 DEF AdminEnqueue, tables
  <2>2. \A b \in Admins : admin'[b].pc = "deleted" => admin'[b] = admin[b]
    BY <1>2, <2>1 DEF Idle
  <2>3. ASSUME NEW k \in Names, Marked(k)'
        PROVE  k \in excused' \/ Marked(k)
    <3>1. CASE k = Canon[n]
      BY <2>1, <3>1, EnqueueMarks DEF Marked
    <3>2. CASE k # Canon[n]
      <4>1. \A m \in Names \ {n} : queued'[m] = queued[m]
        BY <2>1, EnqueueMarks
      <4> QED
        BY <1>1, <2>2, <2>3, <3>2, <4>1 DEF Marked
    <3> QED
      BY <3>1, <3>2
  <2>4. excused \subseteq excused'
    BY <2>1, EnqueueMarks
  <2> QED
    BY <1>3, <2>1, <2>3, <2>4
<1>9. ASSUME NEW delay \in AdminDelays, NEW start \in 0..pubClock, AdminDelete(a, delay, start)
      PROVE  FilesComplete' /\ MarkedEmpty'
  <2>0. PICK c : c = CHOOSE x \in admin[a].crates : TRUE
    OBVIOUS
  <2>9. PICK r : r = [pc |-> "deleted", name |-> c.name, found |-> c \in crates]
    OBVIOUS
  <2>1. /\ Unlocked(c.id) /\ DeleteRows(c.id) /\ UNCHANGED <<pubClock, nextId, publisher>>
        /\ deleted' = deleted \cup {[name |-> c.name, availableAt |-> start + delay]}
        /\ admin' = [admin EXCEPT ![a] = r] /\ UNCHANGED <<queued, excused>>
    BY <1>9, <2>0, <2>9 DEF AdminDelete
  <2>2. c \in Rows
    <3>1. admin[a].crates \subseteq Rows
      BY <1>2, <1>9 DEF AdminRecords, AdminDelete, Idle
    <3> QED
      BY <1>9, <2>0, <3>1 DEF AdminDelete
  <2>3. RowsDeleted(c.id)
    <3>1. c.name \in Names /\ delay \in Nat /\ start \in Nat
      BY <2>2, PublicationAssumption DEF Rows
    <3>2. start + delay \in Nat
      BY <3>1
    <3> QED
      BY <2>1, <3>1, <3>2 DEF RowsDeleted
  <2>4. r.name = c.name /\ (r.found <=> c \in crates)
    BY <2>9
  <2>5. r.found => Unused(Canon[r.name])'
    BY <2>3, <2>4, DeletedUnused
  <2>6. \A b \in Admins : admin'[b] = admin[b] \/ admin'[b] = r
    BY <1>2, <2>1
  <2>7. ASSUME NEW k \in Names, Marked(k)'
        PROVE  Marked(k) \/ Unused(k)'
    <3>1. \/ \E n \in Names : queued[n] > 0 /\ k = Canon[n]
          \/ \E w \in Workers : run[w].pc = "listed" /\ k = Canon[run[w].name]
          \/ \E b \in Admins : admin'[b].pc = "deleted" /\ admin'[b].found /\ k = Canon[admin'[b].name]
      BY <1>1, <2>1, <2>7 DEF Marked
    <3>2. ASSUME NEW b \in Admins, admin'[b].pc = "deleted", admin'[b].found, k = Canon[admin'[b].name]
          PROVE  Marked(k) \/ Unused(k)'
      <4>1. CASE admin'[b] = admin[b]
        BY <3>2, <4>1 DEF Marked
      <4>2. CASE admin'[b] = r
        BY <2>5, <3>2, <4>2
      <4> QED
        BY <2>6, <4>1, <4>2
    <3> QED
      BY <3>1, <3>2 DEF Marked
  <2> QED
    BY <1>1, <2>1, <2>7, DeletedVersionsRemain, FilesKept, CanonicalNames
<1> QED
  BY <1>5, <1>6, <1>7, <1>8, <1>9 DEF AdminNext

LEMMA StorageFiles ==
  ASSUME PubTyped, PubTyped', FilesComplete, MarkedEmpty, NEW w \in Workers, StorageNext(w)
  PROVE  FilesComplete' /\ MarkedEmpty'
<1>1. UNCHANGED <<crates, versions, excused, publisher, admin>>
  BY DEF StorageNext, StorageList, StorageDelete, StorageFail, tables
<1>2. queued \in [Names -> 0..MaxRows] /\ run \in [Workers -> RunRecords]
  BY DEF PubTyped, JobsTyped
<1>3. ASSUME \A f \in files : f \in files' \/ Marked(Canon[f.name]),
             \A k \in Names : Marked(k)' => Marked(k)
      PROVE  FilesComplete' /\ MarkedEmpty'
  BY <1>1, <1>3, FilesKept, CanonicalNames
<1>4. ASSUME run[w].pc = "listed", NEW f, <<f.name, f.num>> \in Keys(run[w].files)
      PROVE  Marked(Canon[f.name])
  <2>1. f.name = run[w].name
    BY <1>4 DEF Keys, PubTyped, JobsTyped
  <2> QED
    BY <1>4, <2>1 DEF Marked
<1>5. ASSUME NEW n \in Names, StorageList(w, n)
      PROVE  FilesComplete' /\ MarkedEmpty'
  <2>1. /\ files' = files /\ queued[n] > 0 /\ queued' = [queued EXCEPT ![n] = queued[n] - 1]
        /\ run' = [run EXCEPT ![w] = [pc |-> "listed", name |-> n, files |-> {f \in files : f.name = n}]]
    BY <1>5 DEF StorageList
  <2>2. \A m \in Names : queued'[m] > 0 => queued[m] > 0
    BY <1>2, <2>1, PublicationAssumption
  <2>3. \A x \in Workers : run'[x] = run[x] \/ run'[x].name = n
    BY <1>2, <2>1
  <2>4. \A k \in Names : Marked(k)' => Marked(k)
    BY <1>1, <2>1, <2>2, <2>3 DEF Marked
  <2> QED
    BY <1>3, <2>1, <2>4
<1>6. CASE StorageDelete(w)
  <2>1. /\ run[w].pc = "listed" /\ run' = [run EXCEPT ![w] = Idle] /\ queued' = queued
        /\ files' = {f \in files : <<f.name, f.num>> \notin Keys(run[w].files)}
    BY <1>6 DEF StorageDelete
  <2>2. \A x \in Workers : run'[x].pc = "listed" => run'[x] = run[x]
    BY <1>2, <2>1 DEF Idle
  <2>3. \A k \in Names : Marked(k)' => Marked(k)
    BY <1>1, <2>1, <2>2 DEF Marked
  <2>4. \A f \in files : f \in files' \/ Marked(Canon[f.name])
    BY <1>4, <2>1
  <2> QED
    BY <1>3, <2>3, <2>4
<1>7. CASE StorageFail(w)
  <2>1. /\ run[w].pc = "listed" /\ run' = [run EXCEPT ![w] = Idle]
        /\ queued' = [queued EXCEPT ![run[w].name] = queued[run[w].name] + 1]
    BY <1>7 DEF StorageFail
  <2>2. PICK part \in SUBSET Keys(run[w].files) : files' = {f \in files : <<f.name, f.num>> \notin part}
    BY <1>7 DEF StorageFail
  <2>3. \A x \in Workers : run'[x].pc = "listed" => run'[x] = run[x]
    BY <1>2, <2>1 DEF Idle
  <2>4. \A m \in Names : queued'[m] > 0 => queued[m] > 0 \/ m = run[w].name
    BY <1>2, <2>1
  <2>5. \A k \in Names : Marked(k)' => Marked(k)
    BY <1>1, <2>1, <2>3, <2>4 DEF Marked
  <2>6. \A f \in files : f \in files' \/ Marked(Canon[f.name])
    BY <1>4, <2>1, <2>2
  <2> QED
    BY <1>3, <2>5, <2>6
<1> QED
  BY <1>5, <1>6, <1>7 DEF StorageNext

LEMMA FilesStep ==
  ASSUME PubTyped, PubTyped', TxnsApart, SeenExpired, FilesComplete, MarkedEmpty, [Next]_vars
  PROVE  FilesComplete' /\ MarkedEmpty'
<1>1. CASE UNCHANGED vars \/ PassTime
  <2>1. UNCHANGED <<crates, versions, files, excused, publisher, queued, run, admin>>
    BY <1>1 DEF vars, PassTime, tables
  <2>2. \A k : Marked(k)' <=> Marked(k)
    BY <2>1 DEF Marked
  <2> QED
    BY <2>1, <2>2, FilesKept, CanonicalNames
<1> QED
  BY <1>1, PublishFiles, DeleteFiles, AdminFiles, StorageFiles DEF Next


-----------------------------------------------------------------------------
(* The theorems.                                                           *)

PubInd == PubTyped /\ TxnsApart /\ SeenExpired /\ RoomLeft /\ MarkedEmpty /\ FilesComplete /\ DailyLimitKept

LEMMA PubInit == Init => PubInd
<1> SUFFICES ASSUME Init PROVE PubInd
  OBVIOUS
<1>1. PubTyped
  BY PubTypedInit
<1>2. /\ crates = {} /\ versions = {}
      /\ \A p \in Publishers : publisher[p].pc = "idle"
  <2>1. NoRequest.pc = "idle"
    BY DEF NoRequest
  <2> QED
    BY <2>1 DEF Init
<1>3. TxnsApart /\ SeenExpired /\ MarkedEmpty
  BY <1>2 DEF TxnsApart, SeenExpired, MarkedEmpty, InTxn
<1>4. RoomLeft
  BY <1>2, FS_EmptySet DEF RoomLeft, InTxn
<1>5. FilesComplete /\ DailyLimitKept
  BY <1>2 DEF FilesComplete, DailyLimitKept
<1> QED
  BY <1>1, <1>3, <1>4, <1>5 DEF PubInd

LEMMA PubStep == PubInd /\ [Next]_vars => PubInd'
<1> SUFFICES ASSUME PubInd, [Next]_vars PROVE PubInd'
  OBVIOUS
<1>1. PubTyped /\ TxnsApart /\ SeenExpired /\ RoomLeft /\ MarkedEmpty /\ FilesComplete /\ DailyLimitKept
  BY DEF PubInd
<1>2. PubTyped'
  BY <1>1, TablesStep, RequestsStep, JobsStep DEF PubTyped
<1>3. TxnsApart' /\ SeenExpired'
  BY <1>1, <1>2, ApartStep, SeenStep
<1>4. RoomLeft' /\ DailyLimitKept'
  BY <1>1, <1>2, <1>3, RoomStep, DailyStep
<1>5. FilesComplete' /\ MarkedEmpty'
  BY <1>1, <1>2, FilesStep
<1> QED
  BY <1>2, <1>3, <1>4, <1>5 DEF PubInd

LEMMA PubTypes == PubTyped => TypeOK
<1> SUFFICES ASSUME PubTyped PROVE TypeOK
  OBVIOUS
<1>1. pubClock \in 0..MaxNow /\ pubClock \in Nat
  BY PublicationAssumption DEF PubTyped, TablesTyped
<1>2. ASSUME NEW c \in crates
      PROVE  c \in [id : 1..MaxId, name : Names, createdAt : 0..pubClock]
  <2>1. c \in Rows /\ c.createdAt <= pubClock
    BY DEF PubTyped, TablesTyped
  <2>2. c.createdAt \in 0..pubClock
    BY <1>1, <2>1 DEF Rows
  <2> QED
    BY <2>1, <2>2 DEF Rows
<1>3. \A v \in versions : v.deps \subseteq {c.id : c \in crates}
  <2>1. \A v \in versions : v.deps \subseteq Nat /\ \A i \in v.deps : \E c \in crates : c.id = i
    BY DEF PubTyped, TablesTyped, VersionRows
  <2> QED
    BY <2>1
<1> QED
  BY <1>1, <1>2, <1>3 DEF TypeOK, PubTyped, TablesTyped, RequestsTyped, JobsTyped

\* Whatever publish, delete_crate, the operator's tool and DeleteCrateFromStorage do at
\* the same time: rows refer to crates that there are, each version has its own file
\* unless its name has met a race, and no crate has more new versions in a day than
\* new_version_rate_limit.
THEOREM PublicationIsSound == Spec => []PublicationInv
<1>1. Init => PubInd
  BY PubInit
<1>2. PubInd /\ [Next]_vars => PubInd'
  BY PubStep
<1>3. PubInd => PublicationInv
  BY PubTypes DEF PubInd, PublicationInv
<1> QED
  BY <1>1, <1>2, <1>3, PTL DEF Spec

\* A step creates no crate but that of a request that commits.
LEMMA CratesCreated ==
  ASSUME [Next]_vars, NEW c \in crates' \ crates
  PROVE  \E p \in Publishers : PublishCommit(p) /\ publisher[p].crate = c
<1>1. c \in crates' /\ c \notin crates
  OBVIOUS
<1>2. ASSUME NEW p \in Publishers, PublishNext(p)
      PROVE  PublishCommit(p) /\ publisher[p].crate = c
  <2>1. PublishCommit(p) \/ crates' = crates
    BY <1>2 DEF PublishNext, PublishCheck, PublishTxn, PublishRefused, Upload, PublishRollback,
                PublishCut, UploadCut, tables
  <2>2. PublishCommit(p)
    BY <1>1, <2>1
  <2>3. crates' = crates \cup {publisher[p].crate}
    BY <2>2 DEF PublishCommit
  <2> QED
    BY <1>1, <2>2, <2>3
<1>3. \A id : DeleteRows(id) => crates' \subseteq crates
  BY DEF DeleteRows
<1>4. ASSUME NEW d \in Deleters, DeleteNext(d)
      PROVE  FALSE
  <2>1. crates' = crates \/ \E id : DeleteRows(id)
    BY <1>4 DEF DeleteNext, DeleteCheck, DeleteCommit, DeleteFail, tables
  <2> QED
    BY <1>1, <1>3, <2>1
<1>5. ASSUME NEW a \in Admins, AdminNext(a)
      PROVE  FALSE
  <2>1. crates' = crates \/ \E id : DeleteRows(id)
    BY <1>5 DEF AdminNext, AdminLookup, AdminDelete, AdminSkip, AdminEnqueue, AdminStop, tables
  <2> QED
    BY <1>1, <1>3, <2>1
<1>6. ASSUME NEW w \in Workers, StorageNext(w)
      PROVE  crates' = crates
  BY <1>6 DEF StorageNext, StorageList, StorageDelete, StorageFail, tables
<1>7. PassTime \/ UNCHANGED vars => crates' = crates
  BY DEF PassTime, vars, tables
<1> QED
  BY <1>1, <1>2, <1>4, <1>5, <1>6, <1>7 DEF Next

\* publish gives no name away that deleted_crates reserves: a request that creates a crate
\* has looked its name up, and has overlooked no reservation but one made since.
THEOREM NamesAreReserved == Spec => NameNotReused
<1> DEFINE Reserving ==
      \A c \in crates' \ crates : \A r \in Reservations(c.name) :
        \E p \in Publishers : publisher[p].crate = c /\ r \notin publisher[p].seen
<1>1. PubInd /\ [Next]_vars => Reserving
  <2> SUFFICES ASSUME PubInd, [Next]_vars, NEW c \in crates' \ crates, NEW r \in Reservations(c.name)
               PROVE  \E p \in Publishers : publisher[p].crate = c /\ r \notin publisher[p].seen
    OBVIOUS
  <2>1. PICK p \in Publishers : PublishCommit(p) /\ publisher[p].crate = c
    BY CratesCreated
  <2>2. publisher[p].pc = "uploaded" /\ InTxn(p)
    BY <2>1 DEF PublishCommit, InTxn
  <2>3. publisher[p].name = c.name
    BY <2>1, <2>2 DEF PubInd, TxnsApart
  <2>4. r \in deleted /\ Canon[r.name] = Canon[c.name] /\ r.availableAt > pubClock
    BY DEF Reservations
  <2>5. r.availableAt \in Nat /\ pubClock \in Nat
    BY <2>4, PublicationAssumption DEF PubInd, PubTyped, TablesTyped
  <2>6. r \in publisher[p].seen => r.availableAt <= pubClock
    BY <2>2, <2>3, <2>4 DEF PubInd, SeenExpired
  <2>7. r \notin publisher[p].seen
    BY <2>4, <2>5, <2>6
  <2> QED
    BY <2>1, <2>7
<1>2. Init => PubInd
  BY PubInit
<1>3. PubInd /\ [Next]_vars => PubInd'
  BY PubStep
<1>4. PubInd /\ [Next]_vars => [Reserving]_vars
  BY <1>1
<1> QED
  BY <1>2, <1>3, <1>4, PTL DEF Spec, NameNotReused

-----------------------------------------------------------------------------
(* The rate limiter.                                                       *)

\* Division by the refill rate rounds down, also for a negative time.
LEMMA DivRate ==
  ASSUME NEW t \in Int, NEW n \in Int, n > 0
  PROVE  /\ t \div n \in Int
         /\ n * (t \div n) <= t
         /\ t < n * (t \div n) + n
  BY SMT

\* A product with the refill rate is an integer, and grows with its factor.
LEMMA TimesRate ==
  ASSUME NEW n \in Int, n > 0, NEW a \in Int, NEW b \in Int
  PROVE  /\ n * a \in Int
         /\ n * (a + b) = n * a + n * b
         /\ a <= 0 => n * a <= 0
  BY SMT

\* A time that is cut to the second is in the past of it, by less than a second.
LEMMA SecondsCut ==
  ASSUME NEW t \in Int
  PROVE  /\ WholeSeconds(t) \in Int
         /\ WholeSeconds(t) <= t
         /\ t < WholeSeconds(t) + Second
<1>1. Second \in Int /\ Second > 0
  BY RateLimiterAssumption
<1>2. t \div Second \in Int /\ Second * (t \div Second) <= t
      /\ t < Second * (t \div Second) + Second
  BY <1>1, DivRate
<1>3. Second * (t \div Second) \in Int
  BY <1>1, <1>2, TimesRate
<1>. QED BY <1>2, <1>3 DEF WholeSeconds

-----------------------------------------------------------------------------
\* No bucket, no history.
FreshBucket ==
  ~exists => /\ tokens = 0 /\ lastRefill = 0 /\ created = 0
             /\ admitted = 0 /\ refills = 0

\* Timestamps are of the past.
TimesArePast == \A r \in Requests : now[r] <= clock

\* The retry time that was told is the second of the next refill of an empty bucket.
RejectedIsEmpty ==
  retryAfter # NotRejected =>
    /\ exists
    /\ tokens <= 0
    /\ retryAfter = WholeSeconds(lastRefill + Rate)

\* The inductive invariant.
IndInv ==
  /\ RateTypeOK
  /\ FreshBucket
  /\ TimesArePast
  /\ RejectedIsEmpty
  /\ AdmissionBound
  /\ RefillsAreTimed

\* The initial state satisfies the invariant.
LEMMA IndInvInit == RateInit => IndInv
<1>1. Rate * 0 = 0 /\ Rate \in Nat /\ Rate # 0
  BY RateLimiterAssumption
<1>2. ASSUME RateInit PROVE RateTypeOK
  <2>1. exists \in BOOLEAN
    BY <1>2 DEF RateInit
  <2>2. override \in [burst : Nat, expires_at : Nat]
    BY <1>2 DEF RateInit
  <2>3. retryAfter \in Int
    BY <1>2 DEF RateInit, NotRejected
  <2>. QED BY <1>2, <2>1, <2>2, <2>3 DEF RateInit, RateTypeOK
<1>3. RateInit => RefillsAreTimed /\ AdmissionBound
  BY <1>1 DEF RateInit, RefillsAreTimed, AdmissionBound, Left, Greatest
<1>4. RateInit => FreshBucket /\ TimesArePast /\ RejectedIsEmpty
  BY DEF RateInit, FreshBucket, TimesArePast, RejectedIsEmpty
<1>. QED BY <1>2, <1>3, <1>4 DEF IndInv

\* The upsert of an existing bucket keeps the bound: what it adds to the tokens
\* it adds to the refills, and what it takes below zero to the inversions.
LEMMA UpdateKeepsBound ==
  ASSUME IndInv, NEW r \in Requests, Answer(r), UpdateBucket(r)
  PROVE  /\ tokens' \in Int /\ refills' \in Int /\ inverted' \in Nat
         /\ lastRefill' \in Int /\ highest' \in Nat /\ admitted' \in Nat
         /\ AdmissionBound'
<1> DEFINE add == TokensToAdd(now[r])
<1>1. now[r] \in Nat /\ burst[r] \in Nat /\ lastRefill \in Int /\ tokens \in Int
  BY DEF IndInv, RateTypeOK
<1>2. add \in Int
  BY <1>1, DivRate, RateLimiterAssumption DEF TokensToAdd
<1>3. /\ tokens' = Least(burst[r], Greatest(0, tokens - 1) + add)
      /\ refills' = refills + add
      /\ inverted' = inverted + Greatest(0, -add)
      /\ lastRefill' = lastRefill + Rate * add
  BY DEF UpdateBucket, TokensAfter, RefillAfter
<1>4. lastRefill' \in Int
  BY <1>1, <1>2, <1>3, TimesRate, RateLimiterAssumption
<1>5. /\ highest' = Greatest(highest, burst[r])
      /\ admitted' = IF tokens' >= 1 THEN admitted + 1 ELSE admitted
  BY DEF Answer, Admits
<1>6. /\ admitted + Greatest(0, tokens - 1) <= highest + refills + inverted
      /\ refills \in Int /\ inverted \in Nat /\ highest \in Nat /\ admitted \in Nat
  BY DEF IndInv, RateTypeOK, AdmissionBound, Left
<1> HIDE DEF add
<1>7. tokens' \in Int /\ refills' \in Int /\ inverted' \in Nat /\ highest' \in Nat
      /\ admitted' \in Nat
  BY <1>1, <1>2, <1>3, <1>5, <1>6 DEF Least, Greatest
<1>8. admitted' + Greatest(0, tokens' - 1) <= highest' + refills' + inverted'
  BY <1>1, <1>2, <1>3, <1>5, <1>6 DEF Least, Greatest
<1>. QED BY <1>4, <1>7, <1>8 DEF AdmissionBound, Left

\* The upsert moves the refill time by whole refills, up to the request at most.
LEMMA UpdateIsTimed ==
  ASSUME IndInv, NEW r \in Requests, Answer(r), UpdateBucket(r)
  PROVE  RefillsAreTimed'
<1> DEFINE add == TokensToAdd(now[r])
<1>1. /\ now[r] \in Nat /\ lastRefill \in Int /\ clock \in Nat /\ created \in Nat
      /\ refills \in Int
  BY DEF IndInv, RateTypeOK
<1>2. add \in Int /\ Rate * add <= now[r] - lastRefill
  BY <1>1, DivRate, RateLimiterAssumption DEF TokensToAdd
<1>3. /\ lastRefill' = lastRefill + Rate * add
      /\ refills' = refills + add
      /\ created' = created /\ clock' = clock
  BY DEF UpdateBucket, RefillAfter, Answer
<1>4. /\ lastRefill = created + Rate * refills /\ created <= clock /\ now[r] <= clock
  BY DEF IndInv, RefillsAreTimed, TimesArePast
<1> HIDE DEF add
<1>5. /\ Rate * add \in Int /\ Rate * refills \in Int
      /\ Rate * (refills + add) = Rate * refills + Rate * add
  BY <1>1, <1>2, TimesRate, RateLimiterAssumption
<1>. QED BY <1>1, <1>2, <1>3, <1>4, <1>5 DEF RefillsAreTimed

\* The answer of a request preserves the invariant.
LEMMA AnswerKeeps ==
  ASSUME IndInv, NEW r \in Requests, Answer(r)
  PROVE  IndInv'
<1> USE RateLimiterAssumption
<1>1. /\ burst[r] \in Nat /\ now[r] \in Nat /\ now[r] <= clock
      /\ tokens \in Int /\ lastRefill \in Int /\ highest \in Nat /\ answers \in Nat
  BY DEF IndInv, RateTypeOK, TimesArePast
<1>2. CASE InsertBucket(r)
  <2>1. /\ tokens' = burst[r] /\ lastRefill' = now[r] /\ created' = now[r] /\ exists'
        /\ refills' = refills /\ inverted' = inverted /\ exists' \in BOOLEAN
        /\ refills = 0 /\ admitted = 0 /\ inverted \in Nat
    BY <1>2 DEF InsertBucket, IndInv, FreshBucket, RateTypeOK
  <2>2. admitted' \in Nat /\ highest' \in Nat /\ AdmissionBound'
    BY <1>1, <2>1 DEF Answer, Admits, AdmissionBound, Left, Greatest
  <2>3. RefillsAreTimed'
    <3>1. Rate * 0 = 0 /\ clock' = clock /\ clock \in Nat
      BY DEF Answer, IndInv, RateTypeOK
    <3>. QED BY <1>1, <2>1, <3>1 DEF RefillsAreTimed
  <2>. QED BY <1>1, <2>1, <2>2, <2>3
       DEF IndInv, RateTypeOK, Answer, End, FreshBucket, TimesArePast, RejectedIsEmpty, Admits,
           NotRejected
<1>3. CASE UpdateBucket(r)
  <2>1. /\ tokens' \in Int /\ refills' \in Int /\ inverted' \in Nat
        /\ lastRefill' \in Int /\ highest' \in Nat /\ admitted' \in Nat
        /\ AdmissionBound'
    BY <1>3, UpdateKeepsBound
  <2>2. RefillsAreTimed'
    BY <1>3, UpdateIsTimed
  <2>3. exists' /\ exists' \in BOOLEAN /\ created' = created
    BY <1>3 DEF UpdateBucket, IndInv, RateTypeOK
  <2>4. RateTypeOK'
    <3>1. retryAfter' \in Int /\ answers' \in Nat
      BY <1>1, <2>1, SecondsCut DEF Answer, NotRejected
    <3>2. /\ pc' \in [Requests -> {"idle", "timed", "limited"}]
          /\ now' \in [Requests -> Nat] /\ burst' \in [Requests -> Nat]
      BY DEF Answer, End, IndInv, RateTypeOK
    <3>3. /\ clock' \in Nat /\ override' \in [burst : Nat, expires_at : Nat]
          /\ created' \in Nat
      BY <2>3 DEF Answer, IndInv, RateTypeOK
    <3>. QED BY <2>1, <2>3, <3>1, <3>2, <3>3 DEF RateTypeOK
  <2>5. TimesArePast'
    BY DEF Answer, End, IndInv, RateTypeOK, TimesArePast
  <2>6. RejectedIsEmpty'
    BY <2>1, <2>3 DEF Answer, Admits, RejectedIsEmpty
  <2>7. FreshBucket'
    BY <2>3 DEF FreshBucket
  <2>. QED BY <2>1, <2>2, <2>4, <2>5, <2>6, <2>7 DEF IndInv
<1>. QED BY <1>2, <1>3 DEF Answer

\* The other steps leave the bucket and the history alone.
LEMMA OtherStepsKeep ==
  ASSUME IndInv, UNCHANGED <<bucket, history>>,
         \/ \E r \in Requests : TakeTime(r) \/ ReadBurst(r) \/ Lose(r)
         \/ SetOverride
         \/ Tick
  PROVE  IndInv'
<1> USE RateLimiterAssumption
<1>1. FreshBucket' /\ RejectedIsEmpty' /\ AdmissionBound'
  BY DEF IndInv, FreshBucket, RejectedIsEmpty, AdmissionBound, Left, bucket, history
<1>2. clock' \in Nat /\ clock <= clock'
  BY DEF IndInv, RateTypeOK, TakeTime, ReadBurst, Lose, SetOverride, Tick
<1>3. RefillsAreTimed'
  <2>1. /\ lastRefill' = lastRefill /\ created' = created /\ refills' = refills
        /\ lastRefill \in Int /\ created \in Nat /\ clock \in Nat
    BY DEF IndInv, RateTypeOK, bucket, history
  <2>. QED BY <1>2, <2>1 DEF IndInv, RefillsAreTimed
<1>4. override' \in [burst : Nat, expires_at : Nat]
  BY DEF IndInv, RateTypeOK, TakeTime, ReadBurst, Lose, SetOverride, Tick
<1>5. /\ pc' \in [Requests -> {"idle", "timed", "limited"}]
      /\ now' \in [Requests -> Nat]
      /\ TimesArePast'
  BY <1>2 DEF IndInv, RateTypeOK, TimesArePast, TakeTime, ReadBurst, Lose, End, SetOverride, Tick
<1>6. burst' \in [Requests -> Nat]
  <2>1. \A t : BurstAt(t) \in Nat
    BY DEF BurstAt, IndInv, RateTypeOK
  <2>. QED BY <2>1 DEF IndInv, RateTypeOK, TakeTime, ReadBurst, Lose, End, SetOverride, Tick
<1>. QED BY <1>1, <1>2, <1>3, <1>4, <1>5, <1>6 DEF IndInv, RateTypeOK, bucket, history

\* Every step preserves the invariant.
LEMMA IndInvNext == IndInv /\ [RateNext]_rateVars => IndInv'
<1> SUFFICES ASSUME IndInv, [RateNext]_rateVars PROVE IndInv'
  OBVIOUS
<1>1. CASE \E r \in Requests : Answer(r)
  BY <1>1, AnswerKeeps
<1>2. CASE \/ \E r \in Requests : TakeTime(r) \/ ReadBurst(r) \/ Lose(r)
           \/ SetOverride
           \/ Tick
  <2>1. UNCHANGED <<bucket, history>>
    BY <1>2 DEF TakeTime, ReadBurst, Lose, SetOverride, Tick
  <2>. QED BY <1>2, <2>1, OtherStepsKeep
<1>3. CASE UNCHANGED rateVars
  BY <1>3 DEF rateVars, bucket, history, IndInv, RateTypeOK, FreshBucket, TimesArePast,
              RejectedIsEmpty, AdmissionBound, Left, RefillsAreTimed
<1>. QED BY <1>1, <1>2, <1>3 DEF RateNext

-----------------------------------------------------------------------------
\* The invariant holds of every behaviour.
LEMMA Inductive == RateSpec => []IndInv
  BY IndInvInit, IndInvNext, PTL DEF RateSpec

\* src/rate_limiter.rs take_token: however requests interleave and overrides
\* change, the requests let through stay within the burst and the refills.
THEOREM AdmissionsAreBounded == RateSpec => []AdmissionBound
<1>1. IndInv => AdmissionBound
  BY DEF IndInv
<1>. QED BY Inductive, <1>1, PTL

\* src/rate_limiter.rs take_token: the refills are worth the time since the
\* bucket was created, and none of that time is lost.
THEOREM RefillsFollowTime == RateSpec => []RefillsAreTimed
<1>1. IndInv => RefillsAreTimed
  BY DEF IndInv
<1>. QED BY Inductive, <1>1, PTL

\* src/rate_limiter.rs check_rate_limit: a rejected user who waits until the
\* second that the answer names is over is let through by the next check.
THEOREM RetryTimeIsHonoured == RateSpec => RetryAfterHonoured
<1>1. ASSUME IndInv, NEW r \in Requests, Answer(r), retryAfter # NotRejected,
             now[r] >= retryAfter + Second, burst[r] > 0
      PROVE  admitted' = admitted + 1
  <2> DEFINE add == TokensToAdd(now[r])
  <2>1. /\ now[r] \in Nat /\ burst[r] \in Nat /\ lastRefill \in Int /\ tokens \in Int
        /\ tokens <= 0 /\ retryAfter = WholeSeconds(lastRefill + Rate) /\ exists
        /\ Rate \in Int /\ Rate > 0 /\ Second \in Int
    BY <1>1, RateLimiterAssumption DEF IndInv, RateTypeOK, RejectedIsEmpty
  <2>0. now[r] >= lastRefill + Rate
    <3>1. retryAfter \in Int /\ lastRefill + Rate < retryAfter + Second
      BY <2>1, SecondsCut
    <3>. QED BY <1>1, <2>1, <3>1
  <2>2. add \in Int /\ now[r] - lastRefill < Rate * add + Rate
    BY <2>1, DivRate DEF TokensToAdd
  <2>3. tokens' = Least(burst[r], Greatest(0, tokens - 1) + add)
    BY <1>1, <2>1 DEF Answer, InsertBucket, UpdateBucket, TokensAfter
  <2> HIDE DEF add
  <2>4. add >= 1
    <3>1. Rate * add \in Int /\ (add <= 0 => Rate * add <= 0)
      BY <2>1, <2>2, TimesRate
    <3>. QED BY <2>0, <2>1, <2>2, <3>1
  <2>5. tokens' >= 1
    BY <1>1, <2>1, <2>2, <2>3, <2>4 DEF Least, Greatest
  <2>. QED BY <1>1, <2>5 DEF Answer, Admits
<1>2. IndInv /\ [RateNext]_rateVars =>
        [\A r \in Requests :
           /\ Answer(r) /\ retryAfter # NotRejected
           /\ now[r] >= retryAfter + Second /\ burst[r] > 0
           => admitted' = admitted + 1]_rateVars
  BY <1>1
<1>. QED BY Inductive, <1>2, PTL DEF RateSpec, RetryAfterHonoured

\* src/rate_limiter.rs: the bucket in every reachable state, for every rate, burst,
\* override and number of concurrent requests.
THEOREM RateIsSound == RateSpec => []RateInv
<1>1. IndInv => RateInv
  BY DEF IndInv, RateInv
<1>. QED BY Inductive, <1>1, PTL
=============================================================================
