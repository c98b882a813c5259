-------------------------- MODULE CatalogueProofs ---------------------------
(***************************************************************************)
(* Proofs about CrateVersions, for any versions, handlers and workers, and *)
(* about Listing, for any rows, pages and changes.                         *)
(***************************************************************************)
EXTENDS CrateVersions, Listing, SequenceTheorems, FiniteSetTheorems, WellFoundedInduction, TLAPS

-----------------------------------------------------------------------------
(* The best version.                                                       *)

\* v is the best of the versions vs, where y says which are yanked.
Best(v, vs, y) == v \in vs /\ \A w \in vs \ {v} : Below(w, y[w], v, y[v])

\* Some version is best, among any that there are.  The versions above v shrink as v rises;
\* were the smallest such set not empty, a member of it would have a smaller one.
LEMMA BestExists ==
  ASSUME NEW vs \in SUBSET Versions, vs # {}, NEW y \in [Versions -> BOOLEAN]
  PROVE  \E v \in vs : Best(v, vs, y)
  <1> USE CrateVersionsAssumption
  <1> DEFINE Above(v) == {w \in vs : Below(v, y[v], w, y[w])}
             Aboves == {Above(v) : v \in vs}
  <1>1. vs \in SUBSET Nat /\ IsFiniteSet(vs)
    BY FS_Subset
  <1>2. IsWellFoundedOn(StrictSubsetOrdering(vs), SUBSET vs)
    <2>1. FiniteSubsetsOf(vs) = SUBSET vs
      BY <1>1, FS_FiniteSubsetsOfFinite
    <2>2. IsWellFoundedOn(StrictSubsetOrdering(vs), FiniteSubsetsOf(vs))
      BY FS_StrictSubsetOrderingWellFounded
    <2> QED
      BY <2>1, <2>2
  <1>3. PICK A \in Aboves : \A B \in Aboves : <<B, A>> \notin StrictSubsetOrdering(vs)
    <2>1. \A v \in vs : Above(v) \in SUBSET vs
      OBVIOUS
    <2> HIDE DEF Above
    <2>2. Aboves \subseteq SUBSET vs /\ Aboves # {}
      BY <2>1
    <2> HIDE DEF Aboves
    <2> QED
      BY <1>2, <2>2, WFMin
  <1>4. PICK v \in vs : A = Above(v)
    BY <1>3
  <1>5. Above(v) = {}
    <2>1. SUFFICES ASSUME NEW w \in Above(v) PROVE FALSE
      OBVIOUS
    <2>2. w \in vs /\ Below(v, y[v], w, y[w])
      BY <2>1
    <2>3. Above(w) \subseteq Above(v)
      <3> SUFFICES ASSUME NEW u \in vs, Below(w, y[w], u, y[u])
                   PROVE  Below(v, y[v], u, y[u])
        OBVIOUS
      <3> QED
        BY <1>1, <2>2 DEF Below
    <2>4. w \notin Above(w)
      BY <1>1, <2>2 DEF Below
    <2>5. <<Above(w), Above(v)>> \in StrictSubsetOrdering(vs)
      BY <2>1, <2>3, <2>4 DEF StrictSubsetOrdering
    <2> QED
      BY <1>3, <1>4, <2>2, <2>5
  <1>6. \A w \in vs \ {v} : Below(w, y[w], v, y[v])
    <2> TAKE w \in vs \ {v}
    <2>1. ~Below(v, y[v], w, y[w])
      BY <1>5
    <2> QED
      BY <1>1, <2>1 DEF Below
  <1> QED
    BY <1>6 DEF Best

\* Only one is.
LEMMA BestUnique ==
  ASSUME NEW vs \in SUBSET Versions, NEW y \in [Versions -> BOOLEAN],
         NEW v, Best(v, vs, y), NEW w, Best(w, vs, y)
  PROVE  v = w
  <1>1. v \in Nat /\ w \in Nat /\ y[v] \in BOOLEAN /\ y[w] \in BOOLEAN
    BY CrateVersionsAssumption DEF Best
  <1> QED
    BY <1>1 DEF Best, Below

\* The best version stays the best one when others are deleted.
LEMMA BestOfFewer ==
  ASSUME NEW vs, NEW ws \in SUBSET vs, NEW y, NEW z, NEW v \in ws, Best(v, vs, y),
         \A w \in ws : z[w] = y[w]
  PROVE  Best(v, ws, z)
  BY DEF Best

\* calculate_default_version finds the best version.
LEMMA CalculateBest ==
  ASSUME NEW vs \in SUBSET Versions, vs # {}, yanked \in [Versions -> BOOLEAN]
  PROVE  Best(Calculate(vs), vs, yanked)
  <1>1. PICK v \in vs : Best(v, vs, yanked)
    BY BestExists
  <1> QED
    BY <1>1 DEF Best, Calculate

\* It is one of the versions.
LEMMA CalculateIn ==
  ASSUME NEW vs \in SUBSET Versions, vs # {}, yanked \in [Versions -> BOOLEAN]
  PROVE  Calculate(vs) \in vs
  BY CalculateBest DEF Best

-----------------------------------------------------------------------------
(* The rows.                                                               *)

\* The types the argument needs.
YankTypes ==
  /\ versions \in SUBSET Versions
  /\ yanked \in [Versions -> BOOLEAN]
  /\ message \in [Versions -> Messages \cup {NoMessage}]
  /\ txn.versions \in SUBSET Versions
  /\ hpc \in [Handlers -> {"idle", "loaded", "txn", "updated", "recorded"}]
  /\ target \in [Handlers -> Versions \cup {None}]
  /\ yank \in [Handlers -> BOOLEAN]
  /\ text \in [Handlers -> Messages \cup {NoMessage}]

\* A request that has passed validate_yank_update and brings a message will yank,
\* whatever has become of the version since.
MessagesYank == \A h \in Handlers : text[h] # NoMessage => yank[h]

IndInv == YankTypes /\ MessagesYank /\ MessageOnlyOnYanked

\* The initial states satisfy the invariant.
LEMMA InitIndInv == Init => IndInv
  BY DEF Init, IndInv, YankTypes, MessagesYank, MessageOnlyOnYanked, NoTxn

-----------------------------------------------------------------------------
\* The steps of a handler preserve the invariant.
LEMMA HandlerPreserves ==
  ASSUME IndInv, NEW h \in Handlers, HandlerStep(h)
  PROVE  IndInv'
  <1> USE CrateVersionsAssumption DEF IndInv, YankTypes, MessagesYank, MessageOnlyOnYanked,
          table, request, handlers, workers, NoTxn
  <1>1. ASSUME NEW v \in Versions, Publish(h, v) PROVE IndInv'
    BY <1>1 DEF Publish, Lock
  <1>2. ASSUME NEW vs \in SUBSET versions, DeleteVersions(h, vs) PROVE IndInv'
    BY <1>2 DEF DeleteVersions, Lock
  <1>3. CASE CommitPublish(h)
    BY <1>3 DEF CommitPublish
  <1>4. CASE CommitDelete(h)
    <2>1. YankTypes'
      BY <1>4 DEF CommitDelete
    <2>2. MessagesYank'
      BY <1>4 DEF CommitDelete
    <2>3. MessageOnlyOnYanked'
      BY <1>4 DEF CommitDelete
    <2> QED
      BY <2>1, <2>2, <2>3
  <1>5. CASE Rollback(h)
    BY <1>5 DEF Rollback
  <1>6. ASSUME NEW v \in Versions, NEW a \in {"yank", "unyank", "none"},
               NEW m \in Messages \cup {NoMessage}, LoadVersion(h, v, a, m)
        PROVE  IndInv'
    BY <1>6 DEF LoadVersion, Valid
  <1>7. CASE UpdateVersion(h)
    <2>1. target[h] \in versions
      BY <1>7 DEF UpdateVersion, Differs
    <2>2. YankTypes'
      BY <1>7, <2>1 DEF UpdateVersion
    <2>3. MessagesYank'
      BY <1>7 DEF UpdateVersion
    <2>4. MessageOnlyOnYanked'
      BY <1>7, <2>1 DEF UpdateVersion
    <2> QED
      BY <2>2, <2>3, <2>4
  <1>8. CASE UpdateNothing(h) \/ Refuse(h) \/ HandlerDone(h) \/ Interrupt(h)
    <2>1. Return(h) /\ UNCHANGED <<versions, yanked, message, txn>>
      BY <1>8 DEF UpdateNothing, Refuse, HandlerDone, Interrupt
    <2>2. YankTypes'
      <3>1. hpc' \in [Handlers -> {"idle", "loaded", "txn", "updated", "recorded"}]
        BY <2>1 DEF Return
      <3>2. target' \in [Handlers -> Versions \cup {None}]
        BY <2>1 DEF Return
      <3>3. yank' \in [Handlers -> BOOLEAN]
        BY <2>1 DEF Return
      <3>4. text' \in [Handlers -> Messages \cup {NoMessage}]
        BY <2>1 DEF Return
      <3> QED
        BY <2>1, <3>1, <3>2, <3>3, <3>4
    <2>3. MessagesYank'
      BY <2>1 DEF Return
    <2>4. MessageOnlyOnYanked'
      BY <2>1
    <2> QED
      BY <2>2, <2>3, <2>4
  <1>9. CASE RecordAction(h)
    BY <1>9 DEF RecordAction
  <1>10. ASSUME NEW k \in Jobs, EnqueueNext(h, k) PROVE IndInv'
    BY <1>10 DEF EnqueueNext
  <1> QED
    BY <1>1, <1>2, <1>3, <1>4, <1>5, <1>6, <1>7, <1>8, <1>9, <1>10
       DEF HandlerStep, YankStep

\* The other steps preserve it too.
LEMMA StepPreserves == IndInv /\ [Next]_vars => IndInv'
  <1> SUFFICES ASSUME IndInv, [Next]_vars PROVE IndInv'
    OBVIOUS
  <1> USE CrateVersionsAssumption DEF IndInv, YankTypes, MessagesYank, MessageOnlyOnYanked,
          table, request, handlers, workers
  <1>1. ASSUME NEW h \in Handlers, HandlerStep(h) PROVE IndInv'
    BY <1>1, HandlerPreserves
  <1>2. ASSUME NEW w \in Workers, RunStep(w) \/ RunFails(w) PROVE IndInv'
    BY <1>2 DEF RunStep, StartRun, CalculateDefault, SaveDefault, RunOk, RunFails, EndRun
  <1>3. ASSUME NEW v \in Versions, AdminYank(v) PROVE IndInv'
    BY <1>3 DEF AdminYank
  <1>4. CASE DeleteCrate
    BY <1>4 DEF DeleteCrate
  <1>5. CASE SyncIndex
    BY <1>5 DEF SyncIndex
  <1>6. CASE UNCHANGED vars
    BY <1>6 DEF vars
  <1> QED
    BY <1>1, <1>2, <1>3, <1>4, <1>5, <1>6 DEF Next

\* validate_yank_update checks a version that may change before the UPDATE; still no
\* version that is not yanked ever has a yank message, whatever requests, admin
\* commands and jobs run at the same time.
THEOREM MessagesAreOnYanked == Spec => []MessageOnlyOnYanked
  <1>1. IndInv => MessageOnlyOnYanked
    BY DEF IndInv
  <1> QED
    BY InitIndInv, StepPreserves, <1>1, PTL DEF Spec

-----------------------------------------------------------------------------
(* The row of the default version.                                         *)

\* What an open transaction has read stays true until it ends: a version that is published is
\* new, those that are deleted are there, and the default version that was chosen will be a
\* version.
TxnSound ==
  /\ txn.op = "publish" =>
       \E v \in Versions \ versions : txn.versions = {v} /\ txn.default \in versions \cup {v}
  /\ txn.op = "delete" =>
       /\ krate = "present"
       /\ txn.versions \subseteq versions
       /\ txn.default \in versions \ txn.versions

RowInv == TypeOK /\ TxnSound /\ DefaultRowSound

\* The initial states satisfy it.
LEMMA InitRowInv == Init => RowInv
  <1> SUFFICES ASSUME Init PROVE RowInv
    OBVIOUS
  <1>1. Cardinality({}) = 0
    BY FS_EmptySet
  <1>2. TypeOK
    BY DEF Init, TypeOK, NoTxn
  <1>3. TxnSound
    BY DEF Init, TxnSound, NoTxn
  <1>4. DefaultRowSound
    BY <1>1 DEF Init, DefaultRowSound
  <1> QED
    BY <1>2, <1>3, <1>4 DEF RowInv

\* A number of versions is a natural number, and None is not a version.
LEMMA CountOfVersions ==
  ASSUME NEW vs \in SUBSET Versions
  PROVE  IsFiniteSet(vs) /\ Cardinality(vs) \in Nat /\ None \notin Versions
  <1>1. IsFiniteSet(vs)
    BY CrateVersionsAssumption, FS_Subset
  <1>2. Cardinality(vs) \in Nat
    BY <1>1, FS_CardinalityType
  <1>3. None \notin Versions
    BY CrateVersionsAssumption DEF None
  <1> QED
    BY <1>1, <1>2, <1>3

\* Enqueues add rows.
LEMMA EnqueueType ==
  ASSUME TypeOK, NEW K, Enqueue(K)
  PROVE  rows' \in [Jobs -> Nat]
  BY DEF TypeOK, Enqueue

\* A step that leaves the crate, its versions, the default version and the transaction alone
\* disturbs types only.
LEMMA TableKept ==
  ASSUME TxnSound, DefaultRowSound,
         UNCHANGED <<krate, versions, default, numVersions, txn>>
  PROVE  TxnSound' /\ DefaultRowSound'
  BY DEF TxnSound, DefaultRowSound

\* The beginning of a transaction: publish and delete_version.
LEMMA LockPreserves ==
  ASSUME RowInv, NEW h \in Handlers, NEW op \in {"publish", "delete"},
         NEW vs \in SUBSET Versions, NEW d \in Versions, Lock(h, op, vs, d),
         op = "publish" => \E v \in Versions \ versions : vs = {v} /\ d \in versions \cup {v},
         op = "delete" => krate = "present" /\ vs \subseteq versions /\ d \in versions \ vs
  PROVE  RowInv'
  <1> USE DEF RowInv, Lock, table, request, workers
  <1>1. txn' = [op |-> op, versions |-> vs, default |-> d]
    OBVIOUS
  <1>2. TypeOK'
    BY <1>1 DEF TypeOK
  <1>3. TxnSound'
    BY <1>1 DEF TxnSound
  <1>4. DefaultRowSound'
    BY DEF DefaultRowSound
  <1> QED
    BY <1>2, <1>3, <1>4

\* publish commits.
LEMMA CommitPublishPreserves ==
  ASSUME RowInv, NEW h \in Handlers, CommitPublish(h)
  PROVE  RowInv'
  <1> USE DEF RowInv, CommitPublish, request, workers
  <1>1. PICK v \in Versions \ versions :
           txn.versions = {v} /\ txn.default \in versions \cup {v}
    BY DEF TxnSound
  <1>2. versions' = versions \cup {v} /\ versions' \in SUBSET Versions
    BY <1>1 DEF TypeOK
  <1>3. txn' = NoTxn /\ TxnSound'
    BY DEF TxnSound, NoTxn
  <1>4. DefaultRowSound'
    <2>1. Cardinality(versions \cup {v}) = Cardinality(versions) + 1
      BY <1>1, CountOfVersions, FS_AddElement DEF TypeOK
    <2>2. numVersions' = Cardinality(versions')
      BY <1>2, <2>1 DEF DefaultRowSound
    <2>3. default' \in versions' /\ default' # None
      BY <1>1, <1>2, CountOfVersions
    <2> QED
      BY <1>2, <2>2, <2>3 DEF DefaultRowSound
  <1>5. TypeOK'
    <2>1. numVersions' \in Nat
      BY DEF TypeOK
    <2>2. rows' \in [Jobs -> Nat]
      BY EnqueueType
    <2> QED
      BY <1>2, <1>3, <2>1, <2>2 DEF TypeOK, NoTxn
  <1> QED
    BY <1>3, <1>4, <1>5

\* delete_version commits.
LEMMA CommitDeletePreserves ==
  ASSUME RowInv, NEW h \in Handlers, CommitDelete(h)
  PROVE  RowInv'
  <1> USE DEF RowInv, CommitDelete, request, workers
  <1>1. /\ krate = "present"
        /\ txn.versions \subseteq versions
        /\ txn.default \in versions \ txn.versions
    BY DEF TxnSound
  <1>2. txn' = NoTxn /\ TxnSound'
    BY DEF TxnSound, NoTxn
  <1>3. DefaultRowSound'
    <2>1. /\ Cardinality(versions \ txn.versions)
               = Cardinality(versions) - Cardinality(versions \cap txn.versions)
          /\ versions \cap txn.versions = txn.versions
      BY <1>1, CountOfVersions, FS_Difference DEF TypeOK
    <2>2. numVersions' = Cardinality(versions')
      BY <2>1 DEF DefaultRowSound
    <2>3. default' \in versions' /\ default' # None
      BY <1>1, CountOfVersions DEF TypeOK
    <2> QED
      BY <1>1, <2>2, <2>3 DEF DefaultRowSound
  <1>4. TypeOK'
    <2>1. versions' \in SUBSET Versions /\ numVersions' \in Nat
      BY <1>3, CountOfVersions DEF TypeOK, DefaultRowSound
    <2>2. yanked' \in [Versions -> BOOLEAN]
      BY DEF TypeOK
    <2>3. message' \in [Versions -> Messages \cup {NoMessage}]
      BY DEF TypeOK
    <2> QED
      BY <1>2, <2>1, <2>2, <2>3 DEF TypeOK, NoTxn
  <1> QED
    BY <1>2, <1>3, <1>4

\* The requests that yank, unyank and update a version leave the row alone.
LEMMA YankPreserves ==
  ASSUME RowInv, NEW h \in Handlers,
         \/ \E v \in Versions, a \in {"yank", "unyank", "none"}, m \in Messages \cup {NoMessage} :
              LoadVersion(h, v, a, m)
         \/ YankStep(h)
         \/ Interrupt(h)
  PROVE  RowInv'
  <1> USE DEF RowInv, table, request, workers
  <1>1. ASSUME NEW v \in Versions, NEW a \in {"yank", "unyank", "none"},
               NEW m \in Messages \cup {NoMessage}, LoadVersion(h, v, a, m)
        PROVE  RowInv'
    BY <1>1, TableKept DEF LoadVersion, TypeOK
  <1>2. CASE UpdateVersion(h)
    <2>1. UNCHANGED <<krate, versions, default, numVersions, txn>>
      BY <1>2 DEF UpdateVersion
    <2>2. TypeOK'
      BY <1>2 DEF UpdateVersion, TypeOK
    <2> QED
      BY <2>1, <2>2, TableKept
  <1>3. CASE UpdateNothing(h) \/ Refuse(h) \/ HandlerDone(h) \/ Interrupt(h)
    <2>1. /\ Return(h) /\ interrupted' \in BOOLEAN
          /\ UNCHANGED <<table, txn, rows, index, workers>>
      BY <1>3 DEF UpdateNothing, Refuse, HandlerDone, Interrupt, TypeOK
    <2>2. TypeOK'
      BY <2>1 DEF Return, TypeOK
    <2> QED
      BY <2>1, <2>2, TableKept
  <1>4. CASE RecordAction(h)
    BY <1>4, TableKept DEF RecordAction, YankJobs, TypeOK
  <1>5. ASSUME NEW k \in Jobs, EnqueueNext(h, k) PROVE RowInv'
    <2>1. rows' \in [Jobs -> Nat]
      BY <1>5, EnqueueType DEF EnqueueNext
    <2> QED
      BY <1>5, <2>1, TableKept DEF EnqueueNext, TypeOK
  <1> QED
    BY <1>1, <1>2, <1>3, <1>4, <1>5 DEF YankStep

\* The runs of UpdateDefaultVersion: a default version that is saved is a version, as its
\* foreign key says.
LEMMA RunPreserves ==
  ASSUME RowInv, NEW w \in Workers, RunStep(w) \/ RunFails(w)
  PROVE  RowInv'
  <1> USE DEF RowInv, table, request, handlers
  <1>1. CASE StartRun(w)
    BY <1>1, TableKept DEF StartRun, TypeOK
  <1>2. CASE CalculateDefault(w)
    <2>1. Calculate(versions) \in versions
      BY <1>2, CalculateIn DEF CalculateDefault, TypeOK
    <2> QED
      BY <1>2, <2>1, TableKept DEF CalculateDefault, TypeOK
  <1>3. CASE SaveDefault(w)
    <2>1. default' \in versions /\ versions \subseteq Versions /\ None \notin Versions
      BY <1>3, CountOfVersions DEF SaveDefault, TypeOK
    <2>2. TypeOK'
      BY <1>3, <2>1 DEF SaveDefault, TypeOK
    <2>3. TxnSound'
      BY <1>3 DEF SaveDefault, TxnSound, NoTxn
    <2>4. DefaultRowSound'
      BY <1>3, <2>1 DEF SaveDefault, DefaultRowSound
    <2> QED
      BY <2>2, <2>3, <2>4
  <1>4. CASE RunOk(w)
    BY <1>4, TableKept DEF RunOk, EndRun, TypeOK
  <1>5. CASE RunFails(w)
    <2>1. rows' \in [Jobs -> Nat]
      <3>1. rows \in [Jobs -> Nat] /\ rows' = [rows EXCEPT !["default"] = @ + 1]
        BY <1>5 DEF RunFails, TypeOK
      <3>2. \A k \in Jobs : rows'[k] = IF k = "default" THEN rows[k] + 1 ELSE rows[k]
        BY <3>1
      <3>3. \A k \in Jobs : rows'[k] \in Nat
        BY <3>1, <3>2
      <3>4. rows' = [k \in Jobs |-> rows'[k]]
        BY <3>1
      <3> QED
        BY <3>3, <3>4
    <2>2. wpc' \in [Workers -> {"idle", "started", "calculated", "saved"}]
      BY <1>5 DEF RunFails, EndRun, TypeOK
    <2>3. calculated' \in [Workers -> Versions \cup {None}]
      BY <1>5 DEF RunFails, EndRun, TypeOK
    <2>4. UNCHANGED <<table, txn, index, handlers, overlapped, interrupted>>
      BY <1>5 DEF RunFails, EndRun
    <2>5. TypeOK'
      BY <2>1, <2>2, <2>3, <2>4 DEF TypeOK
    <2> QED
      BY <2>4, <2>5, TableKept
  <1> QED
    BY <1>1, <1>2, <1>3, <1>4, <1>5 DEF RunStep

\* Every step preserves the invariant.
LEMMA StepRowInv == RowInv /\ [Next]_vars => RowInv'
  <1> SUFFICES ASSUME RowInv, [Next]_vars PROVE RowInv'
    OBVIOUS
  <1> USE DEF RowInv, table, request, handlers, workers
  <1>1. ASSUME NEW h \in Handlers, NEW v \in Versions, Publish(h, v) PROVE RowInv'
    <2>1. v \notin versions /\ PublishedDefault(v) \in versions \cup {v}
      BY <1>1 DEF Publish, PublishedDefault, DefaultRowSound, TypeOK
    <2> QED
      BY <1>1, <2>1, LockPreserves DEF Publish, TypeOK
  <1>2. ASSUME NEW h \in Handlers, NEW vs \in SUBSET versions, DeleteVersions(h, vs) PROVE RowInv'
    <2>1. versions \ vs \in SUBSET Versions /\ versions \ vs # {}
      BY <1>2 DEF DeleteVersions, TypeOK
    <2>2. Calculate(versions \ vs) \in versions \ vs
      BY <2>1, CalculateIn DEF TypeOK
    <2> QED
      BY <1>2, <2>1, <2>2, LockPreserves DEF DeleteVersions, TypeOK
  <1>3. ASSUME NEW h \in Handlers, Rollback(h) PROVE RowInv'
    BY <1>3 DEF Rollback, TypeOK, TxnSound, DefaultRowSound, NoTxn
  <1>4. ASSUME NEW v \in Versions, AdminYank(v) PROVE RowInv'
    <2>1. rows' \in [Jobs -> Nat]
      BY <1>4, EnqueueType DEF AdminYank
    <2> QED
      BY <1>4, <2>1, TableKept DEF AdminYank, TypeOK
  <1>5. CASE DeleteCrate
    <2>1. rows' \in [Jobs -> Nat]
      BY <1>5, EnqueueType DEF DeleteCrate
    <2>2. TypeOK'
      BY <1>5, <2>1 DEF DeleteCrate, TypeOK, None
    <2>3. TxnSound'
      BY <1>5 DEF DeleteCrate, TxnSound, NoTxn
    <2>4. DefaultRowSound'
      BY <1>5, FS_EmptySet DEF DeleteCrate, DefaultRowSound
    <2> QED
      BY <2>2, <2>3, <2>4
  <1>6. CASE SyncIndex
    BY <1>6, TableKept DEF SyncIndex, IndexContent, TypeOK
  <1>7. CASE UNCHANGED vars
    BY <1>7, TableKept DEF vars, TypeOK
  <1> QED
    BY <1>1, <1>2, <1>3, <1>4, <1>5, <1>6, <1>7, CommitPublishPreserves, CommitDeletePreserves,
       YankPreserves, RunPreserves DEF Next, HandlerStep

\* versions, default_versions and yank messages: whatever requests, admin commands and runs of
\* UpdateDefaultVersion overlap, the default version of a crate is one of its versions,
\* num_versions counts them, and a message is only at a yanked version.
THEOREM RowsAreSound == Spec => []RowsSound
  <1>1. RowInv /\ MessageOnlyOnYanked => RowsSound
    BY DEF RowInv, RowsSound
  <1> QED
    BY InitRowInv, StepRowInv, MessagesAreOnYanked, <1>1, PTL DEF Spec

-----------------------------------------------------------------------------
(* default_versions and the index, once all is quiet.                      *)

\* Something will still see what was written: a row of the job k, or a handler that has yet to
\* enqueue one; or a handler was lost before it could.
Pending(k) ==
  \/ rows[k] > 0
  \/ interrupted
  \/ \E h \in Handlers : hpc[h] = "updated" \/ (hpc[h] = "recorded" /\ k \in todo[h])

\* Unless two runs have overlapped there is at most one.
OneRun ==
  ~overlapped =>
    \A w \in Workers, u \in Workers : wpc[w] # "idle" /\ wpc[u] # "idle" => w = u

\* With no row that will still see it, the best version is what a run has calculated, unless
\* its foreign key will fail; and when no run is between its start and its upsert, it is what
\* default_versions has and what an open delete_version will write there.
RunsRight ==
  /\ \A w \in Workers : wpc[w] = "calculated" =>
       calculated[w] \notin versions \/ Best(calculated[w], versions, yanked)
  /\ (\A w \in Workers : wpc[w] \in {"idle", "saved"}) =>
       /\ IF versions = {} THEN default = None ELSE Best(default, versions, yanked)
       /\ txn.op = "delete" => Best(txn.default, versions \ txn.versions, yanked)

DefaultInd == "default" \in Jobs => Pending("default") \/ overlapped \/ RunsRight

IndexInd == "index" \in Jobs => Pending("index") \/ index = IndexContent

SettleInd == OneRun /\ DefaultInd /\ IndexInd

\* The initial states satisfy it.
LEMMA InitSettle == Init => SettleInd
  BY DEF Init, SettleInd, OneRun, DefaultInd, RunsRight, IndexInd, IndexContent, NoTxn

\* An enqueue leaves a row of each job it is for.
LEMMA EnqueueLeavesRow ==
  ASSUME TypeOK, NEW K, Enqueue(K), NEW k \in Jobs
  PROVE  /\ k \in K => rows'[k] > 0
         /\ rows'[k] >= rows[k]
  BY DEF TypeOK, Enqueue


\* A step that leaves the versions, the runs and the index alone, and after which what was
\* pending still is.
LEMMA SettleKept ==
  ASSUME SettleInd,
         UNCHANGED <<versions, yanked, default, txn, index, wpc, calculated, overlapped>>,
         \A k \in Jobs : Pending(k) => Pending(k)'
  PROVE  SettleInd'
  <1>1. OneRun'
    BY DEF SettleInd, OneRun
  <1>2. RunsRight => RunsRight'
    BY DEF RunsRight, Best, Below
  <1>3. DefaultInd'
    BY <1>2 DEF SettleInd, DefaultInd
  <1>4. IndexInd'
    BY DEF SettleInd, IndexInd, IndexContent
  <1> QED
    BY <1>1, <1>3, <1>4 DEF SettleInd

\* publish and yank_version enqueue all jobs with their write.
LEMMA AllEnqueued ==
  ASSUME TypeOK, SettleInd, Enqueue(Jobs), UNCHANGED <<wpc, overlapped>>
  PROVE  SettleInd'
  <1>1. OneRun'
    BY DEF SettleInd, OneRun
  <1>2. \A k \in Jobs : Pending(k)'
    BY EnqueueLeavesRow DEF Pending
  <1> QED
    BY <1>1, <1>2 DEF SettleInd, DefaultInd, IndexInd

\* The transactions: delete_version leaves the best of the other versions, as they were when it
\* calculated it or, if one was yanked since, as a row will see it.
LEMMA TransactionSettles ==
  ASSUME RowInv, SettleInd, NEW h \in Handlers,
         \/ \E v \in Versions : Publish(h, v)
         \/ \E vs \in SUBSET versions : DeleteVersions(h, vs)
         \/ CommitPublish(h) \/ CommitDelete(h) \/ Rollback(h)
  PROVE  SettleInd'
  <1> USE DEF RowInv, request, workers, table
  <1>0. hpc \in [Handlers -> {"idle", "loaded", "txn", "updated", "recorded"}]
    BY DEF TypeOK
  <1>1. ASSUME hpc[h] \in {"idle", "txn"}, NEW k \in Jobs, Pending(k),
               UNCHANGED <<rows, todo, interrupted>>,
               \A g \in Handlers \ {h} : hpc'[g] = hpc[g]
        PROVE  Pending(k)'
    BY <1>1 DEF Pending
  <1>2. ASSUME \/ \E v \in Versions : Publish(h, v)
               \/ \E vs \in SUBSET versions : DeleteVersions(h, vs)
               \/ Rollback(h)
        PROVE  SettleInd'
    <2>1. /\ UNCHANGED <<versions, yanked, default, index, wpc, calculated, overlapped,
                         rows, todo, interrupted>>
          /\ hpc[h] \in {"idle", "txn"}
          /\ \A g \in Handlers \ {h} : hpc'[g] = hpc[g]
      BY <1>0, <1>2 DEF Publish, DeleteVersions, Lock, Rollback
    <2>2. \A k \in Jobs : Pending(k) => Pending(k)'
      BY <1>1, <2>1
    <2>3. txn'.op = "delete" => Best(txn'.default, versions \ txn'.versions, yanked)
      <3>1. ASSUME NEW vs \in SUBSET versions, DeleteVersions(h, vs)
            PROVE  Best(txn'.default, versions \ txn'.versions, yanked)
        <4>1. /\ txn'.default = Calculate(versions \ vs)
              /\ txn'.versions = vs /\ versions \ vs # {}
          BY <3>1 DEF DeleteVersions, Lock
        <4> QED
          BY <4>1, CalculateBest DEF TypeOK
      <3>2. ASSUME NEW v \in Versions, Publish(h, v) PROVE txn'.op # "delete"
        BY <3>2 DEF Publish, Lock
      <3>3. CASE Rollback(h)
        BY <3>3 DEF Rollback, NoTxn
      <3> QED
        BY <1>2, <3>1, <3>2, <3>3
    <2>4. RunsRight => RunsRight'
      BY <2>1, <2>3 DEF RunsRight, Best, Below
    <2> QED
      BY <2>1, <2>2, <2>4 DEF SettleInd, OneRun, DefaultInd, IndexInd, IndexContent
  <1>3. CASE CommitPublish(h)
    BY <1>3, AllEnqueued DEF CommitPublish
  <1>4. CASE CommitDelete(h)
    <2> USE <1>4 DEF CommitDelete
    <2>1. OneRun'
      BY DEF SettleInd, OneRun
    <2>2. DefaultInd'
      <3>1. SUFFICES ASSUME "default" \in Jobs, ~overlapped, ~Pending("default")' PROVE RunsRight'
        BY DEF DefaultInd
      <3>2. ~Pending("default")
        <4>1. \A g \in Handlers \ {h} : hpc'[g] = hpc[g] /\ todo'[g] = todo[g]
          BY <1>0 DEF TypeOK
        <4> QED
          BY <3>1, <4>1 DEF Pending
      <3>3. RunsRight
        BY <3>1, <3>2 DEF SettleInd, DefaultInd
      <3>4. \A v \in versions' : v \in versions /\ yanked'[v] = yanked[v]
        BY DEF TypeOK
      <3>5. \A w \in Workers : wpc'[w] = "calculated" =>
              calculated'[w] \notin versions' \/ Best(calculated'[w], versions', yanked')
        <4> TAKE w \in Workers
        <4> HAVE wpc'[w] = "calculated"
        <4>1. CASE calculated[w] \in versions'
          BY <3>3, <3>4, <4>1, BestOfFewer DEF RunsRight
        <4> QED
          BY <4>1
      <3>6. txn.op = "delete" /\ txn.default \in versions \ txn.versions
        BY DEF TxnSound
      <3>7. ASSUME \A w \in Workers : wpc'[w] \in {"idle", "saved"}
            PROVE  Best(default', versions', yanked')
        <4>1. Best(txn.default, versions \ txn.versions, yanked)
          BY <3>3, <3>6, <3>7 DEF RunsRight
        <4> QED
          BY <3>4, <3>6, <4>1, BestOfFewer
      <3>8. versions' # {} /\ txn'.op # "delete"
        BY <3>6 DEF NoTxn
      <3> QED
        BY <3>5, <3>7, <3>8 DEF RunsRight
    <2>3. IndexInd'
      <3>1. hpc'[h] = "recorded" /\ ("index" \in Jobs => "index" \in todo'[h])
        BY DEF TypeOK
      <3> QED
        BY <3>1 DEF IndexInd, Pending
    <2> QED
      BY <2>1, <2>2, <2>3 DEF SettleInd
  <1> QED
    BY <1>2, <1>3, <1>4

\* The requests that yank, unyank and update a version: what they wrote stays pending until the
\* last enqueue, or they are lost.
LEMMA YankSettles ==
  ASSUME RowInv, SettleInd, NEW h \in Handlers,
         \/ \E v \in Versions, a \in {"yank", "unyank", "none"}, m \in Messages \cup {NoMessage} :
              LoadVersion(h, v, a, m)
         \/ YankStep(h)
         \/ Interrupt(h)
  PROVE  SettleInd'
  <1> USE DEF RowInv, request, workers, table
  <1>0. /\ hpc \in [Handlers -> {"idle", "loaded", "txn", "updated", "recorded"}]
        /\ todo \in [Handlers -> SUBSET Jobs]
    BY DEF TypeOK
  <1>1. ASSUME NEW v \in Versions, NEW a \in {"yank", "unyank", "none"},
               NEW m \in Messages \cup {NoMessage}, LoadVersion(h, v, a, m)
        PROVE  SettleInd'
    <2>1. \A k \in Jobs : Pending(k) => Pending(k)'
      BY <1>0, <1>1 DEF LoadVersion, Pending
    <2> QED
      BY <1>1, <2>1, SettleKept DEF LoadVersion
  <1>2. CASE UpdateVersion(h)
    <2>1. \A k \in Jobs : Pending(k)'
      BY <1>0, <1>2 DEF UpdateVersion, Pending
    <2> QED
      BY <1>2, <2>1 DEF UpdateVersion, SettleInd, OneRun, DefaultInd, IndexInd
  <1>3. CASE UpdateNothing(h) \/ Refuse(h) \/ HandlerDone(h) \/ Interrupt(h)
    <2>1. \A k \in Jobs : Pending(k) => Pending(k)'
      BY <1>0, <1>3 DEF UpdateNothing, Refuse, HandlerDone, Interrupt, Return, Pending
    <2>2. UNCHANGED <<versions, yanked, default, txn, index, wpc, calculated, overlapped>>
      BY <1>3 DEF UpdateNothing, Refuse, HandlerDone, Interrupt
    <2> QED
      BY <2>1, <2>2, SettleKept
  <1>4. CASE RecordAction(h)
    <2>1. \A k \in Jobs : Pending(k) => Pending(k)'
      BY <1>0, <1>4 DEF RecordAction, YankJobs, Pending
    <2> QED
      BY <1>4, <2>1, SettleKept DEF RecordAction
  <1>5. ASSUME NEW k \in Jobs, EnqueueNext(h, k) PROVE SettleInd'
    <2>1. \A j \in Jobs : rows'[j] >= rows[j] /\ (j = k => rows'[j] > 0)
      BY <1>5, EnqueueLeavesRow DEF EnqueueNext
    <2>2. rows \in [Jobs -> Nat] /\ rows' \in [Jobs -> Nat]
      BY <1>5, EnqueueType DEF EnqueueNext, TypeOK
    <2>3. ASSUME NEW j \in Jobs, Pending(j) PROVE Pending(j)'
      <3>1. CASE rows[j] > 0 \/ j = k
        BY <2>1, <2>2, <3>1 DEF Pending
      <3>2. CASE j # k /\ ~(rows[j] > 0)
        BY <1>0, <1>5, <2>3, <3>2 DEF Pending, EnqueueNext
      <3> QED
        BY <3>1, <3>2
    <2> QED
      BY <1>5, <2>3, SettleKept DEF EnqueueNext
  <1> QED
    BY <1>1, <1>2, <1>3, <1>4, <1>5 DEF YankStep

\* The runs of UpdateDefaultVersion: one that starts takes its row, one that fails brings it
\* back, and between them nothing is written that leaves no row of its own.
LEMMA RunSettles ==
  ASSUME RowInv, SettleInd, NEW w \in Workers, RunStep(w) \/ RunFails(w)
  PROVE  SettleInd'
  <1> USE DEF RowInv, request, handlers, table
  <1>0. /\ wpc \in [Workers -> {"idle", "started", "calculated", "saved"}]
        /\ calculated \in [Workers -> Versions \cup {None}]
        /\ rows \in [Jobs -> Nat]
    BY DEF TypeOK
  <1>1. /\ UNCHANGED <<versions, yanked, txn, index, handlers, interrupted>>
        /\ \A u \in Workers \ {w} : wpc'[u] = wpc[u] /\ calculated'[u] = calculated[u]
        /\ wpc[w] = "idle" \/ overlapped' = overlapped
    BY <1>0 DEF RunStep, StartRun, CalculateDefault, SaveDefault, RunOk, RunFails, EndRun
  <1>2. OneRun'
    <2>1. CASE StartRun(w)
      BY <1>0, <2>1 DEF StartRun, SettleInd, OneRun
    <2>2. CASE ~StartRun(w)
      <3>1. wpc[w] # "idle" /\ overlapped' = overlapped
        BY <2>2, <1>0 DEF RunStep, CalculateDefault, SaveDefault, RunOk, RunFails, EndRun
      <3> QED
        BY <1>1, <3>1 DEF SettleInd, OneRun
    <2> QED
      BY <2>1, <2>2
  <1>3. IndexInd'
    <2>1. "index" \in Jobs => rows'["index"] = rows["index"]
      BY <1>0 DEF RunStep, StartRun, CalculateDefault, SaveDefault, RunOk, RunFails
    <2> QED
      BY <1>1, <2>1 DEF SettleInd, IndexInd, IndexContent, Pending
  <1>4. DefaultInd'
    <2>1. SUFFICES ASSUME "default" \in Jobs, ~overlapped', ~Pending("default")' PROVE RunsRight'
      BY DEF DefaultInd
    <2>2. ASSUME wpc[w] # "idle" PROVE \A u \in Workers \ {w} : wpc'[u] = "idle"
      BY <1>0, <1>1, <2>1, <2>2 DEF SettleInd, OneRun
    <2>3. ASSUME rows' = rows, wpc[w] # "idle" PROVE RunsRight
      BY <1>1, <2>1, <2>3 DEF SettleInd, DefaultInd, Pending
    <2>4. CASE StartRun(w)
      <3>1. wpc'[w] = "started" /\ \A u \in Workers \ {w} : wpc'[u] = "idle"
        BY <1>0, <1>1, <2>1, <2>4 DEF StartRun
      <3> QED
        BY <3>1 DEF RunsRight
    <2>5. CASE CalculateDefault(w)
      <3>1. Best(calculated'[w], versions', yanked')
        BY <1>0, <1>1, <2>5, CalculateBest DEF CalculateDefault, TypeOK
      <3>2. wpc'[w] = "calculated" /\ wpc[w] # "idle"
        BY <1>0, <2>5 DEF CalculateDefault
      <3> QED
        BY <2>2, <3>1, <3>2 DEF RunsRight
    <2>6. CASE SaveDefault(w)
      <3>1. RunsRight /\ wpc[w] = "calculated" /\ wpc'[w] = "saved"
        BY <1>0, <2>3, <2>6 DEF SaveDefault
      <3>2. default' = calculated[w] /\ calculated[w] \in versions /\ txn' = NoTxn
        BY <2>6 DEF SaveDefault
      <3>3. Best(default', versions', yanked')
        BY <1>1, <3>1, <3>2 DEF RunsRight
      <3> QED
        BY <1>1, <2>2, <3>1, <3>2, <3>3 DEF RunsRight, NoTxn
    <2>7. CASE RunOk(w)
      <3>1. RunsRight /\ wpc'[w] = "idle" /\ default' = default
        BY <1>0, <2>3, <2>7 DEF RunOk, EndRun
      <3>2. CASE wpc[w] = "saved"
        <4>1. \A u \in Workers : wpc[u] \in {"idle", "saved"}
          BY <1>1, <2>2, <3>2
        <4> QED
          BY <1>1, <2>2, <3>1, <4>1 DEF RunsRight
      <3>3. CASE versions = {}
        <4>1. default = None /\ txn.op # "delete"
          BY <3>3 DEF DefaultRowSound, TxnSound
        <4> QED
          BY <1>1, <2>2, <3>1, <3>3, <4>1 DEF RunsRight
      <3> QED
        BY <2>7, <3>2, <3>3 DEF RunOk
    <2>8. CASE RunFails(w)
      <3>1. rows'["default"] > 0
        BY <1>0, <2>1, <2>8 DEF RunFails
      <3> QED
        BY <2>1, <3>1 DEF Pending
    <2> QED
      BY <2>4, <2>5, <2>6, <2>7, <2>8 DEF RunStep
  <1> QED
    BY <1>2, <1>3, <1>4 DEF SettleInd

\* Every step preserves the invariant.
LEMMA StepSettles == RowInv /\ RowInv' /\ SettleInd /\ [Next]_vars => SettleInd'
  <1> SUFFICES ASSUME RowInv, RowInv', SettleInd, [Next]_vars PROVE SettleInd'
    OBVIOUS
  <1> USE DEF RowInv, table, request, handlers, workers
  <1>1. ASSUME NEW v \in Versions, AdminYank(v) PROVE SettleInd'
    BY <1>1, AllEnqueued DEF AdminYank
  <1>2. CASE DeleteCrate
    <2>1. "index" \in Jobs => rows'["index"] > 0
      BY <1>2, EnqueueLeavesRow DEF DeleteCrate
    <2>2. RunsRight'
      BY <1>2 DEF DeleteCrate, RunsRight, NoTxn
    <2> QED
      BY <1>2, <2>1, <2>2 DEF DeleteCrate, SettleInd, OneRun, DefaultInd, IndexInd, Pending
  <1>3. CASE SyncIndex
    <2>1. "default" \in Jobs => rows'["default"] = rows["default"]
      BY <1>3 DEF SyncIndex, TypeOK
    <2>2. IndexInd'
      BY <1>3 DEF SyncIndex, IndexInd, IndexContent
    <2>3. RunsRight => RunsRight'
      BY <1>3 DEF SyncIndex, RunsRight, Best, Below
    <2>4. DefaultInd'
      BY <1>3, <2>1, <2>3 DEF SyncIndex, SettleInd, DefaultInd, Pending
    <2> QED
      BY <1>3, <2>2, <2>4 DEF SyncIndex, SettleInd, OneRun
  <1>4. CASE UNCHANGED vars
    <2>1. \A k \in Jobs : Pending(k) => Pending(k)'
      BY <1>4 DEF vars, Pending
    <2> QED
      BY <1>4, <2>1, SettleKept DEF vars
  <1> QED
    BY <1>1, <1>2, <1>3, <1>4, TransactionSettles, YankSettles, RunSettles DEF Next, HandlerStep

\* default_versions and the index: whatever publishes, yanks, deletions and runs overlap, once
\* nothing is under way the default version is the one that calculate_default_version finds and
\* the index shows the versions as they are, unless a handler was lost before its enqueues or
\* two runs of UpdateDefaultVersion have overlapped.
THEOREM VersionsAreSettled == Spec => []VersionsSettle
  <1>1. RowInv /\ SettleInd => VersionsSettle
    <2> SUFFICES ASSUME RowInv, SettleInd PROVE DefaultSettles /\ IndexSettles
      BY DEF VersionsSettle
    <2>1. HandlersIdle => \A k \in Jobs : rows[k] = 0 /\ ~interrupted => ~Pending(k)
      BY DEF HandlersIdle, Pending
    <2>2. DefaultSettles
      <3> SUFFICES ASSUME DefaultQuiet, ~interrupted, ~overlapped
                   PROVE  default = Calculate(versions)
        BY DEF DefaultSettles
      <3>1. RunsRight /\ \A w \in Workers : wpc[w] \in {"idle", "saved"}
        BY <2>1 DEF DefaultQuiet, SettleInd, DefaultInd
      <3>2. CASE versions = {}
        BY <3>1, <3>2 DEF RunsRight, Calculate
      <3>3. CASE versions # {}
        BY <3>1, <3>3, CalculateBest, BestUnique DEF RunsRight, RowInv, TypeOK
      <3> QED
        BY <3>2, <3>3
    <2>3. IndexSettles
      BY <2>1 DEF IndexSettles, SettleInd, IndexInd
    <2> QED
      BY <2>2, <2>3
  <1> QED
    BY InitRowInv, StepRowInv, InitSettle, StepSettles, <1>1, PTL DEF Spec

-----------------------------------------------------------------------------
(* Listings: the filters.                                                  *)


\* Of the parameters that are given, those that the code applies are those that the
\* descriptions do not call ignored.
LEMMA AppliedAsDocumented ==
  ASSUME NEW params PROVE Applied(params) = Documented(params)
  <1>1. DOMAIN Chain = 1..7
    BY DEF Chain
  <1>2. \A i \in 1..7 : IgnoredIf(Chain[i]) = {Chain[k] : k \in 1..(i - 1)}
    <2> TAKE i \in 1..7
    <2>1. CASE i = 1
      BY <2>1 DEF Chain, IgnoredIf
    <2>2. CASE i = 2
      BY <2>2 DEF Chain, IgnoredIf
    <2>3. CASE i = 3
      BY <2>3 DEF Chain, IgnoredIf
    <2>4. CASE i = 4
      BY <2>4 DEF Chain, IgnoredIf
    <2>5. CASE i = 5
      BY <2>5 DEF Chain, IgnoredIf
    <2>6. CASE i = 6
      BY <2>6 DEF Chain, IgnoredIf
    <2>7. CASE i = 7
      BY <2>7 DEF Chain, IgnoredIf
    <2> QED
      BY <2>1, <2>2, <2>3, <2>4, <2>5, <2>6, <2>7
  <1>3. \A p : (\A i \in 1..7 : p # Chain[i]) => IgnoredIf(p) = {}
    BY DEF Chain, IgnoredIf
  <1>4. \A i, j \in 1..7 : Chain[i] = Chain[j] => i = j
    BY DEF Chain
  <1>5. \A p \in params : p \in Applied(params) <=> IgnoredIf(p) \cap params = {}
    <2> TAKE p \in params
    <2>1. CASE \A i \in 1..7 : p # Chain[i]
      BY <2>1, <1>1, <1>3 DEF Applied
    <2>2. ASSUME NEW i \in 1..7, p = Chain[i]
          PROVE  p \in Applied(params) <=> IgnoredIf(p) \cap params = {}
      <3>1. p \in Applied(params) <=> \A k \in 1..7 : Chain[k] \in params => ~(k < i)
        BY <2>2, <1>1, <1>4 DEF Applied
      <3>2. IgnoredIf(p) \cap params = {} <=> \A k \in 1..(i - 1) : Chain[k] \notin params
        BY <2>2, <1>2
      <3> QED
        BY <3>1, <3>2
    <2> QED
      BY <2>1, <2>2
  <1> QED
    BY <1>5 DEF Applied, Documented

-----------------------------------------------------------------------------
(* The keys of the pages, and the order of a listing on them.              *)

\* The keys that links carry for the rows of a kind of listing
KeysOf(kind) == [id : RowIds, col : Columns(kind), exact : BOOLEAN]

\* The row of k comes before that of p, where names are nm.
KeyBefore(kind, nm, k, p) ==
  CASE kind = "name" -> nm[k.id] < nm[p.id]
    [] kind = "query" ->
         \/ k.exact /\ ~p.exact
         \/ k.exact = p.exact /\ nm[k.id] < nm[p.id]
    [] kind = "relevance" ->
         \/ k.exact /\ ~p.exact
         \/ k.exact = p.exact /\ (k.col > p.col \/ (k.col = p.col /\ nm[k.id] < nm[p.id]))
    [] kind = "reverse" -> k.col > p.col \/ (k.col = p.col /\ nm[k.id] < nm[p.id])
    [] kind = "id" -> k.id < p.id
    [] kind = "invitation" -> k.col < p.col \/ (k.col = p.col /\ k.id < p.id)
    [] kind \in {"counts", "followed"} -> k.col > p.col
    [] OTHER -> ColDesc(k.col, p.col) \/ (k.col = p.col /\ k.id > p.id)

\* Names tell crates apart.
NamesOK(nm) == nm \in [RowIds -> RowIds] /\ \A i, j \in RowIds : nm[i] = nm[j] => i = j

\* Columns are numbers, or missing.
LEMMA ColumnsAreNumbers ==
  ASSUME NEW kind PROVE Columns(kind) \subseteq {Null, 1, 2}
  BY DEF Columns

\* The parts of a key, and the name it stands for
LEMMA KeyNumbers ==
  ASSUME NEW kind, NEW nm, NamesOK(nm), NEW k \in KeysOf(kind)
  PROVE  k.id \in Int /\ k.col \in Int /\ nm[k.id] \in Int /\ k.exact \in BOOLEAN
         /\ k.id \in RowIds /\ k.col \in Columns(kind)
  <1>1. k.id \in RowIds /\ k.col \in Columns(kind) /\ k.exact \in BOOLEAN
    BY DEF KeysOf
  <1>2. RowIds \subseteq Int
    BY ListingAssumption, FS_CardinalityType
  <1>3. nm[k.id] \in Int
    BY <1>1, <1>2 DEF NamesOK
  <1>4. k.col \in Int
    BY <1>1, ColumnsAreNumbers DEF Null
  <1> QED
    BY <1>1, <1>2, <1>3, <1>4

\* The order is asymmetric.
LEMMA KeyAsymmetric ==
  ASSUME NEW kind, NEW nm, NamesOK(nm), NEW k \in KeysOf(kind), NEW p \in KeysOf(kind),
         KeyBefore(kind, nm, k, p)
  PROVE  ~KeyBefore(kind, nm, p, k)
  <1>1. k.id \in Int /\ k.col \in Int /\ nm[k.id] \in Int /\ k.exact \in BOOLEAN
    BY KeyNumbers
  <1>2. p.id \in Int /\ p.col \in Int /\ nm[p.id] \in Int /\ p.exact \in BOOLEAN
    BY KeyNumbers
  <1> QED
    BY <1>1, <1>2 DEF KeyBefore, ColDesc, Null

\* Of two keys in order, any third comes after the first or before the second.
LEMMA KeyCotransitive ==
  ASSUME NEW kind, NEW nm, NamesOK(nm),
         NEW k \in KeysOf(kind), NEW p \in KeysOf(kind), NEW m \in KeysOf(kind),
         KeyBefore(kind, nm, k, p)
  PROVE  KeyBefore(kind, nm, k, m) \/ KeyBefore(kind, nm, m, p)
  <1>1. k.id \in Int /\ k.col \in Int /\ nm[k.id] \in Int /\ k.exact \in BOOLEAN
    BY KeyNumbers
  <1>2. p.id \in Int /\ p.col \in Int /\ nm[p.id] \in Int /\ p.exact \in BOOLEAN
    BY KeyNumbers
  <1>3. m.id \in Int /\ m.col \in Int /\ nm[m.id] \in Int /\ m.exact \in BOOLEAN
    BY KeyNumbers
  <1> QED
    BY <1>1, <1>2, <1>3 DEF KeyBefore, ColDesc, Null

\* Where rows have no equals, the order tells any two apart.
LEMMA KeyTotal ==
  ASSUME NEW kind, NEW nm, NamesOK(nm), NEW k \in KeysOf(kind), NEW p \in KeysOf(kind),
         kind \notin {"counts", "followed"}, k.id # p.id
  PROVE  KeyBefore(kind, nm, k, p) \/ KeyBefore(kind, nm, p, k)
  <1>1. /\ k.id \in Int /\ k.col \in Int /\ nm[k.id] \in Int /\ k.exact \in BOOLEAN
        /\ k.id \in RowIds
    BY KeyNumbers
  <1>2. /\ p.id \in Int /\ p.col \in Int /\ nm[p.id] \in Int /\ p.exact \in BOOLEAN
        /\ p.id \in RowIds
    BY KeyNumbers
  <1>3. nm[k.id] # nm[p.id]
    BY <1>1, <1>2 DEF NamesOK
  <1> QED
    BY <1>1, <1>2, <1>3 DEF KeyBefore, ColDesc, Null

-----------------------------------------------------------------------------
(* Sequences of the elements of a set.                                     *)

\* A sequence of the elements of a finite set has each of them once.
LEMMA SequencesOfSet ==
  ASSUME NEW S, IsFiniteSet(S), NEW s \in SetToSeqs(S)
  PROVE  /\ Cardinality(S) \in Nat
         /\ s \in Seq(S) /\ Len(s) = Cardinality(S) /\ DOMAIN s = 1..Cardinality(S)
         /\ \A i \in 1..Cardinality(S) : s[i] \in S
         /\ \A i, j \in 1..Cardinality(S) : s[i] = s[j] => i = j
         /\ \A x \in S : \E i \in 1..Cardinality(S) : s[i] = x
  <1> DEFINE n == Cardinality(S)
  <1>1. n \in Nat
    BY FS_CardinalityType
  <1>2. s \in [1..n -> S] /\ \A i, j \in 1..n : i # j => s[i] # s[j]
    BY DEF SetToSeqs
  <1>3. s \in Injection(1..n, S)
    BY <1>2 DEF Injection, IsInjective
  <1>4. Cardinality(1..n) = n
    BY <1>1, FS_Interval
  <1>5. s \in Surjection(1..n, S)
    BY <1>3, <1>4, FS_Injection
  <1>6. \A x \in S : \E i \in 1..n : s[i] = x
    BY <1>5 DEF Surjection
  <1>7. s \in Seq(S) /\ Len(s) = n
    BY <1>1, <1>2, SeqDef
  <1> QED
    BY <1>1, <1>2, <1>6, <1>7

\* A sequence without repetitions is as long as its range is large.
LEMMA LengthOfInjective ==
  ASSUME NEW S, NEW s \in Seq(S), \A i, j \in DOMAIN s : s[i] = s[j] => i = j
  PROVE  IsFiniteSet(Range(s)) /\ Cardinality(Range(s)) = Len(s)
  <1>1. Len(s) \in Nat /\ DOMAIN s = 1..Len(s)
    BY LenProperties
  <1>2. s \in Bijection(1..Len(s), Range(s))
    BY <1>1 DEF Bijection, Injection, Surjection, IsInjective, Range
  <1>3. IsFiniteSet(1..Len(s)) /\ Cardinality(1..Len(s)) = Len(s)
    BY <1>1, FS_Interval
  <1> QED
    BY <1>2, <1>3, FS_Bijection DEF ExistsBijection

\* R tells the elements of S apart, as a strict order.
Orders(R, S) ==
  \A x, y \in S : (x # y => <<x, y>> \in R \/ <<y, x>> \in R) /\ ~(<<x, y>> \in R /\ <<y, x>> \in R)

InOrder(s, R) == \A i, j \in DOMAIN s : i < j => <<s[j], s[i]>> \notin R

\* An element's place among the elements of a set is the number of those before it.
LEMMA PlaceInOrder ==
  ASSUME NEW S, IsFiniteSet(S), NEW s \in SetToSeqs(S), NEW R, Orders(R, S), InOrder(s, R),
         NEW i \in 1..Cardinality(S)
  PROVE  Cardinality({x \in S : <<x, s[i]>> \in R}) = i - 1
  <1> DEFINE n == Cardinality(S)
             B == {x \in S : <<x, s[i]>> \in R}
             f == [k \in 1..(i - 1) |-> s[k]]
  <1>1. /\ n \in Nat /\ DOMAIN s = 1..n
        /\ \A k \in 1..n : s[k] \in S
        /\ \A k, m \in 1..n : s[k] = s[m] => k = m
        /\ \A x \in S : \E k \in 1..n : s[k] = x
    BY SequencesOfSet
  <1>2. \A k \in 1..n : s[k] \in B <=> k < i
    <2> TAKE k \in 1..n
    <2>1. CASE k < i
      <3>1. <<s[i], s[k]>> \notin R
        BY <1>1, <2>1 DEF InOrder
      <3> QED
        BY <1>1, <2>1, <3>1 DEF Orders
    <2>2. CASE ~(k < i)
      <3>1. k = i \/ i < k
        BY <1>1, <2>2
      <3>2. <<s[k], s[i]>> \notin R
        BY <1>1, <3>1 DEF Orders, InOrder
      <3> QED
        BY <2>2, <3>2
    <2> QED
      BY <2>1, <2>2
  <1> HIDE DEF B
  <1>3. B \subseteq S
    BY DEF B
  <1>4. f \in Bijection(1..(i - 1), B)
    <2>1. f \in [1..(i - 1) -> B]
      BY <1>1, <1>2
    <2>2. \A k, m \in 1..(i - 1) : f[k] = f[m] => k = m
      BY <1>1
    <2>3. \A x \in B : \E k \in 1..(i - 1) : f[k] = x
      BY <1>1, <1>2, <1>3
    <2> HIDE DEF f
    <2> QED
      BY <2>1, <2>2, <2>3 DEF Bijection, Injection, Surjection, IsInjective
  <1>5. IsFiniteSet(1..(i - 1)) /\ Cardinality(1..(i - 1)) = i - 1
    <2>1. i \in Nat /\ i - 1 \in Int /\ (1 > i - 1 => i - 1 = 0) /\ (i - 1) - 1 + 1 = i - 1
      BY <1>1
    <2>2. /\ IsFiniteSet(1..(i - 1))
          /\ Cardinality(1..(i - 1)) = IF 1 > i - 1 THEN 0 ELSE (i - 1) - 1 + 1
      BY <2>1, FS_Interval
    <2> QED
      BY <2>1, <2>2
  <1> QED
    BY <1>4, <1>5, FS_Bijection DEF ExistsBijection, B

\* The elements of a set have one order.
LEMMA OneOrder ==
  ASSUME NEW S, IsFiniteSet(S), NEW s \in SetToSeqs(S), NEW t \in SetToSeqs(S),
         NEW R, Orders(R, S), InOrder(s, R), InOrder(t, R)
  PROVE  s = t
  <1> DEFINE n == Cardinality(S)
  <1>1. /\ n \in Nat /\ DOMAIN s = 1..n
        /\ \A k \in 1..n : s[k] \in S
        /\ s \in Seq(S) /\ Len(s) = n
    BY SequencesOfSet
  <1>2. /\ DOMAIN t = 1..n /\ t \in Seq(S) /\ Len(t) = n
        /\ \A x \in S : \E k \in 1..n : t[k] = x
    BY SequencesOfSet
  <1>3. \A i \in 1..n : s[i] = t[i]
    <2> TAKE i \in 1..n
    <2>1. PICK j \in 1..n : t[j] = s[i]
      BY <1>1, <1>2
    <2>2. Cardinality({x \in S : <<x, s[i]>> \in R}) = i - 1
      BY PlaceInOrder
    <2>3. Cardinality({x \in S : <<x, t[j]>> \in R}) = j - 1
      BY PlaceInOrder
    <2>4. i = j
      BY <1>1, <2>1, <2>2, <2>3
    <2> QED
      BY <2>1, <2>4
  <1> QED
    BY <1>1, <1>2, <1>3, SeqEqual

-----------------------------------------------------------------------------
(* The invariant.                                                          *)

\* The row of k comes before that of p, in the walk's order.
Precedes(k, p) == KeyBefore(walk.kind, names, k, p)

\* Rows that are, or were, in the listing
InPlay(i) == entries[i].present \/ i \in Range(changed)

ListTypes ==
  /\ entries = [i \in RowIds |->
       [present |-> entries[i].present, col |-> entries[i].col, facets |-> entries[i].facets]]
  /\ \A i \in RowIds :
       /\ entries[i].present \in BOOLEAN
       /\ InPlay(i) => entries[i].col \in Columns(walk.kind)
  /\ names \in [RowIds -> RowIds] /\ \A i, j \in RowIds : names[i] = names[j] => i = j
  /\ exact \in [RowIds -> BOOLEAN] /\ \A i, j \in RowIds : exact[i] /\ exact[j] => i = j
  /\ walk.kind \notin {"query", "relevance"} => \A i \in RowIds : ~exact[i]
  /\ walk = [kind |-> walk.kind, per |-> walk.per, params |-> walk.params, paged |-> walk.paged,
             page |-> walk.page, key |-> walk.key, pc |-> walk.pc, total |-> walk.total,
             last |-> walk.last, cut |-> walk.cut]
  /\ walk.kind \in Kinds /\ walk.per \in PerPage /\ walk.params \in ParamSets
  /\ walk.paged \in BOOLEAN /\ walk.page \in Nat \ {0} /\ walk.cut \in BOOLEAN
  /\ walk.pc \in {"ask", "rest", "last", "end", "refused"}
  /\ walk.kind \in OffsetOnly => walk.paged
  /\ walk.paged => walk.kind \in Searches \cup OffsetOnly
  /\ walk.last \in Seq(RowIds) /\ Len(walk.last) <= walk.per
  /\ shown \in Seq(RowIds) /\ changed \in Seq(RowIds)
  /\ \A i \in Range(shown) : InPlay(i)
  /\ walk.pc \in {"rest", "last"} => Len(walk.last) <= Len(shown)

\* The key is that of a row that was shown, and still has its value if that cannot change.
KeySound ==
  walk.key # NoKey =>
    /\ walk.key \in KeysOf(walk.kind)
    /\ walk.key.id \in Range(shown)
    /\ walk.key.exact = exact[walk.key.id]
    /\ walk.kind = "invitation" => walk.key.col = entries[walk.key.id].col

\* The rows whose place in the order is what it was when they were shown; invitations
\* never change theirs.
Placed == IF walk.kind = "invitation" THEN RowIds ELSE Stable

Asks == walk.pc \in {"ask", "rest"}

\* Between two pages: what was shown is not behind the key, and every row that was there
\* all along was shown or is.
SeekInd ==
  ~walk.paged =>
    /\ walk.pc # "refused"
    /\ walk.key = NoKey /\ Asks => walk.pc = "ask" /\ shown = <<>>
    /\ Asks /\ walk.key # NoKey =>
         \A i \in Range(shown) \cap Placed : ~Precedes(walk.key, Payload(i))
    /\ \A m, n \in DOMAIN shown :
         m < n /\ {shown[m], shown[n]} \subseteq Placed =>
           Precedes(Payload(shown[m]), Payload(shown[n]))
    /\ \A i \in Range(shown) \cap Stable : i \in Expected
    /\ ~walk.cut =>
         \A i \in Expected : i \in Range(shown) \/
           (Asks /\ (walk.key = NoKey \/ Precedes(walk.key, Payload(i))))

\* Invitations are asked for again from the last one that is kept.
InvitationInd ==
  walk.kind = "invitation" /\ walk.pc = "rest" => walk.key.id = shown[Len(shown)]

CutInd == walk.cut => changed # <<>>

\* The pages by number so far are the beginning of the list.
NumberInd ==
  walk.paged /\ changed = <<>> =>
    /\ Asks => Len(shown) = Offset(walk.page, walk.per) /\ Len(shown) <= Cardinality(Listed)
    /\ walk.pc \in {"last", "end"} => Len(shown) = Cardinality(Listed)
    /\ walk.kind \notin {"counts", "followed"} =>
         /\ Asks => \A s \in Sorted(Listed) : shown = SubSeq(s, 1, Len(shown))
         /\ walk.pc \in {"last", "end"} => shown \in Sorted(Listed)

\* The number of listed rows, if the last page has any.
CountOfPage == IF walk.last # <<>> THEN Cardinality(Listed) ELSE 0

\* The total is told with the page, for versions and configurations once it is finished.
TotalInd ==
  changed = <<>> =>
    /\ walk.kind \in Searches \cup OffsetOnly => walk.total = CountOfPage
    /\ walk.kind \in {"semver", "date"} /\ walk.pc = "end" => walk.total = CountOfPage
    /\ walk.kind = "id" /\ walk.pc = "end" => walk.total = Len(shown)

ListInd == ListTypes /\ KeySound /\ SeekInd /\ InvitationInd /\ CutInd /\ NumberInd /\ TotalInd

-----------------------------------------------------------------------------
(* Rows and keys.                                                          *)

\* The columns of the kinds that seek
LEMMA ColumnsOfKind ==
  ASSUME NEW kind
  PROVE  /\ kind = "recent-downloads" => Columns(kind) = {Null, 1, 2}
         /\ kind \notin {"name", "id", "query", "recent-downloads"} => Columns(kind) = {1, 2}
  BY DEF Columns

\* The key of a row in play
LEMMA PayloadKey ==
  ASSUME ListTypes, NEW i \in RowIds, InPlay(i)
  PROVE  /\ Payload(i) \in KeysOf(walk.kind)
         /\ Payload(i).id = i /\ Payload(i).col = entries[i].col /\ Payload(i).exact = exact[i]
         /\ Payload(i) # NoKey
  <1>1. entries[i].col \in Columns(walk.kind) /\ exact[i] \in BOOLEAN
    BY DEF ListTypes
  <1>2. i # 0
    BY ListingAssumption, FS_CardinalityType
  <1> QED
    BY <1>1, <1>2 DEF Payload, KeysOf, NoKey

\* A row comes before another if its key does.
LEMMA BeforeByKeys ==
  ASSUME ListTypes, NEW i \in RowIds, NEW j \in RowIds, InPlay(i), InPlay(j)
  PROVE  Before(walk.kind, i, j) <=> Precedes(Payload(i), Payload(j))
  <1>1. entries[i].col \in Columns(walk.kind) /\ entries[j].col \in Columns(walk.kind)
    BY DEF ListTypes
  <1>2. /\ Payload(i).id = i /\ Payload(i).col = entries[i].col /\ Payload(i).exact = exact[i]
        /\ Payload(j).id = j /\ Payload(j).col = entries[j].col /\ Payload(j).exact = exact[j]
    BY PayloadKey
  <1>3. i \in Int /\ j \in Int
    BY ListingAssumption, FS_CardinalityType
  <1> DEFINE a == entries[i].col
             b == entries[j].col
  <1>4. CASE walk.kind \in {"name", "query", "relevance", "id", "invitation", "counts",
                            "followed", "reverse"}
    BY <1>2, <1>4 DEF Before, SearchBefore, ConfigBefore, InvitationBefore, CountsBefore,
         FollowedBefore, ReverseBefore, Precedes, KeyBefore
  <1>5. CASE walk.kind \in {"semver", "date"}
    <2>1. a \in {1, 2} /\ b \in {1, 2}
      BY <1>1, <1>5, ColumnsOfKind
    <2> QED
      BY <1>2, <1>3, <1>5, <2>1 DEF Before, VersionBefore, Precedes, KeyBefore, ColDesc, Null
  <1>6. CASE walk.kind \notin {"name", "query", "relevance", "id", "invitation", "counts",
                               "followed", "reverse", "semver", "date"}
    BY <1>2, <1>6 DEF Before, SearchBefore, Precedes, KeyBefore
  <1> QED
    BY <1>4, <1>5, <1>6

\* The facts about the key that the walk seeks after
LEMMA SeekKey ==
  ASSUME ListTypes, KeySound, walk.key # NoKey
  PROVE  /\ walk.key.id \in RowIds /\ walk.key.id \in Int
         /\ walk.key.col \in Columns(walk.kind)
         /\ walk.key.exact \in BOOLEAN /\ walk.key.exact = exact[walk.key.id]
         /\ names[walk.key.id] \in RowIds
  <1>1. walk.key \in KeysOf(walk.kind) /\ walk.key.exact = exact[walk.key.id]
    BY DEF KeySound
  <1>2. NamesOK(names)
    BY DEF ListTypes, NamesOK
  <1> QED
    BY <1>1, <1>2, KeyNumbers DEF NamesOK

\* A name is found if the crate is there.
LEMMA NameOfPresent ==
  ASSUME ListTypes, NEW i \in RowIds
  PROVE  /\ CrateNameById(i) # NoName <=> entries[i].present
         /\ entries[i].present => CrateNameById(i) = names[i]
         /\ names[i] \in Int
  <1>1. \A r \in RowIds : r \in Int /\ r # 0
    BY ListingAssumption, FS_CardinalityType
  <1>2. names[i] \in RowIds
    BY DEF ListTypes
  <1>3. names[i] \in Int /\ names[i] # 0
    BY <1>1, <1>2
  <1>4. CASE entries[i].present
    <2>1. CrateNameById(i) = names[i]
      BY <1>4 DEF CrateNameById
    <2> QED
      BY <1>3, <1>4, <2>1 DEF NoName
  <1>5. CASE ~entries[i].present
    <2>1. CrateNameById(i) = NoName
      BY <1>5 DEF CrateNameById
    <2> QED
      BY <1>3, <1>5, <2>1
  <1> QED
    BY <1>4, <1>5

\* What the seek condition lets through comes after the key in the order.
LEMMA SeekSound ==
  ASSUME ListTypes, KeySound, walk.key # NoKey, ~walk.paged,
         NEW i \in RowIds, entries[i].present, SeekAfter(walk.key, i)
  PROVE  Precedes(walk.key, Payload(i))
  <1> DEFINE k == walk.key
  <1>1. /\ k.id \in RowIds /\ k.id \in Int /\ k.col \in Columns(walk.kind)
        /\ k.exact \in BOOLEAN
    BY SeekKey
  <1>2. InPlay(i) /\ i \in Int
    BY ListingAssumption, FS_CardinalityType DEF InPlay
  <1>3. Payload(i).id = i /\ Payload(i).col = entries[i].col /\ Payload(i).exact = exact[i]
    BY <1>2, PayloadKey
  <1>4. entries[i].col \in Columns(walk.kind) /\ exact[i] \in BOOLEAN
    BY <1>2 DEF ListTypes
  <1>5. walk.kind \in Searches \cup {"semver", "date", "id", "invitation"}
    BY ListingAssumption DEF ListTypes
  <1>6. /\ CrateNameById(k.id) # NoName => CrateNameById(k.id) = names[k.id]
        /\ names[k.id] \in Int /\ names[i] \in Int
    BY <1>1, NameOfPresent
  <1> HIDE DEF k
  <1>7. SeekAfter(k, i)
    BY DEF k
  <1>8. CASE walk.kind \in {"name", "query"}
    BY <1>1, <1>3, <1>4, <1>6, <1>7, <1>8
    DEF SeekAfter, NameAfter, QueryAfter, Precedes, KeyBefore, k
  <1>9. CASE walk.kind = "relevance"
    <2>1. k.col \in {1, 2} /\ entries[i].col \in {1, 2}
      BY <1>1, <1>4, <1>9, ColumnsOfKind
    <2> QED
      BY <1>1, <1>3, <1>4, <1>6, <1>7, <1>9, <2>1
      DEF SeekAfter, NameAfter, RelevanceAfter, Precedes, KeyBefore, k
  <1>10. CASE walk.kind = "id"
    BY <1>1, <1>2, <1>3, <1>7, <1>10 DEF SeekAfter, ConfigAfter, Precedes, KeyBefore, k
  <1>11. CASE walk.kind = "invitation"
    <2>1. k.col \in {1, 2} /\ entries[i].col \in {1, 2}
      BY <1>1, <1>4, <1>11, ColumnsOfKind
    <2> QED
      BY <1>1, <1>2, <1>3, <1>7, <1>11, <2>1
      DEF SeekAfter, InvitationAfter, Precedes, KeyBefore, k
  <1>12. CASE walk.kind = "recent-downloads"
    <2>1. k.col \in {Null, 1, 2} /\ entries[i].col \in {Null, 1, 2}
      BY <1>1, <1>4, <1>12, ColumnsOfKind
    <2> QED
      BY <1>1, <1>2, <1>3, <1>7, <1>12, <2>1
      DEF SeekAfter, RecentDownloadsAfter, Precedes, KeyBefore, ColDesc, Null, k
  <1>13. CASE walk.kind \in {"new", "recent-updates", "downloads", "semver", "date"}
    <2>1. k.col \in {1, 2} /\ entries[i].col \in {1, 2}
      BY <1>1, <1>4, <1>13, ColumnsOfKind
    <2> QED
      BY <1>1, <1>2, <1>3, <1>7, <1>13, <2>1
      DEF SeekAfter, TimeAfter, DownloadsAfter, VersionAfter, Precedes, KeyBefore, ColDesc,
          Null, k
  <1> QED
    BY <1>5, <1>8, <1>9, <1>10, <1>11, <1>12, <1>13 DEF Searches

\* The key is by name, and its crate is gone.
KeyLost ==
  /\ walk.key # NoKey /\ walk.kind \in {"name", "query", "relevance"}
  /\ ~walk.key.exact /\ CrateNameById(walk.key.id) = NoName

\* What comes after the key in the order, the seek condition lets through, unless it has
\* lost the name to compare with.
LEMMA SeekComplete ==
  ASSUME ListTypes, KeySound, walk.key # NoKey, ~walk.paged, ~KeyLost,
         NEW i \in RowIds, entries[i].present, Precedes(walk.key, Payload(i))
  PROVE  SeekAfter(walk.key, i)
  <1> DEFINE k == walk.key
  <1>1. /\ k.id \in RowIds /\ k.id \in Int /\ k.col \in Columns(walk.kind)
        /\ k.exact \in BOOLEAN /\ k.exact = exact[k.id]
    BY SeekKey
  <1>2. InPlay(i) /\ i \in Int
    BY ListingAssumption, FS_CardinalityType DEF InPlay
  <1>3. Payload(i).id = i /\ Payload(i).col = entries[i].col /\ Payload(i).exact = exact[i]
    BY <1>2, PayloadKey
  <1>4. entries[i].col \in Columns(walk.kind) /\ exact[i] \in BOOLEAN
    BY <1>2 DEF ListTypes
  <1>5. walk.kind \in Searches \cup {"semver", "date", "id", "invitation"}
    BY ListingAssumption DEF ListTypes
  <1>6. /\ CrateNameById(k.id) # NoName => CrateNameById(k.id) = names[k.id]
        /\ names[k.id] \in Int /\ names[i] \in Int
    BY <1>1, NameOfPresent
  <1>7. k.exact /\ exact[i] => k.id = i
    BY <1>1 DEF ListTypes
  <1>8. walk.kind = "name" => ~k.exact
    BY <1>1 DEF ListTypes
  <1> HIDE DEF k
  <1>9. Precedes(k, Payload(i))
    BY DEF k
  <1>10. walk.kind \in {"name", "query", "relevance"} => k.exact \/ CrateNameById(k.id) # NoName
    BY DEF KeyLost, k
  <1>11. CASE walk.kind = "name"
    BY <1>1, <1>3, <1>4, <1>6, <1>8, <1>9, <1>10, <1>11
    DEF SeekAfter, NameAfter, Precedes, KeyBefore, k
  <1>12. CASE walk.kind = "query"
    BY <1>1, <1>3, <1>4, <1>6, <1>7, <1>9, <1>10, <1>12
    DEF SeekAfter, NameAfter, QueryAfter, Precedes, KeyBefore, k
  <1>13. CASE walk.kind = "relevance"
    <2>1. k.col \in {1, 2} /\ entries[i].col \in {1, 2}
      BY <1>1, <1>4, <1>13, ColumnsOfKind
    <2> QED
      BY <1>1, <1>3, <1>4, <1>6, <1>7, <1>9, <1>10, <1>13, <2>1
      DEF SeekAfter, NameAfter, RelevanceAfter, Precedes, KeyBefore, k
  <1>14. CASE walk.kind = "id"
    BY <1>1, <1>2, <1>3, <1>9, <1>14 DEF SeekAfter, ConfigAfter, Precedes, KeyBefore, k
  <1>15. CASE walk.kind = "invitation"
    <2>1. k.col \in {1, 2} /\ entries[i].col \in {1, 2}
      BY <1>1, <1>4, <1>15, ColumnsOfKind
    <2> QED
      BY <1>1, <1>2, <1>3, <1>9, <1>15, <2>1
      DEF SeekAfter, InvitationAfter, Precedes, KeyBefore, k
  <1>16. CASE walk.kind = "recent-downloads"
    <2>1. k.col \in {Null, 1, 2} /\ entries[i].col \in {Null, 1, 2}
      BY <1>1, <1>4, <1>16, ColumnsOfKind
    <2> QED
      BY <1>1, <1>2, <1>3, <1>9, <1>16, <2>1
      DEF SeekAfter, RecentDownloadsAfter, Precedes, KeyBefore, ColDesc, Null, k
  <1>17. CASE walk.kind \in {"new", "recent-updates", "downloads", "semver", "date"}
    <2>1. k.col \in {1, 2} /\ entries[i].col \in {1, 2}
      BY <1>1, <1>4, <1>17, ColumnsOfKind
    <2> QED
      BY <1>1, <1>2, <1>3, <1>9, <1>17, <2>1
      DEF SeekAfter, TimeAfter, DownloadsAfter, VersionAfter, Precedes, KeyBefore, ColDesc,
          Null, k
  <1> QED
    BY <1>5, <1>11, <1>12, <1>13, <1>14, <1>15, <1>16, <1>17 DEF Searches

-----------------------------------------------------------------------------
(* Steps of the client: the rows stay.                                     *)

\* Who is listed, expected and in play, and in which order, does not depend on the page.
LEMMA RowsKept ==
  ASSUME UNCHANGED <<entries, names, exact, changed>>,
         walk'.kind = walk.kind, walk'.params = walk.params
  PROVE  /\ Listed' = Listed /\ Stable' = Stable /\ Expected' = Expected /\ Placed' = Placed
         /\ \A i : Payload(i)' = Payload(i) /\ (InPlay(i)' <=> InPlay(i))
         /\ \A S : Sorted(S)' = Sorted(S)
  <1>1. Listed' = Listed /\ Stable' = Stable
    BY DEF Listed, Stable
  <1>2. Expected' = Expected /\ Placed' = Placed
    BY <1>1 DEF Expected, Placed
  <1>3. \A i : Payload(i)' = Payload(i) /\ (InPlay(i)' <=> InPlay(i))
    BY DEF Payload, InPlay
  <1>4. \A i, j : Before(walk.kind, i, j)' <=> Before(walk.kind, i, j)
    BY DEF Before, SearchBefore, VersionBefore, ConfigBefore, InvitationBefore, CountsBefore,
           FollowedBefore, ReverseBefore
  <1>5. \A S : Sorted(S)' = Sorted(S)
    BY <1>4 DEF Sorted
  <1> QED
    BY <1>1, <1>2, <1>3, <1>5

\* What a step of the client must say for the types to be kept
LEMMA TypesOfWalk ==
  ASSUME ListTypes, UNCHANGED <<entries, names, exact, changed>>,
         walk'.kind = walk.kind, walk'.per = walk.per, walk'.params = walk.params,
         walk'.paged = walk.paged,
         walk' = [kind |-> walk'.kind, per |-> walk'.per, params |-> walk'.params,
                  paged |-> walk'.paged, page |-> walk'.page, key |-> walk'.key,
                  pc |-> walk'.pc, total |-> walk'.total, last |-> walk'.last,
                  cut |-> walk'.cut],
         walk'.page \in Nat \ {0}, walk'.cut \in BOOLEAN,
         walk'.pc \in {"ask", "rest", "last", "end", "refused"},
         walk'.last \in Seq(RowIds), Len(walk'.last) <= walk.per,
         shown' \in Seq(RowIds), \A i \in Range(shown') : InPlay(i),
         walk'.pc \in {"rest", "last"} => Len(walk'.last) <= Len(shown')
  PROVE  ListTypes'
  <1>1. \A i : InPlay(i)' <=> InPlay(i)
    BY DEF InPlay
  <1>2. \A i \in Range(shown') : InPlay(i)'
    BY <1>1
  <1>3. \A i \in RowIds : /\ entries'[i].present \in BOOLEAN
                          /\ InPlay(i)' => entries'[i].col \in Columns(walk'.kind)
    BY <1>1 DEF ListTypes
  <1>4. /\ entries' = [i \in RowIds |->
             [present |-> entries'[i].present, col |-> entries'[i].col,
              facets |-> entries'[i].facets]]
        /\ names' \in [RowIds -> RowIds] /\ \A i, j \in RowIds : names'[i] = names'[j] => i = j
        /\ exact' \in [RowIds -> BOOLEAN] /\ \A i, j \in RowIds : exact'[i] /\ exact'[j] => i = j
        /\ walk'.kind \notin {"query", "relevance"} => \A i \in RowIds : ~exact'[i]
        /\ changed' \in Seq(RowIds)
    BY DEF ListTypes
  <1>5. /\ walk'.kind \in Kinds /\ walk'.per \in PerPage /\ walk'.params \in ParamSets
        /\ walk'.paged \in BOOLEAN
        /\ walk'.kind \in OffsetOnly => walk'.paged
        /\ walk'.paged => walk'.kind \in Searches \cup OffsetOnly
    BY DEF ListTypes
  <1> QED
    BY <1>2, <1>3, <1>4, <1>5 DEF ListTypes

\* The rows are finitely many, and the listed ones are in play; those that did not change
\* and are listed are those that are expected.
LEMMA ListedRows ==
  /\ Listed \subseteq RowIds /\ IsFiniteSet(Listed) /\ Cardinality(Listed) \in Nat
  /\ \A i \in Listed : entries[i].present /\ InPlay(i)
  /\ Expected \subseteq Stable /\ Stable \subseteq RowIds /\ Stable \subseteq Placed
  /\ \A i \in Stable : i \in Expected <=> i \in Listed
  /\ \A i \in Stable : InPlay(i)
  <1>1. Listed \subseteq RowIds /\ IsFiniteSet(Listed) /\ Cardinality(Listed) \in Nat
    BY ListingAssumption, FS_Subset, FS_CardinalityType DEF Listed
  <1>2. \A i \in Listed : entries[i].present /\ InPlay(i)
    BY DEF Listed, InPlay
  <1>3. Expected \subseteq Stable /\ Stable \subseteq RowIds /\ Stable \subseteq Placed
    BY DEF Expected, Stable, Placed
  <1>4. \A i \in Stable : i \in Expected <=> i \in Listed
    BY AppliedAsDocumented DEF Expected, Stable, Listed
  <1>5. \A i \in Stable : InPlay(i)
    BY DEF Stable, InPlay
  <1> QED
    BY <1>1, <1>2, <1>3, <1>4, <1>5

\* The rows that the next page of a seek is taken from
Found == {i \in Listed : walk.key = NoKey \/ SeekAfter(walk.key, i)}

\* The first n of a sequence
LEMMA Prefix ==
  ASSUME NEW S, NEW s \in Seq(S), NEW n \in 0..Len(s)
  PROVE  /\ SubSeq(s, 1, n) \in Seq(S) /\ Len(SubSeq(s, 1, n)) = n
         /\ \A i \in 1..n : SubSeq(s, 1, n)[i] = s[i]
  <1>1. Len(s) \in Nat /\ \A i \in 1..Len(s) : s[i] \in S
    BY LenProperties, ElementOfSeq
  <1>2. \A i \in 1..n : s[i] \in S
    BY <1>1
  <1>3. n \in Int /\ 1 \in Int
    BY <1>1
  <1>4. /\ SubSeq(s, 1, n) \in Seq(S)
        /\ Len(SubSeq(s, 1, n)) = IF 1 <= n THEN n - 1 + 1 ELSE 0
        /\ \A i \in 1..n - 1 + 1 : SubSeq(s, 1, n)[i] = s[1 + i - 1]
    BY <1>2, <1>3, SubSeqProperties
  <1>5. n \in Nat /\ n - 1 + 1 = n
    BY <1>1
  <1>6. \A i \in 1..n : 1 + i - 1 = i
    OBVIOUS
  <1> QED
    BY <1>4, <1>5, <1>6

\* The first m of the first n are the first m.
LEMMA PrefixOfPrefix ==
  ASSUME NEW S, NEW s \in Seq(S), NEW n \in 0..Len(s), NEW m \in 0..n
  PROVE  SubSeq(SubSeq(s, 1, n), 1, m) = SubSeq(s, 1, m)
  <1>1. Len(s) \in Nat
    BY LenProperties
  <1>2. m \in 0..Len(s)
    BY <1>1
  <1>3. /\ SubSeq(s, 1, n) \in Seq(S) /\ Len(SubSeq(s, 1, n)) = n
        /\ \A i \in 1..n : SubSeq(s, 1, n)[i] = s[i]
    BY Prefix
  <1>4. /\ SubSeq(s, 1, m) \in Seq(S) /\ Len(SubSeq(s, 1, m)) = m
        /\ \A i \in 1..m : SubSeq(s, 1, m)[i] = s[i]
    BY <1>2, Prefix
  <1> DEFINE t == SubSeq(s, 1, n)
  <1> HIDE DEF t
  <1>5. /\ SubSeq(t, 1, m) \in Seq(S) /\ Len(SubSeq(t, 1, m)) = m
        /\ \A i \in 1..m : SubSeq(t, 1, m)[i] = t[i]
    BY <1>3, Prefix DEF t
  <1>6. \A i \in 1..m : t[i] = s[i]
    BY <1>1, <1>3 DEF t
  <1>7. SubSeq(t, 1, m) = SubSeq(s, 1, m)
    BY <1>4, <1>5, <1>6, SeqEqual
  <1> QED
    BY <1>7 DEF t

\* The elements of a sequence of a listing
LEMMA SortedSequences ==
  ASSUME NEW S \in SUBSET RowIds, NEW s \in Sorted(S)
  PROVE  /\ IsFiniteSet(S) /\ Cardinality(S) \in Nat /\ s \in SetToSeqs(S)
         /\ s \in Seq(S) /\ s \in Seq(RowIds) /\ Len(s) = Cardinality(S)
         /\ DOMAIN s = 1..Cardinality(S)
         /\ \A i \in 1..Cardinality(S) : s[i] \in S
         /\ \A i, j \in 1..Cardinality(S) : s[i] = s[j] => i = j
         /\ \A x \in S : \E i \in 1..Cardinality(S) : s[i] = x
         /\ \A i, j \in 1..Cardinality(S) : i < j => ~Before(walk.kind, s[j], s[i])
  <1>1. IsFiniteSet(S)
    BY ListingAssumption, FS_Subset
  <1>2. s \in SetToSeqs(S) /\ \A i, j \in DOMAIN s : i < j => ~Before(walk.kind, s[j], s[i])
    BY DEF Sorted
  <1>3. /\ s \in Seq(S) /\ Len(s) = Cardinality(S) /\ DOMAIN s = 1..Cardinality(S)
        /\ Cardinality(S) \in Nat
        /\ \A i \in 1..Cardinality(S) : s[i] \in S
        /\ \A i, j \in 1..Cardinality(S) : s[i] = s[j] => i = j
        /\ \A x \in S : \E i \in 1..Cardinality(S) : s[i] = x
    BY <1>1, <1>2, SequencesOfSet
  <1>4. s \in Seq(RowIds)
    BY <1>3, SeqMonotonic
  <1> QED
    BY <1>1, <1>2, <1>3, <1>4

\* A page of a seek: the first rows after the key, a full page if there is a next one and
\* all of them if there is not.
SeekPageOf(s, m) ==
  /\ m <= Len(s) /\ m <= walk.per
  /\ shown' = shown \o SubSeq(s, 1, m)
  /\ walk' = [kind |-> walk.kind, per |-> walk.per, params |-> walk.params,
              paged |-> walk.paged, page |-> walk.page, key |-> walk'.key, pc |-> walk'.pc,
              total |-> IF walk.kind \in Searches /\ m # 0 THEN Cardinality(Listed) ELSE 0,
              last |-> SubSeq(s, 1, m), cut |-> walk.cut \/ KeyLost]
  /\ \/ walk'.pc = "rest" /\ m = walk.per /\ walk'.key = Payload(s[m])
     \/ walk'.pc = "last" /\ m = Len(s) /\ walk'.key = walk.key

\* Every page of a seek is of that form, the one of invitations too, which is cut to size.
LEMMA SeekPage ==
  ASSUME ListTypes, LoadSeekPage
  PROVE  \E s \in Sorted(Found) : \E m \in Nat : SeekPageOf(s, m)
  <1> DEFINE DataOf(s) == IF walk.kind = "invitation" THEN InvitationPage(s) ELSE Take(s, walk.per)
             NextOf(s) == IF walk.kind = "invitation" THEN Len(s) > walk.per
                          ELSE FullPage(DataOf(s))
  <1>1. PICK s \in Sorted(Found) :
          /\ walk' = [walk EXCEPT
                  !.last = DataOf(s),
                  !.cut = @ \/ KeyLost,
                  !.key = IF NextOf(s) THEN Payload(DataOf(s)[Len(DataOf(s))]) ELSE @,
                  !.pc = IF NextOf(s) THEN "rest" ELSE "last",
                  !.total = IF walk.kind \in Searches /\ DataOf(s) # <<>>
                            THEN SeekTotal(Found) ELSE 0]
          /\ shown' = shown \o DataOf(s)
    BY DEF LoadSeekPage, Found, KeyLost
  <1>2. Found \in SUBSET RowIds
    BY ListedRows DEF Found
  <1>3. s \in Seq(RowIds) /\ Len(s) \in Nat
    BY <1>2, SortedSequences
  <1>4. walk.per \in Nat /\ walk.per # 0
    BY ListingAssumption DEF ListTypes
  <1>5. \E m \in Nat : /\ m <= Len(s) /\ m <= walk.per
                       /\ DataOf(s) = SubSeq(s, 1, m)
                       /\ NextOf(s) => m = walk.per
                       /\ ~NextOf(s) => m = Len(s)
    <2>1. CASE walk.kind # "invitation"
      <3> DEFINE m == IF Len(s) < walk.per THEN Len(s) ELSE walk.per
      <3>1. m \in 0..Len(s) /\ m \in Nat /\ m <= walk.per
        BY <1>3, <1>4
      <3>2. DataOf(s) = SubSeq(s, 1, m)
        BY <2>1 DEF Take
      <3>3. Len(DataOf(s)) = m
        BY <1>3, <3>1, <3>2, Prefix
      <3>4. NextOf(s) <=> m >= walk.per
        BY <2>1, <3>3 DEF FullPage
      <3> HIDE DEF DataOf, NextOf
      <3>5. /\ NextOf(s) => m = walk.per
            /\ ~NextOf(s) => m = Len(s)
        BY <1>3, <1>4, <3>4
      <3> HIDE DEF m
      <3> QED
        BY <1>3, <3>1, <3>2, <3>5
    <2>2. CASE walk.kind = "invitation" /\ Len(s) > walk.per
      <3>1. (IF Len(s) < walk.per + 1 THEN Len(s) ELSE walk.per + 1) = walk.per + 1
            /\ walk.per + 1 \in 0..Len(s) /\ walk.per \in 0..walk.per + 1
            /\ walk.per + 1 > walk.per /\ walk.per + 1 - 1 = walk.per
        BY <1>3, <1>4, <2>2
      <3>2. Take(s, walk.per + 1) = SubSeq(s, 1, walk.per + 1)
        BY <3>1 DEF Take
      <3>3. Len(SubSeq(s, 1, walk.per + 1)) = walk.per + 1
        BY <1>3, <3>1, Prefix
      <3>4. DataOf(s) = SubSeq(SubSeq(s, 1, walk.per + 1), 1, walk.per)
        BY <2>2, <3>1, <3>2, <3>3 DEF InvitationPage, Front
      <3>5. SubSeq(SubSeq(s, 1, walk.per + 1), 1, walk.per) = SubSeq(s, 1, walk.per)
        BY <1>3, <3>1, PrefixOfPrefix
      <3>6. NextOf(s) /\ walk.per <= Len(s) /\ walk.per <= walk.per
        BY <1>3, <1>4, <2>2
      <3> HIDE DEF DataOf, NextOf
      <3> QED
        BY <1>4, <3>4, <3>5, <3>6
    <2>3. CASE walk.kind = "invitation" /\ ~(Len(s) > walk.per)
      <3>1. (IF Len(s) < walk.per + 1 THEN Len(s) ELSE walk.per + 1) = Len(s)
            /\ Len(s) \in 0..Len(s) /\ Len(s) <= Len(s) /\ Len(s) <= walk.per
        BY <1>3, <1>4, <2>3
      <3>2. Take(s, walk.per + 1) = SubSeq(s, 1, Len(s))
        BY <3>1 DEF Take
      <3>3. Len(SubSeq(s, 1, Len(s))) = Len(s)
        BY <1>3, <3>1, Prefix
      <3>4. DataOf(s) = SubSeq(s, 1, Len(s))
        BY <2>3, <3>2, <3>3 DEF InvitationPage
      <3>5. ~NextOf(s)
        BY <2>3
      <3> HIDE DEF DataOf, NextOf
      <3> QED
        BY <1>3, <3>1, <3>4, <3>5
    <2> QED
      BY <2>1, <2>2, <2>3
  <1>6. PICK m \in Nat : /\ m <= Len(s) /\ m <= walk.per
                         /\ DataOf(s) = SubSeq(s, 1, m)
                         /\ NextOf(s) => m = walk.per
                         /\ ~NextOf(s) => m = Len(s)
    BY <1>5
  <1> HIDE DEF DataOf, NextOf
  <1>7. m \in 0..Len(s)
    BY <1>3, <1>6
  <1>8. Len(SubSeq(s, 1, m)) = m /\ SubSeq(s, 1, m) \in Seq(RowIds)
    BY <1>3, <1>7, Prefix
  <1>9. SubSeq(s, 1, m) # <<>> <=> m # 0
    BY <1>8, EmptySeq
  <1>10. walk = [kind |-> walk.kind, per |-> walk.per, params |-> walk.params,
                 paged |-> walk.paged, page |-> walk.page, key |-> walk.key, pc |-> walk.pc,
                 total |-> walk.total, last |-> walk.last, cut |-> walk.cut]
    BY DEF ListTypes
  <1>11. m = walk.per /\ NextOf(s) => SubSeq(s, 1, m)[m] = s[m]
    BY <1>3, <1>4, <1>6, <1>7, Prefix
  <1>12. walk' = [kind |-> walk.kind, per |-> walk.per, params |-> walk.params,
              paged |-> walk.paged, page |-> walk.page,
              key |-> IF NextOf(s) THEN Payload(s[m]) ELSE walk.key,
              pc |-> IF NextOf(s) THEN "rest" ELSE "last",
              total |-> IF walk.kind \in Searches /\ m # 0 THEN Cardinality(Listed) ELSE 0,
              last |-> SubSeq(s, 1, m), cut |-> walk.cut \/ KeyLost]
    <2>1. (IF NextOf(s) THEN Payload(DataOf(s)[Len(DataOf(s))]) ELSE walk.key)
            = IF NextOf(s) THEN Payload(s[m]) ELSE walk.key
      BY <1>6, <1>8, <1>11
    <2>2. (IF walk.kind \in Searches /\ DataOf(s) # <<>> THEN SeekTotal(Found) ELSE 0)
            = IF walk.kind \in Searches /\ m # 0 THEN Cardinality(Listed) ELSE 0
      BY <1>6, <1>9 DEF SeekTotal
    <2> QED
      BY <1>1, <1>6, <1>10, <2>1, <2>2
  <1>13. \/ walk'.pc = "rest" /\ m = walk.per /\ walk'.key = Payload(s[m])
         \/ walk'.pc = "last" /\ m = Len(s) /\ walk'.key = walk.key
    BY <1>6, <1>12
  <1>14. SeekPageOf(s, m)
    BY <1>1, <1>6, <1>12, <1>13 DEF SeekPageOf
  <1> QED
    BY <1>14

\* u is t, and then the first m of s.
Extends(u, t, s, m) ==
  /\ u \in Seq(RowIds) /\ Len(u) = Len(t) + m /\ DOMAIN u = 1..(Len(t) + m)
  /\ \A i \in 1..Len(t) : u[i] = t[i]
  /\ \A i \in 1..(Len(t) + m) : i > Len(t) => i - Len(t) \in 1..m /\ u[i] = s[i - Len(t)]
  /\ \A i \in 1..m : Len(t) + i \in 1..(Len(t) + m) /\ u[Len(t) + i] = s[i]
  /\ \A x : x \in Range(u) <=> x \in Range(t) \/ \E i \in 1..m : x = s[i]
  /\ m # 0 => u[Len(u)] = s[m]
  /\ u = <<>> <=> t = <<>> /\ m = 0

\* What was shown, with a page added
LEMMA ShownAndPage ==
  ASSUME NEW t \in Seq(RowIds), NEW s \in Seq(RowIds), NEW m \in 0..Len(s)
  PROVE  Extends(t \o SubSeq(s, 1, m), t, s, m)
  <1> DEFINE d == SubSeq(s, 1, m)
             u == t \o d
  <1>1. Len(t) \in Nat /\ Len(s) \in Nat /\ m \in Nat /\ DOMAIN t = 1..Len(t)
    BY LenProperties
  <1>2. d \in Seq(RowIds) /\ Len(d) = m /\ \A i \in 1..m : d[i] = s[i]
    BY Prefix
  <1> HIDE DEF d
  <1>3. /\ u \in Seq(RowIds) /\ Len(u) = Len(t) + m
        /\ \A i \in 1..(Len(t) + m) : u[i] = IF i <= Len(t) THEN t[i] ELSE d[i - Len(t)]
    BY <1>2, ConcatProperties
  <1>4. DOMAIN u = 1..(Len(t) + m)
    BY <1>3, LenProperties
  <1> HIDE DEF u
  <1>5. \A i \in 1..Len(t) : u[i] = t[i]
    BY <1>1, <1>3
  <1>6. \A i \in 1..(Len(t) + m) : i > Len(t) => i - Len(t) \in 1..m /\ u[i] = s[i - Len(t)]
    BY <1>1, <1>2, <1>3
  <1>7. \A i \in 1..m : Len(t) + i \in 1..(Len(t) + m) /\ u[Len(t) + i] = s[i]
    <2> TAKE i \in 1..m
    <2>1. Len(t) + i \in 1..(Len(t) + m) /\ Len(t) + i > Len(t) /\ Len(t) + i - Len(t) = i
      BY <1>1
    <2> QED
      BY <1>6, <2>1
  <1>8. \A x : x \in Range(u) <=> x \in Range(t) \/ \E i \in 1..m : x = s[i]
    <2> TAKE x
    <2>1. ASSUME NEW i \in 1..(Len(t) + m), x = u[i]
          PROVE  x \in Range(t) \/ \E j \in 1..m : x = s[j]
      <3>1. CASE i <= Len(t)
        <4>1. i \in 1..Len(t)
          BY <1>1, <3>1
        <4> QED
          BY <1>1, <1>5, <2>1, <4>1 DEF Range
      <3>2. CASE i > Len(t)
        BY <1>6, <2>1, <3>2
      <3> QED
        BY <1>1, <3>1, <3>2
    <2>2. ASSUME x \in Range(t) PROVE x \in Range(u)
      <3>1. PICK i \in 1..Len(t) : x = t[i]
        BY <1>1, <2>2 DEF Range
      <3>2. i \in 1..(Len(t) + m)
        BY <1>1
      <3> QED
        BY <1>4, <1>5, <3>1, <3>2 DEF Range
    <2>3. ASSUME NEW i \in 1..m, x = s[i] PROVE x \in Range(u)
      BY <1>4, <1>7, <2>3 DEF Range
    <2> QED
      BY <1>4, <2>1, <2>2, <2>3 DEF Range
  <1>9. m # 0 => u[Len(u)] = s[m]
    BY <1>1, <1>3, <1>7
  <1>10. u = <<>> <=> t = <<>> /\ m = 0
    <2>1. u = <<>> <=> Len(u) = 0
      BY <1>3, EmptySeq
    <2>2. t = <<>> <=> Len(t) = 0
      BY EmptySeq
    <2>3. Len(t) + m = 0 <=> Len(t) = 0 /\ m = 0
      BY <1>1
    <2> QED
      BY <1>3, <2>1, <2>2, <2>3
  <1> QED
    BY <1>3, <1>4, <1>5, <1>6, <1>7, <1>8, <1>9, <1>10 DEF Extends, u, d

-----------------------------------------------------------------------------
(* A page of a seek.                                                       *)

\* The facts about a page and the rows on it that the parts of the invariant share
LEMMA SeekPageFacts ==
  ASSUME ListInd, LoadSeekPage, NEW s \in Sorted(Found), NEW m \in Nat, SeekPageOf(s, m)
  PROVE  /\ s \in Seq(RowIds) /\ Len(s) \in Nat /\ m \in 0..Len(s) /\ DOMAIN s = 1..Len(s)
         /\ \A i \in 1..Len(s) : s[i] \in Found /\ s[i] \in RowIds /\ InPlay(s[i])
                                 /\ s[i] \in Listed /\ entries[s[i]].present
         /\ \A i, j \in 1..Len(s) : s[i] = s[j] => i = j
         /\ \A x \in Found : \E i \in 1..Len(s) : s[i] = x
         /\ \A i, j \in 1..Len(s) : i < j => Precedes(Payload(s[i]), Payload(s[j]))
         /\ walk.key # NoKey => \A i \in 1..Len(s) : Precedes(walk.key, Payload(s[i]))
         /\ walk'.pc = "rest" => m \in 1..Len(s) /\ m \in 1..m
         /\ walk.pc = "ask" /\ ~walk.paged /\ Asks
         /\ walk.kind \notin {"counts", "followed"}
         /\ NamesOK(names)
  <1>1. Found \in SUBSET RowIds /\ Found \subseteq Listed
    BY ListedRows DEF Found
  <1>2. /\ s \in Seq(RowIds) /\ Len(s) \in Nat /\ DOMAIN s = 1..Len(s)
        /\ \A i \in 1..Len(s) : s[i] \in Found
        /\ \A i, j \in 1..Len(s) : s[i] = s[j] => i = j
        /\ \A x \in Found : \E i \in 1..Len(s) : s[i] = x
        /\ \A i, j \in 1..Len(s) : i < j => ~Before(walk.kind, s[j], s[i])
    BY <1>1, SortedSequences
  <1>3. m \in 0..Len(s)
    BY <1>2 DEF SeekPageOf
  <1>4. \A i \in 1..Len(s) : s[i] \in Found /\ s[i] \in RowIds /\ InPlay(s[i])
                             /\ s[i] \in Listed /\ entries[s[i]].present
    BY <1>1, <1>2, ListedRows
  <1>5. walk.pc = "ask" /\ ~walk.paged /\ Asks
    BY DEF LoadSeekPage, Asks
  <1>6. walk.kind \notin {"counts", "followed"}
    BY <1>5 DEF ListInd, ListTypes, OffsetOnly
  <1>7. NamesOK(names)
    BY DEF ListInd, ListTypes, NamesOK
  <1>8. \A i, j \in 1..Len(s) : i < j => Precedes(Payload(s[i]), Payload(s[j]))
    <2> SUFFICES ASSUME NEW i \in 1..Len(s), NEW j \in 1..Len(s), i < j
                 PROVE  Precedes(Payload(s[i]), Payload(s[j]))
      OBVIOUS
    <2>1. /\ Payload(s[i]) \in KeysOf(walk.kind) /\ Payload(s[i]).id = s[i]
          /\ Payload(s[j]) \in KeysOf(walk.kind) /\ Payload(s[j]).id = s[j]
      BY <1>4, PayloadKey DEF ListInd
    <2>2. s[i] # s[j]
      BY <1>2
    <2>3. ~Precedes(Payload(s[j]), Payload(s[i]))
      BY <1>2, <1>4, BeforeByKeys DEF ListInd
    <2> QED
      BY <1>6, <1>7, <2>1, <2>2, <2>3, KeyTotal DEF Precedes
  <1>9. ASSUME walk.key # NoKey, NEW i \in 1..Len(s) PROVE Precedes(walk.key, Payload(s[i]))
    <2>1. SeekAfter(walk.key, s[i])
      BY <1>4, <1>9 DEF Found
    <2> QED
      BY <1>4, <1>5, <1>9, <2>1, SeekSound DEF ListInd
  <1>10. walk'.pc = "rest" => m \in 1..Len(s) /\ m \in 1..m
    <2>1. walk.per \in Nat /\ walk.per # 0
      BY ListingAssumption DEF ListInd, ListTypes
    <2> QED
      BY <1>3, <2>1 DEF SeekPageOf
  <1> QED
    BY <1>2, <1>3, <1>4, <1>5, <1>6, <1>7, <1>8, <1>9, <1>10

\* A page of a seek keeps the types, and its key is that of the last row on it.
LEMMA SeekPageTypes ==
  ASSUME ListInd, LoadSeekPage
  PROVE  ListTypes' /\ KeySound' /\ InvitationInd' /\ CutInd'
  <1>1. PICK s \in Sorted(Found), m \in Nat : SeekPageOf(s, m)
    BY SeekPage DEF ListInd
  <1>2. /\ s \in Seq(RowIds) /\ Len(s) \in Nat /\ m \in 0..Len(s)
        /\ \A i \in 1..Len(s) : s[i] \in RowIds /\ InPlay(s[i])
        /\ m \in Nat
        /\ walk'.pc = "rest" => m \in 1..Len(s) /\ m \in 1..m
    BY <1>1, SeekPageFacts
  <1>3. UNCHANGED <<entries, names, exact, changed>>
    BY DEF LoadSeekPage
  <1>4. /\ m <= walk.per /\ shown' = shown \o SubSeq(s, 1, m)
        /\ walk' = [kind |-> walk.kind, per |-> walk.per, params |-> walk.params,
              paged |-> walk.paged, page |-> walk.page, key |-> walk'.key, pc |-> walk'.pc,
              total |-> IF walk.kind \in Searches /\ m # 0 THEN Cardinality(Listed) ELSE 0,
              last |-> SubSeq(s, 1, m), cut |-> walk.cut \/ KeyLost]
        /\ \/ walk'.pc = "rest" /\ m = walk.per /\ walk'.key = Payload(s[m])
           \/ walk'.pc = "last" /\ m = Len(s) /\ walk'.key = walk.key
    BY <1>1 DEF SeekPageOf
  <1>5. shown \in Seq(RowIds) /\ Len(shown) \in Nat
    BY DEF ListInd, ListTypes
  <1>6. /\ shown' \in Seq(RowIds) /\ Len(shown') = Len(shown) + m
        /\ \A x : x \in Range(shown') <=> x \in Range(shown) \/ \E i \in 1..m : x = s[i]
        /\ m # 0 => shown'[Len(shown')] = s[m]
    <2>1. Extends(shown \o SubSeq(s, 1, m), shown, s, m)
      BY <1>2, <1>5, ShownAndPage
    <2>2. Extends(shown', shown, s, m)
      BY <1>4, <2>1
    <2> QED
      BY <2>2 DEF Extends
  <1>7. SubSeq(s, 1, m) \in Seq(RowIds) /\ Len(SubSeq(s, 1, m)) = m
    BY <1>2, Prefix
  <1>8. \A i : Payload(i)' = Payload(i) /\ (InPlay(i)' <=> InPlay(i))
    BY <1>3, <1>4, RowsKept
  <1>9. ListTypes'
    <2>1. \A i \in Range(shown') : InPlay(i)
      <3>1. \A i \in Range(shown) : InPlay(i)
        BY DEF ListInd, ListTypes
      <3>2. \A i \in 1..m : InPlay(s[i])
        BY <1>2
      <3> QED
        BY <1>6, <3>1, <3>2
    <2>2. walk.kind = walk'.kind /\ walk.per = walk'.per /\ walk.params = walk'.params
          /\ walk.paged = walk'.paged /\ walk.page = walk'.page
          /\ walk'.last = SubSeq(s, 1, m) /\ walk'.cut = (walk.cut \/ KeyLost)
      BY <1>4
    <2>3. walk' = [kind |-> walk'.kind, per |-> walk'.per, params |-> walk'.params,
                   paged |-> walk'.paged, page |-> walk'.page, key |-> walk'.key,
                   pc |-> walk'.pc, total |-> walk'.total, last |-> walk'.last,
                   cut |-> walk'.cut]
      BY <1>4
    <2>4. walk'.cut \in BOOLEAN /\ walk'.pc \in {"rest", "last"}
      BY <1>4, <2>2
    <2>5. Len(walk'.last) <= walk'.per /\ Len(walk'.last) <= Len(shown')
          /\ walk'.last \in Seq(RowIds)
      BY <1>2, <1>4, <1>5, <1>6, <1>7, <2>2
    <2>6. \A i \in RowIds : InPlay(i)' => entries'[i].col \in Columns(walk'.kind)
      BY <1>3, <1>8, <2>2 DEF ListInd, ListTypes
    <2>7. \A i \in Range(shown') : InPlay(i)'
      BY <1>8, <2>1
    <2> QED
      BY <1>3, <1>6, <2>2, <2>3, <2>4, <2>5, <2>6, <2>7 DEF ListInd, ListTypes
  <1>10. KeySound'
    <2>1. CASE walk'.pc = "rest"
      <3>1. /\ s[m] \in RowIds /\ InPlay(s[m]) /\ s[m] \in Range(shown')
            /\ walk'.key = Payload(s[m])
        BY <1>2, <1>4, <1>6, <2>1
      <3>2. /\ Payload(s[m]) \in KeysOf(walk.kind) /\ Payload(s[m]).id = s[m]
            /\ Payload(s[m]).col = entries[s[m]].col /\ Payload(s[m]).exact = exact[s[m]]
        BY <3>1, PayloadKey DEF ListInd
      <3>3. walk'.kind = walk.kind
        BY <1>4
      <3> QED
        BY <1>3, <3>1, <3>2, <3>3 DEF KeySound
    <2>2. CASE walk'.pc = "last"
      <3>1. walk'.key = walk.key /\ walk'.kind = walk.kind
        BY <1>4, <2>2
      <3> QED
        BY <1>3, <1>6, <3>1 DEF ListInd, KeySound
    <2> QED
      BY <1>4, <2>1, <2>2
  <1>11. InvitationInd'
    <2> SUFFICES ASSUME walk'.pc = "rest" PROVE walk'.key.id = shown'[Len(shown')]
      BY DEF InvitationInd
    <2>1. m \in 1..Len(s) /\ m # 0 /\ walk'.key = Payload(s[m])
      BY <1>2, <1>4
    <2>2. Payload(s[m]).id = s[m]
      BY DEF Payload
    <2> QED
      BY <1>6, <2>1, <2>2
  <1>12. CutInd'
    <2> SUFFICES ASSUME walk'.cut PROVE changed # <<>>
      BY <1>3 DEF CutInd
    <2> DEFINE c == walk.cut \/ KeyLost
    <2>a. walk' = [kind |-> walk.kind, per |-> walk.per, params |-> walk.params,
              paged |-> walk.paged, page |-> walk.page, key |-> walk'.key, pc |-> walk'.pc,
              total |-> IF walk.kind \in Searches /\ m # 0 THEN Cardinality(Listed) ELSE 0,
              last |-> SubSeq(s, 1, m), cut |-> c]
      BY <1>4
    <2> HIDE DEF c
    <2>b. c
      BY <2>a
    <2>1. walk.cut \/ KeyLost
      BY <2>b DEF c
    <2>2. CASE walk.cut
      BY <2>2 DEF ListInd, CutInd
    <2>3. CASE KeyLost
      <3>1. walk.key # NoKey /\ walk.key.id \in Range(shown) /\ walk.key.id \in RowIds
        BY <2>3, SeekKey DEF ListInd, KeySound, KeyLost
      <3>2. ~entries[walk.key.id].present
        BY <2>3, <3>1, NameOfPresent DEF KeyLost, ListInd
      <3>3. walk.key.id \in Range(changed)
        BY <3>1, <3>2 DEF ListInd, ListTypes, InPlay
      <3>4. Range(<<>>) = {}
        BY EmptySeq, LenProperties DEF Range
      <3> QED
        BY <3>3, <3>4
    <2> QED
      BY <2>1, <2>2, <2>3
  <1> QED
    BY <1>9, <1>10, <1>11, <1>12

\* What was shown, the page and what is left are in this order: between two of them is a key.
LEMMA SeekPagePreserves ==
  ASSUME ListInd, LoadSeekPage
  PROVE  SeekInd'
  <1>1. PICK s \in Sorted(Found), m \in Nat : SeekPageOf(s, m)
    BY SeekPage DEF ListInd
  <1>2. /\ s \in Seq(RowIds) /\ Len(s) \in Nat /\ m \in 0..Len(s) /\ DOMAIN s = 1..Len(s)
        /\ \A i \in 1..Len(s) : s[i] \in Found /\ s[i] \in RowIds /\ InPlay(s[i])
                                /\ s[i] \in Listed /\ entries[s[i]].present
        /\ \A x \in Found : \E i \in 1..Len(s) : s[i] = x
        /\ \A i, j \in 1..Len(s) : i < j => Precedes(Payload(s[i]), Payload(s[j]))
        /\ walk.key # NoKey => \A i \in 1..Len(s) : Precedes(walk.key, Payload(s[i]))
        /\ walk'.pc = "rest" => m \in 1..Len(s) /\ m \in 1..m
        /\ walk.pc = "ask" /\ ~walk.paged /\ Asks
        /\ NamesOK(names)
    BY <1>1, SeekPageFacts
  <1>3. UNCHANGED <<entries, names, exact, changed>>
    BY DEF LoadSeekPage
  <1>4. /\ shown' = shown \o SubSeq(s, 1, m)
        /\ walk' = [kind |-> walk.kind, per |-> walk.per, params |-> walk.params,
              paged |-> walk.paged, page |-> walk.page, key |-> walk'.key, pc |-> walk'.pc,
              total |-> IF walk.kind \in Searches /\ m # 0 THEN Cardinality(Listed) ELSE 0,
              last |-> SubSeq(s, 1, m), cut |-> walk.cut \/ KeyLost]
        /\ \/ walk'.pc = "rest" /\ m = walk.per /\ walk'.key = Payload(s[m])
           \/ walk'.pc = "last" /\ m = Len(s) /\ walk'.key = walk.key
    BY <1>1 DEF SeekPageOf
  <1>5. walk'.kind = walk.kind /\ walk'.params = walk.params /\ walk'.paged = walk.paged
    BY <1>4
  <1>6. ~walk'.cut => ~walk.cut /\ ~KeyLost
    <2> DEFINE c == walk.cut \/ KeyLost
    <2>1. walk' = [kind |-> walk.kind, per |-> walk.per, params |-> walk.params,
              paged |-> walk.paged, page |-> walk.page, key |-> walk'.key, pc |-> walk'.pc,
              total |-> IF walk.kind \in Searches /\ m # 0 THEN Cardinality(Listed) ELSE 0,
              last |-> SubSeq(s, 1, m), cut |-> c]
      BY <1>4
    <2> HIDE DEF c
    <2>2. ~walk'.cut => ~c
      BY <2>1
    <2> QED
      BY <2>2 DEF c
  <1>7. shown \in Seq(RowIds) /\ Len(shown) \in Nat /\ DOMAIN shown = 1..Len(shown)
    BY LenProperties DEF ListInd, ListTypes
  <1>8. Extends(shown', shown, s, m)
    <2>1. Extends(shown \o SubSeq(s, 1, m), shown, s, m)
      BY <1>2, <1>7, ShownAndPage
    <2> QED
      BY <1>4, <2>1
  <1>9. /\ Listed' = Listed /\ Stable' = Stable /\ Expected' = Expected /\ Placed' = Placed
    BY <1>3, <1>5, RowsKept
  <1>10. /\ \A i \in Range(shown) : i \in RowIds /\ InPlay(i)
         /\ \A i \in RowIds : InPlay(i) => Payload(i) \in KeysOf(walk.kind) /\ Payload(i) # NoKey
         /\ walk.key # NoKey => walk.key \in KeysOf(walk.kind)
    BY <1>7, RangeOfSeq, PayloadKey DEF ListInd, ListTypes, KeySound
  <1>11. /\ walk.key = NoKey => shown = <<>>
         /\ walk.key # NoKey =>
              \A i \in Range(shown) \cap Placed : ~Precedes(walk.key, Payload(i))
         /\ \A p, n \in DOMAIN shown :
              p < n /\ {shown[p], shown[n]} \subseteq Placed =>
                Precedes(Payload(shown[p]), Payload(shown[n]))
         /\ \A i \in Range(shown) \cap Stable : i \in Expected
         /\ ~walk.cut =>
              \A i \in Expected : i \in Range(shown) \/
                (walk.key = NoKey \/ Precedes(walk.key, Payload(i)))
    BY <1>2 DEF ListInd, SeekInd
  <1>12. Range(<<>>) = {}
    BY EmptySeq, LenProperties DEF Range
  <1>13. \A x : x \in Range(shown') <=> x \in Range(shown) \/ \E i \in 1..m : x = s[i]
    BY <1>8 DEF Extends
  \* Anything that was shown comes before anything on the page.
  <1>14. ASSUME NEW a \in Range(shown) \cap Placed, NEW i \in 1..Len(s)
         PROVE  Precedes(Payload(a), Payload(s[i]))
    <2>1. walk.key # NoKey
      BY <1>11, <1>12
    <2>2. ~Precedes(walk.key, Payload(a)) /\ Precedes(walk.key, Payload(s[i]))
      BY <1>2, <1>11, <2>1
    <2>3. /\ walk.key \in KeysOf(walk.kind) /\ Payload(a) \in KeysOf(walk.kind)
          /\ Payload(s[i]) \in KeysOf(walk.kind)
      BY <1>2, <1>10, <2>1
    <2> QED
      BY <1>2, <2>2, <2>3, KeyCotransitive DEF Precedes
  <1>15. ASSUME walk'.pc = "rest"
         PROVE  /\ walk'.key = Payload(s[m]) /\ walk'.key # NoKey
                /\ \A i \in Range(shown') \cap Placed : ~Precedes(walk'.key, Payload(i))
    <2>1. m \in 1..Len(s) /\ m \in 1..m /\ walk'.key = Payload(s[m])
          /\ s[m] \in RowIds /\ InPlay(s[m])
      BY <1>2, <1>4, <1>15
    <2>2. Payload(s[m]) \in KeysOf(walk.kind) /\ Payload(s[m]) # NoKey
      BY <1>10, <2>1
    <2>3. ASSUME NEW i \in Range(shown') \cap Placed PROVE ~Precedes(Payload(s[m]), Payload(i))
      <3>1. CASE i \in Range(shown)
        <4>1. Precedes(Payload(i), Payload(s[m]))
          BY <1>14, <2>1, <2>3, <3>1
        <4>2. Payload(i) \in KeysOf(walk.kind)
          BY <1>10, <3>1
        <4> QED
          BY <1>2, <2>2, <4>1, <4>2, KeyAsymmetric DEF Precedes
      <3>2. ASSUME NEW j \in 1..m, i = s[j] PROVE ~Precedes(Payload(s[m]), Payload(i))
        <4>1. j \in 1..Len(s) /\ (j = m \/ j < m)
          BY <2>1
        <4>2. Payload(i) \in KeysOf(walk.kind)
          BY <1>2, <1>10, <3>2, <4>1
        <4>3. Precedes(Payload(i), Payload(s[m])) \/ i = s[m]
          BY <1>2, <2>1, <3>2, <4>1
        <4> QED
          BY <1>2, <2>2, <4>2, <4>3, KeyAsymmetric DEF Precedes
      <3> QED
        BY <1>13, <2>3, <3>1, <3>2
    <2> QED
      BY <2>1, <2>2, <2>3
  <1>16. ASSUME NEW p \in DOMAIN shown', NEW n \in DOMAIN shown', p < n,
                {shown'[p], shown'[n]} \subseteq Placed
         PROVE  Precedes(Payload(shown'[p]), Payload(shown'[n]))
    <2>1. /\ DOMAIN shown' = 1..(Len(shown) + m) /\ p \in Int /\ n \in Int /\ m \in Nat
          /\ \A i \in 1..Len(shown) : shown'[i] = shown[i]
          /\ \A i \in 1..(Len(shown) + m) :
               i > Len(shown) => i - Len(shown) \in 1..m /\ shown'[i] = s[i - Len(shown)]
      <3>1. /\ DOMAIN shown' = 1..(Len(shown) + m)
            /\ \A i \in 1..Len(shown) : shown'[i] = shown[i]
            /\ \A i \in 1..(Len(shown) + m) :
                 i > Len(shown) => i - Len(shown) \in 1..m /\ shown'[i] = s[i - Len(shown)]
        BY <1>8 DEF Extends
      <3>2. p \in Int /\ n \in Int
        BY <1>7, <3>1
      <3> QED
        BY <3>1, <3>2
    <2>2. CASE n <= Len(shown)
      <3>1. p \in 1..Len(shown) /\ n \in 1..Len(shown)
        BY <1>7, <1>16, <2>1, <2>2
      <3>2. shown'[p] = shown[p] /\ shown'[n] = shown[n]
        BY <2>1, <3>1
      <3> QED
        BY <1>7, <1>11, <1>16, <3>1, <3>2
    <2>3. CASE p <= Len(shown) /\ n > Len(shown)
      <3>1. p \in 1..Len(shown) /\ n - Len(shown) \in 1..m /\ shown'[n] = s[n - Len(shown)]
            /\ shown'[p] = shown[p]
        BY <1>7, <2>1, <2>3
      <3>2. n - Len(shown) \in 1..Len(s)
        BY <1>2, <1>7, <2>1, <3>1
      <3>3. shown[p] \in Range(shown) \cap Placed
        BY <1>7, <1>16, <3>1 DEF Range
      <3>4. Precedes(Payload(shown[p]), Payload(s[n - Len(shown)]))
        BY <1>14, <3>2, <3>3
      <3> QED
        BY <3>1, <3>4
    <2>4. CASE p > Len(shown)
      <3>1. n > Len(shown) /\ p - Len(shown) < n - Len(shown)
        BY <1>7, <1>16, <2>1, <2>4
      <3>2. /\ p - Len(shown) \in 1..m /\ shown'[p] = s[p - Len(shown)]
            /\ n - Len(shown) \in 1..m /\ shown'[n] = s[n - Len(shown)]
        BY <2>1, <2>4, <3>1
      <3>3. p - Len(shown) \in 1..Len(s) /\ n - Len(shown) \in 1..Len(s)
        BY <1>2, <1>7, <2>1, <3>2
      <3>4. Precedes(Payload(s[p - Len(shown)]), Payload(s[n - Len(shown)]))
        BY <1>2, <3>1, <3>3
      <3> QED
        BY <3>2, <3>4
    <2> QED
      BY <1>7, <2>1, <2>2, <2>3, <2>4
  <1>17. \A i \in Range(shown') \cap Stable : i \in Expected
    <2> TAKE i \in Range(shown') \cap Stable
    <2>1. CASE i \in Range(shown)
      BY <1>11, <2>1
    <2>2. ASSUME NEW j \in 1..m, i = s[j] PROVE i \in Expected
      <3>1. j \in 1..Len(s)
        BY <1>2
      <3> QED
        BY <1>2, <2>2, <3>1, ListedRows
    <2> QED
      BY <1>13, <2>1, <2>2
  <1>18. ASSUME ~walk'.cut, NEW i \in Expected
         PROVE  i \in Range(shown') \/ (walk'.pc = "rest" /\ Precedes(walk'.key, Payload(i)))
    <2>1. ~walk.cut /\ ~KeyLost
      BY <1>6, <1>18
    <2>2. CASE i \in Range(shown)
      BY <1>13, <2>2
    <2>3. CASE walk.key = NoKey \/ Precedes(walk.key, Payload(i))
      <3>1. i \in Listed /\ i \in RowIds /\ entries[i].present
        BY ListedRows
      <3>2. walk.key # NoKey => SeekAfter(walk.key, i)
        BY <1>2, <2>1, <2>3, <3>1, SeekComplete DEF ListInd
      <3>3. i \in Found
        BY <3>1, <3>2 DEF Found
      <3>4. PICK j \in 1..Len(s) : s[j] = i
        BY <1>2, <3>3
      <3>5. CASE j <= m
        BY <1>2, <1>13, <3>4, <3>5
      <3>6. CASE j > m
        <4>1. walk'.pc = "rest" /\ walk'.key = Payload(s[m])
          BY <1>2, <1>4, <3>6
        <4>2. m \in 1..Len(s)
          BY <1>2, <4>1
        <4> QED
          BY <1>2, <3>4, <3>6, <4>1, <4>2
      <3> QED
        BY <1>2, <3>5, <3>6
    <2> QED
      BY <1>11, <2>1, <2>2, <2>3
  <1>19. walk'.pc \in {"rest", "last"} /\ (Asks' <=> walk'.pc = "rest")
    BY <1>4 DEF Asks
  <1>20. /\ walk'.key = NoKey /\ Asks' => walk'.pc = "ask" /\ shown' = <<>>
         /\ Asks' /\ walk'.key # NoKey =>
              \A i \in Range(shown') \cap Placed' : ~Precedes(walk'.key, Payload(i))
         /\ \A p, n \in DOMAIN shown' :
              p < n /\ {shown'[p], shown'[n]} \subseteq Placed' =>
                Precedes(Payload(shown'[p]), Payload(shown'[n]))
         /\ \A i \in Range(shown') \cap Stable' : i \in Expected'
         /\ ~walk'.cut =>
              \A i \in Expected' : i \in Range(shown') \/
                (Asks' /\ (walk'.key = NoKey \/ Precedes(walk'.key, Payload(i))))
    BY <1>9, <1>15, <1>16, <1>17, <1>18, <1>19
  <1> QED
    BY <1>3, <1>5, <1>19, <1>20 DEF SeekInd, Precedes, Payload

\* A page of a search tells the total of now if it has rows, and 0 if it has none.
LEMMA SeekPageCounts ==
  ASSUME ListInd, LoadSeekPage
  PROVE  NumberInd' /\ TotalInd'
  <1>1. PICK s \in Sorted(Found), m \in Nat : SeekPageOf(s, m)
    BY SeekPage DEF ListInd
  <1>2. s \in Seq(RowIds) /\ m \in 0..Len(s) /\ walk.pc = "ask" /\ ~walk.paged
    BY <1>1, SeekPageFacts
  <1>3. UNCHANGED <<entries, names, exact, changed>>
    BY DEF LoadSeekPage
  <1>4. /\ shown' = shown \o SubSeq(s, 1, m)
        /\ walk' = [kind |-> walk.kind, per |-> walk.per, params |-> walk.params,
              paged |-> walk.paged, page |-> walk.page, key |-> walk'.key, pc |-> walk'.pc,
              total |-> IF walk.kind \in Searches /\ m # 0 THEN Cardinality(Listed) ELSE 0,
              last |-> SubSeq(s, 1, m), cut |-> walk.cut \/ KeyLost]
        /\ walk'.pc \in {"rest", "last"}
    BY <1>1 DEF SeekPageOf
  <1>5. /\ walk'.kind = walk.kind /\ walk'.params = walk.params /\ walk'.paged = walk.paged
        /\ walk'.total = IF walk.kind \in Searches /\ m # 0 THEN Cardinality(Listed) ELSE 0
        /\ walk'.last = SubSeq(s, 1, m)
    BY <1>4
  <1>6. Listed' = Listed
    BY <1>3, <1>5, RowsKept
  <1>7. NumberInd'
    BY <1>2, <1>5 DEF NumberInd
  <1>8. m # 0 <=> walk'.last # <<>>
    <2>1. Len(SubSeq(s, 1, m)) = m /\ SubSeq(s, 1, m) \in Seq(RowIds)
      BY <1>2, Prefix
    <2> QED
      BY <1>5, <2>1, EmptySeq
  <1>9. walk.kind \notin OffsetOnly
    BY <1>2 DEF ListInd, ListTypes
  <1>10. TotalInd'
    <2>1. walk.kind \in Searches => walk'.total = CountOfPage'
      BY <1>5, <1>6, <1>8 DEF CountOfPage
    <2> QED
      BY <1>4, <1>5, <1>9, <2>1 DEF TotalInd
  <1> QED
    BY <1>7, <1>10

-----------------------------------------------------------------------------
(* Pages by number.                                                        *)

\* Where rows have no equals, the listed rows have one order.
LEMMA OneListing ==
  ASSUME ListTypes, walk.kind \notin {"counts", "followed"},
         NEW s \in Sorted(Listed), NEW t \in Sorted(Listed)
  PROVE  s = t
  <1> DEFINE R == {e \in Listed \X Listed : Before(walk.kind, e[1], e[2])}
  <1>1. Listed \in SUBSET RowIds /\ IsFiniteSet(Listed)
        /\ \A i \in Listed : i \in RowIds /\ InPlay(i)
    BY ListedRows
  <1>2. \A i, j \in Listed : <<i, j>> \in R <=> Before(walk.kind, i, j)
    OBVIOUS
  <1> HIDE DEF R
  <1>3. NamesOK(names)
    BY DEF ListTypes, NamesOK
  <1>4. Orders(R, Listed)
    <2> SUFFICES ASSUME NEW i \in Listed, NEW j \in Listed
                 PROVE  /\ i # j => <<i, j>> \in R \/ <<j, i>> \in R
                        /\ ~(<<i, j>> \in R /\ <<j, i>> \in R)
      BY DEF Orders
    <2>1. /\ Payload(i) \in KeysOf(walk.kind) /\ Payload(i).id = i
          /\ Payload(j) \in KeysOf(walk.kind) /\ Payload(j).id = j
      BY <1>1, PayloadKey
    <2>2. /\ Before(walk.kind, i, j) <=> KeyBefore(walk.kind, names, Payload(i), Payload(j))
          /\ Before(walk.kind, j, i) <=> KeyBefore(walk.kind, names, Payload(j), Payload(i))
      BY <1>1, BeforeByKeys DEF Precedes
    <2>3. i # j => Before(walk.kind, i, j) \/ Before(walk.kind, j, i)
      BY <1>3, <2>1, <2>2, KeyTotal
    <2>4. ~(Before(walk.kind, i, j) /\ Before(walk.kind, j, i))
      BY <1>3, <2>1, <2>2, KeyAsymmetric
    <2> QED
      BY <1>2, <2>3, <2>4
  <1>5. ASSUME NEW u \in Sorted(Listed) PROVE u \in SetToSeqs(Listed) /\ InOrder(u, R)
    <2>1. /\ u \in SetToSeqs(Listed) /\ DOMAIN u = 1..Cardinality(Listed)
          /\ \A i \in 1..Cardinality(Listed) : u[i] \in Listed
          /\ \A i, j \in 1..Cardinality(Listed) : i < j => ~Before(walk.kind, u[j], u[i])
      BY <1>1, <1>5, SortedSequences
    <2> QED
      BY <1>2, <2>1 DEF InOrder
  <1>6. s \in SetToSeqs(Listed) /\ InOrder(s, R) /\ t \in SetToSeqs(Listed) /\ InOrder(t, R)
    BY <1>5
  <1> QED
    BY <1>1, <1>4, <1>6, OneOrder

\* The part of a sequence after its first o, up to its first e
LEMMA Middle ==
  ASSUME NEW s \in Seq(RowIds), NEW o \in 0..Len(s), NEW e \in o..Len(s)
  PROVE  /\ SubSeq(s, o + 1, e) \in Seq(RowIds) /\ Len(SubSeq(s, o + 1, e)) = e - o
         /\ \A i \in 1..(e - o) : SubSeq(s, o + 1, e)[i] = s[o + i]
  <1>1. Len(s) \in Nat /\ \A i \in 1..Len(s) : s[i] \in RowIds
    BY LenProperties, ElementOfSeq
  <1>2. o \in Nat /\ e \in Nat /\ o <= e /\ e <= Len(s)
    BY <1>1
  <1>3. PICK lo \in Int : lo = o + 1
    BY <1>2
  <1>4. \A i \in lo..e : s[i] \in RowIds
    <2> TAKE i \in lo..e
    <2>1. i \in 1..Len(s)
      BY <1>1, <1>2, <1>3
    <2> QED
      BY <1>1, <2>1
  <1>5. /\ SubSeq(s, lo, e) \in Seq(RowIds)
        /\ Len(SubSeq(s, lo, e)) = IF lo <= e THEN e - lo + 1 ELSE 0
        /\ \A i \in 1..e - lo + 1 : SubSeq(s, lo, e)[i] = s[lo + i - 1]
    <2>1. e \in Int
      BY <1>2
    <2> QED
      BY <1>4, <2>1, SubSeqProperties
  <1>6. Len(SubSeq(s, lo, e)) = e - o
    BY <1>2, <1>3, <1>5
  <1>7. \A i \in 1..(e - o) : SubSeq(s, lo, e)[i] = s[o + i]
    <2> TAKE i \in 1..(e - o)
    <2>1. i \in 1..e - lo + 1 /\ lo + i - 1 = o + i
      BY <1>2, <1>3
    <2> QED
      BY <1>5, <2>1
  <1> QED
    BY <1>3, <1>5, <1>6, <1>7

\* d is a page after the first o of s: the next rows, in their order, and fewer than per
\* only at the end.
PageAfter(d, s, o, per) ==
  /\ d \in Seq(RowIds) /\ Len(d) \in Nat /\ Len(d) <= per
  /\ o + Len(d) <= Len(s)
  /\ Len(d) < per => o + Len(d) = Len(s)
  /\ \A i \in 1..Len(d) : d[i] = s[o + i]
  /\ SubSeq(s, 1, o) \o d = SubSeq(s, 1, o + Len(d))

\* Skipping o rows and taking per of the others makes such a page.
LEMMA PageOfRest ==
  ASSUME NEW s \in Seq(RowIds), NEW o \in 0..Len(s), NEW per \in Nat \ {0}
  PROVE  PageAfter(Take(Drop(s, o), per), s, o, per)
  <1> DEFINE n == Len(s)
             r == Drop(s, o)
             d == Take(r, per)
             m == IF n - o < per THEN n - o ELSE per
  <1>1. n \in Nat /\ o \in Nat /\ per \in Nat /\ \A i \in 1..n : s[i] \in RowIds
    BY LenProperties, ElementOfSeq
  <1>2. r \in Seq(RowIds) /\ Len(r) = n - o /\ \A i \in 1..(n - o) : r[i] = s[o + i]
    <2>1. n \in o..Len(s)
      BY <1>1
    <2> QED
      BY <2>1, Middle DEF Drop
  <1>3. m \in Nat /\ m \in 0..(n - o) /\ o + m \in 0..n /\ o \in 0..n
    BY <1>1
  <1> HIDE DEF r
  <1>4. d = SubSeq(r, 1, m)
    BY <1>2 DEF Take
  <1> HIDE DEF d, m
  <1>5. d \in Seq(RowIds) /\ Len(d) = m /\ \A i \in 1..m : d[i] = r[i]
    BY <1>2, <1>3, <1>4, Prefix
  <1>6. \A i \in 1..m : d[i] = s[o + i]
    <2> TAKE i \in 1..m
    <2>1. i \in 1..(n - o)
      BY <1>1, <1>3
    <2> QED
      BY <1>2, <1>5, <2>1
  <1>7. d = SubSeq(s, o + 1, o + m)
    <2>1. o + m \in o..Len(s) /\ o + m - o = m
      BY <1>1, <1>3
    <2>2. /\ SubSeq(s, o + 1, o + m) \in Seq(RowIds)
          /\ Len(SubSeq(s, o + 1, o + m)) = m
          /\ \A i \in 1..m : SubSeq(s, o + 1, o + m)[i] = s[o + i]
      <3>1. PICK e \in o..Len(s) : e = o + m
        BY <2>1
      <3>2. e - o = m
        BY <1>1, <1>3, <3>1
      <3> QED
        BY <3>1, <3>2, Middle
    <2> DEFINE q == SubSeq(s, o + 1, o + m)
    <2> HIDE DEF q
    <2>3. q \in Seq(RowIds) /\ Len(q) = Len(d) /\ \A i \in 1..Len(d) : d[i] = q[i]
      BY <1>5, <1>6, <2>2 DEF q
    <2>4. d = q
      BY <1>5, <2>3, SeqEqual
    <2> QED
      BY <2>4 DEF q
  <1>8. SubSeq(s, 1, o) \o d = SubSeq(s, 1, o + m)
    <2>1. 1 \in 1..n + 1 /\ o \in 1 - 1..n /\ o + m \in o..n
      BY <1>1, <1>3
    <2> QED
      BY <1>7, <2>1, ConcatAdjacentSubSeq
  <1>9. m <= per /\ (m < per => o + m = n) /\ o + m <= n
    BY <1>1 DEF m
  <1> QED
    BY <1>3, <1>5, <1>6, <1>8, <1>9 DEF d, r, PageAfter

\* A page by number continues the one before.
LEMMA NumberedPagePreserves ==
  ASSUME ListInd, LoadNumberedPage
  PROVE  ListInd'
  <1>1. PICK s \in Sorted(Listed) :
          LET data == Take(Drop(s, Offset(walk.page, walk.per)), walk.per)
          IN /\ walk' = [walk EXCEPT
                  !.last = data,
                  !.page = @ + 1,
                  !.pc = IF FullPage(data) THEN "rest" ELSE "last",
                  !.total = IF data # <<>> THEN Cardinality(Listed) ELSE 0]
             /\ shown' = shown \o data
    BY DEF LoadNumberedPage
  <1> DEFINE o == Offset(walk.page, walk.per)
             data == Take(Drop(s, o), walk.per)
  <1>2. /\ walk.pc = "ask" /\ walk.paged /\ Asks
        /\ UNCHANGED <<entries, names, exact, changed>>
    BY DEF LoadNumberedPage, Asks
  <1>3. /\ ListTypes /\ walk.per \in Nat \ {0} /\ walk.page \in Nat \ {0}
        /\ shown \in Seq(RowIds) /\ Len(shown) \in Nat
    BY ListingAssumption DEF ListInd, ListTypes
  <1>4. Listed \in SUBSET RowIds /\ \A i \in Listed : InPlay(i) /\ i \in RowIds
    BY ListedRows
  <1>5. /\ s \in Seq(RowIds) /\ Len(s) = Cardinality(Listed) /\ Cardinality(Listed) \in Nat
        /\ \A i \in 1..Len(s) : s[i] \in Listed
    BY <1>4, SortedSequences
  <1>6. o \in Nat
    <2>1. walk.page - 1 \in Nat /\ walk.per \in Nat
      BY <1>3
    <2>2. \A a, b \in Nat : a * b \in Nat
      OBVIOUS
    <2> QED
      BY <2>1, <2>2 DEF Offset
  <1> HIDE DEF o
  <1>7. /\ data \in Seq(RowIds) /\ Len(data) \in Nat /\ Len(data) <= walk.per
        /\ \A x \in Range(data) : x \in Listed
    <2>1. CASE o <= Len(s)
      <3>1. o \in 0..Len(s)
        BY <1>5, <1>6, <2>1
      <3>2. PageAfter(data, s, o, walk.per)
        BY <1>3, <1>5, <3>1, PageOfRest
      <3> HIDE DEF data
      <3>3. /\ data \in Seq(RowIds) /\ Len(data) \in Nat /\ Len(data) <= walk.per
            /\ \A i \in 1..Len(data) : data[i] = s[o + i]
            /\ o + Len(data) <= Len(s)
        BY <3>2 DEF PageAfter
      <3>4. \A i \in 1..Len(data) : data[i] \in Listed
        <4> TAKE i \in 1..Len(data)
        <4>1. o + i \in 1..Len(s)
          BY <1>5, <1>6, <3>3
        <4> QED
          BY <1>5, <3>3, <4>1
      <3>5. DOMAIN data = 1..Len(data)
        BY <3>3, LenProperties
      <3> QED
        BY <3>3, <3>4, <3>5 DEF Range
    <2>2. CASE o > Len(s)
      <3>1. Len(s) < o + 1 /\ o + 1 \in Int /\ Len(s) \in Int
        BY <1>5, <1>6, <2>2
      <3>2. Drop(s, o) = <<>>
        BY <3>1, SubSeqEmpty DEF Drop
      <3>3. Len(<<>>) = 0 /\ 0 < walk.per /\ 0 < 1 /\ 0 \in Int /\ 1 \in Int
        BY <1>3, EmptySeq
      <3>4. Take(<<>>, walk.per) = <<>>
        BY <3>3, SubSeqEmpty DEF Take
      <3>5. data = <<>>
        BY <3>2, <3>4
      <3>6. Range(<<>>) = {}
        BY EmptySeq, LenProperties DEF Range
      <3> QED
        BY <1>3, <3>3, <3>5, <3>6, EmptySeq
    <2> QED
      BY <1>5, <1>6, <2>1, <2>2
  <1>8. shown' = shown \o data
    BY <1>1 DEF o
  <1>9. walk' = [kind |-> walk.kind, per |-> walk.per, params |-> walk.params,
              paged |-> walk.paged, page |-> walk.page + 1, key |-> walk.key,
              pc |-> IF FullPage(data) THEN "rest" ELSE "last",
              total |-> IF data # <<>> THEN Cardinality(Listed) ELSE 0,
              last |-> data, cut |-> walk.cut]
    <2>1. walk = [kind |-> walk.kind, per |-> walk.per, params |-> walk.params,
                  paged |-> walk.paged, page |-> walk.page, key |-> walk.key, pc |-> walk.pc,
                  total |-> walk.total, last |-> walk.last, cut |-> walk.cut]
      BY DEF ListInd, ListTypes
    <2>2. walk' = [walk EXCEPT
                  !.last = data,
                  !.page = @ + 1,
                  !.pc = IF FullPage(data) THEN "rest" ELSE "last",
                  !.total = IF data # <<>> THEN Cardinality(Listed) ELSE 0]
      BY <1>1 DEF o
    <2> HIDE DEF data
    <2> QED
      BY <2>1, <2>2
  <1>10. (FullPage(data) <=> Len(data) >= walk.per)
    BY DEF FullPage
  <1>11. o <= Len(s) => PageAfter(data, s, o, walk.per)
    <2> SUFFICES ASSUME o <= Len(s) PROVE PageAfter(data, s, o, walk.per)
      OBVIOUS
    <2>1. o \in 0..Len(s)
      BY <1>5, <1>6
    <2> QED
      BY <1>3, <1>5, <2>1, PageOfRest
  <1> HIDE DEF data
  <1>12. /\ walk'.kind = walk.kind /\ walk'.per = walk.per /\ walk'.params = walk.params
         /\ walk'.paged = walk.paged /\ walk'.page = walk.page + 1 /\ walk'.key = walk.key
         /\ walk'.pc \in {"rest", "last"} /\ walk'.last = data /\ walk'.cut = walk.cut
         /\ walk'.total = IF data # <<>> THEN Cardinality(Listed) ELSE 0
         /\ walk'.pc = "rest" <=> Len(data) >= walk.per
         /\ walk' = [kind |-> walk'.kind, per |-> walk'.per, params |-> walk'.params,
                   paged |-> walk'.paged, page |-> walk'.page, key |-> walk'.key,
                   pc |-> walk'.pc, total |-> walk'.total, last |-> walk'.last,
                   cut |-> walk'.cut]
    BY <1>9, <1>10
  <1>13. /\ shown' \in Seq(RowIds) /\ Len(shown') = Len(shown) + Len(data)
         /\ Range(shown') = Range(shown) \cup Range(data)
    BY <1>3, <1>7, <1>8, ConcatProperties, RangeConcatenation
  <1>14. /\ \A i : Payload(i)' = Payload(i) /\ (InPlay(i)' <=> InPlay(i))
         /\ Listed' = Listed /\ \A S : Sorted(S)' = Sorted(S)
    BY <1>2, <1>12, RowsKept
  <1>15. ListTypes'
    <2>1. \A i \in RowIds : InPlay(i)' => entries'[i].col \in Columns(walk'.kind)
      BY <1>2, <1>3, <1>12, <1>14 DEF ListTypes
    <2>2. \A i \in Range(shown') : InPlay(i)'
      BY <1>3, <1>4, <1>7, <1>13, <1>14 DEF ListTypes
    <2>3. Len(walk'.last) <= walk'.per /\ Len(walk'.last) <= Len(shown')
          /\ walk'.last \in Seq(RowIds)
      BY <1>3, <1>7, <1>12, <1>13
    <2>4. walk'.page \in Nat \ {0}
      BY <1>3, <1>12
    <2> QED
      BY <1>2, <1>3, <1>12, <1>13, <2>1, <2>2, <2>3, <2>4 DEF ListTypes
  <1>16. KeySound' /\ SeekInd' /\ InvitationInd' /\ CutInd'
    <2>1. KeySound'
      BY <1>2, <1>12, <1>13 DEF ListInd, KeySound
    <2>2. SeekInd'
      BY <1>2, <1>12 DEF SeekInd
    <2>3. InvitationInd'
      <3>1. walk.kind # "invitation"
        BY <1>2, <1>3 DEF ListTypes, Searches, OffsetOnly
      <3> QED
        BY <1>12, <3>1 DEF InvitationInd
    <2>4. CutInd'
      BY <1>2, <1>12 DEF ListInd, CutInd
    <2> QED
      BY <2>1, <2>2, <2>3, <2>4
  <1>17. NumberInd'
    <2> SUFFICES ASSUME changed = <<>>
                 PROVE  /\ walk'.pc = "rest" => /\ Len(shown') = Offset(walk'.page, walk.per)
                                                /\ Len(shown') <= Cardinality(Listed)
                        /\ walk'.pc = "last" => Len(shown') = Cardinality(Listed)
                        /\ walk.kind \notin {"counts", "followed"} =>
                             /\ walk'.pc = "rest" =>
                                  \A t \in Sorted(Listed) : shown' = SubSeq(t, 1, Len(shown'))
                             /\ walk'.pc = "last" => shown' \in Sorted(Listed)
      BY <1>2, <1>12, <1>14 DEF NumberInd, Asks
    <2> DEFINE c == Len(data)
    <2>1. /\ Len(shown) = o /\ Len(shown) <= Cardinality(Listed)
          /\ walk.kind \notin {"counts", "followed"} =>
               \A t \in Sorted(Listed) : shown = SubSeq(t, 1, Len(shown))
      BY <1>2 DEF ListInd, NumberInd, o
    <2>2. /\ c \in Nat /\ c <= walk.per /\ o + c <= Len(s) /\ (c < walk.per => o + c = Len(s))
          /\ SubSeq(s, 1, o) \o data = SubSeq(s, 1, o + c)
      BY <1>5, <1>11, <2>1 DEF PageAfter
    <2>3. Len(shown') = o + c /\ Len(shown') <= Cardinality(Listed)
      BY <1>5, <1>13, <2>1, <2>2
    <2>4. /\ walk'.pc = "rest" => c = walk.per
          /\ walk'.pc = "last" => o + c = Len(s)
      BY <1>3, <1>5, <1>6, <1>12, <2>2
    <2>5. walk'.pc = "rest" => Len(shown') = Offset(walk'.page, walk.per)
      <3>1. \A p, q \in Nat : (p + 1 - 1) * q = (p - 1) * q + q
        OBVIOUS
      <3>2. Offset(walk.page + 1, walk.per) = o + walk.per
        BY <1>3, <3>1 DEF Offset, o
      <3> QED
        BY <1>12, <2>3, <2>4, <3>2
    <2>6. walk'.pc = "last" => Len(shown') = Cardinality(Listed)
      BY <1>5, <1>6, <2>3, <2>4
    <2>7. ASSUME walk.kind \notin {"counts", "followed"}
          PROVE  shown' = SubSeq(s, 1, Len(shown'))
      <3>1. shown = SubSeq(s, 1, o)
        BY <2>1, <2>7
      <3> QED
        BY <1>8, <2>2, <2>3, <3>1
    <2>8. ASSUME walk.kind \notin {"counts", "followed"}, NEW t \in Sorted(Listed)
          PROVE  shown' = SubSeq(t, 1, Len(shown'))
      <3>1. s = t
        BY <1>3, <2>8, OneListing
      <3> QED
        BY <2>7, <2>8, <3>1
    <2>9. ASSUME walk.kind \notin {"counts", "followed"}, walk'.pc = "last"
          PROVE  shown' \in Sorted(Listed)
      <3>1. shown' = SubSeq(s, 1, Len(s))
        BY <1>5, <2>6, <2>7, <2>9
      <3>2. shown' = s
        BY <1>5, <3>1, SubSeqFull
      <3> QED
        BY <3>2
    <2> QED
      BY <2>3, <2>5, <2>6, <2>8, <2>9
  <1>18. TotalInd'
    <2>1. walk.kind \in Searches \cup OffsetOnly /\ walk.kind \notin {"semver", "date", "id"}
      BY <1>2, <1>3 DEF ListTypes, Searches, OffsetOnly
    <2>2. walk'.total = CountOfPage'
      BY <1>12, <1>14 DEF CountOfPage
    <2> QED
      BY <1>12, <2>1, <2>2 DEF TotalInd
  <1> QED
    BY <1>15, <1>16, <1>17, <1>18 DEF ListInd

\* A page that is refused shows nothing.
LEMMA PageRefusedPreserves ==
  ASSUME ListInd, PageRefused
  PROVE  ListInd'
  <1>1. /\ walk.paged /\ walk.kind \in Searches /\ walk' = [walk EXCEPT !.pc = "refused"]
        /\ UNCHANGED <<entries, names, exact, shown, changed>>
    BY DEF PageRefused
  <1>2. walk = [kind |-> walk.kind, per |-> walk.per, params |-> walk.params,
                paged |-> walk.paged, page |-> walk.page, key |-> walk.key, pc |-> walk.pc,
                total |-> walk.total, last |-> walk.last, cut |-> walk.cut]
    BY DEF ListInd, ListTypes
  <1>3. walk' = [kind |-> walk.kind, per |-> walk.per, params |-> walk.params,
                 paged |-> walk.paged, page |-> walk.page, key |-> walk.key, pc |-> "refused",
                 total |-> walk.total, last |-> walk.last, cut |-> walk.cut]
    BY <1>1, <1>2
  <1>4. /\ walk'.kind = walk.kind /\ walk'.per = walk.per /\ walk'.params = walk.params
        /\ walk'.paged = walk.paged /\ walk'.page = walk.page /\ walk'.key = walk.key
        /\ walk'.pc = "refused" /\ walk'.total = walk.total /\ walk'.last = walk.last
        /\ walk'.cut = walk.cut
        /\ walk' = [kind |-> walk'.kind, per |-> walk'.per, params |-> walk'.params,
                   paged |-> walk'.paged, page |-> walk'.page, key |-> walk'.key,
                   pc |-> walk'.pc, total |-> walk'.total, last |-> walk'.last,
                   cut |-> walk'.cut]
    BY <1>3
  <1>5. /\ \A i : InPlay(i)' <=> InPlay(i)
        /\ Listed' = Listed
    BY <1>1, <1>4, RowsKept
  <1>6. ListTypes'
    <2>1. /\ ListTypes /\ walk.page \in Nat \ {0} /\ walk.cut \in BOOLEAN
          /\ walk.last \in Seq(RowIds) /\ Len(walk.last) <= walk.per
          /\ shown \in Seq(RowIds) /\ \A i \in Range(shown) : InPlay(i)
      BY DEF ListInd, ListTypes
    <2>2. walk'.pc \notin {"rest", "last"}
      BY <1>4
    <2> QED
      BY <1>1, <1>4, <2>1, <2>2, TypesOfWalk
  <1>7. KeySound' /\ CutInd'
    BY <1>1, <1>4 DEF ListInd, KeySound, CutInd
  <1>8. SeekInd' /\ InvitationInd' /\ NumberInd'
    BY <1>1, <1>4 DEF SeekInd, InvitationInd, NumberInd, Asks, Searches
  <1>9. TotalInd'
    BY <1>1, <1>4, <1>5 DEF ListInd, TotalInd, CountOfPage, Searches
  <1> QED
    BY <1>6, <1>7, <1>8, <1>9 DEF ListInd

\* A client that has followed all links, and saw nothing change, was shown the listed rows,
\* each once.
LEMMA AllShown ==
  ASSUME ListInd, ~walk.paged, ~Asks, changed = <<>>
  PROVE  Len(shown) = Cardinality(Listed)
  <1>1. Range(<<>>) = {}
    BY EmptySeq, LenProperties DEF Range
  <1>2. ~walk.cut
    BY DEF ListInd, CutInd
  <1>3. /\ shown \in Seq(RowIds) /\ DOMAIN shown = 1..Len(shown) /\ Len(shown) \in Nat
        /\ \A i \in Range(shown) : i \in RowIds /\ InPlay(i)
    BY LenProperties, RangeOfSeq DEF ListInd, ListTypes
  <1>4. \A i \in Range(shown) : i \in Stable
    BY <1>1, <1>3 DEF InPlay, Stable
  <1>5. /\ \A i \in Range(shown) \cap Stable : i \in Expected
        /\ \A i \in Expected : i \in Range(shown)
        /\ \A m, n \in DOMAIN shown :
             m < n /\ {shown[m], shown[n]} \subseteq Placed =>
               Precedes(Payload(shown[m]), Payload(shown[n]))
    BY <1>2 DEF ListInd, SeekInd
  <1>6. Listed = Expected
    <2>1. \A i \in Listed : i \in Stable
      BY <1>1, ListedRows DEF Stable
    <2> QED
      BY <2>1, ListedRows
  <1>7. Range(shown) = Listed
    BY <1>4, <1>5, <1>6
  <1>8. ASSUME NEW m \in DOMAIN shown, NEW n \in DOMAIN shown, m < n PROVE shown[m] # shown[n]
    <2>1. shown[m] \in Range(shown) /\ shown[n] \in Range(shown)
      BY DEF Range
    <2>2. shown[m] \in Stable /\ shown[n] \in Stable /\ Stable \subseteq Placed
      BY <1>4, <2>1, ListedRows
    <2>3. Precedes(Payload(shown[m]), Payload(shown[n]))
      BY <1>5, <1>8, <2>2
    <2>4. Payload(shown[m]) \in KeysOf(walk.kind) /\ Payload(shown[n]) \in KeysOf(walk.kind)
      BY <1>3, <2>1, PayloadKey DEF ListInd
    <2>5. ~Precedes(Payload(shown[n]), Payload(shown[m]))
      BY <2>3, <2>4, KeyAsymmetric DEF Precedes, ListInd, ListTypes, NamesOK
    <2> QED
      BY <2>3, <2>5
  <1>9. \A m, n \in DOMAIN shown : shown[m] = shown[n] => m = n
    <2> SUFFICES ASSUME NEW m \in DOMAIN shown, NEW n \in DOMAIN shown, m # n
                 PROVE  shown[m] # shown[n]
      OBVIOUS
    <2>1. m < n \/ n < m
      BY <1>3
    <2> QED
      BY <1>8, <2>1
  <1>10. Cardinality(Range(shown)) = Len(shown)
    BY <1>3, <1>9, LengthOfInjective
  <1> QED
    BY <1>7, <1>10

\* The total that is counted after the page
LEMMA FinishPagePreserves ==
  ASSUME ListInd, FinishPage
  PROVE  ListInd'
  <1> DEFINE total == CASE walk.kind = "id" -> ConfigTotal
                        [] walk.kind \in {"semver", "date"} -> CountOfPage
                        [] OTHER -> walk.total
  <1>1. /\ walk.pc \in {"rest", "last"}
        /\ walk' = [walk EXCEPT !.pc = IF walk.pc = "last" THEN "end" ELSE "ask", !.total = total]
        /\ UNCHANGED <<entries, names, exact, shown, changed>>
    BY DEF FinishPage, CountOfPage
  <1>2. walk = [kind |-> walk.kind, per |-> walk.per, params |-> walk.params,
                paged |-> walk.paged, page |-> walk.page, key |-> walk.key, pc |-> walk.pc,
                total |-> walk.total, last |-> walk.last, cut |-> walk.cut]
    BY DEF ListInd, ListTypes
  <1> HIDE DEF total
  <1>3. walk' = [kind |-> walk.kind, per |-> walk.per, params |-> walk.params,
                 paged |-> walk.paged, page |-> walk.page, key |-> walk.key,
                 pc |-> IF walk.pc = "last" THEN "end" ELSE "ask",
                 total |-> total, last |-> walk.last, cut |-> walk.cut]
    BY <1>1, <1>2
  <1>4. /\ walk'.kind = walk.kind /\ walk'.per = walk.per /\ walk'.params = walk.params
        /\ walk'.paged = walk.paged /\ walk'.page = walk.page /\ walk'.key = walk.key
        /\ walk'.pc = (IF walk.pc = "last" THEN "end" ELSE "ask")
        /\ walk'.total = total /\ walk'.last = walk.last /\ walk'.cut = walk.cut
        /\ walk' = [kind |-> walk'.kind, per |-> walk'.per, params |-> walk'.params,
                   paged |-> walk'.paged, page |-> walk'.page, key |-> walk'.key,
                   pc |-> walk'.pc, total |-> walk'.total, last |-> walk'.last,
                   cut |-> walk'.cut]
    BY <1>3
  <1>5. /\ Listed' = Listed /\ Stable' = Stable /\ Expected' = Expected /\ Placed' = Placed
        /\ \A S : Sorted(S)' = Sorted(S)
    BY <1>1, <1>4, RowsKept
  <1>6. Asks' <=> Asks
    BY <1>1, <1>4 DEF Asks
  <1>7. ListTypes'
    <2>1. /\ ListTypes /\ walk.page \in Nat \ {0} /\ walk.cut \in BOOLEAN
          /\ walk.last \in Seq(RowIds) /\ Len(walk.last) <= walk.per
          /\ shown \in Seq(RowIds) /\ \A i \in Range(shown) : InPlay(i)
      BY DEF ListInd, ListTypes
    <2>2. walk'.pc \in {"ask", "end"}
      BY <1>4
    <2> QED
      BY <1>1, <1>4, <2>1, <2>2, TypesOfWalk
  <1>8. KeySound' /\ CutInd'
    BY <1>1, <1>4 DEF ListInd, KeySound, CutInd
  <1>9. InvitationInd'
    BY <1>4 DEF InvitationInd
  <1>10. SeekInd'
    <2>1. walk'.pc # "refused"
      BY <1>4
    <2>2. ~walk.paged /\ Asks => walk.key # NoKey
      BY <1>1 DEF ListInd, SeekInd
    <2> QED
      BY <1>1, <1>4, <1>5, <1>6, <2>1, <2>2 DEF ListInd, SeekInd, Precedes, Payload
  <1>11. NumberInd'
    <2>1. /\ walk'.pc \in {"last", "end"} => walk.pc \in {"last", "end"}
          /\ (changed' = <<>>) <=> (changed = <<>>)
      BY <1>1, <1>4
    <2>2. shown' = shown /\ walk'.page = walk.page /\ walk'.per = walk.per
          /\ walk'.kind = walk.kind /\ walk'.paged = walk.paged
      BY <1>1, <1>4
    <2> QED
      BY <1>5, <1>6, <2>1, <2>2 DEF ListInd, NumberInd
  <1>12. TotalInd'
    <2> SUFFICES ASSUME changed = <<>>
                 PROVE  /\ walk.kind \in Searches \cup OffsetOnly => total = CountOfPage
                        /\ walk.kind \in {"semver", "date"} => total = CountOfPage
                        /\ walk.kind = "id" /\ walk'.pc = "end" => total = Len(shown)
      BY <1>1, <1>4, <1>5 DEF TotalInd, CountOfPage
    <2>1. ASSUME walk.kind \in Searches \cup OffsetOnly PROVE total = CountOfPage
      <3>1. total = walk.total
        BY <2>1 DEF total, Searches, OffsetOnly
      <3> QED
        BY <2>1, <3>1 DEF ListInd, TotalInd
    <2>2. ASSUME walk.kind \in {"semver", "date"} PROVE total = CountOfPage
      BY <2>2 DEF total
    <2>3. ASSUME walk.kind = "id", walk'.pc = "end" PROVE total = Len(shown)
      <3>1. total = ConfigTotal
        BY <2>3 DEF total
      <3>2. walk.pc = "last" /\ ~Asks
        BY <1>4, <2>3 DEF Asks
      <3>3. ~walk.paged
        BY <2>3 DEF ListInd, ListTypes, Searches, OffsetOnly
      <3>4. Len(shown) = Cardinality(Listed)
        BY <3>2, <3>3, AllShown
      <3> QED
        BY <3>1, <3>4 DEF ConfigTotal
    <2> QED
      BY <2>1, <2>2, <2>3
  <1> QED
    BY <1>7, <1>8, <1>9, <1>10, <1>11, <1>12 DEF ListInd

\* A page of invitations that fails is taken back, and asked for again.
LEMMA InvitationsFailPreserves ==
  ASSUME ListInd, InvitationsFail
  PROVE  ListInd'
  <1>1. /\ walk.pc \in {"rest", "last"} /\ walk.kind = "invitation"
        /\ shown' = SubSeq(shown, 1, Len(shown) - Len(walk.last))
        /\ walk' = [walk EXCEPT !.pc = "ask",
                          !.key = IF shown' = <<>> THEN NoKey ELSE Payload(shown'[Len(shown')])]
        /\ UNCHANGED <<entries, names, exact, changed>>
    BY DEF InvitationsFail
  <1>2. walk = [kind |-> walk.kind, per |-> walk.per, params |-> walk.params,
                paged |-> walk.paged, page |-> walk.page, key |-> walk.key, pc |-> walk.pc,
                total |-> walk.total, last |-> walk.last, cut |-> walk.cut]
    BY DEF ListInd, ListTypes
  <1> DEFINE key == IF shown' = <<>> THEN NoKey ELSE Payload(shown'[Len(shown')])
             m == Len(shown) - Len(walk.last)
  <1>3. walk' = [walk EXCEPT !.pc = "ask", !.key = key]
    BY <1>1
  <1> HIDE DEF key
  <1>4. walk' = [kind |-> walk.kind, per |-> walk.per, params |-> walk.params,
                 paged |-> walk.paged, page |-> walk.page, key |-> key, pc |-> "ask",
                 total |-> walk.total, last |-> walk.last, cut |-> walk.cut]
    BY <1>2, <1>3
  <1>5. /\ walk'.kind = walk.kind /\ walk'.per = walk.per /\ walk'.params = walk.params
        /\ walk'.paged = walk.paged /\ walk'.page = walk.page /\ walk'.key = key
        /\ walk'.pc = "ask"
        /\ walk'.total = walk.total /\ walk'.last = walk.last /\ walk'.cut = walk.cut
        /\ walk' = [kind |-> walk'.kind, per |-> walk'.per, params |-> walk'.params,
                   paged |-> walk'.paged, page |-> walk'.page, key |-> walk'.key,
                   pc |-> walk'.pc, total |-> walk'.total, last |-> walk'.last,
                   cut |-> walk'.cut]
    BY <1>4
  <1>6. /\ Listed' = Listed /\ Stable' = Stable /\ Expected' = Expected /\ Placed' = Placed
    BY <1>1, <1>5, RowsKept
  <1>7. /\ shown \in Seq(RowIds) /\ Len(shown) \in Nat /\ DOMAIN shown = 1..Len(shown)
        /\ \A i \in Range(shown) : InPlay(i) /\ i \in RowIds
        /\ m \in 0..Len(shown)
    <2>1. /\ shown \in Seq(RowIds) /\ walk.last \in Seq(RowIds)
          /\ \A i \in Range(shown) : InPlay(i) /\ Len(walk.last) <= Len(shown)
      BY <1>1 DEF ListInd, ListTypes
    <2>2. Len(walk.last) <= Len(shown)
      BY <1>1 DEF ListInd, ListTypes
    <2> QED
      BY <2>1, <2>2, LenProperties, RangeOfSeq
  <1> HIDE DEF m
  <1>8. /\ shown' \in Seq(RowIds) /\ Len(shown') = m /\ DOMAIN shown' = 1..m
        /\ \A i \in 1..m : shown'[i] = shown[i] /\ shown[i] \in Range(shown)
                           /\ shown[i] \in Range(shown')
    <2>1. shown' = SubSeq(shown, 1, m)
      BY <1>1 DEF m
    <2>2. /\ SubSeq(shown, 1, m) \in Seq(RowIds) /\ Len(SubSeq(shown, 1, m)) = m
          /\ \A i \in 1..m : SubSeq(shown, 1, m)[i] = shown[i]
      BY <1>7, Prefix
    <2>3. /\ shown' \in Seq(RowIds) /\ Len(shown') = m /\ \A i \in 1..m : shown'[i] = shown[i]
      BY <2>1, <2>2
    <2>4. DOMAIN shown' = 1..m
      BY <2>3, LenProperties
    <2>5. \A i \in 1..m : i \in 1..Len(shown)
      BY <1>7
    <2> QED
      BY <1>7, <2>3, <2>4, <2>5 DEF Range
  <1>9. \A x \in Range(shown') : \E i \in 1..m : x = shown[i]
    BY <1>8 DEF Range
  <1>10. \A x \in Range(shown') : x \in Range(shown)
    BY <1>8, <1>9
  <1>11. shown' = <<>> <=> m = 0
    BY <1>8, EmptySeq
  <1>12. m # 0 => m \in 1..m /\ key = Payload(shown[m]) /\ shown[m] \in Range(shown)
    <2>1. m # 0 => m \in 1..m
      BY <1>7
    <2> QED
      BY <1>8, <1>11, <2>1 DEF key
  <1>13. m = 0 => key = NoKey
    BY <1>11 DEF key
  <1>14. ListTypes'
    <2>1. /\ ListTypes /\ walk.page \in Nat \ {0} /\ walk.cut \in BOOLEAN
          /\ walk.last \in Seq(RowIds) /\ Len(walk.last) <= walk.per
      BY DEF ListInd, ListTypes
    <2>2. \A i \in Range(shown') : InPlay(i)
      BY <1>7, <1>10
    <2> QED
      BY <1>1, <1>5, <1>8, <2>1, <2>2, TypesOfWalk
  <1>15. ~walk.paged /\ NamesOK(names)
    BY <1>1 DEF ListInd, ListTypes, Searches, OffsetOnly, NamesOK
  <1>16. \A i \in RowIds : InPlay(i) => /\ Payload(i) \in KeysOf(walk.kind)
                                        /\ Payload(i).id = i /\ Payload(i).col = entries[i].col
                                        /\ Payload(i).exact = exact[i] /\ Payload(i) # NoKey
    BY PayloadKey DEF ListInd
  <1>17. KeySound'
    <2> SUFFICES ASSUME key # NoKey
                 PROVE  /\ key \in KeysOf(walk.kind) /\ key.id \in Range(shown')
                        /\ key.exact = exact[key.id] /\ key.col = entries[key.id].col
      BY <1>1, <1>5 DEF KeySound
    <2>1. m \in 1..m /\ key = Payload(shown[m]) /\ shown[m] \in Range(shown)
      BY <1>12, <1>13
    <2>2. shown[m] \in RowIds /\ InPlay(shown[m]) /\ shown[m] \in Range(shown')
      BY <1>7, <1>8, <2>1
    <2> QED
      BY <1>16, <2>1, <2>2
  <1>18. /\ Placed = RowIds
         /\ \A p, n \in 1..Len(shown) : p < n => Precedes(Payload(shown[p]), Payload(shown[n]))
         /\ \A i \in Range(shown) \cap Stable : i \in Expected
         /\ ~walk.cut =>
              \A i \in Expected : i \in Range(shown) \/
                (Asks /\ (walk.key = NoKey \/ Precedes(walk.key, Payload(i))))
         /\ walk.key = NoKey /\ Asks => walk.pc = "ask"
    <2>1. Placed = RowIds
      BY <1>1 DEF Placed
    <2>2. \A i \in 1..Len(shown) : shown[i] \in RowIds
      BY <1>7
    <2> QED
      BY <1>7, <1>15, <2>1, <2>2 DEF ListInd, SeekInd
  \* The order of two rows that were shown
  <1>19. \A i \in Range(shown') : m # 0 /\ ~Precedes(key, Payload(i))
    <2> TAKE i \in Range(shown')
    <2>1. PICK j \in 1..m : i = shown[j]
      BY <1>9
    <2>2. /\ m # 0 /\ m \in 1..Len(shown) /\ j \in 1..Len(shown) /\ (j = m \/ j < m)
      BY <1>7
    <2>3. key = Payload(shown[m]) /\ shown[m] \in Range(shown) /\ shown[j] \in Range(shown)
      BY <1>8, <1>12, <2>2
    <2>4. Payload(shown[m]) \in KeysOf(walk.kind) /\ Payload(shown[j]) \in KeysOf(walk.kind)
      BY <1>7, <1>16, <2>3
    <2>5. j < m => Precedes(Payload(shown[j]), Payload(shown[m]))
      BY <1>18, <2>2
    <2> QED
      BY <1>15, <2>1, <2>2, <2>3, <2>4, <2>5, KeyAsymmetric DEF Precedes
  <1>20. ASSUME ~walk.cut, NEW i \in Expected
         PROVE  i \in Range(shown') \/ key = NoKey \/ Precedes(key, Payload(i))
    <2> SUFFICES ASSUME m # 0 PROVE i \in Range(shown') \/ Precedes(key, Payload(i))
      BY <1>13
    <2>1. m \in 1..m /\ m \in 1..Len(shown) /\ key = Payload(shown[m])
          /\ shown[m] \in Range(shown)
      BY <1>7, <1>12
    <2>2. CASE i \in Range(shown)
      <3>1. PICK j \in 1..Len(shown) : i = shown[j]
        BY <1>7, <2>2 DEF Range
      <3>2. CASE j <= m
        <4>1. j \in 1..m
          BY <1>7, <3>2
        <4> QED
          BY <1>8, <3>1, <4>1
      <3>3. CASE m < j
        BY <1>18, <2>1, <3>1, <3>3
      <3> QED
        BY <1>7, <3>2, <3>3
    <2>3. CASE i \notin Range(shown)
      <3>1. Asks /\ walk.key # NoKey /\ Precedes(walk.key, Payload(i)) /\ walk.pc = "rest"
        BY <1>1, <1>18, <1>20, <2>3 DEF Asks
      <3> DEFINE z == shown[Len(shown)]
      <3>2. z \in Range(shown) /\ Len(shown) \in 1..Len(shown)
        BY <1>7, <2>1 DEF Range
      <3>3. walk.key.id = z /\ walk.key.col = entries[z].col
        BY <1>1, <3>1 DEF ListInd, InvitationInd, KeySound
      <3>4. z \in RowIds /\ InPlay(z) /\ i \in RowIds /\ InPlay(i)
            /\ shown[m] \in RowIds /\ InPlay(shown[m])
        BY <1>7, <2>1, <3>2, ListedRows
      <3>5. /\ Payload(z) \in KeysOf(walk.kind) /\ Payload(z).id = z
            /\ Payload(z).col = entries[z].col
            /\ Payload(i) \in KeysOf(walk.kind) /\ Payload(shown[m]) \in KeysOf(walk.kind)
        BY <1>16, <3>4
      <3> HIDE DEF z
      <3>6. Precedes(Payload(z), Payload(i))
        BY <1>1, <3>1, <3>3, <3>5 DEF Precedes, KeyBefore
      <3>7. Precedes(Payload(z), Payload(shown[m])) \/ Precedes(Payload(shown[m]), Payload(i))
        BY <1>15, <3>5, <3>6, KeyCotransitive DEF Precedes
      <3>8. ~Precedes(Payload(z), Payload(shown[m]))
        <4>1. m = Len(shown) \/ m < Len(shown)
          <5>1. Len(shown) \in Nat /\ m \in 0..Len(shown)
            BY <1>7
          <5>2. \A b \in Nat : \A a \in 0..b : a = b \/ a < b
            OBVIOUS
          <5> QED
            BY <5>1, <5>2
        <4>2. m < Len(shown) => Precedes(Payload(shown[m]), Payload(z))
          BY <1>18, <2>1, <3>2 DEF z
        <4>3. m = Len(shown) => shown[m] = z
          BY DEF z
        <4> QED
          BY <1>15, <3>5, <4>1, <4>2, <4>3, KeyAsymmetric DEF Precedes
      <3> QED
        BY <2>1, <3>7, <3>8
    <2> QED
      BY <2>2, <2>3
  <1>21. SeekInd'
    <2>1. /\ key = NoKey => shown' = <<>>
          /\ walk'.pc = "ask" /\ Asks'
      <3>1. key = NoKey => m = 0
        BY <1>7, <1>12, <1>16
      <3> QED
        BY <1>5, <1>11, <3>1 DEF Asks
    <2>2. \A p, n \in DOMAIN shown' : p < n => Precedes(Payload(shown'[p]), Payload(shown'[n]))
      <3> SUFFICES ASSUME NEW p \in 1..m, NEW n \in 1..m, p < n
                   PROVE  Precedes(Payload(shown'[p]), Payload(shown'[n]))
        BY <1>8
      <3>1. p \in 1..Len(shown) /\ n \in 1..Len(shown)
        BY <1>7
      <3>2. shown'[p] = shown[p] /\ shown'[n] = shown[n]
        BY <1>8
      <3> QED
        BY <1>18, <3>1, <3>2
    <2>3. \A i \in Range(shown') \cap Stable : i \in Expected
      BY <1>10, <1>18
    <2>4. /\ walk'.key = NoKey /\ Asks' => walk'.pc = "ask" /\ shown' = <<>>
          /\ Asks' /\ walk'.key # NoKey =>
               \A i \in Range(shown') \cap Placed' : ~Precedes(walk'.key, Payload(i))
          /\ \A p, n \in DOMAIN shown' :
               p < n /\ {shown'[p], shown'[n]} \subseteq Placed' =>
                 Precedes(Payload(shown'[p]), Payload(shown'[n]))
          /\ \A i \in Range(shown') \cap Stable' : i \in Expected'
          /\ ~walk'.cut =>
               \A i \in Expected' : i \in Range(shown') \/
                 (Asks' /\ (walk'.key = NoKey \/ Precedes(walk'.key, Payload(i))))
      BY <1>5, <1>6, <1>19, <1>20, <2>1, <2>2, <2>3
    <2>5. /\ walk'.pc # "refused" /\ walk'.kind = walk.kind
          /\ entries' = entries /\ names' = names /\ exact' = exact
      BY <1>1, <1>5
    <2> QED
      BY <2>4, <2>5 DEF SeekInd, Precedes, Payload
  <1>22. InvitationInd'
    BY <1>5 DEF InvitationInd
  <1>23. CutInd'
    BY <1>1, <1>5 DEF ListInd, CutInd
  <1>24. NumberInd'
    BY <1>5, <1>15 DEF NumberInd
  <1>25. TotalInd'
    BY <1>1, <1>5 DEF TotalInd, Searches, OffsetOnly
  <1> QED
    BY <1>14, <1>17, <1>21, <1>22, <1>23, <1>24, <1>25 DEF ListInd

-----------------------------------------------------------------------------
(* Changes of the rows.                                                    *)

\* What a change of row i does: the others stay as they were, and so does the place of i
\* in a list of invitations, if it was shown.
RowChanges(i) ==
  /\ changed' = Append(changed, i)
  /\ UNCHANGED <<names, exact, walk, shown>>
  /\ entries' = [j \in RowIds |->
       [present |-> entries'[j].present, col |-> entries'[j].col, facets |-> entries'[j].facets]]
  /\ \A j \in RowIds \ {i} : entries'[j] = entries[j]
  /\ entries'[i].present \in BOOLEAN /\ entries'[i].col \in Columns(walk.kind)
  /\ walk.kind = "invitation" /\ InPlay(i) => entries'[i].col = entries[i].col

\* Every change is of that form.
LEMMA ChangesOfRow ==
  ASSUME ListTypes, NEW i \in RowIds, InsertRow(i) \/ DeleteRow(i) \/ MoveRow(i) \/ RefilterRow(i)
  PROVE  RowChanges(i)
  <1>1. changed' = Append(changed, i) /\ UNCHANGED <<names, exact, walk, shown>>
    BY DEF InsertRow, DeleteRow, MoveRow, RefilterRow, Change
  <1>2. /\ entries = [j \in RowIds |->
             [present |-> entries[j].present, col |-> entries[j].col, facets |-> entries[j].facets]]
        /\ \A j \in RowIds : entries[j].present \in BOOLEAN
        /\ InPlay(i) => entries[i].col \in Columns(walk.kind)
        /\ entries[i].present => InPlay(i)
        /\ entries[i] = [present |-> entries[i].present, col |-> entries[i].col,
                       facets |-> entries[i].facets]
    BY DEF ListTypes, InPlay
  <1>3. \E r : /\ entries' = [entries EXCEPT ![i] = r]
               /\ r = [present |-> r.present, col |-> r.col, facets |-> r.facets]
               /\ r.present \in BOOLEAN /\ r.col \in Columns(walk.kind)
               /\ walk.kind = "invitation" /\ InPlay(i) => r.col = entries[i].col
    <2>1. CASE InsertRow(i)
      <3>1. ~InPlay(i)
        <4>1. \A j \in Range(changed) : j # i
          BY <2>1 DEF InsertRow
        <4>2. ~entries[i].present
          BY <2>1 DEF InsertRow
        <4> QED
          BY <4>1, <4>2 DEF InPlay
      <3>2. PICK c \in Columns(walk.kind) :
              entries' =
                [entries EXCEPT ![i] = [present |-> TRUE, col |-> c, facets |-> walk.params]]
        BY <2>1 DEF InsertRow
      <3> DEFINE r == [present |-> TRUE, col |-> c, facets |-> walk.params]
      <3>3. r.present \in BOOLEAN /\ r.col = c /\ r.facets = walk.params /\ r.present = TRUE
        OBVIOUS
      <3>4. r = [present |-> r.present, col |-> r.col, facets |-> r.facets]
        OBVIOUS
      <3> HIDE DEF r
      <3> QED
        BY <3>1, <3>2, <3>3, <3>4 DEF r
    <2>2. CASE DeleteRow(i)
      <3> DEFINE r == [present |-> FALSE, col |-> entries[i].col, facets |-> entries[i].facets]
      <3>1. entries' = [entries EXCEPT ![i].present = FALSE] /\ entries[i].present
        BY <2>2 DEF DeleteRow
      <3>2. entries' = [entries EXCEPT ![i] = r]
        <4>1. r = [entries[i] EXCEPT !.present = FALSE]
          <5>1. ASSUME NEW v
                PROVE  [present |-> v, col |-> entries[i].col, facets |-> entries[i].facets]
                         = [entries[i] EXCEPT !.present = v]
            BY <1>2
          <5> QED
            BY <5>1
        <4> HIDE DEF r
        <4> QED
          BY <3>1, <4>1
      <3>3. /\ r.present \in BOOLEAN /\ r.col = entries[i].col
            /\ r = [present |-> r.present, col |-> r.col, facets |-> r.facets]
        OBVIOUS
      <3> HIDE DEF r
      <3> QED
        BY <1>2, <3>1, <3>2, <3>3
    <2>3. CASE MoveRow(i)
      <3>1. /\ entries[i].present /\ walk.kind # "invitation"
            /\ \E c \in Columns(walk.kind) : entries' = [entries EXCEPT ![i].col = c]
        BY <2>3 DEF MoveRow, Mutable
      <3>2. PICK c \in Columns(walk.kind) : entries' = [entries EXCEPT ![i].col = c]
        BY <3>1
      <3> DEFINE r == [present |-> entries[i].present, col |-> c, facets |-> entries[i].facets]
      <3>3. entries' = [entries EXCEPT ![i] = r]
        <4>1. r = [entries[i] EXCEPT !.col = c]
          BY <1>2
        <4> HIDE DEF r
        <4> QED
          BY <3>2, <4>1
      <3>4. /\ r.present = entries[i].present /\ r.col = c
            /\ r = [present |-> r.present, col |-> r.col, facets |-> r.facets]
        OBVIOUS
      <3> HIDE DEF r
      <3> QED
        BY <1>2, <3>1, <3>3, <3>4
    <2>4. CASE RefilterRow(i)
      <3>1. /\ entries[i].present
            /\ \E p \in Applied(walk.params) :
                 entries' = [entries EXCEPT ![i].facets = IF p \in @ THEN @ \ {p} ELSE @ \cup {p}]
        BY <2>4 DEF RefilterRow
      <3>2. PICK p \in Applied(walk.params) :
              entries' = [entries EXCEPT ![i].facets = IF p \in @ THEN @ \ {p} ELSE @ \cup {p}]
        BY <3>1
      <3> DEFINE f == IF p \in entries[i].facets THEN entries[i].facets \ {p}
                      ELSE entries[i].facets \cup {p}
                 r == [present |-> entries[i].present, col |-> entries[i].col, facets |-> f]
      <3>3. entries' = [entries EXCEPT ![i].facets = f]
        BY <3>2
      <3> HIDE DEF f
      <3>4. entries' = [entries EXCEPT ![i] = r]
        <4>1. r = [entries[i] EXCEPT !.facets = f]
          BY <1>2
        <4> HIDE DEF r
        <4> QED
          BY <3>3, <4>1
      <3>5. /\ r.present = entries[i].present /\ r.col = entries[i].col
            /\ r = [present |-> r.present, col |-> r.col, facets |-> r.facets]
        OBVIOUS
      <3> HIDE DEF r
      <3> QED
        BY <1>2, <3>1, <3>4, <3>5
    <2> QED
      BY <2>1, <2>2, <2>3, <2>4
  <1>4. PICK r : /\ entries' = [entries EXCEPT ![i] = r]
                 /\ r = [present |-> r.present, col |-> r.col, facets |-> r.facets]
                 /\ r.present \in BOOLEAN /\ r.col \in Columns(walk.kind)
                 /\ walk.kind = "invitation" /\ InPlay(i) => r.col = entries[i].col
    BY <1>3
  <1>5. entries'[i] = r /\ \A j \in RowIds \ {i} : entries'[j] = entries[j]
    BY <1>2, <1>4
  <1>6. entries' = [j \in RowIds |->
       [present |-> entries'[j].present, col |-> entries'[j].col, facets |-> entries'[j].facets]]
    <2>1. \A j \in RowIds :
            entries'[j] = [present |-> entries'[j].present, col |-> entries'[j].col,
                         facets |-> entries'[j].facets]
      <3> TAKE j \in RowIds
      <3>1. CASE j = i
        BY <1>4, <1>5, <3>1
      <3>2. CASE j # i
        BY <1>2, <1>5, <3>2
      <3> QED
        BY <3>1, <3>2
    <2>2. entries' = [j \in RowIds |-> entries'[j]]
      BY <1>2, <1>4
    <2> QED
      BY <2>1, <2>2
  <1> QED
    BY <1>1, <1>4, <1>5, <1>6 DEF RowChanges

\* Nothing that stays in place is moved by a change.
LEMMA ChangePreserves ==
  ASSUME ListInd, NEW i \in RowIds, RowChanges(i)
  PROVE  ListInd'
  <1>1. /\ changed' = Append(changed, i)
        /\ names' = names /\ exact' = exact /\ walk' = walk /\ shown' = shown
        /\ \A j \in RowIds \ {i} : entries'[j] = entries[j]
    BY DEF RowChanges
  <1>2. ListTypes /\ changed \in Seq(RowIds)
    BY DEF ListInd, ListTypes
  <1>3. /\ changed' \in Seq(RowIds) /\ changed' # <<>>
        /\ \A j : j \in Range(changed') <=> j \in Range(changed) \/ j = i
    <2>1. Len(changed) \in Nat /\ DOMAIN changed = 1..Len(changed)
      BY <1>2, LenProperties
    <2>2. /\ changed' \in Seq(RowIds) /\ changed' # <<>> /\ Len(changed') = Len(changed) + 1
          /\ \A n \in 1..Len(changed) : changed'[n] = changed[n]
          /\ changed'[Len(changed) + 1] = i
      BY <1>1, <1>2, AppendProperties
    <2>3. DOMAIN changed' = 1..(Len(changed) + 1)
      BY <2>2, LenProperties
    <2>4. \A n \in 1..(Len(changed) + 1) : n \in 1..Len(changed) \/ n = Len(changed) + 1
      BY <2>1
    <2>5. /\ \A n \in 1..Len(changed) : n \in 1..(Len(changed) + 1)
          /\ Len(changed) + 1 \in 1..(Len(changed) + 1)
      BY <2>1
    <2> QED
      BY <2>1, <2>2, <2>3, <2>4, <2>5 DEF Range
  <1>4. \A j \in RowIds : InPlay(j) => InPlay(j)'
    <2> SUFFICES ASSUME NEW j \in RowIds, InPlay(j)
                 PROVE  entries'[j].present \/ j \in Range(changed')
      BY DEF InPlay
    <2> QED
      BY <1>1, <1>3 DEF InPlay
  <1>5. \A j \in RowIds : InPlay(j)' => j = i \/ InPlay(j)
    <2> SUFFICES ASSUME NEW j \in RowIds, entries'[j].present \/ j \in Range(changed'), j # i
                 PROVE  InPlay(j)
      BY DEF InPlay
    <2> QED
      BY <1>1, <1>3 DEF InPlay
  <1>6. /\ \A j \in RowIds : j \in Stable' <=> j \in Stable /\ j # i
        /\ \A j \in RowIds : j \in Expected' <=> j \in Expected /\ j # i
    <2>1. \A j \in RowIds : j \in Stable' <=> j \in Stable /\ j # i
      <3> TAKE j \in RowIds
      <3>1. j \in Stable' <=> entries'[j].present /\ j \notin Range(changed')
        BY DEF Stable
      <3>2. CASE j = i
        BY <1>3, <3>1, <3>2
      <3>3. CASE j # i
        BY <1>1, <1>3, <3>1, <3>3 DEF Stable
      <3> QED
        BY <3>2, <3>3
    <2>2. \A j \in RowIds : j \in Expected' <=> j \in Expected /\ j # i
      <3> TAKE j \in RowIds
      <3>1. j \in Expected' <=>
              j \in Stable' /\ Documented(walk.params) \subseteq entries'[j].facets
        BY <1>1 DEF Expected
      <3>2. CASE j = i
        BY <2>1, <3>1, <3>2
      <3>3. CASE j # i
        BY <1>1, <2>1, <3>1, <3>3 DEF Expected
      <3> QED
        BY <3>2, <3>3
    <2> QED
      BY <2>1, <2>2
  <1>7. ListTypes'
    <2>1. /\ walk'.kind = walk.kind /\ walk'.params = walk.params
          /\ \A j \in RowIds : /\ entries'[j].present \in BOOLEAN
                               /\ InPlay(j)' => entries'[j].col \in Columns(walk'.kind)
      <3> SUFFICES ASSUME NEW j \in RowIds
                   PROVE  /\ entries'[j].present \in BOOLEAN
                          /\ InPlay(j)' => entries'[j].col \in Columns(walk.kind)
        BY <1>1
      <3>1. CASE j = i
        BY <3>1 DEF RowChanges
      <3>2. CASE j # i
        BY <1>1, <1>2, <1>5, <3>2 DEF ListTypes
      <3> QED
        BY <3>1, <3>2
    <2>2. \A j \in Range(shown') : InPlay(j)'
      <3>1. \A j \in Range(shown) : j \in RowIds /\ InPlay(j)
        BY <1>2, RangeOfSeq DEF ListTypes
      <3> QED
        BY <1>1, <1>4, <3>1
    <2>3. entries' = [j \in RowIds |->
            [present |-> entries'[j].present, col |-> entries'[j].col,
             facets |-> entries'[j].facets]]
      BY DEF RowChanges
    <2> QED
      BY <1>1, <1>2, <1>3, <2>1, <2>2, <2>3 DEF ListTypes
  <1>8. \A j \in Range(shown) : j \in RowIds /\ InPlay(j)
    BY <1>2, RangeOfSeq DEF ListTypes
  \* What stays in place keeps its column.
  <1>9. /\ \A j \in RowIds : j \in Placed' => j \in Placed
        /\ \A j \in Range(shown) : j \in Placed' => entries'[j].col = entries[j].col
        /\ \A j \in RowIds : j \in Expected' => entries'[j].col = entries[j].col
        /\ walk.kind = "invitation" => \A j \in Range(shown) : entries'[j].col = entries[j].col
    <2>1. \A j \in RowIds : j \in Expected' => entries'[j].col = entries[j].col
      BY <1>1, <1>6
    <2>2. CASE walk.kind = "invitation"
      <3>1. Placed = RowIds
        BY <2>2 DEF Placed
      <3>2. \A j \in Range(shown) : entries'[j].col = entries[j].col
        <4> TAKE j \in Range(shown)
        <4>1. CASE j = i
          BY <1>8, <2>2, <4>1 DEF RowChanges
        <4>2. CASE j # i
          BY <1>1, <1>8, <4>2
        <4> QED
          BY <4>1, <4>2
      <3> QED
        BY <2>1, <3>1, <3>2
    <2>3. CASE walk.kind # "invitation"
      <3>1. Placed = Stable /\ Placed' = Stable'
        BY <1>1, <2>3 DEF Placed
      <3> QED
        BY <1>1, <1>6, <1>8, <2>1, <2>3, <3>1
    <2> QED
      BY <2>2, <2>3
  <1>10. KeySound'
    <2> SUFFICES ASSUME walk.key # NoKey
                 PROVE  /\ walk.key \in KeysOf(walk.kind) /\ walk.key.id \in Range(shown)
                        /\ walk.key.exact = exact[walk.key.id]
                        /\ walk.kind = "invitation" => walk.key.col = entries'[walk.key.id].col
      BY <1>1 DEF KeySound
    <2>1. /\ walk.key \in KeysOf(walk.kind) /\ walk.key.id \in Range(shown)
          /\ walk.key.exact = exact[walk.key.id]
          /\ walk.kind = "invitation" => walk.key.col = entries[walk.key.id].col
      BY DEF ListInd, KeySound
    <2> QED
      BY <1>9, <2>1
  <1>11. SeekInd'
    <2> SUFFICES ASSUME ~walk.paged
                 PROVE  /\ walk.pc # "refused"
                        /\ walk.key = NoKey /\ Asks => walk.pc = "ask" /\ shown = <<>>
                        /\ Asks /\ walk.key # NoKey =>
                             \A j \in Range(shown) \cap Placed' :
                               ~KeyBefore(walk.kind, names, walk.key, Payload(j)')
                        /\ \A m, n \in DOMAIN shown :
                             m < n /\ {shown[m], shown[n]} \subseteq Placed' =>
                               KeyBefore(walk.kind, names, Payload(shown[m])', Payload(shown[n])')
                        /\ \A j \in Range(shown) \cap Stable' : j \in Expected'
                        /\ ~walk.cut =>
                             \A j \in Expected' : j \in Range(shown) \/
                               (Asks /\ (walk.key = NoKey
                                         \/ KeyBefore(walk.kind, names, walk.key, Payload(j)')))
      BY <1>1 DEF SeekInd, Precedes, Asks, Payload
    <2>1. /\ walk.pc # "refused"
          /\ walk.key = NoKey /\ Asks => walk.pc = "ask" /\ shown = <<>>
          /\ Asks /\ walk.key # NoKey =>
               \A j \in Range(shown) \cap Placed :
                 ~KeyBefore(walk.kind, names, walk.key, Payload(j))
          /\ \A m, n \in DOMAIN shown :
               m < n /\ {shown[m], shown[n]} \subseteq Placed =>
                 KeyBefore(walk.kind, names, Payload(shown[m]), Payload(shown[n]))
          /\ \A j \in Range(shown) \cap Stable : j \in Expected
          /\ ~walk.cut =>
               \A j \in Expected : j \in Range(shown) \/
                 (Asks /\ (walk.key = NoKey
                           \/ KeyBefore(walk.kind, names, walk.key, Payload(j))))
      BY DEF ListInd, SeekInd, Precedes
    <2>2. \A j \in RowIds : entries'[j].col = entries[j].col => Payload(j)' = Payload(j)
      BY <1>1 DEF Payload
    <2>3. /\ \A j \in Range(shown) : j \in Placed' => Payload(j)' = Payload(j) /\ j \in Placed
          /\ \A j \in Expected' : j \in Expected /\ Payload(j)' = Payload(j)
      <3>1. \A j \in Expected' : j \in RowIds
        BY DEF Expected, Stable
      <3> QED
        BY <1>6, <1>8, <1>9, <2>2, <3>1
    <2>4. \A m \in DOMAIN shown : shown[m] \in Range(shown)
      BY DEF Range
    <2>5. \A m \in DOMAIN shown : shown[m] \in Placed' =>
            Payload(shown[m])' = Payload(shown[m]) /\ shown[m] \in Placed
      <3>1. shown' = shown
        BY <1>1
      <3> QED
        BY <1>1, <1>8, <1>9, <2>4 DEF Payload
    <2>6. \A m, n \in DOMAIN shown :
            m < n /\ {shown[m], shown[n]} \subseteq Placed' =>
              KeyBefore(walk.kind, names, Payload(shown[m])', Payload(shown[n])')
      BY <2>1, <2>5
    <2>7. \A j \in Range(shown) \cap Stable' : j \in Expected'
      <3>1. \A j \in Stable' : j \in RowIds
        BY DEF Stable
      <3> QED
        BY <1>6, <2>1, <3>1
    <2> QED
      BY <2>1, <2>3, <2>6, <2>7
  <1>12. InvitationInd' /\ CutInd' /\ NumberInd' /\ TotalInd'
    BY <1>1, <1>3 DEF ListInd, InvitationInd, CutInd, NumberInd, TotalInd
  <1> QED
    BY <1>7, <1>10, <1>11, <1>12 DEF ListInd

-----------------------------------------------------------------------------
(* The theorem.                                                            *)

\* Nothing was shown yet.
LEMMA InitListInd == ListInit => ListInd
  <1> SUFFICES ASSUME ListInit PROVE ListInd
    OBVIOUS
  <1>1. PICK kind \in Kinds, per \in PerPage, paged \in BOOLEAN, params \in ParamSets :
          /\ paged => kind \in Searches \cup OffsetOnly
          /\ kind \in OffsetOnly => paged
          /\ kind # "name" => params = {"keyword"}
          /\ walk = [kind |-> kind, per |-> per, params |-> params, paged |-> paged,
               page |-> 1, key |-> NoKey, pc |-> "ask", total |-> 0, last |-> <<>>, cut |-> FALSE]
          /\ names \in {f \in [RowIds -> RowIds] : IsInjective(f)}
          /\ kind \notin ByName \/ params # {"keyword"} => names = [i \in RowIds |-> i]
          /\ exact \in {[i \in RowIds |-> i = e] : e \in RowIds \cup {0}}
          /\ kind \notin {"query", "relevance"} => exact = [i \in RowIds |-> FALSE]
          /\ \E cols \in [RowIds -> Columns(kind)], facets \in [RowIds -> Facets(params)] :
               entries = [i \in RowIds |-> IF i = Cardinality(RowIds) THEN NoRow
                          ELSE [present |-> TRUE, col |-> cols[i], facets |-> facets[i]]]
          /\ shown = <<>>
          /\ changed = <<>>
    BY DEF ListInit
  <1>2. PICK cols \in [RowIds -> Columns(kind)], facets \in [RowIds -> Facets(params)] :
          entries = [i \in RowIds |-> IF i = Cardinality(RowIds) THEN NoRow
                     ELSE [present |-> TRUE, col |-> cols[i], facets |-> facets[i]]]
    BY <1>1
  <1>3. /\ walk.kind = kind /\ walk.per = per /\ walk.paged = paged /\ walk.params = params
        /\ walk.page = 1 /\ walk.key = NoKey /\ walk.pc = "ask" /\ walk.total = 0
        /\ walk.last = <<>> /\ walk.cut = FALSE
        /\ walk = [kind |-> walk.kind, per |-> walk.per, params |-> walk.params,
             paged |-> walk.paged, page |-> walk.page, key |-> walk.key, pc |-> walk.pc,
             total |-> walk.total, last |-> walk.last, cut |-> walk.cut]
    BY <1>1
  <1>4. Range(<<>>) = {} /\ Len(<<>>) = 0 /\ <<>> \in Seq(RowIds)
    BY EmptySeq, LenProperties DEF Range
  <1>5. ListTypes
    <2>1. entries = [i \in RowIds |->
            [present |-> entries[i].present, col |-> entries[i].col, facets |-> entries[i].facets]]
      <3>1. \A i \in RowIds :
              entries[i] = [present |-> entries[i].present, col |-> entries[i].col,
                          facets |-> entries[i].facets]
        <4> TAKE i \in RowIds
        <4>1. CASE i = Cardinality(RowIds)
          BY <1>2, <4>1 DEF NoRow
        <4>2. CASE i # Cardinality(RowIds)
          BY <1>2, <4>2
        <4> QED
          BY <4>1, <4>2
      <3>2. entries = [i \in RowIds |-> entries[i]]
        BY <1>2
      <3> QED
        BY <3>1, <3>2
    <2>2. \A i \in RowIds : /\ entries[i].present \in BOOLEAN
                            /\ InPlay(i) => entries[i].col \in Columns(walk.kind)
      <3> TAKE i \in RowIds
      <3>1. CASE i = Cardinality(RowIds)
        <4>1. entries[i].present = FALSE
          BY <1>2, <3>1 DEF NoRow
        <4> QED
          BY <1>1, <1>4, <4>1 DEF InPlay
      <3>2. CASE i # Cardinality(RowIds)
        <4>1. entries[i] = [present |-> TRUE, col |-> cols[i], facets |-> facets[i]]
          BY <1>2, <3>2
        <4>2. entries[i].present = TRUE /\ entries[i].col = cols[i] /\ cols[i] \in Columns(kind)
          BY <4>1
        <4> QED
          BY <1>3, <4>2
      <3> QED
        BY <3>1, <3>2
    <2>3. names \in [RowIds -> RowIds] /\ \A i, j \in RowIds : names[i] = names[j] => i = j
      BY <1>1 DEF IsInjective
    <2>4. exact \in [RowIds -> BOOLEAN] /\ \A i, j \in RowIds : exact[i] /\ exact[j] => i = j
      <3>1. PICK e \in RowIds \cup {0} : exact = [i \in RowIds |-> i = e]
        BY <1>1
      <3>2. exact \in [RowIds -> BOOLEAN]
        BY <3>1
      <3>3. \A i \in RowIds : exact[i] => i = e
        BY <3>1
      <3> QED
        BY <3>2, <3>3
    <2>5. walk.kind \notin {"query", "relevance"} => \A i \in RowIds : ~exact[i]
      BY <1>1, <1>3
    <2>6. walk.per \in Nat /\ walk.page \in Nat \ {0} /\ Len(walk.last) <= walk.per
          /\ walk.last \in Seq(RowIds)
      BY <1>3, <1>4, ListingAssumption
    <2> QED
      BY <1>1, <1>3, <1>4, <2>1, <2>2, <2>3, <2>4, <2>5, <2>6 DEF ListTypes
  <1>6. KeySound /\ InvitationInd /\ CutInd /\ TotalInd
    BY <1>1, <1>3 DEF KeySound, InvitationInd, CutInd, TotalInd, CountOfPage
  <1>7. SeekInd
    <2>1. DOMAIN shown = {}
      BY <1>1, <1>4, LenProperties
    <2> QED
      BY <1>1, <1>3, <1>4, <2>1 DEF SeekInd, Asks
  <1>8. NumberInd
    <2>1. Offset(walk.page, walk.per) = 0
      <3>1. \A q \in Nat : (1 - 1) * q = 0
        OBVIOUS
      <3>2. walk.per \in Nat
        BY <1>3, ListingAssumption
      <3> QED
        BY <1>3, <3>1, <3>2 DEF Offset
    <2>2. 0 <= Cardinality(Listed)
      BY ListedRows
    <2>3. \A s : SubSeq(s, 1, 0) = <<>>
      BY SubSeqEmpty
    <2> QED
      BY <1>1, <1>3, <1>4, <2>1, <2>2, <2>3 DEF NumberInd, Asks
  <1> QED
    BY <1>5, <1>6, <1>7, <1>8 DEF ListInd

\* The invariant is inductive.
LEMMA StepListInd == ListInd /\ [ListNext]_listVars => ListInd'
  <1> SUFFICES ASSUME ListInd, [ListNext]_listVars PROVE ListInd'
    OBVIOUS
  <1>1. CASE LoadSeekPage
    BY <1>1, SeekPageTypes, SeekPagePreserves, SeekPageCounts DEF ListInd
  <1>2. CASE LoadNumberedPage
    BY <1>2, NumberedPagePreserves
  <1>3. CASE PageRefused
    BY <1>3, PageRefusedPreserves
  <1>4. CASE FinishPage
    BY <1>4, FinishPagePreserves
  <1>5. CASE InvitationsFail
    BY <1>5, InvitationsFailPreserves
  <1>6. ASSUME NEW i \in RowIds,
               InsertRow(i) \/ DeleteRow(i) \/ MoveRow(i) \/ RefilterRow(i)
        PROVE  ListInd'
    <2>1. RowChanges(i)
      BY <1>6, ChangesOfRow DEF ListInd
    <2> QED
      BY <2>1, ChangePreserves
  <1>7. CASE UNCHANGED listVars
    <2>1. UNCHANGED <<entries, names, exact, walk, shown, changed>>
      BY <1>7 DEF listVars
    <2>2. ListTypes'
      BY <2>1 DEF ListInd, ListTypes, InPlay
    <2>3. /\ Listed' = Listed /\ Stable' = Stable /\ Expected' = Expected /\ Placed' = Placed
          /\ \A S : Sorted(S)' = Sorted(S)
      BY <2>1, RowsKept
    <2>4. KeySound' /\ InvitationInd' /\ CutInd'
      BY <2>1 DEF ListInd, KeySound, InvitationInd, CutInd
    <2>5. SeekInd'
      BY <2>1, <2>3 DEF ListInd, SeekInd, Asks, Precedes, Payload
    <2>6. NumberInd' /\ TotalInd'
      BY <2>1, <2>3 DEF ListInd, NumberInd, TotalInd, CountOfPage, Asks
    <2> QED
      BY <2>2, <2>4, <2>5, <2>6 DEF ListInd
  <1> QED
    BY <1>1, <1>2, <1>3, <1>4, <1>5, <1>6, <1>7 DEF ListNext

\* It says what the run checks.
LEMMA ListIndImpliesInv == ListInd => ListInv
  <1> SUFFICES ASSUME ListInd PROVE ListInv
    OBVIOUS
  <1>1. ListTypes
    BY DEF ListInd
  <1>2. /\ shown \in Seq(RowIds) /\ DOMAIN shown = 1..Len(shown) /\ Len(shown) \in Nat
        /\ Range(shown) \subseteq RowIds /\ Range(changed) \subseteq RowIds
    BY <1>1, LenProperties, RangeOfSeq DEF ListTypes
  <1>3. Range(<<>>) = {}
    BY EmptySeq, LenProperties DEF Range
  <1>4. changed = <<>> => Listed = Expected
    <2> SUFFICES ASSUME changed = <<>> PROVE Listed = Expected
      OBVIOUS
    <2>1. \A i \in Listed : i \in Stable
      BY <1>3, ListedRows DEF Stable
    <2> QED
      BY <2>1, ListedRows
  <1>5. ListTypeOK
    <2>1. walk.key.id \in RowIds \cup {0}
      BY <1>1, SeekKey DEF ListInd, NoKey
    <2> QED
      BY <1>1, <1>2, <2>1 DEF ListTypeOK, ListTypes
  <1>6. SeekMissesNothing
    BY DEF SeekMissesNothing, ListInd, SeekInd, Asks
  <1>7. SeekRepeatsNothing
    <2> SUFFICES ASSUME ~walk.paged, NEW m \in DOMAIN shown, NEW n \in DOMAIN shown, m < n,
                        {shown[m], shown[n]} \subseteq Stable
                 PROVE  Before(walk.kind, shown[m], shown[n])
      BY DEF SeekRepeatsNothing
    <2>1. shown[m] \in Placed /\ shown[n] \in Placed
      BY ListedRows
    <2>2. Precedes(Payload(shown[m]), Payload(shown[n]))
      BY <2>1 DEF ListInd, SeekInd
    <2>3. /\ shown[m] \in RowIds /\ InPlay(shown[m])
          /\ shown[n] \in RowIds /\ InPlay(shown[n])
      BY ListedRows
    <2> QED
      BY <1>1, <2>2, <2>3, BeforeByKeys
  <1>8. NumbersExact
    <2> SUFFICES ASSUME walk.pc = "end", walk.paged, changed = <<>>,
                        walk.kind \notin {"counts", "followed"}
                 PROVE  shown \in Sorted(Expected)
      BY DEF NumbersExact
    <2>1. shown \in Sorted(Listed)
      BY DEF ListInd, NumberInd
    <2> QED
      BY <1>4, <2>1
  <1>9. TotalShown
    <2> SUFFICES ASSUME walk.pc = "end", changed = <<>>, walk.kind # "invitation"
                 PROVE  walk.total = IF walk.last = <<>> /\ walk.kind # "id" THEN 0 ELSE Len(shown)
      BY DEF TotalShown
    <2>1. Len(shown) = Cardinality(Listed)
      <3>1. CASE walk.paged
        BY <3>1 DEF ListInd, NumberInd
      <3>2. CASE ~walk.paged
        BY <3>2, AllShown DEF Asks
      <3> QED
        BY <3>1, <3>2
    <2>2. walk.kind \in Searches \cup {"semver", "date", "id"} \cup OffsetOnly
      BY <1>1, ListingAssumption DEF ListTypes
    <2> QED
      BY <2>1, <2>2 DEF ListInd, TotalInd, CountOfPage, Searches, OffsetOnly
  <1> QED
    BY <1>5, <1>6, <1>7, <1>8, <1>9 DEF ListInv

\* Paging: following the links of a listing shows every row that was there all along, once
\* and in order, for each filter and sort order, however many rows there are and however
\* they change - unless the crate that a link by name refers to is deleted; while nothing
\* changes pages by number are exact, and so is the last total, if its page has rows
\* (next_seek_params, next_page_params and the seek conditions of the endpoints).
THEOREM PagesAreComplete == ListSpec => []ListInv
  <1>1. ListSpec => []ListInd
    BY InitListInd, StepListInd, PTL DEF ListSpec
  <1> QED
    BY <1>1, ListIndImpliesInv, PTL
=============================================================================
