--------------------------- MODULE JobQueueProofs ---------------------------
(***************************************************************************)
(* Proofs about JobQueue, for every number of workers, clients, kinds and  *)
(* rows: its state is well-typed, the row locks exclude concurrent runs,   *)
(* and no wake-up is lost.  And about IndexSync, which adds the index jobs *)
(* to the queue.                                                           *)
(***************************************************************************)
EXTENDS IndexSync, TLAPS

USE DEF Ids

\* Capping keeps naturals natural.
LEMMA AtMostNat ==
  ASSUME NEW n \in Nat, NEW cap \in Nat
  PROVE  AtMost(n, cap) \in Nat
BY DEF AtMost

\* The initial state is well-typed.
LEMMA InitTypeOK == Init => TypeOK
BY BoundsAssumption, KindsAssumption DEF Init, TypeOK, Steps

\* A worker that has a session and runs a job runs one of the table's ids.
JobOfRun ==
  \A w \in Workers : pc[w] \in Running => job[w] \in Ids

\* Every step keeps the types, and runs keep to ids of the table.
LEMMA NextTypeOK == TypeOK /\ JobOfRun /\ [Next]_vars => TypeOK' /\ JobOfRun'
<1> SUFFICES ASSUME TypeOK, JobOfRun, [Next]_vars
             PROVE  TypeOK' /\ JobOfRun'
  OBVIOUS
<1> USE BoundsAssumption, KindsAssumption, HoldersAssumption
    DEF TypeOK, JobOfRun, Steps, Running, rowVars, workerVars, clientVars
<1>1. ASSUME NEW c \in Clients, NEW K \in SUBSET Kinds, Change(c, K)
      PROVE  TypeOK' /\ JobOfRun'
  BY <1>1 DEF Change
<1>2. ASSUME NEW c \in Clients, NEW k \in Kinds, EnqueueSimple(c, k)
      PROVE  TypeOK' /\ JobOfRun'
  BY <1>2 DEF EnqueueSimple, Insert
<1>3. ASSUME NEW c \in Clients, NEW k \in Kinds, EnqueueDeduplicated(c, k)
      PROVE  TypeOK' /\ JobOfRun'
  <2>1. CASE Insert(c, k)
    BY <1>3, <2>1 DEF EnqueueDeduplicated, Insert
  <2>2. ASSUME NEW i \in Ids, LockSimilar(c, i),
               UNCHANGED <<state, kind, retries, age, nextId>>
        PROVE  TypeOK' /\ JobOfRun'
    BY <1>3, <2>2 DEF EnqueueDeduplicated, LockSimilar
  <2> QED
    BY <1>3, <2>1, <2>2 DEF EnqueueDeduplicated, Similar
<1>4. ASSUME NEW c \in Clients, Commit(c)
      PROVE  TypeOK' /\ JobOfRun'
  BY <1>4 DEF Commit, EndTransaction
<1>5. ASSUME NEW c \in Clients, Rollback(c)
      PROVE  TypeOK' /\ JobOfRun'
  BY <1>5 DEF Rollback, EndTransaction
<1>6. ASSUME NEW w \in Workers, NEW i \in Ids, StartJob(w, i)
      PROVE  TypeOK' /\ JobOfRun'
  BY <1>6 DEF StartJob
<1>7. ASSUME NEW w \in Workers, ShutDown(w)
      PROVE  TypeOK' /\ JobOfRun'
  BY <1>7 DEF ShutDown
<1>8. ASSUME NEW w \in Workers, ReadInput(w)
      PROVE  TypeOK' /\ JobOfRun'
  BY <1>8 DEF ReadInput
<1>9. ASSUME NEW w \in Workers, BodyOk(w)
      PROVE  TypeOK' /\ JobOfRun'
  BY <1>9 DEF BodyOk
<1>10. ASSUME NEW w \in Workers, BodyErr(w)
       PROVE  TypeOK' /\ JobOfRun'
  BY <1>10 DEF BodyErr
<1>11. ASSUME NEW w \in Workers, DeleteSuccessfulJob(w)
       PROVE  TypeOK' /\ JobOfRun'
  BY <1>11 DEF DeleteSuccessfulJob, RunSucceeded, Unlock, Finish
<1>12. ASSUME NEW w \in Workers, UpdateFailedJob(w)
       PROVE  TypeOK' /\ JobOfRun'
  <2>1. retries[job[w]] + 1 \in Nat
    BY <1>12 DEF UpdateFailedJob
  <2>2. AtMost(retries[job[w]] + 1, MaxRetries) \in Nat
    BY <2>1, AtMostNat
  <2> QED
    BY <1>12, <2>2 DEF UpdateFailedJob, BumpRetries, Unlock, Finish
<1>13. ASSUME NEW w \in Workers, Abort(w)
       PROVE  TypeOK' /\ JobOfRun'
  BY <1>13 DEF Abort, Unlock, Finish
<1>14. ASSUME NEW w \in Workers, LoseConnection(w)
       PROVE  TypeOK' /\ JobOfRun'
  BY <1>14 DEF LoseConnection, Unlock
<1>15. ASSUME NEW w \in Workers, NoticeLoss(w)
       PROVE  TypeOK' /\ JobOfRun'
  BY <1>15 DEF NoticeLoss, Finish
<1>16. CASE Tick
  <2>1. \A i \in Ids : age[i] + 1 \in Nat
    OBVIOUS
  <2>2. \A i \in Ids : AtMost(age[i] + 1, AgeCap) \in Nat
    BY <2>1, AtMostNat
  <2>3. age' \in [Ids -> Nat]
    BY <1>16, <2>2 DEF Tick
  <2>4. elapsed' \in [Workers -> Nat]
    BY <1>16 DEF Tick
  <2> QED
    BY <1>16, <2>3, <2>4 DEF Tick
<1>17. CASE UNCHANGED vars
  BY <1>17 DEF vars
<1> QED
  BY <1>1, <1>2, <1>3, <1>4, <1>5, <1>6, <1>7, <1>8, <1>9, <1>10, <1>11,
     <1>12, <1>13, <1>14, <1>15, <1>16, <1>17
  DEF Next, ClientNext, WorkerNext

\* Every state of the queue is well-typed: no handler leaves a row, a lock or a
\* worker in a state the code does not know.
THEOREM TypeCorrect == Spec => []TypeOK
<1>1. Init => TypeOK /\ JobOfRun
  BY InitTypeOK DEF Init, JobOfRun, Running
<1> QED
  BY <1>1, NextTypeOK, PTL DEF Spec

-----------------------------------------------------------------------------
(***************************************************************************)
(* The inductive invariant.  NoLostWakeup alone is not inductive: a commit *)
(* keeps it only because the transaction still holds the lock of a row of  *)
(* every kind it enqueued, and a deletion only because the worker that     *)
(* deletes a row is the one that has it locked.                            *)
(***************************************************************************)

\* A worker that runs a job, with its session alive, has the job's row locked.
RunHoldsLock ==
  \A w \in Workers : pc[w] \in Running /\ connected[w] => lock[job[w]] = w

\* A worker that has a row locked runs that row's job.
LockIsOfRun ==
  \A i \in Ids : \A w \in Workers :
    lock[i] = w => pc[w] \in Running /\ connected[w] /\ job[w] = i

\* Rows that are not committed are locked by the client that inserts them; rows
\* that do not exist are not locked; ids the sequence has not reached are free.
RowsMatch ==
  \A i \in Ids :
    /\ state[i] = "new" => lock[i] \in Clients
    /\ state[i] = "none" => lock[i] = Nobody
    /\ i >= nextId => state[i] = "none"

LocksMatch == RunHoldsLock /\ LockIsOfRun /\ RowsMatch

\* An open transaction has the lock of a row of every kind it has enqueued.
EnqueuedHeld ==
  \A c \in Clients : \A k \in enqueued[c] :
    \E i \in Ids : lock[i] = c /\ kind[i] = k

\* A run that has not read its input yet has missed nothing.
FreshStart == \A w \in Workers : pc[w] = "started" => ~missed[w]

IndInv ==
  TypeOK /\ JobOfRun /\ LocksMatch /\ EnqueuedHeld /\ FreshStart /\ NoLostWakeup

\* Every step keeps locks and runs in agreement.
LEMMA NextLocksMatch == IndInv /\ [Next]_vars => LocksMatch'
<1> SUFFICES ASSUME IndInv, [Next]_vars
             PROVE  LocksMatch'
  OBVIOUS
<1>a. TypeOK /\ JobOfRun /\ RunHoldsLock /\ LockIsOfRun /\ RowsMatch
  BY DEF IndInv, LocksMatch
<1> USE <1>a, BoundsAssumption, HoldersAssumption
    DEF TypeOK, JobOfRun, Running, rowVars, workerVars, clientVars
<1>1. ASSUME NEW c \in Clients, NEW K \in SUBSET Kinds, Change(c, K)
      PROVE  LocksMatch'
  <2>1. RunHoldsLock'
    BY <1>1 DEF Change, RunHoldsLock, LockIsOfRun
  <2>2. LockIsOfRun'
    BY <1>1 DEF Change, RunHoldsLock, LockIsOfRun
  <2>3. RowsMatch'
    BY <1>1 DEF Change, RunHoldsLock, RowsMatch
  <2> QED
    BY <2>1, <2>2, <2>3 DEF LocksMatch
<1>2. ASSUME NEW c \in Clients, NEW k \in Kinds, EnqueueSimple(c, k)
      PROVE  LocksMatch'
  <2>1. RunHoldsLock'
    BY <1>2 DEF EnqueueSimple, Insert, RunHoldsLock, RowsMatch
  <2>2. LockIsOfRun'
    BY <1>2 DEF EnqueueSimple, Insert, RunHoldsLock, LockIsOfRun
  <2>3. RowsMatch'
    BY <1>2 DEF EnqueueSimple, Insert, RunHoldsLock, RowsMatch
  <2> QED
    BY <2>1, <2>2, <2>3 DEF LocksMatch
<1>3. ASSUME NEW c \in Clients, NEW k \in Kinds, EnqueueDeduplicated(c, k)
      PROVE  LocksMatch'
  <2>1. CASE Insert(c, k)
    <3>1. RunHoldsLock'
      BY <1>3, <2>1 DEF EnqueueDeduplicated, Insert, RunHoldsLock, RowsMatch
    <3>2. LockIsOfRun'
      BY <1>3, <2>1 DEF EnqueueDeduplicated, Insert, RunHoldsLock, LockIsOfRun
    <3>3. RowsMatch'
      BY <1>3, <2>1 DEF EnqueueDeduplicated, Insert, RunHoldsLock, RowsMatch
    <3> QED
      BY <3>1, <3>2, <3>3 DEF LocksMatch
  <2>2. ASSUME NEW i \in Similar(c, k), LockSimilar(c, i),
               UNCHANGED <<state, kind, retries, age, nextId>>
        PROVE  LocksMatch'
    <3>1. RunHoldsLock'
      BY <1>3, <2>2 DEF EnqueueDeduplicated, Similar, LockSimilar, RunHoldsLock, LockIsOfRun
    <3>2. LockIsOfRun'
      BY <1>3, <2>2 DEF EnqueueDeduplicated, Similar, LockSimilar, RunHoldsLock, LockIsOfRun
    <3>3. RowsMatch'
      BY <1>3, <2>2 DEF EnqueueDeduplicated, Similar, LockSimilar, RunHoldsLock, RowsMatch
    <3> QED
      BY <3>1, <3>2, <3>3 DEF LocksMatch
  <2> QED
    BY <1>3, <2>1, <2>2 DEF EnqueueDeduplicated
<1>4. ASSUME NEW c \in Clients, Commit(c)
      PROVE  LocksMatch'
  <2>1. RunHoldsLock'
    BY <1>4 DEF Commit, EndTransaction, Inserted, RunHoldsLock, LockIsOfRun
  <2>2. LockIsOfRun'
    BY <1>4 DEF Commit, EndTransaction, Inserted, RunHoldsLock, LockIsOfRun
  <2>3. RowsMatch'
    BY <1>4 DEF Commit, EndTransaction, Inserted, RunHoldsLock, RowsMatch
  <2> QED
    BY <2>1, <2>2, <2>3 DEF LocksMatch
<1>5. ASSUME NEW c \in Clients, Rollback(c)
      PROVE  LocksMatch'
  <2>1. RunHoldsLock'
    BY <1>5 DEF Rollback, EndTransaction, Inserted, RunHoldsLock, LockIsOfRun
  <2>2. LockIsOfRun'
    BY <1>5 DEF Rollback, EndTransaction, Inserted, RunHoldsLock, LockIsOfRun
  <2>3. RowsMatch'
    BY <1>5 DEF Rollback, EndTransaction, Inserted, RunHoldsLock, RowsMatch
  <2> QED
    BY <2>1, <2>2, <2>3 DEF LocksMatch
<1>6. ASSUME NEW w \in Workers, NEW i \in Ids, StartJob(w, i)
      PROVE  LocksMatch'
  <2>1. RunHoldsLock'
    BY <1>6 DEF StartJob, Ready, RunHoldsLock, LockIsOfRun
  <2>2. ASSUME NEW j \in Ids, NEW v \in Workers, lock'[j] = v
        PROVE  pc'[v] \in Running /\ connected'[v] /\ job'[v] = j
    <3>1. CASE j = i
      BY <1>6, <2>2, <3>1 DEF StartJob, Ready
    <3>2. CASE j # i
      <4>1. lock[j] = v /\ pc[v] \in Running /\ connected[v] /\ job[v] = j
        BY <1>6, <2>2, <3>2 DEF StartJob, LockIsOfRun
      <4>2. v # w
        BY <1>6, <4>1 DEF StartJob
      <4> QED
        BY <1>6, <4>1, <4>2 DEF StartJob
    <3> QED
      BY <3>1, <3>2
  <2>3. RowsMatch'
    BY <1>6 DEF StartJob, Ready, RunHoldsLock, RowsMatch
  <2> QED
    BY <2>1, <2>2, <2>3 DEF LocksMatch, LockIsOfRun
<1>7. ASSUME NEW w \in Workers, ShutDown(w)
      PROVE  LocksMatch'
  <2>1. RunHoldsLock'
    BY <1>7 DEF ShutDown, RunHoldsLock, LockIsOfRun
  <2>2. LockIsOfRun'
    BY <1>7 DEF ShutDown, RunHoldsLock, LockIsOfRun
  <2>3. RowsMatch'
    BY <1>7 DEF ShutDown, RunHoldsLock, RowsMatch
  <2> QED
    BY <2>1, <2>2, <2>3 DEF LocksMatch
<1>8. ASSUME NEW w \in Workers, ReadInput(w)
      PROVE  LocksMatch'
  <2>1. RunHoldsLock'
    BY <1>8 DEF ReadInput, RunHoldsLock, LockIsOfRun
  <2>2. LockIsOfRun'
    BY <1>8 DEF ReadInput, RunHoldsLock, LockIsOfRun
  <2>3. RowsMatch'
    BY <1>8 DEF ReadInput, RunHoldsLock, RowsMatch
  <2> QED
    BY <2>1, <2>2, <2>3 DEF LocksMatch
<1>9. ASSUME NEW w \in Workers, BodyOk(w)
      PROVE  LocksMatch'
  <2>1. RunHoldsLock'
    BY <1>9 DEF BodyOk, RunHoldsLock, LockIsOfRun
  <2>2. LockIsOfRun'
    BY <1>9 DEF BodyOk, RunHoldsLock, LockIsOfRun
  <2>3. RowsMatch'
    BY <1>9 DEF BodyOk, RunHoldsLock, RowsMatch
  <2> QED
    BY <2>1, <2>2, <2>3 DEF LocksMatch
<1>10. ASSUME NEW w \in Workers, BodyErr(w)
       PROVE  LocksMatch'
  <2>1. RunHoldsLock'
    BY <1>10 DEF BodyErr, RunHoldsLock, LockIsOfRun
  <2>2. LockIsOfRun'
    BY <1>10 DEF BodyErr, RunHoldsLock, LockIsOfRun
  <2>3. RowsMatch'
    BY <1>10 DEF BodyErr, RunHoldsLock, RowsMatch
  <2> QED
    BY <2>1, <2>2, <2>3 DEF LocksMatch
<1>11. ASSUME NEW w \in Workers, DeleteSuccessfulJob(w)
       PROVE  LocksMatch'
  <2>1. RunHoldsLock'
    BY <1>11 DEF DeleteSuccessfulJob, RunSucceeded, Unlock, Finish, RunHoldsLock, LockIsOfRun
  <2>2. LockIsOfRun'
    BY <1>11 DEF DeleteSuccessfulJob, RunSucceeded, Unlock, Finish, RunHoldsLock, LockIsOfRun
  <2>3. RowsMatch'
    BY <1>11 DEF DeleteSuccessfulJob, RunSucceeded, Unlock, Finish, RunHoldsLock, RowsMatch
  <2> QED
    BY <2>1, <2>2, <2>3 DEF LocksMatch
<1>12. ASSUME NEW w \in Workers, UpdateFailedJob(w)
       PROVE  LocksMatch'
  <2>1. RunHoldsLock'
    BY <1>12 DEF UpdateFailedJob, Unlock, Finish, RunHoldsLock, LockIsOfRun
  <2>2. LockIsOfRun'
    BY <1>12 DEF UpdateFailedJob, Unlock, Finish, RunHoldsLock, LockIsOfRun
  <2>3. RowsMatch'
    BY <1>12 DEF UpdateFailedJob, Unlock, Finish, RunHoldsLock, RowsMatch
  <2> QED
    BY <2>1, <2>2, <2>3 DEF LocksMatch
<1>13. ASSUME NEW w \in Workers, Abort(w)
       PROVE  LocksMatch'
  <2>1. RunHoldsLock'
    BY <1>13 DEF Abort, Unlock, Finish, RunHoldsLock, LockIsOfRun
  <2>2. LockIsOfRun'
    BY <1>13 DEF Abort, Unlock, Finish, RunHoldsLock, LockIsOfRun
  <2>3. RowsMatch'
    BY <1>13 DEF Abort, Unlock, Finish, RunHoldsLock, RowsMatch
  <2> QED
    BY <2>1, <2>2, <2>3 DEF LocksMatch
<1>14. ASSUME NEW w \in Workers, LoseConnection(w)
       PROVE  LocksMatch'
  <2>1. RunHoldsLock'
    BY <1>14 DEF LoseConnection, Unlock, RunHoldsLock, LockIsOfRun
  <2>2. LockIsOfRun'
    BY <1>14 DEF LoseConnection, Unlock, RunHoldsLock, LockIsOfRun
  <2>3. RowsMatch'
    BY <1>14 DEF LoseConnection, Unlock, RunHoldsLock, RowsMatch
  <2> QED
    BY <2>1, <2>2, <2>3 DEF LocksMatch
<1>15. ASSUME NEW w \in Workers, NoticeLoss(w)
       PROVE  LocksMatch'
  <2>1. RunHoldsLock'
    BY <1>15 DEF NoticeLoss, Finish, RunHoldsLock, LockIsOfRun
  <2>2. LockIsOfRun'
    BY <1>15 DEF NoticeLoss, Finish, RunHoldsLock, LockIsOfRun
  <2>3. RowsMatch'
    BY <1>15 DEF NoticeLoss, Finish, RunHoldsLock, RowsMatch
  <2> QED
    BY <2>1, <2>2, <2>3 DEF LocksMatch
<1>16. CASE Tick
  <2>1. RunHoldsLock'
    BY <1>16 DEF Tick, RunHoldsLock, LockIsOfRun
  <2>2. LockIsOfRun'
    BY <1>16 DEF Tick, RunHoldsLock, LockIsOfRun
  <2>3. RowsMatch'
    BY <1>16 DEF Tick, RunHoldsLock, RowsMatch
  <2> QED
    BY <2>1, <2>2, <2>3 DEF LocksMatch
<1>17. CASE UNCHANGED vars
  <2>1. RunHoldsLock'
    BY <1>17 DEF vars, RunHoldsLock, LockIsOfRun
  <2>2. LockIsOfRun'
    BY <1>17 DEF vars, RunHoldsLock, LockIsOfRun
  <2>3. RowsMatch'
    BY <1>17 DEF vars, RunHoldsLock, RowsMatch
  <2> QED
    BY <2>1, <2>2, <2>3 DEF LocksMatch
<1> QED
  BY <1>1, <1>2, <1>3, <1>4, <1>5, <1>6, <1>7, <1>8, <1>9, <1>10, <1>11,
     <1>12, <1>13, <1>14, <1>15, <1>16, <1>17
  DEF Next, ClientNext, WorkerNext

\* Every step keeps the rows of open transactions locked.
LEMMA NextEnqueuedHeld == IndInv /\ [Next]_vars => EnqueuedHeld'
<1> SUFFICES ASSUME IndInv, [Next]_vars
             PROVE  EnqueuedHeld'
  OBVIOUS
<1>a. TypeOK /\ JobOfRun /\ RunHoldsLock /\ RowsMatch /\ EnqueuedHeld
  BY DEF IndInv, LocksMatch
<1> USE <1>a, BoundsAssumption, HoldersAssumption
    DEF TypeOK, JobOfRun, RunHoldsLock, RowsMatch, EnqueuedHeld, Running,
        rowVars, workerVars, clientVars
<1>1. ASSUME NEW c \in Clients, NEW K \in SUBSET Kinds, Change(c, K)
      PROVE  EnqueuedHeld'
  BY <1>1 DEF Change
<1>2. ASSUME NEW c \in Clients, NEW k \in Kinds, EnqueueSimple(c, k)
      PROVE  EnqueuedHeld'
  BY <1>2 DEF EnqueueSimple, Insert
<1>3. ASSUME NEW c \in Clients, NEW k \in Kinds, EnqueueDeduplicated(c, k)
      PROVE  EnqueuedHeld'
  <2>1. CASE Insert(c, k)
    BY <1>3, <2>1 DEF EnqueueDeduplicated, Insert
  <2>2. ASSUME NEW i \in Similar(c, k), LockSimilar(c, i),
               UNCHANGED <<state, kind, retries, age, nextId>>
        PROVE  EnqueuedHeld'
    BY <1>3, <2>2 DEF EnqueueDeduplicated, Similar, LockSimilar
  <2> QED
    BY <1>3, <2>1, <2>2 DEF EnqueueDeduplicated
<1>4. ASSUME NEW c \in Clients, Commit(c)
      PROVE  EnqueuedHeld'
  BY <1>4 DEF Commit, EndTransaction, Inserted
<1>5. ASSUME NEW c \in Clients, Rollback(c)
      PROVE  EnqueuedHeld'
  BY <1>5 DEF Rollback, EndTransaction, Inserted
<1>6. ASSUME NEW w \in Workers, NEW i \in Ids, StartJob(w, i)
      PROVE  EnqueuedHeld'
  BY <1>6 DEF StartJob, Ready
<1>7. ASSUME NEW w \in Workers, ShutDown(w)
      PROVE  EnqueuedHeld'
  BY <1>7 DEF ShutDown
<1>8. ASSUME NEW w \in Workers, ReadInput(w)
      PROVE  EnqueuedHeld'
  BY <1>8 DEF ReadInput
<1>9. ASSUME NEW w \in Workers, BodyOk(w)
      PROVE  EnqueuedHeld'
  BY <1>9 DEF BodyOk
<1>10. ASSUME NEW w \in Workers, BodyErr(w)
       PROVE  EnqueuedHeld'
  BY <1>10 DEF BodyErr
<1>11. ASSUME NEW w \in Workers, DeleteSuccessfulJob(w)
       PROVE  EnqueuedHeld'
  BY <1>11 DEF DeleteSuccessfulJob, RunSucceeded, Unlock, Finish
<1>12. ASSUME NEW w \in Workers, UpdateFailedJob(w)
       PROVE  EnqueuedHeld'
  BY <1>12 DEF UpdateFailedJob, Unlock, Finish
<1>13. ASSUME NEW w \in Workers, Abort(w)
       PROVE  EnqueuedHeld'
  BY <1>13 DEF Abort, Unlock, Finish
<1>14. ASSUME NEW w \in Workers, LoseConnection(w)
       PROVE  EnqueuedHeld'
  BY <1>14 DEF LoseConnection, Unlock
<1>15. ASSUME NEW w \in Workers, NoticeLoss(w)
       PROVE  EnqueuedHeld'
  BY <1>15 DEF NoticeLoss, Finish
<1>16. CASE Tick
  BY <1>16 DEF Tick
<1>17. CASE UNCHANGED vars
  BY <1>17 DEF vars
<1> QED
  BY <1>1, <1>2, <1>3, <1>4, <1>5, <1>6, <1>7, <1>8, <1>9, <1>10, <1>11,
     <1>12, <1>13, <1>14, <1>15, <1>16, <1>17
  DEF Next, ClientNext, WorkerNext

\* A run that has not read its input has missed no change.
LEMMA NextFreshStart == IndInv /\ [Next]_vars => FreshStart'
<1> SUFFICES ASSUME IndInv, [Next]_vars
             PROVE  FreshStart'
  OBVIOUS
<1> USE DEF IndInv, TypeOK, FreshStart, Steps, rowVars, workerVars, clientVars
<1>1. ASSUME NEW c \in Clients, NEW K \in SUBSET Kinds, Change(c, K)
      PROVE  FreshStart'
  BY <1>1 DEF Change
<1>2. ASSUME NEW c \in Clients, NEW k \in Kinds, EnqueueSimple(c, k)
      PROVE  FreshStart'
  BY <1>2 DEF EnqueueSimple, Insert
<1>3. ASSUME NEW c \in Clients, NEW k \in Kinds, EnqueueDeduplicated(c, k)
      PROVE  FreshStart'
  BY <1>3 DEF EnqueueDeduplicated
<1>4. ASSUME NEW c \in Clients, Commit(c)
      PROVE  FreshStart'
  BY <1>4 DEF Commit, EndTransaction
<1>5. ASSUME NEW c \in Clients, Rollback(c)
      PROVE  FreshStart'
  BY <1>5 DEF Rollback, EndTransaction, Inserted
<1>6. ASSUME NEW w \in Workers, NEW i \in Ids, StartJob(w, i)
      PROVE  FreshStart'
  BY <1>6 DEF StartJob, Ready
<1>7. ASSUME NEW w \in Workers, ShutDown(w)
      PROVE  FreshStart'
  BY <1>7 DEF ShutDown
<1>8. ASSUME NEW w \in Workers, ReadInput(w)
      PROVE  FreshStart'
  BY <1>8 DEF ReadInput, FreshStart
<1>9. ASSUME NEW w \in Workers, BodyOk(w)
      PROVE  FreshStart'
  BY <1>9 DEF BodyOk
<1>10. ASSUME NEW w \in Workers, BodyErr(w)
       PROVE  FreshStart'
  BY <1>10 DEF BodyErr
<1>11. ASSUME NEW w \in Workers, DeleteSuccessfulJob(w)
       PROVE  FreshStart'
  BY <1>11 DEF DeleteSuccessfulJob, RunSucceeded, Unlock, Finish
<1>12. ASSUME NEW w \in Workers, UpdateFailedJob(w)
       PROVE  FreshStart'
  BY <1>12 DEF UpdateFailedJob, Unlock, Finish
<1>13. ASSUME NEW w \in Workers, Abort(w)
       PROVE  FreshStart'
  BY <1>13 DEF Abort, Unlock, Finish
<1>14. ASSUME NEW w \in Workers, LoseConnection(w)
       PROVE  FreshStart'
  BY <1>14 DEF LoseConnection, Unlock
<1>15. ASSUME NEW w \in Workers, NoticeLoss(w)
       PROVE  FreshStart'
  BY <1>15 DEF NoticeLoss, Finish
<1>16. CASE Tick
  BY <1>16 DEF Tick
<1>17. CASE UNCHANGED vars
  BY <1>17 DEF vars
<1> QED
  BY <1>1, <1>2, <1>3, <1>4, <1>5, <1>6, <1>7, <1>8, <1>9, <1>10, <1>11,
     <1>12, <1>13, <1>14, <1>15, <1>16, <1>17
  DEF Next, ClientNext, WorkerNext

\* Row i is a job whose run will read the changes of kind k.
Serves(i, k) == state[i] = "live" /\ kind[i] = k /\ ~ReadTooEarly(i)

\* The step leaves every row that serves a waiting change in its service.
ServedStays ==
  /\ unseen' \subseteq unseen
  /\ \A k \in unseen' : \A i \in Ids : Serves(i, k) => Serves(i, k)'

\* It is enough that rows that serve a change go on to serve it.
LEMMA ServedStaysSuffices == NoLostWakeup /\ ServedStays => NoLostWakeup'
BY DEF NoLostWakeup, ServedStays, Serves

\* A row is run too early after a step only if it was before, unless the step
\* changes its lock or what its worker has read.
LEMMA TooEarlyBefore ==
  ASSUME NEW j \in Ids,
         \A v \in Workers :
           lock'[j] = v /\ pc'[v] \in {"read", "ok"} /\ missed'[v] =>
             lock[j] = v /\ pc[v] \in {"read", "ok"} /\ missed[v]
  PROVE  ReadTooEarly(j)' => ReadTooEarly(j)
BY DEF ReadTooEarly

\* Every step but a commit leaves what serves a change in its service; a commit
\* adds changes, each with a row that its transaction had locked until then.
LEMMA NextNoLostWakeup == IndInv /\ [Next]_vars => NoLostWakeup'
<1> SUFFICES ASSUME IndInv, [Next]_vars
             PROVE  NoLostWakeup'
  OBVIOUS
<1>a. TypeOK /\ JobOfRun /\ RunHoldsLock /\ LockIsOfRun /\ RowsMatch
      /\ EnqueuedHeld /\ FreshStart /\ NoLostWakeup
  BY DEF IndInv, LocksMatch
<1> USE <1>a, BoundsAssumption, HoldersAssumption, ServedStaysSuffices
    DEF TypeOK, Running, rowVars, workerVars, clientVars
<1>1. ASSUME NEW c \in Clients, NEW K \in SUBSET Kinds, Change(c, K)
      PROVE  NoLostWakeup'
  <2>1. ServedStays
    BY <1>1 DEF ServedStays, Serves, ReadTooEarly, Change
  <2> QED
    BY <2>1
<1>2. ASSUME NEW c \in Clients, NEW k \in Kinds, EnqueueSimple(c, k)
      PROVE  NoLostWakeup'
  <2>1. ASSUME NEW x \in unseen', NEW j \in Ids, Serves(j, x)
        PROVE  Serves(j, x)'
    <3>1. state'[j] = "live" /\ kind'[j] = x
      BY <1>2, <2>1 DEF Serves, RowsMatch, EnqueueSimple, Insert
    <3>2. ASSUME NEW v \in Workers, lock'[j] = v,
                 pc'[v] \in {"read", "ok"}, missed'[v]
          PROVE  lock[j] = v /\ pc[v] \in {"read", "ok"} /\ missed[v]
      BY <1>2, <2>1, <3>2 DEF EnqueueSimple, Insert
    <3>3. ~ReadTooEarly(j)'
      BY <2>1, <3>2, TooEarlyBefore DEF Serves
    <3> QED
      BY <3>1, <3>3 DEF Serves
  <2>2. unseen' \subseteq unseen
    BY <1>2 DEF EnqueueSimple, Insert
  <2> QED
    BY <2>1, <2>2 DEF ServedStays
<1>3. ASSUME NEW c \in Clients, NEW k \in Kinds, EnqueueDeduplicated(c, k)
      PROVE  NoLostWakeup'
  <2>1. CASE Insert(c, k)
    <3>1. ASSUME NEW x \in unseen', NEW j \in Ids, Serves(j, x)
          PROVE  Serves(j, x)'
      <4>1. state'[j] = "live" /\ kind'[j] = x
        BY <1>3, <2>1, <3>1 DEF Serves, RowsMatch, EnqueueDeduplicated, Insert
      <4>2. ASSUME NEW v \in Workers, lock'[j] = v,
                   pc'[v] \in {"read", "ok"}, missed'[v]
            PROVE  lock[j] = v /\ pc[v] \in {"read", "ok"} /\ missed[v]
        BY <1>3, <2>1, <3>1, <4>2 DEF EnqueueDeduplicated, Insert
      <4>3. ~ReadTooEarly(j)'
        BY <3>1, <4>2, TooEarlyBefore DEF Serves
      <4> QED
        BY <4>1, <4>3 DEF Serves
    <3>2. unseen' \subseteq unseen
      BY <1>3, <2>1 DEF EnqueueDeduplicated, Insert
    <3> QED
      BY <3>1, <3>2 DEF ServedStays
  <2>2. ASSUME NEW i \in Similar(c, k), LockSimilar(c, i),
               UNCHANGED <<state, kind, retries, age, nextId>>
        PROVE  NoLostWakeup'
    <3>1. ASSUME NEW x \in unseen', NEW j \in Ids, Serves(j, x)
          PROVE  Serves(j, x)'
      <4>1. state'[j] = "live" /\ kind'[j] = x
        BY <1>3, <2>2, <3>1 DEF Serves, EnqueueDeduplicated, Similar, LockSimilar
      <4>2. ASSUME NEW v \in Workers, lock'[j] = v,
                   pc'[v] \in {"read", "ok"}, missed'[v]
            PROVE  lock[j] = v /\ pc[v] \in {"read", "ok"} /\ missed[v]
        BY <1>3, <2>2, <3>1, <4>2 DEF EnqueueDeduplicated, Similar, LockSimilar
      <4>3. ~ReadTooEarly(j)'
        BY <3>1, <4>2, TooEarlyBefore DEF Serves
      <4> QED
        BY <4>1, <4>3 DEF Serves
    <3>2. unseen' \subseteq unseen
      BY <1>3, <2>2 DEF EnqueueDeduplicated, Similar, LockSimilar
    <3> QED
      BY <3>1, <3>2 DEF ServedStays
  <2> QED
    BY <1>3, <2>1, <2>2 DEF EnqueueDeduplicated
<1>4. ASSUME NEW c \in Clients, Commit(c)
      PROVE  NoLostWakeup'
  <2> SUFFICES ASSUME NEW k \in unseen'
               PROVE  \E i \in Ids : Serves(i, k)'
    BY DEF NoLostWakeup, Serves
  <2>1. CASE k \in changed[c]
    <3>1. PICK i \in Ids : lock[i] = c /\ kind[i] = k
      BY <1>4, <2>1 DEF Commit, EnqueuedHeld
    <3>2. state'[i] = "live" /\ kind'[i] = k
      BY <1>4, <3>1 DEF Commit, EndTransaction, Inserted, RowsMatch
    <3>3. lock'[i] = Nobody
      BY <1>4, <3>1 DEF Commit, EndTransaction
    <3> QED
      BY <3>2, <3>3 DEF Serves, ReadTooEarly
  <2>2. CASE k \notin changed[c]
    <3>1. PICK i \in Ids : Serves(i, k)
      BY <1>4, <2>2 DEF Commit, NoLostWakeup, Serves
    <3>2. state'[i] = "live" /\ kind'[i] = k
      BY <1>4, <3>1 DEF Commit, EndTransaction, Inserted, Serves
    <3>3. ~ReadTooEarly(i)'
      BY <1>4, <2>2, <3>1 DEF Commit, EndTransaction, Serves, ReadTooEarly, LockIsOfRun
    <3> QED
      BY <3>2, <3>3 DEF Serves
  <2> QED
    BY <2>1, <2>2
<1>5. ASSUME NEW c \in Clients, Rollback(c)
      PROVE  NoLostWakeup'
  <2>1. ServedStays
    BY <1>5 DEF ServedStays, Serves, ReadTooEarly, Rollback, EndTransaction, Inserted
  <2> QED
    BY <2>1
<1>6. ASSUME NEW w \in Workers, NEW i \in Ids, StartJob(w, i)
      PROVE  NoLostWakeup'
  <2>1. ServedStays
    BY <1>6 DEF ServedStays, Serves, ReadTooEarly, StartJob, Ready
  <2> QED
    BY <2>1
<1>7. ASSUME NEW w \in Workers, ShutDown(w)
      PROVE  NoLostWakeup'
  <2>1. ServedStays
    BY <1>7 DEF ServedStays, Serves, ReadTooEarly, ShutDown
  <2> QED
    BY <2>1
<1>8. ASSUME NEW w \in Workers, ReadInput(w)
      PROVE  NoLostWakeup'
  <2>1. ServedStays
    BY <1>8 DEF ServedStays, Serves, ReadTooEarly, ReadInput, FreshStart
  <2> QED
    BY <2>1
<1>9. ASSUME NEW w \in Workers, BodyOk(w)
      PROVE  NoLostWakeup'
  <2>1. ServedStays
    BY <1>9 DEF ServedStays, Serves, ReadTooEarly, BodyOk
  <2> QED
    BY <2>1
<1>10. ASSUME NEW w \in Workers, BodyErr(w)
       PROVE  NoLostWakeup'
  <2>1. ServedStays
    BY <1>10 DEF ServedStays, Serves, ReadTooEarly, BodyErr
  <2> QED
    BY <2>1
<1>11. ASSUME NEW w \in Workers, DeleteSuccessfulJob(w)
       PROVE  NoLostWakeup'
  <2>1. ASSUME NEW x \in unseen', NEW j \in Ids, Serves(j, x)
        PROVE  Serves(j, x)'
    <3>1. state'[j] = "live" /\ kind'[j] = x
      BY <1>11, <2>1 DEF Serves, DeleteSuccessfulJob, RunSucceeded, ReadTooEarly, RunHoldsLock, JobOfRun
    <3>2. ASSUME NEW v \in Workers, lock'[j] = v,
                 pc'[v] \in {"read", "ok"}, missed'[v]
          PROVE  lock[j] = v /\ pc[v] \in {"read", "ok"} /\ missed[v]
      BY <1>11, <2>1, <3>2 DEF DeleteSuccessfulJob, RunSucceeded, Unlock, Finish, JobOfRun
    <3>3. ~ReadTooEarly(j)'
      BY <2>1, <3>2, TooEarlyBefore DEF Serves
    <3> QED
      BY <3>1, <3>3 DEF Serves
  <2>2. unseen' \subseteq unseen
    BY <1>11 DEF DeleteSuccessfulJob, RunSucceeded, Unlock, Finish
  <2> QED
    BY <2>1, <2>2 DEF ServedStays
<1>12. ASSUME NEW w \in Workers, UpdateFailedJob(w)
       PROVE  NoLostWakeup'
  <2>1. ASSUME NEW x \in unseen', NEW j \in Ids, Serves(j, x)
        PROVE  Serves(j, x)'
    <3>1. state'[j] = "live" /\ kind'[j] = x
      BY <1>12, <2>1 DEF Serves, UpdateFailedJob, Unlock, Finish
    <3>2. ASSUME NEW v \in Workers, lock'[j] = v,
                 pc'[v] \in {"read", "ok"}, missed'[v]
          PROVE  lock[j] = v /\ pc[v] \in {"read", "ok"} /\ missed[v]
      BY <1>12, <2>1, <3>2 DEF UpdateFailedJob, Unlock, Finish, JobOfRun
    <3>3. ~ReadTooEarly(j)'
      BY <2>1, <3>2, TooEarlyBefore DEF Serves
    <3> QED
      BY <3>1, <3>3 DEF Serves
  <2>2. unseen' \subseteq unseen
    BY <1>12 DEF UpdateFailedJob, Unlock, Finish
  <2> QED
    BY <2>1, <2>2 DEF ServedStays
<1>13. ASSUME NEW w \in Workers, Abort(w)
       PROVE  NoLostWakeup'
  <2>1. ASSUME NEW x \in unseen', NEW j \in Ids, Serves(j, x)
        PROVE  Serves(j, x)'
    <3>1. state'[j] = "live" /\ kind'[j] = x
      BY <1>13, <2>1 DEF Serves, Abort, Unlock, Finish
    <3>2. ASSUME NEW v \in Workers, lock'[j] = v,
                 pc'[v] \in {"read", "ok"}, missed'[v]
          PROVE  lock[j] = v /\ pc[v] \in {"read", "ok"} /\ missed[v]
      BY <1>13, <2>1, <3>2 DEF Abort, Unlock, Finish, JobOfRun
    <3>3. ~ReadTooEarly(j)'
      BY <2>1, <3>2, TooEarlyBefore DEF Serves
    <3> QED
      BY <3>1, <3>3 DEF Serves
  <2>2. unseen' \subseteq unseen
    BY <1>13 DEF Abort, Unlock, Finish
  <2> QED
    BY <2>1, <2>2 DEF ServedStays
<1>14. ASSUME NEW w \in Workers, LoseConnection(w)
       PROVE  NoLostWakeup'
  <2>1. ASSUME NEW x \in unseen', NEW j \in Ids, Serves(j, x)
        PROVE  Serves(j, x)'
    <3>1. state'[j] = "live" /\ kind'[j] = x
      BY <1>14, <2>1 DEF Serves, LoseConnection, Unlock
    <3>2. ASSUME NEW v \in Workers, lock'[j] = v,
                 pc'[v] \in {"read", "ok"}, missed'[v]
          PROVE  lock[j] = v /\ pc[v] \in {"read", "ok"} /\ missed[v]
      BY <1>14, <2>1, <3>2 DEF LoseConnection, Unlock, JobOfRun
    <3>3. ~ReadTooEarly(j)'
      BY <2>1, <3>2, TooEarlyBefore DEF Serves
    <3> QED
      BY <3>1, <3>3 DEF Serves
  <2>2. unseen' \subseteq unseen
    BY <1>14 DEF LoseConnection, Unlock
  <2> QED
    BY <2>1, <2>2 DEF ServedStays
<1>15. ASSUME NEW w \in Workers, NoticeLoss(w)
       PROVE  NoLostWakeup'
  <2>1. ServedStays
    BY <1>15 DEF ServedStays, Serves, ReadTooEarly, NoticeLoss, Finish
  <2> QED
    BY <2>1
<1>16. CASE Tick
  <2>1. ServedStays
    BY <1>16 DEF ServedStays, Serves, ReadTooEarly, Tick
  <2> QED
    BY <2>1
<1>17. CASE UNCHANGED vars
  <2>1. ServedStays
    BY <1>17 DEF ServedStays, Serves, ReadTooEarly, vars
  <2> QED
    BY <2>1
<1> QED
  BY <1>1, <1>2, <1>3, <1>4, <1>5, <1>6, <1>7, <1>8, <1>9, <1>10, <1>11,
     <1>12, <1>13, <1>14, <1>15, <1>16, <1>17
  DEF Next, ClientNext, WorkerNext

\* The invariant holds of every behaviour.
LEMMA Inductive == Spec => []IndInv
<1>1. Init => IndInv
  BY InitTypeOK, HoldersAssumption
  DEF Init, IndInv, JobOfRun, LocksMatch, RunHoldsLock, LockIsOfRun, RowsMatch,
      EnqueuedHeld, FreshStart, NoLostWakeup, Running
<1>2. IndInv /\ [Next]_vars => IndInv'
  BY NextTypeOK, NextLocksMatch, NextEnqueuedHeld, NextFreshStart,
     NextNoLostWakeup DEF IndInv
<1> QED
  BY <1>1, <1>2, PTL DEF Spec

\* No wake-up is lost: as long as a committed change has not been read by a
\* successful run, there is a committed job of its kind whose run will read it.
THEOREM WakeupsAreKept == Spec => []NoLostWakeup
<1>1. IndInv => NoLostWakeup
  BY DEF IndInv
<1> QED
  BY <1>1, Inductive, PTL

\* The row lock excludes concurrent runs of a job as long as sessions live.
THEOREM Exclusion == Spec => []RunsExclude
<1>1. IndInv => RunsExclude
  BY DEF IndInv, LocksMatch, RunHoldsLock, RunsExclude
<1> QED
  BY <1>1, Inductive, PTL

\* A step that takes a committed row out of the table is the deletion after a run of
\* it that returned Ok.
LEMMA RemovalStep ==
  ASSUME IndInv, [Next]_vars, NEW i \in Ids, state[i] = "live", state'[i] # "live"
  PROVE  \E w \in Workers : job[w] = i /\ pc[w] = "ok" /\ pc'[w] = "idle"
<1> USE DEF IndInv, TypeOK, JobOfRun, Running, rowVars, workerVars, clientVars
<1>1. ASSUME NEW c \in Clients, ClientNext(c)
      PROVE  FALSE
  <2>1. ASSUME NEW K \in SUBSET Kinds, Change(c, K)
        PROVE  FALSE
    BY <2>1 DEF Change
  <2>2. ASSUME NEW k \in Kinds, EnqueueSimple(c, k) \/ EnqueueDeduplicated(c, k)
        PROVE  FALSE
    <3>1. CASE Insert(c, k)
      BY <3>1 DEF Insert, LocksMatch, RowsMatch
    <3> QED
      BY <2>2, <3>1 DEF EnqueueSimple, EnqueueDeduplicated
  <2>3. CASE Commit(c) \/ Rollback(c)
    BY <2>3 DEF Commit, Rollback, EndTransaction, Inserted
  <2> QED
    BY <1>1, <2>1, <2>2, <2>3 DEF ClientNext
<1>2. ASSUME NEW w \in Workers, WorkerNext(w), ~DeleteSuccessfulJob(w)
      PROVE  state' = state
  BY <1>2 DEF WorkerNext, StartJob, ShutDown, ReadInput, BodyOk, BodyErr, UpdateFailedJob,
     Abort, LoseConnection, NoticeLoss
<1>3. ASSUME NEW w \in Workers, DeleteSuccessfulJob(w)
      PROVE  job[w] = i /\ pc[w] = "ok" /\ pc'[w] = "idle"
  BY <1>3 DEF DeleteSuccessfulJob, RunSucceeded, Finish
<1>4. CASE Tick
  BY <1>4 DEF Tick
<1>5. CASE UNCHANGED vars
  BY <1>5 DEF vars
<1> QED
  BY <1>1, <1>2, <1>3, <1>4, <1>5 DEF Next

\* A committed job leaves the table only when a run of it returned Ok, whatever
\* fails, crashes or is rolled back.
THEOREM SuccessRemoves == Spec => OnlySuccessRemoves
<1>1. IndInv /\ [Next]_vars =>
        [\A i \in Ids :
           state[i] = "live" /\ state'[i] # "live" =>
             \E w \in Workers : job[w] = i /\ pc[w] = "ok" /\ pc'[w] = "idle"]_vars
  BY RemovalStep
<1> QED
  BY <1>1, Inductive, PTL DEF Spec, OnlySuccessRemoves

\* background_jobs in every reachable state, for any workers, enqueuers and kinds of
\* job: no wake-up is lost, and workers with live sessions run different jobs.
THEOREM QueueIsSound == Spec => []QueueInv
<1>1. IndInv => TypeOK
  BY DEF IndInv
<1>2. IndInv => NoLostWakeup /\ RunsExclude
  BY DEF IndInv, LocksMatch, RunHoldsLock, RunsExclude
<1> QED
  BY <1>1, <1>2, Inductive, PTL DEF QueueInv

-----------------------------------------------------------------------------
(* Shutting down.                                                          *)

\* A job that has not failed yet is ready: insertion dates its last_retry back, and nothing
\* but a failure of the job changes that.
FreshReady == \A i \in Ids : state[i] # "none" /\ retries[i] = 0 => age[i] > 1

\* The steps of transactions keep it.
LEMMA ClientFreshReady ==
  ASSUME IndInv, FreshReady, AgeCap > 1, NEW c \in Clients, ClientNext(c)
  PROVE  FreshReady'
<1> USE BoundsAssumption DEF IndInv, TypeOK, FreshReady, rowVars, workerVars, clientVars
<1>2. ASSUME NEW K \in SUBSET Kinds, Change(c, K)
      PROVE  FreshReady'
  BY <1>2 DEF Change
<1>3. ASSUME NEW k \in Kinds, EnqueueSimple(c, k) \/ EnqueueDeduplicated(c, k)
      PROVE  FreshReady'
  <2>1. CASE Insert(c, k)
    BY <2>1 DEF Insert
  <2>2. CASE UNCHANGED <<state, kind, retries, age, nextId>>
    BY <2>2
  <2> QED
    BY <1>3, <2>1, <2>2 DEF EnqueueSimple, EnqueueDeduplicated
<1>4. CASE Commit(c) \/ Rollback(c)
  BY <1>4 DEF Commit, Rollback, EndTransaction, Inserted
<1> QED
  BY <1>2, <1>3, <1>4 DEF ClientNext

\* So do those of the workers, and time.
LEMMA NextFreshReady ==
  ASSUME MaxRetries > 0, AgeCap > 1, IndInv, FreshReady, [Next]_vars
  PROVE  FreshReady'
<1> USE BoundsAssumption
    DEF IndInv, TypeOK, JobOfRun, Running, FreshReady, rowVars, workerVars, clientVars
<1>1. ASSUME NEW w \in Workers, DeleteSuccessfulJob(w)
      PROVE  FreshReady'
  BY <1>1 DEF DeleteSuccessfulJob, RunSucceeded
<1>2. ASSUME NEW w \in Workers, UpdateFailedJob(w)
      PROVE  FreshReady'
  <2>1. job[w] \in Ids /\ retries[job[w]] \in Nat
    BY <1>2 DEF UpdateFailedJob
  <2>2. retries'[job[w]] > 0
    BY <1>2, <2>1 DEF UpdateFailedJob, BumpRetries, AtMost
  <2>3. \A i \in Ids \ {job[w]} : retries'[i] = retries[i] /\ age'[i] = age[i]
    BY <1>2 DEF UpdateFailedJob, BumpRetries
  <2> QED
    BY <1>2, <2>2, <2>3 DEF UpdateFailedJob
<1>3. ASSUME NEW w \in Workers, WorkerNext(w), ~DeleteSuccessfulJob(w), ~UpdateFailedJob(w)
      PROVE  UNCHANGED <<state, retries, age>>
  BY <1>3 DEF WorkerNext, StartJob, ShutDown, ReadInput, BodyOk, BodyErr, Abort,
     LoseConnection, NoticeLoss
<1>4. CASE Tick
  <2>1. \A i \in Ids : age[i] > 1 => AtMost(age[i] + 1, AgeCap) > 1
    BY DEF AtMost
  <2> QED
    BY <1>4, <2>1 DEF Tick
<1>5. CASE UNCHANGED vars
  BY <1>5 DEF vars
<1> QED
  BY <1>1, <1>2, <1>3, <1>4, <1>5, ClientFreshReady DEF Next

\* The last worker stops.  It has found no job to run, and no other worker runs one, so that
\* a job that is left is locked by a transaction unless it has failed.
LEMMA ShutdownStep ==
  ASSUME IndInv, FreshReady, [Next]_vars, \A w \in Workers : Registered[w] = Kinds,
         \A w \in Workers : pc'[w] = "stopped", pc' # pc,
         NEW i \in Ids, state[i] = "live"
  PROVE  i \in FailedJobs \/ lock[i] \in Clients
<1> USE DEF IndInv, TypeOK
<1>1. PICK w \in Workers : ShutDown(w)
  <2>1. ASSUME NEW v \in Workers, WorkerNext(v), ~ShutDown(v)
        PROVE  pc'[v] # "stopped" \/ pc' = pc
    BY <2>1 DEF WorkerNext, StartJob, ReadInput, BodyOk, BodyErr, DeleteSuccessfulJob,
       UpdateFailedJob, Abort, LoseConnection, NoticeLoss, Finish, workerVars
  <2>2. ASSUME NEW c \in Clients, ClientNext(c)
        PROVE  pc' = pc
    BY <2>2 DEF ClientNext, Change, EnqueueSimple, EnqueueDeduplicated, Commit, Rollback,
       EndTransaction, workerVars
  <2>3. CASE Tick \/ UNCHANGED vars
    BY <2>3 DEF Tick, vars, workerVars
  <2> QED
    BY <2>1, <2>2, <2>3 DEF Next
<1>2. i \notin Ready(w)
  BY <1>1 DEF ShutDown
<1>3. ASSUME retries[i] = 0
      PROVE  Retriable(i)
  <2>1. 2 ^ 0 = 1
    OBVIOUS
  <2> QED
    BY <1>3, <2>1 DEF FreshReady, Retriable
<1>4. \A v \in Workers : pc[v] \notin Running
  BY <1>1 DEF ShutDown, Running
<1>5. lock[i] \notin Workers
  BY <1>4 DEF LocksMatch, LockIsOfRun
<1> QED
  BY <1>2, <1>3, <1>5 DEF Ready, FailedJobs

\* wait_for_shutdown, for any number of workers of one queue, that is of workers that have
\* registered every kind: when the last of them stops, the jobs that are left have failed
\* before, or are in a transaction that is open.
THEOREM ShutdownDrains ==
  ASSUME MaxRetries > 0, AgeCap > 1, \A w \in Workers : Registered[w] = Kinds
  PROVE  Spec => DrainedOnShutdown
<1>1. Init => FreshReady
  BY DEF Init, FreshReady
<1>2. IndInv /\ FreshReady /\ [Next]_vars => FreshReady'
  BY NextFreshReady
<1>3. IndInv /\ FreshReady /\ [Next]_vars =>
        [(\A w \in Workers : pc'[w] = "stopped") /\ pc' # pc =>
           \A i \in Ids : state[i] = "live" => \/ i \in FailedJobs
                                              \/ lock[i] \in Clients]_vars
  BY ShutdownStep
<1> QED
  BY <1>1, <1>2, <1>3, Inductive, PTL DEF Spec, DrainedOnShutdown

-----------------------------------------------------------------------------
(***************************************************************************)
(* IndexSync: the git index is current once every change has been seen,    *)
(* and implements the abstract IndexCopy.  Every step of IndexSync keeps   *)
(* the invariant of the queue, and the "repository" queue has a single     *)
(* worker.                                                                 *)
(***************************************************************************)

\* Every step of IndexSync is a step of the queue or leaves it as it is.
LEMMA SyncStepIsQueueStep == [SyncNext]_syncVars => [Next]_vars
<1> SUFFICES ASSUME [SyncNext]_syncVars
             PROVE  [Next]_vars
  OBVIOUS
<1>1. ASSUME NEW c \in Clients, HandlerNext(c)
      PROVE  Next
  <2>1. CASE ChangeCrate(c)
    BY <2>1 DEF ChangeCrate, Next, ClientNext
  <2>2. ASSUME NEW k \in Kinds, EnqueueSync(c, k)
        PROVE  Next
    BY <2>2 DEF EnqueueSync, Next, ClientNext
  <2>3. CASE CommitChange(c)
    BY <2>3 DEF CommitChange, Next, ClientNext
  <2>4. CASE RollbackChange(c)
    BY <2>4 DEF RollbackChange, Next, ClientNext
  <2> QED
    BY <1>1, <2>1, <2>2, <2>3, <2>4 DEF HandlerNext
<1>2. ASSUME NEW w \in Workers, RunNext(w)
      PROVE  [Next]_vars
  <2>1. CASE ReadCrate(w)
    BY <2>1 DEF ReadCrate, Next, WorkerNext
  <2>2. CASE WriteIndex(w)
    BY <2>2 DEF WriteIndex
  <2>3. CASE SyncOk(w)
    BY <2>3 DEF SyncOk, Next, WorkerNext
  <2>4. CASE QueueStep(w)
    BY <2>4 DEF QueueStep, Next, WorkerNext
  <2> QED
    BY <1>2, <2>1, <2>2, <2>3, <2>4 DEF RunNext
<1>3. CASE SyncTick
  BY <1>3 DEF SyncTick, Next
<1>4. CASE UNCHANGED syncVars
  BY <1>4 DEF syncVars
<1> QED
  BY <1>1, <1>2, <1>3, <1>4 DEF SyncNext

\* The invariant of the queue holds of every behaviour of IndexSync.
LEMMA SyncInductive == SyncSpec => []IndInv
<1>1. SyncSpec => Spec
  <2>1. SyncInit => Init
    BY DEF SyncInit
  <2> QED
    BY <2>1, SyncStepIsQueueStep, PTL DEF SyncSpec, Spec
<1> QED
  BY <1>1, Inductive, PTL

-----------------------------------------------------------------------------
(***************************************************************************)
(* The inductive invariant.  A run of the git index job holds content that *)
(* is not older than the index and not newer than the database, and that   *)
(* is the database's as long as the run has missed no change.              *)
(***************************************************************************)

\* A worker runs jobs of its own queue, whose rows have been inserted.
RunsItsQueue ==
  \A w \in Workers :
    pc[w] \in Running => job[w] < nextId /\ kind[job[w]] \in Registered[w]

\* A run of the git index job that has read the crate.
HasRead(w) == pc[w] \in {"read", "ok"} /\ kind[job[w]] = SyncToGitIndex

ContentBetween ==
  \A w \in Workers : HasRead(w) =>
    /\ content[w] \in Nat
    /\ content[w] <= db[SyncToGitIndex]
    /\ index[SyncToGitIndex] <= content[w]
    /\ ~missed[w] => content[w] = db[SyncToGitIndex]
    /\ written[w] => index[SyncToGitIndex] = content[w]
    /\ pc[w] = "ok" => written[w]

GitIndexBehind == index[SyncToGitIndex] <= db[SyncToGitIndex]

\* The sparse index plays no part: its state only has to be well-typed.
ReadIsNat ==
  \A w \in Workers : pc[w] \in {"read", "ok"} => content[w] \in Nat

SyncStrong ==
  /\ SyncTypeOK
  /\ RunsItsQueue
  /\ ReadIsNat
  /\ ContentBetween
  /\ GitIndexBehind
  /\ GitIndexCurrent

\* A worker only ever takes rows of its queue, and rows keep their kind.
LEMMA NextRunsItsQueue == IndInv /\ RunsItsQueue /\ [Next]_vars => RunsItsQueue'
<1> SUFFICES ASSUME IndInv, RunsItsQueue, [Next]_vars
             PROVE  RunsItsQueue'
  OBVIOUS
<1>a. TypeOK /\ JobOfRun /\ RowsMatch
  BY DEF IndInv, LocksMatch
<1> USE <1>a, BoundsAssumption
    DEF TypeOK, JobOfRun, RunsItsQueue, Running, rowVars, workerVars, clientVars,
        Ids
<1>1. ASSUME NEW c \in Clients, NEW K \in SUBSET Kinds, Change(c, K)
      PROVE  RunsItsQueue'
  BY <1>1 DEF Change
<1>2. ASSUME NEW c \in Clients, NEW k \in Kinds, EnqueueSimple(c, k)
      PROVE  RunsItsQueue'
  BY <1>2 DEF EnqueueSimple, Insert
<1>3. ASSUME NEW c \in Clients, NEW k \in Kinds, EnqueueDeduplicated(c, k)
      PROVE  RunsItsQueue'
  <2>1. CASE Insert(c, k)
    BY <1>3, <2>1 DEF EnqueueDeduplicated, Insert
  <2>2. CASE UNCHANGED <<kind, nextId>>
    BY <1>3, <2>2 DEF EnqueueDeduplicated
  <2> QED
    BY <1>3, <2>1, <2>2 DEF EnqueueDeduplicated
<1>4. ASSUME NEW c \in Clients, Commit(c)
      PROVE  RunsItsQueue'
  BY <1>4 DEF Commit, EndTransaction
<1>5. ASSUME NEW c \in Clients, Rollback(c)
      PROVE  RunsItsQueue'
  BY <1>5 DEF Rollback, EndTransaction
<1>6. ASSUME NEW w \in Workers, NEW i \in Ids, StartJob(w, i)
      PROVE  RunsItsQueue'
  BY <1>6 DEF StartJob, Ready, RowsMatch
<1>7. ASSUME NEW w \in Workers, ShutDown(w)
      PROVE  RunsItsQueue'
  BY <1>7 DEF ShutDown
<1>8. ASSUME NEW w \in Workers, ReadInput(w)
      PROVE  RunsItsQueue'
  BY <1>8 DEF ReadInput
<1>9. ASSUME NEW w \in Workers, BodyOk(w)
      PROVE  RunsItsQueue'
  BY <1>9 DEF BodyOk
<1>10. ASSUME NEW w \in Workers, BodyErr(w)
       PROVE  RunsItsQueue'
  BY <1>10 DEF BodyErr
<1>11. ASSUME NEW w \in Workers, DeleteSuccessfulJob(w)
       PROVE  RunsItsQueue'
  BY <1>11 DEF DeleteSuccessfulJob, Finish
<1>12. ASSUME NEW w \in Workers, UpdateFailedJob(w)
       PROVE  RunsItsQueue'
  BY <1>12 DEF UpdateFailedJob, Finish
<1>13. ASSUME NEW w \in Workers, Abort(w)
       PROVE  RunsItsQueue'
  BY <1>13 DEF Abort, Finish
<1>14. ASSUME NEW w \in Workers, LoseConnection(w)
       PROVE  RunsItsQueue'
  BY <1>14 DEF LoseConnection
<1>15. ASSUME NEW w \in Workers, NoticeLoss(w)
       PROVE  RunsItsQueue'
  BY <1>15 DEF NoticeLoss, Finish
<1>16. CASE Tick
  BY <1>16 DEF Tick
<1>17. CASE UNCHANGED vars
  BY <1>17 DEF vars
<1> QED
  BY <1>1, <1>2, <1>3, <1>4, <1>5, <1>6, <1>7, <1>8, <1>9, <1>10, <1>11,
     <1>12, <1>13, <1>14, <1>15, <1>16, <1>17
  DEF Next, ClientNext, WorkerNext

\* The step starts no run that has read, and no run misses a change by it.
RunsKept ==
  \A v \in Workers : HasRead(v)' =>
    HasRead(v) /\ pc'[v] = pc[v] /\ missed'[v] = missed[v]

\* A step that changes no index and starts no run that has read keeps what holds
\* of the git index.
LEMMA RunsKeptSuffices ==
  ASSUME SyncStrong, RunsKept, UNCHANGED indexVars
  PROVE  ContentBetween' /\ GitIndexBehind'
BY DEF SyncStrong, RunsKept, indexVars, ContentBetween, GitIndexBehind

\* Only the worker of the "repository" queue runs the git index job.
LEMMA OnlyGitWorkerReads ==
  ASSUME SyncStrong, NEW w \in Workers, HasRead(w)
  PROVE  w = GitWorker
BY IndexKindsAssumption DEF SyncStrong, RunsItsQueue, HasRead, Running

\* The steps of handlers that commit nothing.
LEMMA HandlerKeepsRuns ==
  ASSUME SyncStrong, IndInv, NEW c \in Clients,
         ChangeCrate(c) \/ (\E k \in Kinds : EnqueueSync(c, k)) \/ RollbackChange(c)
  PROVE  RunsKept /\ UNCHANGED indexVars /\ unseen' = unseen
<1> USE DEF RunsKept, HasRead, rowVars, workerVars, clientVars
<1>1. CASE ChangeCrate(c)
  BY <1>1 DEF ChangeCrate, Change
<1>2. ASSUME NEW k \in Kinds, EnqueueSync(c, k)
      PROVE  RunsKept /\ UNCHANGED indexVars /\ unseen' = unseen
  <2>1. UNCHANGED <<pc, job, missed, unseen, indexVars>>
    BY <1>2 DEF EnqueueSync, EnqueueDeduplicated
  <2>2. ASSUME NEW v \in Workers, pc[v] \in {"read", "ok"}
        PROVE  kind'[job[v]] = kind[job[v]]
    <3>1. job[v] \in Ids /\ job[v] < nextId
      BY <2>2 DEF SyncStrong, RunsItsQueue, IndInv, JobOfRun, Running
    <3>2. nextId \in Int /\ job[v] # nextId /\ kind \in [Ids -> Kinds]
      BY <3>1, BoundsAssumption DEF IndInv, TypeOK, Ids
    <3> QED
      BY <1>2, <3>1, <3>2 DEF EnqueueSync, EnqueueDeduplicated, Insert
  <2> QED
    BY <2>1, <2>2
<1>3. CASE RollbackChange(c)
  BY <1>3 DEF RollbackChange, Rollback, EndTransaction
<1> QED
  BY <1>1, <1>2, <1>3

\* The steps of workers that neither read, write, return Ok nor delete a row.
LEMMA WorkerKeepsRuns ==
  ASSUME SyncStrong, NEW w \in Workers, QueueStep(w)
  PROVE  /\ RunsKept
         /\ UNCHANGED indexVars
         /\ DeleteSuccessfulJob(w) \/ unseen' = unseen
<1>a. TypeOK
  BY DEF SyncStrong, SyncTypeOK
<1>b. UNCHANGED indexVars
  BY DEF QueueStep
<1> USE <1>a, <1>b DEF TypeOK, RunsKept, HasRead, rowVars, workerVars, clientVars
<1>1. ASSUME NEW i \in Ids, StartJob(w, i)
      PROVE  RunsKept /\ unseen' = unseen
  BY <1>1 DEF StartJob
<1>2. CASE BodyErr(w)
  BY <1>2 DEF BodyErr
<1>3. CASE DeleteSuccessfulJob(w)
  BY <1>3 DEF DeleteSuccessfulJob, Finish
<1>4. CASE UpdateFailedJob(w)
  BY <1>4 DEF UpdateFailedJob, Finish
<1>5. CASE Abort(w)
  BY <1>5 DEF Abort, Finish
<1>6. CASE LoseConnection(w)
  BY <1>6 DEF LoseConnection
<1>7. CASE NoticeLoss(w)
  BY <1>7 DEF NoticeLoss, Finish
<1> QED
  BY <1>1, <1>2, <1>3, <1>4, <1>5, <1>6, <1>7 DEF QueueStep

\* Only a run that has written what the database holds lets the git index count
\* as current.
LEMMA DeleteKeepsCurrent ==
  ASSUME SyncStrong, SyncToGitIndex \in Kinds, NEW w \in Workers,
         DeleteSuccessfulJob(w), UNCHANGED indexVars
  PROVE  GitIndexCurrent'
<1>1. CASE SyncToGitIndex \notin unseen
  BY <1>1 DEF SyncStrong, GitIndexCurrent, DeleteSuccessfulJob, indexVars
<1>2. CASE SyncToGitIndex \in unseen /\ SyncToGitIndex \notin unseen'
  <2>1. ~missed[w] /\ kind[job[w]] = SyncToGitIndex /\ pc[w] = "ok"
    BY <1>2 DEF DeleteSuccessfulJob, RunSucceeded
  <2>2. index[SyncToGitIndex] = db[SyncToGitIndex]
    BY <2>1 DEF SyncStrong, ContentBetween, HasRead
  <2> QED
    BY <2>2 DEF GitIndexCurrent, indexVars
<1> QED
  BY <1>1, <1>2 DEF GitIndexCurrent

\* The part of the invariant that says what the git index shows.
GitPart == ContentBetween /\ GitIndexBehind /\ GitIndexCurrent

\* Every step keeps what runs have read between the git index and the database.
LEMMA NextGitPart ==
  ASSUME SyncStrong, IndInv, SyncToGitIndex \in Kinds, [SyncNext]_syncVars
  PROVE  GitPart'
<1>a. /\ TypeOK /\ ContentBetween /\ GitIndexBehind /\ GitIndexCurrent
      /\ db \in [Kinds -> Nat] /\ index \in [Kinds -> Nat]
      /\ content \in [Workers -> Nat \cup {Unread}]
      /\ written \in [Workers -> BOOLEAN]
  BY DEF SyncStrong, SyncTypeOK
<1>b. \A k \in Kinds : db[k] \in Nat /\ index[k] \in Nat
  BY <1>a
<1>1. ASSUME RunsKept, UNCHANGED indexVars, unseen' = unseen
      PROVE  GitPart'
  BY <1>a, <1>1, RunsKeptSuffices DEF GitPart, GitIndexCurrent, indexVars
<1>2. ASSUME NEW c \in Clients, CommitChange(c)
      PROVE  GitPart'
  <2>1. /\ pc' = pc /\ job' = job /\ kind' = kind
        /\ UNCHANGED <<index, content, written>>
    BY <1>2 DEF CommitChange, Commit, EndTransaction
  <2>2. CASE SyncToGitIndex \in changed[c]
    <3>1. /\ db'[SyncToGitIndex] = db[SyncToGitIndex] + 1
          /\ SyncToGitIndex \in unseen'
      BY <1>2, <2>2 DEF CommitChange, Commit
    <3>2. ASSUME NEW v \in Workers, HasRead(v)
          PROVE  missed'[v]
      BY <1>2, <2>2, <3>2 DEF CommitChange, Commit, HasRead
    <3>3. ContentBetween'
      BY <1>a, <1>b, <2>1, <3>1, <3>2 DEF ContentBetween, HasRead
    <3> QED
      BY <1>a, <1>b, <2>1, <3>1, <3>3 DEF GitPart, GitIndexBehind, GitIndexCurrent
  <2>3. CASE SyncToGitIndex \notin changed[c]
    <3>1. /\ db'[SyncToGitIndex] = db[SyncToGitIndex]
          /\ SyncToGitIndex \in unseen' <=> SyncToGitIndex \in unseen
      BY <1>2, <2>3 DEF CommitChange, Commit
    <3>2. ASSUME NEW v \in Workers, HasRead(v), missed[v]
          PROVE  missed'[v]
      BY <1>2, <3>2 DEF CommitChange, Commit
    <3>3. ContentBetween'
      BY <1>a, <2>1, <3>1, <3>2 DEF ContentBetween, HasRead
    <3> QED
      BY <1>a, <2>1, <3>1, <3>3 DEF GitPart, GitIndexBehind, GitIndexCurrent
  <2> QED
    BY <2>2, <2>3
<1>3. ASSUME NEW w \in Workers, ReadCrate(w)
      PROVE  GitPart'
  <2>1. /\ UNCHANGED <<job, kind, missed, unseen, db, index>>
        /\ pc' = [pc EXCEPT ![w] = "read"]
        /\ content' = [content EXCEPT ![w] = db[kind[job[w]]]]
        /\ written' = [written EXCEPT ![w] = FALSE]
    BY <1>3 DEF ReadCrate, ReadInput, rowVars
  <2>2. ASSUME NEW v \in Workers, HasRead(v)', v # w
        PROVE  /\ HasRead(v) /\ pc'[v] = pc[v]
               /\ content'[v] = content[v] /\ written'[v] = written[v]
    BY <1>a, <2>1, <2>2 DEF HasRead, TypeOK
  <2>3. ASSUME HasRead(w)'
        PROVE  /\ content'[w] = db[SyncToGitIndex]
               /\ ~written'[w] /\ pc'[w] # "ok"
    BY <1>a, <2>1, <2>3 DEF HasRead, TypeOK
  <2>4. ContentBetween'
    BY <1>a, <1>b, <2>1, <2>2, <2>3 DEF ContentBetween, GitIndexBehind
  <2> QED
    BY <1>a, <2>1, <2>4 DEF GitPart, GitIndexBehind, GitIndexCurrent
<1>4. ASSUME NEW w \in Workers, WriteIndex(w)
      PROVE  GitPart'
  <2>1. UNCHANGED <<vars, db, content>>
    BY <1>4 DEF WriteIndex
  <2>2. CASE kind[job[w]] = SyncToGitIndex
    <3>1. HasRead(w) /\ ~written[w]
      BY <1>4, <2>2 DEF WriteIndex, HasRead
    <3>2. index'[SyncToGitIndex] = content[w] /\ written'[w]
      BY <1>4, <1>a, <2>2 DEF WriteIndex
    <3>3. \A v \in Workers : HasRead(v)' => v = w
      BY <2>1, <3>1, OnlyGitWorkerReads DEF HasRead, vars, rowVars, workerVars
    <3>4. ContentBetween'
      BY <1>a, <1>b, <2>1, <3>1, <3>2, <3>3
      DEF ContentBetween, HasRead, vars, workerVars, rowVars
    <3>5. GitIndexBehind' /\ GitIndexCurrent'
      BY <1>a, <1>b, <2>1, <3>1, <3>2
      DEF ContentBetween, GitIndexBehind, GitIndexCurrent, vars
    <3> QED
      BY <3>4, <3>5 DEF GitPart
  <2>3. CASE kind[job[w]] # SyncToGitIndex
    <3>1. index'[SyncToGitIndex] = index[SyncToGitIndex]
      BY <1>4, <1>a, <2>3 DEF WriteIndex
    <3>2. ASSUME NEW v \in Workers, HasRead(v)'
          PROVE  HasRead(v) /\ written'[v] = written[v]
      BY <1>4, <1>a, <2>1, <2>3, <3>2
      DEF WriteIndex, HasRead, vars, rowVars, workerVars
    <3> QED
      BY <1>a, <2>1, <3>1, <3>2
      DEF GitPart, ContentBetween, GitIndexBehind, GitIndexCurrent,
          vars, workerVars
  <2> QED
    BY <2>2, <2>3
<1>5. ASSUME NEW w \in Workers, SyncOk(w)
      PROVE  GitPart'
  <2>1. /\ UNCHANGED <<job, kind, missed, unseen, indexVars>>
        /\ pc[w] = "read" /\ written[w] /\ pc' = [pc EXCEPT ![w] = "ok"]
    BY <1>5 DEF SyncOk, BodyOk, rowVars
  <2>2. ASSUME NEW v \in Workers, HasRead(v)'
        PROVE  HasRead(v) /\ (pc'[v] = pc[v] \/ v = w)
    BY <1>a, <2>1, <2>2 DEF HasRead, TypeOK
  <2>3. ContentBetween'
    BY <1>a, <2>1, <2>2 DEF ContentBetween, indexVars
  <2> QED
    BY <1>a, <2>1, <2>3 DEF GitPart, GitIndexBehind, GitIndexCurrent, indexVars
<1>6. ASSUME NEW w \in Workers, QueueStep(w)
      PROVE  GitPart'
  <2>1. RunsKept /\ UNCHANGED indexVars
    BY <1>6, WorkerKeepsRuns
  <2>2. CASE unseen' = unseen
    BY <1>1, <2>1, <2>2
  <2>3. CASE DeleteSuccessfulJob(w)
    BY <2>1, <2>3, RunsKeptSuffices, DeleteKeepsCurrent DEF GitPart
  <2> QED
    BY <1>6, <2>2, <2>3, WorkerKeepsRuns
<1>7. ASSUME NEW c \in Clients, HandlerNext(c)
      PROVE  GitPart'
  BY <1>1, <1>2, <1>7, HandlerKeepsRuns DEF HandlerNext
<1>8. CASE SyncTick
  <2>1. RunsKept /\ UNCHANGED indexVars /\ unseen' = unseen
    BY <1>8 DEF SyncTick, Tick, RunsKept, HasRead
  <2> QED
    BY <1>1, <2>1
<1>9. CASE UNCHANGED syncVars
  <2>1. RunsKept /\ UNCHANGED indexVars /\ unseen' = unseen
    BY <1>9 DEF syncVars, vars, rowVars, workerVars, RunsKept, HasRead
  <2> QED
    BY <1>1, <2>1
<1> QED
  BY <1>3, <1>4, <1>5, <1>6, <1>7, <1>8, <1>9 DEF SyncNext, RunNext

\* Every step keeps database, indexes and runs well-typed.
LEMMA NextSyncTypeOK ==
  ASSUME SyncStrong, IndInv, IndInv', [SyncNext]_syncVars
  PROVE  SyncTypeOK' /\ ReadIsNat'
<1>a. /\ TypeOK /\ JobOfRun /\ TypeOK' /\ ReadIsNat
      /\ db \in [Kinds -> Nat] /\ index \in [Kinds -> Nat]
      /\ content \in [Workers -> Nat \cup {Unread}]
      /\ written \in [Workers -> BOOLEAN]
  BY DEF SyncStrong, SyncTypeOK, IndInv
<1>b. \A w \in Workers : pc[w] \in Running => kind[job[w]] \in Kinds
  BY <1>a DEF JobOfRun, TypeOK
<1>1. ASSUME UNCHANGED indexVars,
             \A v \in Workers : pc'[v] \in {"read", "ok"} => pc[v] \in {"read", "ok"}
      PROVE  SyncTypeOK' /\ ReadIsNat'
  BY <1>a, <1>1 DEF SyncTypeOK, ReadIsNat, indexVars
<1>2. ASSUME NEW c \in Clients, CommitChange(c)
      PROVE  SyncTypeOK' /\ ReadIsNat'
  BY <1>a, <1>2
  DEF CommitChange, Commit, EndTransaction, SyncTypeOK, ReadIsNat
<1>3. ASSUME NEW c \in Clients,
             ChangeCrate(c) \/ (\E k \in Kinds : EnqueueSync(c, k)) \/ RollbackChange(c)
      PROVE  SyncTypeOK' /\ ReadIsNat'
  <2>1. UNCHANGED <<pc, indexVars>>
    BY <1>3 DEF ChangeCrate, Change, EnqueueSync, EnqueueDeduplicated, workerVars,
                RollbackChange, Rollback, EndTransaction
  <2> QED
    BY <1>1, <2>1
<1>4. ASSUME NEW w \in Workers, ReadCrate(w)
      PROVE  SyncTypeOK' /\ ReadIsNat'
  <2>1. db[kind[job[w]]] \in Nat
    BY <1>a, <1>b, <1>4 DEF ReadCrate, ReadInput, Running
  <2> QED
    BY <1>a, <1>4, <2>1 DEF ReadCrate, ReadInput, SyncTypeOK, ReadIsNat, TypeOK
<1>5. ASSUME NEW w \in Workers, WriteIndex(w)
      PROVE  SyncTypeOK' /\ ReadIsNat'
  <2>1. content[w] \in Nat /\ pc' = pc /\ content' = content /\ db' = db
    BY <1>a, <1>5 DEF WriteIndex, ReadIsNat, vars, workerVars
  <2>2. index' \in [Kinds -> Nat] /\ written' \in [Workers -> BOOLEAN]
    BY <1>a, <1>5, <2>1 DEF WriteIndex
  <2> QED
    BY <1>a, <2>1, <2>2 DEF SyncTypeOK, ReadIsNat
<1>6. ASSUME NEW w \in Workers, SyncOk(w)
      PROVE  SyncTypeOK' /\ ReadIsNat'
  BY <1>a, <1>1, <1>6 DEF SyncOk, BodyOk, TypeOK
<1>7. ASSUME NEW w \in Workers, QueueStep(w)
      PROVE  SyncTypeOK' /\ ReadIsNat'
  BY <1>a, <1>1, <1>7
  DEF QueueStep, StartJob, BodyErr, DeleteSuccessfulJob, UpdateFailedJob, Abort,
      LoseConnection, NoticeLoss, Finish, TypeOK
<1>8. CASE SyncTick
  BY <1>1, <1>8 DEF SyncTick, Tick
<1>9. CASE UNCHANGED syncVars
  BY <1>1, <1>9 DEF syncVars, vars, workerVars
<1> QED
  BY <1>2, <1>3, <1>4, <1>5, <1>6, <1>7, <1>8, <1>9
  DEF SyncNext, HandlerNext, RunNext

\* The invariant holds of every behaviour.
LEMMA SyncInvariant ==
  ASSUME SyncToGitIndex \in Kinds
  PROVE  SyncSpec => [](IndInv /\ SyncStrong)
<1>1. SyncInit => SyncStrong
  <2> SUFFICES ASSUME SyncInit
               PROVE  SyncStrong
    OBVIOUS
  <2>1. TypeOK
    BY InitTypeOK DEF SyncInit
  <2> QED
    BY <2>1
    DEF SyncInit, Init, SyncStrong, SyncTypeOK, RunsItsQueue, ReadIsNat, ContentBetween,
        HasRead, GitIndexBehind, GitIndexCurrent, Running, Unread
<1>2. IndInv /\ IndInv' /\ SyncStrong /\ [SyncNext]_syncVars => SyncStrong'
  BY SyncStepIsQueueStep, NextRunsItsQueue, NextSyncTypeOK, NextGitPart
  DEF SyncStrong, GitPart
<1> QED
  BY <1>1, <1>2, SyncInductive, PTL DEF SyncSpec

\* The git index shows the crate as it is in the database once every committed
\* change has been seen by a successful run of SyncToGitIndex.
THEOREM GitIndexIsCurrent ==
  ASSUME SyncToGitIndex \in Kinds
  PROVE  SyncSpec => []GitIndexCurrent
<1>1. SyncStrong => GitIndexCurrent
  BY DEF SyncStrong
<1> QED
  BY <1>1, SyncInvariant, PTL

\* Every step changes the database and the git index as IndexCopy allows: the
\* database moves on, or the index moves forward to what the database has had.
LEMMA GitIndexSteps ==
  ASSUME SyncStrong, SyncToGitIndex \in Kinds, [SyncNext]_syncVars
  PROVE  [GitCopy!Next]_<<db[SyncToGitIndex], index[SyncToGitIndex]>>
<1>a. /\ ContentBetween /\ db \in [Kinds -> Nat] /\ index \in [Kinds -> Nat]
  BY DEF SyncStrong, SyncTypeOK
<1>b. db[SyncToGitIndex] \in Nat /\ index[SyncToGitIndex] \in Nat
  BY <1>a
<1>1. ASSUME UNCHANGED <<db, index>>
      PROVE  UNCHANGED <<db[SyncToGitIndex], index[SyncToGitIndex]>>
  BY <1>1
<1>2. ASSUME NEW c \in Clients, CommitChange(c)
      PROVE  [GitCopy!Next]_<<db[SyncToGitIndex], index[SyncToGitIndex]>>
  BY <1>2 DEF CommitChange, GitCopy!Next, GitCopy!Change
<1>3. ASSUME NEW w \in Workers, WriteIndex(w)
      PROVE  [GitCopy!Next]_<<db[SyncToGitIndex], index[SyncToGitIndex]>>
  <2>1. CASE kind[job[w]] = SyncToGitIndex
    <3>1. /\ index'[SyncToGitIndex] = content[w]
          /\ db'[SyncToGitIndex] = db[SyncToGitIndex]
      BY <1>a, <1>3, <2>1 DEF WriteIndex
    <3>2. /\ content[w] \in Nat
          /\ content[w] <= db[SyncToGitIndex]
          /\ index[SyncToGitIndex] <= content[w]
      BY <1>a, <1>3, <2>1 DEF WriteIndex, ContentBetween, HasRead
    <3> QED
      BY <1>b, <3>1, <3>2 DEF GitCopy!Next, GitCopy!Advance
  <2>2. CASE kind[job[w]] # SyncToGitIndex
    BY <1>a, <1>3, <2>2 DEF WriteIndex
  <2> QED
    BY <2>1, <2>2
<1>4. ASSUME NEW c \in Clients, HandlerNext(c), ~CommitChange(c)
      PROVE  UNCHANGED <<db, index>>
  BY <1>4 DEF HandlerNext, ChangeCrate, EnqueueSync, RollbackChange, indexVars
<1>5. ASSUME NEW w \in Workers, RunNext(w), ~WriteIndex(w)
      PROVE  UNCHANGED <<db, index>>
  BY <1>5 DEF RunNext, ReadCrate, SyncOk, QueueStep, indexVars
<1>6. CASE SyncTick \/ UNCHANGED syncVars
  BY <1>1, <1>6 DEF SyncTick, syncVars, indexVars
<1> QED
  BY <1>1, <1>2, <1>3, <1>4, <1>5, <1>6 DEF SyncNext

\* The git index implements IndexCopy: whatever is retried, crashes or loses its
\* session, it never goes back and never shows a state that was not committed.
THEOREM GitIndexImplementsCopy ==
  ASSUME SyncToGitIndex \in Kinds
  PROVE  SyncSpec => GitIndexIsCopy
<1>1. SyncInit => GitCopy!Init
  BY DEF SyncInit, GitCopy!Init
<1> QED
  BY <1>1, GitIndexSteps, SyncInvariant, PTL DEF SyncSpec, GitIndexIsCopy, GitCopy!Spec

\* The handlers and SyncToGitIndex keep the git index current and their state
\* well-typed, for any number of handlers, workers and changes.
THEOREM SyncIsSound ==
  ASSUME SyncToGitIndex \in Kinds
  PROVE  SyncSpec => []SyncInv
<1>1. SyncStrong => SyncInv
  BY DEF SyncStrong, SyncInv
<1> QED
  BY <1>1, SyncInvariant, PTL
=============================================================================
