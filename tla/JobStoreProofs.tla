---------------------------- MODULE JobStoreProofs ----------------------------
(***************************************************************************)
(* Proofs about JobStore, for any number of jobs, workers, clients and     *)
(* tokens.  The inductive invariant is RowOK of every row (JobRowsProofs): *)
(* the step proof only finds out which statement each row went through.    *)
(***************************************************************************)
EXTENDS JobStore, JobRowsProofs

IInv ==
  /\ \A j \in JobId : RowOK(rows[j])
  /\ TypeOK

-----------------------------------------------------------------------------
(* Every step of the store takes every row through one of its statements. *)
LEMMA StepsAreRowSteps ==
  ASSUME TypeOK, [Next]_vars
  PROVE  \A j \in JobId : RowStep(rows[j], rows'[j])
<1> SUFFICES ASSUME NEW i \in JobId PROVE RowStep(rows[i], rows'[i])
  OBVIOUS
<1> rows \in [JobId -> Row] /\ claims \subseteq Claim
  BY DEF TypeOK
<1>1. ASSUME NEW j \in JobId, NEW d \in Destination, Enqueue(j, d)
      PROVE  RowStep(rows[i], rows'[i])
  BY <1>1 DEF Enqueue, RowStep
<1>2. ASSUME NEW c \in Client, CallStep(c)
      PROVE  RowStep(rows[i], rows'[i])
  <2>1. CASE \E j \in JobId : CancelRead(c, j) \/ RetryRead(c, j)
    BY <2>1 DEF CancelRead, RetryRead, RowStep
  <2>2. CASE CancelWrite(c)
    BY <2>2 DEF CancelWrite, RowStep
  <2>3. CASE RetryWrite(c)
    BY <2>3 DEF RetryWrite, RowStep
  <2>4. CASE CallFindsNothing(c)
    BY <2>4 DEF CallFindsNothing, RowStep
  <2> QED BY <1>2, <2>1, <2>2, <2>3, <2>4 DEF CallStep
<1>3. ASSUME NEW j \in JobId, Dismiss(j)
      PROVE  RowStep(rows[i], rows'[i])
  BY <1>3 DEF Dismiss, RowStep
<1>4. ASSUME NEW jobs \in SUBSET JobId, Prune(jobs)
      PROVE  RowStep(rows[i], rows'[i])
  BY <1>4 DEF Prune, RowStep
<1>5. CASE ClaimNothing
  BY <1>5 DEF ClaimNothing, AfterSweep, RowStep
<1>6. ASSUME NEW w \in Worker, NEW j \in JobId, NEW t \in Token, ClaimJob(w, j, t)
      PROVE  RowStep(rows[i], rows'[i])
  BY <1>6 DEF ClaimJob, AfterSweep, Due, RowStep
<1>7. ASSUME NEW c \in claims, HolderStep(c)
      PROVE  RowStep(rows[i], rows'[i])
  <2>1. c.job \in JobId /\ c.token # Null
    BY NullIsNoValue DEF Claim
  <2>2. ASSUME NEW row, HolderWrites(c, row), HolderWrote(rows[c.job], row)
        PROVE  RowStep(rows[i], rows'[i])
    BY <2>1, <2>2 DEF HolderWrites, HeldBy, RowStep
  <2>3. CASE Heartbeat(c)
    BY <2>2, <2>3 DEF Heartbeat, HolderWrote
  <2>4. CASE \E d \in Digest : SaveSnapshot(c, d)
    BY <2>2, <2>4 DEF SaveSnapshot, HolderWrote
  <2>5. CASE \E phase \in {"copying", "publishing", "verifying"} : ProgressPhase(c, phase)
    BY <2>2, <2>5 DEF ProgressPhase, HolderWrote
  <2>6. CASE \E state \in {"completed", "cancelled"} : Finish(c, state)
    BY <2>2, <2>6 DEF Finish, HolderWrote
  <2>7. CASE \E retryable \in BOOLEAN : FailOrRetry(c, retryable)
    BY <2>2, <2>7 DEF FailOrRetry, HolderWrote
  <2>8. CASE ReleaseClaim(c)
    BY <2>2, <2>8 DEF ReleaseClaim, HolderWrote
  <2>9. CASE Forget(c)
    BY <2>9 DEF Forget, RowStep
  <2> QED BY <1>7, <2>3, <2>4, <2>5, <2>6, <2>7, <2>8, <2>9 DEF HolderStep
<1>8. ASSUME NEW pool \in Pool, Release(pool)
      PROVE  RowStep(rows[i], rows'[i])
  BY <1>8 DEF Release, RowStep
<1>9. ASSUME NEW lost \in SUBSET claims, NEW clients \in SUBSET Client,
             ProcessDies(lost, clients)
      PROVE  RowStep(rows[i], rows'[i])
  BY <1>9 DEF ProcessDies, RowStep
<1>10. ASSUME NEW j \in JobId, LeaseLapses(j) \/ RetryFallsDue(j)
       PROVE  RowStep(rows[i], rows'[i])
  BY <1>10 DEF LeaseLapses, RetryFallsDue, RowStep
<1>11. CASE UNCHANGED vars
  BY <1>11 DEF vars, RowStep
<1> QED
  BY <1>1, <1>2, <1>3, <1>4, <1>5, <1>6, <1>7, <1>8, <1>9, <1>10, <1>11 DEF Next

(* The table keeps its domain, and the memory of callers and runs its type. *)
LEMMA MemoryStep ==
  ASSUME TypeOK, [Next]_vars
  PROVE  /\ rows' = [j \in JobId |-> rows'[j]]
         /\ calls' \in [Client -> Call \cup {NoCall}]
         /\ claims' \subseteq Claim
<1> DEFINE Goal == /\ rows' = [j \in JobId |-> rows'[j]]
                   /\ calls' \in [Client -> Call \cup {NoCall}]
                   /\ claims' \subseteq Claim
<1> rows = [j \in JobId |-> rows[j]]
  BY DEF TypeOK
<1> calls \in [Client -> Call \cup {NoCall}] /\ claims \subseteq Claim
  BY DEF TypeOK
<1>1. ASSUME NEW j \in JobId, NEW d \in Destination, Enqueue(j, d) PROVE Goal
  BY <1>1 DEF Enqueue
<1>2. ASSUME NEW c \in Client, CallStep(c) PROVE Goal
  <2>1. ASSUME NEW j \in JobId, CancelRead(c, j) PROVE Goal
    <3>1. CancelState(rows[j]) \in {"cancelled", "cancel_requested"}
      BY DEF CancelState
    <3>2. [job |-> j, write |-> CancelState(rows[j])] \in Call
      BY <3>1 DEF Call
    <3> QED BY <2>1, <3>2 DEF CancelRead
  <2>2. ASSUME NEW j \in JobId, RetryRead(c, j) PROVE Goal
    BY <2>2 DEF RetryRead, Call
  <2>3. CASE CancelWrite(c)
    BY <2>3 DEF CancelWrite, Returns
  <2>4. CASE RetryWrite(c)
    BY <2>4 DEF RetryWrite, Returns
  <2>5. CASE CallFindsNothing(c)
    BY <2>5 DEF CallFindsNothing, Returns
  <2> QED BY <1>2, <2>1, <2>2, <2>3, <2>4, <2>5 DEF CallStep
<1>3. ASSUME NEW j \in JobId, Dismiss(j) PROVE Goal
  BY <1>3 DEF Dismiss
<1>4. ASSUME NEW jobs \in SUBSET JobId, Prune(jobs) PROVE Goal
  BY <1>4 DEF Prune
<1>5. CASE ClaimNothing
  BY <1>5 DEF ClaimNothing, AfterSweep
<1>6. ASSUME NEW w \in Worker, NEW j \in JobId, NEW t \in Token, ClaimJob(w, j, t) PROVE Goal
  <2>1. [job |-> j, token |-> t] \in Claim
    BY DEF Claim
  <2> QED BY <1>6, <2>1 DEF ClaimJob, AfterSweep
<1>7. ASSUME NEW c \in claims, HolderStep(c) PROVE Goal
  <2>1. ASSUME NEW row, HolderWrites(c, row) PROVE Goal
    BY <2>1 DEF HolderWrites
  <2>2. CASE Forget(c)
    BY <2>2 DEF Forget
  <2> QED BY <1>7, <2>1, <2>2 DEF HolderStep, Heartbeat, SaveSnapshot, ProgressPhase, Finish,
            FailOrRetry, ReleaseClaim
<1>8. ASSUME NEW pool \in Pool, Release(pool) PROVE Goal
  BY <1>8 DEF Release
<1>9. ASSUME NEW lost \in SUBSET claims, NEW clients \in SUBSET Client,
             ProcessDies(lost, clients)
      PROVE  Goal
  BY <1>9 DEF ProcessDies
<1>10. ASSUME NEW j \in JobId, LeaseLapses(j) \/ RetryFallsDue(j) PROVE Goal
  BY <1>10 DEF LeaseLapses, RetryFallsDue
<1>11. CASE UNCHANGED vars
  BY <1>11 DEF vars
<1> QED
  BY <1>1, <1>2, <1>3, <1>4, <1>5, <1>6, <1>7, <1>8, <1>9, <1>10, <1>11 DEF Next

-----------------------------------------------------------------------------
(* The invariant and what follows from it. *)

(* The empty table satisfies the invariant. *)
LEMMA InitOK == Init => IInv
<1> SUFFICES ASSUME Init PROVE IInv
  OBVIOUS
<1>1. \A j \in JobId : RowOK(rows[j])
  BY NoRowOK DEF Init
<1>2. NoRow \in Row
  BY NoRowOK DEF RowOK
<1>3. TypeOK
  BY <1>2 DEF Init, TypeOK
<1> QED BY <1>1, <1>3 DEF IInv

(* Every step keeps the invariant: RowOK row by row, the types by MemoryStep. *)
LEMMA StepOK == IInv /\ [Next]_vars => IInv'
<1> SUFFICES ASSUME IInv, [Next]_vars PROVE IInv'
  OBVIOUS
<1>1. TypeOK
  BY DEF IInv
<1>2. \A j \in JobId : RowOK(rows'[j])
  BY <1>1, StepsAreRowSteps, RowStepKeepsRowOK DEF IInv
<1>3. \A j \in JobId : rows'[j] \in Row
  BY <1>2 DEF RowOK
<1>4. TypeOK'
  BY <1>1, <1>3, MemoryStep DEF TypeOK
<1> QED BY <1>2, <1>4 DEF IInv

(* RowOK holds of every row in every state the store reaches. *)
THEOREM Invariance == Spec => []IInv
<1>1. Init => IInv
  BY InitOK
<1>2. IInv /\ [Next]_vars => IInv'
  BY StepOK
<1> QED BY <1>1, <1>2, PTL DEF Spec

(* The table, the calls under way and the claims in memory keep their types. *)
THEOREM TypeCorrect == Spec => []TypeOK
<1>1. IInv => TypeOK
  BY DEF IInv
<1> QED BY <1>1, Invariance, PTL

(* A row carries a claim exactly where its state allows one. *)
THEOREM ClaimFields == Spec => []ClaimFieldsAgree
<1>1. IInv => ClaimFieldsAgree
  BY DEF IInv, RowOK, ClaimFieldsAgree
<1> QED BY <1>1, Invariance, PTL

(* Every active job is claimed or swept once its stamps have passed. *)
THEOREM NothingStranded == Spec => []NoStrandedJob
<1>1. ASSUME NEW r, RowOK(r), r.state \in ACTIVE
      PROVE  Claimable(Late(r)) \/ Sweepable(Late(r))
  BY <1>1 DEF RowOK, Row, Late, Claimable, Sweepable, Stamp, RUNNING, ACTIVE
<1>2. IInv => NoStrandedJob
  BY <1>1 DEF IInv, NoStrandedJob
<1> QED BY <1>2, Invariance, PTL

-----------------------------------------------------------------------------
(* Action properties: they hold of every row step from a row that is OK. *)

(* A pinned digest stays as it is until the row is deleted. *)
THEOREM SnapshotStaysPinned == Spec => SnapshotPinned
<1>1. IInv /\ [Next]_vars =>
        [\A j \in JobId : rows[j].snapshot # Null =>
           rows'[j].snapshot = rows[j].snapshot \/ rows'[j].state = "deleted"]_vars
  BY StepsAreRowSteps, PinnedStays DEF IInv
<1> QED BY <1>1, Invariance, PTL DEF Spec, SnapshotPinned

(* A token is replaced by another one only when the lease has lapsed or a
   retry call has put the job back in the queue. *)
THEOREM LeasesAreRespected == Spec => LeaseRespected
<1>1. ASSUME NEW r, NEW s, RowOK(r), RowStep(r, s), r.token # Null,
             s.token \notin {r.token, Null}
      PROVE  r.lease = "past" \/ r.state = "queued"
  <2>1. CASE r.token # Null /\ HolderWrote(r, s)
    BY <1>1, <2>1 DEF HolderWrote, RowOK, Row, Renewed, Pinned, InPhase, Finished, Failed,
       Released, WithoutClaim
  <2>2. CASE ~ (r.token # Null /\ HolderWrote(r, s))
    BY <1>1, <2>2 DEF RowStep, RowOK, Row, NoRow, DeletedRow, QueuedRow, CancelWritten,
       RetryWritten, Swept, Claimed, Claimable, Released, WithoutClaim, GONE
  <2> QED BY <2>1, <2>2
<1>2. IInv /\ [Next]_vars =>
        [\A j \in JobId :
           rows[j].token # Null /\ rows'[j].token \notin {rows[j].token, Null} =>
             rows[j].lease = "past" \/ rows[j].state = "queued"]_vars
  BY <1>1, StepsAreRowSteps DEF IInv
<1> QED BY <1>2, Invariance, PTL DEF Spec, LeaseRespected

(* A row whose statement is not the write of a call keeps its job settled:
   a holder needs a claim, and the other statements look at the state. *)
LEMMA SettledStays ==
  ASSUME NEW r, NEW s, RowOK(r), Settled(r), RowStep(r, s), s.state \in ACTIVE
  PROVE  s = RetryWritten(r) \/ s = CancelWritten(r, "cancel_requested")
<1>1. r.token = Null /\ r.state \in TERMINAL
  BY DEF Settled, RowOK, TERMINAL
<1>2. s # r /\ s # DeletedRow /\ s # CancelWritten(r, "cancelled")
  BY <1>1 DEF RowOK, Row, CancelWritten, NoRow, DeletedRow, ACTIVE, TERMINAL, RUNNING
<1>3. ~ Claimable(r) /\ r.state \notin RUNNING \cup {"absent"} /\ Swept(r) = r
  BY <1>1 DEF Claimable, Swept, Sweepable, TERMINAL, RUNNING
<1>4. r.lease = "null" /\ s # [r EXCEPT !.retryAt = "past"]
  BY <1>1 DEF RowOK, Row, ACTIVE, TERMINAL, RUNNING
<1> QED BY <1>1, <1>2, <1>3, <1>4 DEF RowStep

(* A settled job becomes active only when a client writes what it decided. *)
THEOREM SettledJobsAreReactivatedByCalls == Spec => OnlyCallsReactivate
<1> DEFINE Called(j) == \E c \in Client : /\ calls[c].job = j /\ calls'[c] = NoCall
                                         /\ calls[c].write \in {"queued", "cancel_requested"}
<1>1. ASSUME IInv, [Next]_vars, NEW i \in JobId, Settled(rows[i]), rows'[i].state \in ACTIVE
      PROVE  Called(i)
  <2> rows \in [JobId -> Row] /\ calls \in [Client -> Call \cup {NoCall}] /\ claims \subseteq Claim
    BY <1>1 DEF IInv, TypeOK
  <2>1. rows[i].token = Null /\ rows[i].state \in TERMINAL /\ rows'[i] # rows[i]
    BY <1>1 DEF Settled, RowOK, IInv, TERMINAL, ACTIVE, RUNNING
  <2>2. RowOK(rows[i]) /\ RowStep(rows[i], rows'[i])
    BY <1>1, StepsAreRowSteps DEF IInv
  <2>3. \/ rows'[i] = RetryWritten(rows[i])
        \/ rows'[i] = CancelWritten(rows[i], "cancel_requested")
    BY <1>1, <2>2, SettledStays
  <2>4. rows'[i].state \in {"queued", "cancel_requested"}
    BY <2>3 DEF RetryWritten, CancelWritten, Row
  <2>5. ASSUME NEW c \in Client, CallStep(c) PROVE Called(i)
    <3>1. CASE CancelWrite(c)
      BY <2>1, <2>4, <3>1 DEF CancelWrite, Returns, CancelWritten, Row
    <3>2. CASE RetryWrite(c)
      BY <2>1, <3>2 DEF RetryWrite, Returns
    <3>3. CASE CallFindsNothing(c) \/ \E j \in JobId : CancelRead(c, j) \/ RetryRead(c, j)
      BY <2>1, <3>3 DEF CallFindsNothing, CancelRead, RetryRead
    <3> QED BY <2>5, <3>1, <3>2, <3>3 DEF CallStep
  <2>6. ASSUME NEW j \in JobId, NEW d \in Destination, Enqueue(j, d) PROVE FALSE
    BY <2>1, <2>6 DEF Enqueue, TERMINAL
  <2>7. ASSUME NEW j \in JobId, Dismiss(j) PROVE FALSE
    BY <2>1, <2>4, <2>7 DEF Dismiss, DeletedRow, NoRow
  <2>8. ASSUME NEW jobs \in SUBSET JobId, Prune(jobs) PROVE FALSE
    BY <2>1, <2>4, <2>8 DEF Prune, DeletedRow, NoRow
  <2>9. Swept(rows[i]) = rows[i] /\ ~ Claimable(rows[i]) /\ rows[i].state \notin RUNNING
    BY <2>1 DEF Swept, Sweepable, Claimable, TERMINAL, RUNNING
  <2>10. ASSUME ClaimNothing \/ \E w \in Worker, j \in JobId, t \in Token : ClaimJob(w, j, t)
         PROVE  FALSE
    BY <2>1, <2>9, <2>10 DEF ClaimNothing, ClaimJob, AfterSweep, Due
  <2>11. ASSUME NEW c \in claims, HolderStep(c) PROVE FALSE
    <3>1. c.token # Null
      BY NullIsNoValue DEF Claim
    <3>2. ASSUME NEW row, HolderWrites(c, row) PROVE FALSE
      BY <2>1, <3>1, <3>2 DEF HolderWrites, HeldBy
    <3>3. CASE Forget(c)
      BY <2>1, <3>3 DEF Forget
    <3> QED BY <2>11, <3>2, <3>3 DEF HolderStep, Heartbeat, SaveSnapshot, ProgressPhase,
              Finish, FailOrRetry, ReleaseClaim
  <2>12. ASSUME NEW pool \in Pool, Release(pool) PROVE FALSE
    BY <2>1, <2>9, <2>12 DEF Release
  <2>13. ASSUME NEW lost \in SUBSET claims, NEW clients \in SUBSET Client,
                ProcessDies(lost, clients)
         PROVE  FALSE
    BY <2>1, <2>13 DEF ProcessDies
  <2>14. ASSUME NEW j \in JobId, LeaseLapses(j) \/ RetryFallsDue(j) PROVE FALSE
    BY <2>1, <2>4, <2>14 DEF LeaseLapses, RetryFallsDue, Row, TERMINAL
  <2>15. CASE UNCHANGED vars
    BY <2>1, <2>15 DEF vars
  <2> QED BY <1>1, <2>5, <2>6, <2>7, <2>8, <2>10, <2>11, <2>12, <2>13, <2>14, <2>15 DEF Next
<1>2. IInv /\ [Next]_vars =>
        [\A j \in JobId : Settled(rows[j]) /\ rows'[j].state \in ACTIVE =>
           \E c \in Client : /\ calls[c].job = j /\ calls'[c] = NoCall
                             /\ calls[c].write \in {"queued", "cancel_requested"}]_vars
  BY <1>1
<1> QED BY <1>2, Invariance, PTL DEF Spec, OnlyCallsReactivate

-----------------------------------------------------------------------------
(* Tokens.  Only a claim brings a token into the table or into memory. *)
LEMMA TokenStep ==
  ASSUME TypeOK, [Next]_vars,
         ~ \E w \in Worker, j \in JobId, t \in Token : ClaimJob(w, j, t)
  PROVE  /\ \A j \in JobId : rows'[j].token \in {rows[j].token, Null}
         /\ claims' \subseteq claims
<1> DEFINE Kept == \A j \in JobId : rows'[j].token \in {rows[j].token, Null}
           Goal == Kept /\ claims' \subseteq claims
<1> rows \in [JobId -> Row]
  BY DEF TypeOK
<1>1. ASSUME NEW j \in JobId, NEW d \in Destination, Enqueue(j, d) PROVE Goal
  BY <1>1 DEF Enqueue, QueuedRow, NoRow
<1>2. ASSUME NEW c \in Client, CallStep(c) PROVE Goal
  <2>1. CASE \E j \in JobId : CancelRead(c, j) \/ RetryRead(c, j)
    BY <2>1 DEF CancelRead, RetryRead
  <2>2. CASE CancelWrite(c)
    BY <2>2 DEF CancelWrite, CancelWritten, Row
  <2>3. CASE RetryWrite(c)
    BY <2>3 DEF RetryWrite, RetryWritten, Row
  <2>4. CASE CallFindsNothing(c)
    BY <2>4 DEF CallFindsNothing
  <2> QED BY <1>2, <2>1, <2>2, <2>3, <2>4 DEF CallStep
<1>3. ASSUME NEW j \in JobId, Dismiss(j) PROVE Goal
  BY <1>3 DEF Dismiss, DeletedRow, NoRow
<1>4. ASSUME NEW jobs \in SUBSET JobId, Prune(jobs) PROVE Goal
  BY <1>4 DEF Prune, DeletedRow, NoRow
<1>5. CASE ClaimNothing
  BY <1>5 DEF ClaimNothing, AfterSweep, Swept, WithoutClaim, Row
<1>6. ASSUME NEW c \in claims, HolderStep(c) PROVE Goal
  <2> c.job \in JobId /\ rows[c.job] \in Row
    BY DEF TypeOK, Claim
  <2>1. ASSUME NEW row, HolderWrites(c, row), row.token \in {rows[c.job].token, Null}
        PROVE  Goal
    BY <2>1 DEF HolderWrites
  <2>2. CASE Heartbeat(c)
    BY <2>1, <2>2 DEF Heartbeat, Renewed, Row
  <2>3. CASE \E d \in Digest : SaveSnapshot(c, d)
    BY <2>1, <2>3 DEF SaveSnapshot, Pinned, Row
  <2>4. CASE \E phase \in {"copying", "publishing", "verifying"} : ProgressPhase(c, phase)
    BY <2>1, <2>4 DEF ProgressPhase, InPhase, Row
  <2>5. CASE \E state \in {"completed", "cancelled"} : Finish(c, state)
    BY <2>1, <2>5 DEF Finish, Finished, WithoutClaim, Row
  <2>6. CASE \E retryable \in BOOLEAN : FailOrRetry(c, retryable)
    BY <2>1, <2>6 DEF FailOrRetry, Failed, WithoutClaim, Row
  <2>7. CASE ReleaseClaim(c)
    BY <2>1, <2>7 DEF ReleaseClaim, Released, WithoutClaim, Row
  <2>8. CASE Forget(c)
    BY <2>8 DEF Forget
  <2> QED BY <1>6, <2>2, <2>3, <2>4, <2>5, <2>6, <2>7, <2>8 DEF HolderStep
<1>7. ASSUME NEW pool \in Pool, Release(pool) PROVE Goal
  BY <1>7 DEF Release, Released, WithoutClaim, Row
<1>8. ASSUME NEW lost \in SUBSET claims, NEW clients \in SUBSET Client,
             ProcessDies(lost, clients)
      PROVE  Goal
  BY <1>8 DEF ProcessDies
<1>9. ASSUME NEW j \in JobId, LeaseLapses(j) \/ RetryFallsDue(j) PROVE Goal
  BY <1>9 DEF LeaseLapses, RetryFallsDue, Row
<1>10. CASE UNCHANGED vars
  BY <1>10 DEF vars
<1> QED
  BY <1>1, <1>2, <1>3, <1>4, <1>5, <1>6, <1>7, <1>8, <1>9, <1>10 DEF Next

=============================================================================
