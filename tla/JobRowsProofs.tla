----------------------------- MODULE JobRowsProofs -----------------------------
(***************************************************************************)
(* What holds of one row of copy_jobs, whoever writes it.  RowOK says what *)
(* a row of the table always satisfies, one lemma per SQL statement says   *)
(* that the statement keeps it, and RowStep lists the statements.  The     *)
(* proofs about JobStore and CopyWorkers show that their steps take every  *)
(* row through RowStep, and read their properties off it.                  *)
(***************************************************************************)
EXTENDS JobRows, TLAPS

(* Beyond its type, a row carries a claim (worker, token and lease
   together) exactly where its state allows one; a waiting row knows when it
   is due; a row being planned has no snapshot yet. *)
RowOK(r) ==
  /\ r \in Row
  /\ r.worker = Null <=> r.token = Null
  /\ r.lease = "null" <=> r.token = Null
  /\ r.state \in RUNNING => r.token # Null
  /\ r.state \in {"retry_wait", "completed", "failed"} \cup GONE => r.token = Null
  /\ r.state = "retry_wait" => r.retryAt # "null"
  /\ r.state \in {"planning"} \cup GONE => r.snapshot = Null

-----------------------------------------------------------------------------
(* One lemma per statement. *)

(* An absent row and a deleted one carry nothing. *)
LEMMA NoRowOK == RowOK(NoRow) /\ RowOK(DeletedRow)
BY DEF RowOK, Row, NoRow, DeletedRow, Stamp, RUNNING, ACTIVE, TERMINAL, GONE

(* enqueue inserts a row without a claim. *)
LEMMA QueuedRowOK == ASSUME NEW d \in Destination PROVE RowOK(QueuedRow(d))
BY DEF RowOK, Row, NoRow, QueuedRow, Stamp, RUNNING, ACTIVE, TERMINAL, GONE

(* A row without its claim is a row. *)
LEMMA UnclaimedIsRow ==
  ASSUME NEW r, RowOK(r)
  PROVE  /\ WithoutClaim(r) \in Row
         /\ WithoutClaim(r).worker = Null /\ WithoutClaim(r).token = Null
         /\ WithoutClaim(r).lease = "null" /\ WithoutClaim(r).snapshot = r.snapshot
BY DEF WithoutClaim, RowOK, Row, Stamp

(* So is one with another state and another time to be retried at. *)
LEMMA RescheduledIsRow ==
  ASSUME NEW r \in Row, NEW state \in ACTIVE \cup TERMINAL, NEW at \in Stamp
  PROVE  [r EXCEPT !.state = state, !.retryAt = at] \in Row
BY DEF Row

(* The sweep of claim clears the claim of what it settles. *)
LEMMA SweptOK == ASSUME NEW r, RowOK(r) PROVE RowOK(Swept(r))
<1> DEFINE s == [WithoutClaim(r) EXCEPT !.state = "cancelled"]
<1>1. s \in Row
  BY UnclaimedIsRow DEF Row, TERMINAL
<1>2. s.worker = Null /\ s.token = Null /\ s.lease = "null" /\ s.state = "cancelled"
  BY UnclaimedIsRow DEF Row
<1>3. RowOK(s)
  BY <1>1, <1>2 DEF RowOK, RUNNING, GONE
<1> QED BY <1>3 DEF Swept

(* claim sets worker, token and lease together. *)
LEMMA ClaimedOK ==
  ASSUME NEW r, RowOK(r), NEW w \in Worker, NEW t \in Token
  PROVE  RowOK(Claimed(r, w, t))
<1> DEFINE s == Claimed(r, w, t)
<1>1. r \in Row /\ w # Null /\ t # Null
  BY NullIsNoValue DEF RowOK
<1>2. /\ s.state = IF r.snapshot = Null THEN "planning" ELSE "copying"
      /\ s.worker = w /\ s.token = t /\ s.lease = "future" /\ s.snapshot = r.snapshot
  BY <1>1 DEF Row, Claimed
<1>3. s \in Row
  BY <1>1 DEF Row, Claimed, Stamp, RUNNING, ACTIVE
<1> QED BY <1>1, <1>2, <1>3 DEF RowOK, RUNNING, GONE

(* heartbeat renews the lease of a row that has a claim. *)
LEMMA RenewedOK ==
  ASSUME NEW r, RowOK(r), r.token # Null PROVE RowOK(Renewed(r))
BY DEF RowOK, Row, Renewed, Stamp, RUNNING, ACTIVE, TERMINAL, GONE

(* save_snapshot keeps the claim and leaves the state planning. *)
LEMMA PinnedOK ==
  ASSUME NEW r, RowOK(r), r.token # Null, NEW d \in Digest PROVE RowOK(Pinned(r, d))
BY DEF RowOK, Row, Pinned, Stamp, RUNNING, ACTIVE, TERMINAL, GONE

(* progress moves a claimed row to another running state. *)
LEMMA InPhaseOK ==
  ASSUME NEW r, RowOK(r), r.token # Null,
         NEW phase \in {"copying", "publishing", "verifying"}
  PROVE  RowOK(InPhase(r, phase))
BY DEF RowOK, Row, InPhase, Stamp, RUNNING, ACTIVE, TERMINAL, GONE

(* finish clears the claim. *)
LEMMA FinishedOK ==
  ASSUME NEW r, RowOK(r), NEW state \in {"completed", "cancelled"}
  PROVE  RowOK(Finished(r, state))
<1> DEFINE s == Finished(r, state)
<1>1. s \in Row
  BY UnclaimedIsRow DEF Finished, Row, TERMINAL
<1>2. s.worker = Null /\ s.token = Null /\ s.lease = "null" /\ s.state = state
  BY UnclaimedIsRow DEF Finished, Row
<1> QED BY <1>1, <1>2 DEF RowOK, RUNNING, GONE

(* fail_or_retry clears the claim, and a job that waits knows until when. *)
LEMMA FailedOK ==
  ASSUME NEW r, RowOK(r), NEW retryable \in BOOLEAN PROVE RowOK(Failed(r, retryable))
<1> DEFINE s == Failed(r, retryable)
<1>1. s \in Row
  BY UnclaimedIsRow, RescheduledIsRow DEF Failed, Stamp, ACTIVE, TERMINAL
<1>2. s.worker = Null /\ s.token = Null /\ s.lease = "null"
  BY UnclaimedIsRow DEF Failed, Row
<1>3. /\ s.state = IF retryable THEN "retry_wait" ELSE "failed"
      /\ s.retryAt = IF retryable THEN "future" ELSE "null"
  BY UnclaimedIsRow DEF Failed, Row
<1> QED BY <1>1, <1>2, <1>3 DEF RowOK, RUNNING, GONE

(* release and release_claim clear the claim, and the job is due at once. *)
LEMMA ReleasedOK == ASSUME NEW r, RowOK(r) PROVE RowOK(Released(r))
<1> DEFINE s == Released(r)
<1>1. s \in Row
  BY UnclaimedIsRow, RescheduledIsRow DEF Released, Stamp, ACTIVE
<1>2. s.worker = Null /\ s.token = Null /\ s.lease = "null"
  BY UnclaimedIsRow DEF Released, Row
<1>3. /\ s.state = IF r.snapshot = Null THEN "queued" ELSE "retry_wait"
      /\ s.retryAt = "past"
  BY UnclaimedIsRow DEF Released, Row
<1> QED BY <1>1, <1>2, <1>3 DEF RowOK, RUNNING, GONE

(* cancel writes the state over whatever the row is, claim or none. *)
LEMMA CancelWrittenOK ==
  ASSUME NEW r, RowOK(r), NEW state \in {"cancelled", "cancel_requested"}
  PROVE  RowOK(CancelWritten(r, state))
BY DEF RowOK, Row, CancelWritten, Stamp, RUNNING, ACTIVE, TERMINAL, GONE

(* retry queues the job and leaves a claim as it is. *)
LEMMA RetryWrittenOK == ASSUME NEW r, RowOK(r) PROVE RowOK(RetryWritten(r))
BY DEF RowOK, Row, RetryWritten, Stamp, RUNNING, ACTIVE, TERMINAL, GONE

(* A lease that passes is still a lease. *)
LEMMA LapsedOK ==
  ASSUME NEW r, RowOK(r), r.lease = "future" PROVE RowOK([r EXCEPT !.lease = "past"])
BY DEF RowOK, Row, Stamp, RUNNING, ACTIVE, TERMINAL, GONE

(* A retry that falls due still has its time. *)
LEMMA FallenDueOK ==
  ASSUME NEW r, RowOK(r), r.retryAt = "future" PROVE RowOK([r EXCEPT !.retryAt = "past"])
BY DEF RowOK, Row, Stamp, RUNNING, ACTIVE, TERMINAL, GONE

-----------------------------------------------------------------------------
(* What a step of the store can make of one row. *)
HolderWrote(r, s) ==
  \/ s = Renewed(r)
  \/ r.state = "planning" /\ \E d \in Digest : s = Pinned(r, d)
  \/ \E phase \in {"copying", "publishing", "verifying"} : s = InPhase(r, phase)
  \/ \E state \in {"completed", "cancelled"} : s = Finished(r, state)
  \/ \E retryable \in BOOLEAN : s = Failed(r, retryable)
  \/ s = Released(r)

RowStep(r, s) ==
  \/ s = r
  \/ \E d \in Destination : r.state = "absent" /\ s = QueuedRow(d)
  \/ Exists(r) /\ \E state \in {"cancelled", "cancel_requested"} : s = CancelWritten(r, state)
  \/ Exists(r) /\ s = RetryWritten(r)
  \/ r.state \in TERMINAL /\ s = DeletedRow
  \/ s = Swept(r)
  \/ Claimable(r) /\ \E w \in Worker, t \in Token : s = Claimed(r, w, t)
  \/ r.token # Null /\ HolderWrote(r, s)
  \/ r.state \in RUNNING /\ s = Released(r)
  \/ r.lease = "future" /\ s = [r EXCEPT !.lease = "past"]
  \/ r.retryAt = "future" /\ s = [r EXCEPT !.retryAt = "past"]

(* Every statement keeps RowOK, by the lemma of that statement. *)
LEMMA RowStepKeepsRowOK ==
  ASSUME NEW r, NEW s, RowOK(r), RowStep(r, s)
  PROVE  RowOK(s)
<1>1. CASE r.token # Null /\ HolderWrote(r, s)
  BY <1>1, RenewedOK, PinnedOK, InPhaseOK, FinishedOK, FailedOK, ReleasedOK DEF HolderWrote
<1>2. CASE ~ (r.token # Null /\ HolderWrote(r, s))
  BY <1>2, NoRowOK, QueuedRowOK, CancelWrittenOK, RetryWrittenOK, SweptOK, ClaimedOK,
     ReleasedOK, LapsedOK, FallenDueOK DEF RowStep
<1> QED BY <1>1, <1>2

(* A pinned digest stays as it is until the row is deleted. *)
LEMMA PinnedStays ==
  ASSUME NEW r, NEW s, RowOK(r), RowStep(r, s), r.snapshot # Null
  PROVE  s.snapshot = r.snapshot \/ s.state = "deleted"
<1>1. CASE r.token # Null /\ HolderWrote(r, s)
  BY <1>1 DEF HolderWrote, RowOK, Row, Renewed, Pinned, InPhase, Finished, Failed, Released,
              WithoutClaim
<1>2. CASE ~ (r.token # Null /\ HolderWrote(r, s))
  BY <1>2 DEF RowStep, RowOK, Row, NoRow, DeletedRow, CancelWritten, RetryWritten, Swept,
              Claimed, Released, WithoutClaim, GONE
<1> QED BY <1>1, <1>2

(* A deleted row stays deleted. *)
LEMMA DeletedStays ==
  ASSUME NEW r, NEW s, RowOK(r), RowStep(r, s), r.state = "deleted"
  PROVE  s.state = "deleted"
<1>1. /\ r.token = Null /\ r.lease = "null" /\ ~ Exists(r) /\ ~ Claimable(r)
      /\ r.state \notin TERMINAL \cup RUNNING /\ Swept(r) = r
  BY DEF RowOK, Exists, GONE, Claimable, Swept, Sweepable, TERMINAL, RUNNING
<1> QED BY <1>1 DEF RowStep, RowOK, Row

=============================================================================
