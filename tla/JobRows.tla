------------------------------- MODULE JobRows -------------------------------
(***************************************************************************)
(* One row of the table copy_jobs (store.py), and what each SQL statement  *)
(* of SQLiteQueueStore does to a row.  The modules that interleave these   *)
(* statements are JobStore and CopyWorkers.                                *)
(*                                                                         *)
(* Times are abstracted to what the store's comparisons see: a time stamp  *)
(* is absent, still ahead of the clock, or behind it.  A job is known by   *)
(* a number; numbers follow the column created_at.                         *)
(***************************************************************************)
EXTENDS Integers

CONSTANTS
  JobId,        \* job ids (uuid4 in the code), ordered by created_at
  Destination,  \* destination references
  Digest,       \* source contents a plan can resolve to
  Token,        \* claim tokens (uuid4)
  Worker,       \* worker ids
  Null          \* SQL NULL

ASSUME JobIdsAreNumbers == JobId \subseteq Int
ASSUME NullIsNoValue == Null \notin Destination \cup Digest \cup Token \cup Worker

(* The states of a row, as the store groups them. *)
RUNNING == {"planning", "copying", "publishing", "verifying"}
ACTIVE == RUNNING \cup {"queued", "retry_wait", "cancel_requested"}
TERMINAL == {"completed", "failed", "cancelled"}

(* An id no row has had yet, and one whose row was deleted: uuids never
   come back. *)
GONE == {"absent", "deleted"}

Stamp == {"null", "future", "past"}

(* next_retry_at is called retryAt and lease_expires_at lease; the snapshot
   is known by the root digest it pins. *)
Row ==
  [destination : Destination \cup {Null},
   state       : ACTIVE \cup TERMINAL \cup GONE,
   snapshot    : Digest \cup {Null},
   retryAt     : Stamp,
   worker      : Worker \cup {Null},
   token       : Token \cup {Null},
   lease       : Stamp]

NoRow == [destination |-> Null, state |-> "absent", snapshot |-> Null, retryAt |-> "null",
          worker |-> Null, token |-> Null, lease |-> "null"]

QueuedRow(d) == [NoRow EXCEPT !.destination = d, !.state = "queued"]

DeletedRow == [NoRow EXCEPT !.state = "deleted"]

Exists(r) == r.state \notin GONE

\* Mutant: the token is not compared.
HeldByAnyone(r, t) == Exists(r)

(* Every UPDATE of a worker carries WHERE id=? AND claim_token=?. *)
HeldBy(r, t) == Exists(r) /\ r.token = t

WithoutClaim(r) == [r EXCEPT !.worker = Null, !.token = Null, !.lease = "null"]

-----------------------------------------------------------------------------
(* claim *)

\* Mutant: worker_id IS NULL is forgotten.
SweepableLapsed(r) == r.state = "cancel_requested" /\ r.lease = "past"

Sweepable(r) == r.state = "cancel_requested" /\ (r.worker = Null \/ r.lease = "past")

Swept(r) == IF Sweepable(r) THEN [WithoutClaim(r) EXCEPT !.state = "cancelled"] ELSE r

\* Mutants: a running job needs no lapsed lease; a running job is never taken over.
ClaimableEarly(r) ==
  \/ r.state = "queued" \/ r.state \in RUNNING
  \/ r.state = "retry_wait" /\ r.retryAt = "past"

ClaimableWaiting(r) ==
  \/ r.state = "queued"
  \/ r.state = "retry_wait" /\ r.retryAt = "past"

Claimable(r) ==
  \/ r.state = "queued"
  \/ r.state = "retry_wait" /\ r.retryAt = "past"
  \/ r.state \in RUNNING /\ r.lease = "past"

\* Mutant: every run plans again.
ClaimedForPlanning(r, w, t) ==
  [r EXCEPT !.state = "planning", !.retryAt = "null", !.worker = w, !.token = t,
            !.lease = "future"]

Claimed(r, w, t) ==
  [r EXCEPT !.state = IF r.snapshot = Null THEN "planning" ELSE "copying",
            !.retryAt = "null", !.worker = w, !.token = t, !.lease = "future"]

-----------------------------------------------------------------------------
(* The writes of the holder of a claim. *)

Renewable(r) == r.state \notin TERMINAL

Renewed(r) == [r EXCEPT !.lease = "future"]

Pinned(r, d) == [r EXCEPT !.state = "copying", !.snapshot = d]

InPhase(r, phase) == [r EXCEPT !.state = phase]

\* Mutant: the claim is not cleared.
FinishedClaimed(r, state) == [r EXCEPT !.state = state]

Finished(r, state) == [WithoutClaim(r) EXCEPT !.state = state]

\* Mutant: the claim is not cleared.
FailedClaimed(r, retryable) ==
  [r EXCEPT !.state = IF retryable THEN "retry_wait" ELSE "failed",
            !.retryAt = IF retryable THEN "future" ELSE "null"]

Failed(r, retryable) ==
  [WithoutClaim(r) EXCEPT !.state = IF retryable THEN "retry_wait" ELSE "failed",
                          !.retryAt = IF retryable THEN "future" ELSE "null"]

Released(r) ==
  [WithoutClaim(r) EXCEPT !.state = IF r.snapshot = Null THEN "queued" ELSE "retry_wait",
                          !.retryAt = "past"]

-----------------------------------------------------------------------------
(* cancel and retry: the state an API call decides on from the row it reads,
   and what its UPDATE (WHERE id=?, nothing else) then does to the row. *)

CancelState(r) == IF r.state \in {"queued", "retry_wait"} THEN "cancelled" ELSE "cancel_requested"

CancelWritten(r, state) == [r EXCEPT !.state = state]

\* Mutant: a state that no statement selects.
RetryWrittenPending(r) == [r EXCEPT !.state = "pending", !.retryAt = "null"]

RetryWritten(r) == [r EXCEPT !.state = "queued", !.retryAt = "null"]

=============================================================================
