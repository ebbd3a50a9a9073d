------------------------------- MODULE JobStore -------------------------------
(***************************************************************************)
(* SQLiteQueueStore: the durable queue of copy jobs, as the tasks of one   *)
(* or more managers use it.  Every method that runs in one transaction is  *)
(* one action.  cancel and retry read the row in one connection and write  *)
(* it in another, so each is two actions with any other step between.      *)
(*                                                                         *)
(* A worker that was given a claim keeps <<job, token>> in memory until    *)
(* its run is over, whatever happened to the row meanwhile: `claims` is    *)
(* what running code remembers, and the row is what the database says.     *)
(***************************************************************************)
EXTENDS JobRows

CONSTANTS
  Client,   \* tasks that call manager.cancel and manager.retry
  Pool      \* the sets of worker ids of one manager each

ASSUME PoolsAreWorkers == Pool \subseteq SUBSET Worker

VARIABLES
  rows,     \* the table copy_jobs
  calls,    \* what each client has read and not yet written
  claims    \* the claims that running workers remember

vars == <<rows, calls, claims>>

Claim == [job : JobId, token : Token]

Call == [job : JobId, write : {"cancelled", "cancel_requested", "queued"}]

NoCall == [job |-> Null, write |-> Null]

TypeOK ==
  /\ rows \in [JobId -> Row]
  /\ calls \in [Client -> Call \cup {NoCall}]
  /\ claims \subseteq Claim

Init ==
  /\ rows = [j \in JobId |-> NoRow]
  /\ calls = [c \in Client |-> NoCall]
  /\ claims = {}

-----------------------------------------------------------------------------
(* The public API.  Enqueue takes any unused id: created_at is read before
   the write lock is taken, so rows may be inserted out of its order.  An
   enqueue that finds an active job for the destination changes nothing,
   whether it attaches to that job or is refused. *)

Targets(j, d) == rows[j].state \in ACTIVE /\ rows[j].destination = d

Enqueue(j, d) ==
  /\ rows[j].state = "absent"
  /\ \A k \in JobId : ~ Targets(k, d)
  /\ rows' = [rows EXCEPT ![j] = QueuedRow(d)]
  /\ UNCHANGED <<calls, claims>>

CancelRead(c, j) ==
  /\ calls[c] = NoCall
  /\ rows[j].state \in ACTIVE
  /\ calls' = [calls EXCEPT ![c] = [job |-> j, write |-> CancelState(rows[j])]]
  /\ UNCHANGED <<rows, claims>>

RetryRead(c, j) ==
  /\ calls[c] = NoCall
  /\ rows[j].state = "failed"
  /\ calls' = [calls EXCEPT ![c] = [job |-> j, write |-> "queued"]]
  /\ UNCHANGED <<rows, claims>>

Returns(c) == calls' = [calls EXCEPT ![c] = NoCall]

CancelWrite(c) ==
  LET j == calls[c].job IN
  /\ calls[c].write \in {"cancelled", "cancel_requested"}
  /\ Exists(rows[j])
  /\ rows' = [rows EXCEPT ![j] = CancelWritten(rows[j], calls[c].write)]
  /\ Returns(c)
  /\ UNCHANGED claims

RetryWrite(c) ==
  LET j == calls[c].job IN
  /\ calls[c].write = "queued"
  /\ Exists(rows[j])
  /\ rows' = [rows EXCEPT ![j] = RetryWritten(rows[j])]
  /\ Returns(c)
  /\ UNCHANGED claims

(* The row is gone when the write comes: JobNotFoundError. *)
CallFindsNothing(c) ==
  /\ calls[c] # NoCall
  /\ ~ Exists(rows[calls[c].job])
  /\ Returns(c)
  /\ UNCHANGED <<rows, claims>>

Dismiss(j) ==
  /\ rows[j].state \in TERMINAL
  /\ rows' = [rows EXCEPT ![j] = DeletedRow]
  /\ UNCHANGED <<calls, claims>>

(* Every choice of states and age selects some set of terminal jobs. *)
Prune(jobs) ==
  /\ \A j \in jobs : rows[j].state \in TERMINAL
  /\ rows' = [j \in JobId |-> IF j \in jobs THEN DeletedRow ELSE rows[j]]
  /\ UNCHANGED <<calls, claims>>

-----------------------------------------------------------------------------
(* Workers.  A claim first settles the cancelled jobs nobody works on, then
   takes the oldest job that is due. *)

Unused(t) == (\A j \in JobId : rows[j].token # t) /\ (\A c \in claims : c.token # t)

AfterSweep == [j \in JobId |-> Swept(rows[j])]

Due == {j \in JobId : Claimable(rows[j])}

ClaimNothing ==
  /\ Due = {}
  /\ rows' = AfterSweep
  /\ UNCHANGED <<calls, claims>>

ClaimJob(w, j, t) ==
  /\ j \in Due
  /\ \A k \in Due : j <= k
  /\ Unused(t)
  /\ rows' = [AfterSweep EXCEPT ![j] = Claimed(rows[j], w, t)]
  /\ claims' = claims \cup {[job |-> j, token |-> t]}
  /\ UNCHANGED calls

(* The holder of claim c writes the row of its job; the run may end with it. *)
HolderWrites(c, row) ==
  /\ c \in claims
  /\ HeldBy(rows[c.job], c.token)
  /\ rows' = [rows EXCEPT ![c.job] = row]
  /\ claims' \in {claims, claims \ {c}}
  /\ UNCHANGED calls

Heartbeat(c) ==
  /\ Renewable(rows[c.job])
  /\ HolderWrites(c, Renewed(rows[c.job]))

SaveSnapshot(c, d) ==
  /\ rows[c.job].state = "planning"
  /\ HolderWrites(c, Pinned(rows[c.job], d))

ProgressPhase(c, phase) == HolderWrites(c, InPhase(rows[c.job], phase))

Finish(c, state) == HolderWrites(c, Finished(rows[c.job], state))

FailOrRetry(c, retryable) == HolderWrites(c, Failed(rows[c.job], retryable))

ReleaseClaim(c) ==
  /\ rows[c.job].state \in RUNNING
  /\ HolderWrites(c, Released(rows[c.job]))

(* A run that ends without a write, as one that was fenced off does. *)
Forget(c) ==
  /\ c \in claims
  /\ claims' = claims \ {c}
  /\ UNCHANGED <<rows, calls>>

(* close() releases what the workers of one manager still hold. *)
Release(pool) ==
  /\ rows' = [j \in JobId |-> IF rows[j].worker \in pool /\ rows[j].state \in RUNNING
                                THEN Released(rows[j]) ELSE rows[j]]
  /\ UNCHANGED <<calls, claims>>

(* A process dies with the claims and the calls it had in memory. *)
ProcessDies(lost, clients) ==
  /\ claims' = claims \ lost
  /\ calls' = [c \in Client |-> IF c \in clients THEN NoCall ELSE calls[c]]
  /\ UNCHANGED rows

-----------------------------------------------------------------------------
(* The clock. *)

LeaseLapses(j) ==
  /\ rows[j].lease = "future"
  /\ rows' = [rows EXCEPT ![j].lease = "past"]
  /\ UNCHANGED <<calls, claims>>

RetryFallsDue(j) ==
  /\ rows[j].retryAt = "future"
  /\ rows' = [rows EXCEPT ![j].retryAt = "past"]
  /\ UNCHANGED <<calls, claims>>

-----------------------------------------------------------------------------

HolderStep(c) ==
  \/ Heartbeat(c)
  \/ \E d \in Digest : SaveSnapshot(c, d)
  \/ \E phase \in {"copying", "publishing", "verifying"} : ProgressPhase(c, phase)
  \/ \E state \in {"completed", "cancelled"} : Finish(c, state)
  \/ \E retryable \in BOOLEAN : FailOrRetry(c, retryable)
  \/ ReleaseClaim(c)
  \/ Forget(c)

CallStep(c) ==
  \/ \E j \in JobId : CancelRead(c, j) \/ RetryRead(c, j)
  \/ CancelWrite(c)
  \/ RetryWrite(c)
  \/ CallFindsNothing(c)

Next ==
  \/ \E j \in JobId, d \in Destination : Enqueue(j, d)
  \/ \E c \in Client : CallStep(c)
  \/ \E j \in JobId : Dismiss(j)
  \/ \E jobs \in SUBSET JobId : Prune(jobs)
  \/ ClaimNothing
  \/ \E w \in Worker, j \in JobId, t \in Token : ClaimJob(w, j, t)
  \/ \E c \in claims : HolderStep(c)
  \/ \E pool \in Pool : Release(pool)
  \/ \E lost \in SUBSET claims, clients \in SUBSET Client : ProcessDies(lost, clients)
  \/ \E j \in JobId : LeaseLapses(j) \/ RetryFallsDue(j)

Spec == Init /\ [][Next]_vars

-----------------------------------------------------------------------------
(* Properties. *)

(* Claims and leases agree with the state of the row: worker_id, claim_token
   and lease_expires_at are set and cleared together; a running job always
   has them; one that waits for its retry, has completed, has failed or is
   gone never has.  A cancelled job may have them, and so may a queued one:
   cancel and retry write the state and leave the claim of a worker that took
   the job in between (store.py:450, 461). *)
ClaimFieldsAgree ==
  \A j \in JobId :
    LET r == rows[j] IN
    /\ r.worker = Null <=> r.token = Null
    /\ r.lease = "null" <=> r.token = Null
    /\ r.state \in RUNNING => r.token # Null
    /\ r.state \in {"retry_wait", "completed", "failed"} \cup GONE => r.token = Null

(* No active job is stranded: once the stamps it carries have passed, the
   statements of claim pick it up, whatever calls, runs and crashes led to
   this row (store.claim). *)
Late(r) ==
  LET passed(s) == IF s = "null" THEN "null" ELSE "past"
  IN [r EXCEPT !.lease = passed(@), !.retryAt = passed(@)]

NoStrandedJob ==
  \A j \in JobId :
    rows[j].state \in ACTIVE => Claimable(Late(rows[j])) \/ Sweepable(Late(rows[j]))

(* A retry always finds the original snapshot: once a row has pinned a
   digest, no step but the deletion of the row changes it (save_snapshot,
   store.claim, store.retry). *)
SnapshotPinned ==
  [][\A j \in JobId : rows[j].snapshot # Null =>
       rows'[j].snapshot = rows[j].snapshot \/ rows'[j].state = "deleted"]_vars

(* A claim changes hands only when its lease has lapsed.  The exception is in
   the formula because it is in the code: a retry call that read the row
   before another retry and a claim puts the job back to "queued" and leaves
   the claim (store.py:461), and the next claim takes it from its holder. *)
LeaseRespected ==
  [][\A j \in JobId : rows[j].token # Null /\ rows'[j].token \notin {rows[j].token, Null} =>
       rows[j].lease = "past" \/ rows[j].state = "queued"]_vars

Settled(r) ==
  \/ r.state \in {"completed", "failed"}
  \/ r.state = "cancelled" /\ r.token = Null

(* A settled job comes back to work only by a call: no write of a run that
   was fenced off, no claim, sweep or release moves a job that completed,
   failed, or was cancelled and holds no claim (store.retry, store.cancel).
   What the calls themselves do is not limited here: a retry looks for no
   newer job of the destination, and a late cancel reopens a settled job.  A
   cancelled job that was claimed between the two steps of the cancel call
   still has its claim, and is moved by the holder. *)
OnlyCallsReactivate ==
  [][\A j \in JobId : Settled(rows[j]) /\ rows'[j].state \in ACTIVE =>
       \E c \in Client : /\ calls[c].job = j /\ calls'[c] = NoCall
                         /\ calls[c].write \in {"queued", "cancel_requested"}]_vars

=============================================================================
