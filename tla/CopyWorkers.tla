------------------------------ MODULE CopyWorkers ------------------------------
(***************************************************************************)
(* The worker tasks of CopyManager (manager.py) over the durable store:    *)
(* _worker, _execute, _record_failure and _heartbeat, one action per await *)
(* that touches the store or the transfer service, together with the       *)
(* public calls, crashes of the process and errors of the database.        *)
(*                                                                         *)
(* run[w] is what worker w has in its local variables and where it stands: *)
(*                                                                         *)
(*   claim     about to call store.claim                                   *)
(*   claimed   the claim is committed, store.claim is to read its row      *)
(*   details   about to read the row and get the credentials               *)
(*   snapshot  about to read the snapshot                                  *)
(*   plan      waiting for the plan            save    about to save it    *)
(*   copy      about to open the copy stream   stream  waiting for events  *)
(*   check     about to ask cancellation_requested about an event          *)
(*   apply     about to write the event        stop    cancelled: DELETE   *)
(*   cancelled about to finish("cancelled")                                *)
(*   verifying about to write the last phase   finish  about to complete   *)
(*   error     in the handler of OCITransferError                          *)
(*   record    about to read the row in _record_failure                    *)
(*   fail      about to call fail_or_retry                                 *)
(*   dead      the task has ended with an exception                        *)
(***************************************************************************)
EXTENDS JobRows

CONSTANTS
  Client, Pool,
  Asks,               \* the calls clients make: a subset of {"cancel", "retry", "dismiss"}
  MaxAsks,            \* bound on those calls
  Faults,             \* what goes wrong: a subset of {"crash", "statement", "heartbeat"}
  MaxFaults,          \* bound on those faults
  MaxRetries,         \* retryable failures of a job before no_progress_timeout is over
  AllBlobsPlanned,    \* TRUE: the service reports no blob that its plan left out
  PunctualHeartbeats  \* TRUE: a lease outlives the start of its run, its heartbeat task and
                      \* the recording of a failure after it (two thirds of lease_seconds)

ASSUME BoundsAreNumbers == {MaxAsks, MaxFaults, MaxRetries} \subseteq Nat

VARIABLES
  rows, calls,  \* as in JobStore
  run,          \* the state of each worker task
  failures,     \* retries spent of the time that no_progress_timeout allows
  left,         \* how many calls and faults are still to come
  sent,         \* the contents the service was asked to copy, per job
  verified      \* the jobs for which the service has verified the destination

vars == <<rows, calls, run, failures, left, sent, verified>>
service == <<sent, verified>>

InExecute ==
  {"claimed", "details", "snapshot", "plan", "save", "copy", "stream", "check", "apply", "stop",
   "cancelled", "verifying", "finish", "error", "record", "fail"}

Stage == {"none", "opened", "copying", "reported", "verifying"}

Event == {"none", "copying", "progress", "verifying", "failed", "completed"}

Idle == [pc |-> "claim", job |-> Null, token |-> Null, digest |-> Null, stage |-> "none",
         event |-> "none", retryable |-> FALSE, outer |-> FALSE, beating |-> FALSE]

Run == [pc        : InExecute \cup {"claim", "dead"},
        job       : JobId \cup {Null},
        token     : Token \cup {Null},
        digest    : Digest \cup {Null},  \* the snapshot in memory
        stage     : Stage,               \* how far the event stream has got
        event     : Event,               \* the event being handled
        retryable : BOOLEAN,             \* of the failure being handled
        outer     : BOOLEAN,             \* it is handled by _worker, not by _execute
        beating   : BOOLEAN]             \* the heartbeat task is running

Held(r) == [job |-> r.job, token |-> r.token]

Busy(w) == run[w].pc \in InExecute

Store == INSTANCE JobStore WITH claims <- {Held(run[w]) : w \in {v \in Worker : Busy(v)}}

TypeOK ==
  /\ Store!TypeOK
  /\ run \in [Worker -> Run]
  /\ failures \in [JobId -> 0 .. MaxRetries]
  /\ left \in [asks : 0 .. MaxAsks, faults : 0 .. MaxFaults]
  /\ sent \in [JobId -> SUBSET Digest]
  /\ verified \subseteq JobId

Init ==
  /\ rows = [j \in JobId |-> NoRow]
  /\ calls = [c \in Client |-> Store!NoCall]
  /\ run = [w \in Worker |-> Idle]
  /\ failures = [j \in JobId |-> 0]
  /\ left = [asks |-> MaxAsks, faults |-> MaxFaults]
  /\ sent = [j \in JobId |-> {}]
  /\ verified = {}

-----------------------------------------------------------------------------
(* Steps of a worker, in the order of the code. *)

At(w, pc) == run[w].pc = pc

MyRow(w) == rows[run[w].job]

Mine(w) == HeldBy(MyRow(w), run[w].token)

Becomes(w, r) == run' = [run EXCEPT ![w] = r]

Goes(w, pc) == Becomes(w, [run[w] EXCEPT !.pc = pc])

Leaves(w) == Becomes(w, Idle)

OnlyRun == UNCHANGED <<rows, calls, failures, left, service>>

OnlyStore == UNCHANGED <<failures, left, service>>

(* The stream is left, for good: its variables are not read again. *)
LeavesStream(w, pc, retryable) ==
  Becomes(w, [run[w] EXCEPT !.pc = pc, !.digest = Null, !.stage = "none", !.event = "none",
                            !.retryable = retryable])

Catches(w, retryable) == LeavesStream(w, "error", retryable)

Stops(w, pc) == LeavesStream(w, pc, FALSE)

(* What an exception other than OCITransferError does: it leaves _execute,
   whose finally stops the heartbeat, and is recorded by _worker; raised by
   claim or by that recording it ends the task, with or without a claim. *)
Raised(r) ==
  IF r.pc \in {"claim", "claimed"} \/ r.outer
    THEN [Idle EXCEPT !.pc = "dead"]
    ELSE [Idle EXCEPT !.pc = "record", !.job = r.job, !.token = r.token, !.outer = TRUE]

Raises(w) == Becomes(w, Raised(run[w]))

ClaimNothing(w) ==
  /\ At(w, "claim")
  /\ UNCHANGED run
  /\ Store!ClaimNothing
  /\ OnlyStore

(* The token is new: which one does not matter. *)
ClaimJob(w, j) ==
  /\ At(w, "claim")
  /\ \E t \in Token : Store!Unused(t)
  /\ LET t == CHOOSE t \in Token : Store!Unused(t) IN
       /\ Becomes(w, [Idle EXCEPT !.pc = "claimed", !.job = j, !.token = t])
       /\ Store!ClaimJob(w, j, t)
  /\ OnlyStore

(* The job that claim returns is read after its commit; _execute then starts
   the heartbeat. *)
ReadClaimed(w) ==
  /\ At(w, "claimed")
  /\ IF Exists(MyRow(w))
       THEN Becomes(w, [run[w] EXCEPT !.pc = "details", !.beating = TRUE])
       ELSE Raises(w)
  /\ OnlyRun

(* The credential provider is the application's: it may raise anything. *)
ReadDetails(w) ==
  /\ At(w, "details")
  /\ \/ Exists(MyRow(w)) /\ Goes(w, "snapshot")
     \/ Exists(MyRow(w)) /\ \E retryable \in BOOLEAN : Catches(w, retryable)
     \/ Raises(w)
  /\ OnlyRun

ReadSnapshot(w) ==
  /\ At(w, "snapshot")
  /\ IF MyRow(w).snapshot = Null
       THEN Goes(w, "plan")
       ELSE Becomes(w, [run[w] EXCEPT !.pc = "copy", !.digest = MyRow(w).snapshot])
  /\ OnlyRun

(* The service resolves the source tag, which may move at any time. *)
Plan(w) ==
  /\ At(w, "plan")
  /\ \/ \E d \in Digest : Becomes(w, [run[w] EXCEPT !.pc = "save", !.digest = d])
     \/ (\E retryable \in BOOLEAN : Catches(w, retryable)) \/ Raises(w)
  /\ OnlyRun

\* Mutant: the result of save_snapshot is not looked at.
SaveSnapshotUnchecked(w) ==
  /\ At(w, "save")
  /\ Goes(w, "copy")
  /\ \/ Store!SaveSnapshot(Held(run[w]), run[w].digest)
     \/ ~ (Mine(w) /\ MyRow(w).state = "planning") /\ UNCHANGED <<rows, calls>>
  /\ OnlyStore

SaveSnapshot(w) ==
  /\ At(w, "save")
  /\ \/ /\ Goes(w, "copy")
        /\ Store!SaveSnapshot(Held(run[w]), run[w].digest)
        /\ OnlyStore
     \/ /\ ~ (Mine(w) /\ MyRow(w).state = "planning")
        /\ Leaves(w)
        /\ OnlyRun

(* A request that is too large to encode is not sent. *)
OpenStream(w) ==
  /\ At(w, "copy")
  /\ \/ /\ Becomes(w, [run[w] EXCEPT !.pc = "stream", !.stage = "opened"])
        /\ sent' = [sent EXCEPT ![run[w].job] = @ \cup {run[w].digest}]
        /\ UNCHANGED <<rows, calls, failures, left, verified>>
     \/ Raises(w) /\ OnlyRun

(* The service streams the phase copying, progress, the phase verifying
   and the result; it can fail, and the stream can break, at any point.
   Progress events of one copy are folded into one. *)
NextEvent(stage) ==
  CASE stage = "opened"    -> {"copying"}
    [] stage = "copying"   -> {"progress", "verifying"}
    [] stage = "reported"  -> {"verifying"}
    [] stage = "verifying" -> {"completed"}

StageAfter(stage, event) ==
  CASE event \in {"copying", "verifying"} -> event
    [] event = "progress" -> "reported"
    [] OTHER -> stage

Receive(w) ==
  /\ At(w, "stream")
  /\ \/ \E event \in NextEvent(run[w].stage) :
          /\ Becomes(w, [run[w] EXCEPT !.pc = "check", !.event = event,
                                       !.stage = StageAfter(@, event)])
          /\ verified' = IF event = "completed" THEN verified \cup {run[w].job} ELSE verified
     \/ \E retryable \in BOOLEAN :
          /\ Becomes(w, [run[w] EXCEPT !.pc = "check", !.event = "failed",
                                       !.retryable = retryable])
          /\ UNCHANGED verified
     \/ \E retryable \in BOOLEAN : Catches(w, retryable) /\ UNCHANGED verified
  /\ UNCHANGED <<rows, calls, failures, left, sent>>

(* store.cancellation_requested *)
CancellationRequested(w) == ~ Mine(w) \/ MyRow(w).state = "cancel_requested"

CheckEvent(w) ==
  /\ At(w, "check")
  /\ IF CancellationRequested(w) THEN Stops(w, "stop")
     ELSE CASE run[w].event \in {"copying", "progress", "verifying"} -> Goes(w, "apply")
            [] run[w].event = "failed" -> Catches(w, run[w].retryable)
            [] run[w].event = "completed" -> Stops(w, "verifying")
  /\ OnlyRun

(* A progress event writes the blob and the aggregates of the row, none of
   which this module keeps.  For a blob that the plan left out, as for a
   lost claim, the store answers False and the run ends there. *)
ApplyEvent(w) ==
  /\ At(w, "apply")
  /\ \/ /\ Becomes(w, [run[w] EXCEPT !.pc = "stream", !.event = "none"])
        /\ IF run[w].event = "progress" THEN Mine(w) /\ UNCHANGED <<rows, calls>>
           ELSE Store!ProgressPhase(Held(run[w]), run[w].event)
        /\ OnlyStore
     \/ /\ ~ Mine(w) \/ (run[w].event = "progress" /\ ~ AllBlobsPlanned)
        /\ Leaves(w)
        /\ OnlyRun

StopOperation(w) ==
  /\ At(w, "stop")
  /\ \/ Goes(w, "cancelled")
     \/ (\E retryable \in BOOLEAN : Catches(w, retryable)) \/ Raises(w)
  /\ OnlyRun

FinishCancelled(w) ==
  /\ At(w, "cancelled")
  /\ Leaves(w)
  /\ \/ Store!Finish(Held(run[w]), "cancelled")
     \/ ~ Mine(w) /\ UNCHANGED <<rows, calls>>
  /\ OnlyStore

LastPhase(w) ==
  /\ At(w, "verifying")
  /\ Goes(w, "finish")
  /\ \/ Store!ProgressPhase(Held(run[w]), "verifying")
     \/ ~ Mine(w) /\ UNCHANGED <<rows, calls>>
  /\ OnlyStore

FinishCompleted(w) ==
  /\ At(w, "finish")
  /\ Leaves(w)
  /\ \/ Store!Finish(Held(run[w]), "completed")
     \/ ~ Mine(w) /\ UNCHANGED <<rows, calls>>
  /\ OnlyStore

(* Refreshing the credentials after an authentication failure makes the
   failure retryable, or raises out of the handler. *)
HandleError(w) ==
  /\ At(w, "error")
  /\ IF CancellationRequested(w) THEN Stops(w, "cancelled")
     ELSE Goes(w, "record") \/ Raises(w)
  /\ OnlyRun

\* Mutant: the budget and the timeouts are not looked at.
ReadFailureUnlimited(w) ==
  /\ At(w, "record")
  /\ Exists(MyRow(w))
  /\ Goes(w, "fail")
  /\ OnlyRun

(* The integrity budget and the timeouts turn a retryable failure into a
   final one; after MaxRetries failures no_progress_timeout has passed. *)
ReadFailure(w) ==
  /\ At(w, "record")
  /\ IF Exists(MyRow(w))
       THEN \E retryable \in {run[w].retryable, FALSE} :
              /\ retryable => failures[run[w].job] < MaxRetries
              /\ Becomes(w, [run[w] EXCEPT !.pc = "fail", !.retryable = retryable])
       ELSE Raises(w)
  /\ OnlyRun

(* The row of copy_errors refers to the job: without it the insert fails. *)
RecordFailure(w) ==
  /\ At(w, "fail")
  /\ \/ /\ Leaves(w)
        /\ Store!FailOrRetry(Held(run[w]), run[w].retryable)
        /\ failures' = IF run[w].retryable THEN [failures EXCEPT ![run[w].job] = @ + 1]
                                           ELSE failures
        /\ UNCHANGED <<left, service>>
     \/ Exists(MyRow(w)) /\ ~ Mine(w) /\ Leaves(w) /\ OnlyRun
     \/ ~ Exists(MyRow(w)) /\ Raises(w) /\ OnlyRun

(* Heartbeat task: one renewal, or the refusal that ends it. *)
Heartbeat(w) ==
  /\ Busy(w) /\ run[w].beating
  /\ \/ /\ UNCHANGED run
        /\ Store!Heartbeat(Held(run[w]))
        /\ OnlyStore
     \/ /\ ~ (Mine(w) /\ Renewable(MyRow(w)))
        /\ Becomes(w, [run[w] EXCEPT !.beating = FALSE])
        /\ OnlyRun

WorkerStep(w) ==
  \/ ClaimNothing(w)
  \/ \E j \in JobId : ClaimJob(w, j)
  \/ ReadClaimed(w) \/ ReadDetails(w) \/ ReadSnapshot(w) \/ Plan(w) \/ SaveSnapshot(w)
  \/ OpenStream(w) \/ Receive(w) \/ CheckEvent(w) \/ ApplyEvent(w)
  \/ StopOperation(w) \/ FinishCancelled(w) \/ LastPhase(w) \/ FinishCompleted(w)
  \/ HandleError(w) \/ ReadFailure(w) \/ RecordFailure(w)

-----------------------------------------------------------------------------
(* The database refuses a statement (locked beyond busy_timeout, or no
   space left): sqlite3.OperationalError, with the transaction undone. *)

Spends(what) == left[what] > 0 /\ left' = [left EXCEPT ![what] = @ - 1]

StoreBusy(w) ==
  /\ "statement" \in Faults /\ Spends("faults")
  /\ run[w].pc \notin {"plan", "copy", "stream", "stop", "dead"}
  /\ Raises(w)
  /\ UNCHANGED <<rows, calls, failures, service>>

HeartbeatBusy(w) ==
  /\ "heartbeat" \in Faults /\ Spends("faults")
  /\ Busy(w) /\ run[w].beating
  /\ Becomes(w, [run[w] EXCEPT !.beating = FALSE])
  /\ UNCHANGED <<rows, calls, failures, service>>

(* The process of worker w dies, with the calls made in it, and is started
   again. *)
Crash(w) ==
  /\ "crash" \in Faults /\ Spends("faults")
  /\ Leaves(w)
  /\ \E clients \in SUBSET Client :
       Store!ProcessDies(IF Busy(w) THEN {Held(run[w])} ELSE {}, clients)
  /\ UNCHANGED <<failures, service>>

-----------------------------------------------------------------------------
(* The rest of the system. *)

Enqueue(j, d) == UNCHANGED run /\ Store!Enqueue(j, d) /\ OnlyStore

Ask(c, j) ==
  /\ Spends("asks")
  /\ UNCHANGED <<run, failures, service>>
  /\ \/ "cancel" \in Asks /\ Store!CancelRead(c, j)
     \/ "retry" \in Asks /\ Store!RetryRead(c, j)
     \/ "dismiss" \in Asks /\ Store!Dismiss(j)

CallEnds(c) ==
  /\ UNCHANGED run
  /\ Store!CancelWrite(c) \/ Store!RetryWrite(c) \/ Store!CallFindsNothing(c)
  /\ OnlyStore

LeaseLapses(j) ==
  /\ PunctualHeartbeats =>
       \A w \in Worker :
         ~ /\ run[w].beating \/ run[w].outer \/ At(w, "claimed")
           /\ run[w].token = rows[j].token
  /\ UNCHANGED run
  /\ Store!LeaseLapses(j)
  /\ OnlyStore

RetryFallsDue(j) == UNCHANGED run /\ Store!RetryFallsDue(j) /\ OnlyStore

Next ==
  \/ \E w \in Worker : \/ WorkerStep(w) \/ Heartbeat(w)
                       \/ StoreBusy(w) \/ HeartbeatBusy(w) \/ Crash(w)
  \/ \E j \in JobId, d \in Destination : Enqueue(j, d)
  \/ \E c \in Client : (\E j \in JobId : Ask(c, j)) \/ CallEnds(c)
  \/ \E j \in JobId : LeaseLapses(j) \/ RetryFallsDue(j)

Spec == Init /\ [][Next]_vars

(* The event loop runs every task, a call that was made is carried out, and
   time passes.  Heartbeats, clients and faults owe nothing. *)
Fairness ==
  /\ \A w \in Worker : WF_vars(WorkerStep(w))
  /\ \A c \in Client : WF_vars(CallEnds(c))
  /\ \A j \in JobId : WF_vars(LeaseLapses(j)) /\ WF_vars(RetryFallsDue(j))

FairSpec == Spec /\ Fairness

-----------------------------------------------------------------------------
(* Properties. *)

(* The workers keep the promise of PinnedCopy: no interleaving of runs,
   crashes, take-overs, retries and cancellations makes one job send two
   contents, or completes it unverified. *)
Promise == INSTANCE PinnedCopy WITH
             completed <- {j \in JobId : rows[j].state = "completed"}

OneContentPerJob == Promise!Spec

(* Two workers whose heartbeats beat never handle the event streams of one job
   at the same time (docs/requirements.md:638, "queue claim exclusion, lease
   reclaim, and fencing"), whatever is cancelled, retried, dismissed or crashes.
   It needs heartbeats that are served in time and no two retries at once.  A
   heartbeat ends when the database refuses it or a cancel that a claim has
   overtaken settles the job; the run it leaves may stream beside another. *)
Streaming(w) == run[w].pc \in {"stream", "check", "apply"}

Exclusion ==
  \A v, w \in {u \in Worker : Streaming(u) /\ run[u].beating} :
    run[v].job = run[w].job => v = w

(* A run that ends of its own accord has settled its job or handed it back: it
   leaves no claim behind that only a lapsing lease could free.  The two
   returns at which the code does leave one are in the formula: save_snapshot
   finds the job no longer in planning, as a cancel or a late retry leaves it
   (manager.py:390), and progress is reported for a blob that the plan left
   out (manager.py:411). *)
EndedRunHoldsNothing ==
  [][\A w \in Worker :
       Busy(w) /\ ~ Busy(w)' /\ left' = left /\ HeldBy(rows'[run[w].job], run[w].token) =>
         \/ At(w, "save") /\ MyRow(w).state \in {"cancel_requested", "cancelled", "queued"}
         \/ At(w, "apply") /\ run[w].event = "progress" /\ ~ AllBlobsPlanned]_vars

(* Every job is settled in the end: completed, failed, cancelled or deleted,
   so that wait() "returns at a terminal state" (docs/requirements.md:133-134).
   The code breaks it: a refused claim ends the worker task, and with one
   worker, the default, nobody is left. *)
JobSettles == \A j \in JobId : rows[j].state \in ACTIVE ~> rows[j].state \notin ACTIVE

(* Every job is settled in the end while one worker task is left, whatever
   crashes, refused statements, dead workers and calls come in between. *)
SettlesWhileOneLives ==
  \A j \in JobId :
    rows[j].state \in ACTIVE ~>
      rows[j].state \notin ACTIVE \/ \A w \in Worker : run[w].pc = "dead"

(* A job whose cancellation was requested never goes back to work
   (docs/requirements.md:486, "Only explicit cancel(job_id) transitions
   active work through cancel_requested to cancelled").  The code breaks it:
   progress, fail_or_retry and finish write the state of whoever holds the
   token. *)
CancelIsHonoured ==
  [][\A j \in JobId : rows[j].state = "cancel_requested" =>
       rows'[j].state \notin RUNNING \cup {"queued", "retry_wait"}]_vars

=============================================================================
