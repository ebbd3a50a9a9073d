--------------------------- MODULE ManagerLifecycle ---------------------------
(***************************************************************************)
(* start and close of one CopyManager (manager.py), its worker tasks, the  *)
(* statements they run in threads and the service process it owns.         *)
(*                                                                         *)
(* A store call runs in a thread of its own (asyncio.to_thread): when the  *)
(* task that awaits it is cancelled the statement still takes place, now   *)
(* or later, and nobody sees its result.  `threads` holds such statements, *)
(* one at most for each worker and each close.                             *)
(*                                                                         *)
(* task[w] says which await worker w is in:                                *)
(*                                                                         *)
(*   gone       no such task                                               *)
(*   claim      store.claim, not yet committed                             *)
(*   claimed    store.claim, committed, its result not yet seen            *)
(*   wait       asleep until woken or polling                              *)
(*   plan       _execute as far as the plan                                *)
(*   save       save_snapshot            copy       the events of the copy *)
(*   check      cancellation_requested, about an event, and the DELETE of  *)
(*              a copy that is to be cancelled                             *)
(*   verifying  the last progress        finish     finish("completed")    *)
(*   error      the reads of the error handler and of _record_failure      *)
(*   fail       fail_or_retry            cancel     finish("cancelled")    *)
(*   release    release_claim                                              *)
(*                                                                         *)
(* Awaits that follow each other and write no row are one: a cancellation  *)
(* has the same effect in each of them.  Heartbeats are punctual here, but *)
(* for one that a cancel has ended: what happens when they are not, and    *)
(* the phases that events report, are in CopyWorkers.                      *)
(***************************************************************************)
EXTENDS JobRows

CONSTANTS
  MaxCloses,    \* bound on the calls of close
  MaxExits,     \* bound on the failures of the service, at its start or later
  MaxRetries,   \* retryable failures of a job before no_progress_timeout is over
  Cancellable   \* bound on the calls of cancel: the jobs that get one

ASSUME BoundsAreNumbers == {MaxCloses, MaxExits, MaxRetries} \subseteq Nat

(* The places where a close can leave a statement behind. *)
Slot == Worker \X (1 .. MaxCloses)

VARIABLES
  rows,        \* as in JobStore
  app,         \* where the caller of start and close is
  manager,     \* the fields of CopyManager that start and close use
  cancels,     \* the calls of cancel
  task,        \* the worker tasks
  threads,     \* statements whose task was cancelled
  aborted,     \* the copies under way that the service was asked to cancel
  late,        \* the claims that were committed for a cancelled task
  failures, left  \* bounded counters

vars == <<rows, app, manager, cancels, task, threads, aborted, late, failures, left>>

Writes == {"save", "verifying", "finish", "cancel", "fail"}

InExecute == Writes \cup {"plan", "copy", "check", "error"}

NoTask == [pc |-> "gone", job |-> Null, token |-> Null, digest |-> Null,
           event |-> "none", retryable |-> FALSE, outer |-> FALSE, stopped |-> FALSE]

Task == [pc        : InExecute \cup {"gone", "claim", "claimed", "wait", "release"},
         job       : JobId \cup {Null},
         token     : Token \cup {Null},
         digest    : Digest \cup {Null},      \* the plan that is being saved
         event     : {"none", "completed", "cancelled"},  \* a copy that did not just fail
         retryable : BOOLEAN,                 \* of the failure being handled
         outer     : BOOLEAN,                 \* it is handled by _worker
         stopped   : BOOLEAN]                 \* the heartbeat has found the row settled

Held(r) == [job |-> r.job, token |-> r.token]

Records == {task[w] : w \in Worker} \cup {threads[k] : k \in Slot}

Remembered == {Held(r) : r \in {s \in Records : s.token # Null}}

Store == INSTANCE JobStore WITH
           claims <- Remembered, calls <- <<>>, Client <- {}, Pool <- {Worker}

TypeOK ==
  /\ rows \in [JobId -> Row]
  /\ app \in {"down", "starting", "up", "cancelling", "gathering", "releasing", "stopping"}
  /\ manager \in [stop       : BOOLEAN,                       \* _stop is set
                  process    : {"none", "live", "exited"},    \* what _process names
                  operations : [JobId -> Token \cup {Null}],  \* _operations
                  todo       : SUBSET Token,                  \* those close has yet to cancel
                  asked      : Token \cup {Null}]             \* the DELETE that is not answered
  /\ cancels \in [JobId -> {"none", "cancelled", "cancel_requested", "operation", "done"}]
  /\ task \in [Worker -> Task]
  /\ threads \in [Slot -> Task]
  /\ aborted \cup late \subseteq Token
  /\ failures \in [JobId -> 0 .. MaxRetries]
  /\ left \in [closes : 0 .. MaxCloses, exits : 0 .. MaxExits]

Init ==
  /\ rows = [j \in JobId |-> NoRow]
  /\ app = "down"
  /\ manager = [stop |-> FALSE, process |-> "none", operations |-> [j \in JobId |-> Null],
                todo |-> {}, asked |-> Null]
  /\ cancels = [j \in JobId |-> "none"]
  /\ task = [w \in Worker |-> NoTask]
  /\ threads = [k \in Slot |-> NoTask]
  /\ aborted = {}
  /\ late = {}
  /\ failures = [j \in JobId |-> 0]
  /\ left = [closes |-> MaxCloses, exits |-> MaxExits]

At(w, pc) == task[w].pc = pc

MyRow(w) == rows[task[w].job]

Becomes(w, r) == task' = [task EXCEPT ![w] = r]

Goes(w, pc) == Becomes(w, [task[w] EXCEPT !.pc = pc])

(* A late claim is one that a row still holds. *)
StillLate(tokens) == late' = {t \in tokens : \E j \in JobId : rows'[j].token = t}

OnlyTasks == UNCHANGED <<rows, app, manager, cancels, threads, aborted, late, failures, left>>

OnlyApp == UNCHANGED <<rows, cancels, task, threads, aborted, late, failures, left>>

(* What a statement of record r finds (WHERE id=? AND claim_token=?). *)
Holds(r) == HeldBy(rows[r.job], r.token)

Spends(what) == left[what] > 0 /\ left' = [left EXCEPT ![what] = @ - 1]

-----------------------------------------------------------------------------
(* Worker tasks. *)

(* The top of the loop of _worker. *)
Loops(w) == Becomes(w, [NoTask EXCEPT !.pc = IF manager.stop THEN "gone" ELSE "claim"])

(* _execute is left: its operation is forgotten. *)
ForgetsOperation(w) == manager' = [manager EXCEPT !.operations[task[w].job] = Null]

CancellationRequested(w) == ~ Holds(task[w]) \/ MyRow(w).state = "cancel_requested"

Catches(w, retryable) == Becomes(w, [task[w] EXCEPT !.pc = "error", !.retryable = retryable])

(* What _execute raises is handled by _worker, without a heartbeat. *)
Raises(w) == Becomes(w, [task[w] EXCEPT !.pc = "error", !.outer = TRUE])

Result(r) == IF r.pc = "finish" THEN "completed" ELSE "cancelled"

ClaimNothing(w) ==
  /\ At(w, "claim")
  /\ Goes(w, "wait")
  /\ UNCHANGED <<app, manager, cancels, threads, aborted, failures, left>>
  /\ Store!ClaimNothing
  /\ StillLate(late)

NewToken == CHOOSE t \in Token : Store!Unused(t)

ClaimJob(w, j) ==
  /\ At(w, "claim")
  /\ \E t \in Token : Store!Unused(t)
  /\ Becomes(w, [NoTask EXCEPT !.pc = "claimed", !.job = j, !.token = NewToken])
  /\ UNCHANGED <<app, manager, cancels, threads, aborted, failures, left>>
  /\ Store!ClaimJob(w, j, NewToken)
  /\ StillLate(late)

SeeClaim(w) == At(w, "claimed") /\ Goes(w, "plan") /\ OnlyTasks

Wake(w) == At(w, "wait") /\ Loops(w) /\ OnlyTasks

Opens(w) ==
  /\ Becomes(w, [task[w] EXCEPT !.pc = "copy", !.digest = Null])
  /\ manager' = [manager EXCEPT !.operations[task[w].job] = task[w].token]

(* Planning finds the snapshot, gets a plan, fails, or meets a credential
   provider that raises what _worker has to record. *)
Plan(w) ==
  /\ At(w, "plan")
  /\ \/ MyRow(w).snapshot # Null /\ Opens(w)
     \/ /\ MyRow(w).snapshot = Null /\ manager.process = "live"
        /\ \E d \in Digest : Becomes(w, [task[w] EXCEPT !.pc = "save", !.digest = d])
        /\ UNCHANGED manager
     \/ ((\E retryable \in BOOLEAN : Catches(w, retryable)) \/ Raises(w)) /\ UNCHANGED manager
  /\ UNCHANGED <<rows, app, cancels, threads, aborted, late, failures, left>>

SaveSnapshot(w) ==
  /\ At(w, "save")
  /\ UNCHANGED <<app, cancels, threads, aborted, late, failures, left>>
  /\ \/ Opens(w) /\ Store!SaveSnapshot(Held(task[w]), task[w].digest)
     \/ /\ ~ Holds(task[w]) \/ MyRow(w).state # "planning"
        /\ Loops(w) /\ ForgetsOperation(w) /\ UNCHANGED rows

(* A service that is gone breaks the stream, which is a retryable error
   without an event.  A copy that the service was told to cancel may still
   complete or break; otherwise it is reported as failed, not retryable. *)
Receive(w) ==
  /\ At(w, "copy")
  /\ aborted' = aborted \ {task[w].token}
  /\ \/ \E event \in {"completed", "none", "cancelled"}, retryable \in BOOLEAN :
          /\ manager.process = "live"
          /\ event = "cancelled" => task[w].token \in aborted
          /\ retryable => event = "none"
          /\ Becomes(w, [task[w] EXCEPT !.pc = "check", !.event = event, !.retryable = retryable])
     \/ Catches(w, TRUE)
  /\ UNCHANGED <<rows, app, manager, cancels, threads, late, failures, left>>

(* The DELETE of a copy that is to be cancelled may fail. *)
Check(w) ==
  /\ At(w, "check")
  /\ \/ /\ ~ CancellationRequested(w)
        /\ Goes(w, IF task[w].event = "completed" THEN "verifying" ELSE "error")
     \/ /\ CancellationRequested(w)
        /\ Goes(w, "cancel") \/ (\E retryable \in BOOLEAN : Catches(w, retryable)) \/ Raises(w)
  /\ OnlyTasks

(* What progress and finish answer is not looked at. *)
LastPhase(w) ==
  /\ At(w, "verifying")
  /\ Goes(w, "finish")
  /\ UNCHANGED <<app, manager, cancels, threads, aborted, late, failures, left>>
  /\ Store!ProgressPhase(Held(task[w]), "verifying") \/ (~ Holds(task[w]) /\ UNCHANGED rows)

Finish(w) ==
  /\ task[w].pc \in {"finish", "cancel"}
  /\ Loops(w)
  /\ ForgetsOperation(w)
  /\ UNCHANGED <<app, cancels, threads, aborted, failures, left>>
  /\ \/ Store!Finish(Held(task[w]), Result(task[w]))
     \/ ~ Holds(task[w]) /\ UNCHANGED rows
  /\ StillLate(late)

\* Mutant: the budget and the timeouts are not looked at.
ReadFailureUnlimited(w) == At(w, "error") /\ Goes(w, "fail") /\ OnlyTasks

(* The error handler looks for a cancel, and may refresh credentials, which
   can raise; _record_failure then looks at the budget (MaxRetries as in
   CopyWorkers). *)
ReadFailure(w) ==
  /\ At(w, "error")
  /\ \/ ~ task[w].outer /\ CancellationRequested(w) /\ Goes(w, "cancel")
     \/ ~ task[w].outer /\ ~ CancellationRequested(w) /\ Raises(w)
     \/ /\ task[w].outer \/ ~ CancellationRequested(w)
        /\ \E retryable \in {task[w].retryable, FALSE} :
             /\ retryable => failures[task[w].job] < MaxRetries
             /\ Becomes(w, [task[w] EXCEPT !.pc = "fail", !.retryable = retryable])
  /\ OnlyTasks

Counts(r) == failures' = IF r.retryable THEN [failures EXCEPT ![r.job] = @ + 1] ELSE failures

RecordFailure(w) ==
  /\ At(w, "fail")
  /\ Loops(w)
  /\ ForgetsOperation(w)
  /\ UNCHANGED <<app, cancels, threads, aborted, left>>
  /\ \/ Store!FailOrRetry(Held(task[w]), task[w].retryable) /\ Counts(task[w])
     \/ ~ Holds(task[w]) /\ UNCHANGED <<rows, failures>>
  /\ StillLate(late)

(* release_claim of a cancelled task; the statement that was under way may
   have settled the job before. *)
ReleaseClaim(w) ==
  /\ At(w, "release")
  /\ Becomes(w, NoTask)
  /\ UNCHANGED <<app, manager, cancels, threads, aborted, failures, left>>
  /\ \/ Store!ReleaseClaim(Held(task[w]))
     \/ (~ Holds(task[w]) \/ MyRow(w).state \notin RUNNING) /\ UNCHANGED rows
  /\ StillLate(late)

(* heartbeat finds the job settled, as a cancel may leave it under a claim,
   and beats no more. *)
HeartbeatEnds(w) ==
  /\ task[w].pc \in InExecute /\ ~ task[w].outer /\ ~ task[w].stopped
  /\ ~ Holds(task[w]) \/ ~ Renewable(MyRow(w))
  /\ Becomes(w, [task[w] EXCEPT !.stopped = TRUE])
  /\ OnlyTasks

WorkerStep(w) ==
  \/ ClaimNothing(w)
  \/ \E j \in JobId : ClaimJob(w, j)
  \/ SeeClaim(w) \/ Wake(w) \/ Plan(w) \/ SaveSnapshot(w) \/ Receive(w) \/ Check(w)
  \/ LastPhase(w) \/ Finish(w) \/ ReadFailure(w) \/ RecordFailure(w) \/ ReleaseClaim(w)
  \/ HeartbeatEnds(w)

-----------------------------------------------------------------------------
(* Statements that outlived their task. *)

ThreadBecomes(k, r) == threads' = [threads EXCEPT ![k] = r]

ThreadClaims(k, w, j) ==
  /\ threads[k].pc = "claim"
  /\ \E t \in Token : Store!Unused(t)
  /\ ThreadBecomes(k, [NoTask EXCEPT !.pc = "claimed", !.job = j, !.token = NewToken])
  /\ Store!ClaimJob(w, j, NewToken)
  /\ StillLate(late \cup {NewToken})
  /\ UNCHANGED failures

ThreadWrites(k) ==
  LET r == threads[k] IN
  /\ ThreadBecomes(k, NoTask)
  /\ \/ r.pc = "save" /\ Store!SaveSnapshot(Held(r), r.digest) /\ UNCHANGED failures
     \/ r.pc = "verifying" /\ Store!ProgressPhase(Held(r), "verifying") /\ UNCHANGED failures
     \/ r.pc \in {"finish", "cancel"} /\ Store!Finish(Held(r), Result(r)) /\ UNCHANGED failures
     \/ r.pc = "fail" /\ Store!FailOrRetry(Held(r), r.retryable) /\ Counts(r)
  /\ StillLate(late)

(* The statement finds nothing to do, or has answered to nobody. *)
ThreadEnds(k) ==
  LET r == threads[k] IN
  /\ ThreadBecomes(k, NoTask)
  /\ \/ r.pc = "claim" /\ Store!ClaimNothing
     \/ r.pc = "claimed" /\ UNCHANGED rows
     \/ r.pc \in Writes /\ ~ Holds(r) /\ UNCHANGED rows
     \/ r.pc = "save" /\ rows[r.job].state # "planning" /\ UNCHANGED rows
  /\ StillLate(late)
  /\ UNCHANGED failures

ThreadStep ==
  /\ UNCHANGED <<app, manager, cancels, task, aborted, left>>
  /\ \E k \in Slot :
       ThreadWrites(k) \/ ThreadEnds(k) \/ (\E w \in Worker, j \in JobId : ThreadClaims(k, w, j))

-----------------------------------------------------------------------------
(* start and close, called by one task of the application. *)

(* A DELETE reaches the copies whose stream is still read. *)
Reached(t) ==
  {task[w].token : w \in {v \in Worker : manager.process = "live" /\ At(v, "copy")}} \cap {t}

NoWorkers == \A w \in Worker : At(w, "gone")

(* start, as far as the new process of _start_service: whatever _process
   named before is forgotten. *)
Start ==
  /\ app = "down"
  /\ app' = "starting"
  /\ manager' = [manager EXCEPT !.stop = FALSE, !.process = "live"]
  /\ OnlyApp

Ready ==
  /\ app = "starting" /\ manager.process = "live"
  /\ app' = "up"
  /\ task' = [w \in Worker |-> [NoTask EXCEPT !.pc = "claim"]]
  /\ UNCHANGED <<rows, manager, cancels, threads, aborted, late, failures, left>>

(* The process exited, or the deadline of ten seconds has passed. *)
StartFails ==
  /\ app = "starting"
  /\ app' = "down"
  /\ (manager.process = "exited" /\ UNCHANGED left) \/ Spends("exits")
  /\ UNCHANGED <<rows, manager, cancels, task, threads, aborted, late, failures>>

(* close may also follow a start that failed. *)
Close ==
  /\ app \in {"up", "down"}
  /\ Spends("closes")
  /\ app' = "cancelling"
  /\ manager' = [manager EXCEPT !.stop = TRUE,
                                !.todo = {manager.operations[j] : j \in JobId} \ {Null}]
  /\ UNCHANGED <<rows, cancels, task, threads, aborted, late, failures>>

(* The DELETE of an operation reaches the service, and is answered later; an
   error is kept for the end. *)
CancelOperation(t) ==
  /\ app = "cancelling" /\ manager.asked = Null /\ t \in manager.todo
  /\ manager' = [manager EXCEPT !.todo = @ \ {t}, !.asked = t]
  /\ aborted' = aborted \cup Reached(t)
  /\ UNCHANGED <<rows, app, cancels, task, threads, late, failures, left>>

CancelAnswered ==
  /\ app = "cancelling" /\ manager.asked # Null
  /\ manager' = [manager EXCEPT !.asked = Null]
  /\ UNCHANGED app
  /\ OnlyApp

(* A cancelled _execute lets _worker release its claim; a cancelled claim, or
   the recording that _worker itself does, just ends the task. *)
Cancelled(r) ==
  IF r.pc \in InExecute /\ ~ r.outer
    THEN [NoTask EXCEPT !.pc = "release", !.job = r.job, !.token = r.token, !.stopped = r.stopped]
    ELSE NoTask

(* task.cancel() for every worker: the statements under way are left alone. *)
CancelTasks ==
  /\ app = "cancelling" /\ manager.todo = {} /\ manager.asked = Null
  /\ app' = "gathering"
  /\ task' = [w \in Worker |-> Cancelled(task[w])]
  /\ threads' = [k \in Slot |-> IF k[2] = MaxCloses - left.closes
                                    /\ task[k[1]].pc \in Writes \cup {"claim"}
                                  THEN [task[k[1]] EXCEPT !.outer = FALSE, !.stopped = FALSE]
                                  ELSE threads[k]]
  /\ aborted' = {}
  /\ late' = late \cup {task[w].token : w \in {v \in Worker : At(v, "claimed")}}
  /\ manager' = [manager EXCEPT !.operations = [j \in JobId |-> Null]]
  /\ UNCHANGED <<rows, cancels, failures, left>>

Gathered ==
  /\ app = "gathering" /\ NoWorkers
  /\ app' = "releasing"
  /\ UNCHANGED manager
  /\ OnlyApp

\* Mutant: close leaves the claims to the workers that it has cancelled.
ReleaseNothing ==
  /\ app = "releasing"
  /\ app' = "stopping"
  /\ UNCHANGED <<rows, manager, cancels, task, threads, aborted, late, failures, left>>

ReleaseAll ==
  /\ app = "releasing"
  /\ app' = "stopping"
  /\ UNCHANGED <<manager, cancels, task, threads, aborted, failures, left>>
  /\ Store!Release(Worker)
  /\ StillLate(late)

(* terminate() raises when the process is known to have exited: close ends
   there and _process keeps its name. *)
StopService ==
  /\ app = "stopping"
  /\ app' = "down"
  /\ manager' = [manager EXCEPT !.process = IF @ = "live" THEN "none" ELSE @]
  /\ OnlyApp

AppStep ==
  \/ Start \/ Ready \/ StartFails
  \/ (\E t \in Token : CancelOperation(t)) \/ CancelAnswered
  \/ CancelTasks \/ Gathered \/ ReleaseAll \/ StopService

-----------------------------------------------------------------------------
(* The rest of the system. *)

ServiceExits ==
  /\ manager.process = "live"
  /\ Spends("exits")
  /\ manager' = [manager EXCEPT !.process = "exited"]
  /\ UNCHANGED <<rows, app, cancels, task, threads, aborted, late, failures>>

(* cancel reads the row, writes it, and has the service cancel the copy of
   the run that is then known for the job. *)
CancelGoes(j, to) == cancels' = [cancels EXCEPT ![j] = to]

OnlyCancels == UNCHANGED <<app, manager, task, threads, late, failures, left>>

CancelRead(j) ==
  /\ j \in Cancellable /\ cancels[j] = "none"
  /\ Exists(rows[j]) /\ rows[j].state \notin TERMINAL
  /\ CancelGoes(j, CancelState(rows[j]))
  /\ OnlyCancels /\ UNCHANGED <<rows, aborted>>

CancelWrite(j) ==
  /\ cancels[j] \in {"cancelled", "cancel_requested"}
  /\ rows' = [rows EXCEPT ![j] = CancelWritten(rows[j], cancels[j])]
  /\ CancelGoes(j, "operation")
  /\ OnlyCancels /\ UNCHANGED aborted

CancelCopy(j) ==
  /\ cancels[j] = "operation"
  /\ aborted' = aborted \cup Reached(manager.operations[j])
  /\ CancelGoes(j, "done")
  /\ OnlyCancels /\ UNCHANGED rows

CancelStep(j) == CancelRead(j) \/ CancelWrite(j) \/ CancelCopy(j)

OnlyRows == UNCHANGED <<app, manager, cancels, task, threads, aborted, late, failures, left>>

Enqueue(j, d) == OnlyRows /\ Store!Enqueue(j, d)

RetryFallsDue(j) == OnlyRows /\ Store!RetryFallsDue(j)

LeaseLapses(j) ==
  /\ \A w \in Worker : task[w].token = rows[j].token => task[w].stopped
  /\ OnlyRows
  /\ Store!LeaseLapses(j)

Next ==
  \/ \E w \in Worker : WorkerStep(w)
  \/ ThreadStep \/ AppStep \/ Close \/ ServiceExits
  \/ \E j \in JobId, d \in Destination : Enqueue(j, d)
  \/ \E j \in JobId : CancelStep(j) \/ RetryFallsDue(j) \/ LeaseLapses(j)

Spec == Init /\ [][Next]_vars

(* The event loop runs every task, a statement in a thread is carried out, a
   start or close that was called ends, and time passes; the service and the
   caller of close owe nothing.  The application starts its manager again. *)
Fairness ==
  /\ \A w \in Worker : WF_vars(WorkerStep(w))
  /\ WF_vars(ThreadStep) /\ WF_vars(AppStep)
  /\ \A j \in JobId : WF_vars(LeaseLapses(j)) /\ WF_vars(RetryFallsDue(j))

FairSpec == Spec /\ Fairness

-----------------------------------------------------------------------------
(* Properties. *)

(* Once close has released everything, a claim that a row still has is late
   (its statement was under way in a thread) or is that of a job whose cancel
   was written.  docs/requirements.md:482 says that close "releases leases
   promptly"; the code does not release these two: release and release_claim
   leave cancel_requested alone (store.py:498, 508), and no statement of close
   waits for the threads (close, manager.py:144-149). *)
ClosedHoldsOnlyLateClaims ==
  app \in {"stopping", "down"} =>
    \A j \in JobId :
      rows[j].token # Null => rows[j].token \in late \/ cancels[j] \in {"operation", "done"}

(* What outlives a close takes no job from the manager that was started again:
   a run keeps its claim to its end, whatever statements, releases and late
   claims of the time before are still to come.  The exception is a run whose
   heartbeat has ended, because a cancel settled the job under its claim. *)
RunHoldsItsJob ==
  \A w \in Worker :
    task[w].pc \in InExecute \cup {"claimed"} /\ ~ task[w].stopped =>
      MyRow(w).token = task[w].token

(* Every job is settled in the end, however often the manager is closed and
   started, the service dies and a cancel is called: the rows that close could
   not release are settled too. *)
JobSettles == \A j \in JobId : rows[j].state \in ACTIVE ~> rows[j].state \notin ACTIVE

(* close "leaves affected jobs resumable; it does not mark them cancelled"
   (docs/requirements.md:481-483): a run whose copy was cancelled by close
   does not fail its job.  The code breaks it. *)
CloseLeavesJobsResumable ==
  [][\A j \in JobId : rows'[j].state = "failed" /\ rows[j].state # "failed" =>
       \A r \in Records :
         r.event = "cancelled" => Held(r) # [job |-> j, token |-> rows[j].token]]_vars

=============================================================================
