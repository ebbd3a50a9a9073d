--------------------------- MODULE CopyWorkersProofs ---------------------------
(***************************************************************************)
(* Proofs about CopyWorkers, for any number of jobs, workers, clients and  *)
(* tokens.  Three invariants, one on top of the other:                     *)
(*   IInv         every row is in order (JobRowsProofs), and so is every   *)
(*                worker task (RunOK) and what else the state holds;       *)
(*   ContentOK    what a run copies is the digest its row has pinned;      *)
(*   OneRunPerToken   a token is of one run and of one job.                *)
(* Every step takes every row through one of the statements of the store,  *)
(* a worker's writes only the row of its token (WorkerMoves): types and    *)
(* the table follow from IInv, the refinement of PinnedCopy from           *)
(* ContentOK.                                                              *)
(***************************************************************************)
EXTENDS CopyWorkers, JobRowsProofs

(* The instance of JobStore has the statements of JobRows. *)
LEMMA SameStatements ==
  /\ \A d : Store!QueuedRow(d) = QueuedRow(d)
  /\ Store!DeletedRow = DeletedRow
  /\ \A r : Store!Exists(r) <=> Exists(r)
  /\ \A r, t : Store!HeldBy(r, t) <=> HeldBy(r, t)
  /\ \A r : Store!Swept(r) = Swept(r)
  /\ \A r : Store!Claimable(r) <=> Claimable(r)
  /\ \A r, w, t : Store!Claimed(r, w, t) = Claimed(r, w, t)
  /\ \A r : Store!Renewable(r) <=> Renewable(r)
  /\ \A r : Store!Renewed(r) = Renewed(r)
  /\ \A r, d : Store!Pinned(r, d) = Pinned(r, d)
  /\ \A r, phase : Store!InPhase(r, phase) = InPhase(r, phase)
  /\ \A r, state : Store!Finished(r, state) = Finished(r, state)
  /\ \A r, retryable : Store!Failed(r, retryable) = Failed(r, retryable)
  /\ \A r, state : Store!CancelWritten(r, state) = CancelWritten(r, state)
  /\ \A r : Store!RetryWritten(r) = RetryWritten(r)
  /\ \A r : Store!CancelState(r) = CancelState(r)
BY DEF Store!QueuedRow, QueuedRow, Store!NoRow, NoRow, Store!DeletedRow, DeletedRow,
       Store!Exists, Exists, Store!GONE, GONE, Store!HeldBy, HeldBy, Store!Swept, Swept,
       Store!Sweepable, Sweepable, Store!WithoutClaim, WithoutClaim,
       Store!Claimable, Claimable, Store!RUNNING, RUNNING, Store!Claimed, Claimed,
       Store!Renewable, Renewable, Store!TERMINAL, TERMINAL, Store!Renewed, Renewed,
       Store!Pinned, Pinned, Store!InPhase, InPhase, Store!Finished, Finished,
       Store!Failed, Failed, Store!CancelWritten, CancelWritten,
       Store!RetryWritten, RetryWritten, Store!CancelState, CancelState

(* What holds of one worker task beyond its type: a run knows its claim, what
   it copies while it copies, and how far its stream has got. *)
RunOK(r) ==
  /\ r \in Run
  /\ r.pc \in InExecute => r.job \in JobId /\ r.token \in Token
  /\ r.pc \in {"save", "copy", "stream", "check", "apply"} => r.digest \in Digest
  /\ r.pc \in {"stream", "check", "apply"} => r.stage # "none"
  /\ r.pc = "check" => r.event # "none"
  /\ r.pc = "apply" => r.event \in {"copying", "progress", "verifying"}
  /\ r.event = "completed" => r.pc = "check"

RowsOK == rows \in [JobId -> Row] /\ \A j \in JobId : RowOK(rows[j])

RunsOK == run \in [Worker -> Run] /\ \A w \in Worker : RunOK(run[w])

-----------------------------------------------------------------------------
(* A write of the holder of a claim finds the row of its token. *)
HolderMoves(w) ==
  \E row : /\ Mine(w) /\ HolderWrote(MyRow(w), row)
           /\ rows' = [rows EXCEPT ![run[w].job] = row]

(* Every statement of a run is such a write, and leaves the calls alone. *)
LEMMA HolderStatements ==
  ASSUME NEW w \in Worker,
         \/ Store!Heartbeat(Held(run[w]))
         \/ \E d \in Digest : Store!SaveSnapshot(Held(run[w]), d)
         \/ \E phase \in {"copying", "verifying"} : Store!ProgressPhase(Held(run[w]), phase)
         \/ \E state \in {"completed", "cancelled"} : Store!Finish(Held(run[w]), state)
         \/ \E retryable \in BOOLEAN : Store!FailOrRetry(Held(run[w]), retryable)
  PROVE  HolderMoves(w) /\ UNCHANGED calls
<1> USE SameStatements DEF Store!HolderWrites, Held, HolderMoves, HolderWrote, Mine, MyRow
<1>1. CASE Store!Heartbeat(Held(run[w]))
  BY <1>1 DEF Store!Heartbeat
<1>2. ASSUME NEW d \in Digest, Store!SaveSnapshot(Held(run[w]), d)
      PROVE  HolderMoves(w) /\ UNCHANGED calls
  BY <1>2 DEF Store!SaveSnapshot
<1>3. ASSUME NEW phase \in {"copying", "verifying"}, Store!ProgressPhase(Held(run[w]), phase)
      PROVE  HolderMoves(w) /\ UNCHANGED calls
  BY <1>3 DEF Store!ProgressPhase
<1>4. ASSUME NEW state \in {"completed", "cancelled"}, Store!Finish(Held(run[w]), state)
      PROVE  HolderMoves(w) /\ UNCHANGED calls
  BY <1>4 DEF Store!Finish
<1>5. ASSUME NEW retryable \in BOOLEAN, Store!FailOrRetry(Held(run[w]), retryable)
      PROVE  HolderMoves(w) /\ UNCHANGED calls
  BY <1>5 DEF Store!FailOrRetry
<1> QED BY <1>1, <1>2, <1>3, <1>4, <1>5

(* What a step of the system does to the table. *)
ClaimMoves(w) ==
  \E j \in JobId, t \in Token :
    /\ Claimable(rows[j]) /\ Store!Unused(t)
    /\ rows' = [[k \in JobId |-> Swept(rows[k])] EXCEPT ![j] = Claimed(rows[j], w, t)]
    /\ run' = [run EXCEPT ![w] = [Idle EXCEPT !.pc = "claimed", !.job = j, !.token = t]]

WorkerMoves(w) ==
  \/ UNCHANGED rows
  \/ At(w, "claim") /\ rows' = [k \in JobId |-> Swept(rows[k])]
  \/ At(w, "claim") /\ ClaimMoves(w)
  \/ Busy(w) /\ HolderMoves(w)

(* A task claims, writes as the holder, or leaves the table alone. *)
LEMMA WorkersMoveRows ==
  ASSUME NEW w \in Worker, RunsOK,
         WorkerStep(w) \/ Heartbeat(w) \/ StoreBusy(w) \/ HeartbeatBusy(w) \/ Crash(w)
  PROVE  WorkerMoves(w) /\ (UNCHANGED calls \/ Crash(w))
<1> DEFINE Goal == WorkerMoves(w) /\ (UNCHANGED calls \/ Crash(w))
<1> RunOK(run[w])
  BY DEF RunsOK
<1> USE DEF WorkerMoves
<1>1. CASE ClaimNothing(w)
  BY <1>1, SameStatements DEF ClaimNothing, Store!ClaimNothing, Store!AfterSweep
<1>2. ASSUME NEW j \in JobId, ClaimJob(w, j) PROVE Goal
  <2>1. PICK t \in Token : /\ Store!Unused(t) /\ Store!ClaimJob(w, j, t)
                           /\ Becomes(w, [Idle EXCEPT !.pc = "claimed", !.job = j, !.token = t])
    BY <1>2 DEF ClaimJob
  <2>2. At(w, "claim")
    BY <1>2 DEF ClaimJob
  <2> QED BY <2>1, <2>2, SameStatements
          DEF Store!ClaimJob, Store!AfterSweep, Store!Due, ClaimMoves, Becomes
<1>3. CASE SaveSnapshot(w)
  <2>1. At(w, "save") => Busy(w) /\ run[w].digest \in Digest
    BY DEF At, Busy, InExecute, RunOK
  <2> QED BY <1>3, <2>1, HolderStatements DEF SaveSnapshot, OnlyRun
<1>4. CASE ApplyEvent(w)
  <2>1. At(w, "apply") => Busy(w) /\ run[w].event \in {"copying", "progress", "verifying"}
    BY DEF At, Busy, InExecute, RunOK
  <2> QED BY <1>4, <2>1, HolderStatements DEF ApplyEvent, OnlyRun
<1>5. CASE FinishCancelled(w) \/ FinishCompleted(w) \/ LastPhase(w)
  <2>1. At(w, "cancelled") \/ At(w, "verifying") \/ At(w, "finish") => Busy(w)
    BY DEF At, Busy, InExecute
  <2> QED BY <1>5, <2>1, HolderStatements DEF FinishCancelled, FinishCompleted, LastPhase
<1>6. CASE RecordFailure(w)
  <2>1. At(w, "fail") => Busy(w) /\ run[w].retryable \in BOOLEAN
    BY DEF At, Busy, InExecute, RunOK, Run
  <2> QED BY <1>6, <2>1, HolderStatements DEF RecordFailure, OnlyRun
<1>7. CASE Heartbeat(w)
  BY <1>7, HolderStatements DEF Heartbeat, OnlyRun
<1>8. CASE Crash(w)
  BY <1>8 DEF Crash, Store!ProcessDies
<1>9. CASE \/ ReadClaimed(w) \/ ReadDetails(w) \/ ReadSnapshot(w) \/ Plan(w) \/ CheckEvent(w)
           \/ StopOperation(w) \/ HandleError(w) \/ ReadFailure(w) \/ OpenStream(w) \/ Receive(w)
           \/ StoreBusy(w) \/ HeartbeatBusy(w)
  BY <1>9 DEF ReadClaimed, ReadDetails, ReadSnapshot, Plan, CheckEvent, StopOperation,
     HandleError, ReadFailure, OpenStream, Receive, StoreBusy, HeartbeatBusy, OnlyRun
<1> QED BY <1>1, <1>2, <1>3, <1>4, <1>5, <1>6, <1>7, <1>8, <1>9 DEF WorkerStep

(* Every step takes every row through one of the statements of the store. *)
LEMMA StepsAreRowSteps ==
  ASSUME rows \in [JobId -> Row], RunsOK, [Next]_vars
  PROVE  rows' = [j \in JobId |-> rows'[j]] /\ \A j \in JobId : RowStep(rows[j], rows'[j])
<1> rows = [j \in JobId |-> rows[j]]
  OBVIOUS
<1> SUFFICES ASSUME NEW i
             PROVE  /\ rows' = [j \in JobId |-> rows'[j]]
                    /\ i \in JobId => RowStep(rows[i], rows'[i])
  OBVIOUS
<1> DEFINE Goal == /\ rows' = [j \in JobId |-> rows'[j]]
                   /\ i \in JobId => RowStep(rows[i], rows'[i])
<1> USE DEF RowStep
<1>1. ASSUME NEW w \in Worker, WorkerMoves(w) PROVE Goal
  <2>1. CASE UNCHANGED rows
    BY <2>1
  <2>2. CASE rows' = [k \in JobId |-> Swept(rows[k])]
    BY <2>2
  <2>3. CASE ClaimMoves(w)
    BY <2>3 DEF ClaimMoves
  <2>4. CASE Busy(w) /\ HolderMoves(w)
    <3>1. run[w].job \in JobId /\ run[w].token # Null
      BY <2>4, NullIsNoValue DEF Busy, RunsOK, RunOK
    <3> QED BY <2>4, <3>1 DEF HolderMoves, Mine, MyRow, HeldBy
  <2> QED BY <1>1, <2>1, <2>2, <2>3, <2>4 DEF WorkerMoves
<1>2. ASSUME NEW j \in JobId, NEW d \in Destination, Enqueue(j, d) PROVE Goal
  BY <1>2, SameStatements DEF Enqueue, Store!Enqueue
<1>3. ASSUME NEW c \in Client, NEW j \in JobId, Ask(c, j) PROVE Goal
  BY <1>3, SameStatements DEF Ask, Store!CancelRead, Store!RetryRead, Store!Dismiss,
     Store!TERMINAL, TERMINAL
<1>4. ASSUME NEW c \in Client, CallEnds(c) PROVE Goal
  BY <1>4, SameStatements DEF CallEnds, Store!CancelWrite, Store!RetryWrite,
     Store!CallFindsNothing
<1>5. ASSUME NEW j \in JobId, LeaseLapses(j) \/ RetryFallsDue(j) PROVE Goal
  BY <1>5 DEF LeaseLapses, RetryFallsDue, Store!LeaseLapses, Store!RetryFallsDue
<1>6. CASE UNCHANGED vars
  BY <1>6 DEF vars
<1> QED
  BY <1>1, <1>2, <1>3, <1>4, <1>5, <1>6, WorkersMoveRows DEF Next

-----------------------------------------------------------------------------
(* Worker tasks stay in order. *)

(* A task that has no run, or has ended, is in order. *)
LEMMA IdleOK == RunOK(Idle) /\ RunOK([Idle EXCEPT !.pc = "dead"])
BY DEF RunOK, Run, Idle, InExecute, Stage, Event

(* A run that knows nothing but its claim. *)
LEMMA ClaimOnlyOK ==
  ASSUME NEW j \in JobId, NEW t \in Token
  PROVE  /\ RunOK([Idle EXCEPT !.pc = "claimed", !.job = j, !.token = t])
         /\ RunOK([Idle EXCEPT !.pc = "record", !.job = j, !.token = t, !.outer = TRUE])
<1>1. Idle \in Run /\ Idle.event = "none"
  BY IdleOK DEF RunOK, Idle
<1>2. {"claimed", "record"} \subseteq InExecute
  BY DEF InExecute
<1>3. RunOK([Idle EXCEPT !.pc = "claimed", !.job = j, !.token = t])
  BY <1>1, <1>2 DEF RunOK, Run
<1>4. RunOK([Idle EXCEPT !.pc = "record", !.job = j, !.token = t, !.outer = TRUE])
  BY <1>1, <1>2 DEF RunOK, Run
<1> QED BY <1>3, <1>4

LEMMA RaisedOK ==
  ASSUME NEW r, RunOK(r), r.pc \in InExecute \cup {"claim"} PROVE RunOK(Raised(r))
<1>1. CASE r.pc \in {"claim", "claimed"} \/ r.outer
  BY <1>1, IdleOK DEF Raised
<1>2. CASE ~ (r.pc \in {"claim", "claimed"} \/ r.outer)
  <2>1. r.job \in JobId /\ r.token \in Token
    BY <1>2 DEF RunOK
  <2> QED BY <1>2, <2>1, ClaimOnlyOK DEF Raised
<1> QED BY <1>1, <1>2

(* What a task knows after it has left its stream. *)
LEMMA StreamLeft ==
  ASSUME NEW w \in Worker, RunsOK, NEW pc, NEW retryable, LeavesStream(w, pc, retryable)
  PROVE  /\ run'[w].pc = pc /\ run'[w].event = "none"
         /\ run'[w].job = run[w].job /\ run'[w].token = run[w].token
<1> run \in [Worker -> Run] /\ run[w] \in Run
  BY DEF RunsOK
<1>1. run'[w] = [run[w] EXCEPT !.pc = pc, !.digest = Null, !.stage = "none", !.event = "none",
                               !.retryable = retryable]
  BY DEF LeavesStream, Becomes
<1>2. run'[w].pc = pc /\ run'[w].event = "none"
  BY <1>1 DEF Run
<1>3. run'[w].job = run[w].job /\ run'[w].token = run[w].token
  BY <1>1 DEF Run
<1> QED BY <1>2, <1>3

(* Where a task is that has left its stream, its run or its loop. *)
LEMMA RunLeft ==
  ASSUME NEW w \in Worker, RunsOK
  PROVE  /\ Leaves(w) => run'[w].pc = "claim" /\ run'[w].event = "none"
         /\ Raises(w) => run'[w].pc \in {"dead", "record"} /\ run'[w].event = "none"
         /\ \A b : Catches(w, b) => run'[w].pc = "error" /\ run'[w].event = "none"
         /\ \A pc : Stops(w, pc) => run'[w].pc = pc /\ run'[w].event = "none"
<1> run \in [Worker -> Run] /\ run[w] \in Run
  BY DEF RunsOK
<1>1. Leaves(w) => run'[w].pc = "claim" /\ run'[w].event = "none"
  BY DEF Leaves, Becomes, Idle
<1>2. Raised(run[w]).pc \in {"dead", "record"} /\ Raised(run[w]).event = "none"
  BY DEF Raised, Idle
<1>3. Raises(w) => run'[w] = Raised(run[w])
  BY DEF Raises, Becomes
<1>4. ASSUME NEW b, Catches(w, b) PROVE run'[w].pc = "error" /\ run'[w].event = "none"
  BY <1>4, StreamLeft DEF Catches
<1>5. ASSUME NEW pc, Stops(w, pc) PROVE run'[w].pc = pc /\ run'[w].event = "none"
  BY <1>5, StreamLeft DEF Stops
<1> QED BY <1>1, <1>2, <1>3, <1>4, <1>5

(* The stream is left for a program counter where nothing is copied. *)
LEMMA StreamLeftOK ==
  ASSUME NEW r, RunOK(r), r.pc \in InExecute, NEW retryable \in BOOLEAN,
         NEW pc \in {"error", "stop", "cancelled", "verifying"}
  PROVE  RunOK([r EXCEPT !.pc = pc, !.digest = Null, !.stage = "none", !.event = "none",
                         !.retryable = retryable])
<1> DEFINE s == [r EXCEPT !.pc = pc, !.digest = Null, !.stage = "none", !.event = "none",
                          !.retryable = retryable]
<1>1. s.pc = pc /\ s.event = "none"
  BY DEF RunOK, Run
<1>2. s.job = r.job /\ s.token = r.token
  BY DEF RunOK, Run
<1>3. pc \in InExecute /\ "none" \in Stage /\ "none" \in Event
  BY DEF InExecute, Stage, Event
<1>4. s \in Run
  BY <1>3 DEF RunOK, Run
<1>5. pc \notin {"save", "copy", "stream", "check", "apply"}
  OBVIOUS
<1> QED BY <1>1, <1>2, <1>4, <1>5 DEF RunOK

(* A step of one task leaves it in order and the other tasks as they are. *)
LEMMA WorkersMoveRuns ==
  ASSUME NEW w \in Worker, RunsOK, RowsOK,
         WorkerStep(w) \/ Heartbeat(w) \/ StoreBusy(w) \/ HeartbeatBusy(w) \/ Crash(w)
  PROVE  RunsOK' /\ \A v \in Worker : v # w => run'[v] = run[v]
<1> DEFINE r == run[w]
           Goal == RunsOK' /\ \A v \in Worker : v # w => run'[v] = run[v]
<1> RunOK(r) /\ r.pc \in InExecute \cup {"claim", "dead"}
  BY DEF RunsOK, RunOK, Run
<1>0. ASSUME NEW s, Becomes(w, s), RunOK(s) PROVE Goal
  BY <1>0 DEF Becomes, RunsOK, RunOK
<1>1. CASE UNCHANGED run
  BY <1>1 DEF RunsOK
<1>2. ASSUME Leaves(w) PROVE Goal
  BY <1>0, <1>2, IdleOK DEF Leaves
<1>3. ASSUME Raises(w), r.pc # "dead" PROVE Goal
  BY <1>0, <1>3, RaisedOK DEF Raises
<1>4. ASSUME NEW retryable \in BOOLEAN, NEW pc \in {"error", "stop", "cancelled", "verifying"},
             r.pc \in InExecute, LeavesStream(w, pc, retryable)
      PROVE  Goal
  BY <1>0, <1>4, StreamLeftOK DEF LeavesStream
<1>5. ASSUME NEW pc \in InExecute, Goes(w, pc), r.pc \in InExecute,
             pc \in {"copy", "save"} => r.digest \in Digest,
             pc \in {"stream", "check"} => FALSE,
             pc = "apply" => r.pc = "check" /\ r.event \in {"copying", "progress", "verifying"},
             r.event # "completed"
      PROVE  Goal
  <2>1. RunOK([r EXCEPT !.pc = pc])
    BY <1>5 DEF RunOK, Run, InExecute
  <2> QED BY <1>0, <1>5, <2>1 DEF Goes
<1>6. CASE ClaimNothing(w)
  BY <1>1, <1>6 DEF ClaimNothing
<1>7. ASSUME NEW j \in JobId, ClaimJob(w, j) PROVE Goal
  <2>1. PICK t \in Token : Becomes(w, [Idle EXCEPT !.pc = "claimed", !.job = j, !.token = t])
    BY <1>7 DEF ClaimJob
  <2> QED BY <1>0, <2>1, ClaimOnlyOK
<1>8. CASE ReadClaimed(w)
  <2>1. At(w, "claimed") => RunOK([r EXCEPT !.pc = "details", !.beating = TRUE])
    BY DEF At, RunOK, Run, InExecute
  <2> QED BY <1>0, <1>3, <1>8, <2>1 DEF ReadClaimed, At
<1>9. CASE ReadDetails(w)
  BY <1>3, <1>4, <1>5, <1>9 DEF ReadDetails, At, InExecute, Catches, RunOK
<1>10. CASE ReadSnapshot(w)
  <2>1. ASSUME At(w, "snapshot"), MyRow(w).snapshot # Null
        PROVE  RunOK([r EXCEPT !.pc = "copy", !.digest = MyRow(w).snapshot])
    <3>1. MyRow(w).snapshot \in Digest
      BY <2>1 DEF At, MyRow, RowsOK, Row, RunOK, InExecute
    <3> QED BY <2>1, <3>1 DEF At, RunOK, Run, InExecute
  <2> QED BY <1>0, <1>5, <1>10, <2>1 DEF ReadSnapshot, At, InExecute, RunOK
<1>11. CASE Plan(w)
  <2>1. ASSUME At(w, "plan"), NEW d \in Digest
        PROVE  RunOK([r EXCEPT !.pc = "save", !.digest = d])
    BY <2>1 DEF At, RunOK, Run, InExecute
  <2> QED BY <1>0, <1>3, <1>4, <1>11, <2>1 DEF Plan, At, InExecute, Catches
<1>12. CASE SaveSnapshot(w)
  BY <1>2, <1>5, <1>12 DEF SaveSnapshot, At, InExecute, RunOK
<1>13. CASE OpenStream(w)
  <2>1. At(w, "copy") => RunOK([r EXCEPT !.pc = "stream", !.stage = "opened"])
    BY DEF At, RunOK, Run, InExecute, Stage
  <2> QED BY <1>0, <1>3, <1>13, <2>1 DEF OpenStream, At
<1>14. CASE Receive(w)
  <2>1. ASSUME At(w, "stream"), NEW event \in NextEvent(r.stage)
        PROVE  RunOK([r EXCEPT !.pc = "check", !.event = event, !.stage = StageAfter(@, event)])
    <3>1. r.stage \in Stage \ {"none"}
      BY <2>1 DEF At, RunOK, Run
    <3>2. event \in {"copying", "progress", "verifying", "completed"}
      BY <3>1 DEF NextEvent, Stage
    <3>3. StageAfter(r.stage, event) \in Stage \ {"none"}
      BY <3>1, <3>2 DEF StageAfter, Stage
    <3> QED BY <2>1, <3>2, <3>3 DEF At, RunOK, Run, InExecute, Event
  <2>2. ASSUME At(w, "stream"), NEW retryable \in BOOLEAN
        PROVE  RunOK([r EXCEPT !.pc = "check", !.event = "failed", !.retryable = retryable])
    BY <2>2 DEF At, RunOK, Run, InExecute, Event
  <2> QED BY <1>0, <1>4, <1>14, <2>1, <2>2 DEF Receive, At, InExecute, Catches
<1>15. CASE CheckEvent(w)
  <2>1. At(w, "check") => r.event \in {"copying", "progress", "verifying", "failed", "completed"}
    BY DEF At, RunOK, Run, Event
  <2>2. r.retryable \in BOOLEAN
    BY DEF RunOK, Run
  <2> QED BY <1>4, <1>5, <1>15, <2>1, <2>2 DEF CheckEvent, At, InExecute, Catches, Stops
<1>16. CASE ApplyEvent(w)
  <2>1. At(w, "apply") => RunOK([r EXCEPT !.pc = "stream", !.event = "none"])
    BY DEF At, RunOK, Run, InExecute, Event
  <2> QED BY <1>0, <1>2, <1>16, <2>1 DEF ApplyEvent
<1>17. CASE StopOperation(w)
  BY <1>3, <1>4, <1>5, <1>17 DEF StopOperation, At, InExecute, Catches, RunOK
<1>18. CASE LastPhase(w)
  BY <1>5, <1>18 DEF LastPhase, At, InExecute, RunOK
<1>19. CASE FinishCancelled(w) \/ FinishCompleted(w)
  BY <1>2, <1>19 DEF FinishCancelled, FinishCompleted
<1>20. CASE HandleError(w)
  BY <1>3, <1>4, <1>5, <1>20 DEF HandleError, At, InExecute, Stops, RunOK
<1>21. CASE ReadFailure(w)
  <2>1. ASSUME At(w, "record"), NEW retryable \in {r.retryable, FALSE}
        PROVE  RunOK([r EXCEPT !.pc = "fail", !.retryable = retryable])
    BY <2>1 DEF At, RunOK, Run, InExecute
  <2> QED BY <1>0, <1>3, <1>21, <2>1 DEF ReadFailure, At
<1>22. CASE RecordFailure(w)
  BY <1>2, <1>3, <1>22 DEF RecordFailure, At
<1>23. CASE Heartbeat(w) \/ HeartbeatBusy(w)
  <2>1. RunOK([r EXCEPT !.beating = FALSE])
    BY DEF RunOK, Run
  <2> QED BY <1>0, <1>1, <1>23, <2>1 DEF Heartbeat, HeartbeatBusy
<1>24. CASE StoreBusy(w)
  BY <1>3, <1>24 DEF StoreBusy
<1>25. CASE Crash(w)
  BY <1>2, <1>25 DEF Crash
<1> QED
  BY <1>6, <1>7, <1>8, <1>9, <1>10, <1>11, <1>12, <1>13, <1>14, <1>15, <1>16, <1>17, <1>18,
     <1>19, <1>20, <1>21, <1>22, <1>23, <1>24, <1>25 DEF WorkerStep

(* So does every step of the system. *)
LEMMA RunsStep ==
  ASSUME RowsOK, RunsOK, [Next]_vars
  PROVE  RunsOK'
<1>1. CASE UNCHANGED run
  BY <1>1 DEF RunsOK
<1>2. ASSUME NEW c \in Client, NEW j \in JobId, Ask(c, j) PROVE UNCHANGED run
  BY <1>2 DEF Ask
<1> QED
  BY <1>1, <1>2, WorkersMoveRuns
  DEF Next, vars, Enqueue, CallEnds, LeaseLapses, RetryFallsDue

-----------------------------------------------------------------------------
(* The rest of the types.  A run that is about to make its job wait was let
   through by the budget, and only the holder of the claim spends it. *)

MayFail(w) == At(w, "fail") /\ run[w].retryable /\ Mine(w) => failures[run[w].job] < MaxRetries

MemoryOK ==
  /\ calls \in [Client -> Store!Call \cup {Store!NoCall}]
  /\ left \in [asks : 0 .. MaxAsks, faults : 0 .. MaxFaults]
  /\ sent \in [JobId -> SUBSET Digest]
  /\ verified \subseteq JobId

BudgetOK ==
  /\ failures \in [JobId -> 0 .. MaxRetries]
  /\ \A w \in Worker : MayFail(w)

IInv == RowsOK /\ RunsOK /\ MemoryOK /\ BudgetOK

(* The state of the store has the store's types. *)
LEMMA StoreTypes ==
  ASSUME RowsOK, RunsOK, MemoryOK
  PROVE  Store!TypeOK
<1>1. Store!Row = Row
  BY DEF Store!Row, Row, Store!ACTIVE, ACTIVE, Store!RUNNING, RUNNING, Store!TERMINAL, TERMINAL,
         Store!GONE, GONE, Store!Stamp, Stamp
<1>2. ASSUME NEW w \in Worker, Busy(w) PROVE Held(run[w]) \in Store!Claim
  BY <1>2 DEF RunsOK, RunOK, Busy, Held, Store!Claim
<1> QED BY <1>1, <1>2 DEF Store!TypeOK, RowsOK, MemoryOK

(* The invariant implies the type invariant of the runs. *)
LEMMA TypesFollow == IInv => TypeOK
BY StoreTypes DEF IInv, TypeOK, RowsOK, RunsOK, MemoryOK, BudgetOK

(* A call keeps its type from the read to the write. *)
LEMMA CallsStep ==
  ASSUME MemoryOK, RunsOK, [Next]_vars
  PROVE  calls' \in [Client -> Store!Call \cup {Store!NoCall}]
<1> DEFINE Goal == calls' \in [Client -> Store!Call \cup {Store!NoCall}]
<1> calls \in [Client -> Store!Call \cup {Store!NoCall}]
  BY DEF MemoryOK
<1>1. CASE UNCHANGED calls
  BY <1>1
<1>2. ASSUME NEW w \in Worker,
             WorkerStep(w) \/ Heartbeat(w) \/ StoreBusy(w) \/ HeartbeatBusy(w) \/ Crash(w)
      PROVE  UNCHANGED calls \/ Crash(w)
  BY <1>2, WorkersMoveRows
<1>3. ASSUME NEW w \in Worker, Crash(w) PROVE Goal
  BY <1>3 DEF Crash, Store!ProcessDies
<1>4. ASSUME NEW c \in Client, NEW j \in JobId, Ask(c, j) PROVE Goal
  <2>1. CASE Store!CancelRead(c, j)
    <3>1. [job |-> j, write |-> CancelState(rows[j])] \in Store!Call
      BY DEF CancelState, Store!Call
    <3> QED BY <2>1, <3>1, SameStatements DEF Store!CancelRead
  <2>2. CASE Store!RetryRead(c, j)
    BY <2>2 DEF Store!RetryRead, Store!Call
  <2>3. CASE Store!Dismiss(j)
    BY <2>3 DEF Store!Dismiss
  <2> QED BY <1>4, <2>1, <2>2, <2>3 DEF Ask
<1>5. ASSUME NEW c \in Client, CallEnds(c) PROVE Goal
  BY <1>5 DEF CallEnds, Store!CancelWrite, Store!RetryWrite, Store!CallFindsNothing, Store!Returns
<1>6. ASSUME NEW j \in JobId, NEW d \in Destination, Enqueue(j, d) PROVE UNCHANGED calls
  BY <1>6 DEF Enqueue, Store!Enqueue
<1>7. ASSUME NEW j \in JobId, LeaseLapses(j) \/ RetryFallsDue(j) PROVE UNCHANGED calls
  BY <1>7 DEF LeaseLapses, RetryFallsDue, Store!LeaseLapses, Store!RetryFallsDue
<1> QED BY <1>1, <1>2, <1>3, <1>4, <1>5, <1>6, <1>7 DEF Next, vars

(* What is spent of a bounded counter leaves a number. *)
LEMMA SpendsOK ==
  ASSUME NEW what \in {"asks", "faults"}, left \in [asks : 0 .. MaxAsks, faults : 0 .. MaxFaults],
         Spends(what)
  PROVE  left' \in [asks : 0 .. MaxAsks, faults : 0 .. MaxFaults]
<1> MaxAsks \in Nat /\ MaxFaults \in Nat
  BY BoundsAreNumbers
<1>1. CASE what = "asks"
  BY <1>1 DEF Spends
<1>2. CASE what = "faults"
  BY <1>2 DEF Spends
<1> QED BY <1>1, <1>2

(* What was sent and verified keeps its type, and so do the counters. *)
LEMMA MemoryStep ==
  ASSUME MemoryOK, RunsOK, [Next]_vars
  PROVE  MemoryOK'
<1>1. left' \in [asks : 0 .. MaxAsks, faults : 0 .. MaxFaults]
  <2> left \in [asks : 0 .. MaxAsks, faults : 0 .. MaxFaults]
    BY DEF MemoryOK
  <2>1. ASSUME NEW w \in Worker, WorkerStep(w) \/ Heartbeat(w) PROVE UNCHANGED left
    BY <2>1 DEF WorkerStep, Heartbeat, ClaimNothing, ClaimJob, ReadClaimed, ReadDetails,
       ReadSnapshot, Plan, SaveSnapshot, OpenStream, Receive, CheckEvent, ApplyEvent,
       StopOperation, FinishCancelled, LastPhase, FinishCompleted, HandleError, ReadFailure,
       RecordFailure, OnlyRun, OnlyStore
  <2>2. ASSUME NEW w \in Worker, StoreBusy(w) \/ HeartbeatBusy(w) \/ Crash(w)
        PROVE  Spends("faults")
    BY <2>2 DEF StoreBusy, HeartbeatBusy, Crash
  <2>3. ASSUME NEW c \in Client, NEW j \in JobId, Ask(c, j) PROVE Spends("asks")
    BY <2>3 DEF Ask
  <2>4. ASSUME NEW c \in Client, CallEnds(c) PROVE UNCHANGED left
    BY <2>4 DEF CallEnds, OnlyStore
  <2> QED BY <2>1, <2>2, <2>3, <2>4, SpendsOK
          DEF Next, vars, Enqueue, LeaseLapses, RetryFallsDue, OnlyStore
<1>2. sent' \in [JobId -> SUBSET Digest] /\ verified' \subseteq JobId
  <2> DEFINE Goal == sent' \in [JobId -> SUBSET Digest] /\ verified' \subseteq JobId
  <2> sent \in [JobId -> SUBSET Digest] /\ verified \subseteq JobId
    BY DEF MemoryOK
  <2>1. CASE UNCHANGED service
    BY <2>1 DEF service
  <2>2. ASSUME NEW w \in Worker, OpenStream(w) PROVE Goal
    <3>1. run[w].digest \in Digest
      BY <2>2 DEF OpenStream, At, RunsOK, RunOK
    <3> QED BY <2>1, <2>2, <3>1 DEF OpenStream, OnlyRun
  <2>3. ASSUME NEW w \in Worker, Receive(w) PROVE Goal
    <3>1. run[w].job \in JobId
      BY <2>3 DEF Receive, At, InExecute, RunsOK, RunOK
    <3> QED BY <2>3, <3>1 DEF Receive
  <2>4. ASSUME NEW w \in Worker, WorkerStep(w) \/ Heartbeat(w), ~ OpenStream(w), ~ Receive(w)
        PROVE  UNCHANGED service
    BY <2>4 DEF WorkerStep, Heartbeat, ClaimNothing, ClaimJob, ReadClaimed, ReadDetails,
       ReadSnapshot, Plan, SaveSnapshot, CheckEvent, ApplyEvent,
       StopOperation, FinishCancelled, LastPhase, FinishCompleted, HandleError, ReadFailure,
       RecordFailure, OnlyRun, OnlyStore
  <2>5. ASSUME NEW w \in Worker, StoreBusy(w) \/ HeartbeatBusy(w) \/ Crash(w)
        PROVE  UNCHANGED service
    BY <2>5 DEF StoreBusy, HeartbeatBusy, Crash
  <2>6. ASSUME NEW c \in Client, (\E j \in JobId : Ask(c, j)) \/ CallEnds(c)
        PROVE  UNCHANGED service
    BY <2>6 DEF Ask, CallEnds, OnlyStore
  <2>7. CASE UNCHANGED vars
    BY <2>1, <2>7 DEF vars, service
  <2> QED BY <2>1, <2>2, <2>3, <2>4, <2>5, <2>6, <2>7
          DEF Next, Enqueue, LeaseLapses, RetryFallsDue, OnlyStore, WorkerStep
<1> QED BY <1>1, <1>2, CallsStep DEF MemoryOK

-----------------------------------------------------------------------------
(* Only a claim brings a token into a row. *)
LEMMA TokensComeFromClaims ==
  ASSUME RowsOK, RunsOK, [Next]_vars, NEW j \in JobId, rows'[j].token \notin {rows[j].token, Null}
  PROVE  \E v \in Worker : ClaimMoves(v)
<1> SUFFICES ASSUME \A v \in Worker : ~ ClaimMoves(v)
             PROVE  rows'[j].token \in {rows[j].token, Null}
  OBVIOUS
<1> DEFINE Goal == rows'[j].token \in {rows[j].token, Null}
<1> rows \in [JobId -> Row] /\ \A k \in JobId : rows[k] \in Row
  BY DEF RowsOK, RowOK
<1>1. ASSUME NEW v \in Worker, WorkerMoves(v) PROVE Goal
  <2>1. CASE UNCHANGED rows
    BY <2>1
  <2>2. CASE rows' = [k \in JobId |-> Swept(rows[k])]
    BY <2>2 DEF Swept, WithoutClaim, Row
  <2>3. CASE Busy(v) /\ HolderMoves(v)
    <3>1. PICK row : HolderWrote(MyRow(v), row) /\ rows' = [rows EXCEPT ![run[v].job] = row]
      BY <2>3 DEF HolderMoves
    <3>2. MyRow(v) \in Row
      BY <2>3 DEF MyRow, Busy, RunsOK, RunOK
    <3>3. row.token \in {MyRow(v).token, Null}
      BY <3>1, <3>2 DEF HolderWrote, Renewed, Pinned, InPhase, Finished, Failed, Released,
                        WithoutClaim, Row
    <3> QED BY <3>1, <3>3 DEF MyRow
  <2> QED BY <1>1, <2>1, <2>2, <2>3 DEF WorkerMoves
<1>2. ASSUME NEW i \in JobId, NEW d \in Destination, Enqueue(i, d) PROVE Goal
  BY <1>2, SameStatements DEF Enqueue, Store!Enqueue, QueuedRow, NoRow
<1>3. ASSUME NEW c \in Client, NEW i \in JobId, Ask(c, i) PROVE Goal
  BY <1>3, SameStatements DEF Ask, Store!CancelRead, Store!RetryRead, Store!Dismiss,
     DeletedRow, NoRow
<1>4. ASSUME NEW c \in Client, CallEnds(c) PROVE Goal
  <2>1. ASSUME NEW state PROVE CancelWritten(rows[j], state).token = rows[j].token
    BY DEF CancelWritten, Row
  <2>2. RetryWritten(rows[j]).token = rows[j].token
    BY DEF RetryWritten, Row
  <2>3. CASE Store!CancelWrite(c)
    BY <2>1, <2>3, SameStatements DEF Store!CancelWrite
  <2>4. CASE Store!RetryWrite(c)
    BY <2>2, <2>4, SameStatements DEF Store!RetryWrite
  <2>5. CASE Store!CallFindsNothing(c)
    BY <2>5 DEF Store!CallFindsNothing
  <2> QED BY <1>4, <2>3, <2>4, <2>5 DEF CallEnds
<1>5. ASSUME NEW i \in JobId, LeaseLapses(i) \/ RetryFallsDue(i) PROVE Goal
  BY <1>5 DEF LeaseLapses, RetryFallsDue, Store!LeaseLapses, Store!RetryFallsDue, Row
<1>6. CASE UNCHANGED vars
  BY <1>6 DEF vars
<1> QED
  BY <1>1, <1>2, <1>3, <1>4, <1>5, <1>6, WorkersMoveRows DEF Next

(* So a run holds a row only if it held it before. *)
LEMMA HoldsAsBefore ==
  ASSUME RowsOK, RunsOK, [Next]_vars, NEW j \in JobId, NEW w \in Worker, Busy(w),
         HeldBy(rows'[j], run[w].token)
  PROVE  HeldBy(rows[j], run[w].token)
<1> DEFINE t == run[w].token
<1> t \in Token /\ t # Null /\ RowOK(rows[j])
  BY NullIsNoValue DEF RowsOK, RunsOK, RunOK, Busy
<1>1. rows[j].token = t
  <2> SUFFICES ASSUME rows[j].token # t PROVE FALSE
    OBVIOUS
  <2>1. PICK v \in Worker : ClaimMoves(v)
    BY TokensComeFromClaims DEF HeldBy
  <2>2. PICK i \in JobId, u \in Token :
          /\ Store!Unused(u)
          /\ rows' = [[k \in JobId |-> Swept(rows[k])] EXCEPT ![i] = Claimed(rows[i], v, u)]
    BY <2>1 DEF ClaimMoves
  <2>3. u # t
    <3>1. Held(run[w]) \in {Held(run[x]) : x \in {y \in Worker : Busy(y)}}
      OBVIOUS
    <3>2. Held(run[w]).token # u
      BY <2>2, <3>1 DEF Store!Unused
    <3> QED BY <3>2 DEF Held
  <2>4. RowOK(rows[i]) /\ i \in JobId
    BY DEF RowsOK
  <2>5. CASE i = j
    BY <2>2, <2>3, <2>4, <2>5 DEF HeldBy, Claimed, RowOK, Row
  <2>6. CASE i # j
    BY <2>2, <2>6 DEF HeldBy, Swept, WithoutClaim, RowOK, Row
  <2> QED BY <2>5, <2>6
<1>2. Exists(rows[j])
  BY <1>1 DEF RowOK, Exists
<1> QED BY <1>1, <1>2 DEF HeldBy

(* How a run comes to the call of fail_or_retry. *)
LEMMA FailIsReached ==
  ASSUME NEW w \in Worker, RunsOK, run'[w].pc = "fail",
         WorkerStep(w) \/ Heartbeat(w) \/ StoreBusy(w) \/ HeartbeatBusy(w) \/ Crash(w)
  PROVE  /\ run'[w].job = run[w].job /\ run'[w].token = run[w].token
         /\ run[w].pc \in {"record", "fail"}
         /\ \/ run[w].pc = "fail" /\ run'[w].retryable = run[w].retryable
            \/ run'[w].retryable => failures[run[w].job] < MaxRetries
<1> DEFINE Goal == /\ run'[w].job = run[w].job /\ run'[w].token = run[w].token
                   /\ run[w].pc \in {"record", "fail"}
                   /\ \/ run[w].pc = "fail" /\ run'[w].retryable = run[w].retryable
                      \/ run'[w].retryable => failures[run[w].job] < MaxRetries
<1> run \in [Worker -> Run] /\ run[w] \in Run
  BY DEF RunsOK
<1>1. CASE run'[w] = run[w]
  BY <1>1
<1>2. ASSUME NEW s, Becomes(w, s) PROVE run'[w] = s
  BY <1>2 DEF Becomes
<1>3. ASSUME NEW pc, Goes(w, pc) PROVE pc = "fail"
  BY <1>2, <1>3 DEF Goes, Run
<1>4. ~ Leaves(w)
  BY <1>2 DEF Leaves, Idle
<1>5. ~ Raises(w)
  BY <1>2 DEF Raises, Raised, Idle
<1>6. ASSUME NEW pc, NEW retryable, LeavesStream(w, pc, retryable) PROVE pc = "fail"
  BY <1>2, <1>6 DEF LeavesStream, Run
<1>7. CASE ReadFailure(w)
  <2>1. PICK retryable \in {run[w].retryable, FALSE} :
          /\ retryable => failures[run[w].job] < MaxRetries
          /\ Becomes(w, [run[w] EXCEPT !.pc = "fail", !.retryable = retryable])
    BY <1>5, <1>7 DEF ReadFailure
  <2> QED BY <1>2, <1>7, <2>1 DEF ReadFailure, At, Run
<1>8. CASE Heartbeat(w) \/ HeartbeatBusy(w)
  <2>1. CASE Becomes(w, [run[w] EXCEPT !.beating = FALSE])
    BY <1>2, <2>1 DEF Run
  <2> QED BY <1>1, <1>8, <2>1 DEF Heartbeat, HeartbeatBusy
<1>9. CASE ClaimNothing(w)
  BY <1>9 DEF ClaimNothing, At
<1>10. ASSUME NEW j \in JobId PROVE ~ ClaimJob(w, j)
  <2>1. ASSUME NEW t PROVE [Idle EXCEPT !.pc = "claimed", !.job = j, !.token = t].pc # "fail"
    BY DEF Idle
  <2> QED BY <1>2, <2>1 DEF ClaimJob
<1>11. ~ (ReadClaimed(w) \/ Receive(w) \/ OpenStream(w) \/ ApplyEvent(w) \/ Plan(w)
          \/ ReadSnapshot(w))
  <2>2. ~ (ReadClaimed(w) \/ OpenStream(w))
    BY <1>2, <1>5 DEF ReadClaimed, OpenStream, Run
  <2>3. ~ (Receive(w) \/ ApplyEvent(w))
    BY <1>2, <1>4, <1>6 DEF Receive, ApplyEvent, Catches, Run
  <2>4. ~ (Plan(w) \/ ReadSnapshot(w))
    BY <1>2, <1>3, <1>5, <1>6 DEF Plan, ReadSnapshot, Catches, Run
  <2> QED BY <2>2, <2>3, <2>4
<1>12. ~ CheckEvent(w)
  <2>1. At(w, "check") =>
          run[w].event \in {"copying", "progress", "verifying", "failed", "completed"}
    BY DEF At, RunsOK, RunOK, Run, Event
  <2> QED BY <1>3, <1>6, <2>1 DEF CheckEvent, Catches, Stops
<1>13. ~ (ReadDetails(w) \/ SaveSnapshot(w) \/ StopOperation(w) \/ LastPhase(w)
          \/ FinishCancelled(w) \/ FinishCompleted(w) \/ HandleError(w) \/ RecordFailure(w)
          \/ StoreBusy(w) \/ Crash(w))
  BY <1>3, <1>4, <1>5, <1>6 DEF ReadDetails, SaveSnapshot, StopOperation, LastPhase,
     FinishCancelled, FinishCompleted, HandleError, RecordFailure, StoreBusy, Crash, Catches,
     Stops
<1> QED BY <1>7, <1>8, <1>9, <1>10, <1>11, <1>12, <1>13 DEF WorkerStep

(* The counter of failures stays within the budget. *)
LEMMA BudgetStep ==
  ASSUME RowsOK, RunsOK, BudgetOK, [Next]_vars
  PROVE  BudgetOK'
<1> failures \in [JobId -> 0 .. MaxRetries] /\ MaxRetries \in Nat
  BY BoundsAreNumbers DEF BudgetOK
<1>1. ASSUME NEW v \in Worker, run'[v] = run[v], At(v, "fail"), Mine(v)' PROVE Mine(v)
  <2>1. Busy(v) /\ run[v].job \in JobId
    BY <1>1 DEF Busy, At, InExecute, RunsOK, RunOK
  <2>2. HeldBy(rows'[run[v].job], run[v].token)
    BY <1>1 DEF Mine, MyRow
  <2> QED BY <1>1, <2>1, <2>2, HoldsAsBefore DEF Mine, MyRow
<1>2. ASSUME NEW v \in Worker, run'[v] = run[v], UNCHANGED failures PROVE MayFail(v)'
  BY <1>1, <1>2 DEF BudgetOK, MayFail, At
<1>3. ASSUME NEW w \in Worker, UNCHANGED failures,
             WorkerStep(w) \/ Heartbeat(w) \/ StoreBusy(w) \/ HeartbeatBusy(w) \/ Crash(w)
      PROVE  BudgetOK'
  <2>1. MayFail(w)'
    <3> SUFFICES ASSUME run'[w].pc = "fail", run'[w].retryable, Mine(w)'
                 PROVE  failures[run[w].job] < MaxRetries /\ run'[w].job = run[w].job
      BY <1>3 DEF MayFail, At
    <3>1. /\ run'[w].job = run[w].job /\ run'[w].token = run[w].token
          /\ run[w].pc \in {"record", "fail"}
          /\ \/ run[w].pc = "fail" /\ run'[w].retryable = run[w].retryable
             \/ failures[run[w].job] < MaxRetries
      BY <1>3, FailIsReached
    <3>2. Busy(w) /\ run[w].job \in JobId
      BY <3>1 DEF Busy, InExecute, RunsOK, RunOK
    <3>3. Mine(w)
      BY <3>1, <3>2, HoldsAsBefore DEF Mine, MyRow
    <3> QED BY <3>1, <3>3 DEF BudgetOK, MayFail, At
  <2>2. ASSUME NEW v \in Worker, v # w PROVE MayFail(v)'
    BY <1>2, <1>3, <2>2, WorkersMoveRuns
  <2> QED BY <1>3, <2>1, <2>2 DEF BudgetOK
<1>4. ASSUME NEW w \in Worker, RecordFailure(w) PROVE BudgetOK'
  <2>1. CASE UNCHANGED failures
    BY <1>3, <1>4, <2>1 DEF WorkerStep
  <2>2. CASE ~ UNCHANGED failures
    <3>1. /\ Store!FailOrRetry(Held(run[w]), run[w].retryable) /\ run[w].retryable /\ At(w, "fail")
          /\ failures' = [failures EXCEPT ![run[w].job] = @ + 1] /\ Leaves(w)
      BY <1>4, <2>2 DEF RecordFailure, OnlyRun
    <3>2. run[w].job \in JobId /\ RowOK(MyRow(w))
      BY <3>1 DEF At, InExecute, RunsOK, RunOK, RowsOK, MyRow
    <3>3. Mine(w) /\ rows' = [rows EXCEPT ![run[w].job] = Failed(MyRow(w), run[w].retryable)]
      BY <3>1, SameStatements DEF Store!FailOrRetry, Store!HolderWrites, Held, Mine, MyRow
    <3>4. failures[run[w].job] < MaxRetries
      BY <3>1, <3>3 DEF BudgetOK, MayFail
    <3>5. failures' \in [JobId -> 0 .. MaxRetries]
      BY <3>1, <3>2, <3>4
    <3>6. rows'[run[w].job].token = Null
      BY <3>2, <3>3 DEF Failed, WithoutClaim, RowOK, Row, RowsOK
    <3>7. ASSUME NEW v \in Worker PROVE MayFail(v)'
      <4>1. CASE v = w
        BY <3>1, <4>1 DEF Leaves, Becomes, Idle, MayFail, At, RunsOK
      <4>2. CASE v # w
        <5>1. run'[v] = run[v]
          BY <3>1, <4>2 DEF Leaves, Becomes, RunsOK
        <5>2. CASE run[v].job = run[w].job /\ At(v, "fail")
          <6>1. run[v].token # Null
            BY <5>2, NullIsNoValue DEF At, InExecute, RunsOK, RunOK
          <6> QED BY <3>6, <5>1, <5>2, <6>1 DEF MayFail, Mine, MyRow, HeldBy
        <5>3. CASE run[v].job # run[w].job /\ At(v, "fail")
          <6>1. failures'[run[v].job] = failures[run[v].job]
            BY <3>1, <5>3
          <6> QED BY <1>1, <5>1, <5>3, <6>1 DEF BudgetOK, MayFail, At
        <5>4. CASE ~ At(v, "fail")
          BY <5>1, <5>4 DEF MayFail, At
        <5> QED BY <5>2, <5>3, <5>4
      <4> QED BY <4>1, <4>2
    <3> QED BY <3>5, <3>7 DEF BudgetOK
  <2> QED BY <2>1, <2>2
<1>5. ASSUME NEW w \in Worker, WorkerStep(w) \/ Heartbeat(w), ~ RecordFailure(w)
      PROVE  UNCHANGED failures
  BY <1>5 DEF WorkerStep, Heartbeat, ClaimNothing, ClaimJob, ReadClaimed, ReadDetails,
     ReadSnapshot, Plan, SaveSnapshot, OpenStream, Receive, CheckEvent, ApplyEvent,
     StopOperation, FinishCancelled, LastPhase, FinishCompleted, HandleError, ReadFailure,
     OnlyRun, OnlyStore
<1>6. ASSUME NEW w \in Worker, StoreBusy(w) \/ HeartbeatBusy(w) \/ Crash(w)
      PROVE  UNCHANGED failures
  BY <1>6 DEF StoreBusy, HeartbeatBusy, Crash
<1>7. CASE UNCHANGED <<run, failures>>
  BY <1>2, <1>7 DEF BudgetOK
<1>8. ASSUME NEW c \in Client, (\E j \in JobId : Ask(c, j)) \/ CallEnds(c)
      PROVE  UNCHANGED <<run, failures>>
  BY <1>8 DEF Ask, CallEnds, OnlyStore
<1> QED
  BY <1>3, <1>4, <1>5, <1>6, <1>7, <1>8
  DEF Next, vars, Enqueue, LeaseLapses, RetryFallsDue, OnlyStore

-----------------------------------------------------------------------------
(* The first invariant holds of every behaviour. *)
THEOREM Invariance == Spec => []IInv
<1>1. Init => IInv
  <2>1. ASSUME Init PROVE RowsOK /\ RunsOK
    BY <2>1, NoRowOK, IdleOK DEF Init, RowsOK, RunsOK, RowOK, RunOK
  <2>2. ASSUME Init PROVE MemoryOK /\ BudgetOK
    <3> MaxAsks \in Nat /\ MaxFaults \in Nat /\ MaxRetries \in Nat
      BY BoundsAreNumbers
    <3>1. MemoryOK
      BY <2>2 DEF Init, MemoryOK
    <3>2. BudgetOK
      BY <2>2 DEF Init, BudgetOK, MayFail, At, Idle
    <3> QED BY <3>1, <3>2
  <2> QED BY <2>1, <2>2 DEF IInv
<1>2. IInv /\ [Next]_vars => IInv'
  <2> SUFFICES ASSUME IInv, [Next]_vars PROVE IInv'
    OBVIOUS
  <2>1. RowsOK'
    BY StepsAreRowSteps, RowStepKeepsRowOK DEF IInv, RowsOK, RowOK
  <2> QED BY <2>1, RunsStep, MemoryStep, BudgetStep DEF IInv
<1> QED BY <1>1, <1>2, PTL DEF Spec

(* The variables of every worker, of the table and of the calls keep their
   types: no run works without a claim, none spends more than its budget. *)
THEOREM TypeCorrect == Spec => []TypeOK
<1>1. IInv => TypeOK
  BY TypesFollow
<1> QED BY <1>1, Invariance, PTL

-----------------------------------------------------------------------------
(* The refinement of PinnedCopy. *)

Copying == {"copy", "stream", "check", "apply"}

Same(v, w) == run[v].job = run[w].job => run[v].digest = run[w].digest

(* What a run copies is what its row has pinned, if there is still a row; it
   is all that was sent for the job; and runs of one job agree on it. *)
CopiesPinned(w) ==
  LET j == run[w].job
      d == run[w].digest
  IN run[w].pc \in Copying =>
       /\ rows[j].state = "deleted" \/ rows[j].snapshot = d
       /\ sent[j] \subseteq {d}
       /\ run[w].pc # "copy" => sent[j] # {}

RunsAgree ==
  \A v, w \in Worker : run[v].pc \in Copying /\ run[w].pc \in Copying => Same(v, w)

SentIsPinned ==
  \A j \in JobId : \A d \in sent[j] : rows[j].state = "deleted" \/ rows[j].snapshot = d

(* A run that has seen the result of the service is about to complete a job
   that is verified. *)
ResultIsVerified(w) ==
  run[w].pc \in {"verifying", "finish"} \/ run[w].event = "completed" => run[w].job \in verified

ContentOK ==
  /\ \A w \in Worker : CopiesPinned(w) /\ ResultIsVerified(w)
  /\ RunsAgree /\ SentIsPinned

(* How a run comes to copy. *)
LEMMA CopyIsReached ==
  ASSUME NEW w \in Worker, RunsOK, run'[w].pc \in Copying,
         WorkerStep(w) \/ Heartbeat(w) \/ StoreBusy(w) \/ HeartbeatBusy(w) \/ Crash(w)
  PROVE  /\ run'[w].job = run[w].job
         /\ \/ /\ run[w].pc \in Copying /\ run'[w].digest = run[w].digest
               /\ run'[w].pc # "copy" => run[w].pc # "copy" \/ OpenStream(w)
            \/ /\ run'[w].pc = "copy" /\ At(w, "snapshot") /\ UNCHANGED <<rows, sent>>
               /\ run'[w].digest = MyRow(w).snapshot /\ MyRow(w).snapshot # Null
            \/ /\ run'[w].pc = "copy" /\ At(w, "save") /\ UNCHANGED sent
               /\ run'[w].digest = run[w].digest
               /\ Store!SaveSnapshot(Held(run[w]), run[w].digest)
<1> DEFINE Goal ==
         /\ run'[w].job = run[w].job
         /\ \/ /\ run[w].pc \in Copying /\ run'[w].digest = run[w].digest
               /\ run'[w].pc # "copy" => run[w].pc # "copy" \/ OpenStream(w)
            \/ /\ run'[w].pc = "copy" /\ At(w, "snapshot") /\ UNCHANGED <<rows, sent>>
               /\ run'[w].digest = MyRow(w).snapshot /\ MyRow(w).snapshot # Null
            \/ /\ run'[w].pc = "copy" /\ At(w, "save") /\ UNCHANGED sent
               /\ run'[w].digest = run[w].digest
               /\ Store!SaveSnapshot(Held(run[w]), run[w].digest)
<1> run \in [Worker -> Run] /\ run[w] \in Run
  BY DEF RunsOK
<1> USE DEF Copying
<1>1. CASE run'[w] = run[w]
  BY <1>1
<1>2. ASSUME NEW s, Becomes(w, s) PROVE run'[w] = s
  BY <1>2 DEF Becomes
<1>3. ASSUME NEW pc, Goes(w, pc)
      PROVE  /\ pc \in {"copy", "stream", "check", "apply"}
             /\ run'[w].pc = pc /\ run'[w].job = run[w].job /\ run'[w].digest = run[w].digest
  BY <1>2, <1>3 DEF Goes, Run
<1>4. ~ Leaves(w)
  BY RunLeft
<1>5. ~ Raises(w)
  BY RunLeft
<1>6. ASSUME NEW retryable
      PROVE  /\ ~ Catches(w, retryable)
             /\ \A pc \in {"stop", "cancelled", "verifying"} : ~ Stops(w, pc)
  BY RunLeft
<1>7. CASE Heartbeat(w) \/ HeartbeatBusy(w)
  <2>1. CASE Becomes(w, [run[w] EXCEPT !.beating = FALSE])
    BY <1>2, <2>1 DEF Run
  <2> QED BY <1>1, <1>7, <2>1 DEF Heartbeat, HeartbeatBusy
<1>8. CASE ClaimNothing(w)
  BY <1>1, <1>8 DEF ClaimNothing, At
<1>9. ASSUME NEW j \in JobId PROVE ~ ClaimJob(w, j)
  <2>1. ASSUME NEW t
        PROVE  [Idle EXCEPT !.pc = "claimed", !.job = j, !.token = t].pc = "claimed"
    BY DEF Idle
  <2> QED BY <1>2, <2>1 DEF ClaimJob
<1>10. CASE ReadSnapshot(w)
  <2>1. Becomes(w, [run[w] EXCEPT !.pc = "copy", !.digest = MyRow(w).snapshot])
    BY <1>3, <1>10 DEF ReadSnapshot
  <2> QED BY <1>2, <1>3, <1>10, <2>1 DEF ReadSnapshot, OnlyRun, service, Run
<1>11. CASE SaveSnapshot(w)
  BY <1>3, <1>4, <1>11 DEF SaveSnapshot, OnlyStore, service
<1>12. CASE OpenStream(w)
  <2>1. Becomes(w, [run[w] EXCEPT !.pc = "stream", !.stage = "opened"])
    BY <1>5, <1>12 DEF OpenStream
  <2> QED BY <1>2, <1>12, <2>1 DEF OpenStream, At, Run
<1>13. CASE Receive(w)
  <2>1. ASSUME NEW event, NEW stage,
               Becomes(w, [run[w] EXCEPT !.pc = "check", !.event = event, !.stage = stage])
        PROVE  run'[w].job = run[w].job /\ run'[w].digest = run[w].digest
    BY <1>2, <2>1 DEF Run
  <2>2. ASSUME NEW retryable,
               Becomes(w, [run[w] EXCEPT !.pc = "check", !.event = "failed",
                                         !.retryable = retryable])
        PROVE  run'[w].job = run[w].job /\ run'[w].digest = run[w].digest
    BY <1>2, <2>2 DEF Run
  <2>3. run'[w].job = run[w].job /\ run'[w].digest = run[w].digest
    BY <1>6, <1>13, <2>1, <2>2 DEF Receive
  <2>4. run[w].pc = "stream"
    BY <1>13 DEF Receive, At
  <2> QED BY <2>3, <2>4
<1>14. CASE CheckEvent(w)
  <2>1. run[w].event \in {"copying", "progress", "verifying", "failed", "completed"}
    BY <1>14 DEF CheckEvent, At, RunsOK, RunOK, Run, Event
  <2>2. Goes(w, "apply")
    BY <1>6, <1>14, <2>1 DEF CheckEvent
  <2>3. run[w].pc = "check"
    BY <1>14 DEF CheckEvent, At
  <2> QED BY <1>3, <2>2, <2>3
<1>15. CASE ApplyEvent(w)
  <2>1. Becomes(w, [run[w] EXCEPT !.pc = "stream", !.event = "none"])
    BY <1>4, <1>15 DEF ApplyEvent
  <2> QED BY <1>2, <1>15, <2>1 DEF ApplyEvent, At, Run
<1>16. ~ ReadClaimed(w) /\ ~ ReadFailure(w) /\ ~ Plan(w)
  <2>1. ~ ReadClaimed(w)
    BY <1>2, <1>5 DEF ReadClaimed, Run
  <2>2. ~ ReadFailure(w)
    BY <1>2, <1>5 DEF ReadFailure, Run
  <2>3. ~ Plan(w)
    BY <1>2, <1>5, <1>6 DEF Plan, Run
  <2> QED BY <2>1, <2>2, <2>3
<1>17. ~ (ReadDetails(w) \/ StopOperation(w) \/ LastPhase(w) \/ HandleError(w))
  <2>1. \A pc \in {"snapshot", "cancelled", "finish", "record"} : ~ Goes(w, pc)
    BY <1>3
  <2> QED BY <1>5, <1>6, <2>1 DEF ReadDetails, StopOperation, LastPhase, HandleError
<1>18. ~ (FinishCancelled(w) \/ FinishCompleted(w) \/ RecordFailure(w) \/ StoreBusy(w) \/ Crash(w))
  BY <1>4, <1>5 DEF FinishCancelled, FinishCompleted, RecordFailure, StoreBusy, Crash
<1> QED BY <1>7, <1>8, <1>9, <1>10, <1>11, <1>12, <1>13, <1>14, <1>15, <1>16, <1>17,
           <1>18 DEF WorkerStep

(* How a run comes to complete its job. *)
LEMMA ResultIsReached ==
  ASSUME NEW w \in Worker, RunsOK,
         run'[w].pc \in {"verifying", "finish"} \/ run'[w].event = "completed",
         WorkerStep(w) \/ Heartbeat(w) \/ StoreBusy(w) \/ HeartbeatBusy(w) \/ Crash(w)
  PROVE  /\ run'[w].job = run[w].job
         /\ \/ run[w].pc \in {"verifying", "finish"} \/ run[w].event = "completed"
            \/ run[w].job \in verified'
<1> DEFINE Before == run[w].pc \in {"verifying", "finish"} \/ run[w].event = "completed"
           Goal == run'[w].job = run[w].job /\ (Before \/ run[w].job \in verified')
<1> run \in [Worker -> Run] /\ run[w] \in Run /\ RunOK(run[w])
  BY DEF RunsOK
<1>1. CASE run'[w] = run[w]
  BY <1>1
<1>2. ASSUME NEW s, Becomes(w, s) PROVE run'[w] = s
  BY <1>2 DEF Becomes
<1>3. ASSUME NEW pc, Goes(w, pc)
      PROVE  /\ run'[w].pc = pc /\ run'[w].job = run[w].job
             /\ pc \in {"verifying", "finish"} \/ Before
  BY <1>2, <1>3 DEF Goes, Run
<1>4. ~ Leaves(w)
  BY RunLeft
<1>5. ~ Raises(w)
  BY RunLeft
<1>6. ASSUME NEW retryable
      PROVE  ~ Catches(w, retryable) /\ ~ Stops(w, "stop") /\ ~ Stops(w, "cancelled")
  BY RunLeft
<1>7. CASE Heartbeat(w) \/ HeartbeatBusy(w)
  <2>1. CASE Becomes(w, [run[w] EXCEPT !.beating = FALSE])
    BY <1>2, <2>1 DEF Run
  <2> QED BY <1>1, <1>7, <2>1 DEF Heartbeat, HeartbeatBusy
<1>8. CASE ClaimNothing(w)
  BY <1>1, <1>8 DEF ClaimNothing
<1>9. ASSUME NEW j \in JobId PROVE ~ ClaimJob(w, j)
  <2>1. ASSUME NEW t
        PROVE  /\ [Idle EXCEPT !.pc = "claimed", !.job = j, !.token = t].pc = "claimed"
               /\ [Idle EXCEPT !.pc = "claimed", !.job = j, !.token = t].event = "none"
    BY DEF Idle
  <2> QED BY <1>2, <2>1 DEF ClaimJob
<1>10. CASE Receive(w)
  <2>1. PICK event, stage, retryable :
          \/ /\ Becomes(w, [run[w] EXCEPT !.pc = "check", !.event = event, !.stage = stage])
             /\ verified' = IF event = "completed" THEN verified \cup {run[w].job} ELSE verified
          \/ Becomes(w, [run[w] EXCEPT !.pc = "check", !.event = "failed",
                                       !.retryable = retryable])
    BY <1>6, <1>10 DEF Receive
  <2>2. CASE Becomes(w, [run[w] EXCEPT !.pc = "check", !.event = "failed",
                                       !.retryable = retryable])
    BY <1>2, <2>2 DEF Run
  <2> QED BY <1>2, <2>1, <2>2 DEF Run
<1>11. CASE CheckEvent(w)
  <2>1. CASE run[w].event = "completed"
    <3>1. Stops(w, "verifying")
      BY <1>6, <1>11, <2>1 DEF CheckEvent
    <3>2. run'[w].job = run[w].job
      BY <3>1, StreamLeft DEF Stops
    <3> QED BY <2>1, <3>2
  <2>2. CASE run[w].event \in {"copying", "progress", "verifying", "failed"}
    BY <1>3, <1>6, <1>11, <2>2 DEF CheckEvent
  <2> QED BY <1>11, <2>1, <2>2 DEF CheckEvent, At, RunOK, Run, Event
<1>12. CASE LastPhase(w)
  BY <1>3, <1>12 DEF LastPhase, At
<1>13. CASE ReadClaimed(w) \/ ReadSnapshot(w) \/ OpenStream(w) \/ ReadFailure(w) \/ Plan(w)
            \/ ApplyEvent(w)
  <2>1. CASE Becomes(w, [run[w] EXCEPT !.pc = "details", !.beating = TRUE])
    BY <1>2, <2>1 DEF Run
  <2>2. CASE Becomes(w, [run[w] EXCEPT !.pc = "copy", !.digest = MyRow(w).snapshot])
    BY <1>2, <2>2 DEF Run
  <2>3. CASE Becomes(w, [run[w] EXCEPT !.pc = "stream", !.stage = "opened"])
    BY <1>2, <2>3 DEF Run
  <2>4. ASSUME NEW retryable, Becomes(w, [run[w] EXCEPT !.pc = "fail", !.retryable = retryable])
        PROVE  Goal
    BY <1>2, <2>4 DEF Run
  <2>5. ASSUME NEW d, Becomes(w, [run[w] EXCEPT !.pc = "save", !.digest = d])
        PROVE  Goal
    BY <1>2, <2>5 DEF Run
  <2>6. ~ Becomes(w, [run[w] EXCEPT !.pc = "stream", !.event = "none"])
    BY <1>2 DEF Run
  <2>7. CASE ReadSnapshot(w)
    <3>1. ASSUME Goes(w, "plan") PROVE Goal
      BY <1>3, <3>1
    <3> QED BY <2>2, <2>7, <3>1 DEF ReadSnapshot
  <2>8. CASE ReadClaimed(w) \/ OpenStream(w) \/ ReadFailure(w)
    BY <1>5, <2>1, <2>3, <2>4, <2>8 DEF ReadClaimed, OpenStream, ReadFailure
  <2>9. CASE Plan(w) \/ ApplyEvent(w)
    BY <1>4, <1>5, <1>6, <2>5, <2>6, <2>9 DEF Plan, ApplyEvent
  <2> QED BY <1>13, <2>7, <2>8, <2>9
<1>14. CASE ReadDetails(w) \/ SaveSnapshot(w) \/ StopOperation(w) \/ HandleError(w)
  <2>1. ASSUME NEW pc \in {"snapshot", "copy", "cancelled", "record"}, Goes(w, pc) PROVE Goal
    BY <1>3, <2>1
  <2>2. CASE ReadDetails(w)
    BY <1>5, <1>6, <2>1, <2>2 DEF ReadDetails
  <2>3. CASE SaveSnapshot(w)
    BY <1>4, <2>1, <2>3 DEF SaveSnapshot
  <2>4. CASE StopOperation(w)
    BY <1>5, <1>6, <2>1, <2>4 DEF StopOperation
  <2>5. CASE HandleError(w)
    BY <1>5, <1>6, <2>1, <2>5 DEF HandleError
  <2> QED BY <1>14, <2>2, <2>3, <2>4, <2>5
<1>15. ~ (FinishCancelled(w) \/ FinishCompleted(w) \/ RecordFailure(w) \/ StoreBusy(w) \/ Crash(w))
  BY <1>4, <1>5 DEF FinishCancelled, FinishCompleted, RecordFailure, StoreBusy, Crash
<1> QED BY <1>7, <1>8, <1>9, <1>10, <1>11, <1>12, <1>13, <1>14, <1>15 DEF WorkerStep

(* A step that is not of the service sends nothing and verifies nothing. *)
LEMMA OnlyStreamsReachService ==
  ASSUME [Next]_vars, \A w \in Worker : ~ OpenStream(w) /\ ~ Receive(w)
  PROVE  UNCHANGED service
<1>1. ASSUME NEW w \in Worker, WorkerStep(w) \/ Heartbeat(w) PROVE UNCHANGED service
  BY <1>1 DEF WorkerStep, Heartbeat, ClaimNothing, ClaimJob, ReadClaimed, ReadDetails,
     ReadSnapshot, Plan, SaveSnapshot, CheckEvent, ApplyEvent,
     StopOperation, FinishCancelled, LastPhase, FinishCompleted, HandleError, ReadFailure,
     RecordFailure, OnlyRun, OnlyStore
<1>2. ASSUME NEW w \in Worker, StoreBusy(w) \/ HeartbeatBusy(w) \/ Crash(w)
      PROVE  UNCHANGED service
  BY <1>2 DEF StoreBusy, HeartbeatBusy, Crash
<1>3. ASSUME NEW c \in Client, (\E j \in JobId : Ask(c, j)) \/ CallEnds(c)
      PROVE  UNCHANGED service
  BY <1>3 DEF Ask, CallEnds, OnlyStore
<1> QED
  BY <1>1, <1>2, <1>3 DEF Next, vars, service, Enqueue, LeaseLapses, RetryFallsDue, OnlyStore

(* What the service has verified stays verified. *)
LEMMA VerifiedGrows ==
  ASSUME [Next]_vars PROVE verified \subseteq verified'
<1>1. CASE \E w \in Worker : OpenStream(w) \/ Receive(w)
  BY <1>1 DEF OpenStream, Receive, OnlyRun, service
<1>2. CASE \A w \in Worker : ~ OpenStream(w) /\ ~ Receive(w)
  BY <1>2, OnlyStreamsReachService DEF service
<1> QED BY <1>1, <1>2

(* Only OpenStream sends, and it sends what its run copies. *)
LEMMA SentGrows ==
  ASSUME MemoryOK, RunsOK, [Next]_vars, NEW j \in JobId, NEW d \in sent'[j]
  PROVE  \/ d \in sent[j]
         \/ \E w \in Worker : At(w, "copy") /\ run[w].job = j /\ run[w].digest = d /\ UNCHANGED rows
<1> sent \in [JobId -> SUBSET Digest]
  BY DEF MemoryOK
<1>1. ASSUME NEW w \in Worker, OpenStream(w)
      PROVE  \/ d \in sent[j]
             \/ At(w, "copy") /\ run[w].job = j /\ run[w].digest = d /\ UNCHANGED rows
  BY <1>1 DEF OpenStream, OnlyRun, service
<1>2. ASSUME NEW w \in Worker, Receive(w) PROVE d \in sent[j]
  BY <1>2 DEF Receive
<1>3. CASE \A w \in Worker : ~ OpenStream(w) /\ ~ Receive(w)
  BY <1>3, OnlyStreamsReachService DEF service
<1> QED BY <1>1, <1>2, <1>3

(* What was sent for a job stays sent. *)
LEMMA SentStays ==
  ASSUME MemoryOK, [Next]_vars, NEW j \in JobId PROVE sent[j] \subseteq sent'[j]
<1> sent \in [JobId -> SUBSET Digest]
  BY DEF MemoryOK
<1>1. CASE \E w \in Worker : OpenStream(w) \/ Receive(w)
  BY <1>1 DEF OpenStream, Receive, OnlyRun, service
<1>2. CASE \A w \in Worker : ~ OpenStream(w) /\ ~ Receive(w)
  BY <1>2, OnlyStreamsReachService DEF service
<1> QED BY <1>1, <1>2

(* A row that has pinned a digest keeps it until it is deleted. *)
LEMMA PinsStay ==
  ASSUME RowsOK, RunsOK, [Next]_vars, NEW j \in JobId, NEW d \in Digest,
         rows[j].state = "deleted" \/ rows[j].snapshot = d
  PROVE  rows'[j].state = "deleted" \/ rows'[j].snapshot = d
<1> RowStep(rows[j], rows'[j]) /\ RowOK(rows[j]) /\ d # Null
  BY StepsAreRowSteps, NullIsNoValue DEF RowsOK
<1> QED BY PinnedStays, DeletedStays

(* A run that moves keeps to the pinned digest. *)
LEMMA CopiesStep ==
  ASSUME IInv, ContentOK, [Next]_vars, NEW w \in Worker, run'[w].pc \in Copying
  PROVE  LET j == run'[w].job
             d == run'[w].digest
         IN /\ rows'[j].state = "deleted" \/ rows'[j].snapshot = d
            /\ \A v \in Worker : run[v].pc \in Copying /\ run[v].job = j => run[v].digest = d
            /\ sent[j] \subseteq {d}
            /\ run'[w].pc # "copy" => sent'[j] # {}
<1> DEFINE j == run'[w].job
           d == run'[w].digest
           Goal == /\ rows'[j].state = "deleted" \/ rows'[j].snapshot = d
                   /\ \A v \in Worker :
                        run[v].pc \in Copying /\ run[v].job = j => run[v].digest = d
                   /\ sent[j] \subseteq {d}
                   /\ run'[w].pc # "copy" => sent'[j] # {}
<1> sent \in [JobId -> SUBSET Digest] /\ RowsOK /\ RunsOK
  BY DEF IInv, MemoryOK
<1>1. RunOK(run'[w]) /\ j \in JobId /\ d \in Digest
  BY RunsStep DEF RunsOK, RunOK, Copying, InExecute
<1>2. CASE /\ run[w].pc \in Copying /\ run[w].job = j /\ run[w].digest = d
           /\ run'[w].pc # "copy" => run[w].pc # "copy" \/ OpenStream(w)
  <2>1. CopiesPinned(w) /\ RunsAgree
    BY DEF ContentOK
  <2>2. rows'[j].state = "deleted" \/ rows'[j].snapshot = d
    BY <1>1, <1>2, <2>1, PinsStay DEF CopiesPinned
  <2>3. ASSUME run'[w].pc # "copy" PROVE sent'[j] # {}
    <3>1. CASE OpenStream(w)
      <4>1. ~ Raises(w)
        <5>1. Raises(w) => run'[w] = Raised(run[w])
          BY DEF Raises, Becomes, RunsOK
        <5>2. Raised(run[w]).pc \in {"dead", "record"}
          BY DEF Raised, Idle
        <5> QED BY <5>1, <5>2 DEF Copying
      <4> QED BY <1>1, <1>2, <3>1, <4>1 DEF OpenStream
    <3>2. CASE run[w].pc # "copy"
      <4>1. PICK e : e \in sent[j]
        BY <1>2, <2>1, <3>2 DEF CopiesPinned
      <4>2. sent[j] \subseteq sent'[j]
        BY <1>1, SentStays DEF IInv
      <4> QED BY <4>1, <4>2
    <3> QED BY <1>2, <2>3, <3>1, <3>2
  <2> QED BY <1>2, <2>1, <2>2, <2>3 DEF CopiesPinned, RunsAgree, Same
<1>3. CASE /\ run'[w].pc = "copy" /\ UNCHANGED <<rows, sent>> /\ run[w].job = j
           /\ d = rows[j].snapshot /\ d # Null
  <2>1. rows[j].state # "deleted"
    BY <1>1, <1>3 DEF RowsOK, RowOK, GONE
  <2>2. ASSUME NEW e \in sent[j] PROVE e = d
    BY <1>1, <1>3, <2>1, <2>2 DEF ContentOK, SentIsPinned
  <2>3. ASSUME NEW v \in Worker, run[v].pc \in Copying, run[v].job = j PROVE run[v].digest = d
    BY <1>3, <2>1, <2>3 DEF ContentOK, CopiesPinned
  <2> QED BY <1>3, <2>2, <2>3
<1>4. CASE /\ run'[w].pc = "copy" /\ UNCHANGED sent /\ run[w].job = j /\ run[w].digest = d
           /\ Store!SaveSnapshot(Held(run[w]), run[w].digest)
  <2>1. /\ rows[j].state = "planning" /\ RowOK(rows[j])
        /\ rows' = [rows EXCEPT ![j] = Pinned(rows[j], d)]
    BY <1>1, <1>4, SameStatements DEF Store!SaveSnapshot, Store!HolderWrites, Held, RowsOK
  <2>2. rows[j].snapshot = Null /\ rows[j].state # "deleted" /\ rows[j] \in Row
    BY <2>1 DEF RowOK
  <2>3. rows'[j].snapshot = d
    BY <1>1, <2>1, <2>2 DEF RowsOK, Pinned, Row
  <2>4. ASSUME NEW e \in sent[j] PROVE FALSE
    BY <1>1, <2>2, <2>4, NullIsNoValue DEF ContentOK, SentIsPinned
  <2>5. ASSUME NEW v \in Worker, run[v].pc \in Copying, run[v].job = j PROVE FALSE
    <3>1. run[v].digest \in Digest
      BY <2>5 DEF RunsOK, RunOK, Copying
    <3> QED BY <2>2, <2>5, <3>1, NullIsNoValue DEF ContentOK, CopiesPinned
  <2> QED BY <1>4, <2>3, <2>4, <2>5
<1>5. CASE run'[w] = run[w]
  BY <1>2, <1>5
<1>6. ASSUME WorkerStep(w) \/ Heartbeat(w) \/ StoreBusy(w) \/ HeartbeatBusy(w) \/ Crash(w)
      PROVE  Goal
  BY <1>2, <1>3, <1>4, <1>6, CopyIsReached DEF MyRow
<1>7. ASSUME NEW v \in Worker, v # w,
             WorkerStep(v) \/ Heartbeat(v) \/ StoreBusy(v) \/ HeartbeatBusy(v) \/ Crash(v)
      PROVE  run'[w] = run[w]
  BY <1>7, WorkersMoveRuns
<1>8. ASSUME NEW c \in Client, (\E i \in JobId : Ask(c, i)) \/ CallEnds(c)
      PROVE  run'[w] = run[w]
  BY <1>8 DEF Ask, CallEnds
<1> QED BY <1>5, <1>6, <1>7, <1>8 DEF Next, vars, Enqueue, LeaseLapses, RetryFallsDue

(* Every step keeps the invariant about content. *)
LEMMA ContentStep ==
  ASSUME IInv, ContentOK, [Next]_vars
  PROVE  ContentOK'
<1> RowsOK /\ RunsOK /\ MemoryOK /\ RunsOK'
  BY RunsStep DEF IInv
<1>1. SentIsPinned'
  <2> SUFFICES ASSUME NEW j \in JobId, NEW d \in sent'[j]
               PROVE  rows'[j].state = "deleted" \/ rows'[j].snapshot = d
    BY DEF SentIsPinned
  <2>0. d \in Digest
    BY MemoryStep DEF MemoryOK
  <2>1. CASE d \in sent[j]
    BY <2>0, <2>1, PinsStay DEF ContentOK, SentIsPinned
  <2>2. ASSUME NEW w \in Worker,
               At(w, "copy"), run[w].job = j, run[w].digest = d, UNCHANGED rows
        PROVE  rows'[j].state = "deleted" \/ rows'[j].snapshot = d
    BY <2>2 DEF At, ContentOK, CopiesPinned, Copying
  <2> QED BY <2>1, <2>2, SentGrows
<1>2. RunsAgree'
  <2> SUFFICES ASSUME NEW v \in Worker, NEW w \in Worker, run'[v].pc \in Copying,
                      run'[w].pc \in Copying, run'[v].job = run'[w].job
               PROVE  run'[v].digest = run'[w].digest
    BY DEF RunsAgree, Same
  <2>1. CASE v = w
    BY <2>1
  <2>2. ASSUME NEW x \in Worker, NEW y \in Worker, run'[x] = run[x], run'[x].pc \in Copying,
               run'[y].pc \in Copying, run'[x].job = run'[y].job
        PROVE  run'[x].digest = run'[y].digest
    BY <2>2, CopiesStep
  <2>3. CASE v # w
    <3>1. run'[v] = run[v] \/ run'[w] = run[w]
      <4>1. ASSUME NEW x \in Worker,
                   WorkerStep(x) \/ Heartbeat(x) \/ StoreBusy(x) \/ HeartbeatBusy(x) \/ Crash(x)
            PROVE  run'[v] = run[v] \/ run'[w] = run[w]
        BY <2>3, <4>1, WorkersMoveRuns
      <4>2. ASSUME NEW c \in Client, (\E j \in JobId : Ask(c, j)) \/ CallEnds(c)
            PROVE  run'[v] = run[v]
        BY <4>2 DEF Ask, CallEnds
      <4> QED BY <4>1, <4>2 DEF Next, vars, Enqueue, LeaseLapses, RetryFallsDue
    <3> QED BY <2>2, <3>1
  <2> QED BY <2>1, <2>3
<1>3. ASSUME NEW w \in Worker PROVE CopiesPinned(w)'
  <2> SUFFICES ASSUME run'[w].pc \in Copying
               PROVE  /\ rows'[run'[w].job].state = "deleted"
                         \/ rows'[run'[w].job].snapshot = run'[w].digest
                      /\ sent'[run'[w].job] \subseteq {run'[w].digest}
                      /\ run'[w].pc # "copy" => sent'[run'[w].job] # {}
    BY DEF CopiesPinned
  <2> DEFINE j == run'[w].job
             d == run'[w].digest
  <2>1. /\ rows'[j].state = "deleted" \/ rows'[j].snapshot = d
        /\ \A v \in Worker : run[v].pc \in Copying /\ run[v].job = j => run[v].digest = d
        /\ sent[j] \subseteq {d}
        /\ run'[w].pc # "copy" => sent'[j] # {}
    BY CopiesStep
  <2>2. j \in JobId
    BY DEF RunsOK, RunOK, Copying, InExecute
  <2>3. ASSUME NEW e \in sent'[j] PROVE e = d
    BY <2>1, <2>2, <2>3, SentGrows DEF At, Copying
  <2> QED BY <2>1, <2>3
<1>4. ASSUME NEW w \in Worker PROVE ResultIsVerified(w)'
  <2> SUFFICES ASSUME run'[w].pc \in {"verifying", "finish"} \/ run'[w].event = "completed"
               PROVE  run'[w].job \in verified'
    BY DEF ResultIsVerified
  <2>1. CASE run'[w] = run[w]
    BY <2>1, VerifiedGrows DEF ContentOK, ResultIsVerified
  <2>2. CASE WorkerStep(w) \/ Heartbeat(w) \/ StoreBusy(w) \/ HeartbeatBusy(w) \/ Crash(w)
    BY <2>2, ResultIsReached, VerifiedGrows DEF ContentOK, ResultIsVerified
  <2>3. ASSUME NEW v \in Worker, v # w,
               WorkerStep(v) \/ Heartbeat(v) \/ StoreBusy(v) \/ HeartbeatBusy(v) \/ Crash(v)
        PROVE  run'[w] = run[w]
    BY <2>3, WorkersMoveRuns
  <2>4. ASSUME NEW c \in Client, (\E i \in JobId : Ask(c, i)) \/ CallEnds(c)
        PROVE  run'[w] = run[w]
    BY <2>4 DEF Ask, CallEnds
  <2> QED BY <2>1, <2>2, <2>3, <2>4 DEF Next, vars, Enqueue, LeaseLapses, RetryFallsDue
<1> QED BY <1>1, <1>2, <1>3, <1>4 DEF ContentOK

(* Only FinishCompleted completes a job. *)
LEMMA OnlyFinishCompletes ==
  ASSUME RowsOK, RunsOK, [Next]_vars, NEW j \in JobId,
         rows[j].state # "completed", rows'[j].state = "completed"
  PROVE  \E w \in Worker :
           At(w, "finish") /\ run[w].job = j /\ \A i \in JobId : i # j => rows'[i] = rows[i]
<1> rows \in [JobId -> Row] /\ rows[j] \in Row
  BY DEF RowsOK, RowOK
<1> rows' # rows
  OBVIOUS
<1>1. ASSUME NEW w \in Worker, NEW row, Store!HolderWrites(Held(run[w]), row),
             row.state # "completed"
      PROVE  FALSE
  BY <1>1 DEF Store!HolderWrites, Held
<1>2. ASSUME NEW w \in Worker, Busy(w),
             \/ Store!Heartbeat(Held(run[w]))
             \/ \E d \in Digest : Store!SaveSnapshot(Held(run[w]), d)
             \/ \E phase \in {"copying", "verifying"} : Store!ProgressPhase(Held(run[w]), phase)
             \/ Store!Finish(Held(run[w]), "cancelled")
             \/ \E retryable \in BOOLEAN : Store!FailOrRetry(Held(run[w]), retryable)
      PROVE  FALSE
  <2> DEFINE c == Held(run[w])
             r == rows[c.job]
  <2>1. r \in Row
    BY <1>2 DEF Busy, Held, RunsOK, RunOK
  <2>2. CASE Store!Heartbeat(c)
    <3>1. Store!HolderWrites(c, Renewed(r))
      BY <2>2, SameStatements DEF Store!Heartbeat
    <3>2. rows' = [rows EXCEPT ![c.job] = Renewed(r)] /\ c.job = run[w].job
      BY <3>1 DEF Store!HolderWrites, Held
    <3> QED BY <2>1, <3>2 DEF Renewed, Row
  <2>3. ASSUME NEW d \in Digest, Store!SaveSnapshot(c, d) PROVE FALSE
    <3>1. Pinned(r, d).state # "completed"
      BY <2>1 DEF Pinned, Row
    <3> QED BY <1>1, <2>3, <3>1, SameStatements DEF Store!SaveSnapshot
  <2>4. ASSUME NEW phase \in {"copying", "verifying"}, Store!ProgressPhase(c, phase) PROVE FALSE
    <3>1. InPhase(r, phase).state # "completed"
      BY <2>1 DEF InPhase, Row
    <3> QED BY <1>1, <2>4, <3>1, SameStatements DEF Store!ProgressPhase
  <2>5. CASE Store!Finish(c, "cancelled")
    <3>1. Finished(r, "cancelled").state # "completed"
      BY <2>1 DEF Finished, WithoutClaim, Row
    <3> QED BY <1>1, <2>5, <3>1, SameStatements DEF Store!Finish
  <2>6. ASSUME NEW retryable \in BOOLEAN, Store!FailOrRetry(c, retryable) PROVE FALSE
    <3>1. Failed(r, retryable).state # "completed"
      BY <2>1 DEF Failed, WithoutClaim, Row
    <3> QED BY <1>1, <2>6, <3>1, SameStatements DEF Store!FailOrRetry
  <2> QED BY <1>2, <2>2, <2>3, <2>4, <2>5, <2>6
<1>3. ASSUME NEW w \in Worker, FinishCompleted(w)
      PROVE  At(w, "finish") /\ run[w].job = j /\ \A i \in JobId : i # j => rows'[i] = rows[i]
  BY <1>3 DEF FinishCompleted, OnlyStore, service, Store!Finish, Store!HolderWrites, Held
<1>4. ASSUME NEW w \in Worker, ~ FinishCompleted(w),
             WorkerStep(w) \/ Heartbeat(w) \/ StoreBusy(w) \/ HeartbeatBusy(w) \/ Crash(w)
      PROVE  FALSE
  <2> RunOK(run[w])
    BY DEF RunsOK
  <2>1. ~ ClaimNothing(w)
    BY SameStatements DEF ClaimNothing, Store!ClaimNothing, Store!AfterSweep, Swept,
       WithoutClaim, Row
  <2>2. ASSUME NEW i \in JobId, ClaimJob(w, i) PROVE FALSE
    <3>1. ASSUME NEW t
          PROVE  Swept(rows[j]).state # "completed" /\ Claimed(rows[j], w, t).state # "completed"
      BY DEF Swept, WithoutClaim, Claimed, Row
    <3>2. PICK t \in Token : Store!ClaimJob(w, i, t)
      BY <2>2 DEF ClaimJob
    <3> QED BY <3>1, <3>2, SameStatements DEF Store!ClaimJob, Store!AfterSweep
  <2>3. ~ SaveSnapshot(w)
    <3>1. At(w, "save") => Busy(w) /\ run[w].digest \in Digest
      BY DEF At, Busy, InExecute, RunOK
    <3> QED BY <1>2, <3>1 DEF SaveSnapshot, OnlyRun
  <2>4. ~ ApplyEvent(w)
    <3>1. At(w, "apply") => Busy(w) /\ run[w].event \in {"copying", "progress", "verifying"}
      BY DEF At, Busy, InExecute, RunOK
    <3> QED BY <1>2, <3>1 DEF ApplyEvent, OnlyRun
  <2>5. ~ FinishCancelled(w) /\ ~ LastPhase(w)
    <3>1. At(w, "cancelled") \/ At(w, "verifying") => Busy(w)
      BY DEF At, Busy, InExecute
    <3> QED BY <1>2, <3>1 DEF FinishCancelled, LastPhase
  <2>6. ~ RecordFailure(w)
    <3>1. At(w, "fail") => Busy(w) /\ run[w].retryable \in BOOLEAN
      BY DEF At, Busy, InExecute, RunOK, Run
    <3> QED BY <1>2, <3>1 DEF RecordFailure, OnlyRun
  <2>7. ~ Heartbeat(w) /\ ~ Crash(w)
    BY <1>2 DEF Heartbeat, OnlyRun, Crash, Store!ProcessDies
  <2>8. ~ (\/ ReadClaimed(w) \/ ReadDetails(w) \/ ReadSnapshot(w) \/ Plan(w) \/ CheckEvent(w)
           \/ StopOperation(w) \/ HandleError(w) \/ ReadFailure(w) \/ OpenStream(w) \/ Receive(w)
           \/ StoreBusy(w) \/ HeartbeatBusy(w))
    BY DEF ReadClaimed, ReadDetails, ReadSnapshot, Plan, CheckEvent, StopOperation, HandleError,
       ReadFailure, OpenStream, Receive, StoreBusy, HeartbeatBusy, OnlyRun
  <2> QED BY <1>4, <2>1, <2>2, <2>3, <2>4, <2>5, <2>6, <2>7, <2>8 DEF WorkerStep
<1>5. ASSUME NEW i \in JobId, NEW d \in Destination, Enqueue(i, d) PROVE FALSE
  BY <1>5, SameStatements DEF Enqueue, Store!Enqueue, QueuedRow, NoRow
<1>6. ASSUME NEW c \in Client, NEW i \in JobId, Ask(c, i) PROVE FALSE
  BY <1>6, SameStatements DEF Ask, Store!CancelRead, Store!RetryRead, Store!Dismiss,
     DeletedRow, NoRow
<1>7. ASSUME NEW c \in Client, CallEnds(c) PROVE FALSE
  <2>1. ASSUME NEW state \in {"cancelled", "cancel_requested"}
        PROVE  CancelWritten(rows[j], state).state # "completed"
    BY DEF CancelWritten, Row
  <2>2. RetryWritten(rows[j]).state # "completed"
    BY DEF RetryWritten, Row
  <2>3. ~ Store!CancelWrite(c)
    BY <2>1, SameStatements DEF Store!CancelWrite
  <2>4. ~ Store!RetryWrite(c)
    BY <2>2, SameStatements DEF Store!RetryWrite
  <2>5. ~ Store!CallFindsNothing(c)
    BY DEF Store!CallFindsNothing
  <2> QED BY <1>7, <2>3, <2>4, <2>5 DEF CallEnds
<1>8. ASSUME NEW i \in JobId, LeaseLapses(i) \/ RetryFallsDue(i) PROVE FALSE
  BY <1>8 DEF LeaseLapses, RetryFallsDue, Store!LeaseLapses, Store!RetryFallsDue, Row
<1> QED BY <1>3, <1>4, <1>5, <1>6, <1>7, <1>8 DEF Next, vars, WorkerStep

(* Every step is a step of PinnedCopy, or none of its variables changes. *)
LEMMA PromiseStep ==
  ASSUME IInv, ContentOK, [Next]_vars
  PROVE  [Promise!Next]_Promise!vars
<1> DEFINE done == {j \in JobId : rows[j].state = "completed"}
<1> RowsOK /\ RunsOK /\ MemoryOK
  BY DEF IInv
<1> sent \in [JobId -> SUBSET Digest] /\ verified \subseteq JobId
  BY DEF MemoryOK
<1>1. ASSUME NEW w \in Worker, OpenStream(w) PROVE [Promise!Next]_Promise!vars
  <2>1. CASE Raises(w) /\ OnlyRun
    BY <2>1 DEF OnlyRun, service, Promise!vars
  <2>2. CASE ~ (Raises(w) /\ OnlyRun)
    <3>1. /\ sent' = [sent EXCEPT ![run[w].job] = @ \cup {run[w].digest}]
          /\ UNCHANGED <<rows, verified>> /\ run[w].pc = "copy"
      BY <1>1, <2>2 DEF OpenStream, At
    <3>2. run[w].job \in JobId /\ run[w].digest \in Digest
      BY <3>1 DEF RunsOK, RunOK, InExecute
    <3>3. sent[run[w].job] \subseteq {run[w].digest}
      BY <3>1 DEF ContentOK, CopiesPinned, Copying
    <3>4. sent' = [sent EXCEPT ![run[w].job] = {run[w].digest}]
      BY <3>1, <3>2, <3>3
    <3>5. Promise!Send(run[w].job, run[w].digest)
      BY <3>1, <3>3, <3>4 DEF Promise!Send
    <3> QED BY <3>2, <3>5 DEF Promise!Next
  <2> QED BY <2>1, <2>2
<1>2. ASSUME NEW w \in Worker, Receive(w) PROVE [Promise!Next]_Promise!vars
  <2>1. /\ verified' \in {verified, verified \cup {run[w].job}}
        /\ UNCHANGED <<rows, sent>> /\ run[w].pc = "stream"
    BY <1>2 DEF Receive, At
  <2>2. run[w].job \in JobId /\ sent[run[w].job] # {}
    BY <2>1 DEF RunsOK, RunOK, InExecute, ContentOK, CopiesPinned, Copying
  <2>3. Promise!Verify(run[w].job) \/ UNCHANGED <<sent, verified, rows>>
    BY <2>1, <2>2 DEF Promise!Verify
  <2> QED BY <2>2, <2>3 DEF Promise!Next, Promise!vars
<1>3. CASE \A w \in Worker : ~ OpenStream(w) /\ ~ Receive(w)
  <2>1. UNCHANGED <<sent, verified>>
    BY <1>3, OnlyStreamsReachService DEF service
  <2>2. CASE done' \subseteq done
    <3>1. PICK jobs \in SUBSET JobId : jobs = done \ done'
      BY <2>2
    <3>2. done' = done \ jobs
      BY <2>2, <3>1
    <3>3. Promise!Remove(jobs)
      BY <2>1, <3>2 DEF Promise!Remove
    <3> QED BY <3>3 DEF Promise!Next
  <2>3. ASSUME NEW j \in done', j \notin done PROVE [Promise!Next]_Promise!vars
    <3>1. PICK w \in Worker :
            /\ At(w, "finish") /\ run[w].job = j
            /\ \A i \in JobId : i # j => rows'[i] = rows[i]
      BY <2>3, OnlyFinishCompletes
    <3>2. j \in JobId /\ j \in verified
      BY <2>3, <3>1 DEF At, ContentOK, ResultIsVerified
    <3>3. done' = done \cup {j}
      BY <2>3, <3>1
    <3>4. Promise!Complete(j)
      BY <2>1, <3>2, <3>3 DEF Promise!Complete
    <3> QED BY <3>2, <3>4 DEF Promise!Next
  <2> QED BY <2>2, <2>3
<1> QED BY <1>1, <1>2, <1>3

(* The second invariant holds of every behaviour. *)
THEOREM ContentInvariance == Spec => []ContentOK
<1>1. Init => ContentOK
  BY DEF Init, ContentOK, CopiesPinned, RunsAgree, Same, SentIsPinned, ResultIsVerified, Idle,
         Copying
<1>2. IInv /\ ContentOK /\ [Next]_vars => ContentOK'
  BY ContentStep
<1> QED BY <1>1, <1>2, Invariance, PTL DEF Spec

(* The workers implement PinnedCopy: through crashes, take-overs, retries and
   fenced runs, a job copies one digest only and completes only when the
   service has verified it. *)
THEOREM Refinement == Spec => OneContentPerJob
<1>1. Init => Promise!Init
  BY DEF Init, Promise!Init, NoRow
<1>2. IInv /\ ContentOK /\ [Next]_vars => [Promise!Next]_Promise!vars
  BY PromiseStep
<1> QED BY <1>1, <1>2, Invariance, ContentInvariance, PTL
        DEF Spec, OneContentPerJob, Promise!Spec

-----------------------------------------------------------------------------
(* Tokens. *)

(* A run keeps its claim in memory until it ends. *)
LEMMA ClaimIsKept ==
  ASSUME NEW w \in Worker, RunsOK, run'[w].pc \in InExecute,
         WorkerStep(w) \/ Heartbeat(w) \/ StoreBusy(w) \/ HeartbeatBusy(w) \/ Crash(w)
  PROVE  \/ Busy(w) /\ run'[w].job = run[w].job /\ run'[w].token = run[w].token
         \/ ClaimMoves(w)
<1> DEFINE Goal == \/ Busy(w) /\ run'[w].job = run[w].job /\ run'[w].token = run[w].token
                   \/ ClaimMoves(w)
           Kept == run'[w].job = run[w].job /\ run'[w].token = run[w].token
<1> run \in [Worker -> Run] /\ run[w] \in Run
  BY DEF RunsOK
<1>1. CASE run'[w] = run[w]
  BY <1>1 DEF Busy
<1>2. ASSUME NEW s, Becomes(w, s) PROVE run'[w] = s
  BY <1>2 DEF Becomes
<1>3. ASSUME NEW pc, Goes(w, pc) PROVE Kept
  BY <1>2, <1>3 DEF Goes, Run
<1>4. ~ Leaves(w)
  BY <1>2 DEF Leaves, Idle, InExecute
<1>5. ASSUME Raises(w), run[w].pc # "dead" PROVE Goal
  <2>1. run'[w] = Raised(run[w])
    BY <1>2, <1>5 DEF Raises
  <2>2. run[w].pc # "claim" /\ Kept
    BY <2>1 DEF Raised, Idle, InExecute
  <2> QED BY <1>5, <2>2 DEF Busy, Run
<1>6. ASSUME NEW retryable, NEW pc, LeavesStream(w, pc, retryable) PROVE Kept
  BY <1>2, <1>6 DEF LeavesStream, Run
<1>7. CASE Heartbeat(w) \/ HeartbeatBusy(w)
  <2>1. CASE Becomes(w, [run[w] EXCEPT !.beating = FALSE])
    <3>1. Kept
      BY <1>2, <2>1 DEF Run
    <3> QED BY <1>7, <3>1 DEF Heartbeat, HeartbeatBusy
  <2> QED BY <1>1, <1>7, <2>1 DEF Heartbeat, HeartbeatBusy
<1>8. CASE ClaimNothing(w)
  BY <1>1, <1>8 DEF ClaimNothing
<1>9. ASSUME NEW j \in JobId, ClaimJob(w, j) PROVE ClaimMoves(w)
  <2>1. PICK t \in Token : /\ Store!ClaimJob(w, j, t)
                           /\ Becomes(w, [Idle EXCEPT !.pc = "claimed", !.job = j, !.token = t])
    BY <1>9 DEF ClaimJob
  <2> QED BY <2>1, SameStatements
          DEF Store!ClaimJob, Store!AfterSweep, Store!Due, ClaimMoves, Becomes
<1>10. CASE Receive(w) \/ OpenStream(w) \/ ApplyEvent(w)
  <2>1. Busy(w) /\ run[w].pc # "dead"
    BY <1>10 DEF Receive, OpenStream, ApplyEvent, At, Busy, InExecute
  <2>2. ASSUME NEW event, NEW stage, NEW retryable,
               Becomes(w, [run[w] EXCEPT !.pc = "check", !.event = event, !.stage = stage])
               \/ Becomes(w, [run[w] EXCEPT !.pc = "check", !.event = event,
                                            !.retryable = retryable])
        PROVE  Kept
    BY <1>2, <2>2 DEF Run
  <2>3. ASSUME NEW stage, NEW event,
               Becomes(w, [run[w] EXCEPT !.pc = "stream", !.stage = stage])
               \/ Becomes(w, [run[w] EXCEPT !.pc = "stream", !.event = event])
        PROVE  Kept
    BY <1>2, <2>3 DEF Run
  <2>4. CASE Receive(w)
    BY <1>6, <2>1, <2>2, <2>4 DEF Receive, Catches
  <2>5. CASE OpenStream(w)
    BY <1>5, <2>1, <2>3, <2>5 DEF OpenStream
  <2>6. CASE ApplyEvent(w)
    BY <1>4, <2>1, <2>3, <2>6 DEF ApplyEvent
  <2> QED BY <1>10, <2>4, <2>5, <2>6
<1>11. CASE ReadClaimed(w) \/ ReadSnapshot(w) \/ Plan(w) \/ ReadFailure(w)
  <2>1. Busy(w) /\ run[w].pc # "dead"
    BY <1>11 DEF ReadClaimed, ReadSnapshot, Plan, ReadFailure, At, Busy, InExecute
  <2>2. ASSUME NEW d, NEW retryable,
               \/ Becomes(w, [run[w] EXCEPT !.pc = "details", !.beating = TRUE])
               \/ Becomes(w, [run[w] EXCEPT !.pc = "copy", !.digest = d])
               \/ Becomes(w, [run[w] EXCEPT !.pc = "save", !.digest = d])
               \/ Becomes(w, [run[w] EXCEPT !.pc = "fail", !.retryable = retryable])
        PROVE  Kept
    BY <1>2, <2>2 DEF Run
  <2>3. CASE ReadClaimed(w)
    BY <1>5, <2>1, <2>2, <2>3 DEF ReadClaimed
  <2>4. CASE ReadSnapshot(w)
    BY <1>3, <2>1, <2>2, <2>4 DEF ReadSnapshot
  <2>5. CASE Plan(w)
    BY <1>5, <1>6, <2>1, <2>2, <2>5 DEF Plan, Catches
  <2>6. CASE ReadFailure(w)
    BY <1>5, <2>1, <2>2, <2>6 DEF ReadFailure
  <2> QED BY <1>11, <2>3, <2>4, <2>5, <2>6
<1>12. CASE ReadDetails(w) \/ SaveSnapshot(w) \/ StopOperation(w) \/ LastPhase(w) \/ HandleError(w)
            \/ CheckEvent(w)
  <2>1. Busy(w) /\ run[w].pc # "dead"
    BY <1>12 DEF ReadDetails, SaveSnapshot, StopOperation, LastPhase, HandleError, CheckEvent,
       At, Busy, InExecute
  <2>2. CASE CheckEvent(w)
    <3>1. run[w].event \in {"copying", "progress", "verifying", "failed", "completed"}
      BY <2>2 DEF CheckEvent, At, RunsOK, RunOK, Run, Event
    <3> QED BY <1>3, <1>6, <2>1, <2>2, <3>1 DEF CheckEvent, Catches, Stops
  <2>3. CASE ReadDetails(w) \/ HandleError(w)
    BY <1>3, <1>5, <1>6, <2>1, <2>3 DEF ReadDetails, HandleError, Catches, Stops
  <2>4. CASE SaveSnapshot(w) \/ StopOperation(w) \/ LastPhase(w)
    BY <1>3, <1>4, <1>5, <1>6, <2>1, <2>4 DEF SaveSnapshot, StopOperation, LastPhase, Catches
  <2> QED BY <1>12, <2>2, <2>3, <2>4
<1>13. CASE RecordFailure(w) \/ StoreBusy(w)
  BY <1>4, <1>5, <1>13 DEF RecordFailure, StoreBusy, At
<1>14. ~ (FinishCancelled(w) \/ FinishCompleted(w) \/ Crash(w))
  BY <1>4 DEF FinishCancelled, FinishCompleted, Crash
<1> QED BY <1>7, <1>8, <1>9, <1>10, <1>11, <1>12, <1>13, <1>14 DEF WorkerStep

(* A token is of one run and of one job. *)
OneRunPerToken ==
  /\ \A v, w \in Worker : Busy(v) /\ Busy(w) /\ run[v].token = run[w].token => v = w
  /\ \A w \in Worker, j \in JobId : Busy(w) /\ rows[j].token = run[w].token => j = run[w].job
  /\ \A j, k \in JobId : rows[j].token = rows[k].token /\ rows[j].token # Null => j = k

(* Only a claim gives a run or a row a token, and the token is unused. *)
LEMMA TokensStep ==
  ASSUME RowsOK, RunsOK, OneRunPerToken, [Next]_vars
  PROVE  OneRunPerToken'
<1> rows \in [JobId -> Row] /\ (\A j \in JobId : RowOK(rows[j])) /\ run \in [Worker -> Run]
  BY DEF RowsOK, RunsOK
<1>1. ASSUME NEW w \in Worker, run'[w].pc \in InExecute
      PROVE  \/ Busy(w) /\ run'[w].job = run[w].job /\ run'[w].token = run[w].token
             \/ ClaimMoves(w)
  <2>1. CASE run'[w] = run[w]
    BY <1>1, <2>1 DEF Busy
  <2>2. CASE WorkerStep(w) \/ Heartbeat(w) \/ StoreBusy(w) \/ HeartbeatBusy(w) \/ Crash(w)
    BY <1>1, <2>2, ClaimIsKept
  <2>3. ASSUME NEW v \in Worker, v # w,
               WorkerStep(v) \/ Heartbeat(v) \/ StoreBusy(v) \/ HeartbeatBusy(v) \/ Crash(v)
        PROVE  run'[w] = run[w]
    BY <2>3, WorkersMoveRuns
  <2>4. ASSUME NEW c \in Client, (\E i \in JobId : Ask(c, i)) \/ CallEnds(c)
        PROVE  run'[w] = run[w]
    BY <2>4 DEF Ask, CallEnds
  <2> QED BY <2>1, <2>2, <2>3, <2>4 DEF Next, vars, Enqueue, LeaseLapses, RetryFallsDue
<1>2. ASSUME NEW w \in Worker, Busy(w) PROVE run[w].token \in Token /\ run[w].token # Null
  BY <1>2, NullIsNoValue DEF Busy, RunsOK, RunOK
<1>3. CASE \A w \in Worker : ~ ClaimMoves(w)
  <2>1. \A j \in JobId : rows'[j].token \in {rows[j].token, Null}
    BY <1>3, TokensComeFromClaims
  <2>2. \A w \in Worker : Busy(w)' => /\ Busy(w) /\ run'[w].job = run[w].job
                                      /\ run'[w].token = run[w].token
    BY <1>1, <1>3 DEF Busy
  <2>3. ASSUME NEW v \in Worker, NEW w \in Worker, Busy(v)', Busy(w)', run'[v].token = run'[w].token
        PROVE  v = w
    BY <2>2, <2>3 DEF OneRunPerToken
  <2>4. ASSUME NEW w \in Worker, NEW j \in JobId, Busy(w)', rows'[j].token = run'[w].token
        PROVE  j = run'[w].job
    BY <1>2, <2>1, <2>2, <2>4 DEF OneRunPerToken
  <2>5. ASSUME NEW j \in JobId, NEW k \in JobId, rows'[j].token = rows'[k].token,
               rows'[j].token # Null
        PROVE  j = k
    BY <2>1, <2>5 DEF OneRunPerToken
  <2> QED BY <2>3, <2>4, <2>5 DEF OneRunPerToken
<1>4. ASSUME NEW x \in Worker, ClaimMoves(x) PROVE OneRunPerToken'
  <2>1. PICK i \in JobId, u \in Token :
          /\ Store!Unused(u)
          /\ rows' = [[k \in JobId |-> Swept(rows[k])] EXCEPT ![i] = Claimed(rows[i], x, u)]
          /\ run' = [run EXCEPT ![x] = [Idle EXCEPT !.pc = "claimed", !.job = i, !.token = u]]
    BY <1>4 DEF ClaimMoves
  <2>2. \A j \in JobId : rows[j].token # u
    BY <2>1 DEF Store!Unused
  <2>3. ASSUME NEW w \in Worker, Busy(w) PROVE run[w].token # u
    <3>1. Held(run[w]) \in {Held(run[y]) : y \in {v \in Worker : Busy(v)}}
      BY <2>3
    <3>2. Held(run[w]).token # u
      BY <2>1, <3>1 DEF Store!Unused
    <3> QED BY <3>2 DEF Held
  <2>4. /\ rows'[i].token = u
        /\ \A j \in JobId : j # i => rows'[j].token \in {rows[j].token, Null}
    BY <2>1 DEF Claimed, Swept, WithoutClaim, RowOK, Row
  <2>5. run'[x].job = i /\ run'[x].token = u
    BY <2>1 DEF Idle
  <2>6. \A w \in Worker : w # x => run'[w] = run[w]
    BY <2>1
  <2>7. \A w \in Worker : w # x /\ Busy(w)' => /\ Busy(w) /\ run'[w] = run[w]
                                               /\ run[w].token # u
    BY <2>3, <2>6 DEF Busy
  <2>8. u # Null
    BY NullIsNoValue
  <2>9. ASSUME NEW v \in Worker, NEW w \in Worker, Busy(v)', Busy(w)', run'[v].token = run'[w].token
        PROVE  v = w
    BY <2>5, <2>7, <2>9 DEF OneRunPerToken
  <2>10. ASSUME NEW w \in Worker, NEW j \in JobId, Busy(w)', rows'[j].token = run'[w].token
         PROVE  j = run'[w].job
    BY <1>2, <2>2, <2>4, <2>5, <2>7, <2>8, <2>10 DEF OneRunPerToken
  <2>11. ASSUME NEW j \in JobId, NEW k \in JobId, rows'[j].token = rows'[k].token,
                rows'[j].token # Null
         PROVE  j = k
    BY <2>2, <2>4, <2>11 DEF OneRunPerToken
  <2> QED BY <2>9, <2>10, <2>11 DEF OneRunPerToken
<1> QED BY <1>3, <1>4

(* The token that claim draws authorises one run of one job: no two tasks
   hold the same, and it stands in no row but that of the job it was drawn for. *)
THEOREM TokensFenceRuns == Spec => []OneRunPerToken
<1>1. Init => OneRunPerToken
  BY DEF Init, OneRunPerToken, Busy, Idle, InExecute, NoRow
<1>2. IInv /\ OneRunPerToken /\ [Next]_vars => OneRunPerToken'
  BY TokensStep DEF IInv
<1> QED BY <1>1, <1>2, Invariance, PTL DEF Spec

(* What JobStoreProofs shows of any steps of the store holds of these: the
   workers leave no active row where claim never finds it, and no row with
   half a claim. *)
THEOREM WorkersStrandNothing == Spec => [](Store!ClaimFieldsAgree /\ Store!NoStrandedJob)
<1>1. ASSUME NEW r, RowOK(r), r.state \in ACTIVE
      PROVE  Store!Claimable(Store!Late(r)) \/ Store!Sweepable(Store!Late(r))
  BY <1>1 DEF RowOK, Row, Stamp, RUNNING, ACTIVE, Store!Late, Store!Claimable, Store!Sweepable,
     Store!RUNNING
<1>2. Store!ACTIVE = ACTIVE /\ Store!RUNNING = RUNNING /\ Store!GONE = GONE
  BY DEF Store!ACTIVE, ACTIVE, Store!RUNNING, RUNNING, Store!GONE, GONE
<1>3. IInv => Store!NoStrandedJob
  BY <1>1, <1>2 DEF IInv, RowsOK, Store!NoStrandedJob
<1>4. IInv => Store!ClaimFieldsAgree
  BY <1>2 DEF IInv, RowsOK, RowOK, Store!ClaimFieldsAgree
<1>5. IInv => Store!ClaimFieldsAgree /\ Store!NoStrandedJob
  BY <1>3, <1>4
<1> QED BY <1>5, Invariance, PTL

=============================================================================
