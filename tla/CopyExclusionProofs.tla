-------------------------- MODULE CopyExclusionProofs --------------------------
(***************************************************************************)
(* Two promises of the runs of CopyWorkers, for any number of jobs,        *)
(* workers, calls and faults.                                              *)
(*   WorkersExclude: if heartbeats are served in time, no two workers      *)
(*      whose heartbeats beat copy one job.  The invariant (XInv) is that  *)
(*      such a run has the claim it started with, under a lease that is    *)
(*      ahead, or its row is gone for good.                                *)
(*   EndedRunsHoldNothing: where a run may end and leave its claim, under  *)
(*      no assumption.  The invariant (EInv) says what a run that still    *)
(*      holds its job can find in its row before its snapshot is saved.    *)
(***************************************************************************)
EXTENDS CopyWorkersProofs

(* What exclusion rests on: leases are renewed in time, and a retry call never
   comes upon another retry of the job.  Cancels, dismissals, crashes and
   refused statements are all allowed.  (NULL is no word of the program.) *)
LeasesAreKept ==
  /\ Null # "queued"
  /\ PunctualHeartbeats
  /\ "retry" \in Asks => \A c, d \in Client : c = d

Steps(w) == WorkerStep(w) \/ Heartbeat(w) \/ StoreBusy(w) \/ HeartbeatBusy(w) \/ Crash(w)

(* A queued row is free. *)
Live(r) == RowOK(r) /\ (r.state = "queued" => r.token = Null)

RowsLive == \A j \in JobId : Live(rows[j])

(* A retry under way finds its job as it was, or no job. *)
Over == {"failed", "deleted"}

CallsLive ==
  \A c \in Client :
    calls[c].write = "queued" => "retry" \in Asks /\ rows[calls[c].job].state \in Over

(* A run from its claim to the end of its heartbeat, whose lease therefore
   does not lapse. *)
Covered(w) == Busy(w) /\ (run[w].beating \/ At(w, "claimed"))

Keeps(r, t) == r.state = "deleted" \/ (r.token = t /\ r.lease = "future")

ClaimsKept == \A w \in Worker : Covered(w) => Keeps(MyRow(w), run[w].token)

OneCovered ==
  \A v, w \in Worker : Covered(v) /\ Covered(w) /\ run[v].job = run[w].job => v = w

XInv == IInv /\ OneRunPerToken /\ RowsLive /\ CallsLive /\ ClaimsKept /\ OneCovered

-----------------------------------------------------------------------------
(* Rows. *)

(* The sweep settles no job that is held under its lease, and no job that is
   over. *)
LEMMA SweptLive ==
  ASSUME NEW r, Live(r)
  PROVE  /\ Live(Swept(r))
         /\ r.token # Null /\ r.lease = "future" => Swept(r) = r
         /\ r.state \in Over => Swept(r) = r
<1>1. Live(Swept(r))
  <2>1. RowOK(Swept(r))
    BY SweptOK DEF Live
  <2>2. CASE Sweepable(r)
    <3>1. Swept(r).state = "cancelled"
      BY <2>2, UnclaimedIsRow DEF Live, Swept, Row
    <3> QED BY <2>1, <3>1 DEF Live
  <2>3. CASE ~ Sweepable(r)
    BY <2>3 DEF Live, Swept
  <2> QED BY <2>2, <2>3
<1>2. r.token # Null /\ r.lease = "future" => Swept(r) = r
  BY DEF Live, RowOK, Swept, Sweepable
<1>3. r.state \in Over => Swept(r) = r
  BY DEF Over, Swept, Sweepable
<1> QED BY <1>1, <1>2, <1>3

(* A claim makes a row live under its token. *)
LEMMA ClaimedLive ==
  ASSUME NEW r, Live(r), NEW w \in Worker, NEW t \in Token
  PROVE  Live(Claimed(r, w, t)) /\ Keeps(Claimed(r, w, t), t)
<1>1. RowOK(Claimed(r, w, t))
  BY ClaimedOK DEF Live
<1>2. /\ Claimed(r, w, t).token = t /\ Claimed(r, w, t).lease = "future"
      /\ Claimed(r, w, t).state \in {"planning", "copying"}
  BY DEF Live, RowOK, Row, Claimed
<1> QED BY <1>1, <1>2 DEF Live, Keeps

(* What is kept under a lease, or over, no claim takes. *)
LEMMA KeptIsNotClaimable ==
  ASSUME NEW r, Live(r), NEW t \in Token, Keeps(r, t) \/ r.state \in Over
  PROVE  ~ Claimable(r)
BY NullIsNoValue DEF Live, RowOK, Keeps, Over, Claimable, RUNNING, GONE

(* Every write of a holder leaves a row live. *)
LEMMA WrittenLive ==
  ASSUME NEW r, NEW s, Live(r), r.token # Null, HolderWrote(r, s)
  PROVE  Live(s)
<1>1. RowOK(s)
  BY RenewedOK, PinnedOK, InPhaseOK, FinishedOK, FailedOK, ReleasedOK DEF HolderWrote, Live
<1>2. r \in Row /\ r.state # "queued"
  BY DEF Live, RowOK
<1>3. CASE \/ s = Renewed(r) \/ \E d \in Digest : s = Pinned(r, d)
           \/ \E phase \in {"copying", "publishing", "verifying"} : s = InPhase(r, phase)
  <2>1. s.state # "queued"
    BY <1>2, <1>3 DEF Row, Renewed, Pinned, InPhase
  <2> QED BY <1>1, <2>1 DEF Live
<1>4. CASE \/ \E state \in {"completed", "cancelled"} : s = Finished(r, state)
           \/ \E retryable \in BOOLEAN : s = Failed(r, retryable)
           \/ s = Released(r)
  <2>1. s.token = Null
    BY <1>4, UnclaimedIsRow DEF Live, Finished, Failed, Released, Row
  <2> QED BY <1>1, <2>1 DEF Live
<1> QED BY <1>3, <1>4 DEF HolderWrote

(* The writes with which a run goes on keep its claim under its lease. *)
WroteOn(r, s) ==
  \/ s = Renewed(r)
  \/ r.state = "planning" /\ \E d \in Digest : s = Pinned(r, d)
  \/ \E phase \in {"copying", "publishing", "verifying"} : s = InPhase(r, phase)

LEMMA WroteOnKeeps ==
  ASSUME NEW r, NEW s, NEW t, RowOK(r), Exists(r), WroteOn(r, s), Keeps(r, t)
  PROVE  Keeps(s, t)
BY DEF RowOK, Row, WroteOn, Renewed, Pinned, InPhase, Keeps, Exists, GONE

-----------------------------------------------------------------------------
(* Runs. *)

(* A run writes its row and goes on, writes it and ends, or writes nothing. *)
RunWrites(w) ==
  \/ UNCHANGED rows
  \/ At(w, "claim") /\ rows' = [j \in JobId |-> Swept(rows[j])]
  \/ At(w, "claim") /\ ClaimMoves(w)
  \/ Leaves(w) /\ Busy(w) /\ HolderMoves(w)
  \/ Busy(w) /\ Mine(w) /\ \E s : /\ WroteOn(MyRow(w), s)
                                  /\ rows' = [rows EXCEPT ![run[w].job] = s]

LEMMA RunsWrite == ASSUME NEW w \in Worker, RunsOK, Steps(w) PROVE RunWrites(w)
<1> RunOK(run[w])
  BY DEF RunsOK
<1> USE DEF RunWrites
<1>1. WorkerMoves(w)
  BY WorkersMoveRows DEF Steps
<1>2. CASE Heartbeat(w)
  <2>1. CASE Store!Heartbeat(Held(run[w]))
    BY <1>2, <2>1, SameStatements
       DEF Heartbeat, Store!Heartbeat, Store!HolderWrites, Held, MyRow, Mine, WroteOn
  <2> QED BY <1>2, <2>1 DEF Heartbeat, OnlyRun
<1>3. CASE SaveSnapshot(w)
  <2>1. ASSUME Store!SaveSnapshot(Held(run[w]), run[w].digest), At(w, "save") PROVE RunWrites(w)
    <3>1. run[w].digest \in Digest /\ Busy(w)
      BY <2>1 DEF At, RunOK, Busy, InExecute
    <3> QED BY <2>1, <3>1, SameStatements
            DEF Store!SaveSnapshot, Store!HolderWrites, Held, MyRow, Mine, WroteOn
  <2> QED BY <1>3, <2>1 DEF SaveSnapshot, OnlyRun
<1>4. ASSUME NEW phase \in {"copying", "verifying"}, Store!ProgressPhase(Held(run[w]), phase),
             Busy(w)
      PROVE  RunWrites(w)
  BY <1>4, SameStatements DEF Store!ProgressPhase, Store!HolderWrites, Held, MyRow, Mine, WroteOn
<1>5. CASE ApplyEvent(w)
  <2>1. At(w, "apply") => Busy(w) /\ run[w].event \in {"copying", "progress", "verifying"}
    BY DEF At, Busy, InExecute, RunOK
  <2> QED BY <1>4, <1>5, <2>1 DEF ApplyEvent, OnlyRun
<1>6. CASE LastPhase(w)
  <2>1. At(w, "verifying") => Busy(w)
    BY DEF At, Busy, InExecute
  <2> QED BY <1>4, <1>6, <2>1 DEF LastPhase
<1>7. CASE FinishCancelled(w) \/ FinishCompleted(w)
  <2>1. Leaves(w) /\ Busy(w)
    BY <1>7 DEF FinishCancelled, FinishCompleted, At, Busy, InExecute
  <2> QED BY <1>1, <1>7, <2>1 DEF WorkerMoves, At, Busy, InExecute
<1>8. CASE RecordFailure(w)
  <2>1. Busy(w) /\ (Leaves(w) \/ UNCHANGED rows)
    BY <1>8 DEF RecordFailure, OnlyRun, At, Busy, InExecute
  <2> QED BY <1>1, <1>8, <2>1 DEF WorkerMoves, At, Busy, InExecute
<1>9. CASE ClaimNothing(w) \/ \E j \in JobId : ClaimJob(w, j)
  <2>1. At(w, "claim") /\ ~ Busy(w)
    BY <1>9 DEF ClaimNothing, ClaimJob, At, Busy, InExecute
  <2> QED BY <1>1, <2>1 DEF WorkerMoves
<1>10. CASE \/ ReadClaimed(w) \/ ReadDetails(w) \/ ReadSnapshot(w) \/ Plan(w) \/ CheckEvent(w)
            \/ StopOperation(w) \/ HandleError(w) \/ ReadFailure(w) \/ OpenStream(w) \/ Receive(w)
            \/ StoreBusy(w) \/ HeartbeatBusy(w) \/ Crash(w)
  BY <1>10 DEF ReadClaimed, ReadDetails, ReadSnapshot, Plan, CheckEvent, StopOperation,
     HandleError, ReadFailure, OpenStream, Receive, StoreBusy, HeartbeatBusy, OnlyRun, Crash,
     Store!ProcessDies
<1> QED BY <1>2, <1>3, <1>5, <1>6, <1>7, <1>8, <1>9, <1>10 DEF Steps, WorkerStep

(* Only a claim starts the cover of a run: a heartbeat that has ended does not
   begin again. *)
LEMMA CoverIsKept ==
  ASSUME NEW w \in Worker, RunsOK, Steps(w), Covered(w)', ~ ClaimMoves(w)
  PROVE  Covered(w) /\ run'[w].job = run[w].job /\ run'[w].token = run[w].token
<1> DEFINE r == run[w]
           Goal == r.beating \/ r.pc = "claimed"
<1> run \in [Worker -> Run] /\ r \in Run
  BY DEF RunsOK
<1>1. Busy(w) /\ run'[w].job = r.job /\ run'[w].token = r.token
  BY ClaimIsKept DEF Covered, Busy, Steps
<1>2. run'[w].beating \/ run'[w].pc = "claimed"
  BY DEF Covered, At
<1> SUFFICES Goal
  BY <1>1 DEF Covered, At
<1>3. ASSUME NEW s, Becomes(w, s), s.pc # "claimed", s.beating = r.beating PROVE Goal
  BY <1>2, <1>3 DEF Becomes
<1>4. ASSUME NEW pc, Goes(w, pc), pc # "claimed" PROVE Goal
  BY <1>3, <1>4 DEF Goes, Run
<1>5. ASSUME NEW pc, NEW b, LeavesStream(w, pc, b), pc # "claimed" PROVE Goal
  BY <1>3, <1>5 DEF LeavesStream, Run
<1>6. ~ Raises(w)
  <2>1. Raised(r).pc # "claimed" /\ ~ Raised(r).beating
    BY DEF Raised, Idle
  <2> QED BY <1>2, <2>1 DEF Raises, Becomes
<1>7. ~ Leaves(w)
  BY <1>2 DEF Leaves, Becomes, Idle
<1>8. CASE Heartbeat(w) \/ HeartbeatBusy(w) \/ ReadClaimed(w)
  BY <1>6, <1>8 DEF Heartbeat, HeartbeatBusy, ReadClaimed, At
<1>9. ~ ClaimNothing(w) /\ \A j \in JobId : ~ ClaimJob(w, j)
  BY <1>1 DEF ClaimNothing, ClaimJob, At, Busy, InExecute
<1>10. CASE ReadDetails(w) \/ SaveSnapshot(w) \/ HandleError(w) \/ StopOperation(w) \/ LastPhase(w)
  BY <1>4, <1>5, <1>6, <1>7, <1>10
     DEF ReadDetails, SaveSnapshot, HandleError, StopOperation, LastPhase, Catches, Stops
<1>11. CASE ReadSnapshot(w)
  <2>1. ASSUME NEW d, Becomes(w, [r EXCEPT !.pc = "copy", !.digest = d]) PROVE Goal
    BY <1>3, <2>1 DEF Run
  <2> QED BY <1>4, <1>11, <2>1 DEF ReadSnapshot
<1>12. CASE Plan(w)
  <2>1. ASSUME NEW d, Becomes(w, [r EXCEPT !.pc = "save", !.digest = d]) PROVE Goal
    BY <1>3, <2>1 DEF Run
  <2> QED BY <1>5, <1>6, <1>12, <2>1 DEF Plan, Catches
<1>13. CASE OpenStream(w)
  <2>1. ASSUME Becomes(w, [r EXCEPT !.pc = "stream", !.stage = "opened"]) PROVE Goal
    BY <1>3, <2>1 DEF Run
  <2> QED BY <1>6, <1>13, <2>1 DEF OpenStream
<1>14. CASE Receive(w)
  <2>1. ASSUME NEW e, NEW x, Becomes(w, [r EXCEPT !.pc = "check", !.event = e, !.stage = x])
        PROVE  Goal
    BY <1>3, <2>1 DEF Run
  <2>2. ASSUME NEW e, NEW b, Becomes(w, [r EXCEPT !.pc = "check", !.event = e, !.retryable = b])
        PROVE  Goal
    BY <1>3, <2>2 DEF Run
  <2> QED BY <1>5, <1>14, <2>1, <2>2 DEF Receive, Catches
<1>15. CASE CheckEvent(w)
  <2>1. r.event \in {"copying", "progress", "verifying", "failed", "completed"}
    BY <1>15 DEF CheckEvent, At, RunsOK, RunOK, Run, Event
  <2> QED BY <1>4, <1>5, <1>15, <2>1 DEF CheckEvent, Catches, Stops
<1>16. CASE ApplyEvent(w)
  <2>1. ASSUME Becomes(w, [r EXCEPT !.pc = "stream", !.event = "none"]) PROVE Goal
    BY <1>3, <2>1 DEF Run
  <2> QED BY <1>7, <1>16, <2>1 DEF ApplyEvent
<1>17. CASE ReadFailure(w)
  <2>1. ASSUME NEW b, Becomes(w, [r EXCEPT !.pc = "fail", !.retryable = b]) PROVE Goal
    BY <1>3, <2>1 DEF Run
  <2> QED BY <1>6, <1>17, <2>1 DEF ReadFailure
<1>18. ~ (FinishCancelled(w) \/ FinishCompleted(w) \/ RecordFailure(w) \/ StoreBusy(w) \/ Crash(w))
  BY <1>6, <1>7 DEF FinishCancelled, FinishCompleted, RecordFailure, StoreBusy, Crash
<1> QED BY <1>8, <1>9, <1>10, <1>11, <1>12, <1>13, <1>14, <1>15, <1>16, <1>17, <1>18
        DEF Steps, WorkerStep

-----------------------------------------------------------------------------
(* Steps. *)

(* A step of a worker leaves the table live, jobs that are over as they are,
   and the row of every other run that is covered. *)
LEMMA TableStep ==
  ASSUME XInv, NEW w \in Worker, Steps(w), NEW i \in JobId
  PROVE  /\ Live(rows'[i])
         /\ rows[i].state \in Over => rows'[i] = rows[i]
         /\ \A v \in Worker : v # w /\ Covered(v) /\ run[v].job = i => rows'[i] = rows[i]
<1> USE DEF XInv, IInv
<1> DEFINE Goal == /\ Live(rows'[i])
                   /\ rows[i].state \in Over => rows'[i] = rows[i]
                   /\ \A v \in Worker : v # w /\ Covered(v) /\ run[v].job = i => rows'[i] = rows[i]
<1>1. RunWrites(w) /\ Live(rows[i]) /\ rows \in [JobId -> Row]
  BY RunsWrite DEF RowsLive, RowsOK
<1>2. CASE rows' = rows
  BY <1>1, <1>2
<1>3. ASSUME NEW v \in Worker, Covered(v)
      PROVE  /\ run[v].job \in JobId /\ run[v].token \in Token /\ run[v].token # Null
             /\ Live(MyRow(v)) /\ Keeps(MyRow(v), run[v].token)
  BY <1>3, NullIsNoValue DEF Covered, Busy, RunsOK, RunOK, ClaimsKept, RowsLive, MyRow
<1>4. ASSUME NEW v \in Worker, Covered(v) PROVE Swept(MyRow(v)) = MyRow(v)
  <2>1. MyRow(v).state \in Over \/ (MyRow(v).token # Null /\ MyRow(v).lease = "future")
    BY <1>3, <1>4 DEF Keeps, Over
  <2> QED BY <1>3, <1>4, <2>1, SweptLive
<1>5. CASE rows' = [j \in JobId |-> Swept(rows[j])]
  <2>1. rows'[i] = Swept(rows[i])
    BY <1>5
  <2> QED BY <1>1, <1>4, <2>1, SweptLive DEF MyRow
<1>6. CASE ClaimMoves(w)
  <2>1. PICK j \in JobId, t \in Token :
          /\ Claimable(rows[j])
          /\ rows' = [[k \in JobId |-> Swept(rows[k])] EXCEPT ![j] = Claimed(rows[j], w, t)]
    BY <1>6 DEF ClaimMoves
  <2>2. CASE i = j
    <3>1. rows'[i] = Claimed(rows[i], w, t) /\ Live(rows'[i])
      BY <1>1, <2>1, <2>2, ClaimedLive
    <3>2. rows[i].state \notin Over
      BY <1>1, <2>1, <2>2 DEF Claimable, Over, RUNNING
    <3>3. ASSUME NEW v \in Worker, Covered(v), run[v].job = i PROVE FALSE
      BY <1>3, <2>1, <2>2, <3>3, KeptIsNotClaimable DEF MyRow
    <3> QED BY <3>1, <3>2, <3>3
  <2>3. CASE i # j
    <3>1. rows'[i] = Swept(rows[i])
      BY <2>1, <2>3
    <3> QED BY <1>1, <1>4, <3>1, SweptLive DEF MyRow
  <2> QED BY <2>2, <2>3
<1>7. ASSUME NEW s, Busy(w), Mine(w), Live(s), rows' = [rows EXCEPT ![run[w].job] = s]
      PROVE  Goal
  <2>1. /\ run[w].job \in JobId /\ MyRow(w).token = run[w].token /\ run[w].token # Null
        /\ Exists(MyRow(w)) /\ Live(MyRow(w))
    BY <1>7, NullIsNoValue DEF Mine, HeldBy, MyRow, RunsOK, RunOK, Busy, RowsLive
  <2>2. MyRow(w).state \notin Over
    BY <2>1 DEF Live, RowOK, Over, GONE
  <2>3. ASSUME NEW v \in Worker, v # w, Covered(v), run[v].job = run[w].job PROVE FALSE
    <3>1. run[v].token = run[w].token
      BY <1>3, <2>1, <2>2, <2>3 DEF Keeps, MyRow, Over
    <3> QED BY <1>7, <2>3, <3>1 DEF OneRunPerToken, Covered
  <2> QED BY <1>1, <1>7, <2>1, <2>2, <2>3 DEF MyRow
<1>8. CASE Leaves(w) /\ Busy(w) /\ HolderMoves(w)
  <2>1. PICK s : Mine(w) /\ HolderWrote(MyRow(w), s) /\ rows' = [rows EXCEPT ![run[w].job] = s]
    BY <1>8 DEF HolderMoves
  <2>2. Live(MyRow(w)) /\ MyRow(w).token # Null
    BY <1>8, <2>1, NullIsNoValue DEF Mine, HeldBy, MyRow, RunsOK, RunOK, Busy, RowsLive
  <2> QED BY <1>7, <1>8, <2>1, <2>2, WrittenLive
<1>9. ASSUME NEW s, Busy(w), Mine(w), WroteOn(MyRow(w), s), rows' = [rows EXCEPT ![run[w].job] = s]
      PROVE  Goal
  <2>1. Live(MyRow(w)) /\ MyRow(w).token # Null
    BY <1>9, NullIsNoValue DEF Mine, HeldBy, MyRow, RunsOK, RunOK, Busy, RowsLive
  <2>2. HolderWrote(MyRow(w), s)
    BY <1>9 DEF WroteOn, HolderWrote
  <2> QED BY <1>7, <1>9, <2>1, <2>2, WrittenLive
<1> QED BY <1>1, <1>2, <1>5, <1>6, <1>8, <1>9 DEF RunWrites

(* Its own claim is new, kept or given up. *)
LEMMA WorkersKeep ==
  ASSUME XInv, LeasesAreKept, NEW w \in Worker, Steps(w)
  PROVE  RowsLive' /\ CallsLive' /\ ClaimsKept' /\ OneCovered'
<1> USE DEF XInv, IInv
<1>1. RowsLive'
  BY TableStep DEF RowsLive
<1>2. CallsLive'
  <2>1. \A c \in Client : calls'[c] \in {calls[c], Store!NoCall}
    <3>1. CASE UNCHANGED calls
      BY <3>1
    <3>2. CASE Crash(w)
      BY <3>2 DEF Crash, Store!ProcessDies
    <3> QED BY <3>1, <3>2, WorkersMoveRows DEF Steps
  <2>2. \A c \in Client : calls[c].write = "queued" => calls[c].job \in JobId
    BY DEF MemoryOK, Store!Call, Store!NoCall, LeasesAreKept
  <2>3. ASSUME NEW c \in Client, calls'[c].write = "queued"
        PROVE  calls'[c] = calls[c] /\ calls[c].job \in JobId
    BY <2>1, <2>2, <2>3 DEF Store!NoCall, LeasesAreKept
  <2> QED BY <2>3, TableStep DEF CallsLive
<1>3. \A v \in Worker : v # w => run'[v] = run[v]
  BY WorkersMoveRuns DEF Steps
<1>4. ASSUME NEW v \in Worker, v # w, Covered(v)'
      PROVE  Covered(v) /\ run'[v] = run[v] /\ Keeps(MyRow(v)', run[v].token)
  <2>1. Covered(v) /\ run'[v] = run[v] /\ run[v].job \in JobId
    BY <1>3, <1>4 DEF Covered, Busy, At, RunsOK, RunOK
  <2>2. rows'[run[v].job] = rows[run[v].job]
    BY <1>4, <2>1, TableStep
  <2> QED BY <2>1, <2>2 DEF ClaimsKept, MyRow
<1>5. CASE ClaimMoves(w)
  <2>1. PICK j \in JobId, t \in Token :
          /\ Claimable(rows[j])
          /\ rows' = [[k \in JobId |-> Swept(rows[k])] EXCEPT ![j] = Claimed(rows[j], w, t)]
          /\ run' = [run EXCEPT ![w] = [Idle EXCEPT !.pc = "claimed", !.job = j, !.token = t]]
    BY <1>5 DEF ClaimMoves
  <2>2. run'[w].job = j /\ run'[w].token = t
    BY <2>1 DEF Idle, RunsOK
  <2>3. Keeps(rows'[j], t)
    <3>1. rows'[j] = Claimed(rows[j], w, t)
      BY <2>1
    <3> QED BY <3>1, ClaimedLive DEF RowsLive
  <2>4. ASSUME NEW v \in Worker, Covered(v), run[v].job = j PROVE FALSE
    <3>1. Live(rows[j]) /\ Keeps(rows[j], run[v].token) /\ run[v].token \in Token
      BY <2>4 DEF ClaimsKept, RowsLive, MyRow, Covered, Busy, RunsOK, RunOK
    <3> QED BY <2>1, <3>1, KeptIsNotClaimable
  <2>5. ClaimsKept'
    BY <1>4, <2>2, <2>3 DEF ClaimsKept, MyRow
  <2>6. OneCovered'
    BY <1>4, <2>2, <2>4 DEF OneCovered
  <2> QED BY <1>1, <1>2, <2>5, <2>6
<1>6. CASE ~ ClaimMoves(w)
  <2>1. ASSUME Covered(w)' PROVE Keeps(MyRow(w)', run'[w].token)
    <3>1. /\ Covered(w) /\ run'[w].job = run[w].job /\ run'[w].token = run[w].token
          /\ Keeps(MyRow(w), run[w].token) /\ RowOK(MyRow(w)) /\ run[w].job \in JobId
      BY <1>6, <2>1, CoverIsKept DEF ClaimsKept, RowsOK, MyRow, Covered, Busy, RunsOK, RunOK
    <3>2. ~ Leaves(w)
      BY <2>1 DEF Covered, Busy, InExecute, Leaves, Becomes, Idle, RunsOK
    <3>3. ~ At(w, "claim")
      BY <3>1 DEF Covered, Busy, At, InExecute
    <3>4. CASE UNCHANGED rows
      BY <3>1, <3>4 DEF MyRow
    <3>5. ASSUME NEW s, Mine(w), WroteOn(MyRow(w), s), rows' = [rows EXCEPT ![run[w].job] = s]
          PROVE  Keeps(MyRow(w)', run'[w].token)
      <4>1. Keeps(s, run[w].token)
        BY <3>1, <3>5, WroteOnKeeps DEF Mine, HeldBy
      <4> QED BY <3>1, <3>5, <4>1 DEF MyRow, RowsOK
    <3> QED BY <3>2, <3>3, <3>4, <3>5, RunsWrite DEF RunWrites
  <2>2. ClaimsKept'
    BY <1>4, <2>1 DEF ClaimsKept
  <2>3. OneCovered'
    <3>1. \A v \in Worker : Covered(v)' => Covered(v) /\ run'[v].job = run[v].job
      BY <1>4, <1>6, CoverIsKept
    <3> QED BY <3>1 DEF OneCovered
  <2> QED BY <1>1, <1>2, <2>2, <2>3
<1> QED BY <1>5, <1>6

(* Jobs arrive, calls are made and time passes: no claim is touched but that
   of a job that is deleted. *)
LEMMA CallersKeep ==
  ASSUME XInv, LeasesAreKept,
         \/ \E j \in JobId, d \in Destination : Enqueue(j, d)
         \/ \E c \in Client : (\E j \in JobId : Ask(c, j)) \/ CallEnds(c)
         \/ \E j \in JobId : LeaseLapses(j) \/ RetryFallsDue(j)
  PROVE  RowsLive' /\ CallsLive' /\ ClaimsKept' /\ OneCovered'
<1> USE DEF XInv, IInv
<1>1. UNCHANGED run
  BY DEF Enqueue, Ask, CallEnds, LeaseLapses, RetryFallsDue
<1>2. OneCovered'
  BY <1>1 DEF OneCovered, Covered, Busy, At
<1>3. ASSUME NEW j \in JobId, NEW s, rows' = [rows EXCEPT ![j] = s], Live(s),
             \A w \in Worker : /\ Covered(w) /\ run[w].job = j
                               /\ Keeps(rows[j], run[w].token)
                               => Keeps(s, run[w].token)
      PROVE  RowsLive' /\ ClaimsKept'
  <2>1. RowsLive'
    BY <1>3 DEF RowsLive, RowsOK
  <2>2. ASSUME NEW w \in Worker, Covered(w) PROVE Keeps(MyRow(w), run[w].token)'
    <3>1. run[w].job \in JobId /\ Keeps(rows[run[w].job], run[w].token)
      BY <2>2 DEF Covered, Busy, RunsOK, RunOK, ClaimsKept, MyRow
    <3> QED BY <1>1, <1>3, <2>2, <3>1 DEF MyRow, RowsOK
  <2> QED BY <1>1, <2>1, <2>2 DEF ClaimsKept, Covered, Busy, At
<1>4. ASSUME UNCHANGED rows PROVE RowsLive' /\ ClaimsKept'
  BY <1>1, <1>4 DEF RowsLive, ClaimsKept, Covered, Busy, At, MyRow
<1>5. /\ \A c \in Client : calls[c].write = "queued" => calls[c].job \in JobId
      /\ calls \in [Client -> Store!Call \cup {Store!NoCall}]
      /\ rows \in [JobId -> Row] /\ \A j \in JobId : Live(rows[j]) /\ RowOK(rows[j])
  BY DEF MemoryOK, Store!Call, Store!NoCall, RowsOK, RowsLive, LeasesAreKept
<1>6. ASSUME NEW j \in JobId, UNCHANGED calls, NEW s, rows' = [rows EXCEPT ![j] = s],
             rows[j].state \in Over => s.state \in Over
      PROVE  CallsLive'
  BY <1>5, <1>6 DEF CallsLive
<1>7. ASSUME NEW j \in JobId, NEW d \in Destination, Enqueue(j, d)
      PROVE  RowsLive' /\ CallsLive' /\ ClaimsKept'
  <2>1. /\ rows' = [rows EXCEPT ![j] = QueuedRow(d)] /\ UNCHANGED calls
        /\ rows[j].state = "absent" /\ rows[j].token = Null
    BY <1>5, <1>7, SameStatements DEF Enqueue, Store!Enqueue, RowOK, GONE
  <2>2. Live(QueuedRow(d))
    BY QueuedRowOK DEF Live, QueuedRow, NoRow
  <2>3. \A w \in Worker : Covered(w) => run[w].token # Null
    BY NullIsNoValue DEF Covered, Busy, RunsOK, RunOK
  <2> QED BY <1>3, <1>6, <2>1, <2>2, <2>3 DEF Over, Keeps
<1>8. ASSUME NEW c \in Client, NEW j \in JobId, Ask(c, j)
      PROVE  RowsLive' /\ CallsLive' /\ ClaimsKept'
  <2>1. CASE Store!RetryRead(c, j) /\ "retry" \in Asks
    <3>1. /\ UNCHANGED rows /\ rows[j].state = "failed"
          /\ calls' = [calls EXCEPT ![c] = [job |-> j, write |-> "queued"]]
      BY <2>1 DEF Store!RetryRead
    <3>2. /\ calls'[c].write = "queued" /\ calls'[c].job = j
          /\ \A d \in Client : d # c => calls'[d] = calls[d]
      BY <1>5, <3>1
    <3>3. CallsLive'
      BY <2>1, <3>1, <3>2 DEF CallsLive, Over
    <3> QED BY <1>4, <3>1, <3>3
  <2>2. CASE Store!CancelRead(c, j)
    <3>1. /\ UNCHANGED rows
          /\ calls' = [calls EXCEPT ![c] = [job |-> j, write |-> CancelState(rows[j])]]
      BY <2>2, SameStatements DEF Store!CancelRead
    <3>2. /\ calls'[c].write = CancelState(rows[j])
          /\ \A d \in Client : d # c => calls'[d] = calls[d]
      BY <1>5, <3>1
    <3>3. CancelState(rows[j]) # "queued"
      BY DEF CancelState
    <3>4. CallsLive'
      BY <3>1, <3>2, <3>3 DEF CallsLive
    <3> QED BY <1>4, <3>1, <3>4
  <2>3. CASE Store!Dismiss(j)
    <3>1. /\ rows' = [rows EXCEPT ![j] = DeletedRow] /\ UNCHANGED calls
      BY <2>3, SameStatements DEF Store!Dismiss
    <3>2. Live(DeletedRow) /\ DeletedRow.state = "deleted"
      BY NoRowOK DEF Live, DeletedRow, NoRow
    <3> QED BY <1>3, <1>6, <3>1, <3>2 DEF Keeps, Over
  <2> QED BY <1>8, <2>1, <2>2, <2>3 DEF Ask
<1>9. ASSUME NEW c \in Client, CallEnds(c)
      PROVE  RowsLive' /\ CallsLive' /\ ClaimsKept'
  <2>1. calls' = [calls EXCEPT ![c] = Store!NoCall]
    BY <1>9 DEF CallEnds, Store!CancelWrite, Store!RetryWrite, Store!CallFindsNothing, Store!Returns
  <2>2. ASSUME NEW d \in Client, calls'[d].write = "queued"
        PROVE  d # c /\ calls'[d] = calls[d] /\ calls[d].write = "queued"
    BY <1>5, <2>1, <2>2 DEF Store!NoCall, LeasesAreKept
  <2>3. CallsLive'
    <3>1. ASSUME NEW d \in Client, calls'[d].write = "queued" PROVE FALSE
      BY <2>2, <3>1 DEF CallsLive, LeasesAreKept
    <3> QED BY <3>1 DEF CallsLive
  <2>4. CASE Store!RetryWrite(c)
    <3> DEFINE j == calls[c].job
               s == RetryWritten(rows[j])
    <3>1. /\ j \in JobId /\ rows' = [rows EXCEPT ![j] = s] /\ Exists(rows[j])
          /\ rows[j].state \in Over
      BY <1>5, <2>4, SameStatements DEF Store!RetryWrite, CallsLive
    <3>2. rows[j].state = "failed" /\ rows[j].token = Null
      BY <1>5, <3>1 DEF Exists, GONE, Over, RowOK
    <3>3. RowOK(s) /\ s.token = Null
      <4>1. RowOK(rows[j])
        BY <1>5, <3>1
      <4>2. RowOK(s)
        BY <4>1, RetryWrittenOK
      <4>3. s.token = rows[j].token
        BY <4>1 DEF RetryWritten, RowOK, Row
      <4> QED BY <3>2, <4>2, <4>3
    <3>4. \A w \in Worker : Covered(w) => run[w].token # Null
      BY NullIsNoValue DEF Covered, Busy, RunsOK, RunOK
    <3>5. Live(s) /\ \A w \in Worker : Covered(w) => ~ Keeps(rows[j], run[w].token)
      BY <3>2, <3>3, <3>4 DEF Live, Keeps
    <3> HIDE DEF s
    <3> QED BY <1>3, <2>3, <3>1, <3>5
  <2>5. CASE Store!CancelWrite(c)
    <3> DEFINE j == calls[c].job
               s == CancelWritten(rows[j], calls[c].write)
    <3>1. /\ calls[c].write \in {"cancelled", "cancel_requested"}
          /\ rows' = [rows EXCEPT ![j] = s] /\ Exists(rows[j])
      BY <2>5, SameStatements DEF Store!CancelWrite
    <3>2. CASE j \in JobId
      <4>1. RowOK(s)
        BY <1>5, <3>1, <3>2, CancelWrittenOK
      <4>2. s.state # "queued" /\ s.token = rows[j].token /\ s.lease = rows[j].lease
        BY <1>5, <3>1, <3>2 DEF CancelWritten, Row
      <4>3. rows[j].state # "deleted"
        BY <3>1 DEF Exists, GONE
      <4>4. Live(s) /\ \A w \in Worker : Keeps(rows[j], run[w].token) => Keeps(s, run[w].token)
        BY <4>1, <4>2, <4>3 DEF Live, Keeps
      <4> HIDE DEF s
      <4> QED BY <1>3, <2>3, <3>1, <3>2, <4>4
    <3>3. CASE j \notin JobId
      <4>1. rows' = rows
        BY <1>5, <3>1, <3>3
      <4> QED BY <1>4, <2>3, <4>1
    <3> QED BY <3>2, <3>3
  <2>6. CASE Store!CallFindsNothing(c)
    BY <1>4, <2>3, <2>6 DEF Store!CallFindsNothing
  <2> QED BY <1>9, <2>4, <2>5, <2>6 DEF CallEnds
<1>10. ASSUME NEW j \in JobId, LeaseLapses(j)
       PROVE  RowsLive' /\ CallsLive' /\ ClaimsKept'
  <2> DEFINE s == [rows[j] EXCEPT !.lease = "past"]
  <2>1. /\ rows' = [rows EXCEPT ![j] = s] /\ UNCHANGED calls /\ rows[j].lease = "future"
    BY <1>10 DEF LeaseLapses, Store!LeaseLapses
  <2>2. \A w \in Worker : Covered(w) => run[w].token # rows[j].token
    BY <1>10 DEF LeaseLapses, LeasesAreKept, Covered
  <2>3. RowOK(s) /\ s.state = rows[j].state /\ s.token = rows[j].token
    BY <1>5, <2>1, LapsedOK DEF RowOK, Row
  <2>4. rows[j].state \in Over => s.state \in Over
    BY <2>3
  <2>5. Live(s)
    BY <1>5, <2>3 DEF Live
  <2>6. \A w \in Worker : Covered(w) /\ Keeps(rows[j], run[w].token) => Keeps(s, run[w].token)
    BY <2>2, <2>3 DEF Keeps
  <2> HIDE DEF s
  <2> QED BY <1>3, <1>6, <2>1, <2>4, <2>5, <2>6
<1>11. ASSUME NEW j \in JobId, RetryFallsDue(j)
       PROVE  RowsLive' /\ CallsLive' /\ ClaimsKept'
  <2> DEFINE s == [rows[j] EXCEPT !.retryAt = "past"]
  <2>1. /\ rows' = [rows EXCEPT ![j] = s] /\ UNCHANGED calls /\ rows[j].retryAt = "future"
    BY <1>11 DEF RetryFallsDue, Store!RetryFallsDue
  <2>2. /\ RowOK(s) /\ s.state = rows[j].state /\ s.token = rows[j].token
        /\ s.lease = rows[j].lease
    BY <1>5, <2>1, FallenDueOK DEF RowOK, Row
  <2>3. Live(s) /\ \A w \in Worker : Keeps(rows[j], run[w].token) => Keeps(s, run[w].token)
    BY <1>5, <2>2 DEF Live, Keeps
  <2>4. rows[j].state \in Over => s.state \in Over
    BY <2>2
  <2> HIDE DEF s
  <2> QED BY <1>3, <1>6, <2>1, <2>3, <2>4
<1> QED BY <1>2, <1>7, <1>8, <1>9, <1>10, <1>11

(* The invariant holds from the start on. *)
LEMMA ExclusionInvariance == ASSUME LeasesAreKept PROVE Spec => []XInv
<1> DEFINE Own == RowsLive /\ CallsLive /\ ClaimsKept /\ OneCovered
<1>1. Init => Own
  BY NoRowOK DEF Init, RowsLive, Live, NoRow, CallsLive, Store!NoCall, ClaimsKept, OneCovered,
                 Covered, Busy, Idle, InExecute, LeasesAreKept
<1>2. XInv /\ [Next]_vars => Own'
  <2>1. XInv /\ UNCHANGED vars => Own'
    BY DEF XInv, vars, RowsLive, CallsLive, ClaimsKept, OneCovered, Covered, Busy, At, MyRow
  <2>2. ASSUME XInv, Next PROVE Own'
    BY <2>2, WorkersKeep, CallersKeep DEF Next, Steps
  <2> QED BY <2>1, <2>2
<1>3. Spec => [](IInv /\ OneRunPerToken)
  BY Invariance, TokensFenceRuns, PTL
<1>4. IInv /\ OneRunPerToken /\ Own <=> XInv
  BY DEF XInv
<1> QED BY <1>1, <1>2, <1>3, <1>4, PTL DEF Spec

(* Two workers whose heartbeats beat never handle the event streams of one job
   (manager.py, _execute and _heartbeat), whatever is cancelled, dismissed,
   refused by the database or killed, if the heartbeats are served in time and
   no retry is overtaken by another. *)
THEOREM WorkersExclude == ASSUME LeasesAreKept PROVE Spec => []Exclusion
<1>1. XInv => Exclusion
  <2>1. \A w \in Worker : Streaming(w) /\ run[w].beating => Covered(w)
    BY DEF Streaming, Covered, Busy, InExecute
  <2> QED BY <2>1 DEF XInv, OneCovered, Exclusion
<1> QED BY <1>1, ExclusionInvariance, PTL

-----------------------------------------------------------------------------
(* The end of a run. *)

(* What a run that holds its job can find in its row before the snapshot is
   saved: the state that claim gave it, or the one that a call wrote since. *)
Unsaved == {"planning", "cancel_requested", "cancelled", "queued"}

Planning(w) ==
  Busy(w) /\ Mine(w) =>
    /\ run[w].pc \in {"claimed", "details", "snapshot"} /\ MyRow(w).snapshot = Null =>
         MyRow(w).state \in Unsaved
    /\ run[w].pc \in {"plan", "save"} => MyRow(w).state \in Unsaved

PlanningOK == \A w \in Worker : Planning(w)

(* A failure that left _execute is on its way to its record. *)
OuterOK == \A w \in Worker : run[w].outer => run[w].pc \in {"record", "fail"}

EInv == IInv /\ OneRunPerToken /\ PlanningOK /\ OuterOK

Early == {"claimed", "details", "snapshot", "plan", "save"}

(* How a run comes to where it stands before its snapshot is saved. *)
LEMMA EarlyIsReached ==
  ASSUME NEW w \in Worker, RunsOK, Steps(w), run'[w].pc \in Early
  PROVE  \/ ClaimMoves(w)
         \/ /\ run[w].pc \in Early /\ run'[w].job = run[w].job
            /\ \/ UNCHANGED rows
               \/ rows' = [rows EXCEPT ![run[w].job] = Renewed(@)]
            /\ \/ run'[w].pc = run[w].pc
               \/ run'[w].pc \in {"details", "snapshot"} /\ run[w].pc \in {"claimed", "details"}
               \/ run'[w].pc = "plan" /\ run[w].pc = "snapshot" /\ MyRow(w).snapshot = Null
               \/ run'[w].pc = "save" /\ run[w].pc = "plan"
<1> DEFINE r == run[w]
           Goal == /\ r.pc \in Early /\ run'[w].job = r.job
                   /\ \/ UNCHANGED rows
                      \/ rows' = [rows EXCEPT ![r.job] = Renewed(@)]
                   /\ \/ run'[w].pc = r.pc
                      \/ run'[w].pc \in {"details", "snapshot"} /\ r.pc \in {"claimed", "details"}
                      \/ run'[w].pc = "plan" /\ r.pc = "snapshot" /\ MyRow(w).snapshot = Null
                      \/ run'[w].pc = "save" /\ r.pc = "plan"
<1> run \in [Worker -> Run] /\ r \in Run
  BY DEF RunsOK
<1>1. ASSUME NEW s, Becomes(w, s) PROVE run'[w] = s
  BY <1>1 DEF Becomes
<1>2. ASSUME NEW pc, Goes(w, pc) PROVE run'[w].pc = pc /\ run'[w].job = r.job
  BY <1>1, <1>2 DEF Goes, Run
<1>3. ~ Leaves(w)
  BY <1>1 DEF Leaves, Idle, Early
<1>4. ~ Raises(w)
  <2>1. Raised(r).pc \in {"dead", "record"}
    BY DEF Raised, Idle
  <2>2. Raises(w) => run'[w] = Raised(r)
    BY <1>1 DEF Raises
  <2> QED BY <2>1, <2>2 DEF Early
<1>5. ASSUME NEW pc, NEW retryable, LeavesStream(w, pc, retryable) PROVE pc \in Early
  BY <1>1, <1>5 DEF LeavesStream, Run
<1>6. CASE Heartbeat(w)
  <2>1. CASE Becomes(w, [r EXCEPT !.beating = FALSE]) /\ UNCHANGED rows
    BY <1>1, <2>1 DEF Run
  <2>2. CASE UNCHANGED run /\ Store!Heartbeat(Held(r))
    BY <2>2, SameStatements DEF Store!Heartbeat, Store!HolderWrites, Held
  <2> QED BY <1>6, <2>1, <2>2 DEF Heartbeat, OnlyRun
<1>7. CASE HeartbeatBusy(w)
  BY <1>1, <1>7 DEF HeartbeatBusy, Run
<1>8. CASE ClaimNothing(w)
  BY <1>8 DEF ClaimNothing, At, Early
<1>9. ASSUME NEW j \in JobId, ClaimJob(w, j) PROVE ClaimMoves(w)
  <2>1. PICK t \in Token : /\ Store!ClaimJob(w, j, t)
                           /\ Becomes(w, [Idle EXCEPT !.pc = "claimed", !.job = j, !.token = t])
    BY <1>9 DEF ClaimJob
  <2> QED BY <2>1, SameStatements
          DEF Store!ClaimJob, Store!AfterSweep, Store!Due, ClaimMoves, Becomes
<1>10. CASE ReadClaimed(w)
  <2>1. Becomes(w, [r EXCEPT !.pc = "details", !.beating = TRUE]) /\ r.pc = "claimed"
    BY <1>4, <1>10 DEF ReadClaimed, At
  <2>2. run'[w].pc = "details" /\ run'[w].job = r.job
    BY <1>1, <2>1 DEF Run
  <2> QED BY <1>10, <2>1, <2>2 DEF ReadClaimed, OnlyRun, Early
<1>11. CASE ReadDetails(w)
  BY <1>2, <1>4, <1>5, <1>11 DEF ReadDetails, Catches, OnlyRun, At, Early
<1>12. CASE ReadSnapshot(w)
  <2>1. ~ Becomes(w, [r EXCEPT !.pc = "copy", !.digest = MyRow(w).snapshot])
    BY <1>1 DEF Run, Early
  <2>2. Goes(w, "plan") /\ r.pc = "snapshot" /\ MyRow(w).snapshot = Null
    BY <1>12, <2>1 DEF ReadSnapshot, At
  <2>3. run'[w].pc = "plan" /\ run'[w].job = r.job
    BY <1>2, <2>2
  <2> QED BY <1>12, <2>2, <2>3 DEF ReadSnapshot, OnlyRun, Early
<1>13. CASE Plan(w)
  <2>1. ASSUME NEW d, Becomes(w, [r EXCEPT !.pc = "save", !.digest = d])
        PROVE  run'[w].pc = "save" /\ run'[w].job = r.job
    BY <1>1, <2>1 DEF Run
  <2>2. ASSUME NEW retryable, Catches(w, retryable) PROVE FALSE
    BY <1>5, <2>2 DEF Catches, Early
  <2> QED BY <1>4, <1>13, <2>1, <2>2 DEF Plan, OnlyRun, At, Early
<1>14. ~ (SaveSnapshot(w) \/ StopOperation(w) \/ LastPhase(w) \/ FinishCancelled(w)
          \/ FinishCompleted(w) \/ HandleError(w) \/ RecordFailure(w) \/ StoreBusy(w) \/ Crash(w))
  <2>1. ASSUME NEW pc, Goes(w, pc) PROVE pc \in Early
    BY <1>2, <2>1
  <2>2. /\ "copy" \notin Early /\ "cancelled" \notin Early /\ "finish" \notin Early
        /\ "record" \notin Early /\ "error" \notin Early
    BY DEF Early
  <2>3. ~ (SaveSnapshot(w) \/ LastPhase(w) \/ FinishCancelled(w) \/ FinishCompleted(w))
    BY <1>3, <2>1, <2>2 DEF SaveSnapshot, LastPhase, FinishCancelled, FinishCompleted
  <2>4. ~ (StopOperation(w) \/ HandleError(w))
    BY <1>4, <1>5, <2>1, <2>2 DEF StopOperation, HandleError, Catches, Stops
  <2>5. ~ (RecordFailure(w) \/ StoreBusy(w) \/ Crash(w))
    BY <1>3, <1>4 DEF RecordFailure, StoreBusy, Crash
  <2> QED BY <2>3, <2>4, <2>5
<1>15. ~ (OpenStream(w) \/ ReadFailure(w))
  <2>1. ~ Becomes(w, [r EXCEPT !.pc = "stream", !.stage = "opened"])
    BY <1>1 DEF Run, Early
  <2>2. ASSUME NEW b, Becomes(w, [r EXCEPT !.pc = "fail", !.retryable = b]) PROVE FALSE
    BY <1>1, <2>2 DEF Run, Early
  <2> QED BY <1>4, <2>1, <2>2 DEF OpenStream, ReadFailure
<1>16. ~ (Receive(w) \/ ApplyEvent(w))
  <2>1. ASSUME NEW e, NEW g, Becomes(w, [r EXCEPT !.pc = "check", !.event = e, !.stage = g])
        PROVE  FALSE
    BY <1>1, <2>1 DEF Run, Early
  <2>2. ASSUME NEW e, NEW b, Becomes(w, [r EXCEPT !.pc = "check", !.event = e, !.retryable = b])
        PROVE  FALSE
    BY <1>1, <2>2 DEF Run, Early
  <2>3. ~ Becomes(w, [r EXCEPT !.pc = "stream", !.event = "none"])
    BY <1>1 DEF Run, Early
  <2>4. ASSUME NEW retryable, Catches(w, retryable) PROVE FALSE
    BY <1>5, <2>4 DEF Catches, Early
  <2>5. ~ Receive(w)
    BY <2>1, <2>2, <2>4 DEF Receive
  <2>6. ~ ApplyEvent(w)
    BY <1>3, <2>3 DEF ApplyEvent
  <2> QED BY <2>5, <2>6
<1>17. ~ CheckEvent(w)
  <2>1. At(w, "check") =>
          run[w].event \in {"copying", "progress", "verifying", "failed", "completed"}
    BY DEF At, RunsOK, RunOK, Run, Event
  <2>2. ~ Goes(w, "apply") /\ ~ Stops(w, "stop") /\ ~ Stops(w, "verifying")
    <3>1. ~ Goes(w, "apply")
      BY <1>2 DEF Early
    <3>2. "stop" \notin Early /\ "verifying" \notin Early
      BY DEF Early
    <3> QED BY <1>5, <3>1, <3>2, Zenon DEF Stops
  <2>3. ~ Catches(w, run[w].retryable)
    BY <1>5 DEF Catches, Early
  <2> QED BY <2>1, <2>2, <2>3 DEF CheckEvent
<1> QED BY <1>6, <1>7, <1>8, <1>9, <1>10, <1>11, <1>12, <1>13, <1>14, <1>15, <1>16, <1>17
        DEF Steps, WorkerStep

(* A holder keeps the token of its row or clears it. *)
LEMMA HolderKeepsOrClears ==
  ASSUME NEW r, NEW s, RowOK(r), HolderWrote(r, s)
  PROVE  s.token \in {r.token, Null}
<1>1. r \in Row
  BY DEF RowOK
<1>2. CASE \/ s = Renewed(r) \/ \E d \in Digest : s = Pinned(r, d)
           \/ \E phase \in {"copying", "publishing", "verifying"} : s = InPhase(r, phase)
  BY <1>1, <1>2 DEF Renewed, Pinned, InPhase, Row
<1>3. CASE \/ \E state \in {"completed", "cancelled"} : s = Finished(r, state)
           \/ \E retryable \in BOOLEAN : s = Failed(r, retryable)
           \/ s = Released(r)
  <2>1. WithoutClaim(r) \in Row /\ WithoutClaim(r).token = Null
    BY UnclaimedIsRow
  <2> QED BY <1>3, <2>1 DEF Finished, Failed, Released, Row
<1> QED BY <1>2, <1>3 DEF HolderWrote

(* Whoever else moves, a job that its run still holds keeps its snapshot, and
   its state but for what a call writes. *)
LEMMA OthersLeave ==
  ASSUME IInv, OneRunPerToken, [Next]_vars, NEW w \in Worker, Busy(w), ~ Steps(w),
         HeldBy(rows'[run[w].job], run[w].token)
  PROVE  /\ Mine(w) /\ run'[w] = run[w]
         /\ rows'[run[w].job].snapshot = MyRow(w).snapshot
         /\ \/ rows'[run[w].job].state = MyRow(w).state
            \/ rows'[run[w].job].state \in {"cancel_requested", "cancelled", "queued"}
<1> USE DEF IInv
<1> DEFINE i == run[w].job
           t == run[w].token
           Goal == /\ Mine(w) /\ run'[w] = run[w]
                   /\ rows'[i].snapshot = rows[i].snapshot
                   /\ \/ rows'[i].state = rows[i].state
                      \/ rows'[i].state \in {"cancel_requested", "cancelled", "queued"}
<1> SUFFICES Goal
  BY DEF MyRow
<1>1. /\ i \in JobId /\ t \in Token /\ t # Null /\ rows \in [JobId -> Row]
      /\ rows[i] \in Row /\ RowOK(rows[i]) /\ rows'[i].token = t /\ Exists(rows'[i])
  BY NullIsNoValue DEF RunsOK, RunOK, Busy, RowsOK, HeldBy
<1>2. ASSUME rows'[i] = rows[i], run'[w] = run[w] PROVE Goal
  BY <1>1, <1>2 DEF Mine, HeldBy, MyRow
<1>3. ASSUME NEW j \in JobId, NEW s, rows' = [rows EXCEPT ![j] = s], UNCHANGED run,
             j = i => /\ s.token = t =>
                           /\ Exists(rows[i]) /\ rows[i].token = t
                           /\ s.snapshot = rows[i].snapshot
                           /\ \/ s.state = rows[i].state
                              \/ s.state \in {"cancel_requested", "cancelled", "queued"}
      PROVE  Goal
  BY <1>1, <1>2, <1>3 DEF Mine, HeldBy, MyRow
<1>4. ASSUME NEW v \in Worker, Steps(v) PROVE Goal
  <2>1. v # w
    BY <1>4
  <2>2. run'[w] = run[w]
    BY <1>4, <2>1, WorkersMoveRuns DEF Steps
  <2>3. rows'[i] = Swept(rows[i]) => rows'[i] = rows[i]
    <3>1. Sweepable(rows[i]) => Swept(rows[i]).token = Null
      BY <1>1, UnclaimedIsRow DEF Swept, Row
    <3> QED BY <1>1, <3>1 DEF Swept
  <2>4. CASE UNCHANGED rows
    BY <1>2, <2>2, <2>4
  <2>5. CASE rows' = [k \in JobId |-> Swept(rows[k])]
    BY <1>1, <1>2, <2>2, <2>3, <2>5
  <2>6. CASE ClaimMoves(v)
    <3>1. PICK j \in JobId, u \in Token :
            /\ Store!Unused(u)
            /\ rows' = [[k \in JobId |-> Swept(rows[k])] EXCEPT ![j] = Claimed(rows[j], v, u)]
      BY <2>6 DEF ClaimMoves
    <3>2. u # t
      <4>1. Held(run[w]) \in {Held(run[y]) : y \in {x \in Worker : Busy(x)}}
        OBVIOUS
      <4>2. Held(run[w]).token # u
        BY <3>1, <4>1 DEF Store!Unused
      <4> QED BY <4>2 DEF Held
    <3>3. CASE i = j
      <4>1. rows'[i] = Claimed(rows[i], v, u)
        BY <1>1, <3>1, <3>3
      <4>2. Claimed(rows[i], v, u).token = u
        BY <1>1 DEF Claimed, Row
      <4> QED BY <1>1, <3>2, <4>1, <4>2
    <3>4. CASE i # j
      BY <1>1, <1>2, <2>2, <2>3, <3>1, <3>4
    <3> QED BY <3>3, <3>4
  <2>7. CASE Busy(v) /\ HolderMoves(v)
    <3>1. PICK s : Mine(v) /\ HolderWrote(MyRow(v), s) /\ rows' = [rows EXCEPT ![run[v].job] = s]
      BY <2>7 DEF HolderMoves
    <3>2. CASE run[v].job = i
      <4>1. s.token \in {rows[i].token, Null}
        BY <1>1, <3>1, <3>2, HolderKeepsOrClears DEF MyRow
      <4>2. rows[i].token = t
        BY <1>1, <3>1, <3>2, <4>1
      <4>3. run[v].token = t
        BY <3>1, <3>2, <4>2 DEF Mine, HeldBy, MyRow
      <4> QED BY <2>1, <2>7, <4>3 DEF OneRunPerToken
    <3>3. CASE run[v].job # i
      BY <1>1, <1>2, <2>2, <3>1, <3>3
    <3> QED BY <3>2, <3>3
  <2> QED BY <1>4, <2>4, <2>5, <2>6, <2>7, WorkersMoveRows DEF WorkerMoves, Steps
<1>5. ASSUME UNCHANGED <<rows, run>> PROVE Goal
  BY <1>2, <1>5
<1>6. ASSUME NEW j \in JobId, NEW d \in Destination, Enqueue(j, d) PROVE Goal
  <2>1. rows' = [rows EXCEPT ![j] = QueuedRow(d)] /\ UNCHANGED run /\ QueuedRow(d).token = Null
    BY <1>6, SameStatements DEF Enqueue, Store!Enqueue, QueuedRow, NoRow
  <2> HIDE DEF Goal
  <2> QED BY <1>1, <1>3, <2>1
<1>7. ASSUME NEW c \in Client, NEW j \in JobId, Ask(c, j) PROVE Goal
  <2>1. CASE Store!Dismiss(j)
    <3>1. rows' = [rows EXCEPT ![j] = DeletedRow] /\ UNCHANGED run /\ DeletedRow.token = Null
      BY <1>7, <2>1, SameStatements DEF Ask, Store!Dismiss, DeletedRow, NoRow
    <3> HIDE DEF Goal
    <3> QED BY <1>1, <1>3, <3>1
  <2>2. CASE Store!CancelRead(c, j) \/ Store!RetryRead(c, j)
    BY <1>5, <1>7, <2>2 DEF Ask, Store!CancelRead, Store!RetryRead
  <2> QED BY <1>7, <2>1, <2>2 DEF Ask
<1>8. ASSUME NEW c \in Client, CallEnds(c) PROVE Goal
  <2> DEFINE j == calls[c].job
             x == calls[c].write
  <2>1. CASE /\ UNCHANGED run /\ Exists(rows[j])
             /\ \/ x \in {"cancelled", "cancel_requested"}
                   /\ rows' = [rows EXCEPT ![j] = CancelWritten(rows[j], x)]
                \/ rows' = [rows EXCEPT ![j] = RetryWritten(rows[j])]
    <3>1. CASE j = i
      <4>1. /\ \/ rows'[i] = CancelWritten(rows[i], x) /\ x \in {"cancelled", "cancel_requested"}
               \/ rows'[i] = RetryWritten(rows[i])
            /\ Exists(rows[i])
        BY <1>1, <2>1, <3>1
      <4>2. /\ CancelWritten(rows[i], x).token = rows[i].token
            /\ CancelWritten(rows[i], x).snapshot = rows[i].snapshot
            /\ CancelWritten(rows[i], x).state = x
            /\ RetryWritten(rows[i]).token = rows[i].token
            /\ RetryWritten(rows[i]).snapshot = rows[i].snapshot
            /\ RetryWritten(rows[i]).state = "queued"
        BY <1>1 DEF CancelWritten, RetryWritten, Row
      <4>3. /\ rows'[i].token = rows[i].token /\ rows'[i].snapshot = rows[i].snapshot
            /\ rows'[i].state \in {"cancel_requested", "cancelled", "queued"}
        BY <4>1, <4>2
      <4> QED BY <1>1, <2>1, <4>1, <4>3 DEF Mine, HeldBy, MyRow
    <3>2. CASE j # i
      BY <1>1, <1>2, <2>1, <3>2
    <3> QED BY <3>1, <3>2
  <2>2. CASE UNCHANGED <<rows, run>>
    BY <1>5, <2>2
  <2> QED BY <1>8, <2>1, <2>2, SameStatements
          DEF CallEnds, Store!CancelWrite, Store!RetryWrite, Store!CallFindsNothing
<1>9. ASSUME NEW j \in JobId, LeaseLapses(j) \/ RetryFallsDue(j) PROVE Goal
  <2>1. /\ UNCHANGED run
        /\ \/ rows' = [rows EXCEPT ![j] = [rows[j] EXCEPT !.lease = "past"]]
           \/ rows' = [rows EXCEPT ![j] = [rows[j] EXCEPT !.retryAt = "past"]]
    BY <1>9 DEF LeaseLapses, RetryFallsDue, Store!LeaseLapses, Store!RetryFallsDue
  <2>2. ASSUME NEW s, s \in {[rows[i] EXCEPT !.lease = "past"], [rows[i] EXCEPT !.retryAt = "past"]}
        PROVE  s.token = rows[i].token /\ s.snapshot = rows[i].snapshot /\ s.state = rows[i].state
    BY <1>1, <2>2 DEF Row
  <2>3. CASE j = i
    <3>1. /\ rows'[i].token = rows[i].token /\ rows'[i].snapshot = rows[i].snapshot
          /\ rows'[i].state = rows[i].state
      BY <1>1, <2>1, <2>2, <2>3
    <3> QED BY <1>1, <2>1, <3>1 DEF Mine, HeldBy, MyRow, Exists
  <2>4. CASE j # i
    BY <1>1, <1>2, <2>1, <2>4
  <2> QED BY <2>3, <2>4
<1>10. CASE UNCHANGED vars
  BY <1>5, <1>10 DEF vars
<1> HIDE DEF Goal
<1>11. CASE Next
  <2>1. \/ \E v \in Worker : Steps(v)
        \/ \E j \in JobId, d \in Destination : Enqueue(j, d)
        \/ \E c \in Client : (\E j \in JobId : Ask(c, j)) \/ CallEnds(c)
        \/ \E j \in JobId : LeaseLapses(j) \/ RetryFallsDue(j)
    BY <1>11, Zenon DEF Next, Steps
  <2> QED BY <1>4, <1>6, <1>7, <1>8, <1>9, <2>1, Zenon
<1> QED BY <1>10, <1>11

(* Whatever its run does, a job is in an unsaved state until its snapshot is
   saved. *)
LEMMA PlanningStep == ASSUME EInv, [Next]_vars PROVE PlanningOK'
<1> USE DEF EInv, IInv
<1> SUFFICES ASSUME NEW w \in Worker, run'[w].pc \in Early, Mine(w)' PROVE Planning(w)'
  BY DEF PlanningOK, Planning, Early
<1> DEFINE Finds(pc, row) ==
             /\ pc \in {"claimed", "details", "snapshot"} /\ row.snapshot = Null =>
                  row.state \in Unsaved
             /\ pc \in {"plan", "save"} => row.state \in Unsaved
<1> SUFFICES Finds(run'[w].pc, MyRow(w)')
  BY DEF Planning
<1>1. Busy(w) /\ Mine(w) => Finds(run[w].pc, MyRow(w))
  BY DEF PlanningOK, Planning
<1>2. CASE ~ Steps(w)
  <2>1. run'[w] = run[w]
    <3>1. \A v \in Worker : Steps(v) => run'[w] = run[w]
      BY <1>2, WorkersMoveRuns DEF Steps
    <3> QED BY <3>1 DEF Next, Steps, vars, Enqueue, Ask, CallEnds, LeaseLapses, RetryFallsDue
  <2>2. Busy(w) /\ HeldBy(rows'[run[w].job], run[w].token)
    BY <2>1 DEF Busy, Early, InExecute, Mine, MyRow
  <2>3. /\ Mine(w) /\ rows'[run[w].job].snapshot = MyRow(w).snapshot
        /\ \/ rows'[run[w].job].state = MyRow(w).state
           \/ rows'[run[w].job].state \in {"cancel_requested", "cancelled", "queued"}
    BY <1>2, <2>2, OthersLeave
  <2> QED BY <1>1, <2>1, <2>2, <2>3 DEF MyRow, Unsaved
<1>3. CASE Steps(w) /\ ClaimMoves(w)
  <2>1. PICK j \in JobId, t \in Token :
          /\ rows' = [[k \in JobId |-> Swept(rows[k])] EXCEPT ![j] = Claimed(rows[j], w, t)]
          /\ run' = [run EXCEPT ![w] = [Idle EXCEPT !.pc = "claimed", !.job = j, !.token = t]]
    BY <1>3 DEF ClaimMoves
  <2>2. run'[w].pc = "claimed" /\ run'[w].job = j
    BY <2>1 DEF Idle, RunsOK
  <2>3. rows[j] \in Row /\ rows'[j] = Claimed(rows[j], w, t)
    BY <2>1 DEF RowsOK
  <2>4. rows'[j].snapshot = Null => rows'[j].state = "planning"
    BY <2>3 DEF Claimed, Row
  <2> QED BY <2>2, <2>4 DEF MyRow, Unsaved
<1>4. CASE Steps(w) /\ ~ ClaimMoves(w)
  <2>1. /\ run[w].pc \in Early /\ run'[w].job = run[w].job
        /\ \/ UNCHANGED rows
           \/ rows' = [rows EXCEPT ![run[w].job] = Renewed(@)]
        /\ \/ run'[w].pc = run[w].pc
           \/ run'[w].pc \in {"details", "snapshot"} /\ run[w].pc \in {"claimed", "details"}
           \/ run'[w].pc = "plan" /\ run[w].pc = "snapshot" /\ MyRow(w).snapshot = Null
           \/ run'[w].pc = "save" /\ run[w].pc = "plan"
    BY <1>4, EarlyIsReached
  <2>2. /\ Busy(w) /\ run[w].job \in JobId /\ rows \in [JobId -> Row]
        /\ run'[w].token = run[w].token
    <3>1. Busy(w) /\ run'[w].pc \in InExecute
      BY <2>1 DEF Busy, Early, InExecute
    <3> QED BY <1>4, <3>1, ClaimIsKept DEF Steps, RunsOK, RunOK, RowsOK, Busy
  <2>3. /\ MyRow(w)'.state = MyRow(w).state /\ MyRow(w)'.snapshot = MyRow(w).snapshot
        /\ MyRow(w)'.token = MyRow(w).token
    BY <2>1, <2>2 DEF Renewed, Row, MyRow
  <2>4. Mine(w)
    BY <2>2, <2>3 DEF Mine, HeldBy, Exists
  <2> QED BY <1>1, <2>1, <2>2, <2>3, <2>4
<1> QED BY <1>2, <1>3, <1>4

(* A failure that left _execute only goes on to its record. *)
LEMMA OuterStep == ASSUME IInv, OuterOK, [Next]_vars PROVE OuterOK'
<1> SUFFICES ASSUME NEW w \in Worker, run'[w].outer PROVE run'[w].pc \in {"record", "fail"}
  BY DEF OuterOK
<1> RunsOK /\ RowsOK
  BY DEF IInv
<1> DEFINE r == run[w]
           Goal == run'[w].pc \in {"record", "fail"}
<1> run \in [Worker -> Run] /\ r \in Run
  BY DEF RunsOK
<1>1. r.outer => r.pc \in {"record", "fail"}
  BY DEF OuterOK
<1>2. CASE run'[w] = r
  BY <1>1, <1>2
<1>3. ASSUME Steps(w) PROVE Goal
  <2>1. ASSUME NEW s, Becomes(w, s) PROVE run'[w] = s
    BY <2>1 DEF Becomes
  <2>2. ASSUME NEW pc, Goes(w, pc), ~ r.outer PROVE FALSE
    BY <2>1, <2>2 DEF Goes, Run
  <2>3. ASSUME NEW pc, NEW b, LeavesStream(w, pc, b), ~ r.outer PROVE FALSE
    BY <2>1, <2>3 DEF LeavesStream, Run
  <2>4. ASSUME Raises(w) PROVE Goal
    <3>1. run'[w] = Raised(r)
      BY <2>1, <2>4 DEF Raises
    <3>2. Raised(r).outer => Raised(r).pc = "record"
      BY DEF Raised, Idle
    <3> QED BY <3>1, <3>2
  <2>5. ~ Leaves(w)
    BY <2>1 DEF Leaves, Idle
  <2>6. CASE Heartbeat(w) \/ HeartbeatBusy(w)
    <3>1. CASE Becomes(w, [r EXCEPT !.beating = FALSE])
      BY <1>1, <2>1, <3>1 DEF Run
    <3> QED BY <1>2, <2>6, <3>1 DEF Heartbeat, HeartbeatBusy
  <2>7. ~ ClaimNothing(w)
    BY <1>1, <1>2, <2>1 DEF ClaimNothing, At
  <2>8. \A j \in JobId : ~ ClaimJob(w, j)
    <3>1. ASSUME NEW j \in JobId, ClaimJob(w, j) PROVE FALSE
      <4>1. PICK t : run'[w] = [Idle EXCEPT !.pc = "claimed", !.job = j, !.token = t]
        BY <2>1, <3>1 DEF ClaimJob
      <4> QED BY <4>1 DEF Idle
    <3> QED BY <3>1
  <2>9. CASE ReadClaimed(w)
    <3>1. ~ Becomes(w, [r EXCEPT !.pc = "details", !.beating = TRUE])
      BY <1>1, <2>1, <2>9 DEF Run, ReadClaimed, At
    <3> QED BY <2>4, <2>9, <3>1 DEF ReadClaimed
  <2>10. CASE \/ ReadDetails(w) \/ SaveSnapshot(w) \/ HandleError(w)
              \/ StopOperation(w) \/ LastPhase(w)
    <3>1. ~ r.outer
      BY <1>1, <2>10 DEF ReadDetails, SaveSnapshot, HandleError, StopOperation, LastPhase, At
    <3> QED BY <2>2, <2>3, <2>4, <2>5, <2>10, <3>1
            DEF ReadDetails, SaveSnapshot, HandleError, StopOperation, LastPhase, Catches, Stops
  <2>11. CASE ReadSnapshot(w)
    <3>1. ~ r.outer
      BY <1>1, <2>11 DEF ReadSnapshot, At
    <3>2. ASSUME NEW d, Becomes(w, [r EXCEPT !.pc = "copy", !.digest = d]) PROVE FALSE
      BY <2>1, <3>1, <3>2 DEF Run
    <3> QED BY <2>2, <2>11, <3>1, <3>2 DEF ReadSnapshot
  <2>12. CASE Plan(w)
    <3>1. ~ r.outer
      BY <1>1, <2>12 DEF Plan, At
    <3>2. ASSUME NEW d, Becomes(w, [r EXCEPT !.pc = "save", !.digest = d]) PROVE FALSE
      BY <2>1, <3>1, <3>2 DEF Run
    <3> QED BY <2>3, <2>4, <2>12, <3>1, <3>2 DEF Plan, Catches
  <2>13. CASE OpenStream(w)
    <3>1. ~ r.outer
      BY <1>1, <2>13 DEF OpenStream, At
    <3>2. ~ Becomes(w, [r EXCEPT !.pc = "stream", !.stage = "opened"])
      BY <2>1, <3>1 DEF Run
    <3> QED BY <2>4, <2>13, <3>2 DEF OpenStream
  <2>14. CASE Receive(w)
    <3>1. ~ r.outer
      BY <1>1, <2>14 DEF Receive, At
    <3>2. ASSUME NEW e, NEW x, Becomes(w, [r EXCEPT !.pc = "check", !.event = e, !.stage = x])
          PROVE  FALSE
      BY <2>1, <3>1, <3>2 DEF Run
    <3>3. ASSUME NEW e, NEW b, Becomes(w, [r EXCEPT !.pc = "check", !.event = e, !.retryable = b])
          PROVE  FALSE
      BY <2>1, <3>1, <3>3 DEF Run
    <3> QED BY <2>3, <2>14, <3>1, <3>2, <3>3 DEF Receive, Catches
  <2>15. CASE CheckEvent(w)
    <3>1. ~ r.outer /\ r.event \in {"copying", "progress", "verifying", "failed", "completed"}
      BY <1>1, <2>15 DEF CheckEvent, At, RunsOK, RunOK, Run, Event
    <3> QED BY <2>2, <2>3, <2>15, <3>1 DEF CheckEvent, Catches, Stops
  <2>16. CASE ApplyEvent(w)
    <3>1. ~ r.outer
      BY <1>1, <2>16 DEF ApplyEvent, At
    <3>2. ~ Becomes(w, [r EXCEPT !.pc = "stream", !.event = "none"])
      BY <2>1, <3>1 DEF Run
    <3> QED BY <2>5, <2>16, <3>2 DEF ApplyEvent
  <2>17. CASE ReadFailure(w)
    <3>1. ASSUME NEW b, Becomes(w, [r EXCEPT !.pc = "fail", !.retryable = b]) PROVE Goal
      BY <2>1, <3>1 DEF Run
    <3> QED BY <2>4, <2>17, <3>1 DEF ReadFailure
  <2>18. CASE \/ FinishCancelled(w) \/ FinishCompleted(w) \/ RecordFailure(w)
              \/ StoreBusy(w) \/ Crash(w)
    BY <2>4, <2>5, <2>18
       DEF FinishCancelled, FinishCompleted, RecordFailure, StoreBusy, Crash
  <2> QED BY <1>3, <2>6, <2>7, <2>8, <2>9, <2>10, <2>11, <2>12, <2>13, <2>14, <2>15, <2>16,
             <2>17, <2>18 DEF Steps, WorkerStep
<1>4. ASSUME NEW v \in Worker, v # w, Steps(v) PROVE run'[w] = r
  BY <1>4, WorkersMoveRuns DEF Steps
<1> HIDE DEF Goal
<1> QED BY <1>2, <1>3, <1>4
        DEF Goal, Next, Steps, vars, Enqueue, Ask, CallEnds, LeaseLapses, RetryFallsDue

(* How a run ends of its own accord: with a last write, which clears its claim,
   without its claim, or at one of the two returns that leave it. *)
RunEndsWell(w) ==
  \/ \E state \in {"completed", "cancelled"} : Store!Finish(Held(run[w]), state)
  \/ \E retryable \in BOOLEAN : Store!FailOrRetry(Held(run[w]), retryable)
  \/ ~ Mine(w) /\ UNCHANGED rows
  \/ At(w, "save") /\ MyRow(w).state # "planning" /\ UNCHANGED rows
  \/ At(w, "apply") /\ run[w].event = "progress" /\ ~ AllBlobsPlanned

LEMMA RunEnds ==
  ASSUME NEW w \in Worker, RunsOK, MemoryOK, Busy(w), OuterOK, Steps(w), ~ Busy(w)', left' = left
  PROVE  RunEndsWell(w)
<1> DEFINE r == run[w]
           Goal == RunEndsWell(w)
<1> run \in [Worker -> Run] /\ r \in Run /\ RunOK(r) /\ r.pc \in InExecute
  BY DEF RunsOK, Busy
<1>1. r.outer => r.pc \in {"record", "fail"}
  BY DEF OuterOK
<1>gone. Mine(w) => Exists(MyRow(w))
  BY DEF Mine, HeldBy
<1>2. ASSUME NEW s, Becomes(w, s) PROVE run'[w] = s
  BY <1>2 DEF Becomes
<1>ended. run'[w].pc \notin InExecute
  BY DEF Busy
<1>3. ASSUME NEW pc, Goes(w, pc) PROVE pc \notin InExecute
  <2>1. run'[w] = [r EXCEPT !.pc = pc]
    BY <1>2, <1>3 DEF Goes
  <2> QED BY <1>ended, <2>1 DEF Run
<1>4. ASSUME Raises(w) PROVE r.pc = "claimed" \/ r.outer
  <2>1. run'[w] = Raised(r)
    BY <1>2, <1>4 DEF Raises
  <2>2. r.pc # "claim"
    BY DEF InExecute
  <2> QED BY <1>ended, <2>1, <2>2 DEF Raised, Idle, InExecute
<1>5. ASSUME NEW pc, NEW retryable, LeavesStream(w, pc, retryable) PROVE pc \notin InExecute
  <2>1. run'[w] = [r EXCEPT !.pc = pc, !.digest = Null, !.stage = "none", !.event = "none",
                            !.retryable = retryable]
    BY <1>2, <1>5 DEF LeavesStream
  <2> QED BY <1>ended, <2>1 DEF Run
<1>6. ~ Spends("faults")
  <2>1. left \in [asks : 0 .. MaxAsks, faults : 0 .. MaxFaults] /\ MaxFaults \in Nat
    BY BoundsAreNumbers DEF MemoryOK
  <2> QED BY <2>1 DEF Spends
<1>7. ~ (StoreBusy(w) \/ HeartbeatBusy(w) \/ Crash(w))
  BY <1>6 DEF StoreBusy, HeartbeatBusy, Crash
<1>8. ~ Heartbeat(w)
  <2>1. ~ UNCHANGED run
    BY DEF Busy
  <2>2. ~ Becomes(w, [r EXCEPT !.beating = FALSE])
    BY <1>2, <1>ended DEF Run
  <2> QED BY <2>1, <2>2 DEF Heartbeat
<1>9. ~ ClaimNothing(w) /\ \A j \in JobId : ~ ClaimJob(w, j)
  BY DEF ClaimNothing, ClaimJob, At, InExecute
<1>10. CASE ReadClaimed(w)
  <2>1. ~ Becomes(w, [r EXCEPT !.pc = "details", !.beating = TRUE])
    BY <1>2, <1>ended DEF Run, InExecute
  <2> QED BY <1>gone, <1>10, <2>1 DEF ReadClaimed, OnlyRun, RunEndsWell
<1>11. ~ ReadDetails(w)
  BY <1>1, <1>3, <1>4, <1>5 DEF ReadDetails, Catches, At, InExecute
<1>12. ~ ReadSnapshot(w)
  <2>1. ASSUME NEW d, Becomes(w, [r EXCEPT !.pc = "copy", !.digest = d]) PROVE FALSE
    BY <1>2, <1>ended, <2>1 DEF Run, InExecute
  <2> QED BY <1>3, <2>1 DEF ReadSnapshot, InExecute
<1>13. ~ Plan(w)
  <2>1. ASSUME NEW d, Becomes(w, [r EXCEPT !.pc = "save", !.digest = d]) PROVE FALSE
    BY <1>2, <1>ended, <2>1 DEF Run, InExecute
  <2> QED BY <1>1, <1>4, <1>5, <2>1 DEF Plan, Catches, At, InExecute
<1>14. CASE SaveSnapshot(w)
  BY <1>3, <1>14 DEF SaveSnapshot, OnlyRun, InExecute, RunEndsWell
<1>15. ~ OpenStream(w)
  <2>1. ~ Becomes(w, [r EXCEPT !.pc = "stream", !.stage = "opened"])
    BY <1>2, <1>ended DEF Run, InExecute
  <2> QED BY <1>1, <1>4, <2>1 DEF OpenStream, At
<1>16. ~ Receive(w)
  <2>1. ASSUME NEW e, NEW g, Becomes(w, [r EXCEPT !.pc = "check", !.event = e, !.stage = g])
        PROVE  FALSE
    BY <1>2, <1>ended, <2>1 DEF Run, InExecute
  <2>2. ASSUME NEW e, NEW b, Becomes(w, [r EXCEPT !.pc = "check", !.event = e, !.retryable = b])
        PROVE  FALSE
    BY <1>2, <1>ended, <2>2 DEF Run, InExecute
  <2> QED BY <1>5, <2>1, <2>2 DEF Receive, Catches, InExecute
<1>17. ~ CheckEvent(w)
  <2>1. At(w, "check") =>
          r.event \in {"copying", "progress", "verifying", "failed", "completed"}
    BY DEF At, RunOK, Run, Event
  <2> QED BY <1>3, <1>5, <2>1 DEF CheckEvent, Catches, Stops, InExecute
<1>18. CASE ApplyEvent(w)
  <2>1. ~ Becomes(w, [r EXCEPT !.pc = "stream", !.event = "none"])
    BY <1>2, <1>ended DEF Run, InExecute
  <2> QED BY <1>18, <2>1 DEF ApplyEvent, OnlyRun, RunEndsWell
<1>19. ~ (StopOperation(w) \/ LastPhase(w))
  BY <1>1, <1>3, <1>4, <1>5 DEF StopOperation, LastPhase, Catches, At, InExecute
<1>20. ~ HandleError(w)
  BY <1>1, <1>3, <1>4, <1>5 DEF HandleError, Stops, At, InExecute
<1>21. CASE ReadFailure(w)
  <2>1. ASSUME NEW b, Becomes(w, [r EXCEPT !.pc = "fail", !.retryable = b]) PROVE FALSE
    BY <1>2, <1>ended, <2>1 DEF Run, InExecute
  <2> QED BY <1>gone, <1>21, <2>1 DEF ReadFailure, OnlyRun, RunEndsWell
<1>22. CASE FinishCancelled(w) \/ FinishCompleted(w)
  BY <1>22 DEF FinishCancelled, FinishCompleted, RunEndsWell
<1>23. CASE RecordFailure(w)
  BY <1>gone, <1>23 DEF RecordFailure, OnlyRun, Run, RunEndsWell
<1> QED BY <1>7, <1>8, <1>9, <1>10, <1>11, <1>12, <1>13, <1>14, <1>15, <1>16, <1>17, <1>18,
           <1>19, <1>20, <1>21, <1>22, <1>23 DEF Steps, WorkerStep

(* A run that ends of its own accord leaves no claim behind but at the two
   returns of _execute that EndedRunHoldsNothing names, whatever calls, faults
   and take-overs came before. *)
THEOREM EndedRunsHoldNothing == Spec => EndedRunHoldsNothing
<1>1. Init => PlanningOK /\ OuterOK
  BY DEF Init, PlanningOK, Planning, OuterOK, Busy, Idle, InExecute
<1>2. EInv /\ [Next]_vars => PlanningOK' /\ OuterOK'
  BY PlanningStep, OuterStep DEF EInv
<1> DEFINE Left(w) == \/ At(w, "save")
                         /\ MyRow(w).state \in {"cancel_requested", "cancelled", "queued"}
                      \/ At(w, "apply") /\ run[w].event = "progress" /\ ~ AllBlobsPlanned
<1>3. EInv /\ [Next]_vars =>
        [\A w \in Worker :
           Busy(w) /\ ~ Busy(w)' /\ left' = left /\ HeldBy(rows'[run[w].job], run[w].token)
             => Left(w)]_vars
  <2> SUFFICES ASSUME EInv, [Next]_vars, NEW w \in Worker,
                      Busy(w), ~ Busy(w)', left' = left, HeldBy(rows'[run[w].job], run[w].token)
               PROVE  Left(w)
    OBVIOUS
  <2> USE DEF EInv, IInv
  <2>1. Steps(w)
    BY OthersLeave DEF Busy
  <2>2. /\ run[w].job \in JobId /\ run[w].token \in Token /\ run[w].token # Null
        /\ rows \in [JobId -> Row] /\ RowOK(MyRow(w)) /\ MyRow(w) \in Row
    BY NullIsNoValue DEF RunsOK, RunOK, Busy, RowsOK, MyRow
  <2>3. RunEndsWell(w)
    BY <2>1, RunEnds
  <2>4. ~ \/ \E state \in {"completed", "cancelled"} : Store!Finish(Held(run[w]), state)
          \/ \E retryable \in BOOLEAN : Store!FailOrRetry(Held(run[w]), retryable)
    <3> SUFFICES ASSUME \/ \E state \in {"completed", "cancelled"} :
                             Store!Finish(Held(run[w]), state)
                        \/ \E retryable \in BOOLEAN : Store!FailOrRetry(Held(run[w]), retryable)
                 PROVE  FALSE
      OBVIOUS
    <3>1. PICK s : /\ rows' = [rows EXCEPT ![run[w].job] = s]
                   /\ \/ \E state \in {"completed", "cancelled"} : s = Finished(MyRow(w), state)
                      \/ \E retryable \in BOOLEAN : s = Failed(MyRow(w), retryable)
      BY SameStatements DEF Store!Finish, Store!FailOrRetry, Store!HolderWrites, Held, MyRow
    <3>2. s.token = Null
      <4>1. WithoutClaim(MyRow(w)) \in Row /\ WithoutClaim(MyRow(w)).token = Null
        BY <2>2, UnclaimedIsRow
      <4> QED BY <3>1, <4>1 DEF Finished, Failed, Row
    <3> QED BY <2>2, <3>1, <3>2 DEF HeldBy
  <2>5. ~ (~ Mine(w) /\ UNCHANGED rows)
    BY DEF Mine, MyRow
  <2>6. CASE At(w, "save") /\ MyRow(w).state # "planning" /\ UNCHANGED rows
    <3>1. Mine(w) /\ Planning(w) /\ run[w].pc = "save"
      BY <2>5, <2>6 DEF PlanningOK, At
    <3> QED BY <2>6, <3>1 DEF Planning, Unsaved
  <2> QED BY <2>3, <2>4, <2>5, <2>6 DEF RunEndsWell
<1>4. Spec => [](IInv /\ OneRunPerToken)
  BY Invariance, TokensFenceRuns, PTL
<1>5. IInv /\ OneRunPerToken /\ PlanningOK /\ OuterOK <=> EInv
  BY DEF EInv
<1>6. Spec => []EInv
  BY <1>1, <1>2, <1>4, <1>5, PTL DEF Spec
<1> QED BY <1>3, <1>6, PTL DEF Spec, EndedRunHoldsNothing

=============================================================================
