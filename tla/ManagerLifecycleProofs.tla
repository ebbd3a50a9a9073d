------------------------ MODULE ManagerLifecycleProofs ------------------------
(***************************************************************************)
(* Proofs about ManagerLifecycle, for any number of jobs, workers and      *)
(* tokens and any number of starts and closes.  Worker tasks and the       *)
(* statements that outlived one are the same kind of record: what either   *)
(* may do to the table is RecordMoves.  The invariant says of each task    *)
(* that works that nobody else remembers its token, and that it holds its  *)
(* row while its heartbeat beats.                                          *)
(***************************************************************************)
EXTENDS ManagerLifecycle, JobRowsProofs

(* Without calls of retry, a queued row has no claim. *)
RowLive(r) ==
  /\ RowOK(r)
  /\ r.state = "queued" => r.token = Null

Holding == InExecute \cup {"claimed"}

HasClaim == Holding \cup {"release"}

TaskOK(r) ==
  /\ r \in Task
  /\ r.pc \in HasClaim => r.job \in JobId /\ r.token \in Token
  /\ r.pc \notin HasClaim => r.token = Null
  /\ r.pc = "save" => r.digest \in Digest

RowsOK == rows \in [JobId -> Row] /\ \A j \in JobId : RowLive(rows[j])

RecordsOK ==
  /\ task \in [Worker -> Task] /\ \A w \in Worker : TaskOK(task[w])
  /\ threads \in [Slot -> Task]
  /\ \A k \in Slot : TaskOK(threads[k])
  /\ \A k \in Slot : threads[k].pc \in Writes \cup {"gone", "claim", "claimed"}

-----------------------------------------------------------------------------
(* The instance of JobStore has the statements of JobRows. *)
LEMMA SameStatements ==
  /\ \A d : Store!QueuedRow(d) = QueuedRow(d)
  /\ \A r, t : Store!HeldBy(r, t) <=> HeldBy(r, t)
  /\ \A r : Store!Swept(r) = Swept(r)
  /\ \A r : Store!Claimable(r) <=> Claimable(r)
  /\ \A r, w, t : Store!Claimed(r, w, t) = Claimed(r, w, t)
  /\ \A r, d : Store!Pinned(r, d) = Pinned(r, d)
  /\ \A r, phase : Store!InPhase(r, phase) = InPhase(r, phase)
  /\ \A r, state : Store!Finished(r, state) = Finished(r, state)
  /\ \A r, retryable : Store!Failed(r, retryable) = Failed(r, retryable)
  /\ \A r : Store!Released(r) = Released(r)
  /\ Store!RUNNING = RUNNING
BY DEF Store!QueuedRow, QueuedRow, Store!NoRow, NoRow, Store!Exists, Exists, Store!GONE, GONE,
       Store!HeldBy, HeldBy, Store!Swept, Swept, Store!Sweepable, Sweepable,
       Store!WithoutClaim, WithoutClaim, Store!Claimable, Claimable, Store!RUNNING, RUNNING,
       Store!Claimed, Claimed, Store!Pinned, Pinned, Store!InPhase, InPhase,
       Store!Finished, Finished, Store!Failed, Failed, Store!Released, Released

(* The sweep clears claims, but none whose lease is current. *)
LEMMA SweptLive ==
  ASSUME NEW r, RowLive(r)
  PROVE  /\ RowLive(Swept(r))
         /\ Swept(r) = r \/ Swept(r).token = Null
         /\ r.token # Null /\ r.lease = "future" => Swept(r) = r
<1>1. RowOK(Swept(r))
  BY SweptOK DEF RowLive
<1>2. Sweepable(r) => Swept(r).token = Null /\ Swept(r).state = "cancelled"
  BY UnclaimedIsRow DEF RowLive, Swept, Row
<1>3. ~ Sweepable(r) => Swept(r) = r
  BY DEF Swept
<1>4. r.token # Null /\ r.lease = "future" => ~ Sweepable(r)
  BY DEF RowLive, RowOK, Sweepable
<1> QED BY <1>1, <1>2, <1>3, <1>4 DEF RowLive

Sweeping == rows' = [j \in JobId |-> Swept(rows[j])]

(* claim sweeps, and takes one job. *)
ClaimMoves(w, j, t) ==
  /\ Claimable(rows[j]) /\ Store!Unused(t)
  /\ rows' = [[i \in JobId |-> Swept(rows[i])] EXCEPT ![j] = Claimed(rows[j], w, t)]

LEMMA ClaimStatements ==
  /\ Store!ClaimNothing => Sweeping
  /\ \A w, j, t : Store!ClaimJob(w, j, t) => ClaimMoves(w, j, t)
<1>1. Store!AfterSweep = [j \in JobId |-> Swept(rows[j])]
  BY SameStatements DEF Store!AfterSweep
<1>2. ASSUME Store!ClaimNothing PROVE Sweeping
  BY <1>1, <1>2 DEF Store!ClaimNothing, Sweeping
<1>3. ASSUME NEW w, NEW j, NEW t, Store!ClaimJob(w, j, t) PROVE ClaimMoves(w, j, t)
  BY <1>1, <1>3, SameStatements DEF Store!ClaimJob, Store!Due, ClaimMoves
<1> QED BY <1>2, <1>3

(* What a holder makes of its row.  The first two keep the claim. *)
WroteOn(r, s) ==
  \/ r.state = "planning" /\ \E d \in Digest : s = Pinned(r, d)
  \/ s = InPhase(r, "verifying")

WroteLast(r, s) ==
  \/ \E state \in {"completed", "cancelled"} : s = Finished(r, state)
  \/ \E retryable \in BOOLEAN : s = Failed(r, retryable)
  \/ r.state \in RUNNING /\ s = Released(r)

HolderMoves(r, s) ==
  /\ HeldBy(rows[r.job], r.token)
  /\ rows' = [rows EXCEPT ![r.job] = s]

LEMMA HolderStatements ==
  ASSUME NEW r
  PROVE  /\ \A d \in Digest : Store!SaveSnapshot(Held(r), d) =>
               \E s : HolderMoves(r, s) /\ WroteOn(rows[r.job], s)
         /\ Store!ProgressPhase(Held(r), "verifying") =>
               \E s : HolderMoves(r, s) /\ WroteOn(rows[r.job], s)
         /\ \A state \in {"completed", "cancelled"} : Store!Finish(Held(r), state) =>
               \E s : HolderMoves(r, s) /\ WroteLast(rows[r.job], s)
         /\ \A b \in BOOLEAN : Store!FailOrRetry(Held(r), b) =>
               \E s : HolderMoves(r, s) /\ WroteLast(rows[r.job], s)
         /\ Store!ReleaseClaim(Held(r)) =>
               \E s : HolderMoves(r, s) /\ WroteLast(rows[r.job], s)
<1> USE SameStatements DEF Store!HolderWrites, Held, HolderMoves, WroteOn, WroteLast
<1>1. ASSUME NEW d \in Digest, Store!SaveSnapshot(Held(r), d)
      PROVE  HolderMoves(r, Pinned(rows[r.job], d)) /\ WroteOn(rows[r.job], Pinned(rows[r.job], d))
  BY <1>1 DEF Store!SaveSnapshot
<1>2. ASSUME Store!ProgressPhase(Held(r), "verifying")
      PROVE  HolderMoves(r, InPhase(rows[r.job], "verifying"))
  BY <1>2 DEF Store!ProgressPhase
<1>3. ASSUME NEW state \in {"completed", "cancelled"}, Store!Finish(Held(r), state)
      PROVE  HolderMoves(r, Finished(rows[r.job], state))
  BY <1>3 DEF Store!Finish
<1>4. ASSUME NEW b \in BOOLEAN, Store!FailOrRetry(Held(r), b)
      PROVE  HolderMoves(r, Failed(rows[r.job], b))
  BY <1>4 DEF Store!FailOrRetry
<1>5. ASSUME Store!ReleaseClaim(Held(r))
      PROVE  HolderMoves(r, Released(rows[r.job])) /\ rows[r.job].state \in RUNNING
  BY <1>5 DEF Store!ReleaseClaim
<1> QED BY <1>1, <1>2, <1>3, <1>4, <1>5

(* A running row whose claim is kept, and one whose claim is cleared. *)
LEMMA WroteOnLive ==
  ASSUME NEW r, NEW s, RowLive(r), r.token # Null, WroteOn(r, s)
  PROVE  RowLive(s) /\ s.state \in RUNNING /\ s.token = r.token /\ s.lease = r.lease
<1>1. RowOK(s)
  BY PinnedOK, InPhaseOK DEF RowLive, WroteOn
<1>2. s.state \in RUNNING \ {"planning"} /\ s.token = r.token /\ s.lease = r.lease
  BY DEF WroteOn, RowLive, RowOK, Row, Pinned, InPhase, RUNNING, ACTIVE
<1> QED BY <1>1, <1>2 DEF RowLive, RUNNING

LEMMA WroteLastLive ==
  ASSUME NEW r, NEW s, RowLive(r), WroteLast(r, s)
  PROVE  RowLive(s) /\ s.token = Null
<1>1. RowOK(s)
  BY FinishedOK, FailedOK, ReleasedOK DEF RowLive, WroteLast
<1>2. WithoutClaim(r).token = Null /\ WithoutClaim(r) \in Row
  BY UnclaimedIsRow DEF RowLive
<1>3. s.token = Null
  BY <1>2 DEF WroteLast, Finished, Failed, Released, Row
<1> QED BY <1>1, <1>3 DEF RowLive

-----------------------------------------------------------------------------
(* A job can afford the retryable failure that r is about to record. *)
Affords(r, table, counts) ==
  r.pc = "fail" /\ r.retryable /\ table[r.job].token = r.token => counts[r.job] < MaxRetries

FailuresOK == failures \in [JobId -> 0 .. MaxRetries]

(* What a record, of a task or of a statement left behind, does to the table:
   nothing, a claim, or a write as the holder, which only the last one counts. *)
Claims(r) ==
  /\ r.pc = "claim"
  /\ \E w \in Worker, j \in JobId, t \in Token : ClaimMoves(w, j, t)
  /\ UNCHANGED failures

WritesOn(r) ==
  /\ r.pc \in HasClaim
  /\ \E s : HolderMoves(r, s) /\ WroteOn(rows[r.job], s)
  /\ UNCHANGED failures

WritesLast(r) ==
  /\ r.pc \in HasClaim
  /\ \E s : HolderMoves(r, s) /\ WroteLast(rows[r.job], s)
  /\ UNCHANGED failures \/ (r.pc = "fail" /\ Counts(r))

RecordMoves(r) ==
  \/ UNCHANGED failures /\ (UNCHANGED rows \/ Sweeping)
  \/ Claims(r) \/ WritesOn(r) \/ WritesLast(r)

(* A token nobody has had. *)
LEMMA FreshToken ==
  ASSUME NEW t \in Token, Store!Unused(t)
  PROVE  /\ \A j \in JobId : rows[j].token # t
         /\ \A k \in Slot : threads[k].token # t
         /\ \A w \in Worker : task[w].token # t
<1>1. \A r \in Records : r.token # Null => Held(r) \in Remembered
  BY DEF Remembered
<1>2. \A r : Held(r).token = r.token
  BY DEF Held
<1>3. t # Null
  BY NullIsNoValue
<1>4. \A c \in Remembered : c.token # t
  BY DEF Store!Unused
<1>5. \A r \in Records : r.token # t
  BY <1>1, <1>2, <1>3, <1>4
<1> QED BY <1>5 DEF Store!Unused, Records

(* A claim gives a row a token and a lease. *)
LEMMA ClaimedRow ==
  ASSUME NEW r, RowLive(r), NEW w \in Worker, NEW t \in Token
  PROVE  /\ RowLive(Claimed(r, w, t))
         /\ Claimed(r, w, t).token = t /\ Claimed(r, w, t).lease = "future"
         /\ Claimed(r, w, t).state \in RUNNING
<1>1. RowOK(Claimed(r, w, t))
  BY ClaimedOK DEF RowLive
<1>2. /\ Claimed(r, w, t).token = t /\ Claimed(r, w, t).lease = "future"
      /\ Claimed(r, w, t).state \in {"planning", "copying"}
  BY DEF RowLive, RowOK, Row, Claimed
<1> QED BY <1>1, <1>2 DEF RowLive, RUNNING

(* What this comes to for one row: nothing; it loses its claim; its holder
   runs on; or it is claimed. *)
Loses(r, i) ==
  /\ rows'[i].token = Null
  /\ r.token = rows[i].token \/ rows[i].token = Null \/ rows[i].lease # "future"

RunsOn(r, i) ==
  /\ r.token = rows[i].token /\ rows[i].token # Null
  /\ rows'[i].state \in RUNNING
  /\ rows'[i].token = rows[i].token /\ rows'[i].lease = rows[i].lease

IsClaimed(i) ==
  /\ Claimable(rows[i])
  /\ rows'[i].state \in RUNNING
  /\ rows'[i].token \in Token /\ Store!Unused(rows'[i].token)

LEMMA SweepMoves ==
  ASSUME RowsOK, NEW r, NEW i \in JobId, rows'[i] = Swept(rows[i])
  PROVE  RowLive(rows'[i]) /\ (rows'[i] = rows[i] \/ Loses(r, i))
<1>1. RowLive(rows[i])
  BY DEF RowsOK
<1>2. /\ RowLive(Swept(rows[i]))
      /\ Swept(rows[i]) = rows[i] \/ Swept(rows[i]).token = Null
      /\ rows[i].token # Null /\ rows[i].lease = "future" => Swept(rows[i]) = rows[i]
  BY <1>1, SweptLive
<1> QED BY <1>2 DEF Loses

LEMMA HolderMovesRow ==
  ASSUME RowsOK, NEW r, TaskOK(r), WritesOn(r) \/ WritesLast(r)
  PROVE  /\ rows' \in [JobId -> Row]
         /\ \A i \in JobId :
              /\ RowLive(rows'[i])
              /\ rows'[i] = rows[i] \/ Loses(r, i) \/ RunsOn(r, i)
         /\ WritesLast(r) => r.job \in JobId /\ rows'[r.job].token = Null
<1>1. r.job \in JobId /\ r.token \in Token /\ r.token # Null
  BY NullIsNoValue DEF WritesOn, WritesLast, TaskOK
<1>2. RowLive(rows[r.job])
  BY <1>1 DEF RowsOK
<1>3. ASSUME NEW s, HolderMoves(r, s), RowLive(s)
      PROVE  /\ rows' \in [JobId -> Row] /\ rows'[r.job] = s
             /\ \A i \in JobId : RowLive(rows'[i]) /\ (i # r.job => rows'[i] = rows[i])
             /\ rows[r.job].token = r.token
  BY <1>1, <1>3 DEF HolderMoves, HeldBy, RowsOK, RowLive, RowOK
<1>4. CASE WritesOn(r)
  <2>1. PICK s : HolderMoves(r, s) /\ WroteOn(rows[r.job], s)
    BY <1>4 DEF WritesOn
  <2>2. rows[r.job].token = r.token
    BY <2>1 DEF HolderMoves, HeldBy
  <2>3. /\ RowLive(s) /\ s.state \in RUNNING
        /\ s.token = rows[r.job].token /\ s.lease = rows[r.job].lease
    BY <1>1, <1>2, <2>1, <2>2, WroteOnLive
  <2>4. RunsOn(r, r.job)
    BY <1>1, <1>3, <2>1, <2>2, <2>3 DEF RunsOn
  <2>5. \A i \in JobId : RowLive(rows'[i]) /\ (rows'[i] = rows[i] \/ RunsOn(r, i))
    BY <1>3, <2>1, <2>3, <2>4
  <2>6. rows' \in [JobId -> Row]
    BY <1>3, <2>1, <2>3
  <2>7. ~ WritesLast(r)
    <3> SUFFICES ASSUME WritesLast(r) PROVE FALSE
      OBVIOUS
    <3>1. PICK x : HolderMoves(r, x) /\ WroteLast(rows[r.job], x)
      BY DEF WritesLast
    <3>2. RowLive(x) /\ x.token = Null
      BY <1>2, <3>1, WroteLastLive
    <3>3. rows'[r.job] = s /\ rows'[r.job] = x
      BY <1>3, <2>1, <2>3, <3>1, <3>2
    <3> QED BY <1>1, <2>2, <2>3, <3>2, <3>3
  <2> QED BY <2>5, <2>6, <2>7
<1>5. CASE WritesLast(r)
  <2>1. PICK s : HolderMoves(r, s) /\ WroteLast(rows[r.job], s)
    BY <1>5 DEF WritesLast
  <2>2. RowLive(s) /\ s.token = Null
    BY <1>2, <2>1, WroteLastLive
  <2>3. Loses(r, r.job) /\ rows'[r.job].token = Null
    BY <1>1, <1>3, <2>1, <2>2 DEF Loses
  <2> QED BY <1>1, <1>3, <2>1, <2>2, <2>3
<1> QED BY <1>4, <1>5

LEMMA RowMoves ==
  ASSUME RowsOK, NEW r, TaskOK(r), RecordMoves(r)
  PROVE  /\ rows' \in [JobId -> Row]
         /\ \A i \in JobId :
              /\ RowLive(rows'[i])
              /\ rows'[i] = rows[i] \/ Loses(r, i) \/ RunsOn(r, i) \/ IsClaimed(i)
<1>1. CASE UNCHANGED rows
  BY <1>1 DEF RowsOK
<1>2. CASE Sweeping
  <2>1. \A i \in JobId : rows'[i] = Swept(rows[i])
    BY <1>2 DEF Sweeping
  <2>2. \A i \in JobId : RowLive(rows'[i]) /\ (rows'[i] = rows[i] \/ Loses(r, i))
    BY <2>1, SweepMoves
  <2>3. rows' \in [JobId -> Row]
    BY <1>2, <2>1, <2>2 DEF Sweeping, RowLive, RowOK
  <2> QED BY <2>2, <2>3
<1>3. CASE Claims(r)
  <2>1. PICK w \in Worker, j \in JobId, t \in Token : ClaimMoves(w, j, t)
    BY <1>3 DEF Claims
  <2>2. /\ rows'[j] = Claimed(rows[j], w, t)
        /\ \A i \in JobId : i # j => rows'[i] = Swept(rows[i])
    BY <2>1 DEF ClaimMoves
  <2>3. /\ RowLive(rows'[j]) /\ rows'[j].token = t /\ rows'[j].state \in RUNNING
    BY <2>2, ClaimedRow DEF RowsOK
  <2>4. IsClaimed(j)
    BY <2>1, <2>3 DEF ClaimMoves, IsClaimed
  <2>5. \A i \in JobId : i # j => RowLive(rows'[i]) /\ (rows'[i] = rows[i] \/ Loses(r, i))
    BY <2>2, SweepMoves
  <2>6. \A i \in JobId : RowLive(rows'[i])
    BY <2>3, <2>5
  <2>7. rows' \in [JobId -> Row]
    BY <2>1, <2>6 DEF ClaimMoves, RowLive, RowOK
  <2> QED BY <2>4, <2>5, <2>6, <2>7
<1>4. CASE WritesOn(r) \/ WritesLast(r)
  BY <1>4, HolderMovesRow
<1> QED BY <1>1, <1>2, <1>3, <1>4 DEF RecordMoves

(* Whatever a record does, the table stays in order. *)
LEMMA MovesKeepRows ==
  ASSUME RowsOK, NEW r, TaskOK(r), RecordMoves(r) PROVE RowsOK'
BY RowMoves DEF RowsOK

(* It leaves the claim of another token alone while the lease is current. *)
LEMMA OthersKeep ==
  ASSUME RowsOK, NEW r, TaskOK(r), RecordMoves(r),
         NEW i \in JobId, rows[i].token \in Token, rows[i].lease = "future",
         r.token # rows[i].token
  PROVE  rows'[i].token = rows[i].token /\ rows'[i].lease = "future"
<1>1. rows[i].token # Null /\ ~ Claimable(rows[i])
  BY NullIsNoValue DEF RowsOK, RowLive, RowOK, Claimable
<1> QED BY <1>1, RowMoves DEF Loses, RunsOn, IsClaimed

(* A row keeps its token or loses it, unless it is claimed. *)
LEMMA TokensMove ==
  ASSUME RowsOK, NEW r, TaskOK(r), RecordMoves(r), NEW i \in JobId
  PROVE  \/ rows'[i].token \in {rows[i].token, Null}
         \/ /\ rows'[i].token \in Token
            /\ Store!Unused(rows'[i].token)
BY RowMoves DEF Loses, RunsOn, IsClaimed

(* A claim on a job that a cancel has settled is there because the cancel
   was written. *)
CancelsOK ==
  \A j \in JobId :
    rows[j].state \in {"cancelled", "cancel_requested"} /\ rows[j].token # Null =>
      cancels[j] \in {"operation", "done"}

LEMMA MovesKeepCancels ==
  ASSUME RowsOK, CancelsOK, NEW r, TaskOK(r), RecordMoves(r), UNCHANGED cancels
  PROVE  CancelsOK'
BY RowMoves DEF CancelsOK, Loses, RunsOn, IsClaimed, RUNNING

(* Failures are counted within the budget, *)
LEMMA FailuresCounted ==
  ASSUME FailuresOK, NEW r, TaskOK(r), Affords(r, rows, failures), RecordMoves(r)
  PROVE  FailuresOK'
<1>1. CASE UNCHANGED failures
  BY <1>1 DEF FailuresOK
<1>2. CASE r.pc = "fail" /\ Counts(r) /\ \E s : HolderMoves(r, s)
  <2>1. r.job \in JobId /\ (r.retryable => failures[r.job] < MaxRetries)
    BY <1>2 DEF TaskOK, HasClaim, Holding, InExecute, Writes, HolderMoves, HeldBy, Affords
  <2>2. failures[r.job] + 1 \in 0 .. MaxRetries \/ ~ r.retryable
    BY <2>1, BoundsAreNumbers DEF FailuresOK
  <2> QED BY <1>2, <2>1, <2>2 DEF Counts, FailuresOK
<1> QED BY <1>1, <1>2 DEF RecordMoves, Claims, WritesOn, WritesLast

(* and a failure that is counted takes nobody's budget. *)
LEMMA OthersAfford ==
  ASSUME RowsOK, FailuresOK, NEW r, TaskOK(r), RecordMoves(r),
         NEW s, TaskOK(s), Affords(s, rows, failures),
         \A t \in Token : Store!Unused(t) => s.token # t
  PROVE  Affords(s, rows', failures')
<1> SUFFICES ASSUME s.pc = "fail", s.retryable, rows'[s.job].token = s.token
             PROVE  failures'[s.job] < MaxRetries
  BY DEF Affords
<1>1. s.job \in JobId /\ s.token \in Token /\ s.token # Null
  BY NullIsNoValue DEF TaskOK, HasClaim, Holding, InExecute, Writes
<1>2. rows[s.job].token = s.token
  BY <1>1, TokensMove
<1>3. failures[s.job] < MaxRetries
  BY <1>2 DEF Affords
<1>4. CASE UNCHANGED failures
  BY <1>3, <1>4
<1>5. CASE WritesLast(r) /\ Counts(r)
  <2>1. r.job \in JobId /\ r.job # s.job
    BY <1>1, <1>5, HolderMovesRow
  <2> QED BY <1>1, <1>3, <1>5, <2>1 DEF Counts, FailuresOK
<1> QED BY <1>4, <1>5 DEF RecordMoves, Claims, WritesOn, WritesLast

-----------------------------------------------------------------------------
(* The three kinds of worker steps: a task gets a claim, goes on with it, or
   has none afterwards. *)
Begins(w) ==
  \E j \in JobId, t \in Token :
    /\ At(w, "claim")
    /\ ClaimMoves(w, j, t)
    /\ Becomes(w, [NoTask EXCEPT !.pc = "claimed", !.job = j, !.token = t])
    /\ UNCHANGED failures

Continues(w) ==
  \E r :
    /\ task[w].pc \in Holding
    /\ UNCHANGED <<rows, failures>> \/ WritesOn(task[w])
    /\ Becomes(w, r)
    /\ TaskOK(r) /\ r.pc \in Holding
    /\ r.job = task[w].job /\ r.token = task[w].token
    /\ task[w].stopped => r.stopped
    /\ r.pc = "fail" /\ r.retryable =>
         failures[r.job] < MaxRetries \/ (At(w, "fail") /\ task[w].retryable)

Ends(w) ==
  \E r :
    /\ ~ At(w, "gone")
    /\ At(w, "release") => r.pc = "gone"
    /\ RecordMoves(task[w])
    /\ Becomes(w, r)
    /\ TaskOK(r) /\ r.pc \in {"gone", "claim", "wait"}

(* A task without a claim. *)
LEMMA IdleOK ==
  ASSUME NEW pc \in {"gone", "claim", "wait"}
  PROVE  /\ TaskOK([NoTask EXCEPT !.pc = pc])
         /\ [NoTask EXCEPT !.pc = pc].pc = pc
         /\ TaskOK(NoTask) /\ NoTask.pc = "gone" /\ NoTask.token = Null
BY DEF TaskOK, Task, NoTask, HasClaim, Holding, InExecute, Writes

(* A task that knows nothing but its claim. *)
LEMMA ClaimOnlyOK ==
  ASSUME NEW j \in JobId, NEW t \in Token, NEW pc \in {"claimed", "release"}
  PROVE  TaskOK([NoTask EXCEPT !.pc = pc, !.job = j, !.token = t])
BY DEF TaskOK, Task, NoTask, HasClaim, Holding, InExecute, Writes

(* Idle tasks look for a claim or sleep. *)
LEMMA IdleSteps ==
  ASSUME NEW w \in Worker, TaskOK(task[w]),
         ClaimNothing(w) \/ Wake(w) \/ \E j \in JobId : ClaimJob(w, j)
  PROVE  Begins(w) \/ Ends(w)
<1>1. CASE ClaimNothing(w)
  <2>1. /\ At(w, "claim") /\ Sweeping /\ UNCHANGED failures
        /\ Becomes(w, [task[w] EXCEPT !.pc = "wait"])
    BY <1>1, ClaimStatements DEF ClaimNothing, Goes
  <2>2. TaskOK([task[w] EXCEPT !.pc = "wait"]) /\ [task[w] EXCEPT !.pc = "wait"].pc = "wait"
    BY <2>1 DEF At, TaskOK, Task, HasClaim, Holding, InExecute, Writes
  <2> QED BY <2>1, <2>2 DEF Ends, RecordMoves, At
<1>2. CASE Wake(w)
  BY <1>2, IdleOK DEF Wake, Loops, OnlyTasks, Ends, RecordMoves, At
<1>3. ASSUME NEW j \in JobId, ClaimJob(w, j) PROVE Begins(w)
  <2>1. NewToken \in Token
    BY <1>3 DEF ClaimJob, NewToken
  <2>2. ClaimMoves(w, j, NewToken)
    BY <1>3, ClaimStatements DEF ClaimJob
  <2> QED BY <1>3, <2>1, <2>2 DEF ClaimJob, Begins
<1> QED BY <1>1, <1>2, <1>3

(* The reads, and what _execute and its heartbeat do in memory. *)
LEMMA MemorySteps ==
  ASSUME NEW w \in Worker, TaskOK(task[w]),
         \/ SeeClaim(w) \/ Plan(w) \/ Receive(w) \/ Check(w) \/ ReadFailure(w)
         \/ HeartbeatEnds(w)
  PROVE  Continues(w)
<1> USE DEF HasClaim, Holding, InExecute, Writes
<1>1. UNCHANGED <<rows, failures>> /\ task[w].pc \in Holding
  BY DEF SeeClaim, Plan, Receive, Check, ReadFailure, HeartbeatEnds, OnlyTasks, At
<1>2. ASSUME NEW r, Becomes(w, r), r \in Task, r.pc \in Holding,
             r.job = task[w].job, r.token = task[w].token, task[w].stopped => r.stopped,
             r.pc = "save" => r.digest \in Digest,
             r.pc = "fail" /\ r.retryable =>
               failures[r.job] < MaxRetries \/ (At(w, "fail") /\ task[w].retryable)
      PROVE  Continues(w)
  <2>1. TaskOK(r)
    BY <1>1, <1>2 DEF TaskOK
  <2> QED BY <1>1, <1>2, <2>1 DEF Continues
<1>3. task[w] \in Task
  BY DEF TaskOK
<1>4. ASSUME NEW pc \in {"plan", "cancel", "verifying", "error"}, Goes(w, pc) PROVE Continues(w)
  BY <1>2, <1>3, <1>4 DEF Goes, Task
<1>5. ASSUME NEW b \in BOOLEAN, Catches(w, b) PROVE Continues(w)
  BY <1>2, <1>3, <1>5 DEF Catches, Task
<1>6. ASSUME Raises(w) PROVE Continues(w)
  BY <1>2, <1>3, <1>6 DEF Raises, Task
<1>7. CASE SeeClaim(w)
  BY <1>4, <1>7 DEF SeeClaim
<1>8. CASE Plan(w)
  <2>1. ASSUME Opens(w) PROVE Continues(w)
    BY <1>2, <1>3, <2>1 DEF Opens, Task
  <2>2. ASSUME NEW d \in Digest, Becomes(w, [task[w] EXCEPT !.pc = "save", !.digest = d])
        PROVE  Continues(w)
    BY <1>2, <1>3, <2>2 DEF Task
  <2> QED BY <1>5, <1>6, <1>8, <2>1, <2>2 DEF Plan
<1>9. CASE Receive(w)
  <2>1. ASSUME NEW e \in {"completed", "none", "cancelled"}, NEW b \in BOOLEAN,
               Becomes(w, [task[w] EXCEPT !.pc = "check", !.event = e, !.retryable = b])
        PROVE  Continues(w)
    <3> DEFINE r == [task[w] EXCEPT !.pc = "check", !.event = e, !.retryable = b]
    <3>1. /\ r \in Task /\ r.pc = "check" /\ r.job = task[w].job /\ r.token = task[w].token
          /\ r.stopped = task[w].stopped
      BY <1>3 DEF Task
    <3>2. Becomes(w, r)
      BY <2>1
    <3> HIDE DEF r
    <3> QED BY <1>2, <3>1, <3>2
  <2> QED BY <1>5, <1>9, <2>1 DEF Receive
<1>10. CASE Check(w)
  BY <1>4, <1>5, <1>6, <1>10 DEF Check
<1>11. CASE ReadFailure(w)
  <2>1. ASSUME NEW b \in {task[w].retryable, FALSE}, b => failures[task[w].job] < MaxRetries,
               Becomes(w, [task[w] EXCEPT !.pc = "fail", !.retryable = b])
        PROVE  Continues(w)
    <3> DEFINE r == [task[w] EXCEPT !.pc = "fail", !.retryable = b]
    <3>1. /\ r \in Task /\ r.pc = "fail" /\ r.job = task[w].job /\ r.token = task[w].token
          /\ r.stopped = task[w].stopped /\ r.retryable = b
      BY <1>3 DEF Task
    <3>2. Becomes(w, r)
      BY <2>1
    <3> HIDE DEF r
    <3> QED BY <1>2, <2>1, <3>1, <3>2
  <2> QED BY <1>4, <1>6, <1>11, <2>1 DEF ReadFailure
<1>12. CASE HeartbeatEnds(w)
  <2> DEFINE r == [task[w] EXCEPT !.stopped = TRUE]
  <2>1. Becomes(w, r)
    BY <1>12 DEF HeartbeatEnds
  <2>2. /\ r \in Task /\ r.pc = task[w].pc /\ r.job = task[w].job /\ r.token = task[w].token
        /\ r.digest = task[w].digest /\ r.retryable = task[w].retryable /\ r.stopped
    BY <1>3 DEF Task
  <2>3. r.pc = "save" => r.digest \in Digest
    BY <2>2 DEF TaskOK
  <2> QED BY <1>1, <1>2, <2>1, <2>2, <2>3 DEF At
<1> QED BY <1>7, <1>8, <1>9, <1>10, <1>11, <1>12

(* The statements of a run; those that find no row end it or go on. *)
LEMMA WriteSteps ==
  ASSUME NEW w \in Worker, TaskOK(task[w]),
         \/ SaveSnapshot(w) \/ LastPhase(w) \/ Finish(w) \/ RecordFailure(w) \/ ReleaseClaim(w)
  PROVE  Continues(w) \/ Ends(w)
<1> USE DEF HasClaim, Holding, InExecute, Writes
<1>1. task[w] \in Task
  BY DEF TaskOK
<1>2. ASSUME ~ At(w, "gone"), ~ At(w, "release"), RecordMoves(task[w]), Loops(w) PROVE Ends(w)
  BY <1>2, IdleOK DEF Loops, Ends
<1>3. CASE SaveSnapshot(w)
  <2> DEFINE r == [task[w] EXCEPT !.pc = "copy", !.digest = Null]
  <2>1. task[w].digest \in Digest /\ At(w, "save") /\ UNCHANGED failures
    BY <1>3 DEF SaveSnapshot, At, TaskOK
  <2>2. CASE Opens(w) /\ Store!SaveSnapshot(Held(task[w]), task[w].digest)
    <3>1. WritesOn(task[w])
      BY <2>1, <2>2, HolderStatements DEF WritesOn, At
    <3>2. Becomes(w, r)
      BY <2>2 DEF Opens
    <3>3. /\ r \in Task /\ r.pc = "copy" /\ r.job = task[w].job /\ r.token = task[w].token
          /\ r.stopped = task[w].stopped
      BY <1>1 DEF Task
    <3>4. TaskOK(r)
      BY <2>1, <3>3 DEF TaskOK, At
    <3> QED BY <2>1, <3>1, <3>2, <3>3, <3>4 DEF Continues, At
  <2>3. CASE Loops(w) /\ UNCHANGED rows
    BY <1>2, <2>1, <2>3 DEF RecordMoves, At
  <2> QED BY <1>3, <2>2, <2>3 DEF SaveSnapshot
<1>4. CASE LastPhase(w)
  <2> DEFINE r == [task[w] EXCEPT !.pc = "finish"]
  <2>1. At(w, "verifying") /\ Becomes(w, r) /\ UNCHANGED failures
    BY <1>4 DEF LastPhase, Goes
  <2>2. UNCHANGED <<rows, failures>> \/ WritesOn(task[w])
    BY <1>4, <2>1, HolderStatements DEF LastPhase, WritesOn, At
  <2>3. /\ r \in Task /\ r.pc = "finish" /\ r.job = task[w].job /\ r.token = task[w].token
        /\ r.stopped = task[w].stopped
    BY <1>1 DEF Task
  <2>4. TaskOK(r)
    BY <2>1, <2>3 DEF TaskOK, At
  <2> QED BY <2>1, <2>2, <2>3, <2>4 DEF Continues, At
<1>5. CASE Finish(w)
  <2>1. Result(task[w]) \in {"completed", "cancelled"}
    BY DEF Result
  <2>2. RecordMoves(task[w])
    BY <1>5, <2>1, HolderStatements DEF Finish, WritesLast, RecordMoves
  <2> QED BY <1>2, <1>5, <2>2 DEF Finish, At
<1>6. CASE RecordFailure(w)
  <2>1. task[w].retryable \in BOOLEAN
    BY <1>1 DEF Task
  <2>2. RecordMoves(task[w])
    BY <1>6, <2>1, HolderStatements DEF RecordFailure, WritesLast, RecordMoves, At
  <2> QED BY <1>2, <1>6, <2>2 DEF RecordFailure, At
<1>7. CASE ReleaseClaim(w)
  <2>1. RecordMoves(task[w]) /\ At(w, "release")
    BY <1>7, HolderStatements DEF ReleaseClaim, RecordMoves, WritesLast, At
  <2>2. TaskOK(NoTask) /\ NoTask.pc = "gone"
    BY IdleOK
  <2> QED BY <1>7, <2>1, <2>2 DEF ReleaseClaim, Ends, At
<1> QED BY <1>3, <1>4, <1>5, <1>6, <1>7

(* Every step of a worker is of one of these kinds. *)
LEMMA WorkerSteps ==
  ASSUME NEW w \in Worker, TaskOK(task[w]), WorkerStep(w)
  PROVE  /\ Begins(w) \/ Continues(w) \/ Ends(w)
         /\ UNCHANGED <<app, threads, cancels>>
<1>1. Begins(w) \/ Continues(w) \/ Ends(w)
  BY IdleSteps, MemorySteps, WriteSteps DEF WorkerStep
<1>2. UNCHANGED <<app, threads, cancels>>
  BY DEF WorkerStep, ClaimNothing, ClaimJob, SeeClaim, Wake, Plan, SaveSnapshot, Receive, Check,
     LastPhase, Finish, ReadFailure, RecordFailure, ReleaseClaim, HeartbeatEnds, OnlyTasks
<1> QED BY <1>1, <1>2

(* A statement that outlived its task moves as the task would have. *)
Answered(j, t) == [NoTask EXCEPT !.pc = "claimed", !.job = j, !.token = t]

LEMMA ThreadSteps ==
  ASSUME RecordsOK, ThreadStep
  PROVE  \E k \in Slot :
           /\ RecordMoves(threads[k])
           /\ \/ ThreadBecomes(k, NoTask)
              \/ \E j \in JobId, t \in Token :
                   Store!Unused(t) /\ ThreadBecomes(k, Answered(j, t))
<1> SUFFICES ASSUME NEW k \in Slot,
                    \/ ThreadWrites(k) \/ ThreadEnds(k)
                    \/ \E w \in Worker, j \in JobId : ThreadClaims(k, w, j)
             PROVE  /\ RecordMoves(threads[k])
                    /\ \/ ThreadBecomes(k, NoTask)
                       \/ \E j \in JobId, t \in Token :
                            Store!Unused(t) /\ ThreadBecomes(k, Answered(j, t))
  BY DEF ThreadStep
<1> DEFINE r == threads[k]
<1>1. TaskOK(r)
  BY DEF RecordsOK
<1>2. CASE ThreadWrites(k)
  <2>1. r.pc \in Writes /\ (r.pc \in Writes => r.pc \in HasClaim)
    BY <1>2 DEF ThreadWrites, HasClaim, Holding, InExecute, Writes
  <2>2. /\ r.retryable \in BOOLEAN /\ (r.pc = "save" => r.digest \in Digest)
        /\ Result(r) \in {"completed", "cancelled"}
    BY <1>1 DEF TaskOK, Task, Result
  <2>3. WritesOn(r) \/ WritesLast(r)
    BY <1>2, <2>1, <2>2, HolderStatements DEF ThreadWrites, WritesOn, WritesLast
  <2> QED BY <1>2, <2>3 DEF ThreadWrites, RecordMoves
<1>3. CASE ThreadEnds(k)
  BY <1>3, ClaimStatements DEF ThreadEnds, RecordMoves
<1>4. ASSUME NEW w \in Worker, NEW j \in JobId, ThreadClaims(k, w, j)
      PROVE  /\ RecordMoves(r)
             /\ \E t \in Token : Store!Unused(t) /\ ThreadBecomes(k, Answered(j, t))
  <2>1. NewToken \in Token
    BY <1>4 DEF ThreadClaims, NewToken
  <2>2. ClaimMoves(w, j, NewToken)
    BY <1>4, ClaimStatements DEF ThreadClaims
  <2>3. RecordMoves(r)
    BY <1>4, <2>1, <2>2 DEF ThreadClaims, RecordMoves, Claims
  <2> QED BY <1>4, <2>1, <2>2, <2>3 DEF ThreadClaims, ClaimMoves, Answered
<1> QED BY <1>2, <1>3, <1>4

-----------------------------------------------------------------------------
(* The invariant. *)

Closed == {"starting", "releasing", "stopping", "down"}

AppOK ==
  /\ app \in Closed => NoWorkers
  /\ app = "gathering" => \A w \in Worker : task[w].pc \in {"gone", "release"}

(* Nobody else remembers the token of a task that works, and the task holds
   its row unless its heartbeat has ended. *)
HoldOK ==
  \A w \in Worker :
    task[w].pc \in Holding =>
      /\ ~ task[w].stopped => MyRow(w).token = task[w].token /\ MyRow(w).lease = "future"
      /\ \A v \in Worker : task[v].token = task[w].token => v = w
      /\ \A k \in Slot : threads[k].token # task[w].token

LateOK ==
  app \in {"stopping", "down", "starting"} =>
    \A j \in JobId :
      rows[j].token # Null => rows[j].token \in late \/ cancels[j] \in {"operation", "done"}

BudgetOK ==
  /\ FailuresOK
  /\ \A w \in Worker : Affords(task[w], rows, failures)
  /\ \A k \in Slot : Affords(threads[k], rows, failures)

CoreOK == RowsOK /\ RecordsOK /\ AppOK /\ CancelsOK /\ HoldOK /\ LateOK /\ BudgetOK

RestOK ==
  /\ app \in Closed \cup {"up", "cancelling", "gathering"}
  /\ manager \in [stop : BOOLEAN, process : {"none", "live", "exited"},
                  operations : [JobId -> Token \cup {Null}], todo : SUBSET Token,
                  asked : Token \cup {Null}]
  /\ cancels \in [JobId -> {"none", "cancelled", "cancel_requested", "operation", "done"}]
  /\ aborted \cup late \subseteq Token
  /\ left \in [closes : 0 .. MaxCloses, exits : 0 .. MaxExits]

IInv == CoreOK /\ RestOK

(* At first there is nothing. *)
LEMMA InitOK == ASSUME Init PROVE IInv
<1>1. RowsOK /\ CancelsOK
  BY NoRowOK, NullIsNoValue
     DEF Init, RowsOK, RowLive, NoRow, RowOK, CancelsOK
<1>2. RecordsOK
  BY IdleOK DEF Init, RecordsOK, TaskOK
<1>3. AppOK /\ HoldOK /\ LateOK
  BY DEF Init, AppOK, HoldOK, LateOK, NoWorkers, At, NoTask, NoRow, Holding, InExecute, Writes
<1>4. BudgetOK /\ RestOK
  BY BoundsAreNumbers
     DEF Init, BudgetOK, FailuresOK, Affords, RestOK, NoTask, Closed
<1> QED BY <1>1, <1>2, <1>3, <1>4 DEF IInv, CoreOK

(* A worker's step keeps the invariant: its own claim is fresh, kept or gone,
   and the row of every other task that works is left alone. *)
LEMMA WorkersKeep ==
  ASSUME CoreOK, NEW w \in Worker, WorkerStep(w) PROVE CoreOK'
<1> USE DEF CoreOK
<1> DEFINE x == task'[w]
<1>1. /\ Begins(w) \/ Continues(w) \/ Ends(w)
      /\ UNCHANGED <<app, threads, cancels>>
  BY WorkerSteps DEF RecordsOK
<1>2. RecordMoves(task[w])
  BY <1>1 DEF Begins, Continues, Ends, RecordMoves, Claims, At
<1>3. /\ TaskOK(task[w]) /\ Affords(task[w], rows, failures)
  BY DEF RecordsOK, BudgetOK
<1>4. /\ task' = [task EXCEPT ![w] = x] /\ TaskOK(x)
      /\ \A v \in Worker : v # w => task'[v] = task[v]
  BY <1>1, ClaimOnlyOK DEF RecordsOK, Begins, Continues, Ends, Becomes
<1>5. RowsOK' /\ CancelsOK'
  BY <1>1, <1>2, <1>3, MovesKeepRows, MovesKeepCancels
<1>6. RecordsOK'
  BY <1>1, <1>4 DEF RecordsOK, TaskOK
<1>7. AppOK' /\ LateOK'
  <2>1. ~ At(w, "gone") /\ (At(w, "release") => x.pc = "gone")
    BY <1>1, <1>4 DEF Begins, Continues, Ends, Becomes, At, Holding, InExecute, Writes, RecordsOK
  <2>2. app \notin Closed
    BY <2>1 DEF AppOK, NoWorkers
  <2>3. app = "gathering" => \A v \in Worker : task'[v].pc \in {"gone", "release"}
    BY <1>4, <2>1 DEF AppOK, At
  <2> QED BY <1>1, <2>2, <2>3 DEF AppOK, LateOK, Closed
<1>8. HoldOK'
  <2>1. ASSUME NEW u \in Worker, u # w, task[u].pc \in Holding, ~ task[u].stopped
        PROVE  /\ rows'[task[u].job].token = task[u].token
               /\ rows'[task[u].job].lease = "future"
    <3>1. /\ task[u].job \in JobId /\ rows[task[u].job].token = task[u].token
          /\ task[u].token \in Token /\ rows[task[u].job].lease = "future"
          /\ task[w].token # task[u].token
      BY <2>1 DEF HoldOK, MyRow, RecordsOK, TaskOK, HasClaim
    <3> QED BY <1>2, <1>3, <3>1, OthersKeep
  <2>2. ASSUME NEW u \in Worker, u # w, task[u].pc \in Holding
        PROVE  x.token # task[u].token
    <3>1. task[u].token \in Token /\ task[u].token # Null /\ task[w].token # task[u].token
      BY <2>2, NullIsNoValue DEF HoldOK, RecordsOK, TaskOK, HasClaim
    <3>2. CASE Begins(w)
      BY <1>4, <3>2, FreshToken DEF Begins, Becomes, ClaimMoves, RecordsOK, NoTask
    <3>3. CASE Continues(w)
      BY <1>4, <3>1, <3>3 DEF Continues, Becomes, RecordsOK
    <3>4. CASE Ends(w)
      BY <1>4, <3>1, <3>4 DEF Ends, Becomes, RecordsOK, TaskOK, HasClaim, Holding, InExecute, Writes
    <3> QED BY <1>1, <3>2, <3>3, <3>4
  <2>3. ASSUME x.pc \in Holding
        PROVE  /\ ~ x.stopped =>
                     rows'[x.job].token = x.token /\ rows'[x.job].lease = "future"
               /\ \A v \in Worker : v # w => task[v].token # x.token
               /\ \A k \in Slot : threads[k].token # x.token
    <3>1. CASE Begins(w)
      <4>1. PICK j \in JobId, t \in Token :
              /\ ClaimMoves(w, j, t)
              /\ x = [NoTask EXCEPT !.pc = "claimed", !.job = j, !.token = t]
        BY <3>1 DEF Begins, Becomes, RecordsOK
      <4>2. x.job = j /\ x.token = t
        BY <4>1 DEF NoTask
      <4>3. rows'[j].token = t /\ rows'[j].lease = "future"
        BY <4>1, ClaimedRow DEF ClaimMoves, RowsOK
      <4> QED BY <4>1, <4>2, <4>3, FreshToken DEF ClaimMoves
    <3>2. CASE Continues(w)
      <4>1. /\ task[w].pc \in Holding /\ x.job = task[w].job /\ x.token = task[w].token
            /\ UNCHANGED rows \/ WritesOn(task[w])
            /\ task[w].stopped => x.stopped
        BY <3>2 DEF Continues, Becomes, RecordsOK
      <4>2. /\ task[w].job \in JobId /\ task[w].token # Null
            /\ ~ x.stopped => /\ rows[task[w].job].token = task[w].token
                              /\ rows[task[w].job].lease = "future"
            /\ \A v \in Worker : v # w => task[v].token # task[w].token
            /\ \A k \in Slot : threads[k].token # task[w].token
        BY <4>1, NullIsNoValue DEF HoldOK, MyRow, RecordsOK, TaskOK, HasClaim
      <4>3. CASE WritesOn(task[w]) /\ ~ x.stopped
        <5>1. PICK s : HolderMoves(task[w], s) /\ WroteOn(rows[task[w].job], s)
          BY <4>3 DEF WritesOn
        <5>2. RowLive(rows[task[w].job]) /\ rows[task[w].job].token # Null
          BY <4>2, <4>3 DEF RowsOK
        <5>3. s.token = task[w].token /\ s.lease = "future"
          BY <4>2, <4>3, <5>1, <5>2, WroteOnLive
        <5> QED BY <4>1, <4>2, <5>1, <5>3 DEF HolderMoves, RowsOK
      <4> QED BY <4>1, <4>2, <4>3
    <3>3. CASE Ends(w)
      BY <2>3, <1>4, <3>3 DEF Ends, Becomes, RecordsOK, Holding, InExecute, Writes
    <3> QED BY <1>1, <3>1, <3>2, <3>3
  <2> QED BY <1>1, <1>4, <2>1, <2>2, <2>3 DEF HoldOK, MyRow
<1>9. BudgetOK'
  <2>1. FailuresOK'
    BY <1>2, <1>3, FailuresCounted DEF BudgetOK
  <2>2. /\ \A t \in Token : Store!Unused(t) => \A v \in Worker : task[v].token # t
        /\ \A t \in Token : Store!Unused(t) => \A k \in Slot : threads[k].token # t
    BY FreshToken
  <2>3. \A v \in Worker : Affords(task[v], rows', failures')
    BY <1>2, <1>3, <2>2, OthersAfford DEF BudgetOK, RecordsOK
  <2>4. \A k \in Slot : Affords(threads[k], rows', failures')
    BY <1>2, <1>3, <2>2, OthersAfford DEF BudgetOK, RecordsOK
  <2>5. Affords(x, rows', failures')
    <3>1. CASE Begins(w)
      BY <1>4, <3>1 DEF Begins, Becomes, RecordsOK, NoTask, Affords
    <3>2. CASE Continues(w)
      BY <1>4, <2>3, <3>2 DEF Continues, WritesOn, Becomes, RecordsOK, Affords, At
    <3>3. CASE Ends(w)
      BY <1>4, <3>3 DEF Ends, Becomes, RecordsOK, Affords
    <3> QED BY <1>1, <3>1, <3>2, <3>3
  <2> QED BY <1>1, <1>4, <2>1, <2>3, <2>4, <2>5 DEF BudgetOK
<1> QED BY <1>5, <1>6, <1>7, <1>8, <1>9

(* What a row keeps of a late claim. *)
LEMMA LateKept ==
  ASSUME LateOK, NEW r, UNCHANGED <<app, cancels>>, late \subseteq r, StillLate(r),
         \A i \in JobId : rows'[i].token \in {rows[i].token, Null} \cup r
  PROVE  LateOK'
BY DEF LateOK, StillLate

(* A statement of the time before takes nothing from a task that works. *)
LEMMA ThreadsKeep ==
  ASSUME CoreOK, ThreadStep PROVE CoreOK'
<1> USE DEF CoreOK
<1>1. PICK k \in Slot :
        /\ RecordMoves(threads[k])
        /\ \/ ThreadBecomes(k, NoTask)
           \/ \E j \in JobId, t \in Token :
                Store!Unused(t) /\ ThreadBecomes(k, Answered(j, t))
  BY ThreadSteps
<1> DEFINE r == threads[k]
           y == threads'[k]
<1>2. /\ TaskOK(r) /\ Affords(r, rows, failures)
      /\ UNCHANGED <<app, manager, cancels, task, left>>
  BY DEF RecordsOK, BudgetOK, ThreadStep
<1>3. /\ threads' = [threads EXCEPT ![k] = y]
      /\ \A i \in Slot : i # k => threads'[i] = threads[i]
      /\ TaskOK(y) /\ y.pc \in {"gone", "claimed"}
      /\ \A w \in Worker : y.token # Null => task[w].token # y.token
  <2>1. CASE ThreadBecomes(k, NoTask)
    BY <2>1, IdleOK DEF ThreadBecomes, RecordsOK
  <2>2. CASE ~ ThreadBecomes(k, NoTask)
    <3>1. PICK j \in JobId, t \in Token : Store!Unused(t) /\ ThreadBecomes(k, Answered(j, t))
      BY <1>1, <2>2
    <3>2. y = Answered(j, t) /\ threads' = [threads EXCEPT ![k] = y]
      BY <3>1 DEF ThreadBecomes, RecordsOK
    <3>3. y.pc = "claimed" /\ y.token = t
      BY <3>2 DEF Answered, NoTask
    <3>4. TaskOK(y)
      BY <3>2, ClaimOnlyOK DEF Answered
    <3> QED BY <3>1, <3>2, <3>3, <3>4, FreshToken DEF RecordsOK
  <2> QED BY <2>1, <2>2
<1>5. RowsOK' /\ CancelsOK'
  BY <1>1, <1>2, MovesKeepRows, MovesKeepCancels
<1>6. RecordsOK'
  BY <1>2, <1>3 DEF RecordsOK, TaskOK
<1>7. AppOK'
  BY <1>2 DEF AppOK, NoWorkers, At
<1>8. HoldOK'
  <2>1. ASSUME NEW w \in Worker, task[w].pc \in Holding
        PROVE  \A i \in Slot : threads'[i].token # task[w].token
    <3>1. task[w].token # Null /\ \A i \in Slot : threads[i].token # task[w].token
      BY <2>1, NullIsNoValue DEF HoldOK, RecordsOK, TaskOK, HasClaim
    <3> QED BY <1>3, <3>1
  <2>2. ASSUME NEW w \in Worker, task[w].pc \in Holding, ~ task[w].stopped
        PROVE  /\ rows'[task[w].job].token = task[w].token
               /\ rows'[task[w].job].lease = "future"
    <3>1. /\ task[w].job \in JobId /\ rows[task[w].job].token = task[w].token
          /\ task[w].token \in Token /\ rows[task[w].job].lease = "future"
          /\ r.token # task[w].token
      BY <2>2 DEF HoldOK, MyRow, RecordsOK, TaskOK, HasClaim
    <3> QED BY <1>1, <1>2, <3>1, OthersKeep
  <2> QED BY <1>2, <2>1, <2>2 DEF HoldOK, MyRow
<1>9. LateOK'
  <2>1. PICK i \in Slot :
          \/ ThreadWrites(i) \/ ThreadEnds(i)
          \/ \E w \in Worker, j \in JobId : ThreadClaims(i, w, j)
    BY DEF ThreadStep
  <2>2. TaskOK(threads[i])
    BY DEF RecordsOK
  <2>3. CASE ThreadEnds(i)
    <3>1. UNCHANGED rows \/ Sweeping
      BY <2>3, ClaimStatements DEF ThreadEnds
    <3>2. RecordMoves(threads[i])
      BY <2>3, <3>1 DEF ThreadEnds, RecordMoves
    <3>3. \A j \in JobId : rows'[j] = rows[j] \/ rows'[j].token = Null
      BY <3>1, SweptLive DEF Sweeping, RowsOK
    <3> QED BY <1>2, <2>3, <3>3, LateKept DEF ThreadEnds
  <2>4. CASE ThreadWrites(i)
    <3>1. /\ threads[i].pc \in HasClaim /\ threads[i].retryable \in BOOLEAN
          /\ threads[i].pc = "save" => threads[i].digest \in Digest
          /\ Result(threads[i]) \in {"completed", "cancelled"}
      BY <2>2, <2>4 DEF ThreadWrites, HasClaim, Holding, InExecute, Writes, TaskOK, Task, Result
    <3>2. WritesOn(threads[i]) \/ WritesLast(threads[i])
      BY <2>4, <3>1, HolderStatements DEF ThreadWrites, WritesOn, WritesLast, Writes
    <3>3. \A j \in JobId : rows'[j].token \in {rows[j].token, Null}
      BY <2>2, <3>2, HolderMovesRow DEF Loses, RunsOn
    <3> QED BY <1>2, <2>4, <3>3, LateKept DEF ThreadWrites
  <2>5. ASSUME NEW w \in Worker, NEW j \in JobId, ThreadClaims(i, w, j) PROVE LateOK'
    <3>1. NewToken \in Token /\ ClaimMoves(w, j, NewToken) /\ StillLate(late \cup {NewToken})
      BY <2>5, ClaimStatements DEF ThreadClaims, NewToken
    <3>2. rows'[j].token = NewToken
      BY <3>1, ClaimedRow DEF ClaimMoves, RowsOK
    <3>3. \A h \in JobId : h # j => rows'[h] = rows[h] \/ rows'[h].token = Null
      BY <3>1, SweptLive DEF ClaimMoves, RowsOK
    <3> QED BY <1>2, <3>1, <3>2, <3>3, LateKept
  <2> QED BY <2>1, <2>3, <2>4, <2>5
<1>10. BudgetOK'
  <2>1. FailuresOK'
    BY <1>1, <1>2, FailuresCounted DEF BudgetOK
  <2>2. /\ \A t \in Token : Store!Unused(t) => \A v \in Worker : task[v].token # t
        /\ \A t \in Token : Store!Unused(t) => \A i \in Slot : threads[i].token # t
    BY FreshToken
  <2>3. \A v \in Worker : Affords(task[v], rows', failures')
    BY <1>1, <1>2, <2>2, OthersAfford DEF BudgetOK, RecordsOK
  <2>4. \A i \in Slot : Affords(threads[i], rows', failures')
    BY <1>1, <1>2, <2>2, OthersAfford DEF BudgetOK, RecordsOK
  <2> QED BY <1>2, <1>3, <2>1, <2>3, <2>4 DEF BudgetOK, Affords
<1> QED BY <1>5, <1>6, <1>7, <1>8, <1>9, <1>10

(* Steps of start, close and cancel that touch neither table nor tasks. *)
LEMMA AppMovesKeep ==
  ASSUME CoreOK,
         \/ Start \/ StartFails \/ Close \/ (\E t \in Token : CancelOperation(t))
         \/ CancelAnswered \/ Gathered \/ StopService \/ ServiceExits
  PROVE  CoreOK'
<1> USE DEF CoreOK
<1>1. UNCHANGED <<rows, cancels, task, threads, late, failures>>
  BY DEF Start, StartFails, Close, CancelOperation, CancelAnswered, Gathered, StopService,
     ServiceExits, OnlyApp
<1>2. RowsOK' /\ RecordsOK' /\ CancelsOK' /\ HoldOK' /\ BudgetOK'
  BY <1>1 DEF RowsOK, RecordsOK, CancelsOK, HoldOK, MyRow, BudgetOK, FailuresOK
<1>3. \/ app' = app \/ app' = "cancelling"
      \/ app = "down" /\ app' = "starting"
      \/ app = "starting" /\ app' = "down"
      \/ app = "stopping" /\ app' = "down"
      \/ app' = "releasing" /\ NoWorkers
  BY DEF Start, StartFails, Close, CancelOperation, CancelAnswered, Gathered, StopService,
     ServiceExits
<1>4. NoWorkers' <=> NoWorkers
  BY <1>1 DEF NoWorkers, At
<1>5. AppOK'
  BY <1>1, <1>3, <1>4 DEF AppOK, Closed
<1>6. LateOK'
  BY <1>1, <1>3 DEF LateOK
<1> QED BY <1>2, <1>5, <1>6

(* The tasks of a new start have no claim. *)
LEMMA ReadyKeeps ==
  ASSUME CoreOK, Ready PROVE CoreOK'
<1> USE DEF CoreOK
<1> DEFINE new == [NoTask EXCEPT !.pc = "claim"]
<1>1. /\ UNCHANGED <<rows, cancels, threads, late, failures>> /\ app' = "up"
      /\ task' = [w \in Worker |-> new]
  BY DEF Ready
<1>2. TaskOK(new) /\ new.pc = "claim"
  BY IdleOK
<1>3. RowsOK' /\ AppOK' /\ LateOK' /\ CancelsOK'
  BY <1>1 DEF RowsOK, AppOK, LateOK, CancelsOK, Closed
<1>4. RecordsOK'
  BY <1>1, <1>2 DEF RecordsOK, TaskOK
<1>5. HoldOK'
  BY <1>1, <1>2 DEF HoldOK, Holding, InExecute, Writes
<1>6. BudgetOK'
  BY <1>1, <1>2 DEF BudgetOK, FailuresOK, Affords
<1> QED BY <1>3, <1>4, <1>5, <1>6

(* What task.cancel() leaves of a task. *)
LEMMA CancelledOK ==
  ASSUME NEW r, TaskOK(r)
  PROVE  TaskOK(Cancelled(r)) /\ Cancelled(r).pc \in {"gone", "release"}
<1>1. CASE r.pc \in InExecute /\ ~ r.outer
  <2> DEFINE s == [NoTask EXCEPT !.pc = "release", !.job = r.job, !.token = r.token,
                                 !.stopped = r.stopped]
  <2>1. r.job \in JobId /\ r.token \in Token /\ r.stopped \in BOOLEAN
    BY <1>1 DEF TaskOK, HasClaim, Holding, Task
  <2>2. TaskOK(s) /\ s.pc = "release"
    BY <2>1 DEF TaskOK, Task, NoTask, HasClaim, Holding, InExecute, Writes
  <2> QED BY <1>1, <2>2 DEF Cancelled
<1>2. CASE ~ (r.pc \in InExecute /\ ~ r.outer)
  BY <1>2, IdleOK DEF Cancelled
<1> QED BY <1>1, <1>2

(* Its statement goes on as it was. *)
LEMMA LeftBehindOK ==
  ASSUME NEW r, TaskOK(r)
  PROVE  LET s == [r EXCEPT !.outer = FALSE, !.stopped = FALSE] IN
         /\ TaskOK(s) /\ s.pc = r.pc
         /\ Affords(r, rows, failures) => Affords(s, rows, failures)
<1> DEFINE s == [r EXCEPT !.outer = FALSE, !.stopped = FALSE]
<1>1. /\ s \in Task /\ s.pc = r.pc /\ s.job = r.job /\ s.token = r.token
      /\ s.digest = r.digest /\ s.retryable = r.retryable
  BY DEF TaskOK, Task
<1>2. TaskOK(s)
  BY <1>1 DEF TaskOK
<1> QED BY <1>1, <1>2 DEF Affords

(* close cancels the tasks: none of them works any more, and each statement
   under way is a record of its own. *)
LEMMA CancelTasksKeeps ==
  ASSUME CoreOK, CancelTasks PROVE CoreOK'
<1> USE DEF CoreOK
<1>1. /\ UNCHANGED <<rows, cancels, failures>> /\ app' = "gathering"
      /\ task' = [w \in Worker |-> Cancelled(task[w])]
  BY DEF CancelTasks
<1>2. \A w \in Worker : TaskOK(task'[w]) /\ task'[w].pc \in {"gone", "release"}
  BY <1>1, CancelledOK DEF RecordsOK
<1>3. ASSUME NEW k \in Slot
      PROVE  /\ TaskOK(threads'[k])
             /\ threads'[k].pc \in Writes \cup {"gone", "claim", "claimed"}
             /\ Affords(threads'[k], rows, failures)
  <2> DEFINE s == [task[k[1]] EXCEPT !.outer = FALSE, !.stopped = FALSE]
  <2>1. threads'[k] = threads[k] \/ (threads'[k] = s /\ task[k[1]].pc \in Writes \cup {"claim"})
    BY DEF CancelTasks
  <2>2. k[1] \in Worker
    BY DEF Slot
  <2>3. /\ TaskOK(task[k[1]]) /\ Affords(task[k[1]], rows, failures)
        /\ TaskOK(threads[k]) /\ Affords(threads[k], rows, failures)
        /\ threads[k].pc \in Writes \cup {"gone", "claim", "claimed"}
    BY <2>2 DEF RecordsOK, BudgetOK
  <2>4. TaskOK(s) /\ s.pc = task[k[1]].pc /\ Affords(s, rows, failures)
    BY <2>3, LeftBehindOK
  <2> QED BY <2>1, <2>3, <2>4
<1>4. RowsOK' /\ LateOK' /\ CancelsOK'
  BY <1>1 DEF RowsOK, LateOK, CancelsOK
<1>5. RecordsOK'
  <2>1. threads' \in [Slot -> Task] /\ task' \in [Worker -> Task]
    BY <1>1, <1>2, <1>3 DEF CancelTasks, TaskOK
  <2> QED BY <1>2, <1>3, <2>1 DEF RecordsOK
<1>6. AppOK'
  BY <1>1, <1>2 DEF AppOK, Closed
<1>7. HoldOK'
  BY <1>2 DEF HoldOK, Holding, InExecute, Writes
<1>8. BudgetOK'
  BY <1>1, <1>2, <1>3 DEF BudgetOK, FailuresOK, Affords
<1> QED BY <1>4, <1>5, <1>6, <1>7, <1>8

(* The release of close finds every claim that is left, but for the jobs
   that a cancel has settled. *)
LEMMA ReleaseKeeps ==
  ASSUME CoreOK, ReleaseAll PROVE CoreOK'
<1> USE DEF CoreOK
<1>1. /\ app = "releasing" /\ app' = "stopping" /\ UNCHANGED <<cancels, task, threads, failures>>
      /\ rows' = [j \in JobId |-> IF rows[j].worker \in Worker /\ rows[j].state \in RUNNING
                                    THEN Released(rows[j]) ELSE rows[j]]
  BY SameStatements DEF ReleaseAll, Store!Release
<1>2. NoWorkers
  BY <1>1 DEF AppOK, Closed
<1>3. ASSUME NEW r, RowLive(r) PROVE RowLive(Released(r)) /\ Released(r).token = Null
  <2>1. RowOK(Released(r))
    BY <1>3, ReleasedOK DEF RowLive
  <2>2. Released(r).token = Null
    BY <1>3, UnclaimedIsRow DEF RowLive, Released, Row
  <2> QED BY <2>1, <2>2 DEF RowLive
<1>4. ASSUME NEW r, RowLive(r), r.token # Null
      PROVE  r.worker \in Worker /\ r.state \in RUNNING \cup {"cancelled", "cancel_requested"}
  BY <1>4 DEF RowLive, RowOK, Row, ACTIVE, TERMINAL, GONE
<1>5. \A j \in JobId :
        /\ RowLive(rows'[j])
        /\ \/ rows'[j].token = Null
           \/ rows'[j] = rows[j] /\ rows[j].state \in {"cancelled", "cancel_requested"}
  BY <1>1, <1>3, <1>4 DEF RowsOK
<1>6. RowsOK'
  BY <1>1, <1>5 DEF RowsOK, RowLive, RowOK
<1>7. RecordsOK' /\ CancelsOK'
  BY <1>1, <1>5 DEF RecordsOK, CancelsOK
<1>8. AppOK'
  BY <1>1, <1>2 DEF AppOK, NoWorkers, At
<1>9. HoldOK'
  BY <1>1, <1>2 DEF HoldOK, NoWorkers, At, Holding, InExecute, Writes
<1>10. LateOK'
  BY <1>1, <1>5 DEF LateOK, CancelsOK
<1>11. BudgetOK'
  <2>1. ASSUME NEW r, TaskOK(r), Affords(r, rows, failures) PROVE Affords(r, rows', failures')
    <3>1. r.pc = "fail" => r.job \in JobId /\ r.token # Null
      BY <2>1, NullIsNoValue DEF TaskOK, HasClaim, Holding, InExecute, Writes
    <3> QED BY <1>1, <1>5, <2>1, <3>1 DEF Affords
  <2> QED BY <1>1, <2>1 DEF BudgetOK, FailuresOK, RecordsOK
<1> QED BY <1>6, <1>7, <1>8, <1>9, <1>10, <1>11

(* Jobs arrive and are cancelled, and time passes: a row keeps its token, and
   its lease while a task whose heartbeat beats has that token. *)
WorldMoves(j, s) ==
  /\ rows' = [rows EXCEPT ![j] = s]
  /\ RowLive(s)
  /\ s.token = rows[j].token
  /\ \/ s.lease = rows[j].lease
     \/ \A w \in Worker : task[w].token = rows[j].token => task[w].stopped
  /\ s.state # rows[j].state /\ s.state \in {"cancelled", "cancel_requested"} =>
       cancels'[j] = "operation"

LEMMA RowStatements ==
  ASSUME RowsOK, RestOK,
         \/ \E j \in JobId, d \in Destination : Enqueue(j, d)
         \/ \E j \in JobId : RetryFallsDue(j) \/ LeaseLapses(j) \/ CancelWrite(j)
  PROVE  \E j \in JobId : \E s \in Row : WorldMoves(j, s)
<1>1. ASSUME NEW j \in JobId, NEW d \in Destination, Enqueue(j, d)
      PROVE  WorldMoves(j, QueuedRow(d)) /\ QueuedRow(d) \in Row
  <2>1. rows[j].token = Null /\ rows[j].lease = "null"
    BY <1>1 DEF Enqueue, Store!Enqueue, RowsOK, RowLive, RowOK, GONE
  <2>2. /\ QueuedRow(d).token = Null /\ QueuedRow(d).lease = "null" /\ RowLive(QueuedRow(d))
        /\ QueuedRow(d).state = "queued"
    BY QueuedRowOK DEF QueuedRow, NoRow, RowLive
  <2>3. QueuedRow(d) \in Row
    BY <2>2 DEF RowLive, RowOK
  <2> QED BY <1>1, <2>1, <2>2, <2>3, SameStatements DEF Enqueue, Store!Enqueue, WorldMoves
<1>2. ASSUME NEW j \in JobId, RetryFallsDue(j)
      PROVE  \E s \in Row : WorldMoves(j, s)
  <2> DEFINE s == [rows[j] EXCEPT !.retryAt = "past"]
  <2>1. RowLive(rows[j]) /\ rows[j] \in Row /\ rows[j].retryAt = "future"
    BY <1>2 DEF RetryFallsDue, Store!RetryFallsDue, RowsOK
  <2>2. RowOK(s)
    BY <2>1, FallenDueOK DEF RowLive
  <2>3. /\ s.token = rows[j].token /\ s.lease = rows[j].lease /\ s.state = rows[j].state
    BY <2>1 DEF Row
  <2>4. s \in Row /\ RowLive(s)
    BY <2>1, <2>2, <2>3 DEF RowLive, RowOK
  <2>5. rows' = [rows EXCEPT ![j] = s]
    BY <1>2 DEF RetryFallsDue, Store!RetryFallsDue, RowsOK
  <2> QED BY <2>3, <2>4, <2>5 DEF WorldMoves
<1>3. ASSUME NEW j \in JobId, LeaseLapses(j)
      PROVE  \E s \in Row : WorldMoves(j, s)
  <2> DEFINE s == [rows[j] EXCEPT !.lease = "past"]
  <2>1. RowLive(rows[j]) /\ rows[j] \in Row /\ rows[j].lease = "future"
    BY <1>3 DEF LeaseLapses, Store!LeaseLapses, RowsOK
  <2>2. RowOK(s)
    BY <2>1, LapsedOK DEF RowLive
  <2>3. s.token = rows[j].token /\ s.state = rows[j].state
    BY <2>1 DEF Row
  <2>4. s \in Row /\ RowLive(s)
    BY <2>1, <2>2, <2>3 DEF RowLive, RowOK
  <2>5. /\ rows' = [rows EXCEPT ![j] = s]
        /\ \A w \in Worker : task[w].token = rows[j].token => task[w].stopped
    BY <1>3 DEF LeaseLapses, Store!LeaseLapses, RowsOK
  <2> QED BY <2>3, <2>4, <2>5 DEF WorldMoves
<1>4. ASSUME NEW j \in JobId, CancelWrite(j)
      PROVE  \E s \in Row : WorldMoves(j, s)
  <2> DEFINE s == CancelWritten(rows[j], cancels[j])
  <2>1. /\ rows' = [rows EXCEPT ![j] = s] /\ cancels[j] \in {"cancelled", "cancel_requested"}
    BY <1>4 DEF CancelWrite
  <2>2. RowLive(rows[j]) /\ rows[j] \in Row
    BY DEF RowsOK
  <2>3. RowOK(s)
    BY <2>1, <2>2, CancelWrittenOK DEF RowLive
  <2>4. s.token = rows[j].token /\ s.lease = rows[j].lease /\ s.state = cancels[j]
    BY <2>2 DEF CancelWritten, Row
  <2>5. s \in Row /\ RowLive(s)
    BY <2>1, <2>3, <2>4 DEF RowLive, RowOK
  <2>6. cancels'[j] = "operation"
    BY <1>4 DEF CancelWrite, CancelGoes, RestOK
  <2> QED BY <2>1, <2>4, <2>5, <2>6 DEF WorldMoves
<1> QED BY <1>1, <1>2, <1>3, <1>4

(* So no task that works is disturbed. *)
LEMMA WorldKeeps ==
  ASSUME CoreOK, RestOK,
         \/ \E j \in JobId, d \in Destination : Enqueue(j, d)
         \/ \E j \in JobId : RetryFallsDue(j) \/ LeaseLapses(j) \/ CancelStep(j)
  PROVE  CoreOK'
<1> USE DEF CoreOK
<1>1. /\ UNCHANGED <<app, task, threads, late, failures>>
      /\ \A j \in JobId : cancels[j] \in {"operation", "done"} =>
                            cancels'[j] \in {"operation", "done"}
  BY DEF Enqueue, RetryFallsDue, LeaseLapses, OnlyRows, CancelStep, CancelRead, CancelWrite,
         CancelCopy, OnlyCancels, CancelGoes, RestOK
<1>2. CASE UNCHANGED rows
  <2>1. RowsOK' /\ RecordsOK' /\ AppOK' /\ HoldOK' /\ BudgetOK'
    BY <1>1, <1>2
       DEF RowsOK, RecordsOK, AppOK, NoWorkers, At, HoldOK, MyRow, BudgetOK, FailuresOK
  <2>2. LateOK' /\ CancelsOK'
    BY <1>1, <1>2 DEF LateOK, CancelsOK
  <2> QED BY <2>1, <2>2
<1>3. ASSUME NEW j \in JobId, NEW s \in Row, WorldMoves(j, s) PROVE CoreOK'
  <2>1. /\ \A i \in JobId : rows'[i].token = rows[i].token
        /\ \A i \in JobId : \/ rows'[i].lease = rows[i].lease
                             \/ \A w \in Worker : task[w].token = rows[i].token =>
                                                    task[w].stopped
        /\ \A i \in JobId : \/ rows'[i].state = rows[i].state
                             \/ rows'[i].state \notin {"cancelled", "cancel_requested"}
                             \/ cancels'[i] = "operation"
    BY <1>3 DEF WorldMoves, RowsOK
  <2>2. RowsOK'
    BY <1>3 DEF WorldMoves, RowsOK, RowLive, RowOK
  <2>3. RecordsOK' /\ AppOK'
    BY <1>1 DEF RecordsOK, AppOK, NoWorkers, At
  <2>4. HoldOK'
    BY <1>1, <2>1 DEF HoldOK, MyRow, RecordsOK, TaskOK, HasClaim
  <2>5. LateOK' /\ CancelsOK'
    BY <1>1, <2>1 DEF LateOK, CancelsOK
  <2>6. BudgetOK'
    <3>1. ASSUME NEW r, TaskOK(r), Affords(r, rows, failures)
          PROVE  Affords(r, rows', failures')
      BY <1>1, <2>1, <3>1 DEF Affords, TaskOK, HasClaim, Holding, InExecute, Writes
    <3> QED BY <1>1, <3>1 DEF BudgetOK, FailuresOK, RecordsOK
  <2> QED BY <2>2, <2>3, <2>4, <2>5, <2>6
<1>4. \/ UNCHANGED rows
      \/ \E j \in JobId, d \in Destination : Enqueue(j, d)
      \/ \E j \in JobId : RetryFallsDue(j) \/ LeaseLapses(j) \/ CancelWrite(j)
  BY DEF CancelStep, CancelRead, CancelCopy
<1> QED BY <1>2, <1>3, <1>4, RowStatements

(* The fields of the manager and the counters keep their ranges. *)
LEMMA RestKept == ASSUME RecordsOK, RestOK, Next PROVE RestOK'
<1> USE DEF RestOK, Closed
<1> DEFINE MgrT == [stop : BOOLEAN, process : {"none", "live", "exited"},
                    operations : [JobId -> Token \cup {Null}], todo : SUBSET Token,
                    asked : Token \cup {Null}]
<1>0. \A t : Reached(t) \subseteq Token
  BY DEF Reached, RecordsOK, TaskOK, HasClaim, Holding, InExecute, At
<1>1. ASSUME NEW w \in Worker, WorkerStep(w) PROVE RestOK'
  <2> DEFINE op(x) == [manager EXCEPT !.operations[task[w].job] = x]
  <2>1. ASSUME NEW x \in Token \cup {Null} PROVE op(x) \in MgrT
    BY <2>1
  <2>2. task[w].pc \in {"plan", "save"} => task[w].token \in Token
    BY DEF RecordsOK, TaskOK, HasClaim, Holding, InExecute, Writes
  <2>3. manager' = manager \/ \E x \in Token \cup {Null} : manager' = op(x)
    BY <1>1, <2>2
       DEF WorkerStep, ClaimNothing, ClaimJob, SeeClaim, Wake, Plan, SaveSnapshot, Receive,
           Check, LastPhase, Finish, ReadFailure, RecordFailure, ReleaseClaim, HeartbeatEnds,
           OnlyTasks, Opens, ForgetsOperation, At
  <2>4. manager' \in MgrT
    BY <2>1, <2>3
  <2>5. late' \subseteq late /\ aborted' \subseteq aborted /\ UNCHANGED <<app, cancels, left>>
    BY <1>1
       DEF WorkerStep, ClaimNothing, ClaimJob, SeeClaim, Wake, Plan, SaveSnapshot, Receive,
           Check, LastPhase, Finish, ReadFailure, RecordFailure, ReleaseClaim, HeartbeatEnds,
           OnlyTasks, StillLate
  <2> QED BY <2>4, <2>5
<1>2. CASE ThreadStep
  <2>1. ASSUME NEW k, NEW w, NEW j, ThreadClaims(k, w, j) PROVE late' \subseteq Token
    BY <2>1 DEF ThreadClaims, NewToken, StillLate
  <2>2. ASSUME NEW k, ThreadWrites(k) \/ ThreadEnds(k) PROVE late' \subseteq Token
    BY <2>2 DEF ThreadWrites, ThreadEnds, StillLate
  <2> QED BY <1>2, <2>1, <2>2 DEF ThreadStep
<1>3. CASE Start \/ Ready \/ CancelAnswered \/ Gathered \/ StopService
  BY <1>3 DEF Start, Ready, CancelAnswered, Gathered, StopService, OnlyApp
<1>4. CASE StartFails \/ ServiceExits
  BY <1>4, BoundsAreNumbers DEF StartFails, ServiceExits, Spends
<1>5. CASE Close
  <2>1. {manager.operations[j] : j \in JobId} \ {Null} \subseteq Token
    OBVIOUS
  <2>2. manager' \in MgrT
    BY <1>5, <2>1 DEF Close
  <2>3. left' \in [closes : 0 .. MaxCloses, exits : 0 .. MaxExits]
    BY <1>5, BoundsAreNumbers DEF Close, Spends
  <2> QED BY <1>5, <2>2, <2>3 DEF Close
<1>6. ASSUME NEW t \in Token, CancelOperation(t) PROVE RestOK'
  <2>1. manager' \in MgrT
    BY <1>6 DEF CancelOperation
  <2>2. aborted' \subseteq Token
    BY <1>0, <1>6 DEF CancelOperation
  <2> QED BY <1>6, <2>1, <2>2 DEF CancelOperation
<1>7. CASE CancelTasks
  <2>1. \A w \in Worker : At(w, "claimed") => task[w].token \in Token
    BY DEF RecordsOK, TaskOK, HasClaim, Holding, At
  <2> DEFINE new == {task[w].token : w \in {v \in Worker : At(v, "claimed")}}
  <2>2. new \subseteq Token
    BY <2>1
  <2>3. late' = late \cup new /\ aborted' = {}
    BY <1>7 DEF CancelTasks
  <2>4. late' \subseteq Token /\ aborted' \subseteq Token
    BY <2>2, <2>3
  <2>5. manager' \in MgrT
    BY <1>7 DEF CancelTasks
  <2>6. app' = "gathering" /\ UNCHANGED <<cancels, left>>
    BY <1>7 DEF CancelTasks
  <2> QED BY <2>4, <2>5, <2>6
<1>8. CASE ReleaseAll
  BY <1>8 DEF ReleaseAll, StillLate
<1>9. CASE \/ \E j \in JobId, d \in Destination : Enqueue(j, d)
           \/ \E j \in JobId : RetryFallsDue(j) \/ LeaseLapses(j)
  BY <1>9 DEF Enqueue, RetryFallsDue, LeaseLapses, OnlyRows
<1>10. ASSUME NEW j \in JobId, CancelStep(j) PROVE RestOK'
  <2>1. \E to \in {"cancelled", "cancel_requested", "operation", "done"} : CancelGoes(j, to)
    BY <1>10 DEF CancelStep, CancelRead, CancelWrite, CancelCopy, CancelState
  <2>2. cancels' \in [JobId -> {"none", "cancelled", "cancel_requested", "operation", "done"}]
    BY <2>1 DEF CancelGoes
  <2>3. aborted' \subseteq Token
    BY <1>0, <1>10 DEF CancelStep, CancelRead, CancelWrite, CancelCopy
  <2>4. UNCHANGED <<app, manager, late, left>>
    BY <1>10 DEF CancelStep, CancelRead, CancelWrite, CancelCopy, OnlyCancels
  <2> QED BY <2>2, <2>3, <2>4
<1> QED BY <1>1, <1>2, <1>3, <1>4, <1>5, <1>6, <1>7, <1>8, <1>9, <1>10 DEF Next, AppStep

(* The invariant is inductive. *)
LEMMA Inductive == IInv /\ [Next]_vars => IInv'
<1> SUFFICES ASSUME IInv, [Next]_vars PROVE IInv'
  OBVIOUS
<1>1. CASE UNCHANGED vars
  BY <1>1 DEF vars, IInv, CoreOK, RowsOK, RecordsOK, AppOK, NoWorkers, At, CancelsOK, HoldOK,
              MyRow, LateOK, BudgetOK, FailuresOK, RestOK
<1>2. CASE Next
  <2>1. RestOK'
    BY <1>2, RestKept DEF IInv, CoreOK
  <2>2. CoreOK'
    BY <1>2, WorkersKeep, ThreadsKeep, AppMovesKeep, ReadyKeeps, CancelTasksKeeps, ReleaseKeeps,
       WorldKeeps DEF IInv, Next, AppStep
  <2> QED BY <2>1, <2>2 DEF IInv
<1> QED BY <1>1, <1>2

(* So it holds in every state that start, close and the workers reach. *)
THEOREM Invariance == Spec => []IInv
BY InitOK, Inductive, PTL DEF Spec

(* Every variable keeps its type, whatever outlives a close: the failures of a
   job stay within its budget because each is counted for the one run that
   holds the job (manager.py, _record_failure). *)
THEOREM TypeCorrect == Spec => []TypeOK
<1>1. IInv => TypeOK
  BY DEF IInv, CoreOK, RowsOK, RecordsOK, TaskOK, BudgetOK, FailuresOK, RestOK, Closed, TypeOK
<1> QED BY <1>1, Invariance, PTL

(* A run keeps its claim to its end, through every close and start of the
   manager and every cancel (manager.py, _worker and close): no statement of a
   cancelled task, no release and no claim that arrives late takes its job
   away, unless a cancel has settled the job and so ended the heartbeat. *)
THEOREM RunsHoldTheirJobs == Spec => []RunHoldsItsJob
<1>1. IInv => RunHoldsItsJob
  BY DEF IInv, CoreOK, HoldOK, Holding, RunHoldsItsJob
<1> QED BY <1>1, Invariance, PTL

(* Once close has released everything the only claims left are those that a
   cancelled task was not told of, and those of jobs that were cancelled
   (manager.py, close). *)
THEOREM ClosedHoldsNothingElse == Spec => []ClosedHoldsOnlyLateClaims
<1>1. IInv => ClosedHoldsOnlyLateClaims
  BY DEF IInv, CoreOK, LateOK, ClosedHoldsOnlyLateClaims
<1> QED BY <1>1, Invariance, PTL

=============================================================================
