# Verification of the OCI transfer queue

This directory holds TLA+ models of opai-oci-transfer, the TLC runs that check them on
small instances, and proofs that TLAPS checks for every size. Paths below are relative
to the repository: `store.py`, `manager.py` and `client.py` are under
`src/opai_oci_transfer/`, `main.go` under `go/cmd/opai-oci-transferd/`.

## The system

An application enqueues copy jobs. `CopyManager` runs a fixed number of worker tasks on
one asyncio loop; each claims a job from a SQLite table under a lease, asks a private Go
service to plan it (which content does the source tag name?), pins the plan in the table,
asks the service to copy that content, and writes the events of the copy back until the
job is settled. Several managers, in several processes, may share the database. Leases
let a job outlive the worker that ran it; tokens keep a worker that lost its lease from
writing.

| component | state | operations | modelled in |
|---|---|---|---|
| durable job store (`store.py`) | tables copy_jobs, copy_blobs, copy_errors | enqueue, claim, heartbeat, save_snapshot, progress, finish, fail_or_retry, cancel, retry, dismiss, prune, release_claim, release | JobRows, JobStore (copy_jobs); BlobProgress (copy_blobs, totals); copy_errors is append-only and left out |
| copy workers (`manager.py` `_worker`, `_execute`, `_record_failure`, `_heartbeat`) | local variables of each task, the claim in memory, the heartbeat task | claim a job, plan, save, copy, apply events, settle, record a failure | CopyWorkers |
| public calls (`manager.py` enqueue, cancel, retry, dismiss, prune) | the row that a call has read | as named | JobStore, CopyWorkers; cancel also in ManagerLifecycle |
| manager lifecycle (`manager.py` start, close, `_start_service`) | tasks, stop flag, service process, statements in threads | start, close | ManagerLifecycle |
| transfer service (`main.go`) | operations table, registry | plan, copy, cancel, health | copy and cancel in TransferService, plan in PlanWalk, the event stream in CopyWorkers |
| service client (`client.py`) | the response of a copy | health, plan, copy, cancel | by outcome in CopyWorkers, the life of a response in TransferService; splitting the stream into lines is left out |
| retry policy (`_record_failure`) | consecutive_failures, integrity_failures, last_progress_at, started_at | retry or fail, delay | as a bounded choice in CopyWorkers and ManagerLifecycle; last_progress_at as a column of BlobProgress |
| credential providers (`credentials.py`) | none in this library | get_credentials | a call that answers, fails or raises |
| records and references (`models.py`) | none | parsing, validation | the states, in JobRows; parsing is left out |
| redaction (`errors.py`) | none | rewriting of messages | not modelled: no state |

How they interact: the workers call the store, in threads, one statement or transaction
at a time, and await each; between two awaits every other task, every other manager and
every API call may take any number of steps. The public calls go to the same store.
`cancel` and `retry` read a row in one connection and write it in another. The workers
read the service's events from a stream and look at the row before they handle each one.
Events for the workers come from no other direction: a cancel reaches a run only through
the row (or, faster, through a DELETE that makes the stream fail).

What is hard here, and what makes each part correct:

- **Store.** Every statement trusts the row it finds. Worker, token and lease must agree
  with the state of the row; no active row may end where neither the sweep nor the select
  of `claim` finds it; the snapshot, once pinned, must not change; a claim must move only
  when its lease has lapsed.
- **Workers.** A run that lost its lease goes on beside the run that replaced it. A job
  must still copy one content only and be completed only when the service has verified
  it; two healthy runs must not stream one job; a run that ends should settle its job or
  hand it back, and every job should be settled in the end, through crashes, refused
  statements, lost heartbeats and calls at any moment.
- **Calls.** `cancel` must settle active work and nothing else; a destination must have
  one active job; a queued job must be claimed.
- **Progress.** Two runs of a job may write the same blobs. What a blob has reached must
  not be lost, totals must not fall, and a whole copy must count every byte.
- **Lifecycle.** A cancelled task leaves its statement running in a thread, and close
  cancels copies before it cancels the tasks that read them. After close nothing may be
  held but what no close can reach; what outlives it must take no job from the manager
  that is started again; every job must still be settled.
- **Service.** Handlers, callers, and generators that nobody has finalised yet overlap. An
  entry of `_operations` must not outlive the runs of its job, a slot must be refused only
  because of a leftover, a copy that nobody reads must end, and no_clobber must not
  overwrite.
- **Plan.** Manifests are reached along many paths and under a filter. An answered plan
  must name all that is to be copied, within the limits, at a bounded cost.

`PROJECT.json` lists the hazards line by line with the properties that watch them.

## Modules

    JobRows -- JobStore -- CopyWorkers ==> PinnedCopy
                  +------- ManagerLifecycle

    JobRowsProofs -- JobStoreProofs           (of JobStore)
           +-------- CopyWorkersProofs        (of CopyWorkers) -- CopyExclusionProofs
           +-------- ManagerLifecycleProofs   (of ManagerLifecycle)

    BlobProgress -- BlobProgressProofs      TransferService -- TransferServiceProofs
    PlanWalk     -- PlanWalkProofs

CopyWorkers and ManagerLifecycle take the actions of JobStore through INSTANCE; `==>` is a
refinement. MCJobStore, MCCopyWorkers, MCBlobProgress, MCTransferService and MCPlanWalk
give their modules values and symmetries for TLC; ManagerLifecycle needs none.

**JobRows** is one row of copy_jobs and one pure operator for each UPDATE: `Swept` and
`Claimed` (claim), `Renewed` (heartbeat), `Pinned` (save_snapshot), `InPhase` (progress),
`Finished`, `Failed`, `Released`, `CancelWritten`, `RetryWritten`, and the WHERE clauses
`Sweepable`, `Claimable`, `Renewable`, `HeldBy`. Columns that no condition of the store
reads (byte counts, messages, times of events) are left out. A time stamp is kept as far
as the store compares it with the clock: absent, ahead, or behind. The snapshot is known
by its root digest. Ids are numbers in the order of created_at, the order in which
`claim` serves.

**JobStore** interleaves the statements. A method in one transaction is one action. The
two that are not, `cancel` and `retry`, are `CancelRead`/`CancelWrite` and
`RetryRead`/`RetryWrite`: what was read waits in `calls[c]`. `claims` is what running
workers remember, and it lives on when the row changes: `HolderWrites` is any write of a
holder whose token still matches. `Enqueue` may use any unused id, since created_at is
read before the write lock is taken. `Prune` deletes any set of terminal jobs, which
covers every choice of states and age. `ProcessDies` loses claims and calls. The clock is
two actions, `LeaseLapses` and `RetryFallsDue`. Deleted ids do not return (uuids).

**CopyWorkers** is each worker task with a program counter, one action per await: `run[w]`
holds the local variables of `_worker` and `_execute`. It contains JobStore as
`Store == INSTANCE JobStore`, with `claims` given by the runs that are at work, and every
write goes through an action of the store. `Catches` is the handler of OCITransferError,
`Raises` what any other exception does: out of `_execute`, recorded by `_worker`, and
fatal to the task when it comes from `claim` or from that recording. The service is the
events it may send next (`NextEvent`), at any point a failure or a broken stream; it may
resolve the tag to another digest at each plan. Progress events of one copy are folded
into one, for they write the same way. `StoreBusy` is a refused statement at any await on
the store, `HeartbeatBusy` one that ends the heartbeat task, `Crash` the death of the
process of a worker and of the calls made in it.

**PinnedCopy** is the promise of the whole: one content per job, completed after verified.

**BlobProgress** is the other half of `store.progress`, for one planned job: `Progress(t)` is
the transaction that writes an event to the row of its blob (`Advanced`, without looking at
the token), sums the rows (`Summary`) and writes totals and clock if the token still
matches. The rest of the run is folded: `StartCopy` is a claim and the opening of a copy,
`Receive` the next event and the look at the row before it is handled, `EndCopy` every way
in which a copy ends. Within one copy a blob reports any bytes in any order until it is
complete, and nothing after; another copy may report it again from zero. It does not
extend JobStore, whose actions it would only repeat: what it needs of claims is that a
token is unused when it is given out (`Unused` in JobStore; uuids in the code). `clock` is
last_progress_at; nothing is claimed of it, for a run without the claim advances a blob and
leaves the clock, and the run that took over then makes no progress by it.

**ManagerLifecycle** is one manager that is started, closed and started again, over the
same store (`Store == INSTANCE JobStore`). `task[w]` is a worker task at one of its awaits,
the reads that follow each other folded into one. What a cancellation of the task does
depends on the await: `Cancelled` is the `except CancelledError` of `_worker`, which releases
the claim of a cancelled `_execute`, but neither that of a cancelled claim nor that of a
failure which `_worker` was recording itself. A statement whose task was cancelled goes to
`threads`, where each worker and each close has a place of its own (`Slot`), and takes place
at any time later (`ThreadStep`): `asyncio.to_thread` cannot be interrupted. `app` is the
caller, whose `close` is a sequence of steps: DELETE each operation, one at a time
(`CancelOperation`, `CancelAnswered`), cancel the tasks, wait for them, release everything,
stop the service. `aborted` holds the copies that the service was told to cancel, `late` the
claims that a thread committed behind the back of a close. `CancelStep` is a cancel call: read
the row, write it, and DELETE the operation that is then known for the job (`CancelRead`,
`CancelWrite`, `CancelCopy`). Heartbeats are punctual here, but one that finds its job settled
ends (`HeartbeatEnds`): a cancel which a claim has overtaken settles a job under its run. The
service may exit at any time and nothing watches it.

**TransferService** is the handlers of `POST /v1/copies/{id}`, one program counter each, the
slots of `server.operations`, and one destination tag that several jobs write to. On the
other side are the runs of the manager, `_operations`, and the responses they read. A run
leaves the loop over its events in one of two ways: its generator ends, by itself or with an
exception, and closes the response (`CloseStream`); or the body of the loop raises or returns
in the middle of the stream and leaves an open generator (`DropStream`), which is finalised
later (`FinaliseStream`) and noticed by the service later still (`NoticeDisconnect`). The
entry in `_operations` stays while the run does what follows the loop (the last phase, finish,
or the handling of an error), until its finally pops whatever entry the job has (`EndRun`). A
handler may fail at every request to the registry. `Cancel` is the DELETE, of the entry of a
job or of a run's own operation; a handler without a slot never sees it.

**PlanWalk** is `plan` and `walk`. The recursion is `stack`, one frame for each call that has
not returned, with the entries it still has to visit; entries are visited in any order, so
one graph stands for every order of its lists. `seen` is the set of manifests entered,
`records` and `blobs` the answer, `subjects` and `waiting` the loop over referrers. The
limits are tested where the code does it: on entry, after the record was appended.
`Closure`, what is reached from a set of manifests list after list, is the reference that an
answered plan is compared with: `Tree` below the root under the filter, `Referred` below the
direct referrers of the tree, without the filter but for lists that the tree has already. It is
the plan that the code makes; where the documents ask for more is said below.

## Runs

| run | instance | distinct states | shows |
|---|---|---|---|
| store_core | 2 jobs, 2 destinations, 2 digests, 2 tokens, 2 clients | 645 000 | TypeOK, ClaimFieldsAgree, NoStrandedJob, SnapshotPinned, LeaseRespected, OnlyCallsReactivate |
| workers_pinned | 1 job, 2 workers, 3 tokens, 2 digests, 2 calls, leases lapse at any time, blobs outside the plan | 982 000 | TypeOK, OneContentPerJob (implements PinnedCopy), EndedRunHoldsNothing |
| workers_live | 1 job, 2 workers, 3 tokens, 2 faults of any kind, 1 call of any kind, 1 retry | 552 000 | Exclusion, SettlesWhileOneLives |
| manager_lifecycle | 1 job, 1 worker, 4 tokens, 2 closes, 1 cancel, 1 exit of the service, 1 retry | 624 000 | TypeOK, ClosedHoldsOnlyLateClaims, RunHoldsItsJob, JobSettles |
| blob_progress | 2 blobs of 1 and 2 bytes, 2 overlapping runs | 310 000 | TypeOK, NetworkWithinLogical, CompletedMeansWhole, WholeCopyIsCounted, BlobsNeverGoBack, TotalsNeverFall |
| transfer_service | 2 jobs (one no_clobber), 2 contents, 2 workers, 3 operations | 497 000 | TypeOK, NoStaleOperation, RefusedOnlyByLeftover, AbandonedCopyEnds |
| plan_walk | 5 lists, 4 images, 2 platforms, limits 2 and 6, all requests | 854 000 | TypeOK, PlanIsClosure, PlanFitsLimits, WorkBoundedByEntries |
| workers_cancel_lost, workers_livelock, workers_die, manager_close, no_clobber | as small as shows the case | | the findings below |

Bounds, and why they are enough:

- Tokens: a token is unused when no row and no run carries it, so rows + runs that are
  not its holder + 1 tokens never run out: 2 rows and remembered claims in store_core
  (where `claims` may hold both tokens, which only delays the next claim until a holder
  forgets), 1 row + the other workers + 1 in the worker runs. In
  manager_lifecycle each close adds a statement that outlives its task, hence four.
- Jobs: the statements of the store touch one row at a time, except the sweep and the
  choice of the oldest due job, for which two rows give every case. The worker runs use
  one job, on which all workers meet. transfer_service uses two, which meet at one tag.
- Workers: two are a stale holder and its successor; in workers_live two faults are enough
  to kill both, or to take a heartbeat from one and kill the other. Any number is the
  business of the proofs.
- Clients: two in store_core, so that two calls overtake each other on one row; in the
  worker runs one client whose call may be overtaken by every worker.
- Blobs: one of one byte and one of two, so that a blob can be untouched, part of the way
  and whole, and a total can be right for one blob and wrong for the other. Two tokens are
  a stale run and the run that replaced it, again and again, for tokens are used anew.
- Lifecycle: two closes, each of which a start may follow, show what the time before a close
  does to the time after it, and two generations of statements in threads at once; one worker
  is enough for that, since a statement of the time before meets the run of the time after.
  The service may exit once, at its start or in any state after.
- Operations: two that runs are reading fill the slots, the third is the leftover or the
  refused one. An id is used anew when nobody remembers it, so the run has no end.
- Graphs: lists nest to one level below MaxDepth = 2 along one path and stay within it
  along another; lists and images are shared by paths of several lengths; one referrer is
  an image, of the root or of an image of the tree, one a list, which may be below the root as
  well, where the filter can leave out its entry; both may have a referrer of their own, which
  the code does not list; with MaxRecords = 6 a plan can be just within the limit and just
  beyond it.
- `MaxRetries` stands for no_progress_timeout, which in the code ends the retries of a job
  that gets nowhere. `MaxAsks` and `MaxFaults` bound what clients and the environment do. Two
  faults kill as many workers as workers_live has, so the disjunct of SettlesWhileOneLives
  that allows for it is reached; one fault kills the only worker of workers_die.
- `CHECK_DEADLOCK FALSE` stands in the worker runs and in plan_walk: when the bounded calls
  and faults are spent and every worker is dead or every job settled and idle, the system
  stops, and a plan ends when it is answered.

Fairness (`FairSpec`): weak fairness of each worker's own step (the event loop runs every
task, and each await ends: the service and the database answer or fail), of the second
half of a call that was made, and of the clock. Heartbeats, clients, crashes and errors
owe nothing. Weak fairness of the worker step as a whole does not say which outcome an
await has, so a run may fail each time; `MaxRetries` is what ends that, as
no_progress_timeout does. `PunctualHeartbeats` says that while a heartbeat task runs the
lease does not lapse: lease_seconds is at least 30 (`manager.py:73`) and a heartbeat comes
every third of it. It is assumed in workers_live; workers_pinned assumes nothing about time.

`ManagerLifecycle!FairSpec`: weak fairness of each worker's step and of the clock, as above;
of the statements in threads, which the executor carries out; and of the caller's own
sequence, so that a start or close that was called ends and a manager that was closed is
started again. `Close` and the exit of the service owe nothing.

`TransferService!FairSpec`: weak fairness of the finaliser of generators nobody holds, of
net/http noticing a lost connection, and of a handler's own statements. A request to a
registry is fair only once its context is cancelled: before that it may hang for ever, and
AbandonedCopyEnds must hold all the same. Runs, DELETEs and new copies owe nothing.

## Findings

Each of these is a violation run whose trace is a few steps of the code.

1. `workers_cancel_lost`: the workers look for a cancel request and then write without
   looking: a request in between is overwritten by retry_wait, copying or verifying.
2. `workers_livelock`: a progress event for a blob that is not in the plan (digest tags are
   copied but not planned) ends the run in silence; the job is taken over and abandoned
   for ever.
3. `workers_die`: `store.claim` is called outside the `try` of `_worker`. One statement that
   SQLite refuses there ends the worker task, and with one worker, the default, every job of
   the manager stays where it is until the application closes and starts it again.
4. `manager_close`: close cancels a copy in the service before it cancels the task that
   reads it. The task sees the copy fail, finds no cancel request in its row and records a
   permanent failure.
5. `no_clobber`: a HEAD of the destination that fails, for any reason, counts as an absent
   tag, and the copy replaces another content.

A job that is settled by a failure counts as settled in SettlesWhileOneLives and JobSettles:
they do not say that a copy which could have been made is made.

The models also contain these, which a reader of the code should know and which no property
forbids:

- `cancel` writes the state it decided on from an earlier read: a job that completed or
  failed meanwhile becomes cancelled, and one that was claimed meanwhile runs on, under a row
  that is cancelled and still has its claim. If the row is then deleted, recording a failure
  of that run raises, and its worker ends.
- `retry` does not look for another active job of the destination, which then has two.
- Two `retry` calls that both read failed: the second write queues the job again under the
  claim of the run that has begun, and another worker takes a claim whose lease is alive.
  LeaseRespected leaves queued rows out, Exclusion is about one retry at a time.
- Two returns of `_execute` leave the claim to its lease: save_snapshot answers False because
  the job is not in planning (`manager.py:390`), and progress answers False for a blob outside
  the plan (`manager.py:411`, finding 2). EndedRunHoldsNothing names both and nothing else.
- A run that lost its claim still writes: `store.progress` updates the blob of the event it
  had in hand before it looks at the token (`store.py:324`), and `fail_or_retry` inserts a row of
  copy_errors (`store.py:397`), which is not modelled. Only copy_jobs is fenced.
- For the same reason the no-progress clock is not "reset whenever a blob's high-water byte
  offset increases" (docs/requirements.md:468-469): the stale run advances the blob and not the
  clock, and the run that took over, reaching the same offset, makes no progress by the clock.
- `release` and `release_claim` leave a row in cancel_requested alone (`store.py:498`, `508`): a
  job that was cancelled just before a close keeps its claim until the lease lapses and the
  sweep of `claim` settles it, though close "releases leases promptly" (docs/requirements.md:482).
  ClosedHoldsOnlyLateClaims names it as an exception; JobSettles shows that it is settled.
- The finally of an older run removes the entry of `_operations` of a newer run of the same
  job, which `cancel` then reaches through the row only. An entry may also name a copy that is
  over, or that its run has stopped reading.
- The plan has one level of referrers: `plan` copies its list of manifests before it asks for
  referrers (`main.go:286`), where docs/requirements.md:318-319 and 592-594 speak of graphs that
  are walked. A list that is below the root and below a referrer is walked under the platform
  filter only. A manifest that is met twice has two records, where docs/requirements.md:320
  says "deduplicates descriptors globally by digest".

## Proofs

Each proof module proves its theorems for every value of the constants, from the named
assumptions of the module it extends. `PROJECT.json` lists the theorems.

**JobRowsProofs** holds what is true of one row, whoever writes it. `RowOK` strengthens the
type: the claim fields agree with the state, a waiting row has its time, a row that is
being planned has no snapshot. Without the last two a claim could strand a row and
`save_snapshot` could replace a pinned digest. One lemma per SQL statement shows that the
statement keeps `RowOK`; `RowStep` lists the statements. The two modules below only have to
show that their steps take every row through `RowStep`; ManagerLifecycleProofs uses the
lemmas of the statements.

**JobStoreProofs**, for any sets of jobs, workers, clients, digests and tokens:

| theorem | property |
|---|---|
| TypeCorrect | TypeOK |
| ClaimFields | ClaimFieldsAgree |
| NothingStranded | NoStrandedJob |
| SnapshotStaysPinned | SnapshotPinned |
| LeasesAreRespected | LeaseRespected |
| SettledJobsAreReactivatedByCalls | OnlyCallsReactivate |

Assumptions: ids are integers, NULL is not a value of another column, pools are sets of
workers. The invariant is `RowOK` of every row; the action properties are read off
`RowStep`.

**CopyWorkersProofs**, for any number of jobs, workers and clients, with or without punctual
heartbeats, unplanned blobs and faults:

| theorem | property |
|---|---|
| TypeCorrect | TypeOK |
| Refinement | OneContentPerJob: `Spec` implements `PinnedCopy!Spec` |
| TokensFenceRuns | a token is of one run and of one job |
| WorkersStrandNothing | ClaimFieldsAgree and NoStrandedJob of the store, under the workers |

Assumptions: those of the store, and that the bounds are numbers. The first invariant,
`IInv`, says that rows are in order (`RowOK`) and so are worker tasks (`RunOK`: a run knows
its claim, what it copies while it copies, and how far its stream has got). It is kept
because a task does one of four things to the table (`WorkerMoves`): nothing, a sweep, a
claim, or a statement on the row that still has its token. The counter of retries needs
one thing more (`MayFail`): a run that is about to make its job wait was let through by the
budget, and only the holder of the claim spends it. The refinement rests on a second
invariant, `ContentOK`: what a run copies is what its row has pinned, unless the row is
deleted; so is all that was sent for a job; runs of one job agree; and a run that has seen
the result copies a job that was verified. It is kept because `save_snapshot` writes only
to a row that is being planned, which by `RowOK` has no snapshot, and because a pinned
snapshot stays (`PinsStay`). `TokensFenceRuns` rests on one fact: only a claim brings a
token into a run or a row, and the token is unused.

**CopyExclusionProofs**, for any number of jobs, workers, calls and faults:

| theorem | property | assumption |
|---|---|---|
| WorkersExclude | Exclusion | `LeasesAreKept` |
| EndedRunsHoldNothing | EndedRunHoldsNothing | none |

`LeasesAreKept` says that leases do not lapse while their heartbeat beats, and that if retry
is called there is one client to call it: two retries of one job queue it under a live claim,
as said above. Cancels, dismissals, crashes, refused statements and lost heartbeats are all
allowed. The invariant, `XInv`, adds to those of CopyWorkersProofs that a run from its claim to
the end of its heartbeat (`Covered`) has the claim it started with, under a lease that is ahead,
unless its row is gone; that no two such runs have one job; and that a retry under way belongs
to a job that is still failed or has been deleted. A heartbeat that finds its job settled, by a
cancel that its claim has overtaken, ends, and so does one that the database refuses: these are
the runs that Exclusion leaves out.

For EndedRunsHoldNothing the invariant, `EInv`, says what a run that holds its row can find
before its snapshot is saved (`PlanningOK`): planning, or what a cancel or a late retry wrote
over it, since nobody else changes the state of a row that is held (`OthersLeave`). So
save_snapshot refuses only those, and `RunEndsWell` goes through all steps at which a run can
end: every other one settles the job, hands it back or has lost it, but for the blob outside
the plan.

**ManagerLifecycleProofs**, for any number of jobs, workers and tokens, of closes and starts:

| theorem | property |
|---|---|
| TypeCorrect | TypeOK |
| RunsHoldTheirJobs | RunHoldsItsJob |
| ClosedHoldsNothingElse | ClosedHoldsOnlyLateClaims |

Assumptions: those of the store, and that the bounds are numbers. That heartbeats are punctual
is in the model: `LeaseLapses` spares a lease whose token a task has and whose heartbeat has not
ended. A worker task and a statement that outlived one are records of one kind, and both move
the table only through `RecordMoves`: nothing, a claim, a write as the holder that keeps the
claim, or one that ends it. RunHoldsItsJob is not inductive. What makes it so is in `HoldOK`: the
lease of a task that works and whose heartbeat beats is ahead, so no claim takes its row, and its
token is in no other task and in no statement in a thread, so no write of another finds its row.
A cancel call writes the state and leaves the claim; the row may then be settled under it, and
the heartbeat ends before the lease can lapse. A cancelled task shares its token with the
statement it leaves behind, but it does not work any more, and a new claim has a token that
neither rows nor records have (`FreshToken`). `LateOK` follows the table from the release of
close to the next start: the release clears every claim on a row that is running; a row with a
claim that is not running is one that a cancel has written (`CancelsOK`); and only a claim
statement in a thread brings a claim back, which is then late. The failures of a job stay in
their budget (`BudgetOK`) because a failure is counted only where the row still has the token of
the run that met it.

**BlobProgressProofs**, for any plan, any lengths and any number of overlapping runs:

| theorem | property |
|---|---|
| HighWater | BlobsNeverGoBack |
| CompletedIsWhole | CompletedMeansWhole |
| TypeCorrect | TypeOK |
| NetworkWithin | NetworkWithinLogical |
| WholeCopyCounts | WholeCopyIsCounted |
| TotalsGrow | TotalsNeverFall |

Assumptions: lengths are natural numbers, NULL is no token, a plan is a finite list of blobs. The
first invariant, `IInv`, adds to what is said of a row that the event a run has in hand is one
that the service may send for a blob of the plan: that, and not the claim, is what keeps rows
right that are written without a look at the token. `AdvancedOK` is the lemma about the
arithmetic of one row, `RowsStep` shows that a step changes a row in no other way.

The totals are not the sums of the rows: a stale run advances rows and leaves the totals as
they are. `TInv` says what they are (`TotalsOK`): sums over values of which none is above
what its row has now, and which are whole for the blobs that the holder has reported
to the end. The next sums are taken of rows that are nowhere below those values, so totals do
not fall. What is needed of sums is that they are numbers and grow with their summands. `SumFunction` is recursive
over sets, and the library's induction theorems cannot be used here; so a sum is shown to
count a set of pairs, `Under`, by way of a least subset for which it would not, which
the well-foundedness of finite sets provides.

**TransferServiceProofs**, for any number of jobs, contents, workers and operations:

| theorem | property |
|---|---|
| TypeCorrect | TypeOK |
| OperationsAreCurrent | NoStaleOperation |
| RefusalMeansLeftover | RefusedOnlyByLeftover |

The invariant: an entry of `_operations` names an operation of a run of that job, and only
handlers that were accepted have slots. Refusal is then a count: if every slot were read by a
run, the run that asks would be one more than there are workers.

**PlanWalkProofs**, for every source repository, every set of platforms and every limit:

| theorem | property |
|---|---|
| TypeCorrect | TypeOK |
| PlansFitLimits | PlanFitsLimits |
| PlansLeaveNothingOut | an answered plan names every selected entry of every list it names |
| PlansAreClosures | PlanIsClosure |
| WorkIsBounded | WorkBoundedByEntries |

Assumptions: the digests are well formed, a repository holds finitely many manifests and a
list finitely many entries. The first invariant, `IInv`: a walk that goes on has passed the limits;
every selected entry of a list that was entered is named or waits in a frame of the
stack; what is named was entered. At the end the stack is empty, so nothing waits.

PlansAreClosures needs that `Closure` is the least closed set (`ClosureIsReached`,
`ClosureIsClosed`, `ClosureIsLeast`). Closure counts as many rounds as there are manifests;
that this many are enough, and that a round reaches only what every closed set has,
is again proved by a least counterexample, the first round for which it would
fail. Then no step of the walk leaves a pair of closed sets that holds the root and the
referrers, and Tree with Referred is such a pair, so a plan names no more. It names all of them
because what it names is closed in turn: a list that was walked without the filter and is not
below the root has all its entries named or waiting (`EntriesServed`), one below the root has
those that the filter selects, and every subject has been asked for its referrers at the end.

WorkIsBounded is an accounting (`WorkOK`): some set of entries, of lists that were entered, has
paid for the records, one each but for the root's, and each frame of the stack belongs to an
index of its own whose entries still to be visited have paid for nothing. A manifest that
is met again opens no frame; that is the test of `seen` in walk.

Model-checked and not proved: liveness (SettlesWhileOneLives, JobSettles of ManagerLifecycle,
AbandonedCopyEnds), which is out of the prover's reach. Every other property of the passing
runs is stated by a theorem.

## Not modelled, and what comes next

In this order:

1. **RetryPolicy**: delays, budgets and timeouts as arithmetic over bounded inputs. Read
   from the code so far: timeouts are looked at only when an attempt fails; `retry` resets
   neither last_progress_at nor consecutive_failures; a digest mismatch is never classified
   as retryable, so the budget for integrity failures is never spent; authentication
   failures are retried until no_progress_timeout.
2. **EventStream**: the splitting of the event stream into lines against a reference
   definition.

Left out for good: the append-only table copy_errors and its pruning by cascade,
bytes_per_second and the percentage derived from the totals, read-only calls, HTTP and TLS,
the registry protocol below a HEAD and a copy, the credential exchange, parsing of
references and platforms, redaction of messages, packaging.
