------------------------------ MODULE BlobProgress ------------------------------
(***************************************************************************)
(* The progress of one planned job: its rows of copy_blobs and the totals  *)
(* in its row of copy_jobs, as store.progress writes them for the events   *)
(* of a copy (store.py).                                                   *)
(*                                                                         *)
(* Runs of the job overlap: one that lost its claim may still have an      *)
(* event in hand, which it got before and checked against the row before.  *)
(* store.progress compares the token when it writes the totals, but not    *)
(* when it writes the row of the blob: a run that lost its claim moves the *)
(* blob and not the clock, and the run that took over, reaching the same   *)
(* offset, makes no progress.  "The no-progress clock is reset whenever a  *)
(* blob's high-water byte offset increases" (docs/requirements.md:468) is  *)
(* therefore not so, and nothing is claimed of clock here.                 *)
(***************************************************************************)
EXTENDS Naturals, FiniteSets, Functions

CONSTANTS
  Blob,    \* the digests of the plan
  Length,  \* how many bytes each blob has
  Sized,   \* the blobs whose size the plan gives
  Token,   \* the claims of the runs
  Null

ASSUME LengthsAreNumbers == Length \in [Blob -> Nat]
ASSUME PlansAreFinite == IsFiniteSet(Blob)
ASSUME NullIsNoToken == Null \notin Token

VARIABLES
  blobs,   \* the rows of copy_blobs
  totals,  \* the aggregate columns of the job
  clock,   \* last_progress_at: "now", or "old" once time has gone by
  holder,  \* the token of the claim on the job, or Null
  runs     \* the copies that are running, by their token

vars == <<blobs, totals, clock, holder, runs>>

COMPLETE == {"completed", "reused", "mounted"}

Bytes(b) == 0 .. Length[b]

BlobRow(b) ==
  [offset      : Bytes(b),
   network     : Bytes(b),
   disposition : {"pending", "transferring"} \cup COMPLETE,
   completed   : BOOLEAN]     \* completed_at is set

(* What the service reports of a blob: bytes going up, the whole blob, or
   nothing at all for one that the destination has. *)
Event(b) ==
  [blob : {b}, bytes : Bytes(b), disposition : {"transferring"}]
    \cup [blob : {b}, bytes : {Length[b]}, disposition : {"completed"}]
    \cup [blob : {b}, bytes : {0}, disposition : {"reused"}]

Events == UNION {Event(b) : b \in Blob}

NoEvent == [blob |-> Null, bytes |-> 0, disposition |-> "pending"]

NoRun == [open |-> FALSE, event |-> NoEvent, ended |-> {}]

Run == [open  : BOOLEAN,
        event : Events \cup {NoEvent},  \* received, checked, and not yet written
        ended : SUBSET Blob]            \* the blobs this copy has reported as complete

RowsOK == DOMAIN blobs = Blob /\ \A b \in Blob : blobs[b] \in BlobRow(b)

RunsOK == runs \in [Token -> Run]

TypeOK ==
  /\ RowsOK
  /\ RunsOK
  /\ totals \in [bytes : Nat, network : Nat, blobs : Nat]
  /\ clock \in {"now", "old"}
  /\ holder \in Token \cup {Null}

(* save_snapshot has just inserted the rows. *)
Init ==
  /\ blobs = [b \in Blob |->
                [offset |-> 0, network |-> 0, disposition |-> "pending", completed |-> FALSE]]
  /\ totals = [bytes |-> 0, network |-> 0, blobs |-> 0]
  /\ clock = "now"
  /\ holder = Null
  /\ runs = [t \in Token |-> NoRun]

-----------------------------------------------------------------------------
(* store.progress for an event of a blob. *)

Larger(m, n) == IF m >= n THEN m ELSE n

\* Mutants: the last offset counts, not the largest; a blob that is complete does not get
\* its size.
LastOffset(row, e) ==
  IF e.disposition \in COMPLETE /\ e.blob \in Sized THEN Length[e.blob] ELSE e.bytes

LargestReported(row, e) == Larger(row.offset, e.bytes)

OffsetAfter(row, e) ==
  IF e.disposition \in COMPLETE /\ e.blob \in Sized
    THEN Length[e.blob] ELSE Larger(row.offset, e.bytes)

\* Mutant: the bytes of all events are added up.
NetworkAdded(row, e) == row.network + e.bytes

NetworkAfter(row, e) == Larger(row.network, e.bytes)

\* Mutant: completed_at is written over.
CompletedNow(row, e) == e.disposition \in COMPLETE

CompletedAfter(row, e) == row.completed \/ e.disposition \in COMPLETE

Advanced(row, e) ==
  [offset      |-> OffsetAfter(row, e),
   network     |-> NetworkAfter(row, e),
   disposition |-> e.disposition,
   completed   |-> CompletedAfter(row, e)]

Summary(bs) ==
  [bytes   |-> SumFunction([b \in Blob |-> bs[b].offset]),
   network |-> SumFunction([b \in Blob |-> bs[b].network]),
   blobs   |-> Cardinality({b \in Blob : bs[b].disposition \in COMPLETE})]

(* The event is progress: bytes that were never reached before, or a blob
   that was not complete and is now. *)
IsProgress(row, e) ==
  \/ OffsetAfter(row, e) > row.offset
  \/ e.disposition \in COMPLETE /\ row.disposition \notin COMPLETE

\* Mutant: the totals are read before the blob is written.
ProgressSummedBefore(t) ==
  LET e == runs[t].event IN
  /\ e # NoEvent
  /\ blobs' = [blobs EXCEPT ![e.blob] = Advanced(@, e)]
  /\ \/ /\ t = holder
        /\ totals' = Summary(blobs)
        /\ clock' = IF IsProgress(blobs[e.blob], e) THEN "now" ELSE clock
        /\ runs' = [runs EXCEPT ![t].event = NoEvent]
     \/ /\ t # holder
        /\ runs' = [runs EXCEPT ![t] = NoRun]
        /\ UNCHANGED <<totals, clock>>
  /\ UNCHANGED holder

Progress(t) ==
  LET e == runs[t].event IN
  /\ e # NoEvent
  /\ blobs' = [blobs EXCEPT ![e.blob] = Advanced(@, e)]
  /\ \/ /\ t = holder
        /\ totals' = Summary(blobs')
        /\ clock' = IF IsProgress(blobs[e.blob], e) THEN "now" ELSE clock
        /\ runs' = [runs EXCEPT ![t].event = NoEvent]
     \/ /\ t # holder
        /\ runs' = [runs EXCEPT ![t] = NoRun]
        /\ UNCHANGED <<totals, clock>>
  /\ UNCHANGED holder

-----------------------------------------------------------------------------
(* The runs of the job. *)

(* A worker claims the job, free or not (its lease may have lapsed), and
   opens a copy. *)
StartCopy(t) ==
  /\ t # holder
  /\ runs[t] = NoRun
  /\ holder' = t
  /\ runs' = [runs EXCEPT ![t].open = TRUE]
  /\ UNCHANGED <<blobs, totals, clock>>

(* The next event arrives and cancellation_requested says no. *)
Receive(t, e) ==
  /\ runs[t].open
  /\ t = holder
  /\ runs[t].event = NoEvent
  /\ e.blob \notin runs[t].ended
  /\ runs' = [runs EXCEPT ![t].event = e,
                          ![t].ended = IF e.disposition \in COMPLETE THEN @ \cup {e.blob} ELSE @]
  /\ UNCHANGED <<blobs, totals, clock, holder>>

(* The copy breaks or is over, or the worker finds that it lost the job or
   dies; its claim is cleared unless it died. *)
EndCopy(t) ==
  /\ runs[t].open
  /\ runs' = [runs EXCEPT ![t] = NoRun]
  /\ holder' \in IF t = holder THEN {holder, Null} ELSE {holder}
  /\ UNCHANGED <<blobs, totals, clock>>

TimePasses ==
  /\ clock' = "old"
  /\ UNCHANGED <<blobs, totals, holder, runs>>

RunStep(t) ==
  \/ StartCopy(t)
  \/ \E b \in Blob : \E e \in Event(b) : Receive(t, e)
  \/ Progress(t)
  \/ EndCopy(t)

Next == (\E t \in Token : RunStep(t)) \/ TimePasses

Spec == Init /\ [][Next]_vars

-----------------------------------------------------------------------------
(* Properties. *)

(* "Progress uses each blob's high-water offset so retries do not move
   aggregate progress backward" (docs/requirements.md:304): what a blob has
   reached is never lost, whichever runs write it, in whatever order. *)
BlobsNeverGoBack ==
  [][\A b \in Blob :
       /\ blobs'[b].offset >= blobs[b].offset
       /\ blobs'[b].network >= blobs[b].network
       /\ blobs[b].completed => blobs'[b].completed]_vars

(* Nor do the totals of the job, which only the holder of the claim writes,
   out of rows that others write too. *)
TotalsNeverFall ==
  [][totals'.bytes >= totals.bytes /\ totals'.network >= totals.network]_vars

(* Bytes on the network are never more than the bytes that are logically
   complete: reused blobs count for the second only (docs, section 8). *)
NetworkWithinLogical ==
  /\ \A b \in Blob : blobs[b].network <= blobs[b].offset
  /\ totals.network <= totals.bytes

(* A blob that was complete once has all its bytes, also when a later run
   transfers it again. *)
CompletedMeansWhole ==
  \A b \in Sized \cap Blob : blobs[b].completed => blobs[b].offset = Length[b]

(* When the copy of the holder has reported every blob and the reports are
   written, the totals have every byte: the percentage is 100, whatever an
   older run has written in between. *)
WholeCopyIsCounted ==
  \A t \in Token :
    t = holder /\ runs[t].open /\ runs[t].event = NoEvent /\ runs[t].ended = Blob
      /\ Blob \subseteq Sized /\ Blob # {}
        => totals.bytes = SumFunction(Length)

=============================================================================
