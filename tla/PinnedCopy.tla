------------------------------ MODULE PinnedCopy ------------------------------
(***************************************************************************)
(* What the copy manager promises about content, however often a job is    *)
(* run, interrupted, taken over or retried: one job asks the transfer      *)
(* service for one source content only, and it is completed only after     *)
(* the service has verified that content at the destination               *)
(* (docs/requirements.md, sections 7 and 11).                              *)
(***************************************************************************)
CONSTANTS JobId, Digest

VARIABLES
  sent,       \* the contents the service was asked to copy for a job
  verified,   \* the jobs whose destination the service has verified
  completed   \* the jobs that are completed now

vars == <<sent, verified, completed>>

Init ==
  /\ sent = [j \in JobId |-> {}]
  /\ verified = {}
  /\ completed = {}

Send(j, d) ==
  /\ sent[j] \subseteq {d}
  /\ sent' = [sent EXCEPT ![j] = {d}]
  /\ UNCHANGED <<verified, completed>>

Verify(j) ==
  /\ sent[j] # {}
  /\ verified' = verified \cup {j}
  /\ UNCHANGED <<sent, completed>>

Complete(j) ==
  /\ j \in verified
  /\ completed' = completed \cup {j}
  /\ UNCHANGED <<sent, verified>>

(* Completed jobs may be deleted, several at a time. *)
Remove(jobs) ==
  /\ completed' = completed \ jobs
  /\ UNCHANGED <<sent, verified>>

Next ==
  \/ \E j \in JobId, d \in Digest : Send(j, d)
  \/ \E j \in JobId : Verify(j) \/ Complete(j)
  \/ \E jobs \in SUBSET JobId : Remove(jobs)

Spec == Init /\ [][Next]_vars

=============================================================================
