-------------------------- MODULE MCTransferService --------------------------
(* Instances of TransferService for TLC: every job has planned one content,
   another may stand under the tag at first; job 1 is no_clobber. *)
EXTENDS TransferService

CONSTANTS c1, c2

MCContent == {c1, c2}

MCRoot == [j \in Job |-> c1]

MCNoClobber == Job \cap {1}

=============================================================================
