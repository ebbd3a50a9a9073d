----------------------------- MODULE MCCopyWorkers -----------------------------
(* Instances of CopyWorkers for TLC. *)
EXTENDS CopyWorkers, TLC

MCPool == {Worker}

Symmetry == Permutations(Worker) \cup Permutations(Digest) \cup Permutations(Client)

=============================================================================
