------------------------------ MODULE MCJobStore ------------------------------
(* Instances of JobStore for TLC. *)
EXTENDS JobStore, TLC

MCPool == {Worker}

Symmetry == Permutations(Token) \cup Permutations(Client) \cup Permutations(Digest)
              \cup Permutations(Destination)

=============================================================================
