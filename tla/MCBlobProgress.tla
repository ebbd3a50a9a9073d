----------------------------- MODULE MCBlobProgress -----------------------------
(* Instances of BlobProgress for TLC. *)
EXTENDS BlobProgress, TLC

CONSTANTS b1, b2

MCBlob == {b1, b2}

MCLength == (b1 :> 1) @@ (b2 :> 2)

Symmetry == Permutations(Token)

=============================================================================
