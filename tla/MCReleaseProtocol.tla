--------------------------- MODULE MCReleaseProtocol ---------------------------
(* Instances of ReleaseProtocol for TLC. *)
EXTENDS ReleaseProtocol, TLC

(* Symmetry is used for safety only: runs are compared, never ordered. *)
RunSymmetry == Permutations(Runs)
=============================================================================
