-------------------------- MODULE MCRegistryCapture --------------------------
(* Instances of RegistryCapture for TLC. *)
EXTENDS RegistryCapture

MCTarballs == [bytes : {"candidate", "rebuilt"}, sound : BOOLEAN]

(* At once, between two attempts, at and after the last one, never in time. *)
MCAppears == {0, 5, 34, 35, 1000}
=============================================================================
