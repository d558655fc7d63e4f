-------------------------- MODULE MCReleaseCandidate --------------------------
(***************************************************************************)
(* Four builds: the run's own, a second one of the same commit and         *)
(* toolchain, one of an older commit, one by another toolchain.            *)
(***************************************************************************)
EXTENDS ReleaseCandidate

MCOwn == [id |-> "own", commit |-> "head", tool |-> "t1", form |-> "raw"]
MCBuilds == {MCOwn,
             [id |-> "again", commit |-> "head", tool |-> "t1", form |-> "raw"],
             [id |-> "old", commit |-> "old", tool |-> "t1", form |-> "raw"],
             [id |-> "tool", commit |-> "head", tool |-> "t2", form |-> "raw"]}
MCLicences == {[gate |-> "PASS", text |-> "ready"],
               [gate |-> "PASS", text |-> "pending"],
               [gate |-> "NEEDS USER DECISION", text |-> "ready"]}
=============================================================================
