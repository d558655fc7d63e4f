------------------------ MODULE ReleaseProtocolProofs ------------------------
(***************************************************************************)
(* Proofs about ReleaseProtocol, for any number of runs, attempts,         *)
(* dispatches, commits and faults.                                         *)
(*                                                                         *)
(* An attempt uploads each artifact once and before the step that needs    *)
(* it; npm accepts one attempt, the publisher; only the publisher and the  *)
(* dispatches that name it get past finalize, and a dispatch does so only  *)
(* when the publisher is dead and no GitHub Release exists.  So at most    *)
(* one job ever writes to the GitHub Release, with evidence that describes *)
(* what npm serves.                                                        *)
(***************************************************************************)
EXTENDS ReleaseProtocol, TLAPS

Fields == {"pc", "why", "refused", "attempt", "commit", "created", "orig", "source",
           "suffix", "main", "mode", "provenance", "npm", "cAbi", "record", "todo"}

LatePcs == {"lookup", "create", "upload", "verify-release"}
RunPcs == {"identity", "candidate", "c-abi", "record", "verify", "publish", "capture",
           "recapture", "reconstruct", "finalize", "published-record", "assemble"} \cup LatePcs
DispatchPcs == {"dispatch", "recapture", "reconstruct", "reverify", "finalize",
                "published-record", "assemble"} \cup LatePcs

\* A job has the fields of NoJob, and it is numbered from its first step on. The evidence
\* of a run holds the release operation before anything is reconstructed from it.
JobShape(j) ==
  /\ DOMAIN job[j] = Fields
  /\ job[j].attempt \in 0 .. MaxAttempt
  /\ job[j].pc = "none" => job[j].attempt = 0
  /\ job[j].pc # "none" => job[j].attempt >= 1 /\ job[j].commit \in Commits
  /\ j \in Runs => /\ job[j].pc \in RunPcs \cup {"none", "failed", "done"}
                   /\ job[j].pc = "failed" => job[j].why \in RunPcs
                   /\ job[j].pc \in {"publish", "capture", "recapture", "reconstruct"} =>
                        DOMAIN job[j].npm = {"candidate", "release-operation"}
  /\ j \in Dispatches => /\ job[j].pc \in DispatchPcs \cup {"none", "failed", "done"}
                         /\ job[j].pc # "failed" => job[j].refused = FALSE

Shape ==
  /\ DOMAIN job = Jobs
  /\ \A j \in Jobs : JobShape(j)
  /\ main \in Nat
  /\ DOMAIN github = {"target", "assets", "digests"}

-----------------------------------------------------------------------------
(* What a step does to a job *)

LEMMA NoJobFields == DOMAIN NoJob = Fields
BY DEF NoJob, Fields

LEMMA EndedFacts ==
  ASSUME NEW j, NEW refused \in BOOLEAN
  PROVE  /\ DOMAIN Ended(j, refused) = Fields
         /\ Ended(j, refused).pc = "failed" /\ Ended(j, refused).why = job[j].pc
         /\ Ended(j, refused).refused = refused
         /\ Ended(j, refused).attempt = job[j].attempt
         /\ Ended(j, refused).commit = job[j].commit
         /\ Ended(j, refused).orig = job[j].orig
BY DEF Ended, NoJob, Fields

\* The job takes the step `from' and goes on to `to'; it may change the fields in S.
Goes(j, from, to, S) ==
  /\ job[j].pc = from /\ job'[j].pc = to
  /\ DOMAIN job'[j] = Fields
  /\ job'[j].attempt = job[j].attempt /\ job'[j].commit = job[j].commit
  /\ job'[j].refused = job[j].refused
  /\ "orig" \in S \/ job'[j].orig = job[j].orig
  /\ "suffix" \in S \/ job'[j].suffix = job[j].suffix
  /\ "main" \in S \/ job'[j].main = job[j].main
  /\ "mode" \in S \/ job'[j].mode = job[j].mode
  /\ "provenance" \in S \/ job'[j].provenance = job[j].provenance
  /\ "npm" \in S \/ job'[j].npm = job[j].npm
  /\ "cAbi" \in S \/ job'[j].cAbi = job[j].cAbi
  /\ "record" \in S \/ job'[j].record = job[j].record

\* The job ends; only its own step refuses.
Stops(j) ==
  /\ Active(j)
  /\ DOMAIN job'[j] = Fields
  /\ job'[j].pc = "failed" /\ job'[j].why = job[j].pc
  /\ job'[j].attempt = job[j].attempt /\ job'[j].commit = job[j].commit
  /\ job'[j].orig = job[j].orig
  /\ job'[j].refused => j \in Runs \/ VerifyDispatch(j) \/ Shared(j)

\* An attempt of a run begins.
Begins(r) ==
  /\ r \in Runs
  /\ job[r].pc \in {"none", "failed", "done"}
  /\ DOMAIN job'[r] = Fields
  /\ job'[r].pc \in {"identity", "candidate", "c-abi", "record", "verify", "assemble"}
  /\ job'[r].attempt = job[r].attempt + 1 /\ job'[r].attempt \in 1 .. MaxAttempt
  /\ job'[r].commit \in Commits
  /\ job[r].pc # "none" => job'[r].commit = job[r].commit

Dispatched(d) ==
  /\ d \in Dispatches /\ job[d].pc = "none"
  /\ DOMAIN job'[d] = Fields
  /\ job'[d].pc = "dispatch" /\ job'[d].attempt = 1 /\ job'[d].commit \in Commits
  /\ job'[d].orig \in Attempts /\ job'[d].source \in Attempts /\ job'[d].suffix \in Attempts
  /\ job'[d].main = main /\ job'[d].mode = "recovered-existing" /\ job'[d].refused = FALSE

RunGoes(r) ==
  \/ Identity(r) /\ Goes(r, "identity", "candidate", {})
  \/ Candidate(r) /\ Goes(r, "candidate", "c-abi", {})
  \/ CAbi(r) /\ Goes(r, "c-abi", "record", {})
  \/ ReleaseRecord(r) /\ Goes(r, "record", "verify", {})
  \/ VerifyBundle(r) /\ Goes(r, "verify", "publish", {"main", "suffix", "cAbi", "npm"})
  \/ NpmPublish(r) /\ Goes(r, "publish", "recapture", {"mode", "orig"})
  \/ NpmPublish(r) /\ Goes(r, "publish", "capture", {"mode", "orig"})
  \/ CaptureFresh(r) /\ Goes(r, "capture", "finalize", {"npm"})

SharedGoes(j) ==
  \/ CaptureRecovery(j) /\ Goes(j, "recapture", "reconstruct", {"provenance", "orig"})
  \/ Reconstruct(j) /\ Goes(j, "reconstruct", "reverify", {"npm"}) /\ j \in Dispatches
  \/ ReVerify(j) /\ Goes(j, "reverify", "finalize", {"npm"}) /\ j \in Dispatches
  \/ Finalize(j) /\ Goes(j, "finalize", "published-record", {"npm"})
  \/ PublishedRecord(j) /\ Goes(j, "published-record", "assemble", {"record"})
  \/ Assemble(j) /\ Goes(j, "assemble", "lookup", {"npm", "cAbi", "record"})
  \/ LookupRelease(j) /\ Goes(j, "lookup", "create", {})
  \/ LookupRelease(j) /\ Goes(j, "lookup", "upload", {})
  \/ CreateRelease(j) /\ Goes(j, "create", "upload", {})
  \/ UploadAsset(j) /\ Goes(j, "upload", "upload", {})
  \/ UploadAsset(j) /\ Goes(j, "upload", "verify-release", {})
  \/ VerifyRelease(j) /\ Goes(j, "verify-release", "done", {})

Moves(j) ==
  \/ job'[j] = job[j]
  \/ Stops(j)
  \/ Begins(j)
  \/ Dispatched(j)
  \/ j \in Runs /\ RunGoes(j)
  \/ j \in Dispatches /\ VerifyDispatch(j) /\ Goes(j, "dispatch", "recapture", {"npm", "cAbi"})
  \/ SharedGoes(j)

Rests(j) == \A k \in Jobs \ {j} : job'[k] = job[k]

LEMMA SetJob ==
  ASSUME Shape, NEW j \in Jobs, NEW value, job' = [job EXCEPT ![j] = value]
  PROVE  DOMAIN job' = Jobs /\ job'[j] = value /\ Rests(j)
BY DEF Shape, Rests

\* A refused step stops the job.
LEMMA Refusal ==
  ASSUME Shape, NEW j \in Jobs, Active(j), job'[j] = Ended(j, TRUE),
         j \in Runs \/ VerifyDispatch(j) \/ Shared(j)
  PROVE  Stops(j)
<1>1. /\ DOMAIN job'[j] = Fields
      /\ job'[j].pc = "failed" /\ job'[j].why = job[j].pc
      /\ job'[j].attempt = job[j].attempt
      /\ job'[j].commit = job[j].commit
      /\ job'[j].orig = job[j].orig
  BY EndedFacts
<1> QED
  BY <1>1 DEF Stops

LEMMA RunMoves ==
  ASSUME Shape, NEW r \in Runs,
         \/ Identity(r) \/ Candidate(r) \/ CAbi(r) \/ ReleaseRecord(r)
         \/ VerifyBundle(r) \/ NpmPublish(r) \/ CaptureFresh(r)
  PROVE  DOMAIN job' = Jobs /\ Rests(r) /\ (Stops(r) \/ RunGoes(r))
<1> r \in Jobs
  BY DEF Jobs
<1>1. CASE Identity(r)
  <2>1. /\ DOMAIN job' = Jobs /\ Rests(r) /\ Active(r)
        /\ \/ Goes(r, "identity", "candidate", {})
           \/ job'[r] = Ended(r, TRUE)
    <3>1. PICK status :
            /\ job[r].pc = "identity"
            /\ Step(r, validateReleaseIdentity(r)
                         /\ checkNpmVersionAvailability(status, job[r].attempt > 1),
                    [job[r] EXCEPT !.pc = "candidate"])
      BY <1>1 DEF Identity
    <3> QED
      BY <3>1 DEF Step, Goes, Shape, JobShape, Fields, Rests, Active
  <2>2. CASE job'[r] = Ended(r, TRUE)
    BY <1>1, <2>1, <2>2, Refusal DEF Shared
  <2> QED
    BY <1>1, <2>1, <2>2 DEF RunGoes
<1>2. CASE Candidate(r)
  <2>1. /\ DOMAIN job' = Jobs /\ Rests(r) /\ Active(r)
        /\ \/ Goes(r, "candidate", "c-abi", {})
           \/ job'[r] = Ended(r, TRUE)
    BY <1>2 DEF Candidate, Step, Goes, Shape, JobShape, Fields, Rests, Active
  <2>2. CASE job'[r] = Ended(r, TRUE)
    BY <1>2, <2>1, <2>2, Refusal DEF Shared
  <2> QED
    BY <1>2, <2>1, <2>2 DEF RunGoes
<1>3. CASE CAbi(r)
  <2>1. /\ DOMAIN job' = Jobs /\ Rests(r) /\ Active(r)
        /\ \/ Goes(r, "c-abi", "record", {})
           \/ job'[r] = Ended(r, TRUE)
    BY <1>3 DEF CAbi, Step, Goes, Shape, JobShape, Fields, Rests, Active
  <2>2. CASE job'[r] = Ended(r, TRUE)
    BY <1>3, <2>1, <2>2, Refusal DEF Shared
  <2> QED
    BY <1>3, <2>1, <2>2 DEF RunGoes
<1>4. CASE ReleaseRecord(r)
  <2>1. /\ DOMAIN job' = Jobs /\ Rests(r) /\ Active(r)
        /\ \/ Goes(r, "record", "verify", {})
           \/ job'[r] = Ended(r, TRUE)
    BY <1>4 DEF ReleaseRecord, Step, Goes, Shape, JobShape, Fields, Rests, Active
  <2>2. CASE job'[r] = Ended(r, TRUE)
    BY <1>4, <2>1, <2>2, Refusal DEF Shared
  <2> QED
    BY <1>4, <2>1, <2>2 DEF RunGoes
<1>5. CASE VerifyBundle(r)
  <2>1. /\ DOMAIN job' = Jobs /\ Rests(r) /\ Active(r)
        /\ \/ Goes(r, "verify", "publish", {"main", "suffix", "cAbi", "npm"})
           \/ job'[r] = Ended(r, TRUE)
    BY <1>5 DEF VerifyBundle, Step, Goes, Shape, JobShape, Fields, Rests, Active
  <2>2. CASE job'[r] = Ended(r, TRUE)
    BY <1>5, <2>1, <2>2, Refusal DEF Shared
  <2> QED
    BY <1>5, <2>1, <2>2 DEF RunGoes
<1>6. CASE NpmPublish(r)
  <2>1. /\ DOMAIN job' = Jobs /\ Rests(r) /\ Active(r)
        /\ \/ Goes(r, "publish", "recapture", {"mode", "orig"})
           \/ Goes(r, "publish", "capture", {"mode", "orig"})
           \/ job'[r] = Ended(r, TRUE)
    <3>1. CASE Artifact("identity", Own(r)).status = "exists"
      <4>1. /\ job[r].pc = "publish"
            /\ Step(r, TRUE, [job[r] EXCEPT !.pc = "recapture", !.mode = "recovered-existing",
                                            !.orig = <<r, None>>, !.source = Own(r)])
        BY <1>6, <3>1 DEF NpmPublish
      <4>2. /\ DOMAIN job' = Jobs /\ Rests(r) /\ Active(r)
            /\ Goes(r, "publish", "recapture", {"mode", "orig"}) \/ job'[r] = Ended(r, TRUE)
        BY <4>1 DEF Step, Goes, Shape, JobShape, Fields, Rests, Active
      <4> QED
        BY <4>2
    <3>2. CASE Artifact("identity", Own(r)).status # "exists"
      <4>1. PICK answered \in BOOLEAN :
              /\ job[r].pc = "publish"
              /\ Step(r, ~Published /\ answered,
                      [job[r] EXCEPT !.pc = "capture", !.mode = "published", !.orig = Own(r)])
        BY <1>6, <3>2 DEF NpmPublish
      <4>2. /\ DOMAIN job' = Jobs /\ Rests(r) /\ Active(r)
            /\ Goes(r, "publish", "capture", {"mode", "orig"}) \/ job'[r] = Ended(r, TRUE)
        BY <4>1 DEF Step, Goes, Shape, JobShape, Fields, Rests, Active
      <4> QED
        BY <4>2
    <3> QED
      BY <3>1, <3>2
  <2>2. CASE job'[r] = Ended(r, TRUE)
    BY <1>6, <2>1, <2>2, Refusal DEF Shared
  <2> QED
    BY <1>6, <2>1, <2>2 DEF RunGoes
<1>7. CASE CaptureFresh(r)
  <2>1. /\ DOMAIN job' = Jobs /\ Rests(r) /\ Active(r)
        /\ \/ Goes(r, "capture", "finalize", {"npm"})
           \/ job'[r] = Ended(r, TRUE)
    BY <1>7 DEF CaptureFresh, Step, Goes, Shape, JobShape, Fields, Rests, Active
  <2>2. CASE job'[r] = Ended(r, TRUE)
    BY <1>7, <2>1, <2>2, Refusal DEF Shared
  <2> QED
    BY <1>7, <2>1, <2>2 DEF RunGoes
<1> QED
  BY <1>1, <1>2, <1>3, <1>4, <1>5, <1>6, <1>7

LEMMA SharedMoves ==
  ASSUME Shape, NEW j \in Jobs, Shared(j)
  PROVE  DOMAIN job' = Jobs /\ Rests(j) /\ (Stops(j) \/ SharedGoes(j))
<1>1. CASE CaptureRecovery(j)
  <2>1. /\ DOMAIN job' = Jobs /\ Rests(j) /\ Active(j)
        /\ \/ Goes(j, "recapture", "reconstruct", {"provenance", "orig"})
           \/ job'[j] = Ended(j, TRUE)
    BY <1>1 DEF CaptureRecovery, Step, Goes, Shape, JobShape, Fields, Rests, Active
  <2>2. CASE job'[j] = Ended(j, TRUE)
    BY <1>1, <2>1, <2>2, Refusal DEF Shared
  <2> QED
    BY <1>1, <2>1, <2>2 DEF SharedGoes
<1>2. CASE Reconstruct(j)
  <2>1. /\ DOMAIN job' = Jobs /\ Rests(j) /\ Active(j)
        /\ \/ Goes(j, "reconstruct", "reverify", {"npm"})
           \/ job'[j] = Ended(j, TRUE)
    BY <1>2 DEF Reconstruct, Step, Goes, Shape, JobShape, Fields, Rests, Active,
           CandidateFiles, assertExactFiles
  <2>2. CASE job'[j] = Ended(j, TRUE)
    BY <1>2, <2>1, <2>2, Refusal DEF Shared
  <2>3. CASE DOMAIN job[j].npm = {"candidate"}
    <3>1. job[j].pc = "reconstruct"
      BY <1>2 DEF Reconstruct
    <3>2. j \in Dispatches
      BY <2>3, <3>1 DEF Shape, JobShape, Jobs
    <3> QED
      BY <1>2, <2>1, <2>2, <3>2 DEF SharedGoes
  <2>4. CASE DOMAIN job[j].npm # {"candidate"}
    <3> job'[j] = Ended(j, TRUE)
      BY <1>2, <2>4 DEF Reconstruct, assertExactFiles, CandidateFiles, Step, Shape
    <3> QED
      BY <2>1, <2>2
  <2> QED
    BY <2>3, <2>4
<1>3. CASE ReVerify(j)
  <2>1. /\ DOMAIN job' = Jobs /\ Rests(j) /\ Active(j)
        /\ \/ Goes(j, "reverify", "finalize", {"npm"})
           \/ job'[j] = Ended(j, TRUE)
    BY <1>3 DEF ReVerify, Step, Goes, Shape, JobShape, Fields, Rests, Active
  <2>2. CASE job'[j] = Ended(j, TRUE)
    BY <1>3, <2>1, <2>2, Refusal DEF Shared
  <2> QED
    BY <1>3, <2>1, <2>2 DEF ReVerify, SharedGoes, Shape, JobShape, Jobs, RunPcs, LatePcs
<1>4. CASE Finalize(j)
  <2>1. /\ DOMAIN job' = Jobs /\ Rests(j) /\ Active(j)
        /\ \/ Goes(j, "finalize", "published-record", {"npm"})
           \/ job'[j] = Ended(j, TRUE)
    BY <1>4 DEF Finalize, Step, Goes, Shape, JobShape, Fields, Rests, Active
  <2>2. CASE job'[j] = Ended(j, TRUE)
    BY <1>4, <2>1, <2>2, Refusal DEF Shared
  <2> QED
    BY <1>4, <2>1, <2>2 DEF SharedGoes
<1>5. CASE PublishedRecord(j)
  <2>1. /\ DOMAIN job' = Jobs /\ Rests(j) /\ Active(j)
        /\ \/ Goes(j, "published-record", "assemble", {"record"})
           \/ job'[j] = Ended(j, TRUE)
    BY <1>5 DEF PublishedRecord, Step, Goes, Shape, JobShape, Fields, Rests, Active
  <2>2. CASE job'[j] = Ended(j, TRUE)
    BY <1>5, <2>1, <2>2, Refusal DEF Shared
  <2> QED
    BY <1>5, <2>1, <2>2 DEF SharedGoes
<1>6. CASE Assemble(j)
  <2>1. /\ DOMAIN job' = Jobs /\ Rests(j) /\ Active(j)
        /\ \/ Goes(j, "assemble", "lookup", {"npm", "cAbi", "record"})
           \/ job'[j] = Ended(j, TRUE)
    BY <1>6 DEF Assemble, Step, Goes, Shape, JobShape, Fields, Rests, Active
  <2>2. CASE job'[j] = Ended(j, TRUE)
    BY <1>6, <2>1, <2>2, Refusal DEF Shared
  <2> QED
    BY <1>6, <2>1, <2>2 DEF SharedGoes
<1>7. CASE LookupRelease(j)
  <2>1. /\ DOMAIN job' = Jobs /\ Rests(j) /\ Active(j)
        /\ \/ Goes(j, "lookup", "create", {})
           \/ Goes(j, "lookup", "upload", {})
           \/ job'[j] = Ended(j, TRUE)
    <3>1. CASE Released
      <4>1. /\ job[j].pc = "lookup"
            /\ Step(j, j \in Runs /\ planMissingAssets(github, LocalAssets(j), job[j].commit),
                    [job[j] EXCEPT !.pc = "upload",
                                   !.todo = DOMAIN LocalAssets(j) \ DOMAIN github.assets])
        BY <1>7, <3>1 DEF LookupRelease
      <4>2. /\ DOMAIN job' = Jobs /\ Rests(j) /\ Active(j)
            /\ Goes(j, "lookup", "upload", {}) \/ job'[j] = Ended(j, TRUE)
        BY <4>1 DEF Step, Goes, Shape, JobShape, Fields, Rests, Active
      <4> QED
        BY <4>2
    <3>2. CASE ~Released
      <4>1. /\ job[j].pc = "lookup"
            /\ Step(j, TRUE, [job[j] EXCEPT !.pc = "create"])
        BY <1>7, <3>2 DEF LookupRelease
      <4>2. /\ DOMAIN job' = Jobs /\ Rests(j) /\ Active(j)
            /\ Goes(j, "lookup", "create", {}) \/ job'[j] = Ended(j, TRUE)
        BY <4>1 DEF Step, Goes, Shape, JobShape, Fields, Rests, Active
      <4> QED
        BY <4>2
    <3> QED
      BY <3>1, <3>2
  <2>2. CASE job'[j] = Ended(j, TRUE)
    BY <1>7, <2>1, <2>2, Refusal DEF Shared
  <2> QED
    BY <1>7, <2>1, <2>2 DEF SharedGoes
<1>8. CASE CreateRelease(j)
  <2>1. /\ DOMAIN job' = Jobs /\ Rests(j) /\ Active(j)
        /\ \/ Goes(j, "create", "upload", {})
           \/ job'[j] = Ended(j, TRUE)
    BY <1>8 DEF CreateRelease, Step, Goes, Shape, JobShape, Fields, Rests, Active
  <2>2. CASE job'[j] = Ended(j, TRUE)
    BY <1>8, <2>1, <2>2, Refusal DEF Shared
  <2> QED
    BY <1>8, <2>1, <2>2 DEF SharedGoes
<1>9. CASE UploadAsset(j)
  <2>1. /\ DOMAIN job' = Jobs /\ Rests(j) /\ Active(j)
        /\ \/ Goes(j, "upload", "upload", {})
           \/ Goes(j, "upload", "verify-release", {})
           \/ job'[j] = Ended(j, TRUE)
    <3>1. CASE job[j].todo = {}
      <4>1. /\ job[j].pc = "upload"
            /\ Step(j, TRUE, [job[j] EXCEPT !.pc = "verify-release"])
        BY <1>9, <3>1 DEF UploadAsset
      <4>2. /\ DOMAIN job' = Jobs /\ Rests(j) /\ Active(j)
            /\ Goes(j, "upload", "verify-release", {}) \/ job'[j] = Ended(j, TRUE)
        BY <4>1 DEF Step, Goes, Shape, JobShape, Fields, Rests, Active
      <4> QED
        BY <4>2
    <3>2. CASE job[j].todo # {}
      <4>1. PICK name \in job[j].todo :
              /\ job[j].pc = "upload"
              /\ Step(j, name \notin DOMAIN github.assets, [job[j] EXCEPT !.todo = @ \ {name}])
        BY <1>9, <3>2 DEF UploadAsset
      <4>2. /\ DOMAIN job' = Jobs /\ Rests(j) /\ Active(j)
            /\ Goes(j, "upload", "upload", {}) \/ job'[j] = Ended(j, TRUE)
        BY <4>1 DEF Step, Goes, Shape, JobShape, Fields, Rests, Active
      <4> QED
        BY <4>2
    <3> QED
      BY <3>1, <3>2
  <2>2. CASE job'[j] = Ended(j, TRUE)
    BY <1>9, <2>1, <2>2, Refusal DEF Shared
  <2> QED
    BY <1>9, <2>1, <2>2 DEF SharedGoes
<1>10. CASE VerifyRelease(j)
  <2>1. /\ DOMAIN job' = Jobs /\ Rests(j) /\ Active(j)
        /\ \/ Goes(j, "verify-release", "done", {})
           \/ job'[j] = Ended(j, TRUE)
    BY <1>10 DEF VerifyRelease, Step, Goes, Shape, JobShape, Fields, Rests, Active
  <2>2. CASE job'[j] = Ended(j, TRUE)
    BY <1>10, <2>1, <2>2, Refusal DEF Shared
  <2> QED
    BY <1>10, <2>1, <2>2 DEF SharedGoes
<1> QED
  BY <1>1, <1>2, <1>3, <1>4, <1>5, <1>6, <1>7, <1>8, <1>9, <1>10 DEF Shared

LEMMA DispatchMoves ==
  ASSUME Shape, NEW d \in Dispatches, VerifyDispatch(d)
  PROVE  /\ DOMAIN job' = Jobs /\ Rests(d)
         /\ Stops(d) \/ Goes(d, "dispatch", "recapture", {"npm", "cAbi"})
<1> d \in Jobs
  BY DEF Jobs
<1>1. /\ DOMAIN job' = Jobs /\ Rests(d) /\ Active(d)
      /\ \/ Goes(d, "dispatch", "recapture", {"npm", "cAbi"})
         \/ job'[d] = Ended(d, TRUE)
  BY DEF VerifyDispatch, Step, Goes, Shape, JobShape, Fields, Rests, Active
<1>2. CASE job'[d] = Ended(d, TRUE)
  BY <1>1, <1>2, Refusal
<1> QED
  BY <1>1, <1>2

\* A job that is interrupted, or cancelled by another run.
LEMMA Interrupted ==
  ASSUME NEW j \in Jobs, Active(j), job'[j] = Ended(j, FALSE)
  PROVE  Stops(j)
<1>1. /\ DOMAIN job'[j] = Fields
      /\ job'[j].pc = "failed" /\ job'[j].why = job[j].pc
      /\ job'[j].attempt = job[j].attempt
      /\ job'[j].commit = job[j].commit
      /\ job'[j].orig = job[j].orig
      /\ job'[j].refused = FALSE
  BY EndedFacts
<1> QED
  BY <1>1 DEF Stops

\* The begin of a run or of an attempt cancels the other runs.
LEMMA Cancelled ==
  ASSUME Shape, NEW r \in Runs, NEW value, job' = [CancelOthers(r) EXCEPT ![r] = value]
  PROVE  /\ DOMAIN job' = Jobs /\ job'[r] = value
         /\ \A k \in Jobs \ {r} : job'[k] = job[k] \/ Stops(k)
<1>1. /\ DOMAIN CancelOthers(r) = Jobs /\ r \in Jobs
      /\ \A k \in Jobs \ {r} : \/ CancelOthers(r)[k] = job[k]
                               \/ Active(k) /\ CancelOthers(r)[k] = Ended(k, FALSE)
  BY DEF CancelOthers, Jobs
<1>2. DOMAIN job' = Jobs /\ job'[r] = value
  BY <1>1
<1>3. ASSUME NEW k \in Jobs \ {r} PROVE job'[k] = job[k] \/ Stops(k)
  <2>1. job'[k] = CancelOthers(r)[k]
    BY <1>1
  <2> QED
    BY <1>1, <2>1, Interrupted
<1> QED
  BY <1>2, <1>3

LEMMA TagMoves ==
  ASSUME Shape, NEW r \in Runs, PushTag(r)
  PROVE  DOMAIN job' = Jobs /\ \A k \in Jobs : Moves(k)
<1> r \in Jobs
  BY DEF Jobs
<1>1. PICK commit \in Commits, created \in BOOLEAN :
        job' = [CancelOthers(r) EXCEPT ![r] =
                  [NoJob EXCEPT !.pc = "identity", !.attempt = 1, !.commit = commit,
                                !.created = created]]
  BY DEF PushTag
<1>2. /\ DOMAIN job' = Jobs
      /\ job'[r] = [NoJob EXCEPT !.pc = "identity", !.attempt = 1, !.commit = commit,
                                 !.created = created]
      /\ \A k \in Jobs \ {r} : job'[k] = job[k] \/ Stops(k)
  BY <1>1, Cancelled
<1>3. /\ DOMAIN job'[r] = Fields
      /\ job'[r].pc = "identity" /\ job'[r].attempt = 1 /\ job'[r].commit = commit
  BY <1>2 DEF NoJob, Fields
<1>4. job[r].pc = "none" /\ job[r].attempt = 0
  BY DEF PushTag, Shape, JobShape
<1>5. Begins(r)
  BY <1>3, <1>4, ReleaseAssumption DEF Begins
<1> QED
  BY <1>2, <1>5 DEF Moves

LEMMA RerunMoves ==
  ASSUME Shape, NEW r \in Runs, Rerun(r)
  PROVE  DOMAIN job' = Jobs /\ \A k \in Jobs : Moves(k)
<1> r \in Jobs
  BY DEF Jobs
<1>1. PICK start \in {"identity"}
                       \cup (IF job[r].pc = "failed" THEN {JobOf(job[r].why)} ELSE {}) :
        job' = [CancelOthers(r) EXCEPT ![r] =
                  [NoJob EXCEPT !.pc = start, !.attempt = job[r].attempt + 1,
                                !.commit = job[r].commit, !.created = job[r].created]]
  BY DEF Rerun
<1>2. /\ DOMAIN job' = Jobs
      /\ job'[r] = [NoJob EXCEPT !.pc = start, !.attempt = job[r].attempt + 1,
                                 !.commit = job[r].commit, !.created = job[r].created]
      /\ \A k \in Jobs \ {r} : job'[k] = job[k] \/ Stops(k)
  BY <1>1, Cancelled
<1>3. /\ DOMAIN job'[r] = Fields
      /\ job'[r].pc = start /\ job'[r].attempt = job[r].attempt + 1
      /\ job'[r].commit = job[r].commit
  BY <1>2 DEF NoJob, Fields
<1>4. /\ job[r].pc \in {"failed", "done"} /\ job[r].attempt < MaxAttempt
      /\ job[r].attempt \in 1 .. MaxAttempt /\ job[r].commit \in Commits
      /\ job[r].pc = "failed" => job[r].why \in RunPcs
  BY DEF Rerun, Over, Shape, JobShape
<1>5. start \in {"identity", "candidate", "c-abi", "record", "verify", "assemble"}
  BY <1>1, <1>4 DEF JobOf, RunPcs, LatePcs
<1>6. Begins(r)
  BY <1>3, <1>4, <1>5, ReleaseAssumption DEF Begins
<1> QED
  BY <1>2, <1>6 DEF Moves

LEMMA NewDispatchMoves ==
  ASSUME Shape, NEW d \in Dispatches, Dispatch(d)
  PROVE  DOMAIN job' = Jobs /\ \A k \in Jobs : Moves(k)
<1> d \in Jobs
  BY DEF Jobs
<1>1. PICK orig \in Attempts, source \in Attempts, suffix \in Attempts, commit \in Commits :
        job' = [job EXCEPT ![d] = [NoJob EXCEPT
                  !.pc = "dispatch", !.attempt = 1, !.commit = commit, !.orig = orig,
                  !.source = source, !.suffix = suffix, !.main = main,
                  !.mode = "recovered-existing"]]
  BY DEF Dispatch
<1>2. /\ DOMAIN job' = Jobs /\ Rests(d)
      /\ job'[d] = [NoJob EXCEPT
                  !.pc = "dispatch", !.attempt = 1, !.commit = commit, !.orig = orig,
                  !.source = source, !.suffix = suffix, !.main = main,
                  !.mode = "recovered-existing"]
  BY <1>1, SetJob
<1>3. /\ job'[d].pc = "dispatch" /\ job'[d].attempt = 1 /\ job'[d].commit = commit
      /\ job'[d].orig = orig /\ job'[d].source = source /\ job'[d].suffix = suffix
      /\ job'[d].main = main /\ job'[d].mode = "recovered-existing"
  BY <1>2 DEF NoJob
<1>4. job'[d].refused = FALSE
  BY <1>2 DEF NoJob
<1>5. DOMAIN job'[d] = Fields
  BY <1>2, NoJobFields
<1>6. Dispatched(d)
  BY <1>3, <1>4, <1>5 DEF Dispatched, Dispatch
<1> QED
  BY <1>2, <1>6 DEF Moves, Rests

\* Every step of the system is, for each job, a step of the table.
LEMMA AllMove ==
  ASSUME Shape, [Next]_vars
  PROVE  DOMAIN job' = Jobs /\ \A k \in Jobs : Moves(k)
<1>1. CASE UNCHANGED job
  BY <1>1 DEF Shape, Moves
<1>2. CASE \E r \in Runs : PushTag(r) \/ Rerun(r)
  BY <1>2, TagMoves, RerunMoves
<1>3. CASE \E d \in Dispatches : Dispatch(d)
  BY <1>3, NewDispatchMoves
<1>4. ASSUME NEW j \in Jobs, Interrupt(j)
      PROVE  DOMAIN job' = Jobs /\ \A k \in Jobs : Moves(k)
  <2>1. job' = [job EXCEPT ![j] = Ended(j, FALSE)] /\ Active(j)
    BY <1>4 DEF Interrupt
  <2>2. DOMAIN job' = Jobs /\ job'[j] = Ended(j, FALSE) /\ Rests(j)
    BY <2>1, SetJob
  <2>3. Stops(j)
    BY <2>1, <2>2, Interrupted
  <2> QED
    BY <2>2, <2>3 DEF Moves, Rests
<1>5. ASSUME NEW r \in Runs, ReleaseRun(r)
      PROVE  DOMAIN job' = Jobs /\ \A k \in Jobs : Moves(k)
  <2>1. r \in Jobs
    BY DEF Jobs
  <2>2. DOMAIN job' = Jobs /\ Rests(r) /\ (Stops(r) \/ RunGoes(r) \/ SharedGoes(r))
    BY <1>5, <2>1, RunMoves, SharedMoves DEF ReleaseRun
  <2> QED
    BY <2>2 DEF Moves, Rests
<1>6. ASSUME NEW d \in Dispatches, RecoveryRun(d)
      PROVE  DOMAIN job' = Jobs /\ \A k \in Jobs : Moves(k)
  <2>1. d \in Jobs
    BY DEF Jobs
  <2>2. CASE VerifyDispatch(d)
    BY <2>2, DispatchMoves DEF Moves, Rests
  <2>3. CASE Shared(d)
    BY <2>1, <2>3, SharedMoves DEF Moves, Rests
  <2> QED
    BY <1>6, <2>2, <2>3 DEF RecoveryRun
<1> QED
  BY <1>1, <1>2, <1>3, <1>4, <1>5, <1>6
     DEF Next, Environment, PushMain, DeleteTag, HandRelease, vars

-----------------------------------------------------------------------------
(* What a step does to the rest of the state *)

Uploads(r) ==
  Identity(r) \/ Candidate(r) \/ CAbi(r) \/ ReleaseRecord(r) \/ PublishedRecord(r)

Effects ==
  /\ main' = main \/ main' = main + 1
  /\ registry' = registry \/ \E r \in Runs : NpmPublish(r)
  /\ artifacts' = artifacts \/ \E r \in Runs : Uploads(r)
  /\ github' = github \/ HandRelease \/ \E j \in Jobs : CreateRelease(j) \/ UploadAsset(j)

LEMMA SharedEffects ==
  ASSUME NEW j \in Jobs, Shared(j)
  PROVE  Effects
<1>1. CASE PublishedRecord(j)
  <2>1. main' = main /\ registry' = registry /\ github' = github
    BY <1>1 DEF PublishedRecord
  <2>2. artifacts' = artifacts \/ j \in Runs
    BY <1>1 DEF PublishedRecord
  <2> QED
    BY <1>1, <2>1, <2>2 DEF Effects, Uploads
<1>2. CASE CreateRelease(j) \/ UploadAsset(j)
  <2>1. main' = main /\ registry' = registry /\ artifacts' = artifacts
    BY <1>2 DEF CreateRelease, UploadAsset
  <2> QED
    BY <1>2, <2>1 DEF Effects
<1>3. ASSUME main' = main, registry' = registry, artifacts' = artifacts, github' = github
      PROVE  Effects
  BY <1>3 DEF Effects
<1>4. CASE CaptureRecovery(j)
  BY <1>3, <1>4 DEF CaptureRecovery
<1>5. CASE Reconstruct(j)
  BY <1>3, <1>5 DEF Reconstruct
<1>6. CASE ReVerify(j)
  BY <1>3, <1>6 DEF ReVerify
<1>7. CASE Finalize(j)
  BY <1>3, <1>7 DEF Finalize
<1>8. CASE Assemble(j)
  BY <1>3, <1>8 DEF Assemble
<1>9. CASE LookupRelease(j)
  BY <1>3, <1>9 DEF LookupRelease
<1>10. CASE VerifyRelease(j)
  BY <1>3, <1>10 DEF VerifyRelease
<1> QED
  BY <1>1, <1>2, <1>4, <1>5, <1>6, <1>7, <1>8, <1>9, <1>10 DEF Shared

LEMMA AllEffects ==
  ASSUME [Next]_vars
  PROVE  Effects
<1>1. ASSUME main' = main, registry' = registry, artifacts' = artifacts, github' = github
      PROVE  Effects
  BY <1>1 DEF Effects
<1>2. CASE UNCHANGED vars
  BY <1>1, <1>2 DEF vars
<1>3. CASE Environment
  <2>1. CASE PushMain
    BY <2>1 DEF PushMain, Effects
  <2>2. CASE HandRelease
    <3>1. main' = main /\ registry' = registry /\ artifacts' = artifacts
      BY <2>2 DEF HandRelease
    <3> QED
      BY <2>2, <3>1 DEF Effects
  <2>3. CASE DeleteTag
    BY <1>1, <2>3 DEF DeleteTag
  <2>4. CASE \E r \in Runs : PushTag(r) \/ Rerun(r)
    BY <1>1, <2>4 DEF PushTag, Rerun
  <2>5. CASE \E d \in Dispatches : Dispatch(d)
    BY <1>1, <2>5 DEF Dispatch
  <2>6. CASE \E j \in Jobs : Interrupt(j)
    BY <1>1, <2>6 DEF Interrupt
  <2> QED
    BY <1>3, <2>1, <2>2, <2>3, <2>4, <2>5, <2>6 DEF Environment
<1>4. ASSUME NEW r \in Runs, ReleaseRun(r)
      PROVE  Effects
  <2>1. r \in Jobs
    BY DEF Jobs
  <2>2. CASE Uploads(r)
    <3>1. main' = main /\ registry' = registry /\ github' = github
      BY <2>2 DEF Uploads, Identity, Candidate, CAbi, ReleaseRecord, PublishedRecord
    <3> QED
      BY <2>2, <3>1 DEF Effects
  <2>3. CASE NpmPublish(r)
    <3>1. main' = main /\ artifacts' = artifacts /\ github' = github
      BY <2>3 DEF NpmPublish
    <3> QED
      BY <2>3, <3>1 DEF Effects
  <2>4. CASE VerifyBundle(r) \/ CaptureFresh(r)
    BY <1>1, <2>4 DEF VerifyBundle, CaptureFresh
  <2> QED
    BY <1>4, <2>1, <2>2, <2>3, <2>4, SharedEffects DEF ReleaseRun, Uploads
<1>5. ASSUME NEW d \in Dispatches, RecoveryRun(d)
      PROVE  Effects
  <2>1. d \in Jobs
    BY DEF Jobs
  <2>2. CASE VerifyDispatch(d)
    BY <1>1, <2>2 DEF VerifyDispatch
  <2> QED
    BY <1>5, <2>1, <2>2, SharedEffects DEF RecoveryRun
<1> QED
  BY <1>2, <1>3, <1>4, <1>5 DEF Next

LEMMA GithubStep ==
  ASSUME Shape, [Next]_vars
  PROVE  /\ DOMAIN github' = {"target", "assets", "digests"}
         /\ Released =>
              /\ github'.target = github.target
              /\ \A name \in DOMAIN github.assets :
                    name \in DOMAIN github'.assets /\ github'.assets[name] = github.assets[name]
<1> DEFINE Goal == /\ DOMAIN github' = {"target", "assets", "digests"}
                   /\ Released =>
                        /\ github'.target = github.target
                        /\ \A name \in DOMAIN github.assets :
                              /\ name \in DOMAIN github'.assets
                              /\ github'.assets[name] = github.assets[name]
<1>1. CASE github' = github
  BY <1>1 DEF Shape
<1>2. CASE HandRelease
  <2>1. ~Released /\ DOMAIN github' = {"target", "assets", "digests"}
    BY <1>2 DEF HandRelease
  <2> QED
    BY <2>1
<1>3. ASSUME NEW j \in Jobs, CreateRelease(j)
      PROVE  Goal
  <2>1. \/ github' = github
        \/ ~Released /\ github' = [target |-> job[j].commit, assets |-> Empty, digests |-> {}]
    BY <1>3 DEF CreateRelease
  <2>2. CASE ~Released /\ github' = [target |-> job[j].commit, assets |-> Empty, digests |-> {}]
    BY <2>2
  <2> QED
    BY <1>1, <2>1, <2>2
<1>4. ASSUME NEW j \in Jobs, UploadAsset(j)
      PROVE  Goal
  <2>1. CASE job[j].todo = {}
    BY <1>1, <1>4, <2>1 DEF UploadAsset
  <2>2. CASE job[j].todo # {}
    <3>1. PICK name \in job[j].todo :
            github' = IF name \notin DOMAIN github.assets
                      THEN [github EXCEPT !.assets = Write(@, name, LocalAssets(j)[name]),
                                          !.digests = @ \cup {name}]
                      ELSE github
      BY <1>4, <2>2 DEF UploadAsset
    <3>2. CASE name \notin DOMAIN github.assets
      <4> DEFINE content == LocalAssets(j)[name]
      <4>1. github' = [github EXCEPT !.assets = Write(@, name, content),
                                     !.digests = @ \cup {name}]
        BY <3>1, <3>2
      <4> HIDE DEF content
      <4>2. /\ DOMAIN github' = {"target", "assets", "digests"}
            /\ github'.target = github.target
            /\ github'.assets = Write(github.assets, name, content)
        BY <4>1 DEF Shape
      <4>3. \A x \in DOMAIN github.assets :
              /\ x \in DOMAIN Write(github.assets, name, content)
              /\ Write(github.assets, name, content)[x] = github.assets[x]
        BY <3>2 DEF Write
      <4> QED
        BY <4>2, <4>3
    <3> QED
      BY <1>1, <3>1, <3>2
  <2> QED
    BY <2>1, <2>2
<1> QED
  BY <1>1, <1>2, <1>3, <1>4, AllEffects DEF Effects

LEMMA GoesShape ==
  ASSUME NEW j \in Jobs, JobShape(j), NEW from, NEW to, NEW S, Goes(j, from, to, S),
         j \in Runs => to \in (RunPcs \cup {"done"}) \ {"publish", "capture", "recapture",
                                                        "reconstruct"},
         j \in Dispatches => to \in DispatchPcs \cup {"done"}, from # "none", from # "failed"
  PROVE  JobShape(j)'
BY DEF Jobs, JobShape, Goes, RunPcs, DispatchPcs, LatePcs

LEMMA GoesShapeEvidence ==
  ASSUME NEW r \in Runs, JobShape(r), NEW from, NEW to, NEW S, Goes(r, from, to, S),
         to \in RunPcs, from # "none", from # "failed",
         DOMAIN job'[r].npm = {"candidate", "release-operation"}
  PROVE  JobShape(r)'
<1> r \notin Dispatches
  BY ReleaseAssumption
<1> QED
  BY DEF JobShape, Goes, RunPcs, LatePcs

LEMMA BundleFiles ==
  ASSUME Shape, NEW r \in Runs, VerifyBundle(r), job'[r].pc = "publish"
  PROVE  /\ DOMAIN job'[r].npm = {"candidate", "release-operation"}
         /\ job'[r].npm["candidate"] = Artifact("npm", Own(r))
         /\ job'[r].npm["release-operation"]
              = Operation(job[r].commit, Artifact("npm", Own(r)).tarball)
<1> DEFINE npm == Write(Write(Empty, "candidate", Artifact("npm", Own(r))),
                        "release-operation",
                        Operation(job[r].commit, Artifact("npm", Own(r)).tarball))
<1>1. r \in Jobs
  BY DEF Jobs
<1>2. job'[r].npm = npm \/ job'[r] = Ended(r, TRUE)
  BY <1>1 DEF VerifyBundle, Step, Shape, JobShape, Fields
<1>3. job'[r] # Ended(r, TRUE)
  BY EndedFacts
<1>4. /\ DOMAIN npm = {"candidate", "release-operation"}
      /\ npm["candidate"] = Artifact("npm", Own(r))
      /\ npm["release-operation"]
           = Operation(job[r].commit, Artifact("npm", Own(r)).tarball)
  BY DEF Write, Empty
<1> QED
  BY <1>2, <1>3, <1>4

LEMMA InitShape == Init => Shape
<1> SUFFICES ASSUME Init PROVE Shape
  OBVIOUS
<1>1. ASSUME NEW j \in Jobs PROVE JobShape(j)
  <2>1. job[j] = NoJob
    BY DEF Init
  <2>2. NoJob.pc = "none" /\ NoJob.attempt = 0 /\ NoJob.refused = FALSE
    BY DEF NoJob
  <2> QED
    BY <2>1, <2>2, NoJobFields, ReleaseAssumption DEF JobShape
<1> QED
  BY <1>1 DEF Init, Shape, NoRelease

LEMMA NextShape == Shape /\ [Next]_vars => Shape'
<1> SUFFICES ASSUME Shape, [Next]_vars PROVE Shape'
  OBVIOUS
<1>1. ASSUME NEW j \in Jobs PROVE JobShape(j)'
  <2>1. JobShape(j) /\ Moves(j)
    BY AllMove DEF Shape
  <2>2. CASE job'[j] = job[j]
    BY <2>1, <2>2 DEF JobShape
  <2>3. CASE Stops(j)
    BY <2>1, <2>3 DEF JobShape, Stops, Active
  <2>4. CASE Begins(j)
    <3>1. j \notin Dispatches
      BY <2>4, ReleaseAssumption DEF Begins
    <3> QED
      BY <2>4, <3>1 DEF JobShape, Begins, RunPcs
  <2>5. CASE Dispatched(j)
    <3>1. j \notin Runs
      BY <2>5, ReleaseAssumption DEF Dispatched
    <3> QED
      BY <2>5, <3>1, ReleaseAssumption DEF JobShape, Dispatched, DispatchPcs
  <2>6. CASE j \in Runs /\ RunGoes(j)
    <3>1. j \notin Dispatches
      BY <2>6, ReleaseAssumption
    <3>2. CASE VerifyBundle(j) /\ Goes(j, "verify", "publish", {"main", "suffix", "cAbi", "npm"})
      <4>1. DOMAIN job'[j].npm = {"candidate", "release-operation"}
        BY <2>6, <3>2, BundleFiles DEF Goes
      <4> QED
        BY <2>1, <2>6, <3>2, <4>1, GoesShapeEvidence DEF RunPcs
    <3>3. CASE \/ Goes(j, "publish", "recapture", {"mode", "orig"})
               \/ Goes(j, "publish", "capture", {"mode", "orig"})
      <4>1. DOMAIN job'[j].npm = {"candidate", "release-operation"}
        BY <2>1, <2>6, <3>3 DEF Goes, JobShape
      <4> QED
        BY <2>1, <2>6, <3>3, <4>1, GoesShapeEvidence DEF RunPcs
    <3> QED
      BY <2>1, <2>6, <3>1, <3>2, <3>3, GoesShape DEF RunGoes, RunPcs
  <2>7. CASE j \in Dispatches /\ Goes(j, "dispatch", "recapture", {"npm", "cAbi"})
    <3>1. j \notin Runs
      BY <2>7, ReleaseAssumption
    <3> QED
      BY <2>1, <2>7, <3>1, GoesShape DEF DispatchPcs
  <2>8. CASE SharedGoes(j)
    <3>1. CASE Goes(j, "recapture", "reconstruct", {"provenance", "orig"})
      <4>1. CASE j \in Runs
        <5>1. DOMAIN job'[j].npm = {"candidate", "release-operation"}
          BY <2>1, <3>1, <4>1 DEF Goes, JobShape
        <5> QED
          BY <2>1, <3>1, <4>1, <5>1, GoesShapeEvidence DEF RunPcs
      <4>2. CASE j \notin Runs
        BY <2>1, <3>1, <4>2, GoesShape DEF DispatchPcs
      <4> QED
        BY <4>1, <4>2
    <3>2. CASE \/ j \in Dispatches /\ Goes(j, "reconstruct", "reverify", {"npm"})
               \/ j \in Dispatches /\ Goes(j, "reverify", "finalize", {"npm"})
      <4>1. j \notin Runs
        BY <3>2, ReleaseAssumption
      <4> QED
        BY <2>1, <3>2, <4>1, GoesShape DEF DispatchPcs
    <3> QED
      BY <2>1, <2>8, <3>1, <3>2, GoesShape DEF SharedGoes, RunPcs, DispatchPcs, LatePcs
  <2> QED
    BY <2>1, <2>2, <2>3, <2>4, <2>5, <2>6, <2>7, <2>8 DEF Moves
<1>2. main' \in Nat
  BY AllEffects DEF Effects, Shape
<1> QED
  BY <1>1, <1>2, AllMove, GithubStep DEF Shape

LEMMA ShapeInductive == Spec => []Shape
BY InitShape, NextShape, PTL DEF Spec

(* No attempt, recovery or resumption retargets a release, drops an asset or changes its
   bytes, for any number of runs, dispatches and faults (planMissingAssets, gh release
   create and upload without clobbering).                                               *)
THEOREM GrowingRelease == Spec => ReleaseOnlyGrows
<1>1. Shape /\ [Next]_vars =>
        [Released =>
           /\ github'.target = github.target
           /\ \A name \in DOMAIN github.assets :
                 name \in DOMAIN github'.assets
                   /\ github'.assets[name] = github.assets[name]]_vars
  BY GithubStep
<1> QED
  BY <1>1, ShapeInductive, PTL DEF Spec, ReleaseOnlyGrows

-----------------------------------------------------------------------------
(* Artifacts are written once *)

\* The steps at which an attempt has not uploaded an artifact of the kind yet.
Before(kind) ==
  IF kind = "identity" THEN {"identity"}
  ELSE IF kind = "npm" THEN {"identity", "candidate"}
  ELSE IF kind = "c-abi" THEN {"identity", "candidate", "c-abi"}
  ELSE IF kind = "record" THEN {"identity", "candidate", "c-abi", "record"}
  ELSE {"identity", "candidate", "c-abi", "record", "verify", "publish", "capture",
        "recapture", "reconstruct", "finalize", "published-record"}

Kinds == {"identity", "npm", "c-abi", "record", "published"}

\* What an attempt has uploaded, it has reached the step for; what it has not reached yet
\* is not there. The identity is of the run's commit, the builds of the attempt.
ArtifactInv(at) ==
  /\ \A kind \in Kinds : Uploaded(kind, at) =>
       /\ at[2] <= job[at[1]].attempt
       /\ at[2] = job[at[1]].attempt => job[at[1]].pc \notin Before(kind)
  /\ Uploaded("identity", at) => /\ Artifact("identity", at).commit = job[at[1]].commit
                                 /\ Artifact("identity", at).main \in Nat
                                 /\ Artifact("identity", at).main <= main
  /\ Uploaded("npm", at) => Artifact("npm", at).built = at
  /\ Uploaded("c-abi", at) => Artifact("c-abi", at).built = at

ArtifactsInv == \A at \in Attempts : ArtifactInv(at)

\* What an attempt uploads, at the last step before it is there.
Content(kind, r, content) ==
  /\ kind = "identity" => content.commit = job[r].commit /\ content.main = main
  /\ kind \in {"npm", "c-abi"} => content.built = Own(r)
  /\ kind = "published" => PublishedRecord(r) /\ content.npm = job[r].npm

Writes(kind, r, content) ==
  /\ artifacts' = Write(artifacts, <<kind, Own(r)>>, content)
  /\ Content(kind, r, content)
  /\ job[r].pc \in Before(kind)
  /\ job'[r].attempt = job[r].attempt /\ job'[r].commit = job[r].commit
  /\ job'[r].pc \notin Before(kind)

LEMMA UploadStep ==
  ASSUME Shape, NEW r \in Runs, Uploads(r)
  PROVE  artifacts' = artifacts \/ \E kind \in Kinds : \E content : Writes(kind, r, content)
<1> r \in Jobs
  BY DEF Jobs
<1>1. CASE Identity(r)
  <2>1. PICK status : LET ok == /\ validateReleaseIdentity(r)
                                /\ checkNpmVersionAvailability(status, job[r].attempt > 1)
                      IN  /\ Step(r, ok, [job[r] EXCEPT !.pc = "candidate"])
                          /\ IF ok
                             THEN Upload("identity", Own(r), [commit |-> job[r].commit,
                                                             main |-> main, status |-> status])
                             ELSE UNCHANGED artifacts
    BY <1>1 DEF Identity
  <2>2. CASE artifacts' # artifacts
    <3> DEFINE content == [commit |-> job[r].commit, main |-> main, status |-> status]
    <3>1. /\ job' = [job EXCEPT ![r] = [job[r] EXCEPT !.pc = "candidate"]]
          /\ artifacts' = Write(artifacts, <<"identity", Own(r)>>, content)
      BY <2>1, <2>2 DEF Step, Upload
    <3>2. /\ job'[r].pc = "candidate"
          /\ job'[r].attempt = job[r].attempt /\ job'[r].commit = job[r].commit
      BY <3>1 DEF Shape, JobShape, Fields
    <3>3. Writes("identity", r, content)
      BY <1>1, <3>1, <3>2 DEF Writes, Content, Before, Identity
    <3> QED
      BY <3>3 DEF Kinds
  <2> QED
    BY <2>2
<1>2. CASE Candidate(r)
  <2>1. PICK b \in Builds :
          Upload("npm", Own(r), [built |-> Own(r), tarball |-> <<job[r].commit, b>>])
    BY <1>2 DEF Candidate
  <2> DEFINE content == [built |-> Own(r), tarball |-> <<job[r].commit, b>>]
  <2>2. artifacts' = Write(artifacts, <<"npm", Own(r)>>, content)
    BY <2>1 DEF Upload
  <2>3. /\ job[r].pc = "candidate" /\ job'[r].pc = "c-abi"
        /\ job'[r].attempt = job[r].attempt /\ job'[r].commit = job[r].commit
    BY <1>2 DEF Candidate, Step, Shape, JobShape, Fields
  <2>4. Writes("npm", r, content)
    BY <2>2, <2>3 DEF Writes, Content, Before
  <2> QED
    BY <2>4 DEF Kinds
<1>3. CASE CAbi(r)
  <2> DEFINE content == [built |-> Own(r), commit |-> job[r].commit]
  <2>1. artifacts' = Write(artifacts, <<"c-abi", Own(r)>>, content)
    BY <1>3 DEF CAbi, Upload
  <2>2. /\ job[r].pc = "c-abi" /\ job'[r].pc = "record"
        /\ job'[r].attempt = job[r].attempt /\ job'[r].commit = job[r].commit
    BY <1>3 DEF CAbi, Step, Shape, JobShape, Fields
  <2>3. Writes("c-abi", r, content)
    BY <2>1, <2>2 DEF Writes, Content, Before
  <2> QED
    BY <2>3 DEF Kinds
<1>4. CASE ReleaseRecord(r)
  <2>1. CASE artifacts' # artifacts
    <3> DEFINE content == createReleaseRecord(job[r].commit,
                            Write(Empty, "candidate", Artifact("npm", Own(r))),
                            Artifact("c-abi", Own(r)))
    <3>1. artifacts' = Write(artifacts, <<"record", Own(r)>>, content)
      BY <1>4, <2>1 DEF ReleaseRecord, Upload
    <3>2. job' = [job EXCEPT ![r] = [job[r] EXCEPT !.pc = "verify"]] /\ job[r].pc = "record"
      BY <1>4, <2>1 DEF ReleaseRecord, Step
    <3>3. /\ job'[r].pc = "verify"
          /\ job'[r].attempt = job[r].attempt /\ job'[r].commit = job[r].commit
      BY <3>2 DEF Shape, JobShape, Fields
    <3> HIDE DEF content
    <3>4. Writes("record", r, content)
      BY <3>1, <3>2, <3>3 DEF Writes, Content, Before
    <3> QED
      BY <3>4 DEF Kinds
  <2> QED
    BY <2>1
<1>5. CASE PublishedRecord(r)
  <2>1. CASE artifacts' # artifacts
    <3> DEFINE record == createReleaseRecord(job[r].commit, job[r].npm, job[r].cAbi)
               content == [npm |-> job[r].npm, record |-> record]
    <3>1. artifacts' = Write(artifacts, <<"published", Own(r)>>, content)
      BY <1>5, <2>1 DEF PublishedRecord, Upload
    <3>2. /\ job' = [job EXCEPT ![r] = [job[r] EXCEPT !.pc = "assemble", !.record = record]]
          /\ job[r].pc = "published-record"
      BY <1>5, <2>1 DEF PublishedRecord, Step
    <3> HIDE DEF record
    <3>3. /\ job'[r].pc = "assemble"
          /\ job'[r].attempt = job[r].attempt /\ job'[r].commit = job[r].commit
      BY <3>2 DEF Shape, JobShape, Fields
    <3>4. content.npm = job[r].npm
      OBVIOUS
    <3> HIDE DEF content
    <3>5. Writes("published", r, content)
      BY <1>5, <3>1, <3>2, <3>3, <3>4 DEF Writes, Content, Before
    <3> QED
      BY <3>5 DEF Kinds
  <2> QED
    BY <2>1
<1> QED
  BY <1>1, <1>2, <1>3, <1>4, <1>5 DEF Uploads

\* The effect of one upload on what can be downloaded.
LEMMA WritesFacts ==
  ASSUME NEW kind, NEW r, NEW content, NEW k2, NEW at,
         artifacts' = Write(artifacts, <<kind, Own(r)>>, content)
  PROVE  /\ k2 = kind /\ at = Own(r) =>
              <<k2, at>> \in DOMAIN artifacts' /\ artifacts'[<<k2, at>>] = content
         /\ k2 # kind \/ at # Own(r) =>
              /\ <<k2, at>> \in DOMAIN artifacts' <=> Uploaded(k2, at)
              /\ Uploaded(k2, at) => artifacts'[<<k2, at>>] = Artifact(k2, at)
BY DEF Write, Uploaded, Artifact

\* Until `npm publish' has been called.
Unpublished == {"identity", "candidate", "c-abi", "record", "verify", "publish"}

LEMMA Kind ==
  ASSUME NEW kind \in Kinds
  PROVE  /\ "none" \notin Before(kind) /\ "failed" \notin Before(kind)
         /\ "done" \notin Before(kind) /\ "assemble" \notin Before(kind)
         /\ \A pc \in LatePcs : pc \notin Before(kind)
BY DEF Kinds, Before, LatePcs

\* Within an attempt no step is taken twice, and a failed attempt stays failed.
LEMMA Forward ==
  ASSUME Shape, [Next]_vars, NEW r \in Runs
  PROVE  /\ job[r].attempt \in Nat /\ job'[r].attempt \in Nat
         /\ job[r].attempt <= job'[r].attempt
         /\ job[r].pc # "none" => job'[r].pc # "none" /\ job'[r].commit = job[r].commit
         /\ job'[r].attempt = job[r].attempt =>
              /\ job[r].pc = "failed" => job'[r].pc = "failed"
              /\ job[r].pc \notin Unpublished /\ job[r].pc # "none" =>
                   job'[r].pc \notin Unpublished
              /\ \A kind \in Kinds : job[r].pc \notin Before(kind) /\ job[r].pc # "none" =>
                                       job'[r].pc \notin Before(kind)
<1>1. r \in Jobs /\ r \notin Dispatches
  BY ReleaseAssumption DEF Jobs
<1>2. JobShape(r) /\ Moves(r)
  BY <1>1, AllMove DEF Shape
<1>3. job[r].attempt \in Nat
  BY <1>2, ReleaseAssumption DEF JobShape
<1>4. CASE job'[r] = job[r]
  BY <1>3, <1>4
<1>5. CASE Stops(r)
  BY <1>3, <1>5, Kind DEF Stops, Active, Unpublished
<1>6. CASE Begins(r)
  BY <1>3, <1>6 DEF Begins
<1>7. CASE RunGoes(r)
  BY <1>3, <1>7 DEF RunGoes, Goes, Unpublished, Kinds, Before
<1>8. CASE SharedGoes(r)
  BY <1>1, <1>3, <1>8 DEF SharedGoes, Goes, Unpublished, Kinds, Before
<1> QED
  BY <1>1, <1>2, <1>4, <1>5, <1>6, <1>7, <1>8 DEF Moves, Dispatched

\* npm accepts a version.
Publishes(r) ==
  /\ NpmPublish(r) /\ ~Published
  /\ registry' = [tarball |-> job[r].npm["candidate"].tarball,
                  commit |-> job[r].commit, invocation |-> Own(r)]

LEMMA RegistryStep ==
  ASSUME [Next]_vars
  PROVE  registry' = registry \/ \E r \in Runs : Publishes(r)
<1>1. ASSUME NEW r \in Runs, NpmPublish(r), registry' # registry
      PROVE  Publishes(r)
  BY <1>1 DEF NpmPublish, Publishes
<1> QED
  BY <1>1, AllEffects DEF Effects

LEMMA ArtifactsStep ==
  ASSUME Shape, [Next]_vars
  PROVE  \/ artifacts' = artifacts
         \/ \E r \in Runs, kind \in Kinds : \E content : Writes(kind, r, content)
BY AllEffects, UploadStep DEF Effects

LEMMA Tagged ==
  ASSUME NEW at \in Attempts
  PROVE  at[1] \in Runs /\ at[2] \in 1 .. MaxAttempt /\ at = <<at[1], at[2]>>
BY DEF Attempts

LEMMA OwnAttempt ==
  ASSUME Shape, NEW r \in Runs, job[r].pc # "none"
  PROVE  Own(r) \in Attempts /\ Own(r)[1] = r /\ Own(r)[2] = job[r].attempt
BY DEF Shape, JobShape, Own, Attempts, Jobs

LEMMA OwnIs ==
  ASSUME NEW r, NEW at \in Attempts, at = Own(r)
  PROVE  at[1] = r /\ at[2] = job[r].attempt
BY DEF Own

\* An artifact that can be downloaded is never replaced.
LEMMA ArtifactKept ==
  ASSUME Shape, ArtifactsInv, [Next]_vars, NEW kind \in Kinds, NEW at \in Attempts,
         Uploaded(kind, at)
  PROVE  Uploaded(kind, at)' /\ Artifact(kind, at)' = Artifact(kind, at)
<1>1. CASE artifacts' = artifacts
  BY <1>1 DEF Uploaded, Artifact
<1>2. ASSUME NEW r \in Runs, NEW k2 \in Kinds, NEW content, Writes(k2, r, content)
      PROVE  Uploaded(kind, at)' /\ Artifact(kind, at)' = Artifact(kind, at)
  <2>1. kind # k2 \/ at # Own(r)
    <3>1. SUFFICES ASSUME kind = k2, at = Own(r) PROVE FALSE
      OBVIOUS
    <3>2. at[1] = r /\ at[2] = job[r].attempt
      BY <3>1, OwnIs
    <3> QED
      BY <1>2, <3>1, <3>2 DEF Writes, ArtifactsInv, ArtifactInv
  <2> QED
    BY <1>2, <2>1, WritesFacts DEF Writes, Uploaded, Artifact
<1> QED
  BY <1>1, <1>2, ArtifactsStep

LEMMA InitArtifacts == Init => ArtifactsInv
BY DEF Init, ArtifactsInv, ArtifactInv, Uploaded, Empty

LEMMA NextArtifacts == Shape /\ ArtifactsInv /\ [Next]_vars => ArtifactsInv'
<1> SUFFICES ASSUME Shape, ArtifactsInv, [Next]_vars, NEW at \in Attempts
             PROVE  ArtifactInv(at)'
  BY DEF ArtifactsInv, Attempts
<1> DEFINE r == at[1]
<1>1. /\ r \in Runs /\ at[2] \in Nat \ {0} /\ at = <<r, at[2]>>
      /\ ArtifactInv(at)
  BY Tagged DEF ArtifactsInv
<1>2. /\ main \in Nat /\ main' \in Nat /\ main <= main'
  BY AllEffects DEF Effects, Shape
<1>3. job[r].pc = "none" => job[r].attempt = 0
  BY <1>1 DEF Shape, JobShape, Jobs
<1>4. ASSUME NEW kind \in Kinds, Uploaded(kind, at)
      PROVE  /\ Artifact(kind, at)' = Artifact(kind, at)
             /\ job[r].pc # "none"
             /\ at[2] <= job'[r].attempt
             /\ at[2] = job'[r].attempt => job'[r].pc \notin Before(kind)
             /\ job'[r].commit = job[r].commit
  <2>1. /\ at[2] <= job[r].attempt
        /\ at[2] = job[r].attempt => job[r].pc \notin Before(kind)
    BY <1>1, <1>4 DEF ArtifactInv
  <2>2. job[r].pc # "none"
    BY <1>1, <1>3, <2>1
  <2>3. /\ job[r].attempt \in Nat /\ job'[r].attempt \in Nat
        /\ job[r].attempt <= job'[r].attempt
    BY <1>1, Forward
  <2>4. /\ job'[r].commit = job[r].commit
        /\ job'[r].attempt = job[r].attempt /\ job[r].pc \notin Before(kind) =>
             job'[r].pc \notin Before(kind)
    BY <1>1, <2>2, Forward
  <2> HIDE DEF r
  <2> QED
    BY <1>1, <1>4, <2>1, <2>2, <2>3, <2>4, ArtifactKept
<1>5. ASSUME NEW kind \in Kinds, NEW content, Writes(kind, r, content), at = Own(r)
      PROVE  /\ Artifact(kind, at)' = content
             /\ at[2] <= job'[r].attempt
             /\ job'[r].pc \notin Before(kind)
             /\ job'[r].commit = job[r].commit
             /\ Content(kind, r, content)
  <2>1. at[2] = job[r].attempt
    BY <1>5, OwnIs
  <2>2. Artifact(kind, at)' = content
    BY <1>5, WritesFacts DEF Writes, Artifact
  <2> QED
    BY <1>1, <1>5, <2>1, <2>2 DEF Writes
<1>6. ASSUME NEW kind \in Kinds, Uploaded(kind, at)', ~Uploaded(kind, at)
      PROVE  at = Own(r) /\ \E content : Writes(kind, r, content)
  <2>1. artifacts' # artifacts
    BY <1>6 DEF Uploaded
  <2>2. PICK s \in Runs, k2 \in Kinds : \E content : Writes(k2, s, content)
    BY <2>1, ArtifactsStep
  <2>3. PICK content : Writes(k2, s, content)
    BY <2>2
  <2>4. kind = k2 /\ at = Own(s)
    BY <1>6, <2>3, WritesFacts DEF Writes, Uploaded
  <2>5. s = r
    BY <2>4, OwnIs
  <2> QED
    BY <2>3, <2>4, <2>5
<1> HIDE DEF r
<1>7. ASSUME NEW kind \in Kinds, Uploaded(kind, at)'
      PROVE  /\ at[2] <= job'[r].attempt
             /\ at[2] = job'[r].attempt => job'[r].pc \notin Before(kind)
  BY <1>4, <1>5, <1>6, <1>7
<1>8. ASSUME Uploaded("identity", at)'
      PROVE  /\ Artifact("identity", at)'.commit = job'[r].commit
             /\ Artifact("identity", at)'.main \in Nat
             /\ Artifact("identity", at)'.main <= main'
  <2>1. "identity" \in Kinds
    BY DEF Kinds
  <2>2. CASE Uploaded("identity", at)
    BY <1>1, <1>2, <1>4, <2>1, <2>2 DEF ArtifactInv, r
  <2>3. CASE ~Uploaded("identity", at)
    BY <1>2, <1>5, <1>6, <1>8, <2>1, <2>3 DEF Content
  <2> QED
    BY <2>2, <2>3
<1>9. ASSUME NEW kind \in {"npm", "c-abi"}, Uploaded(kind, at)'
      PROVE  Artifact(kind, at)'.built = at
  <2>1. kind \in Kinds
    BY DEF Kinds
  <2>2. CASE Uploaded(kind, at)
    BY <1>1, <1>4, <2>1, <2>2 DEF ArtifactInv
  <2>3. CASE ~Uploaded(kind, at)
    BY <1>5, <1>6, <1>9, <2>1, <2>3 DEF Content
  <2> QED
    BY <2>2, <2>3
<1> QED
  BY <1>7, <1>8, <1>9 DEF ArtifactInv, r

LEMMA ArtifactsInductive == Spec => []ArtifactsInv
BY InitArtifacts, NextArtifacts, ShapeInductive, PTL DEF Spec

-----------------------------------------------------------------------------
(* npm serves what an attempt recorded *)

Recorded(at, commit, tarball) ==
  /\ Uploaded("record", at)
  /\ Artifact("record", at).commit = commit
  /\ Artifact("record", at).npm["candidate"].tarball = tarball

\* An attempt that verified its bundle, but has not called `npm publish'.
Ready(r) ==
  /\ job[r].commit <= main
  /\ Recorded(Own(r), job[r].commit, job[r].npm["candidate"].tarball)

\* The attempt that npm accepted is past `npm publish'.
RegistryInv ==
  Published =>
    /\ registry.invocation \in Attempts
    /\ registry.invocation[2] <= job[registry.invocation[1]].attempt
    /\ registry.invocation[2] = job[registry.invocation[1]].attempt =>
         job[registry.invocation[1]].pc \notin Unpublished
    /\ registry.commit = job[registry.invocation[1]].commit
    /\ registry.commit \in Commits
    /\ registry.commit <= main
    /\ Recorded(registry.invocation, registry.commit, registry.tarball)

PublishInv ==
  /\ RegistryInv
  /\ \A r \in Runs : job[r].pc = "publish" => Ready(r)

LEMMA RecordedKept ==
  ASSUME Shape, ArtifactsInv, [Next]_vars, NEW at \in Attempts, NEW commit, NEW tarball,
         Recorded(at, commit, tarball)
  PROVE  /\ Uploaded("record", at)'
         /\ Artifact("record", at)'.commit = commit
         /\ Artifact("record", at)'.npm["candidate"].tarball = tarball
<1>1. "record" \in Kinds
  BY DEF Kinds
<1> QED
  BY <1>1, ArtifactKept DEF Recorded

LEMMA MainGrows ==
  ASSUME Shape, [Next]_vars
  PROVE  main \in Nat /\ main' \in Nat /\ main <= main'
BY AllEffects DEF Effects, Shape

\* An attempt whose number a run has reached.
LEMMA Reached ==
  ASSUME Shape, NEW at \in Attempts, at[2] <= job[at[1]].attempt
  PROVE  /\ at[1] \in Runs /\ at[1] \in Jobs /\ job[at[1]].pc # "none"
         /\ at[2] \in Nat /\ job[at[1]].attempt \in Nat
BY Tagged, ReleaseAssumption DEF Shape, JobShape, Jobs

LEMMA BundleIsReady ==
  ASSUME Shape, NEW r \in Runs, VerifyBundle(r),
         Goes(r, "verify", "publish", {"main", "suffix", "cAbi", "npm"})
  PROVE  /\ Ready(r)'
         /\ Uploaded("identity", Own(r)) /\ Uploaded("npm", Own(r)) /\ Uploaded("c-abi", Own(r))
         /\ job'[r].cAbi = Artifact("c-abi", Own(r))
         /\ artifacts' = artifacts /\ Own(r)' = Own(r)
<1> r \in Jobs
  BY DEF Jobs
<1> DEFINE npm == Artifact("npm", Own(r))
           cAbi == Artifact("c-abi", Own(r))
<1>1. job'[r] # Ended(r, TRUE)
  BY EndedFacts DEF Goes
<1>2. /\ \A kind \in {"identity", "npm", "c-abi", "record"} : Uploaded(kind, Own(r))
      /\ Artifact("record", Own(r))
           = createReleaseRecord(job[r].commit, Write(Empty, "candidate", npm), cAbi)
      /\ job[r].commit <= main
  BY <1>1 DEF VerifyBundle, Step, Shape
<1>3. /\ main' = main /\ artifacts' = artifacts
      /\ job'[r].attempt = job[r].attempt /\ job'[r].commit = job[r].commit
      /\ job'[r].npm["candidate"] = npm
  BY BundleFiles DEF VerifyBundle, Goes
<1>4. job'[r].cAbi = cAbi
  BY <1>1 DEF VerifyBundle, Step, Shape, JobShape, Fields
<1>5. Own(r)' = Own(r)
  BY <1>3 DEF Own
<1> HIDE DEF npm, cAbi
<1>6. Write(Empty, "candidate", npm)["candidate"] = npm
  BY DEF Write
<1>7. /\ Artifact("record", Own(r)).commit = job[r].commit
      /\ Artifact("record", Own(r)).npm["candidate"].tarball = npm.tarball
  BY <1>2, <1>6 DEF createReleaseRecord
<1>8. /\ Uploaded("record", Own(r))' = Uploaded("record", Own(r))
      /\ Artifact("record", Own(r))' = Artifact("record", Own(r))
  BY <1>3, <1>5 DEF Uploaded, Artifact
<1>9. Ready(r)'
  BY <1>2, <1>3, <1>7, <1>8 DEF Ready, Recorded
<1> QED
  BY <1>2, <1>3, <1>4, <1>5, <1>9 DEF cAbi

LEMMA InitPublish == Init => PublishInv
<1> SUFFICES ASSUME Init PROVE PublishInv
  OBVIOUS
<1>1. ~Published
  BY DEF Init, Published, NoPackage
<1>2. ASSUME NEW r \in Runs PROVE job[r].pc # "publish"
  BY DEF Init, Jobs, NoJob
<1> QED
  BY <1>1, <1>2 DEF PublishInv, RegistryInv

LEMMA NextPublish == Shape /\ ArtifactsInv /\ PublishInv /\ [Next]_vars => PublishInv'
<1> SUFFICES ASSUME Shape, ArtifactsInv, PublishInv, [Next]_vars
             PROVE  PublishInv'
  OBVIOUS
<1>1. ASSUME NEW r \in Runs, job'[r].pc = "publish"
      PROVE  Ready(r)'
  <2>1. r \in Jobs /\ r \notin Dispatches
    BY ReleaseAssumption DEF Jobs
  <2>2. Moves(r)
    BY <2>1, AllMove
  <2>3. CASE job'[r] = job[r]
    <3>1. Ready(r) /\ Own(r)' = Own(r)
      BY <1>1, <2>3 DEF PublishInv, Own
    <3>2. Own(r) \in Attempts
      BY <1>1, <2>3, OwnAttempt
    <3>3. job[r].commit \in Commits /\ job[r].commit <= main
      BY <1>1, <2>1, <2>3, <3>1 DEF Shape, JobShape, Ready
    <3>4. job[r].commit <= main'
      BY <3>3, MainGrows DEF Commits
    <3>5. /\ Uploaded("record", Own(r))'
          /\ Artifact("record", Own(r))'.commit = job[r].commit
          /\ Artifact("record", Own(r))'.npm["candidate"].tarball
               = job[r].npm["candidate"].tarball
      BY <3>1, <3>2, RecordedKept DEF Ready, Uploaded, Artifact
    <3> QED
      BY <2>3, <3>4, <3>5 DEF Ready, Recorded
  <2>4. CASE VerifyBundle(r) /\ Goes(r, "verify", "publish", {"main", "suffix", "cAbi", "npm"})
    BY <2>4, BundleIsReady
  <2> QED
    BY <1>1, <2>1, <2>2, <2>3, <2>4
       DEF Moves, Stops, Begins, Dispatched, RunGoes, SharedGoes, Goes
<1>2. ASSUME Published, registry' = registry
      PROVE  RegistryInv'
  <2> DEFINE at == registry.invocation
  <2>1. /\ at \in Attempts /\ at[2] <= job[at[1]].attempt
        /\ at[2] = job[at[1]].attempt => job[at[1]].pc \notin Unpublished
        /\ registry.commit = job[at[1]].commit
        /\ registry.commit \in Commits
        /\ registry.commit <= main
        /\ Recorded(at, registry.commit, registry.tarball)
    BY <1>2 DEF PublishInv, RegistryInv
  <2> HIDE DEF at
  <2>2. /\ at[1] \in Runs /\ job[at[1]].pc # "none"
        /\ at[2] \in Nat /\ job[at[1]].attempt \in Nat
    BY <2>1, Reached
  <2>3. /\ job'[at[1]].attempt \in Nat
        /\ job[at[1]].attempt <= job'[at[1]].attempt
        /\ job'[at[1]].commit = job[at[1]].commit
        /\ job'[at[1]].attempt = job[at[1]].attempt /\ job[at[1]].pc \notin Unpublished =>
             job'[at[1]].pc \notin Unpublished
    BY <2>2, Forward
  <2>4. registry.commit <= main'
    BY <2>1, MainGrows DEF Commits
  <2>5. /\ <<"record", at>> \in DOMAIN artifacts'
        /\ artifacts'[<<"record", at>>].commit = registry.commit
        /\ artifacts'[<<"record", at>>].npm["candidate"].tarball = registry.tarball
    BY <2>1, RecordedKept DEF Uploaded, Artifact
  <2>6. /\ at[2] <= job'[at[1]].attempt
        /\ at[2] = job'[at[1]].attempt => job'[at[1]].pc \notin Unpublished
    BY <2>1, <2>2, <2>3
  <2>7. Recorded(registry.invocation, registry.commit, registry.tarball)'
    BY <1>2, <2>5 DEF at, Recorded, Uploaded, Artifact
  <2> QED
    BY <1>2, <2>1, <2>3, <2>4, <2>6, <2>7 DEF RegistryInv, at
<1>3. ASSUME NEW r \in Runs, Publishes(r)
      PROVE  RegistryInv'
  <2> DEFINE at == Own(r)
             tarball == job[r].npm["candidate"].tarball
  <2>1. job[r].pc = "publish" /\ r \in Jobs
    BY <1>3 DEF Publishes, NpmPublish, Jobs
  <2>2. Stops(r) \/ RunGoes(r)
    BY <1>3, <2>1, RunMoves DEF Publishes
  <2>3. /\ job'[r].attempt = job[r].attempt /\ job'[r].commit = job[r].commit
        /\ job'[r].pc \notin Unpublished
    BY <2>1, <2>2 DEF Stops, RunGoes, Goes, Unpublished
  <2>4. at \in Attempts /\ at[1] = r /\ at[2] = job[r].attempt
    BY <2>1, OwnAttempt
  <2>5. /\ job[r].commit <= main /\ Recorded(at, job[r].commit, tarball)
        /\ job[r].commit \in Commits /\ job[r].attempt \in Nat
    BY <2>1, ReleaseAssumption DEF PublishInv, Ready, Shape, JobShape
  <2>6. registry'.invocation = at /\ registry'.commit = job[r].commit
        /\ registry'.tarball = tarball
    BY <1>3 DEF Publishes
  <2> HIDE DEF at, tarball
  <2>7. job[r].commit <= main'
    BY <2>5, MainGrows DEF Commits
  <2>8. /\ <<"record", at>> \in DOMAIN artifacts'
        /\ artifacts'[<<"record", at>>].commit = job[r].commit
        /\ artifacts'[<<"record", at>>].npm["candidate"].tarball = tarball
    BY <2>4, <2>5, RecordedKept DEF Uploaded, Artifact, at
  <2>9. Recorded(registry.invocation, registry.commit, registry.tarball)'
    BY <2>6, <2>8 DEF Recorded, Uploaded, Artifact
  <2> QED
    BY <2>3, <2>4, <2>5, <2>6, <2>7, <2>9 DEF RegistryInv
<1>4. RegistryInv'
  <2>1. CASE registry' = registry
    <3>1. Published' = Published
      BY <2>1 DEF Published
    <3> QED
      BY <1>2, <2>1, <3>1 DEF RegistryInv
  <2> QED
    BY <1>3, <2>1, RegistryStep
<1> QED
  BY <1>1, <1>4 DEF PublishInv

LEMMA PublishInductive == Spec => []PublishInv
BY InitPublish, NextPublish, ShapeInductive, ArtifactsInductive, PTL DEF Spec

(* What npm serves was built from a commit of main and recorded by the attempt that its
   provenance names, before it was published (release.yml, verify then npm publish).    *)
THEOREM RecordedPublication == Spec => []PublishedBytesWereRecorded
<1>1. PublishInv => PublishedBytesWereRecorded
  BY DEF PublishInv, RegistryInv, Recorded, PublishedBytesWereRecorded
<1> QED
  BY <1>1, PublishInductive, PTL

-----------------------------------------------------------------------------
(* The evidence of the attempt that published *)

\* The attempt npm accepted, of a run of that commit.
Publisher(at, commit) == Published /\ registry.invocation = at /\ registry.commit = commit

\* Evidence that describes what npm serves.
Describes(npm) ==
  /\ npm["npm-provenance"].canonical = registry.tarball
  /\ npm["release-operation"].invocation = registry.invocation

PublishPcs == {"publish", "capture", "finalize"}
PublishedPcs == {"capture", "finalize", "published-record"}

\* Only the attempt that published gets to finalize and to the GitHub Release.
RunInv(r) ==
  /\ job[r].pc \in PublishPcs => "invocation" \in DOMAIN job[r].npm["release-operation"]
  /\ job[r].pc \in PublishPcs \cup PublishedPcs => job[r].npm["candidate"].built = Own(r)
  /\ job[r].pc \in PublishedPcs => job[r].orig = Own(r)
  /\ job[r].pc \in PublishedPcs \cup LatePcs \cup {"done"} => Publisher(Own(r), job[r].commit)
  /\ job[r].pc \in {"finalize", "published-record"} =>
       /\ DOMAIN job[r].npm = PublishedFiles
       /\ job[r].npm["npm-provenance"].canonical = registry.tarball
  /\ job[r].pc = "published-record" => Describes(job[r].npm)

UploadedEvidence(at) ==
  Uploaded("published", at) =>
    /\ Published /\ registry.invocation = at
    /\ Describes(Artifact("published", at).npm)
    /\ Artifact("published", at).npm["candidate"].built = at

EvidenceInv ==
  /\ \A r \in Runs : RunInv(r)
  /\ \A at \in Attempts : UploadedEvidence(at)

LEMMA RegistryKept ==
  ASSUME [Next]_vars, Published
  PROVE  registry' = registry /\ Published'
<1>1. registry' = registry
  BY RegistryStep DEF Publishes
<1> QED
  BY <1>1 DEF Published

\* Finalizing records the invocation in the release operation.
LEMMA FinalizeFacts ==
  ASSUME Shape, NEW j \in Jobs, Finalize(j), job'[j].pc = "published-record",
         {"release-operation", "npm-provenance"} \subseteq DOMAIN job[j].npm,
         "invocation" \in DOMAIN job[j].npm["release-operation"]
  PROVE  /\ finalizeReleaseOperation(j)
         /\ DOMAIN job'[j].npm = DOMAIN job[j].npm
         /\ \A name \in DOMAIN job[j].npm :
              name # "release-operation" => job'[j].npm[name] = job[j].npm[name]
         /\ job'[j].npm["release-operation"] =
              [job[j].npm["release-operation"] EXCEPT
                 !.status = "published", !.mode = job[j].mode, !.invocation = job[j].orig]
         /\ job'[j].npm["release-operation"].invocation = job[j].orig
<1>1. job'[j] # Ended(j, TRUE)
  BY EndedFacts
<1>2. /\ finalizeReleaseOperation(j)
      /\ job'[j].npm = [job[j].npm EXCEPT !["release-operation"] =
           [@ EXCEPT !.status = "published", !.mode = job[j].mode, !.invocation = job[j].orig]]
  BY <1>1 DEF Finalize, Step, Shape, JobShape, Fields
<1> QED
  BY <1>2

LEMMA CaptureFacts ==
  ASSUME Shape, NEW r \in Runs, CaptureFresh(r), job'[r].pc = "finalize",
         DOMAIN job[r].npm = {"candidate", "release-operation"}
  PROVE  /\ DOMAIN job'[r].npm = PublishedFiles
         /\ job'[r].npm["candidate"] = job[r].npm["candidate"]
         /\ job'[r].npm["release-operation"] = job[r].npm["release-operation"]
         /\ job'[r].npm["npm-provenance"].canonical = registry.tarball
<1> DEFINE prov == captureNpmProvenance(job[r].commit, "fresh-publish")
<1> r \in Jobs
  BY DEF Jobs
<1>1. job'[r] # Ended(r, TRUE)
  BY EndedFacts
<1>2. job'[r].npm = Write(job[r].npm, "npm-provenance", prov)
  BY <1>1 DEF CaptureFresh, Step, Shape, JobShape, Fields
<1>3. prov.canonical = registry.tarball
  BY DEF captureNpmProvenance
<1> HIDE DEF prov
<1> QED
  BY <1>2, <1>3 DEF Write, PublishedFiles

LEMMA PublishFacts ==
  ASSUME Shape, NEW r \in Runs, NpmPublish(r), job'[r].pc = "capture"
  PROVE  job'[r].orig = Own(r) /\ Publishes(r)
<1> r \in Jobs
  BY DEF Jobs
<1>1. job'[r] # Ended(r, TRUE)
  BY EndedFacts
<1>2. Artifact("identity", Own(r)).status # "exists"
  <2>1. SUFFICES ASSUME Artifact("identity", Own(r)).status = "exists" PROVE FALSE
    OBVIOUS
  <2>2. Step(r, TRUE, [job[r] EXCEPT !.pc = "recapture", !.mode = "recovered-existing",
                                     !.orig = <<r, None>>, !.source = Own(r)])
    BY <2>1 DEF NpmPublish
  <2>3. job'[r].pc = "recapture"
    BY <2>2 DEF Step, Shape, JobShape, Fields
  <2> QED
    BY <2>3
<1>3. PICK answered \in BOOLEAN :
        Step(r, ~Published /\ answered,
             [job[r] EXCEPT !.pc = "capture", !.mode = "published", !.orig = Own(r)])
  BY <1>2 DEF NpmPublish
<1>4. ~Published /\ job'[r].orig = Own(r)
  BY <1>1, <1>3 DEF Step, Shape, JobShape, Fields
<1>5. registry' = [tarball |-> job[r].npm["candidate"].tarball,
                   commit |-> job[r].commit, invocation |-> Own(r)]
  BY <1>2, <1>4 DEF NpmPublish
<1> QED
  BY <1>4, <1>5 DEF Publishes

LEMMA AssembleFacts ==
  ASSUME Shape, NEW j \in Jobs, Assemble(j), job'[j].pc = "lookup"
  PROVE  /\ assemblePublicationAssets(job'[j].npm, job'[j].cAbi, job'[j].record, job[j].commit)
         /\ j \in Runs => /\ Uploaded("published", Own(j)) /\ Uploaded("c-abi", Own(j))
                          /\ job'[j].npm = Artifact("published", Own(j)).npm
                          /\ job'[j].cAbi = Artifact("c-abi", Own(j))
         /\ j \notin Runs => job'[j].npm = job[j].npm /\ job'[j].cAbi = job[j].cAbi
<1>1. job'[j] # Ended(j, TRUE)
  BY EndedFacts
<1>2. CASE j \in Runs
  <2> DEFINE npm == Artifact("published", Own(j)).npm
             record == Artifact("published", Own(j)).record
             cAbi == Artifact("c-abi", Own(j))
  <2>1. Step(j, /\ Uploaded("published", Own(j)) /\ Uploaded("c-abi", Own(j))
                /\ assemblePublicationAssets(npm, cAbi, record, job[j].commit),
                [job[j] EXCEPT !.pc = "lookup", !.npm = npm, !.record = record, !.cAbi = cAbi])
    BY <1>2 DEF Assemble
  <2> HIDE DEF npm, record, cAbi
  <2>2. /\ Uploaded("published", Own(j)) /\ Uploaded("c-abi", Own(j))
        /\ assemblePublicationAssets(npm, cAbi, record, job[j].commit)
        /\ job'[j].npm = npm /\ job'[j].cAbi = cAbi /\ job'[j].record = record
    BY <1>1, <2>1 DEF Step, Shape, JobShape, Fields
  <2> QED
    BY <1>2, <2>2 DEF npm, cAbi
<1>3. CASE j \notin Runs
  <2>1. job' = [job EXCEPT ![j] =
                 IF assemblePublicationAssets(job[j].npm, job[j].cAbi, job[j].record,
                                              job[j].commit)
                 THEN [job[j] EXCEPT !.pc = "lookup", !.npm = job[j].npm,
                                     !.record = job[j].record, !.cAbi = job[j].cAbi]
                 ELSE Ended(j, TRUE)]
    BY <1>3 DEF Assemble, Step
  <2>2. /\ assemblePublicationAssets(job[j].npm, job[j].cAbi, job[j].record, job[j].commit)
        /\ job'[j].npm = job[j].npm /\ job'[j].cAbi = job[j].cAbi
        /\ job'[j].record = job[j].record
    BY <1>1, <2>1 DEF Shape, JobShape, Fields
  <2> QED
    BY <1>3, <2>2
<1> QED
  BY <1>2, <1>3

LEMMA InitEvidence == Init => EvidenceInv
<1> SUFFICES ASSUME Init PROVE EvidenceInv
  OBVIOUS
<1>1. ASSUME NEW r \in Runs PROVE RunInv(r)
  <2>1. job[r].pc = "none"
    BY DEF Init, Jobs, NoJob
  <2> QED
    BY <2>1 DEF RunInv, PublishPcs, PublishedPcs, LatePcs
<1>2. ASSUME NEW at \in Attempts PROVE UploadedEvidence(at)
  BY DEF Init, UploadedEvidence, Uploaded, Empty
<1> QED
  BY <1>1, <1>2 DEF EvidenceInv

\* A run of which nothing is said yet.
LEMMA RunInvBefore ==
  ASSUME NEW r, job'[r].pc \notin PublishPcs \cup PublishedPcs \cup LatePcs \cup {"done"}
  PROVE  RunInv(r)'
BY DEF RunInv, PublishPcs, PublishedPcs

LEMMA LateRun ==
  ASSUME NEW r, job'[r].pc \in LatePcs \cup {"done"}, Publisher(Own(r), job[r].commit)'
  PROVE  RunInv(r)'
BY DEF RunInv, PublishPcs, PublishedPcs, LatePcs

LEMMA PublisherKept ==
  ASSUME [Next]_vars, NEW r, Publisher(Own(r), job[r].commit),
         job'[r].attempt = job[r].attempt, job'[r].commit = job[r].commit
  PROVE  Publisher(Own(r), job[r].commit)'
BY RegistryKept DEF Publisher, Own

LEMMA NextRunInv ==
  ASSUME Shape, ArtifactsInv, PublishInv, EvidenceInv, [Next]_vars, NEW r \in Runs
  PROVE  RunInv(r)'
<1>1. r \in Jobs /\ r \notin Dispatches
  BY ReleaseAssumption DEF Jobs
<1>2. Moves(r) /\ RunInv(r) /\ JobShape(r)
  BY <1>1, AllMove DEF EvidenceInv, Shape
<1>3. CASE job'[r] = job[r]
  <2>1. Own(r)' = Own(r)
    BY <1>3 DEF Own
  <2>2. CASE job[r].pc = "publish"
    BY <1>2, <1>3, <2>1, <2>2 DEF RunInv, PublishPcs, PublishedPcs, LatePcs
  <2>3. CASE job[r].pc \in PublishedPcs \cup LatePcs \cup {"done"}
    <3>1. registry' = registry /\ Published /\ Published'
      BY <1>2, <2>3, RegistryKept DEF RunInv, Publisher
    <3> QED
      BY <1>2, <1>3, <2>1, <3>1 DEF RunInv, Publisher, Describes
  <2>4. CASE job[r].pc \notin {"publish"} \cup PublishedPcs \cup LatePcs \cup {"done"}
    BY <1>3, <2>4, RunInvBefore DEF PublishPcs, PublishedPcs
  <2> QED
    BY <2>2, <2>3, <2>4
<1>4. CASE Stops(r) \/ Begins(r)
  BY <1>4, RunInvBefore DEF Stops, Begins, PublishPcs, PublishedPcs, LatePcs
<1>5. CASE RunGoes(r)
  <2>1. CASE \/ Goes(r, "identity", "candidate", {}) \/ Goes(r, "candidate", "c-abi", {})
             \/ Goes(r, "c-abi", "record", {}) \/ Goes(r, "record", "verify", {})
             \/ Goes(r, "publish", "recapture", {"mode", "orig"})
    BY <2>1, RunInvBefore DEF Goes, PublishPcs, PublishedPcs, LatePcs
  <2>2. CASE VerifyBundle(r) /\ Goes(r, "verify", "publish", {"main", "suffix", "cAbi", "npm"})
    <3>1. /\ Uploaded("npm", Own(r)) /\ Own(r)' = Own(r)
      BY <2>2, BundleIsReady
    <3>2. /\ job'[r].npm["candidate"] = Artifact("npm", Own(r))
          /\ job'[r].npm["release-operation"]
               = Operation(job[r].commit, Artifact("npm", Own(r)).tarball)
      BY <2>2, BundleFiles DEF Goes
    <3>3. Own(r) \in Attempts
      BY <2>2, OwnAttempt DEF Goes
    <3>4. job'[r].npm["candidate"].built = Own(r)
      BY <3>1, <3>2, <3>3 DEF ArtifactsInv, ArtifactInv
    <3>5. "invocation" \in DOMAIN job'[r].npm["release-operation"]
      BY <3>2 DEF Operation
    <3>6. job'[r].pc = "publish"
      BY <2>2 DEF Goes
    <3> QED
      BY <3>1, <3>4, <3>5, <3>6 DEF RunInv, PublishPcs, PublishedPcs, LatePcs
  <2>3. CASE NpmPublish(r) /\ Goes(r, "publish", "capture", {"mode", "orig"})
    <3>1. job'[r].orig = Own(r) /\ Publishes(r)
      BY <2>3, PublishFacts DEF Goes
    <3>2. /\ job[r].pc = "publish" /\ job'[r].pc = "capture" /\ job'[r].npm = job[r].npm
          /\ job'[r].attempt = job[r].attempt /\ job'[r].commit = job[r].commit
      BY <2>3 DEF Goes
    <3>3. Own(r)' = Own(r)
      BY <3>2 DEF Own
    <3>4. job[r].commit # None
      BY <1>2, <3>2, ReleaseAssumption DEF JobShape, Commits
    <3>5. Publisher(Own(r), job[r].commit)'
      BY <3>1, <3>2, <3>3, <3>4 DEF Publisher, Publishes, Published
    <3> QED
      BY <1>2, <3>1, <3>2, <3>3, <3>5 DEF RunInv, PublishPcs, PublishedPcs, LatePcs
  <2>4. CASE CaptureFresh(r) /\ Goes(r, "capture", "finalize", {"npm"})
    <3>1. /\ job[r].pc = "capture" /\ job'[r].pc = "finalize" /\ job'[r].orig = job[r].orig
          /\ job'[r].attempt = job[r].attempt /\ job'[r].commit = job[r].commit
      BY <2>4 DEF Goes
    <3>2. Own(r)' = Own(r)
      BY <3>1 DEF Own
    <3>3. DOMAIN job[r].npm = {"candidate", "release-operation"}
      BY <1>2, <3>1 DEF JobShape
    <3>4. /\ DOMAIN job'[r].npm = PublishedFiles
          /\ job'[r].npm["candidate"] = job[r].npm["candidate"]
          /\ job'[r].npm["release-operation"] = job[r].npm["release-operation"]
          /\ job'[r].npm["npm-provenance"].canonical = registry.tarball
      BY <2>4, <3>1, <3>3, CaptureFacts
    <3>5. registry' = registry
      BY <2>4 DEF CaptureFresh
    <3>6. Publisher(Own(r), job[r].commit)'
      BY <1>2, <3>1, PublisherKept DEF RunInv, PublishedPcs
    <3> QED
      BY <1>2, <3>1, <3>2, <3>4, <3>5, <3>6 DEF RunInv, PublishPcs, PublishedPcs, LatePcs
  <2> QED
    BY <1>5, <2>1, <2>2, <2>3, <2>4 DEF RunGoes
<1>6. CASE SharedGoes(r)
  <2>1. CASE \/ Goes(r, "recapture", "reconstruct", {"provenance", "orig"})
             \/ Goes(r, "published-record", "assemble", {"record"})
    BY <2>1, RunInvBefore DEF Goes, PublishPcs, PublishedPcs, LatePcs
  <2>2. CASE Finalize(r) /\ Goes(r, "finalize", "published-record", {"npm"})
    <3>1. /\ job[r].pc = "finalize" /\ job'[r].pc = "published-record"
          /\ job'[r].orig = job[r].orig
          /\ job'[r].attempt = job[r].attempt /\ job'[r].commit = job[r].commit
      BY <2>2 DEF Goes
    <3>2. /\ DOMAIN job[r].npm = PublishedFiles
          /\ "invocation" \in DOMAIN job[r].npm["release-operation"]
          /\ job[r].npm["candidate"].built = Own(r) /\ job[r].orig = Own(r)
          /\ job[r].npm["npm-provenance"].canonical = registry.tarball
          /\ Publisher(Own(r), job[r].commit)
      BY <1>2, <3>1 DEF RunInv, PublishPcs, PublishedPcs
    <3>3. /\ DOMAIN job'[r].npm = DOMAIN job[r].npm
          /\ \A name \in DOMAIN job[r].npm :
               name # "release-operation" => job'[r].npm[name] = job[r].npm[name]
          /\ job'[r].npm["release-operation"].invocation = job[r].orig
      BY <1>1, <2>2, <3>1, <3>2, FinalizeFacts DEF PublishedFiles
    <3>4. /\ job'[r].npm["npm-provenance"] = job[r].npm["npm-provenance"]
          /\ job'[r].npm["candidate"] = job[r].npm["candidate"]
      BY <3>2, <3>3 DEF PublishedFiles
    <3>5. Own(r)' = Own(r) /\ registry' = registry
      BY <2>2, <3>1 DEF Own, Finalize
    <3>6. Publisher(Own(r), job[r].commit)'
      BY <3>1, <3>2, PublisherKept
    <3>7. Describes(job[r].npm)'
      BY <3>2, <3>3, <3>4, <3>5 DEF Describes, Publisher
    <3> QED
      BY <3>1, <3>2, <3>3, <3>4, <3>5, <3>6, <3>7
         DEF RunInv, PublishPcs, PublishedPcs, LatePcs
  <2>3. CASE Assemble(r) /\ Goes(r, "assemble", "lookup", {"npm", "cAbi", "record"})
    <3>1. Uploaded("published", Own(r)) /\ Own(r) \in Attempts /\ Own(r)[1] = r
      BY <1>1, <2>3, AssembleFacts, OwnAttempt DEF Goes
    <3>2. Published /\ registry.invocation = Own(r)
      BY <3>1 DEF EvidenceInv, UploadedEvidence
    <3>3. Publisher(Own(r), job[r].commit)
      BY <3>1, <3>2 DEF Publisher, PublishInv, RegistryInv
    <3>4. Publisher(Own(r), job[r].commit)'
      BY <2>3, <3>3, PublisherKept DEF Goes
    <3> QED
      BY <2>3, <3>4, LateRun DEF Goes, LatePcs
  <2>4. CASE \/ Goes(r, "lookup", "create", {}) \/ Goes(r, "lookup", "upload", {})
             \/ Goes(r, "create", "upload", {}) \/ Goes(r, "upload", "upload", {})
             \/ Goes(r, "upload", "verify-release", {}) \/ Goes(r, "verify-release", "done", {})
    <3>1. /\ job[r].pc \in LatePcs /\ job'[r].pc \in LatePcs \cup {"done"}
          /\ job'[r].attempt = job[r].attempt /\ job'[r].commit = job[r].commit
      BY <2>4 DEF Goes, LatePcs
    <3>2. Publisher(Own(r), job[r].commit)
      BY <1>2, <3>1 DEF RunInv
    <3> QED
      BY <3>1, <3>2, PublisherKept, LateRun
  <2> QED
    BY <1>1, <1>6, <2>1, <2>2, <2>3, <2>4 DEF SharedGoes
<1> QED
  BY <1>1, <1>2, <1>3, <1>4, <1>5, <1>6 DEF Moves, Dispatched

LEMMA NextUploadedEvidence ==
  ASSUME Shape, ArtifactsInv, EvidenceInv, [Next]_vars, NEW at \in Attempts
  PROVE  UploadedEvidence(at)'
<1> DEFINE key == <<"published", at>>
<1>0. "published" \in Kinds
  BY DEF Kinds
<1> SUFFICES ASSUME key \in DOMAIN artifacts'
             PROVE  /\ Published' /\ registry'.invocation = at
                    /\ Describes(artifacts[key].npm)'
                    /\ artifacts'[key].npm["candidate"].built = at
  BY DEF UploadedEvidence, Uploaded, Artifact
<1>1. CASE Uploaded("published", at)
  <2>1. /\ Published /\ registry.invocation = at
        /\ Describes(Artifact("published", at).npm)
        /\ Artifact("published", at).npm["candidate"].built = at
    BY <1>1 DEF EvidenceInv, UploadedEvidence
  <2>2. artifacts'[key] = artifacts[key]
    BY <1>0, <1>1, ArtifactKept DEF Artifact
  <2>3. registry' = registry /\ Published'
    BY <2>1, RegistryKept
  <2> QED
    BY <2>1, <2>2, <2>3 DEF Describes, Artifact
<1>2. CASE ~Uploaded("published", at)
  <2>1. artifacts' # artifacts
    BY <1>2 DEF Uploaded
  <2>2. PICK r \in Runs, kind \in Kinds : \E content : Writes(kind, r, content)
    BY <2>1, ArtifactsStep
  <2>3. PICK content : Writes(kind, r, content)
    BY <2>2
  <2>4. kind = "published" /\ at = Own(r)
    BY <1>2, <2>3, WritesFacts DEF Writes, Uploaded
  <2>5. artifacts'[key] = content
    BY <2>3, <2>4, WritesFacts DEF Writes
  <2>6. PublishedRecord(r) /\ content.npm = job[r].npm
    BY <2>3, <2>4 DEF Writes, Content
  <2>7. job[r].pc = "published-record" /\ registry' = registry
    BY <2>6 DEF PublishedRecord
  <2>8. /\ Publisher(Own(r), job[r].commit) /\ Describes(job[r].npm)
        /\ job[r].npm["candidate"].built = Own(r)
    BY <2>7 DEF EvidenceInv, RunInv, PublishPcs, PublishedPcs
  <2>9. Published'
    BY <2>8, RegistryKept DEF Publisher
  <2> QED
    BY <2>4, <2>5, <2>6, <2>7, <2>8, <2>9 DEF Publisher, Describes
<1> QED
  BY <1>1, <1>2

LEMMA EvidenceInductive == Spec => []EvidenceInv
<1>1. Shape /\ ArtifactsInv /\ PublishInv /\ EvidenceInv /\ [Next]_vars => EvidenceInv'
  BY NextRunInv, NextUploadedEvidence DEF EvidenceInv
<1> QED
  BY <1>1, InitEvidence, ShapeInductive, ArtifactsInductive, PublishInductive, PTL DEF Spec

-----------------------------------------------------------------------------
(* The evidence of a recovery *)

\* An attempt that will take no step again and has not finished.
Dead(at) ==
  \/ at[2] < job[at[1]].attempt
  \/ at[2] = job[at[1]].attempt /\ job[at[1]].pc = "failed"

\* The dispatch names a dead attempt of a run of its commit.
Named(d) ==
  /\ job[d].orig \in Attempts /\ Dead(job[d].orig)
  /\ job[job[d].orig[1]].commit = job[d].commit

\* The evidence downloaded is of one attempt; its identity was made no later than the
\* main that the dispatch saw.
Sourced(d) ==
  /\ job[d].suffix \in Attempts /\ Uploaded("identity", job[d].suffix)
  /\ Artifact("identity", job[d].suffix).commit = job[d].commit
  /\ Artifact("identity", job[d].suffix).main <= job[d].main
  /\ job[d].mode = "recovered-existing"
  /\ job[d].npm["candidate"].built = job[d].cAbi.built

\* npm serves the dispatch's commit, and `prov' is its provenance.
Captured(d, prov) ==
  /\ Published /\ registry.commit = job[d].commit
  /\ prov = captureNpmProvenance(job[d].commit, "post-publish-recovery")

Reconstructed(d) ==
  /\ Captured(d, job[d].npm["npm-provenance"])
  /\ job[d].npm["published"].tarball = registry.tarball
  /\ job[d].npm["published"].byte_reproducible
       = (job[d].npm["candidate"].tarball = registry.tarball)
  /\ job[d].npm["artifact-source"].original_publish = job[d].orig
  /\ job[d].npm["artifact-source"].endpoints

\* The release operation names the attempt that published, and its bytes.
Finalized(d) ==
  /\ job[d].npm["release-operation"].commit = job[d].commit
  /\ job[d].npm["release-operation"].tarball = registry.tarball
  /\ job[d].npm["release-operation"].status = "published"
  /\ job[d].npm["release-operation"].mode = "recovered-existing"
  /\ job[d].npm["release-operation"].invocation = job[d].orig

CapturePcs == {"recapture", "reconstruct"}
BundlePcs == {"reverify", "finalize", "published-record", "assemble"}

DispatchInv(d) ==
  /\ job[d].pc = "dispatch" =>
       /\ job[d].orig \in Attempts /\ job[d].source \in Attempts /\ job[d].suffix \in Attempts
       /\ job[d].mode = "recovered-existing"
  /\ \/ job[d].pc \in {"none", "dispatch"}
     \/ job[d].pc = "failed" /\ job[d].why = "dispatch"
     \/ Named(d)
  /\ job[d].pc \in CapturePcs \cup BundlePcs => Sourced(d)
  /\ job[d].pc \in CapturePcs => DOMAIN job[d].npm = CandidateFiles
  /\ job[d].pc = "reconstruct" => Captured(d, job[d].provenance)
  /\ job[d].pc \in BundlePcs => Reconstructed(d)
  /\ job[d].pc = "reverify" => DOMAIN job[d].npm = RecoveryFiles \ {"release-operation"}
  /\ job[d].pc \in BundlePcs \ {"reverify"} => DOMAIN job[d].npm = RecoveryFiles
  /\ job[d].pc = "finalize" =>
       job[d].npm["release-operation"] = Operation(job[d].commit, registry.tarball)
  /\ job[d].pc \in {"published-record", "assemble", "done"} \cup LatePcs =>
       Publisher(job[d].orig, job[d].commit)
  /\ job[d].pc \in {"published-record", "assemble"} => Finalized(d)
  /\ job[d].pc = "assemble" =>
       job[d].record = createReleaseRecord(job[d].commit, job[d].npm, job[d].cAbi)

DispatchesInv == \A d \in Dispatches : DispatchInv(d)

LEMMA InitDispatches == Init => DispatchesInv
<1> SUFFICES ASSUME Init, NEW d \in Dispatches PROVE DispatchInv(d)
  BY DEF DispatchesInv
<1>1. job[d].pc = "none"
  BY DEF Init, Jobs, NoJob
<1> QED
  BY <1>1 DEF DispatchInv, CapturePcs, BundlePcs, LatePcs

LEMMA DeadKept ==
  ASSUME Shape, [Next]_vars, NEW at \in Attempts, Dead(at)
  PROVE  Dead(at)' /\ job'[at[1]].commit = job[at[1]].commit
<1>1. /\ at[1] \in Runs /\ at[2] \in Nat
  BY Tagged
<1>2. /\ job[at[1]].attempt \in Nat /\ job'[at[1]].attempt \in Nat
      /\ job[at[1]].attempt <= job'[at[1]].attempt
  BY <1>1, Forward
<1>3. at[2] <= job[at[1]].attempt
  BY <1>1, <1>2 DEF Dead
<1>4. job[at[1]].pc # "none"
  BY <1>3, Reached
<1>5. /\ job'[at[1]].commit = job[at[1]].commit
      /\ job'[at[1]].attempt = job[at[1]].attempt /\ job[at[1]].pc = "failed" =>
           job'[at[1]].pc = "failed"
  BY <1>1, <1>4, Forward
<1> QED
  BY <1>1, <1>2, <1>5 DEF Dead

LEMMA NamedKept ==
  ASSUME Shape, [Next]_vars, NEW d, Named(d), job'[d].orig = job[d].orig,
         job'[d].commit = job[d].commit
  PROVE  Named(d)'
<1> DEFINE at == job[d].orig
<1>1. at \in Attempts /\ Dead(at) /\ job[at[1]].commit = job[d].commit
  BY DEF Named
<1> HIDE DEF at
<1>2. /\ job'[at[1]].commit = job[at[1]].commit
      /\ \/ at[2] < job'[at[1]].attempt
         \/ at[2] = job'[at[1]].attempt /\ job'[at[1]].pc = "failed"
  BY <1>1, DeadKept DEF Dead
<1> QED
  BY <1>1, <1>2 DEF Named, Dead, at, Attempts

LEMMA SourcedKept ==
  ASSUME Shape, ArtifactsInv, [Next]_vars, NEW d, Sourced(d),
         job'[d].suffix = job[d].suffix, job'[d].commit = job[d].commit,
         job'[d].main = job[d].main, job'[d].mode = job[d].mode,
         job'[d].npm["candidate"] = job[d].npm["candidate"], job'[d].cAbi = job[d].cAbi
  PROVE  Sourced(d)'
<1> DEFINE at == job[d].suffix
<1>1. at \in Attempts /\ Uploaded("identity", at) /\ "identity" \in Kinds
  BY DEF Sourced, Kinds
<1>2. /\ <<"identity", at>> \in DOMAIN artifacts'
      /\ artifacts'[<<"identity", at>>] = artifacts[<<"identity", at>>]
  <2> HIDE DEF at
  <2> QED
    BY <1>1, ArtifactKept DEF Uploaded, Artifact
<1> QED
  BY <1>1, <1>2 DEF Sourced, Uploaded, Artifact, Attempts

LEMMA ReconstructedKept ==
  ASSUME [Next]_vars, NEW d, Reconstructed(d),
         job'[d].orig = job[d].orig, job'[d].commit = job[d].commit,
         \A name \in {"candidate", "published", "npm-provenance", "artifact-source"} :
            job'[d].npm[name] = job[d].npm[name]
  PROVE  Reconstructed(d)'
<1>1. registry' = registry /\ Published'
  BY RegistryKept DEF Reconstructed, Captured
<1> QED
  BY <1>1 DEF Reconstructed, Captured, captureNpmProvenance

\* A job that writes to the GitHub Release, or has verified it, has a release.
Writing == {"upload", "verify-release", "done"}
WritingInv == \A j \in Jobs : job[j].pc \in Writing => Released

LEMMA ReleasedKept ==
  ASSUME Shape, [Next]_vars, Released
  PROVE  Released'
BY GithubStep DEF Released

LEMMA WritingInductive == Spec => []WritingInv
<1>1. Init => WritingInv
  BY DEF Init, WritingInv, Writing, NoJob
<1>2. Shape /\ WritingInv /\ [Next]_vars => WritingInv'
  <2> SUFFICES ASSUME Shape, WritingInv, [Next]_vars, NEW j \in Jobs, job'[j].pc \in Writing
               PROVE  Released'
    BY DEF WritingInv, Jobs
  <2>1. CASE job[j].pc \in Writing
    BY <2>1, ReleasedKept DEF WritingInv
  <2>2. CASE LookupRelease(j) /\ Goes(j, "lookup", "upload", {})
    <3>1. Released
      <4>1. SUFFICES ASSUME ~Released PROVE FALSE
        OBVIOUS
      <4>2. Step(j, TRUE, [job[j] EXCEPT !.pc = "create"])
        BY <2>2, <4>1 DEF LookupRelease
      <4>3. job'[j].pc = "create"
        BY <4>2 DEF Step, Shape, JobShape, Fields
      <4> QED
        BY <2>2, <4>3 DEF Goes
    <3> QED
      BY <3>1, ReleasedKept
  <2>3. CASE CreateRelease(j) /\ Goes(j, "create", "upload", {})
    <3>1. job'[j] # Ended(j, TRUE)
      BY <2>3, EndedFacts DEF Goes
    <3>2. ~Released /\ tag # None
      BY <2>3, <3>1 DEF CreateRelease, Step, Shape
    <3>3. github'.target = job[j].commit
      BY <2>3, <3>2 DEF CreateRelease
    <3>4. job[j].commit # None
      BY <2>3, ReleaseAssumption DEF Goes, Shape, JobShape, Commits
    <3> QED
      BY <3>3, <3>4 DEF Released
  <2>4. Moves(j)
    BY AllMove
  <2> QED
    BY <2>1, <2>2, <2>3, <2>4
       DEF Moves, Stops, Begins, Dispatched, RunGoes, SharedGoes, Goes, Writing
<1> QED
  BY <1>1, <1>2, ShapeInductive, PTL DEF Spec

LEMMA VerifyDispatchFacts ==
  ASSUME Shape, ArtifactsInv, WritingInv, [Next]_vars, NEW d \in Dispatches, DispatchInv(d),
         VerifyDispatch(d), Goes(d, "dispatch", "recapture", {"npm", "cAbi"})
  PROVE  DispatchInv(d)'
<1> d \in Jobs
  BY DEF Jobs
<1> DEFINE orig == job[d].orig
           source == job[d].source
           suffix == job[d].suffix
           npm == Artifact("npm", suffix)
           cAbi == Artifact("c-abi", suffix)
<1>1. job'[d] # Ended(d, TRUE)
  BY EndedFacts DEF Goes
<1>2. /\ job[d].main = main /\ ~Released
      /\ validateOriginalReleaseRun(orig, job[d].commit)
      /\ validateOriginalReleaseRun(source, job[d].commit)
      /\ validateArtifactSource(source, suffix)
  BY <1>1 DEF VerifyDispatch, Step, Shape, validateDispatchBoundary
<1>3. job'[d].npm = Write(Empty, "candidate", npm) /\ job'[d].cAbi = cAbi
  BY <1>1 DEF VerifyDispatch, Step, Shape, JobShape, Fields
<1>4. /\ job'[d].orig = orig /\ job'[d].suffix = suffix /\ job'[d].main = job[d].main
      /\ job'[d].mode = job[d].mode /\ job'[d].commit = job[d].commit
      /\ job[d].pc = "dispatch" /\ job'[d].pc = "recapture"
      /\ artifacts' = artifacts
  BY DEF Goes, VerifyDispatch
<1>5. /\ orig \in Attempts /\ source \in Attempts /\ suffix \in Attempts
      /\ job[d].mode = "recovered-existing"
  BY <1>4 DEF DispatchInv
<1> HIDE DEF orig, source, suffix, npm, cAbi
<1>6. Dead(orig) /\ job[orig[1]].commit = job[d].commit
  <2>1. /\ AttemptOver(orig) /\ job[orig[1]].commit = job[d].commit
    BY <1>2 DEF validateOriginalReleaseRun
  <2>2. orig[1] \in Jobs
    BY <1>5, Tagged DEF Jobs
  <2>3. job[orig[1]].pc # "done"
    BY <1>2, <2>2 DEF WritingInv, Writing
  <2> QED
    BY <2>1, <2>3 DEF AttemptOver, Over, Dead
<1>7. Named(d)'
  <2>1. Named(d)
    BY <1>5, <1>6 DEF Named, orig
  <2> QED
    BY <1>4, <2>1, NamedKept DEF orig
<1>8. /\ job'[d].npm["candidate"] = npm /\ DOMAIN job'[d].npm = CandidateFiles
  BY <1>3 DEF Write, Empty, CandidateFiles
<1>9. /\ Uploaded("identity", suffix) /\ Uploaded("npm", suffix) /\ Uploaded("c-abi", suffix)
      /\ suffix[1] = source[1] /\ job[source[1]].commit = job[d].commit
  BY <1>2 DEF validateArtifactSource, validateOriginalReleaseRun
<1>10. /\ Artifact("identity", suffix).commit = job[d].commit
       /\ Artifact("identity", suffix).main <= job[d].main
       /\ npm.built = cAbi.built
  BY <1>2, <1>5, <1>9 DEF ArtifactsInv, ArtifactInv, npm, cAbi
<1>11. Sourced(d)'
  BY <1>3, <1>4, <1>5, <1>8, <1>9, <1>10 DEF Sourced, Uploaded, Artifact
<1> QED
  BY <1>4, <1>7, <1>8, <1>11 DEF DispatchInv, CapturePcs, BundlePcs, LatePcs

LEMMA DispatchCaptures ==
  ASSUME Shape, ArtifactsInv, [Next]_vars, NEW d \in Dispatches, DispatchInv(d),
         CaptureRecovery(d), Goes(d, "recapture", "reconstruct", {"provenance", "orig"})
  PROVE  DispatchInv(d)'
<1> d \in Jobs /\ d \notin Runs
  BY ReleaseAssumption DEF Jobs
<1> DEFINE prov == captureNpmProvenance(job[d].commit, "post-publish-recovery")
<1>1. job'[d] # Ended(d, TRUE)
  BY EndedFacts DEF Goes
<1>2. /\ Published /\ provenanceIdentity(job[d].commit, job[d].orig)
      /\ job'[d].provenance = prov /\ job'[d].orig = job[d].orig
  BY <1>1 DEF CaptureRecovery, Step, Shape, JobShape, Fields
<1>3. /\ job'[d].suffix = job[d].suffix /\ job'[d].main = job[d].main
      /\ job'[d].mode = job[d].mode /\ job'[d].commit = job[d].commit
      /\ job'[d].npm = job[d].npm /\ job'[d].cAbi = job[d].cAbi
      /\ job[d].pc = "recapture" /\ job'[d].pc = "reconstruct"
  BY DEF Goes
<1>4. registry' = registry /\ Published'
  BY <1>2, RegistryKept
<1>5. Named(d)'
  BY <1>2, <1>3, NamedKept DEF DispatchInv
<1>6. Sourced(d)'
  BY <1>3, SourcedKept DEF DispatchInv, CapturePcs
<1>7. Captured(d, job[d].provenance)'
  BY <1>2, <1>3, <1>4 DEF Captured, provenanceIdentity, captureNpmProvenance
<1>8. DOMAIN job'[d].npm = CandidateFiles
  BY <1>3 DEF DispatchInv, CapturePcs
<1> QED
  BY <1>3, <1>5, <1>6, <1>7, <1>8 DEF DispatchInv, CapturePcs, BundlePcs, LatePcs

LEMMA DispatchReconstructs ==
  ASSUME Shape, ArtifactsInv, [Next]_vars, NEW d \in Dispatches, DispatchInv(d),
         Reconstruct(d), Goes(d, "reconstruct", "reverify", {"npm"})
  PROVE  DispatchInv(d)'
<1> d \in Jobs
  BY DEF Jobs
<1> DEFINE prov == job[d].provenance
           candidate == job[d].npm["candidate"]
           published == [tarball |-> registry.tarball,
                         byte_reproducible |-> candidate.tarball = registry.tarball]
           source == ArtifactSource(d)
           npm == Write(Write(Write(Write(Empty, "candidate", candidate),
                                    "published", published),
                              "npm-provenance", prov), "artifact-source", source)
<1>1. job'[d] # Ended(d, TRUE)
  BY EndedFacts DEF Goes
<1>2. job'[d].npm = npm
  <2>1. job'[d].npm = Write(Write(reconstructPublishedNpmBundle(job[d].npm),
                                  "npm-provenance", job[d].provenance),
                            "artifact-source", ArtifactSource(d))
    BY <1>1 DEF Reconstruct, Step, Shape, JobShape, Fields
  <2> QED
    BY <2>1 DEF reconstructPublishedNpmBundle
<1>3. /\ job'[d].suffix = job[d].suffix /\ job'[d].main = job[d].main
      /\ job'[d].mode = job[d].mode /\ job'[d].commit = job[d].commit
      /\ job'[d].orig = job[d].orig /\ job'[d].cAbi = job[d].cAbi
      /\ job[d].pc = "reconstruct" /\ job'[d].pc = "reverify"
  BY DEF Goes
<1>4. /\ published.tarball = registry.tarball
      /\ published.byte_reproducible = (candidate.tarball = registry.tarball)
      /\ source.original_publish = job[d].orig /\ source.endpoints
  BY DEF ArtifactSource
<1>5. Captured(d, prov)
  BY <1>3 DEF DispatchInv
<1> HIDE DEF prov, candidate, published, source
<1>6. /\ DOMAIN npm = {"candidate", "published", "npm-provenance", "artifact-source"}
      /\ npm["candidate"] = candidate /\ npm["published"] = published
      /\ npm["npm-provenance"] = prov /\ npm["artifact-source"] = source
  BY DEF Write, Empty
<1> HIDE DEF npm
<1>7. registry' = registry /\ Published'
  BY <1>5, RegistryKept DEF Captured
<1>8. Captured(d, job[d].npm["npm-provenance"])'
  BY <1>2, <1>3, <1>5, <1>6, <1>7 DEF Captured, captureNpmProvenance
<1>9. Reconstructed(d)'
  BY <1>2, <1>3, <1>4, <1>6, <1>7, <1>8 DEF Reconstructed
<1>10. Named(d)'
  BY <1>3, NamedKept DEF DispatchInv
<1>11. Sourced(d)'
  BY <1>2, <1>3, <1>6, SourcedKept DEF DispatchInv, CapturePcs, candidate
<1>12. DOMAIN job'[d].npm = RecoveryFiles \ {"release-operation"}
  BY <1>2, <1>6 DEF RecoveryFiles, PublishedFiles
<1> QED
  BY <1>3, <1>9, <1>10, <1>11, <1>12 DEF DispatchInv, CapturePcs, BundlePcs, LatePcs

LEMMA DispatchReVerifies ==
  ASSUME Shape, ArtifactsInv, [Next]_vars, NEW d \in Dispatches, DispatchInv(d),
         ReVerify(d), Goes(d, "reverify", "finalize", {"npm"})
  PROVE  DispatchInv(d)'
<1> d \in Jobs
  BY DEF Jobs
<1> DEFINE op == Operation(job[d].commit, job[d].npm["published"].tarball)
<1>1. job'[d] # Ended(d, TRUE)
  BY EndedFacts DEF Goes
<1>2. job'[d].npm = Write(job[d].npm, "release-operation", op)
  BY <1>1 DEF ReVerify, Step, Shape, JobShape, Fields
<1>3. /\ job'[d].suffix = job[d].suffix /\ job'[d].main = job[d].main
      /\ job'[d].mode = job[d].mode /\ job'[d].commit = job[d].commit
      /\ job'[d].orig = job[d].orig /\ job'[d].cAbi = job[d].cAbi
      /\ job[d].pc = "reverify" /\ job'[d].pc = "finalize"
  BY DEF Goes
<1>4. /\ DOMAIN job[d].npm = RecoveryFiles \ {"release-operation"}
      /\ Reconstructed(d) /\ Sourced(d) /\ Named(d)
  BY <1>3 DEF DispatchInv, BundlePcs
<1>5. op = Operation(job[d].commit, registry.tarball)
  BY <1>4 DEF Reconstructed
<1> HIDE DEF op
<1>6. /\ DOMAIN job'[d].npm = RecoveryFiles
      /\ job'[d].npm["release-operation"] = op
      /\ \A name \in {"candidate", "published", "npm-provenance", "artifact-source"} :
           job'[d].npm[name] = job[d].npm[name]
  BY <1>2, <1>4 DEF Write, RecoveryFiles, PublishedFiles
<1>7. Named(d)' /\ Sourced(d)' /\ Reconstructed(d)'
  BY <1>3, <1>4, <1>6, NamedKept, SourcedKept, ReconstructedKept
<1>8. registry' = registry
  BY DEF ReVerify
<1>9. job'[d].npm["release-operation"] = Operation(job[d].commit, registry.tarball)'
  BY <1>3, <1>5, <1>6, <1>8 DEF Operation
<1> QED
  BY <1>3, <1>6, <1>7, <1>9 DEF DispatchInv, CapturePcs, BundlePcs, LatePcs

LEMMA DispatchFinalizes ==
  ASSUME Shape, ArtifactsInv, [Next]_vars, NEW d \in Dispatches, DispatchInv(d),
         Finalize(d), Goes(d, "finalize", "published-record", {"npm"})
  PROVE  DispatchInv(d)'
<1> d \in Jobs
  BY DEF Jobs
<1>1. /\ job'[d].suffix = job[d].suffix /\ job'[d].main = job[d].main
      /\ job'[d].mode = job[d].mode /\ job'[d].commit = job[d].commit
      /\ job'[d].orig = job[d].orig /\ job'[d].cAbi = job[d].cAbi
      /\ job[d].pc = "finalize" /\ job'[d].pc = "published-record"
  BY DEF Goes
<1>2. /\ DOMAIN job[d].npm = RecoveryFiles
      /\ Reconstructed(d) /\ Sourced(d) /\ Named(d)
      /\ job[d].npm["release-operation"] = Operation(job[d].commit, registry.tarball)
  BY <1>1 DEF DispatchInv, BundlePcs
<1>3. "invocation" \in DOMAIN job[d].npm["release-operation"]
  BY <1>2 DEF Operation
<1>4. /\ finalizeReleaseOperation(d)
      /\ DOMAIN job'[d].npm = DOMAIN job[d].npm
      /\ \A name \in DOMAIN job[d].npm :
           name # "release-operation" => job'[d].npm[name] = job[d].npm[name]
      /\ job'[d].npm["release-operation"] =
           [job[d].npm["release-operation"] EXCEPT
              !.status = "published", !.mode = job[d].mode, !.invocation = job[d].orig]
  BY <1>1, <1>2, <1>3, FinalizeFacts DEF RecoveryFiles, PublishedFiles
<1>5. \A name \in {"candidate", "published", "npm-provenance", "artifact-source"} :
        job'[d].npm[name] = job[d].npm[name]
  BY <1>2, <1>4 DEF RecoveryFiles, PublishedFiles
<1>6. Named(d)' /\ Sourced(d)' /\ Reconstructed(d)'
  BY <1>1, <1>2, <1>5, NamedKept, SourcedKept, ReconstructedKept
<1>7. registry' = registry /\ Published /\ Published'
  BY <1>2, RegistryKept DEF Reconstructed, Captured
<1>8. Publisher(job[d].orig, job[d].commit)
  <2>1. job[d].npm["npm-provenance"].invocation = job[d].orig
    BY <1>4 DEF finalizeReleaseOperation, validateNpmProvenanceEvidence
  <2> QED
    BY <1>2, <2>1 DEF Reconstructed, Captured, captureNpmProvenance, Publisher
<1>9. Publisher(job[d].orig, job[d].commit)'
  BY <1>1, <1>7, <1>8 DEF Publisher
<1>10. Finalized(d)'
  <2> DEFINE op == job[d].npm["release-operation"]
  <2>1. /\ op.commit = job[d].commit /\ op.tarball = registry.tarball
        /\ {"status", "mode", "invocation"} \subseteq DOMAIN op
        /\ job[d].mode = "recovered-existing"
    BY <1>2 DEF Operation, Sourced
  <2>2. job'[d].npm["release-operation"] =
          [op EXCEPT !.status = "published", !.mode = job[d].mode, !.invocation = job[d].orig]
    BY <1>4
  <2> HIDE DEF op
  <2> QED
    BY <1>1, <1>7, <2>1, <2>2 DEF Finalized
<1> QED
  BY <1>1, <1>2, <1>4, <1>6, <1>9, <1>10 DEF DispatchInv, CapturePcs, BundlePcs, LatePcs

LEMMA DispatchRecords ==
  ASSUME Shape, ArtifactsInv, [Next]_vars, NEW d \in Dispatches, DispatchInv(d),
         PublishedRecord(d), Goes(d, "published-record", "assemble", {"record"})
  PROVE  DispatchInv(d)'
<1> d \in Jobs
  BY DEF Jobs
<1>1. /\ job'[d].suffix = job[d].suffix /\ job'[d].main = job[d].main
      /\ job'[d].mode = job[d].mode /\ job'[d].commit = job[d].commit
      /\ job'[d].orig = job[d].orig /\ job'[d].cAbi = job[d].cAbi /\ job'[d].npm = job[d].npm
      /\ job[d].pc = "published-record" /\ job'[d].pc = "assemble"
  BY DEF Goes
<1>2. job'[d] # Ended(d, TRUE)
  BY <1>1, EndedFacts
<1>3. job'[d].record = createReleaseRecord(job[d].commit, job[d].npm, job[d].cAbi)
  BY <1>2 DEF PublishedRecord, Step, Shape, JobShape, Fields
<1>4. /\ DOMAIN job[d].npm = RecoveryFiles
      /\ Reconstructed(d) /\ Sourced(d) /\ Named(d)
      /\ Publisher(job[d].orig, job[d].commit)
      /\ Finalized(d)
  BY <1>1 DEF DispatchInv, BundlePcs
<1>5. Named(d)' /\ Sourced(d)' /\ Reconstructed(d)'
  BY <1>1, <1>4, NamedKept, SourcedKept, ReconstructedKept
<1>6. registry' = registry /\ Published'
  BY <1>4, RegistryKept DEF Publisher
<1>7. /\ Publisher(job[d].orig, job[d].commit)'
      /\ Finalized(d)'
  BY <1>1, <1>4, <1>6 DEF Publisher, Finalized
<1>8. job'[d].record = createReleaseRecord(job[d].commit, job[d].npm, job[d].cAbi)'
  BY <1>1, <1>3 DEF createReleaseRecord
<1> QED
  BY <1>1, <1>4, <1>5, <1>7, <1>8 DEF DispatchInv, CapturePcs, BundlePcs, LatePcs

\* The steps on the GitHub Release.
LateGoes(j) ==
  \/ LookupRelease(j) /\ Goes(j, "lookup", "create", {})
  \/ LookupRelease(j) /\ Goes(j, "lookup", "upload", {})
  \/ CreateRelease(j) /\ Goes(j, "create", "upload", {})
  \/ UploadAsset(j) /\ Goes(j, "upload", "upload", {})
  \/ UploadAsset(j) /\ Goes(j, "upload", "verify-release", {})
  \/ VerifyRelease(j) /\ Goes(j, "verify-release", "done", {})

LEMMA LateFacts ==
  ASSUME NEW j, LateGoes(j)
  PROVE  /\ job[j].pc \in LatePcs /\ job'[j].pc \in LatePcs \cup {"done"}
         /\ job'[j].attempt = job[j].attempt /\ job'[j].commit = job[j].commit
         /\ job'[j].orig = job[j].orig /\ job'[j].refused = job[j].refused
         /\ job'[j].npm = job[j].npm /\ job'[j].cAbi = job[j].cAbi
         /\ job'[j].record = job[j].record
BY DEF LateGoes, Goes, LatePcs

LEMMA DispatchLate ==
  ASSUME Shape, [Next]_vars, NEW d \in Dispatches, DispatchInv(d),
         \/ Goes(d, "assemble", "lookup", {"npm", "cAbi", "record"})
         \/ LateGoes(d)
  PROVE  DispatchInv(d)'
<1>1. /\ job[d].pc \in {"assemble"} \cup LatePcs /\ job'[d].pc \in LatePcs \cup {"done"}
      /\ job'[d].commit = job[d].commit /\ job'[d].orig = job[d].orig
  BY LateFacts DEF Goes, LatePcs
<1>2. Named(d) /\ Publisher(job[d].orig, job[d].commit)
  BY <1>1 DEF DispatchInv, LatePcs
<1>3. Named(d)'
  BY <1>1, <1>2, NamedKept
<1>4. Publisher(job[d].orig, job[d].commit)'
  BY <1>1, <1>2, RegistryKept DEF Publisher
<1> QED
  BY <1>1, <1>3, <1>4 DEF DispatchInv, CapturePcs, BundlePcs, LatePcs

LEMMA DispatchRests ==
  ASSUME Shape, ArtifactsInv, [Next]_vars, NEW d \in Dispatches, DispatchInv(d),
         job'[d] = job[d]
  PROVE  DispatchInv(d)'
<1>1. \/ job[d].pc \in {"none", "dispatch"}
      \/ job[d].pc = "failed" /\ job[d].why = "dispatch"
      \/ Named(d)'
  BY NamedKept DEF DispatchInv
<1>2. job[d].pc \in CapturePcs \cup BundlePcs => Sourced(d)'
  BY SourcedKept DEF DispatchInv
<1>3. job[d].pc \in BundlePcs => Reconstructed(d)'
  BY ReconstructedKept DEF DispatchInv
<1>4. job[d].pc = "reconstruct" => Captured(d, job[d].provenance)'
  BY RegistryKept DEF DispatchInv, Captured, captureNpmProvenance
<1>5. job[d].pc \in BundlePcs \cup {"done"} \cup LatePcs =>
        Published /\ registry' = registry /\ Published'
  BY RegistryKept DEF DispatchInv, Reconstructed, Captured, Publisher
<1>6. job[d].pc = "finalize" =>
        job'[d].npm["release-operation"] = Operation(job[d].commit, registry.tarball)'
  BY <1>5 DEF DispatchInv, Operation, BundlePcs
<1>7. /\ job[d].pc \in {"published-record", "assemble", "done"} \cup LatePcs =>
           Publisher(job[d].orig, job[d].commit)'
      /\ job[d].pc \in {"published-record", "assemble"} => Finalized(d)'
  BY <1>5 DEF DispatchInv, Publisher, Finalized, BundlePcs
<1>8. job[d].pc = "assemble" =>
        job'[d].record = createReleaseRecord(job[d].commit, job[d].npm, job[d].cAbi)'
  BY DEF DispatchInv, createReleaseRecord
<1>9. /\ job[d].pc = "dispatch" =>
           /\ job[d].orig \in Attempts /\ job[d].source \in Attempts
           /\ job[d].suffix \in Attempts /\ job[d].mode = "recovered-existing"
      /\ job[d].pc \in CapturePcs => DOMAIN job[d].npm = CandidateFiles
      /\ job[d].pc = "reverify" => DOMAIN job[d].npm = RecoveryFiles \ {"release-operation"}
      /\ job[d].pc \in BundlePcs \ {"reverify"} => DOMAIN job[d].npm = RecoveryFiles
  BY DEF DispatchInv
<1> QED
  BY <1>1, <1>2, <1>3, <1>4, <1>6, <1>7, <1>8, <1>9 DEF DispatchInv, Attempts

LEMMA DispatchesInductive == Spec => []DispatchesInv
<1>1. Shape /\ ArtifactsInv /\ WritingInv /\ DispatchesInv /\ [Next]_vars => DispatchesInv'
  <2> SUFFICES ASSUME Shape, ArtifactsInv, WritingInv, DispatchesInv, [Next]_vars,
                      NEW d \in Dispatches
               PROVE  DispatchInv(d)'
    BY DEF DispatchesInv
  <2>1. d \in Jobs /\ d \notin Runs
    BY ReleaseAssumption DEF Jobs
  <2>2. Moves(d) /\ DispatchInv(d)
    BY <2>1, AllMove DEF DispatchesInv
  <2>3. CASE Stops(d)
    <3>1. \/ job'[d].why = "dispatch" \/ Named(d)'
      BY <2>2, <2>3, NamedKept DEF Stops, DispatchInv, Active
    <3> QED
      BY <2>3, <3>1 DEF Stops, DispatchInv, CapturePcs, BundlePcs, LatePcs
  <2>4. CASE Dispatched(d)
    BY <2>4 DEF Dispatched, DispatchInv, CapturePcs, BundlePcs, LatePcs, Attempts
  <2>5. CASE SharedGoes(d)
    BY <2>2, <2>5, DispatchCaptures, DispatchReconstructs, DispatchReVerifies,
       DispatchFinalizes, DispatchRecords, DispatchLate DEF SharedGoes, LateGoes
  <2> QED
    BY <2>1, <2>2, <2>3, <2>4, <2>5, DispatchRests, VerifyDispatchFacts DEF Moves, Begins
<1> QED
  BY <1>1, InitDispatches, ShapeInductive, ArtifactsInductive, WritingInductive, PTL DEF Spec

-----------------------------------------------------------------------------
(* The GitHub Release *)

\* What assemble leaves to the steps that write the GitHub Release.
FinalInv(j) ==
  job[j].pc \in LatePcs \cup {"done"} =>
    /\ validatePublishedEvidence(job[j].npm, job[j].commit, "published" \in DOMAIN job[j].npm)
    /\ job[j].record = createReleaseRecord(job[j].commit, job[j].npm, job[j].cAbi)
    /\ Published /\ registry.commit = job[j].commit
    /\ Describes(job[j].npm)
    /\ job[j].npm["candidate"].built = job[j].cAbi.built

FinalsInv == \A j \in Jobs : FinalInv(j)

LEMMA FinalKept ==
  ASSUME [Next]_vars, NEW j, FinalInv(j), job[j].pc \in LatePcs \cup {"done"},
         job'[j].commit = job[j].commit, job'[j].npm = job[j].npm,
         job'[j].cAbi = job[j].cAbi, job'[j].record = job[j].record
  PROVE  FinalInv(j)'
<1>1. registry' = registry /\ Published'
  BY RegistryKept DEF FinalInv
<1>2. /\ validatePublishedEvidence(job'[j].npm, job'[j].commit,
                                   "published" \in DOMAIN job'[j].npm)
      /\ job'[j].record = createReleaseRecord(job'[j].commit, job'[j].npm, job'[j].cAbi)
      /\ registry'.commit = job'[j].commit
      /\ job'[j].npm["npm-provenance"].canonical = registry'.tarball
      /\ job'[j].npm["release-operation"].invocation = registry'.invocation
      /\ job'[j].npm["candidate"].built = job'[j].cAbi.built
  BY <1>1 DEF FinalInv, Describes
<1> QED
  BY <1>1, <1>2 DEF FinalInv, Describes, validatePublishedEvidence, createReleaseRecord,
     assertExactFiles, validateRecoveryNpmEvidence, optionalPublishedEvidence

LEMMA FinalAssembled ==
  ASSUME Shape, ArtifactsInv, PublishInv, EvidenceInv, DispatchesInv, NEW j \in Jobs,
         Assemble(j), Goes(j, "assemble", "lookup", {"npm", "cAbi", "record"})
  PROVE  FinalInv(j)'
<1>1. /\ job[j].pc = "assemble" /\ job'[j].pc = "lookup" /\ job'[j].commit = job[j].commit
      /\ registry' = registry
  BY DEF Goes, Assemble
<1>2. /\ assemblePublicationAssets(job'[j].npm, job'[j].cAbi, job'[j].record, job[j].commit)
      /\ j \in Runs => /\ Uploaded("published", Own(j)) /\ Uploaded("c-abi", Own(j))
                       /\ job'[j].npm = Artifact("published", Own(j)).npm
                       /\ job'[j].cAbi = Artifact("c-abi", Own(j))
      /\ j \notin Runs => job'[j].npm = job[j].npm /\ job'[j].cAbi = job[j].cAbi
  BY <1>1, AssembleFacts
<1>3. /\ Published /\ registry.commit = job[j].commit
      /\ job'[j].npm["npm-provenance"].canonical = registry.tarball
      /\ job'[j].npm["release-operation"].invocation = registry.invocation
      /\ job'[j].npm["candidate"].built = job'[j].cAbi.built
  <2>1. CASE j \in Runs
    <3>1. Own(j) \in Attempts /\ Own(j)[1] = j
      BY <1>1, <2>1, OwnAttempt
    <3>2. /\ Published /\ registry.invocation = Own(j)
          /\ Describes(Artifact("published", Own(j)).npm)
          /\ Artifact("published", Own(j)).npm["candidate"].built = Own(j)
      BY <1>2, <2>1, <3>1 DEF EvidenceInv, UploadedEvidence
    <3>3. Artifact("c-abi", Own(j)).built = Own(j)
      BY <1>2, <2>1, <3>1 DEF ArtifactsInv, ArtifactInv
    <3>4. registry.commit = job[j].commit
      BY <3>1, <3>2 DEF PublishInv, RegistryInv
    <3> QED
      BY <1>2, <2>1, <3>2, <3>3, <3>4 DEF Describes
  <2>2. CASE j \notin Runs
    <3>1. j \in Dispatches
      BY <2>2 DEF Jobs
    <3>2. /\ Sourced(j) /\ Reconstructed(j) /\ Finalized(j)
          /\ Publisher(job[j].orig, job[j].commit)
      BY <1>1, <3>1 DEF DispatchesInv, DispatchInv, BundlePcs
    <3> QED
      BY <1>2, <2>2, <3>2
         DEF Sourced, Reconstructed, Captured, captureNpmProvenance, Finalized, Publisher
  <2> QED
    BY <2>1, <2>2
<1>4. /\ validatePublishedEvidence(job'[j].npm, job'[j].commit,
                                   "published" \in DOMAIN job'[j].npm)
      /\ job'[j].record = createReleaseRecord(job'[j].commit, job'[j].npm, job'[j].cAbi)
  BY <1>1, <1>2 DEF assemblePublicationAssets
<1>5. Published'
  BY <1>1, <1>3 DEF Published
<1> QED
  BY <1>1, <1>3, <1>4, <1>5 DEF FinalInv, Describes, validatePublishedEvidence,
     createReleaseRecord, assertExactFiles, validateRecoveryNpmEvidence,
     optionalPublishedEvidence

LEMMA FinalsInductive == Spec => []FinalsInv
<1>1. Init => FinalsInv
  BY DEF Init, FinalsInv, FinalInv, NoJob, LatePcs
<1>2. /\ Shape /\ ArtifactsInv /\ PublishInv /\ EvidenceInv /\ DispatchesInv /\ FinalsInv
      /\ [Next]_vars
      => FinalsInv'
  <2> SUFFICES ASSUME Shape, ArtifactsInv, PublishInv, EvidenceInv, DispatchesInv, FinalsInv,
                      [Next]_vars, NEW j \in Jobs
               PROVE  FinalInv(j)'
    BY DEF FinalsInv, Jobs
  <2>1. Moves(j) /\ FinalInv(j)
    BY AllMove DEF FinalsInv
  <2>2. CASE job'[j].pc \notin LatePcs \cup {"done"}
    BY <2>2 DEF FinalInv
  <2>3. CASE job'[j] = job[j] /\ job'[j].pc \in LatePcs \cup {"done"}
    BY <2>1, <2>3, FinalKept
  <2>4. CASE LateGoes(j)
    BY <2>1, <2>4, FinalKept, LateFacts
  <2>5. CASE Assemble(j) /\ Goes(j, "assemble", "lookup", {"npm", "cAbi", "record"})
    BY <2>5, FinalAssembled
  <2> QED
    BY <2>1, <2>2, <2>3, <2>4, <2>5
       DEF Moves, Stops, Begins, Dispatched, RunGoes, SharedGoes, LateGoes, Goes, LatePcs
<1> QED
  BY <1>1, <1>2, ShapeInductive, ArtifactsInductive, PublishInductive, EvidenceInductive,
     DispatchesInductive, PTL DEF Spec

\* A dispatch creates a release only where none is, so no two of them write to one.
OneDispatch ==
  \A c, d \in Dispatches : job[c].pc \in Writing /\ job[d].pc \in Writing => c = d

LEMMA OneDispatchInductive == Spec => []OneDispatch
<1>1. Init => OneDispatch
  BY DEF Init, OneDispatch, Writing, NoJob, Jobs
<1>2. Shape /\ WritingInv /\ OneDispatch /\ [Next]_vars => OneDispatch'
  <2> SUFFICES ASSUME Shape, WritingInv, OneDispatch, [Next]_vars
               PROVE  OneDispatch'
    OBVIOUS
  <2>1. ASSUME NEW d \in Dispatches, job'[d].pc \in Writing, job[d].pc \notin Writing
        PROVE  ~Released /\ CreateRelease(d)
    <3>1. d \in Jobs /\ d \notin Runs
      BY ReleaseAssumption DEF Jobs
    <3>2. Moves(d)
      BY <3>1, AllMove
    <3>3. ~(LookupRelease(d) /\ Goes(d, "lookup", "upload", {}))
      <4>1. SUFFICES ASSUME LookupRelease(d), Goes(d, "lookup", "upload", {}) PROVE FALSE
        OBVIOUS
      <4>2. CASE Released
        <5>1. job' = [job EXCEPT ![d] = Ended(d, TRUE)]
          BY <3>1, <4>1, <4>2 DEF LookupRelease, Step
        <5>2. job'[d].pc = "failed"
          BY <3>1, <5>1, SetJob, EndedFacts
        <5> QED
          BY <4>1, <5>2 DEF Goes
      <4>3. CASE ~Released
        <5>1. Step(d, TRUE, [job[d] EXCEPT !.pc = "create"])
          BY <4>1, <4>3 DEF LookupRelease
        <5>2. job'[d].pc = "create"
          BY <3>1, <5>1 DEF Step, Shape, JobShape, Fields
        <5> QED
          BY <4>1, <5>2 DEF Goes
      <4> QED
        BY <4>2, <4>3
    <3>4. CreateRelease(d) /\ Goes(d, "create", "upload", {})
      BY <2>1, <3>1, <3>2, <3>3
         DEF Moves, Stops, Begins, Dispatched, RunGoes, SharedGoes, Goes, Writing
    <3>5. job'[d] # Ended(d, TRUE)
      BY <3>4, EndedFacts DEF Goes
    <3>6. ~Released
      BY <3>1, <3>4, <3>5 DEF CreateRelease, Step, Shape
    <3> QED
      BY <3>4, <3>6
  <2>2. ASSUME NEW c \in Dispatches, NEW d \in Dispatches, c # d,
               job'[d].pc \in Writing, job[d].pc \notin Writing
        PROVE  job'[c].pc \notin Writing
    <3>1. c \in Jobs /\ d \in Jobs
      BY DEF Jobs
    <3>2. job'[c] = job[c]
      <4>1. Shared(d)
        BY <2>1, <2>2 DEF Shared
      <4>2. Rests(d)
        BY <3>1, <4>1, SharedMoves
      <4> QED
        BY <2>2, <3>1, <4>2 DEF Rests
    <3>3. ~Released
      BY <2>1, <2>2
    <3> QED
      BY <3>1, <3>2, <3>3 DEF WritingInv
  <2> QED
    BY <2>2 DEF OneDispatch
<1> QED
  BY <1>1, <1>2, ShapeInductive, WritingInductive, PTL DEF Spec

\* At most one job writes to the GitHub Release or has verified it: the attempt that
\* published, or a dispatch for it after its death.
LEMMA OneWriter ==
  ASSUME Shape, EvidenceInv, DispatchesInv, OneDispatch, NEW j \in Jobs, NEW k \in Jobs,
         job[j].pc \in Writing, job[k].pc \in Writing
  PROVE  j = k
<1>1. ASSUME NEW r \in Runs, job[r].pc \in Writing
      PROVE  registry.invocation = Own(r)
  BY <1>1 DEF EvidenceInv, RunInv, Publisher, Writing, LatePcs
<1>2. ASSUME NEW d \in Dispatches, job[d].pc \in Writing
      PROVE  Dead(registry.invocation)
  <2>1. Named(d) /\ registry.invocation = job[d].orig
    BY <1>2 DEF DispatchesInv, DispatchInv, Publisher, Writing, LatePcs
  <2> QED
    BY <2>1 DEF Named
<1>3. ASSUME NEW r \in Runs, NEW d \in Dispatches, job[r].pc \in Writing, job[d].pc \in Writing
      PROVE  FALSE
  <2>1. Dead(Own(r))
    BY <1>1, <1>2, <1>3
  <2>2. job[r].attempt \in Int
    BY ReleaseAssumption DEF Shape, JobShape, Jobs
  <2>3. job[r].pc = "failed"
    BY <2>1, <2>2 DEF Dead, Own
  <2> QED
    BY <1>3, <2>3 DEF Writing
<1>4. ASSUME NEW q \in Runs, NEW r \in Runs, job[q].pc \in Writing, job[r].pc \in Writing
      PROVE  q = r
  BY <1>1, <1>4 DEF Own
<1> QED
  BY <1>3, <1>4 DEF OneDispatch, Jobs

\* What a job verified is still there.
VerifiedInv ==
  \A j \in Jobs : job[j].pc = "done" =>
    github.target = job[j].commit /\ github.assets = LocalAssets(j)

LEMMA VerifiedInductive == Spec => []VerifiedInv
<1>1. Init => VerifiedInv
  BY DEF Init, VerifiedInv, NoJob
<1>2. /\ Shape /\ EvidenceInv /\ DispatchesInv /\ WritingInv /\ OneDispatch /\ VerifiedInv
      /\ [Next]_vars
      => VerifiedInv'
  <2> SUFFICES ASSUME Shape, EvidenceInv, DispatchesInv, WritingInv, OneDispatch, VerifiedInv,
                      [Next]_vars, NEW j \in Jobs, job'[j].pc = "done"
               PROVE  github'.target = job'[j].commit /\ github'.assets = LocalAssets(j)'
    BY DEF VerifiedInv, Jobs
  <2>1. CASE job'[j] = job[j]
    <3>1. Released
      BY <2>1 DEF WritingInv, Writing
    <3>2. ASSUME NEW k \in Jobs, UploadAsset(k) PROVE FALSE
      <4>1. job[k].pc = "upload"
        BY <3>2 DEF UploadAsset
      <4>2. j = k
        BY <2>1, <4>1, OneWriter DEF Writing
      <4> QED
        BY <2>1, <4>1, <4>2
    <3>3. ASSUME NEW k \in Jobs, CreateRelease(k) PROVE github' = github
      BY <3>1, <3>3 DEF CreateRelease
    <3>4. github' = github
      BY <3>1, <3>2, <3>3, AllEffects DEF Effects, HandRelease
    <3> QED
      BY <2>1, <3>4 DEF VerifiedInv, LocalAssets, ReleaseAssets, Write
  <2>2. CASE VerifyRelease(j) /\ Goes(j, "verify-release", "done", {})
    <3>1. job'[j] # Ended(j, TRUE)
      BY EndedFacts
    <3>2. verifyReleaseAssets(github, LocalAssets(j), job[j].commit) /\ github' = github
      BY <2>2, <3>1 DEF VerifyRelease, Step, Shape
    <3>3. /\ job'[j].commit = job[j].commit /\ job'[j].npm = job[j].npm
          /\ job'[j].cAbi = job[j].cAbi /\ job'[j].record = job[j].record
      BY <2>2 DEF Goes
    <3>4. LocalAssets(j)' = LocalAssets(j)
      BY <3>3 DEF LocalAssets, ReleaseAssets, Write
    <3> QED
      BY <3>2, <3>3, <3>4 DEF verifyReleaseAssets, validateReleaseMetadata
  <2>3. Moves(j)
    BY AllMove
  <2> QED
    BY <2>1, <2>2, <2>3
       DEF Moves, Stops, Begins, Dispatched, RunGoes, SharedGoes, Goes
<1> QED
  BY <1>1, <1>2, ShapeInductive, EvidenceInductive, DispatchesInductive, WritingInductive,
     OneDispatchInductive, PTL DEF Spec

\* The assets are the files of the evidence directory, the record and the C ABI evidence.
LEMMA AssetFacts ==
  ASSUME NEW npm, NEW cAbi, NEW record,
         DOMAIN npm \in {PublishedFiles, RecoveryFiles}
  PROVE  /\ DOMAIN ReleaseAssets(npm, cAbi, record)
              = DOMAIN npm \cup {"c-abi", "release-record"}
         /\ ReleaseAssets(npm, cAbi, record)["c-abi"] = cAbi
         /\ ReleaseAssets(npm, cAbi, record)["release-record"] = record
         /\ \A name \in DOMAIN npm : ReleaseAssets(npm, cAbi, record)[name] = npm[name]
BY DEF ReleaseAssets, Write, PublishedFiles, RecoveryFiles

\* The assets of a release that the job j verified.
LEMMA VerifiedAssets ==
  ASSUME FinalsInv, VerifiedInv, NEW j \in Jobs, job[j].pc = "done"
  PROVE  /\ DOMAIN job[j].npm \in {PublishedFiles, RecoveryFiles}
         /\ DOMAIN github.assets = DOMAIN job[j].npm \cup {"c-abi", "release-record"}
         /\ github.assets["c-abi"] = job[j].cAbi
         /\ github.assets["release-record"] = job[j].record
         /\ \A name \in DOMAIN job[j].npm : github.assets[name] = job[j].npm[name]
<1>1. DOMAIN job[j].npm \in {PublishedFiles, RecoveryFiles}
  BY DEF FinalsInv, FinalInv, validatePublishedEvidence, assertExactFiles
<1>2. github.assets = ReleaseAssets(job[j].npm, job[j].cAbi, job[j].record)
  BY DEF VerifiedInv, LocalAssets
<1> QED
  BY <1>1, <1>2, AssetFacts

(* The evidence of a verified GitHub Release is about the bytes npm serves and names the
   run and attempt that published them, whichever attempt or recovery made the release
   (finalizeReleaseOperation, createReleaseRecord, verifyReleaseAssets).                *)
THEOREM VerifiedServes == Spec => []VerifiedReleaseIsWhatNpmServes
<1>1. FinalsInv /\ VerifiedInv => VerifiedReleaseIsWhatNpmServes
  <2> SUFFICES ASSUME FinalsInv, VerifiedInv, NEW j \in Jobs, job[j].pc = "done"
               PROVE  /\ Published
                      /\ github.target = registry.commit
                      /\ github.assets["npm-provenance"].canonical = registry.tarball
                      /\ github.assets["release-operation"].invocation = registry.invocation
                      /\ registry.tarball = IF "published" \in DOMAIN github.assets
                                            THEN github.assets["published"].tarball
                                            ELSE github.assets["candidate"].tarball
    BY DEF VerifiedReleaseIsWhatNpmServes
  <2> DEFINE npm == job[j].npm
  <2>1. /\ DOMAIN npm \in {PublishedFiles, RecoveryFiles}
        /\ DOMAIN github.assets = DOMAIN npm \cup {"c-abi", "release-record"}
        /\ \A name \in DOMAIN npm : github.assets[name] = npm[name]
    BY VerifiedAssets
  <2>2. /\ Published /\ registry.commit = job[j].commit /\ Describes(npm)
        /\ validatePublishedEvidence(npm, job[j].commit, "published" \in DOMAIN npm)
    BY DEF FinalsInv, FinalInv
  <2>3. github.target = job[j].commit
    BY DEF VerifiedInv
  <2> HIDE DEF npm
  <2>4. {"npm-provenance", "release-operation", "candidate"} \subseteq DOMAIN npm
    BY <2>1 DEF PublishedFiles, RecoveryFiles
  <2>5. /\ github.assets["npm-provenance"] = npm["npm-provenance"]
        /\ github.assets["release-operation"] = npm["release-operation"]
        /\ github.assets["candidate"] = npm["candidate"]
    BY <2>1, <2>4
  <2>6. "published" \in DOMAIN github.assets <=> "published" \in DOMAIN npm
    BY <2>1
  <2>7. CASE "published" \in DOMAIN npm
    <3>1. npm["npm-provenance"].canonical = npm["published"].tarball
      BY <2>2, <2>7 DEF validatePublishedEvidence, validateRecoveryNpmEvidence
    <3> QED
      BY <2>1, <2>2, <2>3, <2>5, <2>6, <2>7, <3>1 DEF Describes
  <2>8. CASE "published" \notin DOMAIN npm
    <3>1. npm["npm-provenance"].canonical = npm["candidate"].tarball
      BY <2>2, <2>8 DEF validatePublishedEvidence, optionalPublishedEvidence
    <3> QED
      BY <2>2, <2>3, <2>5, <2>6, <2>8, <3>1 DEF Describes
  <2> QED
    BY <2>7, <2>8
<1> QED
  BY <1>1, FinalsInductive, VerifiedInductive, PTL

(* All assets of a verified release come from one attempt and are the ones its record
   lists: no mixture of attempts, of runs or with assets made by hand
   (assemblePublicationAssets, planMissingAssets, verifyReleaseAssets).                *)
THEOREM VerifiedOneAttempt == Spec => []VerifiedEvidenceIsOneAttempt
<1>1. FinalsInv /\ VerifiedInv => VerifiedEvidenceIsOneAttempt
  <2> SUFFICES ASSUME FinalsInv, VerifiedInv, NEW j \in Jobs, job[j].pc = "done"
               PROVE  LET assets == github.assets
                      IN  /\ assets["candidate"].built = assets["c-abi"].built
                          /\ assets["release-record"].cAbi = assets["c-abi"]
                          /\ DOMAIN assets = DOMAIN assets["release-record"].npm
                                                \cup {"c-abi", "release-record"}
                          /\ \A name \in DOMAIN assets["release-record"].npm :
                                assets[name] = assets["release-record"].npm[name]
    BY DEF VerifiedEvidenceIsOneAttempt
  <2>1. /\ DOMAIN job[j].npm \in {PublishedFiles, RecoveryFiles}
        /\ DOMAIN github.assets = DOMAIN job[j].npm \cup {"c-abi", "release-record"}
        /\ github.assets["c-abi"] = job[j].cAbi
        /\ github.assets["release-record"] = job[j].record
        /\ \A name \in DOMAIN job[j].npm : github.assets[name] = job[j].npm[name]
    BY VerifiedAssets
  <2>2. /\ job[j].npm["candidate"].built = job[j].cAbi.built
        /\ job[j].record = createReleaseRecord(job[j].commit, job[j].npm, job[j].cAbi)
    BY DEF FinalsInv, FinalInv
  <2>3. job[j].record.npm = job[j].npm /\ job[j].record.cAbi = job[j].cAbi
    BY <2>2 DEF createReleaseRecord
  <2>4. "candidate" \in DOMAIN job[j].npm
    BY <2>1 DEF PublishedFiles, RecoveryFiles
  <2> QED
    BY <2>1, <2>2, <2>3, <2>4
<1> QED
  BY <1>1, FinalsInductive, VerifiedInductive, PTL

-----------------------------------------------------------------------------
(* Recoveries are not refused *)

\* The checks of a recovery whose dispatch names the attempt that published.
LEMMA RecoveryPasses ==
  ASSUME Version = AssembledVersion, Shape, ArtifactsInv, PublishInv, NEW d \in Dispatches,
         DispatchInv(d), Shared(d), Published, job[d].orig = registry.invocation,
         job[d].pc \notin LatePcs
  PROVE  job'[d].pc # "failed"
<1>0. d \in Jobs /\ d \notin Runs
  BY ReleaseAssumption DEF Jobs
<1>1. CASE CaptureRecovery(d)
  <2>1. job[d].pc = "recapture"
    BY <1>1 DEF CaptureRecovery
  <2>2. job[registry.invocation[1]].commit = job[d].commit
    BY <2>1 DEF DispatchInv, Named
  <2>3. registry.commit = job[d].commit
    BY <2>2 DEF PublishInv, RegistryInv
  <2>4. provenanceIdentity(job[d].commit, job[d].orig)
    BY <2>3 DEF provenanceIdentity
  <2> QED
    BY <1>0, <1>1, <2>4 DEF CaptureRecovery, Step, Shape, JobShape, Fields
<1>2. CASE Reconstruct(d)
  <2>1. job[d].pc = "reconstruct"
    BY <1>2 DEF Reconstruct
  <2>2. assertExactFiles(job[d].npm, CandidateFiles)
    BY <2>1 DEF DispatchInv, CapturePcs, assertExactFiles
  <2> QED
    BY <1>0, <1>2, <2>2 DEF Reconstruct, Step, Shape, JobShape, Fields
<1>3. CASE ReVerify(d)
  <2>1. job[d].pc = "reverify"
    BY <1>3 DEF ReVerify
  <2>2. Sourced(d) /\ Reconstructed(d)
    BY <2>1 DEF DispatchInv, BundlePcs
  <2>3. /\ validateIdentityArtifact(Artifact("identity", job[d].suffix), job[d].commit)
        /\ Artifact("identity", job[d].suffix).main <= job[d].main
        /\ job[d].npm["published"].byte_reproducible
             = (job[d].npm["candidate"].tarball = job[d].npm["published"].tarball)
    BY <2>2 DEF Sourced, Reconstructed, validateIdentityArtifact
  <2> QED
    BY <1>0, <1>3, <2>3 DEF ReVerify, Step, Shape, JobShape, Fields
<1>4. CASE Finalize(d)
  <2>1. job[d].pc = "finalize"
    BY <1>4 DEF Finalize
  <2>2. /\ Sourced(d) /\ Reconstructed(d)
        /\ job[d].npm["release-operation"] = Operation(job[d].commit, registry.tarball)
    BY <2>1 DEF DispatchInv, BundlePcs
  <2>3. /\ job[d].npm["release-operation"].commit = job[d].commit
        /\ job[d].npm["release-operation"].status = "required-at-publish"
        /\ job[d].npm["release-operation"].tarball = registry.tarball
    BY <2>2 DEF Operation
  <2>4. /\ job[d].npm["npm-provenance"].canonical = registry.tarball
        /\ job[d].npm["npm-provenance"].commit = job[d].commit
        /\ job[d].npm["npm-provenance"].invocation = job[d].orig
        /\ job[d].npm["npm-provenance"].mode = "post-publish-recovery"
        /\ job[d].mode = "recovered-existing"
    BY <2>2 DEF Sourced, Reconstructed, Captured, captureNpmProvenance
  <2>5. finalizeReleaseOperation(d)
    BY <2>3, <2>4 DEF finalizeReleaseOperation, validateNpmProvenanceEvidence
  <2> QED
    BY <1>0, <1>4, <2>5 DEF Finalize, Step, Shape, JobShape, Fields
<1>5. ASSUME job[d].pc \in {"published-record", "assemble"}
      PROVE  /\ job[d].mode = "recovered-existing" /\ "published" \in DOMAIN job[d].npm
             /\ validatePublishedEvidence(job[d].npm, job[d].commit, TRUE)
  <2>1. /\ Sourced(d) /\ Reconstructed(d) /\ Finalized(d)
        /\ DOMAIN job[d].npm = RecoveryFiles
    BY <1>5 DEF DispatchInv, BundlePcs
  <2>2. /\ job[d].npm["npm-provenance"].canonical = registry.tarball
        /\ job[d].npm["npm-provenance"].commit = job[d].commit
        /\ job[d].npm["npm-provenance"].invocation = job[d].orig
        /\ job[d].npm["npm-provenance"].mode = "post-publish-recovery"
    BY <2>1 DEF Reconstructed, Captured, captureNpmProvenance
  <2>3. validateRecoveryNpmEvidence(job[d].npm, job[d].commit)
    BY <2>1, <2>2 DEF Reconstructed, Finalized, validateRecoveryNpmEvidence
  <2> QED
    BY <2>1, <2>3 DEF Sourced, validatePublishedEvidence, assertExactFiles, RecoveryFiles
<1>6. CASE PublishedRecord(d)
  <2>1. job[d].pc = "published-record"
    BY <1>6 DEF PublishedRecord
  <2>2. validatePublishedEvidence(job[d].npm, job[d].commit,
                                  job[d].mode = "recovered-existing")
    BY <1>5, <2>1 DEF validatePublishedEvidence
  <2> QED
    BY <1>0, <1>6, <2>2 DEF PublishedRecord, Step, Shape, JobShape, Fields
<1>7. CASE Assemble(d)
  <2>1. job[d].pc = "assemble"
    BY <1>7 DEF Assemble
  <2>2. /\ validatePublishedEvidence(job[d].npm, job[d].commit,
                                     "published" \in DOMAIN job[d].npm)
        /\ job[d].record = createReleaseRecord(job[d].commit, job[d].npm, job[d].cAbi)
    BY <1>5, <2>1 DEF DispatchInv, validatePublishedEvidence
  <2>3. assemblePublicationAssets(job[d].npm, job[d].cAbi, job[d].record, job[d].commit)
    BY <2>2 DEF assemblePublicationAssets, createReleaseRecord
  <2>4. job' = [job EXCEPT ![d] =
                  [job[d] EXCEPT !.pc = "lookup", !.npm = job[d].npm,
                                 !.record = job[d].record, !.cAbi = job[d].cAbi]]
    BY <1>0, <1>7, <2>3 DEF Assemble, Step
  <2> QED
    BY <1>0, <2>4 DEF Shape, JobShape, Fields
<1>8. CASE \/ LookupRelease(d) \/ CreateRelease(d) \/ UploadAsset(d) \/ VerifyRelease(d)
  BY <1>8 DEF LookupRelease, CreateRelease, UploadAsset, VerifyRelease, LatePcs
<1> QED
  BY <1>1, <1>2, <1>3, <1>4, <1>6, <1>7, <1>8 DEF Shared

(* A recovery dispatched for the attempt that published is refused by no step that checks
   evidence, although main moved, the candidate was rebuilt or the bytes differ, when the
   sources have the version that assemblePublicationAssets expects
   (release-recovery.mjs reconstruct to release-publication.mjs assemble).               *)
THEOREM AcceptedRecovery == Version = AssembledVersion => (Spec => []RecoveryAccepts)
<1> SUFFICES ASSUME Version = AssembledVersion PROVE Spec => []RecoveryAccepts
  OBVIOUS
<1>1. Init => RecoveryAccepts
  BY DEF Init, RecoveryAccepts, NoJob, Jobs
<1>2. /\ Shape /\ ArtifactsInv /\ PublishInv /\ DispatchesInv /\ RecoveryAccepts
      /\ [Next]_vars
      => RecoveryAccepts'
  <2> SUFFICES ASSUME Shape, ArtifactsInv, PublishInv, DispatchesInv, RecoveryAccepts,
                      [Next]_vars, NEW d \in Dispatches, job'[d].refused, Published',
                      job'[d].orig = registry'.invocation
               PROVE  job'[d].why \in {"dispatch", "lookup", "create", "upload", "verify-release"}
    BY DEF RecoveryAccepts
  <2>1. d \in Jobs /\ d \notin Runs
    BY ReleaseAssumption DEF Jobs
  <2>2. Moves(d) /\ JobShape(d) /\ DispatchInv(d)
    BY <2>1, AllMove DEF Shape, DispatchesInv
  <2>3. CASE job'[d] = job[d]
    <3>1. CASE registry' = registry
      BY <2>3, <3>1 DEF RecoveryAccepts, Published
    <3>2. ASSUME NEW r \in Runs, Publishes(r)
          PROVE  job[d].why = "dispatch"
      <4>1. job[d].pc = "failed"
        BY <2>2, <2>3 DEF JobShape
      <4>2. SUFFICES ASSUME Named(d) PROVE FALSE
        BY <2>2, <4>1 DEF DispatchInv
      <4>3. job[d].orig = Own(r) /\ job[r].pc = "publish"
        BY <2>3, <3>2 DEF Publishes, NpmPublish
      <4>4. Dead(Own(r))
        BY <4>2, <4>3 DEF Named
      <4>5. job[r].attempt \in Int
        BY ReleaseAssumption DEF Shape, JobShape, Jobs
      <4> QED
        BY <4>3, <4>4, <4>5 DEF Dead, Own
    <3> QED
      BY <2>3, <3>1, <3>2, RegistryStep
  <2>4. CASE Stops(d)
    <3>1. CASE VerifyDispatch(d)
      BY <2>4, <3>1 DEF Stops, VerifyDispatch
    <3>2. CASE Shared(d)
      <4>1. registry' = registry
        <5>1. ASSUME NEW r \in Runs, Publishes(r) PROVE FALSE
          <6>1. job[r].pc = "publish" /\ r \in Jobs
            BY <5>1 DEF Publishes, NpmPublish, Jobs
          <6>2. Stops(r) \/ RunGoes(r)
            BY <5>1, <6>1, RunMoves DEF Publishes
          <6>3. Rests(d)
            BY <2>1, <3>2, SharedMoves
          <6>4. job'[r] = job[r]
            BY <2>1, <5>1, <6>1, <6>3 DEF Rests
          <6> QED
            BY <6>1, <6>2, <6>4 DEF Stops, RunGoes, Goes
        <5> QED
          BY <5>1, RegistryStep
      <4>2. Published /\ job[d].orig = registry.invocation
        BY <2>4, <4>1 DEF Published, Stops
      <4>3. job[d].pc \in LatePcs
        BY <2>2, <2>4, <3>2, <4>2, RecoveryPasses DEF Stops
      <4> QED
        BY <2>4, <4>3 DEF Stops, LatePcs
    <3> QED
      BY <2>1, <2>4, <3>1, <3>2 DEF Stops
  <2>5. CASE job'[d].refused = job[d].refused /\ job[d].pc # "failed"
    BY <2>1, <2>2, <2>5 DEF JobShape
  <2>6. ~Begins(d) /\ ~Dispatched(d)
    BY <2>1 DEF Begins, Dispatched
  <2> QED
    BY <2>1, <2>2, <2>3, <2>4, <2>5, <2>6 DEF Moves, SharedGoes, Goes
<1> QED
  BY <1>1, <1>2, ShapeInductive, ArtifactsInductive, PublishInductive, DispatchesInductive,
     PTL DEF Spec
=============================================================================
