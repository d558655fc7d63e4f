--------------------------- MODULE ReleaseProtocol ---------------------------
(***************************************************************************)
(* The release of one package version: the tag-triggered release workflow  *)
(* with its attempts, the manually dispatched recovery workflow, and the   *)
(* three services they act on (git, the npm registry, GitHub).             *)
(*                                                                         *)
(* A job is a run of release.yml (Runs) or of release-recovery.yml         *)
(* (Dispatches); its steps are the scripts the workflow calls, and any     *)
(* step may be its last (Interrupt).  Commits are numbered so that commit  *)
(* c is contained in main iff c <= main.  Evidence is a function from file *)
(* groups to contents; equal contents are equal digests.                   *)
(***************************************************************************)
EXTENDS Integers

CONSTANTS
    Runs,        \* runs of release.yml, each created by one push of the tag
    Dispatches,  \* runs of release-recovery.yml
    MaxAttempt,  \* bound on the attempts of one run
    MaxCommit,   \* bound on the commits
    Builds,      \* what two builds of one commit may differ in
    MaxFaults,   \* bound on interruptions, reruns, releases made by hand and tags moved
    Version,     \* version of the package sources
    None         \* absent

ASSUME ReleaseAssumption ==
    /\ Runs \cap Dispatches = {}
    /\ MaxAttempt \in Nat \ {0}
    /\ MaxCommit \in Nat \ {0}
    /\ MaxFaults \in Nat
    /\ None \notin 1 .. MaxCommit

VARIABLES
    tag,        \* the commit the release tag points at, or None
    main,       \* the last commit of main
    registry,   \* what npm serves for Version
    artifacts,  \* uploaded workflow artifacts, named by kind, run and attempt
    github,     \* the GitHub Release of the tag
    job,        \* the workflow runs
    faults      \* how many faults the environment has caused

vars == <<tag, main, registry, artifacts, github, job, faults>>

Jobs == Runs \cup Dispatches
Commits == 1 .. MaxCommit
Attempts == Runs \X (1 .. MaxAttempt)

Empty == [x \in {} |-> x]

(* A file is written into a directory, or over what it held. *)
Write(dir, name, content) ==
    [x \in DOMAIN dir \cup {name} |-> IF x = name THEN content ELSE dir[x]]

NoPackage == [tarball |-> None, commit |-> None, invocation |-> None]
Published == registry.commit # None

NoRelease == [target |-> None, assets |-> Empty, digests |-> {}]
Released == github.target # None

NoJob == [pc |-> "none", why |-> "none", refused |-> FALSE, attempt |-> 0, commit |-> None,
          created |-> FALSE, orig |-> None, source |-> None, suffix |-> None,
          main |-> None, mode |-> "none", provenance |-> None, npm |-> Empty,
          cAbi |-> None, record |-> None, todo |-> {}]

Over(j) == job[j].pc \in {"failed", "done"}
Active(j) == job[j].pc \notin {"none", "failed", "done"}

(* The job ends at the step `why', refused by a check or interrupted; its runner and all *)
(* local files are gone.                                                                   *)
Ended(j, refused) ==
    [NoJob EXCEPT !.pc = "failed", !.why = job[j].pc, !.refused = refused,
                  !.attempt = job[j].attempt, !.commit = job[j].commit,
                  !.created = job[j].created, !.orig = job[j].orig]

(* A step: the scripts run under `set -e', so the first failing check ends the job. *)
Step(j, ok, next) ==
    job' = [job EXCEPT ![j] = IF ok THEN next ELSE Ended(j, TRUE)]

Uploaded(kind, at) == <<kind, at>> \in DOMAIN artifacts
Artifact(kind, at) == artifacts[<<kind, at>>]
Upload(kind, at, content) == artifacts' = Write(artifacts, <<kind, at>>, content)

(* Artifact names carry run and attempt: an attempt finds only what it uploaded. *)
Own(j) == <<j, job[j].attempt>>

-----------------------------------------------------------------------------
(* Identity: release-identity.mjs *)

validateTagEvent(j) == job[j].created

validateReleaseIdentity(j) ==
    /\ validateTagEvent(j)
    /\ tag = job[j].commit          \* the checkout of the tag is the pushed commit
    /\ job[j].commit <= main

(* npm's answer: once published, a cached 404 may still be served. *)
RegistryAnswers ==
    IF Published THEN {"exists", "not-found"} ELSE {"not-found"}

checkNpmVersionAvailability(status, allowExisting) ==
    status = "not-found" \/ allowExisting

Identity(j) ==
    /\ job[j].pc = "identity"
    /\ \E status \in RegistryAnswers :
         LET ok == /\ validateReleaseIdentity(j)
                   /\ checkNpmVersionAvailability(status, job[j].attempt > 1)
         IN  /\ Step(j, ok, [job[j] EXCEPT !.pc = "candidate"])
             /\ IF ok
                THEN Upload("identity", Own(j),
                            [commit |-> job[j].commit, main |-> main, status |-> status])
                ELSE UNCHANGED artifacts
    /\ UNCHANGED <<tag, main, registry, github, faults>>

-----------------------------------------------------------------------------
(* Building: every attempt rebuilds, and builds need not be bit for bit equal. *)

Candidate(j) ==
    /\ job[j].pc = "candidate"
    /\ \E b \in Builds :
         Upload("npm", Own(j), [built |-> Own(j), tarball |-> <<job[j].commit, b>>])
    /\ Step(j, TRUE, [job[j] EXCEPT !.pc = "c-abi"])
    /\ UNCHANGED <<tag, main, registry, github, faults>>

CAbi(j) ==
    /\ job[j].pc = "c-abi"
    /\ Upload("c-abi", Own(j), [built |-> Own(j), commit |-> job[j].commit])
    /\ Step(j, TRUE, [job[j] EXCEPT !.pc = "record"])
    /\ UNCHANGED <<tag, main, registry, github, faults>>

-----------------------------------------------------------------------------
(* The release record: release-record.mjs.  It holds the digest of every file of the *)
(* npm evidence directory and of the C ABI evidence.                                  *)

assertExactFiles(dir, names) == DOMAIN dir = names

CandidateFiles == {"candidate"}
PublishedFiles == {"candidate", "npm-provenance", "release-operation"}
RecoveryFiles == PublishedFiles \cup {"published", "artifact-source"}

\* Mutant: the record lists the files without their digests.
createReleaseRecord_NamesOnly(commit, npm, cAbi) ==
    [commit |-> commit, version |-> Version, npm |-> [f \in DOMAIN npm |-> [tarball |-> None]],
     cAbi |-> cAbi]

createReleaseRecord(commit, npm, cAbi) ==
    [commit |-> commit, version |-> Version, npm |-> npm, cAbi |-> cAbi]

(* createReleaseRecord's checks of a fresh publication: operation, provenance and *)
(* candidate name one tarball and one publication mode.                            *)
optionalPublishedEvidence(npm, commit) ==
    LET op == npm["release-operation"]
        prov == npm["npm-provenance"]
    IN  /\ op.commit = commit /\ prov.commit = commit
        /\ op.status = "published"
        /\ op.tarball = prov.canonical
        /\ prov.canonical = npm["candidate"].tarball
        /\ prov.mode = IF op.mode = "recovered-existing" THEN "post-publish-recovery"
                                                         ELSE "fresh-publish"

(* createReleaseRecord's checks of a recovered publication. *)
validateRecoveryNpmEvidence(npm, commit) ==
    LET op == npm["release-operation"]
        prov == npm["npm-provenance"]
        src == npm["artifact-source"]
    IN  /\ op.commit = commit /\ prov.commit = commit
        /\ op.status = "published" /\ op.mode = "recovered-existing"
        /\ op.tarball = npm["published"].tarball
        /\ prov.mode = "post-publish-recovery"
        /\ prov.canonical = npm["published"].tarball
        /\ src.endpoints
        /\ prov.invocation = src.original_publish
        /\ npm["published"].byte_reproducible
              = (npm["candidate"].tarball = npm["published"].tarball)

ReleaseRecord(j) ==
    /\ job[j].pc = "record"
    /\ LET ok == Uploaded("npm", Own(j)) /\ Uploaded("c-abi", Own(j))
       IN  /\ Step(j, ok, [job[j] EXCEPT !.pc = "verify"])
           /\ IF ok
              THEN Upload("record", Own(j),
                          createReleaseRecord(job[j].commit,
                                              Write(Empty, "candidate", Artifact("npm", Own(j))),
                                              Artifact("c-abi", Own(j))))
              ELSE UNCHANGED artifacts
    /\ UNCHANGED <<tag, main, registry, github, faults>>

-----------------------------------------------------------------------------
(* Verification before publication: release-operation.mjs verify *)

validateIdentityArtifact(identity, commit) == identity.commit = commit

Operation(commit, tarball) ==
    [commit |-> commit, tarball |-> tarball, status |-> "required-at-publish",
     mode |-> "none", invocation |-> None]

(* The publish job checks out the tag, fetches main and downloads what its own attempt *)
(* uploaded; the operation evidence is written into the evidence directory.             *)
VerifyBundle(j) ==
    /\ job[j].pc = "verify"
    /\ LET ok == /\ \A kind \in {"identity", "npm", "c-abi", "record"} : Uploaded(kind, Own(j))
                 /\ Artifact("record", Own(j))
                      = createReleaseRecord(job[j].commit,
                                            Write(Empty, "candidate", Artifact("npm", Own(j))),
                                            Artifact("c-abi", Own(j)))
                 /\ tag = job[j].commit
                 /\ job[j].commit <= main
                 /\ Artifact("identity", Own(j)).main = main
                 /\ validateIdentityArtifact(Artifact("identity", Own(j)), job[j].commit)
       IN  Step(j, ok, [job[j] EXCEPT
                          !.pc = "publish",
                          !.main = main,
                          !.suffix = Own(j),
                          !.cAbi = Artifact("c-abi", Own(j)),
                          !.npm = Write(Write(Empty, "candidate", Artifact("npm", Own(j))),
                                        "release-operation",
                                        Operation(job[j].commit,
                                                  Artifact("npm", Own(j)).tarball))])
    /\ UNCHANGED <<tag, main, registry, artifacts, github, faults>>

-----------------------------------------------------------------------------
(* Publication on npm *)

(* npm accepts a version once; its provenance names commit, run and attempt. The client *)
(* may lose the answer.                                                                   *)
NpmPublish(j) ==
    /\ job[j].pc = "publish"
    /\ IF Artifact("identity", Own(j)).status = "exists"
       THEN /\ Step(j, TRUE, [job[j] EXCEPT !.pc = "recapture", !.mode = "recovered-existing",
                                            !.orig = <<j, None>>, !.source = Own(j)])
            /\ UNCHANGED registry
       ELSE /\ \E answered \in BOOLEAN :
                 Step(j, ~Published /\ answered,
                      [job[j] EXCEPT !.pc = "capture", !.mode = "published", !.orig = Own(j)])
            /\ registry' = IF Published THEN registry
                           ELSE [tarball |-> job[j].npm["candidate"].tarball,
                                 commit |-> job[j].commit, invocation |-> Own(j)]
    /\ UNCHANGED <<tag, main, artifacts, github, faults>>

(* provenanceIdentity: commit always; run and attempt when they are expected. *)
provenanceIdentity(commit, orig) ==
    /\ registry.commit = commit
    /\ orig # None => /\ registry.invocation[1] = orig[1]
                      /\ orig[2] # None => registry.invocation[2] = orig[2]

captureNpmProvenance(commit, mode) ==
    [commit |-> commit, canonical |-> registry.tarball,
     invocation |-> registry.invocation, mode |-> mode]

(* A fresh publication: the bytes served must be the bytes of the manifest. *)
CaptureFresh(j) ==
    /\ job[j].pc = "capture"
    /\ Step(j, /\ registry.tarball = job[j].npm["candidate"].tarball
               /\ provenanceIdentity(job[j].commit, None),
            [job[j] EXCEPT
               !.pc = "finalize",
               !.npm = Write(@, "npm-provenance",
                             captureNpmProvenance(job[j].commit, "fresh-publish"))])
    /\ UNCHANGED <<tag, main, registry, artifacts, github, faults>>

(* A recovery: bytes may differ from the candidate's, provenance decides. In release.yml *)
(* validate-provenance-invocation then reads the original attempt from the provenance.   *)
CaptureRecovery(j) ==
    /\ job[j].pc = "recapture"
    /\ Step(j, Published /\ provenanceIdentity(job[j].commit, job[j].orig),
            [job[j] EXCEPT
               !.pc = "reconstruct",
               !.provenance = captureNpmProvenance(job[j].commit, "post-publish-recovery"),
               !.orig = IF j \in Runs THEN registry.invocation ELSE @])
    /\ UNCHANGED <<tag, main, registry, artifacts, github, faults>>

-----------------------------------------------------------------------------
(* Reconstruction: release-recovery.mjs *)

reconstructPublishedNpmBundle(npm) ==
    Write(Write(Empty, "candidate", npm["candidate"]),
          "published", [tarball |-> registry.tarball,
                        byte_reproducible |-> npm["candidate"].tarball = registry.tarball])

(* The step also copies the provenance and the description of the artifact source. The *)
(* one release.yml writes inline has no metadata endpoints.                             *)
ArtifactSource(j) ==
    [original_publish |-> job[j].orig, source |-> job[j].source,
     suffix |-> job[j].suffix, endpoints |-> j \in Dispatches]

Reconstruct(j) ==
    /\ job[j].pc = "reconstruct"
    /\ Step(j, assertExactFiles(job[j].npm, CandidateFiles),
            [job[j] EXCEPT
               !.pc = "reverify",
               !.npm = Write(Write(reconstructPublishedNpmBundle(@),
                                   "npm-provenance", job[j].provenance),
                             "artifact-source", ArtifactSource(j))])
    /\ UNCHANGED <<tag, main, registry, artifacts, github, faults>>

\* Mutant: the checkout must be at the main of the identity, as in a fresh release.
ReVerify_MainUnmoved(j) ==
    /\ job[j].pc = "reverify"
    /\ Step(j, /\ validateIdentityArtifact(Artifact("identity", job[j].suffix), job[j].commit)
               /\ Artifact("identity", job[j].suffix).main = job[j].main,
            [job[j] EXCEPT
               !.pc = "finalize",
               !.npm = Write(@, "release-operation",
                             Operation(job[j].commit, @["published"].tarball))])
    /\ UNCHANGED <<tag, main, registry, artifacts, github, faults>>

(* release-operation.mjs verify --recovery: the main of the identity is in the main of *)
(* the checkout.                                                                        *)
ReVerify(j) ==
    /\ job[j].pc = "reverify"
    /\ Step(j, /\ validateIdentityArtifact(Artifact("identity", job[j].suffix), job[j].commit)
               /\ Artifact("identity", job[j].suffix).main <= job[j].main
               /\ job[j].npm["published"].byte_reproducible
                    = (job[j].npm["candidate"].tarball = job[j].npm["published"].tarball),
            [job[j] EXCEPT
               !.pc = "finalize",
               !.npm = Write(@, "release-operation",
                             Operation(job[j].commit, @["published"].tarball))])
    /\ UNCHANGED <<tag, main, registry, artifacts, github, faults>>

-----------------------------------------------------------------------------
(* release-operation.mjs finalize, and the published record *)

validateNpmProvenanceEvidence(prov, tarball, commit, orig) ==
    prov.canonical = tarball /\ prov.commit = commit /\ prov.invocation = orig

finalizeReleaseOperation(j) ==
    LET op == job[j].npm["release-operation"]
        prov == job[j].npm["npm-provenance"]
    IN  /\ op.commit = job[j].commit /\ op.status = "required-at-publish"
        /\ validateNpmProvenanceEvidence(prov, op.tarball, job[j].commit, job[j].orig)
        /\ prov.mode = IF job[j].mode = "recovered-existing" THEN "post-publish-recovery"
                                                             ELSE "fresh-publish"

Finalize(j) ==
    /\ job[j].pc = "finalize"
    /\ Step(j, finalizeReleaseOperation(j),
            [job[j] EXCEPT !.pc = "published-record",
                           !.npm["release-operation"] =
                              [@ EXCEPT !.status = "published", !.mode = job[j].mode,
                                        !.invocation = job[j].orig]])
    /\ UNCHANGED <<tag, main, registry, artifacts, github, faults>>

validatePublishedEvidence(npm, commit, recovery) ==
    IF recovery THEN /\ assertExactFiles(npm, RecoveryFiles)
                     /\ validateRecoveryNpmEvidence(npm, commit)
                ELSE /\ assertExactFiles(npm, PublishedFiles)
                     /\ optionalPublishedEvidence(npm, commit)

PublishedRecord(j) ==
    /\ job[j].pc = "published-record"
    /\ LET ok == validatePublishedEvidence(job[j].npm, job[j].commit,
                                           job[j].mode = "recovered-existing")
           record == createReleaseRecord(job[j].commit, job[j].npm, job[j].cAbi)
       IN  /\ Step(j, ok, [job[j] EXCEPT !.pc = "assemble", !.record = record])
           /\ IF ok /\ j \in Runs
              THEN Upload("published", Own(j), [npm |-> job[j].npm, record |-> record])
              ELSE UNCHANGED artifacts
    /\ UNCHANGED <<tag, main, registry, github, faults>>

-----------------------------------------------------------------------------
(* The GitHub Release: release-publication.mjs, github-release.mjs *)

ReleaseAssets(npm, cAbi, record) ==
    Write(Write(npm, "release-record", record), "c-abi", cAbi)

LocalAssets(j) == ReleaseAssets(job[j].npm, job[j].cAbi, job[j].record)

(* The version is a literal of assemblePublicationAssets. *)
AssembledVersion == "0.2.0"

assemblePublicationAssets(npm, cAbi, record, commit) ==
    /\ validatePublishedEvidence(npm, commit, "published" \in DOMAIN npm)
    /\ record = createReleaseRecord(commit, npm, cAbi)
    /\ record.version = AssembledVersion

(* In release.yml this is a job of its own, which downloads what its attempt uploaded. *)
Assemble(j) ==
    /\ job[j].pc = "assemble"
    /\ LET found == j \in Runs => Uploaded("published", Own(j)) /\ Uploaded("c-abi", Own(j))
           npm == IF j \in Runs THEN Artifact("published", Own(j)).npm ELSE job[j].npm
           record == IF j \in Runs THEN Artifact("published", Own(j)).record ELSE job[j].record
           cAbi == IF j \in Runs THEN Artifact("c-abi", Own(j)) ELSE job[j].cAbi
       IN  Step(j, found /\ assemblePublicationAssets(npm, cAbi, record, job[j].commit),
                [job[j] EXCEPT !.pc = "lookup", !.npm = npm, !.record = record, !.cAbi = cAbi])
    /\ UNCHANGED <<tag, main, registry, artifacts, github, faults>>

validateReleaseMetadata(release, commit) == release.target = commit

(* GitHub reports the digest of an asset, or does not. *)
planMissingAssets(release, local, commit) ==
    /\ validateReleaseMetadata(release, commit)
    /\ DOMAIN release.assets \subseteq DOMAIN local
    /\ \A name \in release.digests : release.assets[name] = local[name]

\* Mutant: the assets of the release are compared by name.
verifyReleaseAssets_NamesOnly(release, local, commit) ==
    /\ validateReleaseMetadata(release, commit)
    /\ DOMAIN release.assets = DOMAIN local

verifyReleaseAssets(release, local, commit) ==
    /\ validateReleaseMetadata(release, commit)
    /\ release.assets = local

(* release.yml creates or resumes; release-recovery.yml requires that there is none. *)
LookupRelease(j) ==
    /\ job[j].pc = "lookup"
    /\ IF Released
       THEN Step(j, j \in Runs /\ planMissingAssets(github, LocalAssets(j), job[j].commit),
                 [job[j] EXCEPT !.pc = "upload",
                                !.todo = DOMAIN LocalAssets(j) \ DOMAIN github.assets])
       ELSE Step(j, TRUE, [job[j] EXCEPT !.pc = "create"])
    /\ UNCHANGED <<tag, main, registry, artifacts, github, faults>>

\* Mutant: an existing release is replaced.
CreateRelease_Replaces(j) ==
    /\ job[j].pc = "create"
    /\ Step(j, tag # None, [job[j] EXCEPT !.pc = "upload", !.todo = DOMAIN LocalAssets(j)])
    /\ github' = IF tag # None
                 THEN [target |-> job[j].commit, assets |-> Empty, digests |-> {}]
                 ELSE github
    /\ UNCHANGED <<tag, main, registry, artifacts, faults>>

(* gh release create --verify-tag: refused without the tag or when the release exists. *)
CreateRelease(j) ==
    /\ job[j].pc = "create"
    /\ Step(j, ~Released /\ tag # None,
            [job[j] EXCEPT !.pc = "upload", !.todo = DOMAIN LocalAssets(j)])
    /\ github' = IF ~Released /\ tag # None
                 THEN [target |-> job[j].commit, assets |-> Empty, digests |-> {}]
                 ELSE github
    /\ UNCHANGED <<tag, main, registry, artifacts, faults>>

(* An existing asset is never overwritten. *)
UploadAsset(j) ==
    /\ job[j].pc = "upload"
    /\ IF job[j].todo = {}
       THEN Step(j, TRUE, [job[j] EXCEPT !.pc = "verify-release"]) /\ UNCHANGED github
       ELSE \E name \in job[j].todo :
              LET ok == name \notin DOMAIN github.assets
              IN  /\ Step(j, ok, [job[j] EXCEPT !.todo = @ \ {name}])
                  /\ github' = IF ok
                               THEN [github EXCEPT !.assets = Write(@, name, LocalAssets(j)[name]),
                                                   !.digests = @ \cup {name}]
                               ELSE github
    /\ UNCHANGED <<tag, main, registry, artifacts, faults>>

VerifyRelease(j) ==
    /\ job[j].pc = "verify-release"
    /\ Step(j, verifyReleaseAssets(github, LocalAssets(j), job[j].commit),
            [job[j] EXCEPT !.pc = "done"])
    /\ UNCHANGED <<tag, main, registry, artifacts, github, faults>>

-----------------------------------------------------------------------------
(* The recovery workflow *)

AttemptOver(at) ==
    \/ at[2] < job[at[1]].attempt
    \/ at[2] = job[at[1]].attempt /\ Over(at[1])

validateDispatchBoundary(head) == head = main

validateOriginalReleaseRun(at, commit) ==
    /\ at[2] <= job[at[1]].attempt
    /\ AttemptOver(at)
    /\ job[at[1]].commit = commit

(* The artifacts are those of the source run; the suffix names the attempt among them. *)
validateArtifactSource(source, suffix) ==
    /\ suffix[1] = source[1]
    /\ \A kind \in {"identity", "npm", "c-abi"} : Uploaded(kind, suffix)

(* An operator dispatches a recovery with the inputs of the form. *)
Dispatch(j) ==
    /\ job[j].pc = "none"
    /\ \E orig \in Attempts, source \in Attempts, suffix \in Attempts, commit \in Commits :
         job' = [job EXCEPT ![j] = [NoJob EXCEPT
                    !.pc = "dispatch", !.attempt = 1, !.commit = commit, !.orig = orig,
                    !.source = source, !.suffix = suffix, !.main = main,
                    !.mode = "recovered-existing"]]
    /\ UNCHANGED <<tag, main, registry, artifacts, github, faults>>

\* Mutant: the C ABI evidence is taken from the source attempt, the rest from the suffix.
VerifyDispatch_MixedAttempts(j) ==
    /\ job[j].pc = "dispatch"
    /\ LET d == job[j]
       IN  Step(j, /\ validateDispatchBoundary(d.main)
                   /\ tag = d.commit /\ d.commit <= main
                   /\ validateOriginalReleaseRun(d.orig, d.commit)
                   /\ validateOriginalReleaseRun(d.source, d.commit)
                   /\ validateArtifactSource(d.source, d.suffix)
                   /\ Uploaded("c-abi", d.source)
                   /\ ~Released,
                [d EXCEPT !.pc = "recapture",
                          !.npm = Write(Empty, "candidate", Artifact("npm", d.suffix)),
                          !.cAbi = Artifact("c-abi", d.source)])
    /\ UNCHANGED <<tag, main, registry, artifacts, github, faults>>

VerifyDispatch(j) ==
    /\ job[j].pc = "dispatch"
    /\ LET d == job[j]
       IN  Step(j, /\ validateDispatchBoundary(d.main)
                   /\ tag = d.commit /\ d.commit <= main
                   /\ validateOriginalReleaseRun(d.orig, d.commit)
                   /\ validateOriginalReleaseRun(d.source, d.commit)
                   /\ validateArtifactSource(d.source, d.suffix)
                   /\ ~Released,
                [d EXCEPT !.pc = "recapture",
                          !.npm = Write(Empty, "candidate", Artifact("npm", d.suffix)),
                          !.cAbi = Artifact("c-abi", d.suffix)])
    /\ UNCHANGED <<tag, main, registry, artifacts, github, faults>>

-----------------------------------------------------------------------------
(* The environment *)

(* The concurrency group of release.yml is cancelled in progress by a new run or attempt. *)
CancelOthers(r) ==
    [j \in Jobs |-> IF j \in Runs \ {r} /\ Active(j) THEN Ended(j, FALSE) ELSE job[j]]

Fault ==
    /\ faults < MaxFaults
    /\ faults' = faults + 1

PushMain ==
    /\ main < MaxCommit
    /\ main' = main + 1
    /\ UNCHANGED <<tag, registry, artifacts, github, job, faults>>

(* The tag is created, re-created after a deletion, or forced. *)
PushTag(r) ==
    /\ job[r].pc = "none"
    /\ IF tag = None THEN UNCHANGED faults ELSE Fault
    /\ \E commit \in Commits, created \in BOOLEAN :
         /\ tag = None => created
         /\ tag' = commit
         /\ job' = [CancelOthers(r) EXCEPT ![r] =
                      [NoJob EXCEPT !.pc = "identity", !.attempt = 1, !.commit = commit,
                                    !.created = created]]
    /\ UNCHANGED <<main, registry, artifacts, github>>

DeleteTag ==
    /\ Fault
    /\ tag # None
    /\ tag' = None
    /\ UNCHANGED <<main, registry, artifacts, github, job>>

(* The first step of the job that a step belongs to. *)
JobOf(pc) ==
    IF pc \in {"verify", "publish", "capture", "recapture", "reconstruct", "reverify",
               "finalize", "published-record"}
    THEN "verify"
    ELSE IF pc \in {"assemble", "lookup", "create", "upload", "verify-release"}
    THEN "assemble" ELSE pc

(* A run is run again: all its jobs, or from the failed one. *)
Rerun(r) ==
    /\ Fault
    /\ Over(r)
    /\ job[r].attempt < MaxAttempt
    /\ \E start \in {"identity"} \cup (IF job[r].pc = "failed" THEN {JobOf(job[r].why)} ELSE {}) :
         job' = [CancelOthers(r) EXCEPT ![r] =
                   [NoJob EXCEPT !.pc = start, !.attempt = job[r].attempt + 1,
                                 !.commit = job[r].commit, !.created = job[r].created]]
    /\ UNCHANGED <<tag, main, registry, artifacts, github>>

(* A cancellation, a lost runner, a service that does not answer, a job's time limit. *)
Interrupt(j) ==
    /\ Fault
    /\ Active(j)
    /\ job' = [job EXCEPT ![j] = Ended(j, FALSE)]
    /\ UNCHANGED <<tag, main, registry, artifacts, github>>

(* Somebody makes a release by hand, with or without assets of the pipeline's names. *)
HandRelease ==
    /\ Fault
    /\ ~Released /\ tag # None
    /\ \E commit \in Commits, names \in {{}, {"candidate"}, {"other"}},
         reported \in BOOLEAN :
         github' = [target |-> commit, assets |-> [n \in names |-> [built |-> None, tarball |-> None]],
                    digests |-> IF reported THEN names ELSE {}]
    /\ UNCHANGED <<tag, main, registry, artifacts, job>>

-----------------------------------------------------------------------------
Init ==
    /\ tag = None
    /\ main = 1
    /\ registry = NoPackage
    /\ artifacts = Empty
    /\ github = NoRelease
    /\ job = [j \in Jobs |-> NoJob]
    /\ faults = 0

Shared(j) ==
    \/ CaptureRecovery(j) \/ Reconstruct(j) \/ ReVerify(j) \/ Finalize(j)
    \/ PublishedRecord(j) \/ Assemble(j) \/ LookupRelease(j) \/ CreateRelease(j)
    \/ UploadAsset(j) \/ VerifyRelease(j)

ReleaseRun(r) ==
    \/ Identity(r) \/ Candidate(r) \/ CAbi(r) \/ ReleaseRecord(r)
    \/ VerifyBundle(r) \/ NpmPublish(r) \/ CaptureFresh(r) \/ Shared(r)

RecoveryRun(d) == VerifyDispatch(d) \/ Shared(d)

Environment ==
    \/ PushMain \/ DeleteTag \/ HandRelease
    \/ \E r \in Runs : PushTag(r) \/ Rerun(r)
    \/ \E d \in Dispatches : Dispatch(d)
    \/ \E j \in Jobs : Interrupt(j)

Next ==
    \/ Environment
    \/ \E r \in Runs : ReleaseRun(r)
    \/ \E d \in Dispatches : RecoveryRun(d)

Spec == Init /\ [][Next]_vars

-----------------------------------------------------------------------------
(* Properties *)

(* The evidence of a verified GitHub Release is about the bytes npm serves and names the  *)
(* run and attempt that published them, whichever attempt or recovery made the release    *)
(* (finalizeReleaseOperation, createReleaseRecord, verifyReleaseAssets).                  *)
VerifiedReleaseIsWhatNpmServes ==
    \A j \in Jobs : job[j].pc = "done" =>
        /\ Published
        /\ github.target = registry.commit
        /\ github.assets["npm-provenance"].canonical = registry.tarball
        /\ github.assets["release-operation"].invocation = registry.invocation
        /\ registry.tarball = IF "published" \in DOMAIN github.assets
                              THEN github.assets["published"].tarball
                              ELSE github.assets["candidate"].tarball

(* All assets of a verified release come from one attempt and are the ones its record     *)
(* lists: no mixture of attempts, of runs or with assets made by hand                     *)
(* (assemblePublicationAssets, planMissingAssets, verifyReleaseAssets).                   *)
VerifiedEvidenceIsOneAttempt ==
    \A j \in Jobs : job[j].pc = "done" =>
        LET assets == github.assets
        IN  /\ assets["candidate"].built = assets["c-abi"].built
            /\ assets["release-record"].cAbi = assets["c-abi"]
            /\ DOMAIN assets = DOMAIN assets["release-record"].npm
                                  \cup {"c-abi", "release-record"}
            /\ \A name \in DOMAIN assets["release-record"].npm :
                  assets[name] = assets["release-record"].npm[name]

(* What npm serves was built from a commit of main and recorded by the attempt that its   *)
(* provenance names, before it was published (release.yml, verify then npm publish).      *)
PublishedBytesWereRecorded ==
    Published =>
        /\ registry.commit <= main
        /\ Uploaded("record", registry.invocation)
        /\ Artifact("record", registry.invocation).commit = registry.commit
        /\ Artifact("record", registry.invocation).npm["candidate"].tarball = registry.tarball

(* A recovery dispatched for the attempt that published is refused by no step that checks *)
(* evidence: what one script of the chain writes, the next ones accept, although main     *)
(* moved, the candidate was rebuilt or the bytes differ (release-recovery.mjs reconstruct *)
(* to release-publication.mjs assemble).                                                  *)
RecoveryAccepts ==
    \A d \in Dispatches :
        (job[d].refused /\ Published /\ job[d].orig = registry.invocation) =>
            job[d].why \in {"dispatch", "lookup", "create", "upload", "verify-release"}

(* No attempt, recovery or resumption retargets a release, drops an asset or changes its  *)
(* bytes, even when somebody makes the release between a job's look and its creation      *)
(* (planMissingAssets, gh release create and upload without clobbering).                  *)
ReleaseOnlyGrows ==
    [][Released =>
         /\ github'.target = github.target
         /\ \A name \in DOMAIN github.assets :
               name \in DOMAIN github'.assets /\ github'.assets[name] = github.assets[name]]_vars

(* Claim of release-operation.mjs:1053 (retry_recovery): an attempt that finds its        *)
(* version published by its own run verifies provenance without republishing. Violated:   *)
(* verify has written release-operation.json into the directory that reconstruct wants    *)
(* to hold the candidate's files only.                                                    *)
RerunRecovers ==
    \A r \in Runs : ~(job[r].refused /\ job[r].why = "reconstruct")
=============================================================================
