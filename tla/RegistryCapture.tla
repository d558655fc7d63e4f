--------------------------- MODULE RegistryCapture ---------------------------
(***************************************************************************)
(* How the evidence of a published package is fetched from the npm         *)
(* registry (npm-provenance.mjs, capture): metadata, tarball with its      *)
(* redirects, attestations with bounded retries, signature audit.  Each    *)
(* answer comes from another request, so they need not belong together.    *)
(* Time is in seconds, and a request takes no time or its whole timeout.   *)
(***************************************************************************)
EXTENDS Integers

CONSTANTS
    Tarballs,   \* tarballs the registry may serve: their bytes and whether they are sound
    Candidate,  \* bytes of the tarball in the release manifest
    Appears,    \* times at which the attestations may become visible
    None        \* absent

ASSUME CaptureAssumption ==
    /\ \A t \in Tarballs : t.sound \in BOOLEAN
    /\ Appears \subseteq Nat

VARIABLES
    recovery,  \* whether bytes other than the candidate's are accepted
    appears,   \* when the attestations become visible
    pc,        \* the next request
    why,       \* the request at which the capture failed
    redirect,  \* redirects followed by the tarball request
    attempt,   \* attempts of the attestation request
    elapsed,   \* seconds since the start
    first,     \* when the attestations were first requested
    onlyNotFound,  \* whether every attestation request was answered "not found"
    evidence   \* what was fetched

vars == <<recovery, appears, pc, why, redirect, attempt, elapsed, first, onlyNotFound, evidence>>

ATTESTATION_RETRY_ATTEMPTS == 6
ATTESTATION_RETRY_INITIAL_DELAY == 2
ATTESTATION_RETRY_MAX_DELAY == 10
ATTESTATION_REQUEST_TIMEOUT == 10
METADATA_TIMEOUT == 30
TARBALL_TIMEOUT == 60
REDIRECT_LIMIT == 3

Digests == {t.bytes : t \in Tarballs}

(* Attestations of a tarball: the registry's own, and provenance by the expected or by *)
(* another build.                                                                       *)
Attestations ==
    [subject : Digests, predicate : {"publish"}, build : {None}]
    \cup [subject : Digests, predicate : {"provenance"}, build : {"expected", "other"}]

(* A record holds up to two attestations. *)
Records == {{a, b} : a, b \in Attestations} \cup {{}}

-----------------------------------------------------------------------------
Init ==
    /\ recovery \in BOOLEAN
    /\ appears \in Appears
    /\ pc = "metadata" /\ why = None
    /\ redirect = 0 /\ attempt = 1
    /\ elapsed = 0 /\ first = 0
    /\ onlyNotFound = TRUE
    /\ evidence = [integrity |-> None, tarball |-> None, record |-> {}]

Fail == pc' = "failed" /\ why' = pc
Unchanged == UNCHANGED <<recovery, appears>>

(* An answer, good or bad, comes at once or as late as the timeout allows. *)
Takes(timeout) == \E seconds \in {0, timeout} : elapsed' = elapsed + seconds

(* One request, never repeated: an answer, or an HTTP error, a malformed body, silence. *)
fetchJson ==
    /\ pc = "metadata"
    /\ Takes(METADATA_TIMEOUT)
    /\ \/ /\ \E digest \in Digests : evidence' = [evidence EXCEPT !.integrity = digest]
          /\ pc' = "tarball"
          /\ UNCHANGED why
       \/ Fail /\ UNCHANGED evidence
    /\ UNCHANGED <<redirect, attempt, first, onlyNotFound>>
    /\ Unchanged

\* What a tarball request may lead to when `follow' says whether a redirect is followed.
TarballRequest(follow, next) ==
    /\ pc = "tarball"
    /\ Takes(TARBALL_TIMEOUT)
    /\ \/ /\ \E t \in Tarballs : evidence' = [evidence EXCEPT !.tarball = t]
          /\ pc' = "content"
          /\ UNCHANGED <<why, redirect>>
       \/ /\ follow
          /\ redirect' = next
          /\ UNCHANGED <<pc, why, evidence>>
       \/ Fail /\ UNCHANGED <<redirect, evidence>>
    /\ UNCHANGED <<attempt, first, onlyNotFound>>
    /\ Unchanged

\* Mutant: a redirect is followed without counting it.
fetchBytes_Uncounted == TarballRequest(TRUE, 1 - redirect) /\ elapsed' = elapsed

(* The tarball, a redirect within the registry, or a failure. *)
fetchBytes == TarballRequest(redirect < REDIRECT_LIMIT, redirect + 1)

(* Every file the tarball's own manifests name has the digest they give; in a fresh *)
(* publication they are those of the release manifest.                               *)
validateRegistryTarballContent(t) == t.sound /\ (~recovery => t.bytes = Candidate)

CheckTarball ==
    /\ pc = "content"
    /\ IF /\ ~recovery => evidence.tarball.bytes = Candidate
          /\ evidence.integrity = evidence.tarball.bytes
          /\ validateRegistryTarballContent(evidence.tarball)
       THEN pc' = "attestations" /\ first' = elapsed /\ UNCHANGED why
       ELSE Fail /\ UNCHANGED first
    /\ UNCHANGED <<redirect, attempt, elapsed, onlyNotFound, evidence>>
    /\ Unchanged

-----------------------------------------------------------------------------
(* Attestations *)

Least(a, b) == IF a < b THEN a ELSE b

\* Mutant: the delay has no limit.
retryDelay_Unlimited(n) == ATTESTATION_RETRY_INITIAL_DELAY * 2 ^ (n - 1)

retryDelay(n) ==
    Least(ATTESTATION_RETRY_MAX_DELAY, ATTESTATION_RETRY_INITIAL_DELAY * 2 ^ (n - 1))

(* Not found yet; too many requests or an error of the server. *)
retryableAttestationStatus(answer) == answer \in {"not-found", "busy"}

(* No record before it is visible; the rest may happen at any time. *)
AttestationAnswers ==
    {"none", "busy", "refused", IF elapsed < appears THEN "not-found" ELSE "record"}

\* Mutant: the last attempt is not made.
Retry_OffByOne(seconds) ==
    IF attempt = ATTESTATION_RETRY_ATTEMPTS - 1
    THEN Fail /\ elapsed' = elapsed + seconds /\ UNCHANGED attempt
    ELSE /\ attempt' = attempt + 1
         /\ elapsed' = elapsed + seconds + retryDelay(attempt)
         /\ UNCHANGED <<pc, why>>

Retry(seconds) ==
    IF attempt = ATTESTATION_RETRY_ATTEMPTS
    THEN Fail /\ elapsed' = elapsed + seconds /\ UNCHANGED attempt
    ELSE /\ attempt' = attempt + 1
         /\ elapsed' = elapsed + seconds + retryDelay(attempt)
         /\ UNCHANGED <<pc, why>>

fetchAttestationRecord ==
    /\ pc = "attestations"
    /\ \E answer \in AttestationAnswers, seconds \in {0, ATTESTATION_REQUEST_TIMEOUT} :
         /\ onlyNotFound' = (onlyNotFound /\ answer = "not-found")
         /\ \/ /\ answer = "record"
               /\ \E record \in Records : evidence' = [evidence EXCEPT !.record = record]
               /\ pc' = "identities"
               /\ elapsed' = elapsed + seconds
               /\ UNCHANGED <<why, attempt>>
            \/ /\ answer = "none" \/ retryableAttestationStatus(answer)
               /\ Retry(seconds)
               /\ UNCHANGED evidence
            \/ /\ answer = "refused"      \* another status, none, or a malformed body
               /\ Fail
               /\ elapsed' = elapsed + seconds
               /\ UNCHANGED <<attempt, evidence>>
    /\ UNCHANGED <<redirect, first>>
    /\ Unchanged

\* Mutant: an attestation of other bytes is accepted.
provenanceIdentity_AnySubject(attestation) ==
    attestation.predicate = "provenance" => attestation.build = "expected"

(* Every attestation is about the tarball; a provenance is by the expected build. *)
provenanceIdentity(attestation) ==
    /\ attestation.subject = evidence.tarball.bytes
    /\ attestation.predicate = "provenance" => attestation.build = "expected"

provenanceIdentities ==
    /\ \A a \in evidence.record : provenanceIdentity(a)
    /\ \E a \in evidence.record : a.predicate = "provenance"

CheckIdentities ==
    /\ pc = "identities"
    /\ IF provenanceIdentities THEN pc' = "audit" /\ UNCHANGED why ELSE Fail
    /\ UNCHANGED <<redirect, attempt, elapsed, first, onlyNotFound, evidence>>
    /\ Unchanged

(* npm installs the version anew and audits it; the evidence is validated as a whole. *)
validateNpmProvenanceEvidence ==
    /\ evidence.integrity = evidence.tarball.bytes
    /\ provenanceIdentities

runNpmAudit ==
    /\ pc = "audit"
    /\ \E verified \in BOOLEAN :
         IF verified /\ validateNpmProvenanceEvidence
         THEN pc' = "captured" /\ UNCHANGED why
         ELSE Fail
    /\ UNCHANGED <<redirect, attempt, elapsed, first, onlyNotFound, evidence>>
    /\ Unchanged

-----------------------------------------------------------------------------
Capture ==
    \/ fetchJson \/ fetchBytes \/ CheckTarball \/ fetchAttestationRecord
    \/ CheckIdentities \/ runNpmAudit

Over == pc \in {"captured", "failed"} /\ UNCHANGED vars

Next == Capture \/ Over

Spec == Init /\ [][Next]_vars

(* Requests have timeouts, so every step ends. *)
FairSpec == Spec /\ WF_vars(Capture)

-----------------------------------------------------------------------------
(* Properties *)

(* The seconds for which the registry may hide new attestations: the sum of the delays. *)
Window == 2 + 4 + 8 + 10 + 10

(* A capture that was told nothing worse than "not yet" gives up only when the             *)
(* attestations stay hidden for longer than all delays together: none of the six attempts  *)
(* is lost (fetchAttestationRecord, retryDelay).                                           *)
VisibleInTimeIsCaptured ==
    (pc = "failed" /\ why = "attestations" /\ onlyNotFound) => appears > first + Window

(* With every request as slow as its timeout allows, the capture leaves more than half of  *)
(* the 15 minutes of the publish job (release.yml:146) to the audit and the other steps.   *)
FitsThePublishJob ==
    /\ elapsed <= METADATA_TIMEOUT + (REDIRECT_LIMIT + 1) * TARBALL_TIMEOUT
                    + ATTESTATION_RETRY_ATTEMPTS * ATTESTATION_REQUEST_TIMEOUT + Window
    /\ 2 * elapsed < 15 * 60

(* Captured evidence is about one tarball although its parts were served by separate       *)
(* requests: integrity, bytes and every attestation agree, one of them is provenance by    *)
(* the expected build, and a fresh publication serves the candidate (captureNpmProvenance).*)
CapturedEvidenceIsOneTarball ==
    pc = "captured" =>
        /\ evidence.integrity = evidence.tarball.bytes
        /\ evidence.tarball.sound
        /\ \A a \in evidence.record : a.subject = evidence.tarball.bytes
        /\ \E a \in evidence.record : a.predicate = "provenance" /\ a.build = "expected"
        /\ ~recovery => evidence.tarball.bytes = Candidate

(* The capture ends, with evidence or a failure: redirects and retries are bounded.        *)
CaptureEnds == <>(pc \in {"captured", "failed"})

=============================================================================
