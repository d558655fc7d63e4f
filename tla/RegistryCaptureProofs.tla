------------------------- MODULE RegistryCaptureProofs -------------------------
(***************************************************************************)
(* Evidence that is captured is about one tarball, whatever a replicated   *)
(* registry answers to the separate requests, for any tarballs and any     *)
(* time at which attestations appear.  The invariant says what is known    *)
(* after each check: of the tarball once the attestations are requested,   *)
(* and of the attestations once npm audits.                                *)
(*                                                                         *)
(* How long a capture takes and how long it waits for attestations follow  *)
(* from an invariant that relates the clock to the redirects followed and  *)
(* the attempts made.                                                      *)
(***************************************************************************)
EXTENDS RegistryCapture, TLAPS

EvidenceType ==
    evidence \in [integrity : Digests \cup {None}, tarball : Tarballs \cup {None},
                  record : SUBSET Attestations]

TarballChecked ==
    /\ evidence.integrity = evidence.tarball.bytes
    /\ evidence.tarball.sound
    /\ ~recovery => evidence.tarball.bytes = Candidate

Inv ==
    /\ EvidenceType
    /\ pc \in {"attestations", "identities", "audit", "captured"} => TarballChecked
    /\ pc \in {"audit", "captured"} => provenanceIdentities

(* Records are sets of attestations. *)
LEMMA RecordsType == Records \subseteq SUBSET Attestations
BY DEF Records

LEMMA InitInv == Init => Inv
BY DEF Init, Inv, EvidenceType

LEMMA NextInv == Inv /\ [Next]_vars => Inv'
<1> SUFFICES ASSUME Inv, [Next]_vars PROVE Inv'
  OBVIOUS
<1> USE DEF Inv
<1>1. CASE fetchJson
  BY <1>1 DEF fetchJson, Fail, EvidenceType
<1>2. CASE fetchBytes
  BY <1>2 DEF fetchBytes, TarballRequest, Fail, EvidenceType
<1>3. CASE CheckTarball
  BY <1>3 DEF CheckTarball, validateRegistryTarballContent, Fail, Unchanged, EvidenceType,
              TarballChecked
<1>4. CASE fetchAttestationRecord
  <2>1. UNCHANGED recovery
    BY <1>4 DEF fetchAttestationRecord, Unchanged
  <2>2. CASE pc' = "identities" /\ \E record \in Records : evidence' = [evidence EXCEPT !.record = record]
    BY <1>4, <2>1, <2>2, RecordsType DEF fetchAttestationRecord, EvidenceType, TarballChecked
  <2>3. CASE pc' \in {"attestations", "failed"} /\ evidence' = evidence
    BY <1>4, <2>1, <2>3 DEF fetchAttestationRecord, EvidenceType, TarballChecked
  <2> QED
    BY <1>4, <2>2, <2>3 DEF fetchAttestationRecord, Retry, Fail
<1>5. CASE CheckIdentities
  BY <1>5 DEF CheckIdentities, Fail, Unchanged, EvidenceType, TarballChecked,
              provenanceIdentities, provenanceIdentity
<1>6. CASE runNpmAudit
  BY <1>6 DEF runNpmAudit, Fail, Unchanged, EvidenceType, TarballChecked,
              provenanceIdentities, provenanceIdentity
<1>7. CASE Over \/ UNCHANGED vars
  BY <1>7 DEF Over, vars, EvidenceType, TarballChecked, provenanceIdentities, provenanceIdentity
<1> QED
  BY <1>1, <1>2, <1>3, <1>4, <1>5, <1>6, <1>7 DEF Next, Capture

(* Whatever the registry answers, captured evidence is about one tarball with
   provenance by the expected build (captureNpmProvenance).                 *)
THEOREM CoherentEvidence == Spec => []CapturedEvidenceIsOneTarball
<1>1. Init => Inv
  BY InitInv
<1>2. Inv /\ [Next]_vars => Inv'
  BY NextInv
<1>3. Inv => CapturedEvidenceIsOneTarball
  BY DEF Inv, TarballChecked, provenanceIdentities, provenanceIdentity, CapturedEvidenceIsOneTarball
<1> QED
  BY <1>1, <1>2, <1>3, PTL DEF Spec

-----------------------------------------------------------------------------
(* Time *)

(* The seconds waited before the n-th attestation request. *)
Delays(n) ==
    IF n = 1 THEN 0 ELSE IF n = 2 THEN 2 ELSE IF n = 3 THEN 6
    ELSE IF n = 4 THEN 14 ELSE IF n = 5 THEN 24 ELSE 34

(* When the tarball is there at the latest. *)
TarballDeadline == METADATA_TIMEOUT + (REDIRECT_LIMIT + 1) * TARBALL_TIMEOUT

Clock ==
    /\ pc \in {"metadata", "tarball", "content"} => attempt = 1
    /\ pc = "metadata" => elapsed = 0
    /\ pc = "tarball" => elapsed <= METADATA_TIMEOUT + redirect * TARBALL_TIMEOUT
    /\ pc = "content" => elapsed <= TarballDeadline
    /\ pc = "attestations" =>
         /\ first <= TarballDeadline
         /\ first + Delays(attempt) <= elapsed
         /\ elapsed <= first + Delays(attempt) + (attempt - 1) * ATTESTATION_REQUEST_TIMEOUT
    /\ elapsed <= TarballDeadline + ATTESTATION_RETRY_ATTEMPTS * ATTESTATION_REQUEST_TIMEOUT
                    + Window

TimeInv ==
    /\ pc \in {"metadata", "tarball", "content", "attestations", "identities", "audit",
               "captured", "failed"}
    /\ redirect \in 0..REDIRECT_LIMIT
    /\ attempt \in 1..ATTESTATION_RETRY_ATTEMPTS
    /\ elapsed \in Nat /\ first \in Nat /\ appears \in Nat
    /\ Clock
    /\ VisibleInTimeIsCaptured

(* Each delay is the difference of two sums of delays. *)
LEMMA DelayStep ==
  ASSUME NEW n \in 1..5
  PROVE  /\ retryDelay(n) \in Nat
         /\ Delays(n + 1) = Delays(n) + retryDelay(n)
<1>1. CASE n = 1
  BY <1>1 DEF retryDelay, Delays, Least, ATTESTATION_RETRY_MAX_DELAY,
              ATTESTATION_RETRY_INITIAL_DELAY
<1>2. CASE n = 2
  BY <1>2 DEF retryDelay, Delays, Least, ATTESTATION_RETRY_MAX_DELAY,
              ATTESTATION_RETRY_INITIAL_DELAY
<1>3. CASE n = 3
  BY <1>3 DEF retryDelay, Delays, Least, ATTESTATION_RETRY_MAX_DELAY,
              ATTESTATION_RETRY_INITIAL_DELAY
<1>4. CASE n = 4
  BY <1>4 DEF retryDelay, Delays, Least, ATTESTATION_RETRY_MAX_DELAY,
              ATTESTATION_RETRY_INITIAL_DELAY
<1>5. CASE n = 5
  BY <1>5 DEF retryDelay, Delays, Least, ATTESTATION_RETRY_MAX_DELAY,
              ATTESTATION_RETRY_INITIAL_DELAY
<1> QED
  BY <1>1, <1>2, <1>3, <1>4, <1>5

LEMMA DelaysType ==
  ASSUME NEW n \in 1..6
  PROVE  Delays(n) \in 0..34
BY DEF Delays

LEMMA InitTime == Init => TimeInv
BY CaptureAssumption
   DEF Init, TimeInv, Clock, TarballDeadline, VisibleInTimeIsCaptured, Window,
       METADATA_TIMEOUT, REDIRECT_LIMIT, TARBALL_TIMEOUT, ATTESTATION_RETRY_ATTEMPTS,
       ATTESTATION_REQUEST_TIMEOUT

LEMMA NextTime == TimeInv /\ [Next]_vars => TimeInv'
<1> SUFFICES ASSUME TimeInv, [Next]_vars PROVE TimeInv'
  OBVIOUS
<1> USE DEF TimeInv, Clock, TarballDeadline, VisibleInTimeIsCaptured, Window,
            METADATA_TIMEOUT, REDIRECT_LIMIT, TARBALL_TIMEOUT, ATTESTATION_RETRY_ATTEMPTS,
            ATTESTATION_REQUEST_TIMEOUT, Unchanged, Fail
<1>1. CASE fetchJson
  BY <1>1 DEF fetchJson, Takes
<1>2. CASE fetchBytes
  <2>1. /\ pc = "tarball"
        /\ elapsed' \in {elapsed, elapsed + 60}
        /\ UNCHANGED <<recovery, appears, attempt, first, onlyNotFound>>
    BY <1>2 DEF fetchBytes, TarballRequest, Takes
  <2>2. elapsed <= 30 + redirect * 60 /\ redirect \in 0..3
    BY <2>1
  <2>3. CASE pc' = "content" /\ UNCHANGED redirect
    BY <2>1, <2>2, <2>3
  <2>4. CASE redirect < 3 /\ redirect' = redirect + 1 /\ UNCHANGED pc
    BY <2>1, <2>2, <2>4
  <2>5. CASE pc' = "failed" /\ why' = "tarball" /\ UNCHANGED redirect
    BY <2>1, <2>2, <2>5
  <2> QED
    BY <1>2, <2>1, <2>3, <2>4, <2>5 DEF fetchBytes, TarballRequest
<1>3. CASE CheckTarball
  BY <1>3 DEF CheckTarball, Delays
<1>4. CASE fetchAttestationRecord
  <2>1. PICK answer \in AttestationAnswers, seconds \in {0, ATTESTATION_REQUEST_TIMEOUT} :
          /\ onlyNotFound' = (onlyNotFound /\ answer = "not-found")
          /\ \/ answer = "record" /\ pc' = "identities" /\ elapsed' = elapsed + seconds
                /\ UNCHANGED <<why, attempt>>
             \/ Retry(seconds)
             \/ answer = "refused" /\ Fail /\ elapsed' = elapsed + seconds /\ UNCHANGED attempt
    BY <1>4 DEF fetchAttestationRecord
  <2>2. pc = "attestations" /\ UNCHANGED <<redirect, first, recovery, appears>>
    BY <1>4 DEF fetchAttestationRecord
  <2>3. /\ first <= 270
        /\ Delays(attempt) \in 0..34
        /\ first + Delays(attempt) <= elapsed
        /\ elapsed <= first + Delays(attempt) + (attempt - 1) * 10
    BY <2>2, DelaysType
  <2>4. elapsed + seconds <= 364 /\ seconds \in {0, 10}
    BY <2>3
  <2>5. CASE pc' = "identities" /\ elapsed' = elapsed + seconds /\ UNCHANGED attempt
    BY <2>2, <2>4, <2>5
  <2>6. CASE answer = "refused" /\ Fail /\ elapsed' = elapsed + seconds /\ UNCHANGED attempt
    <3>1. onlyNotFound' = FALSE
      BY <2>1, <2>6
    <3> QED
      BY <2>2, <2>4, <2>6, <3>1
  <2>7. CASE Retry(seconds) /\ attempt = 6
    <3>1. pc' = "failed" /\ elapsed' = elapsed + seconds /\ UNCHANGED attempt
      BY <2>7 DEF Retry
    <3>2. onlyNotFound' => elapsed < appears
      BY <2>1 DEF AttestationAnswers
    <3>3. elapsed >= first + 34
      BY <2>3, <2>7 DEF Delays
    <3> QED
      BY <2>2, <2>4, <3>1, <3>2, <3>3
  <2>8. CASE Retry(seconds) /\ attempt # 6
    <3>1. /\ attempt \in 1..5 /\ attempt' = attempt + 1
          /\ elapsed' = elapsed + seconds + retryDelay(attempt)
          /\ UNCHANGED <<pc, why>>
      BY <2>8 DEF Retry
    <3>2. /\ retryDelay(attempt) \in Nat
          /\ Delays(attempt + 1) = Delays(attempt) + retryDelay(attempt)
          /\ Delays(attempt + 1) \in 0..34
      <4>1. attempt + 1 \in 1..6
        BY <3>1
      <4> QED
        BY <3>1, <4>1, DelayStep, DelaysType
    <3>3. Delays(attempt)' = Delays(attempt + 1)
      BY <3>1 DEF Delays
    <3>4. /\ first' + Delays(attempt)' <= elapsed'
          /\ elapsed' <= first' + Delays(attempt)' + (attempt' - 1) * 10
          /\ elapsed' \in Nat
      BY <2>2, <2>3, <2>4, <3>1, <3>2, <3>3
    <3>5. elapsed' <= 364
      BY <2>2, <2>3, <3>1, <3>2, <3>3, <3>4
    <3> QED
      BY <2>2, <2>3, <3>1, <3>4, <3>5
  <2> QED
    BY <2>1, <2>5, <2>6, <2>7, <2>8
<1>5. CASE CheckIdentities
  BY <1>5 DEF CheckIdentities
<1>6. CASE runNpmAudit
  BY <1>6 DEF runNpmAudit
<1>7. CASE Over \/ UNCHANGED vars
  BY <1>7 DEF Over, vars, Delays
<1> QED
  BY <1>1, <1>2, <1>3, <1>4, <1>5, <1>6, <1>7 DEF Next, Capture

LEMMA TimeInductive == Spec => []TimeInv
BY InitTime, NextTime, PTL DEF Spec

(* Attestations that become visible within the sum of the delays are found, whenever
   they appear and however slowly the registry says "not yet" (fetchAttestationRecord). *)
THEOREM PatientCapture == Spec => []VisibleInTimeIsCaptured
<1>1. TimeInv => VisibleInTimeIsCaptured
  BY DEF TimeInv
<1> QED
  BY <1>1, TimeInductive, PTL

(* A capture takes less than half of the publish job's time limit, whatever the
   registry does within the request timeouts (release.yml:146).                 *)
THEOREM BoundedCapture == Spec => []FitsThePublishJob
<1>1. TimeInv => FitsThePublishJob
  BY DEF TimeInv, Clock, TarballDeadline, FitsThePublishJob, Window, METADATA_TIMEOUT,
         REDIRECT_LIMIT, TARBALL_TIMEOUT, ATTESTATION_RETRY_ATTEMPTS,
         ATTESTATION_REQUEST_TIMEOUT
<1> QED
  BY <1>1, TimeInductive, PTL
=============================================================================
