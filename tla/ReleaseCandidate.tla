--------------------------- MODULE ReleaseCandidate ---------------------------
(***************************************************************************)
(* The package job of the release candidate workflow and the bundle check  *)
(* of the publish job: from the artifacts the build jobs deliver to the    *)
(* npm tarball with its manifests, digests, SBOM and licence evidence.     *)
(*                                                                         *)
(* A file is named by its directory (release-input, packages/wallet-core/  *)
(* dist, release-output), its kind and the part it is about.  A build is   *)
(* [id, commit, tool, form]; the bytes of a binary are the build that made *)
(* them, so two builds differ in their bytes even when commit and          *)
(* toolchain are the same.  A digest is the content it is taken of.  The   *)
(* commit stands for everything the scripts read from the checkout at that *)
(* commit: the package version, both lockfiles, the consumer inputs of the *)
(* React Native builds.  Size, format and field-set checks follow the      *)
(* digest.                                                                 *)
(*                                                                         *)
(* The environment may deliver a part from another build, and between two  *)
(* steps may put in the place of a file the file of the same name that     *)
(* another run made.                                                       *)
(***************************************************************************)
EXTENDS Naturals, FiniteSets

CONSTANTS
    Native,      \* Node-API targets
    Android,     \* React Native targets packaged as shared objects
    Ios,         \* React Native targets packaged as an XCFramework
    Builds,      \* builds a delivered file may come from
    Own,         \* the build of this run
    Head,        \* commit checked out by the job
    Rustc,       \* toolchain identifier of the job's runner
    Licences,    \* what the licence evaluation of Head may come to: [gate, text]
    Absent,      \* the content of a file that is not on disk
    MaxReplaced  \* bound on the files replaced between steps

ReactNative == Android \cup Ios
Rust == Native \cup {"wasm"}
Parts == Native \cup ReactNative \cup {"wasm"}

ASSUME CandidateAssumption ==
    /\ Own \in Builds
    /\ Own.commit = Head /\ Own.tool = Rustc
    /\ \A b \in Builds : b.form = "raw"
    /\ \A b, c \in Builds : b.id = c.id => b = c
    /\ "wasm" \notin Native \cup ReactNative
    /\ Native # {} /\ Native \cap ReactNative = {} /\ Android \cap Ios = {}
    /\ MaxReplaced \in Nat

VARIABLES
    pc,         \* the next step of the job
    file,       \* the content of every file name, Absent until it is written
    delivered,  \* the build each part was delivered from
    licences,   \* what the licence evaluation of Head comes to
    replaced    \* how many files were replaced between steps

vars == <<pc, file, delivered, licences, replaced>>

In(kind, p) == <<"release-input", kind, p>>
Dist(kind, p) == <<"dist", kind, p>>
Out(kind, p) == <<"release-output", kind, p>>
Every == "all"                       \* the part of a file that is about the whole run

Summary == {"native-summary", "react-native-summary", "wasm-summary"}

Names ==
    {In(kind, p) : kind \in {"bin", "evidence"}, p \in Parts}
    \cup {In(kind, p) : kind \in {"second", "reproducibility", "xcframework"}, p \in Ios}
    \cup {In(kind, Every) : kind \in {"source"} \cup Summary}
    \cup {Dist("bin", p) : p \in Parts}
    \cup {Dist(kind, Every) :
             kind \in {"native-manifest", "react-native-manifest", "wasm-manifest"}}
    \cup {Out("evidence", p) : p \in Parts}
    \cup {Out("bin", p) : p \in Native \cup ReactNative}
    \cup {Out(kind, Every) :
             kind \in {"source", "react-native-manifest", "tarball", "manifest", "sums", "sbom",
                       "inventory", "sbom-sums", "policy", "third-party", "policy-sums"}
                     \cup Summary}

(***************************************************************************)
(* What the build jobs deliver.                                            *)
(***************************************************************************)
Evidence(p, b) == [target |-> p, commit |-> b.commit, tool |-> b.tool, sha |-> b]

compareReactNativeArtifacts(head, p, first) == [target |-> p, commit |-> head, sha |-> first]

DeliveredAs(n, c, head) ==
    CASE n[1] # "release-input" \/ n[2] \in Summary -> Absent
      [] n[1] = "release-input" /\ n[2] = "source" -> head
      [] n[1] = "release-input" /\ n[2] = "evidence" -> Evidence(n[3], c[n[3]])
      [] n[1] = "release-input" /\ n[2] = "reproducibility" ->
            compareReactNativeArtifacts(head, n[3], c[n[3]])
      [] n[1] = "release-input" /\ n[2] \in {"bin", "second", "xcframework"} -> c[n[3]]

Delivered(c, head) == [n \in Names |-> DeliveredAs(n, c, head)]

(***************************************************************************)
(* Step 1: the two producers of an iOS archive agree, and the comparison   *)
(* made now is the one the producer job delivered.                         *)
(***************************************************************************)
ReproducibleIos(f) ==
    \A p \in Ios :
        /\ f[In("bin", p)] = f[In("second", p)]
        /\ f[In("reproducibility", p)] = compareReactNativeArtifacts(Head, p, f[In("bin", p)])

(***************************************************************************)
(* Step 2: the evidence of every part, summarised.  The React Native       *)
(* summary copies the evidence without looking at the artifacts.           *)
(***************************************************************************)
validateNative(f) ==
    /\ \A p \in Native : /\ f[In("evidence", p)].commit = Head
                         /\ f[In("evidence", p)].sha = f[In("bin", p)]
    /\ Cardinality({f[In("evidence", p)].tool : p \in Native}) = 1

validateWasm(f, head, rustc) ==
    f[In("evidence", "wasm")] = [target |-> "wasm", commit |-> head, tool |-> rustc,
                                 sha |-> f[In("bin", "wasm")]]

nativeSummary(f, head) ==
    [commit |-> head, targets |-> [p \in Native |-> f[In("evidence", p)]],
     tool |-> f[In("evidence", CHOOSE p \in Native : TRUE)].tool]

SummaryTarget(e) == [sha |-> e.sha, tool |-> e.tool]

createReactNativeSummary(f, head) ==
    [commit |-> head, targets |-> [p \in ReactNative |-> SummaryTarget(f[In("evidence", p)])]]

Summaries(f, head) ==
    [f EXCEPT ![In("native-summary", Every)] = nativeSummary(f, head),
              ![In("react-native-summary", Every)] = createReactNativeSummary(f, head),
              ![In("wasm-summary", Every)] = f[In("evidence", "wasm")]]

(***************************************************************************)
(* Step 3: the npm package.  Native artifacts are copied as they are; the  *)
(* supplied XCFramework overwrites the iOS archives copied before it, and  *)
(* the React Native manifest is made from the archives given as inputs.    *)
(***************************************************************************)
validateReactNativeArtifactEvidence_OneToolchain(e, bytes) ==
    e.commit = Head /\ e.tool = Rustc /\ e.sha = bytes
validateReactNativeArtifactEvidence(e, bytes) == e.commit = Head /\ e.sha = bytes

assembleNativeManifest(f, head) ==
    [commit |-> head, tool |-> f[In("native-summary", Every)].tool,
     sha |-> [p \in Native |-> f[In("bin", p)]]]

assembleReactNativeManifest(f, head) ==
    [commit |-> head,
     artifacts |-> [p \in ReactNative |->
                       [sha |-> f[In("bin", p)], tool |-> f[In("evidence", p)].tool]]]

(* wasm-bindgen rewrites the raw module: other bytes, of the same build. *)
runWasmBindgen(raw) ==
    [id |-> raw.id, commit |-> raw.commit, tool |-> raw.tool, form |-> "canonical"]

Packaged(f, p) ==
    IF p \in Ios THEN f[In("xcframework", p)]
    ELSE IF p = "wasm" THEN runWasmBindgen(f[In("bin", p)]) ELSE f[In("bin", p)]

Build(f, head) ==
    LET copied == [n \in Names |-> IF n[1] = "dist" /\ n[2] = "bin" THEN Packaged(f, n[3])
                                    ELSE f[n]]
    IN  [copied EXCEPT
            ![Dist("native-manifest", Every)] = assembleNativeManifest(f, head),
            ![Dist("react-native-manifest", Every)] = assembleReactNativeManifest(f, head),
            ![Dist("wasm-manifest", Every)] = runWasmBindgen(f[In("bin", "wasm")])]

Package(f) ==
    [bin |-> [p \in Parts |-> f[Dist("bin", p)]],
     native |-> f[Dist("native-manifest", Every)],
     reactNative |-> f[Dist("react-native-manifest", Every)],
     wasm |-> f[Dist("wasm-manifest", Every)]]

validateReactNativePackageArtifacts(pkg) ==
    \A p \in ReactNative : pkg.bin[p] = pkg.reactNative.artifacts[p].sha

validatePackageContents(pkg) ==
    /\ validateReactNativePackageArtifacts(pkg)
    /\ pkg.bin["wasm"] = pkg.wasm

(***************************************************************************)
(* Step 4: the tarball is packed, and the release manifest with its digest *)
(* list is made from the evidence, the package and the tarball, written,   *)
(* and validated from disk.  Context(f, d) is what release-manifest.mjs    *)
(* reads when its evidence arguments point at directory d.                 *)
(***************************************************************************)
Context(f, d) ==
    [source |-> f[<<d, "source", Every>>],
     nativeSummary |-> f[<<d, "native-summary", Every>>],
     reactNativeSummary |-> f[<<d, "react-native-summary", Every>>],
     wasmSummary |-> f[<<d, "wasm-summary", Every>>],
     evidence |-> [p \in Parts |-> f[<<d, "evidence", p>>]],
     bin |-> [p \in Parts |-> IF p \in Native THEN f[<<d, "bin", p>>] ELSE f[In("bin", p)]],
     package |-> Package(f),
     tarball |-> f[Out("tarball", Every)]]

readSourceEvidence(c) == c.source = Head

readNativeEvidenceSet(c) ==
    /\ c.nativeSummary.commit = Head
    /\ \A p \in Native : LET e == c.nativeSummary.targets[p]
                         IN  /\ e.commit = Head
                             /\ e.sha = c.bin[p]
                             /\ e = c.evidence[p]
                             /\ e.tool = c.nativeSummary.tool

validateReactNativeEvidenceSet(c) ==
    /\ c.reactNativeSummary.commit = Head
    /\ \A p \in ReactNative :
        /\ validateReactNativeArtifactEvidence(c.evidence[p], c.bin[p])
        /\ c.reactNativeSummary.targets[p] = SummaryTarget(c.evidence[p])

packageRuntimeManifest(c) ==
    /\ c.package.native.commit = Head
    /\ \A p \in Native : /\ c.package.native.sha[p] = c.evidence[p].sha
                         /\ c.package.native.tool = c.evidence[p].tool
                         /\ c.package.bin[p] = c.evidence[p].sha
    /\ \A p \in ReactNative :
        /\ c.package.reactNative.artifacts[p] = SummaryTarget(c.evidence[p])
        /\ c.package.bin[p] = c.evidence[p].sha
    /\ validatePackageContents(c.package)

validateWasmEvidence(c) ==
    /\ c.wasmSummary = c.evidence["wasm"]
    /\ c.wasmSummary.commit = Head
    /\ c.wasmSummary.sha = c.bin["wasm"]

validateToolchains(c) == c.nativeSummary.tool = c.wasmSummary.tool

(* The checks createReleaseManifest and validateContext share, in their order. *)
EvidenceAgrees(c) ==
    /\ readSourceEvidence(c)
    /\ readNativeEvidenceSet(c)
    /\ validateReactNativeEvidenceSet(c)
    /\ packageRuntimeManifest(c)
    /\ validateWasmEvidence(c)
    /\ validateToolchains(c)

createReleaseManifest(c) ==
    [commit |-> c.source,
     tool |-> c.nativeSummary.tool,
     native |-> [p \in Native |-> c.nativeSummary.targets[p]],
     reactNativeManifest |-> c.package.reactNative,
     reactNative |-> [p \in ReactNative |-> c.evidence[p]],
     wasmSource |-> c.wasmSummary,
     wasm |-> c.package.bin["wasm"],
     tarball |-> c.tarball]

renderSha256Sums(m) ==
    [native |-> [p \in Native |-> m.native[p].sha],
     reactNativeManifest |-> m.reactNativeManifest,
     reactNative |-> [p \in ReactNative |-> m.reactNative[p].sha],
     wasm |-> m.wasm, tarball |-> m.tarball, manifest |-> m]

Pack(f) == [f EXCEPT ![Out("tarball", Every)] = Package(f)]

(* Every artifact the manifest names is of the manifest's commit. *)
validateReactNativeReleaseIdentity(m) ==
    /\ m.reactNativeManifest.commit = m.commit
    /\ \A p \in ReactNative : m.reactNative[p].commit = m.commit

validateManifestShape(m) ==
    /\ \A p \in Native : m.native[p].commit = m.commit
    /\ validateReactNativeReleaseIdentity(m)
    /\ m.wasmSource.commit = m.commit

Manifest(f) ==
    LET m == createReleaseManifest(Context(f, "release-input"))
    IN  [f EXCEPT ![Out("manifest", Every)] = m, ![Out("sums", Every)] = renderSha256Sums(m)]

(* The manifest against the evidence, the package and the tarball. *)
validateContext(m, c) ==
    /\ validateManifestShape(m)
    /\ EvidenceAgrees(c)
    /\ m.commit = c.source
    /\ m.tool = c.nativeSummary.tool
    /\ m.native = c.nativeSummary.targets
    /\ m.reactNativeManifest = c.package.reactNative
    /\ m.reactNative = [p \in ReactNative |-> c.evidence[p]]
    /\ m.wasmSource = c.wasmSummary
    /\ m.wasm = c.package.bin["wasm"]
    /\ m.tarball = c.tarball

(* The digest list against the files and against the manifest. *)
validateSha256Sums(m, sums, c) ==
    /\ sums = renderSha256Sums(m)
    /\ \A p \in Native : sums.native[p] = c.package.bin[p]
    /\ \A p \in ReactNative : sums.reactNative[p] = c.package.bin[p]
    /\ sums.reactNativeManifest = c.package.reactNative
    /\ sums.wasm = c.package.bin["wasm"]
    /\ sums.tarball = c.tarball

validateReleaseManifest(f, d) ==
    LET m == f[Out("manifest", Every)]
        c == Context(f, d)
    IN  validateContext(m, c) /\ validateSha256Sums(m, f[Out("sums", Every)], c)

(***************************************************************************)
(* Step 5: SBOM and licence inventory of the manifest; step 6: the licence *)
(* policy and the third-party texts.                                       *)
(***************************************************************************)
createSpdxDocument(m) ==
    [commit |-> m.commit, tarball |-> m.tarball, manifest |-> m.reactNativeManifest,
     files |-> [p \in ReactNative |-> m.reactNative[p].sha]]

createLicenseInventory(m) ==
    [commit |-> m.commit, tarball |-> m.tarball, reactNative |-> m.reactNative]

renderSums(first, second) == <<first, second>>

Sbom(f) ==
    LET m == f[Out("manifest", Every)]
        sbom == createSpdxDocument(m)
        inventory == createLicenseInventory(m)
    IN  [f EXCEPT ![Out("sbom", Every)] = sbom, ![Out("inventory", Every)] = inventory,
                  ![Out("sbom-sums", Every)] = renderSums(sbom, inventory)]

validateSbomSums(f) ==
    f[Out("sbom-sums", Every)] = renderSums(f[Out("sbom", Every)], f[Out("inventory", Every)])

SbomValid(f) ==
    LET m == f[Out("manifest", Every)]
    IN  /\ f[Out("sbom", Every)] = createSpdxDocument(m)
        /\ f[Out("inventory", Every)] = createLicenseInventory(m)
        /\ validateSbomSums(f)

(* Component by component, the two agree on the commit and on the root's checksum. *)
validateInventoryAndSbom(f) ==
    /\ f[Out("sbom", Every)].commit = f[Out("inventory", Every)].commit
    /\ f[Out("sbom", Every)].tarball = f[Out("inventory", Every)].tarball

createLicensePolicyArtifact(f, gate) ==
    [commit |-> f[Out("inventory", Every)].commit, inventory |-> f[Out("inventory", Every)],
     sbom |-> f[Out("sbom", Every)], gate |-> gate]

createThirdPartyLicenseArtifact(f, text) ==
    [commit |-> f[Out("inventory", Every)].commit, inventory |-> f[Out("inventory", Every)],
     text |-> text]

Policy(f, l) ==
    LET policy == createLicensePolicyArtifact(f, l.gate)
        thirdParty == createThirdPartyLicenseArtifact(f, l.text)
    IN  [f EXCEPT ![Out("policy", Every)] = policy, ![Out("third-party", Every)] = thirdParty,
                  ![Out("policy-sums", Every)] = renderSums(policy, thirdParty)]

enforceLicensePolicy(l, requireText) == l.gate = "PASS" /\ (requireText => l.text = "ready")

PolicyValid(f, l, requireText) ==
    /\ f = Policy(f, l)
    /\ enforceLicensePolicy(l, requireText)

(* Without Cargo metadata no licence text is collected. *)
WithoutTexts(l) == [gate |-> l.gate, text |-> "pending"]

(***************************************************************************)
(* Step 7: the evidence is copied beside the tarball.                      *)
(***************************************************************************)
Copied ==
    {Out("evidence", p) : p \in Parts} \cup {Out("bin", p) : p \in Native \cup ReactNative}
    \cup {Out(kind, Every) : kind \in {"source"} \cup Summary}

Bundle(f) ==
    LET copied == [n \in Names |-> IF n \in Copied THEN f[In(n[2], n[3])] ELSE f[n]]
    IN  [copied EXCEPT ![Out("react-native-manifest", Every)] =
                            f[Dist("react-native-manifest", Every)]]

(***************************************************************************)
(* Step 8: the publish job reads the bundle alone, with the commit of the  *)
(* tag event.                                                              *)
(***************************************************************************)
validateReleaseManifestIdentity(m) ==
    m.commit = Head /\ \A p \in Native : m.native[p].commit = Head

validateSourceEvidence(f, m) == f[Out("source", Every)] = m.commit

validateNativeEvidence(f, m) ==
    \A p \in Native : LET e == f[Out("evidence", p)]
                      IN  /\ e.commit = Head
                          /\ e.sha = m.native[p].sha
                          /\ e.sha = f[Out("bin", p)]

validateReactNativeEvidence(f, m) ==
    /\ f[Out("react-native-manifest", Every)] = m.reactNativeManifest
    /\ \A p \in ReactNative : LET e == f[Out("evidence", p)]
                              IN  /\ validateReactNativeArtifactEvidence(e, f[Out("bin", p)])
                                  /\ SummaryTarget(e) = SummaryTarget(m.reactNative[p])

BundleWasmEvidence(f, m) ==
    LET e == f[Out("evidence", "wasm")] IN e.commit = Head /\ e.sha = m.wasmSource.sha

validateTarball_SelfConsistent(t, m) ==
    /\ t.native.commit = m.commit
    /\ \A p \in Native : t.native.sha[p] = t.bin[p]
    /\ validatePackageContents(t)
validateTarball(t, m) ==
    /\ t = m.tarball
    /\ t.native.commit = m.commit
    /\ \A p \in Native : t.native.sha[p] = t.bin[p] /\ t.native.sha[p] = m.native[p].sha
    /\ t.reactNative = m.reactNativeManifest
    /\ \A p \in ReactNative : t.reactNative.artifacts[p].sha = m.reactNative[p].sha
    /\ validatePackageContents(t)
    /\ t.wasm = m.wasm

validateReleaseDigests(f, m) ==
    f[Out("sums", Every)] =
        [native |-> [p \in Native |-> f[Out("bin", p)]],
         reactNativeManifest |-> m.reactNativeManifest,
         reactNative |-> [p \in ReactNative |-> f[Out("bin", p)]],
         wasm |-> f[Out("tarball", Every)].bin["wasm"],
         tarball |-> f[Out("tarball", Every)], manifest |-> m]

(* The SBOM is of the manifest's version and commit; its checksum of the
   tarball is not looked at here.                                           *)
validateSpdxReleaseIdentity(f, m) == f[Out("sbom", Every)].commit = m.commit

validateEvidenceDigests(f) ==
    /\ validateSbomSums(f)
    /\ f[Out("policy-sums", Every)] =
            renderSums(f[Out("policy", Every)], f[Out("third-party", Every)])

validatePhaseEvidence_Identity(f, m) ==
    /\ validateSpdxReleaseIdentity(f, m)
    /\ \A kind \in {"inventory", "policy", "third-party"} : f[Out(kind, Every)].commit = m.commit
    /\ f[Out("policy", Every)].gate = "PASS"
    /\ f[Out("third-party", Every)].text = "ready"
validatePhaseEvidence(f, m) ==
    /\ validateSpdxReleaseIdentity(f, m)
    /\ \A kind \in {"inventory", "policy", "third-party"} : f[Out(kind, Every)].commit = m.commit
    /\ f[Out("policy", Every)].inventory = f[Out("inventory", Every)]
    /\ f[Out("policy", Every)].sbom = f[Out("sbom", Every)]
    /\ f[Out("policy", Every)].gate = "PASS"
    /\ f[Out("third-party", Every)].inventory = f[Out("inventory", Every)]
    /\ f[Out("third-party", Every)].text = "ready"
    /\ validateEvidenceDigests(f)

validateReleaseBundle(f) ==
    LET m == f[Out("manifest", Every)]
    IN  /\ validateReleaseManifestIdentity(m)
        /\ validateSourceEvidence(f, m)
        /\ validateNativeEvidence(f, m)
        /\ validateReactNativeEvidence(f, m)
        /\ BundleWasmEvidence(f, m)
        /\ validateTarball(f[Out("tarball", Every)], m)
        /\ validateReleaseDigests(f, m)
        /\ validatePhaseEvidence(f, m)

(***************************************************************************)
(* The steps.  A step checks what it reads, writes, and checks what it     *)
(* wrote.  A failed step fails the job: the steps that run on regardless   *)
(* only leave diagnostics, and no job that publishes starts.               *)
(***************************************************************************)
Step(from, to, before, written, after) ==
    /\ pc = from
    /\ IF before THEN file' = written /\ pc' = IF after THEN to ELSE "failed"
                 ELSE pc' = "failed" /\ UNCHANGED file
    /\ UNCHANGED <<delivered, licences, replaced>>

Check(from, to, ok) == Step(from, to, ok, file, TRUE)

CompareIos == Check("compare", "summarise", ReproducibleIos(file))

Summarise ==
    Step("summarise", "build", validateNative(file) /\ validateWasm(file, Head, Rustc),
         Summaries(file, Head), TRUE)

validateReactNativeInputs(f) ==
    \A p \in ReactNative :
        validateReactNativeArtifactEvidence(f[In("evidence", p)], f[In("bin", p)])

BuildPackage ==
    Step("build", "pack", validateReactNativeInputs(file),
         Build(file, Head), validatePackageContents(Package(Build(file, Head))))

PackTarball == Step("pack", "manifest", validatePackageContents(Package(file)), Pack(file), TRUE)

GenerateManifest ==
    Step("manifest", "sbom", EvidenceAgrees(Context(file, "release-input")), Manifest(file),
         validateReleaseManifest(Manifest(file), "release-input"))

GenerateSbom ==
    Step("sbom", "policy", validateReleaseManifest(file, "release-input"), Sbom(file),
         SbomValid(Sbom(file)))

GeneratePolicy(from, to, l, requireText) ==
    Step(from, to, validateSbomSums(file) /\ validateInventoryAndSbom(file),
         Policy(file, l), PolicyValid(Policy(file, l), l, requireText))

LicencePolicy == GeneratePolicy("policy", "texts", WithoutTexts(licences), FALSE)

LicenceTexts == GeneratePolicy("texts", "assemble", licences, TRUE)

Assemble == Step("assemble", "revalidate", TRUE, Bundle(file), TRUE)

RevalidateManifest ==
    Check("revalidate", "revalidate-sbom", validateReleaseManifest(file, "release-output"))

RevalidateSbom ==
    Check("revalidate-sbom", "revalidate-policy",
          validateReleaseManifest(file, "release-output") /\ SbomValid(file))

RevalidatePolicy ==
    Check("revalidate-policy", "verify",
          /\ validateSbomSums(file)
          /\ validateInventoryAndSbom(file)
          /\ PolicyValid(file, licences, TRUE))

VerifyBundle == Check("verify", "accepted", validateReleaseBundle(file))

(***************************************************************************)
(* The environment: the file of the same name from a run of another build. *)
(***************************************************************************)
Packed(b) == Pack(Build(Summaries(Delivered([p \in Parts |-> b], b.commit), b.commit), b.commit))

Pristine(b) ==
    Bundle(Policy(Sbom(Manifest(Packed(b))), [gate |-> "PASS", text |-> "ready"]))

OfRun == [b \in Builds |-> Pristine(b)]

Replace ==
    /\ pc \notin {"accepted", "failed"}
    /\ replaced < MaxReplaced
    /\ replaced' = replaced + 1
    /\ \E b \in Builds, n \in Names :
        /\ file[n] # Absent /\ file[n] # OfRun[b][n]
        /\ file' = [file EXCEPT ![n] = OfRun[b][n]]
    /\ UNCHANGED <<pc, delivered, licences>>

Init ==
    /\ pc = "compare"
    /\ delivered \in {[p \in Parts |-> IF p \in S THEN b ELSE Own] :
                        S \in SUBSET Parts, b \in Builds}
    /\ file = Delivered(delivered, Head)
    /\ licences \in Licences
    /\ replaced = 0

Next ==
    \/ CompareIos
    \/ Summarise
    \/ BuildPackage
    \/ PackTarball
    \/ GenerateManifest
    \/ GenerateSbom
    \/ LicencePolicy
    \/ LicenceTexts
    \/ Assemble
    \/ RevalidateManifest
    \/ RevalidateSbom
    \/ RevalidatePolicy
    \/ VerifyBundle
    \/ Replace

Spec == Init /\ [][Next]_vars

(***************************************************************************)
(* Properties.                                                             *)
(***************************************************************************)
(* In a bundle the publish job accepts, the bytes of every part in the npm
   tarball were built at the tagged commit and are the bytes its evidence
   records and the bytes kept beside the tarball, whatever single file was
   exchanged between two steps (validateReleaseBundle after the package job's
   own checks); and one Rust toolchain compiled the Node-API artifacts and the
   WASM module, although the native summary and the WASM evidence are each
   checked on their own (validateToolchains of release-manifest.mjs).       *)
AcceptedIsOneBuildPerPart ==
    pc = "accepted" =>
        LET t == file[Out("tarball", Every)]
        IN  /\ \A p \in Parts : t.bin[p].commit = Head
            /\ \A p \in Native \cup ReactNative : /\ file[Out("bin", p)] = t.bin[p]
                                                 /\ file[Out("evidence", p)].sha = t.bin[p]
            /\ runWasmBindgen(file[Out("evidence", "wasm")].sha) = t.bin["wasm"]
            /\ Cardinality({t.bin[p].tool : p \in Rust}) = 1

(* The SBOM and the licence inventory of an accepted bundle describe its own
   tarball, and the policy that passed, with its texts, was evaluated on them:
   not those of another run of the same commit.                             *)
LicenceEvidenceIsOfTheTarball ==
    pc = "accepted" =>
        /\ \A kind \in {"sbom", "inventory"} :
              file[Out(kind, Every)].tarball = file[Out("tarball", Every)]
        /\ file[Out("policy", Every)].sbom = file[Out("sbom", Every)]
        /\ \A kind \in {"policy", "third-party"} :
              file[Out(kind, Every)].inventory = file[Out("inventory", Every)]
        /\ enforceLicensePolicy(licences, TRUE)

(* The chain of checks refuses nothing it should accept: with no file
   exchanged, parts of the tagged commit (React Native ones by any toolchain,
   each from any build) and an accepted licence evaluation, no step fails.  *)
CleanRunAccepted ==
    pc = "failed" =>
        \/ replaced > 0
        \/ \E p \in Parts : delivered[p].commit # Head
        \/ \E p \in Rust : delivered[p].tool # Rustc
        \/ ~enforceLicensePolicy(licences, TRUE)

=============================================================================
