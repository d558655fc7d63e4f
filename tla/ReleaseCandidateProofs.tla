------------------------ MODULE ReleaseCandidateProofs ------------------------
(***************************************************************************)
(* Proofs about ReleaseCandidate, for any targets, builds, toolchains and  *)
(* licence evaluations, and for any bound on the files exchanged.          *)
(*                                                                         *)
(* The argument has two halves.  What a step writes is computed once, for  *)
(* any parts d delivered at any commit h: the same lemmas describe the     *)
(* files of this run while none was exchanged (OwnFiles) and the files of  *)
(* another run that Replace puts in their place (OfRunFacts).  On the      *)
(* run's own files every check passes.  After an exchange the evidence and *)
(* the manifest still tell the truth about some build (Truthful), and an   *)
(* exchange that cuts a tie no later check looks at again leaves a         *)
(* disagreement that one does (WasmTied, SbomTied).                        *)
(***************************************************************************)
EXTENDS ReleaseCandidate, FiniteSetTheorems, TLAPS

(* A directory listing: a content for every name and for no other.  The lemmas
   on names and reads say what is at each name after each write.            *)
IsFiles(f) == f = [n \in Names |-> f[n]]

LEMMA InNames ==
    /\ \A p \in Parts : In("bin", p) \in Names /\ In("evidence", p) \in Names
    /\ \A p \in Ios : /\ In("second", p) \in Names
                      /\ In("reproducibility", p) \in Names
                      /\ In("xcframework", p) \in Names
    /\ In("source", Every) \in Names
    /\ \A kind \in Summary : In(kind, Every) \in Names
BY DEF Names, In, Dist, Out, Summary

LEMMA DistNames ==
    /\ \A p \in Parts : Dist("bin", p) \in Names
    /\ Dist("native-manifest", Every) \in Names
    /\ Dist("react-native-manifest", Every) \in Names
    /\ Dist("wasm-manifest", Every) \in Names
BY DEF Names, In, Dist, Out

LEMMA OutNames ==
    /\ \A p \in Parts : Out("evidence", p) \in Names
    /\ \A p \in Native \cup ReactNative : Out("bin", p) \in Names
    /\ Out("source", Every) \in Names
    /\ \A kind \in Summary : Out(kind, Every) \in Names
    /\ Out("react-native-manifest", Every) \in Names
    /\ Out("tarball", Every) \in Names
    /\ Out("manifest", Every) \in Names
    /\ Out("sums", Every) \in Names
    /\ Out("sbom", Every) \in Names
    /\ Out("inventory", Every) \in Names
    /\ Out("sbom-sums", Every) \in Names
    /\ Out("policy", Every) \in Names
    /\ Out("third-party", Every) \in Names
    /\ Out("policy-sums", Every) \in Names
BY DEF Names, In, Dist, Out, Summary

LEMMA ReadSummaries ==
    ASSUME NEW f, NEW h, IsFiles(f)
    PROVE  /\ IsFiles(Summaries(f, h))
           /\ Summaries(f, h)[In("native-summary", Every)] = nativeSummary(f, h)
           /\ Summaries(f, h)[In("react-native-summary", Every)] = createReactNativeSummary(f, h)
           /\ Summaries(f, h)[In("wasm-summary", Every)] = f[In("evidence", "wasm")]
           /\ \A n \in Names : n \notin {In(kind, Every) : kind \in Summary}
                                => Summaries(f, h)[n] = f[n]
BY InNames DEF Summaries, IsFiles, In, Summary, Every

LEMMA ReadDelivered ==
    ASSUME NEW c, NEW h
    PROVE  /\ IsFiles(Delivered(c, h))
           /\ \A p \in Parts : /\ Delivered(c, h)[In("bin", p)] = c[p]
                               /\ Delivered(c, h)[In("evidence", p)] = Evidence(p, c[p])
           /\ \A p \in Ios :
                /\ Delivered(c, h)[In("second", p)] = c[p]
                /\ Delivered(c, h)[In("reproducibility", p)] =
                        compareReactNativeArtifacts(h, p, c[p])
                /\ Delivered(c, h)[In("xcframework", p)] = c[p]
           /\ Delivered(c, h)[In("source", Every)] = h
<1>1. IsFiles(Delivered(c, h))
  BY DEF Delivered, IsFiles
<1>2. ASSUME NEW p \in Parts PROVE Delivered(c, h)[In("bin", p)] = c[p]
  BY InNames DEF Delivered, DeliveredAs, In, Summary
<1>3. ASSUME NEW p \in Parts PROVE Delivered(c, h)[In("evidence", p)] = Evidence(p, c[p])
  BY InNames DEF Delivered, DeliveredAs, In, Summary
<1>4. ASSUME NEW p \in Ios PROVE Delivered(c, h)[In("second", p)] = c[p]
  BY InNames DEF Delivered, DeliveredAs, In, Summary
<1>5. ASSUME NEW p \in Ios
      PROVE  Delivered(c, h)[In("reproducibility", p)] = compareReactNativeArtifacts(h, p, c[p])
  BY InNames DEF Delivered, DeliveredAs, In, Summary
<1>6. ASSUME NEW p \in Ios PROVE Delivered(c, h)[In("xcframework", p)] = c[p]
  BY InNames DEF Delivered, DeliveredAs, In, Summary
<1>7. Delivered(c, h)[In("source", Every)] = h
  BY InNames DEF Delivered, DeliveredAs, In, Summary
<1> QED
  BY <1>1, <1>2, <1>3, <1>4, <1>5, <1>6, <1>7

LEMMA ReadBuild ==
    ASSUME NEW f, NEW h, IsFiles(f)
    PROVE  /\ IsFiles(Build(f, h))
           /\ \A p \in Parts : Build(f, h)[Dist("bin", p)] = Packaged(f, p)
           /\ Build(f, h)[Dist("native-manifest", Every)] = assembleNativeManifest(f, h)
           /\ Build(f, h)[Dist("react-native-manifest", Every)] =
                    assembleReactNativeManifest(f, h)
           /\ Build(f, h)[Dist("wasm-manifest", Every)] = runWasmBindgen(f[In("bin", "wasm")])
           /\ \A n \in Names : n[1] # "dist" => Build(f, h)[n] = f[n]
<1>1. IsFiles(Build(f, h))
  BY DEF Build, IsFiles
<1>2. ASSUME NEW p \in Parts PROVE Build(f, h)[Dist("bin", p)] = Packaged(f, p)
  BY DistNames DEF Build, Dist, Every
<1>3. /\ Build(f, h)[Dist("native-manifest", Every)] = assembleNativeManifest(f, h)
      /\ Build(f, h)[Dist("react-native-manifest", Every)] = assembleReactNativeManifest(f, h)
      /\ Build(f, h)[Dist("wasm-manifest", Every)] = runWasmBindgen(f[In("bin", "wasm")])
  BY DistNames DEF Build, Dist, Every
<1>4. ASSUME NEW n \in Names, n[1] # "dist" PROVE Build(f, h)[n] = f[n]
  <2>1. /\ n # Dist("native-manifest", Every)
        /\ n # Dist("react-native-manifest", Every)
        /\ n # Dist("wasm-manifest", Every)
    BY <1>4 DEF Dist
  <2> QED
    BY <1>4, <2>1 DEF Build
<1> QED
  BY <1>1, <1>2, <1>3, <1>4

LEMMA ReadPack ==
    ASSUME NEW f, IsFiles(f)
    PROVE  /\ IsFiles(Pack(f))
           /\ Pack(f)[Out("tarball", Every)] = Package(f)
           /\ \A n \in Names : n # Out("tarball", Every) => Pack(f)[n] = f[n]
BY OutNames DEF Pack, IsFiles

LEMMA ReadManifest ==
    ASSUME NEW f, IsFiles(f)
    PROVE  LET m == createReleaseManifest(Context(f, "release-input"))
           IN  /\ IsFiles(Manifest(f))
               /\ Manifest(f)[Out("manifest", Every)] = m
               /\ Manifest(f)[Out("sums", Every)] = renderSha256Sums(m)
               /\ \A n \in Names : n \notin {Out("manifest", Every), Out("sums", Every)}
                                    => Manifest(f)[n] = f[n]
<1> DEFINE m == createReleaseManifest(Context(f, "release-input"))
           s == renderSha256Sums(m)
<1>1. Manifest(f) = [f EXCEPT ![Out("manifest", Every)] = m, ![Out("sums", Every)] = s]
  BY DEF Manifest
<1> HIDE DEF m, s
<1>2. /\ IsFiles(Manifest(f))
      /\ Manifest(f)[Out("manifest", Every)] = m
      /\ Manifest(f)[Out("sums", Every)] = s
      /\ \A n \in Names : n \notin {Out("manifest", Every), Out("sums", Every)}
                           => Manifest(f)[n] = f[n]
  BY <1>1, OutNames DEF IsFiles, Out, Every
<1> QED
  BY <1>2 DEF m, s

LEMMA ReadSbom ==
    ASSUME NEW f, IsFiles(f)
    PROVE  LET m == f[Out("manifest", Every)]
               written == {Out("sbom", Every), Out("inventory", Every), Out("sbom-sums", Every)}
           IN  /\ IsFiles(Sbom(f))
               /\ Sbom(f)[Out("sbom", Every)] = createSpdxDocument(m)
               /\ Sbom(f)[Out("inventory", Every)] = createLicenseInventory(m)
               /\ Sbom(f)[Out("sbom-sums", Every)] =
                        renderSums(createSpdxDocument(m), createLicenseInventory(m))
               /\ \A n \in Names : n \notin written => Sbom(f)[n] = f[n]
<1> DEFINE m == f[Out("manifest", Every)]
           sbom == createSpdxDocument(m)
           inventory == createLicenseInventory(m)
           sums == renderSums(sbom, inventory)
           written == {Out("sbom", Every), Out("inventory", Every), Out("sbom-sums", Every)}
<1>1. Sbom(f) = [f EXCEPT ![Out("sbom", Every)] = sbom, ![Out("inventory", Every)] = inventory,
                          ![Out("sbom-sums", Every)] = sums]
  BY DEF Sbom
<1> HIDE DEF m, sbom, inventory, sums
<1>2. /\ IsFiles(Sbom(f))
      /\ Sbom(f)[Out("sbom", Every)] = sbom
      /\ Sbom(f)[Out("inventory", Every)] = inventory
      /\ Sbom(f)[Out("sbom-sums", Every)] = sums
      /\ \A n \in Names : n \notin written => Sbom(f)[n] = f[n]
  BY <1>1, OutNames DEF IsFiles, Out, Every
<1> QED
  BY <1>2 DEF m, sbom, inventory, sums

LEMMA ReadPolicy ==
    ASSUME NEW f, NEW l, IsFiles(f)
    PROVE  LET policy == createLicensePolicyArtifact(f, l.gate)
               thirdParty == createThirdPartyLicenseArtifact(f, l.text)
               written == {Out("policy", Every), Out("third-party", Every),
                           Out("policy-sums", Every)}
           IN  /\ IsFiles(Policy(f, l))
               /\ Policy(f, l)[Out("policy", Every)] = policy
               /\ Policy(f, l)[Out("third-party", Every)] = thirdParty
               /\ Policy(f, l)[Out("policy-sums", Every)] = renderSums(policy, thirdParty)
               /\ \A n \in Names : n \notin written => Policy(f, l)[n] = f[n]
<1> DEFINE policy == createLicensePolicyArtifact(f, l.gate)
           thirdParty == createThirdPartyLicenseArtifact(f, l.text)
           sums == renderSums(policy, thirdParty)
           written == {Out("policy", Every), Out("third-party", Every), Out("policy-sums", Every)}
<1>1. Policy(f, l) = [f EXCEPT ![Out("policy", Every)] = policy,
                               ![Out("third-party", Every)] = thirdParty,
                               ![Out("policy-sums", Every)] = sums]
  BY DEF Policy
<1> HIDE DEF policy, thirdParty, sums
<1>2. /\ IsFiles(Policy(f, l))
      /\ Policy(f, l)[Out("policy", Every)] = policy
      /\ Policy(f, l)[Out("third-party", Every)] = thirdParty
      /\ Policy(f, l)[Out("policy-sums", Every)] = sums
      /\ \A n \in Names : n \notin written => Policy(f, l)[n] = f[n]
  BY <1>1, OutNames DEF IsFiles, Out, Every
<1> QED
  BY <1>2 DEF policy, thirdParty, sums

LEMMA ReadBundle ==
    ASSUME NEW f, IsFiles(f)
    PROVE  /\ IsFiles(Bundle(f))
           /\ \A p \in Parts : Bundle(f)[Out("evidence", p)] = f[In("evidence", p)]
           /\ \A p \in Native \cup ReactNative : Bundle(f)[Out("bin", p)] = f[In("bin", p)]
           /\ \A kind \in {"source"} \cup Summary :
                Bundle(f)[Out(kind, Every)] = f[In(kind, Every)]
           /\ Bundle(f)[Out("react-native-manifest", Every)] =
                    f[Dist("react-native-manifest", Every)]
           /\ \A n \in Names : n \notin Copied \cup {Out("react-native-manifest", Every)}
                                => Bundle(f)[n] = f[n]
<1>1. IsFiles(Bundle(f))
  BY DEF Bundle, IsFiles
<1>2. ASSUME NEW p \in Parts PROVE Bundle(f)[Out("evidence", p)] = f[In("evidence", p)]
  BY OutNames DEF Bundle, Copied, Out, In, Every
<1>3. ASSUME NEW p \in Native \cup ReactNative
      PROVE  Bundle(f)[Out("bin", p)] = f[In("bin", p)]
  BY OutNames DEF Bundle, Copied, Out, In, Every
<1>4. ASSUME NEW kind \in {"source"} \cup Summary
      PROVE  Bundle(f)[Out(kind, Every)] = f[In(kind, Every)]
  BY OutNames DEF Bundle, Copied, Out, In, Every, Summary
<1>5. Bundle(f)[Out("react-native-manifest", Every)] = f[Dist("react-native-manifest", Every)]
  BY OutNames DEF Bundle, Copied, Out, In, Every
<1>6. ASSUME NEW n \in Names, n \notin Copied \cup {Out("react-native-manifest", Every)}
      PROVE  Bundle(f)[n] = f[n]
  BY <1>6 DEF Bundle
<1> QED
  BY <1>1, <1>2, <1>3, <1>4, <1>5, <1>6

-----------------------------------------------------------------------------
(***************************************************************************)
(* The files of a run that delivers part p from build d[p] at commit h and *)
(* has none exchanged, stage by stage.                                     *)
(***************************************************************************)
NativeTool(d) == d[CHOOSE p \in Native : TRUE].tool

NativeSummaryOf(d, h) ==
    [commit |-> h, targets |-> [p \in Native |-> Evidence(p, d[p])], tool |-> NativeTool(d)]

ReactNativeTargetsOf(d) == [p \in ReactNative |-> [sha |-> d[p], tool |-> d[p].tool]]

PackageOf(d, h) ==
    [bin |-> [p \in Parts |-> IF p = "wasm" THEN runWasmBindgen(d[p]) ELSE d[p]],
     native |-> [commit |-> h, tool |-> NativeTool(d), sha |-> [p \in Native |-> d[p]]],
     reactNative |-> [commit |-> h, artifacts |-> ReactNativeTargetsOf(d)],
     wasm |-> runWasmBindgen(d["wasm"])]

ManifestOf(d, h) ==
    [commit |-> h,
     tool |-> NativeTool(d),
     native |-> [p \in Native |-> Evidence(p, d[p])],
     reactNativeManifest |-> PackageOf(d, h).reactNative,
     reactNative |-> [p \in ReactNative |-> Evidence(p, d[p])],
     wasmSource |-> Evidence("wasm", d["wasm"]),
     wasm |-> runWasmBindgen(d["wasm"]),
     tarball |-> PackageOf(d, h)]

PolicyOf(d, h, l) ==
    [commit |-> h, inventory |-> createLicenseInventory(ManifestOf(d, h)),
     sbom |-> createSpdxDocument(ManifestOf(d, h)), gate |-> l.gate]

ThirdPartyOf(d, h, l) ==
    [commit |-> h, inventory |-> createLicenseInventory(ManifestOf(d, h)), text |-> l.text]

InputFacts(f, d, h) ==
    /\ \A p \in Parts : /\ f[In("bin", p)] = d[p]
                        /\ f[In("evidence", p)] = Evidence(p, d[p])
    /\ \A p \in Ios : /\ f[In("second", p)] = d[p]
                      /\ f[In("reproducibility", p)] = compareReactNativeArtifacts(h, p, d[p])
                      /\ f[In("xcframework", p)] = d[p]
    /\ f[In("source", Every)] = h

SummaryFacts(f, d, h) ==
    /\ f[In("native-summary", Every)] = NativeSummaryOf(d, h)
    /\ f[In("react-native-summary", Every)] = [commit |-> h, targets |-> ReactNativeTargetsOf(d)]
    /\ f[In("wasm-summary", Every)] = Evidence("wasm", d["wasm"])

PackageFacts(f, d, h) ==
    /\ \A p \in Parts : f[Dist("bin", p)] = PackageOf(d, h).bin[p]
    /\ f[Dist("native-manifest", Every)] = PackageOf(d, h).native
    /\ f[Dist("react-native-manifest", Every)] = PackageOf(d, h).reactNative
    /\ f[Dist("wasm-manifest", Every)] = PackageOf(d, h).wasm

TarballFacts(f, d, h) == f[Out("tarball", Every)] = PackageOf(d, h)

ManifestFacts(f, d, h) ==
    /\ f[Out("manifest", Every)] = ManifestOf(d, h)
    /\ f[Out("sums", Every)] = renderSha256Sums(ManifestOf(d, h))

SbomFacts(f, d, h) ==
    /\ f[Out("sbom", Every)] = createSpdxDocument(ManifestOf(d, h))
    /\ f[Out("inventory", Every)] = createLicenseInventory(ManifestOf(d, h))
    /\ f[Out("sbom-sums", Every)] =
            renderSums(createSpdxDocument(ManifestOf(d, h)),
                       createLicenseInventory(ManifestOf(d, h)))

PolicyFacts(f, d, h, l) ==
    /\ f[Out("policy", Every)] = PolicyOf(d, h, l)
    /\ f[Out("third-party", Every)] = ThirdPartyOf(d, h, l)
    /\ f[Out("policy-sums", Every)] = renderSums(PolicyOf(d, h, l), ThirdPartyOf(d, h, l))

BundleFacts(f, d, h) ==
    /\ \A p \in Parts : f[Out("evidence", p)] = Evidence(p, d[p])
    /\ \A p \in Native \cup ReactNative : f[Out("bin", p)] = d[p]
    /\ f[Out("source", Every)] = h
    /\ f[Out("native-summary", Every)] = NativeSummaryOf(d, h)
    /\ f[Out("react-native-summary", Every)] = [commit |-> h, targets |-> ReactNativeTargetsOf(d)]
    /\ f[Out("wasm-summary", Every)] = Evidence("wasm", d["wasm"])
    /\ f[Out("react-native-manifest", Every)] = PackageOf(d, h).reactNative

-----------------------------------------------------------------------------
(* What each step writes, from the files of the stages before it *)

LEMMA PartsFacts ==
    /\ Native \subseteq Parts /\ ReactNative \subseteq Parts /\ Ios \subseteq ReactNative
    /\ "wasm" \in Parts /\ "wasm" \notin Native /\ "wasm" \notin ReactNative
    /\ (CHOOSE p \in Native : TRUE) \in Native
BY CandidateAssumption DEF Parts, ReactNative

LEMMA EvidenceFields ==
    ASSUME NEW p, NEW b
    PROVE  /\ Evidence(p, b).commit = b.commit /\ Evidence(p, b).tool = b.tool
           /\ Evidence(p, b).sha = b
           /\ SummaryTarget(Evidence(p, b)) = [sha |-> b, tool |-> b.tool]
BY DEF Evidence, SummaryTarget

LEMMA DeliveredWrites ==
    ASSUME NEW d, NEW h
    PROVE  InputFacts(Delivered(d, h), d, h)
BY ReadDelivered DEF InputFacts

LEMMA SummariesWrites ==
    ASSUME NEW f, NEW d, NEW h, IsFiles(f), InputFacts(f, d, h)
    PROVE  /\ InputFacts(Summaries(f, h), d, h)
           /\ SummaryFacts(Summaries(f, h), d, h)
<1> DEFINE g == Summaries(f, h)
<1>0. \A n \in Names : n \notin {In(kind, Every) : kind \in Summary} => g[n] = f[n]
  BY ReadSummaries
<1>1. /\ g[In("native-summary", Every)] = nativeSummary(f, h)
      /\ g[In("react-native-summary", Every)] = createReactNativeSummary(f, h)
      /\ g[In("wasm-summary", Every)] = f[In("evidence", "wasm")]
  BY ReadSummaries
<1> HIDE DEF g
<1>2. InputFacts(g, d, h)
  BY <1>0, InNames, PartsFacts DEF InputFacts, In, Summary, Every
<1>3. nativeSummary(f, h) = NativeSummaryOf(d, h)
  <2>1. [p \in Native |-> f[In("evidence", p)]] = [p \in Native |-> Evidence(p, d[p])]
    BY PartsFacts DEF InputFacts
  <2>2. f[In("evidence", CHOOSE p \in Native : TRUE)].tool = NativeTool(d)
    BY PartsFacts, EvidenceFields DEF InputFacts, NativeTool
  <2> QED
    BY <2>1, <2>2 DEF nativeSummary, NativeSummaryOf
<1>4. createReactNativeSummary(f, h) = [commit |-> h, targets |-> ReactNativeTargetsOf(d)]
  <2>1. \A p \in ReactNative :
            SummaryTarget(f[In("evidence", p)]) = [sha |-> d[p], tool |-> d[p].tool]
    BY PartsFacts, EvidenceFields DEF InputFacts
  <2>2. [p \in ReactNative |-> SummaryTarget(f[In("evidence", p)])] = ReactNativeTargetsOf(d)
    BY <2>1 DEF ReactNativeTargetsOf
  <2> QED
    BY <2>2 DEF createReactNativeSummary
<1>5. f[In("evidence", "wasm")] = Evidence("wasm", d["wasm"])
  BY PartsFacts DEF InputFacts
<1>6. SummaryFacts(g, d, h)
  BY <1>1, <1>3, <1>4, <1>5 DEF SummaryFacts
<1> QED
  BY <1>2, <1>6 DEF g

LEMMA BuildWrites ==
    ASSUME NEW f, NEW d, NEW h, IsFiles(f), InputFacts(f, d, h), SummaryFacts(f, d, h)
    PROVE  /\ InputFacts(Build(f, h), d, h)
           /\ SummaryFacts(Build(f, h), d, h)
           /\ PackageFacts(Build(f, h), d, h)
<1> DEFINE g == Build(f, h)
<1>0. \A n \in Names : n[1] # "dist" => g[n] = f[n]
  BY ReadBuild
<1>1. /\ \A p \in Parts : g[Dist("bin", p)] = Packaged(f, p)
      /\ g[Dist("native-manifest", Every)] = assembleNativeManifest(f, h)
      /\ g[Dist("react-native-manifest", Every)] = assembleReactNativeManifest(f, h)
      /\ g[Dist("wasm-manifest", Every)] = runWasmBindgen(f[In("bin", "wasm")])
  BY ReadBuild
<1> HIDE DEF g
<1>2. InputFacts(g, d, h)
  BY <1>0, InNames, PartsFacts DEF InputFacts, In
<1>3. SummaryFacts(g, d, h)
  BY <1>0, InNames, PartsFacts DEF SummaryFacts, In, Summary
<1>4. ASSUME NEW p \in Parts PROVE Packaged(f, p) = PackageOf(d, h).bin[p]
  <2>1. PackageOf(d, h).bin[p] = IF p = "wasm" THEN runWasmBindgen(d[p]) ELSE d[p]
    BY DEF PackageOf
  <2> QED
    BY <2>1, PartsFacts DEF Packaged, InputFacts
<1>5. assembleNativeManifest(f, h) = PackageOf(d, h).native
  <2>1. [p \in Native |-> f[In("bin", p)]] = [p \in Native |-> d[p]]
    BY PartsFacts DEF InputFacts
  <2>2. f[In("native-summary", Every)].tool = NativeTool(d)
    BY DEF SummaryFacts, NativeSummaryOf
  <2> QED
    BY <2>1, <2>2 DEF assembleNativeManifest, PackageOf
<1>6. assembleReactNativeManifest(f, h) = PackageOf(d, h).reactNative
  <2>1. \A p \in ReactNative : f[In("bin", p)] = d[p] /\ f[In("evidence", p)].tool = d[p].tool
    BY PartsFacts, EvidenceFields DEF InputFacts
  <2>2. [p \in ReactNative |-> [sha |-> f[In("bin", p)], tool |-> f[In("evidence", p)].tool]]
            = ReactNativeTargetsOf(d)
    BY <2>1 DEF ReactNativeTargetsOf
  <2> QED
    BY <2>2 DEF assembleReactNativeManifest, PackageOf
<1>7. runWasmBindgen(f[In("bin", "wasm")]) = PackageOf(d, h).wasm
  BY PartsFacts DEF InputFacts, PackageOf
<1>8. PackageFacts(g, d, h)
  BY <1>1, <1>4, <1>5, <1>6, <1>7 DEF PackageFacts
<1> QED
  BY <1>2, <1>3, <1>8 DEF g

LEMMA PackageIs ==
    ASSUME NEW f, NEW d, NEW h, PackageFacts(f, d, h)
    PROVE  Package(f) = PackageOf(d, h)
<1>1. [p \in Parts |-> f[Dist("bin", p)]] = PackageOf(d, h).bin
  BY DEF PackageFacts, PackageOf
<1>2. PackageOf(d, h) = [bin |-> PackageOf(d, h).bin, native |-> PackageOf(d, h).native,
                         reactNative |-> PackageOf(d, h).reactNative,
                         wasm |-> PackageOf(d, h).wasm]
  BY DEF PackageOf
<1> QED
  BY <1>1, <1>2 DEF PackageFacts, Package

BuiltFacts(f, d, h) == InputFacts(f, d, h) /\ SummaryFacts(f, d, h) /\ PackageFacts(f, d, h)

(* The steps after the build write to release-output alone. *)
LEMMA OutputFrame ==
    ASSUME NEW f, NEW g, NEW d, NEW h, BuiltFacts(f, d, h),
           \A n \in Names : n[1] # "release-output" => g[n] = f[n]
    PROVE  BuiltFacts(g, d, h)
<1>1. InputFacts(g, d, h)
  BY InNames DEF BuiltFacts, InputFacts, In
<1>2. SummaryFacts(g, d, h)
  BY InNames DEF BuiltFacts, SummaryFacts, In, Summary
<1>3. PackageFacts(g, d, h)
  BY DistNames DEF BuiltFacts, PackageFacts, Dist
<1> QED
  BY <1>1, <1>2, <1>3 DEF BuiltFacts

LEMMA PackWrites ==
    ASSUME NEW f, NEW d, NEW h, IsFiles(f), BuiltFacts(f, d, h)
    PROVE  BuiltFacts(Pack(f), d, h) /\ TarballFacts(Pack(f), d, h)
<1>1. \A n \in Names : n[1] # "release-output" => Pack(f)[n] = f[n]
  BY ReadPack DEF Out
<1>2. BuiltFacts(Pack(f), d, h)
  BY <1>1, OutputFrame
<1>3. TarballFacts(Pack(f), d, h)
  BY ReadPack, PackageIs DEF TarballFacts, BuiltFacts
<1> QED
  BY <1>2, <1>3

ContextOf(d, h) ==
    [source |-> h,
     nativeSummary |-> NativeSummaryOf(d, h),
     reactNativeSummary |-> [commit |-> h, targets |-> ReactNativeTargetsOf(d)],
     wasmSummary |-> Evidence("wasm", d["wasm"]),
     evidence |-> [p \in Parts |-> Evidence(p, d[p])],
     bin |-> [p \in Parts |-> d[p]],
     package |-> PackageOf(d, h),
     tarball |-> PackageOf(d, h)]

LEMMA InputContextIs ==
    ASSUME NEW f, NEW d, NEW h, BuiltFacts(f, d, h), TarballFacts(f, d, h)
    PROVE  Context(f, "release-input") = ContextOf(d, h)
<1>1. [p \in Parts |-> f[<<"release-input", "evidence", p>>]]
        = [p \in Parts |-> Evidence(p, d[p])]
  BY DEF BuiltFacts, InputFacts, In
<1>2. [p \in Parts |-> IF p \in Native THEN f[<<"release-input", "bin", p>>] ELSE f[In("bin", p)]]
        = [p \in Parts |-> d[p]]
  BY DEF BuiltFacts, InputFacts, In
<1>3. f[<<"release-input", "source", Every>>] = h
  BY DEF BuiltFacts, InputFacts, In
<1>4. /\ f[<<"release-input", "native-summary", Every>>] = NativeSummaryOf(d, h)
      /\ f[<<"release-input", "react-native-summary", Every>>] =
            [commit |-> h, targets |-> ReactNativeTargetsOf(d)]
      /\ f[<<"release-input", "wasm-summary", Every>>] = Evidence("wasm", d["wasm"])
  BY DEF BuiltFacts, SummaryFacts, In
<1>5. Package(f) = PackageOf(d, h) /\ f[Out("tarball", Every)] = PackageOf(d, h)
  BY PackageIs DEF BuiltFacts, TarballFacts
<1> QED
  BY <1>1, <1>2, <1>3, <1>4, <1>5 DEF Context, ContextOf

LEMMA OutputContextIs ==
    ASSUME NEW f, NEW d, NEW h, BuiltFacts(f, d, h), TarballFacts(f, d, h), BundleFacts(f, d, h)
    PROVE  Context(f, "release-output") = ContextOf(d, h)
<1>1. [p \in Parts |-> f[<<"release-output", "evidence", p>>]]
        = [p \in Parts |-> Evidence(p, d[p])]
  BY DEF BundleFacts, Out
<1>2. [p \in Parts |-> IF p \in Native THEN f[<<"release-output", "bin", p>>]
                       ELSE f[In("bin", p)]]
        = [p \in Parts |-> d[p]]
  BY DEF BuiltFacts, InputFacts, BundleFacts, Out
<1>3. /\ f[<<"release-output", "source", Every>>] = h
      /\ f[<<"release-output", "native-summary", Every>>] = NativeSummaryOf(d, h)
      /\ f[<<"release-output", "react-native-summary", Every>>] =
            [commit |-> h, targets |-> ReactNativeTargetsOf(d)]
      /\ f[<<"release-output", "wasm-summary", Every>>] = Evidence("wasm", d["wasm"])
  BY DEF BundleFacts, Out
<1>5. Package(f) = PackageOf(d, h) /\ f[Out("tarball", Every)] = PackageOf(d, h)
  BY PackageIs DEF BuiltFacts, TarballFacts
<1> QED
  BY <1>1, <1>2, <1>3, <1>5 DEF Context, ContextOf

LEMMA ManifestIs ==
    ASSUME NEW d, NEW h
    PROVE  createReleaseManifest(ContextOf(d, h)) = ManifestOf(d, h)
<1> DEFINE c == ContextOf(d, h)
<1>1. /\ c.source = h /\ c.nativeSummary = NativeSummaryOf(d, h)
      /\ c.wasmSummary = Evidence("wasm", d["wasm"])
      /\ c.evidence = [p \in Parts |-> Evidence(p, d[p])]
      /\ c.package = PackageOf(d, h) /\ c.tarball = PackageOf(d, h)
  BY DEF ContextOf
<1> HIDE DEF c
<1>2. NativeSummaryOf(d, h).tool = NativeTool(d)
  BY DEF NativeSummaryOf
<1>3. [p \in Native |-> NativeSummaryOf(d, h).targets[p]] = [p \in Native |-> Evidence(p, d[p])]
  BY DEF NativeSummaryOf
<1>4. [p \in ReactNative |-> c.evidence[p]] = [p \in ReactNative |-> Evidence(p, d[p])]
  BY <1>1, PartsFacts
<1>5. PackageOf(d, h).bin["wasm"] = runWasmBindgen(d["wasm"])
  BY PartsFacts DEF PackageOf
<1>6. createReleaseManifest(c) = ManifestOf(d, h)
  BY <1>1, <1>2, <1>3, <1>4, <1>5 DEF createReleaseManifest, ManifestOf
<1> QED
  BY <1>6 DEF c

LEMMA ManifestWrites ==
    ASSUME NEW f, NEW d, NEW h, IsFiles(f), BuiltFacts(f, d, h), TarballFacts(f, d, h)
    PROVE  /\ BuiltFacts(Manifest(f), d, h)
           /\ TarballFacts(Manifest(f), d, h)
           /\ ManifestFacts(Manifest(f), d, h)
<1>1. \A n \in Names : n[1] # "release-output" => Manifest(f)[n] = f[n]
  BY ReadManifest DEF Out
<1>2. BuiltFacts(Manifest(f), d, h)
  BY <1>1, OutputFrame
<1>3. Manifest(f)[Out("tarball", Every)] = f[Out("tarball", Every)]
  BY ReadManifest, OutNames DEF Out
<1>4. TarballFacts(Manifest(f), d, h)
  BY <1>3 DEF TarballFacts
<1>5. createReleaseManifest(Context(f, "release-input")) = ManifestOf(d, h)
  BY InputContextIs, ManifestIs
<1>6. ManifestFacts(Manifest(f), d, h)
  BY <1>5, ReadManifest DEF ManifestFacts
<1> QED
  BY <1>2, <1>4, <1>6

LEMMA SbomWrites ==
    ASSUME NEW f, NEW d, NEW h, IsFiles(f), BuiltFacts(f, d, h), TarballFacts(f, d, h),
           ManifestFacts(f, d, h)
    PROVE  /\ BuiltFacts(Sbom(f), d, h) /\ TarballFacts(Sbom(f), d, h)
           /\ ManifestFacts(Sbom(f), d, h) /\ SbomFacts(Sbom(f), d, h)
<1>1. \A n \in Names : n[1] # "release-output" => Sbom(f)[n] = f[n]
  BY ReadSbom DEF Out
<1>2. BuiltFacts(Sbom(f), d, h)
  BY <1>1, OutputFrame
<1>3. /\ Sbom(f)[Out("tarball", Every)] = f[Out("tarball", Every)]
      /\ Sbom(f)[Out("manifest", Every)] = f[Out("manifest", Every)]
      /\ Sbom(f)[Out("sums", Every)] = f[Out("sums", Every)]
  BY ReadSbom, OutNames DEF Out
<1>4. TarballFacts(Sbom(f), d, h) /\ ManifestFacts(Sbom(f), d, h)
  BY <1>3 DEF TarballFacts, ManifestFacts
<1>5. SbomFacts(Sbom(f), d, h)
  BY ReadSbom DEF ManifestFacts, SbomFacts
<1> QED
  BY <1>2, <1>4, <1>5

LEMMA SbomFields ==
    ASSUME NEW m
    PROVE  /\ createSpdxDocument(m).commit = m.commit
           /\ createSpdxDocument(m).tarball = m.tarball
           /\ createLicenseInventory(m).commit = m.commit
           /\ createLicenseInventory(m).tarball = m.tarball
BY DEF createSpdxDocument, createLicenseInventory

LEMMA PolicyWrites ==
    ASSUME NEW f, NEW d, NEW h, NEW l, IsFiles(f), BuiltFacts(f, d, h), TarballFacts(f, d, h),
           ManifestFacts(f, d, h), SbomFacts(f, d, h)
    PROVE  /\ BuiltFacts(Policy(f, l), d, h) /\ TarballFacts(Policy(f, l), d, h)
           /\ ManifestFacts(Policy(f, l), d, h) /\ SbomFacts(Policy(f, l), d, h)
           /\ PolicyFacts(Policy(f, l), d, h, l)
<1>1. \A n \in Names : n[1] # "release-output" => Policy(f, l)[n] = f[n]
  BY ReadPolicy DEF Out
<1>2. BuiltFacts(Policy(f, l), d, h)
  BY <1>1, OutputFrame
<1>3. \A kind \in {"tarball", "manifest", "sums", "sbom", "inventory", "sbom-sums"} :
        Policy(f, l)[Out(kind, Every)] = f[Out(kind, Every)]
  BY ReadPolicy, OutNames DEF Out
<1>4. TarballFacts(Policy(f, l), d, h) /\ ManifestFacts(Policy(f, l), d, h)
  BY <1>3 DEF TarballFacts, ManifestFacts
<1>5. SbomFacts(Policy(f, l), d, h)
  BY <1>3 DEF SbomFacts
<1>6. createLicenseInventory(ManifestOf(d, h)).commit = h
  BY SbomFields DEF ManifestOf
<1>7. /\ createLicensePolicyArtifact(f, l.gate) = PolicyOf(d, h, l)
      /\ createThirdPartyLicenseArtifact(f, l.text) = ThirdPartyOf(d, h, l)
  BY <1>6 DEF SbomFacts, createLicensePolicyArtifact, createThirdPartyLicenseArtifact, PolicyOf,
              ThirdPartyOf
<1>8. PolicyFacts(Policy(f, l), d, h, l)
  BY <1>7, ReadPolicy DEF PolicyFacts
<1> QED
  BY <1>2, <1>4, <1>5, <1>8

LEMMA BundleWrites ==
    ASSUME NEW f, NEW d, NEW h, NEW l, IsFiles(f), BuiltFacts(f, d, h), TarballFacts(f, d, h),
           ManifestFacts(f, d, h), SbomFacts(f, d, h), PolicyFacts(f, d, h, l)
    PROVE  /\ BuiltFacts(Bundle(f), d, h) /\ TarballFacts(Bundle(f), d, h)
           /\ ManifestFacts(Bundle(f), d, h) /\ SbomFacts(Bundle(f), d, h)
           /\ PolicyFacts(Bundle(f), d, h, l) /\ BundleFacts(Bundle(f), d, h)
<1>1. \A n \in Names : n[1] # "release-output" => Bundle(f)[n] = f[n]
  BY ReadBundle DEF Out, Copied
<1>2. BuiltFacts(Bundle(f), d, h)
  BY <1>1, OutputFrame
<1>3. \A kind \in {"tarball", "manifest", "sums", "sbom", "inventory", "sbom-sums", "policy",
                   "third-party", "policy-sums"} :
        Bundle(f)[Out(kind, Every)] = f[Out(kind, Every)]
  BY ReadBundle, OutNames DEF Out, Copied, Summary
<1>4. TarballFacts(Bundle(f), d, h) /\ ManifestFacts(Bundle(f), d, h)
  BY <1>3 DEF TarballFacts, ManifestFacts
<1>5. SbomFacts(Bundle(f), d, h) /\ PolicyFacts(Bundle(f), d, h, l)
  BY <1>3 DEF SbomFacts, PolicyFacts
<1>6. /\ \A p \in Parts : Bundle(f)[Out("evidence", p)] = Evidence(p, d[p])
      /\ \A p \in Native \cup ReactNative : Bundle(f)[Out("bin", p)] = d[p]
  BY ReadBundle, PartsFacts DEF BuiltFacts, InputFacts
<1>7. Bundle(f)[Out("source", Every)] = h
  BY ReadBundle DEF BuiltFacts, InputFacts
<1>8. /\ Bundle(f)[Out("native-summary", Every)] = NativeSummaryOf(d, h)
      /\ Bundle(f)[Out("react-native-summary", Every)] =
            [commit |-> h, targets |-> ReactNativeTargetsOf(d)]
      /\ Bundle(f)[Out("wasm-summary", Every)] = Evidence("wasm", d["wasm"])
  BY ReadBundle DEF BuiltFacts, SummaryFacts, Summary
<1>9. Bundle(f)[Out("react-native-manifest", Every)] = PackageOf(d, h).reactNative
  BY ReadBundle DEF BuiltFacts, PackageFacts
<1>10. BundleFacts(Bundle(f), d, h)
  BY <1>6, <1>7, <1>8, <1>9 DEF BundleFacts
<1> QED
  BY <1>2, <1>4, <1>5, <1>10

-----------------------------------------------------------------------------
(* The file of another run that Replace puts in a file's place *)

Whole(b) == [p \in Parts |-> b]

LEMMA OfRunFacts ==
    ASSUME NEW b \in Builds
    PROVE  /\ IsFiles(OfRun[b])
           /\ BuiltFacts(OfRun[b], Whole(b), b.commit)
           /\ TarballFacts(OfRun[b], Whole(b), b.commit)
           /\ ManifestFacts(OfRun[b], Whole(b), b.commit)
           /\ SbomFacts(OfRun[b], Whole(b), b.commit)
           /\ BundleFacts(OfRun[b], Whole(b), b.commit)
<1> DEFINE d == Whole(b)
           h == b.commit
           l == [gate |-> "PASS", text |-> "ready"]
           f1 == Delivered(d, h)
           f2 == Summaries(f1, h)
           f3 == Build(f2, h)
           f4 == Pack(f3)
           f5 == Manifest(f4)
           f6 == Sbom(f5)
           f7 == Policy(f6, l)
           f8 == Bundle(f7)
<1>0. OfRun[b] = f8
  BY DEF OfRun, Pristine, Packed, Whole
<1> HIDE DEF d, h, l
<1>1. IsFiles(f1) /\ InputFacts(f1, d, h)
  BY ReadDelivered, DeliveredWrites
<1> HIDE DEF f1
<1>2. IsFiles(f2) /\ InputFacts(f2, d, h) /\ SummaryFacts(f2, d, h)
  BY <1>1, ReadSummaries, SummariesWrites
<1> HIDE DEF f2
<1>3. IsFiles(f3) /\ BuiltFacts(f3, d, h)
  BY <1>2, ReadBuild, BuildWrites DEF BuiltFacts
<1> HIDE DEF f3
<1>4. IsFiles(f4) /\ BuiltFacts(f4, d, h) /\ TarballFacts(f4, d, h)
  BY <1>3, ReadPack, PackWrites
<1> HIDE DEF f4
<1>5. IsFiles(f5) /\ BuiltFacts(f5, d, h) /\ TarballFacts(f5, d, h) /\ ManifestFacts(f5, d, h)
  BY <1>4, ReadManifest, ManifestWrites
<1> HIDE DEF f5
<1>6. /\ IsFiles(f6) /\ BuiltFacts(f6, d, h) /\ TarballFacts(f6, d, h) /\ ManifestFacts(f6, d, h)
      /\ SbomFacts(f6, d, h)
  BY <1>5, ReadSbom, SbomWrites
<1> HIDE DEF f6
<1>7. /\ IsFiles(f7) /\ BuiltFacts(f7, d, h) /\ TarballFacts(f7, d, h) /\ ManifestFacts(f7, d, h)
      /\ SbomFacts(f7, d, h) /\ PolicyFacts(f7, d, h, l)
  BY <1>6, ReadPolicy, PolicyWrites
<1> HIDE DEF f7
<1>8. /\ IsFiles(f8) /\ BuiltFacts(f8, d, h) /\ TarballFacts(f8, d, h) /\ ManifestFacts(f8, d, h)
      /\ SbomFacts(f8, d, h) /\ BundleFacts(f8, d, h)
  BY <1>7, ReadBundle, BundleWrites
<1> QED
  BY <1>0, <1>8 DEF d, h

-----------------------------------------------------------------------------
(* The checks on the files of a run none of whose files was exchanged *)

Good(d) == /\ \A p \in Parts : d[p].commit = Head
           /\ \A p \in Rust : d[p].tool = Rustc

LEMMA GoodInputs ==
    ASSUME NEW f, NEW d, InputFacts(f, d, Head), Good(d)
    PROVE  /\ validateNative(f)
           /\ validateWasm(f, Head, Rustc)
           /\ validateReactNativeInputs(f)
<1>1. ASSUME NEW p \in Native
      PROVE  /\ f[In("evidence", p)].commit = Head /\ f[In("evidence", p)].sha = f[In("bin", p)]
             /\ f[In("evidence", p)].tool = Rustc
  <2>1. f[In("evidence", p)] = Evidence(p, d[p]) /\ f[In("bin", p)] = d[p]
    BY PartsFacts DEF InputFacts
  <2>2. d[p].commit = Head /\ d[p].tool = Rustc
    BY PartsFacts DEF Good, Rust
  <2> QED
    BY <2>1, <2>2, EvidenceFields
<1>2. {f[In("evidence", p)].tool : p \in Native} = {Rustc}
  BY <1>1, PartsFacts
<1>3. Cardinality({f[In("evidence", p)].tool : p \in Native}) = 1
  BY <1>2, FS_Singleton
<1>4. validateNative(f)
  BY <1>1, <1>3 DEF validateNative
<1>5. validateWasm(f, Head, Rustc)
  <2>1. /\ f[In("evidence", "wasm")] = Evidence("wasm", d["wasm"])
        /\ f[In("bin", "wasm")] = d["wasm"]
    BY PartsFacts DEF InputFacts
  <2>2. d["wasm"].commit = Head /\ d["wasm"].tool = Rustc
    BY PartsFacts DEF Good, Rust
  <2> QED
    BY <2>1, <2>2 DEF validateWasm, Evidence
<1>6. ASSUME NEW p \in ReactNative
      PROVE  validateReactNativeArtifactEvidence(f[In("evidence", p)], f[In("bin", p)])
  <2>1. f[In("evidence", p)] = Evidence(p, d[p]) /\ f[In("bin", p)] = d[p]
    BY PartsFacts DEF InputFacts
  <2>2. d[p].commit = Head
    BY PartsFacts DEF Good
  <2> QED
    BY <2>1, <2>2, EvidenceFields DEF validateReactNativeArtifactEvidence
<1> QED
  BY <1>4, <1>5, <1>6 DEF validateReactNativeInputs

LEMMA GoodPackage ==
    ASSUME NEW d, NEW h
    PROVE  validatePackageContents(PackageOf(d, h))
<1>1. \A p \in ReactNative : PackageOf(d, h).bin[p] = d[p]
  BY PartsFacts DEF PackageOf
<1>2. \A p \in ReactNative : PackageOf(d, h).reactNative.artifacts[p].sha = d[p]
  BY DEF PackageOf, ReactNativeTargetsOf
<1>3. PackageOf(d, h).bin["wasm"] = PackageOf(d, h).wasm
  BY PartsFacts DEF PackageOf
<1> QED
  BY <1>1, <1>2, <1>3 DEF validatePackageContents, validateReactNativePackageArtifacts

LEMMA PackageFields ==
    ASSUME NEW d, NEW h
    PROVE  /\ \A p \in Native \cup ReactNative : PackageOf(d, h).bin[p] = d[p]
           /\ PackageOf(d, h).bin["wasm"] = runWasmBindgen(d["wasm"])
           /\ PackageOf(d, h).wasm = runWasmBindgen(d["wasm"])
           /\ PackageOf(d, h).native.commit = h
           /\ PackageOf(d, h).native.tool = NativeTool(d)
           /\ \A p \in Native : PackageOf(d, h).native.sha[p] = d[p]
           /\ PackageOf(d, h).reactNative.commit = h
           /\ \A p \in ReactNative :
                PackageOf(d, h).reactNative.artifacts[p] = [sha |-> d[p], tool |-> d[p].tool]
<1>1. /\ \A p \in Native \cup ReactNative : PackageOf(d, h).bin[p] = d[p]
      /\ PackageOf(d, h).bin["wasm"] = runWasmBindgen(d["wasm"])
  BY PartsFacts DEF PackageOf
<1> QED
  BY <1>1 DEF PackageOf, ReactNativeTargetsOf

LEMMA ContextFields ==
    ASSUME NEW d, NEW h
    PROVE  LET c == ContextOf(d, h)
           IN  /\ c.source = h
               /\ c.nativeSummary = NativeSummaryOf(d, h)
               /\ c.reactNativeSummary = [commit |-> h, targets |-> ReactNativeTargetsOf(d)]
               /\ c.wasmSummary = Evidence("wasm", d["wasm"])
               /\ c.evidence = [p \in Parts |-> Evidence(p, d[p])]
               /\ c.bin = [p \in Parts |-> d[p]]
               /\ c.package = PackageOf(d, h)
               /\ c.tarball = PackageOf(d, h)
BY DEF ContextOf

LEMMA GoodContext ==
    ASSUME NEW d, Good(d)
    PROVE  EvidenceAgrees(ContextOf(d, Head))
<1> DEFINE c == ContextOf(d, Head)
<1>1. /\ c.source = Head
      /\ c.nativeSummary = NativeSummaryOf(d, Head)
      /\ c.reactNativeSummary = [commit |-> Head, targets |-> ReactNativeTargetsOf(d)]
      /\ c.wasmSummary = Evidence("wasm", d["wasm"])
      /\ c.evidence = [p \in Parts |-> Evidence(p, d[p])]
      /\ c.bin = [p \in Parts |-> d[p]]
      /\ c.package = PackageOf(d, Head)
  BY ContextFields
<1> HIDE DEF c
<1>2. \A p \in Parts : c.evidence[p] = Evidence(p, d[p]) /\ c.bin[p] = d[p]
  BY <1>1
<1>3. /\ NativeSummaryOf(d, Head).commit = Head
      /\ NativeSummaryOf(d, Head).tool = NativeTool(d)
      /\ \A p \in Native : NativeSummaryOf(d, Head).targets[p] = Evidence(p, d[p])
  BY DEF NativeSummaryOf
<1>4. NativeTool(d) = Rustc
  BY PartsFacts DEF NativeTool, Good, Rust
<1>5. /\ \A p \in Parts : d[p].commit = Head
      /\ \A p \in Native : d[p].tool = Rustc
      /\ d["wasm"].tool = Rustc
  BY DEF Good, Rust
<1>6. readSourceEvidence(c)
  BY <1>1 DEF readSourceEvidence
<1>7. readNativeEvidenceSet(c)
  BY <1>1, <1>2, <1>3, <1>4, <1>5, PartsFacts, EvidenceFields DEF readNativeEvidenceSet
<1>8. validateReactNativeEvidenceSet(c)
  <2>1. \A p \in ReactNative : ReactNativeTargetsOf(d)[p] = [sha |-> d[p], tool |-> d[p].tool]
    BY DEF ReactNativeTargetsOf
  <2>2. /\ c.reactNativeSummary.commit = Head
        /\ c.reactNativeSummary.targets = ReactNativeTargetsOf(d)
    BY <1>1
  <2>3. ASSUME NEW p \in ReactNative
        PROVE  validateReactNativeArtifactEvidence(c.evidence[p], c.bin[p])
    BY <1>2, <1>5, PartsFacts, EvidenceFields DEF validateReactNativeArtifactEvidence
  <2>4. ASSUME NEW p \in ReactNative
        PROVE  c.reactNativeSummary.targets[p] = SummaryTarget(c.evidence[p])
    BY <1>2, <2>1, <2>2, PartsFacts, EvidenceFields
  <2> QED
    BY <2>2, <2>3, <2>4 DEF validateReactNativeEvidenceSet
<1>9. packageRuntimeManifest(c)
  <2>1. ASSUME NEW p \in Native
        PROVE  /\ c.package.native.sha[p] = c.evidence[p].sha
               /\ c.package.native.tool = c.evidence[p].tool
               /\ c.package.bin[p] = c.evidence[p].sha
    BY <1>1, <1>2, <1>4, <1>5, PartsFacts, EvidenceFields, PackageFields
  <2>2. ASSUME NEW p \in ReactNative
        PROVE  /\ c.package.reactNative.artifacts[p] = SummaryTarget(c.evidence[p])
               /\ c.package.bin[p] = c.evidence[p].sha
    BY <1>1, <1>2, PartsFacts, EvidenceFields, PackageFields
  <2>3. c.package.native.commit = Head
    BY <1>1, PackageFields
  <2>4. validatePackageContents(c.package)
    BY <1>1, GoodPackage
  <2> QED
    BY <2>1, <2>2, <2>3, <2>4 DEF packageRuntimeManifest
<1>10. validateWasmEvidence(c)
  BY <1>1, <1>2, <1>5, PartsFacts, EvidenceFields DEF validateWasmEvidence
<1>11. validateToolchains(c)
  BY <1>1, <1>3, <1>4, <1>5, EvidenceFields DEF validateToolchains
<1>12. EvidenceAgrees(c)
  BY <1>6, <1>7, <1>8, <1>9, <1>10, <1>11 DEF EvidenceAgrees
<1> QED
  BY <1>12 DEF c

LEMMA ManifestFields ==
    ASSUME NEW d, NEW h
    PROVE  LET m == ManifestOf(d, h)
           IN  /\ m.commit = h
               /\ m.tool = NativeTool(d)
               /\ m.native = [p \in Native |-> Evidence(p, d[p])]
               /\ m.reactNativeManifest = PackageOf(d, h).reactNative
               /\ m.reactNative = [p \in ReactNative |-> Evidence(p, d[p])]
               /\ m.wasmSource = Evidence("wasm", d["wasm"])
               /\ m.wasm = runWasmBindgen(d["wasm"])
               /\ m.tarball = PackageOf(d, h)
BY DEF ManifestOf

LEMMA SumsFields ==
    ASSUME NEW m
    PROVE  LET sums == renderSha256Sums(m)
           IN  /\ sums.native = [p \in Native |-> m.native[p].sha]
               /\ sums.reactNativeManifest = m.reactNativeManifest
               /\ sums.reactNative = [p \in ReactNative |-> m.reactNative[p].sha]
               /\ sums.wasm = m.wasm
               /\ sums.tarball = m.tarball
               /\ sums.manifest = m
BY DEF renderSha256Sums

LEMMA GoodManifest ==
    ASSUME NEW d, Good(d)
    PROVE  LET m == ManifestOf(d, Head)
               c == ContextOf(d, Head)
           IN  validateContext(m, c) /\ validateSha256Sums(m, renderSha256Sums(m), c)
<1> DEFINE m == ManifestOf(d, Head)
           c == ContextOf(d, Head)
           sums == renderSha256Sums(m)
<1>1. /\ m.commit = Head
      /\ m.tool = NativeTool(d)
      /\ m.native = [p \in Native |-> Evidence(p, d[p])]
      /\ m.reactNativeManifest = PackageOf(d, Head).reactNative
      /\ m.reactNative = [p \in ReactNative |-> Evidence(p, d[p])]
      /\ m.wasmSource = Evidence("wasm", d["wasm"])
      /\ m.wasm = runWasmBindgen(d["wasm"])
      /\ m.tarball = PackageOf(d, Head)
  BY ManifestFields
<1>2. /\ c.source = Head
      /\ c.nativeSummary = NativeSummaryOf(d, Head)
      /\ c.wasmSummary = Evidence("wasm", d["wasm"])
      /\ c.evidence = [p \in Parts |-> Evidence(p, d[p])]
      /\ c.package = PackageOf(d, Head)
      /\ c.tarball = PackageOf(d, Head)
  BY ContextFields
<1>3. EvidenceAgrees(c)
  BY GoodContext
<1>4. /\ sums.native = [p \in Native |-> m.native[p].sha]
      /\ sums.reactNativeManifest = m.reactNativeManifest
      /\ sums.reactNative = [p \in ReactNative |-> m.reactNative[p].sha]
      /\ sums.wasm = m.wasm
      /\ sums.tarball = m.tarball
  BY SumsFields
<1>5. sums = renderSha256Sums(m)
  OBVIOUS
<1> HIDE DEF m, c, sums
<1>6. /\ \A p \in Native : m.native[p].commit = Head /\ m.native[p].sha = d[p]
      /\ \A p \in ReactNative : m.reactNative[p].commit = Head /\ m.reactNative[p].sha = d[p]
      /\ m.wasmSource.commit = Head
  BY <1>1, PartsFacts, EvidenceFields DEF Good
<1>7. validateManifestShape(m)
  BY <1>1, <1>6, PackageFields DEF validateManifestShape, validateReactNativeReleaseIdentity
<1>8. m.native = c.nativeSummary.targets /\ m.tool = c.nativeSummary.tool
  BY <1>1, <1>2 DEF NativeSummaryOf
<1>9. m.reactNative = [p \in ReactNative |-> c.evidence[p]]
  BY <1>1, <1>2, PartsFacts
<1>10. validateContext(m, c)
  BY <1>1, <1>2, <1>3, <1>7, <1>8, <1>9, PackageFields DEF validateContext
<1>11. /\ \A p \in Native : sums.native[p] = c.package.bin[p]
       /\ \A p \in ReactNative : sums.reactNative[p] = c.package.bin[p]
  BY <1>2, <1>4, <1>6, PackageFields
<1>12. /\ sums.reactNativeManifest = c.package.reactNative
       /\ sums.wasm = c.package.bin["wasm"]
       /\ sums.tarball = c.tarball
  BY <1>1, <1>2, <1>4, PackageFields
<1>13. validateSha256Sums(m, sums, c)
  BY <1>5, <1>11, <1>12 DEF validateSha256Sums
<1> QED
  BY <1>5, <1>10, <1>13 DEF m, c

LEMMA GoodSbom ==
    ASSUME NEW f, NEW d, NEW h, ManifestFacts(f, d, h), SbomFacts(f, d, h)
    PROVE  SbomValid(f) /\ validateSbomSums(f) /\ validateInventoryAndSbom(f)
<1>1. validateSbomSums(f)
  BY DEF SbomFacts, validateSbomSums
<1>2. SbomValid(f)
  BY <1>1 DEF SbomValid, ManifestFacts, SbomFacts
<1>3. validateInventoryAndSbom(f)
  BY SbomFields DEF validateInventoryAndSbom, SbomFacts
<1> QED
  BY <1>1, <1>2, <1>3

LEMMA GoodPolicy ==
    ASSUME NEW f, NEW d, NEW h, NEW l, NEW requireText \in BOOLEAN, IsFiles(f),
           SbomFacts(f, d, h), PolicyFacts(f, d, h, l), enforceLicensePolicy(l, requireText)
    PROVE  PolicyValid(f, l, requireText)
<1>1. createLicenseInventory(ManifestOf(d, h)).commit = h
  BY SbomFields DEF ManifestOf
<1>2. /\ createLicensePolicyArtifact(f, l.gate) = PolicyOf(d, h, l)
      /\ createThirdPartyLicenseArtifact(f, l.text) = ThirdPartyOf(d, h, l)
  BY <1>1 DEF SbomFacts, createLicensePolicyArtifact, createThirdPartyLicenseArtifact, PolicyOf,
              ThirdPartyOf
<1> DEFINE g == Policy(f, l)
           written == {Out("policy", Every), Out("third-party", Every), Out("policy-sums", Every)}
<1>3. /\ IsFiles(g)
      /\ g[Out("policy", Every)] = PolicyOf(d, h, l)
      /\ g[Out("third-party", Every)] = ThirdPartyOf(d, h, l)
      /\ g[Out("policy-sums", Every)] = renderSums(PolicyOf(d, h, l), ThirdPartyOf(d, h, l))
      /\ \A n \in Names : n \notin written => g[n] = f[n]
  BY <1>2, ReadPolicy
<1> HIDE DEF g
<1>4. \A n \in Names : g[n] = f[n]
  BY <1>3 DEF PolicyFacts
<1>5. f = g
  BY <1>3, <1>4 DEF IsFiles
<1> QED
  BY <1>5 DEF g, PolicyValid

LEMMA GoodBundle ==
    ASSUME NEW f, NEW d, NEW l, Good(d), BuiltFacts(f, d, Head), TarballFacts(f, d, Head),
           ManifestFacts(f, d, Head), SbomFacts(f, d, Head), PolicyFacts(f, d, Head, l),
           BundleFacts(f, d, Head), enforceLicensePolicy(l, TRUE)
    PROVE  validateReleaseBundle(f)
<1> DEFINE m == ManifestOf(d, Head)
           t == PackageOf(d, Head)
<1>1. /\ m.commit = Head
      /\ m.native = [p \in Native |-> Evidence(p, d[p])]
      /\ m.reactNativeManifest = t.reactNative
      /\ m.reactNative = [p \in ReactNative |-> Evidence(p, d[p])]
      /\ m.wasmSource = Evidence("wasm", d["wasm"])
      /\ m.wasm = runWasmBindgen(d["wasm"])
      /\ m.tarball = t
  BY ManifestFields
<1>2. /\ f[Out("manifest", Every)] = m /\ f[Out("sums", Every)] = renderSha256Sums(m)
      /\ f[Out("tarball", Every)] = t
  BY DEF ManifestFacts, TarballFacts
<1>3. /\ \A p \in Native \cup ReactNative : t.bin[p] = d[p]
      /\ t.bin["wasm"] = runWasmBindgen(d["wasm"]) /\ t.wasm = runWasmBindgen(d["wasm"])
      /\ t.native.commit = Head
      /\ \A p \in Native : t.native.sha[p] = d[p]
      /\ \A p \in ReactNative : t.reactNative.artifacts[p] = [sha |-> d[p], tool |-> d[p].tool]
  BY PackageFields
<1>4. validatePackageContents(t)
  BY GoodPackage
<1>5. /\ createSpdxDocument(m).commit = Head
      /\ createLicenseInventory(m).commit = Head
  BY <1>1, SbomFields
<1>6. /\ f[Out("sbom", Every)] = createSpdxDocument(m)
      /\ f[Out("inventory", Every)] = createLicenseInventory(m)
      /\ validateSbomSums(f)
  BY GoodSbom DEF SbomFacts
<1>7. /\ f[Out("policy", Every)] =
            [commit |-> Head, inventory |-> createLicenseInventory(m),
             sbom |-> createSpdxDocument(m), gate |-> l.gate]
      /\ f[Out("third-party", Every)] =
            [commit |-> Head, inventory |-> createLicenseInventory(m), text |-> l.text]
      /\ f[Out("policy-sums", Every)] = renderSums(f[Out("policy", Every)],
                                                   f[Out("third-party", Every)])
  BY DEF PolicyFacts, PolicyOf, ThirdPartyOf
<1> HIDE DEF m, t
<1>8. /\ \A p \in Native : m.native[p].commit = Head /\ m.native[p].sha = d[p]
      /\ \A p \in ReactNative : m.reactNative[p] = Evidence(p, d[p])
      /\ m.wasmSource.sha = d["wasm"]
  BY <1>1, PartsFacts, EvidenceFields DEF Good
<1>9. /\ \A p \in Parts : /\ f[Out("evidence", p)] = Evidence(p, d[p])
                          /\ f[Out("evidence", p)].commit = Head
                          /\ f[Out("evidence", p)].sha = d[p]
      /\ \A p \in Native \cup ReactNative : f[Out("bin", p)] = d[p]
  BY EvidenceFields DEF BundleFacts, Good
<1>10. validateReleaseManifestIdentity(m)
  BY <1>1, <1>8 DEF validateReleaseManifestIdentity
<1>11. validateSourceEvidence(f, m)
  BY <1>1 DEF validateSourceEvidence, BundleFacts
<1>12. validateNativeEvidence(f, m)
  BY <1>8, <1>9, PartsFacts DEF validateNativeEvidence
<1>13. validateReactNativeEvidence(f, m)
  <2>1. f[Out("react-native-manifest", Every)] = m.reactNativeManifest
    BY <1>1 DEF BundleFacts, t
  <2> QED
    BY <1>8, <1>9, <2>1, PartsFacts
       DEF validateReactNativeEvidence, validateReactNativeArtifactEvidence
<1>14. BundleWasmEvidence(f, m)
  BY <1>8, <1>9, PartsFacts DEF BundleWasmEvidence
<1>15. validateTarball(t, m)
  BY <1>1, <1>3, <1>4, <1>8, EvidenceFields DEF validateTarball
<1>16. validateReleaseDigests(f, m)
  <2>1. [p \in Native |-> m.native[p].sha] = [p \in Native |-> f[Out("bin", p)]]
    BY <1>8, <1>9
  <2>2. [p \in ReactNative |-> m.reactNative[p].sha] = [p \in ReactNative |-> f[Out("bin", p)]]
    BY <1>8, <1>9, EvidenceFields
  <2>3. m.wasm = t.bin["wasm"] /\ m.tarball = t
    BY <1>1, <1>3
  <2> QED
    BY <1>2, <2>1, <2>2, <2>3 DEF validateReleaseDigests, renderSha256Sums
<1>17. validatePhaseEvidence(f, m)
  <2>1. f[Out("policy", Every)].gate = "PASS" /\ f[Out("third-party", Every)].text = "ready"
    BY <1>7 DEF enforceLicensePolicy
  <2>2. validateSpdxReleaseIdentity(f, m)
    BY <1>1, <1>5, <1>6 DEF validateSpdxReleaseIdentity
  <2>3. validateEvidenceDigests(f)
    BY <1>6, <1>7 DEF validateEvidenceDigests
  <2>4. \A kind \in {"inventory", "policy", "third-party"} : f[Out(kind, Every)].commit = m.commit
    BY <1>1, <1>5, <1>6, <1>7
  <2>5. /\ f[Out("policy", Every)].inventory = f[Out("inventory", Every)]
        /\ f[Out("policy", Every)].sbom = f[Out("sbom", Every)]
        /\ f[Out("third-party", Every)].inventory = f[Out("inventory", Every)]
    BY <1>6, <1>7
  <2> QED
    BY <2>1, <2>2, <2>3, <2>4, <2>5 DEF validatePhaseEvidence
<1> QED
  BY <1>2, <1>10, <1>11, <1>12, <1>13, <1>14, <1>15, <1>16, <1>17 DEF validateReleaseBundle

-----------------------------------------------------------------------------
(***************************************************************************)
(* The inductive invariant.                                                *)
(***************************************************************************)
Finished == {"revalidate", "revalidate-sbom", "revalidate-policy", "verify", "accepted"}
FromAssemble == {"assemble"} \cup Finished
FromPolicy == {"policy", "texts"} \cup FromAssemble
FromSbom == {"sbom"} \cup FromPolicy
FromManifest == {"manifest"} \cup FromSbom
FromPack == {"pack"} \cup FromManifest
FromBuild == {"build"} \cup FromPack

Shape ==
    /\ pc \in {"compare", "summarise", "failed"} \cup FromBuild
    /\ IsFiles(file)
    /\ delivered \in [Parts -> Builds]
    /\ replaced \in Nat

(* With no file exchanged, the files are those of the run's own stages. *)
OwnFiles ==
    replaced = 0 =>
        /\ InputFacts(file, delivered, Head)
        /\ pc \in FromBuild => SummaryFacts(file, delivered, Head)
        /\ pc \in FromPack => PackageFacts(file, delivered, Head)
        /\ pc \in FromManifest => TarballFacts(file, delivered, Head)
        /\ pc \in FromSbom => ManifestFacts(file, delivered, Head)
        /\ pc \in FromPolicy => SbomFacts(file, delivered, Head)
        /\ pc \in FromAssemble => PolicyFacts(file, delivered, Head, licences)
        /\ pc \in Finished => BundleFacts(file, delivered, Head)

(* Evidence tells the truth about the bytes it was made with: it may be the
   evidence of another build, never one that no build made.  The manifest names
   evidence of one Rust toolchain.                                          *)
TrueEvidence(e, p) == \E b \in Builds : e = Evidence(p, b)

TrueManifest(m) ==
    /\ TrueEvidence(m.wasmSource, "wasm")
    /\ \A p \in Native : TrueEvidence(m.native[p], p) /\ m.native[p].tool = m.wasmSource.tool

Truthful ==
    /\ \A p \in Parts : TrueEvidence(file[In("evidence", p)], p)
    /\ pc \in FromSbom => TrueManifest(file[Out("manifest", Every)])
    /\ pc \in Finished => \A p \in Parts : TrueEvidence(file[Out("evidence", p)], p)

(* The canonical WASM module is tied to its source by the build alone.  One
   exchanged file leaves the tie, or breaks one of the two equalities that
   GenerateManifest checks.                                                 *)
WasmOfSource(m) == m.wasm = runWasmBindgen(m.wasmSource.sha)

WasmTied ==
    replaced <= 1 =>
        /\ ( /\ pc \in {"pack", "manifest"}
             /\ file[Dist("bin", "wasm")] = file[Dist("wasm-manifest", Every)]
             /\ file[In("evidence", "wasm")].sha = file[In("bin", "wasm")]
           ) => file[Dist("bin", "wasm")] = runWasmBindgen(file[In("bin", "wasm")])
        /\ pc \in FromSbom => WasmOfSource(file[Out("manifest", Every)])

(* The SBOM is tied to the tarball by RevalidateSbom, on the manifest.  One
   file exchanged after that leaves the tie, or breaks an equality that the
   publish job checks.                                                      *)
DescribesTarball(f) ==
    /\ f[Out("sbom", Every)].tarball = f[Out("tarball", Every)]
    /\ f[Out("inventory", Every)].tarball = f[Out("tarball", Every)]

SbomTied ==
    ( /\ replaced <= 1
      /\ pc \in {"revalidate-policy", "verify", "accepted"}
      /\ file[Out("policy", Every)].sbom = file[Out("sbom", Every)]
      /\ file[Out("policy", Every)].inventory = file[Out("inventory", Every)]
      /\ file[Out("tarball", Every)] = file[Out("manifest", Every)].tarball
    ) => DescribesTarball(file)

Verified ==
    /\ pc \in FromAssemble => enforceLicensePolicy(licences, TRUE)
    /\ pc = "accepted" => validateReleaseBundle(file)

-----------------------------------------------------------------------------
(* The shape of the state *)

LEMMA InitShape == Init => Shape
<1> SUFFICES ASSUME Init PROVE Shape
  OBVIOUS
<1>1. delivered \in [Parts -> Builds]
  <2>1. PICK S \in SUBSET Parts, b \in Builds :
            delivered = [p \in Parts |-> IF p \in S THEN b ELSE Own]
    BY DEF Init
  <2> QED
    BY <2>1, CandidateAssumption
<1>2. IsFiles(file)
  BY ReadDelivered DEF Init
<1> QED
  BY <1>1, <1>2 DEF Init, Shape

(* A step goes on or fails; what it wrote stays when only the check after it fails. *)
Goes(from, to, written) ==
    /\ pc = from
    /\ \/ pc' = to /\ file' = written
       \/ pc' = "failed" /\ file' \in {file, written}
    /\ delivered' = delivered /\ licences' = licences /\ replaced' = replaced

LEMMA Outcomes ==
    ASSUME Next
    PROVE  \/ Goes("compare", "summarise", file)
           \/ Goes("summarise", "build", Summaries(file, Head))
           \/ Goes("build", "pack", Build(file, Head))
           \/ Goes("pack", "manifest", Pack(file))
           \/ Goes("manifest", "sbom", Manifest(file)) /\ GenerateManifest
           \/ Goes("sbom", "policy", Sbom(file))
           \/ Goes("policy", "texts", Policy(file, WithoutTexts(licences)))
           \/ Goes("texts", "assemble", Policy(file, licences)) /\ LicenceTexts
           \/ Goes("assemble", "revalidate", Bundle(file))
           \/ Goes("revalidate", "revalidate-sbom", file)
           \/ Goes("revalidate-sbom", "revalidate-policy", file) /\ RevalidateSbom
           \/ Goes("revalidate-policy", "verify", file)
           \/ Goes("verify", "accepted", file) /\ VerifyBundle
           \/ Replace
<1>1. CASE CompareIos
  BY <1>1 DEF CompareIos, Check, Step, Goes
<1>2. CASE Summarise
  BY <1>2 DEF Summarise, Step, Goes
<1>3. CASE BuildPackage
  BY <1>3 DEF BuildPackage, Step, Goes
<1>4. CASE PackTarball
  BY <1>4 DEF PackTarball, Step, Goes
<1>5. CASE GenerateManifest
  BY <1>5 DEF GenerateManifest, Step, Goes
<1>6. CASE GenerateSbom
  BY <1>6 DEF GenerateSbom, Step, Goes
<1>7. CASE LicencePolicy
  BY <1>7 DEF LicencePolicy, GeneratePolicy, Step, Goes
<1>8. CASE LicenceTexts
  BY <1>8 DEF LicenceTexts, GeneratePolicy, Step, Goes
<1>9. CASE Assemble
  BY <1>9 DEF Assemble, Step, Goes
<1>10. CASE RevalidateManifest
  BY <1>10 DEF RevalidateManifest, Check, Step, Goes
<1>11. CASE RevalidateSbom
  BY <1>11 DEF RevalidateSbom, Check, Step, Goes
<1>12. CASE RevalidatePolicy
  BY <1>12 DEF RevalidatePolicy, Check, Step, Goes
<1>13. CASE VerifyBundle
  BY <1>13 DEF VerifyBundle, Check, Step, Goes
<1>14. CASE Replace
  BY <1>14
<1> QED
  BY <1>1, <1>2, <1>3, <1>4, <1>5, <1>6, <1>7, <1>8, <1>9, <1>10, <1>11, <1>12, <1>13, <1>14
     DEF Next

(* What Replace does to the file at n, and to every other. *)
Exchanged(b, n) ==
    /\ pc' = pc /\ delivered' = delivered /\ licences' = licences
    /\ pc \notin {"accepted", "failed"}
    /\ replaced' = replaced + 1
    /\ file[n] # OfRun[b][n]
    /\ IsFiles(file')
    /\ file'[n] = OfRun[b][n]
    /\ \A k \in Names : k # n => file'[k] = file[k]

LEMMA ReplaceExchanges ==
    ASSUME IsFiles(file), Replace
    PROVE  \E b \in Builds, n \in Names : Exchanged(b, n)
<1>1. PICK b \in Builds, n \in Names :
        /\ file[n] # OfRun[b][n]
        /\ file' = [file EXCEPT ![n] = OfRun[b][n]]
  BY DEF Replace
<1> DEFINE v == OfRun[b][n]
<1>2. file' = [file EXCEPT ![n] = v] /\ file[n] # v
  BY <1>1
<1> HIDE DEF v
<1>3. IsFiles(file') /\ file'[n] = v /\ \A k \in Names : k # n => file'[k] = file[k]
  BY <1>2 DEF IsFiles
<1>4. Exchanged(b, n)
  BY <1>2, <1>3 DEF v, Exchanged, Replace
<1> QED
  BY <1>4

LEMMA NextShape == ASSUME Shape, [Next]_vars PROVE Shape'
<1>0. CASE UNCHANGED vars
  BY <1>0 DEF vars, Shape, IsFiles
<1> SUFFICES ASSUME Next PROVE Shape'
  BY <1>0
<1>1. ASSUME NEW from, NEW to \in {"summarise"} \cup FromBuild, NEW g, IsFiles(g),
             Goes(from, to, g)
      PROVE  Shape'
  <2>1. IsFiles(file)'
    BY <1>1 DEF Goes, Shape, IsFiles
  <2> QED
    BY <1>1, <2>1 DEF Goes, Shape
<1>2. CASE Replace
  BY <1>2, ReplaceExchanges DEF Exchanged, Shape
<1>3. IsFiles(file)
  BY DEF Shape
<1>4. /\ IsFiles(Summaries(file, Head)) /\ IsFiles(Build(file, Head)) /\ IsFiles(Pack(file))
      /\ IsFiles(Manifest(file)) /\ IsFiles(Sbom(file)) /\ IsFiles(Bundle(file))
      /\ IsFiles(Policy(file, licences)) /\ IsFiles(Policy(file, WithoutTexts(licences)))
  BY <1>3, ReadSummaries, ReadBuild, ReadPack, ReadManifest, ReadSbom, ReadBundle, ReadPolicy
<1> QED
  BY <1>1, <1>2, <1>3, <1>4, Outcomes
     DEF FromBuild, FromPack, FromManifest, FromSbom, FromPolicy, FromAssemble, Finished

-----------------------------------------------------------------------------
(* The run's own files *)

LEMMA InitOwnFiles == Init => OwnFiles
BY DeliveredWrites DEF Init, OwnFiles, FromBuild, FromPack, FromManifest, FromSbom, FromPolicy,
                       FromAssemble, Finished

LEMMA NextOwnFiles == ASSUME Shape, OwnFiles, [Next]_vars PROVE OwnFiles'
<1>0. CASE UNCHANGED vars
  BY <1>0 DEF vars, OwnFiles, InputFacts, SummaryFacts, PackageFacts, TarballFacts, ManifestFacts,
              SbomFacts, PolicyFacts, BundleFacts
<1> SUFFICES ASSUME Next, replaced' = 0 PROVE OwnFiles'
  BY <1>0 DEF OwnFiles
<1> USE DEF FromBuild, FromPack, FromManifest, FromSbom, FromPolicy, FromAssemble, Finished
<1>1. IsFiles(file)
  BY DEF Shape

<1>2. CASE Goes("compare", "summarise", file)
  BY <1>2 DEF Goes, OwnFiles
<1>3. CASE Goes("summarise", "build", Summaries(file, Head))
  <2>1. InputFacts(file, delivered, Head)
    BY <1>3 DEF Goes, OwnFiles
  <2>2. /\ InputFacts(Summaries(file, Head), delivered, Head)
        /\ SummaryFacts(Summaries(file, Head), delivered, Head)
    BY <1>1, <2>1, SummariesWrites
  <2> QED
    BY <1>3, <2>1, <2>2 DEF Goes, OwnFiles
<1>4. CASE Goes("build", "pack", Build(file, Head))
  <2>1. InputFacts(file, delivered, Head) /\ SummaryFacts(file, delivered, Head)
    BY <1>4 DEF Goes, OwnFiles
  <2>2. /\ InputFacts(Build(file, Head), delivered, Head)
        /\ SummaryFacts(Build(file, Head), delivered, Head)
        /\ PackageFacts(Build(file, Head), delivered, Head)
    BY <1>1, <2>1, BuildWrites
  <2> QED
    BY <1>4, <2>1, <2>2 DEF Goes, OwnFiles
<1>5. CASE Goes("pack", "manifest", Pack(file))
  <2>1. BuiltFacts(file, delivered, Head)
    BY <1>5 DEF Goes, OwnFiles, BuiltFacts
  <2>2. BuiltFacts(Pack(file), delivered, Head) /\ TarballFacts(Pack(file), delivered, Head)
    BY <1>1, <2>1, PackWrites
  <2> QED
    BY <1>5, <2>1, <2>2 DEF Goes, OwnFiles, BuiltFacts
<1>6. CASE Goes("manifest", "sbom", Manifest(file))
  <2>1. BuiltFacts(file, delivered, Head) /\ TarballFacts(file, delivered, Head)
    BY <1>6 DEF Goes, OwnFiles, BuiltFacts
  <2>2. /\ BuiltFacts(Manifest(file), delivered, Head)
        /\ TarballFacts(Manifest(file), delivered, Head)
        /\ ManifestFacts(Manifest(file), delivered, Head)
    BY <1>1, <2>1, ManifestWrites
  <2> QED
    BY <1>6, <2>1, <2>2 DEF Goes, OwnFiles, BuiltFacts
<1>7. CASE Goes("sbom", "policy", Sbom(file))
  <2>1. /\ BuiltFacts(file, delivered, Head) /\ TarballFacts(file, delivered, Head)
        /\ ManifestFacts(file, delivered, Head)
    BY <1>7 DEF Goes, OwnFiles, BuiltFacts
  <2>2. /\ BuiltFacts(Sbom(file), delivered, Head) /\ TarballFacts(Sbom(file), delivered, Head)
        /\ ManifestFacts(Sbom(file), delivered, Head) /\ SbomFacts(Sbom(file), delivered, Head)
    BY <1>1, <2>1, SbomWrites
  <2> QED
    BY <1>7, <2>1, <2>2 DEF Goes, OwnFiles, BuiltFacts
<1>8. ASSUME pc \in {"policy", "texts"}, replaced = 0, NEW l
      PROVE  LET g == Policy(file, l)
             IN  /\ BuiltFacts(file, delivered, Head)
                 /\ BuiltFacts(g, delivered, Head) /\ TarballFacts(g, delivered, Head)
                 /\ ManifestFacts(g, delivered, Head) /\ SbomFacts(g, delivered, Head)
                 /\ PolicyFacts(g, delivered, Head, l)
  <2>1. /\ BuiltFacts(file, delivered, Head) /\ TarballFacts(file, delivered, Head)
        /\ ManifestFacts(file, delivered, Head) /\ SbomFacts(file, delivered, Head)
    BY <1>8 DEF OwnFiles, BuiltFacts
  <2> QED
    BY <1>1, <2>1, PolicyWrites
<1>9. CASE Goes("policy", "texts", Policy(file, WithoutTexts(licences)))
  BY <1>8, <1>9 DEF Goes, OwnFiles, BuiltFacts
<1>10. CASE Goes("texts", "assemble", Policy(file, licences))
  BY <1>8, <1>10 DEF Goes, OwnFiles, BuiltFacts
<1>11. CASE Goes("assemble", "revalidate", Bundle(file))
  <2>1. /\ BuiltFacts(file, delivered, Head) /\ TarballFacts(file, delivered, Head)
        /\ ManifestFacts(file, delivered, Head) /\ SbomFacts(file, delivered, Head)
        /\ PolicyFacts(file, delivered, Head, licences)
    BY <1>11 DEF Goes, OwnFiles, BuiltFacts
  <2> DEFINE g == Bundle(file)
  <2>2. /\ BuiltFacts(g, delivered, Head) /\ TarballFacts(g, delivered, Head)
        /\ ManifestFacts(g, delivered, Head) /\ SbomFacts(g, delivered, Head)
        /\ PolicyFacts(g, delivered, Head, licences) /\ BundleFacts(g, delivered, Head)
    BY <1>1, <2>1, BundleWrites
  <2> QED
    BY <1>11, <2>1, <2>2 DEF Goes, OwnFiles, BuiltFacts
<1>12. CASE \/ Goes("revalidate", "revalidate-sbom", file)
            \/ Goes("revalidate-sbom", "revalidate-policy", file)
            \/ Goes("revalidate-policy", "verify", file)
            \/ Goes("verify", "accepted", file)
  BY <1>12 DEF Goes, OwnFiles
<1>13. CASE Replace
  BY <1>13 DEF Replace, Shape
<1> QED
  BY <1>2, <1>3, <1>4, <1>5, <1>6, <1>7, <1>9, <1>10, <1>11, <1>12, <1>13, Outcomes

-----------------------------------------------------------------------------
(* A clean run is accepted *)

LEMMA NextCleanRunAccepted ==
    ASSUME Shape, OwnFiles, CleanRunAccepted, [Next]_vars
    PROVE  CleanRunAccepted'
<1>0. CASE UNCHANGED vars
  BY <1>0 DEF vars, CleanRunAccepted
<1>1. CASE Replace
  BY <1>1 DEF Replace, CleanRunAccepted
<1> SUFFICES ASSUME Next, ~Replace, pc' = "failed", replaced' = 0, Good(delivered'),
                    enforceLicensePolicy(licences', TRUE)
             PROVE  FALSE
  <2>1. replaced' \in Nat /\ replaced' # 0 => replaced' > 0
    OBVIOUS
  <2>2. replaced' \in Nat
    BY NextShape DEF Shape
  <2> QED
    BY <1>0, <1>1, <2>1, <2>2 DEF CleanRunAccepted, Good
<1>2. /\ replaced = 0 /\ Good(delivered) /\ enforceLicensePolicy(licences, TRUE)
      /\ pc # "failed" /\ IsFiles(file)
  BY Outcomes DEF Goes, Shape
<1> USE DEF FromBuild, FromPack, FromManifest, FromSbom, FromPolicy, FromAssemble, Finished
<1> DEFINE d == delivered
<1>3. /\ InputFacts(file, d, Head)
      /\ pc \in FromPack => BuiltFacts(file, d, Head)
      /\ pc \in FromManifest => TarballFacts(file, d, Head)
      /\ pc \in FromSbom => ManifestFacts(file, d, Head)
      /\ pc \in FromPolicy => SbomFacts(file, d, Head)
      /\ pc \in FromAssemble => PolicyFacts(file, d, Head, licences)
      /\ pc \in Finished => BundleFacts(file, d, Head)
  BY <1>2 DEF OwnFiles, BuiltFacts
<1>4. ~CompareIos
  <2>1. ReproducibleIos(file)
    BY <1>3, PartsFacts DEF ReproducibleIos, InputFacts
  <2> QED
    BY <2>1 DEF CompareIos, Check, Step
<1>5. ~Summarise
  <2>1. validateNative(file) /\ validateWasm(file, Head, Rustc)
    BY <1>2, <1>3, GoodInputs
  <2> QED
    BY <2>1 DEF Summarise, Step
<1>6. ~BuildPackage
  <2> SUFFICES ASSUME pc = "build" PROVE ~BuildPackage
    BY DEF BuildPackage, Step
  <2>1. validateReactNativeInputs(file)
    BY <1>2, <1>3, GoodInputs
  <2>2. SummaryFacts(file, d, Head)
    BY <1>2 DEF OwnFiles
  <2>3. PackageFacts(Build(file, Head), d, Head)
    BY <1>2, <1>3, <2>2, BuildWrites
  <2>4. validatePackageContents(Package(Build(file, Head)))
    BY <2>3, PackageIs, GoodPackage
  <2> QED
    BY <2>1, <2>4 DEF BuildPackage, Step
<1>7. ~PackTarball
  <2> SUFFICES ASSUME pc = "pack" PROVE ~PackTarball
    BY DEF PackTarball, Step
  <2>1. validatePackageContents(Package(file))
    BY <1>3, PackageIs, GoodPackage DEF BuiltFacts
  <2> QED
    BY <2>1 DEF PackTarball, Step
<1>8. ASSUME NEW f, NEW dir \in {"release-input", "release-output"}, BuiltFacts(f, d, Head),
             TarballFacts(f, d, Head), ManifestFacts(f, d, Head),
             dir = "release-output" => BundleFacts(f, d, Head)
      PROVE  validateReleaseManifest(f, dir)
  <2>1. Context(f, dir) = ContextOf(d, Head)
    BY <1>8, InputContextIs, OutputContextIs
  <2> QED
    BY <1>2, <1>8, <2>1, GoodManifest DEF validateReleaseManifest, ManifestFacts
<1>9. ~GenerateManifest
  <2> SUFFICES ASSUME pc = "manifest" PROVE ~GenerateManifest
    BY DEF GenerateManifest, Step
  <2>1. EvidenceAgrees(Context(file, "release-input"))
    BY <1>2, <1>3, InputContextIs, GoodContext
  <2>2. /\ BuiltFacts(Manifest(file), d, Head) /\ TarballFacts(Manifest(file), d, Head)
        /\ ManifestFacts(Manifest(file), d, Head)
    BY <1>2, <1>3, ManifestWrites
  <2>3. validateReleaseManifest(Manifest(file), "release-input")
    BY <1>8, <2>2
  <2> QED
    BY <2>1, <2>3 DEF GenerateManifest, Step
<1>10. ~GenerateSbom
  <2> SUFFICES ASSUME pc = "sbom" PROVE ~GenerateSbom
    BY DEF GenerateSbom, Step
  <2>1. validateReleaseManifest(file, "release-input")
    BY <1>3, <1>8
  <2>2. ManifestFacts(Sbom(file), d, Head) /\ SbomFacts(Sbom(file), d, Head)
    BY <1>2, <1>3, SbomWrites
  <2>3. SbomValid(Sbom(file))
    BY <2>2, GoodSbom
  <2> QED
    BY <2>1, <2>3 DEF GenerateSbom, Step
<1>11. ASSUME pc \in {"policy", "texts"}, NEW l, NEW requireText \in BOOLEAN,
              enforceLicensePolicy(l, requireText)
       PROVE  /\ validateSbomSums(file) /\ validateInventoryAndSbom(file)
              /\ PolicyValid(Policy(file, l), l, requireText)
  <2>1. /\ BuiltFacts(file, d, Head) /\ TarballFacts(file, d, Head)
        /\ ManifestFacts(file, d, Head) /\ SbomFacts(file, d, Head)
    BY <1>3, <1>11
  <2>2. validateSbomSums(file) /\ validateInventoryAndSbom(file)
    BY <2>1, GoodSbom
  <2>3. /\ IsFiles(Policy(file, l)) /\ SbomFacts(Policy(file, l), d, Head)
        /\ PolicyFacts(Policy(file, l), d, Head, l)
    BY <1>2, <2>1, PolicyWrites, ReadPolicy
  <2>4. PolicyValid(Policy(file, l), l, requireText)
    BY <1>11, <2>3, GoodPolicy
  <2> QED
    BY <2>2, <2>4
<1>12. ~LicencePolicy
  <2>1. enforceLicensePolicy(WithoutTexts(licences), FALSE)
    BY <1>2 DEF enforceLicensePolicy, WithoutTexts
  <2> SUFFICES ASSUME pc = "policy" PROVE ~LicencePolicy
    BY DEF LicencePolicy, GeneratePolicy, Step
  <2> QED
    BY <1>11, <2>1 DEF LicencePolicy, GeneratePolicy, Step
<1>13. ~LicenceTexts
  <2> SUFFICES ASSUME pc = "texts" PROVE ~LicenceTexts
    BY DEF LicenceTexts, GeneratePolicy, Step
  <2> QED
    BY <1>2, <1>11 DEF LicenceTexts, GeneratePolicy, Step
<1>14. ~Assemble
  BY DEF Assemble, Step
<1>15. ASSUME pc \in Finished
       PROVE  /\ validateReleaseManifest(file, "release-output") /\ SbomValid(file)
              /\ validateSbomSums(file) /\ validateInventoryAndSbom(file)
              /\ PolicyValid(file, licences, TRUE) /\ validateReleaseBundle(file)
  <2>1. /\ BuiltFacts(file, d, Head) /\ TarballFacts(file, d, Head)
        /\ ManifestFacts(file, d, Head) /\ SbomFacts(file, d, Head)
        /\ PolicyFacts(file, d, Head, licences) /\ BundleFacts(file, d, Head)
    BY <1>3, <1>15
  <2>2. validateReleaseManifest(file, "release-output")
    BY <1>8, <2>1
  <2>3. SbomValid(file) /\ validateSbomSums(file) /\ validateInventoryAndSbom(file)
    BY <2>1, GoodSbom
  <2>4. PolicyValid(file, licences, TRUE)
    BY <1>2, <2>1, GoodPolicy
  <2>5. validateReleaseBundle(file)
    BY <1>2, <2>1, GoodBundle
  <2> QED
    BY <2>2, <2>3, <2>4, <2>5
<1>16. ~RevalidateManifest
  BY <1>15 DEF RevalidateManifest, Check, Step
<1>17. ~RevalidateSbom
  BY <1>15 DEF RevalidateSbom, Check, Step
<1>18. ~RevalidatePolicy
  BY <1>15 DEF RevalidatePolicy, Check, Step
<1>19. ~VerifyBundle
  BY <1>15 DEF VerifyBundle, Check, Step
<1> QED
  BY <1>4, <1>5, <1>6, <1>7, <1>9, <1>10, <1>12, <1>13, <1>14, <1>16, <1>17, <1>18, <1>19
     DEF Next

-----------------------------------------------------------------------------
(* Evidence and manifest tell the truth *)

(* No step writes evidence to release-input; no step writes the manifest again. *)
LEMMA EvidenceKept ==
    ASSUME NEW f, IsFiles(f), NEW p \in Parts, NEW l
    PROVE  /\ Summaries(f, Head)[In("evidence", p)] = f[In("evidence", p)]
           /\ Build(f, Head)[In("evidence", p)] = f[In("evidence", p)]
           /\ Pack(f)[In("evidence", p)] = f[In("evidence", p)]
           /\ Manifest(f)[In("evidence", p)] = f[In("evidence", p)]
           /\ Sbom(f)[In("evidence", p)] = f[In("evidence", p)]
           /\ Policy(f, l)[In("evidence", p)] = f[In("evidence", p)]
           /\ Bundle(f)[In("evidence", p)] = f[In("evidence", p)]
<1>0. In("evidence", p) \in Names
  BY InNames
<1>1. Summaries(f, Head)[In("evidence", p)] = f[In("evidence", p)]
  BY <1>0, ReadSummaries DEF In, Summary
<1>2. Build(f, Head)[In("evidence", p)] = f[In("evidence", p)]
  BY <1>0, ReadBuild DEF In
<1>3. Pack(f)[In("evidence", p)] = f[In("evidence", p)]
  BY <1>0, ReadPack DEF In, Out
<1>4. Manifest(f)[In("evidence", p)] = f[In("evidence", p)]
  BY <1>0, ReadManifest DEF In, Out
<1>5. Sbom(f)[In("evidence", p)] = f[In("evidence", p)]
  BY <1>0, ReadSbom DEF In, Out
<1>6. Policy(f, l)[In("evidence", p)] = f[In("evidence", p)]
  BY <1>0, ReadPolicy DEF In, Out
<1>7. Bundle(f)[In("evidence", p)] = f[In("evidence", p)]
  BY <1>0, ReadBundle DEF In, Out, Copied
<1> QED
  BY <1>1, <1>2, <1>3, <1>4, <1>5, <1>6, <1>7

LEMMA ManifestKept ==
    ASSUME NEW f, IsFiles(f), NEW l
    PROVE  /\ Sbom(f)[Out("manifest", Every)] = f[Out("manifest", Every)]
           /\ Policy(f, l)[Out("manifest", Every)] = f[Out("manifest", Every)]
           /\ Bundle(f)[Out("manifest", Every)] = f[Out("manifest", Every)]
<1>1. Sbom(f)[Out("manifest", Every)] = f[Out("manifest", Every)]
  BY ReadSbom, OutNames DEF Out
<1>2. Policy(f, l)[Out("manifest", Every)] = f[Out("manifest", Every)]
  BY ReadPolicy, OutNames DEF Out
<1>3. Bundle(f)[Out("manifest", Every)] = f[Out("manifest", Every)]
  BY ReadBundle, OutNames DEF Out, Copied, Summary
<1> QED
  BY <1>1, <1>2, <1>3

(* What the checks of release-manifest.mjs leave of the evidence they agree on. *)
LEMMA AgreedManifest ==
    ASSUME NEW f, EvidenceAgrees(Context(f, "release-input")),
           \A p \in Parts : TrueEvidence(f[In("evidence", p)], p)
    PROVE  LET m == createReleaseManifest(Context(f, "release-input"))
           IN  /\ TrueManifest(m)
               /\ m.wasm = f[Dist("bin", "wasm")]
               /\ m.wasmSource = f[In("evidence", "wasm")]
               /\ f[In("evidence", "wasm")].sha = f[In("bin", "wasm")]
               /\ f[Dist("bin", "wasm")] = f[Dist("wasm-manifest", Every)]
<1> DEFINE c == Context(f, "release-input")
           m == createReleaseManifest(c)
<1>1. c.package = Package(f)
  BY DEF Context
<1>2. \A p \in Parts : c.evidence[p] = f[In("evidence", p)]
  <2>1. c.evidence = [p \in Parts |-> f[<<"release-input", "evidence", p>>]]
    BY DEF Context
  <2> HIDE DEF c
  <2> QED
    BY <2>1 DEF In
<1>3. c.bin["wasm"] = f[In("bin", "wasm")]
  <2>1. c.bin = [p \in Parts |-> IF p \in Native THEN f[<<"release-input", "bin", p>>]
                                 ELSE f[In("bin", p)]]
    BY DEF Context
  <2> HIDE DEF c
  <2> QED
    BY <2>1, PartsFacts
<1>4. EvidenceAgrees(c)
  OBVIOUS
<1> HIDE DEF c
<1>5. /\ m.native = [p \in Native |-> c.nativeSummary.targets[p]]
      /\ m.wasmSource = c.wasmSummary
      /\ m.wasm = c.package.bin["wasm"]
  BY DEF createReleaseManifest
<1> HIDE DEF m
<1>6. \A p \in Native : /\ m.native[p] = f[In("evidence", p)]
                        /\ m.native[p].tool = c.nativeSummary.tool
  BY <1>2, <1>4, <1>5, PartsFacts DEF EvidenceAgrees, readNativeEvidenceSet
<1>7. /\ m.wasmSource = f[In("evidence", "wasm")]
      /\ m.wasmSource.sha = f[In("bin", "wasm")]
      /\ m.wasmSource.tool = c.nativeSummary.tool
  BY <1>2, <1>3, <1>4, <1>5, PartsFacts
     DEF EvidenceAgrees, validateWasmEvidence, validateToolchains
<1>8. /\ Package(f).bin["wasm"] = f[Dist("bin", "wasm")]
      /\ Package(f).wasm = f[Dist("wasm-manifest", Every)]
  BY PartsFacts DEF Package
<1>9. Package(f).bin["wasm"] = Package(f).wasm
  BY <1>1, <1>4 DEF EvidenceAgrees, packageRuntimeManifest, validatePackageContents
<1>10. TrueManifest(m)
  BY <1>6, <1>7, PartsFacts DEF TrueManifest
<1>11. m.wasm = f[Dist("bin", "wasm")]
  BY <1>1, <1>5, <1>8
<1> QED
  BY <1>7, <1>8, <1>9, <1>10, <1>11 DEF m, c

LEMMA OfRunTrue ==
    ASSUME NEW b \in Builds
    PROVE  /\ \A p \in Parts : /\ OfRun[b][In("evidence", p)] = Evidence(p, b)
                               /\ OfRun[b][Out("evidence", p)] = Evidence(p, b)
           /\ TrueManifest(OfRun[b][Out("manifest", Every)])
           /\ WasmOfSource(OfRun[b][Out("manifest", Every)])
<1> DEFINE d == Whole(b)
           h == b.commit
           m == ManifestOf(d, h)
<1>1. \A p \in Parts : d[p] = b
  BY DEF Whole
<1>2. \A p \in Parts : /\ OfRun[b][In("evidence", p)] = Evidence(p, b)
                       /\ OfRun[b][Out("evidence", p)] = Evidence(p, b)
  BY <1>1, OfRunFacts DEF BuiltFacts, InputFacts, BundleFacts
<1>3. OfRun[b][Out("manifest", Every)] = m
  BY OfRunFacts DEF ManifestFacts
<1> HIDE DEF d, h
<1>4. /\ m.native = [p \in Native |-> Evidence(p, d[p])]
      /\ m.wasmSource = Evidence("wasm", d["wasm"])
      /\ m.wasm = runWasmBindgen(d["wasm"])
  BY DEF ManifestOf
<1> HIDE DEF m
<1>5. /\ \A p \in Native : m.native[p] = Evidence(p, b)
      /\ m.wasmSource = Evidence("wasm", b)
      /\ m.wasm = runWasmBindgen(b)
  BY <1>1, <1>4, PartsFacts
<1>6. \A p \in Native : m.native[p].tool = m.wasmSource.tool
  BY <1>5, EvidenceFields
<1>7. TrueManifest(m)
  BY <1>5, <1>6 DEF TrueManifest, TrueEvidence
<1>8. WasmOfSource(m)
  BY <1>5, EvidenceFields DEF WasmOfSource
<1> QED
  BY <1>2, <1>3, <1>7, <1>8

LEMMA InitTruthful == Init => Truthful
<1> SUFFICES ASSUME Init PROVE Truthful
  OBVIOUS
<1>1. ASSUME NEW p \in Parts PROVE TrueEvidence(file[In("evidence", p)], p)
  <2>1. file = Delivered(delivered, Head)
    BY DEF Init
  <2>2. delivered[p] \in Builds
    BY InitShape DEF Shape
  <2>3. file[In("evidence", p)] = Evidence(p, delivered[p])
    BY <2>1, ReadDelivered
  <2> QED
    BY <2>2, <2>3 DEF TrueEvidence
<1> QED
  BY <1>1 DEF Init, Truthful, FromSbom, FromPolicy, FromAssemble, Finished

LEMMA NextTruthful == ASSUME Shape, Truthful, [Next]_vars PROVE Truthful'
<1>0. CASE UNCHANGED vars
  BY <1>0 DEF vars, Truthful, TrueManifest, TrueEvidence
<1> SUFFICES ASSUME Next PROVE Truthful'
  BY <1>0
<1> USE DEF FromBuild, FromPack, FromManifest, FromSbom, FromPolicy, FromAssemble, Finished
<1>1. IsFiles(file)
  BY DEF Shape
<1>2. CASE \/ Goes("compare", "summarise", file)
           \/ Goes("revalidate", "revalidate-sbom", file)
           \/ Goes("revalidate-sbom", "revalidate-policy", file)
           \/ Goes("revalidate-policy", "verify", file)
           \/ Goes("verify", "accepted", file)
  BY <1>2 DEF Goes, Truthful
<1>3. CASE Goes("summarise", "build", Summaries(file, Head))
  BY <1>1, <1>3, EvidenceKept DEF Goes, Truthful
<1>4. CASE Goes("build", "pack", Build(file, Head))
  BY <1>1, <1>4, EvidenceKept DEF Goes, Truthful
<1>5. CASE Goes("pack", "manifest", Pack(file))
  BY <1>1, <1>5, EvidenceKept DEF Goes, Truthful
<1>6. CASE GenerateManifest
  <2>1. Goes("manifest", "sbom", Manifest(file))
    BY <1>6 DEF GenerateManifest, Step, Goes
  <2>2. pc' = "sbom" => TrueManifest(Manifest(file)[Out("manifest", Every)])
    BY <1>1, <1>6, AgreedManifest, ReadManifest DEF GenerateManifest, Step, Truthful
  <2> QED
    BY <1>1, <2>1, <2>2, EvidenceKept DEF Goes, Truthful
<1>7. CASE Goes("sbom", "policy", Sbom(file))
  BY <1>1, <1>7, EvidenceKept, ManifestKept DEF Goes, Truthful
<1>8. CASE Goes("policy", "texts", Policy(file, WithoutTexts(licences)))
  BY <1>1, <1>8, EvidenceKept, ManifestKept DEF Goes, Truthful
<1>9. CASE Goes("texts", "assemble", Policy(file, licences))
  BY <1>1, <1>9, EvidenceKept, ManifestKept DEF Goes, Truthful
<1>10. CASE Goes("assemble", "revalidate", Bundle(file))
  <2>1. \A p \in Parts : Bundle(file)[Out("evidence", p)] = file[In("evidence", p)]
    BY <1>1, ReadBundle
  <2> QED
    BY <1>1, <1>10, <2>1, EvidenceKept, ManifestKept DEF Goes, Truthful
<1>11. CASE Replace
  <2>1. PICK b \in Builds, n \in Names : Exchanged(b, n)
    BY <1>1, <1>11, ReplaceExchanges
  <2>2. ASSUME NEW k \in Names PROVE file'[k] \in {file[k], OfRun[b][k]}
    BY <2>1 DEF Exchanged
  <2>3. \A p \in Parts : TrueEvidence(file'[In("evidence", p)], p)
    BY <2>2, InNames, OfRunTrue DEF Truthful, TrueEvidence
  <2>4. pc \in FromSbom => TrueManifest(file'[Out("manifest", Every)])
    BY <2>2, OutNames, OfRunTrue DEF Truthful
  <2>5. pc \in Finished => \A p \in Parts : TrueEvidence(file'[Out("evidence", p)], p)
    BY <2>2, OutNames, OfRunTrue DEF Truthful, TrueEvidence
  <2> QED
    BY <2>1, <2>3, <2>4, <2>5 DEF Truthful, Exchanged
<1> QED
  BY <1>2, <1>3, <1>4, <1>5, <1>6, <1>7, <1>8, <1>9, <1>10, <1>11, Outcomes

-----------------------------------------------------------------------------
(* The ties that one exchanged file cannot cut unseen *)

LEMMA NextWasmTied ==
    ASSUME Shape, OwnFiles, Truthful, WasmTied, [Next]_vars
    PROVE  WasmTied'
<1>0. CASE UNCHANGED vars
  BY <1>0 DEF vars, WasmTied, WasmOfSource
<1> SUFFICES ASSUME Next PROVE WasmTied'
  BY <1>0
<1> USE DEF FromBuild, FromPack, FromManifest, FromSbom, FromPolicy, FromAssemble, Finished
<1>1. IsFiles(file)
  BY DEF Shape
<1>2. CASE \/ Goes("compare", "summarise", file)
           \/ Goes("summarise", "build", Summaries(file, Head))
           \/ Goes("revalidate", "revalidate-sbom", file)
           \/ Goes("revalidate-sbom", "revalidate-policy", file)
           \/ Goes("revalidate-policy", "verify", file)
           \/ Goes("verify", "accepted", file)
  BY <1>2 DEF Goes, WasmTied
<1>3. CASE Goes("build", "pack", Build(file, Head))
  <2>1. Build(file, Head)[Dist("bin", "wasm")] = runWasmBindgen(file[In("bin", "wasm")])
    BY <1>1, ReadBuild, PartsFacts DEF Packaged
  <2>2. Build(file, Head)[In("bin", "wasm")] = file[In("bin", "wasm")]
    BY <1>1, ReadBuild, InNames, PartsFacts DEF In
  <2> QED
    BY <1>3, <2>1, <2>2 DEF Goes, WasmTied
<1>4. CASE Goes("pack", "manifest", Pack(file))
  <2>1. /\ Pack(file)[Dist("bin", "wasm")] = file[Dist("bin", "wasm")]
        /\ Pack(file)[Dist("wasm-manifest", Every)] = file[Dist("wasm-manifest", Every)]
        /\ Pack(file)[In("evidence", "wasm")] = file[In("evidence", "wasm")]
        /\ Pack(file)[In("bin", "wasm")] = file[In("bin", "wasm")]
    BY <1>1, ReadPack, InNames, DistNames, PartsFacts DEF In, Dist, Out
  <2> QED
    BY <1>4, <2>1 DEF Goes, WasmTied
<1>5. CASE GenerateManifest
  <2>1. Goes("manifest", "sbom", Manifest(file))
    BY <1>5 DEF GenerateManifest, Step, Goes
  <2>2. ASSUME pc' = "sbom", replaced <= 1
        PROVE  WasmOfSource(Manifest(file)[Out("manifest", Every)])
    <3> DEFINE m == createReleaseManifest(Context(file, "release-input"))
    <3>1. EvidenceAgrees(Context(file, "release-input"))
      BY <1>5, <2>2 DEF GenerateManifest, Step
    <3>2. /\ m.wasm = file[Dist("bin", "wasm")]
          /\ m.wasmSource = file[In("evidence", "wasm")]
          /\ file[In("evidence", "wasm")].sha = file[In("bin", "wasm")]
          /\ file[Dist("bin", "wasm")] = file[Dist("wasm-manifest", Every)]
      BY <3>1, AgreedManifest DEF Truthful
    <3>3. Manifest(file)[Out("manifest", Every)] = m
      BY <1>1, ReadManifest
    <3> HIDE DEF m
    <3> QED
      BY <2>1, <2>2, <3>2, <3>3 DEF WasmTied, WasmOfSource, Goes
  <2> QED
    BY <2>1, <2>2 DEF Goes, WasmTied
<1>6. CASE Goes("sbom", "policy", Sbom(file))
  BY <1>1, <1>6, ManifestKept DEF Goes, WasmTied
<1>7. CASE Goes("policy", "texts", Policy(file, WithoutTexts(licences)))
  BY <1>1, <1>7, ManifestKept DEF Goes, WasmTied
<1>8. CASE Goes("texts", "assemble", Policy(file, licences))
  BY <1>1, <1>8, ManifestKept DEF Goes, WasmTied
<1>9. CASE Goes("assemble", "revalidate", Bundle(file))
  BY <1>1, <1>9, ManifestKept DEF Goes, WasmTied
<1>10. CASE Replace
  <2>1. PICK b \in Builds, n \in Names : Exchanged(b, n)
    BY <1>1, <1>10, ReplaceExchanges
  <2> SUFFICES ASSUME replaced' <= 1 PROVE WasmTied'
    BY DEF WasmTied
  <2>2. replaced = 0
    BY <2>1 DEF Exchanged, Shape
  <2>3. ASSUME pc \in FromSbom PROVE WasmOfSource(file'[Out("manifest", Every)])
    BY <2>1, <2>2, <2>3, OutNames, OfRunTrue DEF Exchanged, WasmTied
  <2>4. ASSUME pc \in {"pack", "manifest"},
               file'[Dist("bin", "wasm")] = file'[Dist("wasm-manifest", Every)],
               file'[In("evidence", "wasm")].sha = file'[In("bin", "wasm")]
        PROVE  file'[Dist("bin", "wasm")] = runWasmBindgen(file'[In("bin", "wasm")])
    <3> DEFINE w == delivered["wasm"]
    <3>1. /\ file[In("bin", "wasm")] = w
          /\ file[In("evidence", "wasm")] = Evidence("wasm", w)
      BY <2>2, PartsFacts DEF OwnFiles, InputFacts
    <3>2. /\ file[Dist("bin", "wasm")] = runWasmBindgen(w)
          /\ file[Dist("wasm-manifest", Every)] = runWasmBindgen(w)
      BY <2>2, <2>4, PartsFacts, PackageFields DEF OwnFiles, PackageFacts
    <3>3. /\ In("bin", "wasm") \in Names /\ In("evidence", "wasm") \in Names
          /\ Dist("bin", "wasm") \in Names /\ Dist("wasm-manifest", Every) \in Names
      BY InNames, DistNames, PartsFacts
    <3>4. /\ In("bin", "wasm") # In("evidence", "wasm")
          /\ Dist("bin", "wasm") # Dist("wasm-manifest", Every)
      BY DEF In, Dist
    <3>5. OfRun[b][In("evidence", "wasm")] = Evidence("wasm", b)
      BY OfRunTrue, PartsFacts
    <3> HIDE DEF w
    <3>6. n # In("bin", "wasm")
      BY <2>1, <2>4, <3>1, <3>3, <3>4, EvidenceFields DEF Exchanged
    <3>7. n # In("evidence", "wasm")
      BY <2>1, <2>4, <3>1, <3>3, <3>4, <3>5, EvidenceFields DEF Exchanged
    <3>8. n # Dist("bin", "wasm") /\ n # Dist("wasm-manifest", Every)
      BY <2>1, <2>4, <3>2, <3>3, <3>4 DEF Exchanged
    <3> QED
      BY <2>1, <3>1, <3>2, <3>3, <3>6, <3>8 DEF Exchanged
  <2> QED
    BY <2>1, <2>3, <2>4 DEF WasmTied, Exchanged
<1> QED
  BY <1>2, <1>3, <1>4, <1>5, <1>6, <1>7, <1>8, <1>9, <1>10, Outcomes

LEMMA NextSbomTied == ASSUME Shape, OwnFiles, SbomTied, [Next]_vars PROVE SbomTied'
<1>0. CASE UNCHANGED vars
  BY <1>0 DEF vars, SbomTied, DescribesTarball
<1> SUFFICES ASSUME Next PROVE SbomTied'
  BY <1>0
<1>1. IsFiles(file)
  BY DEF Shape
<1>2. CASE pc' \notin {"revalidate-policy", "verify", "accepted"}
  BY <1>2 DEF SbomTied
<1>3. CASE Goes("revalidate-policy", "verify", file) \/ Goes("verify", "accepted", file)
  BY <1>3 DEF Goes, SbomTied
<1>4. CASE RevalidateSbom /\ pc' = "revalidate-policy"
  <2>1. validateReleaseManifest(file, "release-output") /\ SbomValid(file) /\ file' = file
    BY <1>4 DEF RevalidateSbom, Check, Step
  <2>2. file[Out("manifest", Every)].tarball = file[Out("tarball", Every)]
    <3>1. Context(file, "release-output").tarball = file[Out("tarball", Every)]
      BY DEF Context
    <3> QED
      BY <2>1, <3>1 DEF validateReleaseManifest, validateContext
  <2>3. DescribesTarball(file)
    BY <2>1, <2>2, SbomFields DEF SbomValid, DescribesTarball
  <2> QED
    BY <2>1, <2>3 DEF SbomTied
<1>5. CASE Replace /\ pc' \in {"revalidate-policy", "verify", "accepted"}
  <2>1. PICK b \in Builds, n \in Names : Exchanged(b, n)
    BY <1>1, <1>5, ReplaceExchanges
  <2> SUFFICES ASSUME replaced' <= 1,
                      file'[Out("policy", Every)].sbom = file'[Out("sbom", Every)],
                      file'[Out("policy", Every)].inventory = file'[Out("inventory", Every)],
                      file'[Out("tarball", Every)] = file'[Out("manifest", Every)].tarball
               PROVE  DescribesTarball(file)'
    BY DEF SbomTied
  <2>2. replaced = 0 /\ pc \in Finished
    BY <1>5, <2>1 DEF Exchanged, Shape, Finished
  <2>3. /\ TarballFacts(file, delivered, Head) /\ ManifestFacts(file, delivered, Head)
        /\ SbomFacts(file, delivered, Head) /\ PolicyFacts(file, delivered, Head, licences)
    BY <2>2 DEF OwnFiles, FromManifest, FromSbom, FromPolicy, FromAssemble
  <2>4. /\ file[Out("policy", Every)].sbom = file[Out("sbom", Every)]
        /\ file[Out("policy", Every)].inventory = file[Out("inventory", Every)]
    BY <2>3 DEF PolicyFacts, SbomFacts, PolicyOf
  <2>5. file[Out("manifest", Every)].tarball = file[Out("tarball", Every)]
    BY <2>3 DEF ManifestFacts, TarballFacts, ManifestOf
  <2>6. /\ file[Out("sbom", Every)].tarball = file[Out("tarball", Every)]
        /\ file[Out("inventory", Every)].tarball = file[Out("tarball", Every)]
    BY <2>3, <2>5, SbomFields DEF ManifestFacts, SbomFacts
  <2>7. \A i, k \in {"policy", "sbom", "inventory", "tarball", "manifest"} :
          Out(i, Every) \in Names /\ (i # k => Out(i, Every) # Out(k, Every))
    BY OutNames DEF Out
  <2>8. n # Out("sbom", Every) /\ n # Out("inventory", Every)
    BY <2>1, <2>4, <2>7 DEF Exchanged
  <2>9. n # Out("tarball", Every)
    BY <2>1, <2>5, <2>7 DEF Exchanged
  <2> QED
    BY <2>1, <2>6, <2>7, <2>8, <2>9 DEF Exchanged, DescribesTarball
<1> QED
  BY <1>2, <1>3, <1>4, <1>5, Outcomes DEF Goes

LEMMA NextVerified == ASSUME Verified, [Next]_vars PROVE Verified'
<1>0. CASE UNCHANGED vars
  BY <1>0 DEF vars, Verified
<1> SUFFICES ASSUME Next PROVE Verified'
  BY <1>0
<1> USE DEF FromAssemble, Finished
<1>1. CASE LicenceTexts
  BY <1>1 DEF LicenceTexts, GeneratePolicy, Step, PolicyValid, Verified
<1>2. CASE VerifyBundle
  BY <1>2 DEF VerifyBundle, Check, Step, Verified
<1>3. CASE Replace
  BY <1>3 DEF Replace, Verified
<1> QED
  BY <1>1, <1>2, <1>3, Outcomes DEF Goes, Verified

-----------------------------------------------------------------------------
(***************************************************************************)
(* The theorems.                                                           *)
(***************************************************************************)
CandidateInv ==
    Shape /\ OwnFiles /\ Truthful /\ WasmTied /\ SbomTied /\ Verified /\ CleanRunAccepted

LEMMA CandidateInvariant == Spec => []CandidateInv
<1>1. Init => CandidateInv
  <2>1. ASSUME Init PROVE WasmTied /\ SbomTied /\ Verified /\ CleanRunAccepted
    BY <2>1 DEF Init, WasmTied, SbomTied, Verified, CleanRunAccepted, FromSbom, FromPolicy,
                FromAssemble, Finished
  <2> QED
    BY <2>1, InitShape, InitOwnFiles, InitTruthful DEF CandidateInv
<1>2. CandidateInv /\ [Next]_vars => CandidateInv'
  BY NextShape, NextOwnFiles, NextTruthful, NextWasmTied, NextSbomTied, NextVerified,
     NextCleanRunAccepted DEF CandidateInv
<1> QED
  BY <1>1, <1>2, PTL DEF Spec

(* What the checks of validateReleaseBundle say of the binaries, with the
   evidence and the manifest truthful.                                      *)
LEMMA AcceptedBinaries ==
    ASSUME Truthful, Verified, pc = "accepted"
    PROVE  LET t == file[Out("tarball", Every)]
               m == file[Out("manifest", Every)]
           IN  /\ \A p \in Native \cup ReactNative :
                    /\ t.bin[p].commit = Head
                    /\ file[Out("bin", p)] = t.bin[p]
                    /\ file[Out("evidence", p)].sha = t.bin[p]
               /\ \A p \in Native : t.bin[p].tool = m.wasmSource.tool
               /\ t.bin["wasm"] = m.wasm
               /\ \E b \in Builds : /\ m.wasmSource.sha = b /\ m.wasmSource.tool = b.tool
                                    /\ file[Out("evidence", "wasm")].sha = b /\ b.commit = Head
<1> DEFINE t == file[Out("tarball", Every)]
           m == file[Out("manifest", Every)]
<1>1. /\ validateReleaseManifestIdentity(m) /\ validateNativeEvidence(file, m)
      /\ validateReactNativeEvidence(file, m) /\ BundleWasmEvidence(file, m)
      /\ validateTarball(t, m)
  BY DEF Verified, validateReleaseBundle
<1>2. /\ TrueManifest(m)
      /\ \A p \in Parts : TrueEvidence(file[Out("evidence", p)], p)
  BY DEF Truthful, FromSbom, FromPolicy, FromAssemble, Finished
<1> HIDE DEF t, m
<1>3. ASSUME NEW p \in Parts
      PROVE  \E b \in Builds : /\ file[Out("evidence", p)].sha = b
                               /\ file[Out("evidence", p)].commit = b.commit
                               /\ file[Out("evidence", p)].tool = b.tool
  BY <1>2, EvidenceFields DEF TrueEvidence
<1>4. ASSUME NEW p \in Native
      PROVE  /\ t.bin[p].commit = Head /\ file[Out("bin", p)] = t.bin[p]
             /\ file[Out("evidence", p)].sha = t.bin[p]
  <2>1. /\ file[Out("evidence", p)].commit = Head
        /\ file[Out("evidence", p)].sha = m.native[p].sha
        /\ file[Out("evidence", p)].sha = file[Out("bin", p)]
    BY <1>1 DEF validateNativeEvidence
  <2>2. t.bin[p] = m.native[p].sha
    BY <1>1 DEF validateTarball
  <2> QED
    BY <1>3, <2>1, <2>2, PartsFacts
<1>5. ASSUME NEW p \in ReactNative
      PROVE  /\ t.bin[p].commit = Head /\ file[Out("bin", p)] = t.bin[p]
             /\ file[Out("evidence", p)].sha = t.bin[p]
  <2>1. /\ file[Out("evidence", p)].commit = Head
        /\ file[Out("evidence", p)].sha = file[Out("bin", p)]
        /\ SummaryTarget(file[Out("evidence", p)]) = SummaryTarget(m.reactNative[p])
    BY <1>1 DEF validateReactNativeEvidence, validateReactNativeArtifactEvidence
  <2>2. file[Out("evidence", p)].sha = m.reactNative[p].sha
    BY <2>1 DEF SummaryTarget
  <2>3. t.bin[p] = m.reactNative[p].sha
    BY <1>1 DEF validateTarball, validatePackageContents, validateReactNativePackageArtifacts
  <2> QED
    BY <1>3, <2>1, <2>2, <2>3, PartsFacts
<1>6. ASSUME NEW p \in Native PROVE t.bin[p].tool = m.wasmSource.tool
  <2>1. PICK b \in Builds : m.native[p] = Evidence(p, b)
    BY <1>2 DEF TrueManifest, TrueEvidence
  <2>2. m.native[p].tool = m.wasmSource.tool
    BY <1>2 DEF TrueManifest
  <2>3. t.bin[p] = m.native[p].sha
    BY <1>1 DEF validateTarball
  <2> QED
    BY <2>1, <2>2, <2>3, EvidenceFields
<1>7. t.bin["wasm"] = m.wasm
  BY <1>1 DEF validateTarball, validatePackageContents
<1>8. \E b \in Builds : /\ m.wasmSource.sha = b /\ m.wasmSource.tool = b.tool
                        /\ file[Out("evidence", "wasm")].sha = b /\ b.commit = Head
  <2>1. PICK b \in Builds : m.wasmSource = Evidence("wasm", b)
    BY <1>2 DEF TrueManifest, TrueEvidence
  <2>2. m.wasmSource.sha = b /\ m.wasmSource.tool = b.tool
    BY <2>1, EvidenceFields
  <2>3. /\ file[Out("evidence", "wasm")].commit = Head
        /\ file[Out("evidence", "wasm")].sha = b
    BY <1>1, <2>2 DEF BundleWasmEvidence
  <2> QED
    BY <1>3, <2>2, <2>3, PartsFacts
<1> QED
  BY <1>4, <1>5, <1>6, <1>7, <1>8 DEF t, m

(* Whatever files of other runs replace those of this one, and however many:
   in a bundle validateReleaseBundle accepts, the Node-API and React Native
   binaries of the tarball were built at the tagged commit, are the bytes kept
   beside it and the bytes their evidence records, and the Node-API binaries
   are of one toolchain; the policy that passed was evaluated on the bundle's
   SBOM and inventory.                                                      *)
AcceptedWhateverReplaced ==
    pc = "accepted" =>
        LET t == file[Out("tarball", Every)]
        IN  /\ \A p \in Native \cup ReactNative : /\ t.bin[p].commit = Head
                                                 /\ file[Out("bin", p)] = t.bin[p]
                                                 /\ file[Out("evidence", p)].sha = t.bin[p]
            /\ Cardinality({t.bin[p].tool : p \in Native}) = 1
            /\ file[Out("policy", Every)].sbom = file[Out("sbom", Every)]
            /\ \A kind \in {"policy", "third-party"} :
                  file[Out(kind, Every)].inventory = file[Out("inventory", Every)]
            /\ enforceLicensePolicy(licences, TRUE)

(* The chain of checks refuses nothing it should accept (CleanRunAccepted): for
   any targets, builds and toolchains, a run none of whose files is exchanged,
   with parts of the tagged commit, Rust parts of the job's toolchain and an
   accepted licence evaluation, passes every step from the comparison of the
   iOS archives to validateReleaseBundle.                                   *)
THEOREM CleanRunIsAccepted == Spec => []CleanRunAccepted
<1>1. CandidateInv => CleanRunAccepted
  BY DEF CandidateInv
<1> QED
  BY <1>1, CandidateInvariant, PTL

(* The part of the accepted bundle's correctness that validateReleaseBundle
   and the truth of evidence give alone, however many files are exchanged
   between the steps of the package job.                                    *)
THEOREM AcceptedHoldsWhateverReplaced == Spec => []AcceptedWhateverReplaced
<1>1. CandidateInv => AcceptedWhateverReplaced
  <2> SUFFICES ASSUME CandidateInv, pc = "accepted" PROVE AcceptedWhateverReplaced
    BY DEF AcceptedWhateverReplaced
  <2> DEFINE t == file[Out("tarball", Every)]
             m == file[Out("manifest", Every)]
  <2>1. Truthful /\ Verified
    BY DEF CandidateInv
  <2>2. /\ \A p \in Native \cup ReactNative : /\ t.bin[p].commit = Head
                                             /\ file[Out("bin", p)] = t.bin[p]
                                             /\ file[Out("evidence", p)].sha = t.bin[p]
        /\ \A p \in Native : t.bin[p].tool = m.wasmSource.tool
    BY <2>1, AcceptedBinaries
  <2>3. validatePhaseEvidence(file, m) /\ enforceLicensePolicy(licences, TRUE)
    BY <2>1 DEF Verified, validateReleaseBundle, FromAssemble, Finished
  <2>4. /\ file[Out("policy", Every)].sbom = file[Out("sbom", Every)]
        /\ \A kind \in {"policy", "third-party"} :
              file[Out(kind, Every)].inventory = file[Out("inventory", Every)]
    BY <2>3 DEF validatePhaseEvidence
  <2> HIDE DEF t, m
  <2>5. {t.bin[p].tool : p \in Native} = {m.wasmSource.tool}
    BY <2>2, PartsFacts
  <2>6. Cardinality({t.bin[p].tool : p \in Native}) = 1
    BY <2>5, FS_Singleton
  <2> QED
    BY <2>2, <2>3, <2>4, <2>6 DEF AcceptedWhateverReplaced, t
<1> QED
  BY <1>1, CandidateInvariant, PTL

(* For any targets and builds, with at most one file exchanged at any point of
   the job, the bytes of every part of an accepted tarball are of one build of
   the tagged commit that its evidence records, the WASM module included, and
   one Rust toolchain compiled the Node-API artifacts and the WASM module: the
   raw module is compared with its evidence when the manifest is generated
   (validateWasmEvidence), the canonical one with its manifest
   (validatePackageContents), and only the build relates the two.           *)
THEOREM AcceptedIsOneBuild == Spec => [](replaced <= 1 => AcceptedIsOneBuildPerPart)
<1>1. CandidateInv => (replaced <= 1 => AcceptedIsOneBuildPerPart)
  <2> SUFFICES ASSUME CandidateInv, replaced <= 1, pc = "accepted"
               PROVE  AcceptedIsOneBuildPerPart
    BY DEF AcceptedIsOneBuildPerPart
  <2> DEFINE t == file[Out("tarball", Every)]
             m == file[Out("manifest", Every)]
             e == file[Out("evidence", "wasm")]
  <2>1. Truthful /\ Verified /\ WasmOfSource(m)
    BY DEF CandidateInv, WasmTied, FromSbom, FromPolicy, FromAssemble, Finished
  <2>2. /\ \A p \in Native \cup ReactNative : /\ t.bin[p].commit = Head
                                             /\ file[Out("bin", p)] = t.bin[p]
                                             /\ file[Out("evidence", p)].sha = t.bin[p]
        /\ \A p \in Native : t.bin[p].tool = m.wasmSource.tool
        /\ t.bin["wasm"] = m.wasm
        /\ \E b \in Builds : /\ m.wasmSource.sha = b /\ m.wasmSource.tool = b.tool
                             /\ e.sha = b /\ b.commit = Head
    BY <2>1, AcceptedBinaries
  <2> HIDE DEF t, m, e
  <2>3. PICK b \in Builds : /\ m.wasmSource.sha = b /\ m.wasmSource.tool = b.tool
                            /\ e.sha = b /\ b.commit = Head
    BY <2>2
  <2>4. t.bin["wasm"] = runWasmBindgen(b)
    BY <2>1, <2>2, <2>3 DEF WasmOfSource
  <2>5. t.bin["wasm"].commit = Head /\ t.bin["wasm"].tool = m.wasmSource.tool
    BY <2>3, <2>4 DEF runWasmBindgen
  <2>6. {t.bin[p].tool : p \in Rust} = {m.wasmSource.tool}
    BY <2>2, <2>5 DEF Rust
  <2>7. Cardinality({t.bin[p].tool : p \in Rust}) = 1
    BY <2>6, FS_Singleton
  <2>8. \A p \in Parts : t.bin[p].commit = Head
    BY <2>2, <2>5 DEF Parts
  <2>9. runWasmBindgen(e.sha) = t.bin["wasm"]
    BY <2>3, <2>4
  <2> QED
    BY <2>2, <2>7, <2>8, <2>9 DEF AcceptedIsOneBuildPerPart, t, e
<1> QED
  BY <1>1, CandidateInvariant, PTL

(* For any targets and builds, with at most one file exchanged at any point of
   the job, the SBOM and the licence inventory of an accepted bundle describe
   its own tarball, although validateSpdxReleaseIdentity does not look at the
   tarball's checksum: the run that revalidated the SBOM did, and the digests
   the publish job compares show an exchange after it.                      *)
THEOREM LicenceEvidenceDescribesTheTarball ==
    Spec => [](replaced <= 1 => LicenceEvidenceIsOfTheTarball)
<1>1. CandidateInv => (replaced <= 1 => LicenceEvidenceIsOfTheTarball)
  <2> SUFFICES ASSUME CandidateInv, replaced <= 1, pc = "accepted"
               PROVE  LicenceEvidenceIsOfTheTarball
    BY DEF LicenceEvidenceIsOfTheTarball
  <2> DEFINE m == file[Out("manifest", Every)]
  <2>1. /\ validatePhaseEvidence(file, m) /\ enforceLicensePolicy(licences, TRUE)
        /\ validateTarball(file[Out("tarball", Every)], m)
    BY DEF CandidateInv, Verified, validateReleaseBundle, FromAssemble, Finished
  <2>2. /\ file[Out("policy", Every)].sbom = file[Out("sbom", Every)]
        /\ \A kind \in {"policy", "third-party"} :
              file[Out(kind, Every)].inventory = file[Out("inventory", Every)]
        /\ file[Out("tarball", Every)] = m.tarball
    BY <2>1 DEF validatePhaseEvidence, validateTarball
  <2>3. DescribesTarball(file)
    BY <2>2 DEF CandidateInv, SbomTied
  <2> QED
    BY <2>1, <2>2, <2>3 DEF LicenceEvidenceIsOfTheTarball, DescribesTarball
<1> QED
  BY <1>1, CandidateInvariant, PTL

=============================================================================
