------------------------- MODULE BackendLoaderProofs -------------------------
(***************************************************************************)
(* The loaders are fail closed for any number of changed files, any        *)
(* runtimes and any listings.  The invariant says what each step of the    *)
(* loader knows: from "hash" on the package has an artifact for the        *)
(* runtime, from "wasm-glue" on it has none, and a WebAssembly backend is  *)
(* the bytes that agreed with the manifest.                                *)
(***************************************************************************)
EXTENDS BackendLoader, TLAPS

Node == {"node-esm", "node-cjs"}

NativeSteps == {"hash", "require"}
WasmSteps == {"wasm-glue", "wasm-manifest", "wasm-bytes", "wasm-verify"}

Chosen ==
    /\ entry \in Entries /\ runtime \in Runtimes /\ listing \in Listings
    /\ (entry \in Node /\ pc \in NativeSteps) => HasArtifact(runtime)
    /\ (entry \in Node /\ pc \in WasmSteps) => ~HasArtifact(runtime)
    /\ (entry \in Node /\ pc \in {"facade", "loaded"}) =>
           (backend.kind = "wasm" <=> ~HasArtifact(runtime))
    /\ entry \in Node => pc # "react-native"

Verified ==
    (pc \in {"facade", "loaded"} /\ backend.kind = "wasm") =>
        backend.content = read["wasm-manifest"]

Inv == Chosen /\ Verified

(* targetForRuntime finds a listed target exactly where there is an artifact. *)
LEMMA TargetIsArtifact ==
    ASSUME NEW r \in Runtimes, listing \in Listings
    PROVE  (targetForRuntime(r) = None \/ targetForRuntime(r) \notin Range(listing)) <=> ~HasArtifact(r)
<1>1. r.glibc \in Seq(Nat)
  BY LoaderAssumption
<1>2. Len(r.glibc) = 2 => r.glibc[1] \in Nat /\ r.glibc[2] \in Nat
  BY <1>1
<1>3. supportsLinuxGlibc(r.glibc) <=>
        (Len(r.glibc) = 2 /\ ~(r.glibc[1] < 2 \/ (r.glibc[1] = 2 /\ r.glibc[2] < 28)))
  BY <1>2 DEF supportsLinuxGlibc
<1>4. \A t \in Range(listing) : t # None
  BY LoaderAssumption DEF Range
<1> QED
  BY <1>3, <1>4 DEF targetForRuntime, HasArtifact

LEMMA InitInv == Init => Inv
BY DEF Init, Inv, Chosen, Verified, Node, NativeSteps, WasmSteps

(* A file access that goes on to a step which is not the end. *)
LEMMA ReadInv ==
    ASSUME Inv, NEW file \in Files, NEW ok, NEW next, ReadFile(file, ok, next),
           next \notin {"facade", "loaded", "react-native"},
           entry \in Node => /\ next \in NativeSteps => HasArtifact(runtime)
                             /\ next \in WasmSteps => ~HasArtifact(runtime)
    PROVE  Inv'
<1>1. pc' = next \/ pc' = "failed"
  BY DEF ReadFile, Fail
<1>2. UNCHANGED <<entry, runtime, listing>>
  BY DEF ReadFile
<1>3. HasArtifact(runtime)' <=> HasArtifact(runtime)
  BY <1>2 DEF HasArtifact, Range
<1> QED
  BY <1>1, <1>2, <1>3 DEF Inv, Chosen, Verified, Node, NativeSteps, WasmSteps

LEMMA NextInv == Inv /\ [Next]_vars => Inv'
<1> SUFFICES ASSUME Inv, [Next]_vars PROVE Inv'
  OBVIOUS
<1> USE DEF Inv
<1>0. UNCHANGED <<entry, runtime, listing>> /\ (HasArtifact(runtime)' <=> HasArtifact(runtime))
  BY DEF Next, Load, ReadPackage, ReadManifest, SelectTarget, HashArtifact, RequireArtifact,
         ReadGlue, ReadWasmManifest, LoadWasm, InitWasm, LoadReactNative, CreateFacade,
         ChangeFile, Over, ReadFile, Fail, vars, HasArtifact, Range
<1>1. CASE ReadPackage
  BY <1>1, ReadInv DEF ReadPackage, Files, NativeSteps, WasmSteps
<1>2. CASE ReadManifest
  BY <1>2, ReadInv DEF ReadManifest, Files, NativeSteps, WasmSteps
<1>3. CASE SelectTarget
  BY <1>0, <1>3, TargetIsArtifact DEF SelectTarget, Chosen, Verified, Node, NativeSteps, WasmSteps
<1>4. CASE HashArtifact
  BY <1>4, ReadInv DEF HashArtifact, Files, Chosen, NativeSteps, WasmSteps
<1>5. CASE RequireArtifact
  BY <1>0, <1>5 DEF RequireArtifact, Fail, Chosen, Verified, Node, NativeSteps, WasmSteps
<1>6. CASE ReadGlue
  BY <1>6, ReadInv DEF ReadGlue, Files, Chosen, NativeSteps, WasmSteps
<1>7. CASE ReadWasmManifest
  BY <1>7, ReadInv DEF ReadWasmManifest, Files, Chosen, NativeSteps, WasmSteps
<1>8. CASE LoadWasm
  <2>1. CASE ReadFile("wasm-bytes", disk["wasm-bytes"] # None, "wasm-verify")
    BY <1>8, <2>1, ReadInv DEF LoadWasm, Files, Chosen, NativeSteps, WasmSteps
  <2>2. CASE Fail
    BY <1>0, <2>2 DEF Fail, Chosen, Verified, Node, NativeSteps, WasmSteps
  <2> QED
    BY <1>8, <2>1, <2>2 DEF LoadWasm
<1>9. CASE InitWasm
  BY <1>0, <1>9 DEF InitWasm, Fail, verifyWasmAsset, Chosen, Verified, Node, NativeSteps, WasmSteps
<1>10. CASE LoadReactNative
  BY <1>0, <1>10 DEF LoadReactNative, Chosen, Verified, Node, NativeSteps, WasmSteps
<1>11. CASE CreateFacade
  BY <1>0, <1>11 DEF CreateFacade, Chosen, Verified, Node, NativeSteps, WasmSteps
<1>12. CASE ChangeFile \/ Over \/ UNCHANGED vars
  BY <1>0, <1>12 DEF ChangeFile, Over, vars, Chosen, Verified, Node, NativeSteps, WasmSteps
<1> QED
  BY <1>1, <1>2, <1>3, <1>4, <1>5, <1>6, <1>7, <1>8, <1>9, <1>10, <1>11, <1>12 DEF Next, Load

LEMMA Invariance == Spec => []Inv
<1>1. Init => Inv
  BY InitInv
<1>2. Inv /\ [Next]_vars => Inv'
  BY NextInv
<1> QED
  BY <1>1, <1>2, PTL DEF Spec

(* However many files change, and on whatever runtime with whatever manifest,
   the Node entry points use WebAssembly exactly where the package has no
   artifact (loadNativeBackend of node/index.mjs).                          *)
THEOREM FailClosed == Spec => []NoSilentFallback
<1>1. Inv => NoSilentFallback
  BY DEF Inv, Chosen, NoSilentFallback, Node
<1> QED
  BY <1>1, Invariance, PTL

(* However many files change, the WebAssembly module in use is the one whose
   digest agreed with the manifest (verifyWasmAsset).                       *)
THEOREM OnlyVerifiedWasm == Spec => []WasmInUseWasVerified
<1>1. Inv => WasmInUseWasVerified
  BY DEF Inv, Verified, WasmInUseWasVerified
<1> QED
  BY <1>1, Invariance, PTL
=============================================================================
