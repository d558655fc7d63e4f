---------------------------- MODULE BackendLoader ----------------------------
(***************************************************************************)
(* How an entry point of the package finds its backend: the Node-API       *)
(* artifact of the runtime's target, WebAssembly, or the React Native      *)
(* module (node/, wasm/, react-native/, manifest.mjs).                     *)
(*                                                                         *)
(* The files of the installed package may be replaced, damaged or removed  *)
(* while an entry point reads them one after the other.  The content of a  *)
(* file is the release it belongs to; equal contents are equal digests.    *)
(***************************************************************************)
EXTENDS Integers, Sequences

CONSTANTS
    Entries,     \* entry points of the package
    Runtimes,    \* platform, architecture and glibc version of the process
    Listings,    \* sequences of targets a native manifest may list
    MaxChanges,  \* bound on the changes of files
    None         \* absent

ASSUME LoaderAssumption ==
    /\ MaxChanges \in Nat
    /\ \A r \in Runtimes : r.glibc \in Seq(Nat)
    /\ \A t \in UNION {{l[i] : i \in DOMAIN l} : l \in Listings} : t # None

VARIABLES
    disk,      \* the installed files
    listing,   \* the targets that the native manifest lists
    identity,  \* what the registered React Native module says of itself
    entry,     \* the entry point being loaded
    runtime,   \* where it is loaded
    pc,        \* the next step of the loader
    read,      \* what the loader has read of each file
    backend,   \* the backend that was loaded
    changes    \* how often a file was changed

vars == <<disk, listing, identity, entry, runtime, pc, read, backend, changes>>

Damaged == "damaged"
Files == {"package.json", "native-manifest", "native-artifact", "wasm-glue",
          "wasm-manifest", "wasm-bytes"}
Releases == {"old", "new"}
Contents == Releases \cup {Damaged, None}
Readable(content) == content \in Releases

-----------------------------------------------------------------------------
(* manifest.mjs *)

CANONICAL_TARGET_ORDER ==
    <<"win32-x64-msvc", "darwin-x64", "darwin-arm64", "linux-x64-gnu">>

Range(s) == {s[i] : i \in DOMAIN s}

IndexOf(target) == CHOOSE i \in DOMAIN CANONICAL_TARGET_ORDER : CANONICAL_TARGET_ORDER[i] = target

(* Known targets only, in canonical order, none twice; name and version are the package's. *)
validateNativeManifest(manifest, artifacts, package) ==
    /\ Readable(manifest) /\ Readable(package)
    /\ manifest = package
    /\ Range(artifacts) \subseteq Range(CANONICAL_TARGET_ORDER)
    /\ \A i \in 1 .. Len(artifacts) - 1 : IndexOf(artifacts[i]) < IndexOf(artifacts[i + 1])

(* A version is major.minor; anything else is not glibc. *)
supportsLinuxGlibc(version) ==
    /\ Len(version) = 2
    /\ \/ version[1] > 2
       \/ version[1] = 2 /\ version[2] >= 28

targetForRuntime(r) ==
    IF r.platform = "win32" /\ r.arch = "x64" THEN "win32-x64-msvc"
    ELSE IF r.platform = "darwin" /\ r.arch = "x64" THEN "darwin-x64"
    ELSE IF r.platform = "darwin" /\ r.arch = "arm64" THEN "darwin-arm64"
    ELSE IF r.platform = "linux" /\ r.arch = "x64" /\ supportsLinuxGlibc(r.glibc)
         THEN "linux-x64-gnu"
    ELSE None

-----------------------------------------------------------------------------
NothingRead == [f \in Files |-> None]

Init ==
    /\ disk = [f \in Files |-> "old"]
    /\ listing \in Listings
    /\ identity \in {"expected", "other", None}
    /\ entry \in Entries
    /\ runtime \in Runtimes
    /\ pc = IF entry \in {"node-esm", "node-cjs"} THEN "package"
            ELSE IF entry = "react-native" THEN "react-native" ELSE "wasm-glue"
    /\ read = NothingRead
    /\ backend = None
    /\ changes = 0

(* backendInitializationError: the entry point throws and no backend is used. *)
Fail == pc' = "failed" /\ UNCHANGED <<read, backend>>

(* The entry point reads a file and goes on, or fails. *)
ReadFile(file, ok, next) ==
    /\ IF ok
       THEN pc' = next /\ read' = [read EXCEPT ![file] = disk[file]] /\ UNCHANGED backend
       ELSE Fail
    /\ UNCHANGED <<disk, listing, identity, entry, runtime, changes>>

ReadPackage ==
    /\ pc = "package"
    /\ ReadFile("package.json", Readable(disk["package.json"]), "manifest")

ReadManifest ==
    /\ pc = "manifest"
    /\ ReadFile("native-manifest",
                validateNativeManifest(disk["native-manifest"], listing, read["package.json"]),
                "target")

(* No artifact for this runtime: WebAssembly is loaded instead. *)
SelectTarget ==
    /\ pc = "target"
    /\ LET target == targetForRuntime(runtime)
       IN  pc' = IF target = None \/ target \notin Range(listing) THEN "wasm-glue" ELSE "hash"
    /\ UNCHANGED <<disk, listing, identity, entry, runtime, read, backend, changes>>

HashArtifact ==
    /\ pc = "hash"
    /\ ReadFile("native-artifact", disk["native-artifact"] = read["native-manifest"], "require")

\* Mutant: WebAssembly replaces an artifact that does not load.
RequireArtifact_FallsBack ==
    /\ pc = "require"
    /\ \/ /\ disk["native-artifact"] # None
          /\ pc' = "facade"
          /\ backend' = [kind |-> "native", content |-> disk["native-artifact"]]
       \/ /\ ~Readable(disk["native-artifact"])
          /\ pc' = "wasm-glue"
          /\ UNCHANGED backend
    /\ UNCHANGED <<disk, listing, identity, entry, runtime, read, changes>>

(* The module system reads the artifact again; a damaged one may load or not. *)
RequireArtifact ==
    /\ pc = "require"
    /\ \/ /\ disk["native-artifact"] # None
          /\ pc' = "facade"
          /\ backend' = [kind |-> "native", content |-> disk["native-artifact"]]
          /\ UNCHANGED read
       \/ /\ ~Readable(disk["native-artifact"])
          /\ Fail
    /\ UNCHANGED <<disk, listing, identity, entry, runtime, changes>>

-----------------------------------------------------------------------------
(* WebAssembly: index.mjs, index.cjs, asset.mjs *)

ReadGlue ==
    /\ pc = "wasm-glue"
    /\ ReadFile("wasm-glue", Readable(disk["wasm-glue"]), "wasm-manifest")

ReadWasmManifest ==
    /\ pc = "wasm-manifest"
    /\ ReadFile("wasm-manifest", Readable(disk["wasm-manifest"]), "wasm-bytes")

(* In a browser the bytes are fetched, which may fail. *)
LoadWasm ==
    /\ pc = "wasm-bytes"
    /\ \/ ReadFile("wasm-bytes", disk["wasm-bytes"] # None, "wasm-verify")
       \/ /\ entry = "browser"
          /\ Fail
          /\ UNCHANGED <<disk, listing, identity, entry, runtime, changes>>

verifyWasmAsset(bytes, expected) == bytes = expected

\* Mutant: the file is read again for the instantiation.
InitWasm_ReadsAgain ==
    /\ pc = "wasm-verify"
    /\ IF verifyWasmAsset(read["wasm-bytes"], read["wasm-manifest"])
       THEN /\ pc' = "facade"
            /\ backend' = [kind |-> "wasm", content |-> disk["wasm-bytes"]]
            /\ UNCHANGED read
       ELSE Fail
    /\ UNCHANGED <<disk, listing, identity, entry, runtime, changes>>

(* The bytes that were verified are instantiated; the glue may not fit them. *)
InitWasm ==
    /\ pc = "wasm-verify"
    /\ \/ /\ verifyWasmAsset(read["wasm-bytes"], read["wasm-manifest"])
          /\ pc' = "facade"
          /\ backend' = [kind |-> "wasm", content |-> read["wasm-bytes"]]
          /\ UNCHANGED read
       \/ /\ \/ ~verifyWasmAsset(read["wasm-bytes"], read["wasm-manifest"])
             \/ read["wasm-glue"] # read["wasm-bytes"]
          /\ Fail
    /\ UNCHANGED <<disk, listing, identity, entry, runtime, changes>>

-----------------------------------------------------------------------------
(* React Native: native-module.mjs, index.mjs *)

(* The module is registered and names a target of the manifest and its artifact. *)
getReactNativeModule(module) == module = "expected"

LoadReactNative ==
    /\ pc = "react-native"
    /\ IF getReactNativeModule(identity)
       THEN pc' = "facade" /\ backend' = [kind |-> "react-native", content |-> identity]
       ELSE pc' = "failed" /\ UNCHANGED backend
    /\ UNCHANGED <<disk, listing, identity, entry, runtime, read, changes>>

(* createFacade requires the whole operation set, which a damaged artifact may lack. *)
CreateFacade ==
    /\ pc = "facade"
    /\ \/ pc' = "loaded"
       \/ backend.content = Damaged /\ pc' = "failed"
    /\ UNCHANGED <<disk, listing, identity, entry, runtime, read, backend, changes>>

-----------------------------------------------------------------------------
(* An upgrade replaces the files one by one, in any order; a file is damaged or removed. *)
ChangeFile ==
    /\ changes < MaxChanges
    /\ changes' = changes + 1
    /\ \E f \in Files, content \in {"new", Damaged, None} : disk' = [disk EXCEPT ![f] = content]
    /\ UNCHANGED <<listing, identity, entry, runtime, pc, read, backend>>

Load ==
    \/ ReadPackage \/ ReadManifest \/ SelectTarget \/ HashArtifact \/ RequireArtifact
    \/ ReadGlue \/ ReadWasmManifest \/ LoadWasm \/ InitWasm
    \/ LoadReactNative \/ CreateFacade

Over == pc \in {"loaded", "failed"} /\ UNCHANGED vars

Next == Load \/ ChangeFile \/ Over

Spec == Init /\ [][Next]_vars

-----------------------------------------------------------------------------
(* Properties *)

(* The package has an artifact for a runtime: on Linux from glibc 2.28 on, compared as a   *)
(* version, and not where the process reports no glibc or a version of another shape.      *)
HasArtifact(r) ==
    \E t \in Range(listing) :
        /\ <<t, r.platform, r.arch>> \in
              {<<"win32-x64-msvc", "win32", "x64">>, <<"darwin-x64", "darwin", "x64">>,
               <<"darwin-arm64", "darwin", "arm64">>, <<"linux-x64-gnu", "linux", "x64">>}
        /\ r.platform = "linux" =>
              Len(r.glibc) = 2 /\ ~(r.glibc[1] < 2 \/ (r.glibc[1] = 2 /\ r.glibc[2] < 28))

(* WebAssembly stands in for the artifact exactly where the package has none for the       *)
(* runtime: never for one that is missing, damaged, replaced or does not load (README: a   *)
(* declared native artifact's failure is not a silent fallback), and an artifact is never  *)
(* loaded on another runtime.                                                              *)
NoSilentFallback ==
    (pc = "loaded" /\ entry \in {"node-esm", "node-cjs"}) =>
        (backend.kind = "wasm" <=> ~HasArtifact(runtime))

(* The WebAssembly module in use is the one whose digest was compared with the manifest,   *)
(* however the files change while they are read (verifyWasmAsset).                         *)
WasmInUseWasVerified ==
    (pc = "loaded" /\ backend.kind = "wasm") => backend.content = read["wasm-manifest"]
=============================================================================
