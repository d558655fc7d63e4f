# A TLA+ verification project for symbol-nem-wallet-core

symbol-nem-wallet-core is a wallet core for Symbol and NEM: a Rust library that
validates, opens and rewrites an encrypted *Wallet Store*, bindings of it (C ABI,
Node-API, WebAssembly), a JavaScript facade with loaders for Node, browsers and React
Native, a React Native adapter in C++ that calls the C ABI, and a release pipeline that
builds one npm package on many runners, proves what it is made of and publishes it to
npm and GitHub. This directory models the parts that carry state, run concurrently or
decide what is trusted, model-checks them with TLC and proves their main safety
properties with TLAPS for every value of the constants.

Paths below are relative to the repository root. `PROJECT.json` maps every
definition to the lines it models and lists runs, mutants, hazards and theorems.

## 1. Inventory

| Part | State | Operations | Interacts with | What makes it correct |
|---|---|---|---|---|
| Wallet Store operations, `crates/core/src/store.rs` | none of its own: a Store (registry key, Profiles: network, duplicate tag, salt, nonce, plaintext index, ciphertext) goes in, a complete replacement comes out | create, prepare/finalize a generated Profile, restore, change password, delete Profile, derive/import/generate/delete a Software Key; list, export, public account, sign | crypto, CBOR codec; called by every binding; the application owns persistence | replacements decode and open again, manifests tell the truth, no duplicates, no lost or foreign change without the password |
| Cryptography, `crypto.rs` | none | KDF, AEAD, HMAC tag, mnemonic, HD derivation, keys, signatures | store.rs | domain separation, fresh salts and nonces |
| CBOR codec, `cbor.rs` | none | deterministic encode, decode with limits | store.rs | decode inverts encode; limits agree |
| C ABI, `crates/c-abi/src/lib.rs` | memory handed to the caller | one function per operation, free functions | Core; C/C++ callers | outputs are reset first and published all or none; freed once, wiped |
| Node-API and WASM bindings | none | conversion per operation | Core; JS facade | same codes and values as the Core |
| JS facade, `packages/wallet-core/src/facade-runtime.mjs` | the byte arrays of one call | per operation: read and check the inputs, snapshot, call, check and copy the result, wipe | caller's objects (proxies, getters), a backend or another facade | the backend gets the request that was checked (byte arguments pass unchecked), and no inner facade refuses it; secrets are wiped on every exit, the caller's never |
| Loaders, `src/node`, `src/wasm`, `src/react-native`, `manifest.mjs` | what was read of the installed files | read package.json and manifests, choose a target, compare digests, load | file system, module system, fetch, the RN module registry | fail closed: no backend that was not verified, no silent fallback |
| RN lifecycle coordinator, `packages/wallet-core/cpp/RnLifecycleCoordinator.*` | process state and generation, registrations, in-flight counter, two mutexes and a shared mutex | registerProcessLifecycle, registerModule, begin, isLive, finish, invalidate*, processTeardown | React Native's threads, platform hooks, native module | nothing is delivered to a registration, runtime or lifecycle that ended |
| RN native module, `NativeSymbolNemWalletCore.cpp` | one registration, one AdmissionTicket per call | invoke, invalidate, destructor | coordinator, C ABI, JSI | one invocation at a time, every path releases what it took |
| RN hosts: `android/*`, `ios/*` | Kotlin table of packages, iOS table of runtime bindings | attach/register, hostDidStart, runtimeDidInitialize, teardown hooks | coordinator | registrations are invalidated before a reload runs JS |
| Package job, `.github/workflows/node.yml`, `build-npm-package.mjs`, `release-evidence.mjs`, `release-manifest.mjs`, `package-contents.mjs` | files in release-input, dist, release-output | compare, summarise, build, pack, manifest, SBOM, licence policy, assemble, revalidate; the publish job's bundle check | the build jobs' artifacts | what is accepted is one consistent set of parts of the tagged commit, and an honest run is accepted |
| SBOM and licence policy, `release-sbom.mjs`, `c-abi-sbom.mjs`, `release-license-policy.mjs` | visited packages, roles, edges | walk the Cargo graph, parse and judge licence expressions | cargo metadata | nothing shipped is left out; nothing unapproved is allowed |
| Registry evidence, `npm-provenance.mjs` | answers fetched so far, attempts, time | metadata, tarball with redirects, attestations with retries, audit | npm registry | evidence is about one tarball; bounded in time |
| Release workflow and recovery, `release.yml`, `release-recovery.yml`, `release-identity.mjs`, `release-operation.mjs`, `release-record.mjs`, `release-recovery.mjs`, `release-publication.mjs`, `github-release.mjs` | tag, main, npm version, workflow artifacts, GitHub Release | identity, candidate, record, verify, publish, capture, finalize, assemble, create, upload, verify; dispatch and reconstruct | git, npm, GitHub, humans | the release says what npm serves; a published version stays recoverable |
| C ABI archives, `c-abi-release.mjs`; RN build scripts, `build-react-native-release.mjs`, `react-native-pod-lock.mjs` | none | deterministic archives; cargo, xcodebuild, CocoaPods | release workflow | reproducible bytes |

The hard behaviours are of four kinds. The Store operations are sequential, but their
inputs are bytes the application may have kept for any time: backups, rolled-back
Stores, Pending Profiles prepared for another Store; a long sequence of legal calls
must never produce a Store the Core refuses or cannot open. The React Native adapter
is concurrent: JS threads, React Native's own threads and the platform's shutdown
hooks meet on three locks, with results that arrive after their receiver is gone. The
facade and the loaders read things that others may change between two reads, and may
fail at each of them. The release pipeline is distributed and cannot be undone: npm
accepts a version once, and a job may be interrupted, cancelled by a new push of the
tag or run again between any two steps, with caches, retries and hand-made releases in
between. `PROJECT.json` lists these hazards at the lines where they bite.

## 2. Modules

| Module | Models | Kind |
|---|---|---|
| `WalletCrypto` | crypto.rs as ideal functions | operators |
| `WalletStore` | the functions of store.rs | operators |
| `WalletApp` | an application calling the Core | state machine, properties |
| `WalletCalls` | WalletApp with the last call visible, and the refinement | state machine, refinement mapping |
| `WalletLedger` | what the Core promises, without encryption | abstract state machine |
| `WalletReads` | export, public account, sign on any reachable Store | properties |
| `WalletAppProofs` | theorems about WalletApp, WalletReads and WalletCalls | proofs |
| `RnLifecycle` | coordinator and AdmissionTicket | state machine, properties |
| `RnLifecycleProofs` | theorems about RnLifecycle | proofs |
| `Facade` | one call through stacked facades | state machine, properties |
| `FacadeProofs` | theorems about Facade | proofs |
| `BackendLoader` | every entry point while files change | state machine, properties |
| `BackendLoaderProofs` | theorems about BackendLoader | proofs |
| `ReleaseCandidate` | the package job and the publish job's bundle check | state machine, properties |
| `ReleaseCandidateProofs` | theorems about ReleaseCandidate | proofs |
| `CargoGraph` | the walks of both SBOM scripts | state machine, properties |
| `CargoGraphProofs` | theorems about CargoGraph | proofs |
| `LicenceExpression` | parser and policy of licence expressions | recursive operators, properties |
| `RegistryCapture` | one capture of registry evidence | state machine with time, properties |
| `RegistryCaptureProofs` | theorems about RegistryCapture | proofs |
| `ReleaseProtocol` | release and recovery runs over git, npm and GitHub | state machine, properties |
| `ReleaseProtocolProofs` | theorems about ReleaseProtocol | proofs |
| `MC*` | instances and symmetry for TLC | model checking |

Definitions named `f_Something` beside a definition `f` are mutants: `f` with a
plausible bug (section 3).

### The Wallet Store

*Data.* The encoder sorts Profiles and keys by id and the decoder requires them
strictly ascending, so a Store is a function from Profile ids to envelopes and its
bytes are equal to another's iff the values are; the SHA-256 of a Store, to which a
Pending Profile is bound, is the Store itself. A sealed box is the record of key,
nonce, associated data and plaintext and opens only for the same three. Passwords,
ids, entropies and private keys are model values; one value stands for all empty or
non-UTF-8 passwords, one for all phrases `parse_mnemonic` rejects, one for the zero
key. Derived keys are the records of their inputs, with the coin type, root key and
byte reversal of the code. Unknown CBOR fields, warnings, byte lengths and the wiping
of memory are left out. HD-derived keys are never equal to keys from outside; the
case of an imported key that equals a derived one is still covered, since
`ImportSoftwareKey` may import any derived key.

*Control.* For each function `f` of store.rs, `f_code` is the error code it returns,
with the checks in the order of the code joined by `??` (Rust's `?`), and `f` is the
value or replacement it returns when the code is `"Ok"`. `WalletApp` has one action
per operation; it commits the replacement. A call that fails, a random source that
fails and a crash before the commit leave the committed Store as it was, which is a
stuttering step. `TakeBackup` and `LoadBackup` are the application's; Pending
Profiles may be finalized at any later time, any number of times. Random values are
numbered by `draws`: the ideal CSPRNG never repeats.

*Abstract specification.* `WalletLedger` has accounts with a Mnemonic, a Network, a
password and keys in the clear, and lets an account change only when its password is
presented. The operation, the Profile and the password of the last call are part of
its interface (`call`), so that an implementation that accepted a wrong password, or
finalized a Pending Profile for another Store, would not implement it. `WalletCalls`
adds the same variable to `WalletApp`, and its `ImplementsLedger` maps every envelope
to its opened content.

### The React Native lifecycle

A critical section of `stateMutex_` is one step, as nobody blocks inside it; one that
also takes `deliveryBarrier_` exclusively is one step enabled when no shared holder
exists. `executionMutex_` and shared ownership of the barrier are held over several
steps and are variables. A JS thread passes through the constructor of the ticket
(`Call`, `LockExecution`, `begin` or `BeginFails`), the Core call and the capture of its
outputs (`CoreError`, `copyOwnedBytes`, `runtimeIdentity`), `deliver` (`DeliverLock`,
`DeliverCheck`, `DeliverResult`) and the destructor (`finish`, `UnlockExecution`). A
nested call on the same thread is a `Call` with `hasActiveRequest`. React Native may
register, replace and invalidate in any order, from any thread; `processTeardown` is
three steps. A `ProcessGeneration` object is a number: registrations keep their
generation alive, so an address is never reused while it can be compared. The gates
compiled only for integration tests are left out.

### The JavaScript facade

A call goes down through `Depth` facades to the backend and its result comes up
again; Node's WebAssembly fallback really stacks two. `Inputs(o)` is the sequence of
steps by which operation `o` makes its snapshot, in the order of the `snapshot*`
functions: reads of one field of one object (`dtoField`) and checks of what was read
(`validate`), apart from each other, because the caller's object may answer a second read
differently. Every read of the outermost layer may give any of the `Values`: throw, an
accessor, nothing, another type, a value that is not allowed or one that is. A field is
abstracted to what the checks tell apart. An inner layer reads what the outer one passed
(`PassedDown`). The byte arguments (`Bytes(o)`: Store, passwords, Mnemonic, Pending
Profile, private key) are not looked at by any facade: the backend is given the caller's
own arrays. `Outputs(o)` is the sequence of reads, obtained secrets and copies of the
result (`outputReadResult`, `outputMutationResult`, `outputSecretReadResult`), each of
which may be malformed when the backend made it. Byte arrays that a facade copies have an
identity, as entries of `heap`, because wiping and aliasing are about identity.
`Throw`, `Return` and `Unwind` are the `catch` and `finally` blocks. An array the
backend made and no facade got hold of cannot be wiped by any facade.

### The loaders

`disk` holds the installed files, each of the old release, the new one, damaged or
missing; `ChangeFile` is a package manager or an accident, between any two reads. One
step per file access: package.json, the native manifest, the artifact's digest, the
artifact again through `require` (`RequireArtifact`), and for WebAssembly the glue, its
manifest and the bytes. `Listings` includes manifests that must be refused (unknown
target, wrong order, twice). The browser may fail to fetch. React Native reads the
identity the registered module reports.

### The release candidate

`ReleaseCandidate` runs the package job step by step on named files, and then the
publish job's check of the bundle it downloads. `file` has a content for every name a
run ever writes, `Absent` before it is written, and each writer (`Summaries`, `Build`,
`Pack`, `Manifest`, `Sbom`, `Policy`, `Bundle`) is a function from the files before to the
files after, so that the run of another build is the same functions composed
(`Pristine`). The bytes of a binary are the build that
made them, `[id, commit, tool, form]`; a digest is the content it is taken of. Parts may
be delivered from any of four builds, and `Replace` puts, between two steps, the file of
the same name of another run in the place of one file. Each `validate*` operator is the
comparison of that name in the scripts, with its checks of sizes, formats and field sets
reduced to the digests that imply them.

### SBOM and licences

`CargoGraph` is the loop of `collectCargoGraph` (npm) and `collectRuntimeGraph` (C ABI):
targets in order, one stack and visited set per target, packages and edges accumulated
over all. The stack is a set, so every order of popping is a behaviour. The two scripts
enter a package in the map at different moments (`Visit`), and both refuse a path package
outside the checkout (`Sourced`): the C ABI script when it walks to one, the npm script
for every package the document lists, before it walks (`Startable`). A document of an
unsupported shape is refused as well. `LicenceExpression` has the
recursive descent parser as a recursive function of rule and token index, and the
evaluation as a recursive operator on trees; its state machine only enumerates the
expressions. The reference for the parser is the grammar itself (`Derivations`), that for
the policy the set of identifiers written.

### Registry evidence

`RegistryCapture` makes the requests of `captureNpmProvenance` in order. An answer comes
at once or as late as its timeout allows; `elapsed` counts seconds. Attestations become
visible at a time the registry chooses (`appears`). Metadata, tarball and attestations
are chosen independently of each other, as a replicated registry may serve them.
Signature verification and the tar format are an outcome: sound or not.

### The release protocol

A job is a run of `release.yml` or `release-recovery.yml`; its program counter is the
step it will run, and each action is one script call with all its checks (`Step` ends
the job when a check fails, as `set -e` does). `tag`, `main`, `registry`, `artifacts` and
`github` are the services. Artifact names carry run and attempt (`Own`). The
environment pushes to main, moves or deletes the tag (which cancels other runs of the
concurrency group), interrupts a job at any step, reruns it, answers a stale 404 for a
published version, and creates the GitHub Release by hand; interruptions, reruns,
moved tags and hand-made releases are counted by `faults`. `npm publish` may succeed
although its job does not learn of it. Evidence is a function from file groups to
contents, and equal contents are equal digests.

## 3. Runs

| Run (cfg) | Bounds | Distinct states | Checks |
|---|---|---|---|
| `wallet_profiles` (MCWalletProfiles) | 2 Profiles, 2 Mnemonics, 2 passwords, limits 2 Profiles and 1 key, 3 draws, 1 Pending, backups | 65 009 | `EveryStoreDecodes`, `EveryProfileOpens`, `NoDuplicateProfiles`, `ImplementsLedger` |
| `wallet_keys` (MCWalletKeys) | 2 Profiles, 2 keys each, 2 passwords, 3 draws, every read request | 15 054 | `ManifestMatchesPayload`, `NoDuplicateSoftwareKeys`, `DerivedKeysRecoverable`, `NoncesNeverReused`, `ExportReleasesTheConfirmedSecret`, `SignerIsTheShownAccount`, `WrongPasswordIsUniform` |
| `pending_reuse` (MCPendingReuse) | 1 Mnemonic, 1 Pending, 3 draws | stops at the violation | `PendingIsSingleUse` (violated) |
| `rn_lifecycle` (MCRnLifecycle) | 2 JS threads, 2 teardowns, 2 hosts, 2 registrations, 2 lifecycles, 2 calls | 306 937 | `OneRegistrationPerHost`, `NoStaleDelivery`, `OneInvocationAtATime`, `ClosedIsQuiescent`, `DeadRequestsStayDead`, `BindingIsFinal`, `InvocationsReturn`, `TeardownsReturn` |
| `facade` (MCFacade) | all 16 operations, 2 facades | 5 576 | `WipesExactlyItsCopies`, `BackendGetsTheCheckedRequest`, `ErrorIsTheFirstThrown` |
| `loader` (MCBackendLoader) | 6 entry points, 10 runtimes, 6 listings, 2 changed files | 1 304 280 | `NoSilentFallback`, `WasmInUseWasVerified` |
| `release_candidate` (MCReleaseCandidate) | 2 Node targets, 1 Android, 1 iOS, WASM; 4 builds, 3 licence outcomes, 1 file exchanged | 158 319 | `AcceptedIsOneBuildPerPart`, `LicenceEvidenceIsOfTheTarball`, `CleanRunAccepted` |
| `cargo_graph` (MCCargoGraph) | 4 identities, 2 targets per script, every subset of 5 edges, at most one defect per document | 762 848 | `CollectedIsWhatIsShipped`, `CollectedIffComplete` |
| `licence_expression` (MCLicenceExpression) | every expression of up to 8 lexemes | 199 676 | `ParserIsTheGrammar`, `ClosedWorld` |
| `registry_capture` (MCRegistryCapture) | the code's own limits; attestations visible at 5 moments | 442 726 | `VisibleInTimeIsCaptured`, `FitsThePublishJob`, `CapturedEvidenceIsOneTarball`, `CaptureEnds` |
| `release` (MCRelease) | 2 pushes of the tag with 2 attempts each, 1 recovery, 2 commits, 1 fault | 2 112 709 | `PublishedBytesWereRecorded`, `RecoveryAccepts`, `VerifiedReleaseIsWhatNpmServes`, `VerifiedEvidenceIsOneAttempt`, `ReleaseOnlyGrows` |
| `release_rerun` (MCReleaseRerun) | 1 run, 2 attempts | stops at the violation | `RerunRecovers` (violated) |

*Why the bounds are enough to be interesting.*

- Wallet: a Store needs two Profiles for one to disturb the other, two keys for a
  duplicate, two account indexes because one of them exceeds the (scaled-down)
  `MaxAccountIndex`; the small limits make every operation meet them. `draws` counts every
  successful operation that uses randomness, so 3 draws are 3 such operations plus any
  number of deletions, backups and rollbacks: enough to restore, change, roll back and
  change differently, which is the fork `NoncesNeverReused` is about.
- React Native: two JS threads and two teardowns are the smallest number that can wait
  for each other, and a second lifecycle is needed for a request to outlive the first.
- Facade: two layers are what the program stacks. The theorems have no bound.
- Loader: two changes (`MaxChanges`) let one file change between the two accesses to it
  while a second one is of another release.
- Candidate: two Node targets for two toolchains among them; one part of each other
  kind, as they are treated alike. `MaxReplaced` is 1: the checks compare pairs of
  files, and with two exchanged files a consistent pair of another run is
  indistinguishable (the canonical WASM is then no longer tied to the raw one).
- Cargo: the 5 possible edges contain a cycle, two ways to one package and an unlisted
  package; two targets of one role and two of different roles. The defects are an
  unsupported shape, a package outside the checkout (shipped or not, as the edges have
  it), one without a node and a second crate of the binding's name. The theorems have no
  bound.
- Licences: 8 lexemes hold every pair of operators in every bracketing. An expression is
  not continued after a lexeme that cannot follow the one before it, as the parser has
  failed there whatever follows.
- Registry: the attempts, delays, timeouts and redirects are those of the code.
- Release: a fault is what lets two jobs overlap, or a job find what another left. With
  one push cancelling another, two attempts and a recovery, one fault reaches every
  refusing check; `Builds` is `{0}`, so that two builds of one commit give the same
  bytes (a rebuilt candidate of another commit differs).

`draws`, `pendings`, registrations, lifecycles, calls, attempts, commits and faults are
the only unbounded quantities and are capped in guards by the constants named `Max...`.
Symmetry (ids, Mnemonics, passwords; tag pushes) is used in runs of safety properties
only, the refinement without fairness included: these values are only compared.
Deadlock is checked except where the system may stop: `CoreSpec` when all draws are
used, a release when everything is published or failed, the package job when it ended,
the enumerations of graphs and expressions.

*Fairness.* `RnLifecycle`: a thread that is inside `invoke` or has started to drain keeps
running while it is not blocked (weak fairness per thread). These are operating-system
threads, no step of them waits for anything but the modelled locks, and the Core call
terminates. Nothing forces React Native to call, register or tear down. Mutexes need not
be fair: the number of calls is finite in the run, so a waiting thread is not overtaken
for ever; with an endless stream of calls from other threads and an unfair mutex it
could be, and no property claims otherwise. `RegistryCapture`: weak fairness of the
next step, since every request has an abort timeout. (npm's install and audit have no
limit of their own; the job's 15 minutes end them.)

*Mutants.* Every property of a passing run has a mutant: a plausible bug of one mapped
definition, written beside it, under which TLC finds the property violated.

### What the violated runs show

`pending_reuse`: the comment of `finalize_generated_profile` says that a Pending
Profile that was finalized once adds no Profile when it is used again
(`crates/core/src/store.rs:214`). The code compares the Store's hash only. After
prepare, finalize, `delete_profile` the Store has its original bytes and the same
Pending Profile is accepted again. Whether that matters is the application's
question; the test at `crates/core/tests/core.rs:522` tries the reuse on the Store
that still contains the Profile.

`release_rerun`: `scripts/release-operation.mjs:1053` declares the retry path
"existing-version provenance verification without republish". When a second attempt of
`release.yml` finds its version published, its verify step has already written
`release-operation.json` into `release-output`, and `reconstructPublishedNpmBundle`
(`scripts/release-recovery.mjs:362`) requires that directory to hold the candidate's
files exactly: the attempt is refused every time. The manually dispatched recovery does
not meet this, and `RecoveryAccepts` shows that it goes through.

### Observations without a run

Met while modelling; none contradicts a text of the repository squarely enough to be
stated as a violated property.

- `processTeardown` called twice concurrently (iOS installs two hooks) lets the second
  call close a lifecycle that was started after the first one closed, leaving
  registrations that are not retired in a closed process. `NoStaleDelivery` and
  `ClosedIsQuiescent` hold all the same.
- The recovery names the original attempt and the artifact name suffix separately and
  nothing ties one to the other (`scripts/release-recovery.mjs:297`).
- The assembled assets are expected for version 0.2.0 literally, where other defaults say
  0.1.0 (`scripts/release-publication.mjs:62`): the next version needs an edit there.
- The recovery reads the tag once at its start (`scripts/github-release.mjs:53`); a tag moved
  later is not noticed.
- "Re-run failed jobs" in GitHub's interface keeps the finished jobs of the earlier
  attempt but raises the attempt number, so the rerun jobs do not find the
  artifacts, whose names carry it. Only "Re-run all jobs" works; `Rerun` models that.
- Resuming a partly uploaded release happens only for a release somebody made by hand,
  since a rerun is refused earlier.
- The Node loader reads the artifact once for its digest and once more to load it
  (`src/node/index.mjs:62`); a file replaced in between is loaded unverified. WebAssembly is
  instantiated from the verified bytes (`WasmInUseWasVerified`).
- The identity a React Native module reports has no version.
- `WITH` is accepted after a parenthesised licence, and a second `WITH` replaces the
  first exception (`scripts/release-sbom.mjs:231`); SPDX allows neither. The policy refuses
  every exception, so no verdict is affected.
- Metadata and tarball are requested once, without the retries attestations have.
- The checksum of the tarball inside the SBOM and the JSON summaries of the parts are
  checked by the package job and not read again by the publish job.

## 4. Proofs

The proof modules need only the named assumptions on constants (`CryptoAssumption`,
`LimitAssumption`, `BoundAssumption`, `RnAssumption`, `GraphAssumption`,
`LoaderAssumption`, `CaptureAssumption`, `FacadeAssumption`, `ReleaseAssumption`,
`CandidateAssumption`), which say that the special values are distinct from ordinary ones,
that the limits are natural numbers, that metadata documents, runtimes and manifests have
their type, and that there is a Node-API target. TLC evaluates them in the runs. One
theorem has a hypothesis of its own, `AcceptedRecovery`.

`WalletAppProofs`, for any sets of ids, passwords, Mnemonics and keys, any limits and
any number of calls and rollbacks:

- `TypeCorrect`, `Decodable`, `Openable`, `FaithfulManifest`, `UniqueProfiles`,
  `UniqueSoftwareKeys`, `RecoverableKeys`: `Spec => []P` for `TypeOK`,
  `EveryStoreDecodes`, `EveryProfileOpens`, `ManifestMatchesPayload`,
  `NoDuplicateProfiles`, `NoDuplicateSoftwareKeys`, `DerivedKeysRecoverable`.
- The inductive invariant `WalletInv` says of *every Store the application holds* that it
  is a `GoodStore`: each envelope's key, nonce, associated data, tag and index agree
  with its plaintext, the payload meets the encoder's limits, its keys are valid,
  distinct and derivable, and tags tell Profiles apart. None of the properties
  is inductive alone: that a Profile opens after `reencrypt_profile` needs the tag and
  index to agree before; that Mnemonics are unique needs tags to agree with
  Mnemonics, since the code compares tags only. The backup and the targets of Pending
  Profiles are included because `LoadBackup` brings them back.
- The argument goes from envelopes (`SealGood`) to Stores (`PutGood`, `DropGood`,
  `ReencryptGood`, `NewProfileGood`), payloads (`PutKeyGood`, `DropKeyGood`,
  `AddKeyGood`) and finally one step per action (`WalletStep`).
- `FreshNonces` (`NoncesNeverReused`), from `NonceInv`: every nonce in a box is a draw of
  its own, while a salt is shared by all boxes of one Profile's history. After a rollback
  the two branches of that history have the same key, so it is the nonce alone that keeps
  them apart; the salt of a Pending Profile is in no box, because finalizing it draws anew.
- `ConfirmedExports`, `SignedAsShown`, `UniformRefusal`: the properties of `WalletReads`,
  on every reachable Store. They follow from `WalletInv` without further induction: that
  an export is under the Profile's password needs the box to open for one key only, and
  that the signer is the shown account needs the manifest to agree with the payload.
  `UniformRefusal` is about every operation that takes a password, exports and `sign`
  included, with every valid or invalid argument: whether it answers a password that is
  not the Profile's with `AuthenticationFailed` or with `InvalidArgument` depends on its
  own arguments alone, never on the Store (`Refused`).
- `StoreImplementsLedger` (`ImplementsLedger`): `CallSpec` implements `WalletLedger`, for
  every value of the constants. `LedgerPut` and `LedgerDrop` say what writing or dropping an
  envelope does to the mapped accounts, `OpensAccount` that an operation that opened an
  envelope was given the account's password, and `LedgerStep` goes through the operations. The
  ledger counts keys, so the mapping must keep cardinalities (`SameCardinality`).

`RnLifecycleProofs`, for any number of threads, teardowns, hosts, registrations and
lifecycles:

- `TypeCorrect` (`TypeOK`), `SafeDelivery` (`NoStaleDelivery`), `ExclusiveInvocation`
  (`OneInvocationAtATime`), `TeardownWaits` (`ClosedIsQuiescent`), `FinalBinding`
  (the action property `BindingIsFinal`).
- `SafetyInv` strengthens them: `DeliveryInv` says that a thread between the last
  check and the result is a shared holder of the barrier and its request is live;
  `TicketInv` says which thread holds the execution mutex at which program counter,
  that `hasActiveRequest` and `inFlight_` agree with it, and that a closed process was
  closed by a teardown that held the mutex. `NoStaleDelivery` alone is not inductive:
  without the barrier's ownership an invalidation could slip in.
- `OneHostRegistration` (`OneRegistrationPerHost`) is inductive relative to
  `SafetyInv`: registering
  retires what the host had before it lists the new one (`HostRegister`, `HostRetire`).
- `NoRevival` (the action property `DeadRequestsStayDead`), from `BoundInv`: a request is
  of a lifecycle that existed and of a registration that is bound to its runtime, and a
  bound registration is active until it is retired. Without it an activation could revive a
  request made before, and a new lifecycle one with a number that was not given yet.

`CargoGraphProofs`, for any finite or infinite set of packages, any metadata documents
and any number of targets:

- `CollectedIsShipped` (from `RolesAreShipped` and `EdgesAreShipped`): a finished walk has
  exactly the shipped packages with their roles and exactly the normal dependencies
  between them. `FailsExactlyOnIncomplete` (`CollectedIffComplete`): the walk fails
  exactly when a document will not do. One that will do has the supported shape, the
  binding's crate once and resolved, and knows all it ships, inside the checkout or from
  a registry; for the npm script none of its packages, shipped or not, lies outside.
- What a target ships is the least set that contains the binding's crate and is closed
  under normal dependencies (`Shipped`), stated without recursion so that it can be
  reasoned about. `Inv` says what holds in the middle of the walk: everything entered or
  pushed is shipped (`Sound`), earlier targets are entered completely (`Past`), and the
  dependencies of visited packages are visited or on the stack (`Frontier`). When the stack
  is empty, `Frontier` makes the visited set closed, hence a superset of what is shipped
  (`EmptyStackEntered`).

`BackendLoaderProofs`, for any entries, runtimes, listings, contents and number of changed
files: `FailClosed` (`NoSilentFallback`) and `OnlyVerifiedWasm` (`WasmInUseWasVerified`). Both
speak of a loader that has finished, so `Inv` says what each step before knows: from
`hash` on the package has an artifact for the runtime (`TargetIsArtifact` relates
`targetForRuntime` to the documented platforms), from `wasm-glue` on it has none, and a
WebAssembly backend holds the content that agreed with the manifest that was read.

`FacadeProofs`, for any number of stacked facades: `CheckedRequest`
(`BackendGetsTheCheckedRequest`), `FirstError` (`ErrorIsTheFirstThrown`) and
`WipedExactly` (`WipesExactlyItsCopies`).

- `Snapshot(s, plain, targets)` says of a sequence of steps that it reads each field
  before a check looks at it and never after, and that values which all its steps accept
  are a well-formed request.
  It is kept by putting two sequences with different fields together (`Then`), so that
  `InputSnapshot` follows from the parts as the code composes them. `LayerInv` says that
  the running layer has passed the checks before its position with the values it read,
  whatever the objects would answer now; at the end `PassesChecked` makes the request
  well-formed. What a layer passed down is read again by the next, and a check that
  accepts it there is a matter of its own fields only (`AcceptsLocally`,
  `InnerAccepts`), so no inner facade refuses it and the request arrives unchanged.
- `ErrorInv` says that an error on its way up is already a code of the Core, which
  normalising again keeps (`NormalizedTwice`).
- `ArrayInv` says where secret bytes may be at each moment (`Exposed`): the caller's
  payload, payload snapshots from the running layer upwards, the arrays a layer reads
  and its copies, and backend arrays nobody has got hold of. `OutputInv` says that what a
  layer has passed is in `sources` and `copies`, and that what a facade hands up always
  passes the checks of the next, so that only the innermost one can fail on a result.
  Every secret of an operation is obtained and copied (`OutputReads`, `AllCopied`), without
  which a layer would return with a source it does not wipe.

`RegistryCaptureProofs`, for any tarballs, digests and attestation records:

- `CoherentEvidence` (`CapturedEvidenceIsOneTarball`). `Inv` says which check every step
  comes after: the tarball agrees with the metadata, and in a release with the candidate,
  once attestations are requested; the attestations agree with the tarball once npm
  audits. The steps between change only the part of the evidence they fetch.
- `PatientCapture` (`VisibleInTimeIsCaptured`) and `BoundedCapture` (`FitsThePublishJob`), from
  `TimeInv`: at the n-th request for attestations the clock lies between the delays so far
  and these plus n - 1 timeouts (`Clock`). The sums of the doubling delays are tabulated
  (`Delays`) and shown to differ by `retryDelay` (`DelayStep`).

`ReleaseProtocolProofs`, for any runs, dispatches, attempts, commits and builds and any
number of faults: `GrowingRelease` (the action property `ReleaseOnlyGrows`),
`RecordedPublication` (`PublishedBytesWereRecorded`), `VerifiedServes`
(`VerifiedReleaseIsWhatNpmServes`), `VerifiedOneAttempt` (`VerifiedEvidenceIsOneAttempt`) and
`AcceptedRecovery` (`RecoveryAccepts`). The last one has the hypothesis that `Version` is
`AssembledVersion`: the assembly expects 0.2.0 literally, and for another version every
recovery is refused there.

- `AllMove` and `AllEffects` say once what a step does to the jobs and to the services: one
  job goes on, stops or begins, and one artifact, the registry or the release changes. The
  invariants are then proved in layers, each relative to those before it.
- `Shape` types the jobs. `ArtifactsInv`: an artifact of an attempt is there only after the
  step that uploads it, hence is written once, although a job may be interrupted and run
  again. `PublishInv`: an attempt about to publish has a record of its bundle, and the
  attempt npm accepted is past that step; as npm accepts a version once,
  `RecordedPublication` follows.
- `EvidenceInv`: only the attempt that published finalizes its evidence, which describes
  what npm serves. `DispatchesInv` is the same for a recovery, step by step: it names an
  attempt that will never run again (`Named`, `Dead`), its downloaded evidence is of one
  attempt (`Sourced`), and what it captured, reconstructed and finalized agrees with the
  registry. From it each check of the chain is shown to accept, which is `AcceptedRecovery`.
- `FinalsInv` carries this to the steps that write the release. `OneWriter`: at most
  one job ever writes to the release, since only one attempt published, a recovery is of
  that attempt once it is dead, and creates a release only where none is (`OneDispatch`). So what a job verified stays as it was (`VerifiedInv`), which gives
  `VerifiedServes` and `VerifiedOneAttempt`.

`ReleaseCandidateProofs`, for any targets, builds, toolchains and licence evaluations, and
any bound on the files exchanged: `CleanRunIsAccepted` (`CleanRunAccepted`),
`AcceptedHoldsWhateverReplaced`, and, at every moment at which at most one file was
exchanged, `AcceptedIsOneBuild` (`AcceptedIsOneBuildPerPart`) and
`LicenceEvidenceDescribesTheTarball` (`LicenceEvidenceIsOfTheTarball`).

- What every step writes is computed once, as a function of the parts `d` delivered at a
  commit `h` (`PackageOf`, `ManifestOf`, ..., and the lemmas named `...Writes`). With the
  run's own parts this is the invariant `OwnFiles`: while nothing is exchanged, the files at
  each step are those of the stages before it. With all parts of one build it describes
  the files `Replace` brings (`OfRunFacts`). On the run's own files every `validate*` is
  evaluated and passes (`GoodInputs` to `GoodBundle`), which is `CleanRunIsAccepted`.
- `Truthful` holds after any number of exchanges: every evidence file is that of some
  build, with its commit, toolchain and bytes, and the manifest names evidence of one Rust
  toolchain. With the comparisons of `validateReleaseBundle` it gives
  `AcceptedHoldsWhateverReplaced`: what the publish job guarantees by itself of the Node-API
  and React Native binaries and of the licence policy.
- What it does not guarantee by itself are the two ties that only a step of the package
  job makes: the canonical WebAssembly module to the raw one (the build), and the SBOM to
  the tarball (`RevalidateSbom`). `WasmTied` and `SbomTied` say that after at most one
  exchange either the tie holds or an equality is broken that a later step checks. They are
  inductive relative to `OwnFiles`: an exchange is the first one, so before it all these
  equalities hold, and each of the files they mention can disturb only one side of one.
  With two exchanges both fail; hence `replaced <= 1` in the two theorems.

Only model-checked: liveness (`InvocationsReturn`, `TeardownsReturn`, `CaptureEnds`:
fairness is outside the prover's reach), and the licence parser against its grammar and the
policy against the identifiers (`ParserIsTheGrammar`, `ClosedWorld`: recursion over data).

## 5. Not modelled

- The arithmetic of Ed25519, Keccak and base32, the BIP39 word list: computations, not
  protocols, mostly of third-party crates.
- The CBOR bytes: lengths, depth, unknown fields and their preservation in the index.
- C ABI, Node-API and WASM conversions: synchronous, without state of their own except
  the memory the C ABI hands out.
- The Android and iOS host adapters; `RnLifecycle` allows every order of their calls.
  Three of their hazards are listed without a property: the comparison of error codes
  by address in `isCoreError`, `registerProcessLifecycle` throwing in a `noexcept` hook,
  and the two-step `hostDidStart`.
- The parsers of ELF, Mach-O and archive files, tar and gzip writing, signature
  verification: formats, abstracted to sound or not.
- The choice of licence files per package and the coverage of cargo-sbom's output; the
  C ABI archives; the build and pod lock scripts; the checks that release-operation.mjs
  makes on the text of the workflow files.
- Zeroization of Rust and C++ memory, logging, the integration-test gates.

## 6. Plan

Done: the wallet, React Native, facade, loader, SBOM, candidate, registry and release
modules above, and proofs of every safety property of the runs except the two about
licence expressions. Next, in this order:

1. `RnHosts`, composing RnLifecycle with the Android package table and the iOS runtime
   bindings: reload and shutdown races, `registerProcessLifecycle` throwing inside a
   `noexcept` hook; an abstract delivery specification that RnLifecycle implements.
2. `NativeErrors`: the error path from the Core over the C ABI to JS, including the
   comparison of error codes by address in `isCoreError`.
3. `StoreCodec`: decode and encode of the CBOR value tree with limits, sorting, unknown
   fields and the O(n) index merge, against a reference definition (TLC only).
4. `CAbiOwnership`: allocation, publication, release and wiping on every path.
