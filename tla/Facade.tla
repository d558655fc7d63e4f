------------------------------- MODULE Facade -------------------------------
(***************************************************************************)
(* One call of the JavaScript facade (facade-runtime.mjs), through one or  *)
(* more facades stacked on a backend: the Node entry point that falls back *)
(* to WebAssembly wraps the facade that the WebAssembly entry point made.  *)
(*                                                                         *)
(* A call goes down the layers, each reading and checking its inputs, to   *)
(* the backend, and its result comes up again, each layer checking and     *)
(* copying it.  A caller's object may be a proxy or change between two     *)
(* reads, so every read of it gives any value or throws, and a result may  *)
(* be malformed.  Byte arrays are entries of a heap.                       *)
(***************************************************************************)
EXTENDS Integers, Sequences

CONSTANTS
    Depth,       \* how many facades lie between the caller and the backend
    Operations,  \* the operations called
    None         \* absent

OPERATION_NAMES ==
    {"create_empty_store", "prepare_generated_profile", "finalize_generated_profile",
     "restore_profile", "list_profiles", "export_mnemonic", "export_private_key",
     "list_software_keys", "derive_software_key", "import_software_key",
     "generate_software_key", "get_public_account", "sign", "change_profile_password",
     "delete_software_key", "delete_profile"}

ASSUME FacadeAssumption ==
    /\ Depth \in Nat \ {0}
    /\ Operations \subseteq OPERATION_NAMES

VARIABLES
    op,        \* the operation called, or None
    phase,     \* what the call does
    layer,     \* the facade that runs, Depth next to the caller, 0 is the backend
    pos,       \* the next input or output read of this layer
    given,     \* the arguments each layer was called with, the backend's at 0
    snapshot,  \* what the running layer has read of them
    heap,      \* the byte arrays
    sources,   \* secret arrays that a layer has obtained from the one below
    copies,    \* copies that the running layer has made of them
    thrown,    \* what the first throwing step threw
    outcome    \* the code the caller catches, "ok", or None

vars == <<op, phase, layer, pos, given, snapshot, heap, sources, copies, thrown,
          outcome>>

CORE_ERROR_CODES ==
    {"InvalidArgument", "InvalidStore", "UnsupportedStoreVersion",
     "UnsupportedProfileSchemaVersion", "ProfileNotFound", "SoftwareKeyNotFound",
     "AuthenticationFailed", "InvalidMnemonic", "InvalidPrivateKey", "DuplicateProfile",
     "DuplicateSoftwareKey", "InvalidAccountIndex", "NetworkMismatch", "CryptoFailure",
     "RandomSourceFailure", "SerializationFailure", "PendingProfileInvalid", "BindingFailure"}

-----------------------------------------------------------------------------
(* Inputs. A field is a property of an object, or an argument of the call; what it holds   *)
(* is abstracted to what the checks tell apart.                                             *)

ExportTargets == {"target", "user_request.target", "application_confirmation.target"}
Objects ==
    {"argument", "bytes", "request", "user_request", "application_confirmation",
     "signing_target", "context", "approval"} \cup ExportTargets
Names ==
    {"request", "profileId", "keyId", "chain", "network", "accountIndex", "target",
     "user_request", "application_confirmation", "kind", "profile_id", "key_id", "status",
     "context", "payload", "approval", "store", "passwordUtf8", "mnemonicUtf8",
     "pendingProfile", "privateKey", "currentPasswordUtf8", "newPasswordUtf8"}
Fields == Objects \X Names

(* Reading throws, finds an accessor or nothing (undefined), or gives a value of another   *)
(* type, one that is not allowed, or one that is.                                           *)
Values ==
    {"throws", "accessor", "absent", "other", "bad", "good", "mnemonic", "software_key"}

Nothing == [f \in Fields |-> "absent"]

(* The steps of a layer, in the order of the code: a read of a field, a check of what was  *)
(* read.                                                                                    *)
Read(object, name, as) == [do |-> "read", field |-> <<object, name>>, as |-> as]
Check(object, name, as) == [do |-> "check", field |-> <<object, name>>, as |-> as]

Argument(name, as) == <<Read("argument", name, "argument"), Check("argument", name, as)>>
Nested(object, name) == <<Read(object, name, "required"), Check(object, name, "object")>>
Status(object) == <<Read(object, "status", "string"), Check(object, "status", "enum")>>

snapshotExportTarget(target) ==
    <<Read(target, "kind", "string"), Check(target, "kind", "kind"),
      Read(target, "profile_id", "string"), Check(target, "profile_id", "uuid"),
      Read(target, "key_id", "optional"), Check(target, "key_id", "key")>>

snapshotExportConfirmation(object, target) ==
    Nested(object, "target") \o snapshotExportTarget(target) \o Status(object)

snapshotExportRequest ==
    Nested("request", "target") \o snapshotExportTarget("target") \o
    Nested("request", "user_request") \o
    snapshotExportConfirmation("user_request", "user_request.target") \o
    Nested("request", "application_confirmation") \o
    snapshotExportConfirmation("application_confirmation", "application_confirmation.target")

snapshotAccountContext ==
    <<Read("context", "chain", "string"), Read("context", "network", "string"),
      Check("context", "chain", "enum"), Check("context", "network", "enum")>>

snapshotSigningTarget ==
    <<Read("signing_target", "profile_id", "string"), Read("signing_target", "key_id", "string"),
      Check("signing_target", "profile_id", "uuid"), Check("signing_target", "key_id", "uuid")>>
    \o Nested("signing_target", "context") \o snapshotAccountContext

snapshotUint8Array(object, name) ==
    <<Read(object, name, "required"), Check(object, name, "bytes")>>

snapshotSigningRequest ==
    Nested("request", "target") \o snapshotSigningTarget \o
    snapshotUint8Array("request", "payload") \o
    Nested("request", "approval") \o Status("approval")

Inputs(o) ==
    CASE o \in {"prepare_generated_profile", "restore_profile"} -> Argument("network", "number")
      [] o \in {"export_mnemonic", "export_private_key"} ->
             Argument("request", "object") \o snapshotExportRequest
      [] o \in {"list_software_keys", "change_profile_password", "delete_profile"} ->
             Argument("profileId", "uuid")
      [] o = "derive_software_key" ->
             Argument("profileId", "uuid") \o Argument("chain", "number") \o
             Argument("accountIndex", "index")
      [] o \in {"import_software_key", "generate_software_key"} ->
             Argument("profileId", "uuid") \o Argument("chain", "number")
      [] o = "get_public_account" ->
             Argument("profileId", "uuid") \o Argument("keyId", "uuid") \o
             Argument("context", "object") \o snapshotAccountContext
      [] o = "delete_software_key" -> Argument("profileId", "uuid") \o Argument("keyId", "uuid")
      [] o = "sign" -> Argument("request", "object") \o snapshotSigningRequest
      [] o \in {"create_empty_store", "finalize_generated_profile", "list_profiles"} -> <<>>

(* The byte arguments are not looked at: the backend is given the caller's own arrays. *)
Bytes(o) ==
    {"bytes"} \X
    CASE o = "create_empty_store" -> {}
      [] o \in {"list_profiles", "list_software_keys"} -> {"store"}
      [] o = "finalize_generated_profile" -> {"store", "pendingProfile", "passwordUtf8"}
      [] o = "restore_profile" -> {"store", "mnemonicUtf8", "passwordUtf8"}
      [] o = "import_software_key" -> {"store", "passwordUtf8", "privateKey"}
      [] o = "change_profile_password" ->
             {"store", "currentPasswordUtf8", "newPasswordUtf8"}
      [] o \in {"prepare_generated_profile", "export_mnemonic", "export_private_key",
                "derive_software_key", "generate_software_key", "get_public_account", "sign",
                "delete_software_key", "delete_profile"} -> {"store", "passwordUtf8"}

(* What reading a field throws, or "ok". An argument is there already. *)
dtoField(as, value) ==
    CASE as = "argument" -> "ok"
      [] as # "argument" ->
             IF value = "throws" \/ (value = "other" /\ as = "string") THEN "BindingFailure"
             ELSE IF value = "accessor" \/ (value = "absent" /\ as # "optional")
             THEN "InvalidArgument"
             ELSE "ok"

Allowed(step, values) ==
    LET value == values[step.field]
        kind == values[<<step.field[1], "kind">>]
    IN  CASE step.as = "kind" -> value \in {"mnemonic", "software_key"}
          [] step.as = "key" -> \/ kind = "mnemonic" /\ value = "absent"
                                \/ kind = "software_key" /\ value = "good"
          [] step.as \notin {"kind", "key"} -> value = "good"

(* What a check of the values read throws, or "ok": requiredObject, snapshotUint8Array,    *)
(* validateUuidValue, validateNetworkOrChain, validateAccountIndex, comparisons.            *)
validate(step, values) ==
    LET value == values[step.field]
        mistyped == \/ value = "other"
                    \/ value = "absent" /\ step.as # "key"
                    \/ step.as \in {"object", "bytes"}
    IN  IF Allowed(step, values) THEN "ok"
        ELSE IF mistyped THEN "BindingFailure"
        ELSE IF step.as = "index" THEN "InvalidAccountIndex" ELSE "InvalidArgument"

-----------------------------------------------------------------------------
(* Outputs: the reads of each result, in order. *)

SecretFields(o) ==
    CASE o = "prepare_generated_profile" -> <<"mnemonic_utf8", "pending_profile">>
      [] o = "export_mnemonic" -> <<"mnemonic_utf8">>
      [] o = "export_private_key" -> <<"private_key">>
      [] o \notin {"prepare_generated_profile", "export_mnemonic", "export_private_key"} -> <<>>

Secrets(o) == {SecretFields(o)[i] : i \in DOMAIN SecretFields(o)}

Reads(names) == [i \in DOMAIN names |-> <<"read", names[i]>>]
Each(step, fields) == [i \in DOMAIN fields |-> <<step, fields[i]>>]

outputReadResult == Reads(<<"value", "warnings">>)
outputMutationResult == Reads(<<"store", "value", "warnings">>)
outputSecretReadResult(fields) ==
    Reads(<<"value">>) \o Each("obtain", fields) \o Reads(<<"warnings">>) \o Each("copy", fields)

Outputs(o) ==
    CASE o = "create_empty_store" -> Reads(<<"store">>)
      [] o \in {"prepare_generated_profile", "export_mnemonic", "export_private_key"} ->
             outputSecretReadResult(SecretFields(o))
      [] o \in {"list_profiles", "list_software_keys", "get_public_account", "sign"} ->
             outputReadResult
      [] o \in {"finalize_generated_profile", "restore_profile", "derive_software_key",
                "import_software_key", "generate_software_key", "change_profile_password",
                "delete_software_key", "delete_profile"} -> outputMutationResult

(* The arrays: what a layer made of the payload to sign or of a secret field of the result. *)
Payload(d) == <<"payload", d>>
Array(field, d) == <<field, d>>
CallerPayload == Payload(Depth + 1)
Arrays == {"payload", "mnemonic_utf8", "pending_profile", "private_key"} \X (0 .. Depth + 1)

(* Contents of an array: secret bytes, of the expected or another length; zeroes; nothing *)
(* that can be read, because its buffer is detached or it is no byte array. An array that *)
(* was not made is absent.                                                                *)
Secret == {"secret", "other-length"}
Contents == Secret \cup {"zero", "detached", "no-bytes", "absent"}

(* Only a private key has a length to check. *)
outputBytes(field, content) ==
    \/ content \in {"secret", "zero"}
    \/ content = "other-length" /\ field # "private_key"

(* A detached buffer cannot be filled; the error is swallowed. *)
clearSecretBytes(memory, arrays) ==
    [a \in Arrays |->
        IF a \in arrays /\ memory[a] \in Secret THEN "zero" ELSE memory[a]]

(* The caller catches the first candidate that is a code of the Core. *)
normalizeOperationError(candidates) ==
    LET known == {i \in DOMAIN candidates : candidates[i] \in CORE_ERROR_CODES}
    IN  IF known = {} THEN "BindingFailure"
        ELSE candidates[CHOOSE i \in known : \A k \in known : i <= k]

-----------------------------------------------------------------------------
Init ==
    /\ op = None /\ phase = "idle" /\ layer = Depth /\ pos = 1
    /\ given = [d \in 0 .. Depth |-> Nothing] /\ snapshot = Nothing
    /\ heap = [a \in Arrays |-> IF a = CallerPayload THEN "secret" ELSE "absent"]
    /\ sources = {} /\ copies = {}
    /\ thrown = None /\ outcome = None

Call(o) ==
    /\ phase = "idle"
    /\ op' = o
    /\ phase' = "input"
    /\ given' = [given EXCEPT ![Depth] =
                   [f \in Fields |-> IF f \in Bytes(o) THEN "caller" ELSE "absent"]]
    /\ UNCHANGED <<layer, pos, snapshot, heap, sources, copies, thrown, outcome>>

(* Layer d throws, with its arrays cleared: outputSecretReadResult's catch and finally, and *)
(* the payload of sign. The layers above normalise the error and clear their payloads.      *)
Throw(code) ==
    /\ thrown' = <<code>>
    /\ outcome' = normalizeOperationError(<<code>>)
    /\ heap' = clearSecretBytes(heap, sources \cup copies \cup {Payload(layer)})
    /\ copies' = {}
    /\ phase' = "unwind"
    /\ UNCHANGED sources

(* What a read can give: an inner layer is called with what the outer one made, the        *)
(* outermost with what the caller did, which may answer every read differently.            *)
Offered(step) ==
    IF layer < Depth THEN {given[layer][step.field]}
    ELSE IF step.as = "argument" THEN Values \ {"throws", "accessor"} ELSE Values

ReadInput ==
    /\ phase = "input" /\ pos <= Len(Inputs(op))
    /\ LET step == Inputs(op)[pos]
       IN  /\ step.do = "read"
           /\ \E value \in Offered(step) :
                \/ /\ dtoField(step.as, value) = "ok"
                   /\ snapshot' = [snapshot EXCEPT ![step.field] = value]
                   /\ pos' = pos + 1
                   /\ UNCHANGED <<op, phase, layer, given, heap, sources, copies, thrown,
                                  outcome>>
                \/ /\ dtoField(step.as, value) # "ok"
                   /\ Throw(dtoField(step.as, value))
                   /\ UNCHANGED <<op, layer, pos, given, snapshot>>

(* A check looks at what was read, never at the object again; the payload is copied. *)
CheckInput ==
    /\ phase = "input" /\ pos <= Len(Inputs(op))
    /\ LET step == Inputs(op)[pos]
       IN  /\ step.do = "check"
           /\ \/ /\ validate(step, snapshot) = "ok"
                 /\ IF step.as = "bytes"
                    THEN heap' = [heap EXCEPT ![Payload(layer)] = heap[Payload(layer + 1)]]
                    ELSE UNCHANGED heap
                 /\ pos' = pos + 1
                 /\ UNCHANGED <<op, phase, layer, given, snapshot, sources, copies, thrown,
                                outcome>>
              \/ /\ validate(step, snapshot) # "ok"
                 /\ Throw(validate(step, snapshot))
                 /\ UNCHANGED <<op, layer, pos, given, snapshot>>

PassedDown ==
    [f \in Fields |-> IF f \in Bytes(op) THEN given[layer][f] ELSE snapshot[f]]

\* Mutant: a field of the caller's object is read once more for the backend.
PassDown_ReadsAgain ==
    /\ phase = "input" /\ pos > Len(Inputs(op))
    /\ \/ given' = [given EXCEPT ![layer - 1] = PassedDown]
       \/ \E i \in DOMAIN Inputs(op), value \in Values :
            given' = [given EXCEPT ![layer - 1] =
                        [PassedDown EXCEPT ![Inputs(op)[i].field] = value]]
    /\ snapshot' = Nothing
    /\ layer' = layer - 1
    /\ pos' = 1
    /\ phase' = IF layer = 1 THEN "backend" ELSE "input"
    /\ UNCHANGED <<op, heap, sources, copies, thrown, outcome>>

(* invoke calls the backend, the next facade or the real one, with the snapshot and the    *)
(* caller's byte arguments.                                                                 *)
PassDown ==
    /\ phase = "input" /\ pos > Len(Inputs(op))
    /\ given' = [given EXCEPT ![layer - 1] = PassedDown]
    /\ snapshot' = Nothing
    /\ layer' = layer - 1
    /\ pos' = 1
    /\ phase' = IF layer = 1 THEN "backend" ELSE "input"
    /\ UNCHANGED <<op, heap, sources, copies, thrown, outcome>>

(* The backend returns, with arrays of its own for the secrets. *)
BackendReturns ==
    /\ phase = "backend"
    /\ \E made \in [Secrets(op) -> Contents \ {"zero", "absent"}] :
         heap' = [a \in Arrays |->
                    IF a[2] = 0 /\ a[1] \in Secrets(op) THEN made[a[1]] ELSE heap[a]]
    /\ layer' = 1
    /\ phase' = "output"
    /\ UNCHANGED <<op, pos, given, snapshot, sources, copies, thrown, outcome>>

(* The code and the message, where they are strings, of what the backend throws. *)
BackendErrors ==
    {<<>>, <<"other">>, <<"AuthenticationFailed">>, <<"AuthenticationFailed", "other">>,
     <<"other", "AuthenticationFailed">>, <<"other", "other">>,
     <<"ProfileNotFound", "AuthenticationFailed">>}

(* invoke normalises it in the innermost facade. *)
BackendThrows ==
    /\ phase = "backend"
    /\ \E candidates \in BackendErrors :
         /\ thrown' = candidates
         /\ outcome' = normalizeOperationError(candidates)
    /\ layer' = 1
    /\ phase' = "unwind"
    /\ heap' = clearSecretBytes(heap, {Payload(1)})
    /\ UNCHANGED <<op, pos, given, snapshot, sources, copies>>

-----------------------------------------------------------------------------
(* property, outputWarnings and the other normalisers: what the backend made may be        *)
(* malformed, what a facade made is not.                                                    *)
ReadOutput ==
    /\ phase = "output" /\ pos <= Len(Outputs(op))
    /\ Outputs(op)[pos][1] = "read"
    /\ \/ /\ pos' = pos + 1
          /\ UNCHANGED <<op, phase, layer, given, snapshot, heap, sources, copies, thrown, outcome>>
       \/ /\ layer = 1
          /\ Throw("BindingFailure")
          /\ UNCHANGED <<op, layer, pos, given, snapshot>>

ObtainSecret ==
    /\ phase = "output" /\ pos <= Len(Outputs(op))
    /\ Outputs(op)[pos][1] = "obtain"
    /\ \/ /\ sources' = sources \cup {Array(Outputs(op)[pos][2], layer - 1)}
          /\ pos' = pos + 1
          /\ UNCHANGED <<op, phase, layer, given, snapshot, heap, copies, thrown, outcome>>
       \/ /\ layer = 1
          /\ Throw("BindingFailure")
          /\ UNCHANGED <<op, layer, pos, given, snapshot>>

\* Mutant: a failing field leaves the copies of earlier ones.
CopySecret_KeepsCopies ==
    /\ phase = "output" /\ pos <= Len(Outputs(op))
    /\ Outputs(op)[pos][1] = "copy"
    /\ LET field == Outputs(op)[pos][2]
       IN  \/ /\ outputBytes(field, heap[Array(field, layer - 1)])
              /\ heap' = [heap EXCEPT ![Array(field, layer)] = heap[Array(field, layer - 1)]]
              /\ copies' = {}
              /\ pos' = pos + 1
              /\ UNCHANGED <<op, phase, layer, given, snapshot, sources, thrown, outcome>>
           \/ /\ ~outputBytes(field, heap[Array(field, layer - 1)])
              /\ Throw("BindingFailure")
              /\ UNCHANGED <<op, layer, pos, given, snapshot>>

CopySecret ==
    /\ phase = "output" /\ pos <= Len(Outputs(op))
    /\ Outputs(op)[pos][1] = "copy"
    /\ LET field == Outputs(op)[pos][2]
       IN  \/ /\ outputBytes(field, heap[Array(field, layer - 1)])
              /\ heap' = [heap EXCEPT ![Array(field, layer)] = heap[Array(field, layer - 1)]]
              /\ copies' = copies \cup {Array(field, layer)}
              /\ pos' = pos + 1
              /\ UNCHANGED <<op, phase, layer, given, snapshot, sources, thrown, outcome>>
           \/ /\ ~outputBytes(field, heap[Array(field, layer - 1)])
              /\ Throw("BindingFailure")
              /\ UNCHANGED <<op, layer, pos, given, snapshot>>

(* The layer returns: its sources and its payload are cleared, its copies go up. *)
Return ==
    /\ phase = "output" /\ pos > Len(Outputs(op))
    /\ heap' = clearSecretBytes(heap, sources \cup {Payload(layer)})
    /\ copies' = {}
    /\ IF layer = Depth
       THEN phase' = "done" /\ outcome' = "ok" /\ UNCHANGED <<layer, pos>>
       ELSE layer' = layer + 1 /\ pos' = 1 /\ UNCHANGED <<phase, outcome>>
    /\ UNCHANGED <<op, given, snapshot, sources, thrown>>

\* Mutant: an error of another facade is not recognised.
Unwind_Opaque ==
    /\ phase = "unwind"
    /\ IF layer = Depth
       THEN phase' = "done" /\ UNCHANGED <<layer, heap, outcome>>
       ELSE /\ layer' = layer + 1
            /\ outcome' = normalizeOperationError(<<>>)
            /\ heap' = clearSecretBytes(heap, {Payload(layer + 1)})
            /\ UNCHANGED phase
    /\ UNCHANGED <<op, pos, given, snapshot, sources, copies, thrown>>

(* The next facade catches a WalletCoreError, of its own class or of another copy of it, *)
(* whose code and message are the code.                                                   *)
Unwind ==
    /\ phase = "unwind"
    /\ IF layer = Depth
       THEN phase' = "done" /\ UNCHANGED <<layer, heap, outcome>>
       ELSE /\ layer' = layer + 1
            /\ outcome' = normalizeOperationError(<<outcome, outcome>>)
            /\ heap' = clearSecretBytes(heap, {Payload(layer + 1)})
            /\ UNCHANGED phase
    /\ UNCHANGED <<op, pos, given, snapshot, sources, copies, thrown>>

-----------------------------------------------------------------------------
Step ==
    \/ \E o \in Operations : Call(o)
    \/ ReadInput \/ CheckInput \/ PassDown \/ BackendReturns \/ BackendThrows
    \/ ReadOutput \/ ObtainSecret \/ CopySecret \/ Return \/ Unwind

(* The call has ended. *)
Ended == phase = "done" /\ UNCHANGED vars

Next == Step \/ Ended

Spec == Init /\ [][Next]_vars

-----------------------------------------------------------------------------
(* Properties *)

Returned == {Array(f, Depth) : f \in Secrets(op)}

(* However the call ends, at whatever read of whatever layer, no facade leaves secret     *)
(* bytes in an array that the caller was not given: sources, copies of a result that is   *)
(* not returned, payload snapshots (outputSecretReadResult, snapshotSigningRequest, sign);*)
(* and it never erases what the caller owns or is given, its payload and the secrets of a *)
(* call that succeeds. An array of the backend that no facade got hold of is out of reach.*)
WipesExactlyItsCopies ==
    /\ heap[CallerPayload] = "secret"
    /\ phase = "done" =>
          /\ outcome = "ok" => \A a \in Returned : heap[a] \in Secret
          /\ \A a \in Arrays : heap[a] \in Secret =>
                \/ a = CallerPayload
                \/ outcome = "ok" /\ a \in Returned
                \/ a[2] = 0 /\ a \notin sources

(* The fields an operation needs, each with a value of its kind; an export also names in   *)
(* each of its targets a Mnemonic, which has no key, or a Software Key, which has one.      *)
Required(o) ==
    CASE o \in {"prepare_generated_profile", "restore_profile"} -> {"argument"} \X {"network"}
      [] o \in {"export_mnemonic", "export_private_key"} ->
             {<<"argument", "request">>}
               \cup ({"request"} \X {"target", "user_request", "application_confirmation"})
               \cup ({"user_request", "application_confirmation"} \X {"target", "status"})
               \cup (ExportTargets \X {"profile_id"})
      [] o \in {"list_software_keys", "change_profile_password", "delete_profile"} ->
             {"argument"} \X {"profileId"}
      [] o = "derive_software_key" -> {"argument"} \X {"profileId", "chain", "accountIndex"}
      [] o \in {"import_software_key", "generate_software_key"} ->
             {"argument"} \X {"profileId", "chain"}
      [] o = "get_public_account" ->
             ({"argument"} \X {"profileId", "keyId", "context"})
               \cup ({"context"} \X {"chain", "network"})
      [] o = "delete_software_key" -> {"argument"} \X {"profileId", "keyId"}
      [] o = "sign" ->
             {<<"argument", "request">>, <<"approval", "status">>}
               \cup ({"request"} \X {"target", "payload", "approval"})
               \cup ({"signing_target"} \X {"profile_id", "key_id", "context"})
               \cup ({"context"} \X {"chain", "network"})
      [] o \in {"create_empty_store", "finalize_generated_profile", "list_profiles"} -> {}

Targets(o) == IF o \in {"export_mnemonic", "export_private_key"} THEN ExportTargets ELSE {}

WellFormed(o, values) ==
    /\ \A f \in Bytes(o) : values[f] = "caller"
    /\ \A f \in Required(o) : values[f] = "good"
    /\ \A t \in Targets(o) :
          <<values[<<t, "kind">>], values[<<t, "key_id">>]>>
            \in {<<"mnemonic", "absent">>, <<"software_key", "good">>}
    /\ \A f \in Fields \ (Bytes(o) \cup Required(o) \cup (Targets(o) \X {"kind", "key_id"})) :
          values[f] = "absent"

(* Whatever the caller's objects answer from one read to the next, and however many        *)
(* facades are stacked, the backend is called with the request that the outermost facade   *)
(* checked: every field the operation needs has an allowed value, there is no other field, *)
(* an export target has a key exactly when it names a Software Key; the byte arguments are *)
(* the caller's own, which no facade checks (dtoField, snapshot* functions, invoke). And   *)
(* what the outermost facade passes on, however the call ends, reaches the backend: no     *)
(* inner facade refuses a snapshot of an outer one (snapshotExportTarget leaves out the    *)
(* key of a Mnemonic target, which it would not accept).                                    *)
BackendGetsTheCheckedRequest ==
    /\ phase \in {"backend", "output"} => WellFormed(op, given[0])
    /\ phase # "input" => given[0] = given[Depth - 1]

(* The caller catches the same code however many facades lie between, and it is the code  *)
(* that the failing step or the backend gave (normalizeOperationError).                   *)
ErrorIsTheFirstThrown ==
    (phase = "done" /\ outcome # "ok") => outcome = normalizeOperationError(thrown)

=============================================================================
