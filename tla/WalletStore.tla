---------------------------- MODULE WalletStore -----------------------------
(***************************************************************************)
(* Wallet Store v1 (crates/core/src/store.rs): the pure functions that     *)
(* validate a Store, authenticate a Profile and compute the replacement    *)
(* Store of every mutation.                                                *)
(*                                                                         *)
(* A Store keeps its Profiles in an array that the encoder sorts and the   *)
(* decoder requires to be strictly ascending by profile_id, so a Store is  *)
(* here a function from Profile ids to envelopes, and its bytes are equal  *)
(* to another Store's iff the values are equal; Software Keys and the      *)
(* index of an envelope likewise are functions from key ids.               *)
(*                                                                         *)
(* Every function f of the code is an operator f_code, the ErrorCode it    *)
(* returns ("Ok" when it succeeds), and an operator f, the value or the    *)
(* replacement Store it returns with "Ok".  A failing call returns no      *)
(* Store.  Random values (ids, salt, nonce, entropy) are parameters.       *)
(***************************************************************************)
EXTENDS WalletCrypto, FiniteSets

CONSTANTS
  ProfileIds,    \* 16-byte random Profile ids
  KeyIds,        \* 16-byte random Software Key ids
  MaxProfiles,   \* MAX_PROFILES, 128 in the code
  MaxKeys        \* MAX_SOFTWARE_KEYS_PER_PROFILE, 256 in the code

ASSUME LimitAssumption ==
  /\ MaxProfiles \in Nat
  /\ MaxKeys \in Nat

(***************************************************************************)
(* Early returns: a ?? b is Rust's `a?; b`.                                *)
(***************************************************************************)

Require(condition, error) == IF condition THEN "Ok" ELSE error

a ?? b == IF a = "Ok" THEN b ELSE a

(***************************************************************************)
(* The records of the wire format                                          *)
(***************************************************************************)

SoftwareKeyOrigin ==
  [kind : {"Derived"}, account_index : AccountIndexes]
    \cup [kind : {"Imported", "Generated"}]

KeyRecord == [chain : Chain, private_key : PrivateKeys, origin : SoftwareKeyOrigin]

DuplicateTag == [registry_key : Nat, network : Network, entropy : Entropies]

EncryptionKey == [password : ValidPasswords, salt : Nat]

IsKeyMap(map, Values) ==
  DOMAIN map \subseteq KeyIds /\ map \in [DOMAIN map -> Values]

IsProfilePayload(payload) ==
  /\ payload = [mnemonic_entropy |-> payload.mnemonic_entropy,
                software_keys |-> payload.software_keys]
  /\ payload.mnemonic_entropy \in Entropies
  /\ IsKeyMap(payload.software_keys, KeyRecord)

IsProfileEnvelope(profile) ==
  /\ profile = [network |-> profile.network, duplicate_tag |-> profile.duplicate_tag,
                salt |-> profile.salt, nonce |-> profile.nonce,
                index |-> profile.index, box |-> profile.box]
  /\ profile.network \in Network
  /\ profile.duplicate_tag \in DuplicateTag
  /\ profile.salt \in Nat
  /\ profile.nonce \in Nat
  /\ IsKeyMap(profile.index, Chain)
  /\ profile.box.key \in EncryptionKey
  /\ profile.box.nonce \in Nat
  /\ IsProfilePayload(profile.box.plaintext)

IsWalletStore(store) ==
  /\ store = [registry_key |-> store.registry_key, profiles |-> store.profiles]
  /\ store.registry_key \in Nat
  /\ store.profiles = [p \in DOMAIN store.profiles |-> store.profiles[p]]
  /\ DOMAIN store.profiles \subseteq ProfileIds
  /\ \A p \in DOMAIN store.profiles : IsProfileEnvelope(store.profiles[p])

IsPendingProfile(pending) ==
  /\ IsWalletStore(pending.target)
  /\ pending.profile_id \in ProfileIds
  /\ pending.network \in Network
  /\ pending.salt \in Nat
  /\ pending.nonce \in Nat
  /\ pending.box.key \in EncryptionKey
  /\ pending.box.plaintext \in Entropies

\* Mutant: the index is built with one Chain for every key.
index_from_payload_OneChain(payload) ==
  [k \in DOMAIN payload.software_keys |-> "Symbol"]

index_from_payload(payload) ==
  [k \in DOMAIN payload.software_keys |-> payload.software_keys[k].chain]

\* The context a Profile's payload is authenticated against.
profile_aad_from_parts(registry_key, profile_id, network, tag, index) ==
  [registry_key |-> registry_key, profile_id |-> profile_id,
   network |-> network, duplicate_tag |-> tag, index |-> index]

EmptyStore(registry_key) ==
  [registry_key |-> registry_key, profiles |-> [p \in {} |-> p]]

PutProfile(store, id, profile) ==
  [store EXCEPT !.profiles =
     [p \in DOMAIN store.profiles \cup {id} |->
        IF p = id THEN profile ELSE store.profiles[p]]]

DropProfile(store, id) ==
  [store EXCEPT !.profiles =
     [p \in DOMAIN store.profiles \ {id} |-> store.profiles[p]]]

PutKey(payload, id, record) ==
  [payload EXCEPT !.software_keys =
     [k \in DOMAIN payload.software_keys \cup {id} |->
        IF k = id THEN record ELSE payload.software_keys[k]]]

DropKey(payload, id) ==
  [payload EXCEPT !.software_keys =
     [k \in DOMAIN payload.software_keys \ {id} |-> payload.software_keys[k]]]

(***************************************************************************)
(* Decoding and encoding: the limits both sides enforce                    *)
(***************************************************************************)

parse_profile_code(profile) ==
  Require(Cardinality(DOMAIN profile.index) <= MaxKeys, "InvalidStore")

decode_store_code(store) ==
  Require(/\ Cardinality(DOMAIN store.profiles) <= MaxProfiles
          /\ \A p \in DOMAIN store.profiles :
               parse_profile_code(store.profiles[p]) = "Ok",
          "InvalidStore")

encode_store_code(store) ==
  Require(Cardinality(DOMAIN store.profiles) <= MaxProfiles, "SerializationFailure")

\* Mutant: the encoder does not enforce the decoder's limit.
encode_payload_code_NoLimit(payload) == "Ok"

encode_payload_code(payload) ==
  Require(Cardinality(DOMAIN payload.software_keys) <= MaxKeys, "SerializationFailure")

parse_payload_code(payload) ==
  Require(Cardinality(DOMAIN payload.software_keys) <= MaxKeys, "InvalidStore")

(***************************************************************************)
(* Authentication and (re-)encryption of a Profile                         *)
(***************************************************************************)

profile_aad(store, id) ==
  LET profile == store.profiles[id] IN
  profile_aad_from_parts(store.registry_key, id, profile.network,
                         profile.duplicate_tag, profile.index)

\* What AEAD alone does not show: the tag's meaning, the index, the keys.
validate_authenticated_profile(store, id, payload) ==
  LET profile == store.profiles[id] IN
  /\ profile.duplicate_tag =
       duplicate_tag(store.registry_key, profile.network, payload.mnemonic_entropy)
  /\ profile.index = index_from_payload(payload)
  /\ \A k \in DOMAIN payload.software_keys :
       validate_private_key(payload.software_keys[k].private_key)

authenticate_profile_code(store, id, password) ==
  LET profile == store.profiles[id]
      payload == profile.box.plaintext
  IN  Require(id \in DOMAIN store.profiles, "ProfileNotFound")
      ?? Require(validate_password(password), "InvalidArgument")
      ?? Require(decrypts(derive_encryption_key(password, profile.salt),
                          profile.nonce, profile_aad(store, id), profile.box),
                 "AuthenticationFailed")
      ?? parse_payload_code(payload)
      ?? Require(validate_authenticated_profile(store, id, payload), "InvalidStore")

authenticate_profile(store, id) == store.profiles[id].box.plaintext

\* Mutant: the ciphertext is bound to the index of a Profile without keys.
SealedProfile_StaleIndex(registry_key, id, network, tag, salt, nonce, payload, password) ==
  [network |-> network, duplicate_tag |-> tag, salt |-> salt, nonce |-> nonce,
   index |-> index_from_payload(payload),
   box |-> encrypt(derive_encryption_key(password, salt), nonce,
                   profile_aad_from_parts(registry_key, id, network, tag, [k \in {} |-> k]),
                   payload)]

\* Seals a payload into an envelope; the index is rebuilt from the payload.
SealedProfile(registry_key, id, network, tag, salt, nonce, payload, password) ==
  LET index == index_from_payload(payload) IN
  [network |-> network, duplicate_tag |-> tag, salt |-> salt, nonce |-> nonce,
   index |-> index,
   box |-> encrypt(derive_encryption_key(password, salt), nonce,
                   profile_aad_from_parts(registry_key, id, network, tag, index),
                   payload)]

new_encrypted_profile(registry_key, id, network, tag, payload, password, random) ==
  SealedProfile(registry_key, id, network, tag, random, random, payload, password)

\* Mutant: re-encryption under the same salt keeps the nonce.
reencrypt_profile_SameNonce(store, id, payload, password, change_password, random) ==
  LET profile == store.profiles[id] IN
  PutProfile(store, id,
    SealedProfile(store.registry_key, id, profile.network, profile.duplicate_tag,
                  IF change_password THEN random ELSE profile.salt,
                  IF change_password THEN random ELSE profile.nonce, payload, password))

\* The salt changes only with the password; the nonce always does.
reencrypt_profile(store, id, payload, password, change_password, random) ==
  LET profile == store.profiles[id] IN
  PutProfile(store, id,
    SealedProfile(store.registry_key, id, profile.network, profile.duplicate_tag,
                  IF change_password THEN random ELSE profile.salt,
                  random, payload, password))

(***************************************************************************)
(* Profiles                                                                *)
(***************************************************************************)

\* Mutant: the duplicate check skips envelopes without keys.
DuplicateProfile_SkipsEmpty(store, tag) ==
  \E p \in DOMAIN store.profiles :
    store.profiles[p].duplicate_tag = tag /\ DOMAIN store.profiles[p].index # {}

DuplicateProfile(store, tag) ==
  \E p \in DOMAIN store.profiles : store.profiles[p].duplicate_tag = tag

new_profile_id(store) == ProfileIds \ DOMAIN store.profiles

NewProfileStore(store, id, network, entropy, password, random) ==
  PutProfile(store, id,
    new_encrypted_profile(store.registry_key, id, network,
      duplicate_tag(store.registry_key, network, entropy),
      [mnemonic_entropy |-> entropy, software_keys |-> [k \in {} |-> k]],
      password, random))

\* A Pending Profile is bound to the bytes of the Store it was prepared for.
pending_aad(target, id, network) ==
  [target |-> target, profile_id |-> id, network |-> network]

make_pending(store, id, network, entropy, password, random) ==
  [target |-> store, profile_id |-> id, network |-> network,
   salt |-> random, nonce |-> random,
   box |-> encrypt(derive_encryption_key(password, random), random,
                   pending_aad(store, id, network), entropy)]

prepare_generated_profile_code(store, password) ==
  decode_store_code(store)
  ?? Require(validate_password(password), "InvalidArgument")

finalize_generated_profile(store, pending, password, random) ==
  NewProfileStore(store, pending.profile_id, pending.network,
                  pending.box.plaintext, password, random)

finalize_generated_profile_code(store, pending, password, random) ==
  Require(validate_password(password), "InvalidArgument")
  ?? decode_store_code(store)
  ?? Require(pending.target = store, "PendingProfileInvalid")
  ?? Require(decrypts(derive_encryption_key(password, pending.salt), pending.nonce,
                      pending_aad(pending.target, pending.profile_id, pending.network),
                      pending.box),
             "AuthenticationFailed")
  ?? Require(~DuplicateProfile(store,
                duplicate_tag(store.registry_key, pending.network, pending.box.plaintext)),
             "DuplicateProfile")
  ?? Require(pending.profile_id \notin DOMAIN store.profiles, "PendingProfileInvalid")
  ?? encode_store_code(finalize_generated_profile(store, pending, password, random))

restore_profile(store, id, network, entropy, password, random) ==
  NewProfileStore(store, id, network, entropy, password, random)

restore_profile_code(store, id, network, entropy, password, random) ==
  Require(validate_password(password), "InvalidArgument")
  ?? decode_store_code(store)
  ?? Require(parse_mnemonic(entropy), "InvalidMnemonic")
  ?? Require(~DuplicateProfile(store, duplicate_tag(store.registry_key, network, entropy)),
             "DuplicateProfile")
  ?? encode_store_code(restore_profile(store, id, network, entropy, password, random))

change_profile_password(store, id, new, random) ==
  reencrypt_profile(store, id, authenticate_profile(store, id), new, TRUE, random)

\* Mutant: the current password is not verified.
change_profile_password_code_NoAuth(store, id, current, new, random) ==
  Require(validate_password(new), "InvalidArgument")
  ?? decode_store_code(store)
  ?? Require(id \in DOMAIN store.profiles, "ProfileNotFound")

change_profile_password_code(store, id, current, new, random) ==
  Require(validate_password(new), "InvalidArgument")
  ?? decode_store_code(store)
  ?? authenticate_profile_code(store, id, current)
  ?? encode_payload_code(authenticate_profile(store, id))
  ?? encode_store_code(change_profile_password(store, id, new, random))

delete_profile(store, id) == DropProfile(store, id)

delete_profile_code(store, id, password) ==
  decode_store_code(store)
  ?? authenticate_profile_code(store, id, password)
  ?? encode_store_code(delete_profile(store, id))

(***************************************************************************)
(* Software Keys                                                           *)
(***************************************************************************)

\* Mutant: only the same key on the other Chain is a duplicate.
ensure_not_duplicate_OtherChain(payload, chain, private_key) ==
  \A k \in DOMAIN payload.software_keys :
    ~(/\ payload.software_keys[k].chain # chain
      /\ payload.software_keys[k].private_key = private_key)

\* Only the same Chain and the same private key in one Profile is a duplicate.
ensure_not_duplicate(payload, chain, private_key) ==
  \A k \in DOMAIN payload.software_keys :
    ~(/\ payload.software_keys[k].chain = chain
      /\ payload.software_keys[k].private_key = private_key)

new_key_id(payload) == KeyIds \ DOMAIN payload.software_keys

\* The common tail of derive, import and generate.
AddKey(store, id, password, key_id, record, random) ==
  reencrypt_profile(store, id, PutKey(authenticate_profile(store, id), key_id, record),
                    password, FALSE, random)

AddKey_code(store, id, password, key_id, record, random) ==
  Require(ensure_not_duplicate(authenticate_profile(store, id), record.chain,
                               record.private_key),
          "DuplicateSoftwareKey")
  ?? encode_payload_code(PutKey(authenticate_profile(store, id), key_id, record))
  ?? encode_store_code(AddKey(store, id, password, key_id, record, random))

\* Mutant: every key is derived for the main network.
DerivedRecord_Mainnet(store, id, chain, account_index) ==
  [chain |-> chain,
   private_key |-> derive_private_key(authenticate_profile(store, id).mnemonic_entropy,
                                      chain, "Mainnet", account_index),
   origin |-> [kind |-> "Derived", account_index |-> account_index]]

DerivedRecord(store, id, chain, account_index) ==
  [chain |-> chain,
   private_key |-> derive_private_key(authenticate_profile(store, id).mnemonic_entropy,
                                      chain, store.profiles[id].network, account_index),
   origin |-> [kind |-> "Derived", account_index |-> account_index]]

derive_software_key(store, id, password, key_id, chain, account_index, random) ==
  AddKey(store, id, password, key_id,
         DerivedRecord(store, id, chain, account_index), random)

derive_software_key_code(store, id, password, key_id, chain, account_index, random) ==
  decode_store_code(store)
  ?? authenticate_profile_code(store, id, password)
  ?? Require(ValidAccountIndex(account_index), "InvalidAccountIndex")
  ?? Require(validate_private_key(DerivedRecord(store, id, chain, account_index).private_key),
             "InvalidPrivateKey")
  ?? AddKey_code(store, id, password, key_id,
                 DerivedRecord(store, id, chain, account_index), random)

ImportedRecord(chain, private_key) ==
  [chain |-> chain, private_key |-> private_key, origin |-> [kind |-> "Imported"]]

import_software_key(store, id, password, key_id, chain, private_key, random) ==
  AddKey(store, id, password, key_id, ImportedRecord(chain, private_key), random)

import_software_key_code(store, id, password, key_id, chain, private_key, random) ==
  decode_store_code(store)
  ?? authenticate_profile_code(store, id, password)
  ?? Require(validate_private_key(private_key), "InvalidPrivateKey")
  ?? AddKey_code(store, id, password, key_id, ImportedRecord(chain, private_key), random)

GeneratedRecord(chain, private_key) ==
  [chain |-> chain, private_key |-> private_key, origin |-> [kind |-> "Generated"]]

generate_software_key(store, id, password, key_id, chain, private_key, random) ==
  AddKey(store, id, password, key_id, GeneratedRecord(chain, private_key), random)

generate_software_key_code(store, id, password, key_id, chain, private_key, random) ==
  decode_store_code(store)
  ?? authenticate_profile_code(store, id, password)
  ?? AddKey_code(store, id, password, key_id, GeneratedRecord(chain, private_key), random)

delete_software_key(store, id, key_id, password, random) ==
  reencrypt_profile(store, id, DropKey(authenticate_profile(store, id), key_id),
                    password, FALSE, random)

\* Mutant: the key is looked up in the index before the password is verified.
delete_software_key_code_LooksFirst(store, id, key_id, password, random) ==
  decode_store_code(store)
  ?? Require(id \in DOMAIN store.profiles, "ProfileNotFound")
  ?? Require(key_id \in DOMAIN store.profiles[id].index, "SoftwareKeyNotFound")
  ?? authenticate_profile_code(store, id, password)
  ?? encode_store_code(delete_software_key(store, id, key_id, password, random))

delete_software_key_code(store, id, key_id, password, random) ==
  decode_store_code(store)
  ?? authenticate_profile_code(store, id, password)
  ?? Require(key_id \in DOMAIN authenticate_profile(store, id).software_keys,
             "SoftwareKeyNotFound")
  ?? encode_payload_code(DropKey(authenticate_profile(store, id), key_id))
  ?? encode_store_code(delete_software_key(store, id, key_id, password, random))

(***************************************************************************)
(* Reads                                                                   *)
(***************************************************************************)

list_profiles(store) ==
  {[profile_id |-> p, network |-> store.profiles[p].network,
    software_key_count |-> Cardinality(DOMAIN store.profiles[p].index)] :
     p \in DOMAIN store.profiles}

list_software_keys_code(store, id) ==
  decode_store_code(store)
  ?? Require(id \in DOMAIN store.profiles, "ProfileNotFound")

list_software_keys(store, id) ==
  {[key_id |-> k, chain |-> store.profiles[id].index[k]] :
     k \in DOMAIN store.profiles[id].index}

\* An export must be requested by the user and confirmed by the application,
\* both for the very target that is exported.
MnemonicTarget(id) == [kind |-> "Mnemonic", profile_id |-> id]

SoftwareKeyTarget(id, key_id) ==
  [kind |-> "SoftwareKey", profile_id |-> id, key_id |-> key_id]

\* Mutant: the application's confirmation may be for another target.
validate_export_request_code_AnyConfirmation(request, kind) ==
  Require(/\ request.user_request.status = "Requested"
          /\ request.application_confirmation.status = "Confirmed"
          /\ request.target = request.user_request.target
          /\ request.target.kind = kind,
          "InvalidArgument")

validate_export_request_code(request, kind) ==
  Require(/\ request.user_request.status = "Requested"
          /\ request.application_confirmation.status = "Confirmed"
          /\ request.target = request.user_request.target
          /\ request.target = request.application_confirmation.target
          /\ request.target.kind = kind,
          "InvalidArgument")

export_mnemonic_code(store, request, password) ==
  validate_export_request_code(request, "Mnemonic")
  ?? decode_store_code(store)
  ?? authenticate_profile_code(store, request.target.profile_id, password)

export_mnemonic(store, request) ==
  authenticate_profile(store, request.target.profile_id).mnemonic_entropy

FindKey_code(store, id, key_id) ==
  Require(key_id \in DOMAIN authenticate_profile(store, id).software_keys,
          "SoftwareKeyNotFound")

FindKey(store, id, key_id) == authenticate_profile(store, id).software_keys[key_id]

export_private_key_code(store, request, password) ==
  validate_export_request_code(request, "SoftwareKey")
  ?? decode_store_code(store)
  ?? authenticate_profile_code(store, request.target.profile_id, password)
  ?? FindKey_code(store, request.target.profile_id, request.target.key_id)

export_private_key(store, request) ==
  FindKey(store, request.target.profile_id, request.target.key_id).private_key

validate_account_context_code(store, id, key_id, context) ==
  Require(/\ store.profiles[id].network = context.network
          /\ FindKey(store, id, key_id).chain = context.chain,
          "NetworkMismatch")

get_public_account_code(store, id, key_id, context, password) ==
  decode_store_code(store)
  ?? authenticate_profile_code(store, id, password)
  ?? FindKey_code(store, id, key_id)
  ?? validate_account_context_code(store, id, key_id, context)

\* The public key stands for the private key and the Chain it is computed
\* from; the address adds the Network.
get_public_account(store, id, key_id, context) ==
  [key_id |-> key_id, chain |-> FindKey(store, id, key_id).chain,
   network |-> context.network,
   public_key |-> [chain |-> FindKey(store, id, key_id).chain,
                   private_key |-> FindKey(store, id, key_id).private_key]]

\* Mutant: the account context is not compared with the Profile and the key.
sign_code_NoContext(store, request, password) ==
  Require(request.approval = "Approved", "InvalidArgument")
  ?? Require(~request.oversized, "InvalidArgument")
  ?? decode_store_code(store)
  ?? authenticate_profile_code(store, request.profile_id, password)
  ?? FindKey_code(store, request.profile_id, request.key_id)

\* request.oversized: the payload is longer than MAX_SIGNING_PAYLOAD_BYTES.
sign_code(store, request, password) ==
  Require(request.approval = "Approved", "InvalidArgument")
  ?? Require(~request.oversized, "InvalidArgument")
  ?? decode_store_code(store)
  ?? authenticate_profile_code(store, request.profile_id, password)
  ?? FindKey_code(store, request.profile_id, request.key_id)
  ?? validate_account_context_code(store, request.profile_id, request.key_id,
                                   request.context)

\* A signature is determined by the key pair and the payload it is over.
sign(store, request) ==
  [signer |-> [chain |-> FindKey(store, request.profile_id, request.key_id).chain,
               private_key |-> FindKey(store, request.profile_id, request.key_id).private_key],
   payload |-> request.payload]
=============================================================================
