----------------------------- MODULE WalletApp ------------------------------
(***************************************************************************)
(* An application that keeps a Wallet Store with the Core functions of     *)
(* WalletStore.  The Core owns no persistence: a call takes a Store and    *)
(* returns a replacement Store or an error, and the application commits a  *)
(* replacement atomically or keeps the Store it has.  A failed call, a     *)
(* failed random source and a crash before the commit all leave the        *)
(* committed Store as it was, so they are stuttering steps here.           *)
(*                                                                         *)
(* The application may also hold older bytes: a backup it can load again,  *)
(* and Pending Profiles it may finalize late, twice or never.              *)
(***************************************************************************)
EXTENDS WalletStore

CONSTANTS
  MaxDraws,      \* bound: how many random values are drawn
  MaxPendings    \* bound: how many Pending Profiles are prepared

ASSUME BoundAssumption == MaxDraws \in Nat /\ MaxPendings \in Nat

VARIABLES
  store,      \* the committed Wallet Store
  backup,     \* an older Wallet Store the application has kept
  pendings,   \* the Pending Profiles prepared so far
  spent,      \* history: the Pending Profiles that have been finalized
  draws       \* history: the number of values drawn from the CSPRNG, which
              \* never repeats; the n-th salt, nonce or registry key is n

vars == <<store, backup, pendings, spent, draws>>

-----------------------------------------------------------------------------
Init ==
  /\ store = EmptyStore(0)
  /\ backup = EmptyStore(0)
  /\ pendings = {}
  /\ spent = {}
  /\ draws = 0

\* The next value of the random source.
Fresh == draws + 1

Draw == draws < MaxDraws /\ draws' = Fresh

Commit(code, replacement) == code = "Ok" /\ store' = replacement

CreateEmptyStore ==
  /\ Draw
  /\ store' = EmptyStore(Fresh)
  /\ UNCHANGED <<backup, pendings, spent>>

PrepareGeneratedProfile(id, network, entropy, password) ==
  /\ Draw
  /\ Cardinality(pendings) < MaxPendings
  /\ id \in new_profile_id(store)
  /\ prepare_generated_profile_code(store, password) = "Ok"
  /\ pendings' = pendings \cup
                   {make_pending(store, id, network, entropy, password, Fresh)}
  /\ UNCHANGED <<store, backup, spent>>

FinalizeGeneratedProfile(pending, password) ==
  /\ Draw
  /\ Commit(finalize_generated_profile_code(store, pending, password, Fresh),
            finalize_generated_profile(store, pending, password, Fresh))
  /\ spent' = spent \cup {pending}
  /\ UNCHANGED <<backup, pendings>>

RestoreProfile(id, network, mnemonic, password) ==
  /\ Draw
  /\ id \in new_profile_id(store)
  /\ Commit(restore_profile_code(store, id, network, mnemonic, password, Fresh),
            restore_profile(store, id, network, mnemonic, password, Fresh))
  /\ UNCHANGED <<backup, pendings, spent>>

ChangeProfilePassword(id, current, new) ==
  /\ Draw
  /\ Commit(change_profile_password_code(store, id, current, new, Fresh),
            change_profile_password(store, id, new, Fresh))
  /\ UNCHANGED <<backup, pendings, spent>>

DeleteProfile(id, password) ==
  /\ Commit(delete_profile_code(store, id, password), delete_profile(store, id))
  /\ UNCHANGED <<backup, pendings, spent, draws>>

DeriveSoftwareKey(id, password, key_id, chain, account_index) ==
  /\ Draw
  /\ Commit(derive_software_key_code(store, id, password, key_id, chain,
                                     account_index, Fresh),
            derive_software_key(store, id, password, key_id, chain,
                                account_index, Fresh))
  /\ key_id \in new_key_id(authenticate_profile(store, id))
  /\ UNCHANGED <<backup, pendings, spent>>

ImportSoftwareKey(id, password, key_id, chain, private_key) ==
  /\ Draw
  /\ Commit(import_software_key_code(store, id, password, key_id, chain,
                                     private_key, Fresh),
            import_software_key(store, id, password, key_id, chain,
                                private_key, Fresh))
  /\ key_id \in new_key_id(authenticate_profile(store, id))
  /\ UNCHANGED <<backup, pendings, spent>>

GenerateSoftwareKey(id, password, key_id, chain, private_key) ==
  /\ Draw
  /\ private_key \in generate_private_key
  /\ Commit(generate_software_key_code(store, id, password, key_id, chain,
                                       private_key, Fresh),
            generate_software_key(store, id, password, key_id, chain,
                                  private_key, Fresh))
  /\ key_id \in new_key_id(authenticate_profile(store, id))
  /\ UNCHANGED <<backup, pendings, spent>>

DeleteSoftwareKey(id, key_id, password) ==
  /\ Draw
  /\ Commit(delete_software_key_code(store, id, key_id, password, Fresh),
            delete_software_key(store, id, key_id, password, Fresh))
  /\ UNCHANGED <<backup, pendings, spent>>

\* The application keeps a copy of its Store, or goes back to the copy.
TakeBackup ==
  /\ backup' = store
  /\ UNCHANGED <<store, pendings, spent, draws>>

LoadBackup ==
  /\ store' = backup
  /\ UNCHANGED <<backup, pendings, spent, draws>>

\* One call of the Core that returns a replacement Store or a Pending Profile.
CoreNext ==
  \/ CreateEmptyStore
  \/ \E pending \in pendings, pw \in Passwords : FinalizeGeneratedProfile(pending, pw)
  \/ \E id \in ProfileIds, pw \in Passwords :
       \/ \E n \in Network, e \in Entropies : PrepareGeneratedProfile(id, n, e, pw)
       \/ \E n \in Network, m \in Entropies \cup {InvalidMnemonic} :
            RestoreProfile(id, n, m, pw)
       \/ \E new \in Passwords : ChangeProfilePassword(id, pw, new)
       \/ DeleteProfile(id, pw)
       \/ \E k \in KeyIds : DeleteSoftwareKey(id, k, pw)
       \/ \E k \in KeyIds, c \in Chain :
            \/ \E i \in AccountIndexes : DeriveSoftwareKey(id, pw, k, c, i)
            \/ \E key \in PrivateKeys : ImportSoftwareKey(id, pw, k, c, key)
            \/ \E key \in RawKeys : GenerateSoftwareKey(id, pw, k, c, key)

Next == CoreNext \/ TakeBackup \/ LoadBackup

Spec == Init /\ [][Next]_vars

\* The same application, but it never goes back to older bytes.
CoreSpec == Init /\ [][CoreNext]_vars
-----------------------------------------------------------------------------
(***************************************************************************)
(* Invariants                                                              *)
(***************************************************************************)

\* Every variable holds a value of the Store format's types.
TypeOK ==
  /\ IsWalletStore(store)
  /\ IsWalletStore(backup)
  /\ \A pending \in pendings : IsPendingProfile(pending)
  /\ spent \subseteq pendings
  /\ draws \in Nat

\* Every Store the application can hand to the Core.
HeldStores == {store, backup} \cup {pending.target : pending \in pendings}

Payload(s, p) == s.profiles[p].box.plaintext

\* Every Store the Core ever returned is accepted by its own decoder: the
\* limits encode_store and encode_payload enforce imply those of decode_store
\* and parse_payload, however many mutations, rollbacks and finalizations led
\* there.
EveryStoreDecodes == \A s \in HeldStores : decode_store_code(s) = "Ok"

\* No mutation strands a Profile: each Profile of each held Store
\* authenticates (authenticate_profile) with exactly one password, although
\* its ciphertext is bound to the registry key, the manifest and the index,
\* all of which later mutations rewrite or copy.
EveryProfileOpens ==
  \A s \in HeldStores : \A p \in DOMAIN s.profiles :
    \E owner \in ValidPasswords : \A pw \in Passwords :
      authenticate_profile_code(s, p, pw) = "Ok" <=> pw = owner

\* The manifest that list_profiles and list_software_keys read without a
\* password says what the encrypted payload contains.
ManifestMatchesPayload ==
  \A s \in HeldStores : \A p \in DOMAIN s.profiles :
    LET keys == Payload(s, p).software_keys IN
    /\ list_software_keys(s, p) = {[key_id |-> k, chain |-> keys[k].chain] : k \in DOMAIN keys}
    /\ [profile_id |-> p, network |-> s.profiles[p].duplicate_tag.network,
        software_key_count |-> Cardinality(DOMAIN keys)] \in list_profiles(s)

\* restore_profile and finalize_generated_profile compare plaintext tags only,
\* yet no held Store has two Profiles with the same Mnemonic and Network.
NoDuplicateProfiles ==
  \A s \in HeldStores : \A p, q \in DOMAIN s.profiles :
    /\ s.profiles[p].network = s.profiles[q].network
    /\ Payload(s, p).mnemonic_entropy = Payload(s, q).mnemonic_entropy
    => p = q

\* No Profile holds the same private key twice for one Chain, whichever of
\* derive, import and generate brought it in.
NoDuplicateSoftwareKeys ==
  \A s \in HeldStores : \A p \in DOMAIN s.profiles :
    LET keys == Payload(s, p).software_keys IN
    \A j, k \in DOMAIN keys :
      keys[j].chain = keys[k].chain /\ keys[j].private_key = keys[k].private_key
        => j = k

\* A key whose origin is Derived(i) can be derived again from the Profile's
\* Mnemonic, the Profile's Network and i: restoring from the Mnemonic after a
\* loss of the Store recovers every derived key.
DerivedKeysRecoverable ==
  \A s \in HeldStores : \A p \in DOMAIN s.profiles :
    \A k \in DOMAIN Payload(s, p).software_keys :
      LET record == Payload(s, p).software_keys[k] IN
      record.origin.kind = "Derived" =>
        record.private_key =
          derive_private_key(Payload(s, p).mnemonic_entropy, record.chain,
                             s.profiles[p].network, record.origin.account_index)

\* AES-GCM needs a nonce per message: two ciphertexts the application holds
\* that were sealed under the same key and nonce are the same ciphertext.
\* reencrypt_profile keeps the salt, hence the key, on every key addition and
\* deletion, and a rollback forks the history of a Profile.
Boxes ==
  UNION {{s.profiles[p].box : p \in DOMAIN s.profiles} : s \in HeldStores}

NoncesNeverReused ==
  /\ \A a, b \in Boxes : a.key = b.key /\ a.nonce = b.nonce => a = b
  /\ \A pending \in pendings, b \in Boxes : pending.box.key # b.key

(***************************************************************************)
(* Action properties                                                       *)
(***************************************************************************)

\* What the comment of finalize_generated_profile says of a Pending Profile
\* that was finalized once: using it again adds no Profile.
PendingIsSingleUse ==
  [][\A pending \in spent, pw \in Passwords :
       ~FinalizeGeneratedProfile(pending, pw)]_vars
=============================================================================
