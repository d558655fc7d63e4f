-------------------------- MODULE WalletAppProofs ---------------------------
(***************************************************************************)
(* Proofs about WalletApp, for any sets of ids, passwords, mnemonics and   *)
(* keys, any limits and any number of calls, backups and rollbacks.        *)
(*                                                                         *)
(* The inductive invariant says of every Store the application holds that  *)
(* each envelope is sealed consistently (key, nonce, associated data, tag  *)
(* and index all agree with the plaintext), that its keys are valid,       *)
(* distinct and derivable, and that tags tell the Profiles apart.          *)
(***************************************************************************)
EXTENDS WalletReads, WalletCalls, FiniteSetTheorems, TLAPS

GoodKeys(network, entropy, keys) ==
  /\ \A k \in DOMAIN keys : validate_private_key(keys[k].private_key)
  /\ \A j, k \in DOMAIN keys :
       keys[j].chain = keys[k].chain /\ keys[j].private_key = keys[k].private_key => j = k
  /\ \A k \in DOMAIN keys : keys[k].origin.kind = "Derived" =>
       keys[k].private_key = derive_private_key(entropy, keys[k].chain, network,
                                                keys[k].origin.account_index)

GoodPayload(network, payload) ==
  /\ IsProfilePayload(payload)
  /\ IsFiniteSet(DOMAIN payload.software_keys)
  /\ encode_payload_code(payload) = "Ok"
  /\ GoodKeys(network, payload.mnemonic_entropy, payload.software_keys)

GoodProfile(registry_key, id, profile) ==
  /\ IsProfileEnvelope(profile)
  /\ profile.box.key.salt = profile.salt
  /\ profile.box.nonce = profile.nonce
  /\ profile.box.aad = profile_aad_from_parts(registry_key, id, profile.network,
                                              profile.duplicate_tag, profile.index)
  /\ profile.duplicate_tag = duplicate_tag(registry_key, profile.network,
                                           profile.box.plaintext.mnemonic_entropy)
  /\ profile.index = index_from_payload(profile.box.plaintext)
  /\ GoodPayload(profile.network, profile.box.plaintext)

GoodStore(s) ==
  /\ IsWalletStore(s)
  /\ IsFiniteSet(DOMAIN s.profiles)
  /\ encode_store_code(s) = "Ok"
  /\ \A p \in DOMAIN s.profiles : GoodProfile(s.registry_key, p, s.profiles[p])
  /\ \A p, q \in DOMAIN s.profiles :
       s.profiles[p].duplicate_tag = s.profiles[q].duplicate_tag => p = q

\* The inductive invariant.
WalletInv ==
  /\ GoodStore(store)
  /\ GoodStore(backup)
  /\ \A pending \in pendings : IsPendingProfile(pending) /\ GoodStore(pending.target)
  /\ spent \subseteq pendings
  /\ draws \in Nat

-----------------------------------------------------------------------------
(***************************************************************************)
(* Envelopes and Stores                                                    *)
(***************************************************************************)

\* A successful authentication names a Profile of the Store and a password.
LEMMA Authenticated ==
  ASSUME NEW s, NEW id, NEW pw, authenticate_profile_code(s, id, pw) = "Ok"
  PROVE  id \in DOMAIN s.profiles /\ pw \in ValidPasswords
BY DEF authenticate_profile_code, ??, Require, validate_password

\* SealedProfile makes a consistent envelope of a good payload.
LEMMA SealGood ==
  ASSUME NEW reg, reg \in Nat, NEW id, NEW network, network \in Network,
         NEW salt, salt \in Nat, NEW nonce, nonce \in Nat,
         NEW payload, GoodPayload(network, payload), NEW pw, pw \in ValidPasswords,
         NEW tag, tag = duplicate_tag(reg, network, payload.mnemonic_entropy)
  PROVE  GoodProfile(reg, id, SealedProfile(reg, id, network, tag, salt, nonce, payload, pw))
<1> DEFINE sealed == SealedProfile(reg, id, network, tag, salt, nonce, payload, pw)
           index == index_from_payload(payload)
           key == derive_encryption_key(pw, salt)
<1>1. sealed = [network |-> network, duplicate_tag |-> tag, salt |-> salt, nonce |-> nonce,
                index |-> index,
                box |-> [key |-> key, nonce |-> nonce,
                         aad |-> profile_aad_from_parts(reg, id, network, tag, index),
                         plaintext |-> payload]]
  BY DEF SealedProfile, encrypt
<1>2. key \in EncryptionKey /\ key.salt = salt
  BY DEF derive_encryption_key, EncryptionKey
<1>3. IsProfilePayload(payload)
  BY DEF GoodPayload
<1>4. tag \in DuplicateTag
  BY <1>3 DEF duplicate_tag, DuplicateTag, IsProfilePayload
<1>5. IsKeyMap(index, Chain)
  BY <1>3 DEF index_from_payload, IsProfilePayload, IsKeyMap, KeyRecord
<1> HIDE DEF sealed, index, key
<1>6. IsProfileEnvelope(sealed)
  BY <1>1, <1>2, <1>3, <1>4, <1>5 DEF IsProfileEnvelope
<1>7. GoodProfile(reg, id, sealed)
  BY <1>1, <1>2, <1>6 DEF GoodProfile, index
<1> QED
  BY <1>7 DEF sealed

\* Adding or replacing one good envelope keeps a Store good.
LEMMA PutGood ==
  ASSUME NEW s, GoodStore(s), NEW id \in ProfileIds, NEW profile,
         GoodProfile(s.registry_key, id, profile),
         \A q \in DOMAIN s.profiles \ {id} :
           s.profiles[q].duplicate_tag # profile.duplicate_tag,
         encode_store_code(PutProfile(s, id, profile)) = "Ok"
  PROVE  GoodStore(PutProfile(s, id, profile))
<1> DEFINE t == PutProfile(s, id, profile)
<1>1. s = [registry_key |-> s.registry_key, profiles |-> s.profiles]
  BY DEF GoodStore, IsWalletStore
<1>2. t = [registry_key |-> s.registry_key,
           profiles |-> [p \in DOMAIN s.profiles \cup {id} |->
                           IF p = id THEN profile ELSE s.profiles[p]]]
  BY <1>1 DEF PutProfile
<1>3. /\ t.registry_key = s.registry_key
      /\ DOMAIN t.profiles = DOMAIN s.profiles \cup {id}
      /\ \A p \in DOMAIN t.profiles :
           t.profiles[p] = IF p = id THEN profile ELSE s.profiles[p]
  BY <1>2
<1>4. /\ t = [registry_key |-> t.registry_key, profiles |-> t.profiles]
      /\ t.profiles = [p \in DOMAIN t.profiles |-> t.profiles[p]]
  BY <1>2
<1> HIDE DEF t
<1>5. IsWalletStore(t)
  BY <1>3, <1>4 DEF IsWalletStore, GoodStore, GoodProfile
<1>6. \A p \in DOMAIN t.profiles : GoodProfile(t.registry_key, p, t.profiles[p])
  BY <1>3 DEF GoodStore
<1>7. \A p, q \in DOMAIN t.profiles :
        t.profiles[p].duplicate_tag = t.profiles[q].duplicate_tag => p = q
  BY <1>3 DEF GoodStore
<1>8. encode_store_code(t) = "Ok"
  BY DEF t
<1>9. IsFiniteSet(DOMAIN t.profiles)
  BY <1>3, FS_AddElement DEF GoodStore
<1> QED
  BY <1>5, <1>6, <1>7, <1>8, <1>9 DEF GoodStore, t

\* Removing a Profile keeps a Store good.
LEMMA DropGood ==
  ASSUME NEW s, GoodStore(s), NEW id, encode_store_code(DropProfile(s, id)) = "Ok"
  PROVE  GoodStore(DropProfile(s, id))
<1> DEFINE t == DropProfile(s, id)
<1>1. s = [registry_key |-> s.registry_key, profiles |-> s.profiles]
  BY DEF GoodStore, IsWalletStore
<1>2. t = [registry_key |-> s.registry_key,
           profiles |-> [p \in DOMAIN s.profiles \ {id} |-> s.profiles[p]]]
  BY <1>1 DEF DropProfile
<1>3. /\ t.registry_key = s.registry_key
      /\ DOMAIN t.profiles \subseteq DOMAIN s.profiles
      /\ \A p \in DOMAIN t.profiles : t.profiles[p] = s.profiles[p]
  BY <1>2
<1>4. /\ t = [registry_key |-> t.registry_key, profiles |-> t.profiles]
      /\ t.profiles = [p \in DOMAIN t.profiles |-> t.profiles[p]]
  BY <1>2
<1>5. encode_store_code(t) = "Ok"
  OBVIOUS
<1> HIDE DEF t
<1>6. IsWalletStore(t)
  BY <1>3, <1>4 DEF IsWalletStore, GoodStore
<1>7. IsFiniteSet(DOMAIN t.profiles)
  BY <1>3, FS_Subset DEF GoodStore
<1> QED
  BY <1>3, <1>5, <1>6, <1>7 DEF GoodStore, t

\* The Store create_empty_store returns is good.
LEMMA EmptyGood ==
  ASSUME NEW reg \in Nat
  PROVE  GoodStore(EmptyStore(reg))
<1> DEFINE t == EmptyStore(reg)
<1>1. t = [registry_key |-> reg, profiles |-> [p \in {} |-> p]]
  BY DEF EmptyStore
<1>2. DOMAIN t.profiles = {}
  BY <1>1
<1>3. IsWalletStore(t)
  BY <1>1, <1>2 DEF IsWalletStore
<1>4. encode_store_code(t) = "Ok"
  BY <1>2, FS_EmptySet, LimitAssumption DEF encode_store_code, Require
<1> QED
  BY <1>2, <1>3, <1>4, FS_EmptySet DEF GoodStore

\* reencrypt_profile keeps a Store good when the Mnemonic stays.
LEMMA ReencryptGood ==
  ASSUME NEW s, GoodStore(s), NEW id \in DOMAIN s.profiles, NEW payload,
         GoodPayload(s.profiles[id].network, payload),
         payload.mnemonic_entropy = s.profiles[id].box.plaintext.mnemonic_entropy,
         NEW pw \in ValidPasswords, NEW change, NEW random \in Nat,
         encode_store_code(reencrypt_profile(s, id, payload, pw, change, random)) = "Ok"
  PROVE  GoodStore(reencrypt_profile(s, id, payload, pw, change, random))
<1> DEFINE profile == s.profiles[id]
           salt == IF change THEN random ELSE profile.salt
           sealed == SealedProfile(s.registry_key, id, profile.network,
                                   profile.duplicate_tag, salt, random, payload, pw)
<1>1. GoodProfile(s.registry_key, id, profile)
  BY DEF GoodStore
<1>2. /\ s.registry_key \in Nat /\ id \in ProfileIds
      /\ profile.network \in Network /\ salt \in Nat
  BY <1>1 DEF GoodStore, IsWalletStore, GoodProfile, IsProfileEnvelope
<1>3. profile.duplicate_tag =
        duplicate_tag(s.registry_key, profile.network, payload.mnemonic_entropy)
  BY <1>1 DEF GoodProfile
<1>4. reencrypt_profile(s, id, payload, pw, change, random) = PutProfile(s, id, sealed)
  BY DEF reencrypt_profile
<1> HIDE DEF salt
<1>5. GoodProfile(s.registry_key, id, sealed)
  BY <1>2, <1>3, SealGood
<1>6. sealed.duplicate_tag = profile.duplicate_tag
  BY DEF SealedProfile
<1> HIDE DEF sealed
<1>7. \A q \in DOMAIN s.profiles \ {id} : s.profiles[q].duplicate_tag # sealed.duplicate_tag
  BY <1>6 DEF GoodStore
<1> QED
  BY <1>2, <1>4, <1>5, <1>7, PutGood

\* A new Profile without keys keeps a Store good when its tag is new.
LEMMA NewProfileGood ==
  ASSUME NEW s, GoodStore(s), NEW id \in ProfileIds, NEW network \in Network,
         NEW entropy \in Entropies, NEW pw \in ValidPasswords, NEW random \in Nat,
         ~DuplicateProfile(s, duplicate_tag(s.registry_key, network, entropy)),
         encode_store_code(NewProfileStore(s, id, network, entropy, pw, random)) = "Ok"
  PROVE  GoodStore(NewProfileStore(s, id, network, entropy, pw, random))
<1> DEFINE payload == [mnemonic_entropy |-> entropy, software_keys |-> [k \in {} |-> k]]
           tag == duplicate_tag(s.registry_key, network, entropy)
           sealed == SealedProfile(s.registry_key, id, network, tag, random, random,
                                   payload, pw)
<1>1. DOMAIN payload.software_keys = {} /\ payload.mnemonic_entropy = entropy
  OBVIOUS
<1>2. IsProfilePayload(payload)
  BY <1>1 DEF IsProfilePayload, IsKeyMap
<1>3. encode_payload_code(payload) = "Ok"
  BY <1>1, FS_EmptySet, LimitAssumption DEF encode_payload_code, Require
<1>4. GoodPayload(network, payload)
  BY <1>1, <1>2, <1>3, FS_EmptySet DEF GoodPayload, GoodKeys
<1>5. NewProfileStore(s, id, network, entropy, pw, random) = PutProfile(s, id, sealed)
  BY DEF NewProfileStore, new_encrypted_profile
<1>6. s.registry_key \in Nat
  BY DEF GoodStore, IsWalletStore
<1> HIDE DEF payload
<1>7. GoodProfile(s.registry_key, id, sealed)
  BY <1>1, <1>4, <1>6, SealGood
<1>8. sealed.duplicate_tag = tag
  BY DEF SealedProfile
<1> HIDE DEF sealed, tag
<1>9. \A q \in DOMAIN s.profiles \ {id} : s.profiles[q].duplicate_tag # sealed.duplicate_tag
  BY <1>8 DEF DuplicateProfile, tag
<1> QED
  BY <1>5, <1>7, <1>9, PutGood

-----------------------------------------------------------------------------
(***************************************************************************)
(* Software Keys                                                           *)
(***************************************************************************)

\* A record that add_* may append: well typed, valid and, if derived, derived
\* from the Profile's own Mnemonic and Network.
GoodRecord(network, entropy, record) ==
  /\ record \in KeyRecord
  /\ validate_private_key(record.private_key)
  /\ record.origin.kind = "Derived" =>
       record.private_key = derive_private_key(entropy, record.chain, network,
                                               record.origin.account_index)

\* Appending a good record that is no duplicate keeps a payload good.
LEMMA PutKeyGood ==
  ASSUME NEW network, NEW payload, GoodPayload(network, payload), NEW k \in KeyIds,
         k \notin DOMAIN payload.software_keys, NEW record,
         GoodRecord(network, payload.mnemonic_entropy, record),
         ensure_not_duplicate(payload, record.chain, record.private_key),
         encode_payload_code(PutKey(payload, k, record)) = "Ok"
  PROVE  /\ GoodPayload(network, PutKey(payload, k, record))
         /\ PutKey(payload, k, record).mnemonic_entropy = payload.mnemonic_entropy
<1> DEFINE keys == payload.software_keys
           new == [j \in DOMAIN keys \cup {k} |-> IF j = k THEN record ELSE keys[j]]
           t == PutKey(payload, k, record)
<1>1. /\ payload = [mnemonic_entropy |-> payload.mnemonic_entropy, software_keys |-> keys]
      /\ payload.mnemonic_entropy \in Entropies
      /\ DOMAIN keys \subseteq KeyIds
      /\ \A j \in DOMAIN keys : keys[j] \in KeyRecord
  BY DEF GoodPayload, IsProfilePayload, IsKeyMap
<1>2. t = [mnemonic_entropy |-> payload.mnemonic_entropy, software_keys |-> new]
  BY <1>1 DEF PutKey
<1>3. /\ DOMAIN new = DOMAIN keys \cup {k}
      /\ \A j \in DOMAIN new : new[j] = IF j = k THEN record ELSE keys[j]
      /\ new = [j \in DOMAIN new |-> new[j]]
  OBVIOUS
<1> HIDE DEF new, t
<1>4. IsKeyMap(new, KeyRecord)
  <2>1. \A j \in DOMAIN new : new[j] \in KeyRecord
    BY <1>1, <1>3 DEF GoodRecord
  <2> QED
    BY <1>1, <1>3, <2>1 DEF IsKeyMap
<1>5. IsProfilePayload(t)
  BY <1>1, <1>2, <1>4 DEF IsProfilePayload
<1>6. \A j \in DOMAIN new : validate_private_key(new[j].private_key)
  BY <1>3 DEF GoodPayload, GoodKeys, GoodRecord
<1>7. \A i, j \in DOMAIN new :
        new[i].chain = new[j].chain /\ new[i].private_key = new[j].private_key => i = j
  BY <1>3 DEF GoodPayload, GoodKeys, ensure_not_duplicate
<1>8. \A j \in DOMAIN new : new[j].origin.kind = "Derived" =>
        new[j].private_key = derive_private_key(payload.mnemonic_entropy, new[j].chain,
                                                network, new[j].origin.account_index)
  BY <1>3 DEF GoodPayload, GoodKeys, GoodRecord
<1>9. encode_payload_code(t) = "Ok"
  BY DEF t
<1>10. IsFiniteSet(DOMAIN new)
  BY <1>3, FS_AddElement DEF GoodPayload
<1> QED
  BY <1>2, <1>5, <1>6, <1>7, <1>8, <1>9, <1>10 DEF GoodPayload, GoodKeys, t

\* Removing a key keeps a payload good.
LEMMA DropKeyGood ==
  ASSUME NEW network, NEW payload, GoodPayload(network, payload), NEW k,
         encode_payload_code(DropKey(payload, k)) = "Ok"
  PROVE  /\ GoodPayload(network, DropKey(payload, k))
         /\ DropKey(payload, k).mnemonic_entropy = payload.mnemonic_entropy
<1> DEFINE keys == payload.software_keys
           new == [j \in DOMAIN keys \ {k} |-> keys[j]]
           t == DropKey(payload, k)
<1>1. /\ payload = [mnemonic_entropy |-> payload.mnemonic_entropy, software_keys |-> keys]
      /\ payload.mnemonic_entropy \in Entropies
      /\ DOMAIN keys \subseteq KeyIds
      /\ \A j \in DOMAIN keys : keys[j] \in KeyRecord
  BY DEF GoodPayload, IsProfilePayload, IsKeyMap
<1>2. t = [mnemonic_entropy |-> payload.mnemonic_entropy, software_keys |-> new]
  BY <1>1 DEF DropKey
<1>3. /\ DOMAIN new \subseteq DOMAIN keys
      /\ \A j \in DOMAIN new : new[j] = keys[j]
      /\ new = [j \in DOMAIN new |-> new[j]]
  OBVIOUS
<1> HIDE DEF new, t
<1>4. IsKeyMap(new, KeyRecord)
  BY <1>1, <1>3 DEF IsKeyMap
<1>5. IsProfilePayload(t)
  BY <1>1, <1>2, <1>4 DEF IsProfilePayload
<1>6. GoodKeys(network, payload.mnemonic_entropy, new)
  BY <1>3 DEF GoodPayload, GoodKeys
<1>7. encode_payload_code(t) = "Ok"
  BY DEF t
<1>8. IsFiniteSet(DOMAIN new)
  BY <1>3, FS_Subset DEF GoodPayload
<1> QED
  BY <1>2, <1>5, <1>6, <1>7, <1>8 DEF GoodPayload, t

\* The common tail of derive, import and generate keeps a Store good.
LEMMA AddKeyGood ==
  ASSUME NEW s, GoodStore(s), NEW id \in DOMAIN s.profiles, NEW pw \in ValidPasswords,
         NEW k \in KeyIds, k \in new_key_id(authenticate_profile(s, id)), NEW record,
         GoodRecord(s.profiles[id].network,
                    authenticate_profile(s, id).mnemonic_entropy, record),
         NEW random \in Nat,
         AddKey_code(s, id, pw, k, record, random) = "Ok"
  PROVE  GoodStore(AddKey(s, id, pw, k, record, random))
<1> DEFINE payload == authenticate_profile(s, id)
           new == PutKey(payload, k, record)
<1>1. /\ ensure_not_duplicate(payload, record.chain, record.private_key)
      /\ encode_payload_code(new) = "Ok"
      /\ encode_store_code(AddKey(s, id, pw, k, record, random)) = "Ok"
  BY DEF AddKey_code, ??, Require
<1>2. GoodPayload(s.profiles[id].network, payload)
  BY DEF GoodStore, GoodProfile, authenticate_profile
<1>3. k \notin DOMAIN payload.software_keys
  BY DEF new_key_id
<1>4. /\ GoodPayload(s.profiles[id].network, new)
      /\ new.mnemonic_entropy = payload.mnemonic_entropy
  BY <1>1, <1>2, <1>3, PutKeyGood
<1>5. AddKey(s, id, pw, k, record, random) =
        reencrypt_profile(s, id, new, pw, FALSE, random)
  BY DEF AddKey
<1>6. payload = s.profiles[id].box.plaintext
  BY DEF authenticate_profile
<1> HIDE DEF new, payload
<1> QED
  BY <1>1, <1>4, <1>5, <1>6, ReencryptGood

\* The records derive, import and generate append are good.
LEMMA DerivedGood ==
  ASSUME NEW s, GoodStore(s), NEW id \in DOMAIN s.profiles, NEW chain \in Chain,
         NEW index \in AccountIndexes,
         validate_private_key(DerivedRecord(s, id, chain, index).private_key)
  PROVE  GoodRecord(s.profiles[id].network, authenticate_profile(s, id).mnemonic_entropy,
                    DerivedRecord(s, id, chain, index))
<1> DEFINE network == s.profiles[id].network
           entropy == authenticate_profile(s, id).mnemonic_entropy
           key == derive_private_key(entropy, chain, network, index)
           record == DerivedRecord(s, id, chain, index)
<1>1. network \in Network /\ entropy \in Entropies
  BY DEF GoodStore, GoodProfile, IsProfileEnvelope, IsProfilePayload, authenticate_profile
<1>2. key \in PrivateKeys
  BY <1>1 DEF PrivateKeys, DerivedKeys
<1>3. record = [chain |-> chain, private_key |-> key,
                origin |-> [kind |-> "Derived", account_index |-> index]]
  BY DEF DerivedRecord
<1>4. [kind |-> "Derived", account_index |-> index] \in SoftwareKeyOrigin
  BY DEF SoftwareKeyOrigin
<1>5. key = derive_private_key(entropy, chain, network, index)
  OBVIOUS
<1>6. validate_private_key(record.private_key)
  OBVIOUS
<1> HIDE DEF network, entropy, key, record
<1>7. record \in KeyRecord
  BY <1>2, <1>3, <1>4 DEF KeyRecord
<1> QED
  BY <1>3, <1>5, <1>6, <1>7 DEF GoodRecord, network, entropy, record

LEMMA OutsideGood ==
  ASSUME NEW network, NEW entropy, NEW chain \in Chain, NEW key \in PrivateKeys,
         validate_private_key(key)
  PROVE  /\ GoodRecord(network, entropy, ImportedRecord(chain, key))
         /\ GoodRecord(network, entropy, GeneratedRecord(chain, key))
BY DEF GoodRecord, ImportedRecord, GeneratedRecord, KeyRecord, SoftwareKeyOrigin

-----------------------------------------------------------------------------
(***************************************************************************)
(* The invariant                                                           *)
(***************************************************************************)

LEMMA WalletInit == Init => WalletInv
BY EmptyGood DEF Init, WalletInv

\* A step that only replaces the committed Store by a good one.
LEMMA CommitGood ==
  ASSUME WalletInv, Draw, GoodStore(store'), UNCHANGED <<backup, pendings, spent>>
  PROVE  WalletInv'
BY DEF WalletInv, Draw, Fresh

\* What Prepare stores is a well-formed Pending Profile for its Store.
LEMMA MakePendingGood ==
  ASSUME NEW s, GoodStore(s), NEW id \in ProfileIds, NEW network \in Network,
         NEW entropy \in Entropies, NEW pw \in ValidPasswords, NEW random \in Nat
  PROVE  /\ IsPendingProfile(make_pending(s, id, network, entropy, pw, random))
         /\ make_pending(s, id, network, entropy, pw, random).target = s
<1> DEFINE pending == make_pending(s, id, network, entropy, pw, random)
<1>1. pending = [target |-> s, profile_id |-> id, network |-> network,
                 salt |-> random, nonce |-> random,
                 box |-> [key |-> derive_encryption_key(pw, random), nonce |-> random,
                          aad |-> pending_aad(s, id, network), plaintext |-> entropy]]
  BY DEF make_pending, encrypt
<1>2. derive_encryption_key(pw, random) \in EncryptionKey
  BY DEF derive_encryption_key, EncryptionKey
<1>3. IsWalletStore(s)
  BY DEF GoodStore
<1> HIDE DEF pending
<1> QED
  BY <1>1, <1>2, <1>3 DEF IsPendingProfile, pending

LEMMA WalletStep == WalletInv /\ [Next]_vars => WalletInv'
<1> SUFFICES ASSUME WalletInv, [Next]_vars
             PROVE  WalletInv'
  OBVIOUS
<1>0. GoodStore(store) /\ Fresh \in Nat /\ draws \in Nat
  BY DEF WalletInv, Fresh
<1>1. CASE CreateEmptyStore
  <2>1. GoodStore(store')
    BY <1>0, <1>1, EmptyGood DEF CreateEmptyStore
  <2> QED
    BY <1>1, <2>1, CommitGood DEF CreateEmptyStore
<1>2. ASSUME NEW pending \in pendings, NEW pw \in Passwords,
             FinalizeGeneratedProfile(pending, pw)
      PROVE  WalletInv'
  <2>1. /\ pw \in ValidPasswords
        /\ ~DuplicateProfile(store, duplicate_tag(store.registry_key, pending.network,
                                                  pending.box.plaintext))
        /\ encode_store_code(store') = "Ok"
        /\ store' = finalize_generated_profile(store, pending, pw, Fresh)
    BY <1>2 DEF FinalizeGeneratedProfile, Commit, finalize_generated_profile_code,
                ??, Require, validate_password
  <2>2. /\ pending.profile_id \in ProfileIds
        /\ pending.network \in Network
        /\ pending.box.plaintext \in Entropies
    BY DEF WalletInv, IsPendingProfile
  <2>3. GoodStore(store')
    BY <1>0, <2>1, <2>2, NewProfileGood DEF finalize_generated_profile
  <2> QED
    BY <1>2, <2>3 DEF WalletInv, FinalizeGeneratedProfile, Draw, Fresh
<1>3. ASSUME NEW id \in ProfileIds, NEW pw \in Passwords, NEW n \in Network,
             NEW e \in Entropies, PrepareGeneratedProfile(id, n, e, pw)
      PROVE  WalletInv'
  <2> DEFINE pending == make_pending(store, id, n, e, pw, Fresh)
  <2>1. pw \in ValidPasswords
    BY <1>3 DEF PrepareGeneratedProfile, prepare_generated_profile_code,
                ??, Require, validate_password
  <2>2. IsPendingProfile(pending) /\ pending.target = store
    BY <1>0, <2>1, MakePendingGood
  <2>3. pendings' = pendings \cup {pending}
    BY <1>3 DEF PrepareGeneratedProfile
  <2> HIDE DEF pending
  <2> QED
    BY <1>0, <1>3, <2>2, <2>3 DEF WalletInv, PrepareGeneratedProfile, Draw, Fresh
<1>4. ASSUME NEW id \in ProfileIds, NEW pw \in Passwords, NEW n \in Network,
             NEW m, RestoreProfile(id, n, m, pw)
      PROVE  WalletInv'
  <2>1. /\ pw \in ValidPasswords
        /\ m \in Entropies
        /\ ~DuplicateProfile(store, duplicate_tag(store.registry_key, n, m))
        /\ encode_store_code(store') = "Ok"
        /\ store' = restore_profile(store, id, n, m, pw, Fresh)
    BY <1>4 DEF RestoreProfile, Commit, restore_profile_code, ??, Require,
                validate_password, parse_mnemonic
  <2>2. GoodStore(store')
    BY <1>0, <2>1, NewProfileGood DEF restore_profile
  <2> QED
    BY <1>4, <2>2, CommitGood DEF RestoreProfile
<1>5. ASSUME NEW id \in ProfileIds, NEW pw \in Passwords, NEW new \in Passwords,
             ChangeProfilePassword(id, pw, new)
      PROVE  WalletInv'
  <2>1. /\ new \in ValidPasswords
        /\ authenticate_profile_code(store, id, pw) = "Ok"
        /\ encode_store_code(store') = "Ok"
        /\ store' = change_profile_password(store, id, new, Fresh)
    BY <1>5 DEF ChangeProfilePassword, Commit, change_profile_password_code,
                ??, Require, validate_password
  <2>2. id \in DOMAIN store.profiles
    BY <2>1, Authenticated
  <2>3. GoodPayload(store.profiles[id].network, authenticate_profile(store, id))
    BY <1>0, <2>2 DEF GoodStore, GoodProfile, authenticate_profile
  <2>4. authenticate_profile(store, id) = store.profiles[id].box.plaintext
    BY DEF authenticate_profile
  <2>5. GoodStore(store')
    BY <1>0, <2>1, <2>2, <2>3, <2>4, ReencryptGood DEF change_profile_password
  <2> QED
    BY <1>5, <2>5, CommitGood DEF ChangeProfilePassword
<1>6. ASSUME NEW id \in ProfileIds, NEW pw \in Passwords, DeleteProfile(id, pw)
      PROVE  WalletInv'
  <2>1. encode_store_code(store') = "Ok" /\ store' = delete_profile(store, id)
    BY <1>6 DEF DeleteProfile, Commit, delete_profile_code, ??, Require
  <2>2. GoodStore(store')
    BY <1>0, <2>1, DropGood DEF delete_profile
  <2> QED
    BY <1>6, <2>2 DEF WalletInv, DeleteProfile
<1>7. ASSUME NEW id \in ProfileIds, NEW pw \in Passwords, NEW k \in KeyIds,
             DeleteSoftwareKey(id, k, pw)
      PROVE  WalletInv'
  <2> DEFINE payload == authenticate_profile(store, id)
  <2>1. /\ authenticate_profile_code(store, id, pw) = "Ok"
        /\ encode_payload_code(DropKey(payload, k)) = "Ok"
        /\ encode_store_code(store') = "Ok"
        /\ store' = delete_software_key(store, id, k, pw, Fresh)
    BY <1>7 DEF DeleteSoftwareKey, Commit, delete_software_key_code, ??, Require
  <2>2. id \in DOMAIN store.profiles /\ pw \in ValidPasswords
    BY <2>1, Authenticated
  <2>3. GoodPayload(store.profiles[id].network, payload)
    BY <1>0, <2>2 DEF GoodStore, GoodProfile, authenticate_profile
  <2>4. payload = store.profiles[id].box.plaintext
    BY DEF authenticate_profile
  <2>5. /\ GoodPayload(store.profiles[id].network, DropKey(payload, k))
        /\ DropKey(payload, k).mnemonic_entropy = payload.mnemonic_entropy
    BY <2>1, <2>3, DropKeyGood
  <2>6. GoodStore(store')
    BY <1>0, <2>1, <2>2, <2>4, <2>5, ReencryptGood DEF delete_software_key
  <2> QED
    BY <1>7, <2>6, CommitGood DEF DeleteSoftwareKey
<1>8. ASSUME NEW id \in ProfileIds, NEW pw \in Passwords, NEW k \in KeyIds,
             NEW c \in Chain, NEW i \in AccountIndexes, DeriveSoftwareKey(id, pw, k, c, i)
      PROVE  WalletInv'
  <2> DEFINE record == DerivedRecord(store, id, c, i)
  <2>1. /\ authenticate_profile_code(store, id, pw) = "Ok"
        /\ validate_private_key(record.private_key)
        /\ AddKey_code(store, id, pw, k, record, Fresh) = "Ok"
        /\ store' = AddKey(store, id, pw, k, record, Fresh)
        /\ k \in new_key_id(authenticate_profile(store, id))
    BY <1>8 DEF DeriveSoftwareKey, Commit, derive_software_key_code, derive_software_key,
                ??, Require
  <2>2. id \in DOMAIN store.profiles /\ pw \in ValidPasswords
    BY <2>1, Authenticated
  <2>3. GoodStore(store')
    BY <1>0, <2>1, <2>2, DerivedGood, AddKeyGood
  <2> QED
    BY <1>8, <2>3, CommitGood DEF DeriveSoftwareKey
<1>9. ASSUME NEW id \in ProfileIds, NEW pw \in Passwords, NEW k \in KeyIds,
             NEW c \in Chain, NEW key \in PrivateKeys, ImportSoftwareKey(id, pw, k, c, key)
      PROVE  WalletInv'
  <2> DEFINE record == ImportedRecord(c, key)
  <2>1. /\ authenticate_profile_code(store, id, pw) = "Ok"
        /\ validate_private_key(key)
        /\ AddKey_code(store, id, pw, k, record, Fresh) = "Ok"
        /\ store' = AddKey(store, id, pw, k, record, Fresh)
        /\ k \in new_key_id(authenticate_profile(store, id))
    BY <1>9 DEF ImportSoftwareKey, Commit, import_software_key_code, import_software_key,
                ??, Require
  <2>2. id \in DOMAIN store.profiles /\ pw \in ValidPasswords
    BY <2>1, Authenticated
  <2>3. GoodStore(store')
    BY <1>0, <2>1, <2>2, OutsideGood, AddKeyGood
  <2> QED
    BY <1>9, <2>3, CommitGood DEF ImportSoftwareKey
<1>10. ASSUME NEW id \in ProfileIds, NEW pw \in Passwords, NEW k \in KeyIds,
              NEW c \in Chain, NEW key \in RawKeys, GenerateSoftwareKey(id, pw, k, c, key)
       PROVE  WalletInv'
  <2> DEFINE record == GeneratedRecord(c, key)
  <2>1. /\ authenticate_profile_code(store, id, pw) = "Ok"
        /\ validate_private_key(key)
        /\ AddKey_code(store, id, pw, k, record, Fresh) = "Ok"
        /\ store' = AddKey(store, id, pw, k, record, Fresh)
        /\ k \in new_key_id(authenticate_profile(store, id))
    BY <1>10 DEF GenerateSoftwareKey, Commit, generate_software_key_code,
                 generate_software_key, generate_private_key, ??, Require
  <2>2. id \in DOMAIN store.profiles /\ pw \in ValidPasswords
    BY <2>1, Authenticated
  <2>3. key \in PrivateKeys
    BY DEF PrivateKeys
  <2>4. GoodStore(store')
    BY <1>0, <2>1, <2>2, <2>3, OutsideGood, AddKeyGood
  <2> QED
    BY <1>10, <2>4, CommitGood DEF GenerateSoftwareKey
<1>11. CASE TakeBackup \/ LoadBackup
  BY <1>11 DEF WalletInv, TakeBackup, LoadBackup
<1>12. CASE UNCHANGED vars
  BY <1>12 DEF WalletInv, vars
<1> QED
  BY <1>1, <1>2, <1>3, <1>4, <1>5, <1>6, <1>7, <1>8, <1>9, <1>10, <1>11, <1>12
     DEF Next, CoreNext

LEMMA WalletInductive == Spec => []WalletInv
BY WalletInit, WalletStep, PTL DEF Spec

-----------------------------------------------------------------------------
(***************************************************************************)
(* What the invariant implies                                              *)
(***************************************************************************)

LEMMA HeldGood ==
  ASSUME WalletInv, NEW s \in HeldStores
  PROVE  GoodStore(s)
BY DEF WalletInv, HeldStores

\* The Store, the backup, the Pending Profiles and the counter keep their
\* types through every operation of the Core and every rollback.
THEOREM TypeCorrect == Spec => []TypeOK
<1>1. WalletInv => TypeOK
  BY DEF WalletInv, TypeOK, GoodStore
<1> QED
  BY <1>1, WalletInductive, PTL

\* The decoder's limits follow from those the encoders enforced.
LEMMA GoodDecodes ==
  ASSUME NEW s, GoodStore(s)
  PROVE  decode_store_code(s) = "Ok"
<1>1. Cardinality(DOMAIN s.profiles) <= MaxProfiles
  BY DEF GoodStore, encode_store_code, Require
<1>2. ASSUME NEW p \in DOMAIN s.profiles
      PROVE  parse_profile_code(s.profiles[p]) = "Ok"
  <2>1. DOMAIN s.profiles[p].index = DOMAIN s.profiles[p].box.plaintext.software_keys
    BY DEF GoodStore, GoodProfile, index_from_payload
  <2>2. encode_payload_code(s.profiles[p].box.plaintext) = "Ok"
    BY DEF GoodStore, GoodProfile, GoodPayload
  <2> QED
    BY <2>1, <2>2 DEF parse_profile_code, encode_payload_code, Require
<1> QED
  BY <1>1, <1>2 DEF decode_store_code, Require

\* What authentication answers for each password.
LEMMA GoodOpens ==
  ASSUME NEW s, GoodStore(s), NEW p \in DOMAIN s.profiles, NEW pw
  PROVE  LET owner == s.profiles[p].box.key.password IN
         /\ owner \in ValidPasswords
         /\ authenticate_profile_code(s, p, pw) =
              IF pw \notin ValidPasswords THEN "InvalidArgument"
              ELSE IF pw = owner THEN "Ok" ELSE "AuthenticationFailed"
<1> DEFINE profile == s.profiles[p]
           payload == profile.box.plaintext
           owner == profile.box.key.password
<1>1. GoodProfile(s.registry_key, p, profile)
  BY DEF GoodStore
<1>2. owner \in ValidPasswords
      /\ profile.box.key = [password |-> owner, salt |-> profile.salt]
  BY <1>1 DEF GoodProfile, IsProfileEnvelope, EncryptionKey
<1>3. validate_authenticated_profile(s, p, payload)
  BY <1>1 DEF GoodProfile, GoodPayload, GoodKeys, validate_authenticated_profile
<1>4. parse_payload_code(payload) = "Ok"
  BY <1>1 DEF GoodProfile, GoodPayload, encode_payload_code, parse_payload_code, Require
<1>5. profile.box.nonce = profile.nonce /\ profile.box.aad = profile_aad(s, p)
  BY <1>1 DEF GoodProfile, profile_aad
<1>6. decrypts(derive_encryption_key(pw, profile.salt), profile.nonce,
               profile_aad(s, p), profile.box) <=> pw = owner
  <2>1. profile.box.key = derive_encryption_key(pw, profile.salt) <=> pw = owner
    BY <1>2 DEF derive_encryption_key
  <2> HIDE DEF profile, owner
  <2> QED
    BY <2>1, <1>5 DEF decrypts
<1> HIDE DEF owner
<1>7. authenticate_profile_code(s, p, pw) =
        IF pw \notin ValidPasswords THEN "InvalidArgument"
        ELSE IF pw = owner THEN "Ok" ELSE "AuthenticationFailed"
  BY <1>3, <1>4, <1>6 DEF authenticate_profile_code, ??, Require, validate_password
<1> QED
  BY <1>2, <1>7 DEF owner

\* A Store the Core returned is one its decoder accepts, for any limits.
THEOREM Decodable == Spec => []EveryStoreDecodes
<1>1. WalletInv => EveryStoreDecodes
  BY HeldGood, GoodDecodes DEF EveryStoreDecodes
<1> QED
  BY <1>1, WalletInductive, PTL

\* Each Profile of each held Store opens with exactly one password.
THEOREM Openable == Spec => []EveryProfileOpens
<1>1. ASSUME WalletInv PROVE EveryProfileOpens
  <2>1. SUFFICES ASSUME NEW s \in HeldStores, NEW p \in DOMAIN s.profiles
                 PROVE  \E owner \in ValidPasswords : \A pw \in Passwords :
                          authenticate_profile_code(s, p, pw) = "Ok" <=> pw = owner
    BY DEF EveryProfileOpens
  <2> DEFINE owner == s.profiles[p].box.key.password
  <2>2. GoodStore(s)
    BY <1>1, HeldGood
  <2>3. /\ owner \in ValidPasswords
        /\ \A pw : authenticate_profile_code(s, p, pw) = "Ok" <=> pw = owner
    BY <2>2, GoodOpens
  <2> HIDE DEF owner
  <2> QED
    BY <2>3
<1> QED
  BY <1>1, WalletInductive, PTL

\* What is listed without a password is what the payload contains.
THEOREM FaithfulManifest == Spec => []ManifestMatchesPayload
<1>1. ASSUME WalletInv PROVE ManifestMatchesPayload
  <2>1. SUFFICES ASSUME NEW s \in HeldStores, NEW p \in DOMAIN s.profiles
                 PROVE  LET keys == Payload(s, p).software_keys IN
                        /\ list_software_keys(s, p) =
                             {[key_id |-> k, chain |-> keys[k].chain] : k \in DOMAIN keys}
                        /\ [profile_id |-> p, network |-> s.profiles[p].duplicate_tag.network,
                            software_key_count |-> Cardinality(DOMAIN keys)] \in list_profiles(s)
    BY DEF ManifestMatchesPayload
  <2> DEFINE keys == Payload(s, p).software_keys
             index == s.profiles[p].index
  <2>2. GoodProfile(s.registry_key, p, s.profiles[p])
    BY <1>1, HeldGood DEF GoodStore
  <2>3. DOMAIN index = DOMAIN keys /\ \A k \in DOMAIN keys : index[k] = keys[k].chain
    BY <2>2 DEF GoodProfile, index_from_payload, Payload
  <2>4. s.profiles[p].duplicate_tag.network = s.profiles[p].network
    BY <2>2 DEF GoodProfile, duplicate_tag
  <2>5. list_software_keys(s, p) = {[key_id |-> k, chain |-> index[k]] : k \in DOMAIN index}
    BY DEF list_software_keys
  <2>6. [profile_id |-> p, network |-> s.profiles[p].network,
         software_key_count |-> Cardinality(DOMAIN index)] \in list_profiles(s)
    BY DEF list_profiles
  <2> HIDE DEF keys, index
  <2>7. {[key_id |-> k, chain |-> index[k]] : k \in DOMAIN index} =
          {[key_id |-> k, chain |-> keys[k].chain] : k \in DOMAIN keys}
    BY <2>3
  <2> QED
    BY <2>3, <2>4, <2>5, <2>6, <2>7 DEF keys
<1> QED
  BY <1>1, WalletInductive, PTL

\* Comparing plaintext tags keeps Mnemonic and Network unique in a Store.
THEOREM UniqueProfiles == Spec => []NoDuplicateProfiles
<1>1. ASSUME WalletInv PROVE NoDuplicateProfiles
  <2>1. SUFFICES ASSUME NEW s \in HeldStores, NEW p \in DOMAIN s.profiles,
                        NEW q \in DOMAIN s.profiles,
                        s.profiles[p].network = s.profiles[q].network,
                        Payload(s, p).mnemonic_entropy = Payload(s, q).mnemonic_entropy
                 PROVE  p = q
    BY DEF NoDuplicateProfiles
  <2>2. GoodStore(s)
    BY <1>1, HeldGood
  <2>3. s.profiles[p].duplicate_tag = s.profiles[q].duplicate_tag
    BY <2>1, <2>2 DEF GoodStore, GoodProfile, Payload
  <2> QED
    BY <2>2, <2>3 DEF GoodStore
<1> QED
  BY <1>1, WalletInductive, PTL

\* No Profile holds one private key twice for a Chain.
THEOREM UniqueSoftwareKeys == Spec => []NoDuplicateSoftwareKeys
<1>1. ASSUME WalletInv PROVE NoDuplicateSoftwareKeys
  BY <1>1, HeldGood
     DEF NoDuplicateSoftwareKeys, GoodStore, GoodProfile, GoodPayload, GoodKeys, Payload
<1> QED
  BY <1>1, WalletInductive, PTL

\* Every key recorded as derived is the one its Mnemonic, Network, Chain and
\* account index derive.
THEOREM RecoverableKeys == Spec => []DerivedKeysRecoverable
<1>1. ASSUME WalletInv PROVE DerivedKeysRecoverable
  BY <1>1, HeldGood
     DEF DerivedKeysRecoverable, GoodStore, GoodProfile, GoodPayload, GoodKeys, Payload
<1> QED
  BY <1>1, WalletInductive, PTL

-----------------------------------------------------------------------------
(***************************************************************************)
(* Salts and nonces.  Every nonce is a draw of its own, so no two boxes    *)
(* share one; a salt is shared only by the boxes of one Profile's history, *)
(* so the salt of a Pending Profile is in no box.                          *)
(***************************************************************************)

NonceInv ==
  /\ \A b \in Boxes : b.nonce \in 0..draws /\ b.key.salt \in 0..draws
  /\ \A a, b \in Boxes : a.nonce = b.nonce => a = b
  /\ \A pending \in pendings :
       /\ pending.box.key.salt \in 0..draws
       /\ \A b \in Boxes : pending.box.key.salt # b.key.salt

StoreBoxes(s) == {s.profiles[p].box : p \in DOMAIN s.profiles}

\* A held box is a box of the committed Store, of the backup or of a target.
LEMMA BoxesAre ==
  ASSUME NEW b
  PROVE  b \in Boxes <=> \/ b \in StoreBoxes(store)
                         \/ b \in StoreBoxes(backup)
                         \/ \E pending \in pendings : b \in StoreBoxes(pending.target)
BY DEF Boxes, HeldStores, StoreBoxes

LEMMA BoxesAreNext ==
  ASSUME NEW b
  PROVE  b \in Boxes' <=> \/ b \in StoreBoxes(store')
                          \/ b \in StoreBoxes(backup')
                          \/ \E pending \in pendings' : b \in StoreBoxes(pending.target)
BY DEF Boxes, HeldStores, StoreBoxes

\* Replacing one envelope brings in no box but that of the new envelope.
LEMMA PutBoxes ==
  ASSUME NEW s, GoodStore(s), NEW id, NEW profile,
         NEW b \in StoreBoxes(PutProfile(s, id, profile))
  PROVE  b \in StoreBoxes(s) \/ b = profile.box
<1> DEFINE t == PutProfile(s, id, profile)
<1>1. s = [registry_key |-> s.registry_key, profiles |-> s.profiles]
  BY DEF GoodStore, IsWalletStore
<1>2. t.profiles = [p \in DOMAIN s.profiles \cup {id} |->
                      IF p = id THEN profile ELSE s.profiles[p]]
  BY <1>1 DEF PutProfile
<1> HIDE DEF t
<1>3. PICK p \in DOMAIN t.profiles : b = t.profiles[p].box
  BY DEF StoreBoxes, t
<1> QED
  BY <1>2, <1>3 DEF StoreBoxes

LEMMA DropBoxes ==
  ASSUME NEW s, GoodStore(s), NEW id, NEW b \in StoreBoxes(DropProfile(s, id))
  PROVE  b \in StoreBoxes(s)
<1> DEFINE t == DropProfile(s, id)
<1>1. s = [registry_key |-> s.registry_key, profiles |-> s.profiles]
  BY DEF GoodStore, IsWalletStore
<1>2. t.profiles = [p \in DOMAIN s.profiles \ {id} |-> s.profiles[p]]
  BY <1>1 DEF DropProfile
<1> HIDE DEF t
<1>3. PICK p \in DOMAIN t.profiles : b = t.profiles[p].box
  BY DEF StoreBoxes, t
<1> QED
  BY <1>2, <1>3 DEF StoreBoxes

\* A step that brings in no box.
LEMMA NoNewBox ==
  ASSUME NonceInv, draws \in Nat, draws' \in Nat, draws' >= draws,
         pendings' = pendings,
         \A b : b \in Boxes' => b \in Boxes
  PROVE  NonceInv'
BY DEF NonceInv

\* A step that seals one envelope of the committed Store with a fresh nonce,
\* under a fresh salt or the salt the Store has for that Profile.
LEMMA SealStep ==
  ASSUME WalletInv, NonceInv, Draw, NEW id, NEW profile,
         store' = PutProfile(store, id, profile),
         profile.box.nonce = Fresh,
         \/ profile.box.key.salt = Fresh
         \/ \E b \in StoreBoxes(store) : profile.box.key.salt = b.key.salt,
         UNCHANGED <<backup, pendings>>
  PROVE  NonceInv'
<1>1. draws \in Nat /\ draws' = draws + 1 /\ Fresh = draws + 1 /\ GoodStore(store)
  BY DEF WalletInv, Draw, Fresh
<1>2. ASSUME NEW b \in Boxes' PROVE b \in Boxes \/ b = profile.box
  <2>1. CASE b \in StoreBoxes(store')
    BY <1>1, <2>1, PutBoxes, BoxesAre
  <2>2. CASE b \notin StoreBoxes(store')
    BY <2>2, BoxesAre, BoxesAreNext
  <2> QED
    BY <2>1, <2>2
<1>3. \/ profile.box.key.salt = Fresh
      \/ \E b \in Boxes : profile.box.key.salt = b.key.salt
  BY BoxesAre
<1>4. profile.box.nonce \in 0..draws' /\ profile.box.key.salt \in 0..draws'
  BY <1>1, <1>3 DEF NonceInv
<1>5. \A b \in Boxes : b.nonce # profile.box.nonce
  BY <1>1 DEF NonceInv
<1>6. \A pending \in pendings : pending.box.key.salt # profile.box.key.salt
  BY <1>1, <1>3 DEF NonceInv
<1>7. \A b \in Boxes' : b.nonce \in 0..draws' /\ b.key.salt \in 0..draws'
  BY <1>1, <1>2, <1>4 DEF NonceInv
<1>8. \A a, b \in Boxes' : a.nonce = b.nonce => a = b
  BY <1>2, <1>5 DEF NonceInv
<1>9. \A pending \in pendings' :
        /\ pending.box.key.salt \in 0..draws'
        /\ \A b \in Boxes' : pending.box.key.salt # b.key.salt
  BY <1>1, <1>2, <1>6 DEF NonceInv
<1> QED
  BY <1>7, <1>8, <1>9 DEF NonceInv

\* The box SealedProfile makes.
LEMMA SealedBox ==
  ASSUME NEW reg, NEW id, NEW network, NEW tag, NEW salt, NEW nonce, NEW payload, NEW pw
  PROVE  LET box == SealedProfile(reg, id, network, tag, salt, nonce, payload, pw).box
         IN  box.nonce = nonce /\ box.key.salt = salt
BY DEF SealedProfile, encrypt, derive_encryption_key

LEMMA NewProfileSeals ==
  ASSUME WalletInv, NonceInv, Draw, NEW id, NEW network, NEW entropy, NEW pw,
         store' = NewProfileStore(store, id, network, entropy, pw, Fresh),
         UNCHANGED <<backup, pendings>>
  PROVE  NonceInv'
<1> DEFINE sealed == new_encrypted_profile(store.registry_key, id, network,
                       duplicate_tag(store.registry_key, network, entropy),
                       [mnemonic_entropy |-> entropy, software_keys |-> [k \in {} |-> k]],
                       pw, Fresh)
<1>1. store' = PutProfile(store, id, sealed)
  BY DEF NewProfileStore
<1>2. sealed.box.nonce = Fresh /\ sealed.box.key.salt = Fresh
  BY SealedBox DEF new_encrypted_profile
<1> HIDE DEF sealed
<1> QED
  BY <1>1, <1>2, SealStep

LEMMA ReencryptSeals ==
  ASSUME WalletInv, NonceInv, Draw, NEW id \in DOMAIN store.profiles, NEW payload,
         NEW pw, NEW change,
         store' = reencrypt_profile(store, id, payload, pw, change, Fresh),
         UNCHANGED <<backup, pendings>>
  PROVE  NonceInv'
<1> DEFINE profile == store.profiles[id]
           salt == IF change THEN Fresh ELSE profile.salt
           sealed == SealedProfile(store.registry_key, id, profile.network,
                                   profile.duplicate_tag, salt, Fresh, payload, pw)
<1>1. store' = PutProfile(store, id, sealed)
  BY DEF reencrypt_profile
<1>2. sealed.box.nonce = Fresh /\ sealed.box.key.salt = salt
  BY SealedBox
<1>3. profile.box \in StoreBoxes(store) /\ profile.box.key.salt = profile.salt
  BY DEF StoreBoxes, WalletInv, GoodStore, GoodProfile
<1>4. salt = Fresh \/ salt = profile.salt
  OBVIOUS
<1> HIDE DEF sealed, salt
<1> QED
  BY <1>1, <1>2, <1>3, <1>4, SealStep

\* Preparing draws the salt of the Pending Profile; no Store changes.
LEMMA PrepareDraws ==
  ASSUME WalletInv, NonceInv, Draw, NEW pending,
         pendings' = pendings \cup {pending}, pending.target = store,
         pending.box.key.salt = Fresh, UNCHANGED <<store, backup>>
  PROVE  NonceInv'
<1>1. draws \in Nat /\ draws' = draws + 1 /\ Fresh = draws + 1
  BY DEF WalletInv, Draw, Fresh
<1>2. \A b : b \in Boxes' => b \in Boxes
  BY BoxesAre, BoxesAreNext
<1> QED
  BY <1>1, <1>2 DEF NonceInv

LEMMA NonceStep == WalletInv /\ NonceInv /\ [Next]_vars => NonceInv'
<1> SUFFICES ASSUME WalletInv, NonceInv, [Next]_vars
             PROVE  NonceInv'
  OBVIOUS
<1>0. GoodStore(store) /\ draws \in Nat
  BY DEF WalletInv
<1>1. CASE CreateEmptyStore
  <2>1. StoreBoxes(store') = {}
    BY <1>1 DEF CreateEmptyStore, EmptyStore, StoreBoxes
  <2>2. \A b : b \in Boxes' => b \in Boxes
    BY <1>1, <2>1, BoxesAre, BoxesAreNext DEF CreateEmptyStore
  <2> QED
    BY <1>0, <1>1, <2>2, NoNewBox DEF CreateEmptyStore, Draw, Fresh
<1>2. ASSUME NEW pending \in pendings, NEW pw \in Passwords,
             FinalizeGeneratedProfile(pending, pw)
      PROVE  NonceInv'
  BY <1>2, NewProfileSeals DEF FinalizeGeneratedProfile, Commit, finalize_generated_profile
<1>3. ASSUME NEW id \in ProfileIds, NEW pw \in Passwords, NEW n \in Network,
             NEW e \in Entropies, PrepareGeneratedProfile(id, n, e, pw)
      PROVE  NonceInv'
  <2> DEFINE pending == make_pending(store, id, n, e, pw, Fresh)
  <2>1. pending.target = store /\ pending.box.key.salt = Fresh
    BY DEF make_pending, encrypt, derive_encryption_key
  <2>2. /\ Draw
        /\ pendings' = pendings \cup {pending}
        /\ UNCHANGED <<store, backup>>
    BY <1>3 DEF PrepareGeneratedProfile
  <2> HIDE DEF pending
  <2> QED
    BY <2>1, <2>2, PrepareDraws
<1>4. ASSUME NEW id \in ProfileIds, NEW pw \in Passwords, NEW n \in Network,
             NEW m, RestoreProfile(id, n, m, pw)
      PROVE  NonceInv'
  BY <1>4, NewProfileSeals DEF RestoreProfile, Commit, restore_profile
<1>5. ASSUME NEW id \in ProfileIds, NEW pw \in Passwords, NEW new \in Passwords,
             ChangeProfilePassword(id, pw, new)
      PROVE  NonceInv'
  <2>1. authenticate_profile_code(store, id, pw) = "Ok"
    BY <1>5 DEF ChangeProfilePassword, Commit, change_profile_password_code, ??, Require
  <2>2. id \in DOMAIN store.profiles
    BY <2>1, Authenticated
  <2> QED
    BY <1>5, <2>2, ReencryptSeals DEF ChangeProfilePassword, Commit, change_profile_password
<1>6. ASSUME NEW id \in ProfileIds, NEW pw \in Passwords, DeleteProfile(id, pw)
      PROVE  NonceInv'
  <2>1. store' = DropProfile(store, id) /\ UNCHANGED <<backup, pendings, draws>>
    BY <1>6 DEF DeleteProfile, Commit, delete_profile
  <2>2. \A b \in StoreBoxes(store') : b \in StoreBoxes(store)
    BY <1>0, <2>1, DropBoxes
  <2>3. \A b : b \in Boxes' => b \in Boxes
    BY <2>1, <2>2, BoxesAre, BoxesAreNext
  <2> QED
    BY <1>0, <2>1, <2>3, NoNewBox
<1>7. ASSUME NEW id \in ProfileIds, NEW pw \in Passwords, NEW k \in KeyIds,
             DeleteSoftwareKey(id, k, pw)
      PROVE  NonceInv'
  <2>1. authenticate_profile_code(store, id, pw) = "Ok"
    BY <1>7 DEF DeleteSoftwareKey, Commit, delete_software_key_code, ??, Require
  <2>2. id \in DOMAIN store.profiles
    BY <2>1, Authenticated
  <2> QED
    BY <1>7, <2>2, ReencryptSeals DEF DeleteSoftwareKey, Commit, delete_software_key
<1>8. ASSUME NEW id \in ProfileIds, NEW pw \in Passwords, NEW k \in KeyIds,
             NEW c \in Chain, NEW i \in AccountIndexes, DeriveSoftwareKey(id, pw, k, c, i)
      PROVE  NonceInv'
  <2>1. authenticate_profile_code(store, id, pw) = "Ok"
    BY <1>8 DEF DeriveSoftwareKey, Commit, derive_software_key_code, ??, Require
  <2>2. id \in DOMAIN store.profiles
    BY <2>1, Authenticated
  <2> QED
    BY <1>8, <2>2, ReencryptSeals
       DEF DeriveSoftwareKey, Commit, derive_software_key, AddKey
<1>9. ASSUME NEW id \in ProfileIds, NEW pw \in Passwords, NEW k \in KeyIds,
             NEW c \in Chain, NEW key \in PrivateKeys, ImportSoftwareKey(id, pw, k, c, key)
      PROVE  NonceInv'
  <2>1. authenticate_profile_code(store, id, pw) = "Ok"
    BY <1>9 DEF ImportSoftwareKey, Commit, import_software_key_code, ??, Require
  <2>2. id \in DOMAIN store.profiles
    BY <2>1, Authenticated
  <2> QED
    BY <1>9, <2>2, ReencryptSeals
       DEF ImportSoftwareKey, Commit, import_software_key, AddKey
<1>10. ASSUME NEW id \in ProfileIds, NEW pw \in Passwords, NEW k \in KeyIds,
              NEW c \in Chain, NEW key \in RawKeys, GenerateSoftwareKey(id, pw, k, c, key)
       PROVE  NonceInv'
  <2>1. authenticate_profile_code(store, id, pw) = "Ok"
    BY <1>10 DEF GenerateSoftwareKey, Commit, generate_software_key_code, ??, Require
  <2>2. id \in DOMAIN store.profiles
    BY <2>1, Authenticated
  <2> QED
    BY <1>10, <2>2, ReencryptSeals
       DEF GenerateSoftwareKey, Commit, generate_software_key, AddKey
<1>11. CASE TakeBackup \/ LoadBackup
  <2>1. \A b : b \in Boxes' => b \in Boxes
    BY <1>11, BoxesAre, BoxesAreNext DEF TakeBackup, LoadBackup
  <2> QED
    BY <1>0, <1>11, <2>1, NoNewBox DEF TakeBackup, LoadBackup
<1>12. CASE UNCHANGED vars
  BY <1>0, <1>12 DEF NonceInv, vars, Boxes, HeldStores
<1> QED
  BY <1>1, <1>2, <1>3, <1>4, <1>5, <1>6, <1>7, <1>8, <1>9, <1>10, <1>11, <1>12
     DEF Next, CoreNext

\* No two different ciphertexts the application holds were sealed under the
\* same key and nonce, and no Pending Profile shares a key with one, however
\* often a Profile is re-encrypted under its salt, rolled back and forked.
THEOREM FreshNonces == Spec => []NoncesNeverReused
<1>1. Init => NonceInv
  <2>1. ASSUME Init PROVE Boxes = {}
    BY <2>1 DEF Init, Boxes, HeldStores, EmptyStore
  <2> QED
    BY <2>1 DEF Init, NonceInv
<1>2. WalletInv /\ NonceInv => NoncesNeverReused
  BY DEF NonceInv, NoncesNeverReused
<1> QED
  BY <1>1, <1>2, NonceStep, WalletInductive, PTL DEF Spec

-----------------------------------------------------------------------------
(***************************************************************************)
(* The operations that release or use secrets                              *)
(***************************************************************************)

\* An export answers with the secret that both the user and the application
\* named, and only under the password of its Profile.
THEOREM ConfirmedExports == Spec => []ExportReleasesTheConfirmedSecret
<1>1. ASSUME WalletInv, NEW r \in ExportRequest, NEW pw \in Passwords
      PROVE  LET consent(target) ==
                   /\ r.user_request = [status |-> "Requested", target |-> target]
                   /\ r.application_confirmation =
                        [status |-> "Confirmed", target |-> target]
             IN
             /\ export_mnemonic_code(store, r, pw) = "Ok" =>
                  \E p \in DOMAIN store.profiles :
                    /\ consent(MnemonicTarget(p))
                    /\ pw = store.profiles[p].box.key.password
                    /\ export_mnemonic(store, r) = store.profiles[p].duplicate_tag.entropy
             /\ export_private_key_code(store, r, pw) = "Ok" =>
                  \E p \in DOMAIN store.profiles :
                    \E k \in DOMAIN Payload(store, p).software_keys :
                      /\ consent(SoftwareKeyTarget(p, k))
                      /\ pw = store.profiles[p].box.key.password
                      /\ export_private_key(store, r) =
                           Payload(store, p).software_keys[k].private_key
  <2> DEFINE consent(target) ==
                /\ r.user_request = [status |-> "Requested", target |-> target]
                /\ r.application_confirmation = [status |-> "Confirmed", target |-> target]
             p == r.target.profile_id
             k == r.target.key_id
  <2>0. GoodStore(store)
    BY <1>1 DEF WalletInv
  <2>1. /\ r.target \in ExportTarget
        /\ r.user_request = [status |-> r.user_request.status,
                             target |-> r.user_request.target]
        /\ r.application_confirmation = [status |-> r.application_confirmation.status,
                                         target |-> r.application_confirmation.target]
    BY <1>1 DEF ExportRequest
  <2>2. ASSUME export_mnemonic_code(store, r, pw) = "Ok"
        PROVE  /\ p \in DOMAIN store.profiles
               /\ consent(MnemonicTarget(p))
               /\ pw = store.profiles[p].box.key.password
               /\ export_mnemonic(store, r) = store.profiles[p].duplicate_tag.entropy
    <3>1. /\ validate_export_request_code(r, "Mnemonic") = "Ok"
          /\ authenticate_profile_code(store, p, pw) = "Ok"
      BY <2>2 DEF export_mnemonic_code, ??
    <3>2. /\ r.user_request.status = "Requested"
          /\ r.application_confirmation.status = "Confirmed"
          /\ r.target = r.user_request.target
          /\ r.target = r.application_confirmation.target
          /\ r.target.kind = "Mnemonic"
      BY <3>1 DEF validate_export_request_code, Require
    <3>3. r.target = MnemonicTarget(p)
      BY <2>1, <3>2 DEF ExportTarget, MnemonicTarget, SoftwareKeyTarget
    <3>4. consent(MnemonicTarget(p))
      BY <2>1, <3>2, <3>3
    <3>5. p \in DOMAIN store.profiles
      BY <3>1, Authenticated
    <3>6. pw = store.profiles[p].box.key.password
      BY <2>0, <3>1, <3>5, GoodOpens
    <3>7. store.profiles[p].duplicate_tag.entropy =
            store.profiles[p].box.plaintext.mnemonic_entropy
      <4>1. GoodProfile(store.registry_key, p, store.profiles[p])
        BY <2>0, <3>5 DEF GoodStore
      <4> QED
        BY <4>1 DEF GoodProfile, duplicate_tag
    <3> QED
      BY <3>4, <3>5, <3>6, <3>7 DEF export_mnemonic, authenticate_profile
  <2>3. ASSUME export_private_key_code(store, r, pw) = "Ok"
        PROVE  /\ p \in DOMAIN store.profiles
               /\ k \in DOMAIN Payload(store, p).software_keys
               /\ consent(SoftwareKeyTarget(p, k))
               /\ pw = store.profiles[p].box.key.password
               /\ export_private_key(store, r) =
                    Payload(store, p).software_keys[k].private_key
    <3>1. /\ validate_export_request_code(r, "SoftwareKey") = "Ok"
          /\ authenticate_profile_code(store, p, pw) = "Ok"
          /\ FindKey_code(store, p, k) = "Ok"
      BY <2>3 DEF export_private_key_code, ??
    <3>2. /\ r.user_request.status = "Requested"
          /\ r.application_confirmation.status = "Confirmed"
          /\ r.target = r.user_request.target
          /\ r.target = r.application_confirmation.target
          /\ r.target.kind = "SoftwareKey"
      BY <3>1 DEF validate_export_request_code, Require
    <3>3. r.target = SoftwareKeyTarget(p, k)
      BY <2>1, <3>2 DEF ExportTarget, MnemonicTarget, SoftwareKeyTarget
    <3>4. consent(SoftwareKeyTarget(p, k))
      BY <2>1, <3>2, <3>3
    <3>5. p \in DOMAIN store.profiles
      BY <3>1, Authenticated
    <3>6. pw = store.profiles[p].box.key.password
      BY <2>0, <3>1, <3>5, GoodOpens
    <3>7. k \in DOMAIN Payload(store, p).software_keys
      BY <3>1 DEF FindKey_code, Require, authenticate_profile, Payload
    <3> QED
      BY <3>4, <3>5, <3>6, <3>7 DEF export_private_key, FindKey, authenticate_profile, Payload
  <2> HIDE DEF p, k, consent
  <2>4. export_mnemonic_code(store, r, pw) = "Ok" =>
          \E q \in DOMAIN store.profiles :
            /\ consent(MnemonicTarget(q))
            /\ pw = store.profiles[q].box.key.password
            /\ export_mnemonic(store, r) = store.profiles[q].duplicate_tag.entropy
    BY <2>2
  <2>5. export_private_key_code(store, r, pw) = "Ok" =>
          \E q \in DOMAIN store.profiles : \E j \in DOMAIN Payload(store, q).software_keys :
            /\ consent(SoftwareKeyTarget(q, j))
            /\ pw = store.profiles[q].box.key.password
            /\ export_private_key(store, r) = Payload(store, q).software_keys[j].private_key
    BY <2>3
  <2> QED
    BY <2>4, <2>5 DEF consent
<1>2. WalletInv => ExportReleasesTheConfirmedSecret
  BY <1>1 DEF ExportReleasesTheConfirmedSecret
<1> QED
  BY <1>2, WalletInductive, PTL

\* An approved signature is made exactly when the account is shown, with the
\* key pair that is shown.
THEOREM SignedAsShown == Spec => []SignerIsTheShownAccount
<1>1. ASSUME WalletInv, NEW r \in SigningRequest, NEW pw \in Passwords,
             r.approval = "Approved", ~r.oversized
      PROVE  LET shown == get_public_account_code(store, r.profile_id, r.key_id, r.context, pw)
                 account == get_public_account(store, r.profile_id, r.key_id, r.context)
             IN  /\ sign_code(store, r, pw) = shown
                 /\ shown = "Ok" =>
                      /\ sign(store, r).signer = account.public_key
                      /\ account.network = store.profiles[r.profile_id].duplicate_tag.network
                      /\ [key_id |-> r.key_id, chain |-> account.chain]
                           \in list_software_keys(store, r.profile_id)
  <2> DEFINE shown == get_public_account_code(store, r.profile_id, r.key_id, r.context, pw)
             account == get_public_account(store, r.profile_id, r.key_id, r.context)
             id == r.profile_id
             key == FindKey(store, id, r.key_id)
  <2>1. sign_code(store, r, pw) = shown
    BY <1>1 DEF sign_code, get_public_account_code, ??, Require
  <2>2. ASSUME shown = "Ok"
        PROVE  /\ sign(store, r).signer = account.public_key
               /\ account.network = store.profiles[id].duplicate_tag.network
               /\ [key_id |-> r.key_id, chain |-> account.chain]
                    \in list_software_keys(store, id)
    <3>1. /\ authenticate_profile_code(store, id, pw) = "Ok"
          /\ FindKey_code(store, id, r.key_id) = "Ok"
          /\ validate_account_context_code(store, id, r.key_id, r.context) = "Ok"
      BY <2>2 DEF get_public_account_code, ??
    <3>2. GoodProfile(store.registry_key, id, store.profiles[id])
      BY <1>1, <3>1, Authenticated DEF WalletInv, GoodStore
    <3>3. r.context.network = store.profiles[id].duplicate_tag.network
      BY <3>1, <3>2 DEF validate_account_context_code, Require, GoodProfile, duplicate_tag
    <3>4. /\ r.key_id \in DOMAIN store.profiles[id].index
          /\ store.profiles[id].index[r.key_id] = key.chain
      BY <3>1, <3>2 DEF FindKey_code, Require, FindKey, authenticate_profile, GoodProfile,
                        index_from_payload
    <3>5. account = [key_id |-> r.key_id, chain |-> key.chain, network |-> r.context.network,
                     public_key |-> [chain |-> key.chain, private_key |-> key.private_key]]
      BY DEF get_public_account
    <3>6. sign(store, r).signer = [chain |-> key.chain, private_key |-> key.private_key]
      BY DEF sign
    <3> HIDE DEF account, key
    <3>7. [key_id |-> r.key_id, chain |-> key.chain] \in list_software_keys(store, id)
      BY <3>4 DEF list_software_keys
    <3> QED
      BY <3>3, <3>5, <3>6, <3>7
  <2> QED
    BY <2>1, <2>2
<1>2. WalletInv => SignerIsTheShownAccount
  BY <1>1 DEF SignerIsTheShownAccount
<1> QED
  BY <1>2, WalletInductive, PTL

\* On a good Store a password other than the Profile's is refused by every
\* operation, with a code that its own arguments determine.
LEMMA Refused ==
  ASSUME WalletInv, NEW p \in DOMAIN store.profiles,
         NEW pw \in Passwords \ {store.profiles[p].box.key.password}
  PROVE  /\ ProfileCallsRefuse(p, pw) /\ KeyCallsRefuse(p, pw)
         /\ ExportsRefuse(p, pw) /\ SigningRefuses(p, pw)
<1>1. /\ decode_store_code(store) = "Ok"
      /\ authenticate_profile_code(store, p, pw) = Refusal(TRUE, pw)
      /\ Refusal(TRUE, pw) # "Ok"
      /\ Refusal(FALSE, pw) = "InvalidArgument"
  BY GoodDecodes, GoodOpens DEF WalletInv, Refusal, validate_password
<1>2. ProfileCallsRefuse(p, pw)
  BY <1>1 DEF ProfileCallsRefuse, delete_profile_code, change_profile_password_code, Refusal,
              Require, ??
<1>3. KeyCallsRefuse(p, pw)
  BY <1>1 DEF KeyCallsRefuse, derive_software_key_code, import_software_key_code,
              generate_software_key_code, get_public_account_code, delete_software_key_code, ??
<1>4. ExportsRefuse(p, pw)
  <2> SUFFICES ASSUME NEW r \in ExportRequest, r.target.profile_id = p
               PROVE  LET consented ==
                            /\ r.user_request = [status |-> "Requested", target |-> r.target]
                            /\ r.application_confirmation =
                                 [status |-> "Confirmed", target |-> r.target]
                      IN  /\ export_mnemonic_code(store, r, pw)
                               = Refusal(consented /\ r.target.kind = "Mnemonic", pw)
                          /\ export_private_key_code(store, r, pw)
                               = Refusal(consented /\ r.target.kind = "SoftwareKey", pw)
    BY Zenon DEF ExportsRefuse
  <2> DEFINE consented == /\ r.user_request = [status |-> "Requested", target |-> r.target]
                          /\ r.application_confirmation =
                               [status |-> "Confirmed", target |-> r.target]
  <2>1. consented <=> /\ r.user_request.status = "Requested"
                      /\ r.application_confirmation.status = "Confirmed"
                      /\ r.target = r.user_request.target
                      /\ r.target = r.application_confirmation.target
    BY DEF ExportRequest
  <2>2. \A kind : validate_export_request_code(r, kind) =
                    IF consented /\ r.target.kind = kind THEN "Ok" ELSE "InvalidArgument"
    BY <2>1 DEF validate_export_request_code, Require
  <2> HIDE DEF consented
  <2>3. export_mnemonic_code(store, r, pw)
          = Refusal(consented /\ r.target.kind = "Mnemonic", pw)
    BY <1>1, <2>2 DEF export_mnemonic_code, Refusal, ??
  <2>4. export_private_key_code(store, r, pw)
          = Refusal(consented /\ r.target.kind = "SoftwareKey", pw)
    BY <1>1, <2>2 DEF export_private_key_code, Refusal, ??
  <2> QED
    BY <2>3, <2>4 DEF consented
<1>5. SigningRefuses(p, pw)
  BY <1>1 DEF SigningRefuses, sign_code, Refusal, Require, ??
<1> QED
  BY <1>2, <1>3, <1>4, <1>5

\* Every operation with a password for an existing Profile answers any other
\* password from its own arguments alone: InvalidArgument when they are not
\* acceptable, AuthenticationFailed when they are.
THEOREM UniformRefusal == Spec => []WrongPasswordIsUniform
<1>1. WalletInv => WrongPasswordIsUniform
  BY Refused DEF WrongPasswordIsUniform
<1> QED
  BY <1>1, WalletInductive, PTL

-----------------------------------------------------------------------------
(***************************************************************************)
(* The encrypted Store implements the ledger                               *)
(***************************************************************************)

\* What the mapping makes of a Store, an added envelope and a removed one.
LEMMA LedgerShape ==
  ASSUME NEW s
  PROVE  /\ LedgerOf(s) = [registry |-> s.registry_key, accounts |-> LedgerOf(s).accounts]
         /\ LedgerOf(s).registry = s.registry_key
         /\ DOMAIN LedgerOf(s).accounts = DOMAIN s.profiles
         /\ \A p \in DOMAIN s.profiles :
              LedgerOf(s).accounts[p] = AccountOf(s.profiles[p])
BY DEF LedgerOf

LEMMA LedgerExcept ==
  ASSUME NEW s, NEW accounts
  PROVE  [LedgerOf(s) EXCEPT !.accounts = accounts] =
           [registry |-> s.registry_key, accounts |-> accounts]
<1> DEFINE old == [p \in DOMAIN s.profiles |-> AccountOf(s.profiles[p])]
<1>1. LedgerOf(s) = [registry |-> s.registry_key, accounts |-> old]
  BY DEF LedgerOf
<1> HIDE DEF old
<1> QED
  BY <1>1

PutAccount(ledger, id, account) ==
  [ledger EXCEPT !.accounts =
     [p \in DOMAIN ledger.accounts \cup {id} |->
        IF p = id THEN account ELSE ledger.accounts[p]]]

LEMMA LedgerPut ==
  ASSUME NEW s, GoodStore(s), NEW id, NEW profile, NEW account, account = AccountOf(profile)
  PROVE  LedgerOf(PutProfile(s, id, profile)) = PutAccount(LedgerOf(s), id, account)
<1> DEFINE t == PutProfile(s, id, profile)
           accounts == [p \in DOMAIN s.profiles \cup {id} |->
                          IF p = id THEN account ELSE AccountOf(s.profiles[p])]
<1>1. s = [registry_key |-> s.registry_key, profiles |-> s.profiles]
  BY DEF GoodStore, IsWalletStore
<1>2. t = [registry_key |-> s.registry_key,
           profiles |-> [p \in DOMAIN s.profiles \cup {id} |->
                           IF p = id THEN profile ELSE s.profiles[p]]]
  BY <1>1 DEF PutProfile
<1>3. /\ t.registry_key = s.registry_key
      /\ DOMAIN t.profiles = DOMAIN s.profiles \cup {id}
      /\ \A p \in DOMAIN t.profiles :
           t.profiles[p] = IF p = id THEN profile ELSE s.profiles[p]
  BY <1>2
<1> HIDE DEF t
<1>4. [p \in DOMAIN t.profiles |-> AccountOf(t.profiles[p])] = accounts
  BY <1>3
<1>5. LedgerOf(t) = [registry |-> s.registry_key, accounts |-> accounts]
  BY <1>3, <1>4 DEF LedgerOf
<1>6. [p \in DOMAIN LedgerOf(s).accounts \cup {id} |->
         IF p = id THEN account ELSE LedgerOf(s).accounts[p]] = accounts
  BY LedgerShape
<1> HIDE DEF accounts
<1>7. [LedgerOf(s) EXCEPT !.accounts = accounts] =
        [registry |-> s.registry_key, accounts |-> accounts]
  BY LedgerExcept
<1> QED
  BY <1>5, <1>6, <1>7 DEF t, PutAccount

LEMMA LedgerDrop ==
  ASSUME NEW s, GoodStore(s), NEW id
  PROVE  LedgerOf(DropProfile(s, id)) =
           [LedgerOf(s) EXCEPT !.accounts =
              [p \in DOMAIN LedgerOf(s).accounts \ {id} |-> LedgerOf(s).accounts[p]]]
<1> DEFINE t == DropProfile(s, id)
           accounts == [p \in DOMAIN s.profiles \ {id} |-> AccountOf(s.profiles[p])]
<1>1. s = [registry_key |-> s.registry_key, profiles |-> s.profiles]
  BY DEF GoodStore, IsWalletStore
<1>2. t = [registry_key |-> s.registry_key,
           profiles |-> [p \in DOMAIN s.profiles \ {id} |-> s.profiles[p]]]
  BY <1>1 DEF DropProfile
<1>3. /\ t.registry_key = s.registry_key
      /\ DOMAIN t.profiles = DOMAIN s.profiles \ {id}
      /\ \A p \in DOMAIN t.profiles : t.profiles[p] = s.profiles[p]
  BY <1>2
<1> HIDE DEF t
<1>4. [p \in DOMAIN t.profiles |-> AccountOf(t.profiles[p])] = accounts
  BY <1>3
<1>5. LedgerOf(t) = [registry |-> s.registry_key, accounts |-> accounts]
  BY <1>3, <1>4 DEF LedgerOf
<1>6. [p \in DOMAIN LedgerOf(s).accounts \ {id} |-> LedgerOf(s).accounts[p]] = accounts
  BY LedgerShape
<1> HIDE DEF accounts
<1>7. [LedgerOf(s) EXCEPT !.accounts = accounts] =
        [registry |-> s.registry_key, accounts |-> accounts]
  BY LedgerExcept
<1> QED
  BY <1>5, <1>6, <1>7 DEF t

LEMMA SealedAccount ==
  ASSUME NEW reg, NEW id, NEW network, NEW tag, NEW salt, NEW nonce, NEW payload, NEW pw
  PROVE  AccountOf(SealedProfile(reg, id, network, tag, salt, nonce, payload, pw)) =
           [network |-> network, entropy |-> payload.mnemonic_entropy,
            password |-> pw, keys |-> payload.software_keys]
BY DEF AccountOf, SealedProfile, encrypt, derive_encryption_key

\* The password that authenticates is the account's password.
LEMMA AuthorizedCall ==
  ASSUME WalletInv, NEW id, NEW pw, authenticate_profile_code(store, id, pw) = "Ok"
  PROVE  Ledger!Authorized(id, pw) /\ pw \in ValidPasswords
<1>1. id \in DOMAIN store.profiles /\ pw \in ValidPasswords
  BY Authenticated
<1>2. GoodStore(store)
  BY DEF WalletInv
<1>3. pw = store.profiles[id].box.key.password
  BY <1>1, <1>2, GoodOpens
<1> QED
  BY <1>1, <1>3 DEF Ledger!Authorized, Ledger!Accounts, LedgerOf, AccountOf

\* The ledger counts with the same Cardinality.
LEMMA SameCardinality ==
  ASSUME NEW S
  PROVE  Ledger!Cardinality(S) = Cardinality(S)
BY DEF Ledger!Cardinality, Cardinality

\* A new Profile is an account opened with its password and no keys.
LEMMA OpensAccount ==
  ASSUME WalletInv, NEW id \in ProfileIds, id \notin DOMAIN store.profiles,
         NEW network, NEW entropy, NEW pw,
         ~DuplicateProfile(store, duplicate_tag(store.registry_key, network, entropy)),
         store' = NewProfileStore(store, id, network, entropy, pw, Fresh),
         encode_store_code(store') = "Ok"
  PROVE  Ledger!Open(id, network, entropy, pw)
<1> DEFINE payload == [mnemonic_entropy |-> entropy, software_keys |-> [k \in {} |-> k]]
           tag == duplicate_tag(store.registry_key, network, entropy)
           sealed == SealedProfile(store.registry_key, id, network, tag, Fresh, Fresh,
                                   payload, pw)
           account == [network |-> network, entropy |-> entropy, password |-> pw,
                       keys |-> [k \in {} |-> k]]
<1>1. GoodStore(store) /\ store' = PutProfile(store, id, sealed)
  BY DEF WalletInv, NewProfileStore, new_encrypted_profile
<1>2. account = AccountOf(sealed)
  BY SealedAccount
<1>3. DOMAIN store'.profiles = DOMAIN store.profiles \cup {id}
  <2> HIDE DEF sealed
  <2>1. store = [registry_key |-> store.registry_key, profiles |-> store.profiles]
    BY <1>1 DEF GoodStore, IsWalletStore
  <2> QED
    BY <1>1, <2>1 DEF PutProfile
<1> HIDE DEF sealed, account
<1>4. Cardinality(DOMAIN store.profiles) < MaxProfiles
  <2>1. Cardinality(DOMAIN store'.profiles) <= MaxProfiles
    BY DEF encode_store_code, Require
  <2>2. IsFiniteSet(DOMAIN store.profiles)
    BY <1>1 DEF GoodStore
  <2>3. /\ Cardinality(DOMAIN store.profiles) \in Nat
        /\ Cardinality(DOMAIN store'.profiles) = Cardinality(DOMAIN store.profiles) + 1
    BY <1>3, <2>2, FS_CardinalityType, FS_AddElement
  <2> QED
    BY <2>1, <2>3, LimitAssumption
<1>5. ASSUME NEW p \in DOMAIN store.profiles
      PROVE  ~(/\ LedgerOf(store).accounts[p].network = network
               /\ LedgerOf(store).accounts[p].entropy = entropy)
  <2>1. /\ LedgerOf(store).accounts[p].network = store.profiles[p].network
        /\ LedgerOf(store).accounts[p].entropy =
             store.profiles[p].box.plaintext.mnemonic_entropy
    BY DEF LedgerOf, AccountOf
  <2>2. store.profiles[p].duplicate_tag =
          duplicate_tag(store.registry_key, store.profiles[p].network,
                        store.profiles[p].box.plaintext.mnemonic_entropy)
    BY <1>1 DEF GoodStore, GoodProfile
  <2>3. store.profiles[p].duplicate_tag # tag
    BY DEF DuplicateProfile
  <2> QED
    BY <2>1, <2>2, <2>3
<1>6. LedgerOf(store)' = PutAccount(LedgerOf(store), id, account)
  <2>1. LedgerOf(store)' = LedgerOf(PutProfile(store, id, sealed))
    BY <1>1 DEF LedgerOf
  <2> QED
    BY <1>1, <1>2, <2>1, LedgerPut
<1>7. DOMAIN LedgerOf(store).accounts = DOMAIN store.profiles
  BY LedgerShape
<1>8. LedgerOf(store)' =
        [LedgerOf(store) EXCEPT !.accounts =
           [p \in DOMAIN LedgerOf(store).accounts \cup {id} |->
              IF p = id THEN account ELSE LedgerOf(store).accounts[p]]]
  BY <1>6 DEF PutAccount
<1>9. /\ id \notin DOMAIN LedgerOf(store).accounts
      /\ Cardinality(DOMAIN LedgerOf(store).accounts) < MaxProfiles
      /\ \A p \in DOMAIN LedgerOf(store).accounts :
           ~(/\ LedgerOf(store).accounts[p].network = network
             /\ LedgerOf(store).accounts[p].entropy = entropy)
  BY <1>4, <1>5, <1>7
<1> QED
  BY <1>8, <1>9, SameCardinality, Zenon DEF Ledger!Open, Ledger!Accounts, account

\* A re-encryption sets the account to what the new payload and password say.
LEMMA SetsAccount ==
  ASSUME WalletInv, NEW id \in DOMAIN store.profiles, NEW payload, NEW pw, NEW change,
         store' = reencrypt_profile(store, id, payload, pw, change, Fresh),
         UNCHANGED <<backup, pendings>>
  PROVE  Ledger!SetAccount(id, [network |-> store.profiles[id].network,
                                entropy |-> payload.mnemonic_entropy,
                                password |-> pw, keys |-> payload.software_keys])
<1> DEFINE profile == store.profiles[id]
           sealed == SealedProfile(store.registry_key, id, profile.network,
                                   profile.duplicate_tag,
                                   IF change THEN Fresh ELSE profile.salt, Fresh, payload, pw)
           account == [network |-> profile.network, entropy |-> payload.mnemonic_entropy,
                       password |-> pw, keys |-> payload.software_keys]
<1>1. GoodStore(store) /\ store' = PutProfile(store, id, sealed)
  BY DEF WalletInv, reencrypt_profile
<1>2. account = AccountOf(sealed)
  BY SealedAccount
<1> HIDE DEF sealed, account
<1>3. LedgerOf(store)' = PutAccount(LedgerOf(store), id, account)
  <2>1. LedgerOf(store)' = LedgerOf(PutProfile(store, id, sealed))
    BY <1>1 DEF LedgerOf
  <2> QED
    BY <1>1, <1>2, <2>1, LedgerPut
<1>4. DOMAIN LedgerOf(store).accounts \cup {id} = DOMAIN LedgerOf(store).accounts
  BY LedgerShape
<1>5. Ledger!SetAccount(id, account)
  BY <1>3, <1>4 DEF Ledger!SetAccount, Ledger!Accounts, PutAccount
<1> QED
  BY <1>5 DEF account

\* The account behind a Profile, field by field, and its one-field changes.
LEMMA AccountShape ==
  ASSUME NEW id \in DOMAIN store.profiles
  PROVE  /\ Ledger!Accounts[id] = AccountOf(store.profiles[id])
         /\ Ledger!Accounts[id].keys = authenticate_profile(store, id).software_keys
         /\ Ledger!Accounts[id].entropy = authenticate_profile(store, id).mnemonic_entropy
         /\ Ledger!Accounts[id].network = store.profiles[id].network
         /\ Ledger!Accounts[id].password = store.profiles[id].box.key.password
<1>1. Ledger!Accounts[id] = AccountOf(store.profiles[id])
  BY DEF Ledger!Accounts, LedgerOf
<1> QED
  BY <1>1 DEF AccountOf, authenticate_profile

LEMMA AccountExcept ==
  ASSUME NEW id \in DOMAIN store.profiles, NEW x
  PROVE  LET account == Ledger!Accounts[id] IN
         /\ [account EXCEPT !.keys = x] =
              [network |-> account.network, entropy |-> account.entropy,
               password |-> account.password, keys |-> x]
         /\ [account EXCEPT !.password = x] =
              [network |-> account.network, entropy |-> account.entropy,
               password |-> x, keys |-> account.keys]
<1> DEFINE account == Ledger!Accounts[id]
           n == store.profiles[id].network
           e == store.profiles[id].box.plaintext.mnemonic_entropy
           p == store.profiles[id].box.key.password
           k == store.profiles[id].box.plaintext.software_keys
<1>1. account = [network |-> n, entropy |-> e, password |-> p, keys |-> k]
  BY AccountShape DEF AccountOf
<1> HIDE DEF account, n, e, p, k
<1>2. /\ [account EXCEPT !.keys = x] =
           [network |-> account.network, entropy |-> account.entropy,
            password |-> account.password, keys |-> x]
      /\ [account EXCEPT !.password = x] =
           [network |-> account.network, entropy |-> account.entropy,
            password |-> x, keys |-> account.keys]
  BY <1>1
<1> QED
  BY <1>2 DEF account

\* A re-encryption that keeps Mnemonic and password changes only the keys.
LEMMA SetsKeys ==
  ASSUME WalletInv, NEW id, NEW pw, authenticate_profile_code(store, id, pw) = "Ok",
         NEW payload,
         payload.mnemonic_entropy = authenticate_profile(store, id).mnemonic_entropy,
         store' = reencrypt_profile(store, id, payload, pw, FALSE, Fresh),
         UNCHANGED <<backup, pendings>>
  PROVE  Ledger!SetAccount(id, [Ledger!Accounts[id] EXCEPT !.keys = payload.software_keys])
<1>1. id \in DOMAIN store.profiles
  BY Authenticated
<1>2. Ledger!Accounts[id].password = pw
  BY AuthorizedCall DEF Ledger!Authorized
<1> DEFINE new == [network |-> store.profiles[id].network,
                   entropy |-> payload.mnemonic_entropy,
                   password |-> pw, keys |-> payload.software_keys]
<1>3. Ledger!SetAccount(id, new)
  BY <1>1, SetsAccount
<1>4. [Ledger!Accounts[id] EXCEPT !.keys = payload.software_keys] = new
  <2>1. [Ledger!Accounts[id] EXCEPT !.keys = payload.software_keys] =
          [network |-> Ledger!Accounts[id].network, entropy |-> Ledger!Accounts[id].entropy,
           password |-> Ledger!Accounts[id].password, keys |-> payload.software_keys]
    BY <1>1, AccountExcept
  <2>2. /\ Ledger!Accounts[id].network = store.profiles[id].network
        /\ Ledger!Accounts[id].entropy = payload.mnemonic_entropy
    BY <1>1, AccountShape
  <2> QED
    BY <1>2, <2>1, <2>2
<1> HIDE DEF new
<1> QED
  BY <1>3, <1>4

\* The common tail of derive, import and generate adds a key to the account.
LEMMA AddsKey ==
  ASSUME WalletInv, NEW id, NEW pw, authenticate_profile_code(store, id, pw) = "Ok",
         NEW k, k \in new_key_id(authenticate_profile(store, id)), NEW record,
         validate_private_key(record.private_key),
         AddKey_code(store, id, pw, k, record, Fresh) = "Ok",
         store' = AddKey(store, id, pw, k, record, Fresh),
         UNCHANGED <<backup, pendings>>
  PROVE  Ledger!AddKey(id, pw, k, record)
<1> DEFINE payload == authenticate_profile(store, id)
           keys == payload.software_keys
           more == [j \in DOMAIN keys \cup {k} |-> IF j = k THEN record ELSE keys[j]]
           new == PutKey(payload, k, record)
<1>1. id \in DOMAIN store.profiles
  BY Authenticated
<1>2. /\ ensure_not_duplicate(payload, record.chain, record.private_key)
      /\ encode_payload_code(new) = "Ok"
  BY DEF AddKey_code, ??, Require
<1>3. GoodPayload(store.profiles[id].network, payload)
  BY <1>1 DEF WalletInv, GoodStore, GoodProfile, authenticate_profile
<1>4. new.software_keys = more /\ new.mnemonic_entropy = payload.mnemonic_entropy
  <2>1. payload = [mnemonic_entropy |-> payload.mnemonic_entropy, software_keys |-> keys]
    BY <1>3 DEF GoodPayload, IsProfilePayload
  <2> HIDE DEF payload
  <2> QED
    BY <2>1 DEF PutKey
<1>5. k \notin DOMAIN keys
  BY DEF new_key_id
<1>6. Cardinality(DOMAIN keys) < MaxKeys
  <2>1. Cardinality(DOMAIN more) <= MaxKeys
    BY <1>2, <1>4 DEF encode_payload_code, Require
  <2>2. IsFiniteSet(DOMAIN keys)
    BY <1>3 DEF GoodPayload
  <2>3. DOMAIN more = DOMAIN keys \cup {k}
    OBVIOUS
  <2> HIDE DEF more, keys
  <2>4. /\ Cardinality(DOMAIN keys) \in Nat
        /\ Cardinality(DOMAIN more) = Cardinality(DOMAIN keys) + 1
    BY <1>5, <2>2, <2>3, FS_CardinalityType, FS_AddElement
  <2> QED
    BY <2>1, <2>4, LimitAssumption
<1>7. \A j \in DOMAIN keys :
        ~(keys[j].chain = record.chain /\ keys[j].private_key = record.private_key)
  BY <1>2 DEF ensure_not_duplicate
<1>8. record.private_key # ZeroKey
  BY DEF validate_private_key
<1>9. Ledger!SetAccount(id, [Ledger!Accounts[id] EXCEPT !.keys = more])
  <2>1. store' = reencrypt_profile(store, id, new, pw, FALSE, Fresh)
    BY DEF AddKey
  <2> HIDE DEF new
  <2>2. Ledger!SetAccount(id, [Ledger!Accounts[id] EXCEPT !.keys = new.software_keys])
    BY <1>4, <2>1, SetsKeys
  <2> HIDE DEF more
  <2> QED
    BY <1>4, <2>2
<1>10. Ledger!Accounts[id].keys = keys
  BY <1>1, AccountShape
<1>11. Ledger!Authorized(id, pw)
  BY AuthorizedCall
<1>12. /\ k \notin DOMAIN Ledger!Accounts[id].keys
       /\ Ledger!Cardinality(DOMAIN Ledger!Accounts[id].keys) < MaxKeys
       /\ \A j \in DOMAIN Ledger!Accounts[id].keys :
            ~(/\ Ledger!Accounts[id].keys[j].chain = record.chain
              /\ Ledger!Accounts[id].keys[j].private_key = record.private_key)
  <2> HIDE DEF keys
  <2> QED
    BY <1>5, <1>6, <1>7, <1>10, SameCardinality
<1>13. [j \in DOMAIN Ledger!Accounts[id].keys \cup {k} |->
          IF j = k THEN record ELSE Ledger!Accounts[id].keys[j]] = more
  BY <1>10
<1> HIDE DEF keys, more
<1> QED
  BY <1>8, <1>9, <1>11, <1>12, <1>13 DEF Ledger!AddKey

\* The ledger derives with the same function.
LEMMA SameDerivation ==
  ASSUME NEW e, NEW c, NEW n, NEW i
  PROVE  Ledger!derive_private_key(e, c, n, i) = derive_private_key(e, c, n, i)
BY DEF Ledger!derive_private_key, derive_private_key, Ledger!root_key, root_key,
       Ledger!coin_type, coin_type

LEMMA SameSets ==
  /\ Ledger!Network = Network
  /\ Ledger!Chain = Chain
  /\ Ledger!PrivateKeys = PrivateKeys
<1>1. Ledger!Network = Network /\ Ledger!Chain = Chain
  BY DEF Ledger!Network, Network, Ledger!Chain, Chain
<1>2. Ledger!DerivedKeys = DerivedKeys
  BY <1>1, SameDerivation DEF Ledger!DerivedKeys, DerivedKeys
<1> QED
  BY <1>1, <1>2 DEF Ledger!PrivateKeys, PrivateKeys

\* Every call is a step of the ledger for the password it presents.
LEMMA LedgerStep == WalletInv /\ [CallNext]_<<vars, call>> => [Ledger!Next]_Ledger!vars
<1> SUFFICES ASSUME WalletInv, [CallNext]_<<vars, call>>
             PROVE  [Ledger!Next]_Ledger!vars
  OBVIOUS
<1> USE SameSets
<1>0. GoodStore(store)
  BY DEF WalletInv
<1>1. ASSUME CreateEmptyStore, call' = [op |-> "create_empty_store"]
      PROVE  Ledger!Create
  <2>1. LedgerOf(EmptyStore(Fresh)) = Ledger!EmptyLedger(Fresh)
    BY DEF LedgerOf, EmptyStore, Ledger!EmptyLedger
  <2>2. Ledger!EmptyLedger(Fresh).registry = Fresh
    BY DEF Ledger!EmptyLedger
  <2> QED
    BY <1>1, <2>1, <2>2 DEF CreateEmptyStore, Ledger!Create
<1>2. ASSUME TakeBackup, call' = [op |-> "backup"] PROVE Ledger!Save
  BY <1>2 DEF TakeBackup, Ledger!Save
<1>3. ASSUME LoadBackup, call' = [op |-> "rollback"] PROVE Ledger!Load
  BY <1>3 DEF LoadBackup, Ledger!Load
<1>4. ASSUME NEW pending \in pendings, NEW pw \in Passwords,
             FinalizeGeneratedProfile(pending, pw),
             Calling("finalize_generated_profile", pending.profile_id, pw)
      PROVE  Ledger!Finalize(DraftOf(pending))
  <2> DEFINE draft == DraftOf(pending)
  <2>1. /\ pending.target = store
        /\ decrypts(derive_encryption_key(pw, pending.salt), pending.nonce,
                    pending_aad(pending.target, pending.profile_id, pending.network),
                    pending.box)
        /\ ~DuplicateProfile(store, duplicate_tag(store.registry_key, pending.network,
                                                  pending.box.plaintext))
        /\ pending.profile_id \notin DOMAIN store.profiles
        /\ encode_store_code(store') = "Ok"
        /\ store' = NewProfileStore(store, pending.profile_id, pending.network,
                                    pending.box.plaintext, pw, Fresh)
        /\ UNCHANGED <<backup, pendings>>
    BY <1>4 DEF FinalizeGeneratedProfile, Commit, finalize_generated_profile_code,
                finalize_generated_profile, ??, Require
  <2>2. pending.box.key.password = pw
    BY <2>1 DEF decrypts, derive_encryption_key
  <2>3. pending.profile_id \in ProfileIds
    BY DEF WalletInv, IsPendingProfile
  <2>4. Ledger!Open(pending.profile_id, pending.network, pending.box.plaintext, pw)
    BY <2>1, <2>3, OpensAccount
  <2>5. /\ draft.base = LedgerOf(store) /\ draft.id = pending.profile_id
        /\ draft.network = pending.network /\ draft.entropy = pending.box.plaintext
        /\ draft.password = pw
    BY <2>1, <2>2 DEF DraftOf
  <2> HIDE DEF draft
  <2>6. Ledger!Calling("finalize_generated_profile", draft.id, draft.password)
    BY <1>4, <2>5 DEF Calling, Ledger!Calling
  <2>7. Ledger!Finalize(draft)
    BY <2>1, <2>4, <2>5, <2>6 DEF Ledger!Finalize
  <2> QED
    BY <2>7 DEF draft
<1>5. ASSUME NEW id \in ProfileIds, NEW pw \in Passwords, NEW n \in Network,
             NEW e \in Entropies, PrepareGeneratedProfile(id, n, e, pw),
             Calling("prepare_generated_profile", id, pw)
      PROVE  Ledger!Draft(id, n, e, pw) /\ pw \in ValidPasswords
  <2> DEFINE pending == make_pending(store, id, n, e, pw, Fresh)
  <2>1. pw \in ValidPasswords
    BY <1>5 DEF PrepareGeneratedProfile, prepare_generated_profile_code,
                ??, Require, validate_password
  <2>2. DraftOf(pending) = [base |-> LedgerOf(store), id |-> id, network |-> n,
                            entropy |-> e, password |-> pw]
    BY DEF DraftOf, make_pending, encrypt, derive_encryption_key
  <2>3. pendings' = pendings \cup {pending} /\ UNCHANGED <<store, backup>>
    BY <1>5 DEF PrepareGeneratedProfile
  <2> HIDE DEF pending
  <2>4. {DraftOf(p) : p \in pendings'} =
          {DraftOf(p) : p \in pendings} \cup
            {[base |-> LedgerOf(store), id |-> id, network |-> n,
              entropy |-> e, password |-> pw]}
    BY <2>2, <2>3
  <2> QED
    BY <1>5, <2>1, <2>3, <2>4 DEF Ledger!Draft, Calling, Ledger!Calling
<1>6. ASSUME NEW id \in ProfileIds, NEW pw \in Passwords, NEW n \in Network, NEW m,
             RestoreProfile(id, n, m, pw), Calling("restore_profile", id, pw)
      PROVE  Ledger!Restore(id, n, m, pw) /\ m \in Entropies /\ pw \in ValidPasswords
  <2>1. /\ pw \in ValidPasswords
        /\ m \in Entropies
        /\ ~DuplicateProfile(store, duplicate_tag(store.registry_key, n, m))
        /\ encode_store_code(store') = "Ok"
        /\ store' = NewProfileStore(store, id, n, m, pw, Fresh)
        /\ id \notin DOMAIN store.profiles
        /\ UNCHANGED <<backup, pendings>>
    BY <1>6 DEF RestoreProfile, Commit, restore_profile_code, restore_profile, ??, Require,
                validate_password, parse_mnemonic, new_profile_id
  <2>2. Ledger!Open(id, n, m, pw)
    BY <2>1, OpensAccount
  <2> QED
    BY <1>6, <2>1, <2>2 DEF Ledger!Restore, Calling, Ledger!Calling
<1>7. ASSUME NEW id \in ProfileIds, NEW pw \in Passwords, NEW new \in Passwords,
             ChangeProfilePassword(id, pw, new), Calling("change_profile_password", id, pw)
      PROVE  /\ Ledger!ChangePassword(id, pw, new)
             /\ pw \in ValidPasswords /\ new \in ValidPasswords
  <2> DEFINE payload == authenticate_profile(store, id)
             account == Ledger!Accounts[id]
             changed == [network |-> store.profiles[id].network,
                         entropy |-> payload.mnemonic_entropy,
                         password |-> new, keys |-> payload.software_keys]
  <2>1. /\ new \in ValidPasswords
        /\ authenticate_profile_code(store, id, pw) = "Ok"
        /\ store' = reencrypt_profile(store, id, payload, new, TRUE, Fresh)
        /\ UNCHANGED <<backup, pendings>>
    BY <1>7 DEF ChangeProfilePassword, Commit, change_profile_password_code,
                change_profile_password, ??, Require, validate_password
  <2>2. id \in DOMAIN store.profiles
    BY <2>1, Authenticated
  <2>3. Ledger!Authorized(id, pw) /\ pw \in ValidPasswords
    BY <2>1, AuthorizedCall
  <2>4. Ledger!SetAccount(id, changed)
    <3> HIDE DEF payload
    <3> QED
      BY <2>1, <2>2, SetsAccount
  <2>5. [account EXCEPT !.password = new] = changed
    <3>1. [account EXCEPT !.password = new] =
            [network |-> account.network, entropy |-> account.entropy,
             password |-> new, keys |-> account.keys]
      BY <2>2, AccountExcept
    <3>2. /\ account.network = store.profiles[id].network
          /\ account.entropy = payload.mnemonic_entropy
          /\ account.keys = payload.software_keys
      BY <2>2, AccountShape
    <3> QED
      BY <3>1, <3>2
  <2> HIDE DEF changed
  <2> QED
    BY <1>7, <2>1, <2>3, <2>4, <2>5 DEF Ledger!ChangePassword, Calling, Ledger!Calling
<1>8. ASSUME NEW id \in ProfileIds, NEW pw \in Passwords, DeleteProfile(id, pw),
             Calling("delete_profile", id, pw)
      PROVE  Ledger!Close(id, pw) /\ pw \in ValidPasswords
  <2>1. /\ authenticate_profile_code(store, id, pw) = "Ok"
        /\ store' = DropProfile(store, id)
        /\ UNCHANGED <<backup, pendings>>
    BY <1>8 DEF DeleteProfile, Commit, delete_profile_code, delete_profile, ??, Require
  <2>2. Ledger!Authorized(id, pw) /\ pw \in ValidPasswords
    BY <2>1, AuthorizedCall
  <2>3. LedgerOf(store)' =
          [LedgerOf(store) EXCEPT !.accounts =
             [p \in DOMAIN LedgerOf(store).accounts \ {id} |-> LedgerOf(store).accounts[p]]]
    BY <1>0, <2>1, LedgerDrop
  <2> QED
    BY <1>8, <2>1, <2>2, <2>3 DEF Ledger!Close, Ledger!Accounts, Calling, Ledger!Calling
<1>9. ASSUME NEW id \in ProfileIds, NEW pw \in Passwords, NEW k \in KeyIds,
             DeleteSoftwareKey(id, k, pw), Calling("delete_software_key", id, pw)
      PROVE  Ledger!RemoveKey(id, k, pw) /\ pw \in ValidPasswords
  <2> DEFINE payload == authenticate_profile(store, id)
             keys == payload.software_keys
             fewer == [j \in DOMAIN keys \ {k} |-> keys[j]]
             new == DropKey(payload, k)
  <2>1. /\ authenticate_profile_code(store, id, pw) = "Ok"
        /\ k \in DOMAIN keys
        /\ store' = reencrypt_profile(store, id, new, pw, FALSE, Fresh)
        /\ UNCHANGED <<backup, pendings>>
    BY <1>9 DEF DeleteSoftwareKey, Commit, delete_software_key_code, delete_software_key,
                ??, Require
  <2>2. id \in DOMAIN store.profiles
    BY <2>1, Authenticated
  <2>3. Ledger!Authorized(id, pw) /\ pw \in ValidPasswords
    BY <2>1, AuthorizedCall
  <2>4. new.software_keys = fewer /\ new.mnemonic_entropy = payload.mnemonic_entropy
    <3>1. payload = [mnemonic_entropy |-> payload.mnemonic_entropy, software_keys |-> keys]
      BY <1>0, <2>2 DEF GoodStore, GoodProfile, GoodPayload, IsProfilePayload,
                        authenticate_profile
    <3> HIDE DEF payload
    <3> QED
      BY <3>1 DEF DropKey
  <2>5. Ledger!SetAccount(id, [Ledger!Accounts[id] EXCEPT !.keys = fewer])
    <3> HIDE DEF new
    <3>1. Ledger!SetAccount(id, [Ledger!Accounts[id] EXCEPT !.keys = new.software_keys])
      BY <2>1, <2>4, SetsKeys
    <3> HIDE DEF fewer
    <3> QED
      BY <2>4, <3>1
  <2>6. Ledger!Accounts[id].keys = keys
    BY <2>2, AccountShape
  <2>7. [j \in DOMAIN Ledger!Accounts[id].keys \ {k} |-> Ledger!Accounts[id].keys[j]] = fewer
    BY <2>6
  <2> HIDE DEF keys, fewer
  <2> QED
    BY <1>9, <2>1, <2>3, <2>5, <2>6, <2>7 DEF Ledger!RemoveKey, Calling, Ledger!Calling
<1>10. ASSUME NEW id \in ProfileIds, NEW pw \in Passwords, NEW k \in KeyIds,
              NEW c \in Chain, NEW i \in AccountIndexes, DeriveSoftwareKey(id, pw, k, c, i),
              Calling("derive_software_key", id, pw)
       PROVE  Ledger!DeriveKey(id, pw, k, c, i) /\ pw \in ValidPasswords
  <2> DEFINE record == DerivedRecord(store, id, c, i)
             entry == [chain |-> c,
                       private_key |-> Ledger!derive_private_key(
                          Ledger!Accounts[id].entropy, c, Ledger!Accounts[id].network, i),
                       origin |-> [kind |-> "Derived", account_index |-> i]]
  <2>1. /\ authenticate_profile_code(store, id, pw) = "Ok"
        /\ ValidAccountIndex(i)
        /\ validate_private_key(record.private_key)
        /\ AddKey_code(store, id, pw, k, record, Fresh) = "Ok"
        /\ store' = AddKey(store, id, pw, k, record, Fresh)
        /\ k \in new_key_id(authenticate_profile(store, id))
        /\ UNCHANGED <<backup, pendings>>
    BY <1>10 DEF DeriveSoftwareKey, Commit, derive_software_key_code, derive_software_key,
                 ??, Require
  <2>2. id \in DOMAIN store.profiles /\ pw \in ValidPasswords
    BY <2>1, Authenticated
  <2>3. record = entry
    BY <2>2, AccountShape, SameDerivation DEF DerivedRecord
  <2> HIDE DEF record
  <2>4. Ledger!AddKey(id, pw, k, record)
    BY <2>1, AddsKey
  <2> HIDE DEF entry
  <2>5. Ledger!AddKey(id, pw, k, entry)
    BY <2>3, <2>4
  <2> QED
    BY <1>10, <2>1, <2>2, <2>5
       DEF Ledger!DeriveKey, ValidAccountIndex, Calling, Ledger!Calling, entry
<1>11. ASSUME NEW id \in ProfileIds, NEW pw \in Passwords, NEW k \in KeyIds,
              NEW c \in Chain, NEW key \in PrivateKeys, ImportSoftwareKey(id, pw, k, c, key),
              Calling("import_software_key", id, pw)
       PROVE  Ledger!ImportKey(id, pw, k, c, key) /\ pw \in ValidPasswords
  <2> DEFINE record == ImportedRecord(c, key)
  <2>1. /\ authenticate_profile_code(store, id, pw) = "Ok"
        /\ validate_private_key(key)
        /\ AddKey_code(store, id, pw, k, record, Fresh) = "Ok"
        /\ store' = AddKey(store, id, pw, k, record, Fresh)
        /\ k \in new_key_id(authenticate_profile(store, id))
        /\ UNCHANGED <<backup, pendings>>
    BY <1>11 DEF ImportSoftwareKey, Commit, import_software_key_code, import_software_key,
                 ??, Require
  <2>2. pw \in ValidPasswords
    BY <2>1, Authenticated
  <2>3. record.private_key = key
    BY DEF ImportedRecord
  <2> HIDE DEF record
  <2>4. Ledger!AddKey(id, pw, k, record)
    BY <2>1, <2>3, AddsKey
  <2> QED
    BY <1>11, <2>2, <2>4 DEF Ledger!ImportKey, Calling, Ledger!Calling, record, ImportedRecord
<1>12. ASSUME NEW id \in ProfileIds, NEW pw \in Passwords, NEW k \in KeyIds,
              NEW c \in Chain, NEW key \in RawKeys, GenerateSoftwareKey(id, pw, k, c, key),
              Calling("generate_software_key", id, pw)
       PROVE  Ledger!GenerateKey(id, pw, k, c, key) /\ pw \in ValidPasswords
  <2> DEFINE record == GeneratedRecord(c, key)
  <2>1. /\ authenticate_profile_code(store, id, pw) = "Ok"
        /\ validate_private_key(key)
        /\ AddKey_code(store, id, pw, k, record, Fresh) = "Ok"
        /\ store' = AddKey(store, id, pw, k, record, Fresh)
        /\ k \in new_key_id(authenticate_profile(store, id))
        /\ UNCHANGED <<backup, pendings>>
    BY <1>12 DEF GenerateSoftwareKey, Commit, generate_software_key_code,
                 generate_software_key, generate_private_key, ??, Require
  <2>2. pw \in ValidPasswords
    BY <2>1, Authenticated
  <2>3. record.private_key = key
    BY DEF GeneratedRecord
  <2> HIDE DEF record
  <2>4. Ledger!AddKey(id, pw, k, record)
    BY <2>1, <2>3, AddsKey
  <2> QED
    BY <1>12, <2>2, <2>4
       DEF Ledger!GenerateKey, Calling, Ledger!Calling, record, GeneratedRecord
<1>13. CASE UNCHANGED <<vars, call>>
  BY <1>13 DEF vars, Ledger!vars
<1>14. ASSUME NEW pending \in pendings, Ledger!Finalize(DraftOf(pending))
       PROVE  Ledger!Next
  BY <1>14 DEF Ledger!Next
<1> QED
  BY <1>1, <1>2, <1>3, <1>4, <1>5, <1>6, <1>7, <1>8, <1>9, <1>10, <1>11, <1>12, <1>13, <1>14
     DEF CallNext, Ledger!Next

\* Every call of the Core that commits is one the ledger of WalletLedger
\* allows for the password it presents, with the ledger's effect.
THEOREM StoreImplementsLedger == CallSpec => ImplementsLedger
<1>1. CallInit => Ledger!Init
  <2>1. LedgerOf(EmptyStore(0)) = Ledger!EmptyLedger(0)
    BY DEF LedgerOf, EmptyStore, Ledger!EmptyLedger
  <2> QED
    BY <2>1 DEF CallInit, Init, Ledger!Init
<1>2. [CallNext]_<<vars, call>> => [Next]_vars
  BY DEF CallNext, Next, CoreNext, vars
<1>3. CallSpec => []WalletInv
  BY <1>2, WalletInit, WalletStep, PTL DEF CallSpec, CallInit
<1> QED
  BY <1>1, <1>3, LedgerStep, PTL DEF CallSpec, ImplementsLedger, Ledger!Spec
=============================================================================
