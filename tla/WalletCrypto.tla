---------------------------- MODULE WalletCrypto ----------------------------
(***************************************************************************)
(* The cryptographic operations of crates/core/src/crypto.rs as ideal      *)
(* functions over small sets.  A value computed by a hash, a MAC, the KDF  *)
(* or the HD derivation is the record of its inputs (no collisions); a     *)
(* sealed box opens only for the key, the nonce and the associated data it *)
(* was sealed with.  Random values are drawn by the modules that use this  *)
(* one.                                                                    *)
(***************************************************************************)
EXTENDS Integers

CONSTANTS
  ValidPasswords,    \* non-empty UTF-8 passwords
  InvalidPassword,   \* stands for the empty and the non-UTF-8 passwords
  Entropies,         \* 32-byte mnemonic entropies
  InvalidMnemonic,   \* stands for every phrase parse_mnemonic rejects
  RawKeys,           \* 32-byte private keys that come from outside or the CSPRNG
  ZeroKey,           \* the all-zero private key
  MaxAccountIndex,   \* 2147483647 in the code
  AccountIndexes     \* the account indexes callers pass (u32 in the code)

ASSUME CryptoAssumption ==
  /\ InvalidPassword \notin ValidPasswords
  /\ InvalidMnemonic \notin Entropies
  /\ ZeroKey \in RawKeys
  /\ MaxAccountIndex \in Nat
  /\ AccountIndexes \subseteq Nat

Network == {"Mainnet", "Testnet"}
Chain == {"Symbol", "Nem"}
Passwords == ValidPasswords \cup {InvalidPassword}

(***************************************************************************)
(* Passwords, KDF and AEAD                                                 *)
(***************************************************************************)

validate_password(password) == password \in ValidPasswords

\* A valid 24-word phrase and its entropy determine each other.
parse_mnemonic(mnemonic) == mnemonic \in Entropies

derive_encryption_key(password, salt) == [password |-> password, salt |-> salt]

encrypt(key, nonce, aad, plaintext) ==
  [key |-> key, nonce |-> nonce, aad |-> aad, plaintext |-> plaintext]

\* TRUE iff the tag verifies; the plaintext is then box.plaintext.
decrypts(key, nonce, aad, box) ==
  box.key = key /\ box.nonce = nonce /\ box.aad = aad

\* HMAC-SHA256 of network and entropy under the Store's registry key.
duplicate_tag(registry_key, network, entropy) ==
  [registry_key |-> registry_key, network |-> network, entropy |-> entropy]

(***************************************************************************)
(* Software Keys.  An HD key is determined by the seed, the root HMAC key  *)
(* and the hardened path; NEM reverses the bytes of the last node.         *)
(***************************************************************************)

coin_type(chain, network) ==
  IF network = "Testnet" THEN 1 ELSE IF chain = "Symbol" THEN 4343 ELSE 43

root_key(chain) ==
  IF chain = "Symbol" THEN "ed25519 seed" ELSE "ed25519-keccak seed"

ValidAccountIndex(account_index) == account_index <= MaxAccountIndex

derive_private_key(entropy, chain, network, account_index) ==
  [entropy  |-> entropy,
   root     |-> root_key(chain),
   path     |-> <<44, coin_type(chain, network), account_index, 0, 0>>,
   reversed |-> chain = "Nem"]

DerivedKeys ==
  {derive_private_key(e, c, n, i) :
     e \in Entropies, c \in Chain, n \in Network, i \in AccountIndexes}

PrivateKeys == RawKeys \cup DerivedKeys

validate_private_key(private_key) == private_key # ZeroKey

\* generate_private_key draws candidates until one is valid.
generate_private_key == {k \in RawKeys : validate_private_key(k)}
=============================================================================
