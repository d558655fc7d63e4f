---------------------------- MODULE WalletCalls -----------------------------
(***************************************************************************)
(* WalletApp with its interface visible: the operation that was called     *)
(* last, the Profile it names and the password it presents.  Under this    *)
(* view the encrypted Store implements the ledger of WalletLedger.         *)
(***************************************************************************)
EXTENDS WalletApp

VARIABLE call   \* the last call that returned a Store or a Pending Profile

Calling(op, id, password) == call' = [op |-> op, id |-> id, password |-> password]

CallInit == Init /\ call = [op |-> "none"]

CallNext ==
  \/ CreateEmptyStore /\ call' = [op |-> "create_empty_store"]
  \/ TakeBackup /\ call' = [op |-> "backup"]
  \/ LoadBackup /\ call' = [op |-> "rollback"]
  \/ \E pending \in pendings, pw \in Passwords :
       /\ FinalizeGeneratedProfile(pending, pw)
       /\ Calling("finalize_generated_profile", pending.profile_id, pw)
  \/ \E id \in ProfileIds, pw \in Passwords :
       \/ /\ \E n \in Network, e \in Entropies : PrepareGeneratedProfile(id, n, e, pw)
          /\ Calling("prepare_generated_profile", id, pw)
       \/ /\ \E n \in Network, m \in Entropies \cup {InvalidMnemonic} :
               RestoreProfile(id, n, m, pw)
          /\ Calling("restore_profile", id, pw)
       \/ /\ \E new \in Passwords : ChangeProfilePassword(id, pw, new)
          /\ Calling("change_profile_password", id, pw)
       \/ /\ DeleteProfile(id, pw)
          /\ Calling("delete_profile", id, pw)
       \/ /\ \E k \in KeyIds : DeleteSoftwareKey(id, k, pw)
          /\ Calling("delete_software_key", id, pw)
       \/ /\ \E k \in KeyIds, c \in Chain, i \in AccountIndexes :
               DeriveSoftwareKey(id, pw, k, c, i)
          /\ Calling("derive_software_key", id, pw)
       \/ /\ \E k \in KeyIds, c \in Chain, key \in PrivateKeys :
               ImportSoftwareKey(id, pw, k, c, key)
          /\ Calling("import_software_key", id, pw)
       \/ /\ \E k \in KeyIds, c \in Chain, key \in RawKeys :
               GenerateSoftwareKey(id, pw, k, c, key)
          /\ Calling("generate_software_key", id, pw)

CallSpec == CallInit /\ [][CallNext]_<<vars, call>>
-----------------------------------------------------------------------------
(***************************************************************************)
(* The refinement mapping opens every envelope.                            *)
(***************************************************************************)

AccountOf(profile) ==
  [network  |-> profile.network,
   entropy  |-> profile.box.plaintext.mnemonic_entropy,
   password |-> profile.box.key.password,
   keys     |-> profile.box.plaintext.software_keys]

LedgerOf(s) ==
  [registry |-> s.registry_key,
   accounts |-> [p \in DOMAIN s.profiles |-> AccountOf(s.profiles[p])]]

\* A draft is as good for its Store as the Store's bytes, which a ledger does
\* not show: a re-encryption that changes nothing else makes it useless.
DraftOf(pending) ==
  [base     |-> LedgerOf(pending.target),
   id       |-> pending.profile_id,
   network  |-> pending.network,
   entropy  |-> pending.box.plaintext,
   password |-> pending.box.key.password]

Ledger == INSTANCE WalletLedger WITH
  ledger <- LedgerOf(store),
  saved  <- LedgerOf(backup),
  drafts <- {DraftOf(pending) : pending \in pendings}

\* The encrypted Store implements the password-protected ledger: every call
\* that commits is one the ledger allows for the password it presents, and it
\* changes what the ledger says it changes.
ImplementsLedger == Ledger!Spec
=============================================================================
