---------------------------- MODULE WalletLedger ----------------------------
(***************************************************************************)
(* What the Core promises an application, without encryption: a ledger of  *)
(* password-protected accounts.  Each account has a fixed Network and      *)
(* Mnemonic, a password that every change of the account must present, and *)
(* a set of Software Keys; a draft becomes an account only in the ledger   *)
(* it was drafted for.  WalletCalls implements this specification.         *)
(***************************************************************************)
EXTENDS WalletCrypto, FiniteSets

CONSTANTS ProfileIds, KeyIds, MaxProfiles, MaxKeys

VARIABLES
  ledger,   \* [registry |-> identity of the Store, accounts |-> ProfileIds -> account]
  saved,    \* an older ledger the application can return to
  drafts,   \* generated accounts that are not committed yet
  call      \* the interface: the last operation, its account, its password

vars == <<ledger, saved, drafts, call>>

Calling(op, id, password) == call' = [op |-> op, id |-> id, password |-> password]

Accounts == ledger.accounts

EmptyLedger(registry) == [registry |-> registry, accounts |-> [p \in {} |-> p]]

Init ==
  /\ ledger = EmptyLedger(0)
  /\ saved = EmptyLedger(0)
  /\ drafts = {}
  /\ call = [op |-> "none"]

\* Accounts are told apart by Mnemonic and Network.
Open(id, network, entropy, password) ==
  /\ id \notin DOMAIN Accounts
  /\ Cardinality(DOMAIN Accounts) < MaxProfiles
  /\ \A p \in DOMAIN Accounts :
       ~(Accounts[p].network = network /\ Accounts[p].entropy = entropy)
  /\ ledger' = [ledger EXCEPT !.accounts =
       [p \in DOMAIN Accounts \cup {id} |->
          IF p = id
          THEN [network |-> network, entropy |-> entropy, password |-> password,
                keys |-> [k \in {} |-> k]]
          ELSE Accounts[p]]]

Restore(id, network, entropy, password) ==
  /\ Calling("restore_profile", id, password)
  /\ Open(id, network, entropy, password)
  /\ UNCHANGED <<saved, drafts>>

Draft(id, network, entropy, password) ==
  /\ Calling("prepare_generated_profile", id, password)
  /\ drafts' = drafts \cup
       {[base |-> ledger, id |-> id, network |-> network, entropy |-> entropy,
         password |-> password]}
  /\ UNCHANGED <<ledger, saved>>

Finalize(draft) ==
  /\ Calling("finalize_generated_profile", draft.id, draft.password)
  /\ draft.base = ledger
  /\ Open(draft.id, draft.network, draft.entropy, draft.password)
  /\ UNCHANGED <<saved, drafts>>

\* Every later change of an account presents its password.
Authorized(id, password) ==
  id \in DOMAIN Accounts /\ Accounts[id].password = password

SetAccount(id, account) ==
  /\ ledger' = [ledger EXCEPT !.accounts =
                  [p \in DOMAIN Accounts |-> IF p = id THEN account ELSE Accounts[p]]]
  /\ UNCHANGED <<saved, drafts>>

ChangePassword(id, current, new) ==
  /\ Calling("change_profile_password", id, current)
  /\ Authorized(id, current)
  /\ SetAccount(id, [Accounts[id] EXCEPT !.password = new])

Close(id, password) ==
  /\ Calling("delete_profile", id, password)
  /\ Authorized(id, password)
  /\ ledger' = [ledger EXCEPT !.accounts =
                  [p \in DOMAIN Accounts \ {id} |-> Accounts[p]]]
  /\ UNCHANGED <<saved, drafts>>

\* A new key has a new id and is not a key the account already has.
AddKey(id, password, key_id, record) ==
  /\ Authorized(id, password)
  /\ LET keys == Accounts[id].keys IN
     /\ key_id \notin DOMAIN keys
     /\ Cardinality(DOMAIN keys) < MaxKeys
     /\ record.private_key # ZeroKey
     /\ \A k \in DOMAIN keys :
          ~(keys[k].chain = record.chain /\ keys[k].private_key = record.private_key)
     /\ SetAccount(id, [Accounts[id] EXCEPT !.keys =
          [k \in DOMAIN keys \cup {key_id} |-> IF k = key_id THEN record ELSE keys[k]]])

DeriveKey(id, password, key_id, chain, account_index) ==
  /\ Calling("derive_software_key", id, password)
  /\ account_index <= MaxAccountIndex
  /\ AddKey(id, password, key_id,
       [chain |-> chain,
        private_key |-> derive_private_key(Accounts[id].entropy, chain,
                                           Accounts[id].network, account_index),
        origin |-> [kind |-> "Derived", account_index |-> account_index]])

ImportKey(id, password, key_id, chain, private_key) ==
  /\ Calling("import_software_key", id, password)
  /\ AddKey(id, password, key_id,
       [chain |-> chain, private_key |-> private_key, origin |-> [kind |-> "Imported"]])

GenerateKey(id, password, key_id, chain, private_key) ==
  /\ Calling("generate_software_key", id, password)
  /\ AddKey(id, password, key_id,
       [chain |-> chain, private_key |-> private_key, origin |-> [kind |-> "Generated"]])

RemoveKey(id, key_id, password) ==
  /\ Calling("delete_software_key", id, password)
  /\ Authorized(id, password)
  /\ LET keys == Accounts[id].keys IN
     /\ key_id \in DOMAIN keys
     /\ SetAccount(id, [Accounts[id] EXCEPT !.keys =
          [k \in DOMAIN keys \ {key_id} |-> keys[k]]])

Create ==
  /\ call' = [op |-> "create_empty_store"]
  /\ ledger' = EmptyLedger(ledger'.registry)
  /\ UNCHANGED <<saved, drafts>>

Save ==
  /\ call' = [op |-> "backup"]
  /\ saved' = ledger
  /\ UNCHANGED <<ledger, drafts>>

Load ==
  /\ call' = [op |-> "rollback"]
  /\ ledger' = saved
  /\ UNCHANGED <<saved, drafts>>

Next ==
  \/ Create
  \/ Save
  \/ Load
  \/ \E draft \in drafts : Finalize(draft)
  \/ \E id \in ProfileIds, pw \in ValidPasswords :
       \/ \E n \in Network, e \in Entropies :
            Restore(id, n, e, pw) \/ Draft(id, n, e, pw)
       \/ \E new \in ValidPasswords : ChangePassword(id, pw, new)
       \/ Close(id, pw)
       \/ \E k \in KeyIds :
            \/ RemoveKey(id, k, pw)
            \/ \E c \in Chain :
                 \/ \E i \in AccountIndexes : DeriveKey(id, pw, k, c, i)
                 \/ \E key \in PrivateKeys : ImportKey(id, pw, k, c, key)
                 \/ \E key \in RawKeys : GenerateKey(id, pw, k, c, key)

Spec == Init /\ [][Next]_vars
=============================================================================
