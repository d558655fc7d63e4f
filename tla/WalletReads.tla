---------------------------- MODULE WalletReads -----------------------------
(***************************************************************************)
(* The operations that release secrets or use a key without changing the   *)
(* Store: export_mnemonic, export_private_key, get_public_account, sign.   *)
(* The properties hold of every call an application could make on the      *)
(* committed Store of any reachable state of WalletApp.                    *)
(***************************************************************************)
EXTENDS WalletApp

ExportTarget ==
  {MnemonicTarget(p) : p \in ProfileIds}
    \cup {SoftwareKeyTarget(p, k) : p \in ProfileIds, k \in KeyIds}

ExportRequest ==
  [target : ExportTarget,
   user_request : [status : {"NotRequested", "Requested"}, target : ExportTarget],
   application_confirmation :
     [status : {"NotConfirmed", "Confirmed"}, target : ExportTarget]]

AccountContext == [chain : Chain, network : Network]

SigningRequest ==
  [profile_id : ProfileIds, key_id : KeyIds, context : AccountContext,
   approval : {"NotApproved", "Approved"}, oversized : BOOLEAN, payload : {"payload"}]

\* The Mnemonic or key an export releases is the one of the Profile that both
\* the user and the application named for this operation, and it is released
\* only under that Profile's password.
ExportReleasesTheConfirmedSecret ==
  \A r \in ExportRequest, pw \in Passwords :
    LET consent(target) == /\ r.user_request = [status |-> "Requested", target |-> target]
                           /\ r.application_confirmation =
                                [status |-> "Confirmed", target |-> target]
    IN
    /\ export_mnemonic_code(store, r, pw) = "Ok" =>
         \E p \in DOMAIN store.profiles :
           /\ consent(MnemonicTarget(p))
           /\ pw = store.profiles[p].box.key.password
           /\ export_mnemonic(store, r) = store.profiles[p].duplicate_tag.entropy
    /\ export_private_key_code(store, r, pw) = "Ok" =>
         \E p \in DOMAIN store.profiles : \E k \in DOMAIN Payload(store, p).software_keys :
           /\ consent(SoftwareKeyTarget(p, k))
           /\ pw = store.profiles[p].box.key.password
           /\ export_private_key(store, r) = Payload(store, p).software_keys[k].private_key

\* sign accepts an approved request exactly when get_public_account shows the
\* account for the same key, context and password, and the signature is made
\* with the key pair of the account that is shown.
SignerIsTheShownAccount ==
  \A r \in SigningRequest, pw \in Passwords :
    r.approval = "Approved" /\ ~r.oversized =>
      LET shown == get_public_account_code(store, r.profile_id, r.key_id, r.context, pw) IN
      /\ sign_code(store, r, pw) = shown
      /\ shown = "Ok" =>
           LET account == get_public_account(store, r.profile_id, r.key_id, r.context) IN
           /\ sign(store, r).signer = account.public_key
           /\ account.network = store.profiles[r.profile_id].duplicate_tag.network
           /\ [key_id |-> r.key_id, chain |-> account.chain]
                \in list_software_keys(store, r.profile_id)

\* What a call with a password other than the Profile's answers: the fault of
\* its own arguments if they are not acceptable, and nothing else.
Refusal(acceptable, pw) ==
  IF acceptable /\ validate_password(pw) THEN "AuthenticationFailed" ELSE "InvalidArgument"

ProfileCallsRefuse(p, pw) ==
  /\ delete_profile_code(store, p, pw) = Refusal(TRUE, pw)
  /\ \A new \in Passwords :
       change_profile_password_code(store, p, pw, new, Fresh)
         = Refusal(validate_password(new), pw)

KeyCallsRefuse(p, pw) ==
  \A k \in KeyIds, c \in Chain :
    /\ \A i \in AccountIndexes :
         derive_software_key_code(store, p, pw, k, c, i, Fresh) = Refusal(TRUE, pw)
    /\ \A key \in PrivateKeys :
         import_software_key_code(store, p, pw, k, c, key, Fresh) = Refusal(TRUE, pw)
    /\ \A key \in RawKeys :
         generate_software_key_code(store, p, pw, k, c, key, Fresh) = Refusal(TRUE, pw)
    /\ delete_software_key_code(store, p, k, pw, Fresh) = Refusal(TRUE, pw)
    /\ \A n \in Network :
         get_public_account_code(store, p, k, [chain |-> c, network |-> n], pw)
           = Refusal(TRUE, pw)

ExportsRefuse(p, pw) ==
  \A r \in {request \in ExportRequest : request.target.profile_id = p} :
    LET consented == /\ r.user_request = [status |-> "Requested", target |-> r.target]
                     /\ r.application_confirmation =
                          [status |-> "Confirmed", target |-> r.target]
    IN  /\ export_mnemonic_code(store, r, pw)
             = Refusal(consented /\ r.target.kind = "Mnemonic", pw)
        /\ export_private_key_code(store, r, pw)
             = Refusal(consented /\ r.target.kind = "SoftwareKey", pw)

SigningRefuses(p, pw) ==
  \A r \in {request \in SigningRequest : request.profile_id = p} :
    sign_code(store, r, pw) = Refusal(r.approval = "Approved" /\ ~r.oversized, pw)

\* Every operation that takes a password for an existing Profile answers one
\* other than the Profile's alike, on every Store: InvalidArgument when the
\* password, the new password, the consent, the approval or the payload's
\* length could be refused without the Store, AuthenticationFailed otherwise.
\* No call reports on keys, contexts, indexes or duplicates, and none succeeds.
WrongPasswordIsUniform ==
  \A p \in DOMAIN store.profiles : \A pw \in Passwords \ {store.profiles[p].box.key.password} :
    /\ ProfileCallsRefuse(p, pw)
    /\ KeyCallsRefuse(p, pw)
    /\ ExportsRefuse(p, pw)
    /\ SigningRefuses(p, pw)
=============================================================================
