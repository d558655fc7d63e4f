---------------------------- MODULE MCWalletApp -----------------------------
(***************************************************************************)
(* Model-checking instances of WalletApp and WalletCalls.                  *)
(***************************************************************************)
EXTENDS WalletCalls, TLC

\* Ids, mnemonics and passwords are only compared for equality.  Every
\* property checked with it is a safety property and symmetric in them.
MCSymmetry ==
  Permutations(ProfileIds) \cup Permutations(KeyIds)
    \cup Permutations(Entropies) \cup Permutations(ValidPasswords)
=============================================================================
