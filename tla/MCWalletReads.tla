--------------------------- MODULE MCWalletReads ----------------------------
(***************************************************************************)
(* Model-checking instances of WalletApp and WalletReads.                  *)
(***************************************************************************)
EXTENDS WalletReads, TLC

\* As in MCWalletApp.
MCSymmetry ==
  Permutations(ProfileIds) \cup Permutations(KeyIds) \cup Permutations(ValidPasswords)
=============================================================================
