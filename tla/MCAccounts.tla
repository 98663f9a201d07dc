----------------------------- MODULE MCAccounts -----------------------------
(***************************************************************************)
(* Two requests at a time on one organization and two accounts.         *)
(***************************************************************************)
EXTENDS Accounts, TLC

AccountsSymmetry ==
    Permutations(Org) \cup Permutations(Email) \cup Permutations(KeyId)
        \cup Permutations(Request)
=============================================================================
