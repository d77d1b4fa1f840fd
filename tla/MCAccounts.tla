----------------------------- MODULE MCAccounts -----------------------------
(***************************************************************************)
(* Small instances of Accounts: every device signs in to the first account.*)
(***************************************************************************)
EXTENDS Accounts, TLC

CONSTANT a1

OneOwner == [d \in Devices |-> a1]

Symmetric == Permutations(Requests) \cup Permutations(Works)
=============================================================================
