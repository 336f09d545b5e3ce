---------------------------- MODULE MCAccounts ----------------------------
(* Instances of Accounts for TLC. *)
EXTENDS Accounts, TLC

MCSymmetry ==
    Permutations(Handlers) \cup Permutations(Ids) \cup
    Permutations(Names) \cup Permutations(Clients)
===========================================================================
