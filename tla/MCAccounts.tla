----------------------------- MODULE MCAccounts -----------------------------
(* An instance of Accounts for TLC: clients and operators are interchangeable. *)
EXTENDS Accounts, TLC

Anybody == Permutations(Sandboxes) \cup Permutations(Operators) \cup Permutations(Prefixes)
=============================================================================
