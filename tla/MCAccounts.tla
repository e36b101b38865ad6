------------------------------ MODULE MCAccounts ------------------------------
(* Accounts for TLC: accounts, requests and images are interchangeable.    *)
EXTENDS Accounts, TLC

Symmetry == Permutations(Users) \cup Permutations(Requests) \cup Permutations(Files)
=============================================================================
