----------------------------- MODULE MCAccounts -----------------------------
(***************************************************************************)
(* Instances of Accounts for TLC: runs, names and passwords are            *)
(* interchangeable.                                                        *)
(***************************************************************************)
EXTENDS Accounts, TLC

AccountSymmetry == Permutations(Runs) \cup Permutations(Names) \cup Permutations(Passwords)
=============================================================================
