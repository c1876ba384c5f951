----------------------------- MODULE MCAccounts -----------------------------
(* Small instances of Accounts. *)
EXTENDS Accounts, TLC

CONSTANTS r1, r2, r3, r4, x, y, p, q

(* All requests are alike, and so are all passwords. *)
AnyCall == Permutations(Calls) \cup Permutations(Passwords)
=============================================================================
