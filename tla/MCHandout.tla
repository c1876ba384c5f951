----------------------------- MODULE MCHandout -----------------------------
(* Small instances of Handout. *)
EXTENDS Handout, TLC

CONSTANTS a, b, c

AnyUser == Permutations(Users)
=============================================================================
