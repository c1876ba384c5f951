---------------------------- MODULE MCGameRecord ----------------------------
(* Small instances of GameRecord. *)
EXTENDS GameRecord, TLC

CONSTANTS a, b

AnyUser == Permutations(Users)
=============================================================================
