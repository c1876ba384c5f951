-------------------------- MODULE MCMatchingServer --------------------------
(* Small instances of MatchingServer. *)
EXTENDS MatchingServer, TLC

CONSTANTS a, b, c, d

Bound(askers, answered, cancelled, overlapping, failing) ==
    [askers |-> askers, answers |-> answered, cancels |-> cancelled,
     overlaps |-> overlapping, failures |-> failing]

TwoUsers == {Bound({a, b}, 1, 0, 0, 0)}

(* Two pairs at a time and a Redis call that fails; one pair after the     *)
(* other; a cancellation; a request that overlaps; and two of these.       *)
Trio    == {a, b, c}
Couples == {U \in SUBSET Trio : Cardinality(U) = 2}

SomeBounds ==
    {Bound(Users, 1, 0, 0, 1), Bound(Trio, 2, 0, 0, 0),
     Bound(Trio, 1, 1, 0, 0), Bound(Trio, 1, 0, 1, 0)}
    \cup {Bound(U, 2, 0, 1, 0) : U \in Couples}
    \cup {Bound(U, 2, 1, 0, 1) : U \in Couples}
    \cup {Bound(U, 1, 1, 1, 0) : U \in Couples}

Symmetry == Permutations(Trio)
=============================================================================
