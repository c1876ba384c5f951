--------------------------- MODULE MCUserManager ---------------------------
(* Small instances of UserManager. *)
EXTENDS UserManager, TLC

CONSTANTS s1, s2, s3

Bound(coming, logging, talking, waiting) ==
    [comers |-> coming, loggers |-> logging, talkers |-> talking, packets |-> waiting]

Two == {s1, s2}

OneLogsIn == {Bound(Two, {s1}, Two, 1)}

(* A login; a deeper buffer without one; one session more than slots.      *)
SomeBounds ==
    OneLogsIn \cup {Bound(Two, {}, Two, 3), Bound({s1, s2, s3}, {}, {s1}, 1)}
=============================================================================
