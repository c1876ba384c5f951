--------------------------- MODULE MCRoomManager ---------------------------
(* Small instances of RoomManager. *)
EXTENDS RoomManager, TLC

CONSTANTS s1, s2, s3

(* Everybody a user of their own; a session stands for its user ID too. *)
ThreeUsers == [s \in {s1, s2, s3} |-> s]

RoomZero == [s \in {s1, s2, s3} |-> {0}]

(* Everybody comes to the room that is checked last, s1 also to the other. *)
TwoRooms == [s \in {s1, s2, s3} |-> IF s = s1 THEN {0, 1} ELSE {1}]
=============================================================================
