-------------------------------- MODULE Rules --------------------------------
(***************************************************************************)
(* What a game of omok promises its players, without saying how a five is  *)
(* found: stones are put on empty cells by the side to move, never moved   *)
(* and never taken back, the sides take turns, the stone that makes a five *)
(* wins at once, and after the end nothing happens any more.  A side may   *)
(* lose its turn, and so many turns lost one after the other stop the game *)
(* without a winner; for reasons of its own a room may stop it at any time.*)
(***************************************************************************)
EXTENDS Board

CONSTANT MaxTurnOverCnt  \* turns in a row that may not be lost

VARIABLES
    board, turn, result,
    silence    \* turns lost since the last stone

Running == "Running"

Init == board = EmptyBoard /\ turn = Black /\ result = Running /\ silence = 0

Put(c) ==
    /\ result = Running
    /\ board[c] = None
    /\ board' = [board EXCEPT ![c] = turn]
    /\ turn' = Opposite(turn)
    /\ result' = IF MakesFive(board', c) THEN turn ELSE Running
    /\ silence' = 0

Pass ==
    /\ result = Running
    /\ turn' = Opposite(turn)
    /\ silence' = silence + 1
    /\ result' = IF silence' < MaxTurnOverCnt THEN Running ELSE None
    /\ UNCHANGED board

Stop ==
    /\ result = Running
    /\ result' \in StoneColor
    /\ UNCHANGED <<board, turn, silence>>

Next == (\E c \in Cells : Put(c)) \/ Pass \/ Stop

Spec == Init /\ [][Next]_<<board, turn, result, silence>>
=============================================================================
