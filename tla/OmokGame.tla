------------------------------ MODULE OmokGame ------------------------------
(***************************************************************************)
(* One game of class OmokGame (Omok-Server/OmokGame.cs) on its real board, *)
(* called by its room the way Room.cs does: stones only while the room is  *)
(* in GameStart and only from the player whose turn it is, and ends that   *)
(* come from the clocks or from a player who leaves.                       *)
(*                                                                         *)
(* A position off the board makes the scans throw before anything is       *)
(* changed, and a refused one changes nothing: neither is a step.          *)
(***************************************************************************)
EXTENDS Board

CONSTANTS MaxTurnOverCnt,   \* ServerOption.MaxTurnOverCnt
          Regions           \* bound: sets of cells, one of which is played on

ASSUME OmokGameAssumption ==
    /\ MaxTurnOverCnt \in Nat \ {0}
    /\ Regions \subseteq SUBSET Cells

VARIABLES
    board,    \* _omokBoard
    game,     \* turn, turnOverCnt, IsGameEnd; stones counts those on the board
    result,   \* what GameEndAction was called with, or Running
    region    \* the cells the players try, fixed when the game starts

vars == <<board, game, result, region>>

Running == "Running"

Players == <<"black", "white">>

(* StartGame *)
Init ==
    /\ board = EmptyBoard
    /\ game = NewGame(Players)
    /\ result = Running
    /\ region \in Regions

(* EndGame returns at once when the game is over. *)
EndGame(g, color) ==
    /\ game' = [g EXCEPT !.isGameEnd = TRUE]
    /\ result' = IF g.isGameEnd THEN result ELSE color

(* Mutant: nothing looks whether the cell is taken. *)
PutStoneAnywhere(s, c) ==
    /\ ~game.isGameEnd
    /\ IsUserTurn(game, s)
    /\ ~CheckDoubleThree(board, c)
    /\ board' = [board EXCEPT ![c] = game.turn]
    /\ IF OmokComplete(board', c) THEN EndGame(PlaceStone(game), game.turn)
       ELSE game' = PlaceStone(game) /\ UNCHANGED result
    /\ UNCHANGED region

(* PutStone, for the player whose turn it is: the stone lies, the turn     *)
(* passes, and then the four lines through the stone are looked at.        *)
PutStone(s, c) ==
    /\ ~game.isGameEnd
    /\ IsUserTurn(game, s)
    /\ ~CheckDoubleThree(board, c)
    /\ board[c] = None
    /\ board' = [board EXCEPT ![c] = game.turn]
    /\ IF OmokComplete(board', c) THEN EndGame(PlaceStone(game), game.turn)
       ELSE game' = PlaceStone(game) /\ UNCHANGED result
    /\ UNCHANGED region

(* Mutant: the last turn over is not counted. *)
ForceChangeTurnForEver ==
    /\ ~game.isGameEnd
    /\ game' = TurnOver(game)
    /\ UNCHANGED <<board, result, region>>

(* ForceChangeTurn: the turn clock ran out. *)
ForceChangeTurn ==
    /\ ~game.isGameEnd
    /\ IF TurnOver(game).turnOverCnt >= MaxTurnOverCnt
       THEN EndGame(TurnOver(game), None)
       ELSE game' = TurnOver(game) /\ UNCHANGED result
    /\ UNCHANGED <<board, region>>

(* The room ends the game: the game clock (None) or a player who left. *)
RoomEndsGame(color) ==
    /\ ~game.isGameEnd
    /\ EndGame(game, color)
    /\ UNCHANGED <<board, region>>

Next ==
    \/ \E i \in DOMAIN Players, c \in region : PutStone(Players[i], c)
    \/ ForceChangeTurn
    \/ \E color \in StoneColor : RoomEndsGame(color)

Spec == Init /\ [][Next]_vars
-----------------------------------------------------------------------------
(* Type invariant. *)
TypeOK ==
    /\ board \in [Cells -> StoneColor]
    /\ game.turn \in Colors /\ game.isGameEnd \in BOOLEAN
    /\ game.turnOverCnt \in 0 .. MaxTurnOverCnt
    /\ result \in StoneColor \cup {Running}
    /\ region \in Regions

(* The scans implement the rules: a stone goes on an empty cell and the    *)
(* game is over in the very step, and only then, in which it makes a five  *)
(* in the sense of MakesFive, or in which so many turns have been lost one *)
(* after the other, stones in between starting the count anew.             *)
Rule == INSTANCE Rules WITH turn <- game.turn, silence <- game.turnOverCnt
FollowsRules == Rule!Spec

(* While a game runs there is no finished five anywhere on the board,      *)
(* although PutStone looks only at the lines through the newest stone; and *)
(* a game is over exactly when its room was told a result.                 *)
RunningHasNoFive ==
    IF game.isGameEnd THEN result # Running
    ELSE result = Running /\ \A c \in region : ~MakesFive(board, c)

(* The number the rooms see (module Room) is the number of stones here. *)
StonesCounted == game.stones = Cardinality({c \in Cells : board[c] # None})

(* What CheckDoubleThree really refuses: an empty cell that lies in a gap  *)
(* of exactly three cells on at least two lines, whatever the colours of   *)
(* the stones around and whoever is to move.                               *)
RefusesGapsOfThree ==
    \A c \in region : board[c] = None =>
        (CheckDoubleThree(board, c) <=>
            Cardinality({d \in Directions : InGapOfThree(board, c, d)}) >= 2)

(* "33확인", "돌 개수가 3개면서 양쪽 벽에 붙어잇으면 안된다"               *)
(* (OmokGame.cs:293, 338): a cell is refused for a double three only if    *)
(* the stone would make three stones of its colour on two lines.           *)
RefusesDoubleThreesOnly ==
    \A c \in region : board[c] = None /\ CheckDoubleThree(board, c) =>
        Cardinality({d \in Directions :
            1 + StonesNear(board, c, d, game.turn) = 3}) >= 2
=============================================================================
