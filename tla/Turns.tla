------------------------------- MODULE Turns -------------------------------
(***************************************************************************)
(* The turn-taking half of class OmokGame (Omok-Server/OmokGame.cs): whose *)
(* move it is, how often in a row the clock moved for a player, whether    *)
(* the game is over.  The board is only counted here (field stones); what  *)
(* a five and a double three are is the subject of module Board.           *)
(*                                                                         *)
(* A game is a record                                                      *)
(*   players      sessions in the insertion order of _userStoneColorDict:  *)
(*                the first has Black, every other one has White           *)
(*   turn         _currStoneColor                                          *)
(*   turnOverCnt  _turnOverCnt                                             *)
(*   stones       how many cells of _omokBoard are not None                *)
(*   isGameEnd    IsGameEnd                                                *)
(* The null reference a room holds before its first game, and every game   *)
(* that is over, is NoGame: no code reads more of a finished game than     *)
(* that IsGameEnd is set.                                                  *)
(***************************************************************************)
EXTENDS Naturals, Sequences

Black == "Black"
White == "White"
None  == "None"

Colors == {Black, White}
StoneColor == Colors \cup {None}

Opposite(c) == IF c = Black THEN White ELSE Black

NoGame == [players |-> <<>>, turn |-> Black, turnOverCnt |-> 0,
           stones |-> 0, isGameEnd |-> TRUE]

(* The constructor and StartGame: an empty board, Black to move. *)
NewGame(players) ==
    [players |-> players, turn |-> Black, turnOverCnt |-> 0,
     stones |-> 0, isGameEnd |-> FALSE]

PlayersOf(g) == {g.players[i] : i \in DOMAIN g.players}

(* _userStoneColorDict[s]; the indexer throws for a session that is not a *)
(* player, so every use is guarded by s \in PlayersOf(g).                 *)
GetUserStoneColor(g, s) == IF g.players[1] = s THEN Black ELSE White

(* The first entry of the colour: Black is entry 1, the first White is    *)
(* entry 2.  Nobody has colour None: callers treat that case (null).      *)
GetSessionByStoneColor(g, c) == g.players[IF c = Black THEN 1 ELSE 2]

IsUserTurn(g, s) == g.turn = GetUserStoneColor(g, s)

ChangeTurn(g) == IF g.isGameEnd THEN g ELSE [g EXCEPT !.turn = Opposite(@)]

(* A stone goes on the board and the turn passes; the caller then ends the *)
(* game if the stone completed a five.                                     *)
PlaceStone(g) == ChangeTurn([g EXCEPT !.stones = @ + 1, !.turnOverCnt = 0])

(* The turn clock ran out: the turn passes and the count goes up.  On a    *)
(* game that the same check has just ended only the count would move.      *)
TurnOver(g) ==
    IF g.isGameEnd THEN g ELSE [ChangeTurn(g) EXCEPT !.turnOverCnt = @ + 1]
=============================================================================
