-------------------------------- MODULE Room --------------------------------
(***************************************************************************)
(* Class Room (Omok-Server/Room/Room.cs) as operators: what each public    *)
(* method does to one room, and what it makes the rest of the server do.   *)
(*                                                                         *)
(* A room is a record                                                      *)
(*   state     _state                                                      *)
(*   userList  _userList, in order: [userID, session, ready]               *)
(*   game      _game (module Turns)                                        *)
(*   turnOut   _recentTurnChangedTime lies TurnTimeOut seconds back        *)
(*                                                                         *)
(* A method returns an effect                                              *)
(*   room      the room afterwards                                         *)
(*   saved     <<winner, loser>> if UpdateUsersGameData posted the two     *)
(*             saves of a finished game, else <<>>                         *)
(*   kicked    the sessions DisConnectAllUsers posted a request for        *)
(*   freed     Free() put the room's number on the empty-room queue        *)
(*   threw     the method left by an exception; what it had already        *)
(*             changed stays changed                                       *)
(* "loaded" is the set of sessions whose user has a GameData object.       *)
(***************************************************************************)
EXTENDS Turns, FiniteSets, SequencesExt

CONSTANTS MaxUserCount,     \* ServerOption.RoomMaxUserCount
          MaxTurnOverCnt    \* ServerOption.MaxTurnOverCnt

(* appsettings.json sets 2 and 6; a one-seat room could not give a game    *)
(* both colours, and a game is worth having only if one turn may pass.     *)
ASSUME RoomAssumption ==
    /\ MaxUserCount \in Nat /\ MaxUserCount >= 2
    /\ MaxTurnOverCnt \in Nat \ {0}

RoomState == {"None", "GameStart", "GameEnd"}

EmptyRoom == [state |-> "None", userList |-> <<>>, game |-> NoGame,
              turnOut |-> FALSE]

Members(room) == {room.userList[i].session : i \in DOMAIN room.userList}
UserIDs(room) == {room.userList[i].userID : i \in DOMAIN room.userList}

IndexOf(room, s) ==
    CHOOSE i \in DOMAIN room.userList : room.userList[i].session = s

IsGameStarted(room) == room.state = "GameStart"

Quiet(room) == [room |-> room, saved |-> <<>>, kicked |-> {},
                freed |-> FALSE, threw |-> FALSE]
Throw(room) == [Quiet(room) EXCEPT !.threw = TRUE]
-----------------------------------------------------------------------------
(* Mutant: the user ID is not looked for. *)
AddUserTwice(room, userID, s) ==
    [room EXCEPT !.userList =
        Append(@, [userID |-> userID, session |-> s, ready |-> FALSE])]

(* AddUser refuses a user ID that is already there, and nothing else: the  *)
(* room's capacity is not looked at.                                       *)
AddUser(room, userID, s) ==
    IF userID \in UserIDs(room) THEN room
    ELSE [room EXCEPT !.userList =
              Append(@, [userID |-> userID, session |-> s, ready |-> FALSE])]

(* IsGameEnd is set and the state is GameEnd; the turn clock is not looked *)
(* at again before the next game restarts it.                              *)
Ended(room) ==
    [room EXCEPT !.state = "GameEnd", !.game = NoGame, !.turnOut = FALSE]

(* Mutant: GameEnd returns before DisConnectAllUsers. *)
EndGameSilently(room, color, loaded) ==
    LET ended  == Ended(room)
        winner == GetSessionByStoneColor(room.game, color)
        loser  == GetSessionByStoneColor(room.game, Opposite(color))
    IN  IF room.game.isGameEnd THEN Quiet(room)
        ELSE IF color = None \/ ~({winner, loser} \subseteq loaded) THEN Quiet(ended)
        ELSE [Quiet(ended) EXCEPT !.saved = <<winner, loser>>]

(* OmokGame.EndGame followed by Room.GameEnd.  Colour None means that the  *)
(* game had no winner; otherwise the first session of each colour is       *)
(* credited, which throws if one of the two users has no GameData.         *)
EndGame(room, color, loaded) ==
    LET ended  == Ended(room)
        winner == GetSessionByStoneColor(room.game, color)
        loser  == GetSessionByStoneColor(room.game, Opposite(color))
    IN  CASE room.game.isGameEnd -> Quiet(room)
          [] ~room.game.isGameEnd /\ color = None ->
                [Quiet(ended) EXCEPT !.kicked = Members(room)]
          [] ~room.game.isGameEnd /\ color # None /\ {winner, loser} \subseteq loaded ->
                [Quiet(ended) EXCEPT !.saved = <<winner, loser>>]
          [] OTHER -> Throw(ended)

(* SetRandomTurnAndStart: member number turnIndex gets Black and is the    *)
(* first entry of the dictionary, the others get White in list order.      *)
StartGame(room, turnIndex) ==
    LET list == room.userList IN
    [room EXCEPT
        !.state = "GameStart",
        !.turnOut = FALSE,
        !.game = NewGame([i \in DOMAIN list |->
                            IF i = 1 THEN list[turnIndex].session
                            ELSE IF i <= turnIndex THEN list[i - 1].session
                            ELSE list[i].session])]

IsAllUserReady(room) ==
    /\ Len(room.userList) >= MaxUserCount
    /\ \A i \in DOMAIN room.userList : room.userList[i].ready

(* SetUserStateReadyOrNone. *)
ToggleReady(room, s) == [room EXCEPT !.userList[IndexOf(room, s)].ready = ~@]

(* CheckUserTurnAndPutStone and OmokGame.PutStone.  Where the stone would  *)
(* go is abstracted to what the board makes of it:                         *)
(*   "refused"  the cell is taken, or counts as a double three             *)
(*   "placed"   the stone lies, nobody has five                            *)
(*   "five"     the stone lies and makes a five                            *)
(* A member who is not a player of the running game makes the turn test    *)
(* throw; that, a wrong turn and a refused stone change nothing.           *)
PutStoneOutcome == {"refused", "placed", "five"}

PutStone(room, s, outcome, loaded) ==
    LET g == room.game
        placed == [room EXCEPT !.game = PlaceStone(g), !.turnOut = FALSE]
    IN  CASE IsGameStarted(room) /\ s \notin PlayersOf(g) -> Throw(room)
          [] IsGameStarted(room) /\ s \in PlayersOf(g)
                /\ IsUserTurn(g, s) /\ outcome = "placed" -> Quiet(placed)
          [] IsGameStarted(room) /\ s \in PlayersOf(g)
                /\ IsUserTurn(g, s) /\ outcome = "five" ->
                EndGame(placed, g.turn, loaded)
          [] OTHER -> Quiet(room)
-----------------------------------------------------------------------------
(* The loop of LeaveRoomUser over the members other than s.  The first of  *)
(* them decides who wins; each later one is looked up as well, so a member *)
(* who is not a player throws before or after the game has been ended.     *)
FirstOther(room, s) ==
    room.userList[IF room.userList[1].session = s THEN 2 ELSE 1].session

(* Mutant: the game goes to the colour of the session that leaves. *)
ForfeitToLeaver(room, s, loaded) ==
    EndGame(room, GetUserStoneColor(room.game, s), loaded)

Forfeit(room, s, loaded) ==
    LET first  == FirstOther(room, s)
        e      == EndGame(room, GetUserStoneColor(room.game, first), loaded)
        allPlay == Members(room) \ {s} \subseteq PlayersOf(room.game)
    IN  IF first \in PlayersOf(room.game)
        THEN [e EXCEPT !.threw = @ \/ ~allPlay]
        ELSE Throw(room)

(* Mutant: Free does not reset the state. *)
RemoveUserOnly(room, s) ==
    [room EXCEPT !.userList = RemoveAt(@, IndexOf(room, s))]

(* RemoveUser, and Free when the last member goes. *)
RemoveUser(room, s) ==
    LET left == RemoveAt(room.userList, IndexOf(room, s))
    IN  [room EXCEPT !.userList = left,
                     !.state = IF left = <<>> THEN "None" ELSE @]

(* Mutant: leaving does not end the game. *)
LeaveRoomUserQuietly(room, s, loaded) ==
    IF s \in Members(room) THEN Quiet(RemoveUser(room, s)) ELSE Quiet(room)

LeaveRoomUser(room, s, loaded) ==
    LET e == IF IsGameStarted(room) /\ Members(room) # {s}
             THEN Forfeit(room, s, loaded) ELSE Quiet(room)
        after == RemoveUser(e.room, s)
    IN  IF s \notin Members(room) THEN Quiet(room)
        ELSE IF e.threw THEN e
        ELSE [e EXCEPT !.room = after, !.freed = (after.userList = <<>>)]
-----------------------------------------------------------------------------
(* CheckGameStartTime: timeUp says that the game has lasted MaxGameTime.   *)
CheckGameStartTime(room, timeUp) ==
    IF timeUp THEN EndGame(room, None, {}) ELSE Quiet(room)

(* CheckTurnChangedTime and OmokGame.ForceChangeTurn. *)
CheckTurnChangedTime(room) ==
    LET turned == [room EXCEPT !.game = TurnOver(@),
                               !.turnOut = FALSE]
    IN  IF ~room.turnOut THEN Quiet(room)
        ELSE IF turned.game.turnOverCnt >= MaxTurnOverCnt
             THEN EndGame(turned, None, {})
             ELSE Quiet(turned)

CheckRoomState(room, timeUp) ==
    LET first  == CheckGameStartTime(room, timeUp)
        second == CheckTurnChangedTime(first.room)
    IN  IF IsGameStarted(room)
        THEN [second EXCEPT !.kicked = @ \cup first.kicked]
        ELSE Quiet(room)
=============================================================================
