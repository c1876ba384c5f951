---------------------------- MODULE RoomManager ----------------------------
(***************************************************************************)
(* The rooms of the Omok server as the packet thread sees them: class      *)
(* RoomManager (Omok-Server/Room/RoomManager.cs) and the handlers of       *)
(* PKHRoom.cs, with the part of PKHCommon.cs that takes a closed session   *)
(* out of its room.  PacketProcessor.Process takes one packet at a time,   *)
(* so a handler is one action; which packet comes next is anybody's guess. *)
(* An exception ends the handler where it is thrown (Process catches it):  *)
(* what was changed before stays.                                          *)
(*                                                                         *)
(* Sessions are the logged-in connections; UserOf gives the user ID each   *)
(* logged in with, and nothing stops two sessions from having the same.    *)
(***************************************************************************)
EXTENDS Room

CONSTANTS Sessions,        \* session IDs
          Users,           \* user IDs
          UserOf,          \* the user ID of each session
          RoomMaxCount,    \* ServerOption.RoomMaxCount
          CheckRoomCount,  \* ServerOption.CheckRoomCount
          MaxStones,       \* the cells of the board, _boardSize squared
          Reach,           \* bound: the rooms each session asks for
          Late             \* sessions whose GameData are loaded after Init

(* appsettings.json checks 100 of 500 rooms per tick.  Were the window not *)
(* to divide the rooms, RoomCheckTask would index past the list.           *)
ASSUME RoomManagerAssumption ==
    /\ IsFiniteSet(Sessions)
    /\ UserOf \in [Sessions -> Users]
    /\ RoomMaxCount \in Nat \ {0}
    /\ CheckRoomCount \in Nat \ {0}
    /\ \E k \in 1 .. RoomMaxCount : RoomMaxCount = k * CheckRoomCount
    /\ MaxStones \in Nat
    /\ Reach \in [Sessions -> SUBSET (0 .. RoomMaxCount - 1)]
    /\ Late \subseteq Sessions

Rooms  == 0 .. RoomMaxCount - 1
NoRoom == -1

VARIABLES
    rooms,        \* _roomList
    checkStart,   \* _checkStartIndex
    roomNumber,   \* User.RoomNumber of each session's user
    online,       \* sessions whose link is up and whose user is logged in
    loaded,       \* sessions whose user has GameData
    out           \* what the last handler posted to the rest of the server

vars == <<rooms, checkStart, roomNumber, online, loaded, out>>

Nothing == [saved |-> <<>>, kicked |-> {}, freed |-> FALSE, threw |-> FALSE]

Posted(e) == [saved |-> e.saved, kicked |-> e.kicked,
              freed |-> e.freed, threw |-> e.threw]

(* CreateRooms; every session has logged in, the late ones get their data  *)
(* some time or never.                                                     *)
Init ==
    /\ rooms = [r \in Rooms |-> EmptyRoom]
    /\ checkStart = 0
    /\ roomNumber = [s \in Sessions |-> NoRoom]
    /\ online = Sessions
    /\ loaded = Sessions \ Late
    /\ out = Nothing
-----------------------------------------------------------------------------
(* Mutant: EnterRoomUser goes on although it has refused. *)
EnterAfterRefusal(s, r) ==
    /\ s \in online
    /\ rooms' = [rooms EXCEPT ![r] = AddUser(@, UserOf[s], s)]
    /\ roomNumber' = [roomNumber EXCEPT ![s] = r]
    /\ out' = Nothing
    /\ UNCHANGED <<checkStart, online, loaded>>

(* RequestRoomEnter.  EnterRoomUser adds the user to the room before it    *)
(* looks at the error code, so a user who is already in another room       *)
(* becomes a member of this one too and is then told that it failed.       *)
RequestRoomEnter(s, r) ==
    /\ s \in online
    /\ rooms' = [rooms EXCEPT ![r] = AddUser(@, UserOf[s], s)]
    /\ roomNumber' = IF roomNumber[s] = NoRoom /\ UserOf[s] \notin UserIDs(rooms[r])
                     THEN [roomNumber EXCEPT ![s] = r] ELSE roomNumber
    /\ out' = Nothing
    /\ UNCHANGED <<checkStart, online, loaded>>

(* RoomManager.LeaveRoom and then User.LeaveRoom, which an exception skips. *)
LeaveRoom(s) ==
    LET r == roomNumber[s]
        e == LeaveRoomUser(rooms[r], s, loaded)
    IN  /\ rooms' = [rooms EXCEPT ![r] = e.room]
        /\ roomNumber' = [roomNumber EXCEPT ![s] = IF e.threw THEN r ELSE NoRoom]
        /\ out' = Posted(e)

(* RequestRoomLeave. *)
RequestRoomLeave(s) ==
    /\ s \in online
    /\ roomNumber[s] \in Rooms
    /\ LeaveRoom(s)
    /\ UNCHANGED <<checkStart, online, loaded>>

(* InNotifyDisConnectClient: the link of s is down.  If LeaveRoomUser      *)
(* throws, DisConnectUser is never reached and nothing tries again.        *)
InNotifyDisConnectClient(s) ==
    /\ s \in online
    /\ online' = online \ {s}
    /\ IF roomNumber[s] \in Rooms THEN LeaveRoom(s)
       ELSE /\ out' = Nothing
            /\ UNCHANGED <<rooms, roomNumber>>
    /\ UNCHANGED <<checkStart, loaded>>

(* CheckRoomAndRoomUser. *)
InOwnRoom(s) ==
    /\ s \in online
    /\ roomNumber[s] \in Rooms
    /\ s \in Members(rooms[roomNumber[s]])

(* RequestGameReady: the ready flag is toggled and, if everybody is ready  *)
(* and no game runs, one starts with a random member on Black.             *)
RequestGameReady(s) ==
    /\ InOwnRoom(s)
    /\ LET r == roomNumber[s]
           toggled == ToggleReady(rooms[r], s)
       IN  \E turnIndex \in DOMAIN toggled.userList :
              rooms' = [rooms EXCEPT ![r] =
                          IF IsAllUserReady(toggled) /\ ~IsGameStarted(toggled)
                          THEN StartGame(toggled, turnIndex) ELSE toggled]
    /\ out' = Nothing
    /\ UNCHANGED <<checkStart, roomNumber, online, loaded>>

(* RequestPutStone.  On a full board every cell refuses the stone. *)
RequestPutStone(s, outcome) ==
    /\ InOwnRoom(s)
    /\ outcome # "refused" => rooms[roomNumber[s]].game.stones < MaxStones
    /\ LET r == roomNumber[s]
           e == PutStone(rooms[r], s, outcome, loaded)
       IN  /\ rooms' = [rooms EXCEPT ![r] = e.room]
           /\ out' = Posted(e)
    /\ UNCHANGED <<checkStart, roomNumber, online, loaded>>

(* RequestInRoomCheck and RoomCheckTask: the rooms of one window.  timeUp  *)
(* are those whose game has lasted MaxGameTime, which may be any of them.  *)
Window == checkStart .. checkStart + CheckRoomCount - 1

(* Mutant: the window is never taken modulo the number of rooms. *)
RoomCheckNoModulo(timeUp) ==
    LET checked(r) == CheckRoomState(rooms[r], r \in timeUp)
        busy == {r \in Window \cap Rooms : rooms[r].userList # <<>>}
    IN  /\ rooms' = [r \in Rooms |-> IF r \in busy THEN checked(r).room ELSE rooms[r]]
        /\ checkStart' = checkStart + CheckRoomCount
        /\ out' = [Nothing EXCEPT !.kicked = UNION {checked(r).kicked : r \in busy}]
        /\ UNCHANGED <<roomNumber, online, loaded>>

(* Mutant: the window is not moved on. *)
RoomCheckSameWindow(timeUp) ==
    LET checked(r) == CheckRoomState(rooms[r], r \in timeUp)
        busy == {r \in Window : rooms[r].userList # <<>>}
    IN  /\ rooms' = [r \in Rooms |-> IF r \in busy THEN checked(r).room ELSE rooms[r]]
        /\ out' = [Nothing EXCEPT !.kicked = UNION {checked(r).kicked : r \in busy}]
        /\ UNCHANGED <<checkStart, roomNumber, online, loaded>>

RequestInRoomCheck(timeUp) ==
    LET checked(r) == CheckRoomState(rooms[r], r \in timeUp)
        busy == {r \in Window : rooms[r].userList # <<>>}
    IN  /\ rooms' = [r \in Rooms |-> IF r \in busy THEN checked(r).room ELSE rooms[r]]
        /\ checkStart' = (checkStart + CheckRoomCount) % RoomMaxCount
        /\ out' = [Nothing EXCEPT !.kicked = UNION {checked(r).kicked : r \in busy}]
        /\ UNCHANGED <<roomNumber, online, loaded>>

(* Time passes: nobody has moved in room r for TurnTimeOut seconds. *)
TurnClockRunsOut(r) ==
    /\ IsGameStarted(rooms[r])
    /\ ~rooms[r].turnOut
    /\ rooms' = [rooms EXCEPT ![r].turnOut = TRUE]
    /\ out' = Nothing
    /\ UNCHANGED <<checkStart, roomNumber, online, loaded>>

(* InResponseDbLoadUserGameData with a result: the user gets its GameData, *)
(* also after a disconnection that threw and so never freed the user.      *)
InResponseDbLoadUserGameData(s) ==
    /\ s \in online \/ roomNumber[s] \in Rooms
    /\ s \notin loaded
    /\ loaded' = loaded \cup {s}
    /\ out' = Nothing
    /\ UNCHANGED <<rooms, checkStart, roomNumber, online>>
-----------------------------------------------------------------------------
SessionStep(s) ==
    \/ \E r \in Reach[s] : RequestRoomEnter(s, r)
    \/ RequestRoomLeave(s)
    \/ InNotifyDisConnectClient(s)
    \/ RequestGameReady(s)
    \/ \E outcome \in PutStoneOutcome : RequestPutStone(s, outcome)
    \/ InResponseDbLoadUserGameData(s)

RoomCheck == \E timeUp \in SUBSET Window : RequestInRoomCheck(timeUp)

Next ==
    \/ \E s \in Sessions : SessionStep(s)
    \/ RoomCheck
    \/ \E r \in Rooms : TurnClockRunsOut(r)

Spec == Init /\ [][Next]_vars

(* The room-check timer fires for ever and time passes; players need not   *)
(* do anything.                                                            *)
Fairness ==
    /\ WF_vars(RoomCheck)
    /\ \A r \in Rooms : WF_vars(TurnClockRunsOut(r))

FairSpec == Spec /\ Fairness
-----------------------------------------------------------------------------
(* Type invariant. *)
MemberType == [userID : Users, session : Sessions, ready : BOOLEAN]

GameType == [players : Seq(Sessions), turn : Colors, turnOverCnt : Nat,
             stones : Nat, isGameEnd : BOOLEAN]

RoomType == [state : RoomState, userList : Seq(MemberType), game : GameType,
             turnOut : BOOLEAN]

TypeOK ==
    /\ rooms \in [Rooms -> RoomType]
    /\ checkStart \in Rooms
    /\ roomNumber \in [Sessions -> Rooms \cup {NoRoom}]
    /\ online \subseteq Sessions
    /\ loaded \subseteq Sessions
    /\ out.saved \in Seq(Sessions) /\ out.kicked \subseteq Sessions
    /\ out.freed \in BOOLEAN /\ out.threw \in BOOLEAN

(* A game that goes on, between different members of the room. *)
Live(room) ==
    /\ ~room.game.isGameEnd
    /\ room.game.turnOverCnt < MaxTurnOverCnt
    /\ PlayersOf(room.game) \subseteq Members(room)
    /\ IsInjective(room.game.players)
    /\ Len(room.game.players) >= MaxUserCount

(* A room that counts as playing (Room.IsGameStarted) has a game that is   *)
(* still going on, between at least MaxUserCount different sessions, all   *)
(* of them still in the room: nobody can walk out of a game, lose the link *)
(* or come in during it in such a way that a game without its players, or  *)
(* a finished one, stays "started" and blocks the room for ever.           *)
StartedGameIsLive ==
    \A r \in Rooms : IsGameStarted(rooms[r]) => Live(rooms[r])

(* Free runs in time: a room without members is in state None, so that the *)
(* pair it is handed to next can start a game in it.                       *)
EmptyRoomIsIdle ==
    \A r \in Rooms : rooms[r].userList = <<>> => rooms[r].state = "None"

(* A session whose user says it is in room r is a member of r, and a user  *)
(* ID is a member only once: leaving one's room always finds the member.   *)
RoomNumberIsMember ==
    /\ \A s \in Sessions : roomNumber[s] \in Rooms => s \in Members(rooms[roomNumber[s]])
    /\ \A r \in Rooms : \A i, j \in DOMAIN rooms[r].userList :
          rooms[r].userList[i].userID = rooms[r].userList[j].userID => i = j

(* Who has said to be ready in a room, or plays there. *)
Bound(room) ==
    {room.userList[i].session : i \in {j \in DOMAIN room.userList : room.userList[j].ready}}
        \cup (IF IsGameStarted(room) THEN PlayersOf(room.game) ELSE {})

(* A user whom a second room has refused is a member of both.  Whatever    *)
(* comes next, he is ready and plays in one of them at the most, the one   *)
(* his number names: there he puts his stones, and that one he leaves when *)
(* the link is lost, so that no game has a player who cannot be reached    *)
(* through it.                                                             *)
BoundToOneRoom ==
    \A r \in Rooms : \A s \in Bound(rooms[r]) : roomNumber[s] = r

(* A game is never dropped without a verdict: in the step in which a room  *)
(* stops playing its game is over, and either the result of two of its     *)
(* players has been posted to the database, or every member of the room    *)
(* was told to disconnect, or the handler threw because of a user without  *)
(* GameData.                                                               *)
GameEndsWithVerdict ==
    [][\A r \in Rooms :
         IsGameStarted(rooms[r]) /\ ~IsGameStarted(rooms'[r]) =>
            /\ rooms'[r].game.isGameEnd
            /\ \/ Len(out'.saved) = 2
                  /\ {out'.saved[1], out'.saved[2]} \subseteq PlayersOf(rooms[r].game)
               \/ Members(rooms[r]) \subseteq out'.kicked
               \/ out'.threw /\ ~(PlayersOf(rooms[r].game) \subseteq loaded)]_vars

(* A result is posted only for a game that was running, at most once per   *)
(* game.  Of a game of two it names one player of each colour, and a       *)
(* player who walks out or loses the link is not the winner.               *)
ResultIsFair ==
    [][out'.saved # <<>> =>
         \E r \in Rooms :
            LET g == rooms[r].game
                winner == out'.saved[1]
                loser  == out'.saved[2]
            IN  /\ IsGameStarted(rooms[r]) /\ rooms'[r].game.isGameEnd
                /\ {winner, loser} \subseteq PlayersOf(g) \cap loaded
                /\ Cardinality(PlayersOf(g)) = 2 =>
                      /\ GetUserStoneColor(g, winner) # GetUserStoneColor(g, loser)
                      /\ roomNumber'[winner] = r]_vars

(* A game that nobody ends by playing is ended by the turn clock: every    *)
(* game ends, whatever its players do or do not do.                        *)
GameEnds ==
    \A r \in Rooms : IsGameStarted(rooms[r]) ~> ~IsGameStarted(rooms[r])

(* "방에 들어가 있는 상태에서 연결이 끊어진 경우 방에서 나가게 한다."      *)
(* (PKHCommon.cs:45): a session whose disconnection has been handled is    *)
(* not a member of any room.                                               *)
DisconnectLeavesRooms ==
    \A s \in Sessions \ online : \A r \in Rooms : s \notin Members(rooms[r])

=============================================================================
