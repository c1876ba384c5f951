------------------------- MODULE RoomManagerProofs -------------------------
(***************************************************************************)
(* Proofs about RoomManager, for every number of sessions, rooms, seats    *)
(* and turns, in three parts.                                              *)
(*   1  RoomsInv, the inductive invariant, and the invariants it implies.  *)
(*      The lemmas go bottom up: what each method of class Room makes of   *)
(*      one room that satisfies RoomOK, then what each handler makes of    *)
(*      all of them.                                                       *)
(*   2  GameEndsWithVerdict: what each method that can end a game makes of *)
(*      it; RoomsInv supplies that a started room has a live game.         *)
(*   3  ResultIsFair, which needs more than RoomsInv: BoundInv says that   *)
(*      whoever is ready in a room or plays there has that room's number.  *)
(***************************************************************************)
EXTENDS RoomManager, SequenceTheorems, FiniteSetTheorems, TLAPS

(* The inductive invariant: one room at a time, and the window a multiple  *)
(* of CheckRoomCount.                                                      *)
RoomOK(room) ==
    /\ room \in RoomType
    /\ \A i, j \in DOMAIN room.userList :
          room.userList[i].userID = room.userList[j].userID => i = j
    /\ \A i \in DOMAIN room.userList :
          room.userList[i].userID = UserOf[room.userList[i].session]
    /\ IsGameStarted(room) => Live(room)
    /\ room.userList = <<>> => room.state = "None"

RoomsInv ==
    /\ TypeOK
    /\ \A r \in Rooms : RoomOK(rooms[r])
    /\ RoomNumberIsMember
    /\ \E k \in 0 .. RoomMaxCount : checkStart = k * CheckRoomCount

(* What the callers need to know of any effect. *)
EffectType == [room : RoomType, saved : Seq(Sessions), kicked : SUBSET Sessions,
               freed : BOOLEAN, threw : BOOLEAN]
-----------------------------------------------------------------------------
(* Sessions in a room are as distinct as their user IDs. *)
LEMMA SessionsDistinct ==
    ASSUME NEW room, RoomOK(room)
    PROVE  \A i, j \in DOMAIN room.userList :
              room.userList[i].session = room.userList[j].session => i = j
BY DEF RoomOK, RoomType, MemberType

(* The members of a room are sessions, one for each list entry.            *)
LEMMA MembersType ==
    ASSUME NEW room \in RoomType
    PROVE  Members(room) \subseteq Sessions
<1>1. room.userList \in Seq(MemberType)
  BY DEF RoomType
<1>2. \A i \in DOMAIN room.userList : room.userList[i] \in MemberType
  BY <1>1
<1>3. \A i \in DOMAIN room.userList : room.userList[i].session \in Sessions
  BY <1>2 DEF MemberType
<1> QED BY <1>3 DEF Members

(* IndexOf finds the list entry of a member.                               *)
LEMMA IndexOfMember ==
    ASSUME NEW room, NEW s \in Members(room)
    PROVE  /\ IndexOf(room, s) \in DOMAIN room.userList
           /\ room.userList[IndexOf(room, s)].session = s
BY DEF IndexOf, Members

(* RemoveAt takes out one element and moves the later ones up. *)
LEMMA RemoveAtProperties ==
    ASSUME NEW S, NEW q \in Seq(S), NEW i \in 1 .. Len(q)
    PROVE  /\ RemoveAt(q, i) \in Seq(S)
           /\ Len(RemoveAt(q, i)) = Len(q) - 1
           /\ \A j \in 1 .. Len(q) - 1 :
                 RemoveAt(q, i)[j] = IF j < i THEN q[j] ELSE q[j + 1]
<1> DEFINE front == SubSeq(q, 1, i - 1)
           back  == SubSeq(q, i + 1, Len(q))
<1>1. /\ front \in Seq(S) /\ Len(front) = i - 1
      /\ \A j \in 1 .. i - 1 : front[j] = q[j]
  <2>1. \A j \in 1 .. i - 1 : q[j] \in S
    OBVIOUS
  <2>2. /\ front \in Seq(S)
        /\ Len(front) = IF 1 <= i - 1 THEN (i - 1) - 1 + 1 ELSE 0
        /\ \A j \in 1 .. (i - 1) - 1 + 1 : front[j] = q[1 + j - 1]
    BY <2>1, SubSeqProperties
  <2> QED BY <2>2
<1>2. /\ back \in Seq(S) /\ Len(back) = Len(q) - i
      /\ \A j \in 1 .. Len(q) - i : back[j] = q[i + j]
  <2>1. \A j \in i + 1 .. Len(q) : q[j] \in S
    OBVIOUS
  <2>2. /\ back \in Seq(S)
        /\ Len(back) = IF i + 1 <= Len(q) THEN Len(q) - (i + 1) + 1 ELSE 0
        /\ \A j \in 1 .. Len(q) - (i + 1) + 1 : back[j] = q[(i + 1) + j - 1]
    BY <2>1, SubSeqProperties
  <2> QED BY <2>2
<1>3. RemoveAt(q, i) = front \o back
  BY DEF RemoveAt
<1> HIDE DEF front, back
<1>4. /\ front \o back \in Seq(S)
      /\ Len(front \o back) = Len(front) + Len(back)
      /\ \A j \in 1 .. Len(front) + Len(back) : (front \o back)[j] =
            IF j <= Len(front) THEN front[j] ELSE back[j - Len(front)]
  BY <1>1, <1>2, ConcatProperties
<1> QED BY <1>1, <1>2, <1>3, <1>4
-----------------------------------------------------------------------------
(* An effect without consequences is well typed.                           *)
LEMMA QuietType ==
    ASSUME NEW room \in RoomType
    PROVE  Quiet(room) \in EffectType /\ Throw(room) \in EffectType
<1>1. <<>> \in Seq(Sessions) /\ {} \subseteq Sessions
  OBVIOUS
<1>2. Quiet(room) \in EffectType
  BY <1>1 DEF Quiet, EffectType
<1> QED BY <1>2 DEF Throw, EffectType

(* RoomOK without what it says of a running game. *)
RosterOK(room) ==
    /\ room \in RoomType
    /\ \A i, j \in DOMAIN room.userList :
          room.userList[i].userID = room.userList[j].userID => i = j
    /\ \A i \in DOMAIN room.userList :
          room.userList[i].userID = UserOf[room.userList[i].session]

(* EndGame leaves a room with a running game ended, whatever else happens. *)
LEMMA EndGameRoom ==
    ASSUME NEW room, NEW c, NEW L
    PROVE  EndGame(room, c, L).room =
              IF room.game.isGameEnd THEN room ELSE Ended(room)
BY DEF EndGame, Quiet, Throw

(* A room whose game has been ended keeps the room invariant.              *)
LEMMA EndedOK ==
    ASSUME NEW room, RosterOK(room), room.userList # <<>>
    PROVE  RoomOK(Ended(room)) /\ Members(Ended(room)) = Members(room)
<1>1. NoGame \in GameType
  BY DEF NoGame, GameType, Colors, Black, White
<1>2. Ended(room) \in RoomType
  BY <1>1 DEF RosterOK, Ended, RoomType, RoomState
<1> QED BY <1>2 DEF RosterOK, RoomOK, Ended, IsGameStarted, Members, RoomType

(* What EndGame returns is well typed, for a colour or for no winner.      *)
LEMMA EndGameEffect ==
    ASSUME NEW room \in RoomType, NEW c \in StoneColor, NEW L,
           ~room.game.isGameEnd => Len(room.game.players) >= 2
    PROVE  EndGame(room, c, L) \in EffectType
<1> DEFINE winner == GetSessionByStoneColor(room.game, c)
           loser  == GetSessionByStoneColor(room.game, Opposite(c))
<1>1. Members(room) \subseteq Sessions
  BY MembersType
<1>2. NoGame \in GameType
  BY DEF NoGame, GameType, Colors, Black, White
<1>3. Ended(room) \in RoomType
  BY <1>2 DEF Ended, RoomType, RoomState
<1>4. ~room.game.isGameEnd => winner \in Sessions /\ loser \in Sessions
  <2>1. room.game.players \in Seq(Sessions)
    BY DEF RoomType, GameType
  <2> QED BY <2>1 DEF GetSessionByStoneColor
<1> HIDE DEF winner, loser
<1>5. CASE room.game.isGameEnd
  <2>1. EndGame(room, c, L) = Quiet(room)
    BY <1>5 DEF EndGame
  <2> QED BY <2>1, QuietType
<1>6. CASE ~room.game.isGameEnd /\ c = None
  <2>1. EndGame(room, c, L) = [Quiet(Ended(room)) EXCEPT !.kicked = Members(room)]
    BY <1>6 DEF EndGame
  <2>2. Quiet(Ended(room)) \in EffectType
    BY <1>3, QuietType
  <2> QED BY <2>1, <2>2, <1>1 DEF EffectType
<1>7. CASE ~room.game.isGameEnd /\ c # None
  <2>1. <<winner, loser>> \in Seq(Sessions)
    BY <1>7, <1>4
  <2>2. CASE {winner, loser} \subseteq L
    <3>1. EndGame(room, c, L) = [Quiet(Ended(room)) EXCEPT !.saved = <<winner, loser>>]
      BY <1>7, <2>2 DEF EndGame, winner, loser
    <3>2. Quiet(Ended(room)) \in EffectType
      BY <1>3, QuietType
    <3> QED BY <3>1, <3>2, <2>1 DEF EffectType
  <2>3. CASE ~({winner, loser} \subseteq L)
    <3>1. EndGame(room, c, L) = Throw(Ended(room))
      BY <1>7, <2>3 DEF EndGame, winner, loser
    <3> QED BY <3>1, <1>3, QuietType
  <2> QED BY <2>2, <2>3
<1> QED BY <1>5, <1>6, <1>7

(* Taking a member out of a room whose game is over keeps the invariant    *)
(* and takes exactly that member.                                          *)
LEMMA RemoveUserOK ==
    ASSUME NEW room, RoomOK(room), ~IsGameStarted(room), NEW s \in Members(room)
    PROVE  /\ RoomOK(RemoveUser(room, s))
           /\ Members(RemoveUser(room, s)) = Members(room) \ {s}
<1> DEFINE i    == IndexOf(room, s)
           list == room.userList
           left == RemoveAt(list, i)
           new  == RemoveUser(room, s)
<1>1. i \in 1 .. Len(list) /\ list[i].session = s
  BY IndexOfMember DEF RoomOK, RoomType
<1>2. list \in Seq(MemberType)
  BY DEF RoomOK, RoomType
<1>3. /\ left \in Seq(MemberType)
      /\ Len(left) = Len(list) - 1
      /\ \A j \in 1 .. Len(list) - 1 :
            left[j] = IF j < i THEN list[j] ELSE list[j + 1]
  BY <1>1, <1>2, RemoveAtProperties
<1>4. /\ new.userList = left /\ new.game = room.game /\ new.turnOut = room.turnOut
      /\ new.state = (IF left = <<>> THEN "None" ELSE room.state)
      /\ new \in RoomType
  BY <1>3 DEF RemoveUser, RoomOK, RoomType, RoomState
<1> HIDE DEF i, list, left, new
<1>5. \A j, k \in DOMAIN left : left[j].userID = left[k].userID => j = k
  <2> SUFFICES ASSUME NEW j \in 1 .. Len(list) - 1, NEW k \in 1 .. Len(list) - 1,
                      left[j].userID = left[k].userID
               PROVE  j = k
    BY <1>3
  <2>1. \A a, b \in 1 .. Len(list) : list[a].userID = list[b].userID => a = b
    BY <1>2 DEF RoomOK, list
  <2> DEFINE up(x) == IF x < i THEN x ELSE x + 1
  <2>2. /\ up(j) \in 1 .. Len(list) /\ up(k) \in 1 .. Len(list)
        /\ left[j] = list[up(j)] /\ left[k] = list[up(k)]
    BY <1>1, <1>2, <1>3
  <2>3. up(j) = up(k)
    BY <2>1, <2>2
  <2> QED BY <2>3, <1>1, <1>2
<1>6. \A j \in DOMAIN left : left[j].userID = UserOf[left[j].session]
  BY <1>1, <1>2, <1>3 DEF RoomOK, list
<1>7. RoomOK(new)
  BY <1>4, <1>5, <1>6 DEF RoomOK, IsGameStarted
<1>8. \A j \in DOMAIN left : left[j].session \in Members(room) \ {s}
  <2> SUFFICES ASSUME NEW j \in DOMAIN left
               PROVE  left[j].session \in Members(room) \ {s}
    OBVIOUS
  <2>1. PICK k \in 1 .. Len(list) : k # i /\ left[j] = list[k]
    BY <1>1, <1>2, <1>3
  <2>2. list[k].session # list[i].session
    BY <1>1, <1>2, <2>1, SessionsDistinct DEF list
  <2>3. list[k].session \in Members(room)
    BY <1>2, <2>1 DEF Members, list
  <2> QED BY <1>1, <2>1, <2>2, <2>3
<1>9. ASSUME NEW t \in Members(room) \ {s}
      PROVE  t \in Members(new)
  <2>1. PICK k \in 1 .. Len(list) : list[k].session = t
    BY <1>2 DEF Members, list
  <2>2. k # i
    BY <1>1, <2>1
  <2>3. \E j \in 1 .. Len(left) : left[j] = list[k]
    <3>1. CASE k < i
      BY <3>1, <1>1, <1>2, <1>3, <2>1
    <3>2. CASE k > i
      <4>1. k - 1 \in 1 .. Len(list) - 1 /\ ~(k - 1 < i) /\ (k - 1) + 1 = k
        BY <3>2, <1>1, <1>2, <2>1
      <4>2. left[k - 1] = list[k]
        BY <4>1, <1>3
      <4> QED BY <4>1, <4>2, <1>3
    <3> QED BY <3>1, <3>2, <2>2, <1>1, <1>2
  <2> QED BY <1>3, <1>4, <2>1, <2>3 DEF Members
<1>10. Members(new) \subseteq Members(room) \ {s}
  BY <1>4, <1>8 DEF Members
<1> QED BY <1>7, <1>9, <1>10 DEF new
(* What RoomsInv says of a room in which a game runs.                      *)
LEMMA StartedRoom ==
    ASSUME NEW room, RoomOK(room), IsGameStarted(room)
    PROVE  /\ room \in RoomType /\ room.game \in GameType /\ room.state = "GameStart"
           /\ ~room.game.isGameEnd /\ Len(room.game.players) >= 2
<1>1. room \in RoomType /\ room.game \in GameType /\ Live(room)
  BY DEF RoomOK, RoomType
<1>2. Len(room.game.players) \in Nat
  BY <1>1 DEF GameType
<1> QED BY <1>1, <1>2, RoomAssumption DEF Live, IsGameStarted

(* A running game has two different players, both of them members: nobody  *)
(* is alone in a room in which a game runs.                                *)
LEMMA NotAlone ==
    ASSUME NEW room, RoomOK(room), IsGameStarted(room), NEW s
    PROVE  Members(room) # {s}
<1>1. /\ room.game.players \in Seq(Sessions)
      /\ Len(room.game.players) >= 2
      /\ PlayersOf(room.game) \subseteq Members(room)
      /\ IsInjective(room.game.players)
  BY StartedRoom DEF RoomOK, Live, GameType
<1>2. 1 \in DOMAIN room.game.players /\ 2 \in DOMAIN room.game.players
  BY <1>1
<1>3. room.game.players[1] \in Members(room) /\ room.game.players[2] \in Members(room)
  BY <1>1, <1>2 DEF PlayersOf
<1>4. room.game.players[1] # room.game.players[2]
  BY <1>1, <1>2 DEF IsInjective
<1> QED BY <1>3, <1>4
-----------------------------------------------------------------------------
(* A member leaves.  If a game runs, either the handler throws or the game *)
(* is over before the member is taken out.                                 *)
LEMMA ForfeitOK ==
    ASSUME NEW room, RoomOK(room), IsGameStarted(room),
           NEW s \in Members(room), Members(room) # {s}, NEW L
    PROVE  /\ Forfeit(room, s, L) \in EffectType
           /\ Forfeit(room, s, L).room \in {room, Ended(room)}
           /\ ~Forfeit(room, s, L).threw => Forfeit(room, s, L).room = Ended(room)
<1> DEFINE first == FirstOther(room, s)
           color == GetUserStoneColor(room.game, first)
           e     == EndGame(room, color, L)
<1>1. room \in RoomType /\ ~room.game.isGameEnd /\ Len(room.game.players) >= 2
  BY StartedRoom
<1>2. color \in StoneColor
  BY DEF GetUserStoneColor, StoneColor, Colors
<1>3. e \in EffectType
  BY <1>1, <1>2, EndGameEffect
<1>4. e.room = Ended(room)
  BY <1>1, EndGameRoom
<1> HIDE DEF first, color, e
<1>5. CASE first \in PlayersOf(room.game)
  <2> DEFINE bad == ~(Members(room) \ {s} \subseteq PlayersOf(room.game))
  <2>1. Forfeit(room, s, L) = [e EXCEPT !.threw = @ \/ bad]
    BY <1>5 DEF Forfeit, first, color, e
  <2>2. e.threw \/ bad \in BOOLEAN
    BY <1>3 DEF EffectType
  <2> HIDE DEF bad
  <2> QED BY <1>3, <1>4, <2>1, <2>2 DEF EffectType
<1>6. CASE first \notin PlayersOf(room.game)
  <2>1. Forfeit(room, s, L) = Throw(room)
    BY <1>6 DEF Forfeit, first
  <2>2. Throw(room).room = room /\ Throw(room).threw
    BY DEF Throw, Quiet
  <2> QED BY <1>1, <2>1, <2>2, QuietType
<1> QED BY <1>5, <1>6

(* A room with a member has a member list that is not empty.               *)
LEMMA NonEmpty ==
    ASSUME NEW room, NEW s \in Members(room), room \in RoomType
    PROVE  room.userList # <<>>
BY DEF Members

(* LeaveRoomUser keeps the room invariant; unless it throws, exactly the   *)
(* leaving session is gone.                                                *)
LEMMA LeaveRoomUserOK ==
    ASSUME NEW room, RoomOK(room), NEW s \in Members(room), NEW L
    PROVE  LET e == LeaveRoomUser(room, s, L) IN
           /\ e \in EffectType
           /\ RoomOK(e.room)
           /\ Members(e.room) = IF e.threw THEN Members(room)
                                ELSE Members(room) \ {s}
<1> DEFINE e0 == IF IsGameStarted(room) /\ Members(room) # {s}
                 THEN Forfeit(room, s, L) ELSE Quiet(room)
           after == RemoveUser(e0.room, s)
<1>0. room.userList # <<>> /\ RosterOK(room) /\ room \in RoomType
  BY NonEmpty DEF RoomOK, RosterOK
<1>1. /\ e0 \in EffectType
      /\ e0.room \in {room, Ended(room)}
      /\ ~e0.threw => ~IsGameStarted(e0.room)
  <2>1. CASE IsGameStarted(room) /\ Members(room) # {s}
    <3>1. e0 = Forfeit(room, s, L)
      BY <2>1
    <3>2. ~IsGameStarted(Ended(room))
      BY <1>0 DEF Ended, IsGameStarted, RoomType
    <3> QED BY <2>1, <3>1, <3>2, ForfeitOK
  <2>2. CASE ~IsGameStarted(room)
    <3>1. e0 = Quiet(room) /\ Quiet(room).room = room
      BY <2>2 DEF Quiet
    <3> QED BY <2>2, <3>1, <1>0, QuietType
  <2>3. CASE IsGameStarted(room) /\ Members(room) = {s}
    BY <2>3, NotAlone
  <2> QED BY <2>1, <2>2, <2>3
<1>2. RoomOK(e0.room) /\ Members(e0.room) = Members(room)
  BY <1>0, <1>1, EndedOK
<1> HIDE DEF e0
<1>3. CASE e0.threw
  <2>1. LeaveRoomUser(room, s, L) = e0
    BY <1>3 DEF LeaveRoomUser, e0
  <2> QED BY <1>1, <1>2, <1>3, <2>1
<1>4. CASE ~e0.threw
  <2>1. RoomOK(after) /\ Members(after) = Members(room) \ {s}
    BY <1>1, <1>2, <1>4, RemoveUserOK
  <2> HIDE DEF after
  <2>2. LeaveRoomUser(room, s, L) =
          [e0 EXCEPT !.room = after, !.freed = (after.userList = <<>>)]
    BY <1>4 DEF LeaveRoomUser, e0, after
  <2>3. after \in RoomType
    BY <2>1 DEF RoomOK
  <2> QED BY <1>1, <1>4, <2>1, <2>2, <2>3 DEF EffectType
<1> QED BY <1>3, <1>4
-----------------------------------------------------------------------------
(* Joining, getting ready and starting. *)
LEMMA AddUserOK ==
    ASSUME NEW room, RoomOK(room), NEW s \in Sessions
    PROVE  LET new == AddUser(room, UserOf[s], s) IN
           /\ RoomOK(new)
           /\ Members(room) \subseteq Members(new)
           /\ UserOf[s] \notin UserIDs(room) => s \in Members(new)
<1> DEFINE member == [userID |-> UserOf[s], session |-> s, ready |-> FALSE]
           list   == room.userList
           longer == Append(list, member)
           new    == AddUser(room, UserOf[s], s)
<1>1. CASE UserOf[s] \in UserIDs(room)
  BY <1>1 DEF AddUser
<1>2. CASE UserOf[s] \notin UserIDs(room)
  <2>1. list \in Seq(MemberType) /\ member \in MemberType
    BY RoomManagerAssumption DEF RoomOK, RoomType, MemberType
  <2>2. /\ longer \in Seq(MemberType) /\ Len(longer) = Len(list) + 1
        /\ \A i \in 1 .. Len(list) : longer[i] = list[i]
        /\ longer[Len(list) + 1] = member
    BY <2>1
  <2>3. new = [room EXCEPT !.userList = longer]
    BY <1>2 DEF AddUser
  <2>4. /\ new \in RoomType /\ new.userList = longer
        /\ new.state = room.state /\ new.game = room.game
    BY <2>2, <2>3 DEF RoomOK, RoomType
  <2>5. member.userID = UserOf[s] /\ member.session = s
    OBVIOUS
  <2> HIDE DEF new, longer, member, list
  <2>6. \A i \in 1 .. Len(list) : list[i].userID # UserOf[s]
    BY <1>2, <2>1 DEF UserIDs, list
  <2>7. \A i, j \in 1 .. Len(list) : list[i].userID = list[j].userID => i = j
    BY <2>1 DEF RoomOK, list
  <2>8. \A i, j \in DOMAIN longer : longer[i].userID = longer[j].userID => i = j
    BY <2>1, <2>2, <2>5, <2>6, <2>7
  <2>9. \A i \in DOMAIN longer : longer[i].userID = UserOf[longer[i].session]
    BY <2>1, <2>2, <2>5 DEF RoomOK, list
  <2>10. Members(room) \subseteq Members(new) /\ s \in Members(new)
    <3>1. Members(new) = {longer[i].session : i \in 1 .. Len(list) + 1}
      BY <2>1, <2>2, <2>4 DEF Members
    <3>2. Members(room) = {list[i].session : i \in 1 .. Len(list)}
      BY <2>1 DEF Members, list
    <3> QED BY <2>1, <2>2, <2>5, <3>1, <3>2
  <2>11. IsGameStarted(new) => Live(new)
    BY <2>4, <2>10 DEF RoomOK, Live, IsGameStarted
  <2>12. longer # <<>>
    BY <2>1, <2>2
  <2>13. RoomOK(new)
    BY <2>4, <2>8, <2>9, <2>11, <2>12 DEF RoomOK
  <2> QED BY <2>10, <2>13 DEF new
<1> QED BY <1>1, <1>2

(* Toggling a ready flag changes nothing the invariant speaks of.          *)
LEMMA ToggleReadyOK ==
    ASSUME NEW room, RoomOK(room), NEW s \in Members(room)
    PROVE  LET new == ToggleReady(room, s) IN
           RoomOK(new) /\ Members(new) = Members(room) /\ new.userList # <<>>
<1> DEFINE i    == IndexOf(room, s)
           list == room.userList
           new  == ToggleReady(room, s)
<1>1. list \in Seq(MemberType) /\ i \in DOMAIN list
  BY IndexOfMember DEF RoomOK, RoomType
<1>2. [list EXCEPT ![i] = [list[i] EXCEPT !.ready = ~@]] \in Seq(MemberType)
  <2>1. [list[i] EXCEPT !.ready = ~@] \in MemberType
    <3>1. list[i] \in MemberType
      BY <1>1
    <3> QED BY <3>1 DEF MemberType
  <2> QED BY <1>1, <2>1
<1>3. /\ new = [room EXCEPT !.userList = [list EXCEPT ![i] = [list[i] EXCEPT !.ready = ~@]]]
      /\ room \in RoomType
  BY DEF ToggleReady, RoomOK
<1>4. /\ new \in RoomType
      /\ new.state = room.state /\ new.game = room.game
      /\ new.userList = [list EXCEPT ![i] = [list[i] EXCEPT !.ready = ~@]]
  BY <1>2, <1>3 DEF RoomType
<1> HIDE DEF new, i
<1>5. /\ DOMAIN new.userList = DOMAIN list
      /\ \A j \in DOMAIN list : /\ new.userList[j].userID = list[j].userID
                                /\ new.userList[j].session = list[j].session
  BY <1>1, <1>4 DEF MemberType
<1>6. Members(new) = Members(room)
  BY <1>5 DEF Members
<1>7. IsGameStarted(new) => Live(new)
  BY <1>4, <1>6 DEF RoomOK, Live, IsGameStarted
<1>8. new.userList # <<>>
  BY <1>1, <1>5
<1>9. RoomOK(new)
  BY <1>4, <1>5, <1>7, <1>8 DEF RoomOK
<1> QED BY <1>6, <1>8, <1>9 DEF new

(* A game started by members who are all ready is live.                    *)
LEMMA StartGameOK ==
    ASSUME NEW room, RoomOK(room), IsAllUserReady(room),
           NEW t \in DOMAIN room.userList
    PROVE  RoomOK(StartGame(room, t)) /\ Members(StartGame(room, t)) = Members(room)
<1> DEFINE list == room.userList
           from(i) == IF i = 1 THEN t ELSE IF i <= t THEN i - 1 ELSE i
           players == [i \in DOMAIN list |->
                         IF i = 1 THEN list[t].session
                         ELSE IF i <= t THEN list[i - 1].session
                         ELSE list[i].session]
           new == StartGame(room, t)
<1>1. list \in Seq(MemberType) /\ t \in 1 .. Len(list) /\ room \in RoomType
  BY DEF RoomOK, RoomType
<1>2. \A i \in 1 .. Len(list) : from(i) \in 1 .. Len(list) /\ players[i] = list[from(i)].session
  BY <1>1
<1>3. \A i \in 1 .. Len(list) : list[i].session \in Sessions
  <2>1. \A i \in 1 .. Len(list) : list[i] \in MemberType
    BY <1>1
  <2> QED BY <2>1 DEF MemberType
<1>4. \A i, j \in 1 .. Len(list) : from(i) = from(j) => i = j
  BY <1>1
<1>5. DOMAIN players = 1 .. Len(list)
  BY <1>1
<1>6. new = [room EXCEPT !.state = "GameStart", !.turnOut = FALSE, !.game = NewGame(players)]
  BY DEF StartGame
<1> HIDE DEF players, from, new
<1>7. players \in Seq(Sessions) /\ Len(players) = Len(list)
  <2>1. \A i \in 1 .. Len(list) : players[i] \in Sessions
    BY <1>2, <1>3
  <2>2. players = [i \in 1 .. Len(list) |-> players[i]]
    BY <1>5 DEF players
  <2>3. Len(list) \in Nat
    BY <1>1
  <2> QED BY <2>1, <2>2, <2>3
<1>8. NewGame(players) \in GameType
  BY <1>7 DEF NewGame, GameType, Colors, Black, White
<1>9. /\ new \in RoomType /\ new.userList = list /\ new.game = NewGame(players)
  BY <1>1, <1>6, <1>8 DEF RoomType, RoomState
<1>10. Members(new) = Members(room)
  BY <1>9 DEF Members
<1>11. IsInjective(players)
  <2>1. \A i, j \in 1 .. Len(list) : list[i].session = list[j].session => i = j
    BY <1>1, SessionsDistinct
  <2>2. ASSUME NEW i \in 1 .. Len(list), NEW j \in 1 .. Len(list), players[i] = players[j]
        PROVE  i = j
    <3>1. from(i) = from(j)
      BY <1>2, <2>1, <2>2
    <3> QED BY <1>4, <3>1
  <2> QED BY <1>5, <2>2 DEF IsInjective
<1>12. PlayersOf(NewGame(players)) \subseteq Members(new)
  <2>1. \A i \in 1 .. Len(list) : list[i].session \in Members(room)
    BY <1>1 DEF Members
  <2> QED BY <1>2, <1>5, <1>10, <2>1 DEF PlayersOf, NewGame
<1>13. Live(new)
  <2>1. Len(players) >= MaxUserCount
    BY <1>7 DEF IsAllUserReady
  <2>2. 0 < MaxTurnOverCnt
    BY RoomAssumption
  <2>3. /\ new.game.players = players /\ ~new.game.isGameEnd
        /\ new.game.turnOverCnt = 0
    BY <1>9 DEF NewGame
  <2> QED BY <1>9, <1>11, <1>12, <2>1, <2>2, <2>3 DEF Live
<1>14. list # <<>>
  BY <1>1
<1>15. RoomOK(new)
  BY <1>9, <1>13, <1>14 DEF RoomOK
<1> QED BY <1>10, <1>15 DEF new
-----------------------------------------------------------------------------
(* Stones and timers. *)
LEMMA OppositeColor ==
    ASSUME NEW c \in Colors
    PROVE  Opposite(c) \in Colors /\ c \in StoneColor
BY DEF Opposite, Colors, StoneColor

(* Passing the turn keeps a game well typed and its players and end        *)
(* unchanged.                                                              *)
LEMMA ChangeTurnOK ==
    ASSUME NEW g \in GameType
    PROVE  /\ ChangeTurn(g) \in GameType
           /\ ChangeTurn(g).players = g.players
           /\ ChangeTurn(g).isGameEnd = g.isGameEnd
           /\ ChangeTurn(g).turnOverCnt = g.turnOverCnt
<1>1. Opposite(g.turn) \in Colors
  BY OppositeColor DEF GameType
<1>2. CASE g.isGameEnd
  BY <1>2 DEF ChangeTurn
<1>3. CASE ~g.isGameEnd
  <2>1. ChangeTurn(g) = [g EXCEPT !.turn = Opposite(g.turn)]
    BY <1>3 DEF ChangeTurn
  <2> QED BY <1>1, <2>1 DEF GameType
<1> QED BY <1>2, <1>3

(* A stone or a turn over keeps a live game well typed, with the same      *)
(* players.                                                                *)
LEMMA TurnsOK ==
    ASSUME NEW g \in GameType
    PROVE  /\ PlaceStone(g) \in GameType /\ TurnOver(g) \in GameType
           /\ PlaceStone(g).players = g.players /\ TurnOver(g).players = g.players
           /\ PlaceStone(g).isGameEnd = g.isGameEnd /\ TurnOver(g).isGameEnd = g.isGameEnd
           /\ PlaceStone(g).turnOverCnt = 0
<1> DEFINE stone == [g EXCEPT !.stones = @ + 1, !.turnOverCnt = 0]
<1>1. /\ stone \in GameType /\ stone.players = g.players
      /\ stone.isGameEnd = g.isGameEnd /\ stone.turnOverCnt = 0
  <2>1. g.stones + 1 \in Nat
    BY DEF GameType
  <2> QED BY <2>1 DEF GameType
<1>2. PlaceStone(g) = ChangeTurn(stone)
  BY DEF PlaceStone
<1> HIDE DEF stone
<1>3. /\ PlaceStone(g) \in GameType /\ PlaceStone(g).players = g.players
      /\ PlaceStone(g).isGameEnd = g.isGameEnd /\ PlaceStone(g).turnOverCnt = 0
  BY <1>1, <1>2, ChangeTurnOK
<1>4. /\ TurnOver(g) \in GameType /\ TurnOver(g).players = g.players
      /\ TurnOver(g).isGameEnd = g.isGameEnd
  <2>1. CASE g.isGameEnd
    BY <2>1 DEF TurnOver
  <2>2. CASE ~g.isGameEnd
    <3>1. TurnOver(g) = [ChangeTurn(g) EXCEPT !.turnOverCnt = @ + 1]
      BY <2>2 DEF TurnOver
    <3>2. ChangeTurn(g) \in GameType /\ ChangeTurn(g).turnOverCnt + 1 \in Nat
      BY ChangeTurnOK DEF GameType
    <3> QED BY <3>1, <3>2, ChangeTurnOK DEF GameType
  <2> QED BY <2>1, <2>2
<1> QED BY <1>3, <1>4

(* Whatever a stone does, the room invariant holds afterwards and nobody   *)
(* has moved.                                                              *)
LEMMA PutStoneOK ==
    ASSUME NEW room, RoomOK(room), NEW s, NEW outcome, NEW L
    PROVE  LET e == PutStone(room, s, outcome, L) IN
           /\ e \in EffectType
           /\ RoomOK(e.room)
           /\ Members(e.room) = Members(room)
<1> DEFINE g      == room.game
           placed == [room EXCEPT !.game = PlaceStone(g), !.turnOut = FALSE]
           e      == PutStone(room, s, outcome, L)
<1>0. room \in RoomType /\ g \in GameType
  BY DEF RoomOK, RoomType
<1>1. CASE e = Throw(room) \/ e = Quiet(room)
  <2>1. Throw(room).room = room /\ Quiet(room).room = room
    BY DEF Throw, Quiet
  <2> QED BY <1>0, <1>1, <2>1, QuietType
<1>2. CASE IsGameStarted(room) /\ (e = Quiet(placed) \/ e = EndGame(placed, g.turn, L))
  <2>1. Live(room) /\ ~g.isGameEnd
    BY <1>2 DEF RoomOK, Live
  <2>2. /\ PlaceStone(g) \in GameType
        /\ PlaceStone(g).players = g.players
        /\ PlaceStone(g).isGameEnd = g.isGameEnd
        /\ PlaceStone(g).turnOverCnt = 0
    BY <1>0, TurnsOK
  <2>3. /\ placed \in RoomType
        /\ placed.userList = room.userList /\ placed.state = room.state
        /\ placed.game = PlaceStone(g)
    BY <1>0, <2>2 DEF RoomType
  <2>4. g.turn \in StoneColor
    BY <1>0, OppositeColor DEF GameType
  <2> HIDE DEF placed, e
  <2>5. Members(placed) = Members(room)
    BY <2>3 DEF Members
  <2>6. Live(placed)
    BY <2>1, <2>2, <2>3, <2>5, RoomAssumption DEF Live, PlayersOf
  <2>7. RoomOK(placed)
    BY <2>3, <2>6 DEF RoomOK, IsGameStarted
  <2>8. CASE e = Quiet(placed)
    <3>1. Quiet(placed).room = placed
      BY DEF Quiet
    <3> QED BY <2>3, <2>5, <2>7, <2>8, <3>1, QuietType DEF e
  <2>9. CASE e = EndGame(placed, g.turn, L)
    <3>1. Len(placed.game.players) >= 2 /\ ~placed.game.isGameEnd
      <4>1. placed.game.players \in Seq(Sessions)
        BY <2>3 DEF RoomType, GameType
      <4> QED BY <2>6, <4>1, RoomAssumption DEF Live
    <3>2. e \in EffectType
      BY <2>3, <2>4, <2>9, <3>1, EndGameEffect
    <3>3. e.room = Ended(placed)
      BY <2>9, <3>1, EndGameRoom
    <3>4. placed.userList # <<>>
      BY <1>2, <2>3 DEF RoomOK, IsGameStarted
    <3>5. RosterOK(placed)
      BY <2>7 DEF RoomOK, RosterOK
    <3>6. RoomOK(Ended(placed)) /\ Members(Ended(placed)) = Members(placed)
      BY <3>4, <3>5, EndedOK
    <3> QED BY <2>5, <3>2, <3>3, <3>6 DEF e
  <2> QED BY <1>2, <2>8, <2>9
<1>3. \/ e = Throw(room) \/ e = Quiet(room)
      \/ IsGameStarted(room) /\ (e = Quiet(placed) \/ e = EndGame(placed, g.turn, L))
  BY DEF PutStone
<1> QED BY <1>1, <1>2, <1>3

(* The clock passes the turn: the game stays live, or it is over. *)
LEMMA CheckTurnChangedTimeOK ==
    ASSUME NEW room, RoomOK(room), room.userList # <<>>
    PROVE  LET e == CheckTurnChangedTime(room) IN
           /\ e \in EffectType
           /\ RoomOK(e.room)
           /\ Members(e.room) = Members(room)
<1> DEFINE g      == room.game
           turned == [room EXCEPT !.game = TurnOver(@), !.turnOut = FALSE]
           e      == CheckTurnChangedTime(room)
<1>0. room \in RoomType /\ g \in GameType
  BY DEF RoomOK, RoomType
<1>1. CASE ~room.turnOut
  <2>1. e = Quiet(room) /\ Quiet(room).room = room
    BY <1>1 DEF CheckTurnChangedTime, Quiet
  <2> QED BY <1>0, <2>1, QuietType
<1>2. CASE room.turnOut
  <2>1. /\ TurnOver(g) \in GameType
        /\ TurnOver(g).players = g.players
        /\ TurnOver(g).isGameEnd = g.isGameEnd
    BY <1>0, TurnsOK
  <2>2. /\ turned \in RoomType
        /\ turned.userList = room.userList /\ turned.state = room.state
        /\ turned.game = TurnOver(g)
    BY <1>0, <2>1 DEF RoomType
  <2>3. Members(turned) = Members(room)
    BY <2>2 DEF Members
  <2>4. RosterOK(turned)
    BY <2>2 DEF RoomOK, RosterOK
  <2>5. e = IF turned.game.turnOverCnt >= MaxTurnOverCnt
            THEN EndGame(turned, None, {}) ELSE Quiet(turned)
    BY <1>2 DEF CheckTurnChangedTime
  <2> HIDE DEF turned, e
  <2>6. IsGameStarted(turned) /\ ~(turned.game.turnOverCnt >= MaxTurnOverCnt) => Live(turned)
    <3>1. turned.game.turnOverCnt \in Nat /\ MaxTurnOverCnt \in Nat
      BY <2>2, RoomAssumption DEF RoomType, GameType
    <3> QED BY <2>1, <2>2, <2>3, <3>1 DEF RoomOK, Live, PlayersOf, IsGameStarted
  <2>7. CASE ~(turned.game.turnOverCnt >= MaxTurnOverCnt)
    <3>1. e = Quiet(turned) /\ Quiet(turned).room = turned
      BY <2>5, <2>7 DEF Quiet
    <3>2. RoomOK(turned)
      BY <2>2, <2>4, <2>6, <2>7 DEF RoomOK, RosterOK
    <3> QED BY <2>2, <2>3, <3>1, <3>2, QuietType DEF e
  <2>8. CASE turned.game.turnOverCnt >= MaxTurnOverCnt
    <3>1. e = EndGame(turned, None, {})
      BY <2>5, <2>8
    <3>2. e.room \in {turned, Ended(turned)}
      BY <3>1, EndGameRoom
    <3>3. RoomOK(Ended(turned)) /\ Members(Ended(turned)) = Members(turned)
      BY <2>2, <2>4, EndedOK
    <3>4. ~turned.game.isGameEnd => e.room = Ended(turned)
      BY <3>1, EndGameRoom
    <3>5. turned.game.isGameEnd => RoomOK(turned)
      BY <2>1, <2>2, <2>4 DEF RoomOK, RosterOK, Live, IsGameStarted
    <3>6. EndGame(turned, None, {}) \in EffectType
      <4>1. Quiet(turned) \in EffectType
        BY <2>2, QuietType
      <4>2. Quiet(Ended(turned)) \in EffectType
        BY <3>3, QuietType DEF RoomOK
      <4>3. Members(turned) \subseteq Sessions
        BY <2>2, MembersType
      <4>4. [Quiet(Ended(turned)) EXCEPT !.kicked = Members(turned)] \in EffectType
        BY <4>2, <4>3 DEF EffectType
      <4> QED BY <4>1, <4>4 DEF EndGame, None
    <3> QED BY <2>3, <3>1, <3>2, <3>3, <3>4, <3>5, <3>6 DEF e
  <2> QED BY <2>7, <2>8
<1> QED BY <1>1, <1>2

(* The periodic check keeps the room invariant and moves nobody.           *)
LEMMA CheckRoomStateOK ==
    ASSUME NEW room, RoomOK(room), NEW timeUp \in BOOLEAN
    PROVE  LET e == CheckRoomState(room, timeUp) IN
           /\ e \in EffectType
           /\ RoomOK(e.room)
           /\ Members(e.room) = Members(room)
<1> DEFINE first  == CheckGameStartTime(room, timeUp)
           second == CheckTurnChangedTime(first.room)
           e      == CheckRoomState(room, timeUp)
<1>0. room \in RoomType
  BY DEF RoomOK
<1>1. CASE ~IsGameStarted(room)
  <2>1. e = Quiet(room) /\ Quiet(room).room = room
    BY <1>1 DEF CheckRoomState, Quiet
  <2> QED BY <1>0, <2>1, QuietType
<1>2. CASE IsGameStarted(room)
  <2>1. room.userList # <<>> /\ RosterOK(room) /\ Live(room)
    BY <1>2 DEF RoomOK, RosterOK, IsGameStarted
  <2>2. Len(room.game.players) >= 2
    <3>1. room.game.players \in Seq(Sessions)
      BY <1>0 DEF RoomType, GameType
    <3> QED BY <2>1, <3>1, RoomAssumption DEF Live
  <2>3. /\ first \in EffectType
        /\ first.room \in {room, Ended(room)}
    <3>1. CASE timeUp
      <4>1. first = EndGame(room, None, {}) /\ None \in StoneColor
        BY <3>1 DEF CheckGameStartTime, StoneColor
      <4> QED BY <1>0, <2>2, <4>1, EndGameEffect, EndGameRoom
    <3>2. CASE ~timeUp
      <4>1. first = Quiet(room) /\ Quiet(room).room = room
        BY <3>2 DEF CheckGameStartTime, Quiet
      <4> QED BY <1>0, <4>1, QuietType
    <3> QED BY <3>1, <3>2
  <2>4. /\ RoomOK(first.room) /\ Members(first.room) = Members(room)
        /\ first.room.userList # <<>>
    <3>1. Ended(room).userList = room.userList
      BY <1>0 DEF Ended, RoomType
    <3> QED BY <2>1, <2>3, <3>1, EndedOK
  <2> HIDE DEF first
  <2>5. /\ second \in EffectType /\ RoomOK(second.room)
        /\ Members(second.room) = Members(room)
    BY <2>4, CheckTurnChangedTimeOK
  <2> HIDE DEF second
  <2>6. e = [second EXCEPT !.kicked = @ \cup first.kicked]
    BY <1>2 DEF CheckRoomState, first, second
  <2> QED BY <2>3, <2>5, <2>6 DEF EffectType
<1> QED BY <1>1, <1>2
-----------------------------------------------------------------------------
(* The check window stays within the rooms: both ends of it are multiples  *)
(* of CheckRoomCount, and so is the number of rooms.                       *)
LEMMA WindowFacts ==
    ASSUME TypeOK, \E k \in 0 .. RoomMaxCount : checkStart = k * CheckRoomCount
    PROVE  /\ Window \subseteq Rooms
           /\ (checkStart + CheckRoomCount) % RoomMaxCount \in Rooms
           /\ \E k \in 0 .. RoomMaxCount :
                 (checkStart + CheckRoomCount) % RoomMaxCount = k * CheckRoomCount
<1>1. /\ RoomMaxCount \in Nat \ {0} /\ CheckRoomCount \in Nat \ {0}
      /\ checkStart \in 0 .. RoomMaxCount - 1
  BY RoomManagerAssumption DEF TypeOK, Rooms
<1>2. PICK n \in 1 .. RoomMaxCount : RoomMaxCount = n * CheckRoomCount
  BY RoomManagerAssumption
<1>3. PICK k \in 0 .. RoomMaxCount : checkStart = k * CheckRoomCount
  OBVIOUS
<1>4. k < n
  <2>1. SUFFICES ASSUME k >= n PROVE FALSE
    BY <1>1, <1>2, <1>3
  <2>2. k * CheckRoomCount >= n * CheckRoomCount
    BY <1>1, <1>2, <1>3, <2>1
  <2> QED BY <1>1, <1>2, <1>3, <2>2
<1>5. (k + 1) * CheckRoomCount = checkStart + CheckRoomCount
  BY <1>1, <1>3
<1>6. (k + 1) * CheckRoomCount <= n * CheckRoomCount
  BY <1>1, <1>2, <1>3, <1>4
<1>7. checkStart + CheckRoomCount <= RoomMaxCount
  BY <1>2, <1>5, <1>6
<1>8. Window \subseteq Rooms
  BY <1>1, <1>7 DEF Window, Rooms
<1>9. CASE checkStart + CheckRoomCount = RoomMaxCount
  <2>1. (checkStart + CheckRoomCount) % RoomMaxCount = 0
    BY <1>1, <1>9
  <2>2. 0 = 0 * CheckRoomCount /\ 0 \in 0 .. RoomMaxCount
    BY <1>1
  <2> QED BY <1>1, <1>8, <2>1, <2>2 DEF Rooms
<1>10. CASE checkStart + CheckRoomCount < RoomMaxCount
  <2>1. (checkStart + CheckRoomCount) % RoomMaxCount = checkStart + CheckRoomCount
    BY <1>1, <1>10
  <2>2. k + 1 \in 0 .. RoomMaxCount
    BY <1>1, <1>2, <1>3, <1>4
  <2>3. checkStart + CheckRoomCount \in Rooms
    BY <1>1, <1>10 DEF Rooms
  <2>4. (checkStart + CheckRoomCount) % RoomMaxCount = (k + 1) * CheckRoomCount
    BY <1>5, <2>1
  <2> QED BY <1>8, <2>1, <2>2, <2>3, <2>4
<1>11. \/ checkStart + CheckRoomCount = RoomMaxCount
       \/ checkStart + CheckRoomCount < RoomMaxCount
  BY <1>1, <1>7
<1> QED BY <1>9, <1>10, <1>11
-----------------------------------------------------------------------------
(* The invariant holds when the server has started.                        *)
LEMMA InitInv == Init => RoomsInv
<1> SUFFICES ASSUME Init PROVE RoomsInv
  OBVIOUS
<1>1. EmptyRoom \in RoomType
  BY DEF EmptyRoom, RoomType, RoomState, NoGame, GameType, Colors, Black, White
<1>2. RoomOK(EmptyRoom)
  BY <1>1 DEF RoomOK, EmptyRoom, IsGameStarted
<1>3. /\ RoomMaxCount \in Nat \ {0} /\ CheckRoomCount \in Nat \ {0}
  BY RoomManagerAssumption
<1>4. TypeOK
  BY <1>1, <1>3 DEF Init, TypeOK, Nothing, Rooms
<1>5. \A r \in Rooms : rooms[r] = EmptyRoom
  BY DEF Init
<1>6. RoomNumberIsMember
  <2>1. NoRoom \notin Rooms
    BY <1>3 DEF NoRoom, Rooms
  <2> QED BY <1>5, <2>1 DEF Init, RoomNumberIsMember, EmptyRoom
<1>7. \E k \in 0 .. RoomMaxCount : checkStart = k * CheckRoomCount
  <2>1. 0 = 0 * CheckRoomCount /\ 0 \in 0 .. RoomMaxCount
    BY <1>3
  <2> QED BY <2>1 DEF Init
<1> QED BY <1>2, <1>4, <1>5, <1>6, <1>7 DEF RoomsInv

(* A handler that works on room r, and at most moves its own session. *)
LEMMA OneRoomChanged ==
    ASSUME RoomsInv, NEW r \in Rooms, NEW new, RoomOK(new),
           rooms' = [rooms EXCEPT ![r] = new],
           checkStart' = checkStart,
           roomNumber' \in [Sessions -> Rooms \cup {NoRoom}],
           online' \subseteq Sessions, loaded' \subseteq Sessions,
           out'.saved \in Seq(Sessions), out'.kicked \subseteq Sessions,
           out'.freed \in BOOLEAN, out'.threw \in BOOLEAN,
           \A s \in Sessions : roomNumber'[s] \in Rooms =>
              IF roomNumber'[s] = r THEN s \in Members(new)
              ELSE roomNumber'[s] = roomNumber[s]
    PROVE  RoomsInv'
<1>1. rooms \in [Rooms -> RoomType] /\ new \in RoomType
  BY DEF RoomsInv, TypeOK, RoomOK
<1>2. rooms' \in [Rooms -> RoomType]
  BY <1>1
<1>3. TypeOK'
  BY <1>2 DEF RoomsInv, TypeOK
<1>4. \A q \in Rooms : RoomOK(rooms'[q])
  BY <1>1 DEF RoomsInv
<1>5. \A s \in Sessions : roomNumber'[s] \in Rooms => s \in Members(rooms'[roomNumber'[s]])
  BY <1>1 DEF RoomsInv, RoomNumberIsMember
<1>6. RoomNumberIsMember'
  BY <1>4, <1>5 DEF RoomNumberIsMember, RoomOK
<1>7. (\E k \in 0 .. RoomMaxCount : checkStart = k * CheckRoomCount)'
  BY DEF RoomsInv
<1> QED BY <1>3, <1>4, <1>6, <1>7 DEF RoomsInv

(* The number that stands for no room is not the number of a room.         *)
LEMMA NoRoomIsNoRoom == NoRoom \notin Rooms
BY RoomManagerAssumption DEF NoRoom, Rooms

(* An empty output is well typed.                                          *)
LEMMA NothingType ==
    /\ Nothing.saved \in Seq(Sessions) /\ Nothing.kicked \subseteq Sessions
    /\ Nothing.freed \in BOOLEAN /\ Nothing.threw \in BOOLEAN
BY DEF Nothing

(* What a well-typed effect posts is well typed.                           *)
LEMMA PostedType ==
    ASSUME NEW e \in EffectType
    PROVE  /\ Posted(e).saved \in Seq(Sessions) /\ Posted(e).kicked \subseteq Sessions
           /\ Posted(e).freed \in BOOLEAN /\ Posted(e).threw \in BOOLEAN
BY DEF Posted, EffectType

(* Entering a room preserves the invariant, refused or not.                *)
LEMMA EnterInv ==
    ASSUME RoomsInv, NEW s \in Sessions, NEW r \in Rooms, RequestRoomEnter(s, r)
    PROVE  RoomsInv'
<1> DEFINE new == AddUser(rooms[r], UserOf[s], s)
<1>1. RoomOK(rooms[r])
  BY DEF RoomsInv
<1>2. /\ RoomOK(new) /\ Members(rooms[r]) \subseteq Members(new)
      /\ UserOf[s] \notin UserIDs(rooms[r]) => s \in Members(new)
  BY <1>1, AddUserOK
<1>3. rooms' = [rooms EXCEPT ![r] = new]
  BY DEF RequestRoomEnter
<1> HIDE DEF new
<1>4. roomNumber \in [Sessions -> Rooms \cup {NoRoom}]
  BY DEF RoomsInv, TypeOK
<1>5. \A t \in Sessions : roomNumber[t] = r => t \in Members(new)
  BY <1>2 DEF RoomsInv, RoomNumberIsMember
<1>6. \A t \in Sessions : roomNumber'[t] \in Rooms =>
         IF roomNumber'[t] = r THEN t \in Members(new)
         ELSE roomNumber'[t] = roomNumber[t]
  BY <1>2, <1>4, <1>5 DEF RequestRoomEnter
<1>7. roomNumber' \in [Sessions -> Rooms \cup {NoRoom}]
  BY <1>4 DEF RequestRoomEnter
<1>8. checkStart' = checkStart /\ online' \subseteq Sessions /\ loaded' \subseteq Sessions
  BY DEF RequestRoomEnter, RoomsInv, TypeOK
<1>9. out' = Nothing
  BY DEF RequestRoomEnter
<1> QED BY <1>2, <1>3, <1>6, <1>7, <1>8, <1>9, NothingType, OneRoomChanged

(* Leaving one's room preserves the invariant, with or without an          *)
(* exception.                                                              *)
LEMMA LeaveInv ==
    ASSUME RoomsInv, NEW s \in Sessions, roomNumber[s] \in Rooms, LeaveRoom(s),
           checkStart' = checkStart, online' \subseteq Sessions, loaded' = loaded
    PROVE  RoomsInv'
<1> DEFINE r == roomNumber[s]
           e == LeaveRoomUser(rooms[r], s, loaded)
<1>1. RoomOK(rooms[r]) /\ s \in Members(rooms[r])
  BY DEF RoomsInv, RoomNumberIsMember
<1>2. /\ e \in EffectType /\ RoomOK(e.room)
      /\ Members(e.room) = IF e.threw THEN Members(rooms[r]) ELSE Members(rooms[r]) \ {s}
  BY <1>1, LeaveRoomUserOK
<1>3. /\ rooms' = [rooms EXCEPT ![r] = e.room]
      /\ roomNumber' = [roomNumber EXCEPT ![s] = IF e.threw THEN r ELSE NoRoom]
      /\ out' = Posted(e)
  BY DEF LeaveRoom
<1> HIDE DEF e
<1>4. roomNumber \in [Sessions -> Rooms \cup {NoRoom}]
  BY DEF RoomsInv, TypeOK
<1>5. \A t \in Sessions : roomNumber[t] = r => t \in Members(rooms[r])
  BY DEF RoomsInv, RoomNumberIsMember
<1>6. \A t \in Sessions : roomNumber'[t] \in Rooms =>
         IF roomNumber'[t] = r THEN t \in Members(e.room)
         ELSE roomNumber'[t] = roomNumber[t]
  BY <1>2, <1>3, <1>4, <1>5, NoRoomIsNoRoom
<1>7. roomNumber' \in [Sessions -> Rooms \cup {NoRoom}]
  BY <1>3, <1>4
<1>8. loaded' \subseteq Sessions
  BY DEF RoomsInv, TypeOK
<1> QED BY <1>2, <1>3, <1>6, <1>7, <1>8, PostedType, OneRoomChanged

(* Handlers that move nobody. *)
LEMMA SameMembersInv ==
    ASSUME RoomsInv, NEW r \in Rooms, NEW new, RoomOK(new),
           Members(new) = Members(rooms[r]),
           rooms' = [rooms EXCEPT ![r] = new],
           UNCHANGED <<checkStart, roomNumber, online, loaded>>,
           out'.saved \in Seq(Sessions), out'.kicked \subseteq Sessions,
           out'.freed \in BOOLEAN, out'.threw \in BOOLEAN
    PROVE  RoomsInv'
<1>1. \A t \in Sessions : roomNumber'[t] \in Rooms =>
         IF roomNumber'[t] = r THEN t \in Members(new)
         ELSE roomNumber'[t] = roomNumber[t]
  BY DEF RoomsInv, RoomNumberIsMember
<1>2. /\ roomNumber' \in [Sessions -> Rooms \cup {NoRoom}]
      /\ online' \subseteq Sessions /\ loaded' \subseteq Sessions
  BY DEF RoomsInv, TypeOK
<1> QED BY <1>1, <1>2, OneRoomChanged

(* Getting ready, and the game that may start with it, preserve the        *)
(* invariant.                                                              *)
LEMMA ReadyInv ==
    ASSUME RoomsInv, NEW s \in Sessions, RequestGameReady(s)
    PROVE  RoomsInv'
<1> DEFINE r       == roomNumber[s]
           toggled == ToggleReady(rooms[r], s)
<1>1. r \in Rooms /\ s \in Members(rooms[r]) /\ RoomOK(rooms[r])
  BY DEF RequestGameReady, InOwnRoom, RoomsInv
<1>2. RoomOK(toggled) /\ Members(toggled) = Members(rooms[r])
  BY <1>1, ToggleReadyOK
<1>3. PICK t \in DOMAIN toggled.userList :
         rooms' = [rooms EXCEPT ![r] =
                     IF IsAllUserReady(toggled) /\ ~IsGameStarted(toggled)
                     THEN StartGame(toggled, t) ELSE toggled]
  BY DEF RequestGameReady
<1>4. /\ UNCHANGED <<checkStart, roomNumber, online, loaded>>
      /\ out' = Nothing
  BY DEF RequestGameReady
<1> HIDE DEF toggled
<1>5. CASE IsAllUserReady(toggled) /\ ~IsGameStarted(toggled)
  <2>1. RoomOK(StartGame(toggled, t)) /\ Members(StartGame(toggled, t)) = Members(rooms[r])
    BY <1>2, <1>5, StartGameOK
  <2>2. rooms' = [rooms EXCEPT ![r] = StartGame(toggled, t)]
    BY <1>3, <1>5
  <2> QED BY <1>1, <1>4, <2>1, <2>2, NothingType, SameMembersInv
<1>6. CASE ~(IsAllUserReady(toggled) /\ ~IsGameStarted(toggled))
  <2>1. rooms' = [rooms EXCEPT ![r] = toggled]
    BY <1>3, <1>6
  <2> QED BY <1>1, <1>2, <1>4, <2>1, NothingType, SameMembersInv
<1> QED BY <1>5, <1>6

(* A stone preserves the invariant.                                        *)
LEMMA PutStoneInv ==
    ASSUME RoomsInv, NEW s \in Sessions, NEW outcome, RequestPutStone(s, outcome)
    PROVE  RoomsInv'
<1> DEFINE r == roomNumber[s]
           e == PutStone(rooms[r], s, outcome, loaded)
<1>1. r \in Rooms /\ RoomOK(rooms[r])
  BY DEF RequestPutStone, InOwnRoom, RoomsInv
<1>2. e \in EffectType /\ RoomOK(e.room) /\ Members(e.room) = Members(rooms[r])
  BY <1>1, PutStoneOK
<1>3. /\ rooms' = [rooms EXCEPT ![r] = e.room]
      /\ out' = Posted(e)
      /\ UNCHANGED <<checkStart, roomNumber, online, loaded>>
  BY DEF RequestPutStone
<1> HIDE DEF e
<1> QED BY <1>1, <1>2, <1>3, PostedType, SameMembersInv

(* The turn clock preserves the invariant.                                 *)
LEMMA ClockInv ==
    ASSUME RoomsInv, NEW r \in Rooms, TurnClockRunsOut(r)
    PROVE  RoomsInv'
<1> DEFINE new == [rooms[r] EXCEPT !.turnOut = TRUE]
<1>1. RoomOK(rooms[r]) /\ rooms[r] \in RoomType
  BY DEF RoomsInv, RoomOK
<1>2. /\ new \in RoomType /\ new.userList = rooms[r].userList
      /\ new.state = rooms[r].state /\ new.game = rooms[r].game
  BY <1>1 DEF RoomType
<1>3. rooms' = [rooms EXCEPT ![r] = new]
  BY DEF TurnClockRunsOut
<1> HIDE DEF new
<1>4. Members(new) = Members(rooms[r])
  BY <1>2 DEF Members
<1>5. RoomOK(new)
  BY <1>1, <1>2, <1>4 DEF RoomOK, Live, IsGameStarted
<1>6. UNCHANGED <<checkStart, roomNumber, online, loaded>> /\ out' = Nothing
  BY DEF TurnClockRunsOut
<1> QED BY <1>3, <1>4, <1>5, <1>6, NothingType, SameMembersInv

(* A tick of the room check preserves the invariant.                       *)
LEMMA RoomCheckInv ==
    ASSUME RoomsInv, NEW timeUp, RequestInRoomCheck(timeUp)
    PROVE  RoomsInv'
<1> DEFINE checked(r) == CheckRoomState(rooms[r], r \in timeUp)
           busy == {r \in Window : rooms[r].userList # <<>>}
<1>1. /\ Window \subseteq Rooms
      /\ checkStart' \in Rooms
      /\ \E k \in 0 .. RoomMaxCount : checkStart' = k * CheckRoomCount
  BY WindowFacts DEF RequestInRoomCheck, RoomsInv
<1>2. \A r \in Rooms : /\ checked(r) \in EffectType /\ RoomOK(checked(r).room)
                       /\ Members(checked(r).room) = Members(rooms[r])
  <2> SUFFICES ASSUME NEW r \in Rooms
               PROVE  /\ checked(r) \in EffectType /\ RoomOK(checked(r).room)
                      /\ Members(checked(r).room) = Members(rooms[r])
    OBVIOUS
  <2>1. RoomOK(rooms[r]) /\ (r \in timeUp) \in BOOLEAN
    BY DEF RoomsInv
  <2> QED BY <2>1, CheckRoomStateOK
<1>3. /\ rooms' = [r \in Rooms |-> IF r \in busy THEN checked(r).room ELSE rooms[r]]
      /\ out' = [Nothing EXCEPT !.kicked = UNION {checked(r).kicked : r \in busy}]
      /\ UNCHANGED <<roomNumber, online, loaded>>
  BY DEF RequestInRoomCheck
<1>4. busy \subseteq Rooms
  BY <1>1
<1> HIDE DEF checked, busy
<1>5. \A r \in Rooms : RoomOK(rooms'[r]) /\ Members(rooms'[r]) = Members(rooms[r])
  BY <1>2, <1>3 DEF RoomsInv
<1>6. rooms' \in [Rooms -> RoomType]
  BY <1>3, <1>5 DEF RoomOK
<1>7. UNION {checked(r).kicked : r \in busy} \subseteq Sessions
  BY <1>2, <1>4 DEF EffectType
<1>8. /\ out'.saved \in Seq(Sessions) /\ out'.kicked \subseteq Sessions
      /\ out'.freed \in BOOLEAN /\ out'.threw \in BOOLEAN
  BY <1>3, <1>7 DEF Nothing
<1>9. TypeOK'
  BY <1>1, <1>3, <1>6, <1>8 DEF RoomsInv, TypeOK
<1>10. RoomNumberIsMember'
  BY <1>3, <1>5 DEF RoomsInv, RoomNumberIsMember, RoomOK
<1> QED BY <1>1, <1>5, <1>9, <1>10 DEF RoomsInv

(* Loaded game data preserve the invariant.                                *)
LEMMA LoadInv ==
    ASSUME RoomsInv, NEW s \in Sessions, InResponseDbLoadUserGameData(s)
    PROVE  RoomsInv'
BY NothingType DEF InResponseDbLoadUserGameData, RoomsInv, TypeOK, RoomNumberIsMember

(* A closed session preserves the invariant.                               *)
LEMMA DisconnectInv ==
    ASSUME RoomsInv, NEW s \in Sessions, InNotifyDisConnectClient(s)
    PROVE  RoomsInv'
<1>1. online' \subseteq Sessions /\ UNCHANGED <<checkStart, loaded>>
  BY DEF InNotifyDisConnectClient, RoomsInv, TypeOK
<1>2. CASE roomNumber[s] \in Rooms
  BY <1>1, <1>2, LeaveInv DEF InNotifyDisConnectClient
<1>3. CASE roomNumber[s] \notin Rooms
  <2>1. out' = Nothing /\ UNCHANGED <<rooms, roomNumber>>
    BY <1>3 DEF InNotifyDisConnectClient
  <2> QED BY <1>1, <2>1, NothingType DEF RoomsInv, TypeOK, RoomNumberIsMember
<1> QED BY <1>2, <1>3

(* A step that changes nothing preserves the invariant.                    *)
LEMMA StutterInv == RoomsInv /\ UNCHANGED vars => RoomsInv'
BY DEF vars, RoomsInv, TypeOK, RoomNumberIsMember, Window

(* Every handler preserves the invariant. *)
LEMMA NextInv == RoomsInv /\ [Next]_vars => RoomsInv'
<1> SUFFICES ASSUME RoomsInv, [Next]_vars PROVE RoomsInv'
  OBVIOUS
<1>1. ASSUME NEW s \in Sessions, SessionStep(s) PROVE RoomsInv'
  <2>1. ASSUME NEW r \in Rooms, RequestRoomEnter(s, r) PROVE RoomsInv'
    BY <2>1, EnterInv
  <2>2. CASE RequestRoomLeave(s)
    <3>1. /\ roomNumber[s] \in Rooms /\ LeaveRoom(s)
          /\ UNCHANGED <<checkStart, online, loaded>>
      BY <2>2 DEF RequestRoomLeave
    <3>2. online' \subseteq Sessions
      BY <3>1 DEF RoomsInv, TypeOK
    <3> QED BY <3>1, <3>2, LeaveInv
  <2>3. CASE InNotifyDisConnectClient(s)
    BY <2>3, DisconnectInv
  <2>4. CASE RequestGameReady(s)
    BY <2>4, ReadyInv
  <2>5. ASSUME NEW o \in PutStoneOutcome, RequestPutStone(s, o) PROVE RoomsInv'
    BY <2>5, PutStoneInv
  <2>6. CASE InResponseDbLoadUserGameData(s)
    BY <2>6, LoadInv
  <2>7. Reach[s] \subseteq Rooms
    BY RoomManagerAssumption DEF Rooms
  <2> QED BY <1>1, <2>1, <2>2, <2>3, <2>4, <2>5, <2>6, <2>7 DEF SessionStep
<1>2. CASE RoomCheck
  BY <1>2, RoomCheckInv DEF RoomCheck
<1>3. ASSUME NEW r \in Rooms, TurnClockRunsOut(r) PROVE RoomsInv'
  BY <1>3, ClockInv
<1>4. CASE UNCHANGED vars
  BY <1>4, StutterInv
<1> QED BY <1>1, <1>2, <1>3, <1>4 DEF Next

(* RoomsInv holds in every reachable state of the room handlers. *)
THEOREM RoomsInvariant == Spec => []RoomsInv
BY InitInv, NextInv, PTL DEF Spec

(* Type correctness. *)
THEOREM TypeCorrect == Spec => []TypeOK
<1>1. RoomsInv => TypeOK
  BY DEF RoomsInv
<1> QED BY <1>1, RoomsInvariant, PTL

(* A room that counts as playing always has a live game between members of *)
(* the room, however many rooms, sessions and seats there are.             *)
THEOREM StartedGamesAreLive == Spec => []StartedGameIsLive
<1>1. RoomsInv => StartedGameIsLive
  BY DEF RoomsInv, RoomOK, StartedGameIsLive
<1> QED BY <1>1, RoomsInvariant, PTL

(* An empty room can always be handed out again. *)
THEOREM EmptyRoomsAreIdle == Spec => []EmptyRoomIsIdle
<1>1. RoomsInv => EmptyRoomIsIdle
  BY DEF RoomsInv, RoomOK, EmptyRoomIsIdle
<1> QED BY <1>1, RoomsInvariant, PTL

(* Leaving one's own room always finds the member to take out. *)
THEOREM RoomNumbersAreMembers == Spec => []RoomNumberIsMember
<1>1. RoomsInv => RoomNumberIsMember
  BY DEF RoomsInv
<1> QED BY <1>1, RoomsInvariant, PTL
-----------------------------------------------------------------------------
(* Part 2: every game that stops being played has had its verdict.         *)

(* What GameEndsWithVerdict asks, of one room and the effect of a method.  *)
Verdict(room, e, L) ==
    /\ e.room.game.isGameEnd
    /\ \/ Len(e.saved) = 2
          /\ {e.saved[1], e.saved[2]} \subseteq PlayersOf(room.game)
       \/ Members(room) \subseteq e.kicked
       \/ e.threw /\ ~(PlayersOf(room.game) \subseteq L)

(* EndGame gives a running game a verdict, whatever the colour.            *)
LEMMA EndGameVerdict ==
    ASSUME NEW room \in RoomType, NEW c \in StoneColor, NEW L,
           ~room.game.isGameEnd, Len(room.game.players) >= 2
    PROVE  Verdict(room, EndGame(room, c, L), L) /\ ~IsGameStarted(EndGame(room, c, L).room)
<1> DEFINE winner == GetSessionByStoneColor(room.game, c)
           loser  == GetSessionByStoneColor(room.game, Opposite(c))
           ended  == Ended(room)
           e      == EndGame(room, c, L)
<1>1. {winner, loser} \subseteq PlayersOf(room.game)
  <2>1. room.game.players \in Seq(Sessions)
    BY DEF RoomType, GameType
  <2>2. 1 \in DOMAIN room.game.players /\ 2 \in DOMAIN room.game.players
    BY <2>1
  <2> QED BY <2>2 DEF GetSessionByStoneColor, PlayersOf
<1>2. ended.game.isGameEnd /\ ~IsGameStarted(ended)
  BY DEF Ended, RoomType, NoGame, IsGameStarted
<1>3. e = IF c = None THEN [Quiet(ended) EXCEPT !.kicked = Members(room)]
          ELSE IF {winner, loser} \subseteq L
               THEN [Quiet(ended) EXCEPT !.saved = <<winner, loser>>]
               ELSE Throw(ended)
  BY DEF EndGame
<1> HIDE DEF winner, loser, ended, e
<1>4. CASE c = None
  <2>1. e.room = ended /\ e.kicked = Members(room)
    BY <1>3, <1>4 DEF Quiet
  <2> QED BY <1>2, <2>1 DEF Verdict, e
<1>5. CASE c # None /\ {winner, loser} \subseteq L
  <2>1. e.room = ended /\ e.saved = <<winner, loser>>
    BY <1>3, <1>5 DEF Quiet
  <2>2. Len(e.saved) = 2 /\ e.saved[1] = winner /\ e.saved[2] = loser
    BY <2>1
  <2> QED BY <1>1, <1>2, <2>1, <2>2 DEF Verdict, e
<1>6. CASE c # None /\ ~({winner, loser} \subseteq L)
  <2>1. e.room = ended /\ e.threw
    BY <1>3, <1>6 DEF Throw, Quiet
  <2> QED BY <1>1, <1>2, <1>6, <2>1 DEF Verdict, e
<1> QED BY <1>4, <1>5, <1>6
-----------------------------------------------------------------------------
(* A member leaves a running game: it goes on, because the handler threw   *)
(* before it ended anything, or it has had its verdict.                    *)
LEMMA ForfeitVerdict ==
    ASSUME NEW room, RoomOK(room), IsGameStarted(room), NEW s, NEW L
    PROVE  LET e == Forfeit(room, s, L) IN
           (IsGameStarted(e.room) /\ e.threw) \/ Verdict(room, e, L)
<1> DEFINE first == FirstOther(room, s)
           color == GetUserStoneColor(room.game, first)
           e     == EndGame(room, color, L)
           bad   == ~(Members(room) \ {s} \subseteq PlayersOf(room.game))
<1>1. color \in StoneColor
  BY DEF GetUserStoneColor, StoneColor, Colors
<1>2. Verdict(room, e, L) /\ e \in EffectType
  BY <1>1, StartedRoom, EndGameVerdict, EndGameEffect
<1>3. CASE first \in PlayersOf(room.game)
  <2> HIDE DEF e, color, first
  <2>1. Forfeit(room, s, L) = [e EXCEPT !.threw = @ \/ bad]
    BY <1>3 DEF Forfeit, e, color, first
  <2> HIDE DEF bad
  <2>2. /\ Forfeit(room, s, L).room = e.room /\ Forfeit(room, s, L).saved = e.saved
        /\ Forfeit(room, s, L).kicked = e.kicked
        /\ e.threw => Forfeit(room, s, L).threw
    BY <1>2, <2>1 DEF EffectType
  <2> QED BY <1>2, <2>2 DEF Verdict
<1>4. CASE first \notin PlayersOf(room.game)
  <2>1. Forfeit(room, s, L) = Throw(room)
    BY <1>4 DEF Forfeit
  <2>2. Throw(room).room = room /\ Throw(room).threw
    BY DEF Throw, Quiet
  <2> QED BY <2>1, <2>2
<1> QED BY <1>3, <1>4

(* Whoever leaves a running game, the game goes on or has had its verdict. *)
LEMMA LeaveVerdict ==
    ASSUME NEW room, RoomOK(room), IsGameStarted(room), NEW s \in Members(room), NEW L,
           ~IsGameStarted(LeaveRoomUser(room, s, L).room)
    PROVE  Verdict(room, LeaveRoomUser(room, s, L), L)
<1> DEFINE e0    == Forfeit(room, s, L)
           after == RemoveUser(e0.room, s)
           e     == LeaveRoomUser(room, s, L)
<1>1. Members(room) # {s}
  BY NotAlone
<1>2. e0 \in EffectType
  BY <1>1, ForfeitOK
<1>3. e = IF e0.threw THEN e0
          ELSE [e0 EXCEPT !.room = after, !.freed = (after.userList = <<>>)]
  BY <1>1 DEF LeaveRoomUser
<1>4. (IsGameStarted(e0.room) /\ e0.threw) \/ Verdict(room, e0, L)
  BY ForfeitVerdict
<1>5. after.game = e0.room.game
  BY <1>2 DEF RemoveUser, EffectType, RoomType
<1> HIDE DEF e0, after
<1>6. CASE e0.threw
  BY <1>3, <1>4, <1>6
<1>7. CASE ~e0.threw
  <2>1. e.room = after /\ e.saved = e0.saved /\ e.kicked = e0.kicked /\ e.threw = e0.threw
    BY <1>2, <1>3, <1>7 DEF EffectType
  <2> QED BY <1>4, <1>5, <1>7, <2>1 DEF Verdict
<1> QED BY <1>6, <1>7

(* A stone ends a game only with a five, and then with a verdict.          *)
LEMMA PutStoneVerdict ==
    ASSUME NEW room, RoomOK(room), IsGameStarted(room), NEW s, NEW outcome, NEW L,
           ~IsGameStarted(PutStone(room, s, outcome, L).room)
    PROVE  Verdict(room, PutStone(room, s, outcome, L), L)
<1> DEFINE g      == room.game
           placed == [room EXCEPT !.game = PlaceStone(g), !.turnOut = FALSE]
           e      == PutStone(room, s, outcome, L)
<1>1. /\ room \in RoomType /\ g \in GameType
      /\ ~g.isGameEnd /\ Len(g.players) >= 2
  BY StartedRoom
<1>2. /\ PlaceStone(g) \in GameType /\ PlaceStone(g).players = g.players
      /\ PlaceStone(g).isGameEnd = g.isGameEnd
  BY <1>1, TurnsOK
<1>3. /\ placed \in RoomType /\ placed.game = PlaceStone(g)
      /\ placed.userList = room.userList /\ placed.state = room.state
  BY <1>1, <1>2 DEF RoomType
<1>4. /\ Throw(room).room = room /\ Quiet(room).room = room
      /\ Quiet(placed).room = placed
  BY DEF Throw, Quiet
<1>5. \/ e = Throw(room) \/ e = Quiet(room) \/ e = Quiet(placed)
      \/ e = EndGame(placed, g.turn, L)
  BY DEF PutStone
<1>6. g.turn \in StoneColor
  BY <1>1 DEF GameType, StoneColor
<1> HIDE DEF placed, e
<1>7. e = EndGame(placed, g.turn, L)
  BY <1>3, <1>4, <1>5 DEF IsGameStarted, e
<1>8. Verdict(placed, e, L)
  BY <1>1, <1>2, <1>3, <1>6, <1>7, EndGameVerdict
<1>9. PlayersOf(placed.game) = PlayersOf(g) /\ Members(placed) = Members(room)
  BY <1>2, <1>3 DEF PlayersOf, Members
<1> QED BY <1>8, <1>9 DEF Verdict, e

(* The check ends a game only by telling every member to disconnect.       *)
LEMMA CheckVerdict ==
    ASSUME NEW room, RoomOK(room), IsGameStarted(room), NEW timeUp \in BOOLEAN,
           ~IsGameStarted(CheckRoomState(room, timeUp).room)
    PROVE  LET e == CheckRoomState(room, timeUp) IN
           e.room.game.isGameEnd /\ Members(room) \subseteq e.kicked
<1> DEFINE first  == CheckGameStartTime(room, timeUp)
           second == CheckTurnChangedTime(first.room)
           e      == CheckRoomState(room, timeUp)
           g      == room.game
           turned == [room EXCEPT !.game = TurnOver(@), !.turnOut = FALSE]
<1>1. /\ room \in RoomType /\ g \in GameType
      /\ ~g.isGameEnd /\ Len(g.players) >= 2
  BY StartedRoom
<1>2. e = [second EXCEPT !.kicked = @ \cup first.kicked]
  BY DEF CheckRoomState
<1>3. CASE timeUp
  <2>1. /\ first = [Quiet(Ended(room)) EXCEPT !.kicked = Members(room)]
    BY <1>1, <1>3 DEF CheckGameStartTime, EndGame
  <2>2. first.room = Ended(room) /\ first.kicked = Members(room)
    BY <2>1 DEF Quiet
  <2>3. Ended(room).game.isGameEnd /\ ~Ended(room).turnOut
    BY <1>1 DEF Ended, RoomType, NoGame
  <2>4. second = Quiet(Ended(room))
    BY <2>2, <2>3 DEF CheckTurnChangedTime
  <2>5. e.room = Ended(room) /\ e.kicked = {} \cup Members(room)
    BY <1>2, <2>2, <2>4 DEF Quiet
  <2> QED BY <2>3, <2>5
<1>4. CASE ~timeUp
  <2>1. first = Quiet(room) /\ first.room = room /\ first.kicked = {}
    BY <1>4 DEF CheckGameStartTime, Quiet
  <2>2. room.turnOut
    <3>1. ~room.turnOut => second = Quiet(room)
      BY <2>1 DEF CheckTurnChangedTime
    <3> QED BY <1>2, <2>1, <3>1 DEF Quiet
  <2>3. second = IF turned.game.turnOverCnt >= MaxTurnOverCnt
                 THEN EndGame(turned, None, {}) ELSE Quiet(turned)
    BY <2>1, <2>2 DEF CheckTurnChangedTime
  <2>4. /\ TurnOver(g) \in GameType /\ TurnOver(g).isGameEnd = g.isGameEnd
    BY <1>1, TurnsOK
  <2>5. /\ turned \in RoomType /\ turned.game = TurnOver(g)
        /\ turned.userList = room.userList /\ turned.state = room.state
    BY <1>1, <2>4 DEF RoomType
  <2> HIDE DEF turned, second, first
  <2>6. second = EndGame(turned, None, {})
    <3>1. second = Quiet(turned) => e.room = turned
      BY <1>2 DEF Quiet
    <3>2. IsGameStarted(turned)
      BY <2>5 DEF IsGameStarted
    <3> QED BY <2>3, <3>1, <3>2
  <2>7. second = [Quiet(Ended(turned)) EXCEPT !.kicked = Members(turned)]
    BY <1>1, <2>4, <2>5, <2>6 DEF EndGame
  <2>8. second.room = Ended(turned) /\ second.kicked = Members(turned)
    BY <2>7 DEF Quiet
  <2>9. e.room = Ended(turned) /\ Members(turned) \subseteq e.kicked
    BY <1>2, <2>7, <2>8 DEF Quiet
  <2>10. Ended(turned).game.isGameEnd
    BY <2>5 DEF Ended, RoomType, NoGame
  <2>11. Members(turned) = Members(room)
    BY <2>5 DEF Members
  <2> QED BY <2>9, <2>10, <2>11
<1> QED BY <1>3, <1>4
-----------------------------------------------------------------------------
(* GameEndsWithVerdict for the room that a step works on.                  *)
VerdictIn(r) ==
    IsGameStarted(rooms[r]) /\ ~IsGameStarted(rooms'[r]) =>
       /\ rooms'[r].game.isGameEnd
       /\ \/ Len(out'.saved) = 2
             /\ {out'.saved[1], out'.saved[2]} \subseteq PlayersOf(rooms[r].game)
          \/ Members(rooms[r]) \subseteq out'.kicked
          \/ out'.threw /\ ~(PlayersOf(rooms[r].game) \subseteq loaded)

(* A handler that replaces one room and posts what its method posted.      *)
LEMMA OneRoomVerdict ==
    ASSUME RoomsInv, NEW q \in Rooms, NEW e,
           rooms' = [rooms EXCEPT ![q] = e.room], out' = Posted(e),
           IsGameStarted(rooms[q]) /\ ~IsGameStarted(e.room) => Verdict(rooms[q], e, loaded),
           NEW r \in Rooms
    PROVE  VerdictIn(r)
<1>1. rooms \in [Rooms -> RoomType]
  BY DEF RoomsInv, TypeOK
<1>2. CASE r # q
  BY <1>1, <1>2 DEF VerdictIn
<1>3. CASE r = q
  <2>1. rooms'[r] = e.room
    BY <1>1, <1>3
  <2>2. /\ out'.saved = e.saved /\ out'.kicked = e.kicked /\ out'.threw = e.threw
    BY DEF Posted
  <2> QED BY <1>3, <2>1, <2>2 DEF VerdictIn, Verdict
<1> QED BY <1>2, <1>3

(* A handler after which the same rooms play as before.                    *)
LEMMA NoneStops ==
    ASSUME RoomsInv, NEW q \in Rooms, NEW new,
           rooms' = [rooms EXCEPT ![q] = new],
           IsGameStarted(rooms[q]) => IsGameStarted(new),
           NEW r \in Rooms
    PROVE  VerdictIn(r)
<1>1. rooms \in [Rooms -> RoomType]
  BY DEF RoomsInv, TypeOK
<1> QED BY <1>1 DEF VerdictIn

(* Leaving, by request or because the link is down.                        *)
LEMMA LeaveRoomVerdict ==
    ASSUME RoomsInv, NEW s \in Sessions, roomNumber[s] \in Rooms, LeaveRoom(s),
           NEW r \in Rooms
    PROVE  VerdictIn(r)
<1> DEFINE q == roomNumber[s]
           e == LeaveRoomUser(rooms[q], s, loaded)
<1>1. RoomOK(rooms[q]) /\ s \in Members(rooms[q])
  BY DEF RoomsInv, RoomNumberIsMember
<1>2. rooms' = [rooms EXCEPT ![q] = e.room] /\ out' = Posted(e)
  BY DEF LeaveRoom
<1>3. IsGameStarted(rooms[q]) /\ ~IsGameStarted(e.room) => Verdict(rooms[q], e, loaded)
  BY <1>1, LeaveVerdict
<1> HIDE DEF e, q
<1> QED BY <1>2, <1>3, OneRoomVerdict DEF q

(* Getting ready may start a game and ends none.                           *)
LEMMA ReadyVerdict ==
    ASSUME RoomsInv, NEW s \in Sessions, RequestGameReady(s), NEW r \in Rooms
    PROVE  VerdictIn(r)
<1> DEFINE q       == roomNumber[s]
           toggled == ToggleReady(rooms[q], s)
<1>1. q \in Rooms /\ rooms[q] \in RoomType
  BY DEF RequestGameReady, InOwnRoom, RoomsInv, RoomOK
<1>2. toggled.state = rooms[q].state
  BY <1>1 DEF ToggleReady, RoomType
<1>3. PICK t \in DOMAIN toggled.userList :
         rooms' = [rooms EXCEPT ![q] =
                     IF IsAllUserReady(toggled) /\ ~IsGameStarted(toggled)
                     THEN StartGame(toggled, t) ELSE toggled]
  BY DEF RequestGameReady
<1> HIDE DEF toggled, q
<1>4. CASE IsAllUserReady(toggled) /\ ~IsGameStarted(toggled)
  <2>1. rooms' = [rooms EXCEPT ![q] = StartGame(toggled, t)]
    BY <1>3, <1>4
  <2> QED BY <1>1, <1>2, <1>4, <2>1, NoneStops DEF IsGameStarted
<1>5. CASE ~(IsAllUserReady(toggled) /\ ~IsGameStarted(toggled))
  <2>1. rooms' = [rooms EXCEPT ![q] = toggled]
    BY <1>3, <1>5
  <2> QED BY <1>1, <1>2, <2>1, NoneStops DEF IsGameStarted
<1> QED BY <1>4, <1>5

(* A tick of the check, for every room of the window. *)
LEMMA CheckStepVerdict ==
    ASSUME RoomsInv, NEW timeUp, RequestInRoomCheck(timeUp), NEW r \in Rooms
    PROVE  VerdictIn(r)
<1> DEFINE checked(x) == CheckRoomState(rooms[x], x \in timeUp)
           busy == {x \in Window : rooms[x].userList # <<>>}
<1>1. /\ rooms'[r] = IF r \in busy THEN checked(r).room ELSE rooms[r]
      /\ out'.kicked = UNION {checked(x).kicked : x \in busy}
  BY DEF RequestInRoomCheck, Nothing
<1>2. RoomOK(rooms[r]) /\ (r \in timeUp) \in BOOLEAN
  BY DEF RoomsInv
<1>3. IsGameStarted(rooms[r]) /\ ~IsGameStarted(checked(r).room) =>
         checked(r).room.game.isGameEnd /\ Members(rooms[r]) \subseteq checked(r).kicked
  BY <1>2, CheckVerdict
<1>4. r \in busy => checked(r).kicked \subseteq out'.kicked
  BY <1>1
<1> HIDE DEF checked, busy
<1> QED BY <1>1, <1>3, <1>4 DEF VerdictIn

(* Every step gives a verdict to every game that stops in it.              *)
LEMMA StepVerdict ==
    ASSUME RoomsInv, [Next]_vars, NEW r \in Rooms
    PROVE  VerdictIn(r)
<1>1. ASSUME NEW s \in Sessions, SessionStep(s) PROVE VerdictIn(r)
  <2>1. ASSUME NEW q \in Rooms, RequestRoomEnter(s, q) PROVE VerdictIn(r)
    <3>1. rooms' = [rooms EXCEPT ![q] = AddUser(rooms[q], UserOf[s], s)]
      BY <2>1 DEF RequestRoomEnter
    <3>2. rooms[q] \in RoomType
      BY DEF RoomsInv, TypeOK
    <3>3. AddUser(rooms[q], UserOf[s], s).state = rooms[q].state
      BY <3>2 DEF AddUser, RoomType
    <3> QED BY <3>1, <3>3, NoneStops DEF IsGameStarted
  <2>2. CASE RequestRoomLeave(s)
    BY <2>2, LeaveRoomVerdict DEF RequestRoomLeave
  <2>3. CASE InNotifyDisConnectClient(s)
    BY <2>3, LeaveRoomVerdict DEF InNotifyDisConnectClient, VerdictIn
  <2>4. CASE RequestGameReady(s)
    BY <2>4, ReadyVerdict
  <2>5. ASSUME NEW o \in PutStoneOutcome, RequestPutStone(s, o) PROVE VerdictIn(r)
    <3> DEFINE q == roomNumber[s]
               e == PutStone(rooms[q], s, o, loaded)
    <3>1. /\ q \in Rooms /\ RoomOK(rooms[q])
          /\ rooms' = [rooms EXCEPT ![q] = e.room] /\ out' = Posted(e)
      BY <2>5 DEF RequestPutStone, InOwnRoom, RoomsInv
    <3>2. IsGameStarted(rooms[q]) /\ ~IsGameStarted(e.room) => Verdict(rooms[q], e, loaded)
      BY <3>1, PutStoneVerdict
    <3> HIDE DEF q, e
    <3> QED BY <3>1, <3>2, OneRoomVerdict
  <2>6. CASE InResponseDbLoadUserGameData(s)
    BY <2>6 DEF InResponseDbLoadUserGameData, VerdictIn
  <2>7. Reach[s] \subseteq Rooms
    BY RoomManagerAssumption DEF Rooms
  <2> QED BY <1>1, <2>1, <2>2, <2>3, <2>4, <2>5, <2>6, <2>7 DEF SessionStep
<1>2. CASE RoomCheck
  BY <1>2, CheckStepVerdict DEF RoomCheck
<1>3. ASSUME NEW q \in Rooms, TurnClockRunsOut(q) PROVE VerdictIn(r)
  <2>1. rooms[q] \in RoomType /\ rooms' = [rooms EXCEPT ![q].turnOut = TRUE]
    BY <1>3 DEF TurnClockRunsOut, RoomsInv, TypeOK
  <2>2. [rooms[q] EXCEPT !.turnOut = TRUE].state = rooms[q].state
    BY <2>1 DEF RoomType
  <2> QED BY <2>1, <2>2, NoneStops DEF IsGameStarted
<1>4. CASE UNCHANGED vars
  BY <1>4 DEF vars, VerdictIn
<1> QED BY <1>1, <1>2, <1>3, <1>4 DEF Next

(* A game never stops being played without a verdict: its result is saved, *)
(* or all members are told to disconnect, or the handler threw because a   *)
(* player has no game data.                                                *)
THEOREM GamesEndWithVerdict == Spec => GameEndsWithVerdict
<1>1. RoomsInv /\ [Next]_vars => \A r \in Rooms : VerdictIn(r)
  BY StepVerdict
<1>2. RoomsInv /\ [Next]_vars =>
        [\A r \in Rooms :
         IsGameStarted(rooms[r]) /\ ~IsGameStarted(rooms'[r]) =>
            /\ rooms'[r].game.isGameEnd
            /\ \/ Len(out'.saved) = 2
                  /\ {out'.saved[1], out'.saved[2]} \subseteq PlayersOf(rooms[r].game)
               \/ Members(rooms[r]) \subseteq out'.kicked
               \/ out'.threw /\ ~(PlayersOf(rooms[r].game) \subseteq loaded)]_vars
  BY <1>1 DEF VerdictIn
<1> QED BY <1>2, RoomsInvariant, PTL DEF Spec, GameEndsWithVerdict
-----------------------------------------------------------------------------
(* Part 3: the result that is posted is fair.                              *)

(* The sessions that are bound to a room have its number. *)
BoundInv ==
    /\ RoomsInv
    /\ \A r \in Rooms : \A p \in Bound(rooms[r]) : roomNumber[p] = r

(* Nobody new is bound where the members and the players stay.             *)
LEMMA BoundShrinks ==
    ASSUME NEW room, NEW new, new.userList = room.userList,
           IsGameStarted(new) =>
              IsGameStarted(room) /\ new.game.players = room.game.players
    PROVE  Bound(new) \subseteq Bound(room)
BY DEF Bound, PlayersOf

(* What ends a game binds nobody.                                          *)
LEMMA EndedBound ==
    ASSUME NEW room \in RoomType
    PROVE  Bound(Ended(room)) \subseteq Bound(room) /\ ~IsGameStarted(Ended(room))
<1>1. Ended(room).userList = room.userList /\ ~IsGameStarted(Ended(room))
  BY DEF Ended, RoomType, IsGameStarted
<1> QED BY <1>1, BoundShrinks

(* Who enters is not ready.                                                *)
LEMMA EnterBound ==
    ASSUME NEW room, RoomOK(room), NEW s \in Sessions
    PROVE  Bound(AddUser(room, UserOf[s], s)) \subseteq Bound(room)
<1> DEFINE member == [userID |-> UserOf[s], session |-> s, ready |-> FALSE]
           list   == room.userList
           longer == Append(list, member)
           new    == AddUser(room, UserOf[s], s)
<1>1. CASE new = room
  BY <1>1
<1>2. CASE new = [room EXCEPT !.userList = longer]
  <2>1. list \in Seq(MemberType) /\ room \in RoomType
    BY DEF RoomOK, RoomType
  <2>2. /\ DOMAIN longer = 1 .. Len(list) + 1
        /\ \A i \in 1 .. Len(list) : longer[i] = list[i]
        /\ longer[Len(list) + 1] = member
    BY <2>1
  <2>3. new.userList = longer /\ new.state = room.state /\ new.game = room.game
    BY <1>2, <2>1 DEF RoomType
  <2>4. ~member.ready
    OBVIOUS
  <2> HIDE DEF longer, member, new
  <2>5. \A j \in DOMAIN longer : longer[j].ready => j \in DOMAIN list /\ longer[j] = list[j]
    BY <2>1, <2>2, <2>4
  <2>6. {longer[i].session : i \in {j \in DOMAIN longer : longer[j].ready}} \subseteq
        {list[i].session : i \in {j \in DOMAIN list : list[j].ready}}
    BY <2>5
  <2> QED BY <2>3, <2>6 DEF Bound, IsGameStarted, new
<1> QED BY <1>1, <1>2 DEF AddUser

(* A toggle may bind the member whose flag it is.                          *)
LEMMA ToggleBound ==
    ASSUME NEW room, RoomOK(room), NEW s \in Members(room)
    PROVE  Bound(ToggleReady(room, s)) \subseteq Bound(room) \cup {s}
<1> DEFINE i    == IndexOf(room, s)
           list == room.userList
           longer == [list EXCEPT ![i] = [list[i] EXCEPT !.ready = ~@]]
           new  == ToggleReady(room, s)
<1>1. list \in Seq(MemberType) /\ i \in DOMAIN list /\ list[i].session = s /\ room \in RoomType
  BY IndexOfMember DEF RoomOK, RoomType
<1>2. new = [room EXCEPT !.userList = longer]
  BY DEF ToggleReady
<1>3. new.userList = longer /\ new.state = room.state /\ new.game = room.game
  BY <1>1, <1>2 DEF RoomType
<1>4. list[i] \in MemberType
  BY <1>1
<1>5. /\ DOMAIN longer = DOMAIN list
      /\ longer[i].session = s
      /\ \A j \in DOMAIN list : j # i => longer[j] = list[j]
  BY <1>1, <1>4 DEF MemberType
<1> HIDE DEF longer, new, i
<1>6. \A j \in DOMAIN longer : longer[j].ready =>
         longer[j].session = s \/ (j \in DOMAIN list /\ list[j].ready /\ longer[j] = list[j])
  BY <1>5
<1>7. {longer[k].session : k \in {j \in DOMAIN longer : longer[j].ready}} \subseteq
      {list[k].session : k \in {j \in DOMAIN list : list[j].ready}} \cup {s}
  BY <1>6
<1> QED BY <1>3, <1>7 DEF Bound, IsGameStarted, new

(* A game starts between members who are all ready.                        *)
LEMMA StartBound ==
    ASSUME NEW room, RoomOK(room), IsAllUserReady(room), NEW t \in DOMAIN room.userList
    PROVE  Bound(StartGame(room, t)) \subseteq Bound(room)
<1> DEFINE list == room.userList
           new  == StartGame(room, t)
           players == [i \in DOMAIN list |->
                         IF i = 1 THEN list[t].session
                         ELSE IF i <= t THEN list[i - 1].session
                         ELSE list[i].session]
<1>1. list \in Seq(MemberType) /\ t \in 1 .. Len(list) /\ room \in RoomType
  BY DEF RoomOK, RoomType
<1>2. new = [room EXCEPT !.state = "GameStart", !.turnOut = FALSE, !.game = NewGame(players)]
  BY DEF StartGame
<1>3. \A i \in DOMAIN list : \E j \in DOMAIN list : players[i] = list[j].session
  <2>1. ASSUME NEW i \in DOMAIN list PROVE \E j \in DOMAIN list : players[i] = list[j].session
    <3>1. CASE i = 1
      BY <1>1, <3>1
    <3>2. CASE i # 1 /\ i <= t
      <4>1. i - 1 \in DOMAIN list
        BY <1>1, <3>2
      <4> QED BY <3>2, <4>1
    <3>3. CASE i # 1 /\ ~(i <= t)
      BY <3>3
    <3> QED BY <3>1, <3>2, <3>3
  <2> QED BY <2>1
<1>4. DOMAIN players = DOMAIN list
  OBVIOUS
<1> HIDE DEF players, new
<1>5. new.userList = list /\ new.game.players = players
  BY <1>1, <1>2 DEF RoomType, NewGame
<1>6. \A j \in DOMAIN list : list[j].ready
  BY DEF IsAllUserReady
<1>7. PlayersOf(new.game) \subseteq {list[k].session : k \in {j \in DOMAIN list : list[j].ready}}
  BY <1>3, <1>4, <1>5, <1>6 DEF PlayersOf
<1> QED BY <1>5, <1>7 DEF Bound, new

(* A stone binds nobody.                                                   *)
LEMMA StoneBound ==
    ASSUME NEW room, RoomOK(room), NEW s, NEW outcome, NEW L
    PROVE  Bound(PutStone(room, s, outcome, L).room) \subseteq Bound(room)
<1> DEFINE g      == room.game
           placed == [room EXCEPT !.game = PlaceStone(g), !.turnOut = FALSE]
           e      == PutStone(room, s, outcome, L)
<1>1. room \in RoomType /\ g \in GameType
  BY DEF RoomOK, RoomType
<1>2. PlaceStone(g) \in GameType /\ PlaceStone(g).players = g.players
  BY <1>1, TurnsOK
<1>3. /\ placed \in RoomType /\ placed.game = PlaceStone(g)
      /\ placed.userList = room.userList /\ placed.state = room.state
  BY <1>1, <1>2 DEF RoomType
<1>4. /\ Throw(room).room = room /\ Quiet(room).room = room
      /\ Quiet(placed).room = placed
  BY DEF Throw, Quiet
<1>5. \/ e = Throw(room) \/ e = Quiet(room) \/ e = Quiet(placed)
      \/ e = EndGame(placed, g.turn, L)
  BY DEF PutStone
<1> HIDE DEF placed, e
<1>6. e.room \in {room, placed, Ended(placed)}
  BY <1>4, <1>5, EndGameRoom
<1>7. Bound(placed) \subseteq Bound(room)
  BY <1>2, <1>3, BoundShrinks DEF IsGameStarted
<1> QED BY <1>3, <1>6, <1>7, EndedBound DEF e

(* Nor does the check.                                                     *)
LEMMA CheckBound ==
    ASSUME NEW room, RoomOK(room), NEW timeUp \in BOOLEAN
    PROVE  Bound(CheckRoomState(room, timeUp).room) \subseteq Bound(room)
<1> DEFINE first  == CheckGameStartTime(room, timeUp)
           second == CheckTurnChangedTime(first.room)
           e      == CheckRoomState(room, timeUp)
<1>1. room \in RoomType /\ room.game \in GameType
  BY DEF RoomOK, RoomType
<1>2. CASE ~IsGameStarted(room)
  <2>1. e = Quiet(room) /\ Quiet(room).room = room
    BY <1>2 DEF CheckRoomState, Quiet
  <2> QED BY <2>1
<1>3. CASE IsGameStarted(room)
  <2>1. first.room \in {room, Ended(room)}
    BY EndGameRoom DEF CheckGameStartTime, Quiet
  <2>2. first.room \in RoomType /\ Bound(first.room) \subseteq Bound(room)
    <3>1. NoGame \in GameType
      BY DEF NoGame, GameType, Colors, Black, White
    <3>2. Ended(room) \in RoomType
      BY <1>1, <3>1 DEF Ended, RoomType, RoomState
    <3> QED BY <1>1, <2>1, <3>2, EndedBound
  <2> DEFINE x      == first.room
             turned == [x EXCEPT !.game = TurnOver(@), !.turnOut = FALSE]
  <2>3. /\ TurnOver(x.game) \in GameType /\ TurnOver(x.game).players = x.game.players
    BY <2>2, TurnsOK DEF RoomType
  <2>4. /\ turned \in RoomType /\ turned.game = TurnOver(x.game)
        /\ turned.userList = x.userList /\ turned.state = x.state
    BY <2>2, <2>3 DEF RoomType
  <2>5. \/ second = Quiet(x) \/ second = Quiet(turned)
        \/ second = EndGame(turned, None, {})
    BY DEF CheckTurnChangedTime
  <2>6. e = [second EXCEPT !.kicked = @ \cup first.kicked]
    BY <1>3 DEF CheckRoomState
  <2> HIDE DEF turned, x, first, second
  <2>7. Quiet(x).room = x /\ Quiet(turned).room = turned
    BY DEF Quiet
  <2>8. second.room \in {x, turned, Ended(turned)}
    BY <2>5, <2>7, EndGameRoom
  <2>9. e.room = second.room
    <3>1. \/ second = Quiet(x) \/ second = Quiet(turned) \/ second = Quiet(Ended(turned))
          \/ second = [Quiet(Ended(turned)) EXCEPT !.kicked = Members(turned)]
      BY <2>5 DEF EndGame, None
    <3> QED BY <2>6, <3>1 DEF Quiet
  <2>10. Bound(turned) \subseteq Bound(x)
    BY <2>3, <2>4, BoundShrinks DEF IsGameStarted
  <2> QED BY <2>2, <2>4, <2>8, <2>9, <2>10, EndedBound DEF x
<1> QED BY <1>2, <1>3

(* Whoever leaves without an exception is bound no more.                   *)
LEMMA LeaveBound ==
    ASSUME NEW room, RoomOK(room), NEW s \in Members(room), NEW L
    PROVE  LET e == LeaveRoomUser(room, s, L) IN
           /\ Bound(e.room) \subseteq Bound(room)
           /\ ~e.threw => s \notin Bound(e.room)
<1> DEFINE e0    == IF IsGameStarted(room) /\ Members(room) # {s}
                    THEN Forfeit(room, s, L) ELSE Quiet(room)
           after == RemoveUser(e0.room, s)
           e     == LeaveRoomUser(room, s, L)
<1>0. room.userList # <<>> /\ RosterOK(room) /\ room \in RoomType
  BY NonEmpty DEF RoomOK, RosterOK
<1>1. /\ e0 \in EffectType
      /\ e0.room \in {room, Ended(room)}
      /\ ~e0.threw => ~IsGameStarted(e0.room)
  <2>1. CASE IsGameStarted(room)
    <3>1. e0 = Forfeit(room, s, L) /\ Members(room) # {s}
      BY <2>1, NotAlone
    <3> QED BY <1>0, <2>1, <3>1, ForfeitOK, EndedBound
  <2>2. CASE ~IsGameStarted(room)
    <3>1. e0 = Quiet(room) /\ Quiet(room).room = room
      BY <2>2 DEF Quiet
    <3> QED BY <2>2, <3>1, <1>0, QuietType
  <2> QED BY <2>1, <2>2
<1>2. /\ RoomOK(e0.room) /\ Members(e0.room) = Members(room)
      /\ Bound(e0.room) \subseteq Bound(room)
  BY <1>0, <1>1, EndedOK, EndedBound
<1> HIDE DEF e0
<1>3. CASE e0.threw
  <2>1. e = e0
    BY <1>3 DEF LeaveRoomUser, e0
  <2> QED BY <1>2, <1>3, <2>1
<1>4. CASE ~e0.threw
  <2> DEFINE x    == e0.room
             i    == IndexOf(x, s)
             left == RemoveAt(x.userList, i)
  <2>1. /\ RoomOK(after) /\ Members(after) = Members(room) \ {s}
        /\ ~IsGameStarted(x)
    BY <1>1, <1>2, <1>4, RemoveUserOK
  <2>2. x \in RoomType /\ x.userList \in Seq(MemberType) /\ i \in 1 .. Len(x.userList)
    BY <1>2, IndexOfMember DEF RoomOK, RoomType
  <2>3. /\ left \in Seq(MemberType)
        /\ Len(left) = Len(x.userList) - 1
        /\ \A j \in 1 .. Len(x.userList) - 1 :
              left[j] = IF j < i THEN x.userList[j] ELSE x.userList[j + 1]
    BY <2>2, RemoveAtProperties
  <2>4. after.userList = left /\ ~IsGameStarted(after)
    BY <2>1, <2>2 DEF RemoveUser, RoomType, IsGameStarted
  <2>5. e.room = after
    BY <1>1, <1>4 DEF LeaveRoomUser, e0, EffectType
  <2> HIDE DEF after, left, i, x, e
  <2>6. \A j \in DOMAIN left : \E k \in DOMAIN x.userList : left[j] = x.userList[k]
    <3>1. ASSUME NEW j \in DOMAIN left
          PROVE  \E k \in DOMAIN x.userList : left[j] = x.userList[k]
      <4>1. j \in 1 .. Len(x.userList) - 1
        BY <2>3, <3>1
      <4>2. CASE j < i
        BY <2>2, <2>3, <4>1, <4>2
      <4>3. CASE ~(j < i)
        <5>1. j + 1 \in DOMAIN x.userList
          BY <2>2, <4>1
        <5> QED BY <2>3, <4>1, <4>3, <5>1
      <4> QED BY <4>2, <4>3
    <3> QED BY <3>1
  <2>7. Bound(after) \subseteq Bound(x)
    BY <2>4, <2>6 DEF Bound
  <2>8. s \notin Bound(after)
    BY <2>1, <2>4 DEF Bound, Members
  <2> QED BY <1>2, <2>5, <2>7, <2>8 DEF x, e
<1> QED BY <1>3, <1>4

(* Only members are bound.                                                 *)
LEMMA BoundMembers ==
    ASSUME NEW room, RoomOK(room)
    PROVE  Bound(room) \subseteq Members(room) /\ Bound(room) \subseteq Sessions
<1>1. Members(room) \subseteq Sessions
  BY MembersType DEF RoomOK
<1> QED BY <1>1 DEF RoomOK, Live, Bound, Members
-----------------------------------------------------------------------------
(* A handler that replaces one room.                                       *)
LEMMA OneRoomBound ==
    ASSUME BoundInv, RoomsInv', NEW q \in Rooms, NEW new,
           rooms' = [rooms EXCEPT ![q] = new],
           \A p \in Bound(new) : roomNumber'[p] = q,
           \A r \in Rooms \ {q} : \A p \in Bound(rooms[r]) : roomNumber'[p] = r
    PROVE  BoundInv'
<1>1. rooms \in [Rooms -> RoomType]
  BY DEF BoundInv, RoomsInv, TypeOK
<1>2. \A r \in Rooms : rooms'[r] = IF r = q THEN new ELSE rooms[r]
  BY <1>1
<1>3. \A r \in Rooms : Bound(rooms[r])' = Bound(rooms'[r])
  BY DEF Bound, IsGameStarted, PlayersOf
<1>4. \A r \in Rooms : \A p \in Bound(rooms'[r]) : roomNumber'[p] = r
  BY <1>2
<1> QED BY <1>3, <1>4 DEF BoundInv

(* Entering: a session that gets a number had none, and was not bound.     *)
LEMMA EnterBoundInv ==
    ASSUME BoundInv, RoomsInv', NEW s \in Sessions, NEW q \in Rooms, RequestRoomEnter(s, q)
    PROVE  BoundInv'
<1> DEFINE new == AddUser(rooms[q], UserOf[s], s)
<1>1. RoomOK(rooms[q]) /\ roomNumber \in [Sessions -> Rooms \cup {NoRoom}]
  BY DEF BoundInv, RoomsInv, TypeOK
<1>2. rooms' = [rooms EXCEPT ![q] = new]
  BY DEF RequestRoomEnter
<1>3. Bound(new) \subseteq Bound(rooms[q])
  BY <1>1, EnterBound
<1>4. \A r \in Rooms : \A p \in Bound(rooms[r]) : p \in Sessions /\ roomNumber[p] = r
  BY BoundMembers DEF BoundInv, RoomsInv
<1>5. \A p \in Sessions : roomNumber[p] \in Rooms => roomNumber'[p] = roomNumber[p]
  BY <1>1, NoRoomIsNoRoom DEF RequestRoomEnter
<1> HIDE DEF new
<1>6. \A r \in Rooms : \A p \in Bound(rooms[r]) : roomNumber'[p] = r
  BY <1>4, <1>5
<1>7. \A p \in Bound(new) : roomNumber'[p] = q
  BY <1>3, <1>6
<1> QED BY <1>2, <1>6, <1>7, OneRoomBound

(* Leaving: a session that loses its number was bound in its own room at   *)
(* the most, and is bound there no more.                                   *)
LEMMA LeaveBoundInv ==
    ASSUME BoundInv, RoomsInv', NEW s \in Sessions, roomNumber[s] \in Rooms, LeaveRoom(s)
    PROVE  BoundInv'
<1> DEFINE q == roomNumber[s]
           e == LeaveRoomUser(rooms[q], s, loaded)
<1>1. /\ RoomOK(rooms[q]) /\ s \in Members(rooms[q])
      /\ roomNumber \in [Sessions -> Rooms \cup {NoRoom}]
  BY DEF BoundInv, RoomsInv, TypeOK, RoomNumberIsMember
<1>2. /\ rooms' = [rooms EXCEPT ![q] = e.room]
      /\ roomNumber' = [roomNumber EXCEPT ![s] = IF e.threw THEN q ELSE NoRoom]
  BY DEF LeaveRoom
<1>3. Bound(e.room) \subseteq Bound(rooms[q]) /\ (~e.threw => s \notin Bound(e.room))
  BY <1>1, LeaveBound
<1>4. \A r \in Rooms : \A p \in Bound(rooms[r]) : p \in Sessions /\ roomNumber[p] = r
  BY BoundMembers DEF BoundInv, RoomsInv
<1> HIDE DEF e
<1>5. \A p \in Sessions : roomNumber'[p] = roomNumber[p] \/ (p = s /\ ~e.threw)
  BY <1>1, <1>2
<1>6. \A p \in Bound(e.room) : roomNumber'[p] = q
  BY <1>3, <1>4, <1>5
<1>7. \A r \in Rooms \ {q} : \A p \in Bound(rooms[r]) : roomNumber'[p] = r
  BY <1>4, <1>5
<1> HIDE DEF q
<1> QED BY <1>2, <1>6, <1>7, OneRoomBound DEF q

(* Getting ready: the member's number is that of the room.                 *)
LEMMA ReadyBoundInv ==
    ASSUME BoundInv, RoomsInv', NEW s \in Sessions, RequestGameReady(s)
    PROVE  BoundInv'
<1> DEFINE q       == roomNumber[s]
           toggled == ToggleReady(rooms[q], s)
<1>1. q \in Rooms /\ s \in Members(rooms[q]) /\ RoomOK(rooms[q])
  BY DEF RequestGameReady, InOwnRoom, BoundInv, RoomsInv
<1>2. PICK t \in DOMAIN toggled.userList :
         rooms' = [rooms EXCEPT ![q] =
                     IF IsAllUserReady(toggled) /\ ~IsGameStarted(toggled)
                     THEN StartGame(toggled, t) ELSE toggled]
  BY DEF RequestGameReady
<1>3. roomNumber' = roomNumber
  BY DEF RequestGameReady
<1>4. RoomOK(toggled) /\ Bound(toggled) \subseteq Bound(rooms[q]) \cup {s}
  BY <1>1, ToggleReadyOK, ToggleBound
<1> HIDE DEF toggled
<1>5. PICK new : /\ rooms' = [rooms EXCEPT ![q] = new]
                 /\ Bound(new) \subseteq Bound(rooms[q]) \cup {s}
  <2>1. CASE IsAllUserReady(toggled) /\ ~IsGameStarted(toggled)
    <3>1. Bound(StartGame(toggled, t)) \subseteq Bound(toggled)
      BY <1>4, <2>1, StartBound
    <3> QED BY <1>2, <1>4, <2>1, <3>1
  <2>2. CASE ~(IsAllUserReady(toggled) /\ ~IsGameStarted(toggled))
    BY <1>2, <1>4, <2>2
  <2> QED BY <2>1, <2>2
<1>6. \A r \in Rooms : \A p \in Bound(rooms[r]) : roomNumber'[p] = r
  BY <1>3 DEF BoundInv
<1>7. roomNumber'[s] = q
  BY <1>3
<1> HIDE DEF q
<1>8. \A p \in Bound(new) : roomNumber'[p] = q
  BY <1>1, <1>5, <1>6, <1>7
<1> QED BY <1>1, <1>5, <1>6, <1>8, OneRoomBound

(* A stone, the clock and the check move nobody and bind nobody.           *)
LEMMA SameNumbersBoundInv ==
    ASSUME BoundInv, RoomsInv', roomNumber' = roomNumber,
           \A r \in Rooms : Bound(rooms'[r]) \subseteq Bound(rooms[r])
    PROVE  BoundInv'
<1>1. \A r \in Rooms : Bound(rooms[r])' = Bound(rooms'[r])
  BY DEF Bound, IsGameStarted, PlayersOf
<1> QED BY <1>1 DEF BoundInv

(* Every step preserves it.                                                *)
LEMMA BoundNext == BoundInv /\ [Next]_vars => BoundInv'
<1> SUFFICES ASSUME BoundInv, [Next]_vars PROVE BoundInv'
  OBVIOUS
<1>0. RoomsInv /\ RoomsInv' /\ rooms \in [Rooms -> RoomType]
  BY NextInv DEF BoundInv, RoomsInv, TypeOK
<1>1. ASSUME NEW s \in Sessions, SessionStep(s) PROVE BoundInv'
  <2>1. ASSUME NEW q \in Rooms, RequestRoomEnter(s, q) PROVE BoundInv'
    BY <1>0, <2>1, EnterBoundInv
  <2>2. CASE RequestRoomLeave(s)
    BY <1>0, <2>2, LeaveBoundInv DEF RequestRoomLeave
  <2>3. CASE InNotifyDisConnectClient(s)
    <3>1. CASE roomNumber[s] \in Rooms
      BY <1>0, <2>3, <3>1, LeaveBoundInv DEF InNotifyDisConnectClient
    <3>2. CASE roomNumber[s] \notin Rooms
      BY <1>0, <2>3, <3>2, SameNumbersBoundInv DEF InNotifyDisConnectClient
    <3> QED BY <3>1, <3>2
  <2>4. CASE RequestGameReady(s)
    BY <1>0, <2>4, ReadyBoundInv
  <2>5. ASSUME NEW o \in PutStoneOutcome, RequestPutStone(s, o) PROVE BoundInv'
    <3> DEFINE q == roomNumber[s]
               new == PutStone(rooms[q], s, o, loaded).room
    <3>1. /\ q \in Rooms /\ RoomOK(rooms[q]) /\ roomNumber' = roomNumber
          /\ rooms' = [rooms EXCEPT ![q] = new]
      BY <1>0, <2>5 DEF RequestPutStone, InOwnRoom, RoomsInv
    <3>2. Bound(new) \subseteq Bound(rooms[q])
      BY <3>1, StoneBound
    <3> HIDE DEF q, new
    <3>3. \A r \in Rooms : Bound(rooms'[r]) \subseteq Bound(rooms[r])
      BY <1>0, <3>1, <3>2
    <3> QED BY <1>0, <3>1, <3>3, SameNumbersBoundInv
  <2>6. CASE InResponseDbLoadUserGameData(s)
    BY <1>0, <2>6, SameNumbersBoundInv DEF InResponseDbLoadUserGameData
  <2>7. Reach[s] \subseteq Rooms
    BY RoomManagerAssumption DEF Rooms
  <2> QED BY <1>1, <2>1, <2>2, <2>3, <2>4, <2>5, <2>6, <2>7 DEF SessionStep
<1>2. CASE RoomCheck
  <2>1. PICK timeUp : RequestInRoomCheck(timeUp)
    BY <1>2 DEF RoomCheck
  <2> DEFINE checked(x) == CheckRoomState(rooms[x], x \in timeUp)
             busy == {x \in Window : rooms[x].userList # <<>>}
  <2>2. /\ \A r \in Rooms : rooms'[r] = IF r \in busy THEN checked(r).room ELSE rooms[r]
        /\ roomNumber' = roomNumber
    BY <2>1 DEF RequestInRoomCheck
  <2>3. \A r \in Rooms : Bound(checked(r).room) \subseteq Bound(rooms[r])
    <3>1. ASSUME NEW r \in Rooms PROVE Bound(checked(r).room) \subseteq Bound(rooms[r])
      <4>1. RoomOK(rooms[r]) /\ (r \in timeUp) \in BOOLEAN
        BY <1>0 DEF RoomsInv
      <4> QED BY <4>1, CheckBound
    <3> QED BY <3>1
  <2> HIDE DEF checked, busy
  <2>4. \A r \in Rooms : Bound(rooms'[r]) \subseteq Bound(rooms[r])
    BY <2>2, <2>3
  <2> QED BY <1>0, <2>2, <2>4, SameNumbersBoundInv
<1>3. ASSUME NEW q \in Rooms, TurnClockRunsOut(q) PROVE BoundInv'
  <2> DEFINE new == [rooms[q] EXCEPT !.turnOut = TRUE]
  <2>1. rooms' = [rooms EXCEPT ![q] = new] /\ roomNumber' = roomNumber
    BY <1>3 DEF TurnClockRunsOut
  <2>2. rooms[q] \in RoomType
    BY <1>0
  <2>3. Bound(new) \subseteq Bound(rooms[q])
    BY <2>2, BoundShrinks DEF RoomType, IsGameStarted
  <2> HIDE DEF new
  <2>4. \A r \in Rooms : Bound(rooms'[r]) \subseteq Bound(rooms[r])
    BY <1>0, <2>1, <2>3
  <2> QED BY <1>0, <2>1, <2>4, SameNumbersBoundInv
<1>4. CASE UNCHANGED vars
  BY <1>0, <1>4, SameNumbersBoundInv DEF vars
<1> QED BY <1>1, <1>2, <1>3, <1>4 DEF Next

(* Nobody is ready and nothing is played when the server starts.           *)
LEMMA BoundInit == Init => BoundInv
<1>1. Bound(EmptyRoom) = {}
  BY DEF Bound, EmptyRoom, IsGameStarted
<1> QED BY <1>1, InitInv DEF Init, BoundInv

(* What ResultIsFair asks of one room and the effect of a method; that the *)
(* winner is still in the room is left to the handlers.                    *)
Fair(room, e, L) ==
    e.saved # <<>> =>
       /\ IsGameStarted(room) /\ e.room.game.isGameEnd
       /\ {e.saved[1], e.saved[2]} \subseteq PlayersOf(room.game) \cap L
       /\ GetUserStoneColor(room.game, e.saved[1]) # GetUserStoneColor(room.game, e.saved[2])

(* The two that EndGame credits are players of different colours.          *)
LEMMA EndGameFair ==
    ASSUME NEW room \in RoomType, IsGameStarted(room), ~room.game.isGameEnd,
           Len(room.game.players) >= 2, IsInjective(room.game.players),
           NEW c \in StoneColor, NEW L
    PROVE  /\ Fair(room, EndGame(room, c, L), L)
           /\ EndGame(room, c, L).saved # <<>> =>
                 EndGame(room, c, L).saved[1] = GetSessionByStoneColor(room.game, c)
<1> DEFINE g      == room.game
           winner == GetSessionByStoneColor(g, c)
           loser  == GetSessionByStoneColor(g, Opposite(c))
           ended  == Ended(room)
           e      == EndGame(room, c, L)
<1>1. /\ g.players \in Seq(Sessions)
      /\ 1 \in DOMAIN g.players /\ 2 \in DOMAIN g.players
      /\ g.players[1] # g.players[2]
  <2>1. g.players \in Seq(Sessions)
    BY DEF RoomType, GameType
  <2>2. 1 \in DOMAIN g.players /\ 2 \in DOMAIN g.players
    BY <2>1
  <2> QED BY <2>1, <2>2 DEF IsInjective
<1>2. {winner, loser} \subseteq PlayersOf(g)
  BY <1>1 DEF GetSessionByStoneColor, PlayersOf
<1>3. c # None => GetUserStoneColor(g, winner) # GetUserStoneColor(g, loser)
  BY <1>1 DEF GetSessionByStoneColor, GetUserStoneColor, Opposite,
              StoneColor, Colors, Black, White, None
<1>4. ended.game.isGameEnd
  BY DEF Ended, RoomType, NoGame
<1>5. e = IF c = None THEN [Quiet(ended) EXCEPT !.kicked = Members(room)]
          ELSE IF {winner, loser} \subseteq L
               THEN [Quiet(ended) EXCEPT !.saved = <<winner, loser>>]
               ELSE Throw(ended)
  BY DEF EndGame
<1> HIDE DEF winner, loser, ended, e
<1>6. CASE c # None /\ {winner, loser} \subseteq L
  <2>1. e.room = ended /\ e.saved = <<winner, loser>>
    BY <1>5, <1>6 DEF Quiet
  <2>2. e.saved[1] = winner /\ e.saved[2] = loser
    BY <2>1
  <2> QED BY <1>2, <1>3, <1>4, <1>6, <2>1, <2>2 DEF Fair, e, winner
<1>7. CASE c = None \/ ~({winner, loser} \subseteq L)
  <2>1. e.saved = <<>>
    BY <1>5, <1>7 DEF Quiet, Throw
  <2> QED BY <2>1 DEF Fair, e
<1> QED BY <1>6, <1>7

(* In a game of two, the winner of a forfeit is not who leaves.            *)
LEMMA ForfeitFair ==
    ASSUME NEW room, RoomOK(room), IsGameStarted(room), NEW s \in Members(room), NEW L
    PROVE  LET e == Forfeit(room, s, L) IN
           /\ Fair(room, e, L)
           /\ e.saved # <<>> /\ Cardinality(PlayersOf(room.game)) = 2 => e.saved[1] # s
<1> DEFINE g     == room.game
           first == FirstOther(room, s)
           color == GetUserStoneColor(g, first)
           e     == EndGame(room, color, L)
           bad   == ~(Members(room) \ {s} \subseteq PlayersOf(g))
           f     == Forfeit(room, s, L)
<1>1. /\ room \in RoomType /\ g \in GameType /\ ~g.isGameEnd
      /\ Len(g.players) >= 2 /\ IsInjective(g.players)
  BY StartedRoom DEF RoomOK, Live
<1>2. color \in StoneColor
  BY DEF GetUserStoneColor, StoneColor, Colors
<1>3. /\ Fair(room, e, L) /\ e \in EffectType
      /\ e.saved # <<>> => e.saved[1] = GetSessionByStoneColor(g, color)
  BY <1>1, <1>2, EndGameFair, EndGameEffect
<1>4. first # s
  <2> DEFINE list == room.userList
  <2>1. /\ list \in Seq(MemberType)
        /\ \A i, j \in 1 .. Len(list) : list[i].session = list[j].session => i = j
    BY SessionsDistinct DEF RoomOK, RoomType
  <2>2. CASE list[1].session # s
    BY <2>2 DEF FirstOther
  <2>3. CASE list[1].session = s
    <3>1. PICK p \in Members(room) : p # s
      BY NotAlone
    <3>2. PICK k \in 1 .. Len(list) : list[k].session = p
      BY <2>1, <3>1 DEF Members
    <3>3. 2 \in 1 .. Len(list) /\ 1 \in 1 .. Len(list)
      BY <2>1, <2>3, <3>1, <3>2
    <3> QED BY <2>1, <2>3, <3>3 DEF FirstOther
  <2> QED BY <2>2, <2>3
<1>5. ASSUME Cardinality(PlayersOf(g)) = 2, first \in PlayersOf(g)
      PROVE  GetSessionByStoneColor(g, color) = first
  <2>1. /\ g.players \in Seq(Sessions)
        /\ 1 \in DOMAIN g.players /\ 2 \in DOMAIN g.players
        /\ g.players[1] # g.players[2]
    <3>1. g.players \in Seq(Sessions)
      BY <1>1 DEF GameType
    <3>2. 1 \in DOMAIN g.players /\ 2 \in DOMAIN g.players
      BY <1>1, <3>1
    <3> QED BY <1>1, <3>1, <3>2 DEF IsInjective
  <2> DEFINE two == {g.players[1], g.players[2]}
  <2>2. two \subseteq PlayersOf(g)
    BY <2>1 DEF PlayersOf
  <2>3. IsFiniteSet(PlayersOf(g))
    <3>1. PlayersOf(g) \subseteq Sessions
      BY <2>1 DEF PlayersOf
    <3> QED BY <3>1, FS_Subset, RoomManagerAssumption
  <2>4. Cardinality(two) = 2
    <3> DEFINE one == {g.players[1]}
    <3>1. IsFiniteSet(one) /\ Cardinality(one) = 1
      BY FS_Singleton
    <3>2. two = one \cup {g.players[2]} /\ g.players[2] \notin one
      BY <2>1
    <3> HIDE DEF one, two
    <3>3. Cardinality(one \cup {g.players[2]}) =
             IF g.players[2] \in one THEN Cardinality(one) ELSE Cardinality(one) + 1
      BY <3>1, FS_AddElement
    <3> QED BY <3>1, <3>2, <3>3
  <2>5. two = PlayersOf(g)
    BY <1>5, <2>2, <2>3, <2>4, FS_Subset
  <2> QED BY <1>5, <2>1, <2>5 DEF GetSessionByStoneColor, GetUserStoneColor, Black, White
<1>6. CASE first \in PlayersOf(g)
  <2> HIDE DEF e, color, first
  <2>1. f = [e EXCEPT !.threw = @ \/ bad]
    BY <1>6 DEF Forfeit, e, color, first
  <2> HIDE DEF bad
  <2>2. f.room = e.room /\ f.saved = e.saved
    BY <1>3, <2>1 DEF EffectType
  <2> QED BY <1>3, <1>4, <1>5, <1>6, <2>2 DEF Fair
<1>7. CASE first \notin PlayersOf(g)
  <2>1. f = Throw(room)
    BY <1>7 DEF Forfeit
  <2>2. f.saved = <<>>
    BY <2>1 DEF Throw, Quiet
  <2> QED BY <2>2 DEF Fair
<1> QED BY <1>6, <1>7

(* Taking the leaver out afterwards changes neither the result nor the     *)
(* game.                                                                   *)
LEMMA LeaveFair ==
    ASSUME NEW room, RoomOK(room), NEW s \in Members(room), NEW L
    PROVE  LET e == LeaveRoomUser(room, s, L) IN
           /\ Fair(room, e, L)
           /\ e.saved # <<>> /\ Cardinality(PlayersOf(room.game)) = 2 => e.saved[1] # s
<1> DEFINE e0    == IF IsGameStarted(room) THEN Forfeit(room, s, L) ELSE Quiet(room)
           after == RemoveUser(e0.room, s)
           e     == LeaveRoomUser(room, s, L)
<1>1. /\ e0 \in EffectType /\ Fair(room, e0, L)
      /\ e0.saved # <<>> /\ Cardinality(PlayersOf(room.game)) = 2 => e0.saved[1] # s
  <2>1. CASE IsGameStarted(room)
    <3>1. Members(room) # {s}
      BY <2>1, NotAlone
    <3> QED BY <2>1, <3>1, ForfeitOK, ForfeitFair
  <2>2. CASE ~IsGameStarted(room)
    <3>1. e0 = Quiet(room) /\ Quiet(room).saved = <<>>
      BY <2>2 DEF Quiet
    <3> QED BY <3>1, QuietType DEF Fair, RoomOK
  <2> QED BY <2>1, <2>2
<1>2. e = IF e0.threw THEN e0
          ELSE [e0 EXCEPT !.room = after, !.freed = (after.userList = <<>>)]
  BY NotAlone DEF LeaveRoomUser
<1>3. after.game = e0.room.game
  BY <1>1 DEF RemoveUser, EffectType, RoomType
<1> HIDE DEF e0, after, e
<1>4. e.saved = e0.saved /\ e.room.game = e0.room.game
  BY <1>1, <1>2, <1>3 DEF EffectType
<1> QED BY <1>1, <1>4 DEF Fair, e

(* A five credits the two first players of the colours.                    *)
LEMMA PutStoneFair ==
    ASSUME NEW room, RoomOK(room), NEW s, NEW outcome, NEW L
    PROVE  Fair(room, PutStone(room, s, outcome, L), L)
<1> DEFINE g      == room.game
           placed == [room EXCEPT !.game = PlaceStone(g), !.turnOut = FALSE]
           e      == PutStone(room, s, outcome, L)
<1>1. CASE IsGameStarted(room)
  <2>1. /\ room \in RoomType /\ g \in GameType
        /\ ~g.isGameEnd /\ Len(g.players) >= 2 /\ IsInjective(g.players)
    BY <1>1, StartedRoom DEF RoomOK, Live
  <2>2. /\ PlaceStone(g) \in GameType /\ PlaceStone(g).players = g.players
        /\ PlaceStone(g).isGameEnd = g.isGameEnd
    BY <2>1, TurnsOK
  <2>3. /\ placed \in RoomType /\ placed.game = PlaceStone(g) /\ placed.state = room.state
    BY <2>1, <2>2 DEF RoomType
  <2>4. /\ Throw(room).saved = <<>> /\ Quiet(room).saved = <<>>
        /\ Quiet(placed).saved = <<>>
    BY DEF Throw, Quiet
  <2>5. \/ e = Throw(room) \/ e = Quiet(room) \/ e = Quiet(placed)
        \/ e = EndGame(placed, g.turn, L)
    BY DEF PutStone
  <2>6. g.turn \in StoneColor
    BY <2>1 DEF GameType, StoneColor
  <2> HIDE DEF placed, e
  <2>7. e.saved # <<>> => e = EndGame(placed, g.turn, L)
    BY <2>4, <2>5
  <2>8. IsGameStarted(placed)
    BY <1>1, <2>3 DEF IsGameStarted
  <2>9. e = EndGame(placed, g.turn, L) => Fair(placed, e, L)
    BY <2>1, <2>2, <2>3, <2>6, <2>8, EndGameFair
  <2>10. /\ PlayersOf(placed.game) = PlayersOf(g)
         /\ \A p : GetUserStoneColor(placed.game, p) = GetUserStoneColor(g, p)
    BY <2>2, <2>3 DEF PlayersOf, GetUserStoneColor
  <2> QED BY <1>1, <2>7, <2>9, <2>10 DEF Fair, e
<1>2. CASE ~IsGameStarted(room)
  <2>1. e = Quiet(room)
    BY <1>2 DEF PutStone
  <2> QED BY <2>1 DEF Fair, Quiet
<1> QED BY <1>1, <1>2
-----------------------------------------------------------------------------
(* ResultIsFair with the room that the step works on.                      *)
FairIn(r) ==
    LET g == rooms[r].game
        winner == out'.saved[1]
        loser  == out'.saved[2]
    IN  /\ IsGameStarted(rooms[r]) /\ rooms'[r].game.isGameEnd
        /\ {winner, loser} \subseteq PlayersOf(g) \cap loaded
        /\ Cardinality(PlayersOf(g)) = 2 =>
              /\ GetUserStoneColor(g, winner) # GetUserStoneColor(g, loser)
              /\ roomNumber'[winner] = r

(* A handler that replaces one room and posts what its method posted.      *)
LEMMA OneRoomFair ==
    ASSUME BoundInv, NEW q \in Rooms, NEW e,
           rooms' = [rooms EXCEPT ![q] = e.room], out' = Posted(e),
           Fair(rooms[q], e, loaded), out'.saved # <<>>,
           Cardinality(PlayersOf(rooms[q].game)) = 2 =>
              (roomNumber[e.saved[1]] = q => roomNumber'[e.saved[1]] = q)
    PROVE  FairIn(q)
<1>1. rooms \in [Rooms -> RoomType] /\ out'.saved = e.saved
  BY DEF BoundInv, RoomsInv, TypeOK, Posted
<1>2. rooms'[q] = e.room
  BY <1>1
<1>3. IsGameStarted(rooms[q]) /\ e.saved[1] \in PlayersOf(rooms[q].game)
  BY <1>1 DEF Fair
<1>4. roomNumber[e.saved[1]] = q
  BY <1>3 DEF BoundInv, Bound
<1> QED BY <1>1, <1>2, <1>4 DEF FairIn, Fair

(* Leaving, by request or because the link is down.                        *)
LEMMA LeaveRoomFair ==
    ASSUME BoundInv, NEW s \in Sessions, roomNumber[s] \in Rooms, LeaveRoom(s),
           out'.saved # <<>>
    PROVE  FairIn(roomNumber[s])
<1> DEFINE q == roomNumber[s]
           e == LeaveRoomUser(rooms[q], s, loaded)
<1>1. /\ RoomOK(rooms[q]) /\ s \in Members(rooms[q])
      /\ roomNumber \in [Sessions -> Rooms \cup {NoRoom}]
  BY DEF BoundInv, RoomsInv, RoomNumberIsMember, TypeOK
<1>2. /\ rooms' = [rooms EXCEPT ![q] = e.room] /\ out' = Posted(e)
      /\ roomNumber' = [roomNumber EXCEPT ![s] = IF e.threw THEN q ELSE NoRoom]
  BY DEF LeaveRoom
<1>3. /\ Fair(rooms[q], e, loaded)
      /\ e.saved # <<>> /\ Cardinality(PlayersOf(rooms[q].game)) = 2 => e.saved[1] # s
  BY <1>1, LeaveFair
<1>4. out'.saved = e.saved
  BY <1>2 DEF Posted
<1> HIDE DEF e
<1>5. e.saved[1] \in Sessions
  <2>1. e.saved[1] \in PlayersOf(rooms[q].game) /\ IsGameStarted(rooms[q])
    BY <1>3, <1>4 DEF Fair
  <2>2. e.saved[1] \in Bound(rooms[q])
    BY <2>1 DEF Bound
  <2> QED BY <1>1, <2>2, BoundMembers
<1>6. Cardinality(PlayersOf(rooms[q].game)) = 2 =>
         (roomNumber[e.saved[1]] = q => roomNumber'[e.saved[1]] = q)
  BY <1>1, <1>2, <1>3, <1>4, <1>5
<1> HIDE DEF q
<1> QED BY <1>2, <1>3, <1>6, OneRoomFair DEF q

(* Every step that posts a result posts a fair one.                        *)
LEMMA StepFair ==
    ASSUME BoundInv, [Next]_vars, vars' # vars, out'.saved # <<>>
    PROVE  \E r \in Rooms : FairIn(r)
<1>0. RoomsInv
  BY DEF BoundInv
<1>1. ASSUME NEW s \in Sessions, SessionStep(s) PROVE \E r \in Rooms : FairIn(r)
  <2>1. ASSUME out' = Nothing PROVE FALSE
    BY <2>1 DEF Nothing
  <2>2. CASE RequestRoomLeave(s)
    BY <2>2, LeaveRoomFair DEF RequestRoomLeave
  <2>3. CASE InNotifyDisConnectClient(s)
    BY <2>1, <2>3, LeaveRoomFair DEF InNotifyDisConnectClient
  <2>4. ASSUME NEW o \in PutStoneOutcome, RequestPutStone(s, o)
        PROVE  \E r \in Rooms : FairIn(r)
    <3> DEFINE q == roomNumber[s]
               e == PutStone(rooms[q], s, o, loaded)
    <3>1. /\ q \in Rooms /\ RoomOK(rooms[q]) /\ roomNumber' = roomNumber
          /\ rooms' = [rooms EXCEPT ![q] = e.room] /\ out' = Posted(e)
      BY <1>0, <2>4 DEF RequestPutStone, InOwnRoom, RoomsInv
    <3>2. Fair(rooms[q], e, loaded)
      BY <3>1, PutStoneFair
    <3> HIDE DEF q, e
    <3> QED BY <3>1, <3>2, OneRoomFair
  <2> QED BY <1>1, <2>1, <2>2, <2>3, <2>4
          DEF SessionStep, RequestRoomEnter, RequestGameReady, InResponseDbLoadUserGameData
<1>2. ASSUME NEW timeUp, RequestInRoomCheck(timeUp) PROVE FALSE
  BY <1>2 DEF RequestInRoomCheck, Nothing
<1>3. ASSUME NEW q \in Rooms, TurnClockRunsOut(q) PROVE FALSE
  BY <1>3 DEF TurnClockRunsOut, Nothing
<1> QED BY <1>1, <1>2, <1>3 DEF Next, RoomCheck

(* Whoever is ready in a room or plays there has that room's number.       *)
THEOREM BoundInvariant == Spec => []BoundInv
BY BoundInit, BoundNext, PTL DEF Spec

(* However many rooms a session has been refused by and is a member of     *)
(* nevertheless, it is ready, and plays, in the one its number names.      *)
THEOREM UsersAreBoundOnce == Spec => []BoundToOneRoom
<1>1. BoundInv => BoundToOneRoom
  BY DEF BoundInv, BoundToOneRoom
<1> QED BY <1>1, BoundInvariant, PTL

(* The result of a game is posted once, for a game that was running, with  *)
(* a winner and a loser of different colours; who walks out of a game of   *)
(* two has not won it.                                                     *)
THEOREM ResultsAreFair == Spec => ResultIsFair
<1>1. BoundInv /\ [Next]_vars =>
        [out'.saved # <<>> =>
         \E r \in Rooms :
            LET g == rooms[r].game
                winner == out'.saved[1]
                loser  == out'.saved[2]
            IN  /\ IsGameStarted(rooms[r]) /\ rooms'[r].game.isGameEnd
                /\ {winner, loser} \subseteq PlayersOf(g) \cap loaded
                /\ Cardinality(PlayersOf(g)) = 2 =>
                      /\ GetUserStoneColor(g, winner) # GetUserStoneColor(g, loser)
                      /\ roomNumber'[winner] = r]_vars
  BY StepFair DEF FairIn
<1> QED BY <1>1, BoundInvariant, PTL DEF Spec, ResultIsFair
=============================================================================
