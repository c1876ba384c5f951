---------------------------- MODULE UserManager ----------------------------
(***************************************************************************)
(* Connections and logins of the Omok server: the user slots of class      *)
(* UserManager, the heartbeat of HeartBeatManager and the handlers of      *)
(* PKHCommon.cs, fed through the one packet buffer of PacketProcessor.     *)
(*                                                                         *)
(* Network threads, the heartbeat timer, the Redis threads and the MySQL   *)
(* threads post packets; the packet thread takes one at a time, first in,  *)
(* first out.  A login is a round trip through Redis and then one through  *)
(* MySQL, and a session may be closed at any moment between.  Several      *)
(* threads serve either database, so answers come in any order.            *)
(*                                                                         *)
(* A session logs in with a user ID of its own, for which the session's    *)
(* name stands.  What a room does when a member's link goes down is the    *)
(* subject of module RoomManager; here it throws for some sessions, or not.*)
(***************************************************************************)
EXTENDS Integers, Sequences, SequencesExt, FiniteSets

CONSTANTS Sessions,
          NoSession,
          MaxUserCount,         \* RoomMaxCount * RoomMaxUserCount
          CheckUserCount,       \* ServerOption.CheckUserCount
          MaxConnectionNumber,  \* ServerOption.MaxConnectionNumber
          RoomThrows,           \* sessions whose LeaveRoom may throw
          MaxLogins,            \* bound: ReqLogin packets of one session
          Bounds                \* bounds, one of which holds for a behaviour: who
                                \* connects, who of them logs in, who sends other
                                \* packets, and how many packets wait when a
                                \* client or a database posts one more

(* appsettings.json: 500 rooms for two, a window of 250 users. *)
ASSUME UserManagerAssumption ==
    /\ IsFiniteSet(Sessions) /\ NoSession \notin Sessions
    /\ MaxUserCount \in Nat \ {0} /\ CheckUserCount \in Nat \ {0}
    /\ \E k \in 1 .. MaxUserCount : MaxUserCount = k * CheckUserCount
    /\ MaxConnectionNumber \in Nat
    /\ RoomThrows \subseteq Sessions
    /\ MaxLogins \in Nat
    /\ Bounds \subseteq [comers : SUBSET Sessions, loggers : SUBSET Sessions,
                         talkers : SUBSET Sessions, packets : Nat]

Slots  == 0 .. MaxUserCount - 1
NoSlot == -1

VARIABLES
    link,        \* state of each session's connection
    pktBuffer,   \* _pktBuffer
    users,       \* _userList
    dict,        \* _sessionIndexDict; NoSlot where it has no entry
    redis,       \* login checks of each session that Redis has to answer
    mysql,       \* data loads of each session that MySQL has to answer
    checkStart,  \* _checkStartIndex
    logins,      \* ReqLogin packets each session has sent
    bound        \* the bounds of this behaviour

db   == <<redis, mysql>>
vars == <<link, pktBuffer, users, dict, db, checkStart, logins, bound>>

(* HeartBeatCnt is only compared with this and stops counting here. *)
MaxHeartBeat == 3

(* User as it is constructed. *)
NewUser == [isUsing |-> FALSE, isLogin |-> FALSE, session |-> NoSession,
            userID |-> NoSession, heartBeatCnt |-> 0]

Init ==
    /\ link = [s \in Sessions |-> "new"]
    /\ pktBuffer = <<>>
    /\ users = [i \in Slots |-> NewUser]
    /\ dict = [s \in Sessions |-> NoSlot]
    /\ redis = [s \in Sessions |-> 0] /\ mysql = [s \in Sessions |-> 0]
    /\ checkStart = 0
    /\ logins = [s \in Sessions |-> 0]
    /\ bound \in Bounds

Packet(id, s) == [id |-> id, session |-> s]
Buffered(id, s) == Contains(pktBuffer, Packet(id, s))

HeartBeatTick == Packet("ReqInHeartBeat", NoSession)
-----------------------------------------------------------------------------
(* MainServer's network threads.  Bound: clients and databases post only   *)
(* while fewer than so many packets wait; closed links and the timer are   *)
(* not held back.                                                          *)
Enqueue(p) == pktBuffer' = Append(pktBuffer, p)
Post(p)    == Len(pktBuffer) < bound.packets /\ Enqueue(p)

OnConnected(s) ==
    /\ s \in bound.comers
    /\ link[s] = "new"
    /\ Cardinality({t \in Sessions : link[t] \in {"up", "closing"}}) < MaxConnectionNumber
    /\ link' = [link EXCEPT ![s] = "up"]
    /\ Post(Packet("NtfInConnectClient", s))
    /\ UNCHANGED <<users, dict, db, checkStart, logins, bound>>

(* The link goes down by itself, or CloseSession has been called. *)
OnClosed(s) ==
    /\ link[s] \in {"up", "closing"}
    /\ link' = [link EXCEPT ![s] = "closed"]
    /\ Enqueue(Packet("NtfInDisConnectClient", s))
    /\ UNCHANGED <<users, dict, db, checkStart, logins, bound>>

(* OnPacketReceived, for the packets PKHCommon handles.  Bound: one        *)
(* heartbeat answer and one request to disconnect of a session at a time.  *)
OnLoginReceived(s) ==
    /\ link[s] = "up"
    /\ s \in bound.loggers /\ logins[s] < MaxLogins
    /\ logins' = [logins EXCEPT ![s] = @ + 1]
    /\ Post(Packet("ReqLogin", s))
    /\ UNCHANGED <<link, users, dict, db, checkStart, bound>>

OnPacketReceived(id, s) ==
    /\ link[s] = "up"
    /\ s \in bound.talkers
    /\ ~Buffered(id, s)
    /\ Post(Packet(id, s))
    /\ UNCHANGED <<link, users, dict, db, checkStart, logins, bound>>

(* The timer of HeartBeatManager.  Bound: one tick at a time. *)
SendHeartBeatPkt ==
    /\ ~Contains(pktBuffer, HeartBeatTick)
    /\ Enqueue(HeartBeatTick)
    /\ UNCHANGED <<link, users, dict, db, checkStart, logins, bound>>

(* RedisHandler.RequestLogin.  A refusal only makes PKHCommon answer the   *)
(* client, so its packet is left out.                                      *)
RedisAnswers(s, approved) ==
    /\ redis[s] > 0
    /\ redis' = [redis EXCEPT ![s] = @ - 1]
    /\ IF approved THEN Post(Packet("ResDbLogin", s)) ELSE UNCHANGED pktBuffer
    /\ UNCHANGED <<link, users, dict, mysql, checkStart, logins, bound>>

(* MySqlHandler.RequestLoadUserGameData; for a user without a row it       *)
(* throws, and nothing is answered.                                        *)
MySqlAnswers(s, found) ==
    /\ mysql[s] > 0
    /\ mysql' = [mysql EXCEPT ![s] = @ - 1]
    /\ IF found THEN Post(Packet("ResDbLoadUserGameData", s)) ELSE UNCHANGED pktBuffer
    /\ UNCHANGED <<link, users, dict, redis, checkStart, logins, bound>>
-----------------------------------------------------------------------------
(* The packet thread. *)
Take(id, s) ==
    /\ pktBuffer # <<>> /\ Head(pktBuffer) = Packet(id, s)
    /\ pktBuffer' = Tail(pktBuffer)

(* GetUserBySessionId.  TryGetValue leaves index at 0 for a session that   *)
(* is not in the dictionary, so it finds the user of slot 0.               *)
UserIndex(s) == IF dict[s] = NoSlot THEN 0 ELSE dict[s]
HasUser(s)   == users[UserIndex(s)].isUsing

(* The k-th smallest element of S. *)
Nth(S, k) == CHOOSE i \in S : Cardinality({j \in S : j < i}) = k - 1

(* Mutant: a slot is empty when nobody is logged in. *)
EmptyIfLoggedOut == {i \in Slots : ~users[i].isLogin}

(* GetEmptyUser takes the first of these. *)
EmptySlots == {i \in Slots : ~users[i].isUsing}

(* AddUser and User.Use: the ID of the slot's last user stays.            *)
InNotifyConnectClient(s) ==
    /\ Take("NtfInConnectClient", s)
    /\ IF EmptySlots = {} THEN UNCHANGED <<users, dict>>
       ELSE LET i == Nth(EmptySlots, 1) IN
            /\ users' = [users EXCEPT ![i].isUsing = TRUE, ![i].isLogin = FALSE,
                                      ![i].session = s, ![i].heartBeatCnt = 0]
            /\ dict' = [dict EXCEPT ![s] = i]
    /\ UNCHANGED <<link, db, checkStart, logins, bound>>

(* CheckLoginState: only a user who is not logged in is checked. *)
RequestLogin(s) ==
    /\ Take("ReqLogin", s)
    /\ redis' = IF HasUser(s) /\ ~users[UserIndex(s)].isLogin
                THEN [redis EXCEPT ![s] = @ + 1] ELSE redis
    /\ UNCHANGED <<link, users, dict, mysql, checkStart, logins, bound>>

(* InResponseDbLogin, Login and LoginUser. *)
InResponseDbLogin(s) ==
    /\ Take("ResDbLogin", s)
    /\ IF HasUser(s)
       THEN /\ users' = [users EXCEPT ![UserIndex(s)].isLogin = TRUE,
                                      ![UserIndex(s)].userID = s]
            /\ mysql' = [mysql EXCEPT ![s] = @ + 1]
       ELSE UNCHANGED <<users, mysql>>
    /\ UNCHANGED <<link, dict, redis, checkStart, logins, bound>>

(* The data of a user are read by rooms only and left out here. *)
InResponseDbLoadUserGameData(s) ==
    /\ Take("ResDbLoadUserGameData", s)
    /\ UNCHANGED <<link, users, dict, db, checkStart, logins, bound>>

(* ResponseHeartBeat and ClearSessionHeartBeat. *)
ResponseHeartBeat(s) ==
    /\ Take("ResHeartBeat", s)
    /\ users' = IF HasUser(s) THEN [users EXCEPT ![UserIndex(s)].heartBeatCnt = 0] ELSE users
    /\ UNCHANGED <<link, dict, db, checkStart, logins, bound>>

(* RequestDisConnect and InRequestDisConnectClient: CloseSession, which    *)
(* throws for a session that is gone.                                      *)
CloseSession(s) ==
    /\ Take("ReqDisConnect", s) \/ Take("ReqInDisConnectUser", s)
    /\ link' = IF link[s] = "up" THEN [link EXCEPT ![s] = "closing"] ELSE link
    /\ UNCHANGED <<users, dict, db, checkStart, logins, bound>>

(* Mutant: the user is logged out and the slot stays in use. *)
DisConnectWithoutFree(s) ==
    /\ Take("NtfInDisConnectClient", s)
    /\ users' = IF HasUser(s) THEN [users EXCEPT ![UserIndex(s)].isLogin = FALSE] ELSE users
    /\ UNCHANGED <<link, dict, db, checkStart, logins, bound>>

(* InNotifyDisConnectClient and DisConnectUser.  Once the user is freed    *)
(* GetUserBySessionId finds nobody, so the user is not logged out and the  *)
(* session stays in the dictionary.  If leaving the room throws, which     *)
(* takes a user who has logged in, nothing is freed.                       *)
InNotifyDisConnectClient(s) ==
    /\ Take("NtfInDisConnectClient", s)
    /\ \/ users' = IF HasUser(s) THEN [users EXCEPT ![UserIndex(s)].isUsing = FALSE,
                                                    ![UserIndex(s)].heartBeatCnt = 0]
                   ELSE users
       \/ s \in RoomThrows /\ HasUser(s) /\ users[UserIndex(s)].isLogin /\ UNCHANGED users
    /\ UNCHANGED <<link, dict, db, checkStart, logins, bound>>

(* HeartBeatTask: the slots of one window, in order. *)
Window == checkStart .. checkStart + CheckUserCount - 1
Beat(i) == users[i].heartBeatCnt + 1
Silent(window) == {i \in window : users[i].isUsing /\ Beat(i) >= MaxHeartBeat}

DisConnectSilent(window) ==
    [k \in 1 .. Cardinality(Silent(window)) |->
        Packet("ReqInDisConnectUser", users[Nth(Silent(window), k)].session)]

BeatUsers(window) ==
    [i \in Slots |->
        IF i \in window /\ users[i].isUsing
        THEN [users[i] EXCEPT !.heartBeatCnt =
                 IF Beat(i) < MaxHeartBeat THEN Beat(i) ELSE MaxHeartBeat]
        ELSE users[i]]

(* Mutant: the window is moved on without the modulo. *)
HeartBeatNoModulo ==
    LET window == Window \cap Slots
    IN  /\ pktBuffer # <<>> /\ Head(pktBuffer) = HeartBeatTick
        /\ pktBuffer' = Tail(pktBuffer) \o DisConnectSilent(window)
        /\ users' = BeatUsers(window)
        /\ checkStart' = checkStart + CheckUserCount
        /\ UNCHANGED <<link, dict, db, logins, bound>>

(* Mutant: the window is not moved on. *)
HeartBeatSameWindow ==
    /\ pktBuffer # <<>> /\ Head(pktBuffer) = HeartBeatTick
    /\ pktBuffer' = Tail(pktBuffer) \o DisConnectSilent(Window)
    /\ users' = BeatUsers(Window)
    /\ UNCHANGED <<link, dict, db, checkStart, logins, bound>>

HeartBeatTask ==
    /\ pktBuffer # <<>> /\ Head(pktBuffer) = HeartBeatTick
    /\ pktBuffer' = Tail(pktBuffer) \o DisConnectSilent(Window)
    /\ users' = BeatUsers(Window)
    /\ checkStart' = (checkStart + CheckUserCount) % MaxUserCount
    /\ UNCHANGED <<link, dict, db, logins, bound>>
-----------------------------------------------------------------------------
Process ==
    \/ \E s \in Sessions :
          \/ InNotifyConnectClient(s) \/ RequestLogin(s) \/ InResponseDbLogin(s)
          \/ InResponseDbLoadUserGameData(s) \/ ResponseHeartBeat(s)
          \/ CloseSession(s) \/ InNotifyDisConnectClient(s)
    \/ HeartBeatTask

Network(s) ==
    \/ OnConnected(s) \/ OnClosed(s) \/ OnLoginReceived(s)
    \/ \E id \in {"ResHeartBeat", "ReqDisConnect"} : OnPacketReceived(id, s)

Database(s) == \E b \in BOOLEAN : RedisAnswers(s, b) \/ MySqlAnswers(s, b)

Next ==
    \/ \E s \in Sessions : Network(s) \/ Database(s)
    \/ SendHeartBeatPkt
    \/ Process

Spec == Init /\ [][Next]_vars

(* The packet thread and the timer run for ever, and a socket that is      *)
(* being closed gets closed.  Clients and databases owe nothing.           *)
Fairness ==
    /\ WF_vars(Process)
    /\ WF_vars(SendHeartBeatPkt)
    /\ \A s \in Sessions : WF_vars(link[s] = "closing" /\ OnClosed(s))

FairSpec == Spec /\ Fairness
-----------------------------------------------------------------------------
(* Type invariant. *)
PacketType ==
    [id : {"NtfInConnectClient", "NtfInDisConnectClient", "ReqLogin", "ResHeartBeat",
           "ReqDisConnect", "ReqInDisConnectUser", "ResDbLogin", "ResDbLoadUserGameData"},
     session : Sessions] \cup {HeartBeatTick}

UserType == [isUsing : BOOLEAN, isLogin : BOOLEAN, session : Sessions \cup {NoSession},
             userID : Sessions \cup {NoSession}, heartBeatCnt : 0 .. MaxHeartBeat]

TypeOK ==
    /\ link \in [Sessions -> {"new", "up", "closing", "closed"}]
    /\ pktBuffer \in Seq(PacketType)
    /\ users \in [Slots -> UserType]
    /\ dict \in [Sessions -> Slots \cup {NoSlot}]
    /\ redis \in [Sessions -> Nat] /\ mysql \in [Sessions -> Nat]
    /\ checkStart \in Slots
    /\ logins \in [Sessions -> 0 .. MaxLogins]

(* Between the packet that announces a session and the one that ends it. *)
Registered(s) ==
    /\ link[s] # "new" /\ ~Buffered("NtfInConnectClient", s)
    /\ link[s] = "closed" => Buffered("NtfInDisConnectClient", s)

(* Announced while no slot was empty: GetUserBySessionId takes the session *)
(* for the user of slot 0.                                                 *)
Slotless(t) == /\ link[t] # "new" /\ ~Buffered("NtfInConnectClient", t)
               /\ dict[t] = NoSlot

(* Such a session can take slot 0 from its users, and nothing else.        *)
MayLack(s) == dict[s] \in {NoSlot, 0} /\ \E t \in Sessions : Slotless(t)

(* Every registered session has a slot of its own, whatever the sessions   *)
(* before it left in the slot and in the dictionary: no packet of another  *)
(* session, and no close, takes the slot away.  Once the slots have run    *)
(* out, those who find none have none, and what they send can take slot 0  *)
(* from its users, but no other slot.                                      *)
SlotIsOwn ==
    \A s \in Sessions : Registered(s) =>
        \/ /\ dict[s] \in Slots
           /\ users[dict[s]].isUsing /\ users[dict[s]].session = s
        \/ MayLack(s)

(* A session that does not answer heartbeats is closed in the end,         *)
(* wherever its slot lies and whatever else it sends, unless it has lost   *)
(* its slot like this.                                                     *)
SilentIsClosed ==
    \A s \in Sessions :
        Registered(s) /\ link[s] = "up" ~>
            link[s] # "up" \/ Buffered("ResHeartBeat", s) \/ MayLack(s)

(* The slot of a closed session is freed in the end, so that slots do not  *)
(* run out, unless leaving its room threw.                                 *)
SlotsAreFreed ==
    \A s \in Sessions \ RoomThrows :
        link[s] = "closed" ~> \A i \in Slots : users[i].isUsing => users[i].session # s

(* "Redis에 로그인 정보 확인 요청" (UserManager.cs:196): Redis was asked    *)
(* about this login, so a user is logged in under an ID that Redis         *)
(* approved for this connection.                                           *)
LoginIsOwn ==
    \A i \in Slots : users[i].isUsing /\ users[i].isLogin => users[i].userID = users[i].session

=============================================================================
