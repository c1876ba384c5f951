----------------------------- MODULE GameRecord -----------------------------
(***************************************************************************)
(* What users have won and lost: the GameData of class User, kept in the   *)
(* user's slot while the user is connected, and the table user_game_data   *)
(* behind MySqlProcessor.  A login posts a load of the row, the end of a   *)
(* game posts two saves.  Every save overwrites the whole row; loads and   *)
(* saves go through one queue, from which several threads take them.       *)
(*                                                                         *)
(* A session that has closed stays in _sessionIndexDict with its slot      *)
(* (UserManager.DisConnectUser finds nobody to remove), so the answer to   *)
(* its load finds whoever is in the slot by then: jobs carry the slot.     *)
(* Redis has approved a user before Login here; who may be in a slot is    *)
(* the subject of module UserManager, and which games end of RoomManager.  *)
(***************************************************************************)
EXTENDS Integers, Sequences, SequencesExt, FiniteSets, FiniteSetsExt

CONSTANTS Users,         \* user IDs; the game API has made a row for each
          NoUser,
          MaxUserCount,  \* slots
          ThreadCounts,  \* the values DbOption.DbThreadCount may have
          WinExp, LoseExp, LevelExp,
          MaxLogins,     \* bound: logins of all users together
          MaxGames       \* bound: games that end

(* The code has 10, 5 and 100, and appsettings.json 8 threads. *)
ASSUME GameRecordAssumption ==
    /\ NoUser \notin Users
    /\ MaxUserCount \in Nat \ {0}
    /\ ThreadCounts \subseteq Nat \ {0}
    /\ WinExp \in Nat /\ LoseExp \in Nat /\ LoseExp <= WinExp /\ WinExp <= LevelExp
    /\ LevelExp \in Nat \ {0}
    /\ MaxLogins \in Nat /\ MaxGames \in Nat

Slots == 0 .. MaxUserCount - 1

VARIABLES
    users,    \* _userList
    queue,    \* _dbPktBuffer: loads and saves to be done
    thread,   \* the job each thread holds
    answers,  \* ResDbLoadUserGameData packets in the packet buffer
    rows,     \* user_game_data
    logins,   \* logins so far
    tally,    \* history: what the games each user finished add up to
    games,    \* history: games so far
    careful,  \* history: clients played by the rules, see LogsInOnce, HasData
    reused,   \* history: a user took a slot that was another user's before
    lost      \* history: the update of a save threw

db   == <<queue, thread, answers, rows>>
past == <<tally, games, careful, reused, lost>>
vars == <<users, db, logins, past>>

NewRow == [win |-> 0, lose |-> 0, level |-> 1, exp |-> 0]
NoData == [NewRow EXCEPT !.level = 0]    \* GameData is null

NewUser == [isUsing |-> FALSE, isLogin |-> FALSE, userID |-> NoUser,
            data |-> NoData, login |-> 0, loaded |-> FALSE]

Idle == [kind |-> "idle", slot |-> 0, user |-> NoUser, login |-> 0, data |-> NoData]

Load(i, u, n) == [Idle EXCEPT !.kind = "load", !.slot = i, !.user = u, !.login = n]
Save(i, d)    == [Idle EXCEPT !.kind = "save", !.slot = i, !.user = users[i].userID,
                              !.data = d]

Init ==
    /\ users = [i \in Slots |-> NewUser]
    /\ queue = <<>> /\ answers = <<>>
    /\ \E n \in ThreadCounts : thread = [t \in 1 .. n |-> Idle]
    /\ rows = [u \in Users |-> NewRow]
    /\ logins = 0
    /\ tally = rows /\ games = 0 /\ careful = TRUE /\ reused = FALSE /\ lost = FALSE
-----------------------------------------------------------------------------
(* Mutant: experience is kept when a level is reached. *)
UpdateExpNoReset(d, exp) ==
    IF d.exp + exp >= LevelExp
    THEN [d EXCEPT !.level = @ + 1, !.exp = @ + exp]
    ELSE [d EXCEPT !.exp = @ + exp]

(* User.UpdateExp: what is over the level is lost. *)
UpdateExp(d, exp) ==
    IF d.exp + exp >= LevelExp
    THEN [d EXCEPT !.level = @ + 1, !.exp = 0]
    ELSE [d EXCEPT !.exp = @ + exp]

(* Mutant: who loses loses experience. *)
LoseTakes(d) == UpdateExp([d EXCEPT !.lose = @ + 1], -LoseExp)

Win(d)  == UpdateExp([d EXCEPT !.win = @ + 1], WinExp)
Lose(d) == UpdateExp([d EXCEPT !.lose = @ + 1], LoseExp)
-----------------------------------------------------------------------------
(* AddUser takes the first empty slot; User.Use leaves the ID and the data *)
(* of the slot's last user.                                                *)
EmptySlots == {i \in Slots : ~users[i].isUsing}

Use ==
    /\ EmptySlots # {}
    /\ users' = [users EXCEPT ![Min(EmptySlots)].isUsing = TRUE,
                              ![Min(EmptySlots)].isLogin = FALSE]
    /\ UNCHANGED <<db, logins, past>>

(* Login of an approved user.  A client may have asked twice, and a late   *)
(* answer to a session that has closed logs in whoever is in its slot now, *)
(* logged in or not.  LogsInOnce: the user is logged in nowhere yet.       *)
LogsInOnce(i, u) ==
    \A j \in Slots : users[j].isUsing /\ users[j].isLogin => users[j].userID # u

Login(i, u) ==
    /\ users[i].isUsing
    /\ logins < MaxLogins
    /\ logins' = logins + 1
    /\ users' = [users EXCEPT ![i].isLogin = TRUE, ![i].userID = u,
                              ![i].login = logins', ![i].loaded = FALSE]
    /\ queue' = Append(queue, Load(i, u, logins'))
    /\ careful' = (careful /\ LogsInOnce(i, u))
    /\ reused' = (reused \/ users[i].userID \notin {u, NoUser})
    /\ UNCHANGED <<thread, answers, rows, tally, games, lost>>

(* DisConnectUser, which in effect is User.Free. *)
DisConnectUser(i) ==
    /\ users[i].isUsing
    /\ users' = [users EXCEPT ![i].isUsing = FALSE]
    /\ UNCHANGED <<db, logins, past>>

(* InResponseDbLoadUserGameData, for whoever is in the slot. *)
InResponseDbLoadUserGameData ==
    /\ answers # <<>>
    /\ LET answer == Head(answers) IN
       users' = IF users[answer.slot].isUsing
                THEN [users EXCEPT ![answer.slot].data = answer.data,
                                   ![answer.slot].loaded =
                                       @ \/ answer.login = users[answer.slot].login]
                ELSE users
    /\ answers' = Tail(answers)
    /\ UNCHANGED <<queue, thread, rows, logins, past>>

(* The users of a room have different IDs.  HasData: both had been told    *)
(* their data before they played.                                          *)
Opponents(w, l) ==
    /\ w # l
    /\ \A i \in {w, l} : users[i].isUsing /\ users[i].isLogin
    /\ users[w].userID # users[l].userID

HasData(i) == users[i].loaded

GameEnds(w, l) ==
    /\ Opponents(w, l)
    /\ games < MaxGames
    /\ games' = games + 1
    /\ tally' = [tally EXCEPT ![users[w].userID] = Win(@), ![users[l].userID] = Lose(@)]
    /\ careful' = (careful /\ HasData(w) /\ HasData(l))
    /\ UNCHANGED <<thread, answers, rows, logins, reused, lost>>

(* Mutant: the data are saved as they were before the game. *)
SaveBeforeCredit(w, l) ==
    /\ GameEnds(w, l)
    /\ users' = [users EXCEPT ![w].data = Win(@), ![l].data = Lose(@)]
    /\ queue' = queue \o <<Save(w, users[w].data), Save(l, users[l].data)>>

(* Mutant: the winner's new data are saved for both. *)
SaveWinnerTwice(w, l) ==
    /\ GameEnds(w, l)
    /\ users' = [users EXCEPT ![w].data = Win(@), ![l].data = Lose(@)]
    /\ queue' = queue \o <<Save(w, Win(users[w].data)), Save(l, Win(users[w].data))>>

(* UpdateUsersGameData.  Without data it throws: before anything happened  *)
(* if they are the winner's, after the winner got the credit otherwise.    *)
UpdateUsersGameData(w, l) ==
    /\ GameEnds(w, l)
    /\ CASE users[w].data = NoData -> UNCHANGED <<users, queue>>
         [] users[w].data # NoData /\ users[l].data = NoData ->
              users' = [users EXCEPT ![w].data = Win(@)] /\ UNCHANGED queue
         [] OTHER ->
              /\ users' = [users EXCEPT ![w].data = Win(@), ![l].data = Lose(@)]
              /\ queue' = queue \o <<Save(w, Win(users[w].data)), Save(l, Lose(users[l].data))>>
-----------------------------------------------------------------------------
(* MySqlProcessor.Process, one thread: take a job, do it, post the answer. *)
Receive(t) ==
    /\ thread[t] = Idle
    /\ queue # <<>>
    /\ thread' = [thread EXCEPT ![t] = Head(queue)]
    /\ queue' = Tail(queue)
    /\ UNCHANGED <<users, answers, rows, logins, past>>

RequestSaveUserGameData(t) ==
    /\ thread[t].kind = "save"
    /\ rows' = [rows EXCEPT ![thread[t].user] = thread[t].data]
    /\ thread' = [thread EXCEPT ![t] = Idle]
    /\ UNCHANGED <<users, queue, answers, logins, past>>

(* The row is read here and posted by DistributeAction. *)
RequestLoadUserGameData(t) ==
    /\ thread[t].kind = "load"
    /\ thread' = [thread EXCEPT ![t].kind = "answer", ![t].data = rows[thread[t].user]]
    /\ UNCHANGED <<users, queue, answers, rows, logins, past>>

DistributeAction(t) ==
    /\ thread[t].kind = "answer"
    /\ answers' = Append(answers, thread[t])
    /\ thread' = [thread EXCEPT ![t] = Idle]
    /\ UNCHANGED <<users, queue, rows, logins, past>>

(* The query fails: the exception is logged and the job forgotten. *)
QueryThrows(t) ==
    /\ thread[t].kind \in {"load", "save"}
    /\ thread' = [thread EXCEPT ![t] = Idle]
    /\ lost' = (lost \/ thread[t].kind = "save")
    /\ UNCHANGED <<users, queue, answers, rows, logins, tally, games, careful, reused>>

Process(t) ==
    \/ Receive(t) \/ RequestSaveUserGameData(t) \/ RequestLoadUserGameData(t)
    \/ DistributeAction(t) \/ QueryThrows(t)

Next ==
    \/ Use
    \/ \E i \in Slots :
          \/ \E u \in Users : Login(i, u)
          \/ DisConnectUser(i)
          \/ \E l \in Slots : UpdateUsersGameData(i, l)
    \/ InResponseDbLoadUserGameData
    \/ \E t \in DOMAIN thread : Process(t)

Spec == Init /\ [][Next]_vars
-----------------------------------------------------------------------------
(* Type invariant. *)
Record == [win : Nat, lose : Nat, level : Nat, exp : Nat]

Job == [kind : {"idle", "load", "save", "answer"}, slot : Slots,
        user : Users \cup {NoUser}, login : Nat, data : Record]

UserType == [isUsing : BOOLEAN, isLogin : BOOLEAN, userID : Users \cup {NoUser},
             data : Record, login : Nat, loaded : BOOLEAN]

TypeOK ==
    /\ users \in [Slots -> UserType]
    /\ queue \in Seq(Job) /\ answers \in Seq(Job)
    /\ \E n \in ThreadCounts : thread \in [1 .. n -> Job]
    /\ rows \in [Users -> Record] /\ tally \in [Users -> Record]
    /\ logins \in Nat /\ games \in Nat
    /\ careful \in BOOLEAN /\ reused \in BOOLEAN /\ lost \in BOOLEAN

(* Level and experience are worth the games won and lost: no more than     *)
(* these earned, and no level cost more than LevelExp and one win.         *)
Earned(d) ==
    LET earned == WinExp * d.win + LoseExp * d.lose IN
    /\ d.exp < LevelExp
    /\ LevelExp * (d.level - 1) + d.exp <= earned
    /\ earned <= (LevelExp + WinExp) * (d.level - 1) + d.exp

Records ==
    {users[i].data : i \in Slots} \cup {rows[u] : u \in Users}
        \cup {queue[k].data : k \in DOMAIN queue} \cup {answers[k].data : k \in DOMAIN answers}
        \cup {thread[t].data : t \in DOMAIN thread}

(* Counts, level and experience travel together: whatever threads, late    *)
(* answers, reused slots and lost updates do, no record anywhere mixes the *)
(* level of one moment or user with the counts of another.                 *)
LevelsAreEarned == \A d \in Records : d # NoData => Earned(d)

(* With one thread, clients that log in once at a time and play after they *)
(* were told their data, and no failed save, nothing gets lost: the newest *)
(* save of a user that is under way, or else the row, holds all games the  *)
(* user finished, and so do the data of everybody who plays.               *)
Pending    == <<thread[1]>> \o queue
SavesOf(u) == {k \in DOMAIN Pending : Pending[k].kind = "save" /\ Pending[k].user = u}
Newest(u)  == IF SavesOf(u) = {} THEN rows[u] ELSE Pending[Max(SavesOf(u))].data

OneThreadKeepsRecords ==
    careful /\ ~lost /\ DOMAIN thread = {1} =>
        /\ \A u \in Users : Newest(u) = tally[u]
        /\ \A i \in Slots : users[i].isUsing /\ users[i].isLogin /\ HasData(i) =>
              users[i].data = tally[users[i].userID]

(* With several threads results do get lost, but as long as no slot goes   *)
(* from one user to another nobody is credited with a game he did not      *)
(* play, however loads and saves fail or overtake each other, and be he    *)
(* logged in twice.                                                        *)
NothingInvented ==
    ~reused =>
        \A u \in Users : rows[u].win <= tally[u].win /\ rows[u].lose <= tally[u].lose
=============================================================================
