-------------------------- MODULE GameRecordProofs --------------------------
(***************************************************************************)
(* Proofs about module GameRecord, for any number of users, slots, threads *)
(* and games: whatever gets lost or overtaken, the level and experience of *)
(* every record are worth the games the record counts.                     *)
(***************************************************************************)
EXTENDS GameRecord, SequenceTheorems, WellFoundedInduction, TLAPS

(* A record as it may be anywhere; a job that carries one.                 *)
GoodRecord == {d \in Record : d = NoData \/ Earned(d)}
GoodUser   == {v \in UserType : v.data \in GoodRecord}
GoodJob    == {j \in Job : j.data \in GoodRecord /\ (j.kind = "load" => j.user \in Users)}

(* The inductive invariant: all records are good. *)
RecordInv ==
    /\ users \in [Slots -> GoodUser]
    /\ queue \in Seq(GoodJob) /\ answers \in Seq(GoodJob)
    /\ \E n \in ThreadCounts : thread \in [1 .. n -> GoodJob]
    /\ rows \in [Users -> GoodRecord]
    /\ tally \in [Users -> Record]
    /\ logins \in Nat /\ games \in Nat
    /\ careful \in BOOLEAN /\ reused \in BOOLEAN /\ lost \in BOOLEAN
-----------------------------------------------------------------------------
(* What a game adds to a record. *)
LEMMA UpdateExpIs ==
    ASSUME NEW d \in Record, NEW exp \in Nat
    PROVE  LET k == UpdateExp(d, exp) IN
           /\ k \in Record /\ k.win = d.win /\ k.lose = d.lose
           /\ IF d.exp + exp >= LevelExp THEN k.level = d.level + 1 /\ k.exp = 0
              ELSE k.level = d.level /\ k.exp = d.exp + exp
<1>1. d.exp \in Nat /\ d.level + 1 \in Nat /\ d.exp + exp \in Nat
  BY DEF Record
<1>2. CASE d.exp + exp >= LevelExp
  <2> DEFINE n == d.level + 1
  <2>1. UpdateExp(d, exp) = [d EXCEPT !.level = n, !.exp = 0]
    BY <1>2 DEF UpdateExp
  <2>2. n \in Nat
    BY <1>1
  <2> HIDE DEF n
  <2>3. LET k == [d EXCEPT !.level = n, !.exp = 0] IN
        k \in Record /\ k.win = d.win /\ k.lose = d.lose /\ k.level = n /\ k.exp = 0
    BY <2>2 DEF Record
  <2> QED BY <1>2, <2>1, <2>3 DEF n
<1>3. CASE ~(d.exp + exp >= LevelExp)
  <2>1. UpdateExp(d, exp) = [d EXCEPT !.exp = d.exp + exp]
    BY <1>3 DEF UpdateExp
  <2>2. LET k == [d EXCEPT !.exp = d.exp + exp] IN
        /\ k \in Record /\ k.win = d.win /\ k.lose = d.lose
        /\ k.level = d.level /\ k.exp = d.exp + exp
    BY <1>1 DEF Record
  <2> QED BY <1>3, <2>1, <2>2
<1> QED BY <1>2, <1>3

LEMMA WinLoseType ==
    ASSUME NEW d \in Record
    PROVE  Win(d) \in Record /\ Lose(d) \in Record
<1>1. [d EXCEPT !.win = @ + 1] \in Record /\ [d EXCEPT !.lose = @ + 1] \in Record
  BY DEF Record
<1> QED BY <1>1, UpdateExpIs, GameRecordAssumption DEF Win, Lose

(* The arithmetic of a level: e is what the games before were worth, x the *)
(* experience above level l, g what the game is worth.                     *)
LEMMA LevelArithmetic ==
    ASSUME NEW e \in Int, NEW x \in Nat, NEW l \in Int, NEW g \in Nat, g <= WinExp,
           x < LevelExp,
           LevelExp * l + x <= e, e <= (LevelExp + WinExp) * l + x
    PROVE  IF x + g >= LevelExp
           THEN /\ LevelExp * (l + 1) <= e + g
                /\ e + g <= (LevelExp + WinExp) * (l + 1)
           ELSE /\ LevelExp * l + (x + g) <= e + g
                /\ e + g <= (LevelExp + WinExp) * l + (x + g)
<1>1. LevelExp \in Nat /\ WinExp \in Nat
  BY GameRecordAssumption
<1> DEFINE a == LevelExp * l
           b == (LevelExp + WinExp) * l
<1>2. a \in Int /\ b \in Int
  BY <1>1
<1>3. /\ LevelExp * (l + 1) = a + LevelExp
      /\ (LevelExp + WinExp) * (l + 1) = b + (LevelExp + WinExp)
  BY <1>1
<1>4. a + x <= e /\ e <= b + x
  OBVIOUS
<1> HIDE DEF a, b
<1>5. IF x + g >= LevelExp
      THEN a + LevelExp <= e + g /\ e + g <= b + (LevelExp + WinExp)
      ELSE a + (x + g) <= e + g /\ e + g <= b + (x + g)
  BY <1>1, <1>2, <1>4
<1> QED BY <1>3, <1>5 DEF a, b

(* A record that is worth its games still is when one more is added.       *)
LEMMA AddGame ==
    ASSUME NEW d \in Record, Earned(d), NEW n \in Record,
           NEW g \in Nat, g <= WinExp,
           WinExp * n.win + LoseExp * n.lose = WinExp * d.win + LoseExp * d.lose + g,
           IF d.exp + g >= LevelExp THEN n.level = d.level + 1 /\ n.exp = 0
           ELSE n.level = d.level /\ n.exp = d.exp + g
    PROVE  Earned(n)
<1> DEFINE e == WinExp * d.win + LoseExp * d.lose
           f == WinExp * n.win + LoseExp * n.lose
           l == d.level - 1
<1>1. /\ WinExp \in Nat /\ LoseExp \in Nat /\ LevelExp \in Nat /\ LevelExp > 0
      /\ d.win \in Nat /\ d.lose \in Nat /\ d.exp \in Nat /\ d.level \in Nat
      /\ n.win \in Nat /\ n.lose \in Nat /\ n.exp \in Nat /\ n.level \in Nat
  BY GameRecordAssumption DEF Record
<1>2. e \in Int /\ f \in Int /\ l \in Int /\ f = e + g
  BY <1>1
<1>3. d.exp < LevelExp /\ LevelExp * l + d.exp <= e /\ e <= (LevelExp + WinExp) * l + d.exp
  BY DEF Earned
<1> SUFFICES /\ n.exp < LevelExp /\ LevelExp * (n.level - 1) + n.exp <= f
             /\ f <= (LevelExp + WinExp) * (n.level - 1) + n.exp
  BY DEF Earned
<1> HIDE DEF e, f
<1>4. IF d.exp + g >= LevelExp
      THEN LevelExp * (l + 1) <= e + g /\ e + g <= (LevelExp + WinExp) * (l + 1)
      ELSE /\ LevelExp * l + (d.exp + g) <= e + g
           /\ e + g <= (LevelExp + WinExp) * l + (d.exp + g)
  BY <1>1, <1>2, <1>3, LevelArithmetic
<1>5. CASE d.exp + g >= LevelExp
  <2>1. n.level - 1 = l + 1 /\ n.exp = 0
    BY <1>1, <1>5
  <2>2. /\ LevelExp * (n.level - 1) <= f /\ f <= (LevelExp + WinExp) * (n.level - 1)
    BY <1>2, <1>4, <1>5, <2>1
  <2>3. LevelExp * (n.level - 1) \in Int /\ (LevelExp + WinExp) * (n.level - 1) \in Int
    BY <1>1
  <2> QED BY <1>1, <2>1, <2>2, <2>3
<1>6. CASE ~(d.exp + g >= LevelExp)
  <2>1. n.level - 1 = l /\ n.exp = d.exp + g
    BY <1>6
  <2> QED BY <1>1, <1>2, <1>4, <1>6, <2>1
<1> QED BY <1>5, <1>6

(* So a good record, unless it is no record at all, stays good.            *)
LEMMA WinLoseGood ==
    ASSUME NEW d \in GoodRecord, d # NoData
    PROVE  Win(d) \in GoodRecord /\ Lose(d) \in GoodRecord
<1>1. d \in Record /\ Earned(d) /\ Win(d) \in Record /\ Lose(d) \in Record
  BY WinLoseType DEF GoodRecord
<1>2. /\ WinExp \in Nat /\ LoseExp \in Nat /\ LoseExp <= WinExp
      /\ d.win \in Nat /\ d.lose \in Nat /\ d.exp \in Nat
  BY <1>1, GameRecordAssumption DEF Record
<1>3. /\ Win(d).win = d.win + 1 /\ Win(d).lose = d.lose
      /\ IF d.exp + WinExp >= LevelExp THEN Win(d).level = d.level + 1 /\ Win(d).exp = 0
         ELSE Win(d).level = d.level /\ Win(d).exp = d.exp + WinExp
  <2> DEFINE k == [d EXCEPT !.win = @ + 1]
  <2>1. /\ k \in Record /\ k.win = d.win + 1 /\ k.lose = d.lose /\ k.level = d.level
        /\ k.exp = d.exp
    BY <1>1 DEF Record
  <2> HIDE DEF k
  <2>2. Win(d) = UpdateExp(k, WinExp)
    BY DEF Win, k
  <2>3. LET m == UpdateExp(k, WinExp) IN
        /\ m.win = k.win /\ m.lose = k.lose
        /\ IF k.exp + WinExp >= LevelExp THEN m.level = k.level + 1 /\ m.exp = 0
           ELSE m.level = k.level /\ m.exp = k.exp + WinExp
    BY <1>2, <2>1, UpdateExpIs
  <2> QED BY <2>1, <2>2, <2>3
<1>4. /\ Lose(d).win = d.win /\ Lose(d).lose = d.lose + 1
      /\ IF d.exp + LoseExp >= LevelExp THEN Lose(d).level = d.level + 1 /\ Lose(d).exp = 0
         ELSE Lose(d).level = d.level /\ Lose(d).exp = d.exp + LoseExp
  <2> DEFINE k == [d EXCEPT !.lose = @ + 1]
  <2>1. /\ k \in Record /\ k.win = d.win /\ k.lose = d.lose + 1 /\ k.level = d.level
        /\ k.exp = d.exp
    BY <1>1 DEF Record
  <2> HIDE DEF k
  <2>2. Lose(d) = UpdateExp(k, LoseExp)
    BY DEF Lose, k
  <2>3. LET m == UpdateExp(k, LoseExp) IN
        /\ m.win = k.win /\ m.lose = k.lose
        /\ IF k.exp + LoseExp >= LevelExp THEN m.level = k.level + 1 /\ m.exp = 0
           ELSE m.level = k.level /\ m.exp = k.exp + LoseExp
    BY <1>2, <2>1, UpdateExpIs
  <2> QED BY <2>1, <2>2, <2>3
<1>5. WinExp * (d.win + 1) + LoseExp * d.lose = WinExp * d.win + LoseExp * d.lose + WinExp
  BY <1>2
<1>6. WinExp * d.win + LoseExp * (d.lose + 1) = WinExp * d.win + LoseExp * d.lose + LoseExp
  BY <1>2
<1>7. Earned(Win(d))
  <2> DEFINE n == Win(d)
  <2>1. WinExp * n.win + LoseExp * n.lose = WinExp * d.win + LoseExp * d.lose + WinExp
    BY <1>3, <1>5
  <2> QED BY <1>1, <1>2, <1>3, <2>1, AddGame
<1>8. Earned(Lose(d))
  <2> DEFINE n == Lose(d)
  <2>1. WinExp * n.win + LoseExp * n.lose = WinExp * d.win + LoseExp * d.lose + LoseExp
    BY <1>4, <1>6
  <2> QED BY <1>1, <1>2, <1>4, <2>1, AddGame
<1> QED BY <1>1, <1>7, <1>8 DEF GoodRecord
-----------------------------------------------------------------------------
(* Records and jobs that come without games. *)
LEMMA NewIsGood ==
    /\ NewRow \in GoodRecord /\ NewRow \in Record /\ NoData \in GoodRecord /\ NoData \in Record
    /\ NewUser \in GoodUser
<1>1. WinExp \in Nat /\ LoseExp \in Nat /\ LevelExp \in Nat /\ LevelExp > 0
  BY GameRecordAssumption
<1>2. NewRow \in Record /\ NoData \in Record
  BY DEF NewRow, NoData, Record
<1>3. /\ WinExp * 0 = 0 /\ LoseExp * 0 = 0 /\ LevelExp * 0 = 0
      /\ (LevelExp + WinExp) * 0 = 0
  BY <1>1
<1>4. /\ NewRow.win = 0 /\ NewRow.lose = 0 /\ NewRow.level - 1 = 0 /\ NewRow.exp = 0
  BY DEF NewRow
<1>5. Earned(NewRow)
  BY <1>1, <1>3, <1>4 DEF Earned
<1>6. NewUser \in UserType /\ NewUser.data = NoData
  BY <1>2 DEF NewUser, UserType
<1> QED BY <1>2, <1>5, <1>6 DEF GoodRecord, GoodUser

LEMMA JobsAreGood ==
    ASSUME NEW i \in Slots
    PROVE  /\ Idle \in GoodJob
           /\ \A u \in Users, n \in Nat : Load(i, u, n) \in GoodJob
           /\ \A d \in GoodRecord : users[i].userID \in Users \cup {NoUser}
                 => Save(i, d) \in GoodJob
<1>1. NoData \in Record /\ NoData \in GoodRecord
  BY NewIsGood
<1>2. 0 \in Slots
  BY GameRecordAssumption DEF Slots
<1>3. Idle \in GoodJob
  BY <1>1, <1>2 DEF Idle, GoodJob, Job
<1>4. ASSUME NEW u \in Users, NEW n \in Nat PROVE Load(i, u, n) \in GoodJob
  <2>1. \A j \in GoodJob :
           [j EXCEPT !.kind = "load", !.slot = i, !.user = u, !.login = n] \in GoodJob
    BY DEF GoodJob, Job
  <2> QED BY <1>3, <2>1 DEF Load
<1>5. ASSUME NEW d \in GoodRecord, users[i].userID \in Users \cup {NoUser}
      PROVE  Save(i, d) \in GoodJob
  <2>1. d \in Record
    BY DEF GoodRecord
  <2>2. \A j \in GoodJob, v \in Users \cup {NoUser} :
           [j EXCEPT !.kind = "save", !.slot = i, !.user = v, !.data = d] \in GoodJob
    BY <2>1 DEF GoodJob, Job
  <2> QED BY <1>3, <1>5, <2>2 DEF Save
<1> QED BY <1>3, <1>4, <1>5

(* What is written into a slot keeps it well typed, and its record good.   *)
LEMMA SlotIsGood ==
    ASSUME NEW v \in GoodUser
    PROVE  /\ [v EXCEPT !.isUsing = TRUE, !.isLogin = FALSE] \in GoodUser
           /\ [v EXCEPT !.isUsing = FALSE] \in GoodUser
           /\ \A u \in Users, n \in Nat :
                 [v EXCEPT !.isLogin = TRUE, !.userID = u, !.login = n, !.loaded = FALSE]
                    \in GoodUser
           /\ \A d \in GoodRecord : [v EXCEPT !.data = d] \in GoodUser
           /\ \A d \in GoodRecord, b \in BOOLEAN :
                 [v EXCEPT !.data = d, !.loaded = b] \in GoodUser
<1>1. \A d \in GoodRecord : d \in Record
  BY DEF GoodRecord
<1>2. /\ [v EXCEPT !.isUsing = TRUE, !.isLogin = FALSE] \in GoodUser
      /\ [v EXCEPT !.isUsing = FALSE] \in GoodUser
  BY DEF GoodUser, UserType
<1>3. ASSUME NEW u \in Users, NEW n \in Nat
      PROVE  [v EXCEPT !.isLogin = TRUE, !.userID = u, !.login = n, !.loaded = FALSE] \in GoodUser
  BY DEF GoodUser, UserType
<1>4. ASSUME NEW d \in GoodRecord, NEW b \in BOOLEAN
      PROVE  [v EXCEPT !.data = d] \in GoodUser /\ [v EXCEPT !.data = d, !.loaded = b] \in GoodUser
  BY <1>1 DEF GoodUser, UserType
<1> QED BY <1>2, <1>3, <1>4

(* The invariant holds at the start. *)
LEMMA InitInv == Init => RecordInv
<1> SUFFICES ASSUME Init PROVE RecordInv
  OBVIOUS
<1>1. Idle \in GoodJob
  BY JobsAreGood, GameRecordAssumption DEF Slots
<1>2. users \in [Slots -> GoodUser] /\ rows \in [Users -> GoodRecord]
      /\ tally \in [Users -> Record]
  BY NewIsGood DEF Init
<1>3. queue \in Seq(GoodJob) /\ answers \in Seq(GoodJob)
  BY DEF Init
<1>4. \E n \in ThreadCounts : thread \in [1 .. n -> GoodJob]
  BY <1>1 DEF Init
<1>5. /\ logins \in Nat /\ games \in Nat
      /\ careful \in BOOLEAN /\ reused \in BOOLEAN /\ lost \in BOOLEAN
  BY DEF Init
<1> QED BY <1>2, <1>3, <1>4, <1>5 DEF RecordInv

(* Connections: a slot is taken, logged in or freed; nobody's record is    *)
(* touched, and a load is asked for.                                       *)
LEMMA ConnectionInv ==
    ASSUME RecordInv,
           Use \/ \E i \in Slots : DisConnectUser(i) \/ \E u \in Users : Login(i, u)
    PROVE  RecordInv'
<1>1. CASE Use
  <2>1. users' \in [Slots -> GoodUser]
    <3> DEFINE j == Min(EmptySlots)
    <3>1. users' = [users EXCEPT ![j].isUsing = TRUE, ![j].isLogin = FALSE]
      BY <1>1 DEF Use
    <3> HIDE DEF j
    <3>2. users' = [users EXCEPT ![j] = [@ EXCEPT !.isUsing = TRUE, !.isLogin = FALSE]]
      BY <3>1
    <3> QED BY <3>2, SlotIsGood DEF RecordInv
  <2> QED BY <1>1, <2>1 DEF Use, db, past, RecordInv
<1>2. ASSUME NEW i \in Slots, DisConnectUser(i) PROVE RecordInv'
  <2>1. users' \in [Slots -> GoodUser]
    BY <1>2, SlotIsGood DEF DisConnectUser, RecordInv
  <2> QED BY <1>2, <2>1 DEF DisConnectUser, db, past, RecordInv
<1>3. ASSUME NEW i \in Slots, NEW u \in Users, Login(i, u) PROVE RecordInv'
  <2>1. logins' \in Nat
    <3>1. logins' = logins + 1
      BY <1>3 DEF Login
    <3>2. logins \in Nat
      BY DEF RecordInv
    <3> QED BY <3>1, <3>2
  <2>2. users' \in [Slots -> GoodUser]
    <3> DEFINE n == logins'
    <3>1. users' = [users EXCEPT ![i].isLogin = TRUE, ![i].userID = u,
                                 ![i].login = n, ![i].loaded = FALSE]
      BY <1>3 DEF Login
    <3>2. n \in Nat
      BY <2>1
    <3> HIDE DEF n
    <3>3. [users[i] EXCEPT !.isLogin = TRUE, !.userID = u, !.login = n, !.loaded = FALSE]
             \in GoodUser
      BY <3>2, SlotIsGood DEF RecordInv
    <3> QED BY <3>1, <3>3 DEF RecordInv
  <2>3. queue' \in Seq(GoodJob)
    <3>1. Load(i, u, logins') \in GoodJob
      BY <2>1, JobsAreGood
    <3> QED BY <1>3, <3>1, AppendProperties DEF Login, RecordInv
  <2>4. careful' \in BOOLEAN /\ reused' \in BOOLEAN
    BY <1>3 DEF Login, RecordInv
  <2> QED BY <1>3, <2>1, <2>2, <2>3, <2>4 DEF Login, RecordInv
<1> QED BY <1>1, <1>2, <1>3

(* An answer is written into the slot its load was made for. *)
LEMMA AnswerInv ==
    ASSUME RecordInv, InResponseDbLoadUserGameData
    PROVE  RecordInv'
<1> DEFINE a == Head(answers)
           b == users[a.slot].loaded \/ a.login = users[a.slot].login
<1>1. answers \in Seq(GoodJob) /\ answers # <<>>
  BY DEF InResponseDbLoadUserGameData, RecordInv
<1>2. a \in GoodJob /\ Tail(answers) \in Seq(GoodJob)
  BY <1>1, HeadTailProperties
<1>3. a.slot \in Slots /\ a.data \in GoodRecord
  BY <1>2 DEF GoodJob, Job
<1>4. b \in BOOLEAN
  BY <1>3 DEF RecordInv, GoodUser, UserType
<1>5. users' = IF users[a.slot].isUsing
               THEN [users EXCEPT ![a.slot].data = a.data, ![a.slot].loaded = b]
               ELSE users
  BY DEF InResponseDbLoadUserGameData
<1> HIDE DEF a, b
<1>6. [users[a.slot] EXCEPT !.data = a.data, !.loaded = b] \in GoodUser
  BY <1>3, <1>4, SlotIsGood DEF RecordInv
<1>7. users' \in [Slots -> GoodUser]
  BY <1>5, <1>6 DEF RecordInv
<1>8. answers' \in Seq(GoodJob)
  BY <1>2 DEF InResponseDbLoadUserGameData, a
<1> QED BY <1>7, <1>8 DEF InResponseDbLoadUserGameData, past, RecordInv

(* The end of a game: good records become good records, or it throws.      *)
LEMMA GameInv ==
    ASSUME RecordInv, NEW w \in Slots, NEW l \in Slots, UpdateUsersGameData(w, l)
    PROVE  RecordInv'
<1> DEFINE dw == users[w].data
           dl == users[l].data
           uw == users[w].userID
           ul == users[l].userID
<1>1. /\ users[w] \in GoodUser /\ users[l] \in GoodUser
      /\ dw \in GoodRecord /\ dl \in GoodRecord
      /\ uw \in Users \cup {NoUser} /\ ul \in Users \cup {NoUser}
  BY DEF RecordInv, GoodUser, UserType
<1>2. GameEnds(w, l)
  BY DEF UpdateUsersGameData
<1>3. games' \in Nat
  <2>1. games' = games + 1
    BY <1>2 DEF GameEnds
  <2>2. games \in Nat
    BY DEF RecordInv
  <2> QED BY <2>1, <2>2
<1>4. tally' \in [Users -> Record]
  <2>1. \A d \in Record : Win(d) \in Record /\ Lose(d) \in Record
    BY WinLoseType
  <2>2. tally \in [Users -> Record]
    BY DEF RecordInv
  <2>3. tally' = [tally EXCEPT ![uw] = Win(@), ![ul] = Lose(@)]
    BY <1>2 DEF GameEnds
  <2>4. uw # ul
    BY <1>2 DEF GameEnds, Opponents
  <2> HIDE DEF uw, ul
  <2>5. tally' = [x \in Users |-> IF x = uw THEN Win(tally[x])
                                   ELSE IF x = ul THEN Lose(tally[x]) ELSE tally[x]]
    BY <2>2, <2>3, <2>4
  <2> QED BY <2>1, <2>2, <2>5
<1>5. careful' \in BOOLEAN
  <2>1. careful' = (careful /\ HasData(w) /\ HasData(l))
    BY <1>2 DEF GameEnds
  <2> QED BY <2>1, Zenon
<1>6. users' \in [Slots -> GoodUser] /\ queue' \in Seq(GoodJob)
  <2>1. CASE dw = NoData
    BY <2>1 DEF UpdateUsersGameData, RecordInv
  <2>2. CASE dw # NoData /\ dl = NoData
    <3>1. users' = [users EXCEPT ![w].data = Win(@)] /\ queue' = queue
      BY <2>2 DEF UpdateUsersGameData
    <3>2. [users[w] EXCEPT !.data = Win(dw)] \in GoodUser
      BY <1>1, <2>2, WinLoseGood, SlotIsGood
    <3> QED BY <3>1, <3>2 DEF RecordInv
  <2>3. CASE dw # NoData /\ dl # NoData
    <3>1. /\ users' = [users EXCEPT ![w].data = Win(@), ![l].data = Lose(@)]
          /\ queue' = queue \o <<Save(w, Win(dw)), Save(l, Lose(dl))>>
      BY <2>3 DEF UpdateUsersGameData
    <3>2. w # l
      BY <1>2 DEF GameEnds, Opponents
    <3>3. Win(dw) \in GoodRecord /\ Lose(dl) \in GoodRecord
      BY <1>1, <2>3, WinLoseGood
    <3>4. /\ [users[w] EXCEPT !.data = Win(dw)] \in GoodUser
          /\ [users[l] EXCEPT !.data = Lose(dl)] \in GoodUser
      BY <1>1, <3>3, SlotIsGood
    <3>5. users' = [users EXCEPT ![w] = [users[w] EXCEPT !.data = Win(dw)],
                                 ![l] = [users[l] EXCEPT !.data = Lose(dl)]]
      BY <3>1, <3>2 DEF RecordInv
    <3>6. Save(w, Win(dw)) \in GoodJob /\ Save(l, Lose(dl)) \in GoodJob
      BY <1>1, <3>3, JobsAreGood
    <3>7. queue' \in Seq(GoodJob)
      BY <3>1, <3>6, ConcatProperties DEF RecordInv
    <3> QED BY <3>4, <3>5, <3>7 DEF RecordInv
  <2> QED BY <2>1, <2>2, <2>3
<1> QED BY <1>2, <1>3, <1>4, <1>5, <1>6 DEF GameEnds, RecordInv

(* The database threads carry records about and write them to rows. *)
LEMMA ThreadInv ==
    ASSUME RecordInv, NEW t \in DOMAIN thread, Process(t)
    PROVE  RecordInv'
<1>1. PICK n \in ThreadCounts : thread \in [1 .. n -> GoodJob]
  BY DEF RecordInv
<1>2. t \in 1 .. n /\ thread[t] \in GoodJob
  BY <1>1
<1>3. Idle \in GoodJob
  BY JobsAreGood, GameRecordAssumption DEF Slots
<1>4. CASE Receive(t)
  <2>1. queue \in Seq(GoodJob) /\ queue # <<>>
    BY <1>4 DEF Receive, RecordInv
  <2>2. Head(queue) \in GoodJob /\ Tail(queue) \in Seq(GoodJob)
    BY <2>1, HeadTailProperties
  <2>3. thread' \in [1 .. n -> GoodJob] /\ queue' \in Seq(GoodJob)
    BY <1>1, <1>4, <2>2 DEF Receive
  <2> QED BY <1>4, <2>3 DEF Receive, past, RecordInv
<1>5. CASE RequestSaveUserGameData(t)
  <2>1. thread[t].data \in GoodRecord
    BY <1>2 DEF GoodJob
  <2>2. rows' \in [Users -> GoodRecord] /\ thread' \in [1 .. n -> GoodJob]
    BY <1>1, <1>3, <1>5, <2>1 DEF RequestSaveUserGameData, RecordInv
  <2> QED BY <1>5, <2>2 DEF RequestSaveUserGameData, past, RecordInv
<1>6. CASE RequestLoadUserGameData(t)
  <2>1. thread[t].user \in Users
    BY <1>2, <1>6 DEF RequestLoadUserGameData, GoodJob
  <2> DEFINE d == rows[thread[t].user]
             k == [thread[t] EXCEPT !.kind = "answer", !.data = d]
  <2>2. d \in GoodRecord /\ d \in Record
    BY <2>1 DEF RecordInv, GoodRecord
  <2> HIDE DEF d
  <2>3. k \in GoodJob
    BY <1>2, <2>2 DEF GoodJob, Job
  <2>4. thread' = [thread EXCEPT ![t] = k]
    BY <1>1, <1>6 DEF RequestLoadUserGameData, d
  <2> HIDE DEF k
  <2>5. thread' \in [1 .. n -> GoodJob]
    BY <1>1, <2>3, <2>4
  <2> QED BY <1>6, <2>5 DEF RequestLoadUserGameData, past, RecordInv
<1>7. CASE DistributeAction(t)
  <2>1. thread' \in [1 .. n -> GoodJob]
    BY <1>1, <1>3, <1>7 DEF DistributeAction
  <2>2. answers' \in Seq(GoodJob)
    BY <1>2, <1>7, AppendProperties DEF DistributeAction, RecordInv
  <2> QED BY <1>7, <2>1, <2>2 DEF DistributeAction, past, RecordInv
<1>8. CASE QueryThrows(t)
  <2>1. thread' \in [1 .. n -> GoodJob] /\ lost' \in BOOLEAN
    BY <1>1, <1>3, <1>8 DEF QueryThrows, RecordInv
  <2> QED BY <1>8, <2>1 DEF QueryThrows, RecordInv
<1> QED BY <1>4, <1>5, <1>6, <1>7, <1>8 DEF Process

LEMMA NextInv == RecordInv /\ [Next]_vars => RecordInv'
<1> SUFFICES ASSUME RecordInv, [Next]_vars PROVE RecordInv'
  OBVIOUS
<1>1. CASE Use \/ \E i \in Slots : DisConnectUser(i) \/ \E u \in Users : Login(i, u)
  BY <1>1, ConnectionInv
<1>2. CASE InResponseDbLoadUserGameData
  BY <1>2, AnswerInv
<1>3. CASE \E w, l \in Slots : UpdateUsersGameData(w, l)
  BY <1>3, GameInv
<1>4. CASE \E t \in DOMAIN thread : Process(t)
  BY <1>4, ThreadInv
<1>5. CASE UNCHANGED vars
  BY <1>5 DEF vars, db, past, RecordInv
<1> QED BY <1>1, <1>2, <1>3, <1>4, <1>5 DEF Next

THEOREM Invariance == Spec => []RecordInv
BY InitInv, NextInv, PTL DEF Spec
-----------------------------------------------------------------------------
(* Type correctness: game data, rows and jobs are records of counts and    *)
(* levels, whatever threads and late answers do.                           *)
THEOREM TypeCorrect == Spec => []TypeOK
<1>1. ASSUME RecordInv PROVE TypeOK
  <2>1. users \in [Slots -> UserType] /\ rows \in [Users -> Record]
    BY <1>1 DEF RecordInv, GoodUser, GoodRecord
  <2>2. GoodJob \subseteq Job
    BY DEF GoodJob
  <2>3. queue \in Seq(Job) /\ answers \in Seq(Job)
    BY <1>1, <2>2 DEF RecordInv
  <2>4. \E n \in ThreadCounts : thread \in [1 .. n -> Job]
    BY <1>1, <2>2 DEF RecordInv
  <2> QED BY <1>1, <2>1, <2>3, <2>4 DEF RecordInv, TypeOK
<1> QED BY <1>1, Invariance, PTL

(* UpdateExp throws away what is over a level, saves overtake loads and    *)
(* each other, a late answer lands in another user's slot: still the level *)
(* and experience of each record are worth the games that record counts.   *)
THEOREM LevelsStayEarned == Spec => []LevelsAreEarned
<1>1. ASSUME RecordInv, NEW d \in Records, d # NoData PROVE Earned(d)
  <2>1. \A j \in GoodJob : j.data \in GoodRecord
    BY DEF GoodJob
  <2>2. CASE \E i \in Slots : d = users[i].data
    BY <1>1, <2>2 DEF RecordInv, GoodUser, GoodRecord
  <2>3. CASE \E u \in Users : d = rows[u]
    BY <1>1, <2>3 DEF RecordInv, GoodRecord
  <2>4. CASE \E k \in DOMAIN queue : d = queue[k].data
    <3>1. \A k \in DOMAIN queue : queue[k] \in GoodJob
      BY <1>1, ElementOfSeq DEF RecordInv
    <3> QED BY <1>1, <2>1, <2>4, <3>1 DEF GoodRecord
  <2>5. CASE \E k \in DOMAIN answers : d = answers[k].data
    <3>1. \A k \in DOMAIN answers : answers[k] \in GoodJob
      BY <1>1, ElementOfSeq DEF RecordInv
    <3> QED BY <1>1, <2>1, <2>5, <3>1 DEF GoodRecord
  <2>6. CASE \E t \in DOMAIN thread : d = thread[t].data
    BY <1>1, <2>1, <2>6 DEF RecordInv, GoodRecord
  <2> QED BY <1>1, <2>2, <2>3, <2>4, <2>5, <2>6 DEF Records
<1>2. ASSUME RecordInv PROVE LevelsAreEarned
  BY <1>1, <1>2 DEF LevelsAreEarned
<1> QED BY <1>2, Invariance, PTL
-----------------------------------------------------------------------------
(* No game is invented.  As long as no slot has gone from one user to      *)
(* another, a job is about the user whose ID its slot has, and no record   *)
(* under way or at rest counts a game that its user has not played.        *)
NoMore(d, n) == d.win <= n.win /\ d.lose <= n.lose

OwnJob(j, us, ta) ==
    j.kind # "idle" =>
       /\ j.user \in Users
       /\ us[j.slot].userID = j.user
       /\ NoMore(j.data, ta[j.user])

OwnData(v, ta) ==
    /\ v.isLogin => v.userID \in Users
    /\ NoMore(v.data, IF v.userID \in Users THEN ta[v.userID] ELSE NoData)

OwnJobs(q, us, ta) == \A k \in DOMAIN q : OwnJob(q[k], us, ta)

OwnRecords ==
    /\ \A u \in Users : NoMore(rows[u], tally[u])
    /\ \A i \in Slots : OwnData(users[i], tally)
    /\ OwnJobs(queue, users, tally) /\ OwnJobs(answers, users, tally)
    /\ OwnJobs(thread, users, tally)
    /\ \A k \in DOMAIN answers : answers[k].kind = "answer"

CreditInv == RecordInv /\ (~reused => OwnRecords)

(* A game more is a win or a defeat more.                                  *)
LEMMA WinLoseCounts ==
    ASSUME NEW d \in Record
    PROVE  /\ Win(d) \in Record /\ Win(d).win = d.win + 1 /\ Win(d).lose = d.lose
           /\ Lose(d) \in Record /\ Lose(d).win = d.win /\ Lose(d).lose = d.lose + 1
           /\ Win(d).level >= d.level /\ Lose(d).level >= d.level
<1>0. WinExp \in Nat /\ LoseExp \in Nat /\ d.level \in Nat
  BY GameRecordAssumption DEF Record
<1>1. Win(d) \in Record /\ Win(d).win = d.win + 1 /\ Win(d).lose = d.lose /\ Win(d).level >= d.level
  <2> DEFINE k == [d EXCEPT !.win = @ + 1]
  <2>1. k \in Record /\ k.win = d.win + 1 /\ k.lose = d.lose /\ k.level = d.level
    BY DEF Record
  <2> HIDE DEF k
  <2>2. Win(d) = UpdateExp(k, WinExp)
    BY DEF Win, k
  <2>3. LET m == UpdateExp(k, WinExp) IN
        /\ m \in Record /\ m.win = k.win /\ m.lose = k.lose
        /\ m.level = k.level + 1 \/ m.level = k.level
    BY <1>0, <2>1, UpdateExpIs
  <2> QED BY <1>0, <2>1, <2>2, <2>3
<1>2. Lose(d) \in Record /\ Lose(d).win = d.win /\ Lose(d).lose = d.lose + 1 /\ Lose(d).level >= d.level
  <2> DEFINE k == [d EXCEPT !.lose = @ + 1]
  <2>1. k \in Record /\ k.win = d.win /\ k.lose = d.lose + 1 /\ k.level = d.level
    BY DEF Record
  <2> HIDE DEF k
  <2>2. Lose(d) = UpdateExp(k, LoseExp)
    BY DEF Lose, k
  <2>3. LET m == UpdateExp(k, LoseExp) IN
        /\ m \in Record /\ m.win = k.win /\ m.lose = k.lose
        /\ m.level = k.level + 1 \/ m.level = k.level
    BY <1>0, <2>1, UpdateExpIs
  <2> QED BY <1>0, <2>1, <2>2, <2>3
<1> QED BY <1>1, <1>2

(* What a queue is without its first element, and with one more, or two.  *)
LEMMA TailIs ==
    ASSUME NEW S, NEW q \in Seq(S), q # <<>>
    PROVE  /\ 1 \in DOMAIN q /\ Head(q) = q[1] /\ Head(q) \in S /\ Tail(q) \in Seq(S)
           /\ DOMAIN Tail(q) \subseteq Nat \ {0}
           /\ \A k \in DOMAIN Tail(q) : k + 1 \in DOMAIN q /\ Tail(q)[k] = q[k + 1]
           /\ \A k \in DOMAIN q : k = 1 \/ (k - 1 \in DOMAIN Tail(q) /\ Tail(q)[k - 1] = q[k])
OBVIOUS

LEMMA AppendIs ==
    ASSUME NEW S, NEW q \in Seq(S), NEW x \in S
    PROVE  /\ Append(q, x) \in Seq(S)
           /\ DOMAIN Append(q, x) = 1 .. Len(q) + 1
           /\ DOMAIN q = 1 .. Len(q) /\ Len(q) \in Nat
           /\ \A k \in DOMAIN q : Append(q, x)[k] = q[k]
           /\ Append(q, x)[Len(q) + 1] = x
OBVIOUS

LEMMA TwoMoreIs ==
    ASSUME NEW S, NEW q \in Seq(S), NEW x \in S, NEW y \in S
    PROVE  LET r == q \o <<x, y>> IN
           /\ r \in Seq(S)
           /\ DOMAIN r = 1 .. Len(q) + 2
           /\ DOMAIN q = 1 .. Len(q) /\ Len(q) \in Nat
           /\ \A k \in DOMAIN q : r[k] = q[k]
           /\ r[Len(q) + 1] = x /\ r[Len(q) + 2] = y
<1> DEFINE p == <<x, y>>
<1>1. p \in Seq(S) /\ Len(p) = 2 /\ p[1] = x /\ p[2] = y
  OBVIOUS
<1> HIDE DEF p
<1>2. /\ q \o p \in Seq(S) /\ Len(q \o p) = Len(q) + Len(p)
      /\ \A k \in 1 .. Len(q) + Len(p) :
            (q \o p)[k] = IF k <= Len(q) THEN q[k] ELSE p[k - Len(q)]
  BY <1>1, ConcatProperties
<1>3. Len(q) \in Nat /\ DOMAIN q = 1 .. Len(q) /\ DOMAIN (q \o p) = 1 .. Len(q) + 2
  BY <1>1, <1>2
<1>4. \A k \in DOMAIN q : (q \o p)[k] = q[k]
  BY <1>1, <1>2, <1>3
<1>5. (q \o p)[Len(q) + 1] = x /\ (q \o p)[Len(q) + 2] = y
  <2>1. Len(q) + 1 - Len(q) = 1 /\ Len(q) + 2 - Len(q) = 2
    BY <1>3
  <2> QED BY <1>1, <1>2, <1>3, <2>1
<1> QED BY <1>2, <1>3, <1>4, <1>5 DEF p

(* What the history counts only grows, and jobs stay one's own meanwhile.  *)
LEMMA OwnJobsStay ==
    ASSUME NEW q, \A k \in DOMAIN q : q[k] \in GoodJob,
           NEW us \in [Slots -> GoodUser], NEW vs \in [Slots -> GoodUser],
           \A i \in Slots : us[i].userID \in Users => vs[i].userID = us[i].userID,
           NEW ta \in [Users -> Record], NEW tb \in [Users -> Record],
           \A u \in Users : NoMore(ta[u], tb[u]),
           OwnJobs(q, us, ta)
    PROVE  OwnJobs(q, vs, tb)
<1> SUFFICES ASSUME NEW k \in DOMAIN q, q[k].kind # "idle"
             PROVE  /\ q[k].user \in Users
                    /\ vs[q[k].slot].userID = q[k].user
                    /\ NoMore(q[k].data, tb[q[k].user])
  BY DEF OwnJobs, OwnJob
<1>1. /\ q[k].user \in Users /\ us[q[k].slot].userID = q[k].user
      /\ NoMore(q[k].data, ta[q[k].user])
  BY DEF OwnJobs, OwnJob
<1>2. q[k].slot \in Slots /\ q[k].data \in Record
  BY DEF GoodJob, Job
<1>3. vs[q[k].slot].userID = q[k].user
  BY <1>1, <1>2
<1>4. NoMore(ta[q[k].user], tb[q[k].user]) /\ ta[q[k].user] \in Record /\ tb[q[k].user] \in Record
  BY <1>1
<1> QED BY <1>1, <1>2, <1>3, <1>4 DEF NoMore, Record

(* The same for all of them together.                                      *)
LEMMA AllJobsStay ==
    ASSUME RecordInv, RecordInv', OwnRecords,
           \A i \in Slots : users[i].userID \in Users => users'[i].userID = users[i].userID,
           \A u \in Users : NoMore(tally[u], tally'[u])
    PROVE  /\ OwnJobs(queue, users', tally') /\ OwnJobs(answers, users', tally')
           /\ OwnJobs(thread, users', tally')
<1>1. \A k \in DOMAIN queue : queue[k] \in GoodJob
  BY ElementOfSeq DEF RecordInv
<1>2. \A k \in DOMAIN answers : answers[k] \in GoodJob
  BY ElementOfSeq DEF RecordInv
<1>3. \A k \in DOMAIN thread : thread[k] \in GoodJob
  BY DEF RecordInv
<1>4. /\ users \in [Slots -> GoodUser] /\ users' \in [Slots -> GoodUser]
      /\ tally \in [Users -> Record] /\ tally' \in [Users -> Record]
  BY DEF RecordInv
<1>5. OwnJobs(queue, users, tally) /\ OwnJobs(answers, users, tally) /\ OwnJobs(thread, users, tally)
  BY DEF OwnRecords
<1>6. OwnJobs(queue, users', tally')
  BY <1>1, <1>4, <1>5, OwnJobsStay
<1>7. OwnJobs(answers, users', tally')
  BY <1>2, <1>4, <1>5, OwnJobsStay
<1>8. OwnJobs(thread, users', tally')
  BY <1>3, <1>4, <1>5, OwnJobsStay
<1> QED BY <1>6, <1>7, <1>8

(* Nothing is more than itself. *)
LEMMA NoMoreSame == \A d \in Record : NoMore(d, d)
BY DEF NoMore, Record

(* Connections.  Who logs in to a slot that was nobody's or his own finds  *)
(* no record in it, or his own.                                            *)
LEMMA ConnectionCredit ==
    ASSUME RecordInv, RecordInv', OwnRecords, ~reused',
           Use \/ \E i \in Slots : DisConnectUser(i) \/ \E u \in Users : Login(i, u)
    PROVE  OwnRecords'
<1>1. tally' = tally /\ rows' = rows /\ tally \in [Users -> Record] /\ users \in [Slots -> GoodUser]
  BY DEF Use, DisConnectUser, Login, db, past, RecordInv
<1>2. \A u \in Users : NoMore(tally[u], tally'[u])
  BY <1>1, NoMoreSame
<1>3. /\ \A i \in Slots : users[i].userID \in Users => users'[i].userID = users[i].userID
      /\ \A i \in Slots : OwnData(users'[i], tally)
      /\ answers' = answers /\ thread' = thread
      /\ \/ queue' = queue
         \/ \E i \in Slots, u \in Users : queue' = Append(queue, Load(i, u, logins'))
                                         /\ users'[i].userID = u
  <2>1. CASE Use
    <3> DEFINE j == Min(EmptySlots)
    <3>1. users' = [users EXCEPT ![j].isUsing = TRUE, ![j].isLogin = FALSE]
      BY <2>1 DEF Use
    <3> HIDE DEF j
    <3>2. \A i \in Slots : /\ users'[i].userID = users[i].userID
                           /\ users'[i].data = users[i].data
                           /\ users'[i].isLogin => users[i].isLogin
      BY <1>1, <3>1 DEF GoodUser, UserType
    <3>3. \A i \in Slots : OwnData(users'[i], tally)
      BY <3>2 DEF OwnRecords, OwnData
    <3> QED BY <2>1, <3>2, <3>3 DEF Use, db
  <2>2. ASSUME NEW x \in Slots, DisConnectUser(x)
        PROVE  /\ \A i \in Slots : users'[i].userID = users[i].userID
               /\ \A i \in Slots : OwnData(users'[i], tally)
               /\ answers' = answers /\ thread' = thread /\ queue' = queue
    <3>1. \A i \in Slots : /\ users'[i].userID = users[i].userID
                           /\ users'[i].data = users[i].data
                           /\ users'[i].isLogin = users[i].isLogin
      BY <1>1, <2>2 DEF DisConnectUser, GoodUser, UserType
    <3>2. \A i \in Slots : OwnData(users'[i], tally)
      BY <3>1 DEF OwnRecords, OwnData
    <3> QED BY <2>2, <3>1, <3>2 DEF DisConnectUser, db
  <2>3. ASSUME NEW x \in Slots, NEW u \in Users, Login(x, u)
        PROVE  /\ \A i \in Slots : users[i].userID \in Users => users'[i].userID = users[i].userID
               /\ \A i \in Slots : OwnData(users'[i], tally)
               /\ answers' = answers /\ thread' = thread
               /\ queue' = Append(queue, Load(x, u, logins'))
               /\ users'[x].userID = u
    <3>1. users[x].userID \in {u, NoUser}
      BY <2>3 DEF Login
    <3>2. /\ \A i \in Slots : users'[i].data = users[i].data
          /\ users'[x].userID = u
          /\ \A i \in Slots \ {x} : users'[i] = users[i]
      <4> DEFINE n == logins'
      <4>1. users' = [users EXCEPT ![x].isLogin = TRUE, ![x].userID = u,
                                   ![x].login = n, ![x].loaded = FALSE]
        BY <2>3 DEF Login
      <4> HIDE DEF n
      <4>2. LET v == [users[x] EXCEPT !.isLogin = TRUE, !.userID = u,
                                      !.login = n, !.loaded = FALSE]
            IN  v.data = users[x].data /\ v.userID = u
        BY <1>1 DEF GoodUser, UserType
      <4> QED BY <1>1, <4>1, <4>2
    <3>3. NoMore(users[x].data, tally[u])
      <4>1. /\ NoMore(users[x].data, IF users[x].userID \in Users THEN tally[users[x].userID] ELSE NoData)
        BY DEF OwnRecords, OwnData
      <4>2. CASE users[x].userID = u
        BY <4>1, <4>2
      <4>3. CASE users[x].userID = NoUser
        <5>1. NoMore(users[x].data, NoData)
          BY <4>1, <4>3, GameRecordAssumption
        <5>2. NoData.win = 0 /\ NoData.lose = 0
          BY DEF NoData, NewRow
        <5>3. users[x].data \in Record /\ tally[u] \in Record
          BY <1>1 DEF GoodUser, UserType
        <5> QED BY <5>1, <5>2, <5>3 DEF NoMore, Record
      <4> QED BY <3>1, <4>2, <4>3
    <3>4. OwnData(users'[x], tally)
      BY <3>2, <3>3 DEF OwnData
    <3>5. \A i \in Slots : OwnData(users'[i], tally)
      BY <3>2, <3>4 DEF OwnRecords
    <3>6. \A i \in Slots : users[i].userID \in Users => users'[i].userID = users[i].userID
      BY <3>1, <3>2, GameRecordAssumption
    <3> QED BY <2>3, <3>2, <3>5, <3>6 DEF Login
  <2> QED BY <2>1, <2>2, <2>3
<1>4. /\ OwnJobs(queue, users', tally') /\ OwnJobs(answers, users', tally')
      /\ OwnJobs(thread, users', tally')
  BY <1>2, <1>3, AllJobsStay
<1>5. OwnJobs(queue', users', tally')
  <2>1. ASSUME NEW i \in Slots, NEW u \in Users, users'[i].userID = u,
               queue' = Append(queue, Load(i, u, logins'))
        PROVE  OwnJobs(queue', users', tally')
    <3> DEFINE j == Load(i, u, logins')
    <3>1. j.user = u /\ j.slot = i /\ j.data = NoData
      BY DEF Load, Idle
    <3>2. NoMore(NoData, tally[u])
      BY <1>1 DEF NoMore, NoData, NewRow, Record
    <3>3. OwnJob(j, users', tally')
      BY <1>1, <2>1, <3>1, <3>2 DEF OwnJob
    <3> HIDE DEF j
    <3>4. queue \in Seq(GoodJob) /\ queue' = Append(queue, j)
      BY <2>1 DEF RecordInv, j
    <3> QED BY <1>4, <3>3, <3>4 DEF OwnJobs
  <2> QED BY <1>3, <1>4, <2>1
<1> QED BY <1>1, <1>3, <1>4, <1>5 DEF OwnRecords

(* The answer of a user's own load.                                        *)
LEMMA AnswerCredit ==
    ASSUME RecordInv, RecordInv', OwnRecords, InResponseDbLoadUserGameData
    PROVE  OwnRecords'
<1> DEFINE a == Head(answers)
<1>1. answers \in Seq(GoodJob) /\ answers # <<>> /\ users \in [Slots -> GoodUser]
  BY DEF InResponseDbLoadUserGameData, RecordInv
<1>2. a = answers[1] /\ 1 \in DOMAIN answers
  BY <1>1
<1>3. /\ a.user \in Users /\ users[a.slot].userID = a.user /\ NoMore(a.data, tally[a.user])
      /\ a.slot \in Slots
  <2>1. a.kind # "idle"
    BY <1>2 DEF OwnRecords
  <2>2. a \in GoodJob
    BY <1>1, <1>2
  <2> QED BY <1>2, <2>1, <2>2 DEF OwnRecords, OwnJobs, OwnJob, GoodJob, Job
<1>4. /\ tally' = tally /\ rows' = rows /\ queue' = queue /\ thread' = thread
      /\ answers' = Tail(answers)
      /\ users' = IF users[a.slot].isUsing
                  THEN [users EXCEPT ![a.slot].data = a.data,
                                     ![a.slot].loaded =
                                         @ \/ a.login = users[a.slot].login]
                  ELSE users
  BY DEF InResponseDbLoadUserGameData, past
<1> HIDE DEF a
<1>5. \A i \in Slots : /\ users'[i].userID = users[i].userID
                       /\ users'[i].isLogin = users[i].isLogin
                       /\ users'[i].data = users[i].data \/ (i = a.slot /\ users'[i].data = a.data)
  BY <1>1, <1>4 DEF GoodUser, UserType
<1>6. \A i \in Slots : OwnData(users'[i], tally)
  BY <1>3, <1>5 DEF OwnRecords, OwnData
<1>7. \A u \in Users : NoMore(tally[u], tally'[u])
  BY <1>4, NoMoreSame DEF RecordInv
<1>8. /\ OwnJobs(queue, users', tally') /\ OwnJobs(answers, users', tally')
      /\ OwnJobs(thread, users', tally')
  BY <1>5, <1>7, AllJobsStay
<1>9. OwnJobs(answers', users', tally')
  <2>1. \A k \in DOMAIN Tail(answers) :
           k + 1 \in DOMAIN answers /\ Tail(answers)[k] = answers[k + 1]
    BY <1>1, TailIs
  <2>2. \A k \in DOMAIN answers : OwnJob(answers[k], users', tally')
    BY <1>8 DEF OwnJobs
  <2> QED BY <1>4, <2>1, <2>2 DEF OwnJobs
<1>10. /\ tally' = tally /\ rows' = rows /\ queue' = queue /\ thread' = thread
       /\ \A k \in DOMAIN answers' : answers'[k].kind = "answer"
  BY <1>1, <1>4 DEF OwnRecords
<1> QED BY <1>6, <1>8, <1>9, <1>10 DEF OwnRecords

(* The end of a game: the records of the two in memory gain what their     *)
(* tallies gain, and go to the database under their IDs.                   *)
LEMMA GameCredit ==
    ASSUME RecordInv, RecordInv', OwnRecords, NEW w \in Slots, NEW l \in Slots,
           UpdateUsersGameData(w, l)
    PROVE  OwnRecords'
<1> DEFINE dw == users[w].data
           dl == users[l].data
           uw == users[w].userID
           ul == users[l].userID
<1>1. /\ users \in [Slots -> GoodUser] /\ queue \in Seq(GoodJob)
      /\ tally \in [Users -> Record] /\ rows \in [Users -> GoodRecord]
      /\ dw \in Record /\ dl \in Record
  BY DEF RecordInv, GoodUser, UserType
<1>2. /\ w # l /\ uw # ul /\ uw \in Users /\ ul \in Users
      /\ tally' = [tally EXCEPT ![uw] = Win(@), ![ul] = Lose(@)]
      /\ thread' = thread /\ answers' = answers /\ rows' = rows
  BY DEF UpdateUsersGameData, GameEnds, Opponents, OwnRecords, OwnData
<1>3. NoMore(dw, tally[uw]) /\ NoMore(dl, tally[ul])
  BY <1>2 DEF OwnRecords, OwnData
<1> HIDE DEF uw, ul
<1>4. /\ tally'[uw] = Win(tally[uw]) /\ tally'[ul] = Lose(tally[ul])
      /\ \A u \in Users \ {uw, ul} : tally'[u] = tally[u]
  BY <1>1, <1>2
<1>5. \A u \in Users : NoMore(tally[u], tally'[u])
  <2>1. \A d \in Record : NoMore(d, d) /\ NoMore(d, Win(d)) /\ NoMore(d, Lose(d))
    <3>1. ASSUME NEW d \in Record PROVE NoMore(d, d) /\ NoMore(d, Win(d)) /\ NoMore(d, Lose(d))
      <4>1. d.win \in Nat /\ d.lose \in Nat
        BY DEF Record
      <4> QED BY <4>1, WinLoseCounts DEF NoMore
    <3> QED BY <3>1
  <2>2. \A u \in Users : tally[u] \in Record
    BY <1>1
  <2> QED BY <1>4, <2>1, <2>2
<1>6. NoMore(Win(dw), tally'[uw]) /\ NoMore(Lose(dl), tally'[ul])
  <2>1. \A d, n \in Record : NoMore(d, n) => NoMore(Win(d), Win(n)) /\ NoMore(Lose(d), Lose(n))
    <3>1. ASSUME NEW d \in Record, NEW n \in Record, NoMore(d, n)
          PROVE  NoMore(Win(d), Win(n)) /\ NoMore(Lose(d), Lose(n))
      <4>1. d.win \in Nat /\ d.lose \in Nat /\ n.win \in Nat /\ n.lose \in Nat
        BY DEF Record
      <4> QED BY <3>1, <4>1, WinLoseCounts DEF NoMore
    <3> QED BY <3>1
  <2>2. tally[uw] \in Record /\ tally[ul] \in Record
    BY <1>1, <1>2
  <2> QED BY <1>1, <1>3, <1>4, <2>1, <2>2
<1>7. /\ \A i \in Slots : /\ users'[i].userID = users[i].userID
                          /\ users'[i].isLogin = users[i].isLogin
                          /\ \/ users'[i].data = users[i].data
                             \/ i = w /\ users'[i].data = Win(dw)
                             \/ i = l /\ users'[i].data = Lose(dl)
      /\ \/ queue' = queue
         \/ queue' = queue \o <<Save(w, Win(dw)), Save(l, Lose(dl))>>
  <2>1. \/ users' = users /\ queue' = queue
        \/ users' = [users EXCEPT ![w].data = Win(dw)] /\ queue' = queue
        \/ /\ users' = [users EXCEPT ![w].data = Win(dw), ![l].data = Lose(dl)]
           /\ queue' = queue \o <<Save(w, Win(dw)), Save(l, Lose(dl))>>
    <3>1. CASE dw = NoData
      BY <3>1 DEF UpdateUsersGameData
    <3>2. CASE dw # NoData /\ dl = NoData
      BY <3>2 DEF UpdateUsersGameData
    <3>3. CASE dw # NoData /\ dl # NoData
      <4>1. /\ users' = [users EXCEPT ![w].data = Win(@), ![l].data = Lose(@)]
            /\ queue' = queue \o <<Save(w, Win(dw)), Save(l, Lose(dl))>>
        BY <3>3 DEF UpdateUsersGameData
      <4> QED BY <1>1, <1>2, <4>1
    <3> QED BY <3>1, <3>2, <3>3
  <2> DEFINE x == Win(dw)
             y == Lose(dl)
  <2>2. \/ users' = users /\ queue' = queue
        \/ users' = [users EXCEPT ![w].data = x] /\ queue' = queue
        \/ /\ users' = [users EXCEPT ![w].data = x, ![l].data = y]
           /\ queue' = queue \o <<Save(w, x), Save(l, y)>>
    BY <2>1
  <2> HIDE DEF x, y
  <2>3. \A i \in Slots : users[i] \in UserType
    BY <1>1 DEF GoodUser
  <2>4. \A i \in Slots : /\ users'[i].userID = users[i].userID
                          /\ users'[i].isLogin = users[i].isLogin
                          /\ \/ users'[i].data = users[i].data
                             \/ i = w /\ users'[i].data = x
                             \/ i = l /\ users'[i].data = y
    BY <1>1, <1>2, <2>2, <2>3 DEF UserType
  <2> QED BY <2>2, <2>4 DEF x, y
<1> DEFINE x == Win(dw)
           y == Lose(dl)
<1>9. \A i \in Slots : OwnData(users'[i], tally')
  <2> SUFFICES ASSUME NEW i \in Slots PROVE OwnData(users'[i], tally')
    OBVIOUS
  <2>1. OwnData(users[i], tally)
    BY DEF OwnRecords
  <2>2. CASE users'[i].data = users[i].data
    <3> DEFINE u == users[i].userID
    <3>1. CASE u \in Users
      <4>1. NoMore(users[i].data, tally[u]) /\ NoMore(tally[u], tally'[u])
        BY <1>5, <2>1, <3>1 DEF OwnData
      <4>2. users[i].data \in Record /\ tally[u] \in Record /\ tally'[u] \in Record
        BY <1>1, <3>1 DEF GoodUser, UserType, RecordInv
      <4>3. NoMore(users[i].data, tally'[u])
        BY <4>1, <4>2 DEF NoMore, Record
      <4> QED BY <1>7, <2>1, <2>2, <3>1, <4>3 DEF OwnData
    <3>2. CASE u \notin Users
      BY <1>7, <2>1, <2>2, <3>2 DEF OwnData
    <3> QED BY <3>1, <3>2
  <2>3. CASE i = w /\ users'[i].data = Win(dw)
    BY <1>2, <1>6, <1>7, <2>3 DEF OwnData, uw
  <2>4. CASE i = l /\ users'[i].data = Lose(dl)
    BY <1>2, <1>6, <1>7, <2>4 DEF OwnData, ul
  <2> QED BY <1>7, <2>2, <2>3, <2>4
<1>10. /\ OwnJobs(queue, users', tally') /\ OwnJobs(answers, users', tally')
       /\ OwnJobs(thread, users', tally')
  BY <1>5, <1>7, AllJobsStay
<1>11. OwnJobs(queue', users', tally')
  <2>1. CASE queue' = queue
    BY <1>10, <2>1
  <2>2. CASE queue' = queue \o <<Save(w, Win(dw)), Save(l, Lose(dl))>>
    <3> DEFINE a == Save(w, x)
               b == Save(l, y)
    <3>1. OwnJob(a, users', tally') /\ OwnJob(b, users', tally')
      <4>1. /\ a.user = uw /\ a.slot = w /\ a.data = x
            /\ b.user = ul /\ b.slot = l /\ b.data = y
        BY DEF Save, Idle, uw, ul
      <4>2. users'[w].userID = uw /\ users'[l].userID = ul
        BY <1>7 DEF uw, ul
      <4> QED BY <1>2, <1>6, <4>1, <4>2 DEF OwnJob
    <3> HIDE DEF a, b
    <3>2. LET r == queue \o <<a, b>> IN
          \A k \in DOMAIN r : r[k] = a \/ r[k] = b \/ (k \in DOMAIN queue /\ r[k] = queue[k])
      <4> DEFINE S == GoodJob \cup {a, b}
      <4>1. queue \in Seq(S) /\ a \in S /\ b \in S
        BY <1>1
      <4> HIDE DEF S
      <4> QED BY <4>1, TwoMoreIs
    <3>3. queue' = queue \o <<a, b>>
      BY <2>2 DEF a, b
    <3> QED BY <1>10, <3>1, <3>2, <3>3 DEF OwnJobs
  <2> QED BY <1>7, <2>1, <2>2
<1>12. \A u \in Users : NoMore(rows'[u], tally'[u])
  <2> SUFFICES ASSUME NEW u \in Users PROVE NoMore(rows[u], tally'[u])
    BY <1>2
  <2>1. NoMore(rows[u], tally[u]) /\ NoMore(tally[u], tally'[u])
    BY <1>5 DEF OwnRecords
  <2>2. rows[u] \in Record /\ tally[u] \in Record /\ tally'[u] \in Record
    BY <1>1 DEF GoodRecord, RecordInv
  <2> QED BY <2>1, <2>2 DEF NoMore, Record
<1>13. \A k \in DOMAIN answers' : answers'[k].kind = "answer"
  BY <1>2 DEF OwnRecords
<1> QED BY <1>2, <1>9, <1>10, <1>11, <1>12, <1>13 DEF OwnRecords

(* A thread takes a job, reads or writes its user's row, posts the answer. *)
LEMMA ThreadCredit ==
    ASSUME RecordInv, RecordInv', OwnRecords, NEW t \in DOMAIN thread, Process(t)
    PROVE  OwnRecords'
<1>1. PICK n \in ThreadCounts : thread \in [1 .. n -> GoodJob]
  BY DEF RecordInv
<1>2. /\ queue \in Seq(GoodJob) /\ answers \in Seq(GoodJob)
      /\ rows \in [Users -> GoodRecord]
  BY DEF RecordInv
<1>3. users' = users /\ tally' = tally
  BY DEF Process, Receive, RequestSaveUserGameData, RequestLoadUserGameData,
         DistributeAction, QueryThrows, past
<1>4. OwnJob(Idle, users, tally)
  BY DEF OwnJob, Idle
<1>5. \A x \in DOMAIN thread : OwnJob(thread[x], users, tally)
  BY DEF OwnRecords, OwnJobs
<1>6. /\ \A u \in Users : NoMore(rows[u], tally[u])
      /\ \A i \in Slots : OwnData(users[i], tally)
      /\ OwnJobs(queue, users, tally) /\ OwnJobs(answers, users, tally)
      /\ \A k \in DOMAIN answers : answers[k].kind = "answer"
  BY DEF OwnRecords
<1>7. ASSUME NEW j, OwnJob(j, users, tally), thread' = [thread EXCEPT ![t] = j]
      PROVE  OwnJobs(thread', users', tally')
  BY <1>3, <1>5, <1>7 DEF OwnJobs
<1>8. CASE Receive(t)
  <2>1. /\ queue # <<>> /\ queue' = Tail(queue)
        /\ thread' = [thread EXCEPT ![t] = Head(queue)]
        /\ rows' = rows /\ answers' = answers
    BY <1>8 DEF Receive
  <2>2. /\ 1 \in DOMAIN queue /\ Head(queue) = queue[1]
        /\ \A k \in DOMAIN Tail(queue) :
              k + 1 \in DOMAIN queue /\ Tail(queue)[k] = queue[k + 1]
    BY <1>2, <2>1, TailIs
  <2>3. \A k \in DOMAIN queue : OwnJob(queue[k], users, tally)
    BY <1>6 DEF OwnJobs
  <2>4. OwnJobs(queue', users', tally')
    BY <1>3, <2>1, <2>2, <2>3 DEF OwnJobs
  <2>5. OwnJobs(thread', users', tally')
    BY <1>7, <2>1, <2>2, <2>3
  <2> QED BY <1>3, <1>6, <2>1, <2>4, <2>5 DEF OwnRecords
<1>9. CASE RequestSaveUserGameData(t)
  <2>1. /\ thread[t].kind = "save"
        /\ rows' = [rows EXCEPT ![thread[t].user] = thread[t].data]
        /\ thread' = [thread EXCEPT ![t] = Idle]
        /\ queue' = queue /\ answers' = answers
    BY <1>9 DEF RequestSaveUserGameData
  <2>2. thread[t].user \in Users /\ NoMore(thread[t].data, tally[thread[t].user])
    BY <1>5, <2>1 DEF OwnJob
  <2>3. \A u \in Users : NoMore(rows'[u], tally[u])
    BY <1>2, <1>6, <2>1, <2>2
  <2>4. OwnJobs(thread', users', tally')
    BY <1>4, <1>7, <2>1
  <2> QED BY <1>3, <1>6, <2>1, <2>3, <2>4 DEF OwnRecords
<1>10. CASE RequestLoadUserGameData(t)
  <2> DEFINE d == rows[thread[t].user]
             k == [thread[t] EXCEPT !.kind = "answer", !.data = d]
  <2>1. /\ thread[t].kind = "load"
        /\ rows' = rows /\ queue' = queue /\ answers' = answers
        /\ thread' = [thread EXCEPT ![t].kind = "answer", ![t].data = d]
    BY <1>10 DEF RequestLoadUserGameData, past
  <2>2. thread[t] \in Job
    BY <1>1 DEF GoodJob
  <2>3. thread[t].user \in Users /\ users[thread[t].slot].userID = thread[t].user
    BY <1>5, <2>1 DEF OwnJob
  <2>4. NoMore(d, tally[thread[t].user])
    BY <1>6, <2>3
  <2> HIDE DEF d
  <2>5. k.user = thread[t].user /\ k.slot = thread[t].slot /\ k.data = d
    BY <2>2 DEF Job
  <2>6. OwnJob(k, users, tally)
    BY <2>3, <2>4, <2>5 DEF OwnJob
  <2>7. thread' = [thread EXCEPT ![t] = k]
    BY <1>1, <2>1
  <2> HIDE DEF k
  <2>8. OwnJobs(thread', users', tally')
    BY <1>7, <2>6, <2>7
  <2> QED BY <1>3, <1>6, <2>1, <2>8 DEF OwnRecords
<1>11. CASE DistributeAction(t)
  <2>1. /\ thread[t].kind = "answer"
        /\ answers' = Append(answers, thread[t])
        /\ thread' = [thread EXCEPT ![t] = Idle]
        /\ rows' = rows /\ queue' = queue
    BY <1>11 DEF DistributeAction, past
  <2>2. /\ DOMAIN Append(answers, thread[t]) = 1 .. Len(answers) + 1
        /\ DOMAIN answers = 1 .. Len(answers) /\ Len(answers) \in Nat
        /\ \A k \in DOMAIN answers : Append(answers, thread[t])[k] = answers[k]
        /\ Append(answers, thread[t])[Len(answers) + 1] = thread[t]
    <3>1. thread[t] \in GoodJob
      BY <1>1
    <3> QED BY <1>2, <3>1, AppendIs
  <2>3. \A k \in DOMAIN answers' :
           answers'[k] = thread[t] \/ (k \in DOMAIN answers /\ answers'[k] = answers[k])
    BY <2>1, <2>2
  <2>4. OwnJobs(answers', users', tally') /\ \A k \in DOMAIN answers' : answers'[k].kind = "answer"
    BY <1>3, <1>5, <1>6, <2>1, <2>3 DEF OwnJobs
  <2>5. OwnJobs(thread', users', tally')
    BY <1>4, <1>7, <2>1
  <2> QED BY <1>3, <1>6, <2>1, <2>4, <2>5 DEF OwnRecords
<1>12. CASE QueryThrows(t)
  <2>1. /\ thread' = [thread EXCEPT ![t] = Idle]
        /\ rows' = rows /\ queue' = queue /\ answers' = answers
    BY <1>12 DEF QueryThrows
  <2>2. OwnJobs(thread', users', tally')
    BY <1>4, <1>7, <2>1
  <2> QED BY <1>3, <1>6, <2>1, <2>2 DEF OwnRecords
<1> QED BY <1>8, <1>9, <1>10, <1>11, <1>12 DEF Process

LEMMA CreditInit == Init => CreditInv
<1> SUFFICES ASSUME Init PROVE CreditInv
  OBVIOUS
<1>1. RecordInv /\ NewRow \in Record /\ NoData \in Record
  BY InitInv, NewIsGood
<1>2. \A u \in Users : NoMore(rows[u], tally[u])
  BY <1>1, NoMoreSame DEF Init
<1>3. OwnData(NewUser, tally)
  BY <1>1, NoMoreSame, GameRecordAssumption DEF OwnData, NewUser
<1>4. OwnJob(Idle, users, tally)
  BY DEF OwnJob, Idle
<1>5. \A k \in DOMAIN thread : thread[k] = Idle
  BY DEF Init
<1>6. DOMAIN queue = {} /\ DOMAIN answers = {}
  BY DEF Init
<1>7. \A i \in Slots : users[i] = NewUser
  BY DEF Init
<1>8. OwnRecords
  BY <1>2, <1>3, <1>4, <1>5, <1>6, <1>7 DEF OwnRecords, OwnJobs
<1> QED BY <1>1, <1>8 DEF CreditInv

LEMMA CreditNext == CreditInv /\ [Next]_vars => CreditInv'
<1> SUFFICES ASSUME CreditInv, [Next]_vars PROVE CreditInv'
  OBVIOUS
<1>1. RecordInv /\ RecordInv'
  BY NextInv DEF CreditInv
<1>2. reused => reused'
  BY DEF Next, Use, Login, DisConnectUser, InResponseDbLoadUserGameData,
         UpdateUsersGameData, GameEnds, Process, Receive, RequestSaveUserGameData,
         RequestLoadUserGameData, DistributeAction, QueryThrows, vars, past
<1> SUFFICES ASSUME ~reused' PROVE OwnRecords'
  BY <1>1 DEF CreditInv
<1>3. OwnRecords
  BY <1>2 DEF CreditInv
<1>4. CASE Use \/ \E i \in Slots : DisConnectUser(i) \/ \E u \in Users : Login(i, u)
  BY <1>1, <1>3, <1>4, ConnectionCredit
<1>5. CASE InResponseDbLoadUserGameData
  BY <1>1, <1>3, <1>5, AnswerCredit
<1>6. CASE \E w, l \in Slots : UpdateUsersGameData(w, l)
  BY <1>1, <1>3, <1>6, GameCredit
<1>7. CASE \E t \in DOMAIN thread : Process(t)
  BY <1>1, <1>3, <1>7, ThreadCredit
<1>8. CASE UNCHANGED vars
  BY <1>3, <1>8 DEF vars, db, past, OwnRecords
<1> QED BY <1>4, <1>5, <1>6, <1>7, <1>8 DEF Next

(* Nobody is credited with a game he did not play, as long as no slot goes *)
(* from one user to another.                                               *)
THEOREM NothingIsInvented == Spec => []NothingInvented
<1>1. CreditInv => NothingInvented
  BY DEF CreditInv, OwnRecords, NoMore, NothingInvented
<1>2. Spec => []CreditInv
  BY CreditInit, CreditNext, PTL DEF Spec
<1> QED BY <1>1, <1>2, PTL
-----------------------------------------------------------------------------
(* One thread keeps the records.  The invariant is about the jobs in the   *)
(* order in which one thread takes them: answers in the packet buffer,     *)
(* what the thread holds, the queue.                                       *)
IsLoad(j)    == j.kind \in {"load", "answer"}
IsSave(j, u) == j.kind = "save" /\ j.user = u
NoSave(q, u) == \A k \in DOMAIN q : ~IsSave(q[k], u)
Logged(v)    == v.isUsing /\ v.isLogin

(* The load that the login in its slot has asked for.                      *)
OwnLoad(j, us) == IsLoad(j) /\ Logged(us[j.slot]) /\ j.login = us[j.slot].login

(* Loads and their answers are in the order of the logins they are for,    *)
(* and none is for a login later than the last one of its slot.            *)
InOrder(an, t, q, us, n) ==
    /\ \A i \in Slots : us[i].login <= n
    /\ \A k \in DOMAIN an : an[k].kind = "answer" /\ an[k].login <= us[an[k].slot].login
    /\ IsLoad(t) => t.login <= us[t.slot].login
    /\ \A k \in DOMAIN q :
          q[k].kind \in {"load", "save"} /\ (IsLoad(q[k]) => q[k].login <= us[q[k].slot].login)
    /\ \A k, m \in DOMAIN an : k < m => an[k].login < an[m].login
    /\ \A k, m \in DOMAIN q :
          k < m /\ IsLoad(q[k]) /\ IsLoad(q[m]) => q[k].login < q[m].login
    /\ \A k \in DOMAIN an : IsLoad(t) => an[k].login < t.login
    /\ \A m \in DOMAIN q : IsLoad(t) /\ IsLoad(q[m]) => t.login < q[m].login
    /\ \A k \in DOMAIN an, m \in DOMAIN q : IsLoad(q[m]) => an[k].login < q[m].login

(* Nobody is logged in twice, and whoever has been told his data has them. *)
KeptUsers(us, ta) ==
    \A i \in Slots : Logged(us[i]) =>
       /\ us[i].userID \in Users
       /\ us[i].loaded => us[i].data = ta[us[i].userID]
       /\ \A k \in Slots : Logged(us[k]) /\ us[k].userID = us[i].userID => k = i

(* The last save of a user holds all his games; without one his row does.  *)
KeptRows(t, q, ro, ta) ==
    \A u \in Users :
       /\ \A k \in DOMAIN q :
             IsSave(q[k], u) /\ (\A m \in DOMAIN q : k < m => ~IsSave(q[m], u)) =>
                q[k].data = ta[u]
       /\ NoSave(q, u) => IF IsSave(t, u) THEN t.data = ta[u] ELSE ro[u] = ta[u]

(* While a slot's load is under way the user has not been told his data,   *)
(* and no save of his comes after his own load, which so reads them all.   *)
LoadOK(j, us) ==
    IsLoad(j) /\ Logged(us[j.slot]) =>
       /\ ~us[j.slot].loaded
       /\ j.login = us[j.slot].login => j.user = us[j.slot].userID

KeptLoads(an, t, q, us, ta) ==
    /\ \A k \in DOMAIN an :
          /\ LoadOK(an[k], us)
          /\ OwnLoad(an[k], us) =>
                /\ an[k].data = ta[an[k].user]
                /\ NoSave(q, an[k].user) /\ ~IsSave(t, an[k].user)
    /\ LoadOK(t, us)
    /\ OwnLoad(t, us) => NoSave(q, t.user) /\ (t.kind = "answer" => t.data = ta[t.user])
    /\ \A k \in DOMAIN q :
          /\ LoadOK(q[k], us)
          /\ OwnLoad(q[k], us) => \A m \in DOMAIN q : k < m => ~IsSave(q[m], q[k].user)

Kept ==
    /\ KeptUsers(users, tally)
    /\ KeptRows(thread[1], queue, rows, tally)
    /\ KeptLoads(answers, thread[1], queue, users, tally)

Ordered == InOrder(answers, thread[1], queue, users, logins)

KeptInv ==
    /\ RecordInv
    /\ \A u \in Users : tally[u].level >= 1
    /\ DOMAIN thread = {1} => Ordered /\ (careful /\ ~lost => Kept)

(* The types that the following lemmas need. *)
LEMMA JobTypes ==
    ASSUME RecordInv, DOMAIN thread = {1}
    PROVE  /\ users \in [Slots -> UserType] /\ logins \in Nat
           /\ tally \in [Users -> Record]
           /\ \A i \in Slots : users[i].login \in Nat
           /\ queue \in Seq(Job) /\ answers \in Seq(Job) /\ thread \in [{1} -> Job]
           /\ DOMAIN queue \subseteq Nat /\ DOMAIN answers \subseteq Nat
           /\ \A k \in DOMAIN queue : queue[k] \in Job
           /\ \A k \in DOMAIN answers : answers[k] \in Job
           /\ \A j \in Job : j.slot \in Slots /\ j.login \in Nat /\ users[j.slot].login \in Nat
<1>1. GoodJob \subseteq Job /\ GoodUser \subseteq UserType
  BY DEF GoodJob, GoodUser
<1>2. /\ users \in [Slots -> UserType] /\ logins \in Nat
      /\ tally \in [Users -> Record]
      /\ queue \in Seq(Job) /\ answers \in Seq(Job)
  BY <1>1 DEF RecordInv
<1>3. thread \in [{1} -> Job]
  BY <1>1 DEF RecordInv
<1>4. \A k \in DOMAIN queue : queue[k] \in Job
  BY <1>2, ElementOfSeq
<1>5. \A k \in DOMAIN answers : answers[k] \in Job
  BY <1>2, ElementOfSeq
<1>6. \A i \in Slots : users[i].login \in Nat
  BY <1>2 DEF UserType
<1>7. \A j \in Job : j.slot \in Slots /\ j.login \in Nat /\ users[j.slot].login \in Nat
  BY <1>6 DEF Job
<1> QED BY <1>2, <1>3, <1>4, <1>5, <1>6, <1>7

(* Connections that come or go log nobody in.                              *)
LEMMA FewerLogged ==
    ASSUME RecordInv, DOMAIN thread = {1}, Ordered, NEW vs,
           \A i \in Slots : /\ vs[i].login = users[i].login /\ vs[i].loaded = users[i].loaded
                            /\ vs[i].userID = users[i].userID /\ vs[i].data = users[i].data
                            /\ Logged(vs[i]) => Logged(users[i])
    PROVE  /\ InOrder(answers, thread[1], queue, vs, logins)
           /\ Kept => /\ KeptUsers(vs, tally)
                      /\ KeptLoads(answers, thread[1], queue, vs, tally)
<1>1. \A j \in Job : j.slot \in Slots
  BY JobTypes
<1>2. /\ \A k \in DOMAIN queue : queue[k].slot \in Slots
      /\ \A k \in DOMAIN answers : answers[k].slot \in Slots
      /\ thread[1].slot \in Slots
  BY <1>1, JobTypes
<1>3. InOrder(answers, thread[1], queue, vs, logins)
  BY <1>2 DEF Ordered, InOrder
<1>4. Kept => KeptUsers(vs, tally)
  BY DEF Kept, KeptUsers
<1>5. ASSUME NEW j, j.slot \in Slots
      PROVE  /\ LoadOK(j, users) => LoadOK(j, vs)
             /\ OwnLoad(j, vs) => OwnLoad(j, users)
  BY <1>5 DEF LoadOK, OwnLoad
<1>6. Kept => KeptLoads(answers, thread[1], queue, vs, tally)
  BY <1>2, <1>5 DEF Kept, KeptLoads
<1> QED BY <1>3, <1>4, <1>6

(* A login: its load is the last one in the queue, so after all saves of   *)
(* its user.                                                               *)
LEMMA LoginKept ==
    ASSUME RecordInv, DOMAIN thread = {1}, Ordered,
           NEW x \in Slots, NEW u \in Users, Login(x, u)
    PROVE  Ordered' /\ (careful' /\ Kept => Kept')
<1> DEFINE n == logins'
           j == Load(x, u, n)
           q == Append(queue, j)
<1>0. n = logins + 1 /\ n \in Nat /\ logins \in Nat
  <2>1. logins' = logins + 1 /\ logins \in Nat
    BY JobTypes DEF Login
  <2> QED BY <2>1
<1>1. /\ users' = [users EXCEPT ![x].isLogin = TRUE, ![x].userID = u,
                                ![x].login = n, ![x].loaded = FALSE]
      /\ queue' = q /\ thread' = thread /\ answers' = answers /\ rows' = rows /\ tally' = tally
  BY DEF Login
<1>10. careful' => LogsInOnce(x, u)
  <2>1. careful' = (careful /\ LogsInOnce(x, u))
    BY DEF Login
  <2> QED BY <2>1, Zenon
<1>2. /\ j.kind = "load" /\ j.slot = x /\ j.user = u /\ j.login = n
  BY DEF Load, Idle
<1> HIDE DEF n, j
<1>3. /\ DOMAIN queue = 1 .. Len(queue) /\ Len(queue) \in Nat
      /\ DOMAIN q = 1 .. Len(queue) + 1
      /\ \A k \in DOMAIN queue : q[k] = queue[k]
      /\ q[Len(queue) + 1] = j
  <2> DEFINE S == Job \cup {j}
  <2>1. queue \in Seq(S) /\ j \in S
    BY JobTypes
  <2> HIDE DEF S
  <2> QED BY <2>1, AppendIs
<1>4. /\ users'[x].isLogin /\ users'[x].userID = u /\ users'[x].login = n
      /\ ~users'[x].loaded /\ users'[x].isUsing = users[x].isUsing
      /\ \A i \in Slots \ {x} : users'[i] = users[i]
  <2>1. LET v == [users[x] EXCEPT !.isLogin = TRUE, !.userID = u,
                                  !.login = n, !.loaded = FALSE]
        IN  /\ v.isLogin /\ v.userID = u /\ v.login = n /\ ~v.loaded
            /\ v.isUsing = users[x].isUsing
    BY JobTypes DEF UserType
  <2> QED BY <1>1, <2>1, JobTypes
<1>5. \A i \in Slots : users[i].login < n /\ users[i].login \in Nat
  BY <1>0, JobTypes DEF Ordered, InOrder
<1>6. \A b \in Job : IsLoad(b) /\ b.login <= users[b.slot].login =>
         b.login < n /\ b.login <= users'[b.slot].login
  BY <1>0, <1>4, <1>5, JobTypes
<1>7. /\ \A k \in DOMAIN answers : answers[k] \in Job /\ IsLoad(answers[k])
                                   /\ answers[k].login <= users[answers[k].slot].login
      /\ thread[1] \in Job
      /\ IsLoad(thread[1]) => thread[1].login <= users[thread[1].slot].login
      /\ \A k \in DOMAIN queue : /\ queue[k] \in Job /\ queue[k].kind \in {"load", "save"}
                                 /\ IsLoad(queue[k]) =>
                                       queue[k].login <= users[queue[k].slot].login
  BY JobTypes DEF Ordered, InOrder, IsLoad
<1>8. Ordered'
  <2>1. \A i \in Slots : users'[i].login <= n
    BY <1>0, <1>4, <1>5
  <2>2. \A k \in DOMAIN answers : answers[k].login < n /\ answers[k].login <= users'[answers[k].slot].login
    BY <1>6, <1>7
  <2>3. IsLoad(thread[1]) => thread[1].login < n /\ thread[1].login <= users'[thread[1].slot].login
    BY <1>6, <1>7
  <2>4. \A k \in DOMAIN queue : IsLoad(queue[k]) =>
           queue[k].login < n /\ queue[k].login <= users'[queue[k].slot].login
    BY <1>6, <1>7
  <2>5. \A k \in DOMAIN q : q[k].kind \in {"load", "save"}
                            /\ (IsLoad(q[k]) => q[k].login <= users'[q[k].slot].login)
    <3>1. q[Len(queue) + 1].kind = "load"
      BY <1>2, <1>3
    <3>2. IsLoad(q[Len(queue) + 1]) =>
             q[Len(queue) + 1].login <= users'[q[Len(queue) + 1].slot].login
      BY <1>0, <1>2, <1>3, <1>4
    <3>3. \A k \in DOMAIN q : k \in DOMAIN queue \/ k = Len(queue) + 1
      BY <1>3
    <3> HIDE DEF q
    <3> QED BY <1>3, <1>7, <2>4, <3>1, <3>2, <3>3
  <2>6. \A k, m \in DOMAIN q :
           k < m /\ IsLoad(q[k]) /\ IsLoad(q[m]) => q[k].login < q[m].login
    BY <1>2, <1>3, <2>4 DEF Ordered, InOrder
  <2>7. \A m \in DOMAIN q : IsLoad(thread[1]) /\ IsLoad(q[m]) => thread[1].login < q[m].login
    BY <1>2, <1>3, <2>3 DEF Ordered, InOrder
  <2>8. \A k \in DOMAIN answers, m \in DOMAIN q : IsLoad(q[m]) => answers[k].login < q[m].login
    BY <1>2, <1>3, <2>2 DEF Ordered, InOrder
  <2> HIDE DEF q
  <2>9. InOrder(answers, thread[1], q, users', n)
    BY <1>7, <2>1, <2>2, <2>3, <2>5, <2>6, <2>7, <2>8 DEF Ordered, InOrder
  <2> QED BY <1>1, <2>9 DEF Ordered, n
<1>9. ASSUME careful', Kept PROVE Kept'
  <2>1. KeptUsers(users', tally)
    <3>1. \A i \in Slots \ {x} : Logged(users'[i]) => users'[i].userID # u
      BY <1>10, <1>4, <1>9 DEF LogsInOnce, Logged
    <3> QED BY <1>4, <1>9, <3>1 DEF Kept, KeptUsers, Logged
  <2>2. \A v : /\ NoSave(q, v) <=> NoSave(queue, v)
               /\ \A k \in DOMAIN q : IsSave(q[k], v) <=> k \in DOMAIN queue /\ IsSave(queue[k], v)
    BY <1>2, <1>3 DEF NoSave, IsSave
  <2>3. KeptRows(thread[1], q, rows, tally)
    BY <1>3, <1>9, <2>2 DEF Kept, KeptRows
  <2>4. ASSUME NEW b \in Job, IsLoad(b) => b.login <= users[b.slot].login
        PROVE  /\ LoadOK(b, users) => LoadOK(b, users')
               /\ OwnLoad(b, users') => OwnLoad(b, users)
    <3>1. IsLoad(b) => b.login < n
      BY <1>6, <2>4
    <3>2. CASE b.slot # x
      BY <1>4, <2>4, <3>2, JobTypes DEF LoadOK, OwnLoad
    <3>3. CASE b.slot = x
      BY <1>0, <1>4, <3>1, <3>3, JobTypes DEF LoadOK, OwnLoad
    <3> QED BY <3>2, <3>3
  <2>5. \A k \in DOMAIN answers :
          /\ LoadOK(answers[k], users')
          /\ OwnLoad(answers[k], users') =>
                /\ answers[k].data = tally[answers[k].user]
                /\ NoSave(q, answers[k].user) /\ ~IsSave(thread[1], answers[k].user)
    BY <1>7, <1>9, <2>2, <2>4 DEF Kept, KeptLoads
  <2>6. /\ LoadOK(thread[1], users')
        /\ OwnLoad(thread[1], users') =>
              NoSave(q, thread[1].user)
              /\ (thread[1].kind = "answer" => thread[1].data = tally[thread[1].user])
    BY <1>7, <1>9, <2>2, <2>4 DEF Kept, KeptLoads, Ordered, InOrder
  <2>7. \A k \in DOMAIN queue :
          /\ LoadOK(queue[k], users')
          /\ OwnLoad(queue[k], users') =>
                \A m \in DOMAIN queue : k < m => ~IsSave(queue[m], queue[k].user)
    BY <1>7, <1>9, <2>4 DEF Kept, KeptLoads, Ordered, InOrder
  <2>8. \A k \in DOMAIN q :
          /\ LoadOK(q[k], users')
          /\ OwnLoad(q[k], users') => \A m \in DOMAIN q : k < m => ~IsSave(q[m], q[k].user)
    <3> SUFFICES ASSUME NEW k \in DOMAIN q
                 PROVE  /\ LoadOK(q[k], users')
                        /\ OwnLoad(q[k], users') =>
                              \A m \in DOMAIN q : k < m => ~IsSave(q[m], q[k].user)
      OBVIOUS
    <3>1. CASE k \in DOMAIN queue
      BY <1>3, <2>2, <2>7, <3>1
    <3>2. CASE k = Len(queue) + 1
      <4>1. LoadOK(q[k], users')
        BY <1>2, <1>3, <1>4, <3>2 DEF LoadOK
      <4>2. \A m \in DOMAIN q : ~(k < m)
        BY <1>3, <3>2
      <4> QED BY <4>1, <4>2
    <3> QED BY <1>3, <3>1, <3>2
  <2> HIDE DEF q
  <2>9. KeptLoads(answers, thread[1], q, users', tally)
    BY <2>5, <2>6, <2>8 DEF KeptLoads
  <2> QED BY <1>1, <2>1, <2>3, <2>9 DEF Kept
<1> QED BY <1>8, <1>9

(* An answer is the oldest load there is: if its user is told his data by  *)
(* it, no other load for the slot is left.                                 *)
LEMMA AnswerKept ==
    ASSUME RecordInv, DOMAIN thread = {1}, Ordered, InResponseDbLoadUserGameData
    PROVE  Ordered' /\ (Kept => Kept')
<1> DEFINE a == Head(answers)
           q == Tail(answers)
           b == users[a.slot].loaded \/ a.login = users[a.slot].login
<1>1. /\ answers # <<>> /\ answers' = q
      /\ queue' = queue /\ thread' = thread /\ rows' = rows /\ logins' = logins /\ tally' = tally
      /\ users' = IF users[a.slot].isUsing
                  THEN [users EXCEPT ![a.slot].data = a.data, ![a.slot].loaded = b]
                  ELSE users
  BY DEF InResponseDbLoadUserGameData, past
<1>2. /\ 1 \in DOMAIN answers /\ a = answers[1] /\ a \in Job
      /\ DOMAIN q \subseteq Nat
      /\ \A k \in DOMAIN q : k + 1 \in DOMAIN answers /\ q[k] = answers[k + 1]
  BY <1>1, JobTypes, TailIs
<1>3. a.kind = "answer" /\ a.login <= users[a.slot].login /\ a.slot \in Slots
  BY <1>2, JobTypes DEF Ordered, InOrder
<1>4. /\ \A k \in DOMAIN q : a.login < q[k].login /\ q[k] \in Job /\ q[k].kind = "answer"
                             /\ q[k].login <= users[q[k].slot].login
      /\ IsLoad(thread[1]) => a.login < thread[1].login
                              /\ thread[1].login <= users[thread[1].slot].login
      /\ \A k \in DOMAIN queue : IsLoad(queue[k]) =>
            a.login < queue[k].login /\ queue[k].login <= users[queue[k].slot].login
  <2>1. \A k \in DOMAIN q : 1 < k + 1 /\ k + 1 \in DOMAIN answers /\ q[k] = answers[k + 1]
    BY <1>2
  <2>2. \A m \in DOMAIN answers : 1 < m => a.login < answers[m].login
    BY <1>2 DEF Ordered, InOrder
  <2>3. \A m \in DOMAIN answers : answers[m] \in Job /\ answers[m].kind = "answer"
                                  /\ answers[m].login <= users[answers[m].slot].login
    BY JobTypes DEF Ordered, InOrder
  <2>4. /\ IsLoad(thread[1]) => a.login < thread[1].login
                                /\ thread[1].login <= users[thread[1].slot].login
        /\ \A k \in DOMAIN queue : IsLoad(queue[k]) =>
              a.login < queue[k].login /\ queue[k].login <= users[queue[k].slot].login
    BY <1>2 DEF Ordered, InOrder
  <2> QED BY <2>1, <2>2, <2>3, <2>4
<1>5. /\ \A i \in Slots : /\ users'[i].login = users[i].login
                          /\ users'[i].userID = users[i].userID
                          /\ users'[i].isUsing = users[i].isUsing
                          /\ users'[i].isLogin = users[i].isLogin
      /\ \A i \in Slots \ {a.slot} : users'[i] = users[i]
      /\ users[a.slot].isUsing => users'[a.slot].data = a.data /\ users'[a.slot].loaded = b
      /\ ~users[a.slot].isUsing => users' = users
  <2> DEFINE d == a.data
  <2> HIDE DEF b, d
  <2>1. LET v == [users[a.slot] EXCEPT !.data = d, !.loaded = b] IN
        /\ v.data = d /\ v.loaded = b
        /\ v.login = users[a.slot].login /\ v.userID = users[a.slot].userID
        /\ v.isUsing = users[a.slot].isUsing /\ v.isLogin = users[a.slot].isLogin
    BY <1>3, JobTypes DEF UserType
  <2>2. users' = IF users[a.slot].isUsing
                 THEN [users EXCEPT ![a.slot].data = d, ![a.slot].loaded = b]
                 ELSE users
    BY <1>1 DEF d
  <2> HIDE DEF a
  <2>3. \A i \in Slots \ {a.slot} : users'[i] = users[i]
    BY <2>2, JobTypes
  <2>4. CASE users[a.slot].isUsing
    <3>1. users'[a.slot] = [users[a.slot] EXCEPT !.data = d, !.loaded = b]
      BY <1>3, <2>2, <2>4, JobTypes
    <3> QED BY <2>1, <2>3, <2>4, <3>1 DEF d
  <2>5. CASE ~users[a.slot].isUsing
    BY <2>2, <2>5
  <2> QED BY <2>4, <2>5
<1> HIDE DEF b
<1>6. Ordered'
  <2>1. \A i \in Slots : users'[i].login <= logins
    BY <1>5 DEF Ordered, InOrder
  <2>2. \A k \in DOMAIN q : q[k].kind = "answer" /\ q[k].login <= users'[q[k].slot].login
    BY <1>4, <1>5, JobTypes
  <2>3. /\ IsLoad(thread[1]) => thread[1].login <= users'[thread[1].slot].login
        /\ \A k \in DOMAIN queue :
              /\ queue[k].kind \in {"load", "save"}
              /\ IsLoad(queue[k]) => queue[k].login <= users'[queue[k].slot].login
    BY <1>5, JobTypes DEF Ordered, InOrder
  <2>4. \A k, m \in DOMAIN q : k < m => q[k].login < q[m].login
    <3> SUFFICES ASSUME NEW k \in DOMAIN q, NEW m \in DOMAIN q, k < m
                 PROVE  q[k].login < q[m].login
      OBVIOUS
    <3>1. k + 1 < m + 1 /\ k + 1 \in DOMAIN answers /\ m + 1 \in DOMAIN answers
      BY <1>2
    <3> QED BY <1>2, <3>1 DEF Ordered, InOrder
  <2>5. /\ \A k \in DOMAIN q : IsLoad(thread[1]) => q[k].login < thread[1].login
        /\ \A k \in DOMAIN q, m \in DOMAIN queue :
              IsLoad(queue[m]) => q[k].login < queue[m].login
    BY <1>2 DEF Ordered, InOrder
  <2>6. /\ \A k, m \in DOMAIN queue :
             k < m /\ IsLoad(queue[k]) /\ IsLoad(queue[m]) => queue[k].login < queue[m].login
        /\ \A m \in DOMAIN queue :
             IsLoad(thread[1]) /\ IsLoad(queue[m]) => thread[1].login < queue[m].login
    BY DEF Ordered, InOrder
  <2> HIDE DEF q
  <2>7. InOrder(q, thread[1], queue, users', logins)
    BY <2>1, <2>2, <2>3, <2>4, <2>5, <2>6 DEF InOrder
  <2> QED BY <1>1, <2>7 DEF Ordered
<1>7. ASSUME Kept PROVE Kept'
  <2>1. /\ LoadOK(a, users)
        /\ OwnLoad(a, users) => a.data = tally[a.user]
    BY <1>2, <1>7 DEF Kept, KeptLoads
  <2>2. Logged(users[a.slot]) /\ b => OwnLoad(a, users) /\ a.user = users[a.slot].userID
    BY <1>3, <2>1 DEF LoadOK, OwnLoad, IsLoad, b
  <2>3. KeptUsers(users', tally)
    <3> SUFFICES ASSUME NEW i \in Slots, Logged(users'[i])
                 PROVE  /\ users'[i].userID \in Users
                        /\ users'[i].loaded => users'[i].data = tally[users'[i].userID]
                        /\ \A k \in Slots :
                              Logged(users'[k]) /\ users'[k].userID = users'[i].userID => k = i
      BY DEF KeptUsers
    <3>1. Logged(users[i])
      BY <1>5 DEF Logged
    <3>2. /\ users'[i].userID \in Users
          /\ \A k \in Slots :
                Logged(users'[k]) /\ users'[k].userID = users'[i].userID => k = i
      BY <1>5, <1>7, <3>1 DEF Kept, KeptUsers, Logged
    <3>3. users'[i].loaded => users'[i].data = tally[users'[i].userID]
      <4>1. CASE i # a.slot
        BY <1>5, <1>7, <3>1, <4>1 DEF Kept, KeptUsers
      <4>2. CASE i = a.slot
        BY <1>5, <2>1, <2>2, <3>1, <4>2 DEF Logged
      <4> QED BY <4>1, <4>2
    <3> QED BY <3>2, <3>3
  <2>4. ASSUME NEW j \in Job, LoadOK(j, users),
               IsLoad(j) => a.login < j.login /\ j.login <= users[j.slot].login
        PROVE  LoadOK(j, users') /\ (OwnLoad(j, users') => OwnLoad(j, users))
    <3>1. OwnLoad(j, users') => OwnLoad(j, users)
      BY <1>5, JobTypes DEF OwnLoad, Logged
    <3>2. CASE j.slot # a.slot
      BY <1>5, <2>4, <3>1, <3>2, JobTypes DEF LoadOK, Logged
    <3>3. CASE j.slot = a.slot /\ IsLoad(j) /\ Logged(users[a.slot])
      <4>1. ~users[a.slot].loaded /\ (j.login = users[j.slot].login => j.user = users[j.slot].userID)
        BY <2>4, <3>3 DEF LoadOK
      <4>2. a.login # users[a.slot].login
        BY <1>2, <2>4, <3>3, JobTypes
      <4>3. ~users'[a.slot].loaded
        BY <1>5, <3>3, <4>1, <4>2 DEF b, Logged
      <4> QED BY <1>3, <1>5, <3>1, <3>3, <4>1, <4>3 DEF LoadOK
    <3>4. CASE j.slot = a.slot /\ ~(IsLoad(j) /\ Logged(users[a.slot]))
      BY <1>3, <1>5, <3>1, <3>4 DEF LoadOK, Logged
    <3> QED BY <3>2, <3>3, <3>4
  <2>5. \A k \in DOMAIN q :
          /\ LoadOK(q[k], users')
          /\ OwnLoad(q[k], users') =>
                /\ q[k].data = tally[q[k].user]
                /\ NoSave(queue, q[k].user) /\ ~IsSave(thread[1], q[k].user)
    <3>1. \A k \in DOMAIN q :
          /\ LoadOK(q[k], users)
          /\ OwnLoad(q[k], users) =>
                /\ q[k].data = tally[q[k].user]
                /\ NoSave(queue, q[k].user) /\ ~IsSave(thread[1], q[k].user)
      BY <1>2, <1>7 DEF Kept, KeptLoads
    <3> HIDE DEF q
    <3> QED BY <1>4, <2>4, <3>1
  <2>6. /\ LoadOK(thread[1], users')
        /\ OwnLoad(thread[1], users') =>
              NoSave(queue, thread[1].user)
              /\ (thread[1].kind = "answer" => thread[1].data = tally[thread[1].user])
    <3>1. LoadOK(thread[1], users') /\ (OwnLoad(thread[1], users') => OwnLoad(thread[1], users))
      BY <1>4, <1>7, <2>4, JobTypes DEF Kept, KeptLoads
    <3> QED BY <1>7, <3>1 DEF Kept, KeptLoads
  <2>7. \A k \in DOMAIN queue :
          /\ LoadOK(queue[k], users')
          /\ OwnLoad(queue[k], users') =>
                \A m \in DOMAIN queue : k < m => ~IsSave(queue[m], queue[k].user)
    <3> SUFFICES ASSUME NEW k \in DOMAIN queue
                 PROVE  /\ LoadOK(queue[k], users')
                        /\ OwnLoad(queue[k], users') =>
                              \A m \in DOMAIN queue : k < m => ~IsSave(queue[m], queue[k].user)
      OBVIOUS
    <3>1. LoadOK(queue[k], users') /\ (OwnLoad(queue[k], users') => OwnLoad(queue[k], users))
      BY <1>4, <1>7, <2>4, JobTypes DEF Kept, KeptLoads
    <3> QED BY <1>7, <3>1 DEF Kept, KeptLoads
  <2> HIDE DEF q
  <2>8. KeptLoads(q, thread[1], queue, users', tally)
    BY <2>5, <2>6, <2>7 DEF KeptLoads
  <2>9. KeptRows(thread[1], queue, rows, tally)
    BY <1>7 DEF Kept
  <2> QED BY <1>1, <2>3, <2>8, <2>9 DEF Kept
<1> QED BY <1>6, <1>7

(* What a game changes in memory and in the queue, whoever has data.       *)
LEMMA GameChanges ==
    ASSUME RecordInv, NEW w \in Slots, NEW l \in Slots, UpdateUsersGameData(w, l)
    PROVE  /\ w # l
           /\ \A i \in Slots : /\ users'[i].login = users[i].login
                               /\ users'[i].userID = users[i].userID
                               /\ users'[i].loaded = users[i].loaded
                               /\ users'[i].isUsing = users[i].isUsing
                               /\ users'[i].isLogin = users[i].isLogin
           /\ \A i \in Slots \ {w, l} : users'[i] = users[i]
           /\ \/ queue' = queue
              \/ \E d, e \in GoodRecord : queue' = queue \o <<Save(w, d), Save(l, e)>>
           /\ users[w].data # NoData /\ users[l].data # NoData =>
                 /\ users'[w].data = Win(users[w].data) /\ users'[l].data = Lose(users[l].data)
                 /\ queue' = queue \o <<Save(w, Win(users[w].data)), Save(l, Lose(users[l].data))>>
<1> DEFINE dw == users[w].data
           dl == users[l].data
           x  == Win(dw)
           y  == Lose(dl)
<1>1. /\ users \in [Slots -> GoodUser] /\ dw \in GoodRecord /\ dl \in GoodRecord
      /\ \A i \in Slots : users[i] \in UserType
  BY DEF RecordInv, GoodUser
<1>2. w # l
  BY DEF UpdateUsersGameData, GameEnds, Opponents
<1>3. /\ dw # NoData => x \in GoodRecord
      /\ dl # NoData => y \in GoodRecord
  BY <1>1, WinLoseGood
<1>4. \/ dw = NoData /\ users' = users /\ queue' = queue
      \/ dw # NoData /\ dl = NoData /\ users' = [users EXCEPT ![w].data = x] /\ queue' = queue
      \/ /\ dw # NoData /\ dl # NoData
         /\ users' = [users EXCEPT ![w].data = x, ![l].data = y]
         /\ queue' = queue \o <<Save(w, x), Save(l, y)>>
  <2>1. CASE dw = NoData
    BY <2>1 DEF UpdateUsersGameData
  <2>2. CASE dw # NoData /\ dl = NoData
    BY <2>2 DEF UpdateUsersGameData
  <2>3. CASE dw # NoData /\ dl # NoData
    <3>1. /\ users' = [users EXCEPT ![w].data = Win(@), ![l].data = Lose(@)]
          /\ queue' = queue \o <<Save(w, x), Save(l, y)>>
      BY <2>3 DEF UpdateUsersGameData
    <3> QED BY <1>1, <1>2, <2>3, <3>1
  <2> QED BY <2>1, <2>2, <2>3
<1> HIDE DEF x, y
<1>5. \A v \in UserType : \A d : LET r == [v EXCEPT !.data = d] IN
         /\ r.data = d /\ r.login = v.login /\ r.userID = v.userID /\ r.loaded = v.loaded
         /\ r.isUsing = v.isUsing /\ r.isLogin = v.isLogin
  BY DEF UserType
<1>6. CASE dw = NoData /\ users' = users /\ queue' = queue
  BY <1>2, <1>6
<1>7. CASE dw # NoData /\ dl = NoData /\ users' = [users EXCEPT ![w].data = x] /\ queue' = queue
  <2>1. users'[w] = [users[w] EXCEPT !.data = x] /\ \A i \in Slots \ {w} : users'[i] = users[i]
    BY <1>1, <1>7
  <2> QED BY <1>1, <1>2, <1>5, <1>7, <2>1
<1>8. CASE /\ dw # NoData /\ dl # NoData
           /\ users' = [users EXCEPT ![w].data = x, ![l].data = y]
           /\ queue' = queue \o <<Save(w, x), Save(l, y)>>
  <2>1. /\ users'[w] = [users[w] EXCEPT !.data = x] /\ users'[l] = [users[l] EXCEPT !.data = y]
        /\ \A i \in Slots \ {w, l} : users'[i] = users[i]
    BY <1>1, <1>2, <1>8
  <2> DEFINE Same(i) == /\ users'[i].login = users[i].login
                        /\ users'[i].userID = users[i].userID
                        /\ users'[i].loaded = users[i].loaded
                        /\ users'[i].isUsing = users[i].isUsing
                        /\ users'[i].isLogin = users[i].isLogin
  <2>2. \A i \in Slots : Same(i)
    <3>1. Same(w)
      BY <1>1, <1>5, <2>1
    <3>2. Same(l)
      BY <1>1, <1>5, <2>1
    <3>3. \A i \in Slots \ {w, l} : Same(i)
      BY <2>1
    <3> HIDE DEF Same
    <3> QED BY <3>1, <3>2, <3>3
  <2>3. users'[w].data = x /\ users'[l].data = y
    BY <1>1, <1>5, <2>1
  <2>4. \E d, e \in GoodRecord : queue' = queue \o <<Save(w, d), Save(l, e)>>
    BY <1>3, <1>8
  <2> QED BY <1>2, <1>8, <2>1, <2>2, <2>3, <2>4 DEF x, y
<1> QED BY <1>4, <1>6, <1>7, <1>8

(* Two saves more leave the loads in order.                                *)
LEMMA SavesInOrder ==
    ASSUME RecordInv, DOMAIN thread = {1}, Ordered, NEW a \in Job, NEW b \in Job,
           a.kind = "save", b.kind = "save"
    PROVE  InOrder(answers, thread[1], queue \o <<a, b>>, users, logins)
<1> DEFINE q == queue \o <<a, b>>
<1>1. /\ DOMAIN queue = 1 .. Len(queue) /\ Len(queue) \in Nat
      /\ DOMAIN q = 1 .. Len(queue) + 2
      /\ \A k \in DOMAIN queue : q[k] = queue[k]
      /\ q[Len(queue) + 1] = a /\ q[Len(queue) + 2] = b
  BY JobTypes, TwoMoreIs
<1> HIDE DEF q
<1>2. \A k \in DOMAIN q : k \in DOMAIN queue \/ (q[k].kind = "save" /\ ~IsLoad(q[k]))
  BY <1>1 DEF IsLoad
<1>3. \A k \in DOMAIN q : IsLoad(q[k]) => k \in DOMAIN queue /\ q[k] = queue[k]
  BY <1>1, <1>2
<1>4. \A k \in DOMAIN q : q[k].kind \in {"load", "save"}
                          /\ (IsLoad(q[k]) => q[k].login <= users[q[k].slot].login)
  <2>1. \A k \in DOMAIN queue : q[k].kind \in {"load", "save"}
                          /\ (IsLoad(q[k]) => q[k].login <= users[q[k].slot].login)
    BY <1>1 DEF Ordered, InOrder
  <2> QED BY <1>2, <2>1
<1> QED BY <1>3, <1>4 DEF Ordered, InOrder, q

(* The end of a game: both players have their data, which agree with their *)
(* tallies; so do the two saves, which are the last ones of the two.       *)
LEMMA GameKept ==
    ASSUME RecordInv, RecordInv', DOMAIN thread = {1}, Ordered,
           \A u \in Users : tally[u].level >= 1,
           NEW w \in Slots, NEW l \in Slots, UpdateUsersGameData(w, l)
    PROVE  Ordered' /\ (careful' /\ Kept => Kept')
<1> DEFINE uw == users[w].userID
           ul == users[l].userID
<1>1. /\ tally' = [tally EXCEPT ![uw] = Win(@), ![ul] = Lose(@)]
      /\ thread' = thread /\ answers' = answers /\ rows' = rows /\ logins' = logins
      /\ Logged(users[w]) /\ Logged(users[l]) /\ uw # ul
  BY DEF UpdateUsersGameData, GameEnds, Opponents, Logged
<1>2. careful' => users[w].loaded /\ users[l].loaded
  <2>1. careful' = (careful /\ HasData(w) /\ HasData(l))
    BY DEF UpdateUsersGameData, GameEnds
  <2> QED BY <2>1, Zenon DEF HasData
<1>3. /\ w # l
      /\ \A i \in Slots : /\ users'[i].login = users[i].login
                          /\ users'[i].userID = users[i].userID
                          /\ users'[i].loaded = users[i].loaded
                          /\ users'[i].isUsing = users[i].isUsing
                          /\ users'[i].isLogin = users[i].isLogin
      /\ \A i \in Slots \ {w, l} : users'[i] = users[i]
  BY GameChanges
<1>4. \/ queue' = queue
      \/ \E d, e \in GoodRecord : queue' = queue \o <<Save(w, d), Save(l, e)>>
  BY GameChanges
<1>5. \A d \in GoodRecord : Save(w, d) \in Job /\ Save(l, d) \in Job
  <2>1. uw \in Users \cup {NoUser} /\ ul \in Users \cup {NoUser}
    BY JobTypes DEF UserType
  <2> QED BY <2>1, JobsAreGood DEF GoodJob
<1> HIDE DEF uw, ul
<1>6. Ordered'
  <2>1. InOrder(answers, thread[1], queue', users, logins)
    <3>1. CASE queue' = queue
      BY <3>1 DEF Ordered
    <3>2. CASE \E d, e \in GoodRecord : queue' = queue \o <<Save(w, d), Save(l, e)>>
      <4>1. PICK d \in GoodRecord, e \in GoodRecord :
               queue' = queue \o <<Save(w, d), Save(l, e)>>
        BY <3>2
      <4>2. Save(w, d).kind = "save" /\ Save(l, e).kind = "save"
        BY DEF Save, Idle
      <4> QED BY <1>5, <4>1, <4>2, SavesInOrder
    <3> QED BY <1>4, <3>1, <3>2
  <2>2. /\ \A k \in DOMAIN answers : answers[k].slot \in Slots
        /\ thread[1].slot \in Slots
    BY JobTypes
  <2>3. \A k \in DOMAIN queue' : queue'[k].slot \in Slots
    <3>1. queue' \in Seq(GoodJob)
      BY DEF RecordInv
    <3> QED BY <3>1, ElementOfSeq DEF GoodJob, Job
  <2>4. InOrder(answers, thread[1], queue', users', logins)
    BY <1>3, <2>1, <2>2, <2>3 DEF InOrder
  <2> QED BY <1>1, <2>4 DEF Ordered
<1>7. ASSUME careful', Kept PROVE Kept'
  <2>1. /\ uw \in Users /\ ul \in Users
        /\ users[w].data = tally[uw] /\ users[l].data = tally[ul]
        /\ \A i \in Slots \ {w, l} : Logged(users[i]) => users[i].userID \notin {uw, ul}
    BY <1>1, <1>2, <1>7 DEF Kept, KeptUsers, uw, ul
  <2>2. users[w].data # NoData /\ users[l].data # NoData
    <3>1. NoData.level = 0 /\ ~(0 >= 1)
      BY DEF NoData, NewRow
    <3> QED BY <2>1, <3>1
  <2> DEFINE x == Win(users[w].data)
             y == Lose(users[l].data)
             a == Save(w, x)
             b == Save(l, y)
             q == queue \o <<a, b>>
  <2>3. users'[w].data = x /\ users'[l].data = y /\ queue' = q
    BY <2>2, GameChanges
  <2>4. /\ tally'[uw] = x /\ tally'[ul] = y
        /\ \A u \in Users \ {uw, ul} : tally'[u] = tally[u]
    BY <1>1, <2>1, JobTypes
  <2>5. /\ a.kind = "save" /\ a.user = uw /\ a.data = x
        /\ b.kind = "save" /\ b.user = ul /\ b.data = y
    BY DEF Save, Idle, uw, ul
  <2>6. a \in Job /\ b \in Job
    <3>1. x \in GoodRecord /\ y \in GoodRecord
      <4>1. users[w].data \in GoodRecord /\ users[l].data \in GoodRecord
        BY DEF RecordInv, GoodUser
      <4> QED BY <2>2, <4>1, WinLoseGood
    <3> QED BY <1>5, <3>1
  <2> HIDE DEF x, y, a, b
  <2>7. /\ DOMAIN queue = 1 .. Len(queue) /\ Len(queue) \in Nat
        /\ DOMAIN q = 1 .. Len(queue) + 2
        /\ \A k \in DOMAIN queue : q[k] = queue[k]
        /\ q[Len(queue) + 1] = a /\ q[Len(queue) + 2] = b
    BY <2>6, JobTypes, TwoMoreIs
  <2> HIDE DEF q
  <2>8. KeptUsers(users', tally')
    <3> SUFFICES ASSUME NEW i \in Slots, Logged(users'[i])
                 PROVE  /\ users'[i].userID \in Users
                        /\ users'[i].loaded => users'[i].data = tally'[users'[i].userID]
                        /\ \A k \in Slots :
                              Logged(users'[k]) /\ users'[k].userID = users'[i].userID => k = i
      BY DEF KeptUsers
    <3>1. /\ Logged(users[i]) /\ users'[i].userID = users[i].userID
          /\ users'[i].loaded = users[i].loaded
      BY <1>3 DEF Logged
    <3>2. /\ users'[i].userID \in Users
          /\ \A k \in Slots :
                Logged(users'[k]) /\ users'[k].userID = users'[i].userID => k = i
      BY <1>3, <1>7, <3>1 DEF Kept, KeptUsers, Logged
    <3>3. users'[i].loaded => users'[i].data = tally'[users'[i].userID]
      <4>1. CASE i \notin {w, l}
        <5>1. users'[i] = users[i] /\ users[i].userID \in Users \ {uw, ul}
          BY <1>3, <2>1, <3>1, <3>2, <4>1
        <5> QED BY <1>7, <2>4, <3>1, <5>1 DEF Kept, KeptUsers
      <4>2. CASE i = w
        BY <2>3, <2>4, <3>1, <4>2 DEF uw
      <4>3. CASE i = l
        BY <2>3, <2>4, <3>1, <4>3 DEF ul
      <4> QED BY <4>1, <4>2, <4>3
    <3> QED BY <3>2, <3>3
  <2>9. \A u : /\ \A k \in DOMAIN queue : IsSave(q[k], u) <=> IsSave(queue[k], u)
               /\ IsSave(q[Len(queue) + 1], u) <=> u = uw
               /\ IsSave(q[Len(queue) + 2], u) <=> u = ul
    BY <2>5, <2>7 DEF IsSave
  <2>10. \A u : u \notin {uw, ul} /\ NoSave(queue, u) <=> NoSave(q, u)
    <3>1. \A k \in DOMAIN queue : k \in DOMAIN q
      BY <2>7
    <3>2. Len(queue) + 1 \in DOMAIN q /\ Len(queue) + 2 \in DOMAIN q
      BY <2>7
    <3>3. \A k \in DOMAIN q : k \in DOMAIN queue \/ k = Len(queue) + 1 \/ k = Len(queue) + 2
      BY <2>7
    <3> QED BY <2>9, <3>1, <3>2, <3>3 DEF NoSave
  <2>11. KeptRows(thread[1], q, rows, tally')
    <3> SUFFICES ASSUME NEW u \in Users
                 PROVE  /\ \A k \in DOMAIN q :
                              IsSave(q[k], u) /\ (\A m \in DOMAIN q : k < m => ~IsSave(q[m], u)) =>
                                 q[k].data = tally'[u]
                        /\ NoSave(q, u) =>
                              IF IsSave(thread[1], u) THEN thread[1].data = tally'[u]
                              ELSE rows[u] = tally'[u]
      BY DEF KeptRows
    <3>1. NoSave(q, u) => IF IsSave(thread[1], u) THEN thread[1].data = tally'[u]
                          ELSE rows[u] = tally'[u]
      <4>1. NoSave(q, u) => u \notin {uw, ul} /\ NoSave(queue, u)
        BY <2>10
      <4> QED BY <1>7, <2>4, <4>1 DEF Kept, KeptRows
    <3>2. ASSUME NEW k \in DOMAIN q, IsSave(q[k], u), \A m \in DOMAIN q : k < m => ~IsSave(q[m], u)
          PROVE  q[k].data = tally'[u]
      <4>1. CASE k = Len(queue) + 1
        BY <2>4, <2>5, <2>7, <2>9, <3>2, <4>1
      <4>2. CASE k = Len(queue) + 2
        BY <2>4, <2>5, <2>7, <2>9, <3>2, <4>2
      <4>3. CASE k \in DOMAIN queue
        <5>1. /\ k < Len(queue) + 1 /\ k < Len(queue) + 2
              /\ Len(queue) + 1 \in DOMAIN q /\ Len(queue) + 2 \in DOMAIN q
          BY <2>7, <4>3
        <5>2. u \notin {uw, ul}
          BY <2>9, <3>2, <5>1
        <5>3. IsSave(queue[k], u) /\ \A m \in DOMAIN queue : k < m => ~IsSave(queue[m], u)
          <6>1. \A m \in DOMAIN queue : m \in DOMAIN q
            BY <2>7
          <6> QED BY <2>9, <3>2, <4>3, <6>1
        <5>4. queue[k].data = tally[u]
          BY <1>7, <4>3, <5>3 DEF Kept, KeptRows
        <5> QED BY <2>4, <2>7, <4>3, <5>2, <5>4
      <4> QED BY <2>7, <4>1, <4>2, <4>3
    <3> QED BY <3>1, <3>2
  <2>12. ASSUME NEW j \in Job, LoadOK(j, users)
         PROVE  /\ LoadOK(j, users')
                /\ OwnLoad(j, users') => /\ OwnLoad(j, users) /\ j.user \notin {uw, ul}
                                         /\ tally'[j.user] = tally[j.user]
    <3>1. j.slot \in Slots
      BY JobTypes
    <3>2. LoadOK(j, users') /\ (OwnLoad(j, users') => OwnLoad(j, users))
      BY <1>3, <2>12, <3>1 DEF LoadOK, OwnLoad, Logged
    <3>3. ASSUME OwnLoad(j, users)
          PROVE  j.user \in Users \ {uw, ul}
      <4>1. ~users[j.slot].loaded /\ j.user = users[j.slot].userID /\ Logged(users[j.slot])
        BY <2>12, <3>3 DEF LoadOK, OwnLoad
      <4>2. j.slot \notin {w, l}
        BY <1>2, <1>7, <4>1
      <4>3. users[j.slot].userID \in Users
        BY <1>7, <3>1, <4>1 DEF Kept, KeptUsers
      <4> QED BY <2>1, <3>1, <4>1, <4>2, <4>3
    <3> QED BY <2>4, <3>2, <3>3
  <2>13. \A k \in DOMAIN answers :
          /\ LoadOK(answers[k], users')
          /\ OwnLoad(answers[k], users') =>
                /\ answers[k].data = tally'[answers[k].user]
                /\ NoSave(q, answers[k].user) /\ ~IsSave(thread[1], answers[k].user)
    <3> SUFFICES ASSUME NEW k \in DOMAIN answers
                 PROVE  /\ LoadOK(answers[k], users')
                        /\ OwnLoad(answers[k], users') =>
                              /\ answers[k].data = tally'[answers[k].user]
                              /\ NoSave(q, answers[k].user) /\ ~IsSave(thread[1], answers[k].user)
      OBVIOUS
    <3>1. LoadOK(answers[k], users) /\ answers[k] \in Job
      BY <1>7, JobTypes DEF Kept, KeptLoads
    <3>2. /\ LoadOK(answers[k], users')
          /\ OwnLoad(answers[k], users') =>
                /\ OwnLoad(answers[k], users) /\ answers[k].user \notin {uw, ul}
                /\ tally'[answers[k].user] = tally[answers[k].user]
      BY <2>12, <3>1
    <3> QED BY <1>7, <2>10, <3>2 DEF Kept, KeptLoads
  <2>14. /\ LoadOK(thread[1], users')
         /\ OwnLoad(thread[1], users') =>
              NoSave(q, thread[1].user)
              /\ (thread[1].kind = "answer" => thread[1].data = tally'[thread[1].user])
    <3>1. LoadOK(thread[1], users) /\ thread[1] \in Job
      BY <1>7, JobTypes DEF Kept, KeptLoads
    <3>2. /\ LoadOK(thread[1], users')
          /\ OwnLoad(thread[1], users') =>
                /\ OwnLoad(thread[1], users) /\ thread[1].user \notin {uw, ul}
                /\ tally'[thread[1].user] = tally[thread[1].user]
      BY <2>12, <3>1
    <3> QED BY <1>7, <2>10, <3>2 DEF Kept, KeptLoads
  <2>15. \A k \in DOMAIN q :
          /\ LoadOK(q[k], users')
          /\ OwnLoad(q[k], users') => \A m \in DOMAIN q : k < m => ~IsSave(q[m], q[k].user)
    <3> SUFFICES ASSUME NEW k \in DOMAIN q
                 PROVE  /\ LoadOK(q[k], users')
                        /\ OwnLoad(q[k], users') =>
                              \A m \in DOMAIN q : k < m => ~IsSave(q[m], q[k].user)
      OBVIOUS
    <3>1. CASE k \in DOMAIN queue
      <4>1. LoadOK(queue[k], users) /\ queue[k] \in Job /\ q[k] = queue[k]
        BY <1>7, <2>7, <3>1, JobTypes DEF Kept, KeptLoads
      <4>2. /\ LoadOK(q[k], users')
            /\ OwnLoad(q[k], users') =>
                  /\ OwnLoad(queue[k], users) /\ q[k].user \notin {uw, ul}
        BY <2>12, <4>1
      <4>3. OwnLoad(queue[k], users) =>
               \A m \in DOMAIN queue : k < m => ~IsSave(queue[m], queue[k].user)
        BY <1>7, <3>1 DEF Kept, KeptLoads
      <4>4. \A m \in DOMAIN q : m \in DOMAIN queue \/ m = Len(queue) + 1 \/ m = Len(queue) + 2
        BY <2>7
      <4> QED BY <2>9, <4>1, <4>2, <4>3, <4>4
    <3>2. CASE k \notin DOMAIN queue
      <4>1. k = Len(queue) + 1 \/ k = Len(queue) + 2
        BY <2>7, <3>2
      <4>2. ~IsLoad(q[k])
        BY <2>5, <2>7, <4>1 DEF IsLoad
      <4> QED BY <4>2 DEF LoadOK, OwnLoad
    <3> QED BY <3>1, <3>2
  <2>16. KeptLoads(answers, thread[1], q, users', tally')
    BY <2>13, <2>14, <2>15 DEF KeptLoads
  <2> QED BY <1>1, <2>3, <2>8, <2>11, <2>16 DEF Kept
<1> QED BY <1>6, <1>7

(* A thread with nothing to do holds neither a load nor a save.            *)
LEMMA IdleIs ==
    /\ ~IsLoad(Idle) /\ \A u : ~IsSave(Idle, u)
    /\ \A us : LoadOK(Idle, us) /\ ~OwnLoad(Idle, us)
BY DEF IsLoad, IsSave, LoadOK, OwnLoad, Idle

(* The thread takes the first job.                                         *)
LEMMA ReceiveKept ==
    ASSUME RecordInv, DOMAIN thread = {1}, Ordered, Receive(1)
    PROVE  Ordered' /\ (Kept => Kept')
<1> DEFINE q == Tail(queue)
           t == queue[1]
<1>1. /\ thread[1] = Idle /\ queue # <<>> /\ thread' = [thread EXCEPT ![1] = Head(queue)]
      /\ queue' = q /\ users' = users /\ answers' = answers /\ rows' = rows
      /\ logins' = logins /\ tally' = tally
  BY DEF Receive, past
<1>2. /\ 1 \in DOMAIN queue /\ Head(queue) = t
      /\ DOMAIN queue \subseteq Nat /\ DOMAIN q \subseteq Nat \ {0}
      /\ \A k \in DOMAIN q : k + 1 \in DOMAIN queue /\ q[k] = queue[k + 1]
      /\ \A k \in DOMAIN queue : k = 1 \/ (k - 1 \in DOMAIN q /\ q[k - 1] = queue[k])
  BY <1>1, JobTypes, TailIs
<1>3. thread'[1] = t
  BY <1>1, <1>2
<1> HIDE DEF q, t
<1>4. ~IsLoad(thread[1]) /\ \A u : ~IsSave(thread[1], u)
  BY <1>1, IdleIs
<1>5. /\ \A k \in DOMAIN q : 1 < k + 1
      /\ \A k, m \in DOMAIN q : k < m => k + 1 < m + 1
      /\ \A k \in DOMAIN queue : k - 1 \in DOMAIN q => 1 < k
      /\ \A k \in DOMAIN q, m \in DOMAIN queue : k + 1 < m => m # 1 /\ k < m - 1
  <2>1. \A k \in DOMAIN q : k \in Nat /\ k # 0
    BY <1>2
  <2>2. \A k \in DOMAIN queue : k \in Nat
    BY <1>2
  <2> QED BY <2>1, <2>2
<1>6. Ordered'
  <2>1. InOrder(answers, t, q, users, logins)
    BY <1>2, <1>5 DEF Ordered, InOrder, t
  <2> QED BY <1>1, <1>3, <2>1 DEF Ordered
<1>7. ASSUME Kept PROVE Kept'
  <2>1. KeptRows(t, q, rows, tally)
    <3> SUFFICES ASSUME NEW u \in Users
                 PROVE  /\ \A k \in DOMAIN q :
                              IsSave(q[k], u) /\ (\A m \in DOMAIN q : k < m => ~IsSave(q[m], u)) =>
                                 q[k].data = tally[u]
                        /\ NoSave(q, u) =>
                              IF IsSave(t, u) THEN t.data = tally[u] ELSE rows[u] = tally[u]
      BY DEF KeptRows
    <3>1. /\ \A k \in DOMAIN queue :
                IsSave(queue[k], u) /\ (\A m \in DOMAIN queue : k < m => ~IsSave(queue[m], u)) =>
                   queue[k].data = tally[u]
          /\ NoSave(queue, u) => rows[u] = tally[u]
      BY <1>4, <1>7 DEF Kept, KeptRows
    <3>2. ASSUME NEW k \in DOMAIN q, IsSave(q[k], u), \A m \in DOMAIN q : k < m => ~IsSave(q[m], u)
          PROVE  q[k].data = tally[u]
      <4>1. k + 1 \in DOMAIN queue /\ q[k] = queue[k + 1]
        BY <1>2
      <4>2. \A m \in DOMAIN queue : k + 1 < m => ~IsSave(queue[m], u)
        BY <1>2, <1>5, <3>2
      <4> QED BY <3>1, <3>2, <4>1, <4>2
    <3>3. ASSUME NoSave(q, u)
          PROVE  IF IsSave(t, u) THEN t.data = tally[u] ELSE rows[u] = tally[u]
      <4>1. \A m \in DOMAIN queue : m # 1 => ~IsSave(queue[m], u)
        BY <1>2, <3>3 DEF NoSave
      <4>2. CASE IsSave(t, u)
        <5>1. \A m \in DOMAIN queue : 1 < m => ~IsSave(queue[m], u)
          BY <1>2, <4>1
        <5> QED BY <1>2, <3>1, <4>2, <5>1 DEF t
      <4>3. CASE ~IsSave(t, u)
        <5>1. NoSave(queue, u)
          BY <4>1, <4>3 DEF NoSave, t
        <5> QED BY <3>1, <4>3, <5>1
      <4> QED BY <4>2, <4>3
    <3> QED BY <3>2, <3>3
  <2>2. \A u : NoSave(queue, u) => NoSave(q, u) /\ ~IsSave(t, u)
    BY <1>2 DEF NoSave, t
  <2>3. /\ \A k \in DOMAIN queue :
             /\ LoadOK(queue[k], users)
             /\ OwnLoad(queue[k], users) =>
                  \A m \in DOMAIN queue : k < m => ~IsSave(queue[m], queue[k].user)
        /\ \A k \in DOMAIN answers :
             /\ LoadOK(answers[k], users)
             /\ OwnLoad(answers[k], users) =>
                  answers[k].data = tally[answers[k].user] /\ NoSave(queue, answers[k].user)
    BY <1>7 DEF Kept, KeptLoads
  <2>4. LoadOK(t, users) /\ (OwnLoad(t, users) => NoSave(q, t.user)) /\ t.kind # "answer"
    <3>1. LoadOK(t, users) /\ t.kind # "answer"
      BY <1>2, <2>3 DEF t, Ordered, InOrder
    <3>2. ASSUME OwnLoad(t, users) PROVE NoSave(q, t.user)
      <4>1. \A m \in DOMAIN queue : 1 < m => ~IsSave(queue[m], t.user)
        BY <1>2, <2>3, <3>2 DEF t
      <4> QED BY <1>2, <1>5, <4>1 DEF NoSave
    <3> QED BY <3>1, <3>2
  <2>5. \A k \in DOMAIN q :
          /\ LoadOK(q[k], users)
          /\ OwnLoad(q[k], users) => \A m \in DOMAIN q : k < m => ~IsSave(q[m], q[k].user)
    BY <1>2, <1>5, <2>3
  <2>6. KeptLoads(answers, t, q, users, tally)
    BY <2>2, <2>3, <2>4, <2>5 DEF KeptLoads
  <2>7. KeptUsers(users, tally)
    BY <1>7 DEF Kept
  <2> QED BY <1>1, <1>3, <2>1, <2>6, <2>7 DEF Kept
<1> QED BY <1>6, <1>7

(* It writes a row, which then holds what the save held.                   *)
LEMMA SaveKept ==
    ASSUME RecordInv, DOMAIN thread = {1}, Ordered, RequestSaveUserGameData(1)
    PROVE  Ordered' /\ (Kept => Kept')
<1> DEFINE t == thread[1]
<1>1. /\ t.kind = "save" /\ rows' = [rows EXCEPT ![t.user] = t.data]
      /\ thread' = [thread EXCEPT ![1] = Idle]
      /\ queue' = queue /\ users' = users /\ answers' = answers
      /\ logins' = logins /\ tally' = tally
  BY DEF RequestSaveUserGameData, past
<1>2. thread'[1] = Idle
  BY <1>1
<1>3. \A u \in Users : rows'[u] = IF u = t.user THEN t.data ELSE rows[u]
  BY <1>1 DEF RecordInv
<1>4. \A u : IsSave(t, u) <=> u = t.user
  BY <1>1 DEF IsSave
<1>5. Ordered'
  <2>1. InOrder(answers, Idle, queue, users, logins)
    BY IdleIs DEF Ordered, InOrder
  <2> QED BY <1>1, <1>2, <2>1 DEF Ordered
<1> HIDE DEF t
<1>6. ASSUME Kept PROVE Kept'
  <2>1. KeptRows(t, queue, rows, tally) /\ KeptLoads(answers, t, queue, users, tally)
    BY <1>6 DEF Kept, t
  <2>2. KeptRows(Idle, queue, rows', tally)
    BY <1>3, <1>4, <2>1, IdleIs DEF KeptRows
  <2>3. KeptLoads(answers, Idle, queue, users, tally)
    BY <2>1, IdleIs DEF KeptLoads
  <2>4. KeptUsers(users, tally)
    BY <1>6 DEF Kept
  <2> QED BY <1>1, <1>2, <2>2, <2>3, <2>4 DEF Kept
<1> QED BY <1>5, <1>6

(* It reads a row: no save of the user is under way if the load is his.    *)
LEMMA LoadKept ==
    ASSUME RecordInv, DOMAIN thread = {1}, Ordered, RequestLoadUserGameData(1)
    PROVE  Ordered' /\ (Kept => Kept')
<1> DEFINE t == thread[1]
           d == rows[t.user]
           r == [t EXCEPT !.kind = "answer", !.data = d]
<1>1. /\ t.kind = "load" /\ thread' = [thread EXCEPT ![1].kind = "answer", ![1].data = d]
      /\ queue' = queue /\ users' = users /\ answers' = answers /\ rows' = rows
      /\ logins' = logins /\ tally' = tally
  BY DEF RequestLoadUserGameData, past
<1>2. thread'[1] = r
  BY <1>1
<1>3. t \in Job
  BY JobTypes
<1> HIDE DEF d
<1>4. r.kind = "answer" /\ r.data = d /\ r.login = t.login /\ r.slot = t.slot /\ r.user = t.user
  BY <1>3 DEF Job
<1>5. IsLoad(t) /\ IsLoad(r) /\ \A u : ~IsSave(t, u) /\ ~IsSave(r, u)
  BY <1>1, <1>4 DEF IsLoad, IsSave
<1>6. t.slot \in Slots
  BY <1>3, JobTypes
<1> HIDE DEF t, r
<1>7. Ordered'
  <2>1. InOrder(answers, r, queue, users, logins)
    BY <1>4, <1>5 DEF Ordered, InOrder, t
  <2> QED BY <1>1, <1>2, <2>1 DEF Ordered
<1>8. ASSUME Kept PROVE Kept'
  <2>1. /\ KeptRows(t, queue, rows, tally) /\ KeptLoads(answers, t, queue, users, tally)
        /\ KeptUsers(users, tally)
    BY <1>8 DEF Kept, t
  <2>2. KeptRows(r, queue, rows, tally)
    BY <1>5, <2>1 DEF KeptRows
  <2>3. (LoadOK(t, users) => LoadOK(r, users)) /\ (OwnLoad(r, users) => OwnLoad(t, users))
    BY <1>4, <1>5 DEF LoadOK, OwnLoad
  <2>4. ASSUME OwnLoad(t, users) PROVE NoSave(queue, t.user) /\ d = tally[t.user]
    <3>1. NoSave(queue, t.user) /\ LoadOK(t, users)
      BY <2>1, <2>4 DEF KeptLoads
    <3>2. t.user \in Users
      BY <1>6, <2>1, <2>4, <3>1 DEF LoadOK, OwnLoad, KeptUsers
    <3> QED BY <1>5, <2>1, <3>1, <3>2 DEF KeptRows, d
  <2>5. KeptLoads(answers, r, queue, users, tally)
    BY <1>4, <1>5, <2>1, <2>3, <2>4 DEF KeptLoads
  <2> QED BY <1>1, <1>2, <2>1, <2>2, <2>5 DEF Kept
<1> QED BY <1>7, <1>8

(* It posts what it read: the last answer, and of the latest login.        *)
LEMMA DistributeKept ==
    ASSUME RecordInv, DOMAIN thread = {1}, Ordered, DistributeAction(1)
    PROVE  Ordered' /\ (Kept => Kept')
<1> DEFINE t == thread[1]
           an == Append(answers, t)
<1>1. /\ t.kind = "answer" /\ thread' = [thread EXCEPT ![1] = Idle] /\ answers' = an
      /\ queue' = queue /\ users' = users /\ rows' = rows
      /\ logins' = logins /\ tally' = tally
  BY DEF DistributeAction, past
<1>2. thread'[1] = Idle
  BY <1>1
<1>3. /\ DOMAIN an = 1 .. Len(answers) + 1
      /\ DOMAIN answers = 1 .. Len(answers) /\ Len(answers) \in Nat
      /\ \A k \in DOMAIN answers : an[k] = answers[k]
      /\ an[Len(answers) + 1] = t
  <2>1. t \in Job /\ answers \in Seq(Job)
    BY JobTypes
  <2> HIDE DEF t
  <2> QED BY <2>1, AppendIs
<1>4. IsLoad(t) /\ \A u : ~IsSave(t, u)
  BY <1>1 DEF IsLoad, IsSave
<1> HIDE DEF t, an
<1>5. \A k \in DOMAIN an : \/ k \in DOMAIN answers /\ an[k] = answers[k]
                           \/ k = Len(answers) + 1 /\ an[k] = t
  BY <1>3
<1>6. \A k, m \in DOMAIN an : k < m => k \in DOMAIN answers
  BY <1>3
<1>7. Ordered'
  <2>1. InOrder(answers, t, queue, users, logins)
    BY DEF Ordered, t
  <2>2. \A k \in DOMAIN an : an[k].kind = "answer" /\ an[k].login <= users[an[k].slot].login
    BY <1>1, <1>4, <1>5, <2>1 DEF InOrder, t
  <2>3. \A k, m \in DOMAIN an : k < m => an[k].login < an[m].login
    BY <1>3, <1>4, <1>5, <1>6, <2>1 DEF InOrder
  <2>4. \A k \in DOMAIN an, m \in DOMAIN queue : IsLoad(queue[m]) => an[k].login < queue[m].login
    BY <1>4, <1>5, <2>1 DEF InOrder
  <2>5. InOrder(an, Idle, queue, users, logins)
    BY <2>1, <2>2, <2>3, <2>4, IdleIs DEF InOrder
  <2> QED BY <1>1, <1>2, <2>5 DEF Ordered
<1>8. ASSUME Kept PROVE Kept'
  <2>1. /\ KeptRows(t, queue, rows, tally) /\ KeptLoads(answers, t, queue, users, tally)
        /\ KeptUsers(users, tally)
    BY <1>8 DEF Kept, t
  <2>2. KeptRows(Idle, queue, rows, tally)
    BY <1>4, <2>1, IdleIs DEF KeptRows
  <2>3. \A k \in DOMAIN an :
          /\ LoadOK(an[k], users)
          /\ OwnLoad(an[k], users) =>
                /\ an[k].data = tally[an[k].user]
                /\ NoSave(queue, an[k].user) /\ ~IsSave(Idle, an[k].user)
    BY <1>1, <1>5, <2>1, IdleIs DEF KeptLoads, t
  <2>4. KeptLoads(an, Idle, queue, users, tally)
    BY <2>1, <2>3, IdleIs DEF KeptLoads
  <2> QED BY <1>1, <1>2, <2>1, <2>2, <2>4 DEF Kept
<1> QED BY <1>7, <1>8

(* It gives up on a load: the user is just not told his data.              *)
LEMMA QueryKept ==
    ASSUME RecordInv, DOMAIN thread = {1}, Ordered, QueryThrows(1)
    PROVE  Ordered' /\ (~lost' /\ Kept => Kept')
<1> DEFINE t == thread[1]
<1>1. /\ t.kind \in {"load", "save"} /\ thread' = [thread EXCEPT ![1] = Idle]
      /\ queue' = queue /\ users' = users /\ answers' = answers /\ rows' = rows
      /\ logins' = logins /\ tally' = tally
  BY DEF QueryThrows
<1>2. thread'[1] = Idle
  BY <1>1
<1>3. ~lost' => t.kind # "save"
  <2>1. lost' = (lost \/ t.kind = "save")
    BY DEF QueryThrows
  <2> QED BY <2>1, Zenon
<1>4. Ordered'
  <2>1. InOrder(answers, Idle, queue, users, logins)
    BY IdleIs DEF Ordered, InOrder
  <2> QED BY <1>1, <1>2, <2>1 DEF Ordered
<1> HIDE DEF t
<1>5. ASSUME ~lost', Kept PROVE Kept'
  <2>1. /\ KeptRows(t, queue, rows, tally) /\ KeptLoads(answers, t, queue, users, tally)
        /\ KeptUsers(users, tally)
    BY <1>5 DEF Kept, t
  <2>2. \A u : ~IsSave(t, u)
    BY <1>3, <1>5 DEF IsSave
  <2>3. KeptRows(Idle, queue, rows, tally)
    BY <2>1, <2>2, IdleIs DEF KeptRows
  <2>4. KeptLoads(answers, Idle, queue, users, tally)
    BY <2>1, IdleIs DEF KeptLoads
  <2> QED BY <1>1, <1>2, <2>1, <2>3, <2>4 DEF Kept
<1> QED BY <1>4, <1>5

LEMMA ThreadKept ==
    ASSUME RecordInv, DOMAIN thread = {1}, Ordered, NEW t \in DOMAIN thread, Process(t)
    PROVE  Ordered' /\ (~lost' /\ Kept => Kept')
<1>1. t = 1
  OBVIOUS
<1>2. CASE Receive(1)
  BY <1>2, ReceiveKept
<1>3. CASE RequestSaveUserGameData(1)
  BY <1>3, SaveKept
<1>4. CASE RequestLoadUserGameData(1)
  BY <1>4, LoadKept
<1>5. CASE DistributeAction(1)
  BY <1>5, DistributeKept
<1>6. CASE QueryThrows(1)
  BY <1>6, QueryKept
<1> QED BY <1>1, <1>2, <1>3, <1>4, <1>5, <1>6 DEF Process

(* A connection that comes or goes changes nothing else.                   *)
LEMMA ConnectionKept ==
    ASSUME RecordInv, DOMAIN thread = {1}, Ordered,
           Use \/ \E i \in Slots : DisConnectUser(i)
    PROVE  Ordered' /\ (Kept => Kept')
<1>1. /\ queue' = queue /\ thread' = thread /\ answers' = answers /\ rows' = rows
      /\ logins' = logins /\ tally' = tally
  BY DEF Use, DisConnectUser, db, past
<1>2. \A i \in Slots : /\ users'[i].login = users[i].login /\ users'[i].loaded = users[i].loaded
                       /\ users'[i].userID = users[i].userID /\ users'[i].data = users[i].data
                       /\ Logged(users'[i]) => Logged(users[i])
  <2>1. users \in [Slots -> UserType]
    BY JobTypes
  <2>2. CASE Use
    <3> DEFINE j == Min(EmptySlots)
    <3>1. users' = [users EXCEPT ![j].isUsing = TRUE, ![j].isLogin = FALSE]
      BY <2>2 DEF Use
    <3> HIDE DEF j
    <3> QED BY <2>1, <3>1 DEF Logged, UserType
  <2>3. ASSUME NEW i \in Slots, DisConnectUser(i)
        PROVE  \A k \in Slots :
                  /\ users'[k].login = users[k].login /\ users'[k].loaded = users[k].loaded
                  /\ users'[k].userID = users[k].userID /\ users'[k].data = users[k].data
                  /\ Logged(users'[k]) => Logged(users[k])
    BY <2>1, <2>3 DEF Logged, UserType, DisConnectUser
  <2> QED BY <2>2, <2>3
<1>3. /\ InOrder(answers, thread[1], queue, users', logins)
      /\ Kept => /\ KeptUsers(users', tally)
                 /\ KeptLoads(answers, thread[1], queue, users', tally)
  BY <1>2, FewerLogged
<1>4. Ordered'
  BY <1>1, <1>3 DEF Ordered
<1>5. ASSUME Kept PROVE Kept'
  <2>1. /\ KeptUsers(users', tally) /\ KeptLoads(answers, thread[1], queue, users', tally)
        /\ KeptRows(thread[1], queue, rows, tally)
    BY <1>3, <1>5 DEF Kept
  <2> QED BY <1>1, <2>1 DEF Kept
<1> QED BY <1>4, <1>5

(* Levels are never lost.                                                  *)
LEMMA LevelsKept ==
    ASSUME RecordInv, \A u \in Users : tally[u].level >= 1, [Next]_vars
    PROVE  \A u \in Users : tally'[u].level >= 1
<1>1. tally \in [Users -> Record]
  BY DEF RecordInv
<1>2. CASE tally' = tally
  BY <1>2
<1>3. CASE \E x, y : x # y /\ tally' = [tally EXCEPT ![x] = Win(@), ![y] = Lose(@)]
  <2>1. PICK x, y : x # y /\ tally' = [tally EXCEPT ![x] = Win(@), ![y] = Lose(@)]
    BY <1>3
  <2> SUFFICES ASSUME NEW u \in Users PROVE tally'[u].level >= 1
    OBVIOUS
  <2>2. tally'[u] \in {tally[u], Win(tally[u]), Lose(tally[u])}
    BY <1>1, <2>1
  <2>3. tally[u] \in Record
    BY <1>1
  <2>4. /\ Win(tally[u]) \in Record /\ Lose(tally[u]) \in Record
        /\ Win(tally[u]).level >= tally[u].level /\ Lose(tally[u]).level >= tally[u].level
    BY <2>3, WinLoseCounts
  <2>5. tally[u].level \in Nat /\ Win(tally[u]).level \in Nat /\ Lose(tally[u]).level \in Nat
    BY <2>3, <2>4 DEF Record
  <2> QED BY <2>2, <2>4, <2>5
<1>4. \/ tally' = tally
      \/ \E x, y : x # y /\ tally' = [tally EXCEPT ![x] = Win(@), ![y] = Lose(@)]
  <2>1. ASSUME NEW w \in Slots, NEW l \in Slots, UpdateUsersGameData(w, l)
        PROVE  \E x, y : x # y /\ tally' = [tally EXCEPT ![x] = Win(@), ![y] = Lose(@)]
    BY <2>1 DEF UpdateUsersGameData, GameEnds, Opponents
  <2>2. CASE Use \/ \E i \in Slots : DisConnectUser(i) \/ \E u \in Users : Login(i, u)
    BY <2>2 DEF Use, DisConnectUser, Login, past
  <2>3. CASE InResponseDbLoadUserGameData \/ \E t \in DOMAIN thread : Process(t)
    BY <2>3 DEF InResponseDbLoadUserGameData, Process, Receive, RequestSaveUserGameData,
                RequestLoadUserGameData, DistributeAction, QueryThrows, past
  <2>4. CASE UNCHANGED vars
    BY <2>4 DEF vars, past
  <2> QED BY <2>1, <2>2, <2>3, <2>4 DEF Next
<1> QED BY <1>2, <1>3, <1>4

LEMMA KeptInit == Init => KeptInv
<1> SUFFICES ASSUME Init PROVE KeptInv
  OBVIOUS
<1>1. RecordInv
  BY InitInv
<1>2. \A u \in Users : tally[u].level >= 1
  <2>1. \A u \in Users : tally[u] = NewRow
    BY DEF Init
  <2> QED BY <2>1 DEF NewRow
<1>3. ASSUME DOMAIN thread = {1} PROVE Ordered /\ Kept
  <2>1. /\ DOMAIN queue = {} /\ DOMAIN answers = {} /\ thread[1] = Idle
        /\ \A i \in Slots : users[i] = NewUser
        /\ rows = tally /\ logins = 0
    BY <1>3 DEF Init
  <2>2. NewUser.login = 0 /\ ~Logged(NewUser)
    BY DEF NewUser, Logged
  <2>3. InOrder(answers, thread[1], queue, users, logins)
    BY <2>1, <2>2, IdleIs DEF InOrder
  <2>4. KeptUsers(users, tally)
    BY <2>1, <2>2 DEF KeptUsers
  <2>5. KeptRows(thread[1], queue, rows, tally)
    BY <2>1, IdleIs DEF KeptRows
  <2>6. KeptLoads(answers, thread[1], queue, users, tally)
    BY <2>1, IdleIs DEF KeptLoads
  <2> QED BY <2>3, <2>4, <2>5, <2>6 DEF Ordered, Kept
<1> QED BY <1>1, <1>2, <1>3 DEF KeptInv

LEMMA KeptNext == KeptInv /\ [Next]_vars => KeptInv'
<1> SUFFICES ASSUME KeptInv, [Next]_vars PROVE KeptInv'
  OBVIOUS
<1>1. RecordInv /\ RecordInv'
  BY NextInv DEF KeptInv
<1>2. \A u \in Users : tally[u].level >= 1 /\ tally'[u].level >= 1
  BY <1>1, LevelsKept DEF KeptInv
<1>3. (careful' => careful) /\ (~lost' => ~lost)
  <2>1. ASSUME NEW i \in Slots, NEW u \in Users, Login(i, u)
        PROVE  (careful' => careful) /\ (~lost' => ~lost)
    <3>1. careful' = (careful /\ LogsInOnce(i, u)) /\ lost' = lost
      BY <2>1 DEF Login
    <3> QED BY <3>1, Zenon
  <2>2. ASSUME NEW w \in Slots, NEW l \in Slots, UpdateUsersGameData(w, l)
        PROVE  (careful' => careful) /\ (~lost' => ~lost)
    <3>1. careful' = (careful /\ HasData(w) /\ HasData(l)) /\ lost' = lost
      BY <2>2 DEF UpdateUsersGameData, GameEnds
    <3> QED BY <3>1, Zenon
  <2>3. ASSUME NEW t, QueryThrows(t)
        PROVE  (careful' => careful) /\ (~lost' => ~lost)
    <3>1. careful' = careful /\ lost' = (lost \/ thread[t].kind = "save")
      BY <2>3 DEF QueryThrows
    <3> QED BY <3>1, Zenon
  <2>4. ASSUME NEW t, Receive(t) \/ RequestSaveUserGameData(t)
                      \/ RequestLoadUserGameData(t) \/ DistributeAction(t)
        PROVE  careful' = careful /\ lost' = lost
    BY <2>4 DEF Receive, RequestSaveUserGameData, RequestLoadUserGameData,
                DistributeAction, past
  <2>5. CASE Use \/ (\E i \in Slots : DisConnectUser(i)) \/ InResponseDbLoadUserGameData
             \/ UNCHANGED vars
    BY <2>5 DEF Use, DisConnectUser, InResponseDbLoadUserGameData, vars, past
  <2> QED BY <2>1, <2>2, <2>3, <2>4, <2>5 DEF Next, Process
<1>4. DOMAIN thread' = DOMAIN thread
  BY DEF Next, Use, Login, DisConnectUser, InResponseDbLoadUserGameData,
         UpdateUsersGameData, GameEnds, Process, Receive, RequestSaveUserGameData,
         RequestLoadUserGameData, DistributeAction, QueryThrows, vars, db
<1> SUFFICES ASSUME DOMAIN thread' = {1}
             PROVE  Ordered' /\ (careful' /\ ~lost' => Kept')
  BY <1>1, <1>2 DEF KeptInv
<1>5. DOMAIN thread = {1} /\ Ordered /\ (careful' /\ ~lost' => Kept)
  BY <1>3, <1>4 DEF KeptInv
<1>6. CASE Use \/ \E i \in Slots : DisConnectUser(i)
  BY <1>1, <1>5, <1>6, ConnectionKept
<1>7. CASE \E i \in Slots, u \in Users : Login(i, u)
  BY <1>1, <1>5, <1>7, LoginKept
<1>8. CASE InResponseDbLoadUserGameData
  BY <1>1, <1>5, <1>8, AnswerKept
<1>9. CASE \E w, l \in Slots : UpdateUsersGameData(w, l)
  BY <1>1, <1>2, <1>5, <1>9, GameKept
<1>10. CASE \E t \in DOMAIN thread : Process(t)
  BY <1>1, <1>5, <1>10, ThreadKept
<1>11. CASE UNCHANGED vars
  <2>1. UNCHANGED <<users, queue, thread, answers, rows, logins, tally>>
    BY <1>11 DEF vars, db, past
  <2> QED BY <1>5, <2>1 DEF Ordered, Kept
<1> QED BY <1>6, <1>7, <1>8, <1>9, <1>10, <1>11 DEF Next

(* Naturals that are at most n have a largest one among them.              *)
LEMMA LargestIndex ==
    ASSUME NEW n \in Nat, NEW S, S \subseteq 0 .. n, S # {}
    PROVE  Max(S) \in S /\ \A y \in S : y <= Max(S)
<1> DEFINE T == {n - k : k \in S}
<1>1. T \subseteq Nat /\ T # {}
  <2>1. \A k \in S : n - k \in Nat
    OBVIOUS
  <2>2. PICK k \in S : TRUE
    OBVIOUS
  <2>3. n - k \in T
    OBVIOUS
  <2> QED BY <2>1, <2>3
<1> DEFINE R == OpToRel(<, Nat)
<1>2. IsWellFoundedOn(R, Nat)
  BY NatLessThanWellFounded
<1>3. \A x, y \in Nat : y < x => <<y, x>> \in R
  BY DEF OpToRel
<1> HIDE DEF R
<1>4. PICK x \in T : \A y \in T : ~(<<y, x>> \in R)
  BY <1>1, <1>2, WFMin
<1>5. \A y \in T : ~(y < x)
  BY <1>1, <1>3, <1>4, Zenon
<1>6. PICK z \in S : x = n - z
  BY <1>4
<1>7. \A y \in S : z >= y
  <2> SUFFICES ASSUME NEW y \in S PROVE z >= y
    OBVIOUS
  <2>1. n - y \in T
    OBVIOUS
  <2>2. ~(n - y < n - z)
    BY <1>5, <1>6, <2>1
  <2> QED BY <2>2
<1>8. Max(S) \in S /\ \A y \in S : Max(S) >= y
  BY <1>6, <1>7 DEF Max
<1> QED BY <1>8

(* The newest save of a user, or his row, holds all games he finished.     *)
LEMMA NewestIsTally ==
    ASSUME RecordInv, DOMAIN thread = {1}, Kept, NEW u \in Users
    PROVE  Newest(u) = tally[u]
<1> DEFINE t == thread[1]
           p == Pending
<1>1. queue \in Seq(Job) /\ t \in Job /\ DOMAIN queue = 1 .. Len(queue) /\ Len(queue) \in Nat
  BY JobTypes
<1>2. /\ DOMAIN p = 1 .. Len(queue) + 1
      /\ p[1] = t
      /\ \A k \in DOMAIN queue : p[k + 1] = queue[k]
  <2> DEFINE q == <<t>>
  <2> HIDE DEF t
  <2>1. q \in Seq(Job) /\ Len(q) = 1 /\ q[1] = t
    BY <1>1
  <2> HIDE DEF q
  <2>2. /\ Len(q \o queue) = Len(q) + Len(queue) /\ q \o queue \in Seq(Job)
        /\ \A k \in 1 .. Len(q) + Len(queue) :
              (q \o queue)[k] = IF k <= Len(q) THEN q[k] ELSE queue[k - Len(q)]
    BY <1>1, <2>1, ConcatProperties
  <2>3. p = q \o queue
    BY DEF Pending, q, t
  <2> QED BY <1>1, <2>1, <2>2, <2>3
<1> HIDE DEF p, t
<1>3. SavesOf(u) = {k \in DOMAIN p : IsSave(p[k], u)}
  BY DEF SavesOf, IsSave, p
<1>4. KeptRows(t, queue, rows, tally)
  BY DEF Kept, t
<1>5. CASE SavesOf(u) = {}
  <2>1. \A k \in DOMAIN queue : ~IsSave(queue[k], u)
    BY <1>1, <1>2, <1>3, <1>5
  <2>2. ~IsSave(t, u)
    BY <1>1, <1>2, <1>3, <1>5
  <2> QED BY <1>4, <1>5, <2>1, <2>2 DEF KeptRows, NoSave, Newest
<1>6. CASE SavesOf(u) # {}
  <2> DEFINE m == Max(SavesOf(u))
  <2>1. m \in SavesOf(u) /\ \A k \in SavesOf(u) : k <= m
    <3>1. SavesOf(u) \subseteq 0 .. Len(queue) + 1
      BY <1>1, <1>2, <1>3
    <3>2. Len(queue) + 1 \in Nat
      BY <1>1
    <3> QED BY <1>6, <3>1, <3>2, LargestIndex
  <2> HIDE DEF m
  <2>2. /\ m \in 1 .. Len(queue) + 1 /\ IsSave(p[m], u)
        /\ \A k \in 1 .. Len(queue) + 1 : m < k => ~IsSave(p[k], u)
    BY <1>1, <1>2, <1>3, <2>1
  <2>3. CASE m = 1
    <3>1. IsSave(t, u)
      BY <1>2, <2>2, <2>3
    <3>2. \A k \in DOMAIN queue : ~IsSave(queue[k], u)
      <4> SUFFICES ASSUME NEW k \in DOMAIN queue PROVE ~IsSave(queue[k], u)
        OBVIOUS
      <4>1. k + 1 \in 1 .. Len(queue) + 1 /\ 1 < k + 1
        BY <1>1
      <4> QED BY <1>2, <2>2, <2>3, <4>1
    <3>3. p[m].data = tally[u]
      BY <1>2, <1>4, <2>3, <3>1, <3>2 DEF KeptRows, NoSave
    <3> QED BY <1>6, <3>3 DEF Newest, m, p
  <2>4. CASE m # 1
    <3>1. m - 1 \in DOMAIN queue /\ queue[m - 1] = p[m]
      BY <1>1, <1>2, <2>2, <2>4
    <3>2. \A k \in DOMAIN queue : m - 1 < k => ~IsSave(queue[k], u)
      <4> SUFFICES ASSUME NEW k \in DOMAIN queue, m - 1 < k PROVE ~IsSave(queue[k], u)
        OBVIOUS
      <4>1. k + 1 \in 1 .. Len(queue) + 1 /\ m < k + 1
        BY <1>1, <2>2
      <4> QED BY <1>2, <2>2, <4>1
    <3>3. p[m].data = tally[u]
      BY <1>4, <2>2, <3>1, <3>2 DEF KeptRows
    <3> QED BY <1>6, <3>3 DEF Newest, m, p
  <2> QED BY <2>3, <2>4
<1> QED BY <1>5, <1>6

(* One thread, clients that log in once at a time and play after they were *)
(* told their data, and no failed save: the newest save under way, or else *)
(* the row, holds all games of a user, and so do the data he plays with.   *)
THEOREM OneThreadKeeps == Spec => []OneThreadKeepsRecords
<1>1. KeptInv => OneThreadKeepsRecords
  <2> SUFFICES ASSUME KeptInv, careful, ~lost, DOMAIN thread = {1}
               PROVE  /\ \A u \in Users : Newest(u) = tally[u]
                      /\ \A i \in Slots : users[i].isUsing /\ users[i].isLogin /\ HasData(i) =>
                            users[i].data = tally[users[i].userID]
    BY DEF OneThreadKeepsRecords
  <2>1. RecordInv /\ Kept
    BY DEF KeptInv
  <2>2. \A u \in Users : Newest(u) = tally[u]
    BY <2>1, NewestIsTally
  <2>3. \A i \in Slots : users[i].isUsing /\ users[i].isLogin /\ HasData(i) =>
           users[i].data = tally[users[i].userID]
    BY <2>1 DEF Kept, KeptUsers, Logged, HasData
  <2> QED BY <2>2, <2>3
<1>2. Spec => []KeptInv
  BY KeptInit, KeptNext, PTL DEF Spec
<1> QED BY <1>1, <1>2, PTL
=============================================================================
