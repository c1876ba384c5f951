# Verification of the Online Omok Server

TLA+ models of the C# servers of this repository, TLC configurations that
check them on small instances, and theorems about every component, board and room hand-out
included, that the TLA+ proof system checks for every size. Paths are relative to the source tree; line
numbers are those of the commit these modules stand beside.

Contents: 1 the system, 2 the modules and how they correspond to the code,
3 the runs, 4 fairness, 5 proofs, 6 what the code does that a reader would not
expect, 7 what is left out, 8 plan.

## 1. The system

Players log in over HTTP, ask for an opponent over HTTP, and are then sent to
one room of one *Omok server*, which they reach over TCP.

| component | code | state it keeps | operations |
|---|---|---|---|
| Rooms and their games | `Omok-Server/Room/*`, `PacketProcessing/PKHRoom.cs` | per room: state, list of members (user ID, session, ready), game, two clocks; start of the check window | enter, leave, ready, put stone, chat, room check |
| The board | `Omok-Server/OmokGame.cs` | 19 x 19 cells, whose turn, turns lost in a row, game over | put stone, lose a turn, end; scans for a five and for a double three |
| Users | `Omok-Server/User/*`, `PKHCommon.cs` | 1000 user slots, dictionary from session to slot, heartbeat count, start of the check window | connect, log in, load data, heartbeat, disconnect, credit a game |
| Packet processing | `PacketProcessing/PacketProcessor.cs`, `MainServer.cs` | one FIFO buffer | post, take and handle |
| Database threads | `DatabaseProcessing/*` | two more buffers | check a login in Redis (4 threads), load and save game data in MySQL (8 threads) |
| Room hand-out | `Omok-Server/Matching/MatchWorker.cs` | queue of empty rooms | answer a matching request with a room |
| Matching server | `Matching-Server/*` | dictionary of users who ask, waiting queue, matching queue | ask (polled every second), cancel, two worker threads |
| Game API server | `Game-API-Server/*` | tokens in Redis, game data in MySQL | login, token check, pass matching requests on |
| Hive auth server | `Hive-Auth-Server/*` | accounts in MySQL, tokens in Redis | create account, login, check token |
| Definitions | `Omok-Common-Defines/*` | none | none |

**How they interact.** Inside the Omok server everything that concerns users,
rooms and games is done by *one* packet thread, which takes packets from
`_pktBuffer` one at a time. Into that buffer post the network threads (packets,
connections, closed links), the timers of the heartbeat and of the room check, the database
threads, and the handlers themselves (a forced disconnection is a packet to
oneself). So handlers do not interleave, but *what they do belongs to the past*:
a login is a packet to Redis, a packet back, a packet to MySQL, a packet back,
and the session may be gone, or its slot taken by another session, at any of these
points. Saves and loads of game data pass through eight database threads, which
may overtake each other. The room hand-out is the exception: its queue is touched by the packet
thread and by the match worker. The matching server has no such thread: HTTP
handlers and two workers share a dictionary and two queues without a lock, and
talk to the Omok servers through two Redis lists. The two account servers handle
every request in a task of its own, which others may overtake at each call of a
database or of the other server.

**Which behaviours are hard.**

* *Interleaving*: matching server, everywhere; in the Omok server only the order of packets.
* *Stale state*: slots are reused without clearing ID, data and room; the session
  dictionary is never cleaned; cancelled users stay in queues.
* *Partial failure*: a handler that throws is caught by the packet loop; what it did before the
  exception stays, what it had still to do is never done.
* *Timeouts*: heartbeat against answers, turn clock and game clock against moves, both over
  windows that move round a list.
* *Boundaries*: scans at the rim of the board, exactly five against six, windows that must
  divide a list.

**What makes each component correct.** Rooms: a room that counts as playing has a
live game between its members; a game ends in bounded inactivity, with one verdict, and not in
favour of the one who left; an empty room is reusable. Board: a five is found at once and only a five wins;
double threes are refused. Users: a connection owns its slot; whoever is silent is closed and the slot
comes back. Records: nothing stored is worth more or less than the games it counts. Hand-out: the worker finds a room
when it dequeues, a room is in one place. Matching: a room goes to one pair, a pair gets one room, nobody who waits is
forgotten. Accounts: one account has one creator; who may play has a token that Hive made for him, and game data.
`PROJECT.json` lists the hazards at the lines where they bite, each with the properties that watch it.

## 2. The modules

```
Turns ---- Room ---- RoomManager ---- MCRoomManager          runs Rooms, DisconnectLeavesRooms
   \                      \---------- RoomManagerProofs
    \----- Board ---- OmokGame ------ MCOmokGame             runs OmokBoard, RefusesDoubleThreesOnly
              \           \--------- OmokGameProofs
               \----- Rules   (OmokGame implements it)
UserManager ------- MCUserManager                            runs Users, LoginIsOwn
      \------------ UserProofs
GameRecord -------- MCGameRecord                             run  Records
      \------------ GameRecordProofs
Handout ----------- MCHandout                                run  Handouts
      \------------ HandoutProofs
MatchingServer ---- MCMatchingServer                         runs Matching, TwoWaitingAreMatched, AnswerNamesRoom
      \------------ MatchProofs ---- PairProofs
Accounts ---------- MCAccounts                               run  Accounts
      \------------ AccountsProofs
```

**Turns** is the part of `OmokGame` that rooms and board share: colours, turns,
the count of turns lost in a row. A finished game and the null reference before the first game
are one value, `NoGame`: no code reads more of either than that it is over.

**Room** gives each public method of `Room.cs` as an operator from a room to an
*effect*: the room afterwards, what was posted (saves of a result, disconnections), whether the room
went back to the queue of empty rooms, and whether the method threw. Exceptions
are effects because several paths of this code end in one: `_userStoneColorDict[s]` for a member
who is not a player, and crediting a user whose game data are not loaded.

**RoomManager** is the packet thread's view of all rooms. One action is one packet, with the whole
handler in it:

| action | handler |
|---|---|
| `RequestRoomEnter` | `PKHRoom.RequestRoomEnter`, `RoomManager.EnterRoomUser` |
| `RequestRoomLeave` | `PKHRoom.RequestRoomLeave`, `RoomManager.LeaveRoom`, `Room.LeaveRoomUser` |
| `InNotifyDisConnectClient` | the same from `PKHCommon`, for a closed link |
| `RequestGameReady` | ready toggled, the game started when all are ready |
| `RequestPutStone` | `Room.CheckUserTurnAndPutStone`, `OmokGame.PutStone`, `GameEnd` |
| `RequestInRoomCheck` | `RoomCheckTask`: both clocks of the rooms in one window |
| `InResponseDbLoadUserGameData` | the answer that gives a user its game data |
| `TurnClockRunsOut` | time passes (no code) |

Where a stone lies is abstracted to what the board says of it (`refused`, `placed`, `five`); the
board is the other half:

**Board** and **OmokGame** are `OmokGame.cs` on a real board. The code has each
scan four times, once per direction; the module has it once, with the direction as a parameter. The
double-three scan is called *before* the stone lies, exactly as in the code. **Rules** says what a game
promises without saying how a five is found, and that only turns lost one after the other stop it; `OmokGame` is checked to implement it with
`turn <- game.turn` and `silence <- game.turnOverCnt`.

**UserManager** has the packet buffer itself: network threads, the heartbeat timer and the databases
post packets (`Network`, `SendHeartBeatPkt`, `Database`) and `Process` takes the head and runs its handler. A session
stands for the user ID it logs in with. Leaving a room is `RoomManager`'s subject; here it throws
or not (`RoomThrows`). What the loaded data of a user are used for is the subject of the next module.

**GameRecord** follows a record of wins, losses, level and experience from the table `user_game_data` into the slot of a
user and back. A slot is `User.cs`'s object, which is reused without being cleared:

| action | code |
|---|---|
| `Use`, `DisConnectUser` | `UserManager.AddUser` (first empty slot), `DisConnectUser` |
| `Login` | the login Redis has approved, and the load it posts |
| `InResponseDbLoadUserGameData` | `PKHCommon`: the answer is written into the slot, whoever has it by then |
| `UpdateUsersGameData` | the credit of winner and loser with the exceptions on the way, and the two saves |
| `Receive`, `RequestLoadUserGameData`, `RequestSaveUserGameData`, `DistributeAction`, `QueryThrows` | `MySqlProcessor.Process` of one thread, query and answer apart |

**Handout** is the queue of empty rooms of one Omok server down to the ring of cells and the count of a `Queue<int>`: the packet
thread enqueues (`Enqueue` up to the write of the count, `EnqueueCounts`) when a room becomes empty, and the worker thread goes through
`CheckEmptyRooms`, `IsMatchingRequestReceived`, `GetEmptyRoomInfo`, `DequeueCounts`, `PushEmptyRoomInfoToRedis`. The rooms are their members here;
Redis and the matching server (`PushMatchingRequest`, `SendPair`) are external.

**MatchingServer** has one action per call on a shared collection. A request is a *handler* `<<user, n>>`: nothing in the controller serialises
the requests of one user, so up to `MaxHandlers` of them are under way at once, and a cancellation comes whenever the user is in the dictionary:

| actions | code |
|---|---|
| `AddUser`, `Enqueue`, `TryAdd`, `GetMatchingData`, `Answer` | `MatchingController.Matching`: look up, queue, add to the dictionary; look up the state; remove whatever is there by then and answer from what was found before, or report that there was nothing to remove |
| `CancelMatching` | `MatchingController.CancelMatching` |
| `DequeueFirst`, `DequeueSecond`, `CheckSecond`, `Requeue`, `StartMatching`, `PushMatchingRequestToRedis` | the worker `RunMatching`; `PushThrows` is a push that fails |
| `TryGetEmptyRoomInfoFromRedis`, `DequeueMatchingFirst`, `DequeueMatchingSecond`, `UpdateMatchingDict` | the worker `RunMatchingComplete`; `PopThrows` is a pop that fails |
| `PopRequest`, `PushRoom`, `OfferFails` | an Omok server (external here, module `Handout` from inside), which may take a request at any time or never |

Two things are one step that are two calls in the code, because nobody can tell them apart: the lookup of an entry with the write of its state (an entry that
leaves the dictionary in between might as well have left after the write, for whoever may still read it has read the state before), and the removal of an entry
with the answer made from the entry found before (whose room, if it is still to come, may be told as -1 either way). A dictionary entry is a reference to a `MatchingData` in `data`, which handlers
and the worker keep after the entry is gone, as in the code.

**Accounts** has the Hive auth server and the login and logout of the game API server. A request is a record that says where its
handler is; every call of a database or of the other server is an action:

| actions | code |
|---|---|
| `IsUserEmailExist`, `InsertAccount` | Hive `CreateAccountService`, `MySqlDb.InsertAccountAsync` |
| `VerifyPassword`, `RegistUser` | Hive `LoginService` |
| `CheckUserAuthToHive`, `RegistUserAuth`, `IsNewUser`, `IsUserIdExist`, `InsertGameData` | game API `LoginController`, `LoginService`, `MySqlDb` |
| `CheckUserAuthToMemoryDb`, `RemoveUserAuth` | `CheckAuthMiddleware`, logout |
| `HiveTokenExpires`, `GameTokenExpires`, `GameDbFails`, `RedisFails` | the databases (external) |

**MC modules** hold constants only. The proof modules are the subject of section 5.

## 3. The runs

Every passing run checks each of its properties against a version of the code with a
plausible bug (the operators marked *Mutant*), which must violate it.

| run | what it asks | bounds |
|---|---|---|
| `Rooms` | Can a room be led into a state it cannot leave: sessions enter, get ready, play, lose the link and are timed out in every order, one of them walks into a running game and another room. A started room keeps a live game (`StartedGameIsLive`), an empty one is idle, numbers and members agree, a user who is a member of two rooms is ready and plays in one (`BoundToOneRoom`), no game goes without a verdict (`GameEndsWithVerdict`), a verdict is fair (`ResultIsFair`), every game ends under the timers alone (`GameEnds`) | 2 rooms checked one per tick, 3 sessions, of which `s1` may ask for both rooms (`Reach`) and the data of `s2` come late (`Late`), 1 stone, 2 lost turns |
| `OmokBoard` | Do the scans implement the rules: `FollowsRules` (refinement), `RunningHasNoFive`, `RefusesGapsOfThree` | 9 x 9 board, games on 6 or 7 cells in each of the four directions and on 6 cells of three crosses of two lines |
| `Users` | Do late answers, heartbeats and closes of old sessions disturb the session that has the slot now, or take its slot (`SlotIsOwn`); is who does not answer closed (`SilentIsClosed`), and is the slot of a closed session freed (`SlotsAreFreed`); when slots run out, is slot 0 the only one to be lost | 2 slots in 2 windows, and one of three `Bounds`: 2 sessions and a login, for the session whose leaving a room may throw; 2 sessions without a login, who post while fewer than 3 packets wait; 3 sessions, of which one finds no slot |
| `Records` | Whatever threads, late answers and reused slots do, no record mixes counts and levels (`LevelsAreEarned`); one thread loses no result while clients are careful (`OneThreadKeepsRecords`), several invent none while no slot goes from one user to another (`NothingInvented`) | 2 users, 2 slots, 1 or 2 threads, 3 logins, 2 games; 2, 1 and 3 for the experience of a win, a loss and a level |
| `Handouts` | Does the worker ever dequeue from an empty queue (`DequeueFindsRoom`), is a room in one place (`RoomInOnePlace`) | 3 users, 2 rooms, a ring of 3 cells, 3 requests |
| `Matching` | Whatever requests, cancellations and failing Redis calls do: a room never goes to three (`RoomForTwo`) and always finds two users in the queue (`RoomsFindPairs`). Without them the queue keeps step with requests and rooms (`PairsMatchRooms`); with failing Redis calls only, whoever shares a room was paired (`SameRoomSamePair`) | `Bounds`: 4 users with one match each and a failure; 3 with two matches, or one and a cancellation, or one and an overlapping request; 2 with two matches and an overlapping request, two with a cancellation and a failure, one with a cancellation and an overlapping request. Two handlers for each user |
| `Accounts` | One account has one creator, a token that lets somebody play was made by Hive for this ID and password, and goes with game data | 4 overlapping requests of any kind, 2 IDs, 2 passwords |

Five runs show a disagreement of the code with its own comments and documents, each by
one property that TLC finds violated:

| run | what happens |
|---|---|
| `DisconnectLeavesRooms` | A link goes down in a game while game data are not loaded: `LeaveRoomUser` throws, the member stays in the room, and the user slot is never freed. `PKHCommon.cs:45` says the user is taken out of the room |
| `RefusesDoubleThreesOnly` | The double-three scan looks at the cell before the stone lies and compares with *empty*: it refuses cells that lie in gaps of three empty cells on two lines (`RefusesGapsOfThree` states precisely which), where the stone would make no three |
| `TwoWaitingAreMatched` | The worker takes a user from the waiting queue between the enqueue and the insertion of `AddUser`; not finding the user in the dictionary it drops the user, who then polls for ever |
| `AnswerNamesRoom` | A poll between the two writes of `UpdateMatchingDict` is told the match is complete, gets room -1, and removes the entry |
| `LoginIsOwn` | A session closes while Redis checks its login; its dictionary entry survives, so the answer logs the *next* session of the slot in under the closed session's ID |

**Why the bounds are enough.** *Rooms*: two players make a game, the third is the smallest
number that shows a member who is not a player and a game with more players than seats.
The code treats rooms independently but for the window and for `RoomNumber`, and two rooms, each a
window of its own, show both; one session that visits both rooms shows a member of two, one whose data come late every exception
for missing data. Two lost turns instead of six keep "one lost, then a move, then one lost" apart
from "two in a row". Stones are bounded by `MaxStones`, the size of the board: a full board refuses everything.
*Board*: nine cells leave room for a six and for a gap of three with stones off the rim, a scan
reaches five cells, and nothing depends on the cells beyond. The players of a run stay on one region
(`Regions`); games on a line show fives, sixes and both ends, games on a cross the scans on two lines at once.
*Matching*: four users are two pairs, so requests and rooms of two pairs can overlap, and a failing call shifts one against the other; three users who come back meet the traces of their
first match; three users with a cancellation, or one of them queued twice, make queues of odd length. The worst cases need two users only: one of
them queued twice with himself as a partner, or two requests that answer from one entry. A behaviour chooses one of the `Bounds` at its start.
*Users*: two sessions take one slot after the other or one each; each window has one slot, so a window without the silent session comes by as well.
`packets` lets clients and databases post only while fewer packets wait; closed links and the timer are not held
back, so the buffer still grows behind a slow handler. The heartbeat count stops at 3, with
which alone it is compared. One tick, one heartbeat answer and one request to disconnect per session are in the buffer at a time.
With a login nothing waits when a client or a database posts; without one up to two packets wait, so that answers, announcements and ticks stand in any order.
*Records*: two threads are enough for one job to overtake another, three logins for a user who leaves, comes back and finds another in his slot;
two games let a level be reached between two saves. *Handouts*: a ring of three cells closes within three requests, one cell more than
rooms shows a room queued twice. *Accounts*: four requests are two who make an account or log in at the same time with a third
that makes the token and a fourth that uses an old one.

The configuration has 1200 connections (`appsettings.json:9`) and 1000 slots; the third of the `Bounds` of `Users` has one session more than slots, and then the
slot kept by a leave that threw is one less, too. A behaviour chooses one of the `Bounds` at its start.

**Deadlock** is checked in the room, user, record and hand-out runs. The matching runs and `OmokBoard` really may stop: everybody
has been answered, the game is over. So may `Accounts`, when all requests are answered and all tokens have expired.

## 4. Fairness

* `RoomManager`: the room-check timer fires for ever and its packet is processed, and time passes in
  every room. Players owe nothing: they may stop moving. `GameEnds` says that this is enough.
* `UserManager`: the packet thread handles what is in the buffer, the heartbeat timer fires, and a socket on which
  `CloseSession` was called gets closed. Clients owe nothing (that is the point of `SilentIsClosed`), databases owe nothing.
* `GameRecord`, `Handout` and `Accounts` state no fairness; their properties are safety.
* `MatchingServer`: handlers that have begun finish, a user who is in the dictionary polls (the client does so every second,
  README of the repository, the matching sequence), both worker loops run, and an Omok server that has taken a request pushes a room. Nobody has
  to ask for a match to begin with, and no Omok server has to take a request: it does not while it has no empty room.

The matching server's passing run is safety only, and `TwoWaitingAreMatched` is violated under this fairness: the user is lost although everybody does what he owes.
That everybody who waits is matched in the end is not true of the code: section 6 lists the ways in which a user is left over.

## 5. Proofs

The assumptions are those of the modules, named there (`RoomManagerAssumption`, `UserManagerAssumption` and so on: finite sets, at
least two seats, a window that divides the number of rooms or users, and so on), and TLC evaluates them for every run. Where a theorem has a
hypothesis of its own this says so. In every module an inductive invariant is proved first; the properties follow from it.

| module | proved, for every value of the constants | the inductive invariant |
|---|---|---|
| `RoomManagerProofs` | `TypeOK`, `StartedGameIsLive`, `EmptyRoomIsIdle`, `RoomNumberIsMember`; `BoundToOneRoom` | `RoomsInv`; `BoundInv` |
| | the action properties `GameEndsWithVerdict`, `ResultIsFair` | `RoomsInv` and lemmas on effects, `BoundInv` |
| `OmokGameProofs` | `TypeOK`, `RunningHasNoFive`, `StonesCounted`, `RefusesGapsOfThree`, and that `OmokGame` implements `Rules` (`FollowsRules`) | `GameInv` |
| `UserProofs` | `TypeOK`, `SlotIsOwn` | `SlotsInv` |
| `GameRecordProofs` | `TypeOK`, `LevelsAreEarned`; `NothingInvented`; `OneThreadKeepsRecords` | `RecordInv`; `CreditInv`; `KeptInv` |
| `HandoutProofs` | `TypeOK`, `DequeueFindsRoom`; `RoomInOnePlace` | `HandoutInv`; `PlaceInv` |
| `MatchProofs` | `TypeOK`, `RoomForTwo`, `RoomsFindPairs` | `MatchInv` |
| `PairProofs` | `PairsMatchRooms`, `SameRoomSamePair` | `PairInv`, then `ShareInv` |
| `AccountsProofs` | `TypeOK`, `OneCreator`, `TokenFromHive`, `TokenMeansData`, `LoginHasData` | `AccountsInv` |

*Rooms.* None of the invariants is inductive alone. That a started game is live needs, when a member leaves,
that a user ID is a member only once (else `RemoveUser` takes out the wrong entry) and that the leaver's game ends before the leaver is removed; that the
start of the window stays a room needs that it is a multiple of the width. `RoomsInv` is the conjunction: types; for each room
`RoomOK` (members unique and carrying the ID of their session, started implies live, empty implies idle); whoever has a
room number is a member of that room; the start of the window is a multiple of the width. The lemmas go bottom up: what removing an element
of a sequence keeps; what each operator of `Room` does to `RoomOK` (`AddUser`, `StartGame`, `EndGame`, `LeaveRoomUser`,
`PutStone`, `CheckRoomState`); then `OneRoomChanged` and `SameMembersInv`, which lift a change of one room to all; then one lemma per
handler; then `NextInv` and the theorem.

*Verdicts.* A room stops playing in four ways only: a member leaves, a stone makes five, or one of the two clocks is up.
For each there is a lemma that the effect carries a verdict (`LeaveVerdict`, `PutStoneVerdict`, `CheckVerdict`), all over `EndGameVerdict`. The fifth way, the
last member leaving and `Free` resetting the state without a verdict, is excluded by `NotAlone`: in a live game two different players are members.

*Members of two rooms* (`BoundToOneRoom`) *and fair results.* That the winner's room number is the room's does not follow from `RoomsInv`, under which a player may well be a member of
two rooms. `BoundInv` adds what the code relies on: whoever is ready in a room or plays there (`Bound`) has that room's number, because a session refused by the
second room keeps its first number and `RequestGameReady` and `RequestPutStone` go by the number. That winner and loser have different colours comes from the scan for
each colour's first session; that a result is posted once, from the guard on a running game in every operator that ends one.

*Board.* `FiveIsFound` is the heart: the code counts like stones to both sides of the newest one, one direction at a time and up to the rim, and finds five
if and only if a row of exactly five goes through that cell, which is what `Rules` asks (`MakesFive`). Both halves go through where the row begins (`LineOfFive`).
`DoubleThreeIsTwoGaps` is the same for the other scan. With these a board without a five stays without one unless the game ends in that very step, because a stone changes only the
rows through its own cell; `GameInv` is that, with types and counts. The refinement then has one step for each action: a stone placed, refused or
winning, a turn lost, an end by the room, each a step of `Rules`.

*Slots.* Nothing is assumed about how many slots there are. A session that finds none (`Slotless`) is taken for the user of slot 0, so `SlotIsOwn` says: a registered session has its
own slot, or it is one of those that can have lost it, the users of slot 0 and those who found none, and then some session did find none. `SlotsInv` says where each session is in the FIFO
(`SessionInv`: announced before it ends, each once, so what ends a session stands behind what announces it) and that who uses a slot is a session whose dictionary entry is that slot and who has not ended, unless its
leave threw (`SlotInv`). A slot other than 0 can then be freed by nobody but the session whose entry it is: stale entries of earlier sessions are harmless because those sessions have ended, and no packet
that frees a slot comes twice. With slot 0 every packet of a slotless session is a case of its own (`RanOut`). The window of the heartbeat starts at a multiple of its width (`WindowInv`).

*Records.* `GoodRecord` is a record without data or one that is `Earned`; `Win` and `Lose` keep that (`UpdateExp` loses at most what is over a level, which is less than a
win), and every other step only moves records about.

`CreditInv` is about what a record counts. Loads and saves may be duplicated, lost or overtake each other, but as long as no slot goes from one user to another every copy of a user's
record, in the table, in a slot, in a job or an answer, is at most the user's tally (`NoMore`), and a credit adds one to both sides. A user who is logged in twice has two
copies, neither above the tally.

`KeptInv` is about one thread, where nothing may be lost. Answers, the thread's job and the queue behind it form one line (`Ordered`): loads stand in it in the order of
the logins that asked for them, none is newer than the login of its slot. In this line the last save of a user holds his tally, and if there is none, the row does (`KeptRows`);
a load of a login that still stands has no save of its user behind it, so what it will read is that tally (`KeptLoads`); and data in a slot are the tally of the user
logged in there (`KeptUsers`). The last index of a save is the largest of a finite set of numbers; that it exists (`LargestIndex`) comes from the well-foundedness of `<`.

*Hand-out.* The count may be wrong by lost updates, so it cannot be related to the ring. What is proved is weaker and enough: between the look at the count and
`Dequeue` nobody but the worker lowers it, and a lost update of the packet thread still writes a number above 0.

While no update has been lost (`~raced`) the count is right, and `RingInv` says so: the tail is the head plus what is queued, modulo the capacity, where an enqueue or dequeue that has not
yet written the count is allowed for (`Total`). So a dequeue shifts every position by one and an enqueue writes a cell that is none of them (`CellsDiffer`: different positions are different
cells, as long as they fit). `PlaceInv` adds that nothing stands twice in the queue or in Redis, and that each room is in exactly one of the four places: queue, hand, Redis, lent
to users. That a room comes back to the queue only when nobody is on the way to it is where clients have to be `polite`; that at most two hold it, from a room being sent to one pair.

*Matching.* `MatchInv` has no hypothesis: any number of requests of one user, cancellations at any moment, Redis calls that throw. A room is in Redis, or in the worker's hand, or has been told. `SentTo(r)` is who
has been told: an answer already given, or a `MatchingData` with that room, in the dictionary or out of it, because a request may still answer from it. `RoomInv(r)`: nobody while the room is in Redis or
in the hand before the first write, at most the first of the pair before the second write, two at last. `DueInv` is a count: `Slack`, the users in the matching queue less those whom requests, rooms and
hands will take, is never negative, because what gets lost is requests and rooms, never a user in the queue. `SlackStep` says when it grows: a Redis call that fails, or a worker that misses a user (`Missed`).

`PairProofs` is about what holds while nobody cancels and no two requests of a user overlap (`Serial`); Redis may fail. `OnePlace`: a user is in one queue or hand at the most, and there once. `InPlace`: who is in one
is in the dictionary with a match that is not complete, or his request is between the queue and the dictionary; so no answer removes him, and
the two look-ups of `StartMatching` never throw. Hence `Slack` is even, and 0 unless a call has failed (`KeepStep`), which is `PairsMatchRooms`. `TailInv`: what the pairing worker has just queued is the end of the matching queue while the other worker takes pairs from its front.
For `SameRoomSamePair`, `ShareInv` adds that positions 1 and 2, 3 and 4 and so on of the queue are announced pairs, as is the pair in the hand of the second worker, and
that a room in his hand has been told to nobody but the first of the two.

*Accounts.* Each request carries what it has established (`CallOK`): a token it will store was made for its ID, a password it verified is the account's and accounts never
change. That the last two survive other requests is what `MadeRight` is for.

*Model-checked only*: liveness (`GameEnds`, `SilentIsClosed`, `SlotsAreFreed`), which rests on `ENABLED` and is out of the prover's reach.
All other properties of passing runs, invariants and action properties alike, are proved. Induction over data is used nowhere but through the well-foundedness of `<` and
the cardinalities of finite sets. The inductive invariants live in the proof modules, and most of them
quantify over all numbers; the proofs alone check them. The proofs about the board hold of any board; that nineteen cells and six lost turns are its numbers is a configuration.

## 6. Also seen while modelling

Facts about the code that came up and that a maintainer should know. Each is in the models unless it says otherwise.

* Entering a second room makes a session a member of two rooms (`RoomManager.cs:119` adds before it checks); only the first is left again, also when the link is lost. In the second he can neither
  get ready nor enter again, and no game starts there any more; `BoundToOneRoom` says what is still true of him.
* Room capacity is checked nowhere (`Room.cs:54`; `RoomMaxUserCount` is 2, `appsettings.json:14`). With three players, colour
  White has two sessions and the first is credited, who may be the one who left. `ResultIsFair` therefore speaks of colours and leavers in games of two.
* A user who cancels and asks again, or whose requests overlap (`MatchingWorker.cs:53` looks, `:62` queues), is in the waiting queue twice and may be matched with himself; two requests that hold one
  finished entry may both be answered with its room. A cancellation during `StartMatching` shifts all later pairs, and leaves somebody in the matching queue. Hence `SameRoomSamePair` says `Serial` and `PairsMatchRooms` says `Orderly`;
  `RoomForTwo` and `RoomsFindPairs` hold in any case.
* A push of a request that throws (`MatchingWorker.cs:208`, swallowed at `:108`) leaves a pair in the matching queue without a request; it gets the room of the next pair, and so on, so one pair always waits.
* A user who is answered between the state and the address of its entry makes `UpdateMatchingDict` throw; the other of the pair, if his entry is written second, is never told anything and polls for ever.
* `CheckMatchingQueue` has no `try`: whatever a Redis call throws ends the Omok server (`MatchWorker.cs:37`).
* A pair whose second user never comes to the room leaves the room in use: nothing takes it back until somebody enters and leaves.
* A session that finds no slot is taken for slot 0 (`UserManager.cs:93`, `TryGetValue` leaves 0): with more than 1000 connections its
  login logs slot 0 in and its close frees slot 0, whoever has it (run `Users`; 1200 connections are allowed). It is also never checked for heartbeats.
* A user who logs in on a used slot has the game data of the slot's last user until the load is answered (`User.cs:27`), and a load that is
  answered late is written into the slot of whoever has it then (`PKHCommon.cs:109`).
* Results get lost although all clients behave: with several threads (`appsettings.json` says eight) two saves of one user, or a save and the load of the
  next login, may overtake each other, and every save overwrites the whole row. With one thread nothing is lost.
* Two login requests before the first answer log a user in twice (`UserManager.cs:190`).
* The dictionary of sessions is never cleaned (`UserManager.cs:164` frees first and then finds nobody), so it grows for ever.
* A room is put on the queue of empty rooms whenever it becomes empty (`Room.cs:403`), also when it has been handed out meanwhile; a room taken from the queue may
  therefore have members. The unlocked queue loses updates of its count, and with them rooms (`RoomInOnePlace` excludes both by its hypotheses, `polite` and `raced`).
* Of two first logins of a user that race, one is answered `LoginFailInsertDB` although the user has game data by then; a retry gets in.
* The older of two logins may be the one whose token stays (`LoginController.cs:24`), and a logout that has checked its token removes whatever token is there
  by then (`LoginService.cs:39`), and that of the ID in the body, which nobody compares with the ID in the header that was checked (`CheckAuthMiddleware.cs:25`, `LoginController.cs:36`).

## 7. Not modelled

* Chat, notifications and answers to clients: they change no state. Binary packet layout, framing, options, logging, and the declarations of `Omok-Common-Defines`.
* Real time. The turn clock is a flag that a check may find set, the game clock a choice. The code reads `.Seconds` of a time span (`Room.cs:388`), which
  wraps at a minute; with a check every 2.5 seconds the flag is set in time.
* The growth of the array behind the queue of empty rooms: at start-up the packet side fills it with all rooms (`CreateRooms`), after `MatchWorker` has started its
  thread; the models begin when it is filled.
* Failures of Redis and MySQL are refusals, missing rows, missing answers, and calls that fail before they take effect; one that takes effect and then reports a failure is in the
  matching server (a pop that loses its room, a push whose failure is only reported is like one that succeeds) and nowhere else.
* Restarts of servers: each server keeps its state in memory only, and a restart is a new behaviour. An Omok server that ends in the middle of an offer is `OfferFails`.
* In the matching server: more than two requests of one user at a time are in the proofs only, and the runs bound how many overlap, cancel and fail (`Bounds`).
* Whether the packets of a room come in an order `UserManager`'s buffer can produce: `RoomManager` takes them in any order, which includes it.
* The match service of the game API server, which passes requests on and keeps nothing, and `SimpleMatchService`, which is not registered.
* The files under `wwwroot` of the two HTTP servers, the only JavaScript of the repository: `lib/jquery-validation-unobtrusive` is a vendored library of Microsoft's
  page template, `js/site.js` is the template's four lines of comment. No page of the servers uses them.

## 8. Plan

Done: rooms, board, users, records, hand-out, matching and accounts, each with its run, and a proof of every safety property of these runs. Left, in order of weight:

1. `OmokServer`: rooms and users over one buffer, in place of `RoomThrows` and of rooms that take packets in any order, with `Handout` as the source of
   the rooms that `MatchingServer` hands out.
2. `RoomTimer`: the two clocks with their real arithmetic (`.Seconds` of a span, the room check every 2.5 seconds).
3. An abstract specification for the record keeping (a tally that only grows) and for matching (pairs and rooms as two sets), and the modules proved to implement them.

New questions replace or join runs of the present ones where they ask the same thing of a larger model, so that the list of runs stays short.
