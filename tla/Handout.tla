------------------------------ MODULE Handout ------------------------------
(***************************************************************************)
(* How an Omok server hands out its empty rooms: class MatchWorker, whose  *)
(* thread answers the matching server's requests from _emptyRoomQueue, and *)
(* the rooms, which put their number on that queue when the last member    *)
(* leaves.                                                                 *)
(*                                                                         *)
(* The queue is a plain Queue<int>, filled by the packet thread and        *)
(* emptied by the worker without a lock: an array used as a ring, and a    *)
(* count of which each side reads the old value and writes a new one.  If  *)
(* the two overlap one of the updates is lost.                             *)
(*                                                                         *)
(* Module RoomManager has the rooms in full; here a room is its members.   *)
(* Redis and the matching server are external: requests are counted, rooms *)
(* are popped at the end where they were pushed, for two users.            *)
(***************************************************************************)
EXTENDS Integers, Sequences, FiniteSets

CONSTANTS Users,
          RoomMaxCount,  \* ServerOption.RoomMaxCount
          Capacity,      \* length of the array behind the queue
          MaxRequests    \* bound: matching requests

(* 500 rooms make the array grow to 512 cells.  Bound: it does not grow    *)
(* any further, so room numbers queued twice find a free cell or wait.     *)
ASSUME HandoutAssumption ==
    /\ IsFiniteSet(Users)
    /\ RoomMaxCount \in Nat \ {0}
    /\ Capacity \in Nat /\ Capacity > RoomMaxCount
    /\ MaxRequests \in Nat

Rooms  == 0 .. RoomMaxCount - 1     \* RoomStartNumber is 0
NoRoom == -1
Cells  == 0 .. Capacity - 1

VARIABLES
    array, head, tail, size,  \* _emptyRoomQueue
    adding,      \* packet thread: inside Enqueue, and the count it has read
    worker,      \* CheckMatchingQueue: where it is, its room, the count read
    requests,    \* Redis: matching requests
    roomList,    \* Redis: rooms offered to the matching server
    made,        \* requests so far
    members,     \* _userList of each room
    roomNumber,  \* User.RoomNumber
    sent,        \* the room each user has been sent to and not entered yet
    raced,       \* history: an update of the count was lost
    polite       \* history: users entered and left as they were sent

fifo == <<array, head, tail, size>>
redis == <<requests, roomList, made>>
rooms == <<members, roomNumber, sent>>
vars == <<fifo, adding, worker, redis, rooms, raced, polite>>

NotAdding == [at |-> "idle", count |-> 0]
Waiting   == [at |-> "idle", room |-> NoRoom, count |-> 0]

(* CreateRooms has queued every room; untouched cells hold 0. *)
Init ==
    /\ array = [c \in Cells |-> IF c \in Rooms THEN c ELSE 0]
    /\ head = 0 /\ tail = RoomMaxCount /\ size = RoomMaxCount
    /\ adding = NotAdding /\ worker = Waiting
    /\ requests = 0 /\ roomList = <<>> /\ made = 0
    /\ members = [r \in Rooms |-> {}]
    /\ roomNumber = [u \in Users |-> NoRoom]
    /\ sent = [u \in Users |-> NoRoom]
    /\ raced = FALSE /\ polite = TRUE
-----------------------------------------------------------------------------
(* The packet thread. *)
(* EnterRoomUser: the user is added even if it is refused a room number,   *)
(* and to whatever room it asks for.                                       *)
RequestRoomEnter(u, r) ==
    /\ adding.at = "idle"
    /\ members' = [members EXCEPT ![r] = @ \cup {u}]
    /\ roomNumber' = IF roomNumber[u] = NoRoom /\ u \notin members[r]
                     THEN [roomNumber EXCEPT ![u] = r] ELSE roomNumber
    /\ sent' = IF sent[u] = r THEN [sent EXCEPT ![u] = NoRoom] ELSE sent
    /\ polite' = (polite /\ sent[u] = r /\ roomNumber[u] = NoRoom)
    /\ UNCHANGED <<fifo, adding, worker, redis, raced>>

(* Mutant: the ring is not closed. *)
EnqueueNoWrap(r) ==
    /\ size < Capacity
    /\ array' = [array EXCEPT ![tail] = r]
    /\ tail' = tail + 1
    /\ adding' = [at |-> "count", count |-> size]
    /\ UNCHANGED <<head, size>>

(* AddEmptyRoom up to the write of the count. *)
Enqueue(r) ==
    /\ size < Capacity
    /\ array' = [array EXCEPT ![tail] = r]
    /\ tail' = (tail + 1) % Capacity
    /\ adding' = [at |-> "count", count |-> size]
    /\ UNCHANGED <<head, size>>

(* Mutant: a room is put on the queue whenever somebody leaves. *)
LeaveAlwaysFrees(u) ==
    LET r == roomNumber[u] IN
    /\ adding.at = "idle"
    /\ r # NoRoom
    /\ members' = [members EXCEPT ![r] = @ \ {u}]
    /\ roomNumber' = [roomNumber EXCEPT ![u] = NoRoom]
    /\ Enqueue(r)
    /\ polite' = (polite /\ \A v \in Users : sent[v] # r)
    /\ UNCHANGED <<worker, redis, sent, raced>>

(* LeaveRoomUser, and Free when the room has become empty.  A user who is  *)
(* still awaited has not played yet.                                       *)
LeaveRoom(u) ==
    LET r == roomNumber[u] IN
    /\ adding.at = "idle"
    /\ r # NoRoom
    /\ members' = [members EXCEPT ![r] = @ \ {u}]
    /\ roomNumber' = [roomNumber EXCEPT ![u] = NoRoom]
    /\ IF u \in members[r] /\ members[r] \ {u} = {}
       THEN Enqueue(r) ELSE UNCHANGED <<fifo, adding>>
    /\ polite' = (polite /\ \A v \in Users : sent[v] # r)
    /\ UNCHANGED <<worker, redis, sent, raced>>

(* The rest of Enqueue: the count that was read, plus one. *)
EnqueueCounts ==
    /\ adding.at = "count"
    /\ size' = adding.count + 1
    /\ raced' = (raced \/ size # adding.count)
    /\ adding' = NotAdding
    /\ UNCHANGED <<array, head, tail, worker, redis, rooms, polite>>
-----------------------------------------------------------------------------
(* The worker thread, CheckMatchingQueue. *)
(* Mutant: the number of empty rooms is not looked at. *)
IgnoreEmptyRooms ==
    /\ worker.at = "idle"
    /\ worker' = [worker EXCEPT !.at = "request"]
    /\ UNCHANGED <<fifo, adding, redis, rooms, raced, polite>>

CheckEmptyRooms ==
    /\ worker.at = "idle"
    /\ size >= 1
    /\ worker' = [worker EXCEPT !.at = "request"]
    /\ UNCHANGED <<fifo, adding, redis, rooms, raced, polite>>

IsMatchingRequestReceived ==
    /\ worker.at = "request"
    /\ IF requests > 0
       THEN requests' = requests - 1 /\ worker' = [worker EXCEPT !.at = "dequeue"]
       ELSE worker' = Waiting /\ UNCHANGED requests
    /\ UNCHANGED <<fifo, adding, roomList, made, rooms, raced, polite>>

(* GetEmptyRoomInfo: Dequeue throws if the count is 0, and nobody catches. *)
GetEmptyRoomInfo ==
    /\ worker.at = "dequeue"
    /\ size > 0
    /\ head' = (head + 1) % Capacity
    /\ worker' = [at |-> "count", room |-> array[head], count |-> size]
    /\ UNCHANGED <<array, tail, size, adding, redis, rooms, raced, polite>>

DequeueCounts ==
    /\ worker.at = "count"
    /\ size' = worker.count - 1
    /\ raced' = (raced \/ size # worker.count)
    /\ worker' = [worker EXCEPT !.at = "push", !.count = 0]
    /\ UNCHANGED <<array, head, tail, adding, redis, rooms, polite>>

PushEmptyRoomInfoToRedis ==
    /\ worker.at = "push"
    /\ roomList' = Append(roomList, worker.room)
    /\ worker' = Waiting
    /\ UNCHANGED <<fifo, adding, requests, made, rooms, raced, polite>>
-----------------------------------------------------------------------------
(* The matching server: one request for a pair, and its next room for two  *)
(* users who are in no room; a user who asks again forgets the room he was *)
(* sent to.                                                                *)
PushMatchingRequest ==
    /\ made < MaxRequests
    /\ made' = made + 1
    /\ requests' = requests + 1
    /\ UNCHANGED <<fifo, adding, worker, roomList, rooms, raced, polite>>

SendPair(u, v) ==
    /\ roomList # <<>>
    /\ u # v
    /\ roomNumber[u] = NoRoom /\ roomNumber[v] = NoRoom
    /\ LET r == roomList[Len(roomList)] IN sent' = [sent EXCEPT ![u] = r, ![v] = r]
    /\ roomList' = SubSeq(roomList, 1, Len(roomList) - 1)
    /\ polite' = (polite /\ sent[u] = NoRoom /\ sent[v] = NoRoom)
    /\ UNCHANGED <<fifo, adding, worker, requests, made, members, roomNumber, raced>>

Worker ==
    \/ CheckEmptyRooms \/ IsMatchingRequestReceived \/ GetEmptyRoomInfo
    \/ DequeueCounts \/ PushEmptyRoomInfoToRedis

Next ==
    \/ \E u \in Users : LeaveRoom(u) \/ \E r \in Rooms : RequestRoomEnter(u, r)
    \/ EnqueueCounts
    \/ Worker
    \/ PushMatchingRequest
    \/ \E u, v \in Users : SendPair(u, v)

Spec == Init /\ [][Next]_vars
-----------------------------------------------------------------------------
(* Type invariant. *)
TypeOK ==
    /\ array \in [Cells -> Rooms]
    /\ head \in Cells /\ tail \in Cells /\ size \in Nat
    /\ adding \in [at : {"idle", "count"}, count : Nat]
    /\ worker \in [at : {"idle", "request", "dequeue", "count", "push"},
                   room : Rooms \cup {NoRoom}, count : Nat]
    /\ requests \in Nat /\ made \in Nat /\ roomList \in Seq(Rooms)
    /\ members \in [Rooms -> SUBSET Users]
    /\ roomNumber \in [Users -> Rooms \cup {NoRoom}]
    /\ sent \in [Users -> Rooms \cup {NoRoom}]
    /\ raced \in BOOLEAN /\ polite \in BOOLEAN

(* The worker looks at the count, waits for Redis, and only then dequeues. *)
(* However the packet thread comes in between, and even if updates of the  *)
(* count get lost, it finds the count above 0: Dequeue does not throw, and *)
(* a request that was popped is answered.                                  *)
DequeueFindsRoom == worker.at \in {"request", "dequeue"} => size > 0

(* The queue as it stands between the two halves of its operations. *)
InQueue == IF worker.at = "count" THEN size - 1 ELSE size
Queued  == [k \in 1 .. InQueue + (IF adding.at = "count" THEN 1 ELSE 0) |->
               array[(head + k - 1) % Capacity]]

Occurs(r, seq) == Cardinality({k \in DOMAIN seq : seq[k] = r})

(* The users a room is lent to: those in it and those on their way. *)
LentTo(r) == members[r] \cup {u \in Users : sent[u] = r}

(* A room is in one place.  While no update of the count is lost, and      *)
(* users go where they were sent and do not leave before their partner has *)
(* come, every room is at any moment either once in the queue, or in the   *)
(* worker's hand, or offered once in Redis, or lent to one pair: no room   *)
(* is handed out twice and none gets lost.                                 *)
RoomInOnePlace ==
    polite /\ ~raced =>
        \A r \in Rooms :
            /\ Occurs(r, Queued) + Occurs(r, roomList)
                 + (IF worker.at \in {"count", "push"} /\ worker.room = r THEN 1 ELSE 0)
                 + (IF LentTo(r) # {} THEN 1 ELSE 0) = 1
            /\ Cardinality(LentTo(r)) <= 2
=============================================================================
