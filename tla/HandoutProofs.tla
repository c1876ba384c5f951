--------------------------- MODULE HandoutProofs ----------------------------
(***************************************************************************)
(* Proofs about module Handout, for any number of users, rooms and         *)
(* requests: the worker's look at the number of empty rooms is still good  *)
(* when it dequeues, in spite of the updates that get lost; and while none *)
(* is lost no room is handed out twice.                                    *)
(***************************************************************************)
EXTENDS Handout, FiniteSetTheorems, SequenceTheorems, TLAPS

(* The inductive invariant: a number of rooms that was read before it is   *)
(* counted down is above 0, and the worker has a room in its hand.         *)
HandoutInv ==
    /\ TypeOK
    /\ DequeueFindsRoom
    /\ worker.at = "count" => worker.count > 0
    /\ worker.at \in {"count", "push"} => worker.room \in Rooms

(* It holds at the start. *)
LEMMA InitInv == Init => HandoutInv
<1> SUFFICES ASSUME Init PROVE HandoutInv
  OBVIOUS
<1>1. array \in [Cells -> Rooms] /\ head \in Cells /\ tail \in Cells /\ size \in Nat
  BY HandoutAssumption DEF Init, Cells, Rooms
<1>2. roomList \in Seq(Rooms)
  BY DEF Init
<1> QED
  BY <1>1, <1>2 DEF Init, HandoutInv, TypeOK, DequeueFindsRoom, NotAdding, Waiting

(* The two ends of the ring stay in it. *)
LEMMA NextCell ==
    ASSUME NEW k \in Cells
    PROVE  (k + 1) % Capacity \in Cells
BY HandoutAssumption DEF Cells

(* Queueing a room, up to the write of the count. *)
LEMMA EnqueueInv ==
    ASSUME HandoutInv, NEW r \in Rooms, Enqueue(r)
    PROVE  /\ array' \in [Cells -> Rooms] /\ tail' \in Cells /\ head' = head /\ size' = size
           /\ adding' \in [at : {"idle", "count"}, count : Nat]
BY NextCell DEF HandoutInv, TypeOK, Enqueue

(* The packet thread. *)
LEMMA PacketThreadInv ==
    ASSUME HandoutInv,
           \/ \E u \in Users : LeaveRoom(u) \/ \E r \in Rooms : RequestRoomEnter(u, r)
           \/ EnqueueCounts
    PROVE  HandoutInv'
<1>1. ASSUME NEW u \in Users, LeaveRoom(u) PROVE HandoutInv'
  <2>1. roomNumber[u] \in Rooms
    BY <1>1 DEF LeaveRoom, HandoutInv, TypeOK
  <2>2. /\ array' \in [Cells -> Rooms] /\ tail' \in Cells /\ head' = head /\ size' = size
        /\ adding' \in [at : {"idle", "count"}, count : Nat]
    <3>1. Enqueue(roomNumber[u]) \/ UNCHANGED <<fifo, adding>>
      BY <1>1 DEF LeaveRoom
    <3> QED BY <2>1, <3>1, EnqueueInv DEF HandoutInv, TypeOK, fifo
  <2>3. /\ members' \in [Rooms -> SUBSET Users]
        /\ roomNumber' \in [Users -> Rooms \cup {NoRoom}]
        /\ polite' \in BOOLEAN
    BY <1>1, <2>1 DEF LeaveRoom, HandoutInv, TypeOK
  <2>4. UNCHANGED <<worker, requests, roomList, made, sent, raced>>
    BY <1>1 DEF LeaveRoom, redis
  <2> QED BY <2>2, <2>3, <2>4 DEF HandoutInv, TypeOK, DequeueFindsRoom
<1>2. ASSUME NEW u \in Users, NEW r \in Rooms, RequestRoomEnter(u, r) PROVE HandoutInv'
  <2>1. /\ members' \in [Rooms -> SUBSET Users]
        /\ roomNumber' \in [Users -> Rooms \cup {NoRoom}]
        /\ sent' \in [Users -> Rooms \cup {NoRoom}] /\ polite' \in BOOLEAN
    BY <1>2 DEF RequestRoomEnter, HandoutInv, TypeOK
  <2>2. UNCHANGED <<array, head, tail, size, adding, worker, requests, roomList, made, raced>>
    BY <1>2 DEF RequestRoomEnter, fifo, redis
  <2> QED BY <2>1, <2>2 DEF HandoutInv, TypeOK, DequeueFindsRoom
<1>3. CASE EnqueueCounts
  <2>1. size' \in Nat /\ size' > 0
    BY <1>3 DEF EnqueueCounts, HandoutInv, TypeOK
  <2>2. /\ adding' = NotAdding /\ raced' \in BOOLEAN
        /\ UNCHANGED <<array, head, tail, worker, requests, roomList, made, members,
                       roomNumber, sent, polite>>
    BY <1>3 DEF EnqueueCounts, redis, rooms, HandoutInv, TypeOK
  <2> QED BY <2>1, <2>2 DEF HandoutInv, TypeOK, DequeueFindsRoom, NotAdding
<1> QED BY <1>1, <1>2, <1>3

(* The worker, which alone counts down, has done so when it looks again.   *)
LEMMA WorkerInv ==
    ASSUME HandoutInv, Worker
    PROVE  HandoutInv'
<1>1. CASE CheckEmptyRooms
  BY <1>1 DEF CheckEmptyRooms, fifo, redis, rooms, HandoutInv, TypeOK, DequeueFindsRoom
<1>2. CASE IsMatchingRequestReceived
  BY <1>2 DEF IsMatchingRequestReceived, Waiting, fifo, rooms, HandoutInv, TypeOK,
     DequeueFindsRoom
<1>3. CASE GetEmptyRoomInfo
  <2>1. array[head] \in Rooms /\ head' \in Cells
    BY <1>3, NextCell DEF GetEmptyRoomInfo, HandoutInv, TypeOK
  <2>2. /\ worker' = [at |-> "count", room |-> array[head], count |-> size] /\ size > 0
        /\ UNCHANGED <<array, tail, size, adding, requests, roomList, made, members,
                       roomNumber, sent, raced, polite>>
    BY <1>3 DEF GetEmptyRoomInfo, redis, rooms
  <2> QED BY <2>1, <2>2 DEF HandoutInv, TypeOK, DequeueFindsRoom
<1>4. CASE DequeueCounts
  <2>1. size' \in Nat /\ raced' \in BOOLEAN
    BY <1>4 DEF DequeueCounts, HandoutInv, TypeOK
  <2>2. /\ worker' = [worker EXCEPT !.at = "push", !.count = 0] /\ worker.at = "count"
        /\ UNCHANGED <<array, head, tail, adding, requests, roomList, made, members,
                       roomNumber, sent, polite>>
    BY <1>4 DEF DequeueCounts, redis, rooms
  <2> QED BY <2>1, <2>2 DEF HandoutInv, TypeOK, DequeueFindsRoom
<1>5. CASE PushEmptyRoomInfoToRedis
  <2>1. roomList' \in Seq(Rooms)
    BY <1>5, AppendProperties DEF PushEmptyRoomInfoToRedis, HandoutInv, TypeOK
  <2>2. /\ worker' = Waiting
        /\ UNCHANGED <<array, head, tail, size, adding, requests, made, members,
                       roomNumber, sent, raced, polite>>
    BY <1>5 DEF PushEmptyRoomInfoToRedis, fifo, rooms
  <2> QED BY <2>1, <2>2 DEF HandoutInv, TypeOK, DequeueFindsRoom, Waiting
<1> QED BY <1>1, <1>2, <1>3, <1>4, <1>5 DEF Worker

(* The matching server. *)
LEMMA MatchingInv ==
    ASSUME HandoutInv, PushMatchingRequest \/ \E u, v \in Users : SendPair(u, v)
    PROVE  HandoutInv'
<1>1. CASE PushMatchingRequest
  BY <1>1 DEF PushMatchingRequest, fifo, rooms, HandoutInv, TypeOK, DequeueFindsRoom
<1>2. ASSUME NEW u \in Users, NEW v \in Users, SendPair(u, v) PROVE HandoutInv'
  <2>1. /\ roomList \in Seq(Rooms) /\ roomList # <<>>
        /\ roomList' = SubSeq(roomList, 1, Len(roomList) - 1)
    BY <1>2 DEF SendPair, HandoutInv, TypeOK
  <2>2. /\ Len(roomList) \in Nat /\ Len(roomList) >= 1
        /\ \A k \in 1 .. Len(roomList) : roomList[k] \in Rooms
    <3>1. Len(roomList) \in Nat \ {0}
      BY <2>1, EmptySeq
    <3>2. \A k \in 1 .. Len(roomList) : roomList[k] \in Rooms
      BY <2>1, ElementOfSeq
    <3> QED BY <3>1, <3>2
  <2>3. roomList' \in Seq(Rooms)
    <3>1. /\ 1 \in Int /\ Len(roomList) - 1 \in Int
          /\ \A k \in 1 .. Len(roomList) - 1 : roomList[k] \in Rooms
      BY <2>2
    <3>2. SubSeq(roomList, 1, Len(roomList) - 1) \in Seq(Rooms)
      BY <3>1, SubSeqProperties
    <3> QED BY <2>1, <3>2
  <2>4. sent' \in [Users -> Rooms \cup {NoRoom}]
    <3> DEFINE r == roomList[Len(roomList)]
    <3>1. sent' = [sent EXCEPT ![u] = r, ![v] = r]
      BY <1>2 DEF SendPair
    <3>2. r \in Rooms
      BY <2>2
    <3> HIDE DEF r
    <3> QED BY <3>1, <3>2 DEF HandoutInv, TypeOK
  <2>5. /\ polite' \in BOOLEAN
        /\ UNCHANGED <<array, head, tail, size, adding, worker, requests, made, members,
                       roomNumber, raced>>
    BY <1>2 DEF SendPair, fifo, HandoutInv, TypeOK
  <2> QED BY <2>3, <2>4, <2>5 DEF HandoutInv, TypeOK, DequeueFindsRoom
<1> QED BY <1>1, <1>2

LEMMA NextInv == HandoutInv /\ [Next]_vars => HandoutInv'
<1>1. HandoutInv /\ UNCHANGED vars => HandoutInv'
  BY DEF vars, fifo, redis, rooms, HandoutInv, TypeOK, DequeueFindsRoom
<1> QED BY <1>1, PacketThreadInv, WorkerInv, MatchingInv DEF Next

LEMMA Invariance == Spec => []HandoutInv
BY InitInv, NextInv, PTL DEF Spec

(* Type correctness: room numbers stay in range, counts above 0. *)
THEOREM TypeCorrect == Spec => []TypeOK
<1>1. HandoutInv => TypeOK
  BY DEF HandoutInv
<1> QED BY <1>1, Invariance, PTL

(* The worker never dequeues from a queue whose count is 0. *)
THEOREM DequeueNeverThrows == Spec => []DequeueFindsRoom
<1>1. HandoutInv => DequeueFindsRoom
  BY DEF HandoutInv
<1> QED BY <1>1, Invariance, PTL
-----------------------------------------------------------------------------
(* The ring: what is queued fits, and the tail is behind it.  Users: whose *)
(* room and number agree, and nobody is awaited who is in a room.          *)
Total == InQueue + (IF adding.at = "count" THEN 1 ELSE 0)

RingInv ==
    /\ worker.at = "count" => size > 0
    /\ ~raced => Total <= Capacity /\ tail = (head + Total) % Capacity

UsersInv ==
    polite =>
        /\ \A u \in Users, r \in Rooms : u \in members[r] <=> roomNumber[u] = r
        /\ \A u \in Users : roomNumber[u] = NoRoom \/ sent[u] = NoRoom

(* A sequence in which nothing is twice, and the four places of a room.    *)
Distinct(seq)   == \A k, m \in DOMAIN seq : seq[k] = seq[m] => k = m
Within(r, seq)  == \E k \in DOMAIN seq : seq[k] = r
InHand(r)       == worker.at \in {"count", "push"} /\ worker.room = r

AtMostTwo(S)    == \A u, v, w \in S : u = v \/ v = w \/ u = w

InOnePlace(r) ==
    /\ \/ Within(r, Queued) \/ Within(r, roomList) \/ InHand(r) \/ LentTo(r) # {}
    /\ Within(r, Queued) => ~Within(r, roomList) /\ ~InHand(r) /\ LentTo(r) = {}
    /\ Within(r, roomList) => ~InHand(r) /\ LentTo(r) = {}
    /\ InHand(r) => LentTo(r) = {}

Places ==
    /\ Distinct(Queued) /\ Distinct(roomList)
    /\ \A r \in Rooms : InOnePlace(r)
    /\ \A r \in Rooms : AtMostTwo(LentTo(r))

PlaceInv == HandoutInv /\ RingInv /\ UsersInv /\ (polite /\ ~raced => Places)

(* Arithmetic of the ring.                                                 *)
LEMMA Wrap ==
    ASSUME NEW c \in Nat, c < 2 * Capacity
    PROVE  c % Capacity = IF c < Capacity THEN c ELSE c - Capacity
BY HandoutAssumption

LEMMA CellsDiffer ==
    ASSUME NEW h \in Cells, NEW i \in Cells, NEW j \in Cells, i # j
    PROVE  (h + i) % Capacity # (h + j) % Capacity
<1>1. /\ h \in Nat /\ i \in Nat /\ j \in Nat /\ Capacity \in Nat
      /\ h < Capacity /\ i < Capacity /\ j < Capacity
  BY HandoutAssumption DEF Cells
<1>2. h + i \in Nat /\ h + i < 2 * Capacity /\ h + j \in Nat /\ h + j < 2 * Capacity
  BY <1>1
<1> DEFINE a == h + i
           b == h + j
<1> HIDE DEF a, b
<1>3. /\ a % Capacity = IF a < Capacity THEN a ELSE a - Capacity
      /\ b % Capacity = IF b < Capacity THEN b ELSE b - Capacity
  BY <1>2, Wrap DEF a, b
<1> DEFINE x == a % Capacity
           y == b % Capacity
<1> HIDE DEF x, y
<1>4. x # y
  BY <1>1, <1>3 DEF a, b, x, y
<1> QED BY <1>4 DEF a, b, x, y

LEMMA Shift ==
    ASSUME NEW h \in Cells, NEW i \in Cells
    PROVE  (((h + 1) % Capacity) + i) % Capacity = (h + 1 + i) % Capacity
<1>1. h \in Nat /\ i \in Nat /\ Capacity \in Nat /\ h < Capacity /\ i < Capacity
  BY HandoutAssumption DEF Cells
<1>2. (h + 1) % Capacity = IF h + 1 < Capacity THEN h + 1 ELSE h + 1 - Capacity
  BY <1>1, Wrap
<1>3. CASE h + 1 < Capacity
  BY <1>2, <1>3
<1>4. CASE ~(h + 1 < Capacity)
  <2>1. h + 1 = Capacity
    BY <1>1, <1>4
  <2>2. (h + 1) % Capacity = 0
    BY <1>1, <1>2, <2>1
  <2>3. i % Capacity = i
    BY <1>1, Wrap
  <2>4. (h + 1 + i) % Capacity = i
    <3> DEFINE c == h + 1 + i
    <3>1. c \in Nat /\ c < 2 * Capacity /\ ~(c < Capacity) /\ c - Capacity = i
      BY <1>1, <2>1
    <3> HIDE DEF c
    <3>2. c % Capacity = c - Capacity
      BY <3>1, Wrap
    <3> QED BY <3>1, <3>2 DEF c
  <2> QED BY <1>1, <2>2, <2>3, <2>4
<1> QED BY <1>3, <1>4

(* What is queued.                                                         *)
LEMMA QueuedIs ==
    ASSUME HandoutInv, RingInv
    PROVE  /\ InQueue \in Nat /\ InQueue <= size /\ Total \in Nat
           /\ DOMAIN Queued = 1 .. Total
           /\ \A k \in 1 .. Total : Queued[k] = array[(head + k - 1) % Capacity]
<1>1. InQueue \in Nat /\ InQueue <= size /\ Total \in Nat
  BY DEF HandoutInv, TypeOK, RingInv, InQueue, Total
<1> QED BY <1>1 DEF Queued, Total

(* A room is queued behind the others.                                     *)
LEMMA Enqueued ==
    ASSUME HandoutInv, RingInv, ~raced, HandoutInv', NEW r \in Rooms, Enqueue(r),
           adding.at = "idle", worker' = worker, raced' = raced
    PROVE  /\ RingInv'
           /\ Total' = Total + 1 /\ Queued'[Total + 1] = r
           /\ \A k \in 1 .. Total : Queued'[k] = Queued[k]
<1>1. /\ size < Capacity /\ array' = [array EXCEPT ![tail] = r]
      /\ tail' = (tail + 1) % Capacity /\ adding'.at = "count" /\ head' = head /\ size' = size
  BY DEF Enqueue
<1>2. InQueue' = InQueue /\ Total = InQueue /\ Total' = Total + 1
  <2>1. InQueue' = InQueue
    BY <1>1 DEF InQueue
  <2>2. Total = InQueue /\ Total' = InQueue' + 1
    BY <1>1, QueuedIs DEF Total
  <2> QED BY <2>1, <2>2
<1>3. /\ Total \in Nat /\ Total < Capacity /\ tail = (head + Total) % Capacity
      /\ array \in [Cells -> Rooms] /\ head \in Cells /\ tail \in Cells /\ Capacity \in Nat
      /\ size \in Nat
  <2>1. /\ array \in [Cells -> Rooms] /\ head \in Cells /\ tail \in Cells /\ Capacity \in Nat
        /\ size \in Nat
    BY HandoutAssumption DEF HandoutInv, TypeOK
  <2>2. tail = (head + Total) % Capacity
    BY DEF RingInv
  <2>3. InQueue \in Nat /\ InQueue <= size
    BY QueuedIs
  <2> QED BY <1>1, <1>2, <2>1, <2>2, <2>3
<1>4. Total \in Cells
  BY <1>3 DEF Cells
<1>5. tail' = (head' + Total') % Capacity
  <2>1. (((head + 1) % Capacity) + Total) % Capacity = (head + 1 + Total) % Capacity
    BY <1>3, <1>4, Shift
  <2>2. (((Total + head) % Capacity) + 1) % Capacity = (head + 1 + Total) % Capacity
    <3> DEFINE c == head + Total
    <3>1. head \in Nat /\ c \in Nat /\ c < 2 * Capacity /\ head < Capacity
      BY <1>3 DEF Cells
    <3>0. Total + head = c /\ head + 1 + Total = c + 1
      BY <1>3, <3>1
    <3> HIDE DEF c
    <3>2. c % Capacity = IF c < Capacity THEN c ELSE c - Capacity
      BY <3>1, Wrap
    <3>3. CASE c < Capacity
      BY <1>3, <3>0, <3>1, <3>2, <3>3
    <3>4. CASE ~(c < Capacity)
      <4> DEFINE x == c + 1
                 y == c - Capacity + 1
      <4>1. /\ x \in Nat /\ x < 2 * Capacity /\ ~(x < Capacity) /\ x - Capacity = y
            /\ y \in Nat /\ y < Capacity /\ y < 2 * Capacity
        <5>1. Total - 1 < Capacity - 1 /\ Total + head = c
          BY <1>3, <3>0
        <5> QED BY <1>3, <3>1, <3>4, <5>1
      <4> HIDE DEF x, y
      <4>2. x % Capacity = x - Capacity /\ y % Capacity = y
        BY <4>1, Wrap
      <4> QED BY <3>0, <3>2, <3>4, <4>1, <4>2 DEF x, y
    <3> QED BY <3>3, <3>4
  <2>3. head + (Total + 1) = head + 1 + Total /\ Total + head = head + Total
    BY <1>3 DEF Cells
  <2> QED BY <1>1, <1>2, <1>3, <2>2, <2>3
<1>6. RingInv'
  <2>1. worker'.at = "count" => size' > 0
    BY <1>1 DEF RingInv
  <2>2. Total' <= Capacity
    BY <1>2, <1>3
  <2> QED BY <1>5, <2>1, <2>2 DEF RingInv
<1>7. \A k \in 1 .. Total + 1 : Queued'[k] = array'[(head + k - 1) % Capacity]
  <2>1. Queued' = [k \in 1 .. Total' |-> array'[(head' + k - 1) % Capacity]]
    BY DEF Queued, Total
  <2> QED BY <1>1, <1>2, <2>1
<1>8. Queued'[Total + 1] = r
  <2>1. head + (Total + 1) - 1 = head + Total /\ Total + 1 \in 1 .. Total + 1
    BY <1>3 DEF Cells
  <2>2. Queued'[Total + 1] = array'[tail]
    BY <1>3, <1>7, <2>1
  <2> QED BY <1>1, <1>3, <2>2
<1>9. ASSUME NEW k \in 1 .. Total PROVE Queued'[k] = Queued[k]
  <2>1. k - 1 \in Cells /\ k - 1 # Total /\ head + k - 1 = head + (k - 1) /\ k \in 1 .. Total + 1
    BY <1>3 DEF Cells
  <2>2. (head + (k - 1)) % Capacity # tail
    BY <1>3, <1>4, <2>1, CellsDiffer
  <2>3. array'[(head + (k - 1)) % Capacity] = array[(head + (k - 1)) % Capacity]
    <3>1. (head + (k - 1)) % Capacity \in Cells
      BY <1>3, <2>1 DEF Cells
    <3> QED BY <1>1, <1>3, <2>2, <3>1
  <2> QED BY <1>7, <2>1, <2>3, QueuedIs
<1> QED BY <1>2, <1>6, <1>8, <1>9

(* The first room is taken from the queue.                                 *)
LEMMA Dequeued ==
    ASSUME HandoutInv, RingInv, ~raced, HandoutInv', GetEmptyRoomInfo
    PROVE  /\ RingInv'
           /\ Total \in Nat \ {0} /\ Total' = Total - 1
           /\ worker'.room = Queued[1]
           /\ \A k \in 1 .. Total - 1 : Queued'[k] = Queued[k + 1]
<1>1. /\ worker.at = "dequeue" /\ size > 0 /\ head' = (head + 1) % Capacity
      /\ worker' = [at |-> "count", room |-> array[head], count |-> size]
      /\ array' = array /\ tail' = tail /\ size' = size /\ adding' = adding /\ raced' = raced
  BY DEF GetEmptyRoomInfo
<1>2. /\ array \in [Cells -> Rooms] /\ head \in Cells /\ Capacity \in Nat /\ size \in Nat
      /\ head \in Nat /\ head < Capacity
      /\ Total \in Nat /\ Total <= Capacity /\ tail = (head + Total) % Capacity
  BY QueuedIs, HandoutAssumption DEF RingInv, HandoutInv, TypeOK, Cells
<1>3. Total \in Nat \ {0} /\ Total' = Total - 1
  <2>1. InQueue = size /\ InQueue' = size - 1
    BY <1>1 DEF InQueue
  <2> QED BY <1>1, <1>2, <2>1 DEF Total
<1>4. \A k \in 0 .. Total - 1 : (head' + k) % Capacity = (head + 1 + k) % Capacity
  <2> SUFFICES ASSUME NEW k \in 0 .. Total - 1
               PROVE  (head' + k) % Capacity = (head + 1 + k) % Capacity
    OBVIOUS
  <2>1. k \in Cells
    BY <1>2 DEF Cells
  <2> QED BY <1>1, <1>2, <2>1, Shift
<1>5. tail' = (head' + Total') % Capacity
  <2>1. Total - 1 \in 0 .. Total - 1 /\ head + 1 + (Total - 1) = head + Total
    BY <1>2, <1>3
  <2> QED BY <1>1, <1>2, <1>3, <1>4, <2>1
<1>6. RingInv'
  <2>1. Total' <= Capacity
    BY <1>2, <1>3
  <2>2. size' > 0
    BY <1>1
  <2> QED BY <1>5, <2>1, <2>2 DEF RingInv
<1>7. worker'.room = Queued[1]
  <2>1. 1 \in 1 .. Total /\ head + 1 - 1 = head
    BY <1>2, <1>3
  <2>2. head % Capacity = head
    BY <1>2, Wrap
  <2> QED BY <1>1, <2>1, <2>2, QueuedIs
<1>8. ASSUME NEW k \in 1 .. Total - 1 PROVE Queued'[k] = Queued[k + 1]
  <2>1. Queued' = [m \in 1 .. Total' |-> array'[(head' + m - 1) % Capacity]]
    BY DEF Queued, Total
  <2>2. /\ k - 1 \in 0 .. Total - 1 /\ k + 1 \in 1 .. Total
        /\ head + 1 + (k - 1) = head + (k + 1) - 1
    BY <1>2, <1>3
  <2>3. head' + k - 1 = head' + (k - 1)
    <3>1. head' \in Int
      BY DEF HandoutInv, TypeOK, Cells
    <3> QED BY <1>2, <1>3, <3>1
  <2>4. Queued'[k] = array[(head' + (k - 1)) % Capacity]
    BY <1>1, <1>3, <2>1, <2>3
  <2>5. Queued[k + 1] = array[(head + (k + 1) - 1) % Capacity]
    BY <2>2, QueuedIs
  <2> QED BY <1>4, <2>2, <2>4, <2>5
<1> QED BY <1>3, <1>6, <1>7, <1>8

(* Steps that leave every room where it is.                                *)
LEMMA PlacesStay ==
    ASSUME PlaceInv, UNCHANGED <<array, head, tail, roomList>>,
           ~raced' => ~raced /\ Total' = Total,
           polite' => polite,
           worker'.at = "count" => size' > 0,
           \A r : InHand(r)' <=> InHand(r),
           polite' => \A r \in Rooms : LentTo(r)' = LentTo(r)
    PROVE  RingInv' /\ (polite' /\ ~raced' => Places')
<1>1. RingInv'
  BY DEF PlaceInv, RingInv
<1>2. ASSUME polite', ~raced' PROVE Places'
  <2>1. /\ Queued' = [k \in 1 .. Total' |-> array'[(head' + k - 1) % Capacity]]
        /\ Queued = [k \in 1 .. Total |-> array[(head + k - 1) % Capacity]]
    BY DEF Queued, Total
  <2>2. Queued' = Queued /\ Places
    BY <1>2, <2>1 DEF PlaceInv
  <2>3. Distinct(Queued') /\ Distinct(roomList')
    BY <2>2 DEF Places
  <2>4. \A r \in Rooms : AtMostTwo(LentTo(r)')
    BY <1>2, <2>2 DEF Places
  <2>5. \A r \in Rooms : InOnePlace(r)'
    BY <1>2, <2>2 DEF Places, InOnePlace
  <2> QED BY <2>3, <2>4, <2>5 DEF Places
<1> QED BY <1>1, <1>2

(* A user enters the room it was sent to.                                  *)
LEMMA EnterPlaces ==
    ASSUME PlaceInv, NEW u \in Users, NEW r \in Rooms, RequestRoomEnter(u, r)
    PROVE  RingInv' /\ UsersInv' /\ (polite' /\ ~raced' => Places')
<1>1. /\ members' = [members EXCEPT ![r] = @ \cup {u}]
      /\ UNCHANGED <<array, head, tail, size, adding, worker, roomList, raced>>
  BY DEF RequestRoomEnter, fifo, redis
<1>2. polite' => polite /\ sent[u] = r /\ roomNumber[u] = NoRoom
  <2>1. polite' = (polite /\ sent[u] = r /\ roomNumber[u] = NoRoom)
    BY DEF RequestRoomEnter
  <2> QED BY <2>1, Zenon
<1>3. /\ members \in [Rooms -> SUBSET Users]
      /\ roomNumber \in [Users -> Rooms \cup {NoRoom}]
      /\ sent \in [Users -> Rooms \cup {NoRoom}]
      /\ NoRoom \notin Rooms
  BY DEF PlaceInv, HandoutInv, TypeOK, Rooms, NoRoom
<1>4. ASSUME polite'
      PROVE  roomNumber' = [roomNumber EXCEPT ![u] = r] /\ sent' = [sent EXCEPT ![u] = NoRoom]
  <2>1. roomNumber[u] = NoRoom /\ u \notin members[r] /\ sent[u] = r
    BY <1>2, <1>3, <1>4 DEF PlaceInv, UsersInv
  <2> QED BY <2>1 DEF RequestRoomEnter
<1>5. UsersInv'
  <2> SUFFICES ASSUME polite' PROVE UsersInv'
    BY DEF UsersInv
  <2>1. /\ \A v \in Users, q \in Rooms : v \in members[q] <=> roomNumber[v] = q
        /\ \A v \in Users : roomNumber[v] = NoRoom \/ sent[v] = NoRoom
    BY <1>2 DEF PlaceInv, UsersInv
  <2>2. \A v \in Users, q \in Rooms : v \in members'[q] <=> roomNumber'[v] = q
    BY <1>1, <1>2, <1>3, <1>4, <2>1
  <2>3. \A v \in Users : roomNumber'[v] = NoRoom \/ sent'[v] = NoRoom
    BY <1>3, <1>4, <2>1
  <2> QED BY <2>2, <2>3 DEF UsersInv
<1>6. ASSUME polite' PROVE \A q \in Rooms : LentTo(q)' = LentTo(q)
  <2> SUFFICES ASSUME NEW q \in Rooms PROVE LentTo(q)' = LentTo(q)
    OBVIOUS
  <2>1. /\ members'[q] = IF q = r THEN members[q] \cup {u} ELSE members[q]
        /\ \A v \in Users : sent'[v] = IF v = u THEN NoRoom ELSE sent[v]
        /\ sent[u] = r
    BY <1>1, <1>2, <1>3, <1>4, <1>6
  <2>2. CASE q = r
    BY <1>3, <2>1, <2>2 DEF LentTo
  <2>3. CASE q # r
    BY <1>3, <2>1, <2>3 DEF LentTo
  <2> QED BY <2>2, <2>3
<1>7. /\ ~raced' => ~raced /\ Total' = Total
      /\ worker'.at = "count" => size' > 0
      /\ \A q : InHand(q)' <=> InHand(q)
  BY <1>1 DEF Total, InQueue, InHand, PlaceInv, RingInv
<1> QED BY <1>1, <1>2, <1>5, <1>6, <1>7, PlacesStay

(* A user leaves; if it was the last one its room goes on the queue.       *)
LEMMA LeavePlaces ==
    ASSUME PlaceInv, HandoutInv', NEW u \in Users, LeaveRoom(u)
    PROVE  RingInv' /\ UsersInv' /\ (polite' /\ ~raced' => Places')
<1>0. PICK r : r = roomNumber[u]
  OBVIOUS
<1>1. /\ adding.at = "idle" /\ r # NoRoom
      /\ members' = [members EXCEPT ![r] = @ \ {u}]
      /\ roomNumber' = [roomNumber EXCEPT ![u] = NoRoom]
      /\ IF u \in members[r] /\ members[r] \ {u} = {}
         THEN Enqueue(r) ELSE UNCHANGED <<fifo, adding>>
      /\ worker' = worker /\ roomList' = roomList /\ sent' = sent /\ raced' = raced
  BY <1>0 DEF LeaveRoom, redis
<1>2. polite' => polite /\ \A v \in Users : sent[v] # r
  <2>1. polite' = (polite /\ \A v \in Users : sent[v] # r)
    BY <1>0 DEF LeaveRoom
  <2> QED BY <2>1, Zenon
<1>3. /\ members \in [Rooms -> SUBSET Users]
      /\ roomNumber \in [Users -> Rooms \cup {NoRoom}]
      /\ sent \in [Users -> Rooms \cup {NoRoom}]
      /\ NoRoom \notin Rooms /\ r \in Rooms
  BY <1>0, <1>1 DEF PlaceInv, HandoutInv, TypeOK, Rooms, NoRoom
<1>4. UsersInv'
  <2> SUFFICES ASSUME polite' PROVE UsersInv'
    BY DEF UsersInv
  <2>1. /\ \A v \in Users, q \in Rooms : v \in members[q] <=> roomNumber[v] = q
        /\ \A v \in Users : roomNumber[v] = NoRoom \/ sent[v] = NoRoom
    BY <1>2 DEF PlaceInv, UsersInv
  <2>2. \A v \in Users, q \in Rooms : v \in members'[q] <=> roomNumber'[v] = q
    BY <1>0, <1>1, <1>3, <2>1
  <2>3. \A v \in Users : roomNumber'[v] = NoRoom \/ sent'[v] = NoRoom
    BY <1>1, <1>3, <2>1
  <2> QED BY <2>2, <2>3 DEF UsersInv
<1>5. ASSUME polite'
      PROVE  /\ u \in members[r] /\ LentTo(r) = members[r] /\ LentTo(r)' = members[r] \ {u}
             /\ \A q \in Rooms \ {r} : LentTo(q)' = LentTo(q)
  <2>1. u \in members[r]
    BY <1>0, <1>2, <1>3, <1>5 DEF PlaceInv, UsersInv
  <2>2. LentTo(r) = members[r] /\ LentTo(r)' = members[r] \ {u}
    BY <1>1, <1>2, <1>3, <1>5 DEF LentTo
  <2>3. \A q \in Rooms \ {r} : LentTo(q)' = LentTo(q)
    BY <1>1, <1>3 DEF LentTo
  <2> QED BY <2>1, <2>2, <2>3
<1>6. \A q : InHand(q)' <=> InHand(q)
  BY <1>1 DEF InHand
<1>7. CASE Enqueue(r)
  <2>1. ASSUME ~raced
        PROVE  /\ RingInv' /\ Total \in Nat
               /\ DOMAIN Queued = 1 .. Total /\ DOMAIN Queued' = 1 .. Total + 1
               /\ Queued'[Total + 1] = r
               /\ \A k \in 1 .. Total : Queued'[k] = Queued[k]
    <3>1. /\ RingInv' /\ Total' = Total + 1 /\ Queued'[Total + 1] = r
          /\ \A k \in 1 .. Total : Queued'[k] = Queued[k]
      BY <1>1, <1>3, <1>7, <2>1, Enqueued DEF PlaceInv
    <3>2. Total \in Nat /\ DOMAIN Queued = 1 .. Total
      BY QueuedIs DEF PlaceInv
    <3>3. DOMAIN Queued' = 1 .. Total'
      BY DEF Queued, Total
    <3> QED BY <3>1, <3>2, <3>3
  <2>2. RingInv'
    <3>1. CASE ~raced
      BY <2>1, <3>1
    <3>2. CASE raced
      <4>1. size' = size
        BY <1>7 DEF Enqueue
      <4> QED BY <1>1, <3>2, <4>1 DEF PlaceInv, RingInv
    <3> QED BY <3>1, <3>2
  <2>3. ASSUME polite', ~raced' PROVE Places'
    <3> DEFINE q == Queued
               p == Queued'
    <3>1. /\ Total \in Nat /\ DOMAIN q = 1 .. Total /\ DOMAIN p = 1 .. Total + 1
          /\ p[Total + 1] = r /\ \A k \in 1 .. Total : p[k] = q[k]
      BY <1>1, <2>1, <2>3
    <3>2. /\ Distinct(q) /\ Distinct(roomList)
          /\ \A x \in Rooms : InOnePlace(x) /\ AtMostTwo(LentTo(x))
      BY <1>1, <1>2, <2>3 DEF PlaceInv, Places
    <3>3. /\ u \in members[r] /\ LentTo(r) # {} /\ LentTo(r)' \subseteq LentTo(r)
          /\ \A x \in Rooms \ {r} : LentTo(x)' = LentTo(x)
      BY <1>5, <2>3
    <3>4. ~Within(r, q) /\ ~Within(r, roomList) /\ ~InHand(r)
      BY <1>3, <3>2, <3>3 DEF InOnePlace
    <3> HIDE DEF q, p
    <3>5. /\ Within(r, p)
          /\ \A x \in Rooms \ {r} : Within(x, p) <=> Within(x, q)
      <4>1. Total + 1 \in DOMAIN p
        BY <3>1
      <4>2. \A k \in DOMAIN p : k \in DOMAIN q \/ k = Total + 1
        BY <3>1
      <4>3. \A k \in DOMAIN q : k \in DOMAIN p
        BY <3>1
      <4> QED BY <3>1, <4>1, <4>2, <4>3 DEF Within
    <3>6. Distinct(p)
      <4>1. \A k \in DOMAIN p : k = Total + 1 \/ (k \in DOMAIN q /\ p[k] = q[k] /\ p[k] # r)
        BY <3>1, <3>4 DEF Within
      <4> QED BY <3>1, <3>2, <4>1 DEF Distinct
    <3>7. LentTo(r)' = {}
      <4>1. members[r] \ {u} = {}
        <5>1. CASE u \in members[r] /\ members[r] \ {u} = {}
          BY <5>1
        <5>2. CASE ~(u \in members[r] /\ members[r] \ {u} = {})
          <6>1. adding' = adding /\ adding'.at = "count"
            BY <1>1, <1>7, <5>2 DEF Enqueue
          <6> QED BY <1>1, <6>1
        <5> QED BY <5>1, <5>2
      <4> QED BY <1>5, <2>3, <4>1
    <3>8. \A x \in Rooms : InOnePlace(x)'
      <4>1. InOnePlace(r)'
        BY <1>1, <1>6, <3>4, <3>5, <3>7 DEF InOnePlace, p
      <4>2. \A x \in Rooms \ {r} : InOnePlace(x)'
        BY <1>1, <1>6, <3>2, <3>3, <3>5 DEF InOnePlace, p, q
      <4> QED BY <4>1, <4>2
    <3>9. \A x \in Rooms : AtMostTwo(LentTo(x)')
      BY <3>2, <3>3 DEF AtMostTwo
    <3>10. Distinct(Queued') /\ Distinct(roomList')
      BY <1>1, <3>2, <3>6 DEF p
    <3> QED BY <3>8, <3>9, <3>10 DEF Places
  <2> QED BY <1>4, <2>2, <2>3
<1>8. CASE ~Enqueue(r)
  <2>1. /\ UNCHANGED <<array, head, tail, size, adding>>
        /\ ~(u \in members[r] /\ members[r] \ {u} = {})
    BY <1>1, <1>8 DEF fifo
  <2>2. Total' = Total /\ (worker'.at = "count" => size' > 0)
    BY <1>1, <2>1 DEF Total, InQueue, PlaceInv, RingInv
  <2>3. RingInv'
    BY <1>1, <2>1, <2>2 DEF PlaceInv, RingInv
  <2>4. ASSUME polite', ~raced' PROVE Places'
    <3>1. /\ Queued' = [k \in 1 .. Total' |-> array'[(head' + k - 1) % Capacity]]
          /\ Queued = [k \in 1 .. Total |-> array[(head + k - 1) % Capacity]]
      BY DEF Queued, Total
    <3>2. Queued' = Queued /\ Places
      BY <1>1, <1>2, <2>1, <2>2, <2>4, <3>1 DEF PlaceInv
    <3>3. /\ \A x \in Rooms : LentTo(x)' \subseteq LentTo(x)
          /\ \A x \in Rooms : LentTo(x)' = {} <=> LentTo(x) = {}
      BY <1>5, <2>1, <2>4
    <3>4. \A x \in Rooms : AtMostTwo(LentTo(x)')
      BY <3>2, <3>3 DEF Places, AtMostTwo
    <3>5. \A x \in Rooms : InOnePlace(x)'
      BY <1>1, <1>6, <3>2, <3>3 DEF Places, InOnePlace
    <3>6. Distinct(Queued') /\ Distinct(roomList')
      BY <1>1, <3>2 DEF Places
    <3> QED BY <3>4, <3>5, <3>6 DEF Places
  <2> QED BY <1>4, <2>3, <2>4
<1> QED BY <1>7, <1>8

(* The counts are written: the queue was that long all the time, unless an *)
(* update is lost.                                                         *)
LEMMA CountPlaces ==
    ASSUME PlaceInv, HandoutInv', EnqueueCounts \/ DequeueCounts
    PROVE  RingInv' /\ UsersInv' /\ (polite' /\ ~raced' => Places')
<1>0. size \in Nat /\ worker.count \in Nat /\ adding.count \in Nat /\ worker \in
         [at : {"idle", "request", "dequeue", "count", "push"},
          room : Rooms \cup {NoRoom}, count : Nat]
  BY DEF PlaceInv, HandoutInv, TypeOK
<1>1. UNCHANGED <<array, head, tail, roomList, members, roomNumber, sent, polite>>
  BY DEF EnqueueCounts, DequeueCounts, redis, rooms
<1>2. CASE EnqueueCounts
  <2>1. /\ adding.at = "count" /\ size' = adding.count + 1 /\ adding' = NotAdding
        /\ worker' = worker
    BY <1>2 DEF EnqueueCounts
  <2>2. ~raced' => ~raced /\ size = adding.count
    <3>1. raced' = (raced \/ size # adding.count)
      BY <1>2 DEF EnqueueCounts
    <3> QED BY <3>1, Zenon
  <2>3. ~raced' => ~raced /\ Total' = Total
    BY <1>0, <2>1, <2>2 DEF Total, InQueue, NotAdding
  <2>4. worker'.at = "count" => size' > 0
    BY <1>0, <2>1
  <2>5. \A r : InHand(r)' <=> InHand(r)
    BY <2>1 DEF InHand
  <2> QED BY <1>1, <2>3, <2>4, <2>5, PlacesStay DEF PlaceInv, UsersInv, LentTo
<1>3. CASE DequeueCounts
  <2>1. /\ worker.at = "count" /\ size' = worker.count - 1 /\ adding' = adding
        /\ worker' = [worker EXCEPT !.at = "push", !.count = 0]
    BY <1>3 DEF DequeueCounts
  <2>2. worker'.at = "push" /\ worker'.room = worker.room
    BY <1>0, <2>1
  <2>3. ~raced' => ~raced /\ size = worker.count
    <3>1. raced' = (raced \/ size # worker.count)
      BY <1>3 DEF DequeueCounts
    <3> QED BY <3>1, Zenon
  <2>4. ~raced' => ~raced /\ Total' = Total
    BY <1>0, <2>1, <2>2, <2>3 DEF Total, InQueue
  <2>5. \A r : InHand(r)' <=> InHand(r)
    BY <2>1, <2>2 DEF InHand
  <2> QED BY <1>1, <2>2, <2>4, <2>5, PlacesStay DEF PlaceInv, UsersInv, LentTo
<1> QED BY <1>2, <1>3

(* The worker looks and waits, and requests arrive, without any room.      *)
LEMMA WaitPlaces ==
    ASSUME PlaceInv, HandoutInv',
           CheckEmptyRooms \/ IsMatchingRequestReceived \/ PushMatchingRequest \/ UNCHANGED vars
    PROVE  RingInv' /\ UsersInv' /\ (polite' /\ ~raced' => Places')
<1>1. UNCHANGED <<fifo, adding, roomList, members, roomNumber, sent, raced, polite>>
  BY DEF CheckEmptyRooms, IsMatchingRequestReceived, PushMatchingRequest, vars, redis, rooms
<1>2. \/ worker' = worker
      \/ worker.at \notin {"count", "push"} /\ worker'.at \notin {"count", "push"}
  <2>1. worker \in [at : {"idle", "request", "dequeue", "count", "push"},
                    room : Rooms \cup {NoRoom}, count : Nat]
    BY DEF PlaceInv, HandoutInv, TypeOK
  <2> QED BY <2>1 DEF CheckEmptyRooms, IsMatchingRequestReceived, PushMatchingRequest, vars,
                      Waiting
<1>3. /\ Total' = Total /\ (worker'.at = "count" => size' > 0)
      /\ \A r : InHand(r)' <=> InHand(r)
  BY <1>1, <1>2 DEF Total, InQueue, InHand, fifo, PlaceInv, RingInv
<1> QED BY <1>1, <1>3, PlacesStay DEF PlaceInv, UsersInv, LentTo, fifo

(* The room at the head of the queue goes into the worker's hand.          *)
LEMMA TakePlaces ==
    ASSUME PlaceInv, HandoutInv', GetEmptyRoomInfo
    PROVE  RingInv' /\ UsersInv' /\ (polite' /\ ~raced' => Places')
<1>1. /\ worker.at = "dequeue" /\ worker'.at = "count" /\ size' = size /\ size > 0
      /\ UNCHANGED <<roomList, members, roomNumber, sent, raced, polite>>
  BY DEF GetEmptyRoomInfo, redis, rooms
<1>2. UsersInv'
  BY <1>1 DEF PlaceInv, UsersInv
<1>3. ASSUME ~raced
      PROVE  /\ RingInv' /\ Total \in Nat \ {0} /\ worker'.room = Queued[1]
             /\ DOMAIN Queued = 1 .. Total /\ DOMAIN Queued' = 1 .. Total - 1
             /\ \A k \in 1 .. Total - 1 : Queued'[k] = Queued[k + 1]
  <2>1. /\ RingInv' /\ Total \in Nat \ {0} /\ Total' = Total - 1 /\ worker'.room = Queued[1]
        /\ \A k \in 1 .. Total - 1 : Queued'[k] = Queued[k + 1]
    BY <1>3, Dequeued DEF PlaceInv
  <2>2. DOMAIN Queued = 1 .. Total /\ DOMAIN Queued' = 1 .. Total'
    BY DEF Queued, Total
  <2> QED BY <2>1, <2>2
<1>4. RingInv'
  <2>1. CASE raced
    BY <1>1, <2>1 DEF RingInv
  <2> QED BY <1>3, <2>1
<1>5. ASSUME polite', ~raced' PROVE Places'
  <2> DEFINE q == Queued
             p == Queued'
  <2>0. PICK r : r = q[1]
    OBVIOUS
  <2>1. /\ Total \in Nat \ {0} /\ DOMAIN q = 1 .. Total /\ DOMAIN p = 1 .. Total - 1
        /\ worker'.room = r /\ \A k \in 1 .. Total - 1 : p[k] = q[k + 1]
    BY <1>1, <1>3, <1>5, <2>0
  <2>2. /\ Distinct(q) /\ Distinct(roomList)
        /\ \A x \in Rooms : InOnePlace(x) /\ AtMostTwo(LentTo(x))
    BY <1>1, <1>5 DEF PlaceInv, Places
  <2>3. \A x : ~InHand(x) /\ (InHand(x)' <=> x = r) /\ LentTo(x)' = LentTo(x)
    BY <1>1, <2>1 DEF InHand, LentTo
  <2> HIDE DEF q, p
  <2>4. 1 \in DOMAIN q /\ \A k \in DOMAIN p : k + 1 \in DOMAIN q /\ k + 1 # 1 /\ p[k] = q[k + 1]
    BY <2>1
  <2>5. \A k \in DOMAIN q : k = 1 \/ (k - 1 \in DOMAIN p /\ p[k - 1] = q[k])
    BY <2>1
  <2>6. Within(r, q) /\ ~Within(r, p)
    BY <2>0, <2>2, <2>4 DEF Within, Distinct
  <2>7. \A x : x # r => (Within(x, p) <=> Within(x, q))
    BY <2>0, <2>4, <2>5 DEF Within
  <2>8. Distinct(p)
    <3>1. \A k, m \in DOMAIN p : k + 1 = m + 1 => k = m
      BY <2>1
    <3> QED BY <2>2, <2>4, <3>1 DEF Distinct
  <2>9. \A x \in Rooms : InOnePlace(x)'
    <3> SUFFICES ASSUME NEW x \in Rooms PROVE InOnePlace(x)'
      OBVIOUS
    <3>1. CASE x = r
      BY <1>1, <2>2, <2>3, <2>6, <3>1 DEF InOnePlace, p, q
    <3>2. CASE x # r
      BY <1>1, <2>2, <2>3, <2>7, <3>2 DEF InOnePlace, p, q
    <3> QED BY <3>1, <3>2
  <2>10. \A x \in Rooms : AtMostTwo(LentTo(x)')
    BY <2>2, <2>3
  <2>11. Distinct(Queued') /\ Distinct(roomList')
    BY <1>1, <2>2, <2>8 DEF p
  <2> QED BY <2>9, <2>10, <2>11 DEF Places
<1> QED BY <1>2, <1>4, <1>5

(* The room in the worker's hand is offered.                               *)
LEMMA PushPlaces ==
    ASSUME PlaceInv, HandoutInv', PushEmptyRoomInfoToRedis
    PROVE  RingInv' /\ UsersInv' /\ (polite' /\ ~raced' => Places')
<1>1. /\ worker.at = "push" /\ worker' = Waiting /\ roomList' = Append(roomList, worker.room)
      /\ UNCHANGED <<array, head, tail, size, adding, members, roomNumber, sent, raced, polite>>
  BY DEF PushEmptyRoomInfoToRedis, fifo, rooms
<1>2. UsersInv'
  BY <1>1 DEF PlaceInv, UsersInv
<1>3. Total' = Total
  BY <1>1 DEF Total, InQueue, Waiting
<1>4. RingInv'
  BY <1>1, <1>3 DEF PlaceInv, RingInv, Waiting
<1>5. ASSUME polite', ~raced' PROVE Places'
  <2>0. PICK r : r = worker.room
    OBVIOUS
  <2>1. /\ Queued' = [k \in 1 .. Total' |-> array'[(head' + k - 1) % Capacity]]
        /\ Queued = [k \in 1 .. Total |-> array[(head + k - 1) % Capacity]]
    BY DEF Queued, Total
  <2>2. Queued' = Queued
    BY <1>1, <1>3, <2>1
  <2>3. /\ Distinct(Queued) /\ Distinct(roomList)
        /\ \A x \in Rooms : InOnePlace(x) /\ AtMostTwo(LentTo(x))
    BY <1>1, <1>5 DEF PlaceInv, Places
  <2>4. r \in Rooms /\ roomList \in Seq(Rooms)
    BY <1>1, <2>0 DEF PlaceInv, HandoutInv, TypeOK
  <2> DEFINE l == roomList
             m == roomList'
  <2>5. /\ DOMAIN l = 1 .. Len(l) /\ Len(l) \in Nat /\ DOMAIN m = 1 .. Len(l) + 1
        /\ m[Len(l) + 1] = r /\ \A k \in DOMAIN l : m[k] = l[k]
    BY <1>1, <2>0, <2>4, AppendProperties
  <2>6. \A x : (InHand(x) <=> x = r) /\ ~InHand(x)' /\ LentTo(x)' = LentTo(x)
    BY <1>1, <2>0 DEF InHand, LentTo, Waiting
  <2>7. ~Within(r, l)
    BY <2>3, <2>4, <2>6 DEF InOnePlace
  <2> HIDE DEF l, m
  <2>8. /\ Len(l) + 1 \in DOMAIN m
        /\ \A k \in DOMAIN l : k \in DOMAIN m
        /\ \A k \in DOMAIN m : k = Len(l) + 1 \/ (k \in DOMAIN l /\ m[k] = l[k] /\ m[k] # r)
    BY <2>5, <2>7 DEF Within
  <2>9. Within(r, m) /\ \A x : x # r => (Within(x, m) <=> Within(x, l))
    BY <2>5, <2>8 DEF Within
  <2>10. Distinct(m)
    BY <2>3, <2>5, <2>8 DEF Distinct, l
  <2>11. \A x \in Rooms : InOnePlace(x)'
    <3> SUFFICES ASSUME NEW x \in Rooms PROVE InOnePlace(x)'
      OBVIOUS
    <3>1. CASE x = r
      BY <2>2, <2>3, <2>6, <2>9, <3>1 DEF InOnePlace, m
    <3>2. CASE x # r
      BY <2>2, <2>3, <2>6, <2>9, <3>2 DEF InOnePlace, m, l
    <3> QED BY <3>1, <3>2
  <2>12. \A x \in Rooms : AtMostTwo(LentTo(x)')
    BY <2>3, <2>6
  <2>13. Distinct(Queued') /\ Distinct(roomList')
    BY <2>2, <2>3, <2>10 DEF m
  <2> QED BY <2>11, <2>12, <2>13 DEF Places
<1> QED BY <1>2, <1>4, <1>5

(* The last room that was offered is lent to a pair.                       *)
LEMMA SendPlaces ==
    ASSUME PlaceInv, HandoutInv', NEW u \in Users, NEW v \in Users, SendPair(u, v)
    PROVE  RingInv' /\ UsersInv' /\ (polite' /\ ~raced' => Places')
<1> DEFINE l == roomList
           m == roomList'
<1>0. PICK r : r = l[Len(l)]
  OBVIOUS
<1>1. /\ l # <<>> /\ roomNumber[u] = NoRoom /\ roomNumber[v] = NoRoom
      /\ sent' = [sent EXCEPT ![u] = r, ![v] = r]
      /\ m = SubSeq(l, 1, Len(l) - 1)
      /\ UNCHANGED <<array, head, tail, size, adding, worker, members, roomNumber, raced>>
  BY <1>0 DEF SendPair, fifo
<1>2. polite' => polite /\ sent[u] = NoRoom /\ sent[v] = NoRoom
  <2>1. polite' = (polite /\ sent[u] = NoRoom /\ sent[v] = NoRoom)
    BY DEF SendPair
  <2> QED BY <2>1, Zenon
<1>3. /\ l \in Seq(Rooms) /\ sent \in [Users -> Rooms \cup {NoRoom}] /\ NoRoom \notin Rooms
      /\ members \in [Rooms -> SUBSET Users]
  BY DEF PlaceInv, HandoutInv, TypeOK, Rooms, NoRoom
<1>4. /\ Len(l) \in Nat \ {0} /\ DOMAIN l = 1 .. Len(l) /\ r \in Rooms
      /\ \A k \in DOMAIN l : l[k] \in Rooms
  <2> HIDE DEF l
  <2>1. Len(l) \in Nat \ {0} /\ DOMAIN l = 1 .. Len(l)
    BY <1>1, <1>3, EmptySeq
  <2>2. \A k \in 1 .. Len(l) : l[k] \in Rooms
    BY <1>3, ElementOfSeq
  <2> QED BY <1>0, <2>1, <2>2
<1>5. DOMAIN m = 1 .. Len(l) - 1 /\ \A k \in DOMAIN m : m[k] = l[k]
  <2> HIDE DEF l
  <2>0. Len(l) - 1 \in Nat
    BY <1>4
  <2>1. PICK n \in Nat : n = Len(l) - 1
    BY <2>0
  <2>2. 1 \in Int /\ n \in Int /\ \A k \in 1 .. n : l[k] \in Rooms
    BY <1>4, <2>1
  <2> DEFINE s == SubSeq(l, 1, n)
  <2>3. /\ s \in Seq(Rooms) /\ Len(s) = IF 1 <= n THEN n - 1 + 1 ELSE 0
        /\ \A k \in 1 .. n - 1 + 1 : s[k] = l[1 + k - 1]
    BY <2>2, SubSeqProperties
  <2> HIDE DEF s
  <2>4. n - 1 + 1 = n /\ \A k \in 1 .. n : 1 + k - 1 = k
    OBVIOUS
  <2>5. Len(s) = n
    BY <2>3, <2>4
  <2>6. DOMAIN s = 1 .. n
    BY <2>3, <2>5, LenProperties
  <2>7. \A k \in 1 .. n : s[k] = l[k]
    BY <2>3, <2>4
  <2> QED BY <1>1, <2>1, <2>6, <2>7 DEF s
<1>6. UsersInv'
  <2> SUFFICES ASSUME polite' PROVE UsersInv'
    BY DEF UsersInv
  <2>1. /\ \A x \in Users, q \in Rooms : x \in members[q] <=> roomNumber[x] = q
        /\ \A x \in Users : roomNumber[x] = NoRoom \/ sent[x] = NoRoom
    BY <1>2 DEF PlaceInv, UsersInv
  <2>2. \A x \in Users : roomNumber'[x] = NoRoom \/ sent'[x] = NoRoom
    BY <1>1, <1>3, <2>1
  <2> QED BY <1>1, <2>1, <2>2 DEF UsersInv
<1>7. Total' = Total /\ RingInv'
  <2>1. Total' = Total
    BY <1>1 DEF Total, InQueue
  <2> QED BY <1>1, <2>1 DEF PlaceInv, RingInv
<1>8. ASSUME polite', ~raced' PROVE Places'
  <2>1. /\ Queued' = [k \in 1 .. Total' |-> array'[(head' + k - 1) % Capacity]]
        /\ Queued = [k \in 1 .. Total |-> array[(head + k - 1) % Capacity]]
    BY DEF Queued, Total
  <2>2. Queued' = Queued
    BY <1>1, <1>7, <2>1
  <2>3. /\ Distinct(Queued) /\ Distinct(l)
        /\ \A x \in Rooms : InOnePlace(x) /\ AtMostTwo(LentTo(x))
    BY <1>1, <1>2, <1>8 DEF PlaceInv, Places
  <2>4. \A x : InHand(x)' <=> InHand(x)
    BY <1>1 DEF InHand
  <2>5. /\ Len(l) \in DOMAIN l /\ Len(l) \notin DOMAIN m
        /\ \A k \in DOMAIN m : k \in DOMAIN l
        /\ \A k \in DOMAIN l : k = Len(l) \/ k \in DOMAIN m
    BY <1>4, <1>5
  <2>6. Within(r, l) /\ ~Within(r, m)
    BY <1>0, <1>5, <2>3, <2>5 DEF Within, Distinct
  <2>7. \A x : x # r => (Within(x, m) <=> Within(x, l))
    BY <1>0, <1>5, <2>5 DEF Within
  <2>8. Distinct(m)
    BY <1>5, <2>3, <2>5 DEF Distinct
  <2>9. LentTo(r) = {} /\ ~InHand(r) /\ ~Within(r, Queued)
    BY <1>4, <2>3, <2>6 DEF InOnePlace
  <2>10. LentTo(r)' = {u, v}
    <3>1. members[r] = {} /\ \A x \in Users : sent[x] # r
      BY <2>9 DEF LentTo
    <3>2. \A x \in Users : sent'[x] = r <=> x \in {u, v}
      BY <1>1, <1>3, <3>1
    <3> QED BY <1>1, <3>1, <3>2 DEF LentTo
  <2>11. \A x \in Rooms \ {r} : LentTo(x)' = LentTo(x)
    BY <1>1, <1>2, <1>3, <1>8 DEF LentTo
  <2>12. \A x \in Rooms : InOnePlace(x)'
    <3> SUFFICES ASSUME NEW x \in Rooms PROVE InOnePlace(x)'
      OBVIOUS
    <3> HIDE DEF l
    <3>1. CASE x = r
      <4>1. LentTo(r)' # {}
        BY <2>10
      <4> QED BY <2>2, <2>4, <2>6, <2>9, <3>1, <4>1 DEF InOnePlace
    <3>2. CASE x # r
      BY <2>2, <2>3, <2>4, <2>7, <2>11, <3>2 DEF InOnePlace, l
    <3> QED BY <3>1, <3>2
  <2>13. \A x \in Rooms : AtMostTwo(LentTo(x)')
    <3>1. AtMostTwo(LentTo(r)')
      BY <2>10 DEF AtMostTwo
    <3> QED BY <2>3, <2>11, <3>1
  <2>14. Distinct(Queued') /\ Distinct(roomList')
    BY <2>2, <2>3, <2>8
  <2> QED BY <2>12, <2>13, <2>14 DEF Places
<1> QED BY <1>6, <1>7, <1>8

(* At the start every room is once in the queue.                           *)
LEMMA PlaceInit == Init => PlaceInv
<1> SUFFICES ASSUME Init PROVE PlaceInv
  OBVIOUS
<1>1. HandoutInv
  BY InitInv
<1>2. /\ RoomMaxCount \in Nat \ {0} /\ Capacity \in Nat /\ RoomMaxCount < Capacity
      /\ \A r \in Rooms : r \in Nat /\ r + 1 \in 1 .. RoomMaxCount /\ r # NoRoom
  BY HandoutAssumption DEF Rooms, NoRoom
<1>3. /\ head = 0 /\ tail = RoomMaxCount /\ size = RoomMaxCount
      /\ adding.at = "idle" /\ worker.at = "idle" /\ roomList = <<>>
      /\ \A r \in Rooms : array[r] = r /\ members[r] = {}
      /\ \A u \in Users : roomNumber[u] = NoRoom /\ sent[u] = NoRoom
  <2>1. /\ head = 0 /\ tail = RoomMaxCount /\ size = RoomMaxCount
        /\ adding.at = "idle" /\ worker.at = "idle" /\ roomList = <<>>
        /\ members = [r \in Rooms |-> {}]
        /\ array = [c \in Cells |-> IF c \in Rooms THEN c ELSE 0]
        /\ \A u \in Users : roomNumber[u] = NoRoom /\ sent[u] = NoRoom
    BY DEF Init, NotAdding, Waiting
  <2>2. Rooms \subseteq Cells
    BY <1>2 DEF Rooms, Cells
  <2> QED BY <2>1, <2>2
<1>4. Total = RoomMaxCount
  BY <1>2, <1>3 DEF Total, InQueue
<1>5. \A c \in Nat : c < Capacity => c % Capacity = c
  <2> SUFFICES ASSUME NEW c \in Nat, c < Capacity PROVE c % Capacity = c
    OBVIOUS
  <2>1. c < 2 * Capacity
    BY <1>2
  <2> QED BY <2>1, Wrap
<1>6. RingInv
  BY <1>2, <1>3, <1>4, <1>5 DEF RingInv
<1>7. UsersInv
  BY <1>2, <1>3 DEF UsersInv
<1>8. DOMAIN Queued = 1 .. RoomMaxCount /\ \A k \in 1 .. RoomMaxCount : Queued[k] = k - 1
  <2>1. DOMAIN Queued = 1 .. RoomMaxCount
    BY <1>1, <1>4, <1>6, QueuedIs
  <2> SUFFICES ASSUME NEW k \in 1 .. RoomMaxCount PROVE Queued[k] = k - 1
    BY <2>1
  <2> DEFINE c == k - 1
  <2>2. c \in Nat /\ c < Capacity /\ c \in Rooms /\ 0 + k - 1 = c
    BY <1>2 DEF Rooms
  <2>3. Queued[k] = array[(0 + k - 1) % Capacity]
    BY <1>1, <1>3, <1>4, <1>6, QueuedIs
  <2> HIDE DEF c
  <2>4. Queued[k] = c
    BY <1>3, <1>5, <2>2, <2>3
  <2> QED BY <2>4 DEF c
<1>9. Places
  <2>1. Distinct(Queued)
    <3>1. \A k, m \in 1 .. RoomMaxCount : k - 1 = m - 1 => k = m
      BY <1>2
    <3> QED BY <1>8, <3>1 DEF Distinct
  <2>2. DOMAIN roomList = {}
    BY <1>3
  <2>3. \A r \in Rooms : Within(r, Queued)
    <3> SUFFICES ASSUME NEW r \in Rooms PROVE Within(r, Queued)
      OBVIOUS
    <3>1. r + 1 \in 1 .. RoomMaxCount
      BY <1>2
    <3>2. PICK k \in 1 .. RoomMaxCount : k = r + 1
      BY <3>1
    <3>3. k - 1 = r
      BY <1>2, <3>2
    <3>4. Queued[k] = r /\ k \in DOMAIN Queued
      BY <1>8, <3>3
    <3> QED BY <3>4 DEF Within
  <2>4. \A r \in Rooms : LentTo(r) = {} /\ ~InHand(r) /\ ~Within(r, roomList)
    BY <1>2, <1>3, <2>2 DEF LentTo, InHand, Within
  <2>5. \A r \in Rooms : InOnePlace(r) /\ AtMostTwo(LentTo(r))
    BY <2>3, <2>4 DEF InOnePlace, AtMostTwo
  <2>6. Distinct(roomList)
    BY <2>2 DEF Distinct
  <2> QED BY <2>1, <2>5, <2>6 DEF Places
<1> QED BY <1>1, <1>6, <1>7, <1>9 DEF PlaceInv

LEMMA PlaceNext == PlaceInv /\ [Next]_vars => PlaceInv'
<1> SUFFICES ASSUME PlaceInv, [Next]_vars PROVE PlaceInv'
  OBVIOUS
<1>1. HandoutInv'
  BY NextInv DEF PlaceInv
<1> SUFFICES RingInv' /\ UsersInv' /\ (polite' /\ ~raced' => Places')
  BY <1>1 DEF PlaceInv
<1>2. CASE \E u \in Users : LeaveRoom(u) \/ \E r \in Rooms : RequestRoomEnter(u, r)
  BY <1>1, <1>2, LeavePlaces, EnterPlaces
<1>3. CASE EnqueueCounts
  BY <1>1, <1>3, CountPlaces
<1>4. CASE Worker
  BY <1>1, <1>4, CountPlaces, WaitPlaces, TakePlaces, PushPlaces DEF Worker
<1>5. CASE PushMatchingRequest
  BY <1>1, <1>5, WaitPlaces
<1>6. CASE \E u, v \in Users : SendPair(u, v)
  BY <1>1, <1>6, SendPlaces
<1>7. CASE UNCHANGED vars
  BY <1>1, <1>7, WaitPlaces
<1> QED BY <1>2, <1>3, <1>4, <1>5, <1>6, <1>7 DEF Next

(* The queue, the offers and the room's users as they are counted.         *)
LEMMA OccursIs ==
    ASSUME NEW q, Distinct(q), NEW r
    PROVE  Occurs(r, q) = IF Within(r, q) THEN 1 ELSE 0
<1> DEFINE S == {k \in DOMAIN q : q[k] = r}
<1>1. CASE Within(r, q)
  <2>1. PICK k \in DOMAIN q : q[k] = r
    BY <1>1 DEF Within
  <2>2. S = {k}
    BY <2>1 DEF Distinct
  <2>3. Cardinality(S) = 1
    BY <2>2, FS_Singleton
  <2> QED BY <1>1, <2>3 DEF Occurs
<1>2. CASE ~Within(r, q)
  <2>1. S = {}
    BY <1>2 DEF Within
  <2>2. Cardinality(S) = 0
    BY <2>1, FS_EmptySet
  <2> QED BY <1>2, <2>2 DEF Occurs
<1> QED BY <1>1, <1>2

LEMMA TwoAreCounted ==
    ASSUME NEW S, AtMostTwo(S)
    PROVE  Cardinality(S) <= 2
<1>1. \E x, y : S \subseteq {x, y}
  <2>1. CASE S = {}
    BY <2>1
  <2>2. CASE S # {}
    <3>1. PICK x \in S : TRUE
      BY <2>2
    <3>2. CASE S = {x}
      BY <3>2
    <3>3. CASE S # {x}
      <4>1. PICK y \in S : y # x
        BY <3>1, <3>3
      <4>2. \A z \in S : z = x \/ z = y
        BY <3>1, <4>1 DEF AtMostTwo
      <4> QED BY <4>2
    <3> QED BY <3>2, <3>3
  <2> QED BY <2>1, <2>2
<1>2. PICK x, y : S \subseteq {x, y}
  BY <1>1
<1>3. IsFiniteSet({x}) /\ Cardinality({x}) = 1
  BY FS_Singleton
<1>4. IsFiniteSet({x} \cup {y}) /\ Cardinality({x} \cup {y}) <= 2
  BY <1>3, FS_AddElement
<1>5. S \in SUBSET ({x} \cup {y})
  BY <1>2
<1>6. Cardinality(S) <= Cardinality({x} \cup {y}) /\ IsFiniteSet(S)
  BY <1>4, <1>5, FS_Subset
<1>7. Cardinality(S) \in Nat /\ Cardinality({x} \cup {y}) \in Nat
  BY <1>4, <1>6, FS_CardinalityType
<1> QED BY <1>4, <1>6, <1>7

(* No room is handed out twice and none gets lost, as long as no update of *)
(* the count is lost and users go where they are sent.                     *)
THEOREM RoomsAreInOnePlace == Spec => []RoomInOnePlace
<1>1. PlaceInv => RoomInOnePlace
  <2> SUFFICES ASSUME PlaceInv, polite, ~raced, NEW r \in Rooms
               PROVE  /\ Occurs(r, Queued) + Occurs(r, roomList)
                           + (IF worker.at \in {"count", "push"} /\ worker.room = r THEN 1 ELSE 0)
                           + (IF LentTo(r) # {} THEN 1 ELSE 0) = 1
                      /\ Cardinality(LentTo(r)) <= 2
    BY DEF RoomInOnePlace
  <2>1. Distinct(Queued) /\ Distinct(roomList) /\ InOnePlace(r) /\ AtMostTwo(LentTo(r))
    BY DEF PlaceInv, Places
  <2>2. /\ Occurs(r, Queued) = IF Within(r, Queued) THEN 1 ELSE 0
        /\ Occurs(r, roomList) = IF Within(r, roomList) THEN 1 ELSE 0
    BY <2>1, OccursIs
  <2>3. Cardinality(LentTo(r)) <= 2
    BY <2>1, TwoAreCounted
  <2> QED BY <2>1, <2>2, <2>3 DEF InOnePlace, InHand
<1>2. Spec => []PlaceInv
  BY PlaceInit, PlaceNext, PTL DEF Spec
<1> QED BY <1>1, <1>2, PTL
=============================================================================
