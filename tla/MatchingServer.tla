--------------------------- MODULE MatchingServer ---------------------------
(***************************************************************************)
(* The matching server (Matching-Server): the HTTP handlers of             *)
(* MatchingController.cs, which run on many threads, and the two worker    *)
(* threads of MatchingWorker.cs, all over one concurrent dictionary and    *)
(* two concurrent queues without a lock.  Each call on a collection is a   *)
(* step of its own where somebody could come in between, and a handler or  *)
(* a worker may still hold a MatchingData that has left the dictionary.    *)
(*                                                                         *)
(* Nothing serialises the requests of one user: several of them, and a     *)
(* cancellation at any moment, may be under way.  A Redis call may throw,  *)
(* and the workers swallow the exception.  Redis and the Omok servers      *)
(* behind it are external: a list of requests (a counter: its elements     *)
(* are all 1) and a list of rooms, both popped at the end they are pushed  *)
(* to.  MatchWorker.cs waits for an empty room before it takes a request;  *)
(* here a request may be taken at any time or never.                       *)
(***************************************************************************)
EXTENDS Integers, Sequences, FiniteSets

CONSTANTS Users,
          NoUser,       \* the empty hand of a worker
          MaxHandlers,  \* bound: requests of one user at a time
          Bounds        \* bounds, one of which holds for a behaviour: who asks,
                        \* for how many rooms one after the other, and how many
                        \* cancellations, requests that overlap another one of
                        \* their user, and Redis calls that fail there are

ASSUME MatchingAssumption ==
    /\ NoUser \notin Users
    /\ MaxHandlers \in Nat \ {0}
    /\ Bounds \subseteq [askers : SUBSET Users, answers : Nat, cancels : Nat,
                         overlaps : Nat, failures : Nat]

NoRoom == -1

VARIABLES
    data,           \* every MatchingData made for a user, oldest first
    matchingDict,   \* _matchingDict: which of them it holds, 0 for none
    waitingQueue,   \* _waitingQueue
    matchingQueue,  \* _matchingQueue
    handler,        \* where each request is and the MatchingData it holds
    req,            \* RunMatching: where it is and what it holds
    complete,       \* RunMatchingComplete: the same, and the room it popped
    requests,       \* Redis: how many matching requests are in the list
    roomList,       \* Redis: the list of empty rooms
    offers,         \* Omok servers: requests popped, their room not yet pushed
    roomsIssued,    \* Omok servers: rooms handed out so far, 1 .. roomsIssued
    answers,        \* the rooms each user was sent to, oldest first
    pairs,          \* history: the pairs that entered the matching queue
    cancels,        \* history: cancellations so far
    overlaps,       \* history: requests that overlapped another of their user
    failures,       \* history: Redis calls that threw
    bound           \* the bounds of this behaviour

dict   == <<data, matchingDict>>
worker == <<matchingQueue, req, complete>>
redis  == <<requests, roomList>>
omok   == <<offers, roomsIssued>>
past   == <<pairs, cancels, overlaps, failures, bound>>
vars == <<dict, waitingQueue, worker, handler, redis, omok, answers, past>>

Waiting  == "Waiting"
Matching == "Matching"
Complete == "Complete"

(* Mutant: the room number is left at 0, the default. *)
NewDataRoomZero == [state |-> Waiting, room |-> 0]

(* AddUser's fresh MatchingData; the room stands for IP and port as well. *)
NewData == [state |-> Waiting, room |-> NoRoom]

InDict(u)  == matchingDict[u] # 0
Current(u) == data[u][matchingDict[u]]

Handlers == Users \X (1 .. MaxHandlers)
Free     == [at |-> "idle", ref |-> 0]
Idle     == [at |-> "idle", user1 |-> NoUser, user2 |-> NoUser,
             room |-> NoRoom, ref |-> 0]

Init ==
    /\ data = [u \in Users |-> <<>>]
    /\ matchingDict = [u \in Users |-> 0]
    /\ waitingQueue = <<>> /\ matchingQueue = <<>>
    /\ handler = [h \in Handlers |-> Free]
    /\ req = Idle /\ complete = Idle
    /\ requests = 0 /\ roomList = <<>>
    /\ offers = 0 /\ roomsIssued = 0
    /\ answers = [u \in Users |-> <<>>]
    /\ pairs = {} /\ cancels = 0 /\ overlaps = 0 /\ failures = 0
    /\ bound \in Bounds
-----------------------------------------------------------------------------
(* POST /matching.  AddUser looks into the dictionary, queues the user and *)
(* only then adds it to the dictionary.  A request takes the first handler *)
(* of its user that is free.                                               *)
Busy(u) == \E n \in 1 .. MaxHandlers : handler[<<u, n>>].at # "idle"

AddUser(h) ==
    /\ handler[h].at = "idle"
    /\ \A n \in 1 .. MaxHandlers : n < h[2] => handler[<<h[1], n>>].at # "idle"
    /\ h[1] \in bound.askers /\ Len(answers[h[1]]) < bound.answers
    /\ IF Busy(h[1])
       THEN overlaps < bound.overlaps /\ overlaps' = overlaps + 1
       ELSE UNCHANGED overlaps
    /\ handler' = [handler EXCEPT ![h].at = IF InDict(h[1]) THEN "added" ELSE "missing"]
    /\ UNCHANGED <<dict, waitingQueue, worker, redis, omok, answers,
                   pairs, cancels, failures, bound>>

Enqueue(h) ==
    /\ handler[h].at = "missing"
    /\ waitingQueue' = Append(waitingQueue, h[1])
    /\ handler' = [handler EXCEPT ![h].at = "queued"]
    /\ UNCHANGED <<dict, worker, redis, omok, answers, past>>

TryAdd(h) ==
    /\ handler[h].at = "queued"
    /\ IF InDict(h[1])
       THEN UNCHANGED dict
       ELSE /\ data' = [data EXCEPT ![h[1]] = Append(@, NewData)]
            /\ matchingDict' = [matchingDict EXCEPT ![h[1]] = Len(data[h[1]]) + 1]
    /\ handler' = [handler EXCEPT ![h].at = "added"]
    /\ UNCHANGED <<waitingQueue, worker, redis, omok, answers, past>>

(* GetMatchingData: anything but Complete is answered "wait". *)
GetMatchingData(h) ==
    /\ handler[h].at = "added"
    /\ handler' = [handler EXCEPT ![h] =
                     IF InDict(h[1]) /\ Current(h[1]).state = Complete
                     THEN [at |-> "removing", ref |-> matchingDict[h[1]]]
                     ELSE Free]
    /\ UNCHANGED <<dict, waitingQueue, worker, redis, omok, answers, past>>

(* RemoveUserFromMatchingDict removes whatever the dictionary holds for    *)
(* the user by now, and the answer is read from what GetMatchingData       *)
(* found.  When there is nothing to remove, the request is answered with   *)
(* MatchingFailRemoveOnMatchingDict.                                       *)
Answer(h) ==
    /\ handler[h].at = "removing"
    /\ answers' = IF InDict(h[1])
                  THEN [answers EXCEPT ![h[1]] =
                           Append(@, data[h[1]][handler[h].ref].room)]
                  ELSE answers
    /\ matchingDict' = [matchingDict EXCEPT ![h[1]] = 0]
    /\ handler' = [handler EXCEPT ![h] = Free]
    /\ UNCHANGED <<data, waitingQueue, worker, redis, omok, past>>

(* POST /cancelmatching: the user leaves the dictionary but no queue. *)
CancelMatching(u) ==
    /\ InDict(u)
    /\ cancels < bound.cancels
    /\ cancels' = cancels + 1
    /\ matchingDict' = [matchingDict EXCEPT ![u] = 0]
    /\ UNCHANGED <<data, waitingQueue, worker, handler, redis, omok, answers,
                   pairs, overlaps, failures, bound>>
-----------------------------------------------------------------------------
(* RunMatching.  An exception (a user who is not in the dictionary any     *)
(* more, a Redis call) is swallowed and the loop starts over.              *)
DequeueFirst ==
    /\ req.at = "idle"
    /\ Len(waitingQueue) >= 2
    /\ req' = [Idle EXCEPT !.at = "first", !.user1 = Head(waitingQueue)]
    /\ waitingQueue' = Tail(waitingQueue)
    /\ UNCHANGED <<dict, matchingQueue, complete, handler, redis, omok, answers, past>>

DequeueSecond ==
    /\ req.at = "first"
    /\ IF InDict(req.user1)
       THEN /\ req' = [req EXCEPT !.at = "second", !.user2 = Head(waitingQueue)]
            /\ waitingQueue' = Tail(waitingQueue)
       ELSE req' = Idle /\ UNCHANGED waitingQueue
    /\ UNCHANGED <<dict, matchingQueue, complete, handler, redis, omok, answers, past>>

CheckSecond ==
    /\ req.at = "second"
    /\ req' = [req EXCEPT !.at = IF InDict(req.user2) THEN "enqueue1" ELSE "requeue"]
    /\ UNCHANGED <<dict, waitingQueue, matchingQueue, complete, handler, redis,
                   omok, answers, past>>

Requeue ==
    /\ req.at = "requeue"
    /\ waitingQueue' = Append(waitingQueue, req.user1)
    /\ req' = Idle
    /\ UNCHANGED <<dict, matchingQueue, complete, handler, redis, omok, answers, past>>

(* StartMatching, once for each user: into the matching queue, and then    *)
(* the state, which throws if the user has left the dictionary.  Nobody    *)
(* can tell the lookup from the write of the state, so they are one step.  *)
EnqueueMatching(from, user, to) ==
    /\ req.at = from
    /\ matchingQueue' = Append(matchingQueue, user)
    /\ req' = [req EXCEPT !.at = to]
    /\ UNCHANGED <<dict, waitingQueue, complete, handler, redis, omok, answers,
                   cancels, overlaps, failures, bound>>

SetState(u, state) ==
    /\ data' = [data EXCEPT ![u][matchingDict[u]].state = state]
    /\ UNCHANGED matchingDict

SetMatching(from, user, to) ==
    /\ req.at = from
    /\ IF InDict(user)
       THEN SetState(user, Matching) /\ req' = [req EXCEPT !.at = to]
       ELSE req' = Idle /\ UNCHANGED dict
    /\ UNCHANGED <<waitingQueue, matchingQueue, complete, handler, redis, omok,
                   answers, past>>

StartFirst ==
    \/ EnqueueMatching("enqueue1", req.user1, "state1") /\ UNCHANGED pairs
    \/ SetMatching("state1", req.user1, "enqueue2")

EnqueueSecond ==
    /\ EnqueueMatching("enqueue2", req.user2, "state2")
    /\ pairs' = pairs \cup {{req.user1, req.user2}}

StartMatching ==
    \/ StartFirst \/ EnqueueSecond
    \/ SetMatching("state2", req.user2, "push")

(* Mutant: one request for each user. *)
PushRequestForEach ==
    /\ req.at = "push"
    /\ requests' = requests + 2
    /\ req' = Idle
    /\ UNCHANGED <<dict, waitingQueue, matchingQueue, complete, handler, roomList,
                   omok, answers, past>>

(* Mutant: the request is never pushed. *)
PushNothing ==
    /\ req.at = "push"
    /\ req' = Idle
    /\ UNCHANGED <<dict, waitingQueue, matchingQueue, complete, handler, redis,
                   omok, answers, past>>

(* A push that throws leaves the pair in the matching queue without a      *)
(* request; one whose reply alone is lost has pushed it.                   *)
PushMatchingRequestToRedis ==
    /\ req.at = "push"
    /\ requests' = requests + 1
    /\ req' = Idle
    /\ UNCHANGED <<dict, waitingQueue, matchingQueue, complete, handler, roomList,
                   omok, answers, past>>

PushThrows ==
    /\ req.at = "push"
    /\ failures < bound.failures
    /\ failures' = failures + 1
    /\ req' = Idle
    /\ UNCHANGED <<dict, waitingQueue, matchingQueue, complete, handler, redis,
                   omok, answers, pairs, cancels, overlaps, bound>>

RunMatching ==
    \/ DequeueFirst \/ DequeueSecond \/ CheckSecond \/ Requeue
    \/ StartMatching \/ PushMatchingRequestToRedis
-----------------------------------------------------------------------------
(* RunMatchingComplete. *)
LastRoom == roomList[Len(roomList)]

(* Mutant: the room stays in the list. *)
PeekEmptyRoomInfo ==
    /\ complete.at = "idle"
    /\ roomList # <<>>
    /\ complete' = [Idle EXCEPT !.at = "dequeue1", !.room = LastRoom]
    /\ UNCHANGED <<dict, waitingQueue, matchingQueue, req, handler, redis, omok,
                   answers, past>>

TryGetEmptyRoomInfoFromRedis ==
    /\ complete.at = "idle"
    /\ roomList # <<>>
    /\ complete' = [Idle EXCEPT !.at = "dequeue1", !.room = LastRoom]
    /\ roomList' = SubSeq(roomList, 1, Len(roomList) - 1)
    /\ UNCHANGED <<dict, waitingQueue, matchingQueue, req, handler, requests, omok,
                   answers, past>>

(* The pop takes effect and throws: the room is lost. *)
PopThrows ==
    /\ complete.at = "idle"
    /\ roomList # <<>>
    /\ failures < bound.failures
    /\ failures' = failures + 1
    /\ roomList' = SubSeq(roomList, 1, Len(roomList) - 1)
    /\ UNCHANGED <<dict, waitingQueue, worker, handler, requests, omok, answers,
                   pairs, cancels, overlaps, bound>>

(* MakeCompleteMatching takes two users, one after the other; when either  *)
(* is missing, the room, and the other user, are dropped.                  *)
DequeueMatchingFirst ==
    /\ complete.at = "dequeue1"
    /\ IF matchingQueue = <<>>
       THEN complete' = [complete EXCEPT !.at = "dequeue2"] /\ UNCHANGED matchingQueue
       ELSE /\ complete' = [complete EXCEPT !.at = "dequeue2", !.user1 = Head(matchingQueue)]
            /\ matchingQueue' = Tail(matchingQueue)
    /\ UNCHANGED <<dict, waitingQueue, req, handler, redis, omok, answers, past>>

(* Mutant: the second user is only peeked at. *)
PeekMatchingSecond ==
    /\ complete.at = "dequeue2"
    /\ complete' = IF matchingQueue = <<>> \/ complete.user1 = NoUser THEN Idle
                   ELSE [complete EXCEPT !.at = "state1", !.user2 = Head(matchingQueue)]
    /\ UNCHANGED <<dict, waitingQueue, matchingQueue, req, handler, redis, omok,
                   answers, past>>

DequeueMatchingSecond ==
    /\ complete.at = "dequeue2"
    /\ complete' = IF matchingQueue = <<>> \/ complete.user1 = NoUser THEN Idle
                   ELSE [complete EXCEPT !.at = "state1", !.user2 = Head(matchingQueue)]
    /\ matchingQueue' = IF matchingQueue = <<>> THEN <<>> ELSE Tail(matchingQueue)
    /\ UNCHANGED <<dict, waitingQueue, req, handler, redis, omok, answers, past>>

(* UpdateMatchingDict looks the user up for every field: the state first,  *)
(* then where to go, which is written to what the lookup found even if it  *)
(* has left the dictionary since.  A user who is gone makes it throw, and  *)
(* the other user of the pair gets nothing.                                *)
SetComplete(from, user, to) ==
    /\ complete.at = from
    /\ IF InDict(user)
       THEN SetState(user, Complete) /\ complete' = [complete EXCEPT !.at = to]
       ELSE complete' = Idle /\ UNCHANGED dict
    /\ UNCHANGED <<waitingQueue, matchingQueue, req, handler, redis, omok,
                   answers, past>>

FindComplete(from, user, to) ==
    /\ complete.at = from
    /\ complete' = IF InDict(user)
                   THEN [complete EXCEPT !.at = to, !.ref = matchingDict[user]]
                   ELSE Idle
    /\ UNCHANGED <<dict, waitingQueue, matchingQueue, req, handler, redis, omok,
                   answers, past>>

SetRoom(from, user, to) ==
    /\ complete.at = from
    /\ data' = [data EXCEPT ![user][complete.ref].room = complete.room]
    /\ complete' = IF to = "idle" THEN Idle ELSE [complete EXCEPT !.at = to]
    /\ UNCHANGED <<matchingDict, waitingQueue, matchingQueue, req, handler, redis,
                   omok, answers, past>>

UpdateMatchingDict ==
    \/ SetComplete("state1", complete.user1, "find1")
    \/ FindComplete("find1", complete.user1, "room1")
    \/ SetRoom("room1", complete.user1, "state2")
    \/ SetComplete("state2", complete.user2, "find2")
    \/ FindComplete("find2", complete.user2, "room2")
    \/ SetRoom("room2", complete.user2, "idle")

RunMatchingComplete ==
    \/ TryGetEmptyRoomInfoFromRedis
    \/ DequeueMatchingFirst \/ DequeueMatchingSecond
    \/ UpdateMatchingDict
-----------------------------------------------------------------------------
(* An Omok server pops a request and pushes the number of an empty room.   *)
(* Its thread does not catch what a Redis call throws: the process ends    *)
(* and the request is lost.                                                *)
PopRequest ==
    /\ requests > 0
    /\ requests' = requests - 1
    /\ offers' = offers + 1
    /\ UNCHANGED <<dict, waitingQueue, worker, handler, roomList, roomsIssued,
                   answers, past>>

PushRoom ==
    /\ offers > 0
    /\ offers' = offers - 1
    /\ roomsIssued' = roomsIssued + 1
    /\ roomList' = Append(roomList, roomsIssued')
    /\ UNCHANGED <<dict, waitingQueue, worker, handler, requests, answers, past>>

OfferFails ==
    /\ offers > 0
    /\ failures < bound.failures
    /\ failures' = failures + 1
    /\ offers' = offers - 1
    /\ UNCHANGED <<dict, waitingQueue, worker, handler, redis, roomsIssued, answers,
                   pairs, cancels, overlaps, bound>>
-----------------------------------------------------------------------------
HandlerStep(h) ==
    Enqueue(h) \/ TryAdd(h) \/ GetMatchingData(h) \/ Answer(h)

Next ==
    \/ \E h \in Handlers : AddUser(h) \/ HandlerStep(h)
    \/ \E u \in Users : CancelMatching(u)
    \/ RunMatching \/ PushThrows
    \/ RunMatchingComplete \/ PopThrows
    \/ PopRequest \/ PushRoom \/ OfferFails

Spec == Init /\ [][Next]_vars

(* Threads run; a user who is waiting polls every second (README, the      *)
(* matching sequence); an Omok server that took a request pushes a room.   *)
(* Nobody has to ask for a match in the first place, nor to cancel, and no *)
(* Omok server has to take a request.                                      *)
Poll(u) == InDict(u) /\ ~Busy(u) /\ AddUser(<<u, 1>>)

Fairness ==
    /\ \A h \in Handlers : WF_vars(HandlerStep(h))
    /\ \A u \in Users : WF_vars(Poll(u))
    /\ WF_vars(RunMatching)
    /\ WF_vars(RunMatchingComplete)
    /\ WF_vars(PushRoom)

FairSpec == Spec /\ Fairness
-----------------------------------------------------------------------------
(* Type invariant.  A reference names a MatchingData that was made. *)
TypeOK ==
    /\ data \in [Users -> Seq([state : {Waiting, Matching, Complete},
                               room : 1 .. roomsIssued \cup {NoRoom}])]
    /\ matchingDict \in [Users -> Nat]
    /\ \A u \in Users : matchingDict[u] <= Len(data[u])
    /\ waitingQueue \in Seq(Users) /\ matchingQueue \in Seq(Users)
    /\ handler \in [Handlers -> [at : {"idle", "missing", "queued", "added", "removing"},
                                 ref : Nat]]
    /\ \A h \in Handlers :
          handler[h].at = "removing" => handler[h].ref \in DOMAIN data[h[1]]
    /\ req.at \in {"idle", "first", "second", "requeue", "enqueue1", "state1",
                   "enqueue2", "state2", "push"}
    /\ complete.at \in {"idle", "dequeue1", "dequeue2", "state1", "find1", "room1",
                        "state2", "find2", "room2"}
    /\ complete.at = "room1" => complete.ref \in DOMAIN data[complete.user1]
    /\ complete.at = "room2" => complete.ref \in DOMAIN data[complete.user2]
    /\ answers \in [Users -> Seq(1 .. roomsIssued \cup {NoRoom})]

(* The users who are sent to room r, by an answer or by a MatchingData     *)
(* that somebody may still answer from.                                    *)
SentTo(r) ==
    {u \in Users : \/ \E i \in DOMAIN answers[u] : answers[u][i] = r
                   \/ \E i \in DOMAIN data[u] : data[u][i].room = r}

(* However requests of one user or of several, cancellations, failing      *)
(* Redis calls and the two workers interleave, a room that an Omok server  *)
(* offered once goes to two users at the most.                             *)
RoomForTwo == \A r \in 1 .. roomsIssued : Cardinality(SentTo(r)) <= 2

(* The users that rooms and requests under way will take from the matching *)
(* queue, with those of the pair for which the request is still to come.   *)
InHand(at, ats) == IF at \in ats THEN 1 ELSE 0

Due == 2 * (requests + offers + Len(roomList) + InHand(complete.at, {"dequeue1"})
            + InHand(req.at, {"state2", "push"}))
       + InHand(complete.at, {"dequeue2"})
       + InHand(req.at, {"state1", "enqueue2"})

(* Whoever cancels, asks twice or fails, a room that comes back from Redis *)
(* finds two users in the matching queue: the case that the code leaves    *)
(* open ("TryDequeue 실패 처리", MatchingWorker.cs:182), in which room and  *)
(* user are lost, does not come up.                                        *)
RoomsFindPairs == Len(matchingQueue) >= Due

(* Every pair in the queue has one request or room under way, so no pair   *)
(* is left without a room, as long as nobody cancels, no two requests of a *)
(* user overlap and no Redis call fails.                                   *)
Serial  == cancels = 0 /\ overlaps = 0
Orderly == Serial /\ failures = 0

PairsMatchRooms == Orderly => Len(matchingQueue) = Due

(* While nobody cancels and no two requests of one user overlap, whatever  *)
(* Redis does: users sent to one room were matched with each other, nobody *)
(* is sent to a room twice, and nobody is matched with himself.            *)
AnswersWith(r) == {a \in UNION {{u} \X DOMAIN answers[u] : u \in Users} :
                      answers[a[1]][a[2]] = r}

SameRoomSamePair ==
    Serial =>
        /\ \A r \in 1 .. roomsIssued : \A a, b \in AnswersWith(r) :
              a # b => {a[1], b[1]} \in pairs
        /\ \A p \in pairs : Cardinality(p) = 2

(* "매칭을 기다리는 유저가 2명 이상인 경우 redis에 매칭 요청을 추가하는    *)
(* 스레드" (MatchingWorker.cs:86): when two users wait, a request is made  *)
(* for one of them, at the latest after a while.                           *)
IsWaiting(u) == InDict(u) /\ Current(u).state = Waiting

TwoWaitingAreMatched ==
    \A u, v \in Users : u # v =>
        (IsWaiting(u) /\ IsWaiting(v) ~> ~(IsWaiting(u) /\ IsWaiting(v)))

(* "alt 매칭 완료 정보 존재 ... 오목서버 주소 및 방 번호 전달" (README.md, *)
(* the matching sequence): an answer that reports a finished match names a *)
(* room.                                                                   *)
AnswerNamesRoom ==
    \A u \in Users : \A i \in DOMAIN answers[u] : answers[u][i] # NoRoom
=============================================================================
