----------------------------- MODULE MatchProofs -----------------------------
(***************************************************************************)
(* Proofs about module MatchingServer that hold whatever happens, for any  *)
(* number of users, of requests of one user at a time, of cancellations    *)
(* and of Redis calls that fail: no room is for three users, and every     *)
(* room finds a pair.                                                      *)
(***************************************************************************)
EXTENDS MatchingServer, SequenceTheorems, FiniteSetTheorems, TLAPS

AtMostTwo(S) == \A x, y, z \in S : x = y \/ y = z \/ x = z

Issued == 1 .. roomsIssued
Entry  == [state : {Waiting, Matching, Complete}, room : Issued \cup {NoRoom}]

HandType == [at : {"idle", "first", "second", "requeue", "enqueue1", "state1", "enqueue2",
                   "state2", "push", "dequeue1", "dequeue2", "find1", "room1", "find2",
                   "room2"},
             user1 : Users \cup {NoUser}, user2 : Users \cup {NoUser},
             room : Int, ref : Nat]

Updating == {"state1", "find1", "room1", "state2", "find2", "room2"}

HandlerType == [at : {"idle", "missing", "queued", "added", "removing"}, ref : Nat]

(* Types, with what the handlers and the two workers hold. *)
DictOK ==
    /\ data \in [Users -> Seq(Entry)]
    /\ matchingDict \in [Users -> Nat]
    /\ \A u \in Users : matchingDict[u] <= Len(data[u])

HandlersOK ==
    /\ handler \in [Handlers -> HandlerType]
    /\ \A h \in Handlers :
          handler[h].at = "removing" => handler[h].ref \in DOMAIN data[h[1]]

ReqOK ==
    /\ req \in HandType
    /\ req.at \in {"idle", "first", "second", "requeue", "enqueue1", "state1", "enqueue2",
                   "state2", "push"}
    /\ req.at # "idle" => req.user1 \in Users
    /\ req.at \notin {"idle", "first"} => req.user2 \in Users
    /\ req.at = "first" => waitingQueue # <<>>

CompleteOK ==
    /\ complete \in HandType
    /\ complete.at \in {"idle", "dequeue1", "dequeue2"} \cup Updating
    /\ complete.at \in Updating => complete.user1 \in Users /\ complete.user2 \in Users
    /\ complete.at # "idle" => complete.room \in Issued
    /\ complete.at = "room1" => complete.ref \in DOMAIN data[complete.user1]
    /\ complete.at = "room2" => complete.ref \in DOMAIN data[complete.user2]

TypeInv ==
    /\ DictOK /\ HandlersOK
    /\ waitingQueue \in Seq(Users) /\ matchingQueue \in Seq(Users)
    /\ answers \in [Users -> Seq(Issued \cup {NoRoom})]
    /\ roomsIssued \in Nat /\ requests \in Nat /\ offers \in Nat
    /\ roomList \in Seq(Issued)
    /\ ReqOK /\ CompleteOK

Offered(r) == \E k \in DOMAIN roomList : roomList[k] = r
Held(r)    == complete.at # "idle" /\ complete.room = r
Early      == {"dequeue1", "dequeue2", "state1", "find1", "room1"}

(* Nobody has been sent to a room that is in the list of Redis, nor to the *)
(* one in the worker's hand until it writes it down; after its first write *)
(* only the first user of the pair has.                                    *)
RoomInv(r) ==
    /\ Offered(r) => SentTo(r) = {} /\ ~Held(r)
    /\ Held(r) /\ complete.at \in Early => SentTo(r) = {}
    /\ Held(r) => SentTo(r) \subseteq {complete.user1}
    /\ AtMostTwo(SentTo(r))

RoomsInv ==
    /\ \A j, k \in DOMAIN roomList : roomList[j] = roomList[k] => j = k
    /\ \A r \in Issued : RoomInv(r)

(* How many users more than those that are due the matching queue holds.   *)
ReqDue == CASE req.at \in {"state2", "push"} -> 2
            [] req.at \in {"state1", "enqueue2"} -> 1
            [] OTHER -> 0

CompleteDue == CASE complete.at = "dequeue1" -> 2
                 [] complete.at = "dequeue2" -> 1
                 [] OTHER -> 0

Slack == Len(matchingQueue) - 2 * (requests + offers + Len(roomList)) - CompleteDue - ReqDue

DueInv ==
    /\ Slack \in Nat
    /\ complete.at = "dequeue2" => complete.user1 \in Users

MatchInv == TypeInv /\ RoomsInv /\ DueInv

(* The matching queue gains users that nobody will take only when a worker *)
(* misses a user in the dictionary or a Redis call fails.                  *)
Missed == \/ req.at = "state1" /\ ~InDict(req.user1)
          \/ req.at = "state2" /\ ~InDict(req.user2)

SlackStep == \/ Slack' = Slack
             \/ Slack' = Slack + 2 /\ failures' = failures + 1
             \/ Missed /\ Slack' \in {Slack + 1, Slack + 2}
-----------------------------------------------------------------------------
(* Sequences. *)
LEMMA CutFront ==
    ASSUME NEW S, NEW q \in Seq(S), q # <<>>
    PROVE  SubSeq(q, 1, Len(q) - 1) \in Seq(S) /\ Len(SubSeq(q, 1, Len(q) - 1)) = Len(q) - 1
           /\ Len(q) \in DOMAIN q /\ q[Len(q)] \in S
           /\ \A k \in DOMAIN SubSeq(q, 1, Len(q) - 1) :
                 k \in DOMAIN q /\ k # Len(q) /\ SubSeq(q, 1, Len(q) - 1)[k] = q[k]
<1>1. Len(q) \in Nat /\ Len(q) >= 1 /\ Len(q) - 1 \in Nat /\ DOMAIN q = 1 .. Len(q)
  BY EmptySeq, LenProperties
<1>2. \A i \in 1 .. Len(q) - 1 : q[i] \in S
  BY <1>1, ElementOfSeq
<1>3. \A n \in Nat : n = Len(q) - 1 =>
         LET d == SubSeq(q, 1, n)
         IN  /\ d \in Seq(S) /\ Len(d) = n
             /\ \A k \in 1 .. n : d[k] = q[k]
  <2> SUFFICES ASSUME NEW n \in Nat, n = Len(q) - 1
               PROVE  LET d == SubSeq(q, 1, n)
                      IN  /\ d \in Seq(S) /\ Len(d) = n
                          /\ \A k \in 1 .. n : d[k] = q[k]
    OBVIOUS
  <2> DEFINE d == SubSeq(q, 1, n)
  <2>1. 1 \in Int /\ n \in Int
    OBVIOUS
  <2>2. /\ d \in Seq(S)
        /\ Len(d) = IF 1 <= n THEN n - 1 + 1 ELSE 0
        /\ \A i \in 1 .. n - 1 + 1 : d[i] = q[1 + i - 1]
    BY <1>2, <2>1, SubSeqProperties
  <2>3. Len(d) = n
    BY <2>2
  <2>4. ASSUME NEW k \in 1 .. n PROVE d[k] = q[k]
    <3>1. k \in 1 .. n - 1 + 1 /\ 1 + k - 1 = k
      OBVIOUS
    <3>2. d[k] = q[1 + k - 1]
      BY <2>2, <3>1
    <3> QED BY <3>1, <3>2
  <2> QED BY <2>2, <2>3, <2>4
<1> DEFINE f == SubSeq(q, 1, Len(q) - 1)
<1>4. f \in Seq(S) /\ Len(f) = Len(q) - 1 /\ \A k \in 1 .. Len(q) - 1 : f[k] = q[k]
  BY <1>1, <1>3
<1>5. DOMAIN f = 1 .. Len(q) - 1
  BY <1>4, LenProperties
<1> HIDE DEF f
<1>6. \A k \in DOMAIN f : k \in DOMAIN q /\ k # Len(q) /\ f[k] = q[k]
  BY <1>1, <1>4, <1>5
<1>7. q[Len(q)] \in S /\ Len(q) \in DOMAIN q
  <2>1. Len(q) \in 1 .. Len(q)
    BY <1>1
  <2> QED BY <1>1, <2>1, ElementOfSeq
<1> QED BY <1>4, <1>6, <1>7 DEF f

LEMMA DropFirst ==
    ASSUME NEW S, NEW q \in Seq(S), q # <<>>
    PROVE  /\ Head(q) \in S /\ Tail(q) \in Seq(S) /\ (Len(q) >= 2 => Tail(q) # <<>>)
           /\ Len(q) \in Nat /\ Len(q) >= 1 /\ Len(Tail(q)) = Len(q) - 1
<1>1. Head(q) \in S /\ Tail(q) \in Seq(S) /\ Len(Tail(q)) = Len(q) - 1
  BY HeadTailProperties
<1>2. Len(q) \in Nat /\ Len(q) # 0
  BY LenProperties, EmptySeq
<1>3. Tail(q) = <<>> => Len(Tail(q)) = 0
  BY EmptySeq
<1> QED BY <1>1, <1>2, <1>3

(* What the dictionary refers to, and one more entry of one user. *)
LEMMA Entries ==
    ASSUME DictOK, NEW u \in Users
    PROVE  /\ data[u] \in Seq(Entry) /\ Len(data[u]) \in Nat
           /\ DOMAIN data[u] = 1 .. Len(data[u])
           /\ \A i \in DOMAIN data[u] : data[u][i] \in Entry
           /\ InDict(u) => matchingDict[u] \in DOMAIN data[u] /\ Current(u) \in Entry
<1>1. data[u] \in Seq(Entry) /\ matchingDict[u] \in Nat /\ matchingDict[u] <= Len(data[u])
  BY DEF DictOK
<1>2. /\ Len(data[u]) \in Nat /\ DOMAIN data[u] = 1 .. Len(data[u])
      /\ \A i \in DOMAIN data[u] : data[u][i] \in Entry
  BY <1>1, LenProperties, ElementOfSeq
<1> QED BY <1>1, <1>2 DEF InDict, Current

LEMMA WriteEntry ==
    ASSUME DictOK, NEW u \in Users, NEW i \in DOMAIN data[u], NEW e \in Entry,
           data' = [data EXCEPT ![u] = [data[u] EXCEPT ![i] = e]], UNCHANGED roomsIssued
    PROVE  /\ data' \in [Users -> Seq(Entry)] /\ Entry' = Entry
           /\ \A v \in Users : Len(data'[v]) = Len(data[v]) /\ DOMAIN data'[v] = DOMAIN data[v]
           /\ \A v \in Users : \A j \in DOMAIN data[v] :
                 data'[v][j] = IF v = u /\ j = i THEN e ELSE data[v][j]
<1>1. data \in [Users -> Seq(Entry)]
  BY DEF DictOK
<1>2. data[u] \in Seq(Entry) /\ i \in 1 .. Len(data[u])
  BY Entries
<1> DEFINE d == [data[u] EXCEPT ![i] = e]
<1>3. /\ d \in Seq(Entry) /\ Len(d) = Len(data[u])
      /\ \A j \in 1 .. Len(data[u]) : d[j] = IF j = i THEN e ELSE data[u][j]
  BY <1>2, ExceptSeq
<1>4. DOMAIN d = DOMAIN data[u] /\ DOMAIN data[u] = 1 .. Len(data[u])
  BY <1>3, Entries, LenProperties
<1> HIDE DEF d
<1>5. data' = [data EXCEPT ![u] = d]
  BY DEF d
<1>6. Entry' = Entry
  BY DEF Entry, Issued, Waiting, Matching, Complete, NoRoom
<1> QED BY <1>1, <1>3, <1>4, <1>5, <1>6

(* Types are kept by steps that add entries or change them in place.       *)
Grown == \A v \in Users : DOMAIN data[v] \subseteq DOMAIN data'[v]
-----------------------------------------------------------------------------
(* What the steps do to SentTo.  Nobody is sent anywhere: entries come     *)
(* without a room or keep theirs.                                          *)
RoomsKept == \A v \in Users : \A i \in DOMAIN data'[v] :
                \/ data'[v][i].room = NoRoom
                \/ i \in DOMAIN data[v] /\ data'[v][i].room = data[v][i].room

LEMMA NobodySent ==
    ASSUME UNCHANGED answers, RoomsKept, NEW r \in Nat
    PROVE  SentTo(r)' \subseteq SentTo(r)
<1>1. r # NoRoom
  BY DEF NoRoom
<1> QED BY <1>1 DEF SentTo, RoomsKept

(* The worker writes a room into an entry of one user. *)
LEMMA OneSent ==
    ASSUME UNCHANGED answers, NEW u \in Users, NEW c \in Nat, NEW k \in Nat,
           \A v \in Users : DOMAIN data'[v] = DOMAIN data[v],
           \A v \in Users : \A i \in DOMAIN data[v] :
              data'[v][i].room = IF v = u /\ i = k THEN c ELSE data[v][i].room,
           NEW r \in Nat
    PROVE  SentTo(r)' \subseteq SentTo(r) \cup (IF r = c THEN {u} ELSE {})
<1> SUFFICES ASSUME NEW v \in SentTo(r)', ~(r = c /\ v = u) PROVE v \in SentTo(r)
  OBVIOUS
<1>1. v \in Users
  BY DEF SentTo
<1>2. CASE \E i \in DOMAIN answers'[v] : answers'[v][i] = r
  BY <1>1, <1>2 DEF SentTo
<1>3. CASE \E i \in DOMAIN data'[v] : data'[v][i].room = r
  <2>1. PICK i \in DOMAIN data[v] : data'[v][i].room = r
    BY <1>1, <1>3
  <2>2. data[v][i].room = r
    BY <1>1, <2>1
  <2> QED BY <1>1, <2>2 DEF SentTo
<1> QED BY <1>2, <1>3 DEF SentTo

LEMMA FewerUsers ==
    ASSUME NEW S, NEW T, T \subseteq S
    PROVE  /\ S = {} => T = {}
           /\ AtMostTwo(S) => AtMostTwo(T)
           /\ \A u : S \subseteq {u} => T \subseteq {u}
BY DEF AtMostTwo

(* Steps that neither offer a room nor pop one nor write it down. *)
KeepsHand(r) == Held(r)' => /\ Held(r)
                            /\ complete'.at \in Early => complete.at \in Early
                            /\ complete.at \in Early \/ complete'.user1 = complete.user1

LEMMA RoomsStep ==
    ASSUME RoomsInv, UNCHANGED <<roomList, roomsIssued>>,
           \A r \in Issued : KeepsHand(r) /\ SentTo(r)' \subseteq SentTo(r)
    PROVE  RoomsInv'
<1>1. Issued' = Issued /\ \A r : Offered(r)' <=> Offered(r)
  BY DEF Issued, Offered
<1>2. ASSUME NEW r \in Issued PROVE RoomInv(r)'
  <2> DEFINE S == SentTo(r)
             T == SentTo(r)'
  <2>1. RoomInv(r) /\ KeepsHand(r) /\ T \subseteq S
    BY DEF RoomsInv
  <2>2. /\ S = {} => T = {}
        /\ AtMostTwo(S) => AtMostTwo(T)
        /\ \A u : S \subseteq {u} => T \subseteq {u}
    <3> HIDE DEF S, T
    <3> QED BY <2>1, FewerUsers
  <2>3. AtMostTwo(T) = AtMostTwo(SentTo(r))'
    BY DEF AtMostTwo
  <2>4. CASE Held(r)'
    BY <1>1, <2>1, <2>2, <2>3, <2>4 DEF RoomInv, KeepsHand
  <2>5. CASE ~Held(r)'
    BY <1>1, <2>1, <2>2, <2>3, <2>5 DEF RoomInv
  <2> QED BY <2>4, <2>5
<1> QED BY <1>1, <1>2 DEF RoomsInv

LEMMA QuietStep ==
    ASSUME MatchInv, UNCHANGED <<roomList, roomsIssued, answers>>, RoomsKept,
           \A r \in Issued : KeepsHand(r)
    PROVE  RoomsInv'
<1>1. ASSUME NEW r \in Issued PROVE SentTo(r)' \subseteq SentTo(r)
  <2>1. r \in Nat
    BY DEF Issued
  <2> QED BY <2>1, NobodySent
<1> QED BY <1>1, RoomsStep DEF MatchInv

LEMMA SameHand ==
    ASSUME UNCHANGED complete
    PROVE  \A r : KeepsHand(r)
BY DEF KeepsHand, Held
-----------------------------------------------------------------------------
(* The ledger. *)
LEMMA Numbers ==
    ASSUME TypeInv
    PROVE  /\ Len(matchingQueue) \in Nat /\ Len(roomList) \in Nat
           /\ requests \in Nat /\ offers \in Nat
BY LenProperties DEF TypeInv

LEMMA DueNumbers ==
    /\ ReqDue \in Nat /\ CompleteDue \in Nat
    /\ ReqDue' \in Nat /\ CompleteDue' \in Nat
BY DEF ReqDue, CompleteDue

(* How steps of the first worker and of the second change the slack.       *)
LEMMA RequestSlack ==
    ASSUME TypeInv, UNCHANGED <<complete, roomList, offers>>, requests' \in Nat,
           Len(matchingQueue') \in Nat
    PROVE  /\ Slack \in Int
           /\ Slack' = Slack + (Len(matchingQueue') - Len(matchingQueue))
                       - 2 * (requests' - requests) - (ReqDue' - ReqDue)
<1>1. Len(matchingQueue) \in Nat /\ Len(roomList) \in Nat /\ requests \in Nat /\ offers \in Nat
  BY Numbers
<1>2. CompleteDue' = CompleteDue /\ Len(roomList') = Len(roomList) /\ offers' = offers
  BY DEF CompleteDue
<1>3. /\ Slack = Len(matchingQueue) - 2 * (requests + offers + Len(roomList)) - CompleteDue - ReqDue
      /\ Slack' = Len(matchingQueue') - 2 * (requests' + offers' + Len(roomList')) - CompleteDue' - ReqDue'
  BY DEF Slack
<1>4. PICK q, q1, r, r1, o, l, c, d, d1 \in Nat :
         /\ q = Len(matchingQueue) /\ q1 = Len(matchingQueue') /\ r = requests /\ r1 = requests'
         /\ o = offers /\ l = Len(roomList) /\ c = CompleteDue /\ d = ReqDue /\ d1 = ReqDue'
  BY <1>1, DueNumbers
<1>5. Slack = q - 2 * (r + o + l) - c - d /\ Slack' = q1 - 2 * (r1 + o + l) - c - d1
  BY <1>2, <1>3, <1>4
<1>6. q1 - 2 * (r1 + o + l) - c - d1
         = (q - 2 * (r + o + l) - c - d) + (q1 - q) - 2 * (r1 - r) - (d1 - d)
  OBVIOUS
<1> QED BY <1>4, <1>5, <1>6

LEMMA CompleteSlack ==
    ASSUME TypeInv, UNCHANGED <<req, requests, offers>>,
           Len(matchingQueue') \in Nat, Len(roomList') \in Nat
    PROVE  /\ Slack \in Int
           /\ Slack' = Slack + (Len(matchingQueue') - Len(matchingQueue))
                       - 2 * (Len(roomList') - Len(roomList)) - (CompleteDue' - CompleteDue)
<1>1. Len(matchingQueue) \in Nat /\ Len(roomList) \in Nat /\ requests \in Nat /\ offers \in Nat
  BY Numbers
<1>2. ReqDue' = ReqDue
  BY DEF ReqDue
<1> QED BY <1>1, <1>2, DueNumbers DEF Slack

LEMMA DueStep ==
    ASSUME MatchInv, SlackStep, complete'.at = "dequeue2" => complete'.user1 \in Users
    PROVE  DueInv'
BY DEF MatchInv, DueInv, SlackStep
-----------------------------------------------------------------------------
(* The HTTP handlers. *)
LEMMA HandlerTypes ==
    ASSUME HandlersOK, NEW h \in Handlers, NEW f \in HandlerType, Grown,
           f.at = "removing" => f.ref \in DOMAIN data'[h[1]],
           handler' = [handler EXCEPT ![h] = f]
    PROVE  HandlersOK'
<1>1. ASSUME NEW g \in Handlers, handler'[g].at = "removing"
      PROVE  handler'[g].ref \in DOMAIN data'[g[1]]
  <2>1. g[1] \in Users
    BY DEF Handlers
  <2> QED BY <1>1, <2>1 DEF HandlersOK, Grown
<1> QED BY <1>1 DEF HandlersOK

LEMMA HandlerQuiet ==
    ASSUME MatchInv, UNCHANGED <<worker, redis, omok>>, Grown, DictOK', HandlersOK',
           waitingQueue' \in Seq(Users), waitingQueue # <<>> => waitingQueue' # <<>>,
           answers' \in [Users -> Seq(Issued \cup {NoRoom})],
           \A r \in Issued : SentTo(r)' \subseteq SentTo(r)
    PROVE  MatchInv' /\ Slack' = Slack
<1>1. /\ TypeInv
      /\ UNCHANGED <<matchingQueue, req, complete, requests, roomList, offers, roomsIssued>>
  BY DEF MatchInv, worker, redis, omok
<1>2. ReqOK'
  BY <1>1 DEF TypeInv, ReqOK, HandType
<1>3. CompleteOK'
  <2>1. complete.at \in Updating => complete.user1 \in Users /\ complete.user2 \in Users
    BY <1>1 DEF TypeInv, CompleteOK
  <2>2. /\ complete.at = "room1" => complete.ref \in DOMAIN data'[complete.user1]
        /\ complete.at = "room2" => complete.ref \in DOMAIN data'[complete.user2]
    BY <1>1, <2>1 DEF TypeInv, CompleteOK, Grown, Updating
  <2> QED BY <1>1, <2>2 DEF TypeInv, CompleteOK, HandType, Issued
<1>4. TypeInv'
  BY <1>1, <1>2, <1>3 DEF TypeInv, Issued
<1>5. RoomsInv'
  BY <1>1, SameHand, RoomsStep DEF MatchInv
<1>6. Slack' = Slack
  BY <1>1 DEF Slack, CompleteDue, ReqDue, worker
<1> QED BY <1>1, <1>4, <1>5, <1>6 DEF MatchInv, DueInv

LEMMA AddUserInv ==
    ASSUME MatchInv, NEW h \in Handlers, AddUser(h)
    PROVE  MatchInv' /\ Slack' = Slack
<1>1. /\ DictOK /\ HandlersOK /\ handler[h] \in HandlerType
      /\ UNCHANGED <<data, matchingDict, waitingQueue, worker, redis, omok, answers>>
  BY DEF MatchInv, TypeInv, HandlersOK, AddUser, dict
<1> DEFINE f == [handler[h] EXCEPT !.at = IF InDict(h[1]) THEN "added" ELSE "missing"]
<1>2. f \in HandlerType /\ f.at # "removing" /\ handler' = [handler EXCEPT ![h] = f]
  BY <1>1 DEF AddUser, HandlerType
<1> HIDE DEF f
<1>3. Grown /\ \A r \in Issued : SentTo(r)' \subseteq SentTo(r)
  BY <1>1 DEF Grown, SentTo
<1>4. HandlersOK'
  BY <1>1, <1>2, <1>3, HandlerTypes
<1>5. DictOK'
  BY <1>1 DEF DictOK, Entry, Issued, omok
<1> QED BY <1>1, <1>3, <1>4, <1>5, HandlerQuiet DEF MatchInv, TypeInv

LEMMA EnqueueInv ==
    ASSUME MatchInv, NEW h \in Handlers, Enqueue(h)
    PROVE  MatchInv' /\ Slack' = Slack
<1>1. /\ DictOK /\ HandlersOK /\ handler[h] \in HandlerType /\ h[1] \in Users
      /\ waitingQueue \in Seq(Users) /\ waitingQueue' = Append(waitingQueue, h[1])
      /\ UNCHANGED <<data, matchingDict, worker, redis, omok, answers>>
  BY DEF MatchInv, TypeInv, HandlersOK, Enqueue, dict, Handlers
<1>2. waitingQueue' \in Seq(Users) /\ waitingQueue' # <<>>
  BY <1>1, AppendProperties
<1> DEFINE f == [handler[h] EXCEPT !.at = "queued"]
<1>3. f \in HandlerType /\ f.at # "removing" /\ handler' = [handler EXCEPT ![h] = f]
  BY <1>1 DEF Enqueue, HandlerType
<1> HIDE DEF f
<1>4. Grown /\ \A r \in Issued : SentTo(r)' \subseteq SentTo(r)
  BY <1>1 DEF Grown, SentTo
<1>5. HandlersOK'
  BY <1>1, <1>3, <1>4, HandlerTypes
<1>6. DictOK'
  BY <1>1 DEF DictOK, Entry, Issued, omok
<1> QED BY <1>1, <1>2, <1>4, <1>5, <1>6, HandlerQuiet DEF MatchInv, TypeInv

(* What TryAdd does to the dictionary. *)
LEMMA Added ==
    ASSUME DictOK, NEW u \in Users, ~InDict(u), UNCHANGED roomsIssued,
           data' = [data EXCEPT ![u] = Append(@, NewData)],
           matchingDict' = [matchingDict EXCEPT ![u] = Len(data[u]) + 1]
    PROVE  /\ DictOK' /\ Grown
           /\ \A v \in Users : \A i \in DOMAIN data'[v] :
                 IF v = u /\ i = Len(data[u]) + 1 THEN data'[v][i] = NewData
                 ELSE i \in DOMAIN data[v] /\ data'[v][i] = data[v][i]
<1>1. NewData \in Entry /\ Entry' = Entry
  BY DEF NewData, Entry, Issued, NoRoom, Waiting, Matching, Complete
<1>2. /\ data[u] \in Seq(Entry) /\ Len(data[u]) \in Nat
      /\ DOMAIN data[u] = 1 .. Len(data[u])
  BY Entries
<1> DEFINE d == Append(data[u], NewData)
<1>3. /\ d \in Seq(Entry) /\ Len(d) = Len(data[u]) + 1
      /\ \A i \in 1 .. Len(data[u]) : d[i] = data[u][i]
      /\ d[Len(data[u]) + 1] = NewData
  BY <1>1, <1>2, AppendProperties
<1>4. DOMAIN d = 1 .. Len(data[u]) + 1
  BY <1>3, LenProperties
<1>5. data' = [data EXCEPT ![u] = d]
  OBVIOUS
<1> HIDE DEF d
<1>6. DictOK'
  BY <1>1, <1>2, <1>3, <1>5 DEF DictOK
<1>7. Grown
  BY <1>2, <1>4, <1>5 DEF DictOK, Grown
<1>8. ASSUME NEW v \in Users, NEW i \in DOMAIN data'[v]
      PROVE  IF v = u /\ i = Len(data[u]) + 1 THEN data'[v][i] = NewData
             ELSE i \in DOMAIN data[v] /\ data'[v][i] = data[v][i]
  <2>1. CASE v = u
    <3>1. data'[v] = d /\ i \in 1 .. Len(data[u]) + 1
      BY <1>4, <1>5, <2>1 DEF DictOK
    <3> QED BY <1>2, <1>3, <2>1, <3>1
  <2>2. CASE v # u
    BY <1>5, <2>2 DEF DictOK
  <2> QED BY <2>1, <2>2
<1> QED BY <1>6, <1>7, <1>8

LEMMA TryAddInv ==
    ASSUME MatchInv, NEW h \in Handlers, TryAdd(h)
    PROVE  MatchInv' /\ Slack' = Slack
<1>1. /\ DictOK /\ HandlersOK /\ handler[h] \in HandlerType /\ h[1] \in Users
      /\ UNCHANGED <<waitingQueue, worker, redis, omok, answers, roomsIssued>>
  BY DEF MatchInv, TypeInv, HandlersOK, TryAdd, Handlers, omok
<1>2. DictOK' /\ Grown /\ RoomsKept
  <2>1. CASE InDict(h[1])
    <3>1. UNCHANGED <<data, matchingDict>>
      BY <2>1 DEF TryAdd, dict
    <3> QED BY <1>1, <3>1 DEF DictOK, Entry, Issued, Grown, RoomsKept
  <2>2. CASE ~InDict(h[1])
    <3>1. PICK u \in Users : u = h[1]
      BY <1>1
    <3>2. /\ data' = [data EXCEPT ![u] = Append(@, NewData)]
          /\ matchingDict' = [matchingDict EXCEPT ![u] = Len(data[u]) + 1]
      BY <2>2, <3>1 DEF TryAdd
    <3>3. NewData.room = NoRoom
      BY DEF NewData
    <3>4. /\ DictOK' /\ Grown
          /\ \A v \in Users : \A i \in DOMAIN data'[v] :
                IF v = u /\ i = Len(data[u]) + 1 THEN data'[v][i] = NewData
                ELSE i \in DOMAIN data[v] /\ data'[v][i] = data[v][i]
      BY <1>1, <2>2, <3>1, <3>2, Added
    <3> QED BY <3>3, <3>4 DEF RoomsKept
  <2> QED BY <2>1, <2>2
<1> DEFINE f == [handler[h] EXCEPT !.at = "added"]
<1>3. f \in HandlerType /\ f.at # "removing" /\ handler' = [handler EXCEPT ![h] = f]
  BY <1>1 DEF TryAdd, HandlerType
<1> HIDE DEF f
<1>4. HandlersOK'
  BY <1>1, <1>2, <1>3, HandlerTypes
<1>5. ASSUME NEW r \in Issued PROVE SentTo(r)' \subseteq SentTo(r)
  <2>1. r \in Nat
    BY DEF Issued
  <2> QED BY <1>1, <1>2, <2>1, NobodySent
<1> QED BY <1>1, <1>2, <1>4, <1>5, HandlerQuiet DEF MatchInv, TypeInv

LEMMA GetMatchingDataInv ==
    ASSUME MatchInv, NEW h \in Handlers, GetMatchingData(h)
    PROVE  MatchInv' /\ Slack' = Slack
<1>1. /\ DictOK /\ HandlersOK /\ h[1] \in Users
      /\ UNCHANGED <<data, matchingDict, waitingQueue, worker, redis, omok, answers>>
  BY DEF MatchInv, TypeInv, HandlersOK, GetMatchingData, dict, Handlers
<1> DEFINE f == IF InDict(h[1]) /\ Current(h[1]).state = Complete
                THEN [at |-> "removing", ref |-> matchingDict[h[1]]] ELSE Free
<1>2. /\ f \in HandlerType /\ handler' = [handler EXCEPT ![h] = f]
      /\ f.at = "removing" => f.ref \in DOMAIN data[h[1]]
  <2>1. matchingDict[h[1]] \in Nat /\ (InDict(h[1]) => matchingDict[h[1]] \in DOMAIN data[h[1]])
    BY <1>1, Entries DEF DictOK
  <2> QED BY <2>1 DEF GetMatchingData, HandlerType, Free
<1> HIDE DEF f
<1>3. Grown /\ \A r \in Issued : SentTo(r)' \subseteq SentTo(r)
  BY <1>1 DEF Grown, SentTo
<1>4. HandlersOK'
  BY <1>1, <1>2, <1>3, HandlerTypes
<1>5. DictOK'
  BY <1>1 DEF DictOK, Entry, Issued, omok
<1> QED BY <1>1, <1>3, <1>4, <1>5, HandlerQuiet DEF MatchInv, TypeInv

LEMMA CancelInv ==
    ASSUME MatchInv, NEW u \in Users, CancelMatching(u)
    PROVE  MatchInv' /\ Slack' = Slack
<1>1. /\ DictOK /\ HandlersOK
      /\ UNCHANGED <<data, handler, waitingQueue, worker, redis, omok, answers>>
      /\ matchingDict' = [matchingDict EXCEPT ![u] = 0]
  BY DEF MatchInv, TypeInv, CancelMatching
<1>2. Grown /\ \A r \in Issued : SentTo(r)' \subseteq SentTo(r)
  BY <1>1 DEF Grown, SentTo
<1>3. HandlersOK'
  BY <1>1 DEF HandlersOK
<1>4. DictOK'
  <2>1. \A v \in Users : Len(data[v]) \in Nat
    BY <1>1, Entries
  <2>2. Entry' = Entry
    BY <1>1 DEF Entry, Issued, omok
  <2>3. matchingDict' \in [Users -> Nat] /\ \A v \in Users : matchingDict'[v] <= Len(data[v])
    BY <1>1, <2>1 DEF DictOK
  <2> QED BY <1>1, <2>2, <2>3 DEF DictOK
<1> QED BY <1>1, <1>2, <1>3, <1>4, HandlerQuiet DEF MatchInv, TypeInv

LEMMA AnswerInv ==
    ASSUME MatchInv, NEW h \in Handlers, Answer(h)
    PROVE  MatchInv' /\ Slack' = Slack
<1>1. PICK u : u = h[1]
  OBVIOUS
<1>2. PICK k : k = handler[h].ref
  OBVIOUS
<1>3. /\ u \in Users /\ DictOK /\ HandlersOK /\ handler[h] \in HandlerType
      /\ k \in DOMAIN data[u]
      /\ answers \in [Users -> Seq(Issued \cup {NoRoom})]
      /\ UNCHANGED <<data, waitingQueue, worker, redis, omok>>
      /\ matchingDict' = [matchingDict EXCEPT ![u] = 0]
      /\ handler' = [handler EXCEPT ![h] = Free]
      /\ answers' = IF InDict(u) THEN [answers EXCEPT ![u] = Append(@, data[u][k].room)]
                    ELSE answers
  BY <1>1, <1>2 DEF MatchInv, TypeInv, HandlersOK, Answer, Handlers
<1>4. data[u][k] \in Entry /\ data[u][k].room \in Issued \cup {NoRoom}
  BY <1>3, Entries DEF Entry
<1>5. Free \in HandlerType /\ Free.at # "removing" /\ Grown
  BY <1>3 DEF Free, HandlerType, Grown
<1>6. HandlersOK'
  BY <1>3, <1>5, HandlerTypes
<1>7. DictOK'
  <2>1. \A v \in Users : Len(data[v]) \in Nat
    BY <1>3, Entries
  <2>2. Entry' = Entry
    BY <1>3 DEF Entry, Issued, omok
  <2>3. matchingDict' \in [Users -> Nat] /\ \A v \in Users : matchingDict'[v] <= Len(data[v])
    BY <1>3, <2>1 DEF DictOK
  <2> QED BY <1>3, <2>2, <2>3 DEF DictOK
<1> DEFINE room == data[u][k].room
           w == Append(answers[u], room)
           n == Len(answers[u]) + 1
<1>8. /\ w \in Seq(Issued \cup {NoRoom}) /\ DOMAIN w = 1 .. n /\ n - 1 \in Nat
      /\ DOMAIN answers[u] = 1 .. n - 1
      /\ \A i \in 1 .. n - 1 : w[i] = answers[u][i]
      /\ w[n] = room
  <2>1. answers[u] \in Seq(Issued \cup {NoRoom})
    BY <1>3
  <2>2. Len(answers[u]) \in Nat /\ DOMAIN answers[u] = 1 .. Len(answers[u])
    BY <2>1, LenProperties
  <2>3. /\ w \in Seq(Issued \cup {NoRoom}) /\ Len(w) = n
        /\ \A i \in 1 .. Len(answers[u]) : w[i] = answers[u][i]
        /\ w[n] = room
    BY <1>4, <2>1, AppendProperties
  <2>4. DOMAIN w = 1 .. n
    BY <2>3, LenProperties
  <2> QED BY <2>2, <2>3, <2>4
<1>9. answers' = answers \/ answers' = [answers EXCEPT ![u] = w]
  BY <1>3
<1>10. ASSUME NEW r \in Issued PROVE SentTo(r)' \subseteq SentTo(r)
  <2> SUFFICES ASSUME NEW v \in SentTo(r)' PROVE v \in SentTo(r)
    OBVIOUS
  <2>1. v \in Users
    BY DEF SentTo
  <2>2. CASE \E i \in DOMAIN data'[v] : data'[v][i].room = r
    BY <1>3, <2>1, <2>2 DEF SentTo
  <2>3. CASE \E i \in DOMAIN answers'[v] : answers'[v][i] = r
    <3>1. PICK i \in DOMAIN answers'[v] : answers'[v][i] = r
      BY <2>3
    <3>2. CASE answers'[v] = answers[v]
      BY <2>1, <3>1, <3>2 DEF SentTo
    <3>3. CASE answers'[v] # answers[v]
      <4>1. v = u /\ answers'[v] = w
        BY <1>3, <1>9, <2>1, <3>3
      <4>2. i \in 1 .. n /\ w[i] = r
        BY <1>8, <3>1, <4>1
      <4>3. CASE i = n
        <5>1. data[u][k].room = r
          BY <1>8, <4>2, <4>3
        <5> QED BY <1>3, <4>1, <5>1 DEF SentTo
      <4>4. CASE i # n
        <5>1. i \in 1 .. n - 1
          BY <1>8, <4>2, <4>4
        <5>2. i \in DOMAIN answers[u] /\ answers[u][i] = r
          BY <1>8, <4>2, <5>1
        <5> QED BY <1>3, <4>1, <5>2 DEF SentTo
      <4> QED BY <4>3, <4>4
    <3> QED BY <3>2, <3>3
  <2> QED BY <2>2, <2>3 DEF SentTo
<1> HIDE DEF w
<1>11. answers' \in [Users -> Seq(Issued \cup {NoRoom})]
  BY <1>3, <1>8, <1>9
<1> QED BY <1>3, <1>5, <1>6, <1>7, <1>10, <1>11, HandlerQuiet DEF MatchInv, TypeInv
-----------------------------------------------------------------------------
(* The worker that makes pairs. *)

(* A worker writes the state of what the dictionary holds for a user. *)
LEMMA StateWritten ==
    ASSUME DictOK, NEW u \in Users, InDict(u), NEW s \in {Waiting, Matching, Complete},
           SetState(u, s), UNCHANGED roomsIssued
    PROVE  /\ DictOK' /\ RoomsKept
           /\ \A v \in Users : DOMAIN data'[v] = DOMAIN data[v]
           /\ UNCHANGED matchingDict
<1> DEFINE i == matchingDict[u]
<1>1. PICK e : e = [data[u][i] EXCEPT !.state = s]
  OBVIOUS
<1>2. PICK j : j = i
  OBVIOUS
<1>3. j \in DOMAIN data[u] /\ data[u][j] \in Entry
  BY <1>2, Entries DEF Current
<1>4. e \in Entry /\ e.room = data[u][j].room
  BY <1>1, <1>2, <1>3 DEF Entry
<1>5. data' = [data EXCEPT ![u] = [data[u] EXCEPT ![j] = e]] /\ UNCHANGED matchingDict
  BY <1>1, <1>2 DEF SetState
<1>6. /\ data' \in [Users -> Seq(Entry)] /\ Entry' = Entry
      /\ \A v \in Users : Len(data'[v]) = Len(data[v]) /\ DOMAIN data'[v] = DOMAIN data[v]
      /\ \A v \in Users : \A l \in DOMAIN data[v] :
            data'[v][l] = IF v = u /\ l = j THEN e ELSE data[v][l]
  BY <1>3, <1>4, <1>5, WriteEntry
<1>7. DictOK'
  BY <1>5, <1>6 DEF DictOK
<1>8. RoomsKept
  BY <1>4, <1>6 DEF RoomsKept
<1> QED BY <1>5, <1>6, <1>7, <1>8

LEMMA WorkerTypes ==
    ASSUME TypeInv, UNCHANGED <<handler, answers, roomsIssued>>, DictOK',
           \A v \in Users : DOMAIN data'[v] = DOMAIN data[v],
           waitingQueue' \in Seq(Users), matchingQueue' \in Seq(Users),
           requests' \in Nat, offers' \in Nat, roomList' \in Seq(Issued),
           ReqOK', CompleteOK'
    PROVE  TypeInv'
<1>1. HandlersOK'
  BY DEF TypeInv, HandlersOK, Handlers
<1> QED BY <1>1 DEF TypeInv, Issued

(* The other worker stands still. *)
LEMMA RunMatchingTypes ==
    ASSUME MatchInv, UNCHANGED <<handler, complete, roomList, omok, answers>>, DictOK',
           \A v \in Users : DOMAIN data'[v] = DOMAIN data[v], RoomsKept,
           waitingQueue' \in Seq(Users), matchingQueue' \in Seq(Users),
           requests' \in Nat, ReqOK', SlackStep
    PROVE  MatchInv'
<1>1. TypeInv /\ roomList \in Seq(Issued) /\ offers' \in Nat
      /\ UNCHANGED <<roomsIssued, roomList, complete, answers>>
  BY DEF MatchInv, TypeInv, omok
<1>2. CompleteOK'
  BY <1>1 DEF TypeInv, CompleteOK, Updating, HandType, Issued
<1>3. TypeInv'
  BY <1>1, <1>2, WorkerTypes
<1>4. RoomsInv'
  BY <1>1, SameHand, QuietStep
<1>5. DueInv'
  BY <1>1, DueStep DEF MatchInv, DueInv
<1> QED BY <1>3, <1>4, <1>5 DEF MatchInv

LEMMA DictKept ==
    ASSUME DictOK, UNCHANGED <<dict, roomsIssued>>
    PROVE  DictOK' /\ RoomsKept /\ \A v \in Users : DOMAIN data'[v] = DOMAIN data[v]
BY DEF DictOK, Entry, Issued, RoomsKept, dict

LEMMA TakeFirst ==
    ASSUME MatchInv, DequeueFirst
    PROVE  MatchInv' /\ Slack' = Slack
<1>1. /\ TypeInv /\ DictOK /\ req.at = "idle"
      /\ waitingQueue \in Seq(Users) /\ Len(waitingQueue) >= 2
      /\ matchingQueue \in Seq(Users) /\ requests \in Nat
      /\ UNCHANGED <<dict, matchingQueue, complete, handler, redis, omok, answers, roomsIssued,
                     requests, roomList, offers>>
      /\ waitingQueue' = Tail(waitingQueue)
  BY DEF MatchInv, TypeInv, DequeueFirst, redis, omok
<1>2. /\ Head(waitingQueue) \in Users /\ Tail(waitingQueue) \in Seq(Users)
      /\ Tail(waitingQueue) # <<>>
  <2>1. waitingQueue # <<>>
    BY <1>1, EmptySeq
  <2> QED BY <1>1, <2>1, DropFirst
<1>3. /\ req' = [Idle EXCEPT !.at = "first", !.user1 = Head(waitingQueue)]
  BY DEF DequeueFirst
<1>4. ReqOK' /\ req'.at = "first"
  <2>1. req' = [at |-> "first", user1 |-> Head(waitingQueue), user2 |-> NoUser,
                room |-> NoRoom, ref |-> 0]
    BY <1>3 DEF Idle
  <2> QED BY <1>1, <1>2, <2>1 DEF ReqOK, HandType, NoRoom
<1>5. Slack' = Slack
  <2>1. ReqDue' = 0 /\ ReqDue = 0
    BY <1>1, <1>4 DEF ReqDue
  <2>2. /\ Len(matchingQueue) \in Nat /\ requests \in Nat
        /\ Len(matchingQueue') = Len(matchingQueue) /\ requests' = requests
    BY <1>1, Numbers
  <2>3. /\ Slack \in Int
        /\ Slack' = Slack + (Len(matchingQueue') - Len(matchingQueue))
                    - 2 * (requests' - requests) - (ReqDue' - ReqDue)
    BY <1>1, <2>2, RequestSlack
  <2> QED BY <2>1, <2>2, <2>3
<1> QED BY <1>1, <1>2, <1>4, <1>5, DictKept, RunMatchingTypes DEF SlackStep

LEMMA TakeSecond ==
    ASSUME MatchInv, DequeueSecond
    PROVE  MatchInv' /\ Slack' = Slack
<1>1. /\ TypeInv /\ DictOK /\ ReqOK /\ req.at = "first" /\ waitingQueue # <<>>
      /\ req \in HandType /\ req.user1 \in Users
      /\ waitingQueue \in Seq(Users) /\ matchingQueue \in Seq(Users) /\ requests \in Nat
      /\ UNCHANGED <<dict, matchingQueue, complete, handler, redis, omok, answers, roomsIssued,
                     requests, roomList, offers>>
  BY DEF MatchInv, TypeInv, ReqOK, DequeueSecond, redis, omok
<1>2. Head(waitingQueue) \in Users /\ Tail(waitingQueue) \in Seq(Users)
  BY <1>1, DropFirst
<1>3. ReqOK' /\ req'.at \in {"second", "idle"} /\ waitingQueue' \in Seq(Users)
  <2>1. CASE InDict(req.user1)
    <3>1. /\ req' = [req EXCEPT !.at = "second", !.user2 = Head(waitingQueue)]
          /\ waitingQueue' = Tail(waitingQueue)
      BY <2>1 DEF DequeueSecond
    <3> QED BY <1>1, <1>2, <3>1 DEF ReqOK, HandType
  <2>2. CASE ~InDict(req.user1)
    <3>1. req' = Idle /\ waitingQueue' = waitingQueue
      BY <2>2 DEF DequeueSecond
    <3> QED BY <1>1, <3>1 DEF ReqOK, HandType, Idle, NoRoom
  <2> QED BY <2>1, <2>2
<1>4. Slack' = Slack
  <2>1. ReqDue' = 0 /\ ReqDue = 0
    BY <1>1, <1>3 DEF ReqDue
  <2>2. /\ Len(matchingQueue) \in Nat /\ requests \in Nat
        /\ Len(matchingQueue') = Len(matchingQueue) /\ requests' = requests
    BY <1>1, Numbers
  <2>3. /\ Slack \in Int
        /\ Slack' = Slack + (Len(matchingQueue') - Len(matchingQueue))
                    - 2 * (requests' - requests) - (ReqDue' - ReqDue)
    BY <1>1, <2>2, RequestSlack
  <2> QED BY <2>1, <2>2, <2>3
<1> QED BY <1>1, <1>3, <1>4, DictKept, RunMatchingTypes DEF SlackStep

LEMMA CheckSecondInv ==
    ASSUME MatchInv, CheckSecond
    PROVE  MatchInv' /\ Slack' = Slack
<1>1. /\ TypeInv /\ DictOK /\ ReqOK /\ req.at = "second"
      /\ waitingQueue \in Seq(Users) /\ matchingQueue \in Seq(Users) /\ requests \in Nat
      /\ UNCHANGED <<dict, waitingQueue, matchingQueue, complete, handler, redis, omok, answers,
                     roomsIssued, requests, roomList, offers>>
  BY DEF MatchInv, TypeInv, CheckSecond, redis, omok
<1>2. ReqOK' /\ req'.at \in {"enqueue1", "requeue"}
  BY <1>1 DEF CheckSecond, ReqOK, HandType
<1>3. Slack' = Slack
  <2>1. ReqDue' = 0 /\ ReqDue = 0
    BY <1>1, <1>2 DEF ReqDue
  <2>2. /\ Len(matchingQueue) \in Nat /\ requests \in Nat
        /\ Len(matchingQueue') = Len(matchingQueue) /\ requests' = requests
    BY <1>1, Numbers
  <2>3. /\ Slack \in Int
        /\ Slack' = Slack + (Len(matchingQueue') - Len(matchingQueue))
                    - 2 * (requests' - requests) - (ReqDue' - ReqDue)
    BY <1>1, <2>2, RequestSlack
  <2> QED BY <2>1, <2>2, <2>3
<1> QED BY <1>1, <1>2, <1>3, DictKept, RunMatchingTypes DEF SlackStep

LEMMA RequeueInv ==
    ASSUME MatchInv, Requeue
    PROVE  MatchInv' /\ Slack' = Slack
<1>1. /\ TypeInv /\ DictOK /\ req.at = "requeue" /\ req.user1 \in Users
      /\ waitingQueue \in Seq(Users) /\ matchingQueue \in Seq(Users) /\ requests \in Nat
      /\ waitingQueue' = Append(waitingQueue, req.user1) /\ req' = Idle
      /\ UNCHANGED <<dict, matchingQueue, complete, handler, redis, omok, answers,
                     roomsIssued, requests, roomList, offers>>
  BY DEF MatchInv, TypeInv, ReqOK, Requeue, redis, omok
<1>2. ReqOK' /\ req'.at = "idle"
  BY <1>1 DEF ReqOK, HandType, Idle, NoRoom
<1>3. waitingQueue' \in Seq(Users)
  BY <1>1, AppendProperties
<1>4. Slack' = Slack
  <2>1. ReqDue' = 0 /\ ReqDue = 0
    BY <1>1, <1>2 DEF ReqDue
  <2>2. /\ Len(matchingQueue) \in Nat /\ requests \in Nat
        /\ Len(matchingQueue') = Len(matchingQueue) /\ requests' = requests
    BY <1>1, Numbers
  <2>3. /\ Slack \in Int
        /\ Slack' = Slack + (Len(matchingQueue') - Len(matchingQueue))
                    - 2 * (requests' - requests) - (ReqDue' - ReqDue)
    BY <1>1, <2>2, RequestSlack
  <2> QED BY <2>1, <2>2, <2>3
<1> QED BY <1>1, <1>2, <1>3, <1>4, DictKept, RunMatchingTypes DEF SlackStep

LEMMA EnqueueMatchingInv ==
    ASSUME MatchInv, NEW from, NEW user \in {req.user1, req.user2}, NEW to,
           \/ from = "enqueue1" /\ to = "state1"
           \/ from = "enqueue2" /\ to = "state2",
           EnqueueMatching(from, user, to)
    PROVE  MatchInv' /\ Slack' = Slack
<1>1. /\ TypeInv /\ DictOK /\ ReqOK /\ req.at = from /\ req \in HandType /\ user \in Users
      /\ waitingQueue \in Seq(Users) /\ matchingQueue \in Seq(Users) /\ requests \in Nat
      /\ matchingQueue' = Append(matchingQueue, user)
      /\ req' = [req EXCEPT !.at = to]
      /\ UNCHANGED <<dict, waitingQueue, complete, handler, redis, omok, answers,
                     roomsIssued, requests, roomList, offers>>
  BY DEF MatchInv, TypeInv, ReqOK, EnqueueMatching, redis, omok
<1>2. ReqOK' /\ req'.at = to
  BY <1>1 DEF ReqOK, HandType
<1>3. matchingQueue' \in Seq(Users) /\ Len(matchingQueue') = Len(matchingQueue) + 1
  BY <1>1, AppendProperties
<1>4. Slack' = Slack
  <2>1. Len(matchingQueue) \in Nat /\ Len(roomList) \in Nat /\ requests \in Nat /\ offers \in Nat
    BY <1>1, Numbers
  <2>2. ReqDue' = ReqDue + 1
    BY <1>1, <1>2 DEF ReqDue
  <2>3. /\ Slack \in Int
        /\ Slack' = Slack + (Len(matchingQueue') - Len(matchingQueue))
                    - 2 * (requests' - requests) - (ReqDue' - ReqDue)
    BY <1>1, <1>3, <2>1, RequestSlack
  <2> QED BY <1>1, <1>3, <2>1, <2>2, <2>3, DueNumbers
<1> QED BY <1>1, <1>2, <1>3, <1>4, DictKept, RunMatchingTypes DEF SlackStep

LEMMA SetMatchingInv ==
    ASSUME MatchInv, NEW from, NEW user, NEW to,
           \/ from = "state1" /\ to = "enqueue2" /\ user = req.user1
           \/ from = "state2" /\ to = "push" /\ user = req.user2,
           SetMatching(from, user, to)
    PROVE  MatchInv' /\ SlackStep
<1>1. /\ TypeInv /\ DictOK /\ ReqOK /\ req.at = from /\ req \in HandType /\ user \in Users
      /\ waitingQueue \in Seq(Users) /\ matchingQueue \in Seq(Users) /\ requests \in Nat
      /\ UNCHANGED <<waitingQueue, matchingQueue, complete, handler, redis, omok, answers,
                     roomsIssued, requests, roomList, offers>>
  BY DEF MatchInv, TypeInv, ReqOK, SetMatching, redis, omok
<1>2. Len(matchingQueue) \in Nat /\ Len(roomList) \in Nat /\ requests \in Nat /\ offers \in Nat
  BY <1>1, Numbers
<1>3. CASE InDict(user)
  <2>1. SetState(user, Matching) /\ req' = [req EXCEPT !.at = to]
    BY <1>3 DEF SetMatching
  <2>2. ReqOK' /\ req'.at = to
    BY <1>1, <2>1 DEF ReqOK, HandType
  <2>3. Slack' = Slack
    <3>1. ReqDue' = ReqDue
      BY <1>1, <2>2 DEF ReqDue
    <3>2. Len(matchingQueue') = Len(matchingQueue) /\ requests' = requests
      BY <1>1
    <3>3. /\ Slack \in Int
          /\ Slack' = Slack + (Len(matchingQueue') - Len(matchingQueue))
                      - 2 * (requests' - requests) - (ReqDue' - ReqDue)
      BY <1>1, <1>2, <3>2, RequestSlack
    <3> QED BY <1>2, <3>1, <3>2, <3>3, DueNumbers
  <2>4. DictOK' /\ RoomsKept /\ \A v \in Users : DOMAIN data'[v] = DOMAIN data[v]
    BY <1>1, <1>3, <2>1, StateWritten
  <2> QED BY <1>1, <2>2, <2>3, <2>4, RunMatchingTypes DEF SlackStep
<1>4. CASE ~InDict(user)
  <2>1. UNCHANGED dict /\ req' = Idle
    BY <1>4 DEF SetMatching
  <2>2. ReqOK' /\ req'.at = "idle"
    BY <2>1 DEF ReqOK, HandType, Idle, NoRoom
  <2>3. Slack' \in {Slack + 1, Slack + 2}
    <3>1. ReqDue' = 0 /\ ReqDue \in {1, 2}
      BY <1>1, <2>2 DEF ReqDue
    <3>2. Len(matchingQueue') = Len(matchingQueue) /\ requests' = requests
      BY <1>1
    <3>3. /\ Slack \in Int
          /\ Slack' = Slack + (Len(matchingQueue') - Len(matchingQueue))
                      - 2 * (requests' - requests) - (ReqDue' - ReqDue)
      BY <1>1, <1>2, <3>2, RequestSlack
    <3> QED BY <1>2, <3>1, <3>2, <3>3
  <2>4. SlackStep
    BY <1>1, <1>4, <2>3 DEF SlackStep, Missed
  <2> QED BY <1>1, <2>1, <2>2, <2>4, DictKept, RunMatchingTypes
<1> QED BY <1>3, <1>4

LEMMA PushRequestInv ==
    ASSUME MatchInv, PushMatchingRequestToRedis \/ PushThrows
    PROVE  MatchInv' /\ SlackStep
<1>1. /\ TypeInv /\ DictOK /\ req.at = "push" /\ req' = Idle
      /\ waitingQueue \in Seq(Users) /\ matchingQueue \in Seq(Users) /\ requests \in Nat
      /\ UNCHANGED <<dict, waitingQueue, matchingQueue, complete, handler, roomList, omok, answers,
                     roomsIssued, offers>>
      /\ \/ requests' = requests + 1
         \/ requests' = requests /\ failures' = failures + 1
  BY DEF MatchInv, TypeInv, PushMatchingRequestToRedis, PushThrows, redis, omok
<1>2. Len(matchingQueue) \in Nat /\ Len(roomList) \in Nat /\ requests \in Nat /\ offers \in Nat
  BY <1>1, Numbers
<1>3. ReqOK' /\ req'.at = "idle"
  BY <1>1 DEF ReqOK, HandType, Idle, NoRoom
<1>4. SlackStep
  <2>1. ReqDue' = 0 /\ ReqDue = 2
    BY <1>1, <1>3 DEF ReqDue
  <2>2. Len(matchingQueue') = Len(matchingQueue) /\ requests' \in Nat
    BY <1>1, <1>2
  <2>3. /\ Slack \in Int
        /\ Slack' = Slack + (Len(matchingQueue') - Len(matchingQueue))
                    - 2 * (requests' - requests) - (ReqDue' - ReqDue)
    BY <1>1, <1>2, <2>2, RequestSlack
  <2>4. requests' = requests + 1 => Slack' = Slack
    BY <1>2, <2>1, <2>2, <2>3
  <2>5. requests' = requests => Slack' = Slack + 2
    BY <1>2, <2>1, <2>2, <2>3
  <2> QED BY <1>1, <2>4, <2>5 DEF SlackStep
<1>5. requests' \in Nat
  BY <1>1
<1> QED BY <1>1, <1>3, <1>4, <1>5, DictKept, RunMatchingTypes

LEMMA RunMatchingInv ==
    ASSUME MatchInv, RunMatching \/ PushThrows
    PROVE  MatchInv' /\ SlackStep
<1>1. CASE StartMatching
  <2>1. PICK v, w : v = req.user1 /\ w = req.user2
    OBVIOUS
  <2>2. CASE EnqueueMatching("enqueue1", req.user1, "state1")
    <3>1. EnqueueMatching("enqueue1", v, "state1")
      BY <2>1, <2>2 DEF EnqueueMatching
    <3>2. MatchInv' /\ Slack' = Slack
      BY <2>1, <3>1, EnqueueMatchingInv
    <3> QED BY <3>2 DEF SlackStep
  <2>3. CASE SetMatching("state1", req.user1, "enqueue2")
    <3>1. SetMatching("state1", v, "enqueue2")
      BY <2>1, <2>3 DEF SetMatching, SetState
    <3> QED BY <2>1, <3>1, SetMatchingInv
  <2>4. CASE EnqueueMatching("enqueue2", req.user2, "state2")
    <3>1. EnqueueMatching("enqueue2", w, "state2")
      BY <2>1, <2>4 DEF EnqueueMatching
    <3>2. MatchInv' /\ Slack' = Slack
      BY <2>1, <3>1, EnqueueMatchingInv
    <3> QED BY <3>2 DEF SlackStep
  <2>5. CASE SetMatching("state2", req.user2, "push")
    <3>1. SetMatching("state2", w, "push")
      BY <2>1, <2>5 DEF SetMatching, SetState
    <3> QED BY <2>1, <3>1, SetMatchingInv
  <2> QED BY <1>1, <2>2, <2>3, <2>4, <2>5 DEF StartMatching, StartFirst, EnqueueSecond
<1>2. CASE DequeueFirst \/ DequeueSecond \/ CheckSecond \/ Requeue
  <2>1. MatchInv' /\ Slack' = Slack
    BY <1>2, TakeFirst, TakeSecond, CheckSecondInv, RequeueInv
  <2> QED BY <2>1 DEF SlackStep
<1> QED BY <1>1, <1>2, PushRequestInv DEF RunMatching
-----------------------------------------------------------------------------
(* The worker that hands out rooms. *)
LEMMA CompleteTypes ==
    ASSUME TypeInv, UNCHANGED <<handler, answers, roomsIssued, req, waitingQueue, requests, offers>>,
           DictOK', \A v \in Users : DOMAIN data'[v] = DOMAIN data[v],
           matchingQueue' \in Seq(Users), roomList' \in Seq(Issued), CompleteOK'
    PROVE  TypeInv'
<1>1. ReqOK'
  BY DEF TypeInv, ReqOK, HandType
<1> QED BY <1>1, WorkerTypes DEF TypeInv

(* Steps that leave the queue and Redis alone. *)
LEMMA UpdateStep ==
    ASSUME MatchInv, UNCHANGED <<handler, answers, roomsIssued, req, waitingQueue, requests, offers,
                                 matchingQueue, roomList>>,
           DictOK', \A v \in Users : DOMAIN data'[v] = DOMAIN data[v], CompleteOK',
           complete.at \in Updating, complete'.at \in Updating \cup {"idle"}, RoomsInv'
    PROVE  MatchInv' /\ Slack' = Slack
<1>1. TypeInv /\ matchingQueue \in Seq(Users) /\ roomList \in Seq(Issued)
  BY DEF MatchInv, TypeInv
<1>2. TypeInv'
  BY <1>1, CompleteTypes
<1>3. Slack' = Slack
  <2>1. CompleteDue' = 0 /\ CompleteDue = 0
    BY DEF CompleteDue, Updating
  <2>2. /\ Len(matchingQueue) \in Nat /\ Len(matchingQueue') = Len(matchingQueue)
        /\ Len(roomList) \in Nat /\ Len(roomList') = Len(roomList)
    BY <1>1, Numbers
  <2>3. /\ Slack \in Int
        /\ Slack' = Slack + (Len(matchingQueue') - Len(matchingQueue))
                    - 2 * (Len(roomList') - Len(roomList)) - (CompleteDue' - CompleteDue)
    BY <1>1, <2>2, CompleteSlack
  <2> QED BY <2>1, <2>2, <2>3
<1>4. DueInv'
  BY <1>3 DEF MatchInv, DueInv, Updating
<1> QED BY <1>2, <1>3, <1>4 DEF MatchInv

LEMMA SetCompleteInv ==
    ASSUME MatchInv, NEW from, NEW user, NEW to,
           \/ from = "state1" /\ to = "find1" /\ user = complete.user1
           \/ from = "state2" /\ to = "find2" /\ user = complete.user2,
           SetComplete(from, user, to)
    PROVE  MatchInv' /\ Slack' = Slack
<1>1. /\ TypeInv /\ DictOK /\ CompleteOK /\ complete.at = from /\ complete \in HandType
      /\ user \in Users /\ complete.at \in Updating
      /\ complete.user1 \in Users /\ complete.user2 \in Users
      /\ UNCHANGED <<handler, answers, roomsIssued, req, waitingQueue, requests, offers,
                     matchingQueue, roomList>>
  BY DEF MatchInv, TypeInv, CompleteOK, Updating, SetComplete, redis, omok
<1>2. complete' = [complete EXCEPT !.at = to] \/ complete' = Idle
  BY DEF SetComplete
<1>3. /\ CompleteOK' /\ complete'.at \in Updating \cup {"idle"}
      /\ \A r \in Issued : KeepsHand(r)
  <2>1. CASE complete' = [complete EXCEPT !.at = to]
    BY <1>1, <2>1 DEF CompleteOK, HandType, Updating, KeepsHand, Held, Early, Issued
  <2>2. CASE complete' = Idle
    BY <2>2 DEF CompleteOK, HandType, Updating, KeepsHand, Held, Idle, NoRoom
  <2> QED BY <1>2, <2>1, <2>2
<1>4. DictOK' /\ RoomsKept /\ \A v \in Users : DOMAIN data'[v] = DOMAIN data[v]
  <2>1. CASE InDict(user)
    BY <1>1, <2>1, StateWritten DEF SetComplete
  <2>2. CASE ~InDict(user)
    <3>1. UNCHANGED dict
      BY <2>2 DEF SetComplete
    <3> QED BY <1>1, <3>1, DictKept
  <2> QED BY <2>1, <2>2
<1>5. RoomsInv'
  BY <1>1, <1>3, <1>4, QuietStep
<1> QED BY <1>1, <1>3, <1>4, <1>5, UpdateStep

LEMMA FindCompleteInv ==
    ASSUME MatchInv, NEW from, NEW user, NEW to,
           \/ from = "find1" /\ to = "room1" /\ user = complete.user1
           \/ from = "find2" /\ to = "room2" /\ user = complete.user2,
           FindComplete(from, user, to)
    PROVE  MatchInv' /\ Slack' = Slack
<1>1. /\ TypeInv /\ DictOK /\ CompleteOK /\ complete.at = from /\ complete \in HandType
      /\ user \in Users /\ complete.at \in Updating
      /\ complete.user1 \in Users /\ complete.user2 \in Users
      /\ UNCHANGED <<handler, answers, roomsIssued, req, waitingQueue, requests, offers,
                     matchingQueue, roomList, dict>>
  BY DEF MatchInv, TypeInv, CompleteOK, Updating, FindComplete, redis, omok
<1>2. DictOK' /\ RoomsKept /\ UNCHANGED data /\ \A v \in Users : DOMAIN data'[v] = DOMAIN data[v]
  BY <1>1, DictKept DEF dict
<1>3. /\ CompleteOK' /\ complete'.at \in Updating \cup {"idle"}
      /\ \A r \in Issued : KeepsHand(r)
  <2>1. CASE InDict(user)
    <3>1. PICK k : k = matchingDict[user]
      OBVIOUS
    <3>2. k \in Nat /\ k \in DOMAIN data[user]
      BY <1>1, <2>1, <3>1, Entries DEF DictOK
    <3>3. complete' = [complete EXCEPT !.at = to, !.ref = k]
      BY <2>1, <3>1 DEF FindComplete
    <3>4. /\ complete'.at = to /\ complete'.ref = k /\ complete' \in HandType
          /\ complete'.user1 = complete.user1 /\ complete'.user2 = complete.user2
          /\ complete'.room = complete.room
      BY <1>1, <3>2, <3>3 DEF HandType
    <3> QED BY <1>1, <1>2, <3>2, <3>4 DEF CompleteOK, Updating, KeepsHand, Held, Early, Issued
  <2>2. CASE ~InDict(user)
    <3>1. complete' = Idle
      BY <2>2 DEF FindComplete
    <3> QED BY <3>1 DEF CompleteOK, HandType, Updating, KeepsHand, Held, Idle, NoRoom
  <2> QED BY <2>1, <2>2
<1>4. RoomsInv'
  BY <1>1, <1>2, <1>3, QuietStep
<1> QED BY <1>1, <1>2, <1>3, <1>4, UpdateStep

LEMMA SetRoomInv ==
    ASSUME MatchInv, NEW from, NEW user, NEW to,
           \/ from = "room1" /\ to = "state2" /\ user = complete.user1
           \/ from = "room2" /\ to = "idle" /\ user = complete.user2,
           SetRoom(from, user, to)
    PROVE  MatchInv' /\ Slack' = Slack
<1>1. PICK k, c : k = complete.ref /\ c = complete.room
  OBVIOUS
<1>2. /\ TypeInv /\ DictOK /\ CompleteOK /\ complete.at = from /\ complete \in HandType
      /\ user \in Users /\ complete.at \in Updating /\ k \in DOMAIN data[user] /\ c \in Issued
      /\ complete.user1 \in Users /\ complete.user2 \in Users
      /\ UNCHANGED <<matchingDict, handler, answers, roomsIssued, req, waitingQueue, requests,
                     offers, matchingQueue, roomList>>
      /\ data' = [data EXCEPT ![user][k].room = c]
      /\ complete' = IF to = "idle" THEN Idle ELSE [complete EXCEPT !.at = to]
  BY <1>1 DEF MatchInv, TypeInv, CompleteOK, Updating, SetRoom, redis, omok
<1>3. PICK e : e = [data[user][k] EXCEPT !.room = c]
  OBVIOUS
<1>4. e \in Entry /\ e.room = c /\ c \in Nat /\ Held(c)
  <2>1. data[user][k] \in Entry
    BY <1>2, Entries
  <2> QED BY <1>1, <1>2, <1>3, <2>1 DEF Entry, Issued, Held
<1>5. data' = [data EXCEPT ![user] = [data[user] EXCEPT ![k] = e]]
  BY <1>2, <1>3
<1>6. /\ data' \in [Users -> Seq(Entry)] /\ Entry' = Entry
      /\ \A v \in Users : Len(data'[v]) = Len(data[v]) /\ DOMAIN data'[v] = DOMAIN data[v]
      /\ \A v \in Users : \A l \in DOMAIN data[v] :
            data'[v][l] = IF v = user /\ l = k THEN e ELSE data[v][l]
  <2>1. DictOK /\ user \in Users /\ k \in DOMAIN data[user] /\ e \in Entry
        /\ UNCHANGED roomsIssued
    BY <1>2, <1>4
  <2> QED BY <1>5, <2>1, WriteEntry
<1>7. DictOK'
  BY <1>2, <1>6 DEF DictOK
<1>8. /\ CompleteOK' /\ complete'.at \in {"state2", "idle"}
      /\ complete'.at # "idle" => /\ from = "room1" /\ complete'.user1 = user
                                  /\ complete'.room = c
  <2>1. CASE from = "room1"
    <3>1. complete' = [complete EXCEPT !.at = "state2"]
      BY <1>2, <2>1
    <3> QED BY <1>1, <1>2, <2>1, <3>1 DEF CompleteOK, HandType, Updating, Issued
  <2>2. CASE from = "room2"
    <3>1. complete' = Idle
      BY <1>2, <2>2
    <3> QED BY <3>1 DEF CompleteOK, HandType, Updating, Idle, NoRoom
  <2> QED BY <2>1, <2>2
<1>9. ASSUME NEW r \in Issued
      PROVE  SentTo(r)' \subseteq SentTo(r) \cup (IF r = c THEN {user} ELSE {})
  <2>1. r \in Nat
    BY DEF Issued
  <2>2. \A v \in Users : DOMAIN data'[v] = DOMAIN data[v]
    BY <1>6
  <2>3. \A v \in Users : \A l \in DOMAIN data[v] :
           data'[v][l].room = IF v = user /\ l = k THEN c ELSE data[v][l].room
    BY <1>4, <1>6
  <2>4. user \in Users /\ c \in Nat /\ k \in Nat /\ UNCHANGED answers
    BY <1>1, <1>2, <1>4 DEF HandType
  <2> QED BY <2>1, <2>2, <2>3, <2>4, OneSent
<1>10. ASSUME NEW r \in Issued PROVE RoomInv(r)'
  <2> DEFINE S == SentTo(r)
             T == SentTo(r)'
  <2>1. RoomInv(r) /\ (Offered(r)' <=> Offered(r))
    BY <1>2 DEF MatchInv, RoomsInv, Offered
  <2>2. AtMostTwo(T) = AtMostTwo(SentTo(r))'
    BY DEF AtMostTwo
  <2>3. CASE r # c
    <3>1. T \subseteq S
      BY <1>9, <2>3
    <3>2. ~Held(r)'
      BY <1>8, <2>3 DEF Held
    <3>3. (S = {} => T = {}) /\ (AtMostTwo(S) => AtMostTwo(T))
      <4> HIDE DEF S, T
      <4> QED BY <3>1, FewerUsers
    <3> QED BY <2>1, <2>2, <3>2, <3>3 DEF RoomInv
  <2>4. CASE r = c
    <3>1. T \subseteq S \cup {user}
      BY <1>9, <2>4
    <3>2. ~Offered(r) /\ S \subseteq {complete.user1} /\ (from = "room1" => S = {})
      BY <1>2, <1>4, <2>1, <2>4 DEF RoomInv, Early
    <3>3. AtMostTwo(T) /\ (from = "room1" => T \subseteq {user})
      <4> HIDE DEF S, T
      <4> QED BY <3>1, <3>2 DEF AtMostTwo
    <3>4. Held(r)' => from = "room1" /\ complete'.user1 = user /\ complete'.at \notin Early
      BY <1>8 DEF Held, Early
    <3> QED BY <2>1, <2>2, <3>2, <3>3, <3>4 DEF RoomInv
  <2> QED BY <2>3, <2>4
<1>11. RoomsInv'
  <2>1. Issued' = Issued
    BY <1>2 DEF Issued
  <2> QED BY <1>2, <1>10, <2>1 DEF MatchInv, RoomsInv
<1>12. complete'.at \in Updating \cup {"idle"}
  BY <1>8 DEF Updating
<1> QED BY <1>2, <1>6, <1>7, <1>8, <1>11, <1>12, UpdateStep

(* The last room leaves the list for the hand of the worker, or is lost. *)
LEMMA PopInv ==
    ASSUME MatchInv, TryGetEmptyRoomInfoFromRedis \/ PopThrows
    PROVE  MatchInv' /\ SlackStep
<1>1. /\ TypeInv /\ DictOK /\ CompleteOK /\ complete.at = "idle"
      /\ roomList # <<>> /\ roomList \in Seq(Issued) /\ matchingQueue \in Seq(Users)
      /\ UNCHANGED <<dict, handler, answers, roomsIssued, req, waitingQueue, requests, offers,
                     matchingQueue>>
  BY DEF MatchInv, TypeInv, TryGetEmptyRoomInfoFromRedis, PopThrows, omok, worker
<1> DEFINE n == Len(roomList)
           c == roomList[n]
<1>2. /\ n \in DOMAIN roomList /\ c \in Issued
      /\ roomList' = SubSeq(roomList, 1, n - 1)
  BY <1>1, CutFront DEF TryGetEmptyRoomInfoFromRedis, PopThrows
<1>3. /\ roomList' \in Seq(Issued) /\ Len(roomList') = n - 1
      /\ \A k \in DOMAIN roomList' : k \in DOMAIN roomList /\ k # n /\ roomList'[k] = roomList[k]
  BY <1>1, <1>2, CutFront
<1>4. \/ complete' = [Idle EXCEPT !.at = "dequeue1", !.room = c]
      \/ complete' = complete /\ failures' = failures + 1
  BY DEF TryGetEmptyRoomInfoFromRedis, PopThrows, worker, LastRoom
<1> HIDE DEF c, n
<1>5. /\ CompleteOK' /\ complete'.at \in {"idle", "dequeue1"}
      /\ complete'.at # "idle" => complete'.room = c
  <2>1. CASE complete' = [Idle EXCEPT !.at = "dequeue1", !.room = c]
    <3>1. complete' = [at |-> "dequeue1", user1 |-> NoUser, user2 |-> NoUser, room |-> c, ref |-> 0]
      BY <2>1 DEF Idle
    <3>2. c \in Int
      BY <1>2 DEF Issued
    <3> QED BY <1>1, <1>2, <3>1, <3>2 DEF CompleteOK, HandType, Updating, Issued
  <2>2. CASE complete' = complete
    BY <1>1, <2>2 DEF CompleteOK, HandType, Updating, Issued
  <2> QED BY <1>4, <2>1, <2>2
<1>6. DictOK' /\ UNCHANGED data /\ \A v \in Users : DOMAIN data'[v] = DOMAIN data[v]
  BY <1>1, DictKept DEF dict
<1>7. TypeInv'
  BY <1>1, <1>3, <1>5, <1>6, CompleteTypes
<1>8. Issued' = Issued /\ \A r : SentTo(r)' = SentTo(r)
  BY <1>1, <1>6 DEF Issued, SentTo
<1>9. ASSUME NEW r \in Issued PROVE RoomInv(r)'
  <2>1. RoomInv(r) /\ (Offered(r)' => Offered(r) /\ r # c)
    BY <1>2, <1>3 DEF MatchInv, RoomsInv, Offered, n, c
  <2>2. Held(r)' => r = c /\ Offered(r)
    BY <1>2, <1>5 DEF Held, Offered, c
  <2>3. AtMostTwo(SentTo(r))' = AtMostTwo(SentTo(r))
    BY <1>8 DEF AtMostTwo
  <2> QED BY <1>8, <2>1, <2>2, <2>3 DEF RoomInv
<1>10. \A j, k \in DOMAIN roomList' : roomList'[j] = roomList'[k] => j = k
  BY <1>3 DEF MatchInv, RoomsInv
<1>11. SlackStep
  <2>1. /\ n \in Nat /\ Len(roomList') \in Nat /\ Len(matchingQueue) \in Nat
        /\ Len(matchingQueue') = Len(matchingQueue)
    BY <1>1, <1>3, <1>7, Numbers, LenProperties DEF n
  <2>2. /\ Slack \in Int
        /\ Slack' = Slack + (Len(matchingQueue') - Len(matchingQueue))
                    - 2 * (Len(roomList') - Len(roomList)) - (CompleteDue' - CompleteDue)
    BY <1>1, <2>1, CompleteSlack
  <2>3. CompleteDue = 0
    BY <1>1 DEF CompleteDue
  <2>4. CASE complete' = [Idle EXCEPT !.at = "dequeue1", !.room = c]
    <3>1. CompleteDue' = 2
      BY <2>4 DEF CompleteDue, Idle
    <3>2. Slack' = Slack
      BY <1>3, <2>1, <2>2, <2>3, <3>1 DEF n
    <3> QED BY <3>2 DEF SlackStep
  <2>5. CASE complete' = complete /\ failures' = failures + 1
    <3>1. CompleteDue' = 0
      BY <1>1, <2>5 DEF CompleteDue
    <3>2. Slack' = Slack + 2
      BY <1>3, <2>1, <2>2, <2>3, <3>1 DEF n
    <3> QED BY <2>5, <3>2 DEF SlackStep
  <2> QED BY <1>4, <2>4, <2>5
<1>12. DueInv'
  BY <1>5, <1>11, DueStep
<1>13. RoomsInv'
  <2>1. \A r \in Issued' : RoomInv(r)'
    BY <1>8, <1>9
  <2> QED BY <1>10, <2>1 DEF RoomsInv
<1> QED BY <1>7, <1>11, <1>12, <1>13 DEF MatchInv

(* A user who is due is in the queue. *)
LEMMA DueIsThere ==
    ASSUME MatchInv, complete.at \in {"dequeue1", "dequeue2"}
    PROVE  matchingQueue # <<>>
<1>1. TypeInv /\ Slack \in Nat
  BY DEF MatchInv, DueInv
<1>2. Len(matchingQueue) \in Nat /\ Len(roomList) \in Nat /\ requests \in Nat /\ offers \in Nat
  BY <1>1, Numbers
<1>3. CompleteDue \in {1, 2}
  BY DEF CompleteDue
<1>4. Len(matchingQueue) # 0
  BY <1>1, <1>2, <1>3, DueNumbers DEF Slack
<1> QED BY <1>4, EmptySeq

LEMMA DequeueStep ==
    ASSUME MatchInv, complete.at \in {"dequeue1", "dequeue2"},
           UNCHANGED <<dict, waitingQueue, req, handler, redis, omok, answers>>,
           matchingQueue' = Tail(matchingQueue), CompleteOK',
           complete'.room = complete.room, complete'.user1 = complete.user1 \/ complete.at \in Early,
           CompleteDue' = CompleteDue - 1, complete'.at = "dequeue2" => complete'.user1 \in Users
    PROVE  MatchInv' /\ Slack' = Slack
<1>1. /\ TypeInv /\ DictOK /\ matchingQueue \in Seq(Users) /\ roomList \in Seq(Issued)
      /\ UNCHANGED <<roomsIssued, requests, roomList, offers>>
  BY DEF MatchInv, TypeInv, redis, omok
<1>2. matchingQueue # <<>>
  BY DueIsThere
<1>3. /\ matchingQueue' \in Seq(Users) /\ Len(matchingQueue) \in Nat
      /\ Len(matchingQueue') = Len(matchingQueue) - 1 /\ Len(matchingQueue') \in Nat
  BY <1>1, <1>2, DropFirst, LenProperties
<1>4. DictOK' /\ RoomsKept /\ \A v \in Users : DOMAIN data'[v] = DOMAIN data[v]
  BY <1>1, DictKept
<1>5. TypeInv'
  BY <1>1, <1>3, <1>4, CompleteTypes
<1>6. \A r \in Issued : KeepsHand(r)
  BY DEF KeepsHand, Held, Early
<1>7. RoomsInv'
  BY <1>1, <1>4, <1>6, QuietStep
<1>8. Slack' = Slack
  <2>1. Len(roomList) \in Nat /\ Len(roomList') = Len(roomList)
    BY <1>1, Numbers
  <2>2. /\ Slack \in Int
        /\ Slack' = Slack + (Len(matchingQueue') - Len(matchingQueue))
                    - 2 * (Len(roomList') - Len(roomList)) - (CompleteDue' - CompleteDue)
    BY <1>1, <1>3, <2>1, CompleteSlack
  <2> QED BY <1>3, <2>1, <2>2, DueNumbers
<1> QED BY <1>5, <1>7, <1>8 DEF MatchInv, DueInv

LEMMA DequeueMatchingInv ==
    ASSUME MatchInv, DequeueMatchingFirst \/ DequeueMatchingSecond
    PROVE  MatchInv' /\ Slack' = Slack
<1>1. /\ TypeInv /\ CompleteOK /\ complete \in HandType /\ complete.room \in Issued
      /\ complete.at \in {"dequeue1", "dequeue2"}
      /\ complete.at = "dequeue2" => complete.user1 \in Users
      /\ matchingQueue \in Seq(Users) /\ matchingQueue # <<>>
      /\ UNCHANGED <<dict, waitingQueue, req, handler, redis, omok, answers, roomsIssued>>
  BY DueIsThere DEF MatchInv, TypeInv, CompleteOK, DueInv, DequeueMatchingFirst,
                    DequeueMatchingSecond, omok
<1>2. PICK w : w = Head(matchingQueue)
  OBVIOUS
<1>3. w \in Users
  BY <1>1, <1>2, DropFirst
<1>4. NoUser \notin Users
  BY MatchingAssumption DEF MatchingAssumption
<1>5. CASE DequeueMatchingFirst
  <2>1. /\ complete.at = "dequeue1" /\ matchingQueue' = Tail(matchingQueue)
        /\ complete' = [complete EXCEPT !.at = "dequeue2", !.user1 = w]
    BY <1>1, <1>2, <1>5 DEF DequeueMatchingFirst
  <2>2. /\ complete'.at = "dequeue2" /\ complete'.user1 = w /\ complete'.room = complete.room
        /\ complete' \in HandType
    BY <1>1, <1>3, <2>1 DEF HandType
  <2>3. CompleteOK'
    BY <1>1, <2>2 DEF CompleteOK, Updating, Issued
  <2>4. CompleteDue' = 1 /\ CompleteDue = 2 /\ complete.at \in Early
    BY <2>1, <2>2 DEF CompleteDue, Early
  <2>5. CompleteDue' = CompleteDue - 1
    BY <2>4
  <2> QED BY <1>1, <1>3, <2>1, <2>2, <2>3, <2>4, <2>5, DequeueStep
<1>6. CASE DequeueMatchingSecond
  <2>1. /\ complete.at = "dequeue2" /\ matchingQueue' = Tail(matchingQueue)
        /\ complete' = [complete EXCEPT !.at = "state1", !.user2 = w]
    BY <1>1, <1>2, <1>4, <1>6 DEF DequeueMatchingSecond
  <2>2. /\ complete'.at = "state1" /\ complete'.user1 = complete.user1 /\ complete'.user2 = w
        /\ complete'.room = complete.room /\ complete' \in HandType
    BY <1>1, <1>3, <2>1 DEF HandType
  <2>3. CompleteOK'
    BY <1>1, <1>3, <2>1, <2>2 DEF CompleteOK, Updating, Issued
  <2>4. CompleteDue' = 0 /\ CompleteDue = 1 /\ complete.at \in Early
    BY <2>1, <2>2 DEF CompleteDue, Early
  <2>5. CompleteDue' = CompleteDue - 1
    BY <2>4
  <2> QED BY <1>1, <2>1, <2>2, <2>3, <2>4, <2>5, DequeueStep
<1> QED BY <1>5, <1>6

LEMMA CompleteInv ==
    ASSUME MatchInv, RunMatchingComplete \/ PopThrows
    PROVE  MatchInv' /\ SlackStep
<1>1. PICK v, w : v = complete.user1 /\ w = complete.user2
  OBVIOUS
<1>2. ASSUME UpdateMatchingDict PROVE MatchInv' /\ Slack' = Slack
  <2>1. CASE SetComplete("state1", complete.user1, "find1")
    <3>1. SetComplete("state1", v, "find1")
      BY <1>1, <2>1 DEF SetComplete, SetState
    <3> QED BY <1>1, <3>1, SetCompleteInv
  <2>2. CASE FindComplete("find1", complete.user1, "room1")
    <3>1. FindComplete("find1", v, "room1")
      BY <1>1, <2>2 DEF FindComplete
    <3> QED BY <1>1, <3>1, FindCompleteInv
  <2>3. CASE SetRoom("room1", complete.user1, "state2")
    <3>1. SetRoom("room1", v, "state2")
      BY <1>1, <2>3 DEF SetRoom
    <3> QED BY <1>1, <3>1, SetRoomInv
  <2>4. CASE SetComplete("state2", complete.user2, "find2")
    <3>1. SetComplete("state2", w, "find2")
      BY <1>1, <2>4 DEF SetComplete, SetState
    <3> QED BY <1>1, <3>1, SetCompleteInv
  <2>5. CASE FindComplete("find2", complete.user2, "room2")
    <3>1. FindComplete("find2", w, "room2")
      BY <1>1, <2>5 DEF FindComplete
    <3> QED BY <1>1, <3>1, FindCompleteInv
  <2>6. CASE SetRoom("room2", complete.user2, "idle")
    <3>1. SetRoom("room2", w, "idle")
      BY <1>1, <2>6 DEF SetRoom
    <3> QED BY <1>1, <3>1, SetRoomInv
  <2> QED BY <1>2, <2>1, <2>2, <2>3, <2>4, <2>5, <2>6 DEF UpdateMatchingDict
<1>3. CASE TryGetEmptyRoomInfoFromRedis \/ PopThrows
  BY <1>3, PopInv
<1>4. CASE DequeueMatchingFirst \/ DequeueMatchingSecond
  BY <1>4, DequeueMatchingInv DEF SlackStep
<1> QED BY <1>2, <1>3, <1>4 DEF RunMatchingComplete, SlackStep
-----------------------------------------------------------------------------
(* The Omok servers.  A new room is offered, which nobody can have been    *)
(* sent to.                                                                *)
LEMMA SumChange ==
    ASSUME NEW q \in Nat, NEW s \in Nat, NEW t \in Nat, NEW c \in Nat, NEW d \in Nat
    PROVE  /\ q - 2 * s - c - d \in Int
           /\ q - 2 * t - c - d = (q - 2 * s - c - d) - 2 * (t - s)
OBVIOUS

LEMMA OmokSlack ==
    ASSUME TypeInv, UNCHANGED <<req, complete, matchingQueue>>,
           requests' \in Nat, offers' \in Nat, Len(roomList') \in Nat
    PROVE  \E s, t \in Nat :
              /\ s = requests + offers + Len(roomList)
              /\ t = requests' + offers' + Len(roomList')
              /\ Slack \in Int /\ Slack' = Slack - 2 * (t - s)
<1>1. Len(matchingQueue) \in Nat /\ Len(roomList) \in Nat /\ requests \in Nat /\ offers \in Nat
  BY Numbers
<1>2. PICK s, t \in Nat : /\ s = requests + offers + Len(roomList)
                         /\ t = requests' + offers' + Len(roomList')
  BY <1>1
<1>3. CompleteDue' = CompleteDue /\ ReqDue' = ReqDue /\ Len(matchingQueue') = Len(matchingQueue)
  BY DEF CompleteDue, ReqDue
<1>4. PICK q, c, d \in Nat : q = Len(matchingQueue) /\ c = CompleteDue /\ d = ReqDue
  BY <1>1, DueNumbers
<1>5. Slack = q - 2 * s - c - d /\ Slack' = q - 2 * t - c - d
  BY <1>2, <1>3, <1>4 DEF Slack
<1>6. /\ q - 2 * s - c - d \in Int
      /\ q - 2 * t - c - d = (q - 2 * s - c - d) - 2 * (t - s)
  BY SumChange
<1> WITNESS s \in Nat, t \in Nat
<1> QED BY <1>2, <1>5, <1>6

LEMMA SlackMoves ==
    /\ \A s \in Nat, x \in Int : x - 2 * (s - s) = x
    /\ \A s, t \in Nat, x \in Int : t = s - 1 => x - 2 * (t - s) = x + 2
<1>1. ASSUME NEW s \in Nat, NEW x \in Int
      PROVE  x - 2 * (s - s) = x
  OBVIOUS
<1>2. ASSUME NEW s \in Nat, NEW t \in Nat, NEW x \in Int, t = s - 1
      PROVE  x - 2 * (t - s) = x + 2
  <2>1. t - s = -1 /\ 2 * (-1) = -2 /\ x - (-2) = x + 2
    BY <1>2
  <2> QED BY <2>1
<1> QED BY <1>1, <1>2

LEMMA CountInv ==
    ASSUME MatchInv, PopRequest \/ OfferFails
    PROVE  MatchInv' /\ SlackStep
<1>1. /\ TypeInv /\ DictOK /\ requests \in Nat /\ offers \in Nat
      /\ UNCHANGED <<dict, data, waitingQueue, matchingQueue, req, complete, handler, roomList,
                     roomsIssued, answers>>
      /\ requests' \in Nat /\ offers' \in Nat
      /\ \/ requests' + offers' = requests + offers
         \/ requests' = requests /\ offers' = offers - 1 /\ failures' = failures + 1
  BY DEF MatchInv, TypeInv, PopRequest, OfferFails, worker, redis, omok, dict
<1>2. DictOK' /\ RoomsKept /\ \A v \in Users : DOMAIN data'[v] = DOMAIN data[v]
  BY <1>1, DictKept
<1>3. TypeInv'
  <2>1. HandlersOK'
    BY <1>1 DEF TypeInv, HandlersOK, Handlers
  <2>2. ReqOK' /\ CompleteOK'
    BY <1>1 DEF TypeInv, ReqOK, CompleteOK, HandType, Updating, Issued
  <2> QED BY <1>1, <1>2, <2>1, <2>2 DEF TypeInv, Issued
<1>4. RoomsInv'
  BY <1>1, <1>2, SameHand, QuietStep
<1>5. SlackStep
  <2>1. Len(roomList) \in Nat /\ Len(roomList') = Len(roomList)
    BY <1>1, Numbers
  <2>2. PICK s, t \in Nat :
           /\ s = requests + offers + Len(roomList)
           /\ t = requests' + offers' + Len(roomList')
           /\ Slack \in Int /\ Slack' = Slack - 2 * (t - s)
    BY <1>1, <2>1, OmokSlack
  <2>3. /\ requests \in Nat /\ offers \in Nat /\ requests' \in Nat /\ offers' \in Nat
    BY <1>1
  <2>4. CASE requests' + offers' = requests + offers
    <3>1. t = s
      BY <2>1, <2>2, <2>3, <2>4
    <3>2. Slack' = Slack
      BY <2>2, <3>1, SlackMoves
    <3> QED BY <3>2 DEF SlackStep
  <2>5. CASE requests' = requests /\ offers' = offers - 1 /\ failures' = failures + 1
    <3>1. t = s - 1
      BY <2>1, <2>2, <2>3, <2>5
    <3>2. Slack' = Slack + 2
      BY <2>2, <3>1, SlackMoves
    <3> QED BY <2>5, <3>2 DEF SlackStep
  <2> QED BY <1>1, <2>4, <2>5
<1>6. DueInv'
  BY <1>1, <1>5, DueStep DEF MatchInv, DueInv
<1> QED BY <1>3, <1>4, <1>5, <1>6 DEF MatchInv

LEMMA OfferInv ==
    ASSUME MatchInv, PushRoom
    PROVE  MatchInv' /\ Slack' = Slack
<1> DEFINE n == roomsIssued + 1
<1>1. /\ TypeInv /\ DictOK /\ roomsIssued \in Nat /\ roomList \in Seq(Issued)
      /\ requests \in Nat /\ offers \in Nat /\ offers > 0
      /\ offers' = offers - 1 /\ roomsIssued' = n /\ roomList' = Append(roomList, n)
      /\ UNCHANGED <<data, matchingDict, waitingQueue, matchingQueue, req, complete, handler,
                     requests, answers>>
  BY DEF MatchInv, TypeInv, PushRoom, worker, dict
<1>2. n \in Nat /\ n \notin Issued /\ Issued' = Issued \cup {n} /\ offers' \in Nat
  BY <1>1 DEF Issued
<1> HIDE DEF n
<1>3. \A r : SentTo(r)' = SentTo(r)
  BY <1>1 DEF SentTo
<1>4. /\ roomList' \in Seq(Issued \cup {n}) /\ Len(roomList) \in Nat
      /\ Len(roomList') = Len(roomList) + 1
      /\ DOMAIN roomList' = DOMAIN roomList \cup {Len(roomList) + 1}
      /\ \A k \in DOMAIN roomList : roomList'[k] = roomList[k] /\ k # Len(roomList) + 1
      /\ roomList'[Len(roomList) + 1] = n
  <2>1. roomList \in Seq(Issued \cup {n})
    BY <1>1, SeqMonotonic
  <2>2. Len(roomList) \in Nat /\ DOMAIN roomList = 1 .. Len(roomList)
    BY <1>1, LenProperties
  <2>3. /\ roomList' \in Seq(Issued \cup {n}) /\ Len(roomList') = Len(roomList) + 1
        /\ \A k \in 1 .. Len(roomList) : roomList'[k] = roomList[k]
        /\ roomList'[Len(roomList) + 1] = n
    BY <1>1, <2>1, AppendProperties
  <2>4. DOMAIN roomList' = 1 .. Len(roomList')
    BY <2>3, LenProperties
  <2> QED BY <2>2, <2>3, <2>4
<1>5. \A k \in DOMAIN roomList : roomList[k] \in Issued
  BY <1>1, ElementOfSeq, LenProperties
<1>6. \A v \in Users : \A i \in DOMAIN data[v] : data[v][i].room \in Issued \cup {NoRoom}
  BY <1>1, Entries DEF Entry
<1>7. \A v \in Users : \A i \in DOMAIN answers[v] : answers[v][i] \in Issued \cup {NoRoom}
  <2>1. \A v \in Users : answers[v] \in Seq(Issued \cup {NoRoom})
    BY <1>1 DEF TypeInv
  <2> QED BY <2>1, ElementOfSeq, LenProperties
<1>8. TypeInv'
  <2>1. Entry \subseteq Entry' /\ Issued \cup {NoRoom} \subseteq Issued' \cup {NoRoom}
    BY <1>2 DEF Entry
  <2>2. Seq(Entry) \subseteq Seq(Entry') /\ Seq(Issued \cup {NoRoom}) \subseteq Seq(Issued' \cup {NoRoom})
    BY <2>1, SeqMonotonic
  <2>3. DictOK'
    BY <1>1, <2>2 DEF DictOK
  <2>4. answers' \in [Users -> Seq(Issued' \cup {NoRoom})]
    BY <1>1, <2>2 DEF TypeInv
  <2>5. HandlersOK'
    BY <1>1 DEF TypeInv, HandlersOK, Handlers
  <2>6. ReqOK'
    BY <1>1 DEF TypeInv, ReqOK, HandType
  <2>7. CompleteOK'
    BY <1>1, <1>2 DEF TypeInv, CompleteOK, HandType, Updating
  <2>8. roomList' \in Seq(Issued') /\ roomsIssued' \in Nat
    BY <1>1, <1>2, <1>4
  <2> QED BY <1>1, <1>2, <2>3, <2>4, <2>5, <2>6, <2>7, <2>8 DEF TypeInv
<1>9. \A j, k \in DOMAIN roomList' : roomList'[j] = roomList'[k] => j = k
  BY <1>2, <1>4, <1>5 DEF MatchInv, RoomsInv
<1>10. ASSUME NEW r \in Issued' PROVE RoomInv(r)'
  <2>1. Held(r)' = Held(r)
    BY <1>1 DEF Held
  <2>2. AtMostTwo(SentTo(r))' = AtMostTwo(SentTo(r))
    BY <1>3 DEF AtMostTwo
  <2>3. CASE r # n
    <3>1. r \in Issued /\ (Offered(r)' => Offered(r))
      BY <1>2, <1>4, <2>3 DEF Offered
    <3> QED BY <1>1, <1>3, <2>1, <2>2, <3>1 DEF MatchInv, RoomsInv, RoomInv
  <2>4. CASE r = n
    <3>1. n \notin Issued \cup {NoRoom}
      BY <1>2 DEF NoRoom
    <3>2. SentTo(r) = {}
      BY <1>6, <1>7, <2>4, <3>1 DEF SentTo
    <3>3. ~Held(r)
      BY <1>1, <1>2, <2>4 DEF TypeInv, CompleteOK, Held
    <3>4. AtMostTwo(SentTo(r))
      BY <3>2 DEF AtMostTwo
    <3> QED BY <1>3, <2>1, <2>2, <3>2, <3>3, <3>4 DEF RoomInv
  <2> QED BY <2>3, <2>4
<1>11. RoomsInv'
  BY <1>9, <1>10 DEF RoomsInv
<1>12. Slack' = Slack
  <2>1. requests' \in Nat /\ offers' \in Nat /\ Len(roomList') \in Nat
    BY <1>1, <1>2, <1>4
  <2>2. PICK s, t \in Nat :
           /\ s = requests + offers + Len(roomList)
           /\ t = requests' + offers' + Len(roomList')
           /\ Slack \in Int /\ Slack' = Slack - 2 * (t - s)
    BY <1>1, <2>1, OmokSlack
  <2>3. /\ requests' = requests /\ offers' = offers - 1 /\ Len(roomList') = Len(roomList) + 1
        /\ requests \in Nat /\ offers \in Nat /\ Len(roomList) \in Nat
    BY <1>1, <1>4
  <2>4. t = s
    BY <2>2, <2>3
  <2> QED BY <2>2, <2>4
<1>13. DueInv'
  BY <1>1, <1>12 DEF MatchInv, DueInv
<1> QED BY <1>8, <1>11, <1>12, <1>13 DEF MatchInv
-----------------------------------------------------------------------------
LEMMA InitInv == Init => MatchInv
<1> SUFFICES ASSUME Init PROVE MatchInv
  OBVIOUS
<1>1. /\ Idle \in HandType /\ Idle.at = "idle" /\ Free \in HandlerType /\ Free.at = "idle"
  BY DEF Idle, HandType, NoRoom, Free, HandlerType
<1>2. Issued = {} /\ Len(<<>>) = 0 /\ DOMAIN <<>> = {} /\ \A S : <<>> \in Seq(S)
  BY EmptySeq DEF Init, Issued
<1>3. DictOK
  BY <1>2 DEF Init, DictOK
<1>4. HandlersOK /\ ReqOK /\ CompleteOK
  BY <1>1 DEF Init, HandlersOK, ReqOK, CompleteOK, Updating
<1>5. TypeInv
  BY <1>2, <1>3, <1>4 DEF Init, TypeInv
<1>6. RoomsInv
  BY <1>2 DEF Init, RoomsInv
<1>7. DueInv
  <2>1. ReqDue = 0 /\ CompleteDue = 0
    BY <1>1 DEF Init, ReqDue, CompleteDue
  <2>2. Slack = 0
    BY <1>2, <2>1 DEF Init, Slack
  <2> QED BY <1>1, <2>2 DEF Init, DueInv
<1> QED BY <1>5, <1>6, <1>7 DEF MatchInv

LEMMA StutterInv ==
    ASSUME MatchInv, UNCHANGED vars
    PROVE  MatchInv' /\ Slack' = Slack
<1>1. /\ TypeInv /\ HandlersOK /\ UNCHANGED <<worker, redis, omok, dict, data, waitingQueue,
                                               handler, answers, roomsIssued>>
      /\ waitingQueue \in Seq(Users) /\ answers \in [Users -> Seq(Issued \cup {NoRoom})]
  BY DEF MatchInv, TypeInv, vars, omok, dict
<1>2. DictOK' /\ Grown /\ \A r \in Issued : SentTo(r)' \subseteq SentTo(r)
  BY <1>1, DictKept DEF Grown, SentTo, TypeInv
<1>3. HandlersOK'
  BY <1>1 DEF HandlersOK, Handlers
<1> QED BY <1>1, <1>2, <1>3, HandlerQuiet

LEMMA NextInv == MatchInv /\ [Next]_vars => MatchInv' /\ SlackStep
<1> SUFFICES ASSUME MatchInv, [Next]_vars PROVE MatchInv' /\ SlackStep
  OBVIOUS
<1>1. ASSUME NEW h \in Handlers, AddUser(h) \/ HandlerStep(h) PROVE MatchInv' /\ SlackStep
  BY <1>1, AddUserInv, EnqueueInv, TryAddInv, GetMatchingDataInv, AnswerInv
     DEF HandlerStep, SlackStep
<1>2. ASSUME NEW u \in Users, CancelMatching(u) PROVE MatchInv' /\ SlackStep
  BY <1>2, CancelInv DEF SlackStep
<1>3. CASE UNCHANGED vars
  BY <1>3, StutterInv DEF SlackStep
<1>4. CASE PushRoom
  BY <1>4, OfferInv DEF SlackStep
<1> QED BY <1>1, <1>2, <1>3, <1>4, RunMatchingInv, CompleteInv, CountInv DEF Next

(* The inductive invariant. *)
THEOREM MatchingInvariant == Spec => []MatchInv
BY InitInv, NextInv, PTL DEF Spec

(* Type correctness: queues hold users, entries and answers name rooms     *)
(* that were offered, and what a request or a worker goes on to read or to *)
(* write, after the dictionary has changed, was made.                      *)
THEOREM TypeCorrect == Spec => []TypeOK
<1>1. MatchInv => TypeOK
  BY DEF MatchInv, TypeInv, TypeOK, DictOK, HandlersOK, HandlerType, ReqOK, CompleteOK, Updating,
         Entry, Issued
<1> QED BY <1>1, MatchingInvariant, PTL

(* Whatever the requests of a user or of several do to each other, whoever *)
(* cancels and whichever Redis call fails, a room that was offered once    *)
(* goes to two users at the most.                                          *)
THEOREM RoomsAreForTwo == Spec => []RoomForTwo
<1>1. ASSUME MatchInv, NEW r \in Issued PROVE Cardinality(SentTo(r)) <= 2
  <2> DEFINE A == SentTo(r)
  <2>1. AtMostTwo(A)
    BY <1>1 DEF MatchInv, RoomsInv, RoomInv
  <2> HIDE DEF A
  <2>2. CASE A = {}
    BY <2>2, FS_EmptySet DEF A
  <2>3. CASE A # {}
    <3>1. PICK x \in A : TRUE
      BY <2>3
    <3>2. PICK y \in A : A \subseteq {x, y}
      BY <2>1, <3>1 DEF AtMostTwo
    <3>3. A = {x} \cup {y}
      BY <3>1, <3>2
    <3>4. IsFiniteSet({x}) /\ Cardinality({x}) = 1
      BY FS_Singleton
    <3>5. Cardinality({x} \cup {y}) \in {1, 2}
      BY <3>4, FS_AddElement
    <3> QED BY <3>3, <3>5 DEF A
  <2> QED BY <2>2, <2>3
<1>2. ASSUME MatchInv PROVE RoomForTwo
  BY <1>1, <1>2 DEF RoomForTwo, Issued
<1> QED BY <1>2, MatchingInvariant, PTL

(* What the inductive invariant counts is what the property counts. *)
LEMMA SlackIsOverDue ==
    ASSUME TypeInv
    PROVE  Slack = Len(matchingQueue) - Due
<1>1. Len(matchingQueue) \in Nat /\ Len(roomList) \in Nat /\ requests \in Nat /\ offers \in Nat
  BY Numbers
<1>2. PICK a, b, c, d \in {0, 1} :
         /\ a = InHand(complete.at, {"dequeue1"}) /\ b = InHand(complete.at, {"dequeue2"})
         /\ c = InHand(req.at, {"state2", "push"}) /\ d = InHand(req.at, {"state1", "enqueue2"})
  BY DEF InHand
<1>3. CompleteDue = 2 * a + b
  BY <1>2 DEF CompleteDue, InHand
<1>4. ReqDue = 2 * c + d
  BY <1>2 DEF ReqDue, InHand
<1>5. PICK q, s \in Nat : q = Len(matchingQueue) /\ s = requests + offers + Len(roomList)
  BY <1>1
<1>6. Slack = q - 2 * s - (2 * a + b) - (2 * c + d)
  BY <1>3, <1>4, <1>5 DEF Slack
<1>7. Due = 2 * (s + a + c) + b + d
  BY <1>2, <1>5 DEF Due
<1>8. q - 2 * s - (2 * a + b) - (2 * c + d) = q - (2 * (s + a + c) + b + d)
  OBVIOUS
<1> QED BY <1>5, <1>6, <1>7, <1>8

(* Likewise, and whatever the worker misses in the dictionary: a room that *)
(* comes back from Redis finds two users to take.                          *)
THEOREM RoomsFindUsers == Spec => []RoomsFindPairs
<1>1. ASSUME MatchInv PROVE RoomsFindPairs
  <2>1. TypeInv /\ Slack \in Nat
    BY <1>1 DEF MatchInv, DueInv
  <2>2. Len(matchingQueue) \in Nat /\ Slack = Len(matchingQueue) - Due
    BY <2>1, Numbers, SlackIsOverDue
  <2>3. Due \in Int
    <3>1. /\ InHand(complete.at, {"dequeue1"}) \in Nat /\ InHand(complete.at, {"dequeue2"}) \in Nat
          /\ InHand(req.at, {"state2", "push"}) \in Nat /\ InHand(req.at, {"state1", "enqueue2"}) \in Nat
      BY DEF InHand
    <3> QED BY <2>1, <3>1, Numbers DEF Due
  <2> QED BY <2>1, <2>2, <2>3 DEF RoomsFindPairs
<1> QED BY <1>1, MatchingInvariant, PTL
=============================================================================
