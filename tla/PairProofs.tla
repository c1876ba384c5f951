----------------------------- MODULE PairProofs -----------------------------
(***************************************************************************)
(* Proofs about module MatchingServer while nobody cancels and no two      *)
(* requests of one user overlap (Serial), for any number of users and of   *)
(* Redis calls that fail: pairs and rooms keep step, and whoever shares a  *)
(* room was matched with each other.                                       *)
(***************************************************************************)
EXTENDS MatchProofs

(* A user in a queue, and at one position of it only. *)
Idx(q, u, k) == k \in DOMAIN q /\ q[k] = u
Has(q, u)    == \E k \in Nat : Idx(q, u, k)
Once(q, u)   == \A j, k \in Nat : Idx(q, u, j) /\ Idx(q, u, k) => j = k

(* Where a user can be beside the dictionary: in one of the two queues, or *)
(* in the hand of one of the two workers, which may have seen him in the   *)
(* dictionary.                                                             *)
Waits(u)      == Has(waitingQueue, u)
Matched(u)    == Has(matchingQueue, u)
ReqFirst(u)   == req.at \in {"first", "second", "requeue", "enqueue1"} /\ u = req.user1
ReqSecond(u)  == req.at \in {"second", "enqueue1", "state1", "enqueue2"} /\ u = req.user2
FirstSeen(u)  == req.at \in {"second", "requeue", "enqueue1"} /\ u = req.user1
SecondSeen(u) == req.at \in {"enqueue1", "state1", "enqueue2"} /\ u = req.user2
ComFirst(u)   == complete.at \in {"dequeue2", "state1"} /\ u = complete.user1
ComSecond(u)  == complete.at \in {"state1", "find1", "room1", "state2"} /\ u = complete.user2

Placed(u) == \/ Waits(u) \/ Matched(u)
             \/ ReqFirst(u) \/ ReqSecond(u) \/ ComFirst(u) \/ ComSecond(u)

(* A user whom an answer cannot take out of the dictionary, and whom it    *)
(* can; the request of a user that is under way.                           *)
Ready(u) == InDict(u) /\ Current(u).state # Complete
Done(u)  == InDict(u) /\ Current(u).state = Complete

At(u, w)   == \E n \in 1 .. MaxHandlers : handler[<<u, n>>].at = w
OneBusy(u) == \A m, n \in 1 .. MaxHandlers :
                 handler[<<u, m>>].at # "idle" /\ handler[<<u, n>>].at # "idle" => m = n
RefOK(u)   == \A n \in 1 .. MaxHandlers :
                 handler[<<u, n>>].at = "removing" => handler[<<u, n>>].ref = matchingDict[u]

(* A user is in one place at the most. *)
OnePlace(u) ==
    /\ Once(waitingQueue, u) /\ Once(matchingQueue, u)
    /\ Waits(u) => ~(Matched(u) \/ ReqFirst(u) \/ ReqSecond(u) \/ ComFirst(u) \/ ComSecond(u))
    /\ Matched(u) => ~(ReqFirst(u) \/ ReqSecond(u) \/ ComFirst(u) \/ ComSecond(u))
    /\ ReqFirst(u) => ~(ReqSecond(u) \/ ComFirst(u) \/ ComSecond(u))
    /\ ReqSecond(u) => ~(ComFirst(u) \/ ComSecond(u))
    /\ ComFirst(u) => ~ComSecond(u)

(* Who is in a place is in the dictionary, or his request is between the   *)
(* queue and the dictionary; past the check of the pair only the former.   *)
InPlace(u) ==
    /\ Placed(u) => Ready(u) \/ At(u, "queued")
    /\ Matched(u) \/ ComFirst(u) \/ ComSecond(u) \/ FirstSeen(u) \/ SecondSeen(u) => Ready(u)
    /\ At(u, "missing") \/ At(u, "queued") => ~InDict(u)
    /\ At(u, "removing") => Done(u)

UserInv(u) == OnePlace(u) /\ InPlace(u) /\ OneBusy(u) /\ RefOK(u)

(* The user whose state is still to be written is at the end of the        *)
(* matching queue.                                                         *)
TailInv ==
    /\ req.at \in {"state1", "enqueue2"} =>
          Len(matchingQueue) >= 1 /\ matchingQueue[Len(matchingQueue)] = req.user1
    /\ req.at = "state2" =>
          Len(matchingQueue) >= 1 /\ matchingQueue[Len(matchingQueue)] = req.user2

(* Only whole pairs can be in the queue for nothing, and only after a      *)
(* Redis call has failed.                                                  *)
KeepStep == \E s \in Nat : Slack = 2 * s /\ (failures = 0 => s = 0)

PairInv ==
    /\ cancels \in Nat /\ overlaps \in Nat /\ failures \in Nat
    /\ Serial => (\A u \in Users : UserInv(u)) /\ TailInv /\ KeepStep

(* What a step needs of the invariant, and what it has to show. *)
Core == MatchInv /\ MatchInv' /\ (\A u \in Users : UserInv(u)) /\ TailInv /\ KeepStep
Kept == (\A u \in Users : UserInv(u)') /\ TailInv'
-----------------------------------------------------------------------------
(* Queues. *)
LEMMA Indexes ==
    ASSUME NEW q \in Seq(Users)
    PROVE  /\ Len(q) \in Nat /\ DOMAIN q = 1 .. Len(q)
           /\ \A k \in DOMAIN q : q[k] \in Users /\ k \in Nat
BY LenProperties, ElementOfSeq

LEMMA AppendHas ==
    ASSUME NEW q \in Seq(Users), NEW x \in Users
    PROVE  /\ Append(q, x) \in Seq(Users) /\ Len(Append(q, x)) = Len(q) + 1
           /\ \A k \in 1 .. Len(q) : Append(q, x)[k] = q[k]
           /\ Append(q, x)[Len(q) + 1] = x
           /\ \A u : Has(Append(q, x), u) <=> Has(q, u) \/ u = x
           /\ \A u : Once(q, u) /\ (u = x => ~Has(q, x)) => Once(Append(q, x), u)
<1>1. Len(q) \in Nat /\ DOMAIN q = 1 .. Len(q)
  BY Indexes
<1>2. /\ Append(q, x) \in Seq(Users) /\ Len(Append(q, x)) = Len(q) + 1
      /\ \A k \in 1 .. Len(q) : Append(q, x)[k] = q[k]
      /\ Append(q, x)[Len(q) + 1] = x
  BY AppendProperties
<1>3. DOMAIN Append(q, x) = 1 .. Len(q) + 1
  BY <1>2, LenProperties
<1>4. \A u : \A k \in Nat : Idx(Append(q, x), u, k) <=> Idx(q, u, k) \/ (k = Len(q) + 1 /\ u = x)
  BY <1>1, <1>2, <1>3 DEF Idx
<1>5. Len(q) + 1 \in Nat /\ \A u : \A k : Idx(q, u, k) => k # Len(q) + 1
  BY <1>1 DEF Idx
<1> QED BY <1>2, <1>4, <1>5 DEF Has, Once

LEMMA TailHas ==
    ASSUME NEW q \in Seq(Users), q # <<>>
    PROVE  /\ Tail(q) \in Seq(Users) /\ Head(q) \in Users /\ Has(q, Head(q))
           /\ \A u : Once(q, u) => Once(Tail(q), u)
           /\ \A u : Has(Tail(q), u) => Has(q, u)
           /\ Once(q, Head(q)) => ~Has(Tail(q), Head(q))
<1>1. Len(q) \in Nat /\ DOMAIN q = 1 .. Len(q) /\ Len(q) >= 1
  BY Indexes, EmptySeq
<1>2. /\ Tail(q) \in Seq(Users) /\ Len(Tail(q)) = Len(q) - 1
      /\ \A k \in 1 .. Len(q) - 1 : Tail(q)[k] = q[k + 1]
      /\ Head(q) = q[1] /\ Head(q) \in Users
  BY HeadTailProperties
<1>3. DOMAIN Tail(q) = 1 .. Len(q) - 1
  BY <1>2, LenProperties
<1>4. \A u : \A k \in Nat : Idx(Tail(q), u, k) => k >= 1 /\ k + 1 \in Nat /\ Idx(q, u, k + 1)
  BY <1>1, <1>2, <1>3 DEF Idx
<1>5. Idx(q, Head(q), 1)
  BY <1>1, <1>2 DEF Idx
<1>6. \A u : Has(Tail(q), u) => Has(q, u)
  BY <1>4 DEF Has
<1>7. ASSUME NEW u, Once(q, u) PROVE Once(Tail(q), u)
  <2> SUFFICES ASSUME NEW j \in Nat, NEW k \in Nat, Idx(Tail(q), u, j), Idx(Tail(q), u, k)
               PROVE  j = k
    BY DEF Once
  <2>1. j + 1 = k + 1
    BY <1>4, <1>7 DEF Once
  <2> QED BY <2>1
<1>8. ASSUME Once(q, Head(q)), NEW k \in Nat, Idx(Tail(q), Head(q), k) PROVE FALSE
  <2>1. k + 1 = 1 /\ k >= 1
    BY <1>4, <1>5, <1>8 DEF Once
  <2> QED BY <2>1
<1> QED BY <1>2, <1>5, <1>6, <1>7, <1>8 DEF Has

(* What each predicate on users depends on. *)
LEMMA SameWaiting ==
    ASSUME UNCHANGED waitingQueue
    PROVE  \A v : (Waits(v)' <=> Waits(v)) /\ (Once(waitingQueue, v) => Once(waitingQueue', v))
BY DEF Waits

LEMMA SameMatching ==
    ASSUME UNCHANGED matchingQueue
    PROVE  \A v : (Matched(v)' <=> Matched(v)) /\ (Once(matchingQueue, v) => Once(matchingQueue', v))
BY DEF Matched

LEMMA SameReq ==
    ASSUME UNCHANGED req
    PROVE  \A v : /\ ReqFirst(v)' <=> ReqFirst(v)
                  /\ ReqSecond(v)' <=> ReqSecond(v)
                  /\ FirstSeen(v)' <=> FirstSeen(v)
                  /\ SecondSeen(v)' <=> SecondSeen(v)
BY DEF ReqFirst, ReqSecond, FirstSeen, SecondSeen

LEMMA SameComplete ==
    ASSUME UNCHANGED complete
    PROVE  \A v : (ComFirst(v)' <=> ComFirst(v)) /\ (ComSecond(v)' <=> ComSecond(v))
BY DEF ComFirst, ComSecond

LEMMA SameDict ==
    ASSUME UNCHANGED <<data, matchingDict>>
    PROVE  \A v : (InDict(v)' <=> InDict(v)) /\ (Ready(v)' <=> Ready(v)) /\ (Done(v)' <=> Done(v))
BY DEF InDict, Ready, Done, Current

LEMMA SameLanes ==
    ASSUME UNCHANGED <<handler, matchingDict>>
    PROVE  \A v : /\ OneBusy(v)' <=> OneBusy(v)
                  /\ RefOK(v)' <=> RefOK(v)
                  /\ \A w : At(v, w)' <=> At(v, w)
BY DEF OneBusy, RefOK, At

LEMMA SameTail ==
    ASSUME TailInv, UNCHANGED <<matchingQueue, req>>
    PROVE  TailInv'
BY DEF TailInv

(* The types that most steps need. *)
LEMMA Types ==
    ASSUME Core
    PROVE  /\ waitingQueue \in Seq(Users) /\ matchingQueue \in Seq(Users)
           /\ req \in HandType /\ complete \in HandType /\ Idle \in HandType /\ Idle.at = "idle"
           /\ Len(matchingQueue) \in Nat /\ Len(roomList) \in Nat
           /\ DictOK /\ HandlersOK
           /\ req.at # "idle" => req.user1 \in Users
           /\ req.at \notin {"idle", "first"} => req.user2 \in Users
           /\ req.at = "first" => waitingQueue # <<>>
<1>1. TypeInv
  BY DEF Core, MatchInv
<1>2. Idle \in HandType /\ Idle.at = "idle"
  BY DEF Idle, HandType, NoRoom
<1> QED BY <1>1, <1>2, Numbers DEF TypeInv, ReqOK, CompleteOK
-----------------------------------------------------------------------------
(* The HTTP handlers.  A request that nobody overlaps moves on.            *)
LEMMA LaneStep ==
    ASSUME HandlersOK, NEW u \in Users, NEW n \in 1 .. MaxHandlers, NEW f,
           handler' = [handler EXCEPT ![<<u, n>>] = f],
           OneBusy(u), handler[<<u, n>>].at # "idle" \/ ~Busy(u)
    PROVE  /\ OneBusy(u)'
           /\ \A w : w # "idle" => (At(u, w)' <=> f.at = w)
           /\ \A w : w # "idle" => (At(u, w) <=> handler[<<u, n>>].at = w)
           /\ (f.at = "removing" => f.ref = matchingDict'[u]) => RefOK(u)'
           /\ \A v \in Users : v # u =>
                 /\ OneBusy(v)' <=> OneBusy(v)
                 /\ \A w : At(v, w)' <=> At(v, w)
                 /\ matchingDict'[v] = matchingDict[v] => (RefOK(v)' <=> RefOK(v))
<1>1. \A v \in Users : \A m \in 1 .. MaxHandlers :
         handler'[<<v, m>>] = IF v = u /\ m = n THEN f ELSE handler[<<v, m>>]
  <2> SUFFICES ASSUME NEW v \in Users, NEW m \in 1 .. MaxHandlers
               PROVE  handler'[<<v, m>>] = IF v = u /\ m = n THEN f ELSE handler[<<v, m>>]
    OBVIOUS
  <2>1. <<v, m>> \in Handlers /\ <<u, n>> \in Handlers
    BY DEF Handlers
  <2>2. <<v, m>> = <<u, n>> <=> v = u /\ m = n
    OBVIOUS
  <2> QED BY <2>1, <2>2 DEF HandlersOK
<1>2. \A m \in 1 .. MaxHandlers : m # n => handler[<<u, m>>].at = "idle"
  BY DEF OneBusy, Busy
<1>3. \A v \in Users : v # u => \A m \in 1 .. MaxHandlers : handler'[<<v, m>>] = handler[<<v, m>>]
  BY <1>1
<1>4. handler'[<<u, n>>] = f /\ \A m \in 1 .. MaxHandlers : m # n => handler'[<<u, m>>].at = "idle"
  BY <1>1, <1>2
<1>5. OneBusy(u)'
  BY <1>4 DEF OneBusy
<1>6. ASSUME NEW w, w # "idle"
      PROVE  (At(u, w)' <=> f.at = w) /\ (At(u, w) <=> handler[<<u, n>>].at = w)
  <2>1. At(u, w) <=> handler[<<u, n>>].at = w
    BY <1>2, <1>6 DEF At
  <2>2. At(u, w)' <=> f.at = w
    BY <1>4, <1>6 DEF At
  <2> QED BY <2>1, <2>2
<1>7. (f.at = "removing" => f.ref = matchingDict'[u]) => RefOK(u)'
  BY <1>4 DEF RefOK
<1>8. ASSUME NEW v \in Users, v # u
      PROVE  /\ OneBusy(v)' <=> OneBusy(v)
             /\ \A w : At(v, w)' <=> At(v, w)
             /\ matchingDict'[v] = matchingDict[v] => (RefOK(v)' <=> RefOK(v))
  BY <1>3, <1>8 DEF OneBusy, At, RefOK
<1> QED BY <1>5, <1>6, <1>7, <1>8

LEMMA HandlerPair ==
    ASSUME NEW h \in Handlers
    PROVE  \E u \in Users : \E n \in 1 .. MaxHandlers : h = <<u, n>> /\ u = h[1]
BY DEF Handlers

(* Steps of a handler leave the workers alone. *)
Still == UNCHANGED <<matchingQueue, req, complete>>

LEMMA StillPlaces ==
    ASSUME Core, Still
    PROVE  /\ TailInv'
           /\ \A v : /\ Matched(v)' <=> Matched(v)
                     /\ ReqFirst(v)' <=> ReqFirst(v)
                     /\ ReqSecond(v)' <=> ReqSecond(v)
                     /\ FirstSeen(v)' <=> FirstSeen(v)
                     /\ SecondSeen(v)' <=> SecondSeen(v)
                     /\ ComFirst(v)' <=> ComFirst(v)
                     /\ ComSecond(v)' <=> ComSecond(v)
                     /\ Once(matchingQueue, v) => Once(matchingQueue', v)
<1>1. UNCHANGED matchingQueue /\ UNCHANGED req /\ UNCHANGED complete /\ TailInv
  BY DEF Still, Core
<1> QED BY <1>1, SameMatching, SameReq, SameComplete, SameTail

LEMMA StillOnePlace ==
    ASSUME Core, Still, UNCHANGED waitingQueue, NEW v \in Users
    PROVE  OnePlace(v)' /\ (Placed(v)' <=> Placed(v))
<1>1. UserInv(v)
  BY DEF Core
<1> QED BY <1>1, StillPlaces, SameWaiting DEF UserInv, OnePlace, Placed

LEMMA AddUserPairs ==
    ASSUME Core, NEW h \in Handlers, AddUser(h), ~Busy(h[1])
    PROVE  Kept
<1>1. PICK u \in Users, n \in 1 .. MaxHandlers : h = <<u, n>> /\ u = h[1]
  BY HandlerPair
<1>2. PICK f : f = [handler[h] EXCEPT !.at = IF InDict(u) THEN "added" ELSE "missing"]
  OBVIOUS
<1>3. /\ handler' = [handler EXCEPT ![<<u, n>>] = f] /\ HandlersOK
      /\ Still /\ UNCHANGED <<data, matchingDict>> /\ UNCHANGED waitingQueue
  BY <1>1, <1>2, Types DEF AddUser, HandlersOK, HandlerType, Still, worker, dict
<1>4. f.at = IF InDict(u) THEN "added" ELSE "missing"
  BY <1>2, Types DEF HandlersOK, HandlerType
<1>5. UserInv(u) /\ ~Busy(u)
  BY <1>1 DEF Core
<1>6. ASSUME NEW v \in Users PROVE UserInv(v)'
  <2>1. UserInv(v) /\ OnePlace(v)' /\ (Placed(v)' <=> Placed(v))
    BY <1>3, StillOnePlace DEF Core
  <2>2. CASE v = u
    <3>1. OneBusy(v)' /\ RefOK(v)'
      BY <1>3, <1>4, <1>5, <2>2, LaneStep DEF UserInv
    <3>2. /\ At(v, "missing")' => ~InDict(v)
          /\ ~At(v, "queued")' /\ ~At(v, "removing")' /\ ~At(v, "queued")
      <4>1. \A w : w # "idle" => (At(u, w)' <=> f.at = w)
        BY <1>3, <1>5, LaneStep DEF UserInv
      <4>2. ~At(u, "queued")
        BY <1>5 DEF At, Busy
      <4> QED BY <1>4, <2>2, <4>1, <4>2
    <3> QED BY <1>3, <2>1, <3>1, <3>2, StillPlaces, SameDict DEF UserInv, InPlace
  <2>3. CASE v # u
    <3>1. /\ OneBusy(v)' <=> OneBusy(v)
          /\ \A w : At(v, w)' <=> At(v, w)
          /\ RefOK(v)' <=> RefOK(v)
      BY <1>3, <1>5, <2>3, LaneStep DEF UserInv
    <3> QED BY <1>3, <2>1, <3>1, StillPlaces, SameDict DEF UserInv, InPlace
  <2> QED BY <2>2, <2>3
<1> QED BY <1>3, <1>6, StillPlaces DEF Kept

LEMMA EnqueuePairs ==
    ASSUME Core, NEW h \in Handlers, Enqueue(h)
    PROVE  Kept
<1>1. PICK u \in Users, n \in 1 .. MaxHandlers : h = <<u, n>> /\ u = h[1]
  BY HandlerPair
<1>2. PICK f : f = [handler[h] EXCEPT !.at = "queued"]
  OBVIOUS
<1>3. /\ handler' = [handler EXCEPT ![<<u, n>>] = f] /\ HandlersOK
      /\ handler[<<u, n>>].at = "missing" /\ waitingQueue' = Append(waitingQueue, u)
      /\ Still /\ UNCHANGED <<data, matchingDict>> /\ waitingQueue \in Seq(Users)
  BY <1>1, <1>2, Types DEF Enqueue, Still, worker, dict
<1>4. f.at = "queued"
  BY <1>2, Types DEF HandlersOK, HandlerType
<1>5. UserInv(u) /\ OneBusy(u) /\ handler[<<u, n>>].at # "idle"
  BY <1>3 DEF Core, UserInv
<1>6. \A w : w # "idle" => (At(u, w)' <=> f.at = w) /\ (At(u, w) <=> handler[<<u, n>>].at = w)
  BY <1>3, <1>5, LaneStep
<1>7. ~InDict(u) /\ ~Placed(u)
  <2>1. At(u, "missing") /\ ~At(u, "queued")
    BY <1>3, <1>6
  <2> QED BY <1>5, <2>1 DEF UserInv, InPlace, Ready
<1>8. \A v \in Users : /\ Waits(v)' <=> Waits(v) \/ v = u
                       /\ Once(waitingQueue, v) => Once(waitingQueue', v)
  BY <1>3, <1>7, AppendHas DEF Waits, Placed
<1>9. ASSUME NEW v \in Users PROVE UserInv(v)'
  <2>1. UserInv(v)
    BY DEF Core
  <2>2. CASE v = u
    <3>1. OneBusy(v)' /\ RefOK(v)'
      BY <1>3, <1>4, <1>5, <2>2, LaneStep
    <3>2. At(v, "queued")' /\ ~At(v, "missing")' /\ ~At(v, "removing")' /\ ~InDict(v)'
      BY <1>3, <1>4, <1>6, <1>7, <2>2, SameDict
    <3>3. OnePlace(v)'
      BY <1>3, <1>7, <1>8, <2>1, <2>2, StillPlaces DEF UserInv, OnePlace, Placed
    <3>4. ~(Matched(v)' \/ ComFirst(v)' \/ ComSecond(v)' \/ FirstSeen(v)' \/ SecondSeen(v)')
      BY <1>3, <1>7, <2>1, <2>2, StillPlaces DEF Placed, UserInv, InPlace, Ready
    <3> QED BY <3>1, <3>2, <3>3, <3>4 DEF UserInv, InPlace
  <2>3. CASE v # u
    <3>1. /\ OneBusy(v)' <=> OneBusy(v)
          /\ \A w : At(v, w)' <=> At(v, w)
          /\ RefOK(v)' <=> RefOK(v)
      BY <1>3, <1>5, <2>3, LaneStep
    <3>2. OnePlace(v)' /\ (Placed(v)' <=> Placed(v))
      BY <1>3, <1>8, <2>1, <2>3, StillPlaces DEF UserInv, OnePlace, Placed
    <3> QED BY <1>3, <2>1, <3>1, <3>2, StillPlaces, SameDict DEF UserInv, InPlace
  <2> QED BY <2>2, <2>3
<1> QED BY <1>3, <1>9, StillPlaces DEF Kept

(* What TryAdd does to the entries that the dictionary holds. *)
LEMMA NewcomerSeen ==
    ASSUME DictOK, NEW u \in Users, ~InDict(u), UNCHANGED roomsIssued,
           data' = [data EXCEPT ![u] = Append(@, NewData)],
           matchingDict' = [matchingDict EXCEPT ![u] = Len(data[u]) + 1]
    PROVE  /\ \A v \in Users : v # u => matchingDict'[v] = matchingDict[v] /\ data'[v] = data[v]
           /\ InDict(u)' /\ Current(u)' = NewData
<1>1. /\ DictOK'
      /\ \A v \in Users : \A i \in DOMAIN data'[v] :
            IF v = u /\ i = Len(data[u]) + 1 THEN data'[v][i] = NewData
            ELSE i \in DOMAIN data[v] /\ data'[v][i] = data[v][i]
  BY Added
<1>2. Len(data[u]) \in Nat /\ matchingDict'[u] = Len(data[u]) + 1
  BY Entries DEF DictOK
<1>3. InDict(u)'
  BY <1>2 DEF InDict
<1>4. matchingDict'[u] \in DOMAIN data'[u]
  <2>1. data'[u] \in Seq(Entry') /\ matchingDict'[u] <= Len(data'[u])
    BY <1>1 DEF DictOK
  <2>2. Len(data'[u]) \in Nat /\ DOMAIN data'[u] = 1 .. Len(data'[u])
    BY <2>1, LenProperties
  <2> QED BY <1>2, <2>1, <2>2
<1>5. Current(u)' = NewData
  BY <1>1, <1>2, <1>4 DEF Current
<1> QED BY <1>3, <1>5 DEF DictOK

LEMMA TryAddPairs ==
    ASSUME Core, NEW h \in Handlers, TryAdd(h)
    PROVE  Kept
<1>1. PICK u \in Users, n \in 1 .. MaxHandlers : h = <<u, n>> /\ u = h[1]
  BY HandlerPair
<1>2. PICK f : f = [handler[h] EXCEPT !.at = "added"]
  OBVIOUS
<1>3. /\ handler' = [handler EXCEPT ![<<u, n>>] = f] /\ HandlersOK /\ DictOK
      /\ handler[<<u, n>>].at = "queued"
      /\ Still /\ UNCHANGED waitingQueue /\ UNCHANGED roomsIssued
  BY <1>1, <1>2, Types DEF TryAdd, Still, worker, omok
<1>4. f.at = "added"
  BY <1>2, Types DEF HandlersOK, HandlerType
<1>5. UserInv(u) /\ OneBusy(u) /\ handler[<<u, n>>].at # "idle"
  BY <1>3 DEF Core, UserInv
<1>6. \A w : w # "idle" => (At(u, w)' <=> f.at = w) /\ (At(u, w) <=> handler[<<u, n>>].at = w)
  BY <1>3, <1>5, LaneStep
<1>7. ~InDict(u)
  <2>1. At(u, "queued")
    BY <1>3, <1>6
  <2> QED BY <1>5, <2>1 DEF UserInv, InPlace
<1>8. /\ data' = [data EXCEPT ![u] = Append(@, NewData)]
      /\ matchingDict' = [matchingDict EXCEPT ![u] = Len(data[u]) + 1]
  BY <1>1, <1>7 DEF TryAdd
<1>9. /\ \A v \in Users : v # u => matchingDict'[v] = matchingDict[v] /\ data'[v] = data[v]
      /\ InDict(u)' /\ Current(u)' = NewData
  BY <1>3, <1>7, <1>8, NewcomerSeen
<1>10. Ready(u)' /\ ~Done(u)'
  BY <1>9 DEF Ready, Done, NewData, Waiting, Complete
<1>11. ASSUME NEW v \in Users PROVE UserInv(v)'
  <2>1. UserInv(v) /\ OnePlace(v)' /\ (Placed(v)' <=> Placed(v))
    BY <1>3, StillOnePlace DEF Core
  <2>2. CASE v = u
    <3>1. OneBusy(v)' /\ RefOK(v)'
      BY <1>3, <1>4, <1>5, <2>2, LaneStep
    <3>2. ~At(v, "queued")' /\ ~At(v, "missing")' /\ ~At(v, "removing")'
      BY <1>4, <1>6, <2>2
    <3> QED BY <1>10, <2>1, <2>2, <3>1, <3>2 DEF UserInv, InPlace
  <2>3. CASE v # u
    <3>1. /\ OneBusy(v)' <=> OneBusy(v)
          /\ \A w : At(v, w)' <=> At(v, w)
          /\ RefOK(v)' <=> RefOK(v)
      BY <1>3, <1>5, <1>9, <2>3, LaneStep
    <3>2. (InDict(v)' <=> InDict(v)) /\ (Ready(v)' <=> Ready(v)) /\ (Done(v)' <=> Done(v))
      BY <1>9, <2>3 DEF InDict, Ready, Done, Current
    <3> QED BY <1>3, <2>1, <3>1, <3>2, StillPlaces DEF UserInv, InPlace
  <2> QED BY <2>2, <2>3
<1> QED BY <1>3, <1>11, StillPlaces DEF Kept

LEMMA GetMatchingDataPairs ==
    ASSUME Core, NEW h \in Handlers, GetMatchingData(h)
    PROVE  Kept
<1>1. PICK u \in Users, n \in 1 .. MaxHandlers : h = <<u, n>> /\ u = h[1]
  BY HandlerPair
<1>2. PICK f : f = IF Done(u) THEN [at |-> "removing", ref |-> matchingDict[u]] ELSE Free
  OBVIOUS
<1>3. /\ handler' = [handler EXCEPT ![<<u, n>>] = f] /\ HandlersOK
      /\ handler[<<u, n>>].at = "added"
      /\ Still /\ UNCHANGED <<data, matchingDict>> /\ UNCHANGED waitingQueue
  BY <1>1, <1>2, Types DEF GetMatchingData, Still, worker, dict, Done
<1>4. /\ f.at \in {"removing", "idle"}
      /\ f.at = "removing" => Done(u) /\ f.ref = matchingDict[u]
  BY <1>2 DEF Free
<1>5. UserInv(u) /\ OneBusy(u) /\ handler[<<u, n>>].at # "idle"
  BY <1>3 DEF Core, UserInv
<1>6. \A w : w # "idle" => (At(u, w)' <=> f.at = w) /\ (At(u, w) <=> handler[<<u, n>>].at = w)
  BY <1>3, <1>5, LaneStep
<1>7. ASSUME NEW v \in Users PROVE UserInv(v)'
  <2>1. UserInv(v) /\ OnePlace(v)' /\ (Placed(v)' <=> Placed(v))
    BY <1>3, StillOnePlace DEF Core
  <2>2. CASE v = u
    <3>1. OneBusy(v)' /\ RefOK(v)'
      BY <1>3, <1>4, <1>5, <2>2, LaneStep
    <3>2. /\ ~At(v, "queued")' /\ ~At(v, "missing")' /\ ~At(v, "queued")
          /\ At(v, "removing")' => Done(v)
      BY <1>3, <1>4, <1>6, <2>2
    <3> QED BY <1>3, <2>1, <3>1, <3>2, StillPlaces, SameDict DEF UserInv, InPlace
  <2>3. CASE v # u
    <3>1. /\ OneBusy(v)' <=> OneBusy(v)
          /\ \A w : At(v, w)' <=> At(v, w)
          /\ RefOK(v)' <=> RefOK(v)
      BY <1>3, <1>5, <2>3, LaneStep
    <3> QED BY <1>3, <2>1, <3>1, StillPlaces, SameDict DEF UserInv, InPlace
  <2> QED BY <2>2, <2>3
<1> QED BY <1>3, <1>7, StillPlaces DEF Kept

(* The user who is answered is in no place: his match is complete. *)
LEMMA AnswerPairs ==
    ASSUME Core, NEW h \in Handlers, Answer(h)
    PROVE  Kept
<1>1. PICK u \in Users, n \in 1 .. MaxHandlers : h = <<u, n>> /\ u = h[1]
  BY HandlerPair
<1>2. /\ handler' = [handler EXCEPT ![<<u, n>>] = Free] /\ HandlersOK /\ DictOK
      /\ handler[<<u, n>>].at = "removing" /\ matchingDict' = [matchingDict EXCEPT ![u] = 0]
      /\ Still /\ UNCHANGED waitingQueue /\ UNCHANGED data
  BY <1>1, Types DEF Answer, Still, worker
<1>3. UserInv(u) /\ OneBusy(u) /\ handler[<<u, n>>].at # "idle" /\ Free.at = "idle"
  BY <1>2 DEF Core, UserInv, Free
<1>4. \A w : w # "idle" => ~At(u, w)' /\ (At(u, w) <=> handler[<<u, n>>].at = w)
  BY <1>2, <1>3, LaneStep
<1>5. ~Placed(u) /\ ~FirstSeen(u) /\ ~SecondSeen(u)
  <2>1. At(u, "removing") /\ ~At(u, "queued")
    BY <1>2, <1>4
  <2> QED BY <1>3, <2>1 DEF UserInv, InPlace, Ready, Done
<1>6. \A v \in Users : v # u => matchingDict'[v] = matchingDict[v]
  BY <1>2 DEF DictOK
<1>7. ASSUME NEW v \in Users PROVE UserInv(v)'
  <2>1. UserInv(v) /\ OnePlace(v)' /\ (Placed(v)' <=> Placed(v))
    BY <1>2, StillOnePlace DEF Core
  <2>2. CASE v = u
    <3>1. OneBusy(v)' /\ RefOK(v)'
      BY <1>2, <1>3, <2>2, LaneStep
    <3>2. ~At(v, "queued")' /\ ~At(v, "missing")' /\ ~At(v, "removing")'
      BY <1>4, <2>2
    <3> QED BY <1>2, <1>5, <2>1, <2>2, <3>1, <3>2, StillPlaces DEF UserInv, InPlace, Placed
  <2>3. CASE v # u
    <3>1. /\ OneBusy(v)' <=> OneBusy(v)
          /\ \A w : At(v, w)' <=> At(v, w)
          /\ RefOK(v)' <=> RefOK(v)
      BY <1>2, <1>3, <1>6, <2>3, LaneStep
    <3>2. (InDict(v)' <=> InDict(v)) /\ (Ready(v)' <=> Ready(v)) /\ (Done(v)' <=> Done(v))
      BY <1>2, <1>6, <2>3 DEF InDict, Ready, Done, Current
    <3> QED BY <1>2, <2>1, <3>1, <3>2, StillPlaces DEF UserInv, InPlace
  <2> QED BY <2>2, <2>3
<1> QED BY <1>2, <1>7, StillPlaces DEF Kept
-----------------------------------------------------------------------------
(* The worker that makes pairs, which touches neither the handlers nor the *)
(* other worker's hand.                                                    *)
LEMMA SameUsers ==
    ASSUME Core, UNCHANGED <<dict, complete, handler>>, NEW v \in Users
    PROVE  /\ UserInv(v)
           /\ ComFirst(v)' <=> ComFirst(v)
           /\ ComSecond(v)' <=> ComSecond(v)
           /\ InDict(v)' <=> InDict(v)
           /\ Ready(v)' <=> Ready(v)
           /\ Done(v)' <=> Done(v)
           /\ OneBusy(v)' <=> OneBusy(v)
           /\ RefOK(v)' <=> RefOK(v)
           /\ \A w : At(v, w)' <=> At(v, w)
<1>1. /\ UNCHANGED <<data, matchingDict>> /\ UNCHANGED complete
      /\ UNCHANGED <<handler, matchingDict>>
  BY DEF dict
<1> QED BY <1>1, SameComplete, SameDict, SameLanes DEF Core

LEMMA DequeueFirstPairs ==
    ASSUME Core, DequeueFirst
    PROVE  Kept
<1>1. PICK x : x = Head(waitingQueue)
  OBVIOUS
<1>2. /\ UNCHANGED <<dict, complete, handler>> /\ UNCHANGED matchingQueue
      /\ req.at = "idle" /\ waitingQueue' = Tail(waitingQueue)
  BY DEF DequeueFirst
<1>3. waitingQueue # <<>> /\ waitingQueue \in Seq(Users)
  BY Types, EmptySeq DEF DequeueFirst
<1>4. req'.at = "first" /\ req'.user1 = x
  BY <1>1, Types DEF DequeueFirst, HandType
<1>5. /\ x \in Users /\ Waits(x) /\ UserInv(x)
      /\ \A v \in Users : /\ Waits(v)' => Waits(v) /\ v # x
                          /\ Once(waitingQueue, v) => Once(waitingQueue', v)
  <2>1. x \in Users /\ Waits(x) /\ UserInv(x)
    BY <1>1, <1>3, TailHas DEF Waits, Core
  <2>2. Once(waitingQueue, x)
    BY <2>1 DEF UserInv, OnePlace
  <2> QED BY <1>1, <1>2, <1>3, <2>1, <2>2, TailHas DEF Waits
<1>6. \A v \in Users : /\ ReqFirst(v)' <=> v = x
                       /\ ~ReqSecond(v)' /\ ~FirstSeen(v)' /\ ~SecondSeen(v)'
                       /\ ~ReqFirst(v) /\ ~ReqSecond(v)
  BY <1>2, <1>4 DEF ReqFirst, ReqSecond, FirstSeen, SecondSeen
<1>7. ASSUME NEW v \in Users PROVE UserInv(v)'
  BY <1>2, <1>5, <1>6, SameMatching, SameUsers DEF UserInv, OnePlace, InPlace, Placed
<1>8. TailInv'
  BY <1>4 DEF TailInv
<1> QED BY <1>7, <1>8 DEF Kept

LEMMA DequeueSecondPairs ==
    ASSUME Core, DequeueSecond
    PROVE  Kept
<1>1. PICK x : x = Head(waitingQueue)
  OBVIOUS
<1>2. /\ UNCHANGED <<dict, complete, handler>> /\ UNCHANGED matchingQueue
      /\ req.at = "first" /\ waitingQueue # <<>> /\ waitingQueue \in Seq(Users)
      /\ req.user1 \in Users
  BY Types DEF DequeueSecond
<1>3. TailInv'
  <2>1. req'.at \in {"second", "idle"}
    BY Types DEF DequeueSecond, HandType
  <2> QED BY <2>1 DEF TailInv
<1>4. CASE InDict(req.user1)
  <2>1. /\ waitingQueue' = Tail(waitingQueue)
        /\ req'.at = "second" /\ req'.user1 = req.user1 /\ req'.user2 = x
    BY <1>1, <1>2, <1>4, Types DEF DequeueSecond, HandType
  <2>2. /\ x \in Users /\ Waits(x) /\ UserInv(x)
        /\ \A v \in Users : /\ Waits(v)' => Waits(v) /\ v # x
                            /\ Once(waitingQueue, v) => Once(waitingQueue', v)
    <3>1. x \in Users /\ Waits(x) /\ UserInv(x)
      BY <1>1, <1>2, TailHas DEF Waits, Core
    <3>2. Once(waitingQueue, x)
      BY <3>1 DEF UserInv, OnePlace
    <3> QED BY <1>1, <1>2, <2>1, <3>1, <3>2, TailHas DEF Waits
  <2>3. \A v \in Users : /\ ReqFirst(v)' <=> ReqFirst(v)
                         /\ FirstSeen(v)' => v = req.user1
                         /\ ReqSecond(v)' <=> v = x
                         /\ ~ReqSecond(v) /\ ~SecondSeen(v)'
    BY <1>2, <2>1 DEF ReqFirst, ReqSecond, FirstSeen, SecondSeen
  <2>4. Ready(req.user1)
    <3>1. ReqFirst(req.user1)
      BY <1>2 DEF ReqFirst
    <3> QED BY <1>2, <1>4, <3>1 DEF Core, UserInv, InPlace, Placed
  <2>5. ASSUME NEW v \in Users PROVE UserInv(v)'
    BY <1>2, <2>2, <2>3, <2>4, SameMatching, SameUsers DEF UserInv, OnePlace, InPlace, Placed
  <2> QED BY <1>3, <2>5 DEF Kept
<1>5. CASE ~InDict(req.user1)
  <2>1. waitingQueue' = waitingQueue /\ req'.at = "idle"
    BY <1>5, Types DEF DequeueSecond
  <2>2. \A v \in Users : /\ ~ReqFirst(v)' /\ ~ReqSecond(v)'
                         /\ ~FirstSeen(v)' /\ ~SecondSeen(v)'
    BY <2>1 DEF ReqFirst, ReqSecond, FirstSeen, SecondSeen
  <2>3. ASSUME NEW v \in Users PROVE UserInv(v)'
    BY <1>2, <2>1, <2>2, SameMatching, SameWaiting, SameUsers
       DEF UserInv, OnePlace, InPlace, Placed
  <2> QED BY <1>3, <2>3 DEF Kept
<1> QED BY <1>4, <1>5

LEMMA CheckSecondPairs ==
    ASSUME Core, CheckSecond
    PROVE  Kept
<1>1. /\ UNCHANGED <<dict, complete, handler>> /\ UNCHANGED matchingQueue /\ UNCHANGED waitingQueue
      /\ req.at = "second" /\ req.user1 \in Users /\ req.user2 \in Users
  BY Types DEF CheckSecond
<1>2. /\ req'.at = IF InDict(req.user2) THEN "enqueue1" ELSE "requeue"
      /\ req'.user1 = req.user1 /\ req'.user2 = req.user2
  BY <1>1, Types DEF CheckSecond, HandType
<1>3. TailInv'
  BY <1>2 DEF TailInv
<1>4. \A v \in Users : /\ ReqFirst(v)' <=> ReqFirst(v)
                       /\ ReqSecond(v)' => ReqSecond(v)
                       /\ FirstSeen(v)' => FirstSeen(v)
                       /\ SecondSeen(v)' => v = req.user2 /\ InDict(req.user2)
  BY <1>1, <1>2 DEF ReqFirst, ReqSecond, FirstSeen, SecondSeen
<1>5. InDict(req.user2) => Ready(req.user2)
  <2>1. ReqSecond(req.user2)
    BY <1>1 DEF ReqSecond
  <2> QED BY <1>1, <2>1 DEF Core, UserInv, InPlace, Placed
<1>6. ASSUME NEW v \in Users PROVE UserInv(v)'
  BY <1>1, <1>4, <1>5, SameMatching, SameWaiting, SameUsers
     DEF UserInv, OnePlace, InPlace, Placed
<1> QED BY <1>3, <1>6 DEF Kept

LEMMA RequeuePairs ==
    ASSUME Core, Requeue
    PROVE  Kept
<1>1. PICK x : x = req.user1
  OBVIOUS
<1>2. /\ UNCHANGED <<dict, complete, handler>> /\ UNCHANGED matchingQueue
      /\ req.at = "requeue" /\ x \in Users /\ waitingQueue \in Seq(Users)
      /\ waitingQueue' = Append(waitingQueue, x) /\ req'.at = "idle"
  BY <1>1, Types DEF Requeue
<1>3. TailInv'
  BY <1>2 DEF TailInv
<1>4. ReqFirst(x) /\ UserInv(x)
  BY <1>1, <1>2 DEF ReqFirst, Core
<1>5. ~Has(waitingQueue, x)
  BY <1>4 DEF UserInv, OnePlace, Waits
<1>6. \A v \in Users : /\ Waits(v)' <=> Waits(v) \/ v = x
                       /\ Once(waitingQueue, v) => Once(waitingQueue', v)
  BY <1>2, <1>5, AppendHas DEF Waits
<1>7. \A v \in Users : ~ReqFirst(v)' /\ ~ReqSecond(v)' /\ ~FirstSeen(v)' /\ ~SecondSeen(v)'
  BY <1>2 DEF ReqFirst, ReqSecond, FirstSeen, SecondSeen
<1>8. ASSUME NEW v \in Users PROVE UserInv(v)'
  BY <1>2, <1>4, <1>6, <1>7, SameMatching, SameUsers DEF UserInv, OnePlace, InPlace, Placed
<1> QED BY <1>3, <1>8 DEF Kept

(* StartMatching: a user goes to the end of the matching queue, and stays  *)
(* there until his state is written, so that the state is always written.  *)
LEMMA EnqueueMatchingPairs ==
    ASSUME Core, NEW from, NEW x, NEW to, EnqueueMatching(from, x, to),
           \/ from = "enqueue1" /\ x = req.user1 /\ to = "state1"
           \/ from = "enqueue2" /\ x = req.user2 /\ to = "state2"
    PROVE  Kept
<1>1. /\ UNCHANGED <<dict, complete, handler>> /\ UNCHANGED waitingQueue
      /\ req.at = from /\ matchingQueue' = Append(matchingQueue, x)
      /\ matchingQueue \in Seq(Users)
  BY Types DEF EnqueueMatching
<1>2. /\ req'.at = to /\ req'.user1 = req.user1 /\ req'.user2 = req.user2
      /\ req.user1 \in Users /\ req.user2 \in Users /\ x \in Users
  BY <1>1, Types DEF EnqueueMatching, HandType
<1>3. UserInv(x) /\ (ReqFirst(x) \/ ReqSecond(x)) /\ Ready(x)
  <2>1. UserInv(x) /\ (ReqFirst(x) \/ ReqSecond(x)) /\ (FirstSeen(x) \/ SecondSeen(x))
    BY <1>1, <1>2 DEF ReqFirst, ReqSecond, FirstSeen, SecondSeen, Core
  <2> QED BY <2>1 DEF UserInv, InPlace
<1>4. ~Waits(x) /\ ~Matched(x) /\ ~ComFirst(x) /\ ~ComSecond(x)
  BY <1>3 DEF UserInv, OnePlace
<1>5. \A v \in Users : /\ Matched(v)' <=> Matched(v) \/ v = x
                       /\ Once(matchingQueue, v) => Once(matchingQueue', v)
  BY <1>1, <1>2, <1>4, AppendHas DEF Matched
<1>6. \A v \in Users : /\ ReqFirst(v)' => ReqFirst(v) /\ v # x
                       /\ ReqSecond(v)' => ReqSecond(v) /\ v # x
                       /\ ~FirstSeen(v)' /\ (SecondSeen(v)' => SecondSeen(v))
  <2>1. CASE from = "enqueue1"
    <3>1. ReqFirst(x) /\ ~ReqSecond(x)
      BY <1>1, <1>2, <1>3, <2>1 DEF ReqFirst, UserInv, OnePlace
    <3> QED BY <1>1, <1>2, <2>1, <3>1 DEF ReqFirst, ReqSecond, FirstSeen, SecondSeen
  <2>2. CASE from = "enqueue2"
    BY <1>1, <1>2, <2>2 DEF ReqFirst, ReqSecond, FirstSeen, SecondSeen
  <2> QED BY <1>1, <2>1, <2>2
<1>7. ASSUME NEW v \in Users PROVE UserInv(v)'
  <2>1. CASE v = x
    BY <1>1, <1>3, <1>4, <1>5, <1>6, <2>1, SameWaiting, SameUsers
       DEF UserInv, OnePlace, InPlace, Placed
  <2>2. CASE v # x
    BY <1>1, <1>5, <1>6, <2>2, SameWaiting, SameUsers
       DEF UserInv, OnePlace, InPlace, Placed
  <2> QED BY <2>1, <2>2
<1>8. /\ Len(matchingQueue') = Len(matchingQueue) + 1 /\ Len(matchingQueue) \in Nat
      /\ matchingQueue'[Len(matchingQueue) + 1] = x
  BY <1>1, <1>2, AppendHas, Types
<1>9. TailInv'
  BY <1>1, <1>2, <1>8 DEF TailInv
<1> QED BY <1>7, <1>9 DEF Kept

LEMMA AtTheEnd ==
    ASSUME Core, \/ req.at = "state1" \/ req.at = "state2",
           NEW x, x = IF req.at = "state1" THEN req.user1 ELSE req.user2
    PROVE  x \in Users /\ Matched(x) /\ Ready(x) /\ InDict(x)
<1>1. /\ matchingQueue \in Seq(Users) /\ Len(matchingQueue) \in Nat
      /\ Len(matchingQueue) >= 1 /\ matchingQueue[Len(matchingQueue)] = x
      /\ x \in Users
  BY Types DEF Core, TailInv
<1>2. Idx(matchingQueue, x, Len(matchingQueue))
  BY <1>1, Indexes DEF Idx
<1>3. Matched(x)
  BY <1>1, <1>2 DEF Matched, Has
<1> QED BY <1>1, <1>3 DEF Core, UserInv, InPlace, Ready

(* What writing a state does to the users. *)
LEMMA StateSeen ==
    ASSUME DictOK, NEW u \in Users, InDict(u), NEW s \in {Waiting, Matching, Complete},
           SetState(u, s)
    PROVE  /\ \A v \in Users : InDict(v)' <=> InDict(v)
           /\ \A v \in Users : v # u => (Ready(v)' <=> Ready(v)) /\ (Done(v)' <=> Done(v))
           /\ Ready(u)' <=> s # Complete
           /\ Done(u)' <=> s = Complete
           /\ UNCHANGED matchingDict
           /\ \A v \in Users : InDict(v) => Current(v)'.room = Current(v).room
<1>1. PICK j : j = matchingDict[u]
  OBVIOUS
<1>2. j \in DOMAIN data[u] /\ data[u][j] \in Entry /\ data[u] \in Seq(Entry)
  BY <1>1, Entries DEF Current
<1>3. PICK e : e = [data[u][j] EXCEPT !.state = s]
  OBVIOUS
<1>4. e.state = s /\ e.room = data[u][j].room
  BY <1>2, <1>3 DEF Entry
<1>5. data' = [data EXCEPT ![u] = [data[u] EXCEPT ![j] = e]] /\ UNCHANGED matchingDict
  BY <1>1, <1>3 DEF SetState
<1>6. /\ \A v \in Users : v # u => data'[v] = data[v]
      /\ data'[u][j] = e
  BY <1>2, <1>5 DEF DictOK
<1> QED BY <1>1, <1>4, <1>5, <1>6 DEF InDict, Ready, Done, Current

LEMMA SetMatchingPairs ==
    ASSUME Core, NEW from, NEW x, NEW to, SetMatching(from, x, to),
           \/ from = "state1" /\ x = req.user1 /\ to = "enqueue2"
           \/ from = "state2" /\ x = req.user2 /\ to = "push"
    PROVE  Kept
<1>1. /\ UNCHANGED waitingQueue /\ UNCHANGED matchingQueue /\ UNCHANGED complete
      /\ UNCHANGED handler /\ req.at = from /\ DictOK
  BY Types DEF SetMatching
<1>2. x \in Users /\ Matched(x) /\ Ready(x) /\ InDict(x)
  BY <1>1, AtTheEnd
<1>3. /\ req'.at = to /\ req'.user1 = req.user1 /\ req'.user2 = req.user2
      /\ SetState(x, Matching)
  BY <1>1, <1>2, Types DEF SetMatching, HandType
<1>4. /\ \A v \in Users : InDict(v)' <=> InDict(v)
      /\ \A v \in Users : v # x => (Ready(v)' <=> Ready(v)) /\ (Done(v)' <=> Done(v))
      /\ Ready(x)' <=> Matching # Complete
      /\ Done(x)' <=> Matching = Complete
      /\ UNCHANGED matchingDict
  BY <1>1, <1>2, <1>3, StateSeen DEF Waiting, Matching, Complete
<1>5. \A v \in Users : (Ready(v)' <=> Ready(v)) /\ (Done(v)' <=> Done(v))
  BY <1>2, <1>4 DEF Matching, Complete, Ready, Done
<1>6. \A v \in Users : /\ ReqFirst(v)' => ReqFirst(v)
                       /\ ReqSecond(v)' => ReqSecond(v)
                       /\ FirstSeen(v)' => FirstSeen(v)
                       /\ SecondSeen(v)' => SecondSeen(v)
  BY <1>1, <1>3 DEF ReqFirst, ReqSecond, FirstSeen, SecondSeen
<1>7. ASSUME NEW v \in Users PROVE UserInv(v)'
  <2>1. UserInv(v)
    BY DEF Core
  <2> QED BY <1>1, <1>4, <1>5, <1>6, <2>1, SameWaiting, SameMatching, SameComplete, SameLanes
          DEF UserInv, OnePlace, InPlace, Placed
<1>8. TailInv'
  BY <1>1, <1>3 DEF Core, TailInv
<1> QED BY <1>7, <1>8 DEF Kept

LEMMA PushPairs ==
    ASSUME Core, PushMatchingRequestToRedis \/ PushThrows
    PROVE  Kept
<1>1. /\ UNCHANGED <<dict, complete, handler>> /\ UNCHANGED waitingQueue /\ UNCHANGED matchingQueue
      /\ req'.at = "idle"
  BY Types DEF PushMatchingRequestToRedis, PushThrows
<1>2. \A v : ~ReqFirst(v)' /\ ~ReqSecond(v)' /\ ~FirstSeen(v)' /\ ~SecondSeen(v)'
  BY <1>1 DEF ReqFirst, ReqSecond, FirstSeen, SecondSeen
<1>3. ASSUME NEW v \in Users PROVE UserInv(v)'
  BY <1>1, <1>2, SameMatching, SameWaiting, SameUsers DEF UserInv, OnePlace, InPlace, Placed
<1>4. TailInv'
  BY <1>1 DEF TailInv
<1> QED BY <1>3, <1>4 DEF Kept

LEMMA RunMatchingPairs ==
    ASSUME Core, RunMatching \/ PushThrows
    PROVE  Kept
<1>1. PICK v, w : v = req.user1 /\ w = req.user2
  OBVIOUS
<1>2. CASE StartMatching
  <2>1. CASE EnqueueMatching("enqueue1", req.user1, "state1") \/ EnqueueSecond
    <3>1. \/ EnqueueMatching("enqueue1", v, "state1") \/ EnqueueMatching("enqueue2", w, "state2")
      BY <1>1, <2>1 DEF EnqueueSecond, EnqueueMatching
    <3> QED BY <1>1, <3>1, EnqueueMatchingPairs
  <2>2. CASE SetMatching("state1", req.user1, "enqueue2")
    <3>1. SetMatching("state1", v, "enqueue2")
      BY <1>1, <2>2 DEF SetMatching, SetState
    <3> QED BY <1>1, <3>1, SetMatchingPairs
  <2>3. CASE SetMatching("state2", req.user2, "push")
    <3>1. SetMatching("state2", w, "push")
      BY <1>1, <2>3 DEF SetMatching, SetState
    <3> QED BY <1>1, <3>1, SetMatchingPairs
  <2> QED BY <1>2, <2>1, <2>2, <2>3 DEF StartMatching, StartFirst
<1> QED BY <1>2, DequeueFirstPairs, DequeueSecondPairs, CheckSecondPairs, RequeuePairs, PushPairs
        DEF RunMatching
-----------------------------------------------------------------------------
(* The worker that hands out rooms, which touches neither the waiting      *)
(* queue nor the other worker's hand.                                      *)
LEMMA SameOthers ==
    ASSUME Core, UNCHANGED <<waitingQueue, req, handler, matchingDict>>, NEW v \in Users
    PROVE  /\ UserInv(v)
           /\ Waits(v)' <=> Waits(v)
           /\ Once(waitingQueue, v) => Once(waitingQueue', v)
           /\ ReqFirst(v)' <=> ReqFirst(v)
           /\ ReqSecond(v)' <=> ReqSecond(v)
           /\ FirstSeen(v)' <=> FirstSeen(v)
           /\ SecondSeen(v)' <=> SecondSeen(v)
           /\ OneBusy(v)' <=> OneBusy(v)
           /\ RefOK(v)' <=> RefOK(v)
           /\ \A w : At(v, w)' <=> At(v, w)
<1>1. UNCHANGED waitingQueue /\ UNCHANGED req /\ UNCHANGED <<handler, matchingDict>>
  OBVIOUS
<1> QED BY <1>1, SameWaiting, SameReq, SameLanes DEF Core

(* Steps that leave the second worker without users in hand. *)
LEMMA EmptyHandPairs ==
    ASSUME Core, UNCHANGED <<dict, waitingQueue, matchingQueue, req, handler>>,
           \/ complete' = complete
           \/ complete'.at \in {"idle", "dequeue1"}
    PROVE  Kept
<1>1. /\ UNCHANGED <<data, matchingDict>> /\ UNCHANGED matchingQueue
      /\ UNCHANGED <<waitingQueue, req, handler, matchingDict>>
      /\ UNCHANGED <<matchingQueue, req>>
  BY DEF dict
<1>2. \A v : (ComFirst(v)' => ComFirst(v)) /\ (ComSecond(v)' => ComSecond(v))
  BY DEF ComFirst, ComSecond
<1>3. ASSUME NEW v \in Users PROVE UserInv(v)'
  BY <1>1, <1>2, SameMatching, SameDict, SameOthers DEF UserInv, OnePlace, InPlace, Placed
<1> QED BY <1>1, <1>3, SameTail DEF Kept, Core

(* What the other worker has put into the queue stays there: the queue     *)
(* holds more users than the room in hand will take.                       *)
LEMMA RestIsThere ==
    ASSUME Core, complete.at \in {"dequeue1", "dequeue2"}
    PROVE  /\ matchingQueue # <<>>
           /\ complete.at = "dequeue1" \/ req.at \in {"state1", "enqueue2", "state2"} =>
                 Len(matchingQueue) >= 2
<1>1. matchingQueue # <<>> /\ TypeInv /\ Slack \in Nat
  BY DueIsThere DEF Core, MatchInv, DueInv
<1>2. /\ Len(matchingQueue) \in Nat /\ requests \in Nat /\ offers \in Nat /\ Len(roomList) \in Nat
  BY <1>1, Numbers
<1>3. CompleteDue \in {1, 2} /\ (complete.at = "dequeue1" => CompleteDue = 2)
  BY DEF CompleteDue
<1>4. req.at \in {"state1", "enqueue2", "state2"} => ReqDue \in {1, 2}
  BY DEF ReqDue
<1>5. PICK q, s, c, d \in Nat :
         /\ q = Len(matchingQueue) /\ s = requests + offers + Len(roomList)
         /\ c = CompleteDue /\ d = ReqDue
  BY <1>2, DueNumbers
<1>6. q - 2 * s - c - d \in Nat
  BY <1>1, <1>5 DEF Slack
<1>7. c = 2 \/ (c >= 1 /\ d >= 1) => q >= 2
  BY <1>6
<1> QED BY <1>1, <1>3, <1>4, <1>5, <1>7

LEMMA DequeueTail ==
    ASSUME Core, complete.at \in {"dequeue1", "dequeue2"}, UNCHANGED req,
           matchingQueue' = Tail(matchingQueue)
    PROVE  TailInv'
<1>1. /\ matchingQueue # <<>> /\ matchingQueue \in Seq(Users) /\ Len(matchingQueue) \in Nat
      /\ req.at \in {"state1", "enqueue2", "state2"} => Len(matchingQueue) >= 2
  BY RestIsThere, Types
<1>2. PICK n \in Nat : n = Len(matchingQueue)
  BY <1>1
<1>3. /\ Len(matchingQueue') = n - 1
      /\ \A k \in 1 .. n - 1 : matchingQueue'[k] = matchingQueue[k + 1]
  BY <1>1, <1>2, HeadTailProperties
<1>4. n >= 2 => n - 1 >= 1 /\ n - 1 \in 1 .. n - 1 /\ n - 1 + 1 = n
  OBVIOUS
<1>5. n >= 2 => Len(matchingQueue') >= 1 /\ matchingQueue'[Len(matchingQueue')] = matchingQueue[n]
  BY <1>3, <1>4
<1> QED BY <1>1, <1>2, <1>5 DEF Core, TailInv

LEMMA DequeueMatchingFacts ==
    ASSUME Core, DequeueMatchingFirst \/ DequeueMatchingSecond, NEW x, x = Head(matchingQueue)
    PROVE  /\ x \in Users /\ Matched(x) /\ Once(matchingQueue, x)
           /\ matchingQueue' = Tail(matchingQueue) /\ matchingQueue # <<>>
           /\ \A v \in Users : /\ Matched(v)' => Matched(v) /\ v # x
                               /\ Once(matchingQueue, v) => Once(matchingQueue', v)
           /\ UNCHANGED <<dict, waitingQueue, req, handler>>
           /\ DequeueMatchingFirst =>
                 /\ complete.at = "dequeue1" /\ complete'.at = "dequeue2"
                 /\ complete'.user1 = x
           /\ DequeueMatchingSecond =>
                 /\ complete.at = "dequeue2" /\ complete'.at = "state1"
                 /\ complete'.user1 = complete.user1 /\ complete'.user2 = x
           /\ complete'.room = complete.room
<1>1. /\ complete.at \in {"dequeue1", "dequeue2"} /\ matchingQueue \in Seq(Users)
      /\ complete \in HandType
  BY Types DEF DequeueMatchingFirst, DequeueMatchingSecond
<1>2. matchingQueue # <<>>
  BY <1>1, RestIsThere
<1>3. NoUser \notin Users /\ (complete.at = "dequeue2" => complete.user1 \in Users)
  BY MatchingAssumption DEF MatchingAssumption, Core, MatchInv, DueInv
<1>4. /\ matchingQueue' = Tail(matchingQueue)
      /\ UNCHANGED <<dict, waitingQueue, req, handler>>
  BY <1>2 DEF DequeueMatchingFirst, DequeueMatchingSecond
<1>5. x \in Users /\ Matched(x) /\ Once(matchingQueue, x)
  <2>1. x \in Users /\ Matched(x)
    BY <1>1, <1>2, TailHas DEF Matched
  <2> QED BY <2>1 DEF Core, UserInv, OnePlace
<1>6. ASSUME NEW v \in Users
      PROVE  /\ Matched(v)' => Matched(v) /\ v # x
             /\ Once(matchingQueue, v) => Once(matchingQueue', v)
  BY <1>1, <1>2, <1>4, <1>5, TailHas DEF Matched
<1>7. DequeueMatchingFirst => /\ complete.at = "dequeue1" /\ complete'.at = "dequeue2"
                              /\ complete'.user1 = x /\ complete'.room = complete.room
  BY <1>1, <1>2 DEF DequeueMatchingFirst, HandType
<1>8. DequeueMatchingSecond => /\ complete.at = "dequeue2" /\ complete'.at = "state1"
                               /\ complete'.user1 = complete.user1 /\ complete'.user2 = x
                               /\ complete'.room = complete.room
  BY <1>1, <1>2, <1>3 DEF DequeueMatchingSecond, HandType
<1> QED BY <1>2, <1>4, <1>5, <1>6, <1>7, <1>8

LEMMA DequeueMatchingPairs ==
    ASSUME Core, DequeueMatchingFirst \/ DequeueMatchingSecond
    PROVE  Kept
<1>1. PICK x : x = Head(matchingQueue)
  OBVIOUS
<1>2. /\ x \in Users /\ Matched(x)
      /\ matchingQueue' = Tail(matchingQueue)
      /\ \A v \in Users : /\ Matched(v)' => Matched(v) /\ v # x
                          /\ Once(matchingQueue, v) => Once(matchingQueue', v)
      /\ UNCHANGED <<data, matchingDict>> /\ UNCHANGED <<waitingQueue, req, handler, matchingDict>>
      /\ UNCHANGED req
  BY <1>1, DequeueMatchingFacts DEF dict
<1>3. UserInv(x) /\ Ready(x)
  BY <1>2 DEF Core, UserInv, InPlace
<1>4. /\ complete.at \in {"dequeue1", "dequeue2"}
      /\ \A v \in Users : /\ ComFirst(v)' => v = x \/ ComFirst(v)
                          /\ ComSecond(v)' => v = x /\ ~(ComFirst(v)' /\ ~ComFirst(v))
                          /\ ~ComSecond(v)
                          /\ ComFirst(v) => ComFirst(v)'
  BY <1>1, DequeueMatchingFacts DEF ComFirst, ComSecond
<1>5. ~ComFirst(x) /\ ~Waits(x) /\ ~ReqFirst(x) /\ ~ReqSecond(x)
  BY <1>2, <1>3 DEF UserInv, OnePlace
<1>6. ASSUME NEW v \in Users PROVE UserInv(v)'
  <2>1. CASE v = x
    BY <1>2, <1>3, <1>4, <1>5, <2>1, SameDict, SameOthers DEF UserInv, OnePlace, InPlace, Placed
  <2>2. CASE v # x
    BY <1>2, <1>4, <2>2, SameDict, SameOthers DEF UserInv, OnePlace, InPlace, Placed
  <2> QED BY <2>1, <2>2
<1>7. TailInv'
  BY <1>2, <1>4, DequeueTail
<1> QED BY <1>6, <1>7 DEF Kept

LEMMA SetCompletePairs ==
    ASSUME Core, NEW from, NEW x, NEW to, SetComplete(from, x, to),
           \/ from = "state1" /\ x = complete.user1 /\ to = "find1"
           \/ from = "state2" /\ x = complete.user2 /\ to = "find2"
    PROVE  Kept
<1>1. /\ UNCHANGED waitingQueue /\ UNCHANGED matchingQueue /\ UNCHANGED req
      /\ UNCHANGED handler /\ complete.at = from /\ DictOK
      /\ UNCHANGED <<matchingQueue, req>>
      /\ complete.user1 \in Users /\ complete.user2 \in Users /\ x \in Users
  <2>1. complete.at = from
    BY DEF SetComplete
  <2>2. complete.user1 \in Users /\ complete.user2 \in Users
    BY <2>1 DEF Core, MatchInv, TypeInv, CompleteOK, Updating
  <2> QED BY <2>1, <2>2, Types DEF SetComplete
<1>2. UserInv(x) /\ (ComFirst(x) \/ ComSecond(x))
  BY <1>1 DEF Core, ComFirst, ComSecond
<1>3. Ready(x) /\ InDict(x) /\ ~Waits(x) /\ ~Matched(x) /\ ~ReqFirst(x) /\ ~ReqSecond(x)
      /\ ~FirstSeen(x) /\ ~SecondSeen(x)
  <2>1. FirstSeen(x) => ReqFirst(x)
    BY DEF FirstSeen, ReqFirst
  <2>2. SecondSeen(x) => ReqSecond(x)
    BY DEF SecondSeen, ReqSecond
  <2> QED BY <1>2, <2>1, <2>2 DEF UserInv, OnePlace, InPlace, Ready
<1>4. /\ complete'.at = to /\ complete'.user1 = complete.user1 /\ complete'.user2 = complete.user2
      /\ SetState(x, Complete)
  BY <1>1, <1>3, Types DEF SetComplete, HandType
<1>5. /\ \A v \in Users : InDict(v)' <=> InDict(v)
      /\ \A v \in Users : v # x => (Ready(v)' <=> Ready(v)) /\ (Done(v)' <=> Done(v))
      /\ Done(x)'
      /\ UNCHANGED matchingDict
  BY <1>1, <1>3, <1>4, StateSeen
<1>6. \A v \in Users : /\ ComFirst(v)' => ComFirst(v) /\ v # x
                       /\ ComSecond(v)' => ComSecond(v) /\ v # x
  <2>1. CASE from = "state1"
    <3>1. ComFirst(x) /\ ~ComSecond(x)
      BY <1>1, <1>2, <2>1 DEF ComFirst, UserInv, OnePlace
    <3> QED BY <1>1, <1>4, <2>1, <3>1 DEF ComFirst, ComSecond
  <2>2. CASE from = "state2"
    BY <1>1, <1>4, <2>2 DEF ComFirst, ComSecond
  <2> QED BY <2>1, <2>2
<1>7. ASSUME NEW v \in Users PROVE UserInv(v)'
  <2>1. UNCHANGED <<waitingQueue, req, handler, matchingDict>>
    BY <1>1, <1>5
  <2>2. CASE v = x
    BY <1>1, <1>3, <1>5, <1>6, <2>1, <2>2, SameMatching, SameOthers
       DEF UserInv, OnePlace, InPlace, Placed
  <2>3. CASE v # x
    BY <1>1, <1>5, <1>6, <2>1, <2>3, SameMatching, SameOthers
       DEF UserInv, OnePlace, InPlace, Placed
  <2> QED BY <2>2, <2>3
<1> QED BY <1>1, <1>7, SameTail DEF Kept, Core

LEMMA FindCompletePairs ==
    ASSUME Core, NEW from, NEW x, NEW to, FindComplete(from, x, to),
           \/ from = "find1" /\ x = complete.user1 /\ to = "room1"
           \/ from = "find2" /\ x = complete.user2 /\ to = "room2"
    PROVE  Kept
<1>1. /\ UNCHANGED matchingQueue /\ UNCHANGED <<matchingQueue, req>> /\ UNCHANGED <<data, matchingDict>>
      /\ UNCHANGED <<waitingQueue, req, handler, matchingDict>> /\ complete.at = from
  BY DEF FindComplete, dict
<1>2. \/ complete'.at = "idle"
      \/ complete'.at = to /\ complete'.user2 = complete.user2
  BY Types DEF FindComplete, HandType
<1>3. \A v \in Users : ~ComFirst(v)' /\ (ComSecond(v)' => ComSecond(v))
  BY <1>1, <1>2 DEF ComFirst, ComSecond
<1>4. ASSUME NEW v \in Users PROVE UserInv(v)'
  BY <1>1, <1>3, SameMatching, SameDict, SameOthers DEF UserInv, OnePlace, InPlace, Placed
<1> QED BY <1>1, <1>4, SameTail DEF Kept, Core

(* Writing the room changes no state. *)
LEMMA RoomWritten ==
    ASSUME Core, NEW from, NEW x, NEW to, SetRoom(from, x, to),
           \/ from = "room1" /\ x = complete.user1
           \/ from = "room2" /\ x = complete.user2
    PROVE  /\ x \in Users /\ complete.room \in Issued /\ complete.ref \in DOMAIN data[x]
           /\ UNCHANGED matchingDict
           /\ \A v \in Users : DOMAIN data'[v] = DOMAIN data[v]
           /\ \A v \in Users : \A j \in DOMAIN data[v] :
                 /\ data'[v][j].state = data[v][j].state
                 /\ data'[v][j].room = IF v = x /\ j = complete.ref THEN complete.room
                                       ELSE data[v][j].room
<1>1. /\ complete.at = from /\ DictOK /\ UNCHANGED roomsIssued /\ UNCHANGED matchingDict
      /\ x \in Users /\ complete.room \in Issued /\ complete.ref \in DOMAIN data[x]
  <2>1. complete.at = from /\ UNCHANGED <<omok, matchingDict>>
    BY DEF SetRoom
  <2>2. CompleteOK
    BY DEF Core, MatchInv, TypeInv
  <2> QED BY <2>1, <2>2, Types DEF CompleteOK, Updating, omok
<1>2. PICK i, c : i = complete.ref /\ c = complete.room
  OBVIOUS
<1>3. data[x][i] \in Entry
  BY <1>1, <1>2, Entries
<1>4. PICK e : e = [data[x][i] EXCEPT !.room = c]
  OBVIOUS
<1>5. e \in Entry /\ e.state = data[x][i].state /\ e.room = c
  BY <1>1, <1>2, <1>3, <1>4 DEF Entry
<1>6. data' = [data EXCEPT ![x] = [data[x] EXCEPT ![i] = e]]
  BY <1>2, <1>4 DEF SetRoom
<1>7. /\ \A v \in Users : DOMAIN data'[v] = DOMAIN data[v]
      /\ \A v \in Users : \A j \in DOMAIN data[v] :
            data'[v][j] = IF v = x /\ j = i THEN e ELSE data[v][j]
  BY <1>1, <1>2, <1>5, <1>6, WriteEntry
<1> QED BY <1>1, <1>2, <1>5, <1>7

LEMMA SetRoomPairs ==
    ASSUME Core, NEW from, NEW x, NEW to, SetRoom(from, x, to),
           \/ from = "room1" /\ x = complete.user1 /\ to = "state2"
           \/ from = "room2" /\ x = complete.user2 /\ to = "idle"
    PROVE  Kept
<1>1. /\ UNCHANGED matchingQueue /\ UNCHANGED <<matchingQueue, req>>
      /\ UNCHANGED <<waitingQueue, req, handler, matchingDict>> /\ UNCHANGED matchingDict
      /\ complete.at = from
  BY DEF SetRoom
<1>2. /\ DictOK
      /\ \A v \in Users : \A j \in DOMAIN data[v] : data'[v][j].state = data[v][j].state
  BY Types, RoomWritten
<1>3. \A v \in Users : /\ InDict(v)' <=> InDict(v)
                       /\ Ready(v)' <=> Ready(v)
                       /\ Done(v)' <=> Done(v)
  <2> SUFFICES ASSUME NEW v \in Users
               PROVE  /\ InDict(v)' <=> InDict(v)
                      /\ Ready(v)' <=> Ready(v)
                      /\ Done(v)' <=> Done(v)
    OBVIOUS
  <2>1. InDict(v)' <=> InDict(v)
    BY <1>1 DEF InDict
  <2>2. InDict(v) => Current(v)'.state = Current(v).state
    BY <1>1, <1>2, Entries DEF Current
  <2> QED BY <2>1, <2>2 DEF Ready, Done
<1>4. \/ complete'.at = "idle"
      \/ from = "room1" /\ complete'.at = "state2" /\ complete'.user2 = complete.user2
  BY Types DEF SetRoom, HandType
<1>5. \A v \in Users : ~ComFirst(v)' /\ (ComSecond(v)' => ComSecond(v))
  BY <1>1, <1>4 DEF ComFirst, ComSecond
<1>6. ASSUME NEW v \in Users PROVE UserInv(v)'
  BY <1>1, <1>3, <1>5, SameMatching, SameOthers DEF UserInv, OnePlace, InPlace, Placed
<1> QED BY <1>1, <1>6, SameTail DEF Kept, Core

(* UpdateMatchingDict, by its six steps. *)
LEMMA UpdateSteps ==
    ASSUME UpdateMatchingDict, NEW v, NEW w, v = complete.user1, w = complete.user2
    PROVE  \/ SetComplete("state1", v, "find1") \/ SetComplete("state2", w, "find2")
           \/ FindComplete("find1", v, "room1") \/ FindComplete("find2", w, "room2")
           \/ SetRoom("room1", v, "state2") \/ SetRoom("room2", w, "idle")
<1>1. CASE SetComplete("state1", complete.user1, "find1") \/ SetComplete("state2", complete.user2, "find2")
  BY <1>1 DEF SetComplete, SetState
<1>2. CASE FindComplete("find1", complete.user1, "room1") \/ FindComplete("find2", complete.user2, "room2")
  BY <1>2 DEF FindComplete
<1>3. CASE SetRoom("room1", complete.user1, "state2") \/ SetRoom("room2", complete.user2, "idle")
  BY <1>3 DEF SetRoom
<1> QED BY <1>1, <1>2, <1>3 DEF UpdateMatchingDict

LEMMA CompletePairs ==
    ASSUME Core, RunMatchingComplete \/ PopThrows
    PROVE  Kept
<1>1. CASE UpdateMatchingDict
  <2>1. PICK v, w : v = complete.user1 /\ w = complete.user2
    OBVIOUS
  <2>2. \/ SetComplete("state1", v, "find1") \/ SetComplete("state2", w, "find2")
        \/ FindComplete("find1", v, "room1") \/ FindComplete("find2", w, "room2")
        \/ SetRoom("room1", v, "state2") \/ SetRoom("room2", w, "idle")
    BY <1>1, <2>1, UpdateSteps
  <2> QED BY <2>1, <2>2, SetCompletePairs, FindCompletePairs, SetRoomPairs
<1>2. CASE TryGetEmptyRoomInfoFromRedis \/ PopThrows
  <2>1. UNCHANGED <<dict, waitingQueue, matchingQueue, req, handler>>
    BY <1>2 DEF TryGetEmptyRoomInfoFromRedis, PopThrows, worker
  <2>2. complete' = complete \/ complete'.at = "dequeue1"
    BY <1>2, Types DEF TryGetEmptyRoomInfoFromRedis, PopThrows, worker, HandType
  <2> QED BY <2>1, <2>2, EmptyHandPairs
<1> QED BY <1>1, <1>2, DequeueMatchingPairs DEF RunMatchingComplete

LEMMA OthersPairs ==
    ASSUME Core, PopRequest \/ PushRoom \/ OfferFails \/ UNCHANGED vars
    PROVE  Kept
<1>1. UNCHANGED <<dict, waitingQueue, matchingQueue, req, handler>> /\ complete' = complete
  BY DEF PopRequest, PushRoom, OfferFails, worker, vars
<1> QED BY <1>1, EmptyHandPairs
-----------------------------------------------------------------------------
(* The histories only grow. *)
Counts == cancels \in Nat /\ overlaps \in Nat /\ failures \in Nat

LEMMA Growing ==
    ASSUME Counts, [Next]_vars
    PROVE  /\ Counts'
           /\ cancels' >= cancels /\ overlaps' >= overlaps /\ failures' >= failures
<1>1. CASE \E h \in Handlers : AddUser(h)
  BY <1>1 DEF AddUser, Counts
<1>2. CASE \E h \in Handlers : HandlerStep(h)
  BY <1>2 DEF HandlerStep, Enqueue, TryAdd, GetMatchingData, Answer, Counts, past
<1>3. CASE \E u \in Users : CancelMatching(u)
  BY <1>3 DEF CancelMatching, Counts
<1>4. CASE RunMatching \/ PushThrows
  BY <1>4 DEF RunMatching, PushThrows, DequeueFirst, DequeueSecond, CheckSecond, Requeue,
     StartMatching, StartFirst, EnqueueSecond, EnqueueMatching, SetMatching,
     PushMatchingRequestToRedis, Counts, past
<1>5. CASE RunMatchingComplete \/ PopThrows
  BY <1>5 DEF RunMatchingComplete, PopThrows, TryGetEmptyRoomInfoFromRedis, DequeueMatchingFirst,
     DequeueMatchingSecond, UpdateMatchingDict, SetComplete, FindComplete, SetRoom, Counts, past
<1>6. CASE PopRequest \/ PushRoom \/ OfferFails \/ UNCHANGED vars
  BY <1>6 DEF PopRequest, PushRoom, OfferFails, vars, past, Counts
<1> QED BY <1>1, <1>2, <1>3, <1>4, <1>5, <1>6 DEF Next

LEMMA PairInit == Init => PairInv
<1> SUFFICES ASSUME Init PROVE PairInv
  OBVIOUS
<1>1. /\ waitingQueue = <<>> /\ matchingQueue = <<>> /\ \A u \in Users : matchingDict[u] = 0
      /\ req.at = "idle" /\ complete.at = "idle" /\ requests = 0 /\ roomList = <<>> /\ offers = 0
      /\ \A u \in Users : \A n \in 1 .. MaxHandlers : handler[<<u, n>>].at = "idle"
      /\ cancels = 0 /\ overlaps = 0 /\ failures = 0
  BY DEF Init, Idle, Free, Handlers
<1>2. \A u : ~Has(<<>>, u) /\ Once(<<>>, u)
  <2>1. \A u, k : ~Idx(<<>>, u, k)
    BY DEF Idx
  <2> QED BY <2>1 DEF Has, Once
<1>3. ASSUME NEW u \in Users PROVE UserInv(u)
  <2>1. ~Placed(u) /\ ~Matched(u) /\ ~ReqFirst(u) /\ ~ReqSecond(u) /\ ~ComFirst(u) /\ ~ComSecond(u)
        /\ ~Waits(u) /\ ~FirstSeen(u) /\ ~SecondSeen(u)
    BY <1>1, <1>2
       DEF Placed, Waits, Matched, ReqFirst, ReqSecond, FirstSeen, SecondSeen, ComFirst, ComSecond
  <2>2. \A w : w # "idle" => ~At(u, w)
    BY <1>1 DEF At
  <2>3. OneBusy(u) /\ RefOK(u)
    BY <1>1 DEF OneBusy, RefOK
  <2> QED BY <1>1, <1>2, <2>1, <2>2, <2>3 DEF UserInv, OnePlace, InPlace
<1>4. TailInv
  BY <1>1 DEF TailInv
<1>5. KeepStep
  <2>1. ReqDue = 0 /\ CompleteDue = 0 /\ Len(<<>>) = 0
    BY <1>1 DEF ReqDue, CompleteDue
  <2>2. Slack = 2 * 0
    BY <1>1, <2>1 DEF Slack
  <2> QED BY <2>2 DEF KeepStep
<1> QED BY <1>1, <1>3, <1>4, <1>5 DEF PairInv

LEMMA NextPairs ==
    ASSUME Core, [Next]_vars, Counts, Serial, Serial'
    PROVE  Kept
<1>1. ASSUME NEW h \in Handlers, AddUser(h) PROVE Kept
  <2>1. ~Busy(h[1])
    BY <1>1 DEF AddUser, Serial, Counts
  <2> QED BY <1>1, <2>1, AddUserPairs
<1>2. ASSUME NEW h \in Handlers, HandlerStep(h) PROVE Kept
  BY <1>2, EnqueuePairs, TryAddPairs, GetMatchingDataPairs, AnswerPairs DEF HandlerStep
<1>3. ASSUME NEW u \in Users, CancelMatching(u) PROVE FALSE
  BY <1>3 DEF CancelMatching, Serial, Counts
<1> QED BY <1>1, <1>2, <1>3, RunMatchingPairs, CompletePairs, OthersPairs DEF Next

LEMMA PairNext == MatchInv /\ PairInv /\ [Next]_vars => PairInv'
<1> SUFFICES ASSUME MatchInv, PairInv, [Next]_vars PROVE PairInv'
  OBVIOUS
<1>1. Counts /\ Counts' /\ cancels' >= cancels /\ overlaps' >= overlaps /\ failures' >= failures
  BY Growing DEF PairInv, Counts
<1>2. MatchInv' /\ SlackStep
  BY NextInv
<1>3. ASSUME Serial' PROVE Kept /\ KeepStep'
  <2>1. Serial
    BY <1>1, <1>3 DEF Serial, Counts
  <2>2. Core
    BY <1>2, <2>1 DEF PairInv, Core
  <2>3. Kept
    BY <1>1, <1>3, <2>1, <2>2, NextPairs
  <2>4. ~Missed
    BY <2>2, AtTheEnd DEF Missed
  <2>5. PICK s \in Nat : Slack = 2 * s /\ (failures = 0 => s = 0)
    BY <2>2 DEF Core, KeepStep
  <2>6. CASE Slack' = Slack
    BY <1>1, <2>3, <2>5, <2>6 DEF KeepStep, Counts
  <2>7. CASE Slack' = Slack + 2 /\ failures' = failures + 1
    <3>1. Slack' = 2 * (s + 1) /\ failures' # 0 /\ s + 1 \in Nat
      BY <1>1, <2>5, <2>7 DEF Counts
    <3> QED BY <2>3, <3>1 DEF KeepStep
  <2> QED BY <1>2, <2>3, <2>4, <2>6, <2>7 DEF SlackStep
<1> QED BY <1>1, <1>3 DEF PairInv, Kept, Counts

(* While nobody cancels and no two requests of a user overlap, a user is   *)
(* in one queue or hand at the most, and the queue keeps step with the     *)
(* requests.                                                               *)
THEOREM PairInvariant == Spec => []PairInv
<1>1. Spec => []MatchInv
  BY MatchingInvariant
<1>2. MatchInv /\ PairInv /\ [Next]_vars => PairInv'
  BY PairNext
<1> QED BY <1>1, <1>2, PairInit, PTL DEF Spec

(* As long as moreover no Redis call has failed, the matching queue holds  *)
(* exactly the users that requests, rooms and the room in hand will take,  *)
(* and those of the pair under way: no pair is left without a room.        *)
THEOREM PairsKeepStep == Spec => []PairsMatchRooms
<1>1. MatchInv /\ PairInv => PairsMatchRooms
  <2> SUFFICES ASSUME MatchInv, PairInv, Orderly PROVE Len(matchingQueue) = Due
    BY DEF PairsMatchRooms
  <2>1. TypeInv /\ Slack = 0
    BY DEF MatchInv, PairInv, Orderly, KeepStep
  <2>2. Len(matchingQueue) \in Nat /\ Slack = Len(matchingQueue) - Due
    BY <2>1, Numbers, SlackIsOverDue
  <2>3. Due \in Int
    <3>1. /\ InHand(complete.at, {"dequeue1"}) \in Nat /\ InHand(complete.at, {"dequeue2"}) \in Nat
          /\ InHand(req.at, {"state2", "push"}) \in Nat /\ InHand(req.at, {"state1", "enqueue2"}) \in Nat
      BY DEF InHand
    <3> QED BY <2>1, <3>1, Numbers DEF Due
  <2> QED BY <2>1, <2>2, <2>3
<1> QED BY <1>1, MatchingInvariant, PairInvariant, PTL
-----------------------------------------------------------------------------
(* Who shares a room.  A place in which somebody is told of room r: the    *)
(* number of an answer, or 0 for what the dictionary holds for him.        *)
Sent(r) == {a \in Users \X Nat :
               IF a[2] = 0 THEN InDict(a[1]) /\ Current(a[1]).room = r
               ELSE a[2] \in DOMAIN answers[a[1]] /\ answers[a[1]][a[2]] = r}

AtMostOne(S) == \A x, y \in S : x = y

(* The pairs in the matching queue have been announced, and so has the one *)
(* in the hand of the second worker, which may have taken the first half   *)
(* of a pair off the queue.                                                *)
Off == IF complete.at = "dequeue2" THEN 1 ELSE 0

QueuePairs ==
    \A k \in Nat \ {0} :
       2 * k + Off <= Len(matchingQueue) =>
          {matchingQueue[2 * k - 1 + Off], matchingQueue[2 * k + Off]} \in pairs

HandPair ==
    /\ complete.at = "dequeue2" => {complete.user1, matchingQueue[1]} \in pairs
    /\ complete.at \in Updating => {complete.user1, complete.user2} \in pairs

(* The room in the hand has been told to nobody but the first of the two,  *)
(* and to him once.                                                        *)
RoomPair(r) ==
    /\ \A a, b \in Sent(r) : a # b => {a[1], b[1]} \in pairs
    /\ Held(r) => AtMostOne(Sent(r)) /\ \A a \in Sent(r) : a[1] = complete.user1

Twos == \A p \in pairs : Cardinality(p) = 2

Shared == QueuePairs /\ HandPair /\ Twos /\ \A r \in Issued : RoomPair(r)

ShareInv == Serial => Shared
-----------------------------------------------------------------------------
LEMMA SentAreUsers ==
    ASSUME MatchInv, NEW r, NEW a \in Sent(r)
    PROVE  a[1] \in SentTo(r)
<1>1. a[1] \in Users /\ DictOK
  BY DEF Sent, MatchInv, TypeInv
<1>2. CASE a[2] = 0
  <2>1. InDict(a[1]) /\ Current(a[1]).room = r
    BY <1>2 DEF Sent
  <2>2. matchingDict[a[1]] \in DOMAIN data[a[1]]
    BY <1>1, <2>1, Entries
  <2> QED BY <1>1, <2>1, <2>2 DEF SentTo, Current
<1>3. CASE a[2] # 0
  BY <1>1, <1>3 DEF Sent, SentTo
<1> QED BY <1>2, <1>3

LEMMA SentToNobody ==
    ASSUME MatchInv', NEW r, SentTo(r)' = {}
    PROVE  Sent(r)' = {}
<1> SUFFICES ASSUME NEW a \in Sent(r)' PROVE a[1] \in SentTo(r)'
  OBVIOUS
<1>1. a[1] \in Users /\ DictOK'
  BY DEF Sent, MatchInv, TypeInv
<1>2. CASE a[2] = 0
  <2>1. matchingDict'[a[1]] # 0 /\ data'[a[1]][matchingDict'[a[1]]].room = r
    BY <1>2 DEF Sent, InDict, Current
  <2>2. /\ data'[a[1]] \in Seq(Entry') /\ matchingDict'[a[1]] \in Nat
        /\ matchingDict'[a[1]] <= Len(data'[a[1]])
    BY <1>1 DEF DictOK
  <2>3. matchingDict'[a[1]] \in DOMAIN data'[a[1]]
    BY <2>1, <2>2, LenProperties
  <2> QED BY <1>1, <2>1, <2>3 DEF SentTo
<1>3. CASE a[2] # 0
  BY <1>1, <1>3 DEF Sent, SentTo
<1> QED BY <1>2, <1>3

(* Steps by which nobody is told of a room. *)
CurrentKept == \A v \in Users : InDict(v)' =>
                  \/ Current(v)'.room = NoRoom
                  \/ InDict(v) /\ Current(v)'.room = Current(v).room

LEMMA NobodyTold ==
    ASSUME UNCHANGED answers, CurrentKept, NEW r \in Nat
    PROVE  Sent(r)' \subseteq Sent(r)
<1>1. r # NoRoom
  BY DEF NoRoom
<1> QED BY <1>1 DEF Sent, CurrentKept

LEMMA DictCurrent ==
    ASSUME UNCHANGED <<data, matchingDict>>
    PROVE  CurrentKept
BY DEF CurrentKept, InDict, Current

LEMMA SharedStep ==
    ASSUME Core, Shared, UNCHANGED <<answers, roomsIssued>>, pairs \subseteq pairs', CurrentKept,
           \A r \in Issued : Held(r)' =>
              complete'.at \in Early \/ (Held(r) /\ complete'.user1 = complete.user1)
    PROVE  \A r \in Issued' : RoomPair(r)'
<1> SUFFICES ASSUME NEW r \in Issued PROVE RoomPair(r)'
  BY DEF Issued
<1>1. r \in Nat /\ RoomPair(r)
  BY DEF Issued, Shared
<1>2. Sent(r)' \subseteq Sent(r)
  BY <1>1, NobodyTold
<1>3. CASE Held(r)' /\ complete'.at \in Early
  <2>1. SentTo(r)' = {}
    BY <1>3 DEF Core, MatchInv, RoomsInv, RoomInv, Issued
  <2>2. Sent(r)' = {}
    BY <2>1, SentToNobody DEF Core
  <2> QED BY <2>2 DEF RoomPair, AtMostOne
<1>4. CASE Held(r)' => Held(r) /\ complete'.user1 = complete.user1
  <2>1. ASSUME NEW a \in Sent(r)', NEW b \in Sent(r)', a # b PROVE {a[1], b[1]} \in pairs'
    BY <1>1, <1>2, <2>1 DEF RoomPair
  <2>2. ASSUME Held(r)' PROVE AtMostOne(Sent(r)') /\ \A a \in Sent(r)' : a[1] = complete'.user1
    <3>1. AtMostOne(Sent(r)) /\ \A a \in Sent(r) : a[1] = complete.user1
      BY <1>1, <1>4, <2>2 DEF RoomPair
    <3> QED BY <1>2, <1>4, <2>2, <3>1 DEF AtMostOne
  <2>3. AtMostOne(Sent(r))' <=> AtMostOne(Sent(r)')
    BY DEF AtMostOne
  <2> QED BY <2>1, <2>2, <2>3 DEF RoomPair
<1> QED BY <1>3, <1>4

LEMMA QuietShare ==
    ASSUME Core, Shared, UNCHANGED <<pairs, matchingQueue, complete, answers, roomsIssued>>,
           CurrentKept
    PROVE  Shared'
<1>1. \A r \in Issued : Held(r)' => Held(r) /\ complete'.user1 = complete.user1
  BY DEF Held
<1>2. \A r \in Issued' : RoomPair(r)'
  BY <1>1, SharedStep
<1> QED BY <1>2 DEF Shared, QueuePairs, Off, HandPair, Twos

LEMMA HandlerShare ==
    ASSUME Core, Shared, NEW h \in Handlers,
           AddUser(h) \/ Enqueue(h) \/ TryAdd(h) \/ GetMatchingData(h)
    PROVE  Shared'
<1>1. UNCHANGED <<pairs, matchingQueue, complete, answers, roomsIssued>>
  BY DEF AddUser, Enqueue, TryAdd, GetMatchingData, past, worker, omok
<1>2. CurrentKept
  <2>1. CASE UNCHANGED <<data, matchingDict>>
    BY <2>1, DictCurrent
  <2>2. CASE TryAdd(h) /\ ~InDict(h[1])
    <3>1. PICK u \in Users : u = h[1]
      BY DEF Handlers
    <3>2. /\ \A v \in Users : v # u => matchingDict'[v] = matchingDict[v] /\ data'[v] = data[v]
          /\ Current(u)' = NewData
      BY <1>1, <2>2, <3>1, NewcomerSeen, Types DEF TryAdd
    <3>3. NewData.room = NoRoom
      BY DEF NewData
    <3> QED BY <3>2, <3>3 DEF CurrentKept, InDict, Current
  <2> QED BY <2>1, <2>2 DEF AddUser, Enqueue, TryAdd, GetMatchingData, dict
<1> QED BY <1>1, <1>2, QuietShare

(* An answer takes the place of the entry that it reports. *)
LEMMA AnswerSent ==
    ASSUME Core, NEW h \in Handlers, Answer(h), NEW u \in Users, u = h[1]
    PROVE  \E n \in Nat : \A r \in Nat :
              IF Current(u).room = r
              THEN <<u, 0>> \in Sent(r) /\ Sent(r)' \subseteq (Sent(r) \ {<<u, 0>>}) \cup {<<u, n>>}
              ELSE Sent(r)' \subseteq Sent(r)
<1>1. PICK k \in 1 .. MaxHandlers : h = <<u, k>>
  BY HandlerPair
<1>2. /\ handler[<<u, k>>].at = "removing" /\ DictOK
      /\ UNCHANGED data /\ matchingDict' = [matchingDict EXCEPT ![u] = 0]
  BY <1>1, Types DEF Answer
<1>3. InDict(u) /\ handler[<<u, k>>].ref = matchingDict[u]
  <2>1. At(u, "removing") /\ UserInv(u)
    BY <1>2 DEF At, Core
  <2> QED BY <1>2, <2>1 DEF UserInv, InPlace, RefOK, Done
<1>4. answers' = [answers EXCEPT ![u] = Append(@, Current(u).room)]
  BY <1>1, <1>3 DEF Answer, Current
<1>5. /\ answers \in [Users -> Seq(Issued \cup {NoRoom})]
      /\ Current(u).room \in Issued \cup {NoRoom}
  BY <1>2, <1>3, Entries DEF Core, MatchInv, TypeInv, Entry
<1> DEFINE n == Len(answers[u]) + 1
           w == Append(answers[u], Current(u).room)
<1>6. /\ n \in Nat /\ n # 0 /\ w[n] = Current(u).room /\ DOMAIN w = 1 .. n
      /\ \A i \in 1 .. n : i # n => i \in DOMAIN answers[u] /\ w[i] = answers[u][i]
  <2>1. answers[u] \in Seq(Issued \cup {NoRoom})
    BY <1>5
  <2>2. Len(answers[u]) \in Nat /\ DOMAIN answers[u] = 1 .. Len(answers[u])
    BY <2>1, LenProperties
  <2>3. /\ w \in Seq(Issued \cup {NoRoom}) /\ Len(w) = n /\ w[n] = Current(u).room
        /\ \A i \in 1 .. Len(answers[u]) : w[i] = answers[u][i]
    BY <1>5, <2>1, AppendProperties
  <2>4. DOMAIN w = 1 .. n
    BY <2>3, LenProperties
  <2> QED BY <2>2, <2>3, <2>4
<1>7. answers' = [answers EXCEPT ![u] = w]
  BY <1>4
<1> HIDE DEF n, w
<1>8. ASSUME NEW r \in Nat, NEW a \in Sent(r)'
      PROVE  a # <<u, 0>> /\ (a \in Sent(r) \/ (a = <<u, n>> /\ Current(u).room = r))
  <2>1. PICK v \in Users, i \in Nat : a = <<v, i>>
    BY DEF Sent
  <2>2. IF i = 0 THEN InDict(v)' /\ Current(v)'.room = r
                 ELSE i \in DOMAIN answers'[v] /\ answers'[v][i] = r
    BY <1>8, <2>1 DEF Sent
  <2>3. CASE v # u
    <3>1. answers'[v] = answers[v] /\ (InDict(v)' => InDict(v)) /\ Current(v)' = Current(v)
      BY <1>2, <1>5, <1>7, <2>3 DEF InDict, Current, DictOK
    <3> QED BY <2>1, <2>2, <2>3, <3>1 DEF Sent
  <2>4. CASE v = u
    <3>1. ~InDict(v)' /\ answers'[v] = w
      BY <1>2, <1>5, <1>7, <2>4 DEF InDict, DictOK
    <3>2. i # 0 /\ i \in 1 .. n /\ w[i] = r
      BY <1>6, <2>2, <3>1
    <3>3. CASE i = n
      BY <1>6, <2>1, <2>4, <3>2, <3>3
    <3>4. CASE i # n
      BY <1>6, <2>1, <2>4, <3>2, <3>4 DEF Sent
    <3> QED BY <3>3, <3>4
  <2> QED BY <2>3, <2>4
<1>9. ASSUME NEW r \in Nat, Current(u).room = r PROVE <<u, 0>> \in Sent(r)
  BY <1>3, <1>9 DEF Sent
<1>10. n \in Nat
  BY <1>6
<1> QED BY <1>8, <1>9, <1>10

LEMMA AnswerShare ==
    ASSUME Core, Shared, NEW h \in Handlers, Answer(h)
    PROVE  Shared'
<1>1. UNCHANGED <<pairs, matchingQueue, complete, roomsIssued>>
  BY DEF Answer, past, omok, worker
<1>2. PICK u \in Users : u = h[1]
  BY DEF Handlers
<1>3. PICK n \in Nat : \A r \in Nat :
         IF Current(u).room = r
         THEN <<u, 0>> \in Sent(r) /\ Sent(r)' \subseteq (Sent(r) \ {<<u, 0>>}) \cup {<<u, n>>}
         ELSE Sent(r)' \subseteq Sent(r)
  BY <1>2, AnswerSent
<1>4. ASSUME NEW r \in Issued PROVE RoomPair(r)'
  <2>1. r \in Nat /\ RoomPair(r) /\ (Held(r)' <=> Held(r))
    BY <1>1 DEF Issued, Shared, Held
  <2>2. AtMostOne(Sent(r))' <=> AtMostOne(Sent(r)')
    BY DEF AtMostOne
  <2>3. CASE Sent(r)' \subseteq Sent(r)
    <3>1. Held(r) => AtMostOne(Sent(r)') /\ \A a \in Sent(r)' : a[1] = complete.user1
      BY <2>1, <2>3 DEF RoomPair, AtMostOne
    <3> QED BY <1>1, <2>1, <2>2, <2>3, <3>1 DEF RoomPair
  <2>4. CASE <<u, 0>> \in Sent(r) /\ Sent(r)' \subseteq (Sent(r) \ {<<u, 0>>}) \cup {<<u, n>>}
    <3>1. \A a \in Sent(r)' : \/ a \in Sent(r) /\ a # <<u, 0>>
                              \/ a[1] = u /\ a = <<u, n>>
      BY <2>4
    <3>2. \A a \in Sent(r) : a # <<u, 0>> => {a[1], u} \in pairs /\ {u, a[1]} \in pairs
      <4>1. \A a \in Sent(r) : a # <<u, 0>> => {a[1], <<u, 0>>[1]} \in pairs
        BY <2>1, <2>4 DEF RoomPair
      <4>2. <<u, 0>>[1] = u /\ \A a : {a, u} = {u, a}
        OBVIOUS
      <4> QED BY <4>1, <4>2
    <3>3. ASSUME NEW a \in Sent(r)', NEW b \in Sent(r)', a # b PROVE {a[1], b[1]} \in pairs
      BY <2>1, <3>1, <3>2, <3>3 DEF RoomPair
    <3>4. ASSUME Held(r) PROVE AtMostOne(Sent(r)') /\ \A a \in Sent(r)' : a[1] = complete.user1
      <4>1. AtMostOne(Sent(r)) /\ <<u, 0>> \in Sent(r) /\ \A a \in Sent(r) : a[1] = complete.user1
        BY <2>1, <2>4, <3>4 DEF RoomPair
      <4>2. u = complete.user1
        BY <4>1
      <4>3. \A a \in Sent(r) : a = <<u, 0>>
        BY <4>1 DEF AtMostOne
      <4>4. \A a \in Sent(r)' : a = <<u, n>> /\ a[1] = u
        BY <3>1, <4>3
      <4> QED BY <4>2, <4>4 DEF AtMostOne
    <3> QED BY <1>1, <2>1, <2>2, <3>3, <3>4 DEF RoomPair
  <2> QED BY <1>3, <2>1, <2>3, <2>4
<1> QED BY <1>1, <1>4 DEF Shared, QueuePairs, Off, HandPair, Twos, Issued

(* The worker that pairs users tells nobody of a room. *)
LEMMA RequestShare ==
    ASSUME Core, Shared,
           \/ DequeueFirst \/ DequeueSecond \/ CheckSecond \/ Requeue
           \/ PushMatchingRequestToRedis \/ PushThrows
    PROVE  Shared'
<1>1. UNCHANGED <<pairs, matchingQueue, complete, answers, roomsIssued>> /\ UNCHANGED <<data, matchingDict>>
  BY DEF DequeueFirst, DequeueSecond, CheckSecond, Requeue, PushMatchingRequestToRedis,
     PushThrows, past, omok, dict
<1> QED BY <1>1, DictCurrent, QuietShare

LEMMA SetMatchingShare ==
    ASSUME Core, Shared, NEW from, NEW x, NEW to, SetMatching(from, x, to),
           \/ from = "state1" /\ x = req.user1
           \/ from = "state2" /\ x = req.user2
    PROVE  Shared'
<1>1. UNCHANGED <<pairs, matchingQueue, complete, answers, roomsIssued>> /\ req.at = from /\ DictOK
  BY Types DEF SetMatching, past, omok
<1>2. x \in Users /\ InDict(x)
  BY <1>1, AtTheEnd
<1>3. SetState(x, Matching) /\ Matching \in {Waiting, Matching, Complete}
  BY <1>2 DEF SetMatching
<1>4. \A v \in Users : (InDict(v)' <=> InDict(v)) /\ (InDict(v) => Current(v)'.room = Current(v).room)
  BY <1>1, <1>2, <1>3, StateSeen
<1>5. CurrentKept
  BY <1>4 DEF CurrentKept
<1> QED BY <1>1, <1>5, QuietShare

(* Before the first half of a pair enters it, the queue holds whole pairs, *)
(* and one half more while the other worker holds the first half.          *)
LEMMA Parity ==
    ASSUME Core, req.at = "enqueue1"
    PROVE  \E m \in Nat : Len(matchingQueue) = 2 * m + Off
<1>1. PICK s \in Nat : Slack = 2 * s
  BY DEF Core, KeepStep
<1>2. /\ Len(matchingQueue) \in Nat /\ Len(roomList) \in Nat
      /\ requests \in Nat /\ offers \in Nat
  BY Numbers DEF Core, MatchInv
<1>3. PICK q, c \in Nat : q = Len(matchingQueue) /\ c = requests + offers + Len(roomList)
  BY <1>2
<1>4. ReqDue = 0
  BY DEF ReqDue
<1>5. PICK d \in {0, 1} : CompleteDue = 2 * d + Off
  BY DEF CompleteDue, Off
<1>6. PICK o \in {0, 1} : o = Off
  BY DEF Off
<1>7. 2 * s = q - 2 * c - (2 * d + o) - 0
  BY <1>1, <1>3, <1>4, <1>5, <1>6 DEF Slack
<1>8. q = 2 * (s + c + d) + o /\ s + c + d \in Nat
  BY <1>7
<1> QED BY <1>3, <1>6, <1>8

LEMMA EnqueueMatchingShare ==
    ASSUME Core, Shared, NEW from, NEW x, NEW to, EnqueueMatching(from, x, to),
           \/ from = "enqueue1" /\ x = req.user1 /\ pairs' = pairs
           \/ from = "enqueue2" /\ x = req.user2 /\ pairs' = pairs \cup {{req.user1, req.user2}}
    PROVE  Shared'
<1>1. /\ UNCHANGED <<answers, roomsIssued>> /\ UNCHANGED complete /\ UNCHANGED <<data, matchingDict>>
      /\ req.at = from /\ matchingQueue' = Append(matchingQueue, x)
      /\ matchingQueue \in Seq(Users) /\ x \in Users
  BY Types DEF EnqueueMatching, dict, omok
<1>2. CurrentKept /\ pairs \subseteq pairs'
  BY <1>1, DictCurrent
<1>3. \A r \in Issued : Held(r)' => Held(r) /\ complete'.user1 = complete.user1
  BY <1>1 DEF Held
<1>4. \A r \in Issued' : RoomPair(r)'
  BY <1>1, <1>2, <1>3, SharedStep
<1>5. PICK n \in Nat : /\ n = Len(matchingQueue) /\ Len(matchingQueue') = n + 1
                       /\ \A k \in 1 .. n : matchingQueue'[k] = matchingQueue[k]
                       /\ matchingQueue'[n + 1] = x
  BY <1>1, Types, AppendHas
<1>6. PICK o \in {0, 1} : o = Off /\ o = Off'
  BY <1>1 DEF Off
<1>7. from = "enqueue1" => \E m \in Nat : n = 2 * m + o
  BY <1>1, <1>5, <1>6, Parity
<1>8. from = "enqueue2" => n >= 1 /\ matchingQueue[n] = req.user1
  BY <1>1, <1>5 DEF Core, TailInv
<1>9. ASSUME NEW k \in Nat \ {0}, 2 * k + o <= n + 1
      PROVE  {matchingQueue'[2 * k - 1 + o], matchingQueue'[2 * k + o]} \in pairs'
  <2>1. CASE 2 * k + o <= n
    <3>1. {matchingQueue[2 * k - 1 + o], matchingQueue[2 * k + o]} \in pairs
      BY <1>5, <1>6, <2>1 DEF Shared, QueuePairs
    <3>2. 2 * k - 1 + o \in 1 .. n /\ 2 * k + o \in 1 .. n
      BY <2>1
    <3> QED BY <1>2, <1>5, <3>1, <3>2
  <2>2. CASE ~(2 * k + o <= n)
    <3>1. 2 * k + o = n + 1 /\ 2 * k - 1 + o = n
      BY <1>9, <2>2
    <3>2. from # "enqueue1"
      <4>1. ASSUME NEW m \in Nat, n = 2 * m + o PROVE FALSE
        <5>1. 2 * k = 2 * m + 1
          BY <3>1, <4>1
        <5> QED BY <5>1
      <4> QED BY <1>7, <4>1
    <3>3. n \in 1 .. n /\ matchingQueue[n] = req.user1 /\ x = req.user2
          /\ pairs' = pairs \cup {{req.user1, req.user2}}
      BY <1>8, <3>2
    <3> QED BY <1>5, <3>1, <3>3
  <2> QED BY <2>1, <2>2
<1>10. QueuePairs'
  BY <1>5, <1>6, <1>9 DEF QueuePairs
<1>11. HandPair'
  <2>1. ASSUME complete.at = "dequeue2"
        PROVE  {complete.user1, matchingQueue'[1]} \in pairs
    <3>1. matchingQueue # <<>>
      BY <2>1, RestIsThere
    <3>2. 1 \in 1 .. n
      BY <1>1, <1>5, <3>1, EmptySeq
    <3> QED BY <1>5, <2>1, <3>2 DEF Shared, HandPair
  <2> QED BY <1>1, <1>2, <2>1 DEF Shared, HandPair
<1>12. Twos'
  <2>1. CASE from = "enqueue2"
    <3>1. req.user1 # req.user2
      <4>1. Matched(req.user1)
        <5>1. n \in DOMAIN matchingQueue
          BY <1>1, <1>5, <1>8, <2>1, Indexes
        <5> QED BY <1>8, <2>1, <5>1 DEF Matched, Has, Idx
      <4>2. req.user2 \in Users /\ ReqSecond(req.user2)
        BY <1>1, <2>1 DEF ReqSecond
      <4> QED BY <4>1, <4>2 DEF Core, UserInv, OnePlace
    <3>2. IsFiniteSet({req.user1}) /\ Cardinality({req.user1}) = 1
      BY FS_Singleton
    <3>3. Cardinality({req.user1} \cup {req.user2}) = 1 + 1
      BY <3>1, <3>2, FS_AddElement
    <3>4. {req.user1} \cup {req.user2} = {req.user1, req.user2}
      OBVIOUS
    <3>5. Cardinality({req.user1, req.user2}) = 2
      BY <3>3, <3>4
    <3>6. pairs' = pairs \cup {{req.user1, req.user2}}
      BY <2>1
    <3> QED BY <3>5, <3>6 DEF Shared, Twos
  <2>2. CASE from = "enqueue1"
    BY <2>2 DEF Shared, Twos
  <2> QED BY <2>1, <2>2
<1> QED BY <1>4, <1>10, <1>11, <1>12 DEF Shared

LEMMA RunMatchingShare ==
    ASSUME Core, Shared, RunMatching \/ PushThrows
    PROVE  Shared'
<1>1. PICK v, w : v = req.user1 /\ w = req.user2
  OBVIOUS
<1>2. CASE StartMatching
  <2>1. CASE EnqueueMatching("enqueue1", req.user1, "state1") /\ UNCHANGED pairs
    <3>1. EnqueueMatching("enqueue1", v, "state1")
      BY <1>1, <2>1 DEF EnqueueMatching
    <3> QED BY <1>1, <2>1, <3>1, EnqueueMatchingShare
  <2>2. CASE EnqueueSecond
    <3>1. EnqueueMatching("enqueue2", w, "state2") /\ pairs' = pairs \cup {{req.user1, req.user2}}
      BY <1>1, <2>2 DEF EnqueueSecond, EnqueueMatching
    <3> QED BY <1>1, <3>1, EnqueueMatchingShare
  <2>3. CASE SetMatching("state1", req.user1, "enqueue2")
    <3>1. SetMatching("state1", v, "enqueue2")
      BY <1>1, <2>3 DEF SetMatching, SetState
    <3> QED BY <1>1, <3>1, SetMatchingShare
  <2>4. CASE SetMatching("state2", req.user2, "push")
    <3>1. SetMatching("state2", w, "push")
      BY <1>1, <2>4 DEF SetMatching, SetState
    <3> QED BY <1>1, <3>1, SetMatchingShare
  <2> QED BY <1>2, <2>1, <2>2, <2>3, <2>4 DEF StartMatching, StartFirst
<1> QED BY <1>2, RequestShare DEF RunMatching
-----------------------------------------------------------------------------
(* The worker that hands out rooms. *)
LEMMA PopShare ==
    ASSUME Core, Shared, TryGetEmptyRoomInfoFromRedis \/ PopThrows
    PROVE  Shared'
<1>1. /\ UNCHANGED pairs /\ UNCHANGED matchingQueue /\ UNCHANGED <<answers, roomsIssued>>
      /\ UNCHANGED <<data, matchingDict>> /\ complete.at = "idle"
  BY DEF TryGetEmptyRoomInfoFromRedis, PopThrows, past, omok, worker, dict
<1>2. complete' = complete \/ complete'.at = "dequeue1"
  BY Types DEF TryGetEmptyRoomInfoFromRedis, PopThrows, worker, HandType
<1>3. \A r \in Issued : Held(r)' =>
         complete'.at \in Early \/ (Held(r) /\ complete'.user1 = complete.user1)
  BY <1>2 DEF Held, Early
<1>4. CurrentKept
  BY <1>1, DictCurrent
<1>5. \A r \in Issued' : RoomPair(r)'
  BY <1>1, <1>3, <1>4, SharedStep
<1>6. Off' = Off /\ complete'.at # "dequeue2" /\ complete'.at \notin Updating
  BY <1>1, <1>2 DEF Off, Updating
<1> QED BY <1>1, <1>5, <1>6 DEF Shared, QueuePairs, HandPair, Twos

(* A pair leaves the queue one half after the other. *)
LEMMA DequeueMatchingShare ==
    ASSUME Core, Shared, DequeueMatchingFirst \/ DequeueMatchingSecond
    PROVE  Shared'
<1>1. UNCHANGED pairs /\ UNCHANGED <<answers, roomsIssued>> /\ UNCHANGED <<data, matchingDict>>
  BY DEF DequeueMatchingFirst, DequeueMatchingSecond, past, omok, dict
<1>2. PICK x : x = Head(matchingQueue)
  OBVIOUS
<1>3. /\ matchingQueue' = Tail(matchingQueue) /\ matchingQueue # <<>>
      /\ DequeueMatchingFirst =>
            complete.at = "dequeue1" /\ complete'.at = "dequeue2" /\ complete'.user1 = x
      /\ DequeueMatchingSecond =>
            /\ complete.at = "dequeue2" /\ complete'.at = "state1"
            /\ complete'.user1 = complete.user1 /\ complete'.user2 = x
  BY <1>2, DequeueMatchingFacts
<1>4. \A r \in Issued : Held(r)' =>
         complete'.at \in Early \/ (Held(r) /\ complete'.user1 = complete.user1)
  BY <1>3 DEF Early
<1>5. CurrentKept
  BY <1>1, DictCurrent
<1>6. \A r \in Issued' : RoomPair(r)'
  BY <1>1, <1>4, <1>5, SharedStep
<1>7. PICK n \in Nat : /\ n = Len(matchingQueue) /\ n >= 1 /\ Len(matchingQueue') = n - 1
                       /\ \A k \in 1 .. n - 1 : matchingQueue'[k] = matchingQueue[k + 1]
                       /\ x = matchingQueue[1]
  <2>1. matchingQueue \in Seq(Users) /\ matchingQueue # <<>>
    BY <1>3, Types
  <2>2. /\ Len(Tail(matchingQueue)) = Len(matchingQueue) - 1
        /\ \A k \in 1 .. Len(Tail(matchingQueue)) : Tail(matchingQueue)[k] = matchingQueue[k + 1]
        /\ Head(matchingQueue) = matchingQueue[1]
    BY <2>1, HeadTailProperties
  <2>3. Len(matchingQueue) \in Nat /\ Len(matchingQueue) # 0
    BY <2>1, LenProperties, EmptySeq
  <2>4. PICK n \in Nat : n = Len(matchingQueue)
    BY <2>3
  <2>5. n >= 1 /\ Len(Tail(matchingQueue)) = n - 1
    BY <2>2, <2>3, <2>4
  <2>6. \A k \in 1 .. n - 1 : Tail(matchingQueue)[k] = matchingQueue[k + 1]
    BY <2>2, <2>5
  <2> QED BY <1>2, <1>3, <2>2, <2>4, <2>5, <2>6
<1>8. CASE DequeueMatchingFirst
  <2>1. complete.at = "dequeue1" /\ complete'.at = "dequeue2" /\ Off = 0 /\ Off' = 1
    BY <1>3, <1>8 DEF Off
  <2>2. n >= 2
    BY <1>7, <2>1, RestIsThere
  <2>3. ASSUME NEW k \in Nat \ {0}, 2 * k <= n
        PROVE  {matchingQueue[2 * k - 1], matchingQueue[2 * k]} \in pairs
    <3>1. 2 * k + Off <= Len(matchingQueue) /\ 2 * k - 1 + Off = 2 * k - 1 /\ 2 * k + Off = 2 * k
      BY <1>7, <2>1, <2>3
    <3>2. {matchingQueue[2 * k - 1 + Off], matchingQueue[2 * k + Off]} \in pairs
      BY <3>1 DEF Shared, QueuePairs
    <3> QED BY <3>1, <3>2
  <2>4. HandPair'
    <3>1. {matchingQueue[2 * 1 - 1], matchingQueue[2 * 1]} \in pairs
      <4>1. 1 \in Nat \ {0} /\ 2 * 1 <= n
        BY <2>2
      <4> QED BY <2>3, <4>1
    <3>2. matchingQueue'[1] = matchingQueue[1 + 1] /\ 1 + 1 = 2 * 1 /\ 2 * 1 - 1 = 1
      <4>1. 1 \in 1 .. n - 1
        BY <2>2
      <4> QED BY <1>7, <4>1
    <3>3. {x, matchingQueue'[1]} \in pairs
      BY <1>7, <3>1, <3>2
    <3>4. complete'.user1 = x /\ complete'.at \notin Updating
      BY <1>3, <1>8, <2>1 DEF Updating
    <3> QED BY <1>1, <3>3, <3>4 DEF HandPair
  <2>5. ASSUME NEW k \in Nat \ {0}, 2 * k + 1 <= n - 1
        PROVE  {matchingQueue'[2 * k - 1 + 1], matchingQueue'[2 * k + 1]} \in pairs
    <3>1. {matchingQueue[2 * (k + 1) - 1], matchingQueue[2 * (k + 1)]} \in pairs
      <4>1. k + 1 \in Nat \ {0} /\ 2 * (k + 1) <= n
        BY <2>5
      <4> QED BY <2>3, <4>1
    <3>2. /\ 2 * k - 1 + 1 \in 1 .. n - 1 /\ 2 * k + 1 \in 1 .. n - 1
          /\ 2 * (k + 1) - 1 = 2 * k - 1 + 1 + 1 /\ 2 * (k + 1) = 2 * k + 1 + 1
      BY <2>5
    <3> QED BY <1>7, <3>1, <3>2
  <2>6. QueuePairs'
    BY <1>1, <1>7, <2>1, <2>5 DEF QueuePairs
  <2> QED BY <1>1, <1>6, <2>4, <2>6 DEF Shared, Twos
<1>9. CASE DequeueMatchingSecond
  <2>1. complete.at = "dequeue2" /\ complete'.at = "state1" /\ Off = 1 /\ Off' = 0
    BY <1>3, <1>9 DEF Off
  <2>2. HandPair'
    BY <1>1, <1>3, <1>7, <1>9, <2>1 DEF Shared, HandPair
  <2>3. ASSUME NEW k \in Nat \ {0}, 2 * k <= n - 1
        PROVE  {matchingQueue'[2 * k - 1], matchingQueue'[2 * k]} \in pairs
    <3>1. 2 * k + Off <= Len(matchingQueue) /\ 2 * k - 1 + Off = 2 * k - 1 + 1 /\ 2 * k + Off = 2 * k + 1
      BY <1>7, <2>1, <2>3
    <3>2. {matchingQueue[2 * k - 1 + 1], matchingQueue[2 * k + 1]} \in pairs
      BY <3>1 DEF Shared, QueuePairs
    <3>3. 2 * k - 1 \in 1 .. n - 1 /\ 2 * k \in 1 .. n - 1
      BY <2>3
    <3> QED BY <1>7, <3>2, <3>3
  <2>4. QueuePairs'
    <3>1. \A k \in Nat \ {0} : /\ 2 * k + Off' <= Len(matchingQueue') <=> 2 * k <= n - 1
                               /\ 2 * k - 1 + Off' = 2 * k - 1 /\ 2 * k + Off' = 2 * k
      BY <1>7, <2>1
    <3> QED BY <1>1, <2>3, <3>1 DEF QueuePairs
  <2> QED BY <1>1, <1>6, <2>2, <2>4 DEF Shared, Twos
<1> QED BY <1>8, <1>9

LEMMA UpdateShare ==
    ASSUME Core, Shared, UNCHANGED <<pairs, matchingQueue>>, complete.at \in Updating,
           \/ complete'.at = "idle"
           \/ /\ complete'.at \in Updating /\ complete'.user1 = complete.user1
              /\ complete'.user2 = complete.user2,
           \A r \in Issued' : RoomPair(r)'
    PROVE  Shared'
<1>1. Off = 0 /\ Off' = 0 /\ complete'.at # "dequeue2"
  BY DEF Off, Updating
<1>2. HandPair'
  BY <1>1 DEF Shared, HandPair, Updating
<1> QED BY <1>1, <1>2 DEF Shared, QueuePairs, Twos

LEMMA SetCompleteShare ==
    ASSUME Core, Shared, NEW from, NEW x, NEW to,
           SetComplete(from, x, to) \/ FindComplete(from, x, to),
           \/ from \in {"state1", "find1"} /\ x = complete.user1 /\ to \in {"find1", "room1"}
           \/ from \in {"state2", "find2"} /\ x = complete.user2 /\ to \in {"find2", "room2"}
    PROVE  Shared'
<1>1. /\ UNCHANGED <<pairs, matchingQueue>> /\ UNCHANGED <<answers, roomsIssued>>
      /\ complete.at = from /\ complete.at \in Updating /\ DictOK /\ x \in Users
  <2>1. complete.at = from /\ complete.at \in Updating
    BY DEF SetComplete, FindComplete, Updating
  <2>2. complete.user1 \in Users /\ complete.user2 \in Users
    BY <2>1 DEF Core, MatchInv, TypeInv, CompleteOK
  <2> QED BY <2>1, <2>2, Types DEF SetComplete, FindComplete, past, omok
<1>2. \/ complete'.at = "idle"
      \/ /\ complete'.at = to /\ complete'.user1 = complete.user1
         /\ complete'.user2 = complete.user2 /\ complete'.room = complete.room
  BY Types DEF SetComplete, FindComplete, HandType
<1>3. CurrentKept
  <2>1. CASE UNCHANGED <<data, matchingDict>>
    BY <2>1, DictCurrent
  <2>2. CASE InDict(x) /\ SetState(x, Complete)
    <3>1. Complete \in {Waiting, Matching, Complete}
      OBVIOUS
    <3>2. \A v \in Users : (InDict(v)' <=> InDict(v)) /\ (InDict(v) => Current(v)'.room = Current(v).room)
      BY <1>1, <2>2, <3>1, StateSeen
    <3> QED BY <3>2 DEF CurrentKept
  <2> QED BY <2>1, <2>2 DEF SetComplete, FindComplete, dict
<1>4. \A r \in Issued : Held(r)' => Held(r) /\ complete'.user1 = complete.user1
  BY <1>1, <1>2 DEF Held, Updating
<1>5. \A r \in Issued' : RoomPair(r)'
  BY <1>1, <1>3, <1>4, SharedStep
<1> QED BY <1>1, <1>2, <1>5, UpdateShare DEF Updating

(* The first write tells a room that nobody knows, the second tells it to  *)
(* the other user of the pair.                                             *)
LEMMA RoomSent ==
    ASSUME Core, NEW from, NEW x, NEW to, SetRoom(from, x, to),
           \/ from = "room1" /\ x = complete.user1
           \/ from = "room2" /\ x = complete.user2,
           NEW r \in Nat
    PROVE  Sent(r)' \subseteq Sent(r) \cup (IF r = complete.room THEN {<<x, 0>>} ELSE {})
<1> SUFFICES ASSUME NEW a \in Sent(r)', a \notin Sent(r)
             PROVE  r = complete.room /\ a = <<x, 0>>
  OBVIOUS
<1>1. /\ x \in Users /\ UNCHANGED matchingDict /\ UNCHANGED answers /\ DictOK
      /\ \A v \in Users : \A j \in DOMAIN data[v] :
            data'[v][j].room = IF v = x /\ j = complete.ref THEN complete.room
                               ELSE data[v][j].room
  <2>1. UNCHANGED answers
    BY DEF SetRoom
  <2> QED BY <2>1, RoomWritten, Types
<1>2. PICK v \in Users, i \in Nat : a = <<v, i>>
  BY DEF Sent
<1>3. i = 0 /\ InDict(v) /\ Current(v)'.room = r /\ Current(v).room # r
  BY <1>1, <1>2 DEF Sent, InDict
<1>4. matchingDict[v] \in DOMAIN data[v]
  BY <1>1, <1>3, Entries
<1>5. v = x /\ r = complete.room
  BY <1>1, <1>3, <1>4 DEF Current
<1> QED BY <1>2, <1>3, <1>5

LEMMA SetRoomShare ==
    ASSUME Core, Shared, NEW from, NEW x, NEW to, SetRoom(from, x, to),
           \/ from = "room1" /\ x = complete.user1 /\ to = "state2"
           \/ from = "room2" /\ x = complete.user2 /\ to = "idle"
    PROVE  Shared'
<1>1. /\ UNCHANGED <<pairs, matchingQueue>> /\ UNCHANGED pairs /\ UNCHANGED roomsIssued
      /\ complete.at = from /\ complete.at \in Updating /\ Idle.at = "idle"
  BY Types DEF SetRoom, past, omok, Updating
<1>2. \/ from = "room2" /\ complete'.at = "idle"
      \/ /\ from = "room1" /\ complete'.at = "state2" /\ complete'.user1 = complete.user1
         /\ complete'.user2 = complete.user2 /\ complete'.room = complete.room
  BY <1>1, Types DEF SetRoom, HandType
<1>3. PICK c : c = complete.room
  OBVIOUS
<1>4. ASSUME NEW r \in Issued PROVE RoomPair(r)'
  <2>1. r \in Nat /\ RoomPair(r) /\ RoomInv(r)
    BY DEF Issued, Shared, Core, MatchInv, RoomsInv
  <2>2. Sent(r)' \subseteq Sent(r) \cup (IF r = c THEN {<<x, 0>>} ELSE {})
    BY <1>3, <2>1, RoomSent
  <2>3. Held(r) <=> r = c
    BY <1>1, <1>3 DEF Held, Updating
  <2>4. Held(r)' => from = "room1" /\ r = c /\ complete'.user1 = x
    BY <1>2, <1>3 DEF Held
  <2>5. AtMostOne(Sent(r))' <=> AtMostOne(Sent(r)')
    BY DEF AtMostOne
  <2>6. CASE r # c
    <3>1. Sent(r)' \subseteq Sent(r) /\ ~Held(r)'
      BY <2>2, <2>4, <2>6
    <3> QED BY <1>1, <2>1, <3>1 DEF RoomPair
  <2>7. CASE r = c
    <3>1. \A a \in Sent(r)' : a \in Sent(r) \/ (a = <<x, 0>> /\ a[1] = x)
      BY <2>2, <2>7
    <3>2. AtMostOne(Sent(r)) /\ \A a \in Sent(r) : a[1] = complete.user1
      BY <2>1, <2>3, <2>7 DEF RoomPair
    <3>3. from = "room1" => Sent(r) = {}
      <4>1. from = "room1" => SentTo(r) = {}
        BY <1>1, <2>1, <2>3, <2>7 DEF RoomInv, Early
      <4>2. ASSUME NEW a \in Sent(r) PROVE a[1] \in SentTo(r)
        BY SentAreUsers DEF Core
      <4> QED BY <4>1, <4>2
    <3>4. from = "room2" => {complete.user1, x} \in pairs /\ {x, complete.user1} \in pairs
      <4>1. {complete.user1, complete.user2} = {complete.user2, complete.user1}
        OBVIOUS
      <4> QED BY <1>1, <4>1 DEF Shared, HandPair
    <3>5. ASSUME NEW a \in Sent(r)', NEW b \in Sent(r)', a # b PROVE {a[1], b[1]} \in pairs
      <4>1. ~(a \in Sent(r) /\ b \in Sent(r))
        BY <3>2, <3>5 DEF AtMostOne
      <4>2. a \in Sent(r) \/ b \in Sent(r)
        BY <3>1, <3>5
      <4>3. from = "room2"
        BY <1>2, <3>3, <4>2
      <4> QED BY <3>1, <3>2, <3>4, <4>1, <4>2, <4>3
    <3>6. ASSUME Held(r)' PROVE AtMostOne(Sent(r)') /\ \A a \in Sent(r)' : a[1] = complete'.user1
      <4>1. \A a \in Sent(r)' : a = <<x, 0>> /\ a[1] = complete'.user1
        BY <2>4, <3>1, <3>3, <3>6
      <4> QED BY <4>1 DEF AtMostOne
    <3> QED BY <1>1, <2>5, <3>5, <3>6 DEF RoomPair
  <2> QED BY <2>6, <2>7
<1>5. \A r \in Issued' : RoomPair(r)'
  BY <1>1, <1>4 DEF Issued
<1> QED BY <1>1, <1>2, <1>5, UpdateShare DEF Updating

LEMMA CompleteShare ==
    ASSUME Core, Shared, RunMatchingComplete \/ PopThrows
    PROVE  Shared'
<1>1. CASE UpdateMatchingDict
  <2>1. PICK v, w : v = complete.user1 /\ w = complete.user2
    OBVIOUS
  <2>2. \/ SetComplete("state1", v, "find1") \/ SetComplete("state2", w, "find2")
        \/ FindComplete("find1", v, "room1") \/ FindComplete("find2", w, "room2")
        \/ SetRoom("room1", v, "state2") \/ SetRoom("room2", w, "idle")
    BY <1>1, <2>1, UpdateSteps
  <2> QED BY <2>1, <2>2, SetCompleteShare, SetRoomShare
<1> QED BY <1>1, PopShare, DequeueMatchingShare DEF RunMatchingComplete
-----------------------------------------------------------------------------
(* Nobody has been sent to a room that has just been offered. *)
LEMMA PushRoomShare ==
    ASSUME Core, Shared, PushRoom
    PROVE  Shared'
<1>1. /\ UNCHANGED pairs /\ UNCHANGED matchingQueue /\ UNCHANGED complete
      /\ UNCHANGED <<answers, data, matchingDict>>
      /\ roomsIssued' = roomsIssued + 1 /\ roomList' = Append(roomList, roomsIssued')
  BY DEF PushRoom, past, worker, dict
<1>2. \A r : Sent(r)' = Sent(r) /\ (Held(r)' <=> Held(r))
  BY <1>1 DEF Sent, InDict, Current, Held
<1>3. ASSUME NEW r \in Issued' PROVE RoomPair(r)'
  <2>1. CASE r \in Issued
    <3>1. RoomPair(r)
      BY <2>1 DEF Shared
    <3>2. AtMostOne(Sent(r))' <=> AtMostOne(Sent(r)')
      BY DEF AtMostOne
    <3> QED BY <1>1, <1>2, <3>1, <3>2 DEF RoomPair
  <2>2. CASE r \notin Issued
    <3>1. r = roomsIssued' /\ roomList \in Seq(Issued)
      BY <1>1, <2>2 DEF Issued, Core, MatchInv, TypeInv
    <3>2. Offered(r)'
      <4>1. Issued \subseteq Nat /\ r \in Nat /\ roomList' = Append(roomList, r)
        BY <1>1, <3>1 DEF Issued
      <4>2. roomList \in Seq(Nat)
        BY <3>1, <4>1, SeqMonotonic
      <4>3. /\ Append(roomList, r) \in Seq(Nat) /\ Len(Append(roomList, r)) = Len(roomList) + 1
            /\ Append(roomList, r)[Len(roomList) + 1] = r
        BY <4>1, <4>2, AppendProperties
      <4>4. Len(roomList) + 1 \in DOMAIN Append(roomList, r)
        BY <4>2, <4>3, LenProperties
      <4> QED BY <4>1, <4>3, <4>4 DEF Offered
    <3>3. SentTo(r)' = {} /\ ~Held(r)'
      BY <3>2 DEF Core, MatchInv, RoomsInv, RoomInv
    <3>4. Sent(r)' = {}
      BY <3>3, SentToNobody DEF Core
    <3> QED BY <3>3, <3>4 DEF RoomPair
  <2> QED BY <2>1, <2>2
<1> QED BY <1>1, <1>3 DEF Shared, QueuePairs, HandPair, Twos, Off

LEMMA OthersShare ==
    ASSUME Core, Shared, PopRequest \/ PushRoom \/ OfferFails \/ UNCHANGED vars
    PROVE  Shared'
<1>1. CASE PopRequest \/ OfferFails \/ UNCHANGED vars
  <2>1. UNCHANGED <<pairs, matchingQueue, complete, answers, roomsIssued>> /\ UNCHANGED <<data, matchingDict>>
    BY <1>1 DEF PopRequest, OfferFails, vars, past, omok, worker, dict
  <2> QED BY <2>1, DictCurrent, QuietShare
<1> QED BY <1>1, PushRoomShare
-----------------------------------------------------------------------------
LEMMA ShareInit == Init => ShareInv
<1> SUFFICES ASSUME Init PROVE Shared
  BY DEF ShareInv
<1>1. matchingQueue = <<>> /\ complete.at = "idle" /\ pairs = {} /\ Issued = {}
  BY DEF Init, Idle, Issued
<1>2. QueuePairs
  <2>1. Len(matchingQueue) = 0 /\ Off = 0
    BY <1>1 DEF Off
  <2>2. \A k \in Nat \ {0} : ~(2 * k + 0 <= 0)
    OBVIOUS
  <2> QED BY <2>1, <2>2 DEF QueuePairs
<1> QED BY <1>1, <1>2 DEF Shared, HandPair, Twos, Updating

LEMMA NextShare ==
    ASSUME Core, Shared, [Next]_vars, Counts, Serial'
    PROVE  Shared'
<1>1. ASSUME NEW h \in Handlers, AddUser(h) \/ HandlerStep(h) PROVE Shared'
  BY <1>1, HandlerShare, AnswerShare DEF HandlerStep
<1>2. ASSUME NEW u \in Users, CancelMatching(u) PROVE FALSE
  BY <1>2 DEF CancelMatching, Serial, Counts
<1> QED BY <1>1, <1>2, RunMatchingShare, CompleteShare, OthersShare DEF Next

LEMMA ShareNext == MatchInv /\ PairInv /\ ShareInv /\ [Next]_vars => ShareInv'
<1> SUFFICES ASSUME MatchInv, PairInv, ShareInv, [Next]_vars, Serial' PROVE Shared'
  BY DEF ShareInv
<1>1. Counts /\ Counts' /\ cancels' >= cancels /\ overlaps' >= overlaps
  BY Growing DEF PairInv, Counts
<1>2. Serial
  BY <1>1 DEF Serial, Counts
<1>3. Core /\ Shared
  BY <1>2, NextInv DEF PairInv, ShareInv, Core
<1> QED BY <1>1, <1>3, NextShare

THEOREM ShareInvariant == Spec => []ShareInv
<1>1. Spec => []MatchInv
  BY MatchingInvariant
<1>2. Spec => []PairInv
  BY PairInvariant
<1>3. MatchInv /\ PairInv /\ ShareInv /\ [Next]_vars => ShareInv'
  BY ShareNext
<1> QED BY <1>1, <1>2, <1>3, ShareInit, PTL DEF Spec

(* While nobody cancels and no two requests of a user overlap, whatever    *)
(* Redis does: users who are sent to one room were matched with each other,*)
(* nobody is sent to a room twice, and nobody is matched with himself.     *)
THEOREM RoomsAreForPairs == Spec => []SameRoomSamePair
<1>1. ASSUME MatchInv, ShareInv PROVE SameRoomSamePair
  <2> SUFFICES ASSUME Serial
               PROVE  /\ \A r \in Issued : \A a, b \in AnswersWith(r) : a # b => {a[1], b[1]} \in pairs
                      /\ \A p \in pairs : Cardinality(p) = 2
    BY DEF SameRoomSamePair, Issued
  <2>1. ASSUME NEW r \in Issued, NEW a \in AnswersWith(r) PROVE a \in Sent(r)
    <3>1. PICK u \in Users : a \in {u} \X DOMAIN answers[u]
      BY <2>1 DEF AnswersWith
    <3>2. PICK i \in DOMAIN answers[u] : a = <<u, i>>
      BY <3>1
    <3>3. DOMAIN answers[u] = 1 .. Len(answers[u]) /\ Len(answers[u]) \in Nat
      <4>1. answers[u] \in Seq(Issued \cup {NoRoom})
        BY <1>1 DEF MatchInv, TypeInv
      <4> QED BY <4>1, LenProperties
    <3>4. i \in Nat /\ i # 0
      BY <3>2, <3>3
    <3>5. answers[a[1]][a[2]] = r
      BY <2>1 DEF AnswersWith
    <3> QED BY <3>2, <3>4, <3>5 DEF Sent
  <2> QED BY <1>1, <2>1 DEF ShareInv, Shared, Twos, RoomPair
<1> QED BY <1>1, MatchingInvariant, ShareInvariant, PTL
=============================================================================
