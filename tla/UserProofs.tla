----------------------------- MODULE UserProofs -----------------------------
(***************************************************************************)
(* Proofs about module UserManager, for any number of sessions, slots and  *)
(* connections, whether there is a slot for everybody or not: sessions     *)
(* keep their slots as SlotIsOwn says, and everything keeps its type.      *)
(***************************************************************************)
EXTENDS UserManager, SequenceTheorems, FiniteSetTheorems, TLAPS

(* Where in the buffer a session is announced and where it ends. *)
Con(s, k) == k \in DOMAIN pktBuffer /\ pktBuffer[k] = Packet("NtfInConnectClient", s)
Dis(s, k) == k \in DOMAIN pktBuffer /\ pktBuffer[k] = Packet("NtfInDisConnectClient", s)
HasCon(s) == \E k \in Nat : Con(s, k)
HasDis(s) == \E k \in Nat : Dis(s, k)

OwnSlot(s) == /\ dict[s] \in Slots
              /\ users[dict[s]].isUsing /\ users[dict[s]].session = s

(* Somebody found no empty slot when he was announced. *)
RanOut == \E t \in Sessions : link[t] # "new" /\ ~HasCon(t) /\ dict[t] = NoSlot

(* A session has its slot, or it has none, or only slot 0 to lose. *)
Kept(s) == OwnSlot(s) \/ (dict[s] \in {NoSlot, 0} /\ RanOut)

(* A session is announced before it ends, each once, and ends when its     *)
(* link is down; in between it keeps its slot.                             *)
SessionInv(s) ==
    /\ link[s] = "new" => ~HasCon(s)
    /\ link[s] = "new" \/ HasCon(s) => dict[s] = NoSlot
    /\ HasDis(s) => link[s] = "closed"
    /\ \A j, k \in Nat : Con(s, j) /\ Con(s, k) => j = k
    /\ \A j, k \in Nat : Dis(s, j) /\ Dis(s, k) => j = k
    /\ \A j, k \in Nat : Con(s, j) /\ Dis(s, k) => j < k
    /\ link[s] = "closed" /\ HasCon(s) => HasDis(s)
    /\ link[s] # "new" /\ ~HasCon(s) /\ (link[s] = "closed" => HasDis(s)) => Kept(s)

(* The session of a used slot knows it, and has not ended unless leaving   *)
(* its room threw.                                                         *)
Holds(s, i) ==
    /\ users[i].session = s /\ dict[s] = i
    /\ link[s] # "new" /\ ~HasCon(s)
    /\ link[s] = "closed" => HasDis(s) \/ s \in RoomThrows

SlotInv(i) == users[i].isUsing => \E s \in Sessions : Holds(s, i)

WindowInv == \E k \in 0 .. MaxUserCount : checkStart = k * CheckUserCount

SlotsInv ==
    /\ TypeOK
    /\ WindowInv
    /\ \A s \in Sessions : SessionInv(s)
    /\ \A i \in Slots : SlotInv(i)

-----------------------------------------------------------------------------
(* The elements of a finite set of numbers have the ranks 1, 2, ... up to  *)
(* its size, so Nth finds an element for each of these.                    *)
LEMMA NthElement ==
    ASSUME NEW S \in SUBSET Int, IsFiniteSet(S), NEW k \in 1 .. Cardinality(S)
    PROVE  Nth(S, k) \in S
<1> DEFINE n == Cardinality(S)
           Below(i) == {j \in S : j < i}
           rank == [i \in S |-> Cardinality(Below(i))]
<1>1. n \in Nat
  BY FS_CardinalityType
<1>2. \A i \in S : IsFiniteSet(Below(i)) /\ Cardinality(Below(i)) \in Nat
                   /\ Cardinality(Below(i)) < n
  <2> SUFFICES ASSUME NEW i \in S
               PROVE  IsFiniteSet(Below(i)) /\ Cardinality(Below(i)) \in Nat
                      /\ Cardinality(Below(i)) < n
    OBVIOUS
  <2>1. Below(i) \in SUBSET S /\ Below(i) # S
    OBVIOUS
  <2>2. IsFiniteSet(Below(i)) /\ Cardinality(Below(i)) <= n /\ (n = Cardinality(Below(i)) => S = Below(i))
    BY <2>1, FS_Subset
  <2>3. Cardinality(Below(i)) \in Nat
    BY <2>2, FS_CardinalityType
  <2> QED BY <1>1, <2>1, <2>2, <2>3
<1>3. \A i, j \in S : i < j => rank[i] < rank[j]
  <2> SUFFICES ASSUME NEW i \in S, NEW j \in S, i < j
               PROVE  rank[i] < rank[j]
    OBVIOUS
  <2>1. Below(i) \in SUBSET Below(j) /\ i \in Below(j) /\ i \notin Below(i)
    <3>1. i \in Int /\ j \in Int /\ \A x \in S : x \in Int
      OBVIOUS
    <3>2. \A x \in S : x < i => x < j
      BY <3>1
    <3>3. i \in Below(j) /\ i \notin Below(i)
      BY <3>1
    <3> QED BY <3>2, <3>3
  <2>2. Cardinality(Below(i)) <= Cardinality(Below(j))
        /\ (Cardinality(Below(j)) = Cardinality(Below(i)) => Below(j) = Below(i))
    BY <1>2, <2>1, FS_Subset
  <2> QED BY <1>2, <2>1, <2>2
<1>4. rank \in Injection(S, 0 .. n - 1)
  <2>1. rank \in [S -> 0 .. n - 1]
    BY <1>1, <1>2
  <2>2. \A i, j \in S : rank[i] = rank[j] => i = j
    <3> SUFFICES ASSUME NEW i \in S, NEW j \in S, rank[i] = rank[j], i # j PROVE FALSE
      OBVIOUS
    <3>1. i < j \/ j < i
      OBVIOUS
    <3>2. rank[i] < rank[j] \/ rank[j] < rank[i]
      BY <1>3, <3>1
    <3>3. rank[i] \in Nat
      BY <1>2
    <3> QED BY <3>2, <3>3
  <2> QED BY <2>1, <2>2 DEF Injection, IsInjective
<1>5. IsFiniteSet(0 .. n - 1) /\ Cardinality(0 .. n - 1) = n
  <2>1. 0 \in Int /\ n - 1 \in Int /\ (n - 1) - 0 + 1 = n /\ (0 > n - 1 => n = 0)
    BY <1>1
  <2> HIDE DEF n
  <2> QED BY <2>1, FS_Interval
<1>6. rank \in Surjection(S, 0 .. n - 1)
  BY <1>4, <1>5, FS_Injection
<1>7. \E i \in S : rank[i] = k - 1
  <2>1. k - 1 \in 0 .. n - 1
    BY <1>1
  <2> HIDE DEF rank, n
  <2> QED BY <1>6, <2>1 DEF Surjection
<1> QED BY <1>7 DEF Nth
-----------------------------------------------------------------------------
(* The buffer: what is posted goes to its end, what is taken is its head.  *)
LEMMA Positions ==
    ASSUME TypeOK
    PROVE  /\ Len(pktBuffer) \in Nat /\ DOMAIN pktBuffer = 1 .. Len(pktBuffer)
           /\ \A k \in DOMAIN pktBuffer : pktBuffer[k] \in PacketType
           /\ \A s : HasCon(s) <=> Buffered("NtfInConnectClient", s)
           /\ \A s : HasDis(s) <=> Buffered("NtfInDisConnectClient", s)
<1>1. Len(pktBuffer) \in Nat /\ DOMAIN pktBuffer = 1 .. Len(pktBuffer)
      /\ \A k \in DOMAIN pktBuffer : pktBuffer[k] \in PacketType
  BY LenProperties, ElementOfSeq DEF TypeOK
<1> QED BY <1>1 DEF HasCon, HasDis, Con, Dis, Buffered, Contains

LEMMA PostPacket ==
    ASSUME TypeOK, NEW p \in PacketType, pktBuffer' = Append(pktBuffer, p)
    PROVE  /\ pktBuffer' \in Seq(PacketType)
           /\ \A s \in Sessions : \A k \in Nat :
                 /\ Con(s, k)' <=> \/ Con(s, k)
                                   \/ k = Len(pktBuffer) + 1 /\ p = Packet("NtfInConnectClient", s)
                 /\ Dis(s, k)' <=> \/ Dis(s, k)
                                   \/ k = Len(pktBuffer) + 1 /\ p = Packet("NtfInDisConnectClient", s)
<1>1. Len(pktBuffer) \in Nat /\ DOMAIN pktBuffer = 1 .. Len(pktBuffer)
  BY Positions
<1>2. /\ pktBuffer' \in Seq(PacketType)
      /\ Len(pktBuffer') = Len(pktBuffer) + 1
      /\ \A i \in 1 .. Len(pktBuffer) : pktBuffer'[i] = pktBuffer[i]
      /\ pktBuffer'[Len(pktBuffer) + 1] = p
  BY AppendProperties DEF TypeOK
<1>3. DOMAIN pktBuffer' = 1 .. Len(pktBuffer) + 1
  BY <1>2, LenProperties
<1> QED BY <1>1, <1>2, <1>3 DEF Con, Dis

LEMMA TakePacket ==
    ASSUME TypeOK, pktBuffer # <<>>, NEW X \in Seq(PacketType),
           \A i \in DOMAIN X : X[i].id = "ReqInDisConnectUser",
           pktBuffer' = Tail(pktBuffer) \o X
    PROVE  /\ pktBuffer' \in Seq(PacketType)
           /\ \A s \in Sessions : \A k \in Nat :
                 /\ Con(s, k)' <=> k >= 1 /\ Con(s, k + 1)
                 /\ Dis(s, k)' <=> k >= 1 /\ Dis(s, k + 1)
<1> DEFINE n == Len(pktBuffer)
           T == Tail(pktBuffer)
<1>1. n \in Nat /\ DOMAIN pktBuffer = 1 .. n /\ n >= 1
  BY Positions, EmptySeq DEF TypeOK
<1>2. T \in Seq(PacketType) /\ Len(T) = n - 1 /\ \A i \in 1 .. n - 1 : T[i] = pktBuffer[i + 1]
  BY HeadTailProperties DEF TypeOK
<1>3. Len(X) \in Nat /\ DOMAIN X = 1 .. Len(X)
  BY LenProperties
<1>4. /\ pktBuffer' \in Seq(PacketType)
      /\ Len(pktBuffer') = n - 1 + Len(X)
      /\ \A i \in 1 .. n - 1 + Len(X) : pktBuffer'[i] = IF i <= n - 1 THEN T[i] ELSE X[i - (n - 1)]
  <2> HIDE DEF T, n
  <2>1. pktBuffer' = T \o X
    BY DEF T
  <2>2. /\ T \o X \in Seq(PacketType)
        /\ Len(T \o X) = Len(T) + Len(X)
        /\ \A i \in 1 .. Len(T) + Len(X) :
              (T \o X)[i] = IF i <= Len(T) THEN T[i] ELSE X[i - Len(T)]
    BY <1>2, ConcatProperties
  <2> QED BY <1>2, <2>1, <2>2
<1>5. DOMAIN pktBuffer' = 1 .. n - 1 + Len(X)
  BY <1>4, LenProperties
<1>6. \A i \in 1 .. n - 1 : i \in DOMAIN pktBuffer' /\ pktBuffer'[i] = pktBuffer[i + 1]
  BY <1>1, <1>2, <1>3, <1>4, <1>5
<1>7. \A i \in DOMAIN pktBuffer' : i > n - 1 => pktBuffer'[i].id = "ReqInDisConnectUser"
  <2> HIDE DEF T, n
  <2> SUFFICES ASSUME NEW i \in DOMAIN pktBuffer', i > n - 1
               PROVE  pktBuffer'[i].id = "ReqInDisConnectUser"
    OBVIOUS
  <2>1. i \in 1 .. n - 1 + Len(X) /\ ~ (i <= n - 1)
    BY <1>1, <1>3, <1>5
  <2>2. pktBuffer'[i] = X[i - (n - 1)]
    BY <1>4, <2>1
  <2>3. i - (n - 1) \in DOMAIN X
    BY <1>1, <1>3, <2>1
  <2> QED BY <2>2, <2>3
<1> SUFFICES ASSUME NEW s \in Sessions, NEW k \in Nat
             PROVE  /\ Con(s, k)' <=> k >= 1 /\ Con(s, k + 1)
                    /\ Dis(s, k)' <=> k >= 1 /\ Dis(s, k + 1)
  BY <1>4
<1> HIDE DEF T, n
<1>8. CASE k \in 1 .. n - 1
  BY <1>1, <1>6, <1>8 DEF Con, Dis
<1>9. CASE k \notin 1 .. n - 1
  <2>1. ~ (k >= 1 /\ k + 1 \in DOMAIN pktBuffer)
    BY <1>1, <1>9
  <2>2. k \in DOMAIN pktBuffer' => k > n - 1
    BY <1>1, <1>3, <1>5, <1>9
  <2>3. k \in DOMAIN pktBuffer' => pktBuffer'[k].id = "ReqInDisConnectUser"
    BY <1>7, <2>2
  <2> QED BY <2>1, <2>3 DEF Con, Dis, Packet
<1> QED BY <1>8, <1>9

LEMMA TakeHead ==
    ASSUME TypeOK, NEW id, NEW t, Take(id, t)
    PROVE  /\ pktBuffer' \in Seq(PacketType)
           /\ 1 \in DOMAIN pktBuffer /\ pktBuffer[1] = Packet(id, t)
           /\ \A s \in Sessions : \A k \in Nat :
                 /\ Con(s, k)' <=> k >= 1 /\ Con(s, k + 1)
                 /\ Dis(s, k)' <=> k >= 1 /\ Dis(s, k + 1)
<1>1. pktBuffer # <<>> /\ Head(pktBuffer) = Packet(id, t) /\ pktBuffer' = Tail(pktBuffer)
  BY DEF Take
<1>2. <<>> \in Seq(PacketType) /\ Tail(pktBuffer) \in Seq(PacketType)
  BY <1>1, EmptySeq, HeadTailProperties DEF TypeOK
<1>3. pktBuffer' = Tail(pktBuffer) \o <<>>
  BY <1>1, <1>2, ConcatEmptySeq
<1>4. 1 \in DOMAIN pktBuffer /\ pktBuffer[1] = Packet(id, t)
  BY <1>1, Positions, EmptySeq, HeadTailProperties DEF TypeOK
<1>5. \A i \in DOMAIN <<>> : <<>>[i].id = "ReqInDisConnectUser"
  OBVIOUS
<1> QED BY <1>1, <1>2, <1>3, <1>4, <1>5, TakePacket
-----------------------------------------------------------------------------
(* What most packets leave as it is: who has which slot.                   *)
SameSlots ==
    /\ dict' = dict
    /\ \A i \in Slots : users'[i].isUsing = users[i].isUsing
                        /\ users'[i].session = users[i].session

SameLinks == \A s \in Sessions : \/ link'[s] = link[s]
                                 \/ link[s] = "up" /\ link'[s] = "closing"

(* A step that posts no announcement and no end, and takes none (d = 0     *)
(* when it takes nothing, 1 when it takes the head), keeps the invariant.  *)
LEMMA QuietStep ==
    ASSUME SlotsInv, TypeOK', WindowInv', SameSlots, SameLinks, NEW d \in {0, 1},
           \A s \in Sessions : \A k \in Nat :
              /\ Con(s, k)' <=> k >= 1 /\ Con(s, k + d)
              /\ Dis(s, k)' <=> k >= 1 /\ Dis(s, k + d),
           d = 1 => \A s \in Sessions : ~Con(s, 1) /\ ~Dis(s, 1)
    PROVE  SlotsInv'
<1>1. \A s \in Sessions : \A k \in Nat : (Con(s, k) => k > d) /\ (Dis(s, k) => k > d)
  <2>1. \A s : \A k : (Con(s, k) => k \in 1 .. Len(pktBuffer)) /\ (Dis(s, k) => k \in 1 .. Len(pktBuffer))
    BY Positions DEF Con, Dis, SlotsInv
  <2>2. \A s : \A k \in Nat : (Con(s, k) => k >= 1) /\ (Dis(s, k) => k >= 1)
    BY <2>1, Positions DEF SlotsInv
  <2>3. CASE d = 0
    BY <2>2, <2>3
  <2>4. CASE d = 1
    BY <2>2, <2>4
  <2> QED BY <2>3, <2>4
<1>2. \A s \in Sessions : \A k \in Nat : /\ Con(s, k)' => Con(s, k + d)
                                         /\ Dis(s, k)' => Dis(s, k + d)
                                         /\ Con(s, k) => k - d \in Nat /\ Con(s, k - d)'
                                         /\ Dis(s, k) => k - d \in Nat /\ Dis(s, k - d)'
  <2> SUFFICES ASSUME NEW s \in Sessions, NEW k \in Nat
               PROVE  /\ Con(s, k)' => Con(s, k + d)
                      /\ Dis(s, k)' => Dis(s, k + d)
                      /\ Con(s, k) => k - d \in Nat /\ Con(s, k - d)'
                      /\ Dis(s, k) => k - d \in Nat /\ Dis(s, k - d)'
    OBVIOUS
  <2>1. k > d => k - d \in Nat /\ k - d >= 1 /\ (k - d) + d = k
    OBVIOUS
  <2> QED BY <1>1, <2>1
<1>3. \A s \in Sessions : (HasCon(s)' <=> HasCon(s)) /\ (HasDis(s)' <=> HasDis(s))
  <2>1. \A k \in Nat : k + d \in Nat
    OBVIOUS
  <2> QED BY <1>2, <2>1 DEF HasCon, HasDis
<1>4. \A s \in Sessions : Kept(s) => Kept(s)'
  <2>1. \A s \in Sessions : OwnSlot(s) => OwnSlot(s)'
    BY DEF SameSlots, OwnSlot
  <2>2. RanOut => RanOut'
    BY <1>3 DEF SameSlots, SameLinks, RanOut
  <2>3. dict' = dict
    BY DEF SameSlots
  <2> QED BY <2>1, <2>2, <2>3 DEF Kept
<1>5. \A s \in Sessions : SessionInv(s)'
  <2> SUFFICES ASSUME NEW s \in Sessions PROVE SessionInv(s)'
    OBVIOUS
  <2>1. SessionInv(s)
    BY DEF SlotsInv
  <2>2. (link'[s] = "new" <=> link[s] = "new") /\ (link'[s] = "closed" <=> link[s] = "closed")
    BY DEF SameLinks
  <2>3. \A j, k \in Nat : j + d \in Nat /\ k + d \in Nat /\ (j + d = k + d => j = k) /\ (j + d < k + d => j < k)
    OBVIOUS
  <2>4. /\ \A j, k \in Nat : Con(s, j)' /\ Con(s, k)' => j = k
        /\ \A j, k \in Nat : Dis(s, j)' /\ Dis(s, k)' => j = k
        /\ \A j, k \in Nat : Con(s, j)' /\ Dis(s, k)' => j < k
    BY <1>2, <2>1, <2>3 DEF SessionInv
  <2>5. dict' = dict
    BY DEF SameSlots
  <2> QED BY <1>3, <1>4, <2>1, <2>2, <2>4, <2>5 DEF SessionInv
<1>6. \A i \in Slots : SlotInv(i)'
  <2> SUFFICES ASSUME NEW i \in Slots, users'[i].isUsing
               PROVE  \E s \in Sessions : Holds(s, i)'
    BY DEF SlotInv
  <2>1. users[i].isUsing /\ SlotInv(i)
    BY Zenon DEF SlotsInv, SameSlots
  <2>2. PICK s \in Sessions : Holds(s, i)
    BY <2>1 DEF SlotInv
  <2>3. users'[i].session = users[i].session /\ dict' = dict
    BY DEF SameSlots
  <2>4. link'[s] = link[s] \/ (link[s] = "up" /\ link'[s] = "closing")
    BY DEF SameLinks
  <2> QED BY <1>3, <2>2, <2>3, <2>4 DEF Holds
<1> QED BY <1>5, <1>6 DEF SlotsInv
-----------------------------------------------------------------------------
(* A session connects: it is announced at the end of the buffer. *)
LEMMA PacketFacts ==
    /\ HeartBeatTick \in PacketType
    /\ \A s \in Sessions :
          \A id \in {"NtfInConnectClient", "NtfInDisConnectClient", "ReqLogin", "ResHeartBeat",
                     "ReqDisConnect", "ReqInDisConnectUser", "ResDbLogin", "ResDbLoadUserGameData"} :
             Packet(id, s) \in PacketType
    /\ \A id, id2, s, t : Packet(id, s) = Packet(id2, t) <=> id = id2 /\ s = t
BY DEF PacketType, Packet

LEMMA ConnectedInv ==
    ASSUME SlotsInv, NEW s \in Sessions, OnConnected(s)
    PROVE  SlotsInv'
<1> DEFINE p == Packet("NtfInConnectClient", s)
<1>0. PICK n \in Nat : n = Len(pktBuffer) + 1
  BY Positions DEF SlotsInv
<1>1. /\ TypeOK
      /\ \A t : \A k : (Con(t, k) => k \in Nat /\ k < n) /\ (Dis(t, k) => k \in Nat /\ k < n)
  BY <1>0, Positions DEF SlotsInv, Con, Dis
<1>2. pktBuffer' = Append(pktBuffer, p) /\ p \in PacketType
  BY PacketFacts DEF OnConnected, Post, Enqueue
<1>3. /\ link[s] = "new" /\ link' = [link EXCEPT ![s] = "up"]
      /\ UNCHANGED <<users, dict, redis, mysql, checkStart, logins>>
  BY DEF OnConnected, db
<1>4. pktBuffer' \in Seq(PacketType)
      /\ \A t \in Sessions : \A k \in Nat :
            (Con(t, k)' <=> Con(t, k) \/ (k = n /\ t = s)) /\ (Dis(t, k)' <=> Dis(t, k))
  BY <1>0, <1>1, <1>2, PostPacket, PacketFacts
<1>5. TypeOK' /\ WindowInv'
  BY <1>1, <1>3, <1>4 DEF TypeOK, WindowInv, SlotsInv
<1>6. /\ \A t \in Sessions : link'[t] = IF t = s THEN "up" ELSE link[t]
      /\ SessionInv(s) /\ ~HasCon(s) /\ ~HasDis(s) /\ dict[s] = NoSlot
  <2>1. SessionInv(s)
    BY DEF SlotsInv
  <2> QED BY <1>1, <1>3, <2>1 DEF TypeOK, SessionInv
<1> HIDE DEF p
<1>7. \A t \in Sessions : SessionInv(t)'
  <2> SUFFICES ASSUME NEW t \in Sessions PROVE SessionInv(t)'
    OBVIOUS
  <2>1. SessionInv(t)
    BY DEF SlotsInv
  <2>2. CASE t = s
    <3>1. \A k \in Nat : ~Con(s, k) /\ ~Dis(s, k)
      BY <1>6 DEF HasCon, HasDis
    <3>2. HasCon(s)' /\ ~HasDis(s)' /\ \A k \in Nat : (Con(s, k)' <=> k = n) /\ ~Dis(s, k)'
      BY <1>1, <1>4, <3>1 DEF HasCon, HasDis
    <3> QED BY <1>3, <1>6, <2>2, <3>2 DEF SessionInv
  <2>3. CASE t # s
    <3>1. \A k \in Nat : (Con(t, k)' <=> Con(t, k)) /\ (Dis(t, k)' <=> Dis(t, k))
      BY <1>4, <2>3
    <3>2. (HasCon(t)' <=> HasCon(t)) /\ (HasDis(t)' <=> HasDis(t))
      BY <3>1 DEF HasCon, HasDis
    <3>3. link'[t] = link[t] /\ dict' = dict /\ (OwnSlot(t) => OwnSlot(t)')
      BY <1>3, <1>6, <2>3 DEF OwnSlot
    <3>4. RanOut => RanOut'
      <4> SUFFICES ASSUME RanOut PROVE RanOut'
        OBVIOUS
      <4>1. PICK u \in Sessions : link[u] # "new" /\ ~HasCon(u) /\ dict[u] = NoSlot
        BY DEF RanOut
      <4>2. u # s
        BY <1>3, <4>1
      <4>3. ~HasCon(u)' /\ link'[u] = link[u]
        BY <1>4, <1>6, <4>1, <4>2 DEF HasCon
      <4> QED BY <1>3, <4>1, <4>3 DEF RanOut
    <3>5. Kept(t) => Kept(t)'
      BY <3>3, <3>4 DEF Kept
    <3> QED BY <2>1, <3>1, <3>2, <3>3, <3>5 DEF SessionInv
  <2> QED BY <2>2, <2>3
<1>8. \A i \in Slots : SlotInv(i)'
  <2> SUFFICES ASSUME NEW i \in Slots, users'[i].isUsing PROVE \E t \in Sessions : Holds(t, i)'
    BY DEF SlotInv
  <2>1. users' = users /\ dict' = dict
    BY <1>3
  <2>2. PICK t \in Sessions : Holds(t, i)
    BY <2>1 DEF SlotsInv, SlotInv
  <2>3. t # s
    BY <1>3, <2>2 DEF Holds
  <2>4. (HasCon(t)' <=> HasCon(t)) /\ (HasDis(t)' <=> HasDis(t))
    BY <1>4, <2>3 DEF HasCon, HasDis
  <2> QED BY <1>6, <2>1, <2>2, <2>3, <2>4 DEF Holds
<1> QED BY <1>5, <1>7, <1>8 DEF SlotsInv
-----------------------------------------------------------------------------
(* A link goes down: the end of the session is posted.                     *)
LEMMA ClosedInv ==
    ASSUME SlotsInv, NEW s \in Sessions, OnClosed(s)
    PROVE  SlotsInv'
<1> DEFINE p == Packet("NtfInDisConnectClient", s)
<1>0. PICK n \in Nat : n = Len(pktBuffer) + 1
  BY Positions DEF SlotsInv
<1>1. /\ TypeOK
      /\ \A t : \A k : (Con(t, k) => k \in Nat /\ k < n) /\ (Dis(t, k) => k \in Nat /\ k < n)
  BY <1>0, Positions DEF SlotsInv, Con, Dis
<1>2. pktBuffer' = Append(pktBuffer, p) /\ p \in PacketType
  BY PacketFacts DEF OnClosed, Enqueue
<1>3. /\ link[s] \in {"up", "closing"} /\ link' = [link EXCEPT ![s] = "closed"]
      /\ UNCHANGED <<users, dict, redis, mysql, checkStart, logins>>
  BY DEF OnClosed, db
<1>4. pktBuffer' \in Seq(PacketType)
      /\ \A t \in Sessions : \A k \in Nat :
            (Con(t, k)' <=> Con(t, k)) /\ (Dis(t, k)' <=> Dis(t, k) \/ (k = n /\ t = s))
  BY <1>0, <1>1, <1>2, PostPacket, PacketFacts
<1>5. TypeOK' /\ WindowInv'
  BY <1>1, <1>3, <1>4 DEF TypeOK, WindowInv, SlotsInv
<1>6. \A t \in Sessions : link'[t] = IF t = s THEN "closed" ELSE link[t]
  BY <1>1, <1>3 DEF TypeOK
<1>7. \A t \in Sessions : (HasCon(t)' <=> HasCon(t)) /\ (Kept(t) => Kept(t)')
                          /\ (HasDis(t)' <=> HasDis(t) \/ t = s)
  <2>1. \A t \in Sessions : (HasCon(t)' <=> HasCon(t)) /\ (HasDis(t)' <=> HasDis(t) \/ t = s)
    BY <1>3, <1>4 DEF HasCon, HasDis
  <2>2. RanOut => RanOut'
    BY <1>3, <1>6, <2>1 DEF RanOut
  <2>3. \A t \in Sessions : OwnSlot(t) => OwnSlot(t)'
    BY <1>3 DEF OwnSlot
  <2> QED BY <1>3, <2>1, <2>2, <2>3 DEF Kept
<1> HIDE DEF p
<1>8. \A t \in Sessions : SessionInv(t)'
  <2> SUFFICES ASSUME NEW t \in Sessions PROVE SessionInv(t)'
    OBVIOUS
  <2>1. SessionInv(t)
    BY DEF SlotsInv
  <2>2. CASE t = s
    <3>1. ~HasDis(s) /\ link[s] # "new" /\ link[s] # "closed"
      BY <1>3, <2>1, <2>2 DEF SessionInv
    <3>2. \A k \in Nat : (Dis(s, k)' <=> k = n) /\ (Con(s, k)' => k < n)
      BY <1>1, <1>4, <3>1 DEF HasDis
    <3>3. \A j, k \in Nat : Con(s, j)' /\ Con(s, k)' => j = k
      BY <1>4, <2>1, <2>2 DEF SessionInv
    <3>4. (~HasCon(s) => Kept(s)) /\ (HasCon(s) => dict[s] = NoSlot)
      BY <2>1, <2>2, <3>1 DEF SessionInv
    <3> QED BY <1>3, <1>6, <1>7, <2>2, <3>2, <3>3, <3>4 DEF SessionInv
  <2>3. CASE t # s
    <3>1. \A k \in Nat : (Con(t, k)' <=> Con(t, k)) /\ (Dis(t, k)' <=> Dis(t, k))
      BY <1>4, <2>3
    <3>2. link'[t] = link[t]
      BY <1>6, <2>3
    <3> QED BY <1>3, <1>7, <2>1, <2>3, <3>1, <3>2 DEF SessionInv
  <2> QED BY <2>2, <2>3
<1>9. \A i \in Slots : SlotInv(i)'
  <2> SUFFICES ASSUME NEW i \in Slots, users'[i].isUsing PROVE \E t \in Sessions : Holds(t, i)'
    BY DEF SlotInv
  <2>1. users' = users /\ dict' = dict
    BY <1>3
  <2>2. PICK t \in Sessions : Holds(t, i)
    BY <2>1 DEF SlotsInv, SlotInv
  <2> QED BY <1>6, <1>7, <2>1, <2>2 DEF Holds
<1> QED BY <1>5, <1>8, <1>9 DEF SlotsInv
-----------------------------------------------------------------------------
LEMMA FirstEmptySlot ==
    ASSUME EmptySlots # {}
    PROVE  Nth(EmptySlots, 1) \in EmptySlots
<1>1. IsFiniteSet(Slots) /\ Slots \in SUBSET Int
  <2>1. 0 \in Int /\ MaxUserCount - 1 \in Int
    BY UserManagerAssumption
  <2> QED BY <2>1, FS_Interval DEF Slots
<1>2. EmptySlots \in SUBSET Slots /\ EmptySlots \in SUBSET Int
  BY <1>1 DEF EmptySlots
<1>3. IsFiniteSet(EmptySlots) /\ Cardinality(EmptySlots) \in Nat /\ Cardinality(EmptySlots) # 0
  BY <1>1, <1>2, FS_Subset, FS_CardinalityType, FS_EmptySet
<1>4. 1 \in 1 .. Cardinality(EmptySlots)
  BY <1>3
<1> QED BY <1>2, <1>3, <1>4, NthElement

(* The announcement is taken: its session is announced no longer, and      *)
(* nothing else changes in the buffer.                                     *)
Announced(s) ==
    /\ SessionInv(s) /\ HasCon(s) /\ ~HasCon(s)'
    /\ link[s] # "new" /\ dict[s] = NoSlot /\ (link[s] = "closed" => HasDis(s))
    /\ \A t \in Sessions : /\ t # s => (HasCon(t)' <=> HasCon(t))
                           /\ HasDis(t)' <=> HasDis(t)
                           /\ \A j, k \in Nat : Con(t, j)' /\ Con(t, k)' => j = k
                           /\ \A j, k \in Nat : Dis(t, j)' /\ Dis(t, k)' => j = k
                           /\ \A j, k \in Nat : Con(t, j)' /\ Dis(t, k)' => j < k

LEMMA AnnouncementTaken ==
    ASSUME SlotsInv, NEW s \in Sessions, Take("NtfInConnectClient", s)
    PROVE  pktBuffer' \in Seq(PacketType) /\ Announced(s)
<1>1. TypeOK /\ Take("NtfInConnectClient", s)
  BY DEF SlotsInv
<1>2. /\ pktBuffer' \in Seq(PacketType) /\ Con(s, 1)
      /\ \A t \in Sessions : \A k \in Nat :
            /\ Con(t, k)' <=> k >= 1 /\ Con(t, k + 1)
            /\ Dis(t, k)' <=> k >= 1 /\ Dis(t, k + 1)
  BY <1>1, TakeHead DEF Con
<1>9. /\ SessionInv(s) /\ HasCon(s)
      /\ \A k \in Nat : Con(s, k) => k = 1
      /\ \A k \in Nat : Dis(s, k) => k > 1
  BY <1>2 DEF SlotsInv, SessionInv, HasCon
<1>10. \A t \in Sessions : /\ t # s => (HasCon(t)' <=> HasCon(t))
                           /\ HasDis(t)' <=> HasDis(t)
  <2>1. \A t \in Sessions : \A k \in Nat : Dis(t, k) => k - 1 \in Nat /\ Dis(t, k - 1)'
    <3>1. \A t \in Sessions : \A k \in Nat : Dis(t, k) => k > 1
      BY <1>1, <1>2, Positions, PacketFacts DEF Dis, Con
    <3>2. \A k \in Nat : k > 1 => k - 1 \in Nat /\ k - 1 >= 1 /\ (k - 1) + 1 = k
      OBVIOUS
    <3> QED BY <1>2, <3>1, <3>2
  <2>2. \A t \in Sessions : t # s => \A k \in Nat : Con(t, k) => k - 1 \in Nat /\ Con(t, k - 1)'
    <3>1. \A t \in Sessions : t # s => \A k \in Nat : Con(t, k) => k > 1
      BY <1>1, <1>2, Positions, PacketFacts DEF Con
    <3>2. \A k \in Nat : k > 1 => k - 1 \in Nat /\ k - 1 >= 1 /\ (k - 1) + 1 = k
      OBVIOUS
    <3> QED BY <1>2, <3>1, <3>2
  <2>3. \A k \in Nat : k + 1 \in Nat
    OBVIOUS
  <2> QED BY <1>2, <2>1, <2>2, <2>3 DEF HasCon, HasDis
<1>11. ~HasCon(s)' /\ \A k \in Nat : ~Con(s, k)'
  <2>1. \A k \in Nat : k >= 1 => k + 1 \in Nat /\ k + 1 # 1
    OBVIOUS
  <2> QED BY <1>2, <1>9, <2>1 DEF HasCon
<1>12. \A t \in Sessions : /\ \A j, k \in Nat : Con(t, j)' /\ Con(t, k)' => j = k
                           /\ \A j, k \in Nat : Dis(t, j)' /\ Dis(t, k)' => j = k
                           /\ \A j, k \in Nat : Con(t, j)' /\ Dis(t, k)' => j < k
  <2> SUFFICES ASSUME NEW t \in Sessions
               PROVE  /\ \A j, k \in Nat : Con(t, j)' /\ Con(t, k)' => j = k
                      /\ \A j, k \in Nat : Dis(t, j)' /\ Dis(t, k)' => j = k
                      /\ \A j, k \in Nat : Con(t, j)' /\ Dis(t, k)' => j < k
    OBVIOUS
  <2>1. SessionInv(t)
    BY DEF SlotsInv
  <2>2. \A j, k \in Nat : j + 1 \in Nat /\ k + 1 \in Nat /\ (j + 1 = k + 1 => j = k) /\ (j + 1 < k + 1 => j < k)
    OBVIOUS
  <2> QED BY <1>2, <2>1, <2>2 DEF SessionInv
<1>13. link[s] # "new" /\ dict[s] = NoSlot /\ (link[s] = "closed" => HasDis(s))
  BY <1>9 DEF SessionInv
<1> QED BY <1>2, <1>9, <1>10, <1>11, <1>12, <1>13 DEF Announced

(* Whoever has run out of slots stays so. *)
LEMMA AnnouncedRanOut ==
    ASSUME NEW s \in Sessions, Announced(s), UNCHANGED link,
           \A t \in Sessions : t # s => dict'[t] = dict[t]
    PROVE  RanOut => RanOut'
<1> SUFFICES ASSUME RanOut PROVE RanOut'
  OBVIOUS
<1>1. PICK t \in Sessions : link[t] # "new" /\ ~HasCon(t) /\ dict[t] = NoSlot
  BY DEF RanOut
<1>2. t # s
  BY <1>1 DEF Announced
<1>3. ~HasCon(t)' /\ dict'[t] = NoSlot /\ link'[t] # "new"
  BY <1>1, <1>2 DEF Announced
<1> QED BY <1>3 DEF RanOut

LEMMA SlotKept ==
    ASSUME SlotsInv, NEW s \in Sessions, Announced(s), pktBuffer' \in Seq(PacketType),
           UNCHANGED <<link, users, dict, redis, mysql, checkStart, logins>>
    PROVE  SlotsInv'
<1>1. TypeOK' /\ WindowInv'
  BY DEF SlotsInv, TypeOK, WindowInv
<1>2. RanOut'
  BY DEF Announced, RanOut
<1>3. \A t \in Sessions : SessionInv(t)'
  <2> SUFFICES ASSUME NEW t \in Sessions PROVE SessionInv(t)'
    OBVIOUS
  <2>1. SessionInv(t) /\ link' = link /\ dict' = dict
    BY DEF SlotsInv
  <2>2. CASE t = s
    <3>1. Kept(s)'
      BY <1>2, <2>1 DEF Announced, Kept
    <3> QED BY <2>1, <2>2, <3>1 DEF SessionInv, Announced
  <2>3. CASE t # s
    <3>1. Kept(t) => Kept(t)'
      BY <1>2 DEF Kept, OwnSlot
    <3>2. Announced(s)
      OBVIOUS
    <3> QED BY <2>1, <2>3, <3>1 DEF SessionInv, Announced
  <2> QED BY <2>2, <2>3
<1>4. \A j \in Slots : SlotInv(j)'
  <2> SUFFICES ASSUME NEW j \in Slots, users'[j].isUsing PROVE \E t \in Sessions : Holds(t, j)'
    BY DEF SlotInv
  <2>1. PICK t \in Sessions : Holds(t, j)
    BY DEF SlotsInv, SlotInv
  <2>2. t # s
    BY <2>1 DEF Holds, Announced
  <2> QED BY <2>1, <2>2 DEF Holds, Announced
<1> QED BY <1>1, <1>3, <1>4 DEF SlotsInv

LEMMA UsedSlot ==
    ASSUME NEW u \in UserType, NEW s \in Sessions
    PROVE  LET v == [u EXCEPT !.isUsing = TRUE, !.isLogin = FALSE,
                              !.session = s, !.heartBeatCnt = 0]
           IN  v.isUsing /\ v.session = s /\ v \in UserType
<1>1. 0 \in 0 .. MaxHeartBeat
  BY DEF MaxHeartBeat
<1> QED BY <1>1 DEF UserType

LEMMA SlotTaken ==
    ASSUME SlotsInv, NEW s \in Sessions, Announced(s), pktBuffer' \in Seq(PacketType),
           UNCHANGED <<link, redis, mysql, checkStart, logins>>,
           NEW i \in Slots, ~users[i].isUsing, NEW v \in UserType, v.isUsing, v.session = s,
           users' = [users EXCEPT ![i] = v], dict' = [dict EXCEPT ![s] = i]
    PROVE  SlotsInv'
<1>1. TypeOK
  BY DEF SlotsInv
<1>2. \A j \in Slots : users'[j] = IF j = i THEN v ELSE users[j]
  BY <1>1 DEF TypeOK
<1>3. users'[i].isUsing /\ users'[i].session = s
  BY <1>2
<1>4. users' \in [Slots -> UserType]
  BY <1>1, <1>2, <1>3 DEF TypeOK
<1>5. TypeOK' /\ WindowInv'
  BY <1>1, <1>4 DEF TypeOK, WindowInv, SlotsInv
<1>6. \A t \in Sessions : dict'[t] = IF t = s THEN i ELSE dict[t]
  BY <1>1 DEF TypeOK
<1>7. RanOut => RanOut'
  BY <1>6, AnnouncedRanOut
<1>8. \A t \in Sessions : SessionInv(t)'
  <2> SUFFICES ASSUME NEW t \in Sessions PROVE SessionInv(t)'
    OBVIOUS
  <2>1. SessionInv(t) /\ link' = link
    BY DEF SlotsInv
  <2>2. CASE t = s
    <3>1. Kept(s)'
      BY <1>3, <1>6 DEF OwnSlot, Kept
    <3> QED BY <2>1, <2>2, <3>1 DEF SessionInv, Announced
  <2>3. CASE t # s
    <3>1. dict'[t] = dict[t] /\ (OwnSlot(t) => OwnSlot(t)')
      BY <1>2, <1>6, <2>3 DEF OwnSlot
    <3>2. Kept(t) => Kept(t)'
      BY <1>7, <3>1 DEF Kept
    <3> QED BY <2>1, <2>3, <3>1, <3>2 DEF SessionInv, Announced
  <2> QED BY <2>2, <2>3
<1>9. \A j \in Slots : SlotInv(j)'
  <2> SUFFICES ASSUME NEW j \in Slots, users'[j].isUsing PROVE \E t \in Sessions : Holds(t, j)'
    BY DEF SlotInv
  <2>1. CASE j = i
    BY <1>3, <1>6, <2>1 DEF Holds, Announced
  <2>2. CASE j # i
    <3>1. PICK t \in Sessions : Holds(t, j)
      BY <1>2, <2>2 DEF SlotsInv, SlotInv
    <3>2. t # s
      BY <3>1 DEF Holds, Announced
    <3> QED BY <1>2, <1>6, <2>2, <3>1, <3>2 DEF Holds, Announced
  <2> QED BY <2>1, <2>2
<1> QED BY <1>5, <1>8, <1>9 DEF SlotsInv

(* The announcement is handled: the session gets the first empty slot, or  *)
(* it is one that found none.                                              *)
LEMMA AnnouncedInv ==
    ASSUME SlotsInv, NEW s \in Sessions, InNotifyConnectClient(s)
    PROVE  SlotsInv'
<1>1. UNCHANGED <<link, redis, mysql, checkStart, logins>>
  BY DEF InNotifyConnectClient, db
<1>2. pktBuffer' \in Seq(PacketType) /\ Announced(s)
  BY AnnouncementTaken DEF InNotifyConnectClient
<1>3. CASE EmptySlots = {}
  <2>1. users' = users /\ dict' = dict
    BY <1>3 DEF InNotifyConnectClient
  <2> QED BY <1>1, <1>2, <2>1, SlotKept
<1>4. CASE EmptySlots # {}
  <2>1. PICK i \in Slots : ~users[i].isUsing
            /\ users' = [users EXCEPT ![i].isUsing = TRUE, ![i].isLogin = FALSE,
                                      ![i].session = s, ![i].heartBeatCnt = 0]
            /\ dict' = [dict EXCEPT ![s] = i]
    BY <1>4, FirstEmptySlot DEF InNotifyConnectClient, EmptySlots
  <2>2. users[i] \in UserType /\ users \in [Slots -> UserType]
    BY DEF SlotsInv, TypeOK
  <2>3. PICK v : v = [users[i] EXCEPT !.isUsing = TRUE, !.isLogin = FALSE,
                                      !.session = s, !.heartBeatCnt = 0]
    OBVIOUS
  <2>4. v \in UserType /\ v.isUsing /\ v.session = s
    BY <2>2, <2>3, UsedSlot
  <2>5. users' = [users EXCEPT ![i] = v]
    BY <2>1, <2>2, <2>3
  <2> QED BY <1>1, <1>2, <2>1, <2>4, <2>5, SlotTaken
<1> QED BY <1>3, <1>4
-----------------------------------------------------------------------------
(* The end of a session is handled: its slot is freed, or leaving its room *)
(* throws and the slot stays in use.                                       *)
LEMMA UserIndexInSlots ==
    ASSUME TypeOK, NEW s \in Sessions
    PROVE  UserIndex(s) \in Slots /\ users[UserIndex(s)] \in UserType
<1>1. 0 \in Slots
  BY UserManagerAssumption DEF Slots
<1> QED BY <1>1 DEF TypeOK, UserIndex

LEMMA EndedInv ==
    ASSUME SlotsInv, NEW s \in Sessions, InNotifyDisConnectClient(s)
    PROVE  SlotsInv'
<1>1. TypeOK /\ Take("NtfInDisConnectClient", s)
      /\ UNCHANGED <<link, dict, redis, mysql, checkStart, logins>>
  BY DEF SlotsInv, InNotifyDisConnectClient, db
<1>2. /\ pktBuffer' \in Seq(PacketType) /\ Dis(s, 1)
      /\ \A t \in Sessions : \A k \in Nat :
            /\ Con(t, k)' <=> k >= 1 /\ Con(t, k + 1)
            /\ Dis(t, k)' <=> k >= 1 /\ Dis(t, k + 1)
  BY <1>1, TakeHead DEF Dis
<1>3. /\ SessionInv(s) /\ HasDis(s) /\ link[s] = "closed"
      /\ \A k \in Nat : Dis(s, k) => k = 1
      /\ \A k \in Nat : ~Con(s, k)
  <2>1. SessionInv(s)
    BY DEF SlotsInv
  <2>2. \A k \in Nat : Con(s, k) => k >= 1
    BY Positions DEF SlotsInv, Con
  <2> QED BY <1>2, <2>1, <2>2 DEF SessionInv, HasDis
<1>4. Kept(s) /\ ~HasCon(s)
  BY <1>3 DEF SessionInv, HasCon
<1>5. PICK i \in Slots : i = UserIndex(s)
  BY <1>1, UserIndexInSlots
<1>6. \/ users' = [users EXCEPT ![i].isUsing = FALSE, ![i].heartBeatCnt = 0]
      \/ users' = users /\ (users[i].isUsing => s \in RoomThrows)
  BY <1>5 DEF InNotifyDisConnectClient, HasUser
<1>7. /\ users' \in [Slots -> UserType]
      /\ \A j \in Slots : j # i => users'[j] = users[j]
      /\ users'[i].isUsing => s \in RoomThrows /\ users'[i] = users[i]
  <2>1. CASE users' = [users EXCEPT ![i].isUsing = FALSE, ![i].heartBeatCnt = 0]
    <3>1. users \in [Slots -> UserType] /\ users[i] \in UserType
      BY <1>1 DEF TypeOK
    <3>2. /\ \A j \in Slots : j # i => users'[j] = users[j]
          /\ users'[i] = [users[i] EXCEPT !.isUsing = FALSE, !.heartBeatCnt = 0]
          /\ DOMAIN users' = Slots /\ users' = [j \in Slots |-> users'[j]]
      BY <2>1, <3>1
    <3>3. users'[i] = [isUsing |-> FALSE, isLogin |-> users[i].isLogin, session |-> users[i].session,
                       userID |-> users[i].userID, heartBeatCnt |-> 0]
      BY <3>1, <3>2 DEF UserType
    <3>4. /\ users[i].isLogin \in BOOLEAN /\ users[i].session \in Sessions \cup {NoSession}
          /\ users[i].userID \in Sessions \cup {NoSession}
          /\ 0 \in 0 .. MaxHeartBeat
      BY <3>1 DEF UserType, MaxHeartBeat
    <3>5. users'[i] \in UserType /\ ~users'[i].isUsing
      BY <3>3, <3>4 DEF UserType
    <3>6. \A j \in Slots : users'[j] \in UserType
      BY <3>1, <3>2, <3>5
    <3> QED BY <3>2, <3>5, <3>6
  <2>2. CASE users' = users /\ (users[i].isUsing => s \in RoomThrows)
    BY <1>1, <2>2 DEF TypeOK
  <2> QED BY <1>6, <2>1, <2>2
<1>8. TypeOK' /\ WindowInv'
  BY <1>1, <1>2, <1>7 DEF TypeOK, WindowInv, SlotsInv
<1>9. \A t \in Sessions : t # s =>
          \A k \in Nat : /\ Con(t, k) => k - 1 \in Nat /\ Con(t, k - 1)' /\ k > 1
                         /\ Dis(t, k) => k - 1 \in Nat /\ Dis(t, k - 1)' /\ k > 1
  <2>1. \A t \in Sessions : t # s => \A k \in Nat : (Con(t, k) => k > 1) /\ (Dis(t, k) => k > 1)
    BY <1>1, <1>2, Positions, PacketFacts DEF Con, Dis
  <2>2. \A k \in Nat : k > 1 => k - 1 \in Nat /\ k - 1 >= 1 /\ (k - 1) + 1 = k
    OBVIOUS
  <2> QED BY <1>2, <2>1, <2>2
<1>10. \A t \in Sessions : t # s => /\ HasCon(t)' <=> HasCon(t)
                                    /\ HasDis(t)' <=> HasDis(t)
  <2>1. \A k \in Nat : k + 1 \in Nat
    OBVIOUS
  <2> QED BY <1>2, <1>9, <2>1 DEF HasCon, HasDis
<1>11. \A k \in Nat : ~Con(s, k)' /\ ~Dis(s, k)'
  <2>1. \A k \in Nat : k >= 1 => k + 1 \in Nat /\ k + 1 # 1
    OBVIOUS
  <2> QED BY <1>2, <1>3, <2>1
<1>12. \A t \in Sessions : t # s /\ Kept(t) => Kept(t)'
  <2> SUFFICES ASSUME NEW t \in Sessions, t # s, Kept(t) PROVE Kept(t)'
    OBVIOUS
  <2>1. RanOut => RanOut'
    <3> SUFFICES ASSUME RanOut PROVE RanOut'
      OBVIOUS
    <3>1. PICK u \in Sessions : link[u] # "new" /\ ~HasCon(u) /\ dict[u] = NoSlot
      BY DEF RanOut
    <3>2. ~HasCon(u)'
      BY <1>10, <1>11, <3>1 DEF HasCon
    <3> QED BY <1>1, <3>1, <3>2 DEF RanOut
  <2>2. CASE OwnSlot(t) /\ dict[t] = i
    <3>1. CASE dict[s] = NoSlot
      <4>1. RanOut /\ i = 0
        BY <1>3, <1>4, <1>5, <3>1 DEF RanOut, UserIndex
      <4> QED BY <1>1, <2>1, <2>2, <4>1 DEF Kept
    <3>2. CASE dict[s] # NoSlot
      <4>1. dict[s] = i /\ ~OwnSlot(s)
        BY <1>5, <2>2, <3>2 DEF OwnSlot, UserIndex
      <4>2. RanOut /\ i = 0
        BY <1>4, <3>2, <4>1 DEF Kept
      <4> QED BY <1>1, <2>1, <2>2, <4>2 DEF Kept
    <3> QED BY <3>1, <3>2
  <2>3. CASE OwnSlot(t) /\ dict[t] # i
    BY <1>1, <1>7, <2>3 DEF Kept, OwnSlot
  <2>4. CASE ~OwnSlot(t)
    BY <1>1, <2>1, <2>4 DEF Kept
  <2> QED BY <2>2, <2>3, <2>4
<1>13. \A t \in Sessions : SessionInv(t)'
  <2> SUFFICES ASSUME NEW t \in Sessions PROVE SessionInv(t)'
    OBVIOUS
  <2>1. SessionInv(t) /\ link'[t] = link[t]
    BY <1>1 DEF SlotsInv
  <2>2. CASE t = s
    BY <1>3, <1>11, <2>1, <2>2 DEF SessionInv, HasCon, HasDis
  <2>3. CASE t # s
    <3>1. \A j, k \in Nat : j + 1 \in Nat /\ k + 1 \in Nat /\ (j + 1 = k + 1 => j = k)
                            /\ (j + 1 < k + 1 => j < k)
      OBVIOUS
    <3>2. /\ \A j, k \in Nat : Con(t, j)' /\ Con(t, k)' => j = k
          /\ \A j, k \in Nat : Dis(t, j)' /\ Dis(t, k)' => j = k
          /\ \A j, k \in Nat : Con(t, j)' /\ Dis(t, k)' => j < k
      BY <1>2, <2>1, <3>1 DEF SessionInv
    <3>3. Kept(t) => Kept(t)'
      BY <1>1, <2>3, <1>12
    <3> QED BY <1>1, <1>10, <2>1, <2>3, <3>2, <3>3 DEF SessionInv
  <2> QED BY <2>2, <2>3
<1>14. \A j \in Slots : SlotInv(j)'
  <2> SUFFICES ASSUME NEW j \in Slots, users'[j].isUsing PROVE \E t \in Sessions : Holds(t, j)'
    BY DEF SlotInv
  <2>1. CASE j = i
    <3>1. s \in RoomThrows /\ users'[i] = users[i]
      BY <1>7, <2>1
    <3>2. PICK t \in Sessions : Holds(t, i)
      BY <2>1, <3>1 DEF SlotsInv, SlotInv
    <3>3. CASE t = s
      BY <1>1, <1>11, <2>1, <3>1, <3>2, <3>3 DEF Holds, HasCon
    <3>4. CASE t # s
      BY <1>1, <1>10, <2>1, <3>1, <3>2, <3>4 DEF Holds
    <3> QED BY <3>3, <3>4
  <2>2. CASE j # i
    <3>1. PICK t \in Sessions : Holds(t, j)
      BY <1>7, <2>2 DEF SlotsInv, SlotInv
    <3>2. t # s
      <4>1. NoSlot \notin Slots
        BY UserManagerAssumption DEF NoSlot, Slots
      <4> QED BY <1>5, <2>2, <3>1, <4>1 DEF Holds, UserIndex
    <3> QED BY <1>1, <1>7, <1>10, <2>2, <3>1, <3>2 DEF Holds
  <2> QED BY <2>1, <2>2
<1> QED BY <1>8, <1>13, <1>14 DEF SlotsInv
-----------------------------------------------------------------------------
(* All other packets. *)
Quiet(id) == id \notin {"NtfInConnectClient", "NtfInDisConnectClient"}

LEMMA QuietPost ==
    ASSUME SlotsInv, WindowInv', SameSlots, SameLinks, NEW p \in PacketType, Quiet(p.id),
           pktBuffer' = Append(pktBuffer, p) \/ pktBuffer' = pktBuffer,
           pktBuffer' \in Seq(PacketType) => TypeOK'
    PROVE  SlotsInv'
<1>1. TypeOK
  BY DEF SlotsInv
<1>2. \A s \in Sessions : p # Packet("NtfInConnectClient", s) /\ p # Packet("NtfInDisConnectClient", s)
  BY DEF Quiet, Packet
<1>3. \A s \in Sessions : \A k \in Nat : (Con(s, k)' <=> Con(s, k)) /\ (Dis(s, k)' <=> Dis(s, k))
  <2>1. CASE pktBuffer' = Append(pktBuffer, p)
    BY <1>1, <1>2, <2>1, PostPacket
  <2>2. CASE pktBuffer' = pktBuffer
    BY <2>2 DEF Con, Dis
  <2> QED BY <2>1, <2>2
<1>4. TypeOK'
  <2>1. CASE pktBuffer' = Append(pktBuffer, p)
    BY <1>1, <2>1, PostPacket
  <2>2. CASE pktBuffer' = pktBuffer
    BY <1>1, <2>2 DEF TypeOK
  <2> QED BY <2>1, <2>2
<1>5. \A s \in Sessions : \A k \in Nat : (Con(s, k) => k >= 1) /\ (Dis(s, k) => k >= 1)
  BY <1>1, Positions DEF Con, Dis
<1>6. \A s \in Sessions : \A k \in Nat :
          /\ Con(s, k)' <=> k >= 1 /\ Con(s, k + 0)
          /\ Dis(s, k)' <=> k >= 1 /\ Dis(s, k + 0)
  <2>1. \A k \in Nat : k + 0 = k
    OBVIOUS
  <2> QED BY <1>3, <1>5, <2>1
<1> QED BY <1>4, <1>6, QuietStep

LEMMA QuietTake ==
    ASSUME SlotsInv, WindowInv', SameSlots, SameLinks, NEW id, NEW t, Quiet(id), Take(id, t),
           pktBuffer' \in Seq(PacketType) => TypeOK'
    PROVE  SlotsInv'
<1>1. TypeOK
  BY DEF SlotsInv
<1>2. /\ pktBuffer' \in Seq(PacketType)
      /\ 1 \in DOMAIN pktBuffer /\ pktBuffer[1] = Packet(id, t)
      /\ \A s \in Sessions : \A k \in Nat :
            /\ Con(s, k)' <=> k >= 1 /\ Con(s, k + 1)
            /\ Dis(s, k)' <=> k >= 1 /\ Dis(s, k + 1)
  BY <1>1, TakeHead
<1>3. \A s \in Sessions : ~Con(s, 1) /\ ~Dis(s, 1)
  BY <1>2, PacketFacts DEF Con, Dis, Quiet
<1> QED BY <1>2, <1>3, QuietStep

LEMMA NetworkInv ==
    ASSUME SlotsInv, NEW s \in Sessions, Network(s) \/ Database(s) \/ SendHeartBeatPkt
    PROVE  SlotsInv'
<1>1. TypeOK
  BY DEF SlotsInv
<1>2. CASE OnConnected(s)
  BY <1>2, ConnectedInv
<1>3. CASE OnClosed(s)
  BY <1>3, ClosedInv
<1>4. CASE OnLoginReceived(s)
  <2> DEFINE p == Packet("ReqLogin", s)
  <2>1. p \in PacketType /\ Quiet(p.id)
    BY PacketFacts DEF Quiet, Packet
  <2>2. pktBuffer' = Append(pktBuffer, p) /\ UNCHANGED <<link, users, dict, redis, mysql, checkStart>>
    BY <1>4 DEF OnLoginReceived, Post, Enqueue, db
  <2>3. logins' \in [Sessions -> 0 .. MaxLogins]
    BY <1>1, <1>4, UserManagerAssumption DEF OnLoginReceived, TypeOK
  <2>4. WindowInv' /\ SameSlots /\ SameLinks
    BY <2>2 DEF SlotsInv, WindowInv, SameSlots, SameLinks
  <2>5. pktBuffer' \in Seq(PacketType) => TypeOK'
    BY <1>1, <2>2, <2>3 DEF TypeOK
  <2> HIDE DEF p
  <2> QED BY <2>1, <2>2, <2>4, <2>5, QuietPost
<1>5. ASSUME NEW id \in {"ResHeartBeat", "ReqDisConnect"}, OnPacketReceived(id, s)
      PROVE  SlotsInv'
  <2> DEFINE p == Packet(id, s)
  <2>1. p \in PacketType /\ Quiet(p.id)
    BY PacketFacts DEF Quiet, Packet
  <2>2. pktBuffer' = Append(pktBuffer, p)
        /\ UNCHANGED <<link, users, dict, redis, mysql, checkStart, logins>>
    BY <1>5 DEF OnPacketReceived, Post, Enqueue, db
  <2>3. WindowInv' /\ SameSlots /\ SameLinks
    BY <2>2 DEF SlotsInv, WindowInv, SameSlots, SameLinks
  <2>4. pktBuffer' \in Seq(PacketType) => TypeOK'
    BY <1>1, <2>2 DEF TypeOK
  <2> HIDE DEF p
  <2> QED BY <2>1, <2>2, <2>3, <2>4, QuietPost
<1>6. CASE SendHeartBeatPkt
  <2>1. HeartBeatTick \in PacketType /\ Quiet(HeartBeatTick.id)
    BY PacketFacts DEF Quiet, HeartBeatTick, Packet
  <2>2. pktBuffer' = Append(pktBuffer, HeartBeatTick)
        /\ UNCHANGED <<link, users, dict, redis, mysql, checkStart, logins>>
    BY <1>6 DEF SendHeartBeatPkt, Enqueue, db
  <2>3. WindowInv' /\ SameSlots /\ SameLinks
    BY <2>2 DEF SlotsInv, WindowInv, SameSlots, SameLinks
  <2>4. pktBuffer' \in Seq(PacketType) => TypeOK'
    BY <1>1, <2>2 DEF TypeOK
  <2> QED BY <2>1, <2>2, <2>3, <2>4, QuietPost
<1>7. ASSUME NEW b \in BOOLEAN, RedisAnswers(s, b)
      PROVE  SlotsInv'
  <2> DEFINE p == Packet("ResDbLogin", s)
  <2>1. p \in PacketType /\ Quiet(p.id)
    BY PacketFacts DEF Quiet, Packet
  <2>2. (pktBuffer' = Append(pktBuffer, p) \/ pktBuffer' = pktBuffer)
        /\ UNCHANGED <<link, users, dict, mysql, checkStart, logins>>
    BY <1>7 DEF RedisAnswers, Post, Enqueue
  <2>3. redis' \in [Sessions -> Nat]
    BY <1>1, <1>7 DEF RedisAnswers, TypeOK
  <2>4. WindowInv' /\ SameSlots /\ SameLinks
    BY <2>2 DEF SlotsInv, WindowInv, SameSlots, SameLinks
  <2>5. pktBuffer' \in Seq(PacketType) => TypeOK'
    BY <1>1, <2>2, <2>3 DEF TypeOK
  <2> HIDE DEF p
  <2> QED BY <2>1, <2>2, <2>4, <2>5, QuietPost
<1>8. ASSUME NEW b \in BOOLEAN, MySqlAnswers(s, b)
      PROVE  SlotsInv'
  <2> DEFINE p == Packet("ResDbLoadUserGameData", s)
  <2>1. p \in PacketType /\ Quiet(p.id)
    BY PacketFacts DEF Quiet, Packet
  <2>2. (pktBuffer' = Append(pktBuffer, p) \/ pktBuffer' = pktBuffer)
        /\ UNCHANGED <<link, users, dict, redis, checkStart, logins>>
    BY <1>8 DEF MySqlAnswers, Post, Enqueue
  <2>3. mysql' \in [Sessions -> Nat]
    BY <1>1, <1>8 DEF MySqlAnswers, TypeOK
  <2>4. WindowInv' /\ SameSlots /\ SameLinks
    BY <2>2 DEF SlotsInv, WindowInv, SameSlots, SameLinks
  <2>5. pktBuffer' \in Seq(PacketType) => TypeOK'
    BY <1>1, <2>2, <2>3 DEF TypeOK
  <2> HIDE DEF p
  <2> QED BY <2>1, <2>2, <2>4, <2>5, QuietPost
<1> QED BY <1>2, <1>3, <1>4, <1>5, <1>6, <1>7, <1>8 DEF Network, Database

LEMMA LoginsInv ==
    ASSUME SlotsInv, NEW s \in Sessions,
           \/ RequestLogin(s) \/ InResponseDbLogin(s) \/ InResponseDbLoadUserGameData(s)
           \/ ResponseHeartBeat(s) \/ CloseSession(s)
    PROVE  SlotsInv'
<1> DEFINE x == UserIndex(s)
<1>1. TypeOK /\ x \in Slots /\ users[x] \in UserType /\ users \in [Slots -> UserType]
  BY UserIndexInSlots DEF SlotsInv, TypeOK
<1> HIDE DEF x
<1>2. CASE RequestLogin(s)
  <2>1. Take("ReqLogin", s) /\ UNCHANGED <<link, users, dict, mysql, checkStart, logins>>
    BY <1>2 DEF RequestLogin
  <2>2. redis' \in [Sessions -> Nat]
    BY <1>1, <1>2 DEF RequestLogin, TypeOK
  <2>3. WindowInv' /\ SameSlots /\ SameLinks /\ Quiet("ReqLogin")
    BY <2>1 DEF SlotsInv, WindowInv, SameSlots, SameLinks, Quiet
  <2>4. pktBuffer' \in Seq(PacketType) => TypeOK'
    BY <1>1, <2>1, <2>2 DEF TypeOK
  <2> QED BY <2>1, <2>3, <2>4, QuietTake
<1>3. CASE InResponseDbLogin(s)
  <2>1. Take("ResDbLogin", s) /\ UNCHANGED <<link, dict, redis, checkStart, logins>>
    BY <1>3 DEF InResponseDbLogin
  <2>2. mysql' \in [Sessions -> Nat]
    BY <1>1, <1>3 DEF InResponseDbLogin, TypeOK
  <2>3. users' \in [Slots -> UserType]
        /\ \A i \in Slots : users'[i].isUsing = users[i].isUsing /\ users'[i].session = users[i].session
    <3>1. CASE users' = [users EXCEPT ![x].isLogin = TRUE, ![x].userID = s]
      <4>1. /\ \A j \in Slots : j # x => users'[j] = users[j]
            /\ users'[x] = [users[x] EXCEPT !.isLogin = TRUE, !.userID = s]
            /\ users' = [j \in Slots |-> users'[j]]
        BY <1>1, <3>1
      <4>2. users'[x] = [isUsing |-> users[x].isUsing, isLogin |-> TRUE, session |-> users[x].session,
                         userID |-> s, heartBeatCnt |-> users[x].heartBeatCnt]
        BY <1>1, <4>1 DEF UserType
      <4>3. users'[x] \in UserType
        BY <1>1, <4>2 DEF UserType
      <4>4. \A j \in Slots : users'[j] \in UserType
        BY <1>1, <4>1, <4>3
      <4> QED BY <4>1, <4>2, <4>4
    <3>2. CASE users' = users
      BY <1>1, <3>2
    <3> QED BY <1>3, <3>1, <3>2 DEF InResponseDbLogin, x
  <2>4. WindowInv' /\ SameSlots /\ SameLinks /\ Quiet("ResDbLogin")
    BY <2>1, <2>3 DEF SlotsInv, WindowInv, SameSlots, SameLinks, Quiet
  <2>5. pktBuffer' \in Seq(PacketType) => TypeOK'
    BY <1>1, <2>1, <2>2, <2>3 DEF TypeOK
  <2> QED BY <2>1, <2>4, <2>5, QuietTake
<1>4. CASE InResponseDbLoadUserGameData(s)
  <2>1. Take("ResDbLoadUserGameData", s)
        /\ UNCHANGED <<link, users, dict, redis, mysql, checkStart, logins>>
    BY <1>4 DEF InResponseDbLoadUserGameData, db
  <2>2. WindowInv' /\ SameSlots /\ SameLinks /\ Quiet("ResDbLoadUserGameData")
    BY <2>1 DEF SlotsInv, WindowInv, SameSlots, SameLinks, Quiet
  <2>3. pktBuffer' \in Seq(PacketType) => TypeOK'
    BY <1>1, <2>1 DEF TypeOK
  <2> QED BY <2>1, <2>2, <2>3, QuietTake
<1>5. CASE ResponseHeartBeat(s)
  <2>1. Take("ResHeartBeat", s) /\ UNCHANGED <<link, dict, redis, mysql, checkStart, logins>>
    BY <1>5 DEF ResponseHeartBeat, db
  <2>2. users' \in [Slots -> UserType]
        /\ \A i \in Slots : users'[i].isUsing = users[i].isUsing /\ users'[i].session = users[i].session
    <3>1. CASE users' = [users EXCEPT ![x].heartBeatCnt = 0]
      <4>1. 0 \in 0 .. MaxHeartBeat
        BY DEF MaxHeartBeat
      <4> QED BY <1>1, <3>1, <4>1 DEF UserType
    <3>2. CASE users' = users
      BY <1>1, <3>2
    <3> QED BY <1>5, <3>1, <3>2 DEF ResponseHeartBeat, x
  <2>3. WindowInv' /\ SameSlots /\ SameLinks /\ Quiet("ResHeartBeat")
    BY <2>1, <2>2 DEF SlotsInv, WindowInv, SameSlots, SameLinks, Quiet
  <2>4. pktBuffer' \in Seq(PacketType) => TypeOK'
    BY <1>1, <2>1, <2>2 DEF TypeOK
  <2> QED BY <2>1, <2>3, <2>4, QuietTake
<1>6. CASE CloseSession(s)
  <2>1. UNCHANGED <<users, dict, redis, mysql, checkStart, logins>>
        /\ link' = IF link[s] = "up" THEN [link EXCEPT ![s] = "closing"] ELSE link
    BY <1>6 DEF CloseSession, db
  <2>2. link' \in [Sessions -> {"new", "up", "closing", "closed"}] /\ SameLinks
    BY <1>1, <2>1 DEF TypeOK, SameLinks
  <2>3. WindowInv' /\ SameSlots /\ Quiet("ReqDisConnect") /\ Quiet("ReqInDisConnectUser")
    BY <2>1 DEF SlotsInv, WindowInv, SameSlots, Quiet
  <2>4. pktBuffer' \in Seq(PacketType) => TypeOK'
    BY <1>1, <2>1, <2>2 DEF TypeOK
  <2>5. Take("ReqDisConnect", s) \/ Take("ReqInDisConnectUser", s)
    BY <1>6 DEF CloseSession
  <2> QED BY <2>2, <2>3, <2>4, <2>5, QuietTake
<1> QED BY <1>2, <1>3, <1>4, <1>5, <1>6
-----------------------------------------------------------------------------
(* The heartbeat.  Both ends of its window are multiples of CheckUserCount *)
(* and so is the number of slots, so it never leaves them.                 *)
LEMMA WindowFacts ==
    ASSUME TypeOK, WindowInv
    PROVE  /\ Window \subseteq Slots
           /\ (checkStart + CheckUserCount) % MaxUserCount \in Slots
           /\ \E k \in 0 .. MaxUserCount :
                 (checkStart + CheckUserCount) % MaxUserCount = k * CheckUserCount
<1>1. /\ MaxUserCount \in Nat \ {0} /\ CheckUserCount \in Nat \ {0}
      /\ checkStart \in 0 .. MaxUserCount - 1
  BY UserManagerAssumption DEF TypeOK, Slots
<1>2. PICK n \in 1 .. MaxUserCount : MaxUserCount = n * CheckUserCount
  BY UserManagerAssumption
<1>3. PICK k \in 0 .. MaxUserCount : checkStart = k * CheckUserCount
  BY DEF WindowInv
<1>4. k < n
  <2>1. SUFFICES ASSUME k >= n PROVE FALSE
    BY <1>1, <1>2, <1>3
  <2>2. k * CheckUserCount >= n * CheckUserCount
    BY <1>1, <1>2, <1>3, <2>1
  <2> QED BY <1>1, <1>2, <1>3, <2>2
<1>5. (k + 1) * CheckUserCount = checkStart + CheckUserCount
  BY <1>1, <1>3
<1>6. (k + 1) * CheckUserCount <= n * CheckUserCount
  BY <1>1, <1>2, <1>3, <1>4
<1>7. checkStart + CheckUserCount <= MaxUserCount
  BY <1>2, <1>5, <1>6
<1>8. Window \subseteq Slots
  BY <1>1, <1>7 DEF Window, Slots
<1>9. CASE checkStart + CheckUserCount = MaxUserCount
  <2>1. (checkStart + CheckUserCount) % MaxUserCount = 0
    BY <1>1, <1>9
  <2>2. 0 = 0 * CheckUserCount /\ 0 \in 0 .. MaxUserCount
    BY <1>1
  <2> QED BY <1>1, <1>8, <2>1, <2>2 DEF Slots
<1>10. CASE checkStart + CheckUserCount < MaxUserCount
  <2>1. (checkStart + CheckUserCount) % MaxUserCount = checkStart + CheckUserCount
    BY <1>1, <1>10
  <2>2. k + 1 \in 0 .. MaxUserCount
    BY <1>1, <1>2, <1>3, <1>4
  <2>3. checkStart + CheckUserCount \in Slots
    BY <1>1, <1>10 DEF Slots
  <2>4. (checkStart + CheckUserCount) % MaxUserCount = (k + 1) * CheckUserCount
    BY <1>5, <2>1
  <2> QED BY <1>8, <2>1, <2>2, <2>3, <2>4
<1>11. \/ checkStart + CheckUserCount = MaxUserCount
       \/ checkStart + CheckUserCount < MaxUserCount
  BY <1>1, <1>7
<1> QED BY <1>9, <1>10, <1>11

(* What the heartbeat posts for the silent users of the window. *)
LEMMA SilentPackets ==
    ASSUME TypeOK, WindowInv, \A i \in Slots : users[i].isUsing => users[i].session \in Sessions
    PROVE  /\ DisConnectSilent(Window) \in Seq(PacketType)
           /\ \A k \in DOMAIN DisConnectSilent(Window) :
                 DisConnectSilent(Window)[k].id = "ReqInDisConnectUser"
<1> DEFINE S == Silent(Window)
<1>1. TypeOK /\ Window \subseteq Slots
  BY WindowFacts
<1>2. S \in SUBSET Slots /\ \A i \in S : users[i].isUsing
  BY <1>1 DEF Silent
<1>3. IsFiniteSet(Slots) /\ Slots \in SUBSET Int
  <2>1. 0 \in Int /\ MaxUserCount - 1 \in Int
    BY UserManagerAssumption
  <2> QED BY <2>1, FS_Interval DEF Slots
<1>4. IsFiniteSet(S) /\ S \in SUBSET Int
  BY <1>2, <1>3, FS_Subset
<1> HIDE DEF S
<1>5. Cardinality(S) \in Nat
  BY <1>4, FS_CardinalityType
<1>6. \A k \in 1 .. Cardinality(S) : users[Nth(S, k)].session \in Sessions
  <2> SUFFICES ASSUME NEW k \in 1 .. Cardinality(S) PROVE users[Nth(S, k)].session \in Sessions
    OBVIOUS
  <2>1. Nth(S, k) \in S
    BY <1>4, NthElement
  <2>2. Nth(S, k) \in Slots /\ users[Nth(S, k)].isUsing
    BY <1>2, <2>1
  <2> QED BY <2>2
<1>7. \A k \in 1 .. Cardinality(S) :
          Packet("ReqInDisConnectUser", users[Nth(S, k)].session) \in PacketType
  BY <1>6, PacketFacts
<1>8. DisConnectSilent(Window) =
          [k \in 1 .. Cardinality(S) |-> Packet("ReqInDisConnectUser", users[Nth(S, k)].session)]
  BY DEF DisConnectSilent, S
<1>9. DisConnectSilent(Window) \in Seq(PacketType)
  BY <1>5, <1>7, <1>8
<1> QED BY <1>8, <1>9 DEF Packet

LEMMA BeatTypes ==
    ASSUME TypeOK
    PROVE  /\ BeatUsers(Window) \in [Slots -> UserType]
           /\ \A i \in Slots : /\ BeatUsers(Window)[i].isUsing = users[i].isUsing
                               /\ BeatUsers(Window)[i].session = users[i].session
<1> SUFFICES ASSUME NEW i \in Slots
             PROVE  /\ BeatUsers(Window)[i] \in UserType
                    /\ BeatUsers(Window)[i].isUsing = users[i].isUsing
                    /\ BeatUsers(Window)[i].session = users[i].session
  BY DEF BeatUsers
<1>1. users[i] \in UserType
  BY DEF TypeOK
<1>2. PICK c : c = IF Beat(i) < MaxHeartBeat THEN Beat(i) ELSE MaxHeartBeat
  OBVIOUS
<1>3. c \in 0 .. MaxHeartBeat
  BY <1>1, <1>2 DEF Beat, MaxHeartBeat, UserType
<1>4. BeatUsers(Window)[i] = [users[i] EXCEPT !.heartBeatCnt = c] \/ BeatUsers(Window)[i] = users[i]
  BY <1>2 DEF BeatUsers
<1> QED BY <1>1, <1>3, <1>4 DEF UserType

LEMMA HeartBeatInv ==
    ASSUME SlotsInv, HeartBeatTask
    PROVE  SlotsInv'
<1> DEFINE X == DisConnectSilent(Window)
<1>1. TypeOK /\ WindowInv /\ \A i \in Slots : users[i].isUsing => users[i].session \in Sessions
  BY DEF SlotsInv, SlotInv, Holds
<1>2. PICK q \in Seq(PacketType) : q = X /\ \A i \in DOMAIN q : q[i].id = "ReqInDisConnectUser"
  BY <1>1, SilentPackets
<1>3. /\ pktBuffer # <<>> /\ Head(pktBuffer) = HeartBeatTick
      /\ pktBuffer' = Tail(pktBuffer) \o q
      /\ UNCHANGED <<link, dict, redis, mysql, logins>>
      /\ users' = BeatUsers(Window)
      /\ checkStart' = (checkStart + CheckUserCount) % MaxUserCount
  BY <1>2 DEF HeartBeatTask, db
<1>4. /\ pktBuffer' \in Seq(PacketType)
      /\ \A s \in Sessions : \A k \in Nat :
            /\ Con(s, k)' <=> k >= 1 /\ Con(s, k + 1)
            /\ Dis(s, k)' <=> k >= 1 /\ Dis(s, k + 1)
  BY <1>1, <1>2, <1>3, TakePacket
<1>5. SameSlots /\ SameLinks /\ users' \in [Slots -> UserType]
  BY <1>1, <1>3, BeatTypes DEF SameSlots, SameLinks
<1>6. TypeOK' /\ WindowInv'
  BY <1>1, <1>3, <1>4, <1>5, WindowFacts DEF TypeOK, WindowInv
<1>7. \A s \in Sessions : ~Con(s, 1) /\ ~Dis(s, 1)
  <2>1. pktBuffer[1] = HeartBeatTick
    BY <1>1, <1>3, HeadTailProperties DEF TypeOK
  <2> QED BY <2>1, PacketFacts DEF Con, Dis, HeartBeatTick
<1> QED BY <1>4, <1>5, <1>6, <1>7, QuietStep
-----------------------------------------------------------------------------
LEMMA InitInv == Init => SlotsInv
<1> SUFFICES ASSUME Init PROVE SlotsInv
  OBVIOUS
<1>1. /\ MaxUserCount \in Nat \ {0} /\ CheckUserCount \in Nat \ {0} /\ MaxLogins \in Nat
  BY UserManagerAssumption
<1>2. NewUser \in UserType
  BY DEF NewUser, UserType, MaxHeartBeat
<1>3. TypeOK
  BY <1>1, <1>2, EmptySeq DEF Init, TypeOK, Slots
<1>4. WindowInv
  <2>1. 0 \in 0 .. MaxUserCount /\ 0 = 0 * CheckUserCount
    BY <1>1
  <2> QED BY <2>1 DEF Init, WindowInv
<1>5. \A s : \A k : ~Con(s, k) /\ ~Dis(s, k)
  BY <1>3, Positions, EmptySeq DEF Init, Con, Dis
<1>6. \A s \in Sessions : SessionInv(s)
  BY <1>5 DEF Init, SessionInv, HasDis, HasCon
<1>7. \A i \in Slots : SlotInv(i)
  BY DEF Init, SlotInv, NewUser
<1> QED BY <1>3, <1>4, <1>5, <1>6, <1>7 DEF SlotsInv

LEMMA NextInv ==
    ASSUME SlotsInv, [Next]_vars
    PROVE  SlotsInv'
<1>1. CASE \E s \in Sessions : Network(s) \/ Database(s)
  BY <1>1, NetworkInv
<1>2. CASE SendHeartBeatPkt
  <2>1. CASE Sessions = {}
    <3>1. \A s \in Sessions : FALSE
      BY <2>1
    <3>2. TypeOK
      BY DEF SlotsInv
    <3>3. /\ pktBuffer' = Append(pktBuffer, HeartBeatTick) /\ HeartBeatTick \in PacketType
          /\ UNCHANGED <<link, users, dict, redis, mysql, checkStart, logins>>
      BY <1>2, PacketFacts DEF SendHeartBeatPkt, Enqueue, db
    <3>4. TypeOK'
      BY <3>2, <3>3, PostPacket DEF TypeOK
    <3>5. WindowInv' /\ \A i \in Slots : SlotInv(i)'
      BY <3>1, <3>3 DEF SlotsInv, WindowInv, SlotInv
    <3> QED BY <3>1, <3>4, <3>5 DEF SlotsInv
  <2>2. CASE Sessions # {}
    BY <1>2, <2>2, NetworkInv
  <2> QED BY <2>1, <2>2
<1>3. CASE Process
  BY <1>3, AnnouncedInv, EndedInv, LoginsInv, HeartBeatInv DEF Process
<1>4. CASE UNCHANGED vars
  <2>1. /\ UNCHANGED <<link, pktBuffer, users, dict, redis, mysql, checkStart, logins>>
    BY <1>4 DEF vars, db
  <2>2. TypeOK' /\ WindowInv'
    BY <2>1 DEF SlotsInv, TypeOK, WindowInv
  <2>3. \A s : \A k : (Con(s, k)' <=> Con(s, k)) /\ (Dis(s, k)' <=> Dis(s, k))
    BY <2>1 DEF Con, Dis
  <2>4. \A s \in Sessions : SessionInv(s)'
    <3>1. \A s : (HasCon(s)' <=> HasCon(s)) /\ (HasDis(s)' <=> HasDis(s))
      BY <2>3 DEF HasCon, HasDis
    <3>2. \A s \in Sessions : Kept(s)' <=> Kept(s)
      BY <2>1, <3>1 DEF Kept, OwnSlot, RanOut
    <3> QED BY <2>1, <2>3, <3>1, <3>2 DEF SlotsInv, SessionInv
  <2>5. \A i \in Slots : SlotInv(i)'
    BY <2>1, <2>3 DEF SlotsInv, SlotInv, Holds, HasCon, HasDis
  <2> QED BY <2>2, <2>4, <2>5 DEF SlotsInv
<1> QED BY <1>1, <1>2, <1>3, <1>4 DEF Next

LEMMA InvImpliesOwn == SlotsInv => SlotIsOwn
<1> SUFFICES ASSUME SlotsInv, NEW s \in Sessions, Registered(s)
             PROVE  OwnSlot(s) \/ (dict[s] \in {NoSlot, 0} /\ \E t \in Sessions : Slotless(t))
  BY DEF SlotIsOwn, OwnSlot, MayLack
<1>1. \A t \in Sessions : HasCon(t) <=> Buffered("NtfInConnectClient", t)
  BY Positions DEF SlotsInv
<1>2. /\ link[s] # "new" /\ ~HasCon(s)
      /\ link[s] = "closed" => HasDis(s)
  BY Positions DEF SlotsInv, Registered
<1>3. Kept(s)
  BY <1>2 DEF SlotsInv, SessionInv
<1>4. RanOut => \E t \in Sessions : Slotless(t)
  BY <1>1 DEF RanOut, Slotless
<1> QED BY <1>3, <1>4 DEF Kept

(* The invariant of connections and slots (UserManager.cs, PKHCommon.cs):  *)
(* announcements, ends, slots and dictionary agree with each other through *)
(* every order of connecting, closing, heartbeats and late answers.        *)
THEOREM SlotsInvariant == Spec => []SlotsInv
<1>1. Init => SlotsInv
  BY InitInv
<1>2. SlotsInv /\ [Next]_vars => SlotsInv'
  BY NextInv
<1> QED BY <1>1, <1>2, PTL DEF Spec

(* Buffer, users, dictionary and counters stay well typed, and the window  *)
(* of the heartbeat (HeartBeatManager.cs) stays within the slots, whether  *)
(* slots run out or not.                                                   *)
THEOREM TypeCorrect == Spec => []TypeOK
<1>1. SlotsInv => TypeOK
  BY DEF SlotsInv
<1> QED BY <1>1, SlotsInvariant, PTL

(* A session between its announcement and its end has a slot of its own    *)
(* (UserManager.cs), whatever the buffer, the slot and the dictionary      *)
(* still hold of the sessions before it; once a session has found no empty *)
(* slot, only the users of slot 0 can have lost theirs.                    *)
THEOREM SlotsAreOwn == Spec => []SlotIsOwn
<1>1. SlotsInv => SlotIsOwn
  BY InvImpliesOwn
<1> QED BY <1>1, SlotsInvariant, PTL
=============================================================================
