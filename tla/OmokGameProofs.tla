--------------------------- MODULE OmokGameProofs ---------------------------
(***************************************************************************)
(* Proofs about modules Board and OmokGame, for every size of the board:   *)
(* the scan for a five finds exactly the fives, the scan for double threes *)
(* refuses exactly the gaps of three, and the game keeps to the rules.     *)
(***************************************************************************)
EXTENDS OmokGame, FiniteSetTheorems, TLAPS

(* A set of numbers that starts at 1 and has no holes is as long as the    *)
(* largest number in it.                                                   *)
LEMMA UpToFive ==
    ASSUME NEW S \in SUBSET (1 .. 5), \A i \in S : \A k \in 1 .. i : k \in S
    PROVE  Cardinality(S) \in 0 .. 5 /\ S = 1 .. Cardinality(S)
<1>1. \E m \in 0 .. 5 : S = 1 .. m
  <2>1. \A x \in S : x \in {1, 2, 3, 4, 5}
    OBVIOUS
  <2>2. ASSUME NEW m \in 1 .. 5, m \in S, \A x \in S : x <= m PROVE S = 1 .. m
    <3>1. \A x \in 1 .. m : x \in S
      BY <2>2
    <3>2. \A x \in S : x \in 1 .. m
      BY <2>2
    <3> QED BY <3>1, <3>2
  <2>3. ASSUME S # {} PROVE \E m \in 1 .. 5 : m \in S /\ \A x \in S : x <= m
    <3>1. CASE 5 \in S
      BY <2>1, <3>1
    <3>2. CASE 5 \notin S /\ 4 \in S
      BY <2>1, <3>2
    <3>3. CASE 5 \notin S /\ 4 \notin S /\ 3 \in S
      BY <2>1, <3>3
    <3>4. CASE 5 \notin S /\ 4 \notin S /\ 3 \notin S /\ 2 \in S
      BY <2>1, <3>4
    <3>5. CASE 5 \notin S /\ 4 \notin S /\ 3 \notin S /\ 2 \notin S
      <4>1. \A x \in S : x = 1
        BY <2>1, <3>5
      <4>2. 1 \in S
        BY <2>3, <4>1
      <4> QED BY <4>1, <4>2
    <3> QED BY <3>1, <3>2, <3>3, <3>4, <3>5
  <2>4. CASE S = {}
    <3>1. 1 .. 0 = {}
      OBVIOUS
    <3> QED BY <2>4, <3>1
  <2> QED BY <2>2, <2>3, <2>4
<1>2. PICK m \in 0 .. 5 : S = 1 .. m
  BY <1>1
<1>3. Cardinality(1 .. m) = m
  <2>1. Cardinality(1 .. m) = IF 1 > m THEN 0 ELSE m - 1 + 1
    BY FS_Interval
  <2> QED BY <2>1
<1> QED BY <1>2, <1>3

(* Stepping backwards is stepping the other way, no step at all is the     *)
(* cell itself, and a step from a cell of the grid stays on the grid.      *)
LEMMA Steps ==
    ASSUME NEW c \in Cells, NEW d \in Directions
    PROVE  /\ \A k \in Int : At(c, Back(d), k) = At(c, d, -k)
           /\ At(c, d, 0) = c
           /\ \A k \in Int : At(c, d, k) \in Int \X Int
<1>1. Last \in Int
  BY BoardAssumption DEF Last
<1>2. c[1] \in Int /\ c[2] \in Int /\ c = <<c[1], c[2]>>
  BY <1>1 DEF Cells
<1>3. d[1] \in {-1, 0, 1} /\ d[2] \in {-1, 0, 1}
  BY DEF Directions, Horizontal, Vertical, Diagonal, InverseDiagonal
<1>4. Back(d)[1] = -d[1] /\ Back(d)[2] = -d[2]
  BY DEF Back
<1>5. \A k \in Int, x \in {-1, 0, 1} : k * (-x) = (-k) * x /\ k * x \in Int
  OBVIOUS
<1>6. \A x \in {-1, 0, 1} : 0 * x = 0
  OBVIOUS
<1>7. \A k \in Int : At(c, Back(d), k) = At(c, d, -k)
  BY <1>3, <1>4, <1>5 DEF At
<1>8. At(c, d, 0) = c
  BY <1>2, <1>3, <1>6 DEF At
<1>9. ASSUME NEW k \in Int PROVE At(c, d, k) \in Int \X Int
  <2>1. k * d[1] \in Int /\ k * d[2] \in Int
    BY <1>3, <1>5
  <2>2. c[1] + k * d[1] \in Int /\ c[2] + k * d[2] \in Int
    BY <1>2, <2>1
  <2> QED BY <2>2 DEF At
<1> QED BY <1>7, <1>8, <1>9
-----------------------------------------------------------------------------
(* The scan for a five. *)
(* SameStones counts how far the colour of c goes in direction d. *)
LEMMA SameStonesIs ==
    ASSUME NEW b, NEW c, NEW d
    PROVE  /\ SameStones(b, c, d) \in 0 .. 5
           /\ \A n \in 1 .. 5 :
                 SameStones(b, c, d) >= n <=> \A k \in 1 .. n : HasColor(b, At(c, d, k), b[c])
<1> DEFINE Same(k) == HasColor(b, At(c, d, k), b[c])
           S == {i \in 1 .. 5 : \A k \in 1 .. i : Same(k)}
<1>1. SameStones(b, c, d) = Cardinality(S)
  BY DEF SameStones, HasColor
<1> HIDE DEF Same
<1>2. \A i \in S : \A k \in 1 .. i : k \in S
  OBVIOUS
<1>3. Cardinality(S) \in 0 .. 5 /\ S = 1 .. Cardinality(S)
  BY <1>2, UpToFive
<1>4. \A n \in 1 .. 5 : n \in S <=> \A k \in 1 .. n : Same(k)
  OBVIOUS
<1> HIDE DEF S
<1>5. \A n \in 1 .. 5 : Cardinality(S) >= n <=> n \in S
  BY <1>3
<1> QED BY <1>1, <1>3, <1>4, <1>5 DEF Same

(* On one line: five counted are a row of five with c in it and both ends  *)
(* of another colour.                                                      *)
LEMMA LineOfFive ==
    ASSUME NEW b, NEW c \in Cells, NEW d \in Directions
    PROVE  CheckOmok(b, c, d) = 5 <=>
             \E k \in 0 .. 4 :
                /\ \A i \in 0 .. 4 : HasColor(b, At(c, d, i - k), b[c])
                /\ ~HasColor(b, At(c, d, -1 - k), b[c])
                /\ ~HasColor(b, At(c, d, 5 - k), b[c])
<1> DEFINE Same(k) == HasColor(b, At(c, d, k), b[c])
           f == SameStones(b, c, d)
           g == SameStones(b, c, Back(d))
           Row(k) == (\A i \in 0 .. 4 : Same(i - k)) /\ ~Same(-1 - k) /\ ~Same(5 - k)
<1>1. Same(0)
  BY Steps DEF HasColor
<1>2. f \in 0 .. 5 /\ \A n \in 1 .. 5 : f >= n <=> \A k \in 1 .. n : Same(k)
  BY SameStonesIs
<1>3. g \in 0 .. 5 /\ \A n \in 1 .. 5 : g >= n <=> \A k \in 1 .. n : Same(-k)
  <2>1. g \in 0 .. 5 /\ \A n \in 1 .. 5 :
           g >= n <=> \A k \in 1 .. n : HasColor(b, At(c, Back(d), k), b[c])
    BY SameStonesIs
  <2>2. \A k \in Int : At(c, Back(d), k) = At(c, d, -k)
    BY Steps
  <2> QED BY <2>1, <2>2
<1>4. CheckOmok(b, c, d) = 1 + f + g
  BY DEF CheckOmok
<1> HIDE DEF Same, f, g
<1>5. ASSUME 1 + f + g = 5 PROVE \E k \in 0 .. 4 : Row(k)
  <2>1. g \in 0 .. 4 /\ f = 4 - g
    BY <1>2, <1>3, <1>5
  <2>2. \A k \in 1 .. f : Same(k)
    BY <1>2, <2>1
  <2>3. \A k \in 1 .. g : Same(-k)
    BY <1>3, <2>1
  <2>4. ASSUME NEW i \in 0 .. 4 PROVE Same(i - g)
    <3>1. CASE i = g
      BY <1>1, <2>1, <3>1
    <3>2. CASE i > g
      BY <2>1, <2>2, <3>2
    <3>3. CASE i < g
      <4>1. g - i \in 1 .. g /\ -(g - i) = i - g
        BY <2>1, <3>3
      <4> QED BY <2>3, <4>1
    <3> QED BY <2>1, <3>1, <3>2, <3>3
  <2>5. ~Same(f + 1)
    <3>1. ~(f >= f + 1) /\ f + 1 \in 1 .. 5
      BY <2>1
    <3>2. PICK k \in 1 .. (f + 1) : ~Same(k)
      BY <1>2, <3>1
    <3>3. k = f + 1
      BY <2>1, <2>2, <3>2
    <3> QED BY <3>2, <3>3
  <2>6. ~Same(-(g + 1))
    <3>1. ~(g >= g + 1) /\ g + 1 \in 1 .. 5
      BY <2>1
    <3>2. PICK k \in 1 .. (g + 1) : ~Same(-k)
      BY <1>3, <3>1
    <3>3. k = g + 1
      BY <2>1, <2>3, <3>2
    <3> QED BY <3>2, <3>3
  <2>7. f + 1 = 5 - g /\ -(g + 1) = -1 - g
    BY <2>1
  <2> QED BY <2>1, <2>4, <2>5, <2>6, <2>7
<1>6. ASSUME NEW k \in 0 .. 4, Row(k) PROVE 1 + f + g = 5
  <2>1. \A j \in 1 .. 4 - k : Same(j)
    <3> SUFFICES ASSUME NEW j \in 1 .. 4 - k PROVE Same(j)
      OBVIOUS
    <3>1. j + k \in 0 .. 4 /\ (j + k) - k = j
      OBVIOUS
    <3> QED BY <1>6, <3>1
  <2>2. \A j \in 1 .. k : Same(-j)
    <3> SUFFICES ASSUME NEW j \in 1 .. k PROVE Same(-j)
      OBVIOUS
    <3>1. k - j \in 0 .. 4 /\ (k - j) - k = -j
      OBVIOUS
    <3> QED BY <1>6, <3>1
  <2>3. f >= 4 - k
    BY <1>2, <2>1
  <2>4. ~(f >= 5 - k)
    <3>1. 5 - k \in 1 .. 5 /\ 5 - k \in 1 .. (5 - k)
      OBVIOUS
    <3> QED BY <1>2, <1>6, <3>1
  <2>5. g >= k
    BY <1>3, <2>2
  <2>6. ~(g >= k + 1)
    <3>1. k + 1 \in 1 .. 5 /\ k + 1 \in 1 .. (k + 1) /\ -(k + 1) = -1 - k
      OBVIOUS
    <3> QED BY <1>3, <1>6, <3>1
  <2> QED BY <1>2, <1>3, <2>3, <2>4, <2>5, <2>6
<1> QED BY <1>4, <1>5, <1>6 DEF Same

(* CheckOmokComplete is right: it finds a five through a stone if and only *)
(* if the stone lies in a row of exactly five.                             *)
THEOREM FiveIsFound ==
    ASSUME NEW b, NEW c \in Cells, b[c] # None
    PROVE  OmokComplete(b, c) <=> MakesFive(b, c)
BY LineOfFive DEF OmokComplete, MakesFive
-----------------------------------------------------------------------------
(* The scan for double threes. *)
(* A cell off the rim on the axes a line runs along is on the board.       *)
LEMMA OffRimOnBoard ==
    ASSUME NEW c \in Cells, NEW d \in Directions, NEW k \in Int, OffRim(At(c, d, k), d)
    PROVE  At(c, d, k) \in Cells
<1> DEFINE p == At(c, d, k)
<1>1. Last \in Int
  BY BoardAssumption DEF Last
<1>2. c[1] \in 0 .. Last /\ c[2] \in 0 .. Last
  BY DEF Cells
<1>3. d[1] \in {-1, 0, 1} /\ d[2] \in {-1, 0, 1}
  BY DEF Directions, Horizontal, Vertical, Diagonal, InverseDiagonal
<1>4. p = <<c[1] + k * d[1], c[2] + k * d[2]>>
  BY DEF At
<1>5. p[1] = c[1] + k * d[1] /\ p[2] = c[2] + k * d[2] /\ p = <<p[1], p[2]>>
  BY <1>4
<1>6. p[1] \in Int /\ p[2] \in Int
  <2>1. \A x \in {-1, 0, 1} : k * x \in Int
    OBVIOUS
  <2> QED BY <1>2, <1>3, <1>5, <2>1
<1>7. /\ d[1] # 0 => 0 < p[1] /\ p[1] < Last
      /\ d[2] # 0 => 0 < p[2] /\ p[2] < Last
  BY DEF OffRim
<1>8. /\ d[1] = 0 => p[1] = c[1]
      /\ d[2] = 0 => p[2] = c[2]
  <2>1. k * 0 = 0
    OBVIOUS
  <2> QED BY <1>2, <1>5, <2>1
<1> HIDE DEF p
<1>9. p[1] \in 0 .. Last /\ p[2] \in 0 .. Last
  BY <1>1, <1>2, <1>6, <1>7, <1>8
<1> QED BY <1>5, <1>9 DEF Cells, p

(* From an empty cell the scan walks over empty cells and stops at the     *)
(* first that is not, or after three.                                      *)
LEMMA StopAtIs ==
    ASSUME NEW b, NEW c, NEW d, b[c] = None
    PROVE  /\ StopAt(b, c, d) \in 1 .. 4
           /\ \A i \in 1 .. StopAt(b, c, d) - 1 : HasColor(b, At(c, d, i), None)
           /\ StopAt(b, c, d) < 4 => ~HasColor(b, At(c, d, StopAt(b, c, d)), None)
           /\ LikeCell(b, c, d) = StopAt(b, c, d) - 1
<1> DEFINE Empty(i) == HasColor(b, At(c, d, i), None)
           T == {i \in 1 .. 3 : ~Empty(i)} \cup {4}
           s == StopAt(b, c, d)
<1>1. s = Min(T)
  BY DEF StopAt, HasColor
<1> HIDE DEF Empty, s
<1>2. \E m \in T : \A x \in T : m <= x
  <2>1. CASE 1 \in T
    BY <2>1
  <2>2. CASE 1 \notin T /\ 2 \in T
    BY <2>2
  <2>3. CASE 1 \notin T /\ 2 \notin T /\ 3 \in T
    BY <2>3
  <2>4. CASE 1 \notin T /\ 2 \notin T /\ 3 \notin T
    BY <2>4
  <2> QED BY <2>1, <2>2, <2>3, <2>4
<1>3. s \in T /\ \A x \in T : s <= x
  BY <1>1, <1>2 DEF Min
<1>4. s \in 1 .. 4
  BY <1>3
<1>5. \A i \in 1 .. s - 1 : Empty(i)
  <2> SUFFICES ASSUME NEW i \in 1 .. s - 1, ~Empty(i) PROVE FALSE
    OBVIOUS
  <2>1. i \in T
    BY <1>4
  <2> QED BY <1>3, <1>4, <2>1
<1>6. s < 4 => ~Empty(s)
  BY <1>3
<1>7. LikeCell(b, c, d) = s - 1
  <2>1. {i \in 1 .. s - 1 : b[At(c, d, i)] = b[c]} = 1 .. s - 1
    BY <1>5 DEF Empty, HasColor
  <2>2. Cardinality(1 .. s - 1) = s - 1
    <3>1. Cardinality(1 .. s - 1) = IF 1 > s - 1 THEN 0 ELSE (s - 1) - 1 + 1
      BY <1>4, FS_Interval
    <3> QED BY <1>4, <3>1
  <2> QED BY <2>1, <2>2 DEF LikeCell, s
<1> QED BY <1>4, <1>5, <1>6, <1>7 DEF s, Empty

(* On one line: three counted, clear of the rim and unblocked, are a gap   *)
(* of three empty cells between two stones.                                *)
LEMMA LineOfThree ==
    ASSUME NEW b, NEW c \in Cells, NEW d \in Directions, b[c] = None
    PROVE  CheckThree(b, c, d) <=> InGapOfThree(b, c, d)
<1> DEFINE P(k) == At(c, d, k)
           Empty(k) == HasColor(b, P(k), None)
           s == StopAt(b, c, d)
           t == StopAt(b, c, Back(d))
           Ends == s + t = 4 /\ OffRim(P(s), d) /\ OffRim(P(-t), d)
           Gap(k) == /\ \A i \in 0 .. 2 : Empty(i - k)
                     /\ P(-1 - k) \in Cells /\ b[P(-1 - k)] # None /\ OffRim(P(-1 - k), d)
                     /\ P(3 - k) \in Cells /\ b[P(3 - k)] # None /\ OffRim(P(3 - k), d)
<1>1. Empty(0)
  BY Steps DEF HasColor
<1>2. /\ s \in 1 .. 4 /\ \A i \in 1 .. s - 1 : Empty(i)
      /\ s < 4 => ~Empty(s)
      /\ LikeCell(b, c, d) = s - 1
  BY StopAtIs
<1>3. \A k \in Int : At(c, Back(d), k) = P(-k)
  BY Steps
<1>4. /\ t \in 1 .. 4 /\ \A i \in 1 .. t - 1 : Empty(-i)
      /\ t < 4 => ~Empty(-t)
      /\ LikeCell(b, c, Back(d)) = t - 1
  <2>1. /\ t \in 1 .. 4 /\ \A i \in 1 .. t - 1 : HasColor(b, At(c, Back(d), i), None)
        /\ t < 4 => ~HasColor(b, At(c, Back(d), t), None)
        /\ LikeCell(b, c, Back(d)) = t - 1
    BY StopAtIs
  <2> QED BY <1>3, <2>1
<1>5. ~Blocked(b, c, d)
  <2>1. b[P(s - 1)] = None
    <3>1. CASE s = 1
      BY <1>1, <3>1 DEF HasColor
    <3>2. CASE s # 1
      <4>1. Empty(s - 1)
        BY <1>2, <3>2
      <4> QED BY <4>1 DEF HasColor
    <3> QED BY <3>1, <3>2
  <2> QED BY <2>1 DEF Blocked
<1>6. ~Blocked(b, c, Back(d))
  <2>1. b[At(c, Back(d), t - 1)] = None
    <3>1. CASE t = 1
      BY <1>1, <1>3, <3>1 DEF HasColor
    <3>2. CASE t # 1
      <4>1. Empty(-(t - 1)) /\ t - 1 \in Int
        BY <1>4, <3>2
      <4> QED BY <1>3, <4>1 DEF HasColor
    <3> QED BY <3>1, <3>2
  <2> QED BY <2>1 DEF Blocked
<1>7. CheckThree(b, c, d) <=> Ends
  <2>1. 1 + LikeCell(b, c, d) + LikeCell(b, c, Back(d)) = 3 <=> s + t = 4
    BY <1>2, <1>4
  <2>2. At(c, Back(d), t) = P(-t)
    BY <1>3, <1>4
  <2> HIDE DEF s, t, P
  <2> QED BY <1>5, <1>6, <2>1, <2>2 DEF CheckThree, s, t, P
<1>8. InGapOfThree(b, c, d) <=> \E k \in 0 .. 2 : Gap(k)
  BY DEF InGapOfThree
<1> HIDE DEF Empty, s, t, P
<1>9. ASSUME Ends PROVE \E k \in 0 .. 2 : Gap(k)
  <2> DEFINE k == t - 1
  <2>1. k \in 0 .. 2 /\ t = k + 1 /\ s = 3 - k
    BY <1>2, <1>4, <1>9
  <2> HIDE DEF k
  <2>2. ASSUME NEW i \in 0 .. 2 PROVE Empty(i - k)
    <3>1. CASE i = k
      BY <1>1, <2>1, <3>1
    <3>2. CASE i > k
      BY <1>2, <2>1, <3>2
    <3>3. CASE i < k
      <4>1. k - i \in 1 .. t - 1 /\ -(k - i) = i - k
        BY <2>1, <3>3
      <4> QED BY <1>4, <4>1
    <3> QED BY <2>1, <3>1, <3>2, <3>3
  <2>3. -1 - k = -t /\ 3 - k = s /\ -t \in Int /\ s \in Int
    BY <2>1
  <2>4. P(s) \in Cells /\ P(-t) \in Cells
    BY <1>9, <2>3, OffRimOnBoard DEF P
  <2>5. ~Empty(s) /\ ~Empty(-t)
    BY <1>2, <1>4, <2>1
  <2>6. b[P(s)] # None /\ b[P(-t)] # None
    BY <2>4, <2>5 DEF Empty, HasColor
  <2> QED BY <1>9, <2>1, <2>2, <2>3, <2>4, <2>6
<1>10. ASSUME NEW k \in 0 .. 2, Gap(k) PROVE Ends
  <2>1. ~Empty(3 - k) /\ ~Empty(-(k + 1))
    <3>1. -(k + 1) = -1 - k
      OBVIOUS
    <3> QED BY <1>10, <3>1 DEF Empty, HasColor
  <2>2. s = 3 - k
    <3>1. CASE s < 3 - k
      <4>1. s + k \in 0 .. 2 /\ (s + k) - k = s
        BY <1>2, <3>1
      <4> QED BY <1>2, <1>10, <3>1, <4>1
    <3>2. CASE s > 3 - k
      <4>1. 3 - k \in 1 .. s - 1
        BY <1>2, <3>2
      <4> QED BY <1>2, <2>1, <4>1
    <3> QED BY <1>2, <3>1, <3>2
  <2>3. t = k + 1
    <3>1. CASE t < k + 1
      <4>1. k - t \in 0 .. 2 /\ (k - t) - k = -t
        BY <1>4, <3>1
      <4> QED BY <1>4, <1>10, <3>1, <4>1
    <3>2. CASE t > k + 1
      <4>1. k + 1 \in 1 .. t - 1
        BY <1>4, <3>2
      <4> QED BY <1>4, <2>1, <4>1
    <3> QED BY <1>4, <3>1, <3>2
  <2>4. s + t = 4 /\ -t = -1 - k
    BY <2>2, <2>3
  <2> QED BY <1>10, <2>2, <2>4
<1> QED BY <1>7, <1>8, <1>9, <1>10

(* CheckDoubleThree refuses an empty cell if and only if it lies in a gap  *)
(* of exactly three on two lines.                                          *)
THEOREM DoubleThreeIsTwoGaps ==
    ASSUME NEW b, NEW c \in Cells, b[c] = None
    PROVE  CheckDoubleThree(b, c) <=>
             Cardinality({d \in Directions : InGapOfThree(b, c, d)}) >= 2
<1>1. {d \in Directions : CheckThree(b, c, d)} = {d \in Directions : InGapOfThree(b, c, d)}
  BY LineOfThree
<1> QED BY <1>1 DEF CheckDoubleThree
-----------------------------------------------------------------------------
(* What a stone does to the fives on the board. *)
LEMMA StepOfStep ==
    ASSUME NEW c \in Cells, NEW d \in Directions, NEW m \in Int, NEW n \in Int
    PROVE  At(At(c, d, m), d, n) = At(c, d, m + n)
<1>1. Last \in Int
  BY BoardAssumption DEF Last
<1>2. c[1] \in Int /\ c[2] \in Int
  BY <1>1 DEF Cells
<1>3. d[1] \in {-1, 0, 1} /\ d[2] \in {-1, 0, 1}
  BY DEF Directions, Horizontal, Vertical, Diagonal, InverseDiagonal
<1>4. \A x \in Int, y \in {-1, 0, 1} : (x + m * y) + n * y = x + (m + n) * y
  OBVIOUS
<1>5. /\ (c[1] + m * d[1]) + n * d[1] = c[1] + (m + n) * d[1]
      /\ (c[2] + m * d[2]) + n * d[2] = c[2] + (m + n) * d[2]
  BY <1>2, <1>3, <1>4
<1> QED BY <1>5 DEF At

(* A stone that makes no five through itself makes none at all: a row it   *)
(* is part of runs through it, and a row it only ends was a five before.   *)
LEMMA NoFiveElsewhere ==
    ASSUME NEW b \in [Cells -> StoneColor], NEW c \in Cells, b[c] = None,
           NEW color \in Colors,
           \A x \in Cells : ~MakesFive(b, x),
           ~MakesFive([b EXCEPT ![c] = color], c)
    PROVE  \A x \in Cells : ~MakesFive([b EXCEPT ![c] = color], x)
<1> DEFINE new == [b EXCEPT ![c] = color]
<1> SUFFICES ASSUME NEW x \in Cells, MakesFive(new, x) PROVE FALSE
  OBVIOUS
<1>1. /\ new[c] = color /\ color # None
      /\ \A y \in Cells : y # c => new[y] = b[y]
  BY DEF Colors, Black, White, None
<1> HIDE DEF new
<1>2. new[x] # None
  BY DEF MakesFive
<1>3. PICK d \in Directions, k \in 0 .. 4 :
         /\ \A i \in 0 .. 4 : HasColor(new, At(x, d, i - k), new[x])
         /\ ~HasColor(new, At(x, d, -1 - k), new[x])
         /\ ~HasColor(new, At(x, d, 5 - k), new[x])
  BY DEF MakesFive
<1>4. CASE \E j \in 0 .. 4 : At(x, d, j - k) = c
  <2>1. PICK j \in 0 .. 4 : At(x, d, j - k) = c
    BY <1>4
  <2>2. new[c] = new[x]
    BY <1>3, <2>1 DEF HasColor
  <2>3. \A n \in Int : At(c, d, n - j) = At(x, d, n - k)
    <3> SUFFICES ASSUME NEW n \in Int PROVE At(c, d, n - j) = At(x, d, n - k)
      OBVIOUS
    <3>1. j - k \in Int /\ n - j \in Int /\ (j - k) + (n - j) = n - k
      OBVIOUS
    <3> QED BY <2>1, <3>1, StepOfStep
  <2>4. /\ \A i \in 0 .. 4 : At(c, d, i - j) = At(x, d, i - k)
        /\ At(c, d, -1 - j) = At(x, d, -1 - k)
        /\ At(c, d, 5 - j) = At(x, d, 5 - k)
    BY <2>3
  <2>5. /\ \A i \in 0 .. 4 : HasColor(new, At(c, d, i - j), new[c])
        /\ ~HasColor(new, At(c, d, -1 - j), new[c])
        /\ ~HasColor(new, At(c, d, 5 - j), new[c])
    BY <1>3, <2>2, <2>4
  <2>6. MakesFive(new, c)
    BY <1>1, <2>5 DEF MakesFive
  <2> QED BY <2>6 DEF new
<1>5. CASE \A j \in 0 .. 4 : At(x, d, j - k) # c
  <2>1. x # c
    <3>1. k \in 0 .. 4 /\ k - k = 0
      OBVIOUS
    <3>2. At(x, d, k - k) = x
      BY <3>1, Steps
    <3> QED BY <1>5, <3>2
  <2>2. new[x] = b[x]
    BY <1>1, <2>1
  <2>3. \A i \in 0 .. 4 : HasColor(b, At(x, d, i - k), b[x])
    BY <1>1, <1>3, <1>5, <2>2 DEF HasColor
  <2>4. \A p : ~HasColor(new, p, new[x]) => ~HasColor(b, p, b[x])
    BY <1>1, <1>2, <2>2 DEF HasColor
  <2>5. MakesFive(b, x)
    BY <1>2, <1>3, <2>2, <2>3, <2>4 DEF MakesFive
  <2> QED BY <2>5
<1> QED BY <1>4, <1>5
-----------------------------------------------------------------------------
(* The game. *)
GameType == [players : {Players}, turn : Colors, turnOverCnt : 0 .. MaxTurnOverCnt,
             stones : Nat, isGameEnd : BOOLEAN]

Stones(b) == {c \in Cells : b[c] # None}

(* The inductive invariant: besides the types, a running game has room for *)
(* one more turn over, no result and no five anywhere; a finished one has  *)
(* a result; and the stones are counted.                                   *)
GameInv ==
    /\ board \in [Cells -> StoneColor]
    /\ game \in GameType
    /\ result \in StoneColor \cup {Running}
    /\ region \in Regions /\ region \subseteq Cells
    /\ game.isGameEnd <=> result # Running
    /\ ~game.isGameEnd =>
          game.turnOverCnt < MaxTurnOverCnt /\ \A c \in Cells : ~MakesFive(board, c)
    /\ game.stones = Cardinality(Stones(board))

(* What the steps of a running game make of its record.                    *)
LEMMA RunningGame ==
    ASSUME NEW g \in GameType, ~g.isGameEnd, g.turnOverCnt < MaxTurnOverCnt
    PROVE  /\ PlaceStone(g) \in GameType
           /\ PlaceStone(g).turn = Opposite(g.turn) /\ PlaceStone(g).turnOverCnt = 0
           /\ PlaceStone(g).stones = g.stones + 1 /\ ~PlaceStone(g).isGameEnd
           /\ TurnOver(g) \in GameType
           /\ TurnOver(g).turn = Opposite(g.turn)
           /\ TurnOver(g).turnOverCnt = g.turnOverCnt + 1
           /\ TurnOver(g).stones = g.stones /\ ~TurnOver(g).isGameEnd
<1>1. MaxTurnOverCnt \in Nat \ {0}
  BY OmokGameAssumption
<1>2. Opposite(g.turn) \in Colors
  BY DEF Opposite, Colors
<1>3. g.turnOverCnt \in Nat /\ g.turnOverCnt + 1 \in 0 .. MaxTurnOverCnt /\ g.stones + 1 \in Nat
  BY <1>1 DEF GameType
<1> DEFINE placed == [g EXCEPT !.stones = g.stones + 1, !.turnOverCnt = 0]
           turned == [g EXCEPT !.turn = Opposite(g.turn)]
<1>4. /\ placed \in GameType /\ placed.turn = g.turn /\ placed.turnOverCnt = 0
      /\ placed.stones = g.stones + 1 /\ ~placed.isGameEnd
  <2> DEFINE n == g.stones + 1
  <2>1. n \in Nat /\ 0 \in 0 .. MaxTurnOverCnt /\ placed = [g EXCEPT !.stones = n, !.turnOverCnt = 0]
    BY <1>1, <1>3
  <2> HIDE DEF n, placed
  <2>2. /\ placed \in GameType /\ placed.turn = g.turn /\ placed.turnOverCnt = 0
        /\ placed.stones = n /\ placed.isGameEnd = g.isGameEnd
    BY <2>1 DEF GameType
  <2> QED BY <2>2 DEF n
<1>5. /\ turned \in GameType /\ turned.turn = Opposite(g.turn)
      /\ turned.turnOverCnt = g.turnOverCnt
      /\ turned.stones = g.stones /\ ~turned.isGameEnd
  BY <1>2 DEF GameType
<1>6. PlaceStone(g) = ChangeTurn(placed) /\ TurnOver(g) = [ChangeTurn(g) EXCEPT !.turnOverCnt = @ + 1]
  BY DEF PlaceStone, TurnOver
<1> HIDE DEF placed, turned
<1>7. PlaceStone(g) = [placed EXCEPT !.turn = Opposite(g.turn)]
  BY <1>4, <1>6 DEF ChangeTurn
<1>8. TurnOver(g) = [turned EXCEPT !.turnOverCnt = g.turnOverCnt + 1]
  BY <1>5, <1>6 DEF ChangeTurn, turned
<1>9. /\ PlaceStone(g) \in GameType
      /\ PlaceStone(g).turn = Opposite(g.turn) /\ PlaceStone(g).turnOverCnt = 0
      /\ PlaceStone(g).stones = g.stones + 1 /\ ~PlaceStone(g).isGameEnd
  BY <1>2, <1>4, <1>7 DEF GameType
<1>10. /\ TurnOver(g) \in GameType
       /\ TurnOver(g).turn = Opposite(g.turn)
       /\ TurnOver(g).turnOverCnt = g.turnOverCnt + 1
       /\ TurnOver(g).stones = g.stones /\ ~TurnOver(g).isGameEnd
  BY <1>3, <1>5, <1>8 DEF GameType
<1> QED BY <1>9, <1>10

(* EndGame of a running game keeps everything but the flag.                *)
LEMMA EndOfGame ==
    ASSUME NEW g \in GameType, ~g.isGameEnd, NEW color, EndGame(g, color)
    PROVE  /\ game' \in GameType /\ game'.isGameEnd /\ game'.turn = g.turn
           /\ game'.turnOverCnt = g.turnOverCnt /\ game'.stones = g.stones
           /\ result' = color
BY DEF EndGame, GameType

LEMMA InitGame == Init => GameInv
<1> SUFFICES ASSUME Init PROVE GameInv
  OBVIOUS
<1>1. MaxTurnOverCnt \in Nat \ {0} /\ Regions \subseteq SUBSET Cells
  BY OmokGameAssumption
<1>2. board = EmptyBoard /\ game = NewGame(Players) /\ result = Running /\ region \in Regions
  BY DEF Init
<1>3. /\ game \in GameType /\ ~game.isGameEnd
      /\ game.turnOverCnt = 0 /\ game.stones = 0
  BY <1>1, <1>2 DEF NewGame, GameType, Colors
<1>4. board \in [Cells -> StoneColor] /\ \A c \in Cells : board[c] = None
  BY <1>2 DEF EmptyBoard, StoneColor
<1>5. Cardinality(Stones(board)) = 0
  <2>1. Stones(board) = {}
    BY <1>4 DEF Stones
  <2> QED BY <2>1, FS_EmptySet
<1>6. \A c \in Cells : ~MakesFive(board, c)
  BY <1>4 DEF MakesFive
<1> QED BY <1>1, <1>2, <1>3, <1>4, <1>5, <1>6 DEF GameInv

LEMMA CellsFinite == IsFiniteSet(Cells)
<1>1. Last \in Int
  BY BoardAssumption DEF Last
<1>2. IsFiniteSet(0 .. Last)
  BY <1>1, FS_Interval
<1> QED BY <1>2, FS_Product DEF Cells

(* A stone on an empty cell is one stone more.                             *)
LEMMA OneStoneMore ==
    ASSUME NEW b \in [Cells -> StoneColor], NEW c \in Cells, b[c] = None, NEW color \in Colors
    PROVE  Cardinality(Stones([b EXCEPT ![c] = color])) = Cardinality(Stones(b)) + 1
<1>1. color # None
  BY DEF Colors, Black, White, None
<1>2. Stones([b EXCEPT ![c] = color]) = Stones(b) \cup {c}
  BY <1>1 DEF Stones
<1>3. c \notin Stones(b) /\ Stones(b) \subseteq Cells
  BY DEF Stones
<1>4. IsFiniteSet(Stones(b))
  BY <1>3, CellsFinite, FS_Subset
<1> QED BY <1>2, <1>3, <1>4, FS_AddElement

(* A stone: the scans see the five if there is one, so the game that goes  *)
(* on has none.                                                            *)
LEMMA PutStoneKeeps ==
    ASSUME GameInv, NEW s, NEW c \in region, PutStone(s, c)
    PROVE  GameInv' /\ Rule!Put(c)
<1>1. /\ board \in [Cells -> StoneColor] /\ game \in GameType
      /\ c \in Cells /\ region \in Regions /\ region \subseteq Cells
      /\ result = Running /\ game.turnOverCnt < MaxTurnOverCnt
      /\ \A x \in Cells : ~MakesFive(board, x)
      /\ game.stones = Cardinality(Stones(board))
  BY DEF GameInv, PutStone
<1>2. /\ ~game.isGameEnd /\ board[c] = None /\ board' = [board EXCEPT ![c] = game.turn]
      /\ region' = region
  BY DEF PutStone
<1>3. game.turn \in Colors /\ game.turn # None /\ game.turn \in StoneColor
  BY <1>1 DEF GameType, Colors, StoneColor, Black, White, None
<1>4. /\ PlaceStone(game) \in GameType
      /\ PlaceStone(game).turn = Opposite(game.turn) /\ PlaceStone(game).turnOverCnt = 0
      /\ PlaceStone(game).stones = game.stones + 1 /\ ~PlaceStone(game).isGameEnd
  BY <1>1, <1>2, RunningGame
<1>5. board' \in [Cells -> StoneColor] /\ board'[c] # None
  BY <1>1, <1>2, <1>3
<1>6. OmokComplete(board', c) <=> MakesFive(board', c)
  BY <1>1, <1>5, FiveIsFound
<1>7. Cardinality(Stones(board')) = game.stones + 1
  BY <1>1, <1>2, <1>3, OneStoneMore
<1>8. MaxTurnOverCnt \in Nat \ {0}
  BY OmokGameAssumption
<1>9. game.turn # Running
  BY <1>3 DEF Colors, Black, White, Running
<1>10. Rule!MakesFive(board', c) <=> MakesFive(board', c)
  BY DEF Rule!MakesFive, MakesFive, Rule!HasColor, HasColor, Rule!At, At, Rule!Cells, Cells,
         Rule!Last, Last, Rule!Directions, Directions, Rule!Horizontal, Horizontal,
         Rule!Vertical, Vertical, Rule!Diagonal, Diagonal,
         Rule!InverseDiagonal, InverseDiagonal, Rule!None, None
<1>11. CASE OmokComplete(board', c)
  <2>1. EndGame(PlaceStone(game), game.turn)
    BY <1>11 DEF PutStone
  <2>2. /\ game' \in GameType /\ game'.isGameEnd /\ game'.turn = Opposite(game.turn)
        /\ game'.turnOverCnt = 0 /\ game'.stones = game.stones + 1 /\ result' = game.turn
    BY <1>4, <2>1, EndOfGame
  <2>3. GameInv'
    BY <1>1, <1>2, <1>3, <1>5, <1>7, <1>9, <2>2 DEF GameInv
  <2>4. Rule!Put(c)
    BY <1>1, <1>2, <1>6, <1>10, <1>11, <2>2
       DEF Rule!Put, Rule!Running, Running, Rule!None, None, Rule!Opposite, Opposite,
           Rule!Black, Black, Rule!White, White
  <2> QED BY <2>3, <2>4
<1>12. CASE ~OmokComplete(board', c)
  <2>1. game' = PlaceStone(game) /\ result' = result
    BY <1>12 DEF PutStone
  <2>2. \A x \in Cells : ~MakesFive(board', x)
    BY <1>1, <1>2, <1>3, <1>6, <1>12, NoFiveElsewhere
  <2>3. GameInv'
    <3>1. /\ game' \in GameType /\ ~game'.isGameEnd
          /\ game'.turnOverCnt < MaxTurnOverCnt
          /\ game'.stones = Cardinality(Stones(board'))
      BY <1>4, <1>7, <1>8, <2>1
    <3>2. result' = Running /\ region' \in Regions /\ region' \subseteq Cells
      BY <1>1, <1>2, <2>1
    <3> QED BY <1>5, <2>2, <3>1, <3>2 DEF GameInv
  <2>4. Rule!Put(c)
    BY <1>1, <1>2, <1>4, <1>6, <1>10, <1>12, <2>1
       DEF Rule!Put, Rule!Running, Running, Rule!None, None, Rule!Opposite, Opposite,
           Rule!Black, Black, Rule!White, White
  <2> QED BY <2>3, <2>4
<1> QED BY <1>11, <1>12

(* The turn clock: the last turn that passes ends the game undecided.      *)
LEMMA ForceChangeTurnKeeps ==
    ASSUME GameInv, ForceChangeTurn
    PROVE  GameInv' /\ Rule!Pass
<1>1. /\ board \in [Cells -> StoneColor] /\ game \in GameType
      /\ region \in Regions /\ region \subseteq Cells
      /\ result = Running /\ game.turnOverCnt < MaxTurnOverCnt
      /\ \A x \in Cells : ~MakesFive(board, x)
      /\ game.stones = Cardinality(Stones(board))
  BY DEF GameInv, ForceChangeTurn
<1>2. ~game.isGameEnd /\ board' = board /\ region' = region
  BY DEF ForceChangeTurn
<1>3. /\ TurnOver(game) \in GameType
      /\ TurnOver(game).turn = Opposite(game.turn)
      /\ TurnOver(game).turnOverCnt = game.turnOverCnt + 1
      /\ TurnOver(game).stones = game.stones /\ ~TurnOver(game).isGameEnd
  BY <1>1, <1>2, RunningGame
<1>4. None \in StoneColor /\ None # Running
  BY DEF StoneColor, None, Running
<1>5. CASE TurnOver(game).turnOverCnt >= MaxTurnOverCnt
  <2>1. EndGame(TurnOver(game), None)
    BY <1>5 DEF ForceChangeTurn
  <2>2. /\ game' \in GameType /\ game'.isGameEnd /\ game'.turn = Opposite(game.turn)
        /\ game'.turnOverCnt = game.turnOverCnt + 1
        /\ game'.stones = game.stones /\ result' = None
    BY <1>3, <2>1, EndOfGame
  <2>3. GameInv'
    BY <1>1, <1>2, <1>4, <2>2 DEF GameInv
  <2>4. ~ (game'.turnOverCnt < MaxTurnOverCnt)
    BY <1>1, <1>3, <1>5, <2>2, OmokGameAssumption DEF GameType
  <2>5. Rule!Pass
    BY <1>1, <1>2, <2>2, <2>4
       DEF Rule!Pass, Rule!Running, Running, Rule!None, None, Rule!Opposite, Opposite,
           Rule!Black, Black, Rule!White, White
  <2> QED BY <2>3, <2>5
<1>6. CASE ~(TurnOver(game).turnOverCnt >= MaxTurnOverCnt)
  <2>1. game' = TurnOver(game) /\ result' = result
    BY <1>6 DEF ForceChangeTurn
  <2>2. /\ game' \in GameType /\ ~game'.isGameEnd /\ game'.turnOverCnt < MaxTurnOverCnt
        /\ game'.stones = game.stones /\ game'.turn = Opposite(game.turn)
    <3>1. TurnOver(game).turnOverCnt \in Nat /\ MaxTurnOverCnt \in Nat
      BY <1>3, OmokGameAssumption DEF GameType
    <3> QED BY <1>3, <1>6, <2>1, <3>1
  <2>3. game'.turnOverCnt = game.turnOverCnt + 1
    BY <1>3, <2>1
  <2>4. GameInv'
    BY <1>1, <1>2, <2>1, <2>2 DEF GameInv
  <2>5. Rule!Pass
    BY <1>1, <1>2, <2>1, <2>2, <2>3
       DEF Rule!Pass, Rule!Running, Running, Rule!Opposite, Opposite,
           Rule!Black, Black, Rule!White, White
  <2> QED BY <2>4, <2>5
<1> QED BY <1>5, <1>6

(* The game clock or a player who leaves.                                  *)
LEMMA RoomEndsGameKeeps ==
    ASSUME GameInv, NEW color \in StoneColor, RoomEndsGame(color)
    PROVE  GameInv' /\ Rule!Stop
<1>1. /\ board \in [Cells -> StoneColor] /\ game \in GameType
      /\ region \in Regions /\ region \subseteq Cells /\ result = Running
      /\ game.stones = Cardinality(Stones(board))
  BY DEF GameInv, RoomEndsGame
<1>2. ~game.isGameEnd /\ board' = board /\ region' = region /\ EndGame(game, color)
  BY DEF RoomEndsGame
<1>3. /\ game' \in GameType /\ game'.isGameEnd /\ game'.turn = game.turn
      /\ game'.turnOverCnt = game.turnOverCnt
      /\ game'.stones = game.stones /\ result' = color
  BY <1>1, <1>2, EndOfGame
<1>4. color # Running
  BY DEF StoneColor, Colors, Black, White, None, Running
<1>5. GameInv'
  BY <1>1, <1>2, <1>3, <1>4 DEF GameInv
<1>6. Rule!Stop
  BY <1>1, <1>2, <1>3
     DEF Rule!Stop, Rule!Running, Running, Rule!StoneColor, StoneColor, Rule!Colors, Colors,
         Rule!Black, Black, Rule!White, White, Rule!None, None
<1> QED BY <1>5, <1>6

(* Every step keeps the invariant and is one the rules allow.              *)
LEMMA GameStep ==
    ASSUME GameInv, [Next]_vars
    PROVE  GameInv' /\ [Rule!Next]_<<board, game.turn, result, game.turnOverCnt>>
<1>1. ASSUME NEW i \in DOMAIN Players, NEW c \in region, PutStone(Players[i], c)
      PROVE  GameInv' /\ Rule!Next
  <2>1. GameInv' /\ Rule!Put(c)
    BY <1>1, PutStoneKeeps
  <2>2. c \in Rule!Cells
    BY DEF GameInv, Rule!Cells, Cells, Rule!Last, Last
  <2> QED BY <2>1, <2>2 DEF Rule!Next
<1>2. CASE ForceChangeTurn
  BY <1>2, ForceChangeTurnKeeps DEF Rule!Next
<1>3. ASSUME NEW color \in StoneColor, RoomEndsGame(color)
      PROVE  GameInv' /\ Rule!Next
  BY <1>3, RoomEndsGameKeeps DEF Rule!Next
<1>4. CASE UNCHANGED vars
  BY <1>4 DEF vars, GameInv
<1> QED BY <1>1, <1>2, <1>3, <1>4 DEF Next

THEOREM GameInvariant == Spec => []GameInv
<1>1. GameInv /\ [Next]_vars => GameInv'
  BY GameStep
<1> QED BY <1>1, InitGame, PTL DEF Spec

(* Type correctness: the turn clock never counts past its limit.           *)
THEOREM TypeCorrect == Spec => []TypeOK
<1>1. GameInv => TypeOK
  BY DEF GameInv, GameType, TypeOK
<1> QED BY <1>1, GameInvariant, PTL

(* PutStone looks only at the lines through the newest stone, and yet no   *)
(* running game has a five anywhere on its board.                          *)
THEOREM RunningGamesHaveNoFive == Spec => []RunningHasNoFive
<1>1. GameInv => RunningHasNoFive
  BY DEF GameInv, RunningHasNoFive
<1> QED BY <1>1, GameInvariant, PTL

(* The number the rooms count with is the number of stones on the board.   *)
THEOREM StonesAreCounted == Spec => []StonesCounted
<1>1. GameInv => StonesCounted
  BY DEF GameInv, StonesCounted, Stones
<1> QED BY <1>1, GameInvariant, PTL

(* On every board a game can reach, a cell is refused as a double three    *)
(* exactly if it lies in a gap of three on two lines.                      *)
THEOREM GapsAreRefused == Spec => []RefusesGapsOfThree
<1>1. GameInv => RefusesGapsOfThree
  <2> SUFFICES ASSUME GameInv, NEW c \in region, board[c] = None
               PROVE  CheckDoubleThree(board, c) <=>
                        Cardinality({d \in Directions : InGapOfThree(board, c, d)}) >= 2
    BY DEF RefusesGapsOfThree
  <2>1. c \in Cells
    BY DEF GameInv
  <2> QED BY <2>1, DoubleThreeIsTwoGaps
<1> QED BY <1>1, GameInvariant, PTL

(* The scans implement the rules: OmokGame refines Rules, step by step.    *)
THEOREM GameFollowsRules == Spec => FollowsRules
<1>1. Init => Rule!Init
  BY DEF Init, NewGame, Rule!Init, Rule!EmptyBoard, EmptyBoard, Rule!Cells, Cells,
         Rule!Last, Last, Rule!None, None, Rule!Black, Black, Rule!Running, Running
<1>2. GameInv /\ [Next]_vars => [Rule!Next]_<<board, game.turn, result, game.turnOverCnt>>
  BY GameStep
<1> QED BY <1>1, <1>2, GameInvariant, PTL DEF Spec, FollowsRules, Rule!Spec
=============================================================================
