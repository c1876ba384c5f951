-------------------------------- MODULE Board --------------------------------
(***************************************************************************)
(* The scans of class OmokGame (Omok-Server/OmokGame.cs) over its board.   *)
(* The code writes each of them four times, once per line through a cell;  *)
(* here a line is a direction <<dx, dy>> and the four are one operator.    *)
(* A board is a function from cells <<x, y>> to Black, White or None.      *)
(***************************************************************************)
EXTENDS Integers, FiniteSets, FiniteSetsExt, Turns

CONSTANT BoardSize    \* _boardSize

ASSUME BoardAssumption == BoardSize \in Nat \ {0}

Last  == BoardSize - 1
Cells == (0 .. Last) \X (0 .. Last)

EmptyBoard == [c \in Cells |-> None]

Horizontal      == <<1, 0>>
Vertical        == <<0, 1>>
Diagonal        == <<1, -1>>
InverseDiagonal == <<1, 1>>
Directions == {Horizontal, Vertical, Diagonal, InverseDiagonal}

At(c, d, k) == <<c[1] + k * d[1], c[2] + k * d[2]>>
Back(d)     == <<-d[1], -d[2]>>
-----------------------------------------------------------------------------
(* One half of CheckOmokHorizontal and its siblings: how many of the next  *)
(* five cells in direction d carry on with the stone of c.                 *)
SameStones(b, c, d) ==
    Cardinality({i \in 1 .. 5 :
        \A k \in 1 .. i : At(c, d, k) \in Cells /\ b[At(c, d, k)] = b[c]})

(* Mutant: the line is followed to one side only. *)
CheckOmokOneWay(b, c, d) == 1 + SameStones(b, c, d)

CheckOmok(b, c, d) == 1 + SameStones(b, c, d) + SameStones(b, c, Back(d))

(* Mutant: six and more count as five. *)
OmokAtLeastFive(b, c) == \E d \in Directions : CheckOmok(b, c, d) >= 5

(* CheckOmokComplete: exactly five; six and more play on. *)
OmokComplete(b, c) == \E d \in Directions : CheckOmok(b, c, d) = 5
-----------------------------------------------------------------------------
(* Where the loop of CheckHorizontalDoubleThree and its siblings stops in  *)
(* direction d: at the first of three cells that is off the board or holds *)
(* a stone unlike c, otherwise behind them.                                *)
StopAt(b, c, d) ==
    Min({i \in 1 .. 3 : \/ At(c, d, i) \notin Cells
                        \/ b[At(c, d, i)] \notin {b[c], None}} \cup {4})

LikeCell(b, c, d) ==
    Cardinality({i \in 1 .. StopAt(b, c, d) - 1 : b[At(c, d, i)] = b[c]})

(* The end of a scan lies off the rim, on the axes the direction moves on. *)
OffRim(p, d) == \A k \in {1, 2} : d[k] # 0 => 0 < p[k] /\ p[k] < Last

(* A scan that ends at a stone with a stone right before it. *)
Blocked(b, c, d) ==
    LET i == StopAt(b, c, d)
    IN  b[At(c, d, i)] # None /\ b[At(c, d, i - 1)] # None

CheckThree(b, c, d) ==
    LET ends == {At(c, d, StopAt(b, c, d)), At(c, Back(d), StopAt(b, c, Back(d)))}
    IN  /\ 1 + LikeCell(b, c, d) + LikeCell(b, c, Back(d)) = 3
        /\ \A p \in ends : OffRim(p, d)
        /\ ~Blocked(b, c, d) /\ ~Blocked(b, c, Back(d))

(* Mutant: one line with a three is enough. *)
SingleThree(b, c) == \E d \in Directions : CheckThree(b, c, d)

(* CheckDoubleThree.  PutStone calls it before the stone lies, so b[c] is  *)
(* None and "like c" means empty.                                          *)
CheckDoubleThree(b, c) ==
    Cardinality({d \in Directions : CheckThree(b, c, d)}) >= 2
-----------------------------------------------------------------------------
(* The rule the first scan is to implement: c lies in a row of five cells  *)
(* of its colour that neither end carries on.                              *)
HasColor(b, p, color) == p \in Cells /\ b[p] = color

MakesFive(b, c) ==
    /\ b[c] # None
    /\ \E d \in Directions, k \in 0 .. 4 :
          /\ \A i \in 0 .. 4 : HasColor(b, At(c, d, i - k), b[c])
          /\ ~HasColor(b, At(c, d, -1 - k), b[c])
          /\ ~HasColor(b, At(c, d, 5 - k), b[c])

(* What the second scan does to an empty cell: on line d the cell lies in  *)
(* a gap of exactly three empty cells between two stones off the rim.      *)
InGapOfThree(b, c, d) ==
    \E k \in 0 .. 2 :
        /\ \A i \in 0 .. 2 : HasColor(b, At(c, d, i - k), None)
        /\ \A p \in {At(c, d, -1 - k), At(c, d, 3 - k)} :
              p \in Cells /\ b[p] # None /\ OffRim(p, d)

(* How many stones of a colour a line would hold within three cells of c.  *)
StonesNear(b, c, d, color) ==
    Cardinality({i \in -3 .. 3 : HasColor(b, At(c, d, i), color)})
=============================================================================
