----------------------------- MODULE MCOmokGame -----------------------------
(* Small instances of OmokGame: a board of nine by nine, played on lines   *)
(* and crosses.                                                            *)
EXTENDS OmokGame

Line(c, d, n) == {At(c, d, k) : k \in 0 .. n - 1}

(* Six or seven cells in every direction, at the rim and away from it. *)
Lines == {Line(<<0, 0>>, Horizontal, 7), Line(<<8, 1>>, Vertical, 6),
          Line(<<0, 6>>, Diagonal, 6), Line(<<1, 1>>, InverseDiagonal, 7)}

Cross(c, d, e) == {At(c, d, k) : k \in {-2, -1, 0, 2}} \cup {At(c, e, k) : k \in {-2, 2}}

(* Two lines through a cell: in the middle, and with an arm on the rim. *)
Crosses == {Cross(<<4, 4>>, Horizontal, Vertical), Cross(<<2, 4>>, Vertical, Horizontal),
            Cross(<<4, 4>>, Diagonal, InverseDiagonal)}

LinesAndCrosses == Lines \cup Crosses
=============================================================================
