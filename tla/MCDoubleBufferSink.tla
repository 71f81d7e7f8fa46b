------------------------- MODULE MCDoubleBufferSink -------------------------
(***************************************************************************)
(* A 2 x 5 image in strips of two rows (the last one of one row).          *)
(***************************************************************************)
EXTENDS DoubleBufferSink

\* Tiles of one pixel; full-width tiles that straddle strips; and columns
\* higher than a strip, which the sink refuses.
Cells    == [ i \in 1 .. 10 |-> Region((i - 1) % 2, (i - 1) \div 2, 1, 1) ]
Straddle == << Region(0, 0, 2, 3), Region(0, 3, 2, 2) >>
Columns  == << Region(0, 0, 1, 3), Region(1, 0, 1, 3), Region(0, 3, 1, 2), Region(1, 3, 1, 2) >>

AllPlans  == {Cells, Straddle, Columns}
=============================================================================
