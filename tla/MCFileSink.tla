----------------------------- MODULE MCFileSink -----------------------------
(***************************************************************************)
(* FileSink on a 4x2 image cut into four 2x1 tiles (the image of the       *)
(* source's own test), with callers that pass any tile at any time, twice  *)
(* if they like, and one region that crosses the right edge.               *)
(***************************************************************************)
EXTENDS FileSink

MCTiles == { Region(x, y, 2, 1) : x \in {0, 2}, y \in {0, 1} }

MCRegions == MCTiles \cup { Region(3, 0, 2, 1) }

=============================================================================
