----------------------------- MODULE MCTileCache -----------------------------
(* TileCache for TLC: tiles of one, two and four bytes in a cache of three. *)
EXTENDS TileCache, TLC

CONSTANTS t1, t2, small, middle, large

MCThreads == {t1, t2}
MCKeys == {small, middle, large}
MCBytes == small :> 1 @@ middle :> 2 @@ large :> 4
ThreadSymmetry == Permutations(MCThreads)
=============================================================================
