---------------------------- MODULE MCTilePlan ----------------------------
(***************************************************************************)
(* Requests around the boundaries of the tile sizes: 1, 16, 128, 256 rows  *)
(* or columns and one less or more; images as high as the two thresholds   *)
(* of the strip heights; zero-sized images; small and large budgets.       *)
(***************************************************************************)
EXTENDS TilePlan

Request(w, h, hint, pixelBytes, l2, threads, strip) ==
    [ width |-> w, height |-> h, hint |-> hint, rowBytes |-> w * pixelBytes,
      l2 |-> l2, threads |-> threads, stripTiles |-> strip, nodes |-> 1 ]

SmallRequests ==
    { Request(w, h, hint, 4, l2, threads, strip) :
        w \in {0, 1, 127, 129}, h \in {0, 1, 15, 17, 33, 257},
        hint \in Hints, l2 \in {1, 4096}, threads \in {1, 3, 20}, strip \in {0, 2} }

TallRequests ==
    { Request(w, h, hint, 1, 65536, 4, 0) :
        w \in {2, 600}, h \in {1023, 1025, 4096}, hint \in {"Any", "FatStrip", "ThinStrip"} }

WideRequests ==
    { Request(w, 20, hint, 1, 65536, threads, 0) :
        w \in {9999, 10001}, hint \in {"ThinStrip", "SmallTile"}, threads \in {2, 8} }

\* A pipeline without operations copies its source.
CopyRequests == { [r EXCEPT !.nodes = 0] : r \in TallRequests }

MCRequests == SmallRequests \cup TallRequests \cup WideRequests \cup CopyRequests

=============================================================================
