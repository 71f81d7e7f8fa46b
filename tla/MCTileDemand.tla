---------------------------- MODULE MCTileDemand ----------------------------
(***************************************************************************)
(* MCTilePlan's requests, and for each operation requests of the size of   *)
(* its canvas, cut in rows (one row, 16 rows, as many as 20 threads) and   *)
(* in columns (a canvas two pixels wider than a small tile).  The factors, *)
(* counts and masks do not divide the tiles; a zoom by 7 in strips of 16   *)
(* rows has a strip that touches one source row more than its height asks. *)
(***************************************************************************)
EXTENDS MCTilePlan, TileDemand

Operation(kind, source, size, at, by, extend) ==
    [ kind |-> kind, source |-> [slot \in {0} |-> source], size |-> size,
      at |-> at, by |-> by, extend |-> extend ]

TwoInputs(kind, first, second, size, at, extend) ==
    [ kind |-> kind, source |-> [slot \in {0, 1} |-> IF slot = 0 THEN first ELSE second],
      size |-> size, at |-> at, by |-> <<1, 1>>, extend |-> extend ]

Small == Size(5, 4)
Wide == Size(130, 18)
None == <<0, 0>>
Unit == <<1, 1>>

Moves ==
    { Operation(kind, s, s, None, Unit, "None") :
        kind \in {"FlipVertical", "FlipHorizontal", "Rotate180"}, s \in {Small, Wide} }
    \cup { Operation(kind, Size(s.height, s.width), s, None, Unit, "None") :
        kind \in {"Rotate90", "Rotate270"}, s \in {Small, Wide} }
    \cup { Operation("ExtractArea", Size(140, 21), Wide, <<3, 2>>, Unit, "None") }

Canvases ==
    { Operation("Embed", Size(4, 3), Size(7, 6), at, Unit, extend) :
        at \in {<<1, 2>>, <<-1, 1>>}, extend \in {"Black", "Edge"} }
    \cup { Operation("EmbedCanvas", Size(4, 3), Size(11, 8), at, Unit, extend) :
        at \in {<<4, 3>>, <<-1, 1>>}, extend \in {"Background", "Copy", "Repeat", "Mirror"} }

Repetitions ==
    { Operation("Replicate", Size(4, 3), Size(8, 9), None, <<2, 3>>, "None"),
      Operation("Wrap", Small, Small, <<2, -3>>, Unit, "None"),
      Operation("Wrap", Small, Small, <<-7, 4>>, Unit, "None"),
      Operation("Grid", Size(4, 15), Size(8, 9), None, <<2, 3>>, "None") }

Scalings ==
    { Operation("Zoom", Size(3, 4), Size(9, 8), None, <<3, 2>>, "None"),
      Operation("Zoom", Size(3, 10), Size(3, 70), None, <<1, 7>>, "None"),
      Operation("Zoom", Size(44, 6), Size(132, 18), None, <<3, 3>>, "None"),
      Operation("Subsample", Size(9, 8), Size(4, 4), None, <<2, 2>>, "None"),
      Operation("Subsample", Size(260, 54), Wide, None, <<2, 3>>, "None"),
      Operation("ShrinkH", Size(13, 5), Size(5, 5), <<13, 0>>, <<3, 1>>, "None"),
      Operation("ShrinkH", Size(261, 18), Wide, <<261, 0>>, <<2, 1>>, "None"),
      Operation("ShrinkH", Size(13, 5), Size(4, 5), None, <<3, 1>>, "None"),
      Operation("ShrinkV", Size(5, 13), Size(5, 5), None, <<1, 3>>, "None"),
      Operation("Conv2d", Small, Small, None, <<3, 5>>, "None") }

Compositions ==
    { TwoInputs("Insert", Size(7, 6), Size(3, 4), Size(7, 6), at, "None") :
        at \in {<<2, 1>>, <<-1, 4>>} }
    \cup { TwoInputs("Join", Size(4, 5), Size(3, 2), Size(7, 5), None, "Horizontal"),
           TwoInputs("Join", Size(4, 2), Size(5, 4), Size(5, 6), None, "Vertical") }

MCOperations == Moves \cup Canvases \cup Repetitions \cup Scalings \cup Compositions

\* The tile itself, a halo around it, a shift, a part of it.
MCGrowths ==
    { <<0, 0, 0, 0>>, <<1, 2, 1, 2>>, <<3, 1, 3, 1>>, <<-1, 0, 1, 0>>, <<2, 1, -2, -1>>, <<0, -1, -1, 0>> }

OperationRequests ==
    { Request(op.size.width, op.size.height, hint, 1, 4096, threads, 0) :
        op \in MCOperations, hint \in {"Any", "ThinStrip", "SmallTile", "OneLine"}, threads \in {1, 20} }

MCPlanRequests == MCRequests \cup OperationRequests

=============================================================================
