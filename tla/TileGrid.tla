------------------------------ MODULE TileGrid ------------------------------
(***************************************************************************)
(* How the scheduler cuts an output image into tiles, groups the tiles     *)
(* into strips and deals the strips to workers (viprs-runtime,             *)
(* scheduler/rayon_scheduler/planning.rs and runtime.rs; the tile sizes    *)
(* per demand hint are viprs-core, op/demand.rs).                          *)
(*                                                                         *)
(* A plan request p is a record: width, height of the output image; hint,  *)
(* the demand hint of the pipeline; rowBytes, bytes of one output row;     *)
(* l2, the cache budget in bytes; threads, the size of the worker pool;    *)
(* stripTiles, the strip height the caller fixed, 0 for none; nodes, how   *)
(* many operations the pipeline has.                                       *)
(***************************************************************************)
EXTENDS RasterOrder

Hints == {"Any", "ThinStrip", "FatStrip", "SmallTile", "FullImage", "OneLine"}

Least(a, b) == IF a <= b THEN a ELSE b
Greatest(a, b) == IF a >= b THEN a ELSE b
DivCeil(a, b) == (a + b - 1) \div b

-----------------------------------------------------------------------------
(* Tile sizes.                                                             *)

HintTileWidth(p) == IF p.hint = "SmallTile" THEN 128 ELSE p.width

HintTileHeight(p) ==
    CASE p.hint = "SmallTile" -> 128
      [] p.hint \in {"FatStrip", "Any"} ->
            IF p.height <= 1024 THEN 256 ELSE IF p.height >= 4096 THEN 64 ELSE 16
      [] p.hint = "ThinStrip" -> IF p.width > 10000 THEN 1 ELSE 16
      [] p.hint = "FullImage" -> p.height
      [] p.hint = "OneLine" -> 1

\* Strip-shaped tiles are cut down until one fits the cache budget.
TileHeightForHint(p) ==
    LET default  == Greatest(Least(HintTileHeight(p), p.height), 1)
        l2Height == Greatest(Greatest(p.l2, 1) \div Greatest(p.rowBytes, 1), 1)
    IN  IF p.hint \in {"FatStrip", "Any"}
        THEN Greatest(Least(Least(default, l2Height), p.height), 1)
        ELSE default

Geometry(tileWidth, tileHeight, p) ==
    [ tileWidth |-> tileWidth, tileHeight |-> tileHeight,
      cols |-> DivCeil(p.width, tileWidth), rows |-> DivCeil(p.height, tileHeight) ]

EmptyGeometry == [tileWidth |-> 0, tileHeight |-> 0, cols |-> 0, rows |-> 0]

GeometryForBudget(p) ==
    IF p.width = 0 \/ p.height = 0
    THEN EmptyGeometry
    ELSE Geometry(HintTileWidth(p), TileHeightForHint(p), p)

\* With several threads and few rows of tiles, the rows are made thinner so
\* that every thread finds work.
GeometryForExecution(p) ==
    LET g       == GeometryForBudget(p)
        desired == Greatest(Least(Greatest(p.threads, 16), p.height), 1)
        thinner == Greatest(DivCeil(p.height, desired), 1)
    IN  IF /\ p.hint \in {"FatStrip", "Any"}
           /\ p.threads > 1
           /\ g.rows < Greatest(p.threads, 16)
           /\ g.tileHeight > 1
           /\ thinner < g.tileHeight
        THEN [g EXCEPT !.tileHeight = thinner, !.rows = DivCeil(p.height, thinner)]
        ELSE g

-----------------------------------------------------------------------------
(* Tiles, strips and work ranges.                                          *)

\* The extent of the k-th cell (from 0) when length is cut in steps of size.
CellStart(k, size) == k * size
\* Fault: the last cell is not clamped at the boundary of the image.
CellExtentUnclamped(k, size, length) == size
CellExtent(k, size, length) == Least(size, length - k * size)

TileAt(col, row, g, p) ==
    Region(CellStart(col, g.tileWidth), CellStart(row, g.tileHeight),
           CellExtent(col, g.tileWidth, p.width), CellExtent(row, g.tileHeight, p.height))

\* Fault: the two loops are swapped.
TilesByColumn(g, p) ==
    [ i \in 1 .. g.cols * g.rows |-> TileAt((i - 1) \div g.rows, (i - 1) % g.rows, g, p) ]

\* Row by row, left to right.
GenerateTiles(g, p) ==
    [ i \in 1 .. g.cols * g.rows |-> TileAt((i - 1) % g.cols, (i - 1) \div g.cols, g, p) ]

\* The k-th of the runs of step items that 1 .. n is cut into, as <<first, last>>.
Runs(n, step) ==
    [ k \in 1 .. DivCeil(n, step) |-> <<(k - 1) * step + 1, Least(k * step, n)>> ]

\* Strips: runs of whole rows of tiles, as ranges of tile numbers.
StripRanges(g, stripTiles) ==
    LET rowRuns == Runs(g.rows, Greatest(stripTiles, 1))
    IN  [ k \in DOMAIN rowRuns |->
            <<(rowRuns[k][1] - 1) * g.cols + 1, rowRuns[k][2] * g.cols>> ]

\* Rows of tiles per strip when the caller fixed none.  The geometry is the
\* one for the budget, not the one for execution.
EffectiveStripTiles(p) ==
    LET g         == GeometryForBudget(p)
        tileBytes == Greatest(g.tileWidth * g.tileHeight * (p.rowBytes \div Greatest(p.width, 1)), 1)
        fitting   == Least(p.l2 \div tileBytes, DivCeil(g.rows, p.threads))
    IN  IF p.stripTiles # 0 THEN Greatest(p.stripTiles, 1)
        ELSE IF p.hint = "ThinStrip" \/ p.nodes = 0 THEN 1
        ELSE Greatest(Least(fitting, 32), 1)

\* Contiguous ranges of strips, one per task, when there are few strips per
\* worker; otherwise (<<>>) rayon splits the strips adaptively.
StaticWorkRanges(hint, workers, items) ==
    IF workers <= 1 \/ items <= 1 \/ (hint # "ThinStrip" /\ items > workers * 2)
    THEN <<>>
    ELSE Runs(items, Greatest(DivCeil(items, workers), 1))

\* Fault: the chunk length is rounded down.
ScopedChunksRoundedDown(workers, items) == Runs(items, items \div workers)

\* The chunks that run_scoped_strips hands to its threads.
ScopedChunks(workers, items) == Runs(items, DivCeil(items, workers))

\* How many workers a run of the given number of strips gets: wide sources
\* with expensive per-worker buffers get fewer.
StripWorkers(p, strips, poolBytes, sourceBytes) ==
    LET workers == Greatest(Least(p.threads, strips), 1)
        limited == DivCeil(Greatest(sourceBytes, 1) * 4, Greatest(poolBytes, 1))
    IN  IF \/ p.hint # "ThinStrip" /\ p.width > 512
           \/ workers <= 1
           \/ sourceBytes < 64 * 1024 * 1024
        THEN workers
        ELSE Least(Least(Greatest(limited, Least(2, workers)), Least(6, workers)), workers)

\* Whether the strips run on scoped threads of their own.
UseScopedStrips(p, strips, workers) ==
    /\ p.hint = "ThinStrip" /\ workers > 1 /\ strips > 1
    /\ DivCeil(strips, workers) <= 8
    /\ DivCeil(Greatest(p.height * p.rowBytes, 1), workers) <= p.l2 * 4

=============================================================================
