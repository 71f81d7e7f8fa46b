----------------------------- MODULE RasterOrder -----------------------------
(***************************************************************************)
(* Regions of an image and the order in which an incremental encoder takes *)
(* them: left to right inside a row of tiles, then down to the next row.   *)
(* The scheduler's planner emits regions in this order (TileGrid) and the  *)
(* write-behind sinks restore it after the workers have finished out of    *)
(* order (FileSink, DoubleBufferSink).                                     *)
(***************************************************************************)
EXTENDS Integers, Sequences

\* A region as every crate passes it around: origin and extent in pixels.
Region(x, y, w, h) == [x |-> x, y |-> y, width |-> w, height |-> h]

Origin(r) == [x |-> r.x, y |-> r.y]

TopLeft == [x |-> 0, y |-> 0]

\* The bounds test of a sink: nothing negative, nothing past the image.
InBounds(r, imageWidth, imageHeight) ==
    /\ r.x >= 0
    /\ r.y >= 0
    /\ r.x + r.width <= imageWidth
    /\ r.y + r.height <= imageHeight

\* Where the region that comes after r must start.
AfterRegion(r, imageWidth) ==
    IF r.x + r.width >= imageWidth
    THEN [x |-> 0, y |-> r.y + r.height]
    ELSE [x |-> r.x + r.width, y |-> r.y]

\* Where the region that comes after the whole sequence s must start.
AfterAll(s, imageWidth) ==
    IF s = <<>> THEN TopLeft ELSE AfterRegion(s[Len(s)], imageWidth)

\* s starts at the top left corner and leaves no gap and no overlap in the
\* order of delivery: each region starts where its predecessor ended.
RasterChain(s, imageWidth) ==
    /\ s # <<>> => Origin(s[1]) = TopLeft
    /\ \A i \in 1 .. Len(s) - 1 : Origin(s[i + 1]) = AfterRegion(s[i], imageWidth)

=============================================================================
