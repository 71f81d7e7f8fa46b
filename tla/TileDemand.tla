----------------------------- MODULE TileDemand -----------------------------
(***************************************************************************)
(* What the planned tiles ask of the operations that move pixels: a worker *)
(* takes a tile of the plan, the operations behind the last one are asked  *)
(* for a region around it or beside it, and each asks for what it needs of *)
(* its own input and reads it from a buffer that was sized when the        *)
(* pipeline was compiled, for the tiles of the hint: the scheduler cuts    *)
(* others.                                                                 *)
(***************************************************************************)
EXTENDS TilePlan, OperationRegions

CONSTANTS
    Operations,  \* operations considered, with their canvases
    Growths      \* by how much a consumer's region exceeds the tile on its
                 \* left, top, right and bottom (less than 0: it is cut)

Kinds ==
    { "ExtractArea", "FlipVertical", "FlipHorizontal", "Rotate90", "Rotate180", "Rotate270",
      "Embed", "EmbedCanvas", "Replicate", "Wrap", "Grid", "Zoom", "Subsample", "ShrinkH",
      "ShrinkV", "Conv2d", "Insert", "Join" }

Slots(op) == IF op.kind \in {"Insert", "Join"} THEN {0, 1} ELSE {0}

\* What the constructors ask for: images with pixels, factors, counts and mask
\* sides of at least one, a grid cut from a column of whole frames.
WellFormed(op) ==
    /\ op.source \in [Slots(op) -> [width : Nat \ {0}, height : Nat \ {0}]]
    /\ op.size \in [width : Nat, height : Nat]
    /\ op.at \in Int \X Int /\ op.by \in (Nat \ {0}) \X (Nat \ {0})
    /\ op.kind = "Embed" => op.extend \in {"Black", "Edge"}
    /\ op.kind = "EmbedCanvas" => op.extend \in {"Background", "Copy", "Repeat", "Mirror"}
    /\ op.kind = "Grid" => /\ op.source[0].height % op.by[2] = 0
                           /\ op.size.width = op.source[0].width * op.by[1]

ASSUME OperationsAssumption ==
    /\ \A op \in Operations : op.kind \in Kinds /\ WellFormed(op)
    /\ Growths \subseteq Int \X Int \X Int \X Int

VARIABLE demand  \* the operation asked, the region, and whether that is the
                 \* tile itself; the empty record before

demandVars == <<request, plan, demand>>

DemandInit == Init /\ demand = <<>>

-----------------------------------------------------------------------------
(* One operation after the other: its answer to a demanded region.         *)

ConsumesAll(op) ==
    \/ op.kind \in {"Replicate", "Wrap", "Grid"}
    \/ op.kind = "EmbedCanvas" /\ op.extend \in {"Repeat", "Mirror"}

RequiredInput(op, out, slot) ==
    CASE op.kind = "ExtractArea" -> ExtractAreaInput(op, out)
      [] op.kind = "FlipVertical" -> FlipVerticalInput(op, out)
      [] op.kind = "FlipHorizontal" -> FlipHorizontalInput(op, out)
      [] op.kind = "Rotate90" -> Rotate90Input(op, out)
      [] op.kind = "Rotate180" -> Rotate180Input(op, out)
      [] op.kind = "Rotate270" -> Rotate270Input(op, out)
      [] op.kind = "Embed" -> EmbedInput(op, out)
      [] op.kind = "EmbedCanvas" -> EmbedCanvasInput(op, out)
      [] op.kind \in {"Replicate", "Wrap", "Grid"} -> WholeOf(op.source[0])
      [] op.kind = "Zoom" -> ZoomInput(op, out)
      [] op.kind = "Subsample" -> SubsampleInput(op, out)
      [] op.kind = "ShrinkH" -> ShrinkHInput(op, out)
      [] op.kind = "ShrinkV" -> ShrinkVInput(op, out)
      [] op.kind = "Conv2d" -> ConvInput(op, out)
      [] op.kind \in {"Insert", "Join"} ->
            IntersectAndTranslate(out, Placement(op, slot), op.source[slot])

\* The size of the input tile that is declared for tiles of w by h.
InputTile(op, w, h) ==
    CASE ConsumesAll(op) -> op.source[0]
      [] op.kind \in {"Rotate90", "Rotate270"} -> Size(h, w)
      [] op.kind = "Zoom" -> ZoomTile(op, w, h)
      [] op.kind = "Subsample" -> SubsampleTile(op, w, h)
      [] op.kind = "ShrinkH" -> ShrinkHTile(op, w, h)
      [] op.kind = "ShrinkV" -> ShrinkVTile(op, w, h)
      [] op.kind = "Conv2d" -> ConvTile(op, w, h)
      [] OTHER -> Size(w, h)

\* What pixel <<i, j>> of out is made from, in the region in of the input.
Reads(op, out, in, i, j) ==
    CASE op.kind = "FlipVertical" -> One(FlipVerticalRead(in, i, j))
      [] op.kind = "FlipHorizontal" -> One(FlipHorizontalRead(in, i, j))
      [] op.kind = "Rotate90" -> One(Rotate90Read(out, i, j))
      [] op.kind = "Rotate180" -> One(Rotate180Read(in, i, j))
      [] op.kind = "Rotate270" -> One(Rotate270Read(out, i, j))
      [] op.kind = "Embed" -> EmbedReads(op, out, i, j)
      [] op.kind = "EmbedCanvas" -> EmbedCanvasReads(op, out, i, j)
      [] op.kind = "Replicate" -> One(ReplicateRead(op, out, i, j))
      [] op.kind = "Wrap" -> One(WrapRead(op, out, i, j))
      [] op.kind = "Grid" -> GridReads(op, out, i, j)
      [] op.kind = "Zoom" -> One(ZoomRead(op, out, in, i, j))
      [] op.kind = "Subsample" -> One(SubsampleRead(op, i, j))
      [] op.kind = "ShrinkH" -> ShrinkHReads(op, i, j)
      [] op.kind = "ShrinkV" -> ShrinkVReads(op, i, j)
      [] op.kind = "Conv2d" -> ConvReads(op, i, j)
      [] OTHER -> One(<<i, j>>)

InRegion(r, read) == read[1] \in 0 .. r.width - 1 /\ read[2] \in 0 .. r.height - 1

\* The slot a pixel of two images is pasted from last, -1 for none.
TopSlot(op, out, i, j) ==
    LET covering == { s \in {0, 1} :
            LET in == RequiredInput(op, out, s)
            IN  InRegion(in, PastedFrom(out, in, Placement(op, s), i, j)) }
    IN  CASE 1 \in covering -> 1 [] covering = {0} -> 0 [] OTHER -> -1

\* The reads of a pixel with their slots.
SlotReads(op, out, i, j) ==
    IF op.kind \in {"Insert", "Join"}
    THEN LET slot == TopSlot(op, out, i, j)
             in   == RequiredInput(op, out, slot)
         IN  IF slot = -1 THEN Fill
             ELSE One(<<slot, PastedFrom(out, in, Placement(op, slot), i, j)>>)
    ELSE LET reads == Reads(op, out, RequiredInput(op, out, 0), i, j)
         IN  [tap \in DOMAIN reads |-> <<0, reads[tap]>>]

\* The source fills a region beyond its edges by repeating them.
SourcePixel(op, slot, x, y) ==
    <<slot, Clamp(x, 0, op.source[slot].width - 1), Clamp(y, 0, op.source[slot].height - 1)>>

-----------------------------------------------------------------------------
(* Demands.                                                                *)

Grown(tile, growth) ==
    Region(tile.x - growth[1], tile.y - growth[2],
           tile.width + growth[1] + growth[3], tile.height + growth[2] + growth[4])

\* A view hands on the part that lies in its canvas; an operation that
\* computes hands on all of it.
ValidOutput(op, out) == IF op.kind = "ExtractArea" THEN ClipTo(out, op.size) ELSE out

\* Zoom and Grid take the origin for an unsigned number; no consumer that
\* reaches beyond the canvas is considered behind them.
MayBeAsked(op, out) ==
    /\ out.width > 0 /\ out.height > 0
    /\ op.kind \in {"Zoom", "Grid"} => InBounds(out, op.size.width, op.size.height)

\* A worker asks op for a planned tile (no growth) or for what a consumer of
\* op needs for it.
Demand(op, tile, growth) ==
    LET out == ValidOutput(op, Grown(tile, growth))
    IN  /\ demand = <<>>
        /\ op.size = Size(request.width, request.height)
        /\ MayBeAsked(op, out)
        /\ demand' = [op |-> op, out |-> out, alone |-> growth = <<0, 0, 0, 0>>]
        /\ UNCHANGED <<request, plan>>

DemandNext ==
    \/ Next /\ UNCHANGED demand
    \/ \E op \in Operations, growth \in Growths :
            Planned /\ \E i \in DOMAIN plan.tiles : Demand(op, plan.tiles[i], growth)

DemandSpec == DemandInit /\ [][DemandNext]_demandVars

-----------------------------------------------------------------------------

\* The number in 0 .. limit - 1 that the mirrored axis shows at n.
Mirrored(n, limit) ==
    CHOOSE s \in 0 .. limit - 1 : (n - s) % (2 * limit) = 0 \/ (n + 1 + s) % (2 * limit) = 0

\* The column of source a grid shows at <<x, y>>, frames being numbered by rows.
GridCell(op, x, y) ==
    { frame \in 0 .. (op.source[0].height \div op.by[2]) - 1 :
        /\ x - (frame % op.by[1]) * op.source[0].width \in 0 .. op.source[0].width - 1
        /\ y - (frame \div op.by[1]) * op.by[2] \in 0 .. op.by[2] - 1 }

\* What the operation documents for the pixel <<x, y>> of its canvas, taken
\* whole, without tiles: the positions in its source by tap.
Shown(op, x, y) ==
    LET W == op.source[0].width
        H == op.source[0].height
        P(u, v) == One(SourcePixel(op, 0, u, v))
        inside == InSource(op, x - op.at[1], y - op.at[2])
    IN  CASE op.kind = "ExtractArea" -> P(x + op.at[1], y + op.at[2])
          [] op.kind = "FlipVertical" -> P(x, H - 1 - y)
          [] op.kind = "FlipHorizontal" -> P(W - 1 - x, y)
          [] op.kind = "Rotate90" -> P(y, H - 1 - x)
          [] op.kind = "Rotate180" -> P(W - 1 - x, H - 1 - y)
          [] op.kind = "Rotate270" -> P(W - 1 - y, x)
          [] op.kind \in {"Embed", "EmbedCanvas"} ->
                CASE op.extend = "Repeat" -> P((x - op.at[1]) % W, (y - op.at[2]) % H)
                  [] op.extend = "Mirror" -> P(Mirrored(x - op.at[1], W), Mirrored(y - op.at[2], H))
                  [] op.extend \in {"Edge", "Copy"} -> P(x - op.at[1], y - op.at[2])
                  [] op.extend \in {"Black", "Background"} /\ inside -> P(x - op.at[1], y - op.at[2])
                  [] OTHER -> Fill
          [] op.kind = "Replicate" -> P(x % W, y % H)
          [] op.kind = "Wrap" -> P((x - op.at[1]) % W, (y - op.at[2]) % H)
          [] op.kind = "Grid" ->
                IF GridCell(op, x, y) = {} THEN Fill
                ELSE LET frame == CHOOSE f \in GridCell(op, x, y) : TRUE
                     IN  P(x - (frame % op.by[1]) * W,
                           y + (frame - frame \div op.by[1]) * op.by[2])
          [] op.kind = "Zoom" -> P(x \div op.by[1], y \div op.by[2])
          [] op.kind = "Subsample" -> P(x * op.by[1], y * op.by[2])
          [] op.kind = "ShrinkH" -> [tap \in (0 .. op.by[1] - 1) \X {0} |->
                                        SourcePixel(op, 0, x * op.by[1] + tap[1], y)]
          [] op.kind = "ShrinkV" -> [tap \in {0} \X (0 .. op.by[2] - 1) |->
                                        SourcePixel(op, 0, x, y * op.by[2] + tap[2])]
          [] op.kind = "Conv2d" ->
                [tap \in (0 .. op.by[1] - 1) \X (0 .. op.by[2] - 1) |->
                    SourcePixel(op, 0, x + tap[1] - op.by[1] \div 2, y + tap[2] - op.by[2] \div 2)]
          [] op.kind \in {"Insert", "Join"} ->
                LET lies == { s \in {0, 1} :
                        /\ x - Placement(op, s)[1] \in 0 .. op.source[s].width - 1
                        /\ y - Placement(op, s)[2] \in 0 .. op.source[s].height - 1 }
                    top  == IF 1 \in lies THEN 1 ELSE 0
                IN  IF lies = {} THEN Fill
                    ELSE One(SourcePixel(op, top, x - Placement(op, top)[1], y - Placement(op, top)[2]))

\* The positions in the source that pixel <<i, j>> of out is made from, by tap.
MadeFrom(op, out, i, j) ==
    LET reads == SlotReads(op, out, i, j)
    IN  [tap \in DOMAIN reads |->
            LET in == RequiredInput(op, out, reads[tap][1])
            IN  SourcePixel(op, reads[tap][1], in.x + reads[tap][2][1], in.y + reads[tap][2][2])]

ReadsInside(op, out, i, j) ==
    LET reads == SlotReads(op, out, i, j)
    IN  \A tap \in DOMAIN reads : InRegion(RequiredInput(op, out, reads[tap][1]), reads[tap][2])

\* What op asks for fits the buffers that were sized for tiles of w by h.
FitsBuffers(op, out, w, h) ==
    \A slot \in Slots(op) :
        LET in == RequiredInput(op, out, slot)
            t  == InputTile(op, w, h)
        IN  in.width * in.height <= t.width * t.height

\* Whatever tile is planned and whatever region around it a consumer needs,
\* every pixel an operation reads lies in what it asked for, and within the
\* canvas it reads the pixels that the operation on the whole image would:
\* no panic on a slice at the edges, no seam between tiles.  What it asks
\* for a tile alone fits the buffer that it declared at compile time, for the
\* tile of the hint, however the scheduler cuts the rows.  (A region that
\* EmbedCanvas does not write at all in mode Copy is left out; the buffers
\* for grown regions are PipelineCompile's subject.)
OperationReadsItsTile ==
    demand # <<>> /\ Writes(demand.op, demand.out) =>
        LET op  == demand.op
            out == demand.out
        IN  /\ demand.alone => FitsBuffers(op, out, HintTileWidth(request), HintTileHeight(request))
            /\ \A i \in 0 .. out.width - 1, j \in 0 .. out.height - 1 :
                  /\ ReadsInside(op, out, i, j)
                  /\ out.x + i \in 0 .. op.size.width - 1 /\ out.y + j \in 0 .. op.size.height - 1
                        => MadeFrom(op, out, i, j) = Shown(op, out.x + i, out.y + j)

=============================================================================
