-------------------------- MODULE OperationRegions --------------------------
(***************************************************************************)
(* The geometry of the operations that move pixels (viprs-ops-spatial and  *)
(* viprs-ops-composite): which region of its input an operation asks for   *)
(* when a region out of its output is wanted, and which pixel of what it   *)
(* got it reads for each pixel of out.                                     *)
(*                                                                         *)
(* An operation is a record: kind; source, the size of each of its inputs  *)
(* (slots 0 and 1); size, of its canvas; at, an offset in pixels; by, a    *)
(* pair of factors, counts or mask sides; extend, how a canvas is filled.  *)
(* Pixels of a region are counted from <<0, 0>>; in is the region that was *)
(* asked for.  What is computed from the pixels, and their bands, are      *)
(* abstracted: what a pixel of out is made from is a function from taps    *)
(* (<<0, 0>> when there is one) to positions in the input, the empty       *)
(* function when it is filled with a constant.                             *)
(***************************************************************************)
EXTENDS TileGrid

Size(w, h) == [width |-> w, height |-> h]

Fill == <<>>
One(read) == [tap \in {<<0, 0>>} |-> read]

WholeOf(s) == Region(0, 0, s.width, s.height)

\* r grown by a margin on each side, as a neighbourhood needs it.
Grow(r, dx, dy) == Region(r.x - dx, r.y - dy, r.width + 2 * dx, r.height + 2 * dy)

Clamp(n, low, high) == Greatest(low, Least(n, high))

\* The part of r that lies on a canvas of size s.
ClipTo(r, s) ==
    LET left   == Clamp(r.x, 0, s.width)
        top    == Clamp(r.y, 0, s.height)
        right  == Clamp(r.x + r.width, 0, s.width)
        bottom == Clamp(r.y + r.height, 0, s.height)
    IN  Region(left, top, right - left, bottom - top)

-----------------------------------------------------------------------------
(* Cuts and turns.                                                         *)

ExtractAreaInput(op, out) ==
    Region(out.x + op.at[1], out.y + op.at[2], out.width, out.height)

FlipVerticalInput(op, out) ==
    Region(out.x, op.source[0].height - out.y - out.height, out.width, out.height)

FlipVerticalRead(in, i, j) == <<i, in.height - 1 - j>>

FlipHorizontalInput(op, out) ==
    Region(op.source[0].width - out.x - out.width, out.y, out.width, out.height)

FlipHorizontalRead(in, i, j) == <<in.width - 1 - i, j>>

Rotate180Input(op, out) ==
    Region(op.source[0].width - out.x - out.width,
           op.source[0].height - out.y - out.height, out.width, out.height)

Rotate180Read(in, i, j) == <<in.width - 1 - i, in.height - 1 - j>>

Rotate90Input(op, out) ==
    Region(out.y, op.source[0].height - out.x - out.width, out.height, out.width)

Rotate90Read(out, i, j) == <<j, out.width - 1 - i>>

Rotate270Input(op, out) ==
    Region(op.source[0].width - out.y - out.height, out.x, out.height, out.width)

Rotate270Read(out, i, j) == <<out.height - 1 - j, i>>

-----------------------------------------------------------------------------
(* Canvases: the source at an offset, and what surrounds it.  Embed is the *)
(* one of viprs-ops-spatial (extend is Black or Edge), EmbedCanvas the one *)
(* of viprs-ops-composite (Background stands for every constant filling).  *)

EmbedInput(op, out) ==
    Region(out.x - op.at[1], out.y - op.at[2], out.width, out.height)

InSource(op, x, y) == x \in 0 .. op.source[0].width - 1 /\ y \in 0 .. op.source[0].height - 1

\* The input is asked for beyond its edges, and only masked when black.
EmbedReads(op, out, i, j) ==
    IF op.extend = "Edge" \/ InSource(op, out.x + i - op.at[1], out.y + j - op.at[2])
    THEN One(<<i, j>>)
    ELSE Fill

\* The part of out that the source covers, in the coordinates of out.
OverlapInOutput(op, out) ==
    LET left   == Greatest(out.x, op.at[1])
        top    == Greatest(out.y, op.at[2])
        right  == Least(out.x + out.width, op.at[1] + op.source[0].width)
        bottom == Least(out.y + out.height, op.at[2] + op.source[0].height)
    IN  Region(left - out.x, top - out.y, right - left, bottom - top)

Covers(overlap) == overlap.width > 0 /\ overlap.height > 0

EmbedCanvasInput(op, out) ==
    IF op.extend \in {"Repeat", "Mirror"} THEN WholeOf(op.source[0]) ELSE EmbedInput(op, out)

\* The remainder of a division is never negative, as rem_euclid.
MirrorCoord(n, limit) ==
    LET wrapped == n % (2 * limit)
    IN  IF wrapped < limit THEN wrapped ELSE 2 * limit - 1 - wrapped

\* In mode Copy the edge pixels of the overlap are repeated into the rest of
\* out, first to both sides and then up and down.
EmbedCanvasReads(op, out, i, j) ==
    LET o == OverlapInOutput(op, out)
        x == out.x + i - op.at[1]
        y == out.y + j - op.at[2]
    IN  CASE op.extend = "Background" ->
                IF i \in o.x .. o.x + o.width - 1 /\ j \in o.y .. o.y + o.height - 1
                THEN One(<<i, j>>) ELSE Fill
          [] op.extend = "Copy" ->
                One(<<Clamp(i, o.x, o.x + o.width - 1), Clamp(j, o.y, o.y + o.height - 1)>>)
          [] op.extend = "Repeat" -> One(<<x % op.source[0].width, y % op.source[0].height>>)
          [] op.extend = "Mirror" -> One(<<MirrorCoord(x, op.source[0].width),
                                         MirrorCoord(y, op.source[0].height)>>)

\* A region of the border alone is left as it was, in mode Copy.
Writes(op, out) ==
    op.kind = "EmbedCanvas" /\ op.extend = "Copy" => Covers(OverlapInOutput(op, out))

-----------------------------------------------------------------------------
(* Repetitions, which ask for the whole source.                            *)

ReplicateRead(op, out, i, j) ==
    <<(out.x + i) % op.source[0].width, (out.y + j) % op.source[0].height>>

WrapOffset(displacement, size) ==
    IF displacement < 0 THEN (-displacement) % size ELSE size - (displacement % size)

WrapRead(op, out, i, j) ==
    <<(WrapOffset(op.at[1], op.source[0].width) + out.x + i) % op.source[0].width,
      (WrapOffset(op.at[2], op.source[0].height) + out.y + j) % op.source[0].height>>

\* by: frames across, height of a frame; the source is a column of frames.
GridReads(op, out, i, j) ==
    LET frame == ((out.y + j) \div op.by[2]) * op.by[1] + (out.x + i) \div op.source[0].width
        localX == (out.x + i) % op.source[0].width
        localY == (out.y + j) % op.by[2]
    IN  IF frame >= DivCeil(op.source[0].height, op.by[2]) THEN Fill
        ELSE One(<<localX, frame * op.by[2] + localY>>)

-----------------------------------------------------------------------------
(* Changes of size by whole factors.                                       *)

\* Fault: a region that is not aligned with the factor gets no extra pixel.
ZoomInputAligned(op, out) ==
    Region(out.x \div op.by[1], out.y \div op.by[2],
           DivCeil(out.width, op.by[1]), DivCeil(out.height, op.by[2]))

\* For regions with a non-negative origin (the code casts it to unsigned).
ZoomInput(op, out) ==
    LET left == out.x \div op.by[1]
        top  == out.y \div op.by[2]
    IN  Region(left, top, (out.x + out.width - 1) \div op.by[1] - left + 1,
               (out.y + out.height - 1) \div op.by[2] - top + 1)

ZoomTile(op, w, h) ==
    Size(DivCeil(w, op.by[1]) + (IF op.by[1] > 1 THEN 1 ELSE 0),
         DivCeil(h, op.by[2]) + (IF op.by[2] > 1 THEN 1 ELSE 0))

WholeAligned(op, out) ==
    /\ out.x % op.by[1] = 0 /\ out.width % op.by[1] = 0
    /\ out.y % op.by[2] = 0 /\ out.height % op.by[2] = 0

ZoomWholeRead(op, out, in, i, j) ==
    <<out.x \div op.by[1] - in.x + i \div op.by[1], out.y \div op.by[2] - in.y + j \div op.by[2]>>

ZoomPartialRead(op, out, in, i, j) ==
    <<(out.x + i) \div op.by[1] - in.x, (out.y + j) \div op.by[2] - in.y>>

ZoomRead(op, out, in, i, j) ==
    IF WholeAligned(op, out) THEN ZoomWholeRead(op, out, in, i, j)
    ELSE ZoomPartialRead(op, out, in, i, j)

SubsampleInput(op, out) ==
    Region(out.x * op.by[1], out.y * op.by[2],
           out.width * op.by[1] - (op.by[1] - 1), out.height * op.by[2] - (op.by[2] - 1))

SubsampleTile(op, w, h) ==
    IF w = 0 \/ h = 0 THEN Size(0, 0)
    ELSE Size(w * op.by[1] - (op.by[1] - 1), h * op.by[2] - (op.by[2] - 1))

SubsampleRead(op, i, j) == <<i * op.by[1], j * op.by[2]>>

\* at[1] is the source width the operation was told, 0 when it was not.
ShrinkHInput(op, out) ==
    IF op.at[1] > 0 /\ out.x = 0 /\ out.width * op.by[1] <= op.at[1]
    THEN Region(0, out.y, op.at[1], out.height)
    ELSE Region(out.x * op.by[1], out.y, out.width * op.by[1], out.height)

ShrinkHTile(op, w, h) == Size(Greatest(w * op.by[1], op.at[1]), h)

ShrinkHReads(op, i, j) ==
    [tap \in (0 .. op.by[1] - 1) \X {0} |-> <<i * op.by[1] + tap[1], j>>]

ShrinkVInput(op, out) ==
    Region(out.x, out.y * op.by[2], out.width, out.height * op.by[2])

ShrinkVTile(op, w, h) == Size(w, h * op.by[2])

ShrinkVReads(op, i, j) ==
    [tap \in {0} \X (0 .. op.by[2] - 1) |-> <<i, j * op.by[2] + tap[2]>>]

-----------------------------------------------------------------------------
(* Neighbourhoods: by has the sides of the mask.                           *)

ConvInput(op, out) == Grow(out, op.by[1] \div 2, op.by[2] \div 2)

ConvTile(op, w, h) == Size(w + 2 * (op.by[1] \div 2), h + 2 * (op.by[2] \div 2))

ConvReads(op, i, j) ==
    [tap \in (0 .. op.by[1] - 1) \X (0 .. op.by[2] - 1) |-> <<i + tap[1], j + tap[2]>>]

-----------------------------------------------------------------------------
(* Two images on one canvas.                                               *)

\* Where the image of a slot lies on the canvas.
InsertPlacement(op, slot) == IF slot = 0 THEN <<0, 0>> ELSE op.at

JoinPlacement(op, slot) ==
    IF slot = 0 THEN <<0, 0>>
    ELSE IF op.extend = "Horizontal" THEN <<op.source[0].width, 0>>
    ELSE <<0, op.source[0].height>>

Placement(op, slot) ==
    IF op.kind = "Insert" THEN InsertPlacement(op, slot) ELSE JoinPlacement(op, slot)

\* The part of the image s at p that lies in out; no pixels when there is none.
IntersectAndTranslate(out, p, s) ==
    LET left   == Greatest(out.x, p[1])
        top    == Greatest(out.y, p[2])
        right  == Least(out.x + out.width, p[1] + s.width)
        bottom == Least(out.y + out.height, p[2] + s.height)
    IN  IF right <= left \/ bottom <= top THEN Region(0, 0, 0, 0)
        ELSE Region(left - p[1], top - p[2], right - left, bottom - top)

\* Where pixel <<i, j>> of out lies in the region in of the image at p.
PastedFrom(out, in, p, i, j) == <<i - (p[1] + in.x - out.x), j - (p[2] + in.y - out.y)>>

=============================================================================
