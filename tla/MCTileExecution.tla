--------------------------- MODULE MCTileExecution ---------------------------
(***************************************************************************)
(* Pipelines over a source of six rows, cut into tiles of two: chains of *)
(* up to three operations, and graphs with fan-out, joins and buffers that *)
(* are handed on.                                                          *)
(***************************************************************************)
EXTENDS TileExecution

Node(op, fmt, in) == [op |-> op, in |-> in, fmt |-> fmt, cache |-> TRUE]

Point(i)   == Node("point", "u8", <<i>>)
Widen(i)   == Node("point", "u16", <<i>>)
Halo(i)    == Node("halo", "u8", <<i>>)
Shrink(i)  == Node("shrink", "u8", <<i>>)
Sample(i)  == Node("sample", "u8", <<i>>)
Both(i, j) == Node("join", "u8", <<i, j>>)
Crop(i, off, height) ==
  [op |-> "view", in |-> <<i>>, fmt |-> "u8", cache |-> TRUE, off |-> off, height |-> height]

Kinds == {"point", "widen", "halo", "shrink", "sample", "crop"}

\* The chain of the kinds given; a crop drops its input's first and last row.
Chain(kinds) ==
  LET height[k \in 0..Len(kinds)] ==
        IF k = 0 THEN SourceHeight
        ELSE CASE kinds[k] \in {"shrink", "sample"} -> height[k - 1] \div Factor
               [] kinds[k] = "crop" -> height[k - 1] - 2
               [] OTHER -> height[k - 1]
  IN [k \in DOMAIN kinds |->
        CASE kinds[k] = "point"  -> Point(k - 1)
          [] kinds[k] = "widen"  -> Widen(k - 1)
          [] kinds[k] = "halo"   -> Halo(k - 1)
          [] kinds[k] = "shrink" -> Shrink(k - 1)
          [] kinds[k] = "sample" -> Sample(k - 1)
          [] OTHER -> Crop(k - 1, 1, height[k - 1] - 2)]

\* Point sampling keeps its shape through pixel-local operations alone; a chain
\* of crops alone has no buffer its output goes to; images are not cropped to nothing.
SoundChain(kinds) ==
  /\ \A k \in DOMAIN kinds : kinds[k] = "sample" =>
       /\ \A j \in 1..(k - 1) : kinds[j] \in {"point", "widen"}
       /\ \A j \in (k + 1)..Len(kinds) : kinds[j] # "halo"
  /\ Cardinality({k \in DOMAIN kinds : kinds[k] \in {"shrink", "sample"}}) < 2
  /\ Cardinality({k \in DOMAIN kinds : kinds[k] = "crop"}) < 2
  /\ kinds # <<>> => \E k \in DOMAIN kinds : kinds[k] # "crop"

Chains == {Chain(kinds) : kinds \in {c \in UNION {[1..n -> Kinds] : n \in 0..3} : SoundChain(c)}}

\* Graphs that are no chains; a node reads nodes added before it or after it.
Diamond      == <<Point(0), Halo(1), Point(1), Both(2, 3)>>
Twice        == <<Point(0), Both(1, 1)>>
SourceTwice  == <<Halo(0), Point(0), Both(1, 2), Halo(3)>>
TwoShapes    == <<Sample(0), Point(0), Crop(2, 1, 3), Both(1, 3)>>
HandedOn     == <<Point(0), Point(1), Point(0), Both(3, 3), Both(2, 4)>>
StillRead    == <<Point(0), Halo(1), Point(0), Both(3, 3), Both(2, 4), Both(1, 5)>>
Unordered    == <<Both(2, 3), Point(4), Halo(4), Point(0)>>
LongLived    == <<Point(0), Widen(1), Halo(2), Both(3, 1), Point(4)>>
Relay        == <<Point(0), Point(1), Point(2), Halo(3), Both(4, 1)>>
CropBranches == <<Halo(0), Crop(1, 1, 4), Point(2), Point(3), Both(3, 4), Halo(5)>>
Mixed        == <<Point(0), Widen(0), Halo(1), Halo(2), Both(3, 4), Point(5)>>
Wide         == <<Point(0), Point(0), Point(0), Both(1, 2), Both(3, 4), Both(4, 5)>>
Funnel       == <<Point(0), Halo(1), Shrink(2), Halo(3), Both(3, 4)>>

Plain(g) == [n \in DOMAIN g |-> [g[n] EXCEPT !.cache = FALSE]]

Shaped == {Diamond, Twice, SourceTwice, TwoShapes, HandedOn, StillRead, Unordered, LongLived, Relay,
           CropBranches, Mixed, Wide, Funnel}

\* A crop that a neighbourhood operation reads next to a pixel-local one: its
\* input's buffer holds more rows than the second asks for.
SharedViews == {Plain(<<Point(0), Crop(1, 1, 4), Halo(2), Point(2), Both(3, 4)>>)}

MCGraphs == Chains \cup Shaped \cup {Plain(g) : g \in Shaped}

\* The theorems on tile execution speak of all of them but those that sample points,
\* and not of shared views.
Sampled(g) == \E n \in DOMAIN g : g[n].op = "sample"

\* A node's height, from what it reads, and its scale, from a node that reads it.
HeightOf(g) ==
  LET height[n \in {0} \cup DOMAIN g] ==
        IF n = 0 THEN SourceHeight ELSE OutputHeight(g[n], height[g[n].in[1]])
  IN height

ScaleOf(g) ==
  LET ReadersOf(n) == {m \in DOMAIN g : \E s \in DOMAIN g[m].in : g[m].in[s] = n}
      scale[n \in {0} \cup DOMAIN g] ==
        IF ReadersOf(n) = {} THEN 1
        ELSE LET m == CHOOSE m \in ReadersOf(n) : TRUE
             IN (IF g[m].op = "shrink" THEN Factor ELSE 1) * scale[m]
  IN scale

ASSUME SoundAssumption ==
  /\ \A g \in MCGraphs : Sampled(g) \/ (SoundGraph(g) /\ FitTogether(g, HeightOf(g), ScaleOf(g)))
  /\ \A g \in SharedViews : ~SoundGraph(g)

=============================================================================
