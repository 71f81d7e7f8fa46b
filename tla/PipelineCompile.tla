-------------------------- MODULE PipelineCompile --------------------------
(***************************************************************************)
(* PipelineArena::compile: a graph of operations becomes a sequence of     *)
(* compiled nodes that share tile buffers.  reorder_dag picks the order,   *)
(* one ready node at a time; a scan over that order finds the node that    *)
(* owns each buffer; each node is then given an output buffer, a freed one *)
(* when a fitting one exists; last, the buffers are sized for a tile.      *)
(*                                                                         *)
(* A region is a range of whole rows: a first row and a height.  A node is *)
(*   [op, in, fmt, cache]      a transform of the kind op                  *)
(*   [op |-> "view", in, fmt, cache, off, height]     an ExtractArea       *)
(* where in[s] is the node slot s reads, and 0 is the source.              *)
(***************************************************************************)
EXTENDS Integers, Sequences, FiniteSets, FiniteSetsExt

CONSTANTS
  Graphs,        \* the graphs a caller may build
  SourceHeight,
  TileHeight      \* the tile height the demand hint gives

\* A graph is a sequence of nodes; a slot reads the source or a node of the graph.
ASSUME GraphsAssumption ==
  \A g \in Graphs :
    /\ DOMAIN g = 1..Len(g)
    /\ Len(g) \in Nat
    /\ \A n \in DOMAIN g :
         /\ DOMAIN g[n].in \in SUBSET (1..2)
         /\ \A s \in DOMAIN g[n].in : g[n].in[s] \in {0} \cup DOMAIN g
         /\ g[n].op = "view" => DOMAIN g[n].in = {1}

VARIABLES
  graph,         \* the nodes in the order they were added
  phase,         \* "order", "owners", "buffers", "sizes", "compiled"
  order,         \* the nodes emitted by reorder_dag
  waiting,       \* per node, the reads of it by nodes not emitted yet
  live,          \* live tiles, as reorder_dag counts them
  scanned,       \* how far the scan for owners is
  owner,         \* per node, the transform whose buffer its output is in (0: the source's)
  pending,       \* per owner, the reads of its buffer by nodes not compiled yet
  nodes,         \* the compiled nodes
  outBuf,        \* per compiled transform or view (a node of the graph), its buffer
  free,          \* buffers whose last reader is compiled, with their format
  maxBuf,        \* the last buffer given out; 0 is the source's
  sizes          \* bytes per buffer

compileVars == <<graph, phase, order, waiting, live, scanned, owner, pending, nodes,
                 outBuf, free, maxBuf, sizes>>
-----------------------------------------------------------------------------
Region(y, h) == [y |-> y, h |-> h]

UnionRegion(a, b) ==
  IF a.h = 0 THEN b
  ELSE IF b.h = 0 THEN a
  ELSE LET left  == Min({a.y, b.y})
           right == Max({a.y + a.h, b.y + b.h})
       IN Region(left, right - left)

RectPlan(r) == [kind |-> "rect", region |-> r]

GridPlan(r, origin, step) ==
  [kind |-> "grid", region |-> r, origin |-> origin, step |-> step]

\* The factor of both subsampling operations.
Factor == 2

FormatSize(fmt) == IF fmt = "u8" THEN 1 ELSE 2

IsView(n) == n.op = "view"

\* The region of its input an operation needs for a region of its output.
RequiredRegion(n, r) ==
  CASE n.op = "halo"   -> Region(r.y - 1, r.h + 2)
    [] n.op = "shrink" -> Region(Factor * r.y,
                                 IF r.h = 0 THEN 0 ELSE Factor * r.h - (Factor - 1))
    [] n.op = "sample" -> Region(Factor * r.y, r.h)
    [] n.op = "view"   -> Region(r.y + n.off, r.h)
    [] OTHER           -> r

\* How it wants the region read: point sampling asks for its pixels alone,
\* packed into a region named like its output.
SourceReadPlan(n, r) ==
  IF n.op = "sample" THEN GridPlan(r, Factor * r.y, Factor)
  ELSE RectPlan(RequiredRegion(n, r))

OutputHeight(n, h) ==
  CASE n.op \in {"shrink", "sample"} -> h \div Factor
    [] n.op = "view" -> n.height
    [] OTHER -> h

\* NodeSpec::input_tile_w for a tile of height t.
InputTileHeight(n, t) ==
  CASE n.op = "halo" -> t + 2
    [] n.op \in {"shrink", "sample"} -> IF t = 0 THEN 0 ELSE Factor * t - (Factor - 1)
    [] OTHER -> t
-----------------------------------------------------------------------------
GraphNodes == DOMAIN graph

\* Slot s of node v reads a node of the graph.
Reads(g) == {r \in (DOMAIN g) \X (1..2) : r[2] \in DOMAIN g[r[1]].in /\ g[r[1]].in[r[2]] # 0}

Upstream(r) == graph[r[1]].in[r[2]]

ReadsOf(g, u) == {r \in Reads(g) : g[r[1]].in[r[2]] = u}

ReadsBy(n) == {r \in Reads(graph) : r[1] = n}

Emitted == {order[k] : k \in DOMAIN order}

Ready == {n \in GraphNodes \ Emitted : \A r \in ReadsBy(n) : Upstream(r) \in Emitted}

\* descendant_counts: every path to a descendant counts.
DescendantCount ==
  LET count[n \in GraphNodes] ==
        MapThenSumSet(LAMBDA r : 1 + count[r[1]], ReadsOf(graph, n))
  IN count

LiveAfter(n) ==
  LET released == {u \in GraphNodes : /\ ~IsView(graph[u])
                                      /\ waiting[u] # {}
                                      /\ waiting[u] \subseteq ReadsBy(n)}
  IN live - Cardinality(released) + (IF IsView(graph[n]) THEN 0 ELSE 1)

\* Live tiles if n runs next: a tile two slots of n read is not counted as released.
PredictedLive(n) ==
  LET released == {u \in GraphNodes : /\ ~IsView(graph[u])
                                      /\ Cardinality(waiting[u]) = 1
                                      /\ waiting[u] \subseteq ReadsBy(n)}
  IN live - Cardinality(released) + (IF IsView(graph[n]) THEN 0 ELSE 1)

CandidateScore(n) ==
  <<PredictedLive(n), DescendantCount[n], Cardinality(ReadsOf(graph, n)), n>>

Lower(a, b) == \E k \in DOMAIN a : /\ a[k] < b[k]
                                   /\ \A j \in 1..(k - 1) : a[j] = b[j]

Init ==
  /\ graph \in Graphs
  /\ phase = IF graph = <<>> THEN "buffers" ELSE "order"
  /\ order = <<>>
  /\ waiting = [u \in DOMAIN graph |-> ReadsOf(graph, u)]
  /\ live = 0
  /\ scanned = 0
  /\ owner = [n \in DOMAIN graph |-> 0]
  /\ pending = [n \in DOMAIN graph |-> {}]
  /\ nodes = <<>>
  /\ outBuf = [n \in DOMAIN graph |-> 0]
  /\ free = {}
  /\ maxBuf = 0
  /\ sizes = [b \in {0} |-> 0]

\* One turn of reorder_dag's loop.
Emit ==
  /\ phase = "order"
  /\ \E n \in Ready :
       /\ \A m \in Ready \ {n} : Lower(CandidateScore(n), CandidateScore(m))
       /\ order' = Append(order, n)
       /\ live' = LiveAfter(n)
       /\ waiting' = [u \in GraphNodes |-> waiting[u] \ ReadsBy(n)]
       /\ phase' = IF Emitted \cup {n} = GraphNodes THEN "owners" ELSE "order"
  /\ UNCHANGED <<graph, scanned, owner, pending, nodes, outBuf, free, maxBuf, sizes>>

\* The output height: the nodes' height rules applied in order, as if they were a chain.
PipelineHeight ==
  LET height[k \in 0..Len(order)] ==
        IF k = 0 THEN SourceHeight ELSE OutputHeight(graph[order[k]], height[k - 1])
  IN height[Len(order)]

Tile == IF PipelineHeight = 0 THEN 0 ELSE TileHeight

\* connect_to_slot refuses an edge whose formats differ; a slot reads its node's format.
InputFormat(n, s) == IF graph[n].in[s] = 0 THEN "u8" ELSE graph[graph[n].in[s]].fmt

\* Who owns the buffer slot s of node n reads; 0 when it is the source's.
OwnerRead(n, s) == IF graph[n].in[s] = 0 THEN 0 ELSE owner[graph[n].in[s]]

\* The scan over the order: buffer_owner_orig and remaining_buffer_consumers.
FindOwner ==
  /\ phase = "owners"
  /\ LET n == order[scanned + 1] IN
     /\ owner' = [owner EXCEPT ![n] = IF IsView(graph[n]) THEN OwnerRead(n, 1) ELSE n]
     /\ pending' = [o \in GraphNodes |->
                      pending[o] \cup {r \in ReadsBy(n) : /\ ~IsView(graph[n])
                                                          /\ OwnerRead(n, r[2]) = o}]
  /\ scanned' = scanned + 1
  /\ phase' = IF scanned + 1 = Len(order) THEN "buffers" ELSE "owners"
  /\ UNCHANGED <<graph, order, waiting, live, nodes, outBuf, free, maxBuf, sizes>>
-----------------------------------------------------------------------------
Grown(f, b) == [c \in (DOMAIN f) \cup {b} |-> IF c \in DOMAIN f THEN f[c] ELSE 0]

\* The compiled index of a node of the graph; 0 for the source.
CompiledIndex(n) == IF n = 0 THEN 0 ELSE CHOOSE k \in DOMAIN order : order[k] = n

InputBuffer(n, s) == IF graph[n].in[s] = 0 THEN 0 ELSE outBuf[graph[n].in[s]]

CacheEnabled(n) ==
  /\ graph[n].cache
  /\ \/ Cardinality(ReadsOf(graph, n)) # 1
     \/ Cardinality(ReadsBy(n)) > 1

CompiledNode(n, buf) ==
  [op     |-> graph[n],
   in     |-> [s \in DOMAIN graph[n].in |-> InputBuffer(n, s)],
   up     |-> [s \in DOMAIN graph[n].in |-> CompiledIndex(graph[n].in[s])],
   prod   |-> [s \in DOMAIN graph[n].in |-> CompiledIndex(OwnerRead(n, s))],
   out    |-> buf,
   cached |-> ~IsView(graph[n]) /\ CacheEnabled(n)]

\* n is the next node of the order to compile.
IsNext(n) == Len(nodes) < Len(order) /\ n = order[Len(nodes) + 1]

\* A view writes nothing: its buffer is the one it reads.
CompileView ==
  /\ phase = "buffers"
  /\ \E n \in GraphNodes :
       /\ IsNext(n)
       /\ IsView(graph[n])
       /\ nodes' = Append(nodes, CompiledNode(n, InputBuffer(n, 1)))
       /\ outBuf' = [outBuf EXCEPT ![n] = InputBuffer(n, 1)]
  /\ UNCHANGED <<graph, phase, order, waiting, live, scanned, owner, pending, free,
                 maxBuf, sizes>>

\* Fault: any freed buffer of the format will do.
FittingBelowInputs(n) == {f[1] : f \in {f \in free : f[2] = graph[n].fmt}}

\* Freed buffers a transform may write: above all it reads, and of its format.
Fitting(n) ==
  {f[1] : f \in {f \in free : /\ f[2] = graph[n].fmt
                              /\ \A s \in DOMAIN graph[n].in : f[1] > InputBuffer(n, s)}}

\* Fault: the first reader gives the buffer back.
ReleasedAtFirstRead(n) == {o \in GraphNodes : pending[o] \cap ReadsBy(n) # {}}

\* The owners whose last reader n is.
Released(n) == {o \in GraphNodes : pending[o] # {} /\ pending[o] \subseteq ReadsBy(n)}

CompileTransform ==
  /\ phase = "buffers"
  /\ \E n \in GraphNodes, buf \in 1..(maxBuf + 1) :
       /\ IsNext(n)
       /\ ~IsView(graph[n])
       /\ IF Fitting(n) = {} THEN buf = maxBuf + 1
          ELSE buf \in Fitting(n) /\ \A b \in Fitting(n) : buf <= b
       /\ maxBuf' = IF buf > maxBuf THEN buf ELSE maxBuf
       /\ LET spec   == InputTileHeight(graph[n], Tile)
              needed == [s \in DOMAIN graph[n].in |-> spec * FormatSize(InputFormat(n, s))]
              sized  == [b \in DOMAIN sizes |->
                           Max({sizes[b]} \cup
                               {needed[s] : s \in {s \in DOMAIN needed : InputBuffer(n, s) = b}})]
          IN sizes' = [Grown(sized, buf) EXCEPT ![buf] = Tile * FormatSize(graph[n].fmt)]
       /\ nodes' = Append(nodes, CompiledNode(n, buf))
       /\ outBuf' = [outBuf EXCEPT ![n] = buf]
       /\ free' = (free \ {<<buf, graph[n].fmt>>})
                  \cup {<<outBuf[o], graph[o].fmt>> : o \in Released(n)}
       /\ pending' = [o \in GraphNodes |-> pending[o] \ ReadsBy(n)]
  /\ UNCHANGED <<graph, phase, order, waiting, live, scanned, owner>>
-----------------------------------------------------------------------------
\* What one tile asks of every buffer, going back from the last buffer, the output's.
TileRegions(r) ==
  LET N == Len(nodes)
      back[k \in 1..(N + 1)] ==
        IF k = N + 1
        THEN [b \in 0..maxBuf |-> IF b = maxBuf THEN r ELSE Region(0, 0)]
        ELSE LET n    == nodes[k]
                 out  == back[k + 1][n.out]
                 Need(s) == IF n.in[s] = 0 /\ n.up[s] = 0
                            THEN SourceReadPlan(n.op, out).region
                            ELSE RequiredRegion(n.op, out)
                 Join(b) == LET T == {s \in DOMAIN n.in : n.in[s] = b}
                            IN IF T = {} THEN back[k + 1][b]
                               ELSE UnionRegion(back[k + 1][b], Need(Min(T)))
             IN IF out.h = 0 THEN back[k + 1] ELSE [b \in 0..maxBuf |-> Join(b)]
  IN back[1]

TilesOf(height, tile) ==
  IF height = 0 \/ tile = 0 THEN {}
  ELSE {Region(y, Min({tile, height - y})) : y \in {r * tile : r \in 0..((height - 1) \div tile)}}

\* source_region_for_scheduler_tile: the nodes as one chain.
ChainSourceRegion ==
  LET back[k \in 1..(Len(nodes) + 1)] ==
        IF k = Len(nodes) + 1 THEN Region(0, Tile)
        ELSE RequiredRegion(nodes[k].op, back[k + 1])
  IN back[1]

\* Fault: the sizes the nodes' own specs give are taken to be enough.
SizeBuffersFromSpecs ==
  /\ phase = "buffers"
  /\ Len(nodes) = Len(order)
  /\ sizes' = [sizes EXCEPT ![0] = Max({@, Tile, ChainSourceRegion.h})]
  /\ phase' = "compiled"
  /\ UNCHANGED <<graph, order, waiting, live, scanned, owner, pending, nodes, outBuf, free, maxBuf>>

SizeBuffers ==
  /\ phase = "buffers"
  /\ Len(nodes) = Len(order)
  /\ LET regions(b)  == {TileRegions(r)[b].h : r \in TilesOf(PipelineHeight, Tile)}
         fmt(b)      == IF b = 0 THEN "u8"
                        ELSE graph[order[Max({k \in DOMAIN nodes :
                                                ~IsView(nodes[k].op) /\ nodes[k].out = b})]].fmt
         base(b)     == IF b = 0 THEN Max({sizes[0], Tile, ChainSourceRegion.h}) ELSE sizes[b]
     IN sizes' = [b \in DOMAIN sizes |->
                    Max({base(b)} \cup {h * FormatSize(fmt(b)) : h \in regions(b)})]
  /\ phase' = "compiled"
  /\ UNCHANGED <<graph, order, waiting, live, scanned, owner, pending, nodes, outBuf, free, maxBuf>>

CompileNext == Emit \/ FindOwner \/ CompileView \/ CompileTransform \/ SizeBuffers

CompileSpec == Init /\ [][CompileNext]_compileVars
-----------------------------------------------------------------------------
IsTransform(k) == ~IsView(nodes[k].op)

\* The rows a transform left in a buffer are there until its last reader has run:
\* no other transform between the two is given that buffer, although buffers are
\* handed on as soon as their last reader is compiled (PipelineArena::compile).
BuffersHandedOnAfterLastRead ==
  \A k \in DOMAIN nodes : \A s \in DOMAIN nodes[k].in :
    IsTransform(k) /\ nodes[k].prod[s] # 0 =>
      /\ nodes[k].prod[s] < k
      /\ nodes[nodes[k].prod[s]].out = nodes[k].in[s]
      /\ \A m \in (nodes[k].prod[s] + 1)..k :
           IsTransform(m) => nodes[m].out # nodes[k].in[s]

\* "Split-borrow invariant": every buffer a transform reads lies below the one it
\* writes, however often buffers were freed and taken again (execute_tile relies
\* on it for split_at_mut).
InputsBelowOutput ==
  \A k \in DOMAIN nodes : \A s \in DOMAIN nodes[k].in :
    IsTransform(k) => nodes[k].in[s] < nodes[k].out
=============================================================================
