--------------------------- MODULE TileExecution ---------------------------
(***************************************************************************)
(* execute_tile: one worker takes the tiles of a compiled pipeline through *)
(* its nodes.  Going back from the last node it works out what every node  *)
(* and the source must produce; the source is read, or lends its memory;   *)
(* going forward each transform reads its inputs out of the tile buffers,  *)
(* the shared tile cache or the lent memory and writes its output.  The    *)
(* worker keeps its buffers from tile to tile, and the cache is shared: an *)
(* entry can go at any moment.                                             *)
(*                                                                         *)
(* A pixel row is a term: what was applied to which rows of the source.    *)
(***************************************************************************)
EXTENDS PipelineCompile

CONSTANTS
  RunTileHeights,  \* the heights schedulers cut tiles to, at most TileHeight
  MaxTiles,        \* tiles a behaviour executes
  None

ASSUME ExecutionAssumption ==
  /\ SourceHeight \in Nat
  /\ TileHeight \in Nat
  /\ RunTileHeights \subseteq 1..TileHeight
  /\ None \notin [kind : {"rect"}, region : [y : Int, h : Nat]]

VARIABLES
  pc,              \* "idle", "single", "bare", "plan", "source", "run", "write"
  lends,           \* whether the source lends its memory (borrow_region)
  tile,            \* the region being executed
  at,              \* the node the current loop is at
  need,            \* per node, the plan its output is asked for, or None
  sourceNeed,      \* the plan the source is asked for, or None
  sparseFallback,  \* two different plans for the source were merged
  scratch,         \* per node, the region each slot reads
  sourceRegion,    \* the rows buffer 0, or the lent memory, holds
  borrowed,        \* whether they are the source's own memory
  held,            \* the cached tiles this worker holds, by node
  buffers,         \* the worker's tile buffers
  cache,           \* the shared tile cache: <<node, region>> to rows
  written,         \* the last tile handed to the sink
  tilesLeft

vars == <<compileVars, pc, lends, tile, at, need, sourceNeed, sparseFallback, scratch,
          sourceRegion, borrowed, held, buffers, cache, written, tilesLeft>>

execVars == <<need, sourceNeed, sparseFallback, scratch, sourceRegion, borrowed,
              held, buffers>>
-----------------------------------------------------------------------------
Zero == <<>>

SourceRow(y) == <<0, Max({0, Min({y, SourceHeight - 1})})>>

N == Len(nodes)

Rows(r) == 1..r.h

\* What reading the source by a plan gives: past the edges a rectangle repeats
\* the edge rows, a point grid is zero.
ReadPlan(plan) ==
  IF plan.kind = "rect"
  THEN [i \in Rows(plan.region) |-> SourceRow(plan.region.y + i - 1)]
  ELSE [i \in Rows(plan.region) |->
          LET y == plan.origin + (i - 1) * plan.step
          IN IF y \in 0..(SourceHeight - 1) THEN SourceRow(y) ELSE Zero]

Borrowable(plan) ==
  /\ lends
  /\ plan.kind = "rect"
  /\ plan.region.y >= 0
  /\ plan.region.y + plan.region.h <= SourceHeight

BoundingRegion(plan) ==
  IF plan.kind = "rect" THEN plan.region
  ELSE IF plan.region.h = 0 THEN Region(plan.origin, 0)
  ELSE Region(plan.origin, (plan.region.h - 1) * plan.step + 1)

Merged(a, b) ==
  IF a = b THEN a ELSE RectPlan(UnionRegion(BoundingRegion(a), BoundingRegion(b)))

Contains(outer, inner) ==
  inner.h = 0 \/ (outer.y <= inner.y /\ outer.y + outer.h >= inner.y + inner.h)

ValidOutput(view, r) ==
  LET top == Max({0, Min({r.y, view.height})})
  IN Region(top, Max({0, Min({r.y + r.h, view.height})}) - top)

\* dyn_process_region of the node k of the order.
Process(k, inputs, out) ==
  LET op == nodes[k].op.op
      a  == inputs[1]
  IN CASE op = "point"  -> [i \in Rows(out) |-> <<order[k], a[i]>>]
       [] op = "join"   -> [i \in Rows(out) |-> <<order[k], a[i], inputs[2][i]>>]
       [] op = "halo"   -> [i \in Rows(out) |-> <<order[k], a[i], a[i + 1], a[i + 2]>>]
       [] op = "shrink" -> [i \in Rows(out) |-> a[Factor * (i - 1) + 1]]
       [] op = "sample" -> IF Len(a) = out.h THEN a
                           ELSE [i \in Rows(out) |-> a[Factor * (i - 1) + 1]]

\* Buffer b has room for h rows of its format.
Fits(b, fmt, h) == h * FormatSize(fmt) <= sizes[b]

\* f, but g where g says something.
Over(g, f) == [x \in (DOMAIN f) \cup (DOMAIN g) |-> IF x \in DOMAIN g THEN g[x] ELSE f[x]]

With(f, key, value) == Over([x \in {key} |-> value], f)

Store(bufs, b, rows) == [bufs EXCEPT ![b] = Over(rows, @)]

PixelLocal(n) == n.op = "point"
-----------------------------------------------------------------------------
\* The rows the producer of slot s of node k left behind, as the code takes them.
ProducerRegion(k, s) ==
  LET up == nodes[k].up[s]
  IN IF up = 0 THEN sourceRegion
     ELSE IF IsView(nodes[up].op) THEN ValidOutput(nodes[up].op, scratch[k][s])
     ELSE need[up].region

ProducerRows(k, s) ==
  LET n == nodes[k]
      p == IF n.in[s] = 0 THEN 0 ELSE n.prod[s]
  IN IF p = 0 /\ borrowed THEN ReadPlan(RectPlan(sourceRegion))
     ELSE IF p # 0 /\ p \in DOMAIN held THEN held[p]
     ELSE buffers[n.in[s]]

Nested(k, s) ==
  \/ Contains(scratch[k][s], ProducerRegion(k, s))
  \/ Contains(ProducerRegion(k, s), scratch[k][s])

\* Fault: a wider region is read from its first row.
InputRowsFromTop(k, s) ==
  LET rows == ProducerRows(k, s)
  IN [i \in Rows(scratch[k][s]) |-> IF i \in DOMAIN rows THEN rows[i] ELSE Zero]

\* The slot's region cut out of, or padded around, the producer's rows.
InputRows(k, s) ==
  LET want == scratch[k][s]
      have == ProducerRegion(k, s)
      rows == ProducerRows(k, s)
  IN IF Contains(want, have)
     THEN [i \in Rows(want) |-> LET j == i + want.y - have.y
                                IN IF j \in Rows(have) THEN rows[j] ELSE Zero]
     ELSE [i \in Rows(want) |-> rows[i + want.y - have.y]]

Skipped(k) == need[k] = None \/ IsView(nodes[k].op) \/ k \in DOMAIN held

SourceNeeded == sourceNeed # None /\ sourceNeed.region.h > 0

Key(k, r) == <<k, r>>

SingleHit == nodes[1].cached /\ Key(1, tile) \in DOMAIN cache

\* The producer's rows are as many as its region has.
SlotFits(k, s) ==
  LET n == nodes[k]
      h == ProducerRegion(k, s).h
      p == IF n.in[s] = 0 THEN 0 ELSE n.prod[s]
  IN IF (p = 0 /\ borrowed) \/ (p # 0 /\ p \in DOMAIN held)
     THEN h <= Len(ProducerRows(k, s))
     ELSE Fits(n.in[s], IF p = 0 THEN "u8" ELSE nodes[p].op.fmt, h)

\* Room for r in the buffer of node k, when that is where its output goes.
OutputFits(k, r) == ~nodes[k].cached => Fits(nodes[k].out, nodes[k].op.fmt, r.h)

\* pipeline_output_slice and source_only_output_slice.
OutputRows ==
  IF N = 0 THEN IF borrowed THEN ReadPlan(RectPlan(sourceRegion)) ELSE buffers[0]
  ELSE IF N \in DOMAIN held THEN held[N]
  ELSE buffers[nodes[N].out]

\* Every slice the next step takes lies inside what it is taken from; one that
\* does not is a panic, and no step of the tile.
SlicesFit ==
  CASE pc = "bare"   -> Fits(0, "u8", tile.h)
    [] pc = "single" -> ~SingleHit =>
                          /\ Fits(0, "u8", SourceReadPlan(nodes[1].op, tile).region.h)
                          /\ OutputFits(1, tile)
    [] pc = "source" -> SourceNeeded => Fits(0, "u8", sourceNeed.region.h)
    [] pc = "run" /\ at <= N -> ~Skipped(at) =>
                          /\ \A s \in DOMAIN nodes[at].in : SlotFits(at, s) /\ Nested(at, s)
                          /\ OutputFits(at, need[at].region)
    [] pc = "write"  -> tile.h <= Len(OutputRows)
    [] OTHER -> TRUE
-----------------------------------------------------------------------------
ExecInit ==
  /\ Init
  /\ pc = "idle"
  /\ lends \in BOOLEAN
  /\ tile = Region(0, 0)
  /\ at = 0
  /\ need = <<>>
  /\ sourceNeed = None
  /\ sparseFallback = FALSE
  /\ scratch = <<>>
  /\ sourceRegion = Region(0, 0)
  /\ borrowed = FALSE
  /\ held = <<>>
  /\ buffers = <<>>
  /\ cache = <<>>
  /\ written = None
  /\ tilesLeft = MaxTiles

Compile ==
  /\ CompileNext
  /\ UNCHANGED <<pc, lends, tile, at, execVars, cache, written, tilesLeft>>

\* ThreadBufferPool::new: the buffers are filled with zeros to their size.
NewPool ==
  /\ phase = "compiled"
  /\ buffers = <<>>
  /\ buffers' = [b \in DOMAIN sizes |-> [i \in 1..sizes[b] |-> Zero]]
  /\ need' = [k \in 1..N |-> None]
  /\ scratch' = [k \in 1..N |-> <<>>]
  /\ UNCHANGED <<compileVars, lends, pc, tile, at, sourceNeed, sparseFallback, sourceRegion,
                 borrowed, held, cache, written, tilesLeft>>

\* One transform that reads the source alone has a path of its own.
SinglePath ==
  /\ N = 1
  /\ ~IsView(nodes[1].op)
  /\ Len(nodes[1].in) = 1

\* Fault: what the last tile held stays.
HeldFromBefore == held

\* cached_tiles.fill(None)
NothingHeld == <<>>

BeginTile ==
  /\ pc = "idle"
  /\ buffers # <<>>
  /\ tilesLeft > 0
  /\ tile' \in UNION {TilesOf(PipelineHeight, h) : h \in RunTileHeights}
  /\ tilesLeft' = tilesLeft - 1
  /\ written' = None
  /\ at' = N
  /\ \/ /\ N = 0
        /\ pc' = "bare"
        /\ UNCHANGED execVars
     \/ /\ SinglePath
        /\ pc' = "single"
        /\ UNCHANGED execVars
     \/ /\ N > 0 /\ ~SinglePath
        /\ pc' = "plan"
        /\ need' = [k \in 1..N |-> IF k = N THEN RectPlan(tile') ELSE None]
        /\ scratch' = [k \in 1..N |-> [s \in DOMAIN nodes[k].in |-> Region(0, 0)]]
        /\ sourceNeed' = None
        /\ sparseFallback' = FALSE
        /\ sourceRegion' = Region(0, 0)
        /\ borrowed' = FALSE
        /\ held' = NothingHeld
        /\ UNCHANGED buffers
  /\ UNCHANGED <<compileVars, lends, cache>>

\* The source's rows for a plan, lent or read into buffer 0.
Fetch(plan) ==
  IF Borrowable(plan)
  THEN /\ borrowed' = TRUE
       /\ UNCHANGED buffers
  ELSE /\ borrowed' = FALSE
       /\ buffers' = Store(buffers, 0, ReadPlan(plan))

\* A pipeline without nodes.
ReadBare ==
  /\ pc = "bare"
  /\ SlicesFit
  /\ Fetch(RectPlan(tile))
  /\ sourceRegion' = IF Borrowable(RectPlan(tile)) THEN tile ELSE sourceRegion
  /\ pc' = "write"
  /\ UNCHANGED <<need, sourceNeed, sparseFallback, scratch, held>>
  /\ UNCHANGED <<compileVars, lends, tile, at, cache, written, tilesLeft>>

Inserted(k, r, rows) == IF Key(k, r) \in DOMAIN cache THEN cache ELSE With(cache, Key(k, r), rows)

\* The output of node k goes to the cache and is held, or to its buffer.
Produce(bufs, k, r, rows) ==
  \/ /\ nodes[k].cached
     /\ cache' = Inserted(k, r, rows)
     /\ held' = With(held, k, rows)
     /\ buffers' = bufs
  \/ /\ ~nodes[k].cached
     /\ buffers' = Store(bufs, nodes[k].out, rows)
     /\ UNCHANGED <<cache, held>>

RunSingle ==
  /\ pc = "single"
  /\ SlicesFit
  /\ LET plan  == SourceReadPlan(nodes[1].op, tile)
         rows  == Process(1, <<ReadPlan(plan)>>, tile)
         first == IF Borrowable(plan) THEN buffers ELSE Store(buffers, 0, ReadPlan(plan))
     IN \/ /\ SingleHit
           /\ held' = With(held, 1, cache[Key(1, tile)])
           /\ UNCHANGED <<cache, buffers>>
        \/ /\ ~SingleHit
           /\ Produce(first, 1, tile, rows)
  /\ pc' = "write"
  /\ UNCHANGED <<compileVars, lends, tile, at, need, sourceNeed, sparseFallback, scratch,
                 sourceRegion, borrowed, written, tilesLeft>>
-----------------------------------------------------------------------------
\* Demand of a plan on what slot s of node k reads, added to the demand d.
Propagate(d, k, s, plan) ==
  LET up == nodes[k].up[s]
      old == IF up = 0 THEN d.source ELSE d.need[up]
      new == IF old = None THEN plan ELSE Merged(old, plan)
  IN IF up # 0 THEN [d EXCEPT !.need[up] = new]
     ELSE IF nodes[k].in[s] # 0 THEN d
     ELSE [d EXCEPT !.source = new, !.sparse = @ \/ (old # None /\ old # plan)]

\* What slot s of node k asks for; only a point grid keeps its shape past a node.
SlotPlan(k, s) ==
  IF Len(nodes[k].in) = 1 /\ PixelLocal(nodes[k].op) THEN need[k]
  ELSE SourceReadPlan(nodes[k].op, need[k].region)

SlotDemand(k, s) ==
  IF nodes[k].up[s] = 0 \/ SlotPlan(k, s).kind = "grid" THEN SlotPlan(k, s)
  ELSE RectPlan(SlotPlan(k, s).region)

DemandOf(k) ==
  LET demand[s \in 0..Len(nodes[k].in)] ==
        IF s = 0 THEN [need |-> need, source |-> sourceNeed, sparse |-> sparseFallback]
        ELSE Propagate(demand[s - 1], k, s, SlotDemand(k, s))
  IN demand[Len(nodes[k].in)]

ViewDemand(k) ==
  Propagate([need |-> need, source |-> sourceNeed, sparse |-> sparseFallback], k, 1,
            RectPlan(RequiredRegion(nodes[k].op, ValidOutput(nodes[k].op, need[k].region))))

Demand(d) ==
  /\ need' = d.need
  /\ sourceNeed' = d.source
  /\ sparseFallback' = d.sparse

\* One turn of the loop that goes back over the nodes.
PlanNode ==
  /\ pc = "plan" /\ at > 0
  /\ \/ /\ need[at] = None
        /\ UNCHANGED execVars
     \/ /\ need[at] # None /\ IsView(nodes[at].op)
        /\ Demand(ViewDemand(at))
        /\ UNCHANGED <<scratch, sourceRegion, borrowed, held, buffers>>
     \/ /\ need[at] # None /\ nodes[at].cached
        /\ Key(at, need[at].region) \in DOMAIN cache
        /\ held' = With(held, at, cache[Key(at, need[at].region)])
        /\ UNCHANGED <<need, sourceNeed, sparseFallback, scratch, sourceRegion, borrowed, buffers>>
     \/ /\ need[at] # None /\ ~IsView(nodes[at].op)
        /\ ~(nodes[at].cached /\ Key(at, need[at].region) \in DOMAIN cache)
        /\ scratch' = [scratch EXCEPT ![at] =
                         [s \in DOMAIN nodes[at].in |-> SlotPlan(at, s).region]]
        /\ Demand(DemandOf(at))
        /\ UNCHANGED <<sourceRegion, borrowed, held, buffers>>
  /\ at' = at - 1
  /\ UNCHANGED <<compileVars, lends, pc, tile, cache, written, tilesLeft>>

\* Two plans for the source became one rectangle: every direct reader of it now
\* reads the rectangle that covers its points.
FallBack ==
  /\ pc = "plan" /\ at = 0
  /\ scratch' = IF ~sparseFallback THEN scratch
                ELSE [k \in 1..N |->
                        [s \in DOMAIN scratch[k] |->
                           IF ~IsView(nodes[k].op) /\ need[k] # None /\ nodes[k].in[s] = 0
                           THEN BoundingRegion(SourceReadPlan(nodes[k].op, need[k].region))
                           ELSE scratch[k][s]]]
  /\ pc' = "source"
  /\ UNCHANGED <<compileVars, lends, tile, at, need, sourceNeed, sparseFallback, sourceRegion,
                 borrowed, held, buffers, cache, written, tilesLeft>>

ReadSource ==
  /\ pc = "source"
  /\ SlicesFit
  /\ \/ /\ ~SourceNeeded
        /\ UNCHANGED <<sourceRegion, borrowed, buffers>>
     \/ /\ SourceNeeded
        /\ Fetch(sourceNeed)
        /\ sourceRegion' = sourceNeed.region
  /\ at' = 1
  /\ pc' = "run"
  /\ UNCHANGED <<compileVars, lends, tile, need, sourceNeed, sparseFallback, scratch, held,
                 cache, written, tilesLeft>>
-----------------------------------------------------------------------------
RunNode ==
  /\ pc = "run" /\ at <= N
  /\ SlicesFit
  /\ \/ /\ Skipped(at)
        /\ UNCHANGED <<held, buffers, cache>>
     \/ /\ ~Skipped(at)
        /\ Produce(buffers, at, need[at].region,
                   Process(at, [s \in DOMAIN nodes[at].in |-> InputRows(at, s)],
                           need[at].region))
  /\ at' = at + 1
  /\ UNCHANGED <<compileVars, lends, pc, tile, need, sourceNeed, sparseFallback, scratch,
                 sourceRegion, borrowed, written, tilesLeft>>

Finished ==
  /\ pc = "run" /\ at > N
  /\ pc' = "write"
  /\ UNCHANGED <<compileVars, lends, tile, at, execVars, cache, written, tilesLeft>>

WriteTile ==
  /\ pc = "write"
  /\ SlicesFit
  /\ written' = [region |-> tile, rows |-> [i \in Rows(tile) |-> OutputRows[i]]]
  /\ pc' = "idle"
  /\ UNCHANGED <<compileVars, lends, tile, at, execVars, cache, tilesLeft>>

\* Another worker's insertion, or clear_tile_cache, takes an entry away: at any
\* moment, which matters only before the cache is looked up.
Evict ==
  /\ pc \in {"idle", "single", "plan"}
  /\ \E e \in DOMAIN cache :
       cache' = [f \in (DOMAIN cache) \ {e} |-> cache[f]]
  /\ UNCHANGED <<compileVars, lends, pc, tile, at, execVars, written, tilesLeft>>

Done == pc = "idle" /\ tilesLeft = 0 /\ UNCHANGED vars

Next ==
  \/ Compile \/ NewPool \/ BeginTile \/ ReadBare \/ RunSingle \/ PlanNode \/ FallBack
  \/ ReadSource \/ RunNode \/ Finished \/ WriteTile \/ Evict \/ Done

Spec == ExecInit /\ [][Next]_vars
-----------------------------------------------------------------------------
\* What row y of the output of node n of the graph is, whatever the order, the
\* buffers, the tiles and the cache.  A view has no rows outside its own, and a
\* point-sampled source none outside the source.
ImageRows(g) ==
  LET row[n \in {0} \cup DOMAIN g] ==
        [y \in Int |->
          IF n = 0 THEN SourceRow(y)
          ELSE LET In(d) == row[g[n].in[1]][d]
               IN CASE g[n].op = "point"  -> <<n, In(y)>>
                    [] g[n].op = "join"   -> <<n, In(y), row[g[n].in[2]][y]>>
                    [] g[n].op = "halo"   -> <<n, In(y - 1), In(y), In(y + 1)>>
                    [] g[n].op = "view"   -> IF y \in 0..(g[n].height - 1) THEN In(y + g[n].off)
                                             ELSE Zero
                    [] OTHER              -> In(Factor * y)]
  IN row

RowOf == ImageRows(graph)

RowsOf(n, r) == [i \in Rows(r) |-> RowOf[n][r.y + i - 1]]

\* The node of the graph the pipeline's output is; 0 for a pipeline without nodes.
LastNode == IF order = <<>> THEN 0 ELSE order[Len(order)]

\* A tile handed to the sink holds the rows of the image the graph stands for,
\* whichever tiles, cache hits and evictions came before (execute_tile,
\* pipeline_output_slice).
TilesCorrect ==
  written # None => written.rows = RowsOf(LastNode, written.region)

\* No slice of a tile buffer, of a cached tile or of lent memory is longer than
\* what it is taken from, and the rows a node asks for and those its producer
\* left are nested, as the assertion in execute_tile says: the sizes compile
\* gives the buffers cover every tile's plan.
SlicesInBounds == SlicesFit

\* An entry of the shared tile cache holds the rows of the node and the region it
\* is filed under: a worker that finds it need not know who made it (TileCache::get).
CacheSound ==
  \A e \in DOMAIN cache : cache[e] = RowsOf(order[e[1]], e[2])
-----------------------------------------------------------------------------
\* Views that nothing else can disturb: a view is read once at most and alone reads
\* what it reads; a view of a view lies inside it; and the output is no view of the
\* source or of a cached node.
SoundView(g, n) ==
  LET Readers(v) == {r \in (DOMAIN g) \X (1..2) : /\ r[2] \in DOMAIN g[r[1]].in
                                                 /\ g[r[1]].in[r[2]] = v}
      u == g[n].in[1]
  IN /\ g[n].off \in Nat /\ g[n].height \in Nat
     /\ Readers(u) = {<<n, 1>>}
     /\ u # 0 /\ IsView(g[u]) => g[n].off + g[n].height <= g[u].height
     /\ \/ \E r \in Readers(n) : Readers(n) = {r}
        \/ Readers(n) = {} /\ u # 0 /\ ~IsView(g[u]) /\ ~(g[u].op = "join" /\ g[u].cache)

\* Graphs without point sampling whose views are sound.
SoundGraph(g) ==
  \A n \in DOMAIN g :
    /\ g[n].op \in {"point", "join", "halo", "shrink", "view"}
    /\ DOMAIN g[n].in = IF g[n].op = "join" THEN {1, 2} ELSE {1}
    /\ IsView(g[n]) => SoundView(g, n)

\* Heights and scales of the nodes that fit together: each node is as high as its
\* operation makes what it reads, one row of the output is made from scale[n] rows of
\* node n, a view lies inside what it reads, and all that is computed is used.
FitTogether(g, height, scale) ==
  /\ height[0] = SourceHeight
  /\ \A n \in DOMAIN g : \A s \in DOMAIN g[n].in :
       LET u == g[n].in[s]
       IN /\ height[n] = OutputHeight(g[n], height[u])
          /\ scale[u] = IF g[n].op = "shrink" THEN Factor * scale[n] ELSE scale[n]
          /\ IsView(g[n]) => g[n].off + g[n].height <= height[u]
  /\ g # <<>> => \E end \in DOMAIN g :
       /\ scale[end] = 1
       /\ \A n \in (DOMAIN g) \ {end} : \E m \in DOMAIN g : \E s \in DOMAIN g[m].in : g[m].in[s] = n

SizedGraph(g) ==
  \E height, scale \in [{0} \cup DOMAIN g -> Nat] : FitTogether(g, height, scale)
=============================================================================
