------------------------------ MODULE TilePlan ------------------------------
(***************************************************************************)
(* One planning step of the scheduler: from a request (TileGrid) to the    *)
(* tiles, the strips and their distribution over workers, in the order in  *)
(* which run_concurrent_cancellable computes them.                         *)
(***************************************************************************)
EXTENDS TileGrid

CONSTANTS
    Requests,   \* plan requests considered
    PoolBytes,  \* sizes of a worker's buffer pool considered
    SourceBytes \* sizes of a source considered

ASSUME RequestAssumption ==
    /\ Requests \subseteq
          [ width : Nat, height : Nat, hint : Hints, rowBytes : Nat, l2 : Nat,
            threads : Nat \ {0}, stripTiles : Nat, nodes : Nat ]
    /\ PoolBytes \subseteq Nat /\ SourceBytes \subseteq Nat

VARIABLES
    request,  \* the pipeline's output, its demand hint and the budgets
    plan      \* what was planned; the empty record before

planVars == <<request, plan>>

Init == request \in Requests /\ plan = <<>>

\* Static ranges apply only when the strips do not run on scoped threads.
MakePlan(poolBytes, sourceBytes) ==
    /\ plan = <<>>
    /\ LET g       == GeometryForExecution(request)
           tiles   == GenerateTiles(g, request)
           strips  == StripRanges(g, EffectiveStripTiles(request))
           workers == StripWorkers(request, Len(strips), poolBytes, sourceBytes)
           scoped  == UseScopedStrips(request, Len(strips), workers)
       IN  plan' = [ geometry |-> g, tiles |-> tiles, strips |-> strips,
                     workers |-> workers, scoped |-> scoped,
                     tasks |-> IF scoped THEN ScopedChunks(workers, Len(strips))
                               ELSE StaticWorkRanges(request.hint, workers, Len(strips)) ]
    /\ UNCHANGED request

Next == \E pool \in PoolBytes, source \in SourceBytes : MakePlan(pool, source)

Spec == Init /\ [][Next]_planVars

-----------------------------------------------------------------------------

Planned == plan # <<>>

\* The cells [start, start + extent) of a cut cover 0 .. length - 1 once each.
CutsOnce(cells, length) ==
    \A x \in 0 .. length - 1 :
        \E c \in cells : /\ c[1] <= x /\ x < c[1] + c[2]
                         /\ \A d \in cells \ {c} : ~(d[1] <= x /\ x < d[1] + d[2])

\* Every pixel of the image lies in exactly one tile, tiles have no empty
\* side, none reaches past the image, and an image without pixels has no
\* tiles: the disjointness that makes
\* concurrent writes to a shared buffer sound ("upheld by generate_tiles").
TilesPartitionImage ==
    Planned =>
        LET xs == { <<t.x, t.width>> : t \in { plan.tiles[i] : i \in DOMAIN plan.tiles } }
            ys == { <<t.y, t.height>> : t \in { plan.tiles[i] : i \in DOMAIN plan.tiles } }
        IN  /\ request.width = 0 \/ request.height = 0 <=> plan.tiles = <<>>
            /\ plan.tiles # <<>> => CutsOnce(xs, request.width) /\ CutsOnce(ys, request.height)
            /\ { <<<<t.x, t.width>>, <<t.y, t.height>>>> :
                    t \in { plan.tiles[i] : i \in DOMAIN plan.tiles } } = xs \X ys
            /\ \A i, j \in DOMAIN plan.tiles : plan.tiles[i] = plan.tiles[j] => i = j
            /\ \A i \in DOMAIN plan.tiles : /\ InBounds(plan.tiles[i], request.width, request.height)
                                            /\ plan.tiles[i].width > 0 /\ plan.tiles[i].height > 0

\* The tiles come in the order in which the write-behind sinks advance their
\* expected origin, and the last one ends the image: a sink that waits for
\* the next origin is always waiting for a tile that exists.
TilesFollowSinkOrder ==
    Planned /\ plan.tiles # <<>> =>
        /\ RasterChain(plan.tiles, request.width)
        /\ AfterAll(plan.tiles, request.width) = [x |-> 0, y |-> request.height]

\* A cut of 1 .. n into consecutive runs.
ConsecutiveRuns(runs, n) ==
    /\ \A k \in DOMAIN runs : runs[k][1] <= runs[k][2]
    /\ \A k \in 1 .. Len(runs) - 1 : runs[k + 1][1] = runs[k][2] + 1
    /\ runs # <<>> => runs[1][1] = 1 /\ runs[Len(runs)][2] = n
    /\ runs = <<>> => n = 0

\* No tile is in two strips or in none, and the strips keep the tile order;
\* scoped chunks and static ranges deal every strip to exactly one task.  There
\* are never more tasks than workers, nor more workers than threads or strips:
\* each range is run by a thread of its own, which is what an ordered sink
\* needs to make progress.
WorkDealtOnce ==
    Planned =>
        /\ ConsecutiveRuns(plan.strips, Len(plan.tiles))
        /\ plan.strips # <<>> => plan.workers \in 1 .. Least(request.threads, Len(plan.strips))
        /\ plan.tasks # <<>> => /\ ConsecutiveRuns(plan.tasks, Len(plan.strips))
                               /\ Len(plan.tasks) <= plan.workers

=============================================================================
