-------------------------- MODULE MCRayonScheduler --------------------------
(***************************************************************************)
(* Runs over the plans of two small images: five rows, as adaptively split *)
(* strips for two workers, as static ranges and as scoped chunks for three *)
(* workers; and 2 x 2 tiles of a SmallTile image.                          *)
(***************************************************************************)
EXTENDS RayonScheduler

Grid == INSTANCE TileGrid

Row(k) == Region(0, k, 10001, 1)

Plan(units, workers, scoped) == [units |-> units, workers |-> workers, scoped |-> scoped]

Singles == <<<<Row(0)>>, <<Row(1)>>, <<Row(2)>>, <<Row(3)>>, <<Row(4)>>>>
Pairs   == <<<<Row(0), Row(1)>>, <<Row(2), Row(3)>>, <<Row(4)>>>>
Cells   == << <<Region(0, 0, 128, 128), Region(128, 0, 1, 128)>>,
              <<Region(0, 128, 128, 2), Region(128, 128, 1, 2)>> >>

Adaptive == Plan(Singles, 2, FALSE)
Static   == Plan(Pairs, 3, FALSE)
Chunked  == Plan(Pairs, 3, TRUE)
Tiled    == Plan(Cells, 2, FALSE)

MCPlans == {Adaptive, Static, Chunked, Tiled}

-----------------------------------------------------------------------------

Request(w, h, hint, threads) ==
    [ width |-> w, height |-> h, hint |-> hint, rowBytes |-> w, l2 |-> w,
      threads |-> threads, stripTiles |-> 1, nodes |-> 1 ]

\* What run_concurrent_cancellable runs for a request with small buffers.
Planned(p) ==
    LET g       == Grid!GeometryForExecution(p)
        tiles   == Grid!GenerateTiles(g, p)
        strips  == Grid!StripRanges(g, Grid!EffectiveStripTiles(p))
        workers == Grid!StripWorkers(p, Len(strips), 1, 1)
        scoped  == Grid!UseScopedStrips(p, Len(strips), workers)
        ranges  == IF scoped THEN Grid!ScopedChunks(workers, Len(strips))
                   ELSE Grid!StaticWorkRanges(p.hint, workers, Len(strips))
        tasks   == IF ranges = <<>> THEN [k \in DOMAIN strips |-> <<k, k>>] ELSE ranges
    IN  Plan([ k \in DOMAIN tasks |->
                   SubSeq(tiles, strips[tasks[k][1]][1], strips[tasks[k][2]][2]) ],
             workers, scoped)

\* The plans above are the planner's.
ASSUME PlansOfThePlanner ==
    /\ Adaptive = Planned(Request(10001, 5, "FatStrip", 2))
    /\ Static = Planned(Request(10001, 5, "FatStrip", 3))
    /\ Chunked = Planned(Request(10001, 5, "ThinStrip", 3))
    /\ Tiled = Planned(Request(129, 130, "SmallTile", 2))

=============================================================================
