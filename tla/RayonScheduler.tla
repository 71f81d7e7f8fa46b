--------------------------- MODULE RayonScheduler ---------------------------
(***************************************************************************)
(* One run of RayonScheduler::run_concurrent_cancellable (viprs-runtime,   *)
(* scheduler/rayon_scheduler/runtime.rs) once the image is planned.        *)
(*                                                                         *)
(* The run has two shapes.  Scoped: the units are dealt to threads of      *)
(* their own, one each (run_scoped_strips).  Otherwise the units go        *)
(* through par_iter().try_for_each on the worker pool.  Of rayon, which is *)
(* not part of the repository, the model has what the runs rely on: a leaf *)
(* of consecutive units may be split in two halves, the right half going   *)
(* to the bottom of the worker's deque; a worker takes its own halves back *)
(* youngest first and, when it has none, the oldest half of another        *)
(* worker; an error raises a flag that leaves and folds look at, a panic   *)
(* does not; the run returns when every half is done or dropped.           *)
(*                                                                         *)
(* The sink is a call that returns (SinkOk, SinkErr): FileSinkRun puts a   *)
(* real one there.                                                         *)
(***************************************************************************)
EXTENDS RasterOrder, FiniteSets

CONSTANTS
    NumWorkers,   \* threads of the pool, or scoped threads
    Plans,        \* what the planner may have come up with (see plan)
    TileSteps,    \* what executing a tile may do: a subset of TileOutcomes
    SinkSteps,    \* what the sink may answer: a subset of {"ok", "err"}
    MayCancel     \* somebody may cancel the token

TileOutcomes == {"ok", "err", "panic"}
Workers == 1 .. NumWorkers

ASSUME SchedulerAssumption ==
    /\ NumWorkers \in Nat \ {0}
    /\ \A p \in Plans :
          /\ p.units \in Seq(Seq([x : Int, y : Int, width : Nat, height : Nat]))
          /\ \A u \in DOMAIN p.units : p.units[u] # <<>>
          /\ p.workers \in Workers
          /\ p.scoped \in BOOLEAN /\ (p.scoped => Len(p.units) <= p.workers)
    /\ TileSteps \subseteq TileOutcomes
    /\ SinkSteps \subseteq {"ok", "err"}
    /\ MayCancel \in BOOLEAN

VARIABLES
    plan,      \* the work as units of regions, the threads, one thread per unit
    phase,     \* of the run: "new", "running", "ok" or "err"
    pc,        \* what each worker is doing
    leaf,      \* the units it has in hand, <<first, last>>
    tile,      \* position of its tile in the first of these units
    deque,     \* the halves it has split off, oldest first
    full,      \* the flag of try_for_each
    failed,    \* a unit ended with an error or a panic
    cancelled, \* the token
    stored,    \* history: the tiles <<unit, position>> the sink took
    before     \* history: how many of them before the token was cancelled

handVars  == <<pc, leaf, tile>>
schedVars == <<plan, phase, handVars, deque, full, failed, cancelled, stored, before>>

Units  == plan.units
Scoped == plan.scoped
Team   == 1 .. plan.workers

NoLeaf == <<1, 0>>
Tiles  == UNION { {u} \X DOMAIN Units[u] : u \in DOMAIN Units }

Init ==
    /\ plan \in Plans
    /\ phase = "new"
    /\ pc = [w \in Workers |-> "seek"]
    /\ leaf = [w \in Workers |-> NoLeaf]
    /\ tile = [w \in Workers |-> 1]
    /\ deque = [w \in Workers |-> <<>>]
    /\ full = FALSE /\ failed = FALSE /\ cancelled = FALSE
    /\ stored = {}
    /\ before = 0

\* The tile a worker has in hand.
Current(w) == <<leaf[w][1], tile[w]>>
CurrentRegion(w) == Units[leaf[w][1]][tile[w]]

-----------------------------------------------------------------------------
(* Handing out the work.                                                   *)

\* The token is looked at once before anything is planned.
Refuse ==
    /\ phase = "new" /\ cancelled
    /\ phase' = "err"
    /\ UNCHANGED <<plan, handVars, deque, full, failed, cancelled, stored, before>>

\* Fault: the chunks of the scoped threads overlap by one unit.
StartOverlapping ==
    /\ phase = "new" /\ ~cancelled
    /\ phase' = "running"
    /\ leaf' = [w \in Workers |-> IF w > Len(Units) THEN NoLeaf
                                  ELSE <<w, IF w < Len(Units) THEN w + 1 ELSE w>>]
    /\ pc' = [w \in Workers |-> IF w <= Len(Units) THEN "fresh" ELSE "seek"]
    /\ UNCHANGED <<plan, tile, deque, full, failed, cancelled, stored, before>>

Start ==
    /\ phase = "new" /\ ~cancelled
    /\ phase' = "running"
    /\ \E first \in Team :
          LET dealt(w) == IF Scoped THEN IF w <= Len(Units) THEN <<w, w>> ELSE NoLeaf
                          ELSE IF w = first /\ Units # <<>> THEN <<1, Len(Units)>> ELSE NoLeaf
          IN  /\ leaf' = [w \in Workers |-> dealt(w)]
              /\ pc' = [w \in Workers |-> IF dealt(w) = NoLeaf THEN "seek" ELSE "fresh"]
    /\ UNCHANGED <<plan, tile, deque, full, failed, cancelled, stored, before>>

TakeLeaf(w, range) ==
    /\ leaf' = [leaf EXCEPT ![w] = range]
    /\ pc' = [pc EXCEPT ![w] = "fresh"]

\* Fault: after an error the workers leave their halves where they are.
PopUnlessFull(w) ==
    /\ pc[w] = "seek" /\ deque[w] # <<>> /\ ~full
    /\ TakeLeaf(w, deque[w][Len(deque[w])])
    /\ deque' = [deque EXCEPT ![w] = SubSeq(@, 1, Len(@) - 1)]
    /\ UNCHANGED <<plan, phase, tile, full, failed, cancelled, stored, before>>

Pop(w) ==
    /\ pc[w] = "seek" /\ deque[w] # <<>>
    /\ TakeLeaf(w, deque[w][Len(deque[w])])
    /\ deque' = [deque EXCEPT ![w] = SubSeq(@, 1, Len(@) - 1)]
    /\ UNCHANGED <<plan, phase, tile, full, failed, cancelled, stored, before>>

\* Fault: a worker helps others before it takes its own halves back.
StealFirst(w, v) ==
    /\ w \in Team /\ pc[w] = "seek" /\ w # v /\ deque[v] # <<>>
    /\ TakeLeaf(w, Head(deque[v]))
    /\ deque' = [deque EXCEPT ![v] = Tail(@)]
    /\ UNCHANGED <<plan, phase, tile, full, failed, cancelled, stored, before>>

Steal(w, v) ==
    /\ w \in Team /\ pc[w] = "seek" /\ deque[w] = <<>> /\ deque[v] # <<>>
    /\ TakeLeaf(w, Head(deque[v]))
    /\ deque' = [deque EXCEPT ![v] = Tail(@)]
    /\ UNCHANGED <<plan, phase, tile, full, failed, cancelled, stored, before>>

\* Fault: the left half keeps the first unit of the right half.
SplitOverlapping(w) ==
    /\ pc[w] = "fresh" /\ ~Scoped /\ ~full
    /\ leaf[w][1] < leaf[w][2]
    /\ LET first == leaf[w][1]
           last  == leaf[w][2]
           right == first + (last - first + 1) \div 2
       IN  /\ leaf' = [leaf EXCEPT ![w] = <<first, right>>]
           /\ deque' = [deque EXCEPT ![w] = Append(@, <<right, last>>)]
    /\ UNCHANGED <<plan, phase, pc, tile, full, failed, cancelled, stored, before>>

\* Fault: the right half starts one unit too late.
SplitWithGap(w) ==
    /\ pc[w] = "fresh" /\ ~Scoped /\ ~full
    /\ leaf[w][1] + 1 < leaf[w][2]
    /\ LET first == leaf[w][1]
           last  == leaf[w][2]
           right == first + (last - first + 1) \div 2
       IN  /\ leaf' = [leaf EXCEPT ![w] = <<first, right - 1>>]
           /\ deque' = [deque EXCEPT ![w] = Append(@, <<right + 1, last>>)]
    /\ UNCHANGED <<plan, phase, pc, tile, full, failed, cancelled, stored, before>>

\* How far the halving goes is rayon's affair: it depends on the number of
\* threads and on what was stolen.
Split(w) ==
    /\ pc[w] = "fresh" /\ ~Scoped /\ ~full
    /\ leaf[w][1] < leaf[w][2]
    /\ LET first == leaf[w][1]
           last  == leaf[w][2]
           right == first + (last - first + 1) \div 2
       IN  /\ leaf' = [leaf EXCEPT ![w] = <<first, right - 1>>]
           /\ deque' = [deque EXCEPT ![w] = Append(@, <<right, last>>)]
    /\ UNCHANGED <<plan, phase, pc, tile, full, failed, cancelled, stored, before>>

Begin(w) ==
    /\ pc[w] = "fresh" /\ ~full
    /\ pc' = [pc EXCEPT ![w] = "check"]
    /\ tile' = [tile EXCEPT ![w] = 1]
    /\ UNCHANGED <<plan, phase, leaf, deque, full, failed, cancelled, stored, before>>

DropLeaf(w) ==
    /\ pc' = [pc EXCEPT ![w] = "seek"]
    /\ leaf' = [leaf EXCEPT ![w] = NoLeaf]
    /\ UNCHANGED tile

SkipWhenFull(w) ==
    /\ pc[w] = "fresh" /\ full
    /\ DropLeaf(w)
    /\ UNCHANGED <<plan, phase, deque, full, failed, cancelled, stored, before>>

-----------------------------------------------------------------------------
(* One tile after another.                                                 *)

\* The closure returns Err: the rest of the leaf is not run.
Fail(w) ==
    /\ DropLeaf(w)
    /\ failed' = TRUE
    /\ full' = (full \/ ~Scoped)
    /\ UNCHANGED <<plan, phase, deque, cancelled, stored, before>>

\* ensure_not_cancelled, before every tile.
PassToken(w) ==
    /\ pc[w] = "check" /\ ~cancelled
    /\ pc' = [pc EXCEPT ![w] = "execute"]
    /\ UNCHANGED <<plan, phase, leaf, tile, deque, full, failed, cancelled, stored, before>>

ObserveCancel(w) == pc[w] = "check" /\ cancelled /\ Fail(w)

Execute(w) ==
    /\ pc[w] = "execute" /\ "ok" \in TileSteps
    /\ pc' = [pc EXCEPT ![w] = "deliver"]
    /\ UNCHANGED <<plan, phase, leaf, tile, deque, full, failed, cancelled, stored, before>>

ExecuteFails(w) == pc[w] = "execute" /\ "err" \in TileSteps /\ Fail(w)

\* Fault: the panic of a worker is swallowed.
ExecutePanicsUnnoticed(w) ==
    /\ pc[w] = "execute" /\ "panic" \in TileSteps
    /\ DropLeaf(w)
    /\ UNCHANGED <<plan, phase, deque, full, failed, cancelled, stored, before>>

\* The unwinding leaves the flag alone: the other workers go on.
ExecutePanics(w) ==
    /\ pc[w] = "execute" /\ "panic" \in TileSteps
    /\ DropLeaf(w)
    /\ failed' = TRUE
    /\ UNCHANGED <<plan, phase, deque, full, cancelled, stored, before>>

CallSink(w) ==
    /\ pc[w] = "deliver"
    /\ pc' = [pc EXCEPT ![w] = "writing"]
    /\ UNCHANGED <<plan, phase, leaf, tile, deque, full, failed, cancelled, stored, before>>

\* Fault: the token is looked at once per unit.
AdvanceUnchecked(w) ==
    IF tile[w] < Len(Units[leaf[w][1]])
    THEN /\ pc' = [pc EXCEPT ![w] = "execute"]
         /\ tile' = [tile EXCEPT ![w] = @ + 1]
         /\ UNCHANGED leaf
    ELSE DropLeaf(w)

\* The next tile of the unit; or, unless another worker failed meanwhile, of
\* the next unit of the leaf.
Advance(w) ==
    IF tile[w] < Len(Units[leaf[w][1]])
    THEN /\ pc' = [pc EXCEPT ![w] = "check"]
         /\ tile' = [tile EXCEPT ![w] = @ + 1]
         /\ UNCHANGED leaf
    ELSE IF leaf[w][1] < leaf[w][2] /\ ~full
    THEN /\ pc' = [pc EXCEPT ![w] = "check"]
         /\ tile' = [tile EXCEPT ![w] = 1]
         /\ leaf' = [leaf EXCEPT ![w][1] = @ + 1]
    ELSE DropLeaf(w)

SinkOk(w) ==
    /\ pc[w] = "writing" /\ "ok" \in SinkSteps
    /\ stored' = stored \cup {Current(w)}
    /\ Advance(w)
    /\ UNCHANGED <<plan, phase, deque, full, failed, cancelled, before>>

SinkErr(w) == pc[w] = "writing" /\ "err" \in SinkSteps /\ Fail(w)

-----------------------------------------------------------------------------

Cancel ==
    /\ MayCancel /\ ~cancelled /\ phase \in {"new", "running"}
    /\ cancelled' = TRUE
    /\ before' = Cardinality(stored)
    /\ UNCHANGED <<plan, phase, handVars, deque, full, failed, stored>>

NothingLeft == \A w \in Workers : pc[w] = "seek" /\ deque[w] = <<>>

Return ==
    /\ phase = "running" /\ NothingLeft
    /\ phase' = IF failed THEN "err" ELSE "ok"
    /\ UNCHANGED <<plan, handVars, deque, full, failed, cancelled, stored, before>>

\* What a worker does without the sink's answer, and without starting a call.
Scheduling(w) ==
    \/ Pop(w) \/ (\E v \in Workers : Steal(w, v)) \/ SkipWhenFull(w) \/ Split(w) \/ Begin(w)
    \/ PassToken(w) \/ ObserveCancel(w) \/ Execute(w) \/ ExecuteFails(w) \/ ExecutePanics(w)

Master == Refuse \/ Start \/ Return

WorkerStep(w) == Scheduling(w) \/ CallSink(w) \/ SinkOk(w) \/ SinkErr(w)

Next == Master \/ Cancel \/ \E w \in Workers : WorkerStep(w)

Spec == Init /\ [][Next]_schedVars

\* Every thread that has something to do is scheduled; nobody has to cancel.
FairSpec ==
    /\ Spec
    /\ WF_schedVars(Master)
    /\ \A w \in 1 .. NumWorkers : WF_schedVars(WorkerStep(w))

-----------------------------------------------------------------------------
(* Properties.                                                             *)

\* The tiles of a range of units, from position k of its first unit on.
TilesFrom(range, k) ==
    { t \in Tiles : range[1] <= t[1] /\ t[1] <= range[2] /\ (t[1] = range[1] => t[2] >= k) }

\* What is still to be done, by who has it: a worker's hand or a split-off half.
Held(w) ==
    IF pc[w] = "seek" THEN {} ELSE TilesFrom(leaf[w], IF pc[w] = "fresh" THEN 1 ELSE tile[w])
Queued(w, i) == TilesFrom(deque[w][i], 1)

\* Splitting, stealing, failing and advancing never duplicate a tile: no tile
\* is in two hands, in two halves, or in one of them and in the sink already.
\* This is what the unsynchronised buffer of MemorySink relies on ("the caller
\* must ensure that the regions ... are disjoint", scheduler.rs of the ports).
EachTileHeldOnce ==
    /\ \A v, w \in Workers : v # w => Held(v) \cap Held(w) = {}
    /\ \A w \in Workers : Held(w) \cap stored = {}
    /\ \A w \in Workers : \A i \in DOMAIN deque[w] :
          /\ Queued(w, i) \cap stored = {}
          /\ \A v \in Workers : Queued(w, i) \cap Held(v) = {}
          /\ \A v \in Workers : \A j \in DOMAIN deque[v] :
                (v # w \/ i # j) => Queued(w, i) \cap Queued(v, j) = {}

\* As long as nothing has failed no tile is dropped: every tile is in the
\* sink or still with somebody, and so the run that returns Ok has stored all.
NoTileDropped ==
    phase \in {"running", "ok"} /\ ~failed =>
        Tiles = stored
                \cup (UNION { Held(w) : w \in Workers })
                \cup (UNION { UNION { Queued(w, i) : i \in DOMAIN deque[w] } : w \in Workers })

OkMeansAllStored == phase = "ok" => stored = Tiles

\* Two regions without a common pixel.
Disjoint(r, s) ==
    \/ r.x + r.width <= s.x \/ s.x + s.width <= r.x
    \/ r.y + r.height <= s.y \/ s.y + s.height <= r.y

\* Calls of the sink that are open at the same time write different pixels.
ConcurrentWritesDisjoint ==
    \A v, w \in Workers :
        v # w /\ pc[v] = "writing" /\ pc[w] = "writing"
            => Disjoint(CurrentRegion(v), CurrentRegion(w))

\* After cancel() every worker stores at most the tile it was working on:
\* "Schedulers observe this flag and stop after their current tile boundary".
StopsAtTileBoundary == cancelled => Cardinality(stored) - before <= NumWorkers

\* A run ends, whatever fails and whoever cancels, if the sink answers.
RunReturns == phase = "running" ~> phase \in {"ok", "err"}

=============================================================================
