----------------------------- MODULE FileSinkRun -----------------------------
(***************************************************************************)
(* A scheduler run that saves through a FileSink: run_concurrent on a      *)
(* borrowed sink, then finish when the run was Ok, drop when it was not    *)
(* (the protocol of run_with_file_sink in benches/pipeline/write_behind.rs *)
(* and of the sink's own tests).                                           *)
(*                                                                         *)
(* The two components share the worker threads: a worker that calls the    *)
(* sink is inside write_region_concurrent and does nothing else until the  *)
(* call returns, with the sink's answer.                                   *)
(***************************************************************************)
EXTENDS RasterOrder, FiniteSets

CONSTANTS
    NumWorkers, Plans, TileSteps, MayCancel,              \* the scheduler
    Width, Height, QueueCapacity, EncoderSteps, NoRegion  \* the sink

Workers == 1 .. NumWorkers
SinkSteps == {"ok", "err"}
Regions ==
    UNION { UNION { { p.units[u][k] : k \in DOMAIN p.units[u] } : u \in DOMAIN p.units } : p \in Plans }

\* All the tiles of a plan, in its order.
TilesOf(p) ==
    LET upTo[u \in 0 .. Len(p.units)] == IF u = 0 THEN <<>> ELSE upTo[u - 1] \o p.units[u]
    IN  upTo[Len(p.units)]

\* What the planner makes for an image of this size (TilePlan): tiles that are
\* not empty and follow one another, as the sink takes them, to its last row.
CoversImage(tiles) ==
    /\ \A i \in DOMAIN tiles : /\ InBounds(tiles[i], Width, Height)
                               /\ tiles[i].width > 0 /\ tiles[i].height > 0
    /\ RasterChain(tiles, Width)
    /\ tiles # <<>> => AfterAll(tiles, Width) = [x |-> 0, y |-> Height]

ASSUME FileSinkRunAssumption ==
    /\ NumWorkers \in Nat \ {0}
    /\ \A p \in Plans :
          /\ p.units \in Seq(Seq([x : Int, y : Int, width : Nat, height : Nat]))
          /\ \A u \in DOMAIN p.units : p.units[u] # <<>>
          /\ p.workers \in Workers
          /\ p.scoped \in BOOLEAN /\ (p.scoped => Len(p.units) <= p.workers)
          /\ CoversImage(TilesOf(p))
    /\ TileSteps \subseteq {"ok", "err", "panic"} /\ MayCancel \in BOOLEAN
    /\ Width \in Nat /\ Height \in Nat
    /\ QueueCapacity \in Nat \ {0}
    /\ EncoderSteps \subseteq {"ok", "err", "panic"}
    /\ NoRegion \notin Regions

VARIABLES plan, phase, pc, leaf, tile, deque, full, failed, cancelled, stored, before
VARIABLES callPc, arg, reply, next, writerError, channel, senderOpen, receiverOpen,
          writerPc, message, writerExit, sinkPc, finishReply, sent, written

Sched == INSTANCE RayonScheduler
Sink  == INSTANCE FileSink

schedVars == <<plan, phase, pc, leaf, tile, deque, full, failed, cancelled, stored, before>>
sinkVars  == <<callPc, arg, reply, next, writerError, channel, senderOpen, receiverOpen,
               writerPc, message, writerExit, sinkPc, finishReply, sent, written>>
runVars   == <<schedVars, sinkVars>>

Init == Sched!Init /\ Sink!Init

\* A step of the scheduler alone: dealing out work, executing a tile, ending.
Scheduling(w) == Sched!Scheduling(w) /\ UNCHANGED sinkVars
Master == (Sched!Master \/ Sched!Cancel) /\ UNCHANGED sinkVars

\* A step inside the sink: a worker in its call, or the writer thread.
InCall(w) == Sink!CallStep(w) /\ UNCHANGED schedVars
Wake(w) == Sink!SpuriousWake(w) /\ UNCHANGED schedVars
Writer == Sink!WriterStep /\ UNCHANGED schedVars

BeginWrite(w) == Sched!CallSink(w) /\ Sink!Call(w, Sched!CurrentRegion(w))

EndWrite(w) ==
    /\ callPc[w] = "idle"
    /\ IF reply[w] = "ok" THEN Sched!SinkOk(w) ELSE Sched!SinkErr(w)
    /\ UNCHANGED sinkVars

\* Fault: the caller finishes the sink of a run that failed.
CloseRegardless ==
    /\ phase \in {"ok", "err"} /\ Sink!Finish
    /\ UNCHANGED schedVars

Close ==
    /\ \/ phase = "ok" /\ Sink!Finish
       \/ phase = "err" /\ Sink!Abandon
    /\ UNCHANGED schedVars

Join == Sink!Join /\ UNCHANGED schedVars

WorkerStep(w) == Scheduling(w) \/ BeginWrite(w) \/ InCall(w) \/ EndWrite(w)

Next ==
    \/ Master \/ Writer \/ Close \/ Join
    \/ \E w \in Workers : WorkerStep(w) \/ Wake(w)

Spec == Init /\ [][Next]_runVars

\* Every thread runs when it can; nobody has to cancel.
FairSpec ==
    /\ Spec
    /\ WF_runVars(Sched!Master /\ UNCHANGED sinkVars)
    /\ WF_runVars(Writer) /\ WF_runVars(Close) /\ WF_runVars(Join)
    /\ \A w \in Workers : WF_runVars(WorkerStep(w))

-----------------------------------------------------------------------------

PlannedTiles == TilesOf(plan)

\* When finish has answered Ok the whole image is in the file.  The sink
\* alone does not promise this: it finishes a partial image without a word.
SavedImageComplete == finishReply = "ok" => written = PlannedTiles

\* While nothing has failed, the tile the sink waits for is never stuck
\* behind a worker that waits for it: the worker that has it, in hand or split
\* off, is calling the sink with it or is not in the sink at all.
NextTileReachable ==
    phase = "running" /\ ~failed /\ ~writerError /\ Len(sent) < Len(PlannedTiles) =>
        LET expected == PlannedTiles[Len(sent) + 1]
            Has(w)   == Sched!Held(w) \cup UNION { Sched!Queued(w, i) : i \in DOMAIN deque[w] }
        IN  \E w \in Workers :
                /\ \E t \in Has(w) : plan.units[t[1]][t[2]] = expected
                /\ callPc[w] = "idle" \/ arg[w] = expected

\* Whatever the order in which the tiles get done, and however the workers
\* block each other in the sink, the run comes to an end unless a tile, the
\* token or the encoder stops it.
CleanRunReturns ==
    phase = "running" ~>
        phase \in {"ok", "err"} \/ failed \/ cancelled \/ writerPc = "storingError" \/ writerExit # "none"

\* "Schedulers observe this flag and stop after their current tile boundary"
\* (CancellationToken::cancel).
CancelledRunStops == cancelled /\ phase = "running" ~> phase \in {"ok", "err"}

=============================================================================
