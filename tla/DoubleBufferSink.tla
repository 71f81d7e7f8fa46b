-------------------------- MODULE DoubleBufferSink --------------------------
(***************************************************************************)
(* The double-buffered sink (viprs-runtime, sinks/double_buffer.rs).       *)
(*                                                                         *)
(* Workers deliver regions in raster order, as in FileSink, but into a     *)
(* strip of full-width rows.  The worker that completes a strip sends its  *)
(* buffer to the writer thread through a channel of one slot and waits for *)
(* the other buffer, which comes back through a second channel of one slot *)
(* when the writer has written it.  All of this happens with the state     *)
(* mutex held.                                                             *)
(*                                                                         *)
(* Pixels are abstracted to the set of positions of the image that were    *)
(* copied into a buffer since it became the current one; byte counts to    *)
(* numbers of pixels.                                                      *)
(***************************************************************************)
EXTENDS RasterOrder, FiniteSets

CONSTANTS
    Workers,       \* threads that deliver regions
    Plans,         \* the sequences of regions that a run may deliver
    Width, Height, \* dimensions of the image
    RowsPerBuffer, \* rows of a strip
    EncoderSteps,  \* what the encoder may do: a subset of {"ok", "err", "panic"}
    NoMessage      \* absence of a message

VARIABLES
    plan,        \* the regions that the workers deliver, each one once
    taken,       \* those a worker has taken up, as positions in plan
    callPc,      \* where each worker is inside write_region_concurrent
    arg,         \* the position of the region it delivers, 0 for none
    rowsWritten, \* how many of its rows are in buffers
    reply,       \* what its last call returned
    next,        \* DoubleBufferState.next_x / next_y
    writerError, \* DoubleBufferState.writer_error is Some
    current,     \* DoubleBufferState.current
    flush,       \* strips sent and not yet received by the writer thread
    flushOpen,   \* the sink still owns the sender of that channel
    spare,       \* buffers in the channel of available buffers
    spareOpen,   \* the sink still owns the receiver of that channel
    writerPc,    \* where the writer thread is inside writer_loop
    message,     \* the strip in its hands
    writerExit,  \* how it ended
    sinkPc,      \* life of the sink object
    finishReply, \* what finish returned
    written      \* history: strips the encoder consumed

callVars   == <<taken, callPc, arg, rowsWritten, reply>>
stateVars  == <<next, writerError, current>>
chanVars   == <<flush, flushOpen, spare, spareOpen>>
writerVars == <<writerPc, message, writerExit, written>>
ownerVars  == <<sinkPc, finishReply>>
sinkVars   == <<plan, callVars, stateVars, chanVars, writerVars, ownerVars>>

Pixels(r) == (r.x .. r.x + r.width - 1) \X (r.y .. r.y + r.height - 1)
Strip(start, rows) == Region(0, start, Width, rows)
Strips == { Strip(y, h) : y \in 0 .. Height, h \in 1 .. RowsPerBuffer }

\* The rows of the strip that starts at a row: none past the image.
StripRows(start) ==
    IF Height - start <= 0 THEN 0
    ELSE IF Height - start < RowsPerBuffer THEN Height - start ELSE RowsPerBuffer

\* A run delivers the tiles of a plan, which do not overlap (TilePlan).
ASSUME DoubleBufferSinkAssumption ==
    /\ Width \in Nat /\ Height \in Nat
    /\ RowsPerBuffer \in Nat \ {0}
    /\ EncoderSteps \subseteq {"ok", "err", "panic"}
    /\ \A strip \in Strips : \A seen \in SUBSET Pixels(Region(0, 0, Width, Height)) :
          NoMessage # [region |-> strip, pixels |-> seen]
    /\ \A p \in Plans :
          /\ DOMAIN p = 1 .. Len(p)
          /\ \A i \in DOMAIN p :
                /\ p[i] \in [x : Nat, y : Nat, width : Nat \ {0}, height : Nat \ {0}]
                /\ InBounds(p[i], Width, Height)
          /\ \A i, j \in DOMAIN p : i # j => Pixels(p[i]) \cap Pixels(p[j]) = {}

EmptyStrip(start, buffer) ==
    [start |-> start, rows |-> StripRows(start), count |-> 0, pixels |-> {}, buffer |-> buffer]

\* One buffer is current, the other one is seeded into the channel.
Init ==
    /\ plan \in Plans
    /\ taken = {}
    /\ callPc = [w \in Workers |-> "idle"]
    /\ arg = [w \in Workers |-> 0]
    /\ rowsWritten = [w \in Workers |-> 0]
    /\ reply = [w \in Workers |-> "none"]
    /\ next = TopLeft
    /\ writerError = FALSE
    /\ current = EmptyStrip(0, TRUE)
    /\ flush = <<>> /\ flushOpen = TRUE
    /\ spare = 1 /\ spareOpen = TRUE
    /\ writerPc = "receiving" /\ message = NoMessage /\ writerExit = "none"
    /\ sinkPc = "open" /\ finishReply = "none"
    /\ written = <<>>

-----------------------------------------------------------------------------
(* write_region_concurrent.                                                *)

MutexFree == \A w \in Workers : callPc[w] \notin {"copying", "flushing", "swapping"}
Mine(w) == plan[arg[w]]

Notified(pc) == [w \in Workers |-> IF pc[w] = "waiting" THEN "locking" ELSE pc[w]]

Call(w, i) ==
    /\ sinkPc = "open"
    /\ callPc[w] = "idle" /\ i \notin taken
    /\ taken' = taken \cup {i}
    /\ callPc' = [callPc EXCEPT ![w] = "locking"]
    /\ arg' = [arg EXCEPT ![w] = i]
    /\ rowsWritten' = [rowsWritten EXCEPT ![w] = 0]
    /\ reply' = [reply EXCEPT ![w] = "none"]
    /\ UNCHANGED <<plan, stateVars, chanVars, writerVars, ownerVars>>

\* The call returns Err without moving on and without telling the waiters.
CallFails(w) ==
    /\ callPc' = [callPc EXCEPT ![w] = "idle"]
    /\ reply' = [reply EXCEPT ![w] = "err"]
    /\ arg' = [arg EXCEPT ![w] = 0]
    /\ UNCHANGED <<plan, taken, rowsWritten, stateVars, chanVars, writerVars, ownerVars>>

ReturnWriterError(w) == callPc[w] = "locking" /\ MutexFree /\ writerError /\ CallFails(w)

TakeTurn(w) ==
    /\ callPc[w] = "locking" /\ MutexFree /\ ~writerError
    /\ next = Origin(Mine(w))
    /\ callPc' = [callPc EXCEPT ![w] = "copying"]
    /\ UNCHANGED <<plan, taken, arg, rowsWritten, reply, stateVars, chanVars, writerVars, ownerVars>>

WaitForTurn(w) ==
    /\ callPc[w] = "locking" /\ MutexFree /\ ~writerError
    /\ next # Origin(Mine(w))
    /\ callPc' = [callPc EXCEPT ![w] = "waiting"]
    /\ UNCHANGED <<plan, taken, arg, rowsWritten, reply, stateVars, chanVars, writerVars, ownerVars>>

SpuriousWake(w) ==
    /\ callPc[w] = "waiting"
    /\ callPc' = [callPc EXCEPT ![w] = "locking"]
    /\ UNCHANGED <<plan, taken, arg, rowsWritten, reply, stateVars, chanVars, writerVars, ownerVars>>

\* Every row is in a buffer: the turn goes on, the waiters are told.
Finished(w) ==
    /\ next' = AfterRegion(Mine(w), Width)
    /\ callPc' = Notified([callPc EXCEPT ![w] = "idle"])
    /\ reply' = [reply EXCEPT ![w] = "ok"]
    /\ arg' = [arg EXCEPT ![w] = 0]

StripEnd == current.start + current.rows
PieceRow(w) == Mine(w).y + rowsWritten[w]

\* The part of the region that falls into the current strip is copied there.
PieceRows(w) ==
    IF StripEnd - PieceRow(w) < Mine(w).height - rowsWritten[w]
    THEN StripEnd - PieceRow(w) ELSE Mine(w).height - rowsWritten[w]

Piece(w) == Region(Mine(w).x, PieceRow(w), Mine(w).width, PieceRows(w))
Fits(w) == current.rows > 0 /\ current.start <= PieceRow(w) /\ PieceRow(w) < StripEnd

\* Fault: a piece is counted as if it were as wide as the strip.
CountRows(piece) == piece.height * Width
CountPixels(piece) == piece.height * piece.width

Copy(w) ==
    /\ callPc[w] = "copying" /\ Fits(w)
    /\ LET count == current.count + CountPixels(Piece(w))
           done  == rowsWritten[w] + PieceRows(w)
       IN  /\ current' = [current EXCEPT !.count = count, !.pixels = @ \cup Pixels(Piece(w))]
           /\ IF count = Width * current.rows
              THEN /\ callPc' = [callPc EXCEPT ![w] = "flushing"]
                   /\ rowsWritten' = [rowsWritten EXCEPT ![w] = done]
                   /\ UNCHANGED <<arg, reply, next>>
              ELSE IF done = Mine(w).height
              THEN Finished(w) /\ UNCHANGED rowsWritten
              ELSE /\ rowsWritten' = [rowsWritten EXCEPT ![w] = done]
                   /\ UNCHANGED <<callPc, arg, reply, next>>
    /\ UNCHANGED <<plan, taken, writerError, chanVars, writerVars, ownerVars>>

\* A region that is not as wide as the image but reaches past the strip.
CopyMisses(w) == callPc[w] = "copying" /\ ~Fits(w) /\ CallFails(w)

\* rotate_buffer, after the swap: the strip that begins where the last ended.
ContinueWith(w, strip) ==
    /\ current' = strip
    /\ IF rowsWritten[w] = Mine(w).height
       THEN Finished(w)
       ELSE /\ callPc' = [callPc EXCEPT ![w] = "copying"]
            /\ UNCHANGED <<arg, reply, next>>

\* rotate_buffer: the buffer is sent off; if the image goes on, another one
\* is needed.
FlushStrip(w) ==
    /\ callPc[w] = "flushing" /\ writerPc # "exited" /\ flush = <<>>
    /\ flush' = <<[region |-> Strip(current.start, current.rows), pixels |-> current.pixels]>>
    /\ IF StripRows(StripEnd) > 0
       THEN /\ current' = [current EXCEPT !.buffer = FALSE]
            /\ callPc' = [callPc EXCEPT ![w] = "swapping"]
            /\ UNCHANGED <<arg, reply, next>>
       ELSE ContinueWith(w, EmptyStrip(StripEnd, FALSE))
    /\ UNCHANGED <<plan, taken, rowsWritten, writerError, flushOpen, spare, spareOpen, writerVars, ownerVars>>

FlushDisconnected(w) ==
    /\ callPc[w] = "flushing" /\ writerPc = "exited"
    /\ current' = [current EXCEPT !.buffer = FALSE]
    /\ callPc' = [callPc EXCEPT ![w] = "idle"]
    /\ reply' = [reply EXCEPT ![w] = "err"]
    /\ arg' = [arg EXCEPT ![w] = 0]
    /\ UNCHANGED <<plan, taken, rowsWritten, next, writerError, chanVars, writerVars, ownerVars>>

TakeSpare(w) ==
    /\ callPc[w] = "swapping" /\ spare > 0
    /\ spare' = spare - 1
    /\ ContinueWith(w, EmptyStrip(StripEnd, TRUE))
    /\ UNCHANGED <<plan, taken, rowsWritten, writerError, flush, flushOpen, spareOpen, writerVars, ownerVars>>

SwapDisconnected(w) ==
    /\ callPc[w] = "swapping" /\ spare = 0 /\ writerPc = "exited"
    /\ CallFails(w)

-----------------------------------------------------------------------------
(* writer_loop.                                                            *)

Receive ==
    /\ writerPc = "receiving" /\ flush # <<>>
    /\ message' = Head(flush) /\ flush' = Tail(flush)
    /\ writerPc' = "writing"
    /\ UNCHANGED <<plan, callVars, stateVars, flushOpen, spare, spareOpen, writerExit, written, ownerVars>>

Disconnected ==
    /\ writerPc = "receiving" /\ flush = <<>> /\ ~flushOpen
    /\ writerPc' = "finishing"
    /\ UNCHANGED <<plan, callVars, stateVars, chanVars, message, writerExit, written, ownerVars>>

\* Both ends of the writer thread go, with what is queued for it.
ExitWriter(outcome) ==
    /\ writerPc' = "exited" /\ writerExit' = outcome
    /\ message' = NoMessage
    /\ flush' = <<>>
    /\ UNCHANGED <<flushOpen, spare, spareOpen>>

\* Fault: the buffer is not given back.
WriteOkKeepingBuffer ==
    /\ writerPc = "writing" /\ "ok" \in EncoderSteps
    /\ written' = Append(written, message)
    /\ message' = NoMessage /\ writerPc' = "receiving"
    /\ UNCHANGED <<plan, callVars, stateVars, chanVars, writerExit, ownerVars>>

WriteOk ==
    /\ writerPc = "writing" /\ "ok" \in EncoderSteps
    /\ written' = Append(written, message)
    /\ writerPc' = "recycling"
    /\ UNCHANGED <<plan, callVars, stateVars, chanVars, message, writerExit, ownerVars>>

\* Fault: the buffer is given back twice, once before it is written.
RecycleEarly ==
    /\ writerPc \in {"writing", "recycling"} /\ spareOpen /\ spare = 0
    /\ spare' = 1
    /\ IF writerPc = "recycling" THEN message' = NoMessage /\ writerPc' = "receiving"
       ELSE UNCHANGED <<message, writerPc>>
    /\ UNCHANGED <<plan, callVars, stateVars, flush, flushOpen, spareOpen, writerExit, written, ownerVars>>

\* Giving the buffer back blocks while the one slot is taken.
Recycle ==
    /\ writerPc = "recycling" /\ spareOpen /\ spare = 0
    /\ spare' = 1
    /\ message' = NoMessage /\ writerPc' = "receiving"
    /\ UNCHANGED <<plan, callVars, stateVars, flush, flushOpen, spareOpen, writerExit, written, ownerVars>>

RecycleDisconnected ==
    /\ writerPc = "recycling" /\ ~spareOpen
    /\ ExitWriter("err")
    /\ UNCHANGED <<plan, callVars, stateVars, written, ownerVars>>

FinishEncoder ==
    /\ writerPc = "finishing" /\ "ok" \in EncoderSteps
    /\ ExitWriter("ok")
    /\ UNCHANGED <<plan, callVars, stateVars, written, ownerVars>>

EncoderFails ==
    /\ writerPc \in {"writing", "finishing"} /\ "err" \in EncoderSteps
    /\ writerPc' = "storingError"
    /\ UNCHANGED <<plan, callVars, stateVars, chanVars, message, writerExit, written, ownerVars>>

EncoderPanics ==
    /\ writerPc \in {"writing", "finishing"} /\ "panic" \in EncoderSteps
    /\ ExitWriter("panic")
    /\ UNCHANGED <<plan, callVars, stateVars, written, ownerVars>>

\* Fault: the error is stored for the workers and forgotten for finish.
StoreWriterErrorExitOk ==
    /\ writerPc = "storingError" /\ MutexFree
    /\ writerError' = TRUE
    /\ callPc' = Notified(callPc)
    /\ ExitWriter("ok")
    /\ UNCHANGED <<plan, taken, arg, rowsWritten, reply, next, current, written, ownerVars>>

StoreWriterError ==
    /\ writerPc = "storingError" /\ MutexFree
    /\ writerError' = TRUE
    /\ callPc' = Notified(callPc)
    /\ ExitWriter("err")
    /\ UNCHANGED <<plan, taken, arg, rowsWritten, reply, next, current, written, ownerVars>>

-----------------------------------------------------------------------------
(* finish and drop take the sink by value: no call is in progress.         *)

NoCalls == \A w \in Workers : callPc[w] = "idle"

\* Unflushed rows: finish answers Err and the sink is dropped.
FinishRefuses ==
    /\ sinkPc = "open" /\ NoCalls /\ (current.rows > 0 \/ current.count > 0)
    /\ sinkPc' = "closed" /\ finishReply' = "err"
    /\ flushOpen' = FALSE /\ spareOpen' = FALSE
    /\ UNCHANGED <<plan, callVars, stateVars, flush, spare, writerVars>>

\* Fault: finish does not look at what is left in the current strip.
FinishUnchecked ==
    /\ sinkPc = "open" /\ NoCalls
    /\ sinkPc' = "draining"
    /\ UNCHANGED <<plan, callVars, stateVars, chanVars, writerVars, finishReply>>

Finish ==
    /\ sinkPc = "open" /\ NoCalls /\ current.rows = 0 /\ current.count = 0
    /\ sinkPc' = "draining"
    /\ UNCHANGED <<plan, callVars, stateVars, chanVars, writerVars, finishReply>>

\* The spare buffer that is there now is taken away, a later one is not.
Drain ==
    /\ sinkPc = "draining" /\ spare > 0
    /\ spare' = spare - 1
    /\ UNCHANGED <<plan, callVars, stateVars, flush, flushOpen, spareOpen, writerVars, ownerVars>>

CloseFlush ==
    /\ sinkPc = "draining" /\ spare = 0
    /\ sinkPc' = "joining"
    /\ flushOpen' = FALSE
    /\ UNCHANGED <<plan, callVars, stateVars, flush, spare, spareOpen, writerVars, finishReply>>

Join ==
    /\ sinkPc = "joining" /\ writerPc = "exited"
    /\ sinkPc' = "closed"
    /\ finishReply' = IF writerExit = "ok" THEN "ok" ELSE "err"
    /\ spareOpen' = FALSE
    /\ UNCHANGED <<plan, callVars, stateVars, flush, flushOpen, spare, writerVars>>

Abandon ==
    /\ sinkPc = "open" /\ NoCalls
    /\ sinkPc' = "dropped"
    /\ flushOpen' = FALSE /\ spareOpen' = FALSE
    /\ UNCHANGED <<plan, callVars, stateVars, flush, spare, writerVars, finishReply>>

-----------------------------------------------------------------------------

CallStep(w) ==
    \/ ReturnWriterError(w) \/ TakeTurn(w) \/ WaitForTurn(w)
    \/ Copy(w) \/ CopyMisses(w)
    \/ FlushStrip(w) \/ FlushDisconnected(w) \/ TakeSpare(w) \/ SwapDisconnected(w)

WriterStep ==
    \/ Receive \/ Disconnected \/ WriteOk \/ Recycle \/ RecycleDisconnected
    \/ FinishEncoder \/ EncoderFails \/ EncoderPanics \/ StoreWriterError

OwnerStep == Drain \/ CloseFlush \/ Join

Next ==
    \/ \E w \in Workers : CallStep(w) \/ SpuriousWake(w) \/ \E i \in DOMAIN plan : Call(w, i)
    \/ WriterStep
    \/ FinishRefuses \/ Finish \/ Abandon \/ OwnerStep

Spec == Init /\ [][Next]_sinkVars

\* Threads that can take a step of the code are scheduled sooner or later.
FairSpec ==
    /\ Spec
    /\ \A w \in Workers : WF_sinkVars(CallStep(w))
    /\ WF_sinkVars(WriterStep)
    /\ WF_sinkVars(OwnerStep)

-----------------------------------------------------------------------------
(* Properties.                                                             *)

InHand == IF message = NoMessage \/ writerPc = "recycling" THEN <<>> ELSE <<message>>

\* The strips that were sent off, written or not.
Flushed == written \o InHand \o flush

\* A strip is sent off only when each of its pixels was copied into it, and
\* the strips leave no gap: the byte count that triggers the flush counts
\* what it should, although buffers are reused without being cleared.
StripsComplete ==
    \A i \in DOMAIN Flushed :
        /\ Flushed[i].pixels = Pixels(Flushed[i].region)
        /\ Flushed[i].region = Strip((i - 1) * RowsPerBuffer, StripRows((i - 1) * RowsPerBuffer))

\* The two buffers go round between the workers and the writer thread: while
\* both sides are there none is lost and none is made, so that a worker that
\* waits for the spare one waits for a buffer that is on its way.
BuffersConserved ==
    sinkPc = "open" /\ writerPc # "exited" =>
        (IF current.buffer THEN 1 ELSE 0) + Len(flush) + (IF message # NoMessage THEN 1 ELSE 0) + spare = 2

\* finish answers Ok only when the encoder has consumed the whole image.
FinishOkMeansImageWritten ==
    finishReply = "ok" =>
        UNION { written[i].pixels : i \in DOMAIN written } = Pixels(Region(0, 0, Width, Height))

\* Refinement: the encoder sees what RasterWriter promises, strip by strip.
EncoderState ==
    CASE writerExit = "ok" -> "committed"
      [] writerPc = "storingError" \/ writerExit \in {"err", "panic"} -> "failed"
      [] OTHER -> "open"

Abstract == INSTANCE RasterWriter
    WITH Regions <- Strips, delivered <- [i \in DOMAIN written |-> written[i].region],
         encoder <- EncoderState, outcome <- finishReply

ImplementsRasterWriter == Abstract!Spec

\* A worker never waits to send a strip off: the slot is free by the time the
\* strip is complete or the writer thread is about to free it.
FlushCompletes == \A w \in Workers : callPc[w] = "flushing" ~> callPc[w] # "flushing"

=============================================================================
