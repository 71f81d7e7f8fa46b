------------------------------ MODULE FileSink ------------------------------
(***************************************************************************)
(* The ordered write-behind sink (viprs-runtime, sinks/file_sink.rs).      *)
(*                                                                         *)
(* Scheduler workers call write_region_concurrent with the regions they    *)
(* completed, in any order.  The ordering mutex and its condition variable *)
(* make each worker wait for its turn in raster order; the worker whose    *)
(* turn it is copies the region into a bounded channel, and a dedicated    *)
(* writer thread hands the regions to an incremental encoder.              *)
(*                                                                         *)
(* The ordering mutex is held across the blocking send and nowhere else    *)
(* for more than one step, so it is free exactly when no worker is in      *)
(* "sending".                                                              *)
(***************************************************************************)
EXTENDS RasterOrder, FiniteSets

CONSTANTS
    Workers,        \* threads that may call write_region_concurrent
    Regions,        \* regions a caller may pass, valid or not
    Width, Height,  \* dimensions of the image
    QueueCapacity,  \* slots of the channel: bounded(2)
    EncoderSteps,   \* what the encoder may do: a subset of EncoderOutcomes
    NoRegion        \* absence of a region

EncoderOutcomes == {"ok", "err", "panic"}

ASSUME FileSinkAssumption ==
    /\ Regions \subseteq [x : Int, y : Int, width : Nat, height : Nat]
    /\ Width \in Nat /\ Height \in Nat
    /\ QueueCapacity \in Nat \ {0}
    /\ EncoderSteps \subseteq EncoderOutcomes
    /\ NoRegion \notin Regions

VARIABLES
    callPc,       \* where each worker is inside write_region_concurrent
    arg,          \* the region it passed
    reply,        \* what its last call returned
    next,         \* OrderingState.next_x / next_y
    writerError,  \* OrderingState.writer_error is Some
    channel,      \* messages sent and not yet received
    senderOpen,   \* the sink still owns the Sender
    receiverOpen, \* the writer thread still owns the Receiver
    writerPc,     \* where the writer thread is inside writer_loop
    message,      \* the message the writer thread is writing
    writerExit,   \* how the writer thread ended
    sinkPc,       \* life of the sink object
    finishReply,  \* what finish returned
    sent,         \* history: regions accepted, in the order of acceptance
    written       \* history: regions the encoder consumed

callVars   == <<callPc, arg, reply>>
orderVars  == <<next, writerError>>
chanVars   == <<channel, senderOpen, receiverOpen>>
writerVars == <<writerPc, message, writerExit, written>>
ownerVars  == <<sinkPc, finishReply>>
sinkVars   == <<callVars, orderVars, chanVars, writerVars, ownerVars, sent>>

TypeOK ==
    /\ callPc \in [Workers -> {"idle", "locking", "waiting", "sending"}]
    /\ arg \in [Workers -> Regions \cup {NoRegion}]
    /\ reply \in [Workers -> {"none", "ok", "err"}]
    /\ next \in [x : Int, y : Int]
    /\ writerError \in BOOLEAN
    /\ channel \in Seq(Regions) /\ Len(channel) <= QueueCapacity
    /\ senderOpen \in BOOLEAN
    /\ receiverOpen \in BOOLEAN
    /\ writerPc \in {"receiving", "writing", "storingError", "finishing", "exited"}
    /\ message \in Regions \cup {NoRegion}
    /\ writerExit \in {"none", "ok", "err", "panic"}
    /\ sinkPc \in {"open", "joining", "closed", "dropped"}
    /\ finishReply \in {"none", "ok", "err"}
    /\ sent \in Seq(Regions)
    /\ written \in Seq(Regions)

Init ==
    /\ callPc = [w \in Workers |-> "idle"]
    /\ arg = [w \in Workers |-> NoRegion]
    /\ reply = [w \in Workers |-> "none"]
    /\ next = TopLeft
    /\ writerError = FALSE
    /\ channel = <<>>
    /\ senderOpen = TRUE
    /\ receiverOpen = TRUE
    /\ writerPc = "receiving"
    /\ message = NoRegion
    /\ writerExit = "none"
    /\ sinkPc = "open"
    /\ finishReply = "none"
    /\ sent = <<>>
    /\ written = <<>>

-----------------------------------------------------------------------------
(* write_region_concurrent, called by a scheduler worker.                  *)

MutexFree == \A w \in Workers : callPc[w] # "sending"

\* notify_all: every waiter goes back to competing for the mutex.
Notified(pc) ==
    [w \in Workers |-> IF pc[w] = "waiting" THEN "locking" ELSE pc[w]]

Return(w, outcome) ==
    /\ reply' = [reply EXCEPT ![w] = outcome]
    /\ arg' = [arg EXCEPT ![w] = NoRegion]

\* A region outside the image is refused before the mutex is touched.
Call(w, r) ==
    /\ sinkPc = "open"
    /\ callPc[w] = "idle"
    /\ IF InBounds(r, Width, Height)
       THEN /\ callPc' = [callPc EXCEPT ![w] = "locking"]
            /\ arg' = [arg EXCEPT ![w] = r]
            /\ reply' = [reply EXCEPT ![w] = "none"]
       ELSE /\ Return(w, "err")
            /\ UNCHANGED callPc
    /\ UNCHANGED <<orderVars, chanVars, writerVars, ownerVars, sent>>

\* The worker takes the mutex and decides: a stored writer error ends the
\* call, its turn lets it send (and keeps the mutex), otherwise it waits.
ReturnWriterError(w) ==
    /\ callPc[w] = "locking"
    /\ MutexFree
    /\ writerError
    /\ callPc' = [callPc EXCEPT ![w] = "idle"]
    /\ Return(w, "err")
    /\ UNCHANGED <<orderVars, chanVars, writerVars, ownerVars, sent>>

\* Fault: a woken worker does not look at the expected origin again.
TakeTurnWithoutRecheck(w) ==
    /\ callPc[w] = "locking"
    /\ MutexFree
    /\ ~writerError
    /\ callPc' = [callPc EXCEPT ![w] = "sending"]
    /\ UNCHANGED <<arg, reply, orderVars, chanVars, writerVars, ownerVars, sent>>

TakeTurn(w) ==
    /\ callPc[w] = "locking"
    /\ MutexFree
    /\ ~writerError
    /\ next = Origin(arg[w])
    /\ callPc' = [callPc EXCEPT ![w] = "sending"]
    /\ UNCHANGED <<arg, reply, orderVars, chanVars, writerVars, ownerVars, sent>>

WaitForTurn(w) ==
    /\ callPc[w] = "locking"
    /\ MutexFree
    /\ ~writerError
    /\ next # Origin(arg[w])
    /\ callPc' = [callPc EXCEPT ![w] = "waiting"]
    /\ UNCHANGED <<arg, reply, orderVars, chanVars, writerVars, ownerVars, sent>>

\* Condvar::wait may return without a notification.
SpuriousWake(w) ==
    /\ callPc[w] = "waiting"
    /\ callPc' = [callPc EXCEPT ![w] = "locking"]
    /\ UNCHANGED <<arg, reply, orderVars, chanVars, writerVars, ownerVars, sent>>

\* Fault: the turn is passed on without waking the workers that wait for it.
SendSilently(w) ==
    /\ callPc[w] = "sending"
    /\ receiverOpen
    /\ Len(channel) < QueueCapacity
    /\ channel' = Append(channel, arg[w])
    /\ sent' = Append(sent, arg[w])
    /\ next' = AfterRegion(arg[w], Width)
    /\ callPc' = [callPc EXCEPT ![w] = "idle"]
    /\ Return(w, "ok")
    /\ UNCHANGED <<writerError, senderOpen, receiverOpen, writerVars, ownerVars>>

\* The send blocks, with the mutex held, while the channel is full.
Send(w) ==
    /\ callPc[w] = "sending"
    /\ receiverOpen
    /\ Len(channel) < QueueCapacity
    /\ channel' = Append(channel, arg[w])
    /\ sent' = Append(sent, arg[w])
    /\ next' = AfterRegion(arg[w], Width)
    /\ callPc' = Notified([callPc EXCEPT ![w] = "idle"])
    /\ Return(w, "ok")
    /\ UNCHANGED <<writerError, senderOpen, receiverOpen, writerVars, ownerVars>>

\* The writer thread is gone: the send fails, and the waiters are not told.
SendDisconnected(w) ==
    /\ callPc[w] = "sending"
    /\ ~receiverOpen
    /\ callPc' = [callPc EXCEPT ![w] = "idle"]
    /\ Return(w, "err")
    /\ UNCHANGED <<orderVars, chanVars, writerVars, ownerVars, sent>>

-----------------------------------------------------------------------------
(* writer_loop, on the dedicated writer thread.                            *)

Receive ==
    /\ writerPc = "receiving"
    /\ channel # <<>>
    /\ message' = Head(channel)
    /\ channel' = Tail(channel)
    /\ writerPc' = "writing"
    /\ UNCHANGED <<callVars, orderVars, senderOpen, receiverOpen, writerExit,
                   written, ownerVars, sent>>

\* Fault: the writer thread leaves its loop with messages still queued.
DisconnectedEarly ==
    /\ writerPc = "receiving"
    /\ ~senderOpen
    /\ writerPc' = "finishing"
    /\ UNCHANGED <<callVars, orderVars, chanVars, message, writerExit, written,
                   ownerVars, sent>>

Disconnected ==
    /\ writerPc = "receiving"
    /\ channel = <<>>
    /\ ~senderOpen
    /\ writerPc' = "finishing"
    /\ UNCHANGED <<callVars, orderVars, chanVars, message, writerExit, written,
                   ownerVars, sent>>

\* Fault: somebody else keeps the Receiver alive after the thread is gone.
ExitWriterKeepingReceiver(outcome) ==
    /\ writerPc' = "exited"
    /\ writerExit' = outcome
    /\ message' = NoRegion
    /\ UNCHANGED chanVars

\* The thread returns or unwinds: its Receiver goes, with what is queued.
ExitWriter(outcome) ==
    /\ writerPc' = "exited"
    /\ writerExit' = outcome
    /\ message' = NoRegion
    /\ receiverOpen' = FALSE
    /\ channel' = <<>>
    /\ UNCHANGED senderOpen

WriteOk ==
    /\ writerPc = "writing"
    /\ "ok" \in EncoderSteps
    /\ written' = Append(written, message)
    /\ message' = NoRegion
    /\ writerPc' = "receiving"
    /\ UNCHANGED <<callVars, orderVars, chanVars, writerExit, ownerVars, sent>>

FinishEncoder ==
    /\ writerPc = "finishing"
    /\ "ok" \in EncoderSteps
    /\ ExitWriter("ok")
    /\ UNCHANGED <<callVars, orderVars, written, ownerVars, sent>>

EncoderFails ==
    /\ writerPc \in {"writing", "finishing"}
    /\ "err" \in EncoderSteps
    /\ writerPc' = "storingError"
    /\ UNCHANGED <<callVars, orderVars, chanVars, message, writerExit, written,
                   ownerVars, sent>>

EncoderPanics ==
    /\ writerPc \in {"writing", "finishing"}
    /\ "panic" \in EncoderSteps
    /\ ExitWriter("panic")
    /\ UNCHANGED <<callVars, orderVars, written, ownerVars, sent>>

\* Fault: the error is stored but the waiting workers are not notified.
StoreWriterErrorSilently ==
    /\ writerPc = "storingError"
    /\ MutexFree
    /\ writerError' = TRUE
    /\ ExitWriter("err")
    /\ UNCHANGED <<callVars, next, written, ownerVars, sent>>

\* store_writer_error needs the ordering mutex; then the thread returns.
StoreWriterError ==
    /\ writerPc = "storingError"
    /\ MutexFree
    /\ writerError' = TRUE
    /\ callPc' = Notified(callPc)
    /\ ExitWriter("err")
    /\ UNCHANGED <<arg, reply, next, written, ownerVars, sent>>

-----------------------------------------------------------------------------
(* finish and drop take the sink by value: no call is in progress.         *)

NoCalls == \A w \in Workers : callPc[w] = "idle"

\* Fault: the writer thread is joined before the Sender is dropped.
FinishHoldingSender ==
    /\ sinkPc = "open"
    /\ NoCalls
    /\ sinkPc' = "joining"
    /\ UNCHANGED <<callVars, orderVars, chanVars, writerVars, finishReply, sent>>

Finish ==
    /\ sinkPc = "open"
    /\ NoCalls
    /\ sinkPc' = "joining"
    /\ senderOpen' = FALSE
    /\ UNCHANGED <<callVars, orderVars, channel, receiverOpen, writerVars,
                   finishReply, sent>>

Join ==
    /\ sinkPc = "joining"
    /\ writerPc = "exited"
    /\ sinkPc' = "closed"
    /\ finishReply' = IF writerExit = "ok" THEN "ok" ELSE "err"
    /\ UNCHANGED <<callVars, orderVars, chanVars, writerVars, sent>>

\* Dropped without finish: the writer thread is detached and drains alone.
Abandon ==
    /\ sinkPc = "open"
    /\ NoCalls
    /\ sinkPc' = "dropped"
    /\ senderOpen' = FALSE
    /\ UNCHANGED <<callVars, orderVars, channel, receiverOpen, writerVars,
                   finishReply, sent>>

-----------------------------------------------------------------------------

CallStep(w) ==
    ReturnWriterError(w) \/ TakeTurn(w) \/ WaitForTurn(w) \/ Send(w) \/ SendDisconnected(w)

WriterStep ==
    \/ Receive \/ Disconnected \/ WriteOk \/ FinishEncoder
    \/ EncoderFails \/ EncoderPanics \/ StoreWriterError

Next ==
    \/ \E w \in Workers, r \in Regions : Call(w, r)
    \/ \E w \in Workers : CallStep(w) \/ SpuriousWake(w)
    \/ WriterStep
    \/ Finish \/ Join \/ Abandon

Spec == Init /\ [][Next]_sinkVars

\* Threads that can take a step of the code are scheduled sooner or later.
\* Nothing obliges a caller to call, to finish or to drop.
Fairness ==
    /\ \A w \in Workers : WF_sinkVars(CallStep(w))
    /\ WF_sinkVars(WriterStep)
    /\ WF_sinkVars(Join)

FairSpec == Spec /\ Fairness

-----------------------------------------------------------------------------
(* Safety.                                                                 *)

\* What the writer thread holds and has not written.
InFlight == IF message = NoRegion THEN <<>> ELSE <<message>>

\* However the workers interleave, the regions they were told are accepted
\* form one raster-order chain whose end is the origin the sink waits for:
\* the mutex, the condition variable and advance_expected_tile never let two
\* workers take the same turn or skip one (FileSinkWriter's contract).
AcceptedInRasterOrder ==
    /\ RasterChain(sent, Width)
    /\ next = AfterAll(sent, Width)

\* Nothing accepted is lost, repeated or overtaken between the worker and the
\* encoder: written, in hand and queued regions are the accepted ones in
\* order; once the thread has gone, a prefix of them was written.
AcceptedThenWritten ==
    /\ receiverOpen => written \o InFlight \o channel = sent
    /\ Len(written) <= Len(sent)
    /\ written = SubSeq(sent, 1, Len(written))

\* The inductive invariant behind the two above.  A worker inside the call
\* holds a valid region, at most one is past the turn test and its region is
\* the expected one; the writer thread owns the Receiver until it exits, and
\* it only gets to close the encoder after the last call has returned.
CallsWellFormed ==
    \A w \in Workers :
        /\ callPc[w] = "idle" => arg[w] = NoRegion
        /\ callPc[w] # "idle" => arg[w] \in Regions /\ InBounds(arg[w], Width, Height)
        /\ callPc[w] = "sending" => next = Origin(arg[w])
        /\ \A v \in Workers : callPc[v] = "sending" /\ callPc[w] = "sending" => v = w

ThreadsWellFormed ==
    /\ receiverOpen <=> writerPc # "exited"
    /\ writerExit # "none" <=> writerPc = "exited"
    /\ writerPc = "writing" => message # NoRegion
    /\ writerPc \in {"receiving", "finishing", "exited"} => message = NoRegion
    /\ senderOpen <=> sinkPc = "open"
    /\ sinkPc # "open" => NoCalls
    /\ writerPc = "finishing" => ~senderOpen /\ written = sent
    /\ writerExit = "ok" => ~senderOpen /\ written = sent
    /\ finishReply # "none" <=> sinkPc = "closed"
    /\ finishReply # "none" => writerPc = "exited"
    /\ finishReply = "ok" <=> finishReply # "none" /\ writerExit = "ok"

SinkInvariant ==
    /\ CallsWellFormed
    /\ ThreadsWellFormed
    /\ \A i \in 1 .. Len(sent) : InBounds(sent[i], Width, Height)
    /\ AcceptedInRasterOrder
    /\ AcceptedThenWritten

\* finish returns Ok only after the encoder consumed every accepted region.
FinishOkMeansAllWritten == finishReply = "ok" => written = sent

-----------------------------------------------------------------------------
(* Refinement: the encoder sees what RasterWriter promises.                *)

EncoderState ==
    CASE writerExit = "ok" -> "committed"
      [] writerPc = "storingError" \/ writerExit \in {"err", "panic"} -> "failed"
      [] OTHER -> "open"

Abstract == INSTANCE RasterWriter
    WITH delivered <- written, encoder <- EncoderState, outcome <- finishReply

\* Behind the channel, the mutex and the writer thread, the sink is a plain
\* raster-order writer that reports what became of its encoder.
ImplementsRasterWriter == Abstract!Spec

-----------------------------------------------------------------------------
(* Liveness.                                                               *)

\* Once the writer's error is stored no worker stays parked on the condition
\* variable: every caller gets the error (store_writer_error's notify_all).
WaitersReleased == \A w \in Workers : writerError ~> callPc[w] # "waiting"

\* finish always comes back, whatever the encoder did.
FinishReturns == sinkPc = "joining" ~> sinkPc = "closed"

=============================================================================
