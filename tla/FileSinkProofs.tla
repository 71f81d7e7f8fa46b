--------------------------- MODULE FileSinkProofs ---------------------------
(***************************************************************************)
(* Proofs about FileSink, for any number of workers, any regions, any      *)
(* channel capacity and any behaviour of the encoder.                      *)
(***************************************************************************)
EXTENDS FileSink, SequenceTheorems, TLAPS

-----------------------------------------------------------------------------
(* Facts about sequences and raster chains.                                *)

\* Appending behind the queue is appending to the whole pipeline.
LEMMA ConcatAppend ==
    ASSUME NEW S, NEW s \in Seq(S), NEW t \in Seq(S), NEW e \in S
    PROVE  s \o Append(t, e) = Append(s \o t, e)
<1>1. s \o t \in Seq(S) /\ <<e>> \in Seq(S)
  BY ConcatProperties
<1>2. s \o Append(t, e) = s \o (t \o <<e>>)
  BY AppendIsConcat
<1>3. s \o (t \o <<e>>) = (s \o t) \o <<e>>
  BY <1>1, ConcatAssociative
<1>4. (s \o t) \o <<e>> = Append(s \o t, e)
  BY <1>1, AppendIsConcat
<1> QED
  BY <1>2, <1>3, <1>4

\* A sequence is its head followed by its tail.
LEMMA HeadThenTail ==
    ASSUME NEW S, NEW s \in Seq(S), s # <<>>
    PROVE  <<Head(s)>> \o Tail(s) = s
<1>1. /\ Head(s) \in S
      /\ Tail(s) \in Seq(S)
      /\ Len(Tail(s)) = Len(s) - 1
      /\ \A i \in 1 .. Len(Tail(s)) : Tail(s)[i] = s[i + 1]
  BY HeadTailProperties
<1>2. <<Head(s)>> \in Seq(S) /\ Len(<<Head(s)>>) = 1
  BY <1>1
<1> DEFINE c == <<Head(s)>> \o Tail(s)
<1>3. /\ c \in Seq(S)
      /\ Len(c) = 1 + Len(Tail(s))
      /\ \A i \in 1 .. 1 + Len(Tail(s)) :
            c[i] = IF i <= 1 THEN <<Head(s)>>[i] ELSE Tail(s)[i - 1]
  BY <1>1, <1>2, ConcatProperties
<1>4. Len(s) \in Nat \ {0}
  BY EmptySeq
<1>5. ASSUME NEW i \in 1 .. Len(c) PROVE c[i] = s[i]
  <2>1. CASE i = 1
    BY <2>1, <1>1, <1>3, <1>4
  <2>2. CASE i # 1
    BY <2>2, <1>1, <1>3, <1>4
  <2> QED
    BY <2>1, <2>2
<1> HIDE DEF c
<1>6. c = s
  BY <1>1, <1>3, <1>4, <1>5, SeqEqual
<1> QED
  BY <1>6 DEF c

\* The first part of a concatenation is its prefix of that length.
LEMMA PrefixOfConcat ==
    ASSUME NEW S, NEW s \in Seq(S), NEW t \in Seq(S)
    PROVE  /\ Len(s) <= Len(s \o t)
           /\ s = SubSeq(s \o t, 1, Len(s))
<1> DEFINE c == s \o t
<1>1. /\ c \in Seq(S)
      /\ Len(c) = Len(s) + Len(t)
      /\ \A i \in 1 .. Len(s) + Len(t) : c[i] = IF i <= Len(s) THEN s[i] ELSE t[i - Len(s)]
  BY ConcatProperties
<1>2. Len(s) \in Nat /\ Len(t) \in Nat
  BY LenProperties
<1> HIDE DEF c
<1>3. \A i \in 1 .. Len(s) : c[i] = s[i] /\ s[i] \in S
  BY <1>1, <1>2, ElementOfSeq
<1> DEFINE p == SubSeq(c, 1, Len(s))
<1>4. /\ p \in Seq(S)
      /\ Len(p) = IF 1 <= Len(s) THEN Len(s) - 1 + 1 ELSE 0
      /\ \A i \in 1 .. Len(s) - 1 + 1 : p[i] = c[1 + i - 1]
  BY <1>2, <1>3, SubSeqProperties
<1> HIDE DEF p
<1>5. Len(p) = Len(s) /\ \A i \in 1 .. Len(s) : p[i] = s[i]
  BY <1>2, <1>3, <1>4
<1>6. p = s
  BY <1>4, <1>5, SeqEqual
<1>7. Len(s) <= Len(c)
  BY <1>1, <1>2
<1> QED
  BY <1>6, <1>7 DEF p, c

LEMMA PrefixOfThree ==
    ASSUME NEW S, NEW s \in Seq(S), NEW t \in Seq(S), NEW u \in Seq(S)
    PROVE  /\ Len(s) <= Len((s \o t) \o u)
           /\ s = SubSeq((s \o t) \o u, 1, Len(s))
<1>1. t \o u \in Seq(S)
  BY ConcatProperties
<1>2. (s \o t) \o u = s \o (t \o u)
  BY ConcatAssociative
<1> QED
  BY <1>1, <1>2, PrefixOfConcat

\* A chain is extended by a region that starts where it ends.
LEMMA ChainAppend ==
    ASSUME NEW s \in Seq(Regions), NEW r \in Regions, NEW W \in Nat,
           RasterChain(s, W), Origin(r) = AfterAll(s, W)
    PROVE  /\ RasterChain(Append(s, r), W)
           /\ AfterAll(Append(s, r), W) = AfterRegion(r, W)
<1> DEFINE t == Append(s, r)
<1>1. /\ t \in Seq(Regions)
      /\ t # <<>>
      /\ Len(t) = Len(s) + 1
      /\ \A i \in 1 .. Len(s) : t[i] = s[i]
      /\ t[Len(s) + 1] = r
  BY AppendProperties
<1>2. Len(s) \in Nat /\ (s # <<>> => Len(s) \in Nat \ {0}) /\ (s = <<>> => Len(s) = 0)
  BY LenProperties, EmptySeq
<1> HIDE DEF t
<1>3. Origin(t[1]) = TopLeft
  <2>1. CASE s = <<>>
    BY <2>1, <1>1, <1>2 DEF AfterAll
  <2>2. CASE s # <<>>
    BY <2>2, <1>1, <1>2 DEF RasterChain
  <2> QED
    BY <2>1, <2>2
<1>4. ASSUME NEW i \in 1 .. Len(t) - 1
      PROVE  Origin(t[i + 1]) = AfterRegion(t[i], W)
  <2>1. CASE i < Len(s)
    <3>1. i \in 1 .. Len(s) - 1 /\ t[i] = s[i] /\ t[i + 1] = s[i + 1]
      BY <2>1, <1>1, <1>2
    <3> QED
      BY <3>1 DEF RasterChain
  <2>2. CASE i >= Len(s)
    <3>1. i = Len(s) /\ s # <<>> /\ t[i] = s[Len(s)] /\ t[i + 1] = r
      BY <2>2, <1>1, <1>2
    <3> QED
      BY <3>1 DEF AfterAll
  <2> QED
    BY <2>1, <2>2, <1>1, <1>2
<1>5. RasterChain(t, W)
  BY <1>3, <1>4 DEF RasterChain
<1>6. AfterAll(t, W) = AfterRegion(r, W)
  BY <1>1, <1>2 DEF AfterAll
<1> QED
  BY <1>5, <1>6 DEF t

-----------------------------------------------------------------------------
(* The inductive invariant.  It is proved action by action; for each, the  *)
(* conjuncts are: types, the workers' calls, the threads, and the log of   *)
(* accepted and written regions.                                           *)

Log ==
    /\ \A i \in 1 .. Len(sent) : InBounds(sent[i], Width, Height)
    /\ AcceptedInRasterOrder
    /\ AcceptedThenWritten

Inv == TypeOK /\ CallsWellFormed /\ ThreadsWellFormed /\ Log

LEMMA InitInv == Init => Inv
<1> SUFFICES ASSUME Init PROVE Inv
  OBVIOUS
<1>1. TypeOK
  <2>1. <<>> \in Seq(Regions) /\ Len(<<>>) = 0
    BY EmptySeq
  <2>2. TopLeft \in [x : Int, y : Int]
    BY DEF TopLeft
  <2>3. 0 <= QueueCapacity
    BY FileSinkAssumption
  <2> QED
    BY <2>1, <2>2, <2>3 DEF Init, TypeOK
<1>2. CallsWellFormed
  BY DEF Init, CallsWellFormed
<1>3. ThreadsWellFormed
  BY DEF Init, ThreadsWellFormed, NoCalls
<1>4. Log
  <2>1. <<>> \in Seq(Regions) /\ Len(<<>>) = 0
    BY EmptySeq
  <2>2. RasterChain(<<>>, Width) /\ AfterAll(<<>>, Width) = TopLeft
    BY <2>1 DEF RasterChain, AfterAll
  <2>3. <<>> \o <<>> = <<>> /\ (<<>> \o <<>>) \o <<>> = <<>>
    BY <2>1, ConcatEmptySeq
  <2>4. SubSeq(<<>>, 1, 0) = <<>>
    BY SubSeqEmpty
  <2> QED
    BY <2>1, <2>2, <2>3, <2>4
       DEF Init, Log, AcceptedInRasterOrder, AcceptedThenWritten, InFlight
<1> QED
  BY <1>1, <1>2, <1>3, <1>4 DEF Inv

\* Steps that leave the regions and the Receiver alone keep the log.
LEMMA LogStutter ==
    ASSUME Log, UNCHANGED <<sent, written, message, channel, next, receiverOpen>>
    PROVE  Log'
BY DEF Log, AcceptedInRasterOrder, AcceptedThenWritten, InFlight, RasterChain, AfterAll

\* The exit of the writer thread drops what is queued, and claims nothing.
LEMMA LogExit ==
    ASSUME Log, ~receiverOpen', UNCHANGED <<sent, written, next>>
    PROVE  Log'
BY DEF Log, AcceptedInRasterOrder, AcceptedThenWritten, RasterChain, AfterAll

\* The calls of the workers, up to the send.
LEMMA CallInv ==
    ASSUME Inv, NEW w \in Workers, NEW r \in Regions, Call(w, r)
    PROVE  Inv'
<1> USE DEF callVars, orderVars, chanVars, writerVars, ownerVars
<1>0. TypeOK /\ CallsWellFormed /\ ThreadsWellFormed /\ Log
  BY DEF Inv
<1>1. TypeOK'
  BY <1>0 DEF TypeOK, Call, Return
<1>2. CallsWellFormed'
  BY <1>0 DEF TypeOK, CallsWellFormed, Call, Return
<1>3. ThreadsWellFormed'
  BY <1>0 DEF TypeOK, ThreadsWellFormed, Call, Return, NoCalls
<1>4. Log'
  BY <1>0, LogStutter DEF Call
<1> QED
  BY <1>1, <1>2, <1>3, <1>4 DEF Inv

LEMMA TurnInv ==
    ASSUME Inv, NEW w \in Workers,
           ReturnWriterError(w) \/ TakeTurn(w) \/ WaitForTurn(w) \/ SpuriousWake(w)
    PROVE  Inv'
<1> USE DEF callVars, orderVars, chanVars, writerVars, ownerVars,
            ReturnWriterError, TakeTurn, WaitForTurn, SpuriousWake, Return
<1>0. TypeOK /\ CallsWellFormed /\ ThreadsWellFormed /\ Log
  BY DEF Inv
<1>1. TypeOK'
  BY <1>0 DEF TypeOK
<1>2. CallsWellFormed'
  BY <1>0 DEF TypeOK, CallsWellFormed, MutexFree
<1>3. ThreadsWellFormed'
  BY <1>0 DEF TypeOK, ThreadsWellFormed, NoCalls
<1>4. Log'
  BY <1>0, LogStutter
<1> QED
  BY <1>1, <1>2, <1>3, <1>4 DEF Inv

\* The send: the only step that extends the chain of accepted regions.
LEMMA SendInv ==
    ASSUME Inv, NEW w \in Workers, Send(w)
    PROVE  Inv'
<1> USE DEF callVars, orderVars, chanVars, writerVars, ownerVars
<1> DEFINE a == arg[w]
<1>0. TypeOK /\ CallsWellFormed /\ ThreadsWellFormed /\ Log
  BY DEF Inv
<1>1. a \in Regions /\ InBounds(a, Width, Height) /\ next = Origin(a)
  BY <1>0 DEF CallsWellFormed, Send
<1>2. /\ sent' = Append(sent, a)
      /\ channel' = Append(channel, a)
      /\ next' = AfterRegion(a, Width)
      /\ UNCHANGED <<written, message, receiverOpen>>
      /\ receiverOpen
      /\ callPc' = Notified([callPc EXCEPT ![w] = "idle"])
      /\ arg' = [arg EXCEPT ![w] = NoRegion]
      /\ reply' = [reply EXCEPT ![w] = "ok"]
      /\ callPc[w] = "sending"
      /\ Len(channel) < QueueCapacity
      /\ UNCHANGED <<writerError, senderOpen, receiverOpen, writerVars, ownerVars>>
  BY DEF Send, Return
<1>3. sent \in Seq(Regions) /\ written \in Seq(Regions) /\ channel \in Seq(Regions)
  BY <1>0 DEF TypeOK
<1>4. /\ sent' \in Seq(Regions)
      /\ Len(sent') = Len(sent) + 1
      /\ \A i \in 1 .. Len(sent) : sent'[i] = sent[i]
      /\ sent'[Len(sent) + 1] = a
      /\ channel' \in Seq(Regions)
      /\ Len(channel') = Len(channel) + 1
  BY <1>1, <1>2, <1>3, AppendProperties
<1>5. Len(sent) \in Nat /\ Len(channel) \in Nat
  BY <1>3, LenProperties
<1> HIDE DEF a
<1>6. TypeOK'
  <2>1. next' \in [x : Int, y : Int]
    BY <1>1, <1>2, FileSinkAssumption DEF AfterRegion
  <2>2. callPc' \in [Workers -> {"idle", "locking", "waiting", "sending"}]
    BY <1>0, <1>2 DEF TypeOK, Notified
  <2>3. arg' \in [Workers -> Regions \cup {NoRegion}] /\ reply' \in [Workers -> {"none", "ok", "err"}]
    BY <1>0, <1>2 DEF TypeOK
  <2>4. Len(channel') <= QueueCapacity
    BY <1>2, <1>4, <1>5, FileSinkAssumption
  <2> QED
    BY <1>0, <1>2, <1>4, <2>1, <2>2, <2>3, <2>4 DEF TypeOK
<1>7. CallsWellFormed'
  <2>1. \A v \in Workers : callPc[v] # "sending" \/ v = w
    BY <1>0, <1>2 DEF CallsWellFormed
  <2>2. \A v \in Workers : callPc'[v] # "sending"
    BY <1>0, <1>2, <2>1 DEF TypeOK, Notified
  <2>3. \A v \in Workers : callPc'[v] = "idle" <=> v = w \/ callPc[v] = "idle"
    BY <1>0, <1>2 DEF TypeOK, Notified
  <2>4. \A v \in Workers : arg'[v] = IF v = w THEN NoRegion ELSE arg[v]
    BY <1>0, <1>2 DEF TypeOK
  <2> QED
    BY <1>0, <2>2, <2>3, <2>4 DEF CallsWellFormed
<1>8. ThreadsWellFormed'
  <2>1. sinkPc = "open" /\ writerPc # "finishing" /\ writerPc # "exited"
    BY <1>0, <1>2 DEF ThreadsWellFormed, NoCalls
  <2> QED
    BY <1>0, <1>2, <2>1 DEF ThreadsWellFormed
<1>9. Log'
  <2>1. RasterChain(sent', Width) /\ AfterAll(sent', Width) = next'
    <3>1. RasterChain(sent, Width) /\ Origin(a) = AfterAll(sent, Width) /\ Width \in Nat
      BY <1>0, <1>1, FileSinkAssumption DEF Log, AcceptedInRasterOrder
    <3> QED
      BY <3>1, <1>1, <1>2, <1>3, ChainAppend
  <2>2. \A i \in 1 .. Len(sent') : InBounds(sent'[i], Width, Height)
    BY <1>0, <1>1, <1>4, <1>5 DEF Log
  <2>3. InFlight \in Seq(Regions) /\ InFlight' = InFlight
    BY <1>0, <1>2 DEF InFlight, TypeOK
  <2>4. (written \o InFlight) \o channel = sent
    BY <1>0, <1>2 DEF Log, AcceptedThenWritten
  <2>5. (written \o InFlight) \o channel' = sent'
    <3>1. written \o InFlight \in Seq(Regions)
      BY <2>3, <1>3, ConcatProperties
    <3>2. (written \o InFlight) \o Append(channel, a) = Append((written \o InFlight) \o channel, a)
      BY <3>1, <1>1, <1>3, ConcatAppend
    <3> QED
      BY <1>2, <2>4, <3>2
  <2>6. /\ Len(written) <= Len((written \o InFlight) \o channel')
        /\ written = SubSeq((written \o InFlight) \o channel', 1, Len(written))
    BY <2>3, <1>3, <1>4, PrefixOfThree
  <2>7. Len(written) <= Len(sent') /\ written = SubSeq(sent', 1, Len(written))
    BY <2>5, <2>6
  <2> QED
    BY <1>2, <2>1, <2>2, <2>3, <2>5, <2>7
       DEF Log, AcceptedInRasterOrder, AcceptedThenWritten
<1> QED
  BY <1>6, <1>7, <1>8, <1>9 DEF Inv

LEMMA SendDisconnectedInv ==
    ASSUME Inv, NEW w \in Workers, SendDisconnected(w)
    PROVE  Inv'
<1> USE DEF callVars, orderVars, chanVars, writerVars, ownerVars, SendDisconnected, Return
<1>0. TypeOK /\ CallsWellFormed /\ ThreadsWellFormed /\ Log
  BY DEF Inv
<1>1. TypeOK'
  BY <1>0 DEF TypeOK
<1>2. CallsWellFormed'
  BY <1>0 DEF TypeOK, CallsWellFormed
<1>3. ThreadsWellFormed'
  BY <1>0 DEF TypeOK, ThreadsWellFormed, NoCalls
<1>4. Log'
  BY <1>0, LogStutter
<1> QED
  BY <1>1, <1>2, <1>3, <1>4 DEF Inv

\* The writer thread takes a message: the queue's head moves to its hand.
LEMMA ReceiveInv ==
    ASSUME Inv, Receive
    PROVE  Inv'
<1> USE DEF callVars, orderVars, chanVars, writerVars, ownerVars, Receive
<1>0. TypeOK /\ CallsWellFormed /\ ThreadsWellFormed /\ Log
  BY DEF Inv
<1>1. /\ channel \in Seq(Regions)
      /\ written \in Seq(Regions)
      /\ channel # <<>>
      /\ message = NoRegion
  BY <1>0 DEF TypeOK, ThreadsWellFormed
<1>2. /\ Head(channel) \in Regions
      /\ Tail(channel) \in Seq(Regions)
      /\ Len(Tail(channel)) = Len(channel) - 1
      /\ Len(channel) \in Nat
  BY <1>1, HeadTailProperties, LenProperties
<1>3. message' \in Regions /\ message' # NoRegion
  BY <1>2, FileSinkAssumption
<1>4. TypeOK'
  <2>1. Len(channel') <= QueueCapacity
    BY <1>0, <1>2, FileSinkAssumption DEF TypeOK
  <2> QED
    BY <1>0, <1>2, <1>3, <2>1 DEF TypeOK
<1>5. CallsWellFormed'
  BY <1>0 DEF CallsWellFormed
<1>6. ThreadsWellFormed'
  BY <1>0, <1>3 DEF ThreadsWellFormed, NoCalls
<1>7. Log'
  <2>1. InFlight = <<>> /\ InFlight' = <<Head(channel)>>
    BY <1>1, <1>3 DEF InFlight
  <2>2. (written \o InFlight') \o channel' = (written \o InFlight) \o channel
    <3>1. <<Head(channel)>> \in Seq(Regions)
      BY <1>2
    <3>2. (written \o <<Head(channel)>>) \o Tail(channel)
             = written \o (<<Head(channel)>> \o Tail(channel))
      BY <1>1, <1>2, <3>1, ConcatAssociative
    <3>3. <<Head(channel)>> \o Tail(channel) = channel
      BY <1>1, HeadThenTail
    <3>4. written \o <<>> = written
      BY <1>1, ConcatEmptySeq
    <3> QED
      BY <2>1, <3>2, <3>3, <3>4
  <2>3. receiverOpen => (written' \o InFlight') \o channel' = sent'
    BY <1>0, <2>2 DEF Log, AcceptedThenWritten
  <2> QED
    BY <1>0, <2>3 DEF Log, AcceptedInRasterOrder, AcceptedThenWritten, RasterChain, AfterAll
<1> QED
  BY <1>4, <1>5, <1>6, <1>7 DEF Inv

\* The encoder consumed the message: it moves from the hand to the log.
LEMMA WriteOkInv ==
    ASSUME Inv, WriteOk
    PROVE  Inv'
<1> USE DEF callVars, orderVars, chanVars, writerVars, ownerVars, WriteOk
<1>0. TypeOK /\ CallsWellFormed /\ ThreadsWellFormed /\ Log
  BY DEF Inv
<1>1. /\ channel \in Seq(Regions)
      /\ written \in Seq(Regions)
      /\ message \in Regions
      /\ receiverOpen
  BY <1>0 DEF TypeOK, ThreadsWellFormed
<1>2. written' \in Seq(Regions)
  BY <1>1, AppendProperties
<1>3. TypeOK'
  BY <1>0, <1>2 DEF TypeOK
<1>4. CallsWellFormed'
  BY <1>0 DEF CallsWellFormed
<1>5. ThreadsWellFormed'
  BY <1>0 DEF ThreadsWellFormed, NoCalls
<1>6. Log'
  <2>1. InFlight = <<message>> /\ InFlight' = <<>>
    BY <1>1, FileSinkAssumption DEF InFlight
  <2>2. written' = written \o <<message>>
    BY <1>1, AppendIsConcat
  <2>3. written' \o <<>> = written'
    BY <1>2, ConcatEmptySeq
  <2>4. (written' \o InFlight') \o channel' = sent'
    BY <1>0, <1>1, <2>1, <2>2, <2>3 DEF Log, AcceptedThenWritten
  <2>5. written' \o channel = sent
    BY <2>1, <2>3, <2>4
  <2>6. Len(written') <= Len(sent) /\ written' = SubSeq(sent, 1, Len(written'))
    <3>1. /\ Len(written') <= Len(written' \o channel)
          /\ written' = SubSeq(written' \o channel, 1, Len(written'))
      BY <1>1, <1>2, PrefixOfConcat
    <3> QED
      BY <3>1, <2>5
  <2> QED
    BY <1>0, <2>4, <2>6 DEF Log, AcceptedInRasterOrder, AcceptedThenWritten, RasterChain, AfterAll
<1> QED
  BY <1>3, <1>4, <1>5, <1>6 DEF Inv

\* The loop ends with the queue empty and the hand empty: all was written.
LEMMA DisconnectedInv ==
    ASSUME Inv, Disconnected
    PROVE  Inv'
<1> USE DEF callVars, orderVars, chanVars, writerVars, ownerVars, Disconnected
<1>0. TypeOK /\ CallsWellFormed /\ ThreadsWellFormed /\ Log
  BY DEF Inv
<1>1. written = sent
  <2>1. written \in Seq(Regions) /\ InFlight = <<>> /\ channel = <<>> /\ receiverOpen
    BY <1>0 DEF TypeOK, ThreadsWellFormed, InFlight
  <2>2. written \o <<>> = written
    BY <2>1, ConcatEmptySeq
  <2> QED
    BY <1>0, <2>1, <2>2 DEF Log, AcceptedThenWritten
<1>2. TypeOK'
  BY <1>0 DEF TypeOK
<1>3. CallsWellFormed'
  BY <1>0 DEF CallsWellFormed
<1>4. ThreadsWellFormed'
  BY <1>0, <1>1 DEF ThreadsWellFormed, NoCalls
<1>5. Log'
  BY <1>0, LogStutter
<1> QED
  BY <1>2, <1>3, <1>4, <1>5 DEF Inv

LEMMA EncoderFailsInv ==
    ASSUME Inv, EncoderFails
    PROVE  Inv'
<1> USE DEF callVars, orderVars, chanVars, writerVars, ownerVars, EncoderFails
<1>0. TypeOK /\ CallsWellFormed /\ ThreadsWellFormed /\ Log
  BY DEF Inv
<1>1. TypeOK'
  BY <1>0 DEF TypeOK
<1>2. CallsWellFormed'
  BY <1>0 DEF CallsWellFormed
<1>3. ThreadsWellFormed'
  BY <1>0 DEF ThreadsWellFormed, NoCalls
<1>4. Log'
  BY <1>0, LogStutter
<1> QED
  BY <1>1, <1>2, <1>3, <1>4 DEF Inv

\* The three ways the writer thread ends.
LEMMA ExitInv ==
    ASSUME Inv, FinishEncoder \/ EncoderPanics
    PROVE  Inv'
<1> USE DEF callVars, orderVars, chanVars, writerVars, ownerVars,
            FinishEncoder, EncoderPanics, ExitWriter
<1>0. TypeOK /\ CallsWellFormed /\ ThreadsWellFormed /\ Log
  BY DEF Inv
<1>1. TypeOK'
  <2>1. <<>> \in Seq(Regions) /\ Len(<<>>) <= QueueCapacity
    BY EmptySeq, FileSinkAssumption
  <2> QED
    BY <1>0, <2>1 DEF TypeOK
<1>2. CallsWellFormed'
  BY <1>0 DEF CallsWellFormed
<1>3. ThreadsWellFormed'
  BY <1>0 DEF TypeOK, ThreadsWellFormed, NoCalls
<1>4. Log'
  BY <1>0, LogExit
<1> QED
  BY <1>1, <1>2, <1>3, <1>4 DEF Inv

LEMMA StoreWriterErrorInv ==
    ASSUME Inv, StoreWriterError
    PROVE  Inv'
<1> USE DEF callVars, orderVars, chanVars, writerVars, ownerVars, StoreWriterError, ExitWriter
<1>0. TypeOK /\ CallsWellFormed /\ ThreadsWellFormed /\ Log
  BY DEF Inv
<1>1. TypeOK'
  <2>1. <<>> \in Seq(Regions) /\ Len(<<>>) <= QueueCapacity
    BY EmptySeq, FileSinkAssumption
  <2>2. callPc' \in [Workers -> {"idle", "locking", "waiting", "sending"}]
    BY <1>0 DEF TypeOK, Notified
  <2> QED
    BY <1>0, <2>1, <2>2 DEF TypeOK
<1>2. \A v \in Workers : /\ callPc'[v] = "idle" <=> callPc[v] = "idle"
                         /\ callPc'[v] # "sending"
  BY <1>0 DEF TypeOK, Notified, MutexFree
<1>3. CallsWellFormed'
  BY <1>0, <1>2 DEF CallsWellFormed
<1>4. ThreadsWellFormed'
  BY <1>0, <1>2 DEF TypeOK, ThreadsWellFormed, NoCalls
<1>5. Log'
  BY <1>0, LogExit
<1> QED
  BY <1>1, <1>3, <1>4, <1>5 DEF Inv

\* The owner of the sink: finish, the join, drop.
LEMMA OwnerInv ==
    ASSUME Inv, Finish \/ Join \/ Abandon
    PROVE  Inv'
<1> USE DEF callVars, orderVars, chanVars, writerVars, ownerVars, Finish, Join, Abandon
<1>0. TypeOK /\ CallsWellFormed /\ ThreadsWellFormed /\ Log
  BY DEF Inv
<1>1. TypeOK'
  BY <1>0 DEF TypeOK
<1>2. CallsWellFormed'
  BY <1>0 DEF CallsWellFormed
<1>3. ThreadsWellFormed'
  BY <1>0 DEF TypeOK, ThreadsWellFormed, NoCalls
<1>4. Log'
  BY <1>0, LogStutter
<1> QED
  BY <1>1, <1>2, <1>3, <1>4 DEF Inv

LEMMA StutterInv ==
    ASSUME Inv, UNCHANGED sinkVars
    PROVE  Inv'
<1> USE DEF sinkVars, callVars, orderVars, chanVars, writerVars, ownerVars
<1>1. TypeOK' /\ CallsWellFormed' /\ ThreadsWellFormed'
  BY DEF Inv, TypeOK, CallsWellFormed, ThreadsWellFormed, NoCalls
<1>2. Log'
  BY LogStutter DEF Inv
<1> QED
  BY <1>1, <1>2 DEF Inv

LEMMA NextInv == Inv /\ [Next]_sinkVars => Inv'
<1> SUFFICES ASSUME Inv, [Next]_sinkVars
             PROVE  Inv'
  OBVIOUS
<1>1. ASSUME NEW w \in Workers, NEW r \in Regions, Call(w, r) PROVE Inv'
  BY <1>1, CallInv
<1>2. ASSUME NEW w \in Workers, CallStep(w) \/ SpuriousWake(w) PROVE Inv'
  BY <1>2, TurnInv, SendInv, SendDisconnectedInv DEF CallStep
<1>3. CASE WriterStep
  BY <1>3, ReceiveInv, DisconnectedInv, WriteOkInv, ExitInv, EncoderFailsInv,
     StoreWriterErrorInv DEF WriterStep
<1>4. CASE Finish \/ Join \/ Abandon
  BY <1>4, OwnerInv
<1>5. CASE UNCHANGED sinkVars
  BY <1>5, StutterInv
<1> QED
  BY <1>1, <1>2, <1>3, <1>4, <1>5 DEF Next

LEMMA Invariance == Spec => []Inv
BY InitInv, NextInv, PTL DEF Spec

-----------------------------------------------------------------------------
(* The results.                                                            *)

\* Every variable of the sink stays in its range; in particular the channel
\* never holds more than its capacity (bounded memory behind the workers).
THEOREM TypeCorrect == Spec => []TypeOK
<1>1. Inv => TypeOK
  BY DEF Inv
<1> QED
  BY <1>1, Invariance, PTL

\* The whole inductive invariant of the sink (run file_sink checks it).
THEOREM SinkInvariantHolds == Spec => []SinkInvariant
<1>1. Inv => SinkInvariant
  BY DEF Inv, Log, SinkInvariant
<1> QED
  BY <1>1, Invariance, PTL

\* The regions the workers were told are accepted form one raster chain, for
\* every interleaving of any number of workers.
THEOREM AcceptedOrder == Spec => []AcceptedInRasterOrder
<1>1. Inv => AcceptedInRasterOrder
  BY DEF Inv, Log
<1> QED
  BY <1>1, Invariance, PTL

\* Nothing accepted is lost, repeated or overtaken on the way to the encoder.
THEOREM PipelineOrder == Spec => []AcceptedThenWritten
<1>1. Inv => AcceptedThenWritten
  BY DEF Inv, Log
<1> QED
  BY <1>1, Invariance, PTL

\* An Ok from finish means that the encoder consumed every accepted region.
THEOREM FinishOk == Spec => []FinishOkMeansAllWritten
<1>1. Inv => FinishOkMeansAllWritten
  BY DEF Inv, ThreadsWellFormed, FinishOkMeansAllWritten
<1> QED
  BY <1>1, Invariance, PTL

-----------------------------------------------------------------------------
(* The refinement.                                                         *)

\* What the writer thread is about to hand over is what the encoder waits for.
LEMMA MessageIsNext ==
    ASSUME Inv, writerPc = "writing"
    PROVE  /\ message \in Regions
           /\ InBounds(message, Width, Height)
           /\ Origin(message) = AfterAll(written, Width)
<1>1. /\ message \in Regions
      /\ receiverOpen
      /\ written \in Seq(Regions)
      /\ channel \in Seq(Regions)
      /\ sent \in Seq(Regions)
  BY DEF Inv, TypeOK, ThreadsWellFormed
<1> DEFINE n == Len(written)
           pre == written \o <<message>>
<1>2. n \in Nat /\ Len(channel) \in Nat /\ (written # <<>> <=> n > 0)
  BY <1>1, LenProperties, EmptySeq
<1>3. /\ pre \in Seq(Regions)
      /\ Len(pre) = n + 1
      /\ \A k \in 1 .. n : pre[k] = written[k]
      /\ pre[n + 1] = message
  <2>1. pre = Append(written, message)
    BY <1>1, AppendIsConcat
  <2> QED
    BY <2>1, <1>1, AppendProperties
<1>4. sent = pre \o channel
  <2>1. InFlight = <<message>>
    BY <1>1, FileSinkAssumption DEF InFlight
  <2> QED
    BY <1>1, <2>1 DEF Inv, Log, AcceptedThenWritten
<1> HIDE DEF n, pre
<1>5. /\ Len(sent) = n + 1 + Len(channel)
      /\ \A k \in 1 .. n + 1 : sent[k] = pre[k]
  <2>1. /\ Len(pre \o channel) = Len(pre) + Len(channel)
        /\ \A k \in 1 .. Len(pre) + Len(channel) :
              (pre \o channel)[k] = IF k <= Len(pre) THEN pre[k] ELSE channel[k - Len(pre)]
    BY <1>1, <1>3, ConcatProperties
  <2> QED
    BY <2>1, <1>2, <1>3, <1>4
<1>6. sent[n + 1] = message /\ n + 1 \in 1 .. Len(sent)
  BY <1>2, <1>3, <1>5
<1>7. InBounds(message, Width, Height)
  BY <1>6 DEF Inv, Log
<1>8. RasterChain(sent, Width)
  BY DEF Inv, Log, AcceptedInRasterOrder
<1>9. Origin(message) = AfterAll(written, Width)
  <2>1. CASE n = 0
    <3>1. sent # <<>> /\ sent[1] = message /\ written = <<>>
      BY <2>1, <1>1, <1>2, <1>5, <1>6, EmptySeq
    <3> QED
      BY <3>1, <1>8 DEF RasterChain, AfterAll
  <2>2. CASE n > 0
    <3>1. n \in 1 .. Len(sent) - 1 /\ sent[n] = written[n] /\ written # <<>>
      BY <2>2, <1>2, <1>3, <1>5
    <3>2. Origin(sent[n + 1]) = AfterRegion(sent[n], Width)
      BY <3>1, <1>8 DEF RasterChain
    <3> QED
      BY <3>1, <3>2, <1>6 DEF AfterAll, n
  <2> QED
    BY <2>1, <2>2, <1>2
<1> QED
  BY <1>1, <1>7, <1>9

LEMMA StepRefines ==
    ASSUME Inv, [Next]_sinkVars
    PROVE  [Abstract!Next]_(Abstract!writerVars)
<1> USE DEF callVars, orderVars, chanVars, writerVars, ownerVars
<1>0. TypeOK /\ ThreadsWellFormed
  BY DEF Inv
\* Steps that change neither the encoder nor the answer of finish stutter.
<1>1. ASSUME UNCHANGED <<written, writerPc, writerExit, finishReply>>
      PROVE  UNCHANGED Abstract!writerVars
  BY <1>1 DEF Abstract!writerVars, EncoderState
<1>2. ASSUME NEW w \in Workers, NEW r \in Regions, Call(w, r)
      PROVE  UNCHANGED Abstract!writerVars
  BY <1>2, <1>1 DEF Call
<1>3. ASSUME NEW w \in Workers, CallStep(w) \/ SpuriousWake(w)
      PROVE  UNCHANGED Abstract!writerVars
  BY <1>3, <1>1 DEF CallStep, ReturnWriterError, TakeTurn, WaitForTurn, SpuriousWake, Send,
                    SendDisconnected
<1>4. CASE Receive \/ Disconnected
  <2>1. UNCHANGED <<written, writerExit, finishReply>> /\ writerPc' # "storingError"
    BY <1>4 DEF Receive, Disconnected
  <2>2. writerPc # "storingError"
    BY <1>4 DEF Receive, Disconnected
  <2> QED
    BY <2>1, <2>2 DEF Abstract!writerVars, EncoderState
<1>5. CASE WriteOk
  <2>1. EncoderState = "open" /\ EncoderState' = "open"
    BY <1>0, <1>5 DEF WriteOk, EncoderState, ThreadsWellFormed
  <2>2. Abstract!Deliver(message)
    <3>1. Abstract!InBounds(message, Width, Height) <=> InBounds(message, Width, Height)
      BY DEF Abstract!InBounds, InBounds
    <3>2. Abstract!Origin(message) = Origin(message)
      BY DEF Abstract!Origin, Origin
    <3>3. Abstract!AfterAll(written, Width) = AfterAll(written, Width)
      BY DEF Abstract!AfterAll, AfterAll, Abstract!AfterRegion, AfterRegion,
             Abstract!TopLeft, TopLeft
    <3>4. writerPc = "writing" /\ written' = Append(written, message) /\ UNCHANGED finishReply
      BY <1>5 DEF WriteOk
    <3> QED
      BY <3>1, <3>2, <3>3, <3>4, <2>1, MessageIsNext DEF Abstract!Deliver
  <2> QED
    BY <2>2, <1>5, MessageIsNext DEF WriteOk, Abstract!Next
<1>6. CASE FinishEncoder \/ EncoderPanics \/ EncoderFails
  <2>1. EncoderState = "open"
    BY <1>0, <1>6 DEF FinishEncoder, EncoderPanics, EncoderFails, EncoderState, ThreadsWellFormed
  <2>2. EncoderState' \in {"committed", "failed"}
    BY <1>0, <1>6 DEF FinishEncoder, EncoderPanics, EncoderFails, ExitWriter, EncoderState,
                      ThreadsWellFormed
  <2>3. UNCHANGED <<written, finishReply>>
    BY <1>6 DEF FinishEncoder, EncoderPanics, EncoderFails
  <2>4. Abstract!Close(EncoderState')
    BY <2>1, <2>3 DEF Abstract!Close
  <2> QED
    BY <2>2, <2>4 DEF Abstract!Next
<1>7. CASE StoreWriterError
  <2>1. EncoderState = "failed" /\ EncoderState' = "failed"
    BY <1>0, <1>7 DEF StoreWriterError, ExitWriter, EncoderState, ThreadsWellFormed
  <2> QED
    BY <1>7, <2>1 DEF StoreWriterError, Abstract!writerVars
<1>8. CASE Finish \/ Abandon
  BY <1>8, <1>1 DEF Finish, Abandon
<1>9. CASE Join
  <2>1. finishReply = "none" /\ EncoderState # "open" /\ EncoderState' = EncoderState
    BY <1>0, <1>9 DEF Join, EncoderState, ThreadsWellFormed, TypeOK
  <2>2. finishReply' = IF EncoderState = "committed" THEN "ok" ELSE "err"
    BY <1>0, <1>9 DEF Join, EncoderState, ThreadsWellFormed, TypeOK
  <2>3. Abstract!Report
    BY <2>1, <2>2, <1>9 DEF Join, Abstract!Report
  <2> QED
    BY <2>3 DEF Abstract!Next
<1>10. CASE UNCHANGED sinkVars
  BY <1>10, <1>1 DEF sinkVars
<1> QED
  BY <1>2, <1>3, <1>4, <1>5, <1>6, <1>7, <1>8, <1>9, <1>10 DEF Next, WriterStep

\* Seen from the encoder and from the caller of finish, the sink with its
\* mutex, its condition variable, its channel and its thread is a plain
\* raster-order writer.
THEOREM Refinement == Spec => ImplementsRasterWriter
<1>1. Init => Abstract!Init
  BY DEF Init, Abstract!Init, EncoderState
<1>2. Inv /\ [Next]_sinkVars => [Abstract!Next]_(Abstract!writerVars)
  BY StepRefines
<1> QED
  BY <1>1, <1>2, Invariance, PTL DEF Spec, ImplementsRasterWriter, Abstract!Spec

=============================================================================
