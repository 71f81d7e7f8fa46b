----------------------- MODULE DoubleBufferSinkProofs -----------------------
(***************************************************************************)
(* Proofs about DoubleBufferSink, for any image, any strips, any number of *)
(* workers, any plan of disjoint tiles and any behaviour of the encoder.   *)
(***************************************************************************)
EXTENDS DoubleBufferSink, SequenceTheorems, FiniteSetTheorems, TLAPS

ImagePixels == Pixels(Region(0, 0, Width, Height))

Message == [region : Strips, pixels : SUBSET ImagePixels]

Stages == {"idle", "locking", "waiting", "copying", "flushing", "swapping"}

TypeOK ==
    /\ plan \in Plans
    /\ taken \subseteq DOMAIN plan
    /\ callPc \in [Workers -> Stages]
    /\ arg \in [Workers -> {0} \cup DOMAIN plan]
    /\ rowsWritten \in [Workers -> Nat]
    /\ reply \in [Workers -> {"none", "ok", "err"}]
    /\ next \in [x : Int, y : Int]
    /\ writerError \in BOOLEAN
    /\ current \in [start : 0 .. Height, rows : 0 .. RowsPerBuffer, count : Nat,
                    pixels : SUBSET ImagePixels, buffer : BOOLEAN]
    /\ flush \in Seq(Message) /\ Len(flush) <= 1
    /\ flushOpen \in BOOLEAN
    /\ spare \in {0, 1}
    /\ spareOpen \in BOOLEAN
    /\ writerPc \in {"receiving", "writing", "recycling", "finishing", "storingError", "exited"}
    /\ message \in Message \cup {NoMessage}
    /\ writerExit \in {"none", "ok", "err", "panic"}
    /\ sinkPc \in {"open", "draining", "joining", "closed", "dropped"}
    /\ finishReply \in {"none", "ok", "err"}
    /\ written \in Seq(Message)

Holds(w) == callPc[w] \in {"copying", "flushing", "swapping"}
Swapping == \E w \in Workers : callPc[w] = "swapping"

\* The rows of its region a worker has not copied yet.
Rest(w) ==
    Region(Mine(w).x, Mine(w).y + rowsWritten[w], Mine(w).width, Mine(w).height - rowsWritten[w])

\* One worker has the mutex; no region is with two workers.
CallsInv ==
    /\ \A w \in Workers :
          /\ callPc[w] = "idle" <=> arg[w] = 0
          /\ arg[w] # 0 => arg[w] \in taken /\ rowsWritten[w] <= Mine(w).height
          /\ callPc[w] \in {"locking", "waiting", "copying"} => rowsWritten[w] < Mine(w).height
    /\ \A v, w \in Workers : v # w => (arg[v] = arg[w] => arg[v] = 0) /\ ~(Holds(v) /\ Holds(w))
    /\ sinkPc # "open" => NoCalls

\* The current strip counts its pixels, and none of those still to come is there.
StripInv ==
    /\ current.rows = StripRows(current.start)
    /\ current.pixels \subseteq Pixels(Strip(current.start, current.rows))
    /\ current.count = Cardinality(current.pixels)
    /\ \A i \in DOMAIN plan \ taken : current.pixels \cap Pixels(plan[i]) = {}
    /\ \A w \in Workers : callPc[w] # "idle" => current.pixels \cap Pixels(Rest(w)) = {}
    /\ \A w \in Workers : callPc[w] \in {"flushing", "swapping"} =>
          /\ current.rows > 0
          /\ current.pixels = Pixels(Strip(current.start, current.rows))
    /\ Swapping => StripEnd < Height

\* Where strip n starts, counted from 0; the image's end when there is none.
StripStart(n) == IF n * RowsPerBuffer < Height THEN n * RowsPerBuffer ELSE Height

\* The writer thread is there, or has closed the encoder in order.
InOrder == writerPc # "exited" \/ writerExit = "ok"

\* The current strip is the one after those that were sent off.
FlushInv ==
    /\ StripsComplete
    /\ InOrder => StripStart(Len(Flushed)) = IF Swapping THEN StripEnd ELSE current.start

BufferInv ==
    /\ BuffersConserved
    /\ writerPc # "exited" /\ current.rows > 0 => (current.buffer = ~Swapping)

ThreadsInv ==
    /\ writerPc \in {"receiving", "finishing", "exited"} => message = NoMessage
    /\ writerPc \in {"writing", "recycling"} => message # NoMessage
    /\ writerPc = "exited" <=> writerExit # "none"
    /\ writerPc = "exited" => flush = <<>>
    /\ writerPc = "storingError" /\ flushOpen => message # NoMessage
    /\ writerPc = "finishing" \/ writerExit = "ok" => flush = <<>> /\ ~flushOpen
    /\ flushOpen <=> sinkPc \in {"open", "draining"}
    /\ spareOpen <=> sinkPc \in {"open", "draining", "joining"}
    /\ sinkPc \in {"draining", "joining"} => current.rows = 0
    /\ finishReply # "none" <=> sinkPc = "closed"
    /\ finishReply = "ok" => writerExit = "ok" /\ current.rows = 0

Inv == TypeOK /\ CallsInv /\ StripInv /\ FlushInv /\ BufferInv /\ ThreadsInv

-----------------------------------------------------------------------------
(* Strips and their pixels.                                                *)

LEMMA Constants ==
    /\ Width \in Nat /\ Height \in Nat /\ RowsPerBuffer \in Nat \ {0}
    /\ \A m \in Message : m # NoMessage
<1>1. ASSUME NEW m \in Message PROVE m # NoMessage
  <2>1. m = [region |-> m.region, pixels |-> m.pixels] /\ m.region \in Strips /\ m.pixels \in SUBSET ImagePixels
    BY DEF Message
  <2> QED
    BY <2>1, DoubleBufferSinkAssumption DEF ImagePixels
<1> QED
  BY <1>1, DoubleBufferSinkAssumption

LEMMA StripFacts ==
    ASSUME NEW start \in 0 .. Height
    PROVE  /\ StripRows(start) \in 0 .. RowsPerBuffer
           /\ start + StripRows(start) <= Height
           /\ StripRows(start) = 0 <=> start = Height
BY Constants DEF StripRows

\* Strip n ends where strip n + 1 starts; strips that have rows start at
\* multiples of their height.
LEMMA StripStep ==
    ASSUME NEW n \in Nat
    PROVE  /\ StripStart(n) \in 0 .. Height
           /\ StripStart(n) < Height => StripStart(n) = n * RowsPerBuffer
           /\ StripStart(n) + StripRows(StripStart(n)) = StripStart(n + 1)
<1>1. /\ n * RowsPerBuffer \in Nat
      /\ (n + 1) * RowsPerBuffer = n * RowsPerBuffer + RowsPerBuffer
  BY Constants
<1> QED
  BY <1>1, Constants DEF StripStart, StripRows

LEMMA StripStartMonotone ==
    ASSUME NEW m \in Nat, NEW n \in Nat, m <= n, StripStart(n) < Height
    PROVE  m * RowsPerBuffer <= n * RowsPerBuffer /\ n * RowsPerBuffer < Height
<1>1. n * RowsPerBuffer = m * RowsPerBuffer + (n - m) * RowsPerBuffer
  BY Constants
<1>2. n * RowsPerBuffer \in Nat /\ m * RowsPerBuffer \in Nat /\ (n - m) * RowsPerBuffer \in Nat
  BY Constants
<1> QED
  BY <1>1, <1>2, Constants DEF StripStart

\* Each row of the image is in one of the strips.
LEMMA LeastNatural ==
    ASSUME NEW T \in SUBSET Nat, T # {}
    PROVE  \E n \in T : \A m \in T : n <= m
<1> DEFINE R == { mn \in Nat \X Nat : mn[1] < mn[2] }
<1>1. IsWellFoundedOn(R, Nat)
  BY NatLessThanWellFounded DEF OpToRel
<1>2. \A m, n \in Nat : m < n => <<m, n>> \in R
  OBVIOUS
<1> HIDE DEF R
<1>3. T \subseteq Nat
  OBVIOUS
<1>4. \E n \in T : \A m \in T : ~(<<m, n>> \in R)
  BY <1>1, <1>3, WFMin, Zenon
<1>5. PICK n \in T : \A m \in T : ~(<<m, n>> \in R)
  BY <1>4
<1>6. ASSUME NEW m \in T PROVE n <= m
  <2>1. m \in Nat /\ n \in Nat /\ ~(<<m, n>> \in R)
    BY <1>3, <1>5
  <2>2. ~(m < n)
    BY <1>2, <2>1, Zenon
  <2> QED
    BY <2>1, <2>2
<1> QED
  BY <1>6

LEMMA RowIsInAStrip ==
    ASSUME NEW n \in Nat, n * RowsPerBuffer >= Height, NEW y \in 0 .. Height - 1
    PROVE  \E i \in 1 .. n : /\ (i - 1) * RowsPerBuffer <= y
                             /\ y < (i - 1) * RowsPerBuffer + StripRows((i - 1) * RowsPerBuffer)
<1> DEFINE T == { m \in Nat : y < m * RowsPerBuffer }
<1>1. n \in T /\ T \in SUBSET Nat
  BY Constants
<1>2. PICK i \in T : \A m \in T : i <= m
  <2> HIDE DEF T
  <2> QED
    BY <1>1, LeastNatural
<1>3. i \in Nat /\ y < i * RowsPerBuffer /\ i # 0 /\ i <= n
  <2>1. i \in Nat /\ y < i * RowsPerBuffer /\ i <= n
    BY <1>1, <1>2
  <2>2. ~(y < 0 * RowsPerBuffer)
    BY Constants
  <2> QED
    BY <2>1, <2>2
<1>4. (i - 1) * RowsPerBuffer <= y
  <2>1. i - 1 \in Nat /\ i - 1 \notin T
    BY <1>2, <1>3
  <2>2. (i - 1) * RowsPerBuffer \in Nat
    BY <2>1, Constants
  <2> QED
    BY <2>1, <2>2
<1>5. (i - 1) * RowsPerBuffer + RowsPerBuffer = i * RowsPerBuffer /\ (i - 1) * RowsPerBuffer \in Nat
  BY <1>3, Constants
<1>6. y < (i - 1) * RowsPerBuffer + StripRows((i - 1) * RowsPerBuffer)
  BY <1>3, <1>4, <1>5, Constants DEF StripRows
<1> QED
  BY <1>3, <1>4, <1>6

\* How many pixels a region has.
LEMMA IntervalSize ==
    ASSUME NEW a \in Nat, NEW n \in Nat
    PROVE  IsFiniteSet(a .. a + n - 1) /\ Cardinality(a .. a + n - 1) = n
BY FS_Interval

LEMMA PixelCount ==
    ASSUME NEW r, r.x \in Nat, r.y \in Nat, r.width \in Nat, r.height \in Nat
    PROVE  /\ IsFiniteSet(Pixels(r))
           /\ Cardinality(Pixels(r)) = r.height * r.width
<1> DEFINE columns == r.x .. r.x + r.width - 1
           rows    == r.y .. r.y + r.height - 1
<1>2. /\ IsFiniteSet(columns) /\ Cardinality(columns) = r.width
      /\ IsFiniteSet(rows) /\ Cardinality(rows) = r.height
  BY IntervalSize, Zenon
<1>3. Pixels(r) = columns \X rows
  BY DEF Pixels
<1> HIDE DEF columns, rows
<1>4. IsFiniteSet(columns \X rows) /\ Cardinality(columns \X rows) = Cardinality(columns) * Cardinality(rows)
  BY <1>2, FS_Product
<1>5. r.width * r.height = r.height * r.width
  OBVIOUS
<1> QED
  BY <1>2, <1>3, <1>4, <1>5

-----------------------------------------------------------------------------
(* The strips that were sent off.                                          *)

\* StripsComplete, of any sequence.
AllComplete(s) ==
    \A i \in DOMAIN s :
        /\ s[i].pixels = Pixels(s[i].region)
        /\ s[i].region = Strip((i - 1) * RowsPerBuffer, StripRows((i - 1) * RowsPerBuffer))

LEMMA CompleteAppend ==
    ASSUME NEW s \in Seq(Message), NEW m \in Message, AllComplete(s),
           m.pixels = Pixels(m.region),
           m.region = Strip(Len(s) * RowsPerBuffer, StripRows(Len(s) * RowsPerBuffer))
    PROVE  AllComplete(Append(s, m))
<1> DEFINE t == Append(s, m)
<1>1. /\ t \in Seq(Message)
      /\ Len(t) = Len(s) + 1
      /\ \A i \in 1 .. Len(s) : t[i] = s[i]
      /\ t[Len(s) + 1] = m
  BY AppendProperties
<1>2. Len(s) \in Nat /\ DOMAIN s = 1 .. Len(s) /\ DOMAIN t = 1 .. Len(t)
  BY <1>1, LenProperties
<1> HIDE DEF t
<1>3. ASSUME NEW i \in 1 .. Len(s)
      PROVE  /\ t[i].pixels = Pixels(t[i].region)
             /\ t[i].region = Strip((i - 1) * RowsPerBuffer, StripRows((i - 1) * RowsPerBuffer))
  BY <1>1, <1>2 DEF AllComplete
<1>4. DOMAIN t = (1 .. Len(s)) \cup {Len(s) + 1} /\ Len(s) + 1 - 1 = Len(s)
  BY <1>1, <1>2
<1>5. AllComplete(t)
  BY <1>1, <1>3, <1>4 DEF AllComplete
<1> QED
  BY <1>5 DEF t

LEMMA CompletePrefix ==
    ASSUME NEW s \in Seq(Message), NEW t \in Seq(Message), AllComplete(s \o t)
    PROVE  AllComplete(s)
<1> DEFINE c == s \o t
<1>1. /\ c \in Seq(Message)
      /\ Len(c) = Len(s) + Len(t)
      /\ \A i \in 1 .. Len(s) + Len(t) : c[i] = IF i <= Len(s) THEN s[i] ELSE t[i - Len(s)]
  BY ConcatProperties
<1>2. /\ Len(s) \in Nat /\ Len(t) \in Nat
      /\ DOMAIN s = 1 .. Len(s) /\ DOMAIN c = 1 .. Len(c)
  BY <1>1, LenProperties
<1> HIDE DEF c
<1>3. \A i \in DOMAIN s : i \in DOMAIN c /\ c[i] = s[i]
  BY <1>1, <1>2
<1>4. AllComplete(c)
  BY DEF c
<1> QED
  BY <1>3, <1>4 DEF AllComplete

\* The sequences of messages that the properties talk about.
LEMMA FlushedFacts ==
    ASSUME TypeOK
    PROVE  /\ InHand \in Seq(Message)
           /\ written \o InHand \in Seq(Message)
           /\ Flushed \in Seq(Message)
           /\ Len(Flushed) = Len(written) + Len(InHand) + Len(flush)
           /\ Len(written) \in Nat /\ Len(InHand) \in Nat /\ Len(flush) \in Nat
<1>1. InHand \in Seq(Message)
  <2>1. CASE message = NoMessage \/ writerPc = "recycling"
    BY <2>1, EmptySeq DEF InHand
  <2>2. CASE ~(message = NoMessage \/ writerPc = "recycling")
    BY <2>2 DEF InHand, TypeOK
  <2> QED
    BY <2>1, <2>2
<1>2. written \in Seq(Message) /\ flush \in Seq(Message)
  BY DEF TypeOK
<1>3. /\ written \o InHand \in Seq(Message)
      /\ Len(written \o InHand) = Len(written) + Len(InHand)
  BY <1>1, <1>2, ConcatProperties
<1>4. Flushed = (written \o InHand) \o flush
  BY <1>1, <1>2, ConcatAssociative DEF Flushed
<1>5. /\ (written \o InHand) \o flush \in Seq(Message)
      /\ Len((written \o InHand) \o flush) = Len(written \o InHand) + Len(flush)
  BY <1>2, <1>3, ConcatProperties
<1> QED
  BY <1>1, <1>2, <1>3, <1>4, <1>5, LenProperties

-----------------------------------------------------------------------------
(* The tiles of the plan, and what a worker has in hand.                   *)

LEMMA PlanFacts ==
    ASSUME TypeOK, NEW i \in DOMAIN plan
    PROVE  /\ i \in Nat \ {0}
           /\ plan[i].x \in Nat /\ plan[i].y \in Nat
           /\ plan[i].width \in Nat \ {0} /\ plan[i].height \in Nat \ {0}
           /\ plan[i].x + plan[i].width <= Width
           /\ plan[i].y + plan[i].height <= Height
           /\ plan[i] = Region(plan[i].x, plan[i].y, plan[i].width, plan[i].height)
           /\ \A j \in DOMAIN plan : i # j => Pixels(plan[i]) \cap Pixels(plan[j]) = {}
<1>1. plan \in Plans
  BY DEF TypeOK
<1>2. DOMAIN plan = 1 .. Len(plan)
  BY <1>1, DoubleBufferSinkAssumption
<1>3. /\ plan[i] \in [x : Nat, y : Nat, width : Nat \ {0}, height : Nat \ {0}]
      /\ InBounds(plan[i], Width, Height)
  BY <1>1, DoubleBufferSinkAssumption
<1>4. \A j \in DOMAIN plan : i # j => Pixels(plan[i]) \cap Pixels(plan[j]) = {}
  BY <1>1, DoubleBufferSinkAssumption
<1> QED
  BY <1>2, <1>3, <1>4 DEF InBounds, Region

\* A worker that is in a call has a tile of the plan.
LEMMA TileFacts ==
    ASSUME TypeOK, CallsInv, NEW w \in Workers, callPc[w] # "idle"
    PROVE  /\ arg[w] \in DOMAIN plan /\ arg[w] \in taken
           /\ arg[w] # 0
           /\ sinkPc = "open"
           /\ rowsWritten[w] \in 0 .. Mine(w).height
           /\ Mine(w).x \in Nat /\ Mine(w).y \in Nat
           /\ Mine(w).width \in Nat \ {0} /\ Mine(w).height \in Nat \ {0}
           /\ Mine(w).x + Mine(w).width <= Width
           /\ Mine(w).y + Mine(w).height <= Height
           /\ Mine(w) = Region(Mine(w).x, Mine(w).y, Mine(w).width, Mine(w).height)
<1>1. arg[w] \in DOMAIN plan /\ arg[w] # 0 /\ arg[w] \in taken
  BY DEF CallsInv, TypeOK
<1>2. sinkPc = "open"
  BY DEF CallsInv, NoCalls
<1> QED
  BY <1>1, <1>2, PlanFacts DEF Mine, CallsInv, TypeOK

\* The rows still to copy are rows of the tile.
LEMMA RestWithin ==
    ASSUME TypeOK, CallsInv, NEW w \in Workers, callPc[w] # "idle"
    PROVE  Pixels(Rest(w)) \subseteq Pixels(Mine(w))
<1> DEFINE m == Mine(w)
           k == rowsWritten[w]
<1>1. /\ k \in 0 .. m.height
      /\ m.x \in Nat /\ m.y \in Nat /\ m.width \in Nat /\ m.height \in Nat
      /\ m = Region(m.x, m.y, m.width, m.height)
  BY TileFacts
<1>2. Rest(w) = Region(m.x, m.y + k, m.width, m.height - k)
  BY DEF Rest
<1> HIDE DEF m, k
<1>3. Pixels(Region(m.x, m.y + k, m.width, m.height - k)) \subseteq Pixels(Region(m.x, m.y, m.width, m.height))
  BY <1>1 DEF Pixels, Region
<1> QED
  BY <1>1, <1>2, <1>3 DEF m

-----------------------------------------------------------------------------
(* The initial state.                                                      *)

LEMMA InitInv == Init => Inv
<1> SUFFICES ASSUME Init PROVE Inv
  OBVIOUS
<1>1. /\ <<>> \in Seq(Message) /\ Len(<<>>) = 0
      /\ InHand = <<>>
  BY EmptySeq DEF Init, InHand
<1>2. TypeOK
  <2>1. /\ StripRows(0) \in 0 .. RowsPerBuffer /\ 0 \in 0 .. Height
    BY Constants, StripFacts
  <2>2. current \in [start : 0 .. Height, rows : 0 .. RowsPerBuffer, count : Nat,
                     pixels : SUBSET ImagePixels, buffer : BOOLEAN]
    BY <2>1 DEF Init, EmptyStrip
  <2>3. next \in [x : Int, y : Int]
    BY DEF Init, TopLeft
  <2>4. /\ callPc \in [Workers -> Stages]
        /\ arg \in [Workers -> {0} \cup DOMAIN plan]
        /\ rowsWritten \in [Workers -> Nat]
        /\ reply \in [Workers -> {"none", "ok", "err"}]
    BY DEF Init, Stages
  <2>5. /\ plan \in Plans /\ taken \subseteq DOMAIN plan /\ spare \in {0, 1} /\ message \in Message \cup {NoMessage}
        /\ flush \in Seq(Message) /\ Len(flush) <= 1 /\ written \in Seq(Message)
    BY <1>1 DEF Init
  <2>6. /\ writerError \in BOOLEAN /\ flushOpen \in BOOLEAN /\ spareOpen \in BOOLEAN
        /\ writerPc = "receiving" /\ writerExit = "none" /\ sinkPc = "open" /\ finishReply = "none"
    BY DEF Init
  <2> QED
    BY <2>2, <2>3, <2>4, <2>5, <2>6 DEF TypeOK
<1>3. CallsInv
  BY DEF Init, CallsInv, Holds, NoCalls
<1>4. StripInv
  <2>1. /\ current = EmptyStrip(0, TRUE)
        /\ callPc = [w \in Workers |-> "idle"]
    BY DEF Init
  <2>2. current.start = 0 /\ current.rows = StripRows(0) /\ current.count = 0 /\ current.pixels = {}
    BY <2>1 DEF EmptyStrip
  <2>3. Cardinality({}) = 0
    BY FS_EmptySet
  <2> QED
    BY <2>1, <2>2, <2>3 DEF StripInv, Swapping
<1>5. FlushInv
  <2>1. <<>> \o <<>> = <<>>
    BY <1>1, ConcatEmptySeq
  <2>2. Flushed = <<>>
    BY <1>1, <2>1 DEF Init, Flushed
  <2>3. DOMAIN <<>> = {}
    OBVIOUS
  <2>4. StripsComplete
    BY <2>2, <2>3 DEF StripsComplete
  <2>5. StripStart(0) = 0
    BY Constants DEF StripStart
  <2>6. current.start = 0 /\ ~Swapping
    BY DEF Init, EmptyStrip, Swapping
  <2> QED
    BY <1>1, <2>2, <2>4, <2>5, <2>6 DEF FlushInv
<1>6. BufferInv
  <2>1. /\ current.buffer = TRUE /\ ~Swapping /\ message = NoMessage /\ Len(flush) = 0 /\ spare = 1
    BY <1>1 DEF Init, EmptyStrip, Swapping
  <2>2. BuffersConserved
    BY <2>1 DEF BuffersConserved
  <2>3. current.buffer = ~Swapping
    BY <2>1
  <2> QED
    BY <2>2, <2>3 DEF BufferInv
<1>7. ThreadsInv
  BY DEF Init, ThreadsInv
<1> QED
  BY <1>2, <1>3, <1>4, <1>5, <1>6, <1>7 DEF Inv

-----------------------------------------------------------------------------
(* The conjuncts that a step leaves alone.                                 *)

LEMMA FlushStutter ==
    ASSUME FlushInv, UNCHANGED <<written, message, writerPc, writerExit, flush, current>>,
           Swapping' = Swapping
    PROVE  FlushInv'
<1>1. Flushed' = Flushed /\ InOrder' = InOrder /\ StripEnd' = StripEnd
  BY DEF Flushed, InHand, InOrder, StripEnd
<1> QED
  BY <1>1 DEF FlushInv, StripsComplete

LEMMA BufferStutter ==
    ASSUME BufferInv, UNCHANGED <<sinkPc, message, writerPc, flush, spare, current>>,
           Swapping' = Swapping
    PROVE  BufferInv'
BY DEF BufferInv, BuffersConserved

LEMMA ThreadsStutter ==
    ASSUME ThreadsInv, UNCHANGED <<chanVars, writerVars, ownerVars, current>>
    PROVE  ThreadsInv'
BY DEF ThreadsInv, chanVars, writerVars, ownerVars

-----------------------------------------------------------------------------
(* The calls of the workers, up to the copy.                               *)

LEMMA CallInv ==
    ASSUME Inv, NEW w \in Workers, NEW i \in DOMAIN plan, Call(w, i)
    PROVE  Inv'
<1> USE DEF callVars, stateVars, chanVars, writerVars, ownerVars
<1>0. TypeOK /\ CallsInv /\ StripInv /\ FlushInv /\ BufferInv /\ ThreadsInv
  BY DEF Inv
<1>1. /\ sinkPc = "open" /\ callPc[w] = "idle" /\ i \notin taken
      /\ taken' = taken \cup {i}
      /\ callPc' = [callPc EXCEPT ![w] = "locking"]
      /\ arg' = [arg EXCEPT ![w] = i]
      /\ rowsWritten' = [rowsWritten EXCEPT ![w] = 0]
      /\ reply' = [reply EXCEPT ![w] = "none"]
      /\ UNCHANGED <<plan, stateVars, chanVars, writerVars, ownerVars>>
  BY DEF Call
<1>2. /\ i \in Nat \ {0}
      /\ plan[i].x \in Nat /\ plan[i].y \in Nat
      /\ plan[i].width \in Nat \ {0} /\ plan[i].height \in Nat \ {0}
      /\ plan[i] = Region(plan[i].x, plan[i].y, plan[i].width, plan[i].height)
  BY <1>0, PlanFacts
<1>3. \A v \in Workers :
         /\ callPc'[v] = IF v = w THEN "locking" ELSE callPc[v]
         /\ arg'[v] = IF v = w THEN i ELSE arg[v]
         /\ rowsWritten'[v] = IF v = w THEN 0 ELSE rowsWritten[v]
  BY <1>0, <1>1 DEF TypeOK
<1>4. Swapping' = Swapping
  BY <1>1, <1>3 DEF Swapping
<1>5. TypeOK'
  BY <1>0, <1>1 DEF TypeOK, Stages
<1>6. CallsInv'
  <2>1. \A v \in Workers : arg[v] # 0 => arg[v] \in taken
    BY <1>0 DEF CallsInv
  <2>2. \A v \in Workers : Mine(v)' = IF v = w THEN plan[i] ELSE Mine(v)
    BY <1>1, <1>3 DEF Mine
  <2>3. \A v \in Workers : Holds(v)' = Holds(v)
    BY <1>1, <1>3 DEF Holds
  <2> QED
    BY <1>0, <1>1, <1>2, <1>3, <2>1, <2>2, <2>3 DEF CallsInv, NoCalls
<1>7. StripInv'
  <2>1. current.pixels \cap Pixels(plan[i]) = {}
    BY <1>0, <1>1 DEF StripInv
  <2>2. Rest(w)' = plan[i]
    BY <1>1, <1>2, <1>3 DEF Rest, Mine, Region
  <2>3. \A v \in Workers : v # w => Rest(v)' = Rest(v)
    BY <1>1, <1>3 DEF Rest, Mine
  <2>4. \A v \in Workers : callPc'[v] # "idle" => current'.pixels \cap Pixels(Rest(v)') = {}
    BY <1>0, <1>1, <1>3, <2>1, <2>2, <2>3 DEF StripInv
  <2>5. \A j \in DOMAIN plan' \ taken' : current'.pixels \cap Pixels(plan'[j]) = {}
    BY <1>0, <1>1 DEF StripInv
  <2>6. StripEnd' = StripEnd
    BY <1>1 DEF StripEnd
  <2> QED
    BY <1>0, <1>1, <1>3, <1>4, <2>4, <2>5, <2>6 DEF StripInv
<1>8. FlushInv' /\ BufferInv' /\ ThreadsInv'
  BY <1>0, <1>1, <1>4, FlushStutter, BufferStutter, ThreadsStutter
<1> QED
  BY <1>5, <1>6, <1>7, <1>8 DEF Inv

\* A worker takes its turn, starts to wait or wakes up.
LEMMA TurnInv ==
    ASSUME Inv, NEW w \in Workers, TakeTurn(w) \/ WaitForTurn(w) \/ SpuriousWake(w)
    PROVE  Inv'
<1> USE DEF callVars, stateVars, chanVars, writerVars, ownerVars
<1>0. TypeOK /\ CallsInv /\ StripInv /\ FlushInv /\ BufferInv /\ ThreadsInv
  BY DEF Inv
<1>1. /\ callPc[w] \in {"locking", "waiting"}
      /\ \E pc \in {"locking", "waiting", "copying"} : callPc' = [callPc EXCEPT ![w] = pc]
      /\ callPc'[w] = "copying" => MutexFree
      /\ UNCHANGED <<plan, taken, arg, rowsWritten, reply, stateVars, chanVars, writerVars, ownerVars>>
  BY <1>0 DEF TakeTurn, WaitForTurn, SpuriousWake, TypeOK
<1>2. /\ callPc'[w] \in {"locking", "waiting", "copying"}
      /\ \A v \in Workers : v # w => callPc'[v] = callPc[v]
  BY <1>0, <1>1 DEF TypeOK
<1>3. Swapping' = Swapping
  BY <1>1, <1>2 DEF Swapping
<1>4. TypeOK'
  BY <1>0, <1>1 DEF TypeOK, Stages
<1>5. CallsInv'
  <2>1. \A v \in Workers : Mine(v)' = Mine(v)
    BY <1>1 DEF Mine
  <2>2. \A v \in Workers : v # w /\ Holds(v)' => Holds(v) /\ (Holds(w)' => MutexFree)
    BY <1>1, <1>2 DEF Holds
  <2> QED
    BY <1>0, <1>1, <1>2, <2>1, <2>2 DEF CallsInv, NoCalls, Holds, MutexFree
<1>6. StripInv'
  <2>1. \A v \in Workers : Rest(v)' = Rest(v)
    BY <1>1 DEF Rest, Mine
  <2>2. StripEnd' = StripEnd
    BY <1>1 DEF StripEnd
  <2> QED
    BY <1>0, <1>1, <1>2, <1>3, <2>1, <2>2 DEF StripInv
<1>7. FlushInv' /\ BufferInv' /\ ThreadsInv'
  BY <1>0, <1>1, <1>3, FlushStutter, BufferStutter, ThreadsStutter
<1> QED
  BY <1>4, <1>5, <1>6, <1>7 DEF Inv

\* A call returns an error.  The one that waits for a buffer does so only when
\* the writer thread has ended, and then not in order.
LEMMA CallFailsInv ==
    ASSUME Inv, NEW w \in Workers,
           ReturnWriterError(w) \/ CopyMisses(w) \/ SwapDisconnected(w)
    PROVE  Inv'
<1> USE DEF callVars, stateVars, chanVars, writerVars, ownerVars
<1>0. TypeOK /\ CallsInv /\ StripInv /\ FlushInv /\ BufferInv /\ ThreadsInv
  BY DEF Inv
<1>1. /\ callPc[w] \in {"locking", "copying", "swapping"}
      /\ callPc[w] = "swapping" => writerPc = "exited"
      /\ CallFails(w)
  BY DEF ReturnWriterError, CopyMisses, SwapDisconnected
<1>2. /\ callPc' = [callPc EXCEPT ![w] = "idle"]
      /\ reply' = [reply EXCEPT ![w] = "err"]
      /\ arg' = [arg EXCEPT ![w] = 0]
      /\ UNCHANGED <<plan, taken, rowsWritten, stateVars, chanVars, writerVars, ownerVars>>
  BY <1>1 DEF CallFails
<1>3. \A v \in Workers :
         /\ callPc'[v] = IF v = w THEN "idle" ELSE callPc[v]
         /\ arg'[v] = IF v = w THEN 0 ELSE arg[v]
  BY <1>0, <1>2 DEF TypeOK
<1>4. TypeOK'
  BY <1>0, <1>2 DEF TypeOK, Stages
<1>5. CallsInv'
  <2>1. \A v \in Workers : v # w => Mine(v)' = Mine(v) /\ Holds(v)' = Holds(v)
    BY <1>2, <1>3 DEF Mine, Holds
  <2>2. ~Holds(w)'
    BY <1>3 DEF Holds
  <2> QED
    BY <1>0, <1>2, <1>3, <2>1, <2>2 DEF CallsInv, NoCalls
<1>6. Swapping' => Swapping
  BY <1>3 DEF Swapping
<1>7. StripInv'
  <2>1. \A v \in Workers : v # w => Rest(v)' = Rest(v)
    BY <1>2, <1>3 DEF Rest, Mine
  <2>2. StripEnd' = StripEnd
    BY <1>2 DEF StripEnd
  <2> QED
    BY <1>0, <1>2, <1>3, <1>6, <2>1, <2>2 DEF StripInv
<1>8. ThreadsInv'
  BY <1>0, <1>2, ThreadsStutter
<1>9. CASE callPc[w] = "swapping"
  <2>1. writerExit # "ok" /\ writerPc = "exited"
    BY <1>0, <1>1, <1>9, TileFacts DEF ThreadsInv
  <2>2. ~InOrder' /\ Flushed' = Flushed
    BY <1>2, <2>1 DEF InOrder, Flushed, InHand
  <2>3. FlushInv'
    BY <1>0, <2>2 DEF FlushInv, StripsComplete
  <2>4. BufferInv'
    BY <1>0, <1>2, <2>1 DEF BufferInv, BuffersConserved
  <2> QED
    BY <1>4, <1>5, <1>7, <1>8, <2>3, <2>4 DEF Inv
<1>10. CASE callPc[w] # "swapping"
  <2>1. Swapping' = Swapping
    BY <1>3, <1>10 DEF Swapping
  <2>2. FlushInv' /\ BufferInv'
    BY <1>0, <1>2, <2>1, FlushStutter, BufferStutter
  <2> QED
    BY <1>4, <1>5, <1>7, <1>8, <2>2 DEF Inv
<1> QED
  BY <1>9, <1>10

-----------------------------------------------------------------------------
(* The copy.                                                               *)

\* The piece lies in the current strip and in what the worker has left, so
\* that the strip's count goes on counting its pixels.
LEMMA PieceFacts ==
    ASSUME TypeOK, CallsInv, StripInv, NEW w \in Workers, callPc[w] = "copying", Fits(w)
    PROVE  LET pixels == current.pixels \cup Pixels(Piece(w))
           IN  /\ PieceRows(w) \in 1 .. Mine(w).height - rowsWritten[w]
               /\ Pixels(Piece(w)) \subseteq Pixels(Rest(w))
               /\ pixels \subseteq Pixels(Strip(current.start, current.rows))
               /\ pixels \subseteq ImagePixels
               /\ CountPixels(Piece(w)) \in Nat
               /\ Cardinality(pixels) = current.count + CountPixels(Piece(w))
               /\ Cardinality(pixels) = Width * current.rows
                     => pixels = Pixels(Strip(current.start, current.rows))
<1> DEFINE m == Mine(w)
           k == rowsWritten[w]
           s == current.start
           r == current.rows
           p == PieceRows(w)
           piece == Pixels(Region(m.x, m.y + k, m.width, p))
           strip == Pixels(Region(0, s, Width, r))
           pixels == current.pixels \cup piece
<1>1. /\ m.x \in Nat /\ m.y \in Nat /\ m.width \in Nat \ {0} /\ m.height \in Nat \ {0}
      /\ m.x + m.width <= Width
      /\ k \in Nat /\ k < m.height
  BY TileFacts DEF CallsInv, TypeOK
<1>2. /\ s \in Nat /\ r \in Nat /\ r > 0 /\ s <= m.y + k /\ m.y + k < s + r
      /\ s + r <= Height
      /\ Width \in Nat /\ Height \in Nat
  <2>1. s \in 0 .. Height /\ r = StripRows(s)
    BY DEF TypeOK, StripInv
  <2>2. r > 0 /\ s <= m.y + k /\ m.y + k < s + r
    BY DEF Fits, PieceRow, StripEnd
  <2> QED
    BY <2>1, <2>2, StripFacts, Constants
<1>3. p \in 1 .. m.height - k /\ m.y + k + p <= s + r
  <2>1. p = IF s + r - (m.y + k) < m.height - k THEN s + r - (m.y + k) ELSE m.height - k
    BY <1>1, <1>2 DEF PieceRows, PieceRow, StripEnd
  <2> HIDE DEF p
  <2> QED
    BY <2>1, <1>1, <1>2
<1>4. /\ Pixels(Piece(w)) = piece
      /\ CountPixels(Piece(w)) = p * m.width
      /\ Pixels(Strip(s, r)) = strip
  BY DEF Piece, PieceRow, CountPixels, Region, Strip
<1>5. Pixels(Rest(w)) = Pixels(Region(m.x, m.y + k, m.width, m.height - k))
  BY DEF Rest
<1>6. current.pixels \cap Pixels(Rest(w)) = {}
  BY DEF StripInv
<1>7. /\ current.pixels \subseteq strip
      /\ current.count = Cardinality(current.pixels)
      /\ current.count \in Nat
  BY <1>4 DEF StripInv, TypeOK
<1> HIDE DEF m, k, s, r, p
<1>8. piece \subseteq Pixels(Rest(w))
  BY <1>1, <1>3, <1>5 DEF Pixels, Region
<1>9. piece \subseteq strip
  BY <1>1, <1>2, <1>3 DEF Pixels, Region
<1>10. strip \subseteq ImagePixels
  BY <1>2 DEF Pixels, Region, ImagePixels
<1>11. /\ IsFiniteSet(piece) /\ Cardinality(piece) = p * m.width
       /\ IsFiniteSet(strip) /\ Cardinality(strip) = r * Width
  <2> DEFINE a == Region(m.x, m.y + k, m.width, p)
             b == Region(0, s, Width, r)
  <2>1. /\ a.x \in Nat /\ a.y \in Nat /\ a.width \in Nat /\ a.height \in Nat
        /\ a.width = m.width /\ a.height = p
        /\ b.x \in Nat /\ b.y \in Nat /\ b.width \in Nat /\ b.height \in Nat
        /\ b.width = Width /\ b.height = r
    BY <1>1, <1>2, <1>3 DEF Region
  <2>2. piece = Pixels(a) /\ strip = Pixels(b)
    OBVIOUS
  <2> HIDE DEF a, b, piece, strip
  <2> QED
    BY <2>1, <2>2, PixelCount
<1> HIDE DEF piece, strip
<1>12. IsFiniteSet(current.pixels)
  BY <1>7, <1>11, FS_Subset
<1>13. /\ current.pixels \cap piece = {}
       /\ pixels \subseteq strip
  BY <1>6, <1>7, <1>8, <1>9
<1>14. Cardinality(pixels) = current.count + p * m.width /\ p * m.width \in Nat
  <2>1. Cardinality({}) = 0
    BY FS_EmptySet
  <2>2. Cardinality(pixels) = Cardinality(current.pixels) + Cardinality(piece) - Cardinality(current.pixels \cap piece)
    BY <1>11, <1>12, FS_Union
  <2>3. p * m.width \in Nat
    BY <1>1, <1>3
  <2>4. Cardinality(current.pixels \cap piece) = 0
    BY <1>13, <2>1
  <2> HIDE DEF pixels
  <2> QED
    BY <2>2, <2>3, <2>4, <1>7, <1>11
<1>15. Cardinality(pixels) = Width * r => pixels = strip
  <2>1. r * Width = Width * r
    BY <1>2
  <2>2. Cardinality(strip) = Cardinality(pixels) => strip = pixels
    BY <1>11, <1>13, FS_Subset
  <2> QED
    BY <2>1, <2>2, <1>11
<1> QED
  BY <1>3, <1>4, <1>8, <1>10, <1>13, <1>14, <1>15 DEF m, k, s, r, p

\* What a copy does: the piece is in the strip, and the worker has a full
\* strip to send off, or is done, or goes on.
LEMMA CopyEffect ==
    ASSUME TypeOK, NEW w \in Workers, Copy(w)
    PROVE  /\ callPc[w] = "copying" /\ Fits(w)
           /\ current' = [current EXCEPT !.count = current.count + CountPixels(Piece(w)),
                                         !.pixels = current.pixels \cup Pixels(Piece(w))]
           /\ \A v \in Workers \ {w} :
                 /\ callPc'[v] = callPc[v] \/ (callPc[v] = "waiting" /\ callPc'[v] = "locking")
                 /\ arg'[v] = arg[v]
                 /\ rowsWritten'[v] = rowsWritten[v]
           /\ \/ callPc'[w] = "idle" /\ arg'[w] = 0
              \/ /\ arg'[w] = arg[w]
                 /\ rowsWritten'[w] = rowsWritten[w] + PieceRows(w)
                 /\ \/ /\ callPc'[w] = "flushing"
                       /\ current.count + CountPixels(Piece(w)) = Width * current.rows
                    \/ callPc'[w] = "copying" /\ rowsWritten'[w] # Mine(w).height
           /\ UNCHANGED <<plan, taken, writerError, chanVars, writerVars, ownerVars>>
<1> DEFINE count == current.count + CountPixels(Piece(w))
           done  == rowsWritten[w] + PieceRows(w)
<1>1. /\ callPc[w] = "copying" /\ Fits(w)
      /\ current' = [current EXCEPT !.count = count, !.pixels = current.pixels \cup Pixels(Piece(w))]
      /\ UNCHANGED <<plan, taken, writerError, chanVars, writerVars, ownerVars>>
  BY DEF Copy
<1>2. \/ /\ count = Width * current.rows
         /\ callPc' = [callPc EXCEPT ![w] = "flushing"]
         /\ rowsWritten' = [rowsWritten EXCEPT ![w] = done]
         /\ UNCHANGED <<arg, reply, next>>
      \/ Finished(w) /\ UNCHANGED rowsWritten
      \/ /\ done # Mine(w).height
         /\ rowsWritten' = [rowsWritten EXCEPT ![w] = done]
         /\ UNCHANGED <<callPc, arg, reply, next>>
  BY DEF Copy
<1>3. callPc \in [Workers -> Stages] /\ arg \in [Workers -> {0} \cup DOMAIN plan] /\ rowsWritten \in [Workers -> Nat]
  BY DEF TypeOK
<1> HIDE DEF count, done
<1>4. CASE /\ count = Width * current.rows
           /\ callPc' = [callPc EXCEPT ![w] = "flushing"]
           /\ rowsWritten' = [rowsWritten EXCEPT ![w] = done]
           /\ UNCHANGED <<arg, reply, next>>
  BY <1>1, <1>3, <1>4 DEF count, done
<1>5. CASE Finished(w) /\ UNCHANGED rowsWritten
  BY <1>1, <1>3, <1>5 DEF Finished, Notified, count
<1>6. CASE /\ done # Mine(w).height
           /\ rowsWritten' = [rowsWritten EXCEPT ![w] = done]
           /\ UNCHANGED <<callPc, arg, reply, next>>
  BY <1>1, <1>3, <1>6 DEF count, done
<1> QED
  BY <1>2, <1>4, <1>5, <1>6

LEMMA CopyInv ==
    ASSUME Inv, NEW w \in Workers, Copy(w)
    PROVE  Inv'
<1> USE DEF callVars, stateVars, chanVars, writerVars, ownerVars
<1>0. TypeOK /\ CallsInv /\ StripInv /\ FlushInv /\ BufferInv /\ ThreadsInv
  BY DEF Inv
<1> DEFINE p == PieceRows(w)
           piece == Pixels(Piece(w))
           count == current.count + CountPixels(Piece(w))
<1>1. /\ callPc[w] = "copying" /\ Fits(w)
      /\ current' = [current EXCEPT !.count = count, !.pixels = current.pixels \cup piece]
      /\ \A v \in Workers \ {w} :
            /\ callPc'[v] = callPc[v] \/ (callPc[v] = "waiting" /\ callPc'[v] = "locking")
            /\ arg'[v] = arg[v]
            /\ rowsWritten'[v] = rowsWritten[v]
      /\ \/ callPc'[w] = "idle" /\ arg'[w] = 0
         \/ /\ arg'[w] = arg[w]
            /\ rowsWritten'[w] = rowsWritten[w] + p
            /\ \/ callPc'[w] = "flushing" /\ count = Width * current.rows
               \/ callPc'[w] = "copying" /\ rowsWritten'[w] # Mine(w).height
      /\ UNCHANGED <<plan, taken, writerError, chanVars, writerVars, ownerVars>>
  BY <1>0, CopyEffect
<1>2. /\ p \in 1 .. Mine(w).height - rowsWritten[w]
      /\ piece \subseteq Pixels(Rest(w))
      /\ current.pixels \cup piece \subseteq Pixels(Strip(current.start, current.rows))
      /\ current.pixels \cup piece \subseteq ImagePixels
      /\ CountPixels(Piece(w)) \in Nat
      /\ Cardinality(current.pixels \cup piece) = count
      /\ count = Width * current.rows => current.pixels \cup piece = Pixels(Strip(current.start, current.rows))
  BY <1>0, <1>1, PieceFacts
<1>3. /\ current'.start = current.start /\ current'.rows = current.rows
      /\ current'.buffer = current.buffer
      /\ current'.count = count /\ current'.pixels = current.pixels \cup piece
      /\ current' \in [start : 0 .. Height, rows : 0 .. RowsPerBuffer, count : Nat,
                       pixels : SUBSET ImagePixels, buffer : BOOLEAN]
  <2>1. current.count \in Nat /\ count \in Nat
    BY <1>0, <1>2 DEF TypeOK
  <2> QED
    BY <1>0, <1>1, <1>2, <2>1 DEF TypeOK
<1>4. /\ arg[w] \in DOMAIN plan /\ arg[w] # 0 /\ arg[w] \in taken
      /\ rowsWritten[w] \in Nat /\ Mine(w).height \in Nat /\ sinkPc = "open"
      /\ Mine(w).x \in Nat /\ Mine(w).y \in Nat /\ Mine(w).width \in Nat
  BY <1>0, <1>1, TileFacts DEF TypeOK
<1>5. piece \subseteq Pixels(plan[arg[w]])
  BY <1>0, <1>1, <1>2, RestWithin DEF Mine
<1> HIDE DEF p, count
<1>6. ~Swapping' /\ ~Swapping
  <2>1. \A v \in Workers : callPc[v] # "swapping"
    BY <1>0, <1>1 DEF CallsInv, Holds
  <2> QED
    BY <1>1, <2>1 DEF Swapping
<1>7. TypeOK'
  <2>1. callPc' \in [Workers -> Stages] /\ arg' \in [Workers -> {0} \cup DOMAIN plan]
        /\ rowsWritten' \in [Workers -> Nat] /\ reply' \in [Workers -> {"none", "ok", "err"}]
    <3>1. /\ callPc \in [Workers -> Stages] /\ arg \in [Workers -> {0} \cup DOMAIN plan]
          /\ rowsWritten \in [Workers -> Nat] /\ reply \in [Workers -> {"none", "ok", "err"}]
      BY <1>0 DEF TypeOK
    <3>2. rowsWritten[w] + p \in Nat
      BY <1>2, <1>4
    <3> QED
      BY <3>1, <3>2 DEF Copy, Finished, Notified, p, Stages
  <2>2. next' \in [x : Int, y : Int]
    <3>1. AfterRegion(Mine(w), Width) \in [x : Int, y : Int]
      BY <1>4, Constants DEF AfterRegion
    <3> QED
      BY <1>0, <3>1 DEF Copy, Finished, TypeOK
  <2> QED
    BY <1>0, <1>1, <1>3, <2>1, <2>2 DEF TypeOK
<1>8. \A v \in Workers \ {w} : Mine(v)' = Mine(v) /\ Holds(v)' = Holds(v) /\ Rest(v)' = Rest(v)
  BY <1>1 DEF Mine, Holds, Rest
<1>9. CallsInv'
  <2>1. \/ callPc'[w] = "idle" /\ arg'[w] = 0
        \/ /\ arg'[w] = arg[w] /\ Mine(w)' = Mine(w)
           /\ callPc'[w] \in {"flushing", "copying"}
           /\ rowsWritten'[w] <= Mine(w).height
           /\ callPc'[w] = "copying" => rowsWritten'[w] < Mine(w).height
    BY <1>1, <1>2, <1>4 DEF Mine
  <2>2. \A v \in Workers \ {w} : ~Holds(v)
    BY <1>0, <1>1 DEF CallsInv, Holds
  <2> QED
    BY <1>0, <1>1, <1>4, <1>8, <2>1, <2>2 DEF CallsInv
<1>10. StripInv'
  <2>1. \A i \in DOMAIN plan' \ taken' : current'.pixels \cap Pixels(plan'[i]) = {}
    <3>1. ASSUME NEW i \in DOMAIN plan \ taken
          PROVE  (current.pixels \cup piece) \cap Pixels(plan[i]) = {}
      <4>1. Pixels(plan[arg[w]]) \cap Pixels(plan[i]) = {}
        BY <1>0, <1>4, <3>1, PlanFacts
      <4>2. current.pixels \cap Pixels(plan[i]) = {}
        BY <1>0, <3>1 DEF StripInv
      <4> QED
        BY <1>5, <4>1, <4>2
    <3> QED
      BY <1>1, <1>3, <3>1
  <2>2. ASSUME NEW v \in Workers, callPc'[v] # "idle"
        PROVE  current'.pixels \cap Pixels(Rest(v)') = {}
    <3>1. CASE v # w
      <4>1. callPc[v] # "idle" /\ Rest(v)' = Rest(v)
        BY <1>1, <1>8, <2>2, <3>1
      <4>2. arg[v] \in DOMAIN plan /\ arg[v] # arg[w] /\ Pixels(Rest(v)) \subseteq Pixels(plan[arg[v]])
        BY <1>0, <1>4, <3>1, <4>1, TileFacts, RestWithin DEF CallsInv, Mine
      <4>3. Pixels(plan[arg[w]]) \cap Pixels(plan[arg[v]]) = {}
        BY <1>0, <1>4, <4>2, PlanFacts
      <4>4. current.pixels \cap Pixels(Rest(v)) = {}
        BY <1>0, <4>1 DEF StripInv
      <4> QED
        BY <1>3, <1>5, <4>1, <4>2, <4>3, <4>4
    <3>2. CASE v = w
      <4>1. Rest(w)' = Region(Mine(w).x, Mine(w).y + (rowsWritten[w] + p), Mine(w).width,
                              Mine(w).height - (rowsWritten[w] + p))
        BY <1>1, <2>2, <3>2 DEF Rest, Mine
      <4>2. Pixels(Rest(w)') \subseteq Pixels(Rest(w))
        BY <4>1, <1>2, <1>4 DEF Rest, Pixels, Region
      <4>3. piece \cap Pixels(Rest(w)') = {}
        BY <4>1, <1>2, <1>4 DEF Piece, PieceRow, p, Pixels, Region
      <4>4. current.pixels \cap Pixels(Rest(w)) = {}
        BY <1>0, <1>1 DEF StripInv
      <4> QED
        BY <1>3, <3>2, <4>2, <4>3, <4>4
    <3> QED
      BY <3>1, <3>2
  <2>3. ASSUME NEW v \in Workers, callPc'[v] \in {"flushing", "swapping"}
        PROVE  /\ current'.rows > 0
               /\ current'.pixels = Pixels(Strip(current'.start, current'.rows))
    <3>1. v = w
      BY <1>0, <1>1, <2>3 DEF CallsInv, Holds
    <3>2. count = Width * current.rows
      BY <1>1, <2>3, <3>1
    <3> QED
      BY <1>1, <1>2, <1>3, <3>2 DEF Fits
  <2> QED
    BY <1>0, <1>2, <1>3, <1>6, <2>1, <2>2, <2>3 DEF StripInv
<1>11. FlushInv'
  <2>1. Flushed' = Flushed /\ InOrder' = InOrder
    BY <1>1 DEF Flushed, InHand, InOrder
  <2> QED
    BY <1>0, <1>3, <1>6, <2>1 DEF FlushInv, StripsComplete
<1>12. BufferInv' /\ ThreadsInv'
  BY <1>0, <1>1, <1>3, <1>6 DEF BufferInv, BuffersConserved, ThreadsInv
<1> QED
  BY <1>7, <1>9, <1>10, <1>11, <1>12 DEF Inv

-----------------------------------------------------------------------------
(* The strip is sent off, the next one begins.                             *)

\* A worker that sends its strip off, or waits for a buffer, has the mutex.
LEMMA HolderFacts ==
    ASSUME TypeOK, CallsInv, StripInv, NEW w \in Workers, callPc[w] \in {"flushing", "swapping"}
    PROVE  /\ \A v \in Workers \ {w} : ~Holds(v)
           /\ sinkPc = "open"
           /\ Swapping <=> callPc[w] = "swapping"
           /\ current.start \in 0 .. Height /\ current.rows \in 1 .. RowsPerBuffer
           /\ current.start < Height
           /\ StripEnd \in 0 .. Height
           /\ current.rows = StripRows(current.start)
           /\ current.pixels = Pixels(Strip(current.start, current.rows))
<1>1. \A v \in Workers \ {w} : ~Holds(v)
  BY DEF CallsInv, Holds
<1>2. Swapping <=> callPc[w] = "swapping"
  BY <1>1 DEF Swapping, Holds
<1>3. /\ current.start \in 0 .. Height /\ current.rows \in 0 .. RowsPerBuffer /\ current.rows > 0
      /\ current.rows = StripRows(current.start)
      /\ current.pixels = Pixels(Strip(current.start, current.rows))
  BY DEF TypeOK, StripInv
<1>4. current.start + current.rows <= Height
  BY <1>3, StripFacts
<1>5. StripEnd \in 0 .. Height /\ current.start < Height
  BY <1>3, <1>4, Constants DEF StripEnd
<1> QED
  BY <1>1, <1>2, <1>3, <1>5, TileFacts, Constants

LEMMA NewStripInv ==
    ASSUME TypeOK, CallsInv, StripInv, NEW w \in Workers, NEW b \in BOOLEAN,
           callPc[w] \in {"flushing", "swapping"},
           ContinueWith(w, EmptyStrip(StripEnd, b)),
           UNCHANGED <<plan, taken, rowsWritten, sinkPc>>
    PROVE  /\ callPc' \in [Workers -> Stages]
           /\ arg' \in [Workers -> {0} \cup DOMAIN plan]
           /\ reply' \in [Workers -> {"none", "ok", "err"}]
           /\ next' \in [x : Int, y : Int]
           /\ current' \in [start : 0 .. Height, rows : 0 .. RowsPerBuffer, count : Nat,
                            pixels : SUBSET ImagePixels, buffer : BOOLEAN]
           /\ current'.start = StripEnd /\ current'.rows = StripRows(StripEnd) /\ current'.buffer = b
           /\ ~Swapping'
           /\ CallsInv' /\ StripInv'
<1>1. /\ callPc \in [Workers -> Stages] /\ arg \in [Workers -> {0} \cup DOMAIN plan]
      /\ reply \in [Workers -> {"none", "ok", "err"}] /\ next \in [x : Int, y : Int]
  BY DEF TypeOK
<1>2. /\ \A v \in Workers \ {w} : ~Holds(v)
      /\ sinkPc = "open" /\ StripEnd \in 0 .. Height
  BY HolderFacts
<1>3. /\ arg[w] \in DOMAIN plan /\ arg[w] # 0 /\ arg[w] \in taken
      /\ rowsWritten[w] \in 0 .. Mine(w).height
      /\ Mine(w).x \in Nat /\ Mine(w).y \in Nat /\ Mine(w).width \in Nat /\ Mine(w).height \in Nat
  BY TileFacts
<1>4. /\ current' = EmptyStrip(StripEnd, b)
      /\ \/ rowsWritten[w] = Mine(w).height /\ Finished(w)
         \/ /\ rowsWritten[w] # Mine(w).height
            /\ callPc' = [callPc EXCEPT ![w] = "copying"]
            /\ UNCHANGED <<arg, reply, next>>
  BY DEF ContinueWith
<1>5. /\ current'.start = StripEnd /\ current'.rows = StripRows(StripEnd) /\ current'.buffer = b
      /\ current'.count = 0 /\ current'.pixels = {}
      /\ StripRows(StripEnd) \in 0 .. RowsPerBuffer
      /\ current' \in [start : 0 .. Height, rows : 0 .. RowsPerBuffer, count : Nat,
                       pixels : SUBSET ImagePixels, buffer : BOOLEAN]
  <2>1. StripRows(StripEnd) \in 0 .. RowsPerBuffer
    BY <1>2, StripFacts
  <2> QED
    BY <1>2, <1>4, <2>1 DEF EmptyStrip
<1>6. next' \in [x : Int, y : Int]
  <2>1. AfterRegion(Mine(w), Width) \in [x : Int, y : Int]
    BY <1>3, Constants DEF AfterRegion
  <2> QED
    BY <1>1, <1>4, <2>1 DEF Finished
<1>7. /\ callPc' \in [Workers -> Stages]
      /\ arg' \in [Workers -> {0} \cup DOMAIN plan]
      /\ reply' \in [Workers -> {"none", "ok", "err"}]
  BY <1>1, <1>4 DEF Finished, Notified, Stages
<1>8. \A v \in Workers \ {w} :
         /\ callPc'[v] = callPc[v] \/ (callPc[v] = "waiting" /\ callPc'[v] = "locking")
         /\ arg'[v] = arg[v]
  BY <1>1, <1>4 DEF Finished, Notified
<1>9. \/ callPc'[w] = "idle" /\ arg'[w] = 0
      \/ callPc'[w] = "copying" /\ arg'[w] = arg[w] /\ rowsWritten[w] < Mine(w).height
  BY <1>1, <1>3, <1>4 DEF Finished, Notified
<1>10. /\ \A v \in Workers \ {w} : ~Holds(v)'
       /\ \A v \in Workers : callPc'[v] \notin {"flushing", "swapping"}
  BY <1>2, <1>8, <1>9 DEF Holds
<1>11. ~Swapping'
  BY <1>10 DEF Swapping
<1>12. CallsInv'
  <2>1. \A v \in Workers \ {w} : Mine(v)' = Mine(v)
    BY <1>8 DEF Mine
  <2>2. arg'[w] = arg[w] => Mine(w)' = Mine(w)
    BY DEF Mine
  <2> QED
    BY <1>2, <1>3, <1>8, <1>9, <1>10, <2>1, <2>2 DEF CallsInv
<1>13. StripInv'
  <2>1. Cardinality({}) = 0
    BY FS_EmptySet
  <2> QED
    BY <1>5, <1>10, <1>11, <2>1 DEF StripInv
<1> QED
  BY <1>5, <1>6, <1>7, <1>11, <1>12, <1>13

LEMMA FlushStripInv ==
    ASSUME Inv, NEW w \in Workers, FlushStrip(w)
    PROVE  Inv'
<1> USE DEF callVars, stateVars, chanVars, writerVars, ownerVars
<1>0. TypeOK /\ CallsInv /\ StripInv /\ FlushInv /\ BufferInv /\ ThreadsInv
  BY DEF Inv
<1> DEFINE m == [region |-> Strip(current.start, current.rows), pixels |-> current.pixels]
           n == Len(Flushed)
<1>1. /\ callPc[w] = "flushing" /\ writerPc # "exited" /\ flush = <<>>
      /\ flush' = <<m>>
      /\ UNCHANGED <<plan, taken, rowsWritten, writerError, flushOpen, spare, spareOpen, writerVars, ownerVars>>
  BY DEF FlushStrip
<1>2. /\ \A v \in Workers \ {w} : ~Holds(v)
      /\ sinkPc = "open" /\ ~Swapping
      /\ current.start \in 0 .. Height /\ current.rows \in 1 .. RowsPerBuffer
      /\ current.start < Height
      /\ StripEnd \in 0 .. Height
      /\ current.rows = StripRows(current.start)
      /\ current.pixels = Pixels(Strip(current.start, current.rows))
  BY <1>0, <1>1, HolderFacts
<1>3. \/ /\ StripRows(StripEnd) > 0
         /\ current' = [current EXCEPT !.buffer = FALSE]
         /\ callPc' = [callPc EXCEPT ![w] = "swapping"]
         /\ UNCHANGED <<arg, reply, next>>
      \/ ~(StripRows(StripEnd) > 0) /\ ContinueWith(w, EmptyStrip(StripEnd, FALSE))
  BY DEF FlushStrip
<1>4. m \in Message /\ m.region = Strip(current.start, current.rows) /\ m.pixels = Pixels(m.region)
  <2>1. Strip(current.start, current.rows) \in Strips
    BY <1>2 DEF Strips
  <2>2. current.pixels \in SUBSET ImagePixels
    BY <1>0 DEF TypeOK
  <2> QED
    BY <1>2, <2>1, <2>2 DEF Message
<1>5. /\ written \in Seq(Message) /\ InHand \in Seq(Message) /\ Flushed \in Seq(Message)
      /\ written \o InHand \in Seq(Message)
      /\ n \in Nat
  BY <1>0, FlushedFacts, LenProperties DEF TypeOK
<1>6. Flushed = written \o InHand /\ Flushed' = Append(Flushed, m)
  <2>1. Flushed = (written \o InHand) \o <<>> /\ Flushed' = (written \o InHand) \o <<m>>
    BY <1>1, <1>5, <1>4, ConcatAssociative, EmptySeq DEF Flushed, InHand
  <2> HIDE DEF m
  <2>2. Flushed = written \o InHand
    BY <1>5, <2>1, ConcatEmptySeq
  <2>3. Append(written \o InHand, m) = (written \o InHand) \o <<m>>
    BY <1>4, <1>5, AppendIsConcat
  <2> QED
    BY <2>1, <2>2, <2>3
<1> HIDE DEF m, n
<1>7. n * RowsPerBuffer = current.start /\ StripStart(n) = current.start
  <2>1. StripStart(n) = current.start
    BY <1>0, <1>1, <1>2 DEF FlushInv, InOrder, n
  <2> QED
    BY <1>2, <1>5, <2>1, StripStep
<1>8. StripsComplete'
  <2>1. AllComplete(Flushed)
    BY <1>0 DEF FlushInv, StripsComplete, AllComplete
  <2>2. AllComplete(Append(Flushed, m))
    BY <1>2, <1>4, <1>5, <1>7, <2>1, CompleteAppend DEF n
  <2> QED
    BY <1>6, <2>2 DEF StripsComplete, AllComplete
<1>9. Len(Flushed') = n + 1 /\ StripStart(Len(Flushed')) = StripEnd
  <2>1. Len(Flushed') = n + 1
    BY <1>4, <1>5, <1>6, AppendProperties DEF n
  <2>2. StripStart(n) + StripRows(StripStart(n)) = StripStart(n + 1)
    BY <1>5, StripStep
  <2> QED
    BY <1>2, <1>7, <2>1, <2>2 DEF StripEnd
<1>10. flush' \in Seq(Message) /\ Len(flush') = 1 /\ Len(flush) = 0
  BY <1>1, <1>4
<1>11. message \in Message \cup {NoMessage} /\ current.buffer = TRUE
  BY <1>0, <1>1, <1>2 DEF TypeOK, BufferInv
<1>12. ThreadsInv'
  <2>1. /\ writerPc \notin {"exited", "finishing"} /\ writerExit = "none" /\ sinkPc = "open"
    BY <1>0, <1>1, <1>2 DEF ThreadsInv
  <2> QED
    BY <1>0, <1>1, <1>2, <2>1 DEF ThreadsInv
<1>13. CASE /\ StripRows(StripEnd) > 0
            /\ current' = [current EXCEPT !.buffer = FALSE]
            /\ callPc' = [callPc EXCEPT ![w] = "swapping"]
            /\ UNCHANGED <<arg, reply, next>>
  <2>1. /\ current' \in [start : 0 .. Height, rows : 0 .. RowsPerBuffer, count : Nat,
                         pixels : SUBSET ImagePixels, buffer : BOOLEAN]
        /\ current'.start = current.start /\ current'.rows = current.rows /\ current'.count = current.count
        /\ current'.pixels = current.pixels /\ current'.buffer = FALSE
    BY <1>0, <1>13 DEF TypeOK
  <2>2. \A v \in Workers : callPc'[v] = IF v = w THEN "swapping" ELSE callPc[v]
    BY <1>0, <1>13 DEF TypeOK
  <2>3. Swapping' /\ StripEnd' = StripEnd /\ StripEnd < Height
    <3>1. StripEnd < Height
      BY <1>2, <1>13, Constants, StripFacts
    <3> QED
      BY <2>1, <2>2, <3>1 DEF Swapping, StripEnd
  <2>4. TypeOK'
    <3>1. /\ callPc' \in [Workers -> Stages]
          /\ arg' \in [Workers -> {0} \cup DOMAIN plan]
          /\ reply' \in [Workers -> {"none", "ok", "err"}]
          /\ next' \in [x : Int, y : Int]
      BY <1>0, <1>13 DEF TypeOK, Stages
    <3> QED
      BY <1>0, <1>1, <1>10, <2>1, <3>1 DEF TypeOK
  <2>5. CallsInv'
    <3>1. \A v \in Workers : Mine(v)' = Mine(v) /\ Holds(v)' = Holds(v)
      BY <1>1, <1>13, <2>2 DEF Mine, Holds
    <3> QED
      BY <1>0, <1>1, <1>2, <1>13, <2>2, <3>1 DEF CallsInv
  <2>6. StripInv'
    <3>1. \A v \in Workers : Rest(v)' = Rest(v)
      BY <1>1, <1>13 DEF Rest, Mine
    <3> QED
      BY <1>0, <1>1, <1>2, <2>1, <2>2, <2>3, <3>1 DEF StripInv
  <2>7. FlushInv'
    BY <1>8, <1>9, <2>3 DEF FlushInv
  <2>8. BufferInv'
    <3>1. BuffersConserved'
      BY <1>0, <1>1, <1>2, <1>10, <1>11, <2>1 DEF BufferInv, BuffersConserved, TypeOK
    <3> QED
      BY <2>1, <2>3, <3>1 DEF BufferInv
  <2> QED
    BY <1>12, <2>4, <2>5, <2>6, <2>7, <2>8 DEF Inv
<1>14. CASE ~(StripRows(StripEnd) > 0) /\ ContinueWith(w, EmptyStrip(StripEnd, FALSE))
  <2>1. /\ callPc' \in [Workers -> Stages]
        /\ arg' \in [Workers -> {0} \cup DOMAIN plan]
        /\ reply' \in [Workers -> {"none", "ok", "err"}]
        /\ next' \in [x : Int, y : Int]
        /\ current' \in [start : 0 .. Height, rows : 0 .. RowsPerBuffer, count : Nat,
                         pixels : SUBSET ImagePixels, buffer : BOOLEAN]
        /\ current'.start = StripEnd /\ current'.rows = StripRows(StripEnd) /\ current'.buffer = FALSE
        /\ ~Swapping' /\ CallsInv' /\ StripInv'
    BY <1>0, <1>1, <1>14, NewStripInv
  <2>2. TypeOK'
    BY <1>0, <1>1, <1>10, <2>1 DEF TypeOK
  <2>3. FlushInv'
    BY <1>8, <1>9, <2>1 DEF FlushInv
  <2>4. BufferInv'
    <3>1. BuffersConserved'
      BY <1>0, <1>1, <1>2, <1>10, <1>11, <2>1 DEF BufferInv, BuffersConserved, TypeOK
    <3> QED
      BY <1>14, <2>1, <3>1 DEF BufferInv
  <2> QED
    BY <1>12, <2>1, <2>2, <2>3, <2>4 DEF Inv
<1> QED
  BY <1>3, <1>13, <1>14

\* The writer thread has gone: the strip is lost with its buffer.
LEMMA FlushDisconnectedInv ==
    ASSUME Inv, NEW w \in Workers, FlushDisconnected(w)
    PROVE  Inv'
<1> USE DEF callVars, stateVars, chanVars, writerVars, ownerVars
<1>0. TypeOK /\ CallsInv /\ StripInv /\ FlushInv /\ BufferInv /\ ThreadsInv
  BY DEF Inv
<1>1. /\ callPc[w] = "flushing" /\ writerPc = "exited"
      /\ current' = [current EXCEPT !.buffer = FALSE]
      /\ callPc' = [callPc EXCEPT ![w] = "idle"]
      /\ reply' = [reply EXCEPT ![w] = "err"]
      /\ arg' = [arg EXCEPT ![w] = 0]
      /\ UNCHANGED <<plan, taken, rowsWritten, next, writerError, chanVars, writerVars, ownerVars>>
  BY DEF FlushDisconnected
<1>2. \A v \in Workers :
         /\ callPc'[v] = IF v = w THEN "idle" ELSE callPc[v]
         /\ arg'[v] = IF v = w THEN 0 ELSE arg[v]
  BY <1>0, <1>1 DEF TypeOK
<1>3. /\ current' \in [start : 0 .. Height, rows : 0 .. RowsPerBuffer, count : Nat,
                       pixels : SUBSET ImagePixels, buffer : BOOLEAN]
      /\ current'.start = current.start /\ current'.rows = current.rows /\ current'.count = current.count
      /\ current'.pixels = current.pixels
  BY <1>0, <1>1 DEF TypeOK
<1>4. Swapping' = Swapping
  BY <1>1, <1>2 DEF Swapping
<1>5. TypeOK'
  <2>1. /\ callPc' \in [Workers -> Stages]
        /\ arg' \in [Workers -> {0} \cup DOMAIN plan]
        /\ reply' \in [Workers -> {"none", "ok", "err"}]
    BY <1>0, <1>1 DEF TypeOK, Stages
  <2> QED
    BY <1>0, <1>1, <1>3, <2>1 DEF TypeOK
<1>6. CallsInv'
  <2>1. \A v \in Workers \ {w} : Mine(v)' = Mine(v) /\ Holds(v)' = Holds(v)
    BY <1>1, <1>2 DEF Mine, Holds
  <2>2. ~Holds(w)'
    BY <1>2 DEF Holds
  <2> QED
    BY <1>0, <1>1, <1>2, <2>1, <2>2 DEF CallsInv, NoCalls
<1>7. StripEnd' = StripEnd
  BY <1>3 DEF StripEnd
<1>8. StripInv'
  <2>1. \A v \in Workers \ {w} : Rest(v)' = Rest(v)
    BY <1>1, <1>2 DEF Rest, Mine
  <2> QED
    BY <1>0, <1>1, <1>2, <1>3, <1>4, <1>7, <2>1 DEF StripInv
<1>9. FlushInv'
  <2>1. Flushed' = Flushed /\ InOrder' = InOrder
    BY <1>1 DEF Flushed, InHand, InOrder
  <2> QED
    BY <1>0, <1>3, <1>4, <1>7, <2>1 DEF FlushInv, StripsComplete
<1>10. BufferInv' /\ ThreadsInv'
  BY <1>0, <1>1, <1>3 DEF BufferInv, BuffersConserved, ThreadsInv
<1> QED
  BY <1>5, <1>6, <1>8, <1>9, <1>10 DEF Inv

LEMMA TakeSpareInv ==
    ASSUME Inv, NEW w \in Workers, TakeSpare(w)
    PROVE  Inv'
<1> USE DEF callVars, stateVars, chanVars, writerVars, ownerVars
<1>0. TypeOK /\ CallsInv /\ StripInv /\ FlushInv /\ BufferInv /\ ThreadsInv
  BY DEF Inv
<1>1. /\ callPc[w] = "swapping" /\ spare > 0
      /\ spare' = spare - 1
      /\ ContinueWith(w, EmptyStrip(StripEnd, TRUE))
      /\ UNCHANGED <<plan, taken, rowsWritten, writerError, flush, flushOpen, spareOpen, writerVars, ownerVars>>
  BY DEF TakeSpare
<1>2. spare = 1 /\ spare' = 0
  BY <1>0, <1>1 DEF TypeOK
<1>3. /\ sinkPc = "open" /\ Swapping /\ current.rows > 0
  BY <1>0, <1>1, HolderFacts, Constants
<1>4. /\ callPc' \in [Workers -> Stages]
      /\ arg' \in [Workers -> {0} \cup DOMAIN plan]
      /\ reply' \in [Workers -> {"none", "ok", "err"}]
      /\ next' \in [x : Int, y : Int]
      /\ current' \in [start : 0 .. Height, rows : 0 .. RowsPerBuffer, count : Nat,
                       pixels : SUBSET ImagePixels, buffer : BOOLEAN]
      /\ current'.start = StripEnd /\ current'.rows = StripRows(StripEnd) /\ current'.buffer = TRUE
      /\ ~Swapping' /\ CallsInv' /\ StripInv'
  BY <1>0, <1>1, NewStripInv
<1>5. TypeOK'
  BY <1>0, <1>1, <1>2, <1>4 DEF TypeOK
<1>6. FlushInv'
  <2>1. Flushed' = Flushed /\ InOrder' = InOrder
    BY <1>1 DEF Flushed, InHand, InOrder
  <2> QED
    BY <1>0, <1>3, <1>4, <2>1 DEF FlushInv, StripsComplete
<1>7. BufferInv'
  <2>1. writerPc # "exited" => current.buffer = FALSE
    BY <1>0, <1>3 DEF BufferInv
  <2>2. BuffersConserved'
    <3>1. Len(flush) \in Nat
      BY <1>0, LenProperties DEF TypeOK
    <3> QED
      <4>1. SUFFICES ASSUME writerPc # "exited"
                     PROVE  1 + Len(flush) + (IF message # NoMessage THEN 1 ELSE 0) + 0 = 2
        BY <1>1, <1>2, <1>4 DEF BuffersConserved
      <4>2. 0 + Len(flush) + (IF message # NoMessage THEN 1 ELSE 0) + 1 = 2
        BY <1>0, <1>2, <1>3, <2>1, <4>1 DEF BufferInv, BuffersConserved
      <4> QED
        BY <3>1, <4>2
  <2>3. current'.buffer = ~Swapping'
    BY <1>4
  <2> QED
    BY <2>2, <2>3 DEF BufferInv
<1>8. ThreadsInv'
  <2>1. sinkPc = "open"
    BY <1>3
  <2> QED
    BY <1>0, <1>1, <2>1 DEF ThreadsInv
<1> QED
  BY <1>4, <1>5, <1>6, <1>7, <1>8 DEF Inv

-----------------------------------------------------------------------------
(* The writer thread.                                                      *)

\* It does not touch what the workers hold.
LEMMA WorkersStutter ==
    ASSUME CallsInv, StripInv, UNCHANGED <<plan, callVars, stateVars, ownerVars>>
    PROVE  CallsInv' /\ StripInv' /\ Swapping' = Swapping /\ StripEnd' = StripEnd
BY DEF CallsInv, StripInv, Swapping, StripEnd, Rest, Mine, Holds, NoCalls,
       callVars, stateVars, ownerVars

LEMMA ReceiveInv ==
    ASSUME Inv, Receive
    PROVE  Inv'
<1> USE DEF chanVars, writerVars, ownerVars
<1>0. TypeOK /\ CallsInv /\ StripInv /\ FlushInv /\ BufferInv /\ ThreadsInv
  BY DEF Inv
<1>1. /\ writerPc = "receiving" /\ flush # <<>> /\ message = NoMessage
      /\ message' = Head(flush) /\ flush' = Tail(flush)
      /\ writerPc' = "writing"
      /\ UNCHANGED <<plan, callVars, stateVars, flushOpen, spare, spareOpen, writerExit, written, ownerVars>>
  BY <1>0 DEF Receive, ThreadsInv
<1>2. /\ flush \in Seq(Message) /\ Len(flush) = 1
      /\ Head(flush) \in Message /\ Tail(flush) \in Seq(Message) /\ Len(Tail(flush)) = 0
      /\ Tail(flush) = <<>> /\ flush = <<Head(flush)>>
  <2>1. flush \in Seq(Message) /\ Len(flush) <= 1
    BY <1>0 DEF TypeOK
  <2>2. Len(flush) \in Nat \ {0}
    BY <1>1, <2>1, EmptySeq
  <2>3. /\ Head(flush) \in Message /\ Tail(flush) \in Seq(Message)
        /\ Len(Tail(flush)) = Len(flush) - 1
    BY <1>1, <2>1, HeadTailProperties
  <2>4. Len(flush) = 1 /\ Len(Tail(flush)) = 0
    BY <2>1, <2>2, <2>3
  <2>5. Tail(flush) = <<>>
    BY <2>3, <2>4, EmptySeq
  <2>6. flush = <<Head(flush)>>
    <3>1. <<Head(flush)>> \in Seq(Message) /\ Len(<<Head(flush)>>) = 1 /\ Head(flush) = flush[1]
      BY <2>1, <2>3
    <3>2. \A i \in 1 .. Len(flush) : flush[i] = <<Head(flush)>>[i]
      BY <2>4, <3>1
    <3> QED
      BY <2>1, <2>4, <3>1, <3>2, SeqEqual
  <2> QED
    BY <2>1, <2>3, <2>4, <2>5, <2>6
<1>3. Head(flush) # NoMessage
  BY <1>2, Constants
<1>4. TypeOK'
  <2>1. flush' \in Seq(Message) /\ Len(flush') <= 1 /\ message' \in Message \cup {NoMessage}
    BY <1>1, <1>2
  <2> QED
    BY <1>0, <1>1, <2>1 DEF TypeOK, callVars, stateVars
<1>5. CallsInv' /\ StripInv' /\ Swapping' = Swapping /\ StripEnd' = StripEnd
  BY <1>0, <1>1, WorkersStutter
<1>6. Flushed' = Flushed
  <2>1. InHand = <<>> /\ InHand' = flush
    BY <1>1, <1>2, <1>3 DEF InHand
  <2>2. Flushed = written \o flush /\ Flushed' = written \o flush
    <3>1. written \in Seq(Message) /\ written \o flush \in Seq(Message)
      BY <1>0, <1>2, ConcatProperties DEF TypeOK
    <3>2. written \o <<>> = written /\ (written \o flush) \o <<>> = written \o flush
      BY <3>1, ConcatEmptySeq
    <3>3. Flushed = (written \o <<>>) \o flush /\ Flushed' = (written \o flush) \o <<>>
      BY <1>1, <1>2, <2>1, <3>1, ConcatAssociative, EmptySeq DEF Flushed
    <3> QED
      BY <3>2, <3>3
  <2> QED
    BY <2>2
<1>7. FlushInv'
  <2>1. InOrder /\ InOrder' /\ current' = current
    BY <1>1 DEF InOrder, stateVars
  <2> QED
    BY <1>0, <1>5, <1>6, <2>1 DEF FlushInv, StripsComplete
<1>8. BufferInv'
  <2>1. BuffersConserved'
    <3>1. spare \in {0, 1} /\ current' = current
      BY <1>0, <1>1 DEF TypeOK, stateVars
    <3> QED
      BY <1>0, <1>1, <1>2, <1>3, <3>1 DEF BufferInv, BuffersConserved
  <2> QED
    BY <1>0, <1>1, <1>5, <2>1 DEF BufferInv, stateVars
<1>9. ThreadsInv'
  BY <1>0, <1>1, <1>3 DEF ThreadsInv, stateVars
<1> QED
  BY <1>4, <1>5, <1>7, <1>8, <1>9 DEF Inv

LEMMA WriteOkInv ==
    ASSUME Inv, WriteOk
    PROVE  Inv'
<1> USE DEF chanVars, writerVars, ownerVars
<1>0. TypeOK /\ CallsInv /\ StripInv /\ FlushInv /\ BufferInv /\ ThreadsInv
  BY DEF Inv
<1>1. /\ writerPc = "writing" /\ message # NoMessage
      /\ written' = Append(written, message)
      /\ writerPc' = "recycling"
      /\ UNCHANGED <<plan, callVars, stateVars, chanVars, message, writerExit, ownerVars>>
  BY <1>0 DEF WriteOk, ThreadsInv
<1>2. /\ message \in Message /\ written \in Seq(Message) /\ flush \in Seq(Message)
      /\ written' \in Seq(Message)
  BY <1>0, <1>1, AppendProperties DEF TypeOK
<1>3. TypeOK'
  BY <1>0, <1>1, <1>2 DEF TypeOK, callVars, stateVars
<1>4. CallsInv' /\ StripInv' /\ Swapping' = Swapping /\ StripEnd' = StripEnd
  BY <1>0, <1>1, WorkersStutter
<1>5. Flushed' = Flushed
  <2>1. InHand = <<message>> /\ InHand' = <<>>
    BY <1>1 DEF InHand
  <2>2. written' = written \o <<message>>
    BY <1>1, <1>2, AppendIsConcat
  <2>3. /\ (written \o <<message>>) \o <<>> = written \o <<message>>
        /\ written \o <<message>> \in Seq(Message) /\ <<message>> \in Seq(Message)
    BY <1>2, ConcatProperties, ConcatEmptySeq
  <2>4. Flushed = (written \o <<message>>) \o flush /\ Flushed' = (written' \o <<>>) \o flush
    BY <1>1, <1>2, <2>1, <2>3, ConcatAssociative, EmptySeq DEF Flushed
  <2> QED
    BY <2>2, <2>3, <2>4
<1>6. FlushInv'
  <2>1. InOrder /\ InOrder' /\ current' = current
    BY <1>1 DEF InOrder, stateVars
  <2> QED
    BY <1>0, <1>4, <1>5, <2>1 DEF FlushInv, StripsComplete
<1>7. BufferInv' /\ ThreadsInv'
  BY <1>0, <1>1, <1>4 DEF BufferInv, BuffersConserved, ThreadsInv, stateVars
<1> QED
  BY <1>3, <1>4, <1>6, <1>7 DEF Inv

LEMMA RecycleInv ==
    ASSUME Inv, Recycle
    PROVE  Inv'
<1> USE DEF chanVars, writerVars, ownerVars
<1>0. TypeOK /\ CallsInv /\ StripInv /\ FlushInv /\ BufferInv /\ ThreadsInv
  BY DEF Inv
<1>1. /\ writerPc = "recycling" /\ message # NoMessage /\ spare = 0 /\ spare' = 1
      /\ message' = NoMessage /\ writerPc' = "receiving"
      /\ UNCHANGED <<plan, callVars, stateVars, flush, flushOpen, spareOpen, writerExit, written, ownerVars>>
  BY <1>0 DEF Recycle, ThreadsInv
<1>2. TypeOK'
  BY <1>0, <1>1 DEF TypeOK, callVars, stateVars
<1>3. CallsInv' /\ StripInv' /\ Swapping' = Swapping /\ StripEnd' = StripEnd
  BY <1>0, <1>1, WorkersStutter
<1>4. FlushInv'
  <2>1. InOrder /\ InOrder' /\ current' = current /\ Flushed' = Flushed
    BY <1>1 DEF InOrder, stateVars, Flushed, InHand
  <2> QED
    BY <1>0, <1>3, <2>1 DEF FlushInv, StripsComplete
<1>5. BufferInv'
  <2>1. Len(flush) \in Nat
    BY <1>0, LenProperties DEF TypeOK
  <2>2. BuffersConserved'
    BY <1>0, <1>1, <2>1 DEF BufferInv, BuffersConserved, stateVars
  <2> QED
    BY <1>0, <1>1, <1>3, <2>2 DEF BufferInv, stateVars
<1>6. ThreadsInv'
  BY <1>0, <1>1 DEF ThreadsInv, stateVars
<1> QED
  BY <1>2, <1>3, <1>4, <1>5, <1>6 DEF Inv

LEMMA WriterMovesInv ==
    ASSUME Inv, Disconnected \/ EncoderFails
    PROVE  Inv'
<1> USE DEF chanVars, writerVars, ownerVars
<1>0. TypeOK /\ CallsInv /\ StripInv /\ FlushInv /\ BufferInv /\ ThreadsInv
  BY DEF Inv
<1>1. /\ \/ writerPc = "receiving" /\ flush = <<>> /\ ~flushOpen /\ writerPc' = "finishing"
         \/ writerPc \in {"writing", "finishing"} /\ writerPc' = "storingError"
      /\ UNCHANGED <<plan, callVars, stateVars, chanVars, message, writerExit, written, ownerVars>>
  BY DEF Disconnected, EncoderFails
<1>2. TypeOK'
  BY <1>0, <1>1 DEF TypeOK, callVars, stateVars
<1>3. CallsInv' /\ StripInv' /\ Swapping' = Swapping /\ StripEnd' = StripEnd
  BY <1>0, <1>1, WorkersStutter
<1>4. FlushInv'
  <2>1. InOrder /\ InOrder' /\ current' = current
    BY <1>1 DEF InOrder, stateVars
  <2>2. Flushed' = Flushed
    BY <1>1 DEF Flushed, InHand
  <2> QED
    BY <1>0, <1>3, <2>1, <2>2 DEF FlushInv, StripsComplete
<1>5. BufferInv' /\ ThreadsInv'
  BY <1>0, <1>1, <1>3 DEF BufferInv, BuffersConserved, ThreadsInv, stateVars
<1> QED
  BY <1>2, <1>3, <1>4, <1>5 DEF Inv

\* Its end drops what is queued and what it holds; only when that is nothing
\* does it end in order.
LEMMA ExitInv ==
    ASSUME Inv, RecycleDisconnected \/ FinishEncoder \/ EncoderPanics \/ StoreWriterError
    PROVE  Inv'
<1> USE DEF chanVars, writerVars, ownerVars
<1>0. TypeOK /\ CallsInv /\ StripInv /\ FlushInv /\ BufferInv /\ ThreadsInv
  BY DEF Inv
<1>1. /\ writerPc # "exited" /\ writerPc' = "exited"
      /\ writerExit' \in {"ok", "err", "panic"}
      /\ writerExit' = "ok" => writerPc = "finishing"
      /\ message' = NoMessage /\ flush' = <<>>
      /\ callPc' = callPc \/ callPc' = Notified(callPc)
      /\ writerError' \in {writerError, TRUE}
      /\ UNCHANGED <<plan, taken, arg, rowsWritten, reply, next, current, flushOpen, spare, spareOpen,
                     written, ownerVars>>
  BY DEF RecycleDisconnected, FinishEncoder, EncoderPanics, StoreWriterError, ExitWriter,
         callVars, stateVars
<1>2. /\ callPc' \in [Workers -> Stages]
      /\ \A v \in Workers : callPc'[v] = callPc[v] \/ (callPc[v] = "waiting" /\ callPc'[v] = "locking")
  BY <1>0, <1>1 DEF TypeOK, Notified, Stages
<1>3. <<>> \in Seq(Message) /\ Len(<<>>) = 0
  BY EmptySeq
<1>4. TypeOK'
  <2>1. writerError' \in BOOLEAN
    BY <1>0, <1>1 DEF TypeOK
  <2>2. flush' \in Seq(Message) /\ Len(flush') <= 1 /\ message' \in Message \cup {NoMessage}
    BY <1>1, <1>3
  <2> QED
    BY <1>0, <1>1, <1>2, <2>1, <2>2 DEF TypeOK
<1>5. \A v \in Workers : Mine(v)' = Mine(v) /\ Holds(v)' = Holds(v) /\ Rest(v)' = Rest(v)
  BY <1>1, <1>2 DEF Mine, Holds, Rest
<1>6. CallsInv'
  BY <1>0, <1>1, <1>2, <1>5 DEF CallsInv, NoCalls
<1>7. Swapping' = Swapping /\ StripEnd' = StripEnd
  BY <1>1, <1>2 DEF Swapping, StripEnd
<1>8. StripInv'
  BY <1>0, <1>1, <1>2, <1>5, <1>7 DEF StripInv
<1>9. FlushInv'
  <2>1. /\ written \in Seq(Message) /\ InHand \in Seq(Message) /\ written \o InHand \in Seq(Message)
        /\ flush \in Seq(Message)
    BY <1>0, FlushedFacts DEF TypeOK
  <2>2. Flushed' = written
    <3>1. InHand' = <<>>
      BY <1>1 DEF InHand
    <3>2. written \o <<>> = written /\ <<>> \o <<>> = <<>>
      BY <2>1, <1>3, ConcatEmptySeq
    <3> QED
      BY <1>1, <3>1, <3>2 DEF Flushed
  <2>3. Flushed = (written \o InHand) \o flush
    BY <2>1, ConcatAssociative DEF Flushed
  <2>4. AllComplete(written)
    <3>1. AllComplete((written \o InHand) \o flush)
      BY <1>0, <2>3 DEF FlushInv, StripsComplete, AllComplete
    <3>2. AllComplete(written \o InHand)
      BY <2>1, <3>1, CompletePrefix
    <3> QED
      BY <2>1, <3>2, CompletePrefix
  <2>5. StripsComplete'
    BY <2>2, <2>4 DEF StripsComplete, AllComplete
  <2>6. CASE writerPc = "finishing"
    <3>1. InHand = <<>> /\ flush = <<>>
      BY <1>0, <2>6 DEF ThreadsInv, InHand
    <3>2. Flushed = written
      BY <2>1, <2>3, <3>1, ConcatEmptySeq
    <3> QED
      BY <1>0, <1>1, <1>7, <2>2, <2>5, <3>2 DEF FlushInv, InOrder
  <2>7. CASE writerPc # "finishing"
    <3>1. ~InOrder'
      BY <1>1, <2>7 DEF InOrder
    <3> QED
      BY <2>5, <3>1 DEF FlushInv
  <2> QED
    BY <2>6, <2>7
<1>10. BufferInv'
  BY <1>1 DEF BufferInv, BuffersConserved
<1>11. ThreadsInv'
  <2>1. writerExit' = "ok" => ~flushOpen
    BY <1>0, <1>1 DEF ThreadsInv
  <2>2. writerExit = "none" /\ finishReply # "ok"
    BY <1>0, <1>1 DEF ThreadsInv
  <2>3. /\ flushOpen' = flushOpen /\ spareOpen' = spareOpen /\ sinkPc' = sinkPc
        /\ finishReply' = finishReply /\ current' = current
    BY <1>1
  <2> QED
    BY <1>0, <1>1, <2>1, <2>2, <2>3 DEF ThreadsInv
<1> QED
  BY <1>4, <1>6, <1>8, <1>9, <1>10, <1>11 DEF Inv

-----------------------------------------------------------------------------
(* finish and drop.                                                        *)

LEMMA OwnerInv ==
    ASSUME Inv, FinishRefuses \/ Finish \/ Abandon \/ Drain \/ CloseFlush \/ Join
    PROVE  Inv'
<1> USE DEF writerVars
<1>0. TypeOK /\ CallsInv /\ StripInv /\ FlushInv /\ BufferInv /\ ThreadsInv
  BY DEF Inv
<1>1. /\ sinkPc' # "open" /\ NoCalls
      /\ UNCHANGED <<plan, callVars, stateVars, flush, writerVars>>
  BY <1>0 DEF FinishRefuses, Finish, Abandon, Drain, CloseFlush, Join, CallsInv, chanVars, ownerVars
<1>2. TypeOK'
  <2>1. /\ flushOpen' \in BOOLEAN /\ spareOpen' \in BOOLEAN /\ spare' \in {0, 1}
        /\ sinkPc' \in {"open", "draining", "joining", "closed", "dropped"}
        /\ finishReply' \in {"none", "ok", "err"}
    <3>1. flushOpen' \in BOOLEAN /\ spareOpen' \in BOOLEAN
      <4>1. flushOpen \in BOOLEAN /\ spareOpen \in BOOLEAN
        BY <1>0 DEF TypeOK
      <4>2. /\ flushOpen' = FALSE \/ flushOpen' = flushOpen
            /\ spareOpen' = FALSE \/ spareOpen' = spareOpen
        BY DEF FinishRefuses, Finish, Abandon, Drain, CloseFlush, Join, chanVars
      <4> QED
        BY <4>1, <4>2
    <3>2. spare' \in {0, 1}
      BY <1>0 DEF FinishRefuses, Finish, Abandon, Drain, CloseFlush, Join, TypeOK, chanVars
    <3>3. /\ sinkPc' \in {"open", "draining", "joining", "closed", "dropped"}
          /\ finishReply' \in {"none", "ok", "err"}
      BY <1>0 DEF FinishRefuses, Finish, Abandon, Drain, CloseFlush, Join, TypeOK, ownerVars
    <3> QED
      BY <3>1, <3>2, <3>3
  <2> QED
    BY <1>0, <1>1, <2>1 DEF TypeOK, callVars, stateVars
<1>3. CallsInv' /\ StripInv' /\ Swapping' = Swapping
  BY <1>0, <1>1 DEF CallsInv, StripInv, Swapping, StripEnd, Rest, Mine, Holds, NoCalls, callVars, stateVars
<1>4. FlushInv'
  BY <1>0, <1>1, <1>3, FlushStutter DEF stateVars
<1>5. BufferInv'
  BY <1>0, <1>1, <1>3 DEF BufferInv, BuffersConserved, stateVars
<1>6. ThreadsInv'
  <2>1. UNCHANGED <<current, flush, message, writerPc, writerExit>>
    BY <1>1 DEF stateVars
  <2>2. CASE FinishRefuses
    BY <1>0, <2>1, <2>2 DEF FinishRefuses, ThreadsInv
  <2>3. CASE Finish
    BY <1>0, <2>1, <2>3 DEF Finish, ThreadsInv, chanVars
  <2>4. CASE Abandon
    BY <1>0, <2>1, <2>4 DEF Abandon, ThreadsInv
  <2>5. CASE Drain
    BY <1>0, <2>1, <2>5 DEF Drain, ThreadsInv, ownerVars
  <2>6. CASE CloseFlush
    BY <1>0, <2>1, <2>6 DEF CloseFlush, ThreadsInv
  <2>7. CASE Join
    BY <1>0, <2>1, <2>7 DEF Join, ThreadsInv
  <2> QED
    BY <2>2, <2>3, <2>4, <2>5, <2>6, <2>7
<1> QED
  BY <1>2, <1>3, <1>4, <1>5, <1>6 DEF Inv

-----------------------------------------------------------------------------
(* The theorems.                                                           *)

LEMMA NextInv == Inv /\ [Next]_sinkVars => Inv'
<1> SUFFICES ASSUME Inv, [Next]_sinkVars PROVE Inv'
  OBVIOUS
<1>1. CASE \E w \in Workers : CallStep(w) \/ SpuriousWake(w) \/ \E i \in DOMAIN plan : Call(w, i)
  BY <1>1, CallInv, TurnInv, CallFailsInv, CopyInv, FlushStripInv, FlushDisconnectedInv, TakeSpareInv
     DEF CallStep
<1>2. CASE WriterStep
  BY <1>2, ReceiveInv, WriteOkInv, RecycleInv, WriterMovesInv, ExitInv DEF WriterStep
<1>3. CASE FinishRefuses \/ Finish \/ Abandon \/ OwnerStep
  BY <1>3, OwnerInv DEF OwnerStep
<1>4. CASE UNCHANGED sinkVars
  <2>1. UNCHANGED <<plan, callVars, stateVars, chanVars, writerVars, ownerVars>>
    BY <1>4 DEF sinkVars
  <2>2. TypeOK' /\ CallsInv' /\ StripInv' /\ Swapping' = Swapping
    BY <2>1, WorkersStutter
       DEF Inv, TypeOK, callVars, stateVars, chanVars, writerVars, ownerVars
  <2> QED
    BY <2>1, <2>2, FlushStutter, BufferStutter, ThreadsStutter
       DEF Inv, stateVars, chanVars, writerVars, ownerVars
<1> QED
  BY <1>1, <1>2, <1>3, <1>4 DEF Next

LEMMA Invariance == Spec => []Inv
BY InitInv, NextInv, PTL DEF Spec

\* The state is well typed in every reachable state.
THEOREM TypeCorrect == Spec => []TypeOK
<1>1. Inv => TypeOK
  BY DEF Inv
<1> QED
  BY <1>1, Invariance, PTL

\* Every strip that is sent off has each of its pixels and is the one after
\* the strip sent off before: pieces of tiles never overlap in the buffer, so
\* that a count of pixels that reaches the strip's size means that all are
\* there, whatever the buffer held when it was used before.
THEOREM StripsAreComplete == Spec => []StripsComplete
<1>1. Inv => StripsComplete
  BY DEF Inv, FlushInv
<1> QED
  BY <1>1, Invariance, PTL

\* The two buffers are neither lost nor doubled while the sink is open.
THEOREM BuffersAreConserved == Spec => []BuffersConserved
<1>1. Inv => BuffersConserved
  BY DEF Inv, BufferInv
<1> QED
  BY <1>1, Invariance, PTL

\* When finish has answered Ok, the strips that the encoder consumed are all
\* the strips of the image.
LEMMA AllStripsWritten ==
    ASSUME Inv, finishReply = "ok"
    PROVE  /\ AllComplete(written)
           /\ Len(written) * RowsPerBuffer >= Height
<1>0. TypeOK /\ CallsInv /\ StripInv /\ FlushInv /\ ThreadsInv
  BY DEF Inv
<1>1. /\ writerExit = "ok" /\ writerPc = "exited" /\ message = NoMessage /\ flush = <<>>
      /\ current.rows = 0 /\ sinkPc = "closed"
  BY <1>0 DEF ThreadsInv
<1>2. /\ written \in Seq(Message) /\ Flushed = written /\ Len(written) \in Nat
  <2>1. written \in Seq(Message) /\ InHand = <<>>
    BY <1>0, <1>1 DEF TypeOK, InHand
  <2>2. written \o <<>> = written /\ <<>> \o <<>> = <<>>
    BY <2>1, ConcatEmptySeq, EmptySeq
  <2> QED
    BY <1>1, <2>1, <2>2, LenProperties DEF Flushed
<1>3. AllComplete(written)
  BY <1>0, <1>2 DEF FlushInv, StripsComplete, AllComplete
<1>4. StripStart(Len(written)) = current.start
  <2>1. ~Swapping /\ InOrder
    BY <1>0, <1>1 DEF CallsInv, NoCalls, Swapping, InOrder
  <2> QED
    BY <1>0, <1>2, <2>1 DEF FlushInv
<1>5. current.start = Height
  BY <1>0, <1>1, StripFacts DEF StripInv, TypeOK
<1>6. Len(written) * RowsPerBuffer \in Nat
  BY <1>2, Constants
<1> QED
  BY <1>3, <1>4, <1>5, <1>6, Constants DEF StripStart

\* finish answers Ok only for an encoder that got every pixel of the image.
THEOREM OkMeansImageWritten == Spec => []FinishOkMeansImageWritten
<1>1. ASSUME Inv, finishReply = "ok"
      PROVE  UNION { written[i].pixels : i \in DOMAIN written } = ImagePixels
  <2> DEFINE n == Len(written)
             start(i) == (i - 1) * RowsPerBuffer
  <2>1. AllComplete(written) /\ n * RowsPerBuffer >= Height
    BY <1>1, AllStripsWritten
  <2>2. written \in Seq(Message) /\ n \in Nat /\ DOMAIN written = 1 .. n
    BY <1>1, LenProperties DEF Inv, TypeOK
  <2>3. \A i \in 1 .. n : written[i].pixels \subseteq ImagePixels
    <3>1. \A i \in 1 .. n : written[i] \in Message
      BY <2>2, ElementOfSeq
    <3> QED
      BY <3>1 DEF Message
  <2>4. \A i \in 1 .. n : written[i].pixels = Pixels(Strip(start(i), StripRows(start(i))))
    BY <2>1, <2>2 DEF AllComplete
  <2>5. ASSUME NEW p \in ImagePixels
        PROVE  \E i \in 1 .. n : p \in written[i].pixels
    <3>1. PICK x \in 0 .. Width - 1, y \in 0 .. Height - 1 : p = <<x, y>>
      BY Constants DEF ImagePixels, Pixels, Region
    <3>2. PICK i \in 1 .. n : start(i) <= y /\ y < start(i) + StripRows(start(i))
      BY <2>1, <2>2, RowIsInAStrip
    <3>3. start(i) \in Nat /\ StripRows(start(i)) \in Int
      BY <2>2, <3>2, Constants DEF StripRows
    <3> HIDE DEF start
    <3>4. p \in Pixels(Strip(start(i), StripRows(start(i))))
      BY <3>1, <3>2, <3>3, Constants DEF Strip, Pixels, Region
    <3> QED
      BY <2>4, <3>4
  <2> QED
    BY <2>2, <2>3, <2>5
<1>2. Inv => FinishOkMeansImageWritten
  BY <1>1 DEF FinishOkMeansImageWritten, ImagePixels
<1> QED
  BY <1>2, Invariance, PTL

\* A worker never finds the slot taken by a strip that stays there: if it is
\* taken when a strip is complete, the writer thread is about to receive.
THEOREM SlotIsFreed ==
    Spec => [](\A w \in Workers : callPc[w] = "flushing" /\ flush # <<>> =>
                  writerPc = "receiving")
<1>1. ASSUME Inv, NEW w \in Workers, callPc[w] = "flushing", flush # <<>>
      PROVE  writerPc = "receiving"
  <2>0. TypeOK /\ CallsInv /\ StripInv /\ BufferInv /\ ThreadsInv
    BY <1>1 DEF Inv
  <2>1. sinkPc = "open" /\ current.rows > 0 /\ ~Swapping
    BY <1>1, <2>0, HolderFacts, Constants
  <2>2. writerPc # "exited" /\ flushOpen
    BY <1>1, <2>0, <2>1 DEF ThreadsInv
  <2>3. current.buffer = TRUE /\ Len(flush) \in Nat \ {0} /\ spare \in {0, 1}
    BY <1>1, <2>0, <2>1, <2>2, EmptySeq DEF BufferInv, TypeOK
  <2>4. message = NoMessage
    <3>1. 1 + Len(flush) + (IF message # NoMessage THEN 1 ELSE 0) + spare = 2
      BY <2>0, <2>1, <2>2, <2>3 DEF BufferInv, BuffersConserved
    <3> QED
      BY <2>3, <3>1
  <2> QED
    BY <1>1, <2>0, <2>2, <2>4 DEF ThreadsInv, TypeOK
<1>2. Inv => \A w \in Workers : callPc[w] = "flushing" /\ flush # <<>> => writerPc = "receiving"
  BY <1>1
<1> QED
  BY <1>2, Invariance, PTL

-----------------------------------------------------------------------------
(* The sink implements RasterWriter: what the encoder gets are the strips. *)

Regions(s) == [i \in DOMAIN s |-> s[i].region]

LEMMA SameInterval ==
    ASSUME NEW a \in Nat, NEW b \in Nat, 1 .. a = 1 .. b
    PROVE  a = b
<1>1. CASE a < b
  <2>1. b \in 1 .. b /\ b \notin 1 .. a
    BY <1>1
  <2> QED
    BY <2>1
<1>2. CASE b < a
  <2>1. a \in 1 .. a /\ a \notin 1 .. b
    BY <1>2
  <2> QED
    BY <2>1
<1> QED
  BY <1>1, <1>2

LEMMA RegionsFacts ==
    ASSUME NEW s \in Seq(Message)
    PROVE  /\ Regions(s) \in Seq(Strips)
           /\ Len(Regions(s)) = Len(s)
           /\ \A i \in 1 .. Len(s) : Regions(s)[i] = s[i].region
           /\ Regions(s) = <<>> <=> Len(s) = 0
<1>1. Len(s) \in Nat /\ DOMAIN s = 1 .. Len(s) /\ \A i \in 1 .. Len(s) : s[i] \in Message
  BY LenProperties, ElementOfSeq
<1> DEFINE d == Regions(s)
<1>2. d \in [1 .. Len(s) -> Strips] /\ \A i \in 1 .. Len(s) : d[i] = s[i].region
  BY <1>1 DEF Regions, Message
<1> HIDE DEF d
<1>3. d \in Seq(Strips)
  BY <1>1, <1>2, SeqDef
<1>4. Len(d) \in Nat /\ DOMAIN d = 1 .. Len(d) /\ DOMAIN d = 1 .. Len(s)
  <2>1. DOMAIN d = 1 .. Len(s)
    BY <1>2
  <2>2. Len(d) \in Nat /\ DOMAIN d = 1 .. Len(d)
    BY <1>3, LenProperties
  <2> QED
    BY <2>1, <2>2, Zenon
<1>5. Len(d) = Len(s)
  <2>1. 1 .. Len(d) = 1 .. Len(s)
    BY <1>4, Zenon
  <2> QED
    BY <1>1, <1>4, <2>1, SameInterval
<1>6. d = <<>> <=> Len(s) = 0
  BY <1>3, <1>5, EmptySeq
<1> QED
  BY <1>2, <1>3, <1>5, <1>6 DEF d

LEMMA RegionsAppend ==
    ASSUME NEW s \in Seq(Message), NEW m \in Message
    PROVE  Regions(Append(s, m)) = Append(Regions(s), m.region)
<1> DEFINE t == Append(s, m)
           c == Append(Regions(s), m.region)
<1>1. /\ t \in Seq(Message) /\ Len(t) = Len(s) + 1 /\ t[Len(s) + 1] = m
      /\ \A i \in 1 .. Len(s) : t[i] = s[i]
      /\ Len(s) \in Nat /\ m.region \in Strips
  BY AppendProperties, LenProperties DEF Message
<1>2. /\ Regions(s) \in Seq(Strips) /\ Len(Regions(s)) = Len(s)
      /\ \A i \in 1 .. Len(s) : Regions(s)[i] = s[i].region
  BY RegionsFacts
<1>3. /\ c \in Seq(Strips) /\ Len(c) = Len(s) + 1
      /\ c[Len(s) + 1] = m.region
      /\ \A i \in 1 .. Len(s) : c[i] = s[i].region
  BY <1>1, <1>2, AppendProperties
<1> HIDE DEF t, c
<1>4. /\ Regions(t) \in Seq(Strips) /\ Len(Regions(t)) = Len(s) + 1
      /\ \A i \in 1 .. Len(s) + 1 : Regions(t)[i] = t[i].region
  BY <1>1, RegionsFacts
<1>5. \A i \in 1 .. Len(s) + 1 : Regions(t)[i] = c[i]
  <2>1. ASSUME NEW i \in 1 .. Len(s) + 1 PROVE Regions(t)[i] = c[i]
    <3>1. CASE i = Len(s) + 1
      BY <1>1, <1>3, <1>4, <3>1
    <3>2. CASE i \in 1 .. Len(s)
      BY <1>1, <1>3, <1>4, <3>2
    <3> QED
      BY <1>1, <3>1, <3>2
  <2> QED
    BY <2>1
<1>6. Regions(t) = c
  BY <1>3, <1>4, <1>5, SeqEqual
<1> QED
  BY <1>6 DEF t, c

\* Complete strips end where the next one starts, as long as there is one.
LEMMA AfterStrips ==
    ASSUME NEW s \in Seq(Message), AllComplete(s), Len(s) * RowsPerBuffer < Height
    PROVE  AfterAll(Regions(s), Width) = [x |-> 0, y |-> Len(s) * RowsPerBuffer]
<1> DEFINE n == Len(s)
           d == Regions(s)
<1>1. /\ d \in Seq(Strips) /\ Len(d) = n /\ \A i \in 1 .. n : d[i] = s[i].region
      /\ d = <<>> <=> n = 0
      /\ n \in Nat /\ DOMAIN s = 1 .. n
  BY RegionsFacts, LenProperties
<1> HIDE DEF n, d
<1>2. CASE n = 0
  BY <1>1, <1>2, Constants DEF AfterAll, TopLeft, n, d
<1>3. CASE n # 0
  <2>1. n \in 1 .. n /\ d # <<>> /\ Len(d) = n
    BY <1>1, <1>3
  <2>2. d[n] = Strip((n - 1) * RowsPerBuffer, StripRows((n - 1) * RowsPerBuffer))
    BY <1>1, <2>1 DEF AllComplete
  <2>3. /\ (n - 1) * RowsPerBuffer + RowsPerBuffer = n * RowsPerBuffer
        /\ (n - 1) * RowsPerBuffer \in Nat
        /\ n * RowsPerBuffer < Height
    BY <1>1, <1>3, Constants DEF n
  <2>4. StripRows((n - 1) * RowsPerBuffer) = RowsPerBuffer
    BY <2>3, Constants DEF StripRows
  <2>5. AfterRegion(d[n], Width) = [x |-> 0, y |-> n * RowsPerBuffer]
    BY <2>2, <2>3, <2>4, Constants DEF AfterRegion, Strip, Region
  <2> QED
    BY <2>1, <2>5 DEF AfterAll, n, d
<1> QED
  BY <1>2, <1>3

LEMMA CompleteAt ==
    ASSUME NEW s, NEW n \in Nat, n + 1 \in DOMAIN s, AllComplete(s)
    PROVE  s[n + 1].region = Strip(n * RowsPerBuffer, StripRows(n * RowsPerBuffer))
<1>1. n + 1 - 1 = n
  OBVIOUS
<1>2. PICK k \in DOMAIN s : k = n + 1
  OBVIOUS
<1>3. s[k].region = Strip((k - 1) * RowsPerBuffer, StripRows((k - 1) * RowsPerBuffer))
  BY Zenon DEF AllComplete
<1>4. k - 1 = n /\ s[k] = s[n + 1]
  BY <1>1, <1>2
<1> QED
  BY <1>3, <1>4

\* The strip in the writer thread's hands is the one the encoder expects.
LEMMA MessageIsNext ==
    ASSUME Inv, writerPc = "writing"
    PROVE  /\ message \in Message
           /\ message.region \in Strips
           /\ InBounds(message.region, Width, Height)
           /\ Origin(message.region) = AfterAll(Regions(written), Width)
<1>0. TypeOK /\ FlushInv /\ ThreadsInv
  BY DEF Inv
<1> DEFINE n == Len(written)
           pre == written \o <<message>>
<1>1. /\ message \in Message /\ message.region \in Strips /\ InHand = <<message>>
      /\ written \in Seq(Message) /\ flush \in Seq(Message) /\ n \in Nat
  BY <1>0, LenProperties DEF ThreadsInv, TypeOK, InHand, Message
<1>2. AllComplete(pre) /\ AllComplete(written)
  <2>1. pre \in Seq(Message) /\ <<message>> \in Seq(Message)
    BY <1>1, ConcatProperties
  <2>2. Flushed = pre \o flush
    BY <1>1, <2>1, ConcatAssociative DEF Flushed
  <2>3. AllComplete(pre \o flush)
    BY <1>0, <2>2 DEF FlushInv, StripsComplete, AllComplete
  <2> HIDE DEF pre
  <2>4. AllComplete(pre)
    BY <1>1, <2>1, <2>3, CompletePrefix
  <2>5. AllComplete(written \o <<message>>)
    BY <2>4 DEF pre
  <2> QED
    BY <1>1, <2>1, <2>4, <2>5, CompletePrefix
<1>3. /\ n + 1 \in DOMAIN pre /\ pre[n + 1] = message
  <2>1. pre = Append(written, message)
    BY <1>1, AppendIsConcat
  <2>2. pre \in Seq(Message) /\ Len(pre) = n + 1 /\ pre[n + 1] = message
    BY <1>1, <2>1, AppendProperties
  <2> HIDE DEF pre, n
  <2> QED
    BY <1>1, <2>2, LenProperties
<1> HIDE DEF pre, n
<1>4. message.region = Strip(n * RowsPerBuffer, StripRows(n * RowsPerBuffer))
  BY <1>1, <1>2, <1>3, CompleteAt
<1>5. StripRows(n * RowsPerBuffer) \in 1 .. RowsPerBuffer
  <2>1. PICK y \in 0 .. Height, h \in 1 .. RowsPerBuffer : message.region = Strip(y, h)
    BY <1>1 DEF Strips
  <2>2. message.region.height = h /\ message.region.height = StripRows(n * RowsPerBuffer)
    BY <1>4, <2>1 DEF Strip, Region
  <2> QED
    BY <2>2
<1>6. n * RowsPerBuffer \in Nat /\ n * RowsPerBuffer < Height
  <2>1. n * RowsPerBuffer \in Nat
    BY <1>1, Constants
  <2> QED
    BY <2>1, <1>5, Constants DEF StripRows
<1>7. n * RowsPerBuffer + StripRows(n * RowsPerBuffer) <= Height
  BY <1>6, StripFacts, Constants
<1>8. InBounds(message.region, Width, Height)
  BY <1>4, <1>6, <1>7, Constants DEF InBounds, Strip, Region
<1>9. AfterAll(Regions(written), Width) = [x |-> 0, y |-> n * RowsPerBuffer]
  BY <1>1, <1>2, <1>6, AfterStrips DEF n
<1>10. Origin(message.region) = [x |-> 0, y |-> n * RowsPerBuffer]
  BY <1>4 DEF Origin, Strip, Region
<1> QED
  BY <1>1, <1>8, <1>9, <1>10

\* finish refuses an image of which the encoder does not have the last strip.
LEMMA RefusedIsIncomplete ==
    ASSUME Inv, FinishRefuses, InOrder
    PROVE  AfterAll(Regions(written), Width).y < Height
<1>0. TypeOK /\ CallsInv /\ StripInv /\ FlushInv /\ ThreadsInv
  BY DEF Inv
<1>1. current.rows > 0
  <2>1. current.rows > 0 \/ current.count > 0
    BY DEF FinishRefuses
  <2>2. current.rows = 0 => current.pixels = {}
    BY <1>0, Constants DEF StripInv, Pixels, Strip, Region, TypeOK
  <2>3. current.rows = 0 => current.count = 0
    BY <1>0, <2>2, FS_EmptySet DEF StripInv
  <2> QED
    BY <1>0, <2>1, <2>3 DEF TypeOK
<1>2. StripStart(Len(Flushed)) = current.start /\ current.start < Height
  <2>1. ~Swapping
    BY DEF FinishRefuses, NoCalls, Swapping
  <2>2. current.start < Height
    BY <1>0, <1>1, StripFacts, Constants DEF StripInv, TypeOK
  <2> QED
    BY <1>0, <2>1, <2>2 DEF FlushInv
<1>3. /\ written \in Seq(Message) /\ InHand \in Seq(Message) /\ written \o InHand \in Seq(Message)
      /\ flush \in Seq(Message)
      /\ Len(written) \in Nat /\ Len(Flushed) \in Nat /\ Len(written) <= Len(Flushed)
  BY <1>0, FlushedFacts DEF TypeOK
<1>4. AllComplete(written)
  <2>1. Flushed = (written \o InHand) \o flush
    BY <1>3, ConcatAssociative DEF Flushed
  <2>2. AllComplete((written \o InHand) \o flush)
    BY <1>0, <2>1 DEF FlushInv, StripsComplete, AllComplete
  <2>3. AllComplete(written \o InHand)
    BY <1>3, <2>2, CompletePrefix
  <2> QED
    BY <1>3, <2>3, CompletePrefix
<1>5. Len(written) * RowsPerBuffer < Height /\ Len(written) * RowsPerBuffer \in Nat
  <2>1. /\ Len(written) * RowsPerBuffer <= Len(Flushed) * RowsPerBuffer
        /\ Len(Flushed) * RowsPerBuffer < Height
    BY <1>2, <1>3, StripStartMonotone
  <2>2. Len(written) * RowsPerBuffer \in Nat /\ Len(Flushed) * RowsPerBuffer \in Nat
    BY <1>3, Constants
  <2> QED
    BY <2>1, <2>2, Constants
<1> QED
  BY <1>3, <1>4, <1>5, AfterStrips

LEMMA StepRefines ==
    ASSUME Inv, [Next]_sinkVars
    PROVE  [Abstract!Next]_(Abstract!writerVars)
<1> USE DEF callVars, stateVars, chanVars, writerVars, ownerVars
<1>0. TypeOK /\ CallsInv /\ ThreadsInv
  BY DEF Inv
\* Steps that change neither the encoder nor the answer of finish stutter.
<1>1. ASSUME UNCHANGED <<written, writerPc, writerExit, finishReply>>
      PROVE  UNCHANGED Abstract!writerVars
  BY <1>1 DEF Abstract!writerVars, EncoderState
<1>2. ASSUME NEW w \in Workers,
             CallStep(w) \/ SpuriousWake(w) \/ \E i \in DOMAIN plan : Call(w, i)
      PROVE  UNCHANGED Abstract!writerVars
  <2>1. UNCHANGED <<written, writerPc, writerExit, finishReply>>
    BY <1>2 DEF CallStep, ReturnWriterError, TakeTurn, WaitForTurn, SpuriousWake, Call, Copy,
                CopyMisses, FlushStrip, FlushDisconnected, TakeSpare, SwapDisconnected, CallFails
  <2> QED
    BY <1>1, <2>1
<1>3. CASE Receive \/ Disconnected \/ Recycle
  <2>1. /\ UNCHANGED <<written, writerExit, finishReply>>
        /\ writerPc # "storingError" /\ writerPc' # "storingError"
    BY <1>3 DEF Receive, Disconnected, Recycle
  <2> QED
    BY <2>1 DEF Abstract!writerVars, EncoderState
<1>4. CASE WriteOk
  <2>1. EncoderState = "open" /\ EncoderState' = "open"
    BY <1>0, <1>4 DEF WriteOk, EncoderState, ThreadsInv
  <2>1a. message \in Message /\ message.region \in Strips
    BY <1>4, MessageIsNext DEF WriteOk
  <2>1b. PICK r \in Strips : r = message.region
    BY <2>1a
  <2>2. /\ message \in Message /\ r \in Strips /\ InBounds(r, Width, Height)
        /\ Origin(r) = AfterAll(Regions(written), Width)
    BY <1>4, <2>1b, MessageIsNext DEF WriteOk
  <2>3. Regions(written)' = Append(Regions(written), r)
    <3>1. written' = Append(written, message) /\ written \in Seq(Message)
      BY <1>0, <1>4 DEF WriteOk, TypeOK
    <3>2. Regions(written)' = Regions(Append(written, message))
      BY <3>1 DEF Regions
    <3> QED
      BY <2>1b, <2>2, <3>1, <3>2, RegionsAppend
  <2>4. Abstract!Deliver(r)
    <3>1. Abstract!InBounds(r, Width, Height) <=> InBounds(r, Width, Height)
      BY DEF Abstract!InBounds, InBounds
    <3>2. Abstract!Origin(r) = Origin(r)
      BY DEF Abstract!Origin, Origin
    <3>3. Abstract!AfterAll(Regions(written), Width) = AfterAll(Regions(written), Width)
      BY DEF Abstract!AfterAll, AfterAll, Abstract!AfterRegion, AfterRegion,
             Abstract!TopLeft, TopLeft
    <3>4. UNCHANGED finishReply
      BY <1>4 DEF WriteOk
    <3> QED
      BY <2>1, <2>2, <2>3, <3>1, <3>2, <3>3, <3>4 DEF Abstract!Deliver, Regions
  <2>5. \E q \in Strips : Abstract!Deliver(q)
    BY <2>4, Zenon
  <2> QED
    BY <2>5 DEF Abstract!Next
<1>5. CASE FinishEncoder \/ EncoderPanics \/ EncoderFails \/ RecycleDisconnected
  <2>1. EncoderState = "open"
    BY <1>0, <1>5 DEF FinishEncoder, EncoderPanics, EncoderFails, RecycleDisconnected, EncoderState,
                      ThreadsInv
  <2>2. EncoderState' \in {"committed", "failed"}
    BY <1>0, <1>5 DEF FinishEncoder, EncoderPanics, EncoderFails, RecycleDisconnected, ExitWriter,
                      EncoderState, ThreadsInv
  <2>3. UNCHANGED <<written, finishReply>>
    BY <1>5 DEF FinishEncoder, EncoderPanics, EncoderFails, RecycleDisconnected
  <2>4. Abstract!Close(EncoderState')
    BY <2>1, <2>3 DEF Abstract!Close
  <2> QED
    BY <2>2, <2>4 DEF Abstract!Next
<1>6. CASE StoreWriterError
  <2>1. EncoderState = "failed" /\ EncoderState' = "failed"
    BY <1>0, <1>6 DEF StoreWriterError, ExitWriter, EncoderState, ThreadsInv
  <2> QED
    BY <1>6, <2>1 DEF StoreWriterError, Abstract!writerVars
<1>7. CASE Finish \/ Abandon \/ Drain \/ CloseFlush
  BY <1>7, <1>1 DEF Finish, Abandon, Drain, CloseFlush
<1>8. CASE FinishRefuses
  <2>1. /\ finishReply = "none" /\ finishReply' = "err"
        /\ UNCHANGED <<written, writerPc, writerExit>>
    BY <1>0, <1>8 DEF FinishRefuses, ThreadsInv, TypeOK
  <2>2. EncoderState' = EncoderState /\ EncoderState # "committed"
    BY <1>0, <1>8, <2>1 DEF FinishRefuses, EncoderState, ThreadsInv
  <2>3. CASE EncoderState = "open"
    <3>1. InOrder
      BY <1>0, <2>3 DEF InOrder, EncoderState, ThreadsInv, TypeOK
    <3>2. AfterAll(Regions(written), Width).y < Height
      BY <1>8, <3>1, RefusedIsIncomplete
    <3>3. Abstract!AfterAll(Regions(written), Width) = AfterAll(Regions(written), Width)
      BY DEF Abstract!AfterAll, AfterAll, Abstract!AfterRegion, AfterRegion,
             Abstract!TopLeft, TopLeft
    <3>4. Abstract!Refuse
      BY <2>1, <2>2, <2>3, <3>2, <3>3 DEF Abstract!Refuse, Regions
    <3> QED
      BY <3>4 DEF Abstract!Next
  <2>4. CASE EncoderState # "open"
    <3>1. Abstract!Report
      BY <2>1, <2>2, <2>4 DEF Abstract!Report
    <3> QED
      BY <3>1 DEF Abstract!Next
  <2> QED
    BY <2>3, <2>4
<1>9. CASE Join
  <2>1. finishReply = "none" /\ EncoderState # "open" /\ EncoderState' = EncoderState
    BY <1>0, <1>9 DEF Join, EncoderState, ThreadsInv, TypeOK
  <2>2. finishReply' = IF EncoderState = "committed" THEN "ok" ELSE "err"
    BY <1>0, <1>9 DEF Join, EncoderState, ThreadsInv, TypeOK
  <2>3. Abstract!Report
    BY <2>1, <2>2, <1>9 DEF Join, Abstract!Report
  <2> QED
    BY <2>3 DEF Abstract!Next
<1>10. CASE UNCHANGED sinkVars
  BY <1>10, <1>1 DEF sinkVars
<1> QED
  BY <1>2, <1>3, <1>4, <1>5, <1>6, <1>7, <1>8, <1>9, <1>10 DEF Next, WriterStep, OwnerStep

\* Seen from the encoder and from the caller of finish, the sink with its two
\* buffers and two channels is a plain raster-order writer of strips.
THEOREM Refinement == Spec => ImplementsRasterWriter
<1>1. Init => Abstract!Init
  <2>1. <<>> \in Seq(Message) /\ Len(<<>>) = 0
    BY EmptySeq
  <2>2. Regions(<<>>) = <<>>
    BY <2>1, RegionsFacts
  <2>3. Init => [i \in DOMAIN written |-> written[i].region] = <<>>
    BY <2>2 DEF Init, Regions
  <2> QED
    BY <2>3 DEF Init, Abstract!Init, EncoderState
<1>2. Inv /\ [Next]_sinkVars => [Abstract!Next]_(Abstract!writerVars)
  BY StepRefines
<1> QED
  BY <1>1, <1>2, Invariance, PTL DEF Spec, ImplementsRasterWriter, Abstract!Spec

=============================================================================
