---------------------------- MODULE SourceProofs ----------------------------
(***************************************************************************)
(* Proofs about what lies between the workers and the bytes of a file:     *)
(* the line cache of a worker, the tile cache that workers share, and the  *)
(* decoder source.  The three do not depend on each other.                 *)
(***************************************************************************)
EXTENDS LineCache, TileCache, DecoderSource,
        SequenceTheorems, FiniteSetTheorems, WellFoundedInduction, TLAPS

-----------------------------------------------------------------------------
(* LineCache.  The window is sound, and what it serves is what was asked   *)
(* for, for every image, every window and refill size and both accesses.   *)

ImageRows == 0 .. ImageHeight - 1

-----------------------------------------------------------------------------
(* Consecutive rows.                                                       *)

\* Rows(from, count) is a sequence of count rows.
LEMMA RowsIsSeq ==
    ASSUME NEW S, NEW from \in Int, NEW count \in Nat,
           \A i \in 1 .. count : from + i - 1 \in S
    PROVE  /\ Rows(from, count) \in Seq(S)
           /\ Len(Rows(from, count)) = count
           /\ \A i \in 1 .. count : Rows(from, count)[i] = from + i - 1
<1> DEFINE s == Rows(from, count)
<1>1. s \in [1 .. count -> S] /\ \A i \in 1 .. count : s[i] = from + i - 1
  BY DEF Rows
<1>2. s \in Seq(S)
  BY <1>1, SeqDef
<1>3. Len(s) \in Nat /\ DOMAIN s = 1 .. Len(s)
  BY <1>2, LenProperties
<1>4. Len(s) = count
  BY <1>1, <1>3
<1> QED
  BY <1>1, <1>2, <1>4

\* A sequence with these entries is Rows(from, Len(s)).
LEMMA RowsByEntries ==
    ASSUME NEW S, NEW s \in Seq(S), NEW from \in Int,
           \A i \in 1 .. Len(s) : s[i] = from + i - 1
    PROVE  s = Rows(from, Len(s))
<1>1. Len(s) \in Nat /\ \A i \in 1 .. Len(s) : s[i] \in S
  BY LenProperties, ElementOfSeq
<1>a. \A i \in 1 .. Len(s) : from + i - 1 \in S
  BY <1>1
<1>2. /\ Rows(from, Len(s)) \in Seq(S)
      /\ Len(Rows(from, Len(s))) = Len(s)
      /\ \A i \in 1 .. Len(s) : Rows(from, Len(s))[i] = from + i - 1
  BY <1>1, <1>a, RowsIsSeq
<1> QED
  BY <1>2, SeqEqual

\* No rows at all.
LEMMA EmptyRows ==
    ASSUME NEW from \in Int
    PROVE  <<>> = Rows(from, Len(<<>>))
<1>1. <<>> \in Seq(Int) /\ Len(<<>>) = 0
  BY EmptySeq
<1>2. \A i \in 1 .. Len(<<>>) : <<>>[i] = from + i - 1
  BY <1>1
<1> QED
  BY <1>1, <1>2, RowsByEntries

\* The rows after the first one.
LEMMA TailOfRows ==
    ASSUME NEW S, NEW s \in Seq(S), NEW from \in Int, s # <<>>, s = Rows(from, Len(s))
    PROVE  /\ Tail(s) \in Seq(S) /\ Len(Tail(s)) = Len(s) - 1
           /\ Tail(s) = Rows(from + 1, Len(Tail(s)))
<1>1. /\ Tail(s) \in Seq(S)
      /\ Len(Tail(s)) = Len(s) - 1
      /\ \A i \in 1 .. Len(Tail(s)) : Tail(s)[i] = s[i + 1]
  BY HeadTailProperties
<1>2. Len(s) \in Nat
  BY LenProperties
<1>3. \A i \in 1 .. Len(s) : s[i] = from + i - 1
  BY DEF Rows
<1>4. \A i \in 1 .. Len(Tail(s)) : Tail(s)[i] = (from + 1) + i - 1
  BY <1>1, <1>2, <1>3
<1> DEFINE t == Tail(s)
<1>5. t \in Seq(S) /\ from + 1 \in Int /\ \A i \in 1 .. Len(t) : t[i] = (from + 1) + i - 1
  BY <1>1, <1>4
<1> HIDE DEF t
<1>6. t = Rows(from + 1, Len(t))
  BY <1>5, RowsByEntries
<1> QED
  BY <1>1, <1>6 DEF t

\* The rows that follow at the end.
LEMMA RowsThenRows ==
    ASSUME NEW S, NEW s \in Seq(S), NEW from \in Int, NEW u \in Seq(S), NEW end \in Int,
           \A i \in 1 .. Len(s) : s[i] = from + i - 1,
           \A i \in 1 .. Len(u) : u[i] = end + i - 1, end = from + Len(s)
    PROVE  \A i \in 1 .. Len(s \o u) : (s \o u)[i] = from + i - 1
<1>1. Len(s) \in Nat /\ Len(u) \in Nat
  BY LenProperties
<1>2. /\ Len(s \o u) = Len(s) + Len(u)
      /\ \A i \in 1 .. Len(s) + Len(u) : (s \o u)[i] = IF i <= Len(s) THEN s[i] ELSE u[i - Len(s)]
  BY ConcatProperties
<1> QED
  BY <1>1, <1>2

\* A part of consecutive rows.
LEMMA PartOfRows ==
    ASSUME NEW S, NEW s \in Seq(S), NEW from \in Int, s = Rows(from, Len(s)),
           NEW m \in 1 .. Len(s), NEW n \in m .. Len(s)
    PROVE  /\ SubSeq(s, m, n) \in Seq(S)
           /\ SubSeq(s, m, n) = Rows(from + m - 1, n - m + 1)
<1> DEFINE t == SubSeq(s, m, n)
<1>1. Len(s) \in Nat /\ \A i \in 1 .. Len(s) : s[i] \in S
  BY LenProperties, ElementOfSeq
<1>2. m \in Int /\ n \in Int /\ \A i \in m .. n : s[i] \in S
  BY <1>1
<1>3. /\ t \in Seq(S)
      /\ Len(t) = n - m + 1
      /\ \A i \in 1 .. n - m + 1 : t[i] = s[m + i - 1]
  BY <1>1, <1>2, SubSeqProperties
<1>4. \A i \in 1 .. Len(s) : s[i] = from + i - 1
  BY DEF Rows
<1>5. \A i \in 1 .. Len(t) : t[i] = (from + m - 1) + i - 1
  BY <1>1, <1>3, <1>4
<1>6. from + m - 1 \in Int
  OBVIOUS
<1> HIDE DEF t
<1>7. t = Rows(from + m - 1, Len(t))
  BY <1>3, <1>5, <1>6, RowsByEntries
<1> QED
  BY <1>3, <1>7 DEF t

-----------------------------------------------------------------------------
(* The inductive invariant.                                                *)

\* The request that is being read begins no further down than what was reached.
InReach == status = "reading" => request.y <= reached

LineInv == LineTypeOK /\ WindowSound /\ ServedRowsRight /\ ForwardNeverRefused /\ InReach

LEMMA LineInitInv == LineInit => LineInv
<1> SUFFICES ASSUME LineInit PROVE LineInv
  OBVIOUS
<1>1. <<>> \in Seq(ImageRows) /\ Len(<<>>) = 0
  BY EmptySeq
<1>2. <<>> = Rows(0, Len(<<>>))
  BY EmptyRows
<1>3. LineTypeOK
  BY <1>1, LineCacheAssumption DEF LineInit, LineTypeOK, ImageRows, LineAnswers
<1>4. WindowSound
  BY <1>1, <1>2, LineCacheAssumption DEF LineInit, WindowSound, CachedEnd
<1> QED
  BY <1>3, <1>4 DEF LineInv, ServedRowsRight, ForwardNeverRefused, InReach, LineInit

\* What the constants say of the state.
LEMMA WindowFacts ==
    ASSUME LineTypeOK
    PROVE  /\ window.lines \in Nat \ {0} /\ window.refill \in Nat \ {0}
           /\ ImageHeight \in Nat
           /\ startY \in Nat /\ nextSourceY \in Nat /\ Len(rows) \in Nat
           /\ rows \in Seq(ImageRows)
           /\ \A r \in Requests : r.y \in Int /\ r.height \in Nat
BY LineCacheAssumption, LenProperties DEF LineTypeOK, ImageRows

\* Rows the source gives are as many as were asked for, and inside the image they
\* are the ones of the region.
LEMMA SourceRowsFacts ==
    ASSUME NEW r, r.y \in Int, r.height \in Nat, ImageHeight \in Nat
    PROVE  /\ SourceRows(r) \in Seq(Int)
           /\ r.y >= 0 /\ Bottom(r) <= ImageHeight => SourceRows(r) = Rows(r.y, r.height)
<1>1. \A i \in 1 .. r.height :
         (IF r.y + i - 1 < 0 THEN 0 ELSE Fewer(r.y + i - 1, ImageHeight - 1)) \in Int
  BY DEF Fewer
<1>2. SourceRows(r) \in [1 .. r.height -> Int]
  BY <1>1 DEF SourceRows
<1>3. SourceRows(r) \in Seq(Int)
  BY <1>2, SeqDef
<1>4. ASSUME r.y >= 0, Bottom(r) <= ImageHeight
      PROVE  SourceRows(r) = Rows(r.y, r.height)
  <2>1. \A i \in 1 .. r.height :
           (IF r.y + i - 1 < 0 THEN 0 ELSE Fewer(r.y + i - 1, ImageHeight - 1)) = r.y + i - 1
    BY <1>4 DEF Fewer, Bottom
  <2> QED
    BY <2>1 DEF SourceRows, Rows
<1> QED
  BY <1>3, <1>4

\* A request leaves the window alone, or starts a new one.
LEMMA AskInv ==
    ASSUME LineInv, NEW r \in Requests,
           ReadUnsupported(r) \/ ReadBehind(r) \/ ReadAndReset(r) \/ Read(r)
    PROVE  LineInv'
<1>1. LineTypeOK /\ WindowSound
  BY DEF LineInv
<1>2. /\ window.lines \in Nat \ {0} /\ ImageHeight \in Nat /\ startY \in Nat
      /\ r.y \in Int /\ r.height \in Nat
  BY <1>1, WindowFacts
<1>3. <<>> \in Seq(ImageRows) /\ Len(<<>>) = 0
  BY EmptySeq
<1>4. <<>> = Rows(r.y, Len(<<>>))
  BY <1>2, EmptyRows
<1>5. CASE ReadUnsupported(r) \/ ReadBehind(r) \/ Read(r)
  <2>1. output' \in Seq(Int) /\ reached' \in Nat
    <3>1. SourceRows(r) \in Seq(Int) /\ <<>> \in Seq(Int)
      BY <1>2, SourceRowsFacts, EmptySeq
    <3>2. output' = SourceRows(r) \/ output' = <<>>
      BY <1>5, Zenon DEF ReadUnsupported, ReadBehind, Read
    <3>3. reached' \in Nat
      <4>1. reached \in Nat
        BY <1>1 DEF LineTypeOK
      <4>2. reached' = reached \/ (r.y > reached /\ reached' = r.y)
        BY <1>5, Zenon DEF ReadUnsupported, ReadBehind, Read, Furthest
      <4> QED
        BY <1>2, <4>1, <4>2
    <3> QED
      BY <3>1, <3>2, <3>3, Zenon
  <2>2. LineTypeOK'
    BY <1>1, <1>2, <1>5, <2>1 DEF LineTypeOK, ReadUnsupported, ReadBehind, Read, Supported, LineAnswers
  <2>3. WindowSound'
    BY <1>1, <1>5 DEF WindowSound, CachedEnd, ReadUnsupported, ReadBehind, Read
  <2>4. ServedRowsRight'
    BY <1>5 DEF ServedRowsRight, ReadUnsupported, ReadBehind, Read, SourceRows
  <2>5. ForwardNeverRefused'
    BY <1>1, <1>2, <1>5 DEF LineInv, LineTypeOK, ForwardNeverRefused, ReadUnsupported, ReadBehind, Read, Furthest
  <2>6. InReach'
    BY <1>1, <1>2, <1>5 DEF LineTypeOK, InReach, ReadUnsupported, ReadBehind, Read, Furthest
  <2> QED
    BY <2>2, <2>3, <2>4, <2>5, <2>6 DEF LineInv
<1>6. CASE ReadAndReset(r)
  <2>1. LineTypeOK'
    <3>1. reached' \in Nat /\ <<>> \in Seq(Int)
      BY <1>1, <1>2, <1>6, EmptySeq DEF LineTypeOK, ReadAndReset, Furthest
    <3> QED
      BY <1>1, <1>2, <1>3, <1>6, <3>1
         DEF LineTypeOK, ReadAndReset, Supported, Bottom, LineAnswers, ImageRows
  <2>2. WindowSound'
    BY <1>1, <1>2, <1>3, <1>4, <1>6 DEF WindowSound, CachedEnd, ReadAndReset
  <2>3. ServedRowsRight'
    BY <1>6 DEF ServedRowsRight, ReadAndReset
  <2>4. ForwardNeverRefused'
    BY <1>1, <1>2, <1>6 DEF LineTypeOK, ForwardNeverRefused, ReadAndReset, Furthest
  <2>5. InReach'
    BY <1>1, <1>2, <1>6 DEF LineTypeOK, InReach, ReadAndReset, Furthest
  <2> QED
    BY <2>1, <2>2, <2>3, <2>4, <2>5 DEF LineInv
<1> QED
  BY <1>5, <1>6

LEMMA DropInv ==
    ASSUME LineInv, DropLine
    PROVE  LineInv'
<1>1. LineTypeOK /\ WindowSound
  BY DEF LineInv
<1>2. /\ window.lines \in Nat \ {0} /\ ImageHeight \in Nat
      /\ startY \in Nat /\ nextSourceY \in Nat /\ Len(rows) \in Nat
      /\ rows \in Seq(ImageRows)
  BY <1>1, WindowFacts
<1>3. status = "reading" /\ startY < request.y /\ rows # <<>>
  BY DEF DropLine, Filling, MustDrop
<1>4. /\ request \in Requests /\ request.y \in Int /\ request.height \in Nat
      /\ request.height > 0 /\ Bottom(request) <= ImageHeight
  BY <1>1, <1>3, WindowFacts DEF LineTypeOK, Supported
<1>5. startY \in Int /\ rows = Rows(startY, Len(rows))
  BY <1>1, <1>2 DEF WindowSound
<1>6. /\ Tail(rows) \in Seq(ImageRows) /\ Len(Tail(rows)) = Len(rows) - 1
      /\ Tail(rows) = Rows(startY + 1, Len(Tail(rows)))
  BY <1>2, <1>3, <1>5, TailOfRows
<1>7. startY + 1 \in 0 .. ImageHeight /\ startY + 1 <= request.y
  BY <1>2, <1>3, <1>4 DEF Bottom
<1>8. LineTypeOK'
  BY <1>1, <1>6, <1>7 DEF LineTypeOK, DropLine, Supported, ImageRows
<1>9. WindowSound'
  BY <1>1, <1>2, <1>6 DEF WindowSound, CachedEnd, DropLine
<1>10. ForwardNeverRefused'
  BY <1>1, <1>2, <1>3, <1>4, <1>7 DEF LineInv, LineTypeOK, InReach, ForwardNeverRefused, DropLine
<1> QED
  BY <1>3, <1>8, <1>9, <1>10 DEF LineInv, ServedRowsRight, InReach, DropLine

\* A chunk has a row at least, ends inside the image and fits the window.
LEMMA ChunkFits ==
    ASSUME LineTypeOK, WindowSound, Filling, ~MustDrop
    PROVE  /\ ChunkHeight \in Nat \ {0}
           /\ nextSourceY + ChunkHeight <= ImageHeight
           /\ Len(rows) + ChunkHeight <= window.lines
<1> DEFINE c == ChunkHeight
<1>1. /\ window.lines \in Nat \ {0} /\ window.refill \in Nat \ {0} /\ ImageHeight \in Nat
      /\ startY \in Nat /\ nextSourceY \in Nat /\ Len(rows) \in Nat
  BY WindowFacts
<1>2. /\ request.y \in Int /\ request.height \in Nat
      /\ request.height <= window.lines /\ request.y + request.height <= ImageHeight
      /\ startY <= request.y
  BY WindowFacts DEF LineTypeOK, Supported, Bottom, Filling
<1>3. nextSourceY = startY + Len(rows) /\ startY + Len(rows) < request.y + request.height
  BY DEF WindowSound, CachedEnd, Filling, Bottom
<1>4. /\ c \in Nat \ {0}
      /\ c <= request.y + request.height - (startY + Len(rows))
      /\ c <= ImageHeight - nextSourceY
  <2> DEFINE a == request.y + request.height - (startY + Len(rows))
             d == ImageHeight - nextSourceY
  <2>1. a \in Nat \ {0} /\ d \in Nat \ {0}
    BY <1>1, <1>2, <1>3
  <2>2. c = Fewer(Fewer(a, window.refill), d)
    BY <1>1, <1>2 DEF ChunkHeight, Bottom, CachedEnd
  <2> HIDE DEF a, c, d
  <2>3. c \in Nat \ {0} /\ c <= a /\ c <= d
    BY <1>1, <2>1, <2>2 DEF Fewer
  <2> QED
    BY <2>3 DEF a, d
<1>5. Len(rows) + c <= window.lines \/ startY >= request.y
  BY <1>1, <1>2, <1>4 DEF MustDrop
<1> HIDE DEF c
<1>6. Len(rows) + c <= window.lines
  BY <1>1, <1>2, <1>3, <1>4, <1>5
<1> QED
  BY <1>1, <1>4, <1>6 DEF c

LEMMA AppendInv ==
    ASSUME LineInv, AppendLines
    PROVE  LineInv'
<1> DEFINE c == ChunkHeight
           more == rows \o Rows(nextSourceY, c)
<1>1. LineTypeOK /\ WindowSound
  BY DEF LineInv
<1>2. /\ window.lines \in Nat \ {0} /\ ImageHeight \in Nat
      /\ startY \in Nat /\ nextSourceY \in Nat /\ Len(rows) \in Nat
      /\ rows \in Seq(ImageRows)
  BY <1>1, WindowFacts
<1>3. /\ c \in Nat \ {0}
      /\ nextSourceY + c <= ImageHeight
      /\ Len(rows) + c <= window.lines
  BY <1>1, ChunkFits DEF AppendLines
<1>4. startY \in Int /\ rows = Rows(startY, Len(rows)) /\ nextSourceY = startY + Len(rows)
  BY <1>1, <1>2 DEF WindowSound, CachedEnd
<1>5. rows' = more /\ nextSourceY' = nextSourceY + c /\ startY' = startY /\ window' = window
  BY <1>4 DEF AppendLines
<1> HIDE DEF c
<1>6. c \in Nat /\ nextSourceY \in Int /\ \A i \in 1 .. c : nextSourceY + i - 1 \in ImageRows
  BY <1>2, <1>3, <1>4 DEF ImageRows
<1>7. /\ more \in Seq(ImageRows) /\ Len(more) = Len(rows) + c
      /\ more = Rows(startY, Len(more))
  <2> DEFINE u == Rows(nextSourceY, c)
  <2>1. u \in Seq(ImageRows) /\ Len(u) = c /\ \A i \in 1 .. c : u[i] = nextSourceY + i - 1
    BY <1>6, RowsIsSeq
  <2>2. \A i \in 1 .. Len(rows) : rows[i] = startY + i - 1
    BY <1>4 DEF Rows
  <2> HIDE DEF u
  <2>3. rows \o u \in Seq(ImageRows) /\ Len(rows \o u) = Len(rows) + c
    BY <1>2, <2>1, ConcatProperties
  <2>4. \A i \in 1 .. Len(rows \o u) : (rows \o u)[i] = startY + i - 1
    <3>1. \A i \in 1 .. Len(u) : u[i] = nextSourceY + i - 1
      BY <2>1
    <3>2. rows \in Seq(ImageRows) /\ startY \in Int /\ nextSourceY \in Int
      BY <1>2, <1>4, <1>6
    <3> QED
      BY <1>4, <2>1, <2>2, <3>1, <3>2, RowsThenRows
  <2>5. rows \o u = Rows(startY, Len(rows \o u))
    BY <1>4, <2>3, <2>4, RowsByEntries
  <2> QED
    BY <2>3, <2>5 DEF u
<1> HIDE DEF more
<1>8. nextSourceY + c \in 0 .. ImageHeight
  BY <1>2, <1>3
<1>9. LineTypeOK'
  BY <1>1, <1>5, <1>7, <1>8 DEF LineTypeOK, AppendLines, Supported, ImageRows
<1>10. WindowSound'
  BY <1>2, <1>3, <1>4, <1>5, <1>7 DEF WindowSound, CachedEnd
<1> QED
  BY <1>5, <1>9, <1>10 DEF LineInv, ServedRowsRight, ForwardNeverRefused, InReach, AppendLines, Filling

LEMMA ServeInv ==
    ASSUME LineInv, Serve
    PROVE  LineInv'
<1> DEFINE m == request.y - startY + 1
           n == Bottom(request) - startY
<1>1. LineTypeOK /\ WindowSound
  BY DEF LineInv
<1>2. /\ startY \in Nat /\ Len(rows) \in Nat /\ rows \in Seq(ImageRows)
  BY <1>1, WindowFacts
<1>3. /\ request.y \in Int /\ request.height \in Nat /\ request.height > 0
      /\ startY <= request.y
  BY <1>1, WindowFacts DEF LineTypeOK, Supported, Serve
<1>4. m \in 1 .. Len(rows) /\ n \in m .. Len(rows)
  BY <1>2, <1>3 DEF Serve, CachedEnd, Bottom
<1>5. startY \in Int /\ rows = Rows(startY, Len(rows))
  BY <1>1, <1>2 DEF WindowSound
<1>6. output' = SubSeq(rows, m, n)
  BY DEF Serve
<1>7. startY + m - 1 = request.y /\ n - m + 1 = request.height
  BY <1>2, <1>3 DEF Bottom
<1> HIDE DEF m, n
<1>8. /\ SubSeq(rows, m, n) \in Seq(ImageRows)
      /\ SubSeq(rows, m, n) = Rows(startY + m - 1, n - m + 1)
  BY <1>2, <1>4, <1>5, PartOfRows
<1>9. LineTypeOK'
  <2>1. Rows(request.y, request.height) \in Seq(Int)
    BY <1>3, RowsIsSeq
  <2> QED
    BY <1>1, <1>6, <1>7, <1>8, <2>1 DEF LineTypeOK, Serve, LineAnswers
<1>10. WindowSound'
  BY <1>1 DEF WindowSound, CachedEnd, Serve
<1>11. SourceRows(request) = Rows(request.y, request.height)
  <2>1. request.y >= 0 /\ Bottom(request) <= ImageHeight /\ ImageHeight \in Nat
    BY <1>1, WindowFacts DEF LineTypeOK, Supported, Serve
  <2> QED
    BY <1>3, <2>1, SourceRowsFacts
<1>12. ServedRowsRight'
  <2>1. output' = Rows(request.y, request.height) /\ request' = request
    BY <1>6, <1>7, <1>8 DEF Serve
  <2> QED
    BY <1>11, <2>1 DEF ServedRowsRight, SourceRows
<1> QED
  BY <1>9, <1>10, <1>12 DEF LineInv, ForwardNeverRefused, InReach, Serve

LEMMA FailInv ==
    ASSUME LineInv, SourceFails
    PROVE  LineInv'
BY DEF LineInv, LineTypeOK, WindowSound, ServedRowsRight, ForwardNeverRefused, InReach, CachedEnd,
       SourceFails, LineAnswers

LEMMA LineStepInv == LineInv /\ [LineNext]_lineVars => LineInv'
<1> SUFFICES ASSUME LineInv, [LineNext]_lineVars PROVE LineInv'
  OBVIOUS
<1>1. CASE Ask
  BY <1>1, AskInv DEF Ask
<1>2. CASE DropLine
  BY <1>2, DropInv
<1>3. CASE AppendLines
  BY <1>3, AppendInv
<1>4. CASE Serve
  BY <1>4, ServeInv
<1>5. CASE SourceFails
  BY <1>5, FailInv
<1>6. CASE UNCHANGED lineVars
  BY <1>6 DEF lineVars, LineInv, LineTypeOK, WindowSound, ServedRowsRight, ForwardNeverRefused, InReach,
             CachedEnd, Supported, SourceRows
<1> QED
  BY <1>1, <1>2, <1>3, <1>4, <1>5, <1>6 DEF LineNext, Loop

LEMMA LineInvariance == LineSpec => []LineInv
BY LineInitInv, LineStepInv, PTL DEF LineSpec

-----------------------------------------------------------------------------
(* The theorems.                                                           *)

\* The cache's state has its types, for every image, window and request.
THEOREM LineTypeCorrect == LineSpec => []LineTypeOK
<1>1. LineInv => LineTypeOK
  BY DEF LineInv
<1> QED
  BY <1>1, LineInvariance, PTL

\* The window is consecutive rows, ends where it goes on to read and never
\* outgrows its buffer, whatever the tile height is.
THEOREM WindowHolds == LineSpec => []WindowSound
<1>1. LineInv => WindowSound
  BY DEF LineInv
<1> QED
  BY <1>1, LineInvariance, PTL

\* Served from the window or read past it, a region is what the source has there.
THEOREM ServedRows == LineSpec => []ServedRowsRight
<1>1. LineInv => ServedRowsRight
  BY DEF LineInv
<1> QED
  BY <1>1, LineInvariance, PTL

\* However a sequential source is read, a worker that goes down the image is not
\* refused: a request behind the window begins above an earlier one.
THEOREM ForwardIsServed == LineSpec => []ForwardNeverRefused
<1>1. LineInv => ForwardNeverRefused
  BY DEF LineInv
<1> QED
  BY <1>1, LineInvariance, PTL

-----------------------------------------------------------------------------
(* TileCache, for any threads, keys, tile sizes and budget.  StampInv is   *)
(* what makes the order of eviction work: a stamp lies between the         *)
(* beginning and the end of the use that took it, wherever it is.          *)

CallInOrder(c, clock) ==
    /\ c.at # "idle" => c.began <= clock
    /\ c.at \in {"touch", "insert"} => c.began < c.stamp /\ c.stamp <= clock

EntryInOrder(e) ==
    e.since < e.last_used /\ e.last_used <= e.until /\ e.until <= access_clock

SeenInOrder(k) ==
    seen[k].since < seen[k].stamp /\ seen[k].stamp <= tiles[k].until

StampInv ==
    /\ CacheTypeOK
    /\ \A t \in Threads : CallInOrder(call[t], access_clock)
    /\ \A k \in DOMAIN tiles : EntryInOrder(tiles[k])
    /\ \A k \in DOMAIN seen : SeenInOrder(k)
    /\ DOMAIN seen # {} => writer # None /\ OverBudget

\* The thread's call becomes c.
Becomes(t, c) == call' = [call EXCEPT ![t] = c]

\* A touch keeps an entry an entry, in order and the same one.
LEMMA TouchedEntry ==
  ASSUME NEW e \in Entry, NEW c \in Calls, c.at \in {"touch", "insert"},
         access_clock \in Nat, EntryInOrder(e), c.began < c.stamp, c.stamp <= access_clock
  PROVE  /\ Touched(e, c) \in Entry
         /\ EntryInOrder(Touched(e, c))
         /\ Touched(e, c).born = e.born
         /\ e.until <= Touched(e, c).until
<1>1. c.began \in Nat /\ c.stamp \in Nat
  BY DEF Calls, Idle
<1> QED
  BY <1>1 DEF Touched, Entry, EntryInOrder

LEMMA InitStamps == CacheInit => StampInv
  BY TileCacheAssumption
  DEF CacheInit, StampInv, CacheTypeOK, NoTiles, Calls, CallInOrder, Idle, Without

\* A thread whose call is replaced by one in order leaves the calls in order.
LEMMA CallsStayInOrder ==
  ASSUME StampInv, NEW t \in Threads, NEW c \in Calls, Becomes(t, c),
         access_clock' \in Nat, access_clock <= access_clock',
         CallInOrder(c, access_clock')
  PROVE  /\ call' \in [Threads -> Calls]
         /\ \A s \in Threads : CallInOrder(call'[s], access_clock')
<1>1. call' \in [Threads -> Calls]
  BY DEF StampInv, CacheTypeOK, Becomes
<1>2. ASSUME NEW s \in Threads PROVE CallInOrder(call'[s], access_clock')
  <2>1. CASE s = t
    BY <2>1 DEF StampInv, CacheTypeOK, Becomes
  <2>2. CASE s # t
    <3>1. call'[s] = call[s] /\ call[s] \in Calls /\ access_clock \in Nat
      BY <2>2 DEF StampInv, CacheTypeOK, Becomes
    <3>2. call[s].at # "idle" => call[s].began \in Nat /\ call[s].stamp \in Nat
      BY <3>1 DEF Calls, Idle
    <3>3. CallInOrder(call[s], access_clock)
      BY DEF StampInv
    <3> QED
      BY <3>1, <3>2, <3>3 DEF CallInOrder
  <2> QED
    BY <2>1, <2>2
<1> QED
  BY <1>1, <1>2

\* Steps of a thread that leave the map and what is read of it alone.
LEMMA QuietCall ==
  ASSUME StampInv, NEW t \in Threads, NEW c \in Calls, Becomes(t, c),
         access_clock' \in Nat, access_clock <= access_clock',
         CallInOrder(c, access_clock'),
         UNCHANGED <<tiles, total_bytes, writer, seen>>
  PROVE  StampInv'
<1>1. /\ call' \in [Threads -> Calls]
      /\ \A s \in Threads : CallInOrder(call'[s], access_clock')
  BY CallsStayInOrder
<1>2. CacheTypeOK'
  BY <1>1 DEF StampInv, CacheTypeOK
<1>3. \A k \in DOMAIN tiles : EntryInOrder(tiles[k])'
  BY DEF StampInv, CacheTypeOK, EntryInOrder, Entry
<1> QED
  BY <1>1, <1>2, <1>3 DEF StampInv, SeenInOrder, OverBudget

\* A thread whose call has a place has the fields of a call.
LEMMA CallFields ==
  ASSUME CacheTypeOK, NEW t \in Threads, call[t].at # "idle"
  PROVE  /\ call[t] \in [at : Places \ {"idle"}, key : Keys, began : Nat,
                         entry : Nat, stamp : Nat]
         /\ call[t].key \in Keys /\ call[t].began \in Nat /\ call[t].stamp \in Nat
  BY DEF CacheTypeOK, Calls, Idle

LEMMA LookupStamps ==
  ASSUME StampInv, NEW t \in Threads, NEW k \in Keys, Lookup(t, k)
  PROVE  StampInv'
<1> DEFINE c == [at |-> IF k \in DOMAIN tiles THEN "hit" ELSE "miss",
                 key |-> k, began |-> access_clock, stamp |-> 0,
                 entry |-> IF k \in DOMAIN tiles THEN tiles[k].born ELSE 0]
<1>1. /\ access_clock' = access_clock /\ access_clock \in Nat
      /\ UNCHANGED <<tiles, total_bytes, writer, seen>>
  BY DEF Lookup, StampInv, CacheTypeOK
<1>2. c \in Calls /\ CallInOrder(c, access_clock)
  BY <1>1 DEF StampInv, CacheTypeOK, Calls, Entry, Places, CallInOrder
<1>3. Becomes(t, c)
  BY DEF Lookup, Becomes
<1> HIDE DEF c
<1>4. CallInOrder(c, access_clock') /\ access_clock <= access_clock'
  BY <1>1, <1>2
<1> QED
  BY <1>1, <1>2, <1>3, <1>4, QuietCall

LEMMA MakeStamps ==
  ASSUME StampInv, NEW t \in Threads, Make(t)
  PROVE  StampInv'
<1> DEFINE c == [call[t] EXCEPT !.at = "made"]
<1>1. /\ access_clock' = access_clock /\ access_clock \in Nat
      /\ UNCHANGED <<tiles, total_bytes, writer, seen>> /\ CacheTypeOK
      /\ call[t].at # "idle" /\ CallInOrder(call[t], access_clock)
  BY DEF Make, At, StampInv, CacheTypeOK
<1>2. c \in Calls /\ c.at = "made" /\ c.began = call[t].began
  BY <1>1, CallFields DEF Calls, Places
<1>3. Becomes(t, c)
  BY <1>1 DEF Make, Goto, CacheTypeOK, Becomes
<1> HIDE DEF c
<1>4. CallInOrder(c, access_clock') /\ access_clock <= access_clock'
  BY <1>1, <1>2 DEF CallInOrder
<1> QED
  BY <1>1, <1>2, <1>3, <1>4, QuietCall

LEMMA MakeFailsStamps ==
  ASSUME StampInv, NEW t \in Threads, MakeFails(t)
  PROVE  StampInv'
<1>1. /\ access_clock' = access_clock /\ access_clock \in Nat
      /\ UNCHANGED <<tiles, total_bytes, writer, seen>>
  BY DEF MakeFails, StampInv, CacheTypeOK
<1>2. Idle \in Calls /\ CallInOrder(Idle, access_clock')
  BY DEF Calls, Idle, CallInOrder
<1>3. Becomes(t, Idle)
  BY DEF MakeFails, Return, Becomes
<1>4. access_clock <= access_clock'
  BY <1>1
<1> QED
  BY <1>1, <1>2, <1>3, <1>4, QuietCall

LEMMA TakeStampStamps ==
  ASSUME StampInv, NEW t \in Threads, TakeStamp(t)
  PROVE  StampInv'
<1> DEFINE p == IF At(t, "hit") THEN "touch" ELSE "insert"
           c == [call[t] EXCEPT !.at = p, !.stamp = access_clock + 1]
<1>1. /\ access_clock' = access_clock + 1 /\ access_clock \in Nat
      /\ UNCHANGED <<tiles, total_bytes, writer, seen>> /\ CacheTypeOK
      /\ call[t].at # "idle" /\ CallInOrder(call[t], access_clock)
  BY DEF TakeStamp, StampInv, CacheTypeOK
<1>2. call[t].began \in Nat /\ call[t].began <= access_clock
  BY <1>1, CallFields DEF CallInOrder
<1>3. c \in Calls /\ c.began = call[t].began /\ c.stamp = access_clock + 1
  <2>1. p \in Places \ {"idle"}
    BY DEF Places
  <2>2. access_clock + 1 \in Nat
    BY <1>1
  <2> HIDE DEF p
  <2> QED
    BY <1>1, <2>1, <2>2, CallFields DEF Calls
<1>4. Becomes(t, c)
  BY DEF TakeStamp, Becomes
<1> HIDE DEF c
<1>5. CallInOrder(c, access_clock') /\ access_clock <= access_clock' /\ access_clock' \in Nat
  BY <1>1, <1>2, <1>3 DEF CallInOrder
<1> QED
  BY <1>1, <1>3, <1>4, <1>5, QuietCall

\* A call that ends touches the entry of its key, or leaves the map alone.
LEMMA TouchingStamps ==
  ASSUME StampInv, NEW t \in Threads, Touch(t) \/ InsertExisting(t)
  PROVE  StampInv'
<1> DEFINE c == call[t]
<1>1. /\ CacheTypeOK /\ c.at \in {"touch", "insert"} /\ CallInOrder(c, access_clock)
      /\ UNCHANGED <<total_bytes, access_clock, writer, seen>>
      /\ access_clock \in Nat
  BY DEF Touch, InsertExisting, At, StampInv, CacheTypeOK
<1>2. c \in Calls /\ c.key \in Keys /\ c.began < c.stamp /\ c.stamp <= access_clock
  BY <1>1, CallFields DEF CallInOrder, CacheTypeOK
<1>3. \/ tiles' = tiles
      \/ c.key \in DOMAIN tiles /\ tiles' = [tiles EXCEPT ![c.key] = Touched(@, c)]
  BY DEF Touch, InsertExisting
<1>4. /\ DOMAIN tiles' = DOMAIN tiles
      /\ \A k \in DOMAIN tiles :
            tiles'[k] \in Entry /\ EntryInOrder(tiles'[k]) /\ tiles[k].until <= tiles'[k].until
  <2>1. CASE tiles' = tiles
    BY <2>1 DEF StampInv, CacheTypeOK, Entry
  <2>2. CASE c.key \in DOMAIN tiles /\ tiles' = [tiles EXCEPT ![c.key] = Touched(@, c)]
    <3>1. DOMAIN tiles' = DOMAIN tiles
      BY <2>2
    <3>2. ASSUME NEW k \in DOMAIN tiles
          PROVE  tiles'[k] \in Entry /\ EntryInOrder(tiles'[k]) /\ tiles[k].until <= tiles'[k].until
      <4>1. tiles[k] \in Entry /\ EntryInOrder(tiles[k])
        BY DEF StampInv, CacheTypeOK
      <4>2. CASE k = c.key
        <5>1. tiles'[k] = Touched(tiles[k], c)
          BY <2>2, <4>2
        <5> QED
          BY <5>1, <4>1, <1>1, <1>2, TouchedEntry
      <4>3. CASE k # c.key
        BY <2>2, <4>1, <4>3 DEF Entry
      <4> QED
        BY <4>2, <4>3
    <3> QED
      BY <3>1, <3>2
  <2> QED
    BY <1>3, <2>1, <2>2
<1>5. Becomes(t, Idle) /\ Idle \in Calls /\ CallInOrder(Idle, access_clock')
  BY DEF Touch, InsertExisting, Return, Becomes, Idle, Calls, CallInOrder
<1>6. /\ call' \in [Threads -> Calls]
      /\ \A s \in Threads : CallInOrder(call'[s], access_clock')
  BY <1>1, <1>5, CallsStayInOrder
<1>7. CacheTypeOK'
  BY <1>1, <1>4, <1>6 DEF CacheTypeOK
<1>8. \A k \in DOMAIN tiles' : EntryInOrder(tiles[k])'
  BY <1>1, <1>4 DEF EntryInOrder
<1>9. \A k \in DOMAIN seen' : SeenInOrder(k)'
  <2> SUFFICES ASSUME NEW k \in DOMAIN seen PROVE SeenInOrder(k)'
    BY <1>1
  <2>1. k \in DOMAIN tiles /\ SeenInOrder(k) /\ seen[k] \in [stamp : Nat, since : Nat]
    BY DEF StampInv, CacheTypeOK
  <2>2. tiles[k].until \in Nat /\ tiles'[k].until \in Nat /\ tiles[k].until <= tiles'[k].until
    BY <1>4, <2>1 DEF StampInv, CacheTypeOK, Entry
  <2> QED
    BY <1>1, <2>1, <2>2 DEF SeenInOrder
<1> QED
  BY <1>1, <1>6, <1>7, <1>8, <1>9 DEF StampInv, OverBudget

LEMMA InsertNewStamps ==
  ASSUME StampInv, NEW t \in Threads, InsertNew(t)
  PROVE  StampInv'
<1> DEFINE c == call[t]
           new == [born |-> c.stamp, last_used |-> c.stamp,
                   since |-> c.began, until |-> access_clock]
           d == [c EXCEPT !.at = "evict"]
<1>1. /\ CacheTypeOK /\ c.at = "insert" /\ CallInOrder(c, access_clock)
      /\ UNCHANGED <<access_clock, seen>> /\ access_clock \in Nat
      /\ writer' = t /\ writer = None /\ total_bytes' = total_bytes + Bytes[c.key]
  BY DEF InsertNew, At, LockFree, StampInv, CacheTypeOK
<1>2. c \in Calls /\ c.key \in Keys /\ c.began < c.stamp /\ c.stamp <= access_clock
  BY <1>1, CallFields DEF CallInOrder, CacheTypeOK
<1>3. new \in Entry /\ EntryInOrder(new)
  BY <1>1, <1>2, CallFields DEF Entry, EntryInOrder
<1>4. /\ DOMAIN tiles' = DOMAIN tiles \cup {c.key}
      /\ \A k \in DOMAIN tiles' : tiles'[k] = IF k = c.key THEN new ELSE tiles[k]
  BY DEF InsertNew
<1> HIDE DEF new
<1>5. DOMAIN seen = {}
  BY <1>1 DEF StampInv
<1>6. d \in Calls /\ d.at = "evict" /\ d.began = c.began
  BY <1>1, CallFields DEF Calls, Places
<1>7. Becomes(t, d)
  BY <1>1 DEF InsertNew, Goto, CacheTypeOK, Becomes
<1> HIDE DEF d
<1>8. CallInOrder(d, access_clock')
  BY <1>1, <1>6 DEF CallInOrder
<1>9. /\ call' \in [Threads -> Calls]
      /\ \A s \in Threads : CallInOrder(call'[s], access_clock')
  BY <1>1, <1>6, <1>7, <1>8, CallsStayInOrder
<1>10. \A k \in DOMAIN tiles' : tiles'[k] \in Entry /\ EntryInOrder(tiles'[k])
  BY <1>3, <1>4 DEF StampInv, CacheTypeOK
<1>11. CacheTypeOK'
  BY <1>1, <1>2, <1>4, <1>5, <1>9, <1>10, TileCacheAssumption DEF CacheTypeOK
<1>12. \A k \in DOMAIN tiles' : EntryInOrder(tiles[k])'
  BY <1>1, <1>10 DEF EntryInOrder
<1> QED
  BY <1>1, <1>5, <1>9, <1>11, <1>12 DEF StampInv

LEMMA EvictStamps ==
  ASSUME StampInv, NEW k \in Keys, ReadStamp(k) \/ EvictOldest(k)
  PROVE  StampInv'
<1>0. CacheTypeOK
  BY DEF StampInv
<1>1. CASE ReadStamp(k)
  <2>1. /\ UNCHANGED <<tiles, total_bytes, access_clock, writer, call>>
        /\ writer # None /\ OverBudget /\ k \in DOMAIN tiles
        /\ DOMAIN seen' = DOMAIN seen \cup {k}
        /\ \A j \in DOMAIN seen' : seen'[j] = IF j = k
              THEN [stamp |-> tiles[k].last_used, since |-> tiles[k].since] ELSE seen[j]
    BY <1>1 DEF ReadStamp
  <2>2. tiles[k] \in Entry /\ EntryInOrder(tiles[k])
    BY <2>1 DEF StampInv, CacheTypeOK
  <2>3. CacheTypeOK'
    <3>1. \A j \in DOMAIN seen' : seen'[j] \in [stamp : Nat, since : Nat]
      BY <1>0, <2>1, <2>2 DEF CacheTypeOK, Entry
    <3> QED
      BY <1>0, <2>1, <3>1 DEF CacheTypeOK
  <2>4. \A j \in DOMAIN seen' : SeenInOrder(j)'
    BY <2>1, <2>2 DEF StampInv, SeenInOrder, EntryInOrder
  <2> QED
    BY <2>1, <2>3, <2>4 DEF StampInv, OverBudget, EntryInOrder
<1>2. CASE EvictOldest(k)
  <2>1. /\ UNCHANGED <<access_clock, writer, call>> /\ DOMAIN seen' = {}
        /\ DOMAIN tiles' = DOMAIN tiles \ {k}
        /\ \A j \in DOMAIN tiles' : tiles'[j] = tiles[j]
        /\ k \in DOMAIN tiles
        /\ total_bytes' = IF total_bytes >= Bytes[k] THEN total_bytes - Bytes[k] ELSE 0
    BY <1>2 DEF EvictOldest, NoTiles, Without
  <2>2. total_bytes' \in Nat
    BY <1>0, <2>1, TileCacheAssumption DEF CacheTypeOK
  <2>3. CacheTypeOK'
    BY <1>0, <2>1, <2>2 DEF CacheTypeOK
  <2> QED
    BY <2>1, <2>3 DEF StampInv, EntryInOrder
<1> QED
  BY <1>1, <1>2

LEMMA UnlockStamps ==
  ASSUME StampInv, NEW t \in Threads, Unlock(t)
  PROVE  StampInv'
<1>1. /\ UNCHANGED <<tiles, total_bytes, access_clock, seen>> /\ writer' = None
      /\ CacheTypeOK /\ access_clock \in Nat
  BY DEF Unlock, StampInv, CacheTypeOK
<1>2. DOMAIN seen = {}
  BY DEF Unlock, StampInv, CacheTypeOK
<1>3. Becomes(t, Idle) /\ Idle \in Calls /\ CallInOrder(Idle, access_clock')
  BY DEF Unlock, Return, Becomes, Idle, Calls, CallInOrder
<1>4. /\ call' \in [Threads -> Calls]
      /\ \A s \in Threads : CallInOrder(call'[s], access_clock')
  BY <1>1, <1>3, CallsStayInOrder
<1>5. CacheTypeOK'
  BY <1>1, <1>4 DEF CacheTypeOK
<1> QED
  BY <1>1, <1>2, <1>4, <1>5 DEF StampInv, EntryInOrder

LEMMA ClearStamps ==
  ASSUME StampInv, Clear
  PROVE  StampInv'
<1>1. DOMAIN seen = {} /\ DOMAIN tiles' = {} /\ total_bytes' = 0
      /\ UNCHANGED <<access_clock, writer, seen, call>>
  BY DEF Clear, LockFree, StampInv, NoTiles
<1>2. CacheTypeOK'
  BY <1>1 DEF StampInv, CacheTypeOK
<1> QED
  BY <1>1, <1>2 DEF StampInv

LEMMA NextStamps == StampInv /\ [CacheNext]_cacheVars => StampInv'
<1> SUFFICES ASSUME StampInv, [CacheNext]_cacheVars PROVE StampInv'
  OBVIOUS
<1>1. CASE UNCHANGED cacheVars
  BY <1>1 DEF cacheVars, StampInv, CacheTypeOK, EntryInOrder, SeenInOrder, OverBudget
<1>2. ASSUME NEW t \in Threads, CallStep(t) PROVE StampInv'
  BY <1>2, MakeStamps, MakeFailsStamps, TakeStampStamps, TouchingStamps,
     InsertNewStamps, UnlockStamps DEF CallStep
<1>3. ASSUME NEW t \in Threads, NEW k \in Keys, Lookup(t, k) PROVE StampInv'
  BY <1>3, LookupStamps
<1>4. CASE EvictStep
  BY <1>4, EvictStamps DEF EvictStep
<1>5. CASE Clear
  BY <1>5, ClearStamps
<1> QED
  BY <1>1, <1>2, <1>3, <1>4, <1>5 DEF CacheNext

LEMMA StampInvariant == CacheSpec => []StampInv
  BY InitStamps, NextStamps, PTL DEF CacheSpec

-----------------------------------------------------------------------------
(* The theorems.                                                           *)

\* The variables keep their types.
THEOREM CacheTypeCorrect == CacheSpec => []CacheTypeOK
<1>1. StampInv => CacheTypeOK
  BY DEF StampInv
<1> QED
  BY <1>1, StampInvariant, PTL

\* A victim was read with the smallest stamp: the beginning of its last uses
\* is before that stamp, and the end of the last use of every other entry is
\* not before the larger stamp read there.
LEMMA VictimIsOlder ==
  ASSUME StampInv, [CacheNext]_cacheVars, NEW k \in Keys, NEW j \in Keys,
         Evicts(k), j \in DOMAIN tiles'
  PROVE  tiles[j].until > seen[k].since
<1>1. PICK i \in Keys : EvictOldest(i)
  <2>1. writer # None /\ DOMAIN tiles' # DOMAIN tiles /\ k \in DOMAIN tiles /\ k \notin DOMAIN tiles'
    BY DEF Evicts
  <2>2. ~Clear /\ ~UNCHANGED cacheVars
    BY <2>1 DEF Clear, LockFree, cacheVars
  <2>3. \A t \in Threads : ~CallStep(t) /\ \A i \in Keys : ~Lookup(t, i)
    BY <2>1 DEF CallStep, Make, MakeFails, TakeStamp, Touch, InsertExisting, InsertNew,
       Unlock, Lookup, LockFree
  <2>4. EvictStep
    BY <2>2, <2>3 DEF CacheNext
  <2>5. \A i \in Keys : ~ReadStamp(i)
    BY <2>1 DEF ReadStamp
  <2> QED
    BY <2>4, <2>5 DEF EvictStep
<1>2. i = k /\ j \in DOMAIN tiles
  BY <1>1 DEF EvictOldest, Without, Evicts
<1>3. seen[k].stamp <= seen[j].stamp /\ k \in DOMAIN seen /\ j \in DOMAIN seen
  BY <1>1, <1>2 DEF EvictOldest
<1>4. SeenInOrder(k) /\ SeenInOrder(j)
  BY <1>3 DEF StampInv
<1>5. /\ seen[k] \in [stamp : Nat, since : Nat] /\ seen[j] \in [stamp : Nat, since : Nat]
      /\ tiles[j] \in Entry
  BY <1>2, <1>3 DEF StampInv, CacheTypeOK
<1> QED
  BY <1>3, <1>4, <1>5 DEF SeenInOrder, Entry

\* Whatever the threads do between a stamp and its use, no tile goes while
\* another stays whose uses had all ended before its last uses began.
THEOREM EvictionOrder == CacheSpec => EvictsLeastRecent
<1>1. StampInv /\ [CacheNext]_cacheVars =>
        [\A k, j \in Keys :
           Evicts(k) /\ j \in DOMAIN tiles' => tiles[j].until > seen[k].since]_cacheVars
  BY VictimIsOlder
<1> QED
  BY <1>1, StampInvariant, PTL DEF CacheSpec, EvictsLeastRecent

\* However many threads make the same tile, the first one inserted stays.
THEOREM FirstTileShared == CacheSpec => FirstTileStays
<1>1. StampInv /\ [CacheNext]_cacheVars =>
        [\A k \in DOMAIN tiles \cap DOMAIN tiles' : tiles'[k].born = tiles[k].born]_cacheVars
  <2> SUFFICES ASSUME StampInv, CacheNext, NEW k \in DOMAIN tiles, k \in DOMAIN tiles'
               PROVE  tiles'[k].born = tiles[k].born
    OBVIOUS
  <2>1. ASSUME NEW t \in Threads, Touch(t) \/ InsertExisting(t)
        PROVE  tiles'[k].born = tiles[k].born
    BY <2>1 DEF Touch, InsertExisting, Touched
  <2>2. ASSUME NEW t \in Threads, InsertNew(t) PROVE tiles'[k].born = tiles[k].born
    BY <2>2 DEF InsertNew
  <2>3. ASSUME NEW t \in Threads,
               Make(t) \/ MakeFails(t) \/ TakeStamp(t) \/ Unlock(t) \/ \E i \in Keys : Lookup(t, i)
        PROVE  tiles'[k].born = tiles[k].born
    BY <2>3 DEF Make, MakeFails, TakeStamp, Unlock, Lookup
  <2>4. CASE EvictStep
    BY <2>4 DEF EvictStep, ReadStamp, EvictOldest, Without
  <2>5. CASE Clear
    BY <2>5 DEF Clear, NoTiles
  <2> QED
    BY <2>1, <2>2, <2>3, <2>4, <2>5 DEF CacheNext, CallStep
<1> QED
  BY <1>1, StampInvariant, PTL DEF CacheSpec, FirstTileStays

\* A set of natural numbers has a least one: what stands for an induction here.
LEMMA LeastNatural ==
    ASSUME NEW T \in SUBSET Nat, T # {}
    PROVE  \E n \in T : \A m \in T : n <= m
<1> DEFINE R == { mn \in Nat \X Nat : mn[1] < mn[2] }
<1>1. IsWellFoundedOn(R, Nat)
  BY NatLessThanWellFounded DEF OpToRel
<1>2. \A m, n \in Nat : m < n => <<m, n>> \in R
  OBVIOUS
<1> HIDE DEF R
<1>3. T \subseteq Nat
  OBVIOUS
<1>4. \E n \in T : \A m \in T : ~(<<m, n>> \in R)
  BY <1>1, <1>3, WFMin, Zenon
<1>5. PICK n \in T : \A m \in T : ~(<<m, n>> \in R)
  BY <1>4
<1>6. ASSUME NEW m \in T PROVE n <= m
  <2>1. m \in Nat /\ n \in Nat /\ ~(<<m, n>> \in R)
    BY <1>3, <1>5
  <2>2. ~(m < n)
    BY <1>2, <2>1, Zenon
  <2> QED
    BY <2>1, <2>2
<1> QED
  BY <1>6

\* The bytes of the tiles of some keys.
BytesOf(S) == MapThenSumSet(LAMBDA k : Bytes[k], S)

FirstOf(S) == CHOOSE k \in S : TRUE
AddsUp(f, S) ==
    f = [s \in SUBSET S |-> IF s = {} THEN 0 ELSE Bytes[FirstOf(s)] + f[s \ {FirstOf(s)}]]

LEMMA SmallerSet ==
    ASSUME NEW S, IsFiniteSet(S), NEW s \in SUBSET S, s # {}
    PROVE  /\ FirstOf(s) \in s /\ s \ {FirstOf(s)} \in SUBSET S
           /\ IsFiniteSet(s) /\ Cardinality(s) \in Nat \ {0}
           /\ \A x \in s : /\ IsFiniteSet(s \ {x})
                           /\ Cardinality(s \ {x}) \in Nat /\ Cardinality(s \ {x}) = Cardinality(s) - 1
<1>1. FirstOf(s) \in s
  BY DEF FirstOf
<1>2. IsFiniteSet(s)
  BY FS_Subset
<1>3. Cardinality(s) \in Nat /\ Cardinality(s) # 0
  BY <1>2, FS_CardinalityType, FS_EmptySet
<1>4. ASSUME NEW x \in s
      PROVE  /\ IsFiniteSet(s \ {x})
             /\ Cardinality(s \ {x}) \in Nat /\ Cardinality(s \ {x}) = Cardinality(s) - 1
  <2>1. IsFiniteSet(s \ {x}) /\ Cardinality(s \ {x}) = Cardinality(s) - 1
    BY <1>2, FS_RemoveElement
  <2>2. Cardinality(s \ {x}) \in Nat
    BY <2>1, FS_CardinalityType
  <2> QED
    BY <2>1, <2>2
<1> QED
  BY <1>1, <1>2, <1>3, <1>4

\* The recursion of MapThenSumSet has a solution ...
LEMMA AddsUpExists ==
    ASSUME NEW S \in SUBSET Keys, IsFiniteSet(S)
    PROVE  \E f \in [SUBSET S -> Nat] : AddsUp(f, S)
<1> DEFINE Next(f, s) == IF s = {} THEN 0 ELSE Bytes[FirstOf(s)] + f[s \ {FirstOf(s)}]
           UpTo(n) == \E f \in [SUBSET S -> Nat] : \A s \in SUBSET S : Cardinality(s) <= n => f[s] = Next(f, s)
           T == { n \in Nat : ~UpTo(n) }
<1>1. \A k \in S : Bytes[k] \in Nat
  BY TileCacheAssumption
<1>2. ASSUME NEW f \in [SUBSET S -> Nat], NEW s \in SUBSET S PROVE Next(f, s) \in Nat
  <2>1. CASE s = {}
    BY <2>1
  <2>2. CASE s # {}
    <3>1. FirstOf(s) \in S /\ s \ {FirstOf(s)} \in SUBSET S
      BY <2>2, SmallerSet
    <3> QED
      BY <2>2, <3>1, <1>1
  <2> QED
    BY <2>1, <2>2
<1>3. UpTo(0)
  <2> DEFINE f == [s \in SUBSET S |-> 0]
  <2>1. f \in [SUBSET S -> Nat]
    OBVIOUS
  <2>2. ASSUME NEW s \in SUBSET S, Cardinality(s) <= 0 PROVE f[s] = Next(f, s)
    <3>1. s = {}
      BY <2>2, SmallerSet
    <3> QED
      BY <3>1
  <2> HIDE DEF f
  <2> QED
    BY <2>1, <2>2
<1>4. ASSUME NEW n \in Nat, UpTo(n) PROVE UpTo(n + 1)
  <2>1. PICK f \in [SUBSET S -> Nat] : \A s \in SUBSET S : Cardinality(s) <= n => f[s] = Next(f, s)
    BY <1>4
  <2> DEFINE g == [s \in SUBSET S |-> Next(f, s)]
  <2>2. g \in [SUBSET S -> Nat]
    BY <1>2
  <2>3. ASSUME NEW s \in SUBSET S, Cardinality(s) <= n + 1 PROVE g[s] = Next(g, s)
    <3>1. CASE s = {}
      BY <3>1
    <3>2. CASE s # {}
      <4> DEFINE r == s \ {FirstOf(s)}
      <4>1. /\ r \in SUBSET S /\ Cardinality(r) \in Nat /\ Cardinality(s) \in Nat
            /\ Cardinality(r) = Cardinality(s) - 1
        BY <3>2, SmallerSet
      <4> HIDE DEF r
      <4>2. Cardinality(r) <= n
        BY <2>3, <4>1
      <4>3. f[r] = Next(f, r)
        BY <2>1, <4>1, <4>2
      <4>4. g[r] = f[r]
        BY <4>1, <4>3
      <4> QED
        BY <3>2, <4>4 DEF r
    <3> QED
      BY <3>1, <3>2
  <2> HIDE DEF g, Next
  <2> QED
    BY <2>2, <2>3
<1> HIDE DEF UpTo
<1>5. T = {}
  <2> SUFFICES ASSUME T # {} PROVE FALSE
    OBVIOUS
  <2>1. T \in SUBSET Nat
    OBVIOUS
  <2>2. PICK n \in T : \A m \in T : n <= m
    BY <2>1, LeastNatural
  <2>3. n \in Nat /\ n # 0 /\ ~UpTo(n)
    BY <1>3, <2>2
  <2>4. n - 1 \in Nat /\ n - 1 \notin T
    BY <2>2, <2>3
  <2>5. UpTo(n - 1)
    BY <2>4
  <2>6. UpTo((n - 1) + 1)
    BY <1>4, <2>4, <2>5
  <2>7. (n - 1) + 1 = n
    BY <2>3
  <2> QED
    BY <2>3, <2>6, <2>7
<1>6. Cardinality(S) \in Nat
  BY FS_CardinalityType
<1>7. PICK f \in [SUBSET S -> Nat] : \A s \in SUBSET S : Cardinality(s) <= Cardinality(S) => f[s] = Next(f, s)
  BY <1>5, <1>6 DEF UpTo
<1>8. ASSUME NEW s \in SUBSET S PROVE f[s] = Next(f, s)
  BY <1>6, <1>7, FS_Subset
<1>9. f = [s \in SUBSET S |-> Next(f, s)]
  BY <1>8
<1> QED
  BY <1>9 DEF AddsUp

\* ... and one only.
LEMMA AddsUpOnce ==
    ASSUME NEW S, NEW R, IsFiniteSet(S), NEW f, NEW g, AddsUp(f, S), AddsUp(g, R),
           NEW s \in SUBSET S, s \in SUBSET R
    PROVE  f[s] = g[s]
<1> DEFINE T == { n \in Nat : \E r \in SUBSET S : r \in SUBSET R /\ Cardinality(r) = n /\ f[r] # g[r] }
<1> SUFFICES ASSUME f[s] # g[s] PROVE FALSE
  OBVIOUS
<1>1. Cardinality(s) \in T
  BY FS_Subset, FS_CardinalityType
<1>2. T \in SUBSET Nat /\ T # {}
  BY <1>1
<1> HIDE DEF T
<1>3. PICK n \in T : \A m \in T : n <= m
  BY <1>2, LeastNatural
<1>4. PICK r \in SUBSET S : r \in SUBSET R /\ Cardinality(r) = n /\ f[r] # g[r]
  BY <1>3 DEF T
<1>5. \A q \in SUBSET S : f[q] = IF q = {} THEN 0 ELSE Bytes[FirstOf(q)] + f[q \ {FirstOf(q)}]
  BY DEF AddsUp
<1>6. \A q \in SUBSET R : g[q] = IF q = {} THEN 0 ELSE Bytes[FirstOf(q)] + g[q \ {FirstOf(q)}]
  BY DEF AddsUp
<1>7. r # {}
  BY <1>4, <1>5, <1>6
<1> DEFINE q == r \ {FirstOf(r)}
<1>8. /\ q \in SUBSET S /\ q \in SUBSET R
      /\ Cardinality(q) \in Nat /\ Cardinality(q) = n - 1 /\ n \in Nat
  BY <1>4, <1>7, SmallerSet
<1>9. f[q] # g[q]
  BY <1>4, <1>5, <1>6, <1>7
<1> HIDE DEF q
<1>10. Cardinality(q) \in T
  BY <1>8, <1>9 DEF T
<1> QED
  BY <1>3, <1>8, <1>10

LEMMA BytesOfFirst ==
    ASSUME NEW S \in SUBSET Keys, IsFiniteSet(S)
    PROVE  /\ BytesOf(S) \in Nat
           /\ S = {} => BytesOf(S) = 0
           /\ S # {} => BytesOf(S) = Bytes[FirstOf(S)] + BytesOf(S \ {FirstOf(S)})
<1> DEFINE F(R) == CHOOSE f : AddsUp(f, R)
<1>1. ASSUME NEW R \in SUBSET Keys, IsFiniteSet(R)
      PROVE  AddsUp(F(R), R) /\ BytesOf(R) = F(R)[R] /\ BytesOf(R) \in Nat
  <2>1. PICK f \in [SUBSET R -> Nat] : AddsUp(f, R)
    BY <1>1, AddsUpExists
  <2>2. AddsUp(F(R), R)
    BY <2>1, Zenon
  <2>3. BytesOf(R) = F(R)[R]
    BY DEF BytesOf, MapThenSumSet, MapThenFoldSet, AddsUp, FirstOf
  <2>4. F(R)[R] = f[R]
    BY <1>1, <2>1, <2>2, AddsUpOnce
  <2> QED
    BY <2>1, <2>2, <2>3, <2>4
<1> HIDE DEF F
<1>2. F(S)[S] = IF S = {} THEN 0 ELSE Bytes[FirstOf(S)] + F(S)[S \ {FirstOf(S)}]
  BY <1>1 DEF AddsUp
<1>3. ASSUME S # {} PROVE F(S)[S \ {FirstOf(S)}] = BytesOf(S \ {FirstOf(S)})
  <2> DEFINE R == S \ {FirstOf(S)}
  <2>1. R \in SUBSET S /\ R \in SUBSET Keys /\ R \in SUBSET R /\ IsFiniteSet(R)
    BY <1>3, SmallerSet
  <2>2. AddsUp(F(R), R) /\ AddsUp(F(S), S)
    BY <1>1, <2>1
  <2>3. F(S)[R] = F(R)[R]
    BY <2>1, <2>2, AddsUpOnce
  <2> QED
    BY <1>1, <2>1, <2>3
<1> QED
  BY <1>1, <1>2, <1>3

\* Any key of the set may be counted first.
LEMMA BytesOfAny ==
    ASSUME NEW S \in SUBSET Keys, IsFiniteSet(S), NEW k \in S
    PROVE  BytesOf(S) = Bytes[k] + BytesOf(S \ {k})
<1> DEFINE Wrong(R) == \E j \in R : BytesOf(R) # Bytes[j] + BytesOf(R \ {j})
           T == { n \in Nat : \E R \in SUBSET S : Cardinality(R) = n /\ Wrong(R) }
<1> SUFFICES ASSUME BytesOf(S) # Bytes[k] + BytesOf(S \ {k}) PROVE FALSE
  OBVIOUS
<1>1. Cardinality(S) \in T
  BY FS_CardinalityType
<1>2. T \in SUBSET Nat /\ T # {}
  BY <1>1
<1> HIDE DEF T
<1>3. PICK n \in T : \A m \in T : n <= m
  BY <1>2, LeastNatural
<1>4. PICK R \in SUBSET S : Cardinality(R) = n /\ Wrong(R)
  BY <1>3 DEF T
<1>5. PICK j \in R : BytesOf(R) # Bytes[j] + BytesOf(R \ {j})
  BY <1>4
<1> DEFINE i == FirstOf(R)
<1>6. /\ i \in R /\ IsFiniteSet(R) /\ n \in Nat
      /\ \A x \in R : /\ IsFiniteSet(R \ {x})
                      /\ Cardinality(R \ {x}) \in Nat /\ Cardinality(R \ {x}) = n - 1
  BY <1>4, <1>5, SmallerSet
<1>7. \A x \in R : ~Wrong(R \ {x})
  <2> SUFFICES ASSUME NEW x \in R, Wrong(R \ {x}) PROVE FALSE
    OBVIOUS
  <2>1. Cardinality(R \ {x}) \in T
    BY <1>6 DEF T
  <2> QED
    BY <1>3, <1>6, <2>1
<1>8. BytesOf(R) = Bytes[i] + BytesOf(R \ {i})
  BY <1>6, BytesOfFirst
<1>9. i # j
  BY <1>5, <1>8
<1> HIDE DEF i
<1>10. BytesOf(R \ {i}) = Bytes[j] + BytesOf((R \ {i}) \ {j})
  BY <1>6, <1>7, <1>9
<1>11. BytesOf(R \ {j}) = Bytes[i] + BytesOf((R \ {j}) \ {i})
  BY <1>6, <1>7, <1>9
<1>12. (R \ {i}) \ {j} = (R \ {j}) \ {i}
  OBVIOUS
<1> DEFINE Q == (R \ {j}) \ {i}
<1>13. Q \in SUBSET Keys /\ IsFiniteSet(Q)
  BY <1>6, FS_Subset
<1>14. BytesOf(Q) \in Nat /\ Bytes[i] \in Nat /\ Bytes[j] \in Nat
  BY <1>6, <1>13, BytesOfFirst, TileCacheAssumption
<1>15. BytesOf(R \ {i}) = Bytes[j] + BytesOf(Q)
  BY <1>10, <1>12
<1> HIDE DEF Q
<1> QED
  BY <1>5, <1>8, <1>11, <1>14, <1>15 DEF Q

LEMMA BytesOfMore ==
    ASSUME NEW S \in SUBSET Keys, IsFiniteSet(S), NEW k \in Keys \ S
    PROVE  BytesOf(S \cup {k}) = BytesOf(S) + Bytes[k]
<1> DEFINE R == S \cup {k}
<1>1. R \in SUBSET Keys /\ IsFiniteSet(R) /\ k \in R /\ R \ {k} = S
  BY FS_AddElement
<1> HIDE DEF R
<1>2. BytesOf(R) = Bytes[k] + BytesOf(R \ {k})
  BY <1>1, BytesOfAny
<1>3. BytesOf(S) \in Nat /\ Bytes[k] \in Nat
  BY BytesOfFirst, TileCacheAssumption
<1>4. BytesOf(R \ {k}) = BytesOf(S)
  BY <1>1
<1>5. BytesOf(R) = BytesOf(S) + Bytes[k]
  BY <1>2, <1>3, <1>4
<1> QED
  BY <1>5 DEF R

\* total_bytes is that sum, and whoever unlocks the cache leaves it within its
\* budget.  This is inductive beside the types.
BytesInv ==
    /\ total_bytes = BytesOf(DOMAIN tiles)
    /\ LockFree => ~OverBudget

LEMMA NextBytes ==
    ASSUME CacheTypeOK, BytesInv, [CacheNext]_cacheVars
    PROVE  BytesInv'
<1> DEFINE held == DOMAIN tiles
<1>1. /\ held \in SUBSET Keys /\ IsFiniteSet(held)
      /\ total_bytes \in Nat /\ MaxBytes \in Nat /\ Bytes \in [Keys -> Nat]
  BY TileCacheAssumption, FS_Subset DEF CacheTypeOK
<1>2. ASSUME DOMAIN tiles' = held, total_bytes' = total_bytes, writer' = writer
      PROVE  BytesInv'
  BY <1>2 DEF BytesInv, LockFree, OverBudget
<1>3. ASSUME NEW t \in Threads, Make(t) \/ MakeFails(t) \/ TakeStamp(t) \/ \E k \in Keys : Lookup(t, k)
      PROVE  BytesInv'
  BY <1>2, <1>3 DEF Make, MakeFails, TakeStamp, Lookup
<1>4. ASSUME NEW t \in Threads, Touch(t) \/ InsertExisting(t)
      PROVE  BytesInv'
  BY <1>2, <1>4 DEF Touch, InsertExisting
<1>5. ASSUME NEW t \in Threads, InsertNew(t)
      PROVE  BytesInv'
  <2> DEFINE k == call[t].key
  <2>1. k \in Keys \ held
    BY <1>5 DEF InsertNew, At, Idle, CacheTypeOK, Calls
  <2>2. DOMAIN tiles' = held \cup {k} /\ total_bytes' = total_bytes + Bytes[k] /\ writer' = t
    BY <1>5 DEF InsertNew
  <2> HIDE DEF held, k
  <2>3. BytesOf(held \cup {k}) = BytesOf(held) + Bytes[k]
    BY <1>1, <2>1, BytesOfMore
  <2>4. total_bytes' = BytesOf(DOMAIN tiles')
    BY <2>2, <2>3 DEF BytesInv, held
  <2>5. writer' # None
    BY <2>2, TileCacheAssumption
  <2> QED
    BY <2>4, <2>5 DEF BytesInv, LockFree
<1>6. ASSUME NEW t \in Threads, Unlock(t)
      PROVE  BytesInv'
  <2>1. UNCHANGED <<tiles, total_bytes>> /\ (~OverBudget \/ held = {})
    BY <1>6 DEF Unlock
  <2>2. held = {} => total_bytes = 0
    BY <1>1, BytesOfFirst DEF BytesInv
  <2>3. ~OverBudget
    BY <1>1, <2>1, <2>2 DEF OverBudget
  <2> QED
    BY <2>1, <2>3 DEF BytesInv, OverBudget
<1>7. ASSUME NEW k \in Keys, ReadStamp(k)
      PROVE  BytesInv'
  BY <1>2, <1>7 DEF ReadStamp
<1>8. ASSUME NEW k \in Keys, EvictOldest(k)
      PROVE  BytesInv'
  <2>1. /\ k \in held /\ DOMAIN tiles' = held \ {k} /\ writer # None /\ writer' = writer
        /\ total_bytes' = IF total_bytes >= Bytes[k] THEN total_bytes - Bytes[k] ELSE 0
    BY <1>8 DEF EvictOldest, Without
  <2> HIDE DEF held
  <2>2. BytesOf(held) = Bytes[k] + BytesOf(held \ {k})
    BY <1>1, <2>1, BytesOfAny
  <2>3. BytesOf(held \ {k}) \in Nat /\ Bytes[k] \in Nat
    <3>1. held \ {k} \in SUBSET Keys /\ IsFiniteSet(held \ {k})
      BY <1>1, FS_Subset
    <3> QED
      BY <1>1, <3>1, BytesOfFirst
  <2>4. total_bytes = BytesOf(held)
    BY DEF BytesInv, held
  <2>5. total_bytes' = BytesOf(held \ {k})
    BY <1>1, <2>1, <2>2, <2>3, <2>4
  <2> QED
    BY <2>1, <2>5 DEF BytesInv, LockFree
<1>9. ASSUME Clear
      PROVE  BytesInv'
  <2>1. DOMAIN tiles' = {} /\ total_bytes' = 0
    BY <1>9 DEF Clear, NoTiles
  <2>2. BytesOf({}) = 0
    BY BytesOfFirst, FS_EmptySet
  <2> QED
    BY <1>1, <2>1, <2>2 DEF BytesInv, OverBudget
<1>10. CASE UNCHANGED cacheVars
  BY <1>2, <1>10 DEF cacheVars
<1> QED
  BY <1>3, <1>4, <1>5, <1>6, <1>7, <1>8, <1>9, <1>10 DEF CacheNext, CallStep, EvictStep

\* The cache counts its bytes, and is within its budget whenever the lock is
\* free: stale touches, racing inserts and evictions that read stamps out of
\* order do not upset the sum.
THEOREM BytesAreAccounted == CacheSpec => []BytesAccounted
<1>1. CacheInit => BytesInv
  <2>1. BytesOf({}) = 0
    BY BytesOfFirst, FS_EmptySet
  <2> QED
    BY <2>1, TileCacheAssumption DEF CacheInit, NoTiles, BytesInv, BytesOf, OverBudget
<1>2. CacheTypeOK /\ BytesInv /\ [CacheNext]_cacheVars => BytesInv'
  BY NextBytes
<1>3. BytesInv => BytesAccounted
  BY DEF BytesInv, BytesAccounted, BytesOf
<1> QED
  BY <1>1, <1>2, <1>3, CacheTypeCorrect, PTL DEF CacheSpec

-----------------------------------------------------------------------------
(* DecoderSource.  For every set of files, factors and targets: the        *)
(* dimensions the builder plans with are those of the source, and the rows *)
(* it lends are those it would copy; for files that are stored upright and *)
(* deferred sources opened with no shrink of their own, the frame a source *)
(* reports is the one its tiles are cut from; for files whose decoder      *)
(* shrinks them evenly, a thumbnail is never enlarged.                     *)

LEMMA Quotient ==
    ASSUME NEW n \in Nat, NEW f \in Nat \ {0}
    PROVE  n \div f \in Nat /\ (n >= f => n \div f >= 1)
OBVIOUS

\* Shrinking a size leaves a size.
LEMMA ScaledImage ==
    ASSUME NEW size \in Image, NEW f \in Nat \ {0}
    PROVE  Scaled(size, f) \in Image
<1>1. \A n \in Nat \ {0} : Shrunk(n, f) \in Nat \ {0}
  BY Quotient DEF Shrunk, AtLeastOne
<1> QED BY <1>1 DEF Scaled, Image

LEMMA DecodedImage ==
    ASSUME file \in Files, NEW f \in 1..255
    PROVE  /\ Size \in Image /\ Decoded(f) \in Image /\ Streamed(f) \in Image
<1>1. Size \in Image
  BY DecoderSourceAssumption DEF Size, Image, File
<1>2. CodecFactor(f) \in Nat \ {0}
  BY DEF CodecFactor
<1>3. Scaled(Size, CodecFactor(f)) \in Image
  BY <1>1, <1>2, ScaledImage
<1>4. ASSUME NEW n \in Nat \ {0} PROVE RoundedUp(n, f) \in Nat \ {0}
  <2>1. n + f - 1 \in Nat /\ n + f - 1 >= f
    OBVIOUS
  <2> QED BY <2>1, Quotient DEF RoundedUp
<1>5. [width |-> RoundedUp(file.width, f), height |-> RoundedUp(file.height, f)] \in Image
  BY <1>4, DecoderSourceAssumption DEF Image, File
<1>6. Rotated(Scaled(Size, CodecFactor(f))) \in Image
  BY <1>3 DEF Rotated, Image
<1> QED BY <1>1, <1>3, <1>5, <1>6 DEF Decoded, Streamed

\* Whatever the decoder did by itself, a decode with its residual shrink has
\* done what the hint asked for, so a deferred source that re-decodes says yes.
LEMMA NothingLeftToShrink ==
    ASSUME NEW f
    PROVE  DecodedAndShrunk(f).factor = Normal(f)
<1> DEFINE b == BackingFactor(Normal(f), Decoded(f))
<1>1. Normal(f) \in {1, 2, 4, 8, 16}
  BY DEF Normal
<1>2. b = Normal(f) \/ b = 1
  BY DEF BackingFactor
<1>3. CASE b = Normal(f)
  <2>1. DecodedAndShrunk(f) = [image |-> Decoded(f), factor |-> b]
    BY <1>1, <1>3 DEF DecodedAndShrunk, Residual
  <2> QED BY <2>1, <1>3
<1>4. CASE b = 1 /\ Normal(f) > 1
  <2> HIDE DEF b
  <2>1. DecodedAndShrunk(f) = Residual(Decoded(f), Normal(f), 1)
    BY <1>4 DEF DecodedAndShrunk, b
  <2>2. Normal(f) % 1 = 0 /\ Normal(f) \div 1 = Normal(f)
    BY <1>1
  <2>3. Residual(Decoded(f), Normal(f), 1).factor = Normal(f)
    BY <1>1, <1>4, <2>2 DEF Residual
  <2> QED BY <2>1, <2>3
<1> QED BY <1>1, <1>2, <1>3, <1>4

\* A thumbnail hint the source answers "no" to has left its frame alone.
LEMMA RefusalKeepsFrame ==
    ASSUME NEW f, SetThumbnailShrinkOnLoad(f, "no")
    PROVE  Keep
<1>1. CASE ThumbnailUnsupported(f, "no")
  BY <1>1 DEF ThumbnailUnsupported
<1>2. CASE ThumbnailInMemory(f, "no")
  BY <1>2 DEF ThumbnailInMemory
<1>3. CASE ThumbnailStreaming(f, "no")
  BY <1>3 DEF ThumbnailStreaming
<1>4. CASE ThumbnailDeferred(f, "no")
  <2>1. Normal(f) \in {1, 2, 4, 8, 16}
    BY DEF Normal
  <2>2. YesIf(DecodedAndShrunk(f).factor >= Normal(f)) = "yes"
    BY <2>1, NothingLeftToShrink DEF YesIf
  <2> QED BY <1>4, <2>2 DEF ThumbnailDeferred
<1>5. CASE ThumbnailEager(f, "no")
  BY <1>5 DEF ThumbnailEager
<1> QED BY <1>1, <1>2, <1>3, <1>4, <1>5 DEF SetThumbnailShrinkOnLoad

\* The frame is a function of the source's state.
LEMMA SameSourceSameFrame ==
    Keep => Frame' = Frame
BY DEF Keep, source, Frame, ViewFactor, Scaled, Shrunk, AtLeastOne

\* The dimensions the builder plans every tile with are those the source
\* reports, after any sequence of hints and of failing decodes.
THEOREM ArenaFollowsSource == DecoderSpec => []ArenaKnowsFrame
<1>1. DecoderInit => ArenaKnowsFrame
  BY DEF DecoderInit, ArenaKnowsFrame
<1>2. ArenaKnowsFrame /\ [DecoderNext]_decoderVars => ArenaKnowsFrame'
  <2> SUFFICES ASSUME ArenaKnowsFrame, [DecoderNext]_decoderVars PROVE ArenaKnowsFrame'
    OBVIOUS
  <2>1. ASSUME Open PROVE ArenaKnowsFrame'
    BY <2>1 DEF Open, ArenaKnowsFrame
  <2>2. ASSUME NEW f \in Factors, Hint(f) PROVE ArenaKnowsFrame'
    BY <2>2 DEF Hint, builder, ArenaKnowsFrame
  <2>3. CASE ReadRegion
    <3>1. Frame' = Frame
      BY <2>3 DEF ReadRegion, Frame, ViewFactor, Scaled, Shrunk, AtLeastOne
    <3> QED BY <2>3, <3>1 DEF ReadRegion, builder, ArenaKnowsFrame
  <2>4. CASE FromSource
    BY <2>4, SameSourceSameFrame DEF FromSource, Keep, ArenaKnowsFrame
  <2>5. ASSUME NEW target \in Targets, Thumbnail(target) PROVE ArenaKnowsFrame'
    <3> SUFFICES ASSUME stage' = "builder" PROVE dims' = Frame'
      BY DEF ArenaKnowsFrame
    <3>1. stage = "builder" /\ dims = Frame
      BY <2>5 DEF Thumbnail, ArenaKnowsFrame
    <3>2. CASE Keep /\ dims' = dims
      BY <3>1, <3>2, SameSourceSameFrame
    <3>3. ASSUME NEW answer \in Answers,
                 SetThumbnailShrinkOnLoad(HintFor(dims, target), answer),
                 stage' = (IF answer = "error" THEN "failed" ELSE "builder"),
                 dims' = (IF answer = "yes" THEN Frame' ELSE dims)
          PROVE  dims' = Frame'
      <4>1. CASE answer = "yes"
        BY <3>3, <4>1
      <4>2. CASE answer = "no"
        <5>1. Keep
          BY <3>3, <4>2, RefusalKeepsFrame
        <5> QED BY <3>1, <3>3, <4>2, <5>1, SameSourceSameFrame
      <4>3. answer # "error"
        BY <3>3
      <4> QED BY <4>1, <4>2, <4>3 DEF Answers
    <3> QED BY <2>5, <3>2, <3>3 DEF Thumbnail
  <2>6. CASE UNCHANGED decoderVars
    BY <2>6, SameSourceSameFrame DEF decoderVars, Keep, source, builder, ArenaKnowsFrame
  <2>7. ASSUME NEW f, OpenEager(f) \/ OpenStreaming(f) \/ OpenDeferred(f) PROVE Open
    BY <2>7 DEF OpenEager, OpenStreaming, OpenDeferred
  <2> QED BY <2>1, <2>2, <2>3, <2>4, <2>5, <2>6, <2>7 DEF DecoderNext
<1> QED BY <1>1, <1>2, PTL DEF DecoderSpec

-----------------------------------------------------------------------------
Powers == {1, 2, 4, 8, 16}

\* The part of DecoderTypeOK that hints change.
SourceOK ==
    /\ backing \in {"eager", "deferred", "streaming"}
    /\ probed \in Image
    /\ image \in Image \cup {Empty, Failed}
    /\ backing = "eager" => image \in Image
    /\ retained \in BOOLEAN
    /\ opts \in 1..255
    /\ shrink_factor \in Powers
    /\ backing_shrink_factor \in Powers

LEMMA NormalPower == ASSUME NEW f PROVE Normal(f) \in Powers
BY DEF Normal, Powers

LEMMA BackingPower ==
    ASSUME NEW f, NEW decoded PROVE BackingFactor(Normal(f), decoded) \in Powers
BY NormalPower DEF BackingFactor, Powers

LEMMA ShrunkImage ==
    ASSUME file \in Files, NEW f \in 1..255
    PROVE  DecodedAndShrunk(f).image \in Image /\ DecodedAndShrunk(f).factor \in Powers
<1> DEFINE b == BackingFactor(Normal(f), Decoded(f))
<1>1. Decoded(f) \in Image /\ Normal(f) \in Powers /\ b \in Powers
  BY DecodedImage, NormalPower, BackingPower
<1>2. ASSUME Normal(f) > b PROVE Scaled(Decoded(f), Normal(f) \div b) \in Image
  <2>1. Normal(f) \in Nat /\ b \in Nat \ {0}
    BY <1>1 DEF Powers
  <2>2. Normal(f) \div b \in Nat \ {0}
    <3> HIDE DEF b
    <3> QED BY <1>2, <2>1, Quotient
  <2> QED BY <1>1, <2>2, ScaledImage
<1>3. CASE Normal(f) > b
  BY <1>1, <1>2, <1>3 DEF DecodedAndShrunk, Residual
<1>4. CASE ~(Normal(f) > b)
  <2>1. Normal(f) <= b
    BY <1>1, <1>4 DEF Powers
  <2> QED BY <1>1, <2>1 DEF DecodedAndShrunk, Residual
<1> QED BY <1>3, <1>4

LEMMA HintTypes ==
    ASSUME file \in Files, SourceOK, NEW f \in 1..255, NEW answer,
           SetShrinkOnLoad(f, answer) \/ SetThumbnailShrinkOnLoad(f, answer)
    PROVE  SourceOK'
<1>1. CASE Keep
  BY <1>1 DEF Keep, source, SourceOK
<1>2. ASSUME NEW decoded \in Image, NEW b \in Powers, Materialize(f, decoded, b)
      PROVE  SourceOK'
  BY <1>2, NormalPower DEF Materialize, SourceOK
<1>3. CASE ShrinkStreaming(f, answer)
  <2>1. Normal(f) \in 1..255 /\ Normal(f) \in Powers
    BY NormalPower DEF Powers
  <2>2. Streamed(Normal(f)) \in Image
    BY <2>1, DecodedImage
  <2> QED BY <1>1, <1>3, <2>1, <2>2 DEF ShrinkStreaming, SourceOK
<1>4. CASE ShrinkDeferred(f, answer)
  BY <1>1, <1>2, <1>4, ShrunkImage DEF ShrinkDeferred
<1>5. CASE ShrinkEager(f, answer)
  <2>1. CASE Keep
    BY <2>1, <1>1
  <2>2. CASE /\ opts' = f /\ shrink_factor' = Normal(f)
             /\ UNCHANGED <<backing, probed, image, retained, backing_shrink_factor>>
    BY <2>2, NormalPower DEF SourceOK
  <2> QED BY <1>5, <2>1, <2>2 DEF ShrinkEager
<1>6. CASE ThumbnailUnsupported(f, answer)
  BY <1>1, <1>6 DEF ThumbnailUnsupported
<1>7. CASE ThumbnailInMemory(f, answer)
  <2>1. CASE Keep
    BY <2>1, <1>1
  <2>2. CASE Materialize(f, Scaled(image, Normal(f)), Normal(f))
    <3>1. image \in Image
      BY <1>7 DEF ThumbnailInMemory, SourceOK
    <3>2. Normal(f) \in Nat \ {0} /\ Normal(f) \in Powers
      BY NormalPower DEF Powers
    <3> QED BY <1>2, <2>2, <3>1, <3>2, ScaledImage
  <2> QED BY <1>7, <2>1, <2>2 DEF ThumbnailInMemory
<1>8. CASE ThumbnailStreaming(f, answer)
  BY <1>1, <1>2, <1>8, DecodedImage, BackingPower DEF ThumbnailStreaming
<1>9. CASE ThumbnailDeferred(f, answer)
  BY <1>1, <1>2, <1>9, ShrunkImage DEF ThumbnailDeferred
<1>10. CASE ThumbnailEager(f, answer)
  BY <1>1, <1>2, <1>10, ShrunkImage DEF ThumbnailEager
<1> QED
  BY <1>3, <1>4, <1>5, <1>6, <1>7, <1>8, <1>9, <1>10
  DEF SetShrinkOnLoad, SetThumbnailShrinkOnLoad

LEMMA FrameImage ==
    SourceOK => Frame \in Image
<1> SUFFICES ASSUME SourceOK PROVE Frame \in Image
  OBVIOUS
<1>1. ViewFactor \in Nat \ {0}
  <2>1. shrink_factor \in Nat /\ backing_shrink_factor \in Nat \ {0}
    BY DEF SourceOK, Powers
  <2> QED BY <2>1, Quotient DEF ViewFactor
<1> QED BY <1>1, ScaledImage DEF Frame, SourceOK

\* The source's state has its types, and the builder's dimensions are never
\* zero, for any files, factors and targets.
THEOREM DecoderTypeCorrect == DecoderSpec => []DecoderTypeOK
<1>1. DecoderInit => DecoderTypeOK
  <2> SUFFICES ASSUME DecoderInit PROVE DecoderTypeOK
    OBVIOUS
  <2>1. file \in Files
    BY DEF DecoderInit
  <2>2. Size \in Image
    BY <2>1, DecoderSourceAssumption DEF Size, Image, File
  <2>3. input \in {"bytes", "path"} /\ backing = "eager" /\ stage = "closed"
    BY DEF DecoderInit
  <2>4. probed \in Image /\ image \in Image /\ dims \in Image
    BY <2>2 DEF DecoderInit
  <2>5. retained \in BOOLEAN /\ thumbnail_hints \in BOOLEAN /\ nodes \in BOOLEAN
    BY DEF DecoderInit
  <2>6. opts \in 1..255 /\ shrink_factor \in {1, 2, 4, 8, 16}
        /\ backing_shrink_factor \in {1, 2, 4, 8, 16} /\ wanted \subseteq Targets
    BY DEF DecoderInit
  <2> QED BY <2>1, <2>3, <2>4, <2>5, <2>6, Zenon DEF DecoderTypeOK
<1>2. DecoderTypeOK /\ [DecoderNext]_decoderVars => DecoderTypeOK'
  <2> SUFFICES ASSUME DecoderTypeOK, [DecoderNext]_decoderVars PROVE DecoderTypeOK'
    OBVIOUS
  <2>0. file \in Files /\ SourceOK
    BY DEF DecoderTypeOK, SourceOK, Powers
  <2>1. ASSUME SourceOK', UNCHANGED <<file, input>>, thumbnail_hints' \in BOOLEAN,
               stage' \in {"closed", "source", "builder", "failed"},
               dims' \in Image, nodes' \in BOOLEAN, wanted' \subseteq Targets
        PROVE  DecoderTypeOK'
    BY <2>1 DEF DecoderTypeOK, SourceOK, Powers
  <2>2. ASSUME NEW f \in Factors, OpenEager(f) PROVE DecoderTypeOK'
    <3>1. f \in 1..255
      BY DecoderSourceAssumption
    <3>2. Decoded(f) \in Image /\ Normal(f) \in Powers
          /\ BackingFactor(Normal(f), Decoded(f)) \in Powers /\ Reopens \in BOOLEAN
      BY <2>0, <3>1, DecodedImage, NormalPower, BackingPower DEF Reopens
    <3>3. SourceOK'
      BY <2>0, <2>2, <3>1, <3>2 DEF OpenEager, SourceOK
    <3> QED BY <2>1, <2>2, <3>3 DEF OpenEager, Open, DecoderTypeOK
  <2>3. ASSUME NEW f \in Factors, OpenStreaming(f) PROVE DecoderTypeOK'
    <3>1. f \in 1..255 /\ Normal(f) \in 1..255 /\ Normal(f) \in Powers
      BY DecoderSourceAssumption, NormalPower DEF Powers
    <3>2. Streamed(Normal(f)) \in Image
      BY <2>0, <3>1, DecodedImage
    <3>3. SourceOK'
      BY <2>0, <2>3, <3>1, <3>2 DEF OpenStreaming, SourceOK
    <3> QED BY <2>1, <2>3, <3>3 DEF OpenStreaming, Open, DecoderTypeOK
  <2>4. ASSUME NEW f \in ProbedWith, OpenDeferred(f) PROVE DecoderTypeOK'
    <3>1. f \in 1..255
      BY DecoderSourceAssumption
    <3>2. SourceOK'
      BY <2>0, <2>4, <3>1 DEF OpenDeferred, SourceOK
    <3>3. thumbnail_hints' \in BOOLEAN
      BY <2>4 DEF OpenDeferred
    <3> QED BY <2>1, <2>4, <3>2, <3>3 DEF OpenDeferred, Open, DecoderTypeOK
  <2>5. ASSUME NEW f \in Factors, Hint(f) PROVE DecoderTypeOK'
    <3>1. f \in 1..255
      BY DecoderSourceAssumption
    <3>2. SourceOK'
      BY <2>0, <2>5, <3>1, HintTypes DEF Hint
    <3> QED BY <2>1, <2>5, <3>2 DEF Hint, opened, builder, DecoderTypeOK
  <2>6. CASE ReadRegion
    <3>1. Decoded(opts) \in Image
      BY <2>0, DecodedImage DEF SourceOK
    <3>2. SourceOK'
      BY <2>0, <2>6, <3>1 DEF ReadRegion, SourceOK
    <3> QED BY <2>1, <2>6, <3>2 DEF ReadRegion, opened, builder, DecoderTypeOK
  <2>7. CASE FromSource
    <3>1. SourceOK'
      BY <2>0, <2>7 DEF FromSource, source, SourceOK
    <3> QED BY <2>0, <2>1, <2>7, <3>1, FrameImage DEF FromSource, opened, DecoderTypeOK
  <2>8. ASSUME NEW target \in Targets, Thumbnail(target) PROVE DecoderTypeOK'
    <3>1. HintFor(dims, target) \in 1..255
      BY DEF HintFor
    <3>2. SourceOK'
      <4>1. CASE Keep
        BY <2>0, <4>1 DEF Keep, source, SourceOK
      <4>2. ASSUME NEW answer \in Answers,
                   SetThumbnailShrinkOnLoad(HintFor(dims, target), answer)
            PROVE  SourceOK'
        BY <2>0, <3>1, <4>2, HintTypes
      <4> QED BY <2>8, <4>1, <4>2 DEF Thumbnail
    <3>3. Frame' \in Image
      <4>1. (SourceOK => Frame \in Image)'
        BY FrameImage, PTL
      <4> QED BY <3>2, <4>1
    <3>4. /\ stage' \in {"closed", "source", "builder", "failed"}
          /\ dims' \in Image
      BY <2>8, <3>3 DEF Thumbnail, DecoderTypeOK
    <3>5. nodes' \in BOOLEAN /\ wanted' \subseteq Targets
      BY <2>8 DEF Thumbnail
    <3> QED BY <2>1, <2>8, <3>2, <3>4, <3>5 DEF Thumbnail, opened, DecoderTypeOK
  <2>9. CASE UNCHANGED decoderVars
    BY <2>9 DEF decoderVars, opened, source, builder, DecoderTypeOK
  <2> QED BY <2>2, <2>3, <2>4, <2>5, <2>6, <2>7, <2>8, <2>9 DEF DecoderNext
<1> QED BY <1>1, <1>2, PTL DEF DecoderSpec

-----------------------------------------------------------------------------
\* What a deferred and a streaming backing remember of the probe, and, for
\* upright files, what the decode of a deferred one must then give.
ProbedInv ==
    /\ file \in Files
    /\ stage = "closed" => backing = "eager" /\ probed = Size
    /\ backing = "deferred" => probed = Size /\ opts = 1 /\ image \in {Empty, Failed, Size}
    /\ backing = "streaming" => probed = Streamed(shrink_factor)

LEMMA UprightDecode ==
    ASSUME ~file.rotated
    PROVE  Decoded(1) = Size
<1>1. CodecFactor(1) = 1
  BY DEF CodecFactor
<1>2. Scaled(Size, 1) = Size
  BY DEF Scaled, Shrunk, Size
<1> QED BY <1>1, <1>2 DEF Decoded, Rotated

LEMMA SizeKept ==
    ASSUME UNCHANGED file
    PROVE  Size' = Size /\ \A f : Streamed(f)' = Streamed(f)
BY DEF Size, Streamed, Scaled

\* A hint leaves the source as it was, makes it eager, shrinks the view of an
\* eager one, or probes a streaming one anew.
LEMMA HintSteps ==
    ASSUME NEW f, NEW answer,
           SetShrinkOnLoad(f, answer) \/ SetThumbnailShrinkOnLoad(f, answer)
    PROVE  \/ Keep
           \/ backing' = "eager"
           \/ /\ backing = "streaming" /\ backing' = backing
              /\ probed' = Streamed(Normal(f)) /\ shrink_factor' = Normal(f)
<1>1. CASE ShrinkStreaming(f, answer)
  BY <1>1 DEF ShrinkStreaming
<1>2. CASE ShrinkDeferred(f, answer)
  BY <1>2 DEF ShrinkDeferred, Materialize
<1>3. CASE ShrinkEager(f, answer)
  BY <1>3 DEF ShrinkEager
<1>4. CASE ThumbnailUnsupported(f, answer)
  BY <1>4 DEF ThumbnailUnsupported
<1>5. CASE ThumbnailInMemory(f, answer)
  BY <1>5 DEF ThumbnailInMemory, Materialize
<1>6. CASE ThumbnailStreaming(f, answer)
  BY <1>6 DEF ThumbnailStreaming, Materialize
<1>7. CASE ThumbnailDeferred(f, answer)
  BY <1>7 DEF ThumbnailDeferred, Materialize
<1>8. CASE ThumbnailEager(f, answer)
  BY <1>8 DEF ThumbnailEager, Materialize
<1> QED
  BY <1>1, <1>2, <1>3, <1>4, <1>5, <1>6, <1>7, <1>8
  DEF SetShrinkOnLoad, SetThumbnailShrinkOnLoad

LEMMA HintKeepsProbe ==
    ASSUME NEW f, NEW answer, ProbedInv, UNCHANGED <<file, input>>,
           stage # "closed", stage' # "closed",
           SetShrinkOnLoad(f, answer) \/ SetThumbnailShrinkOnLoad(f, answer)
    PROVE  ProbedInv'
<1>1. CASE Keep
  BY <1>1, SizeKept DEF Keep, source, ProbedInv
<1>2. CASE backing' = "eager"
  BY <1>2 DEF ProbedInv
<1>3. CASE /\ backing = "streaming" /\ backing' = backing
           /\ probed' = Streamed(Normal(f)) /\ shrink_factor' = Normal(f)
  BY <1>3, SizeKept DEF ProbedInv
<1> QED BY <1>1, <1>2, <1>3, HintSteps

\* Every frame a source reports is the frame it serves, if no file is stored
\* rotated and no deferred source is opened with a shrink of its own: without
\* the first, a run shows a source that reports one frame and serves another.
THEOREM UprightFramesServed ==
    ASSUME \A f \in Files : ~f.rotated, ProbedWith = {1}
    PROVE  DecoderSpec => []FrameServed
<1>1. DecoderInit => ProbedInv
  BY DEF DecoderInit, ProbedInv
<1>2. ProbedInv /\ [DecoderNext]_decoderVars => ProbedInv'
  <2> SUFFICES ASSUME ProbedInv, [DecoderNext]_decoderVars PROVE ProbedInv'
    OBVIOUS
  <2>1. ASSUME NEW f \in Factors, OpenEager(f) PROVE ProbedInv'
    BY <2>1 DEF OpenEager, Open, ProbedInv
  <2>2. ASSUME NEW f \in Factors, OpenStreaming(f) PROVE ProbedInv'
    BY <2>2, SizeKept DEF OpenStreaming, Open, ProbedInv
  <2>3. ASSUME NEW f \in ProbedWith, OpenDeferred(f) PROVE ProbedInv'
    BY <2>3, SizeKept DEF OpenDeferred, Open, ProbedInv
  <2>4. ASSUME NEW f \in Factors, Hint(f) PROVE ProbedInv'
    BY <2>4, HintKeepsProbe DEF Hint, opened, builder
  <2>5. CASE ReadRegion
    <3>1. Decoded(1) = Size
      BY UprightDecode DEF ProbedInv
    <3> QED BY <2>5, <3>1, SizeKept DEF ReadRegion, opened, builder, ProbedInv
  <2>6. CASE FromSource
    BY <2>6, SizeKept DEF FromSource, opened, source, ProbedInv
  <2>7. ASSUME NEW target \in Targets, Thumbnail(target) PROVE ProbedInv'
    <3>1. UNCHANGED <<file, input>> /\ stage # "closed" /\ stage' # "closed"
      BY <2>7 DEF Thumbnail, opened
    <3>2. CASE Keep
      BY <3>1, <3>2, SizeKept DEF Keep, source, ProbedInv
    <3>3. CASE \E answer \in Answers :
                  SetThumbnailShrinkOnLoad(HintFor(dims, target), answer)
      BY <3>1, <3>3, HintKeepsProbe
    <3> QED BY <2>7, <3>2, <3>3 DEF Thumbnail
  <2>8. CASE UNCHANGED decoderVars
    BY <2>8, SizeKept DEF decoderVars, opened, source, builder, ProbedInv
  <2> QED BY <2>1, <2>2, <2>3, <2>4, <2>5, <2>6, <2>7, <2>8 DEF DecoderNext
<1>3. ProbedInv => FrameServed
  <2> SUFFICES ASSUME ProbedInv, Resident \/ backing = "streaming" PROVE Frame = ServedFrame
    BY DEF FrameServed
  <2>1. CASE backing = "eager" /\ Resident
    BY <2>1 DEF Frame, ServedFrame
  <2>2. CASE backing = "deferred" /\ Resident
    <3>1. image = Size /\ probed = Size
      BY <2>2, DecoderSourceAssumption DEF ProbedInv, Resident
    <3> QED BY <2>2, <3>1 DEF Frame, ServedFrame
  <2>3. CASE backing = "streaming"
    BY <2>3 DEF Frame, ServedFrame, Resident, ProbedInv
  <2> QED BY <2>1, <2>2, <2>3 DEF Resident
<1> QED BY <1>1, <1>2, <1>3, PTL DEF DecoderSpec

-----------------------------------------------------------------------------
(* Lending rows.                                                           *)

\* Where a source lends the rows of a region, they are the pixels it would
\* have copied, whatever the region.
LEMMA LentRows ==
    ASSUME image \in Image, NEW region \in Region, Borrows(region),
           NEW p \in DOMAIN BorrowedPixels(region)
    PROVE  ReadPixels(region)[p] = BorrowedPixels(region)[p]
<1> DEFINE w == image.width
           h == image.height
           x == p[1]
           y == region.y + p[2]
<1>1. /\ ViewFactor = 1 /\ region.x = 0 /\ region.width = w
      /\ region.y >= 0 /\ region.y + region.height <= h
      /\ image.width = w /\ image.height = h
  BY DEF Borrows
<1>2. w \in Nat /\ h \in Nat /\ region.y \in Int /\ region.height \in Nat
  BY DEF Image, Region
<1>3. /\ p \in (0 .. region.width - 1) \X (0 .. region.height - 1)
      /\ p[1] \in 0 .. w - 1 /\ p[2] \in 0 .. region.height - 1
  BY <1>1 DEF BorrowedPixels
<1>4. ServedFrame.width = w /\ ServedFrame.height = h
  BY <1>1 DEF Borrows, ServedFrame, Scaled, Shrunk
<1>5. x \in 0 .. w - 1 /\ y \in 0 .. h - 1 /\ x \in Int /\ y \in Int
  BY <1>1, <1>2, <1>3
<1>6. Clamp(region.x + p[1], ServedFrame.width) = x /\ Clamp(region.y + p[2], ServedFrame.height) = y
  BY <1>1, <1>2, <1>3, <1>4, <1>5 DEF Clamp
<1> DEFINE Block(n, limit) == (n * ViewFactor)..(Least((n + 1) * ViewFactor, limit) - 1)
<1>7. ASSUME NEW n \in Int, NEW limit \in Nat, n \in 0 .. limit - 1
      PROVE  Block(n, limit) = {n}
  <2>1. n * 1 = n /\ (n + 1) * 1 = n + 1
    OBVIOUS
  <2>2. (n + 1 < limit => Least(n + 1, limit) = n + 1) /\ (~(n + 1 < limit) => limit = n + 1 /\ Least(n + 1, limit) = n + 1)
    BY <1>7 DEF Least
  <2>3. Block(n, limit) = n .. n
    BY <1>1, <2>1, <2>2
  <2> QED
    BY <2>3
<1>8. ReadPixels(region)[p] = {j * w + i : i \in Block(x, w), j \in Block(y, h)}
  BY <1>1, <1>3, <1>6 DEF ReadPixels
<1>9. Block(x, w) = {x} /\ Block(y, h) = {y}
  BY <1>2, <1>5, <1>7
<1> HIDE DEF Block
<1>10. ReadPixels(region)[p] = {y * w + x}
  BY <1>8, <1>9
<1>11. BorrowedPixels(region)[p] = {region.y * w + p[2] * w + p[1]}
  BY <1>1, <1>3 DEF BorrowedPixels
<1>12. y * w = region.y * w + p[2] * w
  BY <1>2, <1>3
<1> QED
  BY <1>10, <1>11, <1>12

\* The scheduler takes whichever of the two the source offers: both are the
\* same bytes in every state of every source.
THEOREM BorrowsAreReads == DecoderSpec => []BorrowMatchesRead
<1>1. DecoderTypeOK => BorrowMatchesRead
  <2> SUFFICES ASSUME DecoderTypeOK, Resident,
                      NEW x \in {-1, 0, 1}, NEW y \in -1 .. image.height,
                      NEW w \in {1, Frame.width, image.width}, NEW h \in 1 .. 2,
                      Borrows([x |-> x, y |-> y, width |-> w, height |-> h]),
                      NEW p \in DOMAIN BorrowedPixels([x |-> x, y |-> y, width |-> w, height |-> h])
               PROVE  ReadPixels([x |-> x, y |-> y, width |-> w, height |-> h])[p]
                          = BorrowedPixels([x |-> x, y |-> y, width |-> w, height |-> h])[p]
    BY DEF BorrowMatchesRead
  <2> DEFINE region == [x |-> x, y |-> y, width |-> w, height |-> h]
  <2>1. image \in Image
    BY DEF Resident
  <2>2. w = image.width /\ image.width \in Nat /\ image.height \in Nat
    BY <2>1 DEF Borrows, Image
  <2>3. region \in Region
    BY <2>2 DEF Region
  <2> QED
    BY <2>1, <2>3, LentRows
<1> QED
  BY <1>1, DecoderTypeCorrect, PTL

-----------------------------------------------------------------------------
(* Thumbnails.                                                             *)

Times(target, c) == [width |-> c * target.width, height |-> c * target.height]

LEMMA ShrunkBounds ==
    ASSUME NEW n \in Nat \ {0}, NEW f \in Nat \ {0}
    PROVE  Shrunk(n, f) \in Nat \ {0} /\ Shrunk(n, f) <= n
<1>1. n \div f \in Nat /\ n \div f <= n
  OBVIOUS
<1> QED
  BY <1>1 DEF Shrunk, AtLeastOne

LEMMA ScaledCovered ==
    ASSUME NEW a \in Image, NEW f \in Nat \ {0}
    PROVE  Covers(a, Scaled(a, f))
BY ShrunkBounds DEF Covers, Scaled, Image

LEMMA CoversTransitive ==
    ASSUME NEW a \in Image, NEW b \in Image, NEW c \in Image, Covers(a, b), Covers(b, c)
    PROVE  Covers(a, c)
BY DEF Covers, Image

\* What is f times as large as the target still covers it when shrunk by f.
LEMMA ScaledEnough ==
    ASSUME NEW a \in Image, NEW target \in Image, NEW f \in {2, 4, 16}, Covers(a, Times(target, f))
    PROVE  Covers(Scaled(a, f), target)
<1>1. ASSUME NEW n \in Nat \ {0}, NEW t \in Nat \ {0}, n >= f * t
      PROVE  Shrunk(n, f) >= t
  <2>1. n \div f >= t /\ n \div f \in Nat
    BY <1>1
  <2> QED
    BY <2>1 DEF Shrunk, AtLeastOne
<1>2. /\ a.width \in Nat \ {0} /\ target.width \in Nat \ {0} /\ a.width >= f * target.width
      /\ a.height \in Nat \ {0} /\ target.height \in Nat \ {0} /\ a.height >= f * target.height
  BY DEF Covers, Times, Image
<1> QED
  BY <1>1, <1>2 DEF Covers, Scaled

\* A file whose decoder shrinks it, if at all, to what Scaled says: it is
\* stored upright, and a PNG that is subsampled can be without a rest.
Regular(f) ==
    /\ ~f.rotated
    /\ f.format = "png" => f.deep \/ (f.width % 16 = 0 /\ f.height % 16 = 0)

LEMMA RegularDecode ==
    ASSUME file \in Files, Regular(file), NEW f \in {2, 4, 16}
    PROVE  Decoded(f) \in {Size, Scaled(Size, f)}
<1>1. Scaled(Size, CodecFactor(f)) \in {Size, Scaled(Size, f)}
  BY DEF Scaled, Shrunk, CodecFactor, Size
<1>2. CASE file.format = "png" /\ input = "path" /\ ~file.deep
  <2>1. ASSUME NEW n \in Nat \ {0}, n % 16 = 0
        PROVE  RoundedUp(n, f) = Shrunk(n, f)
    <3>1. (n + 2 - 1) \div 2 = n \div 2 /\ n \div 2 # 0
      BY <2>1
    <3>2. (n + 4 - 1) \div 4 = n \div 4 /\ n \div 4 # 0
      BY <2>1
    <3>3. (n + 16 - 1) \div 16 = n \div 16 /\ n \div 16 # 0
      BY <2>1
    <3> QED
      BY <3>1, <3>2, <3>3 DEF RoundedUp, Shrunk, AtLeastOne
  <2>2. /\ file.width \in Nat \ {0} /\ file.width % 16 = 0
        /\ file.height \in Nat \ {0} /\ file.height % 16 = 0
    BY <1>2, DecoderSourceAssumption DEF Regular, File
  <2>3. Decoded(f) = [width |-> RoundedUp(file.width, f), height |-> RoundedUp(file.height, f)]
    BY <1>2 DEF Decoded
  <2> QED
    BY <2>1, <2>2, <2>3 DEF Scaled, Size
<1>3. CASE ~(file.format = "png" /\ input = "path" /\ ~file.deep)
  BY <1>1, <1>3 DEF Decoded, Rotated, Regular
<1> QED
  BY <1>2, <1>3

\* A decode and what is left for the source to shrink make the image smaller
\* once: it still covers a target that the file covers f times.
Once(f) ==
    IF BackingFactor(f, Decoded(f)) = f THEN Decoded(f) ELSE Scaled(Decoded(f), f)

LEMMA OnceEnough ==
    ASSUME file \in Files, Regular(file), NEW f \in {2, 4, 16}, NEW target \in Image,
           Covers(Size, Times(target, f))
    PROVE  Covers(Once(f), target)
<1>1. Size \in Image
  BY DecodedImage
<1>2. Covers(Scaled(Size, f), target)
  BY <1>1, ScaledEnough
<1>3. Decoded(f) \in {Size, Scaled(Size, f)}
  BY RegularDecode
<1>4. CASE BackingFactor(f, Decoded(f)) = f
  <2>1. Decoded(f) # Size
    BY <1>1, <1>4 DEF BackingFactor, Size, Image
  <2> QED
    BY <1>2, <1>3, <1>4, <2>1 DEF Once
<1>5. CASE BackingFactor(f, Decoded(f)) # f
  <2>1. CASE Decoded(f) = Size
    BY <1>2, <1>5, <2>1 DEF Once
  <2>2. CASE Decoded(f) = Scaled(Size, f) /\ Decoded(f) # Size
    <3>1. Scaled(Size, f) \in Image /\ Covers(Size, Scaled(Size, f)) /\ Size.width \in Nat /\ Size.height \in Nat
      BY <1>1, ScaledImage, ScaledCovered DEF Image
    <3>2. Covers(Scaled(Size, f), Decoded(f))
      BY <2>2, <3>1 DEF Covers, Image
    <3>3. Decoded(f).width < file.width \/ Decoded(f).height < file.height
      BY <2>2, <3>1 DEF Covers, Size, Image
    <3> QED
      BY <1>5, <3>2, <3>3 DEF BackingFactor
  <2> QED
    BY <1>3, <2>1, <2>2
<1> QED
  BY <1>4, <1>5

\* Both ways of making a hinted frame: shrunk after the decode, or by a view.
LEMMA OnceIsMade ==
    ASSUME NEW f \in {2, 4, 16}
    PROVE  /\ Normal(f) = f
           /\ DecodedAndShrunk(f).image = Once(f)
           /\ BackingFactor(f, Decoded(f)) \in {1, f}
<1>1. Normal(f) = f
  BY DEF Normal
<1>2. BackingFactor(f, Decoded(f)) \in {1, f}
  BY DEF BackingFactor
<1> DEFINE b == BackingFactor(f, Decoded(f))
<1> HIDE DEF b
<1>3. Residual(Decoded(f), f, b).image = IF b = f THEN Decoded(f) ELSE Scaled(Decoded(f), f)
  <2>1. f % 1 = 0 /\ f \div 1 = f
    OBVIOUS
  <2> QED
    BY <1>2, <2>1 DEF Residual, b
<1> QED
  BY <1>1, <1>2, <1>3 DEF DecodedAndShrunk, Once, b

\* No image a source has is larger than the file.
SizeInv ==
    /\ probed \in Image /\ Covers(Size, probed)
    /\ image \in Image => Covers(Size, image)

LEMMA DecodeShrinks ==
    ASSUME file \in Files, ~file.rotated, NEW f \in 1..255
    PROVE  Covers(Size, Decoded(f)) /\ Covers(Size, Streamed(f))
<1>1. Size \in Image /\ CodecFactor(f) \in Nat \ {0}
  BY DecodedImage DEF CodecFactor
<1>2. Covers(Size, Scaled(Size, CodecFactor(f))) /\ Covers(Size, Size)
  BY <1>1, ScaledCovered DEF Covers, Image
<1>3. ASSUME NEW n \in Nat \ {0} PROVE n >= RoundedUp(n, f)
  <2>1. CASE f = 1
    BY <2>1 DEF RoundedUp
  <2>2. CASE f > 1
    <3>1. n + f - 1 <= n * f
      OBVIOUS
    <3>2. (n + f - 1) \div f <= n
      BY <3>1
    <3> QED
      BY <3>2 DEF RoundedUp
  <2> QED
    BY <2>1, <2>2
<1>4. Covers(Size, [width |-> RoundedUp(file.width, f), height |-> RoundedUp(file.height, f)])
  BY <1>1, <1>3 DEF Covers, Size, Image
<1> QED
  BY <1>2, <1>4 DEF Decoded, Streamed, Rotated

LEMMA ShrunkShrinks ==
    ASSUME file \in Files, ~file.rotated, NEW f \in 1..255
    PROVE  Covers(Size, DecodedAndShrunk(f).image)
<1> DEFINE b == BackingFactor(Normal(f), Decoded(f))
<1>1. Size \in Image /\ Decoded(f) \in Image /\ Covers(Size, Decoded(f))
  BY DecodedImage, DecodeShrinks
<1>2. Normal(f) \in Powers /\ b \in Powers
  BY NormalPower, BackingPower
<1> HIDE DEF b
<1>3. CASE Normal(f) \div b \in Nat \ {0}
  <2>1. Scaled(Decoded(f), Normal(f) \div b) \in Image /\ Covers(Decoded(f), Scaled(Decoded(f), Normal(f) \div b))
    BY <1>1, <1>3, ScaledImage, ScaledCovered
  <2>2. Covers(Size, Scaled(Decoded(f), Normal(f) \div b))
    BY <1>1, <2>1, CoversTransitive
  <2> QED
    BY <1>1, <2>2 DEF DecodedAndShrunk, Residual, b
<1>4. CASE ~(Normal(f) \div b \in Nat \ {0})
  <2>1. Normal(f) \div b \in Nat
    BY <1>2, Quotient DEF Powers
  <2> QED
    BY <1>1, <1>4, <2>1 DEF DecodedAndShrunk, Residual, b
<1> QED
  BY <1>3, <1>4

\* A hint replaces an image by a smaller one.
LEMMA HintKeepsSize ==
    ASSUME file \in Files, ~file.rotated, SourceOK, SizeInv, NEW f \in 1..255, NEW answer,
           SetShrinkOnLoad(f, answer) \/ SetThumbnailShrinkOnLoad(f, answer), UNCHANGED file
    PROVE  SizeInv'
<1>1. Size' = Size /\ Size \in Image /\ Normal(f) \in 1..255
  BY SizeKept, DecodedImage, NormalPower DEF Powers
<1>2. CASE Keep
  BY <1>1, <1>2 DEF Keep, source, SizeInv
<1>3. ASSUME NEW m, NEW b, Covers(Size, m), Materialize(f, m, b)
      PROVE  SizeInv'
  BY <1>1, <1>3 DEF Materialize, SizeInv
<1>4. /\ Covers(Size, Decoded(f)) /\ Covers(Size, DecodedAndShrunk(f).image)
      /\ Covers(Size, Streamed(Normal(f))) /\ Streamed(Normal(f)) \in Image
  BY <1>1, DecodeShrinks, ShrunkShrinks, DecodedImage
<1>5. CASE ShrinkStreaming(f, answer)
  <2>1. CASE probed' = Streamed(Normal(f)) /\ UNCHANGED image
    BY <1>1, <1>4, <2>1 DEF SizeInv
  <2> QED
    BY <1>2, <1>5, <2>1 DEF ShrinkStreaming
<1>6. CASE ShrinkDeferred(f, answer)
  BY <1>2, <1>3, <1>4, <1>6 DEF ShrinkDeferred
<1>7. CASE ShrinkEager(f, answer)
  <2>1. CASE UNCHANGED <<probed, image>>
    BY <1>1, <2>1 DEF SizeInv
  <2> QED
    BY <1>2, <1>7, <2>1 DEF ShrinkEager
<1>8. CASE ThumbnailUnsupported(f, answer)
  BY <1>2, <1>8 DEF ThumbnailUnsupported
<1>9. CASE ThumbnailInMemory(f, answer)
  <2>1. image \in Image
    BY <1>9 DEF ThumbnailInMemory, SourceOK
  <2>2. Normal(f) \in Nat \ {0}
    BY <1>1
  <2>3. Scaled(image, Normal(f)) \in Image /\ Covers(image, Scaled(image, Normal(f)))
    BY <2>1, <2>2, ScaledImage, ScaledCovered
  <2>4. Covers(Size, Scaled(image, Normal(f)))
    BY <1>1, <2>1, <2>3, CoversTransitive DEF SizeInv
  <2> QED
    BY <1>2, <1>3, <1>9, <2>4 DEF ThumbnailInMemory
<1>10. CASE ThumbnailStreaming(f, answer)
  BY <1>2, <1>3, <1>4, <1>10 DEF ThumbnailStreaming
<1>11. CASE ThumbnailDeferred(f, answer)
  BY <1>2, <1>3, <1>4, <1>11 DEF ThumbnailDeferred
<1>12. CASE ThumbnailEager(f, answer)
  BY <1>2, <1>3, <1>4, <1>12 DEF ThumbnailEager
<1> QED
  BY <1>5, <1>6, <1>7, <1>8, <1>9, <1>10, <1>11, <1>12
  DEF SetShrinkOnLoad, SetThumbnailShrinkOnLoad

LEMMA FrameCovered ==
    ASSUME file \in Files, SourceOK, SizeInv
    PROVE  /\ Frame \in Image /\ Covers(Size, Frame)
           /\ backing = "eager" => Covers(image, Frame)
<1>1. ViewFactor \in Nat \ {0}
  <2>1. shrink_factor \in Nat /\ backing_shrink_factor \in Nat \ {0}
    BY DEF SourceOK, Powers
  <2> QED
    BY <2>1, Quotient DEF ViewFactor
<1>2. Size \in Image /\ Frame \in Image
  BY DecodedImage, FrameImage
<1>3. ASSUME NEW a \in Image, Covers(Size, a)
      PROVE  Covers(a, Scaled(a, ViewFactor)) /\ Covers(Size, Scaled(a, ViewFactor))
  BY <1>1, <1>2, <1>3, ScaledImage, ScaledCovered, CoversTransitive
<1>4. backing = "eager" => image \in Image
  BY DEF SourceOK
<1> QED
  BY <1>2, <1>3, <1>4 DEF Frame, SizeInv

\* What a hint of the builder promises: the frame is f times the thumbnail.
LEMMA HintMeans ==
    ASSUME NEW size \in Image, NEW target \in Image, HintFor(size, target) > 1
    PROVE  /\ HintFor(size, target) \in {2, 4, 16}
           /\ Covers(size, Times(target, HintFor(size, target)))
BY DEF HintFor, Covers, Times, Image

\* A frame the source says it shrank is one decode and one shrink away from
\* what it was, however it came by it.
LEMMA AcceptedHint ==
    ASSUME file \in Files, Regular(file), SourceOK, SizeInv,
           NEW f \in {2, 4, 16}, NEW target \in Image, Covers(Frame, Times(target, f)),
           SetThumbnailShrinkOnLoad(f, "yes"), UNCHANGED <<file, input>>
    PROVE  Covers(Frame', target)
<1>1. /\ Frame \in Image /\ Covers(Size, Frame) /\ Size \in Image
      /\ backing = "eager" => image \in Image /\ Covers(image, Frame)
  BY FrameCovered, DecodedImage DEF SourceOK
<1>2. /\ Normal(f) = f
      /\ DecodedAndShrunk(f).image = Once(f)
      /\ BackingFactor(f, Decoded(f)) \in {1, f}
  BY OnceIsMade
<1>3. ASSUME NEW a \in Image, Covers(a, Frame) PROVE Covers(a, Times(target, f))
  BY <1>1, <1>3 DEF Covers, Times, Image
<1>4. Covers(Once(f), target)
  BY <1>1, <1>3, OnceEnough
<1>5. CASE Keep
  <2>1. Frame' = Frame
    BY <1>5 DEF Keep, source, Frame, Scaled, ViewFactor
  <2>2. Covers(Frame, target)
    BY <1>1 DEF Covers, Times, Image
  <2> QED
    BY <2>1, <2>2
<1>6. ASSUME NEW m, NEW b \in {1, f}, Materialize(f, m, b)
      PROVE  Frame' = Scaled(m, IF b = f THEN 1 ELSE f)
  <2>1. backing' = "eager" /\ image' = m /\ shrink_factor' = f /\ backing_shrink_factor' = b
    BY <1>2, <1>6 DEF Materialize
  <2>2. ViewFactor' = IF b = f THEN 1 ELSE f
    BY <2>1 DEF ViewFactor
  <2> QED
    BY <2>1, <2>2 DEF Frame, Scaled
<1>7. ASSUME NEW m PROVE Scaled(m, 1) = [width |-> m.width, height |-> m.height]
  BY DEF Scaled, Shrunk
<1>8. ASSUME NEW m, Covers(m, target), Materialize(f, m, f)
      PROVE  Covers(Frame', target)
  BY <1>6, <1>7, <1>8 DEF Covers
<1>9. CASE ThumbnailInMemory(f, "yes")
  <2>1. Covers(Scaled(image, f), target)
    BY <1>1, <1>3, <1>9, ScaledEnough DEF ThumbnailInMemory
  <2> QED
    BY <1>2, <1>5, <1>8, <1>9, <2>1 DEF ThumbnailInMemory
<1>10. CASE ThumbnailStreaming(f, "yes")
  <2>1. CASE Materialize(f, Decoded(f), BackingFactor(f, Decoded(f)))
    <3>1. CASE BackingFactor(f, Decoded(f)) = f
      BY <1>4, <1>8, <2>1, <3>1 DEF Once
    <3>2. CASE BackingFactor(f, Decoded(f)) # f
      BY <1>2, <1>4, <1>6, <2>1, <3>2 DEF Once
    <3> QED
      BY <3>1, <3>2
  <2> QED
    BY <1>2, <1>5, <1>10, <2>1 DEF ThumbnailStreaming
<1>11. DecodedAndShrunk(f).factor = f
  BY <1>2, NothingLeftToShrink
<1>12. CASE ThumbnailDeferred(f, "yes")
  BY <1>2, <1>4, <1>5, <1>8, <1>11, <1>12 DEF ThumbnailDeferred
<1>13. CASE ThumbnailEager(f, "yes")
  BY <1>2, <1>4, <1>5, <1>8, <1>11, <1>13 DEF ThumbnailEager
<1>14. CASE ThumbnailUnsupported(f, "yes")
  BY <1>14 DEF ThumbnailUnsupported
<1> QED
  BY <1>9, <1>10, <1>12, <1>13, <1>14 DEF SetThumbnailShrinkOnLoad

\* A thumbnail is never larger than the frame that is left for it, if every
\* file is Regular: an image that is rotated after the decode, or subsampled
\* with a rest, is taken for one the decoder did not shrink, and shrunk again.
THEOREM ThumbnailsNotEnlarged ==
    ASSUME \A f \in Files : Regular(f)
    PROVE  DecoderSpec => []ThumbnailNeverEnlarges
<1> DEFINE Asked == stage \in {"closed", "source"} => wanted = {}
           Inv == SizeInv /\ Asked /\ ThumbnailNeverEnlarges
<1>1. DecoderInit => Inv
  <2> SUFFICES ASSUME DecoderInit PROVE Inv
    OBVIOUS
  <2>1. Size \in Image
    BY DecodedImage DEF DecoderInit
  <2>2. SizeInv
    BY <2>1 DEF DecoderInit, SizeInv, Covers, Image
  <2> QED
    BY <2>2 DEF DecoderInit, ThumbnailNeverEnlarges
<1>2. DecoderTypeOK /\ ArenaKnowsFrame /\ Inv /\ [DecoderNext]_decoderVars => Inv'
  <2> SUFFICES ASSUME DecoderTypeOK, ArenaKnowsFrame, Inv, [DecoderNext]_decoderVars PROVE Inv'
    OBVIOUS
  <2>1. file \in Files /\ SourceOK /\ Regular(file) /\ ~file.rotated /\ Size \in Image
    BY DecodedImage DEF DecoderTypeOK, SourceOK, Powers, Regular
  <2>2. ASSUME SizeInv', UNCHANGED wanted, stage' # "closed",
               stage' = "source" => stage \in {"closed", "source"},
               stage' = "builder" => wanted = {} \/ (stage = "builder" /\ dims' = dims)
        PROVE  Inv'
    <3>1. Asked'
      BY <2>2
    <3>2. ThumbnailNeverEnlarges'
      BY <2>2 DEF ThumbnailNeverEnlarges
    <3> QED
      BY <2>2, <3>1, <3>2
  <2>3. Size' = Size \/ file' # file
    BY SizeKept
  <2>4. ASSUME NEW f \in Factors, OpenEager(f) PROVE Inv'
    <3>1. f \in 1..255
      BY DecoderSourceAssumption
    <3>2. SizeInv'
      BY <2>1, <2>3, <2>4, <3>1, DecodeShrinks DEF OpenEager, Open, SizeInv
    <3> QED
      BY <2>2, <2>4, <3>2 DEF OpenEager, Open
  <2>5. ASSUME NEW f \in Factors, OpenStreaming(f) PROVE Inv'
    <3>1. f \in 1..255 /\ Normal(f) \in 1..255
      BY DecoderSourceAssumption, NormalPower DEF Powers
    <3>2. Streamed(Normal(f)) \in Image /\ Covers(Size, Streamed(Normal(f)))
      BY <2>1, <3>1, DecodedImage, DecodeShrinks
    <3>3. SizeInv'
      BY <2>3, <2>5, <3>2, DecoderSourceAssumption DEF OpenStreaming, Open, SizeInv
    <3> QED
      BY <2>2, <2>5, <3>3 DEF OpenStreaming, Open
  <2>6. ASSUME NEW f \in ProbedWith, OpenDeferred(f) PROVE Inv'
    <3>1. SizeInv'
      BY <2>3, <2>6, DecoderSourceAssumption DEF OpenDeferred, Open, SizeInv
    <3> QED
      BY <2>2, <2>6, <3>1 DEF OpenDeferred, Open
  <2>7. ASSUME NEW f \in Factors, Hint(f) PROVE Inv'
    <3>1. f \in 1..255
      BY DecoderSourceAssumption
    <3>2. SizeInv'
      BY <2>1, <2>7, <3>1, HintKeepsSize DEF Hint, opened
    <3> QED
      BY <2>2, <2>7, <3>2 DEF Hint, builder
  <2>8. CASE ReadRegion
    <3>1. Covers(Size, Decoded(opts))
      BY <2>1, DecodeShrinks DEF SourceOK
    <3>2. SizeInv'
      BY <2>3, <2>8, <3>1, DecoderSourceAssumption DEF ReadRegion, opened, SizeInv
    <3> QED
      BY <2>2, <2>8, <3>2 DEF ReadRegion, builder
  <2>9. CASE FromSource
    <3>1. SizeInv'
      BY <2>3, <2>9 DEF FromSource, opened, source, SizeInv
    <3> QED
      BY <2>2, <2>9, <3>1 DEF FromSource
  <2>10. ASSUME NEW target \in Targets, Thumbnail(target) PROVE Inv'
    <3>1. target \in Image /\ dims = Frame /\ dims \in Image
      BY <2>10, DecoderSourceAssumption DEF Thumbnail, ArenaKnowsFrame, DecoderTypeOK
    <3>2. CASE Keep /\ UNCHANGED <<stage, dims>>
      <4>1. SizeInv'
        BY <2>3, <2>10, <3>2 DEF Thumbnail, Keep, opened, source, SizeInv
      <4>2. ThumbnailNeverEnlarges'
        BY <2>10, <3>2 DEF Thumbnail, ThumbnailNeverEnlarges
      <4> QED
        BY <2>10, <3>2, <4>1, <4>2 DEF Thumbnail
    <3>3. ASSUME HintFor(dims, target) > 1, NEW answer \in Answers,
                 SetThumbnailShrinkOnLoad(HintFor(dims, target), answer),
                 stage' = IF answer = "error" THEN "failed" ELSE "builder",
                 dims' = IF answer = "yes" THEN Frame' ELSE dims
          PROVE  Inv'
      <4>1. HintFor(dims, target) \in {2, 4, 16} /\ Covers(dims, Times(target, HintFor(dims, target)))
        BY <3>1, <3>3, HintMeans
      <4>2. SizeInv'
        BY <2>1, <2>10, <3>3, <4>1, HintKeepsSize DEF Thumbnail, opened
      <4>3. Covers(dims, target) => Covers(dims', target)
        <5>1. answer = "yes" => Covers(Frame', target)
          BY <2>1, <2>10, <3>1, <3>3, <4>1, AcceptedHint DEF Thumbnail, opened
        <5> QED
          BY <3>3, <5>1
      <4>4. ThumbnailNeverEnlarges'
        BY <2>10, <4>3 DEF Thumbnail, ThumbnailNeverEnlarges
      <4> QED
        BY <3>3, <4>2, <4>4
    <3> QED
      BY <2>10, <3>2, <3>3 DEF Thumbnail
  <2>11. CASE UNCHANGED decoderVars
    BY <2>3, <2>11 DEF decoderVars, opened, source, builder, SizeInv, ThumbnailNeverEnlarges
  <2> QED
    BY <2>4, <2>5, <2>6, <2>7, <2>8, <2>9, <2>10, <2>11 DEF DecoderNext
<1>3. Inv => ThumbnailNeverEnlarges
  OBVIOUS
<1> HIDE DEF Inv
<1> QED
  BY <1>1, <1>2, <1>3, DecoderTypeCorrect, ArenaFollowsSource, PTL DEF DecoderSpec

=============================================================================
