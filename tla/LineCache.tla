------------------------------ MODULE LineCache ------------------------------
(***************************************************************************)
(* The bounded window of source rows that a worker keeps for sequential    *)
(* and linecache pipelines (viprs-runtime, scheduler/rayon_scheduler/      *)
(* line_cache.rs; made in pipeline/compiled.rs).                           *)
(*                                                                         *)
(* Rows are whole and stand for themselves: the window is the sequence of  *)
(* the numbers of the rows it holds.  Columns only matter to               *)
(* is_supported_rect, which refuses a region for its columns as it does    *)
(* for its rows; such a region is a request that is out of bounds.         *)
(*                                                                         *)
(* read_region is a loop: one step per row dropped and per chunk read.     *)
(***************************************************************************)
EXTENDS Integers, Sequences

CONSTANTS
    ImageHeight,  \* rows of the source
    Windows,      \* caches considered: [lines, refill, access]
    Requests,     \* what a worker may ask for: [y, height]
    NoRequest     \* absence of a request

Accesses == {"Sequential", "Random"}

ASSUME LineCacheAssumption ==
    /\ ImageHeight \in Nat
    /\ Windows \subseteq [lines : Nat \ {0}, refill : Nat \ {0}, access : Accesses]
    /\ Requests \subseteq [y : Int, height : Nat]
    /\ NoRequest \notin Requests

VARIABLES
    window,       \* lines_ahead, refill_lines and access of this cache
    startY,       \* first row of the window
    rows,         \* the rows in it: line_count of them
    nextSourceY,  \* the row the cache asks the source for next
    request,      \* the region that is, or was last, asked for
    status,       \* "reading", or what the last read answered
    output,       \* the rows the worker got
    reached       \* history: the furthest row a supported request began at

lineVars == <<window, startY, rows, nextSourceY, request, status, output, reached>>

LineAnswers == {"none", "served", "direct", "behind", "err"}

BetweenReads == status \in LineAnswers
CachedEnd == startY + Len(rows)
Bottom(r) == r.y + r.height

Rows(from, count) == [i \in 1 .. count |-> from + i - 1]

Fewer(a, b) == IF a <= b THEN a ELSE b

\* What the source gives for a region: past its edges it repeats the edge rows.
SourceRows(r) ==
    [i \in 1 .. r.height |-> IF r.y + i - 1 < 0 THEN 0 ELSE Fewer(r.y + i - 1, ImageHeight - 1)]

\* LineCacheRequest::resolve and the lines_ahead.max(1) of new: 0 asks for
\* twice the tile height.  The tile height is also the size of a refill.
Resolve(lines, tileHeight, access) ==
    [ lines |-> IF lines = 0 THEN (IF tileHeight = 0 THEN 1 ELSE 2 * tileHeight) ELSE lines,
      refill |-> IF tileHeight = 0 THEN 1 ELSE tileHeight,
      access |-> access ]

LineInit ==
    /\ window \in Windows
    /\ startY = 0 /\ rows = <<>> /\ nextSourceY = 0
    /\ request = NoRequest /\ status = "none" /\ output = <<>>
    /\ reached = 0

-----------------------------------------------------------------------------
(* A read starts.                                                          *)

\* is_supported_rect
Supported(r) ==
    /\ r.height > 0 /\ r.y >= 0
    /\ r.height <= window.lines
    /\ Bottom(r) <= ImageHeight

\* The caller reads the source itself, past the cache: nextSourceY stays, although
\* the source has been elsewhere when the cache asks it again.
ReadUnsupported(r) ==
    /\ BetweenReads
    /\ ~Supported(r)
    /\ request' = r
    /\ \/ status' = "direct" /\ output' = SourceRows(r)
       \/ status' = "err" /\ output' = <<>>
    /\ UNCHANGED <<window, startY, rows, nextSourceY, reached>>

Furthest(y) == reached' = IF y > reached THEN y ELSE reached

\* A request behind the window, of a cache whose source cannot go back.
ReadBehind(r) ==
    /\ BetweenReads
    /\ Supported(r)
    /\ window.access = "Sequential" /\ r.y < startY
    /\ request' = r /\ status' = "behind" /\ output' = <<>>
    /\ UNCHANGED <<window, startY, rows, nextSourceY, reached>>

\* Random access behind the window starts a new window there.
ReadAndReset(r) ==
    /\ BetweenReads
    /\ Supported(r)
    /\ window.access = "Random" /\ r.y < startY
    /\ startY' = r.y /\ rows' = <<>> /\ nextSourceY' = r.y
    /\ request' = r /\ status' = "reading" /\ output' = <<>> /\ Furthest(r.y)
    /\ UNCHANGED window

Read(r) ==
    /\ BetweenReads
    /\ Supported(r)
    /\ r.y >= startY
    /\ request' = r /\ status' = "reading" /\ output' = <<>> /\ Furthest(r.y)
    /\ UNCHANGED <<window, startY, rows, nextSourceY>>

-----------------------------------------------------------------------------
(* The loop.  The rows in the window always end at nextSourceY, so its      *)
(* early exit at the end of the image (remaining == 0) is never taken for  *)
(* a supported region.                                                     *)

ChunkHeight == Fewer(Fewer(Bottom(request) - CachedEnd, window.refill), ImageHeight - nextSourceY)

Filling == status = "reading" /\ CachedEnd < Bottom(request)

\* A chunk that does not fit makes the window let go of rows, down to the
\* first one requested.  An empty window has none to let go of.
MustDrop == Len(rows) + ChunkHeight > window.lines /\ startY < request.y

\* Fault: as many rows go as a refill brings.
DropRefill ==
    /\ Filling
    /\ MustDrop
    /\ rows # <<>>
    /\ LET dropped == Fewer(window.refill, Len(rows))
       IN rows' = SubSeq(rows, dropped + 1, Len(rows)) /\ startY' = startY + dropped
    /\ UNCHANGED <<window, nextSourceY, request, status, output, reached>>

\* Fault: the rows go, the window stays where it was.
DropLineInPlace ==
    /\ Filling
    /\ MustDrop
    /\ rows # <<>>
    /\ rows' = Tail(rows)
    /\ UNCHANGED <<window, startY, nextSourceY, request, status, output, reached>>

DropLine ==
    /\ Filling
    /\ MustDrop
    /\ rows # <<>>
    /\ rows' = Tail(rows) /\ startY' = startY + 1
    /\ UNCHANGED <<window, nextSourceY, request, status, output, reached>>

AppendLines ==
    /\ Filling
    /\ ~MustDrop
    /\ rows' = rows \o Rows(nextSourceY, ChunkHeight)
    /\ nextSourceY' = nextSourceY + ChunkHeight
    /\ UNCHANGED <<window, startY, request, status, output, reached>>

SourceFails ==
    /\ Filling
    /\ ~MustDrop
    /\ status' = "err"
    /\ UNCHANGED <<window, startY, rows, nextSourceY, request, output, reached>>

\* Fault: the copy starts at the first row of the window.
ServeFromTop ==
    /\ status = "reading" /\ CachedEnd >= Bottom(request)
    /\ output' = SubSeq(rows, 1, request.height)
    /\ status' = "served"
    /\ UNCHANGED <<window, startY, rows, nextSourceY, request, reached>>

\* copy_cached_region
Serve ==
    /\ status = "reading" /\ CachedEnd >= Bottom(request)
    /\ output' = SubSeq(rows, request.y - startY + 1, Bottom(request) - startY)
    /\ status' = "served"
    /\ UNCHANGED <<window, startY, rows, nextSourceY, request, reached>>

-----------------------------------------------------------------------------

Ask == \E r \in Requests : ReadUnsupported(r) \/ ReadBehind(r) \/ ReadAndReset(r) \/ Read(r)

Loop == DropLine \/ AppendLines \/ Serve

LineNext == Ask \/ Loop \/ SourceFails

LineSpec == LineInit /\ [][LineNext]_lineVars

\* A read that has started goes on as long as it can.  Nobody has to start one,
\* and no source has to fail.
LineFairSpec == LineSpec /\ WF_lineVars(Loop)

-----------------------------------------------------------------------------
(* Properties.                                                             *)

LineTypeOK ==
    /\ window \in Windows
    /\ startY \in 0 .. ImageHeight
    /\ rows \in Seq(0 .. ImageHeight - 1)
    /\ nextSourceY \in 0 .. ImageHeight
    /\ request \in Requests \cup {NoRequest}
    /\ status \in LineAnswers \cup {"reading"}
    /\ status = "reading" => request \in Requests /\ Supported(request) /\ startY <= request.y
    /\ output \in Seq(Int)
    /\ reached \in Nat

\* Whatever was dropped, reset or failed, the window holds consecutive rows,
\* ends where it goes on to read, and never outgrows the buffer that was
\* allocated for it ("line cache must stay within the configured line
\* budget", tests.rs): append_lines would write past its end.
WindowSound ==
    /\ rows = Rows(startY, Len(rows))
    /\ nextSourceY = CachedEnd
    /\ Len(rows) <= window.lines

\* Whatever was asked before, a read that is answered from the window or past it
\* gives the rows the source has at that place.
ServedRowsRight == status \in {"served", "direct"} => output = SourceRows(request)

\* A pipeline that goes down the image is never refused ("request moved behind
\* retained window"): the loop that makes room does not let go of the row the
\* furthest request began at, however the chunks fall, fail and are asked again.
ForwardNeverRefused ==
    /\ startY <= reached
    /\ status = "behind" => request.y < reached

\* A read comes back: the loop of read_region ends.
ReadReturns == status = "reading" ~> status # "reading"

=============================================================================
