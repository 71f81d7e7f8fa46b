---------------------------- MODULE RasterWriter ----------------------------
(***************************************************************************)
(* What an ordered sink promises, whatever buffering lies between the      *)
(* workers and the encoder: the encoder gets regions of the image in       *)
(* raster order, without gap or overlap in that order; it is closed once,  *)
(* and finish answers Ok only for an encoder that was closed without an    *)
(* error.  (The contract of FileSinkWriter and of ConcurrentSink::finish.) *)
(***************************************************************************)
EXTENDS RasterOrder

CONSTANTS
    Regions,       \* regions the encoder may be given
    Width, Height  \* dimensions of the image

VARIABLES
    delivered,  \* regions the encoder consumed, in order
    encoder,    \* "open", "committed" or "failed"
    outcome     \* what finish told its caller: "none", "ok" or "err"

writerVars == <<delivered, encoder, outcome>>

Init ==
    /\ delivered = <<>>
    /\ encoder = "open"
    /\ outcome = "none"

Deliver(r) ==
    /\ encoder = "open"
    /\ InBounds(r, Width, Height)
    /\ Origin(r) = AfterAll(delivered, Width)
    /\ delivered' = Append(delivered, r)
    /\ UNCHANGED <<encoder, outcome>>

Close(how) ==
    /\ encoder = "open"
    /\ encoder' = how
    /\ UNCHANGED <<delivered, outcome>>

\* finish may refuse an image that is not complete, without closing anything.
Refuse ==
    /\ outcome = "none"
    /\ encoder = "open"
    /\ AfterAll(delivered, Width).y < Height
    /\ outcome' = "err"
    /\ UNCHANGED <<delivered, encoder>>

Report ==
    /\ outcome = "none"
    /\ encoder # "open"
    /\ outcome' = IF encoder = "committed" THEN "ok" ELSE "err"
    /\ UNCHANGED <<delivered, encoder>>

Next ==
    \/ \E r \in Regions : Deliver(r)
    \/ \E how \in {"committed", "failed"} : Close(how)
    \/ Refuse
    \/ Report

Spec == Init /\ [][Next]_writerVars

=============================================================================
