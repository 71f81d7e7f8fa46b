--------------------------- MODULE DecoderSource ---------------------------
(***************************************************************************)
(* DecoderSource (viprs-runtime, sources/decoder_source/): an encoded file *)
(* as an image source, and the pipeline builder that asks it to decode a   *)
(* smaller image for a thumbnail.                                          *)
(*                                                                         *)
(* The source is eager (the decoded image is resident), deferred (probed;  *)
(* the first tile decodes it, once) or streaming (a tile decodes itself).  *)
(* Hints move it from one to the other.  Two factors tell what has been    *)
(* shrunk already: shrink_factor is what was asked for, and                *)
(* backing_shrink_factor what the resident image has had; what is missing  *)
(* is made up for when tiles are read, so a wrong guess of the second one  *)
(* shrinks an image twice.  The guess is made from dimensions.             *)
(*                                                                         *)
(* Of an image the model keeps its dimensions.  A pixel of what is read is *)
(* the set of the pixels of the resident image it averages.                *)
(***************************************************************************)
EXTENDS Integers

CONSTANTS
    Files,      \* what may be opened: records of File
    Factors,    \* the factors of LoadOptions and of the hints; 1 is none
    Targets,    \* the sizes of the thumbnails asked of the builder
    ProbedWith, \* the factors in the options a deferred source is opened with
    Empty,      \* the OnceLock of a deferred source before its first tile
    Failed      \* its content once the decode failed

Image == [width : Nat \ {0}, height : Nat \ {0}]
\* rotated: the EXIF orientation swaps width and height; deep: 16 bits a sample.
File == [format : {"jpeg", "png", "webp", "ppm"}, width : Nat \ {0}, height : Nat \ {0},
         rotated : BOOLEAN, deep : BOOLEAN]

ASSUME DecoderSourceAssumption ==
    /\ Files \subseteq File
    /\ Factors \subseteq 1..255
    /\ ProbedWith \subseteq Factors
    /\ Targets \subseteq Image
    /\ Empty \notin Image /\ Failed \notin Image /\ Empty # Failed

VARIABLES
    file, input,     \* what was opened, as "bytes" or as a "path"
    backing,         \* DecoderBacking: "eager", "deferred", "streaming"
    probed,          \* the dimensions a deferred or streaming backing carries
    image,           \* the resident image, or the content of the OnceLock
    retained,        \* stable_input is Some
    thumbnail_hints, \* materialize_deferred_thumbnail_hints
    opts,            \* opts.shrink_factor
    shrink_factor,
    backing_shrink_factor,
    stage,           \* "closed", "source", "builder" (which owns it), "failed"
    dims,            \* the arena's width and height
    nodes,           \* the builder has appended a node
    wanted           \* history: the targets that were no larger than dims

opened == <<file, input, thumbnail_hints>>
source == <<backing, probed, image, retained, opts, shrink_factor, backing_shrink_factor>>
builder == <<stage, dims, nodes, wanted>>
decoderVars == <<opened, source, builder>>

-----------------------------------------------------------------------------
(* Dimensions.                                                              *)

AtLeastOne(n) == IF n = 0 THEN 1 ELSE n
Shrunk(n, f) == IF f <= 1 THEN n ELSE AtLeastOne(n \div f)
Scaled(size, f) == [width |-> Shrunk(size.width, f), height |-> Shrunk(size.height, f)]
RoundedUp(n, f) == (n + f - 1) \div f
Covers(a, b) == a.width >= b.width /\ a.height >= b.height

\* normalize_shrink_factor of the runtime, and the one of the codecs.
Normal(f) == IF f \in {2, 4, 8, 16} THEN f ELSE 1
CodecFactor(f) == IF f \in {2, 4, 8} THEN f ELSE 1

-----------------------------------------------------------------------------
(* The codecs.                                                              *)

Size == [width |-> file.width, height |-> file.height]
Rotated(size) ==
    IF file.rotated THEN [width |-> size.height, height |-> size.width] ELSE size

\* decode_with_options, decode_path_with_options with shrink_factor f.
Decoded(f) ==
    CASE file.format = "jpeg" -> Rotated(Scaled(Size, CodecFactor(f)))
      [] file.format = "webp" -> Scaled(Size, CodecFactor(f))
      [] file.format = "png" /\ input = "path" /\ ~file.deep /\ f > 1 ->
            [width |-> RoundedUp(file.width, f), height |-> RoundedUp(file.height, f)]
      [] OTHER -> Size

\* probe_with_options of a streaming decoder, and the frame its tiles are cut from.
Streamed(f) == IF file.format = "webp" THEN Scaled(Size, CodecFactor(f)) ELSE Size

Streams == file.format \in {"png", "webp"}
Reopens == file.format \in {"jpeg", "webp"}
ShrinksThumbnails == file.format # "ppm"

\* Fault: the decoder is taken to have shrunk nothing.
NeverByDecoder(f, decoded) == 1

\* eager_backing_shrink_factor: did the decoder shrink?  Judged by the dimensions.
BackingFactor(f, decoded) ==
    IF /\ f > 1
       /\ decoded.width < file.width \/ decoded.height < file.height
       /\ Covers(Scaled(Size, f), decoded)
    THEN f ELSE 1

\* Fault: what the decoder left undone is not made up for.
NoResidual(decoded, f, b) == [image |-> decoded, factor |-> b]

\* materialize_residual_thumbnail_shrink.
Residual(decoded, f, b) ==
    IF f <= b \/ f % b # 0 \/ f \div b <= 1
    THEN [image |-> decoded, factor |-> b]
    ELSE [image |-> Scaled(decoded, f \div b), factor |-> f]

-----------------------------------------------------------------------------
(* What the source reports and serves.                                      *)

ViewFactor ==
    IF shrink_factor <= backing_shrink_factor
    THEN 1 ELSE shrink_factor \div backing_shrink_factor

\* width() and height().
Frame ==
    CASE backing = "eager" -> Scaled(image, ViewFactor)
      [] backing = "deferred" -> Scaled(probed, ViewFactor)
      [] OTHER -> probed

Resident == backing \in {"eager", "deferred"} /\ image \in Image

\* The frame the pixels of a tile are taken from.
ServedFrame ==
    IF Resident THEN Scaled(image, ViewFactor) ELSE Streamed(shrink_factor)

Region == [x : Int, y : Int, width : Nat, height : Nat]
Clamp(n, limit) == IF n < 0 THEN 0 ELSE IF n >= limit THEN limit - 1 ELSE n
Least(a, b) == IF a < b THEN a ELSE b

\* read_eager_region: for each pixel of the region, the pixels it averages.
ReadPixels(region) ==
    [p \in (0..region.width - 1) \X (0..region.height - 1) |->
        LET x == Clamp(region.x + p[1], ServedFrame.width)
            y == Clamp(region.y + p[2], ServedFrame.height)
            Block(n, limit) == (n * ViewFactor)..(Least((n + 1) * ViewFactor, limit) - 1)
        IN  {j * image.width + i : i \in Block(x, image.width), j \in Block(y, image.height)}]

\* Fault: rows of a shrunk view are lent.
BorrowsAnyView(region) ==
    /\ Resident
    /\ region.x = 0 /\ region.width = image.width
    /\ region.y >= 0 /\ region.y + region.height <= image.height

\* borrow_region: a slice of the rows of the resident image, as they are.
Borrows(region) ==
    /\ Resident
    /\ ViewFactor = 1
    /\ region.x = 0 /\ region.width = image.width
    /\ region.y >= 0 /\ region.y + region.height <= image.height
BorrowedPixels(region) ==
    [p \in (0..region.width - 1) \X (0..region.height - 1) |->
        {region.y * image.width + p[2] * region.width + p[1]}]

-----------------------------------------------------------------------------
(* Opening a file.                                                          *)

DecoderInit ==
    /\ file \in Files /\ input \in {"bytes", "path"}
    /\ thumbnail_hints = TRUE
    /\ backing = "eager" /\ probed = Size /\ image = Size
    /\ retained = FALSE
    /\ opts = 1 /\ shrink_factor = 1 /\ backing_shrink_factor = 1
    /\ stage = "closed" /\ dims = Size /\ nodes = FALSE /\ wanted = {}

Open ==
    /\ stage = "closed"
    /\ stage' = "source"
    /\ UNCHANGED <<file, input, dims, nodes, wanted>>

\* with_options, with_path_options.
OpenEager(f) ==
    /\ Open
    /\ backing' = "eager"
    /\ image' = Decoded(f)
    /\ retained' = Reopens
    /\ opts' = f /\ shrink_factor' = Normal(f)
    /\ backing_shrink_factor' = BackingFactor(Normal(f), Decoded(f))
    /\ UNCHANGED <<probed, thumbnail_hints>>

\* probed_shared_with_options, probed_path_with_options; ImageApi turns the
\* thumbnail hints off for JPEG (without_deferred_thumbnail_materialization).
OpenDeferred(f) ==
    /\ Open
    /\ backing' = "deferred"
    /\ image' = Empty
    /\ retained' = TRUE
    /\ thumbnail_hints' \in IF file.format = "jpeg" THEN BOOLEAN ELSE {TRUE}
    /\ opts' = f
    /\ UNCHANGED <<probed, shrink_factor, backing_shrink_factor>>

\* streaming_with_input.
OpenStreaming(f) ==
    /\ Open
    /\ Streams
    /\ backing' = "streaming"
    /\ probed' = Streamed(Normal(f))
    /\ image' = Empty
    /\ retained' = FALSE
    /\ opts' = f /\ shrink_factor' = Normal(f)
    /\ UNCHANGED <<backing_shrink_factor, thumbnail_hints>>

-----------------------------------------------------------------------------
(* Hints.  The answer is "yes" (Ok(true)), "no" (Ok(false)) or "error".     *)

Answers == {"yes", "no", "error"}
YesIf(b) == IF b THEN "yes" ELSE "no"
Keep == UNCHANGED source

\* The backing becomes an eager image, decoded with factor f.
Materialize(f, decoded, b) ==
    /\ backing' = "eager" /\ image' = decoded
    /\ opts' = f /\ shrink_factor' = Normal(f) /\ backing_shrink_factor' = b
    /\ UNCHANGED <<probed, retained>>

\* eager_decode_with_shrink, and the same steps in the eager branch.
DecodedAndShrunk(f) ==
    Residual(Decoded(f), Normal(f), BackingFactor(Normal(f), Decoded(f)))

\* Fault: a streaming hint keeps the dimensions of the first probe.
ShrinkStreamingBlind(f, answer) ==
    /\ backing = "streaming" /\ shrink_factor # Normal(f)
    /\ opts' = f /\ shrink_factor' = Normal(f) /\ backing_shrink_factor' = Normal(f)
    /\ UNCHANGED <<backing, probed, image, retained>>
    /\ answer = "yes"

ShrinkStreaming(f, answer) ==
    /\ backing = "streaming"
    /\ IF shrink_factor = Normal(f)
       THEN Keep /\ answer = YesIf(shrink_factor > 1)
       ELSE \/ Keep /\ answer = "error"
            \/ IF Normal(f) # 1 /\ Streamed(Normal(f)) = probed
               THEN Keep /\ answer = "no"
               ELSE /\ probed' = Streamed(Normal(f))
                    /\ opts' = f /\ shrink_factor' = Normal(f)
                    /\ backing_shrink_factor' = Normal(f)
                    /\ UNCHANGED <<backing, image, retained>>
                    /\ answer = "yes"

ShrinkDeferred(f, answer) ==
    /\ backing = "deferred"
    /\ IF shrink_factor = Normal(f) \/ Normal(f) < backing_shrink_factor
       THEN /\ Keep
            /\ answer = YesIf(shrink_factor = Normal(f) /\ Normal(f) <= backing_shrink_factor)
       ELSE \/ Keep /\ answer = "error"
            \/ LET made == DecodedAndShrunk(f) IN
                 /\ Materialize(f, made.image, made.factor)
                 /\ answer = YesIf(Normal(f) <= made.factor)

ShrinkEager(f, answer) ==
    /\ backing = "eager"
    /\ IF shrink_factor = Normal(f) \/ Normal(f) < backing_shrink_factor
       THEN /\ Keep
            /\ answer = YesIf(shrink_factor = Normal(f) /\ Normal(f) <= backing_shrink_factor)
       ELSE /\ opts' = f /\ shrink_factor' = Normal(f)
            /\ UNCHANGED <<backing, probed, image, retained, backing_shrink_factor>>
            /\ answer = YesIf(Normal(f) <= backing_shrink_factor)

\* set_shrink_on_load.
SetShrinkOnLoad(f, answer) ==
    ShrinkStreaming(f, answer) \/ ShrinkDeferred(f, answer) \/ ShrinkEager(f, answer)

ThumbnailUnsupported(f, answer) ==
    ~ShrinksThumbnails /\ Keep /\ answer = "no"

\* PNG: the resident image is shrunk where it is.
ThumbnailInMemory(f, answer) ==
    /\ file.format = "png" /\ backing = "eager"
    /\ IF Normal(f) = 1 \/ shrink_factor = Normal(f)
       THEN Keep /\ answer = YesIf(Normal(f) > 1)
       ELSE Materialize(f, Scaled(image, Normal(f)), Normal(f)) /\ answer = "yes"

ThumbnailStreaming(f, answer) ==
    /\ ShrinksThumbnails /\ backing = "streaming"
    /\ IF shrink_factor = Normal(f)
       THEN Keep /\ answer = "yes"
       ELSE \/ Keep /\ answer = "error"
            \/ /\ Materialize(f, Decoded(f), BackingFactor(Normal(f), Decoded(f)))
               /\ answer = "yes"

ThumbnailDeferred(f, answer) ==
    /\ ShrinksThumbnails /\ backing = "deferred"
    /\ IF ~thumbnail_hints \/ shrink_factor = Normal(f) \/ Normal(f) < backing_shrink_factor
       THEN Keep /\ answer = YesIf(thumbnail_hints /\ shrink_factor = Normal(f))
       ELSE \/ Keep /\ answer = "error"
            \/ LET made == DecodedAndShrunk(f) IN
                 /\ Materialize(f, made.image, made.factor)
                 /\ answer = YesIf(made.factor >= Normal(f))

ThumbnailEager(f, answer) ==
    /\ Reopens /\ backing = "eager"
    /\ IF shrink_factor = Normal(f) \/ Normal(f) < backing_shrink_factor \/ ~retained
       THEN Keep /\ answer = YesIf(shrink_factor = Normal(f))
       ELSE \/ Keep /\ answer = "error"
            \/ LET made == DecodedAndShrunk(f) IN
                 Materialize(f, made.image, made.factor) /\ answer = "yes"

\* set_thumbnail_shrink_on_load.
SetThumbnailShrinkOnLoad(f, answer) ==
    \/ ThumbnailUnsupported(f, answer)
    \/ ThumbnailInMemory(f, answer)
    \/ ThumbnailStreaming(f, answer)
    \/ ThumbnailDeferred(f, answer)
    \/ ThumbnailEager(f, answer)

-----------------------------------------------------------------------------
(* The owner of the source, and then the builder.                           *)

\* A hint of the program that opened the source.
Hint(f) ==
    /\ stage = "source"
    /\ \E answer \in Answers : SetShrinkOnLoad(f, answer) \/ SetThumbnailShrinkOnLoad(f, answer)
    /\ UNCHANGED <<opened, builder>>

\* read_region of a deferred source: the first tile decodes, for good.
ReadRegion ==
    /\ stage \in {"source", "builder"}
    /\ backing = "deferred" /\ image = Empty
    /\ image' \in {Decoded(opts), Failed}
    /\ UNCHANGED <<opened, backing, probed, retained, opts, shrink_factor,
                   backing_shrink_factor, builder>>

\* PipelineBuilder::from_source.
FromSource ==
    /\ stage = "source"
    /\ stage' = "builder" /\ dims' = Frame
    /\ UNCHANGED <<opened, source, nodes, wanted>>

\* shrink_on_load_factor; 1 is None.
HintFor(size, target) ==
    LET Times(c) == Covers(size, [width |-> c * target.width, height |-> c * target.height])
    IN  IF Times(16) THEN 16 ELSE IF Times(8) THEN 4 ELSE IF Times(4) THEN 2 ELSE 1

\* PipelineBuilder::thumbnail, as the first operation of the pipeline.  The
\* arena learns the new dimensions only from a source that says it shrank, and
\* an error ends the builder.
Thumbnail(target) ==
    /\ stage = "builder" /\ ~nodes
    /\ \/ /\ HintFor(dims, target) = 1
          /\ Keep
          /\ UNCHANGED <<stage, dims>>
       \/ /\ HintFor(dims, target) > 1
          /\ \E answer \in Answers :
                /\ SetThumbnailShrinkOnLoad(HintFor(dims, target), answer)
                /\ stage' = IF answer = "error" THEN "failed" ELSE "builder"
                /\ dims' = IF answer = "yes" THEN Frame' ELSE dims
    /\ nodes' = (dims' # target)
    /\ wanted' = IF Covers(dims, target) THEN {target} ELSE {}
    /\ UNCHANGED opened

DecoderNext ==
    \/ \E f \in Factors : OpenEager(f) \/ OpenStreaming(f) \/ Hint(f)
    \/ \E f \in ProbedWith : OpenDeferred(f)
    \/ ReadRegion
    \/ FromSource
    \/ \E target \in Targets : Thumbnail(target)

DecoderSpec == DecoderInit /\ [][DecoderNext]_decoderVars

-----------------------------------------------------------------------------
(* Properties.                                                              *)

DecoderTypeOK ==
    /\ file \in Files /\ input \in {"bytes", "path"}
    /\ backing \in {"eager", "deferred", "streaming"}
    /\ probed \in Image
    /\ image \in Image \cup {Empty, Failed}
    /\ backing = "eager" => image \in Image
    /\ retained \in BOOLEAN /\ thumbnail_hints \in BOOLEAN
    /\ opts \in 1..255
    /\ shrink_factor \in {1, 2, 4, 8, 16}
    /\ backing_shrink_factor \in {1, 2, 4, 8, 16}
    /\ stage \in {"closed", "source", "builder", "failed"}
    /\ dims \in Image /\ nodes \in BOOLEAN /\ wanted \subseteq Targets

\* The frame the source reports is the frame its tiles are cut from.  A
\* deferred or streaming source reports what it probed, a hint may have changed
\* either side, and read_eager_region clamps: where the two differ, tiles
\* repeat edge pixels and drop others, and no call fails.
FrameServed ==
    stage \in {"source", "builder"} /\ (Resident \/ backing = "streaming") =>
        Frame = ServedFrame

\* The builder plans every tile with the dimensions it took from the source
\* when it was given it and after the hints the source accepted: so a hint the
\* source did not accept must have left its frame as it was.
ArenaKnowsFrame == stage = "builder" => dims = Frame

\* A hint is there to decode less than the thumbnail needs no more: the frame
\* that is left still covers the thumbnail, so the resize after it never
\* enlarges what was thrown away.  An image that is shrunk while it is decoded
\* and again when its tiles are read breaks this.
ThumbnailNeverEnlarges ==
    stage = "builder" => \A target \in wanted : Covers(dims, target)

\* A region the scheduler may borrow has the bytes read_region would have
\* copied: it takes whichever of the two the source offers, tile by tile.
BorrowMatchesRead ==
    Resident =>
        \A x \in {-1, 0, 1}, y \in -1..image.height, w \in {1, Frame.width, image.width}, h \in 1..2 :
            LET region == [x |-> x, y |-> y, width |-> w, height |-> h]
            IN  Borrows(region) =>
                    \A p \in DOMAIN BorrowedPixels(region) :
                        ReadPixels(region)[p] = BorrowedPixels(region)[p]

=============================================================================
