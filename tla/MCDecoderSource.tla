-------------------------- MODULE MCDecoderSource --------------------------
(***************************************************************************)
(* Files whose width and height are, and are not, multiples of the hints'  *)
(* factors.  A PNG that is no multiple is shrunk twice (see the README), a *)
(* rotated JPEG is the subject of a run of its own.                        *)
(***************************************************************************)
EXTENDS DecoderSource

Upright(format, width, height) ==
    [format |-> format, width |-> width, height |-> height, rotated |-> FALSE, deep |-> FALSE]

MCFiles ==
    {Upright("jpeg", 37, 18), Upright("webp", 37, 18), Upright("png", 32, 16),
     [Upright("png", 37, 18) EXCEPT !.deep = TRUE], Upright("ppm", 16, 9)}
MCRotated == {[Upright("jpeg", 6, 4) EXCEPT !.rotated = TRUE]}
MCFactors == {1, 2, 3, 4, 16}
MCTargets == {[width |-> w, height |-> h] : w \in {1, 2, 4, 8}, h \in {1, 2, 4}}
=============================================================================
