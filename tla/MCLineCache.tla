---------------------------- MODULE MCLineCache ----------------------------
(***************************************************************************)
(* A source of eight rows and every request of up to four rows, from above *)
(* the image to below it, of caches whose tiles are two rows high.         *)
(***************************************************************************)
EXTENDS LineCache

MCRequests == [y : -1 .. 8, height : 0 .. 4]

\* The default window and wider ones, down to one refill.
Roomy == { Resolve(lines, 2, access) : lines \in {0, 2, 3}, access \in Accesses }

=============================================================================
