---------------------------- MODULE MCFileSinkRun ----------------------------
(***************************************************************************)
(* Plans of MCRayonScheduler saved through a FileSink: more tiles than the *)
(* channel has slots, so that workers wait for their turn and for the      *)
(* writer thread.                                                          *)
(***************************************************************************)
EXTENDS FileSinkRun

Row(k) == Region(0, k, 10001, 1)

Singles == <<<<Row(0)>>, <<Row(1)>>, <<Row(2)>>, <<Row(3)>>, <<Row(4)>>>>
Pairs   == <<<<Row(0), Row(1)>>, <<Row(2), Row(3)>>, <<Row(4)>>>>

Adaptive == [units |-> Singles, workers |-> 2, scoped |-> FALSE]
Static   == [units |-> Pairs, workers |-> 3, scoped |-> FALSE]
Chunked  == [units |-> Pairs, workers |-> 3, scoped |-> TRUE]

AllPlans  == {Adaptive, Static, Chunked}
PoolPlans == {Adaptive}

=============================================================================
