------------------------ MODULE ExecutionLimiterProofs ------------------------
(***************************************************************************)
(* Proofs about ExecutionLimiter: for any number of threads, any limit,    *)
(* any depth of nesting.                                                   *)
(***************************************************************************)
EXTENDS ExecutionLimiter, FiniteSetTheorems, TLAPS

\* Only a thread that holds no permit waits for one: a run inside a run can
\* not deadlock with its own outermost run, even with a single permit.
WaitersHoldNothing ==
    \A t \in Threads :
        /\ pc[t] \in {"acquiring", "parked"} => depth[t] = 1
        /\ pc[t] = "idle" <=> depth[t] = 0

\* The conjunction is inductive: the count of permits needs the count of the
\* threads that run, and the wake-ups are only enough because each of them
\* was for a permit that had become free.
Inv ==
    /\ TypeOK
    /\ PermitsMatchRuns
    /\ FreePermitsSpokenFor
    /\ WaitersHoldNothing

-----------------------------------------------------------------------------
(* Counting threads by place.                                              *)

\* The threads that the function f puts at a place.
There(f, place) == { t \in Threads : f[t] = place }

\* There are finitely many of them.
LEMMA CountIsNat ==
    ASSUME NEW f, NEW place
    PROVE  IsFiniteSet(There(f, place)) /\ Cardinality(There(f, place)) \in Nat
<1>1. There(f, place) \subseteq Threads
  BY DEF There
<1>2. IsFiniteSet(There(f, place))
  BY <1>1, LimiterAssumption, FS_Subset
<1> QED
  BY <1>2, FS_CardinalityType

Places == {"idle", "acquiring", "parked", "running"}

\* The moves of the specification: a thread goes from one place to another
\* one, which has one fewer where it was, one more where it goes, and no change
\* anywhere else.
LEMMA StepMoves ==
    ASSUME TypeOK, NEW t \in Threads, NEW to \in Places,
           pc[t] # to, pc' = [pc EXCEPT ![t] = to]
    PROVE  /\ Cardinality(There(pc', to)) = Cardinality(There(pc, to)) + 1
           /\ Cardinality(There(pc', pc[t])) = Cardinality(There(pc, pc[t])) - 1
           /\ \A q \in Places : q # to /\ q # pc[t] => There(pc', q) = There(pc, q)
<1>1. There(pc', to) = There(pc, to) \cup {t} /\ t \notin There(pc, to)
  BY DEF There, TypeOK
<1>2. There(pc', pc[t]) = There(pc, pc[t]) \ {t} /\ t \in There(pc, pc[t])
  BY DEF There, TypeOK
<1>3. \A q \in Places : q # to /\ q # pc[t] => There(pc', q) = There(pc, q)
  BY DEF There, TypeOK
<1>4. Cardinality(There(pc', to)) = Cardinality(There(pc, to)) + 1
  BY <1>1, CountIsNat, FS_AddElement
<1>5. Cardinality(There(pc', pc[t])) = Cardinality(There(pc, pc[t])) - 1
  BY <1>2, CountIsNat, FS_RemoveElement
<1> QED
  BY <1>3, <1>4, <1>5

-----------------------------------------------------------------------------
(* The invariant, with its counts written as There.                        *)

Counts(f, k) ==
    /\ k = Cardinality(There(f, "running"))
    /\ k <= Permits
    /\ There(f, "parked") # {} => k + Cardinality(There(f, "acquiring")) >= Permits

LEMMA InvCounts == (PermitsMatchRuns /\ FreePermitsSpokenFor) <=> Counts(pc, inFlight)
  BY DEF PermitsMatchRuns, FreePermitsSpokenFor, Counts, At, There

LEMMA InvCountsPrime ==
    (PermitsMatchRuns /\ FreePermitsSpokenFor)' <=> Counts(pc', inFlight')
  BY DEF PermitsMatchRuns, FreePermitsSpokenFor, Counts, At, There

LEMMA PermitsPositive == Permits \in Nat \ {0}
  BY LimiterAssumption DEF Permits

LEMMA InitInv == Init => Inv
<1> SUFFICES ASSUME Init PROVE Inv
  OBVIOUS
<1>1. TypeOK /\ WaitersHoldNothing
  BY PermitsPositive, LimiterAssumption DEF Init, TypeOK, WaitersHoldNothing
<1>2. There(pc, "running") = {} /\ There(pc, "parked") = {}
  BY DEF Init, There
<1>3. Counts(pc, inFlight)
  BY <1>2, FS_EmptySet, PermitsPositive DEF Init, Counts
<1> QED
  BY <1>1, <1>3, InvCounts DEF Inv

LEMMA NextInv == Inv /\ [Next]_vars => Inv'
<1> SUFFICES ASSUME Inv, [Next]_vars PROVE Inv'
  OBVIOUS
<1> USE PermitsPositive, LimiterAssumption
<1>0. TypeOK /\ WaitersHoldNothing /\ Counts(pc, inFlight)
  BY InvCounts DEF Inv
<1>c. \A q : /\ Cardinality(There(pc, q)) \in Nat
             /\ Cardinality(There(pc', q)) \in Nat
  BY CountIsNat
<1>n. /\ inFlight \in Nat /\ Permits \in Nat
      /\ Cardinality(There(pc, "acquiring")) \in Nat
      /\ Cardinality(There(pc', "acquiring")) \in Nat
  BY <1>0, <1>c DEF TypeOK
<1>e. \A q : There(pc, q) = {} <=> Cardinality(There(pc, q)) = 0
  BY CountIsNat, FS_EmptySet
<1>1. ASSUME NEW t \in Threads, Enter(t) PROVE Inv'
  <2>1. (TypeOK /\ WaitersHoldNothing)'
    BY <1>0, <1>1 DEF Enter, TypeOK, WaitersHoldNothing
  <2>2. pc[t] = "idle" /\ pc' = [pc EXCEPT ![t] = "acquiring"] /\ inFlight' = inFlight
    BY <1>1 DEF Enter
  <2>3. /\ Cardinality(There(pc', "acquiring")) = Cardinality(There(pc, "acquiring")) + 1
        /\ There(pc', "running") = There(pc, "running")
        /\ There(pc', "parked") = There(pc, "parked")
    BY <2>2, <1>0, StepMoves DEF Places
  <2>4. inFlight' = Cardinality(There(pc', "running")) /\ inFlight' <= Permits
    BY <2>2, <2>3, <1>0 DEF Counts
  <2>5. ASSUME There(pc', "parked") # {}
        PROVE  inFlight' + Cardinality(There(pc', "acquiring")) >= Permits
    <3>1. inFlight + Cardinality(There(pc, "acquiring")) >= Permits
      BY <2>3, <2>5, <1>0 DEF Counts
    <3>2. inFlight + (Cardinality(There(pc, "acquiring")) + 1) >= Permits
      BY <3>1, <1>n
    <3> QED
      BY <3>2, <2>2, <2>3
  <2>6. Counts(pc', inFlight')
    BY <2>4, <2>5 DEF Counts
  <2> QED
    BY <2>1, <2>6, InvCountsPrime DEF Inv
<1>2. ASSUME NEW t \in Threads, EnterNested(t) \/ LeaveNested(t) PROVE Inv'
  <2>1. TypeOK'
    BY <1>0, <1>2 DEF EnterNested, LeaveNested, TypeOK
  <2>2. WaitersHoldNothing'
    BY <1>0, <1>2 DEF EnterNested, LeaveNested, TypeOK, WaitersHoldNothing
  <2>3. pc' = pc /\ inFlight' = inFlight
    BY <1>2 DEF EnterNested, LeaveNested
  <2>4. (PermitsMatchRuns /\ FreePermitsSpokenFor)'
    BY <2>3 DEF Inv, PermitsMatchRuns, FreePermitsSpokenFor, At
  <2> QED
    BY <2>1, <2>2, <2>4 DEF Inv
<1>3. ASSUME NEW t \in Threads, Acquire(t) PROVE Inv'
  <2>1. (TypeOK /\ WaitersHoldNothing)'
    BY <1>0, <1>3 DEF Acquire, TypeOK, WaitersHoldNothing
  <2>2. /\ pc[t] = "acquiring" /\ pc' = [pc EXCEPT ![t] = "running"]
        /\ inFlight < Permits /\ inFlight' = inFlight + 1
    BY <1>3 DEF Acquire
  <2>3. /\ Cardinality(There(pc', "running")) = Cardinality(There(pc, "running")) + 1
        /\ Cardinality(There(pc', "acquiring")) = Cardinality(There(pc, "acquiring")) - 1
        /\ There(pc', "parked") = There(pc, "parked")
    BY <2>2, <1>0, StepMoves DEF Places
  <2>4. inFlight' = Cardinality(There(pc', "running")) /\ inFlight' <= Permits
    <3>1. inFlight + 1 <= Permits
      BY <2>2, <1>n
    <3> QED
      BY <3>1, <2>2, <2>3, <1>0 DEF Counts
  <2>5. ASSUME There(pc', "parked") # {}
        PROVE  inFlight' + Cardinality(There(pc', "acquiring")) >= Permits
    <3>1. inFlight + Cardinality(There(pc, "acquiring")) >= Permits
      BY <2>3, <2>5, <1>0 DEF Counts
    <3>2. (inFlight + 1) + (Cardinality(There(pc, "acquiring")) - 1) >= Permits
      BY <3>1, <1>n
    <3> QED
      BY <3>2, <2>2, <2>3
  <2>6. Counts(pc', inFlight')
    BY <2>4, <2>5 DEF Counts
  <2> QED
    BY <2>1, <2>6, InvCountsPrime DEF Inv
<1>4. ASSUME NEW t \in Threads, Park(t) PROVE Inv'
  <2>1. (TypeOK /\ WaitersHoldNothing)'
    BY <1>0, <1>4 DEF Park, TypeOK, WaitersHoldNothing
  <2>2. /\ pc[t] = "acquiring" /\ pc' = [pc EXCEPT ![t] = "parked"]
        /\ inFlight >= Permits /\ inFlight' = inFlight
    BY <1>4 DEF Park
  <2>3. There(pc', "running") = There(pc, "running")
    BY <2>2, <1>0, StepMoves DEF Places
  <2>4. Counts(pc', inFlight')
    BY <2>2, <2>3, <1>0, <1>n DEF Counts
  <2> QED
    BY <2>1, <2>4, InvCountsPrime DEF Inv
<1>5. ASSUME NEW t \in Threads, SpuriousWake(t) PROVE Inv'
  <2>1. (TypeOK /\ WaitersHoldNothing)'
    BY <1>0, <1>5 DEF SpuriousWake, TypeOK, WaitersHoldNothing
  <2>2. pc[t] = "parked" /\ pc' = [pc EXCEPT ![t] = "acquiring"] /\ inFlight' = inFlight
    BY <1>5 DEF SpuriousWake
  <2>3. /\ Cardinality(There(pc', "acquiring")) = Cardinality(There(pc, "acquiring")) + 1
        /\ There(pc', "running") = There(pc, "running")
        /\ There(pc, "parked") # {}
    BY <2>2, <1>0, StepMoves DEF There, Places
  <2>4. Counts(pc', inFlight')
    BY <2>2, <2>3, <1>0, <1>n DEF Counts
  <2> QED
    BY <2>1, <2>4, InvCountsPrime DEF Inv
<1>6. ASSUME NEW t \in Threads, Leave(t) PROVE Inv'
  \* The thread that leaves is counted, so there is a permit to give back.
  <2>1. pc[t] = "running" /\ depth[t] = 1 /\ depth' = [depth EXCEPT ![t] = 0]
    BY <1>6 DEF Leave
  <2>2. inFlight > 0 /\ inFlight' = inFlight - 1
    <3>1. There(pc, "running") # {}
      BY <2>1 DEF There
    <3>2. inFlight > 0
      BY <3>1, <1>0, <1>c, <1>e DEF Counts
    <3> QED
      BY <3>2, <1>6 DEF Leave
  <2>3. CASE At("parked") = {} /\ pc' = [pc EXCEPT ![t] = "idle"]
    <3>1. (TypeOK /\ WaitersHoldNothing)'
      BY <1>0, <2>1, <2>2, <2>3 DEF TypeOK, WaitersHoldNothing
    <3>2. /\ Cardinality(There(pc', "running")) = Cardinality(There(pc, "running")) - 1
          /\ There(pc', "parked") = There(pc, "parked")
      BY <2>1, <2>3, <1>0, StepMoves DEF Places
    <3>3. There(pc', "parked") = {}
      BY <3>2, <2>3 DEF At, There
    <3>4. Counts(pc', inFlight')
      BY <2>2, <3>2, <3>3, <1>0, <1>n DEF Counts
    <3> QED
      BY <3>1, <3>4, InvCountsPrime DEF Inv
  \* Somebody is parked: the permit that becomes free is spoken for by the
  \* thread that the notification wakes.
  <2>4. ASSUME NEW w \in At("parked"), pc' = [pc EXCEPT ![t] = "idle", ![w] = "acquiring"]
        PROVE  Inv'
    <3>1. w \in Threads /\ pc[w] = "parked" /\ w # t
      BY <2>1 DEF At
    <3>2. (TypeOK /\ WaitersHoldNothing)'
      BY <1>0, <2>1, <2>2, <2>4, <3>1 DEF TypeOK, WaitersHoldNothing
    <3>3. /\ There(pc', "running") = There(pc, "running") \ {t}
          /\ t \in There(pc, "running")
      BY <1>0, <2>1, <2>4, <3>1 DEF There, TypeOK
    <3>4. /\ There(pc', "acquiring") = There(pc, "acquiring") \cup {w}
          /\ w \notin There(pc, "acquiring")
      BY <1>0, <2>1, <2>4, <3>1 DEF There, TypeOK
    <3>5. /\ Cardinality(There(pc', "running")) = Cardinality(There(pc, "running")) - 1
          /\ Cardinality(There(pc', "acquiring")) = Cardinality(There(pc, "acquiring")) + 1
      BY <3>3, <3>4, CountIsNat, FS_AddElement, FS_RemoveElement
    <3>6. There(pc, "parked") # {}
      BY <3>1 DEF There
    <3>7. Counts(pc', inFlight')
      BY <2>2, <3>5, <3>6, <1>0, <1>n DEF Counts
    <3> QED
      BY <3>2, <3>7, InvCountsPrime DEF Inv
  <2> QED
    BY <1>6, <2>3, <2>4 DEF Leave
<1>7. CASE UNCHANGED vars
  BY <1>7 DEF Inv, vars, TypeOK, PermitsMatchRuns, FreePermitsSpokenFor, WaitersHoldNothing, At
<1> QED
  BY <1>1, <1>2, <1>3, <1>4, <1>5, <1>6, <1>7 DEF Next, Step

LEMMA Invariance == Spec => []Inv
  BY InitInv, NextInv, PTL DEF Spec

-----------------------------------------------------------------------------
(* The theorems.                                                           *)

\* The variables keep their types.
THEOREM TypeCorrect == Spec => []TypeOK
<1>1. Inv => TypeOK
  BY DEF Inv
<1> QED
  BY <1>1, Invariance, PTL

\* However many threads start, nest and end runs, each outermost run that
\* executes has one permit, and there are never more of them than allowed.
THEOREM PermitsHold == Spec => []PermitsMatchRuns
<1>1. Inv => PermitsMatchRuns
  BY DEF Inv
<1> QED
  BY <1>1, Invariance, PTL

\* No wake-up is lost: a thread stays parked only while every permit is out
\* or spoken for.
THEOREM NoLostWakeup == Spec => []FreePermitsSpokenFor
<1>1. Inv => FreePermitsSpokenFor
  BY DEF Inv
<1> QED
  BY <1>1, Invariance, PTL

\* A thread that waits for a permit holds none.
THEOREM NoSelfDeadlock == Spec => []WaitersHoldNothing
<1>1. Inv => WaitersHoldNothing
  BY DEF Inv
<1> QED
  BY <1>1, Invariance, PTL

=============================================================================
