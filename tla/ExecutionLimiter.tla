--------------------------- MODULE ExecutionLimiter ---------------------------
(***************************************************************************)
(* The limit on concurrent pipeline runs: ExecutionSemaphore (viprs-core,  *)
(* limits.rs) as the scheduler uses it (with_execution_permit,             *)
(* viprs-runtime, scheduler/rayon_scheduler/runtime.rs).                   *)
(*                                                                         *)
(* A thread that starts a run takes a permit, unless it is inside a run    *)
(* already (run calls run_concurrent): a thread-local depth tells.  The    *)
(* mutex of the semaphore is held for one step at a time, except that      *)
(* waiting on the condition variable releases it: every step below is one  *)
(* critical section.                                                       *)
(***************************************************************************)
EXTENDS Naturals, FiniteSets

CONSTANTS
    Threads,        \* threads that start runs; they share one limiter
    MaxConcurrent,  \* what the semaphore was asked for; 0 counts as 1
    MaxDepth        \* bound: how deep runs nest

ASSUME LimiterAssumption ==
    /\ IsFiniteSet(Threads)
    /\ MaxConcurrent \in Nat
    /\ MaxDepth \in Nat \ {0}

Permits == IF MaxConcurrent = 0 THEN 1 ELSE MaxConcurrent

VARIABLES
    pc,        \* where a thread is: "idle", "acquiring", "parked" or "running"
    depth,     \* EXECUTION_LIMIT_DEPTH of the thread
    inFlight   \* ExecutionSemaphoreState.in_flight

vars == <<pc, depth, inFlight>>

TypeOK ==
    /\ pc \in [Threads -> {"idle", "acquiring", "parked", "running"}]
    /\ depth \in [Threads -> 0 .. MaxDepth]
    /\ inFlight \in 0 .. Permits

Init ==
    /\ pc = [t \in Threads |-> "idle"]
    /\ depth = [t \in Threads |-> 0]
    /\ inFlight = 0

At(place) == { t \in Threads : pc[t] = place }

-----------------------------------------------------------------------------

\* The outermost run of a thread asks for a permit.  A thread starts as many
\* runs as it likes.
Enter(t) ==
    /\ pc[t] = "idle"
    /\ pc' = [pc EXCEPT ![t] = "acquiring"]
    /\ depth' = [depth EXCEPT ![t] = 1]
    /\ UNCHANGED inFlight

\* A run inside a run takes none.
EnterNested(t) ==
    /\ pc[t] = "running" /\ depth[t] < MaxDepth
    /\ depth' = [depth EXCEPT ![t] = @ + 1]
    /\ UNCHANGED <<pc, inFlight>>

LeaveNested(t) ==
    /\ pc[t] = "running" /\ depth[t] > 1
    /\ depth' = [depth EXCEPT ![t] = @ - 1]
    /\ UNCHANGED <<pc, inFlight>>

\* Fault: the test of the limit is off by one.
AcquireOneTooMany(t) ==
    /\ pc[t] = "acquiring" /\ inFlight <= Permits
    /\ inFlight' = inFlight + 1
    /\ pc' = [pc EXCEPT ![t] = "running"]
    /\ UNCHANGED depth

Acquire(t) ==
    /\ pc[t] = "acquiring" /\ inFlight < Permits
    /\ inFlight' = inFlight + 1
    /\ pc' = [pc EXCEPT ![t] = "running"]
    /\ UNCHANGED depth

Park(t) ==
    /\ pc[t] = "acquiring" /\ inFlight >= Permits
    /\ pc' = [pc EXCEPT ![t] = "parked"]
    /\ UNCHANGED <<depth, inFlight>>

\* Condvar::wait may return without a notification.
SpuriousWake(t) ==
    /\ pc[t] = "parked"
    /\ pc' = [pc EXCEPT ![t] = "acquiring"]
    /\ UNCHANGED <<depth, inFlight>>

\* Fault: nobody is notified when the semaphore was not full.
LeaveNotifyingWhenFull(t) ==
    /\ pc[t] = "running" /\ depth[t] = 1
    /\ depth' = [depth EXCEPT ![t] = 0]
    /\ inFlight' = IF inFlight > 0 THEN inFlight - 1 ELSE inFlight
    /\ \/ /\ At("parked") = {} \/ inFlight < Permits
          /\ pc' = [pc EXCEPT ![t] = "idle"]
       \/ \E w \in At("parked") :
             /\ inFlight = Permits
             /\ pc' = [pc EXCEPT ![t] = "idle", ![w] = "acquiring"]

\* The run is over, by return or by panic: the permit is dropped (release,
\* with notify_one: whoever waits, one of them) and then the depth guard.
Leave(t) ==
    /\ pc[t] = "running" /\ depth[t] = 1
    /\ depth' = [depth EXCEPT ![t] = 0]
    /\ inFlight' = IF inFlight > 0 THEN inFlight - 1 ELSE inFlight
    /\ \/ /\ At("parked") = {}
          /\ pc' = [pc EXCEPT ![t] = "idle"]
       \/ \E w \in At("parked") : pc' = [pc EXCEPT ![t] = "idle", ![w] = "acquiring"]

-----------------------------------------------------------------------------

Step(t) == Acquire(t) \/ Park(t) \/ LeaveNested(t) \/ Leave(t)

Next == \E t \in Threads : Step(t) \/ Enter(t) \/ EnterNested(t) \/ SpuriousWake(t)

Spec == Init /\ [][Next]_vars

\* A thread that can go on does.  A run ends: it does not nest for ever (the
\* nested run is the last thing that run does).
FairSpec ==
    /\ Spec
    /\ \A t \in Threads :
          WF_vars(Acquire(t) \/ Park(t)) /\ WF_vars(LeaveNested(t)) /\ SF_vars(Leave(t))

-----------------------------------------------------------------------------

\* A permit is out for every outermost run that is executing and for nothing
\* else, and never more than the limit: the cap "on concurrent outermost
\* executions" holds although permits are taken back by destructors.
PermitsMatchRuns ==
    /\ inFlight = Cardinality(At("running"))
    /\ inFlight <= Permits

\* notify_one is enough: while somebody is parked, every free permit is
\* spoken for by a thread on its way to it.  A wake-up is never lost, however
\* newcomers and woken threads overtake each other.
FreePermitsSpokenFor ==
    At("parked") # {} => inFlight + Cardinality(At("acquiring")) >= Permits

\* As long as runs wait for a permit, permits are taken again and again.  So
\* everybody who waits gets one if no run is started any more; if runs are,
\* they can overtake the same thread every time it is woken.
PermitsKeepMoving ==
    <>[](At("acquiring") \cup At("parked") # {})
        => []<><<\E t \in Threads : Acquire(t)>>_vars

=============================================================================
