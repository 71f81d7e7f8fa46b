----------------------- MODULE RayonSchedulerProofs -----------------------
(***************************************************************************)
(* Proofs about RayonScheduler: for any number of workers, any plans, any  *)
(* way to split and steal, any failures.                                   *)
(***************************************************************************)
EXTENDS RayonScheduler, FiniteSetTheorems, TLAPS

Pcs == {"seek", "fresh", "check", "execute", "deliver", "writing"}

\* The ranges of units a worker can have in hand or split off.
Ranges == { r \in (1 .. Len(Units)) \X (1 .. Len(Units)) : r[1] <= r[2] }

TypeOK ==
    /\ plan \in Plans
    /\ phase \in {"new", "running", "ok", "err"}
    /\ pc \in [Workers -> Pcs]
    /\ leaf \in [Workers -> Int \X Int]
    /\ tile \in [Workers -> Nat]
    /\ deque \in [Workers -> Seq(Ranges)]
    /\ full \in BOOLEAN /\ failed \in BOOLEAN /\ cancelled \in BOOLEAN
    /\ stored \subseteq Tiles /\ IsFiniteSet(stored)
    /\ before \in Nat
    /\ \A w \in Workers : pc[w] # "seek" => leaf[w] \in Ranges
    /\ \A w \in Workers : pc[w] \notin {"seek", "fresh"} => tile[w] \in DOMAIN Units[leaf[w][1]]

\* What the phase of the run and its flags say of one another.
PhasesAgree ==
    /\ phase # "running" => NothingLeft
    /\ phase = "new" => stored = {} /\ ~failed
    /\ phase = "ok" => ~failed
    /\ full => failed

-----------------------------------------------------------------------------
(* Where tiles are: in the hand of a worker, at <<w, 0>>, or in its i-th   *)
(* half, at <<w, i>>.                                                      *)

Places == { p \in Workers \X Nat : p[2] = 0 \/ p[2] \in DOMAIN deque[p[1]] }

TilesAt(p) == IF p[2] = 0 THEN Held(p[1]) ELSE Queued(p[1], p[2])

\* No tile is in two places, nor in one and in the sink.
OnePlace ==
    /\ \A p, q \in Places : p # q => TilesAt(p) \cap TilesAt(q) = {}
    /\ \A p \in Places : TilesAt(p) \cap stored = {}

\* Every tile is in the sink or in one.
SomePlace ==
    phase \in {"running", "ok"} /\ ~failed =>
        \A t \in Tiles : t \in stored \/ \E p \in Places : t \in TilesAt(p)

\* With types right, one place per tile is what EachTileHeldOnce says.
LEMMA OnePlaceIsOnce == TypeOK => (OnePlace <=> EachTileHeldOnce)
<1> SUFFICES ASSUME TypeOK PROVE OnePlace <=> EachTileHeldOnce
  OBVIOUS
<1> USE DEF TilesAt
<1>0. \A w \in Workers : <<w, 0>> \in Places /\ 0 \notin DOMAIN deque[w]
  BY DEF Places, TypeOK
<1>1. \A w \in Workers : \A i \in DOMAIN deque[w] : <<w, i>> \in Places /\ i # 0
  BY DEF Places, TypeOK
<1>2. ASSUME OnePlace PROVE EachTileHeldOnce
  <2>1. ASSUME NEW v \in Workers, NEW w \in Workers, v # w PROVE Held(v) \cap Held(w) = {}
    <3>1. <<v, 0>> # <<w, 0>> /\ TilesAt(<<v, 0>>) = Held(v) /\ TilesAt(<<w, 0>>) = Held(w)
      BY <2>1
    <3> QED  BY <1>0, <1>2, <3>1 DEF OnePlace
  <2>2. \A w \in Workers : Held(w) \cap stored = {}
    <3>1. \A w \in Workers : TilesAt(<<w, 0>>) = Held(w)
      OBVIOUS
    <3> QED  BY <1>0, <1>2, <3>1 DEF OnePlace
  <2>3. ASSUME NEW w \in Workers, NEW i \in DOMAIN deque[w]
        PROVE  /\ Queued(w, i) \cap stored = {}
               /\ \A v \in Workers : Queued(w, i) \cap Held(v) = {}
               /\ \A v \in Workers : \A j \in DOMAIN deque[v] :
                     (v # w \/ i # j) => Queued(w, i) \cap Queued(v, j) = {}
    <3>1. <<w, i>> \in Places /\ i # 0 /\ TilesAt(<<w, i>>) = Queued(w, i)
      BY <1>1
    <3>2. Queued(w, i) \cap stored = {}
      BY <1>2, <3>1 DEF OnePlace
    <3>3. ASSUME NEW v \in Workers PROVE Queued(w, i) \cap Held(v) = {}
      <4>1. <<v, 0>> \in Places /\ <<w, i>> # <<v, 0>> /\ TilesAt(<<v, 0>>) = Held(v)
        BY <1>0, <3>1
      <4> QED  BY <1>2, <3>1, <4>1 DEF OnePlace
    <3>4. ASSUME NEW v \in Workers, NEW j \in DOMAIN deque[v], v # w \/ i # j
          PROVE  Queued(w, i) \cap Queued(v, j) = {}
      <4>1. <<v, j>> \in Places /\ <<w, i>> # <<v, j>> /\ TilesAt(<<v, j>>) = Queued(v, j)
        BY <1>1, <3>4
      <4> QED  BY <1>2, <3>1, <4>1 DEF OnePlace
    <3> QED  BY <3>2, <3>3, <3>4
  <2> QED  BY <2>1, <2>2, <2>3 DEF EachTileHeldOnce
<1>3. ASSUME EachTileHeldOnce PROVE OnePlace
  <2>1. ASSUME NEW p \in Places
        PROVE  p[1] \in Workers /\ p = <<p[1], p[2]>> /\ p[2] \in Nat
               /\ (p[2] # 0 => p[2] \in DOMAIN deque[p[1]])
    BY DEF Places
  <2>2. ASSUME NEW p \in Places, NEW q \in Places, p # q
        PROVE  TilesAt(p) \cap TilesAt(q) = {}
    <3>1. p[1] # q[1] \/ p[2] # q[2]
      BY <2>1, <2>2
    <3>2. CASE p[2] = 0 /\ q[2] = 0
      BY <1>3, <2>1, <3>1, <3>2 DEF EachTileHeldOnce
    <3>3. CASE p[2] = 0 /\ q[2] # 0
      BY <1>3, <2>1, <3>3 DEF EachTileHeldOnce
    <3>4. CASE p[2] # 0 /\ q[2] = 0
      BY <1>3, <2>1, <3>4 DEF EachTileHeldOnce
    <3>5. CASE p[2] # 0 /\ q[2] # 0
      BY <1>3, <2>1, <3>1, <3>5 DEF EachTileHeldOnce
    <3> QED  BY <3>2, <3>3, <3>4, <3>5
  <2>3. ASSUME NEW p \in Places PROVE TilesAt(p) \cap stored = {}
    BY <1>3, <2>1 DEF EachTileHeldOnce
  <2> QED  BY <2>2, <2>3 DEF OnePlace
<1> QED  BY <1>2, <1>3

\* With types right, some place for every tile is what NoTileDropped says.
LEMMA SomePlaceIsNotDropped == TypeOK => (SomePlace <=> NoTileDropped)
<1> SUFFICES ASSUME TypeOK PROVE SomePlace <=> NoTileDropped
  OBVIOUS
<1>1. \A w \in Workers : Held(w) \subseteq Tiles
  BY DEF Held, TilesFrom
<1>2. \A w \in Workers, i \in Nat : Queued(w, i) \subseteq Tiles
  BY DEF Queued, TilesFrom
<1>3. \A w \in Workers : DOMAIN deque[w] \subseteq Nat
  BY DEF TypeOK
<1> DEFINE U == stored
                \cup (UNION { Held(w) : w \in Workers })
                \cup (UNION { UNION { Queued(w, i) : i \in DOMAIN deque[w] } : w \in Workers })
<1>4. U \subseteq Tiles
  BY <1>1, <1>2, <1>3 DEF TypeOK
<1>5. ASSUME NEW t
      PROVE  t \in U <=> \/ t \in stored
                         \/ \E w \in Workers : t \in Held(w)
                         \/ \E w \in Workers : \E i \in DOMAIN deque[w] : t \in Queued(w, i)
  OBVIOUS
<1>6. ASSUME NEW t
      PROVE  (\E p \in Places : t \in TilesAt(p)) <=>
                         \/ \E w \in Workers : t \in Held(w)
                         \/ \E w \in Workers : \E i \in DOMAIN deque[w] : t \in Queued(w, i)
  <2>1. ASSUME NEW p \in Places, t \in TilesAt(p)
        PROVE  \/ \E w \in Workers : t \in Held(w)
               \/ \E w \in Workers : \E i \in DOMAIN deque[w] : t \in Queued(w, i)
    BY <2>1 DEF Places, TilesAt
  <2>2. ASSUME NEW w \in Workers, t \in Held(w) PROVE \E p \in Places : t \in TilesAt(p)
    <3>1. <<w, 0>> \in Places /\ TilesAt(<<w, 0>>) = Held(w)
      BY DEF Places, TilesAt
    <3> QED  BY <2>2, <3>1
  <2>3. ASSUME NEW w \in Workers, NEW i \in DOMAIN deque[w], t \in Queued(w, i)
        PROVE  \E p \in Places : t \in TilesAt(p)
    <3>1. i # 0 /\ i \in Nat
      BY DEF TypeOK
    <3>2. <<w, i>> \in Places /\ TilesAt(<<w, i>>) = Queued(w, i)
      BY <3>1 DEF Places, TilesAt
    <3> QED  BY <2>3, <3>2
  <2> QED  BY <2>1, <2>2, <2>3
<1>7. NoTileDropped <=> (phase \in {"running", "ok"} /\ ~failed => Tiles = U)
  BY DEF NoTileDropped
<1> HIDE DEF U
<1> QED
  BY <1>4, <1>5, <1>6, <1>7 DEF SomePlace

-----------------------------------------------------------------------------
(* Types.                                                                  *)

\* What the assumption on plans gives for the plan of the run.
LEMMA PlanFacts ==
    ASSUME TypeOK
    PROVE  /\ Len(Units) \in Nat /\ DOMAIN Units = 1 .. Len(Units)
           /\ \A u \in DOMAIN Units : /\ Len(Units[u]) \in Nat \ {0}
                                     /\ DOMAIN Units[u] = 1 .. Len(Units[u])
           /\ plan.workers \in Workers /\ Scoped \in BOOLEAN
           /\ Scoped => Len(Units) <= plan.workers
<1> DEFINE R == [x : Int, y : Int, width : Nat, height : Nat]
<1>1. Units \in Seq(Seq(R)) /\ \A u \in DOMAIN Units : Units[u] # <<>>
  BY SchedulerAssumption DEF TypeOK, Units
<1> HIDE DEF R
<1>2. Len(Units) \in Nat /\ DOMAIN Units = 1 .. Len(Units)
  BY <1>1
<1>3. \A u \in DOMAIN Units : Units[u] \in Seq(R) /\ Units[u] # <<>>
  BY <1>1, <1>2
<1>4. \A u \in DOMAIN Units : Len(Units[u]) \in Nat \ {0} /\ DOMAIN Units[u] = 1 .. Len(Units[u])
  BY <1>3
<1> QED
  BY <1>2, <1>4, SchedulerAssumption DEF TypeOK, Scoped, Units

\* A tile is a unit and a position in it.
LEMMA TilesArePairs ==
    ASSUME TypeOK, NEW t
    PROVE  t \in Tiles <=> /\ t = <<t[1], t[2]>>
                           /\ t[1] \in DOMAIN Units /\ t[2] \in DOMAIN Units[t[1]]
  BY DEF Tiles

\* Giving a leaf up leaves values of the right types.
LEMMA DropLeafTypes ==
    ASSUME TypeOK, NEW w \in Workers, DropLeaf(w), UNCHANGED <<plan, stored>>
    PROVE  /\ pc' \in [Workers -> Pcs]
           /\ leaf' \in [Workers -> Int \X Int]
           /\ tile' \in [Workers -> Nat]
           /\ \A v \in Workers : pc'[v] # "seek" => leaf'[v] \in Ranges'
           /\ \A v \in Workers : pc'[v] \notin {"seek", "fresh"} => tile'[v] \in DOMAIN (Units')[leaf'[v][1]]
  BY DEF TypeOK, DropLeaf, NoLeaf, Pcs, Ranges, Units

\* Taking a leaf leaves values of the right types.
LEMMA TakeLeafTypes ==
    ASSUME TypeOK, NEW w \in Workers, NEW r \in Ranges, TakeLeaf(w, r), pc[w] = "seek",
           UNCHANGED <<plan, tile, stored>>
    PROVE  /\ pc' \in [Workers -> Pcs]
           /\ leaf' \in [Workers -> Int \X Int]
           /\ \A v \in Workers : pc'[v] # "seek" => leaf'[v] \in Ranges'
           /\ \A v \in Workers : pc'[v] \notin {"seek", "fresh"} => tile'[v] \in DOMAIN (Units')[leaf'[v][1]]
<1>1. Ranges' = Ranges /\ Units' = Units /\ Ranges \subseteq Int \X Int
  BY PlanFacts DEF Ranges, Units
<1> QED  BY <1>1 DEF TypeOK, TakeLeaf, Pcs

\* A worker's step that changes its place in the work and nothing of the work.
LEMMA MoveTypes ==
    ASSUME TypeOK, NEW w \in Workers, NEW to \in Pcs, pc' = [pc EXCEPT ![w] = to],
           pc[w] \notin {"seek", "fresh"}, UNCHANGED <<plan, phase, leaf, tile, deque, full, failed, cancelled, stored, before>>
    PROVE  TypeOK'
  BY DEF TypeOK, Ranges, Units, Tiles, Pcs

\* A failing unit leaves values of the right types.
LEMMA FailTypes ==
    ASSUME TypeOK, NEW w \in Workers, Fail(w)
    PROVE  TypeOK'
<1>1. full' \in BOOLEAN /\ failed' \in BOOLEAN
  BY PlanFacts DEF Fail, TypeOK
<1>2. Ranges' = Ranges /\ Tiles' = Tiles
  BY DEF Fail, Ranges, Tiles, Units
<1> QED
  BY <1>1, <1>2, DropLeafTypes DEF TypeOK, Fail

\* Going to the next tile leaves values of the right types.
LEMMA AdvanceTypes ==
    ASSUME TypeOK, NEW w \in Workers, Advance(w), pc[w] = "writing", UNCHANGED plan
    PROVE  /\ pc' \in [Workers -> Pcs]
           /\ leaf' \in [Workers -> Int \X Int]
           /\ tile' \in [Workers -> Nat]
           /\ \A v \in Workers : pc'[v] # "seek" => leaf'[v] \in Ranges'
           /\ \A v \in Workers : pc'[v] \notin {"seek", "fresh"} => tile'[v] \in DOMAIN (Units')[leaf'[v][1]]
<1>1. Ranges' = Ranges /\ Units' = Units
  BY DEF Ranges, Units
<1>2. /\ leaf[w] \in Ranges /\ leaf[w][1] \in 1 .. Len(Units) /\ leaf[w][2] \in 1 .. Len(Units)
      /\ leaf[w][1] \in DOMAIN Units /\ tile[w] \in DOMAIN Units[leaf[w][1]]
  BY PlanFacts DEF TypeOK, Ranges
<1>3. CASE tile[w] < Len(Units[leaf[w][1]])
  <2>1. tile[w] + 1 \in DOMAIN Units[leaf[w][1]] /\ tile[w] + 1 \in Nat
    BY <1>2, <1>3, PlanFacts
  <2>2. /\ pc' = [pc EXCEPT ![w] = "check"] /\ tile' = [tile EXCEPT ![w] = tile[w] + 1]
        /\ leaf' = leaf
    BY <1>3 DEF Advance
  <2> QED  BY <1>1, <1>2, <2>1, <2>2 DEF TypeOK, Pcs
<1>4. CASE ~(tile[w] < Len(Units[leaf[w][1]])) /\ leaf[w][1] < leaf[w][2] /\ ~full
  <2>1. /\ pc' = [pc EXCEPT ![w] = "check"] /\ tile' = [tile EXCEPT ![w] = 1]
        /\ leaf' = [leaf EXCEPT ![w][1] = leaf[w][1] + 1]
    BY <1>4 DEF Advance
  <2>2. leaf'[w] = <<leaf[w][1] + 1, leaf[w][2]>> /\ leaf' = [leaf EXCEPT ![w] = <<leaf[w][1] + 1, leaf[w][2]>>]
    <3>1. leaf[w] = <<leaf[w][1], leaf[w][2]>>
      BY <1>2 DEF Ranges
    <3>2. [leaf[w] EXCEPT ![1] = leaf[w][1] + 1] = <<leaf[w][1] + 1, leaf[w][2]>>
      BY <3>1
    <3> QED  BY <2>1, <3>2 DEF TypeOK
  <2>3. leaf[w][1] + 1 \in 1 .. Len(Units) /\ leaf'[w] \in Ranges
    BY <2>2, <1>2, <1>4, PlanFacts DEF Ranges
  <2>4. 1 \in DOMAIN Units[leaf[w][1] + 1]
    BY <2>3, PlanFacts
  <2>5. leaf' \in [Workers -> Int \X Int] /\ pc' \in [Workers -> Pcs] /\ tile' \in [Workers -> Nat]
    BY <2>1, <2>2, <1>2, <2>3 DEF TypeOK, Pcs, Ranges
  <2>6. ASSUME NEW v \in Workers, pc'[v] # "seek" PROVE leaf'[v] \in Ranges'
    BY <1>1, <2>1, <2>2, <2>3, <2>6 DEF TypeOK
  <2>7. ASSUME NEW v \in Workers, pc'[v] \notin {"seek", "fresh"}
        PROVE  tile'[v] \in DOMAIN (Units')[leaf'[v][1]]
    <3>1. CASE v = w
      BY <3>1, <1>1, <2>1, <2>2, <2>4 DEF TypeOK
    <3>2. CASE v # w
      BY <3>2, <1>1, <2>1, <2>2, <2>7 DEF TypeOK
    <3> QED  BY <3>1, <3>2
  <2> QED  BY <2>5, <2>6, <2>7
<1>5. CASE ~(tile[w] < Len(Units[leaf[w][1]])) /\ ~(leaf[w][1] < leaf[w][2] /\ ~full)
  <2>1. DropLeaf(w)
    BY <1>5 DEF Advance
  <2> QED  BY <1>1, <2>1 DEF TypeOK, DropLeaf, NoLeaf, Pcs, Ranges
<1> QED  BY <1>3, <1>4, <1>5

\* Start deals out ranges of units that exist.
LEMMA StartTypes == TypeOK /\ Start => TypeOK'
<1> SUFFICES ASSUME TypeOK, Start PROVE TypeOK'
  OBVIOUS
<1>0. Ranges' = Ranges /\ Tiles' = Tiles /\ Units' = Units
  BY DEF Start, Ranges, Tiles, Units
<1>1. PICK first \in Team :
        LET dealt(w) == IF Scoped THEN IF w <= Len(Units) THEN <<w, w>> ELSE NoLeaf
                        ELSE IF w = first /\ Units # <<>> THEN <<1, Len(Units)>> ELSE NoLeaf
        IN  /\ leaf' = [w \in Workers |-> dealt(w)]
            /\ pc' = [w \in Workers |-> IF dealt(w) = NoLeaf THEN "seek" ELSE "fresh"]
  BY DEF Start
<1> DEFINE dealt(w) == IF Scoped THEN IF w <= Len(Units) THEN <<w, w>> ELSE NoLeaf
                       ELSE IF w = first /\ Units # <<>> THEN <<1, Len(Units)>> ELSE NoLeaf
<1>2. /\ leaf' = [w \in Workers |-> dealt(w)]
      /\ pc' = [w \in Workers |-> IF dealt(w) = NoLeaf THEN "seek" ELSE "fresh"]
  BY <1>1
<1>3. ASSUME NEW w \in Workers PROVE dealt(w) \in Int \X Int /\ (dealt(w) # NoLeaf => dealt(w) \in Ranges)
  <2>1. w \in Nat \ {0}
    BY SchedulerAssumption DEF Workers
  <2>2. Units # <<>> => Len(Units) >= 1
    BY PlanFacts DEF Units
  <2> QED  BY <2>1, <2>2, PlanFacts DEF Ranges, NoLeaf
<1> HIDE DEF dealt
<1>4. /\ leaf' \in [Workers -> Int \X Int] /\ pc' \in [Workers -> Pcs]
      /\ \A w \in Workers : pc'[w] # "seek" => leaf'[w] \in Ranges'
      /\ \A w \in Workers : pc'[w] \in {"seek", "fresh"}
  BY <1>0, <1>2, <1>3 DEF Pcs
<1> QED  BY <1>0, <1>4 DEF TypeOK, Start

\* Split cuts a leaf into two that are not empty.
LEMMA SplitTypes == ASSUME TypeOK, NEW w \in Workers, Split(w) PROVE TypeOK'
<1> DEFINE first == leaf[w][1]
           last  == leaf[w][2]
           right == first + (last - first + 1) \div 2
<1>0. Ranges' = Ranges /\ Tiles' = Tiles /\ Units' = Units
  BY DEF Split, Ranges, Tiles, Units
<1>1. /\ first \in 1 .. Len(Units) /\ last \in 1 .. Len(Units) /\ first < last
      /\ Len(Units) \in Nat
  BY PlanFacts DEF Split, TypeOK, Ranges
<1>2. right \in Int /\ first < right /\ right <= last
  BY <1>1
<1>3. <<first, right - 1>> \in Ranges /\ <<right, last>> \in Ranges
  BY <1>1, <1>2 DEF Ranges
<1>4. Append(deque[w], <<right, last>>) \in Seq(Ranges)
  BY <1>3 DEF TypeOK
<1>5. /\ leaf' = [leaf EXCEPT ![w] = <<first, right - 1>>]
      /\ deque' = [deque EXCEPT ![w] = Append(deque[w], <<right, last>>)]
      /\ pc[w] = "fresh"
  BY DEF Split
<1>6. Ranges \subseteq Int \X Int
  BY PlanFacts DEF Ranges
<1> HIDE DEF first, last, right
<1>7. UNCHANGED <<plan, phase, pc, tile, full, failed, cancelled, stored, before>>
  BY DEF Split
<1>8. leaf' \in [Workers -> Int \X Int] /\ deque' \in [Workers -> Seq(Ranges)]
  BY <1>3, <1>4, <1>5, <1>6 DEF TypeOK
<1>9. \A v \in Workers : pc[v] # "seek" => leaf'[v] \in Ranges
  BY <1>3, <1>5 DEF TypeOK
<1>10. \A v \in Workers : pc[v] \notin {"seek", "fresh"} => tile[v] \in DOMAIN Units[leaf'[v][1]]
  BY <1>5 DEF TypeOK
<1> QED  BY <1>0, <1>7, <1>8, <1>9, <1>10 DEF TypeOK

\* A half taken back is a range of units.
LEMMA PopTypes == ASSUME TypeOK, NEW w \in Workers, Pop(w) PROVE TypeOK'
<1> DEFINE n == Len(deque[w])
<1>0. Ranges' = Ranges /\ Tiles' = Tiles /\ Units' = Units
  BY DEF Pop, Ranges, Tiles, Units
<1>1. deque[w] \in Seq(Ranges) /\ deque[w] # <<>> /\ n \in Nat \ {0}
  BY DEF Pop, TypeOK
<1>2. deque[w][n] \in Ranges /\ SubSeq(deque[w], 1, n - 1) \in Seq(Ranges)
  BY <1>1
<1>3. deque' = [deque EXCEPT ![w] = SubSeq(deque[w], 1, n - 1)]
  BY DEF Pop
<1> QED  BY <1>0, <1>2, <1>3, TakeLeafTypes DEF Pop, TypeOK

\* A stolen half is a range of units.
LEMMA StealTypes == ASSUME TypeOK, NEW w \in Workers, NEW v \in Workers, Steal(w, v) PROVE TypeOK'
<1>0. Ranges' = Ranges /\ Tiles' = Tiles /\ Units' = Units
  BY DEF Steal, Ranges, Tiles, Units
<1>1. deque[v] \in Seq(Ranges) /\ deque[v] # <<>>
  BY DEF Steal, TypeOK
<1>2. Head(deque[v]) \in Ranges /\ Tail(deque[v]) \in Seq(Ranges)
  BY <1>1
<1>3. deque' = [deque EXCEPT ![v] = Tail(deque[v])]
  BY DEF Steal
<1> QED  BY <1>0, <1>2, <1>3, TakeLeafTypes DEF Steal, TypeOK

\* Storing a tile leaves values of the right types.
LEMMA SinkOkTypes == ASSUME TypeOK, NEW w \in Workers, SinkOk(w) PROVE TypeOK'
<1>0. Ranges' = Ranges /\ Tiles' = Tiles /\ Units' = Units
  BY DEF SinkOk, Ranges, Tiles, Units
<1>1. Current(w) \in Tiles
  <2>1. leaf[w] \in Ranges /\ tile[w] \in DOMAIN Units[leaf[w][1]]
    BY DEF SinkOk, TypeOK
  <2>2. leaf[w][1] \in DOMAIN Units
    BY <2>1, PlanFacts DEF Ranges
  <2> QED  BY <2>1, <2>2 DEF Current, Tiles
<1>2. stored' \subseteq Tiles /\ IsFiniteSet(stored')
  BY <1>1, FS_AddElement DEF SinkOk, TypeOK
<1> QED  BY <1>0, <1>2, AdvanceTypes DEF SinkOk, TypeOK

\* Beginning a tile leaves values of the right types.
LEMMA BeginTypes == ASSUME TypeOK, NEW w \in Workers, Begin(w) PROVE TypeOK'
<1>0. Ranges' = Ranges /\ Tiles' = Tiles /\ Units' = Units
  BY DEF Begin, Ranges, Tiles, Units
<1>1. 1 \in DOMAIN Units[leaf[w][1]]
  <2>1. leaf[w] \in Ranges
    BY DEF Begin, TypeOK
  <2>2. leaf[w][1] \in DOMAIN Units
    BY <2>1, PlanFacts DEF Ranges
  <2> QED  BY <2>2, PlanFacts
<1>2. /\ pc' = [pc EXCEPT ![w] = "check"] /\ tile' = [tile EXCEPT ![w] = 1]
      /\ leaf' = leaf /\ pc[w] = "fresh"
  BY DEF Begin
<1>3. pc' \in [Workers -> Pcs] /\ tile' \in [Workers -> Nat]
  BY <1>2 DEF TypeOK, Pcs
<1> QED  BY <1>0, <1>1, <1>2, <1>3 DEF Begin, TypeOK

\* No step of a run breaks the types.
LEMMA TypesKept == TypeOK /\ [Next]_schedVars => TypeOK'
<1> SUFFICES ASSUME TypeOK, [Next]_schedVars PROVE TypeOK'
  OBVIOUS
<1>1. CASE Start
  BY <1>1, StartTypes
<1>2. CASE Refuse \/ Return \/ UNCHANGED schedVars
  BY <1>2 DEF Refuse, Return, schedVars, handVars, TypeOK, Ranges, Tiles, Units
<1>3. CASE Cancel
  BY <1>3, FS_CardinalityType DEF Cancel, handVars, TypeOK, Ranges, Tiles, Units
<1>4. ASSUME NEW w \in Workers, WorkerStep(w) PROVE TypeOK'
  <2>1. CASE \E v \in Workers : Pop(w) \/ Steal(w, v)
    BY <2>1, PopTypes, StealTypes
  <2>2. CASE Split(w) \/ Begin(w)
    BY <2>2, SplitTypes, BeginTypes
  <2>3. CASE SkipWhenFull(w) \/ ExecutePanics(w)
    <3>1. DropLeaf(w) /\ UNCHANGED <<plan, stored>>
      BY <2>3 DEF SkipWhenFull, ExecutePanics
    <3>2. Ranges' = Ranges /\ Tiles' = Tiles /\ UNCHANGED <<phase, deque, full, cancelled, before>> /\ failed' \in BOOLEAN
      BY <2>3 DEF SkipWhenFull, ExecutePanics, Ranges, Tiles, Units, TypeOK
    <3> QED  BY <3>1, <3>2, DropLeafTypes DEF TypeOK
  <2>4. CASE ObserveCancel(w) \/ ExecuteFails(w) \/ SinkErr(w)
    BY <2>4, FailTypes DEF ObserveCancel, ExecuteFails, SinkErr
  <2>5. CASE PassToken(w) \/ Execute(w) \/ CallSink(w)
    BY <2>5, MoveTypes DEF PassToken, Execute, CallSink, Pcs
  <2>6. CASE SinkOk(w)
    BY <2>6, SinkOkTypes
  <2> QED  BY <1>4, <2>1, <2>2, <2>3, <2>4, <2>5, <2>6 DEF WorkerStep, Scheduling
<1> QED  BY <1>1, <1>2, <1>3, <1>4 DEF Next, Master

\* A run starts with the right types.
LEMMA InitTypes == Init => TypeOK /\ PhasesAgree
<1> SUFFICES ASSUME Init PROVE TypeOK /\ PhasesAgree
  OBVIOUS
<1>1. NoLeaf \in Int \X Int
  BY DEF NoLeaf
<1>2. IsFiniteSet(stored)
  BY FS_EmptySet DEF Init
<1>3. deque \in [Workers -> Seq(Ranges)] /\ \A w \in Workers : deque[w] = <<>>
  BY DEF Init
<1>4. /\ pc \in [Workers -> Pcs] /\ \A w \in Workers : pc[w] = "seek"
      /\ leaf \in [Workers -> Int \X Int] /\ tile \in [Workers -> Nat]
  BY <1>1 DEF Init, Pcs
<1> QED  BY <1>2, <1>3, <1>4 DEF Init, TypeOK, PhasesAgree, NothingLeft

\* No step breaks the agreement of the phases of workers and run.
LEMMA PhasesKept == TypeOK /\ PhasesAgree /\ [Next]_schedVars => PhasesAgree'
<1> SUFFICES ASSUME TypeOK, PhasesAgree, [Next]_schedVars PROVE PhasesAgree'
  OBVIOUS
<1>1. CASE Start
  BY <1>1 DEF Start, PhasesAgree
<1>2. CASE Refuse \/ Return \/ Cancel \/ UNCHANGED schedVars
  BY <1>2 DEF Refuse, Return, Cancel, schedVars, handVars, PhasesAgree, NothingLeft
<1>3. ASSUME NEW w \in Workers, WorkerStep(w) PROVE PhasesAgree'
  <2>1. phase = "running"
    BY <1>3 DEF PhasesAgree, NothingLeft, WorkerStep, Scheduling, Pop, Steal, SkipWhenFull, Split, Begin,
       PassToken, ObserveCancel, Execute, ExecuteFails, ExecutePanics, CallSink, SinkOk, SinkErr
  <2>2. phase' = phase /\ (full' => failed')
    BY <1>3 DEF PhasesAgree, WorkerStep, Scheduling, Pop, Steal, SkipWhenFull, Split, Begin,
       PassToken, ObserveCancel, Execute, ExecuteFails, ExecutePanics, CallSink, SinkOk, SinkErr, Fail
  <2> QED  BY <2>1, <2>2 DEF PhasesAgree
<1> QED  BY <1>1, <1>2, <1>3 DEF Next, Master

-----------------------------------------------------------------------------
(* Tiles stay in one place.                                                *)

\* The numbers in a tile.
LEMMA TileNumbers ==
    ASSUME TypeOK, NEW t \in Tiles
    PROVE  /\ t = <<t[1], t[2]>> /\ t[1] \in 1 .. Len(Units) /\ t[1] \in Int
           /\ t[2] \in 1 .. Len(Units[t[1]]) /\ t[2] \in Int
<1>1. t = <<t[1], t[2]>> /\ t[1] \in DOMAIN Units /\ t[2] \in DOMAIN Units[t[1]]
  BY TilesArePairs
<1> QED  BY <1>1, PlanFacts

\* If each place after a step has tiles of one place before it, and places
\* that share that place share the tiles too, then tiles stay in one place.
LEMMA PlacesSplit ==
    ASSUME OnePlace, NEW f,
           \A p \in Places' : f[p] \in Places /\ TilesAt(p)' \subseteq TilesAt(f[p]),
           \A p, q \in Places' : p # q /\ f[p] = f[q] => TilesAt(p)' \cap TilesAt(q)' = {},
           \A p \in Places' : TilesAt(p)' \cap stored' = {}
    PROVE  OnePlace'
<1>1. ASSUME NEW p \in Places', NEW q \in Places', p # q
      PROVE  TilesAt(p)' \cap TilesAt(q)' = {}
  <2>1. CASE f[p] = f[q]
    BY <1>1, <2>1
  <2>2. CASE f[p] # f[q]
    <3>1. TilesAt(f[p]) \cap TilesAt(f[q]) = {}
      BY <2>2 DEF OnePlace
    <3> QED  BY <3>1
  <2> QED  BY <2>1, <2>2
<1> QED  BY <1>1 DEF OnePlace

\* A step in which only one worker's hand changes, and gains nothing.
LEMMA HandShrinks ==
    ASSUME TypeOK, OnePlace, NEW w \in Workers, UNCHANGED <<plan, deque>>,
           \A v \in Workers : v # w => Held(v)' = Held(v),
           Held(w)' \subseteq Held(w),
           \A p \in Places : TilesAt(p)' \cap stored' = {}
    PROVE  OnePlace'
<1>1. Places' = Places
  BY DEF Places
<1>2. \A p \in Places : TilesAt(p)' \subseteq TilesAt(p)
  <2>1. ASSUME NEW p \in Places PROVE TilesAt(p)' \subseteq TilesAt(p)
    <3>1. p[1] \in Workers
      BY DEF Places
    <3>2. CASE p[2] = 0
      BY <3>1, <3>2 DEF TilesAt
    <3>3. CASE p[2] # 0
      BY <3>3 DEF TilesAt, Queued, TilesFrom, Tiles, Units
    <3> QED  BY <3>2, <3>3
  <2> QED  BY <2>1
<1> DEFINE f == [p \in Places |-> p]
<1>3. \A p \in Places' : f[p] = p
  BY <1>1
<1> HIDE DEF f
<1>4. \A p \in Places' : f[p] \in Places /\ TilesAt(p)' \subseteq TilesAt(f[p])
  BY <1>1, <1>2, <1>3
<1>5. \A p, q \in Places' : p # q /\ f[p] = f[q] => TilesAt(p)' \cap TilesAt(q)' = {}
  BY <1>3
<1>6. \A p \in Places' : TilesAt(p)' \cap stored' = {}
  BY <1>1
<1> QED  BY <1>4, <1>5, <1>6, PlacesSplit

\* The same with the sink's contents unchanged.
LEMMA HandGivesUp ==
    ASSUME TypeOK, OnePlace, NEW w \in Workers, UNCHANGED <<plan, deque, stored>>,
           \A v \in Workers : v # w => Held(v)' = Held(v),
           Held(w)' \subseteq Held(w)
    PROVE  OnePlace'
<1>1. ASSUME NEW p \in Places PROVE TilesAt(p)' \cap stored' = {}
  <2>1. p[1] \in Workers
    BY DEF Places
  <2>2. TilesAt(p)' \subseteq TilesAt(p)
    <3>1. CASE p[2] = 0
      BY <2>1, <3>1 DEF TilesAt
    <3>2. CASE p[2] # 0
      BY <3>2 DEF TilesAt, Queued, TilesFrom, Tiles, Units
    <3> QED  BY <3>1, <3>2
  <2> QED  BY <2>2 DEF OnePlace
<1> QED  BY <1>1, HandShrinks

\* A worker that only moves on, without touching the work.
LEMMA MovesHold ==
    ASSUME TypeOK, NEW w \in Workers, UNCHANGED <<plan, leaf>>,
           \/ /\ Begin(w)
           \/ /\ pc[w] \notin {"seek", "fresh"} /\ pc'[w] \notin {"seek", "fresh"}
              /\ tile' = tile /\ pc' = [pc EXCEPT ![w] = pc'[w]]
    PROVE  \A v \in Workers : Held(v)' = Held(v)
<1>1. Tiles' = Tiles
  BY DEF Tiles, Units
<1>2. CASE Begin(w)
  <2>1. /\ pc' = [pc EXCEPT ![w] = "check"] /\ tile' = [tile EXCEPT ![w] = 1]
        /\ pc[w] = "fresh"
    BY <1>2 DEF Begin
  <2> QED  BY <1>1, <2>1 DEF Held, TilesFrom, TypeOK
<1>3. CASE /\ pc[w] \notin {"seek", "fresh"} /\ pc'[w] \notin {"seek", "fresh"}
           /\ tile' = tile /\ pc' = [pc EXCEPT ![w] = pc'[w]]
  <2>1. ASSUME NEW v \in Workers
        PROVE  (pc'[v] = "seek" <=> pc[v] = "seek") /\ (pc'[v] = "fresh" <=> pc[v] = "fresh")
    BY <1>3 DEF TypeOK
  <2> QED  BY <1>1, <1>3, <2>1 DEF Held, TilesFrom
<1> QED  BY <1>2, <1>3

\* What a worker drops or fails, it held.
LEMMA DropsHold ==
    ASSUME TypeOK, NEW w \in Workers, DropLeaf(w), UNCHANGED plan
    PROVE  Held(w)' = {} /\ \A v \in Workers : v # w => Held(v)' = Held(v)
<1>1. Tiles' = Tiles
  BY DEF Tiles, Units
<1> QED  BY <1>1 DEF DropLeaf, Held, TilesFrom, TypeOK

\* What a worker holds when the sink has taken its tile.
LEMMA AdvanceHolds ==
    ASSUME TypeOK, NEW w \in Workers, Advance(w), pc[w] = "writing", UNCHANGED plan
    PROVE  /\ Current(w) \in Held(w)
           /\ Held(w)' \subseteq Held(w) \ {Current(w)}
           /\ ~full => Held(w) \subseteq Held(w)' \cup {Current(w)}
           /\ \A v \in Workers : v # w => Held(v)' = Held(v)
<1>0. Tiles' = Tiles /\ Units' = Units
  BY DEF Tiles, Units
<1> DEFINE first == leaf[w][1]
           last  == leaf[w][2]
           k     == tile[w]
<1>1. /\ first \in 1 .. Len(Units) /\ last \in 1 .. Len(Units) /\ first <= last
      /\ leaf[w] = <<first, last>> /\ first \in DOMAIN Units /\ k \in DOMAIN Units[first]
  <2>1. leaf[w] \in Ranges /\ k \in DOMAIN Units[first]
    BY DEF TypeOK
  <2> QED  BY <2>1, PlanFacts DEF Ranges
<1>2. k \in 1 .. Len(Units[first]) /\ Len(Units[first]) \in Nat /\ Len(Units) \in Nat
  BY <1>1, PlanFacts
<1>3. Current(w) = <<first, k>> /\ Current(w) \in Tiles
  BY <1>1 DEF Current, Tiles
<1>4. Held(w) = { t \in Tiles : first <= t[1] /\ t[1] <= last /\ (t[1] = first => t[2] >= k) }
  BY DEF Held, TilesFrom
<1> HIDE DEF first, last, k
<1>5. Current(w) \in Held(w)
  BY <1>1, <1>2, <1>3, <1>4
<1>6. \A t \in Tiles : t = Current(w) <=> t[1] = first /\ t[2] = k
  BY <1>3, TileNumbers
<1>7. CASE k < Len(Units[first])
  <2>1. /\ pc' = [pc EXCEPT ![w] = "check"] /\ tile' = [tile EXCEPT ![w] = k + 1] /\ leaf' = leaf
    BY <1>7 DEF Advance, first, k
  <2>2. Held(w)' = { t \in Tiles : first <= t[1] /\ t[1] <= last /\ (t[1] = first => t[2] >= k + 1) }
    BY <1>0, <2>1 DEF Held, TilesFrom, TypeOK, first, last
  <2>3. \A v \in Workers : v # w => Held(v)' = Held(v)
    BY <1>0, <2>1 DEF Held, TilesFrom, TypeOK
  <2>4. ASSUME NEW t \in Tiles
        PROVE  /\ t \in Held(w)' => t \in Held(w) /\ t # Current(w)
               /\ t \in Held(w) => t \in Held(w)' \/ t = Current(w)
    BY <1>2, <1>4, <1>6, <2>2, TileNumbers
  <2>5. Held(w)' \subseteq Tiles /\ Held(w) \subseteq Tiles
    BY <1>4, <2>2
  <2> QED  BY <1>5, <2>3, <2>4, <2>5
<1>8. CASE ~(k < Len(Units[first])) /\ first < last /\ ~full
  <2>1. /\ pc' = [pc EXCEPT ![w] = "check"] /\ tile' = [tile EXCEPT ![w] = 1]
        /\ leaf' = [leaf EXCEPT ![w][1] = first + 1]
    BY <1>8 DEF Advance, first, last, k
  <2>2. leaf' = [leaf EXCEPT ![w] = <<first + 1, last>>]
    <3>1. [leaf[w] EXCEPT ![1] = first + 1] = <<first + 1, last>>
      BY <1>1
    <3> QED  BY <2>1, <3>1 DEF TypeOK
  <2>3. Held(w)' = { t \in Tiles : first + 1 <= t[1] /\ t[1] <= last /\ (t[1] = first + 1 => t[2] >= 1) }
    <3>1. pc'[w] = "check" /\ tile'[w] = 1 /\ leaf'[w] = <<first + 1, last>>
      BY <2>1, <2>2 DEF TypeOK
    <3>2. Held(w)' = { t \in Tiles : leaf'[w][1] <= t[1] /\ t[1] <= leaf'[w][2]
                                     /\ (t[1] = leaf'[w][1] => t[2] >= tile'[w]) }
      BY <1>0, <3>1 DEF Held, TilesFrom
    <3> QED  BY <3>1, <3>2
  <2>4. \A v \in Workers : v # w => Held(v)' = Held(v)
    BY <1>0, <2>1, <2>2 DEF Held, TilesFrom, TypeOK
  <2>5. k = Len(Units[first])
    BY <1>2, <1>8
  <2>6. ASSUME NEW t \in Tiles
        PROVE  /\ t \in Held(w)' => t \in Held(w) /\ t # Current(w)
               /\ t \in Held(w) => t \in Held(w)' \/ t = Current(w)
    <3>1. /\ t[1] \in Int /\ t[2] \in Int /\ t[2] >= 1
          /\ first \in Int /\ last \in Int /\ k \in Int
          /\ t[1] = first => t[2] <= k
      BY <1>1, <1>2, <2>5, TileNumbers
    <3> QED  BY <3>1, <1>4, <1>6, <2>3
  <2>7. Held(w)' \subseteq Tiles /\ Held(w) \subseteq Tiles
    BY <1>4, <2>3
  <2> QED  BY <1>5, <2>4, <2>6, <2>7
<1>9. CASE ~(k < Len(Units[first])) /\ ~(first < last /\ ~full)
  <2>1. DropLeaf(w)
    BY <1>9 DEF Advance, first, last, k
  <2>2. Held(w)' = {} /\ \A v \in Workers : v # w => Held(v)' = Held(v)
    BY <2>1, DropsHold
  <2>3. ASSUME ~full, NEW t \in Held(w) PROVE t = Current(w)
    <3>1. first = last /\ k = Len(Units[first])
      BY <1>1, <1>2, <1>9, <2>3
    <3>2. t \in Tiles /\ t[1] \in Int /\ t[2] \in 1 .. Len(Units[t[1]])
      BY <1>4, TileNumbers
    <3>3. t[1] = first
      BY <1>1, <1>4, <3>1, <3>2
    <3>4. t[2] = k
      BY <1>2, <1>4, <3>1, <3>2, <3>3
    <3> QED  BY <1>6, <3>2, <3>3, <3>4
  <2> QED  BY <1>5, <2>2, <2>3
<1> QED  BY <1>7, <1>8, <1>9

\* What is queued depends on the worker's halves alone.
LEMMA QueuedHolds ==
    ASSUME UNCHANGED plan, NEW u, NEW i, NEW v, NEW j, deque'[u][i] = deque[v][j]
    PROVE  Queued(u, i)' = Queued(v, j)
  BY DEF Queued, TilesFrom, Tiles, Units

\* A worker without a leaf in hand takes a half, its own or another's.
LEMMA TakeHolds ==
    ASSUME TypeOK, NEW w \in Workers, NEW v \in Workers, NEW i \in DOMAIN deque[v],
           TakeLeaf(w, deque[v][i]), UNCHANGED <<plan, tile>>
    PROVE  /\ Held(w)' = Queued(v, i)
           /\ \A x \in Workers : x # w => Held(x)' = Held(x)
<1>1. Tiles' = Tiles
  BY DEF Tiles, Units
<1>2. /\ leaf' = [leaf EXCEPT ![w] = deque[v][i]]
      /\ pc' = [pc EXCEPT ![w] = "fresh"]
  BY DEF TakeLeaf
<1>3. pc'[w] = "fresh" /\ leaf'[w] = deque[v][i]
  BY <1>2 DEF TypeOK
<1>4. Held(w)' = Queued(v, i)
  BY <1>1, <1>3 DEF Held, Queued, TilesFrom
<1>5. \A x \in Workers : x # w => Held(x)' = Held(x)
  BY <1>1, <1>2 DEF Held, TilesFrom, TypeOK
<1> QED  BY <1>4, <1>5

\* Popping and stealing: the half that goes, as its place among the others.
LEMMA TakesKeepPlaces ==
    ASSUME TypeOK, OnePlace, NEW w \in Workers, NEW v \in Workers, NEW i \in DOMAIN deque[v],
           pc[w] = "seek", TakeLeaf(w, deque[v][i]), UNCHANGED <<plan, tile, stored, phase>>,
           \A x \in Workers \ {v} : deque'[x] = deque[x],
           \/ i = Len(deque[v]) /\ deque'[v] = SubSeq(deque[v], 1, Len(deque[v]) - 1)
           \/ i = 1 /\ deque'[v] = Tail(deque[v])
    PROVE  OnePlace' /\ (SomePlace /\ failed' = failed => SomePlace')
<1> DEFINE n == Len(deque[v])
           source(p) == IF p[2] = 0 THEN IF p[1] = w THEN <<v, i>> ELSE p
                        ELSE IF p[1] = v /\ i # n THEN <<v, p[2] + 1>> ELSE p
           f == [p \in Places' |-> source(p)]
<1>1. Tiles' = Tiles /\ Held(w) = {}
  BY DEF Tiles, Units, Held
<1>2. /\ n \in Nat \ {0} /\ i \in 1 .. n /\ i \in Nat \ {0}
      /\ \A x \in Workers : /\ Len(deque[x]) \in Nat /\ DOMAIN deque[x] = 1 .. Len(deque[x])
  BY DEF TypeOK
<1>3. /\ Held(w)' = Queued(v, i)
      /\ \A x \in Workers : x # w => Held(x)' = Held(x)
  BY TakeHolds
<1>4. /\ DOMAIN deque'[v] = 1 .. n - 1
      /\ \A j \in 1 .. n - 1 : deque'[v][j] = IF i = n THEN deque[v][j] ELSE deque[v][j + 1]
  <2>1. deque[v] \in Seq(Ranges) /\ deque[v] # <<>>
    BY <1>2 DEF TypeOK
  <2>2. CASE deque'[v] = SubSeq(deque[v], 1, n - 1) /\ i = n
    BY <1>2, <2>1, <2>2
  <2>3. CASE deque'[v] = Tail(deque[v]) /\ i = 1
    <3>1. n = 1 => 1 .. n - 1 = {}
      BY <1>2
    <3>2. Len(Tail(deque[v])) = n - 1 /\ \A j \in 1 .. n - 1 : Tail(deque[v])[j] = deque[v][j + 1]
      BY <1>2, <2>1
    <3>3. Tail(deque[v]) \in Seq(Ranges)
      BY <2>1
    <3>4. DOMAIN Tail(deque[v]) = 1 .. n - 1
      BY <3>2, <3>3
    <3> QED  BY <2>3, <3>1, <3>2, <3>4
  <2> QED  BY <2>2, <2>3
<1>5. \A x \in Workers : x # v => DOMAIN deque'[x] = DOMAIN deque[x]
  OBVIOUS
<1>6. ASSUME NEW p \in Places'
      PROVE  /\ source(p) \in Places
             /\ TilesAt(p)' = TilesAt(source(p))
  <2>1. p[1] \in Workers /\ p[2] \in Nat /\ p = <<p[1], p[2]>>
        /\ (p[2] # 0 => p[2] \in DOMAIN deque'[p[1]])
    BY DEF Places
  <2>2. CASE p[2] = 0 /\ p[1] = w
    <3>1. source(p) = <<v, i>> /\ <<v, i>> \in Places
      BY <1>2, <2>2 DEF Places
    <3>2. TilesAt(p)' = Held(w)' /\ TilesAt(<<v, i>>) = Queued(v, i)
      BY <1>2, <2>2 DEF TilesAt
    <3> QED  BY <3>1, <3>2, <1>3
  <2>3. CASE p[2] = 0 /\ p[1] # w
    BY <1>3, <2>1, <2>3 DEF Places, TilesAt
  <2>4. CASE p[2] # 0 /\ p[1] # v
    <3>1. source(p) = p /\ p \in Places
      BY <1>5, <2>1, <2>4 DEF Places
    <3>2. Queued(p[1], p[2])' = Queued(p[1], p[2])
      BY <2>1, <2>4, QueuedHolds
    <3> QED  BY <2>4, <3>1, <3>2 DEF TilesAt
  <2>5. CASE p[2] # 0 /\ p[1] = v /\ i = n
    <3>1. p[2] \in 1 .. n - 1 /\ deque'[v][p[2]] = deque[v][p[2]]
      BY <1>4, <2>1, <2>5
    <3>2. source(p) = p /\ p \in Places
      BY <1>2, <2>1, <2>5, <3>1 DEF Places
    <3>3. Queued(p[1], p[2])' = Queued(p[1], p[2])
      BY <2>5, <3>1, QueuedHolds
    <3> QED  BY <2>5, <3>2, <3>3 DEF TilesAt
  <2>6. CASE p[2] # 0 /\ p[1] = v /\ i # n
    <3>1. p[2] \in 1 .. n - 1 /\ deque'[v][p[2]] = deque[v][p[2] + 1]
      BY <1>4, <2>1, <2>6
    <3>2. p[2] + 1 \in DOMAIN deque[v] /\ p[2] + 1 # 0 /\ p[2] + 1 \in Nat
      BY <1>2, <3>1
    <3>3. source(p) = <<v, p[2] + 1>> /\ source(p) \in Places
      BY <2>6, <3>2 DEF Places
    <3>4. Queued(v, p[2])' = Queued(v, p[2] + 1)
      BY <3>1, QueuedHolds
    <3>5. TilesAt(source(p)) = Queued(v, p[2] + 1)
      BY <3>2, <3>3 DEF TilesAt
    <3> QED  BY <2>6, <3>3, <3>4, <3>5 DEF TilesAt
  <2> QED  BY <2>2, <2>3, <2>4, <2>5, <2>6
<1>7. ASSUME NEW p \in Places', NEW q \in Places', source(p) = source(q)
      PROVE  p = q
  <2>1. /\ p[1] \in Workers /\ p[2] \in Nat /\ p = <<p[1], p[2]>>
        /\ q[1] \in Workers /\ q[2] \in Nat /\ q = <<q[1], q[2]>>
        /\ (p[2] # 0 => p[2] \in DOMAIN deque'[p[1]])
        /\ (q[2] # 0 => q[2] \in DOMAIN deque'[q[1]])
    BY DEF Places
  <2>2. /\ p[2] # 0 /\ p[1] = v => p[2] \in 1 .. n - 1
        /\ q[2] # 0 /\ q[1] = v => q[2] \in 1 .. n - 1
    BY <1>4, <2>1
  <2>3. i = n \/ i = 1
    OBVIOUS
  <2>4. CASE p[2] = 0 /\ q[2] = 0
    BY <1>2, <1>7, <2>1, <2>4
  <2>5. CASE p[2] # 0 /\ q[2] # 0
    BY <1>2, <1>7, <2>1, <2>2, <2>5
  <2>6. CASE p[2] = 0 /\ q[2] # 0
    BY <1>2, <1>7, <2>1, <2>2, <2>3, <2>6
  <2>7. CASE p[2] # 0 /\ q[2] = 0
    BY <1>2, <1>7, <2>1, <2>2, <2>3, <2>7
  <2> QED  BY <2>4, <2>5, <2>6, <2>7
<1>8. \A p \in Places' : f[p] = source(p)
  OBVIOUS
<1> HIDE DEF f, source
<1>9. OnePlace'
  <2>1. \A p \in Places' : f[p] \in Places /\ TilesAt(p)' \subseteq TilesAt(f[p])
    BY <1>6, <1>8
  <2>2. \A p, q \in Places' : p # q /\ f[p] = f[q] => TilesAt(p)' \cap TilesAt(q)' = {}
    BY <1>7, <1>8
  <2>3. \A p \in Places' : TilesAt(p)' \cap stored' = {}
    BY <1>6 DEF OnePlace
  <2> QED  BY <2>1, <2>2, <2>3, PlacesSplit
<1>10. ASSUME NEW t, NEW p \in Places, t \in TilesAt(p) PROVE \E q \in Places' : t \in TilesAt(q)'
  <2>1. /\ p[1] \in Workers /\ p[2] \in Nat /\ p = <<p[1], p[2]>>
        /\ (p[2] # 0 => p[2] \in DOMAIN deque[p[1]])
    BY DEF Places
  <2>2. CASE p = <<v, i>>
    <3>1. <<w, 0>> \in Places' /\ TilesAt(<<w, 0>>)' = Held(w)'
      BY DEF Places, TilesAt
    <3>2. TilesAt(p) = Queued(v, i)
      BY <1>2, <2>2 DEF TilesAt
    <3> QED  BY <1>3, <1>10, <3>1, <3>2
  <2>3. CASE p[2] = 0
    <3>1. p[1] # w
      BY <1>1, <1>10, <2>3 DEF TilesAt
    <3>2. p \in Places' /\ TilesAt(p)' = TilesAt(p)
      BY <1>3, <2>1, <2>3, <3>1 DEF Places, TilesAt
    <3> QED  BY <1>10, <3>2
  <2>4. CASE p[2] # 0 /\ p[1] # v
    <3>1. p \in Places'
      BY <1>5, <2>1, <2>4 DEF Places
    <3>2. Queued(p[1], p[2])' = Queued(p[1], p[2])
      BY <2>1, <2>4, QueuedHolds
    <3> QED  BY <1>10, <2>4, <3>1, <3>2 DEF TilesAt
  <2>5. CASE p[2] # 0 /\ p[1] = v /\ p # <<v, i>> /\ i = n
    <3>1. p[2] \in 1 .. n - 1
      BY <1>2, <2>1, <2>5
    <3>2. p \in Places' /\ deque'[v][p[2]] = deque[v][p[2]]
      BY <1>4, <2>1, <2>5, <3>1 DEF Places
    <3>3. Queued(v, p[2])' = Queued(v, p[2])
      BY <3>2, QueuedHolds
    <3> QED  BY <1>10, <2>5, <3>2, <3>3 DEF TilesAt
  <2>6. CASE p[2] # 0 /\ p[1] = v /\ p # <<v, i>> /\ i # n
    <3>1. i = 1 /\ p[2] - 1 \in 1 .. n - 1 /\ p[2] - 1 \in Nat /\ p[2] - 1 # 0 /\ (p[2] - 1) + 1 = p[2]
      BY <1>2, <2>1, <2>6
    <3>2. deque'[v][p[2] - 1] = deque[v][p[2]] /\ p[2] - 1 \in DOMAIN deque'[v]
      BY <1>4, <2>6, <3>1
    <3>3. <<v, p[2] - 1>> \in Places' /\ TilesAt(<<v, p[2] - 1>>)' = Queued(v, p[2] - 1)'
      BY <3>1, <3>2 DEF Places, TilesAt
    <3>4. Queued(v, p[2] - 1)' = Queued(v, p[2])
      BY <3>2, QueuedHolds
    <3> QED  BY <1>10, <2>6, <3>3, <3>4 DEF TilesAt
  <2> QED  BY <2>1, <2>2, <2>3, <2>4, <2>5, <2>6
<1>11. SomePlace /\ failed' = failed => SomePlace'
  BY <1>1, <1>10 DEF SomePlace
<1> QED  BY <1>9, <1>11

\* Taking a half back moves its tiles from the deque to the hand.
LEMMA PopKeepsPlaces ==
    ASSUME TypeOK, OnePlace, NEW w \in Workers, Pop(w)
    PROVE  OnePlace' /\ (SomePlace => SomePlace')
<1>1. Len(deque[w]) \in DOMAIN deque[w]
  BY DEF Pop, TypeOK
<1>2. /\ pc[w] = "seek" /\ TakeLeaf(w, deque[w][Len(deque[w])])
      /\ UNCHANGED <<plan, tile, stored, phase>> /\ failed' = failed
      /\ deque' = [deque EXCEPT ![w] = SubSeq(deque[w], 1, Len(deque[w]) - 1)]
  BY DEF Pop
<1>3. /\ \A x \in Workers \ {w} : deque'[x] = deque[x]
      /\ deque'[w] = SubSeq(deque[w], 1, Len(deque[w]) - 1)
  BY <1>2 DEF TypeOK
<1> QED  BY <1>1, <1>2, <1>3, TakesKeepPlaces

\* Stealing moves the tiles of a half to the hand of the thief.
LEMMA StealKeepsPlaces ==
    ASSUME TypeOK, OnePlace, NEW w \in Workers, NEW v \in Workers, Steal(w, v)
    PROVE  OnePlace' /\ (SomePlace => SomePlace')
<1>1. 1 \in DOMAIN deque[v] /\ Head(deque[v]) = deque[v][1]
  BY DEF Steal, TypeOK
<1>2. /\ pc[w] = "seek" /\ TakeLeaf(w, deque[v][1])
      /\ UNCHANGED <<plan, tile, stored, phase>> /\ failed' = failed
      /\ deque' = [deque EXCEPT ![v] = Tail(deque[v])]
  BY <1>1 DEF Steal
<1>3. /\ \A x \in Workers \ {v} : deque'[x] = deque[x]
      /\ deque'[v] = Tail(deque[v])
  BY <1>2 DEF TypeOK
<1> QED  BY <1>1, <1>2, <1>3, TakesKeepPlaces

\* Splitting moves the tiles of the right half to the deque.
LEMMA SplitKeepsPlaces ==
    ASSUME TypeOK, OnePlace, NEW w \in Workers, Split(w)
    PROVE  OnePlace' /\ (SomePlace => SomePlace')
<1> DEFINE first == leaf[w][1]
           last  == leaf[w][2]
           right == first + (last - first + 1) \div 2
<1>0. PICK n \in Nat : n = Len(deque[w])
  BY DEF TypeOK
<1> DEFINE new == <<w, n + 1>>
<1>1. /\ first \in 1 .. Len(Units) /\ last \in 1 .. Len(Units) /\ first < last
      /\ Len(Units) \in Nat
  BY PlanFacts DEF Split, TypeOK, Ranges
<1>2. right \in Int /\ first \in Int /\ last \in Int /\ first < right /\ right <= last
  BY <1>1
<1>3. /\ leaf' = [leaf EXCEPT ![w] = <<first, right - 1>>]
      /\ deque' = [deque EXCEPT ![w] = Append(deque[w], <<right, last>>)]
      /\ pc[w] = "fresh" /\ UNCHANGED <<plan, phase, pc, tile, failed, stored>>
  BY DEF Split
<1>4. Tiles' = Tiles
  BY <1>3 DEF Tiles, Units
<1>5. Held(w) = { t \in Tiles : first <= t[1] /\ t[1] <= last /\ (t[1] = first => t[2] >= 1) }
  BY <1>3 DEF Held, TilesFrom
<1> HIDE DEF first, last, right
<1>6. /\ deque[w] \in Seq(Ranges) /\ DOMAIN deque[w] = 1 .. n
      /\ \A x \in Workers : DOMAIN deque[x] \subseteq Nat \ {0}
  BY <1>0 DEF TypeOK
<1>7. /\ DOMAIN deque'[w] = 1 .. n + 1 /\ deque'[w][n + 1] = <<right, last>>
      /\ \A j \in 1 .. n : deque'[w][j] = deque[w][j]
      /\ \A x \in Workers : x # w => deque'[x] = deque[x]
  BY <1>0, <1>3, <1>6 DEF TypeOK
<1>8. Held(w)' = { t \in Tiles : first <= t[1] /\ t[1] <= right - 1 /\ (t[1] = first => t[2] >= 1) }
  <2>1. leaf'[w] = <<first, right - 1>>
    BY <1>3 DEF TypeOK
  <2> QED  BY <1>3, <1>4, <2>1 DEF Held, TilesFrom
<1>9. Queued(w, n + 1)' = { t \in Tiles : right <= t[1] /\ t[1] <= last /\ (t[1] = right => t[2] >= 1) }
  BY <1>4, <1>7 DEF Queued, TilesFrom
<1>10. ASSUME NEW t \in Tiles
       PROVE  /\ t \in Held(w)' => t \in Held(w) /\ t \notin Queued(w, n + 1)'
              /\ t \in Queued(w, n + 1)' => t \in Held(w)
              /\ t \in Held(w) => t \in Held(w)' \/ t \in Queued(w, n + 1)'
  BY <1>2, <1>5, <1>8, <1>9, TileNumbers
<1>11. \A x \in Workers : x # w => Held(x)' = Held(x)
  BY <1>3, <1>4 DEF Held, TilesFrom, TypeOK
<1>12. Places' = Places \cup {new} /\ <<w, 0>> \in Places /\ new \notin Places
       /\ TilesAt(<<w, 0>>) = Held(w) /\ TilesAt(<<w, 0>>)' = Held(w)' /\ TilesAt(new)' = Queued(w, n + 1)'
       /\ new # <<w, 0>>
  <2>1. new \in Workers \X Nat /\ n + 1 # 0 /\ n + 1 \notin 1 .. n
    BY <1>6
  <2>2. new \in Places' /\ new \notin Places
    BY <1>6, <1>7, <2>1 DEF Places
  <2>3. ASSUME NEW p \in Workers \X Nat, p # new PROVE p \in Places' <=> p \in Places
    <3>1. p = <<p[1], p[2]>> /\ p[1] \in Workers
      OBVIOUS
    <3>2. CASE p[1] # w
      BY <1>7, <3>1, <3>2 DEF Places
    <3>3. CASE p[1] = w
      <4>1. p[2] # n + 1
        BY <2>3, <3>1, <3>3
      <4>2. p[2] \in 1 .. n + 1 <=> p[2] \in 1 .. n
        BY <1>6, <4>1
      <4> QED  BY <1>6, <1>7, <3>3, <4>2 DEF Places
    <3> QED  BY <3>2, <3>3
  <2>4. Places \subseteq Workers \X Nat /\ Places' \subseteq Workers \X Nat
    BY DEF Places
  <2>5. <<w, 0>> \in Places
    BY DEF Places
  <2>6. Places' = Places \cup {new}
    BY <2>2, <2>3, <2>4
  <2> QED  BY <2>1, <2>2, <2>5, <2>6 DEF TilesAt
<1>13. ASSUME NEW p \in Places, p # <<w, 0>> PROVE TilesAt(p)' = TilesAt(p)
  <2>1. p[1] \in Workers /\ p = <<p[1], p[2]>> /\ (p[2] # 0 => p[2] \in DOMAIN deque[p[1]])
    BY DEF Places
  <2>2. CASE p[2] = 0
    <3>1. p[1] # w
      BY <1>13, <2>1, <2>2
    <3> QED  BY <1>11, <2>1, <2>2, <3>1 DEF TilesAt
  <2>3. CASE p[2] # 0
    <3>1. deque'[p[1]][p[2]] = deque[p[1]][p[2]]
      <4>1. CASE p[1] = w
        BY <1>6, <1>7, <2>1, <2>3, <4>1
      <4>2. CASE p[1] # w
        BY <1>7, <2>1, <4>2
      <4> QED  BY <4>1, <4>2
    <3>2. Queued(p[1], p[2])' = Queued(p[1], p[2])
      BY <1>4, <3>1 DEF Queued, TilesFrom
    <3> QED  BY <2>3, <3>2 DEF TilesAt
  <2> QED  BY <2>2, <2>3
<1> HIDE DEF new
<1>14. Held(w)' \subseteq Held(w) /\ Queued(w, n + 1)' \subseteq Held(w) /\ Held(w)' \cap Queued(w, n + 1)' = {}
       /\ Held(w) \subseteq Held(w)' \cup Queued(w, n + 1)'
  <2>1. Held(w) \subseteq Tiles /\ Held(w)' \subseteq Tiles /\ Queued(w, n + 1)' \subseteq Tiles
    BY <1>5, <1>8, <1>9
  <2> QED  BY <1>10, <2>1
<1> DEFINE f == [p \in Places' |-> IF p = new THEN <<w, 0>> ELSE p]
<1>15. \A p \in Places' : f[p] = IF p = new THEN <<w, 0>> ELSE p
  OBVIOUS
<1> HIDE DEF f
<1>16. OnePlace'
  <2>1. ASSUME NEW p \in Places' PROVE f[p] \in Places /\ TilesAt(p)' \subseteq TilesAt(f[p])
    BY <1>12, <1>13, <1>14, <1>15
  <2>2. ASSUME NEW p \in Places', NEW q \in Places', p # q, f[p] = f[q]
        PROVE  TilesAt(p)' \cap TilesAt(q)' = {}
    <3>1. (p = new /\ q = <<w, 0>>) \/ (p = <<w, 0>> /\ q = new)
      BY <1>12, <1>15, <2>2
    <3> QED  BY <1>12, <1>14, <3>1
  <2>3. \A p \in Places' : TilesAt(p)' \cap stored' = {}
    BY <2>1, <1>3 DEF OnePlace
  <2> QED  BY <2>1, <2>2, <2>3, PlacesSplit
<1>17. ASSUME NEW t, NEW p \in Places, t \in TilesAt(p) PROVE \E q \in Places' : t \in TilesAt(q)'
  BY <1>12, <1>13, <1>14, <1>17
<1> QED
  BY <1>3, <1>4, <1>16, <1>17 DEF SomePlace

\* Start gives every tile of the plan one place.
LEMMA StartPlaces ==
    ASSUME TypeOK, PhasesAgree, Start
    PROVE  OnePlace' /\ SomePlace'
<1>1. NothingLeft /\ stored' = {}
  BY DEF PhasesAgree, Start
<1>2. Tiles' = Tiles /\ Units' = Units /\ deque' = deque
  BY DEF Start, Tiles, Units
<1>3. \A x \in Workers : deque'[x] = <<>>
  BY <1>1, <1>2 DEF NothingLeft
<1>4. PICK first \in Team :
        LET dealt(w) == IF Scoped THEN IF w <= Len(Units) THEN <<w, w>> ELSE NoLeaf
                        ELSE IF w = first /\ Units # <<>> THEN <<1, Len(Units)>> ELSE NoLeaf
        IN  /\ leaf' = [w \in Workers |-> dealt(w)]
            /\ pc' = [w \in Workers |-> IF dealt(w) = NoLeaf THEN "seek" ELSE "fresh"]
  BY DEF Start
<1>5. \A w \in Workers : w \in Nat \ {0}
  BY SchedulerAssumption DEF Workers
<1>6. \A w \in Workers : <<w, w>> # NoLeaf
  BY <1>5 DEF NoLeaf
<1>7. Len(Units) \in Nat /\ (Units # <<>> => Len(Units) # 0) /\ (Len(Units) # 0 => <<1, Len(Units)>> # NoLeaf)
  BY PlanFacts DEF NoLeaf, Units
<1>8. Tiles # {} => Units # <<>>
  BY PlanFacts DEF Tiles
<1>9. ASSUME NEW w \in Workers, Scoped
      PROVE  Held(w)' = { t \in Tiles : t[1] = w }
  <2>1. CASE w <= Len(Units)
    <3>1. leaf'[w] = <<w, w>> /\ pc'[w] = "fresh"
      BY <1>4, <1>6, <1>9, <2>1
    <3>2. Held(w)' = { t \in Tiles : w <= t[1] /\ t[1] <= w /\ (t[1] = w => t[2] >= 1) }
      BY <1>2, <3>1 DEF Held, TilesFrom
    <3>3. \A t \in Tiles : (w <= t[1] /\ t[1] <= w /\ (t[1] = w => t[2] >= 1)) <=> t[1] = w
      <4>1. ASSUME NEW t \in Tiles
            PROVE (w <= t[1] /\ t[1] <= w /\ (t[1] = w => t[2] >= 1)) <=> t[1] = w
        <5>1. t[1] \in Int /\ t[2] \in Int /\ t[2] >= 1
          BY TileNumbers, PlanFacts
        <5> QED  BY <1>5, <5>1
      <4> QED  BY <4>1
    <3> QED  BY <3>2, <3>3
  <2>2. CASE ~(w <= Len(Units))
    <3>1. pc'[w] = "seek"
      BY <1>4, <1>9, <2>2
    <3>2. \A t \in Tiles : t[1] # w
      BY <1>5, <1>7, <2>2, TileNumbers
    <3> QED  BY <3>1, <3>2 DEF Held
  <2> QED  BY <2>1, <2>2
<1>10. ASSUME ~Scoped
       PROVE  /\ \A w \in Workers : w # first => Held(w)' = {}
              /\ first \in Workers /\ Held(first)' = Tiles
  <2>1. \A w \in Workers : w # first => pc'[w] = "seek"
    BY <1>4, <1>10
  <2>2. first \in Workers
    BY PlanFacts, SchedulerAssumption DEF Team, Workers
  <2>3. CASE Units # <<>>
    <3>1. leaf'[first] = <<1, Len(Units)>> /\ pc'[first] = "fresh"
      BY <1>4, <1>7, <1>10, <2>2, <2>3
    <3>2. Held(first)' = { t \in Tiles : 1 <= t[1] /\ t[1] <= Len(Units) /\ (t[1] = 1 => t[2] >= 1) }
      BY <1>2, <3>1 DEF Held, TilesFrom
    <3>3. \A t \in Tiles : 1 <= t[1] /\ t[1] <= Len(Units) /\ (t[1] = 1 => t[2] >= 1)
      BY TileNumbers, PlanFacts
    <3> QED  BY <2>1, <2>2, <3>2, <3>3 DEF Held
  <2>4. CASE Units = <<>>
    <3>1. pc'[first] = "seek"
      BY <1>4, <1>10, <2>2, <2>4
    <3> QED  BY <1>8, <2>1, <2>2, <2>4, <3>1 DEF Held
  <2> QED  BY <2>3, <2>4
<1>11. ASSUME NEW p \in Places' PROVE p[1] \in Workers /\ p = <<p[1], 0>> /\ TilesAt(p)' = Held(p[1])'
  BY <1>3 DEF Places, TilesAt
<1>12. \A w \in Workers : <<w, 0>> \in Places' /\ TilesAt(<<w, 0>>)' = Held(w)'
  BY DEF Places, TilesAt
<1>13. CASE Scoped
  <2>1. OnePlace'
    <3>1. ASSUME NEW p \in Places', NEW q \in Places', p # q PROVE TilesAt(p)' \cap TilesAt(q)' = {}
      <4>1. p[1] # q[1]
        BY <1>11, <3>1
      <4> QED  BY <1>9, <1>11, <1>13, <4>1
    <3> QED  BY <1>1, <3>1 DEF OnePlace
  <2>2. ASSUME NEW t \in Tiles PROVE \E p \in Places' : t \in TilesAt(p)'
    <3>1. t[1] \in Workers
      BY TileNumbers, PlanFacts, <1>13, SchedulerAssumption DEF Workers
    <3>2. t \in Held(t[1])'
      BY <1>9, <1>13, <3>1
    <3> QED  BY <1>12, <3>1, <3>2
  <2> QED  BY <1>2, <2>1, <2>2 DEF SomePlace
<1>14. CASE ~Scoped
  <2>1. OnePlace'
    <3>1. ASSUME NEW p \in Places', NEW q \in Places', p # q PROVE TilesAt(p)' \cap TilesAt(q)' = {}
      <4>1. p[1] # q[1]
        BY <1>11, <3>1
      <4> QED  BY <1>10, <1>11, <1>14, <4>1
    <3> QED  BY <1>1, <3>1 DEF OnePlace
  <2>2. ASSUME NEW t \in Tiles PROVE \E p \in Places' : t \in TilesAt(p)'
    BY <1>10, <1>12, <1>14
  <2> QED  BY <1>2, <2>1, <2>2 DEF SomePlace
<1>15. Scoped \in BOOLEAN
  BY PlanFacts
<1> QED  BY <1>13, <1>14

\* A step of one hand that loses no tile but to the sink.
LEMMA HandLosesNothing ==
    ASSUME SomePlace, NEW w \in Workers, UNCHANGED <<plan, deque, phase, failed>>,
           \A v \in Workers : v # w => Held(v)' = Held(v),
           stored \subseteq stored', Held(w) \subseteq Held(w)' \cup stored'
    PROVE  SomePlace'
<1>1. Tiles' = Tiles /\ Places' = Places
  BY DEF Tiles, Units, Places
<1>2. ASSUME NEW t, NEW p \in Places, t \in TilesAt(p)
      PROVE  t \in stored' \/ t \in TilesAt(p)'
  <2>1. p[1] \in Workers
    BY DEF Places
  <2>2. CASE p[2] = 0
    BY <1>2, <2>1, <2>2 DEF TilesAt
  <2>3. CASE p[2] # 0
    <3>1. Queued(p[1], p[2])' = Queued(p[1], p[2])
      BY <1>1 DEF Queued, TilesFrom
    <3> QED  BY <1>2, <2>3, <3>1 DEF TilesAt
  <2> QED  BY <2>2, <2>3
<1> QED  BY <1>1, <1>2 DEF SomePlace

\* A stored tile leaves the hand for good.
LEMMA SinkOkPlaces ==
    ASSUME TypeOK, OnePlace, SomePlace, PhasesAgree, NEW w \in Workers, SinkOk(w)
    PROVE  OnePlace' /\ SomePlace'
<1>0. /\ pc[w] = "writing" /\ stored' = stored \cup {Current(w)} /\ Advance(w)
      /\ UNCHANGED <<plan, phase, deque, full, failed>>
  BY DEF SinkOk
<1>1. /\ Current(w) \in Held(w)
      /\ Held(w)' \subseteq Held(w) \ {Current(w)}
      /\ ~full => Held(w) \subseteq Held(w)' \cup {Current(w)}
      /\ \A v \in Workers : v # w => Held(v)' = Held(v)
  BY <1>0, AdvanceHolds
<1>2. ASSUME NEW p \in Places PROVE TilesAt(p)' \cap stored' = {}
  <2>1. p[1] \in Workers /\ p = <<p[1], p[2]>>
    BY DEF Places
  <2>2. TilesAt(p) \cap stored = {}
    BY DEF OnePlace
  <2>3. CASE p = <<w, 0>>
    <3>1. TilesAt(p) = Held(w) /\ TilesAt(p)' = Held(w)'
      BY <2>3 DEF TilesAt
    <3> QED  BY <1>0, <1>1, <2>2, <3>1
  <2>4. CASE p # <<w, 0>>
    <3>1. TilesAt(p)' = TilesAt(p)
      <4>1. CASE p[2] = 0
        <5>1. p[1] # w
          BY <2>1, <2>4, <4>1
        <5> QED  BY <1>1, <2>1, <4>1, <5>1 DEF TilesAt
      <4>2. CASE p[2] # 0
        BY <1>0, <4>2 DEF TilesAt, Queued, TilesFrom, Tiles, Units
      <4> QED  BY <4>1, <4>2
    <3>2. <<w, 0>> \in Places /\ TilesAt(<<w, 0>>) = Held(w)
      BY DEF Places, TilesAt
    <3>3. Current(w) \notin TilesAt(p)
      BY <1>1, <2>4, <3>2 DEF OnePlace
    <3> QED  BY <1>0, <2>2, <3>1, <3>3
  <2> QED  BY <2>3, <2>4
<1>3. OnePlace'
  BY <1>0, <1>1, <1>2, HandShrinks
<1>4. SomePlace'
  <2>1. CASE failed
    BY <1>0, <2>1 DEF SomePlace
  <2>2. CASE ~failed
    <3>1. ~full
      BY <2>2 DEF PhasesAgree
    <3> QED  BY <1>0, <1>1, <3>1, HandLosesNothing
  <2> QED  BY <2>1, <2>2
<1> QED  BY <1>3, <1>4

\* No step of a run puts a tile in two places or loses one before a failure.
LEMMA PlacesKept ==
    TypeOK /\ PhasesAgree /\ OnePlace /\ SomePlace /\ [Next]_schedVars => OnePlace' /\ SomePlace'
<1> SUFFICES ASSUME TypeOK, PhasesAgree, OnePlace, SomePlace, [Next]_schedVars
             PROVE  OnePlace' /\ SomePlace'
  OBVIOUS
<1>1. CASE Start
  BY <1>1, StartPlaces
<1>2. ASSUME UNCHANGED <<plan, handVars, deque, stored>>, failed' = failed,
             phase' \in {"running", "ok"} => phase \in {"running", "ok"}
      PROVE  OnePlace' /\ SomePlace'
  <2>1. Places' = Places /\ Tiles' = Tiles
    BY <1>2 DEF Places, Tiles, Units
  <2>2. ASSUME NEW p \in Places PROVE TilesAt(p)' = TilesAt(p)
    BY <1>2, <2>1 DEF TilesAt, Held, Queued, TilesFrom, handVars
  <2> QED  BY <1>2, <2>1, <2>2 DEF OnePlace, SomePlace
<1>3. CASE Refuse \/ Cancel \/ UNCHANGED schedVars
  BY <1>2, <1>3 DEF Refuse, Cancel, schedVars
<1>4. CASE Return
  BY <1>2, <1>4 DEF Return
<1>5. ASSUME NEW w \in Workers, WorkerStep(w) PROVE OnePlace' /\ SomePlace'
  <2>1. CASE Pop(w)
    BY <2>1, PopKeepsPlaces
  <2>2. CASE \E v \in Workers : Steal(w, v)
    BY <2>2, StealKeepsPlaces
  <2>3. CASE Split(w)
    BY <2>3, SplitKeepsPlaces
  <2>4. CASE Begin(w) \/ PassToken(w) \/ Execute(w) \/ CallSink(w)
    <3>1. UNCHANGED <<plan, leaf, deque, stored, phase, failed>>
      BY <2>4 DEF Begin, PassToken, Execute, CallSink
    <3>2. \A v \in Workers : Held(v)' = Held(v)
      <4>1. CASE Begin(w)
        BY <3>1, <4>1, MovesHold
      <4>2. CASE PassToken(w) \/ Execute(w) \/ CallSink(w)
        <5>1. /\ pc[w] \notin {"seek", "fresh"} /\ pc'[w] \notin {"seek", "fresh"}
              /\ tile' = tile /\ pc' = [pc EXCEPT ![w] = pc'[w]]
          BY <4>2 DEF PassToken, Execute, CallSink, TypeOK
        <5> QED  BY <3>1, <5>1, MovesHold
      <4> QED  BY <2>4, <4>1, <4>2
    <3> QED  BY <3>1, <3>2, HandGivesUp, HandLosesNothing
  <2>5. CASE SkipWhenFull(w) \/ ExecutePanics(w) \/ ObserveCancel(w) \/ ExecuteFails(w) \/ SinkErr(w)
    <3>1. DropLeaf(w) /\ UNCHANGED <<plan, deque, stored>> /\ failed'
      BY <2>5 DEF SkipWhenFull, ExecutePanics, ObserveCancel, ExecuteFails, SinkErr, Fail, PhasesAgree
    <3>2. Held(w)' = {} /\ \A v \in Workers : v # w => Held(v)' = Held(v)
      BY <3>1, DropsHold
    <3>3. OnePlace'
      BY <3>1, <3>2, HandGivesUp
    <3> QED  BY <3>1, <3>3 DEF SomePlace
  <2>6. CASE SinkOk(w)
    BY <2>6, SinkOkPlaces
  <2> QED  BY <1>5, <2>1, <2>2, <2>3, <2>4, <2>5, <2>6 DEF WorkerStep, Scheduling
<1> QED  BY <1>1, <1>3, <1>4, <1>5 DEF Next, Master

-----------------------------------------------------------------------------
(* Stopping.                                                               *)

\* The workers that have passed the token with the tile they are at.
Busy == { w \in Workers : pc[w] \in {"execute", "deliver", "writing"} }

\* After a cancel every tile still to come is one of a busy worker.
BusyBound == cancelled => Cardinality(stored) + Cardinality(Busy) <= before + NumWorkers

\* At most all workers are busy.
LEMMA BusyFinite == IsFiniteSet(Busy) /\ Cardinality(Busy) \in Nat /\ Cardinality(Busy) <= NumWorkers
<1>1. NumWorkers \in Nat /\ Workers = 1 .. NumWorkers
  BY SchedulerAssumption DEF Workers
<1>2. IsFiniteSet(Workers) /\ Cardinality(Workers) = NumWorkers
  BY <1>1, FS_Interval
<1>3. Busy \subseteq Workers
  BY DEF Busy
<1> QED  BY <1>2, <1>3, FS_Subset, FS_CardinalityType

\* No step after cancel() stores more tiles than workers were busy.
LEMMA BusyKept == TypeOK /\ BusyBound /\ [Next]_schedVars => BusyBound'
<1> SUFFICES ASSUME TypeOK, BusyBound, [Next]_schedVars, cancelled'
             PROVE  Cardinality(stored') + Cardinality(Busy') <= before' + NumWorkers
  BY DEF BusyBound
<1>0. /\ IsFiniteSet(stored) /\ Cardinality(stored) \in Nat /\ before \in Nat
      /\ NumWorkers \in Nat
  BY FS_CardinalityType, SchedulerAssumption DEF TypeOK
<1>1. CASE Cancel
  <2>1. before' = Cardinality(stored) /\ stored' = stored /\ Busy' = Busy
    BY <1>1 DEF Cancel, handVars, Busy
  <2> QED  BY <1>0, <2>1, BusyFinite
<1>2. ASSUME cancelled, UNCHANGED <<stored, before>>, Busy' \subseteq Busy
      PROVE  Cardinality(stored') + Cardinality(Busy') <= before' + NumWorkers
  <2>1. Cardinality(Busy') <= Cardinality(Busy) /\ Cardinality(Busy') \in Nat
    BY <1>2, BusyFinite, FS_Subset, FS_CardinalityType
  <2> QED  BY <1>0, <1>2, <2>1, BusyFinite DEF BusyBound
<1>3. CASE Refuse \/ Start \/ Return \/ UNCHANGED schedVars
  <2>1. cancelled /\ UNCHANGED <<stored, before>>
    BY <1>3 DEF Refuse, Start, Return, schedVars
  <2>2. Busy' \subseteq Busy
    BY <1>3 DEF Refuse, Start, Return, schedVars, handVars, Busy
  <2> QED  BY <1>2, <2>1, <2>2
<1>4. ASSUME NEW w \in Workers, WorkerStep(w), ~SinkOk(w)
      PROVE  Cardinality(stored') + Cardinality(Busy') <= before' + NumWorkers
  <2>1. cancelled /\ UNCHANGED <<stored, before>>
    BY <1>4 DEF WorkerStep, Scheduling, Pop, Steal, SkipWhenFull, Split, Begin,
       PassToken, ObserveCancel, Execute, ExecuteFails, ExecutePanics, CallSink, SinkErr, Fail
  <2>2. \/ pc' = pc
        \/ /\ pc' = [pc EXCEPT ![w] = pc'[w]]
           /\ pc'[w] \in {"execute", "deliver", "writing"} => pc[w] \in {"execute", "deliver", "writing"}
    BY <1>4, <2>1 DEF WorkerStep, Scheduling, Pop, Steal, TakeLeaf, SkipWhenFull, Split, Begin, DropLeaf,
       PassToken, ObserveCancel, Execute, ExecuteFails, ExecutePanics, CallSink, SinkErr, Fail, TypeOK
  <2>3. Busy' \subseteq Busy
    BY <2>2 DEF Busy, TypeOK
  <2> QED  BY <1>2, <2>1, <2>3
<1>5. ASSUME NEW w \in Workers, SinkOk(w)
      PROVE  Cardinality(stored') + Cardinality(Busy') <= before' + NumWorkers
  <2>1. cancelled /\ before' = before /\ stored' = stored \cup {Current(w)} /\ w \in Busy
    BY <1>5 DEF SinkOk, Busy
  <2>2. pc' = [pc EXCEPT ![w] = pc'[w]] /\ pc'[w] \in {"check", "seek"}
    BY <1>5 DEF SinkOk, Advance, DropLeaf, TypeOK
  <2>3. Busy' = Busy \ {w}
    BY <2>2 DEF Busy, TypeOK
  <2>4. Cardinality(Busy') = Cardinality(Busy) - 1
    BY <2>1, <2>3, BusyFinite, FS_RemoveElement
  <2>5. Cardinality(stored') <= Cardinality(stored) + 1 /\ Cardinality(stored') \in Nat
    <3>1. /\ IsFiniteSet(stored \cup {Current(w)})
          /\ \/ Cardinality(stored \cup {Current(w)}) = Cardinality(stored)
             \/ Cardinality(stored \cup {Current(w)}) = Cardinality(stored) + 1
      BY <1>0, FS_AddElement
    <3> QED  BY <1>0, <2>1, <3>1
  <2> QED  BY <1>0, <2>1, <2>4, <2>5, BusyFinite DEF BusyBound
<1> QED  BY <1>1, <1>3, <1>4, <1>5 DEF Next, Master, WorkerStep

-----------------------------------------------------------------------------
(* The theorems.                                                           *)

Inv ==
    /\ TypeOK
    /\ PhasesAgree
    /\ OnePlace
    /\ SomePlace
    /\ BusyBound

\* A run starts with the invariant.
LEMMA InitInv == Init => Inv
<1> SUFFICES ASSUME Init PROVE Inv
  OBVIOUS
<1>1. TypeOK /\ PhasesAgree
  BY InitTypes
<1>2. SomePlace /\ BusyBound
  BY DEF Init, SomePlace, BusyBound
<1>3. ASSUME NEW p \in Places PROVE TilesAt(p) = {}
  BY DEF Init, Places, TilesAt, Held
<1>4. OnePlace
  BY <1>3 DEF OnePlace
<1> QED  BY <1>1, <1>2, <1>4 DEF Inv

\* No step of a run breaks the invariant.
LEMMA StepInv == Inv /\ [Next]_schedVars => Inv'
  BY TypesKept, PhasesKept, PlacesKept, BusyKept DEF Inv

\* What hands, halves, phases and the token say of one another holds for any
\* plans and any number of workers.
THEOREM RunInvariantHolds == Spec => []Inv
<1> QED  BY InitInv, StepInv, PTL DEF Spec

\* What workers have in hand and have split off is well formed: no range is empty
\* or goes past the plan, no tile past its unit.
THEOREM TypeCorrect == Spec => []TypeOK
<1>1. Inv => TypeOK
  BY DEF Inv
<1> QED  BY <1>1, RunInvariantHolds, PTL

\* However ranges are split and stolen, whoever fails, panics or cancels, no tile
\* is in two hands nor executed twice: what try_for_each's closure relies on.
THEOREM TilesHeldOnce == Spec => []EachTileHeldOnce
<1>1. Inv => EachTileHeldOnce
  BY OnePlaceIsOnce DEF Inv
<1> QED  BY <1>1, RunInvariantHolds, PTL

\* While no tile has failed every tile is in the sink or in some hand or half.
THEOREM NothingDropped == Spec => []NoTileDropped
<1>1. Inv => NoTileDropped
  BY SomePlaceIsNotDropped DEF Inv
<1> QED  BY <1>1, RunInvariantHolds, PTL

\* Nothing is left at the end, so what has not failed is in the sink.
LEMMA CompleteWhenOk == Inv => OkMeansAllStored
<1> SUFFICES ASSUME Inv, phase = "ok" PROVE stored = Tiles
  BY DEF OkMeansAllStored
<1>1. NothingLeft /\ ~failed /\ stored \subseteq Tiles
  BY DEF Inv, PhasesAgree, TypeOK
<1>2. ASSUME NEW p \in Places PROVE TilesAt(p) = {}
  BY <1>1 DEF NothingLeft, Places, TilesAt, Held
<1>3. \A t \in Tiles : t \in stored
  BY <1>1, <1>2 DEF Inv, SomePlace
<1> QED  BY <1>1, <1>3

\* run_concurrent returns Ok for complete images only.
THEOREM OkIsComplete == Spec => []OkMeansAllStored
<1> QED  BY CompleteWhenOk, RunInvariantHolds, PTL

\* After cancel() at most one more tile per worker reaches the sink.
THEOREM StopsSoon == Spec => []StopsAtTileBoundary
<1>1. ASSUME Inv PROVE StopsAtTileBoundary
  <2>1. /\ Cardinality(stored) \in Nat /\ before \in Nat /\ NumWorkers \in Nat
    <3>1. IsFiniteSet(stored) /\ before \in Nat
      BY <1>1 DEF Inv, TypeOK
    <3> QED  BY <3>1, FS_CardinalityType, SchedulerAssumption
  <2>2. Cardinality(Busy) \in Nat
    BY BusyFinite
  <2>3. cancelled => Cardinality(stored) + Cardinality(Busy) <= before + NumWorkers
    BY <1>1 DEF Inv, BusyBound
  <2> QED  BY <2>1, <2>2, <2>3 DEF StopsAtTileBoundary
<1> QED  BY <1>1, RunInvariantHolds, PTL

-----------------------------------------------------------------------------
(* The order of the work.                                                  *)

\* What a worker has split off comes after what it has in hand, and what it
\* split off last comes first.
HalvesAhead ==
    \A w \in Workers :
        /\ pc[w] # "seek" => \A i \in DOMAIN deque[w] : leaf[w][2] < deque[w][i][1]
        /\ \A i, j \in DOMAIN deque[w] : i < j => deque[w][j][2] < deque[w][i][1]

\* Steps that split nothing off and take nothing back keep that order.
LEMMA HandKeepsOrder ==
    ASSUME HalvesAhead, UNCHANGED deque,
           \A w \in Workers : pc'[w] # "seek" => \/ pc[w] # "seek" /\ leaf'[w][2] = leaf[w][2]
                                                 \/ deque[w] = <<>>
    PROVE  HalvesAhead'
<1>1. ASSUME NEW w \in Workers, pc'[w] # "seek", NEW i \in DOMAIN deque[w]
      PROVE  leaf'[w][2] < deque[w][i][1]
  <2>1. pc[w] # "seek" /\ leaf'[w][2] = leaf[w][2]
    BY <1>1
  <2> QED  BY <1>1, <2>1 DEF HalvesAhead
<1> QED  BY <1>1 DEF HalvesAhead

LEMMA SplitKeepsOrder ==
    ASSUME TypeOK, HalvesAhead, NEW w \in Workers, Split(w)
    PROVE  HalvesAhead'
<1> DEFINE first == leaf[w][1]
           last  == leaf[w][2]
           right == first + (last - first + 1) \div 2
           n     == Len(deque[w])
<1>1. /\ first \in Int /\ last \in Int /\ first < last
      /\ deque[w] \in Seq(Ranges) /\ n \in Nat /\ DOMAIN deque[w] = 1 .. n
  BY DEF Split, TypeOK
<1>2. right \in Int /\ first < right /\ right <= last
  BY <1>1
<1>3. /\ leaf' = [leaf EXCEPT ![w] = <<first, right - 1>>]
      /\ deque' = [deque EXCEPT ![w] = Append(deque[w], <<right, last>>)]
      /\ pc' = pc /\ pc[w] = "fresh"
  BY DEF Split
<1> HIDE DEF n
<1>4. \A i \in 1 .. n : last < deque[w][i][1]
  BY <1>1, <1>3 DEF HalvesAhead
<1>5. \A i \in 1 .. n : deque[w][i][1] \in Int
  <2>1. Ranges \subseteq Int \X Int
    BY PlanFacts DEF Ranges
  <2>2. \A i \in 1 .. n : deque[w][i] \in Ranges
    BY <1>1
  <2> QED  BY <2>1, <2>2
<1> HIDE DEF first, last, right
<1>6. /\ leaf'[w] = <<first, right - 1>> /\ deque'[w] = Append(deque[w], <<right, last>>)
      /\ \A v \in Workers : v # w => leaf'[v] = leaf[v] /\ deque'[v] = deque[v]
  BY <1>3 DEF TypeOK
<1>7. /\ DOMAIN deque'[w] = 1 .. n + 1
      /\ \A i \in 1 .. n : deque'[w][i] = deque[w][i]
      /\ deque'[w][n + 1] = <<right, last>>
  BY <1>1, <1>6
<1> HIDE DEF n
<1>8. ASSUME NEW i \in DOMAIN deque'[w] PROVE leaf'[w][2] < deque'[w][i][1]
  <2>1. CASE i = n + 1
    BY <1>2, <1>6, <1>7, <2>1
  <2>2. CASE i # n + 1
    <3>1. i \in 1 .. n
      BY <1>1, <1>7, <2>2
    <3> QED  BY <1>1, <1>2, <1>4, <1>5, <1>6, <1>7, <3>1
  <2> QED  BY <2>1, <2>2
<1>9. ASSUME NEW i \in DOMAIN deque'[w], NEW j \in DOMAIN deque'[w], i < j
      PROVE  deque'[w][j][2] < deque'[w][i][1]
  <2>1. i \in 1 .. n
    BY <1>1, <1>7, <1>9
  <2>2. CASE j = n + 1
    BY <1>1, <1>4, <1>7, <2>1, <2>2
  <2>3. CASE j # n + 1
    <3>1. j \in 1 .. n
      BY <1>1, <1>7, <2>3
    <3> QED  BY <1>1, <1>7, <1>9, <2>1, <3>1 DEF HalvesAhead
  <2> QED  BY <2>2, <2>3
<1> QED  BY <1>3, <1>6, <1>8, <1>9 DEF HalvesAhead

LEMMA PopKeepsOrder ==
    ASSUME TypeOK, HalvesAhead, NEW w \in Workers, Pop(w)
    PROVE  HalvesAhead'
<1> DEFINE n == Len(deque[w])
<1>1. deque[w] \in Seq(Ranges) /\ n \in Nat \ {0} /\ DOMAIN deque[w] = 1 .. n
  BY DEF Pop, TypeOK
<1>2. /\ leaf' = [leaf EXCEPT ![w] = deque[w][n]] /\ pc' = [pc EXCEPT ![w] = "fresh"]
      /\ deque' = [deque EXCEPT ![w] = SubSeq(deque[w], 1, n - 1)]
  BY DEF Pop, TakeLeaf
<1>3. /\ leaf'[w] = deque[w][n] /\ deque'[w] = SubSeq(deque[w], 1, n - 1)
      /\ \A v \in Workers : v # w => leaf'[v] = leaf[v] /\ deque'[v] = deque[v] /\ pc'[v] = pc[v]
  BY <1>1, <1>2 DEF TypeOK
<1>4. DOMAIN deque'[w] = 1 .. n - 1 /\ \A i \in 1 .. n - 1 : deque'[w][i] = deque[w][i]
  BY <1>1, <1>3
<1> HIDE DEF n
<1>5. ASSUME NEW i \in DOMAIN deque'[w]
      PROVE  /\ leaf'[w][2] < deque'[w][i][1]
             /\ \A j \in DOMAIN deque'[w] : i < j => deque'[w][j][2] < deque'[w][i][1]
  <2>1. i \in DOMAIN deque[w] /\ n \in DOMAIN deque[w] /\ i < n /\ DOMAIN deque'[w] \subseteq DOMAIN deque[w]
    BY <1>1, <1>4
  <2>2. deque[w][n][2] < deque[w][i][1]
    BY <2>1 DEF HalvesAhead
  <2>3. \A j \in DOMAIN deque'[w] : i < j => deque[w][j][2] < deque[w][i][1]
    BY <2>1 DEF HalvesAhead
  <2> QED  BY <1>3, <1>4, <2>2, <2>3
<1> QED  BY <1>3, <1>5 DEF HalvesAhead

LEMMA StealKeepsOrder ==
    ASSUME TypeOK, HalvesAhead, NEW w \in Workers, NEW v \in Workers, Steal(w, v)
    PROVE  HalvesAhead'
<1> DEFINE n == Len(deque[v])
<1>1. deque[v] \in Seq(Ranges) /\ n \in Nat \ {0} /\ DOMAIN deque[v] = 1 .. n /\ w # v
  BY DEF Steal, TypeOK
<1>2. /\ leaf' = [leaf EXCEPT ![w] = Head(deque[v])] /\ pc' = [pc EXCEPT ![w] = "fresh"]
      /\ deque' = [deque EXCEPT ![v] = Tail(deque[v])] /\ deque[w] = <<>>
  BY DEF Steal, TakeLeaf
<1>3. /\ deque'[w] = <<>> /\ deque'[v] = Tail(deque[v])
      /\ \A x \in Workers : x # v => deque'[x] = deque[x]
      /\ \A x \in Workers : x # w => leaf'[x] = leaf[x] /\ pc'[x] = pc[x]
  BY <1>1, <1>2 DEF TypeOK
<1>4. DOMAIN deque'[v] = 1 .. n - 1 /\ \A i \in 1 .. n - 1 : deque'[v][i] = deque[v][i + 1]
  BY <1>1, <1>3
<1> HIDE DEF n
<1>5. ASSUME NEW i \in DOMAIN deque'[v]
      PROVE  /\ pc'[v] # "seek" => leaf'[v][2] < deque'[v][i][1]
             /\ \A j \in DOMAIN deque'[v] : i < j => deque'[v][j][2] < deque'[v][i][1]
  <2>1. i + 1 \in DOMAIN deque[v] /\ \A j \in DOMAIN deque'[v] : j + 1 \in DOMAIN deque[v] /\ (i < j => i + 1 < j + 1)
    BY <1>1, <1>4
  <2>2. pc[v] # "seek" => leaf[v][2] < deque[v][i + 1][1]
    BY <2>1 DEF HalvesAhead
  <2>3. \A j \in DOMAIN deque'[v] : i < j => deque[v][j + 1][2] < deque[v][i + 1][1]
    BY <2>1 DEF HalvesAhead
  <2> QED  BY <1>1, <1>3, <1>4, <2>2, <2>3
<1>6. ASSUME NEW x \in Workers, x # v
      PROVE  /\ pc'[x] # "seek" => \A i \in DOMAIN deque'[x] : leaf'[x][2] < deque'[x][i][1]
             /\ \A i, j \in DOMAIN deque'[x] : i < j => deque'[x][j][2] < deque'[x][i][1]
  <2>1. CASE x = w
    BY <1>3, <2>1
  <2>2. CASE x # w
    BY <1>3, <1>6, <2>2 DEF HalvesAhead
  <2> QED  BY <2>1, <2>2
<1> QED  BY <1>5, <1>6 DEF HalvesAhead

LEMMA OrderKept == TypeOK /\ PhasesAgree /\ HalvesAhead /\ [Next]_schedVars => HalvesAhead'
<1> SUFFICES ASSUME TypeOK, PhasesAgree, HalvesAhead, [Next]_schedVars PROVE HalvesAhead'
  OBVIOUS
<1>1. CASE Start
  <2>1. \A w \in Workers : deque[w] = <<>>
    BY <1>1 DEF Start, PhasesAgree, NothingLeft
  <2> QED  BY <1>1, <2>1, HandKeepsOrder DEF Start
<1>2. CASE Refuse \/ Return \/ Cancel \/ UNCHANGED schedVars
  BY <1>2, HandKeepsOrder DEF Refuse, Return, Cancel, schedVars, handVars
<1>3. ASSUME NEW w \in Workers, WorkerStep(w) PROVE HalvesAhead'
  <2>1. CASE \E v \in Workers : Pop(w) \/ Steal(w, v)
    BY <2>1, PopKeepsOrder, StealKeepsOrder
  <2>2. CASE Split(w)
    BY <2>2, SplitKeepsOrder
  <2>3. CASE SkipWhenFull(w) \/ ExecutePanics(w) \/ ObserveCancel(w) \/ ExecuteFails(w) \/ SinkErr(w)
    BY <2>3, HandKeepsOrder
       DEF SkipWhenFull, ExecutePanics, ObserveCancel, ExecuteFails, SinkErr, Fail, DropLeaf, TypeOK
  <2>4. CASE Begin(w) \/ PassToken(w) \/ Execute(w) \/ CallSink(w)
    BY <2>4, HandKeepsOrder DEF Begin, PassToken, Execute, CallSink, TypeOK
  <2>5. CASE SinkOk(w)
    <3>1. \A v \in Workers : pc'[v] # "seek" => pc[v] # "seek" /\ leaf'[v][2] = leaf[v][2]
      <4>1. CASE leaf' = leaf \/ DropLeaf(w)
        <5>1. pc[w] = "writing" /\ \A v \in Workers : v # w => pc'[v] = pc[v]
          BY <2>5 DEF SinkOk, Advance, DropLeaf, TypeOK
        <5>2. \A v \in Workers : pc'[v] # "seek" => leaf'[v] = leaf[v]
          BY <4>1 DEF DropLeaf, TypeOK
        <5> QED  BY <5>1, <5>2
      <4>2. CASE pc' = [pc EXCEPT ![w] = "check"] /\ leaf' = [leaf EXCEPT ![w][1] = leaf[w][1] + 1]
        <5>1. leaf'[w][2] = leaf[w][2] /\ \A v \in Workers : v # w => leaf'[v] = leaf[v]
          <6>1. leaf[w] = <<leaf[w][1], leaf[w][2]>>
            BY DEF TypeOK
          <6>2. [leaf[w] EXCEPT ![1] = leaf[w][1] + 1] = <<leaf[w][1] + 1, leaf[w][2]>>
            BY <6>1
          <6> QED  BY <4>2, <6>2 DEF TypeOK
        <5>2. pc[w] = "writing" /\ \A v \in Workers : v # w => pc'[v] = pc[v]
          BY <2>5, <4>2 DEF SinkOk, TypeOK
        <5> QED  BY <5>1, <5>2
      <4> QED  BY <2>5, <4>1, <4>2 DEF SinkOk, Advance
    <3> QED  BY <2>5, <3>1, HandKeepsOrder DEF SinkOk
  <2> QED  BY <1>3, <2>1, <2>2, <2>3, <2>4, <2>5 DEF WorkerStep, Scheduling
<1> QED  BY <1>1, <1>2, <1>3 DEF Next, Master

\* However work is split and stolen, a worker has nothing split off that comes
\* before what it is doing: it never keeps a tile waiting that an ordered sink
\* wants first.
THEOREM HalvesInOrder == Spec => []HalvesAhead
<1>1. Init => HalvesAhead
  BY DEF Init, HalvesAhead
<1>2. Inv => TypeOK /\ PhasesAgree
  BY DEF Inv
<1> QED  BY <1>1, <1>2, OrderKept, RunInvariantHolds, PTL DEF Spec

-----------------------------------------------------------------------------
\* The tiles of a plan have no pixel in common.
DisjointTiles(p) ==
    \A u, v \in DOMAIN p.units : \A i \in DOMAIN p.units[u], j \in DOMAIN p.units[v] :
        <<u, i>> # <<v, j>> => Disjoint(p.units[u][i], p.units[v][j])

\* Over plans whose tiles are disjoint, which GenerateTiles makes, no two calls
\* of the sink that are open at once write a pixel both: the memory sink needs no lock.
THEOREM WritesDisjoint ==
    ASSUME \A p \in Plans : DisjointTiles(p)
    PROVE  Spec => []ConcurrentWritesDisjoint
<1>1. ASSUME Inv PROVE ConcurrentWritesDisjoint
  <2>1. SUFFICES ASSUME NEW v \in Workers, NEW w \in Workers, v # w, pc[v] = "writing", pc[w] = "writing"
                 PROVE  Disjoint(CurrentRegion(v), CurrentRegion(w))
    BY DEF ConcurrentWritesDisjoint
  <2>2. TypeOK /\ DisjointTiles(plan)
    BY <1>1 DEF Inv, TypeOK
  <2>3. ASSUME NEW x \in Workers, pc[x] = "writing"
        PROVE  /\ leaf[x][1] \in DOMAIN Units /\ tile[x] \in DOMAIN Units[leaf[x][1]]
               /\ Current(x) \in Held(x)
    <3>1. leaf[x] \in Ranges /\ tile[x] \in DOMAIN Units[leaf[x][1]] /\ tile[x] \in Int
      BY <2>2, <2>3 DEF TypeOK
    <3>2. leaf[x][1] \in DOMAIN Units /\ leaf[x][1] \in Int /\ leaf[x][2] \in Int /\ leaf[x][1] <= leaf[x][2]
      BY <2>2, <3>1, PlanFacts DEF Ranges
    <3>3. Current(x) \in Tiles
      BY <3>1, <3>2 DEF Current, Tiles
    <3> QED  BY <2>3, <3>1, <3>2, <3>3 DEF Current, Held, TilesFrom
  <2>4. Held(v) \cap Held(w) = {}
    BY <1>1, <2>1, OnePlaceIsOnce DEF Inv, EachTileHeldOnce
  <2>5. Current(v) # Current(w)
    BY <2>1, <2>3, <2>4
  <2> QED  BY <2>1, <2>2, <2>3, <2>5 DEF DisjointTiles, CurrentRegion, Current, Units
<1> QED  BY <1>1, RunInvariantHolds, PTL

=============================================================================
