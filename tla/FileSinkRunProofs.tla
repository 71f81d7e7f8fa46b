-------------------------- MODULE FileSinkRunProofs --------------------------
(***************************************************************************)
(* Proofs about FileSinkRun, for any number of workers, any plans the      *)
(* planner may make, any channel capacity and any failures: they put the   *)
(* proofs about the scheduler and about the sink together.                 *)
(***************************************************************************)
EXTENDS FileSinkRun, SequenceTheorems, WellFoundedInduction, TLAPS

SP == INSTANCE RayonSchedulerProofs
FP == INSTANCE FileSinkProofs

AnyRegion == [x : Int, y : Int, width : Nat, height : Nat]

-----------------------------------------------------------------------------
(* Natural numbers.                                                        *)

\* A set of natural numbers that has 0 and every successor has them all.
LEMMA Induction ==
    ASSUME NEW T \in SUBSET Nat, 0 \in T, \A n \in T : n + 1 \in T
    PROVE  T = Nat
<1> DEFINE R == { mn \in Nat \X Nat : mn[1] < mn[2] }
           Out == Nat \ T
<1>1. IsWellFoundedOn(R, Nat)
  BY NatLessThanWellFounded DEF OpToRel
<1>2. \A n \in Nat \ {0} : <<n - 1, n>> \in R /\ n - 1 \in Nat /\ (n - 1) + 1 = n
  OBVIOUS
<1> HIDE DEF R
<1> SUFFICES ASSUME Out # {} PROVE FALSE
  OBVIOUS
<1>3. Out \subseteq Nat
  OBVIOUS
<1>4. \E n \in Out : \A m \in Out : ~(<<m, n>> \in R)
  BY <1>1, <1>3, WFMin, Zenon
<1>5. PICK n \in Out : \A m \in Out : ~(<<m, n>> \in R)
  BY <1>4
<1>6. n \in Nat \ {0}
  BY <1>5
<1>7. n - 1 \in T
  BY <1>2, <1>5, <1>6
<1> QED
  BY <1>2, <1>5, <1>6, <1>7

-----------------------------------------------------------------------------
(* The tiles of a plan.                                                    *)

\* f adds up the units U one after the other.
Joins(f, U) == f = [u \in 0 .. Len(U) |-> IF u = 0 THEN <<>> ELSE f[u - 1] \o U[u]]

\* The recursion of TilesOf has a solution.
LEMMA JoinsExist ==
    ASSUME NEW R, NEW U \in Seq(Seq(R))
    PROVE  \E f : Joins(f, U)
<1> DEFINE V(u) == IF u \in 1 .. Len(U) THEN U[u] ELSE <<>>
           UpTo(n) == \E f \in [0 .. n -> Seq(R)] :
                         \A u \in 0 .. n : f[u] = IF u = 0 THEN <<>> ELSE f[u - 1] \o V(u)
           T == { n \in Nat : UpTo(n) }
<1>0. Len(U) \in Nat /\ \A u : V(u) \in Seq(R)
  <2>1. Len(U) \in Nat /\ \A u \in 1 .. Len(U) : U[u] \in Seq(R)
    BY LenProperties, ElementOfSeq
  <2>2. <<>> \in Seq(R)
    BY EmptySeq
  <2> QED
    BY <2>1, <2>2
<1>1. UpTo(0)
  <2> DEFINE f == [u \in 0 .. 0 |-> <<>>]
  <2>1. f \in [0 .. 0 -> Seq(R)]
    BY EmptySeq
  <2>2. \A u \in 0 .. 0 : f[u] = IF u = 0 THEN <<>> ELSE f[u - 1] \o V(u)
    OBVIOUS
  <2> HIDE DEF f, V
  <2> QED
    BY <2>1, <2>2
<1> HIDE DEF V
<1>2. ASSUME NEW n \in Nat, UpTo(n) PROVE UpTo(n + 1)
  <2>1. PICK f \in [0 .. n -> Seq(R)] : \A u \in 0 .. n : f[u] = IF u = 0 THEN <<>> ELSE f[u - 1] \o V(u)
    BY <1>2
  <2> DEFINE g == [u \in 0 .. n + 1 |-> IF u <= n THEN f[u] ELSE f[n] \o V(n + 1)]
  <2>2. f[n] \o V(n + 1) \in Seq(R)
    <3>1. f[n] \in Seq(R) /\ V(n + 1) \in Seq(R)
      BY <1>0
    <3> QED
      BY <3>1, ConcatProperties
  <2>3. g \in [0 .. n + 1 -> Seq(R)]
    BY <2>2
  <2>4. ASSUME NEW u \in 0 .. n + 1
        PROVE  g[u] = IF u = 0 THEN <<>> ELSE g[u - 1] \o V(u)
    <3>1. CASE u <= n
      <4>1. u \in 0 .. n /\ (u # 0 => u - 1 \in 0 .. n + 1 /\ u - 1 <= n)
        BY <3>1
      <4> QED
        BY <2>1, <3>1, <4>1
    <3>2. CASE ~(u <= n)
      <4>1. u = n + 1 /\ u - 1 = n /\ n <= n /\ n \in 0 .. n + 1 /\ u # 0
        BY <3>2
      <4> QED
        BY <3>2, <4>1
    <3> QED
      BY <3>1, <3>2
  <2> HIDE DEF g
  <2> QED
    BY <2>3, <2>4
<1> HIDE DEF UpTo
<1>3. T = Nat
  <2>1. T \in SUBSET Nat /\ 0 \in T /\ \A n \in T : n + 1 \in T
    BY <1>1, <1>2
  <2> HIDE DEF T
  <2> QED
    BY <2>1, Induction
<1>4. UpTo(Len(U))
  BY <1>0, <1>3
<1>5. PICK f \in [0 .. Len(U) -> Seq(R)] :
         \A u \in 0 .. Len(U) : f[u] = IF u = 0 THEN <<>> ELSE f[u - 1] \o V(u)
  BY <1>4 DEF UpTo
<1>6. f = [u \in 0 .. Len(U) |-> IF u = 0 THEN <<>> ELSE f[u - 1] \o U[u]]
  <2>1. \A u \in 0 .. Len(U) : u # 0 => V(u) = U[u]
    BY <1>0 DEF V
  <2> QED
    BY <1>5, <2>1
<1> QED
  BY <1>6 DEF Joins

\* The position of the k-th tile of unit u.
At(f, u, k) == Len(f[u - 1]) + k

\* The first n units, joined, have the tiles of these units where At says.
FirstJoined(f, U, n) ==
    /\ \A u \in 1 .. n : \A k \in DOMAIN U[u] :
          At(f, u, k) \in DOMAIN f[n] /\ f[n][At(f, u, k)] = U[u][k]
    /\ \A i \in DOMAIN f[n] : \E u \in 1 .. n : \E k \in DOMAIN U[u] : i = At(f, u, k)

LEMMA JoinedTiles ==
    ASSUME NEW R, NEW U \in Seq(Seq(R)), NEW f, Joins(f, U), NEW n \in 0 .. Len(U)
    PROVE  /\ f[n] \in Seq(R)
           /\ \A u \in 0 .. n : f[u] \in Seq(R) /\ Len(f[u]) <= Len(f[n])
           /\ FirstJoined(f, U, n)
<1> USE DEF FirstJoined
<1> DEFINE Right(m) == /\ \A u \in 0 .. m : f[u] \in Seq(R) /\ Len(f[u]) <= Len(f[m])
                       /\ FirstJoined(f, U, m)
           T == { m \in Nat : m <= Len(U) => Right(m) }
<1>0. Len(U) \in Nat /\ \A u \in 1 .. Len(U) : U[u] \in Seq(R)
  BY LenProperties, ElementOfSeq
<1>1. Right(0)
  <2>1. f[0] = <<>> /\ <<>> \in Seq(R) /\ Len(<<>>) = 0 /\ DOMAIN <<>> = {}
    BY <1>0, EmptySeq DEF Joins
  <2>2. ASSUME NEW u \in 0 .. 0 PROVE f[u] \in Seq(R) /\ Len(f[u]) <= Len(f[0])
    <3>1. u = 0 /\ 0 <= 0
      OBVIOUS
    <3> QED
      BY <2>1, <3>1
  <2>3. 1 .. 0 = {}
    OBVIOUS
  <2> QED
    BY <2>1, <2>2, <2>3
<1>2. ASSUME NEW m \in Nat, m + 1 <= Len(U), Right(m) PROVE Right(m + 1)
  <2> DEFINE a == f[m]
             b == U[m + 1]
             c == a \o b
  <2>1. f[m + 1] = c /\ m + 1 \in 1 .. Len(U) /\ m \in 0 .. m
    <3>1. m + 1 \in 0 .. Len(U) /\ m + 1 # 0 /\ (m + 1) - 1 = m
      BY <1>0, <1>2
    <3>2. f[m + 1] = f[(m + 1) - 1] \o U[m + 1]
      BY <3>1 DEF Joins
    <3>3. m + 1 \in 1 .. Len(U) /\ m \in 0 .. m
      BY <1>0, <3>1
    <3> QED
      BY <3>1, <3>2, <3>3
  <2>2. a \in Seq(R) /\ b \in Seq(R) /\ Len(a) \in Nat /\ Len(b) \in Nat
    BY <1>0, <1>2, <2>1, LenProperties
  <2> HIDE DEF a, b
  <2>3. /\ c \in Seq(R) /\ Len(c) = Len(a) + Len(b)
        /\ \A i \in 1 .. Len(a) + Len(b) : c[i] = IF i <= Len(a) THEN a[i] ELSE b[i - Len(a)]
    BY <2>2, ConcatProperties
  <2> HIDE DEF c
  <2>4. DOMAIN c = 1 .. Len(a) + Len(b) /\ DOMAIN a = 1 .. Len(a) /\ DOMAIN b = 1 .. Len(b)
    BY <2>2, <2>3, LenProperties
  <2>5. ASSUME NEW u \in 0 .. m + 1 PROVE f[u] \in Seq(R) /\ Len(f[u]) <= Len(c)
    <3>1. CASE u = m + 1
      BY <2>1, <2>3, <3>1
    <3>2. CASE u # m + 1
      <4>1. u \in 0 .. m
        BY <3>2
      <4>2. f[u] \in Seq(R) /\ Len(f[u]) <= Len(a) /\ Len(f[u]) \in Nat
        BY <1>2, <4>1, LenProperties DEF a
      <4> QED
        BY <2>2, <2>3, <4>2
    <3> QED
      BY <3>1, <3>2
  <2>6. ASSUME NEW u \in 1 .. m + 1, NEW k \in DOMAIN U[u]
        PROVE  At(f, u, k) \in DOMAIN c /\ c[At(f, u, k)] = U[u][k]
    <3>1. CASE u = m + 1
      <4>0. (m + 1) - 1 = m /\ U[u] = b
        BY <3>1 DEF b
      <4>1. At(f, u, k) = Len(a) + k /\ k \in 1 .. Len(b) /\ U[u] = b
        BY <2>4, <3>1, <4>0 DEF At, a
      <4>2. Len(a) + k \in 1 .. Len(a) + Len(b) /\ ~(Len(a) + k <= Len(a)) /\ (Len(a) + k) - Len(a) = k
        BY <2>2, <4>1
      <4> QED
        BY <2>3, <2>4, <4>1, <4>2
    <3>2. CASE u # m + 1
      <4>1. u \in 1 .. m
        BY <3>2
      <4>2. At(f, u, k) \in DOMAIN a /\ a[At(f, u, k)] = U[u][k]
        BY <1>2, <4>1 DEF a
      <4>3. At(f, u, k) \in 1 .. Len(a) + Len(b) /\ At(f, u, k) <= Len(a)
        BY <2>2, <2>4, <4>2
      <4> QED
        BY <2>3, <2>4, <4>2, <4>3
    <3> QED
      BY <3>1, <3>2
  <2>7. ASSUME NEW i \in DOMAIN c
        PROVE  \E u \in 1 .. m + 1 : \E k \in DOMAIN U[u] : i = At(f, u, k)
    <3>1. CASE i <= Len(a)
      <4>1. i \in DOMAIN a
        BY <2>2, <2>4, <3>1
      <4>2. \A u \in 1 .. m : u \in 1 .. m + 1
        BY <1>2
      <4> QED
        BY <1>2, <4>1, <4>2 DEF a
    <3>2. CASE ~(i <= Len(a))
      <4>1. i - Len(a) \in DOMAIN b /\ Len(a) + (i - Len(a)) = i
        BY <2>2, <2>4, <3>2
      <4>2. At(f, m + 1, i - Len(a)) = i /\ m + 1 \in 1 .. m + 1
        BY <1>2, <4>1 DEF At, a
      <4> QED
        BY <4>1, <4>2 DEF b
    <3> QED
      BY <3>1, <3>2
  <2> QED
    BY <2>1, <2>5, <2>6, <2>7
<1> HIDE DEF Right
<1>3. T = Nat
  <2>1. ASSUME NEW m \in T PROVE m + 1 \in T
    <3>1. m \in Nat /\ (m + 1 <= Len(U) => m <= Len(U))
      BY <1>0
    <3> QED
      BY <1>2, <3>1
  <2>2. T \in SUBSET Nat /\ 0 \in T
    BY <1>1
  <2> HIDE DEF T
  <2> QED
    BY <2>1, <2>2, Induction
<1>4. n \in Nat /\ n <= Len(U) /\ n \in 0 .. n
  BY <1>0
<1>5. Right(n)
  BY <1>3, <1>4
<1> QED
  BY <1>4, <1>5 DEF Right

\* Tiles that are earlier in the units are earlier when they are joined.
LEMMA JoinedOrder ==
    ASSUME NEW R, NEW U \in Seq(Seq(R)), NEW f, Joins(f, U),
           NEW u \in 1 .. Len(U), NEW k \in DOMAIN U[u],
           NEW v \in 1 .. Len(U), NEW j \in DOMAIN U[v],
           u < v \/ (u = v /\ k < j)
    PROVE  At(f, u, k) < At(f, v, j)
<1>1. Len(U) \in Nat /\ U[u] \in Seq(R) /\ U[v] \in Seq(R)
  BY LenProperties, ElementOfSeq
<1>2. u \in 0 .. Len(U) /\ u - 1 \in 0 .. Len(U) /\ v - 1 \in 0 .. Len(U) /\ u \in 1 .. u /\ u \in 0 .. u
  BY <1>1
<1>3. k \in Nat \ {0} /\ j \in Nat \ {0}
  BY <1>1, LenProperties
<1>4. f[u - 1] \in Seq(R) /\ f[v - 1] \in Seq(R) /\ f[u] \in Seq(R)
  BY <1>2, JoinedTiles
<1>5. Len(f[u - 1]) \in Nat /\ Len(f[v - 1]) \in Nat /\ Len(f[u]) \in Nat
  BY <1>4, LenProperties
<1>6. CASE u = v
  BY <1>3, <1>5, <1>6 DEF At
<1>7. CASE u < v
  <2>1. u \in 0 .. v - 1
    BY <1>1, <1>7
  <2>2. Len(f[u]) <= Len(f[v - 1])
    BY <1>2, <2>1, JoinedTiles
  <2>3. FirstJoined(f, U, u)
    BY <1>2, JoinedTiles
  <2>4. At(f, u, k) <= Len(f[u]) /\ At(f, u, k) \in Nat
    <3>1. DOMAIN f[u] = 1 .. Len(f[u])
      BY <1>4, LenProperties
    <3>2. At(f, u, k) \in DOMAIN f[u]
      BY <1>2, <2>3 DEF FirstJoined
    <3> QED
      BY <1>5, <3>1, <3>2
  <2> QED
    BY <1>3, <1>5, <2>2, <2>4 DEF At
<1> QED
  BY <1>1, <1>6, <1>7

\* Tiles as the scheduler numbers them, and the order in which it was given them.
TilesIn(p) == UNION { {u} \X DOMAIN p.units[u] : u \in DOMAIN p.units }
RegionOf(p, t) == p.units[t[1]][t[2]]
Earlier(s, t) == s[1] < t[1] \/ (s[1] = t[1] /\ s[2] < t[2])

\* A tile is a pair of numbers.
LEMMA TileNumbers ==
    ASSUME NEW p \in Plans, NEW t \in TilesIn(p)
    PROVE  t = <<t[1], t[2]>> /\ t[1] \in Nat /\ t[2] \in Nat
<1>1. p.units \in Seq(Seq(AnyRegion))
  BY FileSinkRunAssumption DEF AnyRegion
<1>2. t = <<t[1], t[2]>> /\ t[1] \in DOMAIN p.units /\ t[2] \in DOMAIN p.units[t[1]]
  BY DEF TilesIn
<1>3. p.units[t[1]] \in Seq(AnyRegion) /\ t[1] \in Nat
  BY <1>1, <1>2, LenProperties, ElementOfSeq
<1>4. t[2] \in Nat
  BY <1>2, <1>3, LenProperties
<1> QED
  BY <1>2, <1>3, <1>4

\* at says where the tiles of p are in TilesOf(p): all of them, and in order.
Placed(p, at) ==
    /\ at \in [TilesIn(p) -> DOMAIN TilesOf(p)]
    /\ \A t \in TilesIn(p) : TilesOf(p)[at[t]] = RegionOf(p, t)
    /\ \A i \in DOMAIN TilesOf(p) : \E t \in TilesIn(p) : at[t] = i
    /\ \A s, t \in TilesIn(p) : Earlier(s, t) => at[s] < at[t]

LEMMA TilesPlaced ==
    ASSUME NEW p \in Plans
    PROVE  TilesOf(p) \in Seq(AnyRegion) /\ \E at : Placed(p, at)
<1>0. PICK U : U = p.units
  OBVIOUS
<1>1. U \in Seq(Seq(AnyRegion)) /\ Len(U) \in Nat /\ DOMAIN U = 1 .. Len(U)
  BY <1>0, FileSinkRunAssumption DEF AnyRegion
<1>2. PICK f : Joins(f, U) /\ TilesOf(p) = f[Len(U)]
  <2>1. \E f : f = [u \in 0 .. Len(p.units) |-> IF u = 0 THEN <<>> ELSE f[u - 1] \o p.units[u]]
    BY <1>0, <1>1, JoinsExist DEF Joins
  <2> QED
    BY <1>0, <2>1 DEF TilesOf, Joins
<1>3. f[Len(U)] \in Seq(AnyRegion) /\ FirstJoined(f, U, Len(U))
  <2>1. Len(U) \in 0 .. Len(U)
    BY <1>1
  <2> QED
    BY <1>1, <1>2, <2>1, JoinedTiles
<1>4. ASSUME NEW t PROVE t \in TilesIn(p) <=> /\ t = <<t[1], t[2]>> /\ t[1] \in 1 .. Len(U) /\ t[2] \in DOMAIN U[t[1]]
  BY <1>0, <1>1 DEF TilesIn
<1> DEFINE at == [t \in TilesIn(p) |-> At(f, t[1], t[2])]
<1>5. at \in [TilesIn(p) -> DOMAIN TilesOf(p)] /\ \A t \in TilesIn(p) : TilesOf(p)[at[t]] = RegionOf(p, t)
  BY <1>0, <1>2, <1>3, <1>4 DEF RegionOf, FirstJoined
<1>6. ASSUME NEW i \in DOMAIN TilesOf(p) PROVE \E t \in TilesIn(p) : at[t] = i
  <2>1. PICK u \in 1 .. Len(U) : \E k \in DOMAIN U[u] : i = At(f, u, k)
    BY <1>2, <1>3 DEF FirstJoined
  <2>2. PICK k \in DOMAIN U[u] : i = At(f, u, k)
    BY <2>1
  <2>3. <<u, k>> \in TilesIn(p)
    BY <1>4
  <2> QED
    BY <2>2, <2>3
<1>7. ASSUME NEW s \in TilesIn(p), NEW t \in TilesIn(p), Earlier(s, t) PROVE at[s] < at[t]
  <2>1. /\ s[1] \in 1 .. Len(U) /\ s[2] \in DOMAIN U[s[1]] /\ t[1] \in 1 .. Len(U) /\ t[2] \in DOMAIN U[t[1]]
        /\ s[1] < t[1] \/ (s[1] = t[1] /\ s[2] < t[2])
    BY <1>4, <1>7 DEF Earlier
  <2>2. At(f, s[1], s[2]) < At(f, t[1], t[2])
    BY <1>1, <1>2, <2>1, JoinedOrder
  <2> QED
    BY <2>2
<1>8. Placed(p, at)
  <2> HIDE DEF at
  <2> QED
    BY <1>5, <1>6, <1>7 DEF Placed
<1> QED
  BY <1>2, <1>3, <1>8

-----------------------------------------------------------------------------
(* Chains of regions.                                                      *)

\* r starts above s, or left of it in the same row of tiles.
Before(r, s) == r.y < s.y \/ (r.y = s.y /\ r.x < s.x)

LEMMA BeforeTransitive ==
    ASSUME NEW r \in AnyRegion, NEW s \in AnyRegion, NEW t \in AnyRegion, Before(r, s), Before(s, t)
    PROVE  Before(r, t)
<1>1. /\ r.x \in Int /\ r.y \in Int /\ s.x \in Int /\ s.y \in Int /\ t.x \in Int /\ t.y \in Int
  BY DEF AnyRegion
<1> QED
  BY <1>1 DEF Before

\* What starts where another region, which is not empty, ends comes after it.
LEMMA NextIsAfter ==
    ASSUME NEW r \in AnyRegion, NEW s \in AnyRegion,
           Origin(s) = AfterRegion(r, Width), r.width > 0, r.height > 0
    PROVE  Before(r, s)
<1>1. r.x \in Int /\ r.y \in Int /\ r.width \in Nat /\ r.height \in Nat
  BY DEF AnyRegion
<1>2. s.x = Origin(s).x /\ s.y = Origin(s).y
  BY DEF Origin
<1>3. (s.y = r.y + r.height) \/ (s.x = r.x + r.width /\ s.y = r.y)
  BY <1>2 DEF AfterRegion
<1> QED
  BY <1>1, <1>3 DEF Before

\* The regions of a chain start one after the other.
LEMMA ChainAscends ==
    ASSUME NEW b \in Seq(AnyRegion), CoversImage(b),
           NEW i \in 1 .. Len(b), NEW j \in 1 .. Len(b), i < j
    PROVE  Before(b[i], b[j])
<1> DEFINE T == { d \in Nat : i + d + 1 <= Len(b) => Before(b[i], b[i + d + 1]) }
<1>0. Len(b) \in Nat /\ DOMAIN b = 1 .. Len(b) /\ \A k \in 1 .. Len(b) : b[k] \in AnyRegion
  BY LenProperties, ElementOfSeq
<1>1. ASSUME NEW k \in 1 .. Len(b), k + 1 <= Len(b) PROVE Before(b[k], b[k + 1])
  <2>1. k \in 1 .. Len(b) - 1 /\ k \in DOMAIN b /\ k + 1 \in 1 .. Len(b)
    BY <1>0, <1>1
  <2>2. Origin(b[k + 1]) = AfterRegion(b[k], Width) /\ b[k].width > 0 /\ b[k].height > 0
    BY <2>1 DEF CoversImage, RasterChain
  <2>3. b[k] \in AnyRegion /\ b[k + 1] \in AnyRegion
    BY <1>0, <2>1
  <2> QED
    BY <2>2, <2>3, NextIsAfter
<1>2. T = Nat
  <2>1. i + 0 + 1 = i + 1
    BY <1>0
  <2>2. 0 \in T
    BY <1>1, <2>1
  <2>3. ASSUME NEW d \in T PROVE d + 1 \in T
    <3>1. SUFFICES ASSUME i + (d + 1) + 1 <= Len(b) PROVE Before(b[i], b[i + (d + 1) + 1])
      OBVIOUS
    <3> DEFINE k == i + d + 1
    <3>2. k \in 1 .. Len(b) /\ k + 1 <= Len(b) /\ k + 1 \in 1 .. Len(b) /\ i + (d + 1) + 1 = k + 1
      BY <1>0, <3>1
    <3>3. Before(b[i], b[k])
      BY <3>2
    <3> HIDE DEF k
    <3>4. Before(b[k], b[k + 1])
      BY <1>1, <3>2
    <3>5. b[i] \in AnyRegion /\ b[k] \in AnyRegion /\ b[k + 1] \in AnyRegion
      BY <1>0, <3>2
    <3>6. Before(b[i], b[k + 1])
      BY <3>3, <3>4, <3>5, BeforeTransitive
    <3> QED
      BY <3>2, <3>6
  <2>4. T \in SUBSET Nat
    OBVIOUS
  <2> HIDE DEF T
  <2> QED
    BY <2>2, <2>3, <2>4, Induction
<1>3. j - i - 1 \in Nat /\ i + (j - i - 1) + 1 = j
  BY <1>0
<1>4. j - i - 1 \in T
  BY <1>2, <1>3
<1> QED
  BY <1>0, <1>3, <1>4

\* So no two start at the same place.
LEMMA ChainOnce ==
    ASSUME NEW b \in Seq(AnyRegion), CoversImage(b),
           NEW i \in 1 .. Len(b), NEW j \in 1 .. Len(b), Origin(b[i]) = Origin(b[j])
    PROVE  i = j
<1>1. Len(b) \in Nat /\ b[i] \in AnyRegion /\ b[j] \in AnyRegion
  BY LenProperties, ElementOfSeq
<1>2. ~Before(b[i], b[j]) /\ ~Before(b[j], b[i])
  <2>1. /\ b[i].x \in Int /\ b[i].y \in Int
        /\ b[j].x = Origin(b[j]).x /\ b[j].y = Origin(b[j]).y
        /\ b[i].x = Origin(b[i]).x /\ b[i].y = Origin(b[i]).y
    BY <1>1 DEF Origin, AnyRegion
  <2>2. b[i].x = b[j].x /\ b[i].y = b[j].y
    BY <2>1
  <2> QED
    BY <2>1, <2>2 DEF Before
<1>3. ~(i < j) /\ ~(j < i)
  BY <1>2, ChainAscends
<1> QED
  BY <1>1, <1>3

\* A chain of tiles of the image is the beginning of the chain of all its tiles.
LEMMA ChainBeginning ==
    ASSUME NEW b \in Seq(AnyRegion), CoversImage(b),
           NEW S, NEW a \in Seq(S), RasterChain(a, Width),
           \A i \in DOMAIN a : \E j \in DOMAIN b : a[i] = b[j]
    PROVE  Len(a) <= Len(b) /\ \A i \in 1 .. Len(a) : a[i] = b[i]
<1> DEFINE T == { n \in Nat : n + 1 <= Len(a) => n + 1 <= Len(b) /\ a[n + 1] = b[n + 1] }
<1>0. /\ Len(a) \in Nat /\ DOMAIN a = 1 .. Len(a)
      /\ Len(b) \in Nat /\ DOMAIN b = 1 .. Len(b) /\ \A k \in 1 .. Len(b) : b[k] \in AnyRegion
  BY LenProperties, ElementOfSeq
<1>1. 0 \in T
  <2>1. SUFFICES ASSUME 0 + 1 <= Len(a) PROVE 0 + 1 <= Len(b) /\ a[0 + 1] = b[0 + 1]
    OBVIOUS
  <2>2. 1 \in DOMAIN a /\ 0 + 1 = 1
    BY <1>0, <2>1
  <2>3. PICK j \in DOMAIN b : a[1] = b[j]
    BY <2>2
  <2>4. 1 \in 1 .. Len(b) /\ j \in 1 .. Len(b) /\ a # <<>> /\ b # <<>>
    BY <1>0, <2>2, <2>3, EmptySeq
  <2>5. Origin(b[j]) = Origin(b[1])
    BY <2>3, <2>4 DEF RasterChain, CoversImage
  <2>6. j = 1
    BY <2>4, <2>5, ChainOnce
  <2> QED
    BY <1>0, <2>2, <2>3, <2>4, <2>6
<1>2. ASSUME NEW n \in T PROVE n + 1 \in T
  <2>1. SUFFICES ASSUME (n + 1) + 1 <= Len(a) PROVE (n + 1) + 1 <= Len(b) /\ a[(n + 1) + 1] = b[(n + 1) + 1]
    OBVIOUS
  <2> DEFINE k == n + 1
  <2>2. /\ k \in Nat \ {0} /\ k <= Len(b) /\ a[k] = b[k]
        /\ k \in 1 .. Len(a) - 1 /\ k + 1 \in DOMAIN a /\ k \in 1 .. Len(b)
    BY <1>0, <2>1
  <2> HIDE DEF k
  <2>3. PICK j \in DOMAIN b : a[k + 1] = b[j]
    BY <2>2
  <2>4. Origin(b[j]) = AfterRegion(b[k], Width) /\ j \in 1 .. Len(b)
    BY <1>0, <2>2, <2>3 DEF RasterChain
  <2>5. CASE k < Len(b)
    <3>1. k \in 1 .. Len(b) - 1 /\ k + 1 \in 1 .. Len(b)
      BY <1>0, <2>2, <2>5
    <3>2. Origin(b[k + 1]) = Origin(b[j])
      BY <2>4, <3>1 DEF CoversImage, RasterChain
    <3>3. j = k + 1
      BY <2>4, <3>1, <3>2, ChainOnce
    <3> QED
      BY <1>0, <2>3, <3>1, <3>3 DEF k
  <2>6. CASE ~(k < Len(b))
    <3>1. k = Len(b)
      <4>1. k \in Nat /\ Len(b) \in Nat /\ k <= Len(b)
        BY <1>0, <2>2
      <4> QED
        BY <2>6, <4>1
    <3>4. b # <<>>
      BY <2>2, <3>1
    <3>2. Origin(b[j]) = [x |-> 0, y |-> Height]
      BY <2>4, <3>1, <3>4 DEF CoversImage, AfterAll
    <3>3. b[j] \in AnyRegion /\ b[j].y = Height /\ b[j].height > 0 /\ b[j].y + b[j].height <= Height
      BY <1>0, <2>4, <3>2 DEF Origin, CoversImage, InBounds
    <3> QED
      BY <3>3, FileSinkRunAssumption DEF AnyRegion
  <2> QED
    BY <2>5, <2>6
<1>3. T = Nat
  <2>1. T \in SUBSET Nat
    OBVIOUS
  <2> HIDE DEF T
  <2> QED
    BY <1>1, <1>2, <2>1, Induction
<1>4. ASSUME NEW i \in 1 .. Len(a) PROVE i <= Len(b) /\ a[i] = b[i]
  <2>1. i - 1 \in Nat /\ (i - 1) + 1 = i /\ i <= Len(a)
    BY <1>0
  <2>2. i - 1 \in T
    BY <1>3, <2>1
  <2> QED
    BY <2>1, <2>2
<1>5. Len(a) <= Len(b)
  BY <1>0, <1>4
<1> QED
  BY <1>4, <1>5

-----------------------------------------------------------------------------
(* The components of the run.                                              *)

LEMMA PlanUnits ==
    ASSUME NEW p \in Plans, NEW u \in DOMAIN p.units, NEW k \in DOMAIN p.units[u]
    PROVE  p.units[u][k] \in AnyRegion
<1>1. PICK U : U = p.units
  OBVIOUS
<1>2. U \in Seq(Seq(AnyRegion))
  BY <1>1, FileSinkRunAssumption DEF AnyRegion
<1>3. U[u] \in Seq(AnyRegion)
  BY <1>1, <1>2, LenProperties, ElementOfSeq
<1>4. U[u][k] \in AnyRegion
  <2>1. PICK s \in Seq(AnyRegion) : s = U[u]
    BY <1>3
  <2>2. k \in 1 .. Len(s)
    BY <1>1, <2>1, LenProperties
  <2>3. s[k] \in AnyRegion
    BY <2>2, ElementOfSeq
  <2> QED
    BY <2>1, <2>3
<1> QED
  BY <1>1, <1>4

LEMMA RegionsAreRegions == Regions \subseteq AnyRegion
<1>1. ASSUME NEW r \in Regions PROVE r \in AnyRegion
  <2>1. \E p \in Plans : \E u \in DOMAIN p.units : \E k \in DOMAIN p.units[u] : r = p.units[u][k]
    BY DEF Regions
  <2> QED
    BY <2>1, PlanUnits
<1> QED
  BY <1>1

LEMMA SinkParameters == FP!FileSinkAssumption
  BY FileSinkRunAssumption, RegionsAreRegions DEF FP!FileSinkAssumption, FP!EncoderOutcomes, AnyRegion

LEMMA SchedulerParameters == SP!SchedulerAssumption
  BY FileSinkRunAssumption DEF SP!SchedulerAssumption, SP!TileOutcomes, SP!Workers, SinkSteps, Workers

\* What each component keeps, in a run of both.
Parts == SP!Inv /\ SP!HalvesAhead /\ FP!Inv

\* A step the scheduler takes without the sink.
LEMMA SchedulingSteps ==
    ASSUME NEW w \in Workers, Sched!Scheduling(w)
    PROVE  SP!Scheduling(w)
<1> USE DEF Sched!TakeLeaf, Sched!DropLeaf, Sched!Fail, Sched!NoLeaf, Sched!Scoped,
            SP!TakeLeaf, SP!DropLeaf, SP!Fail, SP!NoLeaf, SP!Scoped
<1>1. Sched!Pop(w) => SP!Pop(w)
  BY DEF Sched!Pop, SP!Pop
<1>2. ASSUME NEW v \in Workers, Sched!Steal(w, v) PROVE SP!Steal(w, v)
  BY <1>2 DEF Sched!Steal, SP!Steal, Sched!Team, SP!Team
<1>3. Sched!SkipWhenFull(w) => SP!SkipWhenFull(w)
  BY DEF Sched!SkipWhenFull, SP!SkipWhenFull
<1>4. Sched!Split(w) => SP!Split(w)
  BY DEF Sched!Split, SP!Split
<1>5. Sched!Begin(w) => SP!Begin(w)
  BY DEF Sched!Begin, SP!Begin
<1>6. Sched!PassToken(w) => SP!PassToken(w)
  BY DEF Sched!PassToken, SP!PassToken
<1>7. Sched!ObserveCancel(w) => SP!ObserveCancel(w)
  BY DEF Sched!ObserveCancel, SP!ObserveCancel
<1>8. Sched!Execute(w) => SP!Execute(w)
  BY DEF Sched!Execute, SP!Execute
<1>9. Sched!ExecuteFails(w) => SP!ExecuteFails(w)
  BY DEF Sched!ExecuteFails, SP!ExecuteFails
<1>10. Sched!ExecutePanics(w) => SP!ExecutePanics(w)
  BY DEF Sched!ExecutePanics, SP!ExecutePanics
<1>11. SP!Workers = Workers /\ Sched!Workers = Workers
  BY DEF SP!Workers, Sched!Workers, Workers
<1> QED
  BY <1>1, <1>2, <1>3, <1>4, <1>5, <1>6, <1>7, <1>8, <1>9, <1>10, <1>11 DEF Sched!Scheduling, SP!Scheduling

\* It is a step of one worker that neither is in the sink nor goes there.
OnlyMoves(w) ==
    /\ pc[w] # "writing" /\ pc'[w] # "writing"
    /\ \A v \in Workers : v # w => pc'[v] = pc[v] /\ leaf'[v] = leaf[v] /\ tile'[v] = tile[v]
    /\ UNCHANGED <<plan, phase, stored>>

LEMMA SchedulingMoves ==
    ASSUME SP!TypeOK, NEW w \in Workers, SP!Scheduling(w)
    PROVE  OnlyMoves(w)
<1> USE DEF OnlyMoves, SP!TakeLeaf, SP!DropLeaf, SP!Fail
<1>0. SP!Workers = Workers /\ pc \in [Workers -> SP!Pcs] /\ leaf \in [Workers -> Int \X Int] /\ tile \in [Workers -> Nat]
  BY DEF SP!TypeOK, SP!Workers, Workers
<1>1. CASE SP!Pop(w)
  BY <1>0, <1>1 DEF SP!Pop
<1>2. CASE \E v \in Workers : SP!Steal(w, v)
  BY <1>0, <1>2 DEF SP!Steal
<1>3. CASE SP!SkipWhenFull(w) \/ SP!ObserveCancel(w) \/ SP!ExecuteFails(w) \/ SP!ExecutePanics(w)
  BY <1>0, <1>3 DEF SP!SkipWhenFull, SP!ObserveCancel, SP!ExecuteFails, SP!ExecutePanics
<1>4. CASE SP!Split(w)
  BY <1>0, <1>4 DEF SP!Split
<1>5. CASE SP!Begin(w) \/ SP!PassToken(w) \/ SP!Execute(w)
  BY <1>0, <1>5 DEF SP!Begin, SP!PassToken, SP!Execute
<1> QED
  BY <1>0, <1>1, <1>2, <1>3, <1>4, <1>5 DEF SP!Scheduling

LEMMA MasterSteps ==
    ASSUME Sched!Master \/ Sched!Cancel
    PROVE  SP!Master \/ SP!Cancel
<1>1. Sched!Refuse => SP!Refuse
  BY DEF Sched!Refuse, SP!Refuse, Sched!handVars, SP!handVars
<1>2. Sched!Return => SP!Return
  BY DEF Sched!Return, SP!Return, Sched!handVars, SP!handVars, Sched!NothingLeft, SP!NothingLeft, Sched!Workers, SP!Workers
<1>3. Sched!Cancel => SP!Cancel
  BY DEF Sched!Cancel, SP!Cancel, Sched!handVars, SP!handVars, Sched!Cardinality, SP!Cardinality
<1>4. Sched!Start => SP!Start
  BY DEF Sched!Start, SP!Start, Sched!Team, SP!Team, Sched!Scoped, SP!Scoped, Sched!Units, SP!Units,
         Sched!NoLeaf, SP!NoLeaf, Sched!Workers, SP!Workers
<1> QED
  BY <1>1, <1>2, <1>3, <1>4 DEF Sched!Master, SP!Master

LEMMA AnswerSteps ==
    ASSUME NEW w \in Workers
    PROVE  /\ Sched!CallSink(w) => SP!CallSink(w)
           /\ Sched!SinkOk(w) => SP!SinkOk(w)
           /\ Sched!SinkErr(w) => SP!SinkErr(w)
<1> USE DEF Sched!DropLeaf, SP!DropLeaf, Sched!NoLeaf, SP!NoLeaf
<1>1. Sched!CallSink(w) => SP!CallSink(w)
  BY DEF Sched!CallSink, SP!CallSink
<1>2. Sched!SinkOk(w) => SP!SinkOk(w)
  BY DEF Sched!SinkOk, SP!SinkOk, Sched!Advance, SP!Advance, Sched!Current, SP!Current, Sched!Units, SP!Units
<1>3. Sched!SinkErr(w) => SP!SinkErr(w)
  BY DEF Sched!SinkErr, SP!SinkErr, Sched!Fail, SP!Fail, Sched!Scoped, SP!Scoped
<1> QED
  BY <1>1, <1>2, <1>3

\* The steps of the sink.
LEMMA CallSteps ==
    ASSUME NEW w \in Workers, Sink!CallStep(w) \/ Sink!SpuriousWake(w)
    PROVE  FP!CallStep(w) \/ FP!SpuriousWake(w)
<1> USE DEF Sink!MutexFree, FP!MutexFree, Sink!Return, FP!Return, Sink!Notified, FP!Notified,
            Sink!callVars, Sink!orderVars, Sink!chanVars, Sink!writerVars, Sink!ownerVars,
            FP!callVars, FP!orderVars, FP!chanVars, FP!writerVars, FP!ownerVars,
            Sink!Origin, FP!Origin, Sink!AfterRegion, FP!AfterRegion
<1>1. Sink!ReturnWriterError(w) => FP!ReturnWriterError(w)
  BY DEF Sink!ReturnWriterError, FP!ReturnWriterError
<1>2. Sink!TakeTurn(w) => FP!TakeTurn(w)
  BY DEF Sink!TakeTurn, FP!TakeTurn
<1>3. Sink!WaitForTurn(w) => FP!WaitForTurn(w)
  BY DEF Sink!WaitForTurn, FP!WaitForTurn
<1>4. Sink!Send(w) => FP!Send(w)
  BY DEF Sink!Send, FP!Send
<1>5. Sink!SendDisconnected(w) => FP!SendDisconnected(w)
  BY DEF Sink!SendDisconnected, FP!SendDisconnected
<1>6. Sink!SpuriousWake(w) => FP!SpuriousWake(w)
  BY DEF Sink!SpuriousWake, FP!SpuriousWake
<1> QED
  BY <1>1, <1>2, <1>3, <1>4, <1>5, <1>6 DEF Sink!CallStep, FP!CallStep

LEMMA WriterSteps == Sink!WriterStep => FP!WriterStep
<1> USE DEF Sink!MutexFree, FP!MutexFree, Sink!Notified, FP!Notified, Sink!ExitWriter, FP!ExitWriter,
            Sink!callVars, Sink!orderVars, Sink!chanVars, Sink!writerVars, Sink!ownerVars,
            FP!callVars, FP!orderVars, FP!chanVars, FP!writerVars, FP!ownerVars
<1>1. Sink!Receive => FP!Receive
  BY DEF Sink!Receive, FP!Receive
<1>2. Sink!Disconnected => FP!Disconnected
  BY DEF Sink!Disconnected, FP!Disconnected
<1>3. Sink!WriteOk => FP!WriteOk
  BY DEF Sink!WriteOk, FP!WriteOk
<1>4. Sink!FinishEncoder => FP!FinishEncoder
  BY DEF Sink!FinishEncoder, FP!FinishEncoder
<1>5. Sink!EncoderFails => FP!EncoderFails
  BY DEF Sink!EncoderFails, FP!EncoderFails
<1>6. Sink!EncoderPanics => FP!EncoderPanics
  BY DEF Sink!EncoderPanics, FP!EncoderPanics
<1>7. Sink!StoreWriterError => FP!StoreWriterError
  BY DEF Sink!StoreWriterError, FP!StoreWriterError
<1> QED
  BY <1>1, <1>2, <1>3, <1>4, <1>5, <1>6, <1>7 DEF Sink!WriterStep, FP!WriterStep

LEMMA OwnerSteps ==
    /\ Sink!Finish => FP!Finish
    /\ Sink!Join => FP!Join
    /\ Sink!Abandon => FP!Abandon
  BY DEF Sink!Finish, FP!Finish, Sink!Join, FP!Join, Sink!Abandon, FP!Abandon, Sink!NoCalls, FP!NoCalls,
         Sink!callVars, Sink!orderVars, Sink!chanVars, Sink!writerVars,
         FP!callVars, FP!orderVars, FP!chanVars, FP!writerVars

LEMMA BeginCalls ==
    ASSUME NEW w \in Workers, NEW r, Sink!Call(w, r)
    PROVE  FP!Call(w, r)
  BY DEF Sink!Call, FP!Call, Sink!Return, FP!Return, Sink!orderVars, Sink!chanVars, Sink!writerVars, Sink!ownerVars,
         FP!orderVars, FP!chanVars, FP!writerVars, FP!ownerVars, Sink!InBounds, FP!InBounds

\* A worker that is past the token has a tile of the plan in hand.
LEMMA HandHasTile ==
    ASSUME SP!TypeOK, NEW w \in Workers, pc[w] \notin {"seek", "fresh"}
    PROVE  /\ Sched!Current(w) \in TilesIn(plan)
           /\ Sched!CurrentRegion(w) = RegionOf(plan, Sched!Current(w))
           /\ Sched!CurrentRegion(w) \in Regions
<1>1. plan \in Plans /\ leaf[w] \in SP!Ranges /\ tile[w] \in DOMAIN plan.units[leaf[w][1]]
  BY DEF SP!TypeOK, SP!Workers, Workers, SP!Units
<1>2. leaf[w][1] \in DOMAIN plan.units
  <2>1. DOMAIN plan.units = 1 .. Len(plan.units)
    BY <1>1, FileSinkRunAssumption
  <2> QED
    BY <1>1, <2>1 DEF SP!Ranges, SP!Units
<1>3. Sched!Current(w) = <<leaf[w][1], tile[w]>> /\ Sched!CurrentRegion(w) = plan.units[leaf[w][1]][tile[w]]
  BY DEF Sched!Current, Sched!CurrentRegion, Sched!Units
<1> QED
  BY <1>1, <1>2, <1>3 DEF TilesIn, RegionOf, Regions

\* Every step of the run is, for each component, a step of its own or none.
LEMMA RunSteps ==
    ASSUME SP!TypeOK, [Next]_runVars
    PROVE  [SP!Next]_(SP!schedVars) /\ [FP!Next]_(FP!sinkVars)
<1>1. /\ UNCHANGED schedVars => UNCHANGED SP!schedVars
      /\ UNCHANGED sinkVars => UNCHANGED FP!sinkVars
  BY DEF schedVars, SP!schedVars, SP!handVars, sinkVars, FP!sinkVars, FP!callVars, FP!orderVars, FP!chanVars,
         FP!writerVars, FP!ownerVars
<1>2. SP!Workers = Workers
  BY DEF SP!Workers, Workers
<1>3. CASE UNCHANGED runVars
  BY <1>1, <1>3 DEF runVars
<1>4. CASE Master
  BY <1>1, <1>4, MasterSteps DEF Master, SP!Next
<1>5. CASE Writer
  BY <1>1, <1>5, WriterSteps DEF Writer, FP!Next
<1>6. CASE Close \/ Join
  BY <1>1, <1>6, OwnerSteps DEF Close, Join, FP!Next
<1>7. ASSUME NEW w \in Workers, Scheduling(w)
      PROVE  [SP!Next]_(SP!schedVars) /\ [FP!Next]_(FP!sinkVars)
  <2>1. SP!WorkerStep(w)
    BY <1>7, SchedulingSteps DEF Scheduling, SP!WorkerStep
  <2> QED
    BY <1>1, <1>2, <1>7, <2>1 DEF Scheduling, SP!Next
<1>8. ASSUME NEW w \in Workers, InCall(w) \/ Wake(w)
      PROVE  [SP!Next]_(SP!schedVars) /\ [FP!Next]_(FP!sinkVars)
  BY <1>1, <1>8, CallSteps DEF InCall, Wake, FP!Next
<1>9. ASSUME NEW w \in Workers, EndWrite(w)
      PROVE  [SP!Next]_(SP!schedVars) /\ [FP!Next]_(FP!sinkVars)
  <2>1. SP!WorkerStep(w)
    BY <1>9, AnswerSteps DEF EndWrite, SP!WorkerStep
  <2> QED
    BY <1>1, <1>2, <1>9, <2>1 DEF EndWrite, SP!Next
<1>10. ASSUME NEW w \in Workers, BeginWrite(w)
       PROVE  [SP!Next]_(SP!schedVars) /\ [FP!Next]_(FP!sinkVars)
  <2>1. SP!CallSink(w) /\ FP!Call(w, Sched!CurrentRegion(w))
    BY <1>10, AnswerSteps, BeginCalls DEF BeginWrite
  <2>2. pc[w] = "deliver"
    BY <2>1 DEF SP!CallSink
  <2>3. Sched!CurrentRegion(w) \in Regions
    BY <2>2, HandHasTile
  <2> QED
    BY <1>2, <2>1, <2>3 DEF SP!Next, SP!WorkerStep, FP!Next
<1> QED
  BY <1>3, <1>4, <1>5, <1>6, <1>7, <1>8, <1>9, <1>10 DEF Next, WorkerStep

LEMMA RunStarts == Init => SP!Init /\ FP!Init
  BY DEF Init, Sched!Init, SP!Init, Sched!NoLeaf, SP!NoLeaf, Sched!Workers, SP!Workers, Sink!Init, FP!Init,
         Sink!TopLeft, FP!TopLeft

LEMMA PartsStart == Init => Parts
<1>1. Init => SP!Inv /\ FP!Inv
  BY RunStarts, SchedulerParameters, SinkParameters, SP!InitInv, FP!InitInv
<1>2. Init => SP!HalvesAhead
  BY RunStarts DEF SP!Init, SP!HalvesAhead
<1> QED
  BY <1>1, <1>2 DEF Parts

LEMMA PartsKept == Parts /\ [Next]_runVars => Parts'
<1> SUFFICES ASSUME Parts, [Next]_runVars PROVE Parts'
  OBVIOUS
<1>1. SP!Inv /\ SP!HalvesAhead /\ FP!Inv /\ SP!TypeOK /\ SP!PhasesAgree
  BY DEF Parts, SP!Inv
<1>2. [SP!Next]_(SP!schedVars) /\ [FP!Next]_(FP!sinkVars)
  BY <1>1, RunSteps
<1>3. SP!Inv'
  BY <1>1, <1>2, SchedulerParameters, SP!StepInv
<1>4. SP!HalvesAhead'
  BY <1>1, <1>2, SchedulerParameters, SP!OrderKept
<1>5. FP!Inv'
  BY <1>1, <1>2, SinkParameters, FP!NextInv
<1> QED
  BY <1>3, <1>4, <1>5 DEF Parts

-----------------------------------------------------------------------------
(* What the components know of each other.                                 *)

Accepted(r) == \E i \in DOMAIN sent : sent[i] = r

\* The sink has said ok, and the worker has yet to look at that.
Answered(w) == pc[w] = "writing" /\ callPc[w] = "idle" /\ reply[w] = "ok"

\* A worker inside the sink is there with the tile it has in hand.
CallsMatch ==
    \A w \in Workers :
        /\ callPc[w] # "idle" => pc[w] = "writing" /\ arg[w] = Sched!CurrentRegion(w)
        /\ Answered(w) => Accepted(Sched!CurrentRegion(w))

\* What the scheduler takes for stored the sink has accepted, and the other way
\* round but for the answers that are on their way.
StoredAccepted == \A t \in stored : Accepted(RegionOf(plan, t))
AcceptedStored ==
    \A i \in DOMAIN sent : \E t \in TilesIn(plan) :
        /\ sent[i] = RegionOf(plan, t)
        /\ t \in stored \/ \E w \in Workers : Answered(w) /\ t = Sched!Current(w)

\* Only a run that was Ok is finished.
FinishedWhenOk == sinkPc \in {"joining", "closed"} => phase = "ok"

Coupled == CallsMatch /\ StoredAccepted /\ AcceptedStored /\ FinishedWhenOk

\* Steps that move no tile into the sink.
LEMMA CouplingStays ==
    ASSUME Coupled, UNCHANGED <<plan, stored, sent>>, FinishedWhenOk',
           \A v \in Workers :
              /\ Answered(v)' <=> Answered(v)
              /\ Answered(v) => leaf'[v] = leaf[v] /\ tile'[v] = tile[v]
              /\ callPc'[v] # "idle" =>
                    \/ /\ callPc[v] # "idle" /\ pc'[v] = pc[v] /\ arg'[v] = arg[v]
                       /\ leaf'[v] = leaf[v] /\ tile'[v] = tile[v]
                    \/ pc'[v] = "writing" /\ arg'[v] = Sched!CurrentRegion(v)'
    PROVE  Coupled'
<1> USE DEF Sched!CurrentRegion, Sched!Current, Sched!Units
<1>1. ASSUME NEW v \in Workers, callPc'[v] # "idle"
      PROVE  pc'[v] = "writing" /\ arg'[v] = Sched!CurrentRegion(v)'
  BY <1>1 DEF Coupled, CallsMatch
<1>2. ASSUME NEW v \in Workers, Answered(v)' PROVE Accepted(Sched!CurrentRegion(v))'
  BY <1>2 DEF Coupled, CallsMatch, Accepted
<1>3. CallsMatch'
  BY <1>1, <1>2 DEF CallsMatch
<1>4. StoredAccepted'
  BY DEF Coupled, StoredAccepted, Accepted, RegionOf
<1>5. ASSUME NEW i \in DOMAIN sent'
      PROVE  \E t \in TilesIn(plan') :
                /\ sent'[i] = RegionOf(plan', t)
                /\ t \in stored' \/ \E w \in Workers : Answered(w)' /\ t = Sched!Current(w)'
  <2>1. PICK t \in TilesIn(plan) : /\ sent[i] = RegionOf(plan, t)
                                   /\ t \in stored \/ \E w \in Workers : Answered(w) /\ t = Sched!Current(w)
    BY <1>5 DEF Coupled, AcceptedStored
  <2>2. \A w \in Workers : Answered(w) => Answered(w)' /\ Sched!Current(w)' = Sched!Current(w)
    OBVIOUS
  <2> QED
    BY <2>1, <2>2
<1>6. AcceptedStored'
  BY <1>5 DEF AcceptedStored
<1> QED
  BY <1>3, <1>4, <1>6 DEF Coupled

LEMMA SendCouples ==
    ASSUME Parts, Coupled, NEW w \in Workers, Sink!Send(w), UNCHANGED schedVars
    PROVE  Coupled'
<1> USE DEF Sched!CurrentRegion, Sched!Current, Sched!Units
<1>1. /\ callPc \in [Workers -> {"idle", "locking", "waiting", "sending"}]
      /\ arg \in [Workers -> Regions \cup {NoRegion}] /\ reply \in [Workers -> {"none", "ok", "err"}]
      /\ sent \in Seq(Regions) /\ pc \in [Workers -> SP!Pcs]
  BY DEF Parts, FP!Inv, FP!TypeOK, SP!Inv, SP!TypeOK, SP!Workers, Workers
<1>2. /\ callPc[w] = "sending" /\ sent' = Append(sent, arg[w]) /\ sinkPc' = sinkPc
      /\ UNCHANGED <<plan, pc, leaf, tile, stored, phase>>
      /\ callPc'[w] = "idle" /\ reply'[w] = "ok"
      /\ \A v \in Workers : v # w => /\ callPc'[v] = "idle" <=> callPc[v] = "idle"
                                     /\ arg'[v] = arg[v] /\ reply'[v] = reply[v]
  BY <1>1 DEF Sink!Send, Sink!Notified, Sink!Return, Sink!ownerVars, schedVars
<1>3. pc[w] = "writing" /\ arg[w] = Sched!CurrentRegion(w) /\ arg[w] \in Regions
  <2>1. pc[w] = "writing" /\ arg[w] = Sched!CurrentRegion(w)
    BY <1>2 DEF Coupled, CallsMatch
  <2>2. arg[w] \in Regions
    BY <1>2 DEF Parts, FP!Inv, FP!CallsWellFormed
  <2> QED
    BY <2>1, <2>2
<1>4. /\ Len(sent) \in Nat /\ DOMAIN sent = 1 .. Len(sent)
      /\ DOMAIN sent' = 1 .. Len(sent) + 1
      /\ sent'[Len(sent) + 1] = arg[w] /\ \A i \in 1 .. Len(sent) : sent'[i] = sent[i]
  BY <1>1, <1>2, <1>3, AppendProperties, LenProperties
<1>5. \A r : Accepted(r) => Accepted(r)'
  <2>1. \A i \in DOMAIN sent : i \in DOMAIN sent' /\ sent'[i] = sent[i]
    BY <1>4
  <2> QED
    BY <2>1 DEF Accepted
<1>6. Accepted(Sched!CurrentRegion(w))'
  <2>1. Len(sent) + 1 \in DOMAIN sent' /\ sent'[Len(sent) + 1] = Sched!CurrentRegion(w)'
    BY <1>2, <1>3, <1>4
  <2> QED
    BY <2>1 DEF Accepted
<1>7. CallsMatch'
  <2>1. ASSUME NEW v \in Workers, callPc'[v] # "idle"
        PROVE  pc'[v] = "writing" /\ arg'[v] = Sched!CurrentRegion(v)'
    BY <1>2, <2>1 DEF Coupled, CallsMatch
  <2>2. ASSUME NEW v \in Workers, Answered(v)' PROVE Accepted(Sched!CurrentRegion(v))'
    <3>1. CASE v = w
      BY <1>6, <3>1
    <3>2. CASE v # w
      <4>1. Answered(v)
        BY <1>2, <2>2, <3>2 DEF Answered
      <4>2. Accepted(Sched!CurrentRegion(v))
        BY <4>1 DEF Coupled, CallsMatch
      <4>3. Sched!CurrentRegion(v)' = Sched!CurrentRegion(v)
        BY <1>2
      <4> QED
        BY <1>5, <4>2, <4>3 DEF Accepted
    <3> QED
      BY <3>1, <3>2
  <2> QED
    BY <2>1, <2>2 DEF CallsMatch
<1>8. StoredAccepted'
  <2>1. ASSUME NEW t \in stored' PROVE Accepted(RegionOf(plan, t))'
    <3>1. Accepted(RegionOf(plan, t))
      BY <1>2, <2>1 DEF Coupled, StoredAccepted
    <3>2. Accepted(RegionOf(plan, t))' <=> \E i \in DOMAIN sent' : sent'[i] = RegionOf(plan, t)
      BY <1>2 DEF Accepted, RegionOf
    <3> QED
      BY <1>5, <3>1, <3>2 DEF Accepted
  <2> QED
    BY <2>1 DEF StoredAccepted
<1>9. AcceptedStored'
  <2>1. ASSUME NEW i \in DOMAIN sent'
        PROVE  \E t \in TilesIn(plan') :
                  /\ sent'[i] = RegionOf(plan', t)
                  /\ t \in stored' \/ \E v \in Workers : Answered(v)' /\ t = Sched!Current(v)'
    <3>1. CASE i \in DOMAIN sent
      <4>1. PICK t \in TilesIn(plan) : /\ sent[i] = RegionOf(plan, t)
                                       /\ t \in stored \/ \E v \in Workers : Answered(v) /\ t = Sched!Current(v)
        BY <3>1 DEF Coupled, AcceptedStored
      <4>2. \A v \in Workers : Answered(v) => Answered(v)' /\ Sched!Current(v)' = Sched!Current(v)
        BY <1>2 DEF Answered
      <4>3. sent'[i] = sent[i]
        BY <1>4, <3>1
      <4> QED
        BY <1>2, <4>1, <4>2, <4>3
    <3>2. CASE i \notin DOMAIN sent
      <4>1. i = Len(sent) + 1
        BY <1>4, <2>1, <3>2
      <4>2. Sched!Current(w) \in TilesIn(plan) /\ Sched!CurrentRegion(w) = RegionOf(plan, Sched!Current(w))
        BY <1>3, HandHasTile DEF Parts, SP!Inv
      <4>3. Answered(w)' /\ Sched!Current(w)' = Sched!Current(w)
        BY <1>2, <1>3 DEF Answered
      <4>4. sent'[i] = RegionOf(plan', Sched!Current(w)) /\ Sched!Current(w) \in TilesIn(plan')
        BY <1>2, <1>3, <1>4, <4>1, <4>2
      <4> QED
        BY <4>3, <4>4
    <3> QED
      BY <3>1, <3>2
  <2> QED
    BY <2>1 DEF AcceptedStored
<1>10. FinishedWhenOk'
  BY <1>2 DEF Coupled, FinishedWhenOk
<1> QED
  BY <1>7, <1>8, <1>9, <1>10 DEF Coupled

LEMMA BeginCouples ==
    ASSUME Parts, Coupled, NEW w \in Workers, BeginWrite(w)
    PROVE  Coupled'
<1>1. /\ callPc \in [Workers -> {"idle", "locking", "waiting", "sending"}]
      /\ arg \in [Workers -> Regions \cup {NoRegion}] /\ reply \in [Workers -> {"none", "ok", "err"}]
      /\ pc \in [Workers -> SP!Pcs]
  BY DEF Parts, FP!Inv, FP!TypeOK, SP!Inv, SP!TypeOK, SP!Workers, Workers
<1>2. /\ pc[w] = "deliver" /\ pc' = [pc EXCEPT ![w] = "writing"]
      /\ UNCHANGED <<plan, phase, leaf, tile, stored, sent, sinkPc>>
  BY DEF BeginWrite, Sched!CallSink, Sink!Call, Sink!ownerVars
<1>3. \/ /\ callPc'[w] = "locking" /\ arg'[w] = Sched!CurrentRegion(w) /\ reply'[w] = "none"
      \/ callPc'[w] = "idle" /\ reply'[w] = "err"
  BY <1>1 DEF BeginWrite, Sink!Call, Sink!Return
<1>4. \A v \in Workers : v # w => callPc'[v] = callPc[v] /\ arg'[v] = arg[v] /\ reply'[v] = reply[v]
  BY <1>1 DEF BeginWrite, Sink!Call, Sink!Return
<1>5. \A v \in Workers : v # w => pc'[v] = pc[v]
  BY <1>1, <1>2
<1>6. FinishedWhenOk'
  BY <1>2 DEF Coupled, FinishedWhenOk
<1>7. ASSUME NEW v \in Workers
      PROVE  /\ Answered(v)' <=> Answered(v)
             /\ callPc'[v] # "idle" =>
                   \/ /\ callPc[v] # "idle" /\ pc'[v] = pc[v] /\ arg'[v] = arg[v]
                      /\ leaf'[v] = leaf[v] /\ tile'[v] = tile[v]
                   \/ pc'[v] = "writing" /\ arg'[v] = Sched!CurrentRegion(v)'
  <2>1. CASE v = w
    BY <1>1, <1>2, <1>3, <2>1 DEF Answered, Sched!CurrentRegion, Sched!Units
  <2>2. CASE v # w
    BY <1>2, <1>4, <1>5, <2>2 DEF Answered
  <2> QED
    BY <2>1, <2>2
<1> QED
  BY <1>2, <1>6, <1>7, CouplingStays

\* The worker has looked at the answer and goes on, or ends its unit.
LEMMA EndCouples ==
    ASSUME Parts, Coupled, NEW w \in Workers, EndWrite(w)
    PROVE  Coupled'
<1>1. SP!TypeOK /\ pc \in [Workers -> SP!Pcs] /\ leaf \in [Workers -> Int \X Int] /\ tile \in [Workers -> Nat]
  BY DEF Parts, SP!Inv, SP!TypeOK, SP!Workers, Workers
<1>2. /\ pc[w] = "writing" /\ callPc[w] = "idle" /\ pc'[w] # "writing"
      /\ UNCHANGED <<plan, phase, sinkVars>>
      /\ \A v \in Workers : v # w => pc'[v] = pc[v] /\ leaf'[v] = leaf[v] /\ tile'[v] = tile[v]
  <2>1. CASE Sched!SinkOk(w)
    BY <1>1, <2>1 DEF EndWrite, Sched!SinkOk, Sched!Advance, Sched!DropLeaf
  <2>2. CASE Sched!SinkErr(w)
    BY <1>1, <2>2 DEF EndWrite, Sched!SinkErr, Sched!Fail, Sched!DropLeaf
  <2> QED
    BY <2>1, <2>2 DEF EndWrite
<1>3. UNCHANGED <<callPc, arg, reply, sent, sinkPc>>
  BY <1>2 DEF sinkVars
<1>4. FinishedWhenOk'
  BY <1>2, <1>3 DEF Coupled, FinishedWhenOk
<1>5. CASE reply[w] # "ok"
  <2>1. UNCHANGED stored
    BY <1>5 DEF EndWrite, Sched!SinkErr, Sched!Fail
  <2>2. \A v \in Workers : Answered(v)' <=> Answered(v)
    BY <1>2, <1>3, <1>5 DEF Answered
  <2>3. \A v \in Workers : Answered(v) => leaf'[v] = leaf[v] /\ tile'[v] = tile[v]
    BY <1>2, <1>5 DEF Answered
  <2>4. \A v \in Workers : callPc'[v] # "idle" => /\ callPc[v] # "idle" /\ pc'[v] = pc[v] /\ arg'[v] = arg[v]
                                                  /\ leaf'[v] = leaf[v] /\ tile'[v] = tile[v]
    BY <1>2, <1>3
  <2> QED
    BY <1>2, <1>3, <1>4, <2>1, <2>2, <2>3, <2>4, CouplingStays
<1>6. CASE reply[w] = "ok"
  <2>1. stored' = stored \cup {Sched!Current(w)}
    BY <1>6 DEF EndWrite, Sched!SinkOk
  <2>2. Answered(w)
    BY <1>2, <1>6 DEF Answered
  <2>3. ASSUME NEW v \in Workers, v # w
        PROVE  /\ Answered(v)' <=> Answered(v)
               /\ Sched!Current(v)' = Sched!Current(v) /\ Sched!CurrentRegion(v)' = Sched!CurrentRegion(v)
    BY <1>2, <1>3, <2>3 DEF Answered, Sched!Current, Sched!CurrentRegion, Sched!Units
  <2>4. ~Answered(w)'
    BY <1>2 DEF Answered
  <2>5. CallsMatch'
    <3>1. ASSUME NEW v \in Workers, callPc'[v] # "idle"
          PROVE  pc'[v] = "writing" /\ arg'[v] = Sched!CurrentRegion(v)'
      <4>1. v # w /\ callPc[v] # "idle"
        BY <1>2, <1>3, <3>1
      <4> QED
        BY <1>2, <1>3, <2>3, <4>1 DEF Coupled, CallsMatch
    <3>2. ASSUME NEW v \in Workers, Answered(v)' PROVE Accepted(Sched!CurrentRegion(v))'
      <4>1. v # w
        BY <2>4, <3>2
      <4>2. Accepted(Sched!CurrentRegion(v))
        BY <2>3, <3>2, <4>1 DEF Coupled, CallsMatch
      <4> QED
        BY <1>3, <2>3, <4>1, <4>2 DEF Accepted
    <3> QED
      BY <3>1, <3>2 DEF CallsMatch
  <2>6. StoredAccepted'
    <3>1. ASSUME NEW t \in stored' PROVE Accepted(RegionOf(plan, t))
      <4>1. CASE t \in stored
        BY <4>1 DEF Coupled, StoredAccepted
      <4>2. CASE t = Sched!Current(w)
        <5>1. Sched!CurrentRegion(w) = RegionOf(plan, t)
          BY <1>1, <1>2, <4>2, HandHasTile
        <5> QED
          BY <2>2, <5>1 DEF Coupled, CallsMatch
      <4> QED
        BY <2>1, <3>1, <4>1, <4>2
    <3> QED
      BY <1>2, <1>3, <3>1 DEF StoredAccepted, Accepted
  <2>7. ASSUME NEW i \in DOMAIN sent'
        PROVE  \E t \in TilesIn(plan') :
                  /\ sent'[i] = RegionOf(plan', t)
                  /\ t \in stored' \/ \E v \in Workers : Answered(v)' /\ t = Sched!Current(v)'
    <3>1. PICK t \in TilesIn(plan) : /\ sent[i] = RegionOf(plan, t)
                                     /\ t \in stored \/ \E v \in Workers : Answered(v) /\ t = Sched!Current(v)
      BY <1>3, <2>7 DEF Coupled, AcceptedStored
    <3>2. t \in stored' \/ \E v \in Workers : Answered(v)' /\ t = Sched!Current(v)'
      BY <2>1, <2>3, <3>1
    <3> QED
      BY <1>2, <1>3, <3>1, <3>2
  <2>8. AcceptedStored'
    BY <2>7 DEF AcceptedStored
  <2> QED
    BY <1>4, <2>5, <2>6, <2>8 DEF Coupled
<1> QED
  BY <1>5, <1>6

LEMMA CouplingKept == Parts /\ Coupled /\ [Next]_runVars => Coupled'
<1> SUFFICES ASSUME Parts, Coupled, [Next]_runVars PROVE Coupled'
  OBVIOUS
<1>1. /\ SP!TypeOK /\ SP!PhasesAgree
      /\ callPc \in [Workers -> {"idle", "locking", "waiting", "sending"}]
      /\ arg \in [Workers -> Regions \cup {NoRegion}] /\ reply \in [Workers -> {"none", "ok", "err"}]
      /\ pc \in [Workers -> SP!Pcs]
  BY DEF Parts, FP!Inv, FP!TypeOK, SP!Inv, SP!TypeOK, SP!Workers, Workers
<1>2. CASE UNCHANGED runVars
  BY <1>2, CouplingStays DEF runVars, schedVars, sinkVars, Answered, Coupled, FinishedWhenOk
<1>3. CASE Master
  <2>1. UNCHANGED <<callPc, arg, reply, sent, sinkPc>>
    BY <1>3 DEF Master, sinkVars
  <2>2. CASE Sched!Start
    <3>1. /\ phase = "new" /\ UNCHANGED <<plan, stored>>
          /\ \A v \in Workers : pc'[v] # "writing"
      BY <2>2 DEF Sched!Start, Sched!Workers, Workers
    <3>2. \A v \in Workers : pc[v] = "seek"
      BY <1>1, <3>1 DEF SP!PhasesAgree, SP!NothingLeft, SP!Workers, Workers
    <3>3. \A v \in Workers : callPc'[v] = "idle" /\ ~Answered(v)' /\ ~Answered(v)
      BY <2>1, <3>1, <3>2 DEF Coupled, CallsMatch, Answered
    <3>4. FinishedWhenOk'
      BY <2>1, <3>1 DEF Coupled, FinishedWhenOk
    <3> QED
      BY <2>1, <3>1, <3>3, <3>4, CouplingStays
  <2>3. CASE Sched!Refuse \/ Sched!Return \/ Sched!Cancel
    <3>1. UNCHANGED <<plan, pc, leaf, tile, stored>> /\ (phase = "ok" => phase' = "ok")
      BY <2>3 DEF Sched!Refuse, Sched!Return, Sched!Cancel, Sched!handVars
    <3>2. FinishedWhenOk'
      BY <2>1, <3>1 DEF Coupled, FinishedWhenOk
    <3> QED
      BY <2>1, <3>1, <3>2, CouplingStays DEF Answered
  <2> QED
    BY <1>3, <2>2, <2>3 DEF Master, Sched!Master
<1>4. CASE Writer \/ \E w \in Workers : Wake(w)
  <2>1. UNCHANGED <<plan, phase, pc, leaf, tile, stored>>
    BY <1>4 DEF Writer, Wake, schedVars
  <2>2. UNCHANGED <<arg, reply, sent, sinkPc>>
    BY <1>4 DEF Writer, Sink!WriterStep, Sink!Receive, Sink!Disconnected, Sink!WriteOk, Sink!FinishEncoder,
                Sink!EncoderFails, Sink!EncoderPanics, Sink!StoreWriterError, Sink!callVars, Sink!ownerVars,
                Wake, Sink!SpuriousWake
  <2>3. \A v \in Workers : callPc'[v] = "idle" <=> callPc[v] = "idle"
    <3>1. CASE UNCHANGED callPc \/ callPc' = Sink!Notified(callPc)
      BY <1>1, <3>1 DEF Sink!Notified
    <3>2. ASSUME NEW w \in Workers, Wake(w) PROVE \A v \in Workers : callPc'[v] = "idle" <=> callPc[v] = "idle"
      BY <1>1, <3>2 DEF Wake, Sink!SpuriousWake
    <3> QED
      BY <1>4, <3>1, <3>2
         DEF Writer, Sink!WriterStep, Sink!Receive, Sink!Disconnected, Sink!WriteOk, Sink!FinishEncoder,
             Sink!EncoderFails, Sink!EncoderPanics, Sink!StoreWriterError, Sink!callVars
  <2>4. FinishedWhenOk'
    BY <2>1, <2>2 DEF Coupled, FinishedWhenOk
  <2> QED
    BY <2>1, <2>2, <2>3, <2>4, CouplingStays DEF Answered
<1>5. CASE Close \/ Join
  <2>1. UNCHANGED <<plan, phase, pc, leaf, tile, stored, callPc, arg, reply, sent>>
    BY <1>5 DEF Close, Join, schedVars, Sink!Finish, Sink!Abandon, Sink!Join, Sink!callVars
  <2>2. FinishedWhenOk'
    BY <1>5, <2>1 DEF Close, Join, Sink!Finish, Sink!Abandon, Sink!Join, Coupled, FinishedWhenOk
  <2> QED
    BY <2>1, <2>2, CouplingStays DEF Answered
<1>6. ASSUME NEW w \in Workers, Scheduling(w) PROVE Coupled'
  <2>1. UNCHANGED <<callPc, arg, reply, sent, sinkPc>>
    BY <1>6 DEF Scheduling, sinkVars
  <2>2. OnlyMoves(w)
    BY <1>1, <1>6, SchedulingSteps, SchedulingMoves DEF Scheduling
  <2>3. FinishedWhenOk'
    BY <2>1, <2>2 DEF OnlyMoves, Coupled, FinishedWhenOk
  <2>4. callPc[w] = "idle"
    BY <2>2 DEF OnlyMoves, Coupled, CallsMatch
  <2> QED
    BY <2>1, <2>2, <2>3, <2>4, CouplingStays DEF OnlyMoves, Answered
<1>7. ASSUME NEW w \in Workers, InCall(w) PROVE Coupled'
  <2>1. UNCHANGED <<plan, phase, pc, leaf, tile, stored>> /\ UNCHANGED schedVars
    BY <1>7 DEF InCall, schedVars
  <2>2. CASE Sink!Send(w)
    BY <2>1, <2>2, SendCouples
  <2>3. CASE Sink!TakeTurn(w) \/ Sink!WaitForTurn(w)
    <3>1. UNCHANGED <<arg, reply, sent, sinkPc>> /\ \A v \in Workers : callPc'[v] = "idle" <=> callPc[v] = "idle"
      BY <1>1, <2>3 DEF Sink!TakeTurn, Sink!WaitForTurn, Sink!ownerVars
    <3>2. FinishedWhenOk'
      BY <2>1, <3>1 DEF Coupled, FinishedWhenOk
    <3> QED
      BY <2>1, <3>1, <3>2, CouplingStays DEF Answered
  <2>4. CASE Sink!ReturnWriterError(w) \/ Sink!SendDisconnected(w)
    <3>1. /\ callPc[w] # "idle" /\ callPc'[w] = "idle" /\ reply'[w] = "err" /\ UNCHANGED <<sent, sinkPc>>
          /\ \A v \in Workers : v # w => callPc'[v] = callPc[v] /\ arg'[v] = arg[v] /\ reply'[v] = reply[v]
      BY <1>1, <2>4 DEF Sink!ReturnWriterError, Sink!SendDisconnected, Sink!Return, Sink!ownerVars
    <3>2. FinishedWhenOk'
      BY <2>1, <3>1 DEF Coupled, FinishedWhenOk
    <3> QED
      BY <2>1, <3>1, <3>2, CouplingStays DEF Answered
  <2> QED
    BY <1>7, <2>2, <2>3, <2>4 DEF InCall, Sink!CallStep
<1> QED
  BY <1>2, <1>3, <1>4, <1>5, <1>6, <1>7, BeginCouples, EndCouples DEF Next, WorkerStep

LEMMA CouplingStarts == Init => Coupled
  BY DEF Init, Sched!Init, Sink!Init, Coupled, CallsMatch, StoredAccepted, AcceptedStored, FinishedWhenOk,
         Answered, Sched!Workers, Workers

\* The invariant of a run: what each component keeps, and what ties them.
RunInvariant == Parts /\ Coupled

\* Scheduler and sink agree on which tile is where, whatever fails in either.
THEOREM RunInvariantHolds == Spec => []RunInvariant
<1>1. Init => RunInvariant
  BY PartsStart, CouplingStarts DEF RunInvariant
<1>2. RunInvariant /\ [Next]_runVars => RunInvariant'
  BY PartsKept, CouplingKept DEF RunInvariant
<1> QED
  BY <1>1, <1>2, PTL DEF Spec

\* A run of both is a run of each: what is proved of the scheduler, with any sink
\* that answers, and of the sink, with any callers, holds of the threads they share.
THEOREM RunImplementsBoth == Spec => SP!Spec /\ FP!Spec
<1>1. Init => SP!Init /\ FP!Init
  BY RunStarts
<1>2. RunInvariant /\ [Next]_runVars => [SP!Next]_(SP!schedVars) /\ [FP!Next]_(FP!sinkVars)
  <2>1. RunInvariant => SP!TypeOK
    BY DEF RunInvariant, Parts, SP!Inv
  <2> QED
    BY <2>1, RunSteps
<1> QED
  BY <1>1, <1>2, RunInvariantHolds, PTL DEF Spec, SP!Spec, FP!Spec

-----------------------------------------------------------------------------
(* The image.                                                              *)

\* What the sink has accepted is the beginning of the planned image.
SentSoFar == Len(sent) <= Len(PlannedTiles) /\ \A i \in 1 .. Len(sent) : sent[i] = PlannedTiles[i]

LEMMA PlanCoversImage ==
    ASSUME RunInvariant
    PROVE  /\ plan \in Plans /\ SP!Tiles = TilesIn(plan)
           /\ PlannedTiles \in Seq(AnyRegion) /\ CoversImage(PlannedTiles)
           /\ \E at : Placed(plan, at)
<1>1. plan \in Plans
  BY DEF RunInvariant, Parts, SP!Inv, SP!TypeOK
<1>2. SP!Tiles = TilesIn(plan)
  BY DEF SP!Tiles, SP!Units, TilesIn
<1>3. CoversImage(PlannedTiles)
  BY <1>1, FileSinkRunAssumption DEF PlannedTiles
<1> QED
  BY <1>1, <1>2, <1>3, TilesPlaced DEF PlannedTiles

LEMMA SentBegins ==
    ASSUME RunInvariant
    PROVE  sent \in Seq(Regions) /\ SentSoFar
<1>1. sent \in Seq(Regions)
  BY DEF RunInvariant, Parts, FP!Inv, FP!TypeOK
<1>2. RasterChain(sent, Width)
  BY DEF RunInvariant, Parts, FP!Inv, FP!Log, FP!AcceptedInRasterOrder, FP!RasterChain, RasterChain,
         FP!Origin, Origin, FP!TopLeft, TopLeft, FP!AfterRegion, AfterRegion
<1>3. PICK at : Placed(plan, at)
  BY PlanCoversImage
<1>4. ASSUME NEW i \in DOMAIN sent PROVE \E j \in DOMAIN PlannedTiles : sent[i] = PlannedTiles[j]
  <2>1. PICK t \in TilesIn(plan) : sent[i] = RegionOf(plan, t)
    BY DEF RunInvariant, Coupled, AcceptedStored
  <2> QED
    BY <1>3, <2>1 DEF Placed, PlannedTiles
<1>5. PICK a \in Seq(Regions) : a = sent
  BY <1>1
<1>6. PICK b \in Seq(AnyRegion) : b = PlannedTiles /\ CoversImage(b)
  BY PlanCoversImage
<1>7. Len(a) <= Len(b) /\ \A i \in 1 .. Len(a) : a[i] = b[i]
  <2>1. RasterChain(a, Width) /\ \A i \in DOMAIN a : \E j \in DOMAIN b : a[i] = b[j]
    BY <1>2, <1>4, <1>5, <1>6
  <2> QED
    BY <1>6, <2>1, ChainBeginning
<1> QED
  BY <1>1, <1>5, <1>6, <1>7 DEF SentSoFar

\* Where an accepted tile of the plan is in what the sink has accepted.
LEMMA AcceptedAt ==
    ASSUME RunInvariant, NEW j \in DOMAIN PlannedTiles, Accepted(PlannedTiles[j])
    PROVE  j <= Len(sent)
<1>1. PICK b \in Seq(AnyRegion) : b = PlannedTiles /\ CoversImage(b)
  BY PlanCoversImage
<1>2. sent \in Seq(Regions) /\ Len(sent) <= Len(b) /\ \A i \in 1 .. Len(sent) : sent[i] = b[i]
  BY <1>1, SentBegins DEF SentSoFar
<1>3. PICK i \in DOMAIN sent : sent[i] = b[j]
  BY <1>1 DEF Accepted
<1>4. /\ Len(sent) \in Nat /\ i \in 1 .. Len(sent) /\ Len(b) \in Nat /\ j \in 1 .. Len(b) /\ i \in 1 .. Len(b)
  <2>1. Len(sent) \in Nat /\ i \in 1 .. Len(sent)
    BY <1>2, LenProperties
  <2>2. Len(b) \in Nat /\ j \in 1 .. Len(b)
    BY <1>1, LenProperties
  <2> QED
    BY <1>2, <2>1, <2>2
<1>5. b[i] = b[j]
  BY <1>2, <1>3, <1>4
<1>6. i = j
  BY <1>1, <1>4, <1>5, ChainOnce
<1> QED
  BY <1>4, <1>6

\* When finish has answered Ok, the encoder has got every tile of the image in
\* raster order: run_concurrent's Ok is what makes the sink's Ok mean a whole
\* image, which finish itself does not check.
THEOREM SavedImage == Spec => []SavedImageComplete
<1>1. ASSUME RunInvariant PROVE SavedImageComplete
  <2>1. SUFFICES ASSUME finishReply = "ok" PROVE written = PlannedTiles
    BY DEF SavedImageComplete
  <2>2. sinkPc = "closed" /\ written = sent
    BY <1>1, <2>1 DEF RunInvariant, Parts, FP!Inv, FP!ThreadsWellFormed
  <2>3. phase = "ok"
    BY <1>1, <2>2 DEF RunInvariant, Coupled, FinishedWhenOk
  <2>4. stored = TilesIn(plan)
    <3>1. SP!Inv => SP!OkMeansAllStored
      BY SchedulerParameters, SP!CompleteWhenOk
    <3> QED
      BY <1>1, <2>3, <3>1, PlanCoversImage DEF RunInvariant, Parts, SP!OkMeansAllStored
  <2>5. PICK at : Placed(plan, at)
    BY <1>1, PlanCoversImage
  <2>6. ASSUME NEW j \in DOMAIN PlannedTiles PROVE j <= Len(sent)
    <3>1. PICK t \in TilesIn(plan) : at[t] = j
      BY <2>5 DEF Placed, PlannedTiles
    <3>2. RegionOf(plan, t) = PlannedTiles[j]
      BY <2>5, <3>1 DEF Placed, PlannedTiles
    <3>3. Accepted(PlannedTiles[j])
      BY <1>1, <2>4, <3>2 DEF RunInvariant, Coupled, StoredAccepted
    <3> QED
      BY <1>1, <3>3, AcceptedAt
  <2>7. PICK b \in Seq(AnyRegion) : b = PlannedTiles
    BY <1>1, PlanCoversImage
  <2>8. sent \in Seq(Regions) /\ Len(sent) <= Len(b) /\ \A i \in 1 .. Len(sent) : sent[i] = b[i]
    BY <1>1, <2>7, SentBegins DEF SentSoFar
  <2>9. Len(sent) = Len(b)
    <3>1. Len(sent) \in Nat /\ Len(b) \in Nat /\ DOMAIN b = 1 .. Len(b)
      BY <2>7, <2>8, LenProperties
    <3>2. Len(b) # 0 => Len(b) <= Len(sent)
      BY <2>6, <2>7, <3>1
    <3> QED
      BY <2>8, <3>1, <3>2
  <2>10. sent = b
    BY <2>7, <2>8, <2>9, SeqEqual
  <2> QED
    BY <2>2, <2>7, <2>10
<1> QED
  BY <1>1, RunInvariantHolds, PTL

\* Tiles in hands and halves, as each instance of the scheduler names them.
LEMMA SameTiles ==
    /\ \A w : Sched!Held(w) = SP!Held(w)
    /\ \A w, i : Sched!Queued(w, i) = SP!Queued(w, i)
  BY DEF Sched!Held, SP!Held, Sched!Queued, SP!Queued, Sched!TilesFrom, SP!TilesFrom,
         Sched!Tiles, SP!Tiles, Sched!Units, SP!Units

\* The tile a worker takes to the sink is one it holds, the first of all it has.
LEMMA CurrentIsFirst ==
    ASSUME SP!TypeOK, SP!HalvesAhead, NEW w \in Workers, pc[w] = "writing"
    PROVE  /\ Sched!Current(w) \in SP!Held(w)
           /\ \A t \in SP!Held(w) : t = Sched!Current(w) \/ Earlier(Sched!Current(w), t)
           /\ \A i \in DOMAIN deque[w] : \A t \in SP!Queued(w, i) : Earlier(Sched!Current(w), t)
<1> DEFINE c == Sched!Current(w)
<1>1. /\ c = <<leaf[w][1], tile[w]>> /\ c \in TilesIn(plan) /\ SP!Tiles = TilesIn(plan)
      /\ leaf[w] \in SP!Ranges /\ deque[w] \in Seq(SP!Ranges)
  BY HandHasTile DEF Sched!Current, SP!TypeOK, SP!Workers, Workers, SP!Tiles, SP!Units, TilesIn
<1>2. plan.units \in Seq(Seq(AnyRegion)) /\ Len(plan.units) \in Nat
  BY FileSinkRunAssumption DEF SP!TypeOK, AnyRegion
<1>3. ASSUME NEW r \in SP!Ranges PROVE r[1] \in Nat /\ r[2] \in Nat /\ r[1] <= r[2]
  BY <1>2 DEF SP!Ranges, SP!Units
<1>4. ASSUME NEW t \in TilesIn(plan) PROVE t = <<t[1], t[2]>> /\ t[1] \in Nat /\ t[2] \in Nat
  BY TileNumbers DEF SP!TypeOK
<1>5. leaf[w][1] \in Nat /\ leaf[w][2] \in Nat /\ leaf[w][1] <= leaf[w][2] /\ tile[w] \in Nat
  BY <1>1, <1>3, <1>4
<1>6. SP!Held(w) = { t \in TilesIn(plan) : /\ leaf[w][1] <= t[1] /\ t[1] <= leaf[w][2]
                                           /\ t[1] = leaf[w][1] => t[2] >= tile[w] }
  BY <1>1 DEF SP!Held, SP!TilesFrom
<1>7. c \in SP!Held(w)
  BY <1>1, <1>5, <1>6
<1>8. ASSUME NEW t \in SP!Held(w) PROVE t = c \/ Earlier(c, t)
  <2>1. t = <<t[1], t[2]>> /\ t[1] \in Nat /\ t[2] \in Nat
    BY <1>4, <1>6
  <2>2. c[1] = leaf[w][1] /\ c[2] = tile[w]
    BY <1>1
  <2>3. t[1] > c[1] \/ (t[1] = c[1] /\ t[2] > c[2]) \/ (t[1] = c[1] /\ t[2] = c[2])
    BY <1>5, <1>6, <2>1, <2>2
  <2> HIDE DEF c
  <2> QED
    BY <1>1, <1>5, <2>1, <2>2, <2>3 DEF Earlier
<1>9. ASSUME NEW i \in DOMAIN deque[w], NEW t \in SP!Queued(w, i) PROVE Earlier(c, t)
  <2>1. deque[w][i] \in SP!Ranges
    BY <1>1, LenProperties, ElementOfSeq
  <2>2. t \in TilesIn(plan) /\ deque[w][i][1] <= t[1]
    BY <1>1 DEF SP!Queued, SP!TilesFrom
  <2>3. leaf[w][2] < deque[w][i][1]
    BY DEF SP!HalvesAhead, SP!Workers, Workers
  <2>4. c[1] < t[1]
    BY <1>1, <1>3, <1>4, <1>5, <2>1, <2>2, <2>3
  <2> HIDE DEF c
  <2> QED
    BY <2>4 DEF Earlier
<1> QED
  BY <1>7, <1>8, <1>9

\* A tile is in one place of the image only.
LEMMA TileIsItsRegion ==
    ASSUME RunInvariant, NEW s \in TilesIn(plan), NEW t \in TilesIn(plan), RegionOf(plan, s) = RegionOf(plan, t)
    PROVE  s = t
<1>1. PICK at : Placed(plan, at)
  BY PlanCoversImage
<1>2. PICK b \in Seq(AnyRegion) : b = PlannedTiles /\ CoversImage(b)
  BY PlanCoversImage
<1>3. at[s] \in DOMAIN b /\ at[t] \in DOMAIN b /\ b[at[s]] = b[at[t]]
  BY <1>1, <1>2 DEF Placed, PlannedTiles
<1>4. at[s] = at[t] /\ at[s] \in Nat
  <2>1. at[s] \in 1 .. Len(b) /\ at[t] \in 1 .. Len(b)
    BY <1>2, <1>3, LenProperties
  <2> QED
    BY <1>2, <1>3, <2>1, ChainOnce
<1>5. ~Earlier(s, t) /\ ~Earlier(t, s)
  BY <1>1, <1>4 DEF Placed
<1>6. ASSUME NEW x \in TilesIn(plan) PROVE x = <<x[1], x[2]>> /\ x[1] \in Nat /\ x[2] \in Nat
  BY PlanCoversImage, TileNumbers
<1>7. s[1] = t[1] /\ s[2] = t[2]
  <2>1. s[1] \in Nat /\ s[2] \in Nat /\ t[1] \in Nat /\ t[2] \in Nat
    BY <1>6
  <2> QED
    BY <1>5, <2>1 DEF Earlier
<1> QED
  BY <1>6, <1>7

\* While nothing has failed, the sink never waits for a tile that is stuck behind
\* a worker waiting for its turn: that worker's tile would be an earlier one, and
\* the earlier ones have been accepted.  So an ordered sink does not stop a run
\* whose halves are done youngest first.
THEOREM ExpectedTileReachable == Spec => []NextTileReachable
<1>1. ASSUME RunInvariant PROVE NextTileReachable
  <2> DEFINE j == Len(sent) + 1
             expected == PlannedTiles[j]
             Has(w)   == Sched!Held(w) \cup UNION { Sched!Queued(w, i) : i \in DOMAIN deque[w] }
  <2> SUFFICES ASSUME phase = "running", ~failed, Len(sent) < Len(PlannedTiles)
               PROVE  \E w \in Workers : /\ \E t \in Has(w) : RegionOf(plan, t) = expected
                                         /\ callPc[w] = "idle" \/ arg[w] = expected
    BY DEF NextTileReachable, RegionOf
  <2>1. PICK at : Placed(plan, at)
    BY <1>1, PlanCoversImage
  <2>2. /\ Len(sent) \in Nat /\ DOMAIN PlannedTiles = 1 .. Len(PlannedTiles) /\ j \in DOMAIN PlannedTiles
        /\ DOMAIN sent = 1 .. Len(sent)
    <3>1. sent \in Seq(Regions) /\ PlannedTiles \in Seq(AnyRegion)
      BY <1>1, SentBegins, PlanCoversImage
    <3> QED
      BY <3>1, LenProperties
  <2> HIDE DEF j
  <2>3. PICK t \in TilesIn(plan) : at[t] = j /\ RegionOf(plan, t) = expected
    BY <2>1, <2>2 DEF Placed, PlannedTiles
  <2>4. t \notin stored
    <3>1. SUFFICES ASSUME t \in stored PROVE FALSE
      OBVIOUS
    <3>2. Accepted(PlannedTiles[j])
      BY <1>1, <2>3, <3>1 DEF RunInvariant, Coupled, StoredAccepted
    <3>3. j <= Len(sent)
      BY <1>1, <2>2, <3>2, AcceptedAt
    <3> QED
      BY <2>2, <3>3 DEF j
  <2>5. /\ SP!TypeOK /\ SP!HalvesAhead /\ SP!OnePlace /\ SP!SomePlace
        /\ SP!EachTileHeldOnce
    <3>1. SP!TypeOK /\ SP!HalvesAhead /\ SP!OnePlace /\ SP!SomePlace
      BY <1>1 DEF RunInvariant, Parts, SP!Inv
    <3>2. SP!TypeOK => (SP!OnePlace <=> SP!EachTileHeldOnce)
      BY SchedulerParameters, SP!OnePlaceIsOnce
    <3> QED
      BY <3>1, <3>2
  <2>6. PICK w \in Workers : t \in SP!Held(w) \/ \E i \in DOMAIN deque[w] : t \in SP!Queued(w, i)
    <3>1. t \in SP!Tiles
      BY <1>1, <2>3, PlanCoversImage
    <3>2. PICK p \in SP!Places : t \in SP!TilesAt(p)
      BY <2>4, <2>5, <3>1 DEF SP!SomePlace
    <3>3. p[1] \in Workers
      BY <3>2 DEF SP!Places, SP!Workers, Workers
    <3> QED
      BY <3>2, <3>3 DEF SP!Places, SP!TilesAt
  <2>7. t \in Has(w)
    BY <2>6, SameTiles
  <2>8. ASSUME callPc[w] # "idle" PROVE arg[w] = expected
    <3> DEFINE c == Sched!Current(w)
    <3>1. pc[w] = "writing" /\ arg[w] = Sched!CurrentRegion(w)
      BY <1>1, <2>8 DEF RunInvariant, Coupled, CallsMatch
    <3>2. c \in TilesIn(plan) /\ arg[w] = RegionOf(plan, c)
      BY <2>5, <3>1, HandHasTile
    <3>3. c \in SP!Held(w) /\ (t = c \/ Earlier(c, t))
      BY <2>5, <2>6, <3>1, CurrentIsFirst
    <3> HIDE DEF c
    <3>4. ~Earlier(c, t)
      <4>1. SUFFICES ASSUME Earlier(c, t) PROVE FALSE
        OBVIOUS
      <4>2. at[c] < at[t] /\ at[c] \in DOMAIN PlannedTiles /\ PlannedTiles[at[c]] = RegionOf(plan, c)
        BY <2>1, <2>3, <3>2, <4>1 DEF Placed, PlannedTiles
      <4>3. at[c] \in 1 .. Len(sent)
        BY <2>2, <2>3, <4>2 DEF j
      <4>4. sent[at[c]] = RegionOf(plan, c)
        BY <1>1, <4>2, <4>3, SentBegins DEF SentSoFar
      <4>5. PICK s \in TilesIn(plan) :
               /\ sent[at[c]] = RegionOf(plan, s)
               /\ s \in stored \/ \E v \in Workers : Answered(v) /\ s = Sched!Current(v)
        BY <1>1, <2>2, <4>3 DEF RunInvariant, Coupled, AcceptedStored
      <4>6. s = c
        BY <1>1, <3>2, <4>4, <4>5, TileIsItsRegion
      <4>7. c \notin stored
        BY <2>5, <3>3 DEF SP!EachTileHeldOnce, SP!Workers, Workers
      <4>8. PICK v \in Workers : Answered(v) /\ c = Sched!Current(v)
        BY <4>5, <4>6, <4>7
      <4>9. v # w /\ pc[v] = "writing"
        BY <2>8, <4>8 DEF Answered
      <4>10. c \in SP!Held(v)
        BY <2>5, <4>8, <4>9, CurrentIsFirst
      <4> QED
        BY <2>5, <3>3, <4>9, <4>10 DEF SP!EachTileHeldOnce, SP!Workers, Workers
    <3> QED
      BY <2>3, <3>2, <3>3, <3>4
  <2> QED
    BY <2>3, <2>7, <2>8
<1> QED
  BY <1>1, RunInvariantHolds, PTL

=============================================================================
