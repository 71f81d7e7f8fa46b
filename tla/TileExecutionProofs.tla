------------------------ MODULE TileExecutionProofs -------------------------
(***************************************************************************)
(* Proofs about compiled pipelines and the tiles they are executed on.     *)
(* For every graph, whatever order reorder_dag picks and however buffers   *)
(* are handed on, a reader finds what its producer wrote, and reads below  *)
(* what it writes.  For graphs with sound views and no point sampling,     *)
(* every tile that reaches the sink and every entry of the shared cache    *)
(* holds the rows of the image the graph stands for.  If the graph's sizes *)
(* fit together as well, no step takes a slice beyond the end of what it   *)
(* is taken from.                                                          *)
(***************************************************************************)
EXTENDS TileExecution, TLAPS, FiniteSetTheorems, WellFoundedInduction

Formats == {graph[n].fmt : n \in GraphNodes}

Slots == UNION {[D -> Nat] : D \in SUBSET (1..2)}

NodeType ==
  [op : {graph[n] : n \in GraphNodes}, in : Slots, up : Slots, prod : Slots,
   out : Nat, cached : BOOLEAN]

CompileTypeOK ==
  /\ graph \in Graphs
  /\ phase \in {"order", "owners", "buffers", "compiled"}
  /\ order \in Seq(GraphNodes)
  /\ scanned \in 0..Len(order)
  /\ owner \in [GraphNodes -> {0} \cup GraphNodes]
  /\ pending \in [GraphNodes -> SUBSET Reads(graph)]
  /\ nodes \in Seq(NodeType)
  /\ Len(nodes) <= Len(order)
  /\ outBuf \in [GraphNodes -> 0..maxBuf]
  /\ free \subseteq (1..maxBuf) \X Formats
  /\ maxBuf \in Nat

\* A node stands once in the order, after all it reads.
OrderInv ==
  /\ \A j, k \in 1..Len(order) : order[j] = order[k] => j = k
  /\ \A k \in 1..Len(order) : \A s \in DOMAIN graph[order[k]].in :
       \/ graph[order[k]].in[s] = 0
       \/ \E j \in 1..(k - 1) : order[j] = graph[order[k]].in[s]
  /\ phase # "order" => \A n \in GraphNodes : \E k \in 1..Len(order) : order[k] = n
  /\ phase = "order" => scanned = 0
  /\ phase = "owners" => scanned < Len(order)
  /\ phase \in {"order", "owners"} => nodes = <<>>
  /\ phase \in {"buffers", "compiled"} => scanned = Len(order)

Seen(n) == \E k \in 1..scanned : order[k] = n

Compiled(n) == \E k \in 1..Len(nodes) : order[k] = n

Transform(n) == ~IsView(graph[n])

OwnerInv ==
  \A k \in 1..scanned :
    /\ owner[order[k]] = IF IsView(graph[order[k]]) THEN OwnerRead(order[k], 1) ELSE order[k]
    /\ owner[order[k]] # 0 =>
         /\ Transform(owner[order[k]])
         /\ \E j \in 1..k : order[j] = owner[order[k]]

\* What is pending on a buffer is every read of it by a transform that the scan
\* has met, and, once nodes are compiled, that is not compiled yet.
PendingInv ==
  \A o \in GraphNodes : \A r \in Reads(graph) :
    r \in pending[o] <=> /\ Transform(r[1])
                         /\ OwnerRead(r[1], r[2]) = o
                         /\ Seen(r[1])
                         /\ ~Compiled(r[1])

\* No transform reads the buffer of n: it is the output's, or nobody's.
Unread(n) == \A r \in Reads(graph) : Transform(r[1]) => OwnerRead(r[1], r[2]) # n

Live(n) == Transform(n) /\ (pending[n] # {} \/ Unread(n))

\* The buffer of a compiled node is its owner's, and its record says so.
RecordInv ==
  \A k \in 1..Len(nodes) :
    /\ outBuf[order[k]] = IF owner[order[k]] = 0 THEN 0 ELSE outBuf[owner[order[k]]]
    /\ Transform(order[k]) => outBuf[order[k]] >= 1
    /\ nodes[k].op = graph[order[k]]
    /\ nodes[k].out = outBuf[order[k]]
    /\ DOMAIN nodes[k].in = DOMAIN graph[order[k]].in
    /\ DOMAIN nodes[k].prod = DOMAIN graph[order[k]].in

\* A live buffer is not free, is in no other live node's hands, and was not
\* written since its owner wrote it.
FreeInv ==
  /\ \A f, g \in free : f[1] = g[1] => f = g
  /\ \A k \in 1..Len(nodes) : Live(order[k]) =>
       /\ \A f \in free : f[1] # outBuf[order[k]]
       /\ \A m \in (k + 1)..Len(nodes) :
            Transform(order[m]) => outBuf[order[m]] # outBuf[order[k]]

BufferInv ==
  /\ CompileTypeOK
  /\ OrderInv
  /\ OwnerInv
  /\ PendingInv
  /\ RecordInv
  /\ FreeInv
  /\ BuffersHandedOnAfterLastRead
  /\ InputsBelowOutput
-----------------------------------------------------------------------------
LEMMA GraphFacts ==
  ASSUME CompileTypeOK
  PROVE  /\ GraphNodes = 1..Len(graph)
         /\ Len(graph) \in Nat
         /\ \A n \in GraphNodes :
              /\ DOMAIN graph[n].in \in SUBSET (1..2)
              /\ \A s \in DOMAIN graph[n].in : graph[n].in[s] \in {0} \cup GraphNodes
              /\ IsView(graph[n]) => DOMAIN graph[n].in = {1}
  BY GraphsAssumption DEF CompileTypeOK, GraphNodes, IsView

LEMMA InitBufferInv == Init => BufferInv
<1> SUFFICES ASSUME Init PROVE BufferInv
  OBVIOUS
<1>1. CompileTypeOK
  <2>1. GraphNodes = 1..Len(graph) /\ Len(graph) \in Nat
    BY GraphsAssumption DEF Init, GraphNodes
  <2>2. pending \in [GraphNodes -> SUBSET Reads(graph)]
    BY DEF Init, GraphNodes
  <2>3. outBuf \in [GraphNodes -> 0..maxBuf] /\ owner \in [GraphNodes -> {0} \cup GraphNodes]
    BY DEF Init, GraphNodes
  <2> QED
    BY <2>1, <2>2, <2>3 DEF Init, CompileTypeOK
<1>2. OrderInv
  <2>1. CASE graph = <<>>
    BY <2>1 DEF Init, OrderInv, GraphNodes
  <2>2. CASE graph # <<>>
    BY <2>2 DEF Init, OrderInv, GraphNodes
  <2> QED
    BY <2>1, <2>2
<1>3. PendingInv
  BY DEF Init, PendingInv, Seen, GraphNodes
<1>4. OwnerInv /\ RecordInv /\ FreeInv
  BY DEF Init, OwnerInv, RecordInv, FreeInv
<1>5. BuffersHandedOnAfterLastRead /\ InputsBelowOutput
  BY DEF Init, BuffersHandedOnAfterLastRead, InputsBelowOutput
<1> QED
  BY <1>1, <1>2, <1>3, <1>4, <1>5 DEF BufferInv

\* reorder_dag emits a node that is new and reads only emitted ones.
LEMMA EmitBufferInv == BufferInv /\ Emit => BufferInv'
<1> SUFFICES ASSUME BufferInv, Emit PROVE BufferInv'
  OBVIOUS
<1> USE DEF BufferInv
<1>0. PICK n \in Ready :
        /\ order' = Append(order, n)
        /\ phase' = IF Emitted \cup {n} = GraphNodes THEN "owners" ELSE "order"
  BY DEF Emit
<1>1. /\ UNCHANGED <<graph, scanned, owner, pending, nodes, outBuf, free, maxBuf>>
      /\ phase = "order"
  BY DEF Emit
<1>2. n \in GraphNodes /\ GraphNodes' = GraphNodes
  BY <1>1 DEF Ready, GraphNodes
<1>3. /\ order \in Seq(GraphNodes) /\ order' \in Seq(GraphNodes)
      /\ Len(order') = Len(order) + 1 /\ Len(order) \in Nat
      /\ \A k \in 1..Len(order) : order'[k] = order[k]
      /\ order'[Len(order) + 1] = n
  BY <1>0, <1>2 DEF CompileTypeOK
<1>4. scanned = 0 /\ nodes = <<>> /\ Len(nodes) = 0
  BY <1>1 DEF OrderInv
<1>5. CompileTypeOK'
  BY <1>0, <1>1, <1>2, <1>3, <1>4 DEF CompileTypeOK, Reads, NodeType, Slots, Formats
<1>6. OrderInv'
  <2>1. \A k \in 1..Len(order) : order[k] # n
    BY <1>0, <1>3 DEF Ready, Emitted
  <2>0. /\ \A j, k \in 1..Len(order) : order[j] = order[k] => j = k
        /\ \A k \in 1..Len(order) : \A s \in DOMAIN graph[order[k]].in :
             \/ graph[order[k]].in[s] = 0
             \/ \E j \in 1..(k - 1) : order[j] = graph[order[k]].in[s]
    BY DEF OrderInv
  <2>2. ASSUME NEW j \in 1..Len(order'), NEW k \in 1..Len(order'), order'[j] = order'[k]
        PROVE  j = k
    <3>1. CASE j \in 1..Len(order) /\ k \in 1..Len(order)
      BY <3>1, <2>0, <2>2, <1>3
    <3>2. CASE j = Len(order) + 1 /\ k # j
      BY <3>2, <2>1, <2>2, <1>3
    <3>3. CASE k = Len(order) + 1 /\ k # j
      BY <3>3, <2>1, <2>2, <1>3
    <3> QED
      BY <3>1, <3>2, <3>3, <1>3
  <2>3. ASSUME NEW s \in DOMAIN graph[n].in, graph[n].in[s] # 0
        PROVE  \E j \in 1..Len(order) : order[j] = graph[n].in[s]
    <3>1. <<n, s>> \in ReadsBy(n)
      BY <2>3, <1>2, GraphFacts DEF ReadsBy, Reads, GraphNodes
    <3>2. Upstream(<<n, s>>) \in Emitted
      BY <3>1, <1>0 DEF Ready
    <3>3. graph[n].in[s] \in Emitted
      BY <3>2 DEF Upstream
    <3> QED
      BY <3>3, <1>3 DEF Emitted
  <2>4. ASSUME NEW k \in 1..Len(order'), NEW s \in DOMAIN graph[order'[k]].in,
               graph[order'[k]].in[s] # 0
        PROVE  \E j \in 1..(k - 1) : order'[j] = graph[order'[k]].in[s]
    <3>1. CASE k \in 1..Len(order)
      <4>0. order'[k] = order[k]
        BY <3>1, <1>3
      <4>1. PICK j \in 1..(k - 1) : order[j] = graph[order[k]].in[s]
        BY <4>0, <3>1, <2>4, <2>0
      <4> QED
        BY <4>0, <4>1, <3>1, <1>3
    <3>2. CASE k = Len(order) + 1
      BY <3>2, <2>3, <2>4, <1>3
    <3> QED
      BY <3>1, <3>2, <1>3
  <2>5. phase' # "order" => \A m \in GraphNodes : \E k \in 1..Len(order') : order'[k] = m
    BY <1>0, <1>3 DEF Emitted
  <2> QED
    <3>1. \A k \in 1..Len(order') : \A s \in DOMAIN graph[order'[k]].in :
            \/ graph[order'[k]].in[s] = 0
            \/ \E j \in 1..(k - 1) : order'[j] = graph[order'[k]].in[s]
      BY <2>4
    <3>2. \A j, k \in 1..Len(order') : order'[j] = order'[k] => j = k
      BY <2>2
    <3>3. phase' \in {"order", "owners"}
      BY <1>0
    <3>4. phase' # "order" => \A m \in GraphNodes' : \E k \in 1..Len(order') : order'[k] = m
      BY <2>5, <1>2
    <3>5. scanned' = 0 /\ nodes' = <<>> /\ graph' = graph /\ Len(order') > 0
      BY <1>1, <1>3, <1>4
    <3> QED
      BY <3>1, <3>2, <3>3, <3>4, <3>5 DEF OrderInv
<1>7. PendingInv'
  BY <1>1, <1>2, <1>4 DEF PendingInv, Seen, Compiled, Transform, OwnerRead, Reads
<1>8. OwnerInv' /\ RecordInv' /\ FreeInv'
  BY <1>1, <1>4 DEF OwnerInv, RecordInv, FreeInv
<1>9. BuffersHandedOnAfterLastRead' /\ InputsBelowOutput'
  BY <1>1 DEF BuffersHandedOnAfterLastRead, InputsBelowOutput, IsTransform
<1> QED
  BY <1>5, <1>6, <1>7, <1>8, <1>9

\* The scan meets a node after all it reads: what owned their buffers is settled.
LEMMA FindOwnerBufferInv == BufferInv /\ FindOwner => BufferInv'
<1> SUFFICES ASSUME BufferInv, FindOwner PROVE BufferInv'
  OBVIOUS
<1> USE DEF BufferInv
<1> DEFINE n == order[scanned + 1]
<1>1. /\ UNCHANGED <<graph, order, nodes, outBuf, free, maxBuf>>
      /\ phase = "owners"
      /\ owner' = [owner EXCEPT ![n] = IF IsView(graph[n]) THEN OwnerRead(n, 1) ELSE n]
      /\ pending' = [o \in GraphNodes |->
                       pending[o] \cup {r \in ReadsBy(n) : /\ ~IsView(graph[n])
                                                           /\ OwnerRead(n, r[2]) = o}]
      /\ scanned' = scanned + 1
      /\ phase' = IF scanned + 1 = Len(order) THEN "buffers" ELSE "owners"
  BY DEF FindOwner
<1>2. nodes = <<>> /\ Len(nodes) = 0
  BY <1>1 DEF OrderInv
<1>3. /\ order \in Seq(GraphNodes) /\ Len(order) \in Nat /\ scanned \in 0..Len(order)
      /\ owner \in [GraphNodes -> {0} \cup GraphNodes]
      /\ pending \in [GraphNodes -> SUBSET Reads(graph)]
  BY DEF CompileTypeOK
<1>4. /\ n \in GraphNodes
      /\ scanned + 1 \in 1..Len(order)
      /\ \A k \in 1..Len(order) : order[k] = n => k = scanned + 1
  BY <1>1, <1>3, SMTT(30) DEF OrderInv
<1>5. ~Seen(n)
  BY <1>3, <1>4 DEF Seen
<1>6. \A m : Seen(m)' <=> Seen(m) \/ m = n
  BY <1>1, <1>3, <1>4 DEF Seen
<1>7. ASSUME NEW k \in 1..(scanned + 1), NEW s \in DOMAIN graph[order[k]].in,
             graph[order[k]].in[s] # 0
      PROVE  \E j \in 1..(k - 1) : /\ order[j] = graph[order[k]].in[s]
                                   /\ order[j] # n
                                   /\ order[j] \in GraphNodes
  <2>1. k \in 1..Len(order)
    BY <1>3, <1>4
  <2>2. PICK j \in 1..(k - 1) : order[j] = graph[order[k]].in[s]
    BY <2>1, <1>7 DEF OrderInv
  <2>3. j \in 1..Len(order) /\ j # scanned + 1
    BY <2>1, <2>2, <1>3
  <2> QED
    BY <2>2, <2>3, <1>3, <1>4
<1>8. ASSUME NEW k \in 1..(scanned + 1), NEW s \in DOMAIN graph[order[k]].in
      PROVE  OwnerRead(order[k], s)' = OwnerRead(order[k], s)
  <2>1. CASE graph[order[k]].in[s] = 0
    BY <2>1, <1>1 DEF OwnerRead
  <2>2. CASE graph[order[k]].in[s] # 0
    <3>1. PICK j \in 1..(k - 1) : /\ order[j] = graph[order[k]].in[s]
                                  /\ order[j] # n
                                  /\ order[j] \in GraphNodes
      BY <2>2, <1>7
    <3>2. owner'[order[j]] = owner[order[j]]
      BY <3>1, <1>1, <1>3
    <3> QED
      BY <3>1, <3>2, <2>2, <1>1 DEF OwnerRead
  <2> QED
    BY <2>1, <2>2
<1>9. ASSUME NEW s \in DOMAIN graph[n].in, OwnerRead(n, s) # 0
      PROVE  /\ OwnerRead(n, s) \in GraphNodes
             /\ Transform(OwnerRead(n, s))
             /\ \E i \in 1..scanned : order[i] = OwnerRead(n, s)
  <2>1. graph[n].in[s] # 0 /\ OwnerRead(n, s) = owner[graph[n].in[s]]
    BY <1>9 DEF OwnerRead
  <2>2. PICK j \in 1..scanned : order[j] = graph[n].in[s] /\ order[j] \in GraphNodes
    <3>1. scanned + 1 \in 1..(scanned + 1) /\ (scanned + 1) - 1 = scanned
      BY <1>3
    <3> QED
      BY <3>1, <2>1, <1>7
  <2>3. Transform(owner[order[j]]) /\ \E i \in 1..j : order[i] = owner[order[j]]
    BY <2>1, <2>2, <1>9 DEF OwnerInv
  <2> QED
    BY <2>1, <2>2, <2>3, <1>3, <1>9
<1>10. IsView(graph[n]) => DOMAIN graph[n].in = {1}
  BY <1>4, GraphFacts
<1>11. CompileTypeOK'
  <2>1. owner' \in [GraphNodes -> {0} \cup GraphNodes]
    <3>1. OwnerRead(n, 1) \in {0} \cup GraphNodes \/ ~IsView(graph[n])
      BY <1>9, <1>10
    <3> QED
      BY <3>1, <1>1, <1>3, <1>4
  <2>2. pending' \in [GraphNodes -> SUBSET Reads(graph)]
    BY <1>1, <1>3 DEF ReadsBy
  <2>3. scanned' \in 0..Len(order)
    BY <1>1, <1>3, <1>4
  <2> QED
    BY <2>1, <2>2, <2>3, <1>1, <1>2 DEF CompileTypeOK, GraphNodes, Formats, NodeType, Slots
<1>12. OrderInv'
  <2>1. phase' \in {"owners", "buffers"} /\ (phase' = "buffers" <=> scanned' = Len(order))
    BY <1>1, <1>3
  <2>2. scanned' <= Len(order)
    BY <1>1, <1>3, <1>4
  <2>3. /\ \A j, k \in 1..Len(order) : order[j] = order[k] => j = k
        /\ \A k \in 1..Len(order) : \A s \in DOMAIN graph[order[k]].in :
             \/ graph[order[k]].in[s] = 0
             \/ \E j \in 1..(k - 1) : order[j] = graph[order[k]].in[s]
        /\ \A m \in GraphNodes : \E k \in 1..Len(order) : order[k] = m
    BY <1>1 DEF OrderInv
  <2>4. graph' = graph /\ order' = order /\ nodes' = <<>> /\ GraphNodes' = GraphNodes
    BY <1>1, <1>2 DEF GraphNodes
  <2>5. phase' = "owners" => scanned' < Len(order)
    BY <2>1, <2>2, <1>1, <1>3
  <2> QED
    BY <2>1, <2>3, <2>4, <2>5 DEF OrderInv
<1>13. OwnerInv'
  <2> SUFFICES ASSUME NEW k \in 1..(scanned + 1)
               PROVE  /\ owner'[order[k]] = IF IsView(graph[order[k]])
                                             THEN OwnerRead(order[k], 1)' ELSE order[k]
                      /\ owner'[order[k]] # 0 =>
                           /\ Transform(owner'[order[k]])
                           /\ \E j \in 1..k : order[j] = owner'[order[k]]
    BY <1>1 DEF OwnerInv, Transform
  <2>1. order[k] \in GraphNodes /\ (IsView(graph[order[k]]) => DOMAIN graph[order[k]].in = {1})
    <3>1. k \in 1..Len(order)
      BY <1>3, <1>4
    <3>2. order[k] \in GraphNodes
      BY <3>1, <1>3
    <3> QED
      BY <3>2, GraphFacts
  <2>2. IsView(graph[order[k]]) => OwnerRead(order[k], 1)' = OwnerRead(order[k], 1)
    BY <2>1, <1>8
  <2>3. CASE k \in 1..scanned
    <3>1. owner'[order[k]] = owner[order[k]]
      BY <2>1, <2>3, <1>1, <1>3, <1>4
    <3> QED
      BY <3>1, <2>2, <2>3 DEF OwnerInv
  <2>4. CASE k = scanned + 1
    <3>1. owner'[n] = IF IsView(graph[n]) THEN OwnerRead(n, 1) ELSE n
      BY <1>1, <1>3, <1>4
    <3>2. CASE IsView(graph[n])
      <4>1. OwnerRead(n, 1) # 0 => /\ Transform(OwnerRead(n, 1))
                                   /\ \E i \in 1..scanned : order[i] = OwnerRead(n, 1)
        BY <3>2, <1>9, <1>10
      <4> QED
        BY <4>1, <3>1, <3>2, <2>2, <2>4, <1>3
    <3>3. CASE ~IsView(graph[n])
      <4>1. k \in 1..k /\ order[k] = n
        BY <2>4, <1>3
      <4> QED
        BY <4>1, <3>1, <3>3, <2>4 DEF Transform
    <3> QED
      BY <3>2, <3>3
  <2> QED
    BY <2>3, <2>4, <1>3
<1>14. PendingInv'
  <2> SUFFICES ASSUME NEW o \in GraphNodes, NEW r \in Reads(graph)
               PROVE  r \in pending'[o] <=> /\ Transform(r[1])
                                            /\ OwnerRead(r[1], r[2])' = o
                                            /\ Seen(r[1])'
    BY <1>1, <1>2 DEF PendingInv, Transform, Compiled, GraphNodes
  <2>1. r[1] \in GraphNodes /\ r[2] \in DOMAIN graph[r[1]].in
    BY DEF Reads, GraphNodes
  <2>2. r \in pending[o] <=> Transform(r[1]) /\ OwnerRead(r[1], r[2]) = o /\ Seen(r[1])
    BY <1>2 DEF PendingInv, Compiled
  <2>3. r \in pending'[o] <=> \/ r \in pending[o]
                              \/ r[1] = n /\ Transform(n) /\ OwnerRead(n, r[2]) = o
    BY <1>1 DEF ReadsBy, Transform
  <2>4. Seen(r[1])' => OwnerRead(r[1], r[2])' = OwnerRead(r[1], r[2])
    <3> SUFFICES ASSUME Seen(r[1])'
                 PROVE  OwnerRead(r[1], r[2])' = OwnerRead(r[1], r[2])
      OBVIOUS
    <3>1. PICK k \in 1..(scanned + 1) : order[k] = r[1]
      BY <1>1 DEF Seen
    <3>2. OwnerRead(order[k], r[2])' = OwnerRead(order[k], r[2])
      BY <3>1, <2>1, <1>8
    <3>3. r[1]' = r[1] /\ r[2]' = r[2] /\ order' = order /\ graph' = graph
      BY <1>1
    <3> QED
      BY <3>1, <3>2, <3>3 DEF OwnerRead
  <2> QED
    BY <2>2, <2>3, <2>4, <1>6
<1>15. RecordInv' /\ FreeInv'
  BY <1>1, <1>2 DEF RecordInv, FreeInv
<1>16. BuffersHandedOnAfterLastRead' /\ InputsBelowOutput'
  BY <1>1 DEF BuffersHandedOnAfterLastRead, InputsBelowOutput, IsTransform
<1> QED
  BY <1>11, <1>12, <1>13, <1>14, <1>15, <1>16
-----------------------------------------------------------------------------
LEMMA IndexOfOrdered ==
  ASSUME CompileTypeOK, OrderInv, NEW k \in 1..Len(order)
  PROVE  CompiledIndex(order[k]) = k /\ order[k] \in GraphNodes /\ order[k] # 0
<1>1. order[k] \in GraphNodes
  BY DEF CompileTypeOK
<1>2. order[k] # 0
  BY <1>1, GraphFacts
<1>3. DOMAIN order = 1..Len(order)
  BY DEF CompileTypeOK
<1>4. \A j \in DOMAIN order : order[j] = order[k] => j = k
  BY <1>3 DEF OrderInv
<1> QED
  BY <1>1, <1>2, <1>3, <1>4 DEF CompiledIndex

LEMMA IndexTyped ==
  ASSUME CompileTypeOK, OrderInv, phase # "order", NEW u \in {0} \cup GraphNodes
  PROVE  CompiledIndex(u) \in Nat
<1>1. CASE u = 0
  BY <1>1 DEF CompiledIndex
<1>2. CASE u # 0
  <2>1. PICK k \in 1..Len(order) : order[k] = u
    BY <1>2 DEF OrderInv
  <2> QED
    BY <2>1, IndexOfOrdered DEF CompileTypeOK
<1> QED
  BY <1>1, <1>2

LEMMA NodeTyped ==
  ASSUME CompileTypeOK, OrderInv, phase # "order", NEW n \in GraphNodes, NEW buf \in Nat
  PROVE  CompiledNode(n, buf) \in NodeType
<1> DEFINE D == DOMAIN graph[n].in
<1>1. D \in SUBSET (1..2) /\ \A s \in D : graph[n].in[s] \in {0} \cup GraphNodes
  BY GraphFacts
<1>2. [s \in D |-> InputBuffer(n, s)] \in [D -> Nat]
  BY <1>1 DEF InputBuffer, CompileTypeOK
<1>3. [s \in D |-> CompiledIndex(graph[n].in[s])] \in [D -> Nat]
  BY <1>1, IndexTyped
<1>4. \A s \in D : OwnerRead(n, s) \in {0} \cup GraphNodes
  BY <1>1 DEF OwnerRead, CompileTypeOK
<1>5. [s \in D |-> CompiledIndex(OwnerRead(n, s))] \in [D -> Nat]
  BY <1>4, IndexTyped
<1>6. (~IsView(graph[n]) /\ CacheEnabled(n)) \in BOOLEAN
  OBVIOUS
<1>7. \A f \in [D -> Nat] : f \in Slots
  BY <1>1 DEF Slots
<1> QED
  BY <1>2, <1>3, <1>5, <1>6, <1>7 DEF CompiledNode, NodeType

\* What the next node to compile reads is compiled, and lies where its owner's
\* buffer is; the owner is still live when the reader is a transform.
LEMMA InputFacts ==
  ASSUME BufferInv, phase = "buffers", NEW n \in GraphNodes, IsNext(n),
         NEW s \in DOMAIN graph[n].in
  PROVE  /\ InputBuffer(n, s) \in 0..maxBuf
         /\ InputBuffer(n, s) = IF OwnerRead(n, s) = 0 THEN 0 ELSE outBuf[OwnerRead(n, s)]
         /\ graph[n].in[s] # 0 => Compiled(graph[n].in[s])
         /\ OwnerRead(n, s) # 0 =>
              /\ OwnerRead(n, s) \in GraphNodes
              /\ Transform(OwnerRead(n, s))
              /\ \E i \in 1..Len(nodes) : order[i] = OwnerRead(n, s)
              /\ Transform(n) => <<n, s>> \in pending[OwnerRead(n, s)]
<1> USE DEF BufferInv
<1> DEFINE c == Len(nodes)
           u == graph[n].in[s]
<1>1. /\ c \in Nat /\ Len(order) \in Nat /\ c + 1 \in 1..Len(order)
      /\ n = order[c + 1]
      /\ scanned = Len(order)
  BY DEF CompileTypeOK, OrderInv, IsNext
<1>2. CASE u = 0
  BY <1>2 DEF InputBuffer, OwnerRead, CompileTypeOK
<1>3. CASE u # 0
  <2>1. PICK j \in 1..c : order[j] = u
    <3>1. \E j \in 1..((c + 1) - 1) : order[j] = u
      BY <1>1, <1>3 DEF OrderInv
    <3> QED
      BY <3>1, <1>1
  <2>2. u \in GraphNodes
    BY <1>3, GraphFacts
  <2>3. InputBuffer(n, s) = outBuf[u] /\ OwnerRead(n, s) = owner[u]
    BY <1>3 DEF InputBuffer, OwnerRead
  <2>4. outBuf[u] = IF owner[u] = 0 THEN 0 ELSE outBuf[owner[u]]
    BY <2>1 DEF RecordInv
  <2>5. outBuf[u] \in 0..maxBuf /\ owner[u] \in {0} \cup GraphNodes
    BY <2>2 DEF CompileTypeOK
  <2>6. ASSUME owner[u] # 0
        PROVE  /\ Transform(owner[u])
               /\ \E i \in 1..c : order[i] = owner[u]
    <3>1. j \in 1..scanned
      BY <1>1
    <3>2. Transform(owner[order[j]]) /\ \E i \in 1..j : order[i] = owner[order[j]]
      BY <3>1, <2>1, <2>6 DEF OwnerInv
    <3> QED
      BY <3>2, <2>1, <1>1
  <2>7. ASSUME owner[u] # 0, Transform(n)
        PROVE  <<n, s>> \in pending[owner[u]]
    <3>1. <<n, s>> \in Reads(graph)
      BY <1>3, GraphFacts DEF Reads, GraphNodes
    <3>2. Seen(n)
      BY <1>1 DEF Seen
    <3>3. \A k \in 1..c : order[k] # n
      BY <1>1 DEF OrderInv
    <3>4. ~Compiled(n)
      BY <3>3 DEF Compiled
    <3>5. <<n, s>>[1] = n /\ <<n, s>>[2] = s
      OBVIOUS
    <3> QED
      BY <3>1, <3>2, <3>4, <3>5, <2>3, <2>5, <2>7 DEF PendingInv
  <2>8. Compiled(u)
    BY <2>1 DEF Compiled
  <2> QED
    BY <2>3, <2>4, <2>5, <2>6, <2>7, <2>8
<1> QED
  BY <1>2, <1>3

\* Compiling a node adds its record and its buffer and touches no other's.
LEMMA AppendFacts ==
  ASSUME BufferInv, phase = "buffers", NEW n \in GraphNodes, IsNext(n), NEW buf \in Nat,
         graph' = graph, order' = order,
         nodes' = Append(nodes, CompiledNode(n, buf)),
         outBuf' = [outBuf EXCEPT ![n] = buf]
  PROVE  /\ Len(nodes) \in Nat /\ Len(nodes') = Len(nodes) + 1
         /\ Len(nodes') <= Len(order)
         /\ nodes' \in Seq(NodeType)
         /\ \A k \in 1..Len(nodes) : nodes'[k] = nodes[k]
         /\ nodes'[Len(nodes) + 1] = CompiledNode(n, buf)
         /\ DOMAIN nodes = 1..Len(nodes) /\ DOMAIN nodes' = 1..(Len(nodes) + 1)
         /\ order[Len(nodes) + 1] = n
         /\ \A k \in 1..Len(nodes) : order[k] # n /\ outBuf'[order[k]] = outBuf[order[k]]
         /\ outBuf'[n] = buf
         /\ \A m : Compiled(m)' <=> Compiled(m) \/ m = n
<1> USE DEF BufferInv
<1>1. /\ nodes \in Seq(NodeType) /\ Len(nodes) \in Nat /\ Len(order) \in Nat
      /\ Len(nodes) + 1 \in 1..Len(order)
      /\ order[Len(nodes) + 1] = n
      /\ outBuf \in [GraphNodes -> 0..maxBuf]
      /\ order \in Seq(GraphNodes)
  BY DEF CompileTypeOK, IsNext
<1>2. CompiledNode(n, buf) \in NodeType
  BY NodeTyped
<1>3. /\ Len(nodes') = Len(nodes) + 1 /\ nodes' \in Seq(NodeType)
      /\ \A k \in 1..Len(nodes) : nodes'[k] = nodes[k]
      /\ nodes'[Len(nodes) + 1] = CompiledNode(n, buf)
      /\ DOMAIN nodes = 1..Len(nodes) /\ DOMAIN nodes' = 1..(Len(nodes) + 1)
  BY <1>1, <1>2
<1>4. ASSUME NEW k \in 1..Len(nodes)
      PROVE  order[k] # n /\ outBuf'[order[k]] = outBuf[order[k]]
  <2>1. k \in 1..Len(order) /\ k # Len(nodes) + 1
    BY <1>1
  <2>2. order[k] # n /\ order[k] \in GraphNodes
    BY <2>1, <1>1 DEF OrderInv
  <2> QED
    BY <2>2, <1>1
<1>5. outBuf'[n] = buf
  BY <1>1
<1>6. \A m : Compiled(m)' <=> Compiled(m) \/ m = n
  BY <1>1, <1>3 DEF Compiled
<1> QED
  BY <1>1, <1>3, <1>4, <1>5, <1>6

\* The facts about the records of the compiled nodes, after one more.
LEMMA RecordPreserved ==
  ASSUME BufferInv, phase = "buffers", NEW n \in GraphNodes, IsNext(n), NEW buf \in Nat,
         graph' = graph, order' = order, owner' = owner,
         nodes' = Append(nodes, CompiledNode(n, buf)),
         outBuf' = [outBuf EXCEPT ![n] = buf],
         IF IsView(graph[n]) THEN buf = InputBuffer(n, 1) ELSE buf >= 1
  PROVE  RecordInv'
<1> USE DEF BufferInv
<1> DEFINE c == Len(nodes)
<1> SUFFICES ASSUME NEW k \in 1..(c + 1)
             PROVE  /\ outBuf'[order[k]] = IF owner[order[k]] = 0 THEN 0
                                           ELSE outBuf'[owner[order[k]]]
                    /\ Transform(order[k]) => outBuf'[order[k]] >= 1
                    /\ nodes'[k].op = graph[order[k]]
                    /\ nodes'[k].out = outBuf'[order[k]]
                    /\ DOMAIN nodes'[k].in = DOMAIN graph[order[k]].in
                    /\ DOMAIN nodes'[k].prod = DOMAIN graph[order[k]].in
  BY AppendFacts DEF RecordInv, Transform
<1>1. c \in Nat /\ Len(order) \in Nat /\ c + 1 \in 1..Len(order) /\ scanned = Len(order)
  BY DEF CompileTypeOK, OrderInv, IsNext
<1>a. \A j \in 1..c : outBuf'[order[j]] = outBuf[order[j]]
  BY AppendFacts
<1>2. CASE k \in 1..c
  <2>1. nodes'[k] = nodes[k] /\ outBuf'[order[k]] = outBuf[order[k]]
    BY <1>2, AppendFacts
  <2>2. owner[order[k]] # 0 => \E j \in 1..k : order[j] = owner[order[k]]
    BY <1>1, <1>2 DEF OwnerInv
  <2>3. owner[order[k]] # 0 => outBuf'[owner[order[k]]] = outBuf[owner[order[k]]]
    <3> SUFFICES ASSUME owner[order[k]] # 0
                 PROVE  outBuf'[owner[order[k]]] = outBuf[owner[order[k]]]
      OBVIOUS
    <3>1. PICK j \in 1..k : order[j] = owner[order[k]]
      BY <2>2
    <3>2. j \in 1..c
      BY <1>1, <1>2
    <3> QED
      BY <3>1, <3>2, <1>a
  <2> QED
    BY <2>1, <2>3, <1>2 DEF RecordInv
<1>3. CASE k = c + 1
  <2>1. order[k] = n /\ nodes'[k] = CompiledNode(n, buf) /\ outBuf'[n] = buf
    BY <1>3, AppendFacts
  <2>2. owner[n] = IF IsView(graph[n]) THEN OwnerRead(n, 1) ELSE n
    BY <2>1, <1>1, <1>3 DEF OwnerInv
  <2>3. n # 0
    BY GraphFacts
  <2>4. ASSUME IsView(graph[n])
        PROVE  buf = IF owner[n] = 0 THEN 0 ELSE outBuf'[owner[n]]
    <3>1. 1 \in DOMAIN graph[n].in
      BY <2>4, GraphFacts
    <3>2. /\ buf = IF owner[n] = 0 THEN 0 ELSE outBuf[owner[n]]
          /\ owner[n] # 0 => \E i \in 1..c : order[i] = owner[n]
      BY <3>1, <2>2, <2>4, InputFacts
    <3>3. owner[n] # 0 => outBuf'[owner[n]] = outBuf[owner[n]]
      BY <3>2, AppendFacts
    <3> QED
      BY <3>2, <3>3
  <2>5. buf = IF owner[n] = 0 THEN 0 ELSE outBuf'[owner[n]]
    BY <2>1, <2>2, <2>3, <2>4
  <2>6. /\ nodes'[k].op = graph[n] /\ nodes'[k].out = buf
        /\ DOMAIN nodes'[k].in = DOMAIN graph[n].in
        /\ DOMAIN nodes'[k].prod = DOMAIN graph[n].in
    BY <2>1 DEF CompiledNode
  <2> QED
    BY <2>1, <2>5, <2>6 DEF Transform
<1> QED
  BY <1>1, <1>2, <1>3

LEMMA CompileViewBufferInv == BufferInv /\ CompileView => BufferInv'
<1> SUFFICES ASSUME BufferInv, CompileView PROVE BufferInv'
  OBVIOUS
<1> USE DEF BufferInv
<1>0. PICK n \in GraphNodes :
        /\ IsNext(n)
        /\ IsView(graph[n])
        /\ nodes' = Append(nodes, CompiledNode(n, InputBuffer(n, 1)))
        /\ outBuf' = [outBuf EXCEPT ![n] = InputBuffer(n, 1)]
  BY DEF CompileView
<1>1. /\ UNCHANGED <<graph, phase, order, scanned, owner, pending, free, maxBuf>>
      /\ phase = "buffers"
  BY DEF CompileView
<1> DEFINE buf == InputBuffer(n, 1)
           c == Len(nodes)
<1>2. buf \in 0..maxBuf /\ maxBuf \in Nat /\ buf \in Nat
  <2>1. 1 \in DOMAIN graph[n].in
    BY <1>0, GraphFacts
  <2>2. buf \in 0..maxBuf
    BY <2>1, <1>0, <1>1, InputFacts
  <2> QED
    BY <2>2 DEF CompileTypeOK
<1> HIDE DEF buf
<1>3. /\ nodes' = Append(nodes, CompiledNode(n, buf)) /\ outBuf' = [outBuf EXCEPT ![n] = buf]
  BY <1>0 DEF buf
<1>4. /\ c \in Nat /\ Len(nodes') = c + 1
      /\ Len(nodes') <= Len(order)
      /\ nodes' \in Seq(NodeType)
      /\ \A k \in 1..c : nodes'[k] = nodes[k]
      /\ nodes'[c + 1] = CompiledNode(n, buf)
      /\ DOMAIN nodes = 1..c /\ DOMAIN nodes' = 1..(c + 1)
      /\ order[c + 1] = n
      /\ \A k \in 1..c : order[k] # n /\ outBuf'[order[k]] = outBuf[order[k]]
      /\ outBuf'[n] = buf
      /\ \A m : Compiled(m)' <=> Compiled(m) \/ m = n
  BY <1>0, <1>1, <1>2, <1>3, AppendFacts
<1>5. CompileTypeOK'
  <2>1. outBuf' \in [GraphNodes -> 0..maxBuf]
    BY <1>2, <1>3 DEF CompileTypeOK
  <2>2. NodeType' = NodeType
    BY <1>1 DEF NodeType, GraphNodes, Slots
  <2> QED
    BY <2>1, <2>2, <1>1, <1>4 DEF CompileTypeOK, GraphNodes, Formats
<1>6. OrderInv' /\ OwnerInv'
  BY <1>1 DEF OrderInv, OwnerInv, OwnerRead, Transform, GraphNodes
<1>7. PendingInv'
  BY <1>0, <1>1, <1>4 DEF PendingInv, Transform, OwnerRead, Seen, GraphNodes
<1>8. RecordInv'
  <2>1. IF IsView(graph[n]) THEN buf = InputBuffer(n, 1) ELSE buf >= 1
    BY <1>0 DEF buf
  <2> QED
    BY <2>1, <1>0, <1>1, <1>2, <1>3, RecordPreserved
<1>9. FreeInv'
  <2> SUFFICES ASSUME NEW k \in 1..(c + 1), Live(order[k])
               PROVE  /\ \A f \in free : f[1] # outBuf'[order[k]]
                      /\ \A m \in (k + 1)..(c + 1) :
                           Transform(order[m]) => outBuf'[order[m]] # outBuf'[order[k]]
    <3>1. \A o : Live(o)' <=> Live(o)
      BY <1>1 DEF Live, Unread, OwnerRead, Reads, Transform
    <3>2. \A k \in DOMAIN order : Live(order[k])' <=> Live(order[k])
      BY <3>1, <1>1
    <3> QED
      BY <3>1, <1>1, <1>4 DEF FreeInv, Transform
  <2>1. k \in 1..c
    BY <1>0, <1>4 DEF Live, Transform
  <2>2. ASSUME NEW m \in (k + 1)..(c + 1), Transform(order[m])
        PROVE  m \in 1..c /\ m \in (k + 1)..c
    BY <2>2, <1>0, <1>4 DEF Transform
  <2> QED
    BY <2>1, <2>2, <1>4 DEF FreeInv
<1>10. ASSUME NEW k \in 1..(c + 1), ~IsView(nodes'[k].op)
       PROVE  k \in 1..c /\ nodes'[k] = nodes[k]
  BY <1>10, <1>0, <1>4 DEF CompiledNode
<1>11. InputsBelowOutput'
  BY <1>4, <1>10 DEF InputsBelowOutput, IsTransform
<1>12. BuffersHandedOnAfterLastRead'
  <2> SUFFICES ASSUME NEW k \in 1..(c + 1), NEW s \in DOMAIN nodes'[k].in,
                      ~IsView(nodes'[k].op), nodes'[k].prod[s] # 0
               PROVE  /\ nodes'[k].prod[s] < k
                      /\ nodes'[nodes'[k].prod[s]].out = nodes'[k].in[s]
                      /\ \A m \in (nodes'[k].prod[s] + 1)..k :
                           ~IsView(nodes'[m].op) => nodes'[m].out # nodes'[k].in[s]
    BY <1>4 DEF BuffersHandedOnAfterLastRead, IsTransform
  <2>1. k \in 1..c /\ nodes'[k] = nodes[k]
    BY <1>10
  <2>2. nodes[k].prod[s] \in Nat
    <3>1. nodes[k] \in NodeType
      BY <2>1 DEF CompileTypeOK
    <3>2. nodes[k].prod \in Slots /\ nodes[k].in \in Slots
      BY <3>1 DEF NodeType
    <3>3. DOMAIN nodes[k].prod = DOMAIN nodes[k].in
      BY <2>1 DEF RecordInv
    <3>4. PICK D \in SUBSET (1..2) : nodes[k].prod \in [D -> Nat]
      BY <3>2 DEF Slots
    <3>5. s \in D
      BY <3>3, <3>4, <2>1
    <3> QED
      BY <3>4, <3>5
  <2>3. /\ nodes[k].prod[s] < k
        /\ nodes[nodes[k].prod[s]].out = nodes[k].in[s]
        /\ \A m \in (nodes[k].prod[s] + 1)..k :
             ~IsView(nodes[m].op) => nodes[m].out # nodes[k].in[s]
    BY <2>1, <1>4 DEF BuffersHandedOnAfterLastRead, IsTransform
  <2>4. nodes[k].prod[s] \in 1..c /\ \A m \in (nodes[k].prod[s] + 1)..k : m \in 1..c
    BY <2>1, <2>2, <2>3, <1>4
  <2>5. /\ nodes'[k].prod[s] = nodes[k].prod[s] /\ nodes'[k].in[s] = nodes[k].in[s]
        /\ \A m \in 1..c : nodes'[m] = nodes[m]
    BY <2>1, <1>4
  <2>6. nodes'[nodes[k].prod[s]] = nodes[nodes[k].prod[s]]
    BY <2>4, <2>5
  <2>7. \A m \in (nodes[k].prod[s] + 1)..k :
           ~IsView(nodes'[m].op) => nodes'[m].out # nodes[k].in[s]
    <3> SUFFICES ASSUME NEW m \in (nodes[k].prod[s] + 1)..k, ~IsView(nodes'[m].op)
                 PROVE  nodes'[m].out # nodes[k].in[s]
      OBVIOUS
    <3>1. nodes'[m] = nodes[m]
      BY <2>4, <2>5
    <3> QED
      BY <2>3, <3>1
  <2> QED
    BY <2>3, <2>5, <2>6, <2>7
<1> QED
  BY <1>5, <1>6, <1>7, <1>8, <1>9, <1>11, <1>12

\* The record of a compiled transform keeps its producer's index a number.
LEMMA ProducerTyped ==
  ASSUME BufferInv, NEW k \in 1..Len(nodes), NEW s \in DOMAIN nodes[k].in
  PROVE  nodes[k].prod[s] \in Nat
<1>1. nodes[k] \in NodeType
  BY DEF BufferInv, CompileTypeOK
<1>2. nodes[k].prod \in Slots
  BY <1>1 DEF NodeType
<1>3. DOMAIN nodes[k].prod = DOMAIN nodes[k].in
  BY DEF BufferInv, RecordInv
<1>4. PICK D \in SUBSET (1..2) : nodes[k].prod \in [D -> Nat]
  BY <1>2 DEF Slots
<1> QED
  BY <1>3, <1>4

\* A transform gets a buffer no live node has, and its last reads set buffers free.
LEMMA CompileTransformBufferInv == BufferInv /\ CompileTransform => BufferInv'
<1> SUFFICES ASSUME BufferInv, CompileTransform PROVE BufferInv'
  OBVIOUS
<1> USE DEF BufferInv
<1> DEFINE c == Len(nodes)
<1>0. PICK n \in GraphNodes, buf \in 1..(maxBuf + 1) :
        /\ IsNext(n)
        /\ ~IsView(graph[n])
        /\ IF Fitting(n) = {} THEN buf = maxBuf + 1 ELSE buf \in Fitting(n)
        /\ maxBuf' = IF buf > maxBuf THEN buf ELSE maxBuf
        /\ nodes' = Append(nodes, CompiledNode(n, buf))
        /\ outBuf' = [outBuf EXCEPT ![n] = buf]
        /\ free' = (free \ {<<buf, graph[n].fmt>>})
                   \cup {<<outBuf[o], graph[o].fmt>> : o \in Released(n)}
        /\ pending' = [o \in GraphNodes |-> pending[o] \ ReadsBy(n)]
  BY DEF CompileTransform
<1>1. /\ UNCHANGED <<graph, phase, order, scanned, owner>>
      /\ phase = "buffers"
  BY DEF CompileTransform
<1>2. maxBuf \in Nat /\ buf \in Nat /\ buf >= 1 /\ maxBuf' \in Nat /\ buf \in 1..maxBuf'
      /\ maxBuf <= maxBuf'
  BY <1>0 DEF CompileTypeOK
<1>3. /\ c \in Nat /\ Len(nodes') = c + 1
      /\ Len(nodes') <= Len(order)
      /\ nodes' \in Seq(NodeType)
      /\ \A k \in 1..c : nodes'[k] = nodes[k]
      /\ nodes'[c + 1] = CompiledNode(n, buf)
      /\ DOMAIN nodes = 1..c /\ DOMAIN nodes' = 1..(c + 1)
      /\ order[c + 1] = n
      /\ \A k \in 1..c : order[k] # n /\ outBuf'[order[k]] = outBuf[order[k]]
      /\ outBuf'[n] = buf
      /\ \A m : Compiled(m)' <=> Compiled(m) \/ m = n
  BY <1>0, <1>1, <1>2, AppendFacts
<1>4. Transform(n)
  BY <1>0 DEF Transform
<1>5. /\ free \subseteq (1..maxBuf) \X Formats
      /\ outBuf \in [GraphNodes -> 0..maxBuf]
      /\ pending \in [GraphNodes -> SUBSET Reads(graph)]
      /\ \A k \in 1..c : order[k] \in GraphNodes
  BY <1>3 DEF CompileTypeOK
\* The buffer is free or new, so no live node has it.
<1>6. \/ \E f \in free : f[1] = buf /\ f = <<buf, graph[n].fmt>>
      \/ buf = maxBuf + 1
  <2>1. CASE Fitting(n) = {}
    BY <2>1, <1>0
  <2>2. CASE Fitting(n) # {}
    <3>1. PICK f \in free : f[1] = buf /\ f[2] = graph[n].fmt
      BY <2>2, <1>0 DEF Fitting
    <3> QED
      BY <3>1, <1>5
  <2> QED
    BY <2>1, <2>2
<1>7. \A k \in 1..c : Live(order[k]) => outBuf[order[k]] # buf
  <2> SUFFICES ASSUME NEW k \in 1..c, Live(order[k]) PROVE outBuf[order[k]] # buf
    OBVIOUS
  <2>1. outBuf[order[k]] \in 0..maxBuf
    BY <1>5
  <2>2. \A f \in free : f[1] # outBuf[order[k]]
    BY DEF FreeInv
  <2> QED
    BY <2>1, <2>2, <1>2, <1>6
<1>8. \A f \in free : f[1] = buf => f = <<buf, graph[n].fmt>>
  <2> SUFFICES ASSUME NEW f \in free, f[1] = buf PROVE f = <<buf, graph[n].fmt>>
    OBVIOUS
  <2>1. f[1] \in 1..maxBuf
    BY <1>5
  <2> QED
    BY <2>1, <1>2, <1>6 DEF FreeInv
\* What the node releases was compiled and live.
<1>9. ASSUME NEW o \in Released(n)
      PROVE  /\ o \in GraphNodes
             /\ Live(o)
             /\ pending'[o] = {}
             /\ \E k \in 1..c : order[k] = o
  <2>1. o \in GraphNodes /\ pending[o] # {} /\ pending[o] \subseteq ReadsBy(n)
    BY DEF Released
  <2>2. PICK r \in pending[o] : r \in Reads(graph) /\ r[1] = n
    BY <2>1, <1>5 DEF ReadsBy
  <2>3. OwnerRead(n, r[2]) = o /\ r[2] \in DOMAIN graph[n].in
    BY <2>1, <2>2 DEF PendingInv, Reads
  <2>4. o # 0
    BY <2>1, GraphFacts
  <2>5. Transform(o) /\ \E k \in 1..c : order[k] = o
    BY <2>3, <2>4, <1>0, <1>1, InputFacts
  <2> QED
    BY <2>1, <2>5, <1>0 DEF Live
<1>10. \A o \in GraphNodes : pending'[o] = pending[o] \ ReadsBy(n)
  BY <1>0
<1>11. \A k \in 1..c : Live(order[k])' => /\ Live(order[k])
                                           /\ order[k] \notin Released(n)
  <2> SUFFICES ASSUME NEW k \in 1..c, Live(order[k])'
               PROVE  Live(order[k]) /\ order[k] \notin Released(n)
    OBVIOUS
  <2>1. order[k] \in GraphNodes /\ order'[k] = order[k] /\ graph' = graph
    BY <1>1, <1>5
  <2>2. Transform(order[k]) /\ (pending'[order[k]] # {} \/ Unread(order[k]))
    BY <2>1, <1>1 DEF Live, Transform, Unread, OwnerRead, Reads
  <2>3. CASE Unread(order[k])
    <3>1. ASSUME NEW r \in pending[order[k]] PROVE FALSE
      <4>1. r \in Reads(graph)
        BY <2>1, <1>5
      <4> QED
        BY <4>1, <3>1, <2>1, <2>3 DEF PendingInv, Unread
    <3> QED
      BY <3>1, <2>2, <2>3 DEF Live, Released
  <2>4. CASE pending'[order[k]] # {}
    BY <2>1, <2>2, <2>4, <1>9, <1>10 DEF Live
  <2> QED
    BY <2>2, <2>3, <2>4
<1>12. \A k, m \in 1..c : Live(order[k]) /\ Live(order[m]) /\ k # m
                            => outBuf[order[k]] # outBuf[order[m]]
  <2> SUFFICES ASSUME NEW k \in 1..c, NEW m \in 1..c, Live(order[k]), Live(order[m]), k # m
               PROVE  outBuf[order[k]] # outBuf[order[m]]
    OBVIOUS
  <2>1. CASE k < m
    <3>1. m \in (k + 1)..c
      BY <2>1, <1>3
    <3> QED
      BY <3>1 DEF FreeInv, Live
  <2>2. CASE m < k
    <3>1. k \in (m + 1)..c
      BY <2>2, <1>3
    <3> QED
      BY <3>1 DEF FreeInv, Live
  <2> QED
    BY <2>1, <2>2, <1>3
<1>13. CompileTypeOK'
  <2>1. outBuf' \in [GraphNodes -> 0..maxBuf']
    BY <1>0, <1>2, <1>5
  <2>2. NodeType' = NodeType
    BY <1>1 DEF NodeType, GraphNodes, Slots
  <2>3. free' \subseteq (1..maxBuf') \X Formats
    <3>1. \A f \in free : f \in (1..maxBuf') \X Formats
      BY <1>2, <1>5
    <3>2. ASSUME NEW o \in Released(n)
          PROVE  <<outBuf[o], graph[o].fmt>> \in (1..maxBuf') \X Formats
      <4>1. PICK k \in 1..c : order[k] = o
        BY <1>9
      <4>2. outBuf[o] >= 1
        BY <4>1, <1>9 DEF RecordInv, Live
      <4>3. outBuf[o] \in 1..maxBuf'
        BY <4>2, <1>2, <1>5, <1>9
      <4> QED
        BY <4>3, <1>9 DEF Formats
    <3> QED
      BY <3>1, <3>2, <1>0
  <2>4. pending' \in [GraphNodes -> SUBSET Reads(graph)]
    BY <1>0, <1>5
  <2> QED
    BY <2>1, <2>2, <2>3, <2>4, <1>1, <1>2, <1>3 DEF CompileTypeOK, GraphNodes, Formats
<1>14. OrderInv' /\ OwnerInv'
  BY <1>1 DEF OrderInv, OwnerInv, OwnerRead, Transform, GraphNodes
<1>15. PendingInv'
  <2> SUFFICES ASSUME NEW o \in GraphNodes, NEW r \in Reads(graph)
               PROVE  r \in pending'[o] <=> /\ Transform(r[1])
                                            /\ OwnerRead(r[1], r[2]) = o
                                            /\ Seen(r[1])
                                            /\ ~Compiled(r[1])'
    BY <1>1 DEF PendingInv, Transform, OwnerRead, Seen, GraphNodes
  <2>1. r \in pending[o] <=> /\ Transform(r[1])
                             /\ OwnerRead(r[1], r[2]) = o
                             /\ Seen(r[1])
                             /\ ~Compiled(r[1])
    BY DEF PendingInv
  <2>2. r \in ReadsBy(n) <=> r[1] = n
    BY DEF ReadsBy
  <2>3. Compiled(r[1])' <=> Compiled(r[1]) \/ r[1] = n
    <3>1. r[1]' = r[1]
      OBVIOUS
    <3> QED
      BY <3>1, <1>1, <1>3 DEF Compiled
  <2> QED
    BY <2>1, <2>2, <2>3, <1>10
<1>16. RecordInv'
  BY <1>0, <1>1, <1>2, RecordPreserved
<1>17. FreeInv'
  <2>1. ASSUME NEW f \in free'
        PROVE  \/ f \in free /\ f[1] # buf
               \/ \E o \in Released(n) : f = <<outBuf[o], graph[o].fmt>>
    BY <1>0, <1>8
  <2>2. ASSUME NEW f \in free', NEW g \in free', f[1] = g[1]
        PROVE  f = g
    <3>1. CASE f \in free /\ g \in free
      BY <3>1, <2>2 DEF FreeInv
    <3>2. ASSUME NEW o \in Released(n), NEW h \in free
          PROVE  h[1] # outBuf[o]
      BY <1>9 DEF FreeInv
    <3>3. ASSUME NEW o \in Released(n), NEW q \in Released(n), outBuf[o] = outBuf[q]
          PROVE  o = q
      BY <3>3, <1>9, <1>12
    <3> QED
      BY <3>1, <3>2, <3>3, <2>1, <2>2
  <2>3. ASSUME NEW k \in 1..(c + 1), Live(order[k])', NEW f \in free'
        PROVE  f[1] # outBuf'[order[k]]
    <3>1. CASE k \in 1..c
      <4>1. outBuf'[order[k]] = outBuf[order[k]] /\ Live(order[k]) /\ order[k] \notin Released(n)
        BY <3>1, <2>3, <1>3, <1>11
      <4>2. CASE f \in free
        BY <4>1, <4>2, <3>1 DEF FreeInv
      <4>3. ASSUME NEW o \in Released(n), f = <<outBuf[o], graph[o].fmt>>
            PROVE  f[1] # outBuf[order[k]]
        BY <4>1, <4>3, <3>1, <1>9, <1>12
      <4> QED
        BY <4>1, <4>2, <4>3, <2>1
    <3>2. CASE k = c + 1
      <4>1. outBuf'[order[k]] = buf
        BY <3>2, <1>3
      <4>2. ASSUME NEW o \in Released(n) PROVE outBuf[o] # buf
        BY <1>7, <1>9
      <4> QED
        BY <4>1, <4>2, <2>1
    <3> QED
      BY <3>1, <3>2, <1>3
  <2>4. ASSUME NEW k \in 1..(c + 1), Live(order[k])', NEW m \in (k + 1)..(c + 1),
               Transform(order[m])
        PROVE  outBuf'[order[m]] # outBuf'[order[k]]
    <3>1. k \in 1..c /\ (m \in (k + 1)..c \/ m = c + 1)
      BY <1>3
    <3>2. outBuf'[order[k]] = outBuf[order[k]] /\ Live(order[k])
      BY <3>1, <2>4, <1>3, <1>11
    <3>3. CASE m \in (k + 1)..c
      <4>1. m \in 1..c
        BY <3>1, <3>3, <1>3
      <4>2. outBuf'[order[m]] = outBuf[order[m]]
        BY <4>1, <1>3
      <4> QED
        BY <4>2, <3>1, <3>2, <3>3, <2>4 DEF FreeInv
    <3>4. CASE m = c + 1
      BY <3>1, <3>2, <3>4, <1>3, <1>7
    <3> QED
      BY <3>1, <3>3, <3>4
  <2>5. \A k \in 1..(c + 1) : Live(order[k])' => \A f \in free' : f[1] # outBuf'[order[k]]
    BY <2>3
  <2>6. \A k \in 1..(c + 1) : Live(order[k])' => \A m \in (k + 1)..(c + 1) :
          Transform(order[m]) => outBuf'[order[m]] # outBuf'[order[k]]
    BY <2>4
  <2> QED
    BY <2>2, <2>5, <2>6, <1>1, <1>3 DEF FreeInv, Transform
\* What the new transform reads was last written by its producer, below its own buffer.
<1>18. \A s \in DOMAIN graph[n].in : InputBuffer(n, s) \in 0..maxBuf /\ InputBuffer(n, s) < buf
  <2> SUFFICES ASSUME NEW s \in DOMAIN graph[n].in
               PROVE  InputBuffer(n, s) \in 0..maxBuf /\ InputBuffer(n, s) < buf
    OBVIOUS
  <2>1. InputBuffer(n, s) \in 0..maxBuf
    BY <1>0, <1>1, InputFacts
  <2>2. CASE Fitting(n) = {}
    BY <2>1, <2>2, <1>0, <1>2
  <2>3. CASE Fitting(n) # {}
    <3>1. buf > InputBuffer(n, s)
      BY <2>3, <1>0 DEF Fitting
    <3> QED
      BY <3>1, <2>1, <1>2
  <2> QED
    BY <2>1, <2>2, <2>3
<1>19. /\ nodes'[c + 1].op = graph[n]
       /\ nodes'[c + 1].in = [s \in DOMAIN graph[n].in |-> InputBuffer(n, s)]
       /\ nodes'[c + 1].prod = [s \in DOMAIN graph[n].in |-> CompiledIndex(OwnerRead(n, s))]
       /\ nodes'[c + 1].out = buf
  BY <1>3 DEF CompiledNode
<1>20. InputsBelowOutput'
  <2> SUFFICES ASSUME NEW k \in 1..(c + 1), NEW s \in DOMAIN nodes'[k].in, ~IsView(nodes'[k].op)
               PROVE  nodes'[k].in[s] < nodes'[k].out
    BY <1>3 DEF InputsBelowOutput, IsTransform
  <2>1. CASE k \in 1..c
    BY <2>1, <1>3 DEF InputsBelowOutput, IsTransform
  <2>2. CASE k = c + 1
    BY <2>2, <1>18, <1>19
  <2> QED
    BY <2>1, <2>2, <1>3
<1>21. BuffersHandedOnAfterLastRead'
  <2> SUFFICES ASSUME NEW k \in 1..(c + 1), NEW s \in DOMAIN nodes'[k].in,
                      ~IsView(nodes'[k].op), nodes'[k].prod[s] # 0
               PROVE  /\ nodes'[k].prod[s] < k
                      /\ nodes'[nodes'[k].prod[s]].out = nodes'[k].in[s]
                      /\ \A m \in (nodes'[k].prod[s] + 1)..k :
                           ~IsView(nodes'[m].op) => nodes'[m].out # nodes'[k].in[s]
    BY <1>3 DEF BuffersHandedOnAfterLastRead, IsTransform
  <2>1. CASE k \in 1..c
    <3>1. nodes'[k] = nodes[k]
      BY <2>1, <1>3
    <3>2. nodes[k].prod[s] \in Nat
      BY <2>1, <3>1, ProducerTyped
    <3>3. /\ nodes[k].prod[s] < k
          /\ nodes[nodes[k].prod[s]].out = nodes[k].in[s]
          /\ \A m \in (nodes[k].prod[s] + 1)..k :
               ~IsView(nodes[m].op) => nodes[m].out # nodes[k].in[s]
      BY <2>1, <3>1, <1>3 DEF BuffersHandedOnAfterLastRead, IsTransform
    <3>4. nodes[k].prod[s] \in 1..c /\ \A m \in (nodes[k].prod[s] + 1)..k : m \in 1..c
      BY <2>1, <3>1, <3>2, <3>3, <1>3
    <3>5. /\ nodes'[nodes[k].prod[s]] = nodes[nodes[k].prod[s]]
          /\ \A m \in (nodes[k].prod[s] + 1)..k : nodes'[m] = nodes[m]
      BY <3>4, <1>3
    <3>6. \A m \in (nodes[k].prod[s] + 1)..k :
            ~IsView(nodes'[m].op) => nodes'[m].out # nodes[k].in[s]
      BY <3>3, <3>5
    <3> QED
      BY <3>1, <3>3, <3>5, <3>6
  <2>2. CASE k = c + 1
    <3> DEFINE o == OwnerRead(n, s)
    <3>1. s \in DOMAIN graph[n].in /\ nodes'[k].in[s] = InputBuffer(n, s)
          /\ nodes'[k].prod[s] = CompiledIndex(o)
      BY <2>2, <1>19
    <3>2. o # 0
      BY <3>1 DEF CompiledIndex
    <3>3. PICK i \in 1..c : order[i] = o
      BY <3>1, <3>2, <1>0, <1>1, InputFacts
    <3>4. /\ o \in GraphNodes /\ Transform(o)
          /\ InputBuffer(n, s) = outBuf[o]
          /\ pending[o] # {}
      BY <3>1, <3>2, <1>0, <1>1, <1>4, InputFacts
    <3>5. CompiledIndex(o) = i
      <4>1. i \in 1..Len(order)
        BY <1>3, <1>13 DEF CompileTypeOK
      <4> QED
        BY <4>1, <3>3, IndexOfOrdered
    <3>6. Live(order[i])
      BY <3>3, <3>4 DEF Live
    <3>7. nodes'[i].out = outBuf[o]
      BY <3>3, <1>3 DEF RecordInv
    <3>8. ASSUME NEW m \in (i + 1)..k, ~IsView(nodes'[m].op)
          PROVE  nodes'[m].out # outBuf[o]
      <4>1. CASE m \in (i + 1)..c
        <5>1. m \in 1..c /\ nodes'[m] = nodes[m]
          BY <4>1, <3>3, <1>3
        <5>2. nodes[m].op = graph[order[m]] /\ nodes[m].out = outBuf[order[m]]
          BY <5>1 DEF RecordInv
        <5> QED
          BY <5>1, <5>2, <4>1, <3>3, <3>6, <3>8 DEF FreeInv, Transform
      <4>2. CASE m = c + 1
        BY <4>2, <3>3, <3>6, <1>7, <1>19
      <4> QED
        BY <4>1, <4>2, <2>2, <3>3, <1>3
    <3>9. nodes'[k].prod[s] = i /\ i < k /\ i \in 1..c /\ nodes'[k].in[s] = outBuf[o]
      BY <3>1, <3>3, <3>4, <3>5, <2>2, <1>3
    <3>10. \A m \in (i + 1)..k : ~IsView(nodes'[m].op) => nodes'[m].out # outBuf[o]
      BY <3>8
    <3>11. nodes'[nodes'[k].prod[s]].out = nodes'[k].in[s]
      BY <3>7, <3>9
    <3>12. \A m \in (nodes'[k].prod[s] + 1)..k :
             ~IsView(nodes'[m].op) => nodes'[m].out # nodes'[k].in[s]
      BY <3>9, <3>10
    <3>13. nodes'[k].prod[s] < k
      BY <3>9
    <3> QED
      BY <3>11, <3>12, <3>13
  <2> QED
    BY <2>1, <2>2, <1>3
<1> QED
  BY <1>13, <1>14, <1>15, <1>16, <1>17, <1>20, <1>21

\* A step that changes none of it, but perhaps ends the compilation.
LEMMA SameBufferInv ==
  ASSUME BufferInv,
         UNCHANGED <<graph, order, scanned, owner, pending, nodes, outBuf, free, maxBuf>>,
         phase' = phase \/ (phase = "buffers" /\ phase' = "compiled")
  PROVE  BufferInv'
<1> USE DEF BufferInv
<1>1. CompileTypeOK'
  BY DEF CompileTypeOK, GraphNodes, NodeType, Slots, Formats
<1>2. OrderInv'
  BY DEF OrderInv, GraphNodes
<1>3. OwnerInv'
  BY DEF OwnerInv, OwnerRead, Transform
<1>4. PendingInv'
  BY DEF PendingInv, OwnerRead, Transform, Seen, Compiled, GraphNodes
<1>5. RecordInv' /\ FreeInv'
  <2>1. RecordInv'
    BY DEF RecordInv, Transform
  <2>2. Reads(graph)' = Reads(graph)
    BY DEF Reads
  <2>3. \A k \in DOMAIN order : Live(order[k])' <=> Live(order[k])
    BY <2>2 DEF Live, Unread, OwnerRead, Transform
  <2>4. \A k \in 1..Len(nodes) : Live(order[k])' <=> Live(order[k])
    BY <2>3 DEF CompileTypeOK
  <2> QED
    BY <2>1, <2>4 DEF FreeInv, Transform
<1>6. BuffersHandedOnAfterLastRead' /\ InputsBelowOutput'
  BY DEF BuffersHandedOnAfterLastRead, InputsBelowOutput, IsTransform
<1> QED
  BY <1>1, <1>2, <1>3, <1>4, <1>5, <1>6

LEMMA SizeBuffersBufferInv == BufferInv /\ SizeBuffers => BufferInv'
<1> SUFFICES ASSUME BufferInv, SizeBuffers PROVE BufferInv'
  OBVIOUS
<1>1. UNCHANGED <<graph, order, scanned, owner, pending, nodes, outBuf, free, maxBuf>>
  BY DEF SizeBuffers
<1>2. phase = "buffers" /\ phase' = "compiled"
  BY DEF SizeBuffers
<1> QED
  BY <1>1, <1>2, SameBufferInv

LEMMA StutterBufferInv == BufferInv /\ UNCHANGED compileVars => BufferInv'
<1> SUFFICES ASSUME BufferInv, UNCHANGED compileVars PROVE BufferInv'
  OBVIOUS
<1>1. /\ UNCHANGED <<graph, order, scanned, owner, pending, nodes, outBuf, free, maxBuf>>
      /\ phase' = phase
  BY DEF compileVars
<1> QED
  BY <1>1, SameBufferInv

LEMMA BufferInvInductive == BufferInv /\ [CompileNext]_compileVars => BufferInv'
BY EmitBufferInv, FindOwnerBufferInv, CompileViewBufferInv, CompileTransformBufferInv,
   SizeBuffersBufferInv, StutterBufferInv DEF CompileNext
-----------------------------------------------------------------------------
\* compile never hands a buffer on before its last reader, and keeps what a
\* transform reads below what it writes, for every graph (PipelineArena::compile).
THEOREM CompileSafe ==
  CompileSpec => [](BuffersHandedOnAfterLastRead /\ InputsBelowOutput)
<1>1. Init => BufferInv
  BY InitBufferInv
<1>2. BufferInv /\ [CompileNext]_compileVars => BufferInv'
  BY BufferInvInductive
<1>3. BufferInv => BuffersHandedOnAfterLastRead /\ InputsBelowOutput
  BY DEF BufferInv
<1> QED
  BY <1>1, <1>2, <1>3, PTL DEF CompileSpec

\* Executing tiles runs the compiler first and touches nothing of its result after
\* (execute_tile borrows the CompiledPipeline).
THEOREM ExecutionImplementsCompile == Spec => CompileSpec
<1>1. Next => [CompileNext]_compileVars
  BY DEF Next, Compile, NewPool, BeginTile, ReadBare, RunSingle, PlanNode, FallBack,
     ReadSource, RunNode, Finished, WriteTile, Evict, Done, vars
<1>2. UNCHANGED vars => UNCHANGED compileVars
  BY DEF vars
<1>3. [Next]_vars => [CompileNext]_compileVars
  BY <1>1, <1>2
<1>4. ExecInit => Init
  BY DEF ExecInit
<1> QED
  BY <1>3, <1>4, PTL DEF Spec, CompileSpec

\* So, while tiles run, a transform reads what its producer wrote in that tile.
THEOREM ExecutionReadsIntact == Spec => []BuffersHandedOnAfterLastRead
BY CompileSafe, ExecutionImplementsCompile, PTL

\* And split_at_mut gives it disjoint slices.
THEOREM ExecutionSplitsBorrows == Spec => []InputsBelowOutput
BY CompileSafe, ExecutionImplementsCompile, PTL
-----------------------------------------------------------------------------
(* How compiled nodes are linked: by their indices in the order, by what   *)
(* they read and by whose buffer that is in.                               *)

\* i is the index of n in the order, before k; 0 for the source.
Stands(i, n, k) == \/ n = 0 /\ i = 0
                   \/ i \in 1..(k - 1) /\ order[i] = n

\* What the records say of the nodes they read, in indices.
LinkInv ==
  \A k \in 1..Len(nodes) :
    /\ nodes[k].cached => Transform(order[k]) /\ CacheEnabled(order[k])
    /\ IsView(graph[order[k]]) => nodes[k].out = nodes[k].in[1]
    /\ \A s \in DOMAIN graph[order[k]].in :
         /\ nodes[k].in[s] = InputBuffer(order[k], s)
         /\ Stands(nodes[k].up[s], graph[order[k]].in[s], k)
         /\ Stands(nodes[k].prod[s], OwnerRead(order[k], s), k)

ShapeInv ==
  /\ DOMAIN sizes = 0..maxBuf
  /\ phase = "compiled" => Len(nodes) = Len(order)
  /\ LinkInv
-----------------------------------------------------------------------------
LEMMA LinkAppended ==
  ASSUME BufferInv, LinkInv, phase = "buffers", NEW n \in GraphNodes, IsNext(n), NEW buf \in Nat,
         graph' = graph, order' = order, owner' = owner,
         nodes' = Append(nodes, CompiledNode(n, buf)),
         outBuf' = [outBuf EXCEPT ![n] = buf],
         IsView(graph[n]) => buf = InputBuffer(n, 1)
  PROVE  LinkInv'
<1> USE DEF BufferInv
<1> DEFINE c == Len(nodes)
<1>1. c \in Nat /\ Len(order) \in Nat /\ c + 1 \in 1..Len(order) /\ order[c + 1] = n
  BY DEF CompileTypeOK, IsNext
<1>2. /\ Len(nodes') = c + 1
      /\ \A k \in 1..c : nodes'[k] = nodes[k] /\ outBuf'[order[k]] = outBuf[order[k]]
      /\ nodes'[c + 1] = CompiledNode(n, buf)
  BY AppendFacts
<1>3. \A k \in 1..(c + 1) : CacheEnabled(order[k])' <=> CacheEnabled(order[k])
  <2>1. \A m : CacheEnabled(m)' <=> CacheEnabled(m)
    BY DEF CacheEnabled, ReadsOf, ReadsBy, Reads
  <2> QED
    BY <2>1
<1>4. \A k \in 1..(c + 1) : \A s : OwnerRead(order[k], s)' = OwnerRead(order[k], s)
  BY DEF OwnerRead
<1>5. \A i, m, k : Stands(i, m, k)' <=> Stands(i, m, k)
  BY DEF Stands
<1>6. ASSUME NEW k \in 1..c, NEW s \in DOMAIN graph[order[k]].in
      PROVE  InputBuffer(order[k], s)' = InputBuffer(order[k], s)
  <2>1. CASE graph[order[k]].in[s] = 0
    BY <2>1 DEF InputBuffer
  <2>2. CASE graph[order[k]].in[s] # 0
    <3>1. nodes[k].up[s] \in 1..(k - 1) /\ order[nodes[k].up[s]] = graph[order[k]].in[s]
      BY <2>2 DEF LinkInv, Stands
    <3>2. nodes[k].up[s] \in 1..c
      BY <3>1, <1>1
    <3>3. outBuf'[graph[order[k]].in[s]] = outBuf[graph[order[k]].in[s]]
      BY <3>1, <3>2, <1>2
    <3> QED
      BY <3>3 DEF InputBuffer
  <2> QED
    BY <2>1, <2>2
<1>7. ASSUME NEW m, m = 0 \/ \E j \in 1..c : order[j] = m
      PROVE  Stands(CompiledIndex(m), m, c + 1)
  <2>1. CASE m = 0
    BY <2>1 DEF Stands, CompiledIndex
  <2>2. ASSUME NEW j \in 1..c, order[j] = m
        PROVE  Stands(CompiledIndex(m), m, c + 1)
    <3>1. j \in 1..Len(order) /\ j \in 1..((c + 1) - 1)
      BY <1>1
    <3>2. CompiledIndex(m) = j
      BY <3>1, <2>2, IndexOfOrdered
    <3> QED
      BY <3>1, <3>2, <2>2 DEF Stands
  <2> QED
    BY <2>1, <2>2, <1>7
<1>8. ASSUME NEW s \in DOMAIN graph[n].in
      PROVE  /\ nodes'[c + 1].in[s] = InputBuffer(n, s)
             /\ InputBuffer(n, s)' = InputBuffer(n, s)
             /\ Stands(nodes'[c + 1].up[s], graph[n].in[s], c + 1)
             /\ Stands(nodes'[c + 1].prod[s], OwnerRead(n, s), c + 1)
  <2>1. /\ nodes'[c + 1].in[s] = InputBuffer(n, s)
        /\ nodes'[c + 1].up[s] = CompiledIndex(graph[n].in[s])
        /\ nodes'[c + 1].prod[s] = CompiledIndex(OwnerRead(n, s))
    BY <1>2 DEF CompiledNode
  <2>2. graph[n].in[s] = 0 \/ \E j \in 1..c : order[j] = graph[n].in[s]
    BY InputFacts DEF Compiled
  <2>3. OwnerRead(n, s) = 0 \/ \E j \in 1..c : order[j] = OwnerRead(n, s)
    BY InputFacts
  <2>4. InputBuffer(n, s)' = InputBuffer(n, s)
    BY <2>2, <1>2 DEF InputBuffer
  <2> QED
    BY <2>1, <2>2, <2>3, <2>4, <1>7
<1>9. ASSUME NEW k \in 1..(c + 1)
      PROVE  /\ nodes'[k].cached => Transform(order[k]) /\ CacheEnabled(order[k])
             /\ IsView(graph[order[k]]) => nodes'[k].out = nodes'[k].in[1]
             /\ \A s \in DOMAIN graph[order[k]].in :
                  /\ nodes'[k].in[s] = InputBuffer(order[k], s)'
                  /\ Stands(nodes'[k].up[s], graph[order[k]].in[s], k)
                  /\ Stands(nodes'[k].prod[s], OwnerRead(order[k], s), k)
  <2>1. CASE k \in 1..c
    BY <2>1, <1>2, <1>6 DEF LinkInv
  <2>2. CASE k = c + 1
    <3>1. nodes'[k].cached => Transform(n) /\ CacheEnabled(n)
      <4>1. CompiledNode(n, buf).cached <=> ~IsView(graph[n]) /\ CacheEnabled(n)
        BY DEF CompiledNode
      <4> QED
        BY <4>1, <2>2, <1>2 DEF Transform
    <3>2. IsView(graph[n]) => nodes'[k].out = nodes'[k].in[1]
      <4>1. IsView(graph[n]) => 1 \in DOMAIN graph[n].in
        BY GraphFacts
      <4> QED
        BY <4>1, <2>2, <1>2 DEF CompiledNode
    <3> QED
      BY <3>1, <3>2, <2>2, <1>1, <1>8
  <2> QED
    BY <2>1, <2>2, <1>1
<1>10. \A k \in 1..(c + 1) : Transform(order[k])' <=> Transform(order[k])
  BY DEF Transform
<1>11. \A k \in 1..(c + 1) :
         /\ nodes'[k].cached => Transform(order[k])' /\ CacheEnabled(order[k])'
         /\ IsView(graph'[order'[k]]) => nodes'[k].out = nodes'[k].in[1]
         /\ \A s \in DOMAIN graph'[order'[k]].in :
              /\ nodes'[k].in[s] = InputBuffer(order[k], s)'
              /\ Stands(nodes[k].up[s], graph[order[k]].in[s], k)'
              /\ Stands(nodes[k].prod[s], OwnerRead(order[k], s), k)'
  <2>1. \A k \in 1..(c + 1) : \A s :
          /\ Stands(nodes[k].up[s], graph[order[k]].in[s], k)'
               <=> Stands(nodes'[k].up[s], graph[order[k]].in[s], k)
          /\ Stands(nodes[k].prod[s], OwnerRead(order[k], s), k)'
               <=> Stands(nodes'[k].prod[s], OwnerRead(order[k], s), k)
    BY <1>4 DEF Stands
  <2> QED
    BY <2>1, <1>3, <1>9, <1>10
<1> QED
  BY <1>2, <1>11 DEF LinkInv

LEMMA InitShapeInv == Init => ShapeInv
BY DEF Init, ShapeInv, LinkInv

LEMMA LinkUnchanged ==
  ASSUME LinkInv, UNCHANGED <<graph, order, owner, nodes, outBuf>>
  PROVE  LinkInv'
<1>1. \A m : CacheEnabled(m)' <=> CacheEnabled(m)
  BY DEF CacheEnabled, ReadsOf, ReadsBy, Reads
<1>2. \A k \in 1..Len(nodes) : CacheEnabled(order[k])' <=> CacheEnabled(order[k])
  BY <1>1
<1>3. \A i, m, k : Stands(i, m, k)' <=> Stands(i, m, k)
  BY DEF Stands
<1> QED
  BY <1>2, <1>3 DEF LinkInv, Transform, InputBuffer, OwnerRead

LEMMA ShapeInvInductive == BufferInv /\ ShapeInv /\ [CompileNext]_compileVars => ShapeInv'
<1> SUFFICES ASSUME BufferInv, ShapeInv, [CompileNext]_compileVars PROVE ShapeInv'
  OBVIOUS
<1>1. CASE Emit
  <2>1. nodes = <<>> /\ Len(nodes) = 0
    BY <1>1 DEF Emit, BufferInv, OrderInv
  <2>2. nodes' = nodes /\ sizes' = sizes /\ maxBuf' = maxBuf /\ phase' # "compiled"
    BY <1>1 DEF Emit
  <2> QED
    BY <2>1, <2>2 DEF ShapeInv, LinkInv
<1>2. CASE FindOwner
  <2>1. nodes = <<>> /\ Len(nodes) = 0
    BY <1>2 DEF FindOwner, BufferInv, OrderInv
  <2>2. nodes' = nodes /\ sizes' = sizes /\ maxBuf' = maxBuf /\ phase' # "compiled"
    BY <1>2 DEF FindOwner
  <2> QED
    BY <2>1, <2>2 DEF ShapeInv, LinkInv
<1>3. CASE CompileView
  <2>1. PICK n \in GraphNodes :
          /\ IsNext(n)
          /\ IsView(graph[n])
          /\ nodes' = Append(nodes, CompiledNode(n, InputBuffer(n, 1)))
          /\ outBuf' = [outBuf EXCEPT ![n] = InputBuffer(n, 1)]
    BY <1>3 DEF CompileView
  <2>2. UNCHANGED <<graph, phase, order, owner, maxBuf, sizes>> /\ phase = "buffers"
    BY <1>3 DEF CompileView
  <2>3. InputBuffer(n, 1) \in Nat
    <3>1. 1 \in DOMAIN graph[n].in
      BY <2>1, GraphFacts DEF BufferInv
    <3>2. InputBuffer(n, 1) \in 0..maxBuf
      BY <3>1, <2>1, <2>2, InputFacts
    <3> QED
      BY <3>2 DEF BufferInv, CompileTypeOK
  <2>4. LinkInv'
    BY <2>1, <2>2, <2>3, LinkAppended DEF ShapeInv
  <2> QED
    BY <2>2, <2>4 DEF ShapeInv
<1>4. CASE CompileTransform
  <2>1. PICK n \in GraphNodes, buf \in 1..(maxBuf + 1) :
          /\ IsNext(n)
          /\ ~IsView(graph[n])
          /\ maxBuf' = IF buf > maxBuf THEN buf ELSE maxBuf
          /\ LET spec   == InputTileHeight(graph[n], Tile)
                 needed == [s \in DOMAIN graph[n].in |-> spec * FormatSize(InputFormat(n, s))]
                 sized  == [b \in DOMAIN sizes |->
                              Max({sizes[b]} \cup
                                  {needed[s] : s \in {s \in DOMAIN needed : InputBuffer(n, s) = b}})]
             IN sizes' = [Grown(sized, buf) EXCEPT ![buf] = Tile * FormatSize(graph[n].fmt)]
          /\ nodes' = Append(nodes, CompiledNode(n, buf))
          /\ outBuf' = [outBuf EXCEPT ![n] = buf]
    BY <1>4 DEF CompileTransform
  <2>2. UNCHANGED <<graph, phase, order, owner>> /\ phase = "buffers"
    BY <1>4 DEF CompileTransform
  <2>3. maxBuf \in Nat
    BY DEF BufferInv, CompileTypeOK
  <2>4. buf \in Nat
    BY <2>3
  <2>5. LinkInv'
    BY <2>1, <2>2, <2>4, LinkAppended DEF ShapeInv
  <2>6. DOMAIN sizes' = (DOMAIN sizes) \cup {buf}
    BY <2>1 DEF Grown
  <2>7. DOMAIN sizes' = 0..maxBuf'
    <3>1. DOMAIN sizes = 0..maxBuf
      BY DEF ShapeInv
    <3>2. maxBuf' = IF buf > maxBuf THEN buf ELSE maxBuf
      BY <2>1
    <3>3. CASE buf > maxBuf
      <4>1. buf = maxBuf + 1
        BY <3>3, <2>3
      <4>2. DOMAIN sizes' = (0..maxBuf) \cup {maxBuf + 1}
        BY <4>1, <3>1, <2>6
      <4>3. (0..maxBuf) \cup {maxBuf + 1} = 0..(maxBuf + 1)
        BY <2>3
      <4>4. maxBuf' = maxBuf + 1
        BY <4>1, <3>2, <3>3
      <4> QED
        BY <4>2, <4>3, <4>4
    <3>4. CASE ~(buf > maxBuf)
      <4>1. buf \in 0..maxBuf /\ maxBuf' = maxBuf
        BY <3>2, <3>4, <2>3
      <4> QED
        BY <4>1, <3>1, <2>6
    <3> QED
      BY <3>3, <3>4
  <2> QED
    BY <2>2, <2>5, <2>7 DEF ShapeInv
<1>5. CASE SizeBuffers
  <2>1. UNCHANGED <<graph, order, owner, nodes, outBuf, maxBuf>> /\ Len(nodes) = Len(order)
    BY <1>5 DEF SizeBuffers
  <2>2. DOMAIN sizes' = DOMAIN sizes
    BY <1>5 DEF SizeBuffers
  <2> QED
    BY <2>1, <2>2, LinkUnchanged DEF ShapeInv
<1>6. CASE UNCHANGED compileVars
  <2>1. UNCHANGED <<graph, phase, order, owner, nodes, outBuf, maxBuf, sizes>>
    BY <1>6 DEF compileVars
  <2> QED
    BY <2>1, LinkUnchanged DEF ShapeInv
<1> QED
  BY <1>1, <1>2, <1>3, <1>4, <1>5, <1>6 DEF CompileNext
-----------------------------------------------------------------------------
LEMMA LeastOf ==
  ASSUME NEW S \in SUBSET Nat, S # {}
  PROVE  \E n \in S : \A m \in S : n <= m
<1> DEFINE R == {mn \in Nat \X Nat : mn[1] < mn[2]}
<1>1. IsWellFoundedOn(R, Nat)
  BY NatLessThanWellFounded DEF OpToRel
<1>2. \A n, m \in Nat : ~(<<m, n>> \in R) => n <= m
  OBVIOUS
<1> HIDE DEF R
<1>3. \E n \in S : \A m \in S : ~(<<m, n>> \in R)
  BY <1>1, WFMin, Zenon
<1> QED
  BY <1>2, <1>3

NodeAt(i) == IF i = 0 THEN 0 ELSE order[i]

\* The transform whose rows node i of the order shows; 0 for the source.
BaseOf(i) == IF i # 0 /\ IsView(nodes[i].op) THEN nodes[i].prod[1] ELSE i

\* A compiled pipeline, in indices.
Linked ==
  /\ N \in Nat /\ N = Len(order) /\ maxBuf \in Nat
  /\ \A j, k \in 1..N : order[j] = order[k] => j = k
  /\ \A n \in GraphNodes : \E k \in 1..N : order[k] = n
  /\ \A k \in 1..N :
       /\ order[k] \in GraphNodes
       /\ nodes[k].op = graph[order[k]]
       /\ DOMAIN nodes[k].in = DOMAIN nodes[k].op.in
       /\ IsTransform(k) => nodes[k].out \in 1..maxBuf
       /\ nodes[k].cached => IsTransform(k) /\ CacheEnabled(order[k])
       /\ IsView(nodes[k].op) => nodes[k].out = nodes[k].in[1] /\ DOMAIN nodes[k].in = {1}
       /\ \A s \in DOMAIN nodes[k].in :
            /\ nodes[k].up[s] \in 0..(k - 1)
            /\ nodes[k].op.in[s] = NodeAt(nodes[k].up[s])
            /\ nodes[k].prod[s] = BaseOf(nodes[k].up[s])
            /\ nodes[k].prod[s] \in 0..(k - 1)
            /\ nodes[k].prod[s] # 0 => IsTransform(nodes[k].prod[s])
            /\ nodes[k].in[s] = IF nodes[k].prod[s] = 0 THEN 0 ELSE nodes[nodes[k].prod[s]].out

LEMMA CompiledLinked ==
  ASSUME BufferInv, ShapeInv, phase \in {"buffers", "compiled"}, Len(nodes) = Len(order)
  PROVE  Linked
<1> USE DEF BufferInv
<1>1. /\ N = Len(order) /\ N \in Nat /\ maxBuf \in Nat /\ scanned = N
      /\ order \in Seq(GraphNodes)
  BY DEF ShapeInv, CompileTypeOK, OrderInv, N
<1>2. /\ \A j, k \in 1..N : order[j] = order[k] => j = k
      /\ \A n \in GraphNodes : \E k \in 1..N : order[k] = n
  BY <1>1 DEF OrderInv
<1>3. 0 \notin GraphNodes
  BY GraphFacts
<1>4. ASSUME NEW k \in 1..N
      PROVE  /\ order[k] \in GraphNodes
             /\ nodes[k].op = graph[order[k]]
             /\ DOMAIN nodes[k].in = DOMAIN nodes[k].op.in
             /\ outBuf[order[k]] = IF owner[order[k]] = 0 THEN 0 ELSE outBuf[owner[order[k]]]
             /\ nodes[k].out = outBuf[order[k]]
             /\ IsTransform(k) => nodes[k].out \in 1..maxBuf
             /\ nodes[k].cached => IsTransform(k) /\ CacheEnabled(order[k])
             /\ IsView(nodes[k].op) => nodes[k].out = nodes[k].in[1] /\ DOMAIN nodes[k].in = {1}
  <2>1. order[k] \in GraphNodes
    BY <1>1
  <2>2. /\ nodes[k].op = graph[order[k]] /\ nodes[k].out = outBuf[order[k]]
        /\ DOMAIN nodes[k].in = DOMAIN nodes[k].op.in
        /\ outBuf[order[k]] = IF owner[order[k]] = 0 THEN 0 ELSE outBuf[owner[order[k]]]
        /\ Transform(order[k]) => outBuf[order[k]] >= 1
    BY DEF RecordInv, N
  <2>3. outBuf[order[k]] \in 0..maxBuf
    BY <2>1 DEF CompileTypeOK
  <2>4. /\ nodes[k].cached => Transform(order[k]) /\ CacheEnabled(order[k])
        /\ IsView(graph[order[k]]) => nodes[k].out = nodes[k].in[1]
    BY DEF ShapeInv, LinkInv, N
  <2>5. IsView(graph[order[k]]) => DOMAIN graph[order[k]].in = {1}
    BY <2>1, GraphFacts
  <2> QED
    BY <2>1, <2>2, <2>3, <2>4, <2>5, <1>1 DEF IsTransform, Transform
<1>5. ASSUME NEW k \in 1..N, NEW s \in DOMAIN nodes[k].in
      PROVE  /\ Stands(nodes[k].up[s], nodes[k].op.in[s], k)
             /\ Stands(nodes[k].prod[s], OwnerRead(order[k], s), k)
             /\ nodes[k].in[s] = InputBuffer(order[k], s)
  BY <1>4 DEF ShapeInv, LinkInv, N
<1>6. ASSUME NEW k \in 1..N
      PROVE  owner[order[k]] = IF IsView(nodes[k].op) THEN OwnerRead(order[k], 1) ELSE order[k]
  BY <1>1, <1>4 DEF OwnerInv
<1>7. ASSUME NEW k \in 1..N, owner[order[k]] # 0
      PROVE  Transform(owner[order[k]])
  BY <1>1, <1>7 DEF OwnerInv
<1>8. ASSUME NEW k \in 1..N, NEW s \in DOMAIN nodes[k].in
      PROVE  /\ nodes[k].up[s] \in 0..(k - 1)
             /\ nodes[k].op.in[s] = NodeAt(nodes[k].up[s])
             /\ nodes[k].prod[s] = BaseOf(nodes[k].up[s])
             /\ nodes[k].prod[s] \in 0..(k - 1)
             /\ nodes[k].prod[s] # 0 => IsTransform(nodes[k].prod[s])
             /\ nodes[k].in[s] = IF nodes[k].prod[s] = 0 THEN 0 ELSE nodes[nodes[k].prod[s]].out
  <2> DEFINE u == nodes[k].up[s]
             p == nodes[k].prod[s]
             o == OwnerRead(order[k], s)
  <2>1. u \in 0..(k - 1) /\ nodes[k].op.in[s] = NodeAt(u) /\ p \in 0..(k - 1)
    BY <1>5 DEF Stands, NodeAt
  <2>2. (p = 0 <=> o = 0) /\ (p # 0 => p \in 1..N /\ order[p] = o)
    <3>1. p # 0 => order[p] = o /\ p \in 1..N
      BY <1>1, <1>5 DEF Stands
    <3>2. p # 0 => o # 0
      BY <3>1, <1>3, <1>4
    <3> QED
      BY <3>1, <3>2, <1>5 DEF Stands
  <2>3. CASE u = 0
    <3>1. o = 0
      BY <2>1, <2>3, <1>4 DEF NodeAt, OwnerRead
    <3>2. InputBuffer(order[k], s) = 0
      BY <2>1, <2>3, <1>4 DEF NodeAt, InputBuffer
    <3> QED
      BY <3>1, <3>2, <2>1, <2>2, <2>3, <1>5 DEF BaseOf
  <2>4. CASE u # 0
    <3>1. u \in 1..N /\ graph[order[k]].in[s] = order[u] /\ order[u] # 0
      BY <2>1, <2>4, <1>1, <1>3, <1>4 DEF NodeAt
    <3>2. o = owner[order[u]] /\ InputBuffer(order[k], s) = outBuf[order[u]]
      BY <3>1 DEF OwnerRead, InputBuffer
    <3>3. nodes[k].in[s] = IF o = 0 THEN 0 ELSE outBuf[o]
      BY <3>1, <3>2, <1>4, <1>5, Zenon
    <3>4. p # 0 => IsTransform(p) /\ nodes[p].out = outBuf[o]
      <4> SUFFICES ASSUME p # 0 PROVE IsTransform(p) /\ nodes[p].out = outBuf[o]
        OBVIOUS
      <4>1. p \in 1..N /\ order[p] = o /\ o # 0
        BY <2>2
      <4>2. Transform(o)
        BY <4>1, <3>1, <3>2, <1>7
      <4>3. nodes[p].op = graph[o] /\ nodes[p].out = outBuf[o]
        BY <4>1, <1>4
      <4> QED
        BY <4>2, <4>3 DEF IsTransform, Transform
    <3>5. p = BaseOf(u)
      <4>1. CASE IsView(nodes[u].op)
        <5>1. 1 \in DOMAIN nodes[u].in
          BY <4>1, <3>1, <1>4
        <5>2. o = OwnerRead(order[u], 1)
          BY <4>1, <3>1, <3>2, <1>6
        <5>3. Stands(nodes[u].prod[1], o, u)
          BY <5>1, <5>2, <3>1, <1>5
        <5>4. nodes[u].prod[1] = 0 <=> o = 0
          <6>1. ASSUME NEW i \in 1..(u - 1) PROVE order[i] # 0 /\ i # 0
            <7>1. i \in 1..N
              BY <3>1, <1>1
            <7>2. order[i] \in GraphNodes
              BY <7>1, <1>4
            <7> QED
              BY <7>1, <7>2, <1>3
          <6> QED
            BY <6>1, <5>3 DEF Stands
        <5>5. o # 0 => nodes[u].prod[1] \in 1..N /\ order[nodes[u].prod[1]] = o
          BY <5>3, <3>1, <1>1, SMTT(30) DEF Stands
        <5> QED
          BY <5>4, <5>5, <4>1, <3>1, <2>2, <1>2 DEF BaseOf
      <4>2. CASE ~IsView(nodes[u].op)
        BY <4>2, <3>1, <3>2, <2>2, <1>2, <1>6 DEF BaseOf
      <4> QED
        BY <4>1, <4>2
    <3> QED
      BY <3>3, <3>4, <3>5, <2>1, <2>2
  <2> QED
    BY <2>3, <2>4
<1> QED
  BY <1>1, <1>2, <1>4, <1>8 DEF Linked
-----------------------------------------------------------------------------
\* What SoundGraph says of the compiled nodes.
Undisturbed ==
  \A k \in 1..N :
    /\ nodes[k].op.op \in {"point", "join", "halo", "shrink", "view"}
    /\ DOMAIN nodes[k].in = IF nodes[k].op.op = "join" THEN {1, 2} ELSE {1}
    /\ IsView(nodes[k].op) =>
         /\ nodes[k].op.off \in Nat /\ nodes[k].op.height \in Nat
         /\ \A m \in 1..N : \A s \in DOMAIN nodes[m].in :
              nodes[m].up[s] = nodes[k].up[1] => m = k
         /\ \A m, v \in 1..N : \A s \in DOMAIN nodes[m].in : \A t \in DOMAIN nodes[v].in :
              nodes[m].up[s] = k /\ nodes[v].up[t] = k => m = v /\ s = t
         /\ nodes[k].up[1] # 0 /\ IsView(nodes[nodes[k].up[1]].op) =>
              nodes[k].op.off + nodes[k].op.height <= nodes[nodes[k].up[1]].op.height
         /\ k = N => /\ nodes[k].up[1] # 0
                     /\ IsTransform(nodes[k].up[1])
                     /\ ~nodes[nodes[k].up[1]].cached
                     /\ \A m \in (nodes[k].up[1] + 1)..N :
                          IsTransform(m) => nodes[m].out # nodes[nodes[k].up[1]].out

LEMMA SlotFacts ==
  ASSUME Linked, NEW k \in 1..N, NEW s \in DOMAIN nodes[k].in
  PROVE  /\ nodes[k].up[s] \in 0..(k - 1)
         /\ nodes[k].up[s] \in 0..N
         /\ nodes[k].op.in[s] = NodeAt(nodes[k].up[s])
         /\ graph[order[k]].in[s] = NodeAt(nodes[k].up[s])
         /\ nodes[k].prod[s] = BaseOf(nodes[k].up[s])
         /\ nodes[k].prod[s] \in 0..(k - 1)
         /\ nodes[k].prod[s] # 0 => IsTransform(nodes[k].prod[s])
         /\ nodes[k].in[s] = IF nodes[k].prod[s] = 0 THEN 0 ELSE nodes[nodes[k].prod[s]].out
<1>1. N \in Nat
  BY DEF Linked
<1>2. /\ nodes[k].up[s] \in 0..(k - 1)
      /\ nodes[k].op.in[s] = NodeAt(nodes[k].up[s])
      /\ nodes[k].op = graph[order[k]]
      /\ nodes[k].prod[s] = BaseOf(nodes[k].up[s])
      /\ nodes[k].prod[s] \in 0..(k - 1)
      /\ nodes[k].prod[s] # 0 => IsTransform(nodes[k].prod[s])
      /\ nodes[k].in[s] = IF nodes[k].prod[s] = 0 THEN 0 ELSE nodes[nodes[k].prod[s]].out
  BY DEF Linked
<1>3. nodes[k].up[s] \in 0..N
  <2> DEFINE i == nodes[k].up[s]
  <2>1. i \in 0..(k - 1)
    BY <1>2
  <2> HIDE DEF i
  <2>2. i \in 0..N
    BY <2>1, <1>1
  <2> QED
    BY <2>2 DEF i
<1> QED
  BY <1>2, <1>3

LEMMA NodeAtOneToOne ==
  ASSUME BufferInv, Linked, NEW i \in 0..N, NEW j \in 0..N, NodeAt(i) = NodeAt(j)
  PROVE  i = j
<1>1. 0 \notin GraphNodes
  BY GraphFacts DEF BufferInv
<1>2. \A k \in 1..N : order[k] # 0
  BY <1>1 DEF Linked
<1> QED
  BY <1>2 DEF NodeAt, Linked

\* At the end a view reads a node whose buffer nobody takes: no transform reads it.
LEMMA EndIntact ==
  ASSUME BufferInv, Linked, N # 0, IsView(nodes[N].op),
         NEW u \in 1..(N - 1), nodes[N].up[1] = u, IsTransform(u),
         \A m \in 1..N : \A s \in DOMAIN nodes[m].in : nodes[m].up[s] = u => m = N
  PROVE  \A m \in (u + 1)..N : IsTransform(m) => nodes[m].out # nodes[u].out
<1> USE DEF BufferInv
<1> DEFINE o == order[u]
<1>1. N \in Nat /\ u \in 1..N /\ o \in GraphNodes /\ o # 0 /\ scanned = Len(order)
  <2>1. 0 \notin GraphNodes
    BY GraphFacts
  <2>2. N \in Nat /\ N \in 1..N
    BY DEF Linked
  <2>3. scanned = Len(order)
    <3>1. nodes # <<>>
      BY <2>2 DEF N
    <3>2. phase \notin {"order", "owners"}
      BY <3>1 DEF OrderInv
    <3> QED
      BY <3>2 DEF OrderInv, CompileTypeOK
  <2> QED
    BY <2>1, <2>2, <2>3 DEF Linked
<1>2. ASSUME NEW k \in 1..N
      PROVE  owner[order[k]] = IF IsView(nodes[k].op) THEN OwnerRead(order[k], 1) ELSE order[k]
  BY <1>1 DEF OwnerInv, Linked
\* Only the last view shares the buffer.
<1>3. \A k \in 1..N : owner[order[k]] = o => k = u \/ k = N
  <2> DEFINE Bad == {k \in 1..N : owner[order[k]] = o /\ k # u /\ k # N}
  <2> SUFFICES ASSUME Bad # {} PROVE FALSE
    OBVIOUS
  <2>1. PICK k \in Bad : \A m \in Bad : k <= m
    <3>1. Bad \in SUBSET Nat
      OBVIOUS
    <3> QED
      BY <3>1, LeastOf
  <2>2. k \in 1..N /\ owner[order[k]] = o /\ k # u /\ k # N
    BY <2>1
  <2>3. CASE ~IsView(nodes[k].op)
    BY <2>2, <2>3, <1>1, <1>2 DEF Linked
  <2>4. CASE IsView(nodes[k].op)
    <3>1. 1 \in DOMAIN nodes[k].in /\ OwnerRead(order[k], 1) = o
      BY <2>2, <2>4, <1>2 DEF Linked
    <3>2. PICK j \in 0..(k - 1) : j = nodes[k].up[1] /\ graph[order[k]].in[1] = NodeAt(j)
      BY <3>1, <2>2, SlotFacts
    <3>3. graph[order[k]].in[1] = NodeAt(j)
      BY <3>2
    <3>4. j # 0
      BY <3>1, <3>3, <1>1 DEF NodeAt, OwnerRead
    <3>5. order[j] # 0
      <4>1. j \in 1..N
        BY <3>2, <3>4, <2>2, <1>1
      <4>2. 0 \notin GraphNodes
        BY GraphFacts
      <4> QED
        BY <4>1, <4>2 DEF Linked
    <3>6. owner[order[j]] = o
      BY <3>1, <3>3, <3>4, <3>5 DEF NodeAt, OwnerRead
    <3>7. j \in 1..N /\ j < k
      BY <3>2, <3>4, <2>2, <1>1
    <3>8. j # u
      BY <3>1, <3>2, <2>2
    <3>9. j # N
      BY <3>7, <2>2, <1>1
    <3> QED
      BY <3>6, <3>7, <3>8, <3>9, <2>1
  <2> QED
    BY <2>3, <2>4
<1>4. Unread(o)
  <2> SUFFICES ASSUME NEW r \in Reads(graph), Transform(r[1]), OwnerRead(r[1], r[2]) = o
               PROVE  FALSE
    BY DEF Unread
  <2>1. r[1] \in GraphNodes /\ r[2] \in DOMAIN graph[r[1]].in /\ graph[r[1]].in[r[2]] # 0
    BY DEF Reads, GraphNodes
  <2>2. PICK k \in 1..N : order[k] = r[1]
    BY <2>1 DEF Linked
  <2>3. nodes[k].op = graph[r[1]] /\ r[2] \in DOMAIN nodes[k].in
    BY <2>1, <2>2 DEF Linked
  <2>4. PICK j \in 0..(k - 1) : j = nodes[k].up[r[2]] /\ nodes[k].op.in[r[2]] = NodeAt(j)
    BY <2>3, SlotFacts
  <2>5. j \in 1..(k - 1) /\ graph[r[1]].in[r[2]] = order[j]
    BY <2>1, <2>3, <2>4 DEF NodeAt
  <2>6. owner[order[j]] = o
    BY <2>1, <2>5 DEF OwnerRead
  <2>7. j \in 1..N /\ j # N
    BY <2>5, <1>1
  <2>8. j = u
    BY <2>6, <2>7, <1>3
  <2>9. k = N
    BY <2>3, <2>4, <2>8
  <2> QED
    BY <2>3, <2>9 DEF Transform
<1>5. Live(o)
  BY <1>1, <1>4 DEF Live, Linked, IsTransform, Transform
<1>6. \A m \in (u + 1)..N : Transform(order[m]) => outBuf[order[m]] # outBuf[o]
  BY <1>1, <1>5 DEF FreeInv, N
<1>7. \A m \in 1..N : nodes[m].out = outBuf[order[m]] /\ nodes[m].op = graph[order[m]]
  BY DEF RecordInv, N
<1>8. \A m \in (u + 1)..N : m \in 1..N
  BY <1>1
<1> QED
  BY <1>1, <1>6, <1>7, <1>8 DEF IsTransform, Transform

\* A node that one slot alone reads, and that has one slot, is not cached.
LEMMA LoneReader ==
  ASSUME NEW u \in GraphNodes, NEW n, Cardinality(ReadsOf(graph, u)) = 1,
         DOMAIN graph[u].in \subseteq {1}
  PROVE  ~CacheEnabled(u)
<1>1. ReadsBy(u) \subseteq {<<u, 1>>}
  BY DEF ReadsBy, Reads
<1>2. IsFiniteSet({<<u, 1>>}) /\ Cardinality({<<u, 1>>}) = 1
  BY FS_Singleton
<1>3. Cardinality(ReadsBy(u)) <= 1 /\ Cardinality(ReadsBy(u)) \in Nat
  BY <1>1, <1>2, FS_Subset, FS_CardinalityType
<1> QED
  BY <1>3 DEF CacheEnabled

LEMMA SoundUndisturbed ==
  ASSUME BufferInv, Linked, SoundGraph(graph)
  PROVE  Undisturbed
<1> DEFINE Readers(v) == {r \in GraphNodes \X (1..2) : /\ r[2] \in DOMAIN graph[r[1]].in
                                                       /\ graph[r[1]].in[r[2]] = v}
<1> SUFFICES ASSUME NEW k \in 1..N
             PROVE  /\ nodes[k].op.op \in {"point", "join", "halo", "shrink", "view"}
                    /\ DOMAIN nodes[k].in = IF nodes[k].op.op = "join" THEN {1, 2} ELSE {1}
                    /\ IsView(nodes[k].op) =>
                         /\ nodes[k].op.off \in Nat /\ nodes[k].op.height \in Nat
                         /\ \A m \in 1..N : \A s \in DOMAIN nodes[m].in :
                              nodes[m].up[s] = nodes[k].up[1] => m = k
                         /\ \A m, v \in 1..N : \A s \in DOMAIN nodes[m].in :
                              \A t \in DOMAIN nodes[v].in :
                                nodes[m].up[s] = k /\ nodes[v].up[t] = k => m = v /\ s = t
                         /\ nodes[k].up[1] # 0 /\ IsView(nodes[nodes[k].up[1]].op) =>
                              nodes[k].op.off + nodes[k].op.height
                                <= nodes[nodes[k].up[1]].op.height
                         /\ k = N => /\ nodes[k].up[1] # 0
                                     /\ IsTransform(nodes[k].up[1])
                                     /\ ~nodes[nodes[k].up[1]].cached
                                     /\ \A m \in (nodes[k].up[1] + 1)..N :
                                          IsTransform(m) =>
                                            nodes[m].out # nodes[nodes[k].up[1]].out
  BY DEF Undisturbed
<1>1. order[k] \in GraphNodes /\ nodes[k].op = graph[order[k]] /\ N \in Nat
      /\ DOMAIN nodes[k].in = DOMAIN nodes[k].op.in
  BY DEF Linked
<1>2. /\ graph[order[k]].op \in {"point", "join", "halo", "shrink", "view"}
      /\ DOMAIN graph[order[k]].in = IF graph[order[k]].op = "join" THEN {1, 2} ELSE {1}
      /\ IsView(graph[order[k]]) => SoundView(graph, order[k])
  BY <1>1, SMTT(30) DEF SoundGraph, GraphNodes
<1>3. ASSUME IsView(nodes[k].op)
      PROVE  /\ nodes[k].op.off \in Nat /\ nodes[k].op.height \in Nat
             /\ \A m \in 1..N : \A s \in DOMAIN nodes[m].in :
                  nodes[m].up[s] = nodes[k].up[1] => m = k
             /\ \A m, v \in 1..N : \A s \in DOMAIN nodes[m].in : \A t \in DOMAIN nodes[v].in :
                  nodes[m].up[s] = k /\ nodes[v].up[t] = k => m = v /\ s = t
             /\ nodes[k].up[1] # 0 /\ IsView(nodes[nodes[k].up[1]].op) =>
                  nodes[k].op.off + nodes[k].op.height <= nodes[nodes[k].up[1]].op.height
             /\ k = N => /\ nodes[k].up[1] # 0
                         /\ IsTransform(nodes[k].up[1])
                         /\ ~nodes[nodes[k].up[1]].cached
                         /\ \A m \in (nodes[k].up[1] + 1)..N :
                              IsTransform(m) => nodes[m].out # nodes[nodes[k].up[1]].out
  <2> DEFINE n == order[k]
             g == graph
             u == graph[n].in[1]
             i == nodes[k].up[1]
  <2>1. /\ g[n].off \in Nat /\ g[n].height \in Nat
        /\ Readers(u) = {<<n, 1>>}
        /\ u # 0 /\ IsView(g[u]) => g[n].off + g[n].height <= g[u].height
        /\ \/ \E r \in Readers(n) : Readers(n) = {r}
           \/ Readers(n) = {} /\ u # 0 /\ ~IsView(g[u]) /\ ~(g[u].op = "join" /\ g[u].cache)
    BY <1>1, <1>2, <1>3 DEF SoundView, GraphNodes
  <2>2. 1 \in DOMAIN nodes[k].in
    BY <1>3 DEF Linked
  <2>3. i \in 0..(k - 1) /\ u = NodeAt(i)
    BY <2>2, <1>1 DEF Linked
  \* A slot is a read.
  <2>4. ASSUME NEW m \in 1..N, NEW s \in DOMAIN nodes[m].in
        PROVE  /\ <<order[m], s>> \in Readers(NodeAt(nodes[m].up[s]))
               /\ nodes[m].up[s] \in 0..(m - 1)
    <3>1. /\ order[m] \in GraphNodes /\ s \in DOMAIN graph[order[m]].in
          /\ graph[order[m]].in[s] = NodeAt(nodes[m].up[s])
          /\ nodes[m].up[s] \in 0..(m - 1)
      BY DEF Linked
    <3>2. s \in 1..2
      BY <3>1, GraphFacts DEF BufferInv
    <3> QED
      BY <3>1, <3>2
  <2> HIDE DEF Readers
  <2>5. ASSUME NEW m \in 1..N, NEW s \in DOMAIN nodes[m].in, nodes[m].up[s] = i
        PROVE  m = k /\ s = 1
    <3>1. <<order[m], s>> \in {<<n, 1>>}
      BY <2>1, <2>3, <2>4, <2>5
    <3> QED
      BY <3>1 DEF Linked
  <2>6. ASSUME NEW m \in 1..N, NEW v \in 1..N, NEW s \in DOMAIN nodes[m].in,
               NEW t \in DOMAIN nodes[v].in, nodes[m].up[s] = k, nodes[v].up[t] = k
        PROVE  m = v /\ s = t
    <3>1. NodeAt(k) = n
      BY DEF NodeAt
    <3>2. <<order[m], s>> \in Readers(n) /\ <<order[v], t>> \in Readers(n)
      BY <3>1, <2>4, <2>6
    <3>3. <<order[m], s>> = <<order[v], t>>
      BY <3>2, <2>1
    <3> QED
      BY <3>3 DEF Linked
  <2>7. i # 0 => i \in 1..N /\ u = order[i] /\ nodes[i].op = graph[u] /\ u \in GraphNodes
    BY <2>3, <1>1 DEF NodeAt, Linked
  <2>8. i = 0 => u = 0
    BY <2>3 DEF NodeAt
  <2>9. u = 0 => i = 0
    <3>1. 0 \notin GraphNodes
      BY GraphFacts DEF BufferInv
    <3> QED
      BY <3>1, <2>7
  <2>10. ASSUME k = N
         PROVE  /\ i # 0
                /\ IsTransform(i)
                /\ ~nodes[i].cached
                /\ \A m \in (i + 1)..N : IsTransform(m) => nodes[m].out # nodes[i].out
    <3>1. Readers(n) = {}
      <4> SUFFICES ASSUME NEW r \in Readers(n) PROVE FALSE
        OBVIOUS
      <4>1. /\ r = <<r[1], r[2]>> /\ r[1] \in GraphNodes /\ r[2] \in DOMAIN graph[r[1]].in
            /\ graph[r[1]].in[r[2]] = n
        BY DEF Readers
      <4>2. PICK m \in 1..N : order[m] = r[1]
        BY <4>1 DEF Linked
      <4>3. /\ r[2] \in DOMAIN nodes[m].in
            /\ n = NodeAt(nodes[m].up[r[2]])
            /\ nodes[m].up[r[2]] \in 0..(m - 1)
        BY <4>1, <4>2 DEF Linked
      <4>4. NodeAt(k) = n /\ k \in 0..N /\ nodes[m].up[r[2]] \in 0..N
        <5>1. NodeAt(k) = n /\ k \in 0..N
          BY DEF NodeAt
        <5> QED
          BY <5>1, <4>3, SlotFacts
      <4>5. nodes[m].up[r[2]] = k
        BY <4>3, <4>4, NodeAtOneToOne
      <4> QED
        BY <4>3, <4>5, <2>10
    <3>2. u # 0 /\ ~IsView(g[u]) /\ ~(g[u].op = "join" /\ g[u].cache)
      BY <3>1, <2>1
    <3>3. i # 0 /\ i \in 1..N /\ IsTransform(i)
      BY <3>2, <2>7, <2>8 DEF IsTransform
    <3>4. ~nodes[i].cached
      <4>1. CASE ~g[u].cache
        <5>1. ~CacheEnabled(u)
          BY <4>1 DEF CacheEnabled
        <5> QED
          BY <5>1, <3>3, <2>7 DEF Linked
      <4>2. CASE g[u].op # "join"
        <5>1. DOMAIN graph[u].in \subseteq {1}
          BY <4>2, <3>3, <2>7 DEF SoundGraph, GraphNodes
        <5>2. ReadsOf(graph, u) = Readers(u)
          BY <3>2 DEF ReadsOf, Reads, Readers, GraphNodes
        <5>3. Cardinality(ReadsOf(graph, u)) = 1
          BY <5>2, <2>1, FS_Singleton
        <5>4. ~CacheEnabled(u)
          BY <5>1, <5>3, <3>3, <2>7, LoneReader
        <5> QED
          BY <5>4, <3>3, <2>7 DEF Linked
      <4> QED
        BY <4>1, <4>2, <3>2
    <3>5. i \in 1..(N - 1) /\ nodes[N].up[1] = i /\ N # 0
      BY <3>3, <2>3, <2>10
    <3>6. \A m \in 1..N : \A s \in DOMAIN nodes[m].in : nodes[m].up[s] = i => m = N
      BY <2>5, <2>10
    <3>7. IsView(nodes[N].op)
      BY <1>3, <2>10
    <3>8. \A m \in (i + 1)..N : IsTransform(m) => nodes[m].out # nodes[i].out
      <4> HIDE DEF i
      <4> QED
        BY <3>3, <3>5, <3>6, <3>7, EndIntact
    <3> QED
      BY <3>3, <3>4, <3>8
  <2>11. i # 0 /\ IsView(nodes[i].op) =>
           nodes[k].op.off + nodes[k].op.height <= nodes[i].op.height
    BY <2>1, <2>7, <2>9, <1>1
  <2> QED
    BY <2>1, <2>5, <2>6, <2>10, <2>11, <1>1, SMTT(30)
<1> QED
  BY <1>1, <1>2, <1>3
-----------------------------------------------------------------------------
(* The rows of the image.                                                  *)

\* One equation of ImageRows.
RowStep(f, n) ==
  [y \in Int |->
    IF n = 0 THEN SourceRow(y)
    ELSE LET In(d) == f[graph[n].in[1]][d]
         IN CASE graph[n].op = "point"  -> <<n, In(y)>>
              [] graph[n].op = "join"   -> <<n, In(y), f[graph[n].in[2]][y]>>
              [] graph[n].op = "halo"   -> <<n, In(y - 1), In(y), In(y + 1)>>
              [] graph[n].op = "view"   -> IF y \in 0..(graph[n].height - 1)
                                           THEN In(y + graph[n].off)
                                           ELSE Zero
              [] OTHER              -> In(Factor * y)]

\* It takes from f only the rows of what the node reads.
LEMMA RowStepReads ==
  ASSUME Linked, Undisturbed, NEW k \in 1..N, NEW f, NEW g,
         \A s \in DOMAIN nodes[k].in : f[NodeAt(nodes[k].up[s])] = g[NodeAt(nodes[k].up[s])]
  PROVE  RowStep(f, order[k]) = RowStep(g, order[k])
<1> DEFINE n == order[k]
<1>1. /\ nodes[k].op = graph[n]
      /\ graph[n].op \in {"point", "join", "halo", "shrink", "view"}
      /\ DOMAIN nodes[k].in = IF graph[n].op = "join" THEN {1, 2} ELSE {1}
  BY DEF Linked, Undisturbed
<1>2. f[graph[n].in[1]] = g[graph[n].in[1]]
  <2>1. 1 \in DOMAIN nodes[k].in
    BY <1>1
  <2> QED
    BY <2>1, SlotFacts
<1>3. graph[n].op = "join" => f[graph[n].in[2]] = g[graph[n].in[2]]
  <2>1. graph[n].op = "join" => 2 \in DOMAIN nodes[k].in
    BY <1>1
  <2> QED
    BY <2>1, SlotFacts
<1>4. CASE graph[n].op = "join"
  BY <1>2, <1>3, <1>4 DEF RowStep
<1>5. CASE graph[n].op # "join"
  BY <1>2, <1>5 DEF RowStep
<1> QED
  BY <1>4, <1>5

LEMMA RowsExist ==
  ASSUME BufferInv, Linked, Undisturbed
  PROVE  \E f : f = [n \in {0} \cup GraphNodes |-> RowStep(f, n)]
<1> DEFINE D == {0} \cup GraphNodes
           Upto(f, k) == /\ f = [n \in D |-> f[n]]
                         /\ \A j \in 0..k : f[NodeAt(j)] = RowStep(f, NodeAt(j))
           Bad == {k \in 0..N : ~ \E f : Upto(f, k)}
<1>1. N \in Nat /\ 0 \notin GraphNodes /\ \A k \in 1..N : order[k] \in GraphNodes /\ order[k] # 0
  <2>1. 0 \notin GraphNodes
    BY GraphFacts DEF BufferInv
  <2> QED
    BY <2>1 DEF Linked
<1>2. Bad = {}
  <2> SUFFICES ASSUME Bad # {} PROVE FALSE
    OBVIOUS
  <2>1. PICK k \in Bad : \A m \in Bad : k <= m
    <3>1. Bad \in SUBSET Nat
      OBVIOUS
    <3> HIDE DEF Bad
    <3> QED
      BY <3>1, LeastOf
  <2>2. k \in 0..N /\ ~ \E f : Upto(f, k)
    BY <2>1
  <2>3. CASE k = 0
    <3> DEFINE f == [n \in D |-> [y \in Int |-> SourceRow(y)]]
    <3>1. NodeAt(0) = 0 /\ RowStep(f, 0) = [y \in Int |-> SourceRow(y)]
      BY DEF NodeAt, RowStep
    <3>2. f[0] = RowStep(f, 0)
      BY <3>1
    <3>3. f = [n \in D |-> f[n]]
      OBVIOUS
    <3> HIDE DEF f
    <3>4. \A j \in 0..k : f[NodeAt(j)] = RowStep(f, NodeAt(j))
      BY <3>1, <3>2, <2>3
    <3>5. Upto(f, k)
      BY <3>3, <3>4
    <3> QED
      BY <3>5, <2>2
  <2>4. CASE k # 0
    <3>1. k \in 1..N /\ k - 1 \in 0..N
      BY <2>2, <2>4, <1>1
    <3>2. k - 1 \notin Bad
      BY <3>1, <2>1
    <3>3. PICK f : Upto(f, k - 1)
      BY <3>1, <3>2
    <3> DEFINE g == [f EXCEPT ![order[k]] = RowStep(f, order[k])]
    <3>4. order[k] \in D
      BY <3>1, <1>1
    <3>5. g = [n \in D |-> g[n]]
      BY <3>3
    <3>6. g[order[k]] = RowStep(f, order[k])
      BY <3>3, <3>4
    <3>7. \A i \in 0..(k - 1) : g[NodeAt(i)] = f[NodeAt(i)]
      <4> SUFFICES ASSUME NEW i \in 0..(k - 1) PROVE NodeAt(i) # order[k] /\ NodeAt(i) \in D
        BY <3>3
      <4>1. CASE i = 0
        BY <4>1, <3>1, <1>1 DEF NodeAt
      <4>2. CASE i # 0
        <5>1. i \in 1..N /\ i # k
          BY <4>2, <3>1, <1>1
        <5> QED
          BY <5>1, <4>2, <3>1, <1>1 DEF NodeAt, Linked
      <4> QED
        BY <4>1, <4>2
    <3> HIDE DEF g
    <3>8. \A j \in 1..k : RowStep(g, order[j]) = RowStep(f, order[j])
      <4> SUFFICES ASSUME NEW j \in 1..k
                   PROVE  RowStep(g, order[j]) = RowStep(f, order[j])
        OBVIOUS
      <4>1. j \in 1..N
        BY <3>1, <1>1
      <4>2. ASSUME NEW s \in DOMAIN nodes[j].in
            PROVE  nodes[j].up[s] \in 0..(k - 1)
        <5>1. PICK i \in 0..(j - 1) : i = nodes[j].up[s]
          BY <4>1, <4>2, SlotFacts
        <5>2. i \in 0..(k - 1)
          BY <3>1
        <5> QED
          BY <5>1, <5>2
      <4>3. \A s \in DOMAIN nodes[j].in : g[NodeAt(nodes[j].up[s])] = f[NodeAt(nodes[j].up[s])]
        BY <4>2, <3>7
      <4> QED
        BY <4>1, <4>3, RowStepReads
    <3>9. RowStep(g, 0) = RowStep(f, 0)
      BY DEF RowStep
    <3>10. ASSUME NEW j \in 0..k PROVE g[NodeAt(j)] = RowStep(g, NodeAt(j))
      <4>1. CASE j = k
        <5>1. NodeAt(j) = order[k] /\ j \in 1..k
          BY <4>1, <3>1 DEF NodeAt
        <5> QED
          BY <5>1, <4>1, <3>6, <3>8
      <4>2. CASE j # k
        <5>1. j \in 0..(k - 1)
          BY <4>2, <3>1
        <5>2. f[NodeAt(j)] = RowStep(f, NodeAt(j))
          BY <5>1, <3>3
        <5>3. RowStep(g, NodeAt(j)) = RowStep(f, NodeAt(j))
          <6>1. CASE j = 0
            BY <6>1, <3>9 DEF NodeAt
          <6>2. CASE j # 0
            <7>1. j \in 1..k
              BY <6>2
            <7> QED
              BY <7>1, <6>2, <3>8 DEF NodeAt
          <6> QED
            BY <6>1, <6>2
        <5> QED
          BY <5>1, <5>2, <5>3, <3>7
      <4> QED
        BY <4>1, <4>2
    <3>11. Upto(g, k)
      BY <3>5, <3>10
    <3> QED
      BY <3>11, <2>2
  <2> QED
    BY <2>3, <2>4
<1>3. PICK f : Upto(f, N)
  BY <1>1, <1>2
<1>4. \A n \in D : f[n] = RowStep(f, n)
  <2> SUFFICES ASSUME NEW n \in D PROVE f[n] = RowStep(f, n)
    OBVIOUS
  <2>1. PICK j \in 0..N : NodeAt(j) = n
    <3>1. CASE n = 0
      BY <3>1, <1>1 DEF NodeAt
    <3>2. CASE n # 0
      <4>1. PICK j \in 1..N : order[j] = n
        BY <3>2 DEF Linked
      <4> QED
        BY <4>1 DEF NodeAt
    <3> QED
      BY <3>1, <3>2
  <2> QED
    BY <2>1, <1>3
<1>5. f = [n \in D |-> RowStep(f, n)]
  BY <1>3, <1>4, SMTT(30)
<1> QED
  BY <1>5

\* Row y of what node j of the order gives; of the source for j = 0.
Row(j, y) == RowOf[NodeAt(j)][y]

LEMMA RowFacts ==
  ASSUME BufferInv, Linked, Undisturbed
  PROVE  /\ \A y \in Int : Row(0, y) = SourceRow(y)
         /\ \A k \in 1..N : \A y \in Int :
              LET In(d) == Row(nodes[k].up[1], d)
                  n     == order[k]
              IN /\ nodes[k].op.op = "point"  => Row(k, y) = <<n, In(y)>>
                 /\ nodes[k].op.op = "join"   => Row(k, y) = <<n, In(y), Row(nodes[k].up[2], y)>>
                 /\ nodes[k].op.op = "halo"   => Row(k, y) = <<n, In(y - 1), In(y), In(y + 1)>>
                 /\ nodes[k].op.op = "shrink" => Row(k, y) = In(2 * y)
                 /\ nodes[k].op.op = "view"   =>
                      Row(k, y) = IF y \in 0..(nodes[k].op.height - 1)
                                  THEN In(y + nodes[k].op.off) ELSE Zero
<1>1. PICK f : f = [n \in {0} \cup GraphNodes |-> RowStep(f, n)]
  BY RowsExist
<1>2. RowOf = [n \in {0} \cup GraphNodes |-> RowStep(RowOf, n)]
  BY <1>1 DEF RowOf, ImageRows, RowStep, GraphNodes
<1>3. RowOf[0] = [y \in Int |-> SourceRow(y)]
  BY <1>2 DEF RowStep
<1>4. 0 \notin GraphNodes
  BY GraphFacts DEF BufferInv
<1>5. ASSUME NEW k \in 1..N, NEW y \in Int
      PROVE  LET In(d) == Row(nodes[k].up[1], d)
                 n     == order[k]
             IN /\ nodes[k].op.op = "point"  => Row(k, y) = <<n, In(y)>>
                /\ nodes[k].op.op = "join"   => Row(k, y) = <<n, In(y), Row(nodes[k].up[2], y)>>
                /\ nodes[k].op.op = "halo"   => Row(k, y) = <<n, In(y - 1), In(y), In(y + 1)>>
                /\ nodes[k].op.op = "shrink" => Row(k, y) = In(2 * y)
                /\ nodes[k].op.op = "view"   =>
                     Row(k, y) = IF y \in 0..(nodes[k].op.height - 1)
                                 THEN In(y + nodes[k].op.off) ELSE Zero
  <2> DEFINE n == order[k]
             In(d) == RowOf[graph[n].in[1]][d]
  <2>1. n \in GraphNodes /\ n # 0 /\ nodes[k].op = graph[n]
    BY <1>4 DEF Linked
  <2>2. Row(k, y) = RowOf[n][y]
    BY DEF Row, NodeAt
  <2>3. RowOf[n] = RowStep(RowOf, n)
    BY <1>2, <2>1
  <2>4. RowOf[n][y] = CASE graph[n].op = "point"  -> <<n, In(y)>>
                        [] graph[n].op = "join"   -> <<n, In(y), RowOf[graph[n].in[2]][y]>>
                        [] graph[n].op = "halo"   -> <<n, In(y - 1), In(y), In(y + 1)>>
                        [] graph[n].op = "view"   -> IF y \in 0..(graph[n].height - 1)
                                                     THEN In(y + graph[n].off)
                                                     ELSE Zero
                        [] OTHER                  -> In(Factor * y)
    BY <2>1, <2>3 DEF RowStep
  <2>5. DOMAIN nodes[k].in = IF graph[n].op = "join" THEN {1, 2} ELSE {1}
    BY <2>1 DEF Undisturbed
  <2>6. \A d : Row(nodes[k].up[1], d) = In(d)
    <3>1. 1 \in DOMAIN nodes[k].in
      BY <2>5
    <3> QED
      BY <3>1, SlotFacts DEF Row
  <2>7. graph[n].op = "join" => Row(nodes[k].up[2], y) = RowOf[graph[n].in[2]][y]
    <3>1. graph[n].op = "join" => 2 \in DOMAIN nodes[k].in
      BY <2>5
    <3> QED
      BY <3>1, SlotFacts DEF Row
  <2> HIDE DEF n, In
  <2>8. graph[n].op = "point" => Row(k, y) = <<n, In(y)>>
    BY <2>2, <2>4
  <2>9. graph[n].op = "join" => Row(k, y) = <<n, In(y), Row(nodes[k].up[2], y)>>
    BY <2>2, <2>4, <2>7
  <2>10. graph[n].op = "halo" => Row(k, y) = <<n, In(y - 1), In(y), In(y + 1)>>
    BY <2>2, <2>4
  <2>11. graph[n].op = "shrink" => Row(k, y) = In(2 * y)
    BY <2>2, <2>4 DEF Factor
  <2>12. graph[n].op = "view" => Row(k, y) = IF y \in 0..(graph[n].height - 1)
                                              THEN In(y + graph[n].off) ELSE Zero
    BY <2>2, <2>4
  <2> QED
    BY <2>1, <2>6, <2>8, <2>9, <2>10, <2>11, <2>12 DEF n
<1> QED
  BY <1>3, <1>5 DEF Row, NodeAt
-----------------------------------------------------------------------------
HeightStep(f, k) == IF k = 0 THEN SourceHeight ELSE OutputHeight(graph[order[k]], f[k - 1])

LEMMA OutputHeightTyped ==
  ASSUME Linked, Undisturbed, NEW k \in 1..N, NEW h \in Nat
  PROVE  OutputHeight(graph[order[k]], h) \in Nat
<1>1. /\ nodes[k].op = graph[order[k]]
      /\ nodes[k].op.op \in {"point", "join", "halo", "shrink", "view"}
      /\ nodes[k].op.op = "view" => nodes[k].op.height \in Nat
  BY DEF Linked, Undisturbed, IsView
<1>2. h \div 2 \in Nat
  OBVIOUS
<1> QED
  BY <1>1, <1>2 DEF OutputHeight, Factor

\* The height of the output is a number, and that of a view at the end is the view's.
LEMMA HeightFacts ==
  ASSUME Linked, Undisturbed
  PROVE  /\ PipelineHeight \in Nat
         /\ N # 0 /\ IsView(nodes[N].op) => PipelineHeight = nodes[N].op.height
<1> DEFINE D == 0..N
           Upto(f, k) == /\ f = [j \in D |-> f[j]]
                         /\ \A j \in 0..k : f[j] = HeightStep(f, j) /\ f[j] \in Nat
           Bad == {k \in D : ~ \E f : Upto(f, k)}
<1>1. N \in Nat /\ Len(order) = N
  BY DEF Linked
<1>2. Bad = {}
  <2> SUFFICES ASSUME Bad # {} PROVE FALSE
    OBVIOUS
  <2>1. PICK k \in Bad : \A m \in Bad : k <= m
    <3>1. Bad \in SUBSET Nat
      OBVIOUS
    <3> HIDE DEF Bad
    <3> QED
      BY <3>1, LeastOf
  <2>2. k \in 0..N /\ ~ \E f : Upto(f, k)
    BY <2>1
  <2>3. CASE k = 0
    <3> DEFINE f == [j \in D |-> SourceHeight]
    <3>1. f = [j \in D |-> f[j]] /\ f[0] = SourceHeight
      BY <1>1
    <3> HIDE DEF f
    <3>2. \A j \in 0..k : f[j] = HeightStep(f, j) /\ f[j] \in Nat
      BY <3>1, <2>3, ExecutionAssumption DEF HeightStep
    <3>3. Upto(f, k)
      BY <3>1, <3>2
    <3> QED
      BY <3>3, <2>2
  <2>4. CASE k # 0
    <3>1. k \in 1..N /\ k - 1 \in 0..N
      BY <2>2, <2>4, <1>1
    <3>2. k - 1 \notin Bad
      BY <3>1, <2>1
    <3>3. PICK f : Upto(f, k - 1)
      BY <3>1, <3>2
    <3> DEFINE g == [f EXCEPT ![k] = HeightStep(f, k)]
    <3>4. k \in D
      BY <3>1
    <3>5. g = [j \in D |-> g[j]] /\ g[k] = HeightStep(f, k) /\ \A j \in 0..(k - 1) : g[j] = f[j]
      <4>1. g = [j \in D |-> IF j = k THEN HeightStep(f, k) ELSE f[j]]
        BY <3>3
      <4>2. \A j \in 0..(k - 1) : j \in D /\ j # k
        BY <3>1, <1>1
      <4> HIDE DEF D, g
      <4> QED
        BY <4>1, <4>2, <3>4
    <3> HIDE DEF g
    <3>6. ASSUME NEW j \in 0..k PROVE g[j] = HeightStep(g, j) /\ g[j] \in Nat
      <4>1. HeightStep(g, j) = HeightStep(f, j)
        <5>1. CASE j = 0
          BY <5>1 DEF HeightStep
        <5>2. CASE j # 0
          <6>1. j - 1 \in 0..(k - 1)
            BY <5>2, <3>1
          <6> QED
            BY <6>1, <3>5 DEF HeightStep
        <5> QED
          BY <5>1, <5>2
      <4>2. CASE j = k
        <5>1. f[k - 1] \in Nat
          BY <3>1, <3>3
        <5>2. HeightStep(f, k) \in Nat
          <6>1. HeightStep(f, k) = OutputHeight(graph[order[k]], f[k - 1])
            BY <2>4 DEF HeightStep
          <6> QED
            BY <6>1, <5>1, <3>1, OutputHeightTyped
        <5> QED
          BY <5>2, <4>1, <4>2, <3>5
      <4>3. CASE j # k
        <5>1. j \in 0..(k - 1)
          BY <4>3, <3>1
        <5> QED
          BY <5>1, <4>1, <3>3, <3>5
      <4> QED
        BY <4>2, <4>3
    <3>7. Upto(g, k)
      BY <3>5, <3>6
    <3> QED
      BY <3>7, <2>2
  <2> QED
    BY <2>3, <2>4
<1>3. PICK f : Upto(f, N)
  BY <1>1, <1>2
<1>4. f = [j \in 0..Len(order) |-> HeightStep(f, j)]
  BY <1>1, <1>3
<1> DEFINE h == CHOOSE f0 : f0 = [j \in 0..Len(order) |-> HeightStep(f0, j)]
<1>5. h = [j \in 0..Len(order) |-> HeightStep(h, j)]
  BY <1>4
<1>6. PipelineHeight = h[Len(order)]
  BY DEF PipelineHeight, HeightStep
<1> HIDE DEF h
<1>7. h[N] \in Nat
  <2> DEFINE Odd == {k \in 0..N : h[k] \notin Nat}
  <2>1. Odd = {}
    <3> SUFFICES ASSUME Odd # {} PROVE FALSE
      OBVIOUS
    <3>1. PICK k \in Odd : \A m \in Odd : k <= m
      <4>1. Odd \in SUBSET Nat
        OBVIOUS
      <4> HIDE DEF Odd
      <4> QED
        BY <4>1, LeastOf
    <3>2. h[k] = HeightStep(h, k) /\ k \in 0..N /\ h[k] \notin Nat
      BY <1>1, <1>5, <3>1
    <3>3. k # 0
      BY <3>2, ExecutionAssumption DEF HeightStep
    <3>4. k \in 1..N /\ k - 1 \in 0..N /\ ~(k <= k - 1)
      BY <3>2, <3>3, <1>1
    <3>5. h[k - 1] \in Nat
      BY <3>1, <3>4
    <3> QED
      BY <3>2, <3>4, <3>5, OutputHeightTyped DEF HeightStep
  <2> QED
    BY <2>1, <1>1
<1>8. N # 0 /\ IsView(nodes[N].op) => h[N] = nodes[N].op.height
  <2> SUFFICES ASSUME N # 0, IsView(nodes[N].op) PROVE h[N] = nodes[N].op.height
    OBVIOUS
  <2>1. N \in 1..N /\ N \in 0..Len(order)
    BY <1>1
  <2>2. h[N] = OutputHeight(graph[order[N]], h[N - 1])
    BY <1>5, <2>1 DEF HeightStep
  <2>3. nodes[N].op = graph[order[N]]
    BY <2>1 DEF Linked
  <2>4. nodes[N].op.op = "view"
    BY DEF IsView
  <2> QED
    BY <2>2, <2>3, <2>4 DEF OutputHeight
<1> QED
  BY <1>1, <1>6, <1>7, <1>8
-----------------------------------------------------------------------------
(* Regions and plans.                                                      *)

Regions == [y : Int, h : Nat]

Plans == [kind : {"rect"}, region : Regions]

LEMMA TwoExtremes ==
  ASSUME NEW a \in Int, NEW b \in Int
  PROVE  /\ Min({a, b}) = IF a <= b THEN a ELSE b
         /\ Max({a, b}) = IF a >= b THEN a ELSE b
<1>1. \E x \in {a, b} : \A y \in {a, b} : x <= y
  OBVIOUS
<1>2. \E x \in {a, b} : \A y \in {a, b} : x >= y
  OBVIOUS
<1>3. Min({a, b}) \in {a, b} /\ \A y \in {a, b} : Min({a, b}) <= y
  BY <1>1 DEF Min
<1>4. Max({a, b}) \in {a, b} /\ \A y \in {a, b} : Max({a, b}) >= y
  BY <1>2 DEF Max
<1> QED
  BY <1>3, <1>4

LEMMA RegionFacts ==
  /\ \A y \in Int, h \in Nat : Region(y, h) \in Regions /\ Region(y, h).y = y /\ Region(y, h).h = h
  /\ \A r \in Regions : r.y \in Int /\ r.h \in Nat /\ r = Region(r.y, r.h)
  /\ \A r \in Regions : RectPlan(r) \in Plans /\ RectPlan(r) # None
                        /\ RectPlan(r).kind = "rect" /\ RectPlan(r).region = r
  /\ \A p \in Plans : p # None /\ p.kind = "rect" /\ p.region \in Regions /\ p = RectPlan(p.region)
BY ExecutionAssumption DEF Region, Regions, RectPlan, Plans

LEMMA UnionFacts ==
  ASSUME NEW a \in Regions, NEW b \in Regions
  PROVE  /\ UnionRegion(a, b) \in Regions
         /\ Contains(UnionRegion(a, b), a)
         /\ Contains(UnionRegion(a, b), b)
<1> DEFINE left  == IF a.y <= b.y THEN a.y ELSE b.y
           right == IF a.y + a.h >= b.y + b.h THEN a.y + a.h ELSE b.y + b.h
<1>1. a.y \in Int /\ a.h \in Nat /\ b.y \in Int /\ b.h \in Nat
  BY RegionFacts
<1>2. Min({a.y, b.y}) = left /\ Max({a.y + a.h, b.y + b.h}) = right
  <2>1. a.y + a.h \in Int /\ b.y + b.h \in Int
    BY <1>1
  <2> QED
    BY <2>1, <1>1, TwoExtremes
<1>3. UnionRegion(a, b) = IF a.h = 0 THEN b ELSE IF b.h = 0 THEN a ELSE Region(left, right - left)
  BY <1>2 DEF UnionRegion
<1>4. left \in Int /\ right - left \in Nat
  BY <1>1
<1>5. Region(left, right - left) \in Regions /\ Region(left, right - left).y = left
      /\ Region(left, right - left).h = right - left
  BY <1>4, RegionFacts
<1>6. CASE a.h = 0
  BY <1>1, <1>3, <1>6 DEF Contains
<1>7. CASE a.h # 0 /\ b.h = 0
  BY <1>1, <1>3, <1>7 DEF Contains
<1>8. CASE a.h # 0 /\ b.h # 0
  <2>1. left <= a.y /\ left <= b.y /\ left + (right - left) >= a.y + a.h
        /\ left + (right - left) >= b.y + b.h
    BY <1>1
  <2> HIDE DEF left, right
  <2>2. UnionRegion(a, b) = Region(left, right - left)
    BY <1>3, <1>8
  <2> QED
    BY <2>1, <2>2, <1>5 DEF Contains
<1> QED
  BY <1>6, <1>7, <1>8

LEMMA MergedFacts ==
  ASSUME NEW p \in Plans, NEW q \in Plans
  PROVE  /\ Merged(p, q) \in Plans
         /\ Contains(Merged(p, q).region, p.region)
         /\ Contains(Merged(p, q).region, q.region)
<1>1. p.region \in Regions /\ q.region \in Regions /\ p.kind = "rect" /\ q.kind = "rect"
  BY RegionFacts
<1>2. BoundingRegion(p) = p.region /\ BoundingRegion(q) = q.region
  BY <1>1 DEF BoundingRegion
<1>3. CASE p = q
  <2>1. p.region.y \in Int /\ p.region.h \in Nat
    BY <1>1, RegionFacts
  <2> QED
    BY <2>1, <1>3 DEF Merged, Contains
<1>4. CASE p # q
  <2>1. Merged(p, q) = RectPlan(UnionRegion(p.region, q.region))
    BY <1>2, <1>4 DEF Merged
  <2>2. UnionRegion(p.region, q.region) \in Regions
    BY <1>1, UnionFacts
  <2>3. Merged(p, q) \in Plans /\ Merged(p, q).region = UnionRegion(p.region, q.region)
    BY <2>1, <2>2, RegionFacts
  <2> QED
    BY <2>3, <1>1, UnionFacts
<1> QED
  BY <1>3, <1>4

LEMMA ContainsFacts ==
  ASSUME NEW a \in Regions, NEW b \in Regions, NEW c \in Regions
  PROVE  /\ Contains(a, a)
         /\ Contains(a, b) /\ Contains(b, c) => Contains(a, c)
<1>1. a.y \in Int /\ a.h \in Nat /\ b.y \in Int /\ b.h \in Nat /\ c.y \in Int /\ c.h \in Nat
  BY RegionFacts
<1> QED
  BY <1>1 DEF Contains

LEMMA RequiredFacts ==
  ASSUME Undisturbed, NEW k \in 1..N, NEW r \in Regions
  PROVE  /\ RequiredRegion(nodes[k].op, r) \in Regions
         /\ SourceReadPlan(nodes[k].op, r) = RectPlan(RequiredRegion(nodes[k].op, r))
         /\ nodes[k].op.op \in {"point", "join"} => RequiredRegion(nodes[k].op, r) = r
         /\ nodes[k].op.op = "halo" => RequiredRegion(nodes[k].op, r) = Region(r.y - 1, r.h + 2)
         /\ nodes[k].op.op = "shrink" =>
              RequiredRegion(nodes[k].op, r) =
                Region(2 * r.y, IF r.h = 0 THEN 0 ELSE 2 * r.h - 1)
         /\ nodes[k].op.op = "view" =>
              RequiredRegion(nodes[k].op, r) = Region(r.y + nodes[k].op.off, r.h)
<1> DEFINE n == nodes[k].op
<1>1. r.y \in Int /\ r.h \in Nat
  BY RegionFacts
<1>2. n.op \in {"point", "join", "halo", "shrink", "view"} /\ (n.op = "view" => n.off \in Nat)
  BY DEF Undisturbed, IsView
<1> HIDE DEF n
<1>3. /\ n.op \in {"point", "join"} => RequiredRegion(n, r) = r
      /\ n.op = "halo" => RequiredRegion(n, r) = Region(r.y - 1, r.h + 2)
      /\ n.op = "shrink" => RequiredRegion(n, r) = Region(2 * r.y, IF r.h = 0 THEN 0 ELSE 2 * r.h - (2 - 1))
      /\ n.op = "view" => RequiredRegion(n, r) = Region(r.y + n.off, r.h)
  BY DEF RequiredRegion, Factor
<1>4. SourceReadPlan(n, r) = RectPlan(RequiredRegion(n, r))
  BY <1>2 DEF SourceReadPlan
<1>5. 2 * r.h - (2 - 1) = 2 * r.h - 1
  BY <1>1
<1>6. /\ Region(r.y - 1, r.h + 2) \in Regions
      /\ Region(2 * r.y, IF r.h = 0 THEN 0 ELSE 2 * r.h - 1) \in Regions
      /\ n.op = "view" => Region(r.y + n.off, r.h) \in Regions
  <2>1. r.y - 1 \in Int /\ r.h + 2 \in Nat /\ 2 * r.y \in Int
        /\ (IF r.h = 0 THEN 0 ELSE 2 * r.h - 1) \in Nat
        /\ (n.op = "view" => r.y + n.off \in Int)
    BY <1>1, <1>2
  <2> QED
    BY <2>1, <1>1, RegionFacts
<1>7. RequiredRegion(n, r) \in Regions
  BY <1>2, <1>3, <1>5, <1>6
<1> QED
  BY <1>3, <1>4, <1>5, <1>7 DEF n

Clipped(y, height) == IF y < 0 THEN 0 ELSE IF y > height THEN height ELSE y

\* The part of a region inside a view.
LEMMA ValidFacts ==
  ASSUME NEW view, view.height \in Nat, NEW r \in Regions
  PROVE  LET v == ValidOutput(view, r)
         IN /\ v \in Regions
            /\ 0 <= v.y /\ v.y + v.h <= view.height
            /\ Contains(r, v)
            /\ \A y \in Int : r.y <= y /\ y < r.y + r.h /\ 0 <= y /\ y < view.height
                                => v.y <= y /\ y < v.y + v.h
            /\ 0 <= r.y /\ r.y + r.h <= view.height => v = r
<1> DEFINE top == Clipped(r.y, view.height)
           end == Clipped(r.y + r.h, view.height)
           v   == ValidOutput(view, r)
<1>1. r.y \in Int /\ r.h \in Nat /\ r.y + r.h \in Int /\ view.height \in Int
  BY RegionFacts
<1>2. \A y \in Int : Max({0, Min({y, view.height})}) = Clipped(y, view.height)
  <2> SUFFICES ASSUME NEW y \in Int
               PROVE  Max({0, Min({y, view.height})}) = Clipped(y, view.height)
    OBVIOUS
  <2>1. Min({y, view.height}) = IF y <= view.height THEN y ELSE view.height
    BY <1>1, TwoExtremes
  <2>2. Min({y, view.height}) \in Int /\ 0 \in Int
    BY <2>1, <1>1
  <2>3. Max({0, Min({y, view.height})}) = IF 0 >= Min({y, view.height}) THEN 0 ELSE Min({y, view.height})
    BY <2>2, TwoExtremes
  <2> QED
    BY <2>1, <2>3, <1>1 DEF Clipped
<1>3. v = Region(top, end - top)
  BY <1>1, <1>2 DEF ValidOutput
<1>4. top \in Nat /\ end \in Nat /\ top <= end /\ end <= view.height
  BY <1>1 DEF Clipped
<1>5. v \in Regions /\ v.y = top /\ v.h = end - top /\ v.y + v.h = end
  <2>1. top \in Int /\ end - top \in Nat /\ top + (end - top) = end
    BY <1>4
  <2> HIDE DEF top, end, v
  <2> QED
    BY <2>1, <1>3, RegionFacts
<1>6. Contains(r, v)
  <2>1. end - top = 0 \/ (r.y <= top /\ r.y + r.h >= end)
    BY <1>1 DEF Clipped
  <2> HIDE DEF top, end, v
  <2> QED
    BY <2>1, <1>5 DEF Contains
<1>7. ASSUME NEW y \in Int, r.y <= y, y < r.y + r.h, 0 <= y, y < view.height
      PROVE  v.y <= y /\ y < v.y + v.h
  <2>1. top <= y /\ y < end
    BY <1>1, <1>7 DEF Clipped
  <2> HIDE DEF top, end, v
  <2> QED
    BY <2>1, <1>5
<1>8. 0 <= r.y /\ r.y + r.h <= view.height => v = r
  <2> SUFFICES ASSUME 0 <= r.y, r.y + r.h <= view.height PROVE v = r
    OBVIOUS
  <2>1. top = r.y /\ end - top = r.h
    BY <1>1 DEF Clipped
  <2> HIDE DEF top, end, v
  <2> QED
    BY <2>1, <1>3, RegionFacts
<1> HIDE DEF top, end
<1> QED
  BY <1>4, <1>5, <1>6, <1>7, <1>8
-----------------------------------------------------------------------------
(* What a node makes of the rows it is given, and what a tile asks for.    *)

\* What a node makes of the right rows of its inputs are the right rows.
LEMMA ProcessRight ==
  ASSUME BufferInv, Linked, Undisturbed, NEW k \in 1..N, IsTransform(k), NEW out \in Regions,
         NEW inputs,
         \A s \in DOMAIN nodes[k].in : \A i \in Rows(RequiredRegion(nodes[k].op, out)) :
           inputs[s][i] = Row(nodes[k].up[s], RequiredRegion(nodes[k].op, out).y + i - 1)
  PROVE  Process(k, inputs, out) = RowsOf(order[k], out)
<1> DEFINE n    == nodes[k].op
           want == RequiredRegion(n, out)
           u    == nodes[k].up
           a    == inputs[1]
<1>1. /\ n.op \in {"point", "join", "halo", "shrink"}
      /\ DOMAIN nodes[k].in = IF n.op = "join" THEN {1, 2} ELSE {1}
  BY DEF Undisturbed, IsTransform, IsView
<1>2. out.y \in Int /\ out.h \in Nat
  BY RegionFacts
<1>3. \A i \in Rows(want) : a[i] = Row(u[1], want.y + i - 1)
  <2>1. 1 \in DOMAIN nodes[k].in
    BY <1>1
  <2> QED
    BY <2>1
<1>4. RowsOf(order[k], out) = [i \in Rows(out) |-> Row(k, out.y + i - 1)]
  BY DEF RowsOf, Row, NodeAt
<1>5. \A i \in Rows(out) : i \in Int /\ i >= 1 /\ i <= out.h /\ out.y + i - 1 \in Int
  BY <1>2 DEF Rows
<1>6. CASE n.op = "point"
  <2>1. want = out
    BY <1>6, RequiredFacts
  <2>2. \A i \in Rows(out) : Row(k, out.y + i - 1) = <<order[k], a[i]>>
    BY <2>1, <1>3, <1>5, <1>6, RowFacts
  <2>3. Process(k, inputs, out) = [i \in Rows(out) |-> <<order[k], a[i]>>]
    BY <1>6 DEF Process
  <2> QED
    BY <2>2, <2>3, <1>4
<1>7. CASE n.op = "join"
  <2>1. want = out
    BY <1>7, RequiredFacts
  <2>2. \A i \in Rows(want) : inputs[2][i] = Row(u[2], want.y + i - 1)
    <3>1. 2 \in DOMAIN nodes[k].in
      BY <1>1, <1>7
    <3> QED
      BY <3>1
  <2>3. \A i \in Rows(out) : Row(k, out.y + i - 1) = <<order[k], a[i], inputs[2][i]>>
    BY <2>1, <2>2, <1>3, <1>5, <1>7, RowFacts
  <2>4. Process(k, inputs, out) = [i \in Rows(out) |-> <<order[k], a[i], inputs[2][i]>>]
    BY <1>7 DEF Process
  <2> QED
    BY <2>3, <2>4, <1>4
<1>8. CASE n.op = "halo"
  <2>1. want = Region(out.y - 1, out.h + 2)
    BY <1>8, RequiredFacts
  <2>2. want.y = out.y - 1 /\ want.h = out.h + 2
    BY <2>1 DEF Region
  <2>3. ASSUME NEW i \in Rows(out)
        PROVE  LET y == out.y + i - 1
               IN a[i] = Row(u[1], y - 1) /\ a[i + 1] = Row(u[1], y) /\ a[i + 2] = Row(u[1], y + 1)
    <3> DEFINE y == out.y + i - 1
    <3>1. i \in Rows(want) /\ i + 1 \in Rows(want) /\ i + 2 \in Rows(want)
      <4>1. i \in 1..(out.h + 2) /\ i + 1 \in 1..(out.h + 2) /\ i + 2 \in 1..(out.h + 2)
        BY <1>2, <1>5
      <4> QED
        BY <4>1, <2>2 DEF Rows
    <3>2. /\ (out.y - 1) + i - 1 = y - 1
          /\ (out.y - 1) + (i + 1) - 1 = y
          /\ (out.y - 1) + (i + 2) - 1 = y + 1
      BY <1>2, <1>5
    <3> HIDE DEF want, a, u, y
    <3>3. a[i + 1] = Row(u[1], want.y + (i + 1) - 1) /\ a[i + 2] = Row(u[1], want.y + (i + 2) - 1)
      BY <3>1, <1>3
    <3>4. a[i] = Row(u[1], want.y + i - 1)
      BY <3>1, <1>3
    <3> QED
      BY <3>2, <3>3, <3>4, <2>2 DEF y
  <2>4. ASSUME NEW i \in Rows(out)
        PROVE  Row(k, out.y + i - 1) = <<order[k], a[i], a[i + 1], a[i + 2]>>
    <3> DEFINE y == out.y + i - 1
    <3>1. \A d \in Int : Row(k, d) = <<order[k], Row(u[1], d - 1), Row(u[1], d), Row(u[1], d + 1)>>
      BY <1>8, RowFacts
    <3>2. y \in Int
      BY <1>5
    <3>3. a[i] = Row(u[1], y - 1) /\ a[i + 1] = Row(u[1], y) /\ a[i + 2] = Row(u[1], y + 1)
      BY <2>3
    <3> HIDE DEF y, a, u
    <3>4. Row(k, y) = <<order[k], a[i], a[i + 1], a[i + 2]>>
      BY <3>1, <3>2, <3>3
    <3> QED
      BY <3>4 DEF y
  <2>5. Process(k, inputs, out) = [i \in Rows(out) |-> <<order[k], a[i], a[i + 1], a[i + 2]>>]
    BY <1>8 DEF Process
  <2> QED
    BY <2>4, <2>5, <1>4
<1>9. CASE n.op = "shrink"
  <2>1. want = Region(2 * out.y, IF out.h = 0 THEN 0 ELSE 2 * out.h - 1)
    BY <1>9, RequiredFacts
  <2>2. want.y = 2 * out.y /\ want.h = IF out.h = 0 THEN 0 ELSE 2 * out.h - 1
    BY <2>1 DEF Region
  <2>3. ASSUME NEW i \in Rows(out)
        PROVE  a[2 * (i - 1) + 1] = Row(u[1], 2 * (out.y + i - 1))
    <3>1. 2 * (i - 1) + 1 \in Rows(want)
      <4>1. 2 * (i - 1) + 1 \in 1..(2 * out.h - 1) /\ out.h # 0
        BY <1>2, <1>5
      <4> QED
        BY <4>1, <2>2 DEF Rows
    <3>2. 2 * out.y + (2 * (i - 1) + 1) - 1 = 2 * (out.y + i - 1)
      BY <1>2, <1>5
    <3> HIDE DEF want, a, u
    <3>3. a[2 * (i - 1) + 1] = Row(u[1], want.y + (2 * (i - 1) + 1) - 1)
      BY <3>1, <1>3
    <3> QED
      BY <3>2, <3>3, <2>2
  <2>4. \A i \in Rows(out) : Row(k, out.y + i - 1) = a[2 * (i - 1) + 1]
    BY <2>3, <1>5, <1>9, RowFacts
  <2>5. Process(k, inputs, out) = [i \in Rows(out) |-> a[2 * (i - 1) + 1]]
    BY <1>9 DEF Process, Factor
  <2> QED
    BY <2>4, <2>5, <1>4
<1> QED
  BY <1>1, <1>6, <1>7, <1>8, <1>9
-----------------------------------------------------------------------------
\* The plan of what node j of the order is asked for, or the source.
Asked(j) == IF j = 0 THEN sourceNeed ELSE need[j]

\* What node k reads was asked for: a view asks for its part of what it shows, and
\* is itself asked for just what its one reader reads.
PlannedNode(k) ==
  LET n == nodes[k]
  IN IF IsView(n.op)
     THEN Asked(n.up[1]) = RectPlan(RequiredRegion(n.op, ValidOutput(n.op, need[k].region)))
     ELSE \A s \in DOMAIN n.in :
            /\ scratch[k][s] = RequiredRegion(n.op, need[k].region)
            /\ Asked(n.up[s]) # None
            /\ Contains(Asked(n.up[s]).region, scratch[k][s])
            /\ n.up[s] # 0 /\ IsView(nodes[n.up[s]].op) => Asked(n.up[s]).region = scratch[k][s]

\* The nodes after a are planned.
PlanInv(a) ==
  /\ need \in [1..N -> {None} \cup Plans]
  /\ sourceNeed \in {None} \cup Plans
  /\ need[N] = RectPlan(tile)
  /\ scratch = [k \in 1..N |-> scratch[k]]
  /\ \A k \in 1..N : DOMAIN scratch[k] = DOMAIN nodes[k].in
  /\ \A j \in 0..(N - 1) : Asked(j) # None =>
       \E m \in (a + 1)..N : \E s \in DOMAIN nodes[m].in : nodes[m].up[s] = j
  /\ \A k \in DOMAIN held : /\ k \in (a + 1)..N
                            /\ nodes[k].cached
                            /\ need[k] # None
                            /\ held[k] = RowsOf(order[k], need[k].region)
  /\ \A k \in (a + 1)..N : need[k] # None /\ k \notin DOMAIN held => PlannedNode(k)

SourceReady ==
  SourceNeeded =>
    /\ sourceRegion = sourceNeed.region
    /\ borrowed \/ \A j \in Rows(sourceRegion) : buffers[0][j] = SourceRow(sourceRegion.y + j - 1)

\* The transforms before at have left their rows where nobody after them wrote.
Ran(a) ==
  \A k \in 1..(a - 1) :
    /\ IsTransform(k) /\ need[k] # None /\ k \notin DOMAIN held
    /\ \A m \in (k + 1)..(a - 1) : IsTransform(m) => nodes[m].out # nodes[k].out
    => \A j \in Rows(need[k].region) :
         buffers[nodes[k].out][j] = Row(k, need[k].region.y + j - 1)

LEMMA AskedTyped ==
  ASSUME Linked, NEW a, PlanInv(a), NEW j \in 0..N, Asked(j) # None
  PROVE  Asked(j) \in Plans /\ Asked(j).region \in Regions
<1>1. Asked(j) \in {None} \cup Plans
  <2>1. CASE j = 0
    BY <2>1 DEF Asked, PlanInv
  <2>2. CASE j # 0
    <3>1. j \in 1..N
      BY <2>2 DEF Linked
    <3> QED
      BY <3>1, <2>2 DEF Asked, PlanInv
  <2> QED
    BY <2>1, <2>2
<1> QED
  BY <1>1, RegionFacts

\* The transform behind a view, or the source, is asked for the rows the view shows.
LEMMA ViewBase ==
  ASSUME BufferInv, Linked, Undisturbed, PlanInv(0),
         NEW u \in 1..N, IsView(nodes[u].op), need[u] # None
  PROVE  LET v == ValidOutput(nodes[u].op, need[u].region)
             p == nodes[u].prod[1]
         IN /\ Asked(p) \in Plans
            /\ Asked(p).region.h = v.h
            /\ \A y \in Int : v.y <= y /\ y < v.y + v.h =>
                 Row(u, y) = Row(p, Asked(p).region.y + y - v.y)
<1> DEFINE Shown(i) == ValidOutput(nodes[i].op, need[i].region)
           Right(i) == LET p == nodes[i].prod[1]
                       IN /\ Asked(p) \in Plans
                          /\ Asked(p).region.h = Shown(i).h
                          /\ \A y \in Int : Shown(i).y <= y /\ y < Shown(i).y + Shown(i).h =>
                               Row(i, y) = Row(p, Asked(p).region.y + y - Shown(i).y)
           Bad      == {i \in 1..N : IsView(nodes[i].op) /\ need[i] # None /\ ~Right(i)}
<1>1. N \in Nat
  BY DEF Linked
<1>2. Bad = {}
  <2> SUFFICES ASSUME Bad # {} PROVE FALSE
    OBVIOUS
  <2>1. PICK k \in Bad : \A m \in Bad : k <= m
    <3>1. Bad \in SUBSET Nat
      OBVIOUS
    <3> HIDE DEF Bad
    <3> QED
      BY <3>1, LeastOf, SMTT(30)
  <2>2. k \in 1..N /\ IsView(nodes[k].op) /\ need[k] # None /\ ~Right(k)
    BY <2>1
  <2> DEFINE n == nodes[k].op
             w == nodes[k].up[1]
             p == nodes[k].prod[1]
             v == Shown(k)
             R == Asked(w).region
  <2>3. /\ n.height \in Nat /\ n.off \in Nat /\ DOMAIN nodes[k].in = {1}
        /\ w # 0 /\ IsView(nodes[w].op) => n.off + n.height <= nodes[w].op.height
    BY <2>2, Zenon DEF Linked, Undisturbed
  <2>4. w \in 0..(k - 1) /\ w \in 0..N /\ p = BaseOf(w)
    BY <2>2, <2>3, SlotFacts, Zenon
  <2>5. need[k].region \in Regions
    BY <2>2, RegionFacts, Zenon DEF PlanInv
  <2>6. v \in Regions /\ 0 <= v.y /\ v.y + v.h <= n.height
    BY <2>3, <2>5, ValidFacts
  <2>7. v.y \in Int /\ v.h \in Nat
    BY <2>6, RegionFacts, SMTT(30)
  <2>8. RequiredRegion(n, v) = Region(v.y + n.off, v.h)
    <3>1. n.op = "view"
      BY <2>2 DEF IsView
    <3> QED
      BY <3>1 DEF RequiredRegion
  <2>9. Asked(w) = RectPlan(Region(v.y + n.off, v.h))
    <3>1. k \notin DOMAIN held
      BY <2>2, Zenon DEF PlanInv, Linked, IsTransform
    <3>2. k \in (0 + 1)..N
      BY <2>2, <1>1
    <3>3. PlannedNode(k)
      BY <3>1, <3>2, <2>2, Zenon DEF PlanInv
    <3> QED
      BY <3>3, <2>2, <2>8 DEF PlannedNode
  <2>10. Region(v.y + n.off, v.h) \in Regions
    BY <2>3, <2>7, RegionFacts
  <2>11. Asked(w) \in Plans /\ Asked(w) # None /\ R = Region(v.y + n.off, v.h)
         /\ R.y = v.y + n.off /\ R.h = v.h /\ R \in Regions
    BY <2>9, <2>10, RegionFacts, SMTT(30) DEF Region
  <2>12. ASSUME NEW y \in Int, v.y <= y, y < v.y + v.h
         PROVE  Row(k, y) = Row(w, y + n.off)
    <3>1. y \in 0..(n.height - 1)
      BY <2>3, <2>6, <2>7, <2>12
    <3> QED
      BY <3>1, <2>2, RowFacts, Zenon DEF IsView
  <2>13. CASE ~(w # 0 /\ IsView(nodes[w].op))
    <3>1. p = w
      BY <2>4, <2>13, SMTT(30) DEF BaseOf
    <3>2. ASSUME NEW y \in Int, v.y <= y, y < v.y + v.h
          PROVE  Row(k, y) = Row(p, Asked(p).region.y + y - v.y)
      <4>1. R.y + y - v.y = y + n.off
        BY <2>3, <2>7, <2>11
      <4> QED
        BY <4>1, <3>1, <3>2, <2>12, SMTT(30)
    <3> HIDE DEF n, w, v, R
    <3> QED
      BY <3>1, <3>2, <2>2, <2>11, Zenon DEF R, v
  <2>14. CASE w # 0 /\ IsView(nodes[w].op)
    <3>1. w \in 1..N /\ ~(k <= w) /\ need[w] = Asked(w) /\ p = nodes[w].prod[1]
      <4>1. need[w] = Asked(w) /\ p = nodes[w].prod[1]
        BY <2>4, <2>14, Zenon DEF Asked, BaseOf
      <4>2. w \in 0..(k - 1) /\ w # 0 /\ k \in 1..N
        BY <2>2, <2>4, <2>14, Zenon
      <4> HIDE DEF w
      <4>3. w \in 1..N /\ ~(k <= w)
        BY <4>2, <1>1
      <4> QED
        BY <4>1, <4>3
    <3>2. Right(w)
      <4>1. w \notin Bad
        BY <3>1, <2>1, Zenon
      <4> QED
        BY <4>1, <3>1, <2>11, <2>14, Zenon
    <3>3. nodes[w].op.height \in Nat
      BY <3>1, <2>14, Zenon DEF Undisturbed
    <3>4. Shown(w) = R
      <4>1. 0 <= R.y /\ R.y + R.h <= nodes[w].op.height
        <5> DEFINE h == nodes[w].op.height
        <5>1. n.off + n.height <= h /\ h \in Nat
          BY <2>3, <2>14, <3>3
        <5> HIDE DEF h, v, R, n, w
        <5>2. 0 <= R.y /\ R.y + R.h <= h
          BY <5>1, <2>3, <2>6, <2>7, <2>11
        <5> QED
          BY <5>2 DEF h
      <4>2. need[w].region = R
        BY <3>1
      <4> QED
        BY <4>1, <4>2, <3>3, <2>11, ValidFacts, Zenon
    <3>5. Asked(p) \in Plans /\ Asked(p).region.h = R.h
      BY <3>1, <3>2, <3>4, Zenon
    <3>6. ASSUME NEW y \in Int, v.y <= y, y < v.y + v.h
          PROVE  Row(k, y) = Row(p, Asked(p).region.y + y - v.y)
      <4>1. y + n.off \in Int /\ R.y <= y + n.off /\ y + n.off < R.y + R.h
        BY <2>3, <2>7, <2>11, <3>6
      <4>2. Row(w, y + n.off) = Row(p, Asked(p).region.y + (y + n.off) - R.y)
        BY <4>1, <3>1, <3>2, <3>4, Zenon
      <4>3. Asked(p).region.y + (y + n.off) - R.y = Asked(p).region.y + y - v.y
        <5>1. Asked(p).region.y \in Int
          BY <3>5, RegionFacts
        <5> QED
          BY <5>1, <2>3, <2>7, <2>11
      <4> QED
        BY <4>2, <4>3, <3>6, <2>12, SMTT(30)
    <3>7. Right(k)
      BY <3>5, <3>6, <2>11, Zenon
    <3> QED
      BY <3>7, <2>2, Zenon
  <2> QED
    BY <2>13, <2>14
<1>3. Right(u)
  BY <1>2
<1> QED
  BY <1>3
-----------------------------------------------------------------------------
LEMMA SourceRows ==
  ASSUME SourceReady, sourceNeed \in Plans, sourceNeed.region.h # 0,
         BufferInv, Linked, Undisturbed
  PROVE  /\ sourceRegion = sourceNeed.region
         /\ \A j \in Rows(sourceRegion) :
              (IF borrowed THEN ReadPlan(RectPlan(sourceRegion)) ELSE buffers[0])[j]
                = Row(0, sourceRegion.y + j - 1)
<1>1. SourceNeeded /\ sourceNeed.region \in Regions
  <2>1. sourceNeed # None /\ sourceNeed.region \in Regions
    BY RegionFacts
  <2>2. sourceNeed.region.h \in Nat
    BY <2>1, RegionFacts
  <2> QED
    BY <2>1, <2>2 DEF SourceNeeded
<1>2. sourceRegion = sourceNeed.region
  BY <1>1 DEF SourceReady
<1>3. sourceRegion.y \in Int /\ sourceRegion.h \in Nat /\ sourceRegion \in Regions
  BY <1>1, <1>2, RegionFacts
<1>4. ASSUME NEW j \in Rows(sourceRegion)
      PROVE  (IF borrowed THEN ReadPlan(RectPlan(sourceRegion)) ELSE buffers[0])[j]
               = Row(0, sourceRegion.y + j - 1)
  <2>1. sourceRegion.y + j - 1 \in Int
    BY <1>3 DEF Rows
  <2>2. Row(0, sourceRegion.y + j - 1) = SourceRow(sourceRegion.y + j - 1)
    BY <2>1, RowFacts
  <2>3. CASE borrowed
    <3>1. RectPlan(sourceRegion).kind = "rect" /\ RectPlan(sourceRegion).region = sourceRegion
      BY <1>3, RegionFacts
    <3>2. ReadPlan(RectPlan(sourceRegion)) =
            [i \in Rows(sourceRegion) |-> SourceRow(sourceRegion.y + i - 1)]
      BY <3>1 DEF ReadPlan
    <3> QED
      BY <3>2, <2>2, <2>3
  <2>4. CASE ~borrowed
    BY <2>2, <2>4, <1>1 DEF SourceReady
  <2> QED
    BY <2>3, <2>4
<1> QED
  BY <1>2, <1>4

\* What a slot is given of the transform behind it, or of the source, is right.
LEMMA BaseRows ==
  ASSUME BufferInv, Linked, Undisturbed, PlanInv(0), SourceReady,
         NEW k \in 1..N, Ran(k), IsTransform(k), NEW s \in DOMAIN nodes[k].in,
         Asked(nodes[k].prod[s]) \in Plans, Asked(nodes[k].prod[s]).region.h # 0
  PROVE  LET p == nodes[k].prod[s]
             R == Asked(p).region
         IN /\ p = 0 => sourceRegion = R
            /\ \A j \in Rows(R) : ProducerRows(k, s)[j] = Row(p, R.y + j - 1)
<1> DEFINE p == nodes[k].prod[s]
           R == Asked(p).region
<1>1. /\ p \in 0..(k - 1) /\ (p # 0 => IsTransform(p))
      /\ nodes[k].in[s] = IF p = 0 THEN 0 ELSE nodes[p].out
  BY SlotFacts
<1>2. CASE p = 0
  <2>1. R = sourceNeed.region /\ sourceNeed \in Plans /\ sourceNeed.region.h # 0
    BY <1>2 DEF Asked
  <2>2. ProducerRows(k, s) = IF borrowed THEN ReadPlan(RectPlan(sourceRegion)) ELSE buffers[0]
    BY <1>1, <1>2 DEF ProducerRows
  <2>3. sourceRegion = sourceNeed.region
    BY <2>1, SourceRows
  <2>4. \A j \in Rows(sourceRegion) :
          (IF borrowed THEN ReadPlan(RectPlan(sourceRegion)) ELSE buffers[0])[j]
            = Row(0, sourceRegion.y + j - 1)
    BY <2>1, SourceRows
  <2> QED
    BY <2>1, <2>2, <2>3, <2>4, <1>2
<1>3. CASE p # 0
  <2>1. p \in 1..(k - 1) /\ p \in 1..N /\ ~(p >= k)
    <3> HIDE DEF p
    <3> QED
      BY <1>1, <1>3 DEF Linked
  <2>2. need[p] = Asked(p) /\ need[p] # None
    BY <1>3, RegionFacts DEF Asked
  <2>3. nodes[p].out \in 1..maxBuf /\ nodes[k].in[s] = nodes[p].out
    BY <2>1, <1>1, <1>3 DEF Linked
  <2>4. nodes[k].in[s] # 0
    BY <2>3
  <2>5. CASE p \in DOMAIN held
    <3>1. ProducerRows(k, s) = held[p]
      BY <2>4, <2>5, <1>3 DEF ProducerRows
    <3>2. held[p] = RowsOf(order[p], R)
      BY <2>2, <2>5 DEF PlanInv
    <3>3. RowsOf(order[p], R) = [j \in Rows(R) |-> Row(p, R.y + j - 1)]
      BY <1>3 DEF RowsOf, Row, NodeAt
    <3> QED
      BY <3>1, <3>2, <3>3, <1>3
  <2>6. CASE p \notin DOMAIN held
    <3>1. ProducerRows(k, s) = buffers[nodes[p].out]
      BY <2>3, <2>4, <2>6, <1>3 DEF ProducerRows
    <3>2. \A m \in (p + 1)..k : IsTransform(m) => nodes[m].out # nodes[p].out
      BY <2>3, <1>3 DEF BufferInv, BuffersHandedOnAfterLastRead, N
    <3>3. \A m \in (p + 1)..(k - 1) : m \in (p + 1)..k
      <4> HIDE DEF p
      <4> QED
        BY <2>1 DEF Linked
    <3>4. \A m \in (p + 1)..(k - 1) : IsTransform(m) => nodes[m].out # nodes[p].out
      BY <3>2, <3>3
    <3>5. \A j \in Rows(need[p].region) : buffers[nodes[p].out][j] = Row(p, need[p].region.y + j - 1)
      BY <3>4, <2>1, <2>2, <2>6, <1>1, <1>3 DEF Ran
    <3> QED
      BY <3>1, <3>5, <2>2, <1>3
  <2> QED
    BY <2>5, <2>6
<1> QED
  BY <1>2, <1>3

\* So are the rows of the node a slot reads, a view or not.
LEMMA SlotRows ==
  ASSUME BufferInv, Linked, Undisturbed, PlanInv(0), SourceReady,
         NEW k \in 1..N, Ran(k), IsTransform(k), need[k] # None, k \notin DOMAIN held,
         NEW s \in DOMAIN nodes[k].in, scratch[k][s].h # 0
  PROVE  LET u    == nodes[k].up[s]
             have == ProducerRegion(k, s)
             want == scratch[k][s]
         IN /\ have \in Regions /\ want \in Regions
            /\ \A j \in Rows(have) : ProducerRows(k, s)[j] = Row(u, have.y + j - 1)
            /\ IF u # 0 /\ IsView(nodes[u].op)
               THEN have = ValidOutput(nodes[u].op, want)
               ELSE Contains(have, want)
<1> DEFINE u    == nodes[k].up[s]
           p    == nodes[k].prod[s]
           have == ProducerRegion(k, s)
           want == scratch[k][s]
           A    == Asked(u).region
<1>1. /\ need[k].region \in Regions /\ N \in Nat
      /\ k \in (0 + 1)..N
  <2>1. N \in Nat /\ need[k] \in {None} \cup Plans
    BY DEF Linked, PlanInv
  <2> QED
    BY <2>1, RegionFacts
<1>2. /\ want = RequiredRegion(nodes[k].op, need[k].region)
      /\ Asked(u) # None
      /\ Contains(A, want)
      /\ u # 0 /\ IsView(nodes[u].op) => A = want
  BY <1>1 DEF PlanInv, PlannedNode, IsTransform
<1>3. want \in Regions
  BY <1>1, <1>2, RequiredFacts
<1>4. u \in 0..(k - 1) /\ u \in 0..N /\ p = BaseOf(u)
  BY SlotFacts
<1>5. Asked(u) \in Plans /\ A \in Regions
  BY <1>2, <1>4, AskedTyped
<1>6. CASE ~(u # 0 /\ IsView(nodes[u].op))
  <2>1. p = u
    BY <1>4, <1>6 DEF BaseOf
  <2>2. A.h # 0
    <3>1. A.y \in Int /\ A.h \in Nat /\ want.y \in Int /\ want.h \in Nat
      BY <1>3, <1>5, RegionFacts
    <3> HIDE DEF A, want
    <3>2. want.h # 0
      BY DEF want
    <3> QED
      BY <3>1, <3>2, <1>2 DEF Contains
  <2>3. /\ u = 0 => sourceRegion = A
        /\ \A j \in Rows(A) : ProducerRows(k, s)[j] = Row(u, A.y + j - 1)
    BY <2>1, <2>2, <1>5, BaseRows
  <2>4. have = A
    BY <2>3, <1>6, SMTT(30) DEF ProducerRegion, Asked
  <2> HIDE DEF have, want, u, A
  <2> QED
    BY <2>3, <2>4, <1>2, <1>3, <1>5, <1>6 DEF have, want, u, A
<1>7. CASE u # 0 /\ IsView(nodes[u].op)
  <2>1. u \in 1..N /\ need[u] = Asked(u) /\ p = nodes[u].prod[1]
    BY <1>4, <1>7 DEF Asked, BaseOf
  <2>2. have = ValidOutput(nodes[u].op, want) /\ need[u].region = want
    BY <2>1, <1>2, <1>7 DEF ProducerRegion
  <2>3. have \in Regions
    <3>1. nodes[u].op.height \in Nat
      BY <2>1, <1>7 DEF Undisturbed
    <3> QED
      BY <3>1, <2>2, <1>3, ValidFacts
  <2> DEFINE R == Asked(p).region
  <2>4. /\ Asked(p) \in Plans
        /\ R.h = have.h
        /\ \A y \in Int : have.y <= y /\ y < have.y + have.h => Row(u, y) = Row(p, R.y + y - have.y)
    BY <2>1, <2>2, <1>2, <1>7, ViewBase
  <2>5. have.y \in Int /\ have.h \in Nat /\ R.y \in Int
    BY <2>3, <2>4, RegionFacts
  <2>6. ASSUME NEW j \in Rows(have)
        PROVE  ProducerRows(k, s)[j] = Row(u, have.y + j - 1)
    <3>1. j \in 1..have.h
      BY DEF Rows
    <3>2. have.h # 0 /\ j \in Int
      <4> HIDE DEF have
      <4> QED
        BY <3>1, <2>5
    <3>3. j \in Rows(R)
      BY <3>1, <2>4 DEF Rows
    <3>4. ProducerRows(k, s)[j] = Row(p, R.y + j - 1)
      BY <3>2, <3>3, <2>4, BaseRows
    <3> DEFINE y == have.y + j - 1
    <3>5. y \in Int /\ have.y <= y /\ y < have.y + have.h /\ R.y + y - have.y = R.y + j - 1
      <4> HIDE DEF have, R
      <4> QED
        BY <3>1, <2>5
    <3> HIDE DEF y, have, R, p, u
    <3>6. Row(u, y) = Row(p, R.y + y - have.y)
      BY <3>5, <2>4
    <3> QED
      BY <3>4, <3>5, <3>6 DEF y
  <2> HIDE DEF have, want, u
  <2> QED
    BY <2>2, <2>3, <2>6, <1>3, <1>7 DEF have, want, u
<1> QED
  BY <1>6, <1>7
-----------------------------------------------------------------------------
\* The rows a slot is given are those of the node it reads, for the region it reads.
LEMMA InputRight ==
  ASSUME BufferInv, Linked, Undisturbed, PlanInv(0), SourceReady,
         NEW k \in 1..N, Ran(k), IsTransform(k), need[k] # None, k \notin DOMAIN held,
         NEW s \in DOMAIN nodes[k].in, NEW i \in Rows(scratch[k][s]),
         scratch[k][s] \in Regions
  PROVE  InputRows(k, s)[i] = Row(nodes[k].up[s], scratch[k][s].y + i - 1)
<1> DEFINE u    == nodes[k].up[s]
           have == ProducerRegion(k, s)
           want == scratch[k][s]
           rows == ProducerRows(k, s)
           j    == i + want.y - have.y
<1>1. want.y \in Int /\ want.h \in Nat /\ i \in 1..want.h /\ want.h # 0
  <2>1. want.y \in Int /\ want.h \in Nat /\ i \in 1..want.h
    BY RegionFacts DEF Rows
  <2> HIDE DEF want
  <2>2. want.h # 0
    BY <2>1
  <2> QED
    BY <2>1, <2>2
<1>2. /\ have \in Regions
      /\ \A l \in Rows(have) : rows[l] = Row(u, have.y + l - 1)
      /\ IF u # 0 /\ IsView(nodes[u].op)
         THEN have = ValidOutput(nodes[u].op, want)
         ELSE Contains(have, want)
  BY <1>1, SlotRows
<1>3. have.y \in Int /\ have.h \in Nat
  BY <1>2, RegionFacts
<1>4. u \in 0..N
  BY SlotFacts
<1>5. /\ Contains(want, have) =>
           InputRows(k, s)[i] = IF j \in Rows(have) THEN rows[j] ELSE Zero
      /\ ~Contains(want, have) => InputRows(k, s)[i] = rows[j]
  BY DEF InputRows
<1>6. j \in Rows(have) => rows[j] = Row(u, want.y + i - 1)
  <2> SUFFICES ASSUME j \in Rows(have) PROVE rows[j] = Row(u, want.y + i - 1)
    OBVIOUS
  <2>1. rows[j] = Row(u, have.y + j - 1)
    BY <1>2
  <2>2. have.y + j - 1 = want.y + i - 1
    <3> HIDE DEF have, want
    <3> QED
      BY <1>1, <1>3
  <2> HIDE DEF j, have, want, u, rows
  <2> QED
    BY <2>1, <2>2
<1>7. CASE u # 0 /\ IsView(nodes[u].op)
  <2> DEFINE h == nodes[u].op.height
             y == want.y + i - 1
  <2>1. u \in 1..N
    BY <1>4, <1>7
  <2>2. h \in Nat
    BY <2>1, <1>7 DEF Undisturbed
  <2>3. /\ Contains(want, have)
        /\ \A d \in Int : want.y <= d /\ d < want.y + want.h /\ 0 <= d /\ d < h
                            => have.y <= d /\ d < have.y + have.h
    <3> DEFINE view == nodes[u].op
               v    == ValidOutput(view, want)
    <3>1. view.height \in Nat /\ want \in Regions
      BY <2>2
    <3> HIDE DEF view
    <3>2. /\ Contains(want, v)
          /\ \A d \in Int : want.y <= d /\ d < want.y + want.h /\ 0 <= d /\ d < view.height
                              => v.y <= d /\ d < v.y + v.h
      BY <3>1, ValidFacts
    <3>3. have = v
      BY <1>2, <1>7 DEF view
    <3> HIDE DEF v, have, want
    <3> QED
      BY <3>2, <3>3 DEF view
  <2>4. y \in Int /\ want.y <= y /\ y < want.y + want.h
    <3> HIDE DEF want
    <3> QED
      BY <1>1
  <2>5. j \notin Rows(have) => Row(u, y) = Zero
    <3> SUFFICES ASSUME j \notin Rows(have) PROVE Row(u, y) = Zero
      OBVIOUS
    <3>1. ~(have.y <= y /\ y < have.y + have.h)
      <4>1. j \notin 1..have.h
        BY DEF Rows
      <4> HIDE DEF have, want
      <4> QED
        BY <4>1, <1>1, <1>3
    <3>2. y \notin 0..(h - 1)
      <4> HIDE DEF h, y, have, want
      <4> QED
        BY <3>1, <2>2, <2>3, <2>4
    <3>3. nodes[u].op.op = "view"
      BY <1>7 DEF IsView
    <3>4. Row(u, y) = IF y \in 0..(h - 1) THEN Row(nodes[u].up[1], y + nodes[u].op.off) ELSE Zero
      BY <3>3, <2>1, <2>4, RowFacts
    <3> QED
      BY <3>2, <3>4
  <2> QED
    BY <2>3, <2>5, <1>5, <1>6
<1>8. CASE ~(u # 0 /\ IsView(nodes[u].op))
  <2>1. have.y <= want.y /\ have.y + have.h >= want.y + want.h
    BY <1>1, <1>2, <1>8 DEF Contains
  <2>2. j \in 1..have.h
    <3> HIDE DEF have, want
    <3> QED
      BY <2>1, <1>1, <1>3
  <2>3. j \in Rows(have)
    BY <2>2 DEF Rows
  <2> QED
    BY <2>3, <1>5, <1>6
<1> QED
  BY <1>7, <1>8

\* So a node makes the right rows.
LEMMA RunRight ==
  ASSUME BufferInv, Linked, Undisturbed, PlanInv(0), SourceReady,
         NEW k \in 1..N, Ran(k), IsTransform(k), need[k] # None, k \notin DOMAIN held
  PROVE  /\ need[k].region \in Regions
         /\ Process(k, [s \in DOMAIN nodes[k].in |-> InputRows(k, s)], need[k].region)
              = RowsOf(order[k], need[k].region)
<1> DEFINE out == need[k].region
           inputs == [s \in DOMAIN nodes[k].in |-> InputRows(k, s)]
<1>1. out \in Regions /\ k \in (0 + 1)..N
  <2>1. N \in Nat /\ need[k] \in {None} \cup Plans
    BY DEF Linked, PlanInv
  <2> QED
    BY <2>1, RegionFacts
<1>2. ASSUME NEW s \in DOMAIN nodes[k].in
      PROVE  scratch[k][s] = RequiredRegion(nodes[k].op, out) /\ scratch[k][s] \in Regions
  <2>1. scratch[k][s] = RequiredRegion(nodes[k].op, out)
    BY <1>1 DEF PlanInv, PlannedNode, IsTransform
  <2> QED
    BY <2>1, <1>1, RequiredFacts
<1>3. ASSUME NEW s \in DOMAIN nodes[k].in, NEW i \in Rows(RequiredRegion(nodes[k].op, out))
      PROVE  inputs[s][i] = Row(nodes[k].up[s], RequiredRegion(nodes[k].op, out).y + i - 1)
  <2>1. i \in Rows(scratch[k][s])
    BY <1>2, <1>3
  <2>2. InputRows(k, s)[i] = Row(nodes[k].up[s], scratch[k][s].y + i - 1)
    BY <2>1, <1>2, InputRight
  <2> QED
    BY <2>2, <1>2
<1> HIDE DEF inputs
<1>4. Process(k, inputs, out) = RowsOf(order[k], out)
  BY <1>1, <1>3, ProcessRight
<1> QED
  BY <1>1, <1>4 DEF inputs

\* And the output of the last is what the sink is handed.
LEMMA OutputRight ==
  ASSUME BufferInv, Linked, Undisturbed, PlanInv(0), SourceReady, N # 0, Ran(N + 1),
         tile \in Regions,
         IsView(nodes[N].op) => 0 <= tile.y /\ tile.y + tile.h <= nodes[N].op.height,
         NEW i \in Rows(tile)
  PROVE  OutputRows[i] = Row(N, tile.y + i - 1)
<1>1. N \in Nat /\ N \in 1..N /\ need[N] = RectPlan(tile) /\ need[N] # None /\ need[N].region = tile
      /\ (N + 1) - 1 = N
  <2>1. N \in Nat /\ need[N] = RectPlan(tile)
    BY DEF Linked, PlanInv
  <2> QED
    BY <2>1, RegionFacts
<1>2. CASE N \in DOMAIN held
  <2>1. OutputRows = RowsOf(order[N], tile)
    BY <1>1, <1>2 DEF OutputRows, PlanInv
  <2> QED
    BY <2>1, <1>1 DEF RowsOf, Row, NodeAt
<1>3. CASE N \notin DOMAIN held /\ ~IsView(nodes[N].op)
  <2>1. \A m \in (N + 1)..N : FALSE
    BY <1>1
  <2>2. \A j \in Rows(tile) : buffers[nodes[N].out][j] = Row(N, tile.y + j - 1)
    BY <2>1, <1>1, <1>3 DEF Ran, IsTransform
  <2> QED
    BY <2>2, <1>3 DEF OutputRows
<1>4. CASE N \notin DOMAIN held /\ IsView(nodes[N].op)
  <2> DEFINE p == nodes[N].up[1]
             n == nodes[N].op
             R == Asked(p).region
             y == tile.y + i - 1
  <2>1. /\ n.height \in Nat /\ n.off \in Nat /\ p # 0 /\ IsTransform(p) /\ ~nodes[p].cached
        /\ \A m \in (p + 1)..N : IsTransform(m) => nodes[m].out # nodes[p].out
        /\ 1 \in DOMAIN nodes[N].in /\ nodes[N].out = nodes[N].in[1]
    BY <1>1, <1>4 DEF Undisturbed, Linked
  <2>2. p \in 0..(N - 1) /\ p \in 0..N /\ nodes[N].prod[1] = p /\ nodes[N].in[1] = nodes[p].out
    <3>1. /\ p \in 0..(N - 1) /\ p \in 0..N /\ nodes[N].prod[1] = BaseOf(p)
          /\ nodes[N].in[1] = IF nodes[N].prod[1] = 0 THEN 0 ELSE nodes[nodes[N].prod[1]].out
      BY <1>1, <2>1, SlotFacts
    <3>2. BaseOf(p) = p
      BY <2>1 DEF BaseOf, IsTransform
    <3> QED
      BY <3>1, <3>2, <2>1
  <2>3. p \in 1..N
    <3> HIDE DEF p
    <3> QED
      BY <2>1, <2>2
  <2>4. OutputRows = buffers[nodes[p].out]
    BY <1>1, <1>4, <2>1, <2>2 DEF OutputRows
  <2>5. p \notin DOMAIN held
    BY <2>1 DEF PlanInv
  <2>6. ValidOutput(n, tile) = tile
    BY <2>1, <1>4, ValidFacts
  <2>7. R = Region(tile.y + n.off, tile.h) /\ Asked(p) = need[p] /\ need[p] # None
    <3>1. N \in (0 + 1)..N
      BY <1>1
    <3>2. PlannedNode(N)
      BY <3>1, <1>1, <1>4 DEF PlanInv
    <3>3. Asked(p) = RectPlan(RequiredRegion(n, tile))
      BY <3>2, <2>6, <1>1, <1>4 DEF PlannedNode
    <3>4. RequiredRegion(n, tile) = Region(tile.y + n.off, tile.h) /\ RequiredRegion(n, tile) \in Regions
      BY <1>1, <1>4, RequiredFacts DEF IsView
    <3> QED
      BY <3>3, <3>4, <2>1, RegionFacts DEF Asked
  <2>8. \A j \in Rows(need[p].region) : buffers[nodes[p].out][j] = Row(p, need[p].region.y + j - 1)
    BY <1>1, <2>1, <2>3, <2>5, <2>7 DEF Ran
  <2>9. tile.y \in Int /\ tile.h \in Nat /\ i \in 1..tile.h
    BY RegionFacts DEF Rows
  <2>10. i \in Rows(R) /\ R.y = tile.y + n.off
    BY <2>7, <2>9 DEF Rows, Region
  <2>11. OutputRows[i] = Row(p, R.y + i - 1)
    BY <2>4, <2>7, <2>8, <2>10
  <2>12. y \in Int /\ y \in 0..(n.height - 1) /\ R.y + i - 1 = y + n.off
    <3> HIDE DEF n, R
    <3>1. 0 <= tile.y /\ tile.y + tile.h <= n.height
      BY <1>4 DEF n
    <3> QED
      BY <3>1, <2>1, <2>9, <2>10
  <2>13. Row(N, y) = Row(p, y + n.off)
    <3>1. n.op = "view"
      BY <1>4 DEF IsView
    <3>2. Row(N, y) = IF y \in 0..(n.height - 1) THEN Row(p, y + n.off) ELSE Zero
      BY <3>1, <1>1, <2>12, RowFacts
    <3> QED
      BY <3>2, <2>12
  <2> HIDE DEF y, n, R, p
  <2> QED
    BY <2>11, <2>12, <2>13 DEF y
<1> QED
  BY <1>2, <1>3, <1>4
-----------------------------------------------------------------------------
(* Going back over the nodes: a node is planned once its readers are.      *)

LEMMA RowsKept ==
  ASSUME UNCHANGED <<graph, order, nodes>>
  PROVE  /\ N' = N
         /\ \A n, r : RowsOf(n, r)' = RowsOf(n, r)
         /\ \A j, y : Row(j, y)' = Row(j, y)
<1>1. RowOf' = RowOf
  BY DEF RowOf
<1>2. N' = N
  BY DEF N
<1> QED
  BY <1>1, <1>2 DEF RowsOf, Row, NodeAt

LEMMA ShapeKept ==
  ASSUME UNCHANGED <<graph, order, nodes, maxBuf>>
  PROVE  /\ Linked => Linked'
         /\ Undisturbed => Undisturbed'
<1>1. N' = N /\ GraphNodes' = GraphNodes
  BY DEF N, GraphNodes
<1>2. /\ \A j : NodeAt(j)' = NodeAt(j)
      /\ \A j : BaseOf(j)' = BaseOf(j)
      /\ \A j : IsTransform(j)' <=> IsTransform(j)
  BY DEF NodeAt, BaseOf, IsTransform
<1>3. \A n : CacheEnabled(n)' <=> CacheEnabled(n)
  BY DEF CacheEnabled, ReadsOf, ReadsBy, Reads
<1>4. Linked => Linked'
  <2> SUFFICES ASSUME Linked PROVE Linked'
    OBVIOUS
  <2>1. \A k \in 1..N : CacheEnabled(order[k])' <=> CacheEnabled(order[k])
    BY <1>3
  <2>2. \A k \in 1..N : \A s \in DOMAIN nodes[k].in :
          /\ NodeAt(nodes[k].up[s])' = NodeAt(nodes[k].up[s])
          /\ BaseOf(nodes[k].up[s])' = BaseOf(nodes[k].up[s])
          /\ IsTransform(nodes[k].prod[s])' <=> IsTransform(nodes[k].prod[s])
    BY DEF NodeAt, BaseOf, IsTransform
  <2>3. /\ N' \in Nat /\ N' = Len(order') /\ maxBuf' \in Nat
        /\ \A j, k \in 1..N' : order'[j] = order'[k] => j = k
        /\ \A n \in GraphNodes' : \E k \in 1..N' : order'[k] = n
    BY <1>1 DEF Linked
  <2>4. ASSUME NEW k \in 1..N
        PROVE  /\ order'[k] \in GraphNodes'
               /\ nodes'[k].op = graph'[order'[k]]
               /\ DOMAIN nodes'[k].in = DOMAIN nodes'[k].op.in
               /\ IsTransform(k)' => nodes'[k].out \in 1..maxBuf'
               /\ nodes'[k].cached => IsTransform(k)' /\ CacheEnabled(order[k])'
               /\ IsView(nodes'[k].op) => nodes'[k].out = nodes'[k].in[1] /\ DOMAIN nodes'[k].in = {1}
    BY <1>1, <1>2, <2>1 DEF Linked
  <2>5. ASSUME NEW k \in 1..N, NEW s \in DOMAIN nodes[k].in
        PROVE  /\ nodes'[k].up[s] \in 0..(k - 1)
               /\ nodes'[k].op.in[s] = NodeAt(nodes[k].up[s])'
               /\ nodes'[k].prod[s] = BaseOf(nodes[k].up[s])'
               /\ nodes'[k].prod[s] \in 0..(k - 1)
               /\ nodes'[k].prod[s] # 0 => IsTransform(nodes[k].prod[s])'
               /\ nodes'[k].in[s] = IF nodes'[k].prod[s] = 0 THEN 0 ELSE nodes'[nodes'[k].prod[s]].out
    BY <2>2 DEF Linked
  <2> QED
    BY <1>1, <2>3, <2>4, <2>5 DEF Linked
<1>5. Undisturbed => Undisturbed'
  BY <1>1 DEF Undisturbed, IsTransform
<1> QED
  BY <1>4, <1>5

\* What a demand says of node j of the order, or of the source.
AskIn(d, j) == IF j = 0 THEN d.source ELSE d.need[j]

IsDemand(d) ==
  /\ d = [need |-> d.need, source |-> d.source, sparse |-> d.sparse]
  /\ d.need \in [1..N -> {None} \cup Plans]
  /\ d.source \in {None} \cup Plans

LEMMA PropagateFacts ==
  ASSUME Linked, NEW d, IsDemand(d), NEW k \in 1..N, NEW s \in DOMAIN nodes[k].in, NEW plan \in Plans
  PROVE  LET e == Propagate(d, k, s, plan)
             u == nodes[k].up[s]
         IN /\ IsDemand(e)
            /\ \A j \in 0..N : j # u => AskIn(e, j) = AskIn(d, j)
            /\ AskIn(e, u) \in Plans
            /\ Contains(AskIn(e, u).region, plan.region)
            /\ AskIn(d, u) = None => AskIn(e, u) = plan
            /\ AskIn(d, u) # None => Contains(AskIn(e, u).region, AskIn(d, u).region)
<1> DEFINE e   == Propagate(d, k, s, plan)
           u   == nodes[k].up[s]
           old == AskIn(d, u)
           new == IF old = None THEN plan ELSE Merged(old, plan)
<1>1. u \in 0..N /\ (u = 0 => nodes[k].in[s] = 0)
  <2>1. u = 0 => nodes[k].prod[s] = 0
    BY SlotFacts DEF BaseOf
  <2> QED
    BY <2>1, SlotFacts
<1>2. N \in Nat
  BY DEF Linked
<1>3. old \in {None} \cup Plans
  <2>1. u # 0 => u \in 1..N
    BY <1>1, <1>2
  <2> QED
    BY <2>1 DEF AskIn, IsDemand
<1>4. /\ new \in Plans
      /\ Contains(new.region, plan.region)
      /\ old # None => Contains(new.region, old.region)
  <2>1. CASE old = None
    <3>1. plan.region \in Regions
      BY RegionFacts
    <3> QED
      BY <2>1, <3>1, ContainsFacts
  <2>2. CASE old # None
    <3>1. old \in Plans
      BY <1>3, <2>2
    <3> HIDE DEF old
    <3> QED
      BY <3>1, <2>2, MergedFacts
  <2> QED
    BY <2>1, <2>2
<1>5. e = IF u # 0 THEN [d EXCEPT !.need[u] = new]
          ELSE [d EXCEPT !.source = new, !.sparse = @ \/ (old # None /\ old # plan)]
  BY <1>1 DEF Propagate, AskIn
<1> HIDE DEF new, old
<1>6. CASE u # 0
  <2>1. u \in 1..N
    BY <1>1, <1>2, <1>6
  <2>2. /\ e = [need |-> e.need, source |-> e.source, sparse |-> e.sparse]
        /\ e.need = [d.need EXCEPT ![u] = new]
        /\ e.source = d.source
    BY <1>5, <1>6 DEF IsDemand
  <2>3. IsDemand(e) /\ e.need[u] = new /\ \A j \in 1..N : j # u => e.need[j] = d.need[j]
    BY <2>1, <2>2, <1>4 DEF IsDemand
  <2>4. AskIn(e, u) = new
    BY <2>3, <1>6 DEF AskIn
  <2>5. \A j \in 0..N : j # u => AskIn(e, j) = AskIn(d, j)
    <3>1. \A j \in 0..N : j # 0 => j \in 1..N
      BY <1>2
    <3> QED
      BY <3>1, <2>2, <2>3 DEF AskIn
  <2> QED
    BY <2>3, <2>4, <2>5, <1>4 DEF new, old
<1>7. CASE u = 0
  <2>1. /\ e = [need |-> e.need, source |-> e.source, sparse |-> e.sparse]
        /\ e.need = d.need
        /\ e.source = new
    BY <1>5, <1>7 DEF IsDemand
  <2>2. IsDemand(e)
    BY <2>1, <1>4 DEF IsDemand
  <2>3. AskIn(e, u) = new
    BY <2>1, <1>7 DEF AskIn
  <2>4. \A j \in 0..N : j # u => AskIn(e, j) = AskIn(d, j)
    BY <2>1, <1>7 DEF AskIn
  <2> QED
    BY <2>2, <2>3, <2>4, <1>4 DEF new, old
<1> QED
  BY <1>6, <1>7
-----------------------------------------------------------------------------
\* One node more is planned when what it reads was asked for, and only that changed.
LEMMA PlanExtended ==
  ASSUME Linked, Undisturbed, NEW a \in 1..N, PlanInv(a), need[a] # None,
         UNCHANGED <<graph, order, nodes, tile, held>>,
         need' \in [1..N -> {None} \cup Plans],
         sourceNeed' \in {None} \cup Plans,
         scratch' = [k \in 1..N |-> scratch'[k]],
         \A k \in 1..N : DOMAIN scratch'[k] = DOMAIN nodes[k].in,
         \A k \in 1..N : k # a => scratch'[k] = scratch[k],
         \A j \in 0..N : (\A s \in DOMAIN nodes[a].in : nodes[a].up[s] # j)
                            => Asked(j)' = Asked(j),
         \A j \in 0..N : Asked(j) # None =>
           Asked(j)' \in Plans /\ Contains(Asked(j)'.region, Asked(j).region),
         PlannedNode(a)'
  PROVE  PlanInv(a - 1)'
<1>1. N' = N /\ N \in Nat /\ a - 1 \in Nat /\ (a - 1) + 1 = a
  BY RowsKept DEF Linked
<1>2. \A k \in a..N : need'[k] = need[k]
  <2> SUFFICES ASSUME NEW k \in a..N PROVE need'[k] = need[k]
    OBVIOUS
  <2>1. k \in 1..N /\ k \in 0..N /\ k # 0
    BY <1>1
  <2>2. \A s \in DOMAIN nodes[a].in : nodes[a].up[s] # k
    <3> SUFFICES ASSUME NEW s \in DOMAIN nodes[a].in, nodes[a].up[s] = k PROVE FALSE
      OBVIOUS
    <3>1. k \in 0..(a - 1)
      BY SlotFacts
    <3> QED
      BY <3>1, <1>1
  <2> QED
    BY <2>1, <2>2 DEF Asked
<1>3. need'[N] = RectPlan(tile')
  BY <1>1, <1>2 DEF PlanInv
<1>4. ASSUME NEW j \in 0..(N - 1), Asked(j)' # None
      PROVE  \E m \in a..N : \E s \in DOMAIN nodes[m].in : nodes[m].up[s] = j
  <2>1. CASE \E s \in DOMAIN nodes[a].in : nodes[a].up[s] = j
    BY <2>1, <1>1
  <2>2. CASE \A s \in DOMAIN nodes[a].in : nodes[a].up[s] # j
    <3>1. j \in 0..N
      BY <1>1
    <3>2. Asked(j) # None
      BY <3>1, <2>2, <1>4
    <3>3. \E m \in (a + 1)..N : \E s \in DOMAIN nodes[m].in : nodes[m].up[s] = j
      BY <3>2 DEF PlanInv
    <3>4. \A m \in (a + 1)..N : m \in a..N
      BY <1>1
    <3> QED
      BY <3>3, <3>4
  <2> QED
    BY <2>1, <2>2
<1>5. ASSUME NEW k \in DOMAIN held
      PROVE  /\ k \in a..N
             /\ nodes[k].cached
             /\ need'[k] # None
             /\ held[k] = RowsOf(order[k], need'[k].region)
  <2>1. /\ k \in (a + 1)..N /\ nodes[k].cached /\ need[k] # None
        /\ held[k] = RowsOf(order[k], need[k].region)
    BY DEF PlanInv
  <2>2. k \in a..N
    BY <2>1, <1>1
  <2> QED
    BY <2>1, <2>2, <1>2
<1>6. ASSUME NEW k \in a..N, need[k] # None, k \notin DOMAIN held, k # a
      PROVE  PlannedNode(k)'
  <2>1. k \in (a + 1)..N /\ k \in 1..N
    BY <1>1, <1>6
  <2>2. PlannedNode(k) /\ need'[k] = need[k] /\ scratch'[k] = scratch[k]
    BY <2>1, <1>2, <1>6 DEF PlanInv
  <2>3. CASE IsView(nodes[k].op)
    <3> DEFINE w == nodes[k].up[1]
    <3>1. 1 \in DOMAIN nodes[k].in
      BY <2>1, <2>3 DEF Linked
    <3>2. w \in 0..N
      BY <2>1, <3>1, SlotFacts
    <3>3. \A s \in DOMAIN nodes[a].in : nodes[a].up[s] # w
      BY <2>1, <2>3, <1>6 DEF Undisturbed
    <3>4. Asked(w)' = Asked(w)
      BY <3>2, <3>3
    <3>5. Asked(w) = RectPlan(RequiredRegion(nodes[k].op, ValidOutput(nodes[k].op, need[k].region)))
      BY <2>2, <2>3 DEF PlannedNode
    <3>6. Asked(w)' = RectPlan(RequiredRegion(nodes'[k].op, ValidOutput(nodes'[k].op, need'[k].region)))
      BY <3>4, <3>5, <2>2
    <3>7. Asked(nodes[k].up[1])' = Asked(w)'
      OBVIOUS
    <3> QED
      BY <3>6, <2>3 DEF PlannedNode
  <2>4. CASE ~IsView(nodes[k].op)
    <3>1. ASSUME NEW s \in DOMAIN nodes[k].in
          PROVE  /\ scratch[k][s] = RequiredRegion(nodes[k].op, need[k].region)
                 /\ Asked(nodes[k].up[s])' # None
                 /\ Contains(Asked(nodes[k].up[s])'.region, scratch[k][s])
                 /\ nodes[k].up[s] # 0 /\ IsView(nodes[nodes[k].up[s]].op) =>
                      Asked(nodes[k].up[s])'.region = scratch[k][s]
      <4> DEFINE u == nodes[k].up[s]
      <4>1. /\ scratch[k][s] = RequiredRegion(nodes[k].op, need[k].region)
            /\ Asked(u) # None
            /\ Contains(Asked(u).region, scratch[k][s])
            /\ u # 0 /\ IsView(nodes[u].op) => Asked(u).region = scratch[k][s]
        BY <2>2, <2>4 DEF PlannedNode
      <4>2. u \in 0..N /\ (u # 0 => u \in 1..N)
        <5>1. u \in 0..N
          BY <2>1, SlotFacts
        <5> HIDE DEF u
        <5> QED
          BY <5>1, <1>1
      <4>3. Asked(u)' \in Plans /\ Contains(Asked(u)'.region, Asked(u).region)
        BY <4>1, <4>2
      <4>4. scratch[k][s] \in Regions /\ Asked(u).region \in Regions /\ Asked(u)'.region \in Regions
        <5>1. need[k].region \in Regions
          BY <2>1, <1>6, RegionFacts DEF PlanInv
        <5>2. scratch[k][s] \in Regions
          BY <5>1, <4>1, <2>1, RequiredFacts
        <5>3. Asked(u).region \in Regions
          BY <4>1, <4>2, AskedTyped
        <5> QED
          BY <5>2, <5>3, <4>3, RegionFacts
      <4>5. Contains(Asked(u)'.region, scratch[k][s])
        BY <4>1, <4>3, <4>4, ContainsFacts
      <4>6. ASSUME u # 0, IsView(nodes[u].op)
            PROVE  Asked(u)'.region = scratch[k][s]
        <5>1. \A t \in DOMAIN nodes[a].in : nodes[a].up[t] # u
          BY <4>2, <4>6, <2>1, <1>6 DEF Undisturbed
        <5>2. Asked(u)' = Asked(u)
          BY <5>1, <4>2
        <5> QED
          BY <5>2, <4>1, <4>6
      <4>7. Asked(u)' # None
        BY <4>3, RegionFacts
      <4> QED
        BY <4>1, <4>5, <4>6, <4>7
    <3>2. \A s \in DOMAIN nodes'[k].in :
            /\ scratch'[k][s] = RequiredRegion(nodes'[k].op, need'[k].region)
            /\ Asked(nodes[k].up[s])' # None
            /\ Contains(Asked(nodes[k].up[s])'.region, scratch'[k][s])
            /\ nodes'[k].up[s] # 0 /\ IsView(nodes'[nodes'[k].up[s]].op) =>
                 Asked(nodes[k].up[s])'.region = scratch'[k][s]
      BY <3>1, <2>2
    <3> QED
      BY <3>2, <2>4 DEF PlannedNode
  <2> QED
    BY <2>3, <2>4
<1>7. \A k \in a..N : need'[k] # None /\ k \notin DOMAIN held' => PlannedNode(k)'
  BY <1>2, <1>6
<1>8. \A k \in DOMAIN held' : /\ k \in a..N'
                              /\ nodes'[k].cached
                              /\ need'[k] # None
                              /\ held'[k] = RowsOf(order[k], need[k].region)'
  <2>1. ASSUME NEW k \in DOMAIN held
        PROVE  RowsOf(order[k], need[k].region)' = RowsOf(order[k], need'[k].region)
    BY RowsKept DEF RowsOf
  <2> QED
    BY <2>1, <1>1, <1>5
<1>9. \A j \in 0..(N' - 1) : Asked(j)' # None =>
        \E m \in a..N' : \E s \in DOMAIN nodes'[m].in : nodes'[m].up[s] = j
  BY <1>1, <1>4
<1>10. /\ need' \in [1..N' -> {None} \cup Plans]
       /\ sourceNeed' \in {None} \cup Plans
       /\ need'[N'] = RectPlan(tile')
       /\ scratch' = [k \in 1..N' |-> scratch'[k]]
       /\ \A k \in 1..N' : DOMAIN scratch'[k] = DOMAIN nodes'[k].in
  BY <1>1, <1>3
<1>11. /\ \A j \in 0..(N' - 1) : Asked(j)' # None =>
            \E m \in ((a - 1) + 1)..N' : \E s \in DOMAIN nodes'[m].in : nodes'[m].up[s] = j
       /\ \A k \in DOMAIN held' : /\ k \in ((a - 1) + 1)..N'
                                  /\ nodes'[k].cached
                                  /\ need'[k] # None
                                  /\ held'[k] = RowsOf(order[k], need[k].region)'
       /\ \A k \in ((a - 1) + 1)..N' :
            need'[k] # None /\ k \notin DOMAIN held' => PlannedNode(k)'
  BY <1>1, <1>7, <1>8, <1>9
<1> QED
  BY <1>10, <1>11 DEF PlanInv
-----------------------------------------------------------------------------
\* How many slots a compiled node has.
LEMMA SlotCount ==
  ASSUME BufferInv, Linked, Undisturbed, NEW k \in 1..N
  PROVE  /\ Len(nodes[k].in) = IF nodes[k].op.op = "join" THEN 2 ELSE 1
         /\ DOMAIN nodes[k].in = 1..Len(nodes[k].in)
<1>1. nodes \in Seq(NodeType) /\ N = Len(nodes)
  BY DEF BufferInv, CompileTypeOK, N
<1>2. nodes[k].in \in Slots
  <2>1. nodes[k] \in NodeType
    BY <1>1
  <2> QED
    BY <2>1 DEF NodeType
<1> DEFINE f == nodes[k].in
           c == IF nodes[k].op.op = "join" THEN 2 ELSE 1
<1>3. DOMAIN f = 1..c /\ c \in Nat
  <2>1. DOMAIN f = IF nodes[k].op.op = "join" THEN {1, 2} ELSE {1}
    BY DEF Undisturbed
  <2>2. 1..2 = {1, 2} /\ 1..1 = {1}
    OBVIOUS
  <2>3. c = 2 \/ c = 1
    OBVIOUS
  <2> QED
    BY <2>1, <2>2, <2>3
<1>4. f \in [1..c -> Nat]
  <2>1. PICK D \in SUBSET (1..2) : f \in [D -> Nat]
    BY <1>2 DEF Slots
  <2> HIDE DEF f, c
  <2> QED
    BY <2>1, <1>3
<1> HIDE DEF f, c
<1>5. f \in Seq(Nat) /\ Len(f) = c
  BY <1>3, <1>4
<1> QED
  BY <1>3, <1>5 DEF f, c

\* What is demanded before the node that asks.
DemandSoFar == [need |-> need, source |-> sourceNeed, sparse |-> sparseFallback]

LEMMA DemandOfIs ==
  ASSUME BufferInv, Linked, Undisturbed, NEW k \in 1..N
  PROVE  DemandOf(k) =
           IF nodes[k].op.op = "join"
           THEN Propagate(Propagate(DemandSoFar, k, 1, SlotDemand(k, 1)), k, 2, SlotDemand(k, 2))
           ELSE Propagate(DemandSoFar, k, 1, SlotDemand(k, 1))
<1> DEFINE L  == Len(nodes[k].in)
           D0 == DemandSoFar
           D1 == Propagate(D0, k, 1, SlotDemand(k, 1))
           D2 == Propagate(D1, k, 2, SlotDemand(k, 2))
           S(f) == [s \in 0..L |-> IF s = 0 THEN D0
                                   ELSE Propagate(f[s - 1], k, s, SlotDemand(k, s))]
           w  == [s \in 0..L |-> IF s = 0 THEN D0 ELSE IF s = 1 THEN D1 ELSE D2]
           d  == CHOOSE f : f = S(f)
<1>1. L = IF nodes[k].op.op = "join" THEN 2 ELSE 1
  BY SlotCount
<1>2. DemandOf(k) = d[L]
  BY DEF DemandOf, DemandSoFar
<1>3. L \in {1, 2}
  BY <1>1
<1> HIDE DEF L
<1>4. w = S(w)
  <2> SUFFICES ASSUME NEW s \in 0..L
               PROVE  w[s] = IF s = 0 THEN D0 ELSE Propagate(w[s - 1], k, s, SlotDemand(k, s))
    OBVIOUS
  <2>1. s \in {0, 1, 2} /\ (s = 2 => L = 2) /\ 0 \in 0..L /\ 1 \in 0..L
    BY <1>3
  <2>2. w[0] = D0 /\ w[1] = D1 /\ (L = 2 => w[2] = D2)
    <3>1. 2 # 0 /\ 2 # 1 /\ 1 # 0 /\ (L = 2 => 2 \in 0..L)
      BY <1>3
    <3> HIDE DEF D0, D1, D2
    <3> QED
      BY <3>1, <2>1
  <2> HIDE DEF w
  <2>3. CASE s = 0
    BY <2>2, <2>3
  <2>4. CASE s = 1
    <3>1. s - 1 = 0 /\ s # 0
      BY <2>4
    <3> HIDE DEF D0
    <3> QED
      BY <3>1, <2>2, <2>4
  <2>5. CASE s = 2
    <3>1. s - 1 = 1 /\ s # 0
      BY <2>5
    <3> HIDE DEF D1
    <3> QED
      BY <3>1, <2>1, <2>2, <2>5
  <2> QED
    BY <2>1, <2>3, <2>4, <2>5
<1>5. d = S(d)
  <2> HIDE DEF S, w
  <2> QED
    BY <1>4
<1> HIDE DEF d, w
<1>6. d[0] = D0 /\ d[1] = Propagate(d[0], k, 1, SlotDemand(k, 1))
      /\ (L = 2 => d[2] = Propagate(d[1], k, 2, SlotDemand(k, 2)))
  <2>1. 0 \in 0..L /\ 1 \in 0..L /\ (L = 2 => 2 \in 0..L)
    BY <1>3
  <2>2. \A s \in 0..L : d[s] = IF s = 0 THEN D0 ELSE Propagate(d[s - 1], k, s, SlotDemand(k, s))
    BY <1>5
  <2>3. d[1] = Propagate(d[1 - 1], k, 1, SlotDemand(k, 1))
    BY <2>1, <2>2
  <2>4. L = 2 => d[2] = Propagate(d[2 - 1], k, 2, SlotDemand(k, 2))
    BY <2>1, <2>2
  <2>5. 1 - 1 = 0 /\ 2 - 1 = 1
    OBVIOUS
  <2>6. d[0] = D0
    BY <2>1, <2>2
  <2> QED
    BY <2>3, <2>4, <2>5, <2>6
<1> HIDE DEF D0
<1>7. d[1] = D1
  BY <1>6
<1>8. L = 2 => d[2] = D2
  BY <1>6, <1>7
<1> QED
  BY <1>1, <1>2, <1>7, <1>8 DEF D0

\* A transform asks each of its inputs for the rows its operation wants.
LEMMA SlotDemandIs ==
  ASSUME BufferInv, Linked, Undisturbed, NEW k \in 1..N, need[k] \in Plans, NEW s
  PROVE  LET want == RequiredRegion(nodes[k].op, need[k].region)
         IN /\ want \in Regions
            /\ SlotPlan(k, s) = RectPlan(want)
            /\ SlotDemand(k, s) = RectPlan(want)
            /\ SlotPlan(k, s).region = want
<1> DEFINE want == RequiredRegion(nodes[k].op, need[k].region)
<1>1. need[k].region \in Regions /\ need[k] = RectPlan(need[k].region)
  BY RegionFacts
<1>2. want \in Regions /\ SourceReadPlan(nodes[k].op, need[k].region) = RectPlan(want)
  BY <1>1, RequiredFacts
<1>3. nodes[k].op.op = "point" => want = need[k].region
  BY <1>1, RequiredFacts
<1> HIDE DEF want
<1>4. SlotPlan(k, s) = RectPlan(want)
  BY <1>1, <1>2, <1>3 DEF SlotPlan, PixelLocal
<1>5. RectPlan(want).kind = "rect" /\ RectPlan(want).region = want
  BY <1>2, RegionFacts
<1>6. SlotDemand(k, s) = RectPlan(want)
  BY <1>4, <1>5 DEF SlotDemand
<1> QED
  BY <1>2, <1>4, <1>5, <1>6 DEF want

LEMMA DemandSoFarIs ==
  ASSUME NEW a, PlanInv(a)
  PROVE  IsDemand(DemandSoFar) /\ \A j \in 0..N : AskIn(DemandSoFar, j) = Asked(j)
BY DEF PlanInv, IsDemand, DemandSoFar, AskIn, Asked

\* What a node's demand e says after d: more rows of what the node reads, no more of others.
Widens(d, e, k) ==
  /\ IsDemand(e)
  /\ \A j \in 0..N : (\A s \in DOMAIN nodes[k].in : nodes[k].up[s] # j) => AskIn(e, j) = AskIn(d, j)
  /\ \A j \in 0..N : AskIn(d, j) # None =>
       AskIn(e, j) \in Plans /\ Contains(AskIn(e, j).region, AskIn(d, j).region)
-----------------------------------------------------------------------------
\* One slot's demand widens, and covers what it asks for.
LEMMA PropagateWidens ==
  ASSUME BufferInv, Linked, Undisturbed, NEW k \in 1..N, NEW s \in DOMAIN nodes[k].in,
         NEW d, IsDemand(d), NEW plan \in Plans
  PROVE  Widens(d, Propagate(d, k, s, plan), k)
<1> DEFINE e == Propagate(d, k, s, plan)
           u == nodes[k].up[s]
<1>1. /\ IsDemand(e)
      /\ \A j \in 0..N : j # u => AskIn(e, j) = AskIn(d, j)
      /\ AskIn(e, u) \in Plans
      /\ AskIn(d, u) # None => Contains(AskIn(e, u).region, AskIn(d, u).region)
  BY PropagateFacts
<1> HIDE DEF e
<1>2. ASSUME NEW j \in 0..N, AskIn(d, j) # None
      PROVE  AskIn(e, j) \in Plans /\ Contains(AskIn(e, j).region, AskIn(d, j).region)
  <2>1. CASE j = u
    BY <2>1, <1>1, <1>2
  <2>2. CASE j # u
    <3>1. AskIn(e, j) = AskIn(d, j)
      BY <2>2, <1>1
    <3>2. AskIn(d, j) \in Plans
      <4>1. j # 0 => j \in 1..N
        BY DEF Linked
      <4> QED
        BY <4>1, <1>2 DEF AskIn, IsDemand
    <3>3. AskIn(d, j).region \in Regions
      BY <3>2, RegionFacts
    <3> QED
      BY <3>1, <3>2, <3>3, ContainsFacts
  <2> QED
    BY <2>1, <2>2
<1>3. \A j \in 0..N : (\A t \in DOMAIN nodes[k].in : nodes[k].up[t] # j) => AskIn(e, j) = AskIn(d, j)
  BY <1>1
<1>4. Widens(d, e, k)
  BY <1>1, <1>2, <1>3 DEF Widens
<1> QED
  BY <1>4 DEF e

LEMMA WidensTwice ==
  ASSUME Linked, NEW k \in 1..N, NEW d, IsDemand(d), NEW e, NEW f, Widens(d, e, k), Widens(e, f, k)
  PROVE  Widens(d, f, k)
<1>1. ASSUME NEW j \in 0..N, AskIn(d, j) # None
      PROVE  AskIn(f, j) \in Plans /\ Contains(AskIn(f, j).region, AskIn(d, j).region)
  <2>1. AskIn(e, j) \in Plans /\ Contains(AskIn(e, j).region, AskIn(d, j).region)
    BY <1>1 DEF Widens
  <2>2. AskIn(e, j) # None
    BY <2>1, RegionFacts
  <2>3. AskIn(f, j) \in Plans /\ Contains(AskIn(f, j).region, AskIn(e, j).region)
    BY <2>2 DEF Widens
  <2>4. AskIn(d, j) \in Plans
    <3>1. j # 0 => j \in 1..N
      BY DEF Linked
    <3> QED
      BY <3>1, <1>1 DEF AskIn, IsDemand
  <2>5. AskIn(d, j).region \in Regions /\ AskIn(e, j).region \in Regions /\ AskIn(f, j).region \in Regions
    BY <2>1, <2>3, <2>4, RegionFacts
  <2> QED
    BY <2>1, <2>3, <2>5, ContainsFacts
<1>2. IsDemand(f)
  BY DEF Widens
<1>3. \A j \in 0..N : (\A t \in DOMAIN nodes[k].in : nodes[k].up[t] # j) => AskIn(f, j) = AskIn(d, j)
  BY DEF Widens
<1> QED
  BY <1>1, <1>2, <1>3 DEF Widens

\* What a transform demands: every input covers the rows it wants, and an input that
\* nobody had asked before and that it reads once is asked for exactly those.
LEMMA DemandRight ==
  ASSUME BufferInv, Linked, Undisturbed, NEW k \in 1..N, PlanInv(k), need[k] \in Plans, IsTransform(k)
  PROVE  LET d    == DemandOf(k)
             want == RequiredRegion(nodes[k].op, need[k].region)
         IN /\ Widens(DemandSoFar, d, k)
            /\ \A s \in DOMAIN nodes[k].in :
                 LET u == nodes[k].up[s]
                 IN /\ AskIn(d, u) \in Plans
                    /\ Contains(AskIn(d, u).region, want)
                    /\ Asked(u) = None /\ (\A t \in DOMAIN nodes[k].in : nodes[k].up[t] = u => t = s)
                         => AskIn(d, u) = RectPlan(want)
<1> DEFINE want == RequiredRegion(nodes[k].op, need[k].region)
           plan == RectPlan(want)
           D0   == DemandSoFar
           D1   == Propagate(D0, k, 1, plan)
           D2   == Propagate(D1, k, 2, plan)
           d    == DemandOf(k)
<1>1. want \in Regions /\ \A s : SlotDemand(k, s) = plan
  BY SlotDemandIs
<1>2. plan \in Plans /\ plan # None /\ plan.region = want
  BY <1>1, RegionFacts
<1>3. IsDemand(D0) /\ \A j \in 0..N : AskIn(D0, j) = Asked(j)
  BY DemandSoFarIs
<1>4. DOMAIN nodes[k].in = IF nodes[k].op.op = "join" THEN {1, 2} ELSE {1}
  BY DEF Undisturbed
<1>5. 1 \in DOMAIN nodes[k].in
  BY <1>4
<1>6. d = IF nodes[k].op.op = "join" THEN D2 ELSE D1
  BY <1>1, DemandOfIs
<1> HIDE DEF d, want, plan, D0
<1> DEFINE u1 == nodes[k].up[1]
           u2 == nodes[k].up[2]
<1>7. u1 \in 0..N
  BY <1>5, SlotFacts
<1>8. /\ IsDemand(D1)
      /\ \A j \in 0..N : j # u1 => AskIn(D1, j) = AskIn(D0, j)
      /\ AskIn(D1, u1) \in Plans
      /\ Contains(AskIn(D1, u1).region, plan.region)
      /\ AskIn(D0, u1) = None => AskIn(D1, u1) = plan
  BY <1>2, <1>3, <1>5, PropagateFacts
<1>9. Widens(D0, D1, k)
  BY <1>2, <1>3, <1>5, PropagateWidens
<1> HIDE DEF D1
<1>10. CASE nodes[k].op.op # "join"
  <2>1. d = D1 /\ DOMAIN nodes[k].in = {1}
    BY <1>4, <1>6, <1>10
  <2>2. ASSUME NEW s \in DOMAIN nodes[k].in
        PROVE  /\ AskIn(d, nodes[k].up[s]) \in Plans
               /\ Contains(AskIn(d, nodes[k].up[s]).region, want)
               /\ Asked(nodes[k].up[s]) = None => AskIn(d, nodes[k].up[s]) = plan
    <3>1. s = 1
      BY <2>1
    <3> QED
      BY <3>1, <2>1, <1>2, <1>3, <1>7, <1>8
  <2> QED
    BY <2>1, <2>2, <1>9 DEF d, D0, want, plan
<1>11. CASE nodes[k].op.op = "join"
  <2>1. d = D2 /\ DOMAIN nodes[k].in = {1, 2} /\ 2 \in DOMAIN nodes[k].in
    BY <1>4, <1>6, <1>11
  <2>2. u2 \in 0..N
    BY <2>1, SlotFacts
  <2>3. /\ IsDemand(D2)
        /\ \A j \in 0..N : j # u2 => AskIn(D2, j) = AskIn(D1, j)
        /\ AskIn(D2, u2) \in Plans
        /\ Contains(AskIn(D2, u2).region, plan.region)
        /\ AskIn(D1, u2) = None => AskIn(D2, u2) = plan
    BY <2>1, <1>2, <1>8, PropagateFacts
  <2>4. Widens(D1, D2, k)
    BY <2>1, <1>2, <1>8, PropagateWidens
  <2>5. Widens(D0, D2, k)
    BY <2>4, <1>3, <1>9, WidensTwice
  <2> HIDE DEF D2
  <2>6. AskIn(D2, u1) \in Plans /\ Contains(AskIn(D2, u1).region, want)
    <3>1. AskIn(D1, u1) # None
      BY <1>8, RegionFacts
    <3>2. AskIn(D2, u1) \in Plans /\ Contains(AskIn(D2, u1).region, AskIn(D1, u1).region)
      BY <3>1, <2>4, <1>7 DEF Widens
    <3>3. AskIn(D2, u1).region \in Regions /\ AskIn(D1, u1).region \in Regions
      BY <3>2, <1>8, RegionFacts
    <3> QED
      BY <3>2, <3>3, <1>1, <1>2, <1>8, ContainsFacts
  <2>7. ASSUME NEW s \in DOMAIN nodes[k].in
        PROVE  /\ AskIn(d, nodes[k].up[s]) \in Plans
               /\ Contains(AskIn(d, nodes[k].up[s]).region, want)
               /\ Asked(nodes[k].up[s]) = None
                  /\ (\A t \in DOMAIN nodes[k].in : nodes[k].up[t] = nodes[k].up[s] => t = s)
                    => AskIn(d, nodes[k].up[s]) = plan
    <3>1. CASE s = 1
      <4>1. AskIn(d, nodes[k].up[s]) \in Plans /\ Contains(AskIn(d, nodes[k].up[s]).region, want)
        BY <3>1, <2>1, <2>6
      <4>2. ASSUME Asked(u1) = None, \A t \in DOMAIN nodes[k].in : nodes[k].up[t] = u1 => t = 1
            PROVE  AskIn(d, u1) = plan
        <5>1. u2 # u1
          BY <4>2, <2>1
        <5>2. AskIn(D1, u1) = plan
          BY <4>2, <1>3, <1>7, <1>8
        <5> QED
          BY <5>1, <5>2, <2>1, <2>3, <1>7
      <4> QED
        BY <4>1, <4>2, <3>1
    <3>2. CASE s = 2
      <4>1. AskIn(d, nodes[k].up[s]) \in Plans /\ Contains(AskIn(d, nodes[k].up[s]).region, want)
        BY <3>2, <2>1, <2>3, <1>2
      <4>2. ASSUME Asked(u2) = None, \A t \in DOMAIN nodes[k].in : nodes[k].up[t] = u2 => t = 2
            PROVE  AskIn(d, u2) = plan
        <5>1. u2 # u1
          BY <4>2, <1>5
        <5>2. AskIn(D1, u2) = None
          BY <5>1, <4>2, <1>3, <1>8, <2>2
        <5> QED
          BY <5>2, <2>1, <2>3
      <4> QED
        BY <4>1, <4>2, <3>2
    <3> QED
      BY <3>1, <3>2, <2>1
  <2> QED
    BY <2>1, <2>5, <2>7 DEF d, D0, want, plan
<1> QED
  BY <1>10, <1>11
-----------------------------------------------------------------------------
LEMMA WithFacts ==
  ASSUME NEW f, NEW key, NEW value
  PROVE  /\ DOMAIN With(f, key, value) = {key} \cup DOMAIN f
         /\ With(f, key, value)[key] = value
         /\ \A x \in DOMAIN f : x # key => With(f, key, value)[x] = f[x]
BY DEF With, Over

LEMMA PlanInvKept ==
  ASSUME NEW b, PlanInv(b), UNCHANGED <<graph, order, nodes, need, sourceNeed, tile, scratch, held>>
  PROVE  PlanInv(b)'
<1>1. N' = N /\ \A n, r : RowsOf(n, r)' = RowsOf(n, r)
  BY RowsKept
<1>2. /\ need' \in [1..N' -> {None} \cup Plans]
      /\ sourceNeed' \in {None} \cup Plans
      /\ need'[N'] = RectPlan(tile')
      /\ scratch' = [k \in 1..N' |-> scratch'[k]]
      /\ \A k \in 1..N' : DOMAIN scratch'[k] = DOMAIN nodes'[k].in
      /\ \A j \in 0..(N' - 1) : Asked(j)' # None =>
           \E m \in (b + 1)..N' : \E s \in DOMAIN nodes'[m].in : nodes'[m].up[s] = j
  BY <1>1 DEF PlanInv, Asked
<1>3. \A k \in DOMAIN held' : /\ k \in (b + 1)..N'
                              /\ nodes'[k].cached
                              /\ need'[k] # None
                              /\ held'[k] = RowsOf(order[k], need[k].region)'
  <2>1. \A k : RowsOf(order[k], need[k].region)' = RowsOf(order[k], need[k].region)
    BY <1>1 DEF RowsOf
  <2> QED
    BY <2>1, <1>1 DEF PlanInv
<1>4. \A k \in (b + 1)..N' : need'[k] # None /\ k \notin DOMAIN held' => PlannedNode(k)'
  <2>1. \A k : PlannedNode(k)' <=> PlannedNode(k)
    BY DEF PlannedNode, Asked
  <2> QED
    BY <2>1, <1>1 DEF PlanInv
<1> QED
  BY <1>2, <1>3, <1>4 DEF PlanInv

\* A node that is not asked for anything asks for nothing.
LEMMA NotAsked ==
  ASSUME Linked, NEW a \in 1..N, PlanInv(a), need[a] = None
  PROVE  PlanInv(a - 1)
<1>1. N \in Nat /\ (a - 1) + 1 = a /\ \A k \in a..N : k # a => k \in (a + 1)..N
  BY DEF Linked
<1>2. \A k \in (a + 1)..N : k \in a..N
  BY <1>1
<1>3. \A k \in a..N : need[k] # None /\ k \notin DOMAIN held => PlannedNode(k)
  BY <1>1 DEF PlanInv
<1>4. \A k \in DOMAIN held : k \in a..N
  BY <1>2 DEF PlanInv
<1>5. \A j \in 0..(N - 1) : Asked(j) # None =>
        \E m \in a..N : \E s \in DOMAIN nodes[m].in : nodes[m].up[s] = j
  BY <1>2 DEF PlanInv
<1> QED
  BY <1>1, <1>3, <1>4, <1>5 DEF PlanInv

\* A node whose tile is in the cache is held, and asks for nothing.
LEMMA FoundInCache ==
  ASSUME Linked, NEW a \in 1..N, PlanInv(a), need[a] # None, nodes[a].cached,
         NEW rows, rows = RowsOf(order[a], need[a].region),
         UNCHANGED <<graph, order, nodes, need, sourceNeed, tile, scratch>>,
         held' = With(held, a, rows)
  PROVE  PlanInv(a - 1)'
<1>1. N' = N /\ N \in Nat /\ (a - 1) + 1 = a /\ \A k \in a..N : k # a => k \in (a + 1)..N
  BY RowsKept DEF Linked
<1>2. \A k \in (a + 1)..N : k \in a..N
  BY <1>1
<1>3. a \notin DOMAIN held
  <2>1. a \notin (a + 1)..N
    BY <1>1
  <2> QED
    BY <2>1 DEF PlanInv
<1>4. /\ DOMAIN held' = {a} \cup DOMAIN held
      /\ held'[a] = rows
      /\ \A k \in DOMAIN held : held'[k] = held[k]
  <2> DEFINE new == With(held, a, rows)
  <2>1. /\ DOMAIN new = {a} \cup DOMAIN held
        /\ new[a] = rows
        /\ \A k \in DOMAIN held : k # a => new[k] = held[k]
    BY DEF With, Over
  <2> HIDE DEF new
  <2>2. held' = new
    BY DEF new
  <2> QED
    BY <2>1, <2>2, <1>3
<1>5. \A k : RowsOf(order[k], need[k].region)' = RowsOf(order[k], need[k].region)
  <2>1. RowOf' = RowOf
    BY DEF RowOf
  <2> QED
    BY <2>1 DEF RowsOf
<1>6. \A k \in DOMAIN held' : /\ k \in ((a - 1) + 1)..N'
                              /\ nodes'[k].cached
                              /\ need'[k] # None
                              /\ held'[k] = RowsOf(order[k], need[k].region)'
  <2>1. a \in a..N
    BY <1>1
  <2>2. \A k \in DOMAIN held : /\ k \in a..N /\ nodes[k].cached /\ need[k] # None
                               /\ held[k] = RowsOf(order[k], need[k].region)
    BY <1>2 DEF PlanInv
  <2> QED
    BY <2>1, <2>2, <1>1, <1>4, <1>5
<1>7. \A k : PlannedNode(k)' <=> PlannedNode(k)
  BY DEF PlannedNode, Asked
<1>8. \A k \in ((a - 1) + 1)..N' : need'[k] # None /\ k \notin DOMAIN held' => PlannedNode(k)'
  BY <1>1, <1>4, <1>7 DEF PlanInv
<1>9. \A j \in 0..(N' - 1) : Asked(j)' # None =>
        \E m \in ((a - 1) + 1)..N' : \E s \in DOMAIN nodes'[m].in : nodes'[m].up[s] = j
  <2>1. \A j : Asked(j)' = Asked(j)
    BY DEF Asked
  <2> QED
    BY <2>1, <1>1, <1>2 DEF PlanInv
<1>10. /\ need' \in [1..N' -> {None} \cup Plans]
       /\ sourceNeed' \in {None} \cup Plans
       /\ need'[N'] = RectPlan(tile')
       /\ scratch' = [k \in 1..N' |-> scratch'[k]]
       /\ \A k \in 1..N' : DOMAIN scratch'[k] = DOMAIN nodes'[k].in
  BY <1>1 DEF PlanInv
<1> QED
  BY <1>6, <1>8, <1>9, <1>10 DEF PlanInv

\* Nobody has asked yet for what a view shows, or for a view, when its reader is planned.
LEMMA Unasked ==
  ASSUME Linked, Undisturbed, NEW a \in 1..N, PlanInv(a), NEW s \in DOMAIN nodes[a].in,
         NEW u, u = nodes[a].up[s], IsView(nodes[a].op) \/ (u # 0 /\ IsView(nodes[u].op))
  PROVE  Asked(u) = None /\ \A t \in DOMAIN nodes[a].in : nodes[a].up[t] = u => t = s
<1>1. N \in Nat /\ u \in 0..(a - 1) /\ u \in 0..(N - 1)
  <2>1. u \in 0..(a - 1) /\ N \in Nat
    BY SlotFacts DEF Linked
  <2> QED
    BY <2>1
<1>2. \A t \in DOMAIN nodes[a].in : nodes[a].up[t] = u => t = s
  <2>1. CASE IsView(nodes[a].op)
    <3>1. DOMAIN nodes[a].in = {1}
      BY <2>1 DEF Linked
    <3> QED
      BY <3>1
  <2>2. CASE u # 0 /\ IsView(nodes[u].op)
    <3>1. u \in 1..N
      BY <1>1, <2>2
    <3> QED
      BY <3>1, <2>2 DEF Undisturbed
  <2> QED
    BY <2>1, <2>2
<1>3. \A m \in 1..N : \A t \in DOMAIN nodes[m].in : nodes[m].up[t] = u => m = a
  <2>1. CASE IsView(nodes[a].op)
    <3>1. s = 1
      BY <2>1 DEF Linked
    <3> QED
      BY <3>1, <2>1 DEF Undisturbed
  <2>2. CASE u # 0 /\ IsView(nodes[u].op)
    <3>1. u \in 1..N
      BY <1>1, <2>2
    <3> QED
      BY <3>1, <2>2 DEF Undisturbed
  <2> QED
    BY <2>1, <2>2
<1>4. Asked(u) = None
  <2> SUFFICES ASSUME Asked(u) # None PROVE FALSE
    OBVIOUS
  <2>1. PICK m \in (a + 1)..N : \E t \in DOMAIN nodes[m].in : nodes[m].up[t] = u
    BY <1>1 DEF PlanInv
  <2>2. m \in 1..N /\ m # a
    BY <1>1
  <2> QED
    BY <2>1, <2>2, <1>3
<1> QED
  BY <1>2, <1>4

LEMMA ViewPlanned ==
  ASSUME BufferInv, Linked, Undisturbed, NEW a \in 1..N, PlanInv(a), need[a] # None,
         IsView(nodes[a].op), Demand(ViewDemand(a)),
         UNCHANGED <<graph, order, nodes, tile, held, scratch>>
  PROVE  PlanInv(a - 1)'
<1> DEFINE want == RequiredRegion(nodes[a].op, ValidOutput(nodes[a].op, need[a].region))
           d    == ViewDemand(a)
           w    == nodes[a].up[1]
<1>1. 1 \in DOMAIN nodes[a].in
  BY DEF Linked
<1>2. w \in 0..N /\ w \in 0..(a - 1) /\ N \in Nat
  BY <1>1, SlotFacts DEF Linked
<1>3. RectPlan(want) \in Plans
  <2>1. need[a].region \in Regions
    BY RegionFacts DEF PlanInv
  <2>2. ValidOutput(nodes[a].op, need[a].region) \in Regions
    BY <2>1, ValidFacts DEF Undisturbed
  <2>3. want \in Regions
    BY <2>2, RequiredFacts
  <2> HIDE DEF want
  <2> QED
    BY <2>3, RegionFacts
<1>4. IsDemand(DemandSoFar) /\ \A j \in 0..N : AskIn(DemandSoFar, j) = Asked(j)
  BY DemandSoFarIs
<1>5. d = Propagate(DemandSoFar, a, 1, RectPlan(want))
  BY DEF ViewDemand, DemandSoFar
<1> HIDE DEF d, want
<1>6. Widens(DemandSoFar, d, a)
  BY <1>1, <1>3, <1>4, <1>5, PropagateWidens
<1>7. Asked(w) = None
  BY <1>1, Unasked
<1>8. AskIn(d, w) = RectPlan(want)
  BY <1>1, <1>2, <1>3, <1>4, <1>5, <1>7, PropagateFacts
<1>9. need' = d.need /\ sourceNeed' = d.source
  BY DEF Demand, d
<1>10. \A j \in 0..N : Asked(j)' = AskIn(d, j)
  BY <1>9 DEF Asked, AskIn
<1>11. /\ need' \in [1..N -> {None} \cup Plans]
       /\ sourceNeed' \in {None} \cup Plans
  BY <1>6, <1>9 DEF Widens, IsDemand
<1>12. \A j \in 0..N : (\A s \in DOMAIN nodes[a].in : nodes[a].up[s] # j) => Asked(j)' = Asked(j)
  BY <1>4, <1>6, <1>10 DEF Widens
<1>13. \A j \in 0..N : Asked(j) # None =>
         Asked(j)' \in Plans /\ Contains(Asked(j)'.region, Asked(j).region)
  BY <1>4, <1>6, <1>10 DEF Widens
<1>14. need'[a] = need[a]
  <2>1. a \in 0..N /\ a # 0
    BY <1>2
  <2>2. \A s \in DOMAIN nodes[a].in : nodes[a].up[s] # a
    <3> SUFFICES ASSUME NEW s \in DOMAIN nodes[a].in, nodes[a].up[s] = a PROVE FALSE
      OBVIOUS
    <3>1. a \in 0..(a - 1)
      BY SlotFacts
    <3> QED
      BY <3>1, <1>2
  <2> QED
    BY <2>1, <2>2, <1>12 DEF Asked
<1>15. PlannedNode(a)'
  <2>1. Asked(w)' = RectPlan(want)
    BY <1>2, <1>8, <1>10
  <2>2. Asked(nodes[a].up[1])' = Asked(w)'
    OBVIOUS
  <2>3. Asked(nodes[a].up[1])' = RectPlan(RequiredRegion(nodes'[a].op, ValidOutput(nodes'[a].op, need'[a].region)))
    BY <2>1, <2>2, <1>14 DEF want
  <2> QED
    BY <2>3 DEF PlannedNode
<1>16. scratch' = [k \in 1..N |-> scratch'[k]] /\ \A k \in 1..N : DOMAIN scratch'[k] = DOMAIN nodes[k].in
  BY DEF PlanInv
<1>17. \A k \in 1..N : k # a => scratch'[k] = scratch[k]
  OBVIOUS
<1> QED
  BY <1>11, <1>12, <1>13, <1>15, <1>16, <1>17, PlanExtended

LEMMA TransformPlanned ==
  ASSUME BufferInv, Linked, Undisturbed, NEW a \in 1..N, PlanInv(a), need[a] # None,
         IsTransform(a), Demand(DemandOf(a)),
         scratch' = [scratch EXCEPT ![a] = [s \in DOMAIN nodes[a].in |-> SlotPlan(a, s).region]],
         UNCHANGED <<graph, order, nodes, tile, held>>
  PROVE  PlanInv(a - 1)'
<1> DEFINE want == RequiredRegion(nodes[a].op, need[a].region)
           d    == DemandOf(a)
<1>1. need[a] \in Plans
  BY DEF PlanInv
<1>2. want \in Regions /\ \A s : SlotPlan(a, s).region = want
  BY <1>1, SlotDemandIs
<1>3. /\ Widens(DemandSoFar, d, a)
      /\ \A s \in DOMAIN nodes[a].in :
           LET u == nodes[a].up[s]
           IN /\ AskIn(d, u) \in Plans
              /\ Contains(AskIn(d, u).region, want)
              /\ Asked(u) = None /\ (\A t \in DOMAIN nodes[a].in : nodes[a].up[t] = u => t = s)
                   => AskIn(d, u) = RectPlan(want)
  BY <1>1, DemandRight
<1>4. IsDemand(DemandSoFar) /\ \A j \in 0..N : AskIn(DemandSoFar, j) = Asked(j)
  BY DemandSoFarIs
<1>5. N \in Nat /\ \A s \in DOMAIN nodes[a].in : nodes[a].up[s] \in 0..N /\ nodes[a].up[s] \in 0..(a - 1)
  BY SlotFacts DEF Linked
<1> HIDE DEF d, want
<1>9. need' = d.need /\ sourceNeed' = d.source
  BY DEF Demand, d
<1>10. \A j \in 0..N : Asked(j)' = AskIn(d, j)
  BY <1>9 DEF Asked, AskIn
<1>11. /\ need' \in [1..N -> {None} \cup Plans]
       /\ sourceNeed' \in {None} \cup Plans
  BY <1>3, <1>9 DEF Widens, IsDemand
<1>12. \A j \in 0..N : (\A s \in DOMAIN nodes[a].in : nodes[a].up[s] # j) => Asked(j)' = Asked(j)
  BY <1>4, <1>3, <1>10 DEF Widens
<1>13. \A j \in 0..N : Asked(j) # None =>
         Asked(j)' \in Plans /\ Contains(Asked(j)'.region, Asked(j).region)
  BY <1>4, <1>3, <1>10 DEF Widens
<1>14. need'[a] = need[a]
  <2>1. a \in 0..N /\ a # 0
    BY <1>5
  <2>2. \A s \in DOMAIN nodes[a].in : nodes[a].up[s] # a
    <3>1. a \notin 0..(a - 1)
      BY <1>5
    <3> QED
      BY <3>1, <1>5
  <2> QED
    BY <2>1, <2>2, <1>12 DEF Asked
<1>16. /\ scratch' = [k \in 1..N |-> scratch'[k]]
       /\ scratch'[a] = [s \in DOMAIN nodes[a].in |-> SlotPlan(a, s).region]
       /\ \A k \in 1..N : k # a => scratch'[k] = scratch[k]
  <2>1. scratch = [k \in 1..N |-> scratch[k]]
    BY DEF PlanInv
  <2> HIDE DEF PlanInv
  <2> QED
    BY <2>1
<1>17. \A k \in 1..N : DOMAIN scratch'[k] = DOMAIN nodes[k].in
  BY <1>16 DEF PlanInv
<1>15. PlannedNode(a)'
  <2>1. ASSUME NEW s \in DOMAIN nodes[a].in
        PROVE  /\ scratch'[a][s] = want
               /\ Asked(nodes[a].up[s])' # None
               /\ Contains(Asked(nodes[a].up[s])'.region, scratch'[a][s])
               /\ nodes[a].up[s] # 0 /\ IsView(nodes[nodes[a].up[s]].op) =>
                    Asked(nodes[a].up[s])'.region = scratch'[a][s]
    <3> DEFINE u == nodes[a].up[s]
    <3>1. scratch'[a][s] = want
      BY <1>2, <1>16
    <3>2. Asked(u)' = AskIn(d, u)
      BY <1>5, <1>10
    <3>3. AskIn(d, u) # None
      BY <1>3, RegionFacts
    <3>4. ASSUME u # 0, IsView(nodes[u].op)
          PROVE  Asked(u)'.region = want
      <4>1. Asked(u) = None /\ \A t \in DOMAIN nodes[a].in : nodes[a].up[t] = u => t = s
        BY <3>4, Unasked
      <4>2. AskIn(d, u) = RectPlan(want)
        BY <4>1, <1>3
      <4> QED
        BY <4>2, <3>2, <1>2, RegionFacts
    <3>5. Contains(Asked(u)'.region, scratch'[a][s])
      BY <3>1, <3>2, <1>3
    <3> QED
      BY <3>1, <3>2, <3>3, <3>4, <3>5
  <2>2. \A s \in DOMAIN nodes'[a].in :
          /\ scratch'[a][s] = RequiredRegion(nodes'[a].op, need'[a].region)
          /\ Asked(nodes[a].up[s])' # None
          /\ Contains(Asked(nodes[a].up[s])'.region, scratch'[a][s])
          /\ nodes'[a].up[s] # 0 /\ IsView(nodes'[nodes'[a].up[s]].op) =>
               Asked(nodes[a].up[s])'.region = scratch'[a][s]
    BY <2>1, <1>14 DEF want
  <2>3. ~IsView(nodes'[a].op)
    BY DEF IsTransform
  <2> QED
    BY <2>2, <2>3 DEF PlannedNode
<1> QED
  BY <1>11, <1>12, <1>13, <1>15, <1>16, <1>17, PlanExtended

LEMMA NodePlanned ==
  ASSUME BufferInv, Linked, Undisturbed, CacheSound, NEW a \in 1..N, a = at, PlanInv(a), PlanNode
  PROVE  PlanInv(a - 1)'
<1>1. UNCHANGED <<graph, order, nodes, tile>>
  BY DEF PlanNode, compileVars
<1>2. CASE need[a] = None /\ UNCHANGED execVars
  <2>1. PlanInv(a - 1)
    BY <1>2, NotAsked
  <2>2. UNCHANGED <<need, sourceNeed, scratch, held>>
    BY <1>2 DEF execVars
  <2> QED
    BY <1>1, <2>1, <2>2, PlanInvKept
<1>3. CASE /\ need[a] # None /\ IsView(nodes[a].op)
           /\ Demand(ViewDemand(a))
           /\ UNCHANGED <<scratch, held>>
  BY <1>1, <1>3, ViewPlanned
<1>4. CASE /\ need[a] # None /\ nodes[a].cached
           /\ Key(a, need[a].region) \in DOMAIN cache
           /\ held' = With(held, a, cache[Key(a, need[a].region)])
           /\ UNCHANGED <<need, sourceNeed, scratch>>
  <2>1. cache[Key(a, need[a].region)] = RowsOf(order[a], need[a].region)
    <3>1. Key(a, need[a].region)[1] = a /\ Key(a, need[a].region)[2] = need[a].region
      BY DEF Key
    <3> QED
      BY <3>1, <1>4 DEF CacheSound
  <2> QED
    BY <2>1, <1>1, <1>4, FoundInCache
<1>5. CASE /\ need[a] # None /\ ~IsView(nodes[a].op)
           /\ scratch' = [scratch EXCEPT ![a] = [s \in DOMAIN nodes[a].in |-> SlotPlan(a, s).region]]
           /\ Demand(DemandOf(a))
           /\ UNCHANGED held
  BY <1>1, <1>5, TransformPlanned DEF IsTransform
<1> QED
  BY <1>2, <1>3, <1>4, <1>5 DEF PlanNode
-----------------------------------------------------------------------------
(* The steps of a tile.                                                    *)

\* A tile lies inside the image.
LEMMA TileFacts ==
  ASSUME NEW height \in Nat, NEW size \in Nat \ {0}, NEW r \in TilesOf(height, size)
  PROVE  r \in Regions /\ 0 <= r.y /\ r.y + r.h <= height
<1>1. height # 0 /\ size # 0
  BY DEF TilesOf
<1> DEFINE q == (height - 1) \div size
<1>2. PICK j \in 0..q : r = Region(j * size, Min({size, height - j * size}))
  BY <1>1 DEF TilesOf
<1>3. q \in Int /\ q * size <= height - 1
  <2>1. /\ q \in Int /\ (height - 1) % size \in Int
        /\ height - 1 = size * q + ((height - 1) % size) /\ 0 <= (height - 1) % size
    OBVIOUS
  <2> HIDE DEF q
  <2> QED
    BY <2>1
<1> HIDE DEF q
<1> DEFINE y == j * size
<1>4. y \in Int /\ 0 <= y /\ y <= q * size
  BY <1>3
<1> HIDE DEF y
<1>5. height - y \in Int /\ 0 <= height - y
  <2>1. q * size \in Int
    BY <1>3
  <2> DEFINE z == q * size
  <2> HIDE DEF z
  <2>2. z \in Int /\ z <= height - 1 /\ y <= z
    BY <2>1, <1>3, <1>4 DEF z
  <2> QED
    BY <2>2, <1>4
<1> DEFINE h == Min({size, height - y})
<1>6. h = IF size <= height - y THEN size ELSE height - y
  BY <1>5, TwoExtremes
<1> HIDE DEF h
<1>7. h \in Nat /\ y + h <= height
  BY <1>4, <1>5, <1>6
<1>8. r = Region(y, h)
  BY <1>2 DEF y, h
<1> QED
  BY <1>4, <1>7, <1>8, RegionFacts

\* Pixels are only in the buffers of a compiled pipeline, and a tile can only be held by
\* a node that is cached.
PoolInv ==
  /\ phase # "compiled" => buffers = <<>>
  /\ buffers = <<>> => /\ pc = "idle" /\ written = None
                       /\ DOMAIN cache = {} /\ DOMAIN held = {}
  /\ buffers # <<>> => DOMAIN buffers = 0..maxBuf
  /\ \A k \in DOMAIN held : nodes[k].cached

\* The tile lies inside the image when the pipeline ends in a view.
TileInv ==
  pc # "idle" =>
    /\ tile \in Regions
    /\ N # 0 /\ IsView(nodes[N].op) => 0 <= tile.y /\ tile.y + tile.h <= nodes[N].op.height

\* How far the tile is.
StepInv ==
  /\ pc = "bare" => N = 0
  /\ pc = "single" => SinglePath
  /\ pc \in {"plan", "source", "run"} => N # 0
  /\ pc = "plan" => at \in 0..N /\ PlanInv(at)
  /\ pc \in {"source", "run"} => PlanInv(0)
  /\ pc = "run" => at \in 1..(N + 1) /\ SourceReady /\ Ran(at)
  /\ pc = "write" => \A i \in Rows(tile) : OutputRows[i] = RowOf[LastNode][tile.y + i - 1]

RunInv == CacheSound /\ TilesCorrect /\ PoolInv /\ TileInv /\ StepInv

\* What a step that leaves the pipeline, the cache and the sink alone cannot disturb.
LEMMA ResultsKept ==
  ASSUME UNCHANGED <<graph, order>>
  PROVE  /\ CacheSound /\ cache' = cache => CacheSound'
         /\ TilesCorrect /\ written' = written => TilesCorrect'
         /\ written' = None => TilesCorrect'
         /\ LastNode' = LastNode /\ RowOf' = RowOf
<1>1. RowOf' = RowOf /\ LastNode' = LastNode
  BY DEF RowOf, LastNode
<1>2. \A n, r : RowsOf(n, r)' = RowsOf(n, r)
  BY <1>1 DEF RowsOf
<1>3. CacheSound /\ cache' = cache => CacheSound'
  BY <1>1 DEF CacheSound, RowsOf
<1>4. TilesCorrect /\ written' = written => TilesCorrect'
  BY <1>1 DEF TilesCorrect, RowsOf
<1> QED
  BY <1>1, <1>3, <1>4 DEF TilesCorrect

LEMMA TileKept ==
  ASSUME TileInv, pc # "idle", UNCHANGED <<nodes, tile>>
  PROVE  TileInv'
BY DEF TileInv, N

LEMMA PlanInvNext ==
  ASSUME NEW b, at' = b, PlanInv(b)'
  PROVE  PlanInv(at)'
BY DEF PlanInv

LEMMA RanNext ==
  ASSUME NEW b, at' = b, Ran(b)'
  PROVE  Ran(at)'
BY DEF Ran

LEMMA CompileRunInv ==
  ASSUME RunInv, Compile
  PROVE  RunInv'
<1>1. phase # "compiled"
  BY DEF Compile, CompileNext, Emit, FindOwner, CompileView, CompileTransform, SizeBuffers
<1>2. /\ buffers = <<>> /\ pc = "idle" /\ written = None
      /\ DOMAIN cache = {} /\ DOMAIN held = {}
  BY <1>1 DEF RunInv, PoolInv
<1>3. UNCHANGED <<buffers, pc, written, cache, held>>
  BY DEF Compile, execVars
<1> QED
  BY <1>2, <1>3 DEF RunInv, CacheSound, TilesCorrect, PoolInv, TileInv, StepInv

LEMMA NewPoolRunInv ==
  ASSUME RunInv, ShapeInv, BufferInv, NewPool
  PROVE  RunInv'
<1>1. /\ pc = "idle" /\ written = None /\ DOMAIN cache = {} /\ DOMAIN held = {}
      /\ UNCHANGED <<pc, written, cache, held, phase, maxBuf>> /\ phase = "compiled"
  BY DEF RunInv, PoolInv, NewPool, compileVars
<1>2. DOMAIN buffers' = 0..maxBuf /\ buffers' # <<>>
  <2>1. DOMAIN buffers' = 0..maxBuf
    <3>1. DOMAIN sizes = 0..maxBuf
      BY DEF ShapeInv
    <3> DEFINE Zeros(b) == [i \in 1..sizes[b] |-> Zero]
    <3>2. buffers' = [b \in DOMAIN sizes |-> Zeros(b)]
      BY DEF NewPool
    <3> HIDE DEF Zeros
    <3>3. DOMAIN buffers' = DOMAIN sizes
      BY <3>2
    <3> QED
      BY <3>1, <3>3, Zenon
  <2>2. 0 \in 0..maxBuf
    BY DEF BufferInv, CompileTypeOK
  <2>3. 0 \in DOMAIN buffers'
    BY <2>1, <2>2, Zenon
  <2>4. DOMAIN <<>> = {}
    OBVIOUS
  <2>5. buffers' # <<>>
    BY <2>3, <2>4, Zenon
  <2> QED
    BY <2>1, <2>5
<1> QED
  BY <1>1, <1>2 DEF RunInv, CacheSound, TilesCorrect, PoolInv, TileInv, StepInv

LEMMA EvictRunInv ==
  ASSUME RunInv, Evict
  PROVE  RunInv'
<1>1. UNCHANGED <<compileVars, pc, lends, tile, at, execVars, written>>
  BY DEF Evict
<1>2. PICK e \in DOMAIN cache : cache' = [f \in (DOMAIN cache) \ {e} |-> cache[f]]
  BY DEF Evict
<1>3. CacheSound'
  <2>1. RowOf' = RowOf
    BY <1>1 DEF RowOf, compileVars
  <2> QED
    BY <2>1, <1>1, <1>2 DEF RunInv, CacheSound, RowsOf, compileVars
<1>4. TilesCorrect'
  BY <1>1, ResultsKept DEF RunInv, compileVars
<1>5. PoolInv'
  BY <1>1, <1>2 DEF RunInv, PoolInv, compileVars, execVars
<1>6. TileInv'
  BY <1>1 DEF RunInv, TileInv, N, compileVars
<1>7. StepInv'
  <2>1. pc \in {"idle", "single", "plan"} /\ pc' = pc
    BY <1>1 DEF Evict
  <2>2. pc = "single" => SinglePath'
    BY <1>1 DEF RunInv, StepInv, SinglePath, N, compileVars
  <2>3. pc = "plan" => N' # 0 /\ at' \in 0..N'
    BY <1>1 DEF RunInv, StepInv, N, compileVars
  <2>4. ASSUME pc = "plan" PROVE PlanInv(at)'
    <3> SUFFICES ASSUME NEW b, b = at PROVE PlanInv(at)'
      OBVIOUS
    <3>1. PlanInv(b)
      BY <2>4 DEF RunInv, StepInv
    <3>2. PlanInv(b)'
      BY <3>1, <1>1, PlanInvKept DEF compileVars, execVars
    <3>3. at' = b
      BY <1>1
    <3> QED
      BY <3>2, <3>3, PlanInvNext
  <2> QED
    BY <2>1, <2>2, <2>3, <2>4 DEF StepInv
<1> QED
  BY <1>3, <1>4, <1>5, <1>6, <1>7 DEF RunInv

LEMMA BeginTileRunInv ==
  ASSUME RunInv, Linked, Undisturbed, BeginTile
  PROVE  RunInv'
<1>1. /\ UNCHANGED <<compileVars, cache, buffers>>
      /\ written' = None /\ at' = N /\ buffers # <<>>
  BY DEF BeginTile, execVars
<1>2. N' = N /\ N \in Nat
  BY <1>1 DEF N, compileVars, Linked
<1>3. CacheSound' /\ TilesCorrect'
  BY <1>1, ResultsKept DEF RunInv, compileVars
<1>4. held' = held \/ held' = <<>>
  BY DEF BeginTile, execVars, NothingHeld
<1>5. PoolInv'
  <2>1. DOMAIN held' \subseteq DOMAIN held
    BY <1>4
  <2> QED
    BY <2>1, <1>1 DEF RunInv, PoolInv, compileVars
<1>6. TileInv'
  <2>1. PICK h \in RunTileHeights : tile' \in TilesOf(PipelineHeight, h)
    BY DEF BeginTile
  <2>2. h \in Nat \ {0}
    BY ExecutionAssumption
  <2>3. PipelineHeight \in Nat /\ (N # 0 /\ IsView(nodes[N].op) => PipelineHeight = nodes[N].op.height)
    BY HeightFacts
  <2>4. tile' \in Regions /\ 0 <= tile'.y /\ tile'.y + tile'.h <= PipelineHeight
    BY <2>1, <2>2, <2>3, TileFacts
  <2>5. nodes' = nodes
    BY <1>1 DEF compileVars
  <2> QED
    BY <2>3, <2>4, <2>5, <1>2 DEF TileInv
<1>7. CASE N = 0 /\ pc' = "bare"
  BY <1>2, <1>3, <1>5, <1>6, <1>7 DEF RunInv, StepInv
<1>8. CASE SinglePath /\ pc' = "single"
  <2>1. SinglePath'
    BY <1>1, <1>2, <1>8 DEF SinglePath, compileVars
  <2> QED
    BY <2>1, <1>3, <1>5, <1>6, <1>8 DEF RunInv, StepInv
<1>9. CASE /\ N > 0 /\ pc' = "plan"
           /\ need' = [k \in 1..N |-> IF k = N THEN RectPlan(tile') ELSE None]
           /\ scratch' = [k \in 1..N |-> [s \in DOMAIN nodes[k].in |-> Region(0, 0)]]
           /\ sourceNeed' = None
           /\ held' = NothingHeld
  <2>1. tile' \in Regions
    BY <1>6, <1>9 DEF TileInv
  <2>2. RectPlan(tile') \in Plans
    BY <2>1, RegionFacts
  <2>3. need' \in [1..N -> {None} \cup Plans] /\ need'[N] = RectPlan(tile')
    BY <2>2, <1>2, <1>9
  <2>4. scratch' = [k \in 1..N |-> scratch'[k]] /\ \A k \in 1..N : DOMAIN scratch'[k] = DOMAIN nodes'[k].in
    BY <1>1, <1>9 DEF compileVars
  <2>5. \A j \in 0..(N - 1) : Asked(j)' = None
    <3>1. \A j \in 0..(N - 1) : j # N /\ (j # 0 => j \in 1..N)
      BY <1>2
    <3> QED
      BY <3>1, <1>9 DEF Asked
  <2>6. DOMAIN held' = {}
    BY <1>9 DEF NothingHeld
  <2>7. (N + 1)..N = {}
    BY <1>2
  <2>8. SUFFICES ASSUME NEW c, c = N PROVE RunInv'
    OBVIOUS
  <2>9. PlanInv(c)'
    <3>1. /\ need' \in [1..N' -> {None} \cup Plans]
          /\ sourceNeed' \in {None} \cup Plans
          /\ need'[N'] = RectPlan(tile')
          /\ scratch' = [k \in 1..N' |-> scratch'[k]]
          /\ \A k \in 1..N' : DOMAIN scratch'[k] = DOMAIN nodes'[k].in
      BY <2>3, <2>4, <1>2, <1>9
    <3>2. \A j \in 0..(N' - 1) : Asked(j)' # None =>
            \E m \in (c + 1)..N' : \E s \in DOMAIN nodes'[m].in : nodes'[m].up[s] = j
      BY <2>5, <1>2
    <3>3. /\ \A k \in DOMAIN held' : /\ k \in (c + 1)..N'
                                     /\ nodes'[k].cached
                                     /\ need'[k] # None
                                     /\ held'[k] = RowsOf(order[k], need[k].region)'
          /\ \A k \in (c + 1)..N' : need'[k] # None /\ k \notin DOMAIN held' => PlannedNode(k)'
      BY <2>6, <2>7, <2>8, <1>2
    <3> QED
      BY <3>1, <3>2, <3>3 DEF PlanInv
  <2>10. PlanInv(at)'
    BY <2>8, <2>9, <1>1, PlanInvNext
  <2>11. StepInv'
    BY <2>10, <1>1, <1>2, <1>9 DEF StepInv
  <2> QED
    BY <2>11, <1>3, <1>5, <1>6 DEF RunInv
<1> QED
  BY <1>7, <1>8, <1>9 DEF BeginTile
-----------------------------------------------------------------------------
LEMMA StoreFacts ==
  ASSUME NEW bufs, NEW b \in DOMAIN bufs, NEW rows
  PROVE  /\ DOMAIN Store(bufs, b, rows) = DOMAIN bufs
         /\ \A c \in DOMAIN bufs : c # b => Store(bufs, b, rows)[c] = bufs[c]
         /\ \A i \in DOMAIN rows : Store(bufs, b, rows)[b][i] = rows[i]
<1> DEFINE new == Over(rows, bufs[b])
<1>1. \A i \in DOMAIN rows : new[i] = rows[i]
  BY DEF Over
<1>2. Store(bufs, b, rows) = [bufs EXCEPT ![b] = new]
  BY DEF Store
<1> HIDE DEF new
<1> QED
  BY <1>1, <1>2

\* Rows of the source that are read for a rectangle.
LEMMA ReadFacts ==
  ASSUME NEW r \in Regions
  PROVE  LET plan == RectPlan(r)
         IN /\ DOMAIN ReadPlan(plan) = Rows(r)
            /\ \A i \in Rows(r) : ReadPlan(plan)[i] = SourceRow(r.y + i - 1)
<1>1. RectPlan(r).kind = "rect" /\ RectPlan(r).region = r
  BY RegionFacts
<1> QED
  BY <1>1 DEF ReadPlan

LEMMA ReadBareRunInv ==
  ASSUME RunInv, BufferInv, Linked, Undisturbed, ReadBare
  PROVE  RunInv'
<1>1. /\ UNCHANGED <<compileVars, lends, tile, at, cache, written, held>>
      /\ pc = "bare" /\ pc' = "write" /\ N = 0 /\ N' = 0
  BY DEF ReadBare, RunInv, StepInv, N, compileVars
<1>2. tile \in Regions /\ tile' = tile
  BY <1>1 DEF RunInv, TileInv
<1> DEFINE plan == RectPlan(tile)
<1>3. /\ DOMAIN ReadPlan(plan) = Rows(tile)
      /\ \A i \in Rows(tile) : ReadPlan(plan)[i] = SourceRow(tile.y + i - 1)
  BY <1>2, ReadFacts
<1>4. buffers # <<>> /\ DOMAIN buffers = 0..maxBuf /\ 0 \in DOMAIN buffers /\ maxBuf' = maxBuf
      /\ phase = "compiled" /\ phase' = phase
  BY <1>1 DEF RunInv, PoolInv, Linked, compileVars
<1>5. CacheSound' /\ TilesCorrect'
  BY <1>1, ResultsKept DEF RunInv, compileVars
<1>6. TileInv'
  BY <1>1, TileKept DEF RunInv, compileVars
<1>7. \/ buffers' = buffers
      \/ buffers' = Store(buffers, 0, ReadPlan(plan))
  BY DEF ReadBare, Fetch
<1>8. PoolInv'
  <2>1. DOMAIN buffers' = DOMAIN buffers
    BY <1>4, <1>7, StoreFacts
  <2>2. buffers' # <<>>
    BY <2>1, <1>4
  <2> QED
    BY <2>1, <2>2, <1>1, <1>4 DEF RunInv, PoolInv, compileVars
<1>9. \A i \in Rows(tile) : OutputRows'[i] = SourceRow(tile.y + i - 1)
  <2>1. CASE Borrowable(plan)
    <3>1. borrowed' = TRUE /\ sourceRegion' = tile
      BY <2>1 DEF ReadBare, Fetch
    <3>2. OutputRows' = ReadPlan(RectPlan(sourceRegion))'
      BY <3>1, <1>1 DEF OutputRows
    <3>3. ReadPlan(RectPlan(sourceRegion))' = ReadPlan(plan)
      BY <3>1 DEF ReadPlan, RectPlan
    <3> QED
      BY <3>2, <3>3, <1>3
  <2>2. CASE ~Borrowable(plan)
    <3>1. borrowed' = FALSE /\ buffers' = Store(buffers, 0, ReadPlan(plan))
      BY <2>2 DEF ReadBare, Fetch
    <3>2. OutputRows' = buffers'[0]
      BY <3>1, <1>1 DEF OutputRows
    <3> DEFINE rows == ReadPlan(plan)
    <3> HIDE DEF plan, rows
    <3>4. 0 \in DOMAIN buffers
      BY <1>4
    <3>3. \A i \in DOMAIN rows : Store(buffers, 0, rows)[0][i] = rows[i]
      BY <3>4, StoreFacts
    <3> USE DEF rows
    <3> QED
      BY <3>1, <3>2, <3>3, <1>3
  <2> QED
    BY <2>1, <2>2
<1>10. \A i \in Rows(tile) : SourceRow(tile.y + i - 1) = RowOf[LastNode][tile.y + i - 1]
  <2>1. LastNode = 0
    <3>1. order \in Seq(GraphNodes) /\ Len(order) = 0
      BY <1>1 DEF Linked, BufferInv, CompileTypeOK
    <3> QED
      BY <3>1 DEF LastNode
  <2>2. \A y \in Int : RowOf[LastNode][y] = SourceRow(y)
    BY <2>1, RowFacts DEF Row, NodeAt
  <2>3. \A i \in Rows(tile) : tile.y + i - 1 \in Int
    BY <1>2, RegionFacts DEF Rows
  <2> QED
    BY <2>2, <2>3
<1>11. StepInv'
  <2>1. LastNode' = LastNode /\ RowOf' = RowOf
    BY <1>1, ResultsKept DEF compileVars
  <2>2. \A i \in Rows(tile') : OutputRows'[i] = RowOf'[LastNode'][tile'.y + i - 1]
    BY <2>1, <1>2, <1>9, <1>10
  <2> QED
    BY <2>2, <1>1 DEF StepInv
<1> QED
  BY <1>5, <1>6, <1>8, <1>11 DEF RunInv

\* An entry that is added under the key of rows that are right is right.
LEMMA InsertedSound ==
  ASSUME CacheSound, NEW k, NEW r, NEW rows, rows = RowsOf(order[k], r),
         UNCHANGED <<graph, order>>, cache' = Inserted(k, r, rows)
  PROVE  CacheSound'
<1>1. RowOf' = RowOf
  BY DEF RowOf
<1>2. \A e \in DOMAIN cache' : cache'[e] = RowsOf(order[e[1]], e[2])
  <2>1. CASE Key(k, r) \in DOMAIN cache
    BY <2>1 DEF Inserted, CacheSound
  <2>2. CASE Key(k, r) \notin DOMAIN cache
    <3> DEFINE key == Key(k, r)
    <3>1. key[1] = k /\ key[2] = r
      BY DEF Key
    <3>2. cache' = With(cache, key, rows)
      BY <2>2 DEF Inserted
    <3>3. /\ DOMAIN cache' = {key} \cup DOMAIN cache
          /\ cache'[key] = rows
          /\ \A x \in DOMAIN cache : x # key => cache'[x] = cache[x]
      BY <3>2 DEF With, Over
    <3> HIDE DEF key
    <3> QED
      BY <3>1, <3>3 DEF CacheSound
  <2> QED
    BY <2>1, <2>2
<1> QED
  BY <1>1, <1>2 DEF CacheSound, RowsOf

LEMMA RunSingleRunInv ==
  ASSUME RunInv, BufferInv, Linked, Undisturbed, RunSingle
  PROVE  RunInv'
<1>1. /\ UNCHANGED <<compileVars, tile, written>>
      /\ pc = "single" /\ pc' = "write" /\ SinglePath /\ N = 1 /\ N' = 1
  BY DEF RunSingle, RunInv, StepInv, SinglePath, N, compileVars
<1>2. tile \in Regions /\ tile' = tile /\ nodes' = nodes /\ order' = order
  BY <1>1 DEF RunInv, TileInv, compileVars
<1>3. 1 \in 1..N /\ IsTransform(1)
  BY <1>1 DEF SinglePath, IsTransform
<1>4. nodes[1].up[1] = 0 /\ DOMAIN nodes[1].in = {1}
  <2>1. DOMAIN nodes[1].in = 1..1
    BY <1>1, <1>3, SlotCount DEF SinglePath
  <2>2. DOMAIN nodes[1].in = {1}
    BY <2>1
  <2>3. nodes[1].up[1] \in 0..(1 - 1)
    BY <2>2, <1>3, SlotFacts
  <2> QED
    BY <2>2, <2>3
<1>5. buffers # <<>> /\ DOMAIN buffers = 0..maxBuf /\ maxBuf \in Nat /\ maxBuf' = maxBuf
      /\ phase = "compiled" /\ phase' = phase
  BY <1>1 DEF RunInv, PoolInv, Linked, compileVars
<1> DEFINE want  == RequiredRegion(nodes[1].op, tile)
           plan  == SourceReadPlan(nodes[1].op, tile)
           rows  == Process(1, <<ReadPlan(plan)>>, tile)
           first == IF Borrowable(plan) THEN buffers ELSE Store(buffers, 0, ReadPlan(plan))
<1>6. rows = RowsOf(order[1], tile)
  <2>1. want \in Regions /\ plan = RectPlan(want)
    BY <1>2, <1>3, RequiredFacts
  <2>2. \A i \in Rows(want) : ReadPlan(plan)[i] = SourceRow(want.y + i - 1)
    BY <2>1, ReadFacts
  <2>3. \A i \in Rows(want) : want.y + i - 1 \in Int
    BY <2>1, RegionFacts DEF Rows
  <2> DEFINE inputs == <<ReadPlan(plan)>>
  <2>4. inputs[1] = ReadPlan(plan)
    OBVIOUS
  <2> HIDE DEF plan, want, inputs
  <2>5. \A i \in Rows(want) : inputs[1][i] = Row(0, want.y + i - 1)
    BY <2>2, <2>3, <2>4, RowFacts
  <2>6. \A s \in DOMAIN nodes[1].in : \A i \in Rows(want) :
          inputs[s][i] = Row(nodes[1].up[s], want.y + i - 1)
    BY <2>5, <1>4
  <2>7. Process(1, inputs, tile) = RowsOf(order[1], tile)
    BY <2>6, <1>2, <1>3, ProcessRight DEF want
  <2> QED
    BY <2>7 DEF inputs
<1>7. DOMAIN rows = Rows(tile) /\ \A i \in Rows(tile) : rows[i] = RowOf[order[1]][tile.y + i - 1]
  BY <1>6 DEF RowsOf
<1>8. DOMAIN first = 0..maxBuf /\ nodes[1].out \in 0..maxBuf
  <2>1. 0 \in DOMAIN buffers
    BY <1>5
  <2>2. DOMAIN first = DOMAIN buffers
    BY <2>1, StoreFacts
  <2>3. nodes[1].out \in 1..maxBuf
    BY <1>3 DEF Linked
  <2>4. nodes[1].out \in 0..maxBuf
    BY <2>3, <1>5
  <2> QED
    BY <2>2, <2>4, <1>5
<1> HIDE DEF rows, first
<1>9. LastNode = order[1] /\ LastNode' = LastNode /\ RowOf' = RowOf
  <2>1. order \in Seq(GraphNodes) /\ Len(order) = 1
    BY <1>1 DEF Linked, BufferInv, CompileTypeOK
  <2>2. LastNode = order[1]
    BY <2>1 DEF LastNode
  <2> QED
    BY <2>2, <1>1, ResultsKept DEF compileVars
<1>10. TileInv' /\ TilesCorrect'
  BY <1>1, TileKept, ResultsKept DEF RunInv, compileVars
<1>11. CASE /\ SingleHit
            /\ held' = With(held, 1, cache[Key(1, tile)])
            /\ UNCHANGED <<cache, buffers>>
  <2>1. cache[Key(1, tile)] = RowsOf(order[1], tile) /\ nodes[1].cached
    <3>1. Key(1, tile)[1] = 1 /\ Key(1, tile)[2] = tile
      BY DEF Key
    <3> QED
      BY <3>1, <1>11 DEF SingleHit, RunInv, CacheSound
  <2>2. DOMAIN held' = {1} \cup DOMAIN held /\ held'[1] = cache[Key(1, tile)]
    BY <1>11 DEF With, Over
  <2>3. OutputRows' = held'[1]
    BY <2>2, <1>1 DEF OutputRows
  <2>4. \A i \in Rows(tile) : OutputRows'[i] = RowOf[order[1]][tile.y + i - 1]
    BY <2>1, <2>2, <2>3 DEF RowsOf
  <2>5. StepInv'
    BY <2>4, <1>1, <1>2, <1>9 DEF StepInv
  <2>6. PoolInv'
    BY <2>1, <2>2, <1>1, <1>2, <1>5, <1>11 DEF RunInv, PoolInv
  <2>7. CacheSound'
    BY <1>1, <1>11, ResultsKept DEF RunInv, compileVars
  <2> QED
    BY <2>5, <2>6, <2>7, <1>10 DEF RunInv
<1>12. CASE /\ nodes[1].cached
            /\ cache' = Inserted(1, tile, rows)
            /\ held' = With(held, 1, rows)
            /\ buffers' = first
  <2>2. DOMAIN held' = {1} \cup DOMAIN held /\ held'[1] = rows
    BY <1>12 DEF With, Over
  <2>3. OutputRows' = held'[1]
    BY <2>2, <1>1 DEF OutputRows
  <2>4. \A i \in Rows(tile) : OutputRows'[i] = RowOf[order[1]][tile.y + i - 1]
    BY <2>2, <2>3, <1>7
  <2>5. StepInv'
    BY <2>4, <1>1, <1>2, <1>9 DEF StepInv
  <2>6. PoolInv'
    <3>1. buffers' # <<>>
      BY <1>5, <1>8, <1>12
    <3> QED
      BY <3>1, <2>2, <1>1, <1>2, <1>5, <1>8, <1>12 DEF RunInv, PoolInv
  <2>7. CacheSound'
    BY <1>1, <1>6, <1>12, InsertedSound DEF RunInv, compileVars
  <2> QED
    BY <2>5, <2>6, <2>7, <1>10 DEF RunInv
<1>13. CASE /\ ~nodes[1].cached
            /\ buffers' = Store(first, nodes[1].out, rows)
            /\ UNCHANGED <<cache, held>>
  <2>1. /\ DOMAIN buffers' = 0..maxBuf
        /\ \A i \in Rows(tile) : buffers'[nodes[1].out][i] = rows[i]
    <3> DEFINE b == nodes[1].out
    <3>1. b \in DOMAIN first
      BY <1>8
    <3> HIDE DEF b
    <3>2. /\ DOMAIN Store(first, b, rows) = DOMAIN first
          /\ \A i \in DOMAIN rows : Store(first, b, rows)[b][i] = rows[i]
      BY <3>1, StoreFacts
    <3>3. buffers' = Store(first, b, rows)
      BY <1>13 DEF b
    <3>4. DOMAIN buffers' = 0..maxBuf /\ \A i \in Rows(tile) : buffers'[b][i] = rows[i]
      BY <3>2, <3>3, <1>7, <1>8
    <3> QED
      BY <3>4 DEF b
  <2>2. OutputRows' = buffers'[nodes[1].out]
    <3>1. 1 \notin DOMAIN held
      BY <1>13 DEF RunInv, PoolInv
    <3> QED
      BY <3>1, <1>1, <1>2, <1>13 DEF OutputRows
  <2>4. \A i \in Rows(tile) : OutputRows'[i] = RowOf[order[1]][tile.y + i - 1]
    BY <2>1, <2>2, <1>7
  <2>5. StepInv'
    BY <2>4, <1>1, <1>2, <1>9 DEF StepInv
  <2>6. PoolInv'
    <3>1. 0 \in DOMAIN buffers'
      BY <2>1, <1>5
    <3>2. buffers' # <<>>
      BY <3>1
    <3> QED
      BY <3>2, <2>1, <1>1, <1>2, <1>5, <1>13 DEF RunInv, PoolInv
  <2>7. CacheSound'
    BY <1>1, <1>13, ResultsKept DEF RunInv, compileVars
  <2> QED
    BY <2>5, <2>6, <2>7, <1>10 DEF RunInv
<1> QED
  BY <1>11, <1>12, <1>13 DEF RunSingle, Produce, rows, first, plan
-----------------------------------------------------------------------------
LEMMA PlanNodeRunInv ==
  ASSUME RunInv, BufferInv, Linked, Undisturbed, PlanNode
  PROVE  RunInv'
<1>1. /\ UNCHANGED <<compileVars, lends, pc, tile, cache, written>>
      /\ pc = "plan" /\ at > 0 /\ at' = at - 1
  BY DEF PlanNode
<1>2. N' = N /\ N # 0 /\ N \in Nat /\ at \in 0..N /\ PlanInv(at) /\ CacheSound
  BY <1>1 DEF RunInv, StepInv, N, Linked, compileVars
<1>3. CacheSound' /\ TilesCorrect' /\ TileInv'
  BY <1>1, ResultsKept, TileKept DEF RunInv, compileVars
<1>4. buffers' = buffers
  BY DEF PlanNode, execVars
<1>5. held' = held \/ (nodes[at].cached /\ held' = With(held, at, cache[Key(at, need[at].region)]))
  BY DEF PlanNode, execVars
<1>6. \A k \in DOMAIN held' : nodes[k].cached
  <2>1. DOMAIN held' = DOMAIN held \/ (nodes[at].cached /\ DOMAIN held' = {at} \cup DOMAIN held)
    BY <1>5 DEF With, Over
  <2> QED
    BY <2>1 DEF RunInv, PoolInv
<1>7. PoolInv'
  BY <1>1, <1>4, <1>6 DEF RunInv, PoolInv, compileVars
<1>8. PlanInv(at)'
  <2> SUFFICES ASSUME NEW a, a = at PROVE PlanInv(at)'
    OBVIOUS
  <2>1. a \in 1..N
    BY <1>1, <1>2
  <2>2. PlanInv(a)
    BY <1>2
  <2>3. PlanInv(a - 1)'
    BY <2>1, <2>2, <1>2, NodePlanned
  <2> DEFINE b == a - 1
  <2>4. b = a - 1
    OBVIOUS
  <2>5. at' = b
    BY <1>1
  <2> QED
    BY <2>3, <2>5, PlanInvNext
<1>9. StepInv'
  <2>1. at' \in 0..N'
    BY <1>1, <1>2
  <2> QED
    BY <2>1, <1>1, <1>2, <1>8 DEF StepInv
<1> QED
  BY <1>3, <1>7, <1>9 DEF RunInv

\* The rectangle that covers a rectangle is the rectangle: nothing changes for the nodes
\* that were planned.
LEMMA FallBackRunInv ==
  ASSUME RunInv, BufferInv, Linked, Undisturbed, FallBack
  PROVE  RunInv'
<1>1. /\ UNCHANGED <<compileVars, lends, tile, at, cache, written, need, sourceNeed, held, buffers>>
      /\ pc = "plan" /\ at = 0 /\ pc' = "source"
  BY DEF FallBack
<1>2. N' = N /\ N # 0 /\ N \in Nat /\ PlanInv(0)
  BY <1>1 DEF RunInv, StepInv, N, Linked, compileVars
<1>3. CacheSound' /\ TilesCorrect' /\ TileInv' /\ PoolInv'
  <2>1. CacheSound' /\ TilesCorrect'
    BY <1>1, ResultsKept DEF RunInv, compileVars
  <2>2. TileInv'
    BY <1>1, TileKept DEF RunInv, compileVars
  <2>3. PoolInv'
    BY <1>1 DEF RunInv, PoolInv, compileVars
  <2> QED
    BY <2>1, <2>2, <2>3
<1>4. /\ scratch' = [k \in 1..N |-> scratch'[k]]
      /\ \A k \in 1..N : DOMAIN scratch'[k] = DOMAIN nodes[k].in
  <2>1. CASE ~sparseFallback
    <3>1. scratch' = scratch
      BY <2>1 DEF FallBack
    <3> QED
      BY <3>1, <1>2 DEF PlanInv
  <2>2. CASE sparseFallback
    <3> DEFINE Slot(k, s) == IF ~IsView(nodes[k].op) /\ need[k] # None /\ nodes[k].in[s] = 0
                             THEN BoundingRegion(SourceReadPlan(nodes[k].op, need[k].region))
                             ELSE scratch[k][s]
    <3>1. scratch' = [k \in 1..N |-> [s \in DOMAIN scratch[k] |-> Slot(k, s)]]
      BY <2>2 DEF FallBack
    <3> HIDE DEF Slot
    <3>2. \A k \in 1..N : DOMAIN scratch'[k] = DOMAIN scratch[k]
      BY <3>1
    <3>3. scratch' = [k \in 1..N |-> scratch'[k]]
      BY <3>1
    <3> QED
      BY <3>2, <3>3, <1>2 DEF PlanInv
  <2> QED
    BY <2>1, <2>2
<1>5. ASSUME NEW k \in 1..N, need[k] # None, k \notin DOMAIN held, IsTransform(k),
             NEW s \in DOMAIN nodes[k].in
      PROVE  scratch'[k][s] = scratch[k][s]
  <2>1. PlannedNode(k) /\ DOMAIN scratch[k] = DOMAIN nodes[k].in
    <3>1. k \in (0 + 1)..N
      BY <1>2
    <3> QED
      BY <3>1, <1>2, <1>5 DEF PlanInv
  <2>2. scratch[k][s] = RequiredRegion(nodes[k].op, need[k].region)
    BY <2>1, <1>5 DEF PlannedNode, IsTransform
  <2>3. BoundingRegion(SourceReadPlan(nodes[k].op, need[k].region)) = scratch[k][s]
    <3>1. need[k].region \in Regions
      BY <1>2, <1>5, RegionFacts DEF PlanInv
    <3>2. /\ RequiredRegion(nodes[k].op, need[k].region) \in Regions
          /\ SourceReadPlan(nodes[k].op, need[k].region)
               = RectPlan(RequiredRegion(nodes[k].op, need[k].region))
      BY <3>1, RequiredFacts
    <3>3. scratch[k][s] \in Regions
      BY <2>2, <3>2
    <3>4. RectPlan(scratch[k][s]).kind = "rect" /\ RectPlan(scratch[k][s]).region = scratch[k][s]
      BY <3>3, RegionFacts
    <3>5. BoundingRegion(RectPlan(scratch[k][s])) = scratch[k][s]
      BY <3>4 DEF BoundingRegion
    <3> QED
      BY <3>2, <3>5, <2>2
  <2>4. CASE ~sparseFallback
    BY <2>4 DEF FallBack
  <2>5. CASE sparseFallback
    <3>1. scratch'[k][s] = IF ~IsView(nodes[k].op) /\ need[k] # None /\ nodes[k].in[s] = 0
                           THEN BoundingRegion(SourceReadPlan(nodes[k].op, need[k].region))
                           ELSE scratch[k][s]
      BY <2>1, <2>5 DEF FallBack
    <3> QED
      BY <3>1, <2>3
  <2> QED
    BY <2>4, <2>5
<1>6. \A j : Asked(j)' = Asked(j)
  BY <1>1 DEF Asked
<1>7. ASSUME NEW k \in (0 + 1)..N, need[k] # None, k \notin DOMAIN held
      PROVE  PlannedNode(k)'
  <2>1. k \in 1..N /\ PlannedNode(k)
    BY <1>2, <1>7 DEF PlanInv
  <2>2. nodes' = nodes /\ need' = need
    BY <1>1 DEF compileVars
  <2>3. CASE IsView(nodes[k].op)
    <3>1. Asked(nodes[k].up[1])' = Asked(nodes[k].up[1])
      BY <1>1, <2>2 DEF Asked
    <3> QED
      BY <3>1, <2>1, <2>2, <2>3 DEF PlannedNode
  <2>4. CASE ~IsView(nodes[k].op)
    <3>1. \A s \in DOMAIN nodes[k].in : scratch'[k][s] = scratch[k][s]
      BY <1>5, <1>7, <2>1, <2>4 DEF IsTransform
    <3>2. \A s : Asked(nodes[k].up[s])' = Asked(nodes[k].up[s])
      BY <1>1, <2>2 DEF Asked
    <3>3. \A s \in DOMAIN nodes'[k].in :
            /\ scratch'[k][s] = RequiredRegion(nodes'[k].op, need'[k].region)
            /\ Asked(nodes[k].up[s])' # None
            /\ Contains(Asked(nodes[k].up[s])'.region, scratch'[k][s])
            /\ nodes'[k].up[s] # 0 /\ IsView(nodes'[nodes'[k].up[s]].op) =>
                 Asked(nodes[k].up[s])'.region = scratch'[k][s]
      BY <3>1, <3>2, <2>1, <2>2, <2>4 DEF PlannedNode
    <3> QED
      BY <3>3, <2>2, <2>4 DEF PlannedNode
  <2> QED
    BY <2>3, <2>4
<1>8. PlanInv(0)'
  <2>0. UNCHANGED <<graph, order, nodes>>
    BY <1>1 DEF compileVars
  <2>1. /\ need' \in [1..N' -> {None} \cup Plans]
        /\ sourceNeed' \in {None} \cup Plans
        /\ need'[N'] = RectPlan(tile')
        /\ scratch' = [k \in 1..N' |-> scratch'[k]]
        /\ \A k \in 1..N' : DOMAIN scratch'[k] = DOMAIN nodes'[k].in
    BY <1>1, <1>2, <1>4, <2>0 DEF PlanInv
  <2>2. \A j \in 0..(N' - 1) : Asked(j)' # None =>
          \E m \in (0 + 1)..N' : \E s \in DOMAIN nodes'[m].in : nodes'[m].up[s] = j
    BY <1>2, <1>6, <2>0 DEF PlanInv
  <2>3. \A k \in DOMAIN held' : /\ k \in (0 + 1)..N'
                                /\ nodes'[k].cached
                                /\ need'[k] # None
                                /\ held'[k] = RowsOf(order[k], need[k].region)'
    <3>1. \A k : RowsOf(order[k], need[k].region)' = RowsOf(order[k], need[k].region)
      <4>1. RowOf' = RowOf
        BY <2>0 DEF RowOf
      <4> QED
        BY <4>1, <1>1, <2>0 DEF RowsOf
    <3> QED
      BY <3>1, <1>1, <1>2, <2>0 DEF PlanInv
  <2>4. \A k \in (0 + 1)..N' : need'[k] # None /\ k \notin DOMAIN held' => PlannedNode(k)'
    BY <1>1, <1>2, <1>7
  <2> QED
    BY <2>1, <2>2, <2>3, <2>4 DEF PlanInv
<1>9. StepInv'
  BY <1>1, <1>2, <1>8 DEF StepInv
<1> QED
  BY <1>3, <1>9 DEF RunInv

LEMMA FinishedRunInv ==
  ASSUME RunInv, BufferInv, Linked, Undisturbed, Finished
  PROVE  RunInv'
<1>1. /\ UNCHANGED <<compileVars, tile, at, execVars, cache, written>>
      /\ pc = "run" /\ at > N /\ pc' = "write"
  BY DEF Finished
<1>2. N # 0 /\ N \in Nat /\ at \in 1..(N + 1) /\ PlanInv(0) /\ SourceReady /\ Ran(at)
  BY <1>1 DEF RunInv, StepInv, Linked
<1>3. CacheSound' /\ TilesCorrect' /\ TileInv' /\ PoolInv'
  <2>1. CacheSound' /\ TilesCorrect'
    BY <1>1, ResultsKept DEF RunInv, compileVars
  <2>2. TileInv'
    BY <1>1, TileKept DEF RunInv, compileVars
  <2>3. PoolInv'
    BY <1>1 DEF RunInv, PoolInv, compileVars, execVars
  <2> QED
    BY <2>1, <2>2, <2>3
<1>4. \A i \in Rows(tile) : OutputRows[i] = Row(N, tile.y + i - 1)
  <2>1. at = N + 1
    BY <1>1, <1>2
  <2>2. Ran(N + 1)
    BY <2>1, <1>2
  <2>3. tile \in Regions /\ (IsView(nodes[N].op) => 0 <= tile.y /\ tile.y + tile.h <= nodes[N].op.height)
    BY <1>1, <1>2 DEF RunInv, TileInv
  <2> QED
    BY <2>2, <2>3, <1>2, OutputRight
<1>5. LastNode = NodeAt(N)
  <2>1. Len(order) = N /\ order # <<>>
    BY <1>2 DEF Linked
  <2> QED
    BY <2>1, <1>2 DEF LastNode, NodeAt
<1>6. OutputRows' = OutputRows
  BY <1>1 DEF OutputRows, N, ReadPlan, compileVars, execVars
<1>7. LastNode' = LastNode /\ RowOf' = RowOf /\ tile' = tile
  BY <1>1, ResultsKept DEF compileVars
<1>8. StepInv'
  <2>1. \A i \in Rows(tile') : OutputRows'[i] = RowOf'[LastNode'][tile'.y + i - 1]
    BY <1>4, <1>5, <1>6, <1>7 DEF Row
  <2> QED
    BY <2>1, <1>1 DEF StepInv
<1> QED
  BY <1>3, <1>8 DEF RunInv

LEMMA WriteTileRunInv ==
  ASSUME RunInv, WriteTile
  PROVE  RunInv'
<1>1. /\ UNCHANGED <<compileVars, tile, at, execVars, cache>>
      /\ pc = "write" /\ pc' = "idle"
      /\ written' = [region |-> tile, rows |-> [i \in Rows(tile) |-> OutputRows[i]]]
  BY DEF WriteTile
<1>2. CacheSound' /\ LastNode' = LastNode /\ RowOf' = RowOf
  BY <1>1, ResultsKept DEF RunInv, compileVars
<1>3. TilesCorrect'
  <2>1. \A i \in Rows(tile) : OutputRows[i] = RowOf[LastNode][tile.y + i - 1]
    BY <1>1 DEF RunInv, StepInv
  <2>2. written'.region = tile /\ written'.rows = [i \in Rows(tile) |-> RowOf[LastNode][tile.y + i - 1]]
    BY <2>1, <1>1
  <2>3. RowsOf(LastNode, written.region)' = [i \in Rows(tile) |-> RowOf[LastNode][tile.y + i - 1]]
    BY <2>2, <1>2 DEF RowsOf
  <2> QED
    BY <2>2, <2>3 DEF TilesCorrect
<1>4. PoolInv'
  <2>1. buffers # <<>>
    BY <1>1 DEF RunInv, PoolInv
  <2> QED
    BY <2>1, <1>1 DEF RunInv, PoolInv, compileVars, execVars
<1>5. TileInv' /\ StepInv'
  BY <1>1 DEF TileInv, StepInv
<1> QED
  BY <1>2, <1>3, <1>4, <1>5 DEF RunInv
-----------------------------------------------------------------------------
LEMMA ReadSourceRunInv ==
  ASSUME RunInv, BufferInv, Linked, Undisturbed, ReadSource
  PROVE  RunInv'
<1>1. /\ UNCHANGED <<compileVars, tile, need, sourceNeed, scratch, held, cache, written>>
      /\ pc = "source" /\ pc' = "run" /\ at' = 1
  BY DEF ReadSource
<1>2. N' = N /\ N # 0 /\ N \in Nat /\ PlanInv(0)
  BY <1>1 DEF RunInv, StepInv, N, Linked, compileVars
<1>3. /\ buffers # <<>> /\ DOMAIN buffers = 0..maxBuf /\ 0 \in DOMAIN buffers /\ phase = "compiled"
  BY <1>1 DEF RunInv, PoolInv, Linked
<1>4. CacheSound' /\ TilesCorrect' /\ TileInv'
  BY <1>1, ResultsKept, TileKept DEF RunInv, compileVars
<1> DEFINE rows == ReadPlan(sourceNeed)
<1>5. \/ buffers' = buffers
      \/ buffers' = Store(buffers, 0, rows)
  BY DEF ReadSource, Fetch
<1>6. PoolInv'
  <2> HIDE DEF rows
  <2>1. DOMAIN buffers' = DOMAIN buffers
    BY <1>3, <1>5, StoreFacts
  <2>2. buffers' # <<>>
    BY <2>1, <1>3
  <2> QED
    BY <2>1, <2>2, <1>1, <1>3 DEF RunInv, PoolInv, compileVars
<1>7. SourceReady'
  <2> SUFFICES ASSUME SourceNeeded'
               PROVE  /\ sourceRegion' = sourceNeed'.region
                      /\ borrowed' \/ \A j \in Rows(sourceRegion') :
                                        buffers'[0][j] = SourceRow(sourceRegion'.y + j - 1)
    BY DEF SourceReady
  <2>1. SourceNeeded
    BY <1>1 DEF SourceNeeded
  <2>2. Fetch(sourceNeed) /\ sourceRegion' = sourceNeed.region
    BY <2>1 DEF ReadSource
  <2>3. CASE Borrowable(sourceNeed)
    BY <2>2, <2>3, <1>1 DEF Fetch
  <2>4. CASE ~Borrowable(sourceNeed)
    <3> DEFINE r == sourceNeed.region
    <3>1. sourceNeed \in Plans /\ r \in Regions /\ sourceNeed = RectPlan(r)
      BY <2>1, <1>2, RegionFacts DEF PlanInv, SourceNeeded
    <3>2. DOMAIN rows = Rows(r) /\ \A j \in Rows(r) : rows[j] = SourceRow(r.y + j - 1)
      <4> HIDE DEF r
      <4> QED
        BY <3>1, ReadFacts
    <3>3. buffers' = Store(buffers, 0, rows)
      BY <2>2, <2>4 DEF Fetch
    <3> HIDE DEF rows
    <3>4. \A j \in DOMAIN rows : Store(buffers, 0, rows)[0][j] = rows[j]
      <4>1. 0 \in DOMAIN buffers
        BY <1>3
      <4> QED
        BY <4>1, StoreFacts
    <3> QED
      BY <3>2, <3>3, <3>4, <2>2, <1>1
  <2> QED
    BY <2>3, <2>4
<1>8. Ran(1)'
  BY DEF Ran
<1>9. PlanInv(0)'
  BY <1>1, <1>2, PlanInvKept DEF compileVars
<1>10. StepInv'
  <2>1. Ran(at)'
    BY <1>1, <1>8, RanNext
  <2>2. at' \in 1..(N' + 1)
    BY <1>1, <1>2
  <2> QED
    BY <2>1, <2>2, <1>1, <1>2, <1>7, <1>9 DEF StepInv
<1> QED
  BY <1>4, <1>6, <1>10 DEF RunInv

\* A node that is run leaves its rows in its buffer, over those of nodes nobody reads
\* any more, or in the tile it holds.
LEMMA RanFurther ==
  ASSUME Linked, Undisturbed, NEW k \in 1..N, Ran(k),
         UNCHANGED <<graph, order, nodes, need>>,
         \A m \in 1..N : m \in DOMAIN held => m \in DOMAIN held',
         IsTransform(k) /\ need[k] # None /\ k \notin DOMAIN held' =>
           \A j \in Rows(need[k].region) :
             buffers'[nodes[k].out][j] = Row(k, need[k].region.y + j - 1),
         \A m \in 1..N : IsTransform(m) /\ (IsTransform(k) => nodes[k].out # nodes[m].out)
                          => buffers'[nodes[m].out] = buffers[nodes[m].out]
  PROVE  Ran(k + 1)'
<1>1. N \in Nat /\ (k + 1) - 1 = k
  BY DEF Linked
<1>2. \A j, y : Row(j, y)' = Row(j, y)
  BY RowsKept
<1>3. \A m : IsTransform(m)' <=> IsTransform(m)
  BY DEF IsTransform
<1>4. ASSUME NEW i \in 1..k, IsTransform(i), need[i] # None, i \notin DOMAIN held',
             \A m \in (i + 1)..k : IsTransform(m) => nodes[m].out # nodes[i].out,
             NEW j \in Rows(need[i].region)
      PROVE  buffers'[nodes[i].out][j] = Row(i, need[i].region.y + j - 1)
  <2>1. CASE i = k
    BY <2>1, <1>4
  <2>2. CASE i # k
    <3>1. i \in 1..(k - 1) /\ i \in 1..N /\ k \in (i + 1)..k
      BY <2>2, <1>1
    <3>2. \A m \in (i + 1)..(k - 1) : m \in (i + 1)..k
      BY <3>1, <1>1
    <3>3. i \notin DOMAIN held
      BY <3>1, <1>4
    <3>4. buffers[nodes[i].out][j] = Row(i, need[i].region.y + j - 1)
      BY <3>1, <3>2, <3>3, <1>4 DEF Ran
    <3>5. buffers'[nodes[i].out] = buffers[nodes[i].out]
      BY <3>1, <1>4
    <3> QED
      BY <3>4, <3>5
  <2> QED
    BY <2>1, <2>2
<1>5. ASSUME NEW i \in 1..((k + 1) - 1), IsTransform(i)', need'[i] # None, i \notin DOMAIN held',
             \A m \in (i + 1)..((k + 1) - 1) : IsTransform(m)' => nodes'[m].out # nodes'[i].out,
             NEW j \in Rows(need'[i].region)
      PROVE  buffers'[nodes'[i].out][j] = Row(i, need[i].region.y + j - 1)'
  <2>1. i \in 1..k /\ IsTransform(i) /\ need[i] # None /\ j \in Rows(need[i].region)
        /\ \A m \in (i + 1)..k : IsTransform(m) => nodes[m].out # nodes[i].out
    BY <1>1, <1>3, <1>5
  <2>2. buffers'[nodes[i].out][j] = Row(i, need[i].region.y + j - 1)
    BY <2>1, <1>4, <1>5
  <2>3. Row(i, need[i].region.y + j - 1)' = Row(i, need[i].region.y + j - 1)
    <3>1. RowOf' = RowOf
      BY DEF RowOf
    <3> QED
      BY <3>1 DEF Row, NodeAt
  <2> QED
    BY <2>2, <2>3
<1> QED
  BY <1>5 DEF Ran

LEMMA RunNodeRunInv ==
  ASSUME RunInv, BufferInv, Linked, Undisturbed, RunNode
  PROVE  RunInv'
<1>1. /\ UNCHANGED <<compileVars, pc, tile, need, sourceNeed, scratch, sourceRegion, borrowed, written>>
      /\ pc = "run" /\ at <= N /\ at' = at + 1
  BY DEF RunNode
<1>2. /\ N' = N /\ N # 0 /\ N \in Nat /\ at \in 1..(N + 1)
      /\ PlanInv(0) /\ SourceReady /\ Ran(at) /\ CacheSound
  BY <1>1 DEF RunInv, StepInv, N, Linked, compileVars
<1>3. /\ buffers # <<>> /\ DOMAIN buffers = 0..maxBuf /\ phase = "compiled"
  BY <1>1 DEF RunInv, PoolInv
<1>4. TilesCorrect' /\ TileInv' /\ (cache' = cache => CacheSound')
  BY <1>1, ResultsKept, TileKept DEF RunInv, compileVars
<1>5. UNCHANGED <<graph, order, nodes, phase, maxBuf>>
  BY <1>1 DEF compileVars
<1> SUFFICES ASSUME NEW k \in 1..N, k = at PROVE RunInv'
  BY <1>1, <1>2
<1>6. ASSUME PlanInv(0)', SourceReady', Ran(k + 1)', PoolInv', CacheSound'
      PROVE  RunInv'
  <2>1. Ran(at)'
    <3> DEFINE b == k + 1
    <3>1. at' = b
      BY <1>1
    <3> QED
      BY <3>1, <1>6, RanNext
  <2>2. at' \in 1..(N' + 1)
    BY <1>1, <1>2
  <2>3. StepInv'
    BY <2>1, <2>2, <1>1, <1>2, <1>6 DEF StepInv
  <2> QED
    BY <2>3, <1>4, <1>6 DEF RunInv
<1>7. CASE Skipped(k) /\ UNCHANGED <<held, buffers, cache>>
  <2>1. PlanInv(0)'
    BY <1>1, <1>2, <1>5, <1>7, PlanInvKept
  <2>2. SourceReady'
    BY <1>1, <1>2, <1>7 DEF SourceReady, SourceNeeded
  <2>3. Ran(k + 1)'
    <3>1. ~(IsTransform(k) /\ need[k] # None /\ k \notin DOMAIN held')
      BY <1>7 DEF Skipped, IsTransform
    <3> QED
      BY <3>1, <1>1, <1>2, <1>5, <1>7, RanFurther
  <2>4. PoolInv'
    BY <1>1, <1>5, <1>7 DEF RunInv, PoolInv
  <2> QED
    BY <2>1, <2>2, <2>3, <2>4, <1>4, <1>6, <1>7
<1>8. CASE ~Skipped(k) /\ Produce(buffers, k, need[k].region,
                                  Process(k, [s \in DOMAIN nodes[k].in |-> InputRows(k, s)],
                                          need[k].region))
  <2> DEFINE rows == Process(k, [s \in DOMAIN nodes[k].in |-> InputRows(k, s)], need[k].region)
             r    == need[k].region
             out  == nodes[k].out
  <2>1. IsTransform(k) /\ need[k] # None /\ k \notin DOMAIN held
    BY <1>8 DEF Skipped, IsTransform
  <2>2. r \in Regions /\ rows = RowsOf(order[k], r)
    BY <2>1, <1>2, RunRight
  <2> HIDE DEF rows
  <2>3. DOMAIN rows = Rows(r) /\ \A j \in Rows(r) : rows[j] = Row(k, r.y + j - 1)
    BY <2>2 DEF RowsOf, Row, NodeAt
  <2>4. out \in 1..maxBuf /\ out \in DOMAIN buffers /\ out # 0
    <3>1. out \in 1..maxBuf /\ maxBuf \in Nat
      BY <2>1 DEF Linked
    <3> HIDE DEF out
    <3> QED
      BY <3>1, <1>3
  <2>5. CASE /\ nodes[k].cached
             /\ cache' = Inserted(k, r, rows)
             /\ held' = With(held, k, rows)
             /\ buffers' = buffers
    <3>1. /\ DOMAIN held' = {k} \cup DOMAIN held
          /\ held'[k] = rows
          /\ \A m \in DOMAIN held : held'[m] = held[m]
      BY <2>1, <2>5 DEF With, Over
    <3>2. PlanInv(0)'
      <4>1. \A m \in DOMAIN held' : /\ m \in (0 + 1)..N'
                                    /\ nodes'[m].cached
                                    /\ need'[m] # None
                                    /\ held'[m] = RowsOf(order[m], need[m].region)'
        <5>1. \A m : RowsOf(order[m], need[m].region)' = RowsOf(order[m], need[m].region)
          <6>1. RowOf' = RowOf
            BY <1>5 DEF RowOf
          <6> QED
            BY <6>1, <1>1, <1>5 DEF RowsOf
        <5>2. \A m \in DOMAIN held : /\ m \in (0 + 1)..N /\ nodes[m].cached /\ need[m] # None
                                     /\ held[m] = RowsOf(order[m], need[m].region)
          BY <1>2 DEF PlanInv
        <5> QED
          BY <5>1, <5>2, <3>1, <2>1, <2>2, <2>5, <1>1, <1>2, <1>5
      <4>2. \A m : PlannedNode(m)' <=> PlannedNode(m)
        BY <1>1, <1>5 DEF PlannedNode, Asked
      <4>3. \A m \in (0 + 1)..N' : need'[m] # None /\ m \notin DOMAIN held' => PlannedNode(m)'
        BY <4>2, <3>1, <1>1, <1>2 DEF PlanInv
      <4>4. /\ need' \in [1..N' -> {None} \cup Plans]
            /\ sourceNeed' \in {None} \cup Plans
            /\ need'[N'] = RectPlan(tile')
            /\ scratch' = [m \in 1..N' |-> scratch'[m]]
            /\ \A m \in 1..N' : DOMAIN scratch'[m] = DOMAIN nodes'[m].in
            /\ \A j \in 0..(N' - 1) : Asked(j)' # None =>
                 \E m \in (0 + 1)..N' : \E s \in DOMAIN nodes'[m].in : nodes'[m].up[s] = j
        BY <1>1, <1>2, <1>5 DEF PlanInv, Asked
      <4> QED
        BY <4>1, <4>3, <4>4 DEF PlanInv
    <3>3. SourceReady'
      BY <2>5, <1>1, <1>2 DEF SourceReady, SourceNeeded
    <3>4. Ran(k + 1)'
      BY <3>1, <2>5, <1>1, <1>2, <1>5, RanFurther
    <3>5. PoolInv'
      BY <3>1, <2>5, <1>1, <1>3, <1>5 DEF RunInv, PoolInv
    <3>6. CacheSound'
      BY <2>2, <2>5, <1>2, <1>5, InsertedSound
    <3> QED
      BY <3>2, <3>3, <3>4, <3>5, <3>6, <1>6
  <2>6. CASE /\ ~nodes[k].cached
             /\ buffers' = Store(buffers, out, rows)
             /\ UNCHANGED <<cache, held>>
    <3>1. /\ DOMAIN buffers' = 0..maxBuf
          /\ \A b \in DOMAIN buffers : b # out => buffers'[b] = buffers[b]
          /\ \A j \in Rows(r) : buffers'[out][j] = rows[j]
      <4> HIDE DEF out, r
      <4>1. /\ DOMAIN Store(buffers, out, rows) = DOMAIN buffers
            /\ \A b \in DOMAIN buffers : b # out => Store(buffers, out, rows)[b] = buffers[b]
            /\ \A j \in DOMAIN rows : Store(buffers, out, rows)[out][j] = rows[j]
        <5>1. out \in DOMAIN buffers
          BY <2>4
        <5>2. DOMAIN Store(buffers, out, rows) = DOMAIN buffers
          BY <5>1, StoreFacts
        <5>3. \A b \in DOMAIN buffers : b # out => Store(buffers, out, rows)[b] = buffers[b]
          BY <5>1, StoreFacts
        <5>4. \A j \in DOMAIN rows : Store(buffers, out, rows)[out][j] = rows[j]
          BY <5>1, StoreFacts
        <5> QED
          BY <5>2, <5>3, <5>4
      <4> QED
        BY <4>1, <2>3, <2>6, <1>3
    <3>2. PlanInv(0)'
      BY <2>6, <1>1, <1>2, <1>5, PlanInvKept
    <3>3. SourceReady'
      <4>1. 0 \in DOMAIN buffers
        BY <1>3 DEF Linked
      <4>2. buffers'[0] = buffers[0]
        BY <4>1, <3>1, <2>4
      <4> QED
        BY <4>2, <1>1, <1>2 DEF SourceReady, SourceNeeded
    <3>4. Ran(k + 1)'
      <4>1. ASSUME NEW m \in 1..N, IsTransform(m), out # nodes[m].out
            PROVE  buffers'[nodes[m].out] = buffers[nodes[m].out]
        <5>1. nodes[m].out \in 1..maxBuf /\ maxBuf \in Nat
          BY <4>1 DEF Linked
        <5>2. nodes[m].out \in DOMAIN buffers
          BY <5>1, <1>3
        <5> QED
          BY <5>2, <4>1, <3>1
      <4>2. \A j \in Rows(need[k].region) : buffers'[nodes[k].out][j] = Row(k, need[k].region.y + j - 1)
        BY <3>1, <2>3
      <4>3. UNCHANGED <<graph, order, nodes, need>>
        BY <1>1, <1>5
      <4>4. Ran(k)
        BY <1>2
      <4> QED
        BY <4>1, <4>2, <4>3, <4>4, <2>1, <2>6, RanFurther
    <3>5. PoolInv'
      <4>1. buffers' # <<>>
        BY <3>1, <2>4, <1>3
      <4> QED
        BY <4>1, <3>1, <2>6, <1>1, <1>3, <1>5 DEF RunInv, PoolInv
    <3> QED
      BY <3>2, <3>3, <3>4, <3>5, <2>6, <1>4, <1>6
  <2> QED
    BY <2>5, <2>6, <1>8 DEF Produce, rows
<1> QED
  BY <1>7, <1>8 DEF RunNode
-----------------------------------------------------------------------------
(* Every step of a run.                                                    *)

\* What holds of every state of a run: the compiled pipeline is well linked, and the
\* tile is as far as its step says.
ExecInv == BufferInv /\ ShapeInv /\ RunInv

LEMMA InitExecInv == ExecInit => ExecInv
<1> SUFFICES ASSUME ExecInit PROVE ExecInv
  OBVIOUS
<1>1. BufferInv /\ ShapeInv
  BY InitBufferInv, InitShapeInv DEF ExecInit
<1>2. /\ buffers = <<>> /\ pc = "idle" /\ written = None /\ cache = <<>> /\ held = <<>>
  BY DEF ExecInit
<1>3. DOMAIN <<>> = {}
  OBVIOUS
<1>4. DOMAIN cache = {} /\ DOMAIN held = {}
  BY <1>2, <1>3
<1> QED
  BY <1>1, <1>2, <1>4 DEF ExecInv, RunInv, CacheSound, TilesCorrect, PoolInv, TileInv, StepInv

LEMMA StutterRunInv ==
  ASSUME RunInv, UNCHANGED vars
  PROVE  RunInv'
<1>1. UNCHANGED <<graph, order, nodes, phase, maxBuf, pc, tile, at, need, sourceNeed, scratch,
                  sourceRegion, borrowed, held, buffers, cache, written>>
  BY DEF vars, compileVars
<1>2. CacheSound' /\ TilesCorrect' /\ RowOf' = RowOf /\ LastNode' = LastNode
  BY <1>1, ResultsKept DEF RunInv
<1>3. PoolInv' /\ TileInv'
  BY <1>1 DEF RunInv, PoolInv, TileInv, N
<1>4. StepInv'
  <2>1. N' = N
    BY <1>1 DEF N
  <2>2. SinglePath => SinglePath'
    BY <1>1 DEF SinglePath, N
  <2>3. SourceReady => SourceReady'
    BY <1>1 DEF SourceReady, SourceNeeded
  <2>4. ASSUME PlanInv(0) PROVE PlanInv(0)'
    BY <2>4, <1>1, PlanInvKept
  <2>5. ASSUME PlanInv(at) PROVE PlanInv(at)'
    <3> SUFFICES ASSUME NEW b, b = at PROVE PlanInv(at)'
      OBVIOUS
    <3>1. PlanInv(b)'
      BY <2>5, <1>1, PlanInvKept
    <3>2. at' = b
      BY <1>1
    <3> QED
      BY <3>1, <3>2, PlanInvNext
  <2>6. Ran(at) => Ran(at)'
    <3>1. /\ \A k : IsTransform(k)' <=> IsTransform(k)
          /\ \A k : Row(k, need[k].region.y)' = Row(k, need[k].region.y)
      BY <1>1, <1>2 DEF IsTransform, Row, NodeAt
    <3> QED
      BY <3>1, <1>1, <1>2 DEF Ran, Row, NodeAt
  <2>7. OutputRows' = OutputRows
    BY <1>1 DEF OutputRows, N, ReadPlan
  <2>8. \/ pc \notin {"bare", "single", "plan", "source", "run", "write"}
        \/ pc \in {"bare", "single"} \/ pc = "plan" \/ pc \in {"source", "run"} \/ pc = "write"
    OBVIOUS
  <2> QED
    BY <1>1, <1>2, <2>1, <2>2, <2>3, <2>4, <2>5, <2>6, <2>7 DEF RunInv, StepInv
<1> QED
  BY <1>2, <1>3, <1>4 DEF RunInv

\* The pipeline does not change once it is compiled.
LEMMA PipelineStep ==
  ASSUME [Next]_vars
  PROVE  [CompileNext]_compileVars
<1>1. CASE Compile
  BY <1>1 DEF Compile
<1>2. CASE UNCHANGED vars
  BY <1>2 DEF vars
<1> QED
  BY <1>1, <1>2 DEF Next, NewPool, BeginTile, ReadBare, RunSingle, PlanNode, FallBack,
     ReadSource, RunNode, Finished, WriteTile, Evict, Done, vars

LEMMA ExecInvInductive ==
  ASSUME \A g \in Graphs : SoundGraph(g), ExecInv, [Next]_vars
  PROVE  ExecInv'
<1>1. BufferInv' /\ ShapeInv'
  BY PipelineStep, BufferInvInductive, ShapeInvInductive DEF ExecInv
<1>2. phase = "compiled" => Linked /\ Undisturbed
  <2>1. SoundGraph(graph)
    BY DEF ExecInv, BufferInv, CompileTypeOK
  <2> QED
    BY <2>1, CompiledLinked, SoundUndisturbed DEF ExecInv, ShapeInv
<1>3. pc # "idle" \/ buffers # <<>> => Linked /\ Undisturbed
  BY <1>2 DEF ExecInv, RunInv, PoolInv
<1>4. RunInv'
  <2>1. CASE Compile
    BY <2>1, CompileRunInv DEF ExecInv
  <2>2. CASE NewPool
    BY <2>2, NewPoolRunInv DEF ExecInv
  <2>3. CASE BeginTile
    <3>1. buffers # <<>>
      BY <2>3 DEF BeginTile
    <3> QED
      BY <3>1, <2>3, <1>3, BeginTileRunInv DEF ExecInv
  <2>4. CASE ReadBare
    <3>1. pc # "idle"
      BY <2>4 DEF ReadBare
    <3> QED
      BY <3>1, <2>4, <1>3, ReadBareRunInv DEF ExecInv
  <2>5. CASE RunSingle
    <3>1. pc # "idle"
      BY <2>5 DEF RunSingle
    <3> QED
      BY <3>1, <2>5, <1>3, RunSingleRunInv DEF ExecInv
  <2>6. CASE PlanNode
    <3>1. pc # "idle"
      BY <2>6 DEF PlanNode
    <3> QED
      BY <3>1, <2>6, <1>3, PlanNodeRunInv DEF ExecInv
  <2>7. CASE FallBack
    <3>1. pc # "idle"
      BY <2>7 DEF FallBack
    <3> QED
      BY <3>1, <2>7, <1>3, FallBackRunInv DEF ExecInv
  <2>8. CASE ReadSource
    <3>1. pc # "idle"
      BY <2>8 DEF ReadSource
    <3> QED
      BY <3>1, <2>8, <1>3, ReadSourceRunInv DEF ExecInv
  <2>9. CASE RunNode
    <3>1. pc # "idle"
      BY <2>9 DEF RunNode
    <3> QED
      BY <3>1, <2>9, <1>3, RunNodeRunInv DEF ExecInv
  <2>10. CASE Finished
    <3>1. pc # "idle"
      BY <2>10 DEF Finished
    <3> QED
      BY <3>1, <2>10, <1>3, FinishedRunInv DEF ExecInv
  <2>11. CASE WriteTile
    BY <2>11, WriteTileRunInv DEF ExecInv
  <2>12. CASE Evict
    BY <2>12, EvictRunInv DEF ExecInv
  <2>13. CASE Done \/ UNCHANGED vars
    BY <2>13, StutterRunInv DEF ExecInv, Done
  <2> QED
    BY <2>1, <2>2, <2>3, <2>4, <2>5, <2>6, <2>7, <2>8, <2>9, <2>10, <2>11, <2>12, <2>13 DEF Next
<1> QED
  BY <1>1, <1>4 DEF ExecInv

\* Every tile of every sound graph that reaches the sink holds the rows of the image,
\* whatever the other tiles, the cache and its evictions did (execute_tile).
THEOREM TilesAreCorrect ==
  ASSUME \A g \in Graphs : SoundGraph(g)
  PROVE  Spec => []TilesCorrect
<1>1. ExecInv /\ [Next]_vars => ExecInv'
  BY ExecInvInductive
<1>2. ExecInv => TilesCorrect
  BY DEF ExecInv, RunInv
<1> QED
  BY InitExecInv, <1>1, <1>2, PTL DEF Spec

\* And what the workers share through the tile cache are rows of the image too
\* (TileCache::get).
THEOREM CacheIsSound ==
  ASSUME \A g \in Graphs : SoundGraph(g)
  PROVE  Spec => []CacheSound
<1>1. ExecInv /\ [Next]_vars => ExecInv'
  BY ExecInvInductive
<1>2. ExecInv => CacheSound
  BY DEF ExecInv, RunInv
<1> QED
  BY InitExecInv, <1>1, <1>2, PTL DEF Spec
-----------------------------------------------------------------------------
(* Induction over the indices of the nodes, up and down.                   *)

\* Induction over an interval, upwards and downwards.
LEMMA Upward ==
  ASSUME NEW n \in Nat, NEW Q, 0 \in Q, \A k \in 1..n : k - 1 \in Q => k \in Q
  PROVE  \A k \in 0..n : k \in Q
<1> DEFINE Bad == {k \in 0..n : k \notin Q}
<1>1. SUFFICES ASSUME Bad # {} PROVE FALSE
  OBVIOUS
<1>2. PICK k \in Bad : \A m \in Bad : k <= m
  <2>1. Bad \in SUBSET Nat
    OBVIOUS
  <2> HIDE DEF Bad
  <2> QED
    BY <2>1, <1>1, LeastOf
<1>3. k \in 0..n /\ k \notin Q
  BY <1>2
<1>4. k \in 1..n /\ k - 1 \in 0..n /\ ~(k <= k - 1)
  BY <1>3
<1>5. k - 1 \in Q
  BY <1>2, <1>4
<1> QED
  BY <1>3, <1>4, <1>5

\* A set that holds n + 1, and k with each k + 1, holds 1..n+1.
LEMMA Downward ==
  ASSUME NEW n \in Nat, NEW Q, n + 1 \in Q, \A k \in 1..n : k + 1 \in Q => k \in Q
  PROVE  \A k \in 1..(n + 1) : k \in Q
<1> DEFINE P == {j \in 0..n : n + 1 - j \in Q}
<1>1. 0 \in P
  BY n + 1 - 0 = n + 1
<1>2. ASSUME NEW j \in 1..n, j - 1 \in P PROVE j \in P
  <2>1. n + 1 - j \in 1..n /\ (n + 1 - j) + 1 = n + 1 - (j - 1)
    OBVIOUS
  <2>2. (n + 1 - j) + 1 \in Q
    BY <2>1, <1>2
  <2> QED
    BY <2>1, <2>2
<1> HIDE DEF P
<1>3. \A j \in 0..n : j \in P
  BY <1>1, <1>2, Upward
<1>4. ASSUME NEW k \in 1..(n + 1) PROVE k \in Q
  <2>1. n + 1 - k \in 0..n /\ n + 1 - (n + 1 - k) = k
    OBVIOUS
  <2> QED
    BY <2>1, <1>3 DEF P
<1> QED
  BY <1>4

\* f starts with a at 0 and goes up by step, or ends with a at n + 1 and goes down by step.
GoesUp(f, n, a, step) == f[0] = a /\ \A k \in 1..n : f[k] = step[<<k, f[k - 1]>>]

GoesDown(f, n, a, step) == f[n + 1] = a /\ \A k \in 1..n : f[k] = step[<<k, f[k + 1]>>]

\* A function defined from its predecessor exists, and from its successor.
LEMMA StepsUp ==
  ASSUME NEW n \in Nat, NEW S, NEW a \in S, NEW step \in [(1..n) \X S -> S]
  PROVE  \E f \in [0..n -> S] : GoesUp(f, n, a, step)
<1> DEFINE Upto(f, m) == f[0] = a /\ \A k \in 1..m : f[k] = step[<<k, f[k - 1]>>]
           Q == {m \in 0..n : \E f \in [0..n -> S] : Upto(f, m)}
<1>1. 0 \in Q
  <2> DEFINE f == [j \in 0..n |-> a]
  <2>1. f \in [0..n -> S] /\ f[0] = a
    OBVIOUS
  <2>2. 0 \in 0..n /\ 1..0 = {}
    OBVIOUS
  <2> HIDE DEF f
  <2>3. Upto(f, 0)
    BY <2>1, <2>2
  <2> QED
    BY <2>1, <2>2, <2>3
<1>2. ASSUME NEW m \in 1..n, m - 1 \in Q PROVE m \in Q
  <2>1. PICK f \in [0..n -> S] : Upto(f, m - 1)
    BY <1>2
  <2>2. m - 1 \in 0..n /\ m \in 0..n /\ m # 0
    OBVIOUS
  <2> DEFINE v == step[<<m, f[m - 1]>>]
             g == [f EXCEPT ![m] = v]
  <2>3. v \in S
    BY <2>1, <2>2
  <2> HIDE DEF v
  <2>4. g \in [0..n -> S] /\ g[m] = v /\ \A j \in 0..n : j # m => g[j] = f[j]
    BY <2>2, <2>3
  <2> HIDE DEF g
  <2>5. ASSUME NEW k \in 1..m PROVE g[k] = step[<<k, g[k - 1]>>]
    <3>1. k - 1 \in 0..n /\ k - 1 # m /\ k \in 0..n
      OBVIOUS
    <3>2. g[k - 1] = f[k - 1]
      BY <3>1, <2>4
    <3>3. CASE k = m
      BY <3>2, <3>3, <2>4 DEF v
    <3>4. CASE k # m
      <4>1. k \in 1..(m - 1)
        BY <3>4
      <4> QED
        BY <4>1, <3>1, <3>2, <3>4, <2>1, <2>4
    <3> QED
      BY <3>3, <3>4
  <2>6. g[0] = a
    BY <2>1, <2>2, <2>4
  <2> QED
    BY <2>2, <2>4, <2>5, <2>6
<1> HIDE DEF Q
<1>3. n \in Q
  BY <1>1, <1>2, Upward
<1> QED
  BY <1>3 DEF Q, GoesUp

\* Values found step by step, down from the last index.
LEMMA StepsDown ==
  ASSUME NEW n \in Nat, NEW S, NEW a \in S, NEW step \in [(1..n) \X S -> S]
  PROVE  \E f \in [1..(n + 1) -> S] : GoesDown(f, n, a, step)
<1> DEFINE turned == [ks \in (1..n) \X S |-> step[<<n + 1 - ks[1], ks[2]>>]]
<1>1. turned \in [(1..n) \X S -> S]
  <2>1. \A k \in 1..n : n + 1 - k \in 1..n
    OBVIOUS
  <2> QED
    BY <2>1
<1>2. \A k \in 1..n, x \in S : turned[<<k, x>>] = step[<<n + 1 - k, x>>]
  OBVIOUS
<1> HIDE DEF turned
<1>3. PICK f \in [0..n -> S] : f[0] = a /\ \A k \in 1..n : f[k] = turned[<<k, f[k - 1]>>]
  <2>1. \E f \in [0..n -> S] : GoesUp(f, n, a, turned)
    BY <1>1, StepsUp, Zenon
  <2> QED
    BY <2>1 DEF GoesUp
<1> DEFINE g == [k \in 1..(n + 1) |-> f[n + 1 - k]]
<1>4. \A k \in 1..(n + 1) : n + 1 - k \in 0..n
  OBVIOUS
<1>5. g \in [1..(n + 1) -> S]
  BY <1>4
<1>6. g[n + 1] = a
  <2>1. n + 1 \in 1..(n + 1) /\ n + 1 - (n + 1) = 0
    OBVIOUS
  <2> QED
    BY <2>1, <1>3
<1>7. ASSUME NEW k \in 1..n PROVE g[k] = step[<<k, g[k + 1]>>]
  <2> DEFINE j == n + 1 - k
  <2>1. j \in 1..n /\ j - 1 \in 0..n /\ n + 1 - j = k /\ n + 1 - (k + 1) = j - 1
        /\ k \in 1..(n + 1) /\ k + 1 \in 1..(n + 1)
    OBVIOUS
  <2>2. g[k] = f[j] /\ g[k + 1] = f[j - 1]
    BY <2>1
  <2> HIDE DEF j, g
  <2>3. f[j] = step[<<n + 1 - j, f[j - 1]>>]
    BY <2>1, <1>2, <1>3
  <2> QED
    BY <2>1, <2>2, <2>3
<1> HIDE DEF g
<1> QED
  BY <1>5, <1>6, <1>7 DEF GoesDown
-----------------------------------------------------------------------------
\* A set of numbers with a bound has a greatest one.
LEMMA GreatestOf ==
  ASSUME NEW S \in SUBSET Nat, S # {}, NEW m \in Nat, \A n \in S : n <= m
  PROVE  \E n \in S : \A k \in S : k <= n
<1> DEFINE T == {m - n : n \in S}
<1>1. T \in SUBSET Nat /\ T # {}
  <2>1. \A n \in S : m - n \in Nat
    OBVIOUS
  <2> QED
    BY <2>1
<1> HIDE DEF T
<1>2. PICK d \in T : \A e \in T : d <= e
  BY <1>1, LeastOf
<1>3. PICK n \in S : d = m - n
  BY DEF T
<1>4. ASSUME NEW k \in S PROVE k <= n
  <2>1. m - k \in T
    BY DEF T
  <2>2. d <= m - k
    BY <2>1, <1>2
  <2> QED
    BY <2>2, <1>3
<1> QED
  BY <1>4
-----------------------------------------------------------------------------
\* The heights that PipelineHeight is the last of.
LEMMA HeightsOfOrder ==
  ASSUME Linked, Undisturbed
  PROVE  \E h \in [0..N -> Nat] : /\ PipelineHeight = h[N]
                                  /\ h[0] = SourceHeight
                                  /\ \A k \in 1..N : h[k] = OutputHeight(nodes[k].op, h[k - 1])
<1> DEFINE step == [kh \in (1..N) \X Nat |-> OutputHeight(nodes[kh[1]].op, kh[2])]
<1>1. N \in Nat /\ Len(order) = N
  BY DEF Linked
<1>2. \A k \in 1..N, h \in Nat : OutputHeight(nodes[k].op, h) \in Nat
  BY OutputHeightTyped DEF Linked
<1>3. /\ step \in [(1..N) \X Nat -> Nat]
      /\ \A k \in 1..N, h \in Nat : step[<<k, h>>] = OutputHeight(nodes[k].op, h)
  BY <1>2
<1> HIDE DEF step
<1>4. PICK f \in [0..N -> Nat] : f[0] = SourceHeight /\ \A k \in 1..N : f[k] = step[<<k, f[k - 1]>>]
  <2>1. SourceHeight \in Nat
    BY ExecutionAssumption
  <2>2. \E f \in [0..N -> Nat] : GoesUp(f, N, SourceHeight, step)
    BY <2>1, <1>1, <1>3, StepsUp, Zenon
  <2> QED
    BY <2>2 DEF GoesUp
<1>5. \A k \in 1..N : k \in 0..N /\ k - 1 \in 0..N /\ k # 0
  BY <1>1
<1>6. \A k \in 1..N : f[k] = OutputHeight(nodes[k].op, f[k - 1]) /\ nodes[k].op = graph[order[k]]
  <2>1. \A k \in 1..N : nodes[k].op = graph[order[k]]
    BY DEF Linked
  <2>2. \A k \in 1..N : f[k - 1] \in Nat
    BY <1>4, <1>5
  <2> QED
    BY <2>1, <2>2, <1>3, <1>4
<1>7. f = [j \in 0..Len(order) |-> HeightStep(f, j)]
  <2>1. \A j \in 0..N : f[j] = HeightStep(f, j)
    <3> SUFFICES ASSUME NEW j \in 0..N PROVE f[j] = HeightStep(f, j)
      OBVIOUS
    <3>1. CASE j = 0
      BY <3>1, <1>4 DEF HeightStep
    <3>2. CASE j # 0
      <4>1. j \in 1..N
        BY <3>2, <1>1
      <4> QED
        BY <4>1, <3>2, <1>6 DEF HeightStep
    <3> QED
      BY <3>1, <3>2
  <2> QED
    BY <2>1, <1>1
<1> DEFINE h == CHOOSE f0 : f0 = [j \in 0..Len(order) |-> HeightStep(f0, j)]
<1>8. h = [j \in 0..Len(order) |-> HeightStep(h, j)]
  BY <1>7
<1>9. PipelineHeight = h[Len(order)]
  BY DEF PipelineHeight, HeightStep
<1> HIDE DEF h
<1>10. h[0] = SourceHeight /\ \A k \in 1..N : h[k] = OutputHeight(nodes[k].op, h[k - 1])
  <2>1. \A j \in 0..N : h[j] = HeightStep(h, j)
    BY <1>1, <1>8
  <2>2. 0 \in 0..N
    BY <1>1
  <2> QED
    BY <2>1, <2>2, <1>5, <1>6 DEF HeightStep
<1>11. \A j \in 0..N : h[j] \in Nat
  <2> DEFINE Q == {j \in 0..N : h[j] \in Nat}
  <2>1. 0 \in Q
    BY <1>1, <1>10, ExecutionAssumption
  <2>2. \A k \in 1..N : k - 1 \in Q => k \in Q
    BY <1>2, <1>5, <1>10
  <2> HIDE DEF Q
  <2>3. \A j \in 0..N : j \in Q
    BY <2>1, <2>2, <1>1, Upward
  <2> QED
    BY <2>3 DEF Q
<1>12. h \in [0..N -> Nat]
  <2>1. h = [j \in 0..N |-> h[j]]
    BY <1>1, <1>8
  <2> QED
    BY <2>1, <1>11
<1> QED
  BY <1>1, <1>9, <1>10, <1>12
-----------------------------------------------------------------------------
(* The sizes of compiled nodes, by their indices in the order.             *)

\* FitTogether, in indices.
Measured(heights, scales) ==
  /\ heights \in [0..N -> Nat] /\ scales \in [0..N -> Nat]
  /\ heights[0] = SourceHeight
  /\ \A k \in 1..N : \A s \in DOMAIN nodes[k].in :
       LET u == nodes[k].up[s]
       IN /\ heights[k] = OutputHeight(nodes[k].op, heights[u])
          /\ scales[u] = IF nodes[k].op.op = "shrink" THEN Factor * scales[k] ELSE scales[k]
          /\ IsView(nodes[k].op) => nodes[k].op.off + nodes[k].op.height <= heights[u]
  /\ N # 0 => scales[N] = 1
  /\ \A j \in 1..(N - 1) :
       \E m \in (j + 1)..N : \E s \in DOMAIN nodes[m].in : nodes[m].up[s] = j

\* Once a graph is compiled, sizes that fit together are told by index.
LEMMA SizedMeasured ==
  ASSUME BufferInv, Linked, SizedGraph(graph)
  PROVE  \E heights, scales : Measured(heights, scales)
<1>1. PICK height, scale \in [{0} \cup DOMAIN graph -> Nat] : FitTogether(graph, height, scale)
  BY DEF SizedGraph
<1> DEFINE hs == [j \in 0..N |-> height[NodeAt(j)]]
           sc == [j \in 0..N |-> scale[NodeAt(j)]]
<1>2. N \in Nat /\ N = Len(order)
  BY DEF Linked
<1>3. \A j \in 0..N : NodeAt(j) \in {0} \cup GraphNodes /\ (j # 0 => NodeAt(j) = order[j])
  <2> SUFFICES ASSUME NEW j \in 0..N, j # 0 PROVE NodeAt(j) \in GraphNodes /\ NodeAt(j) = order[j]
    BY DEF NodeAt
  <2>1. j \in 1..N
    BY <1>2
  <2> QED
    BY <2>1 DEF Linked, NodeAt
<1>4. /\ hs \in [0..N -> Nat] /\ sc \in [0..N -> Nat]
      /\ \A j \in 0..N : hs[j] = height[NodeAt(j)] /\ sc[j] = scale[NodeAt(j)]
  BY <1>1, <1>3 DEF GraphNodes
<1> HIDE DEF hs, sc
<1>5. hs[0] = SourceHeight
  <2>1. 0 \in 0..N /\ NodeAt(0) = 0
    BY <1>2 DEF NodeAt
  <2> QED
    BY <2>1, <1>1, <1>4 DEF FitTogether
<1>6. ASSUME NEW k \in 1..N, NEW s \in DOMAIN nodes[k].in
      PROVE  LET u == nodes[k].up[s]
             IN /\ hs[k] = OutputHeight(nodes[k].op, hs[u])
                /\ sc[u] = IF nodes[k].op.op = "shrink" THEN Factor * sc[k] ELSE sc[k]
                /\ IsView(nodes[k].op) => nodes[k].op.off + nodes[k].op.height <= hs[u]
  <2> DEFINE u == nodes[k].up[s]
             n == order[k]
  <2>1. n \in GraphNodes /\ nodes[k].op = graph[n] /\ s \in DOMAIN graph[n].in
    BY DEF Linked
  <2>2. u \in 0..N /\ graph[n].in[s] = NodeAt(u)
    BY SlotFacts, Zenon
  <2>3. k \in 0..N /\ NodeAt(k) = n
    BY <1>2 DEF NodeAt
  <2>4. hs[k] = height[n] /\ sc[k] = scale[n] /\ hs[u] = height[graph[n].in[s]]
        /\ sc[u] = scale[graph[n].in[s]]
    BY <2>2, <2>3, <1>4
  <2>5. /\ height[n] = OutputHeight(graph[n], height[graph[n].in[s]])
        /\ scale[graph[n].in[s]] = IF graph[n].op = "shrink" THEN Factor * scale[n] ELSE scale[n]
        /\ IsView(graph[n]) => graph[n].off + graph[n].height <= height[graph[n].in[s]]
    BY <2>1, <1>1 DEF FitTogether, GraphNodes
  <2> QED
    BY <2>1, <2>4, <2>5
<1>7. ASSUME N # 0
      PROVE  /\ sc[N] = 1
             /\ \A j \in 1..(N - 1) :
                  \E m \in (j + 1)..N : \E s \in DOMAIN nodes[m].in : nodes[m].up[s] = j
  <2>1. graph # <<>>
    <3>1. 1 \in 1..N
      BY <1>2, <1>7
    <3>2. order[1] \in DOMAIN graph
      BY <3>1 DEF Linked, GraphNodes
    <3>3. DOMAIN <<>> = {}
      OBVIOUS
    <3> QED
      BY <3>2, <3>3
  <2>2. PICK end \in GraphNodes :
          /\ scale[end] = 1
          /\ \A n \in GraphNodes \ {end} : \E m \in GraphNodes :
                \E s \in DOMAIN graph[m].in : graph[m].in[s] = n
    BY <2>1, <1>1 DEF FitTogether, GraphNodes
  <2>3. ASSUME NEW j \in 1..N, order[j] # end
        PROVE  \E m \in (j + 1)..N : \E s \in DOMAIN nodes[m].in : nodes[m].up[s] = j
    <3>1. order[j] \in GraphNodes \ {end}
      BY <2>3 DEF Linked
    <3>2. PICK n \in GraphNodes : \E s \in DOMAIN graph[n].in : graph[n].in[s] = order[j]
      BY <3>1, <2>2
    <3>3. PICK s \in DOMAIN graph[n].in : graph[n].in[s] = order[j]
      BY <3>2
    <3>4. PICK m \in 1..N : order[m] = n
      BY DEF Linked
    <3>5. s \in DOMAIN nodes[m].in
      BY <3>4 DEF Linked
    <3>6. nodes[m].up[s] \in 0..(m - 1) /\ nodes[m].up[s] \in 0..N
          /\ graph[order[m]].in[s] = NodeAt(nodes[m].up[s])
      BY <3>5, SlotFacts, Zenon
    <3>7. NodeAt(nodes[m].up[s]) = order[j]
      BY <3>3, <3>4, <3>6
    <3>8. j \in 0..N /\ NodeAt(j) = order[j]
      BY <1>2 DEF NodeAt
    <3>9. nodes[m].up[s] = j
      <4> DEFINE u == nodes[m].up[s]
      <4>1. u \in 0..N /\ NodeAt(u) = NodeAt(j)
        BY <3>6, <3>7, <3>8
      <4> HIDE DEF u
      <4>2. u = j
        BY <4>1, <3>8, NodeAtOneToOne, Zenon
      <4> QED
        BY <4>2 DEF u
    <3>10. m \in (j + 1)..N
      BY <3>6, <3>9, <1>2
    <3> QED
      BY <3>5, <3>9, <3>10
  <2>4. order[N] = end
    <3>1. N \in 1..N /\ (N + 1)..N = {}
      BY <1>2, <1>7
    <3> QED
      BY <3>1, <2>3
  <2>5. sc[N] = 1
    <3>1. N \in 0..N /\ NodeAt(N) = order[N]
      BY <1>2, <1>7 DEF NodeAt
    <3> QED
      BY <3>1, <2>2, <2>4, <1>4
  <2>6. ASSUME NEW j \in 1..(N - 1) PROVE j \in 1..N /\ order[j] # end
    <3>1. j \in 1..N /\ N \in 1..N /\ j # N
      BY <1>2
    <3> QED
      BY <3>1, <2>4 DEF Linked
  <2>7. ASSUME NEW j \in 1..(N - 1)
        PROVE  \E m \in (j + 1)..N : \E s \in DOMAIN nodes[m].in : nodes[m].up[s] = j
    <3>1. j \in 1..N /\ order[j] # end
      BY <2>6
    <3> QED
      BY <3>1, <2>3, Zenon
  <2> QED
    BY <2>5, <2>7
<1>8. N = 0 => 1..(N - 1) = {}
  BY <1>2
<1>9. Measured(hs, sc)
  <2>1. \A j \in 1..(N - 1) :
          \E m \in (j + 1)..N : \E s \in DOMAIN nodes[m].in : nodes[m].up[s] = j
    BY <1>7, <1>8
  <2>2. N # 0 => sc[N] = 1
    BY <1>7
  <2>3. \A k \in 1..N : \A s \in DOMAIN nodes[k].in :
          LET u == nodes[k].up[s]
          IN /\ hs[k] = OutputHeight(nodes[k].op, hs[u])
             /\ sc[u] = IF nodes[k].op.op = "shrink" THEN Factor * sc[k] ELSE sc[k]
             /\ IsView(nodes[k].op) => nodes[k].op.off + nodes[k].op.height <= hs[u]
    BY <1>6
  <2> QED
    BY <2>1, <2>2, <2>3, <1>4, <1>5, Zenon DEF Measured
<1> QED
  BY <1>9

\* What is measured is typed, slot by slot.
LEMMA MeasuredFacts ==
  ASSUME Linked, NEW hs, NEW sc, Measured(hs, sc)
  PROVE  /\ N \in Nat
         /\ \A j \in 0..N : hs[j] \in Nat /\ sc[j] \in Nat
         /\ \A k \in 1..N : \A s \in DOMAIN nodes[k].in :
              LET u == nodes[k].up[s]
              IN /\ u \in 0..(k - 1) /\ u \in 0..N /\ hs[u] \in Nat /\ sc[u] \in Nat
                 /\ hs[k] = OutputHeight(nodes[k].op, hs[u])
                 /\ sc[u] = IF nodes[k].op.op = "shrink" THEN 2 * sc[k] ELSE sc[k]
                 /\ IsView(nodes[k].op) => nodes[k].op.off + nodes[k].op.height <= hs[u]
<1>1. N \in Nat
  BY DEF Linked
<1>2. \A j \in 0..N : hs[j] \in Nat /\ sc[j] \in Nat
  BY DEF Measured
<1>3. ASSUME NEW k \in 1..N, NEW s \in DOMAIN nodes[k].in
      PROVE  nodes[k].up[s] \in 0..(k - 1) /\ nodes[k].up[s] \in 0..N
  BY SlotFacts, Zenon
<1>4. \A k \in 1..N : \A s \in DOMAIN nodes[k].in :
        LET u == nodes[k].up[s]
        IN /\ hs[k] = OutputHeight(nodes[k].op, hs[u])
           /\ sc[u] = IF nodes[k].op.op = "shrink" THEN Factor * sc[k] ELSE sc[k]
           /\ IsView(nodes[k].op) => nodes[k].op.off + nodes[k].op.height <= hs[u]
  BY Zenon DEF Measured
<1>5. Factor = 2
  BY DEF Factor
<1> QED
  BY <1>1, <1>2, <1>3, <1>4, <1>5, Zenon

\* What an operation does to a height.
LEMMA OutputHeightFacts ==
  ASSUME Undisturbed, NEW k \in 1..N, NEW a \in Nat, NEW b \in Nat, a <= b
  PROVE  /\ OutputHeight(nodes[k].op, a) <= OutputHeight(nodes[k].op, b)
         /\ IsTransform(k) => OutputHeight(nodes[k].op, a) <= a
         /\ nodes[k].op.op \in {"point", "join", "halo"} => OutputHeight(nodes[k].op, a) = a
         /\ nodes[k].op.op = "shrink" => OutputHeight(nodes[k].op, a) = a \div 2
         /\ nodes[k].op.op = "view" => OutputHeight(nodes[k].op, a) = nodes[k].op.height
<1>1. nodes[k].op.op \in {"point", "join", "halo", "shrink", "view"}
      /\ (nodes[k].op.op = "view" => nodes[k].op.height \in Nat)
  BY DEF Undisturbed, IsView
<1>2. \A x : /\ nodes[k].op.op \in {"point", "join", "halo"} => OutputHeight(nodes[k].op, x) = x
             /\ nodes[k].op.op = "shrink" => OutputHeight(nodes[k].op, x) = x \div 2
             /\ nodes[k].op.op = "view" => OutputHeight(nodes[k].op, x) = nodes[k].op.height
  BY DEF OutputHeight, Factor
<1>3. a \div 2 <= b \div 2 /\ a \div 2 <= a
  OBVIOUS
<1> QED
  BY <1>1, <1>2, <1>3 DEF IsTransform, IsView

\* The image is not higher than its last node: each height of the chain is covered by
\* one of a node that is still to be read, or is the last.
LEMMA ImageNotHigher ==
  ASSUME Linked, Undisturbed, NEW hs, NEW sc, Measured(hs, sc)
  PROVE  PipelineHeight <= hs[N]
<1> DEFINE ReadAfter(i, j) ==
             \E m \in (j + 1)..N : \E s \in DOMAIN nodes[m].in : nodes[m].up[s] = i
<1>1. N \in Nat
  BY DEF Linked
<1>2. PICK h \in [0..N -> Nat] : /\ PipelineHeight = h[N]
                                 /\ h[0] = SourceHeight
                                 /\ \A k \in 1..N : h[k] = OutputHeight(nodes[k].op, h[k - 1])
  BY HeightsOfOrder
<1> DEFINE Q == {j \in 0..N : \E i \in 0..j : (i = N \/ ReadAfter(i, j)) /\ h[j] <= hs[i]}
<1>3. \A k \in 1..N : 1 \in DOMAIN nodes[k].in
  BY DEF Undisturbed
<1>4. \A j \in 1..N : j = N \/ ReadAfter(j, j)
  <2>1. \A j \in 1..N : j = N \/ j \in 1..(N - 1)
    BY <1>1
  <2> QED
    BY <2>1 DEF Measured
<1>5. 0 \in Q
  <2>1. 0 = N \/ ReadAfter(0, 0)
    <3> SUFFICES ASSUME N # 0 PROVE ReadAfter(0, 0)
      OBVIOUS
    <3>1. 1 \in 1..N /\ 1 \in (0 + 1)..N /\ 0..(1 - 1) = {0}
      BY <1>1
    <3>2. nodes[1].up[1] \in 0..(1 - 1)
      BY <3>1, <1>3, MeasuredFacts, Zenon
    <3>3. nodes[1].up[1] = 0
      BY <3>1, <3>2
    <3> QED
      BY <3>1, <3>3, <1>3
  <2>2. h[0] <= hs[0] /\ 0 \in 0..N /\ 0 \in 0..0
    BY <1>1, <1>2, ExecutionAssumption DEF Measured
  <2> QED
    BY <2>1, <2>2
<1>6. ASSUME NEW j \in 1..N, j - 1 \in Q PROVE j \in Q
  <2>1. j - 1 \in 0..N /\ j \in 0..N /\ j \in 0..j
    BY <1>1
  <2>2. PICK i \in 0..(j - 1) : (i = N \/ ReadAfter(i, j - 1)) /\ h[j - 1] <= hs[i]
    BY <1>6
  <2>3. i # N /\ i \in 0..N /\ i \in 0..j
    BY <1>1
  <2>4. PICK m \in ((j - 1) + 1)..N : \E s \in DOMAIN nodes[m].in : nodes[m].up[s] = i
    BY <2>2, <2>3
  <2>5. m = j \/ m \in (j + 1)..N
    BY <1>1
  <2>6. h[j] = OutputHeight(nodes[j].op, h[j - 1]) /\ h[j - 1] \in Nat /\ hs[i] \in Nat /\ hs[j] \in Nat
    BY <2>1, <2>3, <1>2 DEF Measured
  <2>7. CASE m = j
    <3>1. PICK s \in DOMAIN nodes[j].in : nodes[j].up[s] = i
      BY <2>4, <2>7
    <3>2. hs[j] = OutputHeight(nodes[j].op, hs[i])
      BY <3>1, MeasuredFacts, Zenon
    <3>3. h[j] <= hs[j]
      BY <3>2, <2>2, <2>6, OutputHeightFacts
    <3> QED
      BY <3>3, <2>1, <1>4
  <2>8. CASE m # j /\ IsTransform(j)
    <3>1. ReadAfter(i, j)
      BY <2>4, <2>5, <2>8
    <3>2. h[j] <= h[j - 1] /\ h[j] \in Nat
      <4>1. h[j - 1] <= h[j - 1]
        BY <2>6
      <4>2. h[j] <= h[j - 1]
        BY <4>1, <2>6, <2>8, OutputHeightFacts
      <4> QED
        BY <4>2, <1>2, <2>1
    <3>3. h[j] <= hs[i]
      BY <3>2, <2>2, <2>6
    <3> QED
      BY <3>1, <3>3, <2>1, <2>3
  <2>9. CASE ~IsTransform(j)
    <3>1. h[j] = nodes[j].op.height
      BY <2>6, <2>9 DEF IsTransform, IsView, OutputHeight
    <3>2. hs[j] = OutputHeight(nodes[j].op, hs[nodes[j].up[1]])
      BY <1>3, MeasuredFacts, Zenon
    <3>3. h[j] = hs[j]
      BY <3>1, <3>2, <2>9 DEF IsTransform, IsView, OutputHeight
    <3>4. h[j] <= hs[j]
      BY <3>3, <2>6
    <3> QED
      BY <3>4, <2>1, <1>4
  <2> QED
    BY <2>7, <2>8, <2>9
<1> HIDE DEF Q
<1>7. N \in Q
  <2>1. \A j \in 0..N : j \in Q
    BY <1>1, <1>5, <1>6, Upward
  <2> QED
    BY <2>1, <1>1
<1>8. PICK i \in 0..N : (i = N \/ ReadAfter(i, N)) /\ h[N] <= hs[i]
  BY <1>7 DEF Q
<1>9. (N + 1)..N = {}
  BY <1>1
<1> QED
  BY <1>2, <1>8, <1>9
-----------------------------------------------------------------------------
(* What compile finds a tile to ask of the buffers.                        *)

BufferRegions == [0..maxBuf -> Regions]

\* What the buffers are asked for before node k, when they are asked for bufs after it.
AskBuffers(k, bufs) ==
  LET n    == nodes[k]
      out  == bufs[n.out]
      Need(s) == IF n.in[s] = 0 /\ n.up[s] = 0
                 THEN SourceReadPlan(n.op, out).region
                 ELSE RequiredRegion(n.op, out)
      Join(b) == LET T == {s \in DOMAIN n.in : n.in[s] = b}
                 IN IF T = {} THEN bufs[b]
                    ELSE UnionRegion(bufs[b], Need(Min(T)))
  IN IF out.h = 0 THEN bufs ELSE [b \in 0..maxBuf |-> Join(b)]

LastAsk(r) == [b \in 0..maxBuf |-> IF b = maxBuf THEN r ELSE Region(0, 0)]

BackStep(f, k, r) == IF k = N + 1 THEN LastAsk(r) ELSE AskBuffers(k, f[k + 1])

Back(r) == CHOOSE f : f = [k \in 1..(N + 1) |-> BackStep(f, k, r)]

\* compile's regions are what going back to the first index finds.
LEMMA TileRegionsAre == \A r : TileRegions(r) = Back(r)[1]
BY DEF TileRegions, Back, BackStep, LastAsk, AskBuffers, N

\* The buffers a compiled node reads and writes.
LEMMA BufferFacts ==
  ASSUME Linked, Undisturbed, NEW k \in 1..N
  PROVE  /\ nodes[k].out \in 0..maxBuf
         /\ IsTransform(k) => nodes[k].out \in 1..maxBuf
         /\ \A s \in DOMAIN nodes[k].in : nodes[k].in[s] \in 0..maxBuf
<1>1. N \in Nat /\ maxBuf \in Nat
  BY DEF Linked
<1>2. \A j \in 1..N : IsTransform(j) => nodes[j].out \in 1..maxBuf
  BY DEF Linked
<1>3. ASSUME NEW s \in DOMAIN nodes[k].in PROVE nodes[k].in[s] \in 0..maxBuf
  <2> DEFINE p == nodes[k].prod[s]
  <2>1. /\ p \in 0..(k - 1) /\ (p # 0 => IsTransform(p))
        /\ nodes[k].in[s] = IF p = 0 THEN 0 ELSE nodes[p].out
    BY SlotFacts, Zenon
  <2> HIDE DEF p
  <2>2. CASE p = 0
    BY <2>1, <2>2, <1>1
  <2>3. CASE p # 0
    <3>1. p \in 1..N
      BY <2>1, <2>3, <1>1
    <3>2. nodes[p].out \in 1..maxBuf
      BY <3>1, <2>1, <2>3, <1>2
    <3> QED
      BY <3>2, <2>1, <2>3, <1>1
  <2> QED
    BY <2>2, <2>3
<1>4. nodes[k].out \in 0..maxBuf
  <2>1. CASE IsTransform(k)
    BY <2>1, <1>1, <1>2
  <2>2. CASE ~IsTransform(k)
    <3>1. nodes[k].out = nodes[k].in[1] /\ DOMAIN nodes[k].in = {1}
      BY <2>2 DEF Linked, IsTransform
    <3> QED
      BY <3>1, <1>3
  <2> QED
    BY <2>1, <2>2
<1> QED
  BY <1>2, <1>3, <1>4

\* A node asks of the buffers it reads, and takes nothing back.
LEMMA AskBuffersFacts ==
  ASSUME Linked, Undisturbed, NEW k \in 1..N, NEW bufs \in BufferRegions
  PROVE  /\ AskBuffers(k, bufs) \in BufferRegions
         /\ \A b \in 0..maxBuf : Contains(AskBuffers(k, bufs)[b], bufs[b])
         /\ bufs[nodes[k].out].h # 0 =>
              \A s \in DOMAIN nodes[k].in :
                Contains(AskBuffers(k, bufs)[nodes[k].in[s]],
                         RequiredRegion(nodes[k].op, bufs[nodes[k].out]))
<1> DEFINE n    == nodes[k]
           out  == bufs[n.out]
           want == RequiredRegion(n.op, out)
           Slot(b) == {s \in DOMAIN n.in : n.in[s] = b}
           Join(b) == IF Slot(b) = {} THEN bufs[b] ELSE UnionRegion(bufs[b], want)
<1>1. out \in Regions /\ \A b \in 0..maxBuf : bufs[b] \in Regions
  BY BufferFacts DEF BufferRegions
<1>2. want \in Regions /\ SourceReadPlan(n.op, out).region = want
  <2>1. want \in Regions /\ SourceReadPlan(n.op, out) = RectPlan(want)
    BY <1>1, RequiredFacts
  <2> QED
    BY <2>1 DEF RectPlan
<1>3. AskBuffers(k, bufs) = IF out.h = 0 THEN bufs ELSE [b \in 0..maxBuf |-> Join(b)]
  BY <1>2 DEF AskBuffers
<1> HIDE DEF want
<1>4. \A b \in 0..maxBuf : Join(b) \in Regions /\ Contains(Join(b), bufs[b])
                           /\ (Slot(b) # {} => Contains(Join(b), want))
  <2> SUFFICES ASSUME NEW b \in 0..maxBuf
               PROVE  Join(b) \in Regions /\ Contains(Join(b), bufs[b])
                      /\ (Slot(b) # {} => Contains(Join(b), want))
    OBVIOUS
  <2>1. bufs[b] \in Regions
    BY <1>1
  <2>2. Contains(bufs[b], bufs[b])
    BY <2>1, ContainsFacts
  <2>3. /\ UnionRegion(bufs[b], want) \in Regions
        /\ Contains(UnionRegion(bufs[b], want), bufs[b])
        /\ Contains(UnionRegion(bufs[b], want), want)
    BY <2>1, <1>2, UnionFacts
  <2> QED
    BY <2>1, <2>2, <2>3
<1>5. \A s \in DOMAIN n.in : n.in[s] \in 0..maxBuf /\ s \in Slot(n.in[s])
  BY BufferFacts
<1>6. CASE out.h = 0
  <2>1. AskBuffers(k, bufs) = bufs
    BY <1>3, <1>6
  <2>2. \A b \in 0..maxBuf : Contains(bufs[b], bufs[b])
    BY <1>1, ContainsFacts
  <2> QED
    BY <2>1, <2>2, <1>6
<1>7. CASE out.h # 0
  <2>1. /\ AskBuffers(k, bufs) = [b \in 0..maxBuf |-> Join(b)]
        /\ \A b \in 0..maxBuf : AskBuffers(k, bufs)[b] = Join(b)
    BY <1>3, <1>7
  <2> HIDE DEF Join
  <2>2. AskBuffers(k, bufs) \in BufferRegions
    BY <2>1, <1>4 DEF BufferRegions
  <2>3. \A s \in DOMAIN n.in : Contains(AskBuffers(k, bufs)[n.in[s]], want)
    <3>1. \A s \in DOMAIN n.in : Slot(n.in[s]) # {}
      BY <1>5
    <3> QED
      BY <3>1, <2>1, <1>4, <1>5
  <2> QED
    BY <2>1, <2>2, <2>3, <1>4 DEF want
<1> QED
  BY <1>6, <1>7

\* What the buffers are asked for grows going back, and by what each node reads.
LEMMA BackFacts ==
  ASSUME Linked, Undisturbed, NEW r \in Regions
  PROVE  /\ \A k \in 1..(N + 1) : Back(r)[k] \in BufferRegions
         /\ Back(r)[N + 1] = LastAsk(r)
         /\ \A k \in 1..N : Back(r)[k] = AskBuffers(k, Back(r)[k + 1])
<1>1. N \in Nat /\ maxBuf \in Nat
  BY DEF Linked
<1>2. LastAsk(r) \in BufferRegions
  BY RegionFacts DEF LastAsk, BufferRegions
<1> DEFINE step == [kb \in (1..N) \X BufferRegions |-> AskBuffers(kb[1], kb[2])]
<1>3. /\ step \in [(1..N) \X BufferRegions -> BufferRegions]
      /\ \A k \in 1..N, bufs \in BufferRegions : step[<<k, bufs>>] = AskBuffers(k, bufs)
  BY AskBuffersFacts
<1> HIDE DEF step
<1>4. PICK f \in [1..(N + 1) -> BufferRegions] :
        f[N + 1] = LastAsk(r) /\ \A k \in 1..N : f[k] = step[<<k, f[k + 1]>>]
  <2>1. \E f \in [1..(N + 1) -> BufferRegions] : GoesDown(f, N, LastAsk(r), step)
    BY <1>1, <1>2, <1>3, StepsDown, Zenon
  <2> QED
    BY <2>1 DEF GoesDown
<1>5. \A k \in 1..N : k \in 1..(N + 1) /\ k + 1 \in 1..(N + 1) /\ k # N + 1
  BY <1>1
<1>6. \A k \in 1..N : f[k] = AskBuffers(k, f[k + 1])
  BY <1>3, <1>4, <1>5
<1>7. f = [k \in 1..(N + 1) |-> BackStep(f, k, r)]
  <2>1. \A k \in 1..(N + 1) : k = N + 1 \/ k \in 1..N
    BY <1>1
  <2>2. \A k \in 1..(N + 1) : f[k] = BackStep(f, k, r)
    BY <2>1, <1>4, <1>5, <1>6 DEF BackStep
  <2> QED
    BY <2>2
<1> DEFINE b == Back(r)
<1>8. b = [k \in 1..(N + 1) |-> BackStep(b, k, r)]
  BY <1>7 DEF Back
<1> HIDE DEF b
<1>9. b[N + 1] = LastAsk(r) /\ \A k \in 1..N : b[k] = AskBuffers(k, b[k + 1])
  <2>1. N + 1 \in 1..(N + 1)
    BY <1>1
  <2> QED
    BY <2>1, <1>5, <1>8 DEF BackStep
<1>10. \A k \in 1..(N + 1) : b[k] \in BufferRegions
  <2> DEFINE Q == {k \in 1..(N + 1) : b[k] \in BufferRegions}
  <2>1. N + 1 \in Q
    BY <1>1, <1>2, <1>9
  <2>2. \A k \in 1..N : k + 1 \in Q => k \in Q
    BY <1>5, <1>9, AskBuffersFacts
  <2> HIDE DEF Q
  <2>3. \A k \in 1..(N + 1) : k \in Q
    BY <2>1, <2>2, <1>1, Downward
  <2> QED
    BY <2>3 DEF Q
<1> QED
  BY <1>9, <1>10 DEF b

\* What a buffer is asked for before node j covers what it is asked for after.
LEMMA BackGrows ==
  ASSUME Linked, Undisturbed, NEW r \in Regions, NEW k \in 1..(N + 1), NEW j \in 1..k,
         NEW b \in 0..maxBuf
  PROVE  Contains(Back(r)[j][b], Back(r)[k][b])
<1>1. N \in Nat
  BY DEF Linked
<1> DEFINE B == Back(r)
<1>2. \A i \in 1..(N + 1) : B[i][b] \in Regions
  BY BackFacts DEF BufferRegions
<1>3. \A i \in 1..N : Contains(B[i][b], B[i + 1][b])
  <2> SUFFICES ASSUME NEW i \in 1..N PROVE Contains(B[i][b], B[i + 1][b])
    OBVIOUS
  <2>1. i + 1 \in 1..(N + 1)
    BY <1>1
  <2>2. B[i + 1] \in BufferRegions /\ B[i] = AskBuffers(i, B[i + 1])
    BY <2>1, BackFacts
  <2> QED
    BY <2>2, AskBuffersFacts
<1> HIDE DEF B
<1> DEFINE Q == {i \in 1..k : Contains(B[i][b], B[k][b])}
           n == k - 1
<1>4. n \in Nat /\ n + 1 = k
  BY <1>1
<1>5. n + 1 \in Q
  BY <1>2, <1>4, ContainsFacts
<1>6. ASSUME NEW i \in 1..n, i + 1 \in Q PROVE i \in Q
  <2>1. i \in 1..N /\ i \in 1..(N + 1) /\ i + 1 \in 1..(N + 1) /\ i \in 1..k
    BY <1>1
  <2>2. Contains(B[i][b], B[i + 1][b]) /\ Contains(B[i + 1][b], B[k][b])
    BY <2>1, <1>3, <1>6
  <2>3. Contains(B[i][b], B[k][b])
    BY <2>1, <2>2, <1>2, ContainsFacts
  <2> QED
    BY <2>1, <2>3
<1> HIDE DEF Q
<1>7. \A i \in 1..(n + 1) : i \in Q
  BY <1>4, <1>5, <1>6, Downward
<1>8. j \in Q
  BY <1>4, <1>7
<1> QED
  BY <1>8 DEF Q, B
-----------------------------------------------------------------------------
(* The buffers compile makes.                                              *)

\* A bounded set of numbers has a maximum.
LEMMA MaxBounded ==
  ASSUME NEW S \in SUBSET Nat, S # {}, NEW m \in Nat, \A n \in S : n <= m
  PROVE  Max(S) \in S /\ \A x \in S : x <= Max(S)
<1>1. \E x \in S : \A y \in S : x >= y
  <2>1. PICK n \in S : \A k \in S : k <= n
    BY GreatestOf
  <2> QED
    BY <2>1
<1>2. Max(S) \in S /\ \A y \in S : Max(S) >= y
  BY <1>1 DEF Max
<1> QED
  BY <1>2

\* Finitely many numbers have a bound.
LEMMA BoundOf ==
  ASSUME NEW n \in Nat, NEW f \in [0..n -> Nat]
  PROVE  \E m \in Nat : \A j \in 0..n : f[j] <= m
<1> DEFINE Q == {k \in 0..n : \E m \in Nat : \A j \in 0..k : f[j] <= m}
<1>1. 0 \in Q
  <2>1. 0 \in 0..n /\ f[0] \in Nat /\ 0..0 = {0} /\ f[0] <= f[0]
    OBVIOUS
  <2> QED
    BY <2>1
<1>2. ASSUME NEW k \in 1..n, k - 1 \in Q PROVE k \in Q
  <2>1. PICK m \in Nat : \A j \in 0..(k - 1) : f[j] <= m
    BY <1>2
  <2>2. k \in 0..n /\ f[k] \in Nat /\ m + f[k] \in Nat
    OBVIOUS
  <2>3. ASSUME NEW j \in 0..k PROVE f[j] <= m + f[k]
    <3>1. j \in 0..n /\ f[j] \in Nat /\ (j = k \/ j \in 0..(k - 1))
      OBVIOUS
    <3> QED
      BY <3>1, <2>1, <2>2
  <2> QED
    BY <2>2, <2>3
<1> HIDE DEF Q
<1>3. n \in Q
  <2>1. \A j \in 0..n : j \in Q
    BY <1>1, <1>2, Upward
  <2> QED
    BY <2>1
<1> QED
  BY <1>3 DEF Q

\* All that is written to a buffer, and a buffer that is free, has one format; the last
\* buffer is some node's.
FormatInv ==
  /\ \A j, k \in 1..Len(nodes) :
       Transform(order[j]) /\ Transform(order[k]) /\ outBuf[order[j]] = outBuf[order[k]]
         => graph[order[j]].fmt = graph[order[k]].fmt
  /\ \A f \in free : \A k \in 1..Len(nodes) :
       Transform(order[k]) /\ outBuf[order[k]] = f[1] => f[2] = graph[order[k]].fmt
  /\ maxBuf # 0 => \E k \in 1..Len(nodes) : Transform(order[k]) /\ outBuf[order[k]] = maxBuf

\* The buffers have room for what each tile asks of them.
Roomy ==
  /\ Tile <= sizes[0]
  /\ \A r \in TilesOf(PipelineHeight, Tile) :
       /\ TileRegions(r)[0].h <= sizes[0]
       /\ \A k \in 1..N : IsTransform(k) =>
            TileRegions(r)[nodes[k].out].h * FormatSize(nodes[k].op.fmt) <= sizes[nodes[k].out]

RoomInv ==
  /\ sizes \in [0..maxBuf -> Nat]
  /\ phase = "compiled" => Roomy

\* A transform goes to a new buffer, or to a free one of its format.
LEMMA TransformFormatInv ==
  ASSUME BufferInv, FormatInv, CompileTransform
  PROVE  FormatInv'
<1> USE DEF BufferInv
<1> DEFINE c == Len(nodes)
<1>0. PICK n \in GraphNodes, buf \in 1..(maxBuf + 1) :
        /\ IsNext(n)
        /\ ~IsView(graph[n])
        /\ IF Fitting(n) = {} THEN buf = maxBuf + 1 ELSE buf \in Fitting(n)
        /\ maxBuf' = IF buf > maxBuf THEN buf ELSE maxBuf
        /\ nodes' = Append(nodes, CompiledNode(n, buf))
        /\ outBuf' = [outBuf EXCEPT ![n] = buf]
        /\ free' = (free \ {<<buf, graph[n].fmt>>})
                   \cup {<<outBuf[o], graph[o].fmt>> : o \in Released(n)}
  BY DEF CompileTransform
<1>1. UNCHANGED <<graph, order>> /\ phase = "buffers"
  BY DEF CompileTransform
<1>2. maxBuf \in Nat /\ buf \in Nat /\ buf # 0 /\ (buf = maxBuf + 1 \/ buf <= maxBuf)
  <2>1. maxBuf \in Nat
    BY DEF CompileTypeOK
  <2> QED
    BY <2>1
<1>3. /\ c \in Nat /\ Len(nodes') = c + 1
      /\ order[c + 1] = n
      /\ \A k \in 1..c : order[k] # n /\ outBuf'[order[k]] = outBuf[order[k]]
      /\ outBuf'[n] = buf
  BY <1>0, <1>1, <1>2, AppendFacts
<1>4. Transform(n) /\ \A m : Transform(m)' <=> Transform(m)
  BY <1>0, <1>1 DEF Transform
<1>5. \A k \in 1..c : outBuf[order[k]] \in 0..maxBuf
  BY <1>3 DEF CompileTypeOK
<1>6. \A k \in 1..c : Transform(order[k]) /\ outBuf[order[k]] = buf
                        => graph[order[k]].fmt = graph[n].fmt
  <2>1. CASE Fitting(n) = {}
    <3>1. buf = maxBuf + 1
      BY <2>1, <1>0
    <3> QED
      BY <3>1, <1>2, <1>5
  <2>2. CASE Fitting(n) # {}
    <3>1. PICK f \in free : f[1] = buf /\ f[2] = graph[n].fmt
      BY <2>2, <1>0 DEF Fitting
    <3> QED
      BY <3>1 DEF FormatInv
  <2> QED
    BY <2>1, <2>2
<1>7. \A k \in 1..(c + 1) : k \in 1..c \/ k = c + 1
  BY <1>3
<1>8. \A j, k \in 1..(c + 1) :
        Transform(order[j]) /\ Transform(order[k]) /\ outBuf'[order[j]] = outBuf'[order[k]]
          => graph[order[j]].fmt = graph[order[k]].fmt
  <2> SUFFICES ASSUME NEW j \in 1..(c + 1), NEW k \in 1..(c + 1),
                      Transform(order[j]), Transform(order[k]), outBuf'[order[j]] = outBuf'[order[k]]
               PROVE  graph[order[j]].fmt = graph[order[k]].fmt
    OBVIOUS
  <2>1. CASE j \in 1..c /\ k \in 1..c
    BY <2>1, <1>3 DEF FormatInv
  <2>2. CASE j = c + 1 \/ k = c + 1
    BY <2>2, <1>3, <1>6, <1>7
  <2> QED
    BY <2>1, <2>2, <1>7
<1>9. ASSUME NEW o \in Released(n)
      PROVE  \E i \in 1..c : order[i] = o /\ Transform(o)
  <2>1. o \in GraphNodes /\ pending[o] # {} /\ pending[o] \subseteq ReadsBy(n)
    BY DEF Released
  <2>2. PICK r \in pending[o] : r \in Reads(graph) /\ r[1] = n
    BY <2>1 DEF ReadsBy, CompileTypeOK
  <2>3. OwnerRead(n, r[2]) = o /\ r[2] \in DOMAIN graph[n].in
    BY <2>1, <2>2 DEF PendingInv, Reads
  <2>4. o # 0
    BY <2>1, GraphFacts
  <2> QED
    BY <2>3, <2>4, <1>0, <1>1, InputFacts
<1>10. ASSUME NEW f \in free', NEW k \in 1..(c + 1), Transform(order[k]), outBuf'[order[k]] = f[1]
       PROVE  f[2] = graph[order[k]].fmt
  <2>1. CASE f \in free /\ f # <<buf, graph[n].fmt>>
    <3>1. k \in 1..c => f[2] = graph[order[k]].fmt
      BY <2>1, <1>3, <1>10 DEF FormatInv
    <3>2. k = c + 1 => FALSE
      <4> SUFFICES ASSUME k = c + 1 PROVE FALSE
        OBVIOUS
      <4>1. f[1] = buf /\ f[1] \in 1..maxBuf /\ f = <<f[1], f[2]>>
        BY <2>1, <1>3, <1>10 DEF CompileTypeOK
      <4>2. Fitting(n) # {}
        <5>1. buf # maxBuf + 1
          BY <4>1, <1>2
        <5> QED
          BY <5>1, <1>0
      <4>3. PICK g \in free : g[1] = buf /\ g[2] = graph[n].fmt
        BY <4>2, <1>0 DEF Fitting
      <4>4. g = f
        BY <4>1, <4>3, <2>1 DEF FreeInv
      <4> QED
        BY <4>1, <4>3, <4>4, <2>1
    <3> QED
      BY <3>1, <3>2, <1>7
  <2>2. ASSUME NEW o \in Released(n), f = <<outBuf[o], graph[o].fmt>>
        PROVE  f[2] = graph[order[k]].fmt
    <3>1. PICK i \in 1..c : order[i] = o /\ Transform(o)
      BY <1>9
    <3>2. outBuf'[order[i]] = outBuf'[order[k]] /\ f[2] = graph[order[i]].fmt /\ i \in 1..(c + 1)
      BY <3>1, <2>2, <1>3, <1>10
    <3> QED
      BY <3>1, <3>2, <1>8, <1>10
  <2> QED
    BY <2>1, <2>2, <1>0
<1>11. \E k \in 1..(c + 1) : Transform(order[k]) /\ outBuf'[order[k]] = maxBuf'
  <2>1. CASE buf > maxBuf
    <3>1. maxBuf' = buf /\ c + 1 \in 1..(c + 1)
      BY <2>1, <1>0, <1>3
    <3> QED
      BY <3>1, <1>3, <1>4
  <2>2. CASE ~(buf > maxBuf)
    <3>1. maxBuf' = maxBuf /\ maxBuf # 0
      BY <2>2, <1>0, <1>2
    <3>2. PICK k \in 1..c : Transform(order[k]) /\ outBuf[order[k]] = maxBuf
      BY <3>1 DEF FormatInv
    <3>3. k \in 1..(c + 1)
      BY <1>3
    <3> QED
      BY <3>1, <3>2, <3>3, <1>3
  <2> QED
    BY <2>1, <2>2
<1> QED
  BY <1>1, <1>3, <1>4, <1>8, <1>10, <1>11 DEF FormatInv

\* A view shares the buffer, and the format, of what it reads.
LEMMA ViewFormatInv ==
  ASSUME BufferInv, FormatInv, CompileView
  PROVE  FormatInv'
<1> DEFINE c == Len(nodes)
<1>1. PICK n \in GraphNodes :
        /\ IsNext(n)
        /\ IsView(graph[n])
        /\ nodes' = Append(nodes, CompiledNode(n, InputBuffer(n, 1)))
        /\ outBuf' = [outBuf EXCEPT ![n] = InputBuffer(n, 1)]
  BY DEF CompileView
<1>2. UNCHANGED <<graph, order, free, maxBuf>> /\ phase = "buffers"
  BY DEF CompileView
<1>3. InputBuffer(n, 1) \in Nat
  <2>1. 1 \in DOMAIN graph[n].in
    BY <1>1, GraphFacts DEF BufferInv
  <2>2. InputBuffer(n, 1) \in 0..maxBuf
    BY <2>1, <1>1, <1>2, InputFacts
  <2> QED
    BY <2>2 DEF BufferInv, CompileTypeOK
<1>4. /\ c \in Nat /\ Len(nodes') = c + 1
      /\ order[c + 1] = n
      /\ \A k \in 1..c : outBuf'[order[k]] = outBuf[order[k]]
  BY <1>1, <1>2, <1>3, AppendFacts
<1>5. ~Transform(n) /\ \A m : Transform(m)' <=> Transform(m)
  BY <1>1, <1>2 DEF Transform
<1>6. \A k \in 1..(c + 1) : k \in 1..c \/ k = c + 1
  BY <1>4
<1>7. \A k \in 1..(c + 1) : Transform(order[k]) => k \in 1..c
  BY <1>4, <1>5, <1>6
<1>8. \A k \in 1..c : k \in 1..(c + 1)
  BY <1>4
<1> QED
  BY <1>2, <1>4, <1>5, <1>7, <1>8 DEF FormatInv

\* Every step of compile keeps one format for every buffer.
LEMMA FormatInvInductive ==
  ASSUME BufferInv, FormatInv, [CompileNext]_compileVars
  PROVE  FormatInv'
<1>1. CASE Emit \/ FindOwner
  <2>1. nodes = <<>> /\ Len(nodes) = 0
    BY <1>1 DEF Emit, FindOwner, BufferInv, OrderInv
  <2>2. nodes' = nodes /\ maxBuf' = maxBuf
    BY <1>1 DEF Emit, FindOwner
  <2>3. 1..0 = {}
    OBVIOUS
  <2> QED
    BY <2>1, <2>2, <2>3 DEF FormatInv
<1>2. CASE SizeBuffers \/ UNCHANGED compileVars
  <2>1. UNCHANGED <<graph, order, nodes, outBuf, free, maxBuf>>
    BY <1>2 DEF SizeBuffers, compileVars
  <2> QED
    BY <2>1 DEF FormatInv, Transform
<1> QED
  BY <1>1, <1>2, TransformFormatInv, ViewFormatInv DEF CompileNext
-----------------------------------------------------------------------------
(* Every buffer holds what the largest tile asks of it.                    *)

\* The larger of a number and a bounded set of them.
LEMMA MaxOfMore ==
  ASSUME NEW a \in Nat, NEW T \in SUBSET Nat, NEW m \in Nat, \A x \in T : x <= m
  PROVE  Max({a} \cup T) \in Nat /\ a <= Max({a} \cup T) /\ \A x \in T : x <= Max({a} \cup T)
<1> DEFINE S == {a} \cup T
<1>1. S \in SUBSET Nat /\ S # {} /\ a + m \in Nat
  OBVIOUS
<1>2. \A n \in S : n <= a + m
  <2>1. \A n \in T : n \in Nat /\ n <= m
    OBVIOUS
  <2> QED
    BY <2>1
<1> HIDE DEF S
<1>3. Max(S) \in S /\ \A x \in S : x <= Max(S)
  BY <1>1, <1>2, MaxBounded, Zenon
<1>4. a \in S /\ \A x \in T : x \in S
  BY DEF S
<1>5. Max(S) \in Nat /\ a <= Max(S) /\ \A x \in T : x <= Max(S)
  BY <1>1, <1>3, <1>4
<1> QED
  BY <1>5 DEF S

\* The height tiles are compiled for is a number.
LEMMA TileTyped == Tile \in Nat
BY ExecutionAssumption DEF Tile

\* A sample takes one byte or two.
LEMMA FormatSizes == \A fmt : FormatSize(fmt) \in 1..2
BY DEF FormatSize

\* A transform makes the buffer it goes to no smaller.
LEMMA TransformRoomInv ==
  ASSUME BufferInv, ShapeInv, RoomInv, CompileTransform
  PROVE  RoomInv'
<1>0. PICK n \in GraphNodes, buf \in 1..(maxBuf + 1) :
          LET spec   == InputTileHeight(graph[n], Tile)
              needed == [s \in DOMAIN graph[n].in |-> spec * FormatSize(InputFormat(n, s))]
              sized  == [b \in DOMAIN sizes |->
                           Max({sizes[b]} \cup
                               {needed[s] : s \in {s \in DOMAIN needed : InputBuffer(n, s) = b}})]
          IN sizes' = [Grown(sized, buf) EXCEPT ![buf] = Tile * FormatSize(graph[n].fmt)]
  BY DEF CompileTransform
<1> DEFINE spec   == InputTileHeight(graph[n], Tile)
           needed == [s \in DOMAIN graph[n].in |-> spec * FormatSize(InputFormat(n, s))]
           more(b) == {needed[s] : s \in {s \in DOMAIN needed : InputBuffer(n, s) = b}}
           sized  == [b \in DOMAIN sizes |-> Max({sizes[b]} \cup more(b))]
<1>1. /\ sizes' = [Grown(sized, buf) EXCEPT ![buf] = Tile * FormatSize(graph[n].fmt)]
  BY <1>0
<1>2. phase' # "compiled"
  BY DEF CompileTransform
<1>3. DOMAIN sizes' = 0..maxBuf'
  <2>1. ShapeInv'
    BY ShapeInvInductive DEF CompileNext
  <2> QED
    BY <2>1 DEF ShapeInv
<1>4. spec \in Nat
  <2>1. /\ Tile \in Nat /\ Tile + 2 \in Nat
        /\ (IF Tile = 0 THEN 0 ELSE 2 * Tile - (2 - 1)) \in Nat
    BY TileTyped
  <2>2. spec \in {Tile + 2, IF Tile = 0 THEN 0 ELSE 2 * Tile - (2 - 1), Tile}
    BY DEF InputTileHeight, Factor
  <2> QED
    BY <2>1, <2>2
<1> HIDE DEF spec
<1>5. \A s \in DOMAIN needed : needed[s] \in Nat /\ needed[s] <= 2 * spec
  <2> SUFFICES ASSUME NEW s \in DOMAIN graph[n].in PROVE needed[s] \in Nat /\ needed[s] <= 2 * spec
    OBVIOUS
  <2>1. needed[s] = spec * FormatSize(InputFormat(n, s))
    OBVIOUS
  <2>2. FormatSize(InputFormat(n, s)) = 1 \/ FormatSize(InputFormat(n, s)) = 2
    BY FormatSizes
  <2> QED
    BY <2>1, <2>2, <1>4
<1> HIDE DEF needed
<1>6. ASSUME NEW b \in DOMAIN sizes PROVE sized[b] \in Nat
  <2>1. more(b) \in SUBSET Nat /\ \A x \in more(b) : x <= 2 * spec
    BY <1>5
  <2>2. sizes[b] \in Nat /\ 2 * spec \in Nat
    BY <1>4 DEF RoomInv
  <2> HIDE DEF more
  <2>3. Max({sizes[b]} \cup more(b)) \in Nat
    BY <2>1, <2>2, MaxOfMore
  <2> QED
    BY <2>3
<1>7. DOMAIN sized = DOMAIN sizes
  OBVIOUS
<1> HIDE DEF sized
<1>8. Tile * FormatSize(graph[n].fmt) \in Nat
  <2>1. FormatSize(graph[n].fmt) = 1 \/ FormatSize(graph[n].fmt) = 2
    BY FormatSizes
  <2> QED
    BY <2>1, TileTyped
<1> DEFINE g == Grown(sized, buf)
<1>9. g \in [(DOMAIN sizes) \cup {buf} -> Nat]
  BY <1>6, <1>7 DEF Grown
<1> HIDE DEF g
<1>10. sizes' \in [(DOMAIN sizes) \cup {buf} -> Nat]
  BY <1>1, <1>8, <1>9 DEF g
<1>11. sizes' \in [0..maxBuf' -> Nat]
  BY <1>3, <1>10
<1> QED
  BY <1>2, <1>11 DEF RoomInv

\* What is asked of a buffer over all the tiles has a bound.
LEMMA TilesBounded ==
  ASSUME Linked, Undisturbed, NEW b \in 0..maxBuf
  PROVE  /\ \A r \in TilesOf(PipelineHeight, Tile) :
              r \in Regions /\ TileRegions(r) \in BufferRegions /\ TileRegions(r)[b].h \in Nat
         /\ \E m \in Nat : \A r \in TilesOf(PipelineHeight, Tile) : TileRegions(r)[b].h <= m
<1>1. N \in Nat /\ PipelineHeight \in Nat /\ Tile \in Nat
  BY HeightFacts, TileTyped DEF Linked
<1>2. ASSUME NEW r \in TilesOf(PipelineHeight, Tile)
      PROVE  r \in Regions /\ TileRegions(r) \in BufferRegions /\ TileRegions(r)[b].h \in Nat
  <2>1. Tile \in Nat \ {0}
    BY <1>1, <1>2 DEF TilesOf
  <2>2. r \in Regions
    BY <2>1, <1>1, TileFacts
  <2>3. Back(r)[1] \in BufferRegions
    <3>1. 1 \in 1..(N + 1)
      BY <1>1
    <3> QED
      BY <3>1, <2>2, BackFacts
  <2>4. TileRegions(r) \in BufferRegions
    BY <2>3, TileRegionsAre
  <2>5. TileRegions(r)[b] \in Regions
    BY <2>4 DEF BufferRegions
  <2> QED
    BY <2>2, <2>4, <2>5, RegionFacts
<1>3. CASE PipelineHeight = 0 \/ Tile = 0
  BY <1>2, <1>3 DEF TilesOf
<1>4. CASE ~(PipelineHeight = 0 \/ Tile = 0)
  <2> DEFINE q == (PipelineHeight - 1) \div Tile
             TileNo(j) == Region(j * Tile, Min({Tile, PipelineHeight - j * Tile}))
             f == [j \in 0..q |-> TileRegions(TileNo(j))[b].h]
  <2>1. q \in Nat
    BY <1>1, <1>4
  <2>2. TilesOf(PipelineHeight, Tile) = {TileNo(j) : j \in 0..q}
    <3>1. TilesOf(PipelineHeight, Tile) =
            {Region(y, Min({Tile, PipelineHeight - y})) : y \in {j * Tile : j \in 0..q}}
      BY <1>4 DEF TilesOf
    <3> HIDE DEF q
    <3> QED
      BY <3>1
  <2> HIDE DEF q, TileNo
  <2>3. f \in [0..q -> Nat]
    BY <2>2, <1>2
  <2>4. \A j \in 0..q : f[j] = TileRegions(TileNo(j))[b].h
    OBVIOUS
  <2> HIDE DEF f
  <2>5. PICK m \in Nat : \A j \in 0..q : f[j] <= m
    BY <2>1, <2>3, BoundOf
  <2>6. \A r \in TilesOf(PipelineHeight, Tile) : TileRegions(r)[b].h <= m
    BY <2>2, <2>4, <2>5
  <2> QED
    BY <2>6, <1>2
<1> QED
  BY <1>3, <1>4

\* The region a chain reads has a height.
LEMMA ChainTyped ==
  ASSUME Linked, Undisturbed
  PROVE  ChainSourceRegion.h \in Nat
<1>1. N \in Nat
  BY DEF Linked
<1>2. Region(0, Tile) \in Regions
  BY TileTyped, RegionFacts
<1> DEFINE step == [kr \in (1..N) \X Regions |-> RequiredRegion(nodes[kr[1]].op, kr[2])]
<1>3. /\ step \in [(1..N) \X Regions -> Regions]
      /\ \A k \in 1..N, r \in Regions : step[<<k, r>>] = RequiredRegion(nodes[k].op, r)
  BY RequiredFacts
<1> HIDE DEF step
<1>4. PICK f \in [1..(N + 1) -> Regions] :
        f[N + 1] = Region(0, Tile) /\ \A k \in 1..N : f[k] = step[<<k, f[k + 1]>>]
  <2>1. \E f \in [1..(N + 1) -> Regions] : GoesDown(f, N, Region(0, Tile), step)
    BY <1>1, <1>2, <1>3, StepsDown, Zenon
  <2> QED
    BY <2>1 DEF GoesDown
<1> DEFINE ChainStep(g, k) == IF k = N + 1 THEN Region(0, Tile)
                              ELSE RequiredRegion(nodes[k].op, g[k + 1])
<1>5. \A k \in 1..N : k \in 1..(N + 1) /\ k + 1 \in 1..(N + 1) /\ k # N + 1
  BY <1>1
<1>6. f = [k \in 1..(N + 1) |-> ChainStep(f, k)]
  <2>1. \A k \in 1..(N + 1) : k = N + 1 \/ k \in 1..N
    BY <1>1
  <2>2. \A k \in 1..N : f[k] = RequiredRegion(nodes[k].op, f[k + 1])
    BY <1>3, <1>4, <1>5
  <2>3. \A k \in 1..(N + 1) : f[k] = ChainStep(f, k)
    BY <2>1, <2>2, <1>4, <1>5
  <2> HIDE DEF ChainStep
  <2> QED
    BY <2>3
<1> DEFINE b == CHOOSE g : g = [k \in 1..(N + 1) |-> ChainStep(g, k)]
<1>7. ChainSourceRegion = b[1]
  BY DEF ChainSourceRegion, N
<1>8. b = [k \in 1..(N + 1) |-> ChainStep(b, k)]
  <2> HIDE DEF ChainStep
  <2> QED
    BY <1>6
<1> HIDE DEF b
<1> DEFINE Q == {k \in 1..(N + 1) : b[k] \in Regions}
<1>9. N + 1 \in Q
  <2>1. N + 1 \in 1..(N + 1)
    BY <1>1
  <2>2. b[N + 1] = Region(0, Tile)
    BY <2>1, <1>8
  <2> QED
    BY <2>1, <2>2, <1>2
<1>10. ASSUME NEW k \in 1..N, k + 1 \in Q PROVE k \in Q
  <2>1. b[k] = RequiredRegion(nodes[k].op, b[k + 1])
    BY <1>5, <1>8
  <2>2. b[k + 1] \in Regions
    BY <1>10
  <2>3. b[k] \in Regions
    BY <2>1, <2>2, RequiredFacts
  <2> QED
    BY <2>3, <1>5
<1> HIDE DEF Q
<1>11. 1 \in Q
  <2>1. \A k \in 1..(N + 1) : k \in Q
    BY <1>1, <1>9, <1>10, Downward
  <2> QED
    BY <2>1, <1>1
<1>12. b[1] \in Regions
  BY <1>11 DEF Q
<1> QED
  BY <1>7, <1>12, RegionFacts
-----------------------------------------------------------------------------
\* compile leaves every buffer as large as the largest tile asks.
LEMMA SizeBuffersRoomInv ==
  ASSUME BufferInv, ShapeInv, FormatInv, RoomInv, SoundGraph(graph), SizeBuffers
  PROVE  RoomInv'
<1> DEFINE Tiles      == TilesOf(PipelineHeight, Tile)
           regions(b) == {TileRegions(r)[b].h : r \in Tiles}
           writers(b) == {k \in DOMAIN nodes : ~IsView(nodes[k].op) /\ nodes[k].out = b}
           fmt(b)     == IF b = 0 THEN "u8" ELSE graph[order[Max(writers(b))]].fmt
           more       == {sizes[0], Tile, ChainSourceRegion.h}
           base(b)    == IF b = 0 THEN Max(more) ELSE sizes[b]
           asked(b)   == {h * FormatSize(fmt(b)) : h \in regions(b)}
<1>1. /\ sizes' = [b \in DOMAIN sizes |-> Max({base(b)} \cup asked(b))]
      /\ UNCHANGED <<graph, order, nodes, maxBuf>> /\ phase = "buffers"
      /\ Len(nodes) = Len(order)
  BY DEF SizeBuffers
<1>2. Linked /\ Undisturbed
  <2>1. Linked
    BY <1>1, CompiledLinked
  <2> QED
    BY <2>1, SoundUndisturbed
<1>3. N \in Nat /\ maxBuf \in Nat /\ DOMAIN nodes = 1..N /\ DOMAIN sizes = 0..maxBuf
      /\ \A b \in 0..maxBuf : sizes[b] \in Nat
  BY <1>2 DEF Linked, BufferInv, CompileTypeOK, N, RoomInv
<1>4. Max(more) \in Nat /\ Tile <= Max(more)
  <2>1. sizes[0] \in Nat /\ Tile \in Nat /\ ChainSourceRegion.h \in Nat
    BY <1>2, <1>3, TileTyped, ChainTyped
  <2> DEFINE a == sizes[0]
             c == ChainSourceRegion.h
             T == {Tile, c}
  <2>2. T \in SUBSET Nat /\ Tile + c \in Nat /\ \A x \in T : x <= Tile + c
    BY <2>1
  <2>3. more = {a} \cup T /\ Tile \in T
    OBVIOUS
  <2> HIDE DEF T, more
  <2>4. Max({a} \cup T) \in Nat /\ \A x \in T : x <= Max({a} \cup T)
    BY <2>1, <2>2, MaxOfMore
  <2> QED
    BY <2>3, <2>4
<1> HIDE DEF more
<1>5. ASSUME NEW b \in 0..maxBuf
      PROVE  /\ sizes'[b] \in Nat
             /\ base(b) <= sizes'[b]
             /\ \A r \in Tiles : TileRegions(r)[b].h * FormatSize(fmt(b)) <= sizes'[b]
  <2>1. PICK m \in Nat : \A r \in Tiles : TileRegions(r)[b].h <= m
    BY <1>2, TilesBounded
  <2>2. \A r \in Tiles : TileRegions(r)[b].h \in Nat
    BY <1>2, TilesBounded
  <2>3. FormatSize(fmt(b)) = 1 \/ FormatSize(fmt(b)) = 2
    BY FormatSizes
  <2>4. base(b) \in Nat
    BY <1>3, <1>4
  <2>5. sizes'[b] = Max({base(b)} \cup asked(b))
    BY <1>1, <1>3
  <2> HIDE DEF fmt, base, Tiles
  <2>6. asked(b) \in SUBSET Nat /\ \A x \in asked(b) : x <= 2 * m
    <3> SUFFICES ASSUME NEW h \in regions(b)
                 PROVE  h * FormatSize(fmt(b)) \in Nat /\ h * FormatSize(fmt(b)) <= 2 * m
      OBVIOUS
    <3>1. h \in Nat /\ h <= m
      BY <2>1, <2>2
    <3> HIDE DEF regions
    <3> QED
      BY <3>1, <2>3
  <2>7. \A r \in Tiles : TileRegions(r)[b].h * FormatSize(fmt(b)) \in asked(b)
    OBVIOUS
  <2> HIDE DEF asked
  <2>8. /\ Max({base(b)} \cup asked(b)) \in Nat
        /\ base(b) <= Max({base(b)} \cup asked(b))
        /\ \A x \in asked(b) : x <= Max({base(b)} \cup asked(b))
    <3>1. 2 * m \in Nat
      OBVIOUS
    <3> QED
      BY <3>1, <2>4, <2>6, MaxOfMore
  <2> QED
    BY <2>5, <2>7, <2>8
<1>6. ASSUME NEW k \in 1..N, IsTransform(k)
      PROVE  fmt(nodes[k].out) = nodes[k].op.fmt /\ nodes[k].out \in 0..maxBuf
  <2> DEFINE b == nodes[k].out
             W == writers(b)
  <2>1. b \in 0..maxBuf /\ b # 0
    <3>1. b \in 1..maxBuf
      BY <1>2, <1>6, BufferFacts
    <3> HIDE DEF b
    <3> QED
      BY <3>1, <1>3
  <2>2. W \in SUBSET Nat /\ W # {} /\ \A i \in W : i <= N
    <3>1. k \in W
      BY <1>3, <1>6 DEF IsTransform
    <3>2. \A i \in W : i \in 1..N
      BY <1>3
    <3> HIDE DEF W
    <3> QED
      BY <3>1, <3>2, <1>3
  <2>3. Max(W) \in W
    <3> HIDE DEF W
    <3> QED
      BY <2>2, <1>3, MaxBounded
  <2>4. PICK i \in 1..N : i = Max(W) /\ IsTransform(i) /\ nodes[i].out = nodes[k].out
    <3>1. Max(W) \in 1..N /\ IsTransform(Max(W)) /\ nodes[Max(W)].out = nodes[k].out
      <4>1. \A j \in W : j \in 1..N /\ IsTransform(j) /\ nodes[j].out = nodes[k].out
        BY <1>3 DEF IsTransform
      <4> HIDE DEF W
      <4> QED
        BY <2>3, <4>1
    <3> QED
      BY <3>1
  <2>5. \A j \in 1..N : /\ nodes[j].op = graph[order[j]] /\ nodes[j].out = outBuf[order[j]]
                        /\ (IsTransform(j) => Transform(order[j]))
    <3>1. \A j \in 1..N : nodes[j].op = graph[order[j]] /\ nodes[j].out = outBuf[order[j]]
      BY DEF BufferInv, RecordInv, N
    <3> QED
      BY <3>1 DEF IsTransform, Transform
  <2>6. graph[order[i]].fmt = graph[order[k]].fmt
    BY <2>4, <2>5, <1>6 DEF FormatInv, N
  <2>7. fmt(b) = graph[order[i]].fmt
    BY <2>1, <2>4
  <2> QED
    BY <2>1, <2>5, <2>6, <2>7
<1>7. fmt(0) = "u8" /\ base(0) = Max(more) /\ 0 \in 0..maxBuf
  BY <1>3
<1> HIDE DEF fmt, base, regions, asked
<1>8. sizes' \in [0..maxBuf' -> Nat]
  BY <1>1, <1>3, <1>5
<1>9. /\ PipelineHeight' = PipelineHeight /\ Tile' = Tile /\ N' = N
      /\ \A r : TileRegions(r)' = TileRegions(r)
      /\ \A k : IsTransform(k)' <=> IsTransform(k)
  <2>1. PipelineHeight' = PipelineHeight
    BY <1>1 DEF PipelineHeight
  <2>2. \A r : TileRegions(r)' = TileRegions(r)
    BY <1>1 DEF TileRegions
  <2> QED
    BY <2>1, <2>2, <1>1 DEF Tile, N, IsTransform
<1>10. Tile <= sizes'[0]
  <2>1. Max(more) <= sizes'[0] /\ sizes'[0] \in Nat
    BY <1>5, <1>7
  <2> QED
    BY <2>1, <1>4, TileTyped
<1>11. ASSUME NEW r \in Tiles
       PROVE  /\ TileRegions(r)[0].h <= sizes'[0]
              /\ \A k \in 1..N : IsTransform(k) =>
                   TileRegions(r)[nodes[k].out].h * FormatSize(nodes[k].op.fmt) <= sizes'[nodes[k].out]
  <2>1. TileRegions(r)[0].h * FormatSize("u8") <= sizes'[0] /\ TileRegions(r)[0].h \in Nat
    BY <1>2, <1>5, <1>7, TilesBounded
  <2>2. TileRegions(r)[0].h <= sizes'[0]
    BY <2>1 DEF FormatSize
  <2> QED
    BY <2>2, <1>5, <1>6
<1>12. Roomy'
  BY <1>1, <1>9, <1>10, <1>11 DEF Roomy
<1> QED
  BY <1>8, <1>12 DEF RoomInv

\* Every step of compile keeps the buffers as large as its nodes ask.
LEMMA RoomInvInductive ==
  ASSUME BufferInv, ShapeInv, FormatInv, RoomInv, SoundGraph(graph), [CompileNext]_compileVars
  PROVE  RoomInv'
<1>1. CASE Emit \/ FindOwner \/ CompileView
  <2>1. sizes' = sizes /\ maxBuf' = maxBuf /\ phase' # "compiled"
    BY <1>1 DEF Emit, FindOwner, CompileView
  <2> QED
    BY <2>1 DEF RoomInv
<1>2. CASE UNCHANGED compileVars
  <2>1. UNCHANGED <<graph, phase, order, nodes, maxBuf, sizes>>
    BY <1>2 DEF compileVars
  <2>2. PipelineHeight' = PipelineHeight
    BY <2>1 DEF PipelineHeight
  <2>3. \A r : TileRegions(r)' = TileRegions(r)
    BY <2>1 DEF TileRegions
  <2>4. Tile' = Tile
    BY <2>2 DEF Tile
  <2>5. Roomy => Roomy'
    BY <2>1, <2>2, <2>3, <2>4 DEF Roomy, N, IsTransform
  <2> QED
    BY <2>1, <2>5 DEF RoomInv
<1> QED
  BY <1>1, <1>2, TransformRoomInv, SizeBuffersRoomInv DEF CompileNext

\* The output's buffer is the last one.
LEMMA LastBuffer ==
  ASSUME BufferInv, Linked, Undisturbed, FormatInv, NEW hs, NEW sc, Measured(hs, sc), N # 0
  PROVE  nodes[N].out = maxBuf
<1>1. N \in Nat /\ maxBuf \in Nat /\ N \in 1..N
  BY DEF Linked
<1> DEFINE S == {k \in 1..N : nodes[k].out = maxBuf}
<1>2. S # {}
  <2>1. \A k \in 1..N : nodes[k].out = outBuf[order[k]] /\ nodes[k].out \in 0..maxBuf
    BY BufferFacts DEF BufferInv, RecordInv, N
  <2>2. CASE maxBuf = 0
    BY <2>1, <2>2, <1>1
  <2>3. CASE maxBuf # 0
    BY <2>1, <2>3 DEF FormatInv, N
  <2> QED
    BY <2>2, <2>3
<1>3. S \in SUBSET Nat /\ \A k \in S : k <= N
  BY <1>1
<1> HIDE DEF S
<1>4. PICK j \in S : \A k \in S : k <= j
  BY <1>1, <1>2, <1>3, GreatestOf
<1>5. j \in 1..N /\ nodes[j].out = maxBuf
  BY <1>4 DEF S
<1>6. CASE j = N
  BY <1>5, <1>6
<1>7. CASE j # N
  <2>1. j \in 1..(N - 1)
    BY <1>1, <1>5, <1>7
  <2>2. PICK m \in (j + 1)..N : \E s \in DOMAIN nodes[m].in : nodes[m].up[s] = j
    BY <2>1, Zenon DEF Measured
  <2>3. m \in 1..N /\ ~(m <= j) /\ m \in DOMAIN nodes
    BY <1>1, <1>5, <2>2 DEF BufferInv, CompileTypeOK, N
  <2>4. PICK s \in DOMAIN nodes[m].in : nodes[m].up[s] = j
    BY <2>2
  <2>5. nodes[m].in[s] = maxBuf
    <3>1. /\ nodes[m].prod[s] = BaseOf(j)
          /\ nodes[m].in[s] = IF BaseOf(j) = 0 THEN 0 ELSE nodes[BaseOf(j)].out
      BY <2>3, <2>4, SlotFacts, Zenon
    <3>2. CASE IsTransform(j)
      <4>1. BaseOf(j) = j /\ j # 0
        BY <3>2, <1>1, <1>5 DEF BaseOf, IsTransform
      <4> QED
        BY <4>1, <3>1, <1>5
    <3>3. CASE ~IsTransform(j)
      <4>1. BaseOf(j) = nodes[j].prod[1] /\ nodes[j].out = nodes[j].in[1] /\ 1 \in DOMAIN nodes[j].in
        BY <3>3, <1>1, <1>5 DEF BaseOf, IsTransform, Linked
      <4>2. nodes[j].in[1] = IF nodes[j].prod[1] = 0 THEN 0 ELSE nodes[nodes[j].prod[1]].out
        BY <4>1, <1>5, SlotFacts, Zenon
      <4> QED
        BY <4>1, <4>2, <3>1, <1>5
    <3> QED
      BY <3>2, <3>3
  <2>6. CASE IsTransform(m)
    <3>1. nodes[m].in[s] < nodes[m].out
      BY <2>3, <2>6 DEF BufferInv, InputsBelowOutput
    <3>2. nodes[m].out \in 0..maxBuf
      BY <2>3, BufferFacts
    <3> QED
      BY <3>1, <3>2, <2>5, <1>1
  <2>7. CASE ~IsTransform(m)
    <3>1. nodes[m].out = nodes[m].in[1] /\ s = 1
      BY <2>3, <2>4, <2>7 DEF IsTransform, Linked
    <3>2. m \in S
      BY <3>1, <2>3, <2>5 DEF S
    <3> QED
      BY <3>2, <2>3, <1>4
  <2> QED
    BY <2>6, <2>7
<1> QED
  BY <1>6, <1>7
-----------------------------------------------------------------------------
(* A tile asks for no more than the first one, shifted down the image.     *)

First == Region(0, Min({Tile, PipelineHeight}))

OutOf(j) == IF j = 0 THEN 0 ELSE nodes[j].out

Shifted(r, d) == Region(r.y - d, r.h)

\* The rows r of node j lie, for a tile that is d rows down the image, in what compile
\* found, and are not all outside the node's own.
InRoom(hs, sc, d, j, r) ==
  /\ Contains(Back(First)[j + 1][OutOf(j)], Shifted(r, sc[j] * d))
  /\ \E y \in Int : r.y <= y /\ y < r.y + r.h /\ 0 <= y /\ y < hs[j]

\* A region that contains two contains their union.
LEMMA UnionLeast ==
  ASSUME NEW a \in Regions, NEW b \in Regions, NEW c \in Regions, Contains(c, a), Contains(c, b)
  PROVE  Contains(c, UnionRegion(a, b))
<1> DEFINE left  == IF a.y <= b.y THEN a.y ELSE b.y
           right == IF a.y + a.h >= b.y + b.h THEN a.y + a.h ELSE b.y + b.h
<1>1. a.y \in Int /\ a.h \in Nat /\ b.y \in Int /\ b.h \in Nat /\ c.y \in Int /\ c.h \in Nat
  BY RegionFacts
<1>2. Min({a.y, b.y}) = left /\ Max({a.y + a.h, b.y + b.h}) = right
  <2>1. a.y + a.h \in Int /\ b.y + b.h \in Int
    BY <1>1
  <2> QED
    BY <2>1, <1>1, TwoExtremes
<1>3. UnionRegion(a, b) = IF a.h = 0 THEN b ELSE IF b.h = 0 THEN a ELSE Region(left, right - left)
  BY <1>2 DEF UnionRegion
<1>4. CASE a.h = 0 \/ b.h = 0
  BY <1>3, <1>4
<1>5. CASE a.h # 0 /\ b.h # 0
  <2>1. left \in Int /\ right \in Int /\ left + (right - left) = right
        /\ c.y <= left /\ c.y + c.h >= right
    BY <1>1, <1>5 DEF Contains
  <2>2. Region(left, right - left).y = left /\ Region(left, right - left).h = right - left
    BY DEF Region
  <2> HIDE DEF left, right
  <2> QED
    BY <2>1, <2>2, <1>3, <1>5 DEF Contains
<1> QED
  BY <1>4, <1>5

\* Shifting a region moves its first row alone.
LEMMA ShiftedFacts ==
  ASSUME NEW r \in Regions, NEW d \in Int
  PROVE  /\ Shifted(r, d) \in Regions
         /\ Shifted(r, d).y = r.y - d /\ Shifted(r, d).h = r.h
<1>1. r.y - d \in Int /\ r.h \in Nat
  BY RegionFacts
<1> QED
  BY <1>1, RegionFacts DEF Shifted

\* Shifting two regions keeps whether one contains the other.
LEMMA ShiftedContains ==
  ASSUME NEW a \in Regions, NEW b \in Regions, NEW d \in Int
  PROVE  Contains(Shifted(a, d), Shifted(b, d)) <=> Contains(a, b)
<1>1. a.y \in Int /\ a.h \in Nat /\ b.y \in Int /\ b.h \in Nat
  BY RegionFacts
<1>2. /\ Shifted(a, d).y = a.y - d /\ Shifted(a, d).h = a.h
      /\ Shifted(b, d).y = b.y - d /\ Shifted(b, d).h = b.h
  BY ShiftedFacts
<1> QED
  BY <1>1, <1>2 DEF Contains

\* What an operation needs grows with its output, and moves with it.
LEMMA RequiredMoves ==
  ASSUME Undisturbed, NEW k \in 1..N, NEW a \in Regions, NEW b \in Regions, NEW d \in Int
  PROVE  /\ Contains(a, b) /\ b.h # 0
              => Contains(RequiredRegion(nodes[k].op, a), RequiredRegion(nodes[k].op, b))
         /\ RequiredRegion(nodes[k].op, Shifted(b, d))
              = Shifted(RequiredRegion(nodes[k].op, b),
                        IF nodes[k].op.op = "shrink" THEN 2 * d ELSE d)
<1>1. a.y \in Int /\ a.h \in Nat /\ b.y \in Int /\ b.h \in Nat
  BY RegionFacts
<1>2. /\ nodes[k].op.op \in {"point", "join", "halo", "shrink", "view"}
      /\ nodes[k].op.op = "view" => nodes[k].op.off \in Nat
  BY DEF Undisturbed, IsView
<1>3. Shifted(b, d) \in Regions /\ Shifted(b, d).y = b.y - d /\ Shifted(b, d).h = b.h
  BY ShiftedFacts
<1>4. \A y, h : Region(y, h).y = y /\ Region(y, h).h = h
  BY DEF Region
<1> DEFINE R(x) == RequiredRegion(nodes[k].op, x)
<1>5. CASE nodes[k].op.op \in {"point", "join"}
  <2>1. R(a) = a /\ R(b) = b /\ R(Shifted(b, d)) = Shifted(b, d) /\ nodes[k].op.op # "shrink"
    BY <1>3, <1>5, RequiredFacts
  <2> QED
    BY <2>1
<1>6. CASE nodes[k].op.op = "halo"
  <2>1. R(a) = Region(a.y - 1, a.h + 2) /\ R(b) = Region(b.y - 1, b.h + 2)
        /\ R(Shifted(b, d)) = Region((b.y - d) - 1, b.h + 2)
    BY <1>3, <1>6, RequiredFacts
  <2>2. (b.y - d) - 1 = (b.y - 1) - d
    BY <1>1
  <2>3. Contains(a, b) /\ b.h # 0 => Contains(Region(a.y - 1, a.h + 2), Region(b.y - 1, b.h + 2))
    BY <1>1, <1>4 DEF Contains
  <2> QED
    BY <2>1, <2>2, <2>3, <1>4, <1>6 DEF Shifted
<1>7. CASE nodes[k].op.op = "shrink"
  <2> DEFINE H(h) == IF h = 0 THEN 0 ELSE 2 * h - 1
  <2>1. R(a) = Region(2 * a.y, H(a.h)) /\ R(b) = Region(2 * b.y, H(b.h))
        /\ R(Shifted(b, d)) = Region(2 * (b.y - d), H(b.h))
    BY <1>3, <1>7, RequiredFacts
  <2>2. 2 * (b.y - d) = 2 * b.y - 2 * d
    BY <1>1
  <2>3. Contains(a, b) /\ b.h # 0 => Contains(Region(2 * a.y, H(a.h)), Region(2 * b.y, H(b.h)))
    BY <1>1, <1>4 DEF Contains
  <2> HIDE DEF H
  <2> QED
    BY <2>1, <2>2, <2>3, <1>4, <1>7 DEF Shifted
<1>8. CASE nodes[k].op.op = "view"
  <2> DEFINE o == nodes[k].op.off
  <2>1. R(a) = Region(a.y + o, a.h) /\ R(b) = Region(b.y + o, b.h)
        /\ R(Shifted(b, d)) = Region((b.y - d) + o, b.h)
    BY <1>3, <1>8, RequiredFacts
  <2>2. (b.y - d) + o = (b.y + o) - d /\ o \in Nat
    BY <1>1, <1>2, <1>8
  <2> HIDE DEF o
  <2>3. Contains(a, b) /\ b.h # 0 => Contains(Region(a.y + o, a.h), Region(b.y + o, b.h))
    BY <2>2, <1>1, <1>4 DEF Contains
  <2> QED
    BY <2>1, <2>2, <2>3, <1>4, <1>8 DEF Shifted
<1> QED
  BY <1>2, <1>5, <1>6, <1>7, <1>8

\* The first tile is a tile of the image.
LEMMA FirstTyped ==
  ASSUME Linked, Undisturbed
  PROVE  /\ First \in Regions /\ First.y = 0
         /\ First.h = IF Tile <= PipelineHeight THEN Tile ELSE PipelineHeight
         /\ PipelineHeight # 0 /\ Tile # 0 => First \in TilesOf(PipelineHeight, Tile)
<1>1. Tile \in Nat /\ PipelineHeight \in Nat
  BY TileTyped, HeightFacts
<1>2. Min({Tile, PipelineHeight}) = IF Tile <= PipelineHeight THEN Tile ELSE PipelineHeight
  BY <1>1, TwoExtremes
<1>3. First \in Regions /\ First.y = 0 /\ First.h = Min({Tile, PipelineHeight})
  BY <1>1, <1>2, RegionFacts DEF First
<1>4. PipelineHeight # 0 /\ Tile # 0 => First \in TilesOf(PipelineHeight, Tile)
  <2> SUFFICES ASSUME PipelineHeight # 0, Tile # 0
               PROVE  First \in TilesOf(PipelineHeight, Tile)
    OBVIOUS
  <2> DEFINE q == (PipelineHeight - 1) \div Tile
             y == 0 * Tile
  <2>1. 0 \in 0..q /\ y = 0 /\ PipelineHeight - 0 = PipelineHeight
    BY <1>1
  <2>2. y \in {j * Tile : j \in 0..q}
    BY <2>1
  <2>3. TilesOf(PipelineHeight, Tile) =
          {Region(z, Min({Tile, PipelineHeight - z})) : z \in {j * Tile : j \in 0..q}}
    BY DEF TilesOf
  <2> HIDE DEF q
  <2>4. Region(y, Min({Tile, PipelineHeight - y})) \in TilesOf(PipelineHeight, Tile)
    BY <2>2, <2>3
  <2>5. Region(y, Min({Tile, PipelineHeight - y})) = First
    BY <2>1 DEF First
  <2> QED
    BY <2>4, <2>5
<1> QED
  BY <1>2, <1>3, <1>4

\* What compile found for node j.
LEMMA RoomTyped ==
  ASSUME Linked, Undisturbed, NEW j \in 0..N
  PROVE  /\ OutOf(j) \in 0..maxBuf
         /\ Back(First)[j + 1][OutOf(j)] \in Regions
         /\ Contains(Back(First)[1][OutOf(j)], Back(First)[j + 1][OutOf(j)])
<1>1. N \in Nat /\ maxBuf \in Nat /\ j + 1 \in 1..(N + 1) /\ 1 \in 1..(j + 1)
  BY DEF Linked
<1>2. OutOf(j) \in 0..maxBuf
  <2>1. CASE j = 0
    BY <2>1, <1>1 DEF OutOf
  <2>2. CASE j # 0
    <3>1. j \in 1..N
      BY <2>2, <1>1
    <3> QED
      BY <3>1, <2>2, BufferFacts DEF OutOf
  <2> QED
    BY <2>1, <2>2
<1>3. Back(First)[j + 1] \in BufferRegions
  BY <1>1, FirstTyped, BackFacts
<1>4. Contains(Back(First)[1][OutOf(j)], Back(First)[j + 1][OutOf(j)])
  BY <1>1, <1>2, FirstTyped, BackGrows
<1> QED
  BY <1>2, <1>3, <1>4 DEF BufferRegions
-----------------------------------------------------------------------------
(* What the regions of a tile and of the first one have in common.         *)

\* A slot reads the buffer of the node it reads.
LEMMA OutOfSlot ==
  ASSUME Linked, Undisturbed, NEW k \in 1..N, NEW s \in DOMAIN nodes[k].in
  PROVE  LET u == nodes[k].up[s] IN u \in 0..(k - 1) /\ u \in 0..N /\ nodes[k].in[s] = OutOf(u)
<1> DEFINE u == nodes[k].up[s]
           p == nodes[k].prod[s]
<1>1. /\ u \in 0..(k - 1) /\ u \in 0..N /\ p = BaseOf(u)
      /\ nodes[k].in[s] = IF p = 0 THEN 0 ELSE nodes[p].out
  BY SlotFacts, Zenon
<1> HIDE DEF u, p
<1>2. ASSUME u = 0 \/ ~IsView(nodes[u].op) PROVE nodes[k].in[s] = OutOf(u)
  BY <1>1, <1>2 DEF BaseOf, OutOf
<1>3. ASSUME u # 0, IsView(nodes[u].op) PROVE nodes[k].in[s] = OutOf(u)
  <2>1. u \in 1..N
    BY <1>1, <1>3
  <2>2. nodes[u].out = nodes[u].in[1] /\ DOMAIN nodes[u].in = {1}
    BY <2>1, <1>3 DEF Linked
  <2>3. nodes[u].in[1] = IF nodes[u].prod[1] = 0 THEN 0 ELSE nodes[nodes[u].prod[1]].out
    <3>1. 1 \in DOMAIN nodes[u].in
      BY <2>2
    <3> QED
      BY <2>1, <3>1, SlotFacts, Zenon
  <2>4. p = nodes[u].prod[1]
    BY <1>1, <1>3 DEF BaseOf
  <2> QED
    BY <2>2, <2>3, <2>4, <1>1, <1>3 DEF OutOf
<1> QED
  BY <1>1, <1>2, <1>3 DEF u

\* What compile found for node k and for what its slot s reads.
LEMMA RoomOfSlot ==
  ASSUME Linked, Undisturbed, NEW k \in 1..N, NEW s \in DOMAIN nodes[k].in
  PROVE  LET u == nodes[k].up[s]
             room == Back(First)[k + 1][OutOf(k)]
         IN room.h # 0 => Contains(Back(First)[u + 1][OutOf(u)], RequiredRegion(nodes[k].op, room))
<1> DEFINE u == nodes[k].up[s]
           room == Back(First)[k + 1][OutOf(k)]
           want == RequiredRegion(nodes[k].op, room)
<1>1. N \in Nat /\ u \in 0..(k - 1) /\ u \in 0..N /\ nodes[k].in[s] = OutOf(u)
  BY OutOfSlot DEF Linked
<1>2. k \in 0..N /\ k \in 1..(N + 1) /\ k + 1 \in 1..(N + 1) /\ k # 0 /\ u + 1 \in 1..k
  BY <1>1
<1>3. OutOf(k) = nodes[k].out
  BY <1>2 DEF OutOf
<1>4. First \in Regions
  BY FirstTyped
<1>5. Back(First)[k] = AskBuffers(k, Back(First)[k + 1]) /\ Back(First)[k + 1] \in BufferRegions
  BY <1>2, <1>4, BackFacts
<1>6. room \in Regions /\ want \in Regions
  <2>1. room \in Regions
    BY <1>2, RoomTyped
  <2> QED
    BY <2>1, RequiredFacts
<1>7. OutOf(u) \in 0..maxBuf /\ Back(First)[u + 1][OutOf(u)] \in Regions
  BY <1>1, RoomTyped
<1>8. ASSUME room.h # 0 PROVE Contains(Back(First)[u + 1][OutOf(u)], want)
  <2>1. Contains(Back(First)[k][nodes[k].in[s]], want)
    BY <1>3, <1>5, <1>8, AskBuffersFacts
  <2>2. Contains(Back(First)[u + 1][OutOf(u)], Back(First)[k][OutOf(u)])
    BY <1>2, <1>4, <1>7, BackGrows
  <2>3. Back(First)[k][OutOf(u)] \in Regions
    <3>1. Back(First)[k] \in BufferRegions
      BY <1>2, <1>4, BackFacts
    <3> QED
      BY <3>1, <1>7 DEF BufferRegions
  <2> HIDE DEF want, room
  <2> QED
    BY <2>1, <2>2, <2>3, <1>1, <1>6, <1>7, ContainsFacts
<1> QED
  BY <1>8

\* A row a node shows comes from a row its inputs show.
LEMMA RowBelow ==
  ASSUME Linked, Undisturbed, NEW hs, NEW sc, Measured(hs, sc),
         NEW k \in 1..N, NEW s \in DOMAIN nodes[k].in, NEW r \in Regions,
         NEW y \in Int, r.y <= y, y < r.y + r.h, 0 <= y, y < hs[k]
  PROVE  LET q == RequiredRegion(nodes[k].op, r)
         IN \E z \in Int : q.y <= z /\ z < q.y + q.h /\ 0 <= z /\ z < hs[nodes[k].up[s]]
<1> DEFINE u == nodes[k].up[s]
           n == nodes[k].op
           q == RequiredRegion(n, r)
           H == hs[u]
<1>1. /\ H \in Nat /\ hs[k] = OutputHeight(n, H)
      /\ IsView(n) => n.off + n.height <= H
  BY MeasuredFacts, Zenon
<1>2. /\ n.op \in {"point", "join", "halo"} => OutputHeight(n, H) = H
      /\ n.op = "shrink" => OutputHeight(n, H) = H \div 2
      /\ n.op = "view" => OutputHeight(n, H) = n.height
  BY <1>1, OutputHeightFacts
<1>3. /\ n.op \in {"point", "join", "halo", "shrink", "view"}
      /\ n.op = "view" => n.off \in Nat /\ n.height \in Nat
  BY DEF Undisturbed, IsView
<1>4. r.y \in Int /\ r.h \in Nat
  BY RegionFacts
<1>5. /\ n.op \in {"point", "join"} => q.y = r.y /\ q.h = r.h
      /\ n.op = "halo" => q.y = r.y - 1 /\ q.h = r.h + 2
      /\ n.op = "shrink" => q.y = 2 * r.y /\ q.h = IF r.h = 0 THEN 0 ELSE 2 * r.h - 1
      /\ n.op = "view" => q.y = r.y + n.off /\ q.h = r.h
  <2>1. /\ n.op \in {"point", "join"} => q = r
        /\ n.op = "halo" => q = Region(r.y - 1, r.h + 2)
        /\ n.op = "shrink" => q = Region(2 * r.y, IF r.h = 0 THEN 0 ELSE 2 * r.h - 1)
        /\ n.op = "view" => q = Region(r.y + n.off, r.h)
    BY RequiredFacts, Zenon
  <2> HIDE DEF q, n
  <2> QED
    BY <2>1 DEF Region
<1> HIDE DEF u, q, H
<1>6. CASE n.op \in {"point", "join", "halo"}
  <2>1. q.y <= y /\ y < q.y + q.h /\ y < H
    BY <1>1, <1>2, <1>4, <1>5, <1>6
  <2> QED
    BY <2>1 DEF u, q, H
<1>7. CASE n.op = "shrink"
  <2>1. 2 * y \in Int /\ q.y <= 2 * y /\ 2 * y < q.y + q.h /\ 0 <= 2 * y
    BY <1>4, <1>5, <1>7
  <2>2. 2 * y < H
    BY <1>1, <1>2, <1>7
  <2> QED
    BY <2>1, <2>2 DEF u, q, H
<1>8. CASE n.op = "view"
  <2> DEFINE o == n.off
             h == n.height
  <2>1. o \in Nat /\ h \in Nat /\ o + h <= H /\ y < h /\ q.y = r.y + o /\ q.h = r.h
    BY <1>1, <1>2, <1>3, <1>5, <1>8 DEF IsView
  <2> HIDE DEF o, h
  <2>2. y + o \in Int /\ q.y <= y + o /\ y + o < q.y + q.h /\ 0 <= y + o /\ y + o < H
    BY <2>1, <1>1, <1>4
  <2> QED
    BY <2>2 DEF u, q, H
<1> QED
  BY <1>3, <1>6, <1>7, <1>8

\* A node that stays within what compile found asks its inputs for no more than that.
LEMMA InRoomUp ==
  ASSUME Linked, Undisturbed, NEW hs, NEW sc, Measured(hs, sc), NEW d \in Int,
         NEW k \in 1..N, NEW s \in DOMAIN nodes[k].in,
         NEW r \in Regions, InRoom(hs, sc, d, k, r)
  PROVE  InRoom(hs, sc, d, nodes[k].up[s], RequiredRegion(nodes[k].op, r))
<1> DEFINE u == nodes[k].up[s]
           n == nodes[k].op
           q == RequiredRegion(n, r)
           x == sc[k] * d
           room == Back(First)[k + 1][OutOf(k)]
           below == Back(First)[u + 1][OutOf(u)]
<1>1. /\ u \in 0..N /\ sc[k] \in Nat /\ sc[u] \in Nat
      /\ sc[u] = IF n.op = "shrink" THEN 2 * sc[k] ELSE sc[k]
  <2>1. k \in 0..N
    BY DEF Linked
  <2>2. sc[k] \in Nat
    BY <2>1, MeasuredFacts
  <2>3. u \in 0..N /\ sc[u] \in Nat
    BY MeasuredFacts, Zenon
  <2>4. sc[u] = IF n.op = "shrink" THEN 2 * sc[k] ELSE sc[k]
    <3>1. \A m \in 1..N : \A t \in DOMAIN nodes[m].in :
            sc[nodes[m].up[t]] = IF nodes[m].op.op = "shrink" THEN 2 * sc[m] ELSE sc[m]
      BY MeasuredFacts
    <3> QED
      BY <3>1
  <2> QED
    BY <2>2, <2>3, <2>4
<1>2. x \in Int /\ sc[u] * d = IF n.op = "shrink" THEN 2 * x ELSE x
  <2> DEFINE c == sc[k]
  <2>1. c \in Int
    BY <1>1
  <2> HIDE DEF c
  <2>2. (2 * c) * d = 2 * (c * d) /\ c * d \in Int
    BY <2>1
  <2> QED
    BY <2>2, <1>1 DEF c
<1>3. q \in Regions
  BY RequiredFacts
<1>4. room \in Regions /\ below \in Regions
  <2>1. k \in 0..N
    BY DEF Linked
  <2> QED
    BY <2>1, <1>1, RoomTyped
<1>5. Contains(room, Shifted(r, x)) /\ \E y \in Int : r.y <= y /\ y < r.y + r.h /\ 0 <= y /\ y < hs[k]
  BY DEF InRoom
<1> HIDE DEF x, room, below
<1>6. Shifted(r, x) \in Regions /\ Shifted(r, x).h = r.h /\ r.h # 0 /\ room.h # 0
  <2>1. r.y \in Int /\ r.h \in Nat /\ room.h \in Nat /\ room.y \in Int
    BY <1>4, RegionFacts
  <2>2. Shifted(r, x) \in Regions /\ Shifted(r, x).h = r.h /\ Shifted(r, x).y = r.y - x
    BY <1>2, ShiftedFacts
  <2>3. r.h # 0
    BY <2>1, <1>5
  <2>4. room.h # 0
    BY <2>1, <2>2, <2>3, <1>2, <1>5 DEF Contains
  <2> QED
    BY <2>2, <2>3, <2>4
<1>7. Contains(below, RequiredRegion(n, room))
  BY <1>6, RoomOfSlot DEF room, below
<1>8. Contains(RequiredRegion(n, room), RequiredRegion(n, Shifted(r, x)))
  BY <1>4, <1>5, <1>6, <1>2, RequiredMoves
<1>9. RequiredRegion(n, Shifted(r, x)) = Shifted(q, sc[u] * d)
  <2>1. RequiredRegion(n, Shifted(r, x)) = Shifted(q, IF n.op = "shrink" THEN 2 * x ELSE x)
    BY <1>2, RequiredMoves
  <2> QED
    BY <2>1, <1>2
<1>10. Contains(below, Shifted(q, sc[u] * d))
  <2>1. RequiredRegion(n, room) \in Regions /\ RequiredRegion(n, Shifted(r, x)) \in Regions
    BY <1>4, <1>6, RequiredFacts
  <2> QED
    BY <2>1, <1>4, <1>7, <1>8, <1>9, ContainsFacts
<1>11. \E z \in Int : q.y <= z /\ z < q.y + q.h /\ 0 <= z /\ z < hs[u]
  BY <1>5, RowBelow
<1> QED
  BY <1>10, <1>11 DEF InRoom, below

\* Cutting a region down to a view leaves it within what compile found.
LEMMA InRoomValid ==
  ASSUME Linked, Undisturbed, NEW hs, NEW sc, Measured(hs, sc), NEW d \in Int,
         NEW k \in 1..N, IsView(nodes[k].op), NEW r \in Regions, InRoom(hs, sc, d, k, r)
  PROVE  InRoom(hs, sc, d, k, ValidOutput(nodes[k].op, r))
<1> DEFINE n == nodes[k].op
           v == ValidOutput(n, r)
           x == sc[k] * d
           room == Back(First)[k + 1][OutOf(k)]
<1>1. N \in Nat /\ k \in 0..N /\ sc[k] \in Nat
  <2>1. k \in 0..N
    BY DEF Linked
  <2> QED
    BY <2>1, MeasuredFacts
<1>2. x \in Int
  BY <1>1
<1>3. n.height \in Nat /\ hs[k] = n.height
  <2>1. n.height \in Nat /\ DOMAIN nodes[k].in = {1} /\ n.op = "view"
    BY DEF Undisturbed, Linked, IsView
  <2>2. 1 \in DOMAIN nodes[k].in
    BY <2>1
  <2>3. hs[nodes[k].up[1]] \in Nat /\ hs[k] = OutputHeight(n, hs[nodes[k].up[1]])
    BY <2>2, MeasuredFacts, Zenon
  <2> QED
    BY <2>1, <2>3, OutputHeightFacts
<1>4. /\ v \in Regions /\ Contains(r, v)
      /\ \A y \in Int : r.y <= y /\ y < r.y + r.h /\ 0 <= y /\ y < n.height
                          => v.y <= y /\ y < v.y + v.h
  BY <1>3, ValidFacts
<1>5. room \in Regions
  BY <1>1, RoomTyped
<1>6. Contains(room, Shifted(r, x)) /\ \E y \in Int : r.y <= y /\ y < r.y + r.h /\ 0 <= y /\ y < hs[k]
  BY DEF InRoom
<1> HIDE DEF x, v, room
<1>7. Contains(room, Shifted(v, x))
  <2>1. Contains(Shifted(r, x), Shifted(v, x)) /\ Shifted(r, x) \in Regions /\ Shifted(v, x) \in Regions
    BY <1>2, <1>4, ShiftedContains, ShiftedFacts
  <2> QED
    BY <2>1, <1>5, <1>6, ContainsFacts
<1>8. \E y \in Int : v.y <= y /\ y < v.y + v.h /\ 0 <= y /\ y < hs[k]
  BY <1>3, <1>4, <1>6
<1> QED
  BY <1>7, <1>8 DEF InRoom, v, x, room

\* Two plans within what compile found merge within it.
LEMMA InRoomMerged ==
  ASSUME Linked, Undisturbed, NEW hs, NEW sc, Measured(hs, sc), NEW d \in Int,
         NEW j \in 0..N, NEW p \in Plans, NEW q \in Plans,
         InRoom(hs, sc, d, j, p.region), InRoom(hs, sc, d, j, q.region)
  PROVE  InRoom(hs, sc, d, j, Merged(p, q).region)
<1> DEFINE a == p.region
           b == q.region
           c == Merged(p, q).region
           x == sc[j] * d
           room == Back(First)[j + 1][OutOf(j)]
<1>1. x \in Int /\ a \in Regions /\ b \in Regions /\ room \in Regions
  <2>1. sc[j] \in Nat
    BY MeasuredFacts
  <2> QED
    BY <2>1, RegionFacts, RoomTyped
<1>2. c \in Regions /\ Contains(c, a)
  BY MergedFacts, RegionFacts
<1>3. c = a \/ c = UnionRegion(a, b)
  <2>1. BoundingRegion(p) = a /\ BoundingRegion(q) = b
    BY RegionFacts DEF BoundingRegion
  <2>2. UnionRegion(a, b) \in Regions
    BY <1>1, UnionFacts
  <2> QED
    BY <2>1, <2>2, RegionFacts DEF Merged
<1>4. Contains(room, Shifted(a, x)) /\ Contains(room, Shifted(b, x))
      /\ \E y \in Int : a.y <= y /\ y < a.y + a.h /\ 0 <= y /\ y < hs[j]
  BY DEF InRoom
<1> HIDE DEF a, b, c, x, room
<1>5. Contains(room, Shifted(c, x))
  <2>1. CASE c = a
    BY <2>1, <1>4
  <2>2. CASE c = UnionRegion(a, b)
    <3> DEFINE over == Region(room.y + x, room.h)
    <3>1. over \in Regions /\ room.y \in Int /\ over.y = room.y + x /\ over.h = room.h
      BY <1>1, RegionFacts
    <3>2. Shifted(over, x) = room
      <4>1. (room.y + x) - x = room.y
        BY <3>1, <1>1
      <4> HIDE DEF over
      <4>2. Shifted(over, x) = Region(room.y, room.h)
        BY <3>1, <4>1 DEF Shifted
      <4> QED
        BY <4>2, <1>1, RegionFacts
    <3> HIDE DEF over
    <3>3. Contains(over, a) /\ Contains(over, b)
      BY <3>1, <3>2, <1>1, <1>4, ShiftedContains
    <3>4. Contains(over, c)
      BY <3>1, <3>3, <2>2, <1>1, UnionLeast
    <3> QED
      BY <3>1, <3>2, <3>4, <1>1, <1>2, ShiftedContains
  <2> QED
    BY <2>1, <2>2, <1>3
<1>6. \E y \in Int : c.y <= y /\ y < c.y + c.h /\ 0 <= y /\ y < hs[j]
  <2>1. PICK y \in Int : a.y <= y /\ y < a.y + a.h /\ 0 <= y /\ y < hs[j]
    BY <1>4
  <2>2. a.y \in Int /\ a.h \in Nat /\ c.y \in Int /\ c.h \in Nat
    BY <1>1, <1>2, RegionFacts
  <2>3. c.y <= y /\ y < c.y + c.h
    BY <2>1, <2>2, <1>2 DEF Contains
  <2> QED
    BY <2>1, <2>3
<1> QED
  BY <1>5, <1>6 DEF InRoom, c, x, room

\* The format of the rows a node shows.
FormatOf(j) == IF BaseOf(j) = 0 THEN "u8" ELSE nodes[BaseOf(j)].op.fmt

\* What compile found for a node fits the buffer its rows are in.
LEMMA RoomFits ==
  ASSUME Linked, Undisturbed, Roomy, sizes \in [0..maxBuf -> Nat],
         PipelineHeight # 0, Tile # 0, NEW j \in 0..N
  PROVE  Fits(OutOf(j), FormatOf(j), TileRegions(First)[OutOf(j)].h)
<1> DEFINE p == BaseOf(j)
           h == TileRegions(First)[OutOf(j)].h
<1>1. First \in TilesOf(PipelineHeight, Tile) /\ OutOf(j) \in 0..maxBuf
  BY FirstTyped, RoomTyped
<1>2. h \in Nat
  BY <1>1, TilesBounded
<1> HIDE DEF p
<1>3. CASE p = 0
  <2>1. OutOf(j) = 0
    <3>1. CASE j = 0
      BY <3>1 DEF OutOf
    <3>2. CASE j # 0
      <4>1. j \in 1..N /\ IsView(nodes[j].op) /\ nodes[j].prod[1] = 0
        BY <1>3, <3>2 DEF p, BaseOf, Linked
      <4>2. nodes[j].out = nodes[j].in[1] /\ 1 \in DOMAIN nodes[j].in
        BY <4>1 DEF Linked
      <4>3. nodes[j].in[1] = 0
        BY <4>1, <4>2, SlotFacts
      <4> QED
        BY <4>2, <4>3, <3>2 DEF OutOf
    <3> QED
      BY <3>1, <3>2
  <2>2. h <= sizes[0]
    BY <2>1, <1>1 DEF Roomy
  <2>3. FormatOf(j) = "u8" /\ FormatSize("u8") = 1
    BY <1>3 DEF p, FormatOf, FormatSize
  <2>4. h * 1 = h
    BY <1>2
  <2> HIDE DEF h
  <2>5. h * FormatSize(FormatOf(j)) <= sizes[OutOf(j)]
    BY <2>1, <2>2, <2>3, <2>4
  <2> QED
    BY <2>5 DEF Fits, h
<1>4. CASE p # 0
  <2>1. p \in 1..N /\ IsTransform(p) /\ OutOf(j) = nodes[p].out
    <3>1. j \in 1..N
      BY <1>4 DEF p, BaseOf, Linked
    <3>2. CASE ~IsView(nodes[j].op)
      BY <3>1, <3>2, <1>4 DEF p, BaseOf, IsTransform, OutOf
    <3>3. CASE IsView(nodes[j].op)
      <4>1. nodes[j].out = nodes[j].in[1] /\ 1 \in DOMAIN nodes[j].in
        BY <3>1, <3>3 DEF Linked
      <4>2. p = nodes[j].prod[1]
        BY <3>1, <3>3 DEF p, BaseOf
      <4>3. p \in 0..(j - 1) /\ IsTransform(p) /\ nodes[j].in[1] = nodes[p].out
        BY <3>1, <4>1, <4>2, <1>4, SlotFacts
      <4>4. p \in 1..N
        BY <3>1, <4>3, <1>4 DEF Linked
      <4> QED
        BY <3>1, <4>1, <4>3, <4>4 DEF OutOf
    <3> QED
      BY <3>2, <3>3
  <2>2. h * FormatSize(nodes[p].op.fmt) <= sizes[nodes[p].out]
    BY <2>1, <1>1 DEF Roomy
  <2>3. FormatOf(j) = nodes[p].op.fmt
    BY <1>4 DEF p, FormatOf
  <2> QED
    BY <2>1, <2>2, <2>3 DEF Fits
<1> QED
  BY <1>3, <1>4

\* What stays within what compile found is not empty, and fits the node's buffer.
LEMMA InRoomFits ==
  ASSUME Linked, Undisturbed, Roomy, sizes \in [0..maxBuf -> Nat],
         NEW hs, NEW sc, Measured(hs, sc), NEW d \in Int,
         PipelineHeight # 0, Tile # 0,
         NEW j \in 0..N, NEW r \in Regions, InRoom(hs, sc, d, j, r)
  PROVE  r.h > 0 /\ Fits(OutOf(j), FormatOf(j), r.h)
<1> DEFINE x == sc[j] * d
           room == Back(First)[j + 1][OutOf(j)]
           whole == Back(First)[1][OutOf(j)]
           f == FormatSize(FormatOf(j))
           z == sizes[OutOf(j)]
<1>1. x \in Int /\ room \in Regions /\ OutOf(j) \in 0..maxBuf /\ Contains(whole, room)
  <2>1. sc[j] \in Nat
    BY MeasuredFacts
  <2> QED
    BY <2>1, RoomTyped
<1>2. First \in Regions
  BY FirstTyped
<1>3. whole \in Regions /\ TileRegions(First)[OutOf(j)] = whole
  <2>1. N \in Nat /\ 1 \in 1..(N + 1)
    BY DEF Linked
  <2>2. Back(First)[1] \in BufferRegions
    BY <2>1, <1>2, BackFacts
  <2> QED
    BY <2>2, <1>1, TileRegionsAre DEF BufferRegions
<1>4. Contains(room, Shifted(r, x)) /\ \E y \in Int : r.y <= y /\ y < r.y + r.h /\ 0 <= y /\ y < hs[j]
  BY DEF InRoom
<1>5. f \in {1, 2} /\ z \in Nat
  BY <1>1, FormatSizes
<1> HIDE DEF x, room, whole
<1>6. whole.h * f <= z
  BY <1>3, RoomFits DEF Fits
<1> HIDE DEF f, z
<1>7. /\ r.y \in Int /\ r.h \in Nat /\ room.y \in Int /\ room.h \in Nat
      /\ whole.y \in Int /\ whole.h \in Nat
  BY <1>1, <1>3, RegionFacts
<1>8. r.h > 0
  BY <1>4, <1>7
<1>9. r.h <= whole.h
  <2>1. Shifted(r, x).y = r.y - x /\ Shifted(r, x).h = r.h
    BY <1>1, ShiftedFacts
  <2>2. r.h <= room.h
    BY <2>1, <1>1, <1>4, <1>7, <1>8 DEF Contains
  <2>3. room.h <= whole.h
    BY <2>2, <1>1, <1>7, <1>8 DEF Contains
  <2> QED
    BY <2>2, <2>3, <1>7
<1>10. r.h * f <= z
  <2>1. r.h * f <= whole.h * f /\ r.h * f \in Nat /\ whole.h * f \in Nat
    BY <1>5, <1>7, <1>9
  <2> QED
    BY <2>1, <1>5, <1>6
<1> QED
  BY <1>8, <1>10 DEF Fits, f, z
-----------------------------------------------------------------------------
(* What a tile asks for.                                                   *)

TileFits(r) ==
  /\ r \in Regions /\ 0 <= r.y /\ 0 < r.h /\ r.h <= Tile
  /\ r.y + r.h <= PipelineHeight /\ PipelineHeight # 0 /\ Tile # 0

\* What a demand asks for stays within what compile found.
Within(hs, sc, r, d) ==
  \A j \in 0..N : AskIn(d, j) # None => InRoom(hs, sc, r.y, j, AskIn(d, j).region)

PlanFits(hs, sc) ==
  \A j \in 0..N : Asked(j) # None => InRoom(hs, sc, tile.y, j, Asked(j).region)

\* A tile of a run is no higher than the tiles compile looked at.
LEMMA TileFitsWhen ==
  ASSUME Linked, Undisturbed, NEW size \in RunTileHeights, NEW r \in TilesOf(PipelineHeight, size)
  PROVE  TileFits(r)
<1>1. size \in Nat /\ 0 < size /\ size <= TileHeight /\ TileHeight \in Nat
  BY ExecutionAssumption
<1>2. PipelineHeight \in Nat
  BY HeightFacts
<1>3. PipelineHeight # 0
  BY DEF TilesOf
<1>4. Tile = TileHeight
  BY <1>3 DEF Tile
<1>5. r \in Regions /\ 0 <= r.y /\ r.y + r.h <= PipelineHeight
  BY <1>1, <1>2, TileFacts
<1>6. 0 < r.h /\ r.h <= size
  <2> DEFINE q == (PipelineHeight - 1) \div size
  <2>1. PICK j \in 0..q : r = Region(j * size, Min({size, PipelineHeight - j * size}))
    BY <1>1, <1>3 DEF TilesOf
  <2>2. q \in Int /\ q * size <= PipelineHeight - 1
    <3>1. /\ q \in Int /\ (PipelineHeight - 1) % size \in Int
          /\ PipelineHeight - 1 = size * q + ((PipelineHeight - 1) % size)
          /\ 0 <= (PipelineHeight - 1) % size
      BY <1>1, <1>2
    <3> HIDE DEF q
    <3> QED
      BY <3>1, <1>1, <1>2
  <2> HIDE DEF q
  <2> DEFINE y == j * size
             z == q * size
  <2>3. y \in Int /\ y <= z /\ z \in Int
    BY <2>2, <1>1
  <2>4. z <= PipelineHeight - 1
    BY <2>2
  <2>5. r = Region(y, Min({size, PipelineHeight - y}))
    BY <2>1
  <2> HIDE DEF y, z
  <2>6. PipelineHeight - y \in Int /\ 0 < PipelineHeight - y
    BY <2>3, <2>4, <1>2
  <2>7. Min({size, PipelineHeight - y}) =
          IF size <= PipelineHeight - y THEN size ELSE PipelineHeight - y
    BY <2>6, <1>1, TwoExtremes
  <2>8. r.h = Min({size, PipelineHeight - y})
    BY <2>5 DEF Region
  <2> QED
    BY <2>6, <2>7, <2>8, <1>1
<1>7. r.h \in Nat
  BY <1>5, RegionFacts
<1> QED
  BY <1>1, <1>3, <1>4, <1>5, <1>6, <1>7 DEF TileFits

\* The last node is asked for the tile, which is the first one, shifted.
LEMMA TileInRoom ==
  ASSUME BufferInv, FormatInv, Linked, Undisturbed, NEW hs, NEW sc, Measured(hs, sc), N # 0,
         NEW r, TileFits(r)
  PROVE  InRoom(hs, sc, r.y, N, r)
<1>1. N \in Nat /\ N \in 0..N /\ maxBuf \in Nat /\ maxBuf \in 0..maxBuf
  BY DEF Linked
<1>2. r \in Regions /\ r.y \in Int /\ r.h \in Nat
  BY RegionFacts DEF TileFits
<1>3. OutOf(N) = maxBuf
  BY LastBuffer DEF OutOf
<1>4. sc[N] = 1 /\ 1 * r.y = r.y
  BY <1>2 DEF Measured
<1>5. Back(First)[N + 1][OutOf(N)] = First
  <2>1. Back(First)[N + 1] = LastAsk(First)
    BY FirstTyped, BackFacts
  <2> QED
    BY <2>1, <1>1, <1>3 DEF LastAsk
<1>6. Shifted(r, r.y).y = 0 /\ Shifted(r, r.y).h = r.h
  BY <1>2, ShiftedFacts
<1>7. Tile \in Nat /\ PipelineHeight \in Nat
  BY TileTyped, HeightFacts
<1>8. First.y = 0 /\ First.h = IF Tile <= PipelineHeight THEN Tile ELSE PipelineHeight
  BY FirstTyped
<1>9. r.h <= First.h
  BY <1>2, <1>7, <1>8 DEF TileFits
<1>10. Contains(First, Shifted(r, r.y))
  <2>1. First.h \in Nat
    BY <1>7, <1>8
  <2> QED
    BY <2>1, <1>2, <1>6, <1>8, <1>9 DEF Contains
<1>11. hs[N] \in Nat /\ PipelineHeight <= hs[N]
  BY <1>1, MeasuredFacts, ImageNotHigher
<1>12. r.y <= r.y /\ r.y < r.y + r.h /\ 0 <= r.y /\ r.y < hs[N]
  BY <1>2, <1>7, <1>11 DEF TileFits
<1> QED
  BY <1>2, <1>4, <1>5, <1>10, <1>12 DEF InRoom

\* Handing a plan to a producer keeps every plan within its room.
LEMMA PropagateWithin ==
  ASSUME Linked, Undisturbed, NEW hs, NEW sc, Measured(hs, sc), NEW r \in Regions,
         NEW k \in 1..N, NEW s \in DOMAIN nodes[k].in,
         NEW d, IsDemand(d), Within(hs, sc, r, d),
         NEW plan \in Plans, InRoom(hs, sc, r.y, nodes[k].up[s], plan.region)
  PROVE  Within(hs, sc, r, Propagate(d, k, s, plan))
<1> DEFINE e   == Propagate(d, k, s, plan)
           u   == nodes[k].up[s]
           old == AskIn(d, u)
           new == IF old = None THEN plan ELSE Merged(old, plan)
<1>1. u \in 0..N /\ (u = 0 => nodes[k].in[s] = 0)
  BY OutOfSlot DEF OutOf
<1>2. IsDemand(e) /\ \A j \in 0..N : j # u => AskIn(e, j) = AskIn(d, j)
  BY PropagateFacts
<1>3. AskIn(e, u) = new
  <2>1. e = IF u # 0 THEN [d EXCEPT !.need[u] = new]
            ELSE [d EXCEPT !.source = new, !.sparse = @ \/ (old # None /\ old # plan)]
    BY <1>1 DEF Propagate, AskIn
  <2> HIDE DEF new, old, e
  <2>2. CASE u # 0
    <3>1. u \in 1..N
      BY <1>1, <2>2 DEF Linked
    <3>2. e.need = [d.need EXCEPT ![u] = new]
      BY <2>1, <2>2 DEF IsDemand
    <3> QED
      BY <3>1, <3>2, <2>2 DEF AskIn, IsDemand
  <2>3. CASE u = 0
    <3>1. e.source = new
      BY <2>1, <2>3 DEF IsDemand
    <3> QED
      BY <3>1, <2>3 DEF AskIn
  <2> QED
    BY <2>2, <2>3
<1>4. InRoom(hs, sc, r.y, u, new.region)
  <2>1. CASE old = None
    BY <2>1
  <2>2. CASE old # None
    <3>1. old \in Plans
      <4>1. u # 0 => u \in 1..N
        BY <1>1 DEF Linked
      <4> QED
        BY <4>1, <2>2 DEF AskIn, IsDemand
    <3>2. InRoom(hs, sc, r.y, u, old.region)
      BY <1>1, <2>2 DEF Within
    <3>3. r.y \in Int
      BY RegionFacts
    <3> HIDE DEF old
    <3>4. InRoom(hs, sc, r.y, u, Merged(old, plan).region)
      BY <3>1, <3>2, <3>3, <1>1, InRoomMerged
    <3> QED
      BY <3>4, <2>2
  <2> QED
    BY <2>1, <2>2
<1> HIDE DEF e, new
<1>5. \A j \in 0..N : AskIn(e, j) # None => InRoom(hs, sc, r.y, j, AskIn(e, j).region)
  BY <1>2, <1>3, <1>4 DEF Within
<1> QED
  BY <1>5 DEF Within, e

\* What a node asks for, when it stays within what compile found.
LEMMA NodeWithin ==
  ASSUME BufferInv, Linked, Undisturbed, NEW hs, NEW sc, Measured(hs, sc), tile \in Regions,
         NEW a \in 1..N, PlanInv(a), need[a] # None, PlanFits(hs, sc)
  PROVE  /\ IsView(nodes[a].op) => Within(hs, sc, tile, ViewDemand(a))
         /\ IsTransform(a) => Within(hs, sc, tile, DemandOf(a))
<1> DEFINE op == nodes[a].op
           r  == need[a].region
           D0 == DemandSoFar
<1>1. need[a] \in Plans /\ r \in Regions /\ tile.y \in Int
  BY RegionFacts DEF PlanInv
<1>2. IsDemand(D0) /\ Within(hs, sc, tile, D0)
  BY DemandSoFarIs DEF Within, PlanFits
<1>3. InRoom(hs, sc, tile.y, a, r)
  <2>1. a \in 0..N /\ Asked(a) = need[a]
    BY DEF Linked, Asked
  <2> QED
    BY <2>1 DEF PlanFits
<1>4. ASSUME IsView(op) PROVE Within(hs, sc, tile, ViewDemand(a))
  <2> DEFINE v    == ValidOutput(op, r)
             want == RequiredRegion(op, v)
  <2>1. 1 \in DOMAIN nodes[a].in /\ op.height \in Nat
    BY <1>4 DEF Undisturbed, Linked
  <2>2. v \in Regions
    BY <2>1, <1>1, ValidFacts
  <2>3. InRoom(hs, sc, tile.y, a, v)
    BY <1>1, <1>3, <1>4, InRoomValid
  <2> HIDE DEF v
  <2>4. want \in Regions /\ InRoom(hs, sc, tile.y, nodes[a].up[1], want)
    BY <2>1, <2>2, <2>3, <1>1, InRoomUp, RequiredFacts
  <2> HIDE DEF want
  <2>5. RectPlan(want) \in Plans /\ RectPlan(want).region = want
    BY <2>4, RegionFacts
  <2>6. Within(hs, sc, tile, Propagate(D0, a, 1, RectPlan(want)))
    BY <2>1, <2>4, <2>5, <1>2, PropagateWithin
  <2> QED
    BY <2>6 DEF ViewDemand, DemandSoFar, v, want
<1>5. ASSUME IsTransform(a) PROVE Within(hs, sc, tile, DemandOf(a))
  <2> DEFINE want == RequiredRegion(op, r)
             plan == RectPlan(want)
             D1   == Propagate(D0, a, 1, plan)
             D2   == Propagate(D1, a, 2, plan)
  <2>1. want \in Regions /\ \A s : SlotDemand(a, s) = plan
    BY <1>1, SlotDemandIs
  <2>2. DemandOf(a) = IF op.op = "join" THEN D2 ELSE D1
    BY <2>1, DemandOfIs
  <2>3. 1 \in DOMAIN nodes[a].in /\ (op.op = "join" => 2 \in DOMAIN nodes[a].in)
    BY DEF Undisturbed
  <2>4. \A s \in DOMAIN nodes[a].in : InRoom(hs, sc, tile.y, nodes[a].up[s], want)
    BY <1>1, <1>3, InRoomUp
  <2> HIDE DEF want
  <2>5. plan \in Plans /\ plan.region = want
    BY <2>1, RegionFacts
  <2> HIDE DEF plan, D0
  <2>6. IsDemand(D1) /\ Within(hs, sc, tile, D1)
    BY <2>3, <2>4, <2>5, <1>2, PropagateWithin, PropagateFacts
  <2> HIDE DEF D1
  <2>7. op.op = "join" => Within(hs, sc, tile, D2)
    BY <2>3, <2>4, <2>5, <2>6, PropagateWithin
  <2> QED
    BY <2>2, <2>6, <2>7
<1> QED
  BY <1>4, <1>5

\* A compiled pipeline keeps what compile found.
LEMMA RoomKept ==
  ASSUME UNCHANGED <<graph, order, nodes, maxBuf>>
  PROVE  /\ N' = N /\ PipelineHeight' = PipelineHeight /\ Tile' = Tile
         /\ \A hs, sc : Measured(hs, sc)' <=> Measured(hs, sc)
         /\ \A hs, sc, d, j, r : InRoom(hs, sc, d, j, r)' <=> InRoom(hs, sc, d, j, r)
         /\ \A r : TileFits(r)' <=> TileFits(r)
<1>1. N' = N
  BY DEF N
<1>2. PipelineHeight' = PipelineHeight
  BY DEF PipelineHeight
<1>3. Tile' = Tile
  BY <1>2 DEF Tile
<1>4. First' = First
  BY <1>2, <1>3 DEF First
<1>5. \A r : Back(r)' = Back(r)
  BY DEF Back, BackStep, LastAsk, AskBuffers, N
<1>6. Back(First)' = Back(First)
  <2>1. SUFFICES ASSUME NEW first, first = First PROVE Back(First)' = Back(First)
    OBVIOUS
  <2>2. Back(first)' = Back(first)
    BY <1>5
  <2>3. Back(First)' = Back(first)'
    BY <2>1, <1>4 DEF Back, BackStep, LastAsk, AskBuffers, N
  <2> QED
    BY <2>1, <2>2, <2>3
<1>7. \A j : OutOf(j)' = OutOf(j)
  BY DEF OutOf
<1>8. \A hs, sc, d, j, r : InRoom(hs, sc, d, j, r)' <=> InRoom(hs, sc, d, j, r)
  BY <1>6, <1>7 DEF InRoom
<1>9. \A hs, sc : Measured(hs, sc)' <=> Measured(hs, sc)
  BY <1>1 DEF Measured
<1>10. \A r : TileFits(r)' <=> TileFits(r)
  BY <1>2, <1>3 DEF TileFits
<1> QED
  BY <1>1, <1>2, <1>3, <1>8, <1>9, <1>10

\* What a tile's plan asks for stays while the plan does.
LEMMA PlanFitsKept ==
  ASSUME UNCHANGED <<graph, order, nodes, maxBuf, tile, need, sourceNeed>>,
         NEW hs, NEW sc, PlanFits(hs, sc)
  PROVE  PlanFits(hs, sc)'
<1>1. \A j : Asked(j)' = Asked(j)
  BY DEF Asked
<1>2. \A d, j, r : InRoom(hs, sc, d, j, r)' <=> InRoom(hs, sc, d, j, r)
  BY RoomKept
<1> QED
  BY <1>1, <1>2 DEF PlanFits, N

\* Going back one node, a tile stays within what compile found.
LEMMA NodePlanFits ==
  ASSUME BufferInv, Linked, Undisturbed, NEW hs, NEW sc, Measured(hs, sc), tile \in Regions,
         NEW a \in 1..N, a = at, PlanInv(a), PlanFits(hs, sc), PlanNode
  PROVE  PlanFits(hs, sc)'
<1>1. UNCHANGED <<graph, order, nodes, tile, maxBuf>> /\ N' = N
  BY DEF PlanNode, compileVars, N
<1>2. \A d, j, r : InRoom(hs, sc, d, j, r)' <=> InRoom(hs, sc, d, j, r)
  BY <1>1, RoomKept
<1>3. ASSUME NEW d, Demand(d), Within(hs, sc, tile, d) PROVE PlanFits(hs, sc)'
  <2>1. \A j \in 0..N : Asked(j)' = AskIn(d, j)
    BY <1>3 DEF Demand, Asked, AskIn
  <2>2. \A j \in 0..N : Asked(j)' # None => InRoom(hs, sc, tile.y, j, AskIn(d, j).region)
    BY <2>1, <1>3 DEF Within
  <2> QED
    BY <2>1, <2>2, <1>1, <1>2 DEF PlanFits
<1>4. CASE UNCHANGED <<need, sourceNeed>>
  BY <1>1, <1>4, PlanFitsKept
<1>5. CASE need[a] # None /\ IsView(nodes[a].op) /\ Demand(ViewDemand(a))
  BY <1>3, <1>5, NodeWithin
<1>6. CASE need[a] # None /\ ~IsView(nodes[a].op) /\ Demand(DemandOf(a))
  BY <1>3, <1>6, NodeWithin DEF IsTransform
<1> QED
  BY <1>4, <1>5, <1>6 DEF PlanNode, execVars
-----------------------------------------------------------------------------
(* Rows and the buffers they are stored in.                                *)

IsRows(f, m) == f = [i \in 1..m |-> f[i]]

\* Each buffer holds at least as many rows as compile made room for.
PoolFits(bufs) == \A b \in 0..maxBuf : \E m \in Nat : sizes[b] <= m /\ IsRows(bufs[b], m)

\* Rows listed up to m are m rows.
LEMMA RowsLen ==
  ASSUME NEW m \in Nat, NEW f, IsRows(f, m)
  PROVE  Len(f) = m /\ DOMAIN f = 1..m
<1> DEFINE S == {f[i] : i \in 1..m}
<1>1. DOMAIN f = 1..m
  BY DEF IsRows
<1>2. f \in [1..m -> S]
  BY DEF IsRows
<1> HIDE DEF S
<1>3. f \in Seq(S) /\ Len(f) = m
  BY <1>2
<1> QED
  BY <1>1, <1>3

\* What is read, stands for a region or is computed for one has its height.
LEMMA RowsMade ==
  ASSUME Undisturbed, NEW r \in Regions
  PROVE  /\ IsRows(ReadPlan(RectPlan(r)), r.h)
         /\ \A n : IsRows(RowsOf(n, r), r.h)
         /\ \A k \in 1..N : \A inputs : IsTransform(k) => IsRows(Process(k, inputs, r), r.h)
<1>1. IsRows(ReadPlan(RectPlan(r)), r.h)
  <2>1. RectPlan(r).kind = "rect" /\ RectPlan(r).region = r
    BY RegionFacts
  <2> QED
    BY <2>1 DEF ReadPlan, IsRows, Rows
<1>2. \A n : IsRows(RowsOf(n, r), r.h)
  BY DEF RowsOf, IsRows, Rows
<1>3. ASSUME NEW k \in 1..N, NEW inputs, IsTransform(k) PROVE IsRows(Process(k, inputs, r), r.h)
  <2>1. nodes[k].op.op \in {"point", "join", "halo", "shrink"}
    BY <1>3 DEF Undisturbed, IsTransform, IsView
  <2>2. CASE nodes[k].op.op = "point"
    BY <2>2 DEF Process, IsRows, Rows
  <2>3. CASE nodes[k].op.op = "join"
    BY <2>3 DEF Process, IsRows, Rows
  <2>4. CASE nodes[k].op.op = "halo"
    BY <2>4 DEF Process, IsRows, Rows
  <2>5. CASE nodes[k].op.op = "shrink"
    BY <2>5 DEF Process, IsRows, Rows
  <2> QED
    BY <2>1, <2>2, <2>3, <2>4, <2>5
<1> QED
  BY <1>1, <1>2, <1>3

\* Storing rows makes no buffer shorter, and the one they are stored in long enough.
LEMMA StoreFits ==
  ASSUME sizes \in [0..maxBuf -> Nat], NEW bufs, DOMAIN bufs = 0..maxBuf, PoolFits(bufs),
         NEW b \in 0..maxBuf,
         NEW h \in Nat, NEW rows, IsRows(rows, h)
  PROVE  PoolFits(Store(bufs, b, rows)) /\ h <= Len(Store(bufs, b, rows)[b])
<1> DEFINE new == Store(bufs, b, rows)
           top == Over(rows, bufs[b])
<1>1. PICK m \in Nat : sizes[b] <= m /\ IsRows(bufs[b], m)
  BY DEF PoolFits
<1>2. DOMAIN rows = 1..h /\ DOMAIN bufs[b] = 1..m
  BY <1>1, RowsLen
<1> DEFINE l == IF h <= m THEN m ELSE h
<1>3. (1..m) \cup (1..h) = 1..l /\ l \in Nat /\ m <= l /\ h <= l
  OBVIOUS
<1>4. IsRows(top, l)
  <2>1. DOMAIN top = 1..l /\ top = [x \in DOMAIN top |-> top[x]]
    <3>1. DOMAIN top = (1..m) \cup (1..h) /\ top = [x \in DOMAIN top |-> top[x]]
      BY <1>2 DEF Over
    <3> HIDE DEF top, l
    <3> QED
      BY <3>1, <1>3
  <2> HIDE DEF top, l
  <2> QED
    BY <2>1 DEF IsRows
<1> HIDE DEF l, top
<1>5. new = [bufs EXCEPT ![b] = top]
  BY DEF Store, top
<1>6. new[b] = top /\ \A c \in 0..maxBuf : c # b => new[c] = bufs[c]
  BY <1>5
<1> HIDE DEF new
<1>7. Len(new[b]) = l
  BY <1>3, <1>4, <1>6, RowsLen
<1>8. PoolFits(new)
  <2> SUFFICES ASSUME NEW c \in 0..maxBuf
               PROVE  \E i \in Nat : sizes[c] <= i /\ IsRows(new[c], i)
    BY DEF PoolFits
  <2>1. CASE c = b
    <3>1. IsRows(new[b], l)
      BY <1>4, <1>6
    <3>2. sizes[b] <= l
      <4>1. sizes[b] \in Nat
        OBVIOUS
      <4> QED
        BY <4>1, <1>1, <1>3
    <3> QED
      BY <2>1, <3>1, <3>2, <1>3
  <2>2. CASE c # b
    BY <2>2, <1>6 DEF PoolFits
  <2> QED
    BY <2>1, <2>2
<1> QED
  BY <1>3, <1>7, <1>8 DEF new

\* What fits a buffer is no longer than it.
LEMMA FitsLen ==
  ASSUME sizes \in [0..maxBuf -> Nat], PoolFits(buffers), NEW b \in 0..maxBuf, NEW fmt, NEW h \in Nat,
         Fits(b, fmt, h)
  PROVE  h <= Len(buffers[b])
<1>1. PICK m \in Nat : sizes[b] <= m /\ IsRows(buffers[b], m)
  BY DEF PoolFits
<1>2. Len(buffers[b]) = m
  BY <1>1, RowsLen
<1> DEFINE f == FormatSize(fmt)
<1>3. f \in {1, 2} /\ sizes[b] \in Nat /\ h * f <= sizes[b]
  BY FormatSizes DEF Fits
<1> HIDE DEF f
<1>4. h <= h * f /\ h * f \in Nat
  BY <1>3
<1> QED
  BY <1>1, <1>2, <1>3, <1>4
-----------------------------------------------------------------------------
\* What a step needs, and leaves, of the room there is.
FitInv ==
  /\ buffers # <<>> => PoolFits(buffers)
  /\ pc # "idle" => TileFits(tile)
  /\ pc \in {"plan", "source", "run"} => \A hs, sc : Measured(hs, sc) => PlanFits(hs, sc)
  /\ pc = "write" => tile.h <= Len(OutputRows)

\* What the steps of a tile can count on.
Running ==
  /\ BufferInv /\ Linked /\ Undisturbed /\ FormatInv /\ RunInv /\ FitInv
  /\ Roomy /\ sizes \in [0..maxBuf -> Nat]
  /\ \E hs, sc : Measured(hs, sc)

\* Whether buffers fit is told from their sizes.
LEMMA PoolKept ==
  ASSUME UNCHANGED <<maxBuf, sizes>>
  PROVE  \A bufs : PoolFits(bufs)' <=> PoolFits(bufs)
BY DEF PoolFits

\* A new pool has the sizes compile found.
LEMMA NewPoolFitInv ==
  ASSUME RunInv, RoomInv, FitInv, NewPool
  PROVE  FitInv'
<1>1. /\ pc = "idle" /\ pc' = "idle" /\ UNCHANGED <<maxBuf, sizes>>
      /\ buffers' = [b \in DOMAIN sizes |-> [i \in 1..sizes[b] |-> Zero]]
  BY DEF RunInv, PoolInv, NewPool, compileVars
<1>2. sizes \in [0..maxBuf -> Nat]
  BY DEF RoomInv
<1>3. PoolFits(buffers')
  <2> SUFFICES ASSUME NEW b \in 0..maxBuf
               PROVE  \E m \in Nat : sizes[b] <= m /\ IsRows(buffers'[b], m)
    BY DEF PoolFits
  <2>1. buffers'[b] = [i \in 1..sizes[b] |-> Zero]
    BY <1>1, <1>2
  <2>2. IsRows(buffers'[b], sizes[b])
    BY <2>1 DEF IsRows
  <2> QED
    BY <2>2, <1>2
<1>4. PoolFits(buffers)'
  BY <1>1, <1>3 DEF PoolFits
<1> QED
  BY <1>1, <1>4 DEF FitInv

\* A tile that begins is one of the image, and asks for nothing yet.
LEMMA BeginTileFitInv ==
  ASSUME Running, BeginTile
  PROVE  FitInv'
<1> USE DEF Running
<1>1. /\ UNCHANGED <<compileVars, buffers>> /\ buffers # <<>>
  BY DEF BeginTile, execVars
<1>2. UNCHANGED <<graph, order, nodes, maxBuf, sizes>>
  BY <1>1 DEF compileVars
<1>3. N' = N /\ N \in Nat
  BY <1>2 DEF N, Linked
<1>4. PoolFits(buffers)'
  BY <1>1, <1>2 DEF FitInv, PoolFits
<1>5. TileFits(tile')
  <2>1. PICK size \in RunTileHeights : tile' \in TilesOf(PipelineHeight, size)
    BY DEF BeginTile
  <2> QED
    BY <2>1, TileFitsWhen
<1>6. TileFits(tile)'
  <2>1. Tile' = Tile /\ PipelineHeight' = PipelineHeight
    BY <1>2, RoomKept
  <2> QED
    BY <2>1, <1>5 DEF TileFits
<1>7. ASSUME NEW hs, NEW sc, Measured(hs, sc)', pc' = "plan" PROVE PlanFits(hs, sc)'
  <2>1. /\ N > 0
        /\ need' = [k \in 1..N |-> IF k = N THEN RectPlan(tile') ELSE None]
        /\ sourceNeed' = None
    BY <1>7 DEF BeginTile
  <2>2. Measured(hs, sc)
    BY <1>2, <1>7, RoomKept
  <2>3. InRoom(hs, sc, tile'.y, N, tile')
    BY <2>1, <2>2, <1>3, <1>5, TileInRoom
  <2>4. \A d, j, r : InRoom(hs, sc, d, j, r)' <=> InRoom(hs, sc, d, j, r)
    BY <1>2, RoomKept
  <2>5. \A j \in 0..N : Asked(j)' # None => j = N /\ Asked(j)' = RectPlan(tile')
    <3>1. \A j \in 0..N : j # 0 => j \in 1..N
      BY <1>3
    <3> QED
      BY <3>1, <2>1 DEF Asked
  <2>6. RectPlan(tile').region = tile'
    BY <1>5, RegionFacts DEF TileFits
  <2> QED
    BY <2>3, <2>4, <2>5, <2>6, <1>3 DEF PlanFits
<1>8. pc' \in {"bare", "single", "plan"}
  BY DEF BeginTile
<1> QED
  BY <1>4, <1>6, <1>7, <1>8 DEF FitInv
-----------------------------------------------------------------------------
\* A step of a tile that is under way: the buffers there are, and what stays.
LEMMA UnderWay ==
  ASSUME Running, pc # "idle"
  PROVE  /\ buffers # <<>> /\ DOMAIN buffers = 0..maxBuf /\ PoolFits(buffers)
         /\ TileFits(tile) /\ tile \in Regions /\ tile.h \in Nat
         /\ PipelineHeight # 0 /\ Tile # 0 /\ maxBuf \in Nat /\ 0 \in 0..maxBuf
<1>1. buffers # <<>> /\ DOMAIN buffers = 0..maxBuf
  BY DEF Running, RunInv, PoolInv
<1>2. TileFits(tile)
  BY DEF Running, FitInv
<1>3. tile \in Regions /\ tile.h \in Nat /\ PipelineHeight # 0 /\ Tile # 0
  BY <1>2, RegionFacts DEF TileFits
<1>4. maxBuf \in Nat
  BY DEF Running, Linked
<1> QED
  BY <1>1, <1>2, <1>3, <1>4 DEF Running, FitInv

\* What a step does not touch fits as it did.
LEMMA StillFits ==
  ASSUME UNCHANGED <<compileVars, tile>>
  PROVE  /\ TileFits(tile) => TileFits(tile)'
         /\ PoolFits(buffers') => PoolFits(buffers)'
         /\ UNCHANGED <<need, sourceNeed>> =>
              \A hs, sc : Measured(hs, sc)' /\ (Measured(hs, sc) => PlanFits(hs, sc))
                            => PlanFits(hs, sc)'
<1>1. UNCHANGED <<graph, order, nodes, maxBuf, sizes>>
  BY DEF compileVars
<1>2. TileFits(tile) => TileFits(tile)'
  <2>1. Tile' = Tile /\ PipelineHeight' = PipelineHeight
    BY <1>1, RoomKept
  <2> QED
    BY <2>1 DEF TileFits
<1>3. PoolFits(buffers') => PoolFits(buffers)'
  BY <1>1 DEF PoolFits
<1>4. ASSUME UNCHANGED <<need, sourceNeed>>, NEW hs, NEW sc, Measured(hs, sc)',
             Measured(hs, sc) => PlanFits(hs, sc)
      PROVE  PlanFits(hs, sc)'
  <2>1. PlanFits(hs, sc)
    BY <1>1, <1>4, RoomKept
  <2> QED
    BY <2>1, <1>1, <1>4, PlanFitsKept
<1> QED
  BY <1>2, <1>3, <1>4

\* The source's rows are lent, or stored.
LEMMA FetchFits ==
  ASSUME Running, pc # "idle", NEW r \in Regions, Fetch(RectPlan(r))
  PROVE  PoolFits(buffers') /\ (~Borrowable(RectPlan(r)) => r.h <= Len(buffers'[0]))
<1>1. IsRows(ReadPlan(RectPlan(r)), r.h) /\ r.h \in Nat
  BY RowsMade, RegionFacts DEF Running
<1>2. /\ PoolFits(Store(buffers, 0, ReadPlan(RectPlan(r))))
      /\ r.h <= Len(Store(buffers, 0, ReadPlan(RectPlan(r)))[0])
  BY <1>1, UnderWay, StoreFits DEF Running
<1> QED
  BY <1>2, UnderWay DEF Fetch

\* A pipeline of no nodes reads its tile into the buffer of the source.
LEMMA ReadBareFitInv ==
  ASSUME Running, ReadBare
  PROVE  FitInv'
<1>1. /\ UNCHANGED <<compileVars, tile>> /\ pc = "bare" /\ pc' = "write"
      /\ Fetch(RectPlan(tile)) /\ N = 0 /\ N' = 0
  BY DEF ReadBare, Running, RunInv, StepInv, N, compileVars
<1>2. tile \in Regions /\ TileFits(tile) /\ tile.h \in Nat
  BY <1>1, UnderWay
<1>3. PoolFits(buffers') /\ (~Borrowable(RectPlan(tile)) => tile.h <= Len(buffers'[0]))
  BY <1>1, <1>2, FetchFits
<1>4. TileFits(tile)' /\ PoolFits(buffers)'
  BY <1>1, <1>2, <1>3, StillFits
<1>5. tile.h <= Len(OutputRows)'
  <2>1. CASE Borrowable(RectPlan(tile))
    <3>1. borrowed' = TRUE /\ sourceRegion' = tile
      BY <2>1, <1>1 DEF ReadBare, Fetch
    <3>2. OutputRows' = ReadPlan(RectPlan(sourceRegion))'
      BY <3>1, <1>1 DEF OutputRows
    <3>3. ReadPlan(RectPlan(sourceRegion))' = ReadPlan(RectPlan(tile))
      BY <3>1 DEF ReadPlan, RectPlan
    <3>4. Len(ReadPlan(RectPlan(tile))) = tile.h
      BY <1>2, RowsMade, RowsLen DEF Running
    <3> QED
      BY <3>2, <3>3, <3>4, <1>2
  <2>2. CASE ~Borrowable(RectPlan(tile))
    <3>1. borrowed' = FALSE
      BY <2>2, <1>1 DEF Fetch
    <3>2. OutputRows' = buffers'[0]
      BY <3>1, <1>1 DEF OutputRows
    <3> QED
      BY <3>2, <2>2, <1>3
  <2> QED
    BY <2>1, <2>2
<1> QED
  BY <1>1, <1>4, <1>5 DEF FitInv

\* The output of a node is held, or stored in its buffer.
LEMMA ProduceFits ==
  ASSUME Running, pc # "idle", NEW k \in 1..N, NEW r \in Regions, NEW rows, IsRows(rows, r.h),
         NEW bufs, DOMAIN bufs = 0..maxBuf, PoolFits(bufs), Produce(bufs, k, r, rows)
  PROVE  /\ PoolFits(buffers')
         /\ nodes[k].cached => k \in DOMAIN held' /\ r.h <= Len(held'[k])
         /\ ~nodes[k].cached => held' = held /\ r.h <= Len(buffers'[nodes[k].out])
<1>1. r.h \in Nat /\ nodes[k].out \in 0..maxBuf
  BY RegionFacts, BufferFacts DEF Running
<1>2. CASE nodes[k].cached
  <2>1. held' = With(held, k, rows) /\ buffers' = bufs
    BY <1>2 DEF Produce
  <2>2. k \in DOMAIN held' /\ held'[k] = rows
    <3> DEFINE new == With(held, k, rows)
    <3>1. k \in DOMAIN new /\ new[k] = rows
      BY DEF With, Over
    <3>2. held' = new
      BY <2>1
    <3> HIDE DEF new
    <3> QED
      BY <3>1, <3>2
  <2>3. Len(rows) = r.h
    BY <1>1, RowsLen
  <2> QED
    BY <2>1, <2>2, <2>3, <1>1, <1>2
<1>3. CASE ~nodes[k].cached
  <2>1. held' = held /\ buffers' = Store(bufs, nodes[k].out, rows)
    BY <1>3 DEF Produce
  <2>2. /\ PoolFits(Store(bufs, nodes[k].out, rows))
        /\ r.h <= Len(Store(bufs, nodes[k].out, rows)[nodes[k].out])
    BY <1>1, StoreFits DEF Running
  <2> QED
    BY <2>1, <2>2, <1>3
<1> QED
  BY <1>2, <1>3

\* A single operation runs on the rows read for it.
LEMMA RunSingleFitInv ==
  ASSUME Running, RunSingle
  PROVE  FitInv'
<1>1. /\ UNCHANGED <<compileVars, tile>> /\ pc = "single" /\ pc' = "write" /\ SinglePath
  BY DEF RunSingle, Running, RunInv, StepInv
<1>2. N = 1 /\ N' = 1 /\ 1 \in 1..N /\ IsTransform(1) /\ nodes' = nodes
  BY <1>1 DEF SinglePath, IsTransform, N, compileVars
<1>3. tile \in Regions /\ TileFits(tile) /\ tile.h \in Nat /\ PoolFits(buffers)
      /\ DOMAIN buffers = 0..maxBuf /\ 0 \in 0..maxBuf
  BY <1>1, UnderWay
<1> DEFINE plan  == SourceReadPlan(nodes[1].op, tile)
           rows  == Process(1, <<ReadPlan(plan)>>, tile)
           first == IF Borrowable(plan) THEN buffers ELSE Store(buffers, 0, ReadPlan(plan))
           want  == RequiredRegion(nodes[1].op, tile)
<1>4. PoolFits(first) /\ DOMAIN first = 0..maxBuf
  <2>1. want \in Regions /\ plan = RectPlan(want)
    BY <1>2, <1>3, RequiredFacts DEF Running
  <2> HIDE DEF want
  <2>2. IsRows(ReadPlan(RectPlan(want)), want.h) /\ want.h \in Nat
    BY <2>1, RowsMade, RegionFacts DEF Running
  <2>3. PoolFits(Store(buffers, 0, ReadPlan(RectPlan(want))))
    BY <2>2, <1>3, StoreFits DEF Running
  <2>4. DOMAIN Store(buffers, 0, ReadPlan(RectPlan(want))) = 0..maxBuf
    BY <1>3, StoreFacts
  <2> HIDE DEF plan
  <2> QED
    BY <2>1, <2>3, <2>4, <1>3
<1>5. IsRows(rows, tile.h)
  BY <1>2, <1>3, RowsMade DEF Running
<1>6. PoolFits(buffers') /\ tile.h <= Len(OutputRows')
  <2>1. CASE SingleHit /\ held' = With(held, 1, cache[Key(1, tile)]) /\ UNCHANGED buffers
    <3>1. cache[Key(1, tile)] = RowsOf(order[1], tile)
      <4>1. Key(1, tile)[1] = 1 /\ Key(1, tile)[2] = tile
        BY DEF Key
      <4> QED
        BY <4>1, <2>1 DEF SingleHit, Running, RunInv, CacheSound
    <3>2. 1 \in DOMAIN held' /\ held'[1] = cache[Key(1, tile)]
      <4> DEFINE hit == cache[Key(1, tile)]
             new == With(held, 1, hit)
      <4>1. 1 \in DOMAIN new /\ new[1] = hit
        BY DEF With, Over
      <4>2. held' = new
        BY <2>1
      <4> HIDE DEF new
      <4> QED
        BY <4>1, <4>2
    <3>3. OutputRows' = held'[1]
      BY <3>2, <1>2 DEF OutputRows
    <3>4. Len(RowsOf(order[1], tile)) = tile.h
      BY <1>3, RowsMade, RowsLen DEF Running
    <3> QED
      BY <2>1, <3>1, <3>2, <3>3, <3>4, <1>3
  <2>2. CASE Produce(first, 1, tile, rows)
    <3> HIDE DEF first, rows, plan
    <3>1. /\ PoolFits(buffers')
          /\ nodes[1].cached => 1 \in DOMAIN held' /\ tile.h <= Len(held'[1])
          /\ ~nodes[1].cached => held' = held /\ tile.h <= Len(buffers'[nodes[1].out])
      BY <2>2, <1>1, <1>2, <1>3, <1>4, <1>5, ProduceFits
    <3>2. CASE nodes[1].cached
      BY <3>1, <3>2, <1>2 DEF OutputRows
    <3>3. CASE ~nodes[1].cached
      <4>1. 1 \notin DOMAIN held
        BY <3>3 DEF Running, RunInv, PoolInv
      <4> QED
        BY <4>1, <3>1, <3>3, <1>2 DEF OutputRows
    <3> QED
      BY <3>2, <3>3
  <2> QED
    BY <2>1, <2>2 DEF RunSingle
<1>7. TileFits(tile)' /\ PoolFits(buffers)'
  BY <1>1, <1>3, <1>6, StillFits
<1> QED
  BY <1>1, <1>6, <1>7 DEF FitInv
-----------------------------------------------------------------------------
\* Planning a node and widening what reads the source.
LEMMA PlanFitInv ==
  ASSUME Running, PlanNode \/ FallBack
  PROVE  FitInv'
<1>1. /\ UNCHANGED <<compileVars, tile, buffers>> /\ pc = "plan" /\ pc' \in {"plan", "source"}
  BY DEF PlanNode, FallBack, execVars
<1>2. TileFits(tile)' /\ PoolFits(buffers)'
  BY <1>1, UnderWay, StillFits
<1>3. ASSUME NEW hs, NEW sc, Measured(hs, sc)' PROVE PlanFits(hs, sc)'
  <2>1. UNCHANGED <<graph, order, nodes, maxBuf>>
    BY <1>1 DEF compileVars
  <2>2. Measured(hs, sc) /\ PlanFits(hs, sc)
    BY <2>1, <1>1, <1>3, RoomKept DEF Running, FitInv
  <2>3. CASE FallBack
    BY <2>1, <2>2, <2>3, PlanFitsKept DEF FallBack
  <2>4. CASE PlanNode
    <3> SUFFICES ASSUME NEW a, a = at PROVE PlanFits(hs, sc)'
      OBVIOUS
    <3>1. a \in 1..N /\ PlanInv(a)
      <4>1. a \in 0..N /\ a > 0 /\ PlanInv(a)
        BY <2>4, <1>1 DEF PlanNode, Running, RunInv, StepInv
      <4>2. N \in Nat
        BY DEF Running, Linked
      <4> QED
        BY <4>1, <4>2
    <3>2. tile \in Regions
      BY <1>1, UnderWay
    <3> QED
      BY <2>2, <2>4, <3>1, <3>2, NodePlanFits DEF Running
  <2> QED
    BY <2>3, <2>4
<1> QED
  BY <1>1, <1>2, <1>3 DEF FitInv

\* The rows read from the source go to its buffer.
LEMMA ReadSourceFitInv ==
  ASSUME Running, ReadSource
  PROVE  FitInv'
<1>1. /\ UNCHANGED <<compileVars, tile, need, sourceNeed>> /\ pc = "source" /\ pc' = "run"
      /\ buffers' = buffers \/ (SourceNeeded /\ Fetch(sourceNeed))
  BY DEF ReadSource
<1>2. PoolFits(buffers')
  <2>1. CASE buffers' = buffers
    BY <2>1, <1>1, UnderWay
  <2>2. CASE SourceNeeded /\ Fetch(sourceNeed)
    <3>1. sourceNeed \in Plans
      BY <2>2, <1>1 DEF Running, RunInv, StepInv, PlanInv, SourceNeeded
    <3>2. sourceNeed.region \in Regions /\ sourceNeed = RectPlan(sourceNeed.region)
      BY <3>1, RegionFacts
    <3>3. Fetch(RectPlan(sourceNeed.region))
      BY <3>2, <2>2
    <3> QED
      BY <3>2, <3>3, <1>1, FetchFits
  <2> QED
    BY <1>1, <2>1, <2>2
<1>3. TileFits(tile)' /\ PoolFits(buffers)'
  BY <1>1, <1>2, UnderWay, StillFits
<1>4. ASSUME NEW hs, NEW sc, Measured(hs, sc)' PROVE PlanFits(hs, sc)'
  BY <1>1, <1>4, StillFits DEF Running, FitInv
<1> QED
  BY <1>1, <1>3, <1>4 DEF FitInv

\* A node stores the rows it makes in its own buffer.
LEMMA RunNodeFitInv ==
  ASSUME Running, RunNode
  PROVE  FitInv'
<1>1. /\ UNCHANGED <<compileVars, tile, need, sourceNeed>> /\ pc = "run" /\ pc' = "run"
  BY DEF RunNode
<1>2. PoolFits(buffers')
  <2>1. CASE buffers' = buffers
    BY <2>1, <1>1, UnderWay
  <2>2. CASE buffers' # buffers
    <3> SUFFICES ASSUME NEW a, a = at PROVE PoolFits(buffers')
      OBVIOUS
    <3> DEFINE rows == Process(a, [s \in DOMAIN nodes[a].in |-> InputRows(a, s)], need[a].region)
    <3>1. ~Skipped(a) /\ Produce(buffers, a, need[a].region, rows) /\ a <= N
      BY <2>2 DEF RunNode
    <3>2. a \in 1..N /\ need[a] \in Plans /\ IsTransform(a)
      <4>1. a \in 1..(N + 1) /\ need \in [1..N -> {None} \cup Plans] /\ N \in Nat
        BY <1>1 DEF Running, RunInv, StepInv, PlanInv, Linked
      <4>2. a \in 1..N
        BY <4>1, <3>1
      <4> QED
        BY <4>1, <4>2, <3>1 DEF Skipped, IsTransform
    <3>3. need[a].region \in Regions
      BY <3>2, RegionFacts
    <3>4. IsRows(rows, need[a].region.h)
      BY <3>2, <3>3, RowsMade DEF Running
    <3> HIDE DEF rows
    <3> QED
      BY <3>1, <3>2, <3>3, <3>4, <1>1, UnderWay, ProduceFits
  <2> QED
    BY <2>1, <2>2
<1>3. TileFits(tile)' /\ PoolFits(buffers)'
  BY <1>1, <1>2, UnderWay, StillFits
<1>4. ASSUME NEW hs, NEW sc, Measured(hs, sc)' PROVE PlanFits(hs, sc)'
  BY <1>1, <1>4, StillFits DEF Running, FitInv
<1> QED
  BY <1>1, <1>3, <1>4 DEF FitInv

\* The last node is asked for the tile.
LEMMA FinishedFitInv ==
  ASSUME Running, Finished
  PROVE  FitInv'
<1>1. /\ UNCHANGED <<compileVars, tile, need, sourceNeed, held, buffers, borrowed, sourceRegion>>
      /\ pc = "run" /\ pc' = "write"
  BY DEF Finished, execVars
<1>2. /\ N # 0 /\ N \in Nat /\ N \in 0..N /\ N \in 1..N
      /\ PlanInv(0) /\ need[N] = RectPlan(tile)
  <2>1. N # 0 /\ N \in Nat /\ PlanInv(0)
    BY <1>1 DEF Running, RunInv, StepInv, Linked
  <2> QED
    BY <2>1 DEF PlanInv
<1>3. tile \in Regions /\ tile.h \in Nat /\ RectPlan(tile) # None /\ RectPlan(tile).region = tile
      /\ tile.y \in Int
  <2>1. tile \in Regions
    BY <1>1, UnderWay
  <2> QED
    BY <2>1, RegionFacts
<1>4. tile.h <= Len(OutputRows)
  <2>1. CASE N \in DOMAIN held
    <3>1. held[N] = RowsOf(order[N], tile)
      BY <2>1, <1>2, <1>3 DEF PlanInv
    <3>2. Len(RowsOf(order[N], tile)) = tile.h
      BY <1>3, RowsMade, RowsLen DEF Running
    <3> QED
      BY <2>1, <3>1, <3>2, <1>2, <1>3 DEF OutputRows
  <2>2. CASE N \notin DOMAIN held
    <3>1. PICK hs, sc : Measured(hs, sc)
      BY DEF Running
    <3>2. InRoom(hs, sc, tile.y, N, tile)
      <4>1. PlanFits(hs, sc)
        BY <3>1, <1>1 DEF Running, FitInv
      <4>2. Asked(N) = RectPlan(tile)
        BY <1>2 DEF Asked
      <4> QED
        BY <4>1, <4>2, <1>2, <1>3 DEF PlanFits
    <3>3. Fits(OutOf(N), FormatOf(N), tile.h) /\ OutOf(N) \in 0..maxBuf
      BY <3>1, <3>2, <1>1, <1>2, <1>3, UnderWay, InRoomFits, RoomTyped DEF Running
    <3>4. tile.h <= Len(buffers[OutOf(N)])
      BY <3>3, <1>1, <1>3, UnderWay, FitsLen DEF Running
    <3> QED
      BY <3>4, <2>2, <1>2 DEF OutputRows, OutOf
  <2> QED
    BY <2>1, <2>2
<1>5. OutputRows' = OutputRows
  BY <1>1 DEF OutputRows, N, ReadPlan, compileVars
<1>6. TileFits(tile)' /\ PoolFits(buffers)'
  BY <1>1, UnderWay, StillFits
<1> QED
  BY <1>1, <1>4, <1>5, <1>6 DEF FitInv
-----------------------------------------------------------------------------
(* Every slice a step takes.                                               *)

\* What node j, or the source, is asked for fits where its rows are, and so does the
\* part of it a view shows.
LEMMA AskedFits ==
  ASSUME Running, pc \in {"plan", "source", "run"}, NEW j \in 0..N, Asked(j) # None,
         Asked(j).region \in Regions
  PROVE  /\ Asked(j).region.h > 0
         /\ Fits(OutOf(j), FormatOf(j), Asked(j).region.h)
         /\ j # 0 /\ IsView(nodes[j].op) =>
              Fits(OutOf(j), FormatOf(j), ValidOutput(nodes[j].op, Asked(j).region).h)
<1> DEFINE r == Asked(j).region
<1>1. PICK hs, sc : Measured(hs, sc)
  BY DEF Running
<1>2. tile.y \in Int /\ PipelineHeight # 0 /\ Tile # 0
  BY UnderWay, RegionFacts
<1>3. InRoom(hs, sc, tile.y, j, r)
  BY <1>1 DEF Running, FitInv, PlanFits
<1>4. r.h > 0 /\ Fits(OutOf(j), FormatOf(j), r.h)
  BY <1>1, <1>2, <1>3, InRoomFits DEF Running
<1>5. ASSUME j # 0, IsView(nodes[j].op)
      PROVE  Fits(OutOf(j), FormatOf(j), ValidOutput(nodes[j].op, r).h)
  <2> DEFINE v == ValidOutput(nodes[j].op, r)
  <2>1. j \in 1..N
    BY <1>5 DEF Running, Linked
  <2>2. v \in Regions
    BY <2>1, <1>5, ValidFacts DEF Running, Undisturbed
  <2>3. InRoom(hs, sc, tile.y, j, v)
    BY <2>1, <1>1, <1>2, <1>3, <1>5, InRoomValid DEF Running
  <2> HIDE DEF v
  <2>4. Fits(OutOf(j), FormatOf(j), v.h)
    BY <2>2, <2>3, <1>1, <1>2, InRoomFits DEF Running
  <2> QED
    BY <2>4 DEF v
<1> QED
  BY <1>4, <1>5

\* The path with one transform reads and writes within its two buffers.
LEMMA SingleFits ==
  ASSUME Running, pc = "single"
  PROVE  /\ Fits(0, "u8", SourceReadPlan(nodes[1].op, tile).region.h)
         /\ OutputFits(1, tile)
<1>1. /\ N = 1 /\ 1 \in 1..N /\ 1 \in 0..N /\ 0 \in 0..N /\ N # 0
      /\ IsTransform(1) /\ Len(nodes[1].in) = 1
  BY DEF Running, RunInv, StepInv, SinglePath, IsTransform
<1>2. tile \in Regions /\ tile.y \in Int /\ TileFits(tile) /\ PipelineHeight # 0 /\ Tile # 0
  BY UnderWay, RegionFacts
<1>3. PICK hs, sc : Measured(hs, sc)
  BY DEF Running
<1>4. InRoom(hs, sc, tile.y, 1, tile)
  <2>1. InRoom(hs, sc, tile.y, N, tile)
    BY <1>1, <1>2, <1>3, TileInRoom DEF Running
  <2> QED
    BY <2>1, <1>1
<1>5. Fits(OutOf(1), FormatOf(1), tile.h)
  BY <1>1, <1>2, <1>3, <1>4, InRoomFits DEF Running
<1>6. 1 \in DOMAIN nodes[1].in /\ nodes[1].up[1] = 0
  <2>1. 1 \in DOMAIN nodes[1].in
    BY <1>1 DEF Running, Undisturbed
  <2>2. nodes[1].up[1] \in 0..(1 - 1)
    BY <2>1, <1>1, SlotFacts DEF Running
  <2> QED
    BY <2>1, <2>2
<1> DEFINE want == RequiredRegion(nodes[1].op, tile)
<1>7. want \in Regions /\ SourceReadPlan(nodes[1].op, tile).region = want
  <2>1. want \in Regions /\ SourceReadPlan(nodes[1].op, tile) = RectPlan(want)
    BY <1>1, <1>2, RequiredFacts DEF Running
  <2> HIDE DEF want
  <2> QED
    BY <2>1, RegionFacts
<1>8. InRoom(hs, sc, tile.y, 0, want)
  <2>1. InRoom(hs, sc, tile.y, nodes[1].up[1], want)
    BY <1>1, <1>2, <1>3, <1>4, <1>6, InRoomUp DEF Running
  <2> QED
    BY <2>1, <1>6
<1> HIDE DEF want
<1>9. Fits(OutOf(0), FormatOf(0), want.h)
  BY <1>1, <1>2, <1>3, <1>7, <1>8, InRoomFits DEF Running
<1>10. OutOf(0) = 0 /\ FormatOf(0) = "u8" /\ OutOf(1) = nodes[1].out /\ FormatOf(1) = nodes[1].op.fmt
  BY <1>1 DEF OutOf, FormatOf, BaseOf, IsTransform
<1> QED
  BY <1>5, <1>7, <1>9, <1>10 DEF OutputFits

\* What a transform reads in a slot is nested with what it wants, and is all there.
LEMMA SlotInBounds ==
  ASSUME Running, pc = "run", NEW k \in 1..N, ~Skipped(k), NEW s \in DOMAIN nodes[k].in
  PROVE  SlotFits(k, s) /\ Nested(k, s)
<1> DEFINE u == nodes[k].up[s]
           p == nodes[k].prod[s]
           want == scratch[k][s]
           have == ProducerRegion(k, s)
<1>1. need[k] # None /\ IsTransform(k) /\ k \notin DOMAIN held /\ PlanInv(0) /\ N \in Nat
  BY DEF Skipped, IsTransform, Running, RunInv, StepInv, Linked
<1>2. /\ want = RequiredRegion(nodes[k].op, need[k].region)
      /\ Asked(u) # None
      /\ Contains(Asked(u).region, want)
      /\ u # 0 /\ IsView(nodes[u].op) => Asked(u).region = want
  <2>1. k \in (0 + 1)..N
    BY <1>1
  <2>2. PlannedNode(k)
    BY <2>1, <1>1 DEF PlanInv
  <2> QED
    BY <2>2, <1>1 DEF PlannedNode, IsTransform
<1>3. u \in 0..(k - 1) /\ u \in 0..N /\ nodes[k].in[s] = OutOf(u) /\ p = BaseOf(u)
  BY OutOfSlot, SlotFacts DEF Running
<1>4. Asked(u) \in Plans /\ Asked(u).region \in Regions
  BY <1>1, <1>2, <1>3, AskedTyped DEF Running
<1>5. /\ Asked(u).region.h > 0
      /\ Fits(OutOf(u), FormatOf(u), Asked(u).region.h)
      /\ u # 0 /\ IsView(nodes[u].op) =>
           Fits(OutOf(u), FormatOf(u), ValidOutput(nodes[u].op, Asked(u).region).h)
  BY <1>2, <1>3, <1>4, AskedFits
<1>6. (nodes[k].in[s] = 0 <=> p = 0) /\ (p # 0 => p \in 1..N /\ IsTransform(p))
  <2>1. nodes[k].in[s] = IF p = 0 THEN 0 ELSE nodes[p].out
    BY SlotFacts DEF Running
  <2>2. p # 0 => p \in 1..N /\ IsTransform(p)
    <3>1. p \in 0..(k - 1) /\ (p # 0 => IsTransform(p))
      BY SlotFacts DEF Running
    <3> QED
      BY <3>1, <1>1
  <2>3. p # 0 => nodes[p].out \in 1..maxBuf /\ maxBuf \in Nat
    BY <2>2, BufferFacts DEF Running, Linked
  <2> HIDE DEF p
  <2> QED
    BY <2>1, <2>2, <2>3
<1>7. sourceNeed # None /\ sourceNeed.region.h > 0 => sourceRegion = sourceNeed.region
  BY DEF Running, RunInv, StepInv, SourceReady, SourceNeeded
<1> HIDE DEF u, p, want
\* As many rows as the base was asked for.
<1>8. /\ Asked(p) \in Plans /\ have.h = Asked(p).region.h
      /\ have.h \in Nat /\ Fits(OutOf(u), FormatOf(u), have.h)
      /\ Nested(k, s)
  <2>1. want \in Regions
    BY <1>1, <1>2, RequiredFacts, RegionFacts DEF PlanInv, Running
  <2>2. CASE u = 0
    <3>1. p = 0 /\ Asked(u) = sourceNeed
      BY <1>3, <2>2 DEF BaseOf, Asked
    <3>2. have = sourceRegion
      BY <2>2 DEF ProducerRegion, u
    <3>3. have = Asked(u).region
      BY <3>1, <3>2, <1>2, <1>5, <1>7
    <3>4. Nested(k, s)
      BY <3>3, <1>2 DEF Nested, want
    <3>5. have.h \in Nat
      BY <3>3, <1>4, RegionFacts
    <3> HIDE DEF have
    <3> QED
      BY <3>1, <3>3, <3>4, <3>5, <2>2, <1>4, <1>5
  <2>3. CASE u # 0 /\ ~IsView(nodes[u].op)
    <3>1. p = u /\ Asked(u) = need[u]
      BY <1>3, <2>3 DEF BaseOf, Asked
    <3>2. have = Asked(u).region
      BY <3>1, <2>3 DEF ProducerRegion, u
    <3>3. Nested(k, s)
      BY <3>2, <1>2 DEF Nested, want
    <3>4. have.h \in Nat
      BY <3>2, <1>4, RegionFacts
    <3> HIDE DEF have
    <3> QED
      BY <3>1, <3>2, <3>3, <3>4, <1>4, <1>5
  <2>4. CASE u # 0 /\ IsView(nodes[u].op)
    <3>1. u \in 1..N /\ p = nodes[u].prod[1] /\ Asked(u) = need[u] /\ need[u] # None
      BY <1>1, <1>2, <1>3, <2>4 DEF BaseOf, Asked
    <3>2. have = ValidOutput(nodes[u].op, want)
      BY <2>4 DEF ProducerRegion, u, want
    <3>3. need[u].region = want
      BY <3>1, <1>2, <2>4
    <3>4. have \in Regions /\ Contains(want, have)
      <4>1. nodes[u].op.height \in Nat
        BY <3>1, <2>4 DEF Running, Undisturbed
      <4> QED
        BY <4>1, <3>2, <2>1, ValidFacts
    <3>5. Asked(p) \in Plans /\ Asked(p).region.h = have.h
      BY <3>1, <3>2, <3>3, <1>1, <2>4, ViewBase DEF Running
    <3>6. Nested(k, s)
      BY <3>4 DEF Nested, want
    <3>7. Fits(OutOf(u), FormatOf(u), have.h)
      BY <1>2, <1>5, <2>4, <3>2
    <3> HIDE DEF have
    <3> QED
      BY <3>4, <3>5, <3>6, <3>7, RegionFacts
  <2> QED
    BY <2>2, <2>3, <2>4
<1>9. SlotFits(k, s)
  <2>1. p = IF nodes[k].in[s] = 0 THEN 0 ELSE nodes[k].prod[s]
    BY <1>6 DEF p
  <2>2. CASE p = 0 /\ borrowed
    <3>1. ProducerRows(k, s) = ReadPlan(RectPlan(sourceRegion))
      BY <2>1, <2>2 DEF ProducerRows
    <3>2. sourceNeed \in Plans /\ have.h = sourceNeed.region.h
      BY <1>8, <2>2 DEF Asked
    <3>3. sourceRegion = sourceNeed.region
      <4>1. sourceNeed # None
        BY <3>2, RegionFacts
      <4>2. sourceNeed.region.h > 0
        <5>1. 0 \in 0..N /\ Asked(0) = sourceNeed
          BY <1>1 DEF Asked
        <5>2. sourceNeed.region \in Regions
          BY <3>2, RegionFacts
        <5>3. Asked(0).region.h > 0
          BY <5>1, <5>2, <4>1, AskedFits
        <5> QED
          BY <5>1, <5>3
      <4> QED
        BY <4>1, <4>2, <1>7
    <3>4. sourceRegion \in Regions
      BY <3>2, <3>3, RegionFacts
    <3>5. Len(ProducerRows(k, s)) = have.h
      BY <3>1, <3>2, <3>3, <3>4, RowsMade, RowsLen, RegionFacts DEF Running
    <3> HIDE DEF have
    <3>6. have.h <= Len(ProducerRows(k, s))
      BY <3>5, <1>8
    <3> QED
      BY <3>6, <2>1, <2>2 DEF SlotFits, have
  <2>3. CASE p # 0 /\ p \in DOMAIN held
    <3>1. ProducerRows(k, s) = held[p]
      BY <2>1, <2>3 DEF ProducerRows
    <3>2. need[p] = Asked(p) /\ need[p].region \in Regions
      BY <1>8, <2>3, RegionFacts DEF Asked
    <3>3. held[p] = RowsOf(order[p], need[p].region)
      BY <1>1, <2>3 DEF PlanInv
    <3>4. Len(held[p]) = have.h
      BY <3>2, <3>3, <1>8, RowsMade, RowsLen, RegionFacts DEF Running
    <3> HIDE DEF have
    <3>5. have.h <= Len(ProducerRows(k, s))
      BY <3>1, <3>4, <1>8
    <3> QED
      BY <3>5, <2>1, <2>3 DEF SlotFits, have
  <2>4. CASE ~(p = 0 /\ borrowed) /\ ~(p # 0 /\ p \in DOMAIN held)
    <3>1. FormatOf(u) = IF p = 0 THEN "u8" ELSE nodes[p].op.fmt
      BY <1>3 DEF FormatOf
    <3>2. Fits(nodes[k].in[s], IF p = 0 THEN "u8" ELSE nodes[p].op.fmt, have.h)
      BY <3>1, <1>3, <1>8
    <3> HIDE DEF have
    <3> QED
      BY <3>2, <2>1, <2>4 DEF SlotFits, have
  <2> QED
    BY <2>2, <2>3, <2>4
<1> QED
  BY <1>8, <1>9

\* Whatever step comes next, its slices are inside the buffers.
LEMMA SlicesFitNow ==
  ASSUME Running, pc # "idle"
  PROVE  SlicesFit
<1>1. CASE pc = "bare"
  <2>1. tile.h \in Nat /\ tile.h <= Tile /\ Tile \in Nat
    BY <1>1, UnderWay, TileTyped DEF TileFits
  <2>2. Tile <= sizes[0] /\ sizes[0] \in Nat
    BY <1>1, UnderWay DEF Running, Roomy
  <2>3. FormatSize("u8") = 1
    BY DEF FormatSize
  <2>4. tile.h * 1 <= sizes[0]
    BY <2>1, <2>2
  <2> QED
    BY <2>3, <2>4, <1>1 DEF SlicesFit, Fits
<1>2. CASE pc = "single"
  BY <1>2, SingleFits DEF SlicesFit
<1>3. CASE pc = "source"
  <2>1. ASSUME SourceNeeded PROVE Fits(0, "u8", sourceNeed.region.h)
    <3>1. 0 \in 0..N /\ Asked(0) = sourceNeed /\ sourceNeed # None
      BY <2>1 DEF Asked, SourceNeeded, Running, Linked
    <3>2. sourceNeed \in Plans /\ sourceNeed.region \in Regions
      BY <3>1, <1>3, RegionFacts DEF Running, RunInv, StepInv, PlanInv
    <3>3. Fits(OutOf(0), FormatOf(0), Asked(0).region.h)
      BY <3>1, <3>2, <1>3, AskedFits
    <3> QED
      BY <3>1, <3>3 DEF OutOf, FormatOf, BaseOf
  <2> QED
    BY <2>1, <1>3 DEF SlicesFit
<1>4. CASE pc = "run" /\ at <= N
  <2> SUFFICES ASSUME NEW a, a = at, ~Skipped(a)
               PROVE  /\ \A s \in DOMAIN nodes[a].in : SlotFits(a, s) /\ Nested(a, s)
                      /\ OutputFits(a, need[a].region)
    BY <1>4 DEF SlicesFit
  <2>1. a \in 1..N
    <3>1. a \in 1..(N + 1) /\ N \in Nat
      BY <1>4 DEF Running, RunInv, StepInv, Linked
    <3> QED
      BY <3>1, <1>4
  <2>2. \A s \in DOMAIN nodes[a].in : SlotFits(a, s) /\ Nested(a, s)
    BY <2>1, <1>4, SlotInBounds
  <2>3. need[a] # None /\ IsTransform(a) /\ a \in 0..N /\ Asked(a) = need[a]
    BY <2>1 DEF Skipped, IsTransform, Asked
  <2>4. Asked(a).region \in Regions
    <3>1. need[a] \in Plans
      BY <2>1, <2>3, <1>4 DEF Running, RunInv, StepInv, PlanInv
    <3> QED
      BY <3>1, <2>3, RegionFacts
  <2>5. Fits(OutOf(a), FormatOf(a), Asked(a).region.h)
    BY <2>3, <2>4, <1>4, AskedFits
  <2>6. OutOf(a) = nodes[a].out /\ FormatOf(a) = nodes[a].op.fmt
    BY <2>1, <2>3 DEF OutOf, FormatOf, BaseOf, IsTransform
  <2> QED
    BY <2>2, <2>3, <2>5, <2>6 DEF OutputFits
<1>5. CASE pc = "write"
  BY <1>5 DEF SlicesFit, Running, FitInv
<1>6. CASE pc \notin {"bare", "single", "source", "write"} /\ ~(pc = "run" /\ at <= N)
  BY <1>6 DEF SlicesFit
<1> QED
  BY <1>1, <1>2, <1>3, <1>4, <1>5, <1>6
-----------------------------------------------------------------------------
(* Every slice of every step.                                              *)

\* What holds of every state of a run over graphs whose sizes fit together.
SizedInv == ExecInv /\ FormatInv /\ RoomInv /\ FitInv

\* The invariant holds before anything is compiled.
LEMMA InitSizedInv == ExecInit => SizedInv
<1> SUFFICES ASSUME ExecInit PROVE SizedInv
  OBVIOUS
<1>1. ExecInv
  BY InitExecInv
<1>2. /\ nodes = <<>> /\ free = {} /\ maxBuf = 0 /\ sizes = [b \in {0} |-> 0]
      /\ phase # "compiled" /\ buffers = <<>> /\ pc = "idle"
  BY DEF ExecInit, Init
<1>3. Len(nodes) = 0 /\ 1..0 = {} /\ 0..0 = {0}
  BY <1>2
<1>4. FormatInv
  BY <1>2, <1>3 DEF FormatInv
<1>5. RoomInv
  BY <1>2, <1>3 DEF RoomInv
<1>6. FitInv
  BY <1>2 DEF FitInv
<1> QED
  BY <1>1, <1>4, <1>5, <1>6 DEF SizedInv

\* What the invariant gives once the pipeline is compiled.
LEMMA CompiledRunning ==
  ASSUME SizedInv, SoundGraph(graph), SizedGraph(graph), phase = "compiled"
  PROVE  Running
<1>1. BufferInv /\ ShapeInv /\ RunInv /\ FormatInv /\ FitInv
      /\ Roomy /\ sizes \in [0..maxBuf -> Nat]
  BY DEF SizedInv, ExecInv, RoomInv
<1>2. Linked /\ Undisturbed
  <2>1. Len(nodes) = Len(order)
    BY <1>1 DEF ShapeInv
  <2>2. Linked
    BY <2>1, <1>1, CompiledLinked
  <2> QED
    BY <1>1, <2>2, SoundUndisturbed
<1>3. \E hs, sc : Measured(hs, sc)
  BY <1>1, <1>2, SizedMeasured
<1> QED
  BY <1>1, <1>2, <1>3 DEF Running

\* The other steps leave the tile's rows alone.
LEMMA QuietFitInv ==
  ASSUME FitInv,
         UNCHANGED <<compileVars, tile, need, sourceNeed, held, buffers, borrowed, sourceRegion>>,
         pc' = pc \/ pc' = "idle"
  PROVE  FitInv'
<1>1. pc' # "idle" => TileFits(tile)'
  BY StillFits DEF FitInv
<1>2. buffers' # <<>> => PoolFits(buffers)'
  BY StillFits DEF FitInv
<1>3. ASSUME pc' \in {"plan", "source", "run"}, NEW hs, NEW sc, Measured(hs, sc)'
      PROVE  PlanFits(hs, sc)'
  BY <1>3, StillFits DEF FitInv
<1>4. OutputRows' = OutputRows
  BY DEF OutputRows, N, ReadPlan, compileVars
<1> QED
  BY <1>1, <1>2, <1>3, <1>4 DEF FitInv

\* Every step keeps the invariant.
LEMMA SizedInvInductive ==
  ASSUME \A g \in Graphs : SoundGraph(g) /\ SizedGraph(g), SizedInv, [Next]_vars
  PROVE  SizedInv'
<1>1. BufferInv /\ ShapeInv /\ RunInv /\ FormatInv /\ RoomInv /\ FitInv
      /\ SoundGraph(graph) /\ SizedGraph(graph)
  BY DEF SizedInv, ExecInv, BufferInv, CompileTypeOK
<1>2. ExecInv'
  BY ExecInvInductive DEF SizedInv
<1>3. FormatInv' /\ RoomInv'
  BY <1>1, PipelineStep, FormatInvInductive, RoomInvInductive
<1>4. pc # "idle" \/ buffers # <<>> => Running
  <2>1. pc # "idle" \/ buffers # <<>> => phase = "compiled"
    BY <1>1 DEF RunInv, PoolInv
  <2> QED
    BY <2>1, <1>1, CompiledRunning
<1>5. FitInv'
  <2>1. CASE Compile
    <3>1. phase # "compiled"
      BY <2>1 DEF Compile, CompileNext, Emit, FindOwner, CompileView, CompileTransform, SizeBuffers
    <3>2. buffers' = <<>> /\ pc' = "idle"
      BY <3>1, <2>1, <1>1 DEF RunInv, PoolInv, Compile, execVars
    <3> QED
      BY <3>2 DEF FitInv
  <2>2. CASE NewPool
    BY <2>2, <1>1, NewPoolFitInv
  <2>3. CASE BeginTile
    <3>1. buffers # <<>>
      BY <2>3 DEF BeginTile
    <3> QED
      BY <3>1, <2>3, <1>4, BeginTileFitInv
  <2>4. CASE ReadBare
    BY <2>4, <1>4, ReadBareFitInv DEF ReadBare
  <2>5. CASE RunSingle
    BY <2>5, <1>4, RunSingleFitInv DEF RunSingle
  <2>6. CASE PlanNode \/ FallBack
    BY <2>6, <1>4, PlanFitInv DEF PlanNode, FallBack
  <2>7. CASE ReadSource
    BY <2>7, <1>4, ReadSourceFitInv DEF ReadSource
  <2>8. CASE RunNode
    BY <2>8, <1>4, RunNodeFitInv DEF RunNode
  <2>9. CASE Finished
    BY <2>9, <1>4, FinishedFitInv DEF Finished
  <2>10. CASE WriteTile \/ Evict \/ Done \/ UNCHANGED vars
    <3>1. UNCHANGED <<compileVars, tile, need, sourceNeed, held, buffers, borrowed, sourceRegion>>
          /\ (pc' = pc \/ pc' = "idle")
      BY <2>10 DEF WriteTile, Evict, Done, vars, execVars
    <3> QED
      BY <3>1, <1>1, QuietFitInv
  <2> QED
    BY <2>1, <2>2, <2>3, <2>4, <2>5, <2>6, <2>7, <2>8, <2>9, <2>10 DEF Next
<1> QED
  BY <1>2, <1>3, <1>5 DEF SizedInv

\* When the sizes of every graph fit together, no slice of a tile buffer, of a cached
\* tile or of lent memory is longer than what it is taken from, and a slot's rows are
\* nested with what it wants (execute_tile over the buffers PipelineArena::compile sized).
THEOREM SlicesAreInBounds ==
  ASSUME \A g \in Graphs : SoundGraph(g) /\ SizedGraph(g)
  PROVE  Spec => []SlicesInBounds
<1>1. SizedInv /\ [Next]_vars => SizedInv'
  BY SizedInvInductive
<1>2. SizedInv => SlicesInBounds
  <2> SUFFICES ASSUME SizedInv PROVE SlicesInBounds
    OBVIOUS
  <2>1. CASE pc = "idle"
    BY <2>1 DEF SlicesInBounds, SlicesFit
  <2>2. CASE pc # "idle"
    <3>1. SoundGraph(graph) /\ SizedGraph(graph) /\ phase = "compiled"
      BY <2>2 DEF SizedInv, ExecInv, BufferInv, CompileTypeOK, RunInv, PoolInv
    <3> QED
      BY <3>1, <2>2, CompiledRunning, SlicesFitNow DEF SlicesInBounds
  <2> QED
    BY <2>1, <2>2
<1> QED
  BY InitSizedInv, <1>1, <1>2, PTL DEF Spec
=============================================================================
