--------------------------- MODULE KvCacheProofs ---------------------------
(***************************************************************************)
(* Proofs about KvCache, for any number of layers and steps and any graph. *)
(* The argument: a node that has begun has all it needs done (Closed), so  *)
(* every attention of the pass before it is done (InOrder), so nothing     *)
(* overwrites rows before their last reader (Held).                        *)
(***************************************************************************)
EXTENDS KvCache, TLAPS

Begun == running \cup done

\* What a node needs is done before it begins.
Closed == \A n \in Begun : Sources(n) \subseteq done

Crosses(n) == n.op \in {"crossk", "crossv"}

\* a comes in the residual stream before n.
Precedes(a, n) ==
  /\ a.op = "attend" /\ ~Crosses(n)
  /\ \/ 0 < a.s /\ a.s < n.s
     \/ a.s = n.s /\ a.l < n.l

InOrder == \A n \in Begun : \A a \in Nodes : Precedes(a, n) => a \in done

\* m and n write the same rows for p, m after n.
Over(m, n, p) ==
  /\ p \in Written(m) /\ p \in Written(n)
  /\ Buffer(m.l) = Buffer(n.l)
  /\ \/ n.s = 0 /\ m.s = 0 /\ n.l < m.l
     \/ 0 < n.s /\ n.s < m.s

\* What n wrote for p.
Holds(n, p) ==
  IF n.s = 0 THEN prefix[Buffer(n.l)][p] = n.l ELSE step[Buffer(n.l)][p] = n.s

Held ==
  \A n \in done : \A p \in Written(n) :
    (\A m \in Begun : ~Over(m, n, p)) => Holds(n, p)

IInv == TypeOK /\ Closed /\ InOrder /\ Held

-----------------------------------------------------------------------------
(* The graph. *)

LEMMA GraphShape ==
  ASSUME TypeOK
  PROVE  /\ graph.steps \in Nat /\ graph.fused \in BOOLEAN /\ graph.shared \in BOOLEAN
         /\ graph.cross \subseteq Layer
         /\ graph.shared => graph.steps = 0
BY KvAssumption DEF TypeOK, GraphType

LEMMA NodeShape ==
  ASSUME TypeOK, NEW n \in Nodes
  PROVE  /\ n \in [op : Op, s : 0 .. graph.steps, l : Layer]
         /\ n = Node(n.op, n.s, n.l)
         /\ n.op \in Op /\ n.s \in Nat /\ n.s <= graph.steps
         /\ n.l \in Nat /\ 1 <= n.l /\ n.l <= L
         /\ InGraph(n)
BY GraphShape, KvAssumption DEF Nodes, Node, Layer

LEMMA BufferShape ==
  ASSUME TypeOK, NEW l \in Layer
  PROVE  /\ Buffer(l) \in Layer
         /\ ~graph.shared => Buffer(l) = l
BY KvAssumption DEF Buffer, Layer

\* A node that writes is one of its layer's writes in its step, and the only
\* one that writes those rows.
LEMMA WriterOf ==
  ASSUME TypeOK, NEW n \in Nodes, NEW p \in Written(n)
  PROVE  /\ n \in Writes(n.s, n.l)
         /\ p \in Part
         /\ \A m \in Nodes : p \in Written(m) /\ m.s = n.s /\ m.l = n.l => m = n
         /\ n.s = 0 \/ n.l \notin graph.cross
<1>1. n.op \in Part \cup {"kv"} /\ p \in Part
  BY DEF Written
<1>2. n \in Writes(n.s, n.l)
  BY <1>1, NodeShape DEF Writes, Node, Part, InGraph
<1>3. ASSUME NEW m \in Nodes, p \in Written(m), m.s = n.s, m.l = n.l PROVE m = n
  <2>1. m.op \in Part \cup {"kv"}
    BY <1>3 DEF Written
  <2>2. m.op = n.op
    BY <1>1, <1>3, <2>1, NodeShape DEF Written, Part, InGraph
  <2> QED
    BY <1>3, <2>2, NodeShape DEF Node
<1> QED
  BY <1>1, <1>2, <1>3, NodeShape DEF InGraph

\* An attention waits for what writes the rows it reads.
LEMMA Waits ==
  ASSUME TypeOK, NEW n \in Nodes, NEW p \in Read(n)
  PROVE  /\ p \in Part
         /\ \E w \in Sources(n) : w \in Writes(0, n.l) /\ p \in Written(w) /\ w.s = 0 /\ w.l = n.l
         /\ n.s > 0 => \E w \in Sources(n) : w \in Writes(n.s, n.l) /\ p \in Written(w) /\ w.s = n.s /\ w.l = n.l
<1>1. p \in Part /\ (Attends(n) \/ n.op \in {"crossk", "crossv"})
  BY DEF Read, Part
<1>2. Writes(0, n.l) \subseteq Sources(n) /\ (n.s > 0 => Writes(n.s, n.l) \subseteq Sources(n))
  BY <1>1, NodeShape DEF Sources, Operands, Attends, InGraph
<1>3. ASSUME NEW s \in Nat
      PROVE  \E w \in Writes(s, n.l) : p \in Written(w) /\ w.s = s /\ w.l = n.l
  <2>1. CASE graph.fused
    <3>1. Node("kv", s, n.l) \in Writes(s, n.l) /\ p \in Written(Node("kv", s, n.l))
      BY <1>1, <2>1 DEF Writes, Written, Node, Part
    <3> QED
      BY <3>1 DEF Node
  <2>2. CASE ~graph.fused
    <3>1. Node(p, s, n.l) \in Writes(s, n.l) /\ p \in Written(Node(p, s, n.l))
      BY <1>1, <2>2 DEF Writes, Written, Node, Part
    <3> QED
      BY <3>1 DEF Node
  <2> QED
    BY <2>1, <2>2
<1> QED
  BY <1>1, <1>2, <1>3, NodeShape

\* An attention of the residual stream that writes its rows waits for them.
LEMMA AttentionWaits ==
  ASSUME TypeOK, NEW m \in Nodes, NEW p \in Written(m)
  PROVE  m \in Sources(Node("attend", m.s, m.l))
<1> DEFINE a == Node("attend", m.s, m.l)
<1>1. Attends(a) /\ a.s = m.s /\ a.l = m.l
  BY WriterOf DEF Attends, Node
<1>2. m \in Writes(a.s, a.l)
  BY <1>1, WriterOf
<1> QED
  BY <1>1, <1>2 DEF Sources

-----------------------------------------------------------------------------
(* What a node that has begun says about the writes before it. *)

\* Once n has written, whoever writes the same rows later has not begun, or
\* the others are done.
LEMMA WrittenBefore ==
  ASSUME TypeOK, Closed, InOrder, NEW n \in done, NEW m \in Nodes, NEW p,
         p \in Written(m), p \in Written(n), Buffer(m.l) = Buffer(n.l),
         m.s = 0 <=> n.s = 0, ~Over(m, n, p)
  PROVE  m \in done
<1> DEFINE a == Node("attend", m.s, m.l)
<1>1. n \in Nodes /\ n \in Begun
  BY DEF TypeOK, Begun
<1>2. CASE m.s = n.s /\ m.l = n.l
  BY <1>1, <1>2, WriterOf
<1>3. CASE ~(m.s = n.s /\ m.l = n.l)
  <2>1. /\ m.s \in Nat /\ n.s \in Nat /\ m.l \in Layer /\ n.l \in Layer
        /\ m.l \in Nat /\ n.l \in Nat /\ m.s <= graph.steps
    BY <1>1, NodeShape DEF Layer
  <2>2. ~(n.s = 0 /\ m.s = 0 /\ n.l < m.l) /\ ~(0 < n.s /\ n.s < m.s)
    BY DEF Over
  <2>3. ASSUME n.s = 0 PROVE m.s = 0 /\ m.l < n.l /\ graph.steps = 0
    <3>1. m.s = 0 /\ m.l < n.l
      BY <1>3, <2>1, <2>2, <2>3
    <3> QED
      BY <2>1, <3>1, BufferShape, GraphShape
  <2>4. ASSUME n.s # 0 PROVE m.s # 0 /\ m.s < n.s
    <3>1. m.s # 0 /\ ~graph.shared
      BY <2>1, <2>4, GraphShape
    <3>2. m.l = n.l
      BY <2>1, <3>1, BufferShape
    <3> QED
      BY <1>3, <2>1, <2>2, <2>4, <3>1, <3>2
  <2>5. /\ m.s = 0 => n.s = 0 /\ m.l < n.l /\ graph.steps = 0
        /\ m.s # 0 => m.s < n.s
    BY <2>3, <2>4
  <2>6. a \in Nodes
    BY <2>1, <2>5 DEF Nodes, Node, Op, Part, InGraph
  <2>7. ~Crosses(n)
    BY DEF Written, Crosses, Part
  <2>8. Precedes(a, n)
    BY <2>1, <2>5, <2>7 DEF Precedes, Node
  <2>9. a \in done
    BY <1>1, <2>6, <2>8 DEF InOrder
  <2> QED
    BY <2>9, AttentionWaits DEF Closed, Begun
<1> QED
  BY <1>2, <1>3

\* As long as a node reads rows, no later write of them has begun.
LEMMA NoLaterWrite ==
  ASSUME TypeOK, InOrder, NEW n \in running, NEW p \in Read(n), NEW w \in Nodes,
         p \in Written(w), w.l = n.l, w.s = 0 \/ w.s = n.s,
         NEW m \in Begun
  PROVE  ~Over(m, w, p)
<1> SUFFICES ASSUME Over(m, w, p) PROVE FALSE
  OBVIOUS
<1>1. n \in Nodes /\ m \in Nodes /\ n \notin done
  BY DEF TypeOK, Begun
<1>2. /\ m.s \in Nat /\ n.s \in Nat /\ w.s \in Nat /\ m.l \in Layer /\ n.l \in Layer
      /\ m.l \in Nat /\ n.l \in Nat /\ n.s <= graph.steps /\ m.s <= graph.steps
  BY <1>1, NodeShape DEF Layer
<1>3. p \in Written(m) /\ ~Crosses(m)
  BY DEF Over, Written, Crosses, Part
<1>4. CASE w.s = 0
  <2>1. m.s = 0 /\ n.l < m.l /\ Buffer(m.l) = Buffer(n.l)
    BY <1>2, <1>4 DEF Over
  <2>2. graph.steps = 0
    BY <1>2, <2>1, BufferShape, GraphShape
  <2>3. n.op = "attend" /\ n.s = 0
    BY <1>1, <1>2, <2>2, NodeShape DEF Read, Attends, InGraph
  <2>4. Precedes(n, m)
    BY <1>3, <2>1, <2>3 DEF Precedes
  <2> QED
    BY <1>1, <2>4 DEF InOrder
<1>5. CASE w.s # 0
  <2>1. n.s = w.s /\ 0 < n.s /\ n.s < m.s
    BY <1>2, <1>5 DEF Over
  <2>2. n.op = "attend"
    BY <1>1, <2>1, NodeShape DEF Read, Attends, InGraph
  <2>3. Precedes(n, m)
    BY <1>3, <2>1, <2>2 DEF Precedes
  <2> QED
    BY <1>1, <2>3 DEF InOrder
<1> QED
  BY <1>4, <1>5

\* The invariant gives the rows a reader sees.
LEMMA ReadsThem == IInv => ReadsOwnRows
<1> SUFFICES ASSUME IInv, NEW n \in running, NEW p \in Read(n)
             PROVE  /\ prefix[Buffer(n.l)][p] = n.l
                    /\ n.s > 0 => step[Buffer(n.l)][p] = n.s
  BY DEF ReadsOwnRows
<1>1. TypeOK /\ Closed /\ InOrder /\ Held /\ n \in Nodes /\ n \in Begun
  BY DEF IInv, TypeOK, Begun
<1>2. Sources(n) \subseteq done /\ done \subseteq Nodes
  BY <1>1 DEF Closed, TypeOK
<1>3. ASSUME NEW w \in Sources(n), p \in Written(w), w.l = n.l, w.s = 0 \/ w.s = n.s
      PROVE  Holds(w, p)
  BY <1>1, <1>2, <1>3, NoLaterWrite DEF Held
<1>4. n.s \in Nat
  BY <1>1, NodeShape
<1>5. prefix[Buffer(n.l)][p] = n.l
  <2>1. PICK w \in Sources(n) : w \in Writes(0, n.l) /\ p \in Written(w) /\ w.s = 0 /\ w.l = n.l
    BY <1>1, Waits
  <2> QED
    BY <1>3, <2>1 DEF Holds
<1>6. ASSUME n.s > 0 PROVE step[Buffer(n.l)][p] = n.s
  <2>1. PICK w \in Sources(n) : w \in Writes(n.s, n.l) /\ p \in Written(w) /\ w.s = n.s /\ w.l = n.l
    BY <1>1, <1>6, Waits
  <2> QED
    BY <1>3, <1>4, <1>6, <2>1 DEF Holds
<1> QED
  BY <1>5, <1>6

-----------------------------------------------------------------------------
(* The steps. *)

\* Putting rows changes those of the node's step, buffer and parts, and no other.
LEMMA PutRows ==
  ASSUME TypeOK, NEW n \in Nodes, NEW x \in 0 .. L, NEW y \in 0 .. graph.steps, Put(n, x, y)
  PROVE  /\ prefix' \in [Layer -> [Part -> 0 .. L]] /\ step' \in [Layer -> [Part -> 0 .. graph.steps]]
         /\ \A b \in Layer, p \in Part :
              /\ ~(n.s = 0 /\ b = Buffer(n.l) /\ p \in Written(n)) => prefix'[b][p] = prefix[b][p]
              /\ ~(n.s # 0 /\ b = Buffer(n.l) /\ p \in Written(n)) => step'[b][p] = step[b][p]
         /\ \A p \in Written(n) :
              IF n.s = 0 THEN prefix'[Buffer(n.l)][p] = x ELSE step'[Buffer(n.l)][p] = y
<1> DEFINE b == Buffer(n.l)
<1>1. b \in Layer /\ Written(n) \subseteq Part
  BY NodeShape, BufferShape DEF Written, Layer
<1> HIDE DEF b
<1>2. CASE n.s = 0
  <2>1. /\ prefix' = [prefix EXCEPT ![b] = [p \in Part |-> IF p \in Written(n) THEN x ELSE @[p]]]
        /\ step' = step
    BY <1>2 DEF Put, b
  <2> QED
    BY <1>1, <1>2, <2>1 DEF TypeOK, b
<1>3. CASE n.s # 0
  <2>1. /\ step' = [step EXCEPT ![b] = [p \in Part |-> IF p \in Written(n) THEN y ELSE @[p]]]
        /\ prefix' = prefix
    BY <1>3 DEF Put, b
  <2> QED
    BY <1>1, <1>3, <2>1 DEF TypeOK, b
<1> QED
  BY <1>2, <1>3

\* Rows that a node holds are kept when another that is not done, and does not
\* come over them, writes.
LEMMA HoldsKept ==
  ASSUME TypeOK, Closed, InOrder, NEW n \in done, NEW p \in Written(n), Holds(n, p),
         NEW m \in Nodes, m \notin done, ~Over(m, n, p),
         NEW x \in 0 .. L, NEW y \in 0 .. graph.steps, Put(m, x, y), UNCHANGED graph
  PROVE  Holds(n, p)'
<1>1. n \in Nodes /\ p \in Part
  BY WriterOf DEF TypeOK
<1>2. Buffer(n.l) \in Layer
  BY <1>1, NodeShape, BufferShape DEF Layer
<1>3. ~(p \in Written(m) /\ Buffer(m.l) = Buffer(n.l) /\ (m.s = 0 <=> n.s = 0))
  BY WrittenBefore
<1>4. /\ n.s = 0 => prefix'[Buffer(n.l)][p] = prefix[Buffer(n.l)][p]
      /\ n.s # 0 => step'[Buffer(n.l)][p] = step[Buffer(n.l)][p]
  BY <1>1, <1>2, <1>3, PutRows
<1> QED
  BY <1>4 DEF Holds, Buffer

LEMMA BeginInv == ASSUME IInv, NEW n \in Nodes, Begin(n) PROVE IInv'
<1> USE DEF Begin
<1>1. TypeOK /\ Closed /\ InOrder /\ Held
  BY DEF IInv
<1>2. 0 \in 0 .. L /\ 0 \in 0 .. graph.steps
  BY <1>1, GraphShape, KvAssumption
<1>3. Begun' = Begun \cup {n} /\ done' = done /\ Nodes' = Nodes
  BY DEF Begun, Nodes, InGraph
<1>4. TypeOK'
  BY <1>1, <1>2, <1>3, PutRows DEF TypeOK
<1>5. \A x : Sources(x)' = Sources(x)
  BY DEF Sources, Operands, Stream, Writes, Attends
<1>6. Closed'
  BY <1>1, <1>3, <1>5 DEF Closed
<1>7. InOrder'
  <2> SUFFICES ASSUME NEW a \in Nodes, Precedes(a, n) PROVE a \in done
    BY <1>1, <1>3 DEF InOrder, Precedes, Crosses
  <2>1. /\ a.s \in Nat /\ n.s \in Nat /\ a.l \in Nat /\ n.l \in Nat /\ 1 <= n.l /\ 1 <= a.l /\ a.l <= L
        /\ a = Node(a.op, a.s, a.l)
    BY <1>1, NodeShape
  <2>2. Stream(n.s, n.l) \subseteq done
    BY DEF Sources, Operands, Precedes, Crosses
  <2>3. CASE n.l > 1
    <3> DEFINE b == Node("attend", n.s, n.l - 1)
    <3>1. b \in done
      BY <2>2, <2>3 DEF Stream
    <3>2. a = b \/ Precedes(a, b)
      BY <2>1, <2>3 DEF Precedes, Node, Crosses
    <3> QED
      BY <1>1, <3>1, <3>2 DEF InOrder, Begun
  <2>4. CASE n.l = 1
    <3>1. 0 < a.s /\ a.s < n.s
      BY <2>1, <2>4 DEF Precedes
    <3> DEFINE b == Node("attend", n.s - 1, L)
    <3>2. b \in done
      BY <2>1, <2>2, <2>4, <3>1 DEF Stream
    <3>3. a = b \/ Precedes(a, b)
      BY <2>1, <3>1, KvAssumption DEF Precedes, Node, Crosses
    <3> QED
      BY <1>1, <3>2, <3>3 DEF InOrder, Begun
  <2> QED
    BY <2>1, <2>3, <2>4
<1>8. Held'
  <2> SUFFICES ASSUME NEW m \in done, NEW p \in Written(m), \A k \in Begun' : ~Over(k, m, p)'
               PROVE  Holds(m, p)'
    BY <1>3 DEF Held, Written
  <2>1. \A k \in Begun' : ~Over(k, m, p)
    BY DEF Over, Written, Buffer
  <2>2. Holds(m, p)
    BY <1>1, <1>3, <2>1 DEF Held
  <2> QED
    BY <1>1, <1>2, <1>3, <2>1, <2>2, HoldsKept
<1> QED
  BY <1>4, <1>6, <1>7, <1>8 DEF IInv

LEMMA EndInv == ASSUME IInv, NEW n \in Nodes, End(n) PROVE IInv'
<1> USE DEF End
<1>1. TypeOK /\ Closed /\ InOrder /\ Held
  BY DEF IInv
<1>2. n.l \in 0 .. L /\ n.s \in 0 .. graph.steps /\ n \notin done
  BY <1>1, NodeShape, GraphShape, KvAssumption DEF TypeOK
<1>3. Begun' = Begun /\ done' = done \cup {n} /\ Nodes' = Nodes
  BY DEF Begun, Nodes, InGraph
<1>4. TypeOK'
  BY <1>1, <1>2, <1>3, PutRows DEF TypeOK
<1>5. \A x : Sources(x)' = Sources(x)
  BY DEF Sources, Operands, Stream, Writes, Attends
<1>6. Closed'
  BY <1>1, <1>3, <1>5 DEF Closed
<1>7. InOrder'
  BY <1>1, <1>3 DEF InOrder, Precedes, Crosses
<1>8. Held'
  <2> SUFFICES ASSUME NEW m \in done', NEW p \in Written(m), \A k \in Begun : ~Over(k, m, p)
               PROVE  Holds(m, p)'
    BY <1>3 DEF Held, Written, Over, Buffer
  <2>1. CASE m = n
    <3>1. IF n.s = 0 THEN prefix'[Buffer(n.l)][p] = n.l ELSE step'[Buffer(n.l)][p] = n.s
      BY <1>1, <1>2, <2>1, PutRows
    <3> QED
      BY <2>1, <3>1 DEF Holds, Buffer
  <2>2. CASE m \in done
    <3>1. Holds(m, p)
      BY <1>1, <2>2 DEF Held
    <3>2. ~Over(n, m, p)
      BY DEF Begun
    <3> QED
      BY <1>1, <1>2, <2>2, <3>1, <3>2, HoldsKept
  <2> QED
    BY <1>3, <2>1, <2>2
<1> QED
  BY <1>4, <1>6, <1>7, <1>8 DEF IInv

LEMMA NextCallInv == ASSUME IInv, NextCall PROVE IInv'
<1> USE DEF NextCall
<1>1. running = {} /\ Nodes' = Nodes /\ Begun' = {}
  BY DEF IInv, TypeOK, Begun, Nodes, InGraph
<1>2. 0 \in 0 .. L /\ 0 \in 0 .. graph.steps
  BY GraphShape, KvAssumption DEF IInv
<1>3. TypeOK'
  BY <1>1, <1>2 DEF IInv, TypeOK, Unwritten
<1> QED
  BY <1>1, <1>3 DEF IInv, Closed, InOrder, Held

LEMMA InitInv == Init => IInv
<1> SUFFICES ASSUME Init PROVE IInv
  OBVIOUS
<1> USE DEF Init
<1>1. graph.steps \in Nat
  BY KvAssumption DEF GraphType
<1>2. TypeOK
  BY <1>1, KvAssumption DEF TypeOK, Unwritten
<1> QED
  BY <1>2 DEF IInv, Closed, InOrder, Held, Begun

LEMMA NextInv == IInv /\ [Next]_vars => IInv'
<1> SUFFICES ASSUME IInv, [Next]_vars PROVE IInv'
  OBVIOUS
<1>1. CASE NextCall
  BY <1>1, NextCallInv
<1>2. CASE \E n \in Nodes : Begin(n) \/ End(n)
  BY <1>2, BeginInv, EndInv
<1>3. CASE UNCHANGED vars
  BY <1>3 DEF vars, IInv, TypeOK, Closed, InOrder, Held, Holds, Over, Begun, Precedes, Crosses, Nodes, InGraph,
     Sources, Operands, Stream, Writes, Written, Attends, Buffer
<1> QED
  BY <1>1, <1>2, <1>3 DEF Next

-----------------------------------------------------------------------------
(* For any number of layers and steps, whichever layers cross-attend, and in *)
(* any order a backend may take, every state has the type.                  *)
THEOREM TypeCorrect == Spec => []TypeOK
<1>1. IInv => TypeOK
  BY DEF IInv
<1> QED
  BY <1>1, InitInv, NextInv, PTL DEF Spec

(* And whatever reads K or V rows reads those of its layer's prefix pass and *)
(* of its own step.                                                         *)
THEOREM OwnRows == Spec => []ReadsOwnRows
BY InitInv, NextInv, ReadsThem, PTL DEF Spec
=============================================================================
