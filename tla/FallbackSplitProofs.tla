------------------------- MODULE FallbackSplitProofs -------------------------
(***************************************************************************)
(* Proofs about FallbackSplit, for every set of graphs, every number of    *)
(* slots and nodes, every accelerator and every value an op may compute.   *)
(***************************************************************************)
EXTENDS FallbackSplit, TLAPS

(* Where the loop variables are, by the phase the calling thread is in. *)
Control ==
  /\ pc = "pull" => k \in 1 .. g.n
  /\ pc = "run"  => lo <= g.n + 1
  /\ pc \in {"build", "compute", "writeback"} =>
       /\ lo <= k /\ k < hi /\ hi <= g.n + 1
       /\ queue.next = queue.end
  /\ queue.next < queue.end =>
       pc = "run" /\ queue.end = lo /\ queue.end <= g.n + 1

-----------------------------------------------------------------------------
(* How many nodes have left their result in device memory. *)
OnDevice ==
  CASE pc \in {"idle", "classify", "pull", "fill"} -> 0
    [] pc \in {"build", "compute"} -> lo - 1
    [] pc = "writeback" -> k - 1
    [] OTHER -> IF queue.next < queue.end THEN queue.next - 1 ELSE lo - 1

(* Once decided, a node that computes something has a side, a run has one  *)
(* side, and what is queued is the accelerator's.                          *)
Sides ==
  /\ pc \in {"pull", "fill", "run", "build", "compute", "writeback"} =>
       \A i \in Writers(g) : where[i] # "either"
  /\ pc = "run" => \A i \in lo .. g.n : where[i] # "either"
  /\ pc \in {"build", "compute", "writeback"} =>
       /\ \A i \in lo .. hi - 1 : where[i] = "cpu"
       /\ \A i \in hi .. g.n : where[i] # "either"
  /\ queue.next < queue.end =>
       /\ \A i \in queue.next .. queue.end - 1 : i \in Writers(g) => where[i] = "accel"
       /\ lo <= g.n => where[lo] = "cpu"

\* Node m is a copy the NPU computes.
NpuCopy(m) == accel.hexagon /\ m \in Node(g) /\ g.op[m] = "copy" /\ where[m] = "accel"

(* After the backward walk no node on the CPU reads a copy the NPU makes. *)
Pulled ==
  \A i \in Writers(g) :
    /\ \/ pc = "pull" /\ i > k
       \/ pc \in {"fill", "run", "build", "compute", "writeback"}
    /\ where[i] = "cpu"
    => \A s \in g.src[i] : ~NpuCopy(g.prod[s])

(* A cell the host cannot read back holds an NPU copy, for every value a   *)
(* node has yet to read.                                                   *)
NpuCells ==
  pc # "idle" =>
    \A i \in Writers(g) : \A s \in g.src[i] :
      OnDevice < i /\ g.prod[s] <= OnDevice /\ g.cell[s] \in npu => NpuCopy(g.prod[s])

(* The mirrors are the weights, and weights do not change. *)
Mirrors ==
  /\ \A b \in Weight : mem[b] = WeightVal(b) /\ (mirror[b] # Unset => mirror[b] = WeightVal(b))
  /\ \A b \in Input : mirror[b] = Unset

\* A CPU run is being worked on, and its nodes before Built have host tensors.
OnCpu == pc \in {"build", "compute", "writeback"}
Built == IF pc = "build" THEN k ELSE hi

(* Host objects of a CPU run: a tensor from outside has a copy or an alias *)
(* of its own, a node of the run has pool storage, a view or an in-place   *)
(* node the object of its base.                                            *)
Objects ==
  OnCpu =>
    /\ \A t \in Tensor(g) :
         shadow[t] # NoObj =>
           /\ t < lo => shadow[t] = HostObj(t)
           /\ t >= lo => /\ t < Built
                         /\ shadow[t] = IF g.base[t] = t THEN PoolObj(t) ELSE shadow[g.base[t]]
           /\ shadow[t].kind = "mirror" => mirror[g.base[t]] = WeightVal(g.base[t])
    /\ \A i \in lo .. Built - 1 : \A s \in g.src[i] \cup {g.base[i], i} : shadow[s] # NoObj

\* Up to where the run has been computed, and written back.
Computed == IF pc = "build" THEN lo ELSE IF pc = "compute" THEN k ELSE hi
Written  == IF pc = "writeback" THEN k ELSE lo

(* A host object holds the value of every tensor a node of the run has yet *)
(* to read through it.                                                     *)
ShadowsCurrent ==
  pc \in {"build", "compute"} =>
    \A i \in Writers(g) : \A s \in g.src[i] : \A t \in {s, g.base[s]} :
      /\ Computed <= i /\ i < hi
      /\ g.prod[s] < Computed
      /\ shadow[t] # NoObj
      => Content(shadow[t]) = logical[g.cell[s]]

\* Node i is the last computed node of the run to write its cell.
LastOnCell(i) ==
  /\ i \in Writers(g)
  /\ lo <= i /\ i < Computed
  /\ \A m \in Writers(g) : i < m /\ m < Computed => g.cell[m] # g.cell[i]

(* Device memory lags behind only where a result waits to be written back, *)
(* and what waits is the value the cell has logically.                     *)
Pending ==
  /\ pc \notin {"compute", "writeback"} => mem = logical
  /\ pc \in {"compute", "writeback"} =>
       /\ \A c \in Cell :
            (\A m \in Writers(g) : Written <= m /\ m < Computed => g.cell[m] # c)
              => mem[c] = logical[c]
       /\ \A i \in Writers(g) :
            LastOnCell(i) /\ Written <= i => Content(shadow[i]) = logical[g.cell[i]]

-----------------------------------------------------------------------------
\* Facts about the graphs of one call, for use in the leaves.
LEMMA GraphFacts ==
  ASSUME TypeOK
  PROVE  /\ g.n \in Nat /\ g.n <= MaxNode
         /\ \A t \in Tensor(g) : g.base[t] \in Tensor(g) /\ g.cell[t] \in Cell
         /\ \A i \in Writers(g) : g.cell[i] \in Slot
         /\ Tensor(g) \subseteq AnyTensor
         /\ \A i \in 1 .. g.n : g.src[i] \subseteq Tensor(g)
<1>1. WellFormed(g) /\ g.n \in Nat /\ g.n <= MaxNode /\ MaxNode \in Nat
  BY SplitAssumption DEF TypeOK, WellFormed, GraphShape
<1>2. \A t \in Tensor(g) : g.base[t] \in Tensor(g) /\ g.cell[t] \in Cell
  BY <1>1 DEF WellFormed, GraphShape
<1>3. \A i \in Writers(g) : g.cell[i] \in Slot
  <2> SUFFICES ASSUME NEW i \in Writers(g) PROVE g.cell[i] \in Slot
    OBVIOUS
  <2>1. i \in Tensor(g)
    BY DEF Writers, Tensor, Node
  <2>2. g.cell[i] \notin Weight
    BY <1>1, <2>1 DEF WellFormed, WeightsFixed
  <2> QED
    BY <1>2, <2>1, <2>2 DEF Cell
<1>4. Tensor(g) \subseteq AnyTensor
  BY <1>1 DEF Tensor, Node, AnyTensor
<1>5. \A i \in 1 .. g.n : g.src[i] \subseteq Tensor(g)
  BY <1>1 DEF WellFormed, GraphShape, Node
<1> QED
  BY <1>1, <1>2, <1>3, <1>4, <1>5

LEMMA ValidGraph ==
  ASSUME NEW h \in ValidGraphs
  PROVE  WellFormed(h) /\ h.n \in Nat /\ h.n <= MaxNode
BY SplitAssumption DEF ValidGraphs, WellFormed, GraphShape

LEMMA InitType == Init => TypeOK /\ Control
<1> SUFFICES ASSUME Init PROVE TypeOK /\ Control
  OBVIOUS
<1>1. g \in ValidGraphs
  BY SplitAssumption DEF Init
<1>2. WellFormed(g) /\ g.n \in Nat /\ g.n <= MaxNode
  BY <1>1, ValidGraph
<1>3. TypeOK
  BY <1>2, SplitAssumption DEF Init, TypeOK, LoadedMem, NoObj, AnyTensor
<1>4. Control
  BY <1>2 DEF Init, Control
<1> QED
  BY <1>3, <1>4

LEMMA StepType == TypeOK /\ Control /\ [Next]_vars => TypeOK' /\ Control'
<1> SUFFICES ASSUME TypeOK, Control, [Next]_vars PROVE TypeOK' /\ Control'
  OBVIOUS
<1>1. /\ g.n \in Nat /\ g.n <= MaxNode
      /\ \A t \in Tensor(g) : g.base[t] \in Tensor(g) /\ g.cell[t] \in Cell
      /\ \A i \in Writers(g) : g.cell[i] \in Slot
      /\ Tensor(g) \subseteq AnyTensor
      /\ \A i \in 1 .. g.n : g.src[i] \subseteq Tensor(g)
      /\ MaxNode \in Nat
  BY GraphFacts, SplitAssumption
<1>2. CASE Call
  <2>1. PICK h \in ValidGraphs : g' = h
    <3>1. Callable \subseteq ValidGraphs
      BY SplitAssumption DEF Callable
    <3>2. \E h \in Callable : g' = h
      BY <1>2 DEF Call
    <3> QED
      BY <3>1, <3>2
  <2>2. WellFormed(g') /\ g'.n \in Nat /\ g'.n <= MaxNode
    BY <2>1, ValidGraph
  <2>3. mem' = [c \in Cell |-> mem'[c]] /\ logical' = mem' /\ npu' \subseteq Slot
    BY <1>2 DEF Call, TypeOK
  <2>4. TypeOK'
    BY <1>2, <2>2, <2>3 DEF Call, TypeOK
  <2>5. Control'
    BY <1>2 DEF Call, Control
  <2> QED
    BY <2>4, <2>5
<1>3. CASE ComputeAllOnAccel
  <2>1. where' \in [1 .. MaxNode -> {"accel", "cpu", "either"}]
    BY <1>3 DEF ComputeAllOnAccel, Decided
  <2> QED
    BY <1>1, <1>3, <2>1 DEF ComputeAllOnAccel, TypeOK, Control
<1>4. CASE Classify
  <2>1. where' \in [1 .. MaxNode -> {"accel", "cpu", "either"}]
    BY <1>4 DEF Classify, Decided
  <2>2. g.n \in 1 .. g.n
    BY <1>1, <1>4 DEF Classify, Refused, Node
  <2>3. TypeOK'
    BY <1>1, <1>4, <2>1 DEF Classify, TypeOK
  <2>4. Control'
    BY <1>1, <1>4, <2>2 DEF Classify, Control
  <2> QED
    BY <2>3, <2>4
<1>5. CASE PullCopies
  <2>1. where' \in [1 .. MaxNode -> {"accel", "cpu", "either"}]
    BY <1>5 DEF PullCopies, TypeOK
  <2>2. TypeOK'
    BY <1>1, <1>5, <2>1 DEF PullCopies, TypeOK, Control
  <2>3. Control'
    BY <1>1, <1>5 DEF PullCopies, Control
  <2> QED
    BY <2>2, <2>3
<1>6. CASE FillViews
  <2>1. where' \in [1 .. MaxNode -> {"accel", "cpu", "either"}]
    BY <1>6 DEF FillViews, TypeOK
  <2> QED
    BY <1>1, <1>6, <2>1 DEF FillViews, TypeOK, Control
<1>7. CASE RunOnAccel
  <2>1. PICK j \in Node(g) \cup {g.n + 1} :
          IsRun(j) /\ queue' = [next |-> lo, end |-> j] /\ lo' = j
    BY <1>7 DEF RunOnAccel
  <2>2. j \in 1 .. g.n + 1 /\ lo < j
    BY <1>1, <2>1 DEF IsRun, Node
  <2> QED
    BY <1>1, <1>7, <2>1, <2>2 DEF RunOnAccel, TypeOK, Control
<1>8. CASE RunOnCpu
  <2>1. hi' \in 1 .. g.n + 1 /\ lo < hi'
    BY <1>1, <1>8 DEF RunOnCpu, IsRun, Node
  <2>2. TypeOK'
    BY <1>1, <1>8, <2>1 DEF RunOnCpu, TypeOK, NoObj, AnyTensor
  <2>3. Control'
    BY <1>1, <1>8, <2>1 DEF RunOnCpu, TypeOK, Control
  <2> QED
    BY <2>2, <2>3
<1>9. CASE BuildNode
  <2>1. k \in 1 .. g.n /\ k \in Tensor(g)
    BY <1>1, <1>9 DEF BuildNode, Control, TypeOK, Tensor, Node
  <2>2. Missing \subseteq Tensor(g)
    BY <1>1, <2>1 DEF Missing
  <2> DEFINE Obj == [kind : {"none", "pool", "mirror", "device"}, at : AnyTensor \cup Cell \cup {0}]
             got == [t \in AnyTensor |-> IF t \in Missing THEN HostObj(t) ELSE shadow[t]]
  <2>3. \A t \in Missing : HostObj(t) \in Obj
    BY <1>1, <2>2 DEF HostObj, DeviceObj, MirrorObj, PoolObj
  <2>4. got \in [AnyTensor -> Obj]
    BY <2>3 DEF TypeOK
  <2>5. PoolObj(k) \in Obj /\ got[g.base[k]] \in Obj
    BY <1>1, <2>1, <2>4 DEF PoolObj
  <2>6. shadow' = [got EXCEPT ![k] = IF g.base[k] = k THEN PoolObj(k) ELSE got[g.base[k]]]
    BY <1>9 DEF BuildNode
  <2>7. shadow' \in [AnyTensor -> Obj]
    BY <2>4, <2>5, <2>6
  <2>8. TypeOK'
    BY <1>1, <1>9, <2>1, <2>7 DEF BuildNode, TypeOK, Control
  <2>9. Control'
    BY <1>1, <1>9, <2>1 DEF BuildNode, TypeOK, Control
  <2> QED
    BY <2>8, <2>9
<1>10. CASE ComputeNode
  <2>1. k \in 1 .. g.n
    BY <1>1, <1>10 DEF ComputeNode, Control, TypeOK
  <2>2. /\ mem' = [c \in Cell |-> mem'[c]]
        /\ logical' = [c \in Cell |-> logical'[c]]
        /\ pool' = [t \in AnyTensor |-> pool'[t]]
        /\ mirror' = [b \in Leaf |-> mirror'[b]]
    BY <1>10 DEF ComputeNode, TypeOK
  <2>3. TypeOK'
    BY <1>1, <1>10, <2>1, <2>2 DEF ComputeNode, TypeOK, Control
  <2>4. Control'
    BY <1>1, <1>10, <2>1 DEF ComputeNode, TypeOK, Control
  <2> QED
    BY <2>3, <2>4
<1>11. CASE WriteBack
  <2>1. k \in 1 .. g.n
    BY <1>1, <1>11 DEF WriteBack, Control, TypeOK
  <2>2. mem' = [c \in Cell |-> mem'[c]] /\ npu' \subseteq Slot
    BY <1>11 DEF WriteBack, TypeOK
  <2>3. TypeOK'
    BY <1>1, <1>11, <2>1, <2>2 DEF WriteBack, TypeOK, Control
  <2>4. Control'
    BY <1>1, <1>11, <2>1 DEF WriteBack, TypeOK, Control
  <2> QED
    BY <2>3, <2>4
<1>12. CASE FailRun
  BY <1>1, <1>12 DEF FailRun, TypeOK, Control
<1>13. CASE Return
  BY <1>1, <1>13 DEF Return, TypeOK, Control
<1>14. CASE AccelStep
  <2>1. /\ mem' = [c \in Cell |-> mem'[c]] /\ logical' = [c \in Cell |-> logical'[c]]
        /\ npu' \subseteq Slot
    BY <1>1, <1>14 DEF AccelStep, TypeOK
  <2>2. queue' \in [next : 1 .. MaxNode + 1, end : 1 .. MaxNode + 1]
    <3>1. queue.next \in 1 .. MaxNode + 1 /\ queue.end \in 1 .. MaxNode + 1
      BY DEF TypeOK
    <3>2. queue.next + 1 \in 1 .. MaxNode + 1
      BY <1>1, <1>14, <3>1 DEF AccelStep
    <3> QED
      BY <1>14, <3>2 DEF AccelStep, TypeOK
  <2>3. TypeOK'
    BY <1>14, <2>1, <2>2 DEF AccelStep, TypeOK
  <2>4. Control'
    BY <1>1, <1>14 DEF AccelStep, TypeOK, Control
  <2> QED
    BY <2>3, <2>4
<1>15. CASE UNCHANGED vars
  BY <1>15 DEF vars, TypeOK, Control
<1> QED
  BY <1>2, <1>3, <1>4, <1>5, <1>6, <1>7, <1>8, <1>9, <1>10, <1>11, <1>12, <1>13, <1>14, <1>15
  DEF Next, InCall

-----------------------------------------------------------------------------
(* Facts about the graph of a call. *)

LEMMA NodeFacts ==
  ASSUME TypeOK, NEW i \in Node(g)
  PROVE  /\ i \in Int /\ 1 <= i /\ i <= g.n /\ i \in 1 .. MaxNode /\ i \in Tensor(g)
         /\ \A s \in g.src[i] : s \in Tensor(g) /\ s < i
<1>1. WellFormed(g) /\ g.n \in Nat /\ g.n <= MaxNode /\ MaxNode \in Nat
  BY SplitAssumption DEF TypeOK, WellFormed, GraphShape
<1>2. i \in 1 .. g.n /\ i \in Tensor(g)
  BY DEF Node, Tensor
<1>3. \A s \in g.src[i] : s \in Tensor(g) /\ s < i
  BY <1>1 DEF WellFormed, GraphShape, Topological
<1> QED
  BY <1>1, <1>2, <1>3

LEMMA WriterFacts ==
  ASSUME TypeOK, NEW i \in Writers(g)
  PROVE  i \in Node(g) /\ g.cell[i] \in Slot /\ g.base[i] \notin Weight /\ g.cell[i] \notin Weight
<1>1. WellFormed(g) /\ i \in Node(g)
  BY DEF TypeOK, Writers
<1>2. g.cell[i] \in Slot
  BY GraphFacts
<1> QED
  BY <1>1, <1>2, LeafAssumption DEF WellFormed, WeightsFixed

LEMMA TensorFacts ==
  ASSUME TypeOK, NEW t \in Tensor(g)
  PROVE  /\ t \in Int /\ t \in AnyTensor
         /\ g.base[t] \in Tensor(g) /\ g.base[t] <= t /\ g.base[g.base[t]] = g.base[t]
         /\ g.cell[t] \in Cell /\ g.cell[g.base[t]] = g.cell[t]
         /\ g.prod[t] \in Tensor(g) /\ g.prod[t] <= t
         /\ g.base[g.prod[t]] = g.base[t] /\ g.cell[g.prod[t]] = g.cell[t]
         /\ g.prod[t] \in Leaf \cup Writers(g)
         /\ g.cell[t] \in Weight <=> g.base[t] \in Weight
         /\ g.base[t] \in Weight => g.cell[t] = g.base[t]
         /\ t \notin Node(g) => t \in Leaf /\ t <= 0 /\ g.base[t] = t
<1>1. WellFormed(g) /\ g.n \in Nat /\ g.n <= MaxNode /\ MaxNode \in Nat
  BY SplitAssumption DEF TypeOK, WellFormed, GraphShape
<1>2. t \in Int /\ t \in AnyTensor
  BY <1>1, LeafAssumption DEF Tensor, Node, Leaf, AnyTensor
<1>3. /\ g.base[t] \in Tensor(g) /\ g.prod[t] \in Tensor(g) /\ g.cell[t] \in Cell
  BY <1>1 DEF WellFormed, GraphShape
<1>4. /\ g.base[t] <= t /\ g.base[g.base[t]] = g.base[t] /\ g.cell[g.base[t]] = g.cell[t]
      /\ g.prod[t] <= t /\ g.base[g.prod[t]] = g.base[t] /\ g.op[g.prod[t]] # "view"
      /\ (t \in Leaf => g.base[t] = t)
  BY <1>1 DEF WellFormed, Aliasing
<1>5. g.cell[g.prod[t]] = g.cell[t]
  BY <1>1, <1>3, <1>4 DEF WellFormed, Aliasing
<1>6. g.prod[t] \in Leaf \cup Writers(g)
  BY <1>3, <1>4 DEF Tensor, Writers
<1>7. (g.cell[t] \in Weight <=> g.base[t] \in Weight) /\ (g.base[t] \in Weight => g.cell[t] = g.base[t])
  BY <1>1, <1>4 DEF WellFormed, WeightsFixed
<1>8. t \notin Node(g) => t \in Leaf /\ t <= 0
  BY LeafAssumption DEF Tensor
<1> QED
  BY <1>2, <1>3, <1>4, <1>5, <1>6, <1>7, <1>8

\* What a node reads is not overwritten between its producer and the node.
LEMMA ReadStays ==
  ASSUME TypeOK, NEW i \in Writers(g), NEW s \in g.src[i], NEW m \in Writers(g), g.prod[s] < m, m < i
  PROVE  g.cell[m] # g.cell[s]
BY DEF TypeOK, WellFormed, ReadsValid

-----------------------------------------------------------------------------
(* Sides. *)

LEMMA SidesInv == ASSUME TypeOK, Control, Sides, [Next]_vars PROVE Sides'
<1>1. g.n \in Nat /\ g.n <= MaxNode /\ MaxNode \in Nat
  BY GraphFacts, SplitAssumption
<1>2. \A i \in Writers(g) : i \in 1 .. MaxNode /\ i \in 1 .. g.n
  BY <1>1, WriterFacts, NodeFacts DEF Node
<1>3. CASE Call
  BY <1>3 DEF Call, Sides, Control
<1>4. CASE ComputeAllOnAccel
  <2>1. \A i \in Writers(g) : where'[i] = "accel"
    BY <1>2, <1>4 DEF ComputeAllOnAccel, Decided
  <2> QED
    BY <1>1, <1>4, <2>1 DEF ComputeAllOnAccel, Sides, Control
<1>5. CASE Classify
  <2>1. \A i \in Writers(g) : where'[i] # "either"
    BY <1>2, <1>5 DEF Classify, Decided
  <2> QED
    BY <1>5, <2>1 DEF Classify, Sides, Control
<1>6. CASE PullCopies
  <2>1. \A i \in Writers(g) : where'[i] # "either"
    BY <1>2, <1>6 DEF PullCopies, Sides
  <2> QED
    BY <1>6, <2>1 DEF PullCopies, Sides, Control
<1>7. CASE FillViews
  <2>1. \A i \in 1 .. MaxNode : where'[i] # "either"
    BY <1>7 DEF FillViews
  <2> QED
    BY <1>1, <1>2, <1>7, <2>1 DEF FillViews, Sides, Control
<1>8. CASE RunOnAccel
  <2>1. PICK j \in Node(g) \cup {g.n + 1} : IsRun(j) /\ queue' = [next |-> lo, end |-> j] /\ lo' = j
    BY <1>8 DEF RunOnAccel
  <2>2. /\ lo \in 1 .. g.n /\ j \in 1 .. g.n + 1 /\ lo < j /\ where[lo] = "accel"
        /\ pc = "run" /\ UNCHANGED <<pc, g, where>>
    BY <1>1, <1>8, <2>1 DEF RunOnAccel, IsRun, Node, TypeOK
  <2>3. \A i \in lo .. j - 1 : where[i] = "accel"
    BY <2>1, <2>2 DEF IsRun
  <2>4. \A i \in j .. g.n : where[i] # "either"
    BY <1>1, <2>2 DEF Sides
  <2>5. j <= g.n => where[j] = "cpu"
    <3> SUFFICES ASSUME j <= g.n PROVE where[j] = "cpu"
      OBVIOUS
    <3>1. where[j] # "accel" /\ where[j] # "either" /\ where[j] \in {"accel", "cpu", "either"}
      BY <1>1, <2>1, <2>2, <2>4 DEF IsRun, TypeOK
    <3> QED
      BY <3>1
  <2> QED
    BY <2>1, <2>2, <2>3, <2>4, <2>5 DEF Sides
<1>9. CASE RunOnCpu
  <2>1. /\ lo \in 1 .. g.n /\ IsRun(hi') /\ hi' \in 1 .. g.n + 1 /\ where[lo] = "cpu" /\ pc = "run"
        /\ pc' = "build" /\ queue.next = queue.end /\ UNCHANGED <<g, where, lo, queue>>
    BY <1>1, <1>9 DEF RunOnCpu, IsRun, Node, TypeOK
  <2>2. lo < hi' /\ \A i \in lo .. hi' - 1 : where[i] = "cpu"
    BY <2>1 DEF IsRun
  <2>3. \A i \in hi' .. g.n : where[i] # "either"
    BY <1>1, <2>1, <2>2 DEF Sides
  <2>4. queue \in [next : 1 .. MaxNode + 1, end : 1 .. MaxNode + 1]
    BY DEF TypeOK
  <2> QED
    BY <2>1, <2>2, <2>3, <2>4 DEF Sides
<1>10. CASE BuildNode
  BY <1>10 DEF BuildNode, Sides, Control
<1>11. CASE ComputeNode
  BY <1>11 DEF ComputeNode, Sides, Control
<1>12. CASE WriteBack
  BY <1>12 DEF WriteBack, Sides, Control, TypeOK
<1>13. CASE FailRun
  BY <1>13 DEF FailRun, Sides, Control, TypeOK
<1>14. CASE Return
  BY <1>14 DEF Return, Sides, Control, TypeOK
<1>15. CASE AccelStep
  <2>1. /\ queue.next < queue.end /\ queue' = [queue EXCEPT !.next = queue.next + 1]
        /\ UNCHANGED <<g, pc, where, lo, hi>> /\ pc = "run"
    BY <1>15 DEF AccelStep, Control
  <2>2. queue.next \in Int /\ queue.end \in Int /\ queue'.next = queue.next + 1 /\ queue'.end = queue.end
    BY <2>1 DEF TypeOK
  <2> QED
    BY <2>1, <2>2 DEF Sides
<1>16. CASE UNCHANGED vars
  BY <1>16 DEF vars, Sides
<1> QED
  BY <1>3, <1>4, <1>5, <1>6, <1>7, <1>8, <1>9, <1>10, <1>11, <1>12, <1>13, <1>14, <1>15, <1>16
  DEF Next, InCall

-----------------------------------------------------------------------------
(* The copies that feed the CPU. *)

\* A copy is a writer.
LEMMA CopyWrites == ASSUME NEW m \in Node(g), g.op[m] = "copy" PROVE m \in Writers(g)
BY DEF Writers

LEMMA PulledInv == ASSUME TypeOK, Control, Sides, Pulled, [Next]_vars PROVE Pulled'
<1>1. g.n \in Nat /\ g.n <= MaxNode /\ MaxNode \in Nat
  BY GraphFacts, SplitAssumption
<1>2. \A i \in Writers(g) : i \in 1 .. MaxNode /\ i \in 1 .. g.n
  BY <1>1, WriterFacts, NodeFacts DEF Node
<1>3. CASE Call
  BY <1>3 DEF Call, Pulled
<1>4. CASE ComputeAllOnAccel
  <2>1. \A i \in Writers(g) : where'[i] = "accel"
    BY <1>2, <1>4 DEF ComputeAllOnAccel, Decided
  <2> QED
    BY <1>4, <2>1 DEF ComputeAllOnAccel, Pulled
<1>5. CASE Classify
  <2>1. CASE accel.hexagon
    BY <1>1, <1>2, <1>5, <2>1 DEF Classify, Pulled
  <2>2. CASE ~accel.hexagon
    BY <1>5, <2>2 DEF Classify, Pulled, NpuCopy
  <2> QED
    BY <2>1, <2>2
<1>6. CASE PullCopies
  <2>1. /\ pc = "pull" /\ k \in 1 .. g.n /\ k' = k - 1 /\ UNCHANGED <<g, accel>>
        /\ where' = IF where[k] = "cpu"
                      THEN [i \in 1 .. MaxNode |-> IF i \in CopiesFeeding(k) THEN "cpu" ELSE where[i]]
                      ELSE where
    BY <1>6 DEF PullCopies, Control
  <2>2. where \in [1 .. MaxNode -> {"accel", "cpu", "either"}]
    BY DEF TypeOK
  <2>3. \A m : NpuCopy(m)' => NpuCopy(m)
    BY <1>1, <2>1, <2>2 DEF NpuCopy, Node
  <2>4. \A m \in CopiesFeeding(k) : m < k
    <3> SUFFICES ASSUME NEW s \in g.src[k], g.prod[s] \in Node(g) PROVE g.prod[s] < k
      BY DEF CopiesFeeding
    <3>1. s \in Tensor(g) /\ s < k /\ k \in Int
      BY <2>1, NodeFacts DEF Node
    <3>2. g.prod[s] <= s /\ s \in Int /\ g.prod[s] \in Int
      BY <3>1, TensorFacts, NodeFacts
    <3> QED
      BY <3>1, <3>2
  <2> SUFFICES ASSUME NEW i \in Writers(g), i > k - 1, where'[i] = "cpu", NEW s \in g.src[i],
                      NEW p, p = g.prod[s]
               PROVE  ~NpuCopy(p)'
    <3>1. pc' \in {"pull", "fill"} /\ (pc' = "fill" => k' = 0 /\ k = 1)
      BY <1>6, <2>1 DEF PullCopies
    <3>2. \A i \in Writers(g) : i > 0
      BY <1>2
    <3>3. ASSUME NEW i \in Writers(g)', (pc' = "pull" /\ i > k') \/ pc' \in {"fill", "run", "build", "compute", "writeback"}
          PROVE  i \in Writers(g) /\ i > k - 1
      BY <2>1, <3>1, <3>2, <3>3
    <3> QED
      BY <2>1, <3>3 DEF Pulled
  <2>5. i >= k /\ i \in 1 .. MaxNode
    BY <1>2, <2>1
  <2>6. CASE i > k
    <3>1. where[i] = "cpu"
      BY <2>1, <2>2, <2>4, <2>5, <2>6
    <3> QED
      BY <2>1, <2>3, <2>6, <3>1 DEF Pulled
  <2>7. CASE i = k
    <3>1. where[k] = "cpu"
      BY <2>1, <2>5, <2>7
    <3>2. ASSUME NpuCopy(p) PROVE ~NpuCopy(p)'
      <4>1. p \in CopiesFeeding(k)
        BY <2>7, <3>2 DEF CopiesFeeding, NpuCopy
      <4>2. where'[p] = "cpu"
        BY <1>1, <2>1, <3>1, <3>2, <4>1 DEF NpuCopy, Node
      <4> QED
        BY <2>1, <4>2 DEF NpuCopy
    <3> QED
      BY <2>3, <3>2
  <2> QED
    BY <2>1, <2>5, <2>6, <2>7
<1>7. CASE FillViews
  <2>1. \A i \in Writers(g) : where'[i] = where[i]
    BY <1>2, <1>7 DEF FillViews, Sides
  <2>2. UNCHANGED <<g, accel>> /\ pc = "fill"
    BY <1>7 DEF FillViews
  <2>3. \A m : NpuCopy(m)' => NpuCopy(m)
    BY <2>1, <2>2, CopyWrites DEF NpuCopy
  <2> QED
    BY <2>1, <2>2, <2>3 DEF Pulled
<1>8. ASSUME UNCHANGED <<g, accel, where>>, pc' = "idle" \/ (pc \in {"fill", "run", "build", "compute", "writeback"} /\ pc' # "pull")
                                            \/ UNCHANGED <<pc, k>>
      PROVE  Pulled'
  BY <1>8 DEF Pulled, NpuCopy
<1>9. CASE RunOnAccel \/ RunOnCpu \/ BuildNode \/ ComputeNode \/ WriteBack
  BY <1>8, <1>9 DEF RunOnAccel, RunOnCpu, BuildNode, ComputeNode, WriteBack
<1>10. CASE FailRun \/ Return \/ AccelStep \/ UNCHANGED vars
  BY <1>8, <1>10 DEF FailRun, Return, AccelStep, vars
<1> QED
  BY <1>3, <1>4, <1>5, <1>6, <1>7, <1>9, <1>10 DEF Next, InCall

-----------------------------------------------------------------------------
(* The cells the host cannot read back. *)

\* While nothing has run, what a node reads of a leaf is read as it was filled.
LEMMA NothingRun ==
  ASSUME TypeOK, \A l \in Input : g.cell[l] \notin npu,
         NEW t \in Tensor(g), g.prod[t] \in Leaf
  PROVE  g.cell[t] \notin npu
<1>1. g.cell[t] = g.cell[g.prod[t]] /\ g.prod[t] \in Tensor(g) /\ g.base[g.prod[t]] = g.base[t]
  BY TensorFacts
<1>2. g.prod[t] \in Weight => g.cell[g.prod[t]] \in Weight
  BY DEF TypeOK, WellFormed, WeightsFixed
<1>3. npu \cap Weight = {}
  BY LeafAssumption DEF TypeOK
<1> QED
  BY <1>1, <1>2, <1>3 DEF Leaf

\* NpuCells, while the number of nodes that have run is n.
NpuCellsAt(n) ==
  \A i \in Writers(g) : \A s \in g.src[i] :
    n < i /\ g.prod[s] <= n /\ g.cell[s] \in npu => NpuCopy(g.prod[s])

InputsClear == \A l \in Input : g.cell[l] \notin npu

(* Before a node has run no input is in a cell of npu. *)
InputsReadable ==
  pc \in {"classify", "pull", "fill"} => InputsClear

LEMMA StartsReadable == TypeOK /\ InputsClear => NpuCellsAt(0)
<1> SUFFICES ASSUME TypeOK, InputsClear PROVE NpuCellsAt(0)
  OBVIOUS
<1> SUFFICES ASSUME NEW i \in Writers(g), NEW s \in g.src[i], g.prod[s] <= 0 PROVE g.cell[s] \notin npu
  BY DEF NpuCellsAt
<1>1. s \in Tensor(g)
  BY WriterFacts, NodeFacts
<1>2. g.prod[s] \in Leaf \cup Writers(g)
  BY <1>1, TensorFacts
<1>3. \A m \in Writers(g) : m >= 1 /\ m \in Int
  BY WriterFacts, NodeFacts
<1>4. g.prod[s] \in Leaf
  BY <1>2, <1>3
<1> QED
  BY <1>1, <1>4, NothingRun DEF InputsClear

\* Node n + 1 runs: on the NPU, or by a result that is written back.
LEMMA RunsOnNpu ==
  ASSUME TypeOK, NEW m \in 1 .. g.n, NpuCellsAt(m - 1), UNCHANGED <<g, accel, where>>,
         IF m \in Writers(g)
           THEN \/ npu' = npu \ {g.cell[m]}
                \/ npu' = npu \cup {g.cell[m]} /\ NpuCopy(m)
           ELSE npu' = npu
  PROVE  NpuCellsAt(m)'
<1>1. m \in Node(g)
  BY DEF Node
<1> SUFFICES ASSUME NEW i \in Writers(g), NEW s \in g.src[i], NEW p, p = g.prod[s],
                    m < i, p <= m, g.cell[s] \in npu'
             PROVE  NpuCopy(p)'
  BY DEF NpuCellsAt, Writers
<1>2. s \in Tensor(g) /\ i \in Int
  BY WriterFacts, NodeFacts
<1>3. p \in Leaf \cup Writers(g) /\ g.cell[p] = g.cell[s] /\ p \in Int
  <2>1. p \in Tensor(g)
    BY <1>2, TensorFacts
  <2> QED
    BY <1>2, <2>1, TensorFacts
<1>4. \A q : NpuCopy(q)' <=> NpuCopy(q)
  BY DEF NpuCopy
<1>5. CASE p = m
  <2>1. m \in Writers(g)
    BY <1>1, <1>3, <1>5, LeafAssumption DEF Node
  <2>2. g.cell[s] = g.cell[m]
    BY <1>3, <1>5
  <2> QED
    BY <1>4, <1>5, <2>1, <2>2
<1>6. CASE p < m
  <2>1. m \in Writers(g) => g.cell[m] # g.cell[s]
    BY <1>6, ReadStays
  <2>2. g.cell[s] \in npu
    BY <2>1
  <2>3. NpuCopy(p)
    BY <1>2, <1>3, <1>6, <2>2 DEF NpuCellsAt
  <2> QED
    BY <1>4, <2>3
<1> QED
  BY <1>3, <1>5, <1>6

LEMMA NpuCellsInv ==
  ASSUME TypeOK, TypeOK', Control, Sides, NpuCells, InputsReadable, [Next]_vars
  PROVE  NpuCells' /\ InputsReadable'
<1>1. g.n \in Nat /\ g.n <= MaxNode /\ MaxNode \in Nat
  BY GraphFacts, SplitAssumption
<1>2. NpuCells <=> (pc # "idle" => NpuCellsAt(OnDevice))
  BY DEF NpuCells, NpuCellsAt
<1>3. NpuCells' <=> (pc' # "idle" => \A n : n = OnDevice' => NpuCellsAt(n)')
  BY DEF NpuCells, NpuCellsAt
<1>4. lo \in 1 .. MaxNode + 1 /\ hi \in 1 .. MaxNode + 1 /\ k \in 0 .. MaxNode + 1
      /\ queue.next \in 1 .. MaxNode + 1 /\ queue.end \in 1 .. MaxNode + 1
  BY DEF TypeOK
<1>5. CASE Call
  <2>1. InputsClear'
    BY <1>5 DEF Call, InputCells, InputsClear
  <2>2. pc' = "classify"
    BY <1>5 DEF Call
  <2>3. NpuCellsAt(0)'
    BY <2>1, StartsReadable, PTL
  <2> QED
    BY <1>3, <2>1, <2>2, <2>3 DEF OnDevice, InputsReadable
<1>6. CASE ComputeAllOnAccel \/ Classify \/ PullCopies \/ FillViews
  <2>1. pc \in {"classify", "pull", "fill"} /\ UNCHANGED <<g, npu, accel>>
    BY <1>6 DEF ComputeAllOnAccel, Classify, PullCopies, FillViews
  <2>2. InputsClear'
    BY <2>1 DEF InputsReadable, InputsClear
  <2>3. NpuCellsAt(0)'
    BY <2>2, StartsReadable, PTL
  <2>4. OnDevice' = 0
    BY <1>1, <1>4, <1>6 DEF ComputeAllOnAccel, Classify, PullCopies, FillViews, OnDevice, Control
  <2> QED
    BY <1>3, <2>2, <2>3, <2>4 DEF InputsReadable
<1>7. ASSUME UNCHANGED <<g, npu, accel, where>>, pc # "idle", OnDevice' = OnDevice,
             pc' \in {"run", "build", "compute", "writeback"}
      PROVE  NpuCells' /\ InputsReadable'
  <2>1. NpuCellsAt(OnDevice)
    BY <1>2, <1>7
  <2>2. \A n : NpuCellsAt(n)' <=> NpuCellsAt(n)
    BY <1>7 DEF NpuCellsAt, NpuCopy
  <2> QED
    BY <1>3, <1>7, <2>1, <2>2 DEF InputsReadable
<1>8. CASE RunOnAccel
  <2>1. PICK j \in Node(g) \cup {g.n + 1} : IsRun(j) /\ queue' = [next |-> lo, end |-> j] /\ lo' = j
    BY <1>8 DEF RunOnAccel
  <2>2. pc = "run" /\ pc' = "run" /\ where[lo] = "accel" /\ lo <= g.n /\ UNCHANGED <<g, npu, accel, where>>
    BY <1>8 DEF RunOnAccel
  <2>3. ~(queue.next < queue.end)
    BY <2>2 DEF Sides
  <2>4. OnDevice = lo - 1 /\ OnDevice' = lo - 1
    BY <1>1, <1>4, <2>1, <2>2, <2>3 DEF OnDevice, IsRun
  <2> QED
    BY <1>7, <2>2, <2>4
<1>9. CASE RunOnCpu
  <2>1. /\ pc = "run" /\ pc' = "build" /\ queue.next = queue.end /\ lo' = lo
        /\ UNCHANGED <<g, npu, accel, where>>
    BY <1>9 DEF RunOnCpu
  <2>2. OnDevice = lo - 1 /\ OnDevice' = lo - 1
    BY <1>4, <2>1 DEF OnDevice
  <2> QED
    BY <1>7, <2>1, <2>2
<1>10. CASE BuildNode
  <2>1. /\ pc = "build" /\ pc' \in {"build", "compute"} /\ lo' = lo /\ UNCHANGED <<g, npu, accel, where>>
    BY <1>10 DEF BuildNode
  <2> QED
    BY <1>7, <2>1 DEF OnDevice
<1>11. CASE ComputeNode
  <2>1. /\ pc = "compute" /\ lo' = lo /\ UNCHANGED <<g, npu, accel, where>>
        /\ \/ pc' = "compute"
           \/ pc' = "writeback" /\ k' = lo
    BY <1>11 DEF ComputeNode
  <2>2. OnDevice = lo - 1 /\ OnDevice' = lo - 1
    BY <2>1 DEF OnDevice
  <2> QED
    BY <1>7, <2>1, <2>2
<1>12. CASE WriteBack
  <2>1. /\ pc = "writeback" /\ k' = k + 1 /\ UNCHANGED <<g, accel, where, queue>>
        /\ \/ pc' = "writeback" /\ k + 1 # hi
           \/ pc' = "run" /\ lo' = hi /\ k + 1 = hi
        /\ npu' = IF k \in Writers(g) THEN npu \ {g.cell[k]} ELSE npu
    BY <1>12 DEF WriteBack
  <2>2. k \in 1 .. g.n /\ queue.next = queue.end
    BY <1>1, <1>4, <2>1 DEF Control
  <2>3. OnDevice = k - 1 /\ OnDevice' = k
    BY <1>4, <2>1, <2>2 DEF OnDevice
  <2>4. NpuCellsAt(k - 1)
    BY <1>2, <2>1, <2>3
  <2>5. PICK m \in 1 .. g.n : m = k
    BY <2>2
  <2>6. NpuCellsAt(m)'
    BY <2>1, <2>4, <2>5, RunsOnNpu
  <2> QED
    BY <1>3, <2>1, <2>3, <2>5, <2>6 DEF InputsReadable
<1>13. CASE FailRun \/ Return
  BY <1>13 DEF FailRun, Return, NpuCells, InputsReadable
<1>14. CASE AccelStep
  <2>1. PICK m : m = queue.next
    OBVIOUS
  <2>2. /\ pc = "run" /\ queue.end = lo /\ m \in 1 .. g.n /\ m < queue.end
        /\ UNCHANGED <<g, accel, where, pc, lo>> /\ queue' = [queue EXCEPT !.next = @ + 1]
    BY <1>1, <1>4, <1>14, <2>1 DEF AccelStep, Control
  <2>3. OnDevice = m - 1 /\ OnDevice' = m
    <3>1. queue'.next = m + 1 /\ queue'.end = lo
      BY <2>1, <2>2 DEF TypeOK
    <3> QED
      BY <1>4, <2>1, <2>2, <3>1 DEF OnDevice
  <2>4. NpuCellsAt(m - 1)
    BY <1>2, <2>2, <2>3
  <2>5. m \in Writers(g) => where[m] = "accel"
    BY <1>4, <2>1, <2>2 DEF Sides
  <2>6. IF m \in Writers(g)
          THEN \/ npu' = npu \ {g.cell[m]}
               \/ npu' = npu \cup {g.cell[m]} /\ NpuCopy(m)
          ELSE npu' = npu
    BY <1>14, <2>1, <2>2, <2>5 DEF AccelStep, NpuCopy, Node
  <2>7. NpuCellsAt(m)'
    BY <2>2, <2>4, <2>6, RunsOnNpu
  <2> QED
    BY <1>3, <2>2, <2>3, <2>7 DEF InputsReadable
<1>15. CASE UNCHANGED vars
  BY <1>15 DEF vars, NpuCells, InputsReadable, InputsClear, OnDevice, NpuCopy
<1> QED
  BY <1>5, <1>6, <1>8, <1>9, <1>10, <1>11, <1>12, <1>13, <1>14, <1>15 DEF Next, InCall

-----------------------------------------------------------------------------
(* Host objects. *)

LEMMA ObjectOf ==
  ASSUME TypeOK, Objects, OnCpu, NEW t \in Tensor(g), shadow[t] # NoObj
  PROVE  shadow[t] = IF g.base[t] >= lo THEN PoolObj(g.base[t])
                     ELSE IF t < lo THEN HostObj(t) ELSE HostObj(g.base[t])
<1>1. lo \in Int /\ t \in Int /\ g.base[t] \in Tensor(g) /\ g.base[t] \in Int /\ g.base[t] <= t
      /\ g.base[g.base[t]] = g.base[t]
  <2>1. lo \in Int
    BY SplitAssumption DEF TypeOK
  <2> QED
    BY <2>1, TensorFacts
<1>2. CASE t < lo
  BY <1>1, <1>2 DEF Objects
<1>3. CASE t >= lo /\ g.base[t] = t
  BY <1>1, <1>3 DEF Objects
<1>4. CASE t >= lo /\ g.base[t] # t
  <2>1. shadow[t] = shadow[g.base[t]]
    BY <1>4 DEF Objects
  <2> QED
    BY <1>1, <1>4, <2>1 DEF Objects
<1> QED
  BY <1>1, <1>2, <1>3, <1>4

\* An object is in the cell of the tensors that have it, or for one of them.
LEMMA ObjectCell ==
  ASSUME TypeOK, Objects, OnCpu, NEW t \in Tensor(g), shadow[t] # NoObj
  PROVE  \/ shadow[t] = DeviceObj(g.cell[t])
         \/ shadow[t] = PoolObj(t) \/ shadow[t] = PoolObj(g.base[t])
         \/ shadow[t] = MirrorObj(g.base[t]) /\ g.base[t] \in Weight
<1>1. g.base[g.base[t]] = g.base[t] /\ g.cell[g.base[t]] = g.cell[t]
  BY TensorFacts
<1>2. shadow[t] \in {PoolObj(g.base[t]), HostObj(t), HostObj(g.base[t])}
  BY ObjectOf
<1> QED
  BY <1>1, <1>2 DEF HostObj

\* What a node of the run writes: never a mirror.
LEMMA WriterObject ==
  ASSUME TypeOK, Objects, OnCpu, NEW i \in Writers(g), i >= lo, shadow[i] # NoObj
  PROVE  shadow[i] = IF g.base[i] < lo /\ accel.hostVisible THEN DeviceObj(g.cell[i]) ELSE PoolObj(g.base[i])
<1>1. i \in Tensor(g) /\ i \in Int /\ g.base[i] \notin Weight /\ lo \in Int
  BY WriterFacts, NodeFacts, SplitAssumption DEF TypeOK
<1>2. g.base[g.base[i]] = g.base[i] /\ g.cell[g.base[i]] = g.cell[i] /\ g.base[i] \in Int
  BY <1>1, TensorFacts
<1> QED
  BY <1>1, <1>2, ObjectOf DEF HostObj

\* One iteration of the loop that builds the host graph.
LEMMA Building ==
  ASSUME TypeOK, Control, Mirrors, Objects, BuildNode
  PROVE  /\ k \in Node(g) /\ lo <= k /\ k < hi /\ pc = "build" /\ UNCHANGED <<accel, g, mem, lo, hi>>
         /\ \A t \in Missing : t \in Tensor(g) /\ t < lo /\ shadow[t] = NoObj /\ shadow'[t] = HostObj(t)
         /\ shadow[k] = NoObj
         /\ \A t \in Tensor(g) : t # k /\ t \notin Missing => shadow'[t] = shadow[t]
         /\ shadow'[k] = IF g.base[k] = k THEN PoolObj(k) ELSE shadow'[g.base[k]]
         /\ \A s \in g.src[k] \cup {g.base[k], k} : shadow'[s] # NoObj
         /\ \A b \in Weight : mirror[b] = WeightVal(b) => mirror'[b] = WeightVal(b)
         /\ \A t \in Missing : HostObj(t).kind = "mirror" => mirror'[g.base[t]] = WeightVal(g.base[t])
         /\ \A t \in AnyTensor : pool'[t] = IF t \in Missing /\ HostObj(t).kind = "pool" THEN ReadBack(t) ELSE pool[t]
<1>1. /\ k \in Node(g) /\ lo <= k /\ k < hi /\ pc = "build" /\ UNCHANGED <<accel, g, mem, lo, hi>>
      /\ lo \in Int /\ k \in Int
  <2>1. /\ pc = "build" /\ UNCHANGED <<accel, g, mem, lo, hi>>
    BY DEF BuildNode
  <2>2. lo \in 1 .. MaxNode + 1 /\ k \in 0 .. MaxNode + 1 /\ hi \in 1 .. MaxNode + 1 /\ g.n \in Nat /\ MaxNode \in Nat
    BY GraphFacts, SplitAssumption DEF TypeOK
  <2>3. lo <= k /\ k < hi /\ hi <= g.n + 1
    BY <2>1 DEF Control
  <2> QED
    BY <2>1, <2>2, <2>3 DEF Node
<1>2. k \in Tensor(g) /\ g.base[k] \in Tensor(g) /\ g.base[k] <= k /\ g.base[k] \in Int
      /\ \A s \in g.src[k] : s \in Tensor(g) /\ s < k /\ s \in Int
  BY <1>1, NodeFacts, TensorFacts
<1>3. OnCpu /\ Built = k
  BY <1>1 DEF OnCpu, Built
<1>4. \A t \in Missing : t \in Tensor(g) /\ t < lo /\ shadow[t] = NoObj
  <2> SUFFICES ASSUME NEW t \in Missing PROVE t < lo /\ t \in Tensor(g) /\ shadow[t] = NoObj
    OBVIOUS
  <2>1. t \in Tensor(g) /\ t \in Int /\ t < k /\ shadow[t] = NoObj
    BY <1>1, <1>2 DEF Missing
  <2>2. t >= lo => shadow[t] # NoObj
    BY <1>1, <1>3, <2>1 DEF Objects
  <2> QED
    BY <1>1, <2>1, <2>2
<1>5. shadow[k] = NoObj
  BY <1>1, <1>2, <1>3 DEF Objects
<1> DEFINE got == [t \in AnyTensor |-> IF t \in Missing THEN HostObj(t) ELSE shadow[t]]
<1>6. shadow' = [got EXCEPT ![k] = IF g.base[k] = k THEN PoolObj(k) ELSE got[g.base[k]]]
  BY DEF BuildNode
<1>7. Tensor(g) \subseteq AnyTensor
  BY TensorFacts
<1>8. \A t \in Tensor(g) : t # k => shadow'[t] = got[t]
  BY <1>6, <1>7
<1>9. shadow'[k] = IF g.base[k] = k THEN PoolObj(k) ELSE got[g.base[k]]
  BY <1>2, <1>6, <1>7
<1>10. \A t \in Missing : shadow'[t] = HostObj(t)
  <2> SUFFICES ASSUME NEW t \in Missing PROVE shadow'[t] = HostObj(t)
    OBVIOUS
  <2>1. t \in Tensor(g) /\ t \in AnyTensor /\ t # k
    BY <1>1, <1>4, <1>7
  <2>2. got[t] = HostObj(t)
    BY <2>1
  <2> QED
    BY <1>8, <2>1, <2>2
<1>11. \A t \in Tensor(g) : t # k /\ t \notin Missing => shadow'[t] = shadow[t]
  BY <1>7, <1>8
<1>12. shadow'[k] = IF g.base[k] = k THEN PoolObj(k) ELSE shadow'[g.base[k]]
  BY <1>2, <1>8, <1>9
<1>13. \A t \in Tensor(g) : HostObj(t) # NoObj /\ PoolObj(t) # NoObj
  BY DEF HostObj, NoObj, PoolObj, MirrorObj, DeviceObj
<1>14. \A s \in g.src[k] \cup {g.base[k]} : s # k => shadow'[s] # NoObj
  <2> SUFFICES ASSUME NEW s \in g.src[k] \cup {g.base[k]}, s # k PROVE shadow'[s] # NoObj
    OBVIOUS
  <2>1. CASE s \in Missing
    BY <1>4, <1>10, <1>13, <2>1
  <2>2. CASE s \notin Missing
    BY <1>2, <1>11, <2>2 DEF Missing
  <2> QED
    BY <2>1, <2>2
<1>15. \A s \in g.src[k] \cup {g.base[k], k} : shadow'[s] # NoObj
  <2>1. shadow'[k] # NoObj
    BY <1>2, <1>12, <1>13, <1>14
  <2> QED
    BY <1>14, <2>1
<1>16. \A b \in Leaf : mirror'[b] = IF mirror[b] = Unset /\ \E t \in Missing : HostObj(t) = MirrorObj(b)
                                     THEN mem[g.cell[b]] ELSE mirror[b]
  BY DEF BuildNode
<1>17. \A b \in Weight : g.cell[b] = b /\ mem[b] = WeightVal(b) /\ b \in Leaf
  BY DEF TypeOK, WellFormed, WeightsFixed, Mirrors, Leaf
<1>18. \A b \in Weight : mirror[b] = WeightVal(b) => mirror'[b] = WeightVal(b)
  BY <1>16, <1>17
<1>19. \A t \in Missing : HostObj(t).kind = "mirror" => mirror'[g.base[t]] = WeightVal(g.base[t])
  <2> SUFFICES ASSUME NEW t \in Missing, HostObj(t).kind = "mirror"
               PROVE  mirror'[g.base[t]] = WeightVal(g.base[t])
    OBVIOUS
  <2>1. g.base[t] \in Weight /\ HostObj(t) = MirrorObj(g.base[t])
    BY DEF HostObj, DeviceObj, PoolObj
  <2>2. mirror[g.base[t]] # Unset => mirror[g.base[t]] = WeightVal(g.base[t])
    BY <2>1 DEF Mirrors
  <2> QED
    BY <1>16, <1>17, <2>1, <2>2
<1>20. \A t \in AnyTensor : pool'[t] = IF t \in Missing /\ HostObj(t).kind = "pool" THEN ReadBack(t) ELSE pool[t]
  BY DEF BuildNode
<1> QED
  BY <1>1, <1>4, <1>5, <1>10, <1>11, <1>12, <1>15, <1>18, <1>19, <1>20

LEMMA ObjectsInv ==
  ASSUME TypeOK, Control, Mirrors, Objects, [Next]_vars
  PROVE  Objects'
<1>1. g.n \in Nat /\ g.n <= MaxNode /\ MaxNode \in Nat
  BY GraphFacts, SplitAssumption
<1>2. lo \in Int /\ hi \in Int /\ k \in Int
  BY <1>1 DEF TypeOK
<1>3. CASE RunOnCpu
  <2>1. pc' = "build" /\ k' = lo /\ lo' = lo /\ UNCHANGED g /\ \A t \in AnyTensor : shadow'[t] = NoObj
    BY <1>3 DEF RunOnCpu
  <2>2. \A t \in Tensor(g) : shadow'[t] = NoObj
    BY <2>1, TensorFacts
  <2> QED
    BY <1>2, <2>1, <2>2 DEF Objects, OnCpu, Built, Tensor, Node
<1>4. CASE BuildNode
  <2>1. pc = "build" /\ lo <= k /\ k < hi /\ k \in Node(g) /\ k \in Tensor(g) /\ UNCHANGED <<accel, g, mem, lo, hi>>
    BY <1>4, Building, NodeFacts
  <2>2. OnCpu /\ Built = k /\ Built' = k + 1
    <3>1. IF k + 1 = hi THEN pc' = "compute" ELSE pc' = "build" /\ k' = k + 1
      BY <1>4 DEF BuildNode
    <3> QED
      BY <2>1, <3>1 DEF OnCpu, Built
  <2>3. \A t \in Tensor(g) : HostObj(t)' = HostObj(t)
    BY <2>1 DEF HostObj
  <2>4. ASSUME NEW t \in Tensor(g), shadow'[t] # NoObj
        PROVE  /\ t < lo => shadow'[t] = HostObj(t)
               /\ t >= lo => /\ t < k + 1
                             /\ shadow'[t] = IF g.base[t] = t THEN PoolObj(t) ELSE shadow'[g.base[t]]
               /\ shadow'[t].kind = "mirror" => mirror'[g.base[t]] = WeightVal(g.base[t])
    <3>1. t \in Int /\ g.base[t] \in Tensor(g) /\ g.base[t] \in Int /\ g.base[t] <= t /\ g.base[g.base[t]] = g.base[t]
      BY TensorFacts
    <3>2. ASSUME NEW u \in Tensor(g), u # k, shadow'[u] # NoObj, u \notin Missing
          PROVE  /\ u < lo => shadow'[u] = HostObj(u)
                 /\ u >= lo => u < k /\ shadow[u] = IF g.base[u] = u THEN PoolObj(u) ELSE shadow[g.base[u]]
                 /\ shadow'[u].kind = "mirror" => mirror'[g.base[u]] = WeightVal(g.base[u])
      <4>1. shadow'[u] = shadow[u] /\ shadow[u] # NoObj
        BY <1>4, <3>2, Building
      <4>2. shadow[u].kind = "mirror" => g.base[u] \in Weight
        <5>1. \/ shadow[u] \in {DeviceObj(g.cell[u]), PoolObj(u), PoolObj(g.base[u])}
              \/ g.base[u] \in Weight
          BY <2>2, <4>1, ObjectCell
        <5> QED
          BY <5>1 DEF DeviceObj, PoolObj
      <4>3. \A b \in Weight : mirror[b] = WeightVal(b) => mirror'[b] = WeightVal(b)
        BY <1>4, Building
      <4> QED
        BY <2>2, <4>1, <4>2, <4>3 DEF Objects
    <3>3. ASSUME NEW u \in Missing
          PROVE  u < lo /\ shadow'[u] = HostObj(u)
                 /\ (shadow'[u].kind = "mirror" => mirror'[g.base[u]] = WeightVal(g.base[u]))
      BY <1>4, Building
    <3>4. CASE t = k
      <4>1. shadow'[k] = IF g.base[k] = k THEN PoolObj(k) ELSE shadow'[g.base[k]]
        BY <1>4, Building
      <4>2. shadow'[k].kind = "mirror" => mirror'[g.base[k]] = WeightVal(g.base[k])
        <5>1. CASE g.base[k] = k
          BY <4>1, <5>1 DEF PoolObj
        <5>2. CASE g.base[k] # k /\ g.base[k] \in Missing
          BY <3>1, <3>3, <3>4, <4>1, <5>2
        <5>3. CASE g.base[k] # k /\ g.base[k] \notin Missing
          <6>1. shadow'[g.base[k]] # NoObj
            BY <3>4, <4>1, <5>3, <2>4
          <6> QED
            BY <3>1, <3>2, <3>4, <4>1, <5>3, <6>1
        <5> QED
          BY <5>1, <5>2, <5>3
      <4> QED
        BY <1>2, <2>1, <3>4, <4>1, <4>2
    <3>5. CASE t # k /\ t \in Missing
      BY <1>2, <3>1, <3>3, <3>5
    <3>6. CASE t # k /\ t \notin Missing
      <4>1. /\ t < lo => shadow'[t] = HostObj(t)
            /\ t >= lo => t < k /\ shadow[t] = IF g.base[t] = t THEN PoolObj(t) ELSE shadow[g.base[t]]
            /\ shadow'[t].kind = "mirror" => mirror'[g.base[t]] = WeightVal(g.base[t])
        BY <2>4, <3>2, <3>6
      <4>2. shadow'[t] = shadow[t]
        BY <1>4, <3>6, Building
      <4>3. CASE t >= lo /\ g.base[t] # t
        <5>1. shadow[g.base[t]] # NoObj /\ g.base[t] # k
          BY <1>2, <2>4, <3>1, <4>1, <4>2, <4>3
        <5>2. g.base[t] \notin Missing
          BY <1>4, <5>1, Building
        <5>3. shadow'[g.base[t]] = shadow[g.base[t]]
          BY <1>4, <3>1, <5>1, <5>2, Building
        <5> QED
          BY <1>2, <2>1, <3>1, <4>1, <4>2, <4>3, <5>3
      <4> QED
        BY <1>2, <2>1, <3>1, <4>1, <4>2, <4>3
    <3> QED
      BY <3>4, <3>5, <3>6
  <2>5. ASSUME NEW i \in lo .. k, NEW s \in g.src[i] \cup {g.base[i], i} PROVE shadow'[s] # NoObj
    <3>1. CASE i = k
      BY <1>4, <2>5, <3>1, Building
    <3>2. CASE i # k
      <4>1. i \in lo .. Built - 1
        BY <1>2, <2>2, <2>5, <3>2
      <4>2. shadow[s] # NoObj
        BY <2>2, <2>5, <4>1 DEF Objects
      <4>3. i \in Node(g)
        BY <1>1, <1>2, <2>1, <2>5, <3>2 DEF Node, TypeOK
      <4>4. s \in Tensor(g) /\ s # k
        <5>1. g.base[i] \in Tensor(g) /\ g.base[i] <= i /\ g.base[i] \in Int /\ i \in Tensor(g)
          BY <4>3, NodeFacts, TensorFacts
        <5>2. \A u \in g.src[i] : u \in Tensor(g) /\ u < i /\ u \in Int
          BY <4>3, NodeFacts, TensorFacts
        <5> QED
          BY <1>2, <2>5, <3>2, <5>1, <5>2
      <4>5. s \notin Missing
        BY <1>4, <4>2, Building
      <4> QED
        BY <1>4, <4>2, <4>4, <4>5, Building
    <3> QED
      BY <3>1, <3>2
  <2>6. lo .. Built' - 1 = lo .. k
    BY <1>2, <2>2
  <2> QED
    BY <2>1, <2>2, <2>3, <2>4, <2>5, <2>6 DEF Objects, OnCpu, Tensor, Node, PoolObj
<1>5. CASE ComputeNode
  <2>1. /\ pc = "compute" /\ pc' \in {"compute", "writeback"} /\ UNCHANGED <<accel, g, lo, hi, shadow>>
    BY <1>5 DEF ComputeNode
  <2>2. mirror' = mirror
    <3>1. CASE k \in Writers(g)
      <4>1. lo <= k /\ k < hi
        BY <2>1 DEF Control
      <4>2. OnCpu /\ shadow[k] # NoObj
        BY <1>2, <2>1, <4>1 DEF Objects, OnCpu, Built
      <4>3. shadow[k].kind # "mirror"
        <5>1. shadow[k] \in {DeviceObj(g.cell[k]), PoolObj(g.base[k])}
          BY <1>2, <3>1, <4>1, <4>2, WriterObject
        <5> QED
          BY <5>1 DEF DeviceObj, PoolObj
      <4> QED
        BY <1>5, <3>1, <4>3 DEF ComputeNode
    <3>2. CASE k \notin Writers(g)
      BY <1>5, <3>2 DEF ComputeNode
    <3> QED
      BY <3>1, <3>2
  <2> QED
    BY <2>1, <2>2 DEF Objects, OnCpu, Built, HostObj
<1>6. CASE WriteBack
  <2>1. pc = "writeback" /\ pc' \in {"writeback", "run"} /\ UNCHANGED <<accel, g, hi, shadow, mirror>>
        /\ (pc' = "writeback" => lo' = lo)
    BY <1>6 DEF WriteBack
  <2> QED
    BY <2>1 DEF Objects, OnCpu, Built, HostObj
<1>7. CASE Call \/ ComputeAllOnAccel \/ Classify \/ PullCopies \/ FillViews \/ RunOnAccel \/ FailRun \/ Return
  BY <1>7 DEF Call, ComputeAllOnAccel, Classify, PullCopies, FillViews, RunOnAccel, FailRun, Return, Objects, OnCpu
<1>8. CASE AccelStep
  <2>1. pc = "run" /\ pc' = pc
    BY <1>8 DEF AccelStep, Control
  <2> QED
    BY <2>1 DEF Objects, OnCpu
<1>9. CASE UNCHANGED vars
  BY <1>9 DEF vars, Objects, OnCpu, Built, HostObj
<1> QED
  BY <1>3, <1>4, <1>5, <1>6, <1>7, <1>8, <1>9 DEF Next, InCall

-----------------------------------------------------------------------------
(* What a node of a CPU run does to memory, copies and mirrors. *)

\* The result goes to one object, and through it to every tensor that has it.
LEMMA Computing ==
  ASSUME TypeOK, Control, Objects, ComputeNode, k \in Writers(g)
  PROVE  /\ k \in Node(g) /\ lo <= k /\ k < hi /\ OnCpu /\ shadow[k] # NoObj /\ mirror' = mirror
         /\ g.cell[k] \in Slot /\ logical'[g.cell[k]] = CpuResult
         /\ \A c \in Cell \ {g.cell[k]} : mem'[c] = mem[c] /\ logical'[c] = logical[c]
         /\ \A t \in Tensor(g) :
              shadow[t] # NoObj =>
                /\ shadow[t] = shadow[k] => Content(shadow[t])' = CpuResult
                /\ g.cell[t] # g.cell[k] => Content(shadow[t])' = Content(shadow[t])
<1>1. pc = "compute" /\ lo <= k /\ k < hi /\ lo \in Int /\ hi \in Int /\ k \in Int
  BY SplitAssumption DEF ComputeNode, Control, TypeOK
<1>2. OnCpu /\ shadow[k] # NoObj
  BY <1>1 DEF Objects, OnCpu, Built
<1>3. k \in Node(g) /\ g.cell[k] \in Slot /\ g.cell[k] \in Cell /\ k \in Tensor(g)
  BY WriterFacts, NodeFacts DEF Cell
<1>4. g.base[k] \in AnyTensor /\ g.cell[g.base[k]] = g.cell[k]
  BY <1>3, TensorFacts
<1>5. shadow[k] \in {DeviceObj(g.cell[k]), PoolObj(g.base[k])}
  BY <1>1, <1>2, WriterObject
<1>6. /\ logical' = [logical EXCEPT ![g.cell[k]] = CpuResult] /\ shadow' = shadow
      /\ pool'   = IF shadow[k].kind = "pool"   THEN [pool EXCEPT ![shadow[k].at] = CpuResult] ELSE pool
      /\ mem'    = IF shadow[k].kind = "device" THEN [mem EXCEPT ![shadow[k].at] = CpuResult] ELSE mem
      /\ mirror' = IF shadow[k].kind = "mirror" THEN [mirror EXCEPT ![shadow[k].at] = CpuResult] ELSE mirror
  BY DEF ComputeNode
<1>7. mem = [c \in Cell |-> mem[c]] /\ logical = [c \in Cell |-> logical[c]] /\ pool = [t \in AnyTensor |-> pool[t]]
  BY DEF TypeOK
<1>8. logical'[g.cell[k]] = CpuResult /\ \A c \in Cell \ {g.cell[k]} : logical'[c] = logical[c]
  BY <1>3, <1>6, <1>7
<1> SUFFICES /\ mirror' = mirror
             /\ \A c \in Cell \ {g.cell[k]} : mem'[c] = mem[c]
             /\ \A t \in Tensor(g) :
                  shadow[t] # NoObj =>
                    /\ shadow[t] = shadow[k] => Content(shadow[t])' = CpuResult
                    /\ g.cell[t] # g.cell[k] => Content(shadow[t])' = Content(shadow[t])
  BY <1>1, <1>2, <1>3, <1>8
<1>9. ASSUME NEW t \in Tensor(g), shadow[t] # NoObj, g.cell[t] # g.cell[k]
      PROVE  /\ t \in AnyTensor /\ g.base[t] \in AnyTensor /\ t # g.base[k] /\ g.base[t] # g.base[k]
             /\ \/ shadow[t] = DeviceObj(g.cell[t]) /\ g.cell[t] \in Cell
                \/ shadow[t] = PoolObj(t) \/ shadow[t] = PoolObj(g.base[t])
                \/ shadow[t] = MirrorObj(g.base[t])
  <2>1. t \in AnyTensor /\ g.base[t] \in AnyTensor /\ g.cell[t] \in Cell /\ g.cell[g.base[t]] = g.cell[t]
    BY TensorFacts
  <2> QED
    BY <1>2, <1>4, <1>9, <2>1, ObjectCell
<1>10. CASE shadow[k] = DeviceObj(g.cell[k])
  <2>1. mem' = [mem EXCEPT ![g.cell[k]] = CpuResult] /\ pool' = pool /\ mirror' = mirror
    BY <1>6, <1>10 DEF DeviceObj
  <2>2. mem'[g.cell[k]] = CpuResult /\ \A c \in Cell \ {g.cell[k]} : mem'[c] = mem[c]
    BY <1>3, <1>7, <2>1
  <2>3. ASSUME NEW t \in Tensor(g), shadow[t] = shadow[k] PROVE Content(shadow[t])' = CpuResult
    BY <1>6, <1>10, <2>2, <2>3 DEF Content, DeviceObj
  <2>4. ASSUME NEW t \in Tensor(g), shadow[t] # NoObj, g.cell[t] # g.cell[k]
        PROVE  Content(shadow[t])' = Content(shadow[t])
    <3>1. CASE shadow[t] = DeviceObj(g.cell[t]) /\ g.cell[t] \in Cell
      BY <1>6, <2>2, <2>4, <3>1 DEF Content, DeviceObj
    <3>2. CASE \E u : shadow[t] = PoolObj(u)
      BY <1>6, <2>1, <3>2 DEF Content, PoolObj
    <3>3. CASE shadow[t] = MirrorObj(g.base[t])
      BY <1>6, <2>1, <3>3 DEF Content, MirrorObj
    <3> QED
      BY <1>9, <2>4, <3>1, <3>2, <3>3
  <2> QED
    BY <2>1, <2>2, <2>3, <2>4
<1>11. CASE shadow[k] = PoolObj(g.base[k])
  <2>1. pool' = [pool EXCEPT ![g.base[k]] = CpuResult] /\ mem' = mem /\ mirror' = mirror
    BY <1>6, <1>11 DEF PoolObj
  <2>2. pool'[g.base[k]] = CpuResult /\ \A t \in AnyTensor \ {g.base[k]} : pool'[t] = pool[t]
    BY <1>4, <1>7, <2>1
  <2>3. ASSUME NEW t \in Tensor(g), shadow[t] = shadow[k] PROVE Content(shadow[t])' = CpuResult
    BY <1>6, <1>11, <2>2, <2>3 DEF Content, PoolObj
  <2>4. ASSUME NEW t \in Tensor(g), shadow[t] # NoObj, g.cell[t] # g.cell[k]
        PROVE  Content(shadow[t])' = Content(shadow[t])
    <3>1. CASE shadow[t] = DeviceObj(g.cell[t]) \/ shadow[t] = MirrorObj(g.base[t])
      BY <1>6, <2>1, <3>1 DEF Content, DeviceObj, MirrorObj
    <3>2. CASE shadow[t] = PoolObj(t)
      <4>1. pool'[t] = pool[t]
        BY <1>9, <2>2, <2>4
      <4>2. PICK u : u = t
        OBVIOUS
      <4>3. shadow[t] = PoolObj(u) /\ shadow'[t] = PoolObj(u) /\ pool'[u] = pool[u]
        BY <1>6, <3>2, <4>1, <4>2
      <4> QED
        BY <4>3 DEF Content, PoolObj
    <3>3. CASE shadow[t] = PoolObj(g.base[t])
      <4>1. pool'[g.base[t]] = pool[g.base[t]]
        BY <1>9, <2>2, <2>4
      <4>2. PICK u : u = g.base[t]
        OBVIOUS
      <4>3. shadow[t] = PoolObj(u) /\ shadow'[t] = PoolObj(u) /\ pool'[u] = pool[u]
        BY <1>6, <3>3, <4>1, <4>2
      <4> QED
        BY <4>3 DEF Content, PoolObj
    <3> QED
      BY <1>9, <2>4, <3>1, <3>2, <3>3
  <2> QED
    BY <2>1, <2>3, <2>4
<1> QED
  BY <1>5, <1>10, <1>11

LEMMA MirrorsInv ==
  ASSUME TypeOK, TypeOK', Control, Mirrors, Objects, [Next]_vars
  PROVE  Mirrors'
<1>1. Weight \subseteq Cell /\ Weight \cap Slot = {} /\ Weight \cap Input = {} /\ Weight \subseteq Leaf /\ Input \subseteq Leaf
  BY LeafAssumption DEF Cell, Leaf
<1>2. mem = [c \in Cell |-> mem[c]]
  BY DEF TypeOK
<1>3. ASSUME \A b \in Weight : mem'[b] = mem[b], mirror' = mirror PROVE Mirrors'
  BY <1>3 DEF Mirrors
<1>4. CASE Call
  <2>1. \A l \in Input : g'.cell[l] \notin Weight
    BY <1>1 DEF TypeOK, WellFormed, WeightsFixed, Aliasing, Tensor
  <2>2. \A c \in Cell : c \notin InputCells(g') => mem'[c] = mem[c]
    BY <1>4 DEF Call
  <2>3. mirror' = mirror
    BY <1>4 DEF Call
  <2> QED
    BY <1>1, <1>3, <2>1, <2>2, <2>3 DEF InputCells
<1>5. CASE ComputeAllOnAccel \/ Classify \/ PullCopies \/ FillViews \/ RunOnAccel \/ RunOnCpu \/ FailRun \/ Return
  BY <1>3, <1>5 DEF ComputeAllOnAccel, Classify, PullCopies, FillViews, RunOnAccel, RunOnCpu, FailRun, Return
<1>6. CASE BuildNode
  <2>1. mem' = mem /\ \A b \in Leaf :
          mirror'[b] = IF mirror[b] = Unset /\ \E t \in Missing : HostObj(t) = MirrorObj(b)
                         THEN mem[g.cell[b]] ELSE mirror[b]
    BY <1>6 DEF BuildNode
  <2>2. \A b \in Weight : g.cell[b] = b
    BY DEF TypeOK, WellFormed, WeightsFixed
  <2>3. ASSUME NEW b \in Input, NEW t \in Missing PROVE HostObj(t) # MirrorObj(b)
    <3>1. HostObj(t) = MirrorObj(b) => g.base[t] = b /\ g.base[t] \in Weight
      BY DEF HostObj, MirrorObj, DeviceObj, PoolObj
    <3> QED
      BY <1>1, <3>1
  <2> QED
    BY <1>1, <2>1, <2>2, <2>3 DEF Mirrors
<1>7. CASE ComputeNode
  <2>1. CASE k \in Writers(g)
    <3>1. mirror' = mirror /\ g.cell[k] \in Slot /\ \A c \in Cell \ {g.cell[k]} : mem'[c] = mem[c]
      BY <1>7, <2>1, Computing
    <3> QED
      BY <1>1, <1>3, <3>1
  <2>2. CASE k \notin Writers(g)
    BY <1>3, <1>7, <2>2 DEF ComputeNode
  <2> QED
    BY <2>1, <2>2
<1>8. CASE WriteBack
  <2>1. k \in Writers(g) => g.cell[k] \in Slot
    BY WriterFacts
  <2>2. \A b \in Weight : mem'[b] = mem[b]
    BY <1>1, <1>2, <1>8, <2>1 DEF WriteBack
  <2> QED
    BY <1>3, <1>8, <2>2 DEF WriteBack
<1>9. CASE AccelStep
  <2>1. \A m \in Writers(g) : g.cell[m] \in Slot
    BY WriterFacts
  <2>2. \A b \in Weight : mem'[b] = mem[b]
    BY <1>1, <1>2, <1>9, <2>1 DEF AccelStep
  <2> QED
    BY <1>3, <1>9, <2>2 DEF AccelStep
<1>10. CASE UNCHANGED vars
  BY <1>3, <1>10 DEF vars
<1> QED
  BY <1>4, <1>5, <1>6, <1>7, <1>8, <1>9, <1>10 DEF Next, InCall

-----------------------------------------------------------------------------
(* What the host objects hold. *)

\* What a node of the CPU run reads, the host can read.
LEMMA ReadableByHost ==
  ASSUME TypeOK, Control, Sides, Pulled, NpuCells, pc = "build",
         NEW i \in Writers(g), lo <= i, i < hi, NEW s \in g.src[i], g.prod[s] < lo
  PROVE  g.cell[s] \notin npu
<1>1. i \in Int /\ lo \in Int /\ hi \in Int /\ s \in Tensor(g) /\ g.prod[s] \in Int
  <2>1. lo \in Int /\ hi \in Int
    BY SplitAssumption DEF TypeOK
  <2>2. i \in Int /\ s \in Tensor(g)
    BY WriterFacts, NodeFacts
  <2>3. g.prod[s] \in Tensor(g)
    BY <2>2, TensorFacts
  <2> QED
    BY <2>1, <2>2, <2>3, TensorFacts
<1>2. where[i] = "cpu"
  BY <1>1 DEF Sides
<1>3. ~NpuCopy(g.prod[s])
  BY <1>2 DEF Pulled
<1>4. OnDevice = lo - 1
  BY DEF OnDevice
<1> QED
  BY <1>1, <1>3, <1>4 DEF NpuCells

\* A new object holds what device memory holds.
LEMMA NewObject ==
  ASSUME TypeOK, Control, Mirrors, Objects, BuildNode, NEW t \in Missing, g.cell[t] \notin npu
  PROVE  shadow'[t] = HostObj(t) /\ Content(shadow[t])' = mem[g.cell[t]]
<1>1. t \in Tensor(g) /\ t \in AnyTensor /\ shadow'[t] = HostObj(t) /\ UNCHANGED <<g, mem>>
  BY Building, TensorFacts
<1>2. CASE HostObj(t) = DeviceObj(g.cell[t])
  BY <1>1, <1>2 DEF Content, DeviceObj
<1>3. CASE HostObj(t) = MirrorObj(g.base[t]) /\ g.base[t] \in Weight
  <2>1. mirror'[g.base[t]] = WeightVal(g.base[t])
    BY <1>3, Building DEF MirrorObj
  <2>2. mem[g.cell[t]] = WeightVal(g.base[t])
    BY <1>1, <1>3, TensorFacts DEF Mirrors
  <2>3. PICK b : b = g.base[t]
    OBVIOUS
  <2>4. shadow'[t] = MirrorObj(b) /\ mirror'[b] = mem[g.cell[t]]
    BY <1>1, <1>3, <2>1, <2>2, <2>3
  <2>5. Content(shadow[t])' = mirror'[b]
    BY <2>4 DEF Content, MirrorObj
  <2> QED
    BY <1>1, <2>4, <2>5
<1>4. CASE HostObj(t) = PoolObj(t)
  <2>1. pool'[t] = ReadBack(t)
    BY <1>1, <1>4, Building DEF PoolObj
  <2>2. pool'[t] = mem[g.cell[t]]
    BY <2>1 DEF ReadBack
  <2> QED
    BY <1>1, <1>4, <2>2 DEF Content, PoolObj
<1> QED
  BY <1>2, <1>3, <1>4 DEF HostObj

\* An object a tensor already had keeps what it holds.
LEMMA OldObject ==
  ASSUME TypeOK, Control, Mirrors, Objects, BuildNode,
         NEW t \in Tensor(g), t # k, t \notin Missing, shadow[t] # NoObj
  PROVE  shadow'[t] = shadow[t] /\ Content(shadow[t])' = Content(shadow[t])
<1>1. shadow'[t] = shadow[t] /\ UNCHANGED <<g, mem>> /\ pc = "build" /\ lo \in Int
  BY Building, SplitAssumption DEF TypeOK
<1>2. OnCpu
  BY <1>1 DEF OnCpu
<1>3. t \in Int /\ t \in AnyTensor /\ g.base[t] \in Tensor(g) /\ g.base[t] \in AnyTensor /\ g.base[t] \in Int
      /\ g.base[g.base[t]] = g.base[t]
  BY TensorFacts
<1>4. CASE shadow[t] = DeviceObj(g.cell[t])
  BY <1>1, <1>4 DEF Content, DeviceObj
<1>5. CASE shadow[t] = MirrorObj(g.base[t]) /\ g.base[t] \in Weight
  <2>1. PICK b : b = g.base[t]
    OBVIOUS
  <2>2. mirror[b] = WeightVal(b)
    BY <1>2, <1>5, <2>1 DEF Objects, MirrorObj
  <2>3. mirror'[b] = mirror[b] /\ shadow[t] = MirrorObj(b)
    BY <1>5, <2>1, <2>2, Building
  <2> QED
    BY <1>1, <2>3 DEF Content, MirrorObj
<1>6. CASE \E u \in AnyTensor : u \notin Missing /\ shadow[t] = PoolObj(u)
  <2>1. PICK u \in AnyTensor : u \notin Missing /\ shadow[t] = PoolObj(u)
    BY <1>6
  <2>2. pool'[u] = pool[u]
    BY <2>1, Building
  <2> QED
    BY <1>1, <2>1, <2>2 DEF Content, PoolObj
<1>7. CASE shadow[t] = PoolObj(g.base[t])
  <2>1. g.base[t] \notin Missing
    <3>1. CASE g.base[t] >= lo
      <4>1. \A u \in Missing : u < lo
        BY Building
      <4> QED
        BY <1>1, <1>3, <3>1, <4>1
    <3>2. CASE t < lo
      <4>1. shadow[t] = HostObj(t)
        BY <1>2, <3>2 DEF Objects
      <4>2. g.base[t] = t
        BY <1>7, <4>1 DEF HostObj, PoolObj, MirrorObj, DeviceObj
      <4> QED
        BY <4>2
    <3>3. CASE g.base[t] < lo /\ t >= lo
      <4>1. shadow[t] = shadow[g.base[t]]
        BY <1>1, <1>2, <1>3, <3>3 DEF Objects
      <4> QED
        BY <4>1 DEF Missing
    <3> QED
      BY <1>1, <1>3, <3>1, <3>2, <3>3
  <2> QED
    BY <1>3, <1>6, <1>7, <2>1
<1>8. CASE shadow[t] = PoolObj(t)
  BY <1>3, <1>6, <1>8
<1> QED
  BY <1>1, <1>2, <1>4, <1>5, <1>7, <1>8, ObjectCell

\* The tensors that name what node k computes share its object.
LEMMA SameObject ==
  ASSUME TypeOK, Objects, OnCpu, k \in Writers(g), lo <= k, shadow[k] # NoObj,
         NEW s \in Tensor(g), g.prod[s] = k, NEW t \in {s, g.base[s]}, shadow[t] # NoObj
  PROVE  shadow[t] = shadow[k]
<1>1. /\ s \in Int /\ s >= k /\ g.base[s] = g.base[k] /\ g.base[s] \in Tensor(g)
      /\ g.base[s] \in Int /\ g.base[g.base[s]] = g.base[s] /\ lo \in Int /\ k \in Int /\ k \in Tensor(g)
  <2>1. lo \in Int /\ k \in Int /\ k \in Tensor(g)
    BY WriterFacts, NodeFacts, SplitAssumption DEF TypeOK
  <2>2. g.prod[s] <= s /\ g.base[g.prod[s]] = g.base[s] /\ s \in Int /\ g.base[s] \in Tensor(g)
        /\ g.base[g.base[s]] = g.base[s]
    BY TensorFacts
  <2>3. g.base[s] \in Int
    BY <2>2, TensorFacts
  <2> QED
    BY <2>1, <2>2, <2>3
<1>2. PICK b : b = g.base[s]
  OBVIOUS
<1>3. ASSUME NEW u \in {s, b, k}, u \in Tensor(g), shadow[u] # NoObj
      PROVE  shadow[u] = IF b >= lo THEN PoolObj(b) ELSE HostObj(b)
  <2>1. g.base[u] = b /\ u \in Int
    BY <1>1, <1>2, <1>3
  <2>2. shadow[u] = IF b >= lo THEN PoolObj(b) ELSE IF u < lo THEN HostObj(u) ELSE HostObj(b)
    BY <1>3, <2>1, ObjectOf
  <2>3. u < lo => u = b
    BY <1>1, <1>3, <2>1
  <2> QED
    BY <2>2, <2>3
<1> QED
  BY <1>1, <1>2, <1>3

LEMMA ShadowsInv ==
  ASSUME TypeOK, Control, Sides, Pulled, NpuCells, Mirrors, Objects, ShadowsCurrent, Pending, [Next]_vars
  PROVE  ShadowsCurrent'
<1>1. lo \in Int /\ hi \in Int /\ k \in Int
  BY SplitAssumption DEF TypeOK
<1>2. CASE BuildNode
  <2>1. k \in Node(g) /\ lo <= k /\ k < hi /\ pc = "build" /\ UNCHANGED <<accel, g, mem, lo, hi>>
    BY <1>2, Building
  <2>2. logical' = logical /\ mem = logical /\ Computed' = lo /\ Computed = lo /\ OnCpu
    BY <1>2, <2>1 DEF BuildNode, Pending, Computed, OnCpu
  <2> SUFFICES ASSUME NEW i \in Writers(g), NEW s \in g.src[i], NEW t \in {s, g.base[s]},
                      lo <= i, i < hi, g.prod[s] < lo, shadow'[t] # NoObj
               PROVE  Content(shadow[t])' = logical[g.cell[s]]
    BY <2>1, <2>2 DEF ShadowsCurrent
  <2>3. /\ s \in Tensor(g) /\ t \in Tensor(g) /\ g.base[t] = g.base[s] /\ g.cell[t] = g.cell[s]
        /\ g.prod[s] \in Int /\ g.base[s] \in Int /\ g.base[s] <= g.prod[s]
    <3>1. s \in Tensor(g)
      BY WriterFacts, NodeFacts
    <3>2. g.prod[s] \in Tensor(g) /\ g.base[s] \in Tensor(g) /\ g.base[g.prod[s]] = g.base[s]
      BY <3>1, TensorFacts
    <3> QED
      BY <3>1, <3>2, TensorFacts
  <2>4. g.cell[s] \notin npu
    BY <2>1, ReadableByHost
  <2>5. ASSUME NEW u \in {t, g.base[t]}, u # k, shadow'[u] # NoObj
        PROVE  Content(shadow[u])' = logical[g.cell[s]]
    <3>1. u \in Tensor(g) /\ g.cell[u] = g.cell[s] /\ u \in {s, g.base[s]}
      BY <2>3, TensorFacts
    <3>2. CASE u \in Missing
      BY <1>2, <2>2, <2>4, <3>1, <3>2, NewObject
    <3>3. CASE u \notin Missing
      <4>1. shadow'[u] = shadow[u]
        BY <1>2, <2>5, <3>1, <3>3, Building
      <4>2. Content(shadow[u])' = Content(shadow[u])
        BY <1>2, <2>5, <3>1, <3>3, <4>1, OldObject
      <4>3. Content(shadow[u]) = logical[g.cell[s]]
        BY <2>1, <2>2, <2>5, <3>1, <4>1 DEF ShadowsCurrent
      <4> QED
        BY <4>2, <4>3
    <3> QED
      BY <3>2, <3>3
  <2>6. CASE t # k
    BY <2>5, <2>6
  <2>7. CASE t = k
    <3>1. g.base[t] # k
      BY <1>1, <2>1, <2>3
    <3>2. shadow'[k] = shadow'[g.base[k]]
      BY <1>2, <2>7, <3>1, Building
    <3>3. PICK u : u = g.base[k]
      OBVIOUS
    <3>4. shadow'[t] = shadow'[u] /\ u \in {t, g.base[t]} /\ u # k
      BY <2>7, <3>1, <3>2, <3>3
    <3>5. Content(shadow[u])' = logical[g.cell[s]]
      BY <2>5, <3>4
    <3>6. Content(shadow[t])' = Content(shadow[u])'
      BY <3>4 DEF Content
    <3> QED
      BY <3>5, <3>6
  <2> QED
    BY <2>6, <2>7
<1>3. CASE ComputeNode /\ pc' = "compute"
  <2>1. /\ pc = "compute" /\ lo <= k /\ k < hi /\ k \in Node(g) /\ k' = k + 1
        /\ UNCHANGED <<accel, g, lo, hi, shadow>> /\ OnCpu
    <3>1. pc = "compute" /\ k' = k + 1 /\ UNCHANGED <<accel, g, lo, hi, shadow>> /\ OnCpu
      BY <1>3 DEF ComputeNode, OnCpu
    <3>2. lo <= k /\ k < hi /\ hi <= g.n + 1
      BY <3>1 DEF Control
    <3>3. k \in Node(g)
      BY <1>1, <3>2, GraphFacts, SplitAssumption DEF TypeOK, Node
    <3> QED
      BY <3>1, <3>2, <3>3
  <2>2. Computed = k /\ Computed' = k + 1
    BY <1>3, <2>1 DEF Computed
  <2> SUFFICES ASSUME NEW i \in Writers(g), NEW s \in g.src[i], NEW t \in {s, g.base[s]}, NEW p, p = g.prod[s],
                      k + 1 <= i, i < hi, p < k + 1, shadow[t] # NoObj
               PROVE  Content(shadow[t])' = logical'[g.cell[s]]
    BY <2>1, <2>2 DEF ShadowsCurrent
  <2>3. /\ s \in Tensor(g) /\ t \in Tensor(g) /\ g.cell[t] = g.cell[s] /\ g.cell[s] \in Cell
        /\ p \in Int /\ g.cell[p] = g.cell[s] /\ p \in Leaf \cup Writers(g) /\ i \in Int
    <3>1. s \in Tensor(g) /\ i \in Int
      BY WriterFacts, NodeFacts
    <3>2. p \in Tensor(g)
      BY <3>1, TensorFacts
    <3> QED
      BY <3>1, <3>2, TensorFacts
  <2>4. p < k => Content(shadow[t]) = logical[g.cell[s]]
    BY <1>1, <2>1, <2>2, <2>3 DEF ShadowsCurrent
  <2>5. CASE k \notin Writers(g)
    <3>1. p # k
      BY <2>1, <2>3, <2>5, LeafAssumption DEF Node
    <3>2. UNCHANGED <<logical, pool, mem, mirror, shadow>>
      BY <1>3, <2>5 DEF ComputeNode
    <3>3. Content(shadow[t])' = Content(shadow[t])
      BY <3>2 DEF Content
    <3> QED
      BY <1>1, <2>3, <2>4, <3>1, <3>2, <3>3
  <2>6. CASE k \in Writers(g)
    <3>1. CASE p = k
      <4>1. shadow[k] # NoObj
        BY <1>3, <2>6, Computing
      <4>2. shadow[t] = shadow[k]
        BY <2>1, <2>3, <2>6, <3>1, <4>1, SameObject
      <4>3. Content(shadow[t])' = CpuResult /\ logical'[g.cell[k]] = CpuResult
        BY <1>3, <2>3, <2>6, <4>2, Computing
      <4> QED
        BY <2>3, <3>1, <4>3
    <3>2. CASE p < k
      <4>1. g.cell[k] # g.cell[s]
        BY <1>1, <2>1, <2>3, <2>6, <3>2, ReadStays
      <4>2. Content(shadow[t])' = Content(shadow[t]) /\ logical'[g.cell[s]] = logical[g.cell[s]]
        BY <1>3, <2>3, <2>6, <4>1, Computing
      <4> QED
        BY <2>4, <3>2, <4>2
    <3> QED
      BY <1>1, <2>3, <3>1, <3>2
  <2> QED
    BY <2>5, <2>6
<1>4. CASE RunOnCpu
  <2>1. UNCHANGED g /\ \A t \in AnyTensor : shadow'[t] = NoObj
    BY <1>4 DEF RunOnCpu
  <2>2. ASSUME NEW i \in Writers(g), NEW s \in g.src[i], NEW t \in {s, g.base[s]} PROVE shadow'[t] = NoObj
    <3>1. s \in Tensor(g)
      BY WriterFacts, NodeFacts
    <3>2. t \in AnyTensor
      <4>1. g.base[s] \in Tensor(g)
        BY <3>1, TensorFacts
      <4> QED
        BY <3>1, <4>1, TensorFacts
    <3> QED
      BY <2>1, <3>2
  <2> QED
    BY <2>1, <2>2 DEF ShadowsCurrent
<1>5. ASSUME pc' \notin {"build", "compute"} PROVE ShadowsCurrent'
  BY <1>5 DEF ShadowsCurrent
<1>6. CASE ComputeNode /\ pc' # "compute"
  BY <1>5, <1>6 DEF ComputeNode
<1>7. CASE Call \/ ComputeAllOnAccel \/ Classify \/ PullCopies \/ FillViews \/ RunOnAccel \/ FailRun \/ Return
  BY <1>5, <1>7 DEF Call, ComputeAllOnAccel, Classify, PullCopies, FillViews, RunOnAccel, FailRun, Return
<1>8. CASE WriteBack
  BY <1>5, <1>8 DEF WriteBack
<1>9. CASE AccelStep
  <2>1. pc = "run" /\ pc' = pc
    BY <1>9 DEF AccelStep, Control
  <2> QED
    BY <1>5, <2>1
<1>10. CASE UNCHANGED vars
  BY <1>10 DEF vars, ShadowsCurrent, Computed, Content
<1> QED
  BY <1>2, <1>3, <1>4, <1>6, <1>7, <1>8, <1>9, <1>10 DEF Next, InCall

-----------------------------------------------------------------------------
(* What device memory lacks. *)

LEMMA PendingInv ==
  ASSUME TypeOK, TypeOK', Control, Objects, Pending, [Next]_vars
  PROVE  Pending'
<1>1. /\ lo \in Int /\ hi \in Int /\ k \in Int
      /\ mem = [c \in Cell |-> mem[c]] /\ logical = [c \in Cell |-> logical[c]]
  BY SplitAssumption DEF TypeOK
<1>2. \A i \in Writers(g) : i \in Int /\ g.cell[i] \in Cell
  BY WriterFacts, NodeFacts DEF Cell
<1>3. ASSUME pc' \notin {"compute", "writeback"}, mem' = logical' PROVE Pending'
  BY <1>3 DEF Pending
<1>4. CASE BuildNode
  <2>1. mem' = logical' /\ UNCHANGED <<g, lo, hi, mem, logical>> /\ (pc' = "compute" => k' = lo) /\ pc' \in {"build", "compute"}
    BY <1>4 DEF BuildNode, Pending
  <2>2. CASE pc' = "compute"
    <3>1. Computed' = lo /\ Written' = lo
      BY <2>1, <2>2 DEF Computed, Written
    <3>2. ~(\E i \in Writers(g) : lo <= i /\ i < lo)
      BY <1>1, <1>2
    <3> QED
      BY <2>1, <2>2, <3>1, <3>2 DEF Pending, LastOnCell
  <2> QED
    BY <1>3, <2>1, <2>2
<1>5. CASE ComputeNode
  <2>1. /\ pc = "compute" /\ lo <= k /\ k < hi /\ UNCHANGED <<g, lo, hi, shadow>> /\ OnCpu
        /\ Computed = k /\ Written = lo
    BY <1>5 DEF ComputeNode, Control, OnCpu, Computed, Written
  <2>2. Computed' = k + 1 /\ Written' = lo /\ pc' \in {"compute", "writeback"}
    <3>1. IF k + 1 = hi THEN k' = lo /\ pc' = "writeback" ELSE k' = k + 1 /\ pc' = "compute"
      BY <1>5 DEF ComputeNode
    <3> QED
      BY <2>1, <3>1 DEF Computed, Written
  <2>3. /\ \A c \in Cell : (\A m \in Writers(g) : lo <= m /\ m < k => g.cell[m] # c) => mem[c] = logical[c]
        /\ \A i \in Writers(g) :
             /\ lo <= i /\ i < k
             /\ \A m \in Writers(g) : i < m /\ m < k => g.cell[m] # g.cell[i]
             => Content(shadow[i]) = logical[g.cell[i]]
    BY <2>1 DEF Pending, LastOnCell
  <2>4. \A i \in Writers(g) : lo <= i /\ i < k => shadow[i] # NoObj
    BY <1>1, <1>2, <2>1 DEF Objects, Built
  <2> SUFFICES
        /\ \A c \in Cell : (\A m \in Writers(g) : lo <= m /\ m < k + 1 => g.cell[m] # c) => mem'[c] = logical'[c]
        /\ \A i \in Writers(g) :
             /\ lo <= i /\ i < k + 1
             /\ \A m \in Writers(g) : i < m /\ m < k + 1 => g.cell[m] # g.cell[i]
             => Content(shadow[i])' = logical'[g.cell[i]]
    BY <2>1, <2>2 DEF Pending, LastOnCell
  <2>5. CASE k \in Writers(g)
    <3>1. /\ logical'[g.cell[k]] = CpuResult /\ shadow[k] # NoObj /\ g.cell[k] \in Cell /\ k \in Tensor(g)
          /\ \A c \in Cell \ {g.cell[k]} : mem'[c] = mem[c] /\ logical'[c] = logical[c]
      BY <1>2, <1>5, <2>5, Computing, NodeFacts
    <3>2. ASSUME NEW c \in Cell, \A m \in Writers(g) : lo <= m /\ m < k + 1 => g.cell[m] # c
          PROVE  mem'[c] = logical'[c]
      <4>1. c # g.cell[k]
        BY <1>1, <2>1, <2>5, <3>2
      <4>2. \A m \in Writers(g) : lo <= m /\ m < k => g.cell[m] # c
        BY <1>1, <1>2, <3>2
      <4> QED
        BY <2>3, <3>1, <4>1, <4>2
    <3>3. ASSUME NEW i \in Writers(g), lo <= i, i < k + 1,
                 \A m \in Writers(g) : i < m /\ m < k + 1 => g.cell[m] # g.cell[i]
          PROVE  Content(shadow[i])' = logical'[g.cell[i]]
      <4>1. CASE i = k
        <5>1. Content(shadow[i])' = CpuResult
          BY <1>5, <2>5, <3>1, <4>1, Computing
        <5> QED
          BY <3>1, <4>1, <5>1
      <4>2. CASE i # k
        <5>1. i < k /\ i \in Tensor(g)
          BY <1>1, <1>2, <3>3, <4>2, WriterFacts, NodeFacts
        <5>2. g.cell[k] # g.cell[i]
          BY <1>1, <2>5, <3>3, <5>1
        <5>3. \A m \in Writers(g) : i < m /\ m < k => g.cell[m] # g.cell[i]
          BY <1>1, <1>2, <3>3
        <5>4. Content(shadow[i]) = logical[g.cell[i]] /\ shadow[i] # NoObj
          BY <2>3, <2>4, <3>3, <5>1, <5>3
        <5>5. Content(shadow[i])' = Content(shadow[i])
          BY <1>5, <2>5, <5>1, <5>2, <5>4, Computing
        <5> QED
          BY <1>2, <3>1, <5>2, <5>4, <5>5
      <4> QED
        BY <4>1, <4>2
    <3> QED
      BY <3>2, <3>3
  <2>6. CASE k \notin Writers(g)
    <3>1. UNCHANGED <<logical, pool, mem, mirror, shadow>>
      BY <1>5, <2>6 DEF ComputeNode
    <3>2. \A i \in Writers(g) : i < k + 1 <=> i < k
      BY <1>1, <1>2, <2>6
    <3>3. \A i : Content(shadow[i])' = Content(shadow[i])
      BY <3>1 DEF Content
    <3> QED
      BY <2>3, <3>1, <3>2, <3>3
  <2> QED
    BY <2>5, <2>6
<1>6. CASE WriteBack
  <2>1. /\ pc = "writeback" /\ lo <= k /\ k < hi /\ UNCHANGED <<accel, g, logical, hi, shadow, pool, mirror>> /\ OnCpu
        /\ IF k + 1 = hi THEN pc' = "run" ELSE pc' = pc /\ lo' = lo
        /\ k' = k + 1 /\ Computed = hi /\ Written = k
    BY <1>6 DEF WriteBack, Control, OnCpu, Computed, Written
  <2>2. /\ \A c \in Cell : (\A m \in Writers(g) : k <= m /\ m < hi => g.cell[m] # c) => mem[c] = logical[c]
        /\ \A i \in Writers(g) : LastOnCell(i) /\ k <= i => Content(shadow[i]) = logical[g.cell[i]]
    BY <2>1 DEF Pending
  <2>3. /\ k \in Writers(g) => /\ mem'[g.cell[k]] = Content(shadow[k])
                               /\ \A c \in Cell \ {g.cell[k]} : mem'[c] = mem[c]
        /\ k \notin Writers(g) => mem' = mem
    BY <1>1, <1>2, <1>6 DEF WriteBack
  <2>4. ASSUME NEW c \in Cell, \A m \in Writers(g) : k + 1 <= m /\ m < hi => g.cell[m] # c
        PROVE  mem'[c] = logical[c]
    <3>1. CASE k \in Writers(g) /\ c = g.cell[k]
      <4>1. LastOnCell(k)
        BY <1>1, <1>2, <2>1, <2>4, <3>1 DEF LastOnCell
      <4>2. Content(shadow[k]) = logical[c]
        BY <1>1, <2>2, <3>1, <4>1
      <4> QED
        BY <2>3, <3>1, <4>2
    <3>2. CASE ~(k \in Writers(g) /\ c = g.cell[k])
      <4>1. \A m \in Writers(g) : k <= m /\ m < hi => g.cell[m] # c
        BY <1>1, <1>2, <2>4, <3>2
      <4> QED
        BY <2>2, <2>3, <3>2, <4>1
    <3> QED
      BY <3>1, <3>2
  <2>5. ASSUME NEW i \in Writers(g), LastOnCell(i), k + 1 <= i
        PROVE  Content(shadow[i])' = logical[g.cell[i]]
    <3>1. /\ lo <= i /\ i < hi /\ i \in Int /\ k < i /\ Content(shadow[i]) = logical[g.cell[i]] /\ i \in Node(g)
      BY <1>1, <1>2, <2>1, <2>2, <2>5, WriterFacts DEF LastOnCell
    <3>2. shadow[i] # NoObj /\ shadow[k] # NoObj
      BY <1>1, <2>1, <3>1 DEF Objects, Built
    <3>3. shadow[i] = IF g.base[i] < lo /\ accel.hostVisible THEN DeviceObj(g.cell[i]) ELSE PoolObj(g.base[i])
      BY <2>1, <3>1, <3>2, WriterObject
    <3>4. CASE shadow[i] = PoolObj(g.base[i])
      BY <2>1, <3>1, <3>4 DEF Content, PoolObj
    <3>5. CASE shadow[i] = DeviceObj(g.cell[i]) /\ g.base[i] < lo /\ accel.hostVisible
      <4>1. mem'[g.cell[i]] = mem[g.cell[i]]
        <5>1. CASE k \in Writers(g) /\ g.cell[k] = g.cell[i]
          <6>1. g.base[k] < lo
            <7>1. g.base[i] < k
              <8>1. i \in Tensor(g)
                BY <3>1, NodeFacts
              <8>2. g.base[i] \in Tensor(g)
                BY <8>1, TensorFacts
              <8>3. g.base[i] \in Int
                BY <8>2, TensorFacts
              <8> QED
                BY <1>1, <2>1, <3>5, <8>3
            <7>2. g.base[k] = g.base[i]
              BY <3>1, <5>1, <7>1 DEF TypeOK, WellFormed, BaseOwnsCell
            <7> QED
              BY <3>5, <7>2
          <6>2. shadow[k] = DeviceObj(g.cell[k])
            BY <2>1, <3>2, <3>5, <5>1, <6>1, WriterObject
          <6>3. Content(shadow[k]) = mem[g.cell[k]]
            BY <6>2 DEF Content, DeviceObj
          <6> QED
            BY <2>3, <5>1, <6>3
        <5>2. CASE ~(k \in Writers(g) /\ g.cell[k] = g.cell[i])
          BY <1>2, <2>3, <5>2
        <5> QED
          BY <5>1, <5>2
      <4>2. Content(shadow[i])' = mem'[g.cell[i]] /\ Content(shadow[i]) = mem[g.cell[i]]
        BY <2>1, <3>5 DEF Content, DeviceObj
      <4> QED
        BY <3>1, <4>1, <4>2
    <3> QED
      BY <3>3, <3>4, <3>5
  <2>6. CASE k + 1 = hi
    <3>1. \A c \in Cell : mem'[c] = logical[c]
      BY <1>1, <1>2, <2>4, <2>6
    <3>2. mem' = [c \in Cell |-> mem'[c]]
      BY DEF TypeOK
    <3>3. mem' = logical'
      BY <1>1, <2>1, <3>1, <3>2
    <3> QED
      BY <1>3, <2>1, <2>6, <3>3
  <2>7. CASE k + 1 # hi
    <3>1. Computed' = hi /\ Written' = k + 1 /\ pc' = "writeback" /\ lo' = lo
      BY <2>1, <2>7 DEF Computed, Written
    <3>2. \A i \in Writers(g) : LastOnCell(i)' => LastOnCell(i)
      BY <2>1, <3>1 DEF LastOnCell
    <3> QED
      BY <2>1, <2>4, <2>5, <3>1, <3>2 DEF Pending
  <2> QED
    BY <2>6, <2>7
<1>7. CASE Call \/ FailRun
  BY <1>3, <1>7 DEF Call, FailRun
<1>8. CASE ComputeAllOnAccel \/ Classify \/ PullCopies \/ FillViews \/ RunOnAccel \/ RunOnCpu \/ Return
  BY <1>3, <1>8 DEF ComputeAllOnAccel, Classify, PullCopies, FillViews, RunOnAccel, RunOnCpu, Return, Pending
<1>9. CASE AccelStep
  <2>1. pc = "run" /\ pc' = pc
    BY <1>9 DEF AccelStep, Control
  <2>2. mem' = logical'
    BY <1>9, <2>1 DEF AccelStep, Pending
  <2> QED
    BY <1>3, <2>1, <2>2
<1>10. CASE UNCHANGED vars
  BY <1>10 DEF vars, Pending, Written, Computed, LastOnCell, Content
<1> QED
  BY <1>4, <1>5, <1>6, <1>7, <1>8, <1>9, <1>10 DEF Next, InCall

-----------------------------------------------------------------------------
(* The inductive invariant. *)
DataInv ==
  /\ Sides /\ Pulled
  /\ NpuCells /\ InputsReadable
  /\ Mirrors /\ Objects /\ ShadowsCurrent
  /\ Pending

IInv == TypeOK /\ Control /\ DataInv

LEMMA InitInv == Init => IInv
<1> SUFFICES ASSUME Init PROVE IInv
  OBVIOUS
<1>1. TypeOK /\ Control
  BY InitType
<1>2. pc = "idle" /\ mem = LoadedMem /\ logical = mem /\ ~(queue.next < queue.end)
  BY DEF Init
<1>3. Sides /\ Pulled /\ NpuCells /\ InputsReadable /\ Objects /\ ShadowsCurrent /\ Pending
  BY <1>2 DEF Sides, Pulled, NpuCells, InputsReadable, Objects, OnCpu, ShadowsCurrent, Pending
<1>4. Mirrors
  BY LeafAssumption, <1>2 DEF Init, Mirrors, LoadedMem, Cell, Leaf
<1> QED
  BY <1>1, <1>3, <1>4 DEF IInv, DataInv

LEMMA StepInv == IInv /\ [Next]_vars => IInv'
<1> SUFFICES ASSUME IInv, [Next]_vars PROVE IInv'
  OBVIOUS
<1>1. TypeOK' /\ Control'
  BY StepType DEF IInv
<1>2. Sides' /\ Pulled'
  BY SidesInv, PulledInv DEF IInv, DataInv
<1>3. NpuCells' /\ InputsReadable'
  BY <1>1, NpuCellsInv DEF IInv, DataInv
<1>4. Mirrors' /\ Objects'
  BY <1>1, MirrorsInv, ObjectsInv DEF IInv, DataInv
<1>5. ShadowsCurrent'
  BY ShadowsInv DEF IInv, DataInv
<1>6. Pending'
  BY <1>1, PendingInv DEF IInv, DataInv
<1> QED
  BY <1>1, <1>2, <1>3, <1>4, <1>5, <1>6 DEF IInv, DataInv

LEMMA AlwaysInv == Spec => []IInv
BY InitInv, StepInv, PTL DEF Spec

-----------------------------------------------------------------------------
(* Between CPU runs device memory is what the nodes computed so far        *)
(* define: every result of a run is written back before the next run       *)
(* starts, whatever the split (run_on_cpu's write-back).                   *)
THEOREM Coherence == Spec => []Coherent
<1>1. IInv => Coherent
  BY DEF IInv, DataInv, Pending, Coherent
<1> QED
  BY <1>1, AlwaysInv, PTL

(* A mirror made in one call is what the device holds in every later one:  *)
(* host_input mirrors weights only, and no call changes a weight.          *)
THEOREM MirrorsFresh == Spec => []MirrorsAreFresh
<1>1. IInv => MirrorsAreFresh
  <2> SUFFICES ASSUME IInv, NEW b \in Leaf, mirror[b] # Unset PROVE mirror[b] = mem[g.cell[b]]
    BY DEF MirrorsAreFresh
  <2>1. b \in Weight /\ mirror[b] = WeightVal(b) /\ mem[b] = WeightVal(b)
    BY DEF IInv, DataInv, Mirrors, Leaf
  <2>2. g.cell[b] = b
    BY <2>1 DEF IInv, TypeOK, WellFormed, WeightsFixed
  <2> QED
    BY <2>1, <2>2
<1> QED
  BY <1>1, AlwaysInv, PTL

-----------------------------------------------------------------------------
(* What a node of a CPU run reads. *)
LEMMA ReadsLogical ==
  ASSUME IInv, pc = "compute", k \in Writers(g)
  PROVE  \A s \in g.src[k] : Content(shadow[s]) = logical[g.cell[s]]
<1>1. TypeOK /\ Control /\ Objects /\ ShadowsCurrent
  BY DEF IInv, DataInv
<1>2. lo <= k /\ k < hi /\ lo \in Int /\ hi \in Int /\ k \in Int /\ Computed = k /\ OnCpu /\ Built = hi
  BY <1>1, SplitAssumption DEF TypeOK, Control, Computed, OnCpu, Built
<1> SUFFICES ASSUME NEW s \in g.src[k] PROVE Content(shadow[s]) = logical[g.cell[s]]
  OBVIOUS
<1>3. s \in Tensor(g) /\ s < k /\ s \in Int
  <2>1. s \in Tensor(g) /\ s < k
    BY <1>1, WriterFacts, NodeFacts
  <2> QED
    BY <1>1, <2>1, TensorFacts
<1>4. g.prod[s] < k
  <2>1. g.prod[s] \in Tensor(g) /\ g.prod[s] <= s
    BY <1>1, <1>3, TensorFacts
  <2>2. g.prod[s] \in Int
    BY <1>1, <2>1, TensorFacts
  <2> QED
    BY <1>2, <1>3, <2>1, <2>2
<1>5. shadow[s] # NoObj
  BY <1>1, <1>2 DEF Objects
<1> QED
  BY <1>1, <1>2, <1>4, <1>5 DEF ShadowsCurrent

-----------------------------------------------------------------------------
(* The split graph runs like the whole graph on one memory. *)

\* The abstract specification speaks of the same graphs.
LEMMA SameGraphs ==
  /\ \A h : GE!WellFormed(h) <=> WellFormed(h)
  /\ \A h : GE!Writers(h) = Writers(h) /\ GE!InputCells(h) = InputCells(h)
  /\ \A h, m, i : GE!Result(h, m, i) = Result(h, m, i)
  /\ GE!Cell = Cell /\ GE!LoadedMem = LoadedMem
<1>1. GE!Cell = Cell /\ GE!Leaf = Leaf /\ GE!LoadedMem = LoadedMem
  BY DEF GE!Cell, Cell, GE!Leaf, Leaf, GE!LoadedMem, LoadedMem
<1>2. \A h : GE!Node(h) = Node(h) /\ GE!Tensor(h) = Tensor(h)
  BY <1>1 DEF GE!Node, Node, GE!Tensor, Tensor
<1>3. \A h : GE!Writers(h) = Writers(h) /\ GE!InputCells(h) = InputCells(h)
  BY <1>2 DEF GE!Writers, Writers, GE!InputCells, InputCells
<1>4. \A h : GE!WellFormed(h) <=> WellFormed(h)
  BY <1>1, <1>2, <1>3 DEF GE!WellFormed, WellFormed, GE!GraphShape, GraphShape, GE!InputsApart, InputsApart,
     GE!Topological, Topological, GE!Aliasing, Aliasing, GE!WeightsFixed, WeightsFixed,
     GE!ReadsValid, ReadsValid, GE!BaseOwnsCell, BaseOwnsCell
<1>5. \A h, m, i : GE!Result(h, m, i) = Result(h, m, i)
  BY DEF GE!Result, Result
<1> QED
  BY <1>1, <1>3, <1>4, <1>5

LEMMA RefineInit == Init => GE!Init
<1> SUFFICES ASSUME Init PROVE GE!Init
  OBVIOUS
<1>1. WellFormed(g)
  BY InitType DEF TypeOK
<1> QED
  BY <1>1, SameGraphs DEF Init, GE!Init, Done

\* Node m runs, on memory as the nodes before it left it.
LEMMA RefineRun ==
  ASSUME TypeOK, NEW m \in Node(g), pc # "idle", pc' # "idle", UNCHANGED g, Done = m - 1, Done' = m,
         logical' = IF m \in Writers(g) THEN [logical EXCEPT ![g.cell[m]] = Result(g, logical, m)] ELSE logical
  PROVE  GE!RunNode
<1>1. m \in Int /\ m <= g.n /\ Done + 1 = m /\ Done < g.n
  <2>1. m \in Int /\ m <= g.n /\ g.n \in Int
    BY NodeFacts, GraphFacts
  <2> QED
    BY <2>1
<1> QED
  BY <1>1, SameGraphs DEF GE!RunNode

LEMMA RefineStep == IInv /\ IInv' /\ [Next]_vars => [GE!Next]_(GE!vars)
<1> SUFFICES ASSUME IInv, IInv', [Next]_vars PROVE [GE!Next]_(GE!vars)
  OBVIOUS
<1>1. TypeOK /\ Control /\ Sides /\ Pending /\ Objects
  BY DEF IInv, DataInv
<1>2. /\ g.n \in Nat /\ lo \in Int /\ hi \in Int /\ k \in Int
      /\ queue.next \in Int /\ queue.end \in Int
      /\ logical = [c \in Cell |-> logical[c]]
  BY <1>1, GraphFacts, SplitAssumption DEF TypeOK
<1>3. \A i \in Writers(g) : g.cell[i] \in Cell
  BY <1>1, WriterFacts DEF Cell
<1> DEFINE Stutter == UNCHANGED <<g, logical, Done>> /\ (pc # "idle" <=> pc' # "idle")
<1>4. Stutter => UNCHANGED GE!vars
  BY DEF GE!vars
<1>5. CASE Call
  <2>1. /\ pc = "idle" /\ pc' = "classify" /\ logical' = mem' /\ mem = logical /\ Done' = 0
    BY <1>1, <1>5 DEF Call, Pending, Done
  <2>2. PICK h \in ValidGraphs, in \in [Input -> InputVal] :
          /\ g' = h
          /\ mem' = [c \in Cell |-> IF c \in InputCells(h) THEN in[CHOOSE l \in Input : h.cell[l] = c] ELSE mem[c]]
    <3>1. Callable \subseteq ValidGraphs
      BY SplitAssumption DEF Callable
    <3> QED
      BY <1>5, <3>1 DEF Call
  <2>3. \A c \in Cell \ InputCells(g') : logical'[c] = logical[c]
    BY <2>1, <2>2
  <2>4. ASSUME NEW c \in InputCells(g') PROVE logical'[c] \in InputVal
    <3>1. WellFormed(h)
      BY ValidGraph
    <3>2. c \in Cell /\ \E l \in Input : h.cell[l] = c
      BY <2>2, <2>4, <3>1 DEF InputCells, WellFormed, GraphShape, Tensor, Leaf
    <3>3. (CHOOSE l \in Input : h.cell[l] = c) \in Input
      BY <3>2
    <3> QED
      BY <2>1, <2>2, <2>4, <3>2, <3>3
  <2>5. WellFormed(g')
    BY <2>2, ValidGraph
  <2>6. GE!Call
    BY <2>1, <2>3, <2>4, <2>5, SameGraphs DEF GE!Call
  <2> QED
    BY <2>6 DEF GE!Next
<1>6. CASE ComputeAllOnAccel \/ Classify \/ PullCopies \/ FillViews
  <2>1. Done = 0 /\ UNCHANGED <<g, logical>> /\ pc # "idle" /\ pc' # "idle"
    BY <1>6 DEF ComputeAllOnAccel, Classify, PullCopies, FillViews, Done
  <2>2. Done' = 0
    <3>1. CASE ComputeAllOnAccel
      BY <1>2, <3>1 DEF ComputeAllOnAccel, Done
    <3>2. CASE Classify \/ (PullCopies /\ pc' # "run")
      BY <3>2 DEF Classify, PullCopies, Done
    <3>3. CASE FillViews
      BY <1>1, <3>3 DEF FillViews, Done, Control
    <3> QED
      BY <1>6, <3>1, <3>2, <3>3 DEF PullCopies
  <2> QED
    BY <1>4, <2>1, <2>2
<1>7. CASE RunOnAccel
  <2>1. PICK j \in Node(g) \cup {g.n + 1} : IsRun(j) /\ queue' = [next |-> lo, end |-> j] /\ lo' = j
    BY <1>7 DEF RunOnAccel
  <2>2. pc = "run" /\ pc' = "run" /\ where[lo] = "accel" /\ lo <= g.n /\ UNCHANGED <<g, logical>>
    BY <1>7 DEF RunOnAccel
  <2>3. ~(queue.next < queue.end)
    BY <1>1, <2>2 DEF Sides
  <2>4. Done = lo - 1 /\ Done' = lo - 1
    BY <1>2, <2>1, <2>2, <2>3 DEF Done, IsRun
  <2> QED
    BY <1>4, <2>2, <2>4
<1>8. CASE RunOnCpu
  <2>1. pc = "run" /\ pc' = "build" /\ queue.next = queue.end /\ UNCHANGED <<g, logical, lo, queue>>
    BY <1>8 DEF RunOnCpu
  <2> QED
    BY <1>2, <1>4, <2>1 DEF Done
<1>9. CASE BuildNode
  <2>1. /\ pc = "build" /\ UNCHANGED <<g, logical, lo, queue>>
        /\ pc' = "build" \/ (pc' = "compute" /\ k' = lo)
    BY <1>9 DEF BuildNode
  <2>2. queue.next = queue.end
    BY <1>1, <2>1 DEF Control
  <2> QED
    BY <1>2, <1>4, <2>1, <2>2 DEF Done
<1>10. CASE ComputeNode
  <2>1. /\ pc = "compute" /\ UNCHANGED <<g, hi>>
        /\ \/ pc' = "compute" /\ k' = k + 1
           \/ pc' = "writeback" /\ k + 1 = hi
        /\ logical' = IF k \in Writers(g) THEN [logical EXCEPT ![g.cell[k]] = CpuResult] ELSE logical
    BY <1>10 DEF ComputeNode
  <2>2. lo <= k /\ k < hi /\ hi <= g.n + 1
    BY <1>1, <2>1 DEF Control
  <2>3. k \in Node(g)
    BY <1>1, <1>2, <2>2 DEF TypeOK, Node
  <2>4. k \in Writers(g) => CpuResult = Result(g, logical, k)
    <3> SUFFICES ASSUME k \in Writers(g) PROVE CpuResult = Result(g, logical, k)
      OBVIOUS
    <3>1. [s \in g.src[k] |-> Content(shadow[s])] = [s \in g.src[k] |-> logical[g.cell[s]]]
      BY <2>1, ReadsLogical
    <3> QED
      BY <3>1 DEF CpuResult, Result
  <2>5. Done = k - 1 /\ Done' = k
    BY <1>2, <2>1 DEF Done
  <2>6. PICK m \in Node(g) : m = k
    BY <2>3
  <2>7. GE!RunNode
    BY <1>1, <2>1, <2>4, <2>5, <2>6, RefineRun
  <2> QED
    BY <2>7 DEF GE!Next
<1>11. CASE WriteBack
  <2>1. /\ pc = "writeback" /\ UNCHANGED <<g, logical, hi, queue>>
        /\ pc' = "writeback" \/ (pc' = "run" /\ lo' = hi)
    BY <1>11 DEF WriteBack
  <2>2. queue.next = queue.end
    BY <1>1, <2>1 DEF Control
  <2> QED
    BY <1>2, <1>4, <2>1, <2>2 DEF Done
<1>12. CASE FailRun
  <2>1. pc # "idle" /\ pc' = "idle" /\ logical' = mem /\ UNCHANGED g /\ pc \in {"classify", "run", "compute"}
    BY <1>12 DEF FailRun
  <2>2. \A c \in Cell \ {g.cell[m] : m \in Writers(g)} : mem[c] = logical[c]
    BY <1>1, <2>1 DEF Pending
  <2>3. Done' = 0
    BY <2>1 DEF Done
  <2>4. GE!Fail
    BY <2>1, <2>2, <2>3, SameGraphs DEF GE!Fail
  <2> QED
    BY <2>4 DEF GE!Next
<1>13. CASE Return
  <2>1. pc = "run" /\ lo = g.n + 1 /\ queue.next = queue.end /\ pc' = "idle" /\ UNCHANGED <<g, logical>>
    BY <1>13 DEF Return
  <2>2. Done = g.n /\ Done' = 0
    BY <1>2, <2>1 DEF Done
  <2>3. GE!Succeed
    BY <2>1, <2>2 DEF GE!Succeed
  <2> QED
    BY <2>3 DEF GE!Next
<1>14. CASE AccelStep
  <2>1. PICK m : m = queue.next
    OBVIOUS
  <2>2. /\ pc = "run" /\ queue.end = lo /\ m < queue.end /\ queue.end <= g.n + 1
        /\ UNCHANGED <<g, pc, lo>> /\ queue' = [queue EXCEPT !.next = @ + 1] /\ mem = logical
    BY <1>1, <1>14, <2>1 DEF AccelStep, Control, Pending
  <2>3. m \in Node(g)
    BY <1>1, <1>2, <2>1, <2>2 DEF TypeOK, Node
  <2>4. Done = m - 1 /\ Done' = m
    <3>1. queue'.next = m + 1 /\ queue'.end = lo
      BY <1>1, <2>1, <2>2 DEF TypeOK
    <3> QED
      BY <1>2, <2>1, <2>2, <3>1 DEF Done
  <2>5. logical' = IF m \in Writers(g) THEN [logical EXCEPT ![g.cell[m]] = Result(g, logical, m)] ELSE logical
    BY <1>14, <2>1, <2>2 DEF AccelStep
  <2>6. GE!RunNode
    BY <1>1, <2>2, <2>3, <2>4, <2>5, RefineRun
  <2> QED
    BY <2>6 DEF GE!Next
<1>15. CASE UNCHANGED vars
  BY <1>15 DEF vars, GE!vars, Done
<1> QED
  BY <1>5, <1>6, <1>7, <1>8, <1>9, <1>10, <1>11, <1>12, <1>13, <1>14, <1>15 DEF Next, InCall

(* Whatever the accelerator refuses and however late its queue runs, a     *)
(* call computes what node-by-node execution on one memory computes, or    *)
(* fails and leaves alone what the graph does not write (fb_graph_compute).*)
THEOREM Refinement == Spec => ImplementsGraphExec
<1>1. Init => GE!Init
  BY RefineInit
<1>2. IInv /\ IInv' /\ [Next]_vars => [GE!Next]_(GE!vars)
  BY RefineStep
<1> QED
  BY <1>1, <1>2, AlwaysInv, PTL DEF Spec, ImplementsGraphExec, GE!Spec

-----------------------------------------------------------------------------
(* What an NPU copy reads back as is a value nothing else has: no input,   *)
(* no weight, and no result of an op.                                      *)
OnlyReadBackGarbles ==
  /\ Garbled \notin InputVal \cup {Junk}
  /\ \A b \in Weight : WeightVal(b) # Garbled
  /\ \A i, reads : Apply(i, reads) # Garbled

(* Then memory never holds it, nor an object a node of the run has written.*)
Ungarbled ==
  /\ \A c \in Cell : mem[c] # Garbled /\ logical[c] # Garbled
  /\ pc \in {"compute", "writeback"} =>
       \A i \in Writers(g) : lo <= i /\ i < Computed => Content(shadow[i]) # Garbled

\* Where a node of the run leaves its result.
LEMMA HostWritten ==
  ASSUME TypeOK, Objects, OnCpu, NEW i \in Writers(g), i >= lo, shadow[i] # NoObj
  PROVE  \/ \E c \in Cell : shadow[i] = DeviceObj(c)
         \/ \E t \in AnyTensor : shadow[i] = PoolObj(t)
<1>1. i \in Tensor(g) /\ g.cell[i] \in Cell
  BY WriterFacts, NodeFacts DEF Cell
<1>2. g.base[i] \in Tensor(g)
  BY <1>1, TensorFacts
<1>3. g.base[i] \in AnyTensor
  BY <1>2, TensorFacts
<1> QED
  BY <1>1, <1>3, WriterObject

LEMMA UngarbledInit == OnlyReadBackGarbles /\ Init => Ungarbled
BY DEF OnlyReadBackGarbles, Init, Ungarbled, LoadedMem

LEMMA UngarbledStep == OnlyReadBackGarbles /\ IInv /\ Ungarbled /\ [Next]_vars => Ungarbled'
<1> SUFFICES ASSUME OnlyReadBackGarbles, IInv, Ungarbled, [Next]_vars PROVE Ungarbled'
  OBVIOUS
<1>1. /\ TypeOK /\ Control /\ Objects
      /\ lo \in Int /\ hi \in Int /\ k \in Int
      /\ mem = [c \in Cell |-> mem[c]] /\ logical = [c \in Cell |-> logical[c]]
      /\ pool = [t \in AnyTensor |-> pool[t]] /\ mirror = [b \in Leaf |-> mirror[b]]
  BY SplitAssumption DEF IInv, DataInv, TypeOK
<1>2. \A i \in Writers(g) : i \in Int /\ g.cell[i] \in Cell
  BY <1>1, WriterFacts, NodeFacts DEF Cell
<1>3. ASSUME pc' \notin {"compute", "writeback"}, \A c \in Cell : mem'[c] # Garbled /\ logical'[c] # Garbled
      PROVE  Ungarbled'
  BY <1>3 DEF Ungarbled
<1>4. CASE Call
  <2>1. PICK h \in ValidGraphs, in \in [Input -> InputVal] :
          /\ mem' = [c \in Cell |-> IF c \in InputCells(h) THEN in[CHOOSE l \in Input : h.cell[l] = c] ELSE mem[c]]
    <3>1. Callable \subseteq ValidGraphs
      BY SplitAssumption DEF Callable
    <3> QED
      BY <1>4, <3>1 DEF Call
  <2>2. ASSUME NEW c \in Cell PROVE mem'[c] # Garbled
    <3>1. CASE c \in InputCells(h)
      <4>1. (CHOOSE l \in Input : h.cell[l] = c) \in Input
        BY <3>1 DEF InputCells
      <4> QED
        BY <2>1, <3>1, <4>1 DEF OnlyReadBackGarbles
    <3>2. CASE c \notin InputCells(h)
      BY <2>1, <3>2 DEF Ungarbled
    <3> QED
      BY <3>1, <3>2
  <2>3. logical' = mem' /\ pc' = "classify"
    BY <1>4 DEF Call
  <2> QED
    BY <1>3, <2>2, <2>3
<1>5. CASE BuildNode
  <2>1. UNCHANGED <<g, lo, hi, mem, logical>> /\ (pc' = "compute" => k' = lo) /\ pc' \in {"build", "compute"}
    BY <1>5 DEF BuildNode
  <2>2. pc' = "compute" => Computed' = lo
    BY <2>1 DEF Computed
  <2>3. ~(\E i \in Writers(g) : lo <= i /\ i < lo)
    BY <1>1, <1>2
  <2> QED
    BY <2>1, <2>2, <2>3 DEF Ungarbled
<1>6. CASE ComputeNode
  <2>1. /\ pc = "compute" /\ lo <= k /\ k < hi /\ UNCHANGED <<g, lo, hi, shadow>>
        /\ Computed = k /\ OnCpu
    BY <1>1, <1>6 DEF ComputeNode, Control, Computed, OnCpu
  <2>2. Computed' = k + 1 /\ pc' \in {"compute", "writeback"}
    <3>1. IF k + 1 = hi THEN k' = lo /\ pc' = "writeback" ELSE k' = k + 1 /\ pc' = "compute"
      BY <1>6 DEF ComputeNode
    <3> QED
      BY <2>1, <3>1 DEF Computed
  <2>3. CASE k \in Writers(g)
    <3>1. CpuResult # Garbled
      BY DEF OnlyReadBackGarbles, CpuResult
    <3>2. \A c \in Cell : mem'[c] # Garbled /\ logical'[c] # Garbled
      BY <1>1, <1>2, <1>6, <2>3, <3>1 DEF ComputeNode, Ungarbled
    <3>3. ASSUME NEW i \in Writers(g), lo <= i, i < k + 1 PROVE Content(shadow[i])' # Garbled
      <4>1. CASE i = k
        <5>1. i \in Tensor(g) /\ shadow[i] # NoObj
          BY <1>1, <1>6, <2>3, <4>1, Computing, WriterFacts, NodeFacts
        <5>2. Content(shadow[i])' = CpuResult
          BY <1>1, <1>6, <2>3, <4>1, <5>1, Computing
        <5> QED
          BY <3>1, <5>2
      <4>2. CASE i # k
        <5>1. Content(shadow[i]) # Garbled
          BY <1>1, <1>2, <2>1, <3>3, <4>2 DEF Ungarbled
        <5>2. /\ mem' = IF shadow[k].kind = "device" THEN [mem EXCEPT ![shadow[k].at] = CpuResult] ELSE mem
              /\ pool' = IF shadow[k].kind = "pool" THEN [pool EXCEPT ![shadow[k].at] = CpuResult] ELSE pool
              /\ mirror' = IF shadow[k].kind = "mirror" THEN [mirror EXCEPT ![shadow[k].at] = CpuResult] ELSE mirror
              /\ shadow' = shadow
          BY <1>6, <2>3 DEF ComputeNode
        <5>3. /\ \A c \in Cell : mem'[c] \in {mem[c], CpuResult}
              /\ \A t \in AnyTensor : pool'[t] \in {pool[t], CpuResult}
          BY <1>1, <5>2
        <5>4. shadow[i] # NoObj
          BY <1>1, <1>2, <2>1, <3>3 DEF Objects, Built
        <5>5. PICK o : shadow[i] = o /\ (o \in {DeviceObj(c) : c \in Cell} \/ o \in {PoolObj(t) : t \in AnyTensor})
          BY <1>1, <1>2, <2>1, <3>3, <5>4, HostWritten
        <5>6. CASE \E c \in Cell : o = DeviceObj(c)
          BY <3>1, <5>1, <5>2, <5>3, <5>5, <5>6 DEF Content, DeviceObj
        <5>7. CASE \E t \in AnyTensor : o = PoolObj(t)
          BY <3>1, <5>1, <5>2, <5>3, <5>5, <5>7 DEF Content, PoolObj
        <5> QED
          BY <5>5, <5>6, <5>7
      <4> QED
        BY <4>1, <4>2
    <3> QED
      BY <2>1, <2>2, <3>2, <3>3 DEF Ungarbled
  <2>4. CASE k \notin Writers(g)
    <3>1. UNCHANGED <<logical, pool, mem, mirror, shadow>>
      BY <1>6, <2>4 DEF ComputeNode
    <3>2. \A i \in Writers(g) : i < k + 1 <=> i < k
      BY <1>1, <1>2, <2>4
    <3>3. \A i : Content(shadow[i])' = Content(shadow[i])
      BY <3>1 DEF Content
    <3> QED
      BY <2>1, <2>2, <3>1, <3>2, <3>3 DEF Ungarbled
  <2> QED
    BY <2>3, <2>4
<1>7. CASE WriteBack
  <2>1. /\ pc = "writeback" /\ lo <= k /\ k < hi /\ UNCHANGED <<g, logical, hi, shadow, pool, mirror>>
        /\ IF k + 1 = hi THEN pc' = "run" ELSE pc' = pc /\ lo' = lo
        /\ mem' = IF k \in Writers(g) THEN [mem EXCEPT ![g.cell[k]] = Content(shadow[k])] ELSE mem
        /\ Computed = hi /\ OnCpu
    BY <1>1, <1>7 DEF WriteBack, Control, Computed, OnCpu
  <2>2. PICK v : v = Content(shadow[k])
    OBVIOUS
  <2>3. k \in Writers(g) => v # Garbled
    BY <2>1, <2>2 DEF Ungarbled
  <2>4. \A c \in Cell : mem'[c] # Garbled /\ logical'[c] # Garbled
    BY <1>1, <1>2, <2>1, <2>2, <2>3 DEF Ungarbled
  <2>5. ASSUME NEW i \in Writers(g), lo <= i, i < hi PROVE Content(shadow[i])' # Garbled
    <3>1. Content(shadow[i]) # Garbled
      BY <2>1, <2>5 DEF Ungarbled
    <3>2. \A c \in Cell : mem'[c] = mem[c] \/ mem'[c] # Garbled
      BY <1>1, <2>1, <2>2, <2>3
    <3>3. shadow[i] # NoObj
      BY <1>1, <1>2, <2>1, <2>5 DEF Objects, Built
    <3>4. PICK o : shadow[i] = o /\ (o \in {DeviceObj(c) : c \in Cell} \/ o \in {PoolObj(t) : t \in AnyTensor})
      BY <1>1, <1>2, <2>1, <2>5, <3>3, HostWritten
    <3>5. shadow'[i] = o /\ UNCHANGED <<pool, mirror>>
      BY <2>1, <3>4
    <3>6. CASE \E c \in Cell : o = DeviceObj(c)
      <4>1. PICK c \in Cell : o = DeviceObj(c)
        BY <3>6
      <4>2. Content(shadow[i]) = mem[c] /\ Content(shadow[i])' = mem'[c]
        BY <3>4, <3>5, <4>1 DEF Content, DeviceObj
      <4> QED
        BY <3>1, <3>2, <4>2
    <3>7. CASE \E t \in AnyTensor : o = PoolObj(t)
      <4>1. Content(shadow[i])' = Content(shadow[i])
        BY <3>4, <3>5, <3>7 DEF Content, PoolObj
      <4> QED
        BY <3>1, <4>1
    <3> QED
      BY <3>4, <3>6, <3>7
  <2>6. CASE k + 1 = hi
    BY <1>3, <2>1, <2>4, <2>6
  <2>7. CASE k + 1 # hi
    <3>1. Computed' = hi /\ pc' = "writeback" /\ lo' = lo
      BY <2>1, <2>7 DEF Computed
    <3> QED
      BY <2>1, <2>4, <2>5, <3>1 DEF Ungarbled
  <2> QED
    BY <2>6, <2>7
<1>8. CASE ComputeAllOnAccel \/ Classify \/ PullCopies \/ FillViews \/ RunOnAccel \/ RunOnCpu \/ FailRun \/ Return
  BY <1>3, <1>8 DEF ComputeAllOnAccel, Classify, PullCopies, FillViews, RunOnAccel, RunOnCpu, FailRun, Return, Ungarbled
<1>9. CASE AccelStep
  <2>1. pc' = "run"
    BY <1>1, <1>9 DEF AccelStep, Control
  <2>2. \A m : Result(g, mem, m) # Garbled
    BY DEF OnlyReadBackGarbles, Result
  <2>3. \A c \in Cell : mem'[c] # Garbled /\ logical'[c] # Garbled
    BY <1>1, <1>2, <1>9, <2>2 DEF AccelStep, Ungarbled
  <2> QED
    BY <1>3, <2>1, <2>3
<1>10. CASE UNCHANGED vars
  BY <1>10 DEF vars, Ungarbled, Computed, Content
<1> QED
  BY <1>4, <1>5, <1>6, <1>7, <1>8, <1>9, <1>10 DEF Next, InCall

(* The copies that feed the CPU are pulled off the NPU, through views too  *)
(* and transitively: no node computed on the CPU reads what an NPU copy    *)
(* reads back as (the backward walk of fb_graph_compute).                  *)
THEOREM HostReads == ASSUME OnlyReadBackGarbles PROVE Spec => []HostReadsNoNpuCopy
<1>1. Init => Ungarbled
  BY UngarbledInit
<1>2. IInv /\ Ungarbled /\ [Next]_vars => Ungarbled'
  BY UngarbledStep
<1>3. IInv /\ Ungarbled => HostReadsNoNpuCopy
  <2> SUFFICES ASSUME IInv, Ungarbled, pc = "compute", k \in Writers(g), NEW s \in g.src[k]
               PROVE  Content(shadow[s]) # Garbled
    BY DEF HostReadsNoNpuCopy
  <2>1. TypeOK
    BY DEF IInv
  <2>2. s \in Tensor(g)
    BY <2>1, WriterFacts, NodeFacts
  <2>3. g.cell[s] \in Cell
    BY <2>1, <2>2, TensorFacts
  <2> QED
    BY <2>3, ReadsLogical DEF Ungarbled
<1> QED
  BY <1>1, <1>2, <1>3, AlwaysInv, PTL DEF Spec

(* Every variable keeps its type: cursors stay inside the graph, the queue *)
(* inside the slice it was given and host objects inside the graph's       *)
(* tensors (fb_graph_compute, run_on_cpu).                                 *)
THEOREM TypeCorrect == Spec => []TypeOK
<1>1. Init => TypeOK /\ Control
  BY InitType
<1>2. TypeOK /\ Control /\ [Next]_vars => TypeOK' /\ Control'
  BY StepType
<1> QED
  BY <1>1, <1>2, PTL DEF Spec
=============================================================================
