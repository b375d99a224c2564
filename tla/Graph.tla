-------------------------------- MODULE Graph --------------------------------
(***************************************************************************)
(* ggml compute graphs as the archs build them and the graph allocator     *)
(* places them.                                                            *)
(*                                                                         *)
(* Data is abstract. A tensor is an integer: leaves are the non-positive   *)
(* ones, node i is i >= 1 (ggml's g->nodes[i - 1]). A cell is the storage  *)
(* of one tensor: a weight has a cell of its own, every other tensor has a *)
(* slot the graph allocator gave it, and a view has its base's cell. What  *)
(* node i computes from the values it reads is the uninterpreted           *)
(* Apply(i, reads).                                                        *)
(***************************************************************************)
EXTENDS Integers

CONSTANTS
  Weight,      \* leaves in a buffer of usage WEIGHTS
  Input,       \* the other leaves: graph inputs the caller fills
  Slot,        \* allocator slots
  InputVal,    \* what a caller may put into an input
  Junk,        \* what a slot holds before anything is written
  Graphs,      \* the graphs the callers may build
  Apply(_, _), \* Apply(i, reads): the result of node i
  WeightVal(_) \* the values the loader uploaded

Leaf == Weight \cup Input
Cell == Weight \cup Slot
Node(h)   == 1 .. h.n
Tensor(h) == Leaf \cup Node(h)

\* ggml's view ops reinterpret memory; everything else writes its cell.
Writers(h) == {i \in Node(h) : h.op[i] # "view"}

(***************************************************************************)
(* The graphs the arch builders and the graph allocator produce.           *)
(*   op    "view", "copy" (CPY, CONT, DUP) or "compute"                    *)
(*   src   the tensors a node reads                                        *)
(*   base  view_src, or the tensor itself                                  *)
(*   prod  the tensor whose value it names, looking through pure views     *)
(*   cell  where its data is                                               *)
(*   takes whether the accelerator accepts the node                        *)
(***************************************************************************)
GraphShape(h) ==
  /\ h.n \in Nat
  /\ h.op    \in [Tensor(h) -> {"leaf", "view", "copy", "compute"}]
  /\ h.src   \in [Node(h) -> SUBSET Tensor(h)]
  /\ h.base  \in [Tensor(h) -> Tensor(h)]
  /\ h.prod  \in [Tensor(h) -> Tensor(h)]
  /\ h.cell  \in [Tensor(h) -> Cell]
  /\ h.takes \in [Node(h) -> BOOLEAN]
  /\ \A t \in Tensor(h) : h.op[t] = "leaf" <=> t \in Leaf

Topological(h) ==
  \A i \in Node(h) : \A s \in h.src[i] : s < i

\* A view or an in-place result lives in its base, which is no view itself.
Aliasing(h) ==
  /\ \A t \in Tensor(h) :
       /\ h.base[t] <= t /\ h.base[h.base[t]] = h.base[t]
       /\ h.cell[t] = h.cell[h.base[t]]
       /\ h.prod[t] <= t /\ h.base[h.prod[t]] = h.base[t]
       /\ t \in Leaf => h.base[t] = t
       /\ h.op[h.prod[t]] # "view"
       /\ h.op[t] # "view" => h.prod[t] = t
       /\ h.op[t] = "view" =>
            \E s \in h.src[t] : h.src[t] = {s} /\ h.base[t] = h.base[s] /\ h.prod[t] = h.prod[s]

\* Weights keep their own cells and nobody writes them.
WeightsFixed(h) ==
  /\ \A t \in Tensor(h) : h.cell[t] \in Weight <=> h.base[t] \in Weight
  /\ \A w \in Weight : h.cell[w] = w
  /\ \A i \in Writers(h) : h.base[i] \notin Weight

\* Between the write a read names and the read, no other node writes the cell.
ReadsValid(h) ==
  \A i \in Writers(h) : \A s \in h.src[i] :
    \A m \in Writers(h) : h.prod[s] < m /\ m < i => h.cell[m] # h.cell[s]

\* A base owns its cell until the last in-place write into it.
BaseOwnsCell(h) ==
  \A i, m \in Writers(h) :
    h.base[i] < m /\ m < i /\ h.cell[m] = h.cell[i] => h.base[m] = h.base[i]

\* Inputs are filled one by one, each in a slot of its own.
InputsApart(h) ==
  \A l, m \in Input : h.cell[l] = h.cell[m] => l = m

WellFormed(h) ==
  /\ GraphShape(h)
  /\ InputsApart(h)
  /\ Topological(h)
  /\ Aliasing(h)
  /\ WeightsFixed(h)
  /\ ReadsValid(h)
  /\ BaseOwnsCell(h)

ASSUME LeafAssumption ==
  /\ Weight \subseteq Int /\ Input \subseteq Int
  /\ \A l \in Leaf : l <= 0
  /\ Weight \cap Input = {} /\ Weight \cap Slot = {}

ValidGraphs == {h \in Graphs : WellFormed(h)}

InputCells(h) == {h.cell[l] : l \in Input}

\* What memory holds before the first call.
LoadedMem == [c \in Cell |-> IF c \in Weight THEN WeightVal(c) ELSE Junk]

\* The result of node i on memory m.
Result(h, m, i) == Apply(i, [s \in h.src[i] |-> m[h.cell[s]]])
=============================================================================
