------------------------------- MODULE KvCache -------------------------------
(***************************************************************************)
(* Attention over K/V buffers that the graph writes in place               *)
(* (src/src/modules/gemma_expert.h: KvSlot; src/src/models/smolvla.cpp:    *)
(* KvBuf; src/src/modules/fused_lm.h and qwen3vl_vit.h: one pair for all   *)
(* layers). The prefix pass writes a layer's first rows, and every step of *)
(* the expert overwrites the rows after them and attends over all. A       *)
(* kernel's operands do not tell that a buffer it reads was written, so    *)
(* the graph carries the order in extra edges (add_dep), and whatever the  *)
(* edges leave open a backend may do in any order, several nodes at once.  *)
(*                                                                         *)
(* Rows are told apart by who wrote them. A prefix row holds the layer and *)
(* a step's row the step, or 0: what an earlier call left, or half of it.  *)
(***************************************************************************)
EXTENDS Naturals

CONSTANTS
  L,     \* layers
  Graph  \* the graphs built: [steps, fused, cross, shared, pack]

VARIABLES
  graph,    \* the one at hand
  running,  \* its nodes that a backend is executing
  done,     \* and those it has executed
  prefix,   \* prefix[b][p]: the layer whose rows buffer b holds first
  step      \* step[b][p]: the step whose rows come after them

vars == <<graph, running, done, prefix, step>>

Layer == 1 .. L
Part  == {"k", "v"}

\* fused: one node ropes and writes both K and V; cross: the layers whose expert
\* attends to a projection of the prefix rows; shared: one pair of buffers for a
\* tower without steps; pack: the prefix pass makes the buffers, with rows
\* left free in them, and the steps write through views of what it made.
GraphType == [steps : Nat, fused : BOOLEAN, cross : SUBSET Layer, shared : BOOLEAN, pack : BOOLEAN]

ASSUME KvAssumption ==
  /\ L \in Nat \ {0}
  /\ Graph \subseteq GraphType
  /\ \A g \in Graph : g.shared => g.steps = 0

-----------------------------------------------------------------------------
(* The graph. A node is [op, s, l]: step 0 is the prefix pass. *)

Op == Part \cup {"kv", "attend", "crossk", "crossv"}

Node(op, s, l) == [op |-> op, s |-> s, l |-> l]

\* What a layer projects, and what a node writes and reads of a layer's buffers.
Writes(s, l) == IF graph.fused THEN {Node("kv", s, l)} ELSE {Node("k", s, l), Node("v", s, l)}

Written(n) == CASE n.op = "kv" -> Part [] n.op \in Part -> {n.op} [] OTHER -> {}

Attends(n) == n.op = "attend" /\ (n.s = 0 \/ n.l \notin graph.cross)

Read(n) == CASE Attends(n) -> Part [] n.op = "crossk" -> {"k"} [] n.op = "crossv" -> {"v"} [] OTHER -> {}

Buffer(l) == IF graph.shared THEN 1 ELSE l

\* The prefix pass over all layers, but for the attention nobody needs; the
\* cross layers' projections, once; and the steps.
InGraph(n) ==
  /\ n.op \in Part => ~graph.fused
  /\ n.op = "kv" => graph.fused
  /\ n.op \in Part \cup {"kv"} => n.s = 0 \/ n.l \notin graph.cross
  /\ n.op = "attend" => n.s > 0 \/ n.l < L \/ graph.steps = 0
  /\ n.op \in {"crossk", "crossv"} => n.s = 0 /\ graph.steps > 0 /\ n.l \in graph.cross

Nodes == {n \in [op : Op, s : 0 .. graph.steps, l : Layer] : InGraph(n)}

\* The residual stream: a layer takes what the one before it makes, and a
\* step's first what the last of the step before makes of x_t.
Stream(s, l) ==
  IF l > 1 THEN {Node("attend", s, l - 1)}
  ELSE IF s > 1 THEN {Node("attend", s - 1, L)}
  ELSE {}

\* What the others need: a projection the prefix rows, its attention it, a
\* step's write into the pack the pack.
Operands(n) ==
  CASE n.op = "attend" -> Stream(n.s, n.l) \cup {Node("crossk", 0, n.l), Node("crossv", 0, n.l)}
    [] n.op \in {"crossk", "crossv"} -> Writes(0, n.l)
    [] OTHER -> Stream(n.s, n.l) \cup (IF graph.pack /\ n.s > 0 THEN Writes(0, n.l) ELSE {})

\* A broken variant: a step does not wait for the prefix pass.
SourcesInStep(n) ==
  IF Attends(n) THEN Stream(n.s, n.l) \cup Writes(n.s, n.l) ELSE Operands(n)

\* A node's operands and its extra edges: an attention comes after the writes
\* of its step and of the prefix pass.
Sources(n) ==
  IF Attends(n) THEN Stream(n.s, n.l) \cup Writes(n.s, n.l) \cup Writes(0, n.l) ELSE Operands(n)

-----------------------------------------------------------------------------
Unwritten == [b \in Layer |-> [p \in Part |-> 0]]

Init ==
  /\ graph \in Graph
  /\ running = {} /\ done = {}
  /\ prefix = Unwritten /\ step = Unwritten

\* The rows a node writes are w from now on.
Put(n, layer, nr) ==
  LET Rows(rows, w) == [rows EXCEPT ![Buffer(n.l)] = [p \in Part |-> IF p \in Written(n) THEN w ELSE @[p]]]
  IN IF n.s = 0 THEN prefix' = Rows(prefix, layer) /\ UNCHANGED step
                ELSE step' = Rows(step, nr) /\ UNCHANGED prefix

\* A broken variant: a node may run again.
BeginAgain(n) ==
  /\ n \notin running
  /\ Sources(n) \subseteq done
  /\ running' = running \cup {n}
  /\ Put(n, 0, 0)
  /\ UNCHANGED <<graph, done>>

\* A backend starts on a node once its sources are done.
Begin(n) ==
  /\ n \notin running \cup done
  /\ Sources(n) \subseteq done
  /\ running' = running \cup {n}
  /\ Put(n, 0, 0)
  /\ UNCHANGED <<graph, done>>

End(n) ==
  /\ n \in running
  /\ running' = running \ {n}
  /\ done' = done \cup {n}
  /\ Put(n, n.l, n.s)
  /\ UNCHANGED graph

\* The next call on the same graph: its buffers keep what they hold.
NextCall ==
  /\ done = Nodes
  /\ done' = {}
  /\ prefix' = Unwritten /\ step' = Unwritten
  /\ UNCHANGED <<graph, running>>

Next == NextCall \/ \E n \in Nodes : Begin(n) \/ End(n)

Spec == Init /\ [][Next]_vars

-----------------------------------------------------------------------------
TypeOK ==
  /\ graph \in Graph
  /\ running \subseteq Nodes /\ done \subseteq Nodes
  /\ running \cap done = {}
  /\ prefix \in [Layer -> [Part -> 0 .. L]]
  /\ step \in [Layer -> [Part -> 0 .. graph.steps]]

(* Whatever order the edges leave to the backend, as long as a node reads  *)
(* K or V rows they are those of its layer's prefix pass and of its own    *)
(* step: never an earlier step's, a later one's, another layer's or those  *)
(* of the call before, and never rows being written.                       *)
ReadsOwnRows ==
  \A n \in running : \A p \in Read(n) :
    /\ prefix[Buffer(n.l)][p] = n.l
    /\ n.s > 0 => step[Buffer(n.l)][p] = n.s
=============================================================================
