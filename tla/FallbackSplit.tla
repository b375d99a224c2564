---------------------------- MODULE FallbackSplit ----------------------------
(***************************************************************************)
(* The CPU-fallback backend (src/src/backend_fallback.cpp): a graph is     *)
(* split into maximal runs of nodes the accelerator takes and nodes it     *)
(* does not. Accelerator runs are enqueued and execute on their own; a CPU *)
(* run synchronizes, copies what it reads to the host, computes there and  *)
(* writes every result back.                                               *)
(*                                                                         *)
(* The accelerator, its in-order queue and the caller's sequence of        *)
(* tensor_set, graph_compute and synchronize are external.                 *)
(***************************************************************************)
EXTENDS Graph

CONSTANTS
  MaxNode,      \* no graph has more nodes
  MaxCalls,     \* bound on graph_compute calls
  Often,        \* bound: the graphs that calls after the first are for
  Accelerator,  \* what a wrapper may be made for: [hostVisible, hexagon]
  Garbled,      \* what the host reads where the NPU left a copy
  Unset         \* no host copy yet

VARIABLES
  accel,   \* the wrapper's accelerator: whether its buffers are host memory
           \* (hostVisible), and whether it is an HTP session (hexagon)
  g,       \* the graph of the current call
  mem,     \* device memory
  npu,     \* cells whose last writer was a copy computed on the NPU
  logical, \* auxiliary: memory as the computed nodes define it
  pc,      \* where the calling thread is
  where,   \* fc->where
  lo, hi,  \* the run being looked at, lo .. hi - 1
  k,       \* loop cursor of the calling thread
  queue,   \* nodes enqueued on the accelerator: queue.next .. queue.end - 1
  shadow,  \* tensor -> host object of the current CPU run
  pool,    \* host storage taken from the pool, by the tensor it was taken for
  mirror,  \* fc->weights
  calls

vars == <<accel, g, mem, npu, logical, pc, where, lo, hi, k, queue, shadow, pool, mirror, calls>>

\* How many nodes have logically run: a CPU run's when they are computed, an
\* accelerator run's when the queue gets to them.
Done ==
  CASE pc \in {"idle", "classify", "pull", "fill"} -> 0
    [] pc = "compute"   -> k - 1
    [] pc = "writeback" -> hi - 1
    [] OTHER -> IF queue.next < queue.end THEN queue.next - 1 ELSE lo - 1

GE == INSTANCE GraphExec WITH mem <- logical, busy <- pc # "idle", pos <- Done

AnyTensor == Leaf \cup 1 .. MaxNode

ASSUME SplitAssumption ==
  /\ MaxNode \in Nat /\ MaxCalls \in Nat
  /\ Accelerator \subseteq [hostVisible : BOOLEAN, hexagon : BOOLEAN]
  /\ \A h \in Graphs : h.n <= MaxNode
  /\ ValidGraphs # {} /\ Often \subseteq ValidGraphs

-----------------------------------------------------------------------------
(* Host objects: what a host tensor's data pointer points at. *)
NoObj        == [kind |-> "none",   at |-> 0]
PoolObj(t)   == [kind |-> "pool",   at |-> t]
MirrorObj(b) == [kind |-> "mirror", at |-> b]
DeviceObj(c) == [kind |-> "device", at |-> c]

Content(o) ==
  CASE o.kind = "pool"   -> pool[o.at]
    [] o.kind = "mirror" -> mirror[o.at]
    [] o.kind = "device" -> mem[o.at]
    [] OTHER -> Unset

\* ggml_backend_tensor_get: an NPU copy reads back wrong on the host.
ReadBack(t) == IF g.cell[t] \in npu THEN Garbled ELSE mem[g.cell[t]]

\* A broken variant: inputs are mirrored like weights.
HostObjMirrorsInputs(t) ==
  IF accel.hostVisible THEN DeviceObj(g.cell[t])
  ELSE IF g.base[t] \in Leaf THEN MirrorObj(g.base[t])
  ELSE PoolObj(t)

\* host_input, for a tensor with no shadow yet: the host object it gets.
HostObj(t) ==
  IF accel.hostVisible THEN DeviceObj(g.cell[t])
  ELSE IF g.base[t] \in Weight THEN MirrorObj(g.base[t])
  ELSE PoolObj(t)

-----------------------------------------------------------------------------
Init ==
  /\ accel \in Accelerator
  /\ g = CHOOSE h \in ValidGraphs : TRUE
  /\ mem = LoadedMem
  /\ logical = LoadedMem
  /\ npu = {}
  /\ pc = "idle"
  /\ where = [i \in 1 .. MaxNode |-> "either"]
  /\ lo = 1 /\ hi = 1 /\ k = 1
  /\ queue = [next |-> 1, end |-> 1]
  /\ shadow = [t \in AnyTensor |-> NoObj]
  /\ pool = [t \in AnyTensor |-> Unset]
  /\ mirror = [b \in Leaf |-> Unset]
  /\ calls = 0

Callable == IF calls = 0 THEN ValidGraphs ELSE Often

\* An arch fills its inputs (tensor_set) and calls ggml_backend_graph_compute.
Call ==
  /\ pc = "idle"
  /\ calls < MaxCalls /\ (calls = 0 \/ g \in Often)
  /\ \E h \in Callable : \E in \in [Input -> InputVal] :
       /\ LET filled == InputCells(h)
              val(c) == in[CHOOSE l \in Input : h.cell[l] = c] IN
          /\ g' = h
          /\ mem' = [c \in Cell |-> IF c \in filled THEN val(c) ELSE mem[c]]
          /\ npu' = npu \ filled
  /\ logical' = mem'
  /\ pc' = "classify"
  /\ calls' = calls + 1
  /\ UNCHANGED <<accel, where, lo, hi, k, queue, shadow, pool, mirror>>

Refused == {i \in Node(g) : g.op[i] # "view" /\ ~g.takes[i]}

\* accel_runs decides for every node that computes something.
Decided == [i \in 1 .. MaxNode |->
              IF i \in Refused THEN "cpu" ELSE IF i \in Writers(g) THEN "accel" ELSE "either"]

\* No refusal: the whole graph goes to the accelerator and the call returns.
ComputeAllOnAccel ==
  /\ pc = "classify"
  /\ Refused = {}
  /\ where' = Decided
  /\ queue' = [next |-> 1, end |-> g.n + 1]
  /\ lo' = g.n + 1
  /\ pc' = "run"
  /\ UNCHANGED <<accel, g, mem, npu, logical, hi, k, shadow, pool, mirror, calls>>

\* Each node to accelerator, CPU or (views) either; on an HTP the copies that
\* feed the CPU are looked for next, walking backwards.
Classify ==
  /\ pc = "classify"
  /\ Refused # {}
  /\ where' = Decided
  /\ k' = g.n
  /\ pc' = IF accel.hexagon THEN "pull" ELSE "fill"
  /\ UNCHANGED <<accel, g, mem, npu, logical, lo, hi, queue, shadow, pool, mirror, calls>>

\* A broken variant: a copy seen through a view is not found.
CopiesFeedingDirectly(i) ==
  {m \in Node(g) : m \in g.src[i] /\ where[m] = "accel" /\ g.op[m] = "copy"}

\* The accelerator's copies whose result node i reads, through pure views.
CopiesFeeding(i) ==
  {m \in Node(g) : m \in {g.prod[s] : s \in g.src[i]} /\ where[m] = "accel" /\ g.op[m] = "copy"}

PullCopies ==
  /\ pc = "pull"
  /\ where' = IF where[k] = "cpu"
                THEN [i \in 1 .. MaxNode |-> IF i \in CopiesFeeding(k) THEN "cpu" ELSE where[i]]
                ELSE where
  /\ k' = k - 1
  /\ pc' = IF k = 1 THEN "fill" ELSE "pull"
  /\ UNCHANGED <<accel, g, mem, npu, logical, lo, hi, queue, shadow, pool, mirror, calls>>

\* A view goes where the last decided node before it went, at first the accelerator.
FillViews ==
  /\ pc = "fill"
  /\ where' = [i \in 1 .. MaxNode |->
                 IF where[i] # "either" THEN where[i]
                 ELSE IF \E m \in 1 .. i - 1 :
                           where[m] = "cpu" /\ \A v \in m + 1 .. i - 1 : where[v] = "either"
                      THEN "cpu" ELSE "accel"]
  /\ lo' = 1
  /\ pc' = "run"
  /\ UNCHANGED <<accel, g, mem, npu, logical, hi, k, queue, shadow, pool, mirror, calls>>

\* lo .. j - 1 is a maximal run of nodes going the same way.
IsRun(j) ==
  /\ lo < j /\ j <= g.n + 1
  /\ \A i \in lo .. j - 1 : where[i] = where[lo]
  /\ j <= g.n => where[j] # where[lo]

\* A broken variant: the slice is one node too long.
RunOnAccelTooLong ==
  /\ pc = "run"
  /\ lo <= g.n
  /\ where[lo] = "accel"
  /\ \E j \in Node(g) \cup {g.n + 1} :
       /\ IsRun(j)
       /\ queue' = [next |-> lo, end |-> j + 1]
       /\ lo' = j
  /\ UNCHANGED <<accel, g, mem, npu, logical, pc, where, hi, k, shadow, pool, mirror, calls>>

\* A broken variant: the loop does not move past the run it issued.
RunOnAccelAgain ==
  /\ pc = "run"
  /\ lo <= g.n
  /\ where[lo] = "accel"
  /\ \E j \in Node(g) \cup {g.n + 1} : IsRun(j) /\ queue' = [next |-> lo, end |-> j]
  /\ UNCHANGED <<accel, g, mem, npu, logical, pc, where, lo, hi, k, shadow, pool, mirror, calls>>

RunOnAccel ==
  /\ pc = "run"
  /\ lo <= g.n
  /\ where[lo] = "accel"
  /\ \E j \in Node(g) \cup {g.n + 1} :
       /\ IsRun(j)
       /\ queue' = [next |-> lo, end |-> j]
       /\ lo' = j
  /\ UNCHANGED <<accel, g, mem, npu, logical, pc, where, hi, k, shadow, pool, mirror, calls>>

\* A broken variant: nobody waits for the accelerator before reading.
RunOnCpuUnsynchronized ==
  /\ pc = "run"
  /\ lo <= g.n
  /\ where[lo] = "cpu"
  /\ \E j \in Node(g) \cup {g.n + 1} : IsRun(j) /\ hi' = j
  /\ k' = lo
  /\ shadow' = [t \in AnyTensor |-> NoObj]
  /\ pool' = [t \in AnyTensor |-> Unset]
  /\ pc' = "build"
  /\ UNCHANGED <<accel, g, mem, npu, logical, where, lo, queue, mirror, calls>>

\* run_on_cpu: synchronize with the accelerator, then start over with the pool.
RunOnCpu ==
  /\ pc = "run"
  /\ lo <= g.n
  /\ where[lo] = "cpu"
  /\ queue.next = queue.end
  /\ \E j \in Node(g) \cup {g.n + 1} : IsRun(j) /\ hi' = j
  /\ k' = lo
  /\ shadow' = [t \in AnyTensor |-> NoObj]
  /\ pool' = [t \in AnyTensor |-> Unset]
  /\ pc' = "build"
  /\ UNCHANGED <<accel, g, mem, npu, logical, where, lo, queue, mirror, calls>>

\* The host tensors node k needs and has not got: its sources and its view_src.
Missing == {s \in g.src[k] \cup {g.base[k]} : s # k /\ shadow[s] = NoObj}

\* One iteration of the loop that builds the host graph.
BuildNode ==
  /\ pc = "build"
  /\ shadow' = LET got == [t \in AnyTensor |-> IF t \in Missing THEN HostObj(t) ELSE shadow[t]]
               IN [got EXCEPT ![k] = IF g.base[k] = k THEN PoolObj(k) ELSE got[g.base[k]]]
  /\ pool' = [t \in AnyTensor |->
                IF t \in Missing /\ HostObj(t).kind = "pool" THEN ReadBack(t) ELSE pool[t]]
  /\ mirror' = [b \in Leaf |->
                  IF mirror[b] = Unset /\ \E t \in Missing : HostObj(t) = MirrorObj(b)
                  THEN mem[g.cell[b]] ELSE mirror[b]]
  /\ k' = IF k + 1 = hi THEN lo ELSE k + 1
  /\ pc' = IF k + 1 = hi THEN "compute" ELSE "build"
  /\ UNCHANGED <<accel, g, mem, npu, logical, where, lo, hi, queue, calls>>

\* Node k of the host graph, on the host copies.
CpuResult == Apply(k, [s \in g.src[k] |-> Content(shadow[s])])

ComputeNode ==
  /\ pc = "compute"
  /\ IF k \in Writers(g)
       THEN LET o == shadow[k] IN
            /\ logical' = [logical EXCEPT ![g.cell[k]] = CpuResult]
            /\ pool'   = IF o.kind = "pool"   THEN [pool EXCEPT ![o.at] = CpuResult] ELSE pool
            /\ mem'    = IF o.kind = "device" THEN [mem EXCEPT ![o.at] = CpuResult] ELSE mem
            /\ mirror' = IF o.kind = "mirror" THEN [mirror EXCEPT ![o.at] = CpuResult] ELSE mirror
       ELSE UNCHANGED <<logical, pool, mem, mirror>>
  /\ k' = IF k + 1 = hi THEN lo ELSE k + 1
  /\ pc' = IF k + 1 = hi THEN "writeback" ELSE "compute"
  /\ UNCHANGED <<accel, g, npu, where, lo, hi, queue, shadow, calls>>

\* A broken variant: only the run's last result goes back.
WriteBackLast ==
  /\ pc = "writeback"
  /\ IF k \in Writers(g) /\ k + 1 = hi
       THEN /\ mem' = [mem EXCEPT ![g.cell[k]] = Content(shadow[k])]
            /\ npu' = npu \ {g.cell[k]}
       ELSE UNCHANGED <<mem, npu>>
  /\ k' = k + 1
  /\ IF k + 1 = hi THEN pc' = "run" /\ lo' = hi ELSE UNCHANGED <<pc, lo>>
  /\ UNCHANGED <<accel, g, logical, where, hi, queue, shadow, pool, mirror, calls>>

\* Results go back in node order; a pure view wrote nothing.
WriteBack ==
  /\ pc = "writeback"
  /\ IF k \in Writers(g)
       THEN /\ mem' = [mem EXCEPT ![g.cell[k]] = Content(shadow[k])]
            /\ npu' = npu \ {g.cell[k]}
       ELSE UNCHANGED <<mem, npu>>
  /\ k' = k + 1
  /\ IF k + 1 = hi THEN pc' = "run" /\ lo' = hi ELSE UNCHANGED <<pc, lo>>
  /\ UNCHANGED <<accel, g, logical, where, hi, queue, shadow, pool, mirror, calls>>

\* A run that does not succeed ends the call; nothing of it is written back.
\* The accelerator refuses a run before it queues any of it.
FailRun ==
  /\ \/ pc = "classify" /\ Refused = {}
     \/ pc = "run" /\ lo <= g.n /\ queue.next = queue.end
     \/ pc = "compute"
  /\ logical' = mem
  /\ pc' = "idle"
  /\ UNCHANGED <<accel, g, mem, npu, where, lo, hi, k, queue, shadow, pool, mirror, calls>>

\* Every run was issued: the caller's synchronize waits for the accelerator.
Return ==
  /\ pc = "run"
  /\ lo = g.n + 1
  /\ queue.next = queue.end
  /\ pc' = "idle"
  /\ UNCHANGED <<accel, g, mem, npu, logical, where, lo, hi, k, queue, shadow, pool, mirror, calls>>

\* The accelerator executes the next node it was given.
AccelStep ==
  /\ queue.next < queue.end
  /\ LET m == queue.next
         v == Result(g, mem, m)
     IN IF m \in Writers(g)
          THEN /\ mem' = [mem EXCEPT ![g.cell[m]] = v]
               /\ logical' = [logical EXCEPT ![g.cell[m]] = v]
               /\ npu' = IF accel.hexagon /\ g.op[m] = "copy" THEN npu \cup {g.cell[m]}
                                                       ELSE npu \ {g.cell[m]}
          ELSE UNCHANGED <<mem, logical, npu>>
  /\ queue' = [queue EXCEPT !.next = @ + 1]
  /\ UNCHANGED <<accel, g, pc, where, lo, hi, k, shadow, pool, mirror, calls>>

\* What the calling thread does inside the call.
InCall == \/ ComputeAllOnAccel \/ Classify \/ PullCopies \/ FillViews
          \/ RunOnAccel \/ RunOnCpu \/ BuildNode \/ ComputeNode \/ WriteBack
          \/ FailRun \/ Return

Next == Call \/ InCall \/ AccelStep

Spec == Init /\ [][Next]_vars

\* The thread inside the call keeps running; so does the accelerator.
FairSpec == Spec /\ WF_vars(InCall) /\ WF_vars(AccelStep)

-----------------------------------------------------------------------------
TypeOK ==
  /\ accel \in Accelerator
  /\ WellFormed(g) /\ g.n <= MaxNode
  /\ mem = [c \in Cell |-> mem[c]]
  /\ logical = [c \in Cell |-> logical[c]]
  /\ npu \subseteq Slot
  /\ pc \in {"idle", "classify", "pull", "fill", "run", "build", "compute", "writeback"}
  /\ where \in [1 .. MaxNode -> {"accel", "cpu", "either"}]
  /\ lo \in 1 .. MaxNode + 1 /\ hi \in 1 .. MaxNode + 1
  /\ k \in 0 .. MaxNode + 1
  /\ queue \in [next : 1 .. MaxNode + 1, end : 1 .. MaxNode + 1]
  /\ shadow \in [AnyTensor -> [kind : {"none", "pool", "mirror", "device"}, at : AnyTensor \cup Cell \cup {0}]]
  /\ pool = [t \in AnyTensor |-> pool[t]]
  /\ mirror = [b \in Leaf |-> mirror[b]]
  /\ calls \in Nat

(* The split graph computes what node-by-node execution on one memory      *)
(* computes, whatever the accelerator refuses, wherever the allocator puts *)
(* the tensors and however late the queue runs.                            *)
ImplementsGraphExec == GE!Spec

(* Outside a CPU run no result lives on the host only: device memory is    *)
(* what the nodes computed so far define (run_on_cpu's write-back).        *)
Coherent == pc \notin {"compute", "writeback"} => mem = logical

(* No node runs on the CPU whose source is a copy the NPU computed: such a *)
(* copy reads back wrong on the host (fb_graph_compute's backward walk).   *)
HostReadsNoNpuCopy ==
  pc = "compute" /\ k \in Writers(g) /\ accel.hexagon =>
    \A s \in g.src[k] : Content(shadow[s]) # Garbled

(* A mirror outlives the call that made it, so while a host graph is built *)
(* it must still be what the device holds: only what no call changes may   *)
(* be mirrored (host_input).                                               *)
MirrorsAreFresh ==
  pc = "build" => \A b \in Leaf : mirror[b] # Unset => mirror[b] = mem[g.cell[b]]

(* Every call returns: the run loop advances and the synchronizes inside   *)
(* run_on_cpu and after the call are never left waiting.                   *)
CallsReturn == pc # "idle" ~> pc = "idle"
=============================================================================
