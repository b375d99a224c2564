--------------------------- MODULE ArchCallsProofs ---------------------------
(***************************************************************************)
(* Proofs about ArchCalls, for every model and every request: what a call  *)
(* finds in the caches that earlier calls left behind, and left behind     *)
(* halfway.                                                                *)
(***************************************************************************)
EXTENDS ArchCalls, Gr00t, FiniteSetTheorems, TLAPS

\* The graph of cache c is the one of some step of the model, under its key,
\* and its inputs are that step's.
OfAStep(c) ==
  \E r \in DOMAIN Table[model] : \E i \in DOMAIN Table[model][r] :
    LET s == Table[model][r][i]
    IN  /\ s.cache = c
        /\ graphs[c] = [key |-> s.key, graph |-> SameGraph[model][r][i], set |-> graphs[c].set]
        /\ DOMAIN mem[c] = DOMAIN s.ins

Control ==
  /\ model \in Loaded /\ pc \in {"idle", "ensure", "fill", "compute"} /\ fresh \in BOOLEAN
  /\ pc = "idle" => request = None /\ ~fresh
  /\ pc # "idle" => request \in DOMAIN Table[model] /\ stage \in DOMAIN Table[model][request]
  /\ pc \in {"fill", "compute"} => Step.cache \in DOMAIN graphs /\ ~Step.setup

Caches ==
  /\ DOMAIN graphs = DOMAIN mem
  /\ \A c \in DOMAIN graphs : OfAStep(c)

CallsInv == Control /\ Caches

\* Between ensure and compute nothing touches the graph.
Current ==
  pc \in {"fill", "compute"} => graphs[Step.cache].graph = SameGraph[model][request][stage]

-----------------------------------------------------------------------------
(* The steps of a model. *)

LEMMA TheGraphOf ==
  ASSUME NEW m \in Loaded, NEW r \in DOMAIN Table[m], NEW i \in DOMAIN Table[m][r]
  PROVE  /\ SameGraph[m][r][i] = FirstOf(m, Table[m][r][i].cache, GraphOf(Table[m][r][i]))
         /\ SameGraph[m][r][i] \in StepsOf(m)
         /\ StepAt(m, SameGraph[m][r][i]).ins = Table[m][r][i].ins
<1> DEFINE s == Table[m][r][i]
           x == FirstOf(m, s.cache, GraphOf(s))
<1>1. SameGraph[m][r][i] = x
  BY DEF SameGraph
<1>2. <<r, i>> \in StepsOf(m) /\ StepAt(m, <<r, i>>) = s
  BY DEF StepsOf, StepAt
<1> HIDE DEF s
<1>3. x \in StepsOf(m) /\ GraphOf(StepAt(m, x)) = GraphOf(s)
  BY <1>2 DEF FirstOf
<1> HIDE DEF x
<1>4. StepAt(m, x).ins = s.ins
  BY <1>3 DEF GraphOf
<1> QED
  BY <1>1, <1>3, <1>4 DEF s, x

\* Steps of one cache and key have one graph, if the keys decide.
LEMMA OneGraph ==
  ASSUME KeysDecide, NEW m \in Loaded,
         NEW r \in DOMAIN Table[m], NEW i \in DOMAIN Table[m][r],
         NEW q \in DOMAIN Table[m], NEW j \in DOMAIN Table[m][q],
         Table[m][r][i].cache = Table[m][q][j].cache, Table[m][r][i].key = Table[m][q][j].key,
         ~Table[m][q][j].scratch
  PROVE  SameGraph[m][r][i] = SameGraph[m][q][j]
<1>1. <<r, i>> \in StepsOf(m) /\ <<q, j>> \in StepsOf(m)
      /\ StepAt(m, <<r, i>>) = Table[m][r][i] /\ StepAt(m, <<q, j>>) = Table[m][q][j]
  BY DEF StepsOf, StepAt
<1>2. GraphOf(Table[m][r][i]) = GraphOf(Table[m][q][j])
  BY <1>1 DEF KeysDecide
<1> QED
  BY <1>2, TheGraphOf

\* A step that is only set up, or skipped, is not the last one.
LEMMA NotTheLast ==
  ASSUME NEW m \in Loaded, NEW r \in DOMAIN Table[m], NEW i \in DOMAIN Table[m][r],
         Table[m][r][i].setup \/ Table[m][r][i].memo # <<>> \/ i # Len(Table[m][r])
  PROVE  i + 1 \in DOMAIN Table[m][r]
<1>1. /\ Len(Table[m][r]) \in Nat \ {0} /\ DOMAIN Table[m][r] = 1 .. Len(Table[m][r])
      /\ ~Table[m][r][Len(Table[m][r])].setup /\ Table[m][r][Len(Table[m][r])].memo = <<>>
  BY CallsAssumption
<1>2. i # Len(Table[m][r])
  BY <1>1
<1> QED
  BY <1>1, <1>2

-----------------------------------------------------------------------------
(* What the steps do to the caches. *)

\* No graph is new, none is another, and the inputs that stay are the same.
LEMMA CachesKeep ==
  ASSUME Caches, model' = model, DOMAIN graphs' = DOMAIN mem', DOMAIN graphs' \subseteq DOMAIN graphs,
         \A c \in DOMAIN graphs' : graphs'[c] = [graphs[c] EXCEPT !.set = graphs'[c].set] /\ DOMAIN mem'[c] = DOMAIN mem[c]
  PROVE  Caches'
<1> SUFFICES ASSUME NEW c \in DOMAIN graphs' PROVE OfAStep(c)'
  BY DEF Caches
<1>0. PICK r \in DOMAIN Table[model] : \E i \in DOMAIN Table[model][r] :
        /\ Table[model][r][i].cache = c
        /\ graphs[c] = [key |-> Table[model][r][i].key, graph |-> SameGraph[model][r][i], set |-> graphs[c].set]
        /\ DOMAIN mem[c] = DOMAIN Table[model][r][i].ins
  BY DEF Caches, OfAStep
<1>1. PICK i \in DOMAIN Table[model][r] :
        /\ Table[model][r][i].cache = c
        /\ graphs[c] = [key |-> Table[model][r][i].key, graph |-> SameGraph[model][r][i], set |-> graphs[c].set]
        /\ DOMAIN mem[c] = DOMAIN Table[model][r][i].ins
  BY <1>0
<1>2. graphs'[c] = [key |-> Table[model][r][i].key, graph |-> SameGraph[model][r][i], set |-> graphs'[c].set]
  <2>1. ASSUME NEW k, NEW g, NEW x, NEW y
        PROVE  [[key |-> k, graph |-> g, set |-> x] EXCEPT !.set = y] = [key |-> k, graph |-> g, set |-> y]
    OBVIOUS
  <2>2. graphs'[c] = [graphs[c] EXCEPT !.set = graphs'[c].set]
    OBVIOUS
  <2> QED
    BY <1>1, <2>1, <2>2
<1> QED
  BY <1>1, <1>2 DEF OfAStep

LEMMA CachesUnchanged == ASSUME Caches, UNCHANGED <<model, graphs, mem>> PROVE Caches'
BY DEF Caches, OfAStep

\* Released graphs take their inputs along.
LEMMA CachesReleased ==
  ASSUME Caches, model' = model, NEW S, Release(S)
  PROVE  Caches'
<1>1. graphs' = Without(graphs, S) /\ mem' = Without(mem, S) /\ DOMAIN graphs = DOMAIN mem
  BY DEF Release, Caches
<1>2. /\ DOMAIN graphs' = DOMAIN mem' /\ DOMAIN graphs' \subseteq DOMAIN graphs
      /\ \A c \in DOMAIN graphs' : graphs'[c] = graphs[c] /\ mem'[c] = mem[c]
  BY <1>1 DEF Without
<1> QED
  BY <1>2 DEF Caches, OfAStep

\* Writes to inputs, here or from elsewhere, make no input.
LEMMA CopiedInputs ==
  ASSUME NEW m, NEW copies
  PROVE  DOMAIN Copied(m, copies) = DOMAIN m /\ \A c \in DOMAIN m : DOMAIN Copied(m, copies)[c] = DOMAIN m[c]
BY DEF Copied

LEMMA SpentInputs ==
  ASSUME NEW m, NEW c, NEW kept
  PROVE  DOMAIN Spent(m, c, kept) = DOMAIN m /\ \A d \in DOMAIN m : DOMAIN Spent(m, c, kept)[d] = DOMAIN m[d]
BY DEF Spent

\* The graphs stay, and their inputs may hold something else.
LEMMA OnlyWritten ==
  ASSUME Caches, UNCHANGED <<model, graphs>>, DOMAIN mem' = DOMAIN mem,
         \A c \in DOMAIN mem : DOMAIN mem'[c] = DOMAIN mem[c]
  PROVE  Caches'
BY DEF Caches, OfAStep

\* A step's own graph takes its place.
LEMMA Placed ==
  ASSUME Control, Caches, pc = "ensure", UNCHANGED model, NEW S,
         graphs' = With(Without(graphs, S), Step.cache,
                        [key |-> Step.key, graph |-> SameGraph[model][request][stage], set |-> Unset]),
         mem' = With(Without(mem, S), Step.cache, [n \in DOMAIN Step.ins |-> {}])
  PROVE  /\ Caches' /\ Step.cache \in DOMAIN graphs'
         /\ graphs'[Step.cache].graph = SameGraph[model][request][stage]
<1> DEFINE s == Step
           k == s.cache
           g == [key |-> s.key, graph |-> SameGraph[model][request][stage], set |-> Unset]
<1>1. request \in DOMAIN Table[model] /\ stage \in DOMAIN Table[model][request] /\ s = Table[model][request][stage]
  BY DEF Control, Step
<1>2. /\ DOMAIN graphs' = (DOMAIN graphs \ S) \cup {k} /\ DOMAIN mem' = (DOMAIN mem \ S) \cup {k}
      /\ graphs'[k] = g /\ mem'[k] = [n \in DOMAIN s.ins |-> {}]
      /\ \A c \in DOMAIN graphs \ S : c # k => graphs'[c] = graphs[c]
      /\ \A c \in DOMAIN mem \ S : c # k => mem'[c] = mem[c]
  BY DEF With, Without
<1>3. g.graph = SameGraph[model][request][stage] /\ g.key = s.key /\ g.set = Unset
  OBVIOUS
<1>4. ASSUME NEW c \in DOMAIN graphs' PROVE OfAStep(c)'
  <2>1. CASE c = k
    <3>1. graphs'[c] = [key |-> s.key, graph |-> SameGraph[model][request][stage], set |-> graphs'[c].set]
      BY <1>2, <1>3, <2>1
    <3>2. DOMAIN mem'[c] = DOMAIN s.ins
      BY <1>2, <2>1
    <3> HIDE DEF s
    <3>3. /\ Table[model][request][stage].cache = c
          /\ graphs'[c] = [key |-> Table[model][request][stage].key, graph |-> SameGraph[model][request][stage],
                           set |-> graphs'[c].set]
          /\ DOMAIN mem'[c] = DOMAIN Table[model][request][stage].ins
      BY <1>1, <2>1, <3>1, <3>2
    <3> QED
      BY <1>1, <3>3 DEF OfAStep
  <2>2. CASE c # k
    <3>1. c \in DOMAIN graphs /\ graphs'[c] = graphs[c] /\ mem'[c] = mem[c]
      BY <1>2, <2>2 DEF Caches
    <3>2. OfAStep(c)
      BY <3>1 DEF Caches
    <3> QED
      BY <3>1, <3>2 DEF OfAStep
  <2> QED
    BY <2>1, <2>2
<1>5. Caches'
  <2>1. DOMAIN graphs' = DOMAIN mem'
    BY <1>2 DEF Caches
  <2> QED
    BY <1>4, <2>1 DEF Caches
<1> QED
  BY <1>2, <1>3, <1>5

-----------------------------------------------------------------------------
(* The steps of a call. *)

\* A call that ends, well or not.
LEMMA Ends ==
  ASSUME CallsInv, Idle, UNCHANGED model, Caches'
  PROVE  CallsInv' /\ Current'
<1>1. model' \in Loaded
  BY DEF CallsInv, Control
<1>2. pc' = "idle" /\ request' = None /\ fresh' = FALSE
  BY DEF Idle
<1>3. Control'
  BY <1>1, <1>2 DEF Control
<1> QED
  BY <1>2, <1>3 DEF CallsInv, Current

LEMMA Ended ==
  ASSUME CallsInv, Refuse \/ FetchFails \/ EnsureFails \/ RefuseViews \/ ComputeFails
  PROVE  CallsInv' /\ Current'
<1>0. Control /\ Caches
  BY DEF CallsInv
<1>1. CASE Refuse \/ FetchFails
  <2>1. Idle /\ UNCHANGED <<model, graphs, mem>>
    BY <1>1 DEF Refuse, FetchFails, GiveUp
  <2> QED
    BY <1>0, <2>1, CachesUnchanged, Ends
<1>2. CASE EnsureFails
  <2>1. Idle /\ UNCHANGED model /\ Release({Step.cache})
    BY <1>2 DEF EnsureFails
  <2> QED
    BY <1>0, <2>1, CachesReleased, Ends
<1>3. CASE RefuseViews
  <2>1. PICK n, v : mem' = [mem EXCEPT ![Step.cache][n] = v]
    BY <1>3 DEF RefuseViews
  <2>2. Idle /\ UNCHANGED <<model, graphs>>
    BY <1>3 DEF RefuseViews
  <2>3. DOMAIN mem' = DOMAIN mem /\ \A c \in DOMAIN mem : DOMAIN mem'[c] = DOMAIN mem[c]
    BY <2>1
  <2> QED
    BY <1>0, <2>2, <2>3, OnlyWritten, Ends
<1>4. CASE ComputeFails
  <2>1. Idle /\ UNCHANGED model
    BY <1>4 DEF ComputeFails
  <2>2. CASE Release({Step.cache})
    BY <1>0, <2>1, <2>2, CachesReleased, Ends
  <2>3. CASE mem' = Spent(mem, Step.cache, Step.kept) /\ UNCHANGED graphs
    BY <1>0, <2>1, <2>3, SpentInputs, OnlyWritten, Ends
  <2> QED
    BY <1>4, <2>2, <2>3 DEF ComputeFails
<1> QED
  BY <1>1, <1>2, <1>3, <1>4

LEMMA CallBegins ==
  ASSUME CallsInv, NEW r \in DOMAIN Table[model], Call(r)
  PROVE  CallsInv' /\ Current'
<1>1. /\ model \in Loaded /\ fresh \in BOOLEAN /\ pc' = "ensure" /\ request' = r /\ stage' = 1
      /\ UNCHANGED <<model, graphs, mem, fresh>>
  BY DEF CallsInv, Control, Call
<1>2. 1 \in DOMAIN Table[model][r]
  <2>1. Len(Table[model][r]) \in Nat \ {0} /\ DOMAIN Table[model][r] = 1 .. Len(Table[model][r])
    BY <1>1, CallsAssumption
  <2> QED
    BY <2>1
<1>3. Control'
  BY <1>1, <1>2 DEF Control
<1>4. Caches'
  BY <1>1, CachesUnchanged DEF CallsInv
<1> QED
  BY <1>1, <1>3, <1>4 DEF CallsInv, Current

\* On to the next step.
LEMMA GoesOn ==
  ASSUME CallsInv, pc # "idle", Step.setup \/ Step.memo # <<>> \/ ~LastStep,
         pc' = "ensure", stage' = stage + 1, UNCHANGED <<model, request>>, fresh' \in BOOLEAN, Caches'
  PROVE  CallsInv' /\ Current'
<1>1. model \in Loaded /\ request \in DOMAIN Table[model] /\ stage \in DOMAIN Table[model][request]
  BY DEF CallsInv, Control
<1>2. stage + 1 \in DOMAIN Table[model][request]
  BY <1>1, NotTheLast DEF Step, LastStep
<1>3. Control'
  BY <1>1, <1>2 DEF Control
<1> QED
  BY <1>3 DEF CallsInv, Current

LEMMA Skipped == ASSUME CallsInv, Skip PROVE CallsInv' /\ Current'
<1>1. /\ pc = "ensure" /\ Step.memo # <<>> /\ stage' = stage + 1 /\ fresh \in BOOLEAN
      /\ UNCHANGED <<model, request, pc, graphs, mem, fresh>>
  BY DEF Skip, Remembered, CallsInv, Control
<1>2. Caches'
  BY <1>1, CachesUnchanged DEF CallsInv
<1> QED
  BY <1>1, <1>2, GoesOn

\* A graph found under the key of the step, or made.
LEMMA Ensured == ASSUME CallsInv, Ensure PROVE CallsInv' /\ (KeysDecide => Current')
<1>1. /\ pc = "ensure" /\ model \in Loaded /\ request \in DOMAIN Table[model] /\ stage \in DOMAIN Table[model][request]
      /\ UNCHANGED <<model, request>> /\ fresh \in BOOLEAN /\ Control /\ Caches
  BY DEF CallsInv, Control, Ensure, Begins
<1>2. fresh' \in BOOLEAN
  BY DEF Ensure
<1> DEFINE k == Step.cache
           g == SameGraph[model][request][stage]
<1>3. Caches' /\ k \in DOMAIN graphs' /\ (KeysDecide => graphs'[k].graph = g)
  <2>1. CASE Hit
    <3>1. UNCHANGED <<graphs, mem>>
      BY <2>1 DEF Ensure
    <3>2. Caches'
      BY <1>1, <3>1, CachesUnchanged
    <3>3. k \in DOMAIN graphs /\ graphs[k].key = Step.key /\ ~Step.scratch
      BY <2>1 DEF Hit
    <3>4. OfAStep(k)
      BY <1>1, <3>3 DEF Caches
    <3>5. PICK r \in DOMAIN Table[model] : \E i \in DOMAIN Table[model][r] :
            /\ Table[model][r][i].cache = k
            /\ graphs[k] = [key |-> Table[model][r][i].key, graph |-> SameGraph[model][r][i], set |-> graphs[k].set]
      BY <3>4 DEF OfAStep
    <3>6. PICK i \in DOMAIN Table[model][r] :
            /\ Table[model][r][i].cache = k
            /\ graphs[k] = [key |-> Table[model][r][i].key, graph |-> SameGraph[model][r][i], set |-> graphs[k].set]
      BY <3>5
    <3>7. graphs[k].key = Table[model][r][i].key /\ graphs[k].graph = SameGraph[model][r][i]
      <4> HIDE DEF k
      <4>1. ASSUME NEW a, NEW b, NEW c, NEW d, d = [key |-> a, graph |-> b, set |-> c]
            PROVE  d.key = a /\ d.graph = b
        BY <4>1
      <4> QED
        BY <3>6, <4>1
    <3>8. KeysDecide => SameGraph[model][r][i] = g
      <4>1. Step = Table[model][request][stage]
        BY DEF Step
      <4>2. /\ Table[model][r][i].cache = Table[model][request][stage].cache
            /\ Table[model][r][i].key = Table[model][request][stage].key
            /\ ~Table[model][request][stage].scratch
        BY <3>3, <3>6, <3>7, <4>1
      <4> QED
        BY <1>1, <4>2, OneGraph
    <3> QED
      BY <3>1, <3>2, <3>3, <3>7, <3>8
  <2>2. CASE ~Hit
    <3>1. /\ graphs' = With(Without(graphs, Step.ousts), k, [key |-> Step.key, graph |-> g, set |-> Unset])
          /\ mem' = With(Without(mem, Step.ousts), k, [n \in DOMAIN Step.ins |-> {}])
      BY <2>2 DEF Ensure
    <3> QED
      BY <1>1, <3>1, Placed
  <2> QED
    BY <2>1, <2>2
<1>4. CASE Step.setup
  <2>1. stage' = stage + 1 /\ pc' = "ensure"
    BY <1>1, <1>4 DEF Ensure
  <2> QED
    BY <1>1, <1>2, <1>3, <1>4, <2>1, GoesOn
<1>5. CASE ~Step.setup
  <2>1. pc' = "fill" /\ stage' = stage
    BY <1>5 DEF Ensure
  <2>2. Step' = Step
    BY <1>1, <2>1 DEF Step
  <2>3. Control'
    BY <1>1, <1>2, <1>3, <1>5, <2>1, <2>2 DEF Control
  <2> QED
    BY <1>1, <1>3, <2>1, <2>2, <2>3 DEF CallsInv, Current
<1> QED
  BY <1>4, <1>5

LEMMA InputsSet == ASSUME CallsInv, SetInputs PROVE CallsInv' /\ (Current => Current')
<1>1. /\ pc = "fill" /\ pc' = "compute" /\ UNCHANGED <<model, request, stage, fresh>> /\ Control /\ Caches
      /\ graphs' = [graphs EXCEPT ![Step.cache].set = Step.tag]
  BY DEF CallsInv, SetInputs
<1> DEFINE k == Step.cache
<1>2. PICK q, copies : mem' = Copied([mem EXCEPT ![k] = [n \in DOMAIN @ |-> q[n]]], copies)
  <2> DEFINE put == [n \in DOMAIN mem[k] |->
                       IF n \notin DOMAIN Step.fills THEN mem[k][n]
                       ELSE Over(mem[k][n], Written(hosts', {w \in Step.fills[n] : <<n, w>> \notin Step.given /\ Stale(n, w)}))]
  <2>1. mem' = Copied([mem EXCEPT ![k] = put], Step.sends)
    BY DEF SetInputs
  <2>2. put = [n \in DOMAIN mem[k] |-> put[n]]
    OBVIOUS
  <2> HIDE DEF put, k
  <2>3. [mem EXCEPT ![k] = put] = [mem EXCEPT ![k] = [n \in DOMAIN @ |-> put[n]]]
    BY <2>2
  <2> QED
    BY <2>1, <2>3
<1>3. k \in DOMAIN graphs /\ DOMAIN graphs = DOMAIN mem
  BY <1>1 DEF Control, Caches
<1> HIDE DEF k
<1>4. DOMAIN mem' = DOMAIN mem /\ \A c \in DOMAIN mem : DOMAIN mem'[c] = DOMAIN mem[c]
  <2> DEFINE m == [mem EXCEPT ![k] = [n \in DOMAIN @ |-> q[n]]]
  <2>1. DOMAIN m = DOMAIN mem /\ \A c \in DOMAIN mem : DOMAIN m[c] = DOMAIN mem[c]
    OBVIOUS
  <2> HIDE DEF m
  <2>2. mem' = Copied(m, copies)
    BY <1>2 DEF m
  <2> QED
    BY <2>1, <2>2, CopiedInputs
<1>5. graphs' = [graphs EXCEPT ![k].set = Step.tag]
  BY <1>1 DEF k
<1>6. DOMAIN graphs' = DOMAIN graphs /\ \A c \in DOMAIN graphs : graphs'[c] = [graphs[c] EXCEPT !.set = graphs'[c].set]
  <2> SUFFICES ASSUME NEW c \in DOMAIN graphs PROVE graphs'[c] = [graphs[c] EXCEPT !.set = graphs'[c].set]
    BY <1>5
  <2>1. OfAStep(c)
    BY <1>1 DEF Caches
  <2>2. PICK a, b, d : graphs[c] = [key |-> a, graph |-> b, set |-> d]
    BY <2>1 DEF OfAStep
  <2>3. graphs'[c] = graphs[c] \/ graphs'[c] = [graphs[c] EXCEPT !.set = Step.tag]
    BY <1>5
  <2> QED
    BY <2>2, <2>3
<1>7. Caches'
  BY <1>1, <1>3, <1>4, <1>6, CachesKeep
<1>8. Step' = Step
  BY <1>1 DEF Step
<1>9. Control'
  BY <1>1, <1>6, <1>8 DEF Control
<1>10. graphs'[k].graph = graphs[k].graph
  <2>1. OfAStep(k)
    BY <1>1, <1>3 DEF Caches
  <2>2. PICK a, b, d : graphs[k] = [key |-> a, graph |-> b, set |-> d]
    BY <2>1 DEF OfAStep
  <2>3. graphs'[k] = [graphs[k] EXCEPT !.set = graphs'[k].set]
    BY <1>3, <1>6
  <2> QED
    BY <2>2, <2>3
<1> QED
  BY <1>1, <1>7, <1>8, <1>9, <1>10 DEF CallsInv, Current, k

LEMMA Computed == ASSUME CallsInv, Compute PROVE CallsInv' /\ Current'
<1>1. /\ pc = "compute" /\ Caches /\ fresh \in BOOLEAN /\ UNCHANGED <<model, graphs>>
      /\ mem' = Copied(Spent(mem, Step.cache, Step.kept), Step.copies)
  BY DEF CallsInv, Control, Compute
<1>2. Caches'
  <2>1. DOMAIN mem' = DOMAIN mem /\ \A c \in DOMAIN mem : DOMAIN mem'[c] = DOMAIN mem[c]
    BY <1>1, SpentInputs, CopiedInputs
  <2> QED
    BY <1>1, <2>1, OnlyWritten
<1>3. CASE LastStep
  <2>1. Idle
    BY <1>3 DEF Compute
  <2> QED
    BY <1>1, <1>2, <2>1, Ends
<1>4. CASE ~LastStep
  <2>1. stage' = stage + 1 /\ pc' = "ensure" /\ UNCHANGED <<request, fresh>>
    BY <1>4 DEF Compute
  <2> QED
    BY <1>1, <1>2, <1>4, <2>1, GoesOn
<1> QED
  BY <1>3, <1>4

-----------------------------------------------------------------------------
LEMMA StepKeeps == ASSUME CallsInv, [Next]_vars PROVE CallsInv' /\ (KeysDecide /\ Current => Current')
<1>1. CASE UNCHANGED vars
  <2>1. UNCHANGED <<model, request, stage, pc, graphs, mem, fresh>>
    BY <1>1 DEF vars
  <2>2. Step' = Step
    BY <2>1 DEF Step
  <2>3. Control'
    BY <2>1, <2>2 DEF CallsInv, Control
  <2>4. Caches'
    BY <2>1, CachesUnchanged DEF CallsInv
  <2> QED
    BY <2>1, <2>2, <2>3, <2>4 DEF CallsInv, Current
<1>2. ASSUME NEW r \in DOMAIN Table[model], Call(r) PROVE CallsInv' /\ Current'
  BY <1>2, CallBegins
<1>3. CASE Next
  BY <1>2, <1>3, Skipped, Ended, Ensured, InputsSet, Computed DEF Next
<1> QED
  BY <1>1, <1>3

LEMMA Invariance == Spec => []CallsInv
<1>1. Init => CallsInv
  <2> SUFFICES ASSUME Init PROVE CallsInv
    OBVIOUS
  <2>1. Control
    BY DEF Init, Control
  <2>2. Caches
    <3>1. DOMAIN graphs = DOMAIN mem /\ graphs = <<>>
      BY DEF Init
    <3>2. \A c \in DOMAIN <<>> : FALSE
      OBVIOUS
    <3> QED
      BY <3>1, <3>2 DEF Caches
  <2> QED
    BY <2>1, <2>2 DEF CallsInv
<1>2. CallsInv /\ [Next]_vars => CallsInv'
  BY StepKeeps
<1> QED
  BY <1>1, <1>2, PTL DEF Spec

(* A call is at one of its steps, and every graph that is cached is one    *)
(* the model builds, with that graph's inputs, however calls ended.        *)
THEOREM TypeCorrect == Spec => []TypeOK
<1>1. CallsInv => TypeOK
  <2> SUFFICES ASSUME CallsInv PROVE TypeOK
    OBVIOUS
  <2>1. pc # "idle" => request # None
    BY CallsAssumption DEF CallsInv, Control, None
  <2>2. ASSUME NEW c \in DOMAIN graphs PROVE DOMAIN mem[c] = DOMAIN Built(c).ins
    <3>1. OfAStep(c) /\ model \in Loaded
      BY DEF CallsInv, Control, Caches
    <3>2. PICK r \in DOMAIN Table[model] : \E i \in DOMAIN Table[model][r] :
            /\ graphs[c].graph = SameGraph[model][r][i]
            /\ DOMAIN mem[c] = DOMAIN Table[model][r][i].ins
      BY <3>1 DEF OfAStep
    <3> QED
      BY <3>1, <3>2, TheGraphOf DEF Built
  <2> QED
    BY <2>1, <2>2 DEF CallsInv, Control, Caches, TypeOK
<1> QED
  BY <1>1, Invariance, PTL

(* Where the keys decide, a call computes the graphs a new engine would    *)
(* build for it, whatever was asked before and wherever that ended: graphs *)
(* ousted, released after a failure, only set up, or left half filled.     *)
THEOREM CachedGraphs == KeysDecide /\ Spec => []CachedIsFresh
<1> SUFFICES ASSUME KeysDecide PROVE Spec => []CachedIsFresh
  OBVIOUS
<1>1. Init => Current
  BY DEF Init, Current
<1>2. CallsInv /\ Current /\ [Next]_vars => Current'
  BY StepKeeps
<1>3. Current => CachedIsFresh
  BY DEF Current, CachedIsFresh
<1> QED
  BY <1>1, <1>2, <1>3, Invariance, PTL DEF Spec

-----------------------------------------------------------------------------
(* What the inputs hold (InputsOfThisCall).  Three things stay from call to *)
(* call: what an input holds is laid out as the steps of its graph's key    *)
(* lay it, and nothing there overlaps; what a graph's constants were set    *)
(* for is still there; and where the tables would let a step be skipped,    *)
(* its gifts are where it put them (Sound, Tabled, Remains).  In a call,    *)
(* the graphs set up stand, and what earlier steps learned and gave is at   *)
(* hand (InCall, Mine).  On these the fills of a step leave exactly what    *)
(* is due.                                                                  *)

(* Writes and where they are. *)

\* Input n of cache c holds the write.
Holds(m, c, n, w) == c \in DOMAIN m /\ n \in DOMAIN m[c] /\ w \in m[c][n]
ApartIn(S) == \A v \in S, w \in S : v = w \/ Apart(v, w)
NoOverlap(m) == \A c \in DOMAIN m : \A n \in DOMAIN m[c] : ApartIn(m[c][n])

\* A write put from a table has the place of the fill.
LEMMA PutInPlace == ASSUME NEW t, NEW w PROVE SamePlace(w, Put(t, w)) /\ SamePlace(Put(t, w), w)
BY DEF Put, SamePlace

LEMMA ApartByPlace ==
  ASSUME NEW v, NEW w, SamePlace(v, w), NEW u
  PROVE  (Apart(v, u) <=> Apart(w, u)) /\ (Apart(u, v) <=> Apart(u, w))
BY DEF SamePlace, Apart

LEMMA ApartBothWays == ASSUME NEW v, NEW w PROVE Apart(v, w) <=> Apart(w, v)
BY DEF Apart

LEMMA OverApart ==
  ASSUME NEW old, NEW new, ApartIn(old), ApartIn(new)
  PROVE  ApartIn(Over(old, new))
<1> SUFFICES ASSUME NEW v \in Over(old, new), NEW w \in Over(old, new) PROVE v = w \/ Apart(v, w)
  BY DEF ApartIn
<1>1. v \in new \/ (v \in old /\ \A u \in new : Apart(v, u))
  BY DEF Over
<1>2. w \in new \/ (w \in old /\ \A u \in new : Apart(w, u))
  BY DEF Over
<1> QED
  BY <1>1, <1>2, ApartBothWays DEF ApartIn

LEMMA OverHas ==
  ASSUME NEW old, NEW new
  PROVE  /\ new \subseteq Over(old, new) /\ Over(old, new) \subseteq old \cup new
         /\ \A w \in old : (\A v \in new : v = w \/ Apart(w, v)) => w \in Over(old, new)
BY DEF Over

\* The copies made for an input.
GiftsTo(gifts, c, n) == {Copy(e) : e \in {x \in gifts : x[1] = c /\ x[2] = n}}

LEMMA CopiedIs ==
  ASSUME NEW m, NEW gifts, NEW c \in DOMAIN m, NEW n \in DOMAIN m[c]
  PROVE  /\ DOMAIN Copied(m, gifts) = DOMAIN m /\ DOMAIN Copied(m, gifts)[c] = DOMAIN m[c]
         /\ Copied(m, gifts)[c][n] = Over(m[c][n], GiftsTo(gifts, c, n))
BY DEF Copied, GiftsTo

LEMMA CopiedKeeps ==
  ASSUME NEW m, NEW gifts, NEW c, NEW n, NEW w, Holds(m, c, n, w),
         \A e \in gifts : e[1] = c /\ e[2] = n => Copy(e) = w \/ Apart(w, Copy(e))
  PROVE  Holds(Copied(m, gifts), c, n, w)
<1>1. c \in DOMAIN m /\ n \in DOMAIN m[c] /\ w \in m[c][n]
  BY DEF Holds
<1>2. \A v \in GiftsTo(gifts, c, n) : v = w \/ Apart(w, v)
  BY DEF GiftsTo
<1>3. w \in Over(m[c][n], GiftsTo(gifts, c, n))
  BY <1>1, <1>2, OverHas
<1> QED
  BY <1>1, <1>3, CopiedIs DEF Holds

LEMMA CopiedPuts ==
  ASSUME NEW m, NEW gifts, NEW e \in gifts, e[1] \in DOMAIN m, e[2] \in DOMAIN m[e[1]]
  PROVE  Holds(Copied(m, gifts), e[1], e[2], Copy(e))
<1>1. Copy(e) \in GiftsTo(gifts, e[1], e[2])
  BY DEF GiftsTo
<1>2. Copy(e) \in Over(m[e[1]][e[2]], GiftsTo(gifts, e[1], e[2]))
  BY <1>1, OverHas
<1> QED
  BY <1>2, CopiedIs DEF Holds

LEMMA CopiedFrom ==
  ASSUME NEW m, NEW gifts, NEW c, NEW n, NEW v, Holds(Copied(m, gifts), c, n, v)
  PROVE  Holds(m, c, n, v) \/ \E e \in gifts : e[1] = c /\ e[2] = n /\ v = Copy(e) /\ c \in DOMAIN m /\ n \in DOMAIN m[c]
<1>1. c \in DOMAIN Copied(m, gifts) /\ n \in DOMAIN Copied(m, gifts)[c] /\ v \in Copied(m, gifts)[c][n]
  BY DEF Holds
<1>2. c \in DOMAIN m
  BY <1>1 DEF Copied
<1>3. n \in DOMAIN m[c]
  BY <1>1, <1>2, CopiedInputs
<1>4. v \in Over(m[c][n], GiftsTo(gifts, c, n))
  BY <1>1, <1>2, <1>3, CopiedIs
<1>5. v \in m[c][n] \/ v \in GiftsTo(gifts, c, n)
  BY <1>4, OverHas
<1> QED
  BY <1>2, <1>3, <1>5 DEF GiftsTo, Holds

\* Copies that are apart, into inputs where nothing overlaps.
LEMMA CopiedApart ==
  ASSUME NEW m, NEW gifts, NoOverlap(m),
         \A c \in DOMAIN m : \A n \in DOMAIN m[c] : ApartIn(GiftsTo(gifts, c, n))
  PROVE  NoOverlap(Copied(m, gifts))
<1> SUFFICES ASSUME NEW c \in DOMAIN Copied(m, gifts), NEW n \in DOMAIN Copied(m, gifts)[c]
             PROVE  ApartIn(Copied(m, gifts)[c][n])
  BY DEF NoOverlap
<1>1. c \in DOMAIN m
  BY DEF Copied
<1>2. n \in DOMAIN m[c]
  BY <1>1, CopiedInputs
<1>3. Copied(m, gifts)[c][n] = Over(m[c][n], GiftsTo(gifts, c, n))
  BY <1>1, <1>2, CopiedIs
<1>4. ApartIn(m[c][n]) /\ ApartIn(GiftsTo(gifts, c, n))
  BY <1>1, <1>2 DEF NoOverlap
<1> QED
  BY <1>3, <1>4, OverApart

LEMMA SpentIs ==
  ASSUME NEW m, NEW c, NEW kept, NEW d, NEW n, NEW w
  PROVE  /\ Holds(Spent(m, c, kept), d, n, w) => Holds(m, d, n, w)
         /\ Holds(m, d, n, w) /\ (d = c => n \in kept) => Holds(Spent(m, c, kept), d, n, w)
BY DEF Spent, Holds

-----------------------------------------------------------------------------
(* The steps of a request, by number. *)

LEMMA AStep ==
  ASSUME NEW m \in Loaded, NEW r \in DOMAIN Table[m], NEW i \in DOMAIN Table[m][r]
  PROVE  /\ <<r, i>> \in StepsOf(m) /\ StepAt(m, <<r, i>>) = Table[m][r][i]
         /\ i \in Nat /\ i > 0 /\ DOMAIN Table[m][r] = 1..Len(Table[m][r]) /\ Len(Table[m][r]) \in Nat
<1>1. Len(Table[m][r]) \in Nat \ {0} /\ DOMAIN Table[m][r] = 1 .. Len(Table[m][r])
  BY CallsAssumption
<1>2. <<r, i>> \in StepsOf(m) /\ StepAt(m, <<r, i>>) = Table[m][r][i]
  BY DEF StepsOf, StepAt
<1> QED
  BY <1>1, <1>2

LEMMA AnEarlierStep ==
  ASSUME NEW m \in Loaded, NEW r \in DOMAIN Table[m], NEW i \in DOMAIN Table[m][r], NEW z \in Before(<<r, i>>)
  PROVE  /\ z[1] = r /\ z[2] \in 1..i - 1 /\ z = <<r, z[2]>> /\ z[2] \in DOMAIN Table[m][r]
         /\ z \in StepsOf(m) /\ StepAt(m, z) = Table[m][r][z[2]]
<1>1. PICK k \in 1..i - 1 : z = <<r, k>>
  BY DEF Before
<1>2. k \in DOMAIN Table[m][r]
  BY AStep
<1> QED
  BY <1>1, <1>2, AStep

LEMMA EarlierSteps ==
  ASSUME NEW m \in Loaded, NEW r \in DOMAIN Table[m], NEW i \in DOMAIN Table[m][r], NEW k \in 1..i - 1
  PROVE  /\ k \in DOMAIN Table[m][r] /\ <<r, k>> \in Before(<<r, i>>)
         /\ <<r, k>> \in StepsOf(m) /\ StepAt(m, <<r, k>>) = Table[m][r][k]
<1>0. i \in Nat /\ i \in 1..Len(Table[m][r]) /\ Len(Table[m][r]) \in Nat /\ DOMAIN Table[m][r] = 1..Len(Table[m][r])
  BY AStep
<1>1. k \in DOMAIN Table[m][r]
  BY <1>0
<1>2. <<r, k>> \in Before(<<r, i>>)
  BY DEF Before
<1> QED
  BY <1>1, <1>2, AStep

(* What stays from call to call. *)

\* A step of the model with the graph's key lays the write there.
LaidBy(s, g, c, n, v) ==
  /\ s.pre /\ s.cache = c /\ s.key = g[c].key
  /\ n \in DOMAIN s.fills /\ \E w \in s.fills[n] : SamePlace(v, w)
Laid(d, g, c, n, v) == \E x \in StepsOf(d) : LaidBy(StepAt(d, x), g, c, n, v)
LaidOut(d, g, m) == \A c \in DOMAIN m : \A n \in DOMAIN m[c] : \A v \in m[c][n] : Laid(d, g, c, n, v)

\* A graph's inputs hold what the steps of its key and tag count on.
Lasts(d, g, m) ==
  \A c \in DOMAIN g : \A x \in StepsOf(d) :
    LET s == StepAt(d, x)
    IN  s.cache = c /\ s.key = g[c].key /\ s.tag = g[c].set /\ ~s.setup /\ ~s.scratch =>
          \A l \in Lasting(s) : Holds(m, c, l[1], l[2])

Sound(d, g, m) == LaidOut(d, g, m) /\ NoOverlap(m) /\ Lasts(d, g, m)

LEMMA LaidOutIs ==
  ASSUME NEW d, NEW g, NEW m
  PROVE  LaidOut(d, g, m) <=> \A c, n, v : Holds(m, c, n, v) => Laid(d, g, c, n, v)
BY DEF LaidOut, Holds

LEMMA LaidByKey ==
  ASSUME NEW d, NEW g, NEW g2, NEW c, NEW n, NEW v, Laid(d, g, c, n, v), g2[c].key = g[c].key
  PROVE  Laid(d, g2, c, n, v)
BY DEF Laid, LaidBy

\* Fewer writes, of the same graphs.
LEMMA FewerWrites ==
  ASSUME NEW d, NEW g, NEW g2, NEW m, NEW m2, LaidOut(d, g, m), NoOverlap(m),
         \A c, n, v : Holds(m2, c, n, v) => Holds(m, c, n, v) /\ g2[c].key = g[c].key
  PROVE  LaidOut(d, g2, m2) /\ NoOverlap(m2)
<1>1. LaidOut(d, g2, m2)
  BY LaidOutIs, LaidByKey
<1>2. NoOverlap(m2)
  <2> SUFFICES ASSUME NEW c \in DOMAIN m2, NEW n \in DOMAIN m2[c], NEW v \in m2[c][n], NEW w \in m2[c][n]
               PROVE  v = w \/ Apart(v, w)
    BY DEF NoOverlap, ApartIn
  <2>1. Holds(m2, c, n, v) /\ Holds(m2, c, n, w)
    BY DEF Holds
  <2>2. c \in DOMAIN m /\ n \in DOMAIN m[c] /\ v \in m[c][n] /\ w \in m[c][n]
    BY <2>1 DEF Holds
  <2> QED
    BY <2>2 DEF NoOverlap, ApartIn
<1> QED
  BY <1>1, <1>2

LEMMA ReleasedSound ==
  ASSUME NEW d, NEW g, NEW m, DOMAIN g = DOMAIN m, Sound(d, g, m), NEW S
  PROVE  Sound(d, Without(g, S), Without(m, S))
<1> DEFINE g2 == Without(g, S)
           m2 == Without(m, S)
<1>1. /\ DOMAIN g2 = DOMAIN g \ S /\ DOMAIN m2 = DOMAIN m \ S
      /\ \A c \in DOMAIN g2 : g2[c] = g[c]
      /\ \A c \in DOMAIN m2 : m2[c] = m[c]
  BY DEF Without
<1> HIDE DEF g2, m2
<1>2. Lasts(d, g2, m2) 
  <2> SUFFICES ASSUME NEW c \in DOMAIN g2, NEW x \in StepsOf(d),
                      StepAt(d, x).cache = c, StepAt(d, x).key = g2[c].key, StepAt(d, x).tag = g2[c].set,
                      ~StepAt(d, x).setup, ~StepAt(d, x).scratch,
                      NEW l \in Lasting(StepAt(d, x))
               PROVE  Holds(m2, c, l[1], l[2])
    BY DEF Lasts
  <2>1. c \in DOMAIN g /\ c \notin S /\ g2[c] = g[c]
    BY <1>1
  <2>2. Holds(m, c, l[1], l[2])
    BY <2>1 DEF Lasts, Sound
  <2> QED
    BY <1>1, <2>1, <2>2 DEF Holds
<1>3. LaidOut(d, g2, m2) /\ NoOverlap(m2)
  <2>1. ASSUME NEW c, NEW n, NEW v, Holds(m2, c, n, v) PROVE Holds(m, c, n, v) /\ g2[c].key = g[c].key
    BY <1>1, <2>1 DEF Holds
  <2> QED
    BY <2>1, FewerWrites DEF Sound
<1> QED
  BY <1>2, <1>3 DEF Sound, g2, m2

\* Compute takes the inputs that are not kept; what is to last is kept.
LEMMA SpentSound ==
  ASSUME ListsAgree, NEW d \in Loaded, NEW g, NEW m, Sound(d, g, m),
         NEW y \in StepsOf(d), ~StepAt(d, y).setup,
         g[StepAt(d, y).cache].key = StepAt(d, y).key, g[StepAt(d, y).cache].set = StepAt(d, y).tag
  PROVE  Sound(d, g, Spent(m, StepAt(d, y).cache, StepAt(d, y).kept))
<1> DEFINE t == StepAt(d, y)
           m2 == Spent(m, t.cache, t.kept)
<1>1. Lasts(d, g, m2)
  <2> SUFFICES ASSUME NEW c \in DOMAIN g, NEW x \in StepsOf(d),
                      StepAt(d, x).cache = c, StepAt(d, x).key = g[c].key, StepAt(d, x).tag = g[c].set,
                      ~StepAt(d, x).setup, ~StepAt(d, x).scratch,
                      NEW l \in Lasting(StepAt(d, x))
               PROVE  Holds(m2, c, l[1], l[2])
    BY DEF Lasts
  <2>1. Holds(m, c, l[1], l[2])
    BY DEF Lasts, Sound
  <2>2. c = t.cache => l[1] \in t.kept
    <3>1. ConstsAgree(d)
      BY DEF ListsAgree
    <3> QED
      BY <3>1 DEF ConstsAgree
  <2> QED
    BY <2>1, <2>2, SpentIs
<1>2. LaidOut(d, g, m2) /\ NoOverlap(m2)
  <2>1. ASSUME NEW c, NEW n, NEW v, Holds(m2, c, n, v) PROVE Holds(m, c, n, v)
    BY <2>1, SpentIs
  <2> QED
    BY <2>1, FewerWrites DEF Sound
<1> QED
  BY <1>1, <1>2 DEF Sound

\* Gifts go where they are laid, apart, and to no input that lasts.
LEMMA CopiedSound ==
  ASSUME NEW d, NEW g, NEW m, Sound(d, g, m), NEW gifts,
         \A e \in gifts : Laid(d, g, e[1], e[2], Copy(e)),
         \A e \in gifts, f \in gifts : e[1] = f[1] /\ e[2] = f[2] => Copy(e) = Copy(f) \/ Apart(Copy(e), Copy(f)),
         \A e \in gifts, x \in StepsOf(d) :
           StepAt(d, x).cache = e[1] /\ ~StepAt(d, x).setup => \A l \in Lasting(StepAt(d, x)) : l[1] # e[2]
  PROVE  Sound(d, g, Copied(m, gifts))
<1> DEFINE m2 == Copied(m, gifts)
<1>1. LaidOut(d, g, m2)
  <2>1. ASSUME NEW c, NEW n, NEW v, Holds(m2, c, n, v) PROVE Laid(d, g, c, n, v)
    <3>1. Holds(m, c, n, v) \/ \E e \in gifts : e[1] = c /\ e[2] = n /\ v = Copy(e)
      BY <2>1, CopiedFrom
    <3> QED
      BY <3>1, LaidOutIs DEF Sound
  <2> QED
    BY <2>1, LaidOutIs
<1>2. NoOverlap(m2)
  <2>1. ASSUME NEW c, NEW n PROVE ApartIn(GiftsTo(gifts, c, n))
    BY DEF ApartIn, GiftsTo
  <2> QED
    BY <2>1, CopiedApart DEF Sound
<1>3. Lasts(d, g, m2)
  <2> SUFFICES ASSUME NEW c \in DOMAIN g, NEW x \in StepsOf(d),
                      StepAt(d, x).cache = c, StepAt(d, x).key = g[c].key, StepAt(d, x).tag = g[c].set,
                      ~StepAt(d, x).setup, ~StepAt(d, x).scratch,
                      NEW l \in Lasting(StepAt(d, x))
               PROVE  Holds(m2, c, l[1], l[2])
    BY DEF Lasts
  <2>1. Holds(m, c, l[1], l[2])
    BY DEF Lasts, Sound
  <2>2. \A e \in gifts : e[1] = c => e[2] # l[1]
    OBVIOUS
  <2> QED
    BY <2>1, <2>2, CopiedKeeps
<1> QED
  BY <1>1, <1>2, <1>3 DEF Sound

\* An input gets writes where they are laid, apart.
Adds(d, g, c, n, old, new) ==
  \E S : new = Over(old, S) /\ ApartIn(S) /\ \A v \in S : Laid(d, g, c, n, v)
LEMMA AddedLaid ==
  ASSUME NEW d, NEW g, NEW m, NEW m2, LaidOut(d, g, m), NoOverlap(m), DOMAIN m2 = DOMAIN m,
         \A b \in DOMAIN m : DOMAIN m2[b] = DOMAIN m[b],
         \A b \in DOMAIN m : \A n \in DOMAIN m[b] : m2[b][n] = m[b][n] \/ Adds(d, g, b, n, m[b][n], m2[b][n])
  PROVE  LaidOut(d, g, m2) /\ NoOverlap(m2)
<1> SUFFICES ASSUME NEW b \in DOMAIN m, NEW n \in DOMAIN m[b]
             PROVE  ApartIn(m2[b][n]) /\ \A v \in m2[b][n] : Laid(d, g, b, n, v)
  BY DEF LaidOut, NoOverlap
<1>1. ApartIn(m[b][n]) /\ \A v \in m[b][n] : Laid(d, g, b, n, v)
  BY DEF LaidOut, NoOverlap
<1>2. ASSUME Adds(d, g, b, n, m[b][n], m2[b][n])
      PROVE  ApartIn(m2[b][n]) /\ \A v \in m2[b][n] : Laid(d, g, b, n, v)
  <2>1. PICK S : m2[b][n] = Over(m[b][n], S) /\ ApartIn(S) /\ \A v \in S : Laid(d, g, b, n, v)
    BY <1>2 DEF Adds
  <2>2. ApartIn(m2[b][n])
    BY <1>1, <2>1, OverApart
  <2>3. m2[b][n] \subseteq m[b][n] \cup S
    BY <2>1, OverHas
  <2> QED
    BY <1>1, <2>1, <2>2, <2>3
<1> QED
  BY <1>1, <1>2

LEMMA RefusedSound ==
  ASSUME ListsAgree, NEW d \in Loaded, NEW g, NEW m, Sound(d, g, m),
         NEW y \in StepsOf(d), ~StepAt(d, y).setup, StepAt(d, y).pre, ~StepAt(d, y).post,
         g[StepAt(d, y).cache].key = StepAt(d, y).key,
         NEW k \in DOMAIN StepAt(d, y).fills, NEW S \in SUBSET StepAt(d, y).fills[k]
  PROVE  Sound(d, g, [m EXCEPT ![StepAt(d, y).cache][k] = Over(@, S)])
<1> DEFINE t == StepAt(d, y)
           c == t.cache
           m2 == [m EXCEPT ![c][k] = Over(@, S)]
<1>0. OneLayout(d) /\ ConstsAgree(d)
  BY DEF ListsAgree
<1>1. /\ DOMAIN m2 = DOMAIN m /\ \A b \in DOMAIN m : DOMAIN m2[b] = DOMAIN m[b]
      /\ \A b \in DOMAIN m : \A n \in DOMAIN m[b] : m2[b][n] = IF b = c /\ n = k THEN Over(m[b][n], S) ELSE m[b][n]
  BY Zenon
<1>2. ApartIn(S)
  BY <1>0 DEF OneLayout, ApartIn
<1>3. \A v \in S : Laid(d, g, c, k, v)
  BY DEF Laid, LaidBy, SamePlace
<1>4. Adds(d, g, c, k, m[c][k], Over(m[c][k], S))
  BY <1>2, <1>3 DEF Adds
<1> HIDE DEF m2, c
<1>5. LaidOut(d, g, m2) /\ NoOverlap(m2)
  BY <1>1, <1>4, AddedLaid DEF Sound
<1>6. Lasts(d, g, m2)
  <2> SUFFICES ASSUME NEW b \in DOMAIN g, NEW x \in StepsOf(d),
                      StepAt(d, x).cache = b, StepAt(d, x).key = g[b].key, StepAt(d, x).tag = g[b].set,
                      ~StepAt(d, x).setup, ~StepAt(d, x).scratch,
                      NEW l \in Lasting(StepAt(d, x))
               PROVE  Holds(m2, b, l[1], l[2])
    BY DEF Lasts
  <2>1. b \in DOMAIN m /\ l[1] \in DOMAIN m[b] /\ l[2] \in m[b][l[1]]
    BY DEF Lasts, Sound, Holds
  <2>2. CASE b = c /\ l[1] = k
    <3>1. StepAt(d, x).cache = t.cache /\ StepAt(d, x).key = t.key
      BY <2>2 DEF c
    <3>2. \A w \in S : w = l[2] \/ Apart(l[2], w)
      BY <1>0, <2>2, <3>1 DEF ConstsAgree
    <3>3. l[2] \in Over(m[b][k], S)
      BY <2>1, <2>2, <3>2, OverHas
    <3> QED
      BY <1>1, <2>1, <2>2, <3>3 DEF Holds
  <2>3. CASE ~(b = c /\ l[1] = k)
    BY <1>1, <2>1, <2>3 DEF Holds
  <2> QED
    BY <2>2, <2>3
<1> QED
  BY <1>5, <1>6 DEF Sound, m2, c

\* The fills of a step, on top of what is there: what is due, no more.
Stales(s, n, set) == {w \in s.fills[n] : <<n, w>> \notin s.given /\ (set # s.tag \/ (n \notin s.consts /\ <<n, w>> \notin s.once))}
LEMMA FillIsDue ==
  ASSUME ListsAgree, NEW d \in Loaded, NEW g, NEW m, Sound(d, g, m),
         NEW y \in StepsOf(d), NEW t, t = StepAt(d, y), ~t.setup, t.pre,
         t.cache \in DOMAIN g, g[t.cache].key = t.key, 
         t.cache \in DOMAIN m, NEW n \in DOMAIN t.fills, n \in DOMAIN m[t.cache],
         t.scratch => m[t.cache][n] = {} /\ g[t.cache].set # t.tag,
         NEW tables,
         \A w \in t.fills[n] : IF <<n, w>> \in t.given THEN Holds(m, t.cache, n, w) /\ Put(Joined(t.needs, t.hosts), w) = w
                               ELSE Put(tables, w) = Put(Joined(t.needs, t.hosts), w)
  PROVE  Over(m[t.cache][n], Written(tables, Stales(t, n, g[t.cache].set))) = Due(t, n)
<1> DEFINE c == t.cache
           F == t.fills[n]
           P(w) == Put(Joined(t.needs, t.hosts), w)
           W == Written(tables, Stales(t, n, g[c].set))
           M == m[c][n]
           O == Over(M, W)
<1>0. OneLayout(d) /\ ConstsAgree(d)
  BY DEF ListsAgree
<1>1. \A w \in F, v \in F : ~Apart(w, w) /\ (w = v \/ Apart(w, v))
  BY <1>0 DEF OneLayout
<1>2. \A v \in W : \E u \in F : v = P(u) /\ <<n, u>> \notin t.given /\ u \in Stales(t, n, g[c].set)
  BY DEF Written, Stales
<1>3. \A u \in F : u \in Stales(t, n, g[c].set) => P(u) \in W
  BY DEF Written, Stales
<1>4. \A w \in F : SamePlace(w, P(w)) /\ SamePlace(P(w), w)
  BY PutInPlace
<1>5. O = {w \in M : \A v \in W : Apart(w, v)} \cup W
  BY DEF Over
<1>6. Due(t, n) = {P(w) : w \in F}
  BY DEF Due, Written
<1>7. \A w \in F : w \notin Stales(t, n, g[c].set) => P(w) \in M
  <2> SUFFICES ASSUME NEW w \in F, w \notin Stales(t, n, g[c].set) PROVE P(w) \in M
    OBVIOUS
  <2>1. CASE <<n, w>> \in t.given
    BY <2>1 DEF Holds
  <2>2. CASE <<n, w>> \notin t.given
    <3>1. w \in Keeps(t, n) /\ g[c].set = t.tag
      BY <2>2 DEF Stales, Keeps
    <3>2. <<n, P(w)>> \in Lasting(t)
      BY <3>1 DEF Lasting
    <3>3. Holds(m, c, <<n, P(w)>>[1], <<n, P(w)>>[2])
      BY <3>1, <3>2 DEF Sound, Lasts
    <3> QED
      BY <3>3 DEF Holds
  <2> QED
    BY <2>1, <2>2
<1> HIDE DEF P, W, M, F, O
<1>8. \A w \in F : P(w) \in O
  <2> SUFFICES ASSUME NEW w \in F PROVE P(w) \in O
    OBVIOUS
  <2>1. CASE w \in Stales(t, n, g[c].set)
    BY <1>3, <1>5, <2>1
  <2>2. CASE w \notin Stales(t, n, g[c].set)
    <3>1. ASSUME NEW v \in W PROVE Apart(P(w), v)
      <4>1. PICK u \in F : v = P(u) /\ u # w
        BY <1>2, <2>2
      <4>2. Apart(w, u)
        BY <1>1, <4>1
      <4> QED
        BY <1>4, <4>1, <4>2, ApartByPlace
    <3> QED
      BY <1>5, <1>7, <2>2, <3>1
  <2> QED
    BY <2>1, <2>2
<1>9. \A v \in O : \E w \in F : v = P(w)
  <2> SUFFICES ASSUME NEW v \in M, \A w \in W : Apart(v, w) PROVE \E w \in F : v = P(w)
    BY <1>2, <1>5
  <2>1. Laid(d, g, c, n, v)
    BY DEF Sound, LaidOut, M
  <2>2. PICK x \in StepsOf(d) : LaidBy(StepAt(d, x), g, c, n, v)
    BY <2>1 DEF Laid
  <2>3. PICK u \in StepAt(d, x).fills[n] : SamePlace(v, u)
    BY <2>2 DEF LaidBy
  <2>4. /\ StepAt(d, x).pre /\ StepAt(d, x).cache = c /\ StepAt(d, x).key = t.key
        /\ n \in DOMAIN StepAt(d, x).fills /\ ~t.scratch
    BY <2>2 DEF LaidBy, M
  <2>5. \/ \E w \in F : SamePlace(u, w)
        \/ \E w \in F \ Keeps(t, n) : <<n, w>> \notin t.given /\ ~Apart(u, w)
    BY <1>0, <2>4 DEF OneLayout, F
  <2>6. CASE \E w \in F : SamePlace(u, w)
    <3>1. PICK w \in F : SamePlace(u, w)
      BY <2>6
    <3>2. SamePlace(v, w)
      BY <2>3, <3>1 DEF SamePlace
    <3>3. ~Apart(w, w)
      BY <1>1
    <3>4. ~Apart(v, P(w))
      BY <1>4, <3>2, <3>3, ApartByPlace
    <3>5. P(w) \in M
      BY <1>5, <1>8, <3>4
    <3>6. ApartIn(M)
      BY DEF Sound, NoOverlap, M
    <3> QED
      BY <3>4, <3>5, <3>6 DEF ApartIn
  <2>7. CASE \E w \in F \ Keeps(t, n) : <<n, w>> \notin t.given /\ ~Apart(u, w)
    <3>1. PICK w \in F : w \notin Keeps(t, n) /\ <<n, w>> \notin t.given /\ ~Apart(u, w)
      BY <2>7
    <3>2. w \in Stales(t, n, g[c].set)
      BY <3>1 DEF Stales, Keeps, F
    <3>3. Apart(v, P(w))
      BY <1>3, <3>2
    <3> QED
      BY <1>4, <2>3, <3>1, <3>3, ApartByPlace
  <2> QED
    BY <2>5, <2>6, <2>7
<1>10. O = {P(w) : w \in F}
  BY <1>8, <1>9
<1> QED
  BY <1>6, <1>10 DEF O, W, M

\* A host table is one that some step makes or learns.
TableOf(d, h, v) ==
  \E x \in StepsOf(d) :
    LET s == StepAt(d, x)
    IN  (h \in DOMAIN s.hosts /\ v = s.hosts[h]) \/ (~s.setup /\ h \in DOMAIN s.learns /\ v = s.learns[h])
Tabled(d, t) == \A h \in DOMAIN t : TableOf(d, h, t[h])

\* Where the tables say that a step can be skipped, its gifts are there, or the
\* call is about to make them anew.
Redone(h) == fresh /\ pc \in {"ensure", "fill"} /\ Redoes(model, <<request, stage>>, h)
Remains ==
  \A x \in StepsOf(model) : StepAt(model, x).memo # <<>> =>
    \A e \in Gifts(StepAt(model, x)) :
      LET h == StepAt(model, x).memo[1]
      IN  h \in DOMAIN hosts /\ hosts[h].key = StepAt(model, x).memo[2] /\ e[1] \in DOMAIN graphs =>
            Holds(mem, e[1], e[2], Copy(e)) \/ Redone(h)

Across == Sound(model, graphs, mem) /\ Tabled(model, hosts) /\ Remains

(* What holds during a call. *)

At(i) == Table[model][request][i]
Stands(s) == s.pre /\ s.cache \in DOMAIN graphs /\ graphs[s.cache].key = s.key /\ DOMAIN mem[s.cache] = DOMAIN s.ins
\* The graphs set up stand; what was learned is at hand; what was given is there.
Ready == \A k \in 1..stage - 1 : At(k).setup => Stands(At(k))
Learned ==
  \A i \in DOMAIN Table[model][request], k \in 1..stage - 1 :
    i >= stage /\ ~At(k).setup =>
      \A h \in DOMAIN At(i).needs \cap DOMAIN At(k).learns : h \in DOMAIN hosts /\ hosts[h] = At(i).needs[h]
Given ==
  \A i \in DOMAIN Table[model][request], k \in 1..stage - 1 :
    i >= stage /\ ~At(i).setup =>
      \A g \in At(i).given : Gives(At(k), At(i).cache, g[1], g[2]) => Holds(mem, At(i).cache, g[1], g[2])
InCall == pc # "idle" => Ready /\ Learned /\ Given
\* The step's own graph.
Mine ==
  /\ pc \in {"fill", "compute"} => Stands(Step)
  /\ pc = "fill" /\ Step.scratch => graphs[Step.cache].set = Unset /\ \A n \in DOMAIN mem[Step.cache] : mem[Step.cache][n] = {}
  /\ pc = "compute" => /\ Step.post /\ graphs[Step.cache].set = Step.tag
                       /\ \A e \in Step.sends : Holds(mem, e[1], e[2], Copy(e))
AllDue == pc = "compute" => \A n \in DOMAIN Step.ins : mem[Step.cache][n] = Due(Step, n)

InputsInv == Across /\ InCall /\ Mine /\ AllDue

-----------------------------------------------------------------------------
(* The step a call is at. *)

LEMMA TheStep ==
  ASSUME Control, pc # "idle"
  PROVE  /\ model \in Loaded /\ request \in DOMAIN Table[model] /\ stage \in DOMAIN Table[model][request]
         /\ <<request, stage>> \in StepsOf(model) /\ StepAt(model, <<request, stage>>) = Step /\ Step = At(stage)
         /\ stage \in Nat /\ stage > 0
<1>1. model \in Loaded /\ request \in DOMAIN Table[model] /\ stage \in DOMAIN Table[model][request]
  BY DEF Control
<1> QED
  BY <1>1, AStep DEF Step, At

\* A graph set up earlier in the call is found.
LEMMA SetUpHits ==
  ASSUME ListsAgree, Control, pc # "idle", Ready, SetUp(model, <<request, stage>>)
  PROVE  Hit
<1>1. /\ model \in Loaded /\ request \in DOMAIN Table[model] /\ stage \in DOMAIN Table[model][request]
      /\ <<request, stage>> \in StepsOf(model) /\ StepAt(model, <<request, stage>>) = Step
  BY TheStep
<1>2. PICK z \in Before(<<request, stage>>) : StepAt(model, z).setup /\ StepAt(model, z).cache = Step.cache
  BY <1>1 DEF SetUp
<1>3. z[2] \in 1..stage - 1 /\ StepAt(model, z) = At(z[2])
  BY <1>1, <1>2, AnEarlierStep DEF At
<1>4. Stands(StepAt(model, z))
  BY <1>2, <1>3 DEF Ready
<1>5. SetupsStay(model)
  BY <1>1 DEF ListsAgree
<1>6. Step.key = StepAt(model, z).key /\ ~Step.scratch
  BY <1>1, <1>2, <1>5 DEF SetupsStay
<1> QED
  BY <1>2, <1>4, <1>6 DEF Hit, Stands

(* Host tables. *)

LEMMA UpdatedIs ==
  ASSUME ListsAgree, NEW d \in Loaded, model = d, Tabled(model, hosts),
         NEW x \in StepsOf(d), StepAt(d, x) = Step, NEW names, names \subseteq DOMAIN Step.hosts
  PROVE  /\ DOMAIN Updated(names) = DOMAIN hosts \cup names
         /\ \A h \in names : Updated(names)[h] = Step.hosts[h]
         /\ \A h \in DOMAIN hosts \ names : Updated(names)[h] = hosts[h]
<1>1. /\ DOMAIN Updated(names) = DOMAIN hosts \cup names
      /\ \A h \in DOMAIN hosts \ names : Updated(names)[h] = hosts[h]
      /\ \A h \in names : Updated(names)[h] = IF ~Kept(h) THEN Step.hosts[h] ELSE hosts[h]
  BY DEF Updated
<1>2. ASSUME NEW h \in names, Kept(h) PROVE hosts[h] = Step.hosts[h]
  <2>1. h \in DOMAIN hosts /\ h \in DOMAIN Step.hosts /\ hosts[h].key = Step.hosts[h].key
    BY <1>2 DEF Kept
  <2>2. TableOf(d, h, hosts[h])
    BY <2>1 DEF Tabled
  <2>3. PICK y \in StepsOf(d) :
          \/ h \in DOMAIN StepAt(d, y).hosts /\ hosts[h] = StepAt(d, y).hosts[h]
          \/ h \in DOMAIN StepAt(d, y).learns
    BY <2>2 DEF TableOf
  <2>4. HostsDecide(d)
    BY DEF ListsAgree
  <2>5. DOMAIN Step.hosts \cap DOMAIN StepAt(d, y).learns = {}
    BY <2>4 DEF HostsDecide
  <2>6. h \in DOMAIN StepAt(d, y).hosts /\ hosts[h] = StepAt(d, y).hosts[h]
    BY <2>1, <2>3, <2>5
  <2> QED
    BY <2>1, <2>4, <2>6 DEF HostsDecide
<1> QED
  BY <1>1, <1>2

LEMMA UpdatedTabled ==
  ASSUME ListsAgree, NEW d \in Loaded, model = d, Tabled(model, hosts),
         NEW x \in StepsOf(d), StepAt(d, x) = Step, NEW names, names \subseteq DOMAIN Step.hosts
  PROVE  Tabled(d, Updated(names))
<1> SUFFICES ASSUME NEW h \in DOMAIN Updated(names) PROVE TableOf(d, h, Updated(names)[h])
  BY DEF Tabled
<1>1. CASE h \in names
  <2>1. Updated(names)[h] = Step.hosts[h] /\ h \in DOMAIN Step.hosts
    BY <1>1, UpdatedIs
  <2> QED
    BY <2>1 DEF TableOf
<1>2. CASE h \notin names
  <2>1. Updated(names)[h] = hosts[h] /\ h \in DOMAIN hosts
    BY <1>2, UpdatedIs
  <2> QED
    BY <2>1 DEF Tabled
<1> QED
  BY <1>1, <1>2

LEMMA FewerTabled ==
  ASSUME NEW d, NEW t, NEW u, Tabled(d, t), DOMAIN u \subseteq DOMAIN t, \A h \in DOMAIN u : u[h] = t[h]
  PROVE  Tabled(d, u)
BY DEF Tabled

-----------------------------------------------------------------------------
(* A call that ends. *)

LEMMA RemainsEnds ==
  ASSUME Remains, UNCHANGED model, DOMAIN graphs' \subseteq DOMAIN graphs,
         \A h : ~Redone(h),
         \A x \in StepsOf(model) : StepAt(model, x).memo # <<>> =>
           \A e \in Gifts(StepAt(model, x)) :
             LET h == StepAt(model, x).memo[1]
             IN  /\ h \in DOMAIN hosts' => h \in DOMAIN hosts /\ hosts'[h] = hosts[h]
                 /\ Holds(mem, e[1], e[2], Copy(e)) /\ e[1] \in DOMAIN graphs' => Holds(mem', e[1], e[2], Copy(e))
  PROVE  Remains'
<1> SUFFICES ASSUME NEW x \in StepsOf(model), StepAt(model, x).memo # <<>>, NEW e \in Gifts(StepAt(model, x)),
                    StepAt(model, x).memo[1] \in DOMAIN hosts', e[1] \in DOMAIN graphs',
                    hosts'[StepAt(model, x).memo[1]].key = StepAt(model, x).memo[2]
             PROVE  Holds(mem', e[1], e[2], Copy(e))
  BY DEF Remains
<1>1. Holds(mem, e[1], e[2], Copy(e)) \/ Redone(StepAt(model, x).memo[1])
  BY DEF Remains
<1> QED
  BY <1>1

LEMMA EndsInputs ==
  ASSUME Idle, Across'
  PROVE  InputsInv'
BY DEF Idle, InputsInv, InCall, Mine, AllDue

\* What a giver forgets is no table of a step.
LEMMA NoTable ==
  ASSUME ListsAgree, NEW d \in Loaded, NEW x \in StepsOf(d), StepAt(d, x).memo # <<>>, NEW e \in Gifts(StepAt(d, x)),
         NEW y \in StepsOf(d)
  PROVE  /\ StepAt(d, x).memo[1] \notin DOMAIN StepAt(d, y).hosts
         /\ StepAt(d, y).clears \subseteq DOMAIN StepAt(d, y).hosts
<1>1. GiversRedo(d) /\ HostsDecide(d)
  BY DEF ListsAgree
<1>2. StepAt(d, x).memo[1] \notin DOMAIN StepAt(d, y).hosts
  BY <1>1 DEF GiversRedo
<1>3. StepAt(d, y).clears \subseteq DOMAIN StepAt(d, y).hosts
  BY <1>1 DEF HostsDecide
<1> QED
  BY <1>2, <1>3

LEMMA RefusedInputs ==
  ASSUME ListsAgree, CallsInv, InputsInv, Refuse \/ FetchFails
  PROVE  InputsInv'
<1>1. /\ pc = "ensure" /\ Idle /\ UNCHANGED <<model, graphs, mem>> /\ DOMAIN hosts' \subseteq DOMAIN hosts
      /\ \A h \in DOMAIN hosts' : hosts'[h] = hosts[h]
      /\ ~Step.pre \/ Step.fetch
  BY DEF Refuse, FetchFails, Begins, GiveUp
<1>2. StepAt(model, <<request, stage>>) = Step
  BY <1>1, TheStep DEF CallsInv
<1>3. \A h : ~Redone(h)
  BY <1>1, <1>2 DEF Redone, Redoes
<1>4. Remains'
  BY <1>1, <1>3, RemainsEnds DEF InputsInv, Across
<1>5. Tabled(model, hosts')
  BY <1>1, FewerTabled DEF InputsInv, Across
<1>6. Across'
  BY <1>1, <1>4, <1>5 DEF InputsInv, Across
<1> QED
  BY <1>1, <1>6, EndsInputs

LEMMA EnsureFailsInputs ==
  ASSUME ListsAgree, CallsInv, InputsInv, EnsureFails
  PROVE  InputsInv'
<1> DEFINE X == <<request, stage>>
<1>1. /\ pc = "ensure" /\ Idle /\ UNCHANGED model /\ ~Hit
      /\ graphs' = Without(graphs, {Step.cache}) /\ mem' = Without(mem, {Step.cache}) /\ hosts' = Updated(Step.clears)
  BY DEF EnsureFails, Begins, Release
<1>2. Control /\ X \in StepsOf(model) /\ StepAt(model, X) = Step /\ model \in Loaded /\ DOMAIN graphs = DOMAIN mem
  BY <1>1, TheStep DEF CallsInv, Caches
<1>3. Sound(model, graphs, mem) /\ Tabled(model, hosts) /\ Remains /\ Ready
  BY <1>1 DEF InputsInv, Across, InCall
<1>4. \A h : ~Redone(h)
  BY <1>1, <1>2, <1>3, SetUpHits DEF Redone, Redoes
<1>5. Step.clears \subseteq DOMAIN Step.hosts
  <2>1. HostsDecide(model)
    BY <1>2 DEF ListsAgree
  <2> QED
    BY <1>2, <2>1 DEF HostsDecide
<1> HIDE DEF X
<1>6. /\ DOMAIN hosts' = DOMAIN hosts \cup Step.clears
      /\ \A h \in DOMAIN hosts \ Step.clears : hosts'[h] = hosts[h]
  BY <1>1, <1>2, <1>3, <1>5, UpdatedIs
<1>7. /\ DOMAIN graphs' \subseteq DOMAIN graphs
      /\ \A c, n, w : Holds(mem, c, n, w) /\ c \in DOMAIN graphs' => Holds(mem', c, n, w)
  BY <1>1 DEF Without, Holds
<1>8. ASSUME NEW x \in StepsOf(model), StepAt(model, x).memo # <<>>, NEW e \in Gifts(StepAt(model, x)),
             StepAt(model, x).memo[1] \in DOMAIN hosts'
      PROVE  LET h == StepAt(model, x).memo[1] IN h \in DOMAIN hosts /\ hosts'[h] = hosts[h]
  <2>1. StepAt(model, x).memo[1] \notin DOMAIN Step.hosts
    BY <1>2, <1>8, NoTable
  <2> QED
    BY <1>5, <1>6, <1>8, <2>1
<1>9. Remains'
  BY <1>1, <1>3, <1>4, <1>7, <1>8, RemainsEnds
<1>10. Tabled(model, hosts')
  BY <1>1, <1>2, <1>3, <1>5, UpdatedTabled
<1>11. Sound(model, graphs', mem')
  BY <1>1, <1>2, <1>3, ReleasedSound
<1> QED
  BY <1>1, <1>9, <1>10, <1>11, EndsInputs DEF Across

LEMMA RefuseViewsInputs ==
  ASSUME ListsAgree, CallsInv, InputsInv, RefuseViews
  PROVE  InputsInv'
<1> DEFINE X == <<request, stage>>
           c == Step.cache
<1>1. pc = "fill" /\ Idle /\ UNCHANGED <<model, graphs, hosts>> /\ ~Step.post
  BY DEF RefuseViews
<1>2. Control /\ X \in StepsOf(model) /\ StepAt(model, X) = Step /\ model \in Loaded /\ ~Step.setup
  BY <1>1, TheStep DEF CallsInv, Control
<1>3. Sound(model, graphs, mem) /\ Tabled(model, hosts) /\ Remains /\ Stands(Step)
  BY <1>1 DEF InputsInv, Across, Mine
<1>4. PICK n \in DOMAIN Step.fills : \E S \in SUBSET Step.fills[n] : mem' = [mem EXCEPT ![c][n] = Over(@, S)]
  BY DEF RefuseViews
<1>5. PICK S \in SUBSET Step.fills[n] : mem' = [mem EXCEPT ![c][n] = Over(@, S)]
  BY <1>4
<1> HIDE DEF X
<1>6. Sound(model, graphs, mem')
  BY <1>1, <1>2, <1>3, <1>5, RefusedSound DEF Stands
<1>7. \A h : ~Redone(h)
  BY <1>1, <1>2 DEF Redone, Redoes, X
<1>8. ASSUME NEW x \in StepsOf(model), StepAt(model, x).memo # <<>>, NEW e \in Gifts(StepAt(model, x)),
             Holds(mem, e[1], e[2], Copy(e))
      PROVE  Holds(mem', e[1], e[2], Copy(e))
  <2>1. e[1] # c
    <3>1. GiversRedo(model)
      BY <1>2 DEF ListsAgree
    <3> QED
      BY <1>1, <1>2, <1>8, <3>1 DEF GiversRedo
  <2> HIDE DEF c
  <2>2. DOMAIN mem' = DOMAIN mem /\ mem'[e[1]] = mem[e[1]]
    BY <1>5, <1>8, <2>1 DEF Holds
  <2> QED
    BY <1>8, <2>2 DEF Holds
<1>9. Remains'
  BY <1>1, <1>3, <1>7, <1>8, RemainsEnds
<1> QED
  BY <1>1, <1>3, <1>6, <1>9, EndsInputs DEF Across

LEMMA ComputeFailsInputs ==
  ASSUME ListsAgree, CallsInv, InputsInv, ComputeFails
  PROVE  InputsInv'
<1> DEFINE X == <<request, stage>>
           c == Step.cache
<1>1. pc = "compute" /\ Idle /\ UNCHANGED <<model, hosts>>
  BY DEF ComputeFails
<1>2. /\ Control /\ X \in StepsOf(model) /\ StepAt(model, X) = Step /\ model \in Loaded /\ ~Step.setup
      /\ DOMAIN graphs = DOMAIN mem
  BY <1>1, TheStep DEF CallsInv, Control, Caches
<1>3. Sound(model, graphs, mem) /\ Tabled(model, hosts) /\ Remains /\ Stands(Step) /\ graphs[c].set = Step.tag
  BY <1>1 DEF InputsInv, Across, Mine
<1>4. \A h : ~Redone(h)
  BY <1>1 DEF Redone
<1> HIDE DEF X
<1>5. CASE Release({c})
  <2>1. graphs' = Without(graphs, {c}) /\ mem' = Without(mem, {c})
    BY <1>5 DEF Release
  <2>2. Sound(model, graphs', mem')
    BY <1>2, <1>3, <2>1, ReleasedSound
  <2>3. /\ DOMAIN graphs' \subseteq DOMAIN graphs
        /\ \A b, n, w : Holds(mem, b, n, w) /\ b \in DOMAIN graphs' => Holds(mem', b, n, w)
    BY <2>1 DEF Without, Holds
  <2>4. Remains'
    BY <1>1, <1>3, <1>4, <2>3, RemainsEnds
  <2> QED
    BY <1>1, <1>3, <2>2, <2>4, EndsInputs DEF Across
<1>6. CASE mem' = Spent(mem, c, Step.kept) /\ UNCHANGED graphs
  <2>1. Sound(model, graphs, mem')
    BY <1>2, <1>3, <1>6, SpentSound DEF Stands
  <2>2. ASSUME NEW x \in StepsOf(model), StepAt(model, x).memo # <<>>, NEW e \in Gifts(StepAt(model, x)),
               Holds(mem, e[1], e[2], Copy(e))
        PROVE  Holds(mem', e[1], e[2], Copy(e))
    <3>1. GiversRedo(model)
      BY <1>2 DEF ListsAgree
    <3>2. e[1] = c => e[2] \in Step.kept
      BY <1>2, <2>2, <3>1 DEF GiversRedo
    <3> QED
      BY <1>6, <2>2, <3>2, SpentIs
  <2>3. Remains'
    BY <1>1, <1>3, <1>4, <1>6, <2>2, RemainsEnds
  <2> QED
    BY <1>1, <1>3, <1>6, <2>1, <2>3, EndsInputs DEF Across
<1> QED
  BY <1>5, <1>6 DEF ComputeFails

(* A call that goes on. *)

LEMMA CallInputs ==
  ASSUME ListsAgree, CallsInv, InputsInv, NEW r, Call(r)
  PROVE  InputsInv'
<1>1. pc = "idle" /\ pc' = "ensure" /\ stage' = 1 /\ UNCHANGED <<model, graphs, mem, hosts, fresh>>
  BY DEF Call
<1>2. ~fresh
  BY <1>1 DEF CallsInv, Control
<1>3. Remains'
  <2>1. \A h : ~Redone(h)
    BY <1>2 DEF Redone
  <2> QED
    BY <1>1, <2>1 DEF InputsInv, Across, Remains
<1>4. Across'
  BY <1>1, <1>3 DEF InputsInv, Across
<1>5. 1..stage' - 1 = {}
  BY <1>1
<1>6. Ready' /\ Learned' /\ Given'
  BY <1>5 DEF Ready, Learned, Given
<1> QED
  BY <1>1, <1>4, <1>6 DEF InputsInv, InCall, Mine, AllDue

\* The next step has one step more behind it.
LEMMA OneMore ==
  ASSUME Control, pc # "idle", stage' = stage + 1
  PROVE  /\ \A k \in 1..stage' - 1 : k \in 1..stage - 1 \/ k = stage
         /\ \A i \in DOMAIN Table[model][request] : i >= stage' => i >= stage /\ i # stage /\ stage \in 1..i - 1
<1>1. stage \in Nat /\ stage > 0
  BY TheStep
<1>2. \A i \in DOMAIN Table[model][request] : i \in Nat
  BY TheStep, AStep
<1> QED
  BY <1>1, <1>2

\* A gift's graph has been set up in this call, with a place for it.
LEMMA GiftsGraph ==
  ASSUME ListsAgree, CallsInv, pc # "idle", Ready, NEW e \in Gifts(Step)
  PROVE  /\ e[1] # Step.cache /\ e[1] \in DOMAIN graphs /\ e[1] \in DOMAIN mem /\ e[2] \in DOMAIN mem[e[1]]
         /\ Laid(model, graphs, e[1], e[2], Copy(e))
<1> DEFINE X == <<request, stage>>
<1>1. /\ model \in Loaded /\ request \in DOMAIN Table[model] /\ stage \in DOMAIN Table[model][request]
      /\ X \in StepsOf(model) /\ StepAt(model, X) = Step
  BY TheStep DEF CallsInv
<1>2. GiftsLand(model) /\ OneLayout(model)
  BY <1>1 DEF ListsAgree
<1>3. /\ e[1] # Step.cache
      /\ \E z \in Before(X) : StepAt(model, z).setup /\ StepAt(model, z).cache = e[1]
      /\ \A z \in Before(X) :
           StepAt(model, z).setup /\ StepAt(model, z).cache = e[1] =>
             e[2] \in DOMAIN StepAt(model, z).fills /\ \E w \in StepAt(model, z).fills[e[2]] : SamePlace(Copy(e), w)
  BY <1>1, <1>2 DEF GiftsLand
<1>4. PICK z \in Before(X) : StepAt(model, z).setup /\ StepAt(model, z).cache = e[1]
  BY <1>3
<1>5. z[2] \in 1..stage - 1 /\ z \in StepsOf(model) /\ StepAt(model, z) = At(z[2])
  BY <1>1, <1>4, AnEarlierStep DEF At
<1> DEFINE t == StepAt(model, z)
<1>6. Stands(t)
  BY <1>4, <1>5 DEF Ready
<1>7. e[2] \in DOMAIN t.fills /\ \E w \in t.fills[e[2]] : SamePlace(Copy(e), w)
  BY <1>3, <1>4
<1>8. DOMAIN t.fills = DOMAIN t.ins
  BY <1>2, <1>5, <1>6 DEF OneLayout, Stands
<1>9. LaidBy(t, graphs, e[1], e[2], Copy(e))
  BY <1>4, <1>6, <1>7 DEF LaidBy, Stands
<1>10. Laid(model, graphs, e[1], e[2], Copy(e))
  BY <1>5, <1>9 DEF Laid
<1> HIDE DEF t
<1>11. e[1] \in DOMAIN graphs /\ DOMAIN mem[e[1]] = DOMAIN t.ins
  BY <1>4, <1>6 DEF Stands, t
<1> QED
  BY <1>3, <1>7, <1>8, <1>10, <1>11 DEF CallsInv, Caches

\* What a step learns is what the later steps need.
LEMMA LearnsIt ==
  ASSUME ListsAgree, Control, pc # "idle", NEW i \in DOMAIN Table[model][request],
         NEW h \in DOMAIN At(i).needs
  PROVE  /\ h \in DOMAIN Step.learns => Step.learns[h] = At(i).needs[h]
         /\ h \notin Step.forgets
<1> DEFINE X == <<request, i>>
<1>1. /\ model \in Loaded /\ request \in DOMAIN Table[model] /\ stage \in DOMAIN Table[model][request]
  BY TheStep
<1>2. X \in StepsOf(model) /\ StepAt(model, X) = At(i) /\ X[1] = request
  BY <1>1, AStep DEF At
<1>3. HostsAtHand(model)
  BY <1>1 DEF ListsAgree
<1> HIDE DEF X
<1>4. \A k \in DOMAIN Table[model][X[1]] :
        /\ h \notin Table[model][X[1]][k].forgets
        /\ h \in DOMAIN Table[model][X[1]][k].learns => Table[model][X[1]][k].learns[h] = At(i).needs[h]
  BY <1>2, <1>3 DEF HostsAtHand
<1> QED
  BY <1>1, <1>2, <1>4 DEF Step

\* A step that is skipped has learned its tables in an earlier call.
LEMMA Recalled ==
  ASSUME ListsAgree, Control, pc # "idle", Tabled(model, hosts), Remembered, NEW h \in DOMAIN Step.learns
  PROVE  ~Step.setup /\ h \in DOMAIN hosts /\ hosts[h] = Step.learns[h]
<1> DEFINE X == <<request, stage>>
<1>1. model \in Loaded /\ X \in StepsOf(model) /\ StepAt(model, X) = Step
  BY TheStep
<1>2. HostsDecide(model)
  BY <1>1 DEF ListsAgree
<1>3. Step.memo # <<>> /\ Step.memo[1] \in DOMAIN hosts /\ hosts[Step.memo[1]].key = Step.memo[2]
  BY DEF Remembered
<1>4. ~Step.setup /\ Step.memo = <<h, Step.learns[h].key>>
  BY <1>1, <1>2, <1>3 DEF HostsDecide
<1>5. h \in DOMAIN hosts /\ hosts[h].key = Step.learns[h].key
  BY <1>3, <1>4
<1>6. TableOf(model, h, hosts[h])
  BY <1>5 DEF Tabled
<1>7. PICK y \in StepsOf(model) :
        \/ h \in DOMAIN StepAt(model, y).hosts
        \/ h \in DOMAIN StepAt(model, y).learns /\ hosts[h] = StepAt(model, y).learns[h]
  BY <1>6 DEF TableOf
<1>8. DOMAIN StepAt(model, y).hosts \cap DOMAIN Step.learns = {}
  BY <1>1, <1>2 DEF HostsDecide
<1>9. h \in DOMAIN StepAt(model, y).learns /\ hosts[h] = StepAt(model, y).learns[h]
  BY <1>7, <1>8
<1>10. hosts[h] = Step.learns[h]
  BY <1>1, <1>2, <1>5, <1>9 DEF HostsDecide
<1> QED
  BY <1>4, <1>5, <1>10

LEMMA SkipInputs ==
  ASSUME ListsAgree, CallsInv, InputsInv, Skip
  PROVE  InputsInv'
<1>1. /\ pc = "ensure" /\ Remembered /\ stage' = stage + 1
      /\ UNCHANGED <<model, request, pc, graphs, mem, hosts, fresh>>
  BY DEF Skip
<1>2. Control /\ Ready /\ Learned /\ Given /\ Tabled(model, hosts) /\ Remains
  BY <1>1 DEF CallsInv, InputsInv, InCall, Across
<1>3. /\ model \in Loaded /\ <<request, stage>> \in StepsOf(model) /\ StepAt(model, <<request, stage>>) = Step /\ Step = At(stage)
  BY <1>1, <1>2, TheStep
<1>4. Step.memo # <<>> /\ ~fresh
  BY <1>1 DEF Remembered
<1>5. \A h : ~Redone(h)
  BY <1>4 DEF Redone
<1>6. Remains'
  BY <1>1, <1>2, <1>5 DEF Remains
<1>7. Across'
  BY <1>1, <1>6 DEF InputsInv, Across
<1>8. ~Step.setup
  <2>1. HostsDecide(model)
    BY <1>3 DEF ListsAgree
  <2> QED
    BY <1>3, <1>4, <2>1 DEF HostsDecide
<1>9. /\ \A k \in 1..stage' - 1 : k \in 1..stage - 1 \/ k = stage
      /\ \A i \in DOMAIN Table[model][request] : i >= stage' => i >= stage /\ i # stage
  BY <1>1, <1>2, OneMore
<1>10. \A i : At(i)' = At(i)
  BY <1>1 DEF At
<1>11. Ready'
  BY <1>1, <1>2, <1>3, <1>8, <1>9, <1>10 DEF Ready, Stands
<1>12. Learned'
  <2> SUFFICES ASSUME NEW i \in DOMAIN Table[model][request], NEW k \in 1..stage' - 1, i >= stage', ~At(k).setup,
                      NEW h \in DOMAIN At(i).needs \cap DOMAIN At(k).learns
               PROVE  h \in DOMAIN hosts /\ hosts[h] = At(i).needs[h]
    BY <1>1, <1>10 DEF Learned
  <2>1. CASE k \in 1..stage - 1
    BY <1>2, <1>9, <2>1 DEF Learned
  <2>2. CASE k = stage
    <3>1. h \in DOMAIN Step.learns /\ h \in DOMAIN At(i).needs
      BY <1>3, <2>2
    <3>2. Step.learns[h] = At(i).needs[h]
      BY <1>1, <1>2, <3>1, LearnsIt
    <3> QED
      BY <1>1, <1>2, <3>1, <3>2, Recalled
  <2> QED
    BY <1>9, <2>1, <2>2
<1>13. Given'
  <2> SUFFICES ASSUME NEW i \in DOMAIN Table[model][request], NEW k \in 1..stage' - 1, i >= stage', ~At(i).setup,
                      NEW g \in At(i).given, Gives(At(k), At(i).cache, g[1], g[2])
               PROVE  Holds(mem, At(i).cache, g[1], g[2])
    BY <1>1, <1>10 DEF Given
  <2>1. CASE k \in 1..stage - 1
    BY <1>2, <1>9, <2>1 DEF Given
  <2>2. CASE k = stage
    <3>1. PICK e \in Gifts(Step) : e[1] = At(i).cache /\ e[2] = g[1] /\ g[2] = Copy(e)
      BY <1>3, <2>2 DEF Gives
    <3>2. e[1] \in DOMAIN graphs
      BY <1>1, <1>2, GiftsGraph
    <3>3. Step.memo[1] \in DOMAIN hosts /\ hosts[Step.memo[1]].key = Step.memo[2]
      BY <1>1 DEF Remembered
    <3>4. Holds(mem, e[1], e[2], Copy(e))
      BY <1>2, <1>3, <1>4, <1>5, <3>2, <3>3 DEF Remains
    <3> QED
      BY <3>1, <3>4
  <2> QED
    BY <1>9, <2>1, <2>2
<1> QED
  BY <1>1, <1>7, <1>11, <1>12, <1>13 DEF InputsInv, InCall, Mine, AllDue

(* What one step leaves for the next. *)

LEMMA ReadyOn ==
  ASSUME Control, pc # "idle", Ready, UNCHANGED <<model, request>>, stage' = stage \/ stage' = stage + 1,
         \A k \in 1..stage - 1 : At(k).setup /\ Stands(At(k)) => Stands(At(k))',
         stage' = stage + 1 /\ Step.setup => \A k : k = stage => Stands(At(k))'
  PROVE  Ready'
<1> SUFFICES ASSUME NEW k \in 1..stage' - 1, At(k).setup PROVE Stands(At(k))'
  BY DEF Ready, At
<1>1. CASE k \in 1..stage - 1
  BY <1>1 DEF Ready
<1>2. CASE stage' = stage + 1 /\ k = stage
  BY <1>2, TheStep
<1>3. k \in 1..stage - 1 \/ (stage' = stage + 1 /\ k = stage)
  BY OneMore
<1> QED
  BY <1>1, <1>2, <1>3

LEMMA LearnedOn ==
  ASSUME Control, pc # "idle", Learned, UNCHANGED <<model, request>>, stage' = stage \/ stage' = stage + 1,
         \A i \in DOMAIN Table[model][request] : \A h \in DOMAIN At(i).needs :
           h \in DOMAIN hosts /\ hosts[h] = At(i).needs[h] => h \in DOMAIN hosts' /\ hosts'[h] = At(i).needs[h],
         stage' = stage + 1 /\ ~Step.setup =>
           \A i \in DOMAIN Table[model][request] : \A h \in DOMAIN At(i).needs \cap DOMAIN Step.learns :
             h \in DOMAIN hosts' /\ hosts'[h] = At(i).needs[h]
  PROVE  Learned'
<1>0. \A i : At(i)' = At(i)
  BY DEF At
<1> SUFFICES ASSUME NEW i \in DOMAIN Table[model][request], NEW k \in 1..stage' - 1, i >= stage', ~At(k).setup,
                    NEW h \in DOMAIN At(i).needs \cap DOMAIN At(k).learns
             PROVE  h \in DOMAIN hosts' /\ hosts'[h] = At(i).needs[h]
  BY <1>0 DEF Learned
<1>1. CASE k \in 1..stage - 1
  <2>1. i >= stage
    BY OneMore
  <2> QED
    BY <1>1, <2>1 DEF Learned
<1>2. CASE stage' = stage + 1 /\ k = stage
  BY <1>2, TheStep
<1>3. k \in 1..stage - 1 \/ (stage' = stage + 1 /\ k = stage)
  BY OneMore
<1> QED
  BY <1>1, <1>2, <1>3

LEMMA GivenOn ==
  ASSUME Control, pc # "idle", Given, UNCHANGED <<model, request>>, stage' = stage \/ stage' = stage + 1,
         \A i \in DOMAIN Table[model][request], k \in 1..stage - 1 :
           i >= stage' /\ ~At(i).setup =>
             \A g \in At(i).given :
               Gives(At(k), At(i).cache, g[1], g[2]) /\ Holds(mem, At(i).cache, g[1], g[2]) => Holds(mem', At(i).cache, g[1], g[2]),
         stage' = stage + 1 =>
           \A i \in DOMAIN Table[model][request] :
             i >= stage' /\ ~At(i).setup =>
               \A g \in At(i).given : Gives(Step, At(i).cache, g[1], g[2]) => Holds(mem', At(i).cache, g[1], g[2])
  PROVE  Given'
<1>0. \A i : At(i)' = At(i)
  BY DEF At
<1> SUFFICES ASSUME NEW i \in DOMAIN Table[model][request], NEW k \in 1..stage' - 1, i >= stage', ~At(i).setup,
                    NEW g \in At(i).given, Gives(At(k), At(i).cache, g[1], g[2])
             PROVE  Holds(mem', At(i).cache, g[1], g[2])
  BY <1>0 DEF Given
<1>1. CASE k \in 1..stage - 1
  <2>1. i >= stage
    BY OneMore
  <2>2. Holds(mem, At(i).cache, g[1], g[2])
    BY <1>1, <2>1 DEF Given
  <2> QED
    BY <1>1, <2>2
<1>2. CASE stage' = stage + 1 /\ k = stage
  <2>1. At(k) = Step
    BY <1>2, TheStep
  <2> QED
    BY <1>2, <2>1
<1>3. k \in 1..stage - 1 \/ (stage' = stage + 1 /\ k = stage)
  BY OneMore
<1> QED
  BY <1>1, <1>2, <1>3

\* What is made anew is none of the learned tables.
LEMMA NeedsStay ==
  ASSUME ListsAgree, CallsInv, pc # "idle", Tabled(model, hosts), NEW names, names \subseteq DOMAIN Step.hosts,
         NEW i \in DOMAIN Table[model][request], NEW h \in DOMAIN At(i).needs
  PROVE  /\ h \notin DOMAIN Step.hosts
         /\ h \in DOMAIN hosts => h \in DOMAIN Updated(names) /\ Updated(names)[h] = hosts[h]
<1>1. /\ model \in Loaded /\ request \in DOMAIN Table[model]
      /\ <<request, stage>> \in StepsOf(model) /\ StepAt(model, <<request, stage>>) = Step
  BY TheStep DEF CallsInv
<1>2. <<request, i>> \in StepsOf(model) /\ StepAt(model, <<request, i>>) = At(i)
  BY <1>1, AStep DEF At
<1>3. HostsAtHand(model) /\ HostsDecide(model)
  BY <1>1 DEF ListsAgree
<1>4. PICK z \in Before(<<request, i>>) : h \in DOMAIN StepAt(model, z).learns
  BY <1>2, <1>3 DEF HostsAtHand
<1>5. z \in StepsOf(model)
  BY <1>1, <1>4, AnEarlierStep
<1>6. DOMAIN Step.hosts \cap DOMAIN StepAt(model, z).learns = {}
  BY <1>1, <1>3, <1>5 DEF HostsDecide
<1>7. h \notin DOMAIN Step.hosts
  BY <1>4, <1>6
<1> QED
  BY <1>1, <1>7, UpdatedIs

\* The graph a given write goes to was set up before it was given.
LEMMA GivensGraph ==
  ASSUME ListsAgree, Control, pc # "idle", Ready, NEW k \in 1..stage - 1, NEW e \in Gifts(At(k))
  PROVE  \E j \in 1..stage - 1 : At(j).setup /\ At(j).cache = e[1]
<1> DEFINE X == <<request, k>>
<1>1. model \in Loaded /\ request \in DOMAIN Table[model] /\ stage \in DOMAIN Table[model][request] /\ stage \in Nat
  BY TheStep
<1>2. k \in DOMAIN Table[model][request] /\ X \in StepsOf(model) /\ StepAt(model, X) = At(k)
  BY <1>1, EarlierSteps DEF At
<1>3. GiftsLand(model)
  BY <1>1 DEF ListsAgree
<1> HIDE DEF X
<1>4. PICK z \in Before(X) : StepAt(model, z).setup /\ StepAt(model, z).cache = e[1]
  BY <1>2, <1>3 DEF GiftsLand
<1>5. z[2] \in 1..k - 1 /\ StepAt(model, z) = At(z[2])
  BY <1>1, <1>2, <1>4, AnEarlierStep DEF At, X
<1>6. z[2] \in 1..stage - 1
  BY <1>1, <1>5
<1> QED
  BY <1>4, <1>5, <1>6

-----------------------------------------------------------------------------
(* graph_cache::ensure. *)

LEMMA PlacedSound ==
  ASSUME ListsAgree, NEW d \in Loaded, NEW g, NEW m, DOMAIN g = DOMAIN m, Sound(d, g, m), NEW S, NEW c, NEW key, NEW graph, NEW I
  PROVE  Sound(d, With(Without(g, S), c, [key |-> key, graph |-> graph, set |-> Unset]), With(Without(m, S), c, [n \in I |-> {}]))
<1> DEFINE new == [key |-> key, graph |-> graph, set |-> Unset]
           g2 == With(Without(g, S), c, new)
           m2 == With(Without(m, S), c, [n \in I |-> {}])
<1>1. /\ DOMAIN g2 = (DOMAIN g \ S) \cup {c} /\ DOMAIN m2 = (DOMAIN m \ S) \cup {c}
      /\ \A b \in DOMAIN g \ S : b # c => g2[b] = g[b] /\ m2[b] = m[b]
      /\ g2[c] = new /\ m2[c] = [n \in I |-> {}] /\ g2[c].set = Unset
  BY DEF With, Without
<1> HIDE DEF g2, m2, new
<1>2. \A b, n, v : Holds(m2, b, n, v) => b # c /\ b \notin S /\ Holds(m, b, n, v) /\ g2[b].key = g[b].key
  BY <1>1 DEF Holds
<1>3. LaidOut(d, g2, m2) /\ NoOverlap(m2)
  BY <1>2, FewerWrites DEF Sound
<1>4. Lasts(d, g2, m2)
  <2> SUFFICES ASSUME NEW b \in DOMAIN g2, NEW x \in StepsOf(d),
                      StepAt(d, x).cache = b, StepAt(d, x).key = g2[b].key, StepAt(d, x).tag = g2[b].set,
                      ~StepAt(d, x).setup, ~StepAt(d, x).scratch,
                      NEW l \in Lasting(StepAt(d, x))
               PROVE  Holds(m2, b, l[1], l[2])
    BY DEF Lasts
  <2>1. ConstsAgree(d)
    BY DEF ListsAgree
  <2>2. StepAt(d, x).tag # Unset
    BY <2>1 DEF ConstsAgree
  <2>3. b # c
    BY <1>1, <2>2
  <2>4. b \in DOMAIN g \ S /\ g2[b] = g[b] /\ m2[b] = m[b] /\ b \in DOMAIN m2
    BY <1>1, <2>3
  <2>5. Holds(m, b, l[1], l[2])
    BY <2>4 DEF Sound, Lasts
  <2> QED
    BY <2>4, <2>5 DEF Holds
<1> QED
  BY <1>3, <1>4 DEF Sound, g2, m2, new

\* The host tables, whatever graph is found.
LEMMA EnsureHosts ==
  ASSUME ListsAgree, CallsInv, InputsInv, Ensure
  PROVE  /\ Tabled(model, hosts') /\ Learned'
         /\ \A x \in StepsOf(model) : StepAt(model, x).memo # <<>> =>
              \A e \in Gifts(StepAt(model, x)) :
                StepAt(model, x).memo[1] \in DOMAIN hosts' =>
                  StepAt(model, x).memo[1] \in DOMAIN hosts /\ hosts'[StepAt(model, x).memo[1]] = hosts[StepAt(model, x).memo[1]]
<1> DEFINE X == <<request, stage>>
<1>1. /\ pc = "ensure" /\ UNCHANGED <<model, request>> /\ hosts' = Updated(Step.clears)
      /\ IF Step.setup THEN stage' = stage + 1 ELSE stage' = stage
  BY DEF Ensure, Begins
<1>2. Control /\ Tabled(model, hosts) /\ Learned /\ model \in Loaded /\ X \in StepsOf(model) /\ StepAt(model, X) = Step
  BY <1>1, TheStep DEF CallsInv, InputsInv, InCall, Across
<1>3. Step.clears \subseteq DOMAIN Step.hosts
  <2>1. HostsDecide(model)
    BY <1>2 DEF ListsAgree
  <2> QED
    BY <1>2, <2>1 DEF HostsDecide
<1> HIDE DEF X
<1>4. Tabled(model, hosts')
  BY <1>1, <1>2, <1>3, UpdatedTabled
<1>5. Learned'
  <2>1. ASSUME NEW i \in DOMAIN Table[model][request], NEW h \in DOMAIN At(i).needs, h \in DOMAIN hosts
        PROVE  h \in DOMAIN hosts' /\ hosts'[h] = hosts[h]
    BY <1>1, <1>2, <1>3, <2>1, NeedsStay
  <2>2. stage' = stage \/ stage' = stage + 1
    BY <1>1
  <2>3. stage' = stage + 1 => Step.setup
    BY <1>1, <1>2, TheStep
  <2> QED
    BY <1>1, <1>2, <2>1, <2>2, <2>3, LearnedOn
<1>6. ASSUME NEW x \in StepsOf(model), StepAt(model, x).memo # <<>>, NEW e \in Gifts(StepAt(model, x)),
             StepAt(model, x).memo[1] \in DOMAIN hosts'
      PROVE  StepAt(model, x).memo[1] \in DOMAIN hosts /\ hosts'[StepAt(model, x).memo[1]] = hosts[StepAt(model, x).memo[1]]
  <2>1. StepAt(model, x).memo[1] \notin DOMAIN Step.hosts
    BY <1>2, <1>6, NoTable
  <2>2. /\ DOMAIN hosts' = DOMAIN hosts \cup Step.clears
        /\ \A h \in DOMAIN hosts \ Step.clears : hosts'[h] = hosts[h]
    BY <1>1, <1>2, <1>3, UpdatedIs
  <2> QED
    BY <1>3, <1>6, <2>1, <2>2
<1> QED
  BY <1>4, <1>5, <1>6

\* A graph found is laid out as the step's own would be.
LEMMA HitStands ==
  ASSUME KeysDecide, CallsInv, pc # "idle", Hit, Step.pre
  PROVE  Stands(Step)
<1> DEFINE X == <<request, stage>>
           c == Step.cache
<1>1. /\ model \in Loaded /\ request \in DOMAIN Table[model] /\ stage \in DOMAIN Table[model][request]
      /\ X \in StepsOf(model) /\ StepAt(model, X) = Step
  BY TheStep DEF CallsInv
<1>2. c \in DOMAIN graphs /\ graphs[c].key = Step.key /\ ~Step.scratch
  BY DEF Hit
<1>3. OfAStep(c)
  BY <1>2 DEF CallsInv, Caches
<1>4. PICK r \in DOMAIN Table[model] : \E i \in DOMAIN Table[model][r] :
        /\ Table[model][r][i].cache = c
        /\ graphs[c] = [key |-> Table[model][r][i].key, graph |-> SameGraph[model][r][i], set |-> graphs[c].set]
        /\ DOMAIN mem[c] = DOMAIN Table[model][r][i].ins
  BY <1>3 DEF OfAStep
<1>5. PICK i \in DOMAIN Table[model][r] :
        /\ Table[model][r][i].cache = c
        /\ graphs[c] = [key |-> Table[model][r][i].key, graph |-> SameGraph[model][r][i], set |-> graphs[c].set]
        /\ DOMAIN mem[c] = DOMAIN Table[model][r][i].ins
  BY <1>4
<1> DEFINE Y == <<r, i>>
<1>6. Y \in StepsOf(model) /\ StepAt(model, Y) = Table[model][r][i]
  BY <1>1, AStep
<1>7. graphs[c].key = Table[model][r][i].key
  BY <1>5
<1> HIDE DEF X, Y
<1>8. GraphOf(StepAt(model, Y)) = GraphOf(Step)
  BY <1>1, <1>2, <1>5, <1>6, <1>7 DEF KeysDecide
<1>9. StepAt(model, Y).ins = Step.ins
  BY <1>8 DEF GraphOf
<1> QED
  BY <1>2, <1>5, <1>6, <1>9 DEF Stands

LEMMA EnsureHits ==
  ASSUME KeysDecide, ListsAgree, CallsInv, InputsInv, Ensure, Hit
  PROVE  InputsInv'
<1>1. /\ pc = "ensure" /\ Step.pre /\ UNCHANGED <<model, request, graphs, mem>>
      /\ IF Step.setup THEN stage' = stage + 1 /\ pc' = pc ELSE pc' = "fill" /\ stage' = stage
      /\ fresh => fresh'
  BY DEF Ensure, Begins
<1>2. /\ Control /\ Sound(model, graphs, mem) /\ Remains /\ Ready /\ Given
      /\ StepAt(model, <<request, stage>>) = Step /\ Step = At(stage) /\ stage \in Nat
  BY <1>1, TheStep DEF CallsInv, InputsInv, InCall, Across
<1>3. Stands(Step) /\ ~Step.scratch
  BY <1>1, HitStands DEF Hit
<1>4. Tabled(model, hosts') /\ Learned'
  BY EnsureHosts
<1>5. \A h : Redone(h) => Redone(h)'
  BY <1>1, <1>2 DEF Redone, Redoes
<1>6. Remains'
  <2> SUFFICES ASSUME NEW x \in StepsOf(model), StepAt(model, x).memo # <<>>, NEW e \in Gifts(StepAt(model, x)), NEW h,
                      h = StepAt(model, x).memo[1], h \in DOMAIN hosts', hosts'[h].key = StepAt(model, x).memo[2],
                      e[1] \in DOMAIN graphs
               PROVE  Holds(mem, e[1], e[2], Copy(e)) \/ Redone(h)'
    BY <1>1 DEF Remains
  <2>1. h \in DOMAIN hosts /\ hosts'[h] = hosts[h]
    BY EnsureHosts
  <2>2. Holds(mem, e[1], e[2], Copy(e)) \/ Redone(h)
    BY <1>2, <2>1 DEF Remains
  <2> QED
    BY <1>5, <2>2
<1>7. Across'
  BY <1>1, <1>2, <1>4, <1>6 DEF Across
<1>8. stage' = stage \/ stage' = stage + 1
  BY <1>1
<1>9. \A s : Stands(s) => Stands(s)'
  BY <1>1 DEF Stands
<1>10. Ready'
  BY <1>1, <1>2, <1>3, <1>8, <1>9, ReadyOn DEF At
<1>11. Given'
  <2>1. stage' = stage + 1 => Step.setup
    BY <1>1, <1>2
  <2>2. stage' = stage + 1 => \A b, n, w : ~Gives(Step, b, n, w)
    BY <2>1 DEF Gives, Gifts
  <2> QED
    BY <1>1, <1>2, <1>8, <2>2, GivenOn
<1>12. Mine' /\ AllDue'
  <2>1. CASE Step.setup
    BY <1>1, <2>1 DEF Mine, AllDue
  <2>2. CASE ~Step.setup
    <3>1. Step' = Step /\ pc' = "fill"
      BY <1>1, <2>2 DEF Step
    <3> QED
      BY <1>3, <1>9, <3>1 DEF Mine, AllDue
  <2> QED
    BY <2>1, <2>2
<1> QED
  BY <1>4, <1>7, <1>10, <1>11, <1>12 DEF InputsInv, InCall

LEMMA EnsurePlaces ==
  ASSUME ListsAgree, CallsInv, InputsInv, Ensure, ~Hit
  PROVE  InputsInv'
<1> DEFINE X == <<request, stage>>
           c == Step.cache
           new == [key |-> Step.key, graph |-> SameGraph[model][request][stage], set |-> Unset]
<1>1. /\ pc = "ensure" /\ Step.pre /\ UNCHANGED <<model, request>>
      /\ IF Step.setup THEN stage' = stage + 1 /\ pc' = pc ELSE pc' = "fill" /\ stage' = stage
      /\ graphs' = With(Without(graphs, Step.ousts), c, new)
      /\ mem' = With(Without(mem, Step.ousts), c, [n \in DOMAIN Step.ins |-> {}])
      /\ fresh' = (fresh \/ Step.anew)
  BY DEF Ensure, Begins
<1>2. /\ Control /\ Sound(model, graphs, mem) /\ Remains /\ Ready /\ Given /\ DOMAIN graphs = DOMAIN mem
      /\ StepAt(model, X) = Step /\ Step = At(stage) /\ stage \in Nat /\ X \in StepsOf(model) /\ model \in Loaded
      /\ request \in DOMAIN Table[model] /\ stage \in DOMAIN Table[model][request]
  BY <1>1, TheStep DEF CallsInv, Caches, InputsInv, InCall, Across
<1>3. Tabled(model, hosts') /\ Learned'
  BY EnsureHosts
<1>4. ~SetUp(model, X)
  BY <1>1, <1>2, SetUpHits
<1>5. Sound(model, graphs', mem')
  BY <1>1, <1>2, PlacedSound
<1>6. /\ DOMAIN graphs' = (DOMAIN graphs \ Step.ousts) \cup {c} /\ DOMAIN mem' = (DOMAIN mem \ Step.ousts) \cup {c}
      /\ \A b \in DOMAIN graphs \ Step.ousts : b # c => graphs'[b] = graphs[b] /\ mem'[b] = mem[b]
      /\ graphs'[c].key = Step.key /\ graphs'[c].set = Unset /\ mem'[c] = [n \in DOMAIN Step.ins |-> {}]
  BY <1>1, <1>2 DEF With, Without
<1>7. \A k \in 1..stage - 1 : At(k).setup => At(k).cache \notin Step.ousts /\ At(k).cache # c
  <2> SUFFICES ASSUME NEW k \in 1..stage - 1, At(k).setup PROVE At(k).cache \notin Step.ousts /\ At(k).cache # c
    OBVIOUS
  <2> DEFINE z == <<request, k>>
  <2>1. z \in Before(X) /\ StepAt(model, z) = At(k)
    BY <1>2, EarlierSteps DEF At
  <2>2. SetupsStay(model)
    BY <1>2 DEF ListsAgree
  <2> HIDE DEF z, X
  <2>3. At(k).cache \notin Step.ousts
    BY <1>2, <2>1, <2>2 DEF SetupsStay
  <2>4. At(k).cache # c
    BY <1>2, <1>4, <2>1 DEF SetUp, c
  <2> QED
    BY <2>3, <2>4
<1>8. \A k \in 1..stage - 1 : At(k).setup /\ Stands(At(k)) => Stands(At(k))'
  <2>1. ASSUME NEW s, Stands(s), s.cache \notin Step.ousts, s.cache # c PROVE Stands(s)'
    <3>1. s.cache \in DOMAIN graphs' /\ graphs'[s.cache] = graphs[s.cache] /\ mem'[s.cache] = mem[s.cache]
      BY <1>6, <2>1 DEF Stands
    <3> QED
      BY <2>1, <3>1 DEF Stands
  <2>2. \A k : At(k)' = At(k)
    BY <1>1 DEF At
  <2> QED
    BY <1>7, <2>1, <2>2
<1>9. ASSUME NEW k \in 1..stage - 1, NEW e \in Gifts(At(k)), NEW w, Holds(mem, e[1], e[2], w)
       PROVE  Holds(mem', e[1], e[2], w)
  <2>1. PICK j \in 1..stage - 1 : At(j).setup /\ At(j).cache = e[1]
    BY <1>1, <1>2, GivensGraph
  <2>2. e[1] \notin Step.ousts /\ e[1] # c
    BY <1>7, <2>1
  <2> HIDE DEF c
  <2>3. e[1] \in DOMAIN mem' /\ mem'[e[1]] = mem[e[1]]
    BY <1>2, <1>6, <1>9, <2>2 DEF Holds
  <2> QED
    BY <1>9, <2>3 DEF Holds
<1> HIDE DEF X, c, new
<1>10. stage' = stage \/ stage' = stage + 1
  BY <1>1
<1>11. stage' = stage + 1 => Step.setup
  BY <1>1, <1>2
<1>12. \A s : s = Step => Stands(s)'
  BY <1>1, <1>6 DEF Stands, c
<1>13. Ready'
  <2>1. \A k : k = stage => At(k) = Step
    BY <1>2
  <2>2. \A k : At(k)' = At(k)
    BY <1>1 DEF At
  <2>3. \A k : k = stage => Stands(At(k))'
    BY <1>12, <2>1, <2>2
  <2> QED
    BY <1>1, <1>2, <1>8, <1>10, <2>3, ReadyOn
<1>14. Given'
  <2>1. stage' = stage + 1 => \A b, n, w : ~Gives(Step, b, n, w)
    BY <1>11 DEF Gives, Gifts
  <2>2. \A k \in 1..stage - 1 : \A b, n, w, u : Gives(At(k), b, n, w) /\ Holds(mem, b, n, u) => Holds(mem', b, n, u)
    BY <1>9 DEF Gives
  <2> QED
    BY <1>1, <1>2, <1>10, <2>1, <2>2, GivenOn
<1>15. Remains'
  <2> SUFFICES ASSUME NEW x \in StepsOf(model), StepAt(model, x).memo # <<>>, NEW e \in Gifts(StepAt(model, x)), NEW h,
                      h = StepAt(model, x).memo[1], h \in DOMAIN hosts', hosts'[h].key = StepAt(model, x).memo[2],
                      e[1] \in DOMAIN graphs'
               PROVE  Holds(mem', e[1], e[2], Copy(e)) \/ Redone(h)'
    BY <1>1 DEF Remains
  <2>1. CASE e[1] = c
    <3>1. GiversRedo(model)
      BY <1>2 DEF ListsAgree
    <3>2. SetUp(model, X) \/ (Step.setup /\ Step.anew /\ Redoes(model, <<X[1], X[2] + 1>>, h))
      BY <1>2, <2>1, <3>1 DEF GiversRedo, c
    <3>3. Step.setup /\ Step.anew /\ Redoes(model, <<request, stage + 1>>, h)
      BY <1>4, <3>2 DEF X
    <3> QED
      BY <1>1, <3>3 DEF Redone
  <2>2. CASE e[1] # c
    <3>1. h \in DOMAIN hosts /\ hosts'[h] = hosts[h]
      BY EnsureHosts
    <3>2. e[1] \in DOMAIN graphs /\ e[1] \in DOMAIN mem' /\ mem'[e[1]] = mem[e[1]]
      BY <1>2, <1>6, <2>2
    <3>3. ~Redone(h)
      BY <1>4 DEF Redone, Redoes, X
    <3>4. Holds(mem, e[1], e[2], Copy(e))
      BY <1>2, <3>1, <3>2, <3>3 DEF Remains
    <3> QED
      BY <3>2, <3>4 DEF Holds
  <2> QED
    BY <2>1, <2>2
<1>16. Mine' /\ AllDue'
  <2>1. CASE Step.setup
    BY <1>1, <2>1 DEF Mine, AllDue
  <2>2. CASE ~Step.setup
    <3>1. Step' = Step /\ pc' = "fill"
      BY <1>1, <2>2 DEF Step
    <3>2. \A n \in DOMAIN mem'[c] : mem'[c][n] = {}
      BY <1>6
    <3> QED
      BY <1>6, <1>12, <3>1, <3>2 DEF Mine, AllDue, c
  <2> QED
    BY <2>1, <2>2
<1> QED
  BY <1>1, <1>3, <1>5, <1>13, <1>14, <1>15, <1>16 DEF InputsInv, InCall, Across

(* Compute. *)

\* The gifts of one request go to places of their own.
LEMMA GiftsApart ==
  ASSUME ListsAgree, Control, pc # "idle"
  PROVE  /\ \A e \in Gifts(Step), d \in Gifts(Step) : e[1] = d[1] /\ e[2] = d[2] => Copy(e) = Copy(d) \/ Apart(Copy(e), Copy(d))
         /\ \A e \in Gifts(Step), x \in StepsOf(model) :
              StepAt(model, x).cache = e[1] /\ ~StepAt(model, x).setup => \A l \in Lasting(StepAt(model, x)) : l[1] # e[2]
<1> DEFINE X == <<request, stage>>
<1>1. /\ model \in Loaded /\ request \in DOMAIN Table[model] /\ stage \in DOMAIN Table[model][request]
      /\ X \in StepsOf(model) /\ StepAt(model, X) = Step /\ X[1] = request
  BY TheStep
<1>2. GiftsLand(model)
  BY <1>1 DEF ListsAgree
<1>3. Step = Table[model][X[1]][stage]
  BY <1>1 DEF Step
<1> HIDE DEF X
<1>4. \A e \in Gifts(Step) : \A k \in DOMAIN Table[model][X[1]] :
        \A d \in Gifts(Table[model][X[1]][k]) : d[1] = e[1] /\ d[2] = e[2] => Copy(d) = Copy(e) \/ Apart(Copy(d), Copy(e))
  BY <1>1, <1>2 DEF GiftsLand
<1>5. \A e \in Gifts(Step), x \in StepsOf(model) :
        StepAt(model, x).cache = e[1] /\ ~StepAt(model, x).setup => \A l \in Lasting(StepAt(model, x)) : l[1] # e[2]
  BY <1>1, <1>2 DEF GiftsLand
<1> QED
  BY <1>1, <1>3, <1>4, <1>5

\* The gifts of one call do not disturb each other.
LEMMA GiftsOfACall ==
  ASSUME ListsAgree, Control, pc # "idle", NEW k \in 1..stage - 1, NEW c, NEW n, NEW w, Gives(At(k), c, n, w), NEW d \in Gifts(Step),
         d[1] = c, d[2] = n
  PROVE  Copy(d) = w \/ Apart(w, Copy(d))
<1> DEFINE X == <<request, k>>
<1>1. /\ model \in Loaded /\ request \in DOMAIN Table[model] /\ stage \in DOMAIN Table[model][request]
  BY TheStep
<1>2. X \in StepsOf(model) /\ StepAt(model, X) = At(k) /\ X[1] = request
  BY <1>1, EarlierSteps DEF At
<1>3. GiftsLand(model)
  BY <1>1 DEF ListsAgree
<1>4. d \in Gifts(Table[model][X[1]][stage]) /\ stage \in DOMAIN Table[model][X[1]]
  BY <1>1, <1>2 DEF Step
<1>5. PICK e \in Gifts(At(k)) : e[1] = c /\ e[2] = n /\ w = Copy(e)
  BY DEF Gives
<1> HIDE DEF X
<1>6. Copy(d) = Copy(e) \/ Apart(Copy(d), Copy(e))
  BY <1>2, <1>3, <1>4, <1>5 DEF GiftsLand
<1> QED
  BY <1>5, <1>6, ApartBothWays

\* A later step's given input is not of the graph this step runs.
LEMMA GivenElsewhere ==
  ASSUME ListsAgree, Control, pc # "idle", ~Step.setup,
         NEW i \in DOMAIN Table[model][request], i > stage, ~At(i).setup, NEW g \in At(i).given,
         NEW k \in 1..stage - 1, Gives(At(k), At(i).cache, g[1], g[2])
  PROVE  At(i).cache # Step.cache
<1> DEFINE X == <<request, i>>
           y == <<request, stage>>
           z == <<request, k>>
<1>1. /\ model \in Loaded /\ request \in DOMAIN Table[model] /\ stage \in DOMAIN Table[model][request]
      /\ stage \in Nat /\ stage > 0 /\ StepAt(model, y) = Step
  BY TheStep
<1>2. X \in StepsOf(model) /\ StepAt(model, X) = At(i) /\ i \in Nat
  BY <1>1, AStep DEF At
<1>3. y \in Before(X) /\ z \in Before(X) /\ StepAt(model, z) = At(k) /\ y[2] > z[2]
  <2>1. stage \in 1..i - 1 /\ k \in 1..i - 1 /\ stage > k
    BY <1>1, <1>2
  <2> QED
    BY <1>1, <2>1, EarlierSteps DEF At
<1>4. GivenFirst(model)
  BY <1>1 DEF ListsAgree
<1> HIDE DEF X, y, z
<1> QED
  BY <1>1, <1>2, <1>3, <1>4 DEF GivenFirst

LEMMA ComputeInputs ==
  ASSUME ListsAgree, CallsInv, InputsInv, Compute
  PROVE  InputsInv'
<1> DEFINE X == <<request, stage>>
           c == Step.cache
           m2 == Spent(mem, c, Step.kept)
<1>1. /\ pc = "compute" /\ UNCHANGED <<model, graphs>> /\ hosts' = Joined(Step.learns, hosts)
      /\ mem' = Copied(m2, Step.copies)
      /\ Idle \/ (stage' = stage + 1 /\ pc' = "ensure" /\ request' = request)
  BY DEF Compute
<1>0. /\ DOMAIN hosts' = DOMAIN Step.learns \cup DOMAIN hosts
      /\ \A h \in DOMAIN Step.learns : hosts'[h] = Step.learns[h]
      /\ \A h \in DOMAIN hosts : h \notin DOMAIN Step.learns => hosts'[h] = hosts[h]
  <2> DEFINE f == Step.learns
             g == hosts
  <2>1. hosts' = Joined(f, g)
    BY <1>1
  <2> HIDE DEF f, g
  <2>2. /\ DOMAIN hosts' = DOMAIN f \cup DOMAIN g
        /\ \A h \in DOMAIN f : hosts'[h] = f[h]
        /\ \A h \in DOMAIN g : h \notin DOMAIN f => hosts'[h] = g[h]
    BY <2>1 DEF Joined
  <2> QED
    BY <2>2 DEF f, g
<1>2. /\ Control /\ X \in StepsOf(model) /\ StepAt(model, X) = Step /\ Step = At(stage) /\ model \in Loaded /\ ~Step.setup
      /\ DOMAIN graphs = DOMAIN mem /\ stage \in Nat
  BY <1>1, TheStep DEF CallsInv, Control, Caches
<1>3. /\ Sound(model, graphs, mem) /\ Tabled(model, hosts) /\ Remains /\ Ready /\ Learned /\ Given
      /\ Stands(Step) /\ graphs[c].set = Step.tag /\ \A e \in Step.sends : Holds(mem, e[1], e[2], Copy(e))
  BY <1>1 DEF InputsInv, Across, Mine, InCall
<1>4. Gifts(Step) = Step.sends \cup Step.copies
  BY <1>2 DEF Gifts
<1>5. \A e \in Gifts(Step) : /\ e[1] # c /\ e[1] \in DOMAIN graphs /\ e[1] \in DOMAIN mem /\ e[2] \in DOMAIN mem[e[1]]
                             /\ Laid(model, graphs, e[1], e[2], Copy(e))
  BY <1>1, <1>3, GiftsGraph
<1> HIDE DEF X
<1>6. DOMAIN m2 = DOMAIN mem /\ \A b \in DOMAIN mem : DOMAIN m2[b] = DOMAIN mem[b]
  BY DEF Spent
<1>7. DOMAIN mem' = DOMAIN mem /\ \A b \in DOMAIN mem : DOMAIN mem'[b] = DOMAIN mem[b]
  BY <1>1, <1>6 DEF Copied
<1>8. Sound(model, graphs, mem')
  <2>1. Sound(model, graphs, m2)
    BY <1>2, <1>3, SpentSound DEF Stands
  <2> HIDE DEF m2
  <2>2. /\ \A e \in Step.copies : Laid(model, graphs, e[1], e[2], Copy(e))
        /\ \A e \in Step.copies, f \in Step.copies : e[1] = f[1] /\ e[2] = f[2] => Copy(e) = Copy(f) \/ Apart(Copy(e), Copy(f))
        /\ \A e \in Step.copies, x \in StepsOf(model) :
             StepAt(model, x).cache = e[1] /\ ~StepAt(model, x).setup => \A l \in Lasting(StepAt(model, x)) : l[1] # e[2]
    BY <1>1, <1>2, <1>4, <1>5, GiftsApart
  <2> QED
    BY <1>1, <2>1, <2>2, CopiedSound
\* What the step gives is there.
<1>9. \A e \in Gifts(Step) : Holds(mem', e[1], e[2], Copy(e))
  <2> SUFFICES ASSUME NEW e \in Gifts(Step) PROVE Holds(mem', e[1], e[2], Copy(e))
    OBVIOUS
  <2>1. CASE e \in Step.copies
    BY <1>1, <1>5, <1>6, <2>1, CopiedPuts
  <2>2. CASE e \in Step.sends
    <3>1. Holds(m2, e[1], e[2], Copy(e))
      BY <1>3, <1>5, <2>2, SpentIs
    <3> HIDE DEF m2
    <3>2. \A d \in Step.copies : d[1] = e[1] /\ d[2] = e[2] => Copy(d) = Copy(e) \/ Apart(Copy(e), Copy(d))
      BY <1>1, <1>2, <1>4, GiftsApart
    <3> QED
      BY <1>1, <3>1, <3>2, CopiedKeeps
  <2> QED
    BY <1>4, <2>1, <2>2
<1>10. Tabled(model, hosts')
  <2> SUFFICES ASSUME NEW h \in DOMAIN hosts' PROVE TableOf(model, h, hosts'[h])
    BY DEF Tabled
  <2>1. CASE h \in DOMAIN Step.learns
    <3>1. hosts'[h] = Step.learns[h]
      BY <1>0, <2>1
    <3> QED
      BY <1>2, <2>1, <3>1 DEF TableOf
  <2>2. CASE h \notin DOMAIN Step.learns
    <3>1. h \in DOMAIN hosts /\ hosts'[h] = hosts[h]
      BY <1>0, <2>2
    <3> QED
      BY <1>3, <3>1 DEF Tabled
  <2> QED
    BY <2>1, <2>2
<1>11. Remains'
  <2> SUFFICES ASSUME NEW x \in StepsOf(model), StepAt(model, x).memo # <<>>, NEW e \in Gifts(StepAt(model, x)), NEW h,
                      h = StepAt(model, x).memo[1], h \in DOMAIN hosts', hosts'[h].key = StepAt(model, x).memo[2],
                      e[1] \in DOMAIN graphs
               PROVE  Holds(mem', e[1], e[2], Copy(e))
    BY <1>1 DEF Remains
  <2>0. GiversRedo(model)
    BY <1>2 DEF ListsAgree
  <2>1. CASE h \in DOMAIN Step.learns
    <3>1. hosts'[h] = Step.learns[h]
      BY <1>0, <2>1
    <3>2. e \in Gifts(Step)
      BY <1>2, <2>0, <2>1, <3>1 DEF GiversRedo
    <3> QED
      BY <1>9, <3>2
  <2>2. CASE h \notin DOMAIN Step.learns
    <3>1. h \in DOMAIN hosts /\ hosts'[h] = hosts[h]
      BY <1>0, <2>2
    <3>2. ~Redone(h)
      BY <1>1 DEF Redone
    <3>3. Holds(mem, e[1], e[2], Copy(e))
      BY <1>3, <3>1, <3>2 DEF Remains
    <3>4. e[1] = c => e[2] \in Step.kept
      BY <1>2, <2>0 DEF GiversRedo
    <3>5. Holds(m2, e[1], e[2], Copy(e))
      BY <3>3, <3>4, SpentIs
    <3>6. \A d \in Gifts(Step) : ~(d[1] = e[1] /\ d[2] = e[2])
      BY <1>2, <2>0, <2>2 DEF GiversRedo
    <3> HIDE DEF m2
    <3> QED
      BY <1>1, <1>4, <3>5, <3>6, CopiedKeeps
  <2> QED
    BY <2>1, <2>2
<1>12. Across'
  BY <1>1, <1>8, <1>10, <1>11 DEF Across
<1>13. CASE Idle
  BY <1>12, <1>13, EndsInputs
<1>14. CASE stage' = stage + 1 /\ pc' = "ensure" /\ request' = request
  <2>1. Ready'
    <3>1. \A k \in 1..stage - 1 : At(k).setup /\ Stands(At(k)) => Stands(At(k))'
      BY <1>1, <1>2, <1>7, <1>14 DEF Stands, At
    <3> QED
      BY <1>1, <1>2, <1>3, <1>14, <3>1, ReadyOn
  <2>2. Learned'
    <3>1. ASSUME NEW i \in DOMAIN Table[model][request], NEW h \in DOMAIN At(i).needs
          PROVE  /\ h \in DOMAIN Step.learns => h \in DOMAIN hosts' /\ hosts'[h] = At(i).needs[h]
                 /\ h \in DOMAIN hosts /\ hosts[h] = At(i).needs[h] => h \in DOMAIN hosts' /\ hosts'[h] = At(i).needs[h]
      <4>1. h \in DOMAIN Step.learns => Step.learns[h] = At(i).needs[h]
        BY <1>1, <1>2, LearnsIt
      <4>2. h \in DOMAIN Step.learns => h \in DOMAIN hosts' /\ hosts'[h] = Step.learns[h]
        BY <1>0
      <4>3. h \in DOMAIN hosts /\ h \notin DOMAIN Step.learns => h \in DOMAIN hosts' /\ hosts'[h] = hosts[h]
        BY <1>0
      <4> QED
        BY <4>1, <4>2, <4>3
    <3> QED
      BY <1>1, <1>2, <1>3, <1>14, <3>1, LearnedOn
  <2>3. Given'
    <3>1. ASSUME NEW i \in DOMAIN Table[model][request], NEW k \in 1..stage - 1, i >= stage', ~At(i).setup, NEW g \in At(i).given,
                 Gives(At(k), At(i).cache, g[1], g[2]), Holds(mem, At(i).cache, g[1], g[2])
          PROVE  Holds(mem', At(i).cache, g[1], g[2])
      <4>1. i > stage
        <5>1. i \in Nat
          BY <1>1, <1>2, TheStep, AStep
        <5> QED
          BY <1>2, <1>14, <3>1, <5>1
      <4>2. At(i).cache # c
        BY <1>1, <1>2, <3>1, <4>1, GivenElsewhere
      <4>3. Holds(m2, At(i).cache, g[1], g[2])
        BY <3>1, <4>2, SpentIs
      <4>4. \A d \in Step.copies : d[1] = At(i).cache /\ d[2] = g[1] => Copy(d) = g[2] \/ Apart(g[2], Copy(d))
        BY <1>1, <1>2, <1>4, <3>1, GiftsOfACall
      <4> HIDE DEF m2, c
      <4> QED
        BY <1>1, <4>3, <4>4, CopiedKeeps
    <3>2. ASSUME NEW i \in DOMAIN Table[model][request], NEW g \in At(i).given, Gives(Step, At(i).cache, g[1], g[2])
          PROVE  Holds(mem', At(i).cache, g[1], g[2])
      BY <1>9, <3>2 DEF Gives
    <3> QED
      BY <1>1, <1>2, <1>3, <1>14, <3>1, <3>2, GivenOn
  <2> QED
    BY <1>12, <1>14, <2>1, <2>2, <2>3 DEF InputsInv, InCall, Mine, AllDue
<1> QED
  BY <1>1, <1>13, <1>14

(* SetInputs. *)

\* The inputs of the step's graph, filled from the tables.
FilledMem(tables) ==
  [mem EXCEPT ![Step.cache] =
     [n \in DOMAIN @ |-> IF n \notin DOMAIN Step.fills THEN @[n]
                         ELSE Over(@[n], Written(tables, Stales(Step, n, graphs[Step.cache].set)))]]

\* The tables after the step has made its own and forgotten others.
LEMMA TablesSet ==
  ASSUME ListsAgree, CallsInv, pc # "idle", Tabled(model, hosts), Learned,
         NEW tables, tables = Without(Updated(DOMAIN Step.hosts), Step.forgets)
  PROVE  /\ Tabled(model, tables)
         /\ \A h \in DOMAIN Step.hosts \ Step.forgets : h \in DOMAIN tables /\ tables[h] = Step.hosts[h]
         /\ \A i \in DOMAIN Table[model][request] : \A h \in DOMAIN At(i).needs :
              h \in DOMAIN hosts => h \in DOMAIN tables /\ tables[h] = hosts[h]
         /\ \A h \in DOMAIN tables : h \notin Step.forgets /\ (h \notin DOMAIN Step.hosts => h \in DOMAIN hosts /\ tables[h] = hosts[h])
<1> DEFINE X == <<request, stage>>
           u == Updated(DOMAIN Step.hosts)
<1>1. Control /\ model \in Loaded /\ X \in StepsOf(model) /\ StepAt(model, X) = Step
  BY TheStep DEF CallsInv
<1> HIDE DEF X
<1>2. Tabled(model, u)
  BY <1>1, UpdatedTabled
<1>3. /\ DOMAIN u = DOMAIN hosts \cup DOMAIN Step.hosts
      /\ \A h \in DOMAIN Step.hosts : u[h] = Step.hosts[h]
      /\ \A h \in DOMAIN hosts \ DOMAIN Step.hosts : u[h] = hosts[h]
  BY <1>1, UpdatedIs
<1>4. \A i \in DOMAIN Table[model][request] : \A h \in DOMAIN At(i).needs :
        h \in DOMAIN hosts => h \in DOMAIN u /\ u[h] = hosts[h] /\ h \notin Step.forgets
  BY <1>1, NeedsStay, LearnsIt
<1> HIDE DEF u
<1>5. DOMAIN tables = DOMAIN u \ Step.forgets /\ \A h \in DOMAIN tables : tables[h] = u[h]
  BY DEF Without, u
<1>6. Tabled(model, tables)
  BY <1>2, <1>5, FewerTabled
<1> QED
  BY <1>3, <1>4, <1>5, <1>6

\* Every fill is given, or made from the tables it is to be made from.
LEMMA FillsAtHand ==
  ASSUME ListsAgree, CallsInv, pc # "idle", ~Step.setup, Tabled(model, hosts), Learned, Given,
         NEW tables, tables = Without(Updated(DOMAIN Step.hosts), Step.forgets),
         NEW n \in DOMAIN Step.fills, NEW w \in Step.fills[n]
  PROVE  IF <<n, w>> \in Step.given THEN Holds(mem, Step.cache, n, w) /\ Put(Joined(Step.needs, Step.hosts), w) = w
         ELSE Put(tables, w) = Put(Joined(Step.needs, Step.hosts), w)
<1> DEFINE X == <<request, stage>>
<1>1. /\ Control /\ model \in Loaded /\ X \in StepsOf(model) /\ StepAt(model, X) = Step /\ Step = At(stage)
      /\ request \in DOMAIN Table[model] /\ stage \in DOMAIN Table[model][request] /\ stage \in Nat
  BY TheStep DEF CallsInv
<1>2. \A z \in Before(X) : z[2] \in 1..stage - 1 /\ StepAt(model, z) = At(z[2])
  BY <1>1, AnEarlierStep DEF At
<1> HIDE DEF X
<1>3. CASE <<n, w>> \in Step.given
  <2> DEFINE g == <<n, w>>
  <2>1. GivenFirst(model)
    BY <1>1 DEF ListsAgree
  <2>2. g \in Step.given /\ g[1] = n /\ g[2] = w
    BY <1>3
  <2> HIDE DEF g
  <2>3. g[2][3][1] # "host" /\ \E z \in Before(X) : Gives(StepAt(model, z), Step.cache, g[1], g[2])
    BY <1>1, <2>1, <2>2 DEF GivenFirst
  <2>4. PICK z \in Before(X) : Gives(StepAt(model, z), Step.cache, g[1], g[2])
    BY <2>3
  <2>5. z[2] \in 1..stage - 1 /\ Gives(At(z[2]), At(stage).cache, g[1], g[2]) /\ stage >= stage /\ ~At(stage).setup /\ g \in At(stage).given
    BY <1>1, <1>2, <2>2, <2>4
  <2>6. Holds(mem, At(stage).cache, g[1], g[2])
    BY <1>1, <2>5 DEF Given
  <2>7. Put(Joined(Step.needs, Step.hosts), w) = w
    BY <2>2, <2>3 DEF Put
  <2> QED
    BY <1>1, <1>3, <2>2, <2>6, <2>7
<1>4. CASE <<n, w>> \notin Step.given /\ w[3][1] = "host"
  <2> DEFINE h == w[3][2]
  <2>1. HostsAtHand(model)
    BY <1>1 DEF ListsAgree
  <2>2. h \in DOMAIN Step.needs \cup (DOMAIN Step.hosts \ Step.forgets)
    BY <1>1, <1>4, <2>1 DEF HostsAtHand
  <2> HIDE DEF h
  <2>3. CASE h \in DOMAIN Step.needs
    <3>1. PICK z \in Before(X) : ~StepAt(model, z).setup /\ h \in DOMAIN StepAt(model, z).learns
      BY <1>1, <2>1, <2>3 DEF HostsAtHand
    <3>2. z[2] \in 1..stage - 1 /\ ~At(z[2]).setup /\ h \in DOMAIN At(stage).needs \cap DOMAIN At(z[2]).learns /\ stage >= stage
      BY <1>1, <1>2, <2>3, <3>1
    <3>3. h \in DOMAIN hosts /\ hosts[h] = At(stage).needs[h]
      BY <1>1, <3>2 DEF Learned
    <3>4. tables[h] = hosts[h]
      BY <1>1, <3>2, <3>3, TablesSet
    <3>5. Joined(Step.needs, Step.hosts)[h] = Step.needs[h]
      BY <2>3 DEF Joined
    <3>6. tables[h] = Joined(Step.needs, Step.hosts)[h]
      BY <1>1, <3>3, <3>4, <3>5
    <3> QED
      BY <1>4, <3>6 DEF Put, h
  <2>4. CASE h \notin DOMAIN Step.needs
    <3>1. h \in DOMAIN Step.hosts \ Step.forgets
      BY <2>2, <2>4
    <3>2. tables[h] = Step.hosts[h]
      BY <3>1, TablesSet
    <3>3. Joined(Step.needs, Step.hosts)[h] = Step.hosts[h]
      BY <2>4, <3>1 DEF Joined
    <3> QED
      BY <1>4, <3>2, <3>3 DEF Put, h
  <2> QED
    BY <2>3, <2>4
<1>5. CASE <<n, w>> \notin Step.given /\ w[3][1] # "host"
  BY <1>5 DEF Put
<1> QED
  BY <1>3, <1>4, <1>5

\* The graph's inputs are what they are to be, those of other graphs what they were.
LEMMA FilledIs ==
  ASSUME ListsAgree, CallsInv, InputsInv, pc = "fill", NEW tables, tables = Without(Updated(DOMAIN Step.hosts), Step.forgets)
  PROVE  /\ DOMAIN FilledMem(tables) = DOMAIN mem /\ DOMAIN FilledMem(tables)[Step.cache] = DOMAIN mem[Step.cache]
         /\ \A b \in DOMAIN mem : b # Step.cache => FilledMem(tables)[b] = mem[b]
         /\ DOMAIN Step.fills = DOMAIN Step.ins /\ DOMAIN mem[Step.cache] = DOMAIN Step.ins /\ Step.cache \in DOMAIN mem
         /\ \A n \in DOMAIN Step.fills :
              /\ FilledMem(tables)[Step.cache][n] = Over(mem[Step.cache][n], Written(tables, Stales(Step, n, graphs[Step.cache].set)))
              /\ FilledMem(tables)[Step.cache][n] = Due(Step, n)
<1> DEFINE X == <<request, stage>>
           c == Step.cache
<1>1. /\ Control /\ model \in Loaded /\ X \in StepsOf(model) /\ StepAt(model, X) = Step /\ ~Step.setup
      /\ DOMAIN graphs = DOMAIN mem
  BY TheStep DEF CallsInv, Control, Caches
<1>2. /\ Sound(model, graphs, mem) /\ Tabled(model, hosts) /\ Learned /\ Given /\ Stands(Step)
      /\ Step.scratch => graphs[c].set = Unset /\ \A n \in DOMAIN mem[c] : mem[c][n] = {}
  BY DEF InputsInv, Across, InCall, Mine
<1>3. OneLayout(model) /\ ConstsAgree(model)
  BY <1>1 DEF ListsAgree
<1> HIDE DEF X
<1>4. DOMAIN Step.fills = DOMAIN Step.ins
  BY <1>1, <1>2, <1>3 DEF OneLayout, Stands
<1>5. Step.tag # Unset
  BY <1>1, <1>3 DEF ConstsAgree
<1>6. c \in DOMAIN mem /\ DOMAIN mem[c] = DOMAIN Step.ins /\ c \in DOMAIN graphs /\ graphs[c].key = Step.key /\ Step.pre
  BY <1>1, <1>2 DEF Stands
<1>7. /\ DOMAIN FilledMem(tables) = DOMAIN mem /\ DOMAIN FilledMem(tables)[c] = DOMAIN mem[c]
      /\ \A b \in DOMAIN mem : b # c => FilledMem(tables)[b] = mem[b]
      /\ \A n \in DOMAIN Step.fills : FilledMem(tables)[c][n] = Over(mem[c][n], Written(tables, Stales(Step, n, graphs[c].set)))
  BY <1>4, <1>6 DEF FilledMem
<1>8. ASSUME NEW n \in DOMAIN Step.fills
      PROVE  Over(mem[c][n], Written(tables, Stales(Step, n, graphs[c].set))) = Due(Step, n)
  <2>1. n \in DOMAIN mem[c]
    BY <1>4, <1>6
  <2>2. Step.scratch => mem[c][n] = {} /\ graphs[c].set # Step.tag
    BY <1>2, <1>5, <2>1
  <2>3. \A w \in Step.fills[n] :
          IF <<n, w>> \in Step.given THEN Holds(mem, c, n, w) /\ Put(Joined(Step.needs, Step.hosts), w) = w
          ELSE Put(tables, w) = Put(Joined(Step.needs, Step.hosts), w)
    BY <1>1, <1>2, FillsAtHand
  <2> DEFINE s == Step
  <2>4. s = StepAt(model, X) /\ ~s.setup /\ s.pre
    BY <1>1, <1>6
  <2> QED
    BY <1>1, <1>2, <1>6, <2>1, <2>2, <2>3, <2>4, FillIsDue
<1> QED
  BY <1>4, <1>6, <1>7, <1>8

\* What is written is laid out, and lasts under the tag it is written for.
LEMMA FilledSound ==
  ASSUME ListsAgree, CallsInv, InputsInv, pc = "fill", Step.post,
         NEW tables, tables = Without(Updated(DOMAIN Step.hosts), Step.forgets),
         NEW g2, g2 = [graphs EXCEPT ![Step.cache].set = Step.tag]
  PROVE  /\ Sound(model, g2, FilledMem(tables)) /\ DOMAIN g2 = DOMAIN graphs
         /\ \A b \in DOMAIN graphs : g2[b].key = graphs[b].key
         /\ g2[Step.cache].set = Step.tag
<1> DEFINE X == <<request, stage>>
           c == Step.cache
           m1 == FilledMem(tables)
<1>1. /\ Control /\ model \in Loaded /\ X \in StepsOf(model) /\ StepAt(model, X) = Step /\ ~Step.setup
      /\ DOMAIN graphs = DOMAIN mem /\ \A b \in DOMAIN graphs : OfAStep(b)
  BY TheStep DEF CallsInv, Control, Caches
<1>2. Sound(model, graphs, mem) /\ Stands(Step)
  BY DEF InputsInv, Across, Mine
<1>3. OneLayout(model) /\ ConstsAgree(model)
  BY <1>1 DEF ListsAgree
<1> HIDE DEF X
<1>4. /\ DOMAIN m1 = DOMAIN mem /\ DOMAIN m1[c] = DOMAIN mem[c]
      /\ \A b \in DOMAIN mem : b # c => m1[b] = mem[b]
      /\ DOMAIN Step.fills = DOMAIN Step.ins /\ DOMAIN mem[c] = DOMAIN Step.ins /\ c \in DOMAIN mem
      /\ \A n \in DOMAIN Step.fills : /\ m1[c][n] = Over(mem[c][n], Written(tables, Stales(Step, n, graphs[c].set)))
                                      /\ m1[c][n] = Due(Step, n)
  BY FilledIs
<1> HIDE DEF m1
<1>5. /\ DOMAIN g2 = DOMAIN graphs /\ \A b \in DOMAIN graphs : b # c => g2[b] = graphs[b]
      /\ g2[c].set = Step.tag /\ g2[c].key = graphs[c].key
  <2>0. OfAStep(c)
    BY <1>1, <1>4
  <2>1. \E key, graph, set : graphs[c] = [key |-> key, graph |-> graph, set |-> set]
    BY <2>0 DEF OfAStep
  <2>2. DOMAIN g2 = DOMAIN graphs /\ \A b \in DOMAIN graphs : b # c => g2[b] = graphs[b]
    OBVIOUS
  <2>3. g2[c] = [graphs[c] EXCEPT !.set = Step.tag]
    BY <1>1, <1>4
  <2>4. ASSUME NEW key, NEW graph, NEW set, graphs[c] = [key |-> key, graph |-> graph, set |-> set]
        PROVE  g2[c].set = Step.tag /\ g2[c].key = graphs[c].key
    <3>1. g2[c] = [key |-> key, graph |-> graph, set |-> Step.tag]
      BY <2>3, <2>4
    <3> QED
      BY <2>4, <3>1
  <2> QED
    BY <2>1, <2>2, <2>4
<1>6. \A b \in DOMAIN graphs : g2[b].key = graphs[b].key
  BY <1>5
<1>7. g2[c].key = Step.key /\ Step.pre
  BY <1>2, <1>5 DEF Stands
<1> DEFINE W == [n \in DOMAIN Step.fills |-> Written(tables, Stales(Step, n, graphs[c].set))]
<1>8. ASSUME NEW n \in DOMAIN Step.fills
      PROVE  W[n] = Written(tables, Stales(Step, n, graphs[c].set)) /\ ApartIn(W[n]) /\ \A v \in W[n] : Laid(model, g2, c, n, v)
  <2>1. W[n] = Written(tables, Stales(Step, n, graphs[c].set))
    OBVIOUS
  <2>2. \A w \in Step.fills[n], v \in Step.fills[n] : w = v \/ Apart(w, v)
    BY <1>1, <1>3, <1>7 DEF OneLayout
  <2>3. \A v \in W[n] : \E w \in Step.fills[n] : v = Put(tables, w)
    BY <2>1 DEF Written, Stales
  <2> HIDE DEF W
  <2>4. ASSUME NEW u \in W[n], NEW v \in W[n] PROVE u = v \/ Apart(u, v)
    <3>1. PICK p \in Step.fills[n] : u = Put(tables, p)
      BY <2>3
    <3>2. PICK q \in Step.fills[n] : v = Put(tables, q)
      BY <2>3
    <3>3. p = q \/ Apart(p, q)
      BY <2>2
    <3>4. SamePlace(p, u) /\ SamePlace(q, v)
      BY <3>1, <3>2, PutInPlace
    <3>5. (Apart(p, q) <=> Apart(u, q)) /\ (Apart(u, q) <=> Apart(u, v))
      BY <3>4, ApartByPlace
    <3> QED
      BY <3>1, <3>2, <3>3, <3>5
  <2>5. ASSUME NEW v \in W[n] PROVE Laid(model, g2, c, n, v)
    <3>1. PICK p \in Step.fills[n] : v = Put(tables, p)
      BY <2>3
    <3>2. SamePlace(v, p)
      BY <3>1, PutInPlace
    <3>3. LaidBy(Step, g2, c, n, v)
      BY <1>7, <3>2 DEF LaidBy
    <3> QED
      BY <1>1, <3>3 DEF Laid
  <2> QED
    BY <2>1, <2>4, <2>5 DEF ApartIn
<1> HIDE DEF W
<1>9. LaidOut(model, g2, mem) /\ NoOverlap(mem)
  <2>1. \A b, n, v : Holds(mem, b, n, v) => Holds(mem, b, n, v) /\ g2[b].key = graphs[b].key
    BY <1>1, <1>6 DEF Holds
  <2> QED
    BY <1>2, <2>1, FewerWrites DEF Sound
<1>10. \A b \in DOMAIN mem : \A n \in DOMAIN mem[b] :
         m1[b][n] = mem[b][n] \/ Adds(model, g2, b, n, mem[b][n], m1[b][n])
  BY <1>4, <1>8 DEF Adds
<1>11. \A b \in DOMAIN mem : DOMAIN m1[b] = DOMAIN mem[b]
  BY <1>4
<1>12. LaidOut(model, g2, m1) /\ NoOverlap(m1)
  BY <1>4, <1>9, <1>10, <1>11, AddedLaid
<1>13. Lasts(model, g2, m1)
  <2> SUFFICES ASSUME NEW b \in DOMAIN g2, NEW x \in StepsOf(model),
                      StepAt(model, x).cache = b, StepAt(model, x).key = g2[b].key, StepAt(model, x).tag = g2[b].set,
                      ~StepAt(model, x).setup, ~StepAt(model, x).scratch,
                      NEW l \in Lasting(StepAt(model, x))
               PROVE  Holds(m1, b, l[1], l[2])
    BY DEF Lasts
  <2>1. CASE b # c
    <3>1. g2[b] = graphs[b] /\ b \in DOMAIN graphs
      BY <1>5, <2>1
    <3>2. Holds(mem, b, l[1], l[2])
      BY <1>2, <3>1 DEF Sound, Lasts
    <3> QED
      BY <1>4, <2>1, <3>2 DEF Holds
  <2>2. CASE b = c
    <3>1. /\ StepAt(model, x).cache = Step.cache /\ StepAt(model, x).key = Step.key /\ StepAt(model, x).tag = Step.tag
      BY <1>5, <1>7, <2>2
    <3>2. l \in Lasting(Step)
      BY <1>1, <1>3, <3>1 DEF ConstsAgree
    <3>3. PICK n \in DOMAIN Step.fills : l \in {<<n, Put(Joined(Step.needs, Step.hosts), w)>> : w \in Keeps(Step, n)}
      BY <3>2 DEF Lasting
    <3>4. PICK w \in Keeps(Step, n) : l = <<n, Put(Joined(Step.needs, Step.hosts), w)>>
      BY <3>3
    <3>5. w \in Step.fills[n]
      BY <3>4 DEF Keeps
    <3>6. Put(Joined(Step.needs, Step.hosts), w) \in Due(Step, n)
      BY <3>5 DEF Due, Written
    <3>7. l[1] = n /\ l[2] \in m1[c][n]
      BY <1>4, <3>4, <3>6
    <3> QED
      BY <1>4, <2>2, <3>7 DEF Holds
  <2> QED
    BY <2>1, <2>2
<1> QED
  BY <1>5, <1>6, <1>12, <1>13 DEF Sound, m1

LEMMA SetInputsInputs ==
  ASSUME ListsAgree, CallsInv, InputsInv, SetInputs
  PROVE  InputsInv'
<1> DEFINE X == <<request, stage>>
           c == Step.cache
<1>1. /\ pc = "fill" /\ Step.post /\ pc' = "compute" /\ UNCHANGED <<model, request, stage, fresh>>
      /\ hosts' = Without(Updated(DOMAIN Step.hosts), Step.forgets)
      /\ mem' = Copied(FilledMem(hosts'), Step.sends)
      /\ graphs' = [graphs EXCEPT ![c].set = Step.tag]
  BY DEF SetInputs, FilledMem, Stales, Stale
<1>2. PICK tables : tables = hosts'
  OBVIOUS
<1>3. PICK g2 : g2 = graphs'
  OBVIOUS
<1> DEFINE m1 == FilledMem(tables)
<1>4. /\ Control /\ X \in StepsOf(model) /\ StepAt(model, X) = Step /\ Step = At(stage) /\ model \in Loaded /\ ~Step.setup
      /\ DOMAIN graphs = DOMAIN mem /\ stage \in Nat
  BY <1>1, TheStep DEF CallsInv, Control, Caches
<1>5. /\ Sound(model, graphs, mem) /\ Tabled(model, hosts) /\ Remains /\ Ready /\ Learned /\ Given /\ Stands(Step)
  BY <1>1 DEF InputsInv, Across, Mine, InCall
<1>6. mem' = Copied(m1, Step.sends) /\ tables = Without(Updated(DOMAIN Step.hosts), Step.forgets)
      /\ g2 = [graphs EXCEPT ![c].set = Step.tag]
  BY <1>1, <1>2, <1>3
<1>7. /\ DOMAIN m1 = DOMAIN mem /\ DOMAIN m1[c] = DOMAIN mem[c]
      /\ \A b \in DOMAIN mem : b # c => m1[b] = mem[b]
      /\ DOMAIN Step.fills = DOMAIN Step.ins /\ DOMAIN mem[c] = DOMAIN Step.ins /\ c \in DOMAIN mem
      /\ \A n \in DOMAIN Step.fills : /\ m1[c][n] = Over(mem[c][n], Written(tables, Stales(Step, n, graphs[c].set)))
                                      /\ m1[c][n] = Due(Step, n)
  BY <1>1, <1>6, FilledIs
<1>8. /\ Sound(model, g2, m1) /\ DOMAIN g2 = DOMAIN graphs
      /\ \A b \in DOMAIN graphs : g2[b].key = graphs[b].key
      /\ g2[c].set = Step.tag
  BY <1>1, <1>6, FilledSound
<1> HIDE DEF X, m1
<1>9. Step.sends \subseteq Gifts(Step)
  BY <1>4 DEF Gifts
<1>10. \A e \in Step.sends : /\ e[1] # c /\ e[1] \in DOMAIN graphs /\ e[1] \in DOMAIN mem /\ e[2] \in DOMAIN mem[e[1]]
                             /\ Laid(model, graphs, e[1], e[2], Copy(e))
  BY <1>1, <1>5, <1>9, GiftsGraph
<1>11. DOMAIN mem' = DOMAIN mem /\ \A b \in DOMAIN mem : DOMAIN mem'[b] = DOMAIN mem[b]
  BY <1>6, <1>7 DEF Copied
<1>12. Sound(model, g2, mem')
  <2>1. \A e \in Step.sends : Laid(model, g2, e[1], e[2], Copy(e))
    BY <1>8, <1>10, LaidByKey
  <2>2. /\ \A e \in Step.sends, f \in Step.sends : e[1] = f[1] /\ e[2] = f[2] => Copy(e) = Copy(f) \/ Apart(Copy(e), Copy(f))
        /\ \A e \in Step.sends, x \in StepsOf(model) :
             StepAt(model, x).cache = e[1] /\ ~StepAt(model, x).setup => \A l \in Lasting(StepAt(model, x)) : l[1] # e[2]
    BY <1>1, <1>4, <1>9, GiftsApart
  <2> QED
    BY <1>6, <1>8, <2>1, <2>2, CopiedSound
<1>13. \A e \in Step.sends : Holds(mem', e[1], e[2], Copy(e))
  BY <1>6, <1>7, <1>10, CopiedPuts
<1>14. /\ Tabled(model, tables)
       /\ \A i \in DOMAIN Table[model][request] : \A h \in DOMAIN At(i).needs :
            h \in DOMAIN hosts => h \in DOMAIN tables /\ tables[h] = hosts[h]
       /\ \A h \in DOMAIN tables : h \notin Step.forgets /\ (h \notin DOMAIN Step.hosts => h \in DOMAIN hosts /\ tables[h] = hosts[h])
  BY <1>1, <1>5, <1>6, TablesSet
<1>15. \A n \in DOMAIN mem[c] : mem'[c][n] = Due(Step, n)
  <2> SUFFICES ASSUME NEW n \in DOMAIN mem[c] PROVE mem'[c][n] = Due(Step, n)
    OBVIOUS
  <2>1. mem'[c][n] = Over(m1[c][n], GiftsTo(Step.sends, c, n))
    BY <1>6, <1>7, CopiedIs
  <2>2. GiftsTo(Step.sends, c, n) = {}
    BY <1>10 DEF GiftsTo
  <2>3. mem'[c][n] = m1[c][n]
    BY <2>1, <2>2 DEF Over
  <2> QED
    BY <1>7, <2>3
<1>16. Remains'
  <2> SUFFICES ASSUME NEW x \in StepsOf(model), StepAt(model, x).memo # <<>>, NEW e \in Gifts(StepAt(model, x)), NEW h,
                      h = StepAt(model, x).memo[1], h \in DOMAIN tables, tables[h].key = StepAt(model, x).memo[2],
                      e[1] \in DOMAIN graphs
               PROVE  Holds(mem', e[1], e[2], Copy(e))
    BY <1>1, <1>2, <1>3, <1>8 DEF Remains
  <2>0. GiversRedo(model)
    BY <1>4 DEF ListsAgree
  <2>1. h \notin DOMAIN Step.hosts
    BY <1>4, NoTable
  <2>2. h \in DOMAIN hosts /\ tables[h] = hosts[h] /\ h \notin Step.forgets
    BY <1>14, <2>1
  <2>3. ~Redone(h)
    BY <1>4, <2>2 DEF Redone, Redoes, X
  <2>4. Holds(mem, e[1], e[2], Copy(e))
    BY <1>5, <2>2, <2>3 DEF Remains
  <2>5. Holds(m1, e[1], e[2], Copy(e))
    <3>1. CASE e[1] # c
      BY <1>7, <2>4, <3>1 DEF Holds
    <3>2. CASE e[1] = c
      <4>1. e[2] \in DOMAIN mem[c]
        BY <2>4, <3>2 DEF Holds
      <4>2. \A w \in Step.fills[e[2]] : <<e[2], w>> \in Step.given
        BY <1>4, <2>0, <3>2 DEF GiversRedo
      <4>3. Stales(Step, e[2], graphs[c].set) = {}
        BY <4>2 DEF Stales
      <4>4. m1[c][e[2]] = Over(mem[c][e[2]], {})
        BY <1>7, <4>1, <4>3 DEF Written
      <4>5. m1[c][e[2]] = mem[c][e[2]]
        BY <4>4 DEF Over
      <4> QED
        BY <1>7, <2>4, <3>2, <4>5 DEF Holds
    <3> QED
      BY <3>1, <3>2
  <2>6. \A d \in Gifts(Step) : ~(d[1] = e[1] /\ d[2] = e[2])
    BY <1>4, <2>0, <2>2 DEF GiversRedo
  <2> QED
    BY <1>6, <1>9, <2>5, <2>6, CopiedKeeps
<1>17. Across'
  BY <1>1, <1>2, <1>3, <1>12, <1>14, <1>16 DEF Across
<1>18. \A s : Stands(s) => Stands(s)'
  BY <1>3, <1>4, <1>8, <1>11 DEF Stands
<1>19. Ready'
  BY <1>1, <1>4, <1>5, <1>18, ReadyOn DEF At
<1>20. Learned'
  BY <1>1, <1>2, <1>4, <1>5, <1>14, LearnedOn
<1>21. Given'
  <2>1. ASSUME NEW i \in DOMAIN Table[model][request], NEW k \in 1..stage - 1, i >= stage', ~At(i).setup, NEW g \in At(i).given,
               Gives(At(k), At(i).cache, g[1], g[2]), Holds(mem, At(i).cache, g[1], g[2])
        PROVE  Holds(mem', At(i).cache, g[1], g[2])
    <3>0. i \in Nat
      BY <1>1, <1>4, TheStep, AStep
    <3>1. CASE i > stage
      <4>1. At(i).cache # c
        BY <1>1, <1>4, <2>1, <3>1, GivenElsewhere
      <4>2. Holds(m1, At(i).cache, g[1], g[2])
        BY <1>7, <2>1, <4>1 DEF Holds
      <4>3. \A d \in Step.sends : d[1] = At(i).cache /\ d[2] = g[1] => Copy(d) = g[2] \/ Apart(g[2], Copy(d))
        BY <1>1, <1>4, <1>9, <2>1, GiftsOfACall
      <4> HIDE DEF c
      <4> QED
        BY <1>6, <4>2, <4>3, CopiedKeeps
    <3>2. CASE i = stage
      <4>1. GivenFirst(model)
        BY <1>4 DEF ListsAgree
      <4>2. g \in Step.given
        BY <1>4, <2>1, <3>2
      <4>3. g[1] \in DOMAIN Step.fills /\ g[2] \in Step.fills[g[1]] /\ g[2][3][1] # "host"
        BY <1>4, <4>1, <4>2 DEF GivenFirst
      <4>4. Put(Joined(Step.needs, Step.hosts), g[2]) = g[2]
        BY <4>3 DEF Put
      <4>5. g[2] \in Due(Step, g[1])
        BY <4>3, <4>4 DEF Due, Written
      <4>6. Holds(mem', c, g[1], g[2])
        BY <1>7, <1>11, <1>15, <4>3, <4>5 DEF Holds
      <4> QED
        BY <1>4, <3>2, <4>6
    <3> QED
      BY <1>1, <1>4, <2>1, <3>0, <3>1, <3>2
  <2> QED
    BY <1>1, <1>4, <1>5, <2>1, GivenOn
<1>22. Step' = Step
  BY <1>1 DEF Step
<1>23. Mine'
  BY <1>1, <1>3, <1>5, <1>8, <1>13, <1>18, <1>22 DEF Mine
<1>24. AllDue'
  BY <1>7, <1>15, <1>22 DEF AllDue
<1> QED
  BY <1>17, <1>19, <1>20, <1>21, <1>23, <1>24 DEF InputsInv, InCall

(* Every step. *)

LEMMA StepInputs ==
  ASSUME KeysDecide, ListsAgree, CallsInv, InputsInv, [Next]_vars
  PROVE  InputsInv'
<1>1. CASE UNCHANGED vars
  <2>1. UNCHANGED <<model, request, stage, pc, graphs, mem, hosts, fresh>>
    BY <1>1 DEF vars
  <2>2. Step' = Step /\ \A i : At(i)' = At(i)
    BY <2>1 DEF Step, At
  <2>3. Across'
    BY <2>1 DEF InputsInv, Across, Remains, Redone
  <2>4. InCall'
    BY <2>1, <2>2 DEF InputsInv, InCall, Ready, Learned, Given, Stands
  <2>5. Mine' /\ AllDue'
    BY <2>1, <2>2 DEF InputsInv, Mine, AllDue, Stands
  <2> QED
    BY <2>3, <2>4, <2>5 DEF InputsInv
<1>2. CASE Ensure
  BY <1>2, EnsureHits, EnsurePlaces
<1>3. CASE Next /\ ~Ensure
  BY <1>3, CallInputs, SkipInputs, RefusedInputs, EnsureFailsInputs, RefuseViewsInputs, SetInputsInputs,
     ComputeInputs, ComputeFailsInputs DEF Next
<1> QED
  BY <1>1, <1>2, <1>3

LEMMA FirstInputs == Init => InputsInv
<1> SUFFICES ASSUME Init PROVE InputsInv
  OBVIOUS
<1>1. pc = "idle" /\ graphs = <<>> /\ mem = <<>> /\ hosts = <<>>
  BY DEF Init
<1>2. DOMAIN graphs = {} /\ DOMAIN mem = {} /\ DOMAIN hosts = {}
  <2>1. DOMAIN <<>> = {}
    OBVIOUS
  <2> QED
    BY <1>1, <2>1
<1>3. Across
  BY <1>2 DEF Across, Sound, LaidOut, NoOverlap, Lasts, Tabled, Remains
<1> QED
  BY <1>1, <1>3 DEF InputsInv, InCall, Mine, AllDue

LEMMA InputsAreDue ==
  ASSUME ListsAgree, CallsInv, InputsInv
  PROVE  InputsAreThisCalls
<1> SUFFICES ASSUME pc = "compute", NEW n \in DOMAIN Step.ins
             PROVE  mem[Step.cache][n] = Due(Step, n) /\ Exactly(mem[Step.cache][n], Elems(Step.ins[n]))
  BY DEF InputsAreThisCalls
<1> DEFINE X == <<request, stage>>
<1>1. model \in Loaded /\ X \in StepsOf(model) /\ StepAt(model, X) = Step /\ ~Step.setup
  BY TheStep DEF CallsInv, Control
<1>2. mem[Step.cache][n] = Due(Step, n) /\ Step.pre /\ Step.post
  BY DEF InputsInv, AllDue, Mine, Stands
<1>3. OneLayout(model)
  BY <1>1 DEF ListsAgree
<1> HIDE DEF X
<1>4. Exactly(Due(Step, n), Elems(Step.ins[n]))
  BY <1>1, <1>2, <1>3 DEF OneLayout
<1> QED
  BY <1>2, <1>4

(* Where the keys decide and the lists agree, a graph that is computed     *)
(* reads what this request put into its inputs, every element once: no     *)
(* constant of another prompt's, no gift of an earlier call's encoder, no  *)
(* host table another request made, no half-written view, whatever was     *)
(* asked before and wherever that ended.                                   *)
THEOREM InputsOfThisCall == KeysDecide /\ ListsAgree /\ Spec => []InputsAreThisCalls
<1> SUFFICES ASSUME KeysDecide, ListsAgree PROVE Spec => []InputsAreThisCalls
  OBVIOUS
<1>1. Init => InputsInv
  BY FirstInputs
<1>2. CallsInv /\ InputsInv /\ [Next]_vars => InputsInv'
  BY StepInputs
<1>3. CallsInv /\ InputsInv => InputsAreThisCalls
  BY InputsAreDue
<1> QED
  BY <1>1, <1>2, <1>3, Invariance, PTL DEF Spec

---------------------------------------------------------------------------
(* The index arithmetic of the towers.  TLC evaluates each of the four      *)
(* theorems on small grids, prompts and tables (MCArchCalls.tla).           *)

\* A quotient is the floor.
LEMMA Quotient ==
  ASSUME NEW a \in Int, NEW d \in Int, d > 0
  PROVE  a \div d \in Int /\ d * (a \div d) <= a /\ a < d * (a \div d) + d
BY SMT

\* There is one quotient and one remainder.
LEMMA DivIs ==
  ASSUME NEW a \in Int, NEW d \in Int, d > 0, NEW q \in Int, NEW r \in 0..d-1, a = d * q + r
  PROVE  a \div d = q /\ a % d = r
<1>1. a \div d = q
  BY SMT
<1>2. a % d = r
  BY SMT
<1> QED
  BY <1>1, <1>2

\* A positive factor of both sides can be left out.
LEMMA Cancelled ==
  ASSUME NEW d \in Int, d > 0, NEW x \in Int, NEW y \in Int, d * x < d * y
  PROVE  x < y
<1>1. ASSUME y <= x PROVE FALSE
  <2>1. d * (x - y) >= 0
    BY <1>1, Z3
  <2> QED
    BY <2>1, Z3
<1> QED
  BY <1>1

\* A number below d n is in one of n buckets of d.
LEMMA Bucket ==
  ASSUME NEW a \in Nat, NEW d \in Int, d > 0, NEW n \in Int, a < d * n
  PROVE  a \div d \in 0..n - 1
<1> DEFINE q == a \div d
<1>1. q \in Int /\ d * q <= a /\ a < d * q + d
  BY Quotient
<1> HIDE DEF q
<1>2. d * q < d * n
  BY <1>1, Z3
<1>3. q < n
  BY <1>1, <1>2, Cancelled
<1>4. d * (-1) < d * q
  BY <1>1, Z3
<1>5. -1 < q
  BY <1>1, <1>4, Cancelled
<1> QED
  BY <1>1, <1>3, <1>5 DEF q

\* A number is its quotient's multiple and its remainder.
LEMMA Remainder ==
  ASSUME NEW a \in Int, NEW d \in Int, d > 0
  PROVE  a % d \in 0..d-1 /\ a = d * (a \div d) + (a % d)
<1> DEFINE q == a \div d
           r == a - d * q
<1>1. q \in Int /\ d * q <= a /\ a < d * q + d
  BY Quotient
<1>2. r \in 0..d-1 /\ a = d * q + r
  <2> HIDE DEF q
  <2> QED
    BY <1>1, Z3
<1>3. a % d = r
  <2> HIDE DEF q, r
  <2> QED
    BY <1>1, <1>2, DivIs
<1> QED
  BY <1>2, <1>3

\* Row q and column r of n rows of m.
LEMMA Place ==
  ASSUME NEW m \in Int, m > 0, NEW n \in Int, NEW q \in 0..n - 1, NEW r \in 0..m - 1
  PROVE  q * m + r \in 0..(n * m) - 1
<1>1. q * m \in Int /\ q * m >= 0
  BY Z3
<1>2. (n - 1 - q) * m >= 0
  BY Z3
<1>3. (n - 1 - q) * m = n * m - m - q * m
  BY Z3
<1> QED
  BY <1>1, <1>2, <1>3, Z3

\* A step's time is one of the buckets of the time table (gr00tn1d5.cpp and
\* its kin), whatever the number of steps and of buckets.
THEOREM BucketsInRange ==
  ASSUME NEW steps \in Nat, NEW n \in Nat, n > 0, NEW s \in 0..steps - 1
  PROVE  FlowBucket(s, steps, n) \in 0..n - 1
<1>1. s * n \in Nat /\ s * n < steps * n /\ steps \in Int /\ steps > 0
  BY Z3
<1> QED
  BY <1>1, Bucket DEF FlowBucket

\* The two table rows a coordinate of the Qwen3-VL tower is interpolated from
\* (qwen3vl_vit.h) are in the table and on either side of it, whatever the
\* grid and the table; they are one row only where the coordinate is on it.
THEOREM InterpolatedBetween ==
  ASSUME NEW g \in Nat, g > 1, NEW n \in Nat, n > 0, NEW k \in 0..g - 1
  PROVE  LET row == InterpRows(k, g, n)
             at  == k * (n - 1)
         IN  /\ row[1] * (g - 1) <= at /\ at < (row[1] + 1) * (g - 1)
             /\ row[2] \in {row[1], row[1] + 1} \cap 0..n - 1 /\ (row[2] = row[1] => at = row[1] * (g - 1))
<1> DEFINE x == (k * (n - 1)) \div (g - 1)
<1>1. k * (n - 1) \in Int /\ g - 1 \in Int /\ g - 1 > 0 /\ n - 1 \in Int /\ k \in Int
  BY Z3
<1>2. x \in Int /\ (g - 1) * x <= k * (n - 1) /\ k * (n - 1) < (g - 1) * x + (g - 1)
  BY <1>1, Quotient
<1>3. InterpRows(k, g, n) = <<IF x > n - 1 THEN n - 1 ELSE x, IF (IF x > n - 1 THEN n - 1 ELSE x) + 1 > n - 1 THEN n - 1 ELSE (IF x > n - 1 THEN n - 1 ELSE x) + 1>>
  BY DEF InterpRows
<1> HIDE DEF x
<1>4. k * (n - 1) <= (g - 1) * (n - 1) /\ 0 <= k * (n - 1)
  BY Z3
<1>5. (g - 1) * x < (g - 1) * n
  <2>1. (g - 1) * n = (g - 1) * (n - 1) + (g - 1)
    BY Z3
  <2> QED
    BY <2>1, <1>1, <1>2, <1>4, Z3
<1>6. x < n
  BY <1>1, <1>2, <1>5, Cancelled
<1>7. (g - 1) * (-1) < (g - 1) * x
  BY <1>1, <1>2, <1>4, Z3
<1>8. -1 < x
  BY <1>1, <1>2, <1>7, Cancelled
<1>9. InterpRows(k, g, n) = <<x, IF x + 1 > n - 1 THEN n - 1 ELSE x + 1>>
  BY <1>3, <1>2, <1>6
<1>10. x * (g - 1) = (g - 1) * x /\ (x + 1) * (g - 1) = (g - 1) * x + (g - 1)
  BY <1>1, <1>2, Z3
<1>11. x = n - 1 => k * (n - 1) = (g - 1) * x
  BY <1>1, <1>2, <1>4, Z3
<1>12. x # n - 1 => x + 1 <= n - 1
  BY <1>2, <1>6
<1>13. (IF x + 1 > n - 1 THEN n - 1 ELSE x + 1) = (IF x = n - 1 THEN x ELSE x + 1)
  BY <1>2, <1>6
<1> DEFINE y == IF x = n - 1 THEN x ELSE x + 1
<1>14. y \in {x, x + 1} \cap 0..n - 1 /\ (y = x => x = n - 1)
  BY <1>2, <1>6, <1>8
<1>15. InterpRows(k, g, n)[1] = x /\ InterpRows(k, g, n)[2] = y
  BY <1>9, <1>13
<1> HIDE DEF y
<1> QED
  BY <1>1, <1>2, <1>10, <1>11, <1>14, <1>15

\* GR00T N1.7 adds the towers' rows, scattered on the device, to the host's
\* rows: for every prompt these are the rows of the host's own assembly.
THEOREM ScatterIsFetch ==
  ASSUME NEW n \in Nat, NEW ids, DOMAIN ids = 1..n
  PROVE  N17Rows(ids) = FetchEmbeds(ids)
<1> DEFINE I == ImagePos(ids)
           E(p) == {j \in I : j < p}
<1>1. IsFiniteSet(I) /\ I \subseteq 1..n
  <2>1. I \subseteq 1..n
    BY DEF ImagePos
  <2>2. IsFiniteSet(1..n)
    BY FS_Interval
  <2> QED
    BY <2>1, <2>2, FS_Subset
<1>2. ASSUME NEW p \in I PROVE Cardinality(E(p)) # Cardinality(I)
  <2>1. E(p) \subseteq I /\ p \notin E(p)
    BY <1>1
  <2>2. E(p) # I
    BY <2>1
  <2> QED
    BY <1>1, <2>1, <2>2, FS_Subset
<1>3. ASSUME NEW p \in DOMAIN ids PROVE N17Rows(ids)[p] = FetchEmbeds(ids)[p]
  <2>1. CASE ids[p] = ImageToken
    <3>1. p \in I
      BY <2>1 DEF ImagePos
    <3>2. N17Scatter(ids)[p] = Cardinality(E(p))
      BY <2>1 DEF N17Scatter
    <3>3. N17HostRow(ids, p) = <<"zero">>
      BY <2>1 DEF N17HostRow
    <3>4. <<"view_row", Cardinality(E(p))>> # <<"zero">>
      OBVIOUS
    <3>5. FetchEmbeds(ids)[p] = <<"view_row", Cardinality(E(p))>>
      BY <2>1 DEF FetchEmbeds
    <3> HIDE DEF E
    <3>6. N17Rows(ids)[p] = <<"view_row", Cardinality(E(p))>>
      BY <1>2, <3>1, <3>2, <3>3, <3>4 DEF N17Rows
    <3> QED
      BY <3>5, <3>6
  <2>2. CASE ids[p] # ImageToken
    <3>1. N17Scatter(ids)[p] = Cardinality(I)
      BY <2>2 DEF N17Scatter
    <3>2. N17Rows(ids)[p] = N17HostRow(ids, p)
      BY <3>1 DEF N17Rows
    <3> QED
      BY <2>2, <3>2 DEF N17HostRow, FetchEmbeds
  <2> QED
    BY <2>1, <2>2
<1> QED
  BY <1>3 DEF N17Rows, FetchEmbeds

\* Patches in merge order take every place of the grid and no other, whatever
\* the grid and the blocks (merge_block_coords).
THEOREM MergeBlocksCoverTheGrid ==
  ASSUME NEW m \in Nat, m > 0, NEW a \in Nat, a > 0, NEW b \in Nat
  PROVE  {MergeBlockCoord(a * m, m, s) : s \in 0..(a * m * b * m) - 1} = (0..(b * m) - 1) \X (0..(a * m) - 1)
<1>1. (a * m) \div m = a
  <2>1. a * m \in Int /\ m \in Int /\ 0 \in 0..m - 1 /\ a * m = m * a + 0
    BY Z3
  <2> QED
    BY <2>1, DivIs
<1>2. ASSUME NEW s
      PROVE  MergeBlockCoord(a * m, m, s) = <<((s \div (m * m)) \div a) * m + ((s \div m) % m), ((s \div (m * m)) % a) * m + (s % m)>>
  BY <1>1 DEF MergeBlockCoord
<1>3. ASSUME NEW s \in 0..(a * m * b * m) - 1
      PROVE  MergeBlockCoord(a * m, m, s) \in (0..(b * m) - 1) \X (0..(a * m) - 1)
  <2>1. PICK x \in Int : x = m * m
    BY Z3
  <2>2. x > 0 /\ s < x * (a * b)
    BY <2>1, Z3
  <2> DEFINE k == s \div x
  <2>3. k \in 0..(a * b) - 1
    BY <2>1, <2>2, Bucket, Z3
  <2>4. k \div a \in 0..b - 1
    <3> HIDE DEF k
    <3> QED
      BY <2>3, Bucket, Z3
  <2>5. k % a \in 0..a - 1 /\ s % m \in 0..m - 1 /\ (s \div m) % m \in 0..m - 1
    <3>1. k \in Int /\ s \in Int /\ s \div m \in Int
      BY <2>3, Quotient
    <3> HIDE DEF k
    <3> QED
      BY <3>1, Remainder
  <2>6. MergeBlockCoord(a * m, m, s) = <<(k \div a) * m + ((s \div m) % m), (k % a) * m + (s % m)>>
    BY <1>2, <2>1
  <2>7. (k \div a) * m + ((s \div m) % m) \in 0..(b * m) - 1
    BY <2>4, <2>5, Place
  <2>8. (k % a) * m + (s % m) \in 0..(a * m) - 1
    BY <2>5, Place
  <2> QED
    BY <2>6, <2>7, <2>8
<1>4. ASSUME NEW r \in 0..(b * m) - 1, NEW c \in 0..(a * m) - 1
      PROVE  \E s \in 0..(a * m * b * m) - 1 : MergeBlockCoord(a * m, m, s) = <<r, c>>
  <2>1. PICK ri \in 0..b - 1 : \E v \in 0..m - 1 : r = ri * m + v
    <3>1. r \div m \in 0..b - 1 /\ r % m \in 0..m - 1 /\ r = m * (r \div m) + (r % m)
      BY Bucket, Remainder, Z3
    <3>2. m * (r \div m) = (r \div m) * m
      <4> DEFINE u == r \div m
      <4>1. u \in Int
        BY <3>1
      <4> HIDE DEF u
      <4>2. m * u = u * m
        BY <4>1, Z3
      <4> QED
        BY <4>2 DEF u
    <3> QED
      BY <3>1, <3>2
  <2>1a. PICK wi \in 0..m - 1 : r = ri * m + wi
    BY <2>1
  <2>2. PICK ci \in 0..a - 1 : \E v \in 0..m - 1 : c = ci * m + v
    <3>1. c \div m \in 0..a - 1 /\ c % m \in 0..m - 1 /\ c = m * (c \div m) + (c % m)
      BY Bucket, Remainder, Z3
    <3>2. m * (c \div m) = (c \div m) * m
      <4> DEFINE u == c \div m
      <4>1. u \in Int
        BY <3>1
      <4> HIDE DEF u
      <4>2. m * u = u * m
        BY <4>1, Z3
      <4> QED
        BY <4>2 DEF u
    <3> QED
      BY <3>1, <3>2
  <2>2a. PICK wj \in 0..m - 1 : c = ci * m + wj
    BY <2>2
  <2>3. PICK k \in 0..(b * a) - 1 : k = ri * a + ci
    BY Place, Z3
  <2>4. PICK w \in 0..(m * m) - 1 : w = wi * m + wj
    BY Place, Z3
  <2>5. PICK x \in Int : x = m * m /\ x > 0
    BY Z3
  <2>6. PICK s \in 0..((b * a) * x) - 1 : s = k * x + w
    BY <2>5, Place, Z3
  <2>7. s \in 0..(a * m * b * m) - 1
    BY <2>5, <2>6, Z3
  <2>8. s \div x = k
    <3>1. s = x * k + w
      BY <2>6, Z3
    <3> QED
      BY <2>5, <3>1, DivIs
  <2>9. k \div a = ri /\ k % a = ci
    <3>1. k = a * ri + ci
      BY <2>3, Z3
    <3> QED
      BY <3>1, DivIs
  <2>10. s \div m = k * m + wi /\ s % m = wj
    <3>1. s = m * (k * m + wi) + wj /\ k * m + wi \in Int
      BY <2>4, <2>5, <2>6, Z3
    <3> QED
      BY <3>1, DivIs
  <2>11. (k * m + wi) % m = wi
    <3>1. k * m + wi = m * k + wi /\ k * m + wi \in Int
      BY Z3
    <3> QED
      BY <3>1, DivIs
  <2>12. MergeBlockCoord(a * m, m, s) = <<r, c>>
    BY <1>2, <2>1a, <2>2a, <2>5, <2>8, <2>9, <2>10, <2>11
  <2> QED
    BY <2>7, <2>12
<1>5. ASSUME NEW z \in (0..(b * m) - 1) \X (0..(a * m) - 1)
      PROVE  z \in {MergeBlockCoord(a * m, m, s) : s \in 0..(a * m * b * m) - 1}
  <2>1. PICK r \in 0..(b * m) - 1 : \E c \in 0..(a * m) - 1 : z = <<r, c>>
    OBVIOUS
  <2> QED
    BY <1>4, <2>1
<1> QED
  BY <1>3, <1>5
=============================================================================
