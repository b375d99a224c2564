------------------------------ MODULE ArchCalls ------------------------------
(***************************************************************************)
(* predict of every architecture, call after call, over the graphs,        *)
(* inputs and host tables earlier calls left behind (scratch_ctx.h's       *)
(* graph_cache, and the members the models keep beside it).                *)
(*                                                                         *)
(* A model and a request are named; Calls says what predict does with      *)
(* them, step by step, as the architectures' modules build it.  Any step    *)
(* may fail: the file's rows cannot be read, the graph does not build or    *)
(* fit, the backend's compute fails.                                        *)
(***************************************************************************)
EXTENDS Arch

CONSTANTS Calls,   \* model -> request -> the steps of predict, for the models that load
          Plain,   \* the same of the plain build of each model's file
          Agreeing \* the models whose file agrees with itself where its load does not compare

\* Definitions: TLC evaluates them once.
Table  == Calls
PlainTable == Plain
AgreeingModels == Agreeing
Loaded == DOMAIN Table

StepsOf(m) == UNION {{<<r, i>> : i \in DOMAIN Table[m][r]} : r \in DOMAIN Table[m]}
StepAt(m, x) == Table[m][x[1]][x[2]]
GraphOf(s) == <<s.ins, s.parts, s.out>>

\* predict ends in a graph it computes.
ASSUME CallsAssumption ==
    \A m \in Loaded : \A r \in DOMAIN Table[m] :
        LET ss == Table[m][r]
        IN  /\ r # ""
            /\ Len(ss) \in Nat \ {0} /\ DOMAIN ss = 1..Len(ss)
            /\ ~ss[Len(ss)].setup /\ ss[Len(ss)].memo = <<>>

\* No key leaves out a thing the graph depends on: the steps that may find a
\* graph under a key are those that would build it.
KeysDecide ==
    \A m \in Loaded : \A x \in StepsOf(m), y \in StepsOf(m) :
        LET s == StepAt(m, x)
            t == StepAt(m, y)
        IN  s.cache = t.cache /\ s.key = t.key /\ ~t.scratch => GraphOf(s) = GraphOf(t)

\* Tables over the finite universe, so that each graph is compared once.
\* The first step of a model that builds the same graph.
FirstOf(m, c, g) == CHOOSE x \in StepsOf(m) : StepAt(m, x).cache = c /\ GraphOf(StepAt(m, x)) = g
SameGraph ==
    [m \in Loaded |-> [r \in DOMAIN Table[m] |-> [i \in DOMAIN Table[m][r] |->
        FirstOf(m, Table[m][r][i].cache, GraphOf(Table[m][r][i]))]]]
PartsOf(ss) ==
    [n \in UNION {DOMAIN ss[i].parts : i \in DOMAIN ss} |->
        ss[CHOOSE i \in DOMAIN ss : n \in DOMAIN ss[i].parts].parts[n].val]
\* The parts of a request's graphs that differ from the reference build's.
Differ ==
    [m \in Loaded |-> [r \in DOMAIN Table[m] |->
        LET mine  == PartsOf(Table[m][r])
            plain == PartsOf(PlainTable[m][r])
        IN  {n \in DOMAIN mine \cup DOMAIN plain :
                n \notin DOMAIN mine \/ n \notin DOMAIN plain \/ mine[n] # plain[n]}]]

VARIABLES
    model,      \* the loaded model
    request,    \* the request being served
    stage,         \* its step
    pc,         \* "idle", or what the stage does next: "ensure", "fill", "compute"
    graphs,     \* graph_cache: cache -> its key, the graph (as the first step that builds it), and what its constants were set for
    mem,        \* cache -> input -> what it holds, as <<first, count, what>>
    hosts,      \* host tables: name -> [key, value]
    fresh       \* this call has built a graph it keeps note of

vars == <<model, request, stage, pc, graphs, mem, hosts, fresh>>

None == ""
Unset == <<"unset">>
Step == Table[model][request][stage]
Built(c) == StepAt(model, graphs[c].graph)

Init ==
    /\ model \in Loaded
    /\ request = None /\ stage = 0 /\ pc = "idle"
    /\ graphs = <<>> /\ mem = <<>> /\ hosts = <<>> /\ fresh = FALSE

Without(f, S) == [y \in DOMAIN f \ S |-> f[y]]
Joined(f, g) == [h \in DOMAIN f \cup DOMAIN g |-> IF h \in DOMAIN f THEN f[h] ELSE g[h]]
With(f, c, v) == [y \in DOMAIN f \cup {c} |-> IF y = c THEN v ELSE f[y]]

Idle == request' = None /\ stage' = 0 /\ pc' = "idle" /\ fresh' = FALSE
GiveUp == Idle /\ UNCHANGED <<model, graphs, mem, hosts>>

Call(r) ==
    /\ pc = "idle"
    /\ request' = r /\ stage' = 1 /\ pc' = "ensure"
    /\ UNCHANGED <<model, graphs, mem, hosts, fresh>>

\* What the step would compute is at hand from an earlier call.
Remembered ==
    /\ Step.memo # <<>> /\ ~fresh
    /\ Step.memo[1] \in DOMAIN hosts /\ hosts[Step.memo[1]].key = Step.memo[2]
Skip ==
    /\ pc = "ensure" /\ Remembered
    /\ stage' = stage + 1
    /\ UNCHANGED <<model, request, pc, graphs, mem, hosts, fresh>>
Begins == pc = "ensure" /\ ~Remembered

\* A check of the code fails before the graph is looked at.
Refuse == Begins /\ ~Step.pre /\ GiveUp

\* Mutant: a host table once made serves every prompt.
KeptForever(h) == h \in DOMAIN hosts /\ h \in DOMAIN Step.hosts
\* A host table serves while its key stays: c_mask_seq and its like.
Kept(h) == h \in DOMAIN hosts /\ h \in DOMAIN Step.hosts /\ hosts[h].key = Step.hosts[h].key
Updated(names) ==
    [h \in DOMAIN hosts \cup names |-> IF h \in names /\ ~Kept(h) THEN Step.hosts[h] ELSE hosts[h]]

\* The rows of the prompt cannot be read; what was being refilled is dropped.
FetchFails ==
    /\ Begins /\ Step.pre /\ Step.fetch
    /\ Step.clears = {} \/ \E h \in Step.clears : ~Kept(h)
    /\ hosts' = [h \in DOMAIN hosts \ Step.clears |-> hosts[h]]
    /\ Idle /\ UNCHANGED <<model, graphs, mem>>

\* Mutant: the cache's graph serves, whatever its key.
HitAnyKey == ~Step.scratch /\ Step.cache \in DOMAIN graphs
Hit == ~Step.scratch /\ Step.cache \in DOMAIN graphs /\ graphs[Step.cache].key = Step.key
\* Mutant: the graph goes, its io stays.
ReleaseKeepsIo(S) == graphs' = Without(graphs, S) /\ mem' = mem
Release(S) == graphs' = Without(graphs, S) /\ mem' = Without(mem, S)

\* graph_cache::ensure: the graph of that key, or a new one in its place.
Ensure ==
    /\ Begins /\ Step.pre
    /\ IF Step.setup THEN stage' = stage + 1 /\ UNCHANGED pc ELSE pc' = "fill" /\ UNCHANGED stage
    /\ hosts' = Updated(Step.clears)
    /\ IF Hit THEN UNCHANGED <<graphs, mem>>
       ELSE /\ graphs' = With(Without(graphs, Step.ousts), Step.cache,
                                 [key |-> Step.key, graph |-> SameGraph[model][request][stage], set |-> Unset])
            /\ mem' = With(Without(mem, Step.ousts), Step.cache, [n \in DOMAIN Step.ins |-> {}])
    /\ fresh' = (fresh \/ (Step.anew /\ ~Hit))
    /\ UNCHANGED <<model, request>>
EnsureFails ==
    /\ Begins /\ Step.pre /\ ~Hit
    /\ Release({Step.cache})
    /\ hosts' = Updated(Step.clears)
    /\ Idle /\ UNCHANGED model

\* What tensor_set writes, host tables read as they now are.
Put(tables, w) == IF w[3][1] = "host" THEN <<w[1], w[2], tables[w[3][2]].value>> ELSE w
Written(tables, fills) == {Put(tables, w) : w \in fills}
Stale(n, w) == graphs[Step.cache].set # Step.tag \/ (n \notin Step.consts /\ <<n, w>> \notin Step.once)
\* A write that is covered in part is not accounted for any more.
Apart(w, v) == w[1] + w[2] <= v[1] \/ v[1] + v[2] <= w[1]
Over(old, new) == {w \in old : \A v \in new : Apart(w, v)} \cup new

\* A view does not pass: those before it may be on the device already.
RefuseViews ==
    /\ pc = "fill" /\ ~Step.post
    /\ \E n \in DOMAIN Step.fills : \E S \in SUBSET Step.fills[n] :
          mem' = [mem EXCEPT ![Step.cache][n] = Over(@, S)]
    /\ Idle /\ UNCHANGED <<model, graphs, hosts>>

\* Writes made for a graph's inputs elsewhere: <<cache, input, first, count, what>>.
Copy(e) == <<e[3], e[4], e[5]>>
Copied(m, copies) ==
    [c \in DOMAIN m |-> [n \in DOMAIN m[c] |->
        Over(m[c][n], {Copy(e) : e \in {x \in copies : x[1] = c /\ x[2] = n}})]]
SetInputs ==
    /\ pc = "fill" /\ Step.post
    /\ pc' = "compute"
    /\ hosts' = Without(Updated(DOMAIN Step.hosts), Step.forgets)
    /\ mem' = Copied([mem EXCEPT ![Step.cache] =
                         [n \in DOMAIN @ |->
                             IF n \notin DOMAIN Step.fills THEN @[n]
                             ELSE Over(@[n], Written(hosts', {w \in Step.fills[n] : <<n, w>> \notin Step.given /\ Stale(n, w)}))]],
                      Step.sends)
    /\ graphs' = [graphs EXCEPT ![Step.cache].set = Step.tag]
    /\ UNCHANGED <<model, request, stage, fresh>>

\* ggml's allocator gives an input's memory to later nodes once it is read,
\* unless the input is an output too.
Spent(m, c, kept) == [m EXCEPT ![c] = [n \in DOMAIN @ |-> IF n \in kept THEN @[n] ELSE {}]]
LastStep == stage = Len(Table[model][request])
Compute ==
    /\ pc = "compute"
    /\ IF LastStep THEN Idle ELSE stage' = stage + 1 /\ pc' = "ensure" /\ UNCHANGED <<request, fresh>>
    /\ mem' = Copied(Spent(mem, Step.cache, Step.kept), Step.copies)
    /\ hosts' = Joined(Step.learns, hosts)
    /\ UNCHANGED <<model, graphs>>
ComputeFails ==
    /\ pc = "compute"
    /\ IF Step.drop THEN Release({Step.cache}) ELSE mem' = Spent(mem, Step.cache, Step.kept) /\ UNCHANGED graphs
    /\ Idle /\ UNCHANGED <<model, hosts>>

Next ==
    \/ \E r \in DOMAIN Table[model] : Call(r)
    \/ Skip \/ Refuse \/ FetchFails \/ Ensure \/ EnsureFails \/ RefuseViews \/ SetInputs \/ Compute \/ ComputeFails
Spec == Init /\ [][Next]_vars

---------------------------------------------------------------------------
TypeOK ==
    /\ model \in Loaded /\ pc \in {"idle", "ensure", "fill", "compute"}
    /\ fresh \in BOOLEAN /\ (pc = "idle" => ~fresh) /\ (pc = "idle") = (request = None) /\ (request # None => stage \in DOMAIN Table[model][request])
    /\ DOMAIN graphs = DOMAIN mem
    /\ \A c \in DOMAIN graphs : DOMAIN mem[c] = DOMAIN Built(c).ins

\* A graph about to be computed is the graph this request would have built,
\* whatever calls came before and however they ended.
CachedIsFresh ==
    pc = "compute" => graphs[Step.cache].graph = SameGraph[model][request][stage]

\* Every element of every input holds what this request put there (or a
\* table that is right for it), whatever calls came before and however they
\* ended: nothing is left over from another request, nothing is unwritten.
Exactly(fills, n) ==
    /\ FoldSet(LAMBDA w, s : s + w[2], 0, fills) = n
    /\ \A w \in fills : w[1] >= 0 /\ w[1] + w[2] <= n
    /\ \A w \in fills, v \in fills : w # v => Apart(w, v)
\* What an input is to hold: every fill, from the right tables.
Due(s, n) == Written(Joined(s.needs, s.hosts), s.fills[n])
InputsAreThisCalls ==
    pc = "compute" =>
        \A n \in DOMAIN Step.ins :
            /\ mem[Step.cache][n] = Due(Step, n)
            /\ Exactly(mem[Step.cache][n], Elems(Step.ins[n]))

\* A graph passes the assertions of ggml and of the kernels, and its result
\* has the elements the caller copies.
Builds(g) ==
    /\ \A n \in DOMAIN g.parts : ~IsBad(g.parts[n])
    /\ ~IsBad(g.out) /\ Elems(g.out) = g.read

\* A file that loads, and agrees with itself in the few dimensions that load
\* does not compare, has graphs that build, for every request that is served.
\* Without the second condition it is false, although model.h:160 says that a
\* load with a shape mismatch aborts: Evo-1 compares its image slots with its
\* grid nowhere (evo1.cpp:736), BitVLA its widths with the compiled kernels only
\* in the kernels.
AgreeingBuild ==
    pc = "fill" /\ model \in AgreeingModels =>
        Builds(Built(Step.cache))

\* The options choose how a function is computed, never which: part by part,
\* a request's graphs compute what the plain build of the same file does.
OptionsKeepTheFunction == pc = "ensure" /\ stage = 1 => Differ[model][request] = {}
---------------------------------------------------------------------------
(* What the lists of a model are to agree on, for no call to find what     *)
(* another has left: each is about the lists alone.                        *)

SamePlace(w, v) == w[1] = v[1] /\ w[2] = v[2]
Before(x) == {<<x[1], k>> : k \in 1..x[2] - 1}

\* What a step puts into other graphs' inputs, and one of those.
Gifts(s) == IF s.setup THEN {} ELSE s.sends \cup s.copies
Gives(s, c, n, w) == \E e \in Gifts(s) : e[1] = c /\ e[2] = n /\ w = Copy(e)
\* The fills that are not made again, and what they put.
Keeps(s, n) == {w \in s.fills[n] : <<n, w>> \notin s.given /\ (n \in s.consts \/ <<n, w>> \in s.once)}
Lasting(s) == UNION {{<<n, Put(Joined(s.needs, s.hosts), w)>> : w \in Keeps(s, n)} : n \in DOMAIN s.fills}
\* The step's graph was only ensured earlier in the call.
SetUp(m, x) == \E z \in Before(x) : StepAt(m, z).setup /\ StepAt(m, z).cache = StepAt(m, x).cache

\* The key of a host table names all its value depends on; what is learned is
\* not made otherwise.
HostsDecide(m) ==
    \A x \in StepsOf(m), y \in StepsOf(m) :
        LET s == StepAt(m, x)
            t == StepAt(m, y)
        IN  /\ \A h \in DOMAIN s.hosts \cap DOMAIN t.hosts : s.hosts[h].key = t.hosts[h].key => s.hosts[h] = t.hosts[h]
            /\ \A h \in DOMAIN s.learns \cap DOMAIN t.learns : s.learns[h].key = t.learns[h].key => s.learns[h] = t.learns[h]
            /\ s.clears \subseteq DOMAIN s.hosts /\ DOMAIN s.hosts \cap DOMAIN t.learns = {}
            /\ IF s.setup THEN s.memo = <<>> ELSE \A h \in DOMAIN s.learns : s.memo = <<h, s.learns[h].key>>

\* The tables a step fills from are its own, or learned earlier in the call
\* and kept to its end.
HostsAtHand(m) ==
    \A x \in StepsOf(m) :
        LET s == StepAt(m, x)
        IN  /\ \A h \in DOMAIN s.needs :
                  /\ \E z \in Before(x) : ~StepAt(m, z).setup /\ h \in DOMAIN StepAt(m, z).learns
                  /\ \A k \in DOMAIN Table[m][x[1]] :
                        LET t == Table[m][x[1]][k]
                        IN  h \notin t.forgets /\ (h \in DOMAIN t.learns => t.learns[h] = s.needs[h])
            /\ ~s.setup => \A n \in DOMAIN s.fills : \A w \in s.fills[n] :
                  w[3][1] = "host" => w[3][2] \in DOMAIN s.needs \cup (DOMAIN s.hosts \ s.forgets)

\* A step fills its inputs once over; where another of the same key has
\* written, it writes too, or has the same place.
OneLayout(m) ==
    \A x \in StepsOf(m) :
        LET s == StepAt(m, x)
        IN  s.pre =>
              /\ DOMAIN s.fills = DOMAIN s.ins
              /\ \A n \in DOMAIN s.fills : \A w \in s.fills[n], v \in s.fills[n] : ~Apart(w, w) /\ (w = v \/ Apart(w, v))
              /\ s.post /\ ~s.setup => \A n \in DOMAIN s.ins : Exactly(Due(s, n), Elems(s.ins[n]))
              /\ ~s.setup => \A y \in StepsOf(m) :
                    LET t == StepAt(m, y)
                    IN  t.pre /\ t.cache = s.cache /\ t.key = s.key /\ ~s.scratch =>
                          \A n \in DOMAIN t.fills : \A v \in t.fills[n] :
                             \/ \E w \in s.fills[n] : SamePlace(v, w)
                             \/ \E w \in s.fills[n] \ Keeps(s, n) : <<n, w>> \notin s.given /\ ~Apart(v, w)

\* Steps of one key and tag keep the same; compute leaves it alone, and so
\* does a call refused half way.
ConstsAgree(m) ==
    \A x \in StepsOf(m), y \in StepsOf(m) :
        LET s == StepAt(m, x)
            t == StepAt(m, y)
        IN  ~s.setup /\ ~t.setup =>
              /\ s.tag # Unset
              /\ s.cache = t.cache /\ s.key = t.key /\ ~s.scratch =>
                    /\ s.tag = t.tag => Lasting(s) \subseteq Lasting(t) /\ \A l \in Lasting(s) : l[1] \in t.kept
                    /\ ~t.post => \A l \in Lasting(s) : \A w \in t.fills[l[1]] : w = l[2] \/ Apart(l[2], w)

\* A graph set up stays until the call ends.
SetupsStay(m) ==
    \A x \in StepsOf(m) : \A z \in Before(x) :
        LET s == StepAt(m, x)
            t == StepAt(m, z)
        IN  t.setup => t.cache \notin s.ousts /\ (s.cache = t.cache => s.key = t.key /\ ~s.scratch)

\* What is put into another graph's input goes to one that was set up, to a
\* place of its own, where nothing is to last.
GiftsLand(m) ==
    \A x \in StepsOf(m) :
        LET s == StepAt(m, x)
        IN  \A e \in Gifts(s) :
              /\ e[1] # s.cache
              /\ \E z \in Before(x) : StepAt(m, z).setup /\ StepAt(m, z).cache = e[1]
              /\ \A z \in Before(x) :
                    LET t == StepAt(m, z)
                    IN  t.setup /\ t.cache = e[1] => e[2] \in DOMAIN t.fills /\ \E w \in t.fills[e[2]] : SamePlace(Copy(e), w)
              /\ \A k \in DOMAIN Table[m][x[1]] :
                    \A d \in Gifts(Table[m][x[1]][k]) : d[1] = e[1] /\ d[2] = e[2] => Copy(d) = Copy(e) \/ Apart(Copy(d), Copy(e))
              /\ \A y \in StepsOf(m) :
                    LET t == StepAt(m, y)
                    IN  t.cache = e[1] /\ ~t.setup => \A l \in Lasting(t) : l[1] # e[2]

\* What a step takes as given, an earlier one puts there, and no other graph
\* of that cache runs in between.
GivenFirst(m) ==
    \A x \in StepsOf(m) :
        LET s == StepAt(m, x)
        IN  ~s.setup => \A g \in s.given :
              /\ g[1] \in DOMAIN s.fills /\ g[2] \in s.fills[g[1]] /\ g[2][3][1] # "host"
              /\ \E z \in Before(x) : Gives(StepAt(m, z), s.cache, g[1], g[2])
              /\ \A z \in Before(x) : Gives(StepAt(m, z), s.cache, g[1], g[2]) =>
                    \A y \in Before(x) : y[2] > z[2] /\ ~StepAt(m, y).setup => StepAt(m, y).cache # s.cache

\* A step that may be skipped puts its gifts anew before it can be skipped
\* again: it forgets first, and a graph built for them is noted right before it.
Redoes(m, x, h) ==
    /\ x \in StepsOf(m) /\ SetUp(m, x)
    /\ LET s == StepAt(m, x)
       IN  ~s.setup /\ s.pre /\ s.post /\ ~s.fetch /\ s.memo # <<>> /\ h \in s.forgets
GiversRedo(m) ==
    \A x \in StepsOf(m), y \in StepsOf(m) :
        LET s == StepAt(m, x)
            t == StepAt(m, y)
            h == s.memo[1]
        IN  s.memo # <<>> => \A e \in Gifts(s) :
              /\ h \notin DOMAIN t.hosts
              /\ ~t.setup /\ h \in DOMAIN t.learns /\ t.learns[h].key = s.memo[2] => e \in Gifts(t)
              /\ \A d \in Gifts(t) : d[1] = e[1] /\ d[2] = e[2] => h \in t.forgets /\ h \in DOMAIN t.learns
              /\ t.cache = e[1] /\ ~t.setup => e[2] \in t.kept /\ t.post /\ \A w \in t.fills[e[2]] : <<e[2], w>> \in t.given
              /\ t.cache = e[1] => SetUp(m, y) \/ (t.setup /\ t.anew /\ Redoes(m, <<y[1], y[2] + 1>>, h))

ListsAgree ==
    \A m \in Loaded :
        /\ HostsDecide(m) /\ HostsAtHand(m) /\ OneLayout(m) /\ ConstsAgree(m)
        /\ SetupsStay(m) /\ GiftsLand(m) /\ GivenFirst(m) /\ GiversRedo(m)
=============================================================================
