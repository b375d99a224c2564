---------------------------- MODULE EngineProofs ----------------------------
(***************************************************************************)
(* Proofs about Engine, for every set of threads, handles, backends and    *)
(* requests, and every number of calls.                                    *)
(***************************************************************************)
EXTENDS Engine, TLAPS

Holding == {"flags", "main", "vision", "infer", "unlock"}
Loading == {"create", "handle"}

(* A call is on a live handle, and past the lock it is the only one there; *)
(* a load has its handle to itself.                                        *)
Owner ==
  /\ \A t \in Thread : pc[t] \in Holding \cup {"lock"} => on[t] \in Handle /\ status[on[t]] = "live"
  /\ \A t \in Thread : pc[t] \in Holding => mutex[on[t]] = t
  /\ \A t \in Thread : pc[t] \in Loading => on[t] \in Handle /\ status[on[t]] = "loading"
  /\ \A t, u \in Thread : pc[t] \in Loading /\ pc[u] \in Loading /\ on[t] = on[u] => t = u

(* The flags a load decided on are those of the handle, and of a thread    *)
(* while it loads or works on it.                                          *)
FlagsKept ==
  /\ \A h \in Handle : status[h] = "live" => has[h] = wants[h] /\ wants[h] \in Flags
  /\ \A t \in Thread : pc[t] \in Loading => wants[on[t]] = tls[t]
  /\ \A t \in Thread : pc[t] \in {"main", "vision", "infer"} => tls[t] = wants[on[t]]

(* A graph that is kept was built with its handle's flags. *)
GraphsBuilt ==
  \A h \in Handle :
    /\ status[h] \in {"none", "loading"} => ~graph[h].main.valid /\ ~graph[h].vision.valid
    /\ status[h] = "live" /\ graph[h].main.valid => graph[h].main.built = wants[h]
    /\ status[h] = "live" /\ graph[h].vision.valid => graph[h].vision.built = wants[h]

(* How far a call has got: the graph of its shape, then its image rows. *)
Reached(t) ==
  /\ pc[t] \in {"main", "infer"} => req[t].op = "predict"
  /\ pc[t] = "infer" \/ (pc[t] = "vision" /\ req[t].op = "predict") =>
       graph[on[t]].main.valid /\ graph[on[t]].main.key = MainKey(req[t])
  /\ pc[t] = "infer" /\ ~req[t].pre =>
       input[on[t]].rows = Embedding(req[t], VisionKey(req[t]), wants[on[t]])

Progress == \A t \in Thread : Reached(t)

(* The timings of a handle are of the call that holds it, or of one before. *)
Timings ==
  /\ calls \in 0 .. MaxCalls /\ \A t \in Thread : id[t] \in 0 .. MaxCalls
  /\ \A t \in Thread : pc[t] \in {"main", "vision", "infer", "unlock"} =>
       {stats[on[t]].vision, stats[on[t]].inference, stats[on[t]].total} \subseteq {0, id[t]}
  /\ StatsOfOneCall

IInv ==
  /\ TypeOK /\ Owner /\ FlagsKept /\ GraphsBuilt
  /\ Progress /\ AnswersItsRequest /\ Timings

-----------------------------------------------------------------------------
(* What a step leaves alone keeps what was said of it. *)

LEMMA StoreKept == ASSUME IInv, UNCHANGED store PROVE TypeStore'
BY DEF IInv, TypeOK, TypeStore, store

LEMMA GraphsOfType ==
  /\ NoGraph \in Graph
  /\ \A r \in Request, t \in Thread :
       IInv => Built(t, MainKey(r)) \in Graph /\ Built(t, VisionKey(r)) \in Graph
<1>1. NoGraph \in Graph
  BY DEF NoGraph, Graph
<1>2. ASSUME NEW r \in Request, NEW t \in Thread, IInv
      PROVE  Built(t, MainKey(r)) \in Graph /\ Built(t, VisionKey(r)) \in Graph
  <2>1. tls[t] \in Flags /\ tls[t].flash \in BOOLEAN /\ faViews \in BOOLEAN
    BY <1>2 DEF IInv, TypeOK, TypeLife, Flags
  <2> QED
    BY <2>1 DEF Built, Graph
<1> QED
  BY <1>1, <1>2

LEMMA ReachedKept ==
  ASSUME NEW u \in Thread, Reached(u),
         pc'[u] = pc[u], on'[u] = on[u], req'[u] = req[u],
         pc[u] \in {"vision", "infer"} =>
           /\ graph'[on[u]].main = graph[on[u]].main
           /\ input'[on[u]].rows = input[on[u]].rows
           /\ wants'[on[u]] = wants[on[u]]
  PROVE  Reached(u)'
BY DEF Reached, MainKey, VisionKey, Embedding

LEMMA ReachedElsewhere ==
  ASSUME NEW u \in Thread, pc'[u] \notin {"main", "vision", "infer"}
  PROVE  Reached(u)'
BY DEF Reached

LEMMA ProgressKept ==
  ASSUME IInv, NEW t \in Thread, UNCHANGED <<graph, input>>,
         pc'[t] \notin {"main", "vision", "infer"},
         \A u \in Thread \ {t} : pc'[u] = pc[u] /\ on'[u] = on[u] /\ req'[u] = req[u],
         \A u \in Thread \ {t} : pc[u] \in {"vision", "infer"} => wants'[on[u]] = wants[on[u]]
  PROVE  Progress'
<1> SUFFICES ASSUME NEW u \in Thread PROVE Reached(u)'
  BY DEF Progress
<1>1. CASE u = t
  BY <1>1, ReachedElsewhere
<1>2. CASE u # t
  BY <1>2, ReachedKept DEF IInv, Progress
<1> QED
  BY <1>1, <1>2

\* Nobody else is at work on the handle a thread holds.
LEMMA Alone ==
  ASSUME IInv, NEW t \in Thread, NEW u \in Thread \ {t},
         pc[t] \in Holding, pc[u] \in Holding
  PROVE  on[u] # on[t] /\ on[t] \in Handle /\ on[u] \in Handle
BY DEF IInv, Owner

(* What holds while a thread works on its handle, and what its steps keep. *)

Stores == [Handle -> [main : Graph, vision : Graph]]

LEMMA AtWork ==
  ASSUME IInv, NEW t \in Thread, pc[t] \in {"main", "vision", "infer", "unlock"}
  PROVE  /\ on[t] \in Handle /\ status[on[t]] = "live" /\ mutex[on[t]] = t
         /\ req[t] \in Request /\ id[t] \in Nat
         /\ graph \in Stores /\ stats \in [Handle -> [vision : Nat, inference : Nat, total : Nat]]
         /\ input = [h \in Handle |-> [rows |-> input[h].rows, lang |-> input[h].lang, mask |-> input[h].mask]]
         /\ wants[on[t]] \in Flags
         /\ pc[t] # "unlock" => tls[t] = wants[on[t]]
BY DEF IInv, TypeOK, TypeStore, TypeCalls, Owner, FlagsKept, Holding, Stores

LEMMA WorkKeeps ==
  ASSUME IInv, NEW t \in Thread, pc[t] \in {"main", "vision", "infer"},
         NEW p \in {"main", "vision", "infer", "unlock"}, pc' = [pc EXCEPT ![t] = p],
         UNCHANGED <<tls, faViews, life, mutex, on, req, id, calls>>,
         answer' = answer \/ \E c, v : answer' = [answer EXCEPT ![t] = Answer(c, v)]
  PROVE  /\ TypeLife' /\ TypeCalls' /\ Owner' /\ FlagsKept'
         /\ \A u \in Thread \ {t} : pc'[u] = pc[u] /\ answer'[u] = answer[u]
         /\ pc'[t] = p
<1> USE DEF life
<1>1. \A u \in Thread \ {t} : pc'[u] = pc[u] /\ answer'[u] = answer[u]
  BY DEF IInv, TypeOK, TypeCalls
<1>2. pc'[t] = p
  BY DEF IInv, TypeOK, TypeCalls
<1>3. TypeLife'
  BY DEF IInv, TypeOK, TypeLife, Flags
<1>4. answer' = [u \in Thread |-> [code |-> answer'[u].code, value |-> answer'[u].value]]
  <2>1. CASE answer' = answer
    BY <2>1 DEF IInv, TypeOK, TypeCalls
  <2>2. ASSUME NEW c, NEW v, answer' = [answer EXCEPT ![t] = Answer(c, v)]
        PROVE  answer' = [u \in Thread |-> [code |-> answer'[u].code, value |-> answer'[u].value]]
    BY <2>2 DEF IInv, TypeOK, TypeCalls, Answer
  <2> QED
    BY <2>1, <2>2
<1>5. TypeCalls'
  BY <1>4 DEF IInv, TypeOK, TypeCalls
<1>6. Owner'
  BY <1>1, <1>2 DEF IInv, Owner, Holding, Loading
<1>7. FlagsKept'
  BY <1>1, <1>2 DEF IInv, FlagsKept, Loading
<1> QED
  BY <1>1, <1>2, <1>3, <1>5, <1>6, <1>7

LEMMA SetMain ==
  ASSUME IInv, graph \in Stores, NEW h \in Handle, NEW x \in Graph, graph' = [graph EXCEPT ![h].main = x]
  PROVE  /\ graph' \in Stores /\ graph'[h].main = x /\ graph'[h].vision = graph[h].vision
         /\ \A i \in Handle \ {h} : graph'[i] = graph[i]
BY DEF Stores

LEMMA SetVision ==
  ASSUME IInv, graph \in Stores, NEW h \in Handle, NEW x \in Graph, graph' = [graph EXCEPT ![h].vision = x]
  PROVE  /\ graph' \in Stores /\ graph'[h].vision = x /\ graph'[h].main = graph[h].main
         /\ \A i \in Handle \ {h} : graph'[i] = graph[i]
BY DEF Stores

\* The graph a thread works with is the one for its request and its flags.
LEMMA Chosen ==
  ASSUME IInv, NEW t \in Thread, pc[t] \in {"main", "vision"}, NEW g \in Graph,
         NEW r \in Request, NEW key \in {MainKey(r), VisionKey(r)},
         g.valid => g.built = wants[on[t]],
         NEW x, x = IF Hit(g, key) THEN g ELSE Built(t, key)
  PROVE  x \in Graph /\ x.valid /\ x.key = key /\ x.built = wants[on[t]]
<1>1. Built(t, key) \in Graph
  BY GraphsOfType
<1>2. tls[t] = wants[on[t]]
  BY AtWork
<1>3. CASE Hit(g, key)
  BY <1>3 DEF Hit
<1>4. CASE ~Hit(g, key)
  <2>1. x = Built(t, key)
    BY <1>4
  <2>2. x.valid /\ x.key = key /\ x.built = tls[t]
    BY <2>1 DEF Built
  <2> QED
    BY <1>1, <1>2, <2>1, <2>2
<1> QED
  BY <1>3, <1>4

\* Graphs of a handle at work, changed to graphs for its flags or to none.
LEMMA GraphsBuiltKept ==
  ASSUME IInv, NEW t \in Thread, pc[t] \in {"main", "vision", "infer"}, UNCHANGED <<status, wants>>,
         graph'[on[t]].main.valid => graph'[on[t]].main.built = wants[on[t]],
         graph'[on[t]].vision.valid => graph'[on[t]].vision.built = wants[on[t]],
         \A i \in Handle \ {on[t]} : graph'[i] = graph[i]
  PROVE  GraphsBuilt'
<1>1. status[on[t]] = "live"
  BY AtWork
<1> QED
  BY <1>1 DEF IInv, GraphsBuilt

LEMMA TimingsKept ==
  ASSUME IInv, NEW t \in Thread, pc[t] \in {"main", "vision", "infer"},
         pc'[t] \in {"main", "vision", "infer", "unlock"},
         \A u \in Thread \ {t} : pc'[u] = pc[u], UNCHANGED <<on, id, calls, mutex>>,
         \A h \in Handle \ {on[t]} : stats'[h] = stats[h],
         stats'[on[t]].vision \in {stats[on[t]].vision, id[t]},
         stats'[on[t]].inference \in {stats[on[t]].inference, id[t]},
         stats'[on[t]].total \in {stats[on[t]].total, id[t]}
  PROVE  Timings'
<1>1. on[t] \in Handle /\ mutex[on[t]] = t /\ t # None
  BY AtWork, EngineAssumption
<1>2. {stats[on[t]].vision, stats[on[t]].inference, stats[on[t]].total} \subseteq {0, id[t]}
  BY DEF IInv, Timings
<1>3. {stats'[on[t]].vision, stats'[on[t]].inference, stats'[on[t]].total} \subseteq {0, id[t]}
  BY <1>2
<1>4. StatsOfOneCall'
  BY <1>1 DEF IInv, Timings, StatsOfOneCall
<1>5. ASSUME NEW u \in Thread, pc'[u] \in {"main", "vision", "infer", "unlock"}
      PROVE  {stats'[on[u]].vision, stats'[on[u]].inference, stats'[on[u]].total} \subseteq {0, id[u]}
  <2>1. CASE u = t
    BY <1>3, <2>1
  <2>2. CASE u # t
    <3>1. on[u] # on[t] /\ on[u] \in Handle
      BY <1>5, <2>2, Alone DEF Holding
    <3> QED
      BY <1>5, <2>2, <3>1 DEF IInv, Timings
  <2> QED
    BY <2>1, <2>2
<1> QED
  BY <1>4, <1>5 DEF IInv, Timings

\* What the other threads have reached, and answered, stays true.
LEMMA OthersKeep ==
  ASSUME IInv, NEW t \in Thread, pc[t] \in {"main", "vision", "infer"},
         \A u \in Thread \ {t} : pc'[u] = pc[u] /\ answer'[u] = answer[u],
         UNCHANGED <<on, req, wants>>,
         \A h \in Handle \ {on[t]} : graph'[h] = graph[h] /\ input'[h] = input[h]
  PROVE  /\ \A u \in Thread \ {t} : Reached(u)'
         /\ Reached(t)' => Progress'
         /\ (pc'[t] = "unlock" /\ answer'[t].code = "ok" => answer'[t].value = Expected(req[t], wants[on[t]]))
              => AnswersItsRequest'
<1>1. ASSUME NEW u \in Thread \ {t} PROVE Reached(u)'
  <2>1. pc[u] \in Holding => on[u] # on[t] /\ on[u] \in Handle
    BY Alone DEF Holding
  <2> QED
    BY <2>1, ReachedKept DEF IInv, Progress, Holding
<1>2. ASSUME pc'[t] = "unlock" /\ answer'[t].code = "ok" => answer'[t].value = Expected(req[t], wants[on[t]])
      PROVE  AnswersItsRequest'
  <2>1. ASSUME NEW u \in Thread, pc'[u] = "unlock", answer'[u].code = "ok"
        PROVE  answer'[u].value = Expected(req[u], wants[on[u]])
    <3>1. CASE u = t
      BY <1>2, <2>1, <3>1
    <3>2. CASE u # t
      BY <2>1, <3>2 DEF IInv, AnswersItsRequest
    <3> QED
      BY <3>1, <3>2
  <2>2. \A u \in Thread : Expected(req[u], wants[on[u]])' = Expected(req[u], wants[on[u]])
    BY DEF Expected, MainKey, VisionKey, Embedding
  <2> QED
    BY <2>1, <2>2 DEF AnswersItsRequest
<1> QED
  BY <1>1, <1>2 DEF Progress

-----------------------------------------------------------------------------
LEMMA LoadInv == ASSUME IInv, NEW t \in Thread, Load(t) PROVE IInv'
<1> USE EngineAssumption DEF Load, Begin, SetFlags, Goto, Given, store
<1>1. TypeLife'
  BY DEF IInv, TypeOK, TypeLife, TypeCalls, Owner, Loading, Flags
<1>2. TypeStore'
  BY StoreKept DEF store
<1>3. TypeCalls'
  BY DEF IInv, TypeOK, TypeCalls, Owner, Holding
<1>4. Owner'
  BY DEF IInv, Owner, Holding, Loading, TypeOK, TypeLife, TypeCalls
<1>5. FlagsKept'
  BY DEF IInv, FlagsKept, Owner, Holding, Loading, TypeOK, TypeLife, TypeCalls, Flags
<1>6. GraphsBuilt'
  BY DEF IInv, GraphsBuilt, Owner, FlagsKept, Holding, Loading, TypeOK, TypeLife, TypeStore, TypeCalls
<1>7. Progress'
  <2>1. /\ pc'[t] \notin {"main", "vision", "infer"}
        /\ \A u \in Thread \ {t} : pc'[u] = pc[u] /\ on'[u] = on[u] /\ req'[u] = req[u]
    BY DEF IInv, TypeOK, TypeCalls
  <2>2. \A u \in Thread \ {t} : pc[u] \in {"vision", "infer"} => wants'[on[u]] = wants[on[u]]
    BY DEF IInv, Owner, Holding, Loading, TypeOK, TypeLife
  <2> QED
    BY <2>1, <2>2, ProgressKept
<1>8. AnswersItsRequest'
  BY DEF IInv, AnswersItsRequest, Progress, Reached, FlagsKept, GraphsBuilt, Owner, Holding, Loading, TypeOK, TypeCalls, TypeStore, TypeLife, Expected, MainKey, VisionKey, Embedding
<1>9. Timings'
  BY DEF IInv, Timings, StatsOfOneCall, Owner, Holding, TypeOK, TypeStore, TypeCalls, TypeLife
<1> QED
  BY <1>1, <1>2, <1>3, <1>4, <1>5, <1>6, <1>7, <1>8, <1>9 DEF IInv, TypeOK

LEMMA CreateInv == ASSUME IInv, NEW t \in Thread, Create(t) PROVE IInv'
<1> USE EngineAssumption DEF Create, SetFlags, Goto, store
<1>1. TypeLife'
  <2>0. on[t] \in Handle /\ tls \in [Thread -> Flags] /\ wants[on[t]] = tls[t] /\ faViews \in BOOLEAN
    BY DEF IInv, TypeOK, TypeLife, Owner, FlagsKept, Loading
  <2>1. [tls[t] EXCEPT !.flash = TRUE] \in Flags
    BY <2>0 DEF Flags
  <2>2. tls' \in [Thread -> Flags]
    BY <2>0, <2>1
  <2>3. wants' \in [Handle -> {None} \cup Flags]
    <3>1. wants' = wants \/ wants' = [wants EXCEPT ![on[t]].flash = TRUE]
      OBVIOUS
    <3>2. [wants[on[t]] EXCEPT !.flash = TRUE] \in Flags
      BY <2>0, <2>1
    <3> QED
      BY <2>0, <3>1, <3>2 DEF IInv, TypeOK, TypeLife
  <2>4. faViews' \in BOOLEAN
    <3>1. PICK b \in Backend : faViews' = (faViews \/ b \in ViewTaking)
      OBVIOUS
    <3> QED
      BY <2>0, <3>1
  <2>5. runsOn' \in [Handle -> {None} \cup Backend]
    BY DEF IInv, TypeOK, TypeLife
  <2> QED
    BY <2>2, <2>3, <2>4, <2>5 DEF IInv, TypeOK, TypeLife
<1>2. TypeStore'
  BY StoreKept DEF store
<1>3. TypeCalls'
  BY DEF IInv, TypeOK, TypeCalls, Owner, Holding
<1>4. Owner'
  BY DEF IInv, Owner, Holding, Loading, TypeOK, TypeLife, TypeCalls
<1>5. FlagsKept'
  <2>0. /\ on[t] \in Handle /\ pc[t] \in Loading /\ status[on[t]] = "loading"
        /\ tls \in [Thread -> Flags] /\ wants[on[t]] = tls[t] /\ DOMAIN wants = Handle
    BY DEF IInv, TypeOK, TypeLife, Owner, FlagsKept, Loading
  <2>1. /\ wants'[on[t]] = tls'[t]
        /\ \A h \in Handle : h # on[t] => wants'[h] = wants[h]
        /\ \A u \in Thread : u # t => tls'[u] = tls[u]
    <3> DEFINE f == [tls[t] EXCEPT !.flash = TRUE]
    <3>1. \/ tls' = tls /\ wants' = wants
          \/ tls' = [tls EXCEPT ![t] = f] /\ wants' = [wants EXCEPT ![on[t]].flash = TRUE]
      OBVIOUS
    <3>2. [wants EXCEPT ![on[t]].flash = TRUE] = [wants EXCEPT ![on[t]] = f]
      BY <2>0
    <3> HIDE DEF f
    <3> QED
      BY <2>0, <3>1, <3>2
  <2>2. \A h \in Handle : status'[h] = "live" => has'[h] = wants'[h] /\ wants'[h] \in Flags
    BY <2>0, <2>1 DEF IInv, FlagsKept
  <2>3. ASSUME NEW u \in Thread
        PROVE  /\ pc'[u] \in Loading => wants'[on[u]] = tls'[u]
               /\ pc'[u] \in {"main", "vision", "infer"} => tls'[u] = wants'[on[u]]
    <3>1. CASE u = t
      BY <2>0, <2>1, <3>1 DEF IInv, TypeOK, TypeCalls
    <3>2. CASE u # t
      <4>1. pc'[u] = pc[u]
        BY <3>2 DEF IInv, TypeOK, TypeCalls
      <4>2. pc[u] \in Loading \cup {"main", "vision", "infer"} => on[u] \in Handle /\ on[u] # on[t]
        BY <2>0, <3>2 DEF IInv, Owner, Holding
      <4> QED
        BY <2>1, <3>2, <4>1, <4>2 DEF IInv, FlagsKept
    <3> QED
      BY <3>1, <3>2
  <2> QED
    BY <2>2, <2>3 DEF FlagsKept
<1>6. GraphsBuilt'
  BY DEF IInv, GraphsBuilt, Owner, FlagsKept, Holding, Loading, TypeOK, TypeLife, TypeStore, TypeCalls
<1>7. Progress'
  <2>1. /\ pc'[t] \notin {"main", "vision", "infer"}
        /\ \A u \in Thread \ {t} : pc'[u] = pc[u] /\ on'[u] = on[u] /\ req'[u] = req[u]
    BY DEF IInv, TypeOK, TypeCalls
  <2>2. \A u \in Thread \ {t} : pc[u] \in {"vision", "infer"} => wants'[on[u]] = wants[on[u]]
    BY DEF IInv, Owner, Holding, Loading, TypeOK, TypeLife
  <2> QED
    BY <2>1, <2>2, ProgressKept
<1>8. AnswersItsRequest'
  <2> SUFFICES ASSUME NEW u \in Thread, pc'[u] = "unlock", answer'[u].code = "ok"
               PROVE  answer[u].value = Expected(req[u], wants'[on[u]])
    BY DEF AnswersItsRequest, Expected, MainKey, VisionKey, Embedding
  <2>1. u # t /\ pc[u] = "unlock" /\ answer[u].code = "ok"
    BY DEF IInv, TypeOK, TypeCalls
  <2>2. wants'[on[u]] = wants[on[u]]
    BY <2>1 DEF IInv, TypeOK, TypeLife, Owner, Holding, Loading
  <2> QED
    BY <2>1, <2>2 DEF IInv, AnswersItsRequest
<1>9. Timings'
  BY DEF IInv, Timings, StatsOfOneCall, Owner, Holding, TypeOK, TypeStore, TypeCalls, TypeLife
<1> QED
  BY <1>1, <1>2, <1>3, <1>4, <1>5, <1>6, <1>7, <1>8, <1>9 DEF IInv, TypeOK

LEMMA NewHandleInv == ASSUME IInv, NEW t \in Thread, NewHandle(t) PROVE IInv'
<1> USE EngineAssumption DEF NewHandle, Return, Goto, Answer, store
<1>1. TypeLife'
  BY DEF IInv, TypeOK, TypeLife, TypeCalls, Owner, Loading, Flags
<1>2. TypeStore'
  BY StoreKept DEF store
<1>3. TypeCalls'
  BY DEF IInv, TypeOK, TypeCalls, Owner, Holding
<1>4. Owner'
  BY DEF IInv, Owner, Holding, Loading, TypeOK, TypeLife, TypeCalls
<1>5. FlagsKept'
  BY DEF IInv, FlagsKept, Owner, Holding, Loading, TypeOK, TypeLife, TypeCalls, Flags
<1>6. GraphsBuilt'
  BY DEF IInv, GraphsBuilt, Owner, FlagsKept, Holding, Loading, TypeOK, TypeLife, TypeStore, TypeCalls
<1>7. Progress'
  <2>1. /\ pc'[t] \notin {"main", "vision", "infer"}
        /\ \A u \in Thread \ {t} : pc'[u] = pc[u] /\ on'[u] = on[u] /\ req'[u] = req[u]
    BY DEF IInv, TypeOK, TypeCalls
  <2>2. \A u \in Thread \ {t} : pc[u] \in {"vision", "infer"} => wants'[on[u]] = wants[on[u]]
    BY DEF IInv, Owner, Holding, Loading, TypeOK, TypeLife
  <2> QED
    BY <2>1, <2>2, ProgressKept
<1>8. AnswersItsRequest'
  BY DEF IInv, AnswersItsRequest, Progress, Reached, FlagsKept, GraphsBuilt, Owner, Holding, Loading, TypeOK, TypeCalls, TypeStore, TypeLife, Expected, MainKey, VisionKey, Embedding
<1>9. Timings'
  BY DEF IInv, Timings, StatsOfOneCall, Owner, Holding, TypeOK, TypeStore, TypeCalls, TypeLife
<1> QED
  BY <1>1, <1>2, <1>3, <1>4, <1>5, <1>6, <1>7, <1>8, <1>9 DEF IInv, TypeOK

LEMMA LoadFailsInv == ASSUME IInv, NEW t \in Thread, LoadFails(t) PROVE IInv'
<1> USE EngineAssumption DEF LoadFails, Return, Goto, Answer, store
<1>1. TypeLife'
  BY DEF IInv, TypeOK, TypeLife, TypeCalls, Owner, Loading, Flags
<1>2. TypeStore'
  BY StoreKept DEF store
<1>3. TypeCalls'
  BY DEF IInv, TypeOK, TypeCalls, Owner, Holding
<1>4. Owner'
  BY DEF IInv, Owner, Holding, Loading, TypeOK, TypeLife, TypeCalls
<1>5. FlagsKept'
  BY DEF IInv, FlagsKept, Owner, Holding, Loading, TypeOK, TypeLife, TypeCalls, Flags
<1>6. GraphsBuilt'
  BY DEF IInv, GraphsBuilt, Owner, FlagsKept, Holding, Loading, TypeOK, TypeLife, TypeStore, TypeCalls
<1>7. Progress'
  <2>1. /\ pc'[t] \notin {"main", "vision", "infer"}
        /\ \A u \in Thread \ {t} : pc'[u] = pc[u] /\ on'[u] = on[u] /\ req'[u] = req[u]
    BY DEF IInv, TypeOK, TypeCalls
  <2>2. \A u \in Thread \ {t} : pc[u] \in {"vision", "infer"} => wants'[on[u]] = wants[on[u]]
    BY DEF IInv, Owner, Holding, Loading, TypeOK, TypeLife
  <2> QED
    BY <2>1, <2>2, ProgressKept
<1>8. AnswersItsRequest'
  BY DEF IInv, AnswersItsRequest, Progress, Reached, FlagsKept, GraphsBuilt, Owner, Holding, Loading, TypeOK, TypeCalls, TypeStore, TypeLife, Expected, MainKey, VisionKey, Embedding
<1>9. Timings'
  BY DEF IInv, Timings, StatsOfOneCall, Owner, Holding, TypeOK, TypeStore, TypeCalls, TypeLife
<1> QED
  BY <1>1, <1>2, <1>3, <1>4, <1>5, <1>6, <1>7, <1>8, <1>9 DEF IInv, TypeOK

LEMMA RefuseInv == ASSUME IInv, NEW t \in Thread, Refuse(t) PROVE IInv'
<1> USE EngineAssumption DEF Refuse, Begin, Answer, life, store
<1>1. TypeLife'
  BY DEF IInv, TypeOK, TypeLife, TypeCalls, Owner, Loading, Flags
<1>2. TypeStore'
  BY StoreKept DEF store
<1>3. TypeCalls'
  BY DEF IInv, TypeOK, TypeCalls, Owner, Holding
<1>4. Owner'
  BY DEF IInv, Owner, Holding, Loading, TypeOK, TypeLife, TypeCalls
<1>5. FlagsKept'
  BY DEF IInv, FlagsKept, Owner, Holding, Loading, TypeOK, TypeLife, TypeCalls, Flags
<1>6. GraphsBuilt'
  BY DEF IInv, GraphsBuilt, Owner, FlagsKept, Holding, Loading, TypeOK, TypeLife, TypeStore, TypeCalls
<1>7. Progress'
  <2>1. /\ pc'[t] \notin {"main", "vision", "infer"}
        /\ \A u \in Thread \ {t} : pc'[u] = pc[u] /\ on'[u] = on[u] /\ req'[u] = req[u]
    BY DEF IInv, TypeOK, TypeCalls
  <2>2. \A u \in Thread \ {t} : pc[u] \in {"vision", "infer"} => wants'[on[u]] = wants[on[u]]
    BY DEF IInv, Owner, Holding, Loading, TypeOK, TypeLife
  <2> QED
    BY <2>1, <2>2, ProgressKept
<1>8. AnswersItsRequest'
  BY DEF IInv, AnswersItsRequest, Progress, Reached, FlagsKept, GraphsBuilt, Owner, Holding, Loading, TypeOK, TypeCalls, TypeStore, TypeLife, Expected, MainKey, VisionKey, Embedding
<1>9. Timings'
  BY DEF IInv, Timings, StatsOfOneCall, Owner, Holding, TypeOK, TypeStore, TypeCalls, TypeLife
<1> QED
  BY <1>1, <1>2, <1>3, <1>4, <1>5, <1>6, <1>7, <1>8, <1>9 DEF IInv, TypeOK

LEMMA CallInv == ASSUME IInv, NEW t \in Thread, Call(t) PROVE IInv'
<1> USE EngineAssumption DEF Call, Begin, Goto, Answer, NoAnswer, life, store
<1>1. TypeLife'
  BY DEF IInv, TypeOK, TypeLife, TypeCalls, Owner, Loading, Flags
<1>2. TypeStore'
  BY StoreKept DEF store
<1>3. TypeCalls'
  <2>1. PICK h \in Handle, r \in Request :
          /\ on' = [on EXCEPT ![t] = h] /\ req' = [req EXCEPT ![t] = r]
          /\ id' = [id EXCEPT ![t] = calls + 1] /\ calls' = calls + 1
          /\ answer' = [answer EXCEPT ![t] = [code |-> "none", value |-> None]]
          /\ pc' = [pc EXCEPT ![t] = "lock"]
    OBVIOUS
  <2>2. pc' \in [Thread -> {"idle", "create", "handle", "lock", "flags", "main", "vision", "infer", "unlock"}]
    BY <2>1 DEF IInv, TypeOK, TypeCalls
  <2>3. on' \in [Thread -> {None} \cup Handle] /\ id' \in [Thread -> Nat] /\ calls' \in Nat
    BY <2>1 DEF IInv, TypeOK, TypeCalls
  <2>4. /\ DOMAIN req' = Thread
        /\ \A u \in Thread : pc'[u] \in {"lock", "flags", "main", "vision", "infer", "unlock"} => req'[u] \in Request
    BY <2>1 DEF IInv, TypeOK, TypeCalls
  <2>5. answer' = [u \in Thread |-> [code |-> answer'[u].code, value |-> answer'[u].value]]
    BY <2>1 DEF IInv, TypeOK, TypeCalls
  <2> QED
    BY <2>2, <2>3, <2>4, <2>5 DEF TypeCalls
<1>4. Owner'
  BY DEF IInv, Owner, Holding, Loading, TypeOK, TypeLife, TypeCalls
<1>5. FlagsKept'
  BY DEF IInv, FlagsKept, Owner, Holding, Loading, TypeOK, TypeLife, TypeCalls, Flags
<1>6. GraphsBuilt'
  BY DEF IInv, GraphsBuilt, Owner, FlagsKept, Holding, Loading, TypeOK, TypeLife, TypeStore, TypeCalls
<1>7. Progress'
  <2>1. /\ pc'[t] \notin {"main", "vision", "infer"}
        /\ \A u \in Thread \ {t} : pc'[u] = pc[u] /\ on'[u] = on[u] /\ req'[u] = req[u]
    BY DEF IInv, TypeOK, TypeCalls
  <2>2. \A u \in Thread \ {t} : pc[u] \in {"vision", "infer"} => wants'[on[u]] = wants[on[u]]
    BY DEF IInv, Owner, Holding, Loading, TypeOK, TypeLife
  <2> QED
    BY <2>1, <2>2, ProgressKept
<1>8. AnswersItsRequest'
  BY DEF IInv, AnswersItsRequest, Progress, Reached, FlagsKept, GraphsBuilt, Owner, Holding, Loading, TypeOK, TypeCalls, TypeStore, TypeLife, Expected, MainKey, VisionKey, Embedding
<1>9. Timings'
  BY DEF IInv, Timings, StatsOfOneCall, Owner, Holding, TypeOK, TypeStore, TypeCalls, TypeLife
<1> QED
  BY <1>1, <1>2, <1>3, <1>4, <1>5, <1>6, <1>7, <1>8, <1>9 DEF IInv, TypeOK

LEMMA LockInv == ASSUME IInv, NEW t \in Thread, Lock(t) PROVE IInv'
<1> USE EngineAssumption DEF Lock, Goto, life, store
<1>1. TypeLife'
  BY DEF IInv, TypeOK, TypeLife, TypeCalls, Owner, Loading, Flags
<1>2. TypeStore'
  BY StoreKept DEF store
<1>3. TypeCalls'
  BY DEF IInv, TypeOK, TypeCalls, Owner, Holding
<1>4. Owner'
  BY DEF IInv, Owner, Holding, Loading, TypeOK, TypeLife, TypeCalls
<1>5. FlagsKept'
  BY DEF IInv, FlagsKept, Owner, Holding, Loading, TypeOK, TypeLife, TypeCalls, Flags
<1>6. GraphsBuilt'
  BY DEF IInv, GraphsBuilt, Owner, FlagsKept, Holding, Loading, TypeOK, TypeLife, TypeStore, TypeCalls
<1>7. Progress'
  <2>1. /\ pc'[t] \notin {"main", "vision", "infer"}
        /\ \A u \in Thread \ {t} : pc'[u] = pc[u] /\ on'[u] = on[u] /\ req'[u] = req[u]
    BY DEF IInv, TypeOK, TypeCalls
  <2>2. \A u \in Thread \ {t} : pc[u] \in {"vision", "infer"} => wants'[on[u]] = wants[on[u]]
    BY DEF IInv, Owner, Holding, Loading, TypeOK, TypeLife
  <2> QED
    BY <2>1, <2>2, ProgressKept
<1>8. AnswersItsRequest'
  BY DEF IInv, AnswersItsRequest, Progress, Reached, FlagsKept, GraphsBuilt, Owner, Holding, Loading, TypeOK, TypeCalls, TypeStore, TypeLife, Expected, MainKey, VisionKey, Embedding
<1>9. Timings'
  BY DEF IInv, Timings, StatsOfOneCall, Owner, Holding, TypeOK, TypeStore, TypeCalls, TypeLife
<1> QED
  BY <1>1, <1>2, <1>3, <1>4, <1>5, <1>6, <1>7, <1>8, <1>9 DEF IInv, TypeOK

LEMMA ReapplyInv == ASSUME IInv, NEW t \in Thread, Reapply(t) PROVE IInv'
<1> USE EngineAssumption DEF Reapply, SetFlags, Goto, NoStats, life
<1>1. TypeLife'
  <2>1. on[t] \in Handle /\ has[on[t]] \in Flags
    BY DEF IInv, Owner, FlagsKept, Holding
  <2>2. tls' \in [Thread -> Flags]
    BY <2>1 DEF IInv, TypeOK, TypeLife
  <2> QED
    BY <2>2 DEF IInv, TypeOK, TypeLife
<1>2. TypeStore'
  <2>1. UNCHANGED <<graph, input>> /\ stats' \in [Handle -> [vision : Nat, inference : Nat, total : Nat]]
    BY DEF IInv, TypeOK, TypeStore
  <2> QED
    BY <2>1 DEF IInv, TypeOK, TypeStore
<1>3. TypeCalls'
  BY DEF IInv, TypeOK, TypeCalls, Owner, Holding
<1>4. Owner'
  BY DEF IInv, Owner, Holding, Loading, TypeOK, TypeLife, TypeCalls
<1>5. FlagsKept'
  BY DEF IInv, FlagsKept, Owner, Holding, Loading, TypeOK, TypeLife, TypeCalls, Flags
<1>6. GraphsBuilt'
  BY DEF IInv, GraphsBuilt, Owner, FlagsKept, Holding, Loading, TypeOK, TypeLife, TypeStore, TypeCalls
<1>7. Progress'
  <2> SUFFICES ASSUME NEW u \in Thread PROVE Reached(u)'
    BY DEF Progress
  <2>1. CASE u = t
    <3>1. pc'[t] = IF req[t].op = "predict" THEN "main" ELSE "vision"
      BY DEF IInv, TypeOK, TypeCalls
    <3> QED
      BY <2>1, <3>1 DEF Reached, IInv, TypeOK, TypeCalls
  <2>2. CASE u # t
    <3>1. /\ pc'[u] = pc[u] /\ on'[u] = on[u] /\ req'[u] = req[u] /\ Reached(u)
      BY <2>2 DEF IInv, Progress, TypeOK, TypeCalls
    <3>2. pc[u] \in {"vision", "infer"} =>
            /\ graph'[on[u]].main = graph[on[u]].main
            /\ input'[on[u]].rows = input[on[u]].rows
            /\ wants'[on[u]] = wants[on[u]]
      BY <2>2 DEF IInv, Owner, Holding, Loading, TypeOK, TypeLife
    <3> QED
      BY <3>1, <3>2, ReachedKept
  <2> QED
    BY <2>1, <2>2
<1>8. AnswersItsRequest'
  BY DEF IInv, AnswersItsRequest, Progress, Reached, FlagsKept, GraphsBuilt, Owner, Holding, Loading, TypeOK, TypeCalls, TypeStore, TypeLife, Expected, MainKey, VisionKey, Embedding
<1>9. Timings'
  BY DEF IInv, Timings, StatsOfOneCall, Owner, Holding, TypeOK, TypeStore, TypeCalls, TypeLife
<1> QED
  BY <1>1, <1>2, <1>3, <1>4, <1>5, <1>6, <1>7, <1>8, <1>9 DEF IInv, TypeOK

LEMMA EnsureMainInv == ASSUME IInv, NEW t \in Thread, EnsureMain(t) PROVE IInv'
<1> DEFINE h == on[t]
           key == MainKey(req[t])
           x == IF Hit(graph[h].main, key) THEN graph[h].main ELSE Built(t, key)
           p == IF req[t].pre THEN "infer" ELSE "vision"
<1>1. pc[t] = "main" /\ h \in Handle /\ req[t] \in Request /\ graph \in Stores
  BY AtWork DEF EnsureMain
<1>2. req[t].op = "predict" /\ p \in {"infer", "vision"} /\ graph[h].main \in Graph /\ status[h] = "live"
  BY <1>1, AtWork DEF IInv, Progress, Reached, Stores
<1>3. pc' = [pc EXCEPT ![t] = p] /\ UNCHANGED <<tls, faViews, life, stats, mutex, on, req, answer, id, calls>>
  BY DEF EnsureMain, Goto
<1>4. graph' = [graph EXCEPT ![h].main = x]
  BY <1>1 DEF EnsureMain, Stores
<1>5. x \in Graph /\ x.valid /\ x.key = key /\ x.built = wants[h]
  <2>1. graph[h].main.valid => graph[h].main.built = wants[h]
    BY <1>1, <1>2 DEF IInv, GraphsBuilt
  <2> HIDE DEF x, key
  <2> QED
    BY <1>1, <1>2, <2>1, Chosen DEF x, key
<1> HIDE DEF x, key, p
<1>6. /\ graph' \in Stores /\ graph'[h].main = x /\ graph'[h].vision = graph[h].vision
      /\ \A i \in Handle \ {h} : graph'[i] = graph[i]
  BY <1>1, <1>4, <1>5, SetMain
<1>7. /\ TypeLife' /\ TypeCalls' /\ Owner' /\ FlagsKept'
      /\ \A u \in Thread \ {t} : pc'[u] = pc[u] /\ answer'[u] = answer[u]
      /\ pc'[t] = p
  BY <1>1, <1>2, <1>3, WorkKeeps
<1>8. /\ \A i \in Handle \ {h} : input'[i] = input[i]
      /\ input' = [i \in Handle |-> [rows |-> input'[i].rows, lang |-> input'[i].lang, mask |-> input'[i].mask]]
  <2>1. input = [i \in Handle |-> [rows |-> input[i].rows, lang |-> input[i].lang, mask |-> input[i].mask]]
    BY <1>1, AtWork
  <2>2. input' = input \/ input' = [input EXCEPT ![h] = NoInput]
    BY DEF EnsureMain
  <2> QED
    BY <1>1, <2>1, <2>2 DEF NoInput
<1>9. TypeStore'
  BY <1>3, <1>6, <1>8 DEF IInv, TypeOK, TypeStore, Stores
<1>10. GraphsBuilt'
  BY <1>1, <1>2, <1>3, <1>5, <1>6, GraphsBuiltKept DEF life, IInv, GraphsBuilt
<1>11. Reached(t)'
  BY <1>2, <1>3, <1>5, <1>6, <1>7 DEF Reached, MainKey, key, p
<1>12. Progress' /\ AnswersItsRequest'
  BY <1>1, <1>2, <1>3, <1>6, <1>7, <1>8, <1>11, OthersKeep DEF life
<1>13. Timings'
  BY <1>1, <1>2, <1>3, <1>7, TimingsKept
<1> QED
  BY <1>7, <1>9, <1>10, <1>12, <1>13 DEF IInv, TypeOK

LEMMA VisionInv == ASSUME IInv, NEW t \in Thread, Vision(t) PROVE IInv'
<1> DEFINE h == on[t]
           r == req[t]
           key == VisionKey(r)
           x == IF Hit(graph[h].vision, key) THEN graph[h].vision ELSE Built(t, key)
           e == Embedding(r, x.key, x.built)
           p == IF r.op = "predict" THEN "infer" ELSE "unlock"
<1>1. pc[t] = "vision" /\ h \in Handle /\ r \in Request /\ graph \in Stores
  BY AtWork DEF Vision
<1>2. p \in {"infer", "unlock"} /\ graph[h].vision \in Graph /\ status[h] = "live" /\ id[t] \in Nat
  BY <1>1, AtWork DEF Stores
<1>3. pc' = [pc EXCEPT ![t] = p] /\ UNCHANGED <<tls, faViews, life, mutex, on, req, id, calls>>
  BY DEF Vision, Goto
<1>4. graph' = [graph EXCEPT ![h].vision = x]
  BY DEF Vision
<1>5. x \in Graph /\ x.valid /\ x.key = key /\ x.built = wants[h]
  <2>1. graph[h].vision.valid => graph[h].vision.built = wants[h]
    BY <1>1, <1>2 DEF IInv, GraphsBuilt
  <2> HIDE DEF x, key
  <2> QED
    BY <1>1, <1>2, <2>1, Chosen DEF x, key
<1>a. \/ /\ r.op = "predict" /\ input' = [input EXCEPT ![h].rows = e]
         /\ stats' = [stats EXCEPT ![h].vision = id[t]] /\ answer' = answer
      \/ /\ r.op # "predict" /\ answer' = [answer EXCEPT ![t] = Answer("ok", e)] /\ input' = input
         /\ stats' = [stats EXCEPT ![h].vision = id[t], ![h].total = id[t]]
  BY DEF Vision
<1>b. e = Embedding(r, VisionKey(r), wants[h])
  BY <1>5
<1>c. r.op \in {"predict", "encode"}
  BY <1>1, EngineAssumption
<1> HIDE DEF x, key, p, e
<1>6. /\ graph' \in Stores /\ graph'[h].vision = x /\ graph'[h].main = graph[h].main
      /\ \A i \in Handle \ {h} : graph'[i] = graph[i]
  BY <1>1, <1>4, <1>5, SetVision
<1>7. /\ TypeLife' /\ TypeCalls' /\ Owner' /\ FlagsKept'
      /\ \A u \in Thread \ {t} : pc'[u] = pc[u] /\ answer'[u] = answer[u]
      /\ pc'[t] = p
  <2>1. answer' = answer \/ \E c, y : answer' = [answer EXCEPT ![t] = Answer(c, y)]
    BY <1>a, Zenon
  <2> QED
    BY <1>1, <1>2, <1>3, <2>1, WorkKeeps
<1>8. /\ \A i \in Handle \ {h} : input'[i] = input[i] /\ stats'[i] = stats[i]
      /\ input' = [i \in Handle |-> [rows |-> input'[i].rows, lang |-> input'[i].lang, mask |-> input'[i].mask]]
      /\ r.op = "predict" => input'[h].rows = e
      /\ stats' \in [Handle -> [vision : Nat, inference : Nat, total : Nat]]
      /\ stats'[h].vision = id[t] /\ stats'[h].inference = stats[h].inference
      /\ stats'[h].total \in {stats[h].total, id[t]}
  <2>1. /\ input = [i \in Handle |-> [rows |-> input[i].rows, lang |-> input[i].lang, mask |-> input[i].mask]]
        /\ stats \in [Handle -> [vision : Nat, inference : Nat, total : Nat]]
    BY <1>1, AtWork
  <2>2. \/ stats' = [stats EXCEPT ![h].vision = id[t]]
        \/ stats' = [stats EXCEPT ![h].vision = id[t], ![h].total = id[t]]
    BY <1>a
  <2>4. stats' \in [Handle -> [vision : Nat, inference : Nat, total : Nat]]
    <3>1. /\ [stats[h] EXCEPT !.vision = id[t]] \in [vision : Nat, inference : Nat, total : Nat]
          /\ [stats[h] EXCEPT !.vision = id[t], !.total = id[t]] \in [vision : Nat, inference : Nat, total : Nat]
      BY <1>1, <1>2, <2>1
    <3> QED
      BY <1>1, <2>1, <2>2, <3>1
  <2>5. /\ \A i \in Handle \ {h} : stats'[i] = stats[i]
        /\ stats'[h].vision = id[t] /\ stats'[h].inference = stats[h].inference
        /\ stats'[h].total \in {stats[h].total, id[t]}
    BY <1>1, <1>2, <2>1, <2>2
  <2>6. /\ \A i \in Handle \ {h} : input'[i] = input[i]
        /\ input' = [i \in Handle |-> [rows |-> input'[i].rows, lang |-> input'[i].lang, mask |-> input'[i].mask]]
        /\ r.op = "predict" => input'[h].rows = e
    BY <1>1, <1>2, <2>1, <1>a
  <2> QED
    BY <2>4, <2>5, <2>6
<1>9. TypeStore'
  BY <1>6, <1>8 DEF TypeStore, Stores
<1>10. GraphsBuilt'
  BY <1>1, <1>2, <1>3, <1>5, <1>6, GraphsBuiltKept DEF life, IInv, GraphsBuilt
<1>11. Reached(t)'
  <2>1. r.op = "predict" => graph[h].main.valid /\ graph[h].main.key = MainKey(r)
    BY <1>1 DEF IInv, Progress, Reached
  <2> QED
    BY <1>3, <1>6, <1>7, <1>8, <1>b, <2>1 DEF Reached, MainKey, VisionKey, Embedding, p, life
<1>12. answer'[t].code = "ok" /\ pc'[t] = "unlock" => answer'[t].value = Expected(r, wants[h])
  <2>1. pc'[t] = "unlock" => r.op = "encode" /\ answer' = [answer EXCEPT ![t] = Answer("ok", e)]
    BY <1>7, <1>a, <1>c DEF p
  <2>2. DOMAIN answer = Thread
    BY DEF IInv, TypeOK, TypeCalls
  <2> QED
    BY <1>b, <2>1, <2>2 DEF Answer, Expected
<1>13. Progress' /\ AnswersItsRequest'
  BY <1>1, <1>2, <1>3, <1>6, <1>7, <1>8, <1>11, <1>12, OthersKeep DEF life
<1>14. Timings'
  BY <1>1, <1>2, <1>3, <1>7, <1>8, TimingsKept
<1> QED
  BY <1>7, <1>9, <1>10, <1>13, <1>14 DEF IInv, TypeOK

LEMMA InferInv == ASSUME IInv, NEW t \in Thread, Infer(t) PROVE IInv'
<1> DEFINE h == on[t]
           r == req[t]
           in == Fill(h, r)
           a == [key |-> graph[h].main.key, built |-> graph[h].main.built, in |-> in]
<1>1. /\ pc[t] = "infer" /\ h \in Handle /\ r \in Request /\ graph \in Stores
      /\ id[t] \in Nat /\ status[h] = "live"
  BY AtWork DEF Infer
<1>2. pc' = [pc EXCEPT ![t] = "unlock"] /\ UNCHANGED <<tls, faViews, life, graph, mutex, on, req, id, calls>>
  BY DEF Infer, Goto
<1>3. /\ answer' = [answer EXCEPT ![t] = Answer("ok", a)]
      /\ input' = [input EXCEPT ![h] = in]
      /\ stats' = [stats EXCEPT ![h].inference = id[t], ![h].total = id[t]]
  BY DEF Infer
<1>4. a = Expected(r, wants[h])
  <2>1. graph[h].main.valid /\ graph[h].main.key = MainKey(r) /\ r.op = "predict"
    BY <1>1 DEF IInv, Progress, Reached
  <2>2. graph[h].main.built = wants[h]
    BY <1>1, <2>1 DEF IInv, GraphsBuilt
  <2>3. ~r.pre => input[h].rows = Embedding(r, VisionKey(r), wants[h])
    BY <1>1 DEF IInv, Progress, Reached
  <2>4. in = [rows |-> Embedding(r, VisionKey(r), IF r.pre THEN None ELSE wants[h]), lang |-> r.says, mask |-> r.n]
    BY <2>3 DEF Fill, Rows
  <2> QED
    BY <2>1, <2>2, <2>4 DEF Expected
<1>5. in = [rows |-> in.rows, lang |-> in.lang, mask |-> in.mask]
  BY DEF Fill
<1> HIDE DEF in, a
<1>6. /\ TypeLife' /\ TypeCalls' /\ Owner' /\ FlagsKept'
      /\ \A u \in Thread \ {t} : pc'[u] = pc[u] /\ answer'[u] = answer[u]
      /\ pc'[t] = "unlock"
  BY <1>1, <1>2, <1>3, WorkKeeps
<1>7. /\ \A i \in Handle \ {h} : input'[i] = input[i] /\ stats'[i] = stats[i]
      /\ input' = [i \in Handle |-> [rows |-> input'[i].rows, lang |-> input'[i].lang, mask |-> input'[i].mask]]
      /\ stats' \in [Handle -> [vision : Nat, inference : Nat, total : Nat]]
      /\ stats'[h].vision = stats[h].vision /\ stats'[h].inference = id[t] /\ stats'[h].total = id[t]
  <2>1. /\ input = [i \in Handle |-> [rows |-> input[i].rows, lang |-> input[i].lang, mask |-> input[i].mask]]
        /\ stats \in [Handle -> [vision : Nat, inference : Nat, total : Nat]]
    BY <1>1, AtWork
  <2> QED
    BY <1>1, <1>3, <1>5, <2>1
<1>8. TypeStore'
  BY <1>1, <1>2, <1>7 DEF TypeStore, Stores
<1>9. GraphsBuilt'
  BY <1>2 DEF life, IInv, GraphsBuilt
<1>10. Reached(t)'
  BY <1>6, ReachedElsewhere
<1>11. answer'[t].value = Expected(r, wants[h])
  <2>1. DOMAIN answer = Thread
    BY DEF IInv, TypeOK, TypeCalls
  <2> QED
    BY <1>3, <1>4, <2>1 DEF Answer
<1>12. Progress' /\ AnswersItsRequest'
  BY <1>1, <1>2, <1>6, <1>7, <1>10, <1>11, OthersKeep DEF life
<1>13. Timings'
  BY <1>1, <1>2, <1>6, <1>7, TimingsKept
<1> QED
  BY <1>6, <1>8, <1>9, <1>12, <1>13 DEF IInv, TypeOK

LEMMA RequestFailsInv == ASSUME IInv, NEW t \in Thread, RequestFails(t) PROVE IInv'
<1> USE EngineAssumption DEF RequestFails, Failed, Goto, Answer, life, store
<1>1. TypeLife'
  BY DEF IInv, TypeOK, TypeLife, TypeCalls, Owner, Loading, Flags
<1>2. TypeStore'
  BY StoreKept DEF store
<1>3. TypeCalls'
  BY DEF IInv, TypeOK, TypeCalls, Owner, Holding
<1>4. Owner'
  BY DEF IInv, Owner, Holding, Loading, TypeOK, TypeLife, TypeCalls
<1>5. FlagsKept'
  BY DEF IInv, FlagsKept, Owner, Holding, Loading, TypeOK, TypeLife, TypeCalls, Flags
<1>6. GraphsBuilt'
  BY DEF IInv, GraphsBuilt, Owner, FlagsKept, Holding, Loading, TypeOK, TypeLife, TypeStore, TypeCalls
<1>7. Progress'
  <2>1. /\ pc'[t] \notin {"main", "vision", "infer"}
        /\ \A u \in Thread \ {t} : pc'[u] = pc[u] /\ on'[u] = on[u] /\ req'[u] = req[u]
    BY DEF IInv, TypeOK, TypeCalls
  <2>2. \A u \in Thread \ {t} : pc[u] \in {"vision", "infer"} => wants'[on[u]] = wants[on[u]]
    BY DEF IInv, Owner, Holding, Loading, TypeOK, TypeLife
  <2> QED
    BY <2>1, <2>2, ProgressKept
<1>8. AnswersItsRequest'
  BY DEF IInv, AnswersItsRequest, Progress, Reached, FlagsKept, GraphsBuilt, Owner, Holding, Loading, TypeOK, TypeCalls, TypeStore, TypeLife, Expected, MainKey, VisionKey, Embedding
<1>9. Timings'
  BY DEF IInv, Timings, StatsOfOneCall, Owner, Holding, TypeOK, TypeStore, TypeCalls, TypeLife
<1> QED
  BY <1>1, <1>2, <1>3, <1>4, <1>5, <1>6, <1>7, <1>8, <1>9 DEF IInv, TypeOK

LEMMA BuildFailsInv == ASSUME IInv, NEW t \in Thread, BuildFails(t) PROVE IInv'
<1> DEFINE h == on[t]
<1>1. /\ pc[t] \in {"main", "vision"} /\ h \in Handle /\ graph \in Stores
      /\ id[t] \in Nat /\ status[h] = "live"
  BY AtWork DEF BuildFails
<1>2. /\ pc' = [pc EXCEPT ![t] = "unlock"] /\ UNCHANGED <<tls, faViews, life, mutex, on, req, id, calls>>
      /\ answer' = [answer EXCEPT ![t] = Answer("failed", None)]
  BY DEF BuildFails, Failed, Goto
<1>3. /\ graph' \in Stores /\ \A i \in Handle \ {h} : graph'[i] = graph[i]
      /\ graph'[h].main \in {NoGraph, graph[h].main} /\ graph'[h].vision \in {NoGraph, graph[h].vision}
  <2>1. graph' = [graph EXCEPT ![h].main = NoGraph] \/ graph' = [graph EXCEPT ![h].vision = NoGraph]
    BY DEF BuildFails
  <2> QED
    BY <1>1, <2>1, GraphsOfType, SetMain, SetVision
<1>4. ~NoGraph.valid
  BY DEF NoGraph
<1>5. /\ TypeLife' /\ TypeCalls' /\ Owner' /\ FlagsKept'
      /\ \A u \in Thread \ {t} : pc'[u] = pc[u] /\ answer'[u] = answer[u]
      /\ pc'[t] = "unlock"
  BY <1>1, <1>2, WorkKeeps
<1>6. /\ \A i \in Handle \ {h} : input'[i] = input[i] /\ stats'[i] = stats[i]
      /\ input' = [i \in Handle |-> [rows |-> input'[i].rows, lang |-> input'[i].lang, mask |-> input'[i].mask]]
      /\ stats' \in [Handle -> [vision : Nat, inference : Nat, total : Nat]]
      /\ stats'[h].vision \in {stats[h].vision, id[t]} /\ stats'[h].inference = stats[h].inference
      /\ stats'[h].total \in {stats[h].total, id[t]}
  <2>1. /\ input = [i \in Handle |-> [rows |-> input[i].rows, lang |-> input[i].lang, mask |-> input[i].mask]]
        /\ stats \in [Handle -> [vision : Nat, inference : Nat, total : Nat]]
    BY <1>1, AtWork
  <2>2. input' = input \/ input' = [input EXCEPT ![h] = NoInput]
    BY DEF BuildFails
  <2>3. stats' = stats \/ stats' = [stats EXCEPT ![h].vision = id[t], ![h].total = id[t]]
    BY DEF BuildFails
  <2>4. stats' \in [Handle -> [vision : Nat, inference : Nat, total : Nat]]
    BY <1>1, <2>1, <2>3
  <2>5. /\ \A i \in Handle \ {h} : stats'[i] = stats[i]
        /\ stats'[h].vision \in {stats[h].vision, id[t]} /\ stats'[h].inference = stats[h].inference
        /\ stats'[h].total \in {stats[h].total, id[t]}
    BY <1>1, <2>1, <2>3
  <2>6. /\ \A i \in Handle \ {h} : input'[i] = input[i]
        /\ input' = [i \in Handle |-> [rows |-> input'[i].rows, lang |-> input'[i].lang, mask |-> input'[i].mask]]
    BY <1>1, <2>1, <2>2 DEF NoInput
  <2> QED
    BY <2>4, <2>5, <2>6
<1>7. TypeStore'
  BY <1>3, <1>6 DEF TypeStore, Stores
<1>8. GraphsBuilt'
  BY <1>1, <1>2, <1>3, <1>4, GraphsBuiltKept DEF life, IInv, GraphsBuilt
<1>9. Reached(t)'
  BY <1>5, ReachedElsewhere
<1>10. answer'[t].code # "ok"
  BY <1>2 DEF IInv, TypeOK, TypeCalls, Answer
<1>11. Progress' /\ AnswersItsRequest'
  BY <1>1, <1>2, <1>3, <1>5, <1>6, <1>9, <1>10, OthersKeep DEF life
<1>12. Timings'
  BY <1>1, <1>2, <1>5, <1>6, TimingsKept
<1> QED
  BY <1>5, <1>7, <1>8, <1>11, <1>12 DEF IInv, TypeOK

LEMMA ComputeFailsInv == ASSUME IInv, NEW t \in Thread, ComputeFails(t) PROVE IInv'
<1> DEFINE h == on[t]
           r == req[t]
           key == VisionKey(r)
           x == IF Hit(graph[h].vision, key) THEN graph[h].vision ELSE Built(t, key)
<1>1. /\ pc[t] \in {"vision", "infer"} /\ h \in Handle /\ r \in Request /\ graph \in Stores
      /\ id[t] \in Nat /\ status[h] = "live" /\ graph[h].vision \in Graph
  BY AtWork DEF ComputeFails, Stores
<1>2. /\ pc' = [pc EXCEPT ![t] = "unlock"] /\ UNCHANGED <<tls, faViews, life, mutex, on, req, id, calls>>
      /\ answer' = [answer EXCEPT ![t] = Answer("failed", None)]
  BY DEF ComputeFails, Failed, Goto
<1>3. /\ graph' \in Stores /\ \A i \in Handle \ {h} : graph'[i] = graph[i]
      /\ graph'[h].main = graph[h].main
      /\ graph'[h].vision.valid => graph'[h].vision = graph[h].vision \/ graph'[h].vision.built = wants[h]
  <2>1. CASE pc[t] = "infer"
    BY <1>1, <2>1 DEF ComputeFails
  <2>2. CASE pc[t] = "vision"
    <3>1. graph[h].vision.valid => graph[h].vision.built = wants[h]
      BY <1>1 DEF IInv, GraphsBuilt
    <3>2. graph' = [graph EXCEPT ![h].vision = x]
      BY <2>2 DEF ComputeFails
    <3> HIDE DEF x, key
    <3>3. x \in Graph /\ x.built = wants[h]
      BY <1>1, <2>2, <3>1, Chosen DEF x, key
    <3> QED
      BY <1>1, <3>2, <3>3, SetVision
  <2> QED
    BY <1>1, <2>1, <2>2
<1>4. /\ TypeLife' /\ TypeCalls' /\ Owner' /\ FlagsKept'
      /\ \A u \in Thread \ {t} : pc'[u] = pc[u] /\ answer'[u] = answer[u]
      /\ pc'[t] = "unlock"
  BY <1>1, <1>2, WorkKeeps
<1>5. /\ \A i \in Handle \ {h} : input'[i] = input[i] /\ stats'[i] = stats[i]
      /\ input' = [i \in Handle |-> [rows |-> input'[i].rows, lang |-> input'[i].lang, mask |-> input'[i].mask]]
      /\ stats' \in [Handle -> [vision : Nat, inference : Nat, total : Nat]]
      /\ stats'[h].vision \in {stats[h].vision, id[t]} /\ stats'[h].inference \in {stats[h].inference, id[t]}
      /\ stats'[h].total \in {stats[h].total, id[t]}
  <2>1. /\ input = [i \in Handle |-> [rows |-> input[i].rows, lang |-> input[i].lang, mask |-> input[i].mask]]
        /\ stats \in [Handle -> [vision : Nat, inference : Nat, total : Nat]]
    BY <1>1, AtWork
  <2>2. input' = input \/ input' = [input EXCEPT ![h] = Fill(h, r)]
    BY DEF ComputeFails
  <2>3. \/ stats' = stats \/ stats' = [stats EXCEPT ![h].vision = id[t], ![h].total = id[t]]
        \/ stats' = [stats EXCEPT ![h].inference = id[t]]
    BY DEF ComputeFails
  <2>4. stats' \in [Handle -> [vision : Nat, inference : Nat, total : Nat]]
    BY <1>1, <2>1, <2>3
  <2>5. /\ \A i \in Handle \ {h} : stats'[i] = stats[i]
        /\ stats'[h].vision \in {stats[h].vision, id[t]} /\ stats'[h].inference \in {stats[h].inference, id[t]}
        /\ stats'[h].total \in {stats[h].total, id[t]}
    BY <1>1, <2>1, <2>3
  <2>6. /\ \A i \in Handle \ {h} : input'[i] = input[i]
        /\ input' = [i \in Handle |-> [rows |-> input'[i].rows, lang |-> input'[i].lang, mask |-> input'[i].mask]]
    BY <1>1, <2>1, <2>2 DEF Fill
  <2> QED
    BY <2>4, <2>5, <2>6
<1>6. TypeStore'
  BY <1>3, <1>5 DEF TypeStore, Stores
<1>7. GraphsBuilt'
  BY <1>1, <1>2, <1>3, GraphsBuiltKept DEF life, IInv, GraphsBuilt
<1>8. Reached(t)'
  BY <1>4, ReachedElsewhere
<1>9. answer'[t].code # "ok"
  BY <1>2 DEF IInv, TypeOK, TypeCalls, Answer
<1>10. Progress' /\ AnswersItsRequest'
  BY <1>1, <1>2, <1>3, <1>4, <1>5, <1>8, <1>9, OthersKeep DEF life
<1>11. Timings'
  BY <1>1, <1>2, <1>4, <1>5, TimingsKept
<1> QED
  BY <1>4, <1>6, <1>7, <1>10, <1>11 DEF IInv, TypeOK

LEMMA UnlockInv == ASSUME IInv, NEW t \in Thread, Unlock(t) PROVE IInv'
<1> USE EngineAssumption DEF Unlock, Return, Goto, Answer, life, store
<1>1. TypeLife'
  BY DEF IInv, TypeOK, TypeLife, TypeCalls, Owner, Loading, Flags
<1>2. TypeStore'
  BY StoreKept DEF store
<1>3. TypeCalls'
  <2>1. /\ pc' = [pc EXCEPT ![t] = "idle"] /\ UNCHANGED <<on, req, id, calls>>
        /\ answer' = [answer EXCEPT ![t] = answer[t]] \/ answer' = [answer EXCEPT ![t] = Answer("exception", None)]
    OBVIOUS
  <2>2. answer = [u \in Thread |-> [code |-> answer[u].code, value |-> answer[u].value]]
    BY DEF IInv, TypeOK, TypeCalls
  <2>3. answer' = [u \in Thread |-> [code |-> answer'[u].code, value |-> answer'[u].value]]
    BY <2>1, <2>2
  <2> QED
    BY <2>1, <2>3 DEF IInv, TypeOK, TypeCalls
<1>4. Owner'
  <2>1. /\ pc' = [pc EXCEPT ![t] = "idle"] /\ mutex' = [mutex EXCEPT ![on[t]] = None]
        /\ on[t] \in Handle /\ mutex[on[t]] = t
    BY AtWork
  <2>2. pc'[t] = "idle" /\ \A u \in Thread \ {t} : pc'[u] = pc[u]
    BY <2>1 DEF IInv, TypeOK, TypeCalls
  <2>3. ASSUME NEW u \in Thread \ {t}, pc[u] \in Holding PROVE mutex'[on[u]] = u
    BY <2>1, <2>3, Alone DEF IInv, Owner, TypeOK, TypeLife, Holding
  <2> QED
    BY <2>2, <2>3 DEF IInv, Owner, Holding, Loading
<1>5. FlagsKept'
  BY DEF IInv, FlagsKept, Owner, Holding, Loading, TypeOK, TypeLife, TypeCalls, Flags
<1>6. GraphsBuilt'
  BY DEF IInv, GraphsBuilt, Owner, FlagsKept, Holding, Loading, TypeOK, TypeLife, TypeStore, TypeCalls
<1>7. Progress'
  <2>1. /\ pc'[t] \notin {"main", "vision", "infer"}
        /\ \A u \in Thread \ {t} : pc'[u] = pc[u] /\ on'[u] = on[u] /\ req'[u] = req[u]
    BY DEF IInv, TypeOK, TypeCalls
  <2>2. \A u \in Thread \ {t} : pc[u] \in {"vision", "infer"} => wants'[on[u]] = wants[on[u]]
    BY DEF IInv, Owner, Holding, Loading, TypeOK, TypeLife
  <2> QED
    BY <2>1, <2>2, ProgressKept
<1>8. AnswersItsRequest'
  <2>1. /\ pc' = [pc EXCEPT ![t] = "idle"] /\ UNCHANGED <<on, req, wants>>
        /\ answer' = [answer EXCEPT ![t] = answer[t]] \/ answer' = [answer EXCEPT ![t] = Answer("exception", None)]
    OBVIOUS
  <2>2. /\ pc'[t] = "idle"
        /\ \A u \in Thread \ {t} : pc'[u] = pc[u] /\ answer'[u] = answer[u]
    BY <2>1 DEF IInv, TypeOK, TypeCalls
  <2>3. ASSUME NEW u \in Thread, pc'[u] = "unlock", answer'[u].code = "ok"
        PROVE  answer'[u].value = Expected(req[u], wants[on[u]])
    BY <2>2, <2>3 DEF IInv, AnswersItsRequest
  <2>4. \A u \in Thread : Expected(req[u], wants[on[u]])' = Expected(req[u], wants[on[u]])
    BY <2>1 DEF Expected, MainKey, VisionKey, Embedding
  <2> QED
    BY <2>3, <2>4 DEF AnswersItsRequest
<1>9. Timings'
  BY DEF IInv, Timings, StatsOfOneCall, Owner, Holding, TypeOK, TypeStore, TypeCalls, TypeLife
<1> QED
  BY <1>1, <1>2, <1>3, <1>4, <1>5, <1>6, <1>7, <1>8, <1>9 DEF IInv, TypeOK

LEMMA LastStatsInv == ASSUME IInv, NEW t \in Thread, LastStats(t) PROVE IInv'
<1> USE EngineAssumption DEF LastStats, Begin, Answer, life, store
<1>1. TypeLife'
  BY DEF IInv, TypeOK, TypeLife, TypeCalls, Owner, Loading, Flags
<1>2. TypeStore'
  BY StoreKept DEF store
<1>3. TypeCalls'
  <2>1. PICK h \in Handle : answer' = [answer EXCEPT ![t] = [code |-> "ok", value |-> stats[h]]] /\ on' = [on EXCEPT ![t] = h]
    OBVIOUS
  <2>2. answer' = [u \in Thread |-> [code |-> answer'[u].code, value |-> answer'[u].value]]
    BY <2>1 DEF IInv, TypeOK, TypeCalls
  <2>3. on' \in [Thread -> {None} \cup Handle]
    BY <2>1 DEF IInv, TypeOK, TypeCalls
  <2>4. calls' \in Nat /\ id' \in [Thread -> Nat] /\ UNCHANGED <<pc, req>>
    BY DEF IInv, TypeOK, TypeCalls
  <2> QED
    BY <2>2, <2>3, <2>4 DEF IInv, TypeOK, TypeCalls
<1>4. Owner'
  BY DEF IInv, Owner, Holding, Loading, TypeOK, TypeLife, TypeCalls
<1>5. FlagsKept'
  BY DEF IInv, FlagsKept, Owner, Holding, Loading, TypeOK, TypeLife, TypeCalls, Flags
<1>6. GraphsBuilt'
  BY DEF IInv, GraphsBuilt, Owner, FlagsKept, Holding, Loading, TypeOK, TypeLife, TypeStore, TypeCalls
<1>7. Progress'
  <2>1. /\ pc'[t] \notin {"main", "vision", "infer"}
        /\ \A u \in Thread \ {t} : pc'[u] = pc[u] /\ on'[u] = on[u] /\ req'[u] = req[u]
    BY DEF IInv, TypeOK, TypeCalls
  <2>2. \A u \in Thread \ {t} : pc[u] \in {"vision", "infer"} => wants'[on[u]] = wants[on[u]]
    BY DEF IInv, Owner, Holding, Loading, TypeOK, TypeLife
  <2> QED
    BY <2>1, <2>2, ProgressKept
<1>8. AnswersItsRequest'
  BY DEF IInv, AnswersItsRequest, Progress, Reached, FlagsKept, GraphsBuilt, Owner, Holding, Loading, TypeOK, TypeCalls, TypeStore, TypeLife, Expected, MainKey, VisionKey, Embedding
<1>9. Timings'
  BY DEF IInv, Timings, StatsOfOneCall, Owner, Holding, TypeOK, TypeStore, TypeCalls, TypeLife
<1> QED
  BY <1>1, <1>2, <1>3, <1>4, <1>5, <1>6, <1>7, <1>8, <1>9 DEF IInv, TypeOK

LEMMA FreeUnusedInv == ASSUME IInv, NEW t \in Thread, FreeUnused(t) PROVE IInv'
<1> USE EngineAssumption DEF FreeUnused, Free, Begin, InUse, Answer, NoAnswer, store
<1>1. TypeLife'
  BY DEF IInv, TypeOK, TypeLife, TypeCalls, Owner, Loading, Flags
<1>2. TypeStore'
  BY StoreKept DEF store
<1>3. TypeCalls'
  BY DEF IInv, TypeOK, TypeCalls, Owner, Holding
<1>4. Owner'
  BY DEF IInv, Owner, Holding, Loading, TypeOK, TypeLife, TypeCalls
<1>5. FlagsKept'
  BY DEF IInv, FlagsKept, Owner, Holding, Loading, TypeOK, TypeLife, TypeCalls, Flags
<1>6. GraphsBuilt'
  BY DEF IInv, GraphsBuilt, Owner, FlagsKept, Holding, Loading, TypeOK, TypeLife, TypeStore, TypeCalls
<1>7. Progress'
  <2>1. /\ pc'[t] \notin {"main", "vision", "infer"}
        /\ \A u \in Thread \ {t} : pc'[u] = pc[u] /\ on'[u] = on[u] /\ req'[u] = req[u]
    BY DEF IInv, TypeOK, TypeCalls
  <2>2. \A u \in Thread \ {t} : pc[u] \in {"vision", "infer"} => wants'[on[u]] = wants[on[u]]
    BY DEF IInv, Owner, Holding, Loading, TypeOK, TypeLife
  <2> QED
    BY <2>1, <2>2, ProgressKept
<1>8. AnswersItsRequest'
  BY DEF IInv, AnswersItsRequest, Progress, Reached, FlagsKept, GraphsBuilt, Owner, Holding, Loading, TypeOK, TypeCalls, TypeStore, TypeLife, Expected, MainKey, VisionKey, Embedding
<1>9. Timings'
  BY DEF IInv, Timings, StatsOfOneCall, Owner, Holding, TypeOK, TypeStore, TypeCalls, TypeLife
<1> QED
  BY <1>1, <1>2, <1>3, <1>4, <1>5, <1>6, <1>7, <1>8, <1>9 DEF IInv, TypeOK

LEMMA InitInv == Init => IInv
<1> SUFFICES ASSUME Init PROVE IInv
  OBVIOUS
<1> USE EngineAssumption DEF Init, NoGraph, NoInput, NoStats, NoAnswer, Answer
<1>1. TypeOK
  BY DEF TypeOK, TypeLife, TypeStore, TypeCalls, Flags, Graph
<1>2. Owner /\ FlagsKept /\ GraphsBuilt /\ Progress /\ AnswersItsRequest
  BY DEF Owner, FlagsKept, GraphsBuilt, Progress, Reached, AnswersItsRequest, Holding, Loading
<1>3. Timings
  <2>1. 0 \in 0 .. MaxCalls
    OBVIOUS
  <2> QED
    BY <2>1 DEF Timings, StatsOfOneCall
<1> QED
  BY <1>1, <1>2, <1>3 DEF IInv

LEMMA StepInv == IInv /\ [Next]_vars => IInv'
<1> SUFFICES ASSUME IInv, [Next]_vars PROVE IInv'
  OBVIOUS
<1>1. ASSUME NEW t \in Thread,
             Load(t) \/ Refuse(t) \/ Call(t) \/ LastStats(t) \/ FreeUnused(t) \/ InCall(t)
      PROVE  IInv'
  BY <1>1, LoadInv, CreateInv, NewHandleInv, LoadFailsInv, RefuseInv, CallInv, LockInv, ReapplyInv,
     EnsureMainInv, VisionInv, InferInv, RequestFailsInv, BuildFailsInv, ComputeFailsInv, UnlockInv,
     LastStatsInv, FreeUnusedInv DEF InCall
<1>2. CASE UNCHANGED vars
  <2> USE <1>2 DEF vars, life, store, api
  <2>1. TypeOK'
    BY DEF IInv, TypeOK, TypeLife, TypeStore, TypeCalls
  <2>2. Owner' /\ FlagsKept' /\ GraphsBuilt' /\ Timings'
    BY DEF IInv, Owner, FlagsKept, GraphsBuilt, Timings, StatsOfOneCall
  <2>3. Progress' /\ AnswersItsRequest'
    BY DEF IInv, Progress, Reached, AnswersItsRequest, Expected, MainKey, VisionKey, Embedding
  <2> QED
    BY <2>1, <2>2, <2>3 DEF IInv
<1> QED
  BY <1>1, <1>2 DEF Next

LEMMA Invariance == Spec => []IInv
BY InitInv, StepInv, PTL DEF Spec

-----------------------------------------------------------------------------
(* Every variable keeps its type. *)
THEOREM TypeCorrect == Spec => []TypeOK
<1>1. IInv => TypeOK
  BY DEF IInv
<1> QED
  BY <1>1, Invariance, PTL

(* A call that succeeds answers its own request with the flags the load    *)
(* decided on (the flags re-applied in vla_predict, options.cpp), from a   *)
(* graph of its shape and inputs it filled itself (graph_cache::ensure),   *)
(* whatever other threads, handles and failed calls do in between.         *)
THEOREM Answers == Spec => []AnswersItsRequest
<1>1. IInv => AnswersItsRequest
  BY DEF IInv
<1> QED
  BY <1>1, Invariance, PTL

(* What vla_last_stats reads under the mutex is of one call.               *)
THEOREM OneCallsStats == Spec => []StatsOfOneCall
<1>1. IInv => StatsOfOneCall
  BY DEF IInv, Timings
<1> QED
  BY <1>1, Invariance, PTL
=============================================================================
