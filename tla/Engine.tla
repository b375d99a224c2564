------------------------------- MODULE Engine -------------------------------
(***************************************************************************)
(* The embedding API (src/src/vla_c_api.cpp, model.cpp, options.cpp) with  *)
(* pi05 standing for the archs: several threads load models and call       *)
(* predict, encode_images, last_stats and free on the handles. Attention   *)
(* flags are thread-local and re-applied on every call, a handle's calls   *)
(* are serialized by its mutex, and the compute graphs are kept from call  *)
(* to call (graph_cache, src/src/scratch_ctx.h).                           *)
(*                                                                         *)
(* The images and the language tokens of a request are one value each.     *)
(* What a graph computes is the record of how it was built and of what its *)
(* inputs held. Every call has a number.                                   *)
(***************************************************************************)
EXTENDS Naturals

CONSTANTS
  Thread, Handle,
  Option,       \* what a load may be asked for: [flash, mm]
  Request,      \* predict and encode_images inputs: [views, n, says, pre]
  Padded(_),    \* the token count a graph is built for (lang_bucket)
  Backend,      \* what backend_init may come up with
  DefaultFlash, \* what the build takes for flash attention that is not asked for (Hexagon)
  ViewTaking,   \* the backends whose flash attention reads strided views (SYCL)
  MaxCalls,     \* bound on API calls
  None

VARIABLES
  tls,      \* each thread's flags
  faViews,  \* g_fa_views, one for the process
  status,   \* where each handle is in its life
  has,      \* m->fa and m->mm
  runsOn,   \* the handle's backend
  wants,    \* auxiliary: the flags the load decided on
  graph,    \* the handle's two graph_caches
  input,    \* what the inputs of the handle's graphs hold
  stats,    \* the handle's phase timings, as the numbers of the calls that took them
  mutex,    \* the handle's mutex
  pc, on, req, answer,  \* each thread's call: where it is, its handle, request and result
  id,       \* the number of each thread's call
  calls

api   == <<pc, on, req, answer, id, calls>>
store == <<graph, input, stats>>
life  == <<status, has, runsOn, wants>>
vars  == <<tls, faViews, life, store, mutex, api>>

Flags == [flash : BOOLEAN, mm : BOOLEAN]

NoStats == [vision |-> 0, inference |-> 0, total |-> 0]
NoGraph == [valid |-> FALSE, key |-> None, built |-> None, views |-> FALSE]
Answer(code, value) == [code |-> code, value |-> value]
NoAnswer == Answer("none", None)
NoInput == [rows |-> None, lang |-> None, mask |-> None]

ASSUME EngineAssumption ==
  /\ MaxCalls \in Nat
  /\ DefaultFlash \in BOOLEAN
  /\ ViewTaking \subseteq Backend
  /\ None \notin Thread \cup Handle \cup Backend \cup Flags
  /\ Option \subseteq [flash : {"unset", "on", "off"}, mm : BOOLEAN]
  /\ \A r \in Request : r.op \in {"predict", "encode"} /\ r.pre \in BOOLEAN

-----------------------------------------------------------------------------
Init ==
  /\ tls = [t \in Thread |-> [flash |-> FALSE, mm |-> TRUE]]
  /\ faViews = FALSE
  /\ status = [h \in Handle |-> "none"]
  /\ has    = [h \in Handle |-> None]
  /\ runsOn = [h \in Handle |-> None]
  /\ wants  = [h \in Handle |-> None]
  /\ graph  = [h \in Handle |-> [main |-> NoGraph, vision |-> NoGraph]]
  /\ input  = [h \in Handle |-> NoInput]
  /\ stats  = [h \in Handle |-> NoStats]
  /\ mutex  = [h \in Handle |-> None]
  /\ pc     = [t \in Thread |-> "idle"]
  /\ on     = [t \in Thread |-> None]
  /\ req    = [t \in Thread |-> None]
  /\ answer = [t \in Thread |-> NoAnswer]
  /\ id     = [t \in Thread |-> 0]
  /\ calls  = 0

\* A broken variant: one set of flags for the process.
SetFlagsEverywhere(t, f) == tls' = [u \in Thread |-> f]

\* set_flash_attn and set_mm_prec_f32: the calling thread's.
SetFlags(t, f) == tls' = [tls EXCEPT ![t] = f]

Goto(t, where) == pc' = [pc EXCEPT ![t] = where]

Begin(t, h) ==
  /\ pc[t] = "idle"
  /\ calls < MaxCalls
  /\ calls' = calls + 1
  /\ id' = [id EXCEPT ![t] = calls + 1]
  /\ on' = [on EXCEPT ![t] = h]

\* The call returns; its result stays where the caller put it.
Return(t, result) ==
  /\ answer' = [answer EXCEPT ![t] = result]
  /\ Goto(t, "idle")

-----------------------------------------------------------------------------
(* vla_model_load *)

\* The flags an option sets; what it leaves out is the build's default, or f32.
Given(o) == [flash |-> o.flash = "on" \/ (o.flash = "unset" /\ DefaultFlash), mm |-> o.mm]

\* model_load sets the loading thread's flags from the options, and what is not
\* given is left to the arch.
Load(t) ==
  \E h \in Handle, o \in Option :
    /\ status[h] = "none"
    /\ Begin(t, h)
    /\ status' = [status EXCEPT ![h] = "loading"]
    /\ req' = [req EXCEPT ![t] = o]
    /\ wants' = [wants EXCEPT ![h] = Given(o)]
    /\ SetFlags(t, Given(o))
    /\ Goto(t, "create")
    /\ UNCHANGED <<faViews, has, runsOn, store, mutex, answer>>

\* The arch's factory: backend_init, then flash attention by default where the
\* backend's takes views.
Create(t) ==
  /\ pc[t] = "create"
  /\ \E b \in Backend :
       /\ runsOn' = [runsOn EXCEPT ![on[t]] = b]
       /\ faViews' = (faViews \/ b \in ViewTaking)
       /\ IF b \in ViewTaking /\ req[t].flash = "unset"
            THEN /\ SetFlags(t, [tls[t] EXCEPT !.flash = TRUE])
                 /\ wants' = [wants EXCEPT ![on[t]].flash = TRUE]
            ELSE UNCHANGED <<tls, wants>>
  /\ Goto(t, "handle")
  /\ UNCHANGED <<status, has, store, mutex, on, req, answer, id, calls>>

\* The handle: the flags are read back, since the arch may have changed them.
NewHandle(t) ==
  /\ pc[t] = "handle"
  /\ status' = [status EXCEPT ![on[t]] = "live"]
  /\ has' = [has EXCEPT ![on[t]] = tls[t]]
  /\ Return(t, Answer("ok", None))
  /\ UNCHANGED <<tls, faViews, runsOn, wants, store, mutex, on, req, id, calls>>

\* A factory or a check after it fails: null, and everything is released.
LoadFails(t) ==
  /\ pc[t] \in {"create", "handle"}
  /\ status' = [status EXCEPT ![on[t]] = "freed"]
  /\ Return(t, Answer("null", None))
  /\ UNCHANGED <<tls, faViews, has, runsOn, wants, store, mutex, on, req, id, calls>>

-----------------------------------------------------------------------------
(* vla_predict and vla_encode_images *)

\* Malformed arguments are refused before anything is touched.
Refuse(t) ==
  \E h \in Handle :
    /\ status[h] = "live"
    /\ Begin(t, h)
    /\ answer' = [answer EXCEPT ![t] = Answer("argument", None)]
    /\ UNCHANGED <<tls, faViews, life, store, mutex, pc, req>>

Call(t) ==
  \E h \in Handle, r \in Request :
    /\ status[h] = "live"
    /\ Begin(t, h)
    /\ req' = [req EXCEPT ![t] = r]
    /\ answer' = [answer EXCEPT ![t] = NoAnswer]
    /\ Goto(t, "lock")
    /\ UNCHANGED <<tls, faViews, life, store, mutex>>

Lock(t) ==
  /\ pc[t] = "lock"
  /\ mutex[on[t]] = None
  /\ mutex' = [mutex EXCEPT ![on[t]] = t]
  /\ Goto(t, "flags")
  /\ UNCHANGED <<tls, faViews, life, store, on, req, answer, id, calls>>

\* A broken variant: the timings of the call before stay.
ReapplyOnly(t) ==
  /\ pc[t] = "flags"
  /\ SetFlags(t, has[on[t]])
  /\ Goto(t, IF req[t].op = "predict" THEN "main" ELSE "vision")
  /\ UNCHANGED <<faViews, life, store, mutex, on, req, answer, id, calls>>

\* predict and encode_images re-apply the handle's flags; the arch starts its
\* timings over.
Reapply(t) ==
  /\ pc[t] = "flags"
  /\ SetFlags(t, has[on[t]])
  /\ stats' = [stats EXCEPT ![on[t]] = NoStats]
  /\ Goto(t, IF req[t].op = "predict" THEN "main" ELSE "vision")
  /\ UNCHANGED <<faViews, life, graph, input, mutex, on, req, answer, id, calls>>

Hit(g, key) == g.valid /\ g.key = key

\* A broken variant: keyed by the exact token count.
BuiltForExactCount(t, key) ==
  [valid |-> TRUE, key |-> <<req[t].views, req[t].n>>, built |-> tls[t], views |-> tls[t].flash /\ faViews]

\* A graph is built under the thread's flags; its inputs hold nothing.
Built(t, key) ==
  [valid |-> TRUE, key |-> key, built |-> tls[t], views |-> tls[t].flash /\ faViews]

MainKey(r)   == <<r.views, Padded(r.n)>>
VisionKey(r) == <<r.views>>

\* graph_cache::ensure for the prefix and expert graph.
EnsureMain(t) ==
  LET h == on[t]  key == MainKey(req[t]) IN
  /\ pc[t] = "main"
  /\ IF Hit(graph[h].main, key)
       THEN UNCHANGED <<graph, input>>
       ELSE /\ graph' = [graph EXCEPT ![h].main = Built(t, key)]
            /\ input' = [input EXCEPT ![h] = NoInput]
  /\ Goto(t, IF req[t].pre THEN "infer" ELSE "vision")
  /\ UNCHANGED <<tls, faViews, life, stats, mutex, on, req, answer, id, calls>>

\* What the vision tower, built as g, makes of a request's images.
Embedding(r, key, f) == [img |-> r.says, views |-> key, by |-> f]

\* The tower: ensure its graph, run it, and leave the embeddings in the main
\* graph's image rows, or with the caller.
Vision(t) ==
  LET h == on[t]
      r == req[t]
      g == IF Hit(graph[h].vision, VisionKey(r)) THEN graph[h].vision ELSE Built(t, VisionKey(r))
      e == Embedding(r, g.key, g.built)
  IN /\ pc[t] = "vision"
     /\ graph' = [graph EXCEPT ![h].vision = g]
     /\ IF r.op = "predict"
          THEN /\ input' = [input EXCEPT ![h].rows = e]
               /\ stats' = [stats EXCEPT ![h].vision = id[t]]
               /\ Goto(t, "infer")
               /\ UNCHANGED answer
          ELSE /\ answer' = [answer EXCEPT ![t] = Answer("ok", e)]
               /\ stats' = [stats EXCEPT ![h].vision = id[t], ![h].total = id[t]]
               /\ Goto(t, "unlock")
               /\ UNCHANGED input
     /\ UNCHANGED <<tls, faViews, life, mutex, on, req, id, calls>>

\* The rows the caller encoded before, or those the tower left.
Rows(h, r) == IF r.pre THEN Embedding(r, VisionKey(r), None) ELSE input[h].rows

\* Every input is filled on every call.
Fill(h, r) == [rows |-> Rows(h, r), lang |-> r.says, mask |-> r.n]

\* The flow-matching loop, in one graph.
Infer(t) ==
  LET h == on[t]  in == Fill(h, req[t]) IN
  /\ pc[t] = "infer"
  /\ input' = [input EXCEPT ![h] = in]
  /\ answer' = [answer EXCEPT ![t] = Answer("ok", [key |-> graph[h].main.key, built |-> graph[h].main.built, in |-> in])]
  /\ stats' = [stats EXCEPT ![h].inference = id[t], ![h].total = id[t]]
  /\ Goto(t, "unlock")
  /\ UNCHANGED <<tls, faViews, life, graph, mutex, on, req, id, calls>>

Failed(t) == answer' = [answer EXCEPT ![t] = Answer("failed", None)] /\ Goto(t, "unlock")

\* A shape the arch does not take, or a row that cannot be fetched.
RequestFails(t) ==
  /\ pc[t] = "main"
  /\ Failed(t)
  /\ UNCHANGED <<tls, faViews, life, store, mutex, on, req, id, calls>>

\* ensure drops the old graph before it builds: a build that fails leaves none.
BuildFails(t) ==
  LET h == on[t] IN
  /\ \/ /\ pc[t] = "main" /\ ~Hit(graph[h].main, MainKey(req[t]))
        /\ graph' = [graph EXCEPT ![h].main = NoGraph]
        /\ input' = [input EXCEPT ![h] = NoInput]
        /\ UNCHANGED stats
     \/ /\ pc[t] = "vision" /\ ~Hit(graph[h].vision, VisionKey(req[t]))
        /\ graph' = [graph EXCEPT ![h].vision = NoGraph]
        /\ stats' = IF req[t].op = "encode"
                      THEN [stats EXCEPT ![h].vision = id[t], ![h].total = id[t]] ELSE stats
        /\ UNCHANGED input
  /\ Failed(t)
  /\ UNCHANGED <<tls, faViews, life, mutex, on, req, id, calls>>

\* An image that cannot be preprocessed, or a graph that does not compute. What
\* was filled so far stays in the inputs.
ComputeFails(t) ==
  LET h == on[t]  r == req[t] IN
  /\ \/ /\ pc[t] = "vision"
        /\ graph' = [graph EXCEPT ![h].vision = IF Hit(@, VisionKey(r)) THEN @ ELSE Built(t, VisionKey(r))]
        /\ stats' = IF r.op = "encode"
                      THEN [stats EXCEPT ![h].vision = id[t], ![h].total = id[t]] ELSE stats
        /\ UNCHANGED input
     \/ /\ pc[t] = "infer"
        /\ input' = [input EXCEPT ![h] = Fill(h, r)]
        /\ stats' = [stats EXCEPT ![h].inference = id[t]]
        /\ UNCHANGED graph
  /\ Failed(t)
  /\ UNCHANGED <<tls, faViews, life, mutex, on, req, id, calls>>

\* A broken variant: a call that fails returns past the unlock.
UnlockUnlessFailed(t) ==
  /\ pc[t] = "unlock"
  /\ mutex' = IF answer[t].code = "failed" THEN mutex ELSE [mutex EXCEPT ![on[t]] = None]
  /\ Return(t, answer[t])
  /\ UNCHANGED <<tls, faViews, life, store, on, req, id, calls>>

\* The result is copied for the caller, who may find there is no memory for it.
Unlock(t) ==
  /\ pc[t] = "unlock"
  /\ mutex' = [mutex EXCEPT ![on[t]] = None]
  /\ \/ Return(t, answer[t])
     \/ answer[t].code = "ok" /\ Return(t, Answer("exception", None))
  /\ UNCHANGED <<tls, faViews, life, store, on, req, id, calls>>

-----------------------------------------------------------------------------
\* vla_last_stats copies the timings under the mutex.
LastStats(t) ==
  \E h \in Handle :
    /\ status[h] = "live"
    /\ mutex[h] = None
    /\ Begin(t, h)
    /\ answer' = [answer EXCEPT ![t] = Answer("ok", stats[h])]
    /\ UNCHANGED <<tls, faViews, life, store, mutex, pc, req>>

\* vla_model_free takes no mutex.
Free(t, h) ==
  /\ status[h] = "live"
  /\ Begin(t, h)
  /\ status' = [status EXCEPT ![h] = "freed"]
  /\ answer' = [answer EXCEPT ![t] = NoAnswer]
  /\ UNCHANGED <<tls, faViews, has, runsOn, wants, store, mutex, pc, req>>

InUse(h) == \E t \in Thread : pc[t] # "idle" /\ on[t] = h

\* The caller's contract: nobody frees a handle that is in use.
FreeUnused(t) == \E h \in Handle : ~InUse(h) /\ Free(t, h)

InCall(t) == \/ Create(t) \/ NewHandle(t) \/ LoadFails(t)
             \/ Lock(t) \/ Reapply(t) \/ EnsureMain(t) \/ Vision(t) \/ Infer(t)
             \/ RequestFails(t) \/ BuildFails(t) \/ ComputeFails(t) \/ Unlock(t)

Next == \E t \in Thread :
  Load(t) \/ Refuse(t) \/ Call(t) \/ LastStats(t) \/ FreeUnused(t) \/ InCall(t)

Spec == Init /\ [][Next]_vars

\* A thread inside a call keeps running.
FairSpec == Spec /\ \A t \in Thread : WF_vars(InCall(t))

-----------------------------------------------------------------------------
Graph == [valid : BOOLEAN, key : {None} \cup {MainKey(r) : r \in Request} \cup {VisionKey(r) : r \in Request},
          built : {None} \cup Flags, views : BOOLEAN]

TypeLife ==
  /\ tls \in [Thread -> Flags]
  /\ faViews \in BOOLEAN
  /\ status \in [Handle -> {"none", "loading", "live", "freed"}]
  /\ has \in [Handle -> {None} \cup Flags]
  /\ wants \in [Handle -> {None} \cup Flags]
  /\ runsOn \in [Handle -> {None} \cup Backend]
  /\ mutex \in [Handle -> {None} \cup Thread]

TypeStore ==
  /\ graph \in [Handle -> [main : Graph, vision : Graph]]
  /\ input = [h \in Handle |-> [rows |-> input[h].rows, lang |-> input[h].lang, mask |-> input[h].mask]]
  /\ stats \in [Handle -> [vision : Nat, inference : Nat, total : Nat]]

TypeCalls ==
  /\ pc \in [Thread -> {"idle", "create", "handle", "lock", "flags", "main", "vision", "infer", "unlock"}]
  /\ on \in [Thread -> {None} \cup Handle]
  /\ DOMAIN req = Thread
  /\ \A t \in Thread : pc[t] \in {"lock", "flags", "main", "vision", "infer", "unlock"} => req[t] \in Request
  /\ answer = [t \in Thread |-> [code |-> answer[t].code, value |-> answer[t].value]]
  /\ id \in [Thread -> Nat]
  /\ calls \in Nat

TypeOK == TypeLife /\ TypeStore /\ TypeCalls

\* What a request asks of a model loaded with flags w.
Expected(r, w) ==
  IF r.op = "encode" THEN Embedding(r, VisionKey(r), w)
  ELSE [key |-> MainKey(r), built |-> w,
        in |-> [rows |-> Embedding(r, VisionKey(r), IF r.pre THEN None ELSE w), lang |-> r.says, mask |-> r.n]]

(* A call that succeeds answers its own request on the model as it was     *)
(* loaded: with the flags that load decided on, on graphs built for the    *)
(* request's shape, from inputs this call filled, whatever other threads   *)
(* and handles did meanwhile and whatever failed before.                   *)
AnswersItsRequest ==
  \A t \in Thread :
    pc[t] = "unlock" /\ answer[t].code = "ok" => answer[t].value = Expected(req[t], wants[on[t]])

(* The timings a handle shows are those of one call, never parts of two.   *)
StatsOfOneCall ==
  \A h \in Handle : mutex[h] = None =>
    \E c \in 0 .. MaxCalls :
      {stats[h].vision, stats[h].inference, stats[h].total} \subseteq {0, c}

(* Whoever takes a handle's mutex gives it back, on every path.            *)
MutexIsReleased == \A h \in Handle : mutex[h] # None ~> mutex[h] = None

(* options.h: fa_takes_views is "Whether the active backend's              *)
(* FLASH_ATTN_EXT reads Q/K/V [...] through arbitrary strides": a graph    *)
(* that passes views would then run on such a backend only.                *)
ViewsOnlyWhereTaken ==
  \A h \in Handle : graph[h].main.views => runsOn[h] \in ViewTaking

(* vla.h: vla_last_stats returns "Timings of the most recent vla_predict   *)
(* on this handle".                                                        *)
StatsOfPredict ==
  \A h \in Handle : \A t \in Thread :
    pc[t] = "unlock" /\ on[t] = h /\ req[t].op = "encode" => stats[h].total # id[t]
=============================================================================
