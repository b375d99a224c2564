---------------------------- MODULE PyModelProofs ----------------------------
(***************************************************************************)
(* Proofs about PyModel, for every set of threads and handles and every    *)
(* number of calls: the Model's lock alone keeps the engine's contract.    *)
(***************************************************************************)
EXTENDS PyModel, TLAPS

Calling == {"lock", "flags", "main", "vision", "infer", "unlock"}
Loading == {"create", "handle"}

Types ==
  /\ pc \in [Thread -> {"idle"} \cup Calling \cup Loading]
  /\ on \in [Thread -> {None} \cup Handle]
  /\ status \in [Handle -> {"none", "loading", "live", "freed"}]
  /\ mu \in [Handle -> {None} \cup Thread]
  /\ open \in [Handle -> BOOLEAN]

(* Who is inside a call has the lock of the Model it is on, and that Model *)
(* is not closed.                                                          *)
CallHoldsLock ==
  \A t \in Thread : pc[t] \in Calling => on[t] \in Handle /\ mu[on[t]] = t /\ open[on[t]]

(* A Model that is not closed owns a live handle: close is the only way a  *)
(* live handle goes, and it clears both.                                   *)
OpenIsLive == \A h \in Handle : open[h] => status[h] = "live"

(* A handle that is being loaded belongs to one thread, and to no Model.   *)
LoadIsAlone ==
  /\ \A t \in Thread : pc[t] \in Loading => on[t] \in Handle /\ status[on[t]] = "loading"
  /\ \A t, u \in Thread : pc[t] \in Loading /\ pc[u] \in Loading /\ on[t] = on[u] => t = u

PyInv == Types /\ CallHoldsLock /\ OpenIsLive /\ LoadIsAlone

-----------------------------------------------------------------------------
LEMMA PyInitInv == PyInit => PyInv
BY DEF PyInit, Init, PyInv, Types, CallHoldsLock, OpenIsLive, LoadIsAlone, Calling, Loading

\* The engine's steps inside a call move the caller on and touch no handle's life.
LEMMA InCallMoves ==
  ASSUME PyInv, NEW t \in Thread, PyInCall(t)
  PROVE  /\ pc[t] \in Calling
         /\ \E p \in Calling \cup {"idle"} : pc' = [pc EXCEPT ![t] = p]
         /\ UNCHANGED <<on, status, mu, open>>
<1> USE DEF Goto, Return, Failed, Calling, life, store
<1>1. CASE Lock(t)
  BY <1>1 DEF Lock, PyInCall
<1>2. CASE Reapply(t)
  <2>1. (IF req[t].op = "predict" THEN "main" ELSE "vision") \in Calling
    OBVIOUS
  <2> QED
    BY <1>2, <2>1 DEF Reapply, PyInCall
<1>3. CASE EnsureMain(t)
  <2>1. (IF req[t].pre THEN "infer" ELSE "vision") \in Calling
    OBVIOUS
  <2> QED
    BY <1>3, <2>1 DEF EnsureMain, PyInCall
<1>4. CASE Vision(t)
  BY <1>4 DEF Vision, PyInCall
<1>5. CASE Infer(t)
  BY <1>5 DEF Infer, PyInCall
<1>6. CASE RequestFails(t)
  BY <1>6 DEF RequestFails, PyInCall
<1>7. CASE BuildFails(t)
  BY <1>7 DEF BuildFails, PyInCall
<1>8. CASE ComputeFails(t)
  BY <1>8 DEF ComputeFails, PyInCall
<1>9. CASE Unlock(t)
  BY <1>9 DEF Unlock, PyInCall
<1> QED
  BY <1>1, <1>2, <1>3, <1>4, <1>5, <1>6, <1>7, <1>8, <1>9 DEF PyInCall

LEMMA PyInCallInv == ASSUME PyInv, NEW t \in Thread, PyInCall(t) PROVE PyInv'
<1>1. pc[t] \in Calling /\ UNCHANGED <<on, status, mu, open>>
  BY InCallMoves
<1>2. PICK p \in Calling \cup {"idle"} : pc' = [pc EXCEPT ![t] = p]
  BY InCallMoves
<1>3. pc'[t] = p /\ \A u \in Thread \ {t} : pc'[u] = pc[u]
  BY <1>2 DEF PyInv, Types
<1>4. Types'
  BY <1>1, <1>2 DEF PyInv, Types
<1>5. CallHoldsLock'
  BY <1>1, <1>3 DEF PyInv, CallHoldsLock
<1>6. OpenIsLive' /\ LoadIsAlone'
  BY <1>1, <1>3 DEF PyInv, OpenIsLive, LoadIsAlone, Calling, Loading
<1> QED
  BY <1>4, <1>5, <1>6 DEF PyInv

-----------------------------------------------------------------------------
(* A load owns its handle until the Model exists. *)

LEMMA PyLoadInv == ASSUME PyInv, NEW t \in Thread, PyLoad(t) PROVE PyInv'
<1>1. PICK h \in Handle :
        /\ status[h] = "none" /\ pc[t] = "idle"
        /\ on' = [on EXCEPT ![t] = h]
        /\ status' = [status EXCEPT ![h] = "loading"]
        /\ pc' = [pc EXCEPT ![t] = "create"]
  BY DEF PyLoad, Load, Begin, Goto
<1>2. UNCHANGED <<mu, open>>
  BY DEF PyLoad
<1>3. pc'[t] = "create" /\ on'[t] = h /\ \A u \in Thread \ {t} : pc'[u] = pc[u] /\ on'[u] = on[u]
  BY <1>1 DEF PyInv, Types
<1>4. status'[h] = "loading" /\ \A i \in Handle \ {h} : status'[i] = status[i]
  BY <1>1 DEF PyInv, Types
<1>5. Types'
  BY <1>1, <1>2 DEF PyInv, Types, Loading
<1>6. CallHoldsLock'
  BY <1>2, <1>3 DEF PyInv, CallHoldsLock, Calling
<1>7. OpenIsLive'
  BY <1>1, <1>2, <1>4 DEF PyInv, OpenIsLive
<1>8. LoadIsAlone'
  BY <1>1, <1>3, <1>4 DEF PyInv, LoadIsAlone, Loading
<1> QED
  BY <1>5, <1>6, <1>7, <1>8 DEF PyInv

\* A load that goes on keeps its handle, one that fails gives it up.
LEMMA PyCreatedInv == ASSUME PyInv, NEW t \in Thread, PyCreated(t) PROVE PyInv'
<1>1. UNCHANGED <<on, mu, open>> /\ pc[t] \in Loading
  BY DEF PyCreated, Create, LoadFails, Loading
<1>2. CASE Create(t)
  <2>1. pc' = [pc EXCEPT ![t] = "handle"] /\ UNCHANGED status
    BY <1>2 DEF Create, Goto
  <2>2. pc'[t] = "handle" /\ \A u \in Thread \ {t} : pc'[u] = pc[u]
    BY <2>1 DEF PyInv, Types
  <2>3. Types'
    BY <1>1, <2>1 DEF PyInv, Types, Loading
  <2>4. CallHoldsLock' /\ OpenIsLive' /\ LoadIsAlone'
    BY <1>1, <2>1, <2>2 DEF PyInv, CallHoldsLock, OpenIsLive, LoadIsAlone, Calling, Loading
  <2> QED
    BY <2>3, <2>4 DEF PyInv
<1>3. CASE LoadFails(t)
  <2>1. pc' = [pc EXCEPT ![t] = "idle"] /\ status' = [status EXCEPT ![on[t]] = "freed"]
    BY <1>3 DEF LoadFails, Return, Goto
  <2>2. on[t] \in Handle /\ status[on[t]] = "loading"
    BY <1>1 DEF PyInv, LoadIsAlone
  <2>3. pc'[t] = "idle" /\ \A u \in Thread \ {t} : pc'[u] = pc[u]
    BY <2>1 DEF PyInv, Types
  <2>4. \A i \in Handle \ {on[t]} : status'[i] = status[i]
    BY <2>1 DEF PyInv, Types
  <2>5. Types'
    BY <1>1, <2>1 DEF PyInv, Types
  <2>6. CallHoldsLock' /\ OpenIsLive'
    BY <1>1, <2>2, <2>3, <2>4 DEF PyInv, CallHoldsLock, OpenIsLive, Calling
  <2>7. LoadIsAlone'
    BY <1>1, <2>3, <2>4 DEF PyInv, LoadIsAlone, Loading
  <2> QED
    BY <2>5, <2>6, <2>7 DEF PyInv
<1> QED
  BY <1>2, <1>3 DEF PyCreated

LEMMA PyInitModelInv == ASSUME PyInv, NEW t \in Thread, PyInitModel(t) PROVE PyInv'
<1>1. /\ pc[t] = "handle" /\ pc' = [pc EXCEPT ![t] = "idle"]
      /\ status' = [status EXCEPT ![on[t]] = "live"]
      /\ open' = [open EXCEPT ![on[t]] = TRUE] /\ UNCHANGED <<on, mu>>
  BY DEF PyInitModel, NewHandle, Return, Goto
<1>2. on[t] \in Handle /\ status[on[t]] = "loading"
  BY <1>1 DEF PyInv, LoadIsAlone, Loading
<1>3. pc'[t] = "idle" /\ \A u \in Thread \ {t} : pc'[u] = pc[u]
  BY <1>1 DEF PyInv, Types
<1>4. status'[on[t]] = "live" /\ \A i \in Handle \ {on[t]} : status'[i] = status[i] /\ open'[i] = open[i]
  BY <1>1, <1>2 DEF PyInv, Types
<1>5. \A i \in Handle : open[i] => open'[i]
  BY <1>1, <1>2 DEF PyInv, Types
<1>6. Types'
  BY <1>1 DEF PyInv, Types
<1>7. CallHoldsLock'
  BY <1>1, <1>3, <1>5 DEF PyInv, CallHoldsLock, Calling
<1>8. OpenIsLive'
  BY <1>4 DEF PyInv, OpenIsLive
<1>9. LoadIsAlone'
  BY <1>1, <1>3, <1>4 DEF PyInv, LoadIsAlone, Loading
<1> QED
  BY <1>6, <1>7, <1>8, <1>9 DEF PyInv

-----------------------------------------------------------------------------
(* Calls, and close. *)

LEMMA PyCallInv == ASSUME PyInv, NEW t \in Thread, PyCall(t) PROVE PyInv'
<1>1. PICK h \in Handle :
        /\ mu[h] = None /\ open[h] /\ Call(t) /\ on'[t] = h
        /\ mu' = [mu EXCEPT ![h] = t] /\ UNCHANGED open
  BY DEF PyCall
<1>2. /\ pc[t] = "idle" /\ pc' = [pc EXCEPT ![t] = "lock"] /\ UNCHANGED status
      /\ \E i \in Handle : on' = [on EXCEPT ![t] = i]
  BY <1>1 DEF Call, Begin, Goto, life
<1>3. pc'[t] = "lock" /\ \A u \in Thread \ {t} : pc'[u] = pc[u] /\ on'[u] = on[u]
  BY <1>2 DEF PyInv, Types
<1>4. mu'[h] = t /\ \A i \in Handle \ {h} : mu'[i] = mu[i]
  BY <1>1 DEF PyInv, Types
<1>5. Types'
  BY <1>1, <1>2 DEF PyInv, Types, Calling
<1>6. CallHoldsLock'
  <2> SUFFICES ASSUME NEW u \in Thread, pc'[u] \in Calling
               PROVE  on'[u] \in Handle /\ mu'[on'[u]] = u /\ open'[on'[u]]
    BY DEF CallHoldsLock
  <2>1. CASE u = t
    BY <1>1, <1>4, <2>1
  <2>2. CASE u # t
    <3>1. on'[u] = on[u] /\ on[u] \in Handle /\ mu[on[u]] = u /\ open[on[u]]
      BY <1>3, <2>2 DEF PyInv, CallHoldsLock
    <3>2. on[u] # h
      BY <1>1, <3>1, EngineAssumption
    <3> QED
      BY <1>1, <1>4, <3>1, <3>2
  <2> QED
    BY <2>1, <2>2
<1>7. OpenIsLive'
  BY <1>1, <1>2 DEF PyInv, OpenIsLive
<1>8. LoadIsAlone'
  BY <1>2, <1>3 DEF PyInv, LoadIsAlone, Loading
<1> QED
  BY <1>5, <1>6, <1>7, <1>8 DEF PyInv

LEMMA PyReturnInv == ASSUME PyInv, NEW t \in Thread, PyReturn(t) PROVE PyInv'
<1>1. PICK h \in Handle : mu[h] = t /\ pc[t] = "idle" /\ mu' = [mu EXCEPT ![h] = None]
  BY DEF PyReturn
<1>2. UNCHANGED <<pc, on, status, open>>
  BY DEF PyReturn, vars, api, life
<1>3. \A i \in Handle \ {h} : mu'[i] = mu[i]
  BY <1>1 DEF PyInv, Types
<1>4. Types'
  BY <1>1, <1>2 DEF PyInv, Types
<1>5. CallHoldsLock'
  BY <1>1, <1>2, <1>3 DEF PyInv, CallHoldsLock, Calling
<1>6. OpenIsLive' /\ LoadIsAlone'
  BY <1>2 DEF PyInv, OpenIsLive, LoadIsAlone
<1> QED
  BY <1>4, <1>5, <1>6 DEF PyInv

LEMMA PyLastStatsInv == ASSUME PyInv, NEW t \in Thread, PyLastStats(t) PROVE PyInv'
<1>1. pc[t] = "idle" /\ UNCHANGED <<pc, status, mu, open>> /\ \E i \in Handle : on' = [on EXCEPT ![t] = i]
  BY DEF PyLastStats, LastStats, Begin, life
<1>2. \A u \in Thread \ {t} : on'[u] = on[u]
  BY <1>1 DEF PyInv, Types
<1>3. Types'
  BY <1>1 DEF PyInv, Types
<1>4. CallHoldsLock' /\ OpenIsLive' /\ LoadIsAlone'
  BY <1>1, <1>2 DEF PyInv, CallHoldsLock, OpenIsLive, LoadIsAlone, Calling, Loading
<1> QED
  BY <1>3, <1>4 DEF PyInv

\* A closed Model's lock was free: nobody is in a call on it.
LEMMA CloseFinds ==
  ASSUME PyInv, NEW h \in Handle, mu[h] = None, open[h], NEW u \in Thread, pc[u] # "idle"
  PROVE  on[u] # h
<1>1. CASE pc[u] \in Calling
  BY <1>1, EngineAssumption DEF PyInv, CallHoldsLock
<1>2. CASE pc[u] \in Loading
  BY <1>2 DEF PyInv, LoadIsAlone, OpenIsLive
<1> QED
  BY <1>1, <1>2 DEF PyInv, Types

LEMMA PyCloseInv == ASSUME PyInv, NEW t \in Thread, PyClose(t) PROVE PyInv'
<1>1. PICK h \in Handle : mu[h] = None /\ open[h] /\ Free(t, h) /\ open' = [open EXCEPT ![h] = FALSE] /\ UNCHANGED mu
  BY DEF PyClose
<1>2. /\ pc[t] = "idle" /\ UNCHANGED pc /\ on' = [on EXCEPT ![t] = h]
      /\ status' = [status EXCEPT ![h] = "freed"]
  BY <1>1 DEF Free, Begin
<1>3. \A u \in Thread : pc'[u] # "idle" => u # t /\ on'[u] = on[u] /\ on[u] # h
  BY <1>1, <1>2, CloseFinds DEF PyInv, Types
<1>4. ~open'[h] /\ \A i \in Handle \ {h} : status'[i] = status[i] /\ open'[i] = open[i]
  BY <1>1, <1>2 DEF PyInv, Types
<1>5. Types'
  BY <1>1, <1>2 DEF PyInv, Types
<1>6. CallHoldsLock'
  BY <1>1, <1>2, <1>3, <1>4 DEF PyInv, CallHoldsLock, Calling
<1>7. OpenIsLive'
  BY <1>4 DEF PyInv, OpenIsLive
<1>8. LoadIsAlone'
  BY <1>2, <1>3, <1>4 DEF PyInv, LoadIsAlone, Loading
<1> QED
  BY <1>5, <1>6, <1>7, <1>8 DEF PyInv

-----------------------------------------------------------------------------
LEMMA PyStepInv == PyInv /\ [PyNext]_pyVars => PyInv'
<1> SUFFICES ASSUME PyInv, [PyNext]_pyVars PROVE PyInv'
  OBVIOUS
<1>1. ASSUME NEW t \in Thread,
             \/ PyLoad(t) \/ PyCreated(t) \/ PyInitModel(t)
             \/ PyCall(t) \/ PyInCall(t) \/ PyReturn(t)
             \/ PyLastStats(t) \/ PyClose(t)
      PROVE  PyInv'
  BY <1>1, PyLoadInv, PyCreatedInv, PyInitModelInv, PyCallInv, PyInCallInv, PyReturnInv,
     PyLastStatsInv, PyCloseInv
<1>2. CASE UNCHANGED pyVars
  BY <1>2 DEF pyVars, vars, api, life, PyInv, Types, CallHoldsLock, OpenIsLive, LoadIsAlone
<1> QED
  BY <1>1, <1>2 DEF PyNext

LEMMA PyInvariance == PySpec => []PyInv
<1> QED
  BY PyInitInv, PyStepInv, PTL DEF PySpec

(* No thread is ever inside a call on a handle that was freed, however     *)
(* many threads share a Model and whenever close is called.                *)
THEOREM NoUseAfterClose == PySpec => []NoCallOnFreed
<1>1. PyInv => NoCallOnFreed
  BY DEF PyInv, CallHoldsLock, OpenIsLive, NoCallOnFreed, Calling
<1> QED
  BY <1>1, PyInvariance, PTL

\* Each of the binding's steps is a step of the engine, or none.
LEMMA PyStepIsStep == PyInv /\ [PyNext]_pyVars => [Next]_vars
<1> SUFFICES ASSUME PyInv, [PyNext]_pyVars PROVE [Next]_vars
  OBVIOUS
<1>1. ASSUME NEW t \in Thread, PyLoad(t) \/ PyCreated(t) \/ PyInitModel(t) \/ PyCall(t) \/ PyInCall(t) \/ PyLastStats(t)
      PROVE  Next
  BY <1>1 DEF PyLoad, PyCreated, PyInitModel, PyCall, PyInCall, PyLastStats, Next, InCall
<1>2. ASSUME NEW t \in Thread, PyReturn(t) PROVE UNCHANGED vars
  BY <1>2 DEF PyReturn
<1>3. ASSUME NEW t \in Thread, PyClose(t) PROVE Next
  <2>1. PICK h \in Handle : mu[h] = None /\ open[h] /\ Free(t, h)
    BY <1>3 DEF PyClose
  <2>2. ~InUse(h)
    BY <2>1, CloseFinds DEF InUse
  <2> QED
    BY <2>1, <2>2 DEF Next, FreeUnused
<1>4. CASE UNCHANGED pyVars
  BY <1>4 DEF pyVars
<1> QED
  BY <1>1, <1>2, <1>3, <1>4 DEF PyNext

(* The binding is a caller that keeps the engine's contract: it implements *)
(* the engine's specification, so all that is proved of the engine holds   *)
(* of a Python program.                                                    *)
THEOREM Contract == PySpec => KeepsTheContract
<1>1. PyInit => Init
  BY DEF PyInit
<1> QED
  BY <1>1, PyStepIsStep, PyInvariance, PTL DEF PySpec, Spec, KeepsTheContract
=============================================================================
