------------------------------- MODULE PyModel -------------------------------
(***************************************************************************)
(* The Python binding (bindings/python/vla_cpp/__init__.py): a Model owns  *)
(* one handle and a lock of its own, which every method and close take.    *)
(* ctypes releases the GIL inside a call, so threads do run concurrently.  *)
(* The binding is the engine's caller: it must never free a handle that    *)
(* another thread is using, nor use one that was freed.                    *)
(***************************************************************************)
EXTENDS Engine

VARIABLES
  mu,    \* Model._mu, by the handle the Model owns
  open   \* Model._h is not None

pyVars == <<vars, mu, open>>

PyInit ==
  /\ Init
  /\ mu = [h \in Handle |-> None]
  /\ open = [h \in Handle |-> FALSE]

\* load(): the Model exists once the C call has returned a handle.
PyLoad(t) == Load(t) /\ UNCHANGED <<mu, open>>

PyCreated(t) ==
  /\ Create(t) \/ LoadFails(t)
  /\ UNCHANGED <<mu, open>>

PyInitModel(t) ==
  /\ NewHandle(t)
  /\ open' = [open EXCEPT ![on[t]] = TRUE]
  /\ UNCHANGED mu

\* predict and encode_images: with self._mu, unless the Model is closed.
PyCall(t) ==
  \E h \in Handle :
    /\ mu[h] = None
    /\ open[h]
    /\ Call(t) /\ on'[t] = h
    /\ mu' = [mu EXCEPT ![h] = t]
    /\ UNCHANGED open

PyInCall(t) ==
  /\ Lock(t) \/ Reapply(t) \/ EnsureMain(t) \/ Vision(t) \/ Infer(t)
     \/ RequestFails(t) \/ BuildFails(t) \/ ComputeFails(t) \/ Unlock(t)
  /\ UNCHANGED <<mu, open>>

\* The actions are copied out, or the error raised, and the with block ends.
PyReturn(t) ==
  \E h \in Handle :
    /\ mu[h] = t /\ pc[t] = "idle"
    /\ mu' = [mu EXCEPT ![h] = None]
    /\ UNCHANGED <<vars, open>>

PyLastStats(t) ==
  \E h \in Handle :
    /\ mu[h] = None
    /\ open[h]
    /\ LastStats(t) /\ on'[t] = h
    /\ UNCHANGED <<mu, open>>

\* A broken variant: close does not wait for the calls in progress.
PyCloseAtOnce(t) ==
  \E h \in Handle :
    /\ open[h]
    /\ Free(t, h)
    /\ open' = [open EXCEPT ![h] = FALSE]
    /\ UNCHANGED mu

\* close(), which __exit__ and __del__ call too: a second one does nothing.
PyClose(t) ==
  \E h \in Handle :
    /\ mu[h] = None
    /\ open[h]
    /\ Free(t, h)
    /\ open' = [open EXCEPT ![h] = FALSE]
    /\ UNCHANGED mu

PyNext == \E t \in Thread :
  \/ PyLoad(t) \/ PyCreated(t) \/ PyInitModel(t)
  \/ PyCall(t) \/ PyInCall(t) \/ PyReturn(t)
  \/ PyLastStats(t) \/ PyClose(t)

PySpec == PyInit /\ [][PyNext]_pyVars

PyFairSpec ==
  /\ PySpec
  /\ \A t \in Thread : WF_pyVars(PyCreated(t) \/ PyInitModel(t) \/ PyInCall(t)) /\ WF_pyVars(PyReturn(t))

-----------------------------------------------------------------------------
(* The binding uses the engine as its contract says: every step is one the *)
(* engine allows, and in particular close never frees a handle another     *)
(* thread is in a call on.                                                 *)
KeepsTheContract == Spec

(* No thread is ever inside a call on a handle that was freed.             *)
NoCallOnFreed ==
  \A t \in Thread :
    pc[t] \in {"lock", "flags", "main", "vision", "infer", "unlock"} => status[on[t]] = "live"

(* Whoever takes a Model's lock gives it back: close is not locked out for *)
(* good by a call that fails.                                              *)
ModelLockIsReleased == \A h \in Handle : mu[h] # None ~> mu[h] = None
=============================================================================
