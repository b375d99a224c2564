------------------------------ MODULE GraphExec ------------------------------
(***************************************************************************)
(* What a caller of a compute backend is promised: a ggml graph is run in  *)
(* node order on one memory, or the call fails and leaves what the graph   *)
(* does not write alone.                                                   *)
(***************************************************************************)
EXTENDS Graph

-----------------------------------------------------------------------------
VARIABLES
  g,     \* the graph being run
  mem,   \* what each cell holds
  busy,  \* a call is in progress
  pos    \* how many of g's nodes have run

vars == <<g, mem, busy, pos>>

Init ==
  /\ WellFormed(g)
  /\ mem = LoadedMem
  /\ busy = FALSE
  /\ pos = 0

\* The caller fills the inputs and asks for a graph to be computed.
Call ==
  /\ ~busy
  /\ WellFormed(g')
  /\ \A c \in Cell \ InputCells(g') : mem'[c] = mem[c]
  /\ \A c \in InputCells(g') : mem'[c] \in InputVal
  /\ busy' = TRUE
  /\ pos' = 0

RunNode ==
  /\ busy
  /\ pos < g.n
  /\ pos' = pos + 1
  /\ mem' = IF pos + 1 \in Writers(g)
              THEN [mem EXCEPT ![g.cell[pos + 1]] = Result(g, mem, pos + 1)]
              ELSE mem
  /\ UNCHANGED <<g, busy>>

Succeed ==
  /\ busy
  /\ pos = g.n
  /\ busy' = FALSE
  /\ pos' = 0
  /\ UNCHANGED <<g, mem>>

Fail ==
  /\ busy
  /\ busy' = FALSE
  /\ pos' = 0
  /\ \A c \in Cell \ {g.cell[k] : k \in Writers(g)} : mem'[c] = mem[c]
  /\ UNCHANGED g

Next == Call \/ RunNode \/ Succeed \/ Fail

Spec == Init /\ [][Next]_vars
=============================================================================
