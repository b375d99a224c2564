--------------------------- MODULE MCFallbackSplit ---------------------------
(***************************************************************************)
(* A small instance of FallbackSplit: graphs of the shapes the arch        *)
(* builders produce, each with every choice of refused nodes and every     *)
(* valid placement of its tensors in the slots.                            *)
(***************************************************************************)
EXTENDS FallbackSplit, Sequences, FiniteSets, TLC

Hexagons == [hostVisible : BOOLEAN, hexagon : {TRUE}]
AnyKind  == Hexagons \cup [hostVisible : {FALSE}, hexagon : BOOLEAN]

MCWeight == {-1}
MCInput  == {0}
MCSlot   == 1 .. 3
MCInputVal == {<<"input", 1>>, <<"input", 2>>}
MCApply(i, reads) == <<"node", i, reads>>
MCWeightVal(w)    == <<"weight", w>>

\* A shape's nodes: operation, sources and, for an in-place op, the base.
N(op, src) == [op |-> op, src |-> src, into |-> {}]
InPlace(op, src, b) == [op |-> op, src |-> src, into |-> {b}]

Shapes == {
  \* a cast read by attention through a view
  << N("compute", {0, -1}), N("copy", {1}), N("view", {2}), N("compute", {3, 1}) >>,
  \* a copy of a copy
  << N("compute", {0}), N("copy", {1}), N("copy", {2}), N("compute", {3, 0}) >>,
  \* an in-place op through a view of its base
  << N("compute", {0}), N("view", {1}), InPlace("compute", {2, -1}, 1), N("compute", {3, -1}) >>,
  \* a copy written into an earlier result
  << N("compute", {0}), N("compute", {0, -1}), InPlace("copy", {1, 2}, 1), N("compute", {3, 2}) >>,
  \* a view of a weight, and a view that starts the graph
  << N("view", {-1}), N("compute", {0, 1}), N("view", {2}), N("compute", {1, 3}) >>,
  \* every node read by the last
  << N("compute", {0}), N("compute", {-1}), N("view", {1}), N("compute", {2, 3}) >>}

Root(shape, t) ==
  LET R[i \in -1 .. Len(shape)] ==
        IF i < 1 THEN i
        ELSE IF shape[i].op = "view" THEN R[CHOOSE s \in shape[i].src : TRUE]
        ELSE IF shape[i].into # {} THEN R[CHOOSE b \in shape[i].into : TRUE] ELSE i
  IN R[t]

Producer(shape, t) ==
  LET P[i \in -1 .. Len(shape)] ==
        IF i >= 1 /\ shape[i].op = "view" THEN P[CHOOSE s \in shape[i].src : TRUE] ELSE i
  IN P[t]

Placed(shape, taken, place) ==
  LET T == {-1, 0} \cup DOMAIN shape IN
  [n     |-> Len(shape),
   op    |-> [t \in T |-> IF t < 1 THEN "leaf" ELSE shape[t].op],
   src   |-> [i \in DOMAIN shape |-> shape[i].src],
   base  |-> [t \in T |-> Root(shape, t)],
   prod  |-> [t \in T |-> Producer(shape, t)],
   cell  |-> [t \in T |-> IF Root(shape, t) = -1 THEN -1 ELSE place[Root(shape, t)]],
   takes |-> [i \in DOMAIN shape |-> i \in taken]]

\* Slots are interchangeable: the input has the first one, and each node one
\* that is taken or the next.
Placements(shape) ==
  LET Writer == {i \in DOMAIN shape : shape[i].op # "view"}
      Own    == {i \in Writer : Root(shape, i) = i}
      Canonical(place) ==
        \A i \in Own : place[i] <= 1 + Cardinality({1} \cup {place[m] : m \in {o \in Own : o < i}})
  IN {Placed(shape, taken, place @@ 0 :> 1) :
        taken \in SUBSET Writer, place \in {p \in [Own -> MCSlot] : Canonical(p)}}

\* For wrappers called twice: a weight, an in-place op and a view across runs.
FewGraphs == UNION {Placements(shape) : shape \in {
  << N("compute", {0, -1}), N("view", {1}), N("compute", {2, -1}) >>,
  << N("view", {-1}), N("compute", {0}), InPlace("copy", {1, 2}, 2) >>}}

MCGraphs == FewGraphs \cup UNION {Placements(shape) : shape \in Shapes}
=============================================================================
