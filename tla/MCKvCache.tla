----------------------------- MODULE MCKvCache -----------------------------
(* Small graphs of the kinds the archs build, for KvCache. *)
EXTENDS KvCache

G(steps, fused, cross, shared) ==
  [steps |-> steps, fused |-> fused, cross |-> cross, shared |-> shared, pack |-> FALSE]

\* pi05 with and without the fused RoPE, and with the pack of a quantised
\* prefix; smolvla with every other layer or all of them cross-attention; and a
\* tower whose layers share their buffers.
Graphs == {G(3, FALSE, {}, FALSE), G(3, TRUE, {}, FALSE),
           [G(3, TRUE, {}, FALSE) EXCEPT !.pack = TRUE],
           G(3, TRUE, {2}, FALSE), G(2, TRUE, {1, 2, 3}, FALSE),
           G(0, TRUE, {}, TRUE)}
=============================================================================
