--------------------------------- MODULE Arch ---------------------------------
(***************************************************************************)
(* What an architecture's predict does, as a list of steps: each ensures a *)
(* cached graph, fills its inputs and computes it.  A step says what the   *)
(* code would do for this configuration and request on an engine that has  *)
(* served nothing yet; ArchCalls runs the lists on one that has.           *)
(***************************************************************************)
EXTENDS Lm, QwenVit

\* cache, key: the graph_cache and what it is keyed by.
\* ins: the input tensors; fills: per input, the <<first, count, what>> of
\*   each tensor_set; consts: inputs set only when the graph is fresh.
\* tag: what the constants depend on beyond the key, kept with the graph.
\* kept: inputs that are outputs too, so that compute does not reuse their
\*   memory; given: the <<input, write>>s that earlier steps of
\*   the call made on the device.
\* copies: <<cache, input, first, count, what>>, device copies of the result.
\* once: <<input, write>>s of the constant part of an input that is set anew.
\* scratch: the graph is built anew each time; setup: it is only ensured;
\*   ousts: the graphs that go when it is built; anew: its building is noted.
\* memo: <<host, key>>, the step is skipped when that host has that key and no
\*   building was noted; forgets, learns: the hosts dropped before the inputs
\*   are set, and set once computed; needs: the hosts the fills read.
\* sends: <<cache, input, first, count, what>>, writes to another graph's inputs.
\* hosts: host-side caches brought up to date first, each [key, value].
\* parts: the tensors whose terms are compared; out, read: the result and
\*   the elements copied from it.
\* pre, post: the checks before the graph is ensured, and after.
\* fetch: rows are read from the file first; clears: hosts dropped when that
\*   fails; drop: a failed compute releases the graph.
Blank == [cache |-> "", key |-> <<>>, ins |-> <<>>, fills |-> <<>>, consts |-> {}, hosts |-> <<>>, parts |-> <<>>,
          out |-> Null, read |-> 0, pre |-> TRUE, post |-> TRUE, fetch |-> FALSE, clears |-> {}, drop |-> FALSE,
          tag |-> <<>>, kept |-> {}, given |-> {}, copies |-> {}, scratch |-> FALSE, setup |-> FALSE,
          once |-> {}, ousts |-> {}, anew |-> FALSE, memo |-> <<>>, forgets |-> {}, learns |-> <<>>, needs |-> <<>>, sends |-> {}]
Refusal == [Blank EXCEPT !.pre = FALSE]

Whole(t, what)      == {<<0, Elems(t), what>>}
Filled(ins, whats)  == [n \in DOMAIN ins |-> Whole(ins[n], whats[n])]
\* One tensor_set per view.
ByView(t, nv, r)    == LET n == Elems(t) \div nv IN {<<(v - 1) * n, n, <<"view", r.name, v>>>> : v \in 1..nv}

In1(n, w)      == Input(n, "f32", D1(w))
In2(n, w, k)   == Input(n, "f32", D2(w, k))
Ids(n, k)      == Input(n, "i32", D1(k))

\* What a request carries into each input.
StateOf(r)     == IF r.state THEN <<"state", r.name>> ELSE <<"zeros">>
NoiseOf(r)     == <<"noise", r.name, InitNoise(r.noise, 1).from>>
\* Where the vision rows of the prompt come from.
VisionOf(r)    == IF r.pre > 0 THEN <<"precomputed", r.name>> ELSE <<"tower", r.name>>
EmbedsOf(r, ids) == <<"embeds", ids, VisionOf(r)>>
Causal(n)      == <<"causal", n>>
MaskHost(n)    == [c_mask |-> [key |-> n, value |-> Causal(n)]]
FromHost(h)    == <<"host", h>>
Iota(n)        == <<"iota", n>>

\* get_rows does not check its indices.
OutOfVocab  == "out of vocabulary"
InVocab(r)  == \A i \in DOMAIN r.lang : r.lang[i] # OutOfVocab
NViews(r)   == IF r.pre > 0 THEN r.pre ELSE Len(r.views)
ViewsOk(r, side) == \A v \in DOMAIN r.views : ViewOk(r.views[v], side)
Repeated(s, n) == [i \in 1..n |-> s]
\* An input of the tower graph, and the tensor its views share.
TowerPart(t) == [t EXCEPT !.val = <<"in", "pixels">>]
=============================================================================
