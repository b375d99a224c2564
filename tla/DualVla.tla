-------------------------------- MODULE DualVla --------------------------------
(***************************************************************************)
(* OpenVLA-OFT and VLA-Adapter (src/src/models/openvla_oft.cpp and         *)
(* vla_adapter.cpp): the dual tower, a language model over prompt, patches *)
(* and action slots, and an L1 regression head.  `c` is as in Gr00t.       *)
(***************************************************************************)
EXTENDS Arch

StatsOk(g) == g.stats = <<>> \/ Q99Parse(g.stats, g.suite, g.action)
OftLoadOk(g) == g.nq > 0 /\ StatsOk(g)
AdapterLoadOk(g) == g.layers >= 1 /\ g.blocks >= 1 /\ g.blocks <= g.layers /\ StatsOk(g)

\* SYCL: towers and language model as fused nodes.
AdapterFused(c) ==
    /\ c.arch = "vla_adapter" /\ c.o.backend = "sycl" /\ c.o.fa_views /\ c.o.gemm = "bf16" /\ c.o.flash
    /\ "fuse" \notin c.o.off
DualO(c) == [c.o EXCEPT !.fused_enc = AdapterFused(c), !.fused = @ /\ c.o.gemm = "bf16"]

Refuses(r)  == r.pre > 0 \/ Len(r.lang) < 1 \/ Len(r.views) < 1

DualPixels(o, nv) ==
    LET S == DualDims.side
    IN  IF o.fused_enc THEN [n \in {"px_d", "px_s"} |-> Input(n, "f32", D4(S, S, 3, nv))]
        ELSE [n \in {t \o ToString(v) : t \in {"px_d", "px_s"}, v \in 1..nv} |-> Input(n, "f32", D3(S, S, 3))]
\* Each tower's own normalisation of each view.
DualFills(o, nv, r) ==
    LET n == ChwLen(DualDims.side, DualDims.side)
    IN  IF o.fused_enc THEN [t \in {"px_d", "px_s"} |-> {<<(v - 1) * n, n, <<t, r.name, v>>>> : v \in 1..nv}]
        ELSE [i \in DOMAIN DualPixels(o, nv) |->
                 {<<0, n, <<t, r.name, v>>>> : <<t, v>> \in {p \in {"px_d", "px_s"} \X (1..nv) : i = p[1] \o ToString(p[2])}}]
DualVis(c, r) ==
    LET o   == DualO(c)
        nv  == Len(r.views)
        out == DualEncode(o, nv, c.g.hidden)
    IN  [Blank EXCEPT !.cache = "vis", !.key = <<nv>>, !.ins = DualPixels(o, nv), !.fills = DualFills(o, nv, r),
                      !.parts = [proj |-> out], !.out = out, !.read = c.g.hidden * DualDims.n_patches * nv,
                      !.pre = DualViewsOk(r.views)]
\* The result copied device to device.
ProjRows(c, r) == {<<0, c.g.hidden * DualDims.n_patches * Len(r.views), <<"tower", r.name>>>>}

---------------------------------------------------------------------------
(* The language model's layer: bf holds where the CUDA nodes take over.    *)

LlamaSpec(g) == RopeSpec("neox", g.hd, "theta", FALSE)
LlamaWeights(o, g, bias) ==
    LET w(n, K, N) == GemmW(o, "lm", n, K, N)
        b(n, N) == IF bias THEN F32W("lm", n, N) ELSE Null
    IN  [attn_norm |-> F32W("lm", "attn_norm", g.hidden), ffn_norm |-> F32W("lm", "ffn_norm", g.hidden),
         Wq |-> w("attn_q", g.hidden, g.nq * g.hd), bq |-> b("bq", g.nq * g.hd),
         Wk |-> w("attn_k", g.hidden, g.nkv * g.hd), bk |-> b("bk", g.nkv * g.hd),
         Wv |-> w("attn_v", g.hidden, g.nkv * g.hd), bv |-> b("bv", g.nkv * g.hd),
         Wo |-> w("attn_o", g.nq * g.hd, g.hidden), Wg |-> w("ffn_gate", g.hidden, g.inter),
         Wu |-> w("ffn_up", g.hidden, g.inter), Wd |-> w("ffn_down", g.inter, g.hidden)]
CudaLm(o, seq) == o.fused /\ CublasRows(seq) /\ seq <= 4096

LlamaCuda(o, g, w, x, pos, mask, seq) ==
    LET bf(ws) == \A i \in DOMAIN ws : Bf16OperandRows(ws[i], seq)
        hn  == FusedRmsMul(x, w.attn_norm, "rms_eps", bf(<<w.Wq, w.Wk, w.Wv>>))
        heads(W, b, n, at, vt) == FusedHeadsRope(MmExact(o, W, hn), at, Null, g.hd, n, LlamaSpec(g), vt, b)
        Q   == heads(w.Wq, w.bq, g.nq, pos, FALSE)
        K   == heads(w.Wk, w.bk, g.nkv, pos, FALSE)
        Vt  == heads(w.Wv, w.bv, g.nkv, Null, TRUE)
        h1  == Add(x, MmExact(o, w.Wo, FusedAttnExact(Q, K, Vt, g.hd, bf(<<w.Wo>>), 1, mask)))
        hn2 == FusedRmsMul(h1, w.ffn_norm, "rms_eps", bf(<<w.Wg, w.Wu>>))
        mid == FusedSiluMul(MmExact(o, w.Wg, hn2), MmExact(o, w.Wu, hn2), bf(<<w.Wd>>))
    IN  Add(h1, MmExact(o, w.Wd, mid))
LlamaPlain(o, g, w, x, pos, mask, seq) ==
    LET hn == Mul(RmsNorm(x, "rms_eps"), w.attn_norm)
        p(W, b, n) == Reshape(IF Has(b) THEN Add(MulMat(W, hn), b) ELSE MulMat(W, hn), D3(g.hd, n, seq))
        turned(t) == Cont(Permute(Rope(LlamaSpec(g), t, pos), <<0, 2, 1, 3>>))
        att == Attention(turned(p(w.Wq, w.bq, g.nq)), turned(p(w.Wk, w.bk, g.nkv)),
                         Cont(Permute(p(w.Wv, w.bv, g.nkv), <<1, 2, 0, 3>>)), mask, g.hd, g.hidden, seq, 1)
        h1  == Add(x, MulMat(w.Wo, att))
        hn2 == Mul(RmsNorm(h1, "rms_eps"), w.ffn_norm)
    IN  Add(h1, MulMat(w.Wd, Mul(Silu(MulMat(w.Wg, hn2)), MulMat(w.Wu, hn2))))

\* Two layers with GELU between: the state as one more row.
Proprio(o, g, state) ==
    LET fc(n, K, in) == Add(MulMat(GemmW(o, "proprio", n, K, g.hidden), in), F32W("proprio", n \o ".b", g.hidden))
    IN  Reshape(fc("fc2", g.hidden, GeluErf(fc("fc1", g.state, state))), D2(g.hidden, 1))
HeadLn(n, g, x)     == LayerNorm(x, F32W("head", n \o ".w", x.ne[1]), F32W("head", n \o ".b", x.ne[1]), "head_eps")
HeadLinear(o, n, K, N, x) == Linear(o, GemmW(o, "head", n, K, N), F32W("head", n \o ".bias", N), x)
Rows2(x, from, n)   == Cont(Slice(x, 1, from, n))

---------------------------------------------------------------------------
(* OpenVLA-OFT: full attention over bos, patches, state, prompt, zeroed    *)
(* action slots and the stop token.                                        *)

OftHead(o, g, hin) ==
    LET h0 == Relu(HeadLinear(o, "fc1", g.action * g.hidden, g.hidden, HeadLn("ln1", g, hin)))
        h1 == Add(h0, Relu(HeadLinear(o, "lin", g.hidden, g.hidden, HeadLn("ln", g, h0))))
    IN  HeadLinear(o, "fc2", g.hidden, g.action, HeadLn("ln2", g, h1))
OftMain(c, r) ==
    LET o     == DualO(c)
        g     == c.g
        L     == Len(r.lang)
        patch == DualDims.n_patches * Len(r.views)
        n_act == g.chunk * g.action
        seq   == 1 + (patch + 1) + (L - 1) + n_act + 1
        ins   == [t_ids |-> Ids("t_ids", L + 1), t_state |-> In1("t_state", g.state), t_proj |-> In2("t_proj", g.hidden, patch),
                  act0 |-> In2("act0", g.hidden, n_act), t_pos |-> Ids("t_pos", seq)]
        emb   == GetRows(Weight(<<"lm", "token_embd">>, "bf16", D2(g.hidden, g.vocab)), ins.t_ids)
        parts == <<Rows2(emb, 0, 1), ins.t_proj, Proprio(o, g, ins.t_state), Rows2(emb, 1, L - 1), ins.act0, Rows2(emb, L, 1)>>
        all   == FoldLeft(LAMBDA x, y : Concat(x, y, 1), parts[1], Tail(parts))
        x0    == Named(all, <<"x">>)
        w     == LlamaWeights(o, g, FALSE)
        x     == IF CudaLm(o, seq) THEN LlamaCuda(o, g, w, x0, ins.t_pos, Null, seq)
                 ELSE LlamaPlain(o, g, w, x0, ins.t_pos, Null, seq)
        hs    == Mul(RmsNorm(Named(x, <<"h">>), "rms_eps"), F32W("lm", "output_norm", g.hidden))
        \* the rows before the action slots predict them
        act   == Rows2(hs, (patch + 1) + (L - 1), n_act)
        y     == OftHead(o, g, Reshape(act, D2(g.action * g.hidden, g.chunk)))
    IN  [Blank EXCEPT
            !.cache = "main", !.key = <<seq, Len(r.views), L>>, !.ins = ins, !.consts = {"t_pos", "act0"}, !.kept = {"t_pos", "act0"},
            !.fills = [Filled(ins, [t_ids |-> <<"tokens", r.lang, "stop">>, t_state |-> StateOf(r), t_proj |-> <<>>,
                                    act0 |-> <<"zeros">>, t_pos |-> Iota(seq)]) EXCEPT !.t_proj = ProjRows(c, r)],
            !.parts = [seq |-> all, lm |-> x, head |-> y], !.out = Need(<<y, x>>, x.ne = all.ne, y),
            !.read = g.action * g.chunk, !.pre = InVocab(r)]
OftSteps(c, r) == IF Refuses(r) THEN <<Refusal>> ELSE <<DualVis(c, r), OftMain(c, r)>>

---------------------------------------------------------------------------
(* VLA-Adapter: a causal model with action queries; each block of the head *)
(* attends its own tokens, the queries and the patches of one layer.       *)

\* Zero rows past n, which nothing sees: the term of the rows stays.
PadRows(x, n)   == Need(<<x>>, x.ne[2] <= n /\ DenseRows(x), T(x.ty, [x.ne EXCEPT ![2] = n], x.val))
RealRows(x, n)  == Window(x, [x.ne EXCEPT ![2] = n], x.st, n <= x.ne[2], x.val)

\* Scores against keys of several sources: key, its tables, gain, value.
SegmentsV(q, segs) == <<"segments", q.val, segs>>
Segment(k, table, gain, v) == <<k.val, table, gain, v.val>>
BridgeBlock(o, g, hx, cond, pvec, t, patch, prompt, joint, LH, hmask) ==
    LET lin(n, in) == HeadLinear(o, n, g.hidden, g.hidden, in)
        ht  == Rows2(cond, 0, patch)
        had == Concat(Rows2(cond, patch + prompt, g.tokens), pvec, 1)
        heads(p)  == ToHeads(p, g.head_dim, g.heads, p.ne[2], 1)
        vheads(p) == ToHeadsV(p, g.head_dim, g.heads, p.ne[2], 1)
        turn(p, cs, sn) == RopePairwise(heads(p), cs, sn, g.head_dim)
        q   == turn(lin("q_proj", hx), t.cT, t.sT)
        ks  == <<lin("k_self", hx), lin("k_adapter", had), lin("k_task", ht)>>
        vs  == <<lin("v_self", hx), lin("v_adapter", had), lin("v_task", ht)>>
        stack(s) == PadRows(Concat(Concat(s[1], s[2], 1), s[3], 1), LH)
        \* RoPE is linear: the gain of the patches' scores goes on their keys
        Kj  == turn(stack([ks EXCEPT ![3] = Scale(@, "gain")]), t.cJ, t.sJ)
        sj  == SoftMaxExt(MulMat(Kj, q), hmask, g.head_dim)
        sc(i, cs, sn) == MulMat(turn(ks[i], cs, sn), q)
        s3  == Concat(Concat(sc(1, t.cT, t.sT), sc(2, t.cA, t.sA), 0), Scale(sc(3, t.cK, t.sK), "gain"), 0)
        kqv == IF joint THEN MulMat(vheads(stack(vs)), sj)
               ELSE MulMat(Concat(Concat(vheads(vs[1]), vheads(vs[2]), 0), vheads(vs[3]), 0), SoftMaxExt(s3, Null, g.head_dim))
        term == SegmentsV(q, {Segment(ks[1], g.chunk, "1", vs[1]), Segment(ks[2], g.tokens + 1, "1", vs[2]),
                              Segment(ks[3], patch, "gain", vs[3])})
        att == Need(<<kqv>>, TRUE, [kqv EXCEPT !.val = term])
        mg  == Reshape(Cont(Permute(att, <<0, 2, 1, 3>>)), D2(g.hidden, g.chunk))
        res == Add(lin("o_proj", mg), hx)
    IN  Relu(lin("ffn_lin", HeadLn("ffn_ln", g, res)))

AdapterLm(c, o, x, pos, mask, seq, width) ==
    LET g   == c.g
        cfg == [hidden |-> g.hidden, nq |-> g.nq, nkv |-> g.nkv, hd |-> g.hd, inter |-> g.inter, eps |-> "rms_eps",
                rope |-> LlamaSpec(g)]
        w   == LlamaWeights(o, g, TRUE)
    IN  IF AdapterFused(c)
        THEN FusedLmLayer(cfg, FusedLmWeights(o, cfg, "lm", TRUE), x, pos, Cast(mask, "f16"), seq, Null, FusedLmKv(cfg, seq))
        ELSE IF width = seq /\ CudaLm(o, seq) THEN LlamaCuda(o, g, w, x, pos, mask, seq)
        ELSE LlamaPlain(o, g, w, x, pos, mask, width)

\* The tables of one softmax: each segment's, then no turn.
JointFill(g, patch, LJ, LH, f) ==
    LET hd == g.head_dim
    IN  {<<0, hd * g.chunk, <<f, g.chunk>>>>, <<hd * g.chunk, hd * (g.tokens + 1), <<f, g.tokens + 1>>>>,
         <<hd * (g.chunk + g.tokens + 1), hd * patch, <<f, patch>>>>, <<hd * LJ, hd * (LH - LJ), <<f, "none">>>>}
AdapterMain(c, r) ==
    LET o      == DualO(c)
        g      == c.g
        n      == Len(r.lang)
        patch  == DualDims.n_patches * Len(r.views)
        seq    == 1 + patch + (n - 1) + g.tokens + 1
        width  == GemmWidth(o, seq)
        LJ     == g.chunk + g.tokens + 1 + patch
        LH     == GemmWidth(o, LJ)
        joint  == LH > LJ
        table(name, k) == In2(name, g.head_dim, k)
        tables == [cT |-> table("cT", g.chunk), sT |-> table("sT", g.chunk)] @@
                  (IF joint THEN [cJ |-> table("cJ", LH), sJ |-> table("sJ", LH)]
                   ELSE [cA |-> table("cA", g.tokens + 1), sA |-> table("sA", g.tokens + 1),
                         cK |-> table("cK", patch), sK |-> table("sK", patch)])
        hm     == IF joint THEN [hmask |-> In2("hmask", LH, g.chunk)] ELSE <<>>
        ins    == [t_ids |-> Ids("t_ids", n + g.tokens + 1), t_proj |-> In2("t_proj", g.hidden, patch),
                   t_pos |-> Ids("t_pos", width), t_mask |-> In2("t_mask", width, width), t_state |-> In1("t_state", g.state),
                   t_x0 |-> In2("t_x0", g.action * g.hidden, g.chunk)] @@ tables @@ hm
        emb    == GetRows(Weight(<<"lm", "token_embd">>, "bf16", D2(g.hidden, g.vocab)), ins.t_ids)
        aq     == Cast(GemmW(o, "lm", "action_queries", g.hidden, g.tokens), "f32")
        text   == Concat(Concat(Rows2(emb, 0, n), aq, 1), Rows2(emb, n + g.tokens, 1), 1)
        all    == Concat(Concat(Rows2(text, 0, 1), ins.t_proj, 1), Rows2(text, 1, n + g.tokens), 1)
        x      == AdapterLm(c, o, PadRows(Named(all, <<"x">>), width), ins.t_pos, ins.t_mask, seq, width)
        lout   == RealRows(x, seq)
        final  == Mul(RmsNorm(Named(lout, <<"h">>), "rms_eps"), F32W("lm", "output_norm", g.hidden))
        pvec   == Proprio(o, g, ins.t_state)
        h0     == Relu(HeadLinear(o, "fc1", g.action * g.hidden, g.hidden, HeadLn("ln1", g, ins.t_x0)))
        h1     == BridgeBlock(o, g, Named(h0, <<"hx">>), Named(final, <<"cond">>), pvec, tables, patch, n - 1, joint, LH,
                              IF joint THEN hm.hmask ELSE Null)
        y      == HeadLinear(o, "fc2", g.hidden, g.action, HeadLn("ln2", g, Named(h1, <<"hx">>)))
        consts == {"t_pos", "t_mask", "t_x0"} \cup DOMAIN tables \cup DOMAIN hm
        rows(k, f) == Whole(ins[k], <<f, ins[k].ne[2]>>)
        f(k)   == IF k \in {"cT", "cA", "cK", "cJ"} THEN "cos" ELSE "sin"
        what   == [t_ids |-> <<"tokens", r.lang, g.tokens, "stop">>, t_pos |-> Iota(width), t_mask |-> Causal(width),
                   t_state |-> StateOf(r), t_x0 |-> <<"zeros">>, hmask |-> <<"past", LJ>>]
    IN  [Blank EXCEPT
            !.cache = "main", !.key = <<seq, Len(r.views), n>>, !.ins = ins, !.consts = consts, !.kept = consts,
            !.fills = [k \in DOMAIN ins |->
                          IF k = "t_proj" THEN ProjRows(c, r)
                          ELSE IF k \in {"cJ", "sJ"} THEN JointFill(g, patch, LJ, LH, f(k))
                          ELSE IF k \in DOMAIN tables THEN rows(k, f(k)) ELSE Whole(ins[k], what[k])],
            !.parts = [seq |-> all, lm |-> lout, final |-> final, pvec |-> pvec, h0 |-> h0, block |-> h1, out |-> y],
            !.out = Need(<<y, x, h1>>, lout.ne = all.ne /\ h1.ne = h0.ne, y), !.read = g.action * g.chunk, !.pre = InVocab(r)]
AdapterSteps(c, r) == IF Refuses(r) THEN <<Refusal>> ELSE <<DualVis(c, r), AdapterMain(c, r)>>
=============================================================================
