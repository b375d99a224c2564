---------------------------------- MODULE Evo1 ----------------------------------
(***************************************************************************)
(* Evo-1 (src/src/models/evo1.cpp): InternViT, a Qwen2 model over a padded *)
(* prompt, and a flow-matching transformer over its context.  `c` is as in *)
(* Gr00t.                                                                  *)
(***************************************************************************)
EXTENDS Arch, Gemma

EvoLoadOk(g) == g.embed = g.hidden /\ g.action = g.horizon * g.per_a /\ g.n_stats = g.per_a
\* The rows the tower makes of a view, which nothing compares with the slots
\* the prompt has for them.
EvoViewRows(g) == ((g.image \div g.patch) \div 2) * ((g.image \div g.patch) \div 2)
EvoAgrees(g)   == g.n_img = EvoViewRows(g)

EvoAct(c) ==
    IF c.o.act = "bf16" /\ c.o.backend \in {"cuda", "sycl"} /\ c.o.gemm = "bf16" THEN "bf16" ELSE "f32"
\* Flash attention is SYCL's default; "flash" in c.o.off is --flash-attn 0.
EvoFlash(c) == "flash" \notin c.o.off /\ (c.o.flash \/ (c.o.backend = "sycl" /\ c.o.fa_views))
EvoFused(c) ==
    c.o.backend = "sycl" /\ EvoAct(c) = "bf16" /\ EvoFlash(c) /\ c.o.fa_views /\ "fuse" \notin c.o.off
\* VLA_FUSED_OPS names one part, or all of them get the CUDA nodes.
EvoNodes(c, t) == c.o.fused /\ EvoAct(c) = "f32" /\ (c.o.fused_ops = t \/ c.o.fused_ops \notin {"vit", "lm", "dit"})
EvoO(c) == [c.o EXCEPT !.flash = EvoFlash(c), !.act = EvoAct(c), !.fused = c.o.fused /\ EvoAct(c) = "f32"]

EvoMm(o, p, n, K, N, x) == Add(MmAct(o, GemmW(o, p, n, K, N), x, o.act), F32W(p, n \o ".b", N))
EvoLn(p, n, x, eps) == LayerNorm(x, F32W(p, n \o ".w", x.ne[1]), F32W(p, n \o ".b", x.ne[1]), eps)

---------------------------------------------------------------------------
(* The tower. *)

EvoVit(c) == EncCfg(c.g.vit, c.g.vit_heads, 4 * c.g.vit, "vit_eps", EvoFlash(c))

InternVitPlain(o, v, w, x, N) ==
    LET mm(W, b, in) == Add(MmAct(o, W, in, o.act), b)
        qkv   == mm(w.Wqkv, w.bqkv, LayerNorm(x, w.n1w, w.n1b, v.eps))
        q32   == AsType(qkv, "f32")
        view(i)  == Permute(HeadView(qkv, v.head_dim, v.heads, N, v.hidden, 3, i), <<0, 2, 1, 3>>)
        heads(i) == ToHeads(Cont(RowPart(q32, 3, i)), v.head_dim, v.heads, N, 1)
        fa(a, b, d) == Reshape(FlashAttnExt(a, b, d, Null, v.head_dim), D2(v.hidden, N))
        att == IF o.flash /\ o.fa_views THEN fa(view(0), view(1), view(2))
               ELSE IF o.flash THEN fa(heads(0), heads(1), heads(2))
               ELSE Attention(heads(0), heads(1), ToHeadsV(Cont(RowPart(q32, 3, 2)), v.head_dim, v.heads, N, 1),
                              Null, v.head_dim, v.hidden, N, 1)
        x1  == Add(x, Mul(mm(w.Wproj, w.bproj, AsType(att, o.act)), w.ls1))
        ff  == GeluErf(mm(w.Wfc1, w.bfc1, LayerNorm(x1, w.n2w, w.n2b, v.eps)))
    IN  Add(x1, Mul(mm(w.Wfc2, w.bfc2, ff), w.ls2))
InternVitLayer(c, o, v, x, N) ==
    LET w == VitWeights(o, v, "vit", TRUE)
    IN  IF EvoNodes(c, "vit") /\ ~o.flash THEN VitBlockFused(o, v, w, x, N) ELSE InternVitPlain(o, v, w, x, N)

\* CLS before the patches, positions on all.
InternEmbed(g, px) ==
    LET conv == Conv2dF32(TowerPatch("vit", g.vit, g.patch), px, g.patch, 0)
        NP   == conv.ne[1] * conv.ne[2]
        pt   == Add(Cont(Transpose(Reshape(conv, D2(NP, g.vit)))), F32W("vit", "patch_b", g.vit))
    IN  Add(Concat(Reshape(F32W("vit", "cls", g.vit), D2(g.vit, 1)), pt, 1), Weight(<<"vit", "pos">>, "f32", D2(g.vit, NP + 1)))
\* Two by two neighbouring patches side by side.
Shuffle2(g, t) ==
    LET grid == g.image \div g.patch
        s    == grid \div 2
        s1   == Cont(Permute(Reshape(t, D3(2 * g.vit, s, grid)), <<0, 2, 1, 3>>))
        s2   == Cont(Permute(Reshape(s1, D3(4 * g.vit, s, s)), <<0, 2, 1, 3>>))
    IN  Reshape(s2, D2(4 * g.vit, s * s))
EvoView(c, o, px) ==
    LET g == c.g
        v == EvoVit(c)
        e == InternEmbed(g, px)
        x == InternVitLayer(c, o, v, AsType(e, o.act), e.ne[2])
        s == Shuffle2(g, Cont(Slice(x, 1, 1, e.ne[2] - 1)))
        h == GeluErf(EvoMm(o, "mm", "fc1", 4 * g.vit, g.hidden, EvoLn("mm", "ln", s, "proj_eps")))
    IN  AsType(EvoMm(o, "mm", "fc2", g.hidden, g.hidden, h), "f32")
EvoViewsFused(c, o, px, nv) ==
    LET g == c.g
        v == EvoVit(c)
        e == InternEmbed(g, TowerPart(Slice(px, 3, 0, 1)))
        N == e.ne[2]
        x == EncBlock(o, FusedTowerCfg(v), FusedTowerWeights(VitWeights(o, v, "vit", TRUE)), AsType(Views(e, nv), "bf16"), N, nv)
        s == Views(Shuffle2(g, Cont(Cast(ViewRows(x, N, nv - 1, 1, N - 1), "f32"))), nv)
        n == FusedLnorm(s, F32W("mm", "ln.w", 4 * g.vit), F32W("mm", "ln.b", 4 * g.vit), "bf16", "proj_eps")
        lin(f, K, in, ty, mode) == FusedLinear(GemmW(o, "mm", f, K, g.hidden), in, F32W("mm", f \o ".b", g.hidden), Null, ty, mode)
    IN  lin("fc2", g.hidden, lin("fc1", 4 * g.vit, n, "bf16", "erf"), "f32", "none")

\* One graph for every view; without the fused tower, an input and an output each.
EvoVis(c, r) ==
    LET o    == EvoO(c)
        S    == c.g.image
        nv   == Len(r.views)
        name(v) == "px" \o ToString(v)
        all  == Input("px", "f32", D4(S, S, 3, nv))
        ins  == IF EvoFused(c) THEN [px |-> all]
                ELSE [n \in {name(v) : v \in 1..nv} |-> Input(n, "f32", D3(S, S, 3))]
        out  == IF EvoFused(c) THEN EvoViewsFused(c, o, all, nv) ELSE EvoView(c, o, TowerPart(ins[name(1)]))
    IN  [Blank EXCEPT !.cache = "vision", !.scratch = TRUE, !.ins = ins,
            !.fills = IF EvoFused(c) THEN [px |-> ByView(all, nv, r)]
                      ELSE [n \in DOMAIN ins |-> Whole(ins[n], <<"view", r.name, CHOOSE v \in 1..nv : name(v) = n>>)],
            !.parts = [emb |-> out], !.out = out, !.read = (IF EvoFused(c) THEN nv ELSE 1) * c.g.n_img * c.g.hidden,
            !.post = ViewsOk(r, S)]

---------------------------------------------------------------------------
(* The prompt: image slots framed before the text, padded to max_text.     *)

Ctx == "ctx"
Frame(g, v) ==
    <<"image", "dash", ToString(v), "colon", "space", "img_start">> \o Repeated(Ctx, g.n_img) \o <<"img_end", "newline">>
EvoPrompt(g, nv, lang) ==
    IF \E j \in DOMAIN lang : lang[j] = Ctx THEN lang ELSE FlattenSeq([v \in 1..nv |-> Frame(g, v)]) \o lang
Padded(g, ids) == ids \o Repeated("pad", g.max_text - Len(ids))
Slots(ids)     == Cardinality({j \in DOMAIN ids : ids[j] = Ctx})
\* Which positions the language model may see: the client's mask, or the prompt.
AttnOk(r, n)   == IF r.mask = <<>> THEN <<"first", n>> ELSE r.mask
MaskOk(g, r)   == r.mask = <<>> \/ r.mask[2] = g.max_text

---------------------------------------------------------------------------
(* The language model. *)

EvoLm(c) ==
    [hidden |-> c.g.hidden, nq |-> c.g.nq, nkv |-> c.g.nkv, hd |-> c.g.hd, inter |-> c.g.inter, eps |-> "rms_eps",
     rope |-> RopeSpec("neox", c.g.hd, "theta", FALSE)]
Qwen2Weights(o, l) ==
    LET w(n, K, N) == GemmW(o, "lm", n, K, N)
    IN  [attn_norm |-> F32W("lm", "attn_norm", l.hidden), ffn_norm |-> F32W("lm", "ffn_norm", l.hidden),
         Wq |-> w("attn_q", l.hidden, l.nq * l.hd), bq |-> F32W("lm", "bq", l.nq * l.hd),
         Wk |-> w("attn_k", l.hidden, l.nkv * l.hd), bk |-> F32W("lm", "bk", l.nkv * l.hd),
         Wv |-> w("attn_v", l.hidden, l.nkv * l.hd), bv |-> F32W("lm", "bv", l.nkv * l.hd),
         Wo |-> w("attn_o", l.nq * l.hd, l.hidden), Wg |-> w("ffn_gate", l.hidden, l.inter),
         Wu |-> w("ffn_up", l.hidden, l.inter), Wd |-> w("ffn_down", l.inter, l.hidden)]
Qwen2Nodes(o, l, w, h, pos, mask, seq, qmask) ==
    LET bf(ws) == \A i \in DOMAIN ws : Bf16OperandRows(ws[i], seq)
        hn  == FusedRmsMul(h, w.attn_norm, l.eps, bf(<<w.Wq, w.Wk, w.Wv>>))
        heads(W, b, n, at, vt) == FusedHeadsRope(MmExact(o, W, hn), at, Null, l.hd, n, l.rope, vt, b)
        att == FusedAttnExact(heads(w.Wq, w.bq, l.nq, pos, FALSE), heads(w.Wk, w.bk, l.nkv, pos, FALSE),
                              heads(w.Wv, w.bv, l.nkv, Null, TRUE), l.hd, bf(<<w.Wo>>), 1, mask)
        h1  == Add(h, Mul(MmExact(o, w.Wo, att), qmask))
        hn2 == FusedRmsMul(h1, w.ffn_norm, l.eps, bf(<<w.Wg, w.Wu>>))
        mid == FusedSiluMul(MmExact(o, w.Wg, hn2), MmExact(o, w.Wu, hn2), bf(<<w.Wd>>))
    IN  Add(h1, MmExact(o, w.Wd, mid))
\* Products in the activation type, attention in F32.
Qwen2Plain(o, l, w, h, pos, mask, seq, qmask) ==
    LET mm(W, x) == MmAct(o, W, x, o.act)
        hn == Mul(RmsNorm(h, l.eps), w.attn_norm)
        p(W, b, n) == Reshape(AsType(Add(mm(W, hn), b), "f32"), D3(l.hd, n, seq))
        q  == Rope(l.rope, p(w.Wq, w.bq, l.nq), pos)
        k  == Rope(l.rope, p(w.Wk, w.bk, l.nkv), pos)
        v  == p(w.Wv, w.bv, l.nkv)
        heads(t) == Permute(t, <<0, 2, 1, 3>>)
        att == IF o.flash /\ o.fa_views
               THEN Reshape(FlashAttnExt(heads(q), heads(k), heads(v), Cast(mask, "f16"), l.hd), D2(l.nq * l.hd, seq))
               ELSE Attention(Cont(heads(q)), FaKv(o, Cont(heads(k))), FaKv(o, Cont(Permute(v, <<1, 2, 0, 3>>))), mask,
                              l.hd, l.nq * l.hd, seq, 1)
        h1  == Add(h, Mul(mm(w.Wo, AsType(att, o.act)), qmask))
        hn2 == Mul(RmsNorm(h1, l.eps), w.ffn_norm)
    IN  Add(h1, mm(w.Wd, Mul(Silu(mm(w.Wg, hn2)), mm(w.Wu, hn2))))
EvoLmLayer(c, o, x, pos, mask, seq, qmask) ==
    LET l == EvoLm(c)
        w == Qwen2Weights(o, l)
    IN  IF EvoFused(c)
        THEN FusedLmLayer(l, FusedLmWeights(o, l, "lm", TRUE), x, pos, Cast(mask, "f16"), seq, qmask, FusedLmKv(l, seq))
        ELSE IF EvoNodes(c, "lm") /\ CublasRows(seq) /\ seq <= 4096
        THEN Qwen2Nodes(o, l, w, x, pos, mask, seq, qmask)
        ELSE Qwen2Plain(o, l, w, AsType(x, o.act), pos, mask, seq, qmask)

---------------------------------------------------------------------------
(* The action head. *)

\* Part k of a block's packed input projection.
InProj(o, E, k) ==
    [W |-> Slice(GemmW(o, "dit", "attn_in", E, 3 * E), 1, k * E, E), b |-> Slice(F32W("dit", "attn_in.b", 3 * E), 0, k * E, E)]
EvoContext(o, g, t) ==
    LET d == InProj(o, g.embed, 1)
        v == InProj(o, g.embed, 2)
        hd == g.embed \div g.dit_heads
        p(w) == AsType(Add(MmAct(o, w.W, t, o.act), w.b), "f32")
        rows(w)  == ToHeads(p(w), hd, g.dit_heads, t.ne[2], 1)
        typed(x) == IF g.fused THEN Cast(x, "bf16") ELSE x
    IN  IF o.flash /\ o.fa_views THEN KV(typed(rows(d)), typed(rows(v)))
        ELSE KV(rows(d), ToHeadsV(p(v), hd, g.dit_heads, t.ne[2], 1))

EvoBlockFused(o, g, x, kv, tau) ==
    LET E  == g.embed
        n  == x.ne[2]
        q  == InProj(o, E, 0)
        lin(W, in, b, res, ty, mode) == FusedLinear(W, in, b, res, ty, mode)
        qp == lin(q.W, FusedLnorm(x, F32W("dit", "n1.w", E), F32W("dit", "n1.b", E), "bf16", "proj_eps"), q.b, Null, "bf16", "none")
        fa == Retype(FlashAttnExt(HeadsView(qp, E \div g.dit_heads, g.dit_heads, n, 1), kv.k, kv.v, Null, "dit_hd"), "bf16")
        x1 == lin(GemmW(o, "dit", "attn_out", E, E), Reshape(fa, D2(E, n)), F32W("dit", "attn_out.b", E), x, "f32", "none")
        \* the time embedding rides on the second norm's bias
        b2 == Reshape(Add(Reshape(F32W("dit", "n2.b", E), D2(E, 1)), Reshape(tau, D2(E, 1))), D1(E))
        n2 == FusedLnorm(x1, F32W("dit", "n2.w", E), b2, "bf16", "proj_eps")
        ff == lin(GemmW(o, "dit", "ff1", E, g.ff), n2, F32W("dit", "ff1.b", g.ff), Null, "bf16", "erf")
    IN  lin(GemmW(o, "dit", "ff2", g.ff, E), ff, F32W("dit", "ff2.b", E), x1, "f32", "none")
EvoBlockNodes(o, g, x, kv, tau) ==
    LET E  == g.embed
        n  == x.ne[2]
        hd == E \div g.dit_heads
        w(f, K, N) == GemmW(o, "dit", f, K, N)
        b(f, N)    == F32W("dit", f, N)
        q  == InProj(o, E, 0)
        xq == FusedLn(x, b("n1.w", E), b("n1.b", E), "proj_eps", FALSE, Bf16OperandRows(q.W, n))
        Q  == FusedPart(FusedQkvHeads(MmExact(o, q.W, xq), q.b, Null, Null, 1, hd, g.dit_heads, n, 1, {}, {}, <<0>>, FALSE),
                        0, FALSE, hd, g.dit_heads, n, 1)
        Wo == w("attn_out", E, E)
        f2 == w("ff2", g.ff, E)
        at == AttentionRowsExact(o, Q, kv.k, kv.v, "dit_hd", E, n, 1, Bf16OperandRows(Wo, n))
        x1 == FusedBiasRes(MmExact(o, Wo, at), b("attn_out.b", E), x)
        x2 == Add(FusedLn(x1, b("n2.w", E), b("n2.b", E), "proj_eps", FALSE, FALSE), tau)
        ff == FusedBiasGeluErf(MmExact(o, w("ff1", E, g.ff), x2), b("ff1.b", g.ff), Bf16OperandRows(f2, n))
    IN  FusedBiasRes(MmExact(o, f2, ff), b("ff2.b", E), x1)
EvoBlockPlain(o, g, x, kv, tau) ==
    LET E  == g.embed
        n  == x.ne[2]
        hd == E \div g.dit_heads
        q  == InProj(o, E, 0)
        qv == Add(MmAct(o, q.W, EvoLn("dit", "n1", x, "proj_eps"), o.act), q.b)
        at == IF o.flash /\ o.fa_views
              THEN Reshape(FlashAttnExt(HeadsView(qv, hd, g.dit_heads, n, 1), kv.k, kv.v, Null, "dit_hd"), D2(E, n))
              ELSE Attention(ToHeads(AsType(qv, "f32"), hd, g.dit_heads, n, 1), kv.k, kv.v, Null, "dit_hd", E, n, 1)
        x1 == Add(x, EvoMm(o, "dit", "attn_out", E, E, AsType(at, o.act)))
        x2 == Add(EvoLn("dit", "n2", x1, "proj_eps"), tau)
    IN  Add(x1, EvoMm(o, "dit", "ff2", g.ff, E, GeluErf(EvoMm(o, "dit", "ff1", E, g.ff, x2))))
EvoBlock(c, o, g, x, kv, tau) ==
    IF EvoFused(c) THEN AsType(EvoBlockFused(o, g, AsType(x, "f32"), kv, tau), o.act)
    ELSE IF EvoNodes(c, "dit") THEN EvoBlockNodes(o, g, x, kv, tau) ELSE EvoBlockPlain(o, g, x, kv, tau)

EvoEncode(o, g, xm) ==
    LET a1 == Add(Relu(EvoMm(o, "aex", "W1", g.per_a, g.ae, xm)), Weight(<<"aex", "pos">>, "f32", D2(g.ae, g.horizon)))
    IN  EvoMm(o, "aex", "W3", g.ae, g.embed, Relu(EvoMm(o, "aex", "W2", g.ae, g.ae, a1)))
EvoHead(o, g, x) ==
    LET flat == Reshape(Cont(EvoLn("aex", "norm_out", x, "proj_eps")), D1(g.horizon * g.embed))
        pool == EvoMm(o, "aex", "seq_pool", g.horizon * g.embed, g.embed, flat)
    IN  AsType(EvoMm(o, "aex", "head2", g.ae, g.action, Relu(EvoMm(o, "aex", "head1", g.embed, g.ae, pool))), "f32")

---------------------------------------------------------------------------
EvoInputs(g) ==
    [t_embeds |-> In2("t_embeds", g.hidden, g.max_text), t_pos |-> Ids("t_pos", g.max_text),
     t_lmmask |-> In2("t_lmmask", g.max_text, g.max_text),
     t_qmask |-> Input("t_qmask", "f32", D2(1, g.max_text)), t_state |-> In1("t_state", g.per_a), t_x |-> In1("t_x", g.action),
     t_amask |-> In1("t_amask", g.per_a)]
EvoMain(c, r, nv, ids) ==
    LET o   == EvoO(c)
        g   == c.g @@ [fused |-> EvoFused(c)]
        ins == EvoInputs(g)
        seq == g.max_text
        lm  == EvoLmLayer(c, o, ins.t_embeds, ins.t_pos, ins.t_lmmask, seq, [ins.t_qmask EXCEPT !.val = RowGain("t_qmask")])
        ctx == AsType(Mul(RmsNorm(Named(lm, <<"h">>), "rms_eps"), F32W("lm", "output_norm", g.hidden)), o.act)
        se  == Relu(EvoMm(o, "state", "fc1", g.per_a, g.ae, AsType(ins.t_state, o.act)))
        tok == Reshape(EvoMm(o, "state", "fc2", g.ae, g.embed, se), D2(g.embed, 1))
        kv  == EvoContext(o, g, Named(Concat(ctx, tok, 1), <<"context">>))
        tau == [Cont(Slice(Weight(<<"aex", "time_pos">>, "f32", D2(g.embed, 1000)), 1, 0, 1)) EXCEPT !.val = <<"tau">>]
        x0  == EvoEncode(o, g, AsType(Mul(Reshape(ins.t_x, D2(g.per_a, g.horizon)), ins.t_amask), o.act))
        x1  == EvoBlock(c, o, g, Named(x0, <<"x", "i">>), KV(Named(kv.k, <<"k">>), Named(kv.v, <<"v">>)), Reshape(tau, D1(g.embed)))
        vt  == EvoHead(o, g, Named(x1, <<"x", "n">>))
        out == Add(ins.t_x, Scale(vt, "dt"))
        ok  == AttnOk(r, Len(ids))
    IN  [Blank EXCEPT
            !.cache = "main", !.key = <<seq, g.steps>>, !.ins = ins, !.tag = ok,
            !.consts = {"t_pos", "t_lmmask", "t_qmask", "t_amask"}, !.kept = {"t_pos", "t_lmmask", "t_qmask", "t_amask"},
            !.fills = Filled(ins, [t_embeds |-> EmbedsOf(r, Padded(g, ids)), t_pos |-> Iota(seq), t_lmmask |-> <<"causal where", ok>>,
                                   t_qmask |-> ok, t_state |-> StateOf(r), t_x |-> NoiseOf(r), t_amask |-> <<"real", g.real>>]),
            !.parts = [lm |-> lm, context |-> Concat(ctx, tok, 1), k |-> kv.k, v |-> kv.v, x0 |-> x0, block |-> x1, out |-> out],
            !.out = Need(<<lm, x1>>, lm.ne = ins.t_embeds.ne /\ x1.ne = x0.ne, out), !.read = g.action,
            !.fetch = TRUE, !.pre = Slots(ids) = nv * g.n_img /\ MaskOk(g, r)]

EvoSteps(c, r) ==
    LET nv  == NViews(r)
        ids == EvoPrompt(c.g, nv, r.lang)
        vis == IF r.pre > 0 THEN <<>> ELSE <<EvoVis(c, r)>>
    IN  IF nv = 0 \/ (r.pre = 0 /\ ~c.g.vision) THEN <<Refusal>>
        ELSE Append(vis, IF Len(ids) > c.g.max_text THEN Refusal ELSE EvoMain(c, r, nv, ids))
=============================================================================
