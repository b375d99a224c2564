---------------------------------- MODULE Smol ----------------------------------
(***************************************************************************)
(* SmolVLA (src/src/models/smolvla.cpp): a prefix of image, language and   *)
(* state rows through the VLM's layers, whose K/V the expert's layers take *)
(* in turn by joint attention and through projections of their own.        *)
(* c.o.off names the VLA_SMOLVLA_NO_* switches that are set, c.o.pi_q8 the *)
(* towers of VLA_SMOLVLA_W8A8.                                             *)
(***************************************************************************)
EXTENDS Arch, Gemma

SmolVitOk(g) ==
    /\ g.patch > 0 /\ g.scale > 0 /\ g.vit_heads > 0
    /\ g.image % g.patch = 0 /\ (g.image \div g.patch) % g.scale = 0 /\ g.vit % g.vit_heads = 0
    /\ LET k == (g.image \div g.patch) \div g.scale IN k * k = g.n_img
SmolGgufOk(g) == g.steps >= 1 /\ g.state_stats = g.real_state /\ g.action_stats = g.real_action
                 /\ g.embd_width = g.hidden
\* safetensors: a tensor of the shape asked for, whose span is that many elements.
ElemBytes == [BF16 |-> 2, F32 |-> 4]
StReads(t, shape) ==
    /\ t.shape = shape /\ t.dtype \in DOMAIN ElemBytes
    /\ t.to - t.from = FoldSeq(LAMBDA d, n : n * d, ElemBytes[t.dtype], shape)
\* A checkpoint says the expert's width itself.
SmolSafetensorsOk(g) == g.steps >= 1 /\ ~g.unsupported /\ StReads(g.gate, <<g.expert_inter, g.expert_h>>)
\* Its statistics, where they are not found or do not read, are the identity.
SmolStats(g) == IF g.gguf \/ (g.stats.found /\ StReads(g.stats.mean, <<g.real_state>>) /\ StReads(g.stats.std, <<g.real_state>>))
                THEN "statistics" ELSE "identity"
SmolLoadOk(g) == SmolVitOk(g) /\ IF g.gguf THEN SmolGgufOk(g) ELSE SmolSafetensorsOk(g)

---------------------------------------------------------------------------
(* What create settles. *)

SmolFlash(o)  == o.flash \/ (o.backend = "sycl" /\ o.fa_views)
Fusable(c)    == /\ c.o.backend = "sycl" /\ c.o.gemm = "bf16" /\ SmolFlash(c.o) /\ c.o.fa_views /\ ~c.g.packed
SmolVitFused(c) == Fusable(c) /\ "vit_fuse" \notin c.o.off
SmolLmFused(c)  == Fusable(c) /\ "fuse" \notin c.o.off
SmolQ8(c, t)    == t \in c.o.pi_q8 /\ SmolVitFused(c) /\ SmolLmFused(c)
\* A file's packed GEMM weights stay packed.
SmolO(c) == [c.o EXCEPT !.flash = SmolFlash(c.o), !.gemm = IF c.g.packed THEN "q8_0" ELSE @]
SmolRope(g) == RopeSpec("neox", g.hd, "1e4", FALSE)
QF(g)  == g.nq * g.hd
KVF(g) == g.nkv * g.hd

\* Layer i attends to its own tokens too.
ExpertSelfAttn(g, i) == g.every_n > 0 /\ i % g.every_n = 0

\* kind: "vlm", or the expert's "self" and "cross".
SmolWeights(c, kind) ==
    LET g  == c.g
        o  == SmolO(c)
        H  == IF kind = "vlm" THEN g.hidden ELSE g.expert_h
        F  == IF kind = "vlm" THEN g.inter ELSE g.expert_inter
        w(n, K, N) == GemmW(o, kind, n, K, N)
        kv(n) == IF kind = "cross" THEN Weight(<<kind, n>>, "f32", D2(KVF(g), KVF(g))) ELSE w(n, H, KVF(g))
        qkv == <<w("q", H, QF(g)), kv("k"), kv("v")>>
        gu  == <<w("gate", H, F), w("up", H, F)>>
        q8  == SmolQ8(c, IF kind = "vlm" THEN "vlm" ELSE "expert")
        i8(ws) == IF q8 THEN QuantI8(ws) ELSE NoQ
    IN  [Wln_in |-> F32W(kind, "ln_in", H), Wln_post |-> F32W(kind, "ln_post", H),
         Wq |-> qkv[1], Wk |-> qkv[2], Wv |-> qkv[3], Wqkv |-> IF kind = "cross" THEN Null ELSE Fuse(qkv),
         Wo |-> w("o", QF(g), H), Wgate |-> gu[1], Wup |-> gu[2], Wgu |-> Fuse(gu), Wdown |-> w("down", F, H),
         q_qkv |-> IF kind = "cross" THEN NoQ ELSE i8(qkv), q_q |-> IF kind = "cross" THEN i8(<<qkv[1]>>) ELSE NoQ,
         q_o |-> i8(<<w("o", QF(g), H)>>), q_gu |-> i8(gu), q_down |-> i8(<<w("down", F, H)>>)]

---------------------------------------------------------------------------
(* The per-op layers. *)

HeadsOf(g, n, p) == Reshape(p, D3(g.hd, n, p.ne[2]))
SmolFlashRows(g, q, k, v, mask) ==
    LET heads(t) == Permute(t, <<0, 2, 1, 3>>)
    IN  FlashAttnExt(heads(q), heads(k), heads(v), mask, g.hd)
AttnMlp(c, w, x, q, k, v, mask, seq) ==
    LET g   == c.g
        fa  == SmolFlashRows(g, q, FaKv(c.o, k), FaKv(c.o, v), mask)
        h1  == Add(x, MulMat(w.Wo, Reshape(fa, D2(QF(g), seq))))
        n   == RmsNormW(h1, w.Wln_post, "1e-5")
    IN  Add(h1, MulMat(w.Wdown, Mul(Silu(MulMat(w.Wgate, n)), MulMat(w.Wup, n))))
SmolVlmLayer(c, w, x, pos, mask, seq) ==
    LET g == c.g
        n == RmsNormW(x, w.Wln_in, "1e-5")
        k == Rope(SmolRope(g), HeadsOf(g, g.nkv, MulMat(w.Wk, n)), pos)
        v == HeadsOf(g, g.nkv, MulMat(w.Wv, n))
        q == Rope(SmolRope(g), HeadsOf(g, g.nq, MulMat(w.Wq, n)), pos)
    IN  [y |-> AttnMlp(c, w, x, q, k, v, mask, seq), k |-> k, v |-> v]
SmolSelfLayer(c, w, x, K, V, pos, mask, seq) ==
    LET own == SmolVlmLayer(c, w, x, pos, Null, seq)
        g   == c.g
        n   == RmsNormW(x, w.Wln_in, "1e-5")
        q   == Rope(SmolRope(g), HeadsOf(g, g.nq, MulMat(w.Wq, n)), pos)
    IN  AttnMlp(c, w, x, q, ConcatDim2(K, own.k), ConcatDim2(V, own.v), mask, seq)
\* The prefix's rows through a cross layer's own projections, once a request.
SmolCrossKv(c, W, cached, n) ==
    LET y == HeadsOf(c.g, c.g.nkv, MulMat(W, Reshape(cached, D2(KVF(c.g), n))))
    IN  IF c.o.backend = "cuda" THEN Cast(y, "f16") ELSE y
SmolCrossLayer(c, w, x, xk, xv, pos, mask, seq) ==
    LET q == HeadsOf(c.g, c.g.nq, MulMat(w.Wq, RmsNormW(x, w.Wln_in, "1e-5")))
    IN  AttnMlp(c, w, x, Rope(SmolRope(c.g), q, pos), xk, xv, mask, seq)

---------------------------------------------------------------------------
(* The fused layers: K/V through one pair of F16 buffers per layer, the    *)
(* prefix in its first rows, a step's own in the rows after them.          *)

SmolFusedIn(w, gamma, x) == IF Has(w.q_o.w) THEN FusedRmsQ8(x, gamma, "1e-5") ELSE FusedRms(x, gamma, "bf16", "1e-5")
SmolLin(W, q, x, res, ty) ==
    IF Has(q.w) THEN Qlinear(q, x, Null, res, ty, "none", Null) ELSE FusedLinear(W, x, Null, res, ty, "none")
FusedAttnMlp(c, w, x, q16, K, V, mask, seq) ==
    LET fa  == Retype(SmolFlashRows(c.g, q16, K, V, mask), "bf16")
        h1  == SmolLin(w.Wo, w.q_o, Reshape(fa, D2(QF(c.g), seq)), x, "f32")
        gu  == SmolLin(w.Wgu, w.q_gu, SmolFusedIn(w, w.Wln_post, h1), Null, "bf16")
        mid == FusedSwiglu(RowPart(gu, 2, 0), RowPart(gu, 2, 1), IF Has(w.q_o.w) THEN "i8" ELSE "bf16")
    IN  SmolLin(w.Wdown, w.q_down, mid, h1, "f32")
FusedLayerKv(c, w, x, pos, mask, seq, row0, kv) ==
    LET g   == c.g
        qkv == SmolLin(w.Wqkv, w.q_qkv, SmolFusedIn(w, w.Wln_in, x), Null, "f32")
        r   == FusedRopeKv(qkv, pos, kv.k, kv.v, g.nq, g.nkv, g.hd, row0, SmolRope(g))
        rows(buf, v) == Window(buf, D3(g.hd, g.nkv, row0 + seq), "rows", row0 + seq <= buf.ne[3] /\ kv.pre = row0, v)
    IN  [y  |-> FusedAttnMlp(c, w, x, r.q, rows(kv.k, SlotRead(kv, kv.kval, r.k.val)),
                             rows(kv.v, SlotRead(kv, kv.vval, r.v.val)), mask, seq),
         kv |-> [kv EXCEPT !.pre = seq, !.kval = r.k.val, !.vval = r.v.val]]
FusedCrossKv(c, W, buf, val, n) ==
    LET x == Cast(Window(buf, D2(KVF(c.g), n), "rows", n <= buf.ne[3], val), "f32")
    IN  HeadsOf(c.g, c.g.nkv, Cast(MulMat(W, x), "f16"))
FusedLayerCross(c, w, x, xk, xv, pos, mask, seq) ==
    LET q == SmolLin(w.Wq, w.q_q, SmolFusedIn(w, w.Wln_in, x), Null, "f32")
    IN  FusedAttnMlp(c, w, x, Retype(Rope(SmolRope(c.g), HeadsOf(c.g, c.g.nq, q), pos), "f16"), xk, xv, mask, seq)

---------------------------------------------------------------------------
(* The vision tower and its connector. *)

SmolSiglip(o, e, w, x, seq) ==
    LET n1 == LayerNorm(x, w.ln1w, w.ln1b, e.eps)
        lin(W, b) == Linear(o, W, b, n1)
        heads(p) == ToHeads(p, e.head_dim, e.heads, seq, 1)
        Q   == heads(lin(w.Wq, w.bq))
        K   == heads(lin(w.Wk, w.bk))
        v   == lin(w.Wv, w.bv)
        att == IF o.flash THEN Reshape(FlashAttnExt(Q, FaKv(o, K), FaKv(o, heads(v)), Null, e.head_dim), D2(e.hidden, seq))
               ELSE Attention(Q, K, ToHeadsV(v, e.head_dim, e.heads, seq, 1), Null, e.head_dim, e.hidden, seq, 1)
        h1  == Add(x, Linear(o, w.Wo, w.bo, att))
    IN  Add(h1, FfnGelu(o, w.Wfc1, w.bfc1, w.Wfc2, w.bfc2, LayerNorm(h1, w.ln2w, w.ln2b, e.eps)))
SmolTower(c, nv) ==
    LET g    == c.g
        o    == SmolO(c)
        grid == g.image \div g.patch
        np   == grid * grid
        side == grid \div g.scale
        e0   == [EncCfg(g.vit, g.vit_heads, g.vit_inter, "vit_ln_eps", FALSE) EXCEPT !.fused_ops = o.fused]
        e    == IF SmolVitFused(c) THEN [e0 EXCEPT !.fused = TRUE, !.flash = TRUE, !.act = "bf16", !.int8 = SmolQ8(c, "vit")] ELSE e0
        px   == TowerPart(Input("t_px", "f32", D4(g.image, g.image, 3, 1)))
        emb  == SigLipEmbedConv("vit", g.vit, px, g.patch, grid)
        w    == EncWeights(o, e, "vit")
        h    == IF e.fused THEN AsType(EncBuild(o, e, "vit", AsType(Views(emb, nv), "bf16"), np, nv), "f32")
                ELSE IF o.fused /\ ~o.flash THEN EncBuild(o, e, "vit", emb, np, 1)
                ELSE SmolSiglip(o, e, w, emb, np)
        x    == LayerNorm(h, F32W("vit", "post_lnw", g.vit), F32W("vit", "post_lnb", g.vit), e.eps)
        swap(t) == Cont(Permute(t, <<0, 2, 1, 3>>))
        c4   == g.vit * g.scale * g.scale
        s1   == swap(Reshape(x, D4(g.vit * g.scale, side, grid, nv)))
        s2   == swap(Reshape(s1, D4(c4, side, side, nv)))
    IN  MulMat(GemmW(o, "mm", "fc", c4, g.hidden), Reshape(s2, D2(c4, g.n_img * nv)))
\* The fused blocks take every view in one pass.
SmolVision(c, r) ==
    LET n   == Len(r.views)
        nv  == IF SmolVitFused(c) THEN n ELSE 1
        px  == Input("t_px", "f32", D4(c.g.image, c.g.image, 3, nv))
        emb == SmolTower(c, nv)
        fill(i) == IF nv = n THEN ByView(px, n, r) ELSE Whole(px, <<"view", r.name, i>>)
        ok(i)   == IF nv = n THEN ViewsOk(r, c.g.image) ELSE ViewOk(r.views[i], c.g.image)
    IN  [i \in 1..(n \div nv) |->
            [Blank EXCEPT !.cache = "vision", !.ins = [t_px |-> px], !.fills = [t_px |-> fill(i)], !.scratch = i = 1,
                          !.parts = [emb |-> emb], !.out = emb, !.read = c.g.n_img * c.g.hidden * nv, !.post = ok(i)]]

---------------------------------------------------------------------------
(* Who sees whom.  The language segment is padded to the tokenizer's       *)
(* length: columns pad are masked, and the state counts on from the words. *)

PadColumns(n_img, words, n_lang) == n_img + words + 1..n_img + n_lang
PrefixSees(n_prefix, pad, i)     == 1..n_prefix \ (pad \cup (IF i < n_prefix THEN {n_prefix} ELSE {}))
SuffixSees(n_prefix, pad, i)     == (1..n_prefix \ pad) \cup {n_prefix + s : s \in 1..i}
PrefixPlace(n_prefix, state_pos, i) == IF i = n_prefix THEN state_pos ELSE i - 1
SmolFills(c, r, n_img, n_lang) ==
    LET n_prefix == n_img + n_lang + 1
        pad   == PadColumns(n_img, Len(r.lang), n_lang)
        state == n_img + Len(r.lang)
        \* the first row and the last, and the keys none sees, stand for the rows
        rows(Sees(_, _, _), n) == <<Sees(n_prefix, pad, 1), Sees(n_prefix, pad, n)>>
    IN  [img_emb |-> VisionOf(r), lang_emb |-> <<"tokens", r.lang, n_lang>>, state |-> <<SmolStats(c.g), StateOf(r)>>, x0 |-> NoiseOf(r),
         mask_prefill |-> <<"sees", rows(PrefixSees, n_prefix)>>,
         pos_prefill |-> <<"places", {<<i, PrefixPlace(n_prefix, state, i)>> : i \in {n_prefix - 1, n_prefix}}>>,
         mask_full |-> <<"sees", rows(SuffixSees, c.g.chunk)>>, mask_pfx_only |-> <<"masked", pad>>,
         pos_full |-> <<"iota from", state + 1, c.g.chunk>>, pos_rebased |-> Iota(c.g.chunk)]

SmolInputs(c, n_img, n_lang) ==
    LET g == c.g
        n == n_img + n_lang + 1
    IN  [img_emb |-> In2("img_emb", g.hidden, n_img), lang_emb |-> In2("lang_emb", g.hidden, n_lang),
         state |-> In1("state", g.max_state), x0 |-> In2("x0", g.action, g.chunk), mask_prefill |-> In2("mask_prefill", n, n),
         pos_prefill |-> Ids("pos_prefill", n), mask_full |-> In2("mask_full", n + g.chunk, g.chunk),
         mask_pfx_only |-> In2("mask_pfx_only", n, g.chunk), pos_full |-> Ids("pos_full", g.chunk),
         pos_rebased |-> Ids("pos_rebased", g.chunk)]

---------------------------------------------------------------------------
(* The graph: the prefix once, then a denoising step. *)

SmolF32(o, n, K, N, x) == Linear(o, Weight(<<"smol", n>>, "f32", D2(K, N)), F32W("smol", n \o ".b", N), x)
SmolPrefix(c, ins) ==
    LET g == c.g
        st == Reshape(SmolF32(c.o, "state", g.max_state, g.hidden, ins.state), D2(g.hidden, 1))
    IN  Concat(Concat(Scale(ins.img_emb, "sqrt hidden"), Scale(ins.lang_emb, "sqrt hidden"), 1), st, 1)
SmolSuffix(c, x0) ==
    LET g   == c.g
        E   == g.expert_h
        act == Concat(SmolF32(c.o, "ain", g.action, E, x0), Weight(<<"const", "time">>, "f32", D2(E, g.chunk)), 0)
    IN  SmolF32(c.o, "at2", E, E, Silu(SmolF32(c.o, "at1", 2 * E, E, act)))
SmolVelocity(c, x0, h) ==
    Add(x0, Scale(SmolF32(c.o, "aout", c.g.expert_h, c.g.action, RmsNormW(h, F32W("aex", "norm", c.g.expert_h), "1e-5")), "dt"))

\* The VLM's layer: its rows, and the K/V the expert reads by name.
SmolPrefill(c, ins, fused, n_prefix) ==
    LET g    == c.g
        x    == Named(SmolPrefix(c, ins), <<"prefix">>)
        w    == SmolWeights(c, "vlm")
        mask == Cast(ins.mask_prefill, "f16")
        buf(v) == T("f16", D3(g.hd, g.nkv, n_prefix + g.chunk), <<v>>)
        f    == FusedLayerKv(c, w, x, ins.pos_prefill, mask, n_prefix, 0, KvSlot(buf("kbuf"), buf("vbuf")))
        p    == SmolVlmLayer(c, w, x, ins.pos_prefill, mask, n_prefix)
        row(t, v) == Need(<<f.y>>, TRUE, [t EXCEPT !.val = v])
    IN  IF fused THEN [y |-> f.y, k |-> row(buf("k"), f.kv.kval), v |-> row(buf("v"), f.kv.vval),
                       kv |-> [f.kv EXCEPT !.kval = <<"K">>, !.vval = <<"V">>]]
        ELSE [y |-> p.y, k |-> p.k, v |-> p.v, kv |-> Null]
\* A self and a cross layer over the K/V, given as rows or as a slot.
SmolExpert(c, ins, K, V, kv, n_prefix) ==
    LET g     == c.g
        n     == g.chunk
        fused == kv # Null
        ws    == SmolWeights(c, "self")
        wx    == SmolWeights(c, "cross")
        m16   == Cast(ins.mask_full, "f16")
        x16   == Cast(ins.mask_pfx_only, "f16")
        h     == SmolSuffix(c, ins.x0)
        hs    == Named(h, <<"h">>)
        xk    == IF fused THEN FusedCrossKv(c, wx.Wk, kv.k, kv.kval, n_prefix) ELSE SmolCrossKv(c, wx.Wk, K, n_prefix)
        xv    == IF fused THEN FusedCrossKv(c, wx.Wv, kv.v, kv.vval, n_prefix) ELSE SmolCrossKv(c, wx.Wv, V, n_prefix)
        self  == IF fused THEN FusedLayerKv(c, ws, hs, ins.pos_full, m16, n, n_prefix, kv).y
                 ELSE SmolSelfLayer(c, ws, hs, K, V, ins.pos_full, m16, n)
        cross == IF fused THEN FusedLayerCross(c, wx, hs, xk, xv, ins.pos_rebased, x16, n)
                 ELSE SmolCrossLayer(c, wx, hs, xk, xv, ins.pos_rebased, x16, n)
        layer(i) == IF ExpertSelfAttn(g, i) THEN self ELSE cross
    IN  [suffix |-> h, layer0 |-> layer(0), layer1 |-> layer(1), out |-> SmolVelocity(c, ins.x0, hs)]

\* The language segment is always n_lang wide, so the graph depends on the views alone.
SmolMain(c, r) ==
    LET g     == c.g
        n_img == g.n_img * NViews(r)
        n     == n_img + g.n_lang + 1
        ins   == SmolInputs(c, n_img, g.n_lang)
        p     == SmolPrefill(c, ins, SmolLmFused(c), n)
        e     == SmolExpert(c, ins, Named(p.k, <<"K">>), Named(p.v, <<"V">>), p.kv, n)
    IN  [Blank EXCEPT
            !.cache = "main", !.key = <<NViews(r)>>, !.ins = ins, !.fetch = g.gguf, !.fills = Filled(ins, SmolFills(c, r, n_img, g.n_lang)),
            !.parts = [prefix |-> SmolPrefix(c, ins), lm |-> p.y, K |-> p.k, V |-> p.v] @@ e, !.out = e.out, !.read = g.action * g.chunk]

\* Timed in phases: unpadded, every tensor with memory of its own; the
\* prefix's K/V are computed, copied into leaves, and the steps read those.
PrefillInputs == {"img_emb", "lang_emb", "state", "mask_prefill", "pos_prefill"}
SmolPhases(c, r) ==
    LET g      == c.g
        n_img  == g.n_img * NViews(r)
        n_lang == Len(r.lang)
        n      == n_img + n_lang + 1
        all    == SmolInputs(c, n_img, n_lang)
        what   == SmolFills(c, r, n_img, n_lang)
        leaf(name) == Input(name, "f32", D3(g.hd, g.nkv, n))
        pre    == [i \in PrefillInputs |-> all[i]]
        own    == [i \in DOMAIN all \ PrefillInputs |-> all[i]]
        leaves == [k_leaf |-> leaf("k_leaf"), v_leaf |-> leaf("v_leaf")]
        p      == SmolPrefill(c, all, FALSE, n)
        e      == SmolExpert(c, all, Named(leaves.k_leaf, <<"K">>), Named(leaves.v_leaf, <<"V">>), Null, n)
        sends  == UNION {{<<"steps", i, w[1], w[2], w[3]>> : w \in Whole(own[i], what[i])} : i \in DOMAIN own}
        ks     == KVF(g) * n
        copies == {<<"steps", "k_leaf", 0, ks, <<"K", r.name>>>>, <<"steps", "v_leaf", 0, ks, <<"V", r.name>>>>}
        rest   == Filled(own, [i \in DOMAIN own |-> what[i]])
                  @@ [k_leaf |-> {<<0, ks, <<"K", r.name>>>>}, v_leaf |-> {<<0, ks, <<"V", r.name>>>>}]
        steps  == [Blank EXCEPT
                      !.cache = "steps", !.key = <<"steps", n_img, n_lang>>, !.ins = own @@ leaves, !.fills = rest, !.kept = DOMAIN rest,
                      !.given = UNION {{<<i, w>> : w \in rest[i]} : i \in DOMAIN rest},
                      !.parts = e, !.out = e.out, !.read = g.action * g.chunk]
        prefill == [Blank EXCEPT
                      !.cache = "prefill", !.scratch = TRUE, !.ins = pre, !.fetch = g.gguf, !.kept = PrefillInputs,
                      !.fills = Filled(pre, [i \in PrefillInputs |-> what[i]]), !.sends = sends, !.copies = copies,
                      !.parts = [prefix |-> SmolPrefix(c, all), lm |-> p.y, K |-> p.k, V |-> p.v], !.out = p.k, !.read = ks]
    IN  <<[steps EXCEPT !.scratch = TRUE, !.setup = TRUE], prefill, steps>>

SmolAsks(g, r) == Len(r.lang) \in 1..g.n_lang /\ InVocab(r) /\ NViews(r) >= 1
SmolSteps(c, r) ==
    IF ~SmolAsks(c.g, r) THEN <<Refusal>>
    ELSE (IF r.pre > 0 THEN <<>> ELSE SmolVision(c, r))
         \o (IF r.phase THEN SmolPhases(c, r) ELSE <<[SmolMain(c, r) EXCEPT !.setup = TRUE, !.fetch = FALSE], SmolMain(c, r)>>)
=============================================================================
