--------------------------------- MODULE Dit ---------------------------------
(***************************************************************************)
(* The diffusion transformer of the GR00T models and VLA-JEPA              *)
(* (src/src/modules/dit_head.cpp) and the action expert around it          *)
(* (action_expert.cpp).  `c` holds the dimensions; c.fused_ops asks for    *)
(* the CUDA nodes, c.fused for the SYCL blocks.                            *)
(***************************************************************************)
EXTENDS Vision, FoldQuant

DitCfg(hidden, heads, hd) ==
    [hidden |-> hidden, heads |-> heads, hd |-> hd, eps |-> "ln_eps", out_eps |-> "norm_out_eps",
     fused_ops |-> FALSE, fused |-> FALSE]

NoFq == [wbits |-> 0]
IsFq(q) == q.wbits # 0
\* A projection of a file: its site where the file is quantised and the
\* backend runs sites, else a float weight, read back from the codes if need be.
FqProj(o, q, W, b, gamma) ==
    LET s == IF IsFq(q) /\ ~FqMode(o).dequant THEN FqSite(W, b, gamma, q) ELSE NoSite
    IN  [s |-> s, W |-> IF IsSite(s) THEN Null ELSE IF IsFq(q) THEN FqDequant(W, q) ELSE W, b |-> b]

\* kind: "sep" a weight per projection; "kv" q, and k|v as one; "qkv" all as one.
\* src: the width of the rows K and V are read from.
DitWeights(o, c, p, kind, q, src) ==
    LET H == c.hidden
        w(n, K, N) == GemmW(o, p, n, K, N)
        b(n, N)    == F32W(p, n, N)
        wide(n)    == IF n = "attn_q" THEN H ELSE src
        names(ns)  == [i \in DOMAIN ns |-> w(ns[i], wide(ns[i]), H)]
        biases(ns) == [i \in DOMAIN ns |-> b(ns[i], H)]
        none == [s |-> NoSite, W |-> Null, b |-> Null]
        site(ns, vt) ==
            LET pr == IF Len(ns) = 1 THEN FqProj(o, q, w(ns[1], wide(ns[1]), H), b(ns[1], H), Null)
                      ELSE FqProj(o, q, Fuse(names(ns)), Fuse(biases(ns)), Null)
            IN  [pr EXCEPT !.s = FqSetHeads(@, c.hd, c.heads, vt)]
        when(k, ns, vt) == IF kind \in k THEN site(ns, vt) ELSE none
    IN  [q   |-> when({"sep", "kv"}, <<"attn_q">>, {}),
         k   |-> when({"sep"}, <<"attn_k">>, {}),
         v   |-> when({"sep"}, <<"attn_v">>, {0}),
         kv  |-> when({"kv"}, <<"attn_k", "attn_v">>, {1}),
         qkv |-> when({"qkv"}, <<"attn_q", "attn_k", "attn_v">>, {2}),
         o   |-> FqProj(o, q, w("attn_o", H, H), b("attn_o", H), Null),
         ff0 |-> FqProj(o, q, w("ff0", H, 4 * H), b("ff0", 4 * H), Null),
         ff2 |-> FqProj(o, q, w("ff2", 4 * H, H), b("ff2", H), Null)]

\* One part of a projection's rows as [hd, heads, n] heads, in place.
PartHeads(c, y, i, n, parts) ==
    Permute(Window(y, D3(c.hd, c.heads, n), "rows", y.ne[1] = parts * c.hidden /\ n <= y.ne[2],
                   IF parts = 1 THEN y.val ELSE VPart(y.val, i + 1)), <<0, 2, 1, 3>>)
Bf16Heads(c, pr, x, i, n, parts) ==
    PartHeads(c, FusedLinear(pr.W, x, pr.b, Null, "bf16", "none"), i, n, parts)

KV(k, v) == [k |-> k, v |-> v]
NoKV     == KV(Null, Null)
\* K and V of src; xq is a blob of src another projection already made.
DitKv(o, c, w, src, xq) ==
    LET n   == src.ne[2]
        s16 == AsType(src, "bf16")
        kvp == IF IsSite(w.kv.s) THEN FqLinear(o, w.kv.s, src, Null, Null) ELSE Linear(o, w.kv.W, w.kv.b, src)
        half(i) == HeadView(kvp, c.hd, c.heads, n, c.hidden, 2, i)
        blob == IF Has(xq) THEN xq ELSE FqAct(w.k.s, src)
        kp  == FqGemm(o, w.k.s, blob, Null, Null)
        vp  == FqGemm(o, w.v.s, blob, Null, Null)
        lin(pr) == Linear(o, pr.W, pr.b, src)
        th(y)   == ToHeads(y, c.hd, c.heads, n, 1)
        thv(y)  == ToHeadsV(y, c.hd, c.heads, n, 1)
    IN  IF c.fused
        THEN IF Has(w.kv.W) THEN KV(Bf16Heads(c, w.kv, s16, 0, n, 2), Bf16Heads(c, w.kv, s16, 1, n, 2))
             ELSE KV(Bf16Heads(c, w.k, s16, 0, n, 1), Bf16Heads(c, w.v, s16, 0, n, 1))
        ELSE IF IsSite(w.kv.s) /\ w.kv.s.heads > 0
        THEN KV(FqHeadView(kvp, w.kv.s, 0, n), FqHeadView(kvp, w.kv.s, 1, n))
        ELSE IF IsSite(w.kv.s) \/ Has(w.kv.W)
        THEN KV(Cont(Permute(half(0), <<0, 2, 1, 3>>)), Cont(Permute(half(1), <<1, 2, 0, 3>>)))
        ELSE IF IsSite(w.k.s)
        THEN KV(IF w.k.s.heads > 0 THEN FqHeadView(kp, w.k.s, 0, n) ELSE th(kp),
                IF w.v.s.heads > 0 THEN FqHeadView(vp, w.v.s, 0, n) ELSE thv(vp))
        ELSE KV(th(lin(w.k)), thv(lin(w.v)))

ModHalf(c, mod, i) == Window(mod, D1(c.hidden), "full", mod.ne[1] = 2 * c.hidden, VPart(mod.val, i + 1))

DitBlockFused(o, c, w, h, mod, enc, pre) ==
    LET n == h.ne[2]
        x == FusedLnorm(h, ModHalf(c, mod, 0), ModHalf(c, mod, 1), "bf16", c.eps)
        self == ~Has(enc) /\ Has(w.qkv.W)
        Q  == IF self THEN Bf16Heads(c, w.qkv, x, 0, n, 3) ELSE Bf16Heads(c, w.q, x, 0, n, 1)
        kv == IF self THEN KV(Bf16Heads(c, w.qkv, x, 1, n, 3), Bf16Heads(c, w.qkv, x, 2, n, 3))
              ELSE IF Has(pre.k) THEN pre ELSE DitKv(o, c, w, IF Has(enc) THEN enc ELSE x, Null)
        fa == Retype(FlashAttnExt(Q, kv.k, kv.v, Null, c.hd), "bf16")
        h1 == FusedLinear(w.o.W, Reshape(fa, D2(c.hidden, n)), w.o.b, h, "f32", "none")
        f  == FusedLinear(w.ff0.W, FusedLnorm(h1, Null, Null, "bf16", c.eps), w.ff0.b, Null, "bf16", "tanh")
    IN  FusedLinear(w.ff2.W, f, w.ff2.b, h1, "f32", "none")

\* Float weights and the CUDA nodes: every norm, bias and GELU in a node.
DitFloatNodes(c, w) == c.fused_ops /\ ~IsSite(w.o.s) /\ ~IsSite(w.ff0.s) /\ ~IsSite(w.qkv.s) /\ ~IsSite(w.q.s)

\* The site whose activation node runs the adaLN itself, when its blob is all
\* that reads the norm.
DitNormSite(w, enc, pre) ==
    IF IsSite(w.qkv.s) /\ ~Has(enc) THEN w.qkv.s
    ELSE IF IsSite(w.q.s) /\ (Has(enc) \/ Has(pre.k) \/ IsSite(w.k.s)) THEN w.q.s ELSE NoSite

DitNorm(c, w, h, sc, sh) ==
    LET W  == IF Has(w.qkv.W) THEN w.qkv.W ELSE w.q.W
        xn == Norm(h, c.eps)
    IN  IF DitFloatNodes(c, w) THEN FusedLn(h, sc, sh, c.eps, TRUE, Bf16OperandRows(W, h.ne[2]))
        ELSE IF c.fused_ops THEN FusedLn(h, sc, sh, c.eps, TRUE, FALSE)
        ELSE Add(Add(xn, Mul(xn, sc)), sh)

\* Q, K and V of a block as attention takes them, V transposed.
DitQkv(o, c, w, h, mod, enc, pre) ==
    LET n  == h.ne[2]
        sc == ModHalf(c, mod, 0)
        sh == ModHalf(c, mod, 1)
        x  == DitNorm(c, w, h, sc, sh)
        fz == DitFloatNodes(c, w)
        ns == DitNormSite(w, enc, pre)
        lnq == IF c.fused_ops /\ IsSite(ns) THEN FqActNorm(o, ns, h, sc, sh, "LnModulate", c.eps) ELSE Null
        triple(q, kv) == [q |-> q, k |-> kv.k, v |-> kv.v]
        nodes(pr, parts, vt) ==
            FusedQkvHeads(MmExact(o, pr.W, x), pr.b, Null, Null, parts, c.hd, c.heads, n, 1, vt, {},
                          [i \in 1..parts |-> i - 1], FALSE)
        part(y, i, t) == FusedPart(y, i, t, c.hd, c.heads, n, 1)
        all == nodes(w.qkv, 3, {2})
        qkv == IF IsSite(w.qkv.s) THEN FqGemm(o, w.qkv.s, IF Has(lnq) THEN lnq ELSE FqAct(w.qkv.s, x), Null, Null)
               ELSE Linear(o, w.qkv.W, w.qkv.b, x)
        hv(i, ax) == Cont(Permute(HeadView(qkv, c.hd, c.heads, n, c.hidden, 3, i), ax))
        fv(i) == FqHeadView(qkv, w.qkv.s, i, n)
        xq == IF Has(lnq) THEN lnq
              ELSE IF IsSite(w.q.s) /\ ~Has(enc) /\ ~Has(pre.k) /\ IsSite(w.k.s) THEN FqAct(w.q.s, x) ELSE Null
        qp == IF IsSite(w.q.s) THEN FqGemm(o, w.q.s, IF Has(xq) THEN xq ELSE FqAct(w.q.s, x), Null, Null)
              ELSE Linear(o, w.q.W, w.q.b, x)
        q  == IF IsSite(w.q.s) /\ w.q.s.heads > 0 THEN FqHeadView(qp, w.q.s, 0, n)
              ELSE ToHeads(qp, c.hd, c.heads, n, 1)
    IN  IF fz /\ ~Has(enc) /\ Has(w.qkv.W) THEN triple(part(all, 0, FALSE), KV(part(all, 1, FALSE), part(all, 2, TRUE)))
        ELSE IF fz /\ Has(pre.k) /\ Has(w.q.W) THEN triple(part(nodes(w.q, 1, {}), 0, FALSE), pre)
        ELSE IF ~Has(enc) /\ (Has(w.qkv.W) \/ IsSite(w.qkv.s))
        THEN IF IsSite(w.qkv.s) /\ w.qkv.s.heads > 0 THEN triple(fv(0), KV(fv(1), fv(2)))
             ELSE triple(hv(0, <<0, 2, 1, 3>>), KV(hv(1, <<0, 2, 1, 3>>), hv(2, <<1, 2, 0, 3>>)))
        ELSE triple(q, IF Has(pre.k) THEN pre
                       ELSE DitKv(o, c, w, IF Has(enc) THEN enc ELSE x, IF Has(enc) THEN Null ELSE xq))

DitBlock(o, c, w, h, mod, enc, pre) ==
    LET n  == h.ne[2]
        a  == DitQkv(o, c, w, h, mod, enc, pre)
        exact == /\ c.fused_ops /\ o.attn_exact
                 /\ \A t \in {a.q, a.k, a.v} : t.ty = "f32" /\ Contig(t)
                 /\ a.k.ne[2] <= 1024 /\ a.v.ne[1] = a.k.ne[2] /\ a.v.ne[2] = a.k.ne[1]
        bf(W) == Bf16OperandRows(W, n)
        fa(b) == FusedAttnExact(a.q, a.k, a.v, c.hd, b, 1, Null)
        \* float nodes
        att == IF exact THEN fa(bf(w.o.W)) ELSE AttentionRows(a.q, a.k, a.v, c.hd, c.hidden, n, 1, bf(w.o.W), Null)
        g1  == FusedBiasRes(MmExact(o, w.o.W, att), w.o.b, h)
        g3  == FusedLn(g1, Null, Null, c.eps, FALSE, bf(w.ff0.W))
        gg  == FusedBiasGelu(MmExact(o, w.ff0.W, g3), w.ff0.b, bf(w.ff2.W))
        \* the rest
        at2 == IF exact THEN fa(FALSE) ELSE Attention(a.q, a.k, a.v, Null, c.hd, c.hidden, n, 1)
        h1  == IF IsSite(w.o.s) THEN FqLinear(o, w.o.s, at2, h, Null) ELSE Add(h, Linear(o, w.o.W, w.o.b, at2))
        n3  == IF c.fused_ops THEN FusedLn(h1, Null, Null, c.eps, FALSE, FALSE) ELSE Norm(h1, c.eps)
        xf  == IF c.fused_ops THEN FqActNorm(o, w.ff0.s, h1, Null, Null, "LnPlain", c.eps) ELSE Null
        f0  == FqGemm(o, w.ff0.s, IF Has(xf) THEN xf ELSE FqAct(w.ff0.s, n3), Null, Null)
        dq  == IF c.fused_ops THEN FqActGlu(o, w.ff2.s, f0, Null, "Gelu") ELSE Null
    IN  IF c.fused THEN DitBlockFused(o, c, w, h, mod, enc, pre)
        ELSE IF DitFloatNodes(c, w) THEN FusedBiasRes(MmExact(o, w.ff2.W, gg), w.ff2.b, g1)
        ELSE IF IsSite(w.ff0.s)
        THEN IF Has(dq) THEN FqGemm(o, w.ff2.s, dq, h1, Null) ELSE FqLinear(o, w.ff2.s, Gelu(f0), h1, Null)
        ELSE Add(h1, FfnGelu(o, w.ff0.W, w.ff0.b, w.ff2.W, w.ff2.b, n3))

DitProjOut(o, c, p, out, h, mod) ==
    LET sh == ModHalf(c, mod, 0)
        sc == ModHalf(c, mod, 1)
        W  == GemmW(o, p, "proj_out2", c.hidden, out)
        b  == F32W(p, "b_proj_out2", out)
        hn == Norm(h, c.out_eps)
    IN  IF c.fused THEN FusedLinear(W, FusedLnorm(h, sc, sh, "bf16", c.out_eps), b, Null, "f32", "none")
        ELSE Linear(o, W, b, Add(Add(hn, Mul(hn, sc)), sh))

\* dit_enable_fused.
DitFusedOn(o, weight_ty, fq) ==
    o.backend = "sycl" /\ weight_ty = "bf16" /\ o.fa_views /\ ~fq /\ o.default_fa /\ ~o.gr00t_no_fuse

---------------------------------------------------------------------------
(* FlowTimes: the conditioning of every (step, layer), computed at load.   *)

TimeEmb(o, c, p) ==
    LET lin(n, K, x) == Linear(o, GemmW(o, p, n, K, c.hidden), F32W(p, "b_" \o n, c.hidden), x)
    IN  lin("l2", c.hidden, Silu(lin("l1", TimestepsProjLen, Input("tproj", "f32", D1(TimestepsProjLen)))))
\* Row (s, i): scale|shift of a block, shift|scale before proj_out; the fused
\* blocks read 1 + scale.
FlowMod(o, c, p, proj) ==
    LET y == Linear(o, GemmW(o, p, "adaln", c.hidden, 2 * c.hidden), F32W(p, "b_adaln", 2 * c.hidden),
                    Silu(TimeEmb(o, c, p)))
        plus(v, on) == IF on THEN VAdd(v, One) ELSE v
    IN  [y EXCEPT !.val = VCat(<<plus(VPart(y.val, 1), c.fused /\ ~proj), plus(VPart(y.val, 2), c.fused /\ proj)>>)]
\* The time a step is conditioned on.
FlowBucket(s, steps, buckets) == (s * buckets) \div steps

---------------------------------------------------------------------------
(* The action expert: the embodiment's slice of stacked projections.       *)

AexLinear(o, p, n, K, N, x) == Linear(o, Weight(<<p, n>>, "f32", D2(K, N)), Weight(<<p, "b_" \o n>>, "f32", D1(N)), x)
EncodeState(o, a, x) == AexLinear(o, "aex", "se_l2", a.hid, a.embed, Relu(AexLinear(o, "aex", "se_l1", x.ne[1], a.hid, x)))
EncodeAction(o, a, x, tau) ==
    LET emb == AexLinear(o, "aex", "ae_W1", x.ne[1], a.embed, x)
        w2  == Silu(AexLinear(o, "aex", "ae_W2", 2 * a.embed, a.embed, Concat(emb, tau, 0)))
        pos == Slice(Weight(<<"aex", "pos_embd">>, "f32", D2(a.embed, a.pos)), 1, 0, a.horizon)
    IN  Add(AexLinear(o, "aex", "ae_W3", a.embed, a.embed, w2), pos)
DecodeAction(o, a, y) ==
    AexLinear(o, "aex", "ad_l2", a.hid, a.action, Relu(AexLinear(o, "aex", "ad_l1", a.out, a.hid, y)))

\* What layer i attends to.
EncOf(i, interleave, every2) ==
    IF interleave /\ i % 2 = 1 THEN "self" ELSE IF i % every2 = 0 THEN "txt" ELSE "img"
Named(t, name) == IF IsBad(t) THEN Bad ELSE [t EXCEPT !.val = name]

\* One step of denoise over one block of each sort.  A block's output enters
\* the next as a term of its own: the blocks are compared one by one.
DenoiseStep(o, c, a, kinds, q, state, future, txt, img, x) ==
    LET tau == Input("tau", "f32", D2(a.embed, a.horizon))
        sf  == EncodeState(o, a, state)
        sa  == IF Has(future) THEN Concat(sf, future, 1) ELSE sf
        h0  == Concat(sa, EncodeAction(o, a, x, tau), 1)
        blk(i) ==
            LET e == EncOf(i, a.interleave, a.every2)
                enc == CASE e = "self" -> Null [] e = "txt" -> txt [] e = "img" -> img
                w == DitWeights(o, c, "dit", IF e = "self" THEN kinds.self ELSE kinds.cross, q,
                               IF e = "self" THEN c.hidden ELSE enc.ne[1])
            IN  DitBlock(o, c, w, Named(h0, <<"h", "i">>), FlowMod(o, c, "dit", FALSE), enc,
                         IF e = "self" THEN NoKV ELSE DitKv(o, c, w, enc, Null))
        hs   == [i \in 0..a.layers - 1 |-> blk(i)]
        pred == DecodeAction(o, a, DitProjOut(o, c, "dit", a.out, Named(h0, <<"h", "n">>), FlowMod(o, c, "dit", TRUE)))
        vel  == Cont(Slice(pred, 1, pred.ne[2] - a.horizon, a.horizon))
    IN  [h0 |-> h0, blocks |-> hs,
         x  |-> Need([i \in 1..a.layers |-> hs[i - 1]], \A i \in DOMAIN hs : hs[i].ne = h0.ne,
                     Add(x, Scale(vel, "1/steps")))]

=============================================================================
