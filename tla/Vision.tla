------------------------------- MODULE Vision -------------------------------
(***************************************************************************)
(* The pre-LN encoder (src/src/modules/encoder.cpp), the SigLIP tower      *)
(* (siglip_vit.cpp) and the dual DINOv2 + SigLIP tower (dual_tower.h).     *)
(* A stack is modelled by one of its blocks: every block is the same       *)
(* function of its own weights.  `o` holds the options, `c` the            *)
(* configuration of a stack, `p` names where its weights come from.        *)
(***************************************************************************)
EXTENDS FusedEw, SequencesExt

GemmW(o, p, n, K, N) == Weight(<<p, n>>, o.gemm, D2(K, N))
F32W(p, n, N)        == Weight(<<p, n>>, "f32", D1(N))
\* Several weights [K, N_i] as one [K, sum of N_i] (WeightLoader::fuse).
Fuse(ws) ==
    LET rows == IF ws[1].ne[2] = 1 THEN 1 ELSE 2
        N    == FoldSeq(LAMBDA w, n : n + w.ne[rows], 0, ws)
    IN  Need(ws, \A i \in DOMAIN ws : ws[i].ty = ws[1].ty /\ (rows = 2 => ws[i].ne[1] = ws[1].ne[1]),
             T(ws[1].ty, [ws[1].ne EXCEPT ![rows] = N], VCat([i \in DOMAIN ws |-> ws[i].val])))
NoQ == [w |-> Null, bits |-> 8, group |-> 0]
QuantI8(ws) == QWeight(IF Len(ws) = 1 THEN ws[1] ELSE Fuse(ws), 8, 0)
QuantI4(ws, group) ==
    LET w == IF Len(ws) = 1 THEN ws[1] ELSE Fuse(ws)
        g == IF group > 0 THEN group ELSE w.ne[1]
    IN  QWeight(Need(<<w>>, w.ne[1] % 2 = 0 /\ w.ne[1] % g = 0, w), 4, g)

EncWeights(o, c, p) ==
    LET h == c.hidden
        qkv(f(_)) == <<f("q"), f("k"), f("v")>>
        w(n) == GemmW(o, p, n, h, h)
        b(n) == F32W(p, n, h)
        fc1 == GemmW(o, p, "fc1", h, c.ff)
        fc2 == GemmW(o, p, "fc2", c.ff, h)
        common == [ln1w |-> F32W(p, "ln1w", h), ln1b |-> F32W(p, "ln1b", h),
                   ln2w |-> F32W(p, "ln2w", h), ln2b |-> F32W(p, "ln2b", h),
                   bo |-> b("bo"), bfc1 |-> F32W(p, "bfc1", c.ff), bfc2 |-> b("bfc2"),
                   bqkv |-> Fuse(<<b("bq"), b("bk"), b("bv")>>), bq |-> b("bq"), bk |-> b("bk"), bv |-> b("bv")]
        whole == [Wq |-> w("q"), Wk |-> w("k"), Wv |-> w("v"), Wqkv |-> Fuse(qkv(w)),
                  Wo |-> w("o"), Wfc1 |-> fc1, Wfc2 |-> fc2]
        quant == [q_qkv |-> QuantI8(qkv(w)), q_o |-> QuantI8(<<w("o")>>),
                  q_fc1 |-> QuantI8(<<fc1>>), q_fc2 |-> QuantI8(<<fc2>>)]
    IN  common @@ whole @@ quant

HeadsView(p, hd, heads, seq, nv) == Permute(Reshape(p, D4(hd, heads, seq, nv)), <<0, 2, 1, 3>>)

\* One node per step: q|k|v is one product, attention reads it in place.
EncBlockFused(c, w, x, seq, nv) ==
    LET at == c.act
        mode(gelu) == IF ~gelu THEN "none" ELSE IF c.gelu_erf THEN "erf" ELSE "tanh"
        lin(W, q, in, b, res, gelu) ==
            IF c.int8 THEN Qlinear(q, in, b, res, at, mode(gelu), Null)
                      ELSE FusedLinear(W, in, b, res, at, mode(gelu))
        qkv == lin(w.Wqkv, w.q_qkv, FusedLnorm(x, w.ln1w, w.ln1b, at, c.eps), w.bqkv, Null, FALSE)
        view(i) == Window(qkv, D4(c.head_dim, seq, c.heads, nv), "rows",
                          qkv.ne[1] = 3 * c.hidden /\ Rows(qkv) = seq * nv, VPart(qkv.val, i + 1))
        fa  == Retype(FlashAttnExt(view(0), view(1), view(2), Null, c.head_dim), at)
        h1  == lin(w.Wo, w.q_o, Reshape(fa, D2(c.hidden, seq * nv)), w.bo, x, FALSE)
        f1  == lin(w.Wfc1, w.q_fc1, FusedLnorm(h1, w.ln2w, w.ln2b, at, c.eps), w.bfc1, Null, TRUE)
    IN  lin(w.Wfc2, w.q_fc2, f1, w.bfc2, h1, FALSE)

\* Products in the reduced type, scores and softmax in F32; one view.
EncBlockReduced(o, c, w, x, seq) ==
    LET at == c.act
        mm(W, in, b) == Add(MmAct(o, W, in, at), b)
        n1 == LayerNorm(x, w.ln1w, w.ln1b, c.eps)
        q  == mm(w.Wq, n1, w.bq)
        k  == mm(w.Wk, n1, w.bk)
        v  == mm(w.Wv, n1, w.bv)
        view(p) == Permute(Reshape(p, D3(c.head_dim, c.heads, seq)), <<0, 2, 1, 3>>)
        heads(p) == ToHeads(AsType(p, "f32"), c.head_dim, c.heads, seq, 1)
        att == IF c.flash /\ o.fa_views
               THEN Reshape(FlashAttnExt(view(q), view(k), view(v), Null, c.head_dim), D2(c.hidden, seq))
               ELSE Attention(heads(q), heads(k), ToHeadsV(AsType(v, "f32"), c.head_dim, c.heads, seq, 1),
                              Null, c.head_dim, c.hidden, seq, 1)
        h1 == Add(x, mm(w.Wo, AsType(att, at), w.bo))
        n2 == LayerNorm(h1, w.ln2w, w.ln2b, c.eps)
    IN  Add(h1, mm(w.Wfc2, Gelu(mm(w.Wfc1, n2, w.bfc1)), w.bfc2))

\* CUDA nodes, one view.
EncBlockOps(o, c, w, x, seq) ==
    LET hd == c.head_dim
        bf(W) == Bf16OperandRows(W, seq)
        n1 == FusedLn(x, w.ln1w, w.ln1b, c.eps, FALSE, bf(w.Wq) /\ bf(w.Wk) /\ bf(w.Wv))
        heads(W, b, vt, f16) ==
            FusedPart(FusedQkvHeads(MmExact(o, W, n1), b, Null, Null, 1, hd, c.heads, seq, 1,
                                    IF vt THEN {0} ELSE {}, {}, <<0>>, f16), 0, vt, hd, c.heads, seq, 1)
        Q == heads(w.Wq, w.bq, FALSE, FALSE)
        K == heads(w.Wk, w.bk, FALSE, c.flash)
        att == IF c.flash
               THEN Reshape(FlashAttention(Q, K, heads(w.Wv, w.bv, FALSE, TRUE), Null, hd), D2(c.hidden, seq))
               ELSE AttentionRowsExact(o, Q, K, heads(w.Wv, w.bv, TRUE, FALSE), hd, c.hidden, seq, 1, bf(w.Wo))
        h1 == FusedBiasRes(MmExact(o, w.Wo, att), w.bo, x)
        n2 == FusedLn(h1, w.ln2w, w.ln2b, c.eps, FALSE, bf(w.Wfc1))
        g  == FusedBiasGelu(MmExact(o, w.Wfc1, n2), w.bfc1, bf(w.Wfc2))
    IN  FusedBiasRes(MmExact(o, w.Wfc2, g), w.bfc2, h1)

EncBlockPlain(o, c, w, x, seq, nv) ==
    LET hd == c.head_dim
        n1 == LayerNorm(x, w.ln1w, w.ln1b, c.eps)
        q  == Linear(o, w.Wq, w.bq, n1)
        k  == Linear(o, w.Wk, w.bk, n1)
        v  == Linear(o, w.Wv, w.bv, n1)
        view(p)  == HeadsView(p, hd, c.heads, seq, nv)
        heads(p) == ToHeads(p, hd, c.heads, seq, nv)
        att == IF c.flash /\ o.fa_views
               THEN Reshape(FlashAttnExt(view(q), view(k), view(v), Null, hd), D3(c.hidden, seq, nv))
               ELSE IF c.flash THEN FlashAttention(heads(q), heads(k), heads(v), Null, hd)
               ELSE Attention(heads(q), heads(k), ToHeadsV(v, hd, c.heads, seq, nv), Null, hd, c.hidden, seq, nv)
        h1 == Add(x, Linear(o, w.Wo, w.bo, att))
    IN  Add(h1, FfnGelu(o, w.Wfc1, w.bfc1, w.Wfc2, w.bfc2, LayerNorm(h1, w.ln2w, w.ln2b, c.eps)))

EncBlock(o, c, w, x, seq, nv) ==
    IF c.fused THEN EncBlockFused(c, w, x, seq, nv)
    ELSE IF c.act # "f32" THEN EncBlockReduced(o, c, w, x, seq)
    ELSE IF c.fused_ops /\ nv = 1 THEN EncBlockOps(o, c, w, x, seq)
    ELSE EncBlockPlain(o, c, w, x, seq, nv)
EncBuild(o, c, p, x, seq, nv) == EncBlock(o, c, EncWeights(o, c, p), x, seq, nv)

EncCfg(hidden, heads, ff, eps, flash) ==
    [hidden |-> hidden, heads |-> heads, head_dim |-> hidden \div heads, ff |-> ff, eps |-> eps, flash |-> flash,
     act |-> "f32", fused |-> FALSE, int8 |-> FALSE, fused_ops |-> FALSE, gelu_erf |-> FALSE]

---------------------------------------------------------------------------
(* SigLIP: patch embedding, blocks, post-norm. *)

TowerPatch(p, hidden, patch) == Weight(<<p, "patch_w">>, "f32", D4(patch, patch, 3, hidden))
SigLipPlace(p, hidden, np, x) == Add(Add(x, F32W(p, "patch_b", hidden)), Weight(<<p, "pos">>, "f32", D2(hidden, np)))
SigLipEmbedConv(p, hidden, pixels, patch, grid) ==
    LET conv == Conv2dF32(TowerPatch(p, hidden, patch), pixels, patch, 0)
        nv   == pixels.ne[4]
    IN  SigLipPlace(p, hidden, grid * grid,
                    IF nv = 1 THEN Cont(Transpose(Reshape(conv, D2(grid * grid, hidden))))
                    ELSE Cont(Permute(Reshape(conv, D3(grid * grid, hidden, nv)), <<1, 0, 2, 3>>)))
SigLipEmbedPatches(o, p, hidden, patches, patch, grid) ==
    SigLipPlace(p, hidden, grid * grid, MulMat(GemmW(o, p, "patch_w", 3 * patch * patch, hidden), patches))
SigLipBuild(o, c, p, x, seq, nv) ==
    LayerNorm(EncBuild(o, c, p, x, seq, nv), F32W(p, "post_lnw", c.hidden), F32W(p, "post_lnb", c.hidden), c.eps)

\* What preprocess.h asks of a view, and what it writes.
ViewOk(view, side) == view.data /\ view.w = side /\ view.h = side
ChwLen(w, h)       == 3 * w * h

---------------------------------------------------------------------------
(* DINOv2 + SigLIP. *)

DualDims == [d |-> EncCfg(1024, 16, 4096, "1e-6", FALSE), s |-> EncCfg(1152, 16, 4304, "1e-6", FALSE),
             side |-> 224, patch |-> 14, n_patches |-> 256]

VitWeights(o, c, p, ls) ==
    LET h == c.hidden
    IN  [n1w |-> F32W(p, "n1w", h), n1b |-> F32W(p, "n1b", h), n2w |-> F32W(p, "n2w", h), n2b |-> F32W(p, "n2b", h),
         ls1 |-> IF ls THEN F32W(p, "ls1", h) ELSE Null, ls2 |-> IF ls THEN F32W(p, "ls2", h) ELSE Null,
         Wqkv |-> GemmW(o, p, "qkv", h, 3 * h), bqkv |-> F32W(p, "bqkv", 3 * h),
         Wproj |-> GemmW(o, p, "proj", h, h), bproj |-> F32W(p, "bproj", h),
         Wfc1 |-> GemmW(o, p, "fc1", h, c.ff), bfc1 |-> F32W(p, "bfc1", c.ff),
         Wfc2 |-> GemmW(o, p, "fc2", c.ff, h), bfc2 |-> F32W(p, "bfc2", h)]

VitBlockFused(o, c, w, x, N) ==
    LET bf(W) == Bf16OperandRows(W, N)
        res(y, b, ls, r) == IF Has(ls) THEN FusedBiasGateRes(y, b, ls, r) ELSE FusedBiasRes(y, b, r)
        n1  == FusedLn(x, w.n1w, w.n1b, c.eps, FALSE, bf(w.Wqkv))
        qkv == FusedQkvHeads(MmExact(o, w.Wqkv, n1), w.bqkv, Null, Null, 3, c.head_dim, c.heads, N, 1,
                             {2}, {}, <<0, 1, 2>>, FALSE)
        part(i) == FusedPart(qkv, i, i = 2, c.head_dim, c.heads, N, 1)
        att == AttentionRowsExact(o, part(0), part(1), part(2), c.head_dim, c.hidden, N, 1, bf(w.Wproj))
        h1  == res(MmExact(o, w.Wproj, att), w.bproj, w.ls1, x)
        n2  == FusedLn(h1, w.n2w, w.n2b, c.eps, FALSE, bf(w.Wfc1))
        f   == MmExact(o, w.Wfc2, FusedBiasGeluErf(MmExact(o, w.Wfc1, n2), w.bfc1, bf(w.Wfc2)))
    IN  res(f, w.bfc2, w.ls2, h1)

VitBlock(o, c, w, x, N, fa) ==
    LET scaled(y, ls) == IF Has(ls) THEN Mul(y, ls) ELSE y
        qkv == Linear(o, w.Wqkv, w.bqkv, LayerNorm(x, w.n1w, w.n1b, c.eps))
        part(i) == HeadView(qkv, c.head_dim, c.heads, N, c.hidden, 3, i)
        heads(i) == Cont(Permute(part(i), <<0, 2, 1, 3>>))
        att == IF fa THEN FlashAttention(heads(0), heads(1), heads(2), Null, c.head_dim)
               ELSE Attention(heads(0), heads(1), Cont(Permute(part(2), <<1, 2, 0, 3>>)), Null, c.head_dim,
                              c.hidden, N, 1)
        h1  == Add(x, scaled(Linear(o, w.Wproj, w.bproj, att), w.ls1))
    IN  Add(h1, scaled(FfnGeluErf(o, w.Wfc1, w.bfc1, w.Wfc2, w.bfc2, LayerNorm(h1, w.n2w, w.n2b, c.eps)), w.ls2))

N_PREFIX == 5       \* CLS and four register tokens
TowerEmbed(p, c, pix, patch, prefix) ==
    LET conv == Conv2dF32(TowerPatch(p, c.hidden, patch), pix, patch, 0)
        NP   == conv.ne[1] * conv.ne[2]
        pt   == SigLipPlace(p, c.hidden, NP, Cont(Transpose(Reshape(conv, D2(NP, c.hidden)))))
        tok  == Concat(Reshape(F32W(p, "cls", c.hidden), D2(c.hidden, 1)),
                       Weight(<<p, "reg">>, "f32", D2(c.hidden, N_PREFIX - 1)), 1)
    IN  IF prefix THEN Concat(tok, pt, 1) ELSE pt

Tower(o, p, c, pix, patch, prefix, fused, fa) ==
    LET x == TowerEmbed(p, c, pix, patch, prefix)
        N == x.ne[2]
        w == VitWeights(o, c, p, prefix)
        y == IF fused THEN VitBlockFused(o, c, w, x, N) ELSE VitBlock(o, c, w, x, N, fa)
    IN  IF prefix THEN Cont(Slice(y, 1, N_PREFIX, N - N_PREFIX)) ELSE y

\* fold_layer_scale: the rows of W and b times ls; only a BF16 weight takes it.
FoldLayerScale(W, b, ls) ==
    IF W.ty # "bf16" \/ Elems(ls) # W.ne[2] \/ Elems(b) # W.ne[2] THEN [W |-> Bad, b |-> Bad]
    ELSE [W |-> [W EXCEPT !.val = <<"scaled", W.val, ls.val>>], b |-> [b EXCEPT !.val = VMul(b.val, ls.val)]]
\* enable_fused: the tower's blocks as the encoder's fused ones.
FusedTowerWeights(w) ==
    LET fold(W, b, ls) == IF Has(ls) THEN FoldLayerScale(W, b, ls) ELSE [W |-> W, b |-> b]
        proj == fold(w.Wproj, w.bproj, w.ls1)
        fc2  == fold(w.Wfc2, w.bfc2, w.ls2)
    IN  [ln1w |-> w.n1w, ln1b |-> w.n1b, ln2w |-> w.n2w, ln2b |-> w.n2b, Wqkv |-> w.Wqkv, bqkv |-> w.bqkv,
         Wo |-> proj.W, bo |-> proj.b, Wfc1 |-> w.Wfc1, bfc1 |-> w.bfc1, Wfc2 |-> fc2.W, bfc2 |-> fc2.b,
         q_qkv |-> NoQ, q_o |-> NoQ, q_fc1 |-> NoQ, q_fc2 |-> NoQ]
FusedTowerCfg(c) == [c EXCEPT !.act = "bf16", !.fused = TRUE, !.gelu_erf = TRUE]

\* nv copies of a view's rows, one after the other.
Views(x, nv) == FoldLeft(LAMBDA y, v : ConcatViews(y, x, 1), x, [v \in 1..nv - 1 |-> v])

ProjW(o, n, K, N) == GemmW(o, "vis.proj", n, K, N)
\* encode: every view through both towers, projected to `out` columns.
DualEncode(o, nv, out) ==
    LET D   == DualDims
        H   == D.d.hidden + D.s.hidden
        pix(n, v) == Input(n, "f32", D4(D.side, D.side, 3, v))
        fa  == ~o.fused /\ o.default_fa /\ o.flash
        W1  == ProjW(o, "fc1", H, 4 * H)
        W2  == ProjW(o, "fc2", 4 * H, out)
        W3  == ProjW(o, "fc3", out, out)
        b1  == F32W("vis.proj", "b1", 4 * H)
        b2  == F32W("vis.proj", "b2", out)
        b3  == F32W("vis.proj", "b3", out)
        \* fused towers
        one(n) == Slice(pix(n, nv), 3, 0, 1)
        ed  == Views(TowerEmbed("vis.d", D.d, [one("px_d") EXCEPT !.val = <<"in", "px_d">>], D.patch, TRUE), nv)
        es  == Views(TowerEmbed("vis.s", D.s, [one("px_s") EXCEPT !.val = <<"in", "px_s">>], D.patch, FALSE), nv)
        Nd  == ed.ne[2] \div nv
        Ns  == es.ne[2] \div nv
        enc(p, c, x, N, ls) ==
            EncBlock(o, FusedTowerCfg(c), FusedTowerWeights(VitWeights(o, c, p, ls)), AsType(x, "bf16"), N, nv)
        rows(x, N, v, from) == Cast(ViewRows(x, N, v, from, Ns), "f32")
        hd  == enc("vis.d", D.d, ed, Nd, TRUE)
        hs  == enc("vis.s", D.s, es, Ns, FALSE)
        both == Views(Concat(rows(hd, Nd, nv - 1, Nd - Ns), rows(hs, Ns, nv - 1, 0), 0), nv)
        p1  == FusedLinear(W1, Cast(both, "bf16"), b1, Null, "bf16", "erf")
        \* one tower at a time
        tower(n, p, c, prefix) == Tower(o, p, c, pix(n, 1), D.patch, prefix, o.fused, fa)
        allp == Views(Concat(tower("px_d", "vis.d", D.d, TRUE), tower("px_s", "vis.s", D.s, FALSE), 0), nv)
        bf(W) == Bf16OperandRows(W, allp.ne[2])
        g1  == FusedBiasGeluErf(MmExact(o, W1, allp), b1, bf(W2))
        g2  == FusedBiasGeluErf(MmExact(o, W2, g1), b2, bf(W3))
    IN  IF o.fused_enc THEN FusedLinear(W3, FusedLinear(W2, p1, b2, Null, "bf16", "erf"), b3, Null, "f32", "none")
        ELSE IF o.fused THEN Add(MmExact(o, W3, g2), b3)
        ELSE Linear(o, W3, b3, GeluErf(Linear(o, W2, b2, GeluErf(Linear(o, W1, b1, allp)))))
DualViewsOk(views) == \A v \in DOMAIN views : ViewOk(views[v], DualDims.side)

---------------------------------------------------------------------------
(* Q99Stats: the action normalisation of a suite. *)

\* stats: suite -> [q01, q99, mask] lengths, mask = 0 when absent.
Q99Parse(stats, key, want) ==
    /\ key \in DOMAIN stats
    /\ stats[key].q01 = want /\ stats[key].q99 = want
=============================================================================
