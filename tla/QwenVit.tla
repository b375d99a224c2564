------------------------------- MODULE QwenVit -------------------------------
(***************************************************************************)
(* The Qwen3-VL vision tower (src/src/modules/qwen3vl_vit.h): GR00T N1.7   *)
(* and VLA-JEPA.  One layer and one deepstack tap stand for all.           *)
(***************************************************************************)
EXTENDS Vision

\* What the GGUF may say, and load_config's checks.
QwenCfg == [hidden |-> 1024, heads |-> 16, patch |-> 16, temporal |-> 2, merge |-> 2, num_side |-> 48,
            patch_flat |-> 1536, side |-> 256, ff |-> 4096]
QwenCfgOk(c) ==
    /\ c.patch > 0 /\ c.merge > 0 /\ c.side % c.patch = 0 /\ (c.side \div c.patch) % c.merge = 0
    /\ c.heads > 0 /\ c.patch_flat = 3 * c.temporal * c.patch * c.patch
QGrid(c)    == c.side \div c.patch
QTokens(c)  == (QGrid(c) \div c.merge) * (QGrid(c) \div c.merge)
QPatches(c) == QGrid(c) * QGrid(c)

---------------------------------------------------------------------------
(* Host tables. *)

\* Row and column of patch s, patches of a merge block being neighbours.
MergeBlockCoord(gw, m, s) ==
    LET wj == s % m
        wi == (s \div m) % m
        b  == s \div (m * m)
    IN  <<(b \div (gw \div m)) * m + wi, (b % (gw \div m)) * m + wj>>
\* The two table rows (or columns) coordinate k of g samples, num_side wide:
\* the floor of k (num_side-1) / (g-1), clamped, and its neighbour.
InterpRows(k, g, num_side) ==
    LET h0 == IF g <= 1 THEN 0
              ELSE LET x == (k * (num_side - 1)) \div (g - 1) IN IF x > num_side - 1 THEN num_side - 1 ELSE x
    IN  <<h0, IF h0 + 1 > num_side - 1 THEN num_side - 1 ELSE h0 + 1>>

\* <<t, h, w>> of each token of ids; "img" marks an image token.  A run of
\* images takes positions of a grid, and text goes on after the largest.
NoPositions == <<<<-1, -1, -1>>>>
MropePositions(ids, grid) ==
    LET g2 == grid * grid
        \* Where the text after a run of k images goes on.
        after(a) == IF a.k = 0 THEN a.off ELSE a.off + (IF a.k \div g2 > grid THEN a.k \div g2 ELSE grid)
        pic(a)   == <<a.off + a.k \div g2, a.off + (a.k % g2) \div grid, a.off + (a.k % grid)>>
        next(a, id) ==
            IF id = "img" THEN [a EXCEPT !.out = Append(@, pic(a)), !.k = @ + 1]
            ELSE [out |-> Append(a.out, <<after(a), after(a), after(a)>>), off |-> after(a) + 1, k |-> 0,
                  ok |-> a.ok /\ a.k % g2 = 0]
        last == FoldLeft(next, [out |-> <<>>, off |-> 0, k |-> 0, ok |-> TRUE], ids)
    IN  IF last.ok /\ last.k % g2 = 0 THEN last.out ELSE NoPositions

---------------------------------------------------------------------------
(* The graph. *)

QwenLayerW(o, c, p) ==
    LET h == c.hidden
    IN  [ln1w |-> F32W(p, "ln1w", h), ln1b |-> F32W(p, "ln1b", h), ln2w |-> F32W(p, "ln2w", h), ln2b |-> F32W(p, "ln2b", h),
         Wqkv |-> GemmW(o, p, "qkv", h, 3 * h), bqkv |-> F32W(p, "bqkv", 3 * h),
         Wo |-> GemmW(o, p, "o", h, h), bo |-> F32W(p, "bo", h),
         Wfc1 |-> GemmW(o, p, "fc1", h, c.ff), bfc1 |-> F32W(p, "bfc1", c.ff),
         Wfc2 |-> GemmW(o, p, "fc2", c.ff, h), bfc2 |-> F32W(p, "bfc2", h)]

\* kbuf and vbuf hold every view's rotated keys and values.
QwenLayerFused(c, w, x, cos, sin, kbuf, vbuf, seq, nv) ==
    LET hd  == c.hidden \div c.heads
        qkv == FusedLinear(w.Wqkv, FusedLnorm(x, w.ln1w, w.ln1b, "bf16", "ln"), w.bqkv, Null, "f32", "none")
        r   == FusedRopeKvTable(qkv, cos, sin, kbuf, vbuf, c.heads, c.heads, hd, 0)
        view(t) == HeadsView(t, hd, c.heads, seq, nv)
        fa  == Retype(FlashAttnExt(view(r.q), view(WriteRows(r.k, kbuf, 0)), view(WriteRows(r.v, vbuf, 0)), Null, hd),
                      "bf16")
        h1  == FusedLinear(w.Wo, Reshape(fa, D2(c.hidden, seq * nv)), w.bo, x, "f32", "none")
        f   == FusedLinear(w.Wfc1, FusedLnorm(h1, w.ln2w, w.ln2b, "bf16", "ln"), w.bfc1, Null, "bf16", "tanh")
    IN  FusedLinear(w.Wfc2, f, w.bfc2, h1, "f32", "none")

VitMm(o, W, x, seq, nv, fused) ==
    IF ~fused \/ W.ty # "bf16" \/ ~Contig(x) THEN MulMat(W, x)
    ELSE IF nv = 1 THEN MmExact(o, W, x) ELSE FusedGemmViews(W, x, seq, nv)

QwenLayerOps(o, c, w, x, cos, sin, seq, nv) ==
    LET hd == c.hidden \div c.heads
        T0 == seq * nv
        bf(W) == Bf16OperandRows(W, seq)
        vmm(W, in) == VitMm(o, W, in, seq, nv, TRUE)
        n1 == FusedLn(x, w.ln1w, w.ln1b, "ln", FALSE, bf(w.Wqkv))
        mm == vmm(w.Wqkv, n1)
        heads(parts, vt, f16) == FusedQkvHeads(mm, w.bqkv, cos, sin, 3, hd, c.heads, seq, nv, vt, {0, 1}, parts, f16)
        part(t, i, vt) == FusedPart(t, i, vt, hd, c.heads, seq, nv)
        q   == heads(<<0>>, {}, FALSE)
        kv  == heads(<<1, 2>>, {}, TRUE)
        all == heads(<<0, 1, 2>>, {2}, FALSE)
        att == IF o.flash
               THEN Reshape(FlashAttention(part(q, 0, FALSE), part(kv, 0, FALSE), part(kv, 1, FALSE), Null, hd),
                            D2(c.hidden, T0))
               ELSE AttentionRowsExact(o, part(all, 0, FALSE), part(all, 1, FALSE), part(all, 2, TRUE), hd,
                                       c.hidden, seq, nv, bf(w.Wo))
        h1 == FusedBiasRes(vmm(w.Wo, att), w.bo, x)
        n2 == FusedLn(h1, w.ln2w, w.ln2b, "ln", FALSE, bf(w.Wfc1))
        g  == FusedBiasGelu(vmm(w.Wfc1, n2), w.bfc1, bf(w.Wfc2))
    IN  FusedBiasRes(vmm(w.Wfc2, g), w.bfc2, h1)

QwenLayerPlain(o, c, w, x, cos, sin, seq, nv) ==
    LET hd == c.hidden \div c.heads
        qkv == Add(MulMat(w.Wqkv, LayerNorm(x, w.ln1w, w.ln1b, "ln")), w.bqkv)
        part(i) == Cont(RowPart(qkv, 3, i))
        turned(i) == Rope2d(ToHeads(part(i), hd, c.heads, seq, nv), cos, sin)
        att == IF o.flash THEN FlashAttention(turned(0), turned(1), ToHeads(part(2), hd, c.heads, seq, nv), Null, hd)
               ELSE Attention(turned(0), turned(1), ToHeadsV(part(2), hd, c.heads, seq, nv), Null, hd, c.hidden, seq, nv)
        h1 == Add(x, Add(MulMat(w.Wo, Reshape(att, D2(c.hidden, seq * nv))), w.bo))
        n2 == LayerNorm(h1, w.ln2w, w.ln2b, "ln")
    IN  Add(h1, Add(MulMat(w.Wfc2, Gelu(Add(MulMat(w.Wfc1, n2), w.bfc1))), w.bfc2))
QwenLayer(o, c, w, x, cos, sin, seq, nv) ==
    IF o.fused THEN QwenLayerOps(o, c, w, x, cos, sin, seq, nv) ELSE QwenLayerPlain(o, c, w, x, cos, sin, seq, nv)

\* merge*merge neighbouring patches side by side, normed before or after.
Merger(o, c, p, x, out, pre_merge, nv, fused) ==
    LET m2 == c.merge * c.merge
        cm == c.hidden * m2
        nm == x.ne[2] \div m2
        norm(t) == LayerNorm(t, F32W(p, "nw", t.ne[1]), F32W(p, "nb", t.ne[1]), "conn")
        join(t) == Reshape(Cont(t), D2(cm, nm))
        vmm(n, b, N, t) == Add(VitMm(o, GemmW(o, p, n, cm, N), t, nm \div nv, nv, fused), F32W(p, b, N))
    IN  vmm("fc2", "b2", out, GeluErf(vmm("fc1", "b1", cm, IF pre_merge THEN join(norm(x)) ELSE norm(join(x)))))

QwenEmbeds(o, c, h, out, nv, fused) ==
    [embeds |-> Merger(o, c, "vit.merger", h, out, TRUE, nv, fused),
     ds     |-> Merger(o, c, "vit.deepstack", h, out, FALSE, nv, fused)]
QwenBuild(o, c, pt, pos, cos, sin, out, nv) ==
    LET n == QPatches(c)
        h == Add(VitMm(o, GemmW(o, "vit", "patch_w", c.patch_flat, c.hidden), pt, n, nv, o.fused),
                 F32W("vit", "patch_b", c.hidden))
        x == Reshape(Add(Reshape(h, D3(c.hidden, n, nv)), pos), D2(c.hidden, n * nv))
    IN  QwenEmbeds(o, c, QwenLayer(o, c, QwenLayerW(o, c, "vit.blk"), x, cos, sin, n, nv), out, nv, o.fused)
\* encode: with o.fused_enc one graph for every view, else one per view.
QwenGraphViews(o, nv) == IF o.fused_enc THEN nv ELSE 1
QwenEncode(o, c, views, out) ==
    LET nv   == QwenGraphViews(o, views)
        rows == QPatches(c) * nv
        hd   == c.hidden \div c.heads
        in(n, w) == Input(n, "f32", D2(w, rows))
        pt  == in("t_patches", c.patch_flat)
        pos == in("t_pos", c.hidden)
        cos == in("t_cos", hd)
        sin == in("t_sin", hd)
        h   == Add(Add(MulMat(GemmW(o, "vit", "patch_w", c.patch_flat, c.hidden), pt), F32W("vit", "patch_b", c.hidden)),
                   pos)
        buf(n) == Input(n, "bf16", D3(hd, c.heads, rows))
        y   == QwenLayerFused(c, QwenLayerW(o, c, "vit.blk"), h, cos, sin, buf("kbuf"), buf("vbuf"), QPatches(c), nv)
    IN  IF o.fused_enc THEN QwenEmbeds(o, c, y, out, 1, FALSE) ELSE QwenBuild(o, c, pt, pos, cos, sin, out, 1)
QwenWidths(c) == [t_patches |-> c.patch_flat, t_pos |-> c.hidden, t_cos |-> c.hidden \div c.heads,
                  t_sin |-> c.hidden \div c.heads]
QwenInputs(o, c, views) ==
    [i \in DOMAIN QwenWidths(c) |-> QwenWidths(c)[i] * QPatches(c) * QwenGraphViews(o, views)]
\* The tensor_sets before one compute; encode computes views / QwenGraphViews times.
QwenWrites(o, c, views) ==
    {LET n == QwenWidths(c)[i] * QPatches(c) IN <<i, (v - 1) * n, n>> :
        i \in DOMAIN QwenWidths(c), v \in 1..QwenGraphViews(o, views)}
=============================================================================
