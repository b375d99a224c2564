------------------------------- MODULE Layers -------------------------------
(***************************************************************************)
(* The shared layers (src/src/layers) and the activation-type helpers      *)
(* (src/src/act_dtype.h).  `o` is what the build, the environment and the  *)
(* backend switch on: o.fused (fused CUDA nodes for weights on CUDA),      *)
(* o.gemm_exact, o.attn_exact, o.hexagon, ...                              *)
(***************************************************************************)
EXTENDS FusedOps

\* The widths ggml-hexagon's matrix unit takes.
GemmWidth(o, n) == IF o.hexagon THEN ((n + 31) \div 32) * 32 ELSE n

AsType(t, ty) == IF t.ty = ty THEN t ELSE Cast(t, ty)

MmAct(o, w, x, at) ==
    IF at = "f32" /\ o.fused THEN MmExact(o, w, x)
    ELSE IF w.ty # at THEN AsType(MulMat(w, AsType(x, "f32")), at)
    ELSE MulMatT(w, x, at)

MmF32(o, w, x) ==
    IF w.ty = "bf16" /\ x.ty = "bf16" THEN MulMat(w, x)
    ELSE AsType(MmAct(o, w, x, IF x.ty = "bf16" THEN "bf16" ELSE "f32"), "f32")

Retype(t, ty)        == Need(<<t>>, Contig(t), [t EXCEPT !.ty = ty])
RetypeBlob(t, bytes) == Need(<<t>>, Contig(t), [t EXCEPT !.ty = "i8", !.ne = D1(bytes)])

\* t lands in rows [row0, row0 + tokens) of buf.
WriteRows(t, buf, row0) ==
    Need(<<t, buf>>, /\ t.ty = buf.ty /\ t.ne[1] = buf.ne[1] /\ t.ne[2] = buf.ne[2]
                     /\ row0 + t.ne[3] <= buf.ne[3],
         [t EXCEPT !.st = IF t.ne = buf.ne THEN "full" ELSE "rows"])

---------------------------------------------------------------------------

Linear(o, W, b, x) ==
    LET rows == Reshape(x, D2(x.ne[1], Rows(x)))
        biased(y) == IF Has(b) THEN Add(y, b) ELSE y
    IN  IF o.hexagon /\ W.ne[3] * W.ne[4] = 1 /\ x.ne[3] * x.ne[4] > 1 /\ Contig(x)
        THEN Reshape(biased(MulMat(W, rows)), D4(W.ne[2], x.ne[2], x.ne[3], x.ne[4]))
        ELSE biased(MulMat(W, x))

\* Block blk of a fused [nblk*E, T] projection, laid out as heads.
HeadView(proj, hd, heads, n, E, nblk, blk) ==
    Window(proj, D3(hd, heads, n), "rows",
           hd * heads = E /\ nblk * E = proj.ne[1] /\ blk < nblk /\ n <= proj.ne[2], VPart(proj.val, blk + 1))

LayerNorm(x, w, b, eps) == Add(Mul(Norm(x, eps), w), b)
RmsNormW(x, w, eps)     == IF Has(w) THEN Mul(RmsNorm(x, eps), w) ELSE RmsNorm(x, eps)

FfnGelu(o, W1, b1, W2, b2, x)    == Linear(o, W2, b2, Gelu(Linear(o, W1, b1, x)))
FfnRelu(o, W1, b1, W2, b2, x)    == Linear(o, W2, b2, Relu(Linear(o, W1, b1, x)))
FfnGeluErf(o, W1, b1, W2, b2, x) == Linear(o, W2, b2, GeluErf(Linear(o, W1, b1, x)))

ToHeads(p, hd, heads, n, nv)  == Cont(Permute(Reshape(p, D4(hd, heads, n, nv)), <<0, 2, 1, 3>>))
ToHeadsV(p, hd, heads, n, nv) == Cont(Permute(Reshape(p, D4(hd, heads, n, nv)), <<1, 2, 0, 3>>))

Attention(Q, K, V, mask, scale, dim, n, nv) ==
    Reshape(Cont(Permute(MulV(V, SoftMaxExt(MulMat(K, Q), mask, scale)), <<0, 2, 1, 3>>)), D3(dim, n, nv))
FlashAttention(Q, K, V, mask, scale) ==
    LET y == FlashAttnExt(Q, AsType(K, "f16"), AsType(V, "f16"), mask, scale)
    IN  Reshape(y, D3(y.ne[1] * y.ne[2], y.ne[3], y.ne[4]))

Conv2dF32(w, x, stride, pad) ==
    LET col == Im2col(w, x, stride, pad)
        y   == MulMat(Reshape(col, D2(col.ne[1], Rows(col))), Reshape(w, D2(w.ne[1] * w.ne[2] * w.ne[3], w.ne[4])))
        \* the patches are the first operand; the term is the weight's product
        z   == [y EXCEPT !.val = VMm(w.val, col.val)]
    IN  IF col.ne[4] = 1 THEN Reshape(z, D4(col.ne[2], col.ne[3], w.ne[4], 1))
        ELSE Cont(Permute(Reshape(z, D4(col.ne[2], col.ne[3], col.ne[4], w.ne[4])), <<0, 1, 3, 2>>))

---------------------------------------------------------------------------

RopeSpec(type, n_dims, base, multi) == [type |-> type, n_dims |-> n_dims, base |-> base, multi |-> multi]
Rope(spec, x, pos) == RopeExt(x, pos, spec)

Rope2d(x, c, s) ==
    LET half == x.ne[1] \div 2
        x1   == Cont(Slice(x, 0, 0, half))
        x2   == Cont(Slice(x, 0, half, half))
    IN  Add(Mul(x, c), Mul(Concat(Neg(x2), x1, 0), s))

RopePairwiseRot(x, HD) ==
    LET xp == Reshape(x, D4(2, HD \div 2, x.ne[2], x.ne[3]))
        ev == Cont(Slice(xp, 0, 0, 1))
        od == Cont(Slice(xp, 0, 1, 1))
    IN  Reshape(Concat(Scale(od, "-1"), ev, 0), D3(HD, x.ne[2], x.ne[3]))
RopePairwise(x, cs, sn, HD) ==
    Add(Mul(x, Reshape(cs, D3(HD, x.ne[2], 1))),
        Mul(RopePairwiseRot(x, HD), Reshape(sn, D3(HD, x.ne[2], 1))))

---------------------------------------------------------------------------
(* Host-side tables: how many numbers they hold.                           *)

TimestepsProjLen        == 256
=============================================================================
