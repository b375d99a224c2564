------------------------------ MODULE FusedOps ------------------------------
(***************************************************************************)
(* The fused CUDA nodes (src/src/layers/fused_ops.h): each XxxV is what    *)
(* the node's reference function computes, each FusedXxx the constructor   *)
(* with its assertions.  The models emit them in place of chains of ggml   *)
(* operators, so XxxV has to be the term of the chain.                     *)
(***************************************************************************)
EXTENDS Tensor

VNormed(kind, x, eps) == VNorm(IF kind \in {"RmsMul", "RmsModulate"} THEN "rms" ELSE "norm", x, eps)
\* n + n*sc + sh, in the form ggml's own chain Add(Add(n, Mul(n, sc)), sh) has.
VModulate(n, sc, sh) == VAdd(VAdd(n, VMul(n, sc)), sh)
VBias(x, b) == IF b = Null.val THEN x ELSE VAdd(x, b)

\* Part p of rows of n_parts widths: bias, then the 2D rotation where asked.
\* A part in vt is written transposed.
QkvHeadsV(n_parts, x, b, c, s, hd, vt, rope, parts) ==
    LET part(p)  == IF n_parts = 1 THEN VBias(x, b) ELSE VPart(VBias(x, b), p + 1)
        turn(p)  == IF p \in rope THEN VRope2d(part(p), c, s, hd) ELSE part(p)
        write(p) == IF p \in vt THEN <<"vt", turn(p)>> ELSE turn(p)
    IN  VCat([k \in 1..Len(parts) |-> write(parts[k])])
\* Read back the way it lies, or not the part at all.
PartV(v, k, transposed) ==
    LET p == VPart(v, k + 1)
    IN  IF (p[1] = "vt") # transposed THEN <<"mislaid", p>> ELSE IF transposed THEN p[2] ELSE p
BiasResV(y, b, r)        == VAdd(r, VAdd(y, b))
BiasGeluV(y, b)          == VFn("gelu", VAdd(y, b))
BiasGeluErfV(y, b)       == VFn("gelu_erf", VAdd(y, b))
BiasGateResV(y, b, g, r) == VAdd(r, VMul(VAdd(y, b), g))
GateResV(y, g, r)        == VAdd(r, VMul(y, g))
GeluMulV(g, u)           == VMul(VFn("gelu", g), u)
SiluMulV(g, u)           == VMul(VFn("silu", g), u)
RmsMulV(x, w, eps)       == VMul(VNorm("rms", x, eps), w)
RmsModulateV(x, sc, sh, eps) == VModulate(VNorm("rms", x, eps), sc, sh)
LnV(x, p1, p2, eps, modulate) ==
    LET n == VNorm("norm", x, eps)
    IN  IF p1 = Null.val THEN n ELSE IF modulate THEN VModulate(n, p1, p2) ELSE VAdd(VMul(n, p1), p2)
QkNormRopeV(x, w, pos, eps, spec) == VRope(RmsMulV(x, w, eps), pos, spec)
PatchifyV(img)           == <<"patches", img>>
GemmViewsV(W, x)         == VMm(W, x)
AttnExactV(q, k, v, mask, scale) == VAttn(q, k, v, mask, scale)
\* The first tokens come rotated from P; x gets its bias, then the rotation.
HeadsRopeV(x, pos, P, b, spec) ==
    LET own == IF pos = Null.val THEN VBias(x, b) ELSE VRope(VBias(x, b), pos, spec)
    IN  IF P = Null.val THEN own ELSE <<"concat", P, own>>

---------------------------------------------------------------------------

OutType(bf16, f16) == IF bf16 THEN "bf16" ELSE IF f16 THEN "f16" ELSE "f32"
\* ggml_custom_4d in the type the spec asks for.
FusedNode(ts, ok, ty, ne, val) == Need(ts, ok, T(ty, ne, val))

FusedQkvHeads(y, bias, c, s, n_parts, hd, heads, S, nv, vt, rope, parts, out_f16) ==
    FusedNode(<<y, bias, c, s>>,
              Contig(y) /\ y.ne[1] = n_parts * hd * heads /\ Elems(y) = y.ne[1] * S * nv,
              OutType(FALSE, out_f16), D3(hd * S, heads * nv, Len(parts)),
              QkvHeadsV(n_parts, y.val, bias.val, c.val, s.val, hd, vt, rope, parts))
\* Part k (packed, from 0) as attention takes it; V may lie transposed.
FusedPart(qkv, k, transposed, hd, heads, S, nv) ==
    Window(qkv, IF transposed THEN D4(S, hd, heads, nv) ELSE D4(hd, S, heads, nv), "full",
           (k + 1) * hd * S * heads * nv <= Elems(qkv), PartV(qkv.val, k, transposed))

SameRows(y, r) == Contig(y) /\ Contig(r) /\ y.ne = r.ne
PerColumn(p, x) == Contig(p) /\ Elems(p) = x.ne[1]
FusedBiasRes(y, b, r) ==
    FusedNode(<<y, b, r>>, SameRows(y, r) /\ b.ne[1] = y.ne[1], "f32", y.ne, BiasResV(y.val, b.val, r.val))
FusedBiasGelu(y, b, out_bf16) ==
    FusedNode(<<y, b>>, Contig(y) /\ b.ne[1] = y.ne[1], OutType(out_bf16, FALSE), y.ne, BiasGeluV(y.val, b.val))
FusedBiasGeluErf(y, b, out_bf16) ==
    FusedNode(<<y, b>>, Contig(y) /\ b.ne[1] = y.ne[1], OutType(out_bf16, FALSE), y.ne, BiasGeluErfV(y.val, b.val))
FusedBiasGateRes(y, b, g, r) ==
    FusedNode(<<y, b, g, r>>, SameRows(y, r) /\ Elems(b) = y.ne[1] /\ PerColumn(g, y), "f32", y.ne,
              BiasGateResV(y.val, b.val, g.val, r.val))
FusedGateRes(y, g, r) ==
    FusedNode(<<y, g, r>>, SameRows(y, r) /\ PerColumn(g, y), "f32", y.ne, GateResV(y.val, g.val, r.val))
FusedLn(x, p1, p2, eps, modulate, out_bf16) ==
    FusedNode(<<x, p1, p2>>, Contig(x) /\ (Has(p1) => PerColumn(p1, x) /\ PerColumn(p2, x)),
              OutType(out_bf16, FALSE), x.ne, LnV(x.val, p1.val, p2.val, eps, modulate))
FusedRmsMul(x, w, eps, out_bf16) ==
    FusedNode(<<x, w>>, Contig(x) /\ PerColumn(w, x), OutType(out_bf16, FALSE), x.ne, RmsMulV(x.val, w.val, eps))
FusedRmsModulate(x, sc, sh, eps, out_bf16) ==
    FusedNode(<<x, sc, sh>>, Contig(x) /\ PerColumn(sc, x) /\ PerColumn(sh, x), OutType(out_bf16, FALSE), x.ne,
              RmsModulateV(x.val, sc.val, sh.val, eps))
FusedSiluMul(g, u, out_bf16) ==
    FusedNode(<<g, u>>, SameRows(g, u), OutType(out_bf16, FALSE), g.ne, SiluMulV(g.val, u.val))
FusedGeluMul(g, u, out_bf16) ==
    FusedNode(<<g, u>>, SameRows(g, u), OutType(out_bf16, FALSE), g.ne, GeluMulV(g.val, u.val))
FusedPatchify(img, patch, temporal) ==
    LET gw == img.ne[2] \div patch
    IN  FusedNode(<<img>>, Contig(img) /\ img.ne[1] = 3 /\ img.ne[2] = img.ne[3] /\ img.ty \in {"f32", "i8"},
                  "f32", D2(3 * temporal * patch * patch, gw * gw * img.ne[4]), PatchifyV(img.val))
FusedQkNormRope(x, w, pos, eps, spec, out_f16) ==
    FusedNode(<<x, w, pos>>,
              /\ Contig(x) /\ Elems(w) = x.ne[1] /\ pos.ty = "i32"
              /\ Elems(pos) = 4 * x.ne[3] /\ x.ne[1] % 64 = 0,
              OutType(FALSE, out_f16), D3(x.ne[1], x.ne[3], x.ne[2]),
              QkNormRopeV(x.val, w.val, pos.val, eps, spec))
FusedGemmViews(W, x, S, nv) ==
    FusedNode(<<W, x>>,
              /\ W.ty = "bf16" /\ x.ty \in {"bf16", "f32"} /\ Contig(W) /\ Contig(x)
              /\ W.ne[1] = x.ne[1] /\ x.ne[2] = S * nv /\ Rows(x) = S * nv,
              "f32", D2(W.ne[2], S * nv), GemmViewsV(W.val, x.val))
FusedAttnExact(Q, K, Vt, scale, out_bf16, nv, mask) ==
    FusedNode(<<Q, K, Vt, mask>>,
              /\ Contig(Q) /\ Contig(K) /\ Contig(Vt) /\ Q.ty = "f32" /\ K.ty = "f32" /\ Vt.ty = "f32"
              /\ K.ne[1] = Q.ne[1] /\ Q.ne[3] % K.ne[3] = 0 /\ Vt.ne[1] = K.ne[2] /\ Vt.ne[2] = K.ne[1]
              /\ Vt.ne[3] = K.ne[3] /\ K.ne[2] <= 4096
              /\ (Has(mask) => /\ mask.ty \in {"f32", "f16"} /\ DenseRows(mask) /\ mask.ne[1] = K.ne[2]
                               /\ mask.ne[2] >= Q.ne[2] /\ mask.ne[3] = 1 /\ mask.ne[4] = 1)
              /\ nv >= 1 /\ Q.ne[3] % nv = 0 /\ (nv = 1 \/ (~Has(mask) /\ K.ne[3] = Q.ne[3])),
              OutType(out_bf16, FALSE), D2((Q.ne[1] * Q.ne[3]) \div nv, Q.ne[2] * nv),
              AttnExactV(Q.val, K.val, Vt.val, mask.val, scale))
FusedHeadsRope(x, pos, P, hd, heads, spec, transposed, b) ==
    LET T0 == Elems(x) \div (hd * heads)
        Tp == IF Has(P) THEN Elems(P) \div (hd * heads) ELSE 0
    IN  FusedNode(<<x, pos, P, b>>,
                  /\ Contig(x) /\ x.ty = "f32" /\ Elems(x) % (hd * heads) = 0 /\ hd % 2 = 0
                  /\ (Has(pos) => pos.ty = "i32" /\ Elems(pos) = T0)
                  /\ (Has(P) => Contig(P) /\ P.ty = "f32" /\ Elems(P) = Tp * hd * heads)
                  /\ (Has(b) => Contig(b) /\ b.ty = "f32" /\ Elems(b) = hd * heads),
                  "f32", IF transposed THEN D3(Tp + T0, hd, heads) ELSE D3(hd, Tp + T0, heads),
                  HeadsRopeV(x.val, pos.val, P.val, b.val, spec))

---------------------------------------------------------------------------
(* What a fused path may hand a matrix product. *)

\* ggml multiplies up to 16 rows with its own kernels, more with cuBLAS.
CublasRows(rows) == rows > 16
Bf16Operand(W) == W.ty = "bf16"
Bf16OperandRows(W, rows) == W.ty = "bf16" /\ CublasRows(rows)

MmExact(o, W, x) ==
    IF x.ty = "bf16" /\ ~CublasRows(Rows(x)) THEN Bad
    ELSE IF \/ ~o.gemm_exact \/ W.ty # "bf16" \/ ~Contig(W) \/ ~Contig(x) \/ x.ty \notin {"bf16", "f32"}
            \/ x.ne[1] # W.ne[1] \/ x.ne[3] * x.ne[4] # 1 \/ ~CublasRows(x.ne[2])
         THEN MulMat(W, x)
         ELSE FusedGemmViews(W, x, x.ne[2], 1)

HeadsToRowsBf16(kqv, dim, S, nv) == Reshape(Cast(Permute(kqv, <<0, 2, 1, 3>>), "bf16"), D2(dim, S * nv))
AttentionRows(Q, K, V, scale, dim, S, nv, out_bf16, mask) ==
    LET kqv == MulV(V, SoftMaxExt(MulMat(K, Q), mask, scale))
    IN  IF out_bf16 THEN HeadsToRowsBf16(kqv, dim, S, nv)
        ELSE Reshape(Cont(Permute(kqv, <<0, 2, 1, 3>>)), D2(dim, S * nv))
AttentionRowsExact(o, Q, K, Vt, scale, dim, S, nv, out_bf16) ==
    LET hd    == Q.ne[1]
        heads == Q.ne[3] * Q.ne[4]
    IN  IF \/ ~o.attn_exact \/ ~Contig(Q) \/ ~Contig(K) \/ ~Contig(Vt)
           \/ Q.ty # "f32" \/ K.ty # "f32" \/ Vt.ty # "f32" \/ K.ne[2] > 4096
           \/ K.ne[3] * K.ne[4] # heads \/ Vt.ne[1] # K.ne[2] \/ Vt.ne[2] # hd \/ hd * heads # dim * nv
        THEN AttentionRows(Q, K, Vt, scale, dim, S, nv, out_bf16, Null)
        ELSE FusedAttnExact(Reshape(Q, D3(hd, Q.ne[2], heads)), Reshape(K, D3(hd, K.ne[2], heads)),
                            Reshape(Vt, D3(Vt.ne[1], hd, heads)), scale, out_bf16, nv, Null)
=============================================================================
