------------------------------ MODULE FoldQuant ------------------------------
(***************************************************************************)
(* FoldQuant sites (src/src/foldquant.cpp) and their graph nodes           *)
(* (src/src/layers/fq_linear.h, fq_rope_attn.h).                           *)
(*                                                                         *)
(* A site is a weight of INT8 or INT4 codes; its activation is divided by  *)
(* `ascale` and rotated in blocks before it is quantised.  The product is  *)
(* that of the folded weight: Folded(w, steps) is w with the steps applied *)
(* to its rows, which is the transpose, so in reverse order, of what the   *)
(* activation goes through.                                                *)
(***************************************************************************)
EXTENDS FusedEw, SequencesExt

FQ_ACT_TAIL == 16
FqActKpack(K, abits)    == IF abits = 4 THEN K \div 2 ELSE K
FqActRowBytes(K, abits) == FqActKpack(K, abits) + FQ_ACT_TAIL
FqWKpack(K, wbits)      == IF wbits = 4 THEN K \div 2 ELSE K
FqActStoreBits(s)       == IF s.abits = 4 /\ ~s.wide4 THEN 4 ELSE 8

\* The largest power of two up to nominal that divides K; 1 is no rotation.
RotBlockFor(K, nominal) ==
    LET halved == {nominal \div d : d \in {1, 2, 4, 8, 16, 32, 64, 128}}
        ok     == {b \in halved : b >= 2 /\ K % b = 0}
    IN  IF ok = {} THEN 1 ELSE CHOOSE b \in ok : \A c \in ok : c <= b

---------------------------------------------------------------------------
(* Which path the sites of a file take on a backend.                       *)

FqMode(o) ==
    CASE o.backend = "sycl" /\ o.fq_sycl /\ ~o.fq_dequant     -> [dequant |-> FALSE, no_heads |-> TRUE]
      [] o.backend = "openvino" /\ o.fq_openvino /\ ~o.ov_npu /\ ~o.fq_dequant -> [dequant |-> FALSE, no_heads |-> TRUE]
      [] (o.backend \notin {"cuda", "cpu"}) \/ o.fq_dequant   -> [dequant |-> TRUE, no_heads |-> FALSE]
      [] OTHER                                                -> [dequant |-> FALSE, no_heads |-> FALSE]

ActSteps(s) == (IF s.has_ascale /\ s.fold_before THEN <<"ascale">> ELSE <<>>)
               \o (IF s.rot > 1 THEN <<"rot">> ELSE <<>>)
               \o (IF s.has_ascale /\ ~s.fold_before THEN <<"ascale">> ELSE <<>>)
\* Mutant: the row goes through the activation's steps in their order.
DequantStepsForward(s) == ActSteps(s)
\* fq_dequant_rows: the row goes through the butterfly and the divide.
DequantSteps(s) == (IF s.has_ascale /\ ~s.fold_before THEN <<"ascale">> ELSE <<>>)
                   \o (IF s.rot > 1 THEN <<"rot">> ELSE <<>>)
                   \o (IF s.has_ascale /\ s.fold_before THEN <<"ascale">> ELSE <<>>)
Folded(v, steps) ==
    IF v[1] = "cat" THEN VCat([i \in DOMAIN v[2] |-> <<"folded", v[2][i], steps>>])
    ELSE <<"folded", v, steps>>

NoSite == [w |-> Null]
IsSite(s) == Has(s.w)
\* A site of W [K, N]: the codes, or in dequant mode the float weight read back.
FqSite(W, bias, gamma, q) ==
    LET K == W.ne[1]
        s == [has_ascale |-> q.has_ascale, fold_before |-> q.fold_before, rot |-> RotBlockFor(K, q.rot_block)]
    IN  IF K % 64 # 0 \/ W.ne[2] % 64 # 0 \/ s.rot > 64 THEN NoSite
        ELSE [w |-> T("i8", D2(FqWKpack(K, q.wbits), W.ne[2]), W.val), bias |-> bias, gamma |-> gamma,
              K |-> K, N |-> W.ne[2], abits |-> q.abits, wide4 |-> q.wide4, eps |-> q.eps,
              has_ascale |-> s.has_ascale, fold_before |-> s.fold_before, rot |-> s.rot,
              heads_off |-> q.no_heads, heads |-> 0, hd |-> 0, vt |-> {}, glu |-> FALSE]
FqDequant(W, q) ==
    [W EXCEPT !.val = Folded(W.val, DequantSteps([has_ascale |-> q.has_ascale, fold_before |-> q.fold_before,
                                                  rot |-> RotBlockFor(W.ne[1], q.rot_block)]))]
FqSetHeads(s, hd, heads, vt) ==
    IF ~IsSite(s) \/ s.heads_off \/ s.N % (hd * heads) # 0 \/ s.N \div (hd * heads) \notin 1..32 THEN s
    ELSE [s EXCEPT !.hd = hd, !.heads = heads, !.vt = vt]

---------------------------------------------------------------------------
(* The nodes. *)

\* The blob stands for the activation, through the site's norm when it has one.
FqAct(s, x) ==
    LET v == IF Has(s.gamma) THEN VMul(VNorm("rms", x.val, s.eps), s.gamma.val) ELSE x.val
    IN  Need(<<x, s.w>>, x.ty = "f32" /\ x.ne[1] = s.K,
             T("i8", D2(FqActRowBytes(s.K, FqActStoreBits(s)), Elems(x) \div s.K), v))
FqActMod(s, x, gamma, shift, eps) ==
    Need(<<x, gamma, shift>>, x.ty = "f32" /\ x.ne[1] = s.K,
         T("i8", D2(FqActRowBytes(s.K, FqActStoreBits(s)), Elems(x) \div s.K),
           VAdd(VMul(VNorm("rms", x.val, eps), gamma.val), shift.val)))

GemmV(s, xq) == VBias(VMm(Folded(s.w.val, Reverse(ActSteps(s))), xq.val), s.bias.val)
GluV(v)      == VMul(VFn("gelu", VPart(v, 1)), VPart(v, 2))
\* Parts whose number is in vt are written transposed.
HeadsV(s, v) ==
    LET parts == IF s.N = s.hd * s.heads THEN <<v>> ELSE v[2]
    IN  IF s.heads = 0 THEN v
        ELSE VCat([i \in DOMAIN parts |-> IF i - 1 \in s.vt THEN <<"vt", parts[i]>> ELSE parts[i]])
FqGemm(o, s, xq, residual, gate) ==
    LET n    == xq.ne[2]
        fuse == /\ Has(residual) /\ o.fq_fuse /\ s.heads = 0 /\ ~s.glu /\ residual.ty = "f32"
                /\ Contig(residual) /\ residual.ne[1] = s.N /\ Elems(residual) = s.N * n
                /\ (Has(gate) => o.backend = "sycl" /\ gate.ty = "f32" /\ gate.ne[1] = s.N /\ Contig(gate))
        v    == IF s.glu THEN GluV(GemmV(s, xq)) ELSE HeadsV(s, GemmV(s, xq))
        y(t) == Need(<<xq, s.w, residual, gate>>, xq.ty = "i8" /\ xq.ne[1] = FqActRowBytes(s.K, FqActStoreBits(s)),
                     T("f32", D2(IF s.glu THEN s.N \div 2 ELSE s.N, n), t))
    IN  IF fuse THEN y(VAdd(residual.val, VGate(v, gate.val)))
        ELSE IF Has(residual) THEN Add(residual, IF Has(gate) THEN Mul(y(v), gate) ELSE y(v))
        ELSE y(v)
FqLinear(o, s, x, residual, gate) == FqGemm(o, s, FqAct(s, x), residual, gate)

FqHeadView(y, s, part, n) ==
    LET v == VPart(y.val, part + 1)
        t == part \in s.vt
    IN  Window(y, IF t THEN D3(n, s.hd, s.heads) ELSE D3(s.hd, n, s.heads), "full",
               s.heads > 0 /\ y.ne[2] = n /\ (part + 1) * s.heads * s.hd <= s.N, IF t THEN v[2] ELSE v)

FqGluAct(gu, down, xq) ==
    Need(<<gu.w, xq, down.w>>, gu.glu /\ xq.ty = "i8" /\ down.K = gu.N \div 2 /\ ~Has(down.gamma),
         T("i8", D2(FqActRowBytes(down.K, FqActStoreBits(down)), xq.ne[2]), GluV(GemmV(gu, xq))))

\* One CUDA node for the activation (or the norm) and the quantisation; Null
\* where it does not apply, and the caller builds the separate nodes.
FqActGlu(o, s, g, u, glu) ==
    IF \/ ~o.fused \/ ~o.fq_act_fuse \/ Has(s.gamma) \/ s.K % 64 # 0 \/ s.K > 16384 \/ s.rot > 64
       \/ g.ty # "f32" \/ g.ne[1] # s.K \/ ~Contig(g) \/ (glu = "Gelu") # ~Has(u)
       \/ (Has(u) /\ (u.ty # "f32" \/ ~Contig(u) \/ u.ne # g.ne))
    THEN Null
    ELSE Need(<<g, u>>, TRUE, T("i8", D2(FqActRowBytes(s.K, s.abits), Elems(g) \div s.K),
              CASE glu = "Gelu" -> VFn("gelu", g.val)
                [] glu = "SiluMul" -> SiluMulV(g.val, u.val)
                [] glu = "GeluMul" -> GeluMulV(g.val, u.val)))
FqActNorm(o, s, x, p1, p2, kind, eps) ==
    LET n == VNormed(kind, x.val, eps)
    IN  IF \/ ~IsSite(s) \/ ~o.fused \/ ~o.fq_act_fuse \/ Has(s.gamma) \/ s.K % 64 # 0 \/ s.K \notin 1024..8192
           \/ s.rot > 64 \/ x.ty # "f32" \/ x.ne[1] # s.K \/ ~Contig(x)
           \/ (kind # "LnPlain") # (Has(p1) /\ Has(p2))
           \/ (kind # "LnPlain" /\ (~PerColumn(p1, x) \/ ~PerColumn(p2, x)))
        THEN Null
        ELSE Need(<<x, p1, p2>>, TRUE, T("i8", D2(FqActRowBytes(s.K, s.abits), Elems(x) \div s.K),
                  IF Has(p1) THEN VModulate(n, p1.val, p2.val) ELSE n))

\* q|k|v, the rotation and attention over the cached prefix (one KV head).
FqRopeAttn(s, spec, xq, pos, Kc, Vc, nq, scale) ==
    LET v == GemmV(s, xq)
        cached(p, new) == <<"concat", p.val, new>>
    IN  Need(<<s.w, xq, pos, Kc, Vc>>, xq.ty = "i8" /\ Kc.ty = "f16" /\ s.N = (nq + 2) * spec.n_dims
                                       /\ Elems(pos) = xq.ne[2],
             T("f32", D3(spec.n_dims, nq, xq.ne[2]),
               VAttn(VRope(VPart(v, 1), pos.val, spec), cached(Kc, VRope(VPart(v, 2), pos.val, spec)),
                     cached(Vc, VPart(v, 3)), Null.val, scale)))
\* The packed rows of the prefix: Q head-major, then K and V each with `extra`
\* free rows.
FqRopePack(s, spec, xq, pos, nq, extra) ==
    LET n == xq.ne[2]
        v == GemmV(s, xq)
    IN  Need(<<s.w, xq, pos>>, xq.ty = "i8" /\ s.N = (nq + 2) * spec.n_dims /\ Elems(pos) = n,
             T("f16", D2(spec.n_dims, nq * n + 2 * (n + extra)),
               VCat(<<VRope(VPart(v, 1), pos.val, spec), VRope(VPart(v, 2), pos.val, spec), VPart(v, 3)>>)))
=============================================================================
