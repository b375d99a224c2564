------------------------------- MODULE FusedEw -------------------------------
(***************************************************************************)
(* The fused SYCL nodes: elementwise chains (src/src/layers/fused_ew.h),   *)
(* the per-token INT8 linear (qlinear.h) and attention over a cached       *)
(* prefix (fmha_kv.h).  A node with an "i8" result writes a q8 blob: M     *)
(* rows of K codes, then M row scales, as M*(K+4) bytes.                   *)
(***************************************************************************)
EXTENDS Layers

Q8Rows(blob, K) == blob.ne[1] \div (K + 4)
Q8Bytes(x)      == Rows(x) * (x.ne[1] + 4)

AdarmsV(x, mod, eps) == VModulate(VNorm("rms", x, eps), VPart(mod, 1), VPart(mod, 2))
RmsV(x, w, eps)      == VMul(VNorm("rms", x, eps), w)
GateresV(x, y, mod)  == VAdd(x, VMul(y, VPart(mod, 3)))
GegluV(g, u, silu)   == VMul(VFn(IF silu THEN "silu" ELSE "gelu", g), u)
GeluMode(mode, v)    == CASE mode = "none" -> v [] mode = "tanh" -> VFn("gelu", v) [] mode = "erf" -> VFn("gelu_erf", v)
VRes(v, r)           == IF r = Null.val THEN v ELSE VAdd(v, r)
VGate(v, g)          == IF g = Null.val THEN v ELSE VMul(v, g)
LinearV(W, x, b, r, mode) == VRes(GeluMode(mode, VBias(VMm(W, x), b)), r)
LnormV(x, w, b, eps) == IF w = Null.val THEN VNorm("norm", x, eps) ELSE VAdd(VMul(VNorm("norm", x, eps), w), b)
QlinearV(W, x, b, g, r, mode) == VRes(VGate(GeluMode(mode, VBias(VMm(W, x), b)), g), r)

\* A row-wise result: rows like x's, or their blob.
RowOut(ts, ok, like, ty, val) ==
    Need(ts, ok, IF ty = "i8" THEN T("i8", D1(Q8Bytes(like)), val) ELSE T(ty, like.ne, val))

FusedAdarms(x, mod, ty, eps) ==
    RowOut(<<x, mod>>, x.ty = "f32" /\ DenseRows(x) /\ mod.ne[1] = 3 * x.ne[1], x, ty, AdarmsV(x.val, mod.val, eps))
FusedRmsQ8(x, w, eps) ==
    RowOut(<<x, w>>, w.ty = "f32" /\ w.ne[1] = x.ne[1] /\ DenseRows(x), x, "i8", RmsV(x.val, w.val, eps))
FusedRms(x, w, ty, eps) ==
    RowOut(<<x, w>>, w.ty = "f32" /\ w.ne[1] = x.ne[1] /\ DenseRows(x) /\ ty \in {"f32", "bf16"}, x, ty,
           RmsV(x.val, w.val, eps))
FusedGateres(x, y, mod) ==
    Need(<<x, y, mod>>, x.ty = "f32" /\ x.ne = y.ne /\ mod.ne[1] = 3 * x.ne[1] /\ y.ty \in {"f32", "bf16"},
         T("f32", x.ne, GateresV(x.val, y.val, mod.val)))
FusedGeglu(g, u, ty, silu) ==
    RowOut(<<g, u>>, g.ne = u.ne /\ g.ty = u.ty, g, ty, GegluV(g.val, u.val, silu))
FusedSwiglu(g, u, ty) == FusedGeglu(g, u, ty, TRUE)
FusedLinear(W, x, b, res, ty, mode) ==
    Need(<<W, x, b, res>>,
         W.ne[1] = x.ne[1] /\ x.ne[3] = 1 /\ x.ne[4] = 1 /\ (Has(b) => b.ty = "f32" /\ b.ne[1] = W.ne[2]),
         T(ty, D2(W.ne[2], x.ne[2]), LinearV(W.val, x.val, b.val, res.val, mode)))
FusedLnorm(x, w, b, ty, eps) ==
    Need(<<x, w, b>>, Has(w) = Has(b) /\ (Has(w) => w.ty = "f32" /\ b.ty = "f32" /\ w.ne[1] = x.ne[1]),
         T(ty, x.ne, LnormV(x.val, w.val, b.val, eps)))

\* rope(q) comes back; rope(k) and v land in rows of the two buffers, whose
\* terms readers take from the second and third field.
RopeKv(q, k, v) == [q |-> q, k |-> k, v |-> v]
RopeKvOf(qkv, kbuf, vbuf, nq, nkv, hd, row0, ty, ok, q, k) ==
    LET fits == /\ qkv.ty = "f32" /\ qkv.ne[1] = (nq + 2 * nkv) * hd /\ DenseRows(qkv)
                /\ kbuf.ty = ty /\ vbuf.ty = ty /\ row0 + qkv.ne[2] <= kbuf.ne[3] /\ ok
        out(heads, v) == Need(<<qkv, kbuf, vbuf>>, fits, T(ty, D3(hd, heads, qkv.ne[2]), v))
    IN  RopeKv(out(nq, q), out(nkv, k), out(nkv, VPart(qkv.val, 3)))
FusedRopeKv(qkv, pos, kbuf, vbuf, nq, nkv, hd, row0, spec) ==
    RopeKvOf(qkv, kbuf, vbuf, nq, nkv, hd, row0, "f16", ~IsBad(pos),
             VRope(VPart(qkv.val, 1), pos.val, spec), VRope(VPart(qkv.val, 2), pos.val, spec))
FusedRopeKvTable(qkv, c, s, kbuf, vbuf, nq, nkv, hd, row0) ==
    RopeKvOf(qkv, kbuf, vbuf, nq, nkv, hd, row0, kbuf.ty,
             /\ kbuf.ty \in {"f16", "bf16"} /\ c.ty = "f32" /\ s.ty = "f32" /\ Contig(c) /\ Contig(s)
             /\ c.ne[1] = hd /\ c.ne[2] >= qkv.ne[2] /\ c.ne = s.ne,
             VRope2d(VPart(qkv.val, 1), c.val, s.val, hd), VRope2d(VPart(qkv.val, 2), c.val, s.val, hd))

---------------------------------------------------------------------------
(* qlinear: q = [w, bits, group]; codes two per byte when bits = 4.        *)

QlinearK(q) == IF q.bits = 4 THEN 2 * q.w.ne[1] ELSE q.w.ne[1]
QWeight(w, bits, group) ==
    [w |-> IF IsBad(w) THEN Bad ELSE T("i8", [w.ne EXCEPT ![1] = IF bits = 4 THEN @ \div 2 ELSE @], w.val),
     bits |-> bits, group |-> group]
Qlinear(q, x, bias, res, ty, mode, gate) ==
    LET K    == QlinearK(q)
        blob == x.ty = "i8"
        M    == IF blob THEN Q8Rows(x, K) ELSE x.ne[2]
    IN  Need(<<q.w, x, bias, res, gate>>,
             /\ IF blob THEN x.ne[1] % (K + 4) = 0
                ELSE K = x.ne[1] /\ x.ne[3] = 1 /\ x.ne[4] = 1 /\ DenseRows(x)
             /\ (Has(gate) => gate.ty = "f32" /\ gate.ne[1] = q.w.ne[2])
             /\ (Has(res) => res.ne[1] = q.w.ne[2] /\ Rows(res) = M)
             /\ (q.bits = 4 => K % q.group = 0),
             T(ty, D2(q.w.ne[2], M), QlinearV(q.w.val, x.val, bias.val, gate.val, res.val, mode)))

\* Attention over [Kc; Kn]: the cached prefix, then the new keys.
FmhaKv(Q, Kc, Vc, Kn, Vn, scale) ==
    Need(<<Q, Kc, Vc, Kn, Vn>>,
         /\ Kc.ne[1] = Q.ne[1] /\ Kn.ne[1] = Q.ne[1] /\ Kc.ne[3] = Kn.ne[3] /\ Q.ne[3] % Kc.ne[3] = 0
         /\ Kc.ne = Vc.ne /\ Kn.ne = Vn.ne /\ DenseRows(Q),
         T("f32", D3(Q.ne[1], Q.ne[3], Q.ne[2]),
           VAttn(Q.val, <<"concat", Kc.val, Kn.val>>, <<"concat", Vc.val, Vn.val>>, Null.val, scale)))
=============================================================================
