------------------------------- MODULE Tensor -------------------------------
(***************************************************************************)
(* ggml tensors and graph constructors, as the code under src/ uses them.  *)
(*                                                                         *)
(* A tensor is its element type, its four extents, how its memory lies     *)
(* ("full": contiguous; "rows": a strided view with dense rows; "perm": a  *)
(* transposed view), and `val`, the term it computes.  A constructor whose *)
(* assertion fails gives Bad, and whatever is built from Bad is Bad.       *)
(*                                                                         *)
(* `val` speaks of the function over the reals: layout and precision       *)
(* (permute, reshape, cont, cast, quantised codes) leave it alone; sums    *)
(* and products are sets of terms, a product with a concatenation of       *)
(* weights is the concatenation of the products, and attention is one      *)
(* term whichever operator computes it.                                    *)
(***************************************************************************)
EXTENDS Integers, Sequences, FiniteSets

T(ty, ne, val) == [ty |-> ty, ne |-> ne, st |-> "full", val |-> val]
D1(a)          == <<a, 1, 1, 1>>
D2(a, b)       == <<a, b, 1, 1>>
D3(a, b, c)    == <<a, b, c, 1>>
D4(a, b, c, d) == <<a, b, c, d>>

Bad  == T("bad", D1(1), <<"bad">>)
Null == T("null", D1(1), <<"null">>)
Has(t)      == t.ty # "null"
IsBad(t)    == t.ty = "bad"
Elems(t)    == t.ne[1] * t.ne[2] * t.ne[3] * t.ne[4]
Rows(t)     == t.ne[2] * t.ne[3] * t.ne[4]
Contig(t)   == t.st = "full"
DenseRows(t) == t.st # "perm"

\* The result of a constructor over operands ts whose assertion is ok.
Need(ts, ok, r) == IF (\A i \in DOMAIN ts : ~IsBad(ts[i])) /\ ok THEN r ELSE Bad

Input(name, ty, ne)  == T(ty, ne, <<"in", name>>)
Weight(name, ty, ne) == T(ty, ne, <<"w", name>>)

---------------------------------------------------------------------------
(* Terms. *)

Terms(op, v) == IF v[1] = op THEN v[2] ELSE {v}
Sum(S)       == IF Cardinality(S) = 1 THEN CHOOSE v \in S : TRUE ELSE <<"add", S>>
VCat(vs)     == <<"cat", vs>>
One == <<"one">>
Product1(x, y) ==
    LET f == Terms("mul", x) \cup Terms("mul", y)
        g == f \ {One}
    IN  IF One \in f /\ Cardinality(g) = 1 THEN CHOOSE v \in g : TRUE ELSE <<"mul", g>>
Product(a, b) == Sum({Product1(x, y) : x \in Terms("add", a), y \in Terms("add", b)})
\* An elementwise operation on two concatenations acts on their parts.
Partwise(a, b, F(_, _)) ==
    IF a[1] = "cat" /\ b[1] = "cat" /\ Len(a[2]) = Len(b[2])
    THEN VCat([i \in DOMAIN a[2] |-> F(a[2][i], b[2][i])])
    ELSE F(a, b)
VAdd(a, b)  == Partwise(a, b, LAMBDA x, y : Sum(Terms("add", x) \cup Terms("add", y)))
VMul(a, b)  == Partwise(a, b, Product)
\* A weight whose rows were scaled by ls scales the product.
\* One number per row, which a product of the rows leaves where it is.
RowGain(name) == <<"gain", name>>
GainsOf(x)  == {f \in Terms("mul", x) : f[1] = "gain"}
VMm1(w, x)  ==
    IF GainsOf(x) # {} THEN Product(<<"mm", w, Product(<<"mul", Terms("mul", x) \ GainsOf(x)>>, One)>>, <<"mul", GainsOf(x)>>)
    ELSE IF w[1] = "scaled" THEN VMul(<<"mm", w[2], x>>, w[3]) ELSE <<"mm", w, x>>
VMm(w, x)   == IF w[1] = "cat" THEN VCat([i \in DOMAIN w[2] |-> VMm1(w[2][i], x)]) ELSE VMm1(w, x)
VPart(v, i) == IF v[1] = "cat" /\ i \in DOMAIN v[2] THEN v[2][i] ELSE <<"part", v, i>>
VFn(f, x)   == <<f, x>>
VNorm(f, x, eps) == <<f, x, eps>>
VRope(x, pos, spec) == <<"rope", x, pos, spec>>
VAttn(q, k, v, mask, scale) == <<"attn", q, k, v, mask, scale>>
VSlice(v, from, n) == <<"slice", v, from, n>>
\* x [hd, ...] rotated half against half by tables.
VRope2d(x, c, s, hd) ==
    LET rot == <<"concat", <<"neg", VSlice(x, hd \div 2, hd \div 2)>>, VSlice(x, 0, hd \div 2)>>
    IN  VAdd(VMul(x, c), VMul(rot, s))

---------------------------------------------------------------------------
(* Constructors. *)

Repeats(b, a) == \A i \in 1..4 : a.ne[i] % b.ne[i] = 0

New(t, ty, val) == T(ty, t.ne, val)
Map1(f, a) == Need(<<a>>, DenseRows(a), New(a, a.ty, VFn(f, a.val)))
Add(a, b)  == Need(<<a, b>>, Repeats(b, a) /\ DenseRows(a) /\ DenseRows(b),
                   New(a, a.ty, VAdd(a.val, b.val)))
Mul(a, b)  == Need(<<a, b>>, Repeats(b, a) /\ DenseRows(a) /\ DenseRows(b),
                   New(a, a.ty, VMul(a.val, b.val)))
Scale(a, c) == Need(<<a>>, DenseRows(a), New(a, a.ty, <<"scale", a.val, c>>))
NormOp(f, a, eps) == Need(<<a>>, DenseRows(a), New(a, a.ty, VNorm(f, a.val, eps)))
Norm(a, eps)      == NormOp("norm", a, eps)
RmsNorm(a, eps)   == NormOp("rms", a, eps)
Gelu(a)    == Map1("gelu", a)
GeluErf(a) == Map1("gelu_erf", a)
Silu(a)    == Map1("silu", a)
Relu(a)    == Map1("relu", a)
Tanh(a)    == Map1("tanh", a)
Neg(a)     == Map1("neg", a)
\* A copy in another type, or dense: the term stays.
Cast(a, ty) == Need(<<a>>, TRUE, T(ty, a.ne, a.val))
Cont(a)     == Cast(a, a.ty)

CanMulMat(a, b) ==
    /\ a.ne[1] = b.ne[1]
    /\ b.ne[3] % a.ne[3] = 0 /\ b.ne[4] % a.ne[4] = 0
    /\ DenseRows(a) /\ DenseRows(b)
MulMatT(a, b, ty) ==
    Need(<<a, b>>, CanMulMat(a, b) /\ b.ty # "i8",
         T(ty, D4(a.ne[2], b.ne[2], b.ne[3], b.ne[4]), VMm(a.val, b.val)))
MulMat(a, b) == MulMatT(a, b, "f32")

Reshape(a, ne) ==
    Need(<<a>>, Contig(a) /\ ne[1] * ne[2] * ne[3] * ne[4] = Elems(a), T(a.ty, ne, a.val))
\* Axis i of a becomes axis ax[i] (from 0) of the result.
Permute(a, ax) ==
    Need(<<a>>, TRUE,
         [a EXCEPT !.ne = [j \in 1..4 |-> a.ne[CHOOSE i \in 1..4 : ax[i] = j - 1]],
                   !.st = IF ax = <<0, 1, 2, 3>> THEN a.st
                          ELSE IF ax[1] = 0 THEN "rows" ELSE "perm"])
Transpose(a) == Permute(a, <<1, 0, 2, 3>>)
\* A window of a: extents ne, every element inside a (fits), the term v.
Window(a, ne, st, fits, v) ==
    Need(<<a>>, fits, [T(a.ty, ne, v) EXCEPT !.st = st])
\* Part p (from 0) of the n equal parts of a's rows, still [width, rows].
RowPart(a, n, p) ==
    Window(a, [a.ne EXCEPT ![1] = a.ne[1] \div n], "rows",
           a.ne[1] % n = 0 /\ p < n /\ DenseRows(a), VPart(a.val, p + 1))
\* n columns along axis d (from 0), starting at `from`.
Slice(a, d, from, n) ==
    Window(a, [a.ne EXCEPT ![d + 1] = n],
           IF Contig(a) /\ \A j \in (d + 2)..4 : a.ne[j] = 1 THEN "full"
           ELSE IF DenseRows(a) THEN "rows" ELSE "perm",
           from + n <= a.ne[d + 1], IF from = 0 /\ n = a.ne[d + 1] THEN a.val ELSE VSlice(a.val, from, n))
Concat(a, b, d) ==
    Need(<<a, b>>, a.ty = b.ty /\ \A i \in (1..4) \ {d + 1} : a.ne[i] = b.ne[i],
         T(a.ty, [a.ne EXCEPT ![d + 1] = @ + b.ne[d + 1]], <<"concat", a.val, b.val>>))
\* Two batches of like views, one after the other.
ConcatViews(a, b, d) ==
    LET y == Concat(a, b, d) IN IF a.val = b.val /\ ~IsBad(y) THEN [y EXCEPT !.val = a.val] ELSE y
\* n rows from row `from` of the view v, each view `per` rows of t [width, per*views].
ViewRows(t, per, v, from, n) ==
    Window(t, D2(t.ne[1], n), t.st, from + n <= per /\ (v + 1) * per <= t.ne[2],
           IF from = 0 /\ n = per THEN t.val ELSE VSlice(t.val, from, n))
Repeat(a, ne) == Need(<<a>>, \A i \in 1..4 : ne[i] % a.ne[i] = 0, T(a.ty, ne, a.val))
GetRows(a, idx) ==
    Need(<<a, idx>>, a.ne[3] = idx.ne[2] /\ idx.ty = "i32",
         T("f32", D4(a.ne[1], idx.ne[1], idx.ne[2], idx.ne[3]), <<"rows", a.val, idx.val>>))

SoftMaxExt(a, mask, scale) ==
    Need(<<a, mask>>,
         Contig(a) /\ (Has(mask) => /\ mask.ty \in {"f16", "f32"} /\ Contig(mask)
                                    /\ mask.ne[1] = a.ne[1] /\ mask.ne[2] >= a.ne[2]
                                    /\ a.ne[3] % mask.ne[3] = 0 /\ a.ne[4] % mask.ne[4] = 0),
         New(a, "f32", <<"softmax", a.val, mask.val, scale>>))
\* softmax(scale K^T Q + mask) V: the product of V with the softmax of a score.
MulV(v, p) ==
    LET y == MulMat(v, p)
    IN  IF p.val[1] = "softmax" /\ p.val[2][1] = "mm"
        THEN [y EXCEPT !.val = VAttn(p.val[2][3], p.val[2][2], v.val, p.val[3], p.val[4])]
        ELSE y
FlashAttnExt(q, k, v, mask, scale) ==
    Need(<<q, k, v, mask>>,
         /\ {q.ty, k.ty, v.ty} \subseteq {"f32", "f16", "bf16"}
         /\ CanMulMat(k, q) /\ DenseRows(v)
         /\ k.ne[2] = v.ne[2] /\ q.ne[3] % k.ne[3] = 0 /\ k.ne[3] = v.ne[3]
         /\ q.ne[4] = k.ne[4] /\ q.ne[4] = v.ne[4]
         /\ (Has(mask) => mask.ty = "f16" /\ Contig(mask)
                          /\ mask.ne[1] = k.ne[2] /\ mask.ne[2] >= q.ne[2]),
         T("f32", D4(v.ne[1], q.ne[3], q.ne[2], q.ne[4]),
           VAttn(q.val, k.val, v.val, mask.val, scale)))

\* x is [hd, heads, tokens]; a position per token, four with sections.
RopeExt(x, pos, spec) ==
    Need(<<x, pos>>, pos.ty = "i32" /\ DenseRows(x) /\ pos.ne[1] = x.ne[3] * (IF spec.multi THEN 4 ELSE 1)
                     /\ spec.n_dims <= x.ne[1],
         New(x, x.ty, VRope(x.val, pos.val, spec)))

Im2col(w, x, stride, pad) ==
    LET out(n, k) == (n + 2 * pad - k) \div stride + 1
    IN  Need(<<w, x>>, w.ne[3] = x.ne[3] /\ x.ne[1] + 2 * pad >= w.ne[1] /\ x.ne[2] + 2 * pad >= w.ne[2],
             T("f32", D4(w.ne[1] * w.ne[2] * w.ne[3], out(x.ne[1], w.ne[1]), out(x.ne[2], w.ne[2]), x.ne[4]),
               <<"im2col", x.val, <<w.ne[1], stride, pad>>>>))
=============================================================================
