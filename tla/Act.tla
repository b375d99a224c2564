---------------------------------- MODULE Act ----------------------------------
(***************************************************************************)
(* ACT (src/src/models/act.cpp): a ResNet over the views, and an encoder   *)
(* and a decoder over its feature map.  `c` is as in Gr00t.                *)
(***************************************************************************)
EXTENDS Arch

\* --weight-dtype, or the architecture's own default.
WeightType(o, default) == IF o.weight_dtype = "none" THEN default ELSE o.weight_dtype
\* Convolutions keep F16 kernels where CUDA has tensor cores for them.
ConvDirect(o) == o.backend = "cuda" /\ o.conv_mma /\ o.weight_dtype # "f32"
ActO(o) == [o EXCEPT !.gemm = WeightType(o, "f32")] @@ [conv |-> IF ConvDirect(o) THEN "f16" ELSE "f32"]

ActConfigOk(g) ==
    /\ g.state >= 0 /\ g.dim % g.heads = 0 /\ g.dim % 4 = 0 /\ Len(g.blocks) = 4
    /\ \A n \in {g.dim, g.heads, g.ff, g.chunk, g.action, g.views} : n >= 1
    /\ \A i \in DOMAIN g.blocks : g.blocks[i] >= 1
N1d(g) == IF g.state > 0 THEN 2 ELSE 1
\* The weights' shapes and the host tables' lengths against the metadata.
ActLoadOk(g) ==
    /\ ActConfigOk(g)
    /\ g.proj_in = g.channels[4] /\ g.proj_out = g.dim
    /\ g.pos_rows = N1d(g) /\ g.image_stats = 3 * g.views /\ g.state_stats = g.state /\ g.action_stats = g.action

---------------------------------------------------------------------------
(* The backbone. *)

Down2(n, k, pad) == (n + 2 * pad - k) \div 2 + 1
FeatureSize(n)   == FoldLeft(LAMBDA m, i : Down2(m, 3, 1), Down2(Down2(n, 7, 3), 3, 1), <<2, 3, 4>>)

\* Zeros past the end of both operands add nothing to a product.
Padded2(t, n, k)  == Need(<<t>>, DenseRows(t), T(t.ty, D2(n, k), t.val))
Conv2dPadded(o, w, x, stride, pad) ==
    LET col == Im2col(w, x, stride, pad)
        K == col.ne[1]
        R == Rows(col)
        y == MulMat(Padded2(Reshape(col, D2(K, R)), GemmWidth(o, K), GemmWidth(o, R)),
                    Padded2(Reshape(w, D2(K, w.ne[4])), GemmWidth(o, K), w.ne[4]))
        z == Cont(Slice([y EXCEPT !.val = VMm(w.val, col.val)], 0, 0, R))
    IN  [Reshape(z, D4(col.ne[2], col.ne[3], w.ne[4], 1)) EXCEPT !.val = VMm(w.val, col.val)]
PadsNothing(o, w, x, stride, pad) ==
    LET col == Im2col(w, x, stride, pad)
    IN  x.ne[4] # 1 \/ (GemmWidth(o, col.ne[1]) = col.ne[1] /\ GemmWidth(o, Rows(col)) = Rows(col))
Conv2dDirect(w, x, stride, pad) ==
    LET col == Im2col(w, x, stride, pad)
    IN  Need(<<w, x>>, ~IsBad(col), T("f32", D4(col.ne[2], col.ne[3], w.ne[4], x.ne[4]), VMm(w.val, col.val)))
ActConv(o, n, k, cin, cout, x, stride, pad) ==
    LET w == Weight(<<"bb", n>>, o.conv, D4(k, k, cin, cout))
        y == IF w.ty = "f16" THEN Conv2dDirect(w, x, stride, pad)
             ELSE IF PadsNothing(o, w, x, stride, pad) THEN Conv2dF32(w, x, stride, pad) ELSE Conv2dPadded(o, w, x, stride, pad)
    IN  Add(y, Reshape(F32W("bb", n \o ".b", cout), D4(1, 1, cout, 1)))

MaxPool(x, k, s, p) ==
    Need(<<x>>, Contig(x), T("f32", D4((x.ne[1] + 2 * p - k) \div s + 1, (x.ne[2] + 2 * p - k) \div s + 1, x.ne[3], x.ne[4]),
                             <<"max_pool", x.val, k, s, p>>))
\* The opening block of a stage, which alone may stride or change the width.
ActRes(o, g, i, x) ==
    LET cin == x.ne[3]
        out == g.channels[i]
        s   == IF i = 1 THEN 1 ELSE 2
        p   == "layer" \o ToString(i)
        y   == Relu(ActConv(o, p \o ".conv1", 3, cin, out, x, s, 1))
    IN  Relu(Add(ActConv(o, p \o ".conv2", 3, out, out, y, 1, 1),
                 IF cin # out THEN ActConv(o, p \o ".down", 1, cin, out, x, s, 0) ELSE x))
Backbone(o, g, px) ==
    LET stem == Relu(MaxPool(ActConv(o, "conv1", 7, 3, g.channels[1], px, 2, 3), 3, 2, 1))
        next(xs, i) == Append(xs, ActRes(o, g, i, Named(xs[i], <<"map", i>>)))
    IN  FoldLeft(next, <<stem>>, <<1, 2, 3, 4>>)

---------------------------------------------------------------------------
(* Attention of [dim, T] rows. *)

ActLin(o, p, n, K, N, x) == Linear(o, GemmW(o, p, n, K, N), F32W(p, n \o ".b", N), x)
Mha(o, q, k, v, hd, heads) ==
    LET view(t) == Permute(Reshape(Cont(t), D3(hd, heads, t.ne[2])), <<0, 2, 1, 3>>)
        h(t)    == ToHeads(Cont(t), hd, heads, t.ne[2], 1)
    IN  IF o.flash THEN FlashAttention(view(q), view(k), view(v), Null, hd)
        ELSE Reshape(Attention(h(q), h(k), ToHeadsV(Cont(v), hd, heads, v.ne[2], 1), Null, hd, hd * heads, q.ne[2], 1),
                     D2(hd * heads, q.ne[2]))
ActSelfAttn(o, g, p, x, pos) ==
    LET W(n) == GemmW(o, p, n, g.dim, g.dim)
        b(n) == F32W(p, n \o ".b", g.dim)
        qk   == Linear(o, Fuse(<<W("q"), W("k")>>), Fuse(<<b("q"), b("k")>>), Add(x, pos))
    IN  ActLin(o, p, "o", g.dim, g.dim,
               Mha(o, RowPart(qk, 2, 0), RowPart(qk, 2, 1), ActLin(o, p, "v", g.dim, g.dim, x), g.dim \div g.heads, g.heads))
ActCrossAttn(o, g, p, x, x_pos, m, m_pos) ==
    LET lin(n, t) == ActLin(o, p, "cross_" \o n, g.dim, g.dim, t)
    IN  lin("o", Mha(o, lin("q", Add(x, x_pos)), lin("k", Add(m, m_pos)), lin("v", m), g.dim \div g.heads, g.heads))

ActLn(g, p, n, x) == LayerNorm(x, F32W(p, n \o ".w", g.dim), F32W(p, n \o ".b", g.dim), "ln_eps")
ActFfn(o, g, p, x) ==
    LET W1 == GemmW(o, p, "fc1", g.dim, g.ff)
        W2 == GemmW(o, p, "fc2", g.ff, g.dim)
        b1 == F32W(p, "fc1.b", g.ff)
        b2 == F32W(p, "fc2.b", g.dim)
    IN  IF g.gelu THEN FfnGeluErf(o, W1, b1, W2, b2, x) ELSE FfnRelu(o, W1, b1, W2, b2, x)
\* A sublayer f, normed before or after.
Sublayer(g, p, n, x, f(_)) == IF g.pre_norm THEN Add(x, f(ActLn(g, p, n, x))) ELSE ActLn(g, p, n, Add(x, f(x)))
ActEncLayer(o, g, x, pos) ==
    LET x1 == Sublayer(g, "enc", "ln1", x, LAMBDA n : ActSelfAttn(o, g, "enc", n, pos))
    IN  Sublayer(g, "enc", "ln2", x1, LAMBDA n : ActFfn(o, g, "enc", n))
ActDecLayer(o, g, a, pos, m, m_pos) ==
    LET a1 == Sublayer(g, "dec", "ln1", a, LAMBDA n : ActSelfAttn(o, g, "dec", n, pos))
        a2 == Sublayer(g, "dec", "ln2", Named(a1, <<"a1">>), LAMBDA n : ActCrossAttn(o, g, "dec", n, pos, m, m_pos))
    IN  <<a1, Sublayer(g, "dec", "ln3", Named(a2, <<"a2">>), LAMBDA n : ActFfn(o, g, "dec", n)), a2>>

---------------------------------------------------------------------------
\* Learned rows for the latent and the state, and the grid's, the same for every view.
EncPos(g, fh, fw) ==
    {<<0, g.dim * N1d(g), <<"learned">>>>}
    \cup {<<g.dim * (N1d(g) + (v - 1) * fh * fw), g.dim * fh * fw, <<"grid", fh, fw>>>> : v \in 1..g.views}
ActMain(c, r) ==
    LET g == c.g
        o == ActO(c.o)
        h == r.views[1].h
        w == r.views[1].w
        NF == FeatureSize(h) * FeatureSize(w)
        T0 == N1d(g) + g.views * NF
        px == Input("pixels", "f32", D4(w, h, 3, g.views))
        ep == In2("enc_pos", g.dim, T0)
        st == IF g.state > 0 THEN [state |-> In1("state", g.state)] ELSE <<>>
        ins == [pixels |-> px, enc_pos |-> ep] @@ st
        maps == Backbone(o, g, px)
        x  == Named(maps[5], <<"map">>)
        f  == Cont(Permute(Reshape(x, D3(NF, x.ne[3], g.views)), <<1, 0, 2, 3>>))
        img == ActLin(o, "img", "proj", g.proj_in, g.dim, Reshape(f, D2(x.ne[3], NF * g.views)))
        lat == Reshape(F32W("act", "latent", g.dim), D2(g.dim, 1))
        own == IF g.state > 0 THEN Concat(lat, Reshape(ActLin(o, "state", "proj", g.state, g.dim, st.state), D2(g.dim, 1)), 1) ELSE lat
        tok == Concat(own, img, 1)
        enc == ActEncLayer(o, g, Named(tok, <<"tok">>), ep)
        m   == IF g.pre_norm THEN ActLn(g, "enc", "norm", Named(enc, <<"enc">>)) ELSE Named(enc, <<"enc">>)
        pos == Weight(<<"dec", "pos">>, "f32", D2(g.dim, g.chunk))
        dec == ActDecLayer(o, g, Scale(pos, "0"), pos, Named(m, <<"mem">>), ep)
        out == ActLin(o, "head", "head", g.dim, g.action, ActLn(g, "dec", "norm", Named(dec[2], <<"dec">>)))
    IN  [Blank EXCEPT
            !.cache = "graph", !.key = <<h, w>>, !.ins = ins, !.consts = {"enc_pos"}, !.kept = {"enc_pos"},
            !.fills = [pixels |-> Whole(px, <<"views", r.name>>), enc_pos |-> EncPos(g, FeatureSize(h), FeatureSize(w))]
                      @@ [n \in DOMAIN st |-> Whole(st[n], StateOf(r))],
            !.parts = [stem |-> maps[1], map1 |-> maps[2], map2 |-> maps[3], map3 |-> maps[4], map4 |-> maps[5], tok |-> tok, enc |-> enc, mem |-> m,
                       dec1 |-> dec[1], dec2 |-> dec[3], dec3 |-> dec[2], out |-> out],
            !.out = out, !.read = g.chunk * g.action]

\* Every view of the first one's size.
ActAccepts(g, r) ==
    /\ r.pre = 0 /\ Len(r.views) = g.views
    /\ \A v \in DOMAIN r.views :
          r.views[v].data /\ r.views[v].w = r.views[1].w /\ r.views[v].h = r.views[1].h /\ r.views[1].w >= 32 /\ r.views[1].h >= 32
    /\ g.state > 0 => r.state
ActPolicySteps(c, r) == IF ActAccepts(c.g, r) THEN <<ActMain(c, r)>> ELSE <<Refusal>>
=============================================================================
