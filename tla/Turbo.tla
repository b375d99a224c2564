--------------------------------- MODULE Turbo ---------------------------------
(***************************************************************************)
(* TurboVLA (src/src/models/turbovla.cpp): DINOv3, BERT over an instruction *)
(* whose rows are kept from call to call, their fusion, and a decoder.     *)
(***************************************************************************)
EXTENDS Arch

\* fusion_head_dim replaces the default width's share.
FusionDim(g) == g.fusion_heads * (IF g.fusion_hd > 0 THEN g.fusion_hd ELSE 1024 \div g.fusion_heads)
TextGroupOk(g, t) == t.ids # <<>> /\ t.pad_to >= Len(t.ids) /\ t.pad_to <= g.text_max
TurboConfigOk(g) ==
    /\ \A n \in {g.hidden, g.views, g.image, g.patch, g.vit, g.vit_heads, g.bert, g.bert_heads, g.vocab, g.fusion_heads,
                 g.enh_heads, g.dec_heads, g.horizon, g.action, g.state, g.state_tok, g.text_max} : n >= 1
    /\ g.image <= 4096 /\ FusionDim(g) >= 1 /\ g.image % g.patch = 0
    /\ g.vit % g.vit_heads = 0 /\ (g.vit \div g.vit_heads) % 4 = 0 /\ g.bert % g.bert_heads = 0
    /\ g.hidden % g.enh_heads = 0 /\ g.hidden % g.dec_heads = 0
    /\ g.has_groups /\ \A i \in DOMAIN g.groups : TextGroupOk(g, g.groups[i])
\* The weights' shapes against the metadata.
TurboLoadOk(g) ==
    /\ TurboConfigOk(g) /\ g.vit_norm
    /\ g.word_rows = g.vocab /\ g.text_max <= g.max_pos /\ g.patch_in = 3 * g.patch * g.patch /\ g.reg_rows = g.reg
    /\ g.view_elems = g.hidden * g.views /\ g.query_rows = g.horizon /\ g.cross_rows = 3 * g.hidden

TurboO(o) ==
    [o EXCEPT !.gemm = IF o.weight_dtype # "none" THEN o.weight_dtype ELSE IF o.backend = "sycl" THEN "f16" ELSE "f32",
              !.flash = o.flash \/ (o.backend = "sycl" /\ o.fa_views)]
NPatches(g) == (g.image \div g.patch) * (g.image \div g.patch)
VitSeq(g)   == 1 + g.reg + NPatches(g)

---------------------------------------------------------------------------
(* The instruction. *)

PadId == "pad"
Special == {"cls", "sep", ".", "?"}
TextLen(g, ids) ==
    IF ids[Len(ids)] = PadId THEN Len(ids)
    ELSE IF \E i \in DOMAIN g.groups : g.groups[i].ids = ids
    THEN g.groups[CHOOSE i \in DOMAIN g.groups :
                     g.groups[i].ids = ids /\ \A j \in 1..i - 1 : g.groups[j].ids # ids].pad_to
    ELSE g.text_max
TextIds(g, r) == [i \in 1..TextLen(g, r.lang) |-> IF i <= Len(r.lang) THEN r.lang[i] ELSE PadId]

\* Special tokens close sub-sentences; one at either end closes none.
SpecialAt(ids) == {i \in DOMAIN ids : ids[i] \in Special}
\* The sub-sentence that column c closes: what follows the special token before it, or the first token.
Block(ids, c) == {i \in DOMAIN ids : i <= c /\ i > 1 /\ \A d \in SpecialAt(ids) : d < c => i > d}
Blocks(ids)   == {Block(ids, c) : c \in SpecialAt(ids) \ {1, Len(ids)}}
Allowed(ids)  == {p \in (DOMAIN ids) \X (DOMAIN ids) : p[1] = p[2] \/ \E B \in Blocks(ids) : {p[1], p[2]} \subseteq B}
Place(ids, i) == Cardinality({j \in DOMAIN ids : j < i /\ \E B \in Blocks(ids) : {i, j} \subseteq B})
\* Rows past the instruction's own see themselves.
EnhancerSees(g, ids) == Allowed(ids) \cup {<<i, i>> : i \in Len(ids) + 1..g.text_max}
RealTokens(ids)      == {i \in DOMAIN ids : ids[i] # PadId}

---------------------------------------------------------------------------
(* Attention. *)

SplitHeads(p, hd, heads, n, nv, part) ==
    Window(p, D4(hd, heads, n, nv), "rows",
           (part + 1) * hd * heads <= p.ne[1] /\ Elems(p) = p.ne[1] * n * nv, VPart(p.val, part + 1))
QkHeads(p, hd, heads, n, nv, part) == Cont(Permute(SplitHeads(p, hd, heads, n, nv, part), <<0, 2, 1, 3>>))
VHeads(p, hd, heads, n, nv, part)  == Cont(Permute(SplitHeads(p, hd, heads, n, nv, part), <<1, 2, 0, 3>>))
SelfAttention(qkv, mask, hd, heads, n, nv) ==
    Attention(QkHeads(qkv, hd, heads, n, nv, 0), QkHeads(qkv, hd, heads, n, nv, 1), VHeads(qkv, hd, heads, n, nv, 2),
              mask, hd, hd * heads, n, nv)
\* Identity rows for the class and register tokens; the sign of rotate_half is in the table.
RopeCos(hd, seq)    == Weight(<<"rope", "cos">>, "f32", D3(hd, 1, seq))
RopeSinAbs(hd, seq) == Weight(<<"rope", "sin">>, "f32", D2(hd, seq))
RopeSin(hd, seq)    == [RopeSinAbs(hd, seq) EXCEPT !.ne = D3(hd, 1, seq), !.val = <<"half negated", @>>]
RopeHeads(x, c, s) ==
    LET half == x.ne[1] \div 2
        y == Add(Mul(x, c), Mul(Concat(Slice(x, 0, half, half), Slice(x, 0, 0, half), 0), s))
    IN  IF s.val[1] = "half negated" /\ ~IsBad(y) THEN [y EXCEPT !.val = VRope2d(x.val, c.val, s.val[2], x.ne[1])] ELSE y
VitAttention(qkv, hd, heads, n, nv, flash) ==
    LET turn(i) == RopeHeads(SplitHeads(qkv, hd, heads, n, nv, i), RopeCos(hd, n), RopeSin(hd, n))
        rows(t) == Permute(t, <<0, 2, 1, 3>>)
        v == SplitHeads(qkv, hd, heads, n, nv, 2)
    IN  IF flash THEN FlashAttention(rows(turn(0)), rows(turn(1)), rows(v), Null, hd)
        ELSE Attention(Cont(rows(turn(0))), Cont(rows(turn(1))), Cont(Permute(v, <<1, 2, 0, 3>>)), Null, hd, hd * heads, n, nv)

---------------------------------------------------------------------------
(* The graphs. *)

TurboLin(o, p, n, K, N, x) == Linear(o, GemmW(o, p, n, K, N), F32W(p, n \o ".b", N), x)
FusedW(o, p, ns, K, N)     == Fuse([i \in DOMAIN ns |-> GemmW(o, p, ns[i], K, N)])
FusedB(p, ns, N)           == Fuse([i \in DOMAIN ns |-> F32W(p, ns[i] \o ".b", N)])
TurboFfn(o, p, K, F, x) ==
    FfnGeluErf(o, GemmW(o, p, "fc1", K, F), F32W(p, "fc1.b", F), GemmW(o, p, "fc2", F, K), F32W(p, "fc2.b", K), x)
LnOf(p, n, x, eps) == LayerNorm(x, F32W(p, n \o ".w", x.ne[1]), F32W(p, n \o ".b", x.ne[1]), eps)

BertLayer(o, g, t, mask, n) ==
    LET qkv == Linear(o, FusedW(o, "bert", <<"q", "k", "v">>, g.bert, g.bert), FusedB("bert", <<"q", "k", "v">>, g.bert), t)
        att == SelfAttention(qkv, mask, g.bert \div g.bert_heads, g.bert_heads, n, 1)
        t1  == LnOf("bert", "ln1", Add(t, TurboLin(o, "bert", "o", g.bert, g.bert, att)), "bert_eps")
    IN  LnOf("bert", "ln2", Add(t1, TurboFfn(o, "bert", g.bert, 4 * g.bert, t1)), "bert_eps")
\* Rows past the instruction's are zeros, of which the projection leaves its bias.
TextStep(c, r) ==
    LET g   == c.g
        o   == TurboO(c.o)
        ids == TextIds(g, r)
        n   == Len(ids)
        ins == [ids |-> Ids("ids", n), pos |-> Ids("pos", n), bert_mask |-> In2("bert_mask", n, n)]
        emb == Add(GetRows(Weight(<<"text", "words">>, "f32", D2(g.bert, g.vocab)), ins.ids),
                   GetRows(Weight(<<"text", "places">>, "f32", D2(g.bert, g.max_pos)), ins.pos))
        t   == LnOf("text", "ln", Add(emb, F32W("text", "type 0", g.bert)), "bert_eps")
        own == TurboLin(o, "text", "proj", g.bert, g.hidden, BertLayer(o, g, Named(t, <<"t">>), ins.bert_mask, n))
        lang == IF n < g.text_max
                THEN Concat(Reshape(own, D2(g.hidden, n)), Repeat(F32W("text", "proj.b", g.hidden), D2(g.hidden, g.text_max - n)), 1)
                ELSE own
        sees == <<"sees", EnhancerSees(g, ids)>>
        real == <<"real", RealTokens(ids)>>
        VS   == g.views * NPatches(g)
    IN  [Blank EXCEPT
            !.cache = "text", !.key = <<n>>, !.ins = ins,
            !.fills = Filled(ins, [ids |-> <<"ids", ids>>, pos |-> <<"places", [i \in DOMAIN ids |-> Place(ids, i)]>>,
                                   bert_mask |-> <<"sees", Allowed(ids)>>]),
            !.parts = [emb |-> t, lang |-> lang], !.out = lang, !.read = g.hidden * g.text_max,
            !.memo = <<"text_ids", ids>>, !.forgets = {"text_ids"}, !.learns = [text_ids |-> [key |-> ids, value |-> "lang"]],
            !.sends = {<<"main", "enh_mask", 0, g.text_max * g.text_max, sees>>,
                       <<"main", "fus_mask", 0, g.text_max * VS, real>>},
            !.copies = {<<"main", "lang", 0, g.hidden * g.text_max, <<"lang", ids>>>>}]

\* One DINOv3 layer; CUDA's nodes take it where flash attention is off.
DinoLayer(o, g, x, S) ==
    LET hd  == g.vit \div g.vit_heads
        W   == FusedW(o, "vit", <<"q", "k", "v">>, g.vit, g.vit)
        b   == FusedB("vit", <<"q", "k", "v">>, g.vit)
        qkv == Linear(o, W, b, LnOf("vit", "ln1", x, "ln_eps"))
        x1  == Add(x, TurboLin(o, "vit", "o", g.vit, g.vit, VitAttention(qkv, hd, g.vit_heads, S, g.views, o.flash)))
    IN  Add(x1, TurboFfn(o, "vit", g.vit, 4 * g.vit, LnOf("vit", "ln2", x1, "ln_eps")))
DinoLayerFused(o, g, x, S) ==
    LET hd  == g.vit \div g.vit_heads
        W(n, K, N) == GemmW(o, "vit", n, K, N)
        b(n, N) == F32W("vit", n, N)
        ln(n, t) == FusedLn(t, b(n \o ".w", g.vit), b(n \o ".b", g.vit), "ln_eps", FALSE, FALSE)
        mm  == MulMat(FusedW(o, "vit", <<"q", "k", "v">>, g.vit, g.vit), ln("ln1", x))
        qkv == FusedQkvHeads(mm, FusedB("vit", <<"q", "k", "v">>, g.vit), Reshape(RopeCos(hd, S), D2(hd, S)), RopeSinAbs(hd, S),
                             3, hd, g.vit_heads, S, g.views, {2}, {0, 1}, <<0, 1, 2>>, FALSE)
        part(i) == FusedPart(qkv, i, i = 2, hd, g.vit_heads, S, g.views)
        att == AttentionRowsExact(o, part(0), part(1), part(2), hd, g.vit, S, g.views, FALSE)
        x1  == FusedBiasRes(MulMat(W("o", g.vit, g.vit), Reshape(att, D3(g.vit, S, g.views))), b("o.b", g.vit), x)
        h   == FusedBiasGeluErf(MulMat(W("fc1", g.vit, 4 * g.vit), ln("ln2", x1)), b("fc1.b", 4 * g.vit), FALSE)
    IN  FusedBiasRes(MulMat(W("fc2", 4 * g.vit, g.vit), h), b("fc2.b", g.vit), x1)

\* The epilogues as the main graph emits them.
Ln(o, p, n, x) ==
    IF o.fused THEN FusedLn(x, F32W(p, n \o ".w", x.ne[1]), F32W(p, n \o ".b", x.ne[1]), "ln_eps", FALSE, FALSE)
    ELSE LnOf(p, n, x, "ln_eps")
Res(o, rest, p, n, K, N, x) ==
    IF o.fused THEN FusedBiasRes(MulMat(GemmW(o, p, n, K, N), x), F32W(p, n \o ".b", N), rest)
    ELSE Add(rest, TurboLin(o, p, n, K, N, x))
\* A gated delta on the normed tokens.
Gated(o, n, F, N, delta, normed) ==
    LET b == F32W("fus", "out_" \o n \o ".b", N)
        gamma == F32W("fus", "gamma_" \o n, N)
    IN  IF o.fused THEN FusedBiasGateRes(MulMat(GemmW(o, "fus", "out_" \o n, F, N), delta), b, gamma, normed)
        ELSE Add(normed, Mul(TurboLin(o, "fus", "out_" \o n, F, N, delta), gamma))
\* Both directions of a layer; only the vision side masks padded words.
FusionLayer(o, g, v, lang, fus_mask) ==
    LET F   == FusionDim(g)
        hd  == F \div g.fusion_heads
        VS  == v.ne[2]
        LT  == g.text_max
        vn  == Ln(o, "fus", "norm_v", v)
        ln  == Ln(o, "fus", "norm_l", lang)
        proj(ns, x) == Linear(o, FusedW(o, "fus", ns, g.hidden, F), FusedB("fus", ns, F), x)
        vp  == proj(<<"v_proj", "values_v">>, vn)
        lp  == proj(<<"l_proj", "values_l">>, ln)
        heads(p, n) == QkHeads(p, hd, g.fusion_heads, n, 1, 0)
        values(p, n) == VHeads(p, hd, g.fusion_heads, n, 1, 1)
        dv  == Attention(heads(vp, VS), heads(lp, LT), values(lp, LT), fus_mask, hd, F, VS, 1)
        dl  == Attention(heads(lp, LT), heads(vp, VS), values(vp, VS), Null, hd, F, LT, 1)
    IN  [v |-> Gated(o, "v", F, g.hidden, dv, vn), lang |-> Gated(o, "l", F, g.hidden, dl, ln)]
EnhancerLayer(o, g, lang, mask) ==
    LET att == SelfAttention(TurboLin(o, "enh", "qkv", g.hidden, 3 * g.hidden, lang), mask, g.hidden \div g.enh_heads, g.enh_heads, g.text_max, 1)
        l1  == Ln(o, "enh", "ln1", Res(o, lang, "enh", "o", g.hidden, g.hidden, att))
        F   == 4 * g.hidden
    IN  Ln(o, "enh", "ln2", Res(o, l1, "enh", "fc2", F, g.hidden, Relu(TurboLin(o, "enh", "fc1", g.hidden, F, l1))))
StateTokens(o, g, s) ==
    LET h == Linear(o, GemmW(o, "state", "fc1", g.state, g.hidden), F32W("state", "fc1.b", g.hidden), LnOf("state", "ln", s, "ln_eps"))
        y == Reshape(TurboLin(o, "state", "fc2", g.hidden, g.hidden * g.state_tok, GeluErf(h)), D2(g.hidden, g.state_tok))
        pos == F32W("state", "pos", g.hidden * g.state_tok)
    IN  LnOf("state", "out", Add(y, Reshape(pos, D2(g.hidden, g.state_tok))), "ln_eps")
\* The queries take the Q block of the fused projection, the memory its K and V.
TurboDecLayer(o, g, a, m) ==
    LET hd   == g.hidden \div g.dec_heads
        lin3(n, x) == TurboLin(o, "dec", n, g.hidden, 3 * g.hidden, x)
        a1   == Res(o, a, "dec", "self_o", g.hidden, g.hidden,
                    SelfAttention(lin3("self_qkv", Ln(o, "dec", "ln1", a)), Null, hd, g.dec_heads, g.horizon, 1))
        q    == lin3("cross_qkv", Ln(o, "dec", "ln2", a1))
        kv   == lin3("cross_qkv", m)
        att  == Attention(QkHeads(q, hd, g.dec_heads, g.horizon, 1, 0), QkHeads(kv, hd, g.dec_heads, m.ne[2], 1, 1),
                          VHeads(kv, hd, g.dec_heads, m.ne[2], 1, 2), Null, hd, g.hidden, g.horizon, 1)
        a2   == Res(o, a1, "dec", "cross_o", g.hidden, g.hidden, att)
        F    == 4 * g.hidden
        cut  == Named(a2, <<"crossed">>)
    IN  [a1 |-> a1, a2 |-> a2,
         a3 |-> Res(o, cut, "dec", "fc2", F, g.hidden, Relu(TurboLin(o, "dec", "fc1", g.hidden, F, Ln(o, "dec", "ln3", cut))))]

TurboMain(c, r) ==
    LET g  == c.g
        o  == TurboO(c.o)
        NP == NPatches(g)
        S  == VitSeq(g)
        VS == g.views * NP
        LT == g.text_max
        ids == TextIds(g, r)
        ins == [patches |-> Input("patches", "f32", D3(g.patch_in, NP, g.views)), state |-> In1("state", g.state),
                lang |-> In2("lang", g.hidden, LT), enh_mask |-> In2("enh_mask", LT, LT), fus_mask |-> In2("fus_mask", LT, VS)]
        cls == Reshape(F32W("vit", "cls", g.vit), D2(g.vit, 1))
        prefix == IF g.reg > 0 THEN Concat(cls, Weight(<<"vit", "reg">>, "f32", D2(g.vit, g.reg)), 1) ELSE cls
        x0  == Concat(Repeat(prefix, D3(g.vit, 1 + g.reg, g.views)), TurboLin(o, "vit", "patch", g.patch_in, g.vit, ins.patches), 1)
        in0 == Named(x0, <<"rows">>)
        x1  == IF o.fused /\ ~o.flash THEN DinoLayerFused(o, g, in0, S) ELSE DinoLayer(o, g, in0, S)
        x2  == Reshape(Cont(Slice(Named(x1, <<"vit">>), 1, 1 + g.reg, NP)), D2(g.vit, VS))
        x3  == Ln(o, "vit", "norm", x2)
        mlp == GeluErf(TurboLin(o, "vp", "fc1", g.vit, 4 * g.vit, Ln(o, "vp", "in", x3)))
        v0  == Ln(o, "vp", "out", Res(o, MulMat(GemmW(o, "vp", "skip", g.vit, g.hidden), x3), "vp", "fc2", 4 * g.vit, g.hidden, mlp))
        view == Reshape(F32W("vp", "view_emb", g.hidden * g.views), D3(g.hidden, 1, g.views))
        v1  == Reshape(Add(Reshape(v0, D3(g.hidden, NP, g.views)), view), D2(g.hidden, VS))
        fus == FusionLayer(o, g, Named(v1, <<"v">>), ins.lang, ins.fus_mask)
        enh == EnhancerLayer(o, g, Named(fus.lang, <<"fused lang">>), ins.enh_mask)
        st  == StateTokens(o, g, ins.state)
        m   == Concat(Concat(Named(fus.v, <<"fused v">>), Reshape(Named(enh, <<"enh">>), D2(g.hidden, LT)), 1), Named(st, <<"st">>), 1)
        dec == TurboDecLayer(o, g, Weight(<<"dec", "queries">>, "f32", D2(g.hidden, g.query_rows)), m)
        ap(i, N, x) == TurboLin(o, "act", "ap" \o ToString(i), g.hidden, N, x)
        out == Tanh(ap(2, g.action, Relu(ap(1, g.hidden, Relu(ap(0, g.hidden, Named(dec.a3, <<"a">>)))))))
        given == {<<"lang", 0, g.hidden * LT, <<"lang", ids>>>>, <<"enh_mask", 0, LT * LT, <<"sees", EnhancerSees(g, ids)>>>>,
                  <<"fus_mask", 0, LT * VS, <<"real", RealTokens(ids)>>>>}
    IN  [Blank EXCEPT
            !.cache = "main", !.key = <<Len(ids)>>, !.ins = ins, !.kept = {"lang", "enh_mask", "fus_mask"},
            !.fills = [patches |-> ByView(ins.patches, g.views, r), state |-> Whole(ins.state, StateOf(r))]
                      @@ [n \in {w[1] : w \in given} |-> {<<w[2], w[3], w[4]>> : w \in {w \in given : w[1] = n}}],
            !.given = {<<w[1], <<w[2], w[3], w[4]>>>> : w \in given},
            !.parts = [rows |-> x0, vit |-> x1, v |-> v1, fused_v |-> fus.v, fused_lang |-> fus.lang, enh |-> enh, st |-> st,
                       dec1 |-> dec.a1, dec2 |-> dec.a2, dec3 |-> dec.a3, out |-> out],
            !.out = out, !.read = g.horizon * g.action]

TurboAccepts(g, r) ==
    /\ r.pre = 0 /\ Len(r.views) = g.views /\ ViewsOk(r, g.image)
    /\ Len(r.lang) \in 1..g.text_max /\ InVocab(r)
\* Both graphs first: a new text graph takes the main one, which reads its rows, along.
TurboSteps(c, r) ==
    IF ~TurboAccepts(c.g, r) THEN <<Refusal>>
    ELSE LET text == TextStep(c, r)
             main == TurboMain(c, r)
         IN  <<[text EXCEPT !.setup = TRUE, !.anew = TRUE, !.ousts = {"main"}, !.memo = <<>>],
               [main EXCEPT !.setup = TRUE, !.anew = TRUE], text, main>>
=============================================================================
