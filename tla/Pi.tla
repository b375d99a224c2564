----------------------------------- MODULE Pi -----------------------------------
(***************************************************************************)
(* pi0 and pi0.5 (src/src/models/pi0.cpp, pi05.cpp).  `c` is a loaded      *)
(* model, as in Gr00t.  c.o.off names the VLA_*_NO_* switches that are     *)
(* set, c.o.pi_q8 the towers of VLA_PI05_W8A8.                             *)
(***************************************************************************)
EXTENDS Arch, Gemma

PiLoadOk(g) == PaliVisionOk(PaliVision, 1152, 16, g.n_img)

---------------------------------------------------------------------------
(* What create settles: activations, attention, fused nodes.               *)

PiFq(c) == c.arch = "pi05" /\ IsFq(c.q)
PiOn(c, switch) == switch \notin c.o.off
\* Flash attention is SYCL's default.
PiFlash(c) == c.o.flash \/ (c.o.backend = "sycl" /\ c.o.fa_views)
PiAct(c) == IF c.o.act = "bf16" /\ c.o.backend \in {"cuda", "sycl"} /\ c.o.gemm = "bf16" /\ ~PiFq(c) THEN "bf16" ELSE "f32"
UseFused(c) == PiFlash(c) /\ c.o.fa_views
UseFlash(c) == UseFused(c) \/ (c.o.default_fa /\ PiFlash(c))

PiEw(c)  == c.arch = "pi05" /\ c.o.backend = "sycl" /\ ~PiFq(c) /\ PiOn(c, "fuse") /\ c.o.ew
KvInplace(c) == c.arch = "pi05" /\ UseFused(c) /\ ~PiFq(c) /\ PiOn(c, "kv_inplace")
FqFast(c) == PiFq(c) /\ c.o.backend = "sycl" /\ ~FqMode(c.o).dequant /\ c.o.fmha_kv
PiQ8(c, t) ==
    /\ t \in c.o.pi_q8
    /\ IF PiFq(c) /\ c.o.backend = "sycl" THEN t = "vit" ELSE KvInplace(c) /\ PiEw(c)
W4Group(c) == IF c.o.pi_w4 /\ PiQ8(c, "expert") THEN 128 ELSE 0
VitFused(c) ==
    /\ c.arch = "pi05" /\ c.o.backend = "sycl" /\ UseFused(c) /\ PiOn(c, "vit_fuse") /\ c.o.ew
    /\ PiAct(c) = "bf16" \/ (PiFq(c) /\ c.o.gemm = "bf16" /\ PiOn(c, "fuse"))
LangBucket(c) == IF c.o.lang_bucket >= 0 THEN c.o.lang_bucket ELSE IF c.o.backend = "openvino" THEN 16 ELSE 0

PL(c) == GemmaCfg(c.g.hidden, c.g.inter, c.g.nq, c.g.nkv, c.g.hd, "freq")
EX(c) == GemmaCfg(c.g.expert_h, c.g.expert_inter, c.g.nq, c.g.nkv, c.g.hd, "freq")
Big(c) == c.g.chunk * c.g.nq > 192
RopePackOn(c) == FqFast(c) /\ c.g.nkv = 1 /\ c.g.hd = 256 /\ PiOn(c, "rope_pack")
RopeAttnOn(c) == FqFast(c) /\ c.g.nkv = 1 /\ c.g.hd = 256 /\ PiOn(c, "rope_attn")
\* The prefix pack leaves rows for the expert's keys.
KvTail(c) ==
    /\ RopePackOn(c) /\ PiOn(c, "kv_tail")
    /\ IF Big(c) THEN RopeAttnOn(c) ELSE PiOn(c, "kv_sdpa") /\ c.o.ew
\* The options with what create turned on.
PiO(c) ==
    [c.o EXCEPT !.flash = PiFlash(c), !.act = PiAct(c), !.fused = c.o.fused /\ PiAct(c) = "f32",
                !.ew = PiEw(c) \/ VitFused(c) \/ (KvTail(c) /\ ~Big(c))]

PiKind(c, t) ==
    IF PiFq(c) THEN IF FqMode(c.o).dequant THEN "dequant" ELSE IF c.o.backend = "sycl" THEN "fqcat" ELSE "fq"
    ELSE IF PiQ8(c, t) THEN "q8" ELSE IF KvInplace(c) THEN "cat" ELSE "sep"
\* SYCL stores INT4 activations a code per byte without the INT4 GEMMs.
PiQ(c) == IF c.o.backend = "sycl" THEN [c.q EXCEPT !.wide4 = ~PiOn(c, "s4gemm")] ELSE c.q
PrefixWeights(c) ==
    [GemmaWeights(PiO(c), PL(c), "vlm", PiKind(c, "vlm"), PiQ(c), 0, TRUE) EXCEPT
        !.rope_pack = RopePackOn(c), !.extra = IF KvTail(c) THEN c.g.chunk ELSE 0]
ExpertWeights(c) ==
    [GemmaWeights(PiO(c), EX(c), "aex", PiKind(c, "expert"), PiQ(c), W4Group(c), c.arch = "pi0") EXCEPT
        !.rope_attn = RopeAttnOn(c), !.kv_sdpa = KvTail(c) /\ ~Big(c)]

---------------------------------------------------------------------------
(* The SigLIP tower of PaliGemma.                                          *)

PiVit(c) ==
    LET c0 == [PaliCfg(PiO(c)) EXCEPT !.fused_ops = PiO(c).fused]
    IN  IF c.arch = "pi0" THEN c0
        ELSE [c0 EXCEPT !.flash = UseFlash(c), !.fused = VitFused(c), !.act = IF VitFused(c) THEN "bf16" ELSE "f32",
                        !.int8 = VitFused(c) /\ PiQ8(c, "vit")]
\* pi0's own block, in any activation type.
BuildSiglipLayer(o, c, w, x, seq, at) ==
    LET mm(W, in, b) == Add(MmAct(o, W, in, at), b)
        n1 == LayerNorm(x, w.ln1w, w.ln1b, c.eps)
        view(p)  == Permute(Reshape(p, D3(c.head_dim, c.heads, seq)), <<0, 2, 1, 3>>)
        f32(W, b) == AsType(mm(W, n1, b), "f32")
        heads(p) == ToHeads(p, c.head_dim, c.heads, seq, 1)
        q  == f32(w.Wq, w.bq)
        k  == f32(w.Wk, w.bk)
        v  == f32(w.Wv, w.bv)
        att == IF o.flash /\ o.fa_views
               THEN Reshape(FlashAttnExt(view(mm(w.Wq, n1, w.bq)), view(mm(w.Wk, n1, w.bk)), view(mm(w.Wv, n1, w.bv)),
                                         Null, c.head_dim), D2(c.hidden, seq))
               ELSE IF o.flash
               THEN Reshape(FlashAttnExt(heads(q), FaKv(o, heads(k)), FaKv(o, heads(v)), Null, c.head_dim), D2(c.hidden, seq))
               ELSE Attention(heads(q), heads(k), ToHeadsV(v, c.head_dim, c.heads, seq, 1), Null, c.head_dim, c.hidden, seq, 1)
        h1 == Add(x, mm(w.Wo, AsType(att, at), w.bo))
        n2 == LayerNorm(h1, w.ln2w, w.ln2b, c.eps)
    IN  Add(h1, mm(w.Wfc2, Gelu(mm(w.Wfc1, n2, w.bfc1)), w.bfc2))

PiPixels(name, nv) == Input(name, "f32", D4(PaliVision.image_size, PaliVision.image_size, 3, nv))
PiGrid == PaliVision.image_size \div PaliVision.patch_size
PiProject(c, h, at) ==
    AsType(Add(MmAct(PiO(c), GemmW(c.o, "mm", "proj", 1152, c.g.hidden), h, at), F32W("mm", "proj_b", c.g.hidden)), "f32")

Pi0Tower(c) ==
    LET o  == PiO(c)
        e  == PiVit(c)
        at == PiAct(c)
        K  == PaliVision.n_tokens
        x  == AsType(SigLipEmbedConv("vit", e.hidden, TowerPart(PiPixels("t_px", 1)), PaliVision.patch_size, PiGrid), at)
        h  == IF o.fused /\ ~o.flash THEN EncBuild(o, e, "vit", x, K, 1)
              ELSE BuildSiglipLayer(o, e, EncWeights(o, e, "vit"), x, K, at)
    IN  PiProject(c, LayerNorm(h, F32W("vit", "post_lnw", e.hidden), F32W("vit", "post_lnb", e.hidden), e.eps), at)

\* nv views in one pass: the fused blocks take them as rows.
Pi05Tower(c, px, nv) ==
    LET e == PiVit(c)
        K == PaliVision.n_tokens
        x == SigLipEmbedConv("vit", e.hidden, TowerPart(px), PaliVision.patch_size, PiGrid)
        rows == IF e.fused THEN Reshape(x, D2(e.hidden, K * nv)) ELSE x
    IN  PiProject(c, SigLipBuild(PiO(c), e, "vit", AsType(rows, e.act), K, nv), e.act)

---------------------------------------------------------------------------
(* predict's checks, inputs and prompt, for both.                          *)

PiViews(r) == IF r.pre > 0 THEN r.pre ELSE Len(r.views)
PiAsks(r)  == PiViews(r) >= 1 /\ Len(r.lang) >= 1
PiImgTokens(c, r) == PiViews(r) * c.g.n_img
\* Rows of the image embeddings in the prompt's input.
PiImageRows(c, r) ==
    LET n == c.g.n_img * c.g.hidden
    IN  IF r.pre > 0 THEN {<<0, PiViews(r) * n, <<"precomputed", r.name>>>>}
        ELSE {<<(v - 1) * n, n, <<"tower", r.name, v>>>> : v \in 1..PiViews(r)}
\* The main graph is ensured first; the tower's rows are copied into it.
PiSteps(c, r, main, input, vision) ==
    IF ~PiAsks(r) THEN <<Refusal>>
    ELSE LET rows == PiImageRows(c, r)
             dev  == {<<input, w>> : w \in rows}
         IN  IF r.pre > 0 THEN <<main>>
             ELSE <<[main EXCEPT !.setup = TRUE]>> \o vision
                  \o <<[main EXCEPT !.fetch = FALSE, !.given = dev]>>
CopyRows(input, ws) == {<<"main", input, w[1], w[2], w[3]>> : w \in ws}

---------------------------------------------------------------------------
(* pi0.                                                                    *)

BuildEmbedSuffix(c, state, x) ==
    LET o  == PiO(c)
        at == PiAct(c)
        e  == c.g.expert_h
        w(n, K, N) == Weight(<<"pi0", n>>, "f32", D2(K, N))
        lin(n, K, N, in) == Add(MmAct(o, w(n, K, N), in, at), F32W("pi0", n \o ".b", N))
        time == Weight(<<"const", "t_time">>, "f32", D2(e, c.g.chunk))
        act_in == Concat(lin("action_in", c.g.action, e, AsType(x, at)), AsType(time, at), 0)
        act  == lin("time_mlp_out", e, e, Silu(lin("time_mlp_in", 2 * e, e, act_in)))
        st   == lin("state_proj", c.g.max_state, e, AsType(state, at))
    IN  Concat(Reshape(st, D2(e, 1)), act, 1)

\* A suffix row sees the whole prompt; the state's row itself only.
FullMaskSees(n_prefix, n_suf, i) == 1..n_prefix \cup {n_prefix + s : s \in IF i = 1 THEN {1} ELSE 1..n_suf}

Pi0Main(c, r) ==
    LET o      == PiO(c)
        at     == PiAct(c)
        n_img  == PiImgTokens(c, r)
        n_lang == Len(r.lang)
        n_suf  == 1 + c.g.chunk
        n_pre  == n_img + n_lang
        ins == [t_image_emb |-> In2("t_image_emb", c.g.hidden, n_img), t_lang_emb |-> In2("t_lang_emb", c.g.hidden, n_lang),
                t_prefix_pos |-> Ids("t_prefix_pos", n_pre), t_state |-> In1("t_state", c.g.max_state),
                t_x0 |-> In2("t_x0", c.g.action, c.g.chunk), t_suffix_pos |-> Ids("t_suffix_pos", n_suf),
                t_full_mask |-> In2("t_full_mask", n_pre + n_suf, n_suf)]
        what == [t_image_emb |-> <<"precomputed", r.name>>, t_lang_emb |-> <<"tokens", r.lang>>, t_prefix_pos |-> Iota(n_pre),
                 t_state |-> StateOf(r), t_x0 |-> NoiseOf(r), t_suffix_pos |-> <<"iota from", n_pre, n_suf>>,
                 t_full_mask |-> <<"sees", [i \in {1, 2} |-> Cardinality(FullMaskSees(n_pre, n_suf, i))]>>]
        prefix == AsType(Concat(ins.t_image_emb, Scale(ins.t_lang_emb, "sqrt hidden"), 1), at)
        p   == GemmaLayer(o, PrefixWeights(c), prefix, ins.t_prefix_pos, PL(c), n_pre, Null, Null, Null, at, o.flash, Null)
        h0  == BuildEmbedSuffix(c, ins.t_state, ins.t_x0)
        e   == GemmaLayer(o, ExpertWeights(c), Named(h0, <<"h">>), ins.t_suffix_pos, EX(c), n_suf, Named(p.k, <<"K">>),
                          Named(p.v, <<"V">>), ins.t_full_mask, at, o.flash, Null)
        fin == Mul(RmsNorm(Named(h0, <<"h">>), "rms_eps"), F32W("aex", "output_norm", c.g.expert_h))
        act == Slice(fin, 1, 1, c.g.chunk)
        vel == AsType(Add(MmAct(o, Weight(<<"pi0", "action_out">>, "f32", D2(c.g.expert_h, c.g.action)), act, at),
                          F32W("pi0", "action_out.b", c.g.action)), "f32")
        x   == Add(ins.t_x0, Scale(vel, "dt"))
    IN  [Blank EXCEPT
            !.cache = "main", !.key = <<n_img, n_lang, c.g.steps>>, !.ins = ins, !.fetch = TRUE,
            !.fills = [Filled(ins, what) EXCEPT !.t_image_emb = PiImageRows(c, r)],
            !.parts = [lm |-> p.y, K |-> p.k, V |-> p.v, suffix |-> h0, expert |-> e.y, out |-> x],
            !.out = x, !.read = c.g.action * c.g.chunk]
Pi0Vision(c, r) ==
    LET emb  == Pi0Tower(c)
        rows == PiImageRows(c, r)
        px   == PiPixels("t_px", 1)
        row(v) == {w \in rows : w[3] = <<"tower", r.name, v>>}
    IN  [v \in 1..Len(r.views) |->
            [Blank EXCEPT !.cache = "vision", !.ins = [t_px |-> px], !.fills = [t_px |-> Whole(px, <<"view", r.name, v>>)],
                          !.scratch = v = 1, !.parts = [emb |-> emb], !.out = emb, !.read = c.g.n_img * c.g.hidden,
                          !.post = ViewOk(r.views[v], PaliVision.image_size), !.copies = CopyRows("t_image_emb", row(v))]]
Pi0Steps(c, r) == PiSteps(c, r, Pi0Main(c, r), "t_image_emb", Pi0Vision(c, r))

---------------------------------------------------------------------------
(* pi0.5: the expert's layer is modulated by the step's time (adaRMS).     *)

\* Each norm's scale, shift and gate at a step's time, computed once at load
\* and kept as a table.
BakeAdarms(c, j) ==
    LET h == c.g.expert_h
        lin(n, x, N) == Add(MulMat(Weight(<<"pi05", n>>, "f32", D2(h, N)), x), F32W("pi05", n \o ".b", N))
        cond == Silu(lin("time_out", Silu(lin("time_in", In1("t_time", h), h)), h))
    IN  lin("ada" \o ToString(j), cond, 3 * h)
AdaMod(c, j) == Named(BakeAdarms(c, j), <<"ada_mod", j>>)
ModPart(mod, h, j) == Window(mod, D1(h), "full", (j + 1) * h <= mod.ne[1], VPart(mod.val, j + 1))
\* bake_adarms: 1 + scale and shift as tensors of their own, for fq_fast.
AdaScale1(c, j) == T("f32", D1(c.g.expert_h), VAdd(One, VPart(AdaMod(c, j).val, 1)))
AdaShift(c, j)  == ModPart(AdaMod(c, j), c.g.expert_h, 1)
BuildAdarms(x, mod, h, eps) ==
    LET n == RmsNorm(x, eps) IN Add(Add(n, Mul(n, ModPart(mod, h, 0))), ModPart(mod, h, 1))

PiAttn(o, w, x, pos, c, seq, K, V, mask, at, flash, e, K16, V16, kv) ==
    IF kv # Null THEN GemmaAttnKv(o, w, x.norm, pos, c, seq, kv, mask, at, e.res, e.gate, "at").y
    ELSE GemmaAttn(o, w, x, pos, c, seq, K, V, mask, at, flash, e, K16, V16, FALSE).y

\* FoldQuant on SYCL: adaRMS in the act nodes, gated residuals in the GEMMs'.
ExpertFq(o, w, x, pos, c, g, seq, K, V, mask, flash, K16, V16) ==
    LET h == c.hidden
        gate(j) == ModPart(AdaMod(g, j), h, 2)
        act(s, t, j) == FqActMod(s, t, AdaScale1(g, j), AdaShift(g, j), c.eps)
        h1 == PiAttn(o, w, Reads(Null, Null, act(w.fq_qkv, x, 0)), pos, c, seq, K, V, mask, "f32", flash,
                     Epi(x, gate(0)), K16, V16, Null)
    IN  GemmaMlp(o, w, Reads(Null, Null, act(w.fq_gu, h1, 1)), "f32", Epi(h1, gate(1)))
\* W8A8: adaRMS writes the INT8 rows, the residuals are the GEMMs' epilogues.
ExpertQ8(o, w, x, pos, c, g, seq, mask, at, kv) ==
    LET ada(t, j) == FusedAdarms(t, AdaMod(g, j), "i8", c.eps)
        gate(j) == ModPart(AdaMod(g, j), c.hidden, 2)
        h1 == GemmaAttnKv(o, w, ada(x, 0), pos, c, seq, kv, mask, at, x, gate(0), "f32").y
    IN  GemmaMlpQ8(w, ada(h1, 1), h1, at, gate(1), "f32")
ExpertEw(o, w, x, pos, c, g, seq, K, V, mask, at, flash, kv) ==
    LET ada(t, j) == FusedAdarms(t, AdaMod(g, j), at, c.eps)
        h1 == FusedGateres(x, PiAttn(o, w, Reads(ada(x, 0), Null, Null), pos, c, seq, K, V, mask, at, flash, NoEpi,
                                     Null, Null, kv), AdaMod(g, 0))
    IN  FusedGateres(h1, GemmaMlp(o, w, Reads(ada(h1, 1), Null, Null), at, NoEpi), AdaMod(g, 1))
ExpertCuda(o, w, x, pos, c, g, seq, K, V) ==
    LET part(j, i) == ModPart(AdaMod(g, j), c.hidden, i)
        ada(t, j, s) == LET xq == FqActNorm(o, s, t, part(j, 0), part(j, 1), "RmsModulate", c.eps)
                        IN  IF Has(xq) THEN xq ELSE FusedRmsModulate(t, part(j, 0), part(j, 1), c.eps, ~IsSite(w.fq_q))
        h1 == FusedGateRes(GemmaAttnFused(o, w, ada(x, 0, w.fq_q), pos, c, seq, K, V, Null, Null).y, part(0, 2), x)
    IN  FusedGateRes(GemmaMlpFused(o, w, ada(h1, 1, w.fq_gate), Null), part(1, 2), h1)
ExpertPlain(o, w, x, pos, c, g, seq, K, V, mask, at, flash, K16, V16, kv) ==
    LET h == c.hidden
        gated(y, j) == Mul(AsType(y, "f32"), ModPart(AdaMod(g, j), h, 2))
        n1 == BuildAdarms(x, AdaMod(g, 0), h, c.eps)
        h1 == Add(x, gated(PiAttn(o, w, Reads(AsType(n1, at), n1, Null), pos, c, seq, K, V, mask, at, flash, NoEpi,
                                  K16, V16, kv), 0))
        n2 == BuildAdarms(h1, AdaMod(g, 1), h, c.eps)
    IN  Add(h1, gated(GemmaMlp(o, w, Reads(AsType(n2, at), n2, Null), at, NoEpi), 1))

BuildExpertLayer(c, x, pos, seq, K, V, mask, K16, V16, kv) ==
    LET o  == PiO(c)
        w  == ExpertWeights(c)
        e  == EX(c)
        at == PiAct(c)
        fa == UseFlash(c)
        tkv == seq + (IF Has(K) THEN K.ne[3] ELSE 0)
        mod_acts == FqFast(c) /\ IsSite(w.fq_qkv) /\ IsSite(w.fq_gu) /\ PiOn(c, "ada")
    IN  IF Has(K16) /\ mod_acts /\ IsSite(w.fq_o) /\ IsSite(w.fq_down)
        THEN ExpertFq(o, w, x, pos, e, c, seq, K, V, mask, fa, K16, V16)
        ELSE IF PiOn(c, "q8_fuse") /\ PiEw(c) /\ kv # Null /\ Has(w.q_qkv.w)
        THEN ExpertQ8(o, w, x, pos, e, c, seq, mask, at, kv)
        ELSE IF PiEw(c) /\ ~IsSite(w.fq_q) /\ ~IsSite(w.fq_qkv) /\ ~IsSite(w.fq_gate) /\ ~IsSite(w.fq_gu)
        THEN ExpertEw(o, w, x, pos, e, c, seq, K, V, mask, at, fa, kv)
        ELSE IF ~Has(mask) /\ kv = Null /\ GemmaFused(o, w, at, fa, seq, tkv)
        THEN ExpertCuda(o, w, x, pos, e, c, seq, K, V)
        ELSE ExpertPlain(o, w, x, pos, e, c, seq, K, V, mask, at, fa, K16, V16, kv)

---------------------------------------------------------------------------
(* pi0.5's predict.  The language segment may be padded: the pad is masked *)
(* as keys, and the suffix counts on from the real prompt.                 *)

LangPadded(c, n) == LET b == LangBucket(c) IN IF b > 0 THEN ((n + b - 1) \div b) * b ELSE n
\* The keys that a query may not see.
PadKeys(n_pre, n_pre_g) == <<"masked", n_pre + 1, n_pre_g>>

Pi05Main(c, r) ==
    LET o      == PiO(c)
        at     == PiAct(c)
        g      == c.g
        n_img  == PiImgTokens(c, r)
        n_lang == LangPadded(c, Len(r.lang))
        n_pre  == n_img + Len(r.lang)
        n_g    == n_img + n_lang
        padded == LangBucket(c) > 0
        masks  == IF padded THEN [t_prefix_mask |-> In2("t_prefix_mask", n_g, n_g),
                                  t_suffix_mask |-> In2("t_suffix_mask", n_g + g.chunk, g.chunk)] ELSE <<>>
        ins    == [t_prefix |-> In2("t_prefix", g.hidden, n_g), t_prefix_pos |-> Ids("t_prefix_pos", n_g),
                   t_x0 |-> In2("t_x0", g.action, g.chunk), t_suffix_pos |-> Ids("t_suffix_pos", g.chunk)] @@ masks
        pmask  == IF padded THEN ins.t_prefix_mask ELSE Null
        smask  == IF padded THEN ins.t_suffix_mask ELSE Null
        what   == [t_prefix |-> <<>>, t_prefix_pos |-> Iota(n_g), t_x0 |-> NoiseOf(r),
                   t_suffix_pos |-> <<"iota from", n_pre, g.chunk>>,
                   t_prefix_mask |-> PadKeys(n_pre, n_g), t_suffix_mask |-> PadKeys(n_pre, n_g)]
        lang   == <<n_img * g.hidden, n_lang * g.hidden, <<"scaled tokens", r.lang, n_lang>>>>
        \* the prefix, one layer
        w      == PrefixWeights(c)
        x      == AsType(ins.t_prefix, at)
        slot(v) == T("f16", D3(g.hd, g.nkv, n_g + g.chunk), <<v>>)
        kv0    == IF KvInplace(c) THEN KvSlot(slot("kbuf"), slot("vbuf")) ELSE Null
        q8     == KvInplace(c) /\ Has(w.q_qkv.w) /\ PiOn(c, "q8_fuse")
        p      == IF q8 THEN GemmaLayerQ8(o, w, x, ins.t_prefix_pos, PL(c), n_g, kv0, pmask, at)
                  ELSE GemmaLayer(o, w, x, ins.t_prefix_pos, PL(c), n_g, Null, Null, pmask, at, UseFlash(c), kv0)
        kpart  == IF KvInplace(c) THEN [slot("k") EXCEPT !.val = p.kv.kval] ELSE p.k
        vpart  == IF KvInplace(c) THEN [slot("v") EXCEPT !.val = p.kv.vval] ELSE p.v
        \* the expert reads it by name
        K      == IF KvInplace(c) THEN Null ELSE Named(p.k, <<"K">>)
        V      == IF KvInplace(c) THEN Null ELSE Named(p.v, <<"V">>)
        kv     == IF KvInplace(c) THEN [p.kv EXCEPT !.kval = <<"K">>, !.vval = <<"V">>] ELSE Null
        kv16   == FqFast(c) /\ UseFused(c) /\ ~padded
        f16(t) == IF ~kv16 THEN Null ELSE IF t.ty = "f16" THEN t ELSE Cast(Permute(t, <<0, 2, 1, 3>>), "f16")
        lin(n, Ki, N, in) == Add(MulMat(Weight(<<"pi05", n>>, "f32", D2(Ki, N)), in), F32W("pi05", n \o ".b", N))
        h0     == lin("action_in", g.action, g.expert_h, ins.t_x0)
        e      == BuildExpertLayer(c, Named(h0, <<"h">>), ins.t_suffix_pos, g.chunk, K, V, smask, f16(K), f16(V), kv)
        vel    == lin("action_out", g.expert_h, g.action, BuildAdarms(Named(h0, <<"h">>), AdaMod(c, 2), g.expert_h, "rms_eps"))
        y      == Add(ins.t_x0, Scale(vel, "dt"))
    IN  [Blank EXCEPT
            !.cache = "main", !.key = <<n_img, n_lang, g.steps>>, !.ins = ins, !.fetch = TRUE,
            !.fills = [n \in DOMAIN ins |-> IF n = "t_prefix" THEN PiImageRows(c, r) \cup {lang} ELSE Whole(ins[n], what[n])],
            !.parts = [lm |-> p.y, K |-> kpart, V |-> vpart, suffix |-> h0, expert |-> e, out |-> y],
            !.out = y, !.read = g.action * g.chunk]

\* One pass over all views when the blocks are fused, else one view at a time
\* in one graph; every view is preprocessed before any is set.
Pi05Vision(c, r) ==
    LET nv    == Len(r.views)
        once  == VitFused(c) \/ nv = 1
        name(v) == "t_px" \o ToString(v)
        px    == IF once THEN "t_px" :> PiPixels("t_px", nv)
                 ELSE [n \in {name(v) : v \in 1..nv} |-> PiPixels(n, 1)]
        emb   == Pi05Tower(c, PiPixels("t_px", IF once THEN nv ELSE 1), IF once THEN nv ELSE 1)
        fill  == IF once THEN "t_px" :> ByView(px.t_px, nv, r)
                 ELSE [n \in DOMAIN px |-> Whole(px[n], <<"view", r.name, CHOOSE v \in 1..nv : name(v) = n>>)]
    IN  <<[Blank EXCEPT !.cache = "vis", !.key = <<nv>>, !.ins = px, !.fills = fill, !.parts = [emb |-> emb], !.out = emb,
             !.read = (IF once THEN nv ELSE 1) * c.g.n_img * c.g.hidden, !.pre = TRUE,
             !.post = ViewsOk(r, PaliVision.image_size), !.copies = CopyRows("t_prefix", PiImageRows(c, r))]>>
Pi05Steps(c, r) == PiSteps(c, r, Pi05Main(c, r), "t_prefix", Pi05Vision(c, r))
=============================================================================
