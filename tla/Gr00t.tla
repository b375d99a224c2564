--------------------------------- MODULE Gr00t ---------------------------------
(***************************************************************************)
(* GR00T N1.5, N1.6, N1.7 and VLA-JEPA (src/src/models/gr00tn1d{5,6,7}.cpp *)
(* and vla_jepa.cpp).  `c` is a loaded model: c.g what its GGUF says, c.q  *)
(* its FoldQuant spec, c.o the options and the backend.                    *)
(***************************************************************************)
EXTENDS Arch

N15LoadOk(g) == g.heads > 0 /\ g.patch > 0 /\ (g.image \div g.patch) * (g.image \div g.patch) = g.n_img
\* Mutant: n_img_tokens is not compared with the shuffled grid.
N16LoadAnyCount(g) ==
    /\ g.heads > 0 /\ g.every_n > 0 /\ g.patch > 0 /\ g.shuffle > 0
    /\ g.image % g.patch = 0 /\ (g.image \div g.patch) % g.shuffle = 0
N16LoadOk(g) ==
    /\ g.heads > 0 /\ g.every_n > 0 /\ g.patch > 0 /\ g.shuffle > 0
    /\ g.image % g.patch = 0 /\ (g.image \div g.patch) % g.shuffle = 0
    /\ LET g2 == (g.image \div g.patch) \div g.shuffle IN g.n_img = g2 * g2

GDitFused(c) == DitFusedOn(c.o, c.o.gemm, IsFq(c.q)) /\ (c.arch = "gr00t_n1_7" => c.o.n17_fuse)
\* VLA_FUSED_OPS limits the CUDA nodes of N1.7 to one tower.
FusedTower(c, t) == c.o.fused /\ (c.arch = "gr00t_n1_7" => c.o.fused_ops \in {"all", t})
GVit(c) ==
    [EncCfg(c.g.vit, c.g.heads, c.g.vit_ff, "vit_eps", c.o.flash) EXCEPT
        !.fused_ops = c.o.fused, !.fused = GDitFused(c), !.act = IF GDitFused(c) THEN "bf16" ELSE "f32"]
GLm(c) ==
    LET imrope == c.arch \in {"gr00t_n1_7", "vla_jepa"}
    IN  [Qwen3Cfg(c.g.hidden, c.g.nq, c.g.nkv, c.g.hd, c.g.inter,
                  IF imrope THEN c.o.lm_flash ELSE c.o.flash,
                  RopeSpec(IF imrope THEN "imrope" ELSE "neox", c.g.hd, "theta", imrope)) EXCEPT
            !.fused_ops = FusedTower(c, "lm")]
GDit(c) == [DitCfg(c.g.dit, c.g.dit_heads, c.g.dit_hd) EXCEPT !.fused_ops = FusedTower(c, "dit"), !.fused = GDitFused(c)]
GVlsa(c) == [EncCfg(c.g.hidden, c.g.vlsa_heads, 4 * c.g.hidden, "ln_eps", c.o.flash) EXCEPT !.fused_ops = FusedTower(c, "lm")]

\* The expert: `layers` covers each sort of block once.
GAex(c) ==
    [hid |-> 1024, embed |-> c.g.in_embed, pos |-> c.g.horizon, horizon |-> c.g.horizon, action |-> c.g.action,
     out |-> c.g.out, interleave |-> TRUE, layers |-> IF c.arch = "gr00t_n1_5" THEN 2 ELSE 3,
     every2 |-> IF c.arch = "gr00t_n1_5" THEN 1 ELSE 2 * c.g.every_n]
GKinds(c) == IF c.arch = "gr00t_n1_7" THEN [self |-> "qkv", cross |-> "kv"] ELSE [self |-> "sep", cross |-> "sep"]

---------------------------------------------------------------------------
(* The towers. *)

\* N1.5: a linear after SigLIP; every view at once only when fused.
N15Vis(c, r) ==
    LET e    == GVit(c)
        nv   == IF e.fused THEN Len(r.views) ELSE 1
        grid == c.g.image \div c.g.patch
        px   == Input("t_px", "f32", D4(c.g.image, c.g.image, 3, nv))
        emb  == SigLipEmbedConv("vit", e.hidden, TowerPart(Slice(px, 3, 0, 1)), c.g.patch, grid)
        h    == IF e.fused
                THEN AsType(SigLipBuild(c.o, e, "vit", AsType(Views(emb, nv), "bf16"), c.g.n_img, nv), "f32")
                ELSE SigLipBuild(c.o, e, "vit", emb, c.g.n_img, 1)
        out  == Linear(c.o, GemmW(c.o, "mm", "fc", e.hidden, c.g.hidden), F32W("mm", "b", c.g.hidden), h)
        step(v) == [Blank EXCEPT !.cache = "vis", !.key = <<IF e.fused THEN nv ELSE 0>>, !.ins = [t_px |-> px],
                       !.fills = [t_px |-> IF e.fused THEN ByView(px, nv, r) ELSE Whole(px, <<"view", r.name, v>>)],
                       !.parts = [emb |-> out], !.out = out, !.read = nv * c.g.n_img * c.g.hidden,
                       !.post = IF e.fused THEN ViewsOk(r, c.g.image) ELSE ViewOk(r.views[v], c.g.image)]
    IN  [v \in 1..(Len(r.views) \div nv) |-> step(v)]

\* N1.6: patches in, then r*r neighbouring patches side by side and an MLP.
N16Vis(c, r) ==
    LET e    == GVit(c)
        nv   == Len(r.views)
        sh   == c.g.shuffle
        grid == c.g.image \div c.g.patch
        g2   == grid \div sh
        NP   == grid * grid
        pt   == Input("t_patches", "f32", D3(3 * c.g.patch * c.g.patch, NP, nv))
        emb  == SigLipEmbedPatches(c.o, "vit", e.hidden, TowerPart(pt), c.g.patch, grid)
        post == IF e.fused
                THEN AsType(SigLipBuild(c.o, e, "vit", AsType(Reshape(emb, D2(e.hidden, NP * nv)), "bf16"), NP, nv), "f32")
                ELSE SigLipBuild(c.o, e, "vit", emb, NP, nv)
        s1   == Cont(Permute(Reshape(post, D3(e.hidden, sh, g2 * sh * g2 * nv)), <<1, 0, 2, 3>>))
        s2   == Cont(Permute(Reshape(s1, D4(sh, e.hidden * g2, sh, g2 * nv)), <<0, 2, 1, 3>>))
        c4   == e.hidden * sh * sh
        mln  == LayerNorm(Reshape(s2, D3(c4, c.g.n_img, nv)), F32W("mm", "ln_w", c4), F32W("mm", "ln_b", c4), "conn")
        out  == FfnGeluErf(c.o, GemmW(c.o, "mm", "fc1", c4, c.g.hidden), F32W("mm", "b1", c.g.hidden),
                           GemmW(c.o, "mm", "fc2", c.g.hidden, c.g.hidden), F32W("mm", "b2", c.g.hidden), mln)
    IN  <<[Blank EXCEPT !.cache = "vis", !.key = <<nv>>, !.ins = [t_patches |-> pt],
             !.fills = [t_patches |-> ByView(pt, nv, r)], !.parts = [emb |-> out], !.out = out,
             !.read = nv * c.g.n_img * c.g.hidden, !.post = ViewsOk(r, c.g.image)]>>

\* vit.encode of the Qwen3-VL tower, for N1.7 and VLA-JEPA.
QwenOpts(c) == [c.o EXCEPT !.fused = IF c.arch = "gr00t_n1_7" THEN FusedTower(c, "vit") ELSE @,
                           !.fused_enc = c.arch = "gr00t_n1_7" /\ GDitFused(c)]
QwenVis(c, r) ==
    LET o   == QwenOpts(c)
        nv  == QwenGraphViews(o, Len(r.views))
        y   == QwenEncode(o, c.g.qwen, Len(r.views), c.g.hidden)
        len == QwenInputs(o, c.g.qwen, Len(r.views))
        fill(n, v0) == {<<w[2], w[3], IF n = "t_patches" THEN <<"view", r.name, v0 + w[2] \div w[3] + 1>> ELSE <<"table", n>>>> :
                           w \in {x \in QwenWrites(o, c.g.qwen, Len(r.views)) : x[1] = n}}
        step(i) == [Blank EXCEPT !.cache = "vision", !.key = <<IF o.fused_enc THEN nv ELSE 0>>,
                       !.ins = [n \in DOMAIN len |-> In1(n, len[n])],
                       !.fills = [n \in DOMAIN len |-> fill(n, (i - 1) * nv)],
                       !.parts = [emb |-> y.embeds, ds |-> y.ds], !.out = y.embeds,
                       !.read = nv * QTokens(c.g.qwen) * c.g.hidden, !.post = ViewsOk(r, c.g.qwen.side)]
    IN  [i \in 1..(Len(r.views) \div nv) |-> step(i)]

---------------------------------------------------------------------------
(* predict of N1.5 and N1.6: tower, prompt, language model, denoising.     *)

\* The prompt's language model, its norm, then N1.5's and N1.7's encoder.
GLmParts(c, h, pos, mask, seq, ds) ==
    LET y == Qwen3Block(c.o, GLm(c), Qwen3Weights(c.o, GLm(c), "vlm", c.q), Named(h, <<"h">>), pos, mask, seq)
    IN  IF Has(ds) THEN Add(y, ds) ELSE y
GVlln(c, eagle) == LayerNorm(eagle, F32W("aex", "vlln_w", c.g.hidden), F32W("aex", "vlln_b", c.g.hidden), "vlln_eps")
GVlsaBuild(c, vl, seq) == EncBuild(c.o, GVlsa(c), "aex.vlsa", vl, seq, 1)

GInputs(c, seq) ==
    [t_embeds |-> In2("t_embeds", c.g.hidden, seq),
     t_pos    |-> Ids("t_pos", IF GLm(c).rope.multi THEN 4 * seq ELSE seq),
     t_lmmask |-> In2("t_lmmask", seq, seq), t_state |-> In2("t_state", c.g.max_state, 1),
     t_x0     |-> In2("t_x0", c.g.action, c.g.horizon)]
GIdx(n_img, n_txt) ==
    ("t_img_idx" :> Ids("t_img_idx", n_img)) @@ (IF n_txt > 0 THEN "t_txt_idx" :> Ids("t_txt_idx", n_txt) ELSE <<>>)
GContents(r, ids, pos) ==
    [t_embeds |-> EmbedsOf(r, ids), t_pos |-> pos, t_lmmask |-> FromHost("c_mask"), t_state |-> StateOf(r),
     t_x0 |-> NoiseOf(r), t_img_idx |-> <<"image_pos", ids>>, t_txt_idx |-> <<"text_pos", ids>>]

\* The rows of the text, or the image's where the prompt has none.
GText(vl, ins) == IF "t_txt_idx" \in DOMAIN ins THEN GetRows(vl, ins.t_txt_idx) ELSE GetRows(vl, ins.t_img_idx)
GDenoise(c, ins, future, txt, img) ==
    DenoiseStep(c.o, GDit(c), GAex(c), GKinds(c), c.q, ins.t_state, future, txt, img, ins.t_x0)
DitPart(i) == "dit" \o ToString(i)
DenoiseParts(d, layers) ==
    ("dit_in" :> d.h0) @@ ("dit_out" :> d.x)
    @@ [n \in {DitPart(i) : i \in 0..layers - 1} |-> d.blocks[CHOOSE i \in 0..layers - 1 : DitPart(i) = n]]

\* What the main graph depends on: the prompt's length, how it divides.
MainKey(c, seq, n_img) ==
    IF c.arch = "gr00t_n1_5" THEN <<seq, c.g.steps>> ELSE <<seq, n_img, seq - n_img, c.g.steps>>
GPrompt(r, k, max_seq) == BuildPrompt(r.lang, NViews(r) * k, max_seq)
GMain(c, r, ids) ==
    LET seq   == Len(ids)
        n_img == Cardinality(ImagePos(ids))
        n15   == c.arch = "gr00t_n1_5"
        ins   == GInputs(c, seq) @@ (IF n15 THEN <<>> ELSE GIdx(n_img, seq - n_img))
        eagle == RmsNormW(GLmParts(c, ins.t_embeds, ins.t_pos, ins.t_lmmask, seq, Null),
                          F32W("vlm", "output_norm", c.g.hidden), "rms_eps")
        vl    == GVlln(c, Named(eagle, <<"eagle">>))
        vlsa  == GVlsaBuild(c, vl, seq)
        embs  == Named(IF n15 THEN vlsa ELSE vl, <<"vl_embs">>)
        future == Weight(<<"aex", "future_tokens">>, "f32", D2(c.g.in_embed, c.g.future))
        d     == IF n15 THEN GDenoise(c, ins, future, embs, embs)
                 ELSE GDenoise(c, ins, Null, GText(embs, ins), GetRows(embs, ins.t_img_idx))
    IN  [Blank EXCEPT
            !.cache = "main", !.key = MainKey(c, seq, n_img),
            !.ins = ins, !.fills = Filled(ins, GContents(r, ids, Iota(seq))), !.hosts = MaskHost(seq),
            !.parts = ("lm" :> eagle) @@ ("vl" :> IF n15 THEN vlsa ELSE vl) @@ DenoiseParts(d, GAex(c).layers),
            !.out = d.x, !.read = c.g.action * c.g.horizon, !.fetch = TRUE]
GSteps(c, r, vis) ==
    LET p == GPrompt(r, c.g.n_img, c.g.max_seq)
    IN  IF NViews(r) = 0 THEN <<Refusal>>
        ELSE (IF r.pre > 0 THEN <<>> ELSE vis) \o <<IF p.ok THEN GMain(c, r, p.ids) ELSE Refusal>>
N15Steps(c, r) == GSteps(c, r, N15Vis(c, r))
N16Steps(c, r) == GSteps(c, r, N16Vis(c, r))

---------------------------------------------------------------------------
(* predict of N1.7: with the fused tower everything is one graph.          *)

\* Its views must share a pixel format: they are one tensor.
N17Fused(c, r) ==
    /\ r.pre = 0 /\ Len(r.views) > 0
    /\ \A v \in DOMAIN r.views : r.views[v].fmt = r.views[1].fmt
    /\ c.o.fused_vit = "on" \/ (c.o.fused_vit = "default" /\ FusedTower(c, "vit"))
\* Where row p of the language model's input comes from: the host's row, and
\* the table row scatter[p] of the tower, row n_img of it being zero.
N17Scatter(ids) ==
    LET n == Cardinality(ImagePos(ids))
    IN  [p \in DOMAIN ids |-> IF ids[p] = ImageToken THEN Cardinality({j \in ImagePos(ids) : j < p}) ELSE n]
N17HostRow(ids, p) == IF ids[p] = ImageToken THEN <<"zero">> ELSE <<"token", ids[p]>>
N17Rows(ids) ==
    LET n == Cardinality(ImagePos(ids))
    IN  [p \in DOMAIN ids |->
            LET s == N17Scatter(ids)[p]
                row == IF s = n THEN <<"zero">> ELSE <<"view_row", s>>
            IN  IF row = <<"zero">> THEN N17HostRow(ids, p) ELSE IF N17HostRow(ids, p) = <<"zero">> THEN row ELSE <<"sum">>]

N17Main(c, r, ids, positions) ==
    LET seq   == Len(ids)
        n_img == Cardinality(ImagePos(ids))
        nv    == NViews(r)
        q     == c.g.qwen
        o     == QwenOpts(c)
        fused == N17Fused(c, r)
        dev   == fused /\ FusedTower(c, "vit")
        u8    == fused /\ r.views[1].fmt = "u8"
        inject == fused \/ r.pre = 0
        hd    == q.hidden \div q.heads
        tables == [t_vpos |-> In2("t_pos", q.hidden, QPatches(q)), t_vcos |-> In2("t_cos", hd, QPatches(q)),
                   t_vsin |-> In2("t_sin", hd, QPatches(q)), t_zero |-> In2("t_zero", c.g.hidden, 1)]
        img    == Input("t_img", IF u8 THEN "i8" ELSE "f32", D4(3, q.side, q.side, nv))
        pixels == In2("t_patches", q.patch_flat, QPatches(q) * nv)
        vis   == IF ~fused THEN <<>>
                 ELSE tables @@ ("t_scatter" :> Ids("t_scatter", seq)) @@ (IF dev THEN "t_img" :> img ELSE "t_patches" :> pixels)
        dsin  == IF inject /\ ~fused THEN "t_ds" :> In2("t_ds", c.g.hidden, seq) ELSE <<>>
        ins   == GInputs(c, seq) @@ GIdx(n_img, seq - n_img) @@ vis @@ dsin
        patches == IF dev THEN [FusedPatchify(img, q.patch, q.temporal) EXCEPT !.val = pixels.val] ELSE pixels
        y     == QwenBuild([o EXCEPT !.fused_enc = FALSE], q, patches, tables.t_vpos, tables.t_vcos, tables.t_vsin, c.g.hidden, nv)
        scattered(t) == GetRows(Concat(t, tables.t_zero, 1), ins.t_scatter)
        h     == IF fused THEN Add(ins.t_embeds, scattered(y.embeds)) ELSE ins.t_embeds
        ds    == IF fused THEN scattered(y.ds) ELSE IF inject THEN ins.t_ds ELSE Null
        mask  == IF GLm(c).flash /\ GLm(c).fused_ops THEN Cast(ins.t_lmmask, "f16") ELSE ins.t_lmmask
        eagle == GLmParts(c, h, ins.t_pos, mask, seq, IF Has(ds) THEN Named(ds, <<"ds">>) ELSE Null)
        vlsa  == GVlsaBuild(c, GVlln(c, Named(eagle, <<"eagle">>)), seq)
        embs  == Named(vlsa, <<"vl_embs">>)
        d     == GDenoise(c, ins, Null, GText(embs, ins), GetRows(embs, ins.t_img_idx))
        consts == {"t_lmmask"} \cup (IF fused THEN DOMAIN tables ELSE {})
        what  == GContents(r, ids, positions) @@ [t_scatter |-> <<"scatter", ids>>, t_ds |-> <<"deepstack", r.name, ids>>]
                 @@ [n \in DOMAIN tables |-> <<"table", n>>]
        byview == [n \in {"t_img", "t_patches"} \cap DOMAIN ins |-> ByView(ins[n], nv, r)]
        emb   == IF fused THEN [t_embeds |-> Whole(ins.t_embeds, FromHost("emb_cache"))] ELSE <<>>
    IN  [Blank EXCEPT
            !.cache = "main", !.key = <<seq, n_img, seq - n_img, c.g.steps, inject, fused, u8>>, !.ins = ins,
            !.fills = byview @@ emb @@ [n \in DOMAIN ins \ (DOMAIN byview \cup DOMAIN emb) |-> Whole(ins[n], what[n])],
            !.consts = consts, !.kept = consts,
            !.hosts = MaskHost(seq) @@ (IF fused THEN [emb_cache |-> [key |-> ids, value |-> <<"text rows", ids>>]] ELSE <<>>),
            !.parts = ("lm" :> eagle) @@ ("vl" :> vlsa) @@ DenoiseParts(d, GAex(c).layers)
                      @@ (IF fused THEN ("emb" :> y.embeds) @@ ("ds" :> y.ds) ELSE <<>>),
            !.out = d.x, !.read = c.g.action * c.g.horizon, !.pre = fused => ViewsOk(r, q.side),
            !.fetch = TRUE, !.clears = IF fused THEN {"emb_cache"} ELSE {}, !.drop = TRUE]
N17Steps(c, r) ==
    LET q   == c.g.qwen
        p   == GPrompt(r, QTokens(q), c.g.max_seq)
        pos == MropePositions(p.ids, QGrid(q) \div q.merge)
    IN  IF NViews(r) = 0 THEN <<Refusal>>
        ELSE (IF r.pre > 0 \/ N17Fused(c, r) THEN <<>> ELSE QwenVis(c, r))
             \o <<IF p.ok /\ pos # NoPositions THEN N17Main(c, r, p.ids, <<"mrope", pos>>) ELSE Refusal>>

---------------------------------------------------------------------------
(* predict of VLA-JEPA: tower, language model, head, each a graph.         *)

EmbodiedToken == "act"
JepaLm(c, r, ids, pos) ==
    LET seq == Len(ids)
        ins == [t_embeds |-> In2("t_embeds", c.g.hidden, seq), t_pos2 |-> Ids("t_pos", 4 * seq),
                t_lmmask |-> In2("t_lmmask", seq, seq), t_emb_idx |-> Ids("t_emb_idx", c.g.future),
                t_ds |-> In2("t_ds", c.g.hidden, seq)]
        y   == GLmParts(c, ins.t_embeds, ins.t_pos2, ins.t_lmmask, seq, ins.t_ds)
        cond == GetRows(y, ins.t_emb_idx)
    IN  [Blank EXCEPT
            !.cache = "lm", !.key = <<seq, c.g.future>>, !.ins = ins, !.hosts = MaskHost(seq),
            !.fills = Filled(ins, [t_embeds |-> EmbedsOf(r, ids), t_pos2 |-> <<"mrope", pos>>,
                                   t_lmmask |-> FromHost("c_mask"), t_emb_idx |-> <<"embodied", ids>>,
                                   t_ds |-> <<"deepstack", r.name, ids>>]),
            !.parts = [lm |-> cond], !.out = cond, !.read = c.g.hidden * c.g.future, !.fetch = TRUE]
JepaHead(c, r) ==
    LET a   == GAex(c)
        d   == GDit(c)
        ins == [t_cond |-> In2("t_cond", c.g.hidden, c.g.future), t_state |-> In2("t_state", c.g.max_state, 1),
                t_x0 |-> In2("t_x0", c.g.action, c.g.horizon)]
        future == Weight(<<"ah", "future_tokens">>, "f32", D2(c.g.dit, c.g.future))
        tau == Input("tau", "f32", D2(a.embed, a.horizon))
        h0  == Concat(Concat(EncodeState(c.o, a, ins.t_state), future, 1), EncodeAction(c.o, a, ins.t_x0, tau), 1)
        h   == Named(h0, <<"h", "i">>)
        mod(i) == FlowMod(c.o, d, "ah.dit", i)
        cw  == DitWeights(c.o, d, "ah.dit", "sep", c.q, c.g.hidden)
        sw  == DitWeights(c.o, d, "ah.dit", "sep", c.q, d.hidden)
        cross == DitBlock(c.o, d, cw, h, mod(FALSE), ins.t_cond, DitKv(c.o, d, cw, ins.t_cond, Null))
        self  == DitBlock(c.o, d, sw, h, mod(FALSE), Null, NoKV)
        y   == DitProjOut(c.o, d, "ah.dit", a.out, Named(h0, <<"h", "n">>), mod(TRUE))
        last == Cont(Slice(y, 1, (1 + c.g.future + a.horizon) - a.horizon, a.horizon))
        x   == Add(ins.t_x0, Scale(DecodeAction(c.o, a, last), "1/steps"))
    IN  [Blank EXCEPT
            !.cache = "head", !.key = <<c.g.steps>>, !.ins = ins,
            !.fills = Filled(ins, [t_cond |-> <<"conditioning", r.name>>, t_state |-> StateOf(r), t_x0 |-> NoiseOf(r)]),
            !.parts = [dit_in |-> h0, dit0 |-> cross, dit1 |-> self, dit_out |-> x],
            !.out = Need(<<x, cross, self>>, cross.ne = h0.ne /\ self.ne = h0.ne, x), !.read = c.g.action * c.g.horizon]
JepaSteps(c, r) ==
    LET p   == GPrompt(r, QTokens(c.g.qwen), Len(r.lang) + NViews(r) * QTokens(c.g.qwen))
        pos == MropePositions(p.ids, QGrid(c.g.qwen) \div c.g.qwen.merge)
        embodied == Cardinality({i \in DOMAIN p.ids : p.ids[i] = EmbodiedToken})
    IN  IF r.pre > 0 \/ NViews(r) = 0 THEN <<Refusal>>
        ELSE QwenVis(c, r) \o (IF p.ok /\ embodied = c.g.future /\ pos # NoPositions
                               THEN <<JepaLm(c, r, p.ids, pos), JepaHead(c, r)>> ELSE <<Refusal>>)
=============================================================================
