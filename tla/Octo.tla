---------------------------------- MODULE Octo ----------------------------------
(***************************************************************************)
(* Octo (src/src/models/octo.cpp): a tokenizer per camera, a T5 encoder    *)
(* whose rows are kept while the instruction holds, one transformer over   *)
(* the tokens of a window of timesteps, and an action head.  Every window  *)
(* is a cold start: only its last timestep holds a frame.  `c` is as in    *)
(* Gr00t.                                                                  *)
(***************************************************************************)
EXTENDS Arch

TaskTokens    == 16
ProprioTokens == 7
OctoHidden    == 384
Horizon(g)    == g.horizon * g.action

OctoLoadOk(g) ==
    /\ g.has_proprio => g.proprio_in \in {1, 256}
    /\ g.hidden = OctoHidden /\ g.blocks = 12 /\ g.heads = 6 /\ g.ffn = 1536
    /\ g.steps >= 1 /\ g.s > 0 /\ g.max_action > 0
    /\ g.lang = TaskTokens /\ g.readouts = 1 /\ g.window \in 1..10
\* Read at the first call, not at load.
\* Which dataset's statistics: the environment's, the only one, or the one
\* the published mix was always read against.
UnnormKey(g) ==
    IF g.dataset # "" THEN g.dataset
    ELSE IF Cardinality(g.datasets) = 1 THEN CHOOSE d \in g.datasets : TRUE
    ELSE "bridge_dataset"
StatsBlockOk(g) == g.stats_flat \/ UnnormKey(g) \in g.datasets
OctoStatsOk(g) == StatsBlockOk(g) /\ g.stats_dims = g.action /\ (g.proprio_stats > 0 => g.proprio_stats = ProprioTokens)
HeadOk(g)  == g.head \in {"l1", "diffusion"}

OctoO(o)   == [o EXCEPT !.gemm = "f32"]
W32(n, ne) == Weight(<<"octo", n>>, "f32", ne)
B32(n, k)  == F32W("octo", n, k)
OctoLin(o, n, K, N, x) == Linear(o, W32(n, D2(K, N)), B32(n \o ".b", N), x)
OctoLn(n, x)           == LayerNorm(x, B32(n \o ".w", x.ne[1]), B32(n \o ".b", x.ne[1]), "ln_eps")
OctoFusedLn(n, x)      == FusedLn(x, B32(n \o ".w", x.ne[1]), B32(n \o ".b", x.ne[1]), "ln_eps", FALSE, FALSE)
\* The published checkpoints' tanh form, spelled with a sigmoid.
OctoGelu(x, erf) ==
    LET z == Add(x, Scale(Mul(Mul(x, x), x), "0.044715"))
    IN  IF erf THEN GeluErf(x) ELSE Mul(x, Map1("sigmoid", Scale(z, "2*sqrt(2/pi)")))

---------------------------------------------------------------------------
(* The sequence. *)

\* <<group, timestep, tokens>>, in order: what the timesteps of `live` hold is
\* left out elsewhere, never masked.
SeqLayout(g, live, wrist) ==
    LET frames(t) == <<<<"primary", t, g.primary>>>>
                     \o (IF wrist THEN <<<<"wrist", t, g.wrist>>>> ELSE <<>>)
                     \o (IF g.has_proprio THEN <<<<"proprio", t, ProprioTokens>>>> ELSE <<>>)
        at(t) == (IF t \in live THEN frames(t) ELSE <<>>) \o <<<<"language", t, TaskTokens>>, <<"readout", t, 1>>>>
    IN  FoldLeft(\o, <<<<"task", -1, TaskTokens>>>>, [i \in 1..g.window |-> at(i - 1)])
TokensOf(runs)    == FoldLeft(LAMBDA n, u : n + u[3], 0, runs)
StartOf(runs, i)  == TokensOf(SubSeq(runs, 1, i - 1))
Readouts(runs)    == SelectSeq([i \in DOMAIN runs |-> IF runs[i][1] = "readout" THEN StartOf(runs, i) ELSE -1], LAMBDA n : n >= 0)
\* A task token sees the task, an observation what came up to its timestep, a
\* readout also the readouts up to its own.
RunSees(q, k) ==
    CASE k[1] = "task"    -> TRUE
      [] q[1] = "task"    -> FALSE
      [] k[1] = "readout" -> q[1] = "readout" /\ k[2] <= q[2]
      [] OTHER            -> k[2] <= q[2]
MaskBlocks(runs) ==
    {<<StartOf(runs, i), StartOf(runs, j), runs[i][3], runs[j][3]>> :
        <<i, j>> \in {p \in (DOMAIN runs) \X (DOMAIN runs) : RunSees(runs[p[1]], runs[p[2]])}}

ColdStart(g)  == {g.window - 1}
HasWrist(r)   == Len(r.views) >= 2
OctoRuns(g, r) == SeqLayout(g, ColdStart(g), HasWrist(r))

---------------------------------------------------------------------------
(* The tokenizers. *)

\* The goal half of every frame is a constant, written when the graph is new.
ObsFills(r, v, side, steps) ==
    LET n == 3 * side * side
    IN  {<<(2 * t - 2) * n, n, <<"view", r.name, v>>>> : t \in 1..steps}
GoalFills(side, steps) ==
    LET n == 3 * side * side
    IN  {<<(2 * t - 1) * n, n, <<"no goal">>>> : t \in 1..steps}
ObsStem(o, g, view, i, x) ==
    LET p == view \o ".stem." \o ToString(i)
        cout == g.channels[i]
        per(n) == Reshape(B32(p \o n, cout), D4(1, 1, cout, 1))
        y == Add(Conv2dF32(W32(p \o ".conv", D4(3, 3, x.ne[3], cout)), x, 2, 1), per(".conv.b"))
    IN  Relu(Add(Mul(NormOp("group", y, "gn_eps"), per(".gn.w")), per(".gn.b")))
PosRows(n, per, rows) ==
    Reshape(GetRows(Reshape(W32(n, D3(OctoHidden, per, 10)), D2(OctoHidden * per, 10)), rows), D3(OctoHidden, per, rows.ne[1]))
ObsStep(c, r, view, v, side, n_tok, rows) ==
    LET g == c.g
        o == OctoO(c.o)
        k == Len(rows)
        ins == [input |-> Input("input", "f32", D4(side, side, 6, k)), rows |-> Ids("rows", k)]
        stem == FoldLeft(LAMBDA x, i : ObsStem(o, g, view, i, x), ins.input, <<1, 2, 3, 4>>)
        patch == Add(Conv2dF32(W32(view \o ".patch", D4(1, 1, g.channels[4], 512)), Named(stem, <<"stem">>), 1, 0),
                     Reshape(B32(view \o ".patch.b", 512), D4(1, 1, 512, 1)))
        tok == Cont(Reshape(Cont(Permute(patch, <<1, 2, 0, 3>>)), D3(512, n_tok, k)))
        out == Add(OctoLin(o, view \o ".proj", 512, OctoHidden, tok), PosRows(view \o ".pos", n_tok, ins.rows))
        goal == GoalFills(side, k)
    IN  [Blank EXCEPT
            !.cache = "obs_" \o view, !.key = <<side, n_tok, k>>, !.ins = ins, !.kept = {"input"},
            !.fills = [input |-> ObsFills(r, v, side, k) \cup goal, rows |-> Whole(ins.rows, <<"timesteps", rows>>)],
            !.once = {<<"input", w>> : w \in goal},
            !.parts = (view \o ".stem" :> stem) @@ (view \o ".pos" :> out), !.out = out, !.read = OctoHidden * n_tok * k]

\* A value, or the bucket it falls in.
ProprioStep(c, r, rows) ==
    LET g == c.g
        k == Len(rows)
        ins == [tokens |-> Input("tokens", "f32", D3(g.proprio_in, ProprioTokens, k)), rows |-> Ids("rows", k)]
        out == Add(OctoLin(OctoO(c.o), "proprio.proj", g.proprio_in, OctoHidden, ins.tokens), PosRows("proprio.pos", ProprioTokens, ins.rows))
    IN  [Blank EXCEPT
            !.cache = "proprio", !.key = <<g.proprio_in, k>>, !.ins = ins, !.pre = g.proprio_stats > 0,
            !.fills = Filled(ins, [tokens |-> <<IF g.proprio_in = 1 THEN "scores" ELSE "bins", StateOf(r)>>, rows |-> <<"timesteps", rows>>]),
            !.parts = [proprio_pos |-> out], !.out = out, !.read = OctoHidden * ProprioTokens * k]

---------------------------------------------------------------------------
(* The instruction. *)

OctoPad    == "pad"
MaskOf(r)  == IF r.mask # <<>> THEN r.mask ELSE [i \in DOMAIN r.lang |-> r.lang[i] # OctoPad]
LangKey(r) == <<r.lang, MaskOf(r)>>
LangMemo(r) == <<"lang", LangKey(r)>>

\* Exact up to 8 tokens either way, then logarithmic: 15, the furthest of 16
\* tokens, is past 8 * sqrt(2), where the second of the wider buckets starts.
T5Bucket(q, k) ==
    LET d == IF k > q THEN k - q ELSE q - k
    IN  (IF k > q THEN 16 ELSE 0) + (IF d < 8 THEN d ELSE IF d * d < 2 * 8 * 8 THEN 8 ELSE 9)
T5Buckets == [p \in (0..TaskTokens - 1) \X (0..TaskTokens - 1) |-> T5Bucket(p[1], p[2])]
T5Layer(o, mask, x) ==
    LET W(n, K, N) == W32("t5." \o n, D2(K, N))
        norm(n, t) == RmsNormW(t, B32("t5." \o n, 768), "t5_eps")
        n1 == norm("attn_norm", x)
        q  == ToHeads(MulMat(W("q", 768, 768), n1), 64, 12, TaskTokens, 1)
        k  == ToHeads(MulMat(W("k", 768, 768), n1), 64, 12, TaskTokens, 1)
        v  == ToHeadsV(MulMat(W("v", 768, 768), n1), 64, 12, TaskTokens, 1)
        x1 == Add(x, MulMat(W("o", 768, 768), Attention(q, k, v, mask, 1, 768, TaskTokens, 1)))
        cut == Named(x1, <<"t5 attended">>)
    IN  <<x1, Add(cut, FfnRelu(o, W("up", 768, 3072), Null, W("down", 3072, 768), Null, norm("ffn_norm", cut)))>>
T5Step(c, r) ==
    LET n == TaskTokens
        ins == [ids |-> Ids("ids", n), bucket |-> Input("bucket", "i32", D2(n, n)), padmask |-> In2("padmask", n, n)]
        x == GetRows(W32("t5.tok", D2(768, c.g.vocab)), ins.ids)
        bias == Reshape(GetRows(W32("t5.rel", D2(12, 32)), Reshape(ins.bucket, D1(n * n))), D3(12, n, n))
        mask == Add(Cont(Permute(bias, <<2, 0, 1, 3>>)), ins.padmask)
        blk  == T5Layer(OctoO(c.o), Named(mask, <<"t5 mask">>), Named(x, <<"t5 x">>))
        out == RmsNormW(Named(blk[2], <<"t5 y">>), B32("t5.out", 768), "t5_eps")
    IN  [Blank EXCEPT
            !.cache = "t5", !.key = <<n>>, !.ins = ins, !.pre = InVocab(r), !.memo = LangMemo(r),
            !.fills = Filled(ins, [ids |-> <<"ids", r.lang>>, bucket |-> <<"buckets", T5Buckets>>, padmask |-> <<"pads", MaskOf(r)>>]),
            !.parts = [t5_x |-> x, t5_mask |-> mask, t5_att |-> blk[1], t5_y |-> blk[2], t5_out |-> out], !.out = out, !.read = 768 * n]
\* The projected rows, once for the prefix and once for each timestep.
LanguageStep(c, r) ==
    LET g == c.g
        ins == [in |-> Input("in", "f32", D3(768, TaskTokens, 1))]
        pos == Add(OctoLin(OctoO(c.o), "lang.proj", 768, OctoHidden, ins.in), W32("lang.pos", D2(OctoHidden, TaskTokens)))
        rep == Repeat(pos, D4(OctoHidden, TaskTokens, g.window, 1))
    IN  [Blank EXCEPT
            !.cache = "language", !.key = <<g.window>>, !.ins = ins, !.memo = LangMemo(r),
            !.fills = Filled(ins, [in |-> <<"t5", LangKey(r)>>]),
            !.parts = [lang_pos |-> pos, lang_rep |-> rep], !.out = rep, !.read = OctoHidden * TaskTokens * g.window,
            !.learns = [lang |-> [key |-> LangKey(r), value |-> <<"lang", LangKey(r)>>]]]

---------------------------------------------------------------------------
(* The transformer. *)

OctoBlock(o, g, n, mask, x) ==
    LET qkv == OctoLin(o, "qkv", OctoHidden, 3 * OctoHidden, OctoLn("ln1", x))
        part(i, ax) == Cont(Permute(HeadView(qkv, 64, 6, n, OctoHidden, 3, i), ax))
        att == Attention(part(0, <<0, 2, 1, 3>>), part(1, <<0, 2, 1, 3>>), part(2, <<1, 2, 0, 3>>), mask, "1/8", OctoHidden, n, 1)
        x1  == Add(x, OctoLin(o, "o", OctoHidden, OctoHidden, att))
    IN  Add(x1, OctoLin(o, "down", g.ffn, OctoHidden, OctoGelu(OctoLin(o, "up", OctoHidden, g.ffn, OctoLn("ln2", x1)), g.pytorch)))
OctoBlockFused(o, g, n, mask, x) ==
    LET W(k, K, N) == W32(k, D2(K, N))
        qkv == FusedQkvHeads(MulMat(W("qkv", OctoHidden, 3 * OctoHidden), OctoFusedLn("ln1", x)), B32("qkv.b", 3 * OctoHidden), Null, Null,
                             3, 64, 6, n, 1, {2}, {}, <<0, 1, 2>>, FALSE)
        part(i) == FusedPart(qkv, i, i = 2, 64, 6, n, 1)
        att == FusedAttnExact(part(0), part(1), part(2), "1/8", FALSE, 1, mask)
        x1  == FusedBiasRes(MulMat(W("o", OctoHidden, OctoHidden), att), B32("o.b", OctoHidden), x)
        up  == MulMat(W("up", OctoHidden, g.ffn), OctoFusedLn("ln2", x1))
        mlp == IF g.pytorch THEN FusedBiasGeluErf(up, B32("up.b", g.ffn), FALSE) ELSE OctoGelu(Add(up, B32("up.b", g.ffn)), FALSE)
    IN  FusedBiasRes(MulMat(W("down", g.ffn, OctoHidden), mlp), B32("down.b", OctoHidden), x1)
\* What a run's rows hold; one tensor_set writes them all.
RunRows(r, u) ==
    CASE u[1] \in {"task", "language"} -> FromHost("lang")
      [] u[1] = "readout" -> <<"readout", u[2]>>
      [] OTHER -> <<u[1], r.name>>
OctoTransformer(c, r) ==
    LET g == c.g
        o == OctoO(c.o)
        runs == OctoRuns(g, r)
        n == TokensOf(runs)
        p == GemmWidth(o, n)
        reads == Readouts(runs)
        ins == [input |-> In2("input", OctoHidden, p), mask |-> In2("mask", p, p), readout_idx |-> Ids("readout_idx", Len(reads))]
        in0 == Named(ins.input, <<"x">>)
        x1 == IF o.fused /\ p = n /\ n <= 4096 THEN OctoBlockFused(o, g, n, ins.mask, in0) ELSE OctoBlock(o, g, p, ins.mask, in0)
        out == GetRows(OctoLn("norm", Named(x1, <<"y">>)), ins.readout_idx)
        rows == {<<StartOf(runs, i) * OctoHidden, runs[i][3] * OctoHidden, RunRows(r, runs[i])>> : i \in DOMAIN runs}
    IN  [Blank EXCEPT
            !.cache = "transformer", !.key = runs, !.ins = ins, !.pre = g.readout_rows >= g.window,
            !.fills = [input |-> IF p = n THEN rows ELSE rows \cup {<<n * OctoHidden, (p - n) * OctoHidden, <<"zeros">>>>},
                       mask |-> Whole(ins.mask, <<"sees", n, MaskBlocks(runs)>>), readout_idx |-> Whole(ins.readout_idx, <<"readouts", reads>>)],
            !.consts = {"mask", "readout_idx"}, !.kept = {"mask", "readout_idx"},
            !.needs = [lang |-> [key |-> LangKey(r), value |-> <<"lang", LangKey(r)>>]],
            !.parts = [block |-> x1, out |-> out], !.out = out, !.read = OctoHidden * Len(reads)]

---------------------------------------------------------------------------
(* The heads. *)

ScoreActor(o, g, t, obs, x) ==
    LET f  == Scale(MulMat(W32("time", D2(1, g.fourier)), t), "2 pi")
        ff == Concat(Map1("cos", f), Map1("sin", f), 0)
        cond == OctoLin(o, "cond1", 4 * g.fourier, 2 * g.fourier, Silu(OctoLin(o, "cond0", 2 * g.fourier, 4 * g.fourier, ff)))
        x0 == OctoLin(o, "rin", 2 * g.fourier + OctoHidden + Horizon(g), 256, Concat(Concat(cond, obs, 0), x, 0))
        up(n) == Silu(OctoLin(o, "fc1", 256, 1024, n))
        x1 == IF o.fused THEN FusedBiasRes(MulMat(W32("fc2", D2(1024, 256)), up(OctoFusedLn("ln", x0))), B32("fc2.b", 256), x0)
              ELSE Add(x0, OctoLin(o, "fc2", 1024, 256, up(OctoLn("ln", x0))))
    IN  OctoLin(o, "rout", 256, g.routs, Silu(x1))
\* Every reverse step in one graph; the last adds no noise.
DiffusionStep(c, r) ==
    LET g == c.g
        o == OctoO(c.o)
        w == g.window
        a == Horizon(g)
        ins == [obs |-> In2("obs", OctoHidden, w), x0 |-> In2("x0", a, w), z |-> Input("z", "f32", D3(a, w, g.steps)),
                times |-> Input("times", "f32", D3(1, w, g.steps))]
        one(x, s) ==
            LET eps == ScoreActor(o, g, Slice(ins.times, 2, s, 1), ins.obs, x)
                y == Scale(Add(x, Scale(eps, <<"alpha_2", g.steps - 1 - s>>)), <<"alpha_1", g.steps - 1 - s>>)
                z == Slice(ins.z, 2, s, 1)
            IN  Map1("clamp", IF s < g.steps - 1 THEN Add(y, Scale(z, <<"sqrt beta", g.steps - 1 - s>>)) ELSE y)
        xs  == FoldLeft(LAMBDA ys, s : Append(ys, one(Named(ys[Len(ys)], <<"x", s>>), s)), <<ins.x0>>, [i \in 1..g.steps |-> i - 1])
        out == Cont(Slice(xs[g.steps + 1], 1, w - 1, 1))
        built == g.routs = a
    IN  [Blank EXCEPT
            !.cache = "diffusion", !.key = <<w, a, g.steps>>, !.ins = ins, !.pre = built,
            !.fills = Filled(ins, [obs |-> <<"readouts", r.name>>, x0 |-> NoiseOf(r), z |-> <<"step noise", r.name, r.noise>>, times |-> <<"times", g.steps>>]),
            !.parts = [x1 |-> xs[2], last |-> xs[g.steps + 1], actions |-> out], !.out = out, !.read = a]
\* A head of attention over one row each; the probe goes through the rows' own projection.
L1Step(c, r) ==
    LET g == c.g
        o == OctoO(c.o)
        w == g.window
        ins == [readout |-> In2("readout", OctoHidden, w)]
        qkv(x) == OctoLin(o, "map.qkv", OctoHidden, 3 * OctoHidden, x)
        q == ToHeads(Cont(RowPart(qkv(W32("map.probe", D2(OctoHidden, 1))), 3, 0)), 48, 8, 1, 1)
        k == ToHeads(Cont(RowPart(qkv(ins.readout), 3, 1)), 48, 8, 1, w)
        v == ToHeadsV(Cont(RowPart(qkv(ins.readout), 3, 2)), 48, 8, 1, w)
        att == MulMat(v, SoftMaxExt(MulMat(q, k), Null, "1/sqrt(48)"))
        own == OctoLin(o, "map.o", OctoHidden, OctoHidden, Reshape(Cont(Permute(att, <<0, 2, 1, 3>>)), D2(OctoHidden, w)))
        cut == Named(own, <<"attended">>)
        h   == OctoGelu(OctoLin(o, "map.up", OctoHidden, g.ffn, OctoLn("map.norm", cut)), g.pytorch)
        emb == Add(cut, OctoLin(o, "map.down", g.ffn, OctoHidden, h))
        out == Scale(Tanh(Scale(OctoLin(o, "mean", OctoHidden, g.means, emb), "1/max_action")), "max_action")
    IN  [Blank EXCEPT
            !.cache = "l1_head", !.key = <<w, Horizon(g)>>, !.ins = ins, !.pre = g.means = Horizon(g),
            !.fills = Filled(ins, [readout |-> <<"readouts", r.name>>]),
            !.parts = [attended |-> own, mean |-> out], !.out = out, !.read = Horizon(g) * w]

OctoAccepts(g, r) ==
    /\ Len(r.views) >= 1 /\ r.pre = 0 /\ Len(r.lang) = TaskTokens /\ Len(r.mask) \in {0, TaskTokens}
    /\ \A v \in 1..(IF HasWrist(r) THEN 2 ELSE 1) : r.views[v].data /\ r.views[v].fmt = "u8"
OctoSteps(c, r) ==
    LET g == c.g
        rows == <<g.window - 1>>
    IN  IF ~OctoAccepts(g, r) \/ ~HeadOk(g) \/ ~OctoStatsOk(g) THEN <<Refusal>>
        ELSE <<ObsStep(c, r, "primary", 1, g.primary_side, g.primary, rows)>>
             \o (IF HasWrist(r) THEN <<ObsStep(c, r, "wrist", 2, g.wrist_side, g.wrist, rows)>> ELSE <<>>)
             \o (IF g.has_proprio THEN <<ProprioStep(c, r, rows)>> ELSE <<>>)
             \o <<T5Step(c, r), LanguageStep(c, r), OctoTransformer(c, r), IF g.head = "l1" THEN L1Step(c, r) ELSE DiffusionStep(c, r)>>
=============================================================================
