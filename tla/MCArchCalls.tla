----------------------------- MODULE MCArchCalls -----------------------------
(* Models and requests for ArchCalls: the files' own dimensions, one layer  *)
(* per tower, small images.                                                 *)
EXTENDS ArchCalls, Gr00t, Pi, DualVla, Evo1, Act, Turbo, Octo, Smol, Bitvla

LoadOk(c) ==
    CASE c.arch = "gr00t_n1_5" -> N15LoadOk(c.g)
      [] c.arch = "gr00t_n1_6" -> N16LoadOk(c.g)
      [] c.arch \in {"gr00t_n1_7", "vla_jepa"} -> QwenCfgOk(c.g.qwen)
      [] c.arch \in {"pi0", "pi05"} -> PiLoadOk(c.g)
      [] c.arch = "openvla_oft" -> OftLoadOk(c.g)
      [] c.arch = "vla_adapter" -> AdapterLoadOk(c.g)
      [] c.arch = "evo1" -> EvoLoadOk(c.g)
      [] c.arch = "act"  -> ActLoadOk(c.g)
      [] c.arch = "turbovla" -> TurboLoadOk(c.g)
      [] c.arch = "octo" -> OctoLoadOk(c.g)
      [] c.arch = "smolvla" -> SmolLoadOk(c.g)
      [] c.arch = "bitvla" -> BitvlaLoadOk(c)
\* What a load does not compare; the others' loads compare all that their
\* graphs of these files depend on.
Agrees(c) ==
    CASE c.arch = "evo1"   -> EvoAgrees(c.g)
      [] c.arch = "bitvla" -> BitvlaAgrees(c)
      [] OTHER -> TRUE
Steps(c, r) ==
    CASE c.arch = "gr00t_n1_5" -> N15Steps(c, r)
      [] c.arch = "gr00t_n1_6" -> N16Steps(c, r)
      [] c.arch = "gr00t_n1_7" -> N17Steps(c, r)
      [] c.arch = "vla_jepa"   -> JepaSteps(c, r)
      [] c.arch = "pi0"        -> Pi0Steps(c, r)
      [] c.arch = "pi05"       -> Pi05Steps(c, r)
      [] c.arch = "openvla_oft" -> OftSteps(c, r)
      [] c.arch = "vla_adapter" -> AdapterSteps(c, r)
      [] c.arch = "evo1"        -> EvoSteps(c, r)
      [] c.arch = "act"         -> ActPolicySteps(c, r)
      [] c.arch = "turbovla"    -> TurboSteps(c, r)
      [] c.arch = "octo"        -> OctoSteps(c, r)
      [] c.arch = "smolvla"     -> SmolSteps(c, r)
      [] c.arch = "bitvla"      -> BitvlaSteps(c, r)

Cpu == [gemm |-> "bf16", fused |-> FALSE, fused_enc |-> FALSE, gemm_exact |-> FALSE, attn_exact |-> FALSE,
        hexagon |-> FALSE, default_fa |-> TRUE, flash |-> FALSE, fa_views |-> FALSE, ew |-> FALSE, act |-> "f32",
        backend |-> "cpu", rope_kv_fuse |-> FALSE, fa_q8 |-> FALSE, fmha_kv |-> FALSE, fq_sycl |-> TRUE,
        fq_openvino |-> TRUE, ov_npu |-> FALSE, fq_dequant |-> FALSE, fq_fuse |-> TRUE, fq_act_fuse |-> TRUE,
        glu_act |-> FALSE, gr00t_no_fuse |-> FALSE, n17_fuse |-> FALSE, fused_ops |-> "all",
        fused_vit |-> "default", lm_flash |-> FALSE, off |-> {}, pi_q8 |-> {}, pi_w4 |-> FALSE, lang_bucket |-> -1,
        weight_dtype |-> "none", conv_mma |-> TRUE]
Cuda      == [Cpu EXCEPT !.backend = "cuda", !.fused = TRUE]
CudaExact == [Cuda EXCEPT !.gemm_exact = TRUE, !.attn_exact = TRUE]
Flash(o)  == [o EXCEPT !.flash = TRUE, !.lm_flash = TRUE]
Sycl      == [Cpu EXCEPT !.backend = "sycl", !.fa_views = TRUE, !.ew = TRUE, !.n17_fuse = TRUE]
W8 == [wbits |-> 8, abits |-> 8, wide4 |-> FALSE, eps |-> "rms_eps", has_ascale |-> TRUE, fold_before |-> TRUE,
       rot_block |-> 64, no_heads |-> FALSE]

Gr00tFile ==
    [image |-> 84, patch |-> 14, shuffle |-> 2, heads |-> 16, vit |-> 1152, vit_ff |-> 4304, hidden |-> 2048, nq |-> 16,
     nkv |-> 8, hd |-> 128, inter |-> 6144, dit |-> 1536, dit_heads |-> 32, dit_hd |-> 48, vlsa_heads |-> 32,
     in_embed |-> 1536, horizon |-> 16, action |-> 32, out |-> 1024, every_n |-> 2, max_state |-> 64, steps |-> 4,
     future |-> 32, max_seq |-> 84, n_img |-> 36]
Qwen == [QwenCfg EXCEPT !.side = 64]
JepaFile ==
    [Gr00tFile EXCEPT !.dit = 768, !.dit_heads = 12, !.dit_hd = 64, !.in_embed = 768, !.horizon = 7, !.action = 7,
                      !.max_state = 8, !.future = 2] @@ [qwen |-> Qwen]
Model(arch, g, o, q) == [arch |-> arch, o |-> o, q |-> q, g |-> g]
N15(o, q) == Model("gr00t_n1_5", Gr00tFile, o, q)
N16(o, q) == Model("gr00t_n1_6", [Gr00tFile EXCEPT !.n_img = 9], o, q)
N17(o, q) == Model("gr00t_n1_7", Gr00tFile @@ [qwen |-> Qwen], o, q)
Jepa(o)   == Model("vla_jepa", JepaFile, o, NoFq)
PiFile ==
    [hidden |-> 2048, inter |-> 16384, nq |-> 8, nkv |-> 1, hd |-> 256, expert_h |-> 1024, expert_inter |-> 4096,
     chunk |-> 50, n_img |-> 256, max_state |-> 32, action |-> 32, steps |-> 10]
Pi0(o)     == Model("pi0", PiFile, o, NoFq)
Pi05(o, q) == Model("pi05", PiFile, o, q)
PiSycl     == [Sycl EXCEPT !.fmha_kv = TRUE]
PiBf16     == [PiSycl EXCEPT !.act = "bf16"]
\* A language segment of a fixed width, as OpenVINO's static shapes need.
Bucketed(o) == [o EXCEPT !.lang_bucket = 16]
OftFile ==
    [hidden |-> 4096, nq |-> 32, nkv |-> 32, hd |-> 128, inter |-> 11008, chunk |-> 8, action |-> 7, state |-> 8,
     vocab |-> 32064, stats |-> <<>>, suite |-> ""]
AdapterFile ==
    [OftFile EXCEPT !.hidden = 896, !.nq = 14, !.nkv = 2, !.hd = 64, !.inter = 4864, !.vocab = 151936]
    @@ [tokens |-> 64, heads |-> 8, head_dim |-> 112, blocks |-> 24, layers |-> 24]
Oft(o)     == Model("openvla_oft", OftFile, o, NoFq)
Adapter(o) == Model("vla_adapter", AdapterFile, o, NoFq)
EvoFile ==
    [hidden |-> 896, embed |-> 896, nq |-> 14, nkv |-> 2, hd |-> 64, inter |-> 4864, horizon |-> 50, per_a |-> 24,
     action |-> 1200, n_stats |-> 24, dit_heads |-> 8, ff |-> 3584, ae |-> 1024, steps |-> 32, n_img |-> 4, max_text |-> 40,
     vit |-> 1024, vit_heads |-> 16, image |-> 56, patch |-> 14, real |-> 7, vision |-> TRUE]
Evo(o) == Model("evo1", EvoFile, o, NoFq)
ActFile ==
    [dim |-> 512, heads |-> 8, ff |-> 3200, chunk |-> 100, state |-> 14, action |-> 14, views |-> 1, blocks |-> <<2, 2, 2, 2>>,
     channels |-> <<64, 128, 256, 512>>, proj_in |-> 512, proj_out |-> 512, pre_norm |-> FALSE, gelu |-> FALSE,
     pos_rows |-> 2, image_stats |-> 3, state_stats |-> 14, action_stats |-> 14]
ActOf(o) == Model("act", ActFile, o, NoFq)
\* No state, two cameras.
ActPairOf(o) ==
    Model("act", [ActFile EXCEPT !.views = 2, !.state = 0, !.pre_norm = TRUE, !.gelu = TRUE, !.pos_rows = 1, !.image_stats = 6,
                                 !.state_stats = 0], o, NoFq)
TurboFile ==
    [hidden |-> 256, views |-> 2, image |-> 64, patch |-> 16, reg |-> 4, vit |-> 768, vit_heads |-> 12, bert |-> 768,
     bert_heads |-> 12, vocab |-> 30522, fusion_heads |-> 4, fusion_hd |-> 0, enh_heads |-> 4, dec_heads |-> 8,
     horizon |-> 12, action |-> 7, state |-> 8, state_tok |-> 2, text_max |-> 6, max_pos |-> 512, has_groups |-> TRUE,
     groups |-> <<[ids |-> <<"cls", "x", "sep">>, pad_to |-> 4]>>, vit_norm |-> TRUE, word_rows |-> 30522,
     patch_in |-> 768, reg_rows |-> 4, view_elems |-> 512, query_rows |-> 12, cross_rows |-> 768]
TurboOf(o) == Model("turbovla", TurboFile, o, NoFq)
OctoFile ==
    [hidden |-> 384, blocks |-> 12, heads |-> 6, ffn |-> 1536, steps |-> 2, s |-> 8, max_action |-> 5, lang |-> 16, readouts |-> 1,
     window |-> 2, has_proprio |-> TRUE, proprio_in |-> 256, proprio_stats |-> 7, stats_dims |-> 7, action |-> 7, horizon |-> 4,
     head |-> "diffusion", primary |-> 16, wrist |-> 4, primary_side |-> 64, wrist_side |-> 32, channels |-> <<32, 96, 192, 384>>,
     vocab |-> 32128, pytorch |-> FALSE, readout_rows |-> 10, fourier |-> 16, routs |-> 28, means |-> 28,
     dataset |-> "", datasets |-> {"bridge_dataset", "fractal"}, stats_flat |-> FALSE]
OctoOf(o)   == Model("octo", OctoFile, o, NoFq)
OctoL1Of(o) == Model("octo", [OctoFile EXCEPT !.head = "l1", !.pytorch = TRUE, !.has_proprio = FALSE, !.window = 1], o, NoFq)
SmolFile ==
    [hidden |-> 960, nq |-> 15, nkv |-> 5, hd |-> 64, inter |-> 2560, expert_h |-> 720, expert_inter |-> 2048, chunk |-> 50,
     max_state |-> 32, action |-> 32, real_state |-> 6, real_action |-> 6, state_stats |-> 6, action_stats |-> 6, n_lang |-> 8,
     steps |-> 10, every_n |-> 2, vit |-> 768, vit_heads |-> 12, vit_inter |-> 3072, patch |-> 16, image |-> 128, scale |-> 4,
     n_img |-> 4, embd_width |-> 960, gguf |-> TRUE, packed |-> FALSE]
SmolOf(o) == Model("smolvla", SmolFile, o, NoFq)
\* A tensor of a checkpoint, in BF16.
Bf16At(shape, n) == [dtype |-> "BF16", shape |-> shape, from |-> 16, to |-> 16 + 2 * n]
SmolCheckpoint(o) ==
    Model("smolvla", [SmolFile EXCEPT !.gguf = FALSE]
                     @@ [unsupported |-> FALSE, gate |-> Bf16At(<<2048, 720>>, 2048 * 720),
                         stats |-> [found |-> TRUE, mean |-> Bf16At(<<6>>, 6), std |-> Bf16At(<<7>>, 7)]], o, NoFq)
BitFile ==
    [image |-> 224, patch |-> 14, n_patches |-> 256, nkv |-> 5, hd |-> 128, nq |-> 20, hidden |-> 2560, inter |-> 6912,
     vit |-> 1152, vit_heads |-> 16, vit_hd |-> 72, vit_inter |-> 4304, chunk |-> 8, action |-> 7, state |-> 8, max_pos |-> 4096,
     packed |-> FALSE, quantized |-> FALSE, stop_in_file |-> TRUE, suite |-> "", first_suite |-> "goal",
     suites |-> [goal |-> [q01 |-> [i \in 1..7 |-> 0], q99 |-> [i \in 1..7 |-> 1], mask |-> <<>>]]]
BitOf(o) == Model("bitvla", BitFile, o, NoFq)
MCModels ==
    [n15 |-> N15(Cpu, NoFq), n15_cuda |-> N15(CudaExact, NoFq), n15_sycl |-> N15(Sycl, NoFq), n15_w8 |-> N15(Cuda, W8),
     n16 |-> N16(Cpu, NoFq), n16_cuda |-> N16(Flash(Cuda), NoFq), n16_sycl |-> N16(Sycl, NoFq), n16_w8 |-> N16(Sycl, W8),
     n16_odd |-> Model("gr00t_n1_6", Gr00tFile, Cpu, NoFq),
     n17 |-> N17(Cpu, NoFq), n17_cuda |-> N17(Cuda, NoFq), n17_sycl |-> N17(Sycl, NoFq), n17_w8 |-> N17(CudaExact, W8),
     n17_host |-> N17([CudaExact EXCEPT !.fused_vit = "off"], NoFq),
     jepa |-> Jepa(Cpu), jepa_cuda |-> Jepa(Flash(Cuda)),
     pi0 |-> Pi0(Cpu), pi0_cuda |-> Pi0(Cuda), pi0_bf16 |-> Pi0([Flash(Cuda) EXCEPT !.act = "bf16"]),
     pi05 |-> Pi05(Cpu, NoFq), pi05_cuda |-> Pi05(Cuda, NoFq), pi05_sycl |-> Pi05(PiSycl, NoFq),
     pi05_bf16 |-> Pi05(PiBf16, NoFq), pi05_q8 |-> Pi05([PiBf16 EXCEPT !.pi_q8 = {"vit", "vlm", "expert"}], NoFq),
     pi05_w8 |-> Pi05(PiSycl, W8), pi05_pad |-> Pi05(Bucketed(Cpu), NoFq),
     oft |-> Oft(Cpu), oft_cuda |-> Oft(CudaExact), adapter |-> Adapter(Cpu), adapter_cuda |-> Adapter(CudaExact),
     adapter_sycl |-> Adapter(Flash(Sycl)), adapter_npu |-> Adapter([Cpu EXCEPT !.hexagon = TRUE]),
     evo |-> Evo(Cpu), evo_cuda |-> Evo(CudaExact), evo_bf16 |-> Evo([Flash(Cuda) EXCEPT !.act = "bf16"]),
     evo_sycl |-> Evo(Sycl), evo_fused |-> Evo([Sycl EXCEPT !.act = "bf16"]),
     evo_noflash |-> Evo([Sycl EXCEPT !.act = "bf16", !.off = {"flash"}]),
     evo_blind |-> Model("evo1", [EvoFile EXCEPT !.vision = FALSE], Cpu, NoFq),
     act |-> ActOf(Cpu), act_cuda |-> ActOf(Flash(CudaExact)), act_f32 |-> ActOf([Cuda EXCEPT !.weight_dtype = "f32"]),
     act_npu |-> ActOf([Cpu EXCEPT !.hexagon = TRUE]), act_pair |-> ActPairOf(Cpu), act_pair_cuda |-> ActPairOf(Cuda),
     turbo |-> TurboOf(Cpu), turbo_cuda |-> TurboOf(CudaExact), turbo_flash |-> TurboOf(Flash(Cuda)), turbo_sycl |-> TurboOf(Sycl),
     octo |-> OctoOf(Cpu), octo_cuda |-> OctoOf(Cuda), octo_npu |-> OctoL1Of([Cpu EXCEPT !.hexagon = TRUE]), octo_l1 |-> OctoL1Of(CudaExact),
     smol |-> SmolOf(Cpu), smol_cuda |-> SmolOf(CudaExact), smol_flash |-> SmolCheckpoint(Flash(Cuda)), smol_sycl |-> SmolOf(Sycl),
     smol_vit |-> SmolOf([Sycl EXCEPT !.off = {"vit_fuse"}]), smol_q8 |-> SmolOf([Sycl EXCEPT !.pi_q8 = {"vit", "vlm", "expert"}]),
     smol_packed |-> Model("smolvla", [SmolFile EXCEPT !.packed = TRUE], Sycl, NoFq), smol_npu |-> SmolOf([Cpu EXCEPT !.hexagon = TRUE]),
     bit |-> BitOf(Cpu), bit_cuda |-> BitOf(Cuda), bit_ladder |-> BitOf([Cuda EXCEPT !.off = {"mma", "free_weights"}]),
     bit_head |-> BitOf([Cuda EXCEPT !.off = {"cuda_head"}]), bit_bf16 |-> BitOf([Cuda EXCEPT !.weight_dtype = "bf16"]),
     bit_lm |-> BitOf([Cuda EXCEPT !.off = {"vit_setup"}]), bit_vit |-> BitOf([Cuda EXCEPT !.off = {"lm_buffers"}]),
     bit_q8 |-> Model("bitvla", [BitFile EXCEPT !.quantized = TRUE], Cuda, NoFq),
     bit_packed |-> Model("bitvla", [BitFile EXCEPT !.packed = TRUE], Cuda, NoFq),
     adapter_bad |-> Model("vla_adapter", [AdapterFile EXCEPT !.blocks = 25], Cpu, NoFq)]
\* Files that load and do not agree with themselves: fewer slots for a view's
\* rows than the tower makes, or more; a width that no ladder GEMM is compiled for.
OddModels ==
    [evo_few |-> Model("evo1", [EvoFile EXCEPT !.n_img = 2], Cpu, NoFq),
     evo_many |-> Model("evo1", [EvoFile EXCEPT !.n_img = 9], Cpu, NoFq),
     bit_narrow |-> Model("bitvla", [BitFile EXCEPT !.inter = 5632], [Cuda EXCEPT !.off = {"mma"}], NoFq)]
\* The width of a padded segment is a choice of shapes, not of a function.
\* A packed file is compared with the unpacked one it was made from.
PlainBuild ==
    LET plain(c) == [c EXCEPT !.o = [Cpu EXCEPT !.fq_dequant = TRUE, !.lang_bucket = c.o.lang_bucket],
                              !.g = IF c.arch = "bitvla" THEN [@ EXCEPT !.packed = FALSE] ELSE @]
    IN  [m \in DOMAIN MCModels |-> plain(MCModels[m])]

View(w, f) == [data |-> TRUE, w |-> w, h |-> w, fmt |-> f]
Ask(name, n, side, f, lang) ==
    [name |-> name, views |-> [v \in 1..n |-> View(side, f)], pre |-> 0, lang |-> lang, state |-> TRUE, noise |-> TRUE]
Words(n, w) == [i \in 1..n |-> w]
\* Two requests of one shape; one as long with another number of views; one
\* with embeddings of its own and a longer prompt; one with pixels of another sort or size.
Of(side, k, extra) ==
    LET one(name, w) == Ask(name, 1, side, "f32", Words(k + 2, w) \o extra)
    IN  [a |-> one("a", "x"), b |-> [one("b", "y") EXCEPT !.state = FALSE, !.noise = FALSE],
         two |-> Ask("two", 2, side, "f32", Words(2, "x") \o extra),
         pre |-> [one("pre", "x") EXCEPT !.views = <<>>, !.pre = 1, !.lang = <<"x">> \o @],
         u8  |-> Ask("u8", 1, side, "u8", Words(k + 2, "x") \o extra),
         odd |-> [Ask("odd", 2, side, "f32", extra) EXCEPT !.views[2] = View(side - 14, "u8")],
         none |-> [one("none", "x") EXCEPT !.views = <<>>]]
\* Evo-1's prompt may come framed, and the client may say what it covers.
EvoRequests ==
    LET own(r) == r @@ [mask |-> <<>>]
        ask(k) == Of(56, 0, <<"z">>)[k]
    IN  [a |-> own(ask("a")), b |-> ask("b") @@ [mask |-> <<"b", 40>>], short |-> ask("a") @@ [mask |-> <<"a", 39>>],
         framed |-> own(Ask("framed", 1, 56, "f32", <<"x", Ctx, Ctx, Ctx, Ctx>>)),
         long |-> own(Ask("long", 1, 56, "f32", Words(29, "x"))), two |-> own(ask("two")), odd |-> own(ask("odd")),
         pre |-> own(ask("pre")), none |-> own(ask("none"))]
\* The same views in another order of sides, as many or fewer.
ActRequests ==
    LET sized(name, n, w, h) == [Ask(name, n, 96, "u8", <<>>) EXCEPT !.views = [v \in 1..n |-> [@[v] EXCEPT !.w = w, !.h = h]]]
    IN  [a |-> sized("a", 1, 96, 65), b |-> sized("b", 1, 96, 65), tall |-> sized("tall", 1, 65, 96),
         two |-> sized("two", 2, 96, 65), pair |-> sized("pair", 2, 65, 96), tiny |-> sized("tiny", 1, 96, 31),
         mute |-> [sized("mute", 1, 96, 65) EXCEPT !.state = FALSE], pre |-> Of(96, 0, <<>>)["pre"]]
\* A listed instruction, another as long, one of two sentences, one padded by the caller.
TurboRequests ==
    LET ask(name, ids) == Ask(name, 2, 64, "u8", ids)
    IN  [a |-> ask("a", <<"cls", "x", "sep">>), again |-> [ask("again", <<"cls", "x", "sep">>) EXCEPT !.state = FALSE],
         b |-> ask("b", <<"cls", "y", "sep">>), c |-> ask("c", <<"cls", "x", ".", "y", "sep">>),
         padded |-> ask("padded", <<"cls", "y", "sep", PadId>>), odd |-> ask("odd", <<"cls", OutOfVocab>>),
         long |-> ask("long", Words(7, "x")), one |-> Ask("one", 1, 64, "u8", <<"cls", "x", "sep">>)]
\* One camera or two; the same words with another mask.
OctoRequests ==
    LET ask(name, n, w) == Ask(name, n, 96, "u8", Words(15, w) \o <<OctoPad>>) @@ [mask |-> <<>>]
    IN  [a |-> ask("a", 2, "x"), b |-> [ask("b", 2, "y") EXCEPT !.state = FALSE, !.noise = FALSE], one |-> ask("one", 1, "x"),
         masked |-> [ask("masked", 1, "x") EXCEPT !.mask = Words(16, TRUE)], odd |-> ask("odd", 1, OutOfVocab),
         short |-> [ask("short", 1, "x") EXCEPT !.lang = Words(15, "x")], floats |-> [ask("floats", 1, "x") EXCEPT !.views[1].fmt = "f32"]]
\* A prompt at its longest; one too long; some timed in phases.
SmolRequests ==
    LET timed(r, p) == r @@ [phase |-> p]
        ask == Of(128, 0, <<"z">>)
    IN  [a |-> timed(ask["a"], FALSE), b |-> timed(ask["b"], FALSE), two |-> timed(ask["two"], FALSE), pre |-> timed(ask["pre"], FALSE),
         odd |-> timed(ask["odd"], FALSE), full |-> timed(Ask("full", 1, 128, "u8", Words(8, "x")), FALSE),
         long |-> timed(Ask("long", 1, 128, "u8", Words(9, "x")), FALSE), ta |-> timed(ask["a"], TRUE), tb |-> timed(ask["b"], TRUE),
         ttwo |-> timed(ask["two"], TRUE), bad |-> timed(Ask("bad", 1, 128, "u8", <<OutOfVocab>>), TRUE)]
\* A prompt that places the image and the state; one that places half of
\* them; one longer than the CUDA buffers.
BitRequests ==
    LET ask(name, n, lang) == Ask(name, n, 224, "u8", lang)
    IN  [a |-> ask("a", 1, <<"x", "y">>),
         marked |-> [ask("marked", 1, <<"x">> \o Words(256, ImageId) \o <<"z", ProprioId, "y">>) EXCEPT !.state = FALSE],
         turned |-> ask("turned", 1, <<"x">> \o Words(256, ImageId) \o <<ProprioId, "y">>),
         half |-> ask("half", 1, <<"x">> \o Words(256, ImageId)), wide |-> ask("wide", 4, <<"x">>),
         pre |-> [ask("pre", 0, <<"x">>) EXCEPT !.pre = 1],
         odd |-> [ask("odd", 2, <<OutOfVocab>>) EXCEPT !.views[2].w = 200]]
RequestsOf(c) ==
    CASE c.arch = "gr00t_n1_5" -> Of(84, 36, <<>>)
      [] c.arch = "gr00t_n1_6" -> Of(84, 9, <<>>)
      [] c.arch = "gr00t_n1_7" -> Of(64, 4, <<>>)
      [] c.arch = "vla_jepa"   -> Of(64, 4, <<"act", "act">>)
      [] c.arch \in {"pi0", "pi05"} -> Of(224, 0, <<"z">>)
      [] c.arch = "evo1" -> EvoRequests
      [] c.arch = "act" -> ActRequests
      [] c.arch = "turbovla" -> TurboRequests
      [] c.arch = "octo" -> OctoRequests
      [] c.arch = "smolvla" -> SmolRequests
      [] c.arch = "bitvla" -> BitRequests
      [] OTHER -> [Of(224, 0, <<>>) EXCEPT !.odd = Ask("odd", 1, 224, "u8", <<OutOfVocab>>)]
MCRequests == [m \in DOMAIN MCModels |-> RequestsOf(MCModels[m])]
MCCalls ==
    LET loaded == {m \in DOMAIN MCModels : LoadOk(MCModels[m])}
    IN  [m \in loaded |-> [r \in DOMAIN MCRequests[m] |-> Steps(MCModels[m], MCRequests[m][r])]]
MCPlain ==
    LET plain == PlainBuild
        loaded == {m \in DOMAIN plain : LoadOk(plain[m])}
    IN  [m \in loaded |-> [r \in DOMAIN MCRequests[m] |-> Steps(plain[m], MCRequests[m][r])]]
MCAgreeing == {m \in DOMAIN MCModels : Agrees(MCModels[m])}
\* None of the models the run loads is left out by AgreeingBuild.
ASSUME AgreeingAssumption == Loaded \subseteq MCAgreeing
\* The odd files would be. Each loads, and a plain request finds no check that
\* refuses it before a graph that does not build.
ASSUME OddFilesLoad ==
    \A m \in DOMAIN OddModels :
        LET c == OddModels[m]
            steps == Steps(c, RequestsOf(c)["a"])
        IN  /\ LoadOk(c) /\ ~Agrees(c)
            /\ \A i \in DOMAIN steps : steps[i].pre
            /\ \E i \in DOMAIN steps : ~steps[i].setup /\ ~Builds(steps[i])

\* Each key names all its graph depends on: the hypothesis of the theorem about
\* cached graphs (ArchCallsProofs.tla), true of these models and requests.
ASSUME KeysAssumption == KeysDecide
\* The lists agree: the hypothesis of the theorem about their inputs.
ASSUME ListsAssumption == ListsAgree

---------------------------------------------------------------------------
(* The index arithmetic of the towers, against what it is to compute.      *)

\* Patches in merge order (merge_block_coords) take every place of the grid.
ASSUME MergeBlocksCoverTheGrid ==
    \A m \in 1..3, a \in 1..3, b \in 1..3 :
        {MergeBlockCoord(a * m, m, s) : s \in 0..(a * m * b * m) - 1} = (0..(b * m) - 1) \X (0..(a * m) - 1)
\* The table rows a coordinate is interpolated from are in the table, on
\* either side of it.
ASSUME InterpolatedBetween ==
    \A g \in 2..9, n \in 2..9 : \A k \in 0..g - 1 :
        LET row == InterpRows(k, g, n)
            at  == k * (n - 1)
        IN  /\ row[1] * (g - 1) <= at /\ at < (row[1] + 1) * (g - 1)
            /\ row[2] \in {row[1], row[1] + 1} \cap 0..n - 1 /\ (row[2] = row[1] => at = row[1] * (g - 1))
\* GR00T N1.7 adds the towers' rows, scattered on the device, to the host's
\* rows: the rows of the host's own assembly (fetch_embeds).
ASSUME ScatterIsFetch ==
    \A n \in 1..5 : \A ids \in [1..n -> {ImageToken, "a", "b"}] : N17Rows(ids) = FetchEmbeds(ids)
\* A step's time is one of the buckets it is looked up in.
ASSUME BucketsInRange == \A steps \in 1..10, n \in {1, 7, 1000} : \A s \in 0..steps - 1 : FlowBucket(s, steps, n) \in 0..n - 1
=============================================================================
