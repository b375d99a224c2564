--------------------------------- MODULE Bitvla ---------------------------------
(***************************************************************************)
(* BitVLA (src/src/models/bitvla.cpp): ternary weights and activations     *)
(* rounded per row, as ggml graphs on the CPU or as the CUDA kernels of     *)
(* src/src/kernels/bitvla, with the ladder GEMM or the fused one.  c.o.off *)
(* names the VLA_BITVLA_* switches that turn a path off, and lm_buffers and *)
(* vit_setup where the device has no room for that part; c.o.backend       *)
(* "cuda" a build and a device that can run the kernels.                   *)
(***************************************************************************)
EXTENDS Arch

\* The suite is the environment's or the file's first; a missing mask is all ones.
BitSuite(g) == IF g.suite # "" THEN g.suite ELSE g.first_suite
StatsMask(s) == IF s.mask = <<>> THEN Repeated(TRUE, Len(s.q01)) ELSE s.mask
StatsRead(g) ==
    /\ BitSuite(g) \in DOMAIN g.suites
    /\ LET s == g.suites[BitSuite(g)]
       IN  Len(s.q01) = g.action /\ Len(s.q99) = g.action /\ Len(StatsMask(s)) = g.action
\* Statistics that are missing or do not read leave the actions as they are.
UnnormMask(g) == IF StatsRead(g) THEN StatsMask(g.suites[BitSuite(g)]) ELSE Repeated(FALSE, g.action)

BitPatches(g) == (g.image \div g.patch) * (g.image \div g.patch)
BitConfigOk(g) ==
    /\ g.patch > 0 /\ g.image > 0 /\ g.image % g.patch = 0 /\ g.n_patches = BitPatches(g)
    /\ g.nkv > 0 /\ g.hd > 0 /\ g.nq % g.nkv = 0 /\ g.nq * g.hd = g.hidden
    /\ g.vit_heads > 0 /\ g.vit_hd > 0 /\ g.vit_heads * g.vit_hd = g.vit

\* What create settles: the language model on CUDA, vision, set up after it,
\* with both the head, and whether the CPU's copy of the weights is let go.
BitDtype(c)     == IF c.g.packed \/ c.o.weight_dtype = "none" THEN "f32" ELSE c.o.weight_dtype
CudaPacks(c)    == c.o.backend = "cuda" /\ BitDtype(c) = "f32" /\ ~c.g.quantized /\ "cuda_lm" \notin c.o.off
CudaLmReady(c)  == CudaPacks(c) /\ "lm_buffers" \notin c.o.off
CudaVitReady(c) == CudaPacks(c) /\ "vit_setup" \notin c.o.off
CudaReady(c)    == CudaLmReady(c) /\ CudaVitReady(c)
CudaHead(c)     == CudaReady(c) /\ "cuda_head" \notin c.o.off
WeightsGone(c)  == CudaReady(c) /\ "free_weights" \notin c.o.off
BitMma(c)       == "mma" \notin c.o.off
PackedOk(c)     == c.g.packed => CudaReady(c)
BitvlaLoadOk(c) == BitConfigOk(c.g) /\ PackedOk(c) /\ c.g.stop_in_file

\* The longest sequence the CUDA language model has buffers for.
CudaMaxSeq == 1024

---------------------------------------------------------------------------
(* Rows rounded to 8 bits times a scale of their own. *)

BitO(c)           == [c.o EXCEPT !.gemm = IF c.g.quantized THEN "q8_0" ELSE BitDtype(c)]
ActQuant(x)       == Map1("act_quant", x)
BitLinear(o, W, b, x) == Linear(o, W, b, ActQuant(x))
SquaredRelu(x)    == Map1("sqr", Relu(x))

BitVitWeights(o, g) ==
    LET w(n, K, N) == GemmW(o, "vit", n, K, N)
        b(n, k)    == F32W("vit", n, k)
        H == g.vit
    IN  [ln1w |-> b("ln1w", H), ln1b |-> b("ln1b", H), ln2w |-> b("ln2w", H), ln2b |-> b("ln2b", H),
         Wq |-> w("q", H, H), bq |-> b("bq", H), Wk |-> w("k", H, H), bk |-> b("bk", H), Wv |-> w("v", H, H), bv |-> b("bv", H),
         Wo |-> w("o", H, H), bo |-> b("bo", H), Wfc1 |-> w("fc1", H, g.vit_inter), bfc1 |-> b("bfc1", g.vit_inter),
         Wfc2 |-> w("fc2", g.vit_inter, H), bfc2 |-> b("bfc2", H)]
BitLmWeights(o, g) ==
    LET w(n, K, N) == GemmW(o, "lm", n, K, N)
        H == g.hidden
    IN  [attn_norm |-> F32W("lm", "attn_norm", H), attn_sub_norm |-> F32W("lm", "attn_sub_norm", H),
         ffn_norm |-> F32W("lm", "ffn_norm", H), ffn_sub_norm |-> F32W("lm", "ffn_sub_norm", g.inter),
         Wq |-> w("q", H, H), Wk |-> w("k", H, g.nkv * g.hd), Wv |-> w("v", H, g.nkv * g.hd), Wo |-> w("o", H, H),
         Wgate |-> w("gate", H, g.inter), Wup |-> w("up", H, g.inter), Wdown |-> w("down", g.inter, H)]

BitVitLayer(o, g, w, x, seq) ==
    LET x1 == LayerNorm(x, w.ln1w, w.ln1b, "vit_eps")
        p(W, b) == BitLinear(o, W, b, x1)
        heads(y) == ToHeads(y, g.vit_hd, g.vit_heads, seq, 1)
        att == Attention(heads(p(w.Wq, w.bq)), heads(p(w.Wk, w.bk)), ToHeadsV(p(w.Wv, w.bv), g.vit_hd, g.vit_heads, seq, 1),
                         Null, g.vit_hd, g.vit, seq, 1)
        h1 == Add(x, BitLinear(o, w.Wo, w.bo, att))
        f1 == Gelu(BitLinear(o, w.Wfc1, w.bfc1, LayerNorm(h1, w.ln2w, w.ln2b, "vit_eps")))
    IN  Add(h1, BitLinear(o, w.Wfc2, w.bfc2, f1))

BitSpec(g) == RopeSpec("neox", g.hd, "theta", FALSE)
\* Every token sees every token.
BitLmLayer(o, g, w, h, pos, seq) ==
    LET hn == RmsNormW(h, w.attn_norm, "rms_eps")
        p(W, n) == Reshape(BitLinear(o, W, Null, hn), D3(g.hd, n, seq))
        turned(t) == Cont(Permute(Rope(BitSpec(g), t, pos), <<0, 2, 1, 3>>))
        att == Attention(turned(p(w.Wq, g.nq)), turned(p(w.Wk, g.nkv)), Cont(Permute(p(w.Wv, g.nkv), <<1, 2, 0, 3>>)),
                         Null, g.hd, g.nq * g.hd, seq, 1)
        h1 == Add(h, BitLinear(o, w.Wo, Null, RmsNormW(att, w.attn_sub_norm, "rms_eps")))
        h2 == RmsNormW(h1, w.ffn_norm, "rms_eps")
        gu == Mul(SquaredRelu(BitLinear(o, w.Wgate, Null, h2)), BitLinear(o, w.Wup, Null, h2))
    IN  Add(h1, BitLinear(o, w.Wdown, Null, RmsNormW(gu, w.ffn_sub_norm, "rms_eps")))

---------------------------------------------------------------------------
(* The CUDA kernels, in BF16. *)

\* The weights the GEMMs are compiled for: <<N, K>>.
BitShapes == {<<2560, 2560>>, <<640, 2560>>, <<2560, 6912>>, <<13824, 2560>>, <<1152, 1152>>, <<4304, 1152>>, <<1152, 4352>>}
\* The ladder GEMM on rows of codes: a plain product, stored dense.
BitMm(W, x8) ==
    Need(<<W, x8>>, x8.ty = "i8" /\ x8.ne[1] = W.ne[1] /\ <<W.ne[2], W.ne[1]>> \in BitShapes,
         T("bf16", D2(W.ne[2], x8.ne[2]), VMm(W.val, x8.val)))
\* Codes of x's rows, ld wide, zero past x's own.
BitRows(x, ld) == Need(<<x>>, Contig(x) /\ x.ne[1] <= ld, T("i8", D2(ld, x.ne[2]), VFn("act_quant", x.val)))
\* fc2's rows padded with zeros to the GEMM's width.
PadWeight(W, K) == Need(<<W>>, W.ne[1] <= K, [W EXCEPT !.ne[1] = K])
FfnPad(n) == ((n + 127) \div 128) * 128

\* The fused GEMM's segments: what their epilogues do is the same for all of
\* a launch.  hd: stored per head, repeated rep times.
Seg(W)     == [W |-> W, b |-> Null, act |-> "none", res |-> Null, hd |-> 0, rep |-> 1]
Epilogue(s) == <<Has(s.b), s.act, Has(s.res), s.hd > 0>>
Epilogues ==
    {<<FALSE, "none", FALSE, FALSE>>, <<FALSE, "none", FALSE, TRUE>>, <<FALSE, "none", TRUE, FALSE>>,
     <<TRUE, "none", FALSE, TRUE>>, <<TRUE, "none", TRUE, FALSE>>, <<TRUE, "tanh", FALSE, FALSE>>}
BitSegs(segs, x8) ==
    LET ok == Epilogue(segs[1]) \in Epilogues /\ \A i \in DOMAIN segs : Epilogue(segs[i]) = Epilogue(segs[1])
        out(s) == LET N == s.W.ne[2]
                      M == x8.ne[2]
                  IN  Need(<<s.W, s.b, s.res, x8>>, ok /\ x8.ty = "i8" /\ x8.ne[1] = s.W.ne[1] /\ (Has(s.res) => s.res.ne = D2(N, M)),
                           T("bf16", IF s.hd > 0 THEN D3(s.hd, M, (N \div s.hd) * s.rep) ELSE D2(N, M),
                             LinearV(s.W.val, x8.val, s.b.val, s.res.val, s.act)))
    IN  [i \in DOMAIN segs |-> out(segs[i])]
\* A norm and its act_quant in one launch, for rows that fit.
NormWidth == 27 * 256
NormQuant(x) == Need(<<x>>, x.ne[1] <= NormWidth, BitRows(x, x.ne[1]))

\* The dimensions the kernels are compiled for, which nothing compares with
\* the file's before the first request.
BitvlaAgrees(c) ==
    LET g  == c.g
        lm == {<<g.hidden, g.hidden>>, <<g.nkv * g.hd, g.hidden>>, <<2 * g.inter, g.hidden>>, <<g.hidden, g.inter>>}
        vit == {<<g.vit, g.vit>>, <<g.vit_inter, g.vit>>, <<g.vit, FfnPad(g.vit_inter)>>}
    IN  IF BitMma(c) THEN (CudaLmReady(c) => g.hidden <= NormWidth /\ g.inter <= NormWidth) /\ (CudaVitReady(c) => g.vit <= NormWidth)
        ELSE (CudaLmReady(c) => lm \subseteq BitShapes) /\ (CudaVitReady(c) => vit \subseteq BitShapes)

\* Heads laid out one after the other, and back as rows.
PerHead(y, hd)    == Need(<<y>>, y.ne[1] % hd = 0, T("bf16", D3(hd, y.ne[2], y.ne[1] \div hd), y.val))
MergeHeads(y)     == Need(<<y>>, Contig(y), T("bf16", D2(y.ne[1] * y.ne[3], y.ne[2]), y.val))
RepeatHeads(y, n) == Need(<<y>>, n % y.ne[3] = 0, T("bf16", D3(y.ne[1], y.ne[2], n), y.val))
\* Row s is position s: the table of the CPU graph's positions.
BitRope(g, y)   == Need(<<y>>, y.ne[1] = g.hd, T("bf16", y.ne, VRope(y.val, <<"in", "positions">>, BitSpec(g))))
HeadAttention(q, k, v) ==
    Need(<<q, k, v>>, q.ne = k.ne /\ k.ne = v.ne, T("bf16", q.ne, VAttn(q.val, k.val, v.val, Null.val, q.ne[1])))

LadderBitLm(g, w, h) ==
    LET n   == BitRows(RmsNormW(h, w.attn_norm, "rms_eps"), h.ne[1])
        hds(W) == PerHead(BitMm(W, n), g.hd)
        rep(y) == RepeatHeads(y, g.nq)
        att == HeadAttention(BitRope(g, hds(w.Wq)), rep(BitRope(g, hds(w.Wk))), rep(hds(w.Wv)))
        sub == RmsNormW(MergeHeads(att), w.attn_sub_norm, "rms_eps")
        h1  == Add(h, BitMm(w.Wo, BitRows(sub, g.hidden)))
        gu  == BitMm(Fuse(<<w.Wgate, w.Wup>>), BitRows(RmsNormW(h1, w.ffn_norm, "rms_eps"), g.hidden))
        mid == Cont(Mul(SquaredRelu(RowPart(gu, 2, 0)), RowPart(gu, 2, 1)))
    IN  Add(h1, BitMm(w.Wdown, BitRows(RmsNormW(mid, w.ffn_sub_norm, "rms_eps"), g.inter)))
FusedBitLm(g, w, h) ==
    LET head(W, rep) == [Seg(W) EXCEPT !.hd = g.hd, !.rep = rep]
        qkv == BitSegs(<<head(w.Wq, 1), head(w.Wk, 1), head(w.Wv, g.nq \div g.nkv)>>, NormQuant(RmsNormW(h, w.attn_norm, "rms_eps")))
        att == HeadAttention(BitRope(g, qkv[1]), RepeatHeads(BitRope(g, qkv[2]), g.nq), qkv[3])
        sub == NormQuant(RmsNormW(MergeHeads(att), w.attn_sub_norm, "rms_eps"))
        h1  == BitSegs(<<[Seg(w.Wo) EXCEPT !.res = h]>>, sub)[1]
        gu  == BitSegs(<<Seg(Fuse(<<w.Wgate, w.Wup>>))>>, NormQuant(RmsNormW(h1, w.ffn_norm, "rms_eps")))[1]
        mid == Cont(Mul(SquaredRelu(RowPart(gu, 2, 0)), RowPart(gu, 2, 1)))
    IN  BitSegs(<<[Seg(w.Wdown) EXCEPT !.res = h1]>>, NormQuant(RmsNormW(mid, w.ffn_sub_norm, "rms_eps")))[1]

CudaLmHidden(c, w, x) == LET h == Retype(x, "bf16") IN IF BitMma(c) THEN FusedBitLm(c.g, w, h) ELSE LadderBitLm(c.g, w, h)

LadderBitVit(g, w, h) ==
    LET x1  == BitRows(LayerNorm(h, w.ln1w, w.ln1b, "vit_eps"), g.vit)
        hds(W, b) == PerHead(Add(BitMm(W, x1), b), g.vit_hd)
        att == MergeHeads(HeadAttention(hds(w.Wq, w.bq), hds(w.Wk, w.bk), hds(w.Wv, w.bv)))
        h1  == Add(h, Add(BitMm(w.Wo, BitRows(att, g.vit)), w.bo))
        fc1 == Gelu(Add(BitMm(w.Wfc1, BitRows(LayerNorm(h1, w.ln2w, w.ln2b, "vit_eps"), g.vit)), w.bfc1))
        pad == FfnPad(g.vit_inter)
    IN  Add(h1, Add(BitMm(PadWeight(w.Wfc2, pad), BitRows(fc1, pad)), w.bfc2))
FusedBitVit(g, w, h) ==
    LET head(W, b) == [Seg(W) EXCEPT !.b = b, !.hd = g.vit_hd]
        qkv == BitSegs(<<head(w.Wq, w.bq), head(w.Wk, w.bk), head(w.Wv, w.bv)>>, NormQuant(LayerNorm(h, w.ln1w, w.ln1b, "vit_eps")))
        att == NormQuant(MergeHeads(HeadAttention(qkv[1], qkv[2], qkv[3])))
        h1  == BitSegs(<<[Seg(w.Wo) EXCEPT !.b = w.bo, !.res = h]>>, att)[1]
        fc1 == BitSegs(<<[Seg(w.Wfc1) EXCEPT !.b = w.bfc1, !.act = "tanh"]>>, NormQuant(LayerNorm(h1, w.ln2w, w.ln2b, "vit_eps")))[1]
        pad == FfnPad(g.vit_inter)
    IN  BitSegs(<<[Seg(PadWeight(w.Wfc2, pad)) EXCEPT !.b = w.bfc2, !.res = h1]>>, BitRows(fc1, pad))[1]
CudaVitHidden(c, w, x) == LET h == Retype(x, "bf16") IN IF BitMma(c) THEN FusedBitVit(c.g, w, h) ELSE LadderBitVit(c.g, w, h)

---------------------------------------------------------------------------
(* The four graphs: each is built anew for a call, and its result comes     *)
(* back to the host; the CUDA contexts keep their buffers instead.         *)

BitVitParts(c, px) ==
    LET g == c.g
        o == BitO(c)
        w == BitVitWeights(o, g)
        W(n, K, N) == GemmW(o, "vit", n, K, N)
        b(n, k)    == F32W("vit", n, k)
        pe == Add(Add(MulMat(W("patch", 3 * g.patch * g.patch, g.vit), px), b("patch_b", g.vit)),
                  Weight(<<"vit", "pos">>, "f32", D2(g.vit, g.n_patches)))
        x  == Named(pe, <<"patches">>)
        h  == IF CudaVitReady(c) THEN CudaVitHidden(c, w, x) ELSE BitVitLayer(o, g, w, x, g.n_patches)
        mm == GeluErf(Add(MulMat(W("mm1", g.vit, g.hidden), Named(h, <<"h">>)), b("mm1_b", g.hidden)))
    IN  [embed |-> pe, vit |-> h, img |-> Need(<<h>>, TRUE, Add(MulMat(W("mm2", g.hidden, g.hidden), mm), b("mm2_b", g.hidden)))]
BitVision(c, r) ==
    LET g  == c.g
        px == TowerPart(In2("patches", 3 * g.patch * g.patch, g.n_patches))
        ps == BitVitParts(c, px)
    IN  [v \in 1..(IF r.pre > 0 THEN 0 ELSE Len(r.views)) |->
            [Blank EXCEPT !.cache = "vision", !.ins = [patches |-> px], !.fills = [patches |-> Whole(px, <<"view", r.name, v>>)],
                          !.scratch = ~CudaVitReady(c), !.kept = IF CudaVitReady(c) THEN {"patches"} ELSE {},
                          !.parts = ps, !.out = ps.img, !.read = g.n_patches * g.hidden, !.pre = ViewOk(r.views[v], g.image)]]

ProprioOut(g, x) ==
    LET fc(n, K, t) == Add(MulMat(Weight(<<"proprio", n>>, "f32", D2(K, g.hidden)), t), F32W("proprio", n \o ".b", g.hidden))
    IN  fc("fc2", g.hidden, GeluErf(fc("fc1", g.state, x)))
BitProprio(c, r) ==
    LET g   == c.g
        st  == In2("state", g.state, 1)
        out == ProprioOut(g, st)
    IN  [Blank EXCEPT !.cache = "proprio", !.ins = [state |-> st], !.fills = [state |-> Whole(st, StateOf(r))], !.scratch = ~CudaHead(c),
                      !.kept = IF CudaHead(c) THEN {"state"} ELSE {}, !.parts = [proprio |-> out], !.out = out, !.read = g.hidden]

\* The prompt says where the image rows and the state's go, or says nothing
\* of them and they follow it.
ImageId   == "image"
ProprioId == "proprio"
MarkersOf(r, id) == Len(SelectSeq(r.lang, LAMBDA t : t = id))
FullPrefix(c, r) == MarkersOf(r, ImageId) = NViews(r) * c.g.n_patches /\ MarkersOf(r, ProprioId) = 1
MarkersOk(c, r)  == FullPrefix(c, r) \/ (MarkersOf(r, ImageId) = 0 /\ MarkersOf(r, ProprioId) = 0)
BitActions(g)    == g.chunk * g.action
BitSeq(c, r)     == Len(r.lang) + (IF FullPrefix(c, r) THEN 0 ELSE NViews(r) * c.g.n_patches + 1) + BitActions(c.g) + 1
CudaLmRuns(c, r) == CudaLmReady(c) /\ BitSeq(c, r) <= CudaMaxSeq
\* Which rows take image rows: one run for markers that follow each other,
\* from the image row that as many markers before it have used up.
ImgRuns(c, r) ==
    LET img    == {i \in DOMAIN r.lang : r.lang[i] = ImageId}
        end(i) == Min({j \in i..Len(r.lang) + 1 : j \notin img})
    IN  IF ~FullPrefix(c, r) THEN {[row |-> Len(r.lang), k |-> 0, n |-> NViews(r) * c.g.n_patches]}
        ELSE {[row |-> i - 1, k |-> Cardinality({j \in img : j < i}), n |-> end(i) - i] : i \in {i \in img : i - 1 \notin img}}
\* The rows of inputs_embeds, as <<first row, rows, what>>.
EmbedRuns(c, r) ==
    LET n      == BitSeq(c, r)
        acts   == BitActions(c.g)
        words  == {i \in DOMAIN r.lang : r.lang[i] \notin {ImageId, ProprioId}}
        slots  == {i \in DOMAIN r.lang : r.lang[i] = ProprioId}
        state  == IF FullPrefix(c, r) THEN (CHOOSE i \in slots : TRUE) - 1 ELSE Len(r.lang) + NViews(r) * c.g.n_patches
    IN  {<<i - 1, 1, <<"token", r.lang[i]>>>> : i \in words}
        \cup {<<u.row, u.n, <<VisionOf(r), u.k>>>> : u \in ImgRuns(c, r)}
        \cup {<<state, 1, <<"proprio", StateOf(r)>>>>, <<n - 1 - acts, acts, <<"zeros">>>>, <<n - 1, 1, <<"stop">>>>}
BitAsks(c, r) ==
    LET n == BitSeq(c, r)
    IN  /\ MarkersOk(c, r) /\ n >= BitActions(c.g) + 2 /\ InVocab(r)
        /\ n <= c.g.max_pos /\ (CudaLmReady(c) /\ n > CudaMaxSeq => ~c.g.packed /\ ~WeightsGone(c))
BitLm(c, r) ==
    LET g   == c.g
        o   == BitO(c)
        n   == BitSeq(c, r)
        A   == BitActions(g)
        gpu == CudaLmRuns(c, r)
        all == [inputs_embeds |-> In2("inputs_embeds", g.hidden, n), positions |-> Ids("positions", n), action_ids |-> Ids("action_ids", A)]
        ins == IF gpu THEN [i \in {"inputs_embeds", "action_ids"} |-> all[i]] ELSE all
        what == [positions |-> Whole(all.positions, Iota(n)), action_ids |-> Whole(all.action_ids, <<"iota from", n - 2 - A, A>>),
                 inputs_embeds |-> IF MarkersOk(c, r) THEN {<<u[1] * g.hidden, u[2] * g.hidden, u[3]>> : u \in EmbedRuns(c, r)} ELSE {}]
        w   == BitLmWeights(o, g)
        h   == IF gpu THEN CudaLmHidden(c, w, all.inputs_embeds) ELSE BitLmLayer(o, g, w, all.inputs_embeds, all.positions, n)
        out == GetRows(RmsNormW(Named(h, <<"h">>), F32W("lm", "output_norm", g.hidden), "rms_eps"), all.action_ids)
    IN  [Blank EXCEPT
            !.cache = IF gpu THEN "lm_cuda" ELSE "lm", !.key = IF gpu THEN <<n>> ELSE <<>>, !.ins = ins, !.scratch = ~gpu,
            !.kept = IF gpu THEN DOMAIN ins ELSE {}, !.fills = [i \in DOMAIN ins |-> what[i]], !.pre = BitAsks(c, r),
            !.fetch = FullPrefix(c, r) \/ r.lang # <<>>, !.parts = [lm |-> h, actions |-> out],
            !.out = Need(<<h>>, h.ne = D2(g.hidden, n), out), !.read = A * g.hidden]

Unnormalised(g, y) == Need(<<y>>, Len(UnnormMask(g)) = y.ne[1], New(y, y.ty, <<"unnormalised", UnnormMask(g), y.val>>))
\* The CPU's graph and the kernels of the head, in the same order.
HeadOut(o, g, x) ==
    LET H == g.hidden
        fc(n, K, N, t) == Add(MulMat(GemmW(o, "head", n, K, N), t), F32W("head", n \o ".b", N))
        ln(n, t) == LayerNorm(t, F32W("head", n \o ".w", t.ne[1]), F32W("head", n \o ".lb", t.ne[1]), "head_eps")
        h0 == Relu(fc("fc1", g.action * H, H, ln("ln1", x)))
        block(n, h) == Add(h, Relu(fc(n, H, H, ln(n \o "_ln", h))))
    IN  fc("fc2", H, g.action, ln("ln2", block("b1", block("b0", h0))))
BitHead(c, r) ==
    LET g == c.g
        x == In2("x", g.action * g.hidden, g.chunk)
        y == HeadOut(BitO(c), g, x)
    IN  [Blank EXCEPT !.cache = "head", !.ins = [x |-> x], !.fills = [x |-> Whole(x, <<"hidden", r.name>>)], !.scratch = ~CudaHead(c),
                      !.kept = IF CudaHead(c) THEN {"x"} ELSE {}, !.parts = [head |-> y, said |-> Unnormalised(g, y)],
                      !.out = y, !.read = g.action * g.chunk]

BitvlaSteps(c, r) ==
    IF NViews(r) <= 0 THEN <<Refusal>> ELSE BitVision(c, r) \o <<BitProprio(c, r), BitLm(c, r), BitHead(c, r)>>
=============================================================================
