-------------------------------- MODULE Gemma --------------------------------
(***************************************************************************)
(* The Gemma layers pi0 and pi0.5 share (src/src/modules/gemma_expert.h):  *)
(* the prefix tower, the action expert that attends to its K/V, and the    *)
(* PaliGemma vision tower.  `c` holds a stack's dimensions, `w` a layer's  *)
(* weights: an absent one is Null, NoSite or NoQ.                          *)
(***************************************************************************)
EXTENDS Vision, FoldQuant

GemmaCfg(hidden, inter, nq, nkv, hd, freq) ==
    [hidden |-> hidden, inter |-> inter, nq |-> nq, nkv |-> nkv, hd |-> hd, qf |-> nq * hd, kvf |-> nkv * hd,
     eps |-> "rms_eps", rope |-> RopeSpec("neox", hd, freq, FALSE)]

\* kind: "sep" a weight per projection; "cat" q|k|v and gate|up as one; "q8"
\* those in INT8; "fq" a FoldQuant site per projection; "fqcat" SYCL's fused
\* sites; "dequant" their codes read back as floats.  With norms, a site's gamma rides in its activation.
GemmaWeights(o, c, p, kind, q, group, norms) ==
    LET fq == kind \in {"fq", "fqcat"}
        g(n, K, N) == IF kind = "dequant" THEN FqDequant(GemmW(o, p, n, K, N), q) ELSE GemmW(o, p, n, K, N)
        qw == g("q", c.hidden, c.qf)
        kw == g("k", c.hidden, c.kvf)
        vw == g("v", c.hidden, c.kvf)
        ow == g("o", c.qf, c.hidden)
        gw == g("gate", c.hidden, c.inter)
        uw == g("up", c.hidden, c.inter)
        dw == g("down", c.inter, c.hidden)
        ln_in   == IF norms THEN F32W(p, "ln_in", c.hidden) ELSE Null
        ln_post == IF norms THEN F32W(p, "ln_post", c.hidden) ELSE Null
        when(k, W) == IF kind \in k THEN W ELSE Null
        quant(ws) == IF kind # "q8" THEN NoQ ELSE IF group # 0 THEN QuantI4(ws, group) ELSE QuantI8(ws)
        site(k, W, gamma) == IF kind \in k THEN FqSite(W, Null, gamma, q) ELSE NoSite
        gu == site({"fqcat"}, Fuse(<<gw, uw>>), ln_post)
    IN  [ln_in |-> ln_in, ln_post |-> ln_post,
         Wq |-> when({"sep", "dequant"}, qw), Wk |-> when({"sep", "dequant"}, kw), Wv |-> when({"sep", "dequant"}, vw),
         Wqkv |-> when({"cat"}, Fuse(<<qw, kw, vw>>)), Wo |-> when({"sep", "dequant", "cat"}, ow),
         Wgate |-> when({"sep", "dequant"}, gw), Wup |-> when({"sep", "dequant"}, uw), Wgu |-> when({"cat"}, Fuse(<<gw, uw>>)),
         Wdown |-> when({"sep", "dequant", "cat"}, dw),
         q_qkv |-> quant(<<qw, kw, vw>>), q_o |-> quant(<<ow>>), q_gu |-> quant(<<gw, uw>>), q_down |-> quant(<<dw>>),
         fq_q |-> site({"fq"}, qw, ln_in), fq_k |-> site({"fq"}, kw, ln_in), fq_v |-> site({"fq"}, vw, ln_in),
         fq_qkv |-> site({"fqcat"}, Fuse(<<qw, kw, vw>>), ln_in),
         fq_o |-> site({"fq", "fqcat"}, ow, Null),
         fq_gate |-> site({"fq"}, gw, ln_post), fq_up |-> site({"fq"}, uw, ln_post),
         fq_gu |-> IF IsSite(gu) THEN [gu EXCEPT !.glu = TRUE] ELSE NoSite,
         fq_down |-> site({"fq", "fqcat"}, dw, Null),
         glu_act |-> fq /\ kind = "fqcat" /\ o.glu_act, rope_attn |-> FALSE, rope_pack |-> FALSE, extra |-> 0,
         kv_sdpa |-> FALSE]

---------------------------------------------------------------------------
(* Attention over a slot of K/V rows written in place. *)

KvSlot(k, v) == [k |-> k, v |-> v, pre |-> 0, kval |-> <<"none">>, vval |-> <<"none">>]
\* The term of the rows up to the new ones.
SlotRead(kv, old, new) == IF kv.pre = 0 THEN new ELSE <<"concat", old, new>>

GemmaAttnKvTail(o, w, q16, k_w, v_w, c, seq, kv, mask, at, o_res, o_gate, o_type) ==
    LET n == kv.pre + seq
        rows(buf, v) == Window(buf, D3(c.hd, n, c.nkv), "rows", n <= buf.ne[3], v)
        m16 == IF Has(mask) THEN Cast(mask, "f16") ELSE Null
        fa  == FlashAttnExt(Permute(q16, <<0, 2, 1, 3>>), rows(kv.k, SlotRead(kv, kv.kval, k_w.val)),
                            rows(kv.v, SlotRead(kv, kv.vval, v_w.val)), m16, c.hd)
        att == Reshape(IF at = "bf16" THEN Retype(fa, "bf16") ELSE fa, D2(c.qf, seq))
        ot  == IF o_type = "at" THEN at ELSE o_type
    IN  IF Has(w.q_o.w)
        THEN Qlinear(w.q_o, IF o.fa_q8 /\ o.ew /\ ~Has(mask) THEN RetypeBlob(fa, seq * (c.qf + 4)) ELSE att,
                     Null, o_res, ot, "none", o_gate)
        ELSE Need(<<k_w, v_w>>, ~Has(o_res) /\ ~Has(o_gate), MmAct(o, w.Wo, AsType(att, at), at))

GemmaAttnKv(o, w, x_norm, pos, c, seq, kv, mask, at, o_res, o_gate, o_type) ==
    LET qkv == IF Has(w.q_qkv.w) THEN Qlinear(w.q_qkv, x_norm, Null, Null, "f32", "none", Null)
               ELSE MmF32(o, w.Wqkv, x_norm)
        whole == Has(w.q_qkv.w) \/ Has(w.Wqkv)
        view(heads, i) == Window(qkv, D3(c.hd, heads, seq), "rows",
                                 qkv.ne[1] = c.qf + 2 * c.kvf /\ Rows(qkv) = seq, VPart(qkv.val, i))
        q_h == IF whole THEN view(c.nq, 1) ELSE Reshape(MmF32(o, w.Wq, x_norm), D3(c.hd, c.nq, seq))
        k_h == IF whole THEN view(c.nkv, 2) ELSE Reshape(MmF32(o, w.Wk, x_norm), D3(c.hd, c.nkv, seq))
        v_h == IF whole THEN view(c.nkv, 3) ELSE Reshape(MmAct(o, w.Wv, x_norm, at), D3(c.hd, c.nkv, seq))
        r   == IF o.rope_kv_fuse /\ o.ew /\ whole
               THEN FusedRopeKv(qkv, pos, kv.k, kv.v, c.nq, c.nkv, c.hd, kv.pre, c.rope)
               ELSE RopeKv(Retype(Rope(c.rope, q_h, pos), "f16"),
                           WriteRows(Retype(Rope(c.rope, k_h, pos), "f16"), kv.k, kv.pre),
                           WriteRows(Cast(v_h, "f16"), kv.v, kv.pre))
        out == GemmaAttnKvTail(o, w, r.q, r.k, r.v, c, seq, kv, mask, at, o_res, o_gate, o_type)
    IN  [y  |-> Need(<<out>>, ~IsSite(w.fq_q) /\ ~IsSite(w.fq_o) /\ kv.k.ne[3] >= kv.pre + seq, out),
         k  |-> Null, v |-> Null,
         kv |-> IF kv.pre = 0 THEN [kv EXCEPT !.pre = seq, !.kval = r.k.val, !.vval = r.v.val] ELSE kv]

---------------------------------------------------------------------------
(* The CUDA path. *)

GemmaFused(o, w, at, flash, seq, tkv) ==
    LET fq == IsSite(w.fq_q) /\ IsSite(w.fq_o) /\ IsSite(w.fq_gate) /\ IsSite(w.fq_down)
        fl == /\ ~IsSite(w.fq_q) /\ ~IsSite(w.fq_o) /\ ~IsSite(w.fq_gate) /\ ~IsSite(w.fq_down) /\ CublasRows(seq)
              /\ \A W \in {w.Wq, w.Wk, w.Wv, w.Wo, w.Wgate, w.Wup, w.Wdown} : Has(W) /\ Bf16Operand(W)
    IN  o.fused /\ ~flash /\ at = "f32" /\ tkv <= 4096 /\ ((fq /\ w.fq_q.heads = 0) \/ fl)

GemmaAttnFused(o, w, x_norm, pos, c, seq, Kc, Vc, mask, fq_res) ==
    LET xq == IF x_norm.ty = "i8" THEN x_norm ELSE FqAct(w.fq_q, x_norm)
        proj(s, W) == IF IsSite(w.fq_q) THEN FqGemm(o, s, xq, Null, Null) ELSE MmExact(o, W, x_norm)
        q  == proj(w.fq_q, w.Wq)
        k  == proj(w.fq_k, w.Wk)
        v  == proj(w.fq_v, w.Wv)
        heads(t, p, P, n, vt) == FusedHeadsRope(t, p, P, c.hd, n, c.rope, vt, Null)
        K  == heads(k, pos, Kc, c.nkv, FALSE)
        Kn == IF Has(Kc) THEN heads(k, pos, Null, c.nkv, FALSE) ELSE K
        fa(bf16) == FusedAttnExact(heads(q, pos, Null, c.nq, FALSE), K, heads(v, Null, Vc, c.nkv, TRUE), c.hd,
                                   bf16, 1, mask)
    IN  [y  |-> IF IsSite(w.fq_o) THEN FqLinear(o, w.fq_o, fa(FALSE), fq_res, Null) ELSE MmExact(o, w.Wo, fa(TRUE)),
         k  |-> IF c.nkv = 1 THEN Reshape(Kn, D3(c.hd, 1, Kn.ne[2])) ELSE Cont(Permute(Kn, <<0, 2, 1, 3>>)),
         v  |-> Reshape(v, D3(c.hd, c.nkv, seq)),
         kv |-> Null]

GemmaMlpFused(o, w, x_norm, fq_res) ==
    LET xq == IF x_norm.ty = "i8" THEN x_norm ELSE FqAct(w.fq_gate, x_norm)
        g  == FqGemm(o, w.fq_gate, xq, Null, Null)
        u  == FqGemm(o, w.fq_up, xq, Null, Null)
        dq == FqActGlu(o, w.fq_down, g, u, "GeluMul")
    IN  IF ~IsSite(w.fq_gate)
        THEN MmExact(o, w.Wdown, FusedGeluMul(MmExact(o, w.Wgate, x_norm), MmExact(o, w.Wup, x_norm), TRUE))
        ELSE IF Has(dq) THEN FqGemm(o, w.fq_down, dq, fq_res, Null)
        ELSE FqLinear(o, w.fq_down, FusedGeluMul(g, u, FALSE), fq_res, Null)

---------------------------------------------------------------------------
(* The general path.  x: what the layer may read: norm (the float norm),   *)
(* raw (fq_x), blob (fq_xq); e: the epilogue, res (fq_res) and gate.       *)

GeGlu(o, g, u) == IF o.ew /\ g.ty = "bf16" /\ u.ty = "bf16" /\ o.backend = "sycl" THEN FusedGeglu(g, u, "bf16", FALSE)
                  ELSE Mul(Gelu(g), u)
FqBlob(s, x) == IF Has(x.blob) THEN x.blob ELSE FqAct(s, x.raw)

\* One node for q|k|v, RoPE and attention over the cached F16 prefix.
RopeAttnTakes(w, c, x, seq, flash, K16, V16, mask, keep) ==
    /\ w.rope_attn /\ IsSite(w.fq_qkv) /\ IsSite(w.fq_o) /\ flash /\ Has(K16) /\ Has(V16) /\ ~Has(mask) /\ ~keep
    /\ (Has(x.blob) \/ Has(x.raw)) /\ seq * c.nq > 192
\* The free rows of the prefix pack take this step's K/V.
KvSdpaTakes(o, w, c, x, seq, flash, K16, V16, mask, keep) ==
    /\ w.kv_sdpa /\ IsSite(w.fq_qkv) /\ IsSite(w.fq_o) /\ flash /\ Has(K16) /\ Has(V16) /\ ~Has(mask) /\ ~keep
    /\ (Has(x.blob) \/ Has(x.raw)) /\ c.nkv = 1 /\ o.ew /\ K16.ne[2] > seq
RopePackTakes(o, w, c, x, flash, Kc, mask) ==
    /\ w.rope_pack /\ IsSite(w.fq_qkv) /\ flash /\ ~Has(mask) /\ ~Has(Kc) /\ c.nkv = 1
    /\ (Has(x.blob) \/ Has(x.raw)) /\ o.fmha_kv

GemmaOut(y, k, v) == [y |-> y, k |-> k, v |-> v, kv |-> Null]
GemmaKvSdpa(o, w, c, x, pos, seq, K16, V16, e) ==
    LET qkv  == FqGemm(o, w.fq_qkv, FqBlob(w.fq_qkv, x), Null, Null)
        n    == K16.ne[2]
        slot(t) == T(t.ty, D3(c.hd, 1, n), t.val)
        r    == FusedRopeKv(qkv, pos, slot(K16), slot(V16), c.nq, 1, c.hd, n - seq, c.rope)
        rows(old, t) == Need(<<t>>, TRUE, T("f16", D3(c.hd, n, 1), <<"concat", old.val, t.val>>))
        fa   == FlashAttnExt(Permute(r.q, <<0, 2, 1, 3>>), rows(K16, r.k), rows(V16, r.v), Null, c.hd)
    IN  GemmaOut(FqLinear(o, w.fq_o, Reshape(fa, D2(c.qf, seq)), e.res, e.gate), Null, Null)
GemmaRopePack(o, w, c, x, pos, seq, e) ==
    LET pk == FqRopePack(w.fq_qkv, c.rope, FqBlob(w.fq_qkv, x), pos, c.nq, w.extra)
        kv == seq + w.extra
        win(n, h, row0, i) == Window(pk, D3(c.hd, n, h), "full", row0 + n * h <= pk.ne[2], VPart(pk.val, i))
        Q  == win(seq, c.nq, 0, 1)
        fa == FlashAttnExt(Q, win(seq, 1, seq * c.nq, 2), win(seq, 1, seq * c.nq + kv, 3), Null, c.hd)
    IN  GemmaOut(FqLinear(o, w.fq_o, Reshape(fa, D2(c.qf, seq)), e.res, e.gate),
                 win(kv, 1, seq * c.nq, 2), win(kv, 1, seq * c.nq + kv, 3))

ConcatDim2(a, b) == Concat(a, b, 2)
FaKv(o, t)       == IF o.hexagon THEN AsType(t, "f16") ELSE t

GemmaAttnPlain(o, w, x, pos, c, seq, Kc, Vc, mask, at, flash, e, K16, V16) ==
    LET views == flash /\ o.fa_views
        xq  == FqAct(w.fq_q, x.raw)
        all == IF IsSite(w.fq_qkv) THEN FqGemm(o, w.fq_qkv, FqBlob(w.fq_qkv, x), Null, Null)
               ELSE MmF32(o, w.Wqkv, x.norm)
        whole == IsSite(w.fq_qkv) \/ Has(w.Wqkv)
        part(i, n) == Cont(Window(all, D2(n, seq), "rows", all.ne[1] = c.qf + 2 * c.kvf, VPart(all.val, i)))
        proj(s, W, v) == IF IsSite(w.fq_q) THEN FqGemm(o, s, xq, Null, Null)
                         ELSE IF v /\ views THEN MmAct(o, W, x.norm, at) ELSE AsType(MmAct(o, W, x.norm, at), "f32")
        q == Reshape(IF whole THEN part(1, c.qf) ELSE proj(w.fq_q, w.Wq, FALSE), D3(c.hd, c.nq, seq))
        k == Reshape(IF whole THEN part(2, c.kvf) ELSE proj(w.fq_k, w.Wk, FALSE), D3(c.hd, c.nkv, seq))
        v == Reshape(IF whole THEN part(3, c.kvf) ELSE proj(w.fq_v, w.Wv, TRUE), D3(c.hd, c.nkv, seq))
        qr == Rope(c.rope, q, pos)
        kr == Rope(c.rope, k, pos)
        heads(t) == Permute(t, <<0, 2, 1, 3>>)
        dense(t) == IF views THEN heads(t) ELSE Cont(heads(t))
        \* with F16 prefix: no concatenation
        inplace == flash /\ Has(K16) /\ Has(V16) /\ ~Has(mask)
        K == IF Has(Kc) THEN ConcatDim2(Kc, kr) ELSE kr
        V == IF Has(Vc) THEN ConcatDim2(Vc, v) ELSE v
        fa == IF inplace THEN FmhaKv(heads(qr), K16, V16, heads(kr), heads(v), c.hd)
              ELSE FlashAttnExt(dense(qr), FaKv(o, dense(K)), FaKv(o, dense(V)),
                                IF Has(mask) THEN Cast(mask, "f16") ELSE Null, c.hd)
        sm == MulV(Cont(Permute(V, <<1, 2, 0, 3>>)), SoftMaxExt(MulMat(dense(K), dense(qr)), mask, c.hd))
        att == Reshape(IF flash THEN fa ELSE Cont(Permute(sm, <<0, 2, 1, 3>>)), D2(c.qf, seq))
    IN  GemmaOut(IF IsSite(w.fq_o) THEN FqLinear(o, w.fq_o, att, e.res, e.gate)
                 ELSE MmAct(o, w.Wo, AsType(att, at), at), kr, v)

\* keep: the caller takes this pass's K/V.
GemmaAttn(o, w, x, pos, c, seq, Kc, Vc, mask, at, flash, e, K16, V16, keep) ==
    IF RopeAttnTakes(w, c, x, seq, flash, K16, V16, mask, keep)
    THEN GemmaOut(FqLinear(o, w.fq_o, Reshape(FqRopeAttn(w.fq_qkv, c.rope, FqBlob(w.fq_qkv, x), pos, K16, V16, c.nq, c.hd),
                                              D2(c.qf, seq)), e.res, e.gate), Null, Null)
    ELSE IF KvSdpaTakes(o, w, c, x, seq, flash, K16, V16, mask, keep) THEN GemmaKvSdpa(o, w, c, x, pos, seq, K16, V16, e)
    ELSE IF RopePackTakes(o, w, c, x, flash, Kc, mask) THEN GemmaRopePack(o, w, c, x, pos, seq, e)
    ELSE GemmaAttnPlain(o, w, x, pos, c, seq, Kc, Vc, mask, at, flash, e, K16, V16)

GemmaMlp(o, w, x, at, e) ==
    LET glu == FqGluAct(w.fq_gu, w.fq_down, FqBlob(w.fq_gu, x))
        inter == FqGemm(o, w.fq_gu, FqBlob(w.fq_gu, x), Null, Null)
        xq  == FqAct(w.fq_gate, x.raw)
        gu  == IF Has(w.q_gu.w) THEN Qlinear(w.q_gu, x.norm, Null, Null, at, "none", Null) ELSE MmAct(o, w.Wgu, x.norm, at)
        half(i) == IF o.ew /\ gu.ty = "bf16" THEN RowPart(gu, 2, i) ELSE Cont(RowPart(gu, 2, i))
        cat == Has(w.Wgu) \/ Has(w.q_gu.w)
        g   == IF IsSite(w.fq_gate) THEN FqGemm(o, w.fq_gate, xq, Null, Null)
               ELSE IF cat THEN half(0) ELSE MmAct(o, w.Wgate, x.norm, at)
        u   == IF IsSite(w.fq_gate) THEN FqGemm(o, w.fq_up, xq, Null, Null)
               ELSE IF cat THEN half(1) ELSE MmAct(o, w.Wup, x.norm, at)
        m   == GeGlu(o, g, u)
    IN  IF IsSite(w.fq_gu) /\ w.glu_act THEN FqGemm(o, w.fq_down, glu, e.res, e.gate)
        ELSE IF IsSite(w.fq_gu)
        THEN IF IsSite(w.fq_down) THEN FqLinear(o, w.fq_down, inter, e.res, e.gate) ELSE MmAct(o, w.Wdown, inter, at)
        ELSE IF IsSite(w.fq_down) THEN FqLinear(o, w.fq_down, AsType(m, "f32"), e.res, Null)
        ELSE IF Has(w.q_down.w) THEN Qlinear(w.q_down, m, Null, Null, at, "none", Null)
        ELSE MmAct(o, w.Wdown, m, at)

GemmaMlpQ8(w, xq, res, at, gate, out_type) ==
    LET gu == Qlinear(w.q_gu, xq, Null, Null, at, "none", Null)
    IN  Qlinear(w.q_down, FusedGeglu(RowPart(gu, 2, 0), RowPart(gu, 2, 1), "i8", FALSE), Null, res,
                IF out_type = "at" THEN at ELSE out_type, "none", gate)

NoEpi == [res |-> Null, gate |-> Null]
Epi(r, g) == [res |-> r, gate |-> g]
Reads(norm, raw, blob) == [norm |-> norm, raw |-> raw, blob |-> blob]

\* One prefix layer: [y, k, v, kv].
GemmaLayer(o, w, x, pos, c, seq, Kc, Vc, mask, at, flash, kv) ==
    LET slot == kv # Null
        fused == ~slot /\ GemmaFused(o, w, at, flash, seq, seq + (IF Has(Kc) THEN Kc.ne[3] ELSE 0))
        rms(t, g) == FusedRmsMul(t, g, c.eps, TRUE)
        fqin == IsSite(w.fq_q) \/ IsSite(w.fq_qkv)
        norm == IF fqin THEN Null ELSE RmsNormW(x, w.ln_in, c.eps)
        af == IF IsSite(w.fq_q) THEN GemmaAttnFused(o, w, x, pos, c, seq, Kc, Vc, mask, x)
              ELSE GemmaAttnFused(o, w, rms(x, w.ln_in), pos, c, seq, Kc, Vc, mask, Null)
        hf == IF IsSite(w.fq_q) THEN af.y ELSE Add(x, af.y)
        ag == IF IsSite(w.fq_o) \/ ~slot
              THEN GemmaAttn(o, w, Reads(norm, x, Null), pos, c, seq, Kc, Vc, mask, at, flash,
                             IF IsSite(w.fq_o) THEN Epi(x, Null) ELSE NoEpi, Null, Null, TRUE)
              ELSE GemmaAttnKv(o, w, norm, pos, c, seq, kv, mask, at, Null, Null, "at")
        hg == IF IsSite(w.fq_o) THEN ag.y ELSE Add(x, ag.y)
        nm == IF IsSite(w.fq_gate) \/ IsSite(w.fq_gu) THEN Null ELSE RmsNormW(hg, w.ln_post, c.eps)
    IN  IF fused
        THEN [af EXCEPT !.y = IF IsSite(w.fq_q) THEN GemmaMlpFused(o, w, hf, hf)
                              ELSE Add(hf, GemmaMlpFused(o, w, rms(hf, w.ln_post), Null))]
        ELSE [ag EXCEPT !.y = IF IsSite(w.fq_down) THEN GemmaMlp(o, w, Reads(nm, hg, Null), at, Epi(hg, Null))
                              ELSE Add(hg, GemmaMlp(o, w, Reads(nm, hg, Null), at, NoEpi))]

GemmaLayerQ8(o, w, x, pos, c, seq, kv, mask, at) ==
    LET a == GemmaAttnKv(o, w, FusedRmsQ8(x, w.ln_in, c.eps), pos, c, seq, kv, mask, at, x, Null, "at")
    IN  [a EXCEPT !.y = GemmaMlpQ8(w, FusedRmsQ8(a.y, w.ln_post, c.eps), a.y, at, Null, "at")]

---------------------------------------------------------------------------
(* PaliGemma's SigLIP tower and projector. *)

PaliCfg(o) == [EncCfg(1152, 16, 4304, "vit_ln_eps", o.flash) EXCEPT !.act = o.act]
PaliVision == [image_size |-> 224, patch_size |-> 14, n_tokens |-> 256]
PaliVisionOk(v, hidden, heads, n_img) ==
    /\ v.patch_size > 0 /\ heads > 0 /\ hidden % heads = 0 /\ v.image_size % v.patch_size = 0
    /\ LET g == v.image_size \div v.patch_size IN g * g = v.n_tokens /\ v.n_tokens = n_img

=============================================================================
