---------------------------------- MODULE Lm ----------------------------------
(***************************************************************************)
(* The Qwen3 language model (src/src/modules/qwen3_lm.cpp), the fused      *)
(* layer of the SYCL models (modules/fused_lm.h) and the prompt            *)
(* (modules/prompt.cpp).                                                   *)
(***************************************************************************)
EXTENDS Dit

\* One layer of declare: q/k/v (and gate/up) all sites or all floats.
Qwen3Cfg(hidden, nq, nkv, hd, inter, flash, rope) ==
    [hidden |-> hidden, nq |-> nq, nkv |-> nkv, hd |-> hd, inter |-> inter, eps |-> "rms_eps", rope |-> rope,
     flash |-> flash, fused_ops |-> FALSE]
Qwen3Weights(o, c, p, q) ==
    LET norm(n, N) == F32W(p, n, N)
        proj(n, K, N, gamma) == FqProj(o, q, GemmW(o, p, n, K, N), Null, gamma)
        v == proj("attn_v", c.hidden, c.nkv * c.hd, norm("attn_norm", c.hidden))
    IN  [attn_norm |-> norm("attn_norm", c.hidden), ffn_norm |-> norm("ffn_norm", c.hidden),
         q_norm |-> norm("attn_q_norm", c.hd), k_norm |-> norm("attn_k_norm", c.hd),
         q    |-> proj("attn_q", c.hidden, c.nq * c.hd, norm("attn_norm", c.hidden)),
         k    |-> proj("attn_k", c.hidden, c.nkv * c.hd, norm("attn_norm", c.hidden)),
         v    |-> [v EXCEPT !.s = FqSetHeads(@, c.hd, c.nkv, IF c.flash THEN {} ELSE {0})],
         o    |-> proj("attn_o", c.nq * c.hd, c.hidden, Null),
         gate |-> proj("ffn_gate", c.hidden, c.inter, norm("ffn_norm", c.hidden)),
         up   |-> proj("ffn_up", c.hidden, c.inter, norm("ffn_norm", c.hidden)),
         down |-> proj("ffn_down", c.inter, c.hidden, Null)]

\* Float weights and the CUDA nodes.
Qwen3FloatNodes(c, w) ==
    c.fused_ops /\ ~IsSite(w.q.s) /\ ~IsSite(w.o.s) /\ ~IsSite(w.gate.s) /\ ~IsSite(w.down.s)

Qwen3Attn(o, c, w, h, pos, mask, seq) ==
    LET fz == Qwen3FloatNodes(c, w)
        bf(ws) == \A i \in DOMAIN ws : Bf16OperandRows(ws[i].W, seq)
        hn == IF fz THEN FusedRmsMul(h, w.attn_norm, c.eps, bf(<<w.q, w.k, w.v>>)) ELSE RmsNormW(h, w.attn_norm, c.eps)
        proj(pr) == IF IsSite(pr.s) THEN FqGemm(o, pr.s, FqAct(w.q.s, h), Null, Null)
                    ELSE IF fz THEN MmExact(o, pr.W, hn) ELSE MulMat(pr.W, hn)
        qh == Reshape(proj(w.q), D3(c.hd, c.nq, seq))
        kh == Reshape(proj(w.k), D3(c.hd, c.nkv, seq))
        vp == proj(w.v)
        v_heads == IsSite(w.v.s) /\ w.v.s.heads > 0
        vh == Reshape(vp, D3(c.hd, c.nkv, seq))
        heads(t) == Permute(t, <<0, 2, 1, 3>>)
        fqk == /\ fz \/ (c.fused_ops /\ IsSite(w.q.s) /\ ~c.flash)
               /\ c.rope.type = "imrope" /\ c.rope.n_dims = c.hd /\ c.hd % 64 = 0
        turned(t, n, f16) == IF fqk THEN FusedQkNormRope(t, n, pos, c.eps, c.rope, f16)
                             ELSE heads(Rope(c.rope, RmsNormW(t, n, c.eps), pos))
        Q  == Cont(turned(qh, w.q_norm, FALSE))
        K  == Cont(turned(kh, w.k_norm, FALSE))
        K16 == Cast(turned(kh, w.k_norm, TRUE), "f16")
        V  == IF v_heads THEN FqHeadView(vp, w.v.s, 0, seq) ELSE Cont(heads(vh))
        Vt == IF v_heads THEN FqHeadView(vp, w.v.s, 0, seq) ELSE Cont(Permute(vh, <<1, 2, 0, 3>>))
        hq == c.nq * c.hd
    IN  IF fz /\ c.flash THEN FlashAttention(Q, K16, Cast(heads(vh), "f16"), AsType(mask, "f16"), c.hd)
        ELSE IF c.flash THEN FlashAttention(Q, K, V, Cast(mask, "f16"), c.hd)
        ELSE IF fz THEN AttentionRows(Q, K, Vt, c.hd, hq, seq, 1, bf(<<w.o>>), mask)
        ELSE Attention(Q, K, Vt, mask, c.hd, hq, seq, 1)

Qwen3Mlp(o, c, w, h, seq) ==
    LET fz == Qwen3FloatNodes(c, w)
        xq == FqAct(w.gate.s, h)
        g  == FqGemm(o, w.gate.s, xq, Null, Null)
        u  == FqGemm(o, w.up.s, xq, Null, Null)
        dq == IF c.fused_ops /\ IsSite(w.down.s) THEN FqActGlu(o, w.down.s, g, u, "SiluMul") ELSE Null
        bf == Bf16OperandRows(w.gate.W, seq) /\ Bf16OperandRows(w.up.W, seq)
        n2 == FusedRmsMul(h, w.ffn_norm, c.eps, bf)
        hn == RmsNormW(h, w.ffn_norm, c.eps)
        mid == IF IsSite(w.gate.s) THEN Mul(Silu(g), u) ELSE Mul(Silu(MulMat(w.gate.W, hn)), MulMat(w.up.W, hn))
    IN  IF IsSite(w.gate.s) /\ Has(dq) THEN FqGemm(o, w.down.s, dq, h, Null)
        ELSE IF ~IsSite(w.gate.s) /\ fz
        THEN Add(h, MmExact(o, w.down.W, FusedSiluMul(MmExact(o, w.gate.W, n2), MmExact(o, w.up.W, n2),
                                                      Bf16OperandRows(w.down.W, seq))))
        ELSE IF IsSite(w.down.s) THEN FqLinear(o, w.down.s, mid, h, Null) ELSE Add(h, MulMat(w.down.W, mid))

Qwen3Block(o, c, w, h, pos, mask, seq) ==
    LET att == Qwen3Attn(o, c, w, h, pos, mask, seq)
        ha  == IF IsSite(w.o.s) THEN FqLinear(o, w.o.s, att, h, Null)
               ELSE Add(h, IF Qwen3FloatNodes(c, w) THEN MmExact(o, w.o.W, att) ELSE MulMat(w.o.W, att))
    IN  Qwen3Mlp(o, c, w, ha, seq)

---------------------------------------------------------------------------
(* fused_lm.h: 8 nodes a layer, K/V through one pair of F16 buffers.       *)

FusedLmWeights(o, c, p, qkv_bias) ==
    LET w(n, N) == GemmW(o, p, n, c.hidden, N)
        b(n, N) == F32W(p, n, N)
    IN  [attn_norm |-> F32W(p, "attn_norm", c.hidden), ffn_norm |-> F32W(p, "ffn_norm", c.hidden),
         Wqkv |-> Fuse(<<w("attn_q", c.nq * c.hd), w("attn_k", c.nkv * c.hd), w("attn_v", c.nkv * c.hd)>>),
         bqkv |-> IF qkv_bias THEN Fuse(<<b("bq", c.nq * c.hd), b("bk", c.nkv * c.hd), b("bv", c.nkv * c.hd)>>) ELSE Null,
         Wo |-> GemmW(o, p, "attn_o", c.nq * c.hd, c.hidden),
         Wgu |-> Fuse(<<w("ffn_gate", c.inter), w("ffn_up", c.inter)>>),
         Wdown |-> GemmW(o, p, "ffn_down", c.inter, c.hidden)]
FusedLmKv(c, seq) == [k |-> T("f16", D3(c.hd, c.nkv, seq), <<"kbuf">>), v |-> T("f16", D3(c.hd, c.nkv, seq), <<"vbuf">>)]
FusedLmLayer(c, w, h, pos, mask16, seq, qmask, kv) ==
    LET qkv == FusedLinear(w.Wqkv, FusedRms(h, w.attn_norm, "bf16", c.eps), w.bqkv, Null, "f32", "none")
        r   == FusedRopeKv(qkv, pos, kv.k, kv.v, c.nq, c.nkv, c.hd, 0, c.rope)
        rows(buf, t) == Permute(Window(buf, D3(c.hd, c.nkv, seq), "rows", seq <= buf.ne[3] /\ ~IsBad(t), t.val),
                                <<0, 2, 1, 3>>)
        fa  == FlashAttnExt(Permute(r.q, <<0, 2, 1, 3>>), rows(kv.k, r.k), rows(kv.v, r.v), mask16, c.hd)
        att == IF Has(qmask) THEN Cast(Mul(Reshape(fa, D2(c.nq * c.hd, seq)), qmask), "bf16")
               ELSE Reshape(Retype(fa, "bf16"), D2(c.nq * c.hd, seq))
        h1  == FusedLinear(w.Wo, att, Null, h, "f32", "none")
        gu  == FusedLinear(w.Wgu, FusedRms(h1, w.ffn_norm, "bf16", c.eps), Null, Null, "bf16", "none")
    IN  FusedLinear(w.Wdown, FusedSwiglu(RowPart(gu, 2, 0), RowPart(gu, 2, 1), "bf16"), Null, h1, "f32", "none")

---------------------------------------------------------------------------
(* The prompt: image slots named by the client, or put before its tokens.  *)

ImageToken == "img"
BuildPrompt(lang, n_img, max_seq) ==
    LET slots == Cardinality({j \in DOMAIN lang : lang[j] = ImageToken})
        ids   == IF slots = n_img THEN lang ELSE [i \in 1..n_img |-> ImageToken] \o lang
    IN  [ok |-> slots \in {0, n_img} /\ Len(ids) <= max_seq, ids |-> ids]
ImagePos(ids) == {p \in DOMAIN ids : ids[p] = ImageToken}
\* Row p of the embeddings: the token's, or the next row the tower wrote.
FetchEmbeds(ids) ==
    [p \in DOMAIN ids |-> IF ids[p] = ImageToken THEN <<"view_row", Cardinality({r \in ImagePos(ids) : r < p})>>
                          ELSE <<"token", ids[p]>>]
\* init_noise: the request's n numbers, or n of our own.
InitNoise(given, n) == [from |-> IF given THEN "request" ELSE "generator", len |-> n]
=============================================================================
