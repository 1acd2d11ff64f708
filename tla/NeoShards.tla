------------------------------ MODULE NeoShards ------------------------------
(* Neo with tensor parallelism: the part of each weight a rank loads, the     *)
(* tokens it embeds and scores, the heads it attends with, and what travels   *)
(* between the server and its workers.  A model `m` has the sizes of the      *)
(* configuration; `ws` is the world size and `rk` a rank, from 0.             *)
EXTENDS Integers, Sequences, SequencesExt

--------------------------------------------------------------------------------
(* The registered weights: shape, and the one dimension that is split, or 0   *)

Weight(shape, split) == [shape |-> shape, split |-> split]
LayerWeights(m) ==
  [attn_norm |-> Weight(<<m.hidden>>, 0),
   q_proj    |-> Weight(<<m.hidden, m.hidden>>, 1),
   k_proj    |-> Weight(<<m.kvHeads * m.headDim, m.hidden>>, 1),
   v_proj    |-> Weight(<<m.kvHeads * m.headDim, m.hidden>>, 1),
   o_proj    |-> Weight(<<m.hidden, m.hidden>>, 2),
   ffn_norm  |-> Weight(<<m.hidden>>, 0),
   up_proj   |-> Weight(<<m.ffn, m.hidden>>, 1),
   gate_proj |-> Weight(<<m.ffn, m.hidden>>, 1),
   down_proj |-> Weight(<<m.hidden, m.ffn>>, 2)]
OuterWeights(m) ==
  [wte        |-> Weight(<<m.vocab, m.hidden>>, 1),
   lm_head    |-> Weight(<<m.vocab, m.hidden>>, 1),
   final_norm |-> Weight(<<m.hidden>>, 0)]

CanSplit(w, ws)  == w.split # 0 => w.shape[w.split] % ws = 0
RealShape(w, ws) == [d \in DOMAIN w.shape |-> IF d = w.split THEN w.shape[d] \div ws ELSE w.shape[d]]

\* The slice of dimension d that rank rk reads from a safetensors file
Slice(w, d, rk, ws) ==
  IF d = w.split THEN (rk * w.shape[d]) \div ws .. ((rk + 1) * w.shape[d]) \div ws - 1
  ELSE 0 .. w.shape[d] - 1

\* load_weights: random weights and PyTorch files cannot be split.
LoadRaises(m, ws, files) ==
  \/ files \in {"dummy", "pytorch"} /\ ws # 1
  \/ \E n \in DOMAIN OuterWeights(m) : ~CanSplit(OuterWeights(m)[n], ws)
  \/ \E n \in DOMAIN LayerWeights(m) : ~CanSplit(LayerWeights(m)[n], ws)

\* The weights of the layer after the last are those of the first.
NextLayer(layer, numLayers) ==
  LET i == layer + 1 - numLayers IN IF i < 0 THEN i + numLayers ELSE i

--------------------------------------------------------------------------------
(* What a rank does with them                                                 *)

\* LlamaPreLayer: the row of wte for a token, unless another rank has it
TokenOffs(m, rk, ws)    == (m.vocab \div ws) * rk
Embeds(m, token, rk, ws) ==
  token - TokenOffs(m, rk, ws) \in 0 .. RealShape(OuterWeights(m).wte, ws)[1] - 1
EmbeddedRow(m, token, rk, ws) ==
  (rk * m.vocab) \div ws + token - TokenOffs(m, rk, ws)

\* LlamaPostLayer: rank 0 puts the logits of the ranks one after another; the
\* token sampled is the index in the whole.
GatheredToken(m, rk, column, ws) == rk * RealShape(OuterWeights(m).lm_head, ws)[1] + column
ScoredToken(m, rk, column, ws)   == (rk * m.vocab) \div ws + column

\* Heads of a rank: its rows of q and k cut into heads.  Query head i of the
\* rank attends with its kv head i div (q heads div kv heads).
NumQ(m, ws)  == RealShape(LayerWeights(m).q_proj, ws)[1] \div m.headDim
NumKv(m, ws) == RealShape(LayerWeights(m).k_proj, ws)[1] \div m.headDim
KvHeadUsed(m, rk, i, ws) == rk * NumKv(m, ws) + i \div (NumQ(m, ws) \div NumKv(m, ws))
KvHeadMeant(m, rk, i, ws) ==
  (rk * NumQ(m, ws) + i) \div ((m.hidden \div m.headDim) \div m.kvHeads)

--------------------------------------------------------------------------------
(* Server and workers                                                         *)

\* The state of a request that is pickled for the workers
Sent(r) ==
  [r EXCEPT !.promptIds = IF r.outputLen = 0 THEN @ ELSE <<>>,
            !.outputIds = IF r.outputLen > 0 THEN <<Last(@)>> ELSE <<>>]
InputIds(r) == IF r.outputLen = 0 THEN r.promptIds ELSE <<Last(r.outputIds)>>

\* get_ids and get_lens of the two
Described(r) == [id |-> r.id, seqLen |-> r.promptLen + r.outputLen]

\* The executor: one process, or one worker a rank of which only the first
\* has the tokens.
ExecutorOf(ws) == IF ws = 1 THEN "single" ELSE "ray"
RankResult(rk, tokens) == IF rk = 0 THEN tokens ELSE <<>>
IterationResult(ws, tokens) ==
  IF ExecutorOf(ws) = "single" THEN RankResult(0, tokens)
  ELSE [i \in 1 .. ws |-> RankResult(i - 1, tokens)][1]
================================================================================
