--------------------------- MODULE MCNeoPipeline ---------------------------
(* Instances of Neo's worker for TLC. *)
EXTENDS NeoPipeline, NeoAttention, NeoShards, TLC
CONSTANTS r1, r2, r3
MCSymmetry == Permutations(Reqs)

-----------------------------------------------------------------------------
(* The indices of the forward pass, by evaluation, with the kernels' own     *)
(* block sizes and lengths around their multiples.                           *)

Lengths == {1, 15, 16, 17, 64, 65, 130}
Decoding(lens, first) == [i \in DOMAIN lens |-> [id |-> first + i, prompt |-> lens[i], output |-> 1]]
Prefilling(lens)      == [i \in DOMAIN lens |-> [id |-> i, prompt |-> lens[i], output |-> 0]]
SampleBatches ==
  {[prefs |-> Prefilling(p), gdecs |-> Decoding(g, 10), cdecs |-> Decoding(c, 20)] :
     p \in {<<>>, <<3>>, <<1, 4>>}, g \in {<<>>, <<2>>, <<5, 1>>}, c \in {<<>>, <<1>>, <<2, 3>>}}
NonEmpty == {b \in SampleBatches : AllReqs(b) # <<>>}

(* Every row is rotated to the position of its own token, and the token that *)
(* is appended to a request is sampled from the row of its last token, for   *)
(* one batch and for two, whose rows of the shared buffers do not overlap.   *)
ASSUME RowsRight ==
  /\ \A b \in NonEmpty :
       LET tokens == InputTokens(AllReqs(b)) IN
       /\ Len(tokens) = IterWidth(b)
       /\ PositionIndices(b) = [i \in DOMAIN tokens |-> tokens[i][2]]
  /\ \A bs \in {<<b>> : b \in NonEmpty} \union {<<a, b>> : a \in NonEmpty, b \in NonEmpty} :
       LET reqs   == FlattenSeq([i \in DOMAIN bs |-> AllReqs(bs[i])])
           tokens == FlattenSeq([i \in DOMAIN bs |-> InputTokens(AllReqs(bs[i]))])
           rows   == SampledRows(bs) IN
       /\ Len(rows) = Len(reqs)
       /\ \A i \in DOMAIN reqs : tokens[rows[i] + 1] = <<reqs[i].id, SeqLenOf(reqs[i]) - 1>>
       /\ Len(bs) = 2 => BufferRows(bs, 1) \intersect BufferRows(bs, 2) = {}

(* A query of a prefill sees every position up to its own exactly once, and  *)
(* some in the first block it looks at (a block without any would be taken   *)
(* for scores of zero); one program stores its output.                       *)
ASSUME PrefillsCausal ==
  \A toks \in Lengths, other \in Lengths :
    LET maxLen == MaxOf(<<toks, other>>)
        B      == BlockSizes(maxLen) IN
    \A q \in 0 .. toks - 1 :
      \E qBlock \in QBlocks(maxLen, B) :
        LET starts == KBlockStarts(qBlock, B)
            keys   == [s \in starts |-> KeysScored(toks, q, qBlock, s, B)] IN
        /\ {qb \in QBlocks(maxLen, B) : q \in StoredQueries(toks, qb, B)} = {qBlock}
        /\ UNION {keys[s] : s \in starts} = 0 .. q
        /\ \A s, t \in starts : s # t => keys[s] \intersect keys[t] = {}
        /\ keys[0] # {}

(* The new key is stored once, by the only program that reads it; all others *)
(* are read once, all in blocks the request owns; phase 2 merges programs    *)
(* that were launched and wrote something.                                   *)
ASSUME DecodesSeeAll ==
  \A toks \in Lengths \union {127, 128, 129}, other \in Lengths, blockSize \in {16, 64} :
    LET lens   == <<toks, other>>
        size   == SeqBlockSize(8, lens)
        merged == SeqBlocksMerged(toks, size)
        read   == [s \in merged |-> ProgramEntries(toks, size, blockSize, s)] IN
    /\ size % blockSize = 0
    /\ merged \subseteq 0 .. NumSeqBlocks(lens, size) - 1
    /\ \A s \in merged : /\ ~SeqBlockReturns(toks, size, s)
                         /\ EntriesScored(toks, size, blockSize, s, 0) # {}
    /\ UNION {read[s] : s \in merged} = {<<p \div blockSize, p % blockSize>> : p \in 0 .. toks - 1}
    /\ \A s, t \in merged : s # t => read[s] \intersect read[t] = {}
    /\ {s \in merged : IsLastSeqBlock(toks, size, s)} = {s \in merged : NewEntry(toks, blockSize) \in read[s]}
    /\ \A s \in merged : \A e \in read[s] : e[1] < CeilDiv(toks, blockSize)

(* Where the decodes will look for the prompt, the prefill has stored it,    *)
(* each token from its own row.                                              *)
ASSUME PromptsStored ==
  \A toks \in Lengths, other \in Lengths, blockSize \in {16, 64}, start \in {0, 7} :
    StoredKv(start, toks, MaxOf(<<toks, other>>), blockSize)
      = {<< <<p \div blockSize, p % blockSize>>, start + p>> : p \in 0 .. toks - 1}

(* The sequence blocks are halved only as long as no request has more than   *)
(* 128 of them, whatever the batch.                                          *)
ASSUME SeqBlocksBounded ==
  \A a \in {1, 8191, 8192, 8193, 100000}, b \in {1, 64, 70000, 262144}, kvHeads \in {1, 8, 40} :
    NumSeqBlocks(<<a, b>>, SeqBlockSize(kvHeads, <<a, b>>)) <= 128

-----------------------------------------------------------------------------
(* Tensor parallelism, by evaluation: small models, with kv heads shared by  *)
(* one or by several query heads, some of which do not divide by the ranks.  *)

Models == [hidden: {8, 16}, headDim: {2}, kvHeads: {1, 2, 4}, ffn: {6, 8}, vocab: {7, 8}]
Ranks(ws) == 0 .. ws - 1
Loaded(ws) == {m \in Models : ~LoadRaises(m, ws, "safetensors")}

(* The ranks together have every weight once: of each dimension the slices   *)
(* have the registered shape, do not overlap and leave nothing out.          *)
ASSUME WeightsPartitioned ==
  \A ws \in {1, 2, 4} : \A m \in Loaded(ws) :
    \A w \in Range(LayerWeights(m)) \union Range(OuterWeights(m)) : \A d \in DOMAIN w.shape :
      /\ UNION {Slice(w, d, rk, ws) : rk \in Ranks(ws)} = 0 .. w.shape[d] - 1
      /\ \A rk \in Ranks(ws) : Cardinality(Slice(w, d, rk, ws)) = RealShape(w, ws)[d]
      /\ d = w.split => \A a, b \in Ranks(ws) : a # b => Slice(w, d, a, ws) \intersect Slice(w, d, b, ws) = {}

(* Every token is embedded by one rank, from its own row, so that the sum    *)
(* over the ranks is its embedding; the token sampled is the one whose logit *)
(* was the largest.                                                          *)
ASSUME VocabularyShared ==
  \A ws \in {1, 2, 4} : \A m \in Loaded(ws) :
    /\ \A token \in 0 .. m.vocab - 1 :
         /\ Cardinality({rk \in Ranks(ws) : Embeds(m, token, rk, ws)}) = 1
         /\ \A rk \in Ranks(ws) : Embeds(m, token, rk, ws) => EmbeddedRow(m, token, rk, ws) = token
    /\ \A rk \in Ranks(ws) : \A c \in 0 .. (m.vocab \div ws) - 1 :
         GatheredToken(m, rk, c, ws) = ScoredToken(m, rk, c, ws)

(* A query head attends with the kv head of its group, whichever rank it is  *)
(* on, as long as every rank has whole kv heads.                             *)
ASSUME GroupsStayTogether ==
  \A ws \in {1, 2, 4} : \A m \in {x \in Loaded(ws) : x.kvHeads % ws = 0} :
    \A rk \in Ranks(ws) : \A i \in 0 .. NumQ(m, ws) - 1 :
      KvHeadUsed(m, rk, i, ws) = KvHeadMeant(m, rk, i, ws)

(* A worker computes from the pickled request what the server would, and the *)
(* server gets one list of tokens from however many workers.                 *)
ASSUME WorkersGetInputs ==
  /\ \A prompt \in {<<1>>, <<1, 2>>}, output \in {<<>>, <<3>>, <<3, 4>>} :
       LET r == [id |-> 0, promptIds |-> prompt, promptLen |-> Len(prompt),
                 outputIds |-> output, outputLen |-> Len(output)] IN
       InputIds(Sent(r)) = InputIds(r) /\ Described(Sent(r)) = Described(r)
  /\ \A ws \in {1, 2, 4} : IterationResult(ws, <<5, 6>>) = <<5, 6>>

(* The weights a layer holds for the layer after it are that layer's.        *)
ASSUME NextLayerRight ==
  \A n \in 1 .. 4 : \A layer \in 0 .. n - 1 : NextLayer(layer, n) = (layer + 1) % n
=============================================================================
