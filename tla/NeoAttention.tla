---------------------------- MODULE NeoAttention ----------------------------
(* The indices of Neo's forward pass: which rows of the flat tensors belong  *)
(* to which token of which request, which keys the attention kernels read    *)
(* for it, and from which row the next token is sampled.  A request has an   *)
(* id, a prompt and an output length; a batch has its prefills, GPU decodes  *)
(* and CPU decodes, in this order.  A token is <<id, position>>, an entry of *)
(* the paged cache <<index into the block table, offset>>.                   *)
EXTENDS Integers, Sequences, SequencesExt

CeilDiv(a, b) == (a + b - 1) \div b

-----------------------------------------------------------------------------
(* The flat layout                                                           *)

SeqLenOf(r)   == r.prompt + r.output
AllReqs(b)    == b.prefs \o b.gdecs \o b.cdecs
Lens(reqs)    == [i \in DOMAIN reqs |-> SeqLenOf(reqs[i])]
SumOf(s)      == FoldLeft(LAMBDA x, y : x + y, 0, s)
MaxOf(s)      == FoldLeft(LAMBDA x, y : IF x < y THEN y ELSE x, 0, s)
RangeFrom(a, b) == [i \in 1 .. b - a |-> a + i - 1]        \* range(a, b)

\* get_input_tokens
InputTokens(reqs) ==
  FlattenSeq([i \in DOMAIN reqs |->
    IF reqs[i].output = 0
    THEN [p \in 1 .. reqs[i].prompt |-> <<reqs[i].id, p - 1>>]
    ELSE << <<reqs[i].id, SeqLenOf(reqs[i]) - 1>> >>])

SumPrefToks(b) == SumOf(Lens(b.prefs))
IterWidth(b)   == SumPrefToks(b) + Len(b.gdecs) + Len(b.cdecs)
StartLocs(b)   == [i \in 1 .. Len(b.prefs) + 1 |-> SumOf(Lens(SubSeq(b.prefs, 1, i - 1)))]
PositionIndices(b) ==
  FlattenSeq([i \in DOMAIN b.prefs |-> RangeFrom(0, b.prefs[i].prompt)])
  \o [i \in DOMAIN (b.gdecs \o b.cdecs) |-> SeqLenOf((b.gdecs \o b.cdecs)[i]) - 1]
LastTokenIndices(b) ==
  [i \in DOMAIN b.prefs |-> StartLocs(b)[i + 1] - 1] \o RangeFrom(SumPrefToks(b), IterWidth(b))

\* LlamaPostLayer.forward: the rows of the embeddings the logits come from
SampledRows(batches) ==
  FoldLeft(LAMBDA st, b :
             [rows |-> IF st.offs = 0 THEN LastTokenIndices(b)
                       ELSE st.rows \o [i \in DOMAIN LastTokenIndices(b) |-> LastTokenIndices(b)[i] + st.offs],
              offs |-> st.offs + IterWidth(b)],
           [rows |-> <<>>, offs |-> 0], batches).rows

\* alloc_for_batches: the rows of the shared buffers a batch works on
BufferRows(batches, i) ==
  LET offs == SumOf([j \in 1 .. i - 1 |-> IterWidth(batches[j])]) IN
  offs .. offs + IterWidth(batches[i]) - 1

-----------------------------------------------------------------------------
(* Prefills: one program of the kernel for each block of BLOCK_Q queries     *)

NextPowerOf2(n) == CHOOSE p \in {2 ^ k : k \in 0 .. 20} : n <= p /\ p < 2 * n
BlockSizes(maxLen) ==
  LET fit == NextPowerOf2(IF maxLen < 16 THEN 16 ELSE maxLen) IN
  [q |-> IF fit < 128 THEN fit ELSE 128, k |-> IF fit < 64 THEN fit ELSE 64]

QBlocks(maxLen, B) == 0 .. CeilDiv(maxLen, B.q) - 1
Returns(len, qBlock, B) == qBlock * B.q >= len
KBlockStarts(qBlock, B) == {s \in 0 .. (qBlock + 1) * B.q - 1 : s % B.k = 0}
StoredQueries(len, qBlock, B) ==
  {q \in qBlock * B.q .. (qBlock + 1) * B.q - 1 : q < len /\ ~Returns(len, qBlock, B)}

\* The keys of one block that have weight for query q; only the blocks on the
\* diagonal are masked.
KeysScored(len, q, qBlock, start, B) ==
  {key \in start .. start + B.k - 1 : start >= qBlock * B.q => key < len /\ q >= key}

\* store_kvcache: <<entry, row>> for each key and value stored for a prefill
StoredKv(start, len, maxLen, blockSize) ==
  {<<x, start + x[1] * blockSize + x[2]>> :
     x \in {y \in (0 .. (maxLen - 1) \div blockSize) \X (0 .. blockSize - 1) :
              blockSize * y[1] + y[2] < len}}

-----------------------------------------------------------------------------
(* Decodes on the GPU: one program for each sequence block of a request      *)

\* set_model_forward_args halves the block size while the GPU is not full.
CanHalve(size, kvHeads, lens) ==
  /\ kvHeads * SumOf(lens) < 1024 * size
  /\ size \div 2 >= 64
  /\ MaxOf(lens) <= 128 * (size \div 2)
SeqBlockSizes == <<2048, 1024, 512, 256, 128, 64>>
SeqBlockSize(kvHeads, lens) ==
  SeqBlockSizes[CHOOSE i \in DOMAIN SeqBlockSizes :
                  /\ ~CanHalve(SeqBlockSizes[i], kvHeads, lens)
                  /\ \A j \in 1 .. i - 1 : CanHalve(SeqBlockSizes[j], kvHeads, lens)]
NumSeqBlocks(lens, size) == CeilDiv(MaxOf(lens), size)

SeqBlockReturns(len, size, seqBlock) == seqBlock * size >= len
IsLastSeqBlock(len, size, seqBlock)  == seqBlock * size + size >= len

\* The entry the new key and value go to; the last sequence block stores them.
NewEntry(len, blockSize) == <<(len - 1) \div blockSize, (len - 1) % blockSize>>
BlocksRead(len, size, blockSize, seqBlock) ==
  IF IsLastSeqBlock(len, size, seqBlock)
  THEN 0 .. CeilDiv(len - seqBlock * size, blockSize) - 1
  ELSE 0 .. (size \div blockSize) - 1
\* Entries of one block with weight; only the last sequence block is masked.
EntriesScored(len, size, blockSize, seqBlock, block) ==
  {<<seqBlock * (size \div blockSize) + block, i>> :
     i \in {o \in 0 .. blockSize - 1 :
              IsLastSeqBlock(len, size, seqBlock) =>
                block * blockSize + seqBlock * size + o < len}}
ProgramEntries(len, size, blockSize, seqBlock) ==
  UNION {EntriesScored(len, size, blockSize, seqBlock, block) :
           block \in BlocksRead(len, size, blockSize, seqBlock)}

\* Phase 2 merges the outputs of these programs.
SeqBlocksMerged(len, size) == 0 .. CeilDiv(len, size) - 1
=============================================================================
