----------------------------- MODULE KernelPipeline -----------------------------
(***************************************************************************)
(* One thread block of sm_parallel_v2_cpu_kv_fwd_kernel: thread 0 of the   *)
(* producer warpgroup (the others only meet it at the barriers), the       *)
(* consumer warpgroup, and the TMA engine that carries out what thread 0   *)
(* issued, in any order.  Blocks share nothing but read-only inputs.       *)
(*                                                                         *)
(* The consumer warpgroup is one process: WGMMA is issued by the warpgroup *)
(* as a whole, and a row of the merge is handled by the warp whose         *)
(* fragments hold it.  The weights were loaded once before the loop.       *)
(*                                                                         *)
(* A KV tile is abstracted to its number, NoTile when the memory holds     *)
(* anything else.                                                          *)
(***************************************************************************)
EXTENDS Integers, Sequences

CONSTANTS
  Past, New,  \* num_n_blocks_past, and the blocks after them
  Chunks,     \* kNumProjChunks: slices of the hidden dimension
  QTiles      \* gqa_ratio * num_m_blocks

ASSUME PipelineAssumption ==
  /\ Past \in Nat
  /\ New \in Nat \ {0}
  /\ Chunks \in Nat \ {0}
  /\ QTiles \in Nat \ {0}

Tiles == 0 .. Past + New - 1
Qs    == 0 .. QTiles - 1
Parts == {"k", "v"}
NoTile == -1

\* pipeline_proj and pipeline_q: two stages each, over the same two buffers
\* (sX_p aliases sQ0 and sQ1).
Pipes  == {"x", "q"}
Stages == {0, 1}
XChunk(t, c) == <<"x", t, c>>   \* chunk c of the t-th new tile of X
QTile(q)     == <<"q", q>>
Nothing      == <<>>

VARIABLES
  prod, cons,  \* where thread 0 and the consumer are: [at, n, i]
  wr, rd,      \* pipe_*_write and pipe_*_read: stage and phase bit
  full, empty, \* phase bit of each pipeline stage's two mbarriers
  kvBar,       \* phase bit of kv_mbar
  kvPhase,     \* kv_phase of thread 0 and of the consumer
  loads,       \* TMA loads into sQ0, sQ1 issued and not completed
  fetches,     \* TMA loads of parts of a past tile issued and not completed
  stores,      \* write-backs issued and not completed
  buf,         \* sQ0, sQ1
  tile,        \* sKbuf, sVbuf as plain loads and stores see them
  view,        \* sKbuf, sVbuf as TMA and WGMMA see them
  host,        \* K and V in host memory, by tile
  acc,         \* acc_k, acc_v hold the right chunks so far
  score,       \* acc_s is of the right Q and K
  out          \* the tiles merged into O_run, LSE_run of each Q tile

smem == <<buf, tile, view>>
sync == <<full, empty, kvBar>>
vars == <<prod, cons, wr, rd, sync, kvPhase, loads, fetches, stores, smem, host, acc, score, out>>

IsPast(n) == n < Past

\* The next value of a loop variable, and what follows the loop.
Step(p, last, after) ==
  IF p.i + 1 < last THEN [p EXCEPT !.i = @ + 1] ELSE [p EXCEPT !.i = 0, !.at = after]

\* ++ of a PipelineState<2>.
Advance(st) == [i |-> 1 - st.i, ph |-> IF st.i = 1 THEN 1 - st.ph ELSE st.ph]

Init ==
  /\ prod = [at |-> IF Past > 0 THEN "load" ELSE "x", n |-> 0, i |-> 0]
  /\ cons = [at |-> IF Past > 0 THEN "wait" ELSE "x", n |-> 0, i |-> 0]
  /\ wr = [p \in Pipes |-> [i |-> 0, ph |-> 1]]
  /\ rd = [p \in Pipes |-> [i |-> 0, ph |-> 0]]
  /\ full = [p \in Pipes |-> [s \in Stages |-> 0]]
  /\ empty = [p \in Pipes |-> [s \in Stages |-> 0]]
  /\ kvBar = 0
  /\ kvPhase = [t \in {"prod", "cons"} |-> 0]
  /\ loads = {} /\ fetches = {} /\ stores = {}
  /\ buf = [s \in Stages |-> Nothing]
  /\ tile = [part \in Parts |-> NoTile]
  /\ view = [part \in Parts |-> NoTile]
  /\ host = [part \in Parts |-> [n \in Tiles |-> IF IsPast(n) THEN n ELSE NoTile]]
  /\ acc = FALSE /\ score = FALSE
  /\ out = [q \in Qs |-> <<>>]

--------------------------------------------------------------------------------
(* Producer: thread 0.                                                     *)

\* A wait for parity ph passes once the phase of that parity is over.
CanFillAlways(pipe) == TRUE

CanFill(pipe) == empty[pipe][wr[pipe].i] # wr[pipe].ph

\* producer_acquire, then a TMA load of val into the stage.
Fill(pipe, val) ==
  /\ CanFill(pipe)
  /\ loads' = loads \union {[pipe |-> pipe, stage |-> wr[pipe].i, val |-> val]}
  /\ wr' = [wr EXCEPT ![pipe] = Advance(@)]

\* A past tile: K and V under one expected byte count of kv_mbar.
LoadTile ==
  /\ prod.at = "load"
  /\ fetches' = fetches \union {[part |-> part, n |-> prod.n] : part \in Parts}
  /\ prod' = [prod EXCEPT !.at = "wait"]
  /\ UNCHANGED <<cons, wr, rd, sync, kvPhase, loads, stores, smem, host, acc, score, out>>

ProducerTileReady ==
  /\ prod.at = "wait" /\ kvBar # kvPhase["prod"]
  /\ kvPhase' = [kvPhase EXCEPT !["prod"] = 1 - @]
  /\ prod' = [prod EXCEPT !.at = "q"]
  /\ UNCHANGED <<cons, wr, rd, sync, loads, fetches, stores, smem, host, acc, score, out>>

\* A new tile: the chunks of its rows of X.
LoadChunk ==
  /\ prod.at = "x"
  /\ Fill("x", XChunk(prod.n - Past, prod.i))
  /\ prod' = Step(prod, Chunks, "syncA")
  /\ UNCHANGED <<cons, rd, sync, kvPhase, fetches, stores, smem, host, acc, score, out>>

StoreTileNoFence ==
  /\ prod.at = "store"
  /\ stores' = stores \union {[part |-> part, n |-> prod.n] : part \in Parts}
  /\ prod' = [prod EXCEPT !.at = "q"]
  /\ UNCHANGED <<cons, wr, rd, sync, kvPhase, loads, fetches, smem, host, acc, score, out>>

\* tma_store_fence, then the write-back of K and V as one bulk group.
StoreTile ==
  /\ prod.at = "store"
  /\ view' = tile
  /\ stores' = stores \union {[part |-> part, n |-> prod.n] : part \in Parts}
  /\ prod' = [prod EXCEPT !.at = "q"]
  /\ UNCHANGED <<cons, wr, rd, sync, kvPhase, loads, fetches, buf, tile, host, acc, score, out>>

LoadQ ==
  /\ prod.at = "q"
  /\ Fill("q", QTile(prod.i))
  /\ prod' = Step(prod, QTiles, IF IsPast(prod.n) THEN "syncB" ELSE "drain")
  /\ UNCHANGED <<cons, rd, sync, kvPhase, fetches, stores, smem, host, acc, score, out>>

DrainNoWait ==
  /\ prod.at = "drain"
  /\ prod' = [prod EXCEPT !.at = "syncB"]
  /\ UNCHANGED <<cons, wr, rd, sync, kvPhase, loads, fetches, stores, smem, host, acc, score, out>>

\* cp_async_bulk_wait_group<0>
Drain ==
  /\ prod.at = "drain" /\ stores = {}
  /\ prod' = [prod EXCEPT !.at = "syncB"]
  /\ UNCHANGED <<cons, wr, rd, sync, kvPhase, loads, fetches, stores, smem, host, acc, score, out>>

--------------------------------------------------------------------------------
(* Consumer warpgroup.                                                     *)

CanTake(pipe) == full[pipe][rd[pipe].i] # rd[pipe].ph

\* consumer_release
Release(pipe) ==
  /\ empty' = [empty EXCEPT ![pipe][rd[pipe].i] = 1 - @]
  /\ rd' = [rd EXCEPT ![pipe] = Advance(@)]
  /\ UNCHANGED <<full, kvBar>>

ConsumerTileReady ==
  /\ cons.at = "wait" /\ kvBar # kvPhase["cons"]
  /\ kvPhase' = [kvPhase EXCEPT !["cons"] = 1 - @]
  /\ cons' = [cons EXCEPT !.at = "q"]
  /\ UNCHANGED <<prod, wr, rd, sync, loads, fetches, stores, smem, host, acc, score, out>>

\* One chunk of the projection into acc_k and acc_v.
Project ==
  /\ cons.at = "x" /\ CanTake("x")
  /\ acc' = ((cons.i = 0 \/ acc) /\ buf[rd["x"].i] = XChunk(cons.n - Past, cons.i))
  /\ Release("x")
  /\ cons' = Step(cons, Chunks, "write")
  /\ UNCHANGED <<prod, wr, kvPhase, loads, fetches, stores, smem, host, score, out>>

\* The projected K (rotated) and V, by plain stores.  They may reach the
\* async proxy at once; they need not before a proxy fence.
WriteTile ==
  LET new == [part \in Parts |-> IF acc THEN cons.n ELSE NoTile] IN
  /\ cons.at = "write"
  /\ tile' = new
  /\ \E seen \in SUBSET Parts :
       view' = [part \in Parts |-> IF part \in seen THEN new[part] ELSE view[part]]
  /\ cons' = [cons EXCEPT !.at = "syncA"]
  /\ UNCHANGED <<prod, wr, rd, sync, kvPhase, loads, fetches, stores, buf, host, acc, score, out>>

QkNoRelease ==
  /\ cons.at = "q" /\ CanTake("q")
  /\ score' = (buf[rd["q"].i] = QTile(cons.i) /\ view["k"] = cons.n)
  /\ rd' = [rd EXCEPT !["q"] = Advance(@)]
  /\ cons' = [cons EXCEPT !.at = "pv"]
  /\ UNCHANGED <<prod, wr, sync, kvPhase, loads, fetches, stores, smem, host, acc, out>>

\* QK^T; the Q buffer goes back before the softmax.
Qk ==
  /\ cons.at = "q" /\ CanTake("q")
  /\ score' = (buf[rd["q"].i] = QTile(cons.i) /\ view["k"] = cons.n)
  /\ Release("q")
  /\ cons' = [cons EXCEPT !.at = "pv"]
  /\ UNCHANGED <<prod, wr, kvPhase, loads, fetches, stores, smem, host, acc, out>>

\* PV and the merge into the running output of the Q tile.
Merge ==
  /\ cons.at = "pv"
  /\ out' = [out EXCEPT ![cons.i] =
               Append(@, IF score /\ view["v"] = cons.n THEN cons.n ELSE NoTile)]
  /\ cons' = Step([cons EXCEPT !.at = "q"], QTiles, "syncB")
  /\ UNCHANGED <<prod, wr, rd, sync, kvPhase, loads, fetches, stores, smem, host, acc, score>>

--------------------------------------------------------------------------------
(* __syncthreads                                                           *)

SyncANoConsumer ==
  \/ /\ prod.at = "syncA"
     /\ prod' = [prod EXCEPT !.at = "store"]
     /\ UNCHANGED <<cons, wr, rd, sync, kvPhase, loads, fetches, stores, smem, host, acc, score, out>>
  \/ /\ cons.at = "syncA"
     /\ cons' = [cons EXCEPT !.at = "q"]
     /\ UNCHANGED <<prod, wr, rd, sync, kvPhase, loads, fetches, stores, smem, host, acc, score, out>>

SyncA ==
  /\ prod.at = "syncA" /\ cons.at = "syncA"
  /\ prod' = [prod EXCEPT !.at = "store"]
  /\ cons' = [cons EXCEPT !.at = "q"]
  /\ UNCHANGED <<wr, rd, sync, kvPhase, loads, fetches, stores, smem, host, acc, score, out>>

\* The end of the tile, and with the last one of the loop.
SyncB ==
  LET n == prod.n + 1
      last == n = Past + New IN
  /\ prod.at = "syncB" /\ cons.at = "syncB"
  /\ prod' = [at |-> IF last THEN "done" ELSE IF IsPast(n) THEN "load" ELSE "x", n |-> n, i |-> 0]
  /\ cons' = [at |-> IF last THEN "done" ELSE IF IsPast(n) THEN "wait" ELSE "x", n |-> n, i |-> 0]
  /\ UNCHANGED <<wr, rd, sync, kvPhase, loads, fetches, stores, smem, host, acc, score, out>>

--------------------------------------------------------------------------------
(* TMA engine.                                                             *)

\* A load into a pipeline buffer completes its stage's phase.
BufferLoaded(l) ==
  /\ l \in loads
  /\ buf' = [buf EXCEPT ![l.stage] = l.val]
  /\ full' = [full EXCEPT ![l.pipe][l.stage] = 1 - @]
  /\ loads' = loads \ {l}
  /\ UNCHANGED <<prod, cons, wr, rd, empty, kvBar, kvPhase, fetches, stores, tile, view, host, acc, score, out>>

\* The phase of kv_mbar is over when the bytes of both parts have arrived.
TileLoaded(f) ==
  /\ f \in fetches
  /\ tile' = [tile EXCEPT ![f.part] = host[f.part][f.n]]
  /\ view' = [view EXCEPT ![f.part] = host[f.part][f.n]]
  /\ fetches' = fetches \ {f}
  /\ kvBar' = IF fetches = {f} THEN 1 - kvBar ELSE kvBar
  /\ UNCHANGED <<prod, cons, wr, rd, full, empty, kvPhase, loads, stores, buf, host, acc, score, out>>

\* One part of the write-back reads its buffer and writes to host memory.
TileStored(st) ==
  /\ st \in stores
  /\ host' = [host EXCEPT ![st.part][st.n] = view[st.part]]
  /\ stores' = stores \ {st}
  /\ UNCHANGED <<prod, cons, wr, rd, sync, kvPhase, loads, fetches, smem, acc, score, out>>

--------------------------------------------------------------------------------

Producer == LoadTile \/ ProducerTileReady \/ LoadChunk \/ StoreTile \/ LoadQ \/ Drain
Consumer == ConsumerTileReady \/ Project \/ WriteTile \/ Qk \/ Merge
Sync     == SyncA \/ SyncB
Tma ==
  \/ \E l \in loads : BufferLoaded(l)
  \/ \E f \in fetches : TileLoaded(f)
  \/ \E st \in stores : TileStored(st)

\* The block has left the loop; O_run is then cast to O.
Finished == prod.at = "done" /\ UNCHANGED vars

Next == Producer \/ Consumer \/ Sync \/ Tma \/ Finished

Spec == Init /\ [][Next]_vars

\* The block is resident: both warpgroups are scheduled, and TMA completes.
FairSpec ==
  Spec /\ WF_vars(Producer) /\ WF_vars(Consumer) /\ WF_vars(Sync) /\ WF_vars(Tma)

--------------------------------------------------------------------------------
(* Properties                                                              *)

\* The stage of a pipeline is full and the consumer has not been there yet.
Filled(pipe, s) ==
  full[pipe][s] # (IF s < rd[pipe].i THEN 1 - rd[pipe].ph ELSE rd[pipe].ph)

Filling(pipe, s) == \E l \in loads : l.pipe = pipe /\ l.stage = s

(* The X and the Q pipelines run over the same two buffers with barriers of *)
(* their own: neither loads into a buffer in which the other, or itself,    *)
(* still has something to be read.                                          *)
SharedBuffersAlternate ==
  \A s \in Stages :
    /\ \A pipe \in Pipes : ~(Filling(pipe, s) /\ Filled(pipe, s))
    /\ ~((Filling("x", s) \/ Filled("x", s)) /\ (Filling("q", s) \/ Filled("q", s)))

(* The single K/V buffer keeps its content, for TMA and for the warps, as   *)
(* long as any part of its write-back is in flight.                         *)
WriteBackReadsStableTile ==
  [][stores # {} => view' = view /\ tile' = tile]_vars

(* The consumer's WGMMA sees the K and V it stored itself by plain stores,  *)
(* though it never fences them: thread 0 does before it loads the first Q   *)
(* tile, and the consumer waits for that load.                              *)
OperandsFenced ==
  cons.at = "pv" => score /\ \A part \in Parts : view[part] = tile[part]

Attention == INSTANCE TileAttention

(* The pipelined block does what the tile-by-tile algorithm does: each step *)
(* merges the right tile into the next Q tile, or saves a part of the new   *)
(* tile, or changes neither.                                                *)
PipelineAttends == Attention!AttentionSpec

(* Producer, consumer and TMA never wait for one another for ever.          *)
BlockEnds == <>(prod.at = "done")

================================================================================
