----------------------------- MODULE DirectKVGraph -----------------------------
(***************************************************************************)
(* The CUDA-graph path of DirectKVSmpV2Backend, over the same rows as      *)
(* DirectKVBackend: capture, replay, the decode kernel the graph replays,  *)
(* and between replays the prefill batches of the eager path.  A replay    *)
(* hands its bounds to the graph through device tensors; it does not wait  *)
(* for the stream before it writes them.                                   *)
(*                                                                         *)
(* Prompts are whole tiles here, so that prefill is the kernel on a view   *)
(* of the row; DirectKVBackend has the other chunks.  An id stands for the *)
(* request that has it.                                                    *)
(***************************************************************************)
EXTENDS RowPool, FiniteSets

CONSTANTS
  MaxBs,       \* max_bs: the largest batch a graph is captured for
  GraphSizes,  \* the batch sizes SGLang captures
  Prompts,     \* prompt lengths
  MaxAdmits,   \* bound: requests a behaviour admits
  FirstId,     \* what SGLang's static req_pool_indices buffer holds at start
  Junk         \* the token of a padding slot

ASSUME GraphAssumption ==
  /\ MaxBs \in Nat \ {0} /\ MaxBs \in GraphSizes /\ GraphSizes \subseteq 1 .. MaxBs
  /\ \A p \in Prompts : p \in 1 .. MaxSeq - 1 /\ p % Tile = 0
  /\ IsFiniteSet(Rids) /\ FirstId \in Rids
  /\ MaxAdmits \in Nat

VARIABLES
  len,      \* tokens of an id's request processed so far, 0 before its prefill
  live,     \* ids SGLang has given to a request
  admits,   \* requests admitted so far
  buf,      \* SGLang's static req_pool_indices, of which a replay gets a prefix
  todoCap,  \* graph sizes still to be captured
  active,   \* _active_req_ids
  step,     \* where the host is: "idle", "bounds", "sync", "rows", "forward", "failed"
  batch,    \* the current batch: kind, ids, how many are not padding, seqlens
  copy,     \* _cg_K_max / _cg_V_max: the pinned copy of the rows, and one tile more
  dev,      \* _cg_num_n_past, _cg_slot_idx, _cg_req_pool_indices on the device
  stream,   \* work launched and not executed yet
  ctx       \* history: what the last replayed kernel attended to for each id

hostVars == <<buf, todoCap, active, step, batch>>
gpuVars == <<copy, dev, stream, ctx>>
reqVars == <<len, live, admits>>
vars == <<poolVars, reqVars, hostVars, gpuVars>>

Tok(id, p) == <<id, p>>  \* the KV entry of the token at position p
CopyPos == 0 .. MaxSeq + Tile - 1
Synced == stream = <<>>
Fill == Tile  \* get_cuda_graph_seq_len_fill_value
Slots(bs) == 1 .. bs
BatchIds == {batch.ids[i] : i \in DOMAIN batch.ids}
NoBatch == [kind |-> "none", ids |-> <<>>, real |-> 0, seqlens |-> <<>>]

\* init_cuda_graph_state: the pool is new, and its copy as empty as it is.
Init ==
  /\ PoolInit
  /\ len = [id \in Rids |-> 0]
  /\ live = {}
  /\ admits = 0
  /\ buf = [i \in Slots(MaxBs) |-> FirstId]
  /\ todoCap = GraphSizes
  /\ active = {}
  /\ step = "idle"
  /\ batch = NoBatch
  /\ copy = [row \in Rows |-> [p \in CopyPos |-> Zero]]
  /\ dev = [nPast |-> 0, slot |-> (Fill - 1) % Tile, rows |-> [i \in Slots(MaxBs) |-> 0]]
  /\ stream = <<>>
  /\ ctx = [id \in Rids |-> <<>>]

--------------------------------------------------------------------------------
(* SGLang (external): the ids of requests, and the choice of batch.        *)

Admit(id) ==
  /\ step = "idle" /\ todoCap = {} /\ id \notin live
  /\ admits < MaxAdmits /\ admits' = admits + 1
  /\ live' = live \union {id}
  /\ UNCHANGED <<poolVars, len, hostVars, gpuVars>>

Finish(id) ==
  /\ step = "idle" /\ id \in live /\ len[id] > 0
  /\ live' = live \ {id}
  /\ len' = [len EXCEPT ![id] = 0]
  /\ UNCHANGED <<poolVars, admits, hostVars, gpuVars>>

Waiting == {id \in live : len[id] = 0}

\* The id lists a batch of a set may come as.
Orders(S) == {q \in [Slots(Cardinality(S)) -> S] : \A i, j \in DOMAIN q : q[i] = q[j] => i = j}

--------------------------------------------------------------------------------
(* The host: metadata of a batch                                           *)

\* A graph is captured over the ids of the buffer, at the fill length.
CaptureGraph(bs) ==
  /\ step = "idle" /\ bs \in todoCap
  /\ todoCap' = todoCap \ {bs}
  /\ batch' = [kind |-> "capture", ids |-> SubSeq(buf, 1, bs), real |-> 0,
               seqlens |-> [i \in Slots(bs) |-> Fill]]
  /\ step' = "bounds"
  /\ UNCHANGED <<poolVars, reqVars, buf, active, gpuVars>>

\* init_forward_metadata of a prefill batch: its .cpu() joins the stream.
StartPrefill(q, p) ==
  /\ step = "idle" /\ todoCap = {} /\ Synced
  /\ batch' = [kind |-> "extend", ids |-> q, real |-> Len(q), seqlens |-> [i \in DOMAIN q |-> p]]
  /\ step' = "rows"
  /\ ctx' = [id \in Rids |-> <<>>]
  /\ UNCHANGED <<poolVars, reqVars, buf, todoCap, active, copy, dev, stream>>

Decodable == todoCap = {} /\ Waiting = {} /\ live # {} /\ \A id \in live : len[id] < MaxSeq

\* A decode batch no graph is large enough for runs eagerly.
StartEagerDecode(q) ==
  /\ step = "idle" /\ Decodable /\ Synced /\ Len(q) > MaxBs
  /\ batch' = [kind |-> "eager", ids |-> q, real |-> Len(q), seqlens |-> [i \in DOMAIN q |-> len[q[i]] + 1]]
  /\ step' = "rows"
  /\ UNCHANGED <<poolVars, reqVars, buf, todoCap, active, gpuVars>>

\* Any other is padded to the next captured size: the slots behind the batch
\* keep the ids they had, at the fill length.
StartReplay(q, bs) ==
  LET n == Len(q)
      ids == [i \in Slots(MaxBs) |-> IF i <= n THEN q[i] ELSE buf[i]] IN
  /\ step = "idle" /\ Decodable
  /\ n <= bs /\ bs \in GraphSizes /\ \A other \in GraphSizes : other < bs => other < n
  /\ buf' = ids
  /\ batch' = [kind |-> "replay", ids |-> SubSeq(ids, 1, bs), real |-> n,
               seqlens |-> [i \in Slots(bs) |-> IF i <= n THEN len[q[i]] + 1 ELSE Fill]]
  /\ step' = "bounds"
  /\ UNCHANGED <<poolVars, reqVars, todoCap, active, gpuVars>>

MaxPast == CHOOSE s \in {batch.seqlens[i] - 1 : i \in DOMAIN batch.seqlens} :
             \A i \in DOMAIN batch.seqlens : batch.seqlens[i] - 1 <= s

FillBoundsAtOnce ==
  /\ step = "bounds"
  /\ dev' = [dev EXCEPT !.nPast = MaxPast \div Tile, !.slot = MaxPast % Tile]
  /\ step' = "sync"
  /\ UNCHANGED <<poolVars, reqVars, buf, todoCap, active, batch, copy, stream, ctx>>

FillBoundsUnwrapped ==
  /\ step = "bounds"
  /\ stream' = Append(stream, [op |-> "bounds", nPast |-> MaxPast \div Tile, slot |-> MaxPast])
  /\ step' = "sync"
  /\ UNCHANGED <<poolVars, reqVars, buf, todoCap, active, batch, copy, dev, ctx>>

\* fill_: the longest request's bounds for the whole batch, through the stream.
FillBounds ==
  /\ step = "bounds"
  /\ stream' = Append(stream, [op |-> "bounds", nPast |-> MaxPast \div Tile, slot |-> MaxPast % Tile])
  /\ step' = "sync"
  /\ UNCHANGED <<poolVars, reqVars, buf, todoCap, active, batch, copy, dev, ctx>>

\* req_pool_indices.cpu() waits for what is launched.
ReadIds ==
  /\ step = "sync" /\ Synced
  /\ step' = "rows"
  /\ UNCHANGED <<poolVars, reqVars, buf, todoCap, active, batch, gpuVars>>

\* Ids that left the batch; a capture frees none.
Gone == IF batch.kind = "capture" THEN {} ELSE active \ BatchIds

Release(id) ==
  /\ step = "rows" /\ id \in Gone
  /\ Free(id)
  /\ active' = active \ {id}
  /\ UNCHANGED <<reqVars, buf, todoCap, step, batch, gpuVars>>

AllocRowForgotten(id) ==
  /\ step = "rows" /\ Gone = {} /\ id \in BatchIds \ active
  /\ Alloc(id)
  /\ active' = IF batch.kind = "capture" THEN active ELSE active \union {id}
  /\ UNCHANGED <<reqVars, buf, todoCap, step, batch, gpuVars>>

AllocRow(id) ==
  /\ step = "rows" /\ Gone = {} /\ id \in BatchIds \ active
  /\ Alloc(id)
  /\ active' = active \union {id}
  /\ UNCHANGED <<reqVars, buf, todoCap, step, batch, gpuVars>>

\* alloc raises.
AllocFails(id) ==
  /\ step = "rows" /\ Gone = {} /\ id \in BatchIds \ active
  /\ OutOfRows(id)
  /\ step' = "failed"
  /\ UNCHANGED <<poolVars, reqVars, buf, todoCap, active, batch, gpuVars>>

RowsOfBatch == [i \in DOMAIN batch.ids |-> rowOf[batch.ids[i]]]

\* The row numbers are copied to the device through the stream.
FillRows ==
  /\ step = "rows" /\ batch.kind \in {"capture", "replay"}
  /\ Gone = {} /\ BatchIds \subseteq active
  /\ stream' = Append(stream, [op |-> "rows", rows |-> RowsOfBatch])
  /\ step' = "forward"
  /\ UNCHANGED <<poolVars, reqVars, buf, todoCap, active, batch, copy, dev, ctx>>

--------------------------------------------------------------------------------
(* The host: forward                                                       *)

\* _forward_decode_graph, run by a capture's warm-up or replayed.
LaunchGraph ==
  /\ step = "forward"
  /\ stream' = Append(stream,
       [op |-> "graph", ids |-> batch.ids, real |-> batch.real,
        seqlens |-> batch.seqlens, past |-> MaxPast, rows |-> RowsOfBatch])
  /\ len' = [id \in Rids |->
               IF \E i \in Slots(batch.real) : batch.ids[i] = id THEN len[id] + 1 ELSE len[id]]
  /\ step' = "idle"
  /\ UNCHANGED <<poolVars, live, admits, buf, todoCap, active, batch, copy, dev, ctx>>

\* forward_extend, aligned: the kernel of each request gets a view of its row.
LaunchPrefill ==
  /\ step = "rows" /\ batch.kind = "extend" /\ active = BatchIds
  /\ stream' = stream \o
       [i \in DOMAIN batch.ids |->
          [op |-> "prefill", ids |-> <<batch.ids[i]>>, rows |-> <<rowOf[batch.ids[i]]>>,
           n |-> batch.seqlens[i]]]
  /\ len' = [id \in Rids |-> IF id \in BatchIds THEN batch.seqlens[1] ELSE len[id]]
  /\ step' = "idle"
  /\ UNCHANGED <<poolVars, live, admits, buf, todoCap, active, batch, copy, dev, ctx>>

\* forward_decode takes the graph branch for an eager batch too, and its
\* tensors of max_bs slots cannot be expanded to the batch: torch raises.
EagerDecodeRaises ==
  /\ step = "rows" /\ batch.kind = "eager" /\ active = BatchIds
  /\ step' = "failed"
  /\ UNCHANGED <<poolVars, reqVars, buf, todoCap, active, batch, gpuVars>>

--------------------------------------------------------------------------------
(* The GPU                                                                 *)

RunCopyToDevice ==
  LET k == Head(stream) IN
  /\ stream # <<>>
  /\ \/ k.op = "bounds" /\ dev' = [dev EXCEPT !.nPast = k.nPast, !.slot = k.slot]
     \/ k.op = "rows"
          /\ dev' = [dev EXCEPT !.rows = [i \in Slots(MaxBs) |->
                                            IF i \in DOMAIN k.rows THEN k.rows[i] ELSE @[i]]]
  /\ stream' = Tail(stream)
  /\ UNCHANGED <<poolVars, reqVars, hostVars, copy, ctx>>

RunPrefill ==
  LET k == Head(stream) IN
  /\ stream # <<>> /\ k.op = "prefill"
  /\ Store(k.rows[1], 0, k.n, [p \in Pos |-> Tok(k.ids[1], p)])
  /\ stream' = Tail(stream)
  /\ UNCHANGED <<free, rowOf, reqVars, hostVars, copy, dev, ctx>>

\* The tile a slot of the batch projects: X_pad is zero but for the new token.
\* A padding slot's token is nobody's.
NewTile(k, i) ==
  [p \in dev.nPast * Tile .. dev.nPast * Tile + Tile - 1 |->
     IF p # dev.nPast * Tile + dev.slot THEN Zero
     ELSE IF i <= k.real THEN Tok(k.ids[i], k.seqlens[i] - 1) ELSE Junk]

\* Every slot attends to the past tiles of its row of the copy and to its own
\* new tile, up to the new token, and saves that tile to the copy.  Of two
\* slots with one row either may save last.
RunGraph ==
  LET k == Head(stream)
      slots == DOMAIN k.ids
      window == 0 .. dev.nPast * Tile + dev.slot IN
  /\ stream # <<>> /\ k.op = "graph"
  /\ \E last \in {f \in [{dev.rows[i] : i \in slots} -> slots] :
                    \A row \in DOMAIN f : dev.rows[f[row]] = row} :
       copy' = [row \in Rows |->
         IF row \notin DOMAIN last THEN copy[row]
         ELSE [p \in CopyPos |-> IF p \in DOMAIN NewTile(k, last[row])
                                 THEN NewTile(k, last[row])[p] ELSE copy[row][p]]]
  /\ ctx' = [id \in Rids |->
       IF id \notin {k.ids[i] : i \in Slots(k.real)} THEN <<>>
       ELSE LET i == CHOOSE j \in Slots(k.real) : k.ids[j] = id
            IN  [p \in window |-> IF p \in DOMAIN NewTile(k, i) THEN NewTile(k, i)[p]
                                  ELSE copy[dev.rows[i]][p]]]
  /\ stream' = Tail(stream)
  /\ UNCHANGED <<poolVars, reqVars, hostVars, dev>>

--------------------------------------------------------------------------------

Sglang ==
  \/ \E id \in Rids : Admit(id) \/ Finish(id)
  \/ \E bs \in GraphSizes : CaptureGraph(bs)
  \/ \E S \in SUBSET Waiting \ {{}} : \E q \in Orders(S), p \in Prompts : StartPrefill(q, p)
  \/ \E q \in Orders(live) : StartEagerDecode(q) \/ \E bs \in GraphSizes : StartReplay(q, bs)

Host ==
  \/ FillBounds \/ ReadIds \/ FillRows
  \/ \E id \in Rids : Release(id) \/ AllocRow(id) \/ AllocFails(id)
  \/ LaunchGraph \/ LaunchPrefill \/ EagerDecodeRaises

Gpu == RunCopyToDevice \/ RunPrefill \/ RunGraph

Next == Sglang \/ Host \/ Gpu

Spec == Init /\ [][Next]_vars

--------------------------------------------------------------------------------
(* Properties                                                              *)

Content == {Tok(id, p) : id \in Rids, p \in CopyPos} \union {Zero, Junk}

TypeOK ==
  /\ rowOf \in [Rids -> Rows \union {NoRow}]
  /\ kv \in [Rows -> [Pos -> Content]]
  /\ len \in [Rids -> 0 .. MaxSeq]
  /\ live \subseteq Rids /\ active \subseteq Rids
  /\ buf \in [Slots(MaxBs) -> Rids]
  /\ step \in {"idle", "bounds", "sync", "rows", "forward", "failed"}
  /\ copy \in [Rows -> [CopyPos -> Content]]
  /\ dev \in [nPast: 0 .. MaxSeq \div Tile, slot: 0 .. Tile - 1, rows: [Slots(MaxBs) -> Rows]]
  /\ \A id \in Rids : DOMAIN ctx[id] \subseteq CopyPos

\* The device tensors hold the bounds and rows of the graph kernel to run next.
ReplaySeesItsBatch ==
  (stream # <<>> /\ Head(stream).op = "graph") =>
    LET k == Head(stream) IN
    /\ dev.nPast = k.past \div Tile /\ dev.slot = k.past % Tile
    /\ \A i \in DOMAIN k.ids : dev.rows[i] = k.rows[i]

\* The rows waiting kernels were launched on belong to the ids they were for.
RowsInFlightHeld ==
  \A i \in DOMAIN stream : stream[i].op \in {"graph", "prefill"} =>
    \A j \in DOMAIN stream[i].ids : rowOf[stream[i].ids[j]] = stream[i].rows[j]

(* Whatever the host does for a later batch, whose bounds it writes to the  *)
(* device before it has waited for anything and for which it frees rows and *)
(* zeroes them for other ids, a kernel launched before runs with the bounds *)
(* and the rows of its own batch, and on rows its requests still hold.      *)
WaitingKernelsUndisturbed == ReplaySeesItsBatch /\ RowsInFlightHeld

(* Once a batch has its rows, no id outside of it holds one: the row the    *)
(* captures took for the buffer's first id, and those of ids that padded an *)
(* earlier replay, come back.                                               *)
OnlyBatchHoldsRows ==
  /\ active = Mapped
  /\ step = "forward" => Mapped = BatchIds

--------------------------------------------------------------------------------
(* What the source says of the program and the program does not do.        *)

(* init_cuda_graph_state: "Pre-build TMA descriptors for all layers using   *)
(* pool max-shape views": what a graph decode attends to at the positions   *)
(* of the prompt is what the prefill kernel stored in the request's row.    *)
GraphReadsPool ==
  \A id \in live : \A p \in DOMAIN ctx[id] \intersect Pos :
    (rowOf[id] # NoRow /\ kv[rowOf[id]][p] # Zero) => ctx[id][p] = kv[rowOf[id]][p]
================================================================================
