---------------------------- MODULE DirectKVBackend ----------------------------
(***************************************************************************)
(* The eager (no CUDA graph) serving path of DirectKVSmpV2Backend: the     *)
(* host thread runs init_forward_metadata and then forward_extend or       *)
(* forward_decode for each batch SGLang schedules, and launches kernels    *)
(* on one CUDA stream that executes them later, in order.                  *)
(*                                                                         *)
(* One attention layer stands for all of them: layers have separate pool   *)
(* tensors and follow one another on the same stream.  The layer is one    *)
(* whose weights the hooks extracted (_use_kernel, X and wk present).      *)
(* A batch step of the host is split where the GPU can run in between.     *)
(***************************************************************************)
EXTENDS RowPool, FiniteSets

CONSTANTS
  Reqs,     \* requests (two requests may use the same id one after the other)
  Prompts,  \* Prompts[r]: prompt lengths request r may have
  NoRid,    \* a request that holds no id
  Junk,     \* what a kernel may read from memory that is not, or no more, its own
  DefaultStream  \* torch's current stream is CUDA's default one, not SGLang's own

Tok(r, p) == <<r, p>>   \* the KV entry of the token of r at position p

ASSUME BackendAssumption ==
  /\ IsFiniteSet(Reqs)
  /\ \A r \in Reqs : Prompts[r] \subseteq 1 .. MaxSeq - 1
  /\ NoRid \notin Rids
  /\ DefaultStream \in BOOLEAN
  /\ Zero # Junk
  /\ \A r \in Reqs, p \in Pos : Tok(r, p) \notin {Zero, Junk}

VARIABLES
  \* SGLang's scheduler, as far as the backend sees it
  stage,    \* "waiting", "live" or "done"
  rid,      \* req_pool_index of a live request
  prompt,   \* prompt length of a live request
  len,      \* tokens of the request processed by the completed steps
  \* the backend
  active,   \* _active_req_ids
  step,     \* where the host thread is: "idle", "rows", "forward", "failed"
  mode,     \* forward mode of the current or last batch (_fwd_meta)
  new,      \* tokens each request contributes to that batch, 0 if not in it
  todo,     \* requests of the batch the forward has not dealt with yet
  stream,   \* kernels launched and not executed yet
  \* history, read by the properties only
  ctx,      \* the KV entries the last attention of a request was computed over
  lease     \* how the request came by its row, see LeaseKinds

schedVars == <<stage, rid, prompt, len>>
hostVars  == <<active, step, mode, new, todo>>
vars == <<poolVars, schedVars, hostVars, stream, ctx, lease>>

\* "none": no row yet; "fresh": row zeroed for this request; "inherited": the
\* row of an earlier request with the same id; "lost": row freed while live.
LeaseKinds == {"none", "fresh", "inherited", "lost"}

Live       == {r \in Reqs : stage[r] = "live"}
Prefilling == {r \in Live : len[r] < prompt[r]}
Running    == {r \in Live : len[r] >= prompt[r]}
Batch      == {r \in Reqs : new[r] > 0}
BatchIds   == {rid[r] : r \in Batch}
RowFor(r)  == rowOf[rid[r]]

\* A blocking device-to-host copy (.cpu()) waits for every launched kernel.
Synced == stream = <<>>

Init ==
  /\ PoolInit
  /\ stage = [r \in Reqs |-> "waiting"]
  /\ rid = [r \in Reqs |-> NoRid]
  /\ prompt = [r \in Reqs |-> 0]
  /\ len = [r \in Reqs |-> 0]
  /\ active = {}
  /\ step = "idle"
  /\ mode = "none"
  /\ new = [r \in Reqs |-> 0]
  /\ todo = {}
  /\ stream = <<>>
  /\ ctx = [r \in Reqs |-> <<>>]
  /\ lease = [r \in Reqs |-> "none"]

--------------------------------------------------------------------------------
(* SGLang's scheduler (external): admission, completion, choice of batch.  *)

\* A request is given an unused id.  MaxSeq bounds prompt and output.
Admit(r, id, p) ==
  /\ step = "idle" /\ stage[r] = "waiting"
  /\ \A s \in Live : rid[s] # id
  /\ stage' = [stage EXCEPT ![r] = "live"]
  /\ rid' = [rid EXCEPT ![r] = id]
  /\ prompt' = [prompt EXCEPT ![r] = p]
  /\ lease' = [lease EXCEPT ![r] = IF id \in active THEN "inherited" ELSE "none"]
  /\ UNCHANGED <<poolVars, len, hostVars, stream, ctx>>

\* End of sequence: the id goes back to the scheduler, the backend is not told.
Finish(r) ==
  /\ step = "idle" /\ r \in Running
  /\ stage' = [stage EXCEPT ![r] = "done"]
  /\ rid' = [rid EXCEPT ![r] = NoRid]
  /\ UNCHANGED <<poolVars, prompt, len, hostVars, stream, ctx, lease>>

\* Chunked prefill: whole tiles (--chunked-prefill-size % 64 = 0) except for
\* the chunk that completes the prompt.
ChunkOk(r, n) ==
  /\ n \in 1 .. prompt[r] - len[r]
  /\ n % Tile = 0 \/ len[r] + n = prompt[r]

\* A prefill batch goes first, always continues the one request that is
\* partly prefilled, and leaves at most one such request behind.
ExtendBatch(n) ==
  LET B == {r \in Reqs : n[r] > 0} IN
  /\ B # {} /\ B \subseteq Prefilling
  /\ {r \in Prefilling : len[r] > 0} \subseteq B
  /\ \A r \in B : ChunkOk(r, n[r])
  /\ Cardinality({r \in B : len[r] + n[r] < prompt[r]}) <= 1

\* A decode batch is every running request, one token each.
DecodeBatch(n) ==
  /\ Prefilling = {} /\ Running # {}
  /\ \A r \in Running : len[r] < MaxSeq
  /\ n = [r \in Reqs |-> IF r \in Running THEN 1 ELSE 0]

--------------------------------------------------------------------------------
(* init_forward_metadata                                                   *)

InitMetadataNoSync(m, n) ==
  /\ step = "idle"
  /\ mode' = m /\ new' = n /\ todo' = {r \in Reqs : n[r] > 0}
  /\ step' = "rows"
  /\ ctx' = [r \in Reqs |-> <<>>]
  /\ UNCHANGED <<poolVars, schedVars, active, stream, lease>>

\* It starts by copying seq_lens and req_pool_indices to the host.
InitForwardMetadata(m, n) ==
  /\ step = "idle" /\ Synced
  /\ mode' = m /\ new' = n /\ todo' = {r \in Reqs : n[r] > 0}
  /\ step' = "rows"
  /\ ctx' = [r \in Reqs |-> <<>>]
  /\ UNCHANGED <<poolVars, schedVars, active, stream, lease>>

\* An idle batch only clears _fwd_meta.
IdleMetadata ==
  /\ step = "idle" /\ mode # "none"
  /\ mode' = "none" /\ new' = [r \in Reqs |-> 0]
  /\ UNCHANGED <<poolVars, schedVars, active, step, todo, stream, ctx, lease>>

ReleaseKeepsActive(id) ==
  /\ step = "rows" /\ id \in active \ BatchIds
  /\ Free(id)
  /\ lease' = [r \in Reqs |->
       IF r \in Live /\ rid[r] = id
       THEN IF len[r] = 0 THEN "none" ELSE "lost" ELSE lease[r]]
  /\ UNCHANGED <<schedVars, hostVars, stream, ctx>>

\* for rid in finished: an active id that is not in this batch loses its row.
Release(id) ==
  /\ step = "rows" /\ id \in active \ BatchIds
  /\ Free(id)
  /\ active' = active \ {id}
  /\ lease' = [r \in Reqs |->
       IF r \in Live /\ rid[r] = id
       THEN IF len[r] = 0 THEN "none" ELSE "lost" ELSE lease[r]]
  /\ UNCHANGED <<schedVars, step, mode, new, todo, stream, ctx>>

\* The ids of the batch still to be given a row: only after every release.
ToAllocAtOnce == IF step = "rows" THEN BatchIds \ active ELSE {}

ToAlloc ==
  IF step = "rows" /\ active \subseteq BatchIds THEN BatchIds \ active ELSE {}

\* for rid in current_rids, rid not active.
AllocRow(id) ==
  /\ id \in ToAlloc
  /\ Alloc(id)
  /\ active' = active \union {id}
  /\ lease' = [r \in Reqs |->
       IF r \in Live /\ rid[r] = id /\ lease[r] = "none" THEN "fresh" ELSE lease[r]]
  /\ UNCHANGED <<schedVars, step, mode, new, todo, stream, ctx>>

\* alloc raises in the middle of the loop; the step is abandoned.
AllocFails(id) ==
  /\ id \in ToAlloc /\ OutOfRows(id)
  /\ step' = "failed"
  /\ UNCHANGED <<poolVars, schedVars, active, mode, new, todo, stream, ctx, lease>>

BeginForward ==
  /\ step = "rows" /\ active = BatchIds
  /\ step' = "forward"
  /\ UNCHANGED <<poolVars, schedVars, active, mode, new, todo, stream, ctx, lease>>

--------------------------------------------------------------------------------
(* forward_extend and forward_decode                                       *)

\* What attention of r reads when its first `past` entries come from `mem`
\* and the `n` new ones are r's own.
Window(r, mem, past, n) ==
  [i \in 1 .. past + n |-> IF i <= past THEN mem[i - 1] ELSE Tok(r, i - 1)]

\* Work on the stream over a row of the pool: "sdpa" copies it to the device
\* and attends, "pool" is the kernel on a view of it.
OnRow(kind, r, past, n) ==
  [mem |-> kind, reqs |-> {r}, row |-> RowFor(r), past |-> past, n |-> n,
   copy |-> [q \in Reqs |-> ZeroRow]]

\* Kernels in flight whose K/V is a temporary the host now gives back.
DropCopies(s) ==
  [i \in 1 .. Len(s) |->
     IF s[i].mem = "copy" THEN [s[i] EXCEPT !.mem = "dropped"] ELSE s[i]]

\* Kernels in flight whose TMA descriptors are overwritten.
Clobber(s) ==
  [i \in 1 .. Len(s) |->
     IF s[i].mem = "sdpa" THEN s[i] ELSE [s[i] EXCEPT !.mem = "clobbered"]]

\* smpv2_fwd copies its descriptors over the one process-wide set, blocking,
\* and launches.  On the default stream the copy waits for the kernels before
\* it; on a stream of SGLang's own it does not (nor do later layers' launches).
LaunchKernel(k) ==
  /\ DefaultStream => Synced
  /\ stream' = Append(Clobber(stream), k)

\* forward_extend, aligned chunk: the kernel gets a view of the row.
ExtendKernel(r) ==
  /\ step = "forward" /\ mode = "extend" /\ r \in todo
  /\ new[r] % Tile = 0 /\ len[r] % Tile = 0
  /\ LaunchKernel(OnRow("pool", r, len[r], new[r]))
  /\ todo' = todo \ {r}
  /\ UNCHANGED <<poolVars, schedVars, active, step, mode, new, ctx, lease>>

\* SDPA over the row: copy k, v to the host (blocking), store them after the
\* past ones, copy the row to the device (not blocking) and attend.
Sdpa(r, n) ==
  /\ Synced
  /\ Store(RowFor(r), len[r], n, [p \in Pos |-> Tok(r, p)])
  /\ stream' = Append(stream, OnRow("sdpa", r, len[r] + n, 0))
  /\ todo' = todo \ {r}
  /\ UNCHANGED <<free, rowOf, schedVars, active, step, mode, new, ctx, lease>>

\* forward_extend, misaligned chunk: _sdpa_single.
ExtendSdpa(r) ==
  /\ step = "forward" /\ mode = "extend" /\ r \in todo
  /\ new[r] % Tile # 0 \/ len[r] % Tile # 0
  /\ Sdpa(r, new[r])

KernelEligibleAlways(r) == TRUE

\* forward_decode: S_past % 64 == 0 goes to the kernel, the rest to SDPA.
KernelEligible(r) == len[r] % Tile = 0

DecodeSdpaShort(r) ==
  /\ step = "forward" /\ mode = "decode" /\ r \in todo
  /\ ~KernelEligible(r)
  /\ Synced
  /\ Store(RowFor(r), len[r], 1, [p \in Pos |-> Tok(r, p)])
  /\ stream' = Append(stream, OnRow("sdpa", r, len[r], 0))
  /\ todo' = todo \ {r}
  /\ UNCHANGED <<free, rowOf, schedVars, active, step, mode, new, ctx, lease>>

\* forward_decode: _sdpa_decode_directkv attends over [0 : S_past + 1].
DecodeSdpa(r) ==
  /\ step = "forward" /\ mode = "decode" /\ r \in todo
  /\ ~KernelEligible(r)
  /\ Sdpa(r, 1)

InFlight(kinds) == \E i \in 1 .. Len(stream) : stream[i].mem \in kinds

\* Kernel path, after every SDPA request: one launch per bucket of equal
\* S_past.  get_batch_kv indexes with a list of rows, so the kernel is handed
\* a copy of the rows.
DecodeKernel(past) ==
  LET bucket == {r \in todo : len[r] = past} IN
  /\ step = "forward" /\ mode = "decode"
  /\ \A r \in todo : KernelEligible(r)
  /\ bucket # {} /\ ~InFlight({"copy"})
  /\ LaunchKernel([mem |-> "copy", reqs |-> bucket, row |-> NoRow, past |-> past, n |-> 1,
        copy |-> [r \in Reqs |-> IF r \in bucket THEN kv[RowFor(r)] ELSE ZeroRow]])
  /\ todo' = todo \ bucket
  /\ UNCHANGED <<poolVars, schedVars, active, step, mode, new, ctx, lease>>

\* The next bucket's get_batch_kv rebinds K_cpu_batch before smpv2_fwd waits.
RebindCopy ==
  /\ step = "forward" /\ todo # {} /\ InFlight({"copy"})
  /\ stream' = DropCopies(stream)
  /\ UNCHANGED <<poolVars, schedVars, hostVars, ctx, lease>>

\* The forward returns: its locals, K_cpu_batch included, are released, and
\* SGLang counts the new tokens as processed.
EndForward ==
  /\ step = "forward" /\ todo = {}
  /\ step' = "idle"
  /\ len' = [r \in Reqs |-> len[r] + new[r]]
  /\ stream' = DropCopies(stream)
  /\ UNCHANGED <<poolVars, stage, rid, prompt, active, mode, new, todo, ctx, lease>>

--------------------------------------------------------------------------------
(* The GPU executes the oldest work of the stream: it reads the past       *)
(* entries, projects the new ones and writes them back to the memory it    *)
(* was given.                                                              *)

RunOnRow ==
  LET k == Head(stream) IN
  /\ stream # <<>> /\ k.mem \in {"pool", "sdpa"}
  /\ \E r \in k.reqs :
       /\ Store(k.row, k.past, k.n, [p \in Pos |-> Tok(r, p)])
       /\ ctx' = [ctx EXCEPT ![r] = Window(r, kv[k.row], k.past, k.n)]
  /\ stream' = Tail(stream)
  /\ UNCHANGED <<free, rowOf, schedVars, hostVars, lease>>

\* The write-back goes to the copy.  Once the host has released the copy the
\* past tiles may be read back as anything; so they may with the descriptors
\* of another launch, and then the write-back misses the kernel's own row.
RunOffRow ==
  LET k == Head(stream)
      intact == CASE k.mem = "copy" -> {TRUE}
                  [] k.mem = "dropped" -> BOOLEAN
                  [] OTHER -> {FALSE} IN
  /\ stream # <<>> /\ k.mem \in {"copy", "dropped", "clobbered"}
  /\ \E ok \in intact :
       ctx' = [r \in Reqs |->
         IF r \notin k.reqs THEN ctx[r]
         ELSE Window(r, IF ok THEN k.copy[r] ELSE [p \in Pos |-> Junk], k.past, k.n)]
  /\ stream' = Tail(stream)
  /\ UNCHANGED <<poolVars, schedVars, hostVars, lease>>

--------------------------------------------------------------------------------

Schedule ==
  \/ \E r \in Reqs, id \in Rids : \E p \in Prompts[r] : Admit(r, id, p)
  \/ \E r \in Reqs : Finish(r)
  \/ \E n \in [Reqs -> 0 .. MaxSeq] :
       \/ ExtendBatch(n) /\ InitForwardMetadata("extend", n)
       \/ DecodeBatch(n) /\ InitForwardMetadata("decode", n)
  \/ IdleMetadata

Host ==
  \/ \E id \in Rids : Release(id) \/ AllocRow(id) \/ AllocFails(id)
  \/ BeginForward
  \/ \E r \in Reqs : ExtendKernel(r) \/ ExtendSdpa(r) \/ DecodeSdpa(r)
  \/ \E past \in Pos : DecodeKernel(past)
  \/ RebindCopy
  \/ EndForward

Gpu == RunOnRow \/ RunOffRow

Next == Schedule \/ Host \/ Gpu

Spec == Init /\ [][Next]_vars

--------------------------------------------------------------------------------
(* Properties                                                              *)

Held(r) == lease[r] \in {"fresh", "inherited"}

\* A token decoded at a tile boundary: the one decode goes through the kernel.
DecodedAtBoundary(r, p) == p >= prompt[r] /\ p % Tile = 0

\* A kernel still to run will write position p of r's row.
BeingWritten(r, p) ==
  \E i \in 1 .. Len(stream) :
    LET k == stream[i] IN
      /\ k.mem = "pool" /\ r \in k.reqs
      /\ p \in k.past .. k.past + k.n - 1

Content == {Tok(r, p) : r \in Reqs, p \in Pos} \union {Zero}

Launch ==
  [mem: {"sdpa", "pool", "copy", "dropped", "clobbered"}, reqs: SUBSET Reqs, row: Rows \union {NoRow},
   past: 0 .. MaxSeq, n: 0 .. MaxSeq, copy: [Reqs -> [Pos -> Content]]]

TypeOK ==
  /\ free \in Seq(Rows)
  /\ rowOf \in [Rids -> Rows \union {NoRow}]
  /\ kv \in [Rows -> [Pos -> Content]]
  /\ stage \in [Reqs -> {"waiting", "live", "done"}]
  /\ rid \in [Reqs -> Rids \union {NoRid}]
  /\ prompt \in [Reqs -> 0 .. MaxSeq]
  /\ len \in [Reqs -> 0 .. MaxSeq]
  /\ active \subseteq Rids
  /\ step \in {"idle", "rows", "forward", "failed"}
  /\ mode \in {"none", "extend", "decode"}
  /\ new \in [Reqs -> 0 .. MaxSeq]
  /\ todo \subseteq Reqs
  /\ stream \in Seq(Launch)
  /\ ctx \in [Reqs -> Seq(Content \union {Junk})]
  /\ lease \in [Reqs -> LeaseKinds]

(* The backend's set of active ids and the pool's own map, which are kept   *)
(* apart and updated one after the other, name the same ids between any two *)
(* calls on the pool, including when alloc raises half way through a batch. *)
ActiveIdsOwnRows == active = Mapped

(* Whatever a held request has processed is in its row, at its own          *)
(* position, or about to be put there by a launched kernel.  The one        *)
(* exception is the token decoded on a tile boundary, whose KV entry the    *)
(* kernel writes to get_batch_kv's copy.                                    *)
ProcessedTokensStored ==
  \A r \in Live : Held(r) =>
    /\ RowFor(r) # NoRow
    /\ \A p \in 0 .. len[r] - 1 :
         \/ kv[RowFor(r)][p] = Tok(r, p)
         \/ BeingWritten(r, p)
         \/ DecodedAtBoundary(r, p)

(* Attention of a held request covers exactly the positions up to its       *)
(* newest token and reads the request's own entry at each, except where an  *)
(* earlier boundary token was dropped, and except that a boundary decode    *)
(* may read through a released copy.                                        *)
AttentionReadsOwnContext ==
  \A r \in Live : Held(r) /\ ctx[r] # <<>> =>
    /\ Len(ctx[r]) = IF step = "idle" THEN len[r] ELSE len[r] + new[r]
    /\ \A i \in 1 .. Len(ctx[r]) :
         \/ ctx[r][i] = Tok(r, i - 1)
         \/ i < Len(ctx[r]) /\ DecodedAtBoundary(r, i - 1)
         \/ i < Len(ctx[r]) /\ DecodedAtBoundary(r, Len(ctx[r]) - 1)
              /\ ctx[r][i] = Junk

(* A request that did not take over the id of an earlier one while that id  *)
(* still held its row never attends over another request's KV entries, even *)
(* after its own row was taken from it and replaced: alloc zeroes the row.  *)
NoForeignContext ==
  \A r \in Live : lease[r] # "inherited" =>
    \A i \in 1 .. Len(ctx[r]) : ctx[r][i] \in {Tok(r, i - 1), Zero, Junk}

(* No host step zeroes or writes a row some launched kernel has yet to use: *)
(* the blocking copies at the start of a step and in the SDPA paths come    *)
(* before every host access to a row a kernel was given.                    *)
HostLeavesRowsInFlight ==
  [][stream # <<>> /\ stream' # Tail(stream) =>
       \A i \in 1 .. Len(stream) :
         stream[i].mem \in {"pool", "sdpa"} =>
           kv'[stream[i].row] = kv[stream[i].row]]_vars

(* Releasing the ids that left the batch before allocating for the new ones *)
(* means the pool runs out only for a batch larger than the pool.           *)
OutOfRowsOnlyWhenOversized == step = "failed" => Cardinality(BatchIds) > MaxReqs

\* What is left of the batch: rows to give back and to get, requests to deal
\* with, kernels to run (once or twice as much for a copy still to be dropped).
BatchWork ==
  (IF step = "rows" THEN 1 + Cardinality(active \ BatchIds) + Cardinality(BatchIds \ active)
   ELSE 0)
  + 3 * Cardinality(todo) + Len(stream)
  + Cardinality({i \in 1 .. Len(stream) : stream[i].mem = "copy"})

(* A batch whose metadata was started gets through its forward, or the      *)
(* backend raises: no wait of the host for the stream is left hanging, and  *)
(* host and stream can take only so many steps before the batch is over.    *)
StepsEnd ==
  /\ [](step \in {"rows", "forward"} => ENABLED (Host \/ Gpu))
  /\ [][BatchWork' < BatchWork
         \/ step \in {"idle", "failed"} \/ step' \in {"idle", "failed"}]_vars

\* The rows' holders, as the abstract lease sees them.
RowHolder ==
  [row \in Rows |-> IF \E id \in Rids : rowOf[id] = row
                    THEN CHOOSE id \in Rids : rowOf[id] = row ELSE NoRid]

Lease == INSTANCE RowLease WITH Nobody <- NoRid, owner <- RowHolder

(* Through every interleaving of the backend and the stream the pool acts   *)
(* as a lease on rows: no step takes a row from one id and gives it to      *)
(* another, or gives one id two rows.                                       *)
PoolIsLease == Lease!LeaseSpec

--------------------------------------------------------------------------------
(* What the source says of the program and the program does not do.        *)

(* _sdpa_decode_directkv: "This keeps all KV in the DirectKV pool so the    *)
(* kernel path can take over once S_past reaches the next 64 boundary."     *)
AllTokensStored ==
  \A r \in Live : lease[r] = "fresh" /\ Synced /\ step = "idle" =>
    \A p \in 0 .. len[r] - 1 : kv[RowFor(r)][p] = Tok(r, p)

(* init_forward_metadata: "Free finished rows FIRST": the row a request      *)
(* holds is freed only when the request has finished.                       *)
OnlyFinishedRowsFreed ==
  [][\A r \in Live : len[r] > 0 /\ RowFor(r) # NoRow => rowOf'[rid[r]] # NoRow]_vars

(* alloc: "Zero out the row so stale KV from a previous request doesn't      *)
(* leak": attention never reads another request's entries.                  *)
StaleKvNeverRead ==
  \A r \in Live : \A i \in 1 .. Len(ctx[r]) :
    ctx[r][i] \in {Tok(r, i - 1), Zero, Junk}

(* smpv2_fwd takes K_cpu and V_cpu as the KV cache tensors and the graph     *)
(* path keeps them alive while descriptors refer to them: a launched kernel *)
(* runs before the host gives its K/V memory back.                          *)
KernelMemoryAlive ==
  ~InFlight({"dropped"})

(* smpv2_fwd: "Copy to device (synchronous; descriptors are 128 bytes       *)
(* each)": the one set of descriptors is rewritten for a launch only when   *)
(* the kernels launched before have been through with it.                   *)
DescriptorsStable ==
  ~InFlight({"clobbered"})
================================================================================
