---------------------------- MODULE NeoPipeline ----------------------------
(* Neo's worker: the forward pass of one or two sub-batches, with the KV     *)
(* swaps and the CPU attention that overlap it.  The Python thread launches  *)
(* jobs on two CUDA streams, the default one and cpu_communication_stream,   *)
(* and runs the CPU attention itself.  A stream runs its jobs in order, and  *)
(* between the streams only wait_stream orders anything.  What is computed   *)
(* is a tag: which layer, of which batch, from the KV of which request.      *)
EXTENDS Integers, Sequences, SequencesExt, FiniteSets

CONSTANTS Reqs,        \* requests, one KV block each
          Layers,      \* num_layers
          GpuBlocks,   \* blocks of the GPU cache, in each layer
          CpuBlocks,   \* blocks of the swap space, in each layer
          ExtraLayer,  \* extra_layer_for_cprf: CPU prefills share one extra layer
          MaxIters     \* iterations to explore

ASSUME PipelineAssumption ==
    /\ IsFiniteSet(Reqs) /\ Layers \in Nat \ {0} /\ MaxIters \in Nat
    /\ IsFiniteSet(GpuBlocks) /\ IsFiniteSet(CpuBlocks) /\ ExtraLayer \in BOOLEAN

VARIABLES place,   \* place[r]: where the KV of a request is kept
          len,     \* len[r]: tokens with stored KV
          iters,   \* iterations started
          iter,    \* the iteration in the worker
          program, \* what the Python thread has still to do in it
          queue,   \* queue[s]: launched jobs a stream has not run
          done,    \* done[s]: jobs a stream has run
          fence,   \* fence[s]: jobs of the other stream that s waits for
          event,   \* qkvtr_e: jobs of the communication stream it waits for
          mem      \* contents of the buffers

vars == <<place, len, iters, iter, program, queue, done, fence, event, mem>>

Streams == {"default", "comm"}
OtherStream(s) == IF s = "comm" THEN "default" ELSE "comm"
Nowhere == [dev |-> "new", blk |-> 0]
Bad == <<>>                               \* the tag of a wrong value

Cells == {"qkv", "o_gpu", "o_cpu", "emb"} \X {1, 2}
         \union {<<"qkv_cpu">>, <<"out_cpu">>}
         \union ({"k_cache"} \X (0 .. Layers) \X GpuBlocks)
         \union ({"k_swap"} \X (0 .. Layers - 1) \X CpuBlocks)

-----------------------------------------------------------------------------
(* An iteration: its batches, the requests swapped out or in before it, and  *)
(* the GPU block g[r] and the CPU block c[r] a request has during it.        *)

Members(batch) == UNION {batch[k] : k \in {"cprf", "gprf", "gdec", "cdec"}}
Prefs(batch) == batch.cprf \union batch.gprf
Active(n) == UNION {Members(n.batches[b]) : b \in DOMAIN n.batches}

(* The layer of the GPU cache that holds a prefill's KV.                     *)
CprfLayer(l) == IF ExtraLayer THEN Layers ELSE l
PrefCell(n, b, r, l) ==
    <<"k_cache", IF r \in n.batches[b].cprf THEN CprfLayer(l) ELSE l, n.g[r]>>

-----------------------------------------------------------------------------
(* The jobs: the cells they read, those they write and what they write.      *)

CprfCopies(n, b, l) ==
    {<< <<"k_cache", CprfLayer(l), n.g[r]>>, <<"k_swap", l, n.c[r]>> >> : r \in n.batches[b].cprf}
IterCopies(n, l) ==
    {<< <<"k_cache", l, n.g[r]>>, <<"k_swap", l, n.c[r]>> >> : r \in n.out}
    \union {<< <<"k_swap", l, n.c[r]>>, <<"k_cache", l, n.g[r]>> >> : r \in n.in}

GdecCells(n, b, l) == {<<"k_cache", l, n.g[r]>> : r \in n.batches[b].gdec}
CdecCells(n, b, l) == {<<"k_swap", l, n.c[r]>> : r \in n.batches[b].cdec}

Reads(n, j) ==
    CASE j.kind = "embed"     -> {}
      [] j.kind = "preproj"   -> {<<"emb", j.b>>}
      [] j.kind = "store"     -> {<<"qkv", j.b>>}
      [] j.kind = "attention" -> {<<"qkv", j.b>>} \union GdecCells(n, j.b, j.l)
      [] j.kind = "send_qkv"  -> {<<"qkv", j.b>>}
      [] j.kind = "cpu"       -> {<<"qkv_cpu">>} \union CdecCells(n, j.b, j.l)
      [] j.kind = "send_o"    -> {<<"out_cpu">>}
      [] j.kind = "postproj"  -> {<<"o_gpu", j.b>>, <<"o_cpu", j.b>>}
      [] j.kind = "swap"      -> {p[1] : p \in j.copies}

Writes(n, j) ==
    CASE j.kind \in {"embed", "postproj"} -> {<<"emb", j.b>>}
      [] j.kind = "preproj"   -> {<<"qkv", j.b>>}
      [] j.kind = "store"     -> {PrefCell(n, j.b, r, j.l) : r \in Prefs(n.batches[j.b])}
      [] j.kind = "attention" -> {<<"o_gpu", j.b>>} \union GdecCells(n, j.b, j.l)
      [] j.kind = "send_qkv"  -> {<<"qkv_cpu">>}
      [] j.kind = "cpu"       -> {<<"out_cpu">>} \union CdecCells(n, j.b, j.l)
      [] j.kind = "send_o"    -> {<<"o_cpu", j.b>>}
      [] j.kind = "swap"      -> {p[2] : p \in j.copies}

(* A decode appends its token to KV that must be its own and complete.       *)
Owner(n, j, c) ==
    LET batch == n.batches[j.b]
    IN  CASE j.kind = "store" -> CHOOSE r \in Prefs(batch) : PrefCell(n, j.b, r, j.l) = c
          [] j.kind = "attention" -> CHOOSE r \in batch.gdec : n.g[r] = c[3]
          [] j.kind = "cpu" -> CHOOSE r \in batch.cdec : n.c[r] = c[3]
Own(n, j, c) == mem[c] = <<Owner(n, j, c), len[Owner(n, j, c)]>>
If(cond, tag) == IF cond THEN tag ELSE Bad

Value(n, j, c) ==
    LET qkvRight == mem[<<"qkv", j.b>>] = <<j.l>>
        batch == n.batches[j.b]
        Appended == <<Owner(n, j, c), len[Owner(n, j, c)] + 1>>
    IN  CASE j.kind = "embed"   -> <<0>>
          [] j.kind = "preproj" -> If(mem[<<"emb", j.b>>] = <<j.l>>, <<j.l>>)
          [] j.kind = "store"   -> If(qkvRight, <<Owner(n, j, c), 1>>)
          [] j.kind = "attention" /\ Len(c) = 2 ->
                 If(qkvRight /\ \A d \in GdecCells(n, j.b, j.l) : Own(n, j, d), <<j.l>>)
          [] j.kind = "attention" /\ Len(c) = 3 -> If(qkvRight /\ Own(n, j, c), Appended)
          [] j.kind = "send_qkv" -> <<j.b>> \o mem[<<"qkv", j.b>>]
          [] j.kind = "cpu" /\ Len(c) = 1 ->
                 If(/\ mem[<<"qkv_cpu">>] = <<j.b, j.l>>
                    /\ \A d \in CdecCells(n, j.b, j.l) : Own(n, j, d), <<j.b, j.l>>)
          [] j.kind = "cpu" /\ Len(c) = 3 ->
                 If(mem[<<"qkv_cpu">>] = <<j.b, j.l>> /\ Own(n, j, c), Appended)
          [] j.kind = "send_o" -> mem[<<"out_cpu">>]
          [] j.kind = "postproj" ->
                 If(/\ Prefs(batch) \union batch.gdec # {} => mem[<<"o_gpu", j.b>>] = <<j.l>>
                    /\ batch.cdec # {} => mem[<<"o_cpu", j.b>>] = <<j.b, j.l>>, <<j.l + 1>>)
          [] OTHER -> mem[(CHOOSE p \in j.copies : p[2] = c)[1]]

Perform(n, j) ==
    mem' = [c \in Cells |-> IF c \in Writes(n, j) THEN Value(n, j, c) ELSE mem[c]]

-----------------------------------------------------------------------------
(* The program: what the Python thread launches, waits for and computes.     *)

Job(kind, b, l) == [kind |-> kind, b |-> b, l |-> l, copies |-> {}]
On(s, kind, b, l) == <<[op |-> s, job |-> Job(kind, b, l)]>>
SwapBlocks(copies) ==
    IF copies = {} THEN <<>>
    ELSE <<[op |-> "comm", job |-> [kind |-> "swap", b |-> 1, l |-> 0, copies |-> copies]]>>
Do(op, b, l) == <<[op |-> op, job |-> Job("cpu", b, l)]>>
When(cond, prog) == IF cond THEN prog ELSE <<>>

CommWaitCompute == Do("comm_waits", 1, 0)
ComputeWaitComm == Do("default_waits", 1, 0)

TransferQkv(n, b, l) ==
    CommWaitCompute
    \o When(n.batches[b].cdec # {}, On("comm", "send_qkv", b, l) \o Do("record", b, l))

SwapOutBlocks(n, b, l) == SwapBlocks(CprfCopies(n, b, l))

PreprojNoWait(n, b, l) ==                              \* for the mutants
    On("default", "preproj", b, l)
    \o When(Prefs(n.batches[b]) # {}, On("default", "store", b, l))
Preproj(n, b, l) ==
    On("default", "preproj", b, l)
    \o When(Prefs(n.batches[b]) # {}, ComputeWaitComm \o On("default", "store", b, l))

AttentionNoSync(n, b, l) ==                            \* for the mutants
    When(Prefs(n.batches[b]) \union n.batches[b].gdec # {}, On("default", "attention", b, l))
    \o When(n.batches[b].cdec # {}, Do("cpu", b, l) \o On("comm", "send_o", b, l))
    \o ComputeWaitComm
Attention(n, b, l) ==
    When(Prefs(n.batches[b]) \union n.batches[b].gdec # {}, On("default", "attention", b, l))
    \o When(n.batches[b].cdec # {},
            Do("sync", b, l) \o Do("cpu", b, l) \o On("comm", "send_o", b, l))
    \o ComputeWaitComm

Postproj(b, l) == On("default", "postproj", b, l)

Forward(n, l) ==
    Preproj(n, 1, l) \o TransferQkv(n, 1, l) \o Attention(n, 1, l)
    \o SwapOutBlocks(n, 1, l) \o Postproj(1, l)

(* One stage: batch b goes from its attention at layer l to the projections  *)
(* of layer l + 1 while the other one attends at layer m.                    *)
ForwardPipelineStage(n, b, l, m) ==
    TransferQkv(n, 3 - b, m) \o SwapOutBlocks(n, b, l) \o Postproj(b, l)
    \o Preproj(n, b, l + 1) \o Attention(n, 3 - b, m)

ForwardDouble(n, l) ==
    ForwardPipelineStage(n, 1, l, l) \o ForwardPipelineStage(n, 2, l, l + 1)

ForwardFirstStage(n) ==
    Preproj(n, 1, 0) \o ComputeWaitComm \o TransferQkv(n, 1, 0)
    \o Preproj(n, 2, 0) \o Attention(n, 1, 0)

LastStageNoSwap(n) ==                                  \* for the mutants
    TransferQkv(n, 2, Layers - 1) \o Postproj(1, Layers - 1)
    \o Attention(n, 2, Layers - 1) \o Postproj(2, Layers - 1)
ForwardLastStage(n) ==
    TransferQkv(n, 2, Layers - 1) \o SwapOutBlocks(n, 1, Layers - 1) \o Postproj(1, Layers - 1)
    \o Attention(n, 2, Layers - 1) \o Postproj(2, Layers - 1)

ForwardSequential(n) ==
    ComputeWaitComm \o FlattenSeq([i \in 1 .. Layers |-> Forward(n, i - 1)])

ForwardPipeline(n) ==
    ForwardFirstStage(n)
    \o FlattenSeq([i \in 1 .. Layers - 1 |-> ForwardDouble(n, i - 1)])
    \o ForwardLastStage(n)

(* post_layer's tolist makes the thread wait for the default stream.         *)
ForwardBatches(n) ==
    FlattenSeq([b \in DOMAIN n.batches |-> On("default", "embed", b, 0)])
    \o (IF Len(n.batches) = 1 THEN ForwardSequential(n) ELSE ForwardPipeline(n))
    \o Do("tolist", 1, 0)

DoOneIteration(n) ==
    FlattenSeq([i \in 1 .. Layers |-> SwapBlocks(IterCopies(n, i - 1))])
    \o ForwardBatches(n)

-----------------------------------------------------------------------------
(* Launching: a job waits for the jobs of the other stream that were         *)
(* launched before the last wait_stream of its own.                          *)

Blocking == {"sync", "cpu", "tolist"}
Launched(st, s) == st.done[s] + Len(st.queue[s])

Step(st, i) ==
    CASE i.op \in Streams ->
           [st EXCEPT !.queue[i.op] = Append(@, [job |-> i.job, after |-> st.fence[i.op]])]
      [] i.op = "comm_waits"    -> [st EXCEPT !.fence["comm"] = Launched(st, "default")]
      [] i.op = "default_waits" -> [st EXCEPT !.fence["default"] = Launched(st, "comm")]
      [] i.op = "record"        -> [st EXCEPT !.event = Launched(st, "comm")]

(* The thread launches up to the next thing it must wait for.                *)
NextBlocking(p) == CHOOSE i \in DOMAIN p : /\ p[i].op \in Blocking
                                           /\ \A j \in 1 .. i - 1 : p[j].op \notin Blocking

Launch ==
    /\ program # <<>> /\ Head(program).op \notin Blocking
    /\ LET k == NextBlocking(program)
           st == FoldLeft(Step, [queue |-> queue, done |-> done, fence |-> fence, event |-> event],
                          SubSeq(program, 1, k - 1))
       IN  /\ queue' = st.queue /\ fence' = st.fence /\ event' = st.event
           /\ program' = SubSeq(program, k, Len(program))
    /\ UNCHANGED <<place, len, iters, iter, done, mem>>

Synchronize ==
    /\ program # <<>> /\ Head(program).op = "sync"
    /\ done["comm"] >= event
    /\ program' = Tail(program)
    /\ UNCHANGED <<place, len, iters, iter, queue, done, fence, event, mem>>

PagedAttentionCpu ==
    /\ program # <<>> /\ Head(program).op = "cpu"
    /\ Perform(iter, Head(program).job)
    /\ program' = Tail(program)
    /\ UNCHANGED <<place, len, iters, iter, queue, done, fence, event>>

Ready(s) == queue[s] # <<>> /\ done[OtherStream(s)] >= Head(queue[s]).after

RunJob(s) ==
    /\ Ready(s)
    /\ Perform(iter, Head(queue[s]).job)
    /\ queue' = [queue EXCEPT ![s] = Tail(@)]
    /\ done' = [done EXCEPT ![s] = @ + 1]
    /\ UNCHANGED <<place, len, iters, iter, program, fence, event>>

-----------------------------------------------------------------------------
(* What the scheduler sends: prefills, GPU decodes and CPU decodes in the    *)
(* first batch, CPU decodes in the second, if there is one; all in one batch *)
(* only when there are no CPU decodes in it or nothing else.                 *)

Roles(r) ==
    CASE place[r].dev = "new"  -> {"none", "gprf", "cprf"}
      [] place[r].dev = "gpu"  -> {"gdec", "out", "out1", "out2"}
      [] place[r].dev = "cpu"  -> {"none", "cdec1", "cdec2", "in"}
      [] place[r].dev = "done" -> {"none"}

InRoles(role, names) == {r \in Reqs : role[r] \in names}

BatchesOf(role) ==
    LET first == [cprf |-> InRoles(role, {"cprf"}), gprf |-> InRoles(role, {"gprf"}),
                  gdec |-> InRoles(role, {"gdec", "in"}), cdec |-> InRoles(role, {"cdec1", "out1"})]
        second == [cprf |-> {}, gprf |-> {}, gdec |-> {}, cdec |-> InRoles(role, {"cdec2", "out2"})]
    IN  IF Members(second) = {} THEN <<first>> ELSE <<first, second>>

Schedulable(role) ==
    LET bs == BatchesOf(role)
    IN  /\ InRoles(role, {"in"}) = {} \/ InRoles(role, {"out", "out1", "out2"}) = {}
        /\ Members(bs[1]) # {}
        /\ Len(bs) = 1 => bs[1].cdec = {} \/ bs[1].cdec = Members(bs[1])

Injections(S, T) == {f \in [S -> T] : \A x, y \in S : x # y => f[x] # f[y]}
Held(dev) == {r \in Reqs : place[r].dev = dev}
BlocksOf(S) == {place[r].blk : r \in S}

(* The block manager's part: blocks that a swap leaves are free at once.     *)
DoIteration ==
    /\ program = <<>> /\ iters < MaxIters
    /\ \E role \in {f \in [Reqs -> UNION {Roles(r) : r \in Reqs}] : \A r \in Reqs : f[r] \in Roles(r)} :
         LET out == InRoles(role, {"out", "out1", "out2"})
             in == InRoles(role, {"in"})
             cprf == InRoles(role, {"cprf"})
             toGpu == in \union InRoles(role, {"gprf"}) \union (IF ExtraLayer THEN {} ELSE cprf)
             toCpu == out \union cprf
             gpuFree == GpuBlocks \ BlocksOf(Held("gpu") \ out)
             cpuFree == CpuBlocks \ BlocksOf(Held("cpu") \ in)
         IN  /\ Schedulable(role)
             /\ \E gNew \in Injections(toGpu, gpuFree), cNew \in Injections(toCpu, cpuFree),
                   itm \in Injections(IF ExtraLayer THEN cprf ELSE {}, GpuBlocks) :
                  LET n == [batches |-> BatchesOf(role), out |-> out, in |-> in,
                            g |-> [r \in Reqs |-> IF r \in DOMAIN gNew THEN gNew[r]
                                                  ELSE IF r \in DOMAIN itm THEN itm[r]
                                                  ELSE place[r].blk],
                            c |-> [r \in Reqs |-> IF r \in DOMAIN cNew THEN cNew[r]
                                                  ELSE place[r].blk]]
                  IN  /\ iter' = n
                      /\ program' = DoOneIteration(n)
                      /\ place' = [r \in Reqs |->
                                     IF r \in toCpu THEN [dev |-> "cpu", blk |-> cNew[r]]
                                     ELSE IF r \in toGpu THEN [dev |-> "gpu", blk |-> gNew[r]]
                                     ELSE place[r]]
    /\ iters' = iters + 1
    /\ UNCHANGED <<len, queue, done, fence, event, mem>>

(* The tokens come back; the requests that are finished give up their blocks. *)
EndIteration ==
    /\ program # <<>> /\ Head(program).op = "tolist" /\ queue["default"] = <<>>
    /\ \E finished \in SUBSET Active(iter) :
         place' = [r \in Reqs |-> IF r \in finished THEN [dev |-> "done", blk |-> 0] ELSE place[r]]
    /\ len' = [r \in Reqs |-> IF r \in Active(iter) THEN len[r] + 1 ELSE len[r]]
    /\ program' = Tail(program)
    /\ UNCHANGED <<iters, iter, queue, done, fence, event, mem>>

(* Requests of earlier iterations may have a token of KV on either side.     *)
Init ==
    /\ \E dev \in [Reqs -> {"new", "gpu", "cpu"}] :
         \E g \in Injections({r \in Reqs : dev[r] = "gpu"}, GpuBlocks),
           c \in Injections({r \in Reqs : dev[r] = "cpu"}, CpuBlocks) :
           /\ place = [r \in Reqs |-> CASE dev[r] = "gpu" -> [dev |-> "gpu", blk |-> g[r]]
                                        [] dev[r] = "cpu" -> [dev |-> "cpu", blk |-> c[r]]
                                        [] dev[r] = "new" -> Nowhere]
           /\ len = [r \in Reqs |-> IF dev[r] = "new" THEN 0 ELSE 1]
           /\ mem = [x \in Cells |->
                       IF \E r \in DOMAIN g : x[1] = "k_cache" /\ x[2] < Layers /\ x[3] = g[r]
                       THEN <<CHOOSE r \in DOMAIN g : x[3] = g[r], 1>>
                       ELSE IF \E r \in DOMAIN c : x[1] = "k_swap" /\ x[3] = c[r]
                       THEN <<CHOOSE r \in DOMAIN c : x[3] = c[r], 1>>
                       ELSE Bad]
    /\ iters = 0 /\ program = <<>> /\ event = 0
    /\ iter = [batches |-> <<>>, out |-> {}, in |-> {}, g |-> <<>>, c |-> <<>>]
    /\ queue = [s \in Streams |-> <<>>]
    /\ done = [s \in Streams |-> 0] /\ fence = [s \in Streams |-> 0]

Next == DoIteration \/ Launch \/ Synchronize \/ PagedAttentionCpu \/ EndIteration
        \/ \E s \in Streams : RunJob(s)

Spec == Init /\ [][Next]_vars

-----------------------------------------------------------------------------
(* Invariants. *)

Doing ==
    {[who |-> s, job |-> Head(queue[s]).job] : s \in {t \in Streams : Ready(t)}}
    \union (IF program # <<>> /\ Head(program).op = "cpu"
            THEN {[who |-> "thread", job |-> Head(program).job]} ELSE {})

(* Whatever two of the streams and the thread may do at the same time, none  *)
(* writes what the other reads or writes: the wait_stream calls and the      *)
(* event order every use of the KV cache, of the swap space and of the       *)
(* buffers that carry q, k, v and o.  _preproj's NOTE is about one of them.   *)
RaceFree ==
    \A x, y \in Doing :
        x.who # y.who => Writes(iter, x.job) \intersect
                         (Reads(iter, y.job) \union Writes(iter, y.job)) = {}

(* When the tokens are read, every batch has gone through every layer, each  *)
(* with its own attention output, the CPU's part included.                   *)
OutputsRight ==
    program # <<>> /\ Head(program).op = "tolist" /\ queue["default"] = <<>> =>
        \A b \in DOMAIN iter.batches : mem[<<"emb", b>>] = <<Layers>>

(* Once nothing is in flight, the KV of every token of every request is      *)
(* where the block tables say, in every layer.                               *)
KvInPlace ==
    program = <<>> /\ (\A s \in Streams : queue[s] = <<>>) =>
        \A r \in Reqs : \A l \in 0 .. Layers - 1 :
            /\ place[r].dev = "gpu" => mem[<<"k_cache", l, place[r].blk>>] = <<r, len[r]>>
            /\ place[r].dev = "cpu" => mem[<<"k_swap", l, place[r].blk>>] = <<r, len[r]>>
=============================================================================
