---------------------------- MODULE NeoScheduler ----------------------------
(* Neo's server: the scheduler with its three queues, the block manager      *)
(* (NeoBlocks) and the engine's two event loops, one that tokenizes arriving *)
(* prompts and one that schedules a batch, runs it in a worker thread and    *)
(* deals with its tokens.  What the performance predictor says is free.      *)
EXTENDS NeoBlocks, FiniteSetsExt, SequencesExt

CONSTANTS Reqs,           \* requests, numbered
          PromptLen,      \* PromptLen[r]: tokens of the prompt
          MaxOut,         \* MaxOut[r]: max_output_len
          Text,           \* the requests whose prompt is a string
          MaxBatch,       \* max_batch_size
          MaxTokens,      \* max_tokens_in_batch
          LinrThreshold,  \* linr_S_threshold of the predictor
          Modes           \* configurations of the switches to explore

NoId == -1
PartialOffload == "partial"  \* the default
CpuOnly == "cpu_only"        \* disable_partial_offl
GpuOnly == "gpu_only"        \* always_use_gpu

MaxLen(r) == PromptLen[r] + MaxOut[r] - 1
CpuThreshold == CpuBlocks - GpuBlocks

SwapInThreshold(n) ==
    LET q == (95 * n) \div 100
        rest == (95 * n) % 100
    IN  IF rest > 50 \/ (rest = 50 /\ q % 2 = 1) THEN q + 1 ELSE q

(* The requests a configuration is made for: each fits the GPU, the room     *)
(* above the CPU's reserve and a batch, by itself.                           *)
ASSUME SchedulerAssumption ==
    /\ Reqs \subseteq Nat /\ Text \subseteq Reqs /\ IsFiniteSet(Reqs)
    /\ IsFiniteSet(Ids) /\ Ids = 0 .. Cardinality(Ids) - 1
    /\ \A r \in Reqs : PromptLen[r] \in Nat \ {0} /\ MaxOut[r] \in Nat \ {0}
    /\ MaxBatch \in Nat \ {0} /\ MaxTokens \in Nat /\ LinrThreshold \in Nat \ {0}
    /\ MaxBatch <= MaxTokens /\ MaxBatch <= Cardinality(Ids)
    /\ \A r \in Reqs : /\ Cdiv(MaxLen(r)) <= GpuBlocks
                       /\ Cdiv(MaxLen(r)) <= CpuThreshold
                       /\ PromptLen[r] <= MaxTokens
    /\ Modes \subseteq {PartialOffload, CpuOnly, GpuOnly}

VARIABLES mode,             \* the switches, fixed in a run
          untokenized,      \* untokenized_raw_requests
          tokenizing,       \* the prompts sent to the tokenizer
          waiting_q, gpu_decoding_q, cpu_decoding_q,
          available_ids,    \* RequestIdManager
          requestId,        \* Request.request_id
          outputLen,        \* Request.output_len
          blk,              \* BlockManager
          batches,          \* the sub-batches in the worker, <<>> between two
          arrivals          \* history: unfinished requests in order of on_requests_arrival

queues == <<waiting_q, gpu_decoding_q, cpu_decoding_q>>
arriving == <<untokenized, tokenizing, arrivals>>
vars == <<mode, queues, arriving, available_ids, requestId, outputLen, blk, batches>>

SeqLen(r) == PromptLen[r] + outputLen[r]
IsFinished(r) == outputLen[r] = MaxOut[r]
BlockNeeded(r) == Cdiv(SeqLen(r))
BlocksOf(q) == SumFunction([i \in DOMAIN q |-> BlockNeeded(q[i])])
Prompts(q) == SumFunction([i \in DOMAIN q |-> PromptLen[q[i]]])
Prefix(q, n) == SubSeq(q, 1, n)
Rest(q, n) == SubSeq(q, n + 1, Len(q))
(* The elements of q at some of its indices, in their order. *)
Pick(q, idx) == [k \in 1 .. Cardinality(idx) |-> q[CHOOSE i \in idx : RankIn(idx, i) = k - 1]]

NoReqs == [cprf |-> <<>>, gprf |-> <<>>, gdec |-> <<>>, cdec |-> <<>>]
ReqsOf(batch) == batch.cprf \o batch.gprf \o batch.gdec \o batch.cdec
Width(batch) == Prompts(batch.cprf) + Prompts(batch.gprf) + Len(batch.gdec) + Len(batch.cdec)
NumGpuBlocks == IF mode = CpuOnly THEN 0 ELSE GpuBlocks

(* How many elements a loop takes from the front of q that stops at the      *)
(* first n for which P(n) fails.                                             *)
Longest(q, P(_)) == Max({n \in 0 .. Len(q) : \A m \in 1 .. n : P(m)})

Init ==
    /\ mode \in Modes
    /\ untokenized = <<>> /\ tokenizing = <<>> /\ arrivals = <<>>
    /\ waiting_q = <<>> /\ gpu_decoding_q = <<>> /\ cpu_decoding_q = <<>>
    /\ available_ids = [i \in 1 .. Cardinality(Ids) |-> i - 1]
    /\ requestId = [r \in Reqs |-> NoId]
    /\ outputLen = [r \in Reqs |-> 0]
    /\ blk = FreshBlocks
    /\ batches = <<>>

Alive == blk.fault = "none"

-----------------------------------------------------------------------------
(* Arrival.  A prompt that is already a list of tokens goes straight to the  *)
(* scheduler; a string waits for the tokenizing loop, which takes all there  *)
(* are, awaits the tokenizer and hands them over.                            *)

Known == Range(untokenized) \union Range(tokenizing) \union Range(arrivals)
             \union {r \in Reqs : IsFinished(r)}

AddText ==
    \E r \in Text \ Known :
      /\ Alive
      /\ untokenized' = Append(untokenized, r)
      /\ UNCHANGED <<mode, tokenizing, arrivals, queues, available_ids, requestId, outputLen, blk, batches>>

OnRequestsArrival(reqs) ==
    /\ waiting_q' = waiting_q \o reqs
    /\ arrivals' = arrivals \o reqs

AddTokens ==
    \E r \in (Reqs \ Text) \ Known :
      /\ Alive
      /\ OnRequestsArrival(<<r>>)
      /\ UNCHANGED <<mode, untokenized, tokenizing, gpu_decoding_q, cpu_decoding_q,
                     available_ids, requestId, outputLen, blk, batches>>

TokenizeStart ==
    /\ Alive
    /\ tokenizing = <<>> /\ untokenized # <<>>
    /\ tokenizing' = untokenized
    /\ untokenized' = <<>>
    /\ UNCHANGED <<mode, arrivals, queues, available_ids, requestId, outputLen, blk, batches>>

TokenizeEnd ==
    /\ Alive
    /\ tokenizing # <<>>
    /\ OnRequestsArrival(tokenizing)
    /\ tokenizing' = <<>>
    /\ UNCHANGED <<mode, untokenized, gpu_decoding_q, cpu_decoding_q,
                   available_ids, requestId, outputLen, blk, batches>>

-----------------------------------------------------------------------------
(* A decision of the scheduler: the batches to run, the requests swapped in  *)
(* and out, and the queues as it leaves them.                                *)

(* Steps 1 and 2 of the new policy: GPU decodes that stay. *)
Stay == Max({n \in 0 .. Len(gpu_decoding_q) :
                /\ n <= MaxBatch
                /\ BlocksOf(Prefix(gpu_decoding_q, n)) <= NumGpuBlocks} \union {0})

(* Step 3: CPU requests swapped in, into what is left of the GPU up to a     *)
(* margin.                                                                   *)
SwappedIn(gpu, cpu) ==
    Longest(cpu, LAMBDA m :
        /\ BlocksOf(gpu) + BlocksOf(Prefix(cpu, m)) <= SwapInThreshold(NumGpuBlocks)
        /\ Len(gpu) + m <= MaxBatch)

(* Step 4: how many waiting requests may be prefilled onto the GPU (a prefix: *)
(* once one goes to the CPU the later ones follow it), and how many in all.   *)
ToGpuIgnoresRunning(gpu) ==      \* for the mutants
    Longest(waiting_q, LAMBDA n : BlocksOf(Prefix(waiting_q, n)) <= NumGpuBlocks)

ToGpu(gpu) ==
    Longest(waiting_q, LAMBDA n : BlocksOf(gpu) + BlocksOf(Prefix(waiting_q, n)) <= NumGpuBlocks)

Launchable(gpu, cpu, i) ==
    LET before == SubSeq(waiting_q, ToGpu(gpu) + 1, i - 1)
        cur == BlockNeeded(waiting_q[i])
    IN  /\ BlocksOf(before) + cur <= GpuBlocks
        /\ BlocksOf(cpu) + BlocksOf(before) + cur <= CpuThreshold
        /\ i <= Len(available_ids)
        /\ Len(gpu) + i <= MaxBatch
        /\ Len(gpu) + Prompts(Prefix(waiting_q, i)) <= MaxTokens

Prefills(gpu, cpu) == Longest(waiting_q, LAMBDA n : Launchable(gpu, cpu, n))

(* Step 3 of _decide_mode_and_gen_batch: a CPU decode joins one of the two   *)
(* batches (the first that is taken joins the second batch), or is skipped   *)
(* because the predictor says the CPU would be late; then no longer one      *)
(* behind it is tried.  With no GPU blocks only the budget stops it.         *)
Splittings(cpu, budget) ==
    {d \in [DOMAIN cpu -> {0, 1, 2}] :      \* 2: skipped
        LET taken(n) == {i \in 1 .. n : d[i] # 2} IN
        /\ Cardinality(taken(Len(cpu))) <= budget
        /\ \A i \in DOMAIN cpu :
             /\ taken(i - 1) = {} => d[i] # 0
             /\ d[i] = 2 => \A j \in i + 1 .. Len(cpu) : SeqLen(cpu[j]) >= SeqLen(cpu[i]) => d[j] = 2
             /\ d[i] = 2 /\ NumGpuBlocks = 0 => Cardinality(taken(i - 1)) = budget}

Part(cpu, d, b) == Pick(cpu, {i \in DOMAIN cpu : d[i] = b})

(* Prefills to the CPU are dropped from the end while the batch stays wide   *)
(* enough: the least number kept.                                            *)
LeastKept(batch) ==
    Max({0} \union {k \in DOMAIN batch.cprf :
            Width([batch EXCEPT !.cprf = Prefix(@, k - 1)]) < LinrThreshold})

Keep(batch, k) == [batch EXCEPT !.cprf = Prefix(@, k)]

(* What _decide_mode_and_gen_batch may return, over all predictors. *)
Decisions(gpu, cpu, gprf, cprf) ==
    LET all == [NoReqs EXCEPT !.gprf = gprf, !.cprf = cprf, !.gdec = gpu]
        gpuOnlyBatch == Keep(all, LeastKept(all))
        n == Len(gprf) + Len(cprf)
        tokens == MaxTokens - Len(gpu) - Prompts(gprf) - Prompts(cprf)
        budget == Min({MaxBatch - Len(gpu) - n, tokens})
        Two(d) == <<[all EXCEPT !.cdec = Part(cpu, d, 0)], [NoReqs EXCEPT !.cdec = Part(cpu, d, 1)]>>
    IN  IF all = NoReqs /\ NumGpuBlocks > 0 THEN {<<>>}
        ELSE IF NumGpuBlocks = 0
        THEN {Pick(Two(d), {i \in 1 .. 2 : Two(d)[i] # NoReqs}) : d \in Splittings(cpu, budget)}
        ELSE {<<gpuOnlyBatch>>} \union
             UNION {{<<Keep(Two(d)[1], k), Two(d)[2]>> : k \in LeastKept(Two(d)[1]) .. Len(cprf)} :
                       d \in {e \in Splittings(cpu, budget) : Part(cpu, e, 1) # <<>>}}

-----------------------------------------------------------------------------
(* The main loop between two awaits: what the scheduler decided is prepared  *)
(* and handed to the worker.                                                 *)

AllReqs(bs) == FlattenSeq([i \in DOMAIN bs |-> ReqsOf(bs[i])])
NumPrefs(bs) == Len(FlattenSeq([i \in DOMAIN bs |-> bs[i].cprf \o bs[i].gprf]))

(* What the block manager is told of a queue's requests. *)
Seen(ids, q) == [i \in DOMAIN q |-> [id |-> ids[q[i]], len |-> SeqLen(q[i])]]

(* ids: request_id once the first d.launched waiting requests have theirs. *)
IdsAfter(d) ==
    [r \in Reqs |-> IF \E i \in 1 .. Min({d.launched, Len(available_ids)}) : waiting_q[i] = r
                    THEN available_ids[CHOOSE i \in 1 .. d.launched : waiting_q[i] = r]
                    ELSE requestId[r]]

Prepared(d, ids) ==
    LET seen == [i \in DOMAIN d.batches |->
                    [part \in DOMAIN NoReqs |-> Seen(ids, d.batches[i][part])]]
    IN  IF /\ d.launched <= Len(available_ids)
           /\ \A r \in Range(AllReqs(d.batches)) : ids[r] # NoId
           /\ Len(AllReqs(d.batches)) <= MaxBatch
           /\ SumFunction([i \in DOMAIN d.batches |-> Width(d.batches[i])]) <= MaxTokens
        THEN Prepare(blk, seen, Seen(ids, d.out), Seen(ids, d.in))
        ELSE Raise(blk, "assertion")

Launch(d) ==
    /\ d.batches # <<>> \/ d.out # <<>> \/ d.in # <<>>
    /\ \E ids \in {IdsAfter(d)} :
         /\ requestId' = ids
         /\ \E b \in {Prepared(d, ids)} : blk' = b
    /\ available_ids' = Rest(available_ids, d.launched)
    /\ waiting_q' = Rest(waiting_q, d.launched)
    /\ gpu_decoding_q' = d.gpu
    /\ cpu_decoding_q' = d.cpu
    /\ batches' = d.batches
    /\ UNCHANGED <<mode, arriving, outputLen>>

(* _get_next_batch_new.  Victims are pushed onto the front of the CPU queue  *)
(* last one first, so they keep their order.                                 *)
NextBatchNew ==
    LET out == Rest(gpu_decoding_q, Stay)
        gpu1 == Prefix(gpu_decoding_q, Stay)
        cpu1 == out \o cpu_decoding_q
        m == SwappedIn(gpu1, cpu1)
        gpu == gpu1 \o Prefix(cpu1, m)
        cpu == Rest(cpu1, m)
        p == Prefills(gpu, cpu)
        g == Min({p, ToGpu(gpu)})
    IN  {LET n == NumPrefs(bs) IN
         [batches |-> bs, out |-> out, in |-> Prefix(cpu1, m), launched |-> n,
          gpu |-> gpu \o Prefix(waiting_q, Min({g, n})), cpu |-> cpu \o SubSeq(waiting_q, g + 1, n)] :
         bs \in Decisions(gpu, cpu, Prefix(waiting_q, g), SubSeq(waiting_q, g + 1, p))}

(* _get_next_batch_old: prefills only when nothing is on the CPU, swaps in   *)
(* only when nothing was swapped out.  The victims are put back in order and *)
(* then pushed one by one with extendleft, which turns them round.           *)
OldPrefills(gpu) ==
    Longest(waiting_q, LAMBDA n :
        /\ Len(gpu) + n <= MaxBatch
        /\ BlocksOf(gpu) + BlocksOf(Prefix(waiting_q, n)) <= NumGpuBlocks
        /\ Len(gpu) + Prompts(Prefix(waiting_q, n)) <= MaxTokens)

OldSwappedIn(gpu, cpu) ==
    Longest(cpu, LAMBDA m :
        /\ Len(gpu) + m <= MaxBatch
        /\ BlocksOf(gpu) + BlocksOf(Prefix(cpu, m)) <= NumGpuBlocks)

NextBatchOld ==
    LET out == Rest(gpu_decoding_q, Stay)
        gpu1 == Prefix(gpu_decoding_q, Stay)
        cpu1 == Reverse(out) \o cpu_decoding_q
        p == IF cpu1 = <<>> THEN OldPrefills(gpu1) ELSE 0
        m == IF out = <<>> THEN OldSwappedIn(gpu1, cpu1) ELSE 0
        gpu == gpu1 \o Prefix(cpu1, m)
        batch == [NoReqs EXCEPT !.gprf = Prefix(waiting_q, p), !.gdec = gpu]
    IN  [batches |-> IF batch = NoReqs THEN <<>> ELSE <<batch>>, out |-> out, in |-> Prefix(cpu1, m),
         launched |-> p, gpu |-> gpu \o Prefix(waiting_q, p), cpu |-> Rest(cpu1, m)]

Schedule ==
    /\ Alive /\ batches = <<>>
    /\ \/ mode # GpuOnly /\ \E d \in NextBatchNew : Launch(d)
       \/ mode = GpuOnly /\ \E d \in {NextBatchOld} : Launch(d)

(* The worker's answer: one token for every request of the batches; those    *)
(* that are done give back their blocks and ids.  Prompts may have arrived   *)
(* since the batches were made.                                              *)
FinishesLate(r) == outputLen[r] = MaxOut[r]           \* for the mutants
Finishes(r) == outputLen[r] + 1 = MaxOut[r]

IdsOf(reqs) == [i \in DOMAIN reqs |-> requestId[reqs[i]]]
ReturnedIdsGpu(finished) ==                           \* for the mutants
    IdsOf(Pick(finished, {i \in DOMAIN finished : finished[i] \in Range(gpu_decoding_q)}))
ReturnedIds(finished) == IdsOf(finished)

UpdateAndFree ==
    /\ Alive /\ batches # <<>>
    /\ LET all == AllReqs(batches)
           finished == Pick(all, {i \in DOMAIN all : Finishes(all[i])})
           Unfinished(q) == Pick(q, {i \in DOMAIN q : q[i] \notin Range(finished)})
       IN  /\ outputLen' = [r \in Reqs |-> IF r \in Range(all) THEN outputLen[r] + 1 ELSE outputLen[r]]
           /\ blk' = FreeBlocksOfRequests(blk, Seen(requestId, finished))
           /\ gpu_decoding_q' = Unfinished(gpu_decoding_q)
           /\ cpu_decoding_q' = Unfinished(cpu_decoding_q)
           /\ available_ids' = available_ids \o ReturnedIds(finished)
           /\ batches' = <<>>
           /\ arrivals' = Unfinished(arrivals)
           /\ UNCHANGED <<mode, untokenized, tokenizing, waiting_q, requestId>>

Next ==
    \/ AddText \/ AddTokens \/ TokenizeStart \/ TokenizeEnd
    \/ Schedule \/ UpdateAndFree

(* The main loop is not put off for ever when there is something to do, and  *)
(* the worker answers: weak fairness of Schedule and UpdateAndFree, with     *)
(* their enabledness spelled out, which TLC evaluates faster than ENABLED.   *)
SomethingToDo ==
    /\ Alive /\ batches = <<>>
    /\ \E d \in IF mode = GpuOnly THEN {NextBatchOld} ELSE NextBatchNew :
         d.batches # <<>> \/ d.out # <<>> \/ d.in # <<>>

Fairness ==
    /\ WF_vars(TokenizeStart) /\ WF_vars(TokenizeEnd)
    /\ []<>(~SomethingToDo) \/ []<><<Schedule>>_vars
    /\ []<>(~Alive \/ batches = <<>>) \/ []<><<UpdateAndFree>>_vars

Spec == Init /\ [][Next]_vars /\ Fairness

-----------------------------------------------------------------------------
Started == Range(gpu_decoding_q) \union Range(cpu_decoding_q)
InBatch == Range(AllReqs(batches))

TypeOK ==
    /\ mode \in Modes
    /\ \A q \in {untokenized, tokenizing, waiting_q, gpu_decoding_q, cpu_decoding_q, arrivals} :
         /\ Range(q) \subseteq Reqs
         /\ Cardinality(Range(q)) = Len(q)
    /\ Range(available_ids) \subseteq Ids
    /\ requestId \in [Reqs -> Ids \union {NoId}]
    /\ \A r \in Reqs : outputLen[r] \in 0 .. MaxOut[r]
    /\ blk \in BlockState
    /\ Len(batches) <= 2

(* A block of either device is free or in the row of one id, whatever        *)
(* requests grow, swap, finish and reuse ids (block_manager.alloc, free).    *)
BlocksConserved == Alive => Conserved(blk)

(* The ids are shared out between the requests that run and the manager:     *)
(* none is lost over the awaits and none is given twice.                     *)
IdsConserved ==
    Alive => /\ Cardinality(Range(available_ids)) = Len(available_ids)
             /\ \A r \in Started : requestId[r] \in Ids \ Range(available_ids)
             /\ Len(available_ids) + Cardinality(Started) = Cardinality(Ids)
             /\ \A r1, r2 \in Started : requestId[r1] = requestId[r2] => r1 = r2

(* The scheduler's queues and the block tables, kept by different objects,   *)
(* agree: a request has the blocks of its tokens on the device of its queue  *)
(* and none on the other, and an id nobody holds has no blocks.              *)
QueuesMatchTables ==
    Alive =>
      /\ \A r \in Started :
           LET dev == IF r \in Range(gpu_decoding_q) THEN "gpu" ELSE "cpu"
               stored == IF r \in InBatch THEN SeqLen(r) ELSE SeqLen(r) - 1
           IN  \A d \in Devices : Cardinality(blk.table[d][requestId[r]]) =
                                     IF d = dev THEN Cdiv(stored) ELSE 0
      /\ \A d \in Devices : \A id \in Range(available_ids) : blk.table[d][id] = {}

(* A swap reads as many blocks as it writes: the lists of source and         *)
(* destination blocks the worker zips together never slip by one.            *)
SwapsCopyWholeRequests ==
    Alive => \A c \in blk.copies : c.src # {} /\ Cardinality(c.src) = Cardinality(c.dst)

(* What the scheduler's thresholds are for: no assertion of prepare fails    *)
(* and the GPU never runs out of blocks, in either split.  Only the CPU may, *)
(* whose requests grow unchecked.                                            *)
OnlyCpuBlocksRunOut == blk.fault \in {"none", "no_cpu_blocks"}


(* scheduler.py: "Request in the following three deques are sorted by their  *)
(* arrival time".                                                            *)
InOrder(q) == \A i, j \in DOMAIN q :
    i < j => \E a, b \in DOMAIN arrivals : a < b /\ arrivals[a] = q[i] /\ arrivals[b] = q[j]
QueuesSortedByArrival == InOrder(waiting_q) /\ InOrder(gpu_decoding_q) /\ InOrder(cpu_decoding_q)
=============================================================================
