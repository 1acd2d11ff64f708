------------------------------ MODULE PieSwap ------------------------------
(* The Pie baseline (src/baseline/pie/kv_cache_offload.py): the K/V of a model
   with NumLayers layers, some of which live in host memory.  Before each layer
   attends, the host thread runs FIFOSwapController.on_layer_compute_start,
   which moves layers both ways with copies on two CUDA streams of their own;
   after a forward pass the adaptive controller may change how many layers are
   offloaded.  Each action of the host is the code between two looks at the GPU,
   so the streams move on between the polls of one call.

   The contents of a layer's buffer are the set of forward passes whose token it
   holds; 0 stands for what was there before the first pass.                   *)
EXTENDS Integers, Sequences, FiniteSets

CONSTANTS
  NumLayers,      \* layers of the model on this rank (start_layer = 0)
  Offloaded,      \* m: how many of them start in host memory
  CheckInterval,  \* passes between two decisions of the adaptive controller
  MaxPass,        \* bound: forward passes
  MaxAhead        \* bound: kernels the host may have waiting on the stream

ASSUME PieAssumption ==
  /\ NumLayers \in Nat /\ NumLayers >= 2
  /\ Offloaded \in 0..(NumLayers - 2)
  /\ CheckInterval \in Nat \ {0}
  /\ MaxPass \in Nat \ {0}
  /\ MaxAhead \in Nat \ {0}

VARIABLES
  status,    \* MappingTable: layer -> where its K/V is
  slotIn,    \* SwapEngine._in_flight_in
  slotOut,   \* SwapEngine._in_flight_out
  inQ,       \* copies waiting on stream_in, oldest first
  outQ,      \* copies waiting on stream_out
  compute,   \* kernels waiting on the compute stream
  gpu, cpu,  \* layer -> contents of its GPU and of its pinned buffer
  m,         \* AdaptiveExpansionController.m
  stalls,    \* FIFOSwapController.stall_count in this pass
  idle,      \* idle_swap_in + idle_swap_out in this pass
  pc,        \* where the host thread is
  layer,     \* the layer it is at
  pass,      \* the forward pass it is in, from 1
  writes,    \* do passes store a token (a server) or only read (the benchmark)
  kept       \* history: layer -> tokens stored while the layer was at rest

host    == <<pc, layer, pass, writes>>
engine  == <<slotIn, slotOut, inQ, outQ>>
buffers == <<gpu, cpu>>
tuning  == <<m, stalls, idle>>
vars    == <<status, engine, compute, buffers, tuning, host, kept>>

Layers  == 0..(NumLayers - 1)
NoLayer == -1
Tokens  == 0..MaxPass

-----------------------------------------------------------------------------
(* MappingTable *)

FreshMapping(offload) ==
  [l \in Layers |-> IF l < NumLayers - offload THEN "gpu" ELSE "cpu"]

NumCpuResident == Cardinality({l \in Layers : status[l] \in {"cpu", "in"}})

\* Layers computed until l's turn comes again, seen from the current layer.
StepsUntilNeeded(l) ==
  LET d == (l - layer) % NumLayers IN IF d > 0 THEN d ELSE NumLayers

\* The layers get_coldest_gpu_layer considers: none while nothing is in host
\* memory, else the resident ones whose turn is not within the safe window.
ColdCandidates ==
  {l \in Layers \ {layer} : /\ NumCpuResident > 0
                            /\ status[l] = "gpu"
                            /\ StepsUntilNeeded(l) > NumCpuResident + 1}

ColdestGpuLayer ==
  {l \in ColdCandidates :
     \A k \in ColdCandidates : StepsUntilNeeded(k) <= StepsUntilNeeded(l)}

HotCandidates == {l \in Layers \ {layer} : status[l] = "cpu"}

HottestCpuLayer ==
  {l \in HotCandidates :
     \A k \in HotCandidates : StepsUntilNeeded(l) <= StepsUntilNeeded(k)}

-----------------------------------------------------------------------------
(* SwapEngine.  A copy waits for the kernels that were on the compute stream
   when it was issued (wait_stream): "after" counts those still to run.        *)

\* Mutant: the copy in waits for one kernel too many.
SwapInTooLate(l) ==
  /\ inQ' = Append(inQ, [layer |-> l, after |-> Len(compute) + 1])
  /\ slotIn' = l

SwapInAsync(l) ==
  /\ inQ' = Append(inQ, [layer |-> l, after |-> Len(compute)])
  /\ slotIn' = l

\* Mutant: the copy out does not wait for the compute stream.
SwapOutAtOnce(l) ==
  /\ outQ' = Append(outQ, [layer |-> l, after |-> 0])
  /\ slotOut' = l

SwapOutAsync(l) ==
  /\ outQ' = Append(outQ, [layer |-> l, after |-> Len(compute)])
  /\ slotOut' = l

\* is_swap_in_done, is_swap_out_done: an empty slot, or the one event of the
\* direction, which is recorded behind the newest copy, has completed.
InDone  == slotIn = NoLayer \/ inQ = <<>>
OutDone == slotOut = NoLayer \/ outQ = <<>>

-----------------------------------------------------------------------------
Init ==
  /\ m = Offloaded
  /\ status = FreshMapping(Offloaded)
  /\ gpu = [l \in Layers |-> {0}]
  /\ cpu = [l \in Layers |-> IF status[l] = "cpu" THEN {0} ELSE {}]
  /\ slotIn = NoLayer /\ slotOut = NoLayer
  /\ inQ = <<>> /\ outQ = <<>> /\ compute = <<>>
  /\ stalls = 0 /\ idle = 0
  /\ pc = "store" /\ layer = 0 /\ pass = 1
  /\ writes \in BOOLEAN
  /\ kept = [l \in Layers |-> {0}]

\* A layer at rest on the GPU: marked resident and no copy of it anywhere.
AtRest(l) ==
  /\ status[l] = "gpu"
  /\ l \notin {slotIn, slotOut}
  /\ \A i \in DOMAIN inQ : inQ[i].layer # l
  /\ \A i \in DOMAIN outQ : outQ[i].layer # l

Enqueue(kind) ==
  /\ Len(compute) < MaxAhead
  /\ compute' = Append(compute, [kind |-> kind, layer |-> layer, token |-> pass])

\* The attention backend stores the new token first (set_kv_buffer, which no
\* hook covers) and asks for the buffers afterwards.
StoreToken ==
  /\ pc = "store"
  /\ IF writes
     THEN /\ Enqueue("store")
          /\ kept' = IF AtRest(layer)
                     THEN [kept EXCEPT ![layer] = @ \union {pass}] ELSE kept
     ELSE UNCHANGED <<compute, kept>>
  /\ pc' = "poll"
  /\ UNCHANGED <<status, engine, buffers, tuning, layer, pass, writes>>

\* Steps 1 and 2 of on_layer_compute_start: take note of finished copies.
Poll ==
  /\ pc = "poll"
  /\ LET out == IF OutDone THEN slotOut ELSE NoLayer
         in  == IF InDone THEN slotIn ELSE NoLayer
     IN  /\ status' = [l \in Layers |-> CASE l = in  -> "gpu"
                                          [] l = out /\ l # in -> "cpu"
                                          [] OTHER -> status[l]]
         /\ slotOut' = IF OutDone THEN NoLayer ELSE slotOut
         /\ slotIn' = IF InDone THEN NoLayer ELSE slotIn
  /\ pc' = "evict"
  /\ UNCHANGED <<inQ, outQ, compute, buffers, tuning, layer, pass, writes, kept>>

\* Step 3: evict the coldest layer if the outward stream is idle by now.
Evict ==
  /\ pc = "evict"
  /\ \/ /\ OutDone
        /\ \E l \in ColdestGpuLayer : /\ SwapOutAsync(l)
                                     /\ status' = [status EXCEPT ![l] = "out"]
        /\ UNCHANGED idle
     \/ /\ OutDone /\ ColdCandidates = {}
        /\ idle' = idle + 1
        /\ UNCHANGED <<status, slotOut, outQ>>
     \/ /\ ~OutDone
        /\ UNCHANGED <<status, slotOut, outQ, idle>>
  /\ pc' = "fetch"
  /\ UNCHANGED <<slotIn, inQ, compute, buffers, m, stalls, layer, pass, writes, kept>>

\* Step 4: fetch the layer needed soonest if the inward stream is idle by now.
Fetch ==
  /\ pc = "fetch"
  /\ \/ /\ InDone
        /\ \E l \in HottestCpuLayer : /\ SwapInAsync(l)
                                     /\ status' = [status EXCEPT ![l] = "in"]
        /\ UNCHANGED idle
     \/ /\ InDone /\ HotCandidates = {}
        /\ idle' = idle + 1
        /\ UNCHANGED <<status, slotIn, inQ>>
     \/ /\ ~InDone
        /\ UNCHANGED <<status, slotIn, inQ, idle>>
  /\ pc' = "ensure"
  /\ UNCHANGED <<slotOut, outQ, compute, buffers, m, stalls, layer, pass, writes, kept>>

\* Step 5, the current layer is resident: attend.
EnsureResident ==
  /\ pc = "ensure" /\ status[layer] = "gpu"
  /\ pc' = "attend"
  /\ UNCHANGED <<status, engine, compute, buffers, tuning, layer, pass, writes, kept>>

\* Step 5, it is on its way: wait_swap_in blocks if the slot is taken.  This is
\* also how the two blocking fetches below end.
AwaitArrival ==
  /\ pc = "ensure" /\ status[layer] = "in"
  /\ InDone
  /\ slotIn' = NoLayer
  /\ status' = [status EXCEPT ![layer] = "gpu"]
  /\ stalls' = stalls + 1
  /\ pc' = "attend"
  /\ UNCHANGED <<slotOut, inQ, outQ, compute, buffers, m, idle, layer, pass, writes, kept>>

\* Step 5, it is in host memory: fetch it now, whatever else is in flight.  The
\* code sets its status when the copy has arrived; nobody reads it before.
FetchNow ==
  /\ pc = "ensure" /\ status[layer] = "cpu"
  /\ SwapInAsync(layer)
  /\ status' = [status EXCEPT ![layer] = "in"]
  /\ UNCHANGED <<slotOut, outQ, compute, buffers, tuning, host, kept>>

\* Mutant: the eviction is forgotten instead of awaited.
FetchEvictedNoSync ==
  /\ pc = "ensure" /\ status[layer] = "out"
  /\ slotOut' = NoLayer
  /\ SwapInAsync(layer)
  /\ status' = [status EXCEPT ![layer] = "in"]
  /\ UNCHANGED <<outQ, compute, buffers, tuning, host, kept>>

\* Step 5, it is being evicted: wait for every eviction issued, then fetch it.
FetchEvicted ==
  /\ pc = "ensure" /\ status[layer] = "out"
  /\ outQ = <<>>
  /\ slotOut' = NoLayer
  /\ SwapInAsync(layer)
  /\ status' = [status EXCEPT ![layer] = "in"]
  /\ UNCHANGED <<outQ, compute, buffers, tuning, host, kept>>

Ensure == EnsureResident \/ AwaitArrival \/ FetchNow \/ FetchEvicted

\* Mutant: off by one at the last layer.
AttendNoWrap ==
  /\ pc = "attend"
  /\ Enqueue("attend")
  /\ pc' = IF layer = NumLayers THEN "end" ELSE "store"
  /\ layer' = IF layer = NumLayers THEN 0 ELSE layer + 1
  /\ UNCHANGED <<status, engine, buffers, tuning, pass, writes, kept>>

\* The attention kernel goes on the compute stream and the next layer begins.
Attend ==
  /\ pc = "attend"
  /\ Enqueue("attend")
  /\ pc' = IF layer = NumLayers - 1 THEN "end" ELSE "store"
  /\ layer' = IF layer = NumLayers - 1 THEN 0 ELSE layer + 1
  /\ UNCHANGED <<status, engine, buffers, tuning, pass, writes, kept>>

-----------------------------------------------------------------------------
(* AdaptiveExpansionController.  The counters are those of the last pass, the
   events those of the whole interval; throughput may or may not have improved. *)

TotalEvents == NumLayers * CheckInterval
Decisions ==
  IF pass % CheckInterval # 0 THEN {m}
  ELSE IF 10 * stalls > TotalEvents THEN {IF m > 0 THEN m - 1 ELSE 0}
  ELSE IF idle > TotalEvents THEN {m, IF m < NumLayers - 2 THEN m + 1 ELSE NumLayers - 2}
  ELSE {m}

\* Mutant: newly offloaded layers are not copied.
ReallocNoCopy(newM) ==
  /\ status' = FreshMapping(newM)
  /\ UNCHANGED cpu

\* _realloc: a fresh mapping table, and blocking copies of the layers it puts in
\* host memory.  The slots of the swap engine and its copies are left alone.
Realloc(newM) ==
  /\ newM > 0 => compute = <<>>
  /\ status' = FreshMapping(newM)
  /\ cpu' = [l \in Layers |-> IF status'[l] = "cpu" THEN gpu[l] ELSE cpu[l]]

PassComplete ==
  /\ pc = "end" /\ pass < MaxPass
  /\ \E newM \in Decisions :
       /\ m' = newM
       /\ IF newM = m THEN UNCHANGED <<status, cpu>> ELSE Realloc(newM)
  /\ stalls' = 0 /\ idle' = 0
  /\ pass' = pass + 1
  /\ pc' = "store"
  /\ UNCHANGED <<engine, compute, gpu, layer, writes, kept>>

-----------------------------------------------------------------------------
(* The GPU *)

Nearer(q) ==
  [i \in DOMAIN q |-> [layer |-> q[i].layer,
                      after |-> IF q[i].after > 0 THEN q[i].after - 1 ELSE 0]]

RunKernel ==
  /\ compute # <<>>
  /\ LET k == Head(compute) IN
       gpu' = IF k.kind = "store" THEN [gpu EXCEPT ![k.layer] = @ \union {k.token}]
                                  ELSE gpu
  /\ compute' = Tail(compute)
  /\ inQ' = Nearer(inQ) /\ outQ' = Nearer(outQ)
  /\ UNCHANGED <<status, slotIn, slotOut, cpu, tuning, host, kept>>

Ready(q) == q # <<>> /\ Head(q).after = 0

CopyIn ==
  /\ Ready(inQ)
  /\ gpu' = [gpu EXCEPT ![Head(inQ).layer] = cpu[Head(inQ).layer]]
  /\ inQ' = Tail(inQ)
  /\ UNCHANGED <<status, slotIn, slotOut, outQ, compute, cpu, tuning, host, kept>>

CopyOut ==
  /\ Ready(outQ)
  /\ cpu' = [cpu EXCEPT ![Head(outQ).layer] = gpu[Head(outQ).layer]]
  /\ outQ' = Tail(outQ)
  /\ UNCHANGED <<status, slotIn, slotOut, inQ, compute, gpu, tuning, host, kept>>

Host == StoreToken \/ Poll \/ Evict \/ Fetch \/ Ensure \/ Attend \/ PassComplete

Next == Host \/ RunKernel \/ CopyIn \/ CopyOut

Spec == Init /\ [][Next]_vars
FairSpec == Spec /\ WF_vars(Host) /\ WF_vars(RunKernel) /\ WF_vars(CopyIn) /\ WF_vars(CopyOut)

-----------------------------------------------------------------------------
Copies == [layer : Layers, after : 0..MaxAhead]

TypeOK ==
  /\ status \in [Layers -> {"gpu", "cpu", "in", "out"}]
  /\ slotIn \in Layers \union {NoLayer} /\ slotOut \in Layers \union {NoLayer}
  /\ inQ \in Seq(Copies) /\ outQ \in Seq(Copies)
  /\ compute \in Seq([kind : {"store", "attend"}, layer : Layers, token : Tokens])
  /\ Len(compute) <= MaxAhead
  /\ gpu \in [Layers -> SUBSET Tokens] /\ cpu \in [Layers -> SUBSET Tokens]
  /\ m \in 0..(NumLayers - 2)
  /\ stalls \in Nat /\ idle \in Nat
  /\ pc \in {"store", "poll", "evict", "fetch", "ensure", "attend", "end"}
  /\ layer \in Layers /\ pass \in 1..MaxPass /\ writes \in BOOLEAN
  /\ kept \in [Layers -> SUBSET Tokens]

\* An empty slot means that nothing is in flight.  The slot names the newest copy
\* only and the host forgets older ones when it reuses it, so this is what makes
\* "the slot is empty" a reason not to wait in step 5.
EmptySlotIsIdle ==
  /\ slotIn = NoLayer => inQ = <<>>
  /\ slotOut = NoLayer => outQ = <<>>

Attending == {l \in Layers : /\ compute # <<>>
                             /\ Head(compute).kind = "attend"
                             /\ Head(compute).layer = l}

\* Attention sees every token stored up to its pass while its layer was at rest on
\* the GPU, through all the evictions, fetches and reallocations since.
AttentionSeesKept ==
  \A l \in Attending : {t \in kept[l] : t <= Head(compute).token} \subseteq gpu[l]

\* What a layer marked as in host memory kept is in its pinned buffer: fetching
\* it cannot take a kept token away.
HostCopyComplete == \A l \in Layers : status[l] = "cpu" => kept[l] \subseteq cpu[l]

\* The host is never blocked for good on an event of the swap streams: every pass
\* through the layers comes to its end.
PassesEnd == \A p \in 1..MaxPass : <>(pc = "end" /\ pass = p)

\* PieKVPool's promise, "the swap controller guarantees it contains the correct
\* data by the time attention computes": attention sees every token stored.
AttentionSeesAll ==
  \A l \in Attending : writes => 0..Head(compute).token \subseteq gpu[l]

=============================================================================
