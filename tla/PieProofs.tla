----------------------------- MODULE PieProofs -----------------------------
(* What the Pie baseline keeps, for any number of layers, passes and kernels
   waiting: an empty slot means an idle stream, and a token stored on a layer at
   rest is seen by every later attention.                                      *)
EXTENDS PieSwap, SequenceTheorems, TLAPS

Kernels == [kind : {"store", "attend"}, layer : Layers, token : Tokens]

\* Token t of layer l will be in its GPU buffer once the first a waiting kernels
\* have run.
Will(l, t, a) ==
  \/ t \in gpu[l]
  \/ \E i \in 1..Len(compute) : /\ i <= a
                                /\ compute[i].kind = "store"
                                /\ compute[i].layer = l
                                /\ compute[i].token = t

\* A kept token is in the buffer or on its way there.
KeptArrives == \A l \in Layers : \A t \in kept[l] : Will(l, t, Len(compute))

\* ... and arrives before the attention kernels of its pass and later ones.
AttendsSee ==
  \A i \in 1..Len(compute) :
    compute[i].kind = "attend" =>
      \A t \in kept[compute[i].layer] :
        t <= compute[i].token => Will(compute[i].layer, t, i)

\* A waiting attention kernel belongs to an earlier pass or to a layer before the
\* current one: the token stored next is none of its business.
AttendsPast ==
  \A i \in 1..Len(compute) :
    compute[i].kind = "attend" =>
      \/ compute[i].token < pass
      \/ compute[i].token = pass /\ (compute[i].layer < layer \/ pc = "end")

\* A copy in brings a layer everything it kept.
CopyInSafe == \A j \in 1..Len(inQ) : kept[inQ[j].layer] \subseteq cpu[inQ[j].layer]

\* A copy out finds everything its layer kept.
CopyOutSafe ==
  \A j \in 1..Len(outQ) :
    \A t \in kept[outQ[j].layer] : Will(outQ[j].layer, t, outQ[j].after)

\* An eviction that is no longer queued has saved what its layer kept.
EvictedSaved ==
  \A l \in Layers :
    status[l] = "out" \/ slotOut = l =>
      kept[l] \subseteq cpu[l] \/ \E j \in 1..Len(outQ) : outQ[j].layer = l

PieInv ==
  /\ TypeOK /\ EmptySlotIsIdle
  /\ KeptArrives /\ AttendsSee /\ AttendsPast
  /\ CopyInSafe /\ CopyOutSafe /\ EvictedSaved /\ HostCopyComplete

-----------------------------------------------------------------------------
(* Queues *)

\* Running a kernel shortens the wait of every copy and changes nothing else.
LEMMA NearerProperties ==
  ASSUME NEW q \in Seq(Copies), PieAssumption
  PROVE  /\ Nearer(q) \in Seq(Copies)
         /\ Len(Nearer(q)) = Len(q)
         /\ q = <<>> => Nearer(q) = <<>>
         /\ \A j \in 1..Len(q) :
              /\ Nearer(q)[j].layer = q[j].layer
              /\ Nearer(q)[j].after = IF q[j].after > 0 THEN q[j].after - 1 ELSE 0
<1>1. DOMAIN q = 1..Len(q) /\ Len(q) \in Nat
  BY LenProperties
<1>2. \A j \in 1..Len(q) : q[j] \in Copies
  BY ElementOfSeq
<1>3. \A j \in 1..Len(q) :
        /\ Nearer(q)[j] \in Copies
        /\ Nearer(q)[j].layer = q[j].layer
        /\ Nearer(q)[j].after = IF q[j].after > 0 THEN q[j].after - 1 ELSE 0
  <2> TAKE j \in 1..Len(q)
  <2>1. Nearer(q)[j] = [layer |-> q[j].layer,
                        after |-> IF q[j].after > 0 THEN q[j].after - 1 ELSE 0]
    BY <1>1 DEF Nearer
  <2>2. q[j] \in Copies /\ MaxAhead \in Nat
    BY <1>2 DEF PieAssumption
  <2> QED BY <2>1, <2>2 DEF Copies
<1>4. Nearer(q) = [i \in 1..Len(q) |-> Nearer(q)[i]]
  BY <1>1 DEF Nearer
<1>5. Nearer(q) \in Seq(Copies) /\ Len(Nearer(q)) = Len(q)
  <2>1. Nearer(q) \in [1..Len(q) -> Copies]
    BY <1>3, <1>4
  <2> QED BY <2>1, <1>1, SeqDef, LenProperties
<1>6. q = <<>> => Nearer(q) = <<>>
  BY <1>5, EmptySeq
<1> QED BY <1>3, <1>5, <1>6

-----------------------------------------------------------------------------
(* Types *)

\* The adaptive controller keeps at least two layers on the GPU.
LEMMA DecisionsInRange ==
  ASSUME PieAssumption, TypeOK
  PROVE  Decisions \subseteq 0..(NumLayers - 2)
<1>1. NumLayers \in Nat /\ NumLayers >= 2 /\ m \in 0..(NumLayers - 2)
  BY DEF PieAssumption, TypeOK
<1>2. /\ {m} \subseteq 0..(NumLayers - 2)
      /\ {IF m > 0 THEN m - 1 ELSE 0} \subseteq 0..(NumLayers - 2)
      /\ {m, IF m < NumLayers - 2 THEN m + 1 ELSE NumLayers - 2} \subseteq 0..(NumLayers - 2)
  BY <1>1
<1> QED BY <1>2, Zenon DEF Decisions

\* What putting a kernel on the compute stream does to it.
LEMMA EnqueueType ==
  ASSUME PieAssumption, TypeOK, NEW kind \in {"store", "attend"}, Enqueue(kind)
  PROVE  /\ compute' \in Seq(Kernels)
         /\ Len(compute') = Len(compute) + 1 /\ Len(compute') <= MaxAhead
         /\ \A i \in 1..Len(compute) : compute'[i] = compute[i]
         /\ compute'[Len(compute) + 1] = [kind |-> kind, layer |-> layer, token |-> pass]
<1>1. MaxAhead \in Nat /\ MaxPass \in Nat
  BY DEF PieAssumption
<1>2. compute \in Seq(Kernels) /\ pass \in 1..MaxPass /\ layer \in Layers
  BY DEF TypeOK, Kernels
<1>3. [kind |-> kind, layer |-> layer, token |-> pass] \in Kernels
  BY <1>1, <1>2 DEF Kernels, Tokens
<1>4. Len(compute) \in Nat /\ Len(compute) < MaxAhead
  BY <1>2, LenProperties DEF Enqueue
<1> QED BY <1>1, <1>2, <1>3, <1>4, AppendProperties DEF Enqueue

\* What issuing a copy of a layer does to its queue.
LEMMA IssueType ==
  ASSUME PieAssumption, TypeOK, NEW q \in Seq(Copies), NEW l \in Layers,
         NEW c, c = [layer |-> l, after |-> Len(compute)]
  PROVE  /\ Append(q, c) \in Seq(Copies)
         /\ Len(Append(q, c)) = Len(q) + 1
         /\ \A j \in 1..Len(q) : Append(q, c)[j] = q[j]
         /\ Append(q, c)[Len(q) + 1] = c
<1>1. MaxAhead \in Nat /\ Len(compute) \in Nat /\ Len(compute) <= MaxAhead
  BY LenProperties DEF PieAssumption, TypeOK
<1>2. c \in Copies
  BY <1>1 DEF Copies
<1> QED BY <1>2, AppendProperties

\* A queue after its head has run.
LEMMA TailType ==
  ASSUME NEW S, NEW q \in Seq(S), q # <<>>
  PROVE  /\ Len(q) \in Nat /\ Len(q) >= 1
         /\ Head(q) = q[1] /\ Head(q) \in S
         /\ Tail(q) \in Seq(S) /\ Len(Tail(q)) = Len(q) - 1
         /\ \A j \in 1..Len(Tail(q)) : Tail(q)[j] = q[j + 1]
<1>1. Len(q) \in Nat /\ Len(q) # 0
  BY LenProperties, EmptySeq
<1>2. Head(q) = q[1]
  OBVIOUS
<1> QED BY <1>1, <1>2, HeadTailProperties

LEMMA TypeStep ==
  ASSUME PieAssumption, TypeOK, [Next]_vars
  PROVE  TypeOK'
<1> DEFINE Where == {"gpu", "cpu", "in", "out"}
           Slots == Layers \union {NoLayer}
<1>0. /\ NumLayers \in Nat /\ NumLayers >= 2 /\ MaxPass \in Nat /\ MaxAhead \in Nat
      /\ CheckInterval \in Nat
  BY DEF PieAssumption
<1>t. /\ status \in [Layers -> Where]
      /\ slotIn \in Slots /\ slotOut \in Slots
      /\ inQ \in Seq(Copies) /\ outQ \in Seq(Copies)
      /\ compute \in Seq(Kernels) /\ Len(compute) <= MaxAhead
      /\ gpu \in [Layers -> SUBSET Tokens] /\ cpu \in [Layers -> SUBSET Tokens]
      /\ m \in 0..(NumLayers - 2) /\ stalls \in Nat /\ idle \in Nat
      /\ layer \in Layers /\ pass \in 1..MaxPass /\ writes \in BOOLEAN
      /\ kept \in [Layers -> SUBSET Tokens]
      /\ pass \in Tokens
  BY <1>0 DEF TypeOK, Kernels, Tokens
<1>1. CASE StoreToken
  <2>1. CASE writes
    <3>1. Enqueue("store")
      BY <1>1, <2>1 DEF StoreToken
    <3>2. kept' \in [Layers -> SUBSET Tokens]
      BY <1>1, <1>t, <2>1 DEF StoreToken
    <3> QED BY <1>1, <1>t, <3>1, <3>2, EnqueueType
            DEF StoreToken, TypeOK, engine, buffers, tuning, Kernels
  <2>2. CASE ~writes
    BY <1>1, <1>t, <2>2 DEF StoreToken, TypeOK, engine, buffers, tuning, Kernels
  <2> QED BY <2>1, <2>2
<1>2. CASE Poll
  <2>1. status' \in [Layers -> Where] /\ slotIn' \in Slots /\ slotOut' \in Slots
    BY <1>2, <1>t DEF Poll
  <2> QED BY <1>2, <1>t, <2>1 DEF Poll, TypeOK, buffers, tuning, Kernels
<1>3. CASE Evict
  <2>1. /\ status' \in [Layers -> Where] /\ slotOut' \in Slots
        /\ outQ' \in Seq(Copies) /\ idle' \in Nat
    <3>1. CASE \E l \in ColdestGpuLayer : SwapOutAsync(l) /\ status' = [status EXCEPT ![l] = "out"] /\ UNCHANGED idle
      <4>1. PICK l \in Layers : /\ SwapOutAsync(l)
                                /\ status' = [status EXCEPT ![l] = "out"]
                                /\ UNCHANGED idle
        BY <3>1 DEF ColdestGpuLayer, ColdCandidates
      <4>2. outQ' \in Seq(Copies)
        BY <4>1, <1>t, IssueType DEF SwapOutAsync
      <4> QED BY <4>1, <4>2, <1>t DEF SwapOutAsync
    <3>2. CASE idle' = idle + 1 /\ UNCHANGED <<status, slotOut, outQ>>
      BY <3>2, <1>t
    <3>3. CASE UNCHANGED <<status, slotOut, outQ, idle>>
      BY <3>3, <1>t
    <3> QED BY <1>3, <3>1, <3>2, <3>3, Zenon DEF Evict
  <2> QED BY <1>3, <1>t, <2>1 DEF Evict, TypeOK, buffers, Kernels
<1>4. CASE Fetch
  <2>1. /\ status' \in [Layers -> Where] /\ slotIn' \in Slots
        /\ inQ' \in Seq(Copies) /\ idle' \in Nat
    <3>1. CASE \E l \in HottestCpuLayer : SwapInAsync(l) /\ status' = [status EXCEPT ![l] = "in"] /\ UNCHANGED idle
      <4>1. PICK l \in Layers : /\ SwapInAsync(l)
                                /\ status' = [status EXCEPT ![l] = "in"]
                                /\ UNCHANGED idle
        BY <3>1 DEF HottestCpuLayer, HotCandidates
      <4>2. inQ' \in Seq(Copies)
        BY <4>1, <1>t, IssueType DEF SwapInAsync
      <4> QED BY <4>1, <4>2, <1>t DEF SwapInAsync
    <3>2. CASE idle' = idle + 1 /\ UNCHANGED <<status, slotIn, inQ>>
      BY <3>2, <1>t
    <3>3. CASE UNCHANGED <<status, slotIn, inQ, idle>>
      BY <3>3, <1>t
    <3> QED BY <1>4, <3>1, <3>2, <3>3, Zenon DEF Fetch
  <2> QED BY <1>4, <1>t, <2>1 DEF Fetch, TypeOK, buffers, Kernels
<1>5. CASE Ensure
  <2>1. CASE EnsureResident
    BY <2>1, <1>t DEF EnsureResident, TypeOK, engine, buffers, tuning, Kernels
  <2>2. CASE AwaitArrival
    BY <2>2, <1>t DEF AwaitArrival, TypeOK, buffers, Kernels
  <2>3. CASE FetchNow
    <3>1. inQ' \in Seq(Copies)
      BY <2>3, <1>t, IssueType DEF FetchNow, SwapInAsync
    <3> QED BY <2>3, <3>1, <1>t
            DEF FetchNow, SwapInAsync, TypeOK, buffers, tuning, host, Kernels
  <2>4. CASE FetchEvicted
    <3>1. inQ' \in Seq(Copies)
      BY <2>4, <1>t, IssueType DEF FetchEvicted, SwapInAsync
    <3> QED BY <2>4, <3>1, <1>t
            DEF FetchEvicted, SwapInAsync, TypeOK, buffers, tuning, host, Kernels
  <2> QED BY <1>5, <2>1, <2>2, <2>3, <2>4 DEF Ensure
<1>6. CASE Attend
  <2>1. Enqueue("attend")
    BY <1>6 DEF Attend
  <2>2. layer' \in Layers
    BY <1>6, <1>0, <1>t DEF Attend, Layers
  <2> QED BY <1>6, <1>t, <2>1, <2>2, EnqueueType
          DEF Attend, TypeOK, engine, buffers, tuning, Kernels
<1>7. CASE PassComplete
  <2>1. PICK newM \in Decisions :
          /\ m' = newM
          /\ IF newM = m THEN UNCHANGED <<status, cpu>> ELSE Realloc(newM)
    BY <1>7 DEF PassComplete
  <2>2. m' \in 0..(NumLayers - 2)
    BY <2>1, DecisionsInRange
  <2>3. status' \in [Layers -> Where] /\ cpu' \in [Layers -> SUBSET Tokens]
    BY <2>1, <1>t DEF Realloc, FreshMapping
  <2>4. pass' \in 1..MaxPass
    BY <1>7, <1>0, <1>t DEF PassComplete
  <2> QED BY <1>7, <1>t, <2>2, <2>3, <2>4 DEF PassComplete, TypeOK, engine, Kernels
<1>8. CASE RunKernel
  <2>1. /\ compute' \in Seq(Kernels) /\ Len(compute') <= MaxAhead
        /\ Head(compute) \in Kernels
    BY <1>8, <1>0, <1>t, TailType DEF RunKernel
  <2>2. gpu' \in [Layers -> SUBSET Tokens]
    BY <1>8, <1>t, <2>1 DEF RunKernel, Kernels
  <2>3. inQ' \in Seq(Copies) /\ outQ' \in Seq(Copies)
    BY <1>8, <1>t, NearerProperties DEF RunKernel
  <2> QED BY <1>8, <1>t, <2>1, <2>2, <2>3 DEF RunKernel, TypeOK, tuning, host, Kernels
<1>9. CASE CopyIn
  <2>1. inQ # <<>>
    BY <1>9 DEF CopyIn, Ready
  <2>2. Head(inQ) \in Copies /\ inQ' \in Seq(Copies)
    BY <1>9, <1>t, <2>1, TailType DEF CopyIn
  <2>3. gpu' \in [Layers -> SUBSET Tokens]
    BY <1>9, <1>t, <2>2 DEF CopyIn, Copies
  <2> QED BY <1>9, <1>t, <2>2, <2>3 DEF CopyIn, TypeOK, tuning, host, Kernels
<1>10. CASE CopyOut
  <2>1. outQ # <<>>
    BY <1>10 DEF CopyOut, Ready
  <2>2. Head(outQ) \in Copies /\ outQ' \in Seq(Copies)
    BY <1>10, <1>t, <2>1, TailType DEF CopyOut
  <2>3. cpu' \in [Layers -> SUBSET Tokens]
    BY <1>10, <1>t, <2>2 DEF CopyOut, Copies
  <2> QED BY <1>10, <1>t, <2>2, <2>3 DEF CopyOut, TypeOK, tuning, host, Kernels
<1>11. CASE UNCHANGED vars
  BY <1>11, <1>t DEF vars, host, engine, buffers, tuning, TypeOK, Kernels
<1> QED BY <1>1, <1>2, <1>3, <1>4, <1>5, <1>6, <1>7, <1>8, <1>9, <1>10, <1>11
        DEF Next, Host

-----------------------------------------------------------------------------
(* The invariant *)

\* What is on its way stays so while only host state and the end of the compute
\* stream change.
LEMMA WillStays ==
  ASSUME TypeOK, NEW l \in Layers, NEW t, NEW a \in Nat, NEW b \in Nat, a <= b,
         Will(l, t, a), gpu' = gpu, Len(compute') \in Nat, Len(compute) <= Len(compute'),
         \A i \in 1..Len(compute) : compute'[i] = compute[i]
  PROVE  Will(l, t, b)'
<1>1. Len(compute) \in Nat
  BY LenProperties DEF TypeOK
<1>2. CASE t \in gpu[l]
  BY <1>2 DEF Will
<1>3. CASE t \notin gpu[l]
  <2>1. PICK i \in 1..Len(compute) : /\ i <= a
                                     /\ compute[i].kind = "store"
                                     /\ compute[i].layer = l
                                     /\ compute[i].token = t
    BY <1>3 DEF Will
  <2>2. i \in 1..Len(compute') /\ i <= b
    BY <1>1, <2>1
  <2> QED BY <2>1, <2>2 DEF Will
<1> QED BY <1>2, <1>3

\* A copy in may be issued for a layer whose host copy is complete.
LEMMA IssueIn ==
  ASSUME PieAssumption, TypeOK, CopyInSafe, NEW l \in Layers, SwapInAsync(l),
         kept[l] \subseteq cpu[l], UNCHANGED <<kept, cpu>>
  PROVE  CopyInSafe' /\ slotIn' # NoLayer
<1>1. inQ \in Seq(Copies) /\ Len(inQ) \in Nat
  BY LenProperties DEF TypeOK
<1>2. /\ Len(inQ') = Len(inQ) + 1
      /\ \A j \in 1..Len(inQ) : inQ'[j] = inQ[j]
      /\ inQ'[Len(inQ) + 1].layer = l
  BY <1>1, IssueType DEF SwapInAsync
<1>3. ASSUME NEW j \in 1..Len(inQ')
      PROVE  kept'[inQ'[j].layer] \subseteq cpu'[inQ'[j].layer]
  <2>1. j \in 1..Len(inQ) \/ j = Len(inQ) + 1
    BY <1>1, <1>2
  <2> QED BY <1>2, <2>1 DEF CopyInSafe
<1>4. l # NoLayer
  BY DEF Layers, NoLayer, PieAssumption
<1> QED BY <1>3, <1>4 DEF CopyInSafe, SwapInAsync

\* A copy out, issued behind the kernels that store what its layer kept.
LEMMA IssueOut ==
  ASSUME PieAssumption, TypeOK, CopyOutSafe, KeptArrives, NEW l \in Layers, SwapOutAsync(l),
         UNCHANGED <<kept, gpu, compute>>
  PROVE  /\ CopyOutSafe' /\ slotOut' # NoLayer
         /\ \A k \in Layers :
              (k = l \/ \E j \in 1..Len(outQ) : outQ[j].layer = k)
                => \E j \in 1..Len(outQ') : outQ'[j].layer = k
<1>1. outQ \in Seq(Copies) /\ Len(outQ) \in Nat
  BY LenProperties DEF TypeOK
<1>2. /\ Len(outQ') = Len(outQ) + 1
      /\ \A j \in 1..Len(outQ) : outQ'[j] = outQ[j]
      /\ outQ'[Len(outQ) + 1].layer = l
      /\ outQ'[Len(outQ) + 1].after = Len(compute)
  BY <1>1, IssueType DEF SwapOutAsync
<1>3. ASSUME NEW j \in 1..Len(outQ'), NEW t \in kept'[outQ'[j].layer]
      PROVE  Will(outQ[j].layer, t, outQ[j].after)'
  <2>1. j \in 1..Len(outQ) \/ j = Len(outQ) + 1
    BY <1>1, <1>2
  <2>2. CASE j \in 1..Len(outQ)
    <3>1. \A k, b : Will(k, t, b) => Will(k, t, b)'
      BY DEF Will
    <3>2. Will(outQ[j].layer, t, outQ[j].after)
      BY <1>2, <2>2 DEF CopyOutSafe
    <3> QED BY <1>2, <2>2, <3>1, <3>2
  <2>3. CASE j = Len(outQ) + 1
    BY <1>2, <2>3 DEF KeptArrives, Will
  <2> QED BY <2>1, <2>2, <2>3
<1>4. l # NoLayer
  BY DEF Layers, NoLayer, PieAssumption
<1>5. ASSUME NEW k \in Layers, k = l \/ \E j \in 1..Len(outQ) : outQ[j].layer = k
      PROVE  \E j \in 1..Len(outQ') : outQ'[j].layer = k
  BY <1>1, <1>2, <1>5
<1> QED BY <1>3, <1>4, <1>5 DEF CopyOutSafe, SwapOutAsync

\* While the buffers, the compute stream and the history stay, so does what the
\* kernels that wait there will find.
LEMMA KernelFrame ==
  ASSUME KeptArrives, AttendsSee, UNCHANGED <<compute, gpu, kept>>
  PROVE  KeptArrives' /\ AttendsSee'
BY DEF KeptArrives, AttendsSee, Will

LEMMA PastFrame ==
  ASSUME AttendsPast, UNCHANGED <<compute, layer, pass>>, pc # "end"
  PROVE  AttendsPast'
BY DEF AttendsPast

LEMMA CopyOutFrame ==
  ASSUME CopyOutSafe, UNCHANGED <<outQ, compute, gpu, kept>>
  PROVE  CopyOutSafe'
BY DEF CopyOutSafe, Will

LEMMA CopyInFrame ==
  ASSUME CopyInSafe, UNCHANGED <<inQ, cpu, kept>>
  PROVE  CopyInSafe'
BY DEF CopyInSafe

\* Storing a token: it is on its way behind everything that waits, and it is
\* kept only if no copy of its layer could miss it.
LEMMA StoreStep ==
  ASSUME PieAssumption, PieInv, StoreToken, writes
  PROVE  PieInv'
<1>0. TypeOK' /\ MaxPass \in Nat
  BY TypeStep DEF PieInv, Next, Host, PieAssumption
<1>1. /\ Len(compute) \in Nat /\ Len(compute') = Len(compute) + 1
      /\ \A i \in 1..Len(compute) : compute'[i] = compute[i]
      /\ compute'[Len(compute) + 1] = [kind |-> "store", layer |-> layer, token |-> pass]
  <2>1. Enqueue("store") /\ compute \in Seq(Kernels)
    BY DEF StoreToken, PieInv, TypeOK, Kernels
  <2> QED BY <2>1, EnqueueType, LenProperties DEF PieInv
<1>2. /\ layer \in Layers /\ pass \in 1..MaxPass
      /\ kept \in [Layers -> SUBSET Tokens]
      /\ compute \in Seq(Kernels) /\ inQ \in Seq(Copies) /\ outQ \in Seq(Copies)
  BY DEF PieInv, TypeOK, Kernels
<1>3. \A l \in Layers : \A t \in kept'[l] :
        t \in kept[l] \/ (t = pass /\ l = layer /\ AtRest(layer))
  BY <1>2 DEF StoreToken
<1>4. UNCHANGED <<status, slotIn, slotOut, inQ, outQ, gpu, cpu, layer, pass>>
  BY DEF StoreToken, engine, buffers
<1>5. \A l \in Layers : \A t : \A a, b \in Nat : a <= b /\ Will(l, t, a) => Will(l, t, b)'
  BY <1>1, <1>4, WillStays DEF PieInv
<1>6. Will(layer, pass, Len(compute))'
  <2>1. Len(compute') \in 1..Len(compute') /\ Len(compute') <= Len(compute')
    BY <1>1
  <2>2. compute'[Len(compute')] = [kind |-> "store", layer |-> layer', token |-> pass']
    BY <1>1, <1>4
  <2> QED BY <2>1, <2>2 DEF Will
<1>7. KeptArrives'
  <2> SUFFICES ASSUME NEW l \in Layers, NEW t \in kept'[l]
               PROVE  Will(l, t, Len(compute))'
    BY DEF KeptArrives
  <2>1. CASE t \in kept[l]
    BY <1>1, <1>5, <2>1 DEF PieInv, KeptArrives
  <2>2. CASE t = pass /\ l = layer
    BY <1>4, <1>6, <2>2
  <2> QED BY <1>3, <2>1, <2>2
<1>8. AttendsSee'
  <2> SUFFICES ASSUME NEW i \in 1..Len(compute'), compute'[i].kind = "attend",
                      NEW t \in kept'[compute'[i].layer], t <= compute'[i].token
               PROVE  Will(compute[i].layer, t, i)'
    BY DEF AttendsSee
  <2>1. i \in 1..Len(compute) /\ compute'[i] = compute[i]
    BY <1>1
  <2>2. compute[i] \in Kernels
    BY <1>2, <2>1, ElementOfSeq
  <2>3. compute[i].layer \in Layers /\ compute[i].token \in Tokens
    BY <2>2 DEF Kernels
  <2>4. ~(t = pass /\ compute[i].layer = layer)
    <3>1. pc # "end" /\ layer \in Int /\ pass \in Int /\ compute[i].token \in Int
      BY <1>0, <1>2, <2>3 DEF StoreToken, Layers, Tokens
    <3>2. \/ compute[i].token < pass
          \/ compute[i].token = pass /\ compute[i].layer < layer
      BY <2>1, <3>1 DEF PieInv, AttendsPast
    <3> QED BY <2>1, <3>1, <3>2
  <2>5. t \in kept[compute[i].layer]
    BY <1>3, <2>1, <2>3, <2>4
  <2>6. Will(compute[i].layer, t, i)
    BY <2>1, <2>5 DEF PieInv, AttendsSee
  <2> DEFINE k == compute[i].layer
  <2>7. Will(k, t, i) /\ k \in Layers /\ compute'[i].layer = k
    BY <2>1, <2>3, <2>6
  <2> HIDE DEF k
  <2>8. gpu' = gpu /\ i \in Nat /\ t \in gpu[k] => t \in gpu'[k]
    BY <1>4
  <2>9. CASE t \in gpu[k]
    BY <1>4, <2>7, <2>9 DEF Will
  <2>10. CASE t \notin gpu[k]
    <3>1. PICK h \in 1..Len(compute) : /\ h <= i
                                       /\ compute[h].kind = "store"
                                       /\ compute[h].layer = k
                                       /\ compute[h].token = t
      BY <2>7, <2>10 DEF Will
    <3> QED BY <1>1, <2>7, <3>1 DEF Will
  <2> QED BY <2>9, <2>10
<1>9. AttendsPast'
  <2> SUFFICES ASSUME NEW i \in 1..Len(compute'), compute'[i].kind = "attend"
               PROVE  \/ compute'[i].token < pass'
                      \/ compute'[i].token = pass' /\ (compute'[i].layer < layer' \/ pc' = "end")
    BY DEF AttendsPast
  <2>1. i \in 1..Len(compute) /\ compute'[i] = compute[i]
    BY <1>1
  <2> QED BY <1>4, <2>1 DEF PieInv, AttendsPast, StoreToken
<1>10. ASSUME NEW l \in Layers, AtRest(layer) => l # layer
       PROVE  kept'[l] = kept[l]
  BY <1>2, <1>10 DEF StoreToken
<1>11. CopyInSafe'
  <2> SUFFICES ASSUME NEW j \in 1..Len(inQ)
               PROVE  kept'[inQ[j].layer] \subseteq cpu[inQ[j].layer]
    BY <1>4 DEF CopyInSafe
  <2>1. inQ[j] \in Copies /\ DOMAIN inQ = 1..Len(inQ)
    BY <1>2, ElementOfSeq, LenProperties
  <2>2. inQ[j].layer \in Layers /\ (AtRest(layer) => inQ[j].layer # layer)
    BY <2>1 DEF Copies, AtRest
  <2> QED BY <1>10, <2>2 DEF PieInv, CopyInSafe
<1>12. CopyOutSafe'
  <2> SUFFICES ASSUME NEW j \in 1..Len(outQ), NEW t \in kept'[outQ[j].layer]
               PROVE  Will(outQ[j].layer, t, outQ[j].after)'
    BY <1>4 DEF CopyOutSafe
  <2>1. outQ[j] \in Copies /\ DOMAIN outQ = 1..Len(outQ)
    BY <1>2, ElementOfSeq, LenProperties
  <2>2. outQ[j].layer \in Layers /\ (AtRest(layer) => outQ[j].layer # layer) /\ outQ[j].after \in Nat
    BY <2>1 DEF Copies, AtRest
  <2>3. Will(outQ[j].layer, t, outQ[j].after)
    BY <1>10, <2>2 DEF PieInv, CopyOutSafe
  <2> DEFINE k == outQ[j].layer
             a == outQ[j].after
  <2>4. k \in Layers /\ a \in Nat /\ Will(k, t, a) /\ outQ'[j].layer = k /\ outQ'[j].after = a
    BY <1>4, <2>2, <2>3
  <2> HIDE DEF k, a
  <2>5. CASE t \in gpu[k]
    BY <1>4, <2>4, <2>5 DEF Will
  <2>6. CASE t \notin gpu[k]
    <3>1. PICK h \in 1..Len(compute) : /\ h <= a
                                       /\ compute[h].kind = "store"
                                       /\ compute[h].layer = k
                                       /\ compute[h].token = t
      BY <2>4, <2>6 DEF Will
    <3> QED BY <1>1, <2>4, <3>1 DEF Will
  <2> QED BY <2>5, <2>6
<1>13. EvictedSaved'
  <2> SUFFICES ASSUME NEW l \in Layers, status[l] = "out" \/ slotOut = l
               PROVE  kept'[l] \subseteq cpu[l] \/ \E j \in 1..Len(outQ) : outQ[j].layer = l
    BY <1>4 DEF EvictedSaved
  <2>1. AtRest(layer) => l # layer
    BY DEF AtRest
  <2> QED BY <1>10, <2>1 DEF PieInv, EvictedSaved
<1>14. HostCopyComplete'
  <2> SUFFICES ASSUME NEW l \in Layers, status[l] = "cpu"
               PROVE  kept'[l] \subseteq cpu[l]
    BY <1>4 DEF HostCopyComplete
  <2>1. AtRest(layer) => l # layer
    BY DEF AtRest
  <2> QED BY <1>10, <2>1 DEF PieInv, HostCopyComplete
<1>15. EmptySlotIsIdle'
  BY <1>4 DEF PieInv, EmptySlotIsIdle
<1> QED BY <1>0, <1>7, <1>8, <1>9, <1>11, <1>12, <1>13, <1>14, <1>15 DEF PieInv

\* Polling: a layer becomes "in host memory" only when its copy out has run.
LEMMA PollStep ==
  ASSUME PieAssumption, PieInv, Poll
  PROVE  PieInv'
<1>0. TypeOK' /\ pc # "end"
  BY TypeStep DEF PieInv, Next, Host, Poll
<1>1. UNCHANGED <<inQ, outQ, compute, gpu, cpu, layer, pass, kept>>
  BY DEF Poll, buffers
<1>2. KeptArrives' /\ AttendsSee' /\ AttendsPast' /\ CopyInSafe' /\ CopyOutSafe'
  BY <1>0, <1>1, KernelFrame, PastFrame, CopyInFrame, CopyOutFrame DEF PieInv
<1>3. ASSUME NEW l \in Layers
      PROVE  /\ status'[l] = "cpu" => status[l] = "cpu" \/ (OutDone /\ slotOut = l)
             /\ status'[l] = "out" => status[l] = "out"
  BY DEF Poll, PieInv, TypeOK, Layers, NoLayer
<1>4. OutDone => outQ = <<>>
  BY DEF OutDone, PieInv, EmptySlotIsIdle
<1>5. OutDone => Len(outQ) = 0
  BY <1>4
<1>6. HostCopyComplete'
  BY <1>1, <1>3, <1>5 DEF HostCopyComplete, EvictedSaved, PieInv
<1>7. EvictedSaved'
  <2>1. slotOut' = slotOut \/ slotOut' = NoLayer
    BY DEF Poll
  <2>2. NoLayer \notin Layers
    BY DEF Layers, NoLayer, PieAssumption
  <2> QED BY <1>1, <1>3, <2>1, <2>2 DEF EvictedSaved, PieInv
<1>8. EmptySlotIsIdle'
  BY <1>1 DEF EmptySlotIsIdle, PieInv, Poll, InDone, OutDone
<1> QED BY <1>0, <1>2, <1>6, <1>7, <1>8 DEF PieInv

LEMMA EvictStep ==
  ASSUME PieAssumption, PieInv, Evict
  PROVE  PieInv'
<1>0. TypeOK' /\ TypeOK /\ pc # "end"
  BY TypeStep DEF PieInv, Next, Host, Evict
<1>1. UNCHANGED <<slotIn, inQ, compute, gpu, cpu, layer, pass, kept>>
  BY DEF Evict, buffers
<1>2. KeptArrives' /\ AttendsSee' /\ AttendsPast' /\ CopyInSafe'
  BY <1>0, <1>1, KernelFrame, PastFrame, CopyInFrame DEF PieInv
<1>3. CASE \E l \in ColdestGpuLayer : SwapOutAsync(l) /\ status' = [status EXCEPT ![l] = "out"] /\ UNCHANGED idle
  <2>1. PICK l \in Layers : SwapOutAsync(l) /\ status' = [status EXCEPT ![l] = "out"]
    BY <1>3 DEF ColdestGpuLayer, ColdCandidates
  <2>2. /\ CopyOutSafe' /\ slotOut' # NoLayer
        /\ \A k \in Layers :
             (k = l \/ \E j \in 1..Len(outQ) : outQ[j].layer = k)
               => \E j \in 1..Len(outQ') : outQ'[j].layer = k
    BY <1>1, <2>1, IssueOut DEF PieInv
  <2>3. slotOut' = l
    BY <2>1 DEF SwapOutAsync
  <2>4. \A k \in Layers : k # l => status'[k] = status[k]
    BY <1>0, <2>1 DEF TypeOK
  <2>5. EvictedSaved'
    <3> SUFFICES ASSUME NEW k \in Layers, status'[k] = "out" \/ slotOut' = k
                 PROVE  \/ kept'[k] \subseteq cpu'[k]
                        \/ \E j \in 1..Len(outQ') : outQ'[j].layer = k
      BY DEF EvictedSaved
    <3>1. CASE k = l
      BY <2>2, <3>1
    <3>2. CASE k # l
      BY <1>1, <2>2, <2>3, <2>4, <3>2 DEF EvictedSaved, PieInv
    <3> QED BY <3>1, <3>2
  <2>6. HostCopyComplete'
    BY <1>0, <1>1, <2>1 DEF HostCopyComplete, PieInv, TypeOK
  <2>7. EmptySlotIsIdle'
    BY <1>1, <2>2 DEF EmptySlotIsIdle, PieInv
  <2> QED BY <1>0, <1>2, <2>2, <2>5, <2>6, <2>7 DEF PieInv
<1>4. CASE UNCHANGED <<status, slotOut, outQ>>
  <2>1. CopyOutSafe'
    BY <1>1, <1>4, CopyOutFrame DEF PieInv
  <2>2. EvictedSaved' /\ HostCopyComplete' /\ EmptySlotIsIdle'
    BY <1>1, <1>4 DEF EvictedSaved, HostCopyComplete, EmptySlotIsIdle, PieInv
  <2> QED BY <1>0, <1>2, <2>1, <2>2 DEF PieInv
<1> QED BY <1>3, <1>4, Zenon DEF Evict

\* Issuing a copy in for a layer whose host copy is complete, in step 4 or 5.
LEMMA FetchInv ==
  ASSUME PieAssumption, PieInv, TypeOK', NEW l \in Layers, SwapInAsync(l),
         kept[l] \subseteq cpu[l],
         status' = [status EXCEPT ![l] = "in"], pc # "end",
         UNCHANGED <<outQ, compute, gpu, cpu, layer, pass, kept>>,
         slotOut' = slotOut \/ (slotOut' = NoLayer /\ outQ = <<>>)
  PROVE  PieInv'
<1>1. TypeOK /\ NoLayer \notin Layers
  BY DEF PieInv, Layers, NoLayer, PieAssumption
<1>2. KeptArrives' /\ AttendsSee' /\ AttendsPast' /\ CopyOutSafe'
  BY KernelFrame, PastFrame, CopyOutFrame DEF PieInv
<1>3. CopyInSafe' /\ slotIn' # NoLayer
  BY IssueIn DEF PieInv
<1>4. EvictedSaved' /\ HostCopyComplete'
  <2>1. \A k \in Layers : status'[k] = IF k = l THEN "in" ELSE status[k]
    BY <1>1 DEF TypeOK
  <2>2. \A k \in Layers : status'[k] = "out" => status[k] = "out"
    BY <2>1
  <2>3. \A k \in Layers : slotOut' = k => slotOut = k
    BY <1>1
  <2>4. EvictedSaved'
    BY <2>2, <2>3 DEF EvictedSaved, PieInv
  <2>5. HostCopyComplete'
    BY <2>1 DEF HostCopyComplete, PieInv
  <2> QED BY <2>4, <2>5
<1>5. EmptySlotIsIdle'
  BY <1>3 DEF EmptySlotIsIdle, PieInv
<1> QED BY <1>2, <1>3, <1>4, <1>5 DEF PieInv

LEMMA FetchStep ==
  ASSUME PieAssumption, PieInv, Fetch
  PROVE  PieInv'
<1>0. TypeOK' /\ TypeOK /\ pc # "end"
  BY TypeStep DEF PieInv, Next, Host, Fetch
<1>1. UNCHANGED <<slotOut, outQ, compute, gpu, cpu, layer, pass, kept>>
  BY DEF Fetch, buffers
<1>3. CASE \E l \in HottestCpuLayer : SwapInAsync(l) /\ status' = [status EXCEPT ![l] = "in"] /\ UNCHANGED idle
  <2>1. PICK l \in Layers : /\ SwapInAsync(l) /\ status' = [status EXCEPT ![l] = "in"]
                            /\ status[l] = "cpu"
    BY <1>3 DEF HottestCpuLayer, HotCandidates
  <2>2. kept[l] \subseteq cpu[l]
    BY <2>1 DEF HostCopyComplete, PieInv
  <2> QED BY <1>0, <1>1, <2>1, <2>2, FetchInv
<1>4. CASE UNCHANGED <<status, slotIn, inQ>>
  <2>1. KeptArrives' /\ AttendsSee' /\ AttendsPast' /\ CopyInSafe' /\ CopyOutSafe'
    BY <1>0, <1>1, <1>4, KernelFrame, PastFrame, CopyInFrame, CopyOutFrame DEF PieInv
  <2>2. EvictedSaved' /\ HostCopyComplete' /\ EmptySlotIsIdle'
    BY <1>1, <1>4 DEF EvictedSaved, HostCopyComplete, EmptySlotIsIdle, PieInv
  <2> QED BY <1>0, <2>1, <2>2 DEF PieInv
<1> QED BY <1>3, <1>4, Zenon DEF Fetch

LEMMA EnsureStep ==
  ASSUME PieAssumption, PieInv, Ensure
  PROVE  PieInv'
<1>0. TypeOK' /\ TypeOK /\ pc # "end" /\ layer \in Layers
  BY TypeStep DEF PieInv, Next, Host, Ensure, EnsureResident, AwaitArrival, FetchNow,
                  FetchEvicted, TypeOK
<1>1. UNCHANGED <<outQ, compute, gpu, cpu, layer, pass, kept>>
  BY DEF Ensure, EnsureResident, AwaitArrival, FetchNow, FetchEvicted, buffers, engine, host
<1>2. CASE EnsureResident \/ AwaitArrival
  <2>1. UNCHANGED <<inQ, slotOut>>
    BY <1>2 DEF EnsureResident, AwaitArrival, engine
  <2>2. KeptArrives' /\ AttendsSee' /\ AttendsPast' /\ CopyInSafe' /\ CopyOutSafe'
    BY <1>0, <1>1, <2>1, KernelFrame, PastFrame, CopyInFrame, CopyOutFrame DEF PieInv
  <2>3. \A l \in Layers : status'[l] = status[l] \/ status'[l] = "gpu"
    BY <1>0, <1>2 DEF EnsureResident, AwaitArrival, TypeOK
  <2>4. EvictedSaved' /\ HostCopyComplete'
    BY <1>1, <2>1, <2>3 DEF EvictedSaved, HostCopyComplete, PieInv
  <2>5. EmptySlotIsIdle'
    BY <1>1, <1>2, <2>1
       DEF EmptySlotIsIdle, PieInv, EnsureResident, AwaitArrival, InDone, engine
  <2> QED BY <1>0, <2>2, <2>4, <2>5 DEF PieInv
<1>3. CASE FetchNow
  <2>1. kept[layer] \subseteq cpu[layer]
    BY <1>0, <1>3 DEF FetchNow, HostCopyComplete, PieInv
  <2>2. /\ SwapInAsync(layer) /\ status' = [status EXCEPT ![layer] = "in"]
        /\ slotOut' = slotOut
    BY <1>3 DEF FetchNow
  <2> QED BY <1>0, <1>1, <2>1, <2>2, FetchInv
<1>4. CASE FetchEvicted
  <2>1. /\ SwapInAsync(layer) /\ status' = [status EXCEPT ![layer] = "in"]
        /\ slotOut' = NoLayer /\ outQ = <<>> /\ status[layer] = "out"
    BY <1>4 DEF FetchEvicted
  <2>2. Len(outQ) = 0
    BY <2>1
  <2>3. kept[layer] \subseteq cpu[layer]
    BY <1>0, <2>1, <2>2 DEF EvictedSaved, PieInv
  <2> QED BY <1>0, <1>1, <2>1, <2>3, FetchInv
<1> QED BY <1>2, <1>3, <1>4 DEF Ensure

\* Putting the attention kernel behind the stores its layer kept.
LEMMA AttendStep ==
  ASSUME PieAssumption, PieInv, Attend
  PROVE  PieInv'
<1>0. /\ TypeOK' /\ TypeOK /\ layer \in Layers /\ pass \in 1..MaxPass /\ NumLayers \in Nat
      /\ compute \in Seq(Kernels) /\ outQ \in Seq(Copies)
  BY TypeStep DEF PieInv, Next, Host, TypeOK, PieAssumption, Kernels
<1>1. UNCHANGED <<status, slotIn, slotOut, inQ, outQ, gpu, cpu, pass, kept>>
  BY DEF Attend, buffers, engine
<1>2. /\ Len(compute) \in Nat /\ Len(compute') = Len(compute) + 1
      /\ \A i \in 1..Len(compute) : compute'[i] = compute[i]
      /\ compute'[Len(compute) + 1] = [kind |-> "attend", layer |-> layer, token |-> pass]
  <2>1. Enqueue("attend")
    BY DEF Attend
  <2> QED BY <1>0, <2>1, EnqueueType, LenProperties
<1>3. \A l \in Layers : \A t : \A a, b \in Nat : a <= b /\ Will(l, t, a) => Will(l, t, b)'
  BY <1>0, <1>1, <1>2, WillStays
<1>4. KeptArrives'
  BY <1>1, <1>2, <1>3 DEF KeptArrives, PieInv
<1>5. AttendsSee'
  <2> SUFFICES ASSUME NEW i \in 1..Len(compute'), compute'[i].kind = "attend",
                      NEW l, l = compute'[i].layer, NEW t \in kept[l], t <= compute'[i].token
               PROVE  Will(l, t, i)'
    BY <1>1 DEF AttendsSee
  <2>1. CASE i \in 1..Len(compute)
    <3>1. compute[i] \in Kernels /\ compute'[i] = compute[i]
      BY <1>0, <1>2, <2>1, ElementOfSeq
    <3>2. l \in Layers /\ Will(l, t, i)
      BY <2>1, <3>1 DEF AttendsSee, PieInv, Kernels
    <3> QED BY <1>3, <2>1, <3>2
  <2>2. CASE i = Len(compute) + 1
    <3>1. l = layer /\ Will(l, t, Len(compute))
      BY <1>0, <1>2, <2>2 DEF KeptArrives, PieInv
    <3> QED BY <1>0, <1>2, <1>3, <2>2, <3>1
  <2> QED BY <1>2, <2>1, <2>2
<1>6. AttendsPast'
  <2> SUFFICES ASSUME NEW i \in 1..Len(compute'), compute'[i].kind = "attend"
               PROVE  \/ compute'[i].token < pass
                      \/ compute'[i].token = pass /\ (compute'[i].layer < layer' \/ pc' = "end")
    BY <1>1 DEF AttendsPast
  <2>1. pc # "end" /\ layer \in Int /\ (pc' = "end" \/ layer' = layer + 1)
    BY <1>0 DEF Attend, Layers
  <2>2. CASE i \in 1..Len(compute)
    <3>1. compute[i] \in Kernels /\ compute'[i] = compute[i]
      BY <1>0, <1>2, <2>2, ElementOfSeq
    <3>2. compute[i].layer \in Int
      BY <1>0, <3>1 DEF Kernels, Layers
    <3>3. \/ compute[i].token < pass
          \/ compute[i].token = pass /\ compute[i].layer < layer
      BY <2>1, <2>2, <3>1 DEF AttendsPast, PieInv
    <3> QED BY <2>1, <3>1, <3>2, <3>3
  <2>3. CASE i = Len(compute) + 1
    BY <1>2, <2>1, <2>3
  <2> QED BY <1>2, <2>2, <2>3
<1>7. CopyOutSafe'
  <2> SUFFICES ASSUME NEW j \in 1..Len(outQ), NEW t \in kept[outQ[j].layer]
               PROVE  Will(outQ[j].layer, t, outQ[j].after)'
    BY <1>1 DEF CopyOutSafe
  <2>0. outQ[j] \in Copies
    BY <1>0, ElementOfSeq
  <2>1. /\ outQ[j].layer \in Layers /\ outQ[j].after \in Nat
    BY <2>0 DEF Copies
  <2>2. Will(outQ[j].layer, t, outQ[j].after)
    BY DEF CopyOutSafe, PieInv
  <2> DEFINE k == outQ[j].layer
             a == outQ[j].after
  <2>3. k \in Layers /\ a \in Nat /\ a <= a /\ Will(k, t, a) /\ outQ'[j].layer = k /\ outQ'[j].after = a
    BY <1>1, <2>1, <2>2
  <2> HIDE DEF k, a
  <2>4. CASE t \in gpu[k]
    BY <1>1, <2>3, <2>4 DEF Will
  <2>5. CASE t \notin gpu[k]
    <3>1. PICK h \in 1..Len(compute) : /\ h <= a
                                       /\ compute[h].kind = "store"
                                       /\ compute[h].layer = k
                                       /\ compute[h].token = t
      BY <2>3, <2>5 DEF Will
    <3> QED BY <1>2, <2>3, <3>1 DEF Will
  <2> QED BY <2>4, <2>5
<1>8. CopyInSafe' /\ EvictedSaved' /\ HostCopyComplete' /\ EmptySlotIsIdle'
  BY <1>1 DEF CopyInSafe, EvictedSaved, HostCopyComplete, EmptySlotIsIdle, PieInv
<1> QED BY <1>0, <1>4, <1>5, <1>6, <1>7, <1>8 DEF PieInv

\* A reallocation copies what the GPU has, with no kernel waiting.
LEMMA PassStep ==
  ASSUME PieAssumption, PieInv, PassComplete
  PROVE  PieInv'
<1>0. /\ TypeOK' /\ TypeOK /\ pass \in 1..MaxPass /\ NumLayers \in Nat /\ MaxPass \in Nat
      /\ compute \in Seq(Kernels) /\ inQ \in Seq(Copies)
  BY TypeStep DEF PieInv, Next, Host, TypeOK, PieAssumption, Kernels
<1>1. UNCHANGED <<slotIn, slotOut, inQ, outQ, compute, gpu, layer, kept>>
  BY DEF PassComplete, engine
<1>2. KeptArrives' /\ AttendsSee' /\ CopyOutSafe'
  BY <1>1, KernelFrame, CopyOutFrame DEF PieInv
<1>3. AttendsPast'
  <2> SUFFICES ASSUME NEW i \in 1..Len(compute), compute[i].kind = "attend"
               PROVE  compute[i].token < pass'
    BY <1>1 DEF AttendsPast
  <2>1. compute[i].token < pass \/ compute[i].token = pass
    BY DEF AttendsPast, PieInv
  <2>0. compute[i] \in Kernels
    BY <1>0, ElementOfSeq
  <2>2. compute[i].token \in Int
    BY <1>0, <2>0 DEF Kernels, Tokens
  <2> QED BY <1>0, <2>1, <2>2 DEF PassComplete
<1>4. EmptySlotIsIdle'
  BY <1>1 DEF EmptySlotIsIdle, PieInv
<1>5. PICK newM \in Decisions : IF newM = m THEN UNCHANGED <<status, cpu>> ELSE Realloc(newM)
  BY DEF PassComplete
<1>6. CASE newM = m
  <2>1. UNCHANGED <<status, cpu>>
    BY <1>5, <1>6
  <2>2. CopyInSafe' /\ EvictedSaved' /\ HostCopyComplete'
    BY <1>1, <2>1 DEF CopyInSafe, EvictedSaved, HostCopyComplete, PieInv
  <2> QED BY <1>0, <1>2, <1>3, <1>4, <2>2 DEF PieInv
<1>7. CASE newM # m
  <2>1. Realloc(newM) /\ newM \in 0..(NumLayers - 2)
    BY <1>0, <1>5, <1>7, DecisionsInRange
  <2>2. \A l \in Layers : status'[l] = IF l < NumLayers - newM THEN "gpu" ELSE "cpu"
    BY <2>1 DEF Realloc, FreshMapping
  <2>3. \A l \in Layers : status'[l] = "cpu" => newM > 0
    BY <1>0, <2>1, <2>2 DEF Layers
  <2>4. \A l \in Layers : status'[l] = "cpu" => compute = <<>> /\ cpu'[l] = gpu[l]
    BY <2>1, <2>3 DEF Realloc
  <2>5. \A l \in Layers : status'[l] = "cpu" => kept[l] \subseteq cpu'[l]
    <3> SUFFICES ASSUME NEW l \in Layers, status'[l] = "cpu", NEW t \in kept[l]
                 PROVE  t \in gpu[l]
      BY <2>4
    <3>1. Len(compute) = 0
      BY <2>4
    <3> QED BY <3>1 DEF KeptArrives, Will, PieInv
  <2>6. \A l \in Layers : status'[l] # "cpu" => cpu'[l] = cpu[l]
    BY <2>1 DEF Realloc
  <2>7. \A l \in Layers : kept[l] \subseteq cpu[l] => kept[l] \subseteq cpu'[l]
    BY <2>5, <2>6
  <2>8. HostCopyComplete'
    BY <1>1, <2>5 DEF HostCopyComplete
  <2>9. EvictedSaved'
    <3>1. \A l \in Layers : status'[l] # "out"
      BY <2>2
    <3> QED BY <1>1, <2>7, <3>1 DEF EvictedSaved, PieInv
  <2>10. CopyInSafe'
    <3> SUFFICES ASSUME NEW j \in 1..Len(inQ)
                 PROVE  kept[inQ[j].layer] \subseteq cpu'[inQ[j].layer]
      BY <1>1 DEF CopyInSafe
    <3>0. inQ[j] \in Copies
      BY <1>0, ElementOfSeq
    <3>1. inQ[j].layer \in Layers
      BY <3>0 DEF Copies
    <3> QED BY <2>7, <3>1 DEF CopyInSafe, PieInv
  <2> QED BY <1>0, <1>2, <1>3, <1>4, <2>8, <2>9, <2>10 DEF PieInv
<1> QED BY <1>6, <1>7

\* The first waiting kernel runs: every wait is one shorter, and what was to be
\* stored by it is stored.
LEMMA RunStep ==
  ASSUME PieAssumption, PieInv, RunKernel
  PROVE  PieInv'
<1>0. /\ TypeOK' /\ TypeOK
      /\ compute \in Seq(Kernels) /\ inQ \in Seq(Copies) /\ outQ \in Seq(Copies)
      /\ gpu \in [Layers -> SUBSET Tokens]
  BY TypeStep DEF PieInv, Next, TypeOK, Kernels
<1>1. UNCHANGED <<status, slotIn, slotOut, cpu, pc, layer, pass, kept>>
  BY DEF RunKernel, host
<1>2. /\ Len(compute) \in Nat /\ Len(compute) >= 1 /\ Len(compute') = Len(compute) - 1
      /\ Head(compute) = compute[1] /\ compute[1] \in Kernels
      /\ \A i \in 1..Len(compute') : compute'[i] = compute[i + 1]
  BY <1>0, TailType DEF RunKernel
<1>3. /\ \A l \in Layers : gpu[l] \subseteq gpu'[l]
      /\ compute[1].kind = "store" => compute[1].token \in gpu'[compute[1].layer]
  BY <1>0, <1>2 DEF RunKernel, Kernels
<1>4. ASSUME NEW l \in Layers, NEW t, NEW a \in Nat, NEW b \in Nat, Will(l, t, a), b >= a - 1
      PROVE  Will(l, t, b)'
  <2>1. CASE t \in gpu[l]
    BY <1>3, <2>1 DEF Will
  <2>2. CASE t \notin gpu[l]
    <3>1. PICK i \in 1..Len(compute) : /\ i <= a
                                       /\ compute[i].kind = "store"
                                       /\ compute[i].layer = l
                                       /\ compute[i].token = t
      BY <1>4, <2>2 DEF Will
    <3>2. CASE i = 1
      BY <1>3, <3>1, <3>2 DEF Will
    <3>3. CASE i > 1
      <4>1. i - 1 \in 1..Len(compute') /\ i - 1 <= b /\ compute'[i - 1] = compute[i]
        BY <1>2, <1>4, <3>1, <3>3
      <4> QED BY <3>1, <4>1 DEF Will
    <3> QED BY <1>2, <3>2, <3>3
  <2> QED BY <2>1, <2>2
<1>5. KeptArrives'
  <2> SUFFICES ASSUME NEW l \in Layers, NEW t \in kept[l]
               PROVE  Will(l, t, Len(compute))'
    BY <1>1 DEF KeptArrives
  <2>1. Will(l, t, Len(compute))
    BY DEF KeptArrives, PieInv
  <2>2. Len(compute') \in Nat /\ Len(compute') >= Len(compute) - 1
    BY <1>2
  <2> DEFINE b == Len(compute')
  <2>3. b \in Nat /\ b >= Len(compute) - 1
    BY <2>2
  <2>4. \A c \in Nat : c >= Len(compute) - 1 => Will(l, t, c)'
    BY <1>2, <1>4, <2>1
  <2> QED BY <2>3, <2>4 DEF Will
<1>6. AttendsSee'
  <2> SUFFICES ASSUME NEW i \in 1..Len(compute'), compute'[i].kind = "attend",
                      NEW l, l = compute'[i].layer, NEW t \in kept[l], t <= compute'[i].token
               PROVE  Will(l, t, i)'
    BY <1>1 DEF AttendsSee
  <2>1. i + 1 \in 1..Len(compute) /\ compute'[i] = compute[i + 1]
    BY <1>2
  <2>2. compute[i + 1] \in Kernels
    BY <1>0, <2>1, ElementOfSeq
  <2>3. l \in Layers /\ Will(l, t, i + 1)
    BY <2>1, <2>2 DEF AttendsSee, PieInv, Kernels
  <2> QED BY <1>4, <2>3
<1>7. AttendsPast'
  BY <1>1, <1>2 DEF AttendsPast, PieInv
<1>8. CopyInSafe'
  <2>1. /\ Len(inQ') = Len(inQ)
        /\ \A j \in 1..Len(inQ) : inQ'[j].layer = inQ[j].layer
    BY <1>0, NearerProperties DEF RunKernel
  <2> QED BY <1>1, <2>1 DEF CopyInSafe, PieInv
<1>9. /\ Len(outQ') = Len(outQ)
      /\ \A j \in 1..Len(outQ) :
           /\ outQ'[j].layer = outQ[j].layer
           /\ outQ'[j].after = IF outQ[j].after > 0 THEN outQ[j].after - 1 ELSE 0
  BY <1>0, NearerProperties DEF RunKernel
<1>10. CopyOutSafe'
  <2> SUFFICES ASSUME NEW j \in 1..Len(outQ'), NEW t \in kept'[outQ'[j].layer]
               PROVE  Will(outQ[j].layer, t, outQ[j].after)'
    BY DEF CopyOutSafe
  <2>1. /\ j \in 1..Len(outQ) /\ outQ'[j].layer = outQ[j].layer
        /\ t \in kept[outQ[j].layer]
    BY <1>1, <1>9
  <2>2. outQ[j].layer \in Layers /\ outQ[j].after \in Nat
    <3>1. outQ[j] \in Copies
      BY <1>0, <2>1, ElementOfSeq
    <3> QED BY <3>1 DEF Copies
  <2>3. outQ'[j].after \in Nat /\ outQ'[j].after >= outQ[j].after - 1
    BY <1>9, <2>1, <2>2
  <2>4. Will(outQ[j].layer, t, outQ[j].after)
    BY <2>1 DEF CopyOutSafe, PieInv
  <2>5. PICK k \in Layers, a \in Nat : k = outQ[j].layer /\ a = outQ[j].after
    BY <2>2
  <2>6. PICK b \in Nat : b = outQ'[j].after
    BY <2>3
  <2>7. Will(k, t, b)'
    BY <1>4, <2>3, <2>4, <2>5, <2>6
  <2> QED BY <2>1, <2>5, <2>6, <2>7 DEF Will
<1>11. EvictedSaved' /\ HostCopyComplete'
  BY <1>1, <1>9 DEF EvictedSaved, HostCopyComplete, PieInv
<1>12. EmptySlotIsIdle'
  BY <1>0, <1>1, NearerProperties DEF EmptySlotIsIdle, PieInv, RunKernel
<1> QED BY <1>0, <1>5, <1>6, <1>7, <1>8, <1>10, <1>11, <1>12 DEF PieInv

\* A copy in gives its layer everything it kept.
LEMMA CopyInStep ==
  ASSUME PieAssumption, PieInv, CopyIn
  PROVE  PieInv'
<1>0. /\ TypeOK' /\ TypeOK /\ pc' = pc
      /\ inQ \in Seq(Copies) /\ gpu \in [Layers -> SUBSET Tokens] /\ inQ # <<>>
  BY TypeStep DEF PieInv, Next, TypeOK, CopyIn, Ready, host
<1>1. UNCHANGED <<status, slotIn, slotOut, outQ, compute, cpu, layer, pass, kept>>
  BY DEF CopyIn, host
<1>2. /\ Len(inQ) \in Nat /\ Len(inQ) >= 1 /\ Len(inQ') = Len(inQ) - 1
      /\ Head(inQ) = inQ[1] /\ inQ[1] \in Copies
      /\ \A j \in 1..Len(inQ') : inQ'[j] = inQ[j + 1]
  BY <1>0, TailType DEF CopyIn
<1>3. \A l \in Layers : gpu'[l] = IF l = inQ[1].layer THEN cpu[l] ELSE gpu[l]
  BY <1>0, <1>2 DEF CopyIn, Copies
<1>4. \A l \in Layers : \A t \in kept[l] : t \in gpu[l] => t \in gpu'[l]
  BY <1>2, <1>3 DEF CopyInSafe, PieInv
<1>5. \A l \in Layers : \A t \in kept[l] : \A a : Will(l, t, a) => Will(l, t, a)'
  BY <1>1, <1>4 DEF Will
<1>6. KeptArrives'
  BY <1>1, <1>5 DEF KeptArrives, PieInv, Will
<1>7. AttendsSee'
  <2> SUFFICES ASSUME NEW i \in 1..Len(compute), compute[i].kind = "attend",
                      NEW l, l = compute[i].layer, NEW t \in kept[l], t <= compute[i].token
               PROVE  Will(l, t, i)'
    BY <1>1 DEF AttendsSee
  <2>1. compute \in Seq(Kernels)
    BY <1>0 DEF TypeOK, Kernels
  <2>2. compute[i] \in Kernels
    BY <2>1, ElementOfSeq
  <2>3. l \in Layers /\ Will(l, t, i)
    BY <2>2 DEF AttendsSee, PieInv, Kernels
  <2> QED BY <1>5, <2>3
<1>8. AttendsPast'
  BY <1>0, <1>1 DEF AttendsPast, PieInv
<1>9. CopyInSafe'
  <2> SUFFICES ASSUME NEW j \in 1..Len(inQ')
               PROVE  kept[inQ'[j].layer] \subseteq cpu[inQ'[j].layer]
    BY <1>1 DEF CopyInSafe
  <2>1. j + 1 \in 1..Len(inQ) /\ inQ'[j] = inQ[j + 1]
    BY <1>2
  <2> QED BY <2>1 DEF CopyInSafe, PieInv
<1>10. CopyOutSafe'
  <2> SUFFICES ASSUME NEW j \in 1..Len(outQ), NEW k, k = outQ[j].layer, NEW t \in kept[k],
                      NEW a, a = outQ[j].after
               PROVE  Will(k, t, a)'
    BY <1>1 DEF CopyOutSafe, Will
  <2>1. outQ \in Seq(Copies)
    BY <1>0 DEF TypeOK
  <2>2. outQ[j] \in Copies
    BY <2>1, ElementOfSeq
  <2>3. k \in Layers /\ Will(k, t, a)
    BY <2>2 DEF Copies, CopyOutSafe, PieInv
  <2> QED BY <1>5, <2>3
<1>11. EvictedSaved' /\ HostCopyComplete'
  BY <1>1 DEF EvictedSaved, HostCopyComplete, PieInv
<1>12. EmptySlotIsIdle'
  BY <1>0, <1>1 DEF EmptySlotIsIdle, PieInv
<1> QED BY <1>0, <1>6, <1>7, <1>8, <1>9, <1>10, <1>11, <1>12 DEF PieInv

\* A copy out runs when the stores it waited for have run, and saves them.
LEMMA CopyOutStep ==
  ASSUME PieAssumption, PieInv, CopyOut
  PROVE  PieInv'
<1>0. /\ TypeOK' /\ TypeOK /\ pc' = pc
      /\ outQ \in Seq(Copies) /\ inQ \in Seq(Copies)
      /\ cpu \in [Layers -> SUBSET Tokens] /\ outQ # <<>>
  BY TypeStep DEF PieInv, Next, TypeOK, CopyOut, Ready, host
<1>1. UNCHANGED <<status, slotIn, slotOut, inQ, compute, gpu, layer, pass, kept>>
  BY DEF CopyOut, host
<1>2. /\ Len(outQ) \in Nat /\ Len(outQ) >= 1 /\ Len(outQ') = Len(outQ) - 1
      /\ Head(outQ) = outQ[1] /\ outQ[1] \in Copies
      /\ \A j \in 1..Len(outQ') : outQ'[j] = outQ[j + 1]
  BY <1>0, TailType DEF CopyOut
<1>3. /\ outQ[1].after = 0 /\ outQ[1].layer \in Layers
      /\ \A l \in Layers : cpu'[l] = IF l = outQ[1].layer THEN gpu[l] ELSE cpu[l]
  BY <1>0, <1>2 DEF CopyOut, Ready, Copies
<1>4. kept[outQ[1].layer] \subseteq gpu[outQ[1].layer]
  <2> SUFFICES ASSUME NEW t \in kept[outQ[1].layer]
               PROVE  t \in gpu[outQ[1].layer]
    OBVIOUS
  <2>1. Will(outQ[1].layer, t, 0)
    BY <1>2, <1>3 DEF CopyOutSafe, PieInv
  <2> QED BY <2>1 DEF Will
<1>5. \A l \in Layers : l = outQ[1].layer \/ kept[l] \subseteq cpu[l] => kept[l] \subseteq cpu'[l]
  BY <1>3, <1>4
<1>6. KeptArrives' /\ AttendsSee'
  BY <1>1, KernelFrame DEF PieInv
<1>7. AttendsPast'
  BY <1>0, <1>1 DEF AttendsPast, PieInv
<1>8. CopyInSafe'
  <2> SUFFICES ASSUME NEW j \in 1..Len(inQ)
               PROVE  kept[inQ[j].layer] \subseteq cpu'[inQ[j].layer]
    BY <1>1 DEF CopyInSafe
  <2>1. inQ[j] \in Copies
    BY <1>0, ElementOfSeq
  <2>2. inQ[j].layer \in Layers
    BY <2>1 DEF Copies
  <2> QED BY <1>5, <2>2 DEF CopyInSafe, PieInv
<1>9. CopyOutSafe'
  <2> SUFFICES ASSUME NEW j \in 1..Len(outQ'), NEW k, k = outQ'[j].layer, NEW t \in kept[k],
                      NEW a, a = outQ'[j].after
               PROVE  Will(k, t, a)'
    BY <1>1 DEF CopyOutSafe, Will
  <2>1. j + 1 \in 1..Len(outQ) /\ outQ'[j] = outQ[j + 1]
    BY <1>2
  <2>2. Will(k, t, a)
    BY <2>1 DEF CopyOutSafe, PieInv
  <2> QED BY <1>1, <2>2 DEF Will
<1>10. HostCopyComplete'
  BY <1>1, <1>5 DEF HostCopyComplete, PieInv
<1>11. EvictedSaved'
  <2> SUFFICES ASSUME NEW l \in Layers, status[l] = "out" \/ slotOut = l
               PROVE  kept[l] \subseteq cpu'[l] \/ \E j \in 1..Len(outQ') : outQ'[j].layer = l
    BY <1>1 DEF EvictedSaved
  <2>1. CASE kept[l] \subseteq cpu[l]
    BY <1>5, <2>1
  <2>2. CASE ~(kept[l] \subseteq cpu[l])
    <3>1. PICK j \in 1..Len(outQ) : outQ[j].layer = l
      BY <2>2 DEF EvictedSaved, PieInv
    <3>2. CASE j = 1
      BY <1>5, <3>1, <3>2
    <3>3. CASE j > 1
      <4>1. j - 1 \in 1..Len(outQ') /\ outQ'[j - 1] = outQ[j]
        BY <1>2, <3>3
      <4> QED BY <3>1, <4>1
    <3> QED BY <1>2, <3>2, <3>3
  <2> QED BY <2>1, <2>2
<1>12. EmptySlotIsIdle'
  BY <1>0, <1>1 DEF EmptySlotIsIdle, PieInv
<1> QED BY <1>0, <1>6, <1>7, <1>8, <1>9, <1>10, <1>11, <1>12 DEF PieInv

-----------------------------------------------------------------------------
(* Theorems *)

\* The table and the buffers as PieKVPool builds them satisfy the invariant.
THEOREM PieInit == PieAssumption /\ Init => PieInv
<1> SUFFICES ASSUME PieAssumption, Init PROVE PieInv
  OBVIOUS
<1>1. /\ NumLayers \in Nat /\ NumLayers >= 2 /\ MaxPass \in Nat /\ MaxPass >= 1
      /\ MaxAhead \in Nat /\ Offloaded \in 0..(NumLayers - 2)
  BY DEF PieAssumption
<1>2. /\ Len(compute) = 0 /\ Len(inQ) = 0 /\ Len(outQ) = 0
      /\ inQ \in Seq(Copies) /\ outQ \in Seq(Copies) /\ compute \in Seq(Kernels)
      /\ slotIn = NoLayer /\ slotOut = NoLayer
  BY EmptySeq DEF Init
<1>3. \A l \in Layers : /\ status[l] \in {"gpu", "cpu"} /\ kept[l] = {0} /\ gpu[l] = {0}
                        /\ status[l] = "cpu" => cpu[l] = {0}
  BY DEF Init, FreshMapping
<1>4. TypeOK
  <2>1. 0 \in Layers /\ 0 \in Tokens /\ 1 \in 1..MaxPass
    BY <1>1 DEF Layers, Tokens
  <2>2. status \in [Layers -> {"gpu", "cpu", "in", "out"}]
    BY DEF Init, FreshMapping
  <2>3. /\ gpu \in [Layers -> SUBSET Tokens] /\ cpu \in [Layers -> SUBSET Tokens]
        /\ kept \in [Layers -> SUBSET Tokens]
    BY <2>1 DEF Init
  <2> QED BY <1>1, <1>2, <2>1, <2>2, <2>3 DEF Init, TypeOK, Kernels
<1>5. EmptySlotIsIdle /\ AttendsSee /\ AttendsPast /\ CopyInSafe /\ CopyOutSafe
  BY <1>2 DEF Init, EmptySlotIsIdle, AttendsSee, AttendsPast, CopyInSafe, CopyOutSafe
<1>6. KeptArrives /\ HostCopyComplete
  BY <1>3 DEF KeptArrives, Will, HostCopyComplete
<1>7. EvictedSaved
  <2>1. NoLayer \notin Layers
    BY DEF Layers, NoLayer, PieAssumption
  <2> QED BY <1>2, <1>3, <2>1 DEF EvictedSaved
<1> QED BY <1>4, <1>5, <1>6, <1>7 DEF PieInv

\* Every step of the host and of the three streams keeps the invariant.
THEOREM PieStep == PieAssumption /\ PieInv /\ [Next]_vars => PieInv'
<1> SUFFICES ASSUME PieAssumption, PieInv, [Next]_vars PROVE PieInv'
  OBVIOUS
<1>1. CASE StoreToken
  <2>1. CASE writes
    BY <1>1, <2>1, StoreStep
  <2>2. CASE ~writes
    <3>1. /\ TypeOK' /\ pc # "end"
          /\ UNCHANGED <<status, slotIn, slotOut, inQ, outQ, compute, gpu, cpu, layer, pass, kept>>
      BY <1>1, <2>2, TypeStep DEF PieInv, StoreToken, engine, buffers
    <3>2. KeptArrives' /\ AttendsSee' /\ AttendsPast' /\ CopyInSafe' /\ CopyOutSafe'
      BY <3>1, KernelFrame, PastFrame, CopyInFrame, CopyOutFrame DEF PieInv
    <3>3. EvictedSaved' /\ HostCopyComplete' /\ EmptySlotIsIdle'
      BY <3>1 DEF EvictedSaved, HostCopyComplete, EmptySlotIsIdle, PieInv
    <3> QED BY <3>1, <3>2, <3>3 DEF PieInv
  <2> QED BY <2>1, <2>2
<1>2. CASE UNCHANGED vars
  <2>1. /\ TypeOK'
        /\ UNCHANGED <<status, slotIn, slotOut, inQ, outQ, compute, gpu, cpu, pc, layer, pass, kept>>
    BY <1>2, TypeStep DEF PieInv, vars, engine, buffers, host
  <2>2. KeptArrives' /\ AttendsSee' /\ CopyInSafe' /\ CopyOutSafe'
    BY <2>1, KernelFrame, CopyInFrame, CopyOutFrame DEF PieInv
  <2>3. AttendsPast' /\ EvictedSaved' /\ HostCopyComplete' /\ EmptySlotIsIdle'
    BY <2>1 DEF AttendsPast, EvictedSaved, HostCopyComplete, EmptySlotIsIdle, PieInv
  <2> QED BY <2>1, <2>2, <2>3 DEF PieInv
<1> QED BY <1>1, <1>2, PollStep, EvictStep, FetchStep, EnsureStep, AttendStep, PassStep,
           RunStep, CopyInStep, CopyOutStep DEF Next, Host

\* Types hold for every number of layers and passes; in particular the adaptive
\* controller never offloads all but one layer.
THEOREM PieTypes == Spec => []TypeOK
<1>1. PieInv => TypeOK
  BY DEF PieInv
<1> QED BY <1>1, PieInit, PieStep, PieAssumption, PTL DEF Spec

\* An empty slot of the swap engine means that its stream is idle, although a
\* slot is reused before anyone took note of the copy it named.
THEOREM SlotsTellTheTruth == Spec => []EmptySlotIsIdle
<1>1. PieInv => EmptySlotIsIdle
  BY DEF PieInv
<1> QED BY <1>1, PieInit, PieStep, PieAssumption, PTL DEF Spec

\* A layer marked as in host memory has there everything it kept.
THEOREM HostCopiesComplete == Spec => []HostCopyComplete
<1>1. PieInv => HostCopyComplete
  BY DEF PieInv
<1> QED BY <1>1, PieInit, PieStep, PieAssumption, PTL DEF Spec

\* No token stored on a layer at rest is missing when the layer attends,
\* whatever was evicted, fetched or reallocated since.
THEOREM KeptTokensSeen == Spec => []AttentionSeesKept
<1>1. PieInv => AttentionSeesKept
  <2> SUFFICES ASSUME PieInv, NEW l \in Attending, NEW t \in kept[l],
                      t <= Head(compute).token
               PROVE  t \in gpu[l]
    BY DEF AttentionSeesKept
  <2>1. compute \in Seq(Kernels) /\ compute # <<>>
    BY DEF PieInv, TypeOK, Kernels, Attending
  <2>2. /\ Len(compute) \in Nat /\ Len(compute) >= 1 /\ Head(compute) = compute[1]
        /\ compute[1].kind = "attend" /\ compute[1].layer = l
    BY <2>1, TailType DEF Attending
  <2>3. Will(l, t, 1)
    BY <2>2 DEF AttendsSee, PieInv
  <2>4. \A i \in 1..Len(compute) : i <= 1 => i = 1
    BY <2>2
  <2> QED BY <2>2, <2>3, <2>4 DEF Will
<1> QED BY <1>1, PieInit, PieStep, PieAssumption, PTL DEF Spec

=============================================================================
