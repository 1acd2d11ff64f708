-------------------------- MODULE DirectKVGraphProofs --------------------------
(***************************************************************************)
(* Theorems of DirectKVGraph for every number of ids and rows, every tile  *)
(* and every set of captured graphs; at the end, what the start of the     *)
(* server guarantees (DirectKVStartup), which is when it captures them.    *)
(*                                                                         *)
(* That a waiting graph kernel finds the bounds of its own batch is not    *)
(* inductive: the next replay's bounds are on the stream while it waits.   *)
(* They are behind it, and the host gets no further until the stream is    *)
(* empty; GraphInv says so of each host step.                              *)
(***************************************************************************)
EXTENDS DirectKVGraph, DirectKVStartup, RowPoolProofs, FiniteSetTheorems,
        WellFoundedInduction

\* What the host is about to put on the device, or has.
Bounds == [op |-> "bounds", nPast |-> MaxPast \div Tile, slot |-> MaxPast % Tile]
BoundsOnDevice == dev.nPast = MaxPast \div Tile /\ dev.slot = MaxPast % Tile
RowsOnDevice(ids, rows) == \A i \in DOMAIN ids : dev.rows[i] = rows[i]
OnGraph == batch.kind \in {"capture", "replay"}

\* The pool's books, and the ids and sizes of batches.
Books ==
  /\ BooksOK /\ RowOwnership /\ active = Mapped
  /\ buf \in [Slots(MaxBs) -> Rids]
  /\ DOMAIN dev.rows = Slots(MaxBs)
  /\ live \subseteq Rids
  /\ batch.ids \in Seq(Rids)
  /\ OnGraph => DOMAIN batch.ids \subseteq Slots(MaxBs)

\* Until the first batch is served only the buffer's first id has a row.
Capturing ==
  /\ todoCap \subseteq GraphSizes
  /\ todoCap # {} => batch.kind \in {"none", "capture"}
  /\ batch.kind \in {"none", "capture"} =>
       /\ active \subseteq {FirstId}
       /\ \A i \in Slots(MaxBs) : buf[i] = FirstId
  /\ batch.kind = "capture" => BatchIds = {FirstId}

\* How far the host has come with its batch.
Progress ==
  /\ step \in {"bounds", "sync", "forward"} => OnGraph
  /\ step = "rows" => batch.kind # "none"
  /\ step = "sync" => \/ stream # <<>> /\ stream[Len(stream)] = Bounds
                      \/ stream = <<>> /\ BoundsOnDevice
  /\ step \in {"rows", "forward"} /\ OnGraph => BoundsOnDevice
  /\ step = "rows" => stream = <<>>
  /\ step = "forward" =>
       /\ active = BatchIds
       /\ \/ stream = <<>> /\ RowsOnDevice(batch.ids, RowsOfBatch)
          \/ stream = <<[op |-> "rows", rows |-> RowsOfBatch]>>

\* Bounds are behind every kernel that waits, and a graph kernel comes right
\* behind the copy of its rows, if that has not been run yet.
GraphReady(i) ==
  /\ dev.nPast = stream[i].past \div Tile /\ dev.slot = stream[i].past % Tile
  /\ DOMAIN stream[i].ids \subseteq Slots(MaxBs)
  /\ DOMAIN stream[i].rows = DOMAIN stream[i].ids
  /\ IF i = 1 THEN RowsOnDevice(stream[i].ids, stream[i].rows)
     ELSE stream[i - 1] = [op |-> "rows", rows |-> stream[i].rows]

StreamOK ==
  /\ \E S : stream \in Seq(S)
  /\ \A i \in 1 .. Len(stream) :
       /\ stream[i].op = "bounds" => step = "sync" /\ i = Len(stream)
       /\ stream[i].op = "graph" => GraphReady(i)

GraphInv == Books /\ Capturing /\ Progress /\ StreamOK /\ RowsInFlightHeld

--------------------------------------------------------------------------------

(* What depends on the batch alone stays with it.                          *)
LEMMA SameBatch ==
  ASSUME UNCHANGED batch
  PROVE  /\ MaxPast' = MaxPast /\ BatchIds' = BatchIds /\ Bounds' = Bounds
         /\ OnGraph' = OnGraph
BY DEF MaxPast, BatchIds, Bounds, OnGraph

(* Waiting work is as good as it was when only the host's place changes.   *)
LEMMA StreamKept ==
  ASSUME StreamOK, UNCHANGED <<stream, dev>>,
         step = "sync" => step' = "sync" \/ stream = <<>>
  PROVE  StreamOK'
<1>1. stream = <<>> => 1 .. Len(stream) = {}
  OBVIOUS
<1>2. QED
  BY <1>1 DEF StreamOK, GraphReady, RowsOnDevice

(* Nothing that leaves the pool alone disturbs the books, if the batch it  *)
(* begins is one of ids.                                                   *)
LEMMA BooksKept ==
  ASSUME Books, UNCHANGED <<free, rowOf, active>>, DOMAIN dev'.rows = DOMAIN dev.rows,
         live' \subseteq Rids, buf' \in [Slots(MaxBs) -> Rids], batch'.ids \in Seq(Rids),
         OnGraph' => DOMAIN batch'.ids \subseteq Slots(MaxBs)
  PROVE  Books'
<1>1. BooksOK' /\ Mapped' = Mapped /\ FreeRows' = FreeRows
  BY DEF Books, BooksOK, Mapped, FreeRows
<1>2. RowOwnership'
  BY <1>1 DEF Books, RowOwnership
<1>3. QED
  BY <1>1, <1>2 DEF Books

LEMMA CapturingKept ==
  ASSUME Capturing, UNCHANGED <<todoCap, active, buf, batch>>
  PROVE  Capturing'
<1>1. BatchIds' = BatchIds
  BY SameBatch
<1>2. QED
  BY <1>1 DEF Capturing

LEMMA GraphInit == RowPoolAssumption /\ GraphAssumption /\ Init => GraphInv
<1> SUFFICES ASSUME RowPoolAssumption, GraphAssumption, Init
             PROVE  GraphInv
  OBVIOUS
<1>1. BooksOK /\ RowOwnership
  BY PoolInitOwnership DEF Init
<1>2. Mapped = {}
  BY DEF Init, PoolInit, Mapped
<1>3. Books
  BY <1>1, <1>2 DEF Init, Books, GraphAssumption, NoBatch, OnGraph
<1>4. Capturing
  BY DEF Init, Capturing, NoBatch
<1>5. Progress
  BY DEF Init, Progress, NoBatch, OnGraph
<1>6. StreamOK
  <2>1. stream \in Seq({}) /\ 1 .. Len(stream) = {}
    BY DEF Init
  <2>2. QED
    BY <2>1 DEF StreamOK
<1>7. RowsInFlightHeld
  BY DEF Init, RowsInFlightHeld
<1>8. QED
  BY <1>3, <1>4, <1>5, <1>6, <1>7 DEF GraphInv

(* Arrivals and departures of requests are no business of the host.        *)
LEMMA Undisturbed ==
  ASSUME GraphInv, live' \subseteq Rids,
         UNCHANGED <<free, rowOf, buf, todoCap, active, step, batch, dev, stream>>
  PROVE  GraphInv'
<1>1. Books' /\ Capturing' /\ StreamOK'
  <2>1. OnGraph' = OnGraph
    BY SameBatch
  <2>2. Books'
    BY <2>1, BooksKept DEF GraphInv, Books
  <2>3. QED
    BY <2>2, CapturingKept, StreamKept DEF GraphInv
<1>2. Progress'
  <2>1. /\ Bounds' = Bounds /\ OnGraph' = OnGraph /\ BatchIds' = BatchIds
        /\ BoundsOnDevice' = BoundsOnDevice /\ RowsOfBatch' = RowsOfBatch
    BY SameBatch DEF BoundsOnDevice, RowsOfBatch
  <2>2. QED
    BY <2>1 DEF GraphInv, Progress, RowsOnDevice
<1>3. RowsInFlightHeld'
  BY DEF GraphInv, RowsInFlightHeld
<1>4. QED
  BY <1>1, <1>2, <1>3 DEF GraphInv

LEMMA RequestStep ==
  ASSUME GraphInv, NEW id \in Rids, Admit(id) \/ Finish(id)
  PROVE  GraphInv'
<1>1. /\ UNCHANGED <<free, rowOf, buf, todoCap, active, step, batch, dev, stream>>
      /\ live' \subseteq Rids
  BY DEF Admit, Finish, GraphInv, Books, poolVars, hostVars, gpuVars
<1>2. QED
  BY <1>1, Undisturbed

LEMMA StutterStep ==
  ASSUME GraphInv, UNCHANGED vars
  PROVE  GraphInv'
<1>1. /\ UNCHANGED <<free, rowOf, buf, todoCap, active, step, batch, dev, stream>>
      /\ live' \subseteq Rids
  BY DEF vars, GraphInv, Books, poolVars, reqVars, hostVars, gpuVars
<1>2. QED
  BY <1>1, Undisturbed

(* The ids at the front of the buffer are ids, as many as asked for.       *)
LEMMA Prefix ==
  ASSUME GraphAssumption, NEW b \in [Slots(MaxBs) -> Rids], NEW bs \in GraphSizes
  PROVE  /\ SubSeq(b, 1, bs) \in Seq(Rids)
         /\ DOMAIN SubSeq(b, 1, bs) = Slots(bs)
         /\ Slots(bs) \subseteq Slots(MaxBs) /\ 1 \in Slots(bs)
         /\ \A i \in Slots(bs) : SubSeq(b, 1, bs)[i] = b[i]
<1>1. bs \in 1 .. MaxBs /\ MaxBs \in Nat \ {0}
  BY DEF GraphAssumption
<1>2. b \in Seq(Rids) /\ Len(b) = MaxBs
  BY <1>1 DEF Slots
<1>3. \A i \in 1 .. bs : b[i] \in Rids
  BY <1>1 DEF Slots
<1>4. /\ SubSeq(b, 1, bs) \in Seq(Rids)
      /\ Len(SubSeq(b, 1, bs)) = IF 1 <= bs THEN bs - 1 + 1 ELSE 0
      /\ \A i \in 1 .. bs - 1 + 1 : SubSeq(b, 1, bs)[i] = b[1 + i - 1]
  <2>1. 1 \in Int /\ bs \in Int
    BY <1>1
  <2>2. QED
    BY <1>3, <2>1, SubSeqProperties
<1>5. QED
  BY <1>1, <1>4 DEF Slots

--------------------------------------------------------------------------------
(* Metadata                                                                *)

LEMMA CaptureStep ==
  ASSUME GraphAssumption, GraphInv, NEW bs \in GraphSizes, CaptureGraph(bs)
  PROVE  GraphInv'
<1>1. /\ step = "idle" /\ step' = "bounds" /\ bs \in todoCap /\ todoCap' = todoCap \ {bs}
      /\ batch'.kind = "capture" /\ batch'.ids = SubSeq(buf, 1, bs)
      /\ UNCHANGED <<free, rowOf, buf, active, dev, stream, live>>
  BY DEF CaptureGraph, poolVars, reqVars, gpuVars
<1>2. /\ buf \in [Slots(MaxBs) -> Rids]
      /\ active \subseteq {FirstId} /\ \A i \in Slots(MaxBs) : buf[i] = FirstId
  BY <1>1 DEF GraphInv, Books, Capturing
<1>3. /\ batch'.ids \in Seq(Rids) /\ DOMAIN batch'.ids = Slots(bs)
      /\ Slots(bs) \subseteq Slots(MaxBs) /\ 1 \in Slots(bs)
      /\ \A i \in Slots(bs) : batch'.ids[i] = FirstId
  BY <1>1, <1>2, Prefix
<1>4. BatchIds' = {FirstId}
  BY <1>3 DEF BatchIds
<1>5. Books'
  BY <1>1, <1>3, BooksKept DEF GraphInv, Books
<1>6. Capturing'
  BY <1>1, <1>2, <1>4 DEF GraphInv, Capturing
<1>7. Progress'
  BY <1>1 DEF Progress, OnGraph
<1>8. StreamOK'
  BY <1>1, StreamKept DEF GraphInv
<1>9. RowsInFlightHeld'
  BY <1>1 DEF GraphInv, RowsInFlightHeld
<1>10. QED
  BY <1>5, <1>6, <1>7, <1>8, <1>9 DEF GraphInv

(* An order of a finite set of ids is a sequence of them.                  *)
LEMMA OrderIsSeq ==
  ASSUME GraphAssumption, NEW S \in SUBSET Rids, NEW q \in Orders(S)
  PROVE  q \in Seq(Rids)
<1>1. Cardinality(S) \in Nat
  BY FS_Subset, FS_CardinalityType DEF GraphAssumption
<1>2. q \in [1 .. Cardinality(S) -> Rids]
  BY <1>1 DEF Orders, Slots
<1>3. QED
  BY <1>1, <1>2

(* A batch of the eager path starts with the stream drained.               *)
LEMMA EagerStep ==
  ASSUME GraphAssumption, GraphInv, NEW S \in SUBSET Rids, NEW q \in Orders(S), NEW p,
         StartPrefill(q, p) \/ StartEagerDecode(q)
  PROVE  GraphInv'
<1>1. /\ step = "idle" /\ step' = "rows" /\ todoCap = {} /\ stream = <<>>
      /\ batch'.kind \in {"extend", "eager"} /\ batch'.ids = q
      /\ UNCHANGED <<free, rowOf, buf, todoCap, active, dev, stream, live>>
  BY DEF StartPrefill, StartEagerDecode, Decodable, Synced, poolVars, reqVars, gpuVars
<1>2. Books'
  <2>1. ~OnGraph'
    BY <1>1 DEF OnGraph
  <2>2. batch'.ids \in Seq(Rids)
    BY <1>1, OrderIsSeq
  <2>3. QED
    BY <1>1, <2>1, <2>2, BooksKept DEF GraphInv, Books
<1>3. Capturing'
  BY <1>1 DEF GraphInv, Capturing
<1>4. Progress'
  BY <1>1 DEF Progress, OnGraph
<1>5. StreamOK'
  BY <1>1, StreamKept DEF GraphInv
<1>6. RowsInFlightHeld'
  BY <1>1 DEF GraphInv, RowsInFlightHeld
<1>7. QED
  BY <1>2, <1>3, <1>4, <1>5, <1>6 DEF GraphInv

LEMMA ReplayStep ==
  ASSUME GraphAssumption, GraphInv, NEW q \in Orders(live), NEW bs \in GraphSizes,
         StartReplay(q, bs)
  PROVE  GraphInv'
<1> DEFINE ids == [i \in Slots(MaxBs) |-> IF i <= Len(q) THEN q[i] ELSE buf[i]]
<1>1. /\ step = "idle" /\ step' = "bounds" /\ todoCap = {} /\ Len(q) <= bs
      /\ batch'.kind = "replay" /\ batch'.ids = SubSeq(ids, 1, bs) /\ buf' = ids
      /\ UNCHANGED <<free, rowOf, todoCap, active, dev, stream, live>>
  BY DEF StartReplay, Decodable, poolVars, reqVars, gpuVars
<1>2. ids \in [Slots(MaxBs) -> Rids]
  <2>1. q \in Seq(Rids) /\ buf \in [Slots(MaxBs) -> Rids]
    BY OrderIsSeq DEF GraphInv, Books
  <2>2. \A i \in Slots(MaxBs) : i <= Len(q) => q[i] \in Rids
    BY <2>1 DEF Slots
  <2>3. QED
    BY <2>1, <2>2
<1>3. /\ batch'.ids \in Seq(Rids) /\ DOMAIN batch'.ids = Slots(bs)
      /\ Slots(bs) \subseteq Slots(MaxBs)
  BY <1>1, <1>2, Prefix
<1>4. Books'
  BY <1>1, <1>2, <1>3, BooksKept DEF GraphInv, Books
<1>5. Capturing'
  BY <1>1 DEF GraphInv, Capturing
<1>6. Progress'
  BY <1>1 DEF Progress, OnGraph
<1>7. StreamOK'
  BY <1>1, StreamKept DEF GraphInv
<1>8. RowsInFlightHeld'
  BY <1>1 DEF GraphInv, RowsInFlightHeld
<1>9. QED
  BY <1>4, <1>5, <1>6, <1>7, <1>8 DEF GraphInv

--------------------------------------------------------------------------------
(* The stream, and the host's way through its batch                        *)

LEMMA StreamAppend ==
  ASSUME StreamOK, NEW e, stream' = Append(stream, e)
  PROVE  /\ \E S : stream' \in Seq(S)
         /\ Len(stream) \in Nat /\ Len(stream') = Len(stream) + 1
         /\ \A i \in 1 .. Len(stream) : stream'[i] = stream[i]
         /\ stream'[Len(stream')] = e /\ stream' # <<>>
         /\ DOMAIN stream = 1 .. Len(stream) /\ DOMAIN stream' = 1 .. Len(stream')
         /\ stream = <<>> => stream' = <<e>>
<1>1. PICK S : stream \in Seq(S)
  BY DEF StreamOK
<1>2. stream \in Seq(S \union {e})
  BY <1>1
<1>3. stream' \in Seq(S \union {e})
  BY <1>2
<1>4. /\ Len(stream) \in Nat /\ Len(stream') = Len(stream) + 1
      /\ \A i \in 1 .. Len(stream) : stream'[i] = stream[i]
      /\ stream'[Len(stream')] = e
  BY <1>2, AppendProperties, LenProperties
<1>5. DOMAIN stream = 1 .. Len(stream) /\ DOMAIN stream' = 1 .. Len(stream')
  BY <1>2, <1>3, LenProperties
<1>6. stream' # <<>>
  BY <1>4, <1>5
<1>7. ASSUME stream = <<>>  PROVE stream' = <<e>>
  BY <1>7
<1>8. QED
  BY <1>3, <1>4, <1>5, <1>6, <1>7

LEMMA StreamTail ==
  ASSUME StreamOK, stream # <<>>, stream' = Tail(stream)
  PROVE  /\ \E S : stream' \in Seq(S)
         /\ Len(stream) \in Nat \ {0} /\ Len(stream') = Len(stream) - 1
         /\ \A i \in 1 .. Len(stream') : stream'[i] = stream[i + 1]
         /\ Head(stream) = stream[1]
         /\ DOMAIN stream = 1 .. Len(stream) /\ DOMAIN stream' = 1 .. Len(stream')
         /\ Len(stream) = 1 => stream' = <<>>
<1>1. PICK S : stream \in Seq(S)
  BY DEF StreamOK
<1>2. stream' \in Seq(S)
  BY <1>1
<1>3. QED
  BY <1>1, <1>2

LEMMA FillBoundsStep ==
  ASSUME GraphInv, FillBounds
  PROVE  GraphInv'
<1>1. /\ step = "bounds" /\ step' = "sync" /\ stream' = Append(stream, Bounds)
      /\ UNCHANGED <<free, rowOf, live, buf, todoCap, active, batch, dev>>
  BY DEF FillBounds, Bounds, poolVars, reqVars
<1>2. Bounds' = Bounds /\ OnGraph' = OnGraph /\ StreamOK
  BY <1>1, SameBatch DEF GraphInv
<1>3. Books' /\ Capturing'
  BY <1>1, <1>2, BooksKept, CapturingKept DEF GraphInv, Books
<1>4. Progress'
  BY <1>1, <1>2, StreamAppend DEF GraphInv, Progress
<1>5. StreamOK'
  <2>1. ASSUME NEW i \in 1 .. Len(stream'), stream'[i].op = "graph"
        PROVE  GraphReady(i)'
    <3>1. i \in 1 .. Len(stream) /\ (i # 1 => i - 1 \in 1 .. Len(stream))
      BY <1>1, <1>2, <2>1, StreamAppend DEF Bounds
    <3>2. GraphReady(i)
      BY <1>1, <1>2, <2>1, <3>1, StreamAppend DEF StreamOK
    <3>3. QED
      BY <1>1, <1>2, <3>1, <3>2, StreamAppend DEF GraphReady, RowsOnDevice
  <2>2. ASSUME NEW i \in 1 .. Len(stream'), stream'[i].op = "bounds"
        PROVE  i = Len(stream')
    BY <1>1, <1>2, <2>2, StreamAppend DEF StreamOK
  <2>3. QED
    BY <1>1, <1>2, <2>1, <2>2, StreamAppend DEF StreamOK
<1>6. RowsInFlightHeld'
  BY <1>1, <1>2, StreamAppend DEF GraphInv, RowsInFlightHeld, Bounds
<1>7. QED
  BY <1>3, <1>4, <1>5, <1>6 DEF GraphInv

LEMMA ReadIdsStep ==
  ASSUME GraphInv, ReadIds
  PROVE  GraphInv'
<1>1. /\ step = "sync" /\ step' = "rows" /\ stream = <<>>
      /\ UNCHANGED <<free, rowOf, live, buf, todoCap, active, batch, dev, stream>>
  BY DEF ReadIds, Synced, poolVars, reqVars, gpuVars
<1>2. OnGraph' = OnGraph /\ BoundsOnDevice' = BoundsOnDevice
  BY <1>1, SameBatch DEF BoundsOnDevice
<1>3. Books' /\ Capturing'
  BY <1>1, <1>2, BooksKept, CapturingKept DEF GraphInv, Books
<1>4. Progress'
  BY <1>1, <1>2 DEF GraphInv, Progress, OnGraph
<1>5. StreamOK'
  BY <1>1, StreamKept DEF GraphInv
<1>6. RowsInFlightHeld'
  BY <1>1 DEF GraphInv, RowsInFlightHeld
<1>7. QED
  BY <1>3, <1>4, <1>5, <1>6 DEF GraphInv

(* Rows change hands only while nothing is in flight.                      *)
LEMMA RowsStep ==
  ASSUME RowPoolAssumption, GraphInv, NEW id \in Rids, Release(id) \/ AllocRow(id)
  PROVE  GraphInv'
<1>1. /\ step = "rows" /\ step' = "rows" /\ stream = <<>>
      /\ UNCHANGED <<live, buf, todoCap, batch, dev, stream>>
  BY DEF Release, AllocRow, GraphInv, Progress, reqVars, gpuVars
<1>2. OnGraph' = OnGraph /\ BoundsOnDevice' = BoundsOnDevice /\ BatchIds' = BatchIds
  BY <1>1, SameBatch DEF BoundsOnDevice
<1>3. BooksOK' /\ RowOwnership' /\ active' = Mapped'
  <2>1. CASE Release(id)
    <3>1. Free(id) /\ active' = active \ {id}
      BY <2>1 DEF Release
    <3>2. BooksOK' /\ RowOwnership'
      BY <3>1, FreeKeepsOwnership DEF GraphInv, Books
    <3>3. Mapped' = Mapped \ {id}
      BY <3>1 DEF Free, Mapped, GraphInv, Books, BooksOK
    <3>4. QED
      BY <3>1, <3>2, <3>3 DEF GraphInv, Books
  <2>2. CASE AllocRow(id)
    <3>1. Alloc(id) /\ active' = active \union {id}
      BY <2>2 DEF AllocRow
    <3>2. BooksOK' /\ RowOwnership'
      BY <3>1, AllocKeepsOwnership DEF GraphInv, Books
    <3>3. free[Len(free)] \in Rows /\ NoRow \notin Rows
      BY <3>1, PopLast DEF Alloc, GraphInv, Books, RowPoolAssumption
    <3>4. Mapped' = Mapped \union {id}
      BY <3>1, <3>3 DEF Alloc, Mapped, GraphInv, Books, BooksOK
    <3>5. QED
      BY <3>1, <3>2, <3>4 DEF GraphInv, Books
  <2>3. QED
    BY <2>1, <2>2
<1>4. Books'
  BY <1>1, <1>2, <1>3 DEF GraphInv, Books
<1>5. Capturing'
  <2>1. batch.kind = "capture" /\ AllocRow(id) => id = FirstId
    BY DEF AllocRow, GraphInv, Capturing
  <2>2. batch.kind # "none"
    BY <1>1 DEF GraphInv, Progress, Capturing
  <2>3. QED
    BY <1>1, <1>2, <2>1, <2>2 DEF GraphInv, Capturing, Release, AllocRow
<1>6. Progress'
  BY <1>1, <1>2 DEF GraphInv, Progress
<1>7. StreamOK'
  BY <1>1, StreamKept DEF GraphInv
<1>8. RowsInFlightHeld'
  BY <1>1 DEF RowsInFlightHeld
<1>9. QED
  BY <1>4, <1>5, <1>6, <1>7, <1>8 DEF GraphInv

(* The host gives up: nothing it had under way is lost.                    *)
LEMMA RaiseStep ==
  ASSUME GraphInv, NEW id, AllocFails(id) \/ EagerDecodeRaises
  PROVE  GraphInv'
<1>1. /\ step = "rows" /\ step' = "failed"
      /\ UNCHANGED <<free, rowOf, live, buf, todoCap, active, batch, dev, stream>>
  BY DEF AllocFails, EagerDecodeRaises, poolVars, reqVars, gpuVars
<1>2. Books' /\ Capturing'
  BY <1>1, SameBatch, BooksKept, CapturingKept DEF GraphInv, Books
<1>3. Progress'
  BY <1>1 DEF Progress
<1>4. StreamOK'
  BY <1>1, StreamKept DEF GraphInv
<1>5. RowsInFlightHeld'
  BY <1>1 DEF GraphInv, RowsInFlightHeld
<1>6. QED
  BY <1>2, <1>3, <1>4, <1>5 DEF GraphInv

LEMMA FillRowsStep ==
  ASSUME GraphInv, FillRows
  PROVE  GraphInv'
<1> DEFINE e == [op |-> "rows", rows |-> RowsOfBatch]
<1>1. /\ step = "rows" /\ step' = "forward" /\ OnGraph /\ Gone = {} /\ BatchIds \subseteq active
      /\ stream' = Append(stream, e)
      /\ UNCHANGED <<free, rowOf, live, buf, todoCap, active, batch, dev>>
  BY DEF FillRows, OnGraph, poolVars, reqVars
<1>2. /\ OnGraph' = OnGraph /\ BoundsOnDevice' = BoundsOnDevice /\ BatchIds' = BatchIds
      /\ RowsOfBatch' = RowsOfBatch
  BY <1>1, SameBatch DEF BoundsOnDevice, RowsOfBatch
<1>3. stream = <<>> /\ StreamOK /\ BoundsOnDevice
  BY <1>1 DEF GraphInv, Progress
<1>4. stream' = <<e>> /\ (\E S : stream' \in Seq(S)) /\ Len(stream') = 1
  BY <1>1, <1>3, StreamAppend
<1>5. active = BatchIds
  <2>1. CASE batch.kind = "capture"
    BY <1>1, <2>1 DEF GraphInv, Capturing
  <2>2. CASE batch.kind = "replay"
    BY <1>1, <2>2 DEF Gone
  <2>3. QED
    BY <1>1, <2>1, <2>2 DEF OnGraph
<1>6. Books' /\ Capturing'
  BY <1>1, <1>2, BooksKept, CapturingKept DEF GraphInv, Books
<1>7. Progress'
  BY <1>1, <1>2, <1>3, <1>4, <1>5 DEF Progress
<1>8. StreamOK'
  BY <1>4 DEF StreamOK
<1>9. RowsInFlightHeld'
  BY <1>4 DEF RowsInFlightHeld
<1>10. QED
  BY <1>6, <1>7, <1>8, <1>9 DEF GraphInv

--------------------------------------------------------------------------------
(* Forward                                                                 *)

LEMMA LaunchGraphStep ==
  ASSUME GraphInv, LaunchGraph
  PROVE  GraphInv'
<1> DEFINE e == [op |-> "graph", ids |-> batch.ids, real |-> batch.real,
                 seqlens |-> batch.seqlens, past |-> MaxPast, rows |-> RowsOfBatch]
           filled == [op |-> "rows", rows |-> RowsOfBatch]
           n == Len(stream)
<1>1. /\ step = "forward" /\ step' = "idle" /\ stream' = Append(stream, e)
      /\ UNCHANGED <<free, rowOf, live, buf, todoCap, active, batch, dev>>
  BY DEF LaunchGraph, poolVars
<1>2. /\ OnGraph /\ BoundsOnDevice /\ StreamOK /\ DOMAIN batch.ids \subseteq Slots(MaxBs)
      /\ \/ stream = <<>> /\ RowsOnDevice(batch.ids, RowsOfBatch)
         \/ stream = <<filled>>
  BY <1>1 DEF GraphInv, Progress, Books
<1>3. /\ \E S : stream' \in Seq(S)
      /\ n \in {0, 1} /\ Len(stream') = n + 1
      /\ \A i \in 1 .. n : stream'[i] = stream[i]
      /\ stream'[n + 1] = e /\ DOMAIN stream' = 1 .. n + 1
      /\ n = 1 => stream[1] = filled
      /\ n = 0 => RowsOnDevice(batch.ids, RowsOfBatch)
  BY <1>1, <1>2, StreamAppend
<1>4. DOMAIN RowsOfBatch = DOMAIN batch.ids
  BY DEF RowsOfBatch
<1>5. Books' /\ Capturing'
  BY <1>1, SameBatch, BooksKept, CapturingKept DEF GraphInv, Books
<1>6. Progress'
  BY <1>1 DEF Progress
<1>7. StreamOK'
  <2>1. ASSUME NEW i \in 1 .. Len(stream'), i = n + 1
        PROVE  stream'[i].op # "bounds" /\ GraphReady(i)'
    <3>1. stream'[i] = e /\ DOMAIN batch.ids \subseteq Slots(MaxBs) /\ BoundsOnDevice
      BY <1>2, <1>3, <2>1
    <3>2. IF i = 1 THEN RowsOnDevice(batch.ids, RowsOfBatch) ELSE stream'[i - 1] = filled
      BY <1>3, <2>1
    <3>3. QED
      BY <1>1, <1>4, <3>1, <3>2 DEF GraphReady, BoundsOnDevice, RowsOnDevice
  <2>2. ASSUME NEW i \in 1 .. Len(stream'), i # n + 1
        PROVE  stream'[i].op = "rows"
    BY <1>3, <2>2
  <2>3. ASSUME NEW i \in 1 .. Len(stream')
        PROVE  /\ stream'[i].op # "bounds"
               /\ stream'[i].op = "graph" => GraphReady(i)'
    BY <2>1, <2>2
  <2>4. QED
    BY <1>3, <2>3 DEF StreamOK
<1>8. RowsInFlightHeld'
  BY <1>1, <1>3 DEF RowsInFlightHeld, RowsOfBatch
<1>9. QED
  BY <1>5, <1>6, <1>7, <1>8 DEF GraphInv

LEMMA LaunchPrefillStep ==
  ASSUME GraphInv, LaunchPrefill
  PROVE  GraphInv'
<1> DEFINE work == [i \in DOMAIN batch.ids |->
                      [op |-> "prefill", ids |-> <<batch.ids[i]>>,
                       rows |-> <<rowOf[batch.ids[i]]>>, n |-> batch.seqlens[i]]]
<1>1. /\ step = "rows" /\ step' = "idle" /\ stream' = stream \o work
      /\ UNCHANGED <<free, rowOf, live, buf, todoCap, active, batch, dev>>
  BY DEF LaunchPrefill, poolVars
<1>2. stream = <<>> /\ batch.ids \in Seq(Rids)
  BY <1>1 DEF GraphInv, Progress, Books
<1>3. work \in Seq({work[i] : i \in DOMAIN batch.ids}) /\ DOMAIN work = DOMAIN batch.ids
  BY <1>2
<1>4. stream' = work
  BY <1>1, <1>2, <1>3, ConcatEmptySeq
<1>5. \A i \in 1 .. Len(work) : work[i].op = "prefill"
  BY <1>3
<1>6. Books' /\ Capturing'
  BY <1>1, SameBatch, BooksKept, CapturingKept DEF GraphInv, Books
<1>7. Progress'
  BY <1>1 DEF Progress
<1>8. StreamOK'
  BY <1>3, <1>4, <1>5 DEF StreamOK
<1>9. RowsInFlightHeld'
  <2>1. ASSUME NEW i \in DOMAIN work, NEW j \in DOMAIN work[i].ids
        PROVE  rowOf[work[i].ids[j]] = work[i].rows[j]
    BY <2>1
  <2> HIDE DEF work
  <2>2. QED
    BY <1>1, <1>4, <2>1 DEF RowsInFlightHeld
<1>10. QED
  BY <1>6, <1>7, <1>8, <1>9 DEF GraphInv

--------------------------------------------------------------------------------
(* The GPU                                                                 *)

(* What waits behind the head keeps its rows when the head is done.        *)
LEMMA HeldBehindHead ==
  ASSUME StreamOK, RowsInFlightHeld, stream # <<>>, stream' = Tail(stream), UNCHANGED rowOf
  PROVE  RowsInFlightHeld'
<1>1. ASSUME NEW i \in DOMAIN stream'
      PROVE  i + 1 \in DOMAIN stream /\ stream'[i] = stream[i + 1]
  BY <1>1, StreamTail
<1>2. ASSUME NEW i \in DOMAIN stream', stream'[i].op \in {"graph", "prefill"},
             NEW j \in DOMAIN stream'[i].ids
      PROVE  rowOf'[stream'[i].ids[j]] = stream'[i].rows[j]
  BY <1>1, <1>2 DEF RowsInFlightHeld
<1>3. QED
  BY <1>2 DEF RowsInFlightHeld

(* Bounds that were the last of the work are so when the head is done.     *)
LEMMA LastBehindHead ==
  ASSUME StreamOK, stream # <<>>, stream' = Tail(stream),
         NEW e, stream[Len(stream)] = e, Head(stream) # e
  PROVE  stream' # <<>> /\ stream'[Len(stream')] = e
<1>1. Head(stream) = stream[1] /\ Len(stream) \in Nat \ {0} /\ Len(stream') = Len(stream) - 1
  BY StreamTail
<1>2. Len(stream) # 1
  BY <1>1
<1>3. Len(stream') \in 1 .. Len(stream') /\ Len(stream') + 1 = Len(stream)
  BY <1>1, <1>2
<1>4. stream'[Len(stream')] = e
  BY <1>3, StreamTail
<1>5. stream' # <<>>
  BY <1>3
<1>6. QED
  BY <1>4, <1>5

LEMMA BoundsBehindHead ==
  ASSUME StreamOK, stream # <<>>, stream' = Tail(stream), UNCHANGED step,
         NEW i \in 1 .. Len(stream'), stream'[i].op = "bounds"
  PROVE  step' = "sync" /\ i = Len(stream')
<1>1. /\ i \in Nat /\ i + 1 \in 1 .. Len(stream) /\ stream'[i] = stream[i + 1]
      /\ Len(stream) \in Nat /\ Len(stream') = Len(stream) - 1
  BY StreamTail
<1>2. step = "sync" /\ i + 1 = Len(stream)
  BY <1>1 DEF StreamOK
<1>3. i \in Nat /\ Len(stream') = Len(stream) - 1
  BY <1>1
<1>4. (i + 1) - 1 = i
  BY <1>3
<1>5. i = Len(stream')
  BY <1>2, <1>3, <1>4
<1>6. QED
  BY <1>2, <1>5

(* What a graph kernel that moves up by one place finds before it.         *)
LEMMA GraphBehindHead ==
  ASSUME StreamOK, stream # <<>>, stream' = Tail(stream),
         NEW i \in 1 .. Len(stream'), stream'[i].op = "graph"
  PROVE  /\ dev.nPast = stream'[i].past \div Tile /\ dev.slot = stream'[i].past % Tile
         /\ DOMAIN stream'[i].ids \subseteq Slots(MaxBs)
         /\ DOMAIN stream'[i].rows = DOMAIN stream'[i].ids
         /\ i = 1 => Head(stream) = [op |-> "rows", rows |-> stream'[i].rows]
         /\ i # 1 => stream'[i - 1] = [op |-> "rows", rows |-> stream'[i].rows]
<1>1. /\ i + 1 \in 1 .. Len(stream) /\ i + 1 # 1 /\ (i + 1) - 1 = i
      /\ stream'[i] = stream[i + 1]
  BY StreamTail
<1>2. GraphReady(i + 1)
  BY <1>1 DEF StreamOK
<1>3. stream[i] = [op |-> "rows", rows |-> stream'[i].rows]
  BY <1>1, <1>2 DEF GraphReady
<1>4. i # 1 => stream'[i - 1] = stream[i]
  BY StreamTail
<1>5. i = 1 => Head(stream) = stream[i]
  BY StreamTail
<1>6. QED
  BY <1>1, <1>2, <1>3, <1>4, <1>5 DEF GraphReady

LEMMA RunKernelStep ==
  ASSUME GraphInv, RunPrefill \/ RunGraph
  PROVE  GraphInv'
<1>1. /\ stream # <<>> /\ stream' = Tail(stream) /\ Head(stream).op \in {"prefill", "graph"}
      /\ UNCHANGED <<free, rowOf, live, buf, todoCap, active, step, batch, dev>>
  BY DEF RunPrefill, RunGraph, poolVars, reqVars, hostVars
<1>2. StreamOK
  BY DEF GraphInv
<1>3. Head(stream) = stream[1] /\ stream[1].op # "rows" /\ stream[1].op # "bounds"
  BY <1>1, <1>2, StreamTail
<1>4. Books' /\ Capturing'
  BY <1>1, SameBatch, BooksKept, CapturingKept DEF GraphInv, Books
<1>5. Progress'
  <2>1. step # "rows" /\ step # "forward"
    BY <1>1, <1>3 DEF GraphInv, Progress
  <2>2. step = "sync" => stream'[Len(stream')] = Bounds /\ stream' # <<>>
    <3>1. step = "sync" => stream[Len(stream)] = Bounds
      BY <1>1 DEF GraphInv, Progress
    <3>2. Head(stream) # Bounds
      BY <1>3 DEF Bounds
    <3>3. QED
      BY <1>1, <1>2, <3>1, <3>2, LastBehindHead
  <2>3. QED
    BY <1>1, <2>1, <2>2, SameBatch DEF GraphInv, Progress
<1>6. StreamOK'
  <2>1. ASSUME NEW i \in 1 .. Len(stream'), stream'[i].op = "graph"
        PROVE  GraphReady(i)'
    <3>1. i = 1 => Head(stream) = [op |-> "rows", rows |-> stream'[i].rows]
      BY <1>1, <1>2, <2>1, GraphBehindHead
    <3>2. i # 1
      BY <1>3, <3>1
    <3>3. QED
      BY <1>1, <1>2, <2>1, <3>2, GraphBehindHead DEF GraphReady
  <2>2. ASSUME NEW i \in 1 .. Len(stream'), stream'[i].op = "bounds"
        PROVE  step' = "sync" /\ i = Len(stream')
    BY <1>1, <1>2, <2>2, BoundsBehindHead
  <2>3. QED
    BY <1>1, <1>2, <2>1, <2>2, StreamTail DEF StreamOK
<1>7. RowsInFlightHeld'
  BY <1>1, <1>2, HeldBehindHead DEF GraphInv
<1>8. QED
  BY <1>4, <1>5, <1>6, <1>7 DEF GraphInv

(* The bounds are the last of the work, so that nothing waits for others.  *)
LEMMA RunBoundsStep ==
  ASSUME GraphInv, RunCopyToDevice, Head(stream).op = "bounds"
  PROVE  GraphInv'
<1> DEFINE k == Head(stream)
<1>1. /\ stream # <<>> /\ stream' = Tail(stream)
      /\ dev' = [dev EXCEPT !.nPast = k.nPast, !.slot = k.slot]
      /\ UNCHANGED <<free, rowOf, live, buf, todoCap, active, step, batch>>
  BY DEF RunCopyToDevice, poolVars, reqVars, hostVars
<1>2. StreamOK
  BY DEF GraphInv
<1>3. k = stream[1] /\ 1 \in 1 .. Len(stream)
  BY <1>1, <1>2, StreamTail
<1>4. step = "sync" /\ Len(stream) = 1 /\ stream' = <<>>
  BY <1>1, <1>2, <1>3, StreamTail DEF StreamOK
<1>5. k = Bounds
  BY <1>1, <1>3, <1>4 DEF GraphInv, Progress
<1>6. Books' /\ Capturing'
  <2>1. DOMAIN dev'.rows = DOMAIN dev.rows
    BY <1>1
  <2>2. QED
    BY <1>1, <2>1, SameBatch, BooksKept, CapturingKept DEF GraphInv, Books
<1>7. Progress'
  <2>1. BoundsOnDevice'
    BY <1>1, <1>5, SameBatch DEF BoundsOnDevice, Bounds
  <2>2. QED
    BY <1>1, <1>4, <2>1, SameBatch DEF GraphInv, Progress
<1>8. StreamOK'
  BY <1>4 DEF StreamOK
<1>9. RowsInFlightHeld'
  BY <1>1, <1>2, HeldBehindHead DEF GraphInv
<1>10. QED
  BY <1>6, <1>7, <1>8, <1>9 DEF GraphInv

(* The rows reach the device right before the kernel that reads them.      *)
LEMMA RunRowsStep ==
  ASSUME GraphInv, RunCopyToDevice, Head(stream).op = "rows"
  PROVE  GraphInv'
<1> DEFINE k == Head(stream)
           filled == [i \in Slots(MaxBs) |-> IF i \in DOMAIN k.rows THEN k.rows[i] ELSE dev.rows[i]]
<1>1. /\ stream # <<>> /\ stream' = Tail(stream)
      /\ dev' = [dev EXCEPT !.rows = filled]
      /\ UNCHANGED <<free, rowOf, live, buf, todoCap, active, step, batch>>
  BY DEF RunCopyToDevice, poolVars, reqVars, hostVars
<1>2. StreamOK
  BY DEF GraphInv
<1>3. k = stream[1] /\ stream[1].op = "rows"
  BY <1>1, <1>2, StreamTail
<1>4. dev'.nPast = dev.nPast /\ dev'.slot = dev.slot
  BY <1>1
<1>5. dev'.rows = filled
  BY <1>1
<1>6. Books' /\ Capturing'
  <2>1. DOMAIN dev'.rows = DOMAIN dev.rows
    BY <1>5 DEF GraphInv, Books
  <2>2. QED
    BY <1>1, <2>1, SameBatch, BooksKept, CapturingKept DEF GraphInv, Books
<1>7. Progress'
  <2>1. step # "rows"
    BY <1>1 DEF GraphInv, Progress
  <2>2. /\ BoundsOnDevice' = BoundsOnDevice /\ RowsOfBatch' = RowsOfBatch
        /\ OnGraph' = OnGraph /\ BatchIds' = BatchIds /\ Bounds' = Bounds
    BY <1>1, <1>4, SameBatch DEF BoundsOnDevice, RowsOfBatch
  <2>3. step = "sync" => stream'[Len(stream')] = Bounds /\ stream' # <<>>
    <3>1. step = "sync" => stream[Len(stream)] = Bounds
      BY <1>1 DEF GraphInv, Progress
    <3>2. Head(stream) # Bounds
      BY <1>3 DEF Bounds
    <3>3. QED
      BY <1>1, <1>2, <3>1, <3>2, LastBehindHead
  <2>4. step = "forward" => stream' = <<>> /\ RowsOnDevice(batch.ids, RowsOfBatch)'
    <3>1. SUFFICES ASSUME step = "forward"
                   PROVE  stream' = <<>> /\ RowsOnDevice(batch.ids, RowsOfBatch)'
      OBVIOUS
    <3>2. OnGraph /\ stream = <<[op |-> "rows", rows |-> RowsOfBatch]>>
      BY <1>1, <3>1 DEF GraphInv, Progress
    <3>3. stream' = <<>> /\ k.rows = RowsOfBatch
      BY <1>1, <3>2
    <3>4. DOMAIN batch.ids \subseteq Slots(MaxBs) /\ DOMAIN RowsOfBatch = DOMAIN batch.ids
      BY <3>2 DEF GraphInv, Books, RowsOfBatch
    <3>5. QED
      BY <1>1, <1>5, <2>2, <3>3, <3>4 DEF RowsOnDevice
  <2>5. QED
    BY <1>1, <2>1, <2>2, <2>3, <2>4 DEF GraphInv, Progress
<1>8. StreamOK'
  <2>1. ASSUME NEW i \in 1 .. Len(stream'), stream'[i].op = "graph"
        PROVE  GraphReady(i)'
    <3>1. /\ DOMAIN stream'[i].ids \subseteq Slots(MaxBs)
          /\ DOMAIN stream'[i].rows = DOMAIN stream'[i].ids
          /\ i = 1 => k = [op |-> "rows", rows |-> stream'[i].rows]
      BY <1>1, <1>2, <2>1, GraphBehindHead
    <3>2. i = 1 => \A j \in DOMAIN stream'[i].ids : dev'.rows[j] = stream'[i].rows[j]
      BY <1>5, <3>1
    <3>3. QED
      BY <1>1, <1>2, <1>4, <2>1, <3>2, GraphBehindHead DEF GraphReady, RowsOnDevice
  <2>2. ASSUME NEW i \in 1 .. Len(stream'), stream'[i].op = "bounds"
        PROVE  step' = "sync" /\ i = Len(stream')
    BY <1>1, <1>2, <2>2, BoundsBehindHead
  <2>3. QED
    BY <1>1, <1>2, <2>1, <2>2, StreamTail DEF StreamOK
<1>9. RowsInFlightHeld'
  BY <1>1, <1>2, HeldBehindHead DEF GraphInv
<1>10. QED
  BY <1>6, <1>7, <1>8, <1>9 DEF GraphInv

--------------------------------------------------------------------------------

LEMMA GraphStep ==
  ASSUME RowPoolAssumption, GraphAssumption, GraphInv, [Next]_vars
  PROVE  GraphInv'
<1>1. CASE UNCHANGED vars
  BY <1>1, StutterStep
<1>2. CASE Sglang
  <2>1. CASE \E id \in Rids : Admit(id) \/ Finish(id)
    BY <2>1, RequestStep
  <2>2. CASE \E bs \in GraphSizes : CaptureGraph(bs)
    BY <2>2, CaptureStep
  <2>3. CASE \E S \in SUBSET Waiting \ {{}} : \E q \in Orders(S), p \in Prompts : StartPrefill(q, p)
    <3>1. Waiting \subseteq Rids
      BY DEF Waiting, GraphInv, Books
    <3>2. QED
      BY <2>3, <3>1, EagerStep
  <2>4. CASE \E q \in Orders(live) : StartEagerDecode(q) \/ \E bs \in GraphSizes : StartReplay(q, bs)
    <3>1. live \in SUBSET Rids
      BY DEF GraphInv, Books
    <3>2. QED
      BY <2>4, <3>1, EagerStep, ReplayStep
  <2>5. QED
    BY <1>2, <2>1, <2>2, <2>3, <2>4 DEF Sglang
<1>3. CASE Host
  BY <1>3, FillBoundsStep, ReadIdsStep, FillRowsStep, RowsStep, RaiseStep, LaunchGraphStep,
     LaunchPrefillStep DEF Host
<1>4. CASE Gpu
  <2>1. RunCopyToDevice => Head(stream).op \in {"bounds", "rows"}
    BY DEF RunCopyToDevice
  <2>2. QED
    BY <1>4, <2>1, RunBoundsStep, RunRowsStep, RunKernelStep DEF Gpu
<1>5. QED
  BY <1>1, <1>2, <1>3, <1>4 DEF Next

LEMMA GraphInvariant == Spec => []GraphInv
<1>1. Init => GraphInv
  BY GraphInit, RowPoolAssumption, GraphAssumption
<1>2. GraphInv /\ [Next]_vars => GraphInv'
  BY GraphStep, RowPoolAssumption, GraphAssumption
<1>3. QED
  BY <1>1, <1>2, PTL DEF Spec

(* However the host's work on a batch falls into the execution of the one  *)
(* before it, a graph kernel runs with the bounds and the rows of its own  *)
(* batch (_init_forward_metadata_decode_graph refills the tensors all      *)
(* replays share), and no waiting kernel's row is freed or given away.     *)
THEOREM GraphKernelsUndisturbed == Spec => []WaitingKernelsUndisturbed
<1>1. GraphInv => ReplaySeesItsBatch
  <2>1. SUFFICES ASSUME GraphInv, stream # <<>>, Head(stream).op = "graph"
                 PROVE  /\ dev.nPast = Head(stream).past \div Tile
                        /\ dev.slot = Head(stream).past % Tile
                        /\ \A i \in DOMAIN Head(stream).ids : dev.rows[i] = Head(stream).rows[i]
    BY DEF ReplaySeesItsBatch
  <2>2. PICK S : stream \in Seq(S)
    BY <2>1 DEF GraphInv, StreamOK
  <2>3. Head(stream) = stream[1] /\ 1 \in 1 .. Len(stream)
    BY <2>1, <2>2
  <2>4. GraphReady(1)
    BY <2>1, <2>3 DEF GraphInv, StreamOK
  <2>5. QED
    BY <2>3, <2>4 DEF GraphReady, RowsOnDevice
<1>2. GraphInv => WaitingKernelsUndisturbed
  BY <1>1 DEF GraphInv, WaitingKernelsUndisturbed
<1>3. QED
  BY <1>2, GraphInvariant, PTL

(* The active set is the set of ids with rows, and a graph batch that goes *)
(* forward is all there is of it: rows of the captures' dummy id and of    *)
(* ids that padded earlier replays have been returned.                     *)
THEOREM GraphRowsReturned == Spec => []OnlyBatchHoldsRows
<1>1. GraphInv => OnlyBatchHoldsRows
  BY DEF GraphInv, Books, Progress, OnlyBatchHoldsRows
<1>2. QED
  BY <1>1, GraphInvariant, PTL

(* Capture, replay and prefill leave the pool consistent: no row is owned  *)
(* twice or both owned and free (DirectKVRequestPool under the graph path).*)
THEOREM GraphRowsOwned == Spec => [](BooksOK /\ RowOwnership)
<1>1. GraphInv => BooksOK /\ RowOwnership
  BY DEF GraphInv, Books
<1>2. QED
  BY <1>1, GraphInvariant, PTL

--------------------------------------------------------------------------------

(* A set of naturals has a least element.                                  *)
LEMMA LeastNatural ==
  ASSUME NEW T \in SUBSET Nat, T # {}
  PROVE  \E m \in T : \A n \in T : m <= n
<1> DEFINE R == OpToRel(<, Nat)
<1>1. IsWellFoundedOn(R, Nat)
  BY NatLessThanWellFounded
<1>2. R = {ss \in Nat \X Nat : ss[1] < ss[2]}
  BY DEF OpToRel
<1> HIDE DEF R
<1>3. PICK m \in T : \A n \in T : <<n, m>> \notin R
  BY <1>1, WFMin
<1>4. \A n \in T : ~ (n < m)
  BY <1>2, <1>3
<1>5. QED
  BY <1>4

(* Division by the tile: a position's tile, and its place in it.           *)
LEMMA TileOf ==
  ASSUME RowPoolAssumption, NEW x \in 0 .. MaxSeq
  PROVE  x \div Tile \in 0 .. MaxSeq \div Tile /\ x % Tile \in 0 .. Tile - 1
BY DEF RowPoolAssumption

LEMMA WholeTiles ==
  ASSUME RowPoolAssumption, NEW n \in 0 .. MaxSeq \div Tile
  PROVE  n * Tile \in Nat /\ n * Tile <= MaxSeq
BY DEF RowPoolAssumption

LEMMA TileFits ==
  ASSUME RowPoolAssumption
  PROVE  Tile \in 1 .. MaxSeq
BY DEF RowPoolAssumption

--------------------------------------------------------------------------------
(* Types.  What the device ends up with comes from work launched earlier,  *)
(* and the positions a kernel writes from the lengths of its batch: the    *)
(* type of one says something of the type of the other.                    *)

BatchTypes ==
  /\ DOMAIN batch.seqlens = DOMAIN batch.ids
  /\ Slots(batch.real) \subseteq DOMAIN batch.ids
  /\ \A i \in DOMAIN batch.ids : batch.seqlens[i] \in 1 .. MaxSeq
  /\ OnGraph => 1 \in DOMAIN batch.ids
  /\ step \in {"bounds", "sync", "rows", "forward"} /\ OnGraph =>
       \A i \in Slots(batch.real) : len[batch.ids[i]] < MaxSeq

\* Work as launched, whatever the state it is run in.
WorkTyped(w) ==
  /\ w.op = "bounds" => w.nPast \in 0 .. MaxSeq \div Tile /\ w.slot \in 0 .. Tile - 1
  /\ w.op = "rows" => \A i \in DOMAIN w.rows : w.rows[i] \in Rows
  /\ w.op = "prefill" => w.ids[1] \in Rids
  /\ w.op = "graph" => \A i \in DOMAIN w.ids : w.ids[i] \in Rids /\ w.seqlens[i] \in 1 .. MaxSeq

StreamTyped == \A i \in 1 .. Len(stream) : WorkTyped(stream[i])

\* What the GPU's memory holds.
Memory ==
  /\ kv \in [Rows -> [Pos -> Content]]
  /\ copy \in [Rows -> [CopyPos -> Content]]
  /\ dev \in [nPast: 0 .. MaxSeq \div Tile, slot: 0 .. Tile - 1, rows: [Slots(MaxBs) -> Rows]]
  /\ \A id \in Rids : DOMAIN ctx[id] \subseteq CopyPos

HostTypes ==
  /\ len \in [Rids -> 0 .. MaxSeq]
  /\ step \in {"idle", "bounds", "sync", "rows", "forward", "failed"}
  /\ BatchTypes

Typed == HostTypes /\ StreamTyped /\ Memory

(* The longest past of a batch that has a slot is one of its pasts.        *)
LEMMA LongestPast ==
  ASSUME RowPoolAssumption, BatchTypes, 1 \in DOMAIN batch.ids
  PROVE  /\ MaxPast \in 0 .. MaxSeq - 1
         /\ MaxPast \div Tile \in 0 .. MaxSeq \div Tile /\ MaxPast % Tile \in 0 .. Tile - 1
<1> DEFINE pasts == {batch.seqlens[i] - 1 : i \in DOMAIN batch.seqlens}
           gaps == {MaxSeq - s : s \in pasts}
<1>1. MaxSeq \in Nat \ {0}
  BY DEF RowPoolAssumption
<1>2. \A s \in pasts : s \in 0 .. MaxSeq - 1
  BY <1>1 DEF BatchTypes
<1>3. gaps \in SUBSET Nat /\ gaps # {}
  BY <1>1, <1>2 DEF BatchTypes
<1>4. PICK g \in gaps : \A h \in gaps : g <= h
  BY <1>3, LeastNatural
<1>5. PICK s \in pasts : g = MaxSeq - s
  BY <1>4
<1>6. ASSUME NEW t \in pasts  PROVE t <= s
  <2>1. s \in Int /\ t \in Int /\ MaxSeq \in Int
    BY <1>1, <1>2
  <2>2. MaxSeq - t \in gaps
    OBVIOUS
  <2>3. MaxSeq - s <= MaxSeq - t
    BY <1>4, <1>5, <2>2
  <2>4. QED
    BY <2>1, <2>3
<1>7. \A i \in DOMAIN batch.seqlens : batch.seqlens[i] - 1 <= s
  BY <1>6
<1>8. MaxPast \in pasts
  BY <1>5, <1>7 DEF MaxPast
<1>9. MaxPast \in 0 .. MaxSeq - 1
  BY <1>2, <1>8
<1>10. MaxPast \in 0 .. MaxSeq
  BY <1>1, <1>9
<1>11. QED
  BY <1>9, <1>10, TileOf

LEMMA BatchTypesKept ==
  ASSUME BatchTypes, UNCHANGED <<batch, len>>,
         step' \in {"bounds", "sync", "rows", "forward"} =>
           step \in {"bounds", "sync", "rows", "forward"}
  PROVE  BatchTypes'
BY SameBatch DEF BatchTypes

LEMMA MemoryKept == Memory /\ UNCHANGED <<kv, copy, dev, ctx>> => Memory'
BY DEF Memory

LEMMA AppendTyped ==
  ASSUME StreamOK, StreamTyped, NEW e, stream' = Append(stream, e), WorkTyped(e)
  PROVE  StreamTyped'
BY StreamAppend DEF StreamTyped

LEMMA TailTyped ==
  ASSUME StreamOK, StreamTyped, stream # <<>>, stream' = Tail(stream)
  PROVE  StreamTyped' /\ WorkTyped(Head(stream))
<1>1. \A i \in 1 .. Len(stream') : i + 1 \in 1 .. Len(stream) /\ stream'[i] = stream[i + 1]
  BY StreamTail
<1>2. Head(stream) = stream[1] /\ 1 \in 1 .. Len(stream)
  BY StreamTail
<1>3. QED
  BY <1>1, <1>2 DEF StreamTyped

LEMMA TypedInit == RowPoolAssumption /\ GraphAssumption /\ Init => Typed
<1> SUFFICES ASSUME RowPoolAssumption, GraphAssumption, Init
             PROVE  Typed
  OBVIOUS
<1>1. MaxSeq \in Nat \ {0} /\ Tile \in 1 .. MaxSeq
  BY TileFits DEF RowPoolAssumption
<1>2. HostTypes
  <2>1. len \in [Rids -> 0 .. MaxSeq]
    BY <1>1 DEF Init
  <2>2. BatchTypes
    BY DEF Init, BatchTypes, NoBatch, Slots, OnGraph
  <2>3. QED
    BY <2>1, <2>2 DEF Init, HostTypes
<1>3. StreamTyped
  BY DEF Init, StreamTyped
<1>4. Memory
  <2>1. kv \in [Rows -> [Pos -> Content]] /\ copy \in [Rows -> [CopyPos -> Content]]
    BY DEF Init, PoolInit, ZeroRow, Content
  <2>2. 0 \in 0 .. MaxSeq \div Tile /\ (Fill - 1) % Tile \in 0 .. Tile - 1
    <3>1. 0 \in 0 .. MaxSeq /\ Tile - 1 \in 0 .. MaxSeq
      BY <1>1
    <3>2. QED
      BY <3>1, TileOf, <1>1 DEF Fill
  <2>3. 0 \in Rows
    BY DEF RowPoolAssumption, Rows
  <2>4. QED
    BY <2>1, <2>2, <2>3 DEF Init, Memory
<1>5. QED
  BY <1>2, <1>3, <1>4 DEF Typed

--------------------------------------------------------------------------------

LEMMA RequestTypes ==
  ASSUME GraphInv, Typed, NEW id \in Rids, Admit(id) \/ Finish(id)
  PROVE  Typed'
<1>1. /\ step = "idle" /\ UNCHANGED <<step, batch, stream, kv, copy, dev, ctx>>
      /\ len' = len \/ len' = [len EXCEPT ![id] = 0]
  BY DEF Admit, Finish, poolVars, hostVars, gpuVars
<1>2. len' \in [Rids -> 0 .. MaxSeq]
  BY <1>1, RowPoolAssumption DEF Typed, HostTypes, RowPoolAssumption
<1>3. BatchTypes'
  BY <1>1, SameBatch DEF Typed, HostTypes, BatchTypes
<1>4. QED
  BY <1>1, <1>2, <1>3, MemoryKept DEF Typed, HostTypes, StreamTyped

LEMMA CaptureTypes ==
  ASSUME GraphInv, Typed, NEW bs \in GraphSizes, CaptureGraph(bs)
  PROVE  Typed'
<1>1. /\ step' = "bounds" /\ batch'.ids = SubSeq(buf, 1, bs) /\ batch'.real = 0
      /\ batch'.seqlens = [i \in Slots(bs) |-> Fill]
      /\ UNCHANGED <<len, stream, kv, copy, dev, ctx>>
  BY DEF CaptureGraph, poolVars, reqVars, gpuVars
<1>2. DOMAIN batch'.ids = Slots(bs) /\ 1 \in Slots(bs)
  BY <1>1, Prefix, GraphAssumption DEF GraphInv, Books
<1>3. Fill \in 1 .. MaxSeq
  BY TileFits, RowPoolAssumption DEF Fill
<1>4. BatchTypes'
  <2>1. Slots(batch'.real) = {}
    BY <1>1 DEF Slots
  <2>2. QED
    BY <1>1, <1>2, <1>3, <2>1 DEF BatchTypes
<1>5. QED
  BY <1>1, <1>4, MemoryKept DEF Typed, HostTypes, StreamTyped

(* The ids of a batch that is an order of a set of ids.                    *)
LEMMA OrderSlots ==
  ASSUME GraphAssumption, NEW S \in SUBSET Rids, NEW q \in Orders(S)
  PROVE  /\ Len(q) \in Nat /\ DOMAIN q = Slots(Len(q))
         /\ \A i \in DOMAIN q : q[i] \in S
<1>1. q \in Seq(Rids)
  BY OrderIsSeq
<1>2. q \in [Slots(Cardinality(S)) -> S]
  BY DEF Orders
<1>3. QED
  BY <1>1, <1>2 DEF Slots

LEMMA PrefillTypes ==
  ASSUME GraphInv, Typed, NEW S \in SUBSET Rids, NEW q \in Orders(S), NEW p \in Prompts,
         StartPrefill(q, p)
  PROVE  Typed'
<1>1. /\ step' = "rows" /\ ctx' = [id \in Rids |-> <<>>]
      /\ batch' = [kind |-> "extend", ids |-> q, real |-> Len(q), seqlens |-> [i \in DOMAIN q |-> p]]
      /\ UNCHANGED <<len, stream, kv, copy, dev>>
  BY DEF StartPrefill, poolVars, reqVars
<1>2. p \in 1 .. MaxSeq
  BY GraphAssumption, RowPoolAssumption DEF GraphAssumption, RowPoolAssumption
<1>3. BatchTypes'
  <2>1. Slots(Len(q)) = DOMAIN q
    BY OrderSlots, GraphAssumption
  <2>2. QED
    BY <1>1, <1>2, <2>1 DEF BatchTypes, OnGraph
<1>4. Memory'
  BY <1>1 DEF Typed, Memory
<1>5. QED
  BY <1>1, <1>3, <1>4 DEF Typed, HostTypes, StreamTyped

(* A decode batch is one of requests that have room for a token.           *)
LEMMA DecodeTypes ==
  ASSUME GraphInv, Typed, NEW q \in Orders(live), NEW bs \in GraphSizes,
         StartEagerDecode(q) \/ StartReplay(q, bs)
  PROVE  Typed'
<1> DEFINE n == Len(q)
<1>1. /\ UNCHANGED <<len, stream, kv, copy, dev, ctx>>
      /\ step' \in {"rows", "bounds"}
  BY DEF StartEagerDecode, StartReplay, poolVars, reqVars, gpuVars
<1>2. live \in SUBSET Rids /\ buf \in [Slots(MaxBs) -> Rids] /\ len \in [Rids -> 0 .. MaxSeq]
  BY DEF GraphInv, Books, Typed, HostTypes
<1>3. n \in Nat /\ DOMAIN q = Slots(n) /\ \A i \in Slots(n) : q[i] \in live
  BY <1>2, OrderSlots, GraphAssumption
<1>4. \A i \in Slots(n) : len[q[i]] < MaxSeq /\ len[q[i]] + 1 \in 1 .. MaxSeq
  <2>1. \A id \in live : len[id] < MaxSeq /\ len[id] \in Nat
    BY <1>2 DEF StartEagerDecode, StartReplay, Decodable
  <2>2. MaxSeq \in Nat
    BY RowPoolAssumption DEF RowPoolAssumption
  <2>3. QED
    BY <1>3, <2>1, <2>2
<1>5. Fill \in 1 .. MaxSeq
  BY TileFits, RowPoolAssumption DEF Fill
<1>6. BatchTypes'
  <2>1. CASE StartEagerDecode(q)
    <3>1. batch' = [kind |-> "eager", ids |-> q, real |-> n,
                    seqlens |-> [i \in DOMAIN q |-> len[q[i]] + 1]]
      BY <2>1 DEF StartEagerDecode
    <3>2. QED
      BY <1>3, <1>4, <3>1 DEF BatchTypes, OnGraph
  <2>2. CASE StartReplay(q, bs)
    <3> DEFINE ids == [i \in Slots(MaxBs) |-> IF i <= n THEN q[i] ELSE buf[i]]
    <3>1. /\ batch'.kind = "replay" /\ batch'.ids = SubSeq(ids, 1, bs) /\ batch'.real = n
          /\ batch'.seqlens = [i \in Slots(bs) |-> IF i <= n THEN len[q[i]] + 1 ELSE Fill]
          /\ n <= bs
      BY <2>2 DEF StartReplay
    <3>2. ids \in [Slots(MaxBs) -> Rids]
      BY <1>2, <1>3 DEF Slots
    <3>3. Slots(n) \subseteq Slots(bs) /\ Slots(bs) \subseteq Slots(MaxBs) /\ \A i \in Slots(n) : i <= n
      BY <1>3, <3>1, GraphAssumption DEF Slots, GraphAssumption
    <3>4. \A i \in Slots(n) : ids[i] = q[i]
      BY <3>3
    <3> HIDE DEF ids
    <3>5. /\ DOMAIN batch'.ids = Slots(bs) /\ 1 \in Slots(bs) /\ Slots(bs) \subseteq Slots(MaxBs)
          /\ \A i \in Slots(bs) : batch'.ids[i] = ids[i]
      BY <3>1, <3>2, Prefix, GraphAssumption
    <3>6. \A i \in Slots(bs) : i <= n => i \in Slots(n)
      BY <1>3 DEF Slots
    <3>7. \A i \in Slots(bs) : batch'.seqlens[i] \in 1 .. MaxSeq
      BY <1>4, <1>5, <3>1, <3>6
    <3>8. \A i \in Slots(n) : len[batch'.ids[i]] < MaxSeq
      BY <1>4, <3>5, <3>3, <3>4
    <3>9. DOMAIN batch'.seqlens = Slots(bs)
      BY <3>1
    <3>10. QED
      BY <1>1, <3>1, <3>5, <3>3, <3>7, <3>8, <3>9 DEF BatchTypes
  <2>3. QED
    BY <2>1, <2>2
<1>7. QED
  BY <1>1, <1>6, MemoryKept DEF Typed, HostTypes, StreamTyped

--------------------------------------------------------------------------------

LEMMA BoundsTypes ==
  ASSUME GraphInv, Typed, FillBounds
  PROVE  Typed'
<1>1. /\ step = "bounds" /\ step' = "sync" /\ stream' = Append(stream, Bounds)
      /\ UNCHANGED <<len, batch, kv, copy, dev, ctx>>
  BY DEF FillBounds, Bounds, poolVars, reqVars
<1>2. 1 \in DOMAIN batch.ids /\ BatchTypes
  BY <1>1 DEF GraphInv, Progress, Typed, HostTypes, BatchTypes
<1>3. WorkTyped(Bounds)
  BY <1>2, LongestPast, RowPoolAssumption DEF WorkTyped, Bounds
<1>4. StreamTyped'
  BY <1>1, <1>3, AppendTyped DEF GraphInv, Typed
<1>5. QED
  BY <1>1, <1>2, <1>4, BatchTypesKept, MemoryKept DEF Typed, HostTypes

(* Steps that launch nothing and leave the batch alone.                    *)
LEMMA HostTypesKept ==
  ASSUME GraphInv, Typed, NEW id \in Rids,
         ReadIds \/ Release(id) \/ AllocRow(id) \/ AllocFails(id) \/ EagerDecodeRaises
  PROVE  Typed'
<1>1. /\ UNCHANGED <<len, batch, stream, copy, dev, ctx>>
      /\ step \in {"sync", "rows"} /\ step' \in {"rows", "failed"}
  BY DEF ReadIds, Release, AllocRow, AllocFails, EagerDecodeRaises, reqVars, gpuVars
<1>2. kv' \in [Rows -> [Pos -> Content]]
  <2>1. kv \in [Rows -> [Pos -> Content]] /\ ZeroRow \in [Pos -> Content]
    BY DEF Typed, Memory, ZeroRow, Content
  <2>2. kv' = kv \/ \E row : kv' = [kv EXCEPT ![row] = ZeroRow]
    BY DEF ReadIds, Release, AllocRow, AllocFails, EagerDecodeRaises, Free, Alloc, poolVars
  <2>3. QED
    BY <2>1, <2>2
<1>3. Memory'
  BY <1>1, <1>2 DEF Typed, Memory
<1>4. BatchTypes'
  BY <1>1, BatchTypesKept DEF Typed, HostTypes
<1>5. QED
  BY <1>1, <1>3, <1>4 DEF Typed, HostTypes, StreamTyped

LEMMA FillRowsTypes ==
  ASSUME GraphInv, Typed, FillRows
  PROVE  Typed'
<1> DEFINE e == [op |-> "rows", rows |-> RowsOfBatch]
<1>1. /\ step = "rows" /\ step' = "forward" /\ BatchIds \subseteq active
      /\ stream' = Append(stream, e)
      /\ UNCHANGED <<len, batch, kv, copy, dev, ctx>>
  BY DEF FillRows, poolVars, reqVars
<1>2. \A i \in DOMAIN batch.ids : rowOf[batch.ids[i]] \in Rows
  BY <1>1 DEF GraphInv, Books, BooksOK, Mapped, BatchIds
<1>3. WorkTyped(e)
  BY <1>2 DEF WorkTyped, RowsOfBatch
<1>4. StreamTyped'
  BY <1>1, <1>3, AppendTyped DEF GraphInv, Typed
<1>5. QED
  BY <1>1, <1>4, BatchTypesKept, MemoryKept DEF Typed, HostTypes

(* A token more for each request of the batch: the replay was started with *)
(* room for it.                                                            *)
LEMMA LaunchGraphTypes ==
  ASSUME GraphInv, Typed, LaunchGraph
  PROVE  Typed'
<1> DEFINE e == [op |-> "graph", ids |-> batch.ids, real |-> batch.real,
                 seqlens |-> batch.seqlens, past |-> MaxPast, rows |-> RowsOfBatch]
<1>1. /\ step = "forward" /\ step' = "idle" /\ stream' = Append(stream, e)
      /\ len' = [id \in Rids |->
                   IF \E i \in Slots(batch.real) : batch.ids[i] = id THEN len[id] + 1 ELSE len[id]]
      /\ UNCHANGED <<batch, kv, copy, dev, ctx>>
  BY DEF LaunchGraph, poolVars
<1>2. BatchTypes /\ len \in [Rids -> 0 .. MaxSeq] /\ MaxSeq \in Nat
  BY RowPoolAssumption DEF Typed, HostTypes, RowPoolAssumption
<1>3. OnGraph
  BY <1>1 DEF GraphInv, Progress
<1>4. \A i \in Slots(batch.real) : len[batch.ids[i]] < MaxSeq
  BY <1>1, <1>2, <1>3 DEF BatchTypes
<1>5. len' \in [Rids -> 0 .. MaxSeq]
  BY <1>1, <1>2, <1>4
<1>6. BatchTypes'
  BY <1>1, <1>2, SameBatch DEF BatchTypes
<1>7. WorkTyped(e)
  <2>1. \A i \in DOMAIN batch.ids : batch.ids[i] \in Rids
    BY DEF GraphInv, Books
  <2>2. QED
    BY <1>2, <2>1 DEF WorkTyped, BatchTypes
<1>8. StreamTyped'
  BY <1>1, <1>7, AppendTyped DEF GraphInv, Typed
<1>9. QED
  BY <1>1, <1>5, <1>6, <1>8, MemoryKept DEF Typed, HostTypes

LEMMA LaunchPrefillTypes ==
  ASSUME GraphInv, Typed, LaunchPrefill
  PROVE  Typed'
<1> DEFINE work == [i \in DOMAIN batch.ids |->
                      [op |-> "prefill", ids |-> <<batch.ids[i]>>,
                       rows |-> <<rowOf[batch.ids[i]]>>, n |-> batch.seqlens[i]]]
<1>1. /\ step = "rows" /\ step' = "idle" /\ stream' = stream \o work
      /\ len' = [id \in Rids |-> IF id \in BatchIds THEN batch.seqlens[1] ELSE len[id]]
      /\ UNCHANGED <<batch, kv, copy, dev, ctx>>
  BY DEF LaunchPrefill, poolVars
<1>2. stream = <<>> /\ batch.ids \in Seq(Rids)
  BY <1>1 DEF GraphInv, Progress, Books
<1>3. BatchTypes /\ len \in [Rids -> 0 .. MaxSeq] /\ MaxSeq \in Nat
  BY RowPoolAssumption DEF Typed, HostTypes, RowPoolAssumption
<1>4. BatchIds # {} => batch.seqlens[1] \in 1 .. MaxSeq
  <2>1. BatchIds # {} => 1 \in DOMAIN batch.ids
    BY <1>2 DEF BatchIds
  <2>2. QED
    BY <1>3, <2>1 DEF BatchTypes
<1>5. len' \in [Rids -> 0 .. MaxSeq]
  BY <1>1, <1>3, <1>4
<1>6. BatchTypes'
  BY <1>1, <1>3, SameBatch DEF BatchTypes
<1>7. StreamTyped'
  <2>1. work \in Seq({work[i] : i \in DOMAIN batch.ids}) /\ DOMAIN work = DOMAIN batch.ids
    BY <1>2
  <2>2. stream' = work
    BY <1>1, <1>2, <2>1, ConcatEmptySeq
  <2>3. DOMAIN work = 1 .. Len(work)
    BY <2>1
  <2>4. ASSUME NEW i \in DOMAIN batch.ids
        PROVE  WorkTyped(work[i])
    <3>1. batch.ids[i] \in Rids
      BY <1>2
    <3>2. QED
      BY <3>1 DEF WorkTyped
  <2> HIDE DEF work
  <2>5. QED
    BY <2>1, <2>2, <2>3, <2>4 DEF StreamTyped
<1>8. QED
  BY <1>1, <1>5, <1>6, <1>7, MemoryKept DEF Typed, HostTypes

--------------------------------------------------------------------------------

LEMMA CopyToDeviceTypes ==
  ASSUME GraphInv, Typed, RunCopyToDevice
  PROVE  Typed'
<1> DEFINE k == Head(stream)
<1>1. /\ stream # <<>> /\ stream' = Tail(stream)
      /\ UNCHANGED <<len, step, batch, kv, copy, ctx>>
  BY DEF RunCopyToDevice, poolVars, reqVars, hostVars
<1>2. StreamTyped' /\ WorkTyped(k)
  BY <1>1, TailTyped DEF GraphInv, Typed
<1>3. dev \in [nPast: 0 .. MaxSeq \div Tile, slot: 0 .. Tile - 1, rows: [Slots(MaxBs) -> Rows]]
  BY DEF Typed, Memory
<1>4. dev' \in [nPast: 0 .. MaxSeq \div Tile, slot: 0 .. Tile - 1, rows: [Slots(MaxBs) -> Rows]]
  <2>1. CASE k.op = "bounds" /\ dev' = [dev EXCEPT !.nPast = k.nPast, !.slot = k.slot]
    BY <1>2, <1>3, <2>1 DEF WorkTyped
  <2>2. CASE k.op = "rows" /\ dev' = [dev EXCEPT !.rows = [i \in Slots(MaxBs) |->
                                        IF i \in DOMAIN k.rows THEN k.rows[i] ELSE dev.rows[i]]]
    BY <1>2, <1>3, <2>2 DEF WorkTyped
  <2>3. QED
    BY <2>1, <2>2 DEF RunCopyToDevice
<1>5. Memory'
  BY <1>1, <1>4 DEF Typed, Memory
<1>6. QED
  BY <1>1, <1>2, <1>5, BatchTypesKept DEF Typed, HostTypes

LEMMA TokTyped ==
  ASSUME RowPoolAssumption, NEW id \in Rids, NEW p \in 0 .. MaxSeq - 1
  PROVE  Tok(id, p) \in Content
<1>1. p \in CopyPos
  BY DEF RowPoolAssumption, CopyPos
<1>2. QED
  BY <1>1 DEF Content

LEMMA PrefillRunTypes ==
  ASSUME GraphInv, Typed, RunPrefill
  PROVE  Typed'
<1> DEFINE k == Head(stream)
           stored == [p \in Pos |-> IF p \in 0 .. 0 + k.n - 1
                                    THEN [q \in Pos |-> Tok(k.ids[1], q)][p] ELSE kv[k.rows[1]][p]]
<1>1. /\ stream # <<>> /\ stream' = Tail(stream) /\ k.op = "prefill"
      /\ kv' = [kv EXCEPT ![k.rows[1]] = stored]
      /\ UNCHANGED <<len, step, batch, copy, dev, ctx>>
  BY DEF RunPrefill, Store, reqVars, hostVars
<1>2. StreamTyped' /\ k.ids[1] \in Rids
  BY <1>1, TailTyped DEF GraphInv, Typed, WorkTyped
<1>3. kv' \in [Rows -> [Pos -> Content]]
  <2>1. kv \in [Rows -> [Pos -> Content]]
    BY DEF Typed, Memory
  <2>2. \A p \in Pos : Tok(k.ids[1], p) \in Content
    BY <1>2, TokTyped, RowPoolAssumption DEF Pos
  <2>3. k.rows[1] \in Rows => stored \in [Pos -> Content]
    BY <2>1, <2>2
  <2> HIDE DEF stored
  <2>4. QED
    BY <1>1, <2>1, <2>3
<1>4. Memory'
  BY <1>1, <1>3 DEF Typed, Memory
<1>5. QED
  BY <1>1, <1>2, <1>4, BatchTypesKept DEF Typed, HostTypes

(* A kernel looks no further than a tile behind the row, where the copy    *)
(* still has positions: the new tile of a request at the end of its row.   *)
LEMMA GraphRunTypes ==
  ASSUME GraphInv, Typed, RunGraph
  PROVE  Typed'
<1> DEFINE k == Head(stream)
           slots == DOMAIN k.ids
           window == 0 .. dev.nPast * Tile + dev.slot
<1>1. /\ stream # <<>> /\ stream' = Tail(stream) /\ k.op = "graph"
      /\ UNCHANGED <<len, step, batch, kv, dev>>
  BY DEF RunGraph, poolVars, reqVars, hostVars
<1>2. StreamTyped' /\ \A i \in slots : k.ids[i] \in Rids /\ k.seqlens[i] \in 1 .. MaxSeq
  BY <1>1, TailTyped DEF GraphInv, Typed, WorkTyped
<1>3. copy \in [Rows -> [CopyPos -> Content]]
  BY DEF Typed, Memory
<1>4. copy' \in [Rows -> [CopyPos -> Content]]
  <2>1. PICK last \in [{dev.rows[i] : i \in slots} -> slots] :
          copy' = [row \in Rows |->
            IF row \notin DOMAIN last THEN copy[row]
            ELSE [p \in CopyPos |-> IF p \in DOMAIN NewTile(k, last[row])
                                    THEN NewTile(k, last[row])[p] ELSE copy[row][p]]]
    BY DEF RunGraph
  <2>2. ASSUME NEW i \in slots, NEW p \in DOMAIN NewTile(k, i)
        PROVE  NewTile(k, i)[p] \in Content
    <3>1. k.ids[i] \in Rids /\ k.seqlens[i] - 1 \in 0 .. MaxSeq - 1
      BY <1>2, RowPoolAssumption DEF RowPoolAssumption
    <3>2. Tok(k.ids[i], k.seqlens[i] - 1) \in Content
      BY <3>1, TokTyped, RowPoolAssumption
    <3>3. Zero \in Content /\ Junk \in Content
      BY DEF Content
    <3>4. QED
      BY <2>2, <3>2, <3>3 DEF NewTile
  <2>3. ASSUME NEW row \in Rows
        PROVE  copy'[row] \in [CopyPos -> Content]
    BY <1>3, <2>1, <2>2
  <2>4. QED
    BY <2>1, <2>3
<1>5. window \subseteq CopyPos
  <2>1. dev.nPast \in 0 .. MaxSeq \div Tile /\ dev.slot \in 0 .. Tile - 1
    BY DEF Typed, Memory
  <2>2. dev.nPast * Tile \in Nat /\ dev.nPast * Tile <= MaxSeq
    BY <2>1, WholeTiles, RowPoolAssumption
  <2>3. QED
    BY <2>1, <2>2, RowPoolAssumption DEF RowPoolAssumption, CopyPos
<1>6. \A id \in Rids : DOMAIN ctx'[id] \subseteq CopyPos
  <2> SUFFICES ASSUME NEW id \in Rids PROVE DOMAIN ctx'[id] \subseteq CopyPos
    OBVIOUS
  <2>1. CASE id \notin {k.ids[i] : i \in Slots(k.real)}
    <3>1. ctx'[id] = <<>>
      BY <2>1 DEF RunGraph
    <3>2. QED
      BY <3>1
  <2>2. CASE id \in {k.ids[i] : i \in Slots(k.real)}
    <3>1. DOMAIN ctx'[id] = window
      BY <2>2 DEF RunGraph
    <3>2. QED
      BY <1>5, <3>1
  <2>3. QED
    BY <2>1, <2>2
<1>7. Memory'
  BY <1>1, <1>4, <1>6 DEF Typed, Memory
<1>8. QED
  BY <1>1, <1>2, <1>7, BatchTypesKept DEF Typed, HostTypes

--------------------------------------------------------------------------------

LEMMA TypedStep ==
  ASSUME GraphInv, Typed, [Next]_vars
  PROVE  Typed'
<1>1. CASE UNCHANGED vars
  <2>1. UNCHANGED <<len, step, batch, stream, kv, copy, dev, ctx>>
    BY <1>1 DEF vars, poolVars, reqVars, hostVars, gpuVars
  <2>2. QED
    BY <2>1, BatchTypesKept, MemoryKept DEF Typed, HostTypes, StreamTyped
<1>2. CASE Sglang
  <2>1. Waiting \subseteq Rids /\ live \in SUBSET Rids
    BY DEF Waiting, GraphInv, Books
  <2>2. ASSUME NEW q \in Orders(live), StartEagerDecode(q)
        PROVE  Typed'
    BY <2>1, <2>2, DecodeTypes, GraphAssumption DEF GraphAssumption
  <2>3. QED
    BY <1>2, <2>1, <2>2, RequestTypes, CaptureTypes, PrefillTypes, DecodeTypes DEF Sglang
<1>3. CASE Host
  <2>1. ReadIds \/ EagerDecodeRaises => Typed'
    BY HostTypesKept, GraphAssumption DEF GraphAssumption
  <2>2. QED
    BY <1>3, <2>1, BoundsTypes, HostTypesKept, FillRowsTypes, LaunchGraphTypes,
       LaunchPrefillTypes DEF Host
<1>4. CASE Gpu
  BY <1>4, CopyToDeviceTypes, PrefillRunTypes, GraphRunTypes DEF Gpu
<1>5. QED
  BY <1>1, <1>2, <1>3, <1>4 DEF Next

(* The graph path never leaves its types; what there is to it are the      *)
(* bounds: no length passes max_seqlen_pad, the tile and slot numbers on   *)
(* the device stay within a row, and what a replayed kernel reads stays    *)
(* within the padded copy of it.                                           *)
THEOREM GraphTypes == Spec => []TypeOK
<1>1. GraphInv /\ Typed => TypeOK
  BY DEF GraphInv, Books, BooksOK, Mapped, Typed, HostTypes, Memory, TypeOK
<1>2. Init => Typed
  BY TypedInit, RowPoolAssumption, GraphAssumption
<1>3. GraphInv /\ Typed /\ [Next]_vars => Typed'
  BY TypedStep
<1>4. QED
  BY <1>1, <1>2, <1>3, GraphInvariant, PTL DEF Spec

--------------------------------------------------------------------------------
\* The start of the server, for every argument, model, order of imports and
\* file system.

(* Without another package that brings the names it imports, the "directkv" *)
(* backend cannot be constructed: the only backend that comes up is         *)
(* "directkv-smpv2", for models with heads of 128 and bfloat16 weights, and *)
(* never over a radix cache.  CUDA graphs are therefore on only with it.    *)
THEOREM OnlySmpV2Starts ==
  ASSUME NEW reg, NEW args, args.backend \in Backends, args.ext = {},
         CreateBackend(reg, args) = "created"
  PROVE  /\ args.backend = "directkv-smpv2"
         /\ args.headDim = 128 /\ args.dtype = "bfloat16"
         /\ args.disableRadixCache
<1>1. args.backend \in reg.backends \/ reg.modelRunner
  BY DEF CreateBackend
<1>2. ~FactoryRaises(args) /\ ~CheckArgsRaises(args)
  BY <1>1 DEF CreateBackend
<1>3. KernelFound(args)
  BY <1>1, <1>2 DEF CreateBackend
<1>4. args.backend # "directkv"
  <2>1. SUFFICES ASSUME args.backend = "directkv" PROVE FALSE
    OBVIOUS
  <2>2. "directkv_init_tma" \in KernelNames(args.backend)
    BY <2>1 DEF KernelNames
  <2>3. "directkv_init_tma" \notin Exports
    BY DEF Exports
  <2> QED BY <1>3, <2>2, <2>3 DEF KernelFound
<1> QED BY <1>2, <1>4 DEF Backends, CheckArgsRaises

(* A head's d-th row lies within the rows of its kind.                      *)
LEMMA RowOfHead ==
  ASSUME NEW n \in Nat, NEW D \in Nat, NEW h \in 0 .. n - 1, NEW d \in 0 .. D - 1
  PROVE  /\ h * D + d \in 0 .. n * D - 1
         /\ n * D \in Nat
<1>1. n * D \in Nat /\ h * D \in Nat
  OBVIOUS
<1>2. (h + 1) * D <= n * D
  OBVIOUS
<1>3. (h + 1) * D = h * D + D
  OBVIOUS
<1> QED BY <1>1, <1>2, <1>3

(* Two heads have no row in common.                                         *)
LEMMA RowsOfHeadsDiffer ==
  ASSUME NEW D \in Nat, NEW h \in Nat, NEW g \in Nat, NEW d \in 0 .. D - 1, NEW e \in 0 .. D - 1,
         h * D + d = g * D + e
  PROVE  h = g /\ d = e
<1>1. ASSUME NEW a \in Nat, NEW b \in Nat, a < b PROVE a * D + D <= b * D
  <2>1. (a + 1) * D <= b * D
    BY <1>1
  <2>2. (a + 1) * D = a * D + D
    OBVIOUS
  <2> QED BY <2>1, <2>2
<1>2. h * D \in Nat /\ g * D \in Nat
  OBVIOUS
<1>3. ~(h < g)
  <2>1. SUFFICES ASSUME h < g PROVE FALSE
    OBVIOUS
  <2>2. h * D + D <= g * D
    BY <1>1, <2>1
  <2> QED BY <1>2, <2>2
<1>4. ~(g < h)
  <2>1. SUFFICES ASSUME g < h PROVE FALSE
    OBVIOUS
  <2>2. g * D + D <= h * D
    BY <1>1, <2>1
  <2> QED BY <1>2, <2>2
<1>5. h = g
  BY <1>3, <1>4
<1> QED BY <1>2, <1>5

(* The slices _extract_weights takes of the fused weight: every head's K    *)
(* row comes after the Q rows, every V row after the K rows, none is past   *)
(* the end, and no two of them are the same row.                            *)
THEOREM WeightSlices ==
  ASSUME NEW args, args.numQHeads \in Nat, args.numKvHeads \in Nat, args.headDim \in Nat,
         NEW h \in 0 .. args.numKvHeads - 1, NEW g \in 0 .. args.numKvHeads - 1,
         NEW d \in 0 .. args.headDim - 1, NEW e \in 0 .. args.headDim - 1
  PROVE  /\ args.numQHeads * args.headDim <= KRow(args, h, d)
         /\ KRow(args, h, d) < VRow(args, g, e)
         /\ VRow(args, g, e) < QkvRows(args)
         /\ KRow(args, h, d) = KRow(args, g, e) => h = g /\ d = e
         /\ VRow(args, h, d) = VRow(args, g, e) => h = g /\ d = e
<1> DEFINE q == args.numQHeads
           n == args.numKvHeads
           D == args.headDim
<1>1. q * D \in Nat /\ h * D \in Nat /\ g * D \in Nat
  OBVIOUS
<1>2. h * D + d \in 0 .. n * D - 1 /\ n * D \in Nat
  BY RowOfHead
<1>3. g * D + e \in 0 .. n * D - 1
  BY RowOfHead
<1>4. (q + 2 * n) * D = q * D + n * D + n * D
  OBVIOUS
<1>5. h * D + d = g * D + e => h = g /\ d = e
  BY RowsOfHeadsDiffer
<1>6. KRow(args, h, d) = q * D + (h * D + d) /\ KRow(args, g, e) = q * D + (g * D + e)
  BY <1>1 DEF KRow
<1>7. /\ VRow(args, h, d) = q * D + n * D + (h * D + d)
      /\ VRow(args, g, e) = q * D + n * D + (g * D + e)
  BY <1>1, <1>2 DEF VRow
<1>8. QkvRows(args) = q * D + n * D + n * D
  BY <1>4 DEF QkvRows
<1>9. ASSUME NEW a \in Nat, NEW b \in Nat, NEW x \in 0 .. b - 1, NEW y \in 0 .. b - 1
      PROVE  /\ a <= a + x /\ a + x < a + b + y /\ a + b + y < a + b + b
             /\ a + x = a + y => x = y
             /\ a + b + x = a + b + y => x = y
  OBVIOUS
<1> DEFINE x == h * D + d
           y == g * D + e
<1>10. q * D <= q * D + x /\ q * D + x < q * D + n * D + y /\ q * D + n * D + y < q * D + n * D + n * D
  BY <1>1, <1>2, <1>3, <1>9
<1>11. /\ q * D + x = q * D + y => x = y
       /\ q * D + n * D + x = q * D + n * D + y => x = y
  BY <1>1, <1>2, <1>3, <1>9
<1>12. VRow(args, h, d) = q * D + n * D + x
  BY <1>7
<1>13. /\ q * D <= KRow(args, h, d) /\ KRow(args, h, d) < VRow(args, g, e)
       /\ VRow(args, g, e) < QkvRows(args)
  BY <1>6, <1>7, <1>8, <1>10
<1>14. KRow(args, h, d) = KRow(args, g, e) => h = g /\ d = e
  BY <1>5, <1>6, <1>11
<1>15. VRow(args, h, d) = VRow(args, g, e) => h = g /\ d = e
  BY <1>5, <1>7, <1>11, <1>12
<1> QED BY <1>13, <1>14, <1>15

(* A row of the request pool is whole tiles, wastes less than one, and      *)
(* holds every position of a context, for SGLang's table is no narrower.    *)
THEOREM RowHoldsContext ==
  ASSUME NEW runner, runner.contextLen \in Nat, runner.reqPool.width \in Nat,
         runner.contextLen <= runner.reqPool.width
  PROVE  LET seq == EnsurePool(runner).seq IN
         /\ seq % KernelTile = 0
         /\ runner.contextLen <= seq /\ seq < runner.contextLen + KernelTile
<1>1. Less(runner.reqPool.width, runner.contextLen) = runner.contextLen
  BY DEF Less
<1>2. EnsurePool(runner).seq = Pad64(runner.contextLen)
  BY <1>1 DEF EnsurePool
<1> QED BY <1>2 DEF Pad64, KernelTile

(* Loading the extension leaves TORCH_CUDA_ARCH_LIST as it found it, also   *)
(* when the build fails, and an extension that was built was built for      *)
(* sm_90a whatever the variable said.                                       *)
THEOREM ArchRestored ==
  ASSUME NEW proc \in [ext: {"none", "built"}, arch: STRING, for: STRING], NEW env
  PROVE  LET after == LoadSmpV2Extension(proc, env) IN
         /\ after.arch = proc.arch
         /\ proc.ext = "none" /\ after.ext = "built" => after.for = "9.0a" /\ Loadable(env)
         /\ proc.ext = "built" => after = proc
BY DEF LoadSmpV2Extension, RestoreArch, Build, SetArch

(* The allocator hands out the slots of the pool the backend writes to, and *)
(* that pool is the pinned one exactly when a DirectKV backend was asked    *)
(* for and one of the two patches is in place.                              *)
THEOREM AllocatorServesItsPool ==
  ASSUME NEW reg \in [tried: BOOLEAN, backends: SUBSET Backends, choices: SUBSET Backends,
                      initPools: BOOLEAN, modelRunner: BOOLEAN],
         NEW backend,
         NEW runner \in [reqPool: [size: Nat, width: Nat], kvPool: STRING, allocator: STRING,
                         hasAllocator: BOOLEAN, maxRequests: Nat, contextLen: Nat],
         runner.hasAllocator
  PROVE  LET after == InitPools(reg, backend, runner) IN
         /\ after.allocator = after.kvPool
         /\ after.kvPool = "pinned" <=> backend \in Backends /\ (reg.initPools \/ reg.modelRunner)
<1>1. CASE backend \in Backends /\ reg.initPools
  <2>1. InitPools(reg, backend, runner) = InitDirectKVPools(runner)
    BY <1>1 DEF InitPools
  <2> QED BY <1>1, <2>1 DEF InitDirectKVPools
<1>2. CASE backend \in Backends /\ ~reg.initPools /\ reg.modelRunner
  <2>1. InitPools(reg, backend, runner) = ReplacePool(OrigPools(runner))
    BY <1>2 DEF InitPools
  <2> QED BY <1>2, <2>1 DEF ReplacePool, OrigPools
<1>3. CASE ~(backend \in Backends /\ (reg.initPools \/ reg.modelRunner))
  <2>1. InitPools(reg, backend, runner) = OrigPools(runner)
    BY <1>3 DEF InitPools
  <2> QED BY <1>3, <2>1 DEF OrigPools
<1> QED BY <1>1, <1>2, <1>3
================================================================================
