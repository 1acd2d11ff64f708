---------------------------- MODULE DirectKVProofs ----------------------------
(***************************************************************************)
(* Theorems of DirectKVBackend for every number of requests, ids and rows  *)
(* and every tile and row length.                                          *)
(*                                                                         *)
(* RowOwnership is not inductive alone: alloc gives a row to an id that    *)
(* holds none only because the backend's active set names the same ids as  *)
(* the pool's map, and a kernel is handed an existing row only because the *)
(* forward starts when the active set is the batch.  IInv adds both, and   *)
(* what TypeOK needs of the batch and of the kernels in flight.            *)
(***************************************************************************)
EXTENDS DirectKVBackend, RowPoolProofs, FiniteSetTheorems

\* A launch whose window fits a row and whose row, if any, exists.
GoodLaunch ==
  {k \in Launch : /\ k.past + k.n <= MaxSeq
                  /\ k.mem \in {"pool", "sdpa"} => k.row \in Rows}

\* The batch between init_forward_metadata and the end of its forward.
BatchOK ==
  /\ \A r \in Live : rid[r] \in Rids
  /\ step # "idle" => Batch \subseteq Live
  /\ step \in {"rows", "forward"} =>
       todo \subseteq Batch /\ \A r \in Reqs : len[r] + new[r] <= MaxSeq
  /\ step = "rows" => Synced
  /\ step = "forward" => active = BatchIds
  /\ step = "failed" => free = <<>> /\ active \subseteq BatchIds /\ active # BatchIds

IInv ==
  /\ TypeOK
  /\ RowOwnership
  /\ ActiveIdsOwnRows
  /\ stream \in Seq(GoodLaunch)
  /\ BatchOK

(* A step that leaves the books of the pool alone keeps its ownership.     *)
LEMMA BooksUnchanged ==
  ASSUME RowOwnership, ActiveIdsOwnRows, UNCHANGED <<free, rowOf, active>>
  PROVE  RowOwnership' /\ ActiveIdsOwnRows'
BY DEF RowOwnership, ActiveIdsOwnRows, Mapped, FreeRows

(* Launch records are what the stream is typed with.                       *)
LEMMA GoodStream ==
  ASSUME NEW s \in Seq(GoodLaunch)
  PROVE  s \in Seq(Launch)
<1>1. GoodLaunch \subseteq Launch
  BY DEF GoodLaunch
<1>2. QED
  BY <1>1 DEF GoodLaunch

(* Memory lost to a kernel changes no window and no row.                   *)
LEMMA MarkGood ==
  ASSUME NEW k \in GoodLaunch, NEW m \in {"dropped", "clobbered"}
  PROVE  [k EXCEPT !.mem = m] \in GoodLaunch
<1>1. [k EXCEPT !.mem = m] \in Launch
  BY DEF GoodLaunch, Launch
<1>2. QED
  BY <1>1 DEF GoodLaunch, Launch

LEMMA DropCopiesGood ==
  ASSUME NEW s \in Seq(GoodLaunch)
  PROVE  DropCopies(s) \in Seq(GoodLaunch)
<1>1. Len(s) \in Nat /\ \A i \in 1 .. Len(s) : s[i] \in GoodLaunch
  BY LenProperties
<1>2. \A i \in 1 .. Len(s) :
        (IF s[i].mem = "copy" THEN [s[i] EXCEPT !.mem = "dropped"] ELSE s[i])
           \in GoodLaunch
  BY <1>1, MarkGood
<1>3. DropCopies(s) \in [1 .. Len(s) -> GoodLaunch]
  BY <1>1, <1>2 DEF DropCopies
<1>4. QED
  BY <1>1, <1>3

LEMMA ClobberGood ==
  ASSUME NEW s \in Seq(GoodLaunch)
  PROVE  Clobber(s) \in Seq(GoodLaunch)
<1>1. Len(s) \in Nat /\ \A i \in 1 .. Len(s) : s[i] \in GoodLaunch
  BY LenProperties
<1>2. \A i \in 1 .. Len(s) :
        (IF s[i].mem = "sdpa" THEN s[i] ELSE [s[i] EXCEPT !.mem = "clobbered"])
           \in GoodLaunch
  BY <1>1, MarkGood
<1>3. Clobber(s) \in [1 .. Len(s) -> GoodLaunch]
  BY <1>1, <1>2 DEF Clobber
<1>4. QED
  BY <1>1, <1>3

(* Writing entries of one request's tokens keeps the type of the rows.     *)
LEMMA StoreType ==
  ASSUME NEW row \in Rows, NEW first \in Nat, NEW n \in Nat,
         NEW r \in Reqs, kv \in [Rows -> [Pos -> Content]],
         Store(row, first, n, [p \in Pos |-> Tok(r, p)])
  PROVE  kv' \in [Rows -> [Pos -> Content]]
<1>1. \A p \in Pos : Tok(r, p) \in Content
  BY DEF Content
<1>2. [p \in Pos |-> IF p \in first .. first + n - 1
                     THEN [q \in Pos |-> Tok(r, q)][p] ELSE kv[row][p]]
        \in [Pos -> Content]
  BY <1>1
<1>3. QED
  BY <1>2 DEF Store

(* The entries an attention reads are entries: the past ones come from the *)
(* memory given, the new ones are the request's own.                       *)
LEMMA WindowType ==
  ASSUME NEW r \in Reqs, NEW past \in Nat, NEW n \in Nat, past + n <= MaxSeq,
         NEW C, NEW mem \in [Pos -> C], Content \subseteq C, RowPoolAssumption
  PROVE  Window(r, mem, past, n) \in Seq(C)
<1>1. MaxSeq \in Nat
  BY DEF RowPoolAssumption
<1>2. \A i \in 1 .. past + n : i - 1 \in Pos
  BY <1>1 DEF Pos
<1>3. \A i \in 1 .. past + n : Tok(r, i - 1) \in C
  BY <1>2 DEF Content
<1>4. \A i \in 1 .. past + n :
        (IF i <= past THEN mem[i - 1] ELSE Tok(r, i - 1)) \in C
  BY <1>2, <1>3
<1>5. Window(r, mem, past, n) \in [1 .. past + n -> C]
  BY <1>4 DEF Window
<1>6. QED
  BY <1>5

--------------------------------------------------------------------------------

THEOREM InitIInv ==
  ASSUME RowPoolAssumption, BackendAssumption, Init
  PROVE  IInv
<1>1. MaxReqs \in Nat \ {0} /\ MaxSeq \in Nat \ {0}
  BY DEF RowPoolAssumption
<1>2. BooksOK /\ RowOwnership
  BY PoolInitOwnership DEF Init
<1>3. ActiveIdsOwnRows
  BY DEF Init, PoolInit, ActiveIdsOwnRows, Mapped
<1>4. stream \in Seq(GoodLaunch) /\ stream \in Seq(Launch)
  BY DEF Init
<1>5. kv \in [Rows -> [Pos -> Content]]
  BY DEF Init, PoolInit, ZeroRow, Content
<1>6. ctx \in [Reqs -> Seq(Content \union {Junk})]
  BY DEF Init
<1>7. /\ stage \in [Reqs -> {"waiting", "live", "done"}]
      /\ rid \in [Reqs -> Rids \union {NoRid}]
      /\ prompt \in [Reqs -> 0 .. MaxSeq]
      /\ len \in [Reqs -> 0 .. MaxSeq]
      /\ active \subseteq Rids
      /\ step = "idle"
      /\ mode = "none"
      /\ new \in [Reqs -> 0 .. MaxSeq]
      /\ todo \subseteq Reqs
      /\ lease \in [Reqs -> LeaseKinds]
  BY <1>1 DEF Init, LeaseKinds
<1>8. TypeOK
  BY <1>2, <1>4, <1>5, <1>6, <1>7 DEF TypeOK, BooksOK
<1>9. BatchOK
  BY <1>7 DEF Init, BatchOK, Live
<1>10. QED
  BY <1>2, <1>3, <1>4, <1>8, <1>9 DEF IInv

LEMMA AdmitStep ==
  ASSUME IInv, RowPoolAssumption, BackendAssumption,
         NEW r \in Reqs, NEW id \in Rids, NEW p \in Prompts[r], Admit(r, id, p)
  PROVE  IInv'
<1>1. p \in 0 .. MaxSeq
  BY DEF RowPoolAssumption, BackendAssumption
<1>2. TypeOK'
  BY <1>1 DEF IInv, TypeOK, Admit, poolVars, hostVars, LeaseKinds
<1>3. RowOwnership' /\ ActiveIdsOwnRows'
  BY BooksUnchanged DEF IInv, Admit, poolVars, hostVars
<1>4. BatchOK'
  BY DEF IInv, TypeOK, BatchOK, Admit, Live, hostVars
<1>5. stream' \in Seq(GoodLaunch)
  BY DEF IInv, Admit
<1>6. QED
  BY <1>2, <1>3, <1>4, <1>5 DEF IInv

LEMMA FinishStep ==
  ASSUME IInv, NEW r \in Reqs, Finish(r)
  PROVE  IInv'
<1>1. TypeOK'
  BY DEF IInv, TypeOK, Finish, poolVars, hostVars
<1>2. RowOwnership' /\ ActiveIdsOwnRows'
  BY BooksUnchanged DEF IInv, Finish, poolVars, hostVars
<1>3. BatchOK'
  BY DEF IInv, TypeOK, BatchOK, Finish, Live, hostVars
<1>4. stream' \in Seq(GoodLaunch)
  BY DEF IInv, Finish
<1>5. QED
  BY <1>1, <1>2, <1>3, <1>4 DEF IInv

\* A batch the scheduler may form fits the rows.
BatchFits(n) ==
  /\ {r \in Reqs : n[r] > 0} \subseteq Live
  /\ \A r \in Reqs : len[r] + n[r] <= MaxSeq

LEMMA ExtendFits ==
  ASSUME TypeOK, RowPoolAssumption, NEW n \in [Reqs -> 0 .. MaxSeq], ExtendBatch(n)
  PROVE  BatchFits(n)
<1>1. MaxSeq \in Nat
  BY DEF RowPoolAssumption
<1>2. {r \in Reqs : n[r] > 0} \subseteq Live
  BY DEF ExtendBatch, Prefilling
<1>3. ASSUME NEW r \in Reqs
      PROVE  len[r] + n[r] <= MaxSeq
  <2>1. len[r] \in 0 .. MaxSeq /\ prompt[r] \in 0 .. MaxSeq /\ n[r] \in 0 .. MaxSeq
    BY DEF TypeOK
  <2>2. CASE n[r] > 0
    <3>1. n[r] \in 1 .. prompt[r] - len[r]
      BY <2>2 DEF ExtendBatch, ChunkOk
    <3>2. QED
      BY <1>1, <2>1, <3>1
  <2>3. CASE n[r] = 0
    BY <1>1, <2>1, <2>3
  <2>4. QED
    BY <1>1, <2>1, <2>2, <2>3
<1>4. QED
  BY <1>2, <1>3 DEF BatchFits

LEMMA DecodeFits ==
  ASSUME TypeOK, RowPoolAssumption, NEW n \in [Reqs -> 0 .. MaxSeq], DecodeBatch(n)
  PROVE  BatchFits(n)
<1>1. MaxSeq \in Nat
  BY DEF RowPoolAssumption
<1>2. \A r \in Reqs : n[r] = IF r \in Running THEN 1 ELSE 0
  BY DEF DecodeBatch
<1>3. \A r \in Reqs : len[r] \in 0 .. MaxSeq
  BY DEF TypeOK
<1>4. {r \in Reqs : n[r] > 0} \subseteq Live
  BY <1>2 DEF Running
<1>5. \A r \in Reqs : len[r] + n[r] <= MaxSeq
  BY <1>1, <1>2, <1>3 DEF DecodeBatch
<1>6. QED
  BY <1>4, <1>5 DEF BatchFits

LEMMA MetadataStep ==
  ASSUME IInv, NEW m \in {"extend", "decode"}, NEW n \in [Reqs -> 0 .. MaxSeq],
         BatchFits(n), InitForwardMetadata(m, n)
  PROVE  IInv'
<1>1. ctx' \in [Reqs -> Seq(Content \union {Junk})]
  BY DEF InitForwardMetadata
<1>2. TypeOK'
  BY <1>1 DEF IInv, TypeOK, InitForwardMetadata, poolVars, schedVars
<1>3. RowOwnership' /\ ActiveIdsOwnRows'
  BY BooksUnchanged DEF IInv, InitForwardMetadata, poolVars
<1>4. BatchOK'
  BY DEF IInv, BatchOK, BatchFits, InitForwardMetadata, Live, Batch, Synced, schedVars
<1>5. stream' \in Seq(GoodLaunch)
  BY DEF IInv, InitForwardMetadata
<1>6. QED
  BY <1>2, <1>3, <1>4, <1>5 DEF IInv

LEMMA IdleStep ==
  ASSUME IInv, RowPoolAssumption, IdleMetadata
  PROVE  IInv'
<1>1. new' \in [Reqs -> 0 .. MaxSeq]
  BY DEF IdleMetadata, RowPoolAssumption
<1>2. TypeOK'
  BY <1>1 DEF IInv, TypeOK, IdleMetadata, poolVars, schedVars
<1>3. RowOwnership' /\ ActiveIdsOwnRows'
  BY BooksUnchanged DEF IInv, IdleMetadata, poolVars
<1>4. BatchOK'
  BY DEF IInv, BatchOK, IdleMetadata, Live, schedVars
<1>5. stream' \in Seq(GoodLaunch)
  BY DEF IInv, IdleMetadata
<1>6. QED
  BY <1>2, <1>3, <1>4, <1>5 DEF IInv

--------------------------------------------------------------------------------
\* The rows of a batch.

LEMMA BatchIdsAreIds ==
  ASSUME IInv, step # "idle"
  PROVE  BatchIds \subseteq Rids
BY DEF IInv, BatchOK, BatchIds, Batch

LEMMA ReleaseStep ==
  ASSUME IInv, RowPoolAssumption, NEW id \in Rids, Release(id)
  PROVE  IInv'
<1>1. BooksOK /\ RowOwnership /\ Free(id)
  BY DEF IInv, TypeOK, BooksOK, Release
<1>2. BooksOK' /\ RowOwnership'
  BY <1>1, FreeKeepsOwnership
<1>3. ActiveIdsOwnRows'
  BY DEF IInv, TypeOK, ActiveIdsOwnRows, Mapped, Release, Free
<1>4. lease' \in [Reqs -> LeaseKinds]
  BY DEF IInv, TypeOK, Release, LeaseKinds
<1>5. TypeOK'
  BY <1>2, <1>4 DEF IInv, TypeOK, BooksOK, Release, Free, schedVars
<1>6. BatchOK'
  BY DEF IInv, BatchOK, Release, Live, Batch, BatchIds, Synced, schedVars
<1>7. stream' \in Seq(GoodLaunch)
  BY DEF IInv, Release
<1>8. QED
  BY <1>2, <1>3, <1>5, <1>6, <1>7 DEF IInv

LEMMA AllocRowStep ==
  ASSUME IInv, RowPoolAssumption, NEW id \in Rids, AllocRow(id)
  PROVE  IInv'
<1>1. BooksOK /\ RowOwnership /\ Alloc(id)
  BY DEF IInv, TypeOK, BooksOK, AllocRow
<1>2. BooksOK' /\ RowOwnership'
  BY <1>1, AllocKeepsOwnership
<1>3. free[Len(free)] \in Rows
  BY <1>1, PopLast DEF Alloc
<1>4. free[Len(free)] # NoRow
  BY <1>3 DEF RowPoolAssumption
<1>5. ActiveIdsOwnRows'
  BY <1>4 DEF IInv, TypeOK, ActiveIdsOwnRows, Mapped, AllocRow, Alloc
<1>6. lease' \in [Reqs -> LeaseKinds]
  BY DEF IInv, TypeOK, AllocRow, LeaseKinds
<1>7. kv' \in [Rows -> [Pos -> Content]]
  <2>1. ZeroRow \in [Pos -> Content]
    BY DEF ZeroRow, Content
  <2>2. QED
    BY <2>1 DEF IInv, TypeOK, AllocRow, Alloc
<1>8. TypeOK'
  BY <1>2, <1>6, <1>7 DEF IInv, TypeOK, BooksOK, AllocRow, schedVars
<1>9. BatchOK'
  BY DEF IInv, BatchOK, AllocRow, ToAlloc, Live, Batch, BatchIds, Synced, schedVars
<1>10. stream' \in Seq(GoodLaunch)
  BY DEF IInv, AllocRow
<1>11. QED
  BY <1>2, <1>5, <1>8, <1>9, <1>10 DEF IInv

LEMMA AllocFailsStep ==
  ASSUME IInv, NEW id \in Rids, AllocFails(id)
  PROVE  IInv'
<1>1. TypeOK'
  BY DEF IInv, TypeOK, AllocFails, poolVars, schedVars
<1>2. RowOwnership' /\ ActiveIdsOwnRows'
  BY BooksUnchanged DEF IInv, AllocFails, poolVars
<1>3. id \in BatchIds \ active /\ step = "rows" /\ active \subseteq BatchIds /\ free = <<>>
  BY DEF AllocFails, ToAlloc, OutOfRows
<1>4. BatchOK'
  BY <1>3 DEF IInv, BatchOK, AllocFails, Live, Batch, BatchIds, poolVars, schedVars
<1>5. stream' \in Seq(GoodLaunch)
  BY DEF IInv, AllocFails
<1>6. QED
  BY <1>1, <1>2, <1>4, <1>5 DEF IInv

LEMMA BeginForwardStep ==
  ASSUME IInv, BeginForward
  PROVE  IInv'
<1>1. TypeOK'
  BY DEF IInv, TypeOK, BeginForward, poolVars, schedVars
<1>2. RowOwnership' /\ ActiveIdsOwnRows'
  BY BooksUnchanged DEF IInv, BeginForward, poolVars
<1>3. BatchOK'
  BY DEF IInv, BatchOK, BeginForward, Live, Batch, BatchIds, schedVars
<1>4. stream' \in Seq(GoodLaunch)
  BY DEF IInv, BeginForward
<1>5. QED
  BY <1>1, <1>2, <1>3, <1>4 DEF IInv

(* In the forward every request of the batch has a row, and its new tokens *)
(* fit it.                                                                 *)
LEMMA BatchHasRows ==
  ASSUME IInv, RowPoolAssumption, step = "forward", NEW r \in todo
  PROVE  /\ r \in Reqs
         /\ RowFor(r) \in Rows
         /\ len[r] \in Nat /\ new[r] \in Nat \ {0}
         /\ len[r] + new[r] <= MaxSeq
<1>1. MaxSeq \in Nat
  BY DEF RowPoolAssumption
<1>2. r \in Batch /\ r \in Reqs /\ r \in Live
  BY DEF IInv, TypeOK, BatchOK
<1>3. rid[r] \in Mapped
  BY <1>2 DEF IInv, BatchOK, BatchIds, ActiveIdsOwnRows
<1>4. RowFor(r) \in Rows
  BY <1>3 DEF IInv, TypeOK, Mapped, RowFor
<1>5. len[r] \in 0 .. MaxSeq /\ new[r] \in 0 .. MaxSeq /\ new[r] > 0
  BY <1>2 DEF IInv, TypeOK, Batch
<1>6. len[r] + new[r] <= MaxSeq
  BY <1>2 DEF IInv, BatchOK
<1>7. QED
  BY <1>1, <1>2, <1>4, <1>5, <1>6

--------------------------------------------------------------------------------
\* The forward and the stream.

(* A step inside the forward that takes requests off todo and puts good    *)
(* work on the stream.                                                     *)
LEMMA ForwardStep ==
  ASSUME IInv, step = "forward", todo' \subseteq todo,
         kv' \in [Rows -> [Pos -> Content]], stream' \in Seq(GoodLaunch),
         UNCHANGED <<free, rowOf, schedVars, active, step, mode, new, ctx, lease>>
  PROVE  IInv'
<1>1. BatchOK'
  BY DEF IInv, BatchOK, Live, Batch, BatchIds, schedVars
<1>2. RowOwnership' /\ ActiveIdsOwnRows'
  BY BooksUnchanged DEF IInv
<1>3. stream' \in Seq(Launch)
  BY GoodStream
<1>4. TypeOK'
  BY <1>3 DEF IInv, TypeOK, schedVars
<1>5. QED
  BY <1>1, <1>2, <1>4 DEF IInv

LEMMA LaunchGood ==
  ASSUME IInv, NEW k \in GoodLaunch, LaunchKernel(k)
  PROVE  stream' \in Seq(GoodLaunch)
<1>1. Clobber(stream) \in Seq(GoodLaunch)
  BY ClobberGood DEF IInv
<1>2. QED
  BY <1>1, AppendProperties DEF LaunchKernel

LEMMA OnRowGood ==
  ASSUME IInv, RowPoolAssumption, step = "forward", NEW r \in todo,
         NEW kind \in {"sdpa", "pool"}, NEW past \in Nat, NEW n \in Nat,
         past + n <= MaxSeq
  PROVE  OnRow(kind, r, past, n) \in GoodLaunch
<1>1. r \in Reqs /\ RowFor(r) \in Rows
  BY BatchHasRows
<1>2. MaxSeq \in Nat
  BY DEF RowPoolAssumption
<1>3. past \in 0 .. MaxSeq /\ n \in 0 .. MaxSeq
  BY <1>2
<1>4. [q \in Reqs |-> ZeroRow] \in [Reqs -> [Pos -> Content]]
  BY DEF ZeroRow, Content
<1>5. OnRow(kind, r, past, n) \in Launch
  BY <1>1, <1>3, <1>4 DEF OnRow, Launch
<1>6. QED
  BY <1>1, <1>5 DEF OnRow, GoodLaunch

LEMMA ExtendKernelStep ==
  ASSUME IInv, RowPoolAssumption, NEW r \in Reqs, ExtendKernel(r)
  PROVE  IInv'
<1> DEFINE k == OnRow("pool", r, len[r], new[r])
<1>1. /\ step = "forward" /\ r \in todo /\ LaunchKernel(k)
      /\ todo' = todo \ {r}
      /\ UNCHANGED <<poolVars, schedVars, active, step, mode, new, ctx, lease>>
  BY DEF ExtendKernel
<1>2. k \in GoodLaunch
  BY <1>1, BatchHasRows, OnRowGood
<1>3. stream' \in Seq(GoodLaunch)
  <2> HIDE DEF k
  <2>1. QED
    BY <1>1, <1>2, LaunchGood
<1>4. kv' \in [Rows -> [Pos -> Content]]
  BY <1>1 DEF IInv, TypeOK, poolVars
<1>5. QED
  BY <1>1, <1>3, <1>4, ForwardStep DEF poolVars

(* An SDPA over the row stores the new tokens and puts on the stream a     *)
(* window that ends with them.                                             *)
LEMMA SdpaStep ==
  ASSUME IInv, RowPoolAssumption, step = "forward", NEW r \in todo,
         NEW n \in Nat, n <= new[r], Sdpa(r, n)
  PROVE  IInv'
<1>1. /\ r \in Reqs /\ RowFor(r) \in Rows
      /\ len[r] \in Nat /\ new[r] \in Nat
      /\ len[r] + new[r] <= MaxSeq
  BY BatchHasRows
<1>2. kv' \in [Rows -> [Pos -> Content]]
  <2>1. kv \in [Rows -> [Pos -> Content]]
    BY DEF IInv, TypeOK
  <2>2. QED
    BY <1>1, <2>1, StoreType DEF Sdpa
<1>3. MaxSeq \in Nat
  BY DEF RowPoolAssumption
<1>4. len[r] + n \in Nat /\ 0 \in Nat /\ (len[r] + n) + 0 <= MaxSeq
  BY <1>1, <1>3
<1>5. OnRow("sdpa", r, len[r] + n, 0) \in GoodLaunch
  BY <1>4, OnRowGood
<1>6. stream' \in Seq(GoodLaunch)
  BY <1>5, AppendProperties DEF IInv, Sdpa
<1>7. QED
  BY <1>2, <1>6, ForwardStep DEF Sdpa

LEMMA ExtendSdpaStep ==
  ASSUME IInv, RowPoolAssumption, NEW r \in Reqs, ExtendSdpa(r)
  PROVE  IInv'
<1>1. step = "forward" /\ r \in todo /\ new[r] \in Nat /\ new[r] <= new[r]
  BY BatchHasRows DEF ExtendSdpa
<1>2. QED
  BY <1>1, SdpaStep DEF ExtendSdpa

LEMMA DecodeSdpaStep ==
  ASSUME IInv, RowPoolAssumption, NEW r \in Reqs, DecodeSdpa(r)
  PROVE  IInv'
<1>1. step = "forward" /\ r \in todo /\ 1 \in Nat /\ 1 <= new[r]
  BY BatchHasRows DEF DecodeSdpa
<1>2. QED
  BY <1>1, SdpaStep DEF DecodeSdpa

LEMMA DecodeKernelStep ==
  ASSUME IInv, RowPoolAssumption, NEW past \in Pos, DecodeKernel(past)
  PROVE  IInv'
<1> DEFINE bucket == {r \in todo : len[r] = past}
           copies == [r \in Reqs |-> IF r \in bucket THEN kv[RowFor(r)] ELSE ZeroRow]
           k == [mem |-> "copy", reqs |-> bucket, row |-> NoRow, past |-> past,
                 n |-> 1, copy |-> copies]
<1>1. /\ step = "forward" /\ bucket # {} /\ LaunchKernel(k)
      /\ todo' = todo \ bucket
      /\ UNCHANGED <<poolVars, schedVars, active, step, mode, new, ctx, lease>>
  BY DEF DecodeKernel
<1>2. MaxSeq \in Nat \ {0} /\ past \in 0 .. MaxSeq /\ 1 \in 0 .. MaxSeq
  BY DEF RowPoolAssumption, Pos
<1>3. past + 1 <= MaxSeq
  BY <1>2 DEF Pos
<1>4. copies \in [Reqs -> [Pos -> Content]]
  <2>1. ZeroRow \in [Pos -> Content]
    BY DEF ZeroRow, Content
  <2>2. \A r \in bucket : kv[RowFor(r)] \in [Pos -> Content]
    BY <1>1, BatchHasRows DEF IInv, TypeOK
  <2>3. QED
    BY <2>1, <2>2
<1>5. bucket \subseteq Reqs
  BY DEF IInv, TypeOK
<1>6. k \in GoodLaunch
  <2> HIDE DEF copies, bucket
  <2>1. k \in Launch
    BY <1>2, <1>4, <1>5 DEF Launch
  <2>2. QED
    BY <1>3, <2>1 DEF GoodLaunch
<1>7. stream' \in Seq(GoodLaunch)
  <2> HIDE DEF k
  <2>1. QED
    BY <1>1, <1>6, LaunchGood
<1>8. kv' \in [Rows -> [Pos -> Content]]
  BY <1>1 DEF IInv, TypeOK, poolVars
<1>9. QED
  BY <1>1, <1>7, <1>8, ForwardStep DEF poolVars

LEMMA RebindCopyStep ==
  ASSUME IInv, RebindCopy
  PROVE  IInv'
<1>1. stream' \in Seq(GoodLaunch)
  BY DropCopiesGood DEF IInv, RebindCopy
<1>2. kv' \in [Rows -> [Pos -> Content]]
  BY DEF IInv, TypeOK, RebindCopy, poolVars
<1>3. QED
  BY <1>1, <1>2, ForwardStep DEF RebindCopy, poolVars, hostVars

LEMMA EndForwardStep ==
  ASSUME IInv, RowPoolAssumption, EndForward
  PROVE  IInv'
<1>1. MaxSeq \in Nat
  BY DEF RowPoolAssumption
<1>2. len' \in [Reqs -> 0 .. MaxSeq]
  <2>1. \A r \in Reqs : len[r] \in 0 .. MaxSeq /\ new[r] \in 0 .. MaxSeq
    BY DEF IInv, TypeOK
  <2>2. \A r \in Reqs : len[r] + new[r] <= MaxSeq
    BY DEF IInv, BatchOK, EndForward
  <2>3. QED
    BY <1>1, <2>1, <2>2 DEF EndForward
<1>3. stream' \in Seq(GoodLaunch)
  BY DropCopiesGood DEF IInv, EndForward
<1>4. stream' \in Seq(Launch)
  BY <1>3, GoodStream
<1>5. TypeOK'
  BY <1>2, <1>4 DEF IInv, TypeOK, EndForward, poolVars
<1>6. RowOwnership' /\ ActiveIdsOwnRows'
  BY BooksUnchanged DEF IInv, EndForward, poolVars
<1>7. BatchOK'
  BY DEF IInv, BatchOK, EndForward, Live
<1>8. QED
  BY <1>3, <1>5, <1>6, <1>7 DEF IInv

LEMMA RunOnRowStep ==
  ASSUME IInv, RowPoolAssumption, RunOnRow
  PROVE  IInv'
<1> DEFINE k == Head(stream)
<1>1. /\ stream # <<>> /\ k.mem \in {"pool", "sdpa"}
      /\ stream' = Tail(stream)
      /\ UNCHANGED <<free, rowOf, schedVars, hostVars, lease>>
  BY DEF RunOnRow
<1>2. stream' \in Seq(GoodLaunch) /\ k \in GoodLaunch
  BY <1>1, HeadTailProperties DEF IInv
<1>3. stream' \in Seq(Launch)
  BY <1>2, GoodStream
<1>4. /\ k.row \in Rows /\ k.reqs \subseteq Reqs
      /\ k.past \in Nat /\ k.n \in Nat /\ k.past + k.n <= MaxSeq
  BY <1>1, <1>2 DEF GoodLaunch, Launch
<1>5. PICK r \in k.reqs :
        /\ Store(k.row, k.past, k.n, [p \in Pos |-> Tok(r, p)])
        /\ ctx' = [ctx EXCEPT ![r] = Window(r, kv[k.row], k.past, k.n)]
  BY DEF RunOnRow
<1>6. r \in Reqs
  BY <1>4
<1>7. kv \in [Rows -> [Pos -> Content]] /\ kv[k.row] \in [Pos -> Content \union {Junk}]
  BY <1>4 DEF IInv, TypeOK
<1>8. kv' \in [Rows -> [Pos -> Content]]
  <2> HIDE DEF k
  <2>1. QED
    BY <1>4, <1>5, <1>6, <1>7, StoreType
<1>9. ctx' \in [Reqs -> Seq(Content \union {Junk})]
  <2> HIDE DEF k
  <2>1. Window(r, kv[k.row], k.past, k.n) \in Seq(Content \union {Junk})
    BY <1>4, <1>6, <1>7, WindowType
  <2>2. QED
    BY <1>5, <1>6, <2>1 DEF IInv, TypeOK
<1>10. TypeOK'
  BY <1>1, <1>3, <1>8, <1>9 DEF IInv, TypeOK, schedVars, hostVars
<1>11. RowOwnership' /\ ActiveIdsOwnRows'
  BY <1>1, BooksUnchanged DEF IInv, hostVars
<1>12. BatchOK'
  BY <1>1 DEF IInv, BatchOK, Synced, Live, Batch, BatchIds, schedVars, hostVars
<1>13. QED
  BY <1>2, <1>10, <1>11, <1>12 DEF IInv

LEMMA RunOffRowStep ==
  ASSUME IInv, RowPoolAssumption, RunOffRow
  PROVE  IInv'
<1> DEFINE k == Head(stream)
<1>1. /\ stream # <<>>
      /\ stream' = Tail(stream)
      /\ UNCHANGED <<poolVars, schedVars, hostVars, lease>>
  BY DEF RunOffRow
<1>2. stream' \in Seq(GoodLaunch) /\ k \in GoodLaunch
  BY <1>1, HeadTailProperties DEF IInv
<1>3. stream' \in Seq(Launch)
  BY <1>2, GoodStream
<1>4. /\ k.reqs \subseteq Reqs /\ k.copy \in [Reqs -> [Pos -> Content]]
      /\ k.past \in Nat /\ k.n \in Nat /\ k.past + k.n <= MaxSeq
  BY <1>2 DEF GoodLaunch, Launch
<1>5. PICK ok \in BOOLEAN :
        ctx' = [r \in Reqs |->
          IF r \notin k.reqs THEN ctx[r]
          ELSE Window(r, IF ok THEN k.copy[r] ELSE [p \in Pos |-> Junk],
                      k.past, k.n)]
  <2>1. /\ BOOLEAN \subseteq BOOLEAN
        /\ {TRUE} \subseteq BOOLEAN
        /\ {FALSE} \subseteq BOOLEAN
    OBVIOUS
  <2>2. QED
    BY <2>1 DEF RunOffRow
<1>6. ASSUME NEW r \in Reqs
      PROVE  Window(r, IF ok THEN k.copy[r] ELSE [p \in Pos |-> Junk], k.past, k.n)
               \in Seq(Content \union {Junk})
  <2> DEFINE mem == IF ok THEN k.copy[r] ELSE [p \in Pos |-> Junk]
  <2>1. mem \in [Pos -> Content \union {Junk}]
    BY <1>4
  <2> HIDE DEF mem, k
  <2>2. Window(r, mem, k.past, k.n) \in Seq(Content \union {Junk})
    BY <1>4, <2>1, WindowType
  <2>3. QED
    BY <2>2 DEF mem
<1>7. ctx' \in [Reqs -> Seq(Content \union {Junk})]
  <2> HIDE DEF k
  <2>1. QED
    BY <1>5, <1>6 DEF IInv, TypeOK
<1>8. TypeOK'
  BY <1>1, <1>3, <1>7 DEF IInv, TypeOK, poolVars, schedVars, hostVars
<1>9. RowOwnership' /\ ActiveIdsOwnRows'
  BY <1>1, BooksUnchanged DEF IInv, poolVars, hostVars
<1>10. BatchOK'
  BY <1>1 DEF IInv, BatchOK, Synced, Live, Batch, BatchIds, poolVars, schedVars, hostVars
<1>11. QED
  BY <1>2, <1>8, <1>9, <1>10 DEF IInv

--------------------------------------------------------------------------------

LEMMA StutterStep ==
  ASSUME IInv, UNCHANGED vars
  PROVE  IInv'
<1>1. TypeOK'
  BY DEF IInv, TypeOK, vars, poolVars, schedVars, hostVars
<1>2. RowOwnership' /\ ActiveIdsOwnRows'
  BY BooksUnchanged DEF IInv, vars, poolVars, hostVars
<1>3. BatchOK' /\ stream' \in Seq(GoodLaunch)
  BY DEF IInv, BatchOK, Synced, Live, Batch, BatchIds, vars, poolVars, schedVars, hostVars
<1>4. QED
  BY <1>1, <1>2, <1>3 DEF IInv

LEMMA InductiveStep ==
  ASSUME RowPoolAssumption, BackendAssumption, IInv, [Next]_vars
  PROVE  IInv'
<1>1. CASE Schedule
  <2>1. CASE \E r \in Reqs, id \in Rids : \E p \in Prompts[r] : Admit(r, id, p)
    BY <2>1, AdmitStep
  <2>2. CASE \E r \in Reqs : Finish(r)
    BY <2>2, FinishStep
  <2>3. CASE \E n \in [Reqs -> 0 .. MaxSeq] :
               ExtendBatch(n) /\ InitForwardMetadata("extend", n)
    BY <2>3, ExtendFits, MetadataStep DEF IInv
  <2>4. CASE \E n \in [Reqs -> 0 .. MaxSeq] :
               DecodeBatch(n) /\ InitForwardMetadata("decode", n)
    BY <2>4, DecodeFits, MetadataStep DEF IInv
  <2>5. CASE IdleMetadata
    BY <2>5, IdleStep
  <2>6. QED
    BY <1>1, <2>1, <2>2, <2>3, <2>4, <2>5 DEF Schedule
<1>2. CASE Host
  <2>1. CASE \E id \in Rids : Release(id) \/ AllocRow(id) \/ AllocFails(id)
    BY <2>1, ReleaseStep, AllocRowStep, AllocFailsStep
  <2>2. CASE BeginForward
    BY <2>2, BeginForwardStep
  <2>3. CASE \E r \in Reqs : ExtendKernel(r) \/ ExtendSdpa(r) \/ DecodeSdpa(r)
    BY <2>3, ExtendKernelStep, ExtendSdpaStep, DecodeSdpaStep
  <2>4. CASE \E past \in Pos : DecodeKernel(past)
    BY <2>4, DecodeKernelStep
  <2>5. CASE RebindCopy
    BY <2>5, RebindCopyStep
  <2>6. CASE EndForward
    BY <2>6, EndForwardStep
  <2>7. QED
    BY <1>2, <2>1, <2>2, <2>3, <2>4, <2>5, <2>6 DEF Host
<1>3. CASE Gpu
  BY <1>3, RunOnRowStep, RunOffRowStep DEF Gpu
<1>4. CASE UNCHANGED vars
  BY <1>4, StutterStep
<1>5. QED
  BY <1>1, <1>2, <1>3, <1>4 DEF Next

(* IInv holds in every reachable state, for any number of requests, ids    *)
(* and rows.                                                               *)
THEOREM Inductive == Spec => []IInv
<1>1. Init => IInv
  BY RowPoolAssumption, BackendAssumption, InitIInv
<1>2. IInv /\ [Next]_vars => IInv'
  BY RowPoolAssumption, BackendAssumption, InductiveStep
<1>3. QED
  BY <1>1, <1>2, PTL DEF Spec

(* Every variable of the backend, the pool and the stream keeps its type:  *)
(* in particular no host step and no kernel leaves the positions of a row. *)
THEOREM TypeCorrect == Spec => []TypeOK
<1>1. IInv => TypeOK
  BY DEF IInv
<1>2. QED
  BY <1>1, Inductive, PTL

(* Rows of the pool are neither leaked nor handed out twice.               *)
THEOREM RowsOwnedOnce == Spec => []RowOwnership
<1>1. IInv => RowOwnership
  BY DEF IInv
<1>2. QED
  BY <1>1, Inductive, PTL

(* The backend's active ids and the pool's map agree at every call on the  *)
(* pool, also after an alloc that raised.                                  *)
THEOREM ActiveIdsAgree == Spec => []ActiveIdsOwnRows
<1>1. IInv => ActiveIdsOwnRows
  BY DEF IInv
<1>2. QED
  BY <1>1, Inductive, PTL

--------------------------------------------------------------------------------
\* A failed step.

(* When alloc has raised, the rows of the ids that got one are all the     *)
(* rows there are, and the batch has more ids than that.                   *)
LEMMA FailedIsOversized ==
  ASSUME IInv, RowPoolAssumption, BackendAssumption
  PROVE  OutOfRowsOnlyWhenOversized
<1> SUFFICES ASSUME step = "failed"
             PROVE  Cardinality(BatchIds) > MaxReqs
  BY DEF OutOfRowsOnlyWhenOversized
<1>1. free = <<>> /\ active \subseteq BatchIds /\ active # BatchIds /\ active = Mapped
  BY DEF IInv, BatchOK, ActiveIdsOwnRows
<1>2. FreeRows = {}
  BY <1>1 DEF FreeRows
<1>3. Rows = {rowOf[id] : id \in active}
  <2>1. Rows \subseteq {rowOf[id] : id \in active}
    BY <1>1, <1>2 DEF IInv, RowOwnership
  <2>2. \A id \in active : rowOf[id] \in Rows
    BY <1>1 DEF IInv, TypeOK, Mapped
  <2>3. QED
    BY <2>1, <2>2
<1>4. IsFiniteSet(BatchIds)
  <2>1. IsFiniteSet(Batch)
    BY FS_Subset DEF Batch, BackendAssumption
  <2>2. [r \in Batch |-> rid[r]] \in Surjection(Batch, BatchIds)
    BY DEF BatchIds, Surjection
  <2>3. QED
    BY <2>1, <2>2, FS_Surjection
<1>5. IsFiniteSet(active)
  BY <1>1, <1>4, FS_Subset
<1>6. Cardinality(Rows) <= Cardinality(active)
  <2>1. [id \in active |-> rowOf[id]] \in Surjection(active, Rows)
    BY <1>3 DEF Surjection
  <2>2. QED
    BY <1>5, <2>1, FS_Surjection
<1>7. Cardinality(Rows) = MaxReqs
  BY FS_Interval DEF Rows, RowPoolAssumption
<1>8. /\ Cardinality(active) <= Cardinality(BatchIds)
      /\ Cardinality(active) # Cardinality(BatchIds)
  <2>1. active \in SUBSET BatchIds
    BY <1>1
  <2>2. /\ Cardinality(active) <= Cardinality(BatchIds)
        /\ Cardinality(BatchIds) = Cardinality(active) => BatchIds = active
    BY <1>4, <2>1, FS_Subset
  <2>3. QED
    BY <1>1, <2>2
<1>9. /\ Cardinality(active) \in Nat
      /\ Cardinality(BatchIds) \in Nat
      /\ MaxReqs \in Nat
  BY <1>4, <1>5, FS_CardinalityType DEF RowPoolAssumption
<1>10. QED
  BY <1>6, <1>7, <1>8, <1>9

(* The pool runs out only for a batch of more requests than it has rows:   *)
(* a request that left the batch never keeps a row from one in it.         *)
THEOREM OutOfRowsMeansOversized == Spec => []OutOfRowsOnlyWhenOversized
<1>1. IInv => OutOfRowsOnlyWhenOversized
  BY FailedIsOversized, RowPoolAssumption, BackendAssumption
<1>2. QED
  BY <1>1, Inductive, PTL

--------------------------------------------------------------------------------
\* Host and stream.

(* Host steps on the rows find the stream empty.                           *)
LEMMA HostStepLeavesRows ==
  ASSUME IInv, [Next]_vars
  PROVE  stream # <<>> /\ stream' # Tail(stream) => UNCHANGED kv
<1> SUFFICES ASSUME stream # <<>>, stream' # Tail(stream)
             PROVE  UNCHANGED kv
  OBVIOUS
<1>1. step # "rows"
  BY DEF IInv, BatchOK, Synced
<1>2. CASE Schedule
  BY <1>2 DEF Schedule, Admit, Finish, InitForwardMetadata, IdleMetadata, poolVars
<1>3. CASE Host
  BY <1>1, <1>3 DEF Host, Release, AllocRow, AllocFails, ToAlloc, BeginForward,
       ExtendKernel, ExtendSdpa, DecodeSdpa, Sdpa, DecodeKernel, RebindCopy,
       EndForward, Synced, poolVars
<1>4. CASE Gpu
  BY <1>4 DEF Gpu, RunOnRow, RunOffRow
<1>5. CASE UNCHANGED vars
  BY <1>5 DEF vars, poolVars
<1>6. QED
  BY <1>2, <1>3, <1>4, <1>5 DEF Next

(* No host step zeroes or overwrites a row a launched kernel has yet to    *)
(* read or write.                                                          *)
THEOREM RowsInFlightUntouched == Spec => HostLeavesRowsInFlight
<1>1. IInv /\ [Next]_vars =>
        [stream # <<>> /\ stream' # Tail(stream) =>
           \A i \in 1 .. Len(stream) :
             stream[i].mem \in {"pool", "sdpa"} =>
               kv'[stream[i].row] = kv[stream[i].row]]_vars
  BY HostStepLeavesRows
<1>2. QED
  BY <1>1, Inductive, PTL DEF Spec, HostLeavesRowsInFlight

--------------------------------------------------------------------------------
\* Refinement of RowLease.

\* RowHolder as an operator of the map, to speak of it before and after a step.
HolderOf(f) ==
  [row \in Rows |-> IF \E id \in Rids : f[id] = row
                    THEN CHOOSE id \in Rids : f[id] = row ELSE NoRid]

\* A map from ids to rows that gives no row twice.
OneToOne(f) ==
  /\ f \in [Rids -> Rows \union {NoRow}]
  /\ \A i, j \in Rids : f[i] # NoRow /\ f[i] = f[j] => i = j

(* The holder of a row is the one id the map gives it to.                  *)
LEMMA Holders ==
  ASSUME RowPoolAssumption, BackendAssumption, NEW f, OneToOne(f), NEW row \in Rows
  PROVE  /\ \A id \in Rids : f[id] = row <=> HolderOf(f)[row] = id
         /\ (\A id \in Rids : f[id] # row) => HolderOf(f)[row] = NoRid
<1>1. row # NoRow
  BY DEF RowPoolAssumption
<1>2. ASSUME NEW id \in Rids, f[id] = row
      PROVE  HolderOf(f)[row] = id
  <2>1. \A i \in Rids : f[i] = row => i = id
    BY <1>1, <1>2 DEF OneToOne
  <2>2. (CHOOSE i \in Rids : f[i] = row) = id
    BY <1>2, <2>1
  <2>3. QED
    BY <1>2, <2>2 DEF HolderOf
<1>3. ASSUME \A id \in Rids : f[id] # row
      PROVE  HolderOf(f)[row] = NoRid
  BY <1>3 DEF HolderOf
<1>4. NoRid \notin Rids
  BY DEF BackendAssumption
<1>5. QED
  BY <1>2, <1>3, <1>4

(* Unmapping an id changes the holder of its row only, to nobody.          *)
LEMMA UnmapEndsLease ==
  ASSUME RowPoolAssumption, BackendAssumption, NEW f, OneToOne(f),
         NEW id \in Rids, f[id] # NoRow
  PROVE  /\ OneToOne([f EXCEPT ![id] = NoRow])
         /\ f[id] \in Rows /\ HolderOf(f)[f[id]] = id
         /\ HolderOf([f EXCEPT ![id] = NoRow]) =
              [HolderOf(f) EXCEPT ![f[id]] = NoRid]
<1> DEFINE g == [f EXCEPT ![id] = NoRow]
<1>1. OneToOne(g)
  BY DEF OneToOne
<1>2. f[id] \in Rows /\ \A i \in Rids \ {id} : f[i] # f[id]
  BY DEF OneToOne
<1>3. HolderOf(f)[f[id]] = id
  BY <1>2, Holders
<1>4. \A i \in Rids : g[i] = IF i = id THEN NoRow ELSE f[i]
  BY DEF OneToOne
<1>5. ASSUME NEW row \in Rows
      PROVE  HolderOf(g)[row] = IF row = f[id] THEN NoRid ELSE HolderOf(f)[row]
  <2>1. NoRow # row
    BY DEF RowPoolAssumption
  <2> HIDE DEF g
  <2>2. CASE row = f[id]
    BY <1>1, <1>2, <1>4, <2>1, <2>2, Holders
  <2>3. CASE row # f[id]
    <3>1. \A i \in Rids : g[i] = row <=> f[i] = row
      BY <1>4, <2>1, <2>3
    <3>2. QED
      BY <1>1, <2>3, <3>1, Holders
  <2>4. QED
    BY <2>2, <2>3
<1>6. HolderOf(g) = [HolderOf(f) EXCEPT ![f[id]] = NoRid]
  <2> HIDE DEF g
  <2>1. QED
    BY <1>5 DEF HolderOf
<1>7. QED
  BY <1>1, <1>2, <1>3, <1>6

(* Mapping an id that had no row to a row nobody held changes that row's   *)
(* holder only, to the id.                                                 *)
LEMMA MapStartsLease ==
  ASSUME RowPoolAssumption, BackendAssumption, NEW f, OneToOne(f),
         NEW id \in Rids, f[id] = NoRow,
         NEW new_row \in Rows, \A i \in Rids : f[i] # new_row
  PROVE  /\ HolderOf(f)[new_row] = NoRid
         /\ \A row \in Rows : HolderOf(f)[row] # id
         /\ HolderOf([f EXCEPT ![id] = new_row]) =
              [HolderOf(f) EXCEPT ![new_row] = id]
<1> DEFINE g == [f EXCEPT ![id] = new_row]
<1>1. \A i \in Rids : g[i] = IF i = id THEN new_row ELSE f[i]
  BY DEF OneToOne
<1>2. NoRow \notin Rows
  BY DEF RowPoolAssumption
<1>3. OneToOne(g)
  BY <1>1, <1>2 DEF OneToOne
<1>4. HolderOf(f)[new_row] = NoRid
  BY Holders
<1>5. \A row \in Rows : HolderOf(f)[row] # id
  BY <1>2, Holders
<1>6. ASSUME NEW row \in Rows
      PROVE  HolderOf(g)[row] = IF row = new_row THEN id ELSE HolderOf(f)[row]
  <2> HIDE DEF g
  <2>1. CASE row = new_row
    BY <1>1, <1>3, <2>1, Holders
  <2>2. CASE row # new_row
    <3>1. \A i \in Rids : g[i] = row <=> f[i] = row
      BY <1>1, <1>2, <2>2
    <3>2. QED
      BY <1>3, <2>2, <3>1, Holders
  <2>3. QED
    BY <2>1, <2>2
<1>7. HolderOf(g) = [HolderOf(f) EXCEPT ![new_row] = id]
  <2> HIDE DEF g
  <2>1. QED
    BY <1>6 DEF HolderOf
<1>8. QED
  BY <1>4, <1>5, <1>7

LEMMA BooksOneToOne ==
  ASSUME IInv
  PROVE  OneToOne(rowOf) /\ RowHolder = HolderOf(rowOf)
BY DEF IInv, TypeOK, RowOwnership, Mapped, OneToOne, RowHolder, HolderOf

(* The backend's steps as the lease sees them: Release relinquishes,       *)
(* AllocRow acquires, every other step stutters.                           *)
LEMMA LeaseStep ==
  ASSUME RowPoolAssumption, BackendAssumption, IInv, [Next]_vars
  PROVE  [Lease!LeaseNext]_RowHolder
<1>1. OneToOne(rowOf) /\ RowHolder = HolderOf(rowOf) /\ RowHolder' = HolderOf(rowOf')
  BY BooksOneToOne DEF RowHolder, HolderOf
<1>2. ASSUME NEW id \in Rids, Release(id)
      PROVE  Lease!Relinquish(id)
  <2>1. rowOf[id] # NoRow /\ rowOf' = [rowOf EXCEPT ![id] = NoRow]
    BY <1>2 DEF Release, Free
  <2>2. QED
    BY <1>1, <2>1, UnmapEndsLease DEF Lease!Relinquish
<1>3. ASSUME NEW id \in Rids, AllocRow(id)
      PROVE  Lease!Acquire(id)
  <2> DEFINE row == free[Len(free)]
  <2>1. Alloc(id) /\ BooksOK
    BY <1>3 DEF AllocRow, IInv, TypeOK, BooksOK
  <2>2. rowOf[id] = NoRow /\ free # <<>> /\ rowOf' = [rowOf EXCEPT ![id] = row]
    BY <2>1 DEF Alloc
  <2>3. Len(free) \in Nat \ {0} /\ row \in Rows
    BY <2>1, <2>2, PopLast
  <2>4. row \in FreeRows
    BY <2>3 DEF FreeRows
  <2>5. \A i \in Rids : rowOf[i] # row
    BY <2>3, <2>4 DEF IInv, RowOwnership, Mapped, RowPoolAssumption
  <2>6. /\ RowHolder[row] = NoRid
        /\ \A s \in Rows : RowHolder[s] # id
        /\ RowHolder' = [RowHolder EXCEPT ![row] = id]
    <3> HIDE DEF row
    <3>1. QED
      BY <1>1, <2>2, <2>3, <2>5, MapStartsLease
  <2>7. QED
    BY <2>3, <2>6 DEF Lease!Acquire
<1>4. CASE UNCHANGED rowOf
  BY <1>1, <1>4
<1>5. \/ \E id \in Rids : Release(id) \/ AllocRow(id)
      \/ UNCHANGED rowOf
  <2>1. CASE Schedule
    BY <2>1 DEF Schedule, Admit, Finish, InitForwardMetadata, IdleMetadata, poolVars
  <2>2. CASE Host
    BY <2>2 DEF Host, AllocFails, BeginForward, ExtendKernel, ExtendSdpa, DecodeSdpa,
         Sdpa, DecodeKernel, RebindCopy, EndForward, poolVars
  <2>3. CASE Gpu
    BY <2>3 DEF Gpu, RunOnRow, RunOffRow, poolVars
  <2>4. CASE UNCHANGED vars
    BY <2>4 DEF vars, poolVars
  <2>5. QED
    BY <2>1, <2>2, <2>3, <2>4 DEF Next
<1>6. QED
  BY <1>2, <1>3, <1>4, <1>5 DEF Lease!LeaseNext

LEMMA LeaseStart ==
  ASSUME RowPoolAssumption, Init
  PROVE  Lease!LeaseInit
BY DEF RowPoolAssumption, Init, PoolInit, RowHolder, Lease!LeaseInit

(* Seen through the holders of its rows, the backend is RowLease: whatever *)
(* the scheduler and the stream do, a row goes from one id to another only *)
(* by way of nobody, and no id gets a second row.                          *)
THEOREM BackendIsLease == Spec => PoolIsLease
<1>1. Init => Lease!LeaseInit
  BY LeaseStart, RowPoolAssumption
<1>2. IInv /\ [Next]_vars => [Lease!LeaseNext]_RowHolder
  BY LeaseStep, RowPoolAssumption, BackendAssumption
<1>3. QED
  BY <1>1, <1>2, Inductive, PTL DEF Spec, PoolIsLease, Lease!LeaseSpec

-------------------------------------------------------------------------------
(***************************************************************************)
(* What is in the rows and what attention reads, on top of the ownership   *)
(* of rows.                                                                *)
(*                                                                         *)
(* The three properties speak of the rows and of the last attention only.  *)
(* What carries them from the launch of a kernel to its run is said here   *)
(* of every launch in the stream: whose it is, which row or copy it was    *)
(* handed, how far its window goes (LaunchOK, LaunchReads), and that a     *)
(* request which shares its row is an heir that has processed nothing yet. *)
(***************************************************************************)

\* The tokens of r that the completed steps and this forward have dealt with.
Due(r) == IF step = "forward" /\ r \in Batch \ todo THEN len[r] + new[r] ELSE len[r]

\* Live requests have ids of their own, and a lease says whether the id is
\* active.
LeaseOK ==
  /\ \A r, s \in Live : rid[r] = rid[s] => r = s
  /\ \A r \in Live :
       /\ Held(r) => rid[r] \in active
       /\ lease[r] = "none" => rid[r] \notin active /\ len[r] = 0
  /\ \A r \in Reqs : stage[r] = "waiting" => len[r] = 0 /\ ctx[r] = <<>>

\* A launch is of requests of this forward or of the last one, its window ends
\* with their newest token, and nobody else uses the row it was given, except
\* an heir of the id that has not been in a batch.
LaunchOK(k) ==
  /\ \A r \in k.reqs : stage[r] # "waiting"
  /\ step = "forward" => k.reqs \subseteq Batch \ todo
  /\ \A r \in k.reqs \intersect Live : k.past + k.n = Due(r)
  /\ k.mem \in {"pool", "sdpa"} =>
       /\ \E r \in Reqs : k.reqs = {r}
       /\ \A r \in k.reqs \intersect Live : k.row = RowFor(r)
       /\ \A s \in Live : RowFor(s) = k.row =>
            s \in k.reqs \/ (step = "idle" /\ lease[s] = "inherited" /\ len[s] = 0)

StreamOK ==
  /\ step \in {"rows", "failed"} => stream = <<>> /\ \A r \in Reqs : ctx[r] = <<>>
  /\ \A i \in 1 .. Len(stream) : LaunchOK(stream[i])
  /\ \A r \in Live : ctx[r] # <<>> =>
       Len(ctx[r]) = Due(r) /\ (step = "forward" => r \in Batch \ todo)

\* A decode brings one token of a running request.
DecodeOK ==
  step \in {"rows", "forward"} /\ mode = "decode" =>
    \A r \in Batch : new[r] = 1 /\ prompt[r] <= len[r]

\* Memory with entries of r's own at their places, and zeroes.
OwnOrZero(r, mem) == \A p \in Pos : mem[p] \in {Tok(r, p), Zero}

OwnRows ==
  \A r \in Live : lease[r] # "inherited" /\ RowFor(r) # NoRow =>
    OwnOrZero(r, kv[RowFor(r)])

OwnCopies ==
  \A r \in Live : lease[r] # "inherited" =>
    \A i \in 1 .. Len(stream) : r \in stream[i].reqs => OwnOrZero(r, stream[i].copy[r])

CInv ==
  /\ IInv
  /\ LeaseOK
  /\ StreamOK
  /\ OwnRows
  /\ OwnCopies
  /\ NoForeignContext

--------------------------------------------------------------------------------
\* Facts about rows and launches.

(* A live request has a row exactly if its id is active, and then nobody   *)
(* else alive has that row.                                                *)
LEMMA LiveRow ==
  ASSUME IInv, LeaseOK, RowPoolAssumption, NEW r \in Live
  PROVE  /\ r \in Reqs /\ rid[r] \in Rids
         /\ RowFor(r) # NoRow <=> rid[r] \in active
         /\ RowFor(r) # NoRow => RowFor(r) \in Rows
         /\ \A s \in Live : RowFor(r) # NoRow /\ RowFor(s) = RowFor(r) => s = r
<1>1. r \in Reqs /\ rid[r] \in Rids /\ \A s \in Live : rid[s] \in Rids
  BY DEF IInv, BatchOK, Live
<1>2. RowFor(r) # NoRow <=> rid[r] \in active
  BY <1>1 DEF IInv, ActiveIdsOwnRows, Mapped, RowFor
<1>3. RowFor(r) # NoRow => RowFor(r) \in Rows
  BY <1>1 DEF IInv, TypeOK, RowFor
<1>4. ASSUME NEW s \in Live, RowFor(r) # NoRow, RowFor(s) = RowFor(r)
      PROVE  s = r
  <2>1. rid[r] \in Mapped /\ rid[s] \in Mapped
    BY <1>1, <1>4 DEF Mapped, RowFor
  <2>2. rid[s] = rid[r]
    BY <1>4, <2>1 DEF IInv, RowOwnership, RowFor
  <2>3. QED
    BY <2>2 DEF LeaseOK
<1>5. QED
  BY <1>1, <1>2, <1>3, <1>4

(* A request in the batch of a forward is alive and has a row.             *)
LEMMA BatchRow ==
  ASSUME CInv, RowPoolAssumption, step = "forward", NEW r \in Batch
  PROVE  r \in Live /\ RowFor(r) # NoRow /\ rid[r] \in active /\ lease[r] # "none"
<1>1. r \in Live /\ rid[r] \in active
  BY DEF CInv, IInv, BatchOK, BatchIds
<1>2. RowFor(r) # NoRow
  BY <1>1, LiveRow DEF CInv
<1>3. QED
  BY <1>1, <1>2 DEF CInv, LeaseOK

\* Two launches that differ in the kind of their memory only.
SameWork(j, k) ==
  /\ j.reqs = k.reqs /\ j.row = k.row /\ j.past = k.past /\ j.n = k.n
  /\ j.copy = k.copy

LEMMA DropCopiesElements ==
  ASSUME NEW s \in Seq(GoodLaunch)
  PROVE  /\ Len(DropCopies(s)) = Len(s)
         /\ \A i \in 1 .. Len(s) :
              /\ SameWork(DropCopies(s)[i], s[i])
              /\ DropCopies(s)[i].mem = IF s[i].mem = "copy" THEN "dropped" ELSE s[i].mem
<1>1. Len(s) \in Nat /\ \A i \in 1 .. Len(s) : s[i] \in Launch
  BY LenProperties DEF GoodLaunch
<1>2. Len(DropCopies(s)) = Len(s)
  BY <1>1 DEF DropCopies
<1>3. ASSUME NEW k \in Launch
      PROVE  /\ SameWork([k EXCEPT !.mem = "dropped"], k) /\ SameWork(k, k)
             /\ [k EXCEPT !.mem = "dropped"].mem = "dropped"
  BY DEF Launch, SameWork
<1>4. ASSUME NEW i \in 1 .. Len(s)
      PROVE  /\ SameWork(DropCopies(s)[i], s[i])
             /\ DropCopies(s)[i].mem = IF s[i].mem = "copy" THEN "dropped" ELSE s[i].mem
  <2>1. DropCopies(s)[i] =
          IF s[i].mem = "copy" THEN [s[i] EXCEPT !.mem = "dropped"] ELSE s[i]
    BY DEF DropCopies
  <2>2. s[i] \in Launch
    BY <1>1
  <2>3. QED
    BY <1>3, <2>1, <2>2
<1>5. QED
  BY <1>2, <1>4

LEMMA ClobberElements ==
  ASSUME NEW s \in Seq(GoodLaunch)
  PROVE  /\ Clobber(s) \in Seq(GoodLaunch) /\ Len(Clobber(s)) = Len(s)
         /\ \A i \in 1 .. Len(s) :
              /\ SameWork(Clobber(s)[i], s[i])
              /\ Clobber(s)[i].mem = IF s[i].mem = "sdpa" THEN "sdpa" ELSE "clobbered"
<1>1. Len(s) \in Nat /\ \A i \in 1 .. Len(s) : s[i] \in Launch
  BY LenProperties DEF GoodLaunch
<1>2. Clobber(s) \in Seq(GoodLaunch) /\ Len(Clobber(s)) = Len(s)
  BY <1>1, ClobberGood DEF Clobber
<1>3. ASSUME NEW k \in Launch
      PROVE  /\ SameWork([k EXCEPT !.mem = "clobbered"], k) /\ SameWork(k, k)
             /\ [k EXCEPT !.mem = "clobbered"].mem = "clobbered"
  BY DEF Launch, SameWork
<1>4. ASSUME NEW i \in 1 .. Len(s)
      PROVE  /\ SameWork(Clobber(s)[i], s[i])
             /\ Clobber(s)[i].mem = IF s[i].mem = "sdpa" THEN "sdpa" ELSE "clobbered"
  <2>1. Clobber(s)[i] =
          IF s[i].mem = "sdpa" THEN s[i] ELSE [s[i] EXCEPT !.mem = "clobbered"]
    BY DEF Clobber
  <2>2. s[i] \in Launch
    BY <1>1
  <2>3. QED
    BY <1>3, <2>1, <2>2
<1>5. QED
  BY <1>2, <1>4

--------------------------------------------------------------------------------
\* Scheduler steps.

LEMMA InitCInv ==
  ASSUME RowPoolAssumption, BackendAssumption, Init
  PROVE  CInv
<1>1. IInv
  BY InitIInv
<1>2. Live = {} /\ Len(stream) = 0 /\ step = "idle"
  BY DEF Init, Live
<1>3. LeaseOK
  BY <1>2 DEF Init, LeaseOK
<1>4. StreamOK
  BY <1>2 DEF StreamOK
<1>5. OwnRows /\ OwnCopies /\ NoForeignContext
  BY <1>2 DEF OwnRows, OwnCopies, NoForeignContext
<1>6. QED
  BY <1>1, <1>3, <1>4, <1>5 DEF CInv

(* A new request has processed nothing, is in no launch, and has the row   *)
(* of its id only if it inherits it.                                       *)
LEMMA Newcomer ==
  ASSUME CInv, RowPoolAssumption, BackendAssumption,
         NEW r \in Reqs, NEW id \in Rids, NEW p \in Prompts[r], Admit(r, id, p)
  PROVE  /\ step = "idle" /\ r \notin Live /\ Live' = Live \union {r}
         /\ len[r] = 0 /\ ctx[r] = <<>> /\ rid'[r] = id
         /\ lease'[r] = IF id \in active THEN "inherited" ELSE "none"
         /\ RowFor(r)' # NoRow => lease'[r] = "inherited"
         /\ \A i \in 1 .. Len(stream) : r \notin stream[i].reqs
         /\ \A s \in Live : /\ s # r /\ rid'[s] = rid[s] /\ lease'[s] = lease[s]
                            /\ prompt'[s] = prompt[s] /\ RowFor(s)' = RowFor(s)
         /\ \A s \in Reqs : Due(s)' = len[s] /\ (Due(s) = len[s])
<1>1. step = "idle" /\ stage[r] = "waiting" /\ step' = step
  BY DEF Admit, hostVars
<1>2. r \notin Live /\ Live' = Live \union {r}
  BY <1>1 DEF Live, Admit, CInv, IInv, TypeOK
<1>3. len[r] = 0 /\ ctx[r] = <<>>
  BY <1>1 DEF CInv, LeaseOK
<1>4. /\ rid'[r] = id
      /\ lease'[r] = IF id \in active THEN "inherited" ELSE "none"
      /\ rowOf' = rowOf
  BY DEF Admit, CInv, IInv, TypeOK, poolVars
<1>5. RowFor(r)' # NoRow => lease'[r] = "inherited"
  BY <1>4 DEF RowFor, CInv, IInv, ActiveIdsOwnRows, Mapped
<1>6. \A i \in 1 .. Len(stream) : r \notin stream[i].reqs
  BY <1>1 DEF CInv, StreamOK, LaunchOK
<1>7. \A s \in Live : /\ s # r /\ rid'[s] = rid[s] /\ lease'[s] = lease[s]
                      /\ prompt'[s] = prompt[s] /\ RowFor(s)' = RowFor(s)
  BY <1>2, <1>4 DEF Admit, RowFor, CInv, IInv, TypeOK, Live
<1>8. \A s \in Reqs : Due(s)' = len[s] /\ Due(s) = len[s]
  BY <1>1 DEF Due, Admit
<1>9. QED
  BY <1>1, <1>2, <1>3, <1>4, <1>5, <1>6, <1>7, <1>8

LEMMA AdmitContent ==
  ASSUME CInv, RowPoolAssumption, BackendAssumption,
         NEW r \in Reqs, NEW id \in Rids, NEW p \in Prompts[r], Admit(r, id, p)
  PROVE  CInv'
<1>1. IInv'
  BY AdmitStep DEF CInv
<1>2. /\ UNCHANGED <<kv, rowOf, len, active, step, stream, ctx>>
      /\ \A s \in Live : rid[s] # id
      /\ stage' = [stage EXCEPT ![r] = "live"]
  BY DEF Admit, poolVars, hostVars
<1>3. LeaseOK'
  <2>1. \A q, s \in Live' : rid'[q] = rid'[s] => q = s
    BY <1>2, Newcomer DEF CInv, LeaseOK
  <2>2. ASSUME NEW s \in Live'
        PROVE  /\ Held(s)' => rid'[s] \in active'
               /\ lease'[s] = "none" => rid'[s] \notin active' /\ len'[s] = 0
    <3>1. CASE s = r
      BY <1>2, <3>1, Newcomer DEF Held
    <3>2. CASE s \in Live
      BY <1>2, <3>2, Newcomer DEF Held, CInv, LeaseOK
    <3>3. QED
      BY <3>1, <3>2, Newcomer
  <2>3. \A s \in Reqs : stage'[s] = "waiting" => len'[s] = 0 /\ ctx'[s] = <<>>
    BY <1>2 DEF CInv, IInv, TypeOK, LeaseOK
  <2>4. QED
    BY <2>1, <2>2, <2>3 DEF LeaseOK
<1>4. StreamOK'
  <2>1. ASSUME NEW i \in 1 .. Len(stream')
        PROVE  LaunchOK(stream[i])'
    <3> DEFINE k == stream[i]
    <3>1. LaunchOK(k) /\ k \in GoodLaunch /\ k.reqs \subseteq Reqs /\ r \notin k.reqs
      <4>1. stream' = stream /\ stream \in Seq(GoodLaunch)
        BY <1>2 DEF CInv, IInv
      <4>2. k \in GoodLaunch
        BY <4>1, ElementOfSeq
      <4>3. LaunchOK(k)
        BY <4>1 DEF CInv, StreamOK
      <4>4. r \notin k.reqs
        BY <4>1, Newcomer
      <4>5. QED
        BY <4>2, <4>3, <4>4 DEF GoodLaunch, Launch
    <3>2. stream'[i] = k /\ step' = "idle"
      BY <1>2, Newcomer
    <3> HIDE DEF k
    <3>3. \A s \in k.reqs : stage'[s] # "waiting"
      BY <1>2, <3>1 DEF LaunchOK, CInv, IInv, TypeOK
    <3>4. \A s \in k.reqs \intersect Live' : s \in Live /\ k.past + k.n = Due(s)'
      BY <3>1, Newcomer DEF LaunchOK
    <3>5. ASSUME k.mem \in {"pool", "sdpa"}
          PROVE  /\ \E s \in Reqs : k.reqs = {s}
                 /\ \A s \in k.reqs \intersect Live' : k.row = RowFor(s)'
                 /\ \A s \in Live' : RowFor(s)' = k.row =>
                      s \in k.reqs \/ (lease'[s] = "inherited" /\ len'[s] = 0)
      <4>1. k.row # NoRow
        BY <3>1, <3>5 DEF GoodLaunch, RowPoolAssumption
      <4>2. QED
        BY <1>2, <3>1, <3>4, <3>5, <4>1, Newcomer DEF LaunchOK
    <3>6. QED
      BY <3>2, <3>3, <3>4, <3>5 DEF LaunchOK
  <2>2. \A s \in Live' : ctx'[s] # <<>> => Len(ctx'[s]) = Due(s)'
    BY <1>2, Newcomer DEF CInv, StreamOK, Live
  <2>3. QED
    BY <1>2, <2>1, <2>2, Newcomer DEF StreamOK
<1>5. OwnRows'
  BY <1>2, Newcomer DEF CInv, OwnRows, OwnOrZero
<1>6. OwnCopies'
  BY <1>2, Newcomer DEF CInv, OwnCopies, OwnOrZero
<1>7. NoForeignContext'
  BY <1>2, Newcomer DEF CInv, NoForeignContext
<1>8. QED
  BY <1>1, <1>3, <1>4, <1>5, <1>6, <1>7 DEF CInv

LEMMA FinishContent ==
  ASSUME CInv, NEW r \in Reqs, Finish(r)
  PROVE  CInv'
<1>1. IInv'
  BY FinishStep DEF CInv
<1>2. /\ UNCHANGED <<kv, rowOf, len, active, step, stream, ctx, lease>>
      /\ step = "idle" /\ r \in Live
      /\ stage' = [stage EXCEPT ![r] = "done"]
  BY DEF Finish, Running, poolVars, hostVars
<1>3. /\ Live' \subseteq Live
      /\ \A s \in Live' : rid'[s] = rid[s] /\ RowFor(s)' = RowFor(s)
  BY <1>2 DEF Live, Finish, RowFor, CInv, IInv, TypeOK
<1>4. \A s \in Reqs : Due(s)' = Due(s)
  BY <1>2 DEF Due
<1>5. \A s \in Reqs : stage'[s] = "waiting" <=> stage[s] = "waiting"
  BY <1>2 DEF Live, CInv, IInv, TypeOK
<1>6. LeaseOK'
  BY <1>2, <1>3, <1>5 DEF CInv, LeaseOK, Held
<1>7. StreamOK'
  <2>1. ASSUME NEW i \in 1 .. Len(stream')
        PROVE  LaunchOK(stream[i])'
    <3>1. LaunchOK(stream[i]) /\ stream[i].reqs \subseteq Reqs /\ stream'[i] = stream[i]
      BY <1>2, LenProperties DEF CInv, StreamOK, IInv, GoodLaunch, Launch
    <3>2. QED
      BY <1>2, <1>3, <1>4, <1>5, <3>1 DEF LaunchOK
  <2>2. QED
    BY <1>2, <1>3, <1>4, <2>1 DEF CInv, StreamOK, Live
<1>8. OwnRows' /\ OwnCopies' /\ NoForeignContext'
  BY <1>2, <1>3 DEF CInv, OwnRows, OwnCopies, OwnOrZero, NoForeignContext
<1>9. QED
  BY <1>1, <1>6, <1>7, <1>8 DEF CInv

LEMMA MetadataContent ==
  ASSUME CInv, NEW m \in {"extend", "decode"}, NEW n \in [Reqs -> 0 .. MaxSeq],
         BatchFits(n), InitForwardMetadata(m, n)
  PROVE  CInv'
<1>1. IInv'
  BY MetadataStep DEF CInv
<1>2. /\ UNCHANGED <<kv, rowOf, stage, rid, len, active, lease>>
      /\ stream' = <<>> /\ step' = "rows"
      /\ \A s \in Reqs : ctx'[s] = <<>>
  BY DEF InitForwardMetadata, Synced, poolVars, schedVars
<1>3. Live' = Live
  BY <1>2 DEF Live
<1>4. LeaseOK'
  BY <1>2, <1>3 DEF CInv, LeaseOK, Held
<1>5. StreamOK'
  BY <1>2 DEF StreamOK, Live
<1>6. OwnRows'
  BY <1>2, <1>3 DEF CInv, OwnRows, OwnOrZero, RowFor
<1>7. OwnCopies' /\ NoForeignContext'
  BY <1>2 DEF OwnCopies, NoForeignContext, Live
<1>8. QED
  BY <1>1, <1>4, <1>5, <1>6, <1>7 DEF CInv

LEMMA IdleContent ==
  ASSUME CInv, RowPoolAssumption, IdleMetadata
  PROVE  CInv'
<1>1. IInv'
  BY IdleStep DEF CInv
<1>2. /\ UNCHANGED <<kv, rowOf, stage, rid, len, active, step, stream, ctx, lease>>
      /\ step = "idle"
  BY DEF IdleMetadata, poolVars, schedVars
<1>3. Live' = Live /\ \A s \in Reqs : Due(s)' = Due(s) /\ RowFor(s)' = RowFor(s)
  BY <1>2 DEF Live, Due, RowFor
<1>4. LeaseOK'
  BY <1>2, <1>3 DEF CInv, LeaseOK, Held
<1>5. StreamOK'
  <2>1. ASSUME NEW i \in 1 .. Len(stream')
        PROVE  LaunchOK(stream[i])'
    <3>1. LaunchOK(stream[i]) /\ stream[i].reqs \subseteq Reqs /\ stream'[i] = stream[i]
      BY <1>2, LenProperties DEF CInv, StreamOK, IInv, GoodLaunch, Launch
    <3>2. QED
      BY <1>2, <1>3, <3>1 DEF LaunchOK, Live
  <2>2. QED
    BY <1>2, <1>3, <2>1 DEF CInv, StreamOK, Live
<1>6. OwnRows' /\ OwnCopies' /\ NoForeignContext'
  BY <1>2, <1>3 DEF CInv, OwnRows, OwnCopies, OwnOrZero, NoForeignContext, Live
<1>7. QED
  BY <1>1, <1>4, <1>5, <1>6 DEF CInv

--------------------------------------------------------------------------------
\* The rows of a batch.

(* While rows are given back and handed out, no launch is left and no      *)
(* attention has run: only the leases and the rows matter.                 *)
LEMMA RowsStep ==
  ASSUME CInv, IInv', step = "rows", step' \in {"rows", "forward", "failed"},
         UNCHANGED <<schedVars, stream, ctx>>, LeaseOK', OwnRows'
  PROVE  CInv'
<1>1. stream = <<>> /\ \A r \in Reqs : ctx[r] = <<>>
  BY DEF CInv, StreamOK
<1>2. StreamOK'
  BY <1>1 DEF StreamOK, Live
<1>3. OwnCopies' /\ NoForeignContext'
  BY <1>1 DEF OwnCopies, NoForeignContext, Live
<1>4. QED
  BY <1>2, <1>3 DEF CInv

LEMMA ReleaseContent ==
  ASSUME CInv, RowPoolAssumption, NEW id \in Rids, Release(id)
  PROVE  CInv'
<1>1. IInv'
  BY ReleaseStep DEF CInv
<1>2. /\ UNCHANGED <<schedVars, kv, step, stream, ctx>> /\ step = "rows"
      /\ active' = active \ {id}
      /\ rowOf' = [rowOf EXCEPT ![id] = NoRow]
  BY DEF Release, Free
<1>3. Live' = Live /\ \A r \in Live : r \in Reqs /\ rid[r] \in Rids /\ rid'[r] = rid[r]
  BY <1>2 DEF Live, schedVars, CInv, IInv, BatchOK
<1>4. \A r \in Live : RowFor(r)' = IF rid[r] = id THEN NoRow ELSE RowFor(r)
  BY <1>2, <1>3 DEF RowFor, CInv, IInv, TypeOK
<1>5. \A r \in Live : lease'[r] = IF rid[r] = id
                                  THEN IF len[r] = 0 THEN "none" ELSE "lost"
                                  ELSE lease[r]
  BY <1>3 DEF Release
<1>6. LeaseOK'
  BY <1>2, <1>3, <1>5 DEF CInv, LeaseOK, Held, schedVars
<1>7. OwnRows'
  BY <1>2, <1>3, <1>4, <1>5 DEF CInv, OwnRows, OwnOrZero
<1>8. QED
  BY <1>1, <1>2, <1>6, <1>7, RowsStep

(* alloc hands out a row no live request has, zeroed.                      *)
LEMMA AllocatedRow ==
  ASSUME CInv, RowPoolAssumption, NEW id \in Rids, Alloc(id)
  PROVE  LET row == free[Len(free)] IN
         /\ row \in Rows
         /\ rowOf' = [rowOf EXCEPT ![id] = row]
         /\ kv' = [kv EXCEPT ![row] = ZeroRow]
         /\ \A r \in Live : RowFor(r) # row
<1> DEFINE row == free[Len(free)]
<1>1. free # <<>> /\ BooksOK
  BY DEF Alloc, CInv, IInv, TypeOK, BooksOK
<1>2. Len(free) \in Nat \ {0} /\ row \in Rows
  BY <1>1, PopLast
<1>3. row \in FreeRows
  BY <1>2 DEF FreeRows
<1>4. row # NoRow
  BY <1>2 DEF RowPoolAssumption
<1>5. \A i \in Rids : rowOf[i] # row
  BY <1>3, <1>4 DEF CInv, IInv, RowOwnership, Mapped
<1>6. \A r \in Live : rid[r] \in Rids
  BY DEF CInv, IInv, BatchOK
<1>7. QED
  BY <1>2, <1>5, <1>6 DEF Alloc, RowFor

LEMMA AllocRowContent ==
  ASSUME CInv, RowPoolAssumption, NEW id \in Rids, AllocRow(id)
  PROVE  CInv'
<1> DEFINE row == free[Len(free)]
<1>1. IInv'
  BY AllocRowStep DEF CInv
<1>2. /\ UNCHANGED <<schedVars, step, stream, ctx>> /\ step = "rows"
      /\ active' = active \union {id} /\ id \notin active
  BY DEF AllocRow, ToAlloc
<1>3. /\ row \in Rows
      /\ rowOf' = [rowOf EXCEPT ![id] = row]
      /\ kv' = [kv EXCEPT ![row] = ZeroRow]
      /\ \A r \in Live : RowFor(r) # row
  BY AllocatedRow DEF AllocRow
<1> HIDE DEF row
<1>4. Live' = Live /\ \A r \in Live : r \in Reqs /\ rid[r] \in Rids /\ rid'[r] = rid[r]
  BY <1>2 DEF Live, schedVars, CInv, IInv, BatchOK
<1>5. \A r \in Live : RowFor(r)' = IF rid[r] = id THEN row ELSE RowFor(r)
  BY <1>3, <1>4 DEF RowFor, CInv, IInv, TypeOK
<1>6. \A r \in Live : lease'[r] = IF rid[r] = id /\ lease[r] = "none"
                                  THEN "fresh" ELSE lease[r]
  BY <1>4 DEF AllocRow
<1>7. LeaseOK'
  BY <1>2, <1>4, <1>6 DEF CInv, LeaseOK, Held, schedVars
<1>8. OwnRows'
  <2>1. \A r \in Reqs : OwnOrZero(r, ZeroRow)
    BY DEF OwnOrZero, ZeroRow
  <2>2. ASSUME NEW r \in Live, lease'[r] # "inherited", RowFor(r)' # NoRow
        PROVE  OwnOrZero(r, kv'[RowFor(r)'])
    <3>1. CASE rid[r] = id
      <4>1. kv'[RowFor(r)'] = ZeroRow
        BY <1>3, <1>5, <3>1 DEF CInv, IInv, TypeOK
      <4>2. QED
        BY <1>4, <2>1, <4>1
    <3>2. CASE rid[r] # id
      <4>1. lease[r] # "inherited" /\ RowFor(r) # NoRow /\ RowFor(r)' = RowFor(r)
        BY <1>5, <1>6, <2>2, <3>2
      <4>2. kv'[RowFor(r)] = kv[RowFor(r)]
        BY <1>3, <4>1, LiveRow DEF CInv, IInv, TypeOK
      <4>3. QED
        BY <4>1, <4>2 DEF CInv, OwnRows
    <3>3. QED
      BY <3>1, <3>2
  <2>3. QED
    BY <1>4, <2>2 DEF OwnRows, OwnOrZero
<1>9. QED
  BY <1>1, <1>2, <1>7, <1>8, RowsStep

LEMMA RowsDoneContent ==
  ASSUME CInv, BeginForward \/ \E id \in Rids : AllocFails(id)
  PROVE  CInv'
<1>1. IInv'
  BY AllocFailsStep, BeginForwardStep DEF CInv
<1>2. /\ UNCHANGED <<rowOf, kv, schedVars, active, stream, ctx, lease>>
      /\ step = "rows" /\ step' \in {"forward", "failed"}
  BY DEF BeginForward, AllocFails, ToAlloc, poolVars
<1>3. LeaseOK'
  BY <1>2 DEF CInv, LeaseOK, Held, Live, schedVars
<1>4. OwnRows'
  BY <1>2 DEF CInv, OwnRows, OwnOrZero, RowFor, Live, schedVars
<1>5. QED
  BY <1>1, <1>2, <1>3, <1>4, RowsStep

--------------------------------------------------------------------------------
\* The forward.

\* What the steps of the forward leave alone.
ForwardFrame ==
  /\ step = "forward" /\ todo' \subseteq todo
  /\ UNCHANGED <<free, rowOf, schedVars, active, step, mode, new, ctx, lease>>

LEMMA ForwardNames ==
  ASSUME CInv, ForwardFrame
  PROVE  /\ Live' = Live /\ Batch' = Batch /\ todo \subseteq Batch /\ Batch \subseteq Live
         /\ \A r \in Reqs : RowFor(r)' = RowFor(r)
         /\ \A r \in Batch \ todo : r \in (Batch \ todo)' /\ Due(r)' = Due(r)
         /\ \A r \in Live : r \notin todo => Due(r)' = Due(r)
<1>1. /\ UNCHANGED <<rowOf, stage, rid, len, new, step>>
      /\ step = "forward" /\ todo' \subseteq todo
  BY DEF ForwardFrame, schedVars
<1>2. Live' = Live /\ Batch' = Batch
  BY <1>1 DEF Live, Batch
<1>3. todo \subseteq Batch /\ Batch \subseteq Live
  BY <1>1 DEF CInv, IInv, BatchOK
<1>4. \A r \in Reqs : RowFor(r)' = RowFor(r)
  BY <1>1 DEF RowFor
<1>5. \A r \in Batch \ todo : r \in (Batch \ todo)' /\ Due(r)' = Due(r)
  BY <1>1, <1>2 DEF Due
<1>6. \A r \in Live : r \notin todo => Due(r)' = Due(r)
  BY <1>1, <1>2 DEF Due
<1>7. QED
  BY <1>2, <1>3, <1>4, <1>5, <1>6

(* A step of the forward leaves the leases and the attentions alone.       *)
LEMMA ForwardContent ==
  ASSUME CInv, IInv', ForwardFrame, OwnRows', OwnCopies',
         \A i \in 1 .. Len(stream') : LaunchOK(stream[i])'
  PROVE  CInv'
<1>1. UNCHANGED <<rowOf, schedVars, active, step, ctx, lease>> /\ step = "forward"
  BY DEF ForwardFrame
<1>2. LeaseOK'
  BY <1>1 DEF CInv, LeaseOK, Held, Live, schedVars
<1>3. StreamOK'
  <2>1. \A r \in Live' : ctx'[r] # <<>> =>
          Len(ctx'[r]) = Due(r)' /\ r \in (Batch \ todo)'
    BY <1>1, ForwardNames DEF CInv, StreamOK
  <2>2. QED
    BY <1>1, <2>1 DEF StreamOK
<1>4. NoForeignContext'
  BY <1>1, ForwardNames DEF CInv, NoForeignContext
<1>5. QED
  BY <1>2, <1>3, <1>4 DEF CInv

(* What held of a launch goes on to hold of it, whatever became of the     *)
(* memory it was handed.                                                   *)
LEMMA OldLaunch ==
  ASSUME CInv, ForwardFrame, NEW i \in 1 .. Len(stream),
         SameWork(stream'[i], stream[i]),
         stream'[i].mem \in {"pool", "sdpa"} => stream[i].mem \in {"pool", "sdpa"}
  PROVE  LaunchOK(stream[i])'
<1>1. LaunchOK(stream[i]) /\ stream[i].reqs \subseteq Reqs
  BY LenProperties DEF CInv, StreamOK, IInv, GoodLaunch, Launch
<1>2. UNCHANGED <<stage, rid, len, step, lease>> /\ step = "forward"
  BY DEF ForwardFrame, schedVars
<1>3. \A r \in stream'[i].reqs : stage'[r] # "waiting"
  BY <1>1, <1>2 DEF LaunchOK, SameWork
<1>4. stream'[i].reqs \subseteq (Batch \ todo)'
  BY <1>1, <1>2, ForwardNames DEF LaunchOK, SameWork
<1>5. \A r \in stream'[i].reqs \intersect Live' : stream'[i].past + stream'[i].n = Due(r)'
  BY <1>1, <1>2, ForwardNames DEF LaunchOK, SameWork
<1>6. ASSUME stream'[i].mem \in {"pool", "sdpa"}
      PROVE  /\ \E r \in Reqs : stream'[i].reqs = {r}
             /\ \A r \in stream'[i].reqs \intersect Live' : stream'[i].row = RowFor(r)'
             /\ \A s \in Live' : RowFor(s)' = stream'[i].row => s \in stream'[i].reqs
  BY <1>1, <1>2, <1>6, ForwardNames DEF LaunchOK, SameWork, Live
<1>7. QED
  BY <1>3, <1>4, <1>5, <1>6 DEF LaunchOK

(* A launch on the row of a request of the batch is that request's alone.  *)
LEMMA NewOnRow ==
  ASSUME CInv, RowPoolAssumption, ForwardFrame, NEW r \in todo, r \notin todo',
         NEW i \in 1 .. Len(stream'), NEW kind, NEW past, NEW n,
         stream'[i] = OnRow(kind, r, past, n), past + n = len[r] + new[r]
  PROVE  LaunchOK(stream[i])'
<1>1. r \in Batch /\ r \in Live /\ r \in Reqs /\ RowFor(r) # NoRow
  BY ForwardNames, BatchRow DEF ForwardFrame, Batch
<1>2. /\ stream'[i].reqs = {r} /\ stream'[i].row = RowFor(r)
      /\ stream'[i].past + stream'[i].n = len[r] + new[r]
  BY DEF OnRow
<1>3. stage'[r] # "waiting"
  BY <1>1 DEF ForwardFrame, schedVars, Live
<1>4. Due(r)' = len[r] + new[r]
  BY <1>1, ForwardNames DEF Due, ForwardFrame, schedVars
<1>5. \A s \in Live' : RowFor(s)' = RowFor(r) => s = r
  BY <1>1, ForwardNames, LiveRow DEF CInv
<1>6. QED
  BY <1>1, <1>2, <1>3, <1>4, <1>5, ForwardNames DEF LaunchOK

LEMMA ExtendKernelContent ==
  ASSUME CInv, RowPoolAssumption, NEW r \in Reqs, ExtendKernel(r)
  PROVE  CInv'
<1> DEFINE k == OnRow("pool", r, len[r], new[r])
<1>1. IInv'
  BY ExtendKernelStep DEF CInv
<1>2. ForwardFrame /\ r \in todo /\ r \notin todo' /\ UNCHANGED kv
  BY DEF ExtendKernel, ForwardFrame, poolVars
<1>3. k \in GoodLaunch /\ stream \in Seq(GoodLaunch)
  BY <1>2, BatchHasRows, OnRowGood DEF CInv, IInv, ForwardFrame
<1>4. stream' = Append(Clobber(stream), k)
  BY DEF ExtendKernel, LaunchKernel
<1>5. k.copy = [q \in Reqs |-> ZeroRow]
  BY DEF OnRow
<1>6. /\ Len(stream) \in Nat /\ Len(stream') = Len(stream) + 1
      /\ stream'[Len(stream) + 1] = k
      /\ \A i \in 1 .. Len(stream) :
           /\ SameWork(stream'[i], stream[i])
           /\ stream'[i].mem = IF stream[i].mem = "sdpa" THEN "sdpa" ELSE "clobbered"
  <2> HIDE DEF k
  <2>1. QED
    BY <1>3, <1>4, ClobberElements, AppendProperties, LenProperties
<1>7. \A i \in 1 .. Len(stream') : LaunchOK(stream[i])'
  <2>1. ASSUME NEW i \in 1 .. Len(stream)
        PROVE  LaunchOK(stream[i])'
    BY <1>2, <1>6, OldLaunch
  <2>2. ASSUME NEW i \in 1 .. Len(stream'), i = Len(stream) + 1
        PROVE  LaunchOK(stream[i])'
    BY <1>2, <1>6, <2>2, NewOnRow
  <2>3. QED
    BY <1>6, <2>1, <2>2
<1>8. OwnRows'
  BY <1>2, ForwardNames DEF CInv, OwnRows, OwnOrZero, Live, ForwardFrame
<1>9. OwnCopies'
  <2> HIDE DEF k
  <2>1. ASSUME NEW s \in Live', lease'[s] # "inherited",
               NEW i \in 1 .. Len(stream'), s \in stream'[i].reqs
        PROVE  OwnOrZero(s, stream'[i].copy[s])
    <3>0. s \in Live /\ s \in Reqs /\ lease[s] # "inherited"
      BY <1>2, <2>1, ForwardNames DEF ForwardFrame, Live
    <3>1. CASE i \in 1 .. Len(stream)
      BY <1>6, <2>1, <3>0, <3>1 DEF CInv, OwnCopies, SameWork
    <3>2. CASE i = Len(stream) + 1
      BY <1>5, <1>6, <3>0, <3>2 DEF OwnOrZero, ZeroRow
    <3>3. QED
      BY <1>6, <3>1, <3>2
  <2>2. QED
    BY <2>1 DEF OwnCopies, OwnOrZero
<1>10. QED
  BY <1>1, <1>2, <1>7, <1>8, <1>9, ForwardContent

(* A request's tokens stored in its own row are its own there, and no      *)
(* other live request's row is touched.                                    *)
LEMMA StoreOwn ==
  ASSUME CInv, RowPoolAssumption, NEW r, NEW row \in Rows, NEW first, NEW n,
         \A s \in Live : RowFor(s) = row => s = r \/ lease[s] = "inherited",
         Store(row, first, n, [p \in Pos |-> Tok(r, p)])
  PROVE  \A s \in Live : lease[s] # "inherited" /\ RowFor(s) # NoRow =>
           OwnOrZero(s, kv'[RowFor(s)])
<1>1. kv' = [kv EXCEPT ![row] = [p \in Pos |-> IF p \in first .. first + n - 1
                                              THEN Tok(r, p) ELSE kv[row][p]]]
  BY DEF Store, CInv, IInv, TypeOK
<1>2. kv \in [Rows -> [Pos -> Content]]
  BY DEF CInv, IInv, TypeOK
<1>3. ASSUME NEW s \in Live, lease[s] # "inherited", RowFor(s) # NoRow
      PROVE  OwnOrZero(s, kv'[RowFor(s)])
  <2>1. OwnOrZero(s, kv[RowFor(s)]) /\ RowFor(s) \in Rows
    BY <1>3, LiveRow DEF CInv, OwnRows
  <2>2. CASE RowFor(s) = row
    <3>1. s = r
      BY <1>3, <2>2
    <3>2. \A p \in Pos : kv'[row][p] = IF p \in first .. first + n - 1
                                       THEN Tok(r, p) ELSE kv[row][p]
      BY <1>1, <1>2
    <3>3. QED
      BY <2>1, <2>2, <3>1, <3>2 DEF OwnOrZero
  <2>3. CASE RowFor(s) # row
    BY <1>1, <1>2, <2>1, <2>3
  <2>4. QED
    BY <2>2, <2>3
<1>4. QED
  BY <1>3

LEMMA SdpaContent ==
  ASSUME CInv, RowPoolAssumption, step = "forward", NEW r \in todo, Sdpa(r, new[r])
  PROVE  CInv'
<1> DEFINE k == OnRow("sdpa", r, len[r] + new[r], 0)
<1>1. IInv'
  <2>1. new[r] \in Nat /\ new[r] <= new[r]
    BY BatchHasRows DEF CInv
  <2>2. QED
    BY <2>1, SdpaStep DEF CInv
<1>2. /\ ForwardFrame /\ r \notin todo'
      /\ Store(RowFor(r), len[r], new[r], [p \in Pos |-> Tok(r, p)])
      /\ stream = <<>> /\ stream' = Append(stream, k)
  BY DEF Sdpa, ForwardFrame, Synced
<1>3. /\ r \in Live /\ r \in Reqs /\ RowFor(r) \in Rows /\ RowFor(r) # NoRow
      /\ (len[r] + new[r]) + 0 = len[r] + new[r]
  BY BatchHasRows, ForwardNames, BatchRow, <1>2 DEF CInv
<1>4. Len(stream') = 1 /\ stream'[1] = k
  BY <1>2
<1>5. k.copy = [q \in Reqs |-> ZeroRow]
  BY DEF OnRow
<1>6. LaunchOK(stream[1])'
  BY <1>2, <1>3, <1>4, NewOnRow
<1>7. \A i \in 1 .. Len(stream') : LaunchOK(stream[i])'
  BY <1>4, <1>6
<1>8. OwnRows'
  <2>1. \A s \in Live : RowFor(s) = RowFor(r) => s = r
    BY <1>3, LiveRow DEF CInv
  <2>2. \A s \in Live : lease[s] # "inherited" /\ RowFor(s) # NoRow =>
           OwnOrZero(s, kv'[RowFor(s)])
    BY <1>2, <1>3, <2>1, StoreOwn
  <2>3. QED
    BY <1>2, <2>2, ForwardNames DEF OwnRows, OwnOrZero, Live, ForwardFrame
<1>9. OwnCopies'
  <2>1. Live' \subseteq Reqs
    BY DEF Live
  <2> HIDE DEF k
  <2>2. QED
    BY <1>4, <1>5, <2>1 DEF OwnCopies, OwnOrZero, ZeroRow
<1>10. QED
  BY <1>1, <1>2, <1>7, <1>8, <1>9, ForwardContent

LEMMA DecodeKernelContent ==
  ASSUME CInv, DecodeOK, RowPoolAssumption, NEW past \in Pos, DecodeKernel(past)
  PROVE  CInv'
<1> DEFINE bucket == {r \in todo : len[r] = past}
           copies == [r \in Reqs |-> IF r \in bucket THEN kv[RowFor(r)] ELSE ZeroRow]
           k == [mem |-> "copy", reqs |-> bucket, row |-> NoRow, past |-> past,
                 n |-> 1, copy |-> copies]
<1>1. IInv'
  BY DecodeKernelStep DEF CInv
<1>2. /\ ForwardFrame /\ todo' = todo \ bucket /\ UNCHANGED kv /\ mode = "decode"
      /\ stream' = Append(Clobber(stream), k)
  BY DEF DecodeKernel, LaunchKernel, ForwardFrame, poolVars
<1>3. stream' \in Seq(GoodLaunch) /\ stream \in Seq(GoodLaunch)
  BY <1>1 DEF CInv, IInv
<1>4. /\ k.copy = copies /\ k.reqs = bucket /\ k.mem = "copy"
      /\ k.past = past /\ k.n = 1
  OBVIOUS
<1>5. /\ Len(stream) \in Nat /\ Len(stream') = Len(stream) + 1
      /\ stream'[Len(stream) + 1] = k
      /\ \A i \in 1 .. Len(stream) :
           /\ SameWork(stream'[i], stream[i])
           /\ stream'[i].mem = IF stream[i].mem = "sdpa" THEN "sdpa" ELSE "clobbered"
  <2> HIDE DEF k
  <2>1. Clobber(stream) \in Seq(GoodLaunch)
    BY <1>3, ClobberElements
  <2>2. Clobber(stream) \in Seq(GoodLaunch \union {k}) /\ k \in GoodLaunch \union {k}
    BY <2>1
  <2>3. QED
    BY <1>2, <1>3, <2>2, ClobberElements, AppendProperties, LenProperties
<1> HIDE DEF k, copies
<1>6. \A r \in bucket : /\ r \in Batch \ todo' /\ r \in Live /\ r \in Reqs /\ RowFor(r) # NoRow
                        /\ stage'[r] # "waiting" /\ past + 1 = Due(r)'
  <2>1. ASSUME NEW r \in bucket
        PROVE  /\ r \in Batch \ todo' /\ r \in Live /\ r \in Reqs /\ RowFor(r) # NoRow
               /\ stage'[r] # "waiting" /\ past + 1 = Due(r)'
    <3>1. r \in Batch \ todo' /\ r \in Live /\ r \in Reqs /\ len[r] = past
      BY <1>2, ForwardNames DEF Batch
    <3>2. RowFor(r) # NoRow /\ new[r] = 1
      BY <1>2, <3>1, BatchRow DEF DecodeOK, ForwardFrame
    <3>3. stage'[r] # "waiting" /\ step' = "forward" /\ len'[r] = past /\ new'[r] = 1
      BY <1>2, <3>1, <3>2 DEF ForwardFrame, schedVars, Live
    <3>4. past + 1 = Due(r)'
      BY <1>2, <3>1, <3>3, ForwardNames DEF Due
    <3>5. QED
      BY <3>1, <3>2, <3>3, <3>4
  <2>2. QED
    BY <2>1
<1>7. \A i \in 1 .. Len(stream') : LaunchOK(stream[i])'
  <2>1. ASSUME NEW i \in 1 .. Len(stream)
        PROVE  LaunchOK(stream[i])'
    BY <1>2, <1>5, OldLaunch
  <2>2. ASSUME NEW i \in 1 .. Len(stream'), i = Len(stream) + 1
        PROVE  LaunchOK(stream[i])'
    <3> HIDE DEF bucket
    <3>1. stream'[i] = k
      BY <1>5, <2>2
    <3>2. k.reqs \subseteq (Batch \ todo)'
      BY <1>2, <1>4, <1>6, ForwardNames
    <3>3. QED
      BY <1>4, <1>6, <3>1, <3>2 DEF LaunchOK
  <2>3. QED
    BY <1>5, <2>1, <2>2
<1>8. OwnRows'
  BY <1>2, ForwardNames DEF CInv, OwnRows, OwnOrZero, Live, ForwardFrame
<1>9. OwnCopies'
  <2>1. ASSUME NEW s \in Live', lease'[s] # "inherited",
               NEW i \in 1 .. Len(stream'), s \in stream'[i].reqs
        PROVE  OwnOrZero(s, stream'[i].copy[s])
    <3>0. s \in Live /\ s \in Reqs /\ lease[s] # "inherited"
      BY <1>2, <2>1, ForwardNames DEF ForwardFrame, Live
    <3>1. CASE i \in 1 .. Len(stream)
      BY <1>5, <2>1, <3>0, <3>1 DEF CInv, OwnCopies, SameWork
    <3>2. CASE i = Len(stream) + 1
      <4>1. s \in bucket /\ stream'[i].copy = copies
        BY <1>4, <1>5, <2>1, <3>2
      <4>2. copies[s] = kv[RowFor(s)]
        BY <3>0, <4>1 DEF copies
      <4>3. QED
        BY <1>6, <3>0, <4>1, <4>2 DEF CInv, OwnRows
    <3>3. QED
      BY <1>5, <3>1, <3>2
  <2>2. QED
    BY <2>1 DEF OwnCopies, OwnOrZero
<1>10. QED
  BY <1>1, <1>2, <1>7, <1>8, <1>9, ForwardContent

LEMMA RebindCopyContent ==
  ASSUME CInv, RebindCopy
  PROVE  CInv'
<1>1. IInv'
  BY RebindCopyStep DEF CInv
<1>2. ForwardFrame /\ UNCHANGED <<kv, todo>> /\ stream' = DropCopies(stream)
  BY DEF RebindCopy, ForwardFrame, poolVars, hostVars
<1>3. /\ Len(stream') = Len(stream)
      /\ \A i \in 1 .. Len(stream) :
           /\ SameWork(stream'[i], stream[i])
           /\ stream'[i].mem = IF stream[i].mem = "copy" THEN "dropped" ELSE stream[i].mem
  BY <1>2, DropCopiesElements DEF CInv, IInv
<1>4. \A i \in 1 .. Len(stream') : LaunchOK(stream[i])'
  <2>1. ASSUME NEW i \in 1 .. Len(stream')
        PROVE  LaunchOK(stream[i])'
    BY <1>2, <1>3, OldLaunch
  <2>2. QED
    BY <2>1
<1>5. OwnRows' /\ OwnCopies'
  BY <1>2, <1>3, ForwardNames DEF CInv, OwnRows, OwnCopies, OwnOrZero, SameWork, Live, ForwardFrame
<1>6. QED
  BY <1>1, <1>2, <1>4, <1>5, ForwardContent

(* When the forward ends, all of the batch has been dealt with: what was   *)
(* due in the forward is what is processed after it.                       *)
LEMMA EndForwardNames ==
  ASSUME CInv, RowPoolAssumption, EndForward
  PROVE  /\ UNCHANGED <<kv, rowOf, stage, rid, prompt, active, lease, ctx>>
         /\ step' = "idle" /\ step = "forward" /\ Live' = Live
         /\ \A r \in Reqs : /\ len'[r] = Due(r) /\ Due(r)' = Due(r)
                            /\ RowFor(r)' = RowFor(r)
                            /\ stage[r] = "waiting" => len'[r] = len[r]
         /\ Len(stream') = Len(stream)
         /\ \A i \in 1 .. Len(stream) :
              /\ SameWork(stream'[i], stream[i])
              /\ stream'[i].mem = IF stream[i].mem = "copy" THEN "dropped" ELSE stream[i].mem
<1>1. /\ UNCHANGED <<kv, rowOf, stage, rid, prompt, active, lease, ctx>>
      /\ step' = "idle" /\ step = "forward" /\ todo = {}
      /\ stream' = DropCopies(stream)
  BY DEF EndForward, poolVars
<1>2. Live' = Live
  BY <1>1 DEF Live
<1>3. ASSUME NEW r \in Reqs
      PROVE  /\ len'[r] = Due(r) /\ Due(r)' = Due(r)
             /\ stage[r] = "waiting" => len'[r] = len[r]
  <2>1. len'[r] = len[r] + new[r] /\ len[r] \in Nat /\ new[r] \in Nat
    BY DEF EndForward, CInv, IInv, TypeOK, RowPoolAssumption
  <2>2. CASE r \in Batch
    <3>1. r \in Live
      BY <1>1, <2>2 DEF CInv, IInv, BatchOK
    <3>2. QED
      BY <1>1, <2>1, <2>2, <3>1 DEF Due, Live
  <2>3. CASE r \notin Batch
    <3>1. new[r] = 0
      BY <2>1, <2>3 DEF Batch
    <3>2. QED
      BY <1>1, <2>1, <2>3, <3>1 DEF Due
  <2>4. QED
    BY <2>2, <2>3
<1>4. /\ Len(stream') = Len(stream)
      /\ \A i \in 1 .. Len(stream) :
           /\ SameWork(stream'[i], stream[i])
           /\ stream'[i].mem = IF stream[i].mem = "copy" THEN "dropped" ELSE stream[i].mem
  BY <1>1, DropCopiesElements DEF CInv, IInv
<1>5. QED
  BY <1>1, <1>2, <1>3, <1>4 DEF RowFor

LEMMA EndForwardContent ==
  ASSUME CInv, RowPoolAssumption, EndForward
  PROVE  CInv'
<1>1. IInv'
  BY EndForwardStep DEF CInv
<1>2. LeaseOK'
  <2>1. ASSUME NEW r \in Live, lease[r] = "none"
        PROVE  rid[r] \notin active /\ len'[r] = 0
    <3>1. rid[r] \notin active /\ len[r] = 0 /\ r \in Reqs
      BY <2>1 DEF CInv, LeaseOK, Live
    <3>2. r \notin Batch
      BY <2>1, BatchRow, EndForwardNames
    <3>3. len'[r] = Due(r)
      BY <3>1, EndForwardNames
    <3>4. QED
      BY <3>1, <3>2, <3>3 DEF Due
  <2>2. QED
    BY <2>1, EndForwardNames DEF CInv, LeaseOK, Held
<1>3. StreamOK'
  <2>1. ASSUME NEW i \in 1 .. Len(stream')
        PROVE  LaunchOK(stream[i])'
    <3>1. LaunchOK(stream[i]) /\ stream[i].reqs \subseteq Reqs
      BY EndForwardNames, LenProperties DEF CInv, StreamOK, IInv, GoodLaunch, Launch
    <3>2. /\ SameWork(stream'[i], stream[i])
          /\ stream'[i].mem \in {"pool", "sdpa"} => stream[i].mem \in {"pool", "sdpa"}
      BY EndForwardNames
    <3>3. QED
      BY <3>1, <3>2, EndForwardNames DEF LaunchOK, SameWork, Live
  <2>2. \A r \in Live' : ctx'[r] # <<>> => Len(ctx'[r]) = Due(r)'
    BY EndForwardNames DEF CInv, StreamOK, Live
  <2>3. QED
    BY <2>1, <2>2, EndForwardNames DEF StreamOK
<1>4. OwnRows' /\ OwnCopies'
  BY EndForwardNames DEF CInv, OwnRows, OwnCopies, OwnOrZero, SameWork, Live
<1>5. NoForeignContext'
  BY EndForwardNames DEF CInv, NoForeignContext
<1>6. QED
  BY <1>1, <1>2, <1>3, <1>4, <1>5 DEF CInv

--------------------------------------------------------------------------------
\* The stream.

(* A run of the oldest launch leaves the host's books and the other        *)
(* launches alone.                                                         *)
LEMMA GpuNames ==
  ASSUME CInv, Gpu
  PROVE  /\ UNCHANGED <<rowOf, stage, rid, prompt, len, active, step, mode, new, todo, lease>>
         /\ Live' = Live /\ Batch' = Batch
         /\ \A r \in Reqs : Due(r)' = Due(r) /\ RowFor(r)' = RowFor(r)
         /\ stream # <<>> /\ Len(stream) \in Nat \ {0} /\ Head(stream) = stream[1]
         /\ Head(stream) \in GoodLaunch /\ LaunchOK(stream[1])
         /\ Len(stream') = Len(stream) - 1
         /\ \A i \in 1 .. Len(stream') :
              i + 1 \in 1 .. Len(stream) /\ stream'[i] = stream[i + 1]
<1>1. /\ UNCHANGED <<rowOf, stage, rid, prompt, len, active, step, mode, new, todo, lease>>
      /\ stream # <<>> /\ stream' = Tail(stream)
  BY DEF Gpu, RunOnRow, RunOffRow, poolVars, schedVars, hostVars
<1>2. stream \in Seq(GoodLaunch)
  BY DEF CInv, IInv
<1>3. /\ Len(stream) \in Nat \ {0} /\ Head(stream) = stream[1]
      /\ Head(stream) \in GoodLaunch
      /\ Len(stream') = Len(stream) - 1
      /\ \A i \in 1 .. Len(stream') :
           i + 1 \in 1 .. Len(stream) /\ stream'[i] = stream[i + 1]
  BY <1>1, <1>2, HeadTailProperties, EmptySeq, LenProperties
<1>4. LaunchOK(stream[1])
  BY <1>3 DEF CInv, StreamOK
<1>5. Live' = Live /\ Batch' = Batch
  BY <1>1 DEF Live, Batch
<1>6. \A r \in Reqs : Due(r)' = Due(r) /\ RowFor(r)' = RowFor(r)
  BY <1>1, <1>5 DEF Due, RowFor
<1>7. QED
  BY <1>1, <1>3, <1>4, <1>5, <1>6

LEMMA GpuContent ==
  ASSUME CInv, IInv', Gpu, OwnRows', NoForeignContext',
         \A r \in Live : r \notin stream[1].reqs => ctx'[r] = ctx[r],
         \A r \in Live : r \in stream[1].reqs => Len(ctx'[r]) = Due(r),
         \A r \in Reqs : stage[r] = "waiting" => ctx'[r] = ctx[r]
  PROVE  CInv'
<1>1. LeaseOK'
  BY GpuNames DEF CInv, LeaseOK, Held
<1>2. StreamOK'
  <2>1. ASSUME NEW i \in 1 .. Len(stream')
        PROVE  LaunchOK(stream[i])'
    <3>1. /\ i + 1 \in 1 .. Len(stream) /\ stream'[i] = stream[i + 1]
          /\ LaunchOK(stream[i + 1])
          /\ stream[i + 1].reqs \subseteq Reqs
      <4>1. i + 1 \in 1 .. Len(stream) /\ stream'[i] = stream[i + 1]
        BY GpuNames
      <4>2. LaunchOK(stream[i + 1])
        BY <4>1 DEF CInv, StreamOK
      <4>3. stream[i + 1] \in GoodLaunch
        BY <4>1, ElementOfSeq DEF CInv, IInv
      <4>4. QED
        BY <4>1, <4>2, <4>3 DEF GoodLaunch, Launch
    <3>2. QED
      BY <3>1, GpuNames DEF LaunchOK, Live
  <2>2. \A r \in Live' : ctx'[r] # <<>> =>
          Len(ctx'[r]) = Due(r)' /\ (step = "forward" => r \in Batch \ todo)
    <3>1. step = "forward" => stream[1].reqs \subseteq Batch \ todo
      BY GpuNames DEF LaunchOK
    <3>2. QED
      BY <3>1, GpuNames DEF CInv, StreamOK, Live
  <2>3. step \notin {"rows", "failed"}
    BY GpuNames DEF CInv, StreamOK
  <2>4. QED
    BY <2>1, <2>2, <2>3, GpuNames DEF StreamOK
<1>3. OwnCopies'
  BY GpuNames DEF CInv, OwnCopies, OwnOrZero
<1>4. QED
  BY <1>1, <1>2, <1>3 DEF CInv

(* A window has one entry for each position up to the newest token.        *)
LEMMA WindowEntries ==
  ASSUME NEW r, NEW mem, NEW past \in Nat, NEW n \in Nat
  PROVE  /\ Len(Window(r, mem, past, n)) = past + n
         /\ \A i \in 1 .. past + n :
              Window(r, mem, past, n)[i] = IF i <= past THEN mem[i - 1] ELSE Tok(r, i - 1)
<1>1. past + n \in Nat
  OBVIOUS
<1>2. QED
  BY <1>1 DEF Window

LEMMA RunOnRowContent ==
  ASSUME CInv, RowPoolAssumption, RunOnRow
  PROVE  CInv'
<1> DEFINE k == stream[1]
<1>1. IInv' /\ Gpu
  BY RunOnRowStep DEF CInv, Gpu
<1>2. /\ k.mem \in {"pool", "sdpa"} /\ LaunchOK(k) /\ k \in GoodLaunch
      /\ \E r \in k.reqs :
           /\ Store(k.row, k.past, k.n, [p \in Pos |-> Tok(r, p)])
           /\ ctx' = [ctx EXCEPT ![r] = Window(r, kv[k.row], k.past, k.n)]
  BY <1>1, GpuNames DEF RunOnRow
<1>3. MaxSeq \in Nat
  BY DEF RowPoolAssumption
<1> HIDE DEF k
<1>4. /\ k.row \in Rows /\ k.row # NoRow /\ k.reqs \subseteq Reqs
      /\ k.past \in Nat /\ k.n \in Nat /\ k.past + k.n <= MaxSeq
  BY <1>2, <1>3 DEF GoodLaunch, Launch, RowPoolAssumption
<1>5. PICK r \in k.reqs :
        /\ Store(k.row, k.past, k.n, [p \in Pos |-> Tok(r, p)])
        /\ ctx' = [ctx EXCEPT ![r] = Window(r, kv[k.row], k.past, k.n)]
  BY <1>2
<1>6. k.reqs = {r} /\ r \in Reqs /\ stage[r] # "waiting" /\ step \notin {"rows", "failed"}
  BY <1>1, <1>2, <1>4, GpuNames DEF LaunchOK, CInv, StreamOK
<1>7. r \in Live => k.row = RowFor(r) /\ k.past + k.n = Due(r)
  BY <1>2, <1>6 DEF LaunchOK
<1>8. OwnRows'
  <2>1. \A s \in Live : RowFor(s) = k.row => s = r \/ lease[s] = "inherited"
    BY <1>2, <1>6 DEF LaunchOK
  <2>2. \A s \in Live : lease[s] # "inherited" /\ RowFor(s) # NoRow =>
           OwnOrZero(s, kv'[RowFor(s)])
    BY <1>4, <1>5, <2>1, StoreOwn
  <2>3. QED
    BY <1>1, <2>2, GpuNames DEF OwnRows, OwnOrZero, Live
<1>9. \A s \in Reqs : ctx'[s] = IF s = r THEN Window(r, kv[k.row], k.past, k.n) ELSE ctx[s]
  BY <1>5 DEF CInv, IInv, TypeOK
<1>10. NoForeignContext'
  <2>1. ASSUME NEW s \in Live, lease[s] # "inherited", NEW i \in 1 .. Len(ctx'[s])
        PROVE  ctx'[s][i] \in {Tok(s, i - 1), Zero, Junk}
    <3>1. CASE s = r
      <4>1. OwnOrZero(r, kv[k.row])
        BY <1>4, <1>7, <2>1, <3>1 DEF CInv, OwnRows
      <4>2. /\ i \in 1 .. k.past + k.n
            /\ ctx'[r][i] = IF i <= k.past THEN kv[k.row][i - 1] ELSE Tok(r, i - 1)
        BY <1>4, <1>6, <1>9, <2>1, <3>1, WindowEntries
      <4>3. i - 1 \in Pos
        BY <1>3, <1>4, <4>2 DEF Pos
      <4>4. QED
        BY <3>1, <4>1, <4>2, <4>3 DEF OwnOrZero
    <3>2. CASE s # r
      BY <1>9, <2>1, <3>2 DEF CInv, NoForeignContext, Live
    <3>3. QED
      BY <3>1, <3>2
  <2>2. QED
    BY <1>1, <2>1, GpuNames DEF NoForeignContext
<1>11. \A s \in Live : s \in k.reqs => Len(ctx'[s]) = Due(s)
  BY <1>4, <1>6, <1>7, <1>9, WindowEntries
<1>12. /\ \A s \in Live : s \notin k.reqs => ctx'[s] = ctx[s]
       /\ \A s \in Reqs : stage[s] = "waiting" => ctx'[s] = ctx[s]
  BY <1>6, <1>9 DEF Live
<1>13. QED
  BY <1>1, <1>8, <1>10, <1>11, <1>12, GpuContent DEF k

LEMMA RunOffRowContent ==
  ASSUME CInv, RowPoolAssumption, RunOffRow
  PROVE  CInv'
<1> DEFINE k == stream[1]
<1>1. IInv' /\ Gpu /\ UNCHANGED kv
  BY RunOffRowStep DEF CInv, Gpu, RunOffRow, poolVars
<1>2. /\ LaunchOK(k) /\ k \in GoodLaunch
      /\ \E ok \in BOOLEAN :
           ctx' = [r \in Reqs |->
             IF r \notin k.reqs THEN ctx[r]
             ELSE Window(r, IF ok THEN k.copy[r] ELSE [p \in Pos |-> Junk], k.past, k.n)]
  <2>1. /\ BOOLEAN \subseteq BOOLEAN
        /\ {TRUE} \subseteq BOOLEAN
        /\ {FALSE} \subseteq BOOLEAN
    OBVIOUS
  <2>2. QED
    BY <1>1, <2>1, GpuNames DEF RunOffRow
<1>3. MaxSeq \in Nat
  BY DEF RowPoolAssumption
<1> HIDE DEF k
<1>4. /\ k.reqs \subseteq Reqs
      /\ k.past \in Nat /\ k.n \in Nat /\ k.past + k.n <= MaxSeq
  BY <1>2, <1>3 DEF GoodLaunch, Launch
<1>5. PICK ok \in BOOLEAN :
        ctx' = [r \in Reqs |->
          IF r \notin k.reqs THEN ctx[r]
          ELSE Window(r, IF ok THEN k.copy[r] ELSE [p \in Pos |-> Junk], k.past, k.n)]
  BY <1>2
<1>6. OwnRows'
  BY <1>1, GpuNames DEF CInv, OwnRows, OwnOrZero, Live
<1>7. NoForeignContext'
  <2>1. ASSUME NEW s \in Live, lease[s] # "inherited", NEW i \in 1 .. Len(ctx'[s])
        PROVE  ctx'[s][i] \in {Tok(s, i - 1), Zero, Junk}
    <3> DEFINE mem == IF ok THEN k.copy[s] ELSE [p \in Pos |-> Junk]
    <3>0. s \in Reqs
      BY DEF Live
    <3>1. CASE s \in k.reqs
      <4>1. OwnOrZero(s, k.copy[s])
        BY <1>1, <2>1, <3>1, GpuNames DEF CInv, OwnCopies, k
      <4>2. \A p \in Pos : mem[p] \in {Tok(s, p), Zero, Junk}
        BY <4>1 DEF OwnOrZero
      <4>3. ctx'[s] = Window(s, mem, k.past, k.n)
        BY <1>5, <3>0, <3>1
      <4> HIDE DEF mem
      <4>4. /\ i \in 1 .. k.past + k.n
            /\ ctx'[s][i] = IF i <= k.past THEN mem[i - 1] ELSE Tok(s, i - 1)
        BY <1>4, <2>1, <4>3, WindowEntries
      <4>5. i - 1 \in Pos
        BY <1>3, <1>4, <4>4 DEF Pos
      <4>6. QED
        BY <4>2, <4>4, <4>5
    <3>2. CASE s \notin k.reqs
      <4>1. ctx'[s] = ctx[s]
        BY <1>5, <3>0, <3>2
      <4>2. QED
        BY <2>1, <4>1 DEF CInv, NoForeignContext
    <3>3. QED
      BY <3>1, <3>2
  <2>2. QED
    BY <1>1, <2>1, GpuNames DEF NoForeignContext
<1>8. \A s \in Live : s \in k.reqs => Len(ctx'[s]) = Due(s)
  <2>1. ASSUME NEW s \in Live, s \in k.reqs
        PROVE  Len(ctx'[s]) = Due(s)
    <3> DEFINE mem == IF ok THEN k.copy[s] ELSE [p \in Pos |-> Junk]
    <3>1. s \in Reqs /\ ctx'[s] = Window(s, mem, k.past, k.n)
      BY <1>5, <2>1 DEF Live
    <3> HIDE DEF mem
    <3>2. QED
      BY <1>2, <1>4, <2>1, <3>1, WindowEntries DEF LaunchOK
  <2>2. QED
    BY <2>1
<1>9. /\ \A s \in Live : s \notin k.reqs => ctx'[s] = ctx[s]
      /\ \A s \in Reqs : stage[s] = "waiting" => ctx'[s] = ctx[s]
  BY <1>2, <1>5 DEF Live, LaunchOK
<1>10. QED
  BY <1>1, <1>6, <1>7, <1>8, <1>9, GpuContent DEF k

--------------------------------------------------------------------------------
\* All steps together.

LEMMA DecodeStep ==
  ASSUME CInv, DecodeOK, RowPoolAssumption, [Next]_vars
  PROVE  DecodeOK'
<1>1. ASSUME NEW n \in [Reqs -> 0 .. MaxSeq], DecodeBatch(n), InitForwardMetadata("decode", n)
      PROVE  DecodeOK'
  <2>1. \A r \in Reqs : new'[r] = (IF r \in Running THEN 1 ELSE 0)
    BY <1>1 DEF DecodeBatch, InitForwardMetadata
  <2>2. \A r \in Running : r \in Reqs /\ prompt[r] <= len[r]
    BY DEF Running, Live, CInv, IInv, TypeOK, RowPoolAssumption
  <2>3. prompt' = prompt /\ len' = len
    BY <1>1 DEF InitForwardMetadata, schedVars
  <2>4. QED
    BY <2>1, <2>2, <2>3 DEF DecodeOK, Batch
<1>2. ASSUME NEW n \in [Reqs -> 0 .. MaxSeq], InitForwardMetadata("extend", n)
      PROVE  DecodeOK'
  BY <1>2 DEF DecodeOK, InitForwardMetadata
<1>3. ASSUME step' \in {"idle", "failed"}
      PROVE  DecodeOK'
  BY <1>3 DEF DecodeOK
<1>4. ASSUME UNCHANGED <<mode, new, prompt, len>>, step \in {"rows", "forward"}
      PROVE  DecodeOK'
  BY <1>4 DEF DecodeOK, Batch
<1>5. CASE Schedule
  <2>1. ASSUME \/ \E r \in Reqs, id \in Rids : \E p \in Prompts[r] : Admit(r, id, p)
               \/ \E r \in Reqs : Finish(r)
               \/ IdleMetadata
        PROVE  step' \in {"idle", "failed"}
    BY <2>1 DEF Admit, Finish, IdleMetadata, hostVars
  <2>2. QED
    BY <1>1, <1>2, <1>3, <1>5, <2>1 DEF Schedule
<1>6. CASE Host
  <2>1. ASSUME \/ \E id \in Rids : Release(id) \/ AllocRow(id) \/ AllocFails(id)
               \/ BeginForward
               \/ \E r \in Reqs : ExtendKernel(r) \/ ExtendSdpa(r) \/ DecodeSdpa(r)
               \/ \E past \in Pos : DecodeKernel(past)
               \/ RebindCopy
        PROVE  UNCHANGED <<mode, new, prompt, len>> /\ step \in {"rows", "forward"}
    BY <2>1 DEF Release, AllocRow, AllocFails, ToAlloc, BeginForward, ExtendKernel, ExtendSdpa,
         DecodeSdpa, Sdpa, DecodeKernel, RebindCopy, schedVars, hostVars
  <2>2. ASSUME EndForward
        PROVE  step' = "idle"
    BY <2>2 DEF EndForward
  <2>3. QED
    BY <1>3, <1>4, <1>6, <2>1, <2>2 DEF Host
<1>7. ASSUME UNCHANGED <<step, mode, new, prompt, len>>
      PROVE  DecodeOK'
  BY <1>7 DEF DecodeOK, Batch
<1>8. CASE Gpu
  BY <1>7, <1>8 DEF Gpu, RunOnRow, RunOffRow, schedVars, hostVars
<1>9. CASE UNCHANGED vars
  BY <1>7, <1>9 DEF vars, schedVars, hostVars
<1>10. QED
  BY <1>5, <1>6, <1>8, <1>9 DEF Next

LEMMA StutterContent ==
  ASSUME CInv, UNCHANGED vars
  PROVE  CInv'
<1>1. /\ UNCHANGED <<rowOf, kv, stage, rid, len, active, step, new, todo, stream, ctx, lease>>
      /\ IInv'
  BY StutterStep DEF CInv, vars, poolVars, schedVars, hostVars
<1>2. Live' = Live /\ Batch' = Batch
  BY <1>1 DEF Live, Batch
<1>3. \A r \in Reqs : Due(r)' = Due(r) /\ RowFor(r)' = RowFor(r)
  BY <1>1, <1>2 DEF Due, RowFor
<1>4. LeaseOK'
  BY <1>1, <1>2 DEF CInv, LeaseOK, Held
<1>5. StreamOK'
  <2>1. ASSUME NEW i \in 1 .. Len(stream')
        PROVE  LaunchOK(stream[i])'
    <3>1. LaunchOK(stream[i]) /\ stream[i].reqs \subseteq Reqs /\ stream'[i] = stream[i]
      BY <1>1, LenProperties DEF CInv, StreamOK, IInv, GoodLaunch, Launch
    <3>2. QED
      BY <1>1, <1>2, <1>3, <3>1 DEF LaunchOK, Live
  <2>2. QED
    BY <1>1, <1>2, <1>3, <2>1 DEF CInv, StreamOK, Live
<1>6. OwnRows' /\ OwnCopies' /\ NoForeignContext'
  BY <1>1, <1>2, <1>3 DEF CInv, OwnRows, OwnCopies, OwnOrZero, NoForeignContext, Live
<1>7. QED
  BY <1>1, <1>4, <1>5, <1>6 DEF CInv

LEMMA ContentStep ==
  ASSUME RowPoolAssumption, BackendAssumption, CInv, DecodeOK, [Next]_vars
  PROVE  CInv'
<1>1. CASE Schedule
  <2>1. CASE \E r \in Reqs, id \in Rids : \E p \in Prompts[r] : Admit(r, id, p)
    BY <2>1, AdmitContent
  <2>2. CASE \E r \in Reqs : Finish(r)
    BY <2>2, FinishContent
  <2>3. CASE \E n \in [Reqs -> 0 .. MaxSeq] :
               ExtendBatch(n) /\ InitForwardMetadata("extend", n)
    BY <2>3, ExtendFits, MetadataContent DEF CInv, IInv
  <2>4. CASE \E n \in [Reqs -> 0 .. MaxSeq] :
               DecodeBatch(n) /\ InitForwardMetadata("decode", n)
    BY <2>4, DecodeFits, MetadataContent DEF CInv, IInv
  <2>5. CASE IdleMetadata
    BY <2>5, IdleContent
  <2>6. QED
    BY <1>1, <2>1, <2>2, <2>3, <2>4, <2>5 DEF Schedule
<1>2. CASE Host
  <2>1. CASE \E id \in Rids : Release(id) \/ AllocRow(id)
    BY <2>1, ReleaseContent, AllocRowContent
  <2>2. CASE BeginForward \/ \E id \in Rids : AllocFails(id)
    BY <2>2, RowsDoneContent
  <2>3. ASSUME NEW r \in Reqs, ExtendKernel(r)
        PROVE  CInv'
    BY <2>3, ExtendKernelContent
  <2>4. ASSUME NEW r \in Reqs, ExtendSdpa(r)
        PROVE  CInv'
    BY <2>4, SdpaContent DEF ExtendSdpa
  <2>5. ASSUME NEW r \in Reqs, DecodeSdpa(r)
        PROVE  CInv'
    <3>1. step = "forward" /\ mode = "decode" /\ r \in todo /\ Sdpa(r, 1)
      BY <2>5 DEF DecodeSdpa
    <3>2. r \in Batch
      BY <3>1 DEF CInv, IInv, BatchOK
    <3>3. new[r] = 1
      BY <3>1, <3>2 DEF DecodeOK
    <3>4. QED
      BY <3>1, <3>3, SdpaContent
  <2>6. CASE \E past \in Pos : DecodeKernel(past)
    BY <2>6, DecodeKernelContent
  <2>7. CASE RebindCopy
    BY <2>7, RebindCopyContent
  <2>8. CASE EndForward
    BY <2>8, EndForwardContent
  <2>9. QED
    BY <1>2, <2>1, <2>2, <2>3, <2>4, <2>5, <2>6, <2>7, <2>8 DEF Host
<1>3. CASE Gpu
  BY <1>3, RunOnRowContent, RunOffRowContent DEF Gpu
<1>4. CASE UNCHANGED vars
  BY <1>4, StutterContent
<1>5. QED
  BY <1>1, <1>2, <1>3, <1>4 DEF Next

(* The leases, the launches in flight and the contents of rows and copies  *)
(* agree in every reachable state, on any stream.                          *)
THEOREM ContentsAgree == Spec => [](CInv /\ DecodeOK)
<1>1. Init => CInv /\ DecodeOK
  BY RowPoolAssumption, BackendAssumption, InitCInv DEF Init, DecodeOK
<1>2. CInv /\ DecodeOK /\ [Next]_vars => (CInv /\ DecodeOK)'
  BY RowPoolAssumption, BackendAssumption, ContentStep, DecodeStep
<1>3. QED
  BY <1>1, <1>2, PTL DEF Spec

(* A request that did not inherit its row attends over entries of its own, *)
(* zeroes and what a kernel with lost memory reads, and never over another *)
(* request's, for any number of requests, rows and ids and on any stream.  *)
THEOREM NoForeignEntries == Spec => []NoForeignContext
<1>1. CInv => NoForeignContext
  BY DEF CInv
<1>2. QED
  BY <1>1, ContentsAgree, PTL

--------------------------------------------------------------------------------
\* On the default stream.

\* A launch waits for the one before it: there is never more than one, and no
\* launch has its descriptors overwritten.
OneLaunch ==
  /\ Len(stream) <= 1
  /\ \A i \in 1 .. Len(stream) : stream[i].mem # "clobbered"

\* The forward starts with the whole batch.
WholeBatch == step = "rows" => todo = Batch

\* Position p of a memory of r holds r's entry, or the kernel dropped it.
Kept(r, mem, p) == mem[p] = Tok(r, p) \/ DecodedAtBoundary(r, p)

TokensStored ==
  \A r \in Live : Held(r) =>
    \A p \in 0 .. Due(r) - 1 : Kept(r, kv[RowFor(r)], p) \/ BeingWritten(r, p)

\* What a launch of r will read, beyond what TokensStored says of r's row: the
\* newest token is among the stored ones for SDPA and projected by a kernel,
\* and a copy was taken when the row held all that came before.
LaunchReads(k, r) ==
  CASE k.mem = "pool" -> k.n > 0
    [] k.mem = "sdpa" -> k.past > 0 /\ k.n = 0 /\ kv[k.row][k.past - 1] = Tok(r, k.past - 1)
    [] OTHER -> /\ k.n = 1 /\ DecodedAtBoundary(r, k.past)
                /\ \A p \in 0 .. k.past - 1 : Kept(r, k.copy[r], p)

LaunchesRead ==
  \A r \in Live : Held(r) =>
    \A i \in 1 .. Len(stream) : r \in stream[i].reqs => LaunchReads(stream[i], r)

\* The second half of AttentionReadsOwnContext.
WindowOwn(r, w) ==
  \A i \in 1 .. Len(w) :
    \/ w[i] = Tok(r, i - 1)
    \/ i < Len(w) /\ DecodedAtBoundary(r, i - 1)
    \/ i < Len(w) /\ DecodedAtBoundary(r, Len(w) - 1) /\ w[i] = Junk

ContextsOwn == \A r \in Live : Held(r) => WindowOwn(r, ctx[r])

TInv ==
  /\ CInv /\ DecodeOK
  /\ OneLaunch
  /\ WholeBatch
  /\ TokensStored
  /\ LaunchesRead
  /\ ContextsOwn

LEMMA InitTInv ==
  ASSUME RowPoolAssumption, BackendAssumption, Init
  PROVE  TInv
<1>1. CInv
  BY InitCInv
<1>2. Live = {} /\ Len(stream) = 0 /\ step = "idle"
  BY DEF Init, Live
<1>3. DecodeOK /\ OneLaunch /\ WholeBatch
  BY <1>2 DEF DecodeOK, OneLaunch, WholeBatch
<1>4. TokensStored /\ LaunchesRead /\ ContextsOwn
  BY <1>2 DEF TokensStored, LaunchesRead, ContextsOwn
<1>5. QED
  BY <1>1, <1>3, <1>4 DEF TInv

(* The scheduler's steps touch no row, no launch and no attention of a     *)
(* request that stays alive.                                               *)
LEMMA AdmitTokens ==
  ASSUME TInv, RowPoolAssumption, BackendAssumption,
         NEW r \in Reqs, NEW id \in Rids, NEW p \in Prompts[r], Admit(r, id, p),
         CInv', DecodeOK'
  PROVE  TInv'
<1>1. CInv
  BY DEF TInv
<1>2. UNCHANGED <<kv, rowOf, len, step, stream, ctx, todo, new>> /\ step = "idle"
  BY DEF Admit, poolVars, hostVars
<1>3. OneLaunch' /\ WholeBatch'
  BY <1>2 DEF TInv, OneLaunch, WholeBatch
<1>4. \A s \in Live : \A q \in Nat :
        /\ DecodedAtBoundary(s, q)' <=> DecodedAtBoundary(s, q)
        /\ BeingWritten(s, q)' <=> BeingWritten(s, q)
  BY <1>1, <1>2, Newcomer DEF DecodedAtBoundary, BeingWritten
<1>5. TokensStored'
  <2>1. ASSUME NEW s \in Live, Held(s)', NEW q \in 0 .. Due(s)' - 1
        PROVE  Kept(s, kv[RowFor(s)], q)' \/ BeingWritten(s, q)'
    <3>1. Held(s) /\ q \in 0 .. Due(s) - 1 /\ RowFor(s)' = RowFor(s)
      BY <1>1, <2>1, Newcomer DEF Held, Live
    <3>2. Kept(s, kv[RowFor(s)], q) \/ BeingWritten(s, q)
      BY <3>1 DEF TInv, TokensStored
    <3>3. QED
      BY <1>2, <1>4, <3>1, <3>2 DEF Kept
  <2>2. 0 .. Due(r)' - 1 = {}
    BY <1>1, Newcomer
  <2>3. QED
    BY <1>1, <2>1, <2>2, Newcomer DEF TokensStored
<1>6. LaunchesRead'
  BY <1>1, <1>2, Newcomer DEF TInv, LaunchesRead, LaunchReads, Kept, Held, DecodedAtBoundary
<1>7. ContextsOwn'
  <2>1. ASSUME NEW s \in Live, Held(s)'
        PROVE  WindowOwn(s, ctx[s])'
    <3>1. Held(s) /\ prompt'[s] = prompt[s]
      BY <1>1, <2>1, Newcomer DEF Held
    <3>2. WindowOwn(s, ctx[s])
      BY <3>1 DEF TInv, ContextsOwn
    <3>3. QED
      BY <1>2, <3>1, <3>2 DEF WindowOwn, DecodedAtBoundary
  <2>2. WindowOwn(r, ctx[r])'
    <3>1. ctx'[r] = <<>>
      BY <1>1, <1>2, Newcomer
    <3>2. Len(<<>>) = 0
      OBVIOUS
    <3>3. QED
      BY <3>1, <3>2 DEF WindowOwn
  <2>3. QED
    BY <1>1, <2>1, <2>2, Newcomer DEF ContextsOwn
<1>8. QED
  BY <1>3, <1>5, <1>6, <1>7 DEF TInv

\* What a step leaves alone that only drops requests, changes no row, and at
\* most marks copies as released.
QuietStep ==
  /\ UNCHANGED <<kv, prompt, lease, ctx>>
  /\ Live' \subseteq Live
  /\ \A r \in Live' : RowFor(r)' = RowFor(r) /\ Due(r)' = Due(r)
  /\ Len(stream') = Len(stream)
  /\ \A i \in 1 .. Len(stream) :
       /\ SameWork(stream'[i], stream[i])
       /\ stream'[i].mem = stream[i].mem
            \/ (stream[i].mem = "copy" /\ stream'[i].mem = "dropped")

LEMMA QuietTokens ==
  ASSUME TInv, QuietStep, CInv', DecodeOK', WholeBatch'
  PROVE  TInv'
<1>1. /\ UNCHANGED <<kv, prompt, lease, ctx>>
      /\ Live' \subseteq Live
      /\ \A r \in Live' : RowFor(r)' = RowFor(r) /\ Due(r)' = Due(r)
  BY DEF QuietStep
<1>2. /\ Len(stream') = Len(stream)
      /\ \A i \in 1 .. Len(stream) :
           /\ SameWork(stream'[i], stream[i])
           /\ stream'[i].mem = stream[i].mem
                \/ (stream[i].mem = "copy" /\ stream'[i].mem = "dropped")
  BY DEF QuietStep
<1>3. OneLaunch'
  BY <1>2 DEF TInv, OneLaunch
<1>4. TokensStored'
  <2>1. ASSUME NEW r \in Live', NEW p \in Nat, BeingWritten(r, p)
        PROVE  BeingWritten(r, p)'
    BY <1>2, <2>1 DEF BeingWritten, SameWork
  <2>2. QED
    BY <1>1, <2>1 DEF TInv, TokensStored, Kept, DecodedAtBoundary, Held
<1>5. LaunchesRead'
  BY <1>1, <1>2 DEF TInv, LaunchesRead, LaunchReads, SameWork, Kept, Held, DecodedAtBoundary
<1>6. ContextsOwn'
  BY <1>1 DEF TInv, ContextsOwn, WindowOwn, Held, DecodedAtBoundary
<1>7. QED
  BY <1>3, <1>4, <1>5, <1>6 DEF TInv

(* The other steps of the scheduler, the end of a forward, and the release *)
(* of copies are quiet.                                                    *)
LEMMA QuietSteps ==
  ASSUME TInv, RowPoolAssumption, CInv', DecodeOK',
         \/ \E r \in Reqs : Finish(r)
         \/ IdleMetadata
         \/ RebindCopy
         \/ EndForward
         \/ UNCHANGED vars
  PROVE  TInv'
<1>1. CInv
  BY DEF TInv
<1>2. CASE EndForward
  <2>1. \A r \in Live : r \in Reqs
    BY DEF Live
  <2>2. QuietStep
    BY <1>1, <1>2, <2>1, EndForwardNames DEF QuietStep
  <2>3. WholeBatch'
    BY <1>1, <1>2, EndForwardNames DEF WholeBatch
  <2>4. QED
    BY <2>2, <2>3, QuietTokens
<1>3. CASE RebindCopy
  <2>1. /\ ForwardFrame /\ UNCHANGED <<kv, todo, step>> /\ step = "forward"
        /\ stream' = DropCopies(stream)
    BY <1>3 DEF RebindCopy, ForwardFrame, poolVars, hostVars
  <2>2. /\ Len(stream') = Len(stream)
        /\ \A i \in 1 .. Len(stream) :
             /\ SameWork(stream'[i], stream[i])
             /\ stream'[i].mem = IF stream[i].mem = "copy" THEN "dropped" ELSE stream[i].mem
    BY <1>1, <2>1, DropCopiesElements DEF CInv, IInv
  <2>3. \A r \in Live' : RowFor(r)' = RowFor(r) /\ Due(r)' = Due(r)
    BY <1>1, <2>1 DEF ForwardFrame, RowFor, Due, Batch, schedVars
  <2>4. QuietStep
    BY <1>1, <2>1, <2>2, <2>3, ForwardNames DEF QuietStep, ForwardFrame, schedVars
  <2>5. WholeBatch'
    BY <2>1 DEF WholeBatch
  <2>6. QED
    BY <2>4, <2>5, QuietTokens
<1>4. ASSUME stream' = stream, UNCHANGED <<kv, rowOf, prompt, len, lease, ctx, step>>,
             Live' \subseteq Live, \A r \in Live' : rid'[r] = rid[r],
             step = "idle" \/ UNCHANGED <<todo, new>>
      PROVE  TInv'
  <2>1. \A i \in 1 .. Len(stream) : SameWork(stream'[i], stream[i])
    BY <1>4 DEF SameWork
  <2>2. \A r \in Live' : RowFor(r)' = RowFor(r) /\ Due(r)' = Due(r)
    BY <1>4 DEF RowFor, Due, Batch
  <2>3. QuietStep
    BY <1>4, <2>1, <2>2 DEF QuietStep
  <2>4. WholeBatch'
    BY <1>4 DEF TInv, WholeBatch, Batch
  <2>5. QED
    BY <2>3, <2>4, QuietTokens
<1>5. CASE IdleMetadata
  BY <1>4, <1>5 DEF IdleMetadata, poolVars, schedVars, Live
<1>6. CASE UNCHANGED vars
  BY <1>4, <1>6 DEF vars, poolVars, schedVars, hostVars, Live
<1>7. ASSUME NEW r \in Reqs, Finish(r)
      PROVE  TInv'
  <2>1. /\ UNCHANGED <<stream, kv, rowOf, prompt, len, lease, ctx, step>> /\ step = "idle"
        /\ stage' = [stage EXCEPT ![r] = "done"] /\ rid' = [rid EXCEPT ![r] = NoRid]
    BY <1>7 DEF Finish, poolVars, hostVars
  <2>2. Live' \subseteq Live /\ \A s \in Live' : rid'[s] = rid[s]
    BY <1>1, <2>1 DEF Live, CInv, IInv, TypeOK
  <2>3. QED
    BY <1>4, <2>1, <2>2
<1>8. QED
  BY <1>2, <1>3, <1>5, <1>6, <1>7

(* While the rows are given back and handed out, only what is in them      *)
(* matters.                                                                *)
LEMMA RowsTokens ==
  ASSUME TInv, CInv', DecodeOK', stream' = <<>>, WholeBatch', TokensStored',
         \A r \in Reqs : ctx'[r] = <<>>
  PROVE  TInv'
<1>1. OneLaunch' /\ LaunchesRead'
  BY DEF OneLaunch, LaunchesRead
<1>2. ContextsOwn'
  <2>1. Len(<<>>) = 0
    OBVIOUS
  <2>2. QED
    BY <2>1 DEF ContextsOwn, WindowOwn, Live
<1>3. QED
  BY <1>1, <1>2 DEF TInv

(* With nothing in flight, what is due of a held request is in its row.    *)
LEMMA AllInRow ==
  ASSUME TInv, stream = <<>>, NEW r \in Live, Held(r), NEW p \in 0 .. Due(r) - 1
  PROVE  Kept(r, kv[RowFor(r)], p)
<1>1. ~ BeingWritten(r, p)
  BY DEF BeingWritten
<1>2. QED
  BY <1>1 DEF TInv, TokensStored

LEMMA MetadataTokens ==
  ASSUME TInv, CInv', DecodeOK', NEW m, NEW n, InitForwardMetadata(m, n)
  PROVE  TInv'
<1>1. /\ UNCHANGED <<kv, rowOf, stage, rid, prompt, len, lease>>
      /\ stream = <<>> /\ stream' = <<>> /\ step' = "rows" /\ step = "idle"
      /\ todo' = Batch'
      /\ \A r \in Reqs : ctx'[r] = <<>>
  BY DEF InitForwardMetadata, Synced, poolVars, schedVars, Batch
<1>2. \A r \in Live' : /\ r \in Live /\ RowFor(r)' = RowFor(r) /\ Due(r)' = Due(r)
                       /\ Held(r)' = Held(r)
  BY <1>1 DEF Live, RowFor, Due, Held
<1>3. TokensStored'
  BY <1>1, <1>2, AllInRow DEF TokensStored, Kept, DecodedAtBoundary
<1>4. WholeBatch'
  BY <1>1 DEF WholeBatch
<1>5. QED
  BY <1>1, <1>3, <1>4, RowsTokens

LEMMA RowsDue ==
  ASSUME TInv, step = "rows", step' \in {"rows", "forward", "failed"},
         UNCHANGED <<schedVars, new, todo, stream, ctx>>
  PROVE  /\ stream = <<>> /\ \A r \in Reqs : ctx[r] = <<>>
         /\ Live' = Live /\ WholeBatch'
         /\ \A r \in Live : Due(r) = len[r] /\ Due(r)' = len[r]
<1>1. stream = <<>> /\ \A r \in Reqs : ctx[r] = <<>>
  BY DEF TInv, CInv, StreamOK
<1>2. todo = Batch /\ Batch' = Batch /\ Live' = Live
  BY DEF TInv, WholeBatch, Batch, Live, schedVars
<1>3. QED
  BY <1>1, <1>2 DEF WholeBatch, Due, schedVars

LEMMA ReleaseTokens ==
  ASSUME TInv, RowPoolAssumption, NEW id \in Rids, Release(id), CInv', DecodeOK'
  PROVE  TInv'
<1>1. /\ UNCHANGED <<schedVars, kv, step, new, todo, stream, ctx>> /\ step = "rows"
      /\ rowOf' = [rowOf EXCEPT ![id] = NoRow]
  BY DEF Release, Free
<1>2. /\ stream = <<>> /\ \A r \in Reqs : ctx[r] = <<>>
      /\ Live' = Live /\ WholeBatch'
      /\ \A r \in Live : Due(r) = len[r] /\ Due(r)' = len[r]
  BY <1>1, RowsDue
<1>3. ASSUME NEW r \in Live, Held(r)'
      PROVE  Held(r) /\ RowFor(r)' = RowFor(r)
  <2>1. r \in Reqs /\ rid[r] \in Rids /\ rid'[r] = rid[r]
    BY <1>1 DEF Live, schedVars, TInv, CInv, IInv, BatchOK
  <2>2. lease'[r] = IF rid[r] = id THEN IF len[r] = 0 THEN "none" ELSE "lost"
                    ELSE lease[r]
    BY <2>1 DEF Release
  <2>3. rid[r] # id /\ Held(r)
    BY <1>3, <2>2 DEF Held
  <2>4. QED
    BY <1>1, <2>1, <2>3 DEF RowFor, TInv, CInv, IInv, TypeOK
<1>4. TokensStored'
  BY <1>1, <1>2, <1>3, AllInRow DEF TokensStored, Kept, DecodedAtBoundary, schedVars
<1>5. QED
  BY <1>1, <1>2, <1>4, RowsTokens

LEMMA AllocRowTokens ==
  ASSUME TInv, RowPoolAssumption, NEW id \in Rids, AllocRow(id), CInv', DecodeOK'
  PROVE  TInv'
<1> DEFINE row == free[Len(free)]
<1>1. /\ UNCHANGED <<schedVars, step, new, todo, stream, ctx>> /\ step = "rows"
      /\ id \notin active /\ CInv
  BY DEF AllocRow, ToAlloc, TInv
<1>2. /\ row \in Rows
      /\ rowOf' = [rowOf EXCEPT ![id] = row]
      /\ kv' = [kv EXCEPT ![row] = ZeroRow]
      /\ \A r \in Live : RowFor(r) # row
  BY <1>1, AllocatedRow DEF AllocRow
<1> HIDE DEF row
<1>3. /\ stream = <<>> /\ \A r \in Reqs : ctx[r] = <<>>
      /\ Live' = Live /\ WholeBatch'
      /\ \A r \in Live : Due(r) = len[r] /\ Due(r)' = len[r]
  BY <1>1, RowsDue
<1>4. ASSUME NEW r \in Live, Held(r)', NEW p \in 0 .. Due(r)' - 1
      PROVE  Kept(r, kv[RowFor(r)], p)'
  <2>1. r \in Reqs /\ rid[r] \in Rids /\ rid'[r] = rid[r] /\ prompt'[r] = prompt[r]
    BY <1>1 DEF Live, schedVars, CInv, IInv, BatchOK
  <2>2. lease'[r] = IF rid[r] = id /\ lease[r] = "none" THEN "fresh" ELSE lease[r]
    BY <2>1 DEF AllocRow
  <2>3. len[r] # 0
    BY <1>3, <1>4
  <2>4. Held(r)
    BY <1>1, <1>4, <2>2, <2>3 DEF Held, CInv, LeaseOK
  <2>5. rid[r] # id /\ RowFor(r) \in Rows
    BY <1>1, <2>4, LiveRow DEF CInv, LeaseOK
  <2>6. RowFor(r)' = RowFor(r)
    BY <1>2, <2>1, <2>5 DEF RowFor, CInv, IInv, TypeOK
  <2>7. kv'[RowFor(r)] = kv[RowFor(r)]
    BY <1>1, <1>2, <2>5 DEF CInv, IInv, TypeOK
  <2>8. Kept(r, kv[RowFor(r)], p)
    BY <1>3, <1>4, <2>4, AllInRow
  <2>9. QED
    BY <2>1, <2>6, <2>7, <2>8 DEF Kept, DecodedAtBoundary
<1>5. TokensStored'
  BY <1>3, <1>4 DEF TokensStored
<1>6. QED
  BY <1>1, <1>3, <1>5, RowsTokens

LEMMA RowsDoneTokens ==
  ASSUME TInv, BeginForward \/ \E id \in Rids : AllocFails(id), CInv', DecodeOK'
  PROVE  TInv'
<1>1. /\ UNCHANGED <<rowOf, kv, schedVars, new, todo, stream, ctx, lease>>
      /\ step = "rows" /\ step' \in {"forward", "failed"}
  BY DEF BeginForward, AllocFails, ToAlloc, poolVars
<1>2. /\ stream = <<>> /\ \A r \in Reqs : ctx[r] = <<>>
      /\ Live' = Live /\ WholeBatch'
      /\ \A r \in Live : Due(r) = len[r] /\ Due(r)' = len[r]
  BY <1>1, RowsDue
<1>3. \A r \in Live : RowFor(r)' = RowFor(r) /\ Held(r)' = Held(r)
  BY <1>1 DEF RowFor, Held, schedVars
<1>4. TokensStored'
  BY <1>1, <1>2, <1>3, AllInRow DEF TokensStored, Kept, DecodedAtBoundary, schedVars
<1>5. QED
  BY <1>1, <1>2, <1>4, RowsTokens

(* A launch of the forward is put on an empty stream.  It is enough that   *)
(* the requests it is of find their tokens in the row or written by it.    *)
LEMMA ForwardTokens ==
  ASSUME TInv, ForwardFrame, CInv', DecodeOK', stream = <<>>,
         NEW k, stream' = <<k>>, k.mem # "clobbered", k.reqs = todo \ todo',
         \A r \in Live : r \notin k.reqs /\ Held(r) => kv'[RowFor(r)] = kv[RowFor(r)],
         \A r \in k.reqs : Held(r) =>
           /\ LaunchReads(k, r)'
           /\ \A p \in 0 .. len[r] + new[r] - 1 :
                \/ Kept(r, kv'[RowFor(r)], p)
                \/ k.mem = "pool" /\ p \in k.past .. k.past + k.n - 1
  PROVE  TInv'
<1>1. CInv /\ UNCHANGED <<prompt, len, new, step, ctx, lease>> /\ step = "forward"
  BY DEF TInv, ForwardFrame, schedVars
<1>2. Len(stream') = 1 /\ stream'[1] = k
  OBVIOUS
<1>3. OneLaunch' /\ WholeBatch'
  BY <1>1, <1>2 DEF OneLaunch, WholeBatch
<1>4. TokensStored'
  <2>1. ASSUME NEW r \in Live, Held(r)', NEW p \in 0 .. Due(r)' - 1
        PROVE  Kept(r, kv[RowFor(r)], p)' \/ BeingWritten(r, p)'
    <3>1. r \in Reqs /\ Held(r) /\ RowFor(r)' = RowFor(r)
      BY <1>1, <2>1, ForwardNames DEF Held, Live
    <3>2. CASE r \in k.reqs
      <4>1. Due(r)' = len[r] + new[r]
        BY <1>1, <3>2, ForwardNames DEF Due
      <4>2. len[r] \in Int /\ new[r] \in Int
        BY <3>1 DEF TInv, CInv, IInv, TypeOK
      <4>3. p \in 0 .. len[r] + new[r] - 1
        BY <2>1, <4>1, <4>2
      <4>4. \/ Kept(r, kv'[RowFor(r)], p)
            \/ k.mem = "pool" /\ p \in k.past .. k.past + k.n - 1
        BY <3>1, <3>2, <4>3
      <4>5. k.mem = "pool" /\ p \in k.past .. k.past + k.n - 1 => BeingWritten(r, p)'
        BY <1>2, <3>2 DEF BeingWritten
      <4>6. QED
        BY <1>1, <3>1, <4>4, <4>5 DEF Kept, DecodedAtBoundary
    <3>3. CASE r \notin k.reqs
      <4>1. Due(r)' = Due(r)
        BY <1>1, <3>1, <3>3, ForwardNames DEF Due
      <4>2. Kept(r, kv[RowFor(r)], p)
        BY <2>1, <3>1, <4>1, AllInRow
      <4>3. QED
        BY <1>1, <3>1, <3>3, <4>2 DEF Kept, DecodedAtBoundary
    <3>4. QED
      BY <3>2, <3>3
  <2>2. QED
    BY <1>1, <2>1, ForwardNames DEF TokensStored
<1>5. LaunchesRead'
  <2>1. ASSUME NEW r \in Live', Held(r)', NEW i \in 1 .. Len(stream'), r \in stream'[i].reqs
        PROVE  LaunchReads(stream[i], r)'
    <3>1. i = 1 /\ r \in k.reqs /\ Held(r)
      BY <1>1, <1>2, <2>1 DEF Held
    <3>2. LaunchReads(k, r)'
      BY <3>1
    <3>3. QED
      BY <1>2, <3>1, <3>2 DEF LaunchReads
  <2>2. QED
    BY <2>1 DEF LaunchesRead
<1>6. ContextsOwn'
  BY <1>1, ForwardNames DEF TInv, ContextsOwn, WindowOwn, Held, DecodedAtBoundary
<1>7. QED
  BY <1>3, <1>4, <1>5, <1>6 DEF TInv

LEMMA SingleLaunch ==
  ASSUME NEW k
  PROVE  Append(Clobber(<<>>), k) = <<k>> /\ Append(<<>>, k) = <<k>>
<1>1. Clobber(<<>>) = <<>>
  BY DEF Clobber
<1>2. Append(<<>>, k) = <<k>>
  OBVIOUS
<1>3. QED
  BY <1>1, <1>2, Zenon

LEMMA ExtendKernelTokens ==
  ASSUME TInv, DefaultStream, RowPoolAssumption, NEW r \in Reqs, ExtendKernel(r),
         CInv', DecodeOK'
  PROVE  TInv'
<1>0. PICK k : k = OnRow("pool", r, len[r], new[r])
  OBVIOUS
<1>1. /\ ForwardFrame /\ step = "forward" /\ r \in todo /\ todo' = todo \ {r} /\ UNCHANGED kv
      /\ stream = <<>> /\ stream' = Append(Clobber(stream), k) /\ CInv
  BY <1>0 DEF ExtendKernel, LaunchKernel, Synced, ForwardFrame, poolVars, TInv
<1>2. /\ k.mem = "pool" /\ k.reqs = {r} /\ k.past = len[r] /\ k.n = new[r]
      /\ len[r] \in Nat /\ new[r] \in Nat \ {0}
  BY <1>0, <1>1, BatchHasRows DEF OnRow, CInv
<1>3. stream' = <<k>> /\ k.reqs = todo \ todo'
  BY <1>1, <1>2, SingleLaunch
<1>4. r \in Live /\ Due(r) = len[r]
  BY <1>1, ForwardNames DEF Due
<1>5. LaunchReads(k, r)'
  BY <1>2 DEF LaunchReads
<1>6. ASSUME Held(r), NEW p \in 0 .. len[r] + new[r] - 1
      PROVE  Kept(r, kv'[RowFor(r)], p) \/ p \in k.past .. k.past + k.n - 1
  <2>1. CASE p < len[r]
    <3>1. p \in 0 .. Due(r) - 1
      BY <1>2, <1>4, <2>1
    <3>2. QED
      BY <1>1, <1>4, <1>6, <3>1, AllInRow
  <2>2. CASE ~ (p < len[r])
    BY <1>2, <2>2
  <2>3. QED
    BY <2>1, <2>2
<1>7. QED
  BY <1>1, <1>2, <1>3, <1>5, <1>6, ForwardTokens

LEMMA SdpaTokens ==
  ASSUME TInv, RowPoolAssumption, step = "forward", NEW r \in todo, Sdpa(r, new[r]),
         CInv', DecodeOK'
  PROVE  TInv'
<1> DEFINE row == RowFor(r)
<1>0. PICK k : k = OnRow("sdpa", r, len[r] + new[r], 0)
  OBVIOUS
<1>1. /\ ForwardFrame /\ todo' = todo \ {r}
      /\ Store(row, len[r], new[r], [p \in Pos |-> Tok(r, p)])
      /\ stream = <<>> /\ stream' = Append(stream, k) /\ CInv
  BY <1>0 DEF Sdpa, Synced, ForwardFrame, TInv
<1>2. /\ k.mem = "sdpa" /\ k.reqs = {r} /\ k.past = len[r] + new[r] /\ k.n = 0
      /\ k.row = row
      /\ len[r] \in Nat /\ new[r] \in Nat \ {0} /\ len[r] + new[r] <= MaxSeq
      /\ row \in Rows /\ r \in Reqs
  BY <1>0, <1>1, BatchHasRows DEF OnRow, CInv
<1>3. stream' = <<k>> /\ k.reqs = todo \ todo'
  BY <1>1, <1>2, SingleLaunch
<1>4. r \in Live /\ Due(r) = len[r]
  BY <1>1, ForwardNames DEF Due
<1>5. \A p \in Pos : kv'[row][p] = IF p \in len[r] .. len[r] + new[r] - 1
                                   THEN Tok(r, p) ELSE kv[row][p]
  BY <1>1, <1>2 DEF Store, CInv, IInv, TypeOK
<1>6. \A p \in 0 .. len[r] + new[r] - 1 : p \in Pos
  BY <1>2 DEF Pos, RowPoolAssumption
<1>7. LaunchReads(k, r)'
  <2>1. /\ k.past - 1 \in 0 .. len[r] + new[r] - 1 /\ k.past > 0
        /\ k.past - 1 \in len[r] .. len[r] + new[r] - 1
    BY <1>2
  <2>2. kv'[row][k.past - 1] = Tok(r, k.past - 1)
    BY <1>5, <1>6, <2>1
  <2>3. QED
    BY <1>2, <2>1, <2>2 DEF LaunchReads
<1>8. ASSUME Held(r), NEW p \in 0 .. len[r] + new[r] - 1
      PROVE  Kept(r, kv'[row], p)
  <2>1. CASE p < len[r]
    <3>1. p \in 0 .. Due(r) - 1
      BY <1>2, <1>4, <2>1
    <3>2. Kept(r, kv[row], p)
      BY <1>1, <1>4, <1>8, <3>1, AllInRow
    <3>3. kv'[row][p] = kv[row][p]
      BY <1>2, <1>5, <1>6, <2>1
    <3>4. QED
      BY <3>2, <3>3 DEF Kept
  <2>2. CASE ~ (p < len[r])
    <3>1. p \in len[r] .. len[r] + new[r] - 1
      BY <1>2, <2>2
    <3>2. QED
      BY <1>5, <1>6, <3>1 DEF Kept
  <2>3. QED
    BY <2>1, <2>2
<1>9. ASSUME NEW s \in Live, s # r, Held(s)
      PROVE  kv'[RowFor(s)] = kv[RowFor(s)]
  <2>1. RowFor(s) # row
    BY <1>1, <1>2, <1>4, <1>9, LiveRow DEF CInv, RowPoolAssumption
  <2>2. RowFor(s) \in Rows
    BY <1>1, <1>9, LiveRow DEF CInv, LeaseOK
  <2>3. QED
    BY <1>1, <1>2, <2>1, <2>2 DEF Store, CInv, IInv, TypeOK
<1>10. QED
  <2> HIDE DEF row
  <2>1. \A s \in Live : s \notin k.reqs /\ Held(s) => kv'[RowFor(s)] = kv[RowFor(s)]
    BY <1>2, <1>9
  <2>2. \A s \in k.reqs : Held(s) =>
           /\ LaunchReads(k, s)'
           /\ \A p \in 0 .. len[s] + new[s] - 1 : Kept(s, kv'[RowFor(s)], p)
    BY <1>2, <1>7, <1>8 DEF row
  <2>3. QED
    BY <1>1, <1>2, <1>3, <2>1, <2>2, ForwardTokens

LEMMA DecodeKernelTokens ==
  ASSUME TInv, DefaultStream, RowPoolAssumption, NEW past \in Pos, DecodeKernel(past),
         CInv', DecodeOK'
  PROVE  TInv'
<1> DEFINE bucket == {r \in todo : len[r] = past}
           copies == [r \in Reqs |-> IF r \in bucket THEN kv[RowFor(r)] ELSE ZeroRow]
<1>0. PICK k : k = [mem |-> "copy", reqs |-> bucket, row |-> NoRow, past |-> past,
                    n |-> 1, copy |-> copies]
  OBVIOUS
<1>1. /\ ForwardFrame /\ step = "forward" /\ mode = "decode" /\ todo' = todo \ bucket
      /\ UNCHANGED kv /\ stream = <<>> /\ stream' = Append(Clobber(stream), k)
      /\ \A r \in todo : KernelEligible(r)
      /\ CInv /\ DecodeOK
  BY <1>0 DEF DecodeKernel, LaunchKernel, Synced, ForwardFrame, poolVars, TInv
<1>2. /\ k.mem = "copy" /\ k.reqs = bucket /\ k.past = past /\ k.n = 1 /\ k.copy = copies
      /\ past \in Nat
  BY <1>0 DEF Pos
<1> HIDE DEF copies
<1>3. stream' = <<k>> /\ k.reqs = todo \ todo'
  <2>1. bucket = todo \ todo'
    BY <1>1
  <2> HIDE DEF bucket
  <2>2. QED
    BY <1>1, <1>2, <2>1, SingleLaunch
<1>4. ASSUME NEW r \in bucket, Held(r)
      PROVE  /\ LaunchReads(k, r)'
             /\ \A p \in 0 .. len[r] + new[r] - 1 : Kept(r, kv'[RowFor(r)], p)
  <2>1. r \in Live /\ r \in Reqs /\ r \in Batch /\ r \in todo /\ len[r] = past
    BY <1>1, ForwardNames DEF Batch
  <2>2. new[r] = 1 /\ prompt[r] <= past /\ past % Tile = 0
    BY <1>1, <2>1 DEF DecodeOK, KernelEligible
  <2>3. DecodedAtBoundary(r, past)
    BY <2>1, <2>2 DEF DecodedAtBoundary, CInv, IInv, TypeOK
  <2>4. Due(r) = past
    BY <2>1 DEF Due
  <2>5. \A p \in 0 .. past - 1 : Kept(r, kv[RowFor(r)], p)
    BY <1>1, <1>4, <2>1, <2>4, AllInRow
  <2>6. copies[r] = kv[RowFor(r)] /\ prompt' = prompt
    BY <1>1, <2>1 DEF copies, ForwardFrame, schedVars
  <2>7. LaunchReads(k, r)'
    <3>1. k.mem # "pool" /\ k.mem # "sdpa"
      BY <1>2
    <3>2. DecodedAtBoundary(r, k.past)'
      BY <1>2, <2>3, <2>6 DEF DecodedAtBoundary
    <3>3. \A p \in 0 .. k.past - 1 : Kept(r, k.copy[r], p)'
      BY <1>2, <2>5, <2>6 DEF Kept, DecodedAtBoundary
    <3>4. QED
      BY <1>2, <3>1, <3>2, <3>3 DEF LaunchReads
  <2>8. \A p \in 0 .. len[r] + new[r] - 1 : p \in 0 .. past - 1 \/ p = past
    BY <1>2, <2>1, <2>2
  <2>9. QED
    BY <1>1, <2>3, <2>5, <2>7, <2>8 DEF Kept
<1>5. QED
  <2> HIDE DEF bucket
  <2>1. k.mem # "clobbered"
    BY <1>2
  <2>2. QED
    BY <1>1, <1>2, <1>3, <1>4, <2>1, ForwardTokens

(* The only launch runs: nothing is in flight after it.                    *)
LEMMA GpuTokens ==
  ASSUME TInv, Gpu, CInv', DecodeOK',
         \A r \in Live : Held(r) =>
           /\ \A p \in 0 .. Due(r) - 1 : Kept(r, kv'[RowFor(r)], p)
           /\ WindowOwn(r, ctx'[r])
  PROVE  TInv'
<1>1. CInv /\ stream' = <<>> /\ UNCHANGED prompt
  <2>1. CInv /\ Len(stream) <= 1
    BY DEF TInv, OneLaunch
  <2>2. Len(stream) \in Nat \ {0} /\ Len(stream') = Len(stream) - 1
    BY <2>1, GpuNames
  <2>3. Len(stream') = 0
    BY <2>1, <2>2
  <2>4. stream' \in Seq(GoodLaunch)
    BY DEF CInv, IInv
  <2>5. QED
    BY <2>1, <2>3, <2>4, EmptySeq, GpuNames
<1>2. OneLaunch' /\ LaunchesRead'
  BY <1>1 DEF OneLaunch, LaunchesRead
<1>3. WholeBatch'
  BY <1>1, GpuNames DEF TInv, WholeBatch
<1>4. \A r \in Live : /\ r \in Reqs /\ Held(r)' = Held(r)
                      /\ Due(r)' = Due(r) /\ RowFor(r)' = RowFor(r)
  BY <1>1, GpuNames DEF Live, Held
<1>5. TokensStored'
  BY <1>1, <1>4, GpuNames DEF TokensStored, Kept, DecodedAtBoundary
<1>6. ContextsOwn'
  BY <1>1, <1>4, GpuNames DEF ContextsOwn, WindowOwn, DecodedAtBoundary
<1>7. QED
  BY <1>2, <1>3, <1>5, <1>6 DEF TInv

(* With one launch in flight, what it does not write is in the row.        *)
LEMMA AllButLaunch ==
  ASSUME TInv, Gpu, NEW r \in Live, Held(r), NEW p \in 0 .. Due(r) - 1,
         \/ stream[1].mem # "pool"
         \/ r \notin stream[1].reqs
         \/ p \notin stream[1].past .. stream[1].past + stream[1].n - 1
  PROVE  Kept(r, kv[RowFor(r)], p)
<1>1. \A i \in 1 .. Len(stream) : i = 1
  BY GpuNames DEF TInv, OneLaunch
<1>2. ~ BeingWritten(r, p)
  BY <1>1 DEF BeingWritten
<1>3. QED
  BY <1>2 DEF TInv, TokensStored

LEMMA RunOnRowTokens ==
  ASSUME TInv, RowPoolAssumption, RunOnRow, CInv', DecodeOK'
  PROVE  TInv'
<1> DEFINE k == stream[1]
<1>1. Gpu /\ CInv
  BY DEF Gpu, TInv
<1>2. /\ k.mem \in {"pool", "sdpa"} /\ LaunchOK(k) /\ k \in GoodLaunch
      /\ \E r \in k.reqs :
           /\ Store(k.row, k.past, k.n, [p \in Pos |-> Tok(r, p)])
           /\ ctx' = [ctx EXCEPT ![r] = Window(r, kv[k.row], k.past, k.n)]
      /\ \A s \in Live : Held(s) /\ s \in k.reqs => LaunchReads(k, s)
  <2>1. 1 \in 1 .. Len(stream)
    BY <1>1, GpuNames
  <2>2. QED
    BY <1>1, <2>1, GpuNames DEF RunOnRow, TInv, LaunchesRead
<1>3. MaxSeq \in Nat
  BY DEF RowPoolAssumption
<1>4. \A s \in Live : Held(s) => \A p \in 0 .. Due(s) - 1 :
        \/ Kept(s, kv[RowFor(s)], p)
        \/ k.mem = "pool" /\ s \in k.reqs /\ p \in k.past .. k.past + k.n - 1
  BY <1>1, AllButLaunch
<1> HIDE DEF k
<1>5. /\ k.row \in Rows /\ k.row # NoRow /\ k.reqs \subseteq Reqs
      /\ k.past \in Nat /\ k.n \in Nat /\ k.past + k.n <= MaxSeq
  BY <1>2, <1>3 DEF GoodLaunch, Launch, RowPoolAssumption
<1>6. PICK r \in k.reqs :
        /\ Store(k.row, k.past, k.n, [p \in Pos |-> Tok(r, p)])
        /\ ctx' = [ctx EXCEPT ![r] = Window(r, kv[k.row], k.past, k.n)]
  BY <1>2
<1>7. k.reqs = {r} /\ r \in Reqs
  BY <1>2, <1>5 DEF LaunchOK
<1>8. r \in Live => k.row = RowFor(r) /\ k.past + k.n = Due(r)
  BY <1>2, <1>7 DEF LaunchOK
<1>9. kv' = [kv EXCEPT ![k.row] = [p \in Pos |-> IF p \in k.past .. k.past + k.n - 1
                                                THEN Tok(r, p) ELSE kv[k.row][p]]]
  BY <1>6 DEF Store, CInv, IInv, TypeOK
<1>10. kv \in [Rows -> [Pos -> Content]]
  BY <1>1 DEF CInv, IInv, TypeOK
<1>11. ASSUME NEW s \in Live, Held(s), NEW p \in 0 .. Due(s) - 1
       PROVE  Kept(s, kv'[RowFor(s)], p)
  <2>1. RowFor(s) \in Rows /\ s \in Reqs
    BY <1>1, <1>11, LiveRow DEF CInv, LeaseOK
  <2>2. CASE RowFor(s) # k.row
    <3>1. kv'[RowFor(s)] = kv[RowFor(s)]
      BY <1>9, <1>10, <2>1, <2>2
    <3>2. s \notin k.reqs
      BY <1>7, <1>8, <2>2
    <3>3. QED
      BY <1>4, <1>11, <3>1, <3>2
  <2>3. CASE RowFor(s) = k.row
    <3>1. s \in k.reqs \/ (step = "idle" /\ len[s] = 0)
      BY <1>2, <1>11, <2>3 DEF LaunchOK
    <3>2. CASE s \in k.reqs
      <4>1. p \in Pos /\ s = r
        BY <1>3, <1>5, <1>7, <1>8, <1>11, <3>2 DEF Pos
      <4>2. kv'[k.row][p] = IF p \in k.past .. k.past + k.n - 1
                            THEN Tok(r, p) ELSE kv[k.row][p]
        BY <1>5, <1>9, <1>10, <4>1
      <4>3. CASE p \in k.past .. k.past + k.n - 1
        BY <2>3, <4>1, <4>2, <4>3 DEF Kept
      <4>4. CASE p \notin k.past .. k.past + k.n - 1
        <5>1. Kept(s, kv[RowFor(s)], p)
          BY <1>4, <1>11, <4>4
        <5>2. QED
          BY <2>3, <4>2, <4>4, <5>1 DEF Kept
      <4>5. QED
        BY <4>3, <4>4
    <3>3. CASE s \notin k.reqs
      <4>1. Due(s) = 0
        BY <3>1, <3>3 DEF Due
      <4>2. QED
        BY <1>11, <4>1
    <3>4. QED
      BY <3>2, <3>3
  <2>4. QED
    BY <2>2, <2>3
<1>12. ASSUME NEW s \in Live, Held(s)
       PROVE  WindowOwn(s, ctx'[s])
  <2>1. s \in Reqs
    BY DEF Live
  <2>2. CASE s # r
    <3>1. ctx'[s] = ctx[s]
      BY <1>1, <1>6, <1>7, <2>1, <2>2 DEF CInv, IInv, TypeOK
    <3>2. QED
      BY <1>12, <3>1 DEF TInv, ContextsOwn
  <2>3. CASE s = r
    <3> DEFINE w == Window(r, kv[k.row], k.past, k.n)
    <3>1. ctx'[s] = w
      BY <1>1, <1>6, <1>7, <2>3 DEF CInv, IInv, TypeOK
    <3>2. /\ Len(w) = k.past + k.n
          /\ \A i \in 1 .. k.past + k.n :
               w[i] = IF i <= k.past THEN kv[k.row][i - 1] ELSE Tok(r, i - 1)
      BY <1>5, WindowEntries
    <3>3. LaunchReads(k, r)
      BY <1>2, <1>12, <2>3
    <3> HIDE DEF w
    <3>4. ASSUME NEW i \in 1 .. Len(w)
          PROVE  w[i] = Tok(r, i - 1) \/ (i < Len(w) /\ DecodedAtBoundary(r, i - 1))
      <4>1. CASE i > k.past
        BY <1>5, <3>2, <3>4, <4>1
      <4>2. CASE i <= k.past
        <5>1. w[i] = kv[k.row][i - 1] /\ i - 1 \in 0 .. Due(r) - 1
          BY <1>5, <1>8, <2>3, <3>2, <3>4, <4>2
        <5>2. Kept(r, kv[k.row], i - 1)
          <6>1. ~ (i - 1 \in k.past .. k.past + k.n - 1)
            BY <1>5, <3>2, <3>4, <4>2
          <6>2. QED
            BY <1>4, <1>8, <1>12, <2>3, <5>1, <6>1
        <5>3. CASE k.mem = "pool"
          <6>1. i < Len(w)
            BY <1>5, <3>2, <3>3, <3>4, <4>2, <5>3 DEF LaunchReads
          <6>2. QED
            BY <5>1, <5>2, <6>1 DEF Kept
        <5>4. CASE k.mem = "sdpa"
          <6>1. k.n = 0 /\ kv[k.row][k.past - 1] = Tok(r, k.past - 1)
            BY <3>3, <5>4 DEF LaunchReads
          <6>2. i = k.past \/ i < Len(w)
            BY <1>5, <3>2, <3>4, <4>2, <6>1
          <6>3. QED
            BY <5>1, <5>2, <6>1, <6>2 DEF Kept
        <5>5. QED
          BY <1>2, <5>3, <5>4
      <4>3. QED
        BY <1>5, <3>2, <3>4, <4>1, <4>2
    <3>5. QED
      BY <2>3, <3>1, <3>4 DEF WindowOwn
  <2>4. QED
    BY <2>2, <2>3
<1>13. QED
  BY <1>1, <1>11, <1>12, GpuTokens

LEMMA RunOffRowTokens ==
  ASSUME TInv, RowPoolAssumption, RunOffRow, CInv', DecodeOK'
  PROVE  TInv'
<1> DEFINE k == stream[1]
<1>1. Gpu /\ CInv /\ UNCHANGED kv
  BY DEF Gpu, TInv, RunOffRow, poolVars
<1>2. 1 \in 1 .. Len(stream)
  BY <1>1, GpuNames
<1>3. /\ k.mem \in {"copy", "dropped"} /\ k \in GoodLaunch
      /\ \A s \in Live : Held(s) /\ s \in k.reqs => LaunchReads(k, s)
  BY <1>1, <1>2, GpuNames DEF RunOffRow, TInv, LaunchesRead, OneLaunch
<1>4. \E ok \in BOOLEAN :
        ctx' = [r \in Reqs |->
          IF r \notin k.reqs THEN ctx[r]
          ELSE Window(r, IF ok THEN k.copy[r] ELSE [p \in Pos |-> Junk], k.past, k.n)]
  <2>1. /\ BOOLEAN \subseteq BOOLEAN
        /\ {TRUE} \subseteq BOOLEAN
        /\ {FALSE} \subseteq BOOLEAN
    OBVIOUS
  <2>2. QED
    BY <1>1, <2>1, GpuNames DEF RunOffRow
<1>5. \A s \in Live : Held(s) => \A p \in 0 .. Due(s) - 1 : Kept(s, kv'[RowFor(s)], p)
  BY <1>1, <1>3, AllButLaunch
<1>6. MaxSeq \in Nat
  BY DEF RowPoolAssumption
<1> HIDE DEF k
<1>7. k.past \in Nat /\ k.n \in Nat /\ k.past + k.n <= MaxSeq
  BY <1>3, <1>6 DEF GoodLaunch, Launch
<1>8. PICK ok \in BOOLEAN :
        ctx' = [r \in Reqs |->
          IF r \notin k.reqs THEN ctx[r]
          ELSE Window(r, IF ok THEN k.copy[r] ELSE [p \in Pos |-> Junk], k.past, k.n)]
  BY <1>4
<1>9. ASSUME NEW s \in Live, Held(s)
      PROVE  WindowOwn(s, ctx'[s])
  <2>1. s \in Reqs
    BY DEF Live
  <2>2. CASE s \notin k.reqs
    <3>1. ctx'[s] = ctx[s]
      BY <1>8, <2>1, <2>2
    <3>2. QED
      BY <1>9, <3>1 DEF TInv, ContextsOwn
  <2>3. CASE s \in k.reqs
    <3> DEFINE mem == IF ok THEN k.copy[s] ELSE [p \in Pos |-> Junk]
    <3>1. ctx'[s] = Window(s, mem, k.past, k.n)
      BY <1>8, <2>1, <2>3
    <3>2. /\ k.n = 1 /\ DecodedAtBoundary(s, k.past)
          /\ \A p \in 0 .. k.past - 1 : Kept(s, k.copy[s], p)
      <4>1. k.mem # "pool" /\ k.mem # "sdpa" /\ LaunchReads(k, s)
        BY <1>3, <1>9, <2>3
      <4>2. QED
        BY <4>1 DEF LaunchReads
    <3>3. \A p \in 0 .. k.past - 1 : Kept(s, mem, p) \/ mem[p] = Junk
      <4>1. \A p \in 0 .. k.past - 1 : p \in Pos
        BY <1>6, <1>7 DEF Pos
      <4>2. QED
        BY <3>2, <4>1 DEF Kept
    <3> HIDE DEF mem
    <3>4. /\ Len(ctx'[s]) = k.past + k.n
          /\ \A i \in 1 .. k.past + k.n :
               ctx'[s][i] = IF i <= k.past THEN mem[i - 1] ELSE Tok(s, i - 1)
      BY <1>7, <3>1, WindowEntries
    <3>5. PICK w : w = ctx'[s]
      OBVIOUS
    <3>6. /\ Len(w) = k.past + k.n
          /\ \A i \in 1 .. k.past + k.n :
               w[i] = IF i <= k.past THEN mem[i - 1] ELSE Tok(s, i - 1)
      BY <3>4, <3>5
    <3>7. Len(w) - 1 = k.past
      BY <1>7, <3>2, <3>6
    <3>8. ASSUME NEW i \in 1 .. Len(w)
          PROVE  \/ w[i] = Tok(s, i - 1)
                 \/ i < Len(w) /\ DecodedAtBoundary(s, i - 1)
                 \/ i < Len(w) /\ DecodedAtBoundary(s, Len(w) - 1) /\ w[i] = Junk
      <4>1. CASE i > k.past
        BY <1>7, <3>6, <3>8, <4>1
      <4>2. CASE i <= k.past
        <5>1. w[i] = mem[i - 1] /\ i - 1 \in 0 .. k.past - 1 /\ i < Len(w)
          BY <1>7, <3>2, <3>6, <3>8, <4>2
        <5>2. Kept(s, mem, i - 1) \/ mem[i - 1] = Junk
          BY <3>3, <5>1
        <5>3. QED
          BY <3>2, <3>7, <5>1, <5>2 DEF Kept
      <4>3. QED
        BY <1>7, <3>6, <3>8, <4>1, <4>2
    <3>9. QED
      BY <3>5, <3>8 DEF WindowOwn
  <2>4. QED
    BY <2>2, <2>3
<1>10. QED
  BY <1>1, <1>5, <1>9, GpuTokens

LEMMA TokensStep ==
  ASSUME RowPoolAssumption, BackendAssumption, DefaultStream, TInv, [Next]_vars
  PROVE  TInv'
<1>1. CInv' /\ DecodeOK' /\ CInv /\ DecodeOK
  BY ContentStep, DecodeStep DEF TInv
<1>2. CASE Schedule
  <2>1. CASE \E r \in Reqs, id \in Rids : \E p \in Prompts[r] : Admit(r, id, p)
    BY <1>1, <2>1, AdmitTokens
  <2>2. CASE IdleMetadata \/ \E r \in Reqs : Finish(r)
    BY <1>1, <2>2, QuietSteps
  <2>3. CASE \E m \in {"extend", "decode"}, n \in [Reqs -> 0 .. MaxSeq] :
               InitForwardMetadata(m, n)
    BY <1>1, <2>3, MetadataTokens
  <2>4. QED
    BY <1>2, <2>1, <2>2, <2>3 DEF Schedule
<1>3. CASE Host
  <2>1. CASE \E id \in Rids : Release(id) \/ AllocRow(id)
    BY <1>1, <2>1, ReleaseTokens, AllocRowTokens
  <2>2. CASE BeginForward \/ \E id \in Rids : AllocFails(id)
    BY <1>1, <2>2, RowsDoneTokens
  <2>3. ASSUME NEW r \in Reqs, ExtendKernel(r)
        PROVE  TInv'
    BY <1>1, <2>3, ExtendKernelTokens
  <2>4. ASSUME NEW r \in Reqs, ExtendSdpa(r)
        PROVE  TInv'
    BY <1>1, <2>4, SdpaTokens DEF ExtendSdpa
  <2>5. ASSUME NEW r \in Reqs, DecodeSdpa(r)
        PROVE  TInv'
    <3>1. step = "forward" /\ mode = "decode" /\ r \in todo /\ Sdpa(r, 1)
      BY <2>5 DEF DecodeSdpa
    <3>2. new[r] = 1
      BY <1>1, <3>1 DEF DecodeOK, CInv, IInv, BatchOK
    <3>3. QED
      BY <1>1, <3>1, <3>2, SdpaTokens
  <2>6. CASE \E past \in Pos : DecodeKernel(past)
    BY <1>1, <2>6, DecodeKernelTokens
  <2>7. CASE RebindCopy \/ EndForward
    BY <1>1, <2>7, QuietSteps
  <2>8. QED
    BY <1>3, <2>1, <2>2, <2>3, <2>4, <2>5, <2>6, <2>7 DEF Host
<1>4. CASE Gpu
  BY <1>1, <1>4, RunOnRowTokens, RunOffRowTokens DEF Gpu
<1>5. CASE UNCHANGED vars
  BY <1>1, <1>5, QuietSteps
<1>6. QED
  BY <1>2, <1>3, <1>4, <1>5 DEF Next

(* On CUDA's default stream the rows, the launches and the attentions      *)
(* account for every token of a held request.                              *)
THEOREM TokensAgree ==
  ASSUME DefaultStream
  PROVE  Spec => []TInv
<1>1. Init => TInv
  BY RowPoolAssumption, BackendAssumption, InitTInv
<1>2. TInv /\ [Next]_vars => TInv'
  BY RowPoolAssumption, BackendAssumption, TokensStep
<1>3. QED
  BY <1>1, <1>2, PTL DEF Spec

(* On the default stream whatever a held request has processed is in its   *)
(* row or about to be put there, but for the tokens decoded on a boundary. *)
THEOREM TokensAreStored ==
  ASSUME DefaultStream
  PROVE  Spec => []ProcessedTokensStored
<1>1. TInv => ProcessedTokensStored
  <2> SUFFICES ASSUME TInv, NEW r \in Live, Held(r)
               PROVE  /\ RowFor(r) # NoRow
                      /\ \A p \in 0 .. len[r] - 1 :
                           \/ kv[RowFor(r)][p] = Tok(r, p)
                           \/ BeingWritten(r, p)
                           \/ DecodedAtBoundary(r, p)
    BY DEF ProcessedTokensStored
  <2>1. RowFor(r) # NoRow
    BY LiveRow, RowPoolAssumption DEF TInv, CInv, LeaseOK
  <2>2. len[r] \in Nat /\ new[r] \in Nat
    BY RowPoolAssumption DEF RowPoolAssumption, Live, TInv, CInv, IInv, TypeOK
  <2>3. \A p \in 0 .. len[r] - 1 : p \in 0 .. Due(r) - 1
    BY <2>2 DEF Due
  <2>4. QED
    BY <2>1, <2>3 DEF TInv, TokensStored, Kept
<1>2. QED
  BY <1>1, TokensAgree, PTL

(* On the default stream the attention of a held request covers its        *)
(* positions up to the newest token, with its own entry at each but for    *)
(* the tokens decoded on a boundary and a copy released too early.         *)
THEOREM AttentionOwn ==
  ASSUME DefaultStream
  PROVE  Spec => []AttentionReadsOwnContext
<1>1. TInv => AttentionReadsOwnContext
  <2> SUFFICES ASSUME TInv, NEW r \in Live, Held(r), ctx[r] # <<>>
               PROVE  /\ Len(ctx[r]) = IF step = "idle" THEN len[r] ELSE len[r] + new[r]
                      /\ WindowOwn(r, ctx[r])
    BY DEF AttentionReadsOwnContext, WindowOwn
  <2>1. WindowOwn(r, ctx[r])
    BY DEF TInv, ContextsOwn
  <2>2. Len(ctx[r]) = Due(r) /\ (step = "forward" => r \in Batch \ todo)
    BY DEF TInv, CInv, StreamOK
  <2>3. step \in {"idle", "forward"}
    BY DEF TInv, CInv, StreamOK, IInv, TypeOK, Live
  <2>4. QED
    BY <2>1, <2>2, <2>3 DEF Due
<1>2. QED
  BY <1>1, TokensAgree, PTL
================================================================================
