----------------------------- MODULE NeoBlocks -----------------------------
(* Neo's block manager: the free blocks and the block tables of the GPU and  *)
(* of the CPU.  A passive component: operators from one state of the tables  *)
(* to the next, which the engine's loop strings together.  The order of the  *)
(* blocks within a table row is left out.                                    *)
EXTENDS Integers, Sequences, FiniteSets

CONSTANTS Ids,          \* request ids, the rows of both block tables
          BlockSize,    \* tokens per block
          GpuBlocks,    \* num_gpu_blocks, of each split
          CpuBlocks,    \* num_cpu_blocks
          ExtraLayer    \* extra_layer_for_cprf: a second split on the GPU

ASSUME BlocksAssumption ==
    /\ BlockSize \in Nat \ {0}
    /\ GpuBlocks \in Nat \ {0}
    /\ CpuBlocks \in Nat
    /\ ExtraLayer \in BOOLEAN

Devices == {"gpu", "cpu"}
Splits == IF ExtraLayer THEN {0, 1} ELSE {0}
Blocks(dev) == 1 .. (IF dev = "gpu" THEN GpuBlocks ELSE CpuBlocks)
Cdiv(len) == (len + BlockSize - 1) \div BlockSize

(* copies: the swaps of the iteration being prepared, with the blocks they   *)
(* read and the blocks they write.  fault: what prepare raised, if it did.   *)
Faults == {"none", "no_gpu_blocks", "no_cpu_blocks", "assertion"}
BlockState ==
    [table  : [Devices -> [Ids -> SUBSET Nat]],
     free   : [Devices -> [Splits -> SUBSET Nat]],
     copies : SUBSET [id : Ids, src : SUBSET Nat, dst : SUBSET Nat],
     fault  : Faults]

FreshBlocks ==
    [table  |-> [dev \in Devices |-> [id \in Ids |-> {}]],
     free   |-> [dev \in Devices |-> [s \in Splits |-> Blocks(dev)]],
     copies |-> {},
     fault  |-> "none"]

Raise(b, fault) == [b EXCEPT !.fault = IF @ = "none" THEN fault ELSE @]
Check(b, cond) == IF cond THEN b ELSE Raise(b, "assertion")

-----------------------------------------------------------------------------
(* A request is seen here as an id and a length; reqs is a sequence of them. *)

RankIn(S, x) == Cardinality({y \in S : y < x})

(* The free blocks a request of a batch gets: the lowest ones, after those   *)
(* of the requests before it.                                                *)
Slice(S, from, n) == {x \in S : RankIn(S, x) \in from .. from + n - 1}

(* The first splitPoint requests take from split 1, the others from split 0. *)
(* Asked(T): one element for each block that the requests of T still need.   *)
Alloc(b, dev, reqs, splitPoint, omitLast) ==
    LET Tgt(i) == Cdiv(reqs[i].len - (IF omitLast THEN 1 ELSE 0))
        Has(i) == Cardinality(b.table[dev][reqs[i].id])
        New(i) == Tgt(i) - Has(i)
        Asked(T) == UNION {{i} \X (1 .. New(i)) : i \in T}
        Split(i) == IF i <= splitPoint THEN 1 ELSE 0
        Of(s) == {i \in DOMAIN reqs : Split(i) = s}
        Got(i) == Slice(b.free[dev][Split(i)],
                        Cardinality(Asked({j \in Of(Split(i)) : j < i})), New(i))
        GotBy(id) == UNION {Got(i) : i \in {j \in DOMAIN reqs : reqs[j].id = id}}
    IN  IF b.fault # "none" \/ reqs = <<>> THEN b
        ELSE IF \E i \in DOMAIN reqs : Has(i) > Tgt(i) THEN Raise(b, "assertion")
        ELSE IF \E s \in Splits : Cardinality(Asked(Of(s))) > Cardinality(b.free[dev][s])
        THEN Raise(b, IF dev = "gpu" THEN "no_gpu_blocks" ELSE "no_cpu_blocks")
        ELSE [b EXCEPT !.table[dev] = [id \in Ids |-> @[id] \union GotBy(id)],
                       !.free[dev] = [s \in Splits |-> @[s] \ UNION {Got(i) : i \in Of(s)}]]

(* A mistake for the mutants: the rows keep the blocks they give back.       *)
FreeRowsKept(b, dev, reqs, split) ==
    LET ids == {reqs[i].id : i \in DOMAIN reqs}
        back == UNION {b.table[dev][id] : id \in ids}
    IN  IF b.fault # "none" \/ reqs = <<>> THEN b
        ELSE [b EXCEPT !.free[dev][split] = @ \union back]

Free(b, dev, reqs, split) ==
    LET ids == {reqs[i].id : i \in DOMAIN reqs}
        back == UNION {b.table[dev][id] : id \in ids}
    IN  IF b.fault # "none" \/ reqs = <<>> THEN b
        ELSE [b EXCEPT !.table[dev] = [id \in Ids |-> IF id \in ids THEN {} ELSE @[id]],
                       !.free[dev][split] = @ \union back]

-----------------------------------------------------------------------------
(* One direction of a swap: the source's blocks are given back, then the     *)
(* destination's are taken.                                                  *)

SwapBlocks(b, reqs, isSwapOut, useItm, omitLast) ==
    LET src == IF isSwapOut THEN "gpu" ELSE "cpu"
        dst == IF isSwapOut THEN "cpu" ELSE "gpu"
        freed == Free(b, src, reqs, IF useItm THEN 1 ELSE 0)
        moved == Alloc(freed, dst, reqs, 0, omitLast)
    IN  [moved EXCEPT !.copies = @ \union
            {[id |-> reqs[i].id, src |-> b.table[src][reqs[i].id],
              dst |-> moved.table[dst][reqs[i].id]] : i \in DOMAIN reqs}]

(* A mistake for the mutants: the last token is left out of CPU prefills too. *)
InitiateSwapOmitsLast(b, reqs, isSwapOut, useItm, omitLast) ==
    SwapBlocks(b, reqs, isSwapOut, useItm, TRUE)

InitiateSwap(b, reqs, isSwapOut, useItm, omitLast) ==
    SwapBlocks(Check(b, isSwapOut \/ ~useItm), reqs, isSwapOut, useItm, omitLast)

(* A batch as set_model_forward_args orders it: prefills that go to the CPU, *)
(* prefills that stay, GPU decodes; and the decodes whose KV is on the CPU.  *)
AllocBlocksForBatch(b, batch) ==
    LET onGpu == batch.cprf \o batch.gprf \o batch.gdec
    IN  Alloc(Alloc(b, "gpu", onGpu, IF ExtraLayer THEN Len(batch.cprf) ELSE 0, FALSE),
              "cpu", batch.cdec, 0, FALSE)

BatchSize(batch) ==
    Len(batch.cprf) + Len(batch.gprf) + Len(batch.gdec) + Len(batch.cdec)

(* prepare: the swaps the scheduler asked for, the blocks of every batch, and *)
(* only then the CPU prefills' way out of the GPU.                           *)
Prepare(b, batches, swapOut, swapIn) ==
    LET Swap(x) == InitiateSwap(x, IF swapOut # <<>> THEN swapOut ELSE swapIn,
                                swapOut # <<>>, FALSE, TRUE)
        AllocB(x, i) == IF i \in DOMAIN batches
                        THEN AllocBlocksForBatch(Check(x, BatchSize(batches[i]) > 0), batches[i])
                        ELSE x
        SwapB(x, i) == IF i \in DOMAIN batches
                       THEN InitiateSwap(x, batches[i].cprf, TRUE, ExtraLayer, FALSE)
                       ELSE x
        start == Check([b EXCEPT !.copies = {}],
                       /\ swapOut = <<>> \/ swapIn = <<>>
                       /\ Len(batches) \in {1, 2})
    IN  SwapB(SwapB(AllocB(AllocB(Swap(start), 1), 2), 1), 2)

FreeGpuBlocksOnly(b, reqs) == Free(b, "gpu", reqs, 0)      \* for the mutants
FreeBlocksOfRequests(b, reqs) == Free(Free(b, "gpu", reqs, 0), "cpu", reqs, 0)

-----------------------------------------------------------------------------
(* Every block of a split is free or in one row, and never both.  A row of   *)
(* the GPU's table holds blocks of split 0 between two preparations, since   *)
(* split 1 is handed back within one.                                        *)
Conserved(b) ==
    /\ \A dev \in Devices : \A s \in Splits \ {0} : b.free[dev][s] = Blocks(dev)
    /\ \A dev \in Devices :
         /\ b.free[dev][0] \union UNION {b.table[dev][id] : id \in Ids} = Blocks(dev)
         /\ \A id \in Ids : b.table[dev][id] \intersect b.free[dev][0] = {}
         /\ \A id1, id2 \in Ids :
              id1 # id2 => b.table[dev][id1] \intersect b.table[dev][id2] = {}
=============================================================================
