---------------------------- MODULE FlexGenLoops ----------------------------
(* The generation loops of FlexGen as programs for FlexGenStage: those of    *)
(* OptLM, one process, and those of DistOptLM, a pipeline of processes.  An  *)
(* operation gets the indices of the loop, which may lie one past the end or *)
(* before the start, and yields the commands it comes to: the corner cases   *)
(* wrap to the next or the last layer, token, inner batch and round.         *)
EXTENDS FlexGenStage

Command(op, b, t, i, j, k) == [op |-> op, b |-> b, t |-> t, i |-> i, j |-> j, k |-> k]
Do(op) == <<Command(op, 0, 0, 0, 0, 0)>>
When(cond, prog) == IF cond THEN prog ELSE <<>>
EachBatch(P(_)) == FlattenSeq([n \in 1 .. c.K |-> P(n - 1)])
Sync == Do("sync")

-----------------------------------------------------------------------------
(* OptLM: token i, layer j, batch k.                                         *)

L == NumLayers(0)
Op(op, i, j, k) == <<Command(op, 0, 0, i, j, k)>>

LoadWeight(i, j, k) ==
    IF j < L THEN Op("load_weight", i, j, k)
    ELSE When(i + 1 < ExecGenLen, Op("load_weight", i + 1, 0, k))

RECURSIVE LoadCache(_, _, _)
LoadCache(i, j, k) ==
    CASE i = 0 -> <<>>
      [] i > 0 /\ k = c.K -> LoadCache(i, j + 1, 0)
      [] i > 0 /\ k < c.K /\ j = L -> When(i + 1 < ExecGenLen, Op("load_cache", i + 1, 0, k))
      [] OTHER -> Op("load_cache", i, j, k)

RECURSIVE StoreCache(_, _, _)
StoreCache(i, j, k) ==
    CASE k = -1 -> StoreCache(i, j - 1, c.K - 1)
      [] k >= 0 /\ j = -1 -> When(i > 0, StoreCache(i - 1, L - 1, k))
      [] k >= 0 /\ j >= 0 /\ i = GenLen - 1 -> Op("drop_cache", i, j, k)
      [] OTHER -> Op("store_cache", i, j, k)

RECURSIVE LoadHidden(_, _, _)
LoadHidden(i, j, k) ==
    CASE k = c.K -> LoadHidden(i, j + 1, 0)
      [] k < c.K /\ j = L -> When(i + 1 < ExecGenLen, LoadHidden(i + 1, 0, k))
      [] OTHER -> Op(IF j = 0 THEN "input" ELSE "pass_on", i, j, k)

(* A hidden state that stays on the GPU needs no move to its home.           *)
RECURSIVE StoreHidden(_, _, _)
StoreHidden(i, j, k) ==
    CASE k = -1 -> StoreHidden(i, j - 1, c.K - 1)
      [] k >= 0 /\ j = -1 -> When(i > 0, StoreHidden(i - 1, L - 1, k))
      [] OTHER -> When(j = L - 1, Op("output_pop", i, j, k))

UpdateMasks(i) == EachBatch(LAMBDA k : Op("mask", i, 0, k))
ComputeLayer(i, j, k) == Op("compute", i, j, k)

(* One pass of the innermost loop that ends in sync, if any does.            *)
BodyNormal(i, j) ==
    EachBatch(LAMBDA k : LoadWeight(i, j, k))
    \o EachBatch(LAMBDA k : LoadCache(i, j, k) \o LoadHidden(i, j, k) \o ComputeLayer(i, j, k)
                            \o StoreHidden(i, j, k) \o StoreCache(i, j, k))
BodyDebugNormal(i, j) ==
    Sync \o EachBatch(LAMBDA k : LoadWeight(i, j, k)) \o Sync
    \o EachBatch(LAMBDA k : LoadCache(i, j, k) \o Sync \o LoadHidden(i, j, k) \o Sync
                            \o ComputeLayer(i, j, k) \o Sync \o StoreHidden(i, j, k) \o Sync
                            \o StoreCache(i, j, k) \o Sync)
BodySingleSameLayer(i, j) ==                            \* for the mutants
    LoadWeight(i, j + 1, 0) \o LoadCache(i, j + 1, 0) \o LoadHidden(i, j, 0)
    \o ComputeLayer(i, j, 0) \o StoreCache(i, j, 0) \o StoreHidden(i, j, 0) \o Sync
BodySingle(i, j) ==
    LoadWeight(i, j + 1, 0) \o LoadCache(i, j + 1, 0) \o LoadHidden(i, j, 0)
    \o ComputeLayer(i, j, 0) \o StoreCache(i, j - 1, 0) \o StoreHidden(i, j, 0) \o Sync
BodyMultiInputFirst(i, j, k) ==                         \* for the mutants
    LoadWeight(i, j + 1, k) \o LoadCache(i, j, k + 1) \o LoadHidden(i, j, k + 1)
    \o StoreHidden(i, j, k - 1) \o ComputeLayer(i, j, k) \o StoreCache(i, j, k - 1) \o Sync
BodyMulti(i, j, k) ==
    LoadWeight(i, j + 1, k) \o LoadCache(i, j, k + 1) \o StoreHidden(i, j, k - 1)
    \o LoadHidden(i, j, k + 1) \o ComputeLayer(i, j, k) \o StoreCache(i, j, k - 1) \o Sync

Steps(multi) == ExecGenLen * L * (IF multi THEN c.K ELSE 1)
(* A debug loop counts the layers of decoding steps, and ends at its limit.  *)
DebugSteps(multi) ==
    Min({ExecGenLen * L, L + DebugBatches}) * (IF multi THEN c.K ELSE 1)
Multi == c.loop \in {"multi", "debug_multi"}
Debug == c.loop \in {"debug_normal", "debug_single", "debug_multi"}
NumSteps == IF Debug THEN DebugSteps(Multi) ELSE Steps(Multi)

(* Step n of the loop of OptLM: the prologue, a pass, the epilogue.          *)
Prologue ==
    When(c.loop \notin {"normal", "debug_normal"},
         EachBatch(LAMBDA k : LoadWeight(0, 0, k)) \o When(Multi, LoadHidden(0, 0, 0)) \o Sync)
Epilogue == When(c.loop = "multi", StoreHidden(ExecGenLen - 1, L - 1, c.K - 1))
Pass(n) ==
    LET K == IF Multi THEN c.K ELSE 1
        i == (n - 1) \div (L * K)
        j == ((n - 1) \div K) % L
        k == (n - 1) % K
    IN  When(j = 0 /\ k = 0, UpdateMasks(i))
        \o CASE Multi -> BodyMulti(i, j, k)
             [] c.loop \in {"single", "debug_single"} -> BodySingle(i, j)
             [] c.loop = "normal" -> BodyNormal(i, j)
             [] OTHER -> BodyDebugNormal(i, j)
        \o When(c.loop = "single" /\ c.stop /\ j = L - 1, Do("may_stop"))
OptProgram(n) ==
    CASE n = 0 -> Prologue
      [] n \in 1 .. NumSteps -> Pass(n)
      [] n = NumSteps + 1 -> Epilogue
      [] OTHER -> <<>>

-----------------------------------------------------------------------------
(* DistOptLM: round b, inner batch t.                                        *)

Rounds == c.R                         \* num_pipeline_batches \div num_inner_iterations
At(op, x) == <<[x EXCEPT !.op = op]>>
X(b, t, i, j, k) == Command("none", b, t, i, j, k)

(* Indices carried from layer to inner batch to token to round, both ways.   *)
Carry(r, x) ==
    LET x1 == IF x.k = c.K THEN [x EXCEPT !.k = 0, !.j = @ + 1] ELSE x
        x2 == IF x1.j = NumLayers(r) THEN [x1 EXCEPT !.j = 0, !.t = @ + 1] ELSE x1
        x3 == IF x2.t = c.T THEN [x2 EXCEPT !.t = 0, !.i = @ + 1] ELSE x2
    IN  x3
NextRound(x) == IF x.i = ExecGenLen THEN [x EXCEPT !.i = 0, !.b = @ + 1] ELSE x
Borrow(r, x) ==
    LET x1 == IF x.k = -1 THEN [x EXCEPT !.k = c.K - 1, !.j = @ - 1] ELSE x
        x2 == IF x1.j = -1 THEN [x1 EXCEPT !.j = NumLayers(r) - 1, !.t = @ - 1] ELSE x1
        x3 == IF x2.t = -1 THEN [x2 EXCEPT !.t = c.T - 1, !.i = @ - 1] ELSE x2
    IN  x3

DistLoadWeight(r, b, t, i, j, k) ==
    LET x == NextRound(Carry(r, X(b, t, i, j, k))) IN When(x.b < Rounds, At("load_weight", x))
DistLoadCache(r, b, t, i, j, k) ==
    LET x == Carry(r, X(b, t, i, j, k)) IN When(x.i < ExecGenLen, At("load_cache", x))
DistStoreCache(r, b, t, i, j, k) ==
    LET x == Borrow(r, X(b, t, i, j, k)) IN When(x.i >= 0, At("store_cache", x))
DistLoadHidden(r, b, t, i, j, k) ==
    LET x == NextRound(Carry(r, X(b, t, i, j, k)))
    IN  When(x.b < Rounds,
             CASE x.j > 0 -> At("pass_on", x)
               [] x.j = 0 /\ c.stages > 1 /\ ~(x.i = 0 /\ r = 0) -> At("received", x)
               [] OTHER -> At("input", x))
DistStoreHidden(r, b, t, i, j, k) ==
    LET y == Borrow(r, X(b, t, i, j, k))
        x == IF y.i = -1 THEN [y EXCEPT !.i = ExecGenLen - 1, !.b = @ - 1] ELSE y
    IN  When(x.b >= 0 /\ x.j = NumLayers(r) - 1 /\ r = c.stages - 1,
             At(IF x.i = ExecGenLen - 1 THEN "output_pop" ELSE "output", x))
DistUpdateMasks(b, t, i) == EachBatch(LAMBDA k : At("mask", X(b, t, i, 0, k)))
DistCompute(b, t, i, j, k) == At("compute", X(b, t, i, j, k))

(* The hidden states of one job are sent on and those of another received,   *)
(* one batch at a time.                                                      *)
NoJob == X(-1, -1, -1, 0, 0)
SendHidden(r, x, k) ==
    At("isend", [x EXCEPT !.j = NumLayers(r) - 1, !.k = k]) \o When(~c.async, Do("wait_sent"))
RecvHidden(x, k) == At("irecv", [x EXCEPT !.k = k]) \o When(~c.async, Do("wait_received"))
SendPart(r, last) ==
    When(last # NoJob /\ ~(last.i = ExecGenLen - 1 /\ r = c.stages - 1),
         EachBatch(LAMBDA k : SendHidden(r, last, k)))
RecvPart(r, next) ==
    When(next # NoJob /\ ~(next.i = 0 /\ r = 0), EachBatch(LAMBDA k : RecvHidden(next, k)))
SendRecvReceiveFirst(r, last, next) ==                  \* for the mutants
    RecvPart(r, next) \o SendPart(r, last)
    \o When(c.async, Do("wait_sent") \o Do("wait_received"))
SendRecvHidden(r, last, next) ==
    (IF r = 0 THEN RecvPart(r, next) \o SendPart(r, last)
              ELSE SendPart(r, last) \o RecvPart(r, next))
    \o When(c.async, Do("wait_sent") \o Do("wait_received"))

DistBodyNormal(r, b, t, i, j) ==
    EachBatch(LAMBDA k : DistLoadWeight(r, b, t, i, j, k)) \o Sync
    \o EachBatch(LAMBDA k :
           DistLoadCache(r, b, t, i, j, k) \o DistLoadHidden(r, b, t, i, j, k) \o Sync
           \o DistCompute(b, t, i, j, k) \o Sync
           \o DistStoreHidden(r, b, t, i, j, k) \o DistStoreCache(r, b, t, i, j, k) \o Sync)
DistBodyOne(r, b, t, i, j) ==
    DistLoadWeight(r, b, t, i, j + 1, 0) \o DistLoadCache(r, b, t, i, j + 1, 0)
    \o DistLoadHidden(r, b, t, i, j, 0) \o DistCompute(b, t, i, j, 0)
    \o DistStoreCache(r, b, t, i, j - 1, 0) \o DistStoreHidden(r, b, t, i, j, 0) \o Sync
DistBodyMulti(r, b, t, i, j, k) ==
    DistLoadWeight(r, b, t, i, j + 1, k) \o DistLoadCache(r, b, t, i, j, k + 1)
    \o DistLoadHidden(r, b, t, i, j, k) \o DistCompute(b, t, i, j, k)
    \o DistStoreCache(r, b, t, i, j, k - 1) \o DistStoreHidden(r, b, t, i, j, k) \o Sync

(* Job number m, from 0, in the order round, token, inner batch.             *)
JobAt(m) ==
    IF m = -1 THEN NoJob
    ELSE X(m \div (ExecGenLen * c.T), m % c.T, (m \div c.T) % ExecGenLen, 0, 0)
Jobs == Rounds * ExecGenLen * c.T
DistProgram(r, n) ==
    LET K == IF c.loop = "multi" THEN c.K ELSE 1
        perJob == NumLayers(r) * K
        m == (n - 1) \div perJob
        j == ((n - 1) \div K) % NumLayers(r)
        k == (n - 1) % K
        x == JobAt(m)
    IN  CASE n = 0 /\ c.loop = "single" -> DistLoadWeight(r, 0, 0, 0, 0, 0) \o Sync
          [] n = 0 /\ c.loop = "multi" -> EachBatch(LAMBDA b : DistLoadWeight(r, 0, 0, 0, 0, b))
          [] n \in 1 .. Jobs * perJob ->
                 When(j = 0 /\ k = 0,
                      DistUpdateMasks(x.b, x.t, x.i)
                      \o When(c.stages > 1, SendRecvHidden(r, JobAt(m - 1), x)))
                 \o CASE c.loop = "normal" -> DistBodyNormal(r, x.b, x.t, x.i, j)
                      [] c.loop = "single" -> DistBodyOne(r, x.b, x.t, x.i, j)
                      [] OTHER -> DistBodyMulti(r, x.b, x.t, x.i, j, k)
          [] n = Jobs * perJob + 1 -> When(c.stages > 1, SendRecvHidden(r, JobAt(Jobs - 1), NoJob))
          [] OTHER -> <<>>

Program(r, n) == IF c.dist THEN DistProgram(r, n) ELSE OptProgram(n)
=============================================================================
