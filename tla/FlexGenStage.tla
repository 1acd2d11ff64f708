---------------------------- MODULE FlexGenStage ----------------------------
(* One process of FlexGen: a Python thread that holds a slice of the layers, *)
(* three side streams and the default stream of its GPU, and the threads     *)
(* that copy to and from disk.  What the thread does is a sequence of        *)
(* commands; a command changes the value holders at once and leaves its      *)
(* copies and kernels to a stream or to a copy thread.  Values are tags: a   *)
(* right value says which batch it belongs to and how far it has come.       *)
EXTENDS Integers, Sequences, SequencesExt, FiniteSets, FiniteSetsExt, Functions, TLC

CONSTANTS Configs,       \* the policies and loops to run
          HiddenLayers,  \* num_hidden_layers
          DebugBatches   \* execute_num_batches of the debug loops

VARIABLES c,     \* the configuration of this run
          proc   \* proc[r]: the process of pipeline rank r

ASSUME FlexGenAssumption ==
    /\ HiddenLayers \in Nat \ {0} /\ DebugBatches \in Nat \ {0}
    /\ \A x \in Configs : x.stages \in 1 .. HiddenLayers /\ x.K \in Nat \ {0} /\ x.gen \in Nat \ {0}

Ranks == 0 .. c.stages - 1
Batches == 0 .. c.K - 1              \* num_gpu_batches
Inner == 0 .. c.T - 1                \* num_inner_iterations
ExecGenLen == c.gen                  \* execute_gen_len
GenLen == IF c.cut THEN ExecGenLen + 1 ELSE ExecGenLen
Streams == {"default", "load_weight", "load_cache", "store_cache"}
Bad == <<>>

-----------------------------------------------------------------------------
(* The layers of a rank.                                                     *)

StageSize(r) == HiddenLayers \div c.stages + (IF r < HiddenLayers % c.stages THEN 1 ELSE 0)
HiddenLayer == IF c.sep THEN <<"attention", "mlp">> ELSE <<"transformer">>
First(r) == IF r = 0 THEN 1 ELSE 0                 \* the rank's first hidden layer
NumLayers(r) == First(r) + StageSize(r) * Len(HiddenLayer) + (IF r = c.stages - 1 THEN 1 ELSE 0)
Kind(r, j) ==
    CASE r = 0 /\ j = 0 -> "embed"
      [] r = c.stages - 1 /\ j = NumLayers(r) - 1 -> "output"
      [] OTHER -> HiddenLayer[1 + ((j - First(r)) % Len(HiddenLayer))]
HasCache(r, j) == Kind(r, j) \in {"attention", "transformer"}

-----------------------------------------------------------------------------
(* Value holders, and the cells the values they hold are kept in.            *)

WeightBuf(j) == <<"weight", j>>
ReadBuf(x) == <<"cache_read", x.t, x.j, x.k>>
WriteBuf(x) == <<"cache_write", x.t, x.j, x.k>>
Hidden(x, j) == <<"hidden", x.t, x.i, j, x.k>>
Home(x) == <<"cache_home", x.t, x.j, x.k>>
Mask(x) == <<"mask", x.t, x.k>>
Act(x) == <<"act", x.t, x.i, x.k>>
Workspace(n) == <<"workspace", n>>

Get(mem, cell) == IF cell \in DOMAIN mem THEN mem[cell] ELSE Bad
(* Holders that must be full, those emptied, and those filled, which must be *)
(* empty by then.                                                            *)
Exchange(s, needed, popped, stored) ==
    IF needed \subseteq DOMAIN s.held /\ DOMAIN stored \intersect (DOMAIN s.held \ popped) = {}
    THEN [s EXCEPT !.held = stored @@ Restrict(@, DOMAIN @ \ popped)]
    ELSE [s EXCEPT !.fault = "assert"]
StoreIn(s, h, cell) == Exchange(s, {}, {}, h :> cell)
Take(s, h) == Exchange(s, {h}, {h}, <<>>)

-----------------------------------------------------------------------------
(* Jobs: the cells read and written, and the values written.                 *)

Job(kind, x, src, dst, val) == [kind |-> kind, x |-> x, src |-> src, dst |-> dst, val |-> val]
Loaded == <<"loaded">>
Copied(x) == <<x.b, x.i>>             \* a cache that holds the tokens before step i
Reached(x, r, j) == <<x.b, x.i, r, j>>   \* a hidden state before layer j of rank r

Decoding(r, job) == job.kind = "compute" /\ HasCache(r, job.x.j) /\ job.x.i > 0
Masked(r, x) == HasCache(r, x.j) \/ Kind(r, x.j) = "embed"
Releases(job) == job.x.k = c.K - 1 /\ c.weights # "gpu"

Reads(r, job) ==
    CASE job.kind = "put" -> {}
      [] job.kind \in {"copy", "save"} -> {job.src}
      [] job.kind = "extend" -> {job.dst}
      [] job.kind = "compute" ->
             {WeightBuf(job.x.j), Act(job.x)}
             \union (IF Masked(r, job.x) THEN {Mask(job.x)} ELSE {})
             \union (IF Decoding(r, job) THEN {job.src} ELSE {})
Writes(r, job) ==
    {job.dst}
    \union (IF Decoding(r, job) THEN {job.src} ELSE {})
    \union (IF job.kind = "compute" /\ HasCache(r, job.x.j) THEN {WriteBuf(job.x)} ELSE {})
    \union (IF job.kind = "compute" /\ Releases(job) THEN {WeightBuf(job.x.j)} ELSE {})

(* Decoding attention puts the new key and value into the cache it reads,    *)
(* which is the home itself when both are on the GPU.                        *)
Right(r, mem, job) ==
    LET x == job.x IN
    CASE job.kind = "compute" ->
             /\ Get(mem, WeightBuf(x.j)) = Loaded
             /\ Get(mem, Act(x)) = Reached(x, r, x.j)
             /\ Masked(r, x) => Get(mem, Mask(x)) = <<x.b, x.i>>
             /\ Decoding(r, job) => Get(mem, job.src) = Copied(x)
      [] job.kind = "save" ->
             /\ Get(mem, job.src) = <<x.b, x.i>>
             /\ x.i > 0 => Get(mem, job.dst) \in {Copied(x), <<x.b, x.i + 1>>}
      [] job.kind = "extend" -> Get(mem, job.dst) = <<x.b, x.i - 1>>
      [] OTHER -> TRUE
Token(x) == <<x.b, x.i + 1, 0, 0>>    \* the output of step i is the input of step i+1
AfterLayer(r, x) ==
    CASE Kind(r, x.j) = "output" -> Token(x)
      [] x.j = NumLayers(r) - 1 /\ r < c.stages - 1 -> Reached(x, r + 1, 0)
      [] OTHER -> Reached(x, r, x.j + 1)
Result(r, mem, job, cell) ==
    LET x == job.x IN
    CASE job.kind = "put" -> job.val
      [] job.kind = "copy" -> Get(mem, job.src)
      [] job.kind = "save" -> <<x.b, x.i + 1>>
      [] job.kind = "extend" -> <<x.b, x.i>>
      [] job.kind = "compute" ->
             CASE cell = Act(x) -> AfterLayer(r, x)
               [] cell = WriteBuf(x) -> <<x.b, x.i>>
               [] cell = WeightBuf(x.j) -> Bad
               [] OTHER -> <<x.b, x.i + 1>>
Perform(r, mem, job) ==
    [cell \in Writes(r, job) |->
        IF Right(r, mem, job) THEN Result(r, mem, job, cell) ELSE Bad] @@ mem

Pending(s) == s.copying \union UNION {Range(s.queue[q]) : q \in Streams}
Conflict(r, a, b) ==
    \/ Writes(r, a) \intersect (Reads(r, b) \union Writes(r, b)) # {}
    \/ Writes(r, b) \intersect Reads(r, a) # {}

-----------------------------------------------------------------------------
(* Who does a job: a stream, a copy thread or the thread itself, which then  *)
(* must not meet a job in flight.                                            *)

Launch(s, q, job) == [s EXCEPT !.queue[q] = Append(@, job)]
Submit(s, job) == [s EXCEPT !.copying = @ \union {job}]
Now(r, s, job) ==
    IF \E other \in Pending(s) : Conflict(r, job, other)
    THEN [s EXCEPT !.fault = "race"]
    ELSE [s EXCEPT !.mem = Perform(r, @, job)]

(* general_copy: disk, and many rows to CPU memory that is not pinned, go to *)
(* the copy threads; from such memory a copy is pinned first; a single row   *)
(* to it holds the thread until it is there.                                 *)
GeneralCopy(r, s, q, from, to, rows, job) ==
    CASE "disk" \in {from, to} \/ (from = "gpu" /\ to = "cpu" /\ rows = "many") -> Submit(s, job)
      [] to = "cpu" /\ (from = "cpu" \/ rows = "one") -> Now(r, s, job)
      [] from = "cpu" /\ to = "gpu" ->
             IF \E other \in Pending(s) : job.src \in Writes(r, other)
             THEN [s EXCEPT !.fault = "race"]
             ELSE Launch(s, q, [job EXCEPT !.kind = "put", !.val = Get(s.mem, job.src)])
      [] OTHER -> Launch(s, q, job)

Side(q) == IF c.overlap \/ c.dist THEN q ELSE "default"

-----------------------------------------------------------------------------
(* The operations of the layers.                                             *)

LayerLoadWeight(r, s, x) ==
    LET stored == StoreIn(s, WeightBuf(x.j), WeightBuf(x.j))
        job == Job("put", x, Bad, WeightBuf(x.j), Loaded)
    IN  CASE x.k # 0 -> s
          [] x.k = 0 /\ c.weights = "gpu" -> stored
          [] x.k = 0 /\ c.weights = "disk" -> Submit(stored, job)
          [] OTHER -> Launch(stored, Side("load_weight"), job)

(* A CPU workspace per decoded batch, in turn.                               *)
NumWorkspaces == IF c.sep THEN 1 ELSE 2
NextWorkspace(pt) == (pt + 1) % NumWorkspaces
OnCpu(r, x) == c.compute = "cpu" /\ HasCache(r, x.j) /\ x.i > 0

LayerLoadCache(r, s, x) ==
    LET pt == NextWorkspace(s.ws)
        dst == IF OnCpu(r, x) THEN Workspace(pt) ELSE ReadBuf(x)
        moved == IF OnCpu(r, x) THEN [s EXCEPT !.ws = pt] ELSE s
        Copy(cell) == GeneralCopy(r, moved, Side("load_cache"), c.cache, c.compute, "many",
                                  Job("copy", x, Home(x), cell, Bad))
    IN  CASE ~HasCache(r, x.j) \/ x.i = 0 -> s
          [] HasCache(r, x.j) /\ x.i > 0 /\ c.cache = "gpu" /\ c.compute = "gpu" ->
                 StoreIn(s, ReadBuf(x), Home(x))
          [] OTHER -> StoreIn(Copy(dst), ReadBuf(x), dst)

LayerStoreCache(r, s, x) ==
    LET popped == Take(s, WriteBuf(x))
        job == Job("save", x, WriteBuf(x), Home(x), Bad)
    IN  CASE ~HasCache(r, x.j) -> s
          [] HasCache(r, x.j) /\ x.i = GenLen - 1 -> popped
          [] OTHER -> GeneralCopy(r, popped, Side("store_cache"), "gpu", c.cache,
                                  IF x.i = 0 THEN "many" ELSE "one", job)

(* The last batch takes the weights with it.                                 *)
Forward(r, s, x) ==
    LET cached == HasCache(r, x.j)
        read == IF cached /\ x.i > 0 THEN {ReadBuf(x)} ELSE {}
        popped == read \union (IF x.k = c.K - 1 THEN {WeightBuf(x.j)} ELSE {})
        needed == read \union {WeightBuf(x.j), Hidden(x, x.j)}
        stored == IF cached THEN WriteBuf(x) :> WriteBuf(x) ELSE <<>>
        s1 == Exchange(s, needed, popped, stored)
        src == IF ReadBuf(x) \in DOMAIN s.held THEN s.held[ReadBuf(x)] ELSE Bad
        job == Job("compute", x, src, Act(x), Bad)
    IN  IF OnCpu(r, x) THEN Now(r, s1, job) ELSE Launch(s1, "default", job)

-----------------------------------------------------------------------------
(* The other commands.                                                       *)

(* The tokens of a batch that are out, in order.                             *)
Slot(x) == <<x.b, x.t, x.k>>
OutLen(s, x) == IF Slot(x) \in DOMAIN s.out THEN s.out[Slot(x)] ELSE 0
Output(s, x) ==
    LET right == Get(s.mem, Act(x)) = Token(x) /\ OutLen(s, x) = x.i
    IN  [s EXCEPT !.out = (Slot(x) :> IF right THEN x.i + 1 ELSE -1) @@ @]
Input(s, x) ==
    LET tag == IF OutLen(s, x) = x.i THEN Reached(x, 0, 0) ELSE Bad
    IN  Launch(StoreIn(s, Hidden(x, 0), Act(x)), "default", Job("put", x, Bad, Act(x), tag))

(* The mask is on the device that attends.                                   *)
UpdateMask(r, s, x) ==
    LET job == IF x.i = 0 THEN Job("put", x, Bad, Mask(x), <<x.b, 0>>)
                          ELSE Job("extend", x, Bad, Mask(x), Bad)
    IN  IF c.compute = "cpu" THEN Now(r, s, job) ELSE Launch(s, "default", job)

Exec(r, s, x) ==
    CASE x.op = "load_weight" -> LayerLoadWeight(r, s, x)
      [] x.op = "load_cache" -> LayerLoadCache(r, s, x)
      [] x.op = "store_cache" -> LayerStoreCache(r, s, x)
      [] x.op = "drop_cache" -> Exchange(s, {}, {WriteBuf(x)}, <<>>)
      [] x.op = "input" -> Input(s, x)
      [] x.op = "pass_on" -> Exchange(s, {Hidden(x, x.j - 1)}, {Hidden(x, x.j - 1)},
                                      Hidden(x, x.j) :> Act(x))
      [] x.op = "received" -> Exchange(s, {Hidden(x, x.j)}, {}, <<>>)
      [] x.op = "compute" -> Forward(r, s, x)
      [] x.op = "output" -> Exchange(Output(s, x), {Hidden(x, x.j)}, {}, <<>>)
      [] x.op = "output_pop" -> Take(Output(s, x), Hidden(x, x.j))
      [] x.op = "mask" -> UpdateMask(r, s, x)
      [] x.op = "isend" -> [Take(s, Hidden(x, x.j)) EXCEPT !.sends = Append(@, x)]
      [] x.op = "irecv" -> [s EXCEPT !.held = (Hidden(x, 0) :> Act(x)) @@ @,
                                     !.recvs = Append(@, x)]
      [] OTHER -> s

(* Commands that hold the thread, and what they wait for.                    *)
WaitsForStream(r, x) ==
    \/ x.op \in {"output", "output_pop"}
    \/ x.op = "compute" /\ OnCpu(r, x)
    \/ x.op = "store_cache" /\ c.cache = "cpu" /\ HasCache(r, x.j) /\ x.i \in 1 .. GenLen - 2
Idle(s) == Pending(s) = {}
Ready(r, s, x) ==
    CASE x.op = "sync" -> Idle(s)
      [] x.op # "store_cache" /\ WaitsForStream(r, x) -> s.queue["default"] = <<>>
      [] x.op = "store_cache" /\ WaitsForStream(r, x) -> s.queue[Side("store_cache")] = <<>>
      [] x.op = "wait_sent" -> s.sends = <<>>
      [] x.op = "wait_received" -> s.recvs = <<>>
      [] OTHER -> TRUE
=============================================================================
