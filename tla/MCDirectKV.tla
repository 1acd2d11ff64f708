------------------------------ MODULE MCDirectKV ------------------------------
(***************************************************************************)
(* Instances of DirectKVBackend for TLC.  Tiles of two positions and rows  *)
(* of three tiles: every request meets aligned and misaligned chunks and     *)
(* decodes on and off a tile boundary.                                     *)
(***************************************************************************)
EXTENDS DirectKVBackend, DirectKVStartup, TokenPool, TLC

CONSTANTS a, b, c

\* One prompt ends off the tiles' grid.  Requests with the same prompts and ids
\* are interchangeable; rows are not (the free list is ordered).
MCPrompts == [r \in Reqs |-> IF r = c THEN {5} ELSE {2}]
Symmetry == Permutations({a, b}) \union Permutations(Rids)
AnyPrompt == [r \in Reqs |-> 1 .. 3]

--------------------------------------------------------------------------------
(* The start of the server, by evaluation: SGLang's packages with one       *)
(* editable directory, every state of its modules the hook may meet.        *)

Srt    == <<"sglang", "srt">>
Layers == <<"sglang", "srt", "layers">>
Site(editable) ==
  [importable |-> [p \in {<<"sglang">>, Srt, Layers} |-> <<"site">>],
   editable   |-> [p \in editable |-> "editable"]]

Modules ==
  [registry: {"absent", "bare", "half", "whole"}, runner: {"absent", "bare", "0.4", "other"},
   serverArgs: {"whole", "no choices", "ImportError", "raises"},
   mixin: {"whole", "ImportError", "AttributeError"}]
Histories == {<<m1>> : m1 \in Modules} \union
             {<<m1, m2>> : m1 \in {m \in Modules : m.mixin = "whole"},
                        m2 \in {m \in Modules : m.serverArgs = "whole"}}

Arguments ==
  [backend: Backends, disableRadixCache: BOOLEAN, disableCudaGraph: BOOLEAN, mla: BOOLEAN,
   headDim: {64, 128}, dtype: {"bfloat16", "float16"}, ext: {{}}]

(* Every parent of an imported package finds its modules in site-packages   *)
(* first, where DirectKV is installed, and in the editable tree as well.    *)
ASSUME ParentsSeeBothTrees ==
  \A editable \in SUBSET {<<"sglang">>, Srt, Layers} :
    LET paths == DirectKVImport(<<>>, Layers, {"attention"}, Site(editable)) IN
    \A p \in {<<"sglang">>, Srt, Layers} :
      paths[p] = IF p \in editable THEN <<"site", "editable">> ELSE <<"site">>

(* Whatever was imported in whatever order, a server that comes up runs the *)
(* smpv2 backend with its own kind of model and without the radix cache.    *)
ASSUME OnlySmpV2Comes ==
  \A reg \in {AfterImports(h) : h \in Histories}, args \in Arguments :
    CreateBackend(reg, args) = "created" =>
      args.backend = "directkv-smpv2" /\ args.disableRadixCache /\ args.headDim = 128

(* The hook has one try: the backends are known afterwards exactly if the   *)
(* first import that showed it one of the two modules showed it whole.      *)
ASSUME OneTry ==
  \A h \in Histories :
    LET ready == {i \in DOMAIN h : RegistryReady(h[i]) \/ RunnerReady(h[i])}
        first == h[CHOOSE i \in ready : \A j \in ready : i <= j]
        reg   == AfterImports(h) IN
    (reg.backends = Backends \/ reg.modelRunner) <=>
      /\ ready # {}
      /\ IF RegistryReady(first) THEN first.registry = "whole" ELSE first.runner = "0.4"

(* Attention writes to the pool whose slots the allocator hands out, and    *)
(* with both halves of the registration it is the pinned one.               *)
ASSUME AllocatorServesPool ==
  \A reg \in {AfterImports(h) : h \in Histories}, backend \in Backends \union {"other"},
     pool \in {NoPool, [size |-> 2, width |-> 9]} :
    LET runner == InitPools(reg, backend,
                    [reqPool |-> pool, kvPool |-> "none", allocator |-> "none",
                     hasAllocator |-> TRUE, maxRequests |-> 4, contextLen |-> 100]) IN
    /\ runner.allocator = runner.kvPool
    /\ runner.kvPool = "pinned" <=> backend \in Backends /\ (reg.initPools \/ reg.modelRunner)
    /\ runner.reqPool # NoPool

(* A layer runs without rotation only if the model has none, or keeps it in *)
(* tables that do not have the width of a head.                             *)
ASSUME RotationFound ==
  \A cache \in {0, 2, 4}, pairs \in [1 .. 3 -> {0, 1, 2, 4}], inv \in BOOLEAN :
    LET rotary == [cache |-> cache, pairs |-> pairs, invFreq |-> inv]
        mods   == <<[layer |-> -1, qkv |-> TRUE, kv |-> FALSE, rotary |-> NoRotary],
                    [layer |-> 0, qkv |-> FALSE, kv |-> FALSE, rotary |-> NoRotary],
                    [layer |-> 1, qkv |-> TRUE, kv |-> FALSE, rotary |-> rotary],
                    [layer |-> 2, qkv |-> FALSE, kv |-> TRUE, rotary |-> rotary]>> IN
    /\ SetupHooks(mods, 4).hooked = {1, 2}
    /\ SetupHooks(mods, 4).cosSin = "none" =>
         ~inv /\ cache # 4 /\ \A i \in 1 .. 3 : pairs[i] \in {0, 1}

(* A failed build leaves the environment as it was and is tried again; the  *)
(* extension in use was built for sm_90a.                                   *)
ASSUME BuildRetried ==
  LET Env == [userPath: {"dir", "missing", "unset"}, defaultPath: BOOLEAN, kernelSrc: BOOLEAN,
              extSource: BOOLEAN, compiles: BOOLEAN]
      before == [ext |-> "none", arch |-> "8.0", for |-> "none"] IN
  \A first, second \in Env :
    LET once  == CallKernel(before, first).proc
        twice == CallKernel(once, second) IN
    /\ twice.proc.arch = "8.0"
    /\ ~twice.raises => twice.proc.for = "9.0a"
    /\ ~twice.raises <=> \E e \in {first, second} : Loadable(e) /\ e.compiles

--------------------------------------------------------------------------------
(* The pool of token slots, by evaluation: two layers of four slots, every    *)
(* slot of every layer with contents of its own.                              *)

Slots == 0 .. 3
Filled(tag, startLayer) ==
  LET pool == CreateBuffers(startLayer, startLayer + 1, 3, <<>>) IN
  [pool EXCEPT !.k = [l \in 1 .. 2 |-> [s \in Slots |-> <<tag, "k", l, s>>]],
               !.v = [l \in 1 .. 2 |-> [s \in Slots |-> <<tag, "v", l, s>>]]]
Indices == {x \in Slots \X Slots : x[1] # x[2]}

(* What is stored for a layer is read back from the same slots of the same    *)
(* layer, key as key and value as value, and nothing else is touched.         *)
ASSUME StoredIsRead ==
  \A loc \in Indices, start \in {0, 3}, l \in 1 .. 2, override \in BOOLEAN :
    LET before == Filled("old", start)
        after  == SetKvBuffer(before, IF override THEN start + 2 - l ELSE start + l - 1,
                              IF override THEN <<start + l - 1>> ELSE <<>>, loc,
                              << <<"k1">>, <<"k2">> >>, << <<"v1">>, <<"v2">> >>) IN
    /\ Gather(GetKeyBuffer(after, start + l - 1), loc) = << <<"k1">>, <<"k2">> >>
    /\ Gather(GetValueBuffer(after, start + l - 1), loc) = << <<"v1">>, <<"v2">> >>
    /\ \A m \in 1 .. 2, s \in Slots : m # l \/ s \notin Range(loc) =>
         after.k[m][s] = before.k[m][s] /\ after.v[m][s] = before.v[m][s]

(* Slots moved onto slots that are themselves moved (defragmentation) arrive  *)
(* with what they had before, in every layer.                                 *)
ASSUME MovesOverlap ==
  \A tgt \in Indices, src \in Indices :
    LET before == Filled("old", 0)
        after  == MoveKvCache(before, tgt, src) IN
    \A l \in 1 .. 2, i \in 1 .. 2 :
      after.k[l][tgt[i]] = before.k[l][src[i]] /\ after.v[l][tgt[i]] = before.v[l][src[i]]

(* Slots written to the host pool and loaded into other slots, layer by       *)
(* layer, bring back the same contents, also when the host pool starts at     *)
(* another layer.                                                             *)
ASSUME BackupsRestored ==
  \A there \in Indices, from \in Indices, back \in Indices :
    LET pool   == Filled("old", 3)
        host   == CreateBuffers(2, 5, 3, <<>>)
        saved  == BackupToHostAllLayer(pool, host, there, from)
        first  == LoadFromHostPerLayer(pool, saved, there, back, 3)
        second == LoadFromHostPerLayer(first, saved, there, back, 4) IN
    \A l \in 1 .. 2, i \in 1 .. 2 :
      second.k[l][back[i]] = pool.k[l][from[i]] /\ second.v[l][back[i]] = pool.v[l][from[i]]
===============================================================================
