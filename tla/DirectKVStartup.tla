---------------------------- MODULE DirectKVStartup ----------------------------
(***************************************************************************)
(* How a server comes to run on DirectKV: the import hook that registers   *)
(* the backends while SGLang is being imported, the factories and the      *)
(* constructor with what they refuse, the pools, the weights and rotary    *)
(* table taken from the model, and the loader of the CUDA extension.       *)
(*                                                                         *)
(* All of it runs once, in one thread; each definition is a function of    *)
(* what it finds: the modules that are loaded so far, the arguments of the *)
(* server, the model and the file system.                                  *)
(***************************************************************************)
EXTENDS Integers, Sequences, SequencesExt

Backends == {"directkv", "directkv-smpv2"}

--------------------------------------------------------------------------------
(* The import hook.  A package is the sequence of its name's parts; `paths` *)
(* has the __path__ of each loaded package.  `site` says what is on disk:   *)
(* importable packages, and the editable directory of a package, if any.    *)

MergePkgPath(paths, pkg, site) ==
  IF pkg \in DOMAIN paths /\ pkg \in DOMAIN site.editable
     /\ site.editable[pkg] \notin Range(paths[pkg])
  THEN [paths EXCEPT ![pkg] = Append(@, site.editable[pkg])]
  ELSE paths

OrigImport(paths, pkg, site) ==
  [p \in DOMAIN paths \union {pkg} |-> IF p \in DOMAIN paths THEN paths[p] ELSE site.importable[p]]

\* One turn of the loop; it returns at the first parent that is not found.
FixParent(st, pkg, site) ==
  IF st.returned \/ (pkg \notin DOMAIN st.paths /\ pkg \notin DOMAIN site.importable)
  THEN [st EXCEPT !.returned = TRUE]
  ELSE [st EXCEPT !.paths = MergePkgPath(OrigImport(@, pkg, site), pkg, site)]

EnsureParentsFixed(paths, name, site) ==
  FoldLeft(LAMBDA st, i : FixParent(st, SubSeq(name, 1, i), site),
           [paths |-> paths, returned |-> FALSE], [i \in 1 .. Len(name) - 1 |-> i]).paths

MergeAll(paths, pkgs, site) ==
  [p \in DOMAIN paths |-> IF p \in pkgs THEN MergePkgPath(paths, p, site)[p] ELSE paths[p]]

\* from name import attrs, for a name in sglang that can be imported
DirectKVImport(paths, name, attrs, site) ==
  MergeAll(OrigImport(EnsureParentsFixed(paths, name, site), name, site),
           {name, Front(name)} \union {Append(name, a) : a \in attrs}, site)

--------------------------------------------------------------------------------
(* Registration.  `mods` is what sys.modules has when the hook gets to it:  *)
(* of a module under import, the names its body has bound so far.           *)

NothingRegistered ==
  [tried |-> FALSE, backends |-> {}, choices |-> {}, initPools |-> FALSE, modelRunner |-> FALSE]

\* _init_pools
PatchMixin(reg, mods) ==
  IF mods.mixin = "whole" THEN [reg EXCEPT !.initPools = TRUE] ELSE reg

\* ATTENTION_BACKEND_CHOICES; only an ImportError is caught here, so that
\* any other exception skips what is left.
AddChoices(reg, mods) ==
  CASE mods.serverArgs = "whole" -> PatchMixin([reg EXCEPT !.choices = @ \union Backends], mods)
    [] mods.serverArgs \in {"no choices", "ImportError"} -> PatchMixin(reg, mods)
    [] OTHER -> reg

\* "half": ATTENTION_BACKENDS is bound, register_attention_backend is not.
RegisterViaRegistry(reg, mods) ==
  IF mods.registry = "half" THEN reg
  ELSE AddChoices([reg EXCEPT !.backends = @ \union Backends], mods)

\* sglang 0.4.x; a ModelRunner of another version lacks the methods to patch.
RegisterViaModelRunner(reg, mods) ==
  IF mods.runner = "0.4" THEN [reg EXCEPT !.modelRunner = TRUE] ELSE reg

RegistryReady(mods) == mods.registry \in {"half", "whole"}
RunnerReady(mods)   == mods.runner \in {"0.4", "other"}

\* The flag is set before anything is tried, and exceptions are swallowed.
TryRegister(reg, mods) ==
  LET tried == [reg EXCEPT !.tried = TRUE] IN
  CASE RegistryReady(mods) -> RegisterViaRegistry(tried, mods)
    [] ~RegistryReady(mods) /\ RunnerReady(mods) -> RegisterViaModelRunner(tried, mods)
    [] OTHER -> reg

\* A sequence of imports, each with the modules it left behind.
AfterImports(history) ==
  FoldLeft(LAMBDA reg, mods : IF reg.tried THEN reg ELSE TryRegister(reg, mods),
           NothingRegistered, history)

--------------------------------------------------------------------------------
(* The backend.  `args` has the server's arguments and the model.           *)

\* What kernel/__init__.py defines, and what each backend imports from it.
Exports == {"directkv_fwd", "smpv2_fwd", "smpv2_init_tma", "smpv2_fwd_graph"}
KernelNames(backend) ==
  IF backend = "directkv" THEN {"directkv_fwd", "directkv_init_tma", "directkv_fwd_graph"}
  ELSE {"smpv2_fwd", "smpv2_init_tma", "smpv2_fwd_graph"}

FactoryRaises(args) ==
  \/ ~args.disableRadixCache
  \/ args.backend = "directkv" /\ ~args.disableCudaGraph
  \/ args.mla

CheckArgsRaises(args) ==
  ~args.disableRadixCache \/ args.headDim # 128 \/ args.dtype # "bfloat16"

\* sglang_ext comes first, if it is installed and has all the names.
KernelFound(args) ==
  KernelNames(args.backend) \subseteq args.ext \/ KernelNames(args.backend) \subseteq Exports

CreateBackend(reg, args) ==
  CASE args.backend \notin reg.backends /\ ~reg.modelRunner -> "unknown"
    [] (args.backend \in reg.backends \/ reg.modelRunner)
         /\ (FactoryRaises(args) \/ CheckArgsRaises(args)) -> "ValueError"
    [] (args.backend \in reg.backends \/ reg.modelRunner)
         /\ ~FactoryRaises(args) /\ ~CheckArgsRaises(args) ->
         IF KernelFound(args) THEN "created" ELSE "ImportError"

UseKernel(args) == args.numQHeads % args.numKvHeads = 0

--------------------------------------------------------------------------------
(* The pools                                                               *)

KernelTile == 64
Less(a, b) == IF a < b THEN a ELSE b
Pad64(n)   == ((n + KernelTile - 1) \div KernelTile) * KernelTile

\* _ensure_pool: the shape of the DirectKVRequestPool
EnsurePool(runner) ==
  [rows |-> Less(runner.reqPool.size, 64),
   seq  |-> Pad64(Less(runner.reqPool.width, runner.contextLen))]

NoPool == [size |-> 0, width |-> 0]

\* _init_directkv_pools, instead of SGLang's own _init_pools
InitDirectKVPools(runner) ==
  [runner EXCEPT
     !.reqPool   = IF @ = NoPool
                   THEN [size |-> runner.maxRequests, width |-> runner.contextLen + 4] ELSE @,
     !.kvPool    = "pinned",
     !.allocator = IF runner.hasAllocator THEN "pinned" ELSE @]

\* _replace_pool_with_directkv, after SGLang's own init_memory_pool
ReplacePool(runner) == [runner EXCEPT !.kvPool = "pinned", !.allocator = "pinned"]

\* What SGLang does without the patch
OrigPools(runner) ==
  [runner EXCEPT !.reqPool = [size |-> runner.maxRequests, width |-> runner.contextLen + 4],
                 !.kvPool = "gpu", !.allocator = "gpu"]

InitPools(reg, backend, runner) ==
  CASE backend \in Backends /\ reg.initPools -> InitDirectKVPools(runner)
    [] backend \in Backends /\ ~reg.initPools /\ reg.modelRunner -> ReplacePool(OrigPools(runner))
    [] OTHER -> OrigPools(runner)

--------------------------------------------------------------------------------
(* What the hooks take from the model                                      *)

\* Rows of the fused qkv weight: head h, dimension d of k and of v
KRow(args, h, d) == args.numQHeads * args.headDim + h * args.headDim + d
VRow(args, h, d) == args.numQHeads * args.headDim + args.numKvHeads * args.headDim
                    + h * args.headDim + d
QkvRows(args)    == (args.numQHeads + 2 * args.numKvHeads) * args.headDim

\* _extract_weights
ExtractWeights(module) ==
  CASE module.qkv -> "fused" [] ~module.qkv /\ module.kv -> "separate" [] OTHER -> "none"

NoRotary == [cache |-> 0, pairs |-> <<0, 0, 0>>, invFreq |-> FALSE]

\* _extract_cos_sin: widths of the tables found, 0 where there is none
ExtractCosSin(rotary, D) ==
  CASE rotary.cache = D -> "cache"
    [] rotary.cache # D /\ \E i \in 1 .. 3 : rotary.pairs[i] \in {D \div 2, D} -> "pair"
    [] rotary.cache # D /\ (\A i \in 1 .. 3 : rotary.pairs[i] \notin {D \div 2, D}) ->
         IF rotary.invFreq THEN "computed" ELSE "none"

\* Every layer whose weights are found is hooked; the table is the first found.
SetupHooks(modules, D) ==
  FoldLeft(LAMBDA st, mod :
             IF mod.layer < 0 \/ ExtractWeights(mod) = "none" THEN st
             ELSE [hooked |-> st.hooked \union {mod.layer},
                   cosSin |-> IF st.cosSin = "none" THEN ExtractCosSin(mod.rotary, D)
                              ELSE st.cosSin],
           [hooked |-> {}, cosSin |-> "none"], modules)

--------------------------------------------------------------------------------
(* The loader.  `proc` is the process: the cached extension and             *)
(* TORCH_CUDA_ARCH_LIST; `env` is the file system and what nvcc will say.   *)

FindCutlassInclude(env) ==
  CASE env.userPath = "dir" -> "user"
    [] env.userPath = "missing" -> "raises"
    [] env.userPath = "unset" -> IF env.defaultPath THEN "default" ELSE "none"

Loadable(env) ==
  /\ FindCutlassInclude(env) \in {"user", "default"}
  /\ env.kernelSrc /\ env.extSource

\* _load_extension, for the older kernel
LoadExtension(proc, env) ==
  IF proc.ext # "built" /\ Loadable(env) /\ env.compiles THEN [proc EXCEPT !.ext = "built"] ELSE proc

\* The build sees sm_90a only; the variable is put back whatever happens.
SetArch(proc) == [proc EXCEPT !.arch = "9.0a"]
Build(proc, env) ==
  IF env.compiles THEN [proc EXCEPT !.ext = "built", !.for = proc.arch] ELSE proc
RestoreArch(proc, old) == [proc EXCEPT !.arch = old]

\* _load_smpv2_extension: lru_cache keeps a result, never an exception.
LoadSmpV2Extension(proc, env) ==
  IF proc.ext = "built" \/ ~Loadable(env) THEN proc
  ELSE RestoreArch(Build(SetArch(proc), env), proc.arch)

\* smpv2_fwd, smpv2_init_tma and smpv2_fwd_graph load the extension when one of
\* them is first called, long after the backend was created.
CallKernel(proc, env) ==
  LET after == LoadSmpV2Extension(proc, env) IN [proc |-> after, raises |-> after.ext # "built"]
===============================================================================
