----------------------------- MODULE NeoProfiler -----------------------------
(***************************************************************************)
(* The performance tables Neo's scheduler decides by: ModelProfiler        *)
(* measures them when the server starts and keeps them as JSON files in    *)
(* profile_result_path, TablePerfPredictor interpolates between samples.   *)
(* Files outlive the server: it may stop at any moment, also in the middle *)
(* of a json.dump, and start again with another configuration.             *)
(*                                                                         *)
(* Sequences count from 1, so index j here is index j - 1 of the code.     *)
(* Times are rationals [n, d]; a cell that profiling has not filled holds  *)
(* Low (0.0) or High (float("inf")).                                       *)
(***************************************************************************)
EXTENDS Integers, Sequences, SequencesExt, FiniteSetsExt

CONSTANTS
  Configs,    \* configurations the server may be started with
  Memory,     \* usable GPU memory, in blocks
  Peaks,      \* what may be in use already when it is measured, in blocks
  DenseBits,  \* linr_S_list has every width below 2 ^ DenseBits (512)
  LinrTime(_), PrefTime(_), GdecTime(_), CdecTime(_, _),  \* the hardware
  MaxStops    \* bound: how often the server stops

VARIABLES
  config,  \* engine_config
  numGpu,  \* engine_config.num_gpu_blocks
  phase,   \* "down", "failed", "serving" or what init_profile_tables is doing
  disk,    \* the JSON files
  pp,      \* the tables the predictor was given
  stops    \* bounds Stop
vars == <<config, numGpu, phase, disk, pp, stops>>

Kinds == <<"linr", "pref", "gdec", "cdec">>
None == [has |-> "nothing"]
Torn == [has |-> "half"]
Low  == [n |-> 0, d |-> 1]
High == [n |-> 1, d |-> 0]
NaN  == [n |-> 0, d |-> 0]

MaxSeqLen(c)    == c.block * c.blocksPerSeq
MaxCpuTokens(c) == c.block * c.cpuBlocks

--------------------------------------------------------------------------------
(* TablePerfPredictor.__init__: where the samples are                      *)

\* int.bit_length
BitLength(n) == CHOOSE k \in 0 .. n : 2 ^ k > n /\ (k > 0 => 2 ^ (k - 1) <= n)

\* 2 ** i for i in range(from, to)
Powers(from, to) == [i \in 1 .. Max({0, to - from}) |-> 2 ^ (from + i - 1)]

\* 3/4 of each power of two and the power itself, from the block size on.
Pairs(block, most) ==
  LET from == BitLength(block - 1) IN
  [i \in 1 .. 2 * (BitLength(most - 1) - from) |->
     IF i % 2 = 1 THEN 3 * 2 ^ (from + i \div 2 - 2) ELSE 2 ^ (from + i \div 2 - 1)]
  \o <<most>>

LinrList(c) ==
  [i \in 1 .. 2 ^ DenseBits - 1 |-> i]
  \o Powers(DenseBits, BitLength(c.tokens - 1)) \o <<c.tokens>>
PrefList(c)  == Pairs(c.block, c.tokens)
GdecList(c)  == Pairs(c.block, c.block * numGpu)
CdecSList(c) == Powers(0, BitLength(c.batch - 1)) \o <<c.batch>>

\* N goes from one block a sequence to what fits a sequence and the CPU.
CdecNList(c, S) ==
  LET least == S * c.block
      most  == Min({S * MaxSeqLen(c), MaxCpuTokens(c)}) IN
  <<least>> \o Powers(BitLength(least), BitLength(most - 1)) \o <<most>>

CdecNLists(c) == [i \in DOMAIN CdecSList(c) |-> CdecNList(c, CdecSList(c)[i])]
Aggregate(lists) ==
  SetToSortSeq(UNION {Range(lists[i]) : i \in DOMAIN lists}, LAMBDA a, b : a < b)

--------------------------------------------------------------------------------
(* Look-up and interpolation                                               *)

Repeat(v, times) == [i \in 1 .. times |-> v]

\* _get_lb_idx_list: element x + 1 is the index for x.
LbIdxList(xs) ==
  FoldLeft(LAMBDA lb, i : lb \o Repeat(i + 1, xs[i + 1] - xs[i]), Repeat(1, xs[1] + 1),
           [i \in 1 .. Len(xs) - 1 |-> i])

Whole(n) == [n |-> n, d |-> 1]
SameTime(s, t) == s.n * t.d = t.n * s.d

\* y0 + (y1 - y0) * (x - x0) / (x1 - x0)
Interp(x, x0, x1, y0, y1) ==
  [n |-> y0.n * y1.d * (x1 - x) + y1.n * y0.d * (x - x0),
   d |-> y0.d * y1.d * (x1 - x0)]

\* _interp_1d, with the look-up list of its caller
Interp1d(x, xs, ys, lb) ==
  IF x = 0 THEN Whole(0)
  ELSE LET j == lb[x + 1] IN
       IF j = 1 \/ x = xs[j] THEN ys[j]
       ELSE Interp(x, xs[j - 1], xs[j], ys[j - 1], ys[j])

\* The look-up lists are those of the constructor whatever table was loaded.
GetLinr(S) == Interp1d(S, pp.linr.S, pp.linr.T, LbIdxList(LinrList(config)))
GetPref(S) == Interp1d(S, pp.pref.S, pp.pref.T, LbIdxList(PrefList(config)))
GetGdec(N) == Interp1d(N, pp.gdec.N, pp.gdec.T, LbIdxList(GdecList(config)))
GetCdec(S, N) ==
  LET agg  == Aggregate(CdecNLists(config))
      i    == LbIdxList(CdecSList(config))[S + 1]
      T(k) == Interp1d(N, agg, pp.cdec.T[k], LbIdxList(agg)) IN
  IF S = 0 THEN Whole(0)
  ELSE IF i = 1 \/ S = pp.cdec.S[i] THEN T(i)
  ELSE Interp(S, pp.cdec.S[i - 1], pp.cdec.S[i], T(i - 1), T(i))

--------------------------------------------------------------------------------
(* The test cases: lengths of the prefills and of the decodes on GPU and   *)
(* CPU that one call of _run_test_case puts in a batch                     *)

Case(prefs, gdecs, cdecs) == [pref |-> prefs, gdec |-> gdecs, cdec |-> cdecs]


\* [L] * ((N - 1) // L) + [(N - 1) % L + 1]
GdecLens(c, N) ==
  LET L == MaxSeqLen(c) IN Repeat(L, (N - 1) \div L) \o <<((N - 1) % L) + 1>>

\* N tokens in S sequences of whole blocks, as even as possible
CdecLens(c, S, N) ==
  LET NB == N \div c.block IN
  Repeat((NB \div S) * c.block, S - (NB % S)) \o Repeat((NB \div S + 1) * c.block, NB % S)

\* The cells of row i of the table _profile_cdec measures.
Sampled(c, i) ==
  LET Ns == CdecNList(c, CdecSList(c)[i]) IN
  {N \in Range(Aggregate(CdecNLists(c))) : Ns[1] <= N /\ N <= Last(Ns)}

TestCases(c, kind) ==
  CASE kind = "linr" -> {Case(<<S>>, <<>>, <<>>) : S \in Range(LinrList(c))}
    [] kind = "pref" -> {Case(<<S>>, <<>>, <<>>) : S \in Range(PrefList(c))}
    [] kind = "gdec" -> {Case(<<>>, GdecLens(c, N), <<>>) : N \in Range(GdecList(c))}
    [] kind = "cdec" -> UNION {{Case(<<>>, <<>>, CdecLens(c, CdecSList(c)[i], N)) :
                                 N \in Sampled(c, i)} : i \in DOMAIN CdecSList(c)}

--------------------------------------------------------------------------------
(* The tables                                                              *)

\* A sum with an infinite or undefined term is never the time of anything.
Extrapolate(a, b, c) ==
  IF a.d = 1 /\ b.d = 1 /\ c.d = 1 THEN Whole(a.n + b.n - c.n)
  ELSE IF c.d = 1 /\ NaN \notin {a, b} THEN High ELSE NaN

CdecCell(c, i, N) ==
  LET Ns == CdecNList(c, CdecSList(c)[i]) IN
  IF N < Ns[1] THEN Low ELSE IF N > Last(Ns) THEN High
  ELSE Whole(CdecTime(CdecSList(c)[i], N))

\* Right to left, a row's low cells from the row before it.
FillLowRow(row, before) ==
  LET cell[j \in DOMAIN row] ==
        IF row[j] = Low THEN Extrapolate(before[j], cell[j + 1], before[j + 1])
        ELSE row[j]
  IN  [j \in DOMAIN row |-> cell[j]]

FillHighRowFlat(row, after) ==
  LET cell[j \in DOMAIN row] == IF row[j] = High THEN cell[j - 1] ELSE row[j]
  IN  [j \in DOMAIN row |-> cell[j]]

\* Left to right, a row's high cells from the row after it.
FillHighRow(row, after) ==
  LET cell[j \in DOMAIN row] ==
        IF row[j] = High THEN Extrapolate(after[j], cell[j - 1], after[j - 1])
        ELSE row[j]
  IN  [j \in DOMAIN row |-> cell[j]]

CdecMeasured(c) ==
  LET agg == Aggregate(CdecNLists(c)) IN
  [i \in DOMAIN CdecSList(c) |-> [j \in DOMAIN agg |-> CdecCell(c, i, agg[j])]]

LowFilled(rows) ==
  LET filled[i \in DOMAIN rows] ==
        IF i = 1 THEN rows[1] ELSE FillLowRow(rows[i], filled[i - 1])
  IN  [i \in DOMAIN rows |-> filled[i]]

\* assert i < nS - 1 and j > 0
HighRaises(rows) ==
  \/ High \in Range(Last(rows))
  \/ \E i \in DOMAIN rows : rows[i][1] = High

HighFilled(rows) ==
  LET filled[i \in DOMAIN rows] ==
        IF i = Len(rows) THEN rows[i] ELSE FillHighRow(rows[i], filled[i + 1])
  IN  [i \in DOMAIN rows |-> filled[i]]

Measured(c, kind) ==
  CASE kind = "linr" -> [has |-> "table", S |-> LinrList(c),
                         T |-> [i \in DOMAIN LinrList(c) |-> Whole(LinrTime(LinrList(c)[i]))]]
    [] kind = "pref" -> [has |-> "table", S |-> PrefList(c),
                         T |-> [i \in DOMAIN PrefList(c) |-> Whole(PrefTime(PrefList(c)[i]))]]
    [] kind = "gdec" -> [has |-> "table", N |-> GdecList(c),
                         T |-> [i \in DOMAIN GdecList(c) |-> Whole(GdecTime(GdecList(c)[i]))]]
    [] kind = "cdec" -> [has |-> "table", S |-> CdecSList(c), N |-> CdecNLists(c),
                         T |-> HighFilled(LowFilled(CdecMeasured(c)))]

CachedAlways(kind, c, table) == TRUE

\* A file is used as it is when its lists reach as far as those asked for.
Cached(kind, c, table) ==
  CASE kind = "linr" -> Last(table.S) >= Last(LinrList(c))
    [] kind = "pref" -> Last(table.S) >= Last(PrefList(c))
    [] kind = "gdec" -> Last(table.N) >= Last(GdecList(c))
    [] kind = "cdec" -> /\ Last(table.S) >= Last(CdecSList(c))
                        /\ Last(Last(table.N)) >= Last(Last(CdecNLists(c)))

--------------------------------------------------------------------------------
(* The life of the server                                                  *)

Init ==
  /\ config \in Configs /\ numGpu = 0
  /\ phase = "down"
  /\ disk = [k \in Range(Kinds) |-> None]
  /\ pp = [k \in Range(Kinds) |-> None]
  /\ stops = 0

\* profile_num_blocks: the blocks left beside the peak of a forged prefill.
NumGpuBlocks(peak) == Memory - peak

StartRaisesAtEqual(c, n) == n < 0 \/ n * c.block <= c.tokens

\* useable_memory < peak_memory, or not enough blocks for one full batch
StartRaises(c, n) == n < 0 \/ n * c.block < c.tokens

\* Engine.initialize and the start of init_profile_tables
Start(c, peak) ==
  /\ phase = "down"
  /\ config' = c /\ numGpu' = NumGpuBlocks(peak)
  /\ phase' = IF StartRaises(c, NumGpuBlocks(peak)) THEN "failed" ELSE "linr"
  /\ pp' = [k \in Range(Kinds) |-> None]
  /\ UNCHANGED <<disk, stops>>

After(kind) ==
  IF kind = "cdec" THEN "serving"
  ELSE Kinds[1 + CHOOSE i \in 1 .. 3 : Kinds[i] = kind]

Load(kind) ==
  /\ phase = kind /\ disk[kind].has = "table" /\ Cached(kind, config, disk[kind])
  /\ pp' = [pp EXCEPT ![kind] = disk[kind]]
  /\ phase' = After(kind)
  /\ UNCHANGED <<config, numGpu, disk, stops>>

\* json.load of half a file
LoadRaises(kind) ==
  /\ phase = kind /\ disk[kind] = Torn
  /\ phase' = "failed"
  /\ UNCHANGED <<config, numGpu, disk, pp, stops>>

ToMeasure(kind) ==
  \/ disk[kind] = None
  \/ disk[kind].has = "table" /\ ~Cached(kind, config, disk[kind])

\* Every test case has run and open(result_path, "w") has emptied the file.
Measure(kind) ==
  /\ phase = kind
  /\ ToMeasure(kind)
  /\ kind = "cdec" => ~HighRaises(LowFilled(CdecMeasured(config)))
  /\ pp' = [pp EXCEPT ![kind] = Measured(config, kind)]
  /\ disk' = [disk EXCEPT ![kind] = Torn]
  /\ phase' = "dump"
  /\ UNCHANGED <<config, numGpu, stops>>

\* An assertion of the second filling loop, before the file is opened
MeasureRaises ==
  /\ phase = "cdec"
  /\ ToMeasure("cdec")
  /\ HighRaises(LowFilled(CdecMeasured(config)))
  /\ phase' = "failed"
  /\ UNCHANGED <<config, numGpu, disk, pp, stops>>

\* json.dump returns and so does the method.
Dump(kind) ==
  /\ phase = "dump" /\ disk[kind] = Torn /\ pp[kind] # None
  /\ disk' = [disk EXCEPT ![kind] = pp[kind]]
  /\ phase' = After(kind)
  /\ UNCHANGED <<config, numGpu, pp, stops>>

\* The process ends, by itself after a failure or killed at any moment.
Stop ==
  /\ phase # "down" /\ stops < MaxStops
  /\ phase' = "down" /\ stops' = stops + 1
  /\ UNCHANGED <<config, numGpu, disk, pp>>

\* The operator deletes the file a start failed on.
Delete(kind) ==
  /\ phase = "down" /\ disk[kind] = Torn
  /\ disk' = [disk EXCEPT ![kind] = None]
  /\ UNCHANGED <<config, numGpu, phase, pp, stops>>

Next ==
  \/ \E c \in Configs, peak \in Peaks : Start(c, peak)
  \/ \E kind \in Range(Kinds) : Load(kind) \/ LoadRaises(kind) \/ Measure(kind) \/ Dump(kind)
                                \/ Delete(kind)
  \/ MeasureRaises
  \/ Stop

Spec == Init /\ [][Next]_vars

--------------------------------------------------------------------------------
(* Properties                                                              *)

\* The predictor's samples are those its look-up lists were made for.
OwnTables ==
  /\ pp.linr.S = LinrList(config) /\ pp.pref.S = PrefList(config)
  /\ pp.gdec.N = GdecList(config)
  /\ pp.cdec.S = CdecSList(config) /\ pp.cdec.N = CdecNLists(config)

\* Below the first sample the code answers with the first sample.
AtLeastFirst(x, xs) == Max({x, xs[1]})

(* Where the hardware's times are linear, interpolation and extrapolation   *)
(* must reproduce them: every prediction of a server that uses the samples  *)
(* it asked for is the time the hardware takes, for every width, every      *)
(* number of tokens and every CPU batch, measured or filled in.             *)
PredictionsExact ==
  (phase = "serving" /\ OwnTables) =>
    /\ \A S \in 1 .. config.tokens :
         /\ SameTime(GetLinr(S), Whole(LinrTime(S)))
         /\ SameTime(GetPref(S), Whole(PrefTime(AtLeastFirst(S, PrefList(config)))))
    /\ \A N \in 1 .. config.block * numGpu :
         SameTime(GetGdec(N), Whole(GdecTime(AtLeastFirst(N, GdecList(config)))))
    /\ \A S \in 1 .. config.batch, N \in 1 .. Last(Aggregate(CdecNLists(config))) :
         SameTime(GetCdec(S, N), Whole(CdecTime(S, AtLeastFirst(N, <<config.block>>))))

(* _get_lb_idx_list: "Given i, find the smallest j s.t. input_list[j] >= i."*)
(* For the table of widths that stays true when a longer file of another    *)
(* configuration was loaded: its powers of two are those of the list the    *)
(* index was made for.                                                      *)
LinrIndexRight ==
  phase = "serving" =>
    \A S \in 1 .. config.tokens :
      LET j == LbIdxList(LinrList(config))[S + 1] IN
      /\ j \in DOMAIN pp.linr.S /\ S <= pp.linr.S[j]
      /\ j > 1 => pp.linr.S[j - 1] < S

Cdiv(a, b) == (a + b - 1) \div b
BlocksFor(c, lens) == FoldLeft(LAMBDA s, l : s + Cdiv(l, c.block), 0, lens)


(* The server comes up unless the GPU is too full for one batch, a file was *)
(* torn by a kill, or the CPU cannot give each sequence of a full batch a   *)
(* block: none of the profiler's own assertions fails otherwise.            *)
StartFailsOnlyWhen ==
  phase = "failed" =>
    \/ numGpu * config.block < config.tokens
    \/ \E k \in Range(Kinds) : disk[k] = Torn
    \/ config.cpuBlocks < config.batch
===============================================================================
