----------------------------- MODULE MCFlexGen -----------------------------
(* Instances of FlexGen for TLC: the loops, each with some of the policies.  *)
EXTENDS FlexGen, FlexGenTensors

Base == [dist |-> FALSE, overlap |-> TRUE, loop |-> "single", sep |-> TRUE, weights |-> "disk",
         cache |-> "cpu", compute |-> "gpu", gen |-> 3, K |-> 1, T |-> 1, R |-> 1, stages |-> 1,
         async |-> FALSE, cut |-> FALSE, stop |-> FALSE]
Places == {<<"gpu", "gpu">>, <<"cpu", "gpu">>, <<"disk", "gpu">>,
           <<"gpu", "cpu">>, <<"cpu", "cpu">>, <<"disk", "cpu">>}
On(set) ==
    {[x EXCEPT !.cache = p[1], !.compute = p[2]] : x \in set, p \in Places}

Single == On({[Base EXCEPT !.sep = sep, !.weights = w] : sep \in BOOLEAN, w \in {"gpu", "disk"}})
              \union {[Base EXCEPT !.stop = TRUE], [Base EXCEPT !.cut = TRUE],
                      [Base EXCEPT !.weights = "cpu", !.loop = "debug_single"]}
MultiLoop == On({[Base EXCEPT !.loop = "multi", !.K = 2, !.sep = FALSE]})
              \union {[Base EXCEPT !.loop = "multi", !.K = 2, !.weights = w] : w \in {"gpu", "cpu"}}
              \union {[Base EXCEPT !.loop = "multi", !.K = 2, !.cut = TRUE],
                      [Base EXCEPT !.loop = "debug_multi", !.K = 2, !.cache = "disk"]}
Normal == {[Base EXCEPT !.overlap = FALSE, !.loop = "normal", !.K = 2, !.sep = sep,
                        !.weights = w, !.cache = "gpu"] : sep \in BOOLEAN, w \in {"gpu", "cpu"}}
              \union {[Base EXCEPT !.loop = "debug_normal", !.K = 2, !.cache = "disk"]}
DistBase == [Base EXCEPT !.dist = TRUE, !.stages = 2, !.T = 2, !.gen = 2]
Dist == {[DistBase EXCEPT !.loop = "normal", !.K = 2, !.cache = "disk"],
         [DistBase EXCEPT !.R = 2, !.async = TRUE, !.weights = "gpu"],
         [DistBase EXCEPT !.sep = FALSE, !.compute = "cpu", !.gen = 3],
         [DistBase EXCEPT !.loop = "multi", !.K = 2, !.weights = "gpu"]}
MCConfigs == Single \union MultiLoop \union Normal \union Dist
MCOneWorkspace == {[Base EXCEPT !.loop = "multi", !.K = 2, !.compute = "cpu"]}

-----------------------------------------------------------------------------
(* What one layer's cache holds, by evaluation.                              *)

Percents == {[gpu |-> g, cpu |-> m, disk |-> 100 - g - m] : g \in {0, 20, 50, 100}, m \in {0, 30}}
              \union {[gpu |-> 0, cpu |-> 100, disk |-> 0], [gpu |-> 50, cpu |-> 50, disk |-> 0]}
Policies == {[prompt |-> 2, gen |-> 3, batch |-> b, heads |-> h, percent |-> p, cpuCompute |-> w] :
                b \in {1, 3}, h \in {1, 2}, p \in {q \in Percents : q.disk >= 0}, w \in BOOLEAN}

(* However the columns are split over the devices, and whichever way the     *)
(* cache is loaded, attention sees every position of every head.             *)
ASSUME CacheComplete ==
    \A p \in Policies : \A i \in 1 .. p.gen - 1 : SeesEveryPosition(p, i)

(* A compressed weight survives its two copies, whole groups or not.         *)
ASSUME CompressionKeeps ==
    \A rows \in 1 .. 9, g \in {2, 4} :
        ReadsBack([r \in 0 .. rows - 1 |-> <<"w", r, 0>>], rows, g)

(* No policy sends a weight to a device with a share of nothing, and with    *)
(* half the bytes on the CPU the first half of equal weights goes there.     *)
ASSUME WeightsSplit ==
    LET equal == [i \in 1 .. 4 |-> 2] IN
    /\ \A p \in {q \in Percents : q.disk >= 0}, i \in 1 .. 4 :
          p[WeightHome(equal, p, i)] > 0
    /\ \A i \in 1 .. 4 : WeightHome(equal, [gpu |-> 50, cpu |-> 50, disk |-> 0], i) =
                             IF i <= 2 THEN "cpu" ELSE "gpu"
=============================================================================
