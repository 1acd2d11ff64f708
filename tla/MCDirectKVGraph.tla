---------------------------- MODULE MCDirectKVGraph ----------------------------
(* The ids but the first are interchangeable, the rows are not.             *)
EXTENDS DirectKVGraph, TLC

Symmetry == Permutations(Rids \ {FirstId})
================================================================================
