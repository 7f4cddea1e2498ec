------------------------------ MODULE MCAnalysis ------------------------------
(* Model values for Analysis. *)
EXTENDS Analysis, TLC

CONSTANTS a1, a2, pkg, sub, t1, t2, race1

TwoAnalyses == {a1, a2}
TwoPackages == {pkg, sub}
TwoNames    == {t1, t2}
OneRace     == {race1}

(* Nothing tells analyses, or names, from one another. *)
Alike == Permutations(TwoAnalyses) \cup Permutations(TwoNames)
==============================================================================
