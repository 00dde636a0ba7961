-------------------------- MODULE MCSeriesRegistry --------------------------
(* Instances of SeriesRegistry for TLC. *)
EXTENDS SeriesRegistry, TLC

CONSTANTS quarter, hour, t

\* t is a quarter past the hour.
GridOf(iv) == IF iv = hour THEN {} ELSE {t}

Symmetry == Permutations(Blocks) \cup Permutations(Names)
=============================================================================
