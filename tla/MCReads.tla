------------------------------ MODULE MCReads ------------------------------
(* Instances of Reads for TLC. *)
EXTENDS Reads, TLC

\* A point, a belief that says nothing, a window with a hole in it.
Feed == {0 :> 1, 2 :> Null, (0 :> 2) @@ (4 :> 1)}
\* The whole log, windows that begin on the grid and off it, one inside a bucket.
Asked == {<<0, 5>>, <<2, 5>>, <<1, 4>>, <<3, 4>>}

Symmetry == Permutations(Jobs)
=============================================================================
