--------------------------- MODULE MCEvaluations ---------------------------
(* Instances of Evaluations for TLC. *)
EXTENDS Evaluations

CONSTANTS w1, w2, k1, k2

\* Two reports name their metrics in different orders (of subsets and windows); the
\* first night has no metric for one of the windows.
NightlyOrders == {<<k1>>, <<k1, k2>>, <<k2, k1>>}
=============================================================================
