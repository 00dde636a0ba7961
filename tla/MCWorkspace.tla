---------------------------- MODULE MCWorkspace ----------------------------
(* Instances of Workspace for TLC. *)
EXTENDS Workspace, TLC

CONSTANTS w1, w2, l1, l2, A, B

\* l1 is saved by two runs of the same benchmark at once, and from w1 through a
\* second forecast table as well; l2 has one saver.
Crowd == (w1 :> {<<l1, A>>, <<l1, B>>, <<l2, A>>}) @@ (w2 :> {<<l1, A>>})

\* A backtest without predictions, with one event and with two.
Growing == {{}, {1}, {1, 2}}
=============================================================================
