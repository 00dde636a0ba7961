----------------------------- MODULE LabelStore -----------------------------
(***************************************************************************)
(* What a benchmark storage promises of its backtest artifacts: a label is  *)
(* overwritten wholesale.  catalogue[l] is what the runs table lists under  *)
(* label l (has_backtest_output probes it), content[l] every artifact that  *)
(* exists because of l, whether a load can still reach it or not.           *)
(***************************************************************************)
CONSTANTS Labels, Outputs, Saves

VARIABLES catalogue, content

Init == /\ catalogue = [l \in Labels |-> {}]
        /\ content = [l \in Labels |-> {}]

\* One save replaces everything of its label, listed and stored alike.
Replace(l, save, output) ==
    /\ catalogue' = [catalogue EXCEPT ![l] = {save} \X output]
    /\ content' = [content EXCEPT ![l] = {save} \X output]

Next == \E l \in Labels, save \in Saves, output \in Outputs : Replace(l, save, output)

Spec == Init /\ [][Next]_<<catalogue, content>>
=============================================================================
