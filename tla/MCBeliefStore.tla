--------------------------- MODULE MCBeliefStore ---------------------------
(* Instances of BeliefStore for TLC. *)
EXTENDS BeliefStore, TLC

CONSTANTS t1, t2, t3, v1, v2

Pt(target, claim, value) == [target |-> target, claim |-> claim, value |-> value]

\* Telemetry: both values for a target, two targets in both orders, a point off the
\* grid (t3).
TelemetryBatches ==
    {<<Pt(t1, None, v1)>>, <<Pt(t1, None, v2)>>, <<Pt(t3, None, v1)>>,
     <<Pt(t1, None, v1), Pt(t2, None, v1)>>, <<Pt(t2, None, v1), Pt(t1, None, v1)>>}

\* Every table with revisions: no point at all, one point, a target named twice
\* (a retcon, or a refused forecast), two targets with a stated knowledge time.
LogBatches ==
    {<<>>, <<Pt(t1, None, v1)>>, <<Pt(t1, None, v1), Pt(t1, None, v2)>>,
     <<Pt(t2, 0, v1), Pt(t1, 0, v2)>>}

\* One table of each behaviour is written to: no property relates the rows of two.
OneTable ==
    Cardinality({r.table : r \in rows \cup UNION {txn[b].rows : b \in Blocks}}
                \cup {client[b].call.table : b \in {x \in Blocks : client[x].call # None}}
                \cup {x.key[1] : x \in UNION {client[b].told : b \in Blocks}}) <= 1

Symmetry == Permutations(Blocks) \cup Permutations(RunIds)
=============================================================================
