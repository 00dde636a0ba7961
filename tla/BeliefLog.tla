----------------------------- MODULE BeliefLog -----------------------------
(***************************************************************************)
(* What the store promises of its points tables and runs: a log of         *)
(* beliefs.  It only grows, by whole units of work that carry one          *)
(* recorded_at; no two rows have the same coordinates under their table's  *)
(* primary key; and the points of a forecast arrive with their run row and *)
(* share its knowledge time.                                               *)
(***************************************************************************)
CONSTANTS SingleBelief, Logs

VARIABLES rows, runs

Init == rows = {} /\ runs = {}

\* Two rows state the same belief coordinates.
Collide(x, y) ==
    /\ x.table = y.table
    /\ x.target = y.target
    /\ \/ x.table \in SingleBelief
       \/ x.table \in Logs /\ x.run = y.run
       \/ x.table \notin SingleBelief \cup Logs /\ x.available = y.available

\* A unit of work commits.
Commit ==
    /\ rows \subseteq rows' /\ runs \subseteq runs'
    /\ \A x, y \in (rows' \ rows) \cup (runs' \ runs) : x.recorded = y.recorded
    /\ \A x, y \in rows' : Collide(x, y) => x = y
    /\ \A u, v \in runs' : u.id = v.id => u = v
    /\ \A r \in rows' \ rows : r.table \in Logs =>
          \E u \in runs' \ runs : u.id = r.run /\ u.available = r.available

Spec == Init /\ [][Commit]_<<rows, runs>>
=============================================================================
