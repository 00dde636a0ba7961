-------------------------- MODULE SeriesCatalogue --------------------------
(***************************************************************************)
(* What the series registry promises its callers: a name is registered      *)
(* once, under an id and a grid that never change and an id no other name   *)
(* has had; and every point stored lies on the grid of a registered series. *)
(***************************************************************************)
CONSTANTS Names, Ids, Intervals, Absent, Grid(_)

VARIABLES entry, stored

Init == entry = [n \in Names |-> Absent] /\ stored = {}

\* Names enter the catalogue; what was there stays.
Extend ==
    /\ entry' \in [Names -> [id : Ids, interval : Intervals] \cup {Absent}]
    /\ \A n \in Names : entry[n] # Absent => entry'[n] = entry[n]
    /\ \A m, n \in Names : m # n /\ entry'[m] # Absent /\ entry'[n] # Absent =>
          entry'[m].id # entry'[n].id

\* Points are <<series id, target time>> pairs.
Add ==
    /\ stored \subseteq stored'
    /\ \A p \in stored' : \E n \in Names :
          entry'[n] # Absent /\ entry'[n].id = p[1] /\ p[2] \in Grid(entry'[n].interval)

Spec == Init /\ [][Extend /\ Add]_<<entry, stored>>
=============================================================================
