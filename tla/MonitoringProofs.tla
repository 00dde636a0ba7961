-------------------------- MODULE MonitoringProofs --------------------------
(***************************************************************************)
(* Proofs about Monitoring: when transactions are shorter than MaxOpen,     *)
(* sweeps no further apart than Period and the window is longer than both   *)
(* together, data_quality_sweep misses no defect, for any number of tables, *)
(* series and rows.                                                         *)
(***************************************************************************)
EXTENDS Monitoring, TLAPS

\* A row of the open transaction.
OpenRow == [table : Tables, id : Ids, target : Targets, observed : Offsets]

\* Rows are in tables that exist; only tables that declare it observe a time.
Placed(r) == r.table \in present /\ (r.observed # None => r.table \in Observed)

\* The open transaction is not longer than MaxOpen.
Short ==
    /\ open.rows \subseteq OpenRow /\ \A r \in open.rows : Placed(r)
    /\ open = Closed \/ (open.began \in 0..now /\ now <= open.began + MaxOpen)

\* A row was recorded at most MaxOpen before its commit.
Fresh ==
    \A r \in rows : /\ Placed(r) /\ r.recorded <= r.committed /\ r.committed <= now
                    /\ r.committed <= r.recorded + MaxOpen
                    /\ r.joined => Known(r.id)

Types ==
    /\ declared \subseteq Tables /\ present \subseteq declared
    /\ DOMAIN registered \subseteq Ids /\ \A i \in DOMAIN registered : registered[i] \in Intervals
    /\ rows \subseteq Row /\ now \in 0..MaxNow /\ swept \in 0..now

\* The inductive invariant: the next sweep is due before a row leaves its window.
IInv ==
    /\ Types /\ Short /\ Fresh /\ now <= swept + Period
    /\ OrphansAreReported /\ DefectsAreReported

LEMMA Bounds ==
    /\ Window \in Nat /\ Period \in Nat
    /\ MaxOpen \in Nat /\ MaxNow \in Nat
    /\ MaxOpen + Period < Window
  BY MonitoringAssumption

LEMMA Initially == ASSUME Init PROVE IInv
  BY Bounds DEF Init, Closed, IInv, Types, Short, Fresh, OrphansAreReported, DefectsAreReported

\* Of a row that is in time for the next sweep, nothing is claimed yet.
LEMMA Pending ==
    ASSUME IInv, NEW r \in rows PROVE r.committed \in Nat /\ r.recorded \in Nat /\ r.id \in Ids
                                      /\ r.table \in Tables /\ r.observed \in Offsets
  BY DEF IInv, Types, Row

\* The store changes around rows that stay, and no sweep runs.
LEMMA Undisturbed ==
    ASSUME IInv, Types', Short', rows' \subseteq rows,
           \A i \in DOMAIN registered : Known(i)' /\ registered'[i] = registered[i],
           \A r \in rows' : r.table \in present', now' >= now, now' <= swept + Period,
           UNCHANGED <<swept, reported>>
    PROVE  IInv'
<1>1. Fresh'
  <2>1. now \in Nat /\ now' \in Nat
    BY Bounds DEF IInv, Types
  <2>2. \A r \in rows : r.committed \in Nat
    BY Pending
  <2>. QED
    BY <2>1, <2>2 DEF IInv, Fresh, Placed, Known
<1>2. OrphansAreReported'
  BY DEF IInv, OrphansAreReported, Known
<1>3. DefectsAreReported'
  <2>1. \A r \in rows : r.joined => /\ Misplaced(r)' <=> Misplaced(r)
                                    /\ Outside(r)' <=> Outside(r)
    BY DEF IInv, Fresh, Known, Misplaced, Outside
  <2>. QED
    BY <2>1 DEF IInv, DefectsAreReported
<1>. QED
  BY <1>1, <1>2, <1>3 DEF IInv

LEMMA DeclareKeeps == ASSUME IInv, NEW t \in Tables, Declare(t) PROVE IInv'
<1>1. Types' /\ Short'
  BY DEF Declare, IInv, Types, Short, Placed
<1>2. now \in Nat
  BY Bounds DEF IInv, Types
<1>. QED
  BY <1>1, <1>2, Undisturbed DEF Declare, IInv, Fresh, Placed, Known

LEMMA DropKeeps == ASSUME IInv, NEW t \in Tables, Drop(t) PROVE IInv'
<1>1. Types' /\ Short'
  BY DEF Drop, IInv, Types, Short, Closed
<1>2. now \in Nat
  BY Bounds DEF IInv, Types
<1>. QED
  BY <1>1, <1>2, Undisturbed DEF Drop, IInv, Fresh, Placed, Known

LEMMA RegisterKeeps == ASSUME IInv, NEW i \in Ids, NEW iv \in Intervals, Register(i, iv) PROVE IInv'
<1>1. Types' /\ Short'
  BY DEF Register, IInv, Types, Short, Placed
<1>3. \A j \in DOMAIN registered : Known(j)' /\ registered'[j] = registered[j]
  BY DEF Register, Known
<1>2. now \in Nat
  BY Bounds DEF IInv, Types
<1>. QED
  BY <1>1, <1>2, <1>3, Undisturbed DEF Register, IInv, Fresh, Placed

LEMMA InsertKeeps ==
    ASSUME IInv, NEW t \in Tables, NEW i \in Ids, NEW target \in Targets, NEW observed \in Offsets,
           NEW sdk \in BOOLEAN, Insert(t, i, target, observed, sdk)
    PROVE  IInv'
<1>. DEFINE row == [table |-> t, id |-> i, target |-> target, observed |-> observed]
<1>1. now \in Nat /\ UNCHANGED <<declared, present, registered, rows, now, swept, reported>>
  BY Bounds DEF Insert, IInv, Types
<1>2. row \in OpenRow /\ Placed(row)'
  BY DEF OpenRow, Insert, Placed
<1>3. open'.rows = open.rows \cup {row} /\ open'.began = IF open = Closed THEN now ELSE open.began
  BY DEF Insert
<1>. HIDE DEF row
<1>4. Short'
  <2>1. open'.began \in 0..now /\ now <= open'.began + MaxOpen
    BY <1>1, <1>3, Bounds DEF IInv, Short
  <2>. QED
    BY <1>1, <1>2, <1>3, <2>1 DEF IInv, Short, Placed
<1>5. Types'
  BY <1>1 DEF IInv, Types
<1>. QED
  BY <1>1, <1>4, <1>5, Undisturbed DEF IInv, Fresh, Placed, Known

\* A committed row waits for the next sweep: it was committed after the last one.
LEMMA CommitKeeps == ASSUME IInv, Commit PROVE IInv'
<1>. DEFINE Committed(r) ==
       [table |-> r.table, id |-> r.id, target |-> r.target, observed |-> r.observed,
        recorded |-> open.began, committed |-> now, joined |-> Known(r.id)]
<1>1. /\ rows' = rows \cup {Committed(r) : r \in open.rows} /\ open' = Closed
      /\ UNCHANGED <<declared, present, registered, now, swept, reported>>
  BY DEF Commit
<1>2. /\ now \in 0..MaxNow /\ now \in Nat /\ swept \in 0..now /\ open.began \in 0..now
      /\ now <= open.began + MaxOpen /\ open.rows \subseteq OpenRow
      /\ \A r \in open.rows : Placed(r)
  BY Bounds DEF Commit, IInv, Types, Short
<1>3. /\ open.began \in 0..MaxNow /\ open.began <= now /\ now <= now
  BY <1>2, Bounds
<1>4. ASSUME NEW r \in open.rows PROVE Committed(r) \in Row
  BY <1>2, <1>3, <1>4 DEF Row, OpenRow, Known
<1>5. ASSUME NEW c \in {Committed(r) : r \in open.rows}
      PROVE  /\ Placed(c) /\ c.recorded <= c.committed /\ c.committed = now
             /\ c.committed <= c.recorded + MaxOpen /\ (c.joined => Known(c.id))
  <2>1. PICK r \in open.rows : c = Committed(r)
    BY <1>5
  <2>2. /\ c.table = r.table /\ c.observed = r.observed /\ c.recorded = open.began
        /\ c.committed = now /\ c.id = r.id /\ c.joined = Known(r.id)
    BY <2>1
  <2>. QED
    BY <1>2, <1>3, <2>2 DEF Placed
<1>. HIDE DEF Committed
<1>6. Types'
  BY <1>1, <1>4 DEF IInv, Types
<1>7. Short'
  BY <1>1 DEF Short, Closed
<1>8. Fresh'
  <2>1. ASSUME NEW c \in rows' PROVE /\ Placed(c) /\ c.recorded <= c.committed /\ c.committed <= now
                                     /\ c.committed <= c.recorded + MaxOpen
                                     /\ (c.joined => Known(c.id))
    BY <1>1, <1>3, <1>5 DEF IInv, Fresh
  <2>. QED
    BY <1>1, <2>1 DEF Fresh, Placed, Known
<1>9. \A c \in rows' : c.committed < swept => c \in rows
  BY <1>1, <1>2, <1>5
<1>10. OrphansAreReported'
  BY <1>1, <1>9 DEF IInv, OrphansAreReported, Known
<1>11. DefectsAreReported'
  BY <1>1, <1>9 DEF IInv, DefectsAreReported, Misplaced, Outside
<1>. QED
  BY <1>1, <1>6, <1>7, <1>8, <1>10, <1>11 DEF IInv

LEMMA RollbackKeeps == ASSUME IInv, Rollback PROVE IInv'
<1>1. Types' /\ Short'
  BY DEF Rollback, IInv, Types, Short, Closed
<1>2. now \in Nat
  BY Bounds DEF IInv, Types
<1>. QED
  BY <1>1, <1>2, Undisturbed DEF Rollback, IInv, Fresh, Placed, Known

LEMMA TickKeeps == ASSUME IInv, Tick PROVE IInv'
<1>1. /\ now \in Nat /\ swept \in Nat /\ now' = now + 1 /\ now < swept + Period /\ now < MaxNow
      /\ UNCHANGED <<declared, present, registered, rows, open, swept, reported>>
  BY Bounds DEF Tick, IInv, Types
<1>2. Types'
  BY <1>1, Bounds DEF IInv, Types
<1>3. Short'
  <2>1. open = Closed \/ (open.began \in 0..now' /\ now' <= open.began + MaxOpen)
    BY <1>1, Bounds DEF Tick, IInv, Short
  <2>. QED
    BY <1>1, <2>1 DEF IInv, Short, Placed
<1>. QED
  BY <1>1, <1>2, <1>3, Undisturbed, Bounds DEF IInv, Fresh, Placed, Known

\* What was committed since the last sweep is still in the window.
LEMMA InWindow ==
    ASSUME IInv, NEW r \in rows, ~(r.committed < swept) PROVE r \in Scanned
<1>1. /\ r.committed \in Nat /\ r.recorded \in Nat /\ now \in Nat /\ swept \in Nat
      /\ r.committed <= r.recorded + MaxOpen /\ now <= swept + Period
  BY Pending, Bounds DEF IInv, Types, Fresh
<1>2. r.recorded > now - Window
  BY <1>1, Bounds
<1>. QED
  BY <1>2 DEF IInv, Types, Fresh, Placed, Scanned

LEMMA SweepKeeps == ASSUME IInv, Sweep PROVE IInv'
<1>1. /\ reported' = reported \cup Orphans \cup OffGrid \cup OutsideBucket /\ swept' = now
      /\ UNCHANGED <<declared, present, registered, rows, open, now>>
  BY DEF Sweep
<1>2. now \in Nat /\ swept \in 0..now
  BY Bounds DEF IInv, Types
<1>3. OrphansAreReported'
  <2>1. SUFFICES ASSUME NEW r \in rows, ~Known(r.id)
                 PROVE  <<"orphan_series", r.table, r.id>> \in reported'
    BY <1>1 DEF OrphansAreReported, Known
  <2>2. CASE r.committed < swept
    BY <1>1, <2>1, <2>2 DEF IInv, OrphansAreReported
  <2>3. CASE ~(r.committed < swept)
    BY <1>1, <2>1, <2>3, InWindow DEF Orphans
  <2>. QED
    BY <2>2, <2>3
<1>4. DefectsAreReported'
  <2>1. SUFFICES ASSUME NEW r \in rows, r.joined
                 PROVE  /\ Misplaced(r) =>
                              <<"off_grid_target_time", r.table, r.id>> \in reported'
                        /\ Outside(r) =>
                              <<"observed_outside_bucket", r.table, r.id>> \in reported'
    BY <1>1 DEF DefectsAreReported, Misplaced, Outside
  <2>2. CASE r.committed < swept
    BY <1>1, <2>1, <2>2 DEF IInv, DefectsAreReported
  <2>3. CASE ~(r.committed < swept)
    <3>1. r \in Scanned /\ Known(r.id)
      BY <2>1, <2>3, InWindow DEF IInv, Fresh
    <3>2. Misplaced(r) => <<"off_grid_target_time", r.table, r.id>> \in OffGrid
      BY <3>1 DEF OffGrid
    <3>3. Outside(r) => r.table \in Observed
      BY DEF IInv, Fresh, Placed, Outside
    <3>4. Outside(r) => <<"observed_outside_bucket", r.table, r.id>> \in OutsideBucket
      BY <3>1, <3>3 DEF OutsideBucket
    <3>. QED
      BY <1>1, <3>2, <3>4
  <2>. QED
    BY <2>2, <2>3
<1>. QED
  BY <1>1, <1>2, <1>3, <1>4, Bounds DEF IInv, Types, Short, Fresh, Placed, Known

LEMMA Inductive == ASSUME IInv, [Next]_vars PROVE IInv'
<1>1. CASE UNCHANGED vars
  BY <1>1 DEF vars, IInv, Types, Short, Fresh, Placed, OrphansAreReported, DefectsAreReported,
     Known, Misplaced, Outside
<1>. QED
  BY <1>1, DeclareKeeps, DropKeeps, RegisterKeeps, InsertKeeps, CommitKeeps, RollbackKeeps,
     TickKeeps, SweepKeeps DEF Next

LEMMA Invariance == Spec => []IInv
  BY Initially, Inductive, PTL DEF Spec

\* Every variable keeps its type.
THEOREM TypeCorrect == Spec => []TypeOK
<1>1. IInv => TypeOK
  BY DEF IInv, Types, Fresh, Placed, TypeOK
<1>. QED
  BY <1>1, Invariance, PTL

\* The backstop: no row without a registered series escapes the first sweep after its
\* commit, however long before it its recorded_at lies (data_quality_sweep).
THEOREM NoOrphanEscapes == Spec => []OrphansAreReported
<1>1. IInv => OrphansAreReported
  BY DEF IInv
<1>. QED
  BY <1>1, Invariance, PTL

\* The same, of series that were registered when the row was committed, for observed
\* times outside their bucket, and for target times off the grid of an interval
\* shorter than 28 days.
THEOREM NoDefectEscapes == Spec => []DefectsAreReported
<1>1. IInv => DefectsAreReported
  BY DEF IInv
<1>. QED
  BY <1>1, Invariance, PTL
=============================================================================
