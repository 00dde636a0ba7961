----------------------------- MODULE Monitoring -----------------------------
(***************************************************************************)
(* The backstop of "monitor" enforcement: data_quality_sweep (ddl.py) over  *)
(* what writers left in the points tables, and the grid check the SDK makes *)
(* before it writes (check_grid in timestamps.py).                          *)
(*                                                                         *)
(* Two scales of time are kept apart: the clock of the database counts      *)
(* coarse ticks and stamps recorded_at; a target time counts the            *)
(* microseconds that datetime and timestamptz resolve.                      *)
(***************************************************************************)
EXTENDS Integers, FiniteSets, FiniteSetsExt

CONSTANTS
    Tables,    \* points tables
    Observed,  \* the tables that declare target_time_observed
    Ids,       \* series ids, registered or made up
    Intervals, \* the sample_intervals series are registered with, in microseconds
    Month,     \* 28 days: a longer interval has no fixed stride and is not checked
    Targets,   \* target times
    Window,    \* scan_window
    Period,    \* ticks between two sweeps, at most
    MaxOpen,   \* ticks a transaction stays open, at most
    MaxRows,   \* bound on the rows of a store
    MaxNow,    \* the clock stops here
    None       \* no value

\* A row is still in the window when the first sweep after its commit begins.
ASSUME MonitoringAssumption ==
    /\ Observed \subseteq Tables /\ Intervals \subseteq Nat /\ Targets \subseteq Nat
    /\ {Month, Window, Period, MaxOpen, MaxRows, MaxNow} \subseteq Nat
    /\ Period > 0 /\ MaxOpen + Period < Window

VARIABLES
    declared,    \* tables with a row in store_tables
    present,     \* tables that exist
    registered,  \* the registry: the sample_interval of every id in it
    rows,        \* committed rows
    open,        \* the writers' open transaction: when it began, and its rows
    now,         \* the database's clock
    swept,       \* when the last sweep ran
    reported     \* what sweeps have reported: <<issue, table, series_id>>

vars == <<declared, present, registered, rows, open, now, swept, reported>>

Offsets == {None} \cup UNION {{0, iv - 1, iv} : iv \in Intervals}

\* observed: the offset of target_time_observed from its target.  recorded is the
\* transaction's; committed and joined are for the properties: when the row was
\* committed, and whether its series was registered then.
Row == [table : Tables, id : Ids, target : Targets, observed : Offsets,
        recorded : 0 .. MaxNow, committed : 0 .. MaxNow, joined : BOOLEAN]

Closed == [began |-> None, rows |-> {}]

Init ==
    /\ declared = {} /\ present = {} /\ registered = <<>> /\ rows = {} /\ open = Closed
    /\ now = 0 /\ swept = 0 /\ reported = {}

-----------------------------------------------------------------------------
(* The store around the sweep.                                              *)

\* Provisioning, or a table declared by hand.
Declare(t) ==
    /\ t \notin present
    /\ declared' = declared \cup {t} /\ present' = present \cup {t}
    /\ UNCHANGED <<registered, rows, open, now, swept, reported>>

\* A table is dropped; its declaration stays.
Drop(t) ==
    /\ t \in present /\ open = Closed
    /\ present' = present \ {t}
    /\ rows' = {r \in rows : r.table # t}
    /\ UNCHANGED <<declared, registered, open, now, swept, reported>>

Known(i) == i \in DOMAIN registered

Register(i, iv) ==
    /\ ~Known(i)
    /\ registered' = [j \in DOMAIN registered \cup {i} |-> IF j = i THEN iv ELSE registered[j]]
    /\ UNCHANGED <<declared, present, rows, open, now, swept, reported>>

\* The intervals whose grid is checked, by check_grid and by the sweep alike.
Checked(iv) == 0 < iv /\ iv < Month

\* check_grid: the remainder of the float timestamps may be up to 1e-6 s, and one
\* microsecond is 9.5e-7 s when it is computed.
OnGrid(target, iv) == LET rem == target % iv IN Checked(iv) => Min({rem, iv - rem}) <= 1

\* time_bucket(sample_interval, target_time) = target_time.
IsBucket(target, iv) == target % iv = 0

\* One row of a write function (sdk), which looks up the series and checks the grid,
\* or of hand-written SQL joins the open transaction.
Insert(t, i, target, observed, sdk) ==
    /\ t \in present
    /\ observed # None => t \in Observed
    /\ sdk => Known(i) /\ OnGrid(target, registered[i])
    /\ Cardinality(rows) + Cardinality(open.rows) < MaxRows
    /\ open' = [began |-> IF open = Closed THEN now ELSE open.began,
                rows |-> open.rows \cup
                   {[table |-> t, id |-> i, target |-> target, observed |-> observed]}]
    /\ UNCHANGED <<declared, present, registered, rows, now, swept, reported>>

Commit ==
    /\ open # Closed
    /\ rows' = rows \cup
          {[table |-> r.table, id |-> r.id, target |-> r.target, observed |-> r.observed,
            recorded |-> open.began, committed |-> now, joined |-> Known(r.id)] :
              r \in open.rows}
    /\ open' = Closed
    /\ UNCHANGED <<declared, present, registered, now, swept, reported>>

Rollback ==
    /\ open # Closed /\ open' = Closed
    /\ UNCHANGED <<declared, present, registered, rows, now, swept, reported>>

\* Sweeps are scheduled, and transactions are short.
Tick ==
    /\ now < MaxNow /\ now < swept + Period
    /\ open # Closed => now < open.began + MaxOpen
    /\ now' = now + 1
    /\ UNCHANGED <<declared, present, registered, rows, open, swept, reported>>

-----------------------------------------------------------------------------
(* data_quality_sweep.                                                      *)

\* Mutant of Scanned: only what was recorded since the last sweep.
ScannedSince == {r \in rows : r.table \in declared \cap present /\ r.recorded > swept}

\* The rows of declared tables that exist, written within the window.
Scanned == {r \in rows : r.table \in declared \cap present /\ r.recorded > now - Window}

Orphans == {<<"orphan_series", r.table, r.id>> : r \in {s \in Scanned : ~Known(s.id)}}

\* Both of these join the registry.
Misplaced(r) == Checked(registered[r.id]) /\ ~IsBucket(r.target, registered[r.id])

OffGrid ==
    {<<"off_grid_target_time", r.table, r.id>> :
        r \in {s \in Scanned : Known(s.id) /\ Misplaced(s)}}

Outside(r) == r.observed # None /\ (r.observed < 0 \/ r.observed >= registered[r.id])

\* Mutant of OutsideBucket: the end of the bucket is taken to be inside.
OutsideBucketLoose ==
    {<<"observed_outside_bucket", r.table, r.id>> :
        r \in {s \in Scanned : s.table \in Observed /\ Known(s.id)
                               /\ s.observed # None /\ s.observed > registered[s.id]}}

OutsideBucket ==
    {<<"observed_outside_bucket", r.table, r.id>> :
        r \in {s \in Scanned : s.table \in Observed /\ Known(s.id) /\ Outside(s)}}

Sweep ==
    /\ reported' = reported \cup Orphans \cup OffGrid \cup OutsideBucket
    /\ swept' = now
    /\ UNCHANGED <<declared, present, registered, rows, open, now>>

Next ==
    \/ \E t \in Tables : Declare(t) \/ Drop(t)
    \/ \E i \in Ids, iv \in Intervals : Register(i, iv)
    \/ \E t \in Tables, i \in Ids, target \in Targets, observed \in Offsets, sdk \in BOOLEAN :
          Insert(t, i, target, observed, sdk)
    \/ Commit \/ Rollback \/ Tick \/ Sweep

Spec == Init /\ [][Next]_vars

-----------------------------------------------------------------------------
(* Properties.                                                             *)

\* Every variable keeps its type: rows are in tables that exist and were recorded
\* before they were committed.
TypeOK ==
    /\ declared \subseteq Tables /\ present \subseteq declared
    /\ DOMAIN registered \subseteq Ids /\ \A i \in DOMAIN registered : registered[i] \in Intervals
    /\ rows \subseteq Row /\ now \in 0 .. MaxNow /\ swept \in 0 .. now
    /\ \A r \in rows : r.table \in present /\ r.recorded <= r.committed /\ r.committed <= now

\* The backstop (data_quality_sweep): a row that still names no registered series
\* has been reported by the first sweep after its commit, whoever wrote it and
\* however long before the commit its recorded_at lies.
OrphansAreReported ==
    \A r \in rows : r.committed < swept /\ ~Known(r.id) =>
        <<"orphan_series", r.table, r.id>> \in reported

\* The same, of a series that was registered when the row was committed, for an
\* observed time outside its bucket, and for a target time off the grid when the
\* interval of the series is shorter than 28 days.
DefectsAreReported ==
    \A r \in rows : r.committed < swept /\ r.joined =>
        /\ Misplaced(r) => <<"off_grid_target_time", r.table, r.id>> \in reported
        /\ Outside(r) => <<"observed_outside_bucket", r.table, r.id>> \in reported
=============================================================================
