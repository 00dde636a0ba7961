----------------------------- MODULE Workspace -----------------------------
(***************************************************************************)
(* Backtest artifacts in the benchmark storage (integrations/               *)
(* openstef_beam.py): save_backtest_output overwrites a run label by        *)
(* deleting its points, then its runs, then inserting one run per           *)
(* prediction event, in one READ COMMITTED transaction;                     *)
(* has_backtest_output and load_backtest_output read back.                  *)
(*                                                                         *)
(* Each DELETE chooses its rows by the snapshot of that statement, waits    *)
(* for rows another transaction has deleted, and skips them when that       *)
(* transaction commits.  runs is one table for the whole store, the points  *)
(* table is the storage's forecast_table.                                   *)
(*                                                                         *)
(* The points of one event are folded into one row; BeliefStore shows that  *)
(* a run and its points are one unit.                                       *)
(***************************************************************************)
EXTENDS Integers, Sequences

CONSTANTS
    Workers,   \* processes that hold benchmark storages
    Labels,    \* run labels, "<benchmark run>/<target>"
    Tables,    \* forecast tables
    Home,      \* the one that also holds production forecasts
    Storages,  \* per worker: the <<label, forecast_table>> pairs it works on
    Events,    \* simulated available_at instants, in their order
    Outputs,   \* the sets of events a backtest may come with
    MaxSaves,  \* bound on the saves ever begun
    None       \* the run label of production runs; no storage in use

ASSUME StorageAssumption ==
    /\ Home \in Tables /\ None \notin Labels /\ None \notin Labels \X Tables
    /\ Storages \in [Workers -> SUBSET (Labels \X Tables)]

ASSUME OutputAssumption ==
    Events \subseteq Nat /\ Outputs \subseteq SUBSET Events /\ MaxSaves \in Nat

VARIABLES
    runs,    \* committed rows of runs
    points,  \* committed rows of the forecast tables
    saved,   \* the saves begun so far: storage and output of each
    work     \* per worker: the operation it is executing

vars == <<runs, points, saved, work>>

-----------------------------------------------------------------------------
(* Rows.  A run's uuid is the save that minted it and its event; 0 is the   *)
(* production history that was there before.                                *)

RunRow == [save : 0..MaxSaves, event : Events, label : Labels \cup {None}]

PointRow == [save : 0..MaxSaves, event : Events, table : Tables]

RunId(x) == <<x.save, x.event>>

Save == [label : Labels, table : Tables, output : Outputs]

\* targets: rows the DELETE in progress has still to reach; gone: rows deleted
\* and locked; done: events whose run is inserted; result: what a load returned.
Work == [pc : {"idle", "points", "runs", "present", "loaded"},
         save : 0..MaxSaves, storage : (Labels \X Tables) \cup {None},
         targets : SUBSET (RunRow \cup PointRow),
         gone : SUBSET (RunRow \cup PointRow),
         done : SUBSET Events, result : SUBSET ((0..MaxSaves) \X Events)]

Idle == [pc |-> "idle", save |-> 0, storage |-> None, targets |-> {}, gone |-> {},
         done |-> {}, result |-> {}]

Init ==
    /\ runs = [save : {0}, event : Events, label : {None}]
    /\ points = [save : {0}, event : Events, table : {Home}]
    /\ saved = <<>>
    /\ work = [w \in Workers |-> Idle]

Listed(l) == {r \in runs : r.label = l}

\* The points of a table whose run carries the label.
Artifacts(l, t) ==
    {p \in points : p.table = t /\ \E r \in Listed(l) : RunId(r) = RunId(p)}

-----------------------------------------------------------------------------
(* save_backtest_output.                                                    *)

Saving(w) == work[w].pc \in {"points", "runs"}

Current(w) == saved[work[w].save]

\* Rows deleted by an open transaction: any other DELETE waits for it.
LockedByOther(w, x) == \E o \in Workers \ {w} : x \in work[o].gone

\* Mutant of Doomed: the points are looked up through runs that are gone, as
\* when the two DELETE statements are swapped.
DoomedTooLate(l, t) == Artifacts(l, t) \ points

\* Mutant of Doomed: the DELETE is not scoped to the label.
DoomedUnscoped(l, t) == {p \in points : p.table = t}

\* What the DELETE of points chooses by its snapshot.
Doomed(l, t) == Artifacts(l, t)

\* The block begins and runs the decompression lookup; then the DELETE of the
\* label's points takes its snapshot.
Begin(w, l, t, output) ==
    /\ work[w].pc = "idle" /\ <<l, t>> \in Storages[w]
    /\ Len(saved) < MaxSaves
    /\ saved' = Append(saved, [label |-> l, table |-> t, output |-> output])
    /\ work' = [work EXCEPT ![w] =
                   [Idle EXCEPT !.pc = "points", !.save = Len(saved) + 1,
                                !.storage = <<l, t>>, !.targets = Doomed(l, t)]]
    /\ UNCHANGED <<runs, points>>

\* The DELETE reaches a row: it is deleted unless a transaction that has
\* committed since the snapshot deleted it first.
DeleteRow(w) ==
    \E x \in work[w].targets :
        /\ ~LockedByOther(w, x)
        /\ work' = [work EXCEPT ![w].targets = @ \ {x},
                                ![w].gone = @ \cup ({x} \cap (runs \cup points))]
        /\ UNCHANGED <<runs, points, saved>>

\* Mutant of DoomedRuns: the runs are left in place.
DoomedRunsNone(l) == {}

\* What the DELETE of runs chooses by its snapshot.
DoomedRuns(l) == Listed(l)

DeleteRuns(w) ==
    /\ work[w].pc = "points" /\ work[w].targets = {}
    /\ work' = [work EXCEPT ![w].pc = "runs",
                            ![w].targets = DoomedRuns(Current(w).label)]
    /\ UNCHANGED <<runs, points, saved>>

Todo(w) == Current(w).output \ work[w].done

Inserting(w) == work[w].pc = "runs" /\ work[w].targets = {}

\* write_forecast for the next event of the groupby, run and points.
WriteEvent(w) ==
    /\ Inserting(w)
    /\ \E e \in Todo(w) :
          /\ \A f \in Todo(w) : e <= f
          /\ work' = [work EXCEPT ![w].done = @ \cup {e}]
    /\ UNCHANGED <<runs, points, saved>>

NewRuns(w) == [save : {work[w].save}, event : work[w].done, label : {Current(w).label}]

NewPoints(w) == [save : {work[w].save}, event : work[w].done, table : {Current(w).table}]

\* Leaving the block: the overwrite and every event's run, together.  The
\* caller may not learn of it (a lost commit reply); it then saves again.
Commit(w) ==
    /\ Inserting(w) /\ Todo(w) = {}
    /\ runs' = (runs \ work[w].gone) \cup NewRuns(w)
    /\ points' = (points \ work[w].gone) \cup NewPoints(w)
    /\ work' = [work EXCEPT ![w] = Idle]
    /\ UNCHANGED saved

\* An exception (an unknown series, an off-grid or repeated target, a lost
\* connection) or the end of the process: nothing of the transaction stays.
Abandon(w) ==
    /\ Saving(w)
    /\ work' = [work EXCEPT ![w] = Idle]
    /\ UNCHANGED <<runs, points, saved>>

Blocked(w) == work[w].targets # {} /\ \A x \in work[w].targets : LockedByOther(w, x)

\* Workers whose deletions wait for each other.
Deadlocked(w) ==
    \E S \in SUBSET Workers :
        /\ w \in S /\ \A x \in S : Blocked(x)
        /\ \A x \in S : \E y \in S : work[x].targets \cap work[y].gone # {}
        /\ \A x \in S : \A y \in Workers \ S : work[x].targets \cap work[y].gone = {}

\* Mutant of DeadlockVictim: the waiting statement is only run again.
VictimWaits(w) ==
    /\ Deadlocked(w)
    /\ UNCHANGED vars

\* The server aborts a member of a wait cycle.
DeadlockVictim(w) ==
    /\ Deadlocked(w)
    /\ work' = [work EXCEPT ![w] = Idle]
    /\ UNCHANGED <<runs, points, saved>>

-----------------------------------------------------------------------------
(* The resume check, and the load it lets the pipeline skip to.             *)

\* Mutant of Has: the label is not part of the probe.
HasAny(l) == runs # {}

Has(l) == Listed(l) # {}

\* has_backtest_output: on a yes the pipeline goes on to load, on a no it has
\* still to save.
Resume(w, l, t) ==
    /\ work[w].pc = "idle" /\ <<l, t>> \in Storages[w]
    /\ \/ /\ Has(l)
          /\ work' = [work EXCEPT
                ![w] = [Idle EXCEPT !.pc = "present", !.storage = <<l, t>>]]
       \/ ~Has(l) /\ UNCHANGED work
    /\ UNCHANGED <<runs, points, saved>>

\* load_backtest_output, a transaction of its own: the KeyError of an absent
\* output is the empty result.
Load(w) ==
    /\ work[w].pc = "present"
    /\ work' = [work EXCEPT
          ![w].pc = "loaded",
          ![w].result = {RunId(p) : p \in Artifacts(work[w].storage[1], work[w].storage[2])}]
    /\ UNCHANGED <<runs, points, saved>>

\* The pipeline is done with what it loaded.
Forget(w) ==
    /\ work[w].pc = "loaded"
    /\ work' = [work EXCEPT ![w] = Idle]
    /\ UNCHANGED <<runs, points, saved>>

Next ==
    \E w \in Workers :
        \/ \E l \in Labels, t \in Tables, output \in Outputs : Begin(w, l, t, output)
        \/ DeleteRow(w) \/ DeleteRuns(w) \/ WriteEvent(w)
        \/ Commit(w) \/ Abandon(w) \/ DeadlockVictim(w)
        \/ \E l \in Labels, t \in Tables : Resume(w, l, t)
        \/ Load(w) \/ Forget(w)

Spec == Init /\ [][Next]_vars

\* A statement runs once its rows are free (first-in first-out lock queues),
\* save_backtest_output is a loop without waits of its own, and the server
\* aborts a member of every wait cycle.
FairSpec ==
    /\ Spec
    /\ \A w \in Workers :
          /\ SF_vars(DeleteRow(w))
          /\ WF_vars(DeleteRuns(w)) /\ WF_vars(WriteEvent(w)) /\ WF_vars(Commit(w))
    /\ WF_vars(\E w \in Workers : DeadlockVictim(w))
-----------------------------------------------------------------------------
(* Properties.                                                             *)

\* Every variable keeps its type.
TypeOK ==
    /\ runs \subseteq RunRow
    /\ points \subseteq PointRow
    /\ saved \in Seq(Save) /\ Len(saved) <= MaxSaves
    /\ work \in [Workers -> Work]

\* A run that is listed has its points stored, however saves of its label
\* interleave, fail or commit between each other's statements: what
\* has_backtest_output finds in runs, a load of the same table finds too.
ListedIsStored ==
    \A r \in runs : \E p \in points : RunId(p) = RunId(r)

\* The artifacts a label is responsible for, whether their run still exists.
Stored(l) == {p \in points : p.save # 0 /\ saved[p.save].label = l}

\* Labels with one saver and one table, as every label of a single
\* BenchmarkPipeline has.
Owned == {l \in Labels :
            \E w \in Workers, t \in Tables : \A o \in Workers, u \in Tables :
                <<l, u>> \in Storages[o] <=> o = w /\ u = t}

\* A label with one saver is overwritten wholesale: the catalogue and everything
\* stored under it are those of one save, through aborted saves, retries and the
\* saves of the labels that others fight over (save_backtest_output).
Promise == INSTANCE LabelStore WITH
    catalogue <- [l \in Owned |-> {RunId(r) : r \in Listed(l)}],
    content <- [l \in Owned |-> {RunId(p) : p \in Stored(l)}],
    Labels <- Owned, Saves <- 1..MaxSaves
ImplementsLabelStore == Promise!Spec

\* An overwrite never deletes a production run or its points.
ProductionKept ==
    [][\A x \in runs \cup points : x.save = 0 => x \in runs' \cup points']_vars

\* What the resume check finds present under a label with one saver can be loaded,
\* as the output of a single save (has_backtest_output, then load_backtest_output,
\* in two transactions).
ResumeLoads ==
    \A w \in Workers : work[w].pc = "loaded" /\ work[w].storage[1] \in Owned =>
        /\ work[w].result # {}
        /\ \A x, y \in work[w].result : x[1] = y[1]

\* Every save ends although two overwrites of a label wait for each other's rows.
SaveEnds == \A w \in Workers : Saving(w) ~> ~Saving(w)
=============================================================================
