---------------------------- MODULE Forecasting ----------------------------
(***************************************************************************)
(* A forecasting workflow on the store (integrations/openstef.py): it reads *)
(* its context with StoreReader, predicts, and ForecastStoreCallback        *)
(* persists the prediction.  The measurements arrive concurrently, the      *)
(* connection may be lost at either end of the commit, and a caller whose   *)
(* write raised may repeat it.  Reads supplies the context windows.         *)
(*                                                                         *)
(* One target series, of an interval shorter than 28 days (the grid of a     *)
(* longer one is not checked), and one callback.  What two transactions do to each    *)
(* other is the subject of BeliefStore and SeriesRegistry; here a block is   *)
(* open or committed.                                                       *)
(***************************************************************************)
EXTENDS Integers, FiniteSetsExt

CONSTANTS
    Interval,         \* the sample_interval the readers of the series expect
    ResultIntervals,  \* the sample_intervals a prediction may carry
    AutoRegister,     \* whether the callback registers the series
    Horizon,          \* times are 0..Horizon
    MaxAttempts,      \* bound on the blocks opened by the callback
    None              \* None, NULL

ASSUME ForecastingAssumption ==
    /\ Interval \in Nat \ {0} /\ ResultIntervals \subseteq Nat \ {0}
    /\ AutoRegister \in BOOLEAN /\ Horizon \in Nat /\ MaxAttempts \in Nat
    /\ None \notin Int /\ None # "returned"

Times == 0 .. Horizon
Grid == {t \in Times : t % Interval = 0}

VARIABLES
    now,         \* the wall clock
    actuals,     \* the target's stored measurements
    registered,  \* the sample_interval in the registry, or None
    runs,        \* the committed runs
    frame,       \* the context frame of the next prediction, or None
    call,        \* the callback and its open block
    lost         \* for the properties: the run_ids committed without an answer

vars == <<now, actuals, registered, runs, frame, call, lost>>

History == INSTANCE Reads WITH
    byRun <- FALSE, log <- actuals, open <- {}, writes <- 0, Batches <- {[t \in Grid |-> 1]},
    Claims <- Times, Windows <- Times \X Times, MaxNow <- Horizon, Jobs <- {},
    MaxWrites <- 1, Null <- None

OrNone(S) == S \cup {None}

\* end: context_end.  first, begun, grid, observed, newest are for the properties: the
\* first run_id this prediction was given, when it began, the interval of the result,
\* the last observed target and the newest knowledge in the frame.
Run == [id : 1 .. MaxAttempts, first : 1 .. MaxAttempts, available : Times, started : OrNone(Times),
        finished : OrNone(Times), end : OrNone(Times), begun : OrNone(Times),
        grid : ResultIntervals, observed : OrNone(Times), newest : OrNone(Times)]

Init ==
    /\ now = 0 /\ actuals = {} /\ runs = {} /\ frame = None /\ registered = None
    /\ lost = {}
    /\ call = [pc |-> "idle", started |-> None, begun |-> None, last |-> None,
               pending |-> None, attempts |-> 0, outcome |-> None]

-----------------------------------------------------------------------------
(* The world around the callback.                                           *)

Tick ==
    /\ now < Horizon /\ now' = now + 1
    /\ UNCHANGED <<actuals, registered, runs, frame, call, lost>>

\* A measurement arrives, in time or late, and is committed.
Measure(t) ==
    /\ t <= now /\ t \notin {r.target : r \in actuals}
    /\ actuals' = actuals \cup {[target |-> t, known |-> now, recorded |-> now, run |-> 1,
                                 job |-> None, value |-> 1]}
    /\ UNCHANGED <<now, registered, runs, frame, call, lost>>

\* Another process registers the series; it would wait for an open block.
Register(interval) ==
    /\ registered = None /\ call.pc # "open"
    /\ registered' = interval
    /\ UNCHANGED <<now, actuals, runs, frame, call, lost>>

\* Mutant of ContextEnd: the maximum of the index, as the module notes warn.
ContextEndOfIndex(window) == Max(Grid)

\* _context_bounds: last_valid_index of the target column, or the maximum of the
\* frame's index, which covariates extend to the horizon.
ContextEnd(window) ==
    LET filled == {b \in DOMAIN window.value : window.value[b] # None}
    IN  IF filled # {} THEN Max(filled) ELSE Max(Grid)

\* StoreReader.context, as of now; UnknownSeries unless the series is registered.
ReadContext(start) ==
    /\ call.pc = "idle" /\ registered = Interval /\ start < now
    /\ LET q == History!TargetHistory(start, now, None)
           seen == History!Visible(q)
       IN  \E window \in History!Context(q) :
              frame' = [end |-> ContextEnd(window),
                        observed |-> IF seen = {} THEN None ELSE Max({r.target : r \in seen}),
                        newest |-> IF seen = {} THEN None ELSE Max({r.known : r \in seen})]
    /\ UNCHANGED <<now, actuals, registered, runs, call, lost>>

-----------------------------------------------------------------------------
(* The callback.                                                            *)

\* Mutant of PredictStart: only the first start counts.
PredictStartOnce ==
    /\ call.pc = "idle"
    /\ call' = [call EXCEPT !.pc = "predicting", !.begun = now,
                            !.started = IF @ = None THEN now ELSE @]
    /\ UNCHANGED <<now, actuals, registered, runs, frame, lost>>

PredictStart ==
    /\ call.pc = "idle"
    /\ call' = [call EXCEPT !.pc = "predicting", !.started = now, !.begun = now]
    /\ UNCHANGED <<now, actuals, registered, runs, frame, lost>>

\* The prediction raises; on_predict_end is not called.
PredictFails ==
    /\ call.pc = "predicting"
    /\ call' = [call EXCEPT !.pc = "idle", !.begun = None]
    /\ UNCHANGED <<now, actuals, registered, runs, frame, lost>>

\* The first points of a forecast made at time t.
Points(t, interval) == {u \in t + 1 .. t + 2 * interval : u % interval = 0}

\* Mutant of Accepted: the points are not compared with the registered grid.
AcceptedOffGrid(run) == registered # None \/ AutoRegister

\* register_series (which keeps a registered interval) and the checks of
\* write_forecast: UnknownSeries, MisalignedTimestamp.
Accepted(run) ==
    /\ registered # None \/ AutoRegister
    /\ registered # None => \A t \in Points(run.available, run.grid) : t % registered = 0

\* One block up to the end of _persist: register, insert the run and its points,
\* set last_run_id.
Persist(run, taken) ==
    call' = IF Accepted(run)
            THEN [taken EXCEPT !.pc = "open", !.attempts = run.id, !.last = run.id,
                               !.pending = run, !.outcome = None]
            ELSE [taken EXCEPT !.pc = "idle", !.pending = None, !.outcome = "raised"]

\* on_predict_end takes the measured start and resets it; an engine that never
\* calls on_predict_start measures none.
PredictEnd(interval) ==
    /\ call.pc = "predicting" \/ (call.pc = "idle" /\ call.started = None)
    /\ call.attempts < MaxAttempts
    /\ Persist([id |-> call.attempts + 1, first |-> call.attempts + 1, available |-> now,
                started |-> call.started, finished |-> IF call.started = None THEN None ELSE now,
                end |-> IF frame = None THEN None ELSE frame.end, begun |-> call.begun,
                grid |-> interval,
                observed |-> IF frame = None THEN None ELSE frame.observed,
                newest |-> IF frame = None THEN None ELSE frame.newest],
               [call EXCEPT !.started = None, !.begun = None])
    /\ UNCHANGED <<now, actuals, registered, runs, frame, lost>>

\* The caller hands the same write to the store again after an exception.
Repeat ==
    /\ call.pc = "idle" /\ call.outcome = "raised" /\ call.pending # None
    /\ call.attempts < MaxAttempts
    /\ Persist([call.pending EXCEPT !.id = call.attempts + 1], call)
    /\ UNCHANGED <<now, actuals, registered, runs, frame, lost>>

Stored == /\ runs' = runs \cup {call.pending}
          /\ registered' = IF registered = None THEN call.pending.grid ELSE registered

\* Mutant of Commit: a block whose commit is left to the caller.
CommitNothing ==
    /\ call.pc = "open"
    /\ call' = [call EXCEPT !.pc = "idle", !.pending = None, !.outcome = "returned"]
    /\ UNCHANGED <<now, actuals, frame, runs, registered, lost>>

\* Leaving the block.
Commit ==
    /\ call.pc = "open" /\ Stored
    /\ call' = [call EXCEPT !.pc = "idle", !.pending = None, !.outcome = "returned"]
    /\ UNCHANGED <<now, actuals, frame, lost>>

\* Mutant of LoseBlock: on a connection in autocommit mode the inserts stand.
LoseAutocommit ==
    /\ call.pc = "open" /\ Stored
    /\ call' = [call EXCEPT !.pc = "idle", !.outcome = "raised"]
    /\ UNCHANGED <<now, actuals, frame, lost>>

\* The connection dies before the commit, or while it is answered.
LoseBlock ==
    /\ call.pc = "open"
    /\ call' = [call EXCEPT !.pc = "idle", !.outcome = "raised"]
    /\ UNCHANGED <<now, actuals, registered, runs, frame, lost>>

LoseCommitReply ==
    /\ call.pc = "open" /\ Stored
    /\ call' = [call EXCEPT !.pc = "idle", !.outcome = "raised"]
    /\ lost' = lost \cup {call.pending.id}
    /\ UNCHANGED <<now, actuals, frame>>

Next ==
    \/ Tick
    \/ \E t \in Grid : Measure(t)
    \/ \E interval \in ResultIntervals : Register(interval)
    \/ \E start \in Grid : ReadContext(start)
    \/ PredictStart \/ PredictFails
    \/ \E interval \in ResultIntervals : PredictEnd(interval)
    \/ Repeat \/ Commit \/ LoseBlock \/ LoseCommitReply

Spec == Init /\ [][Next]_vars

-----------------------------------------------------------------------------
(* Properties.                                                             *)

\* Every variable keeps its type, and a run_id names one run.
TypeOK ==
    /\ now \in Times /\ runs \subseteq Run /\ call.pending \in OrNone(Run)
    /\ {r.target : r \in actuals} \subseteq Grid
    /\ registered \in OrNone(ResultIntervals)
    /\ \A r, s \in runs : r.id = s.id => r = s

\* After on_predict_end returned, last_run_id names a stored run of this
\* prediction, until the next one ends (ForecastStoreCallback).
ReturnedIsStored == call.outcome = "returned" => call.last \in {r.id : r \in runs}

\* A run's compute bounds are its own prediction's: a start left behind by a
\* prediction that failed, or one already used, never reaches another run.
BoundsAreOwn ==
    \A r \in runs : /\ r.started = r.begun
                    /\ r.started # None => r.finished = r.available /\ r.started <= r.finished

\* The leakage audit (context_end > available_at) finds nothing in runs whose
\* context held a measurement: the store served nothing later than the decision
\* moment, and covariate timestamps are not taken for knowledge.
AuditIsClean ==
    \A r \in runs : r.observed # None => r.end <= r.available /\ r.newest <= r.available

\* A prediction is stored a second time only by a caller to whom the commit before was
\* not answered: the client cannot tell such a run from a lost one, and every other
\* exception leaves nothing behind that a repeat would double (psycopg's connection
\* block around _persist).
StoredTwiceOnlyIfLost ==
    \A r, s \in runs : r.first = s.first /\ r.id < s.id => r.id \in lost

\* The points of every stored run lie on the registered grid, whoever registered
\* the series first and however often a write was repeated.
RunsOnGrid ==
    \A r \in runs : \A t \in Points(r.available, r.grid) : t % registered = 0
=============================================================================
