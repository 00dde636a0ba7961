---------------------------- MODULE Evaluations ----------------------------
(***************************************************************************)
(* Evaluations of one run label in the benchmark storage (integrations/     *)
(* openstef_beam.py): save_evaluation_output appends an evaluation run, its *)
(* metric series (get-or-create) and its metrics in one transaction;        *)
(* load_evaluation_output picks the latest run, then re-derives the subsets *)
(* from the stored backtest and from the ground truth, which it reads in    *)
(* two further transactions.                                                *)
(*                                                                         *)
(* The processes are those of a benchmark pipeline with its resume checks.  *)
(* The saves of the backtest take place one after another (what two at once *)
(* leave is the subject of Workspace), so a save is one step; a backtest and *)
(* a state of the ground truth are numbers.  The pin of a provider lies in   *)
(* the past, and transactions that began before it may still be open.       *)
(***************************************************************************)
EXTENDS Integers, Sequences

CONSTANTS
    Workers,       \* pipeline processes
    Crews,         \* the sets of them that may work on the label
    Keys,          \* <<filtering, win, quantile, metric>> tuples
    Orders,        \* the orders in which a report may name its keys
    Pinned,        \* the workers whose provider has a recorded_before pin
    MaxBacktests,  \* bound on the saves of the backtest
    MaxEvals,      \* bound on the evaluations ever begun
    MaxTruth,      \* bound on the revisions of the ground truth
    None           \* no evaluation chosen

ASSUME BoundsAssumption ==
    /\ MaxBacktests \in Nat /\ MaxEvals \in Nat /\ MaxTruth \in Nat
    /\ Pinned \subseteq Workers
    /\ Crews \subseteq SUBSET Workers
    /\ Orders \subseteq Seq(Keys)

VARIABLES
    crew,      \* the processes that work on the label
    clock,     \* the database clock
    backtest,  \* which save of the backtest is stored, 0 for none
    truth,     \* the ground truth
    evals,     \* committed rows of evaluation_runs
    series,    \* committed rows of evaluation_series
    metrics,   \* committed rows of evaluation_metrics
    begun,     \* evaluations begun so far, the source of their ids
    work       \* per worker: the operation it is executing

vars == <<crew, clock, backtest, truth, evals, series, metrics, begun, work>>

-----------------------------------------------------------------------------
(* Rows.                                                                    *)

\* all: the revisions committed so far.  pinned: those with recorded_at <= pin.
\* late: the open transactions of other processes that began before the pin.
Truth == [all : 0..MaxTruth, pinned : 0..MaxTruth, late : 0..MaxTruth]

Ids == 1..MaxEvals

\* keys: what params names.  The rest is not stored but history: the backtest and
\* ground truth the metrics were computed from, whether the truth was read under a pin
\* that was quiet, and the evaluations committed before this one began.
EvalRow == [id : Ids, recorded : Nat, keys : SUBSET Keys,
            of : 0..MaxBacktests, truth : 0..MaxTruth, frozen : BOOLEAN,
            after : SUBSET Ids]

\* The identity of a series row is the evaluation that minted it, and its key.
SeriesRow == [key : Keys, minted : Ids]

MetricRow == [series : SeriesRow, eval : Ids]

Work == [pc : {"idle", "backtest", "evaluation", "predictions", "measurements",
               "report", "saving", "loaded"},
         chosen : EvalRow \cup {None},  \* the row a load picked, or the one being saved
         of : 0..MaxBacktests, truth : 0..MaxTruth, frozen : BOOLEAN,
         order : Seq(Keys), new : SUBSET SeriesRow, used : SUBSET SeriesRow]

Idle == [pc |-> "idle", chosen |-> None, of |-> 0, truth |-> 0, frozen |-> FALSE,
         order |-> <<>>, new |-> {}, used |-> {}]

Init ==
    /\ crew \in Crews
    /\ clock = 0 /\ backtest = 0 /\ begun = 0
    /\ \E late \in 0..MaxTruth : truth = [all |-> 0, pinned |-> 0, late |-> late]
    /\ evals = {} /\ series = {} /\ metrics = {}
    /\ work = [w \in Workers |-> Idle]

-----------------------------------------------------------------------------
(* The pipeline's steps, each with the transaction it runs.                 *)

\* Mutant of HasBacktest: the resume check probes another label.
HasBacktestNever == FALSE

\* has_backtest_output.
HasBacktest == backtest # 0

CheckBacktest(w) ==
    /\ work[w].pc = "idle"
    /\ work' = [work EXCEPT ![w].pc = IF HasBacktest THEN "evaluation" ELSE "backtest"]
    /\ UNCHANGED <<crew, clock, backtest, truth, evals, series, metrics, begun>>

\* save_backtest_output commits.
SaveBacktest(w) ==
    /\ work[w].pc = "backtest" /\ backtest < MaxBacktests
    /\ backtest' = backtest + 1
    /\ work' = [work EXCEPT ![w].pc = "evaluation"]
    /\ UNCHANGED <<crew, clock, truth, evals, series, metrics, begun>>

\* has_evaluation_output answers no, or the caller evaluates the label anew (a
\* monitor does so every night): a report is computed.
Evaluate(w) ==
    /\ work[w].pc = "evaluation"
    /\ work' = [work EXCEPT ![w].pc = "predictions"]
    /\ UNCHANGED <<crew, clock, backtest, truth, evals, series, metrics, begun>>

\* Mutant of Latest: LIMIT 1 without the ORDER BY.
LatestAny == evals

\* What ORDER BY recorded_at DESC LIMIT 1 may return: a tie has no order.
Latest == {e \in evals : \A f \in evals : f.recorded <= e.recorded}

\* The first transaction of load_evaluation_output.
ChooseEvaluation(w) ==
    /\ work[w].pc = "evaluation"
    /\ \E e \in Latest :
          work' = [work EXCEPT ![w].pc = "predictions", ![w].chosen = e]
    /\ UNCHANGED <<crew, clock, backtest, truth, evals, series, metrics, begun>>

\* load_backtest_output.
LoadPredictions(w) ==
    /\ work[w].pc = "predictions"
    /\ work' = [work EXCEPT ![w].pc = "measurements", ![w].of = backtest]
    /\ UNCHANGED <<crew, clock, backtest, truth, evals, series, metrics, begun>>

\* What the provider reads: WHERE recorded_at <= the pin, if it has one.
SeenTruth(w) == IF w \in Pinned THEN truth.pinned ELSE truth.all

\* get_measurements_for_target.
LoadMeasurements(w) ==
    /\ work[w].pc = "measurements"
    /\ work' = [work EXCEPT
          ![w].pc = IF work[w].chosen = None THEN "report" ELSE "loaded",
          ![w].truth = SeenTruth(w), ![w].frozen = w \in Pinned /\ truth.late = 0]
    /\ UNCHANGED <<crew, clock, backtest, truth, evals, series, metrics, begun>>

-----------------------------------------------------------------------------
(* save_evaluation_output.                                                  *)

\* The block begins and inserts the evaluation_runs row.
BeginSave(w, order) ==
    /\ work[w].pc = "report" /\ begun < MaxEvals
    /\ begun' = begun + 1
    /\ LET row == [id |-> begun', recorded |-> clock, of |-> work[w].of,
                   truth |-> work[w].truth, frozen |-> work[w].frozen,
                   keys |-> {order[i] : i \in DOMAIN order},
                   after |-> {e.id : e \in evals}]
       IN  work' = [work EXCEPT ![w].pc = "saving", ![w].chosen = row, ![w].order = order]
    /\ UNCHANGED <<crew, clock, backtest, truth, evals, series, metrics>>

Upserting(w) == work[w].pc = "saving" /\ work[w].order # <<>>

\* Another transaction has inserted or updated the row of the key at hand.
WaitsFor(w, o) ==
    /\ Upserting(w) /\ o # w
    /\ Head(work[w].order) \in {s.key : s \in work[o].used}

\* Mutant of Existing: the UNIQUE constraint is missing.
ExistingNone(w) == {}

Existing(w) == {s \in series \cup work[w].new : s.key = Head(work[w].order)}

\* Mutant of Upsert: ON CONFLICT DO NOTHING, which returns no id of a row that
\* is already there.
UpsertNothing(w) ==
    /\ Upserting(w) /\ \A o \in Workers : ~WaitsFor(w, o)
    /\ LET minted == {[key |-> Head(work[w].order), minted |-> work[w].chosen.id] :
                         x \in {1} \ {1 : s \in Existing(w)}}
       IN  work' = [work EXCEPT ![w].order = Tail(@), ![w].new = @ \cup minted,
                                ![w].used = @ \cup minted]
    /\ UNCHANGED <<crew, clock, backtest, truth, evals, series, metrics, begun>>

\* INSERT ... ON CONFLICT DO UPDATE ... RETURNING for one key: the row is locked
\* and its id returned, whether it was there or is new.
Upsert(w) ==
    /\ Upserting(w) /\ \A o \in Workers : ~WaitsFor(w, o)
    /\ LET fresh == [key |-> Head(work[w].order), minted |-> work[w].chosen.id]
           row == IF Existing(w) = {} THEN fresh ELSE CHOOSE s \in Existing(w) : TRUE
       IN  work' = [work EXCEPT ![w].order = Tail(@), ![w].new = @ \cup ({row} \ series),
                                ![w].used = @ \cup {row}]
    /\ UNCHANGED <<crew, clock, backtest, truth, evals, series, metrics, begun>>

MetricRows(w) == [series : work[w].used, eval : {work[w].chosen.id}]

\* The executemany over the metrics, and leaving the block.  A commit takes time:
\* a transaction that begins after it has a later now().
Commit(w) ==
    /\ work[w].pc = "saving" /\ work[w].order = <<>>
    /\ evals' = evals \cup {work[w].chosen}
    /\ series' = series \cup work[w].new
    /\ metrics' = metrics \cup MetricRows(w)
    /\ clock' = clock + 1
    /\ work' = [work EXCEPT ![w] = Idle]
    /\ UNCHANGED <<crew, backtest, truth, begun>>

\* An exception ends the operation, or the process dies; the pipeline starts over.
Crash(w) ==
    /\ work[w].pc # "idle"
    /\ work' = [work EXCEPT ![w] = Idle]
    /\ UNCHANGED <<crew, clock, backtest, truth, evals, series, metrics, begun>>

Deadlocked(w) ==
    \E S \in SUBSET Workers :
        /\ w \in S
        /\ \A x \in S : (\E y \in S : WaitsFor(x, y)) /\ (\E y \in S : WaitsFor(y, x))

\* Mutant of DeadlockVictim: the waiting statement is only run again.
VictimWaits(w) ==
    /\ Deadlocked(w)
    /\ UNCHANGED vars

\* The server aborts a member of a wait cycle.
DeadlockVictim(w) ==
    /\ Deadlocked(w)
    /\ work' = [work EXCEPT ![w] = Idle]
    /\ UNCHANGED <<crew, clock, backtest, truth, evals, series, metrics, begun>>

\* Another process commits a new belief about the measured target.
Revise ==
    /\ truth.all < MaxTruth
    /\ truth' = [truth EXCEPT !.all = @ + 1]
    /\ UNCHANGED <<crew, clock, backtest, evals, series, metrics, begun, work>>

\* One that began before the pin: its recorded_at does not follow the pin.
ReviseLate ==
    /\ truth.all < MaxTruth /\ truth.late > 0
    /\ truth' = [all |-> truth.all + 1, pinned |-> truth.pinned + 1, late |-> truth.late - 1]
    /\ UNCHANGED <<crew, clock, backtest, evals, series, metrics, begun, work>>

\* It wrote nothing, or rolls back.
LateEnds ==
    /\ truth.late > 0
    /\ truth' = [truth EXCEPT !.late = @ - 1]
    /\ UNCHANGED <<crew, clock, backtest, evals, series, metrics, begun, work>>

Next ==
    \/ Revise \/ ReviseLate \/ LateEnds
    \/ \E w \in crew :
          \/ CheckBacktest(w) \/ SaveBacktest(w) \/ Evaluate(w) \/ ChooseEvaluation(w)
          \/ LoadPredictions(w) \/ LoadMeasurements(w)
          \/ \E order \in Orders : BeginSave(w, order)
          \/ Upsert(w) \/ Commit(w) \/ Crash(w) \/ DeadlockVictim(w)

Spec == Init /\ [][Next]_vars

\* The server runs a statement once its row is free and aborts a member of every
\* wait cycle; save_evaluation_output waits for nothing else.
FairSpec ==
    /\ Spec
    /\ \A w \in Workers : SF_vars(Upsert(w)) /\ WF_vars(Commit(w))
    /\ WF_vars(\E w \in Workers : DeadlockVictim(w))
-----------------------------------------------------------------------------
(* Properties.                                                             *)

\* Every variable keeps its type.
TypeOK ==
    /\ crew \in Crews
    /\ clock \in Nat /\ begun \in 0..MaxEvals
    /\ backtest \in 0..MaxBacktests /\ truth \in Truth /\ truth.pinned <= truth.all
    /\ evals \subseteq EvalRow /\ series \subseteq SeriesRow /\ metrics \subseteq MetricRow
    /\ work \in [Workers -> Work]

\* A metric has one series for good, whichever evaluations meet on it: a nightly
\* monitor appends to the same rows (UNIQUE of evaluation_series, the upsert).
OneSeriesPerKey == \A s, t \in series : s.key = t.key => s = t

\* Every metric of a committed evaluation can be read through its series row,
\* although the id may come from another evaluation's transaction.
MetricsReadable ==
    \A e \in evals : \A k \in e.keys :
        \E m \in metrics : m.eval = e.id /\ m.series \in series /\ m.series.key = k

\* A load never returns an evaluation that a committed one was begun after
\* (ORDER BY recorded_at DESC, recorded_at DEFAULT now()).
LoadNotSuperseded ==
    [][\A w \in Workers :
          work[w].pc = "evaluation" /\ work'[w].chosen # None =>
              \A e \in evals : work'[w].chosen.id \notin e.after]_vars

\* The subsets of a loaded report are re-derived from no older backtest than its
\* metrics were computed from, whoever else saves; from the same one when one process
\* works on the label, whatever crashes and restarts; and from the same ground truth
\* when both sides read it under the pin and no transaction begun before the pin was
\* open when the metrics were computed (load_evaluation_output, has_backtest_output).
ReportConsistent ==
    \A w \in crew : work[w].pc = "loaded" =>
        /\ work[w].chosen.of <= work[w].of
        /\ crew = {w} => work[w].of = work[w].chosen.of
        /\ w \in Pinned /\ work[w].chosen.frozen => work[w].truth = work[w].chosen.truth

\* Every save of an evaluation ends although reports name their metrics in
\* different orders.
SaveEnds == \A w \in Workers : work[w].pc = "saving" ~> work[w].pc # "saving"
=============================================================================
