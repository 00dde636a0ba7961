------------------------------- MODULE Reads -------------------------------
(***************************************************************************)
(* The reads of a belief log (read.py, queries.py, the latest_ views of     *)
(* ddl.py, the windows StoreReader.context asks for): a context window on   *)
(* the declared grid, the as-of query, the versioned export.                *)
(*                                                                         *)
(* The log grows by committed batches whose knowledge time is a claim and   *)
(* may lie anywhere.  recorded_at is when the writing transaction began,    *)
(* which may be long before it commits.  A read is one statement, so it is  *)
(* an operator on the log; where SQL leaves the answer open, the operator   *)
(* is the set of the possible answers.                                      *)
(***************************************************************************)
EXTENDS Integers, FiniteSets, SequencesExt

CONSTANTS
    Batches,    \* what one write may carry: functions from grid targets to values
    Interval,   \* the series' sample_interval, in ticks of the clock
    Horizon,    \* times are 0..Horizon
    Claims,     \* the knowledge times a write may state
    Windows,    \* the <<start, end>> pairs a read may ask for
    MaxNow,     \* the clock stops here
    Jobs,       \* run names
    MaxWrites,  \* bound on the number of writes
    Null        \* the SQL NULL, and Python's None

Times == 0 .. Horizon
Targets == UNION {DOMAIN b : b \in Batches}
Values == UNION {{b[t] : t \in DOMAIN b} : b \in Batches}

Parameters ==
    /\ Interval \in Nat \ {0} /\ Horizon \in Nat /\ MaxNow \in Times /\ MaxWrites \in Nat
    /\ Targets \subseteq {t \in Times : t % Interval = 0}
    /\ Null \notin Jobs /\ Claims \subseteq Times /\ Windows \subseteq Times \X Times

ASSUME ReadsAssumption == Parameters

VARIABLES
    byRun,   \* a forecast log (keyed by run), or vintages (keyed by knowledge)
    log,     \* the committed rows
    open,    \* when the transactions that are still open began
    now,     \* the database's clock
    writes   \* writes so far; also the next run_id

vars == <<byRun, log, open, now, writes>>

Row == [target : Targets, known : Times, recorded : 0 .. MaxNow, run : 1 .. MaxWrites,
        job : Jobs \cup {Null}, value : Values]

Init == byRun \in BOOLEAN /\ log = {} /\ open = {} /\ now = 0 /\ writes = 0

-----------------------------------------------------------------------------
(* Writes, as far as reads depend on them.                                  *)

\* ON CONFLICT DO NOTHING of a vintage that is stored already.
Stored(t, known) == ~byRun /\ \E r \in log : r.target = t /\ r.known = known

\* The first statement of a transaction fixes its now().
Begin ==
    /\ open' = open \cup {now}
    /\ UNCHANGED <<byRun, log, now, writes>>

\* A transaction ends; another that began at the same instant may still be open.
Closes(began) == open' \in {open, open \ {began}}

\* One batch, all of one knowledge time, is committed with its transaction.
Write(batch, known, job, began) ==
    /\ writes < MaxWrites /\ began \in open
    /\ writes' = writes + 1
    /\ log' = log \cup {[target |-> t, known |-> known, recorded |-> began,
                         run |-> writes + 1, job |-> job, value |-> batch[t]] :
                        t \in {u \in DOMAIN batch : ~Stored(u, known)}}
    /\ Closes(began)
    /\ UNCHANGED <<byRun, now>>

\* A rollback, or the end of a transaction that wrote nothing.
End(began) ==
    /\ began \in open /\ Closes(began)
    /\ UNCHANGED <<byRun, log, now, writes>>

Tick == now < MaxNow /\ now' = now + 1 /\ UNCHANGED <<byRun, log, open, writes>>

\* The run names a write may have: vintages have no run.
Writers == IF byRun THEN Jobs ELSE {Null}

Next ==
    \/ Begin \/ Tick
    \/ \E began \in open :
          \/ \E batch \in Batches, known \in Claims, job \in Writers :
                Write(batch, known, job, began)
          \/ End(began)

Spec == Init /\ [][Next]_vars

-----------------------------------------------------------------------------
(* Reads.                                                                   *)

\* asof is required; pin (recorded_before) and job (run_name) are optional, and
\* a job may be named for a forecast log only.
Queries ==
    {q \in [start : Times, end : Times, asof : Times, pin : (0 .. MaxNow) \cup {Null},
            job : Writers \cup {Null}] : <<q.start, q.end>> \in Windows}

\* Mutant of Visible: the cutoff is applied to the system clock.
VisibleRecorded(q) ==
    {r \in log : /\ q.start <= r.target /\ r.target < q.end
                 /\ r.recorded <= q.asof
                 /\ q.pin # Null => r.recorded <= q.pin
                 /\ q.job # Null => r.job = q.job}

\* The predicates that read_context_series and forecast_asof share.
Visible(q) ==
    {r \in log : /\ q.start <= r.target /\ r.target < q.end
                 /\ r.known <= q.asof
                 /\ q.pin # Null => r.recorded <= q.pin
                 /\ q.job # Null => r.job = q.job}

\* last(value, knowledge), and the first row of ORDER BY knowledge DESC: any row
\* with the greatest knowledge time.
Latest(rows) == {r \in rows : \A o \in rows : o.known <= r.known}

\* Mutant of ForecastAsOf: the order is ascending.
ForecastAsOfOldest(q, t) ==
    LET rows == {r \in Visible(q) : r.target = t}
    IN  {r \in rows : \A o \in rows : r.known <= o.known}

\* forecast_asof: DISTINCT ON the target; the rows it may return for one target.
ForecastAsOf(q, t) == Latest({r \in Visible(q) : r.target = t})

\* latest_<table>: the same selection without cutoff, pin or window.
LatestView(t) == Latest({r \in log : r.target = t})

Bucket(t) == (t \div Interval) * Interval

\* The buckets of time_bucket_gapfill(interval, target_time, start, end): the
\* first holds start, and they go on while they begin before end.
Buckets(q) == {b \in Times : b % Interval = 0 /\ Bucket(q.start) <= b /\ b < q.end}

InBucket(q, b) == {r \in Visible(q) : Bucket(r.target) = b}

\* raw_value of a bucket; NULL where it has no row.
Picks(q, b) ==
    IF InBucket(q, b) = {} THEN {Null} ELSE {r.value : r \in Latest(InBucket(q, b))}

Raws(q) ==
    {raw \in [Buckets(q) -> Values \cup {Null}] : \A b \in Buckets(q) : raw[b] \in Picks(q, b)}

\* Mutant of Carried: NULL is treated as missing.
CarriedOverNull(q, raw) ==
    LET carried[b \in Buckets(q)] ==
            IF InBucket(q, b) # {} /\ raw[b] # Null THEN raw[b]
            ELSE IF b - Interval \in Buckets(q) THEN carried[b - Interval]
            ELSE Null
    IN  carried

\* locf: a bucket without rows takes the value of the one before it, and NULL is
\* a value like any other (treat_null_as_missing is off).
Carried(q, raw) ==
    LET carried[b \in Buckets(q)] ==
            IF InBucket(q, b) # {} THEN raw[b]
            ELSE IF b - Interval \in Buckets(q) THEN carried[b - Interval]
            ELSE Null
    IN  carried

\* read_context_series: the windows it may return.
Context(q) == {[raw |-> raw, value |-> Carried(q, raw)] : raw \in Raws(q)}

\* ContextSeries.gaps.
Gaps(window) == {b \in DOMAIN window.raw : window.raw[b] = Null}

\* The rows an export selects; no cutoff.
Exported(q) ==
    {r \in log : q.start <= r.target /\ r.target < q.end /\ (q.pin # Null => r.recorded <= q.pin)}

\* Mutant of Versioned: the newest belief comes first.
VersionedNewestFirst(q) ==
    {rows \in SetToSeqs(Exported(q)) : \A i, j \in DOMAIN rows : i < j =>
        \/ rows[i].target < rows[j].target
        \/ rows[i].target = rows[j].target /\ rows[i].known >= rows[j].known}

\* read_versioned_series: every belief, by target and then by knowledge; runs of one
\* knowledge time come in any order.
Versioned(q) ==
    {rows \in SetToSeqs(Exported(q)) : \A i, j \in DOMAIN rows : i < j =>
        \/ rows[i].target < rows[j].target
        \/ rows[i].target = rows[j].target /\ rows[i].known <= rows[j].known}

\* What StoreReader.context asks of the target's measurements: history that ends
\* at the decision moment.
TargetHistory(start, asof, pin) ==
    [start |-> start, end |-> asof, asof |-> asof, pin |-> pin, job |-> Null]

-----------------------------------------------------------------------------
(* Properties.                                                             *)

\* Every variable keeps its type, and a key names one row.
TypeOK ==
    /\ byRun \in BOOLEAN /\ log \subseteq Row /\ writes \in 0 .. MaxWrites
    /\ now \in 0 .. MaxNow /\ open \subseteq 0 .. now
    /\ \A r, s \in log :
          r.target = s.target /\ (IF byRun THEN r.run = s.run ELSE r.known = s.known) => r = s

\* No look-ahead (read_context_series, forecast_asof): rows that were claimed to
\* be known after the decision moment, recorded after the pin, or written by
\* another job change nothing about the answers, whenever they are committed.
LaterBeliefsAreInvisible ==
    [][log' # log => \A q \in Queries :
          (\A r \in log' \ log : \/ r.known > q.asof
                                 \/ q.pin # Null /\ r.recorded > q.pin
                                 \/ q.job # Null /\ r.job # q.job)
          => /\ Context(q)' = Context(q)
             /\ \A t \in Targets : ForecastAsOf(q, t)' = ForecastAsOf(q, t)]_vars

\* An engine that takes the versioned export and applies the cutoff itself, the last
\* row per target winning, sees a raw value the context window may show.
EngineCutoffAgrees ==
    \A q \in Queries : q.job = Null => \A rows \in Versioned(q) : \A b \in Buckets(q) :
        LET seen == {i \in DOMAIN rows : rows[i].target = b /\ rows[i].known <= q.asof}
            last == IF seen = {} THEN Null ELSE rows[Max(seen)].value
        IN  \E raw \in Raws(q) : raw[b] = last

\* A gap is a bucket whose belief is missing or NULL.  A bucket shows the nearest
\* earlier belief of the window, a NULL one included: it is not filled over.  The
\* window begins on the grid.
GapsAreFilled ==
    \A q \in Queries : q.start = Bucket(q.start) =>
        \A window \in Context(q), b \in Buckets(q) :
            LET before == {r \in Visible(q) : r.target <= b}
                nearest == {r \in before : \A s \in before : s.target <= r.target}
                beliefs == {r \in Visible(q) : r.target = b}
            IN  /\ beliefs = {} => b \in Gaps(window)
                /\ b \in Gaps(window) /\ beliefs # {} =>
                      window.value[b] = Null /\ \E r \in Latest(beliefs) : r.value = Null
                /\ IF before = {} THEN window.value[b] = Null
                   ELSE window.value[b] \in {r.value : r \in Latest(nearest)}

\* The context window, the as-of query and, where nothing claims a future
\* knowledge time, the latest view of a forecast log select the same beliefs.  Only
\* runs of one knowledge time leave more than one answer.
ReadsAgree ==
    \A q \in Queries :
        /\ q.start = Bucket(q.start) =>
              LET raws == Raws(q)
              IN  \A b \in Buckets(q) :
                     LET seen == ForecastAsOf(q, b)
                     IN  {raw[b] : raw \in raws} =
                             IF seen = {} THEN {Null} ELSE {r.value : r \in seen}
        /\ \A t \in Targets : LET seen == ForecastAsOf(q, t)
                             IN  \A r, s \in seen :
                                    r = s \/ (byRun /\ r.known = s.known /\ r.run # s.run)
        /\ (q.pin = Null /\ q.job = Null /\ \A r \in log : r.known <= q.asof) =>
              \A t \in Targets : q.start <= t /\ t < q.end => LatestView(t) = ForecastAsOf(q, t)
=============================================================================
