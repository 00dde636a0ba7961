---------------------------- MODULE BeliefStore ----------------------------
(***************************************************************************)
(* The write path of the forecast store (write.py) as it runs inside the   *)
(* blocks of Store.connect (store.py), over the points tables that ddl.py  *)
(* generates.                                                              *)
(*                                                                         *)
(* A block is one Postgres transaction under READ COMMITTED: its first     *)
(* statement fixes now() for the whole block, each point of a call is one  *)
(* INSERT statement of an executemany, a statement error aborts the        *)
(* transaction although the caller may catch the exception and stay in the *)
(* block, and only leaving the block makes its rows visible.               *)
(*                                                                         *)
(* A series and a target time are folded into one "target": no statement   *)
(* of the write path relates two series.                                   *)
(***************************************************************************)
EXTENDS Integers, Sequences, FiniteSets

CONSTANTS
    Blocks,        \* client blocks, each on a connection of its own
    Revisioned,    \* actuals instances keyed by (target, available_at)
    SingleBelief,  \* actuals instances keyed by (target) under belief_guard
    Predictors,    \* predictors instances
    Logs,          \* forecast logs, the instances that carry run provenance
    Targets,       \* (series, target_time) pairs a caller may name
    Grid,          \* those on the series' declared sample_interval, or of a series
                   \* whose grid is not checked (28 days or more)
    Values,        \* values of a point; NULL, if wanted, is one of them
    RunIds,        \* what gen_random_uuid() can return
    Claims,        \* knowledge times a caller may state
    Batches,       \* the point lists a caller may pass
    MaxTime,       \* bound on the database clock
    MaxTold,       \* bound on what a block is told before it makes no more calls
    None           \* no run, no stated knowledge time, no call in progress

Tables == Revisioned \cup SingleBelief \cup Predictors \cup Logs
Actuals == Revisioned \cup SingleBelief

\* A point as the write functions see it once the call-level available_at has
\* been applied; claim = None is an unstated knowledge time.
Point == [target : Targets, claim : Claims \cup {None}, value : Values]

Row == [table : Tables, target : Targets, run : RunIds \cup {None},
        available : Nat, recorded : Nat, value : Values]

Run == [id : RunIds, available : Nat, recorded : Nat]

\* A write call between its validation and its return: next indexes the
\* executemany, asked is when the caller made the call.
Call == [table : Tables, run : RunIds \cup {None}, batch : Seq(Point),
         next : Nat \ {0}, asked : Nat]

ASSUME RolesAssumption ==
    /\ Revisioned \cap SingleBelief = {} /\ Revisioned \cap Predictors = {}
    /\ Revisioned \cap Logs = {} /\ SingleBelief \cap Predictors = {}
    /\ SingleBelief \cap Logs = {} /\ Predictors \cap Logs = {}

ASSUME InputsAssumption ==
    /\ Claims \subseteq Nat
    /\ Grid \subseteq Targets
    /\ MaxTime \in Nat /\ MaxTold \in Nat
    /\ Batches \subseteq Seq(Point)

ASSUME NoneAssumption == None \notin RunIds /\ None \notin Nat /\ None \notin Call

VARIABLES
    clock,   \* the database clock
    rows,    \* committed rows of every points table
    runs,    \* committed rows of the runs table
    txn,     \* per block: its transaction, as the server holds it
    client   \* per block: what the code using the block has seen

vars == <<clock, rows, runs, txn, client>>

-----------------------------------------------------------------------------
(* Keys, transactions and what a caller has been told.                     *)

\* What the primary key of a table holds besides the target: revisions are
\* the primary-key switch.
Version(r) == CASE r.table \in Logs -> r.run
                [] r.table \in SingleBelief -> None
                [] OTHER -> r.available

Key(r) == <<r.table, r.target, Version(r)>>

Keys == Tables \X Targets \X (Nat \cup RunIds \cup {None})

\* rows and runs are the uncommitted ones; locks holds the keys another
\* transaction has to wait for.
Txn == [status : {"idle", "open", "failed"}, began : Nat,
        rows : SUBSET Row, runs : SUBSET Run, locks : SUBSET Keys]

Blank(status, began) ==
    [status |-> status, began |-> began, rows |-> {}, runs |-> {}, locks |-> {}]

Idle == Blank("idle", 0)

\* A statement error rolls the work back and frees the locks at once; the
\* transaction then refuses every statement until it is ended.
Failed == Blank("failed", 0)

\* A belief a returned call acknowledged: under which key, whether its
\* knowledge time was stated, and when the call was made.
Told == [key : Keys, value : Values, stated : BOOLEAN, asked : Nat]

\* ended is how the last block ended: committed, left normally although its
\* transaction had failed, or left by an exception.
Client == [call : Call \cup {None}, told : SUBSET Told,
           ended : {"none", "committed", "discarded", "raised"}]

NewClient == [call |-> None, told |-> {}, ended |-> "none"]

Init ==
    /\ clock = 0
    /\ rows = {}
    /\ runs = {}
    /\ txn = [b \in Blocks |-> Idle]
    /\ client = [b \in Blocks |-> NewClient]

-----------------------------------------------------------------------------
(* Calls.                                                                  *)

CanCall(b) ==
    /\ client[b].call = None
    /\ \/ txn[b].status = "idle"
       \/ txn[b].status = "open" /\ Cardinality(client[b].told) < MaxTold

\* The transaction after the lookups every call starts with: the first
\* statement of a block begins it, and now() keeps that instant.
Entered(b) == IF txn[b].status = "idle"
              THEN Blank("open", clock)
              ELSE txn[b]

Present(b) == IF txn[b].status = "idle" THEN NewClient ELSE client[b]

NewCall(t, run, batch) ==
    [table |-> t, run |-> run, batch |-> batch, next |-> 1, asked |-> clock]

\* c = None is a call that only reads, that returns early or that is refused
\* by a check made after the lookups; the caller may stay in the block.
Start(b, c) ==
    /\ CanCall(b)
    /\ txn' = [txn EXCEPT ![b] = Entered(b)]
    /\ client' = [client EXCEPT ![b] = [Present(b) EXCEPT !.call = c]]
    /\ UNCHANGED <<clock, rows, runs>>

OnGrid(batch) == \A i \in DOMAIN batch : batch[i].target \in Grid

Stated(batch) == \A i \in DOMAIN batch : batch[i].claim # None

Unstated(batch) == \A i \in DOMAIN batch : batch[i].claim = None

Read(b) == Start(b, None)

WriteActuals(b, t, batch) ==
    Start(b, IF t \in Actuals /\ OnGrid(batch) /\ batch # <<>>
             THEN NewCall(t, None, batch) ELSE None)

WritePredictors(b, t, batch) ==
    Start(b, IF t \in Predictors /\ OnGrid(batch) /\ batch # <<>> /\ Stated(batch)
             THEN NewCall(t, None, batch) ELSE None)

UsedIds == {u.id : u \in runs \cup UNION {txn[b].runs : b \in Blocks}}

\* Mutant of InsertRun: the run row is inserted without its available_at and
\* takes the column default.
InsertRunDefaulted(b, t, batch, available) ==
    \E id \in RunIds \ UsedIds :
        LET stamped == [i \in DOMAIN batch |-> [batch[i] EXCEPT !.claim = available]]
            run == [id |-> id, available |-> Entered(b).began, recorded |-> Entered(b).began]
        IN  /\ txn' = [txn EXCEPT ![b] =
                          [Entered(b) EXCEPT !.runs = @ \cup {run}]]
            /\ client' = [client EXCEPT ![b] =
                             [Present(b) EXCEPT !.call = NewCall(t, id, stamped)]]

\* The run row of a forecast; every point carries the run's available_at.
InsertRun(b, t, batch, available) ==
    \E id \in RunIds \ UsedIds :
        LET stamped == [i \in DOMAIN batch |-> [batch[i] EXCEPT !.claim = available]]
            run == [id |-> id, available |-> available, recorded |-> Entered(b).began]
        IN  /\ txn' = [txn EXCEPT ![b] =
                          [Entered(b) EXCEPT !.runs = @ \cup {run}]]
            /\ client' = [client EXCEPT ![b] =
                             [Present(b) EXCEPT !.call = NewCall(t, id, stamped)]]

AcceptsForecast(t, batch) == t \in Logs /\ OnGrid(batch) /\ Unstated(batch)

\* ordered: finished_at >= started_at, or one of them is not given.
WriteForecast(b, t, batch, available, ordered) ==
    \/ ~AcceptsForecast(t, batch) /\ Start(b, None)
    \/ /\ CanCall(b) /\ AcceptsForecast(t, batch) /\ ordered
       /\ InsertRun(b, t, batch, available)
       /\ UNCHANGED <<clock, rows, runs>>
    \/ /\ CanCall(b) /\ AcceptsForecast(t, batch) /\ ~ordered
       /\ txn' = [txn EXCEPT ![b] = Failed]
       /\ client' = [client EXCEPT ![b] = Present(b)]
       /\ UNCHANGED <<clock, rows, runs>>

-----------------------------------------------------------------------------
(* Statements: one INSERT per point, in the order of the batch.            *)

\* Mutants of Offered, which takes now() for recorded_at: no default at all, the
\* clock of the statement (clock_timestamp()), and the claimed knowledge time.
OfferedAs(b, i, recorded) ==
    LET c == client[b].call
        p == c.batch[i]
    IN  [table |-> c.table, target |-> p.target, run |-> c.run,
         available |-> IF p.claim = None THEN txn[b].began ELSE p.claim,
         recorded |-> recorded, value |-> p.value]

OfferedUnstamped(b, i) == OfferedAs(b, i, None)

OfferedAtStatement(b, i) == OfferedAs(b, i, clock)

OfferedAtClaim(b, i) ==
    LET claim == client[b].call.batch[i].claim
    IN  OfferedAs(b, i, IF claim = None THEN txn[b].began ELSE claim)

\* The row the i-th statement of the call in progress offers: an unstated
\* knowledge time and recorded_at both take now().
Offered(b, i) ==
    LET c == client[b].call
        p == c.batch[i]
    IN  [table |-> c.table, target |-> p.target, run |-> c.run,
         available |-> IF p.claim = None THEN txn[b].began ELSE p.claim,
         recorded |-> txn[b].began, value |-> p.value]

Executing(b) == /\ client[b].call # None
                /\ client[b].call.next <= Len(client[b].call.batch)

Current(b) == Offered(b, client[b].call.next)

\* Mutant of WaitsFor: the key is looked up by a SELECT of the write function
\* instead of a primary key, so a statement waits for nobody.
WaitsForNobody(b, o) == FALSE

\* The statement waits while another transaction has inserted or locked a
\* row with its key.
WaitsFor(b, o) == /\ Executing(b)
                  /\ o # b
                  /\ Key(Current(b)) \in txn[o].locks

Reached(b) == Executing(b) /\ \A o \in Blocks : ~WaitsFor(b, o)

Existing(b) == {r \in rows \cup txn[b].rows : Key(r) = Key(Current(b))}

Advance(b) == client' = [client EXCEPT ![b].call.next = @ + 1]

\* Mutant of Raise: the write function rolls back by itself, so the block goes
\* on in a transaction without its earlier work.
RaiseReopens(b) ==
    /\ txn' = [txn EXCEPT ![b] = Blank("open", clock)]
    /\ client' = [client EXCEPT ![b].call = None]

\* A statement error: the transaction is lost, the call raises.
Raise(b) ==
    /\ txn' = [txn EXCEPT ![b] = Failed]
    /\ client' = [client EXCEPT ![b].call = None]

InsertRow(b) ==
    /\ Reached(b) /\ Existing(b) = {}
    /\ txn' = [txn EXCEPT ![b].rows = @ \cup {Current(b)},
                          ![b].locks = @ \cup {Key(Current(b))}]
    /\ Advance(b)
    /\ UNCHANGED <<clock, rows, runs>>

\* ON CONFLICT DO NOTHING.
SkipRow(b) ==
    /\ Reached(b) /\ Existing(b) # {}
    /\ Current(b).table \in Revisioned \cup Predictors
    /\ Advance(b)
    /\ UNCHANGED <<clock, rows, runs, txn>>

SameBelief(b) == \A r \in Existing(b) : r.value = Current(b).value

\* ON CONFLICT DO UPDATE: the row is locked, then belief_guard drops the
\* update of an identical re-delivery.
Redeliver(b) ==
    /\ Reached(b) /\ Existing(b) # {}
    /\ Current(b).table \in SingleBelief /\ SameBelief(b)
    /\ txn' = [txn EXCEPT ![b].locks = @ \cup {Key(Current(b))}]
    /\ Advance(b)
    /\ UNCHANGED <<clock, rows, runs>>

\* Mutant of Conflict: the conflicting row is tried again instead of raising.
ConflictRetried(b) ==
    /\ Reached(b) /\ Existing(b) # {}
    /\ Current(b).table \in SingleBelief /\ ~SameBelief(b)
    /\ UNCHANGED vars

\* belief_guard raises; write_actuals turns it into ConflictingBelief.
Conflict(b) ==
    /\ Reached(b) /\ Existing(b) # {}
    /\ Current(b).table \in SingleBelief /\ ~SameBelief(b)
    /\ Raise(b)
    /\ UNCHANGED <<clock, rows, runs>>

\* Mutant of DuplicateTarget: the log's INSERT gets ON CONFLICT DO NOTHING.
DuplicateSkipped(b) ==
    /\ Reached(b) /\ Existing(b) # {}
    /\ Current(b).table \in Logs
    /\ Advance(b)
    /\ UNCHANGED <<clock, rows, runs, txn>>

\* A forecast names a target twice: no ON CONFLICT clause, so the unique
\* violation reaches the caller.
DuplicateTarget(b) ==
    /\ Reached(b) /\ Existing(b) # {}
    /\ Current(b).table \in Logs
    /\ Raise(b)
    /\ UNCHANGED <<clock, rows, runs>>

\* The driver cannot adapt a point's value: the call raises before that
\* statement is sent, so the server sees no error and the statements already
\* sent stay in the open transaction.
ClientFault(b) ==
    /\ Executing(b)
    /\ client' = [client EXCEPT ![b].call = None]
    /\ UNCHANGED <<clock, rows, runs, txn>>

\* A cycle of waiting transactions: the server aborts one of its members.
Deadlocked(b) ==
    \E S \in SUBSET Blocks :
        /\ b \in S
        /\ \A x \in S : (\E y \in S : WaitsFor(x, y)) /\ (\E y \in S : WaitsFor(y, x))

DeadlockVictim(b) ==
    /\ Deadlocked(b)
    /\ Raise(b)
    /\ UNCHANGED <<clock, rows, runs>>

\* The call returns: the caller takes every point of the batch as written.
Acknowledged(b) ==
    LET c == client[b].call
    IN  {[key |-> Key(Offered(b, i)), value |-> c.batch[i].value,
          stated |-> c.batch[i].claim # None, asked |-> c.asked] : i \in DOMAIN c.batch}

Return(b) ==
    /\ client[b].call # None /\ ~Executing(b)
    /\ client' = [client EXCEPT ![b].call = None,
                                ![b].told = @ \cup Acknowledged(b)]
    /\ UNCHANGED <<clock, rows, runs, txn>>

-----------------------------------------------------------------------------
(* The end of a block.                                                     *)

\* End of block b, whose client sees it end as how.
EndBlock(b, how) ==
    /\ txn' = [txn EXCEPT ![b] = Idle]
    /\ client' = [client EXCEPT ![b].call = None, ![b].ended = how]

Publish(b) ==
    /\ rows' = rows \cup txn[b].rows
    /\ runs' = runs \cup txn[b].runs

\* Normal exit issues COMMIT; of a failed transaction the server makes a
\* ROLLBACK, without an error.
Leave(b) ==
    /\ client[b].call = None
    /\ \/ txn[b].status = "open" /\ Publish(b) /\ EndBlock(b, "committed")
       \/ txn[b].status = "failed" /\ EndBlock(b, "discarded") /\ UNCHANGED <<rows, runs>>
    /\ UNCHANGED clock

\* An exception leaves the block, or the connection or the process is lost.
Abandon(b) ==
    /\ txn[b].status # "idle"
    /\ EndBlock(b, "raised")
    /\ UNCHANGED <<clock, rows, runs>>

\* The connection is lost after the server committed: the caller sees an
\* exception all the same.
LoseCommitReply(b) ==
    /\ client[b].call = None /\ txn[b].status = "open"
    /\ Publish(b)
    /\ EndBlock(b, "raised")
    /\ UNCHANGED clock

Tick ==
    /\ clock < MaxTime
    /\ clock' = clock + 1
    /\ UNCHANGED <<rows, runs, txn, client>>

Write(b) ==
    \E t \in Tables, batch \in Batches :
        \/ WriteActuals(b, t, batch)
        \/ WritePredictors(b, t, batch)
        \/ \E available \in Claims, ordered \in BOOLEAN :
              WriteForecast(b, t, batch, available, ordered)

\* How the statement in progress ends once nothing blocks it.
Statement(b) ==
    InsertRow(b) \/ SkipRow(b) \/ Redeliver(b) \/ Conflict(b) \/ DuplicateTarget(b)

Next ==
    \/ Tick
    \/ \E b \in Blocks :
          \/ Read(b) \/ Write(b)
          \/ Statement(b) \/ ClientFault(b) \/ DeadlockVictim(b) \/ Return(b)
          \/ Leave(b) \/ Abandon(b) \/ LoseCommitReply(b)

Spec == Init /\ [][Next]_vars

\* The server runs a statement once it is free to (its lock queues are FIFO,
\* hence strong fairness), aborts a member of every wait cycle, the write
\* functions are loops without waits of their own, and the code between two
\* calls of a block is finite.
FairSpec ==
    /\ Spec
    /\ \A b \in Blocks : SF_vars(Statement(b)) /\ WF_vars(Return(b)) /\ SF_vars(Leave(b))
    /\ WF_vars(\E b \in Blocks : DeadlockVictim(b))
-----------------------------------------------------------------------------
(* Properties.                                                             *)

\* Every variable keeps its type (the row shapes of ddl.py).
TypeOK ==
    /\ clock \in 0..MaxTime
    /\ rows \subseteq Row
    /\ runs \subseteq Run
    /\ txn \in [Blocks -> Txn]
    /\ client \in [Blocks -> Client]

\* A single-belief instance never holds two beliefs about a target, whichever
\* blocks delivered them and however their statements interleaved
\* (write_actuals, the PK switch of _points_table).
OneBeliefPerTarget ==
    \A x, y \in rows :
        x.table \in SingleBelief /\ x.table = y.table /\ x.target = y.target => x = y

\* The store holds the acknowledged belief x.  On revisioned actuals and
\* predictors a colliding row is a retcon and the first one wins, so only the
\* coordinates are promised there.
Holds(x) ==
    \E r \in rows : /\ Key(r) = x.key
                    /\ r.table \in SingleBelief \cup Logs => r.value = x.value

\* Once a block whose transaction was not aborted has been left normally, the
\* store holds every belief its returned calls wrote: nothing another block
\* did, and no refused or faulted call that the caller caught in between,
\* loses one of them (write_actuals, write_predictors, write_forecast, Store.connect).
AcknowledgedStored ==
    \A b \in Blocks : client[b].ended = "committed" => \A x \in client[b].told : Holds(x)

\* At most one row of S has a key.
UniqueIn(S) == \A x, y \in S : Key(x) = Key(y) => x = y

\* Why concurrent blocks cannot store two rows under a key: what a block has
\* inserted is locked by it alone, and each key is taken once in what the block
\* would commit (the statements of write.py under the primary keys of ddl.py).
KeysHeld ==
    /\ UniqueIn(rows)
    /\ \A b \in Blocks : UniqueIn(rows \cup txn[b].rows)
    /\ \A b \in Blocks : \A r \in txn[b].rows : Key(r) \in txn[b].locks
    /\ \A a, b \in Blocks : a # b => txn[a].locks \cap txn[b].locks = {}

\* A write call is only ever in progress inside an open transaction.
CallInTransaction ==
    \A b \in Blocks : client[b].call # None => txn[b].status = "open"

\* What an open block would commit carries the instant its transaction began,
\* which has passed; a block without an open transaction holds nothing
\* (recorded_at DEFAULT now()).
Stamped ==
    \A b \in Blocks :
        /\ \A r \in txn[b].rows : r.recorded = txn[b].began
        /\ \A u \in txn[b].runs : u.recorded = txn[b].began
        /\ txn[b].status # "open" => txn[b].rows = {} /\ txn[b].runs = {}

\* What a read pinned at recorded_at <= p returns from.
SeenRows(p) == {r \in rows : r.recorded <= p}

SeenRuns(p) == {u \in runs : u.recorded <= p}

\* The pin is in the past and no transaction that began at or before it is open.
Quiet(p) == p < clock /\ \A b \in Blocks : txn[b].status = "open" => p < txn[b].began

\* A pinned read is reproducible once every transaction that began at or
\* before the pin has ended: no write, retry or re-delivery changes it again
\* (recorded_at DEFAULT now(); the guarantee of spec 9.2 in the form the code
\* gives it).
PinStableWhenQuiet ==
    [][\A p \in 0..MaxTime :
          Quiet(p) => SeenRows(p)' = SeenRows(p) /\ SeenRuns(p)' = SeenRuns(p)]_vars

\* A pin never splits a run: it sees the run row and all the run's points or
\* none of them, all under the run's knowledge time; and no point of a log is
\* without its run (module docstring of write.py).
RunNeverSplit ==
    /\ \A r \in rows : r.table \in Logs => \E u \in runs : u.id = r.run
    /\ \A r \in rows, u \in runs : r.run = u.id =>
          /\ r.available = u.available
          /\ \A p \in 0..MaxTime : r \in SeenRows(p) <=> u \in SeenRuns(p)

\* The tables implement the abstract log of beliefs (spec 4.1: append-only, a
\* unit of work commits together).
Abstract == INSTANCE BeliefLog WITH
    rows <- rows, runs <- runs, SingleBelief <- SingleBelief, Logs <- Logs
ImplementsLog == Abstract!Spec

\* Every write call returns or raises, however the blocks' batches overlap and
\* in whichever order they name their targets (executemany under row locks).
CallEnds == \A b \in Blocks : client[b].call # None ~> client[b].call = None

-----------------------------------------------------------------------------
(* What the documentation says and the code does not do.                   *)

\* "Pin recorded_at and evaluations reproduce exactly, forever" (README): a pin
\* in the past, whatever transactions are open.
PinStableForever ==
    [][\A p \in 0..MaxTime : p < clock => SeenRows(p)' = SeenRows(p)]_vars
=============================================================================
