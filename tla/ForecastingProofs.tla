------------------------- MODULE ForecastingProofs -------------------------
(***************************************************************************)
(* Proofs about Forecasting.  Whatever predictions fail, connections die    *)
(* and writes are repeated, last_run_id names a stored run, compute bounds  *)
(* are a run's own, stored points lie on the registered grid, and the       *)
(* leakage audit is clean, for every horizon, interval and number of        *)
(* attempts.                                                                *)
(***************************************************************************)
EXTENDS Forecasting, TLAPS

\* The fields of a run and of the callback.
RunShape(r) ==
    r = [id |-> r.id, first |-> r.first, available |-> r.available, started |-> r.started,
         finished |-> r.finished, end |-> r.end, begun |-> r.begun, grid |-> r.grid,
         observed |-> r.observed, newest |-> r.newest]

CallShape(c) ==
    c = [pc |-> c.pc, started |-> c.started, begun |-> c.begun, last |-> c.last,
         pending |-> c.pending, attempts |-> c.attempts, outcome |-> c.outcome]

\* A run's compute bounds are those of its own prediction.
OwnBounds(r) ==
    /\ r.started = r.begun
    /\ r.started # None => r.finished = r.available /\ r.started <= r.finished

Regular(r) == r.grid \in ResultIntervals /\ r.available \in Nat /\ r.id \in Nat /\ OwnBounds(r)

\* Its points lie on the registered grid.
OnGrid(r, interval) == \A t \in Points(r.available, r.grid) : t % interval = 0

\* A start is at hand while a prediction runs; one left behind by a failure stays in
\* the callback, but no prediction is under way that could use it.
Measured ==
    /\ call.pc = "predicting" =>
          call.started = call.begun /\ call.begun \in Nat /\ call.begun <= now
    /\ call.pc # "predicting" => call.begun = None

\* An open block holds the run last numbered, which fits the registry.
Pending ==
    /\ call.pc = "open" \/ call.pending # None =>
          RunShape(call.pending) /\ Regular(call.pending)
    /\ call.pc = "open" =>
          /\ call.outcome = None /\ call.last = call.attempts
          /\ call.pending.id = call.attempts
          /\ registered # None => OnGrid(call.pending, registered)

\* Committed runs were numbered before, and share the registered grid.
Committed ==
    \A r \in runs : /\ Regular(r) /\ registered # None /\ OnGrid(r, registered)
                    /\ r.id <= call.attempts
                    /\ call.pc = "open" => r.id < call.attempts

\* The inductive invariant.
IInv ==
    /\ now \in Nat /\ registered \in OrNone(ResultIntervals)
    /\ CallShape(call) /\ call.attempts \in Nat
    /\ Measured /\ Pending /\ Committed /\ ReturnedIsStored

LEMMA Initially == ASSUME Init PROVE IInv
<1>1. call = [pc |-> "idle", started |-> None, begun |-> None, last |-> None,
              pending |-> None, attempts |-> 0, outcome |-> None]
  BY DEF Init
<1>2. /\ call.pc = "idle" /\ call.begun = None /\ call.pending = None /\ call.attempts = 0
      /\ call.outcome = None
  BY <1>1
<1>3. CallShape(call)
  BY <1>1 DEF CallShape
<1>. QED
  BY <1>2, <1>3, ForecastingAssumption
     DEF Init, IInv, Measured, Pending, Committed, ReturnedIsStored, OrNone

-----------------------------------------------------------------------------
(* The world around the callback.                                           *)

LEMMA TickKeeps == ASSUME IInv, Tick PROVE IInv'
  BY DEF Tick, IInv, CallShape, Measured, Pending, Committed, ReturnedIsStored, RunShape,
         Regular, OwnBounds, OnGrid, Points

LEMMA AsideKeeps ==
    ASSUME IInv, UNCHANGED <<now, registered, runs, call>> PROVE IInv'
  BY DEF IInv, CallShape, Measured, Pending, Committed, ReturnedIsStored, RunShape,
         Regular, OwnBounds, OnGrid, Points

LEMMA RegisterKeeps ==
    ASSUME IInv, NEW interval \in ResultIntervals, Register(interval) PROVE IInv'
<1>1. runs = {} /\ call.pc # "open"
  BY DEF Register, IInv, Committed
<1>. QED
  BY <1>1 DEF Register, IInv, CallShape, Measured, Pending, Committed, ReturnedIsStored,
              RunShape, Regular, OwnBounds, OrNone

-----------------------------------------------------------------------------
(* The callback.                                                            *)

\* A step of the callback that stores nothing: what is left to show.
LEMMA CallStep ==
    ASSUME IInv, UNCHANGED <<now, registered, runs>>, CallShape(call'), call'.attempts \in Nat,
           Measured', Pending', call'.attempts >= call.attempts,
           call'.pc = "open" => call'.attempts > call.attempts,
           call'.outcome = "returned" => call.outcome = "returned" /\ call'.last = call.last
    PROVE  IInv'
<1>1. Committed'
  <2>1. \A r \in runs : r.id \in Nat /\ r.id <= call.attempts
    BY DEF IInv, Committed, Regular
  <2>2. call.attempts \in Nat
    BY DEF IInv
  <2>. QED
    BY <2>1, <2>2 DEF IInv, Committed, Regular, OwnBounds, OnGrid, Points
<1>. QED
  BY <1>1 DEF IInv, ReturnedIsStored, CallShape

LEMMA StartKeeps == ASSUME IInv, PredictStart PROVE IInv'
<1>1. call' = [pc |-> "predicting", started |-> now, begun |-> now, last |-> call.last,
               pending |-> call.pending, attempts |-> call.attempts, outcome |-> call.outcome]
  BY DEF PredictStart, IInv, CallShape
<1>2. UNCHANGED <<now, registered, runs>>
  BY DEF PredictStart
<1>3. CallShape(call') /\ Measured'
  BY <1>1, <1>2 DEF CallShape, Measured, IInv
<1>4. Pending'
  BY <1>1, <1>2 DEF Pending, IInv, RunShape, Regular, OwnBounds
<1>. QED
  BY <1>1, <1>2, <1>3, <1>4, CallStep DEF IInv

LEMMA FailKeeps == ASSUME IInv, PredictFails PROVE IInv'
<1>1. call' = [pc |-> "idle", started |-> call.started, begun |-> None, last |-> call.last,
               pending |-> call.pending, attempts |-> call.attempts, outcome |-> call.outcome]
  BY DEF PredictFails, IInv, CallShape
<1>2. UNCHANGED <<now, registered, runs>>
  BY DEF PredictFails
<1>3. CallShape(call') /\ Measured'
  BY <1>1, <1>2 DEF CallShape, Measured, IInv
<1>4. Pending'
  BY <1>1, <1>2 DEF Pending, IInv, RunShape, Regular, OwnBounds
<1>. QED
  BY <1>1, <1>2, <1>3, <1>4, CallStep DEF IInv

\* A block is opened for a regular run, or the run is refused.
LEMMA PersistKeeps ==
    ASSUME IInv, NEW run, RunShape(run), Regular(run), run.id = call.attempts + 1,
           NEW taken, CallShape(taken), taken.begun = None, taken.attempts = call.attempts,
           Persist(run, taken), UNCHANGED <<now, registered, runs>>
    PROVE  IInv'
<1>1. call.attempts \in Nat /\ registered \in OrNone(ResultIntervals)
  BY DEF IInv
<1>2. CASE Accepted(run)
  <2>1. call' = [pc |-> "open", started |-> taken.started, begun |-> None, last |-> run.id,
                 pending |-> run, attempts |-> run.id, outcome |-> None]
    BY <1>2 DEF Persist, CallShape
  <2>2. CallShape(call') /\ Measured'
    BY <2>1 DEF CallShape, Measured
  <2>3. registered # None => OnGrid(run, registered)
    BY <1>2 DEF Accepted, OnGrid
  <2>4. Pending'
    BY <2>1, <2>3 DEF Pending, RunShape, Regular, OwnBounds, OnGrid, Points
  <2>. QED
    BY <1>1, <2>1, <2>2, <2>4, CallStep, ForecastingAssumption
<1>3. CASE ~Accepted(run)
  <2>1. call' = [pc |-> "idle", started |-> taken.started, begun |-> None, last |-> taken.last,
                 pending |-> None, attempts |-> call.attempts, outcome |-> "raised"]
    BY <1>3 DEF Persist, CallShape
  <2>2. CallShape(call') /\ Measured' /\ Pending'
    BY <2>1 DEF CallShape, Measured, Pending
  <2>. QED
    BY <1>1, <2>1, <2>2, CallStep
<1>. QED
  BY <1>2, <1>3

\* The start is taken from the callback.
LEMMA TakenIs ==
    ASSUME CallShape(call)
    PROVE  [call EXCEPT !.started = None, !.begun = None] =
               [pc |-> call.pc, started |-> None, begun |-> None, last |-> call.last,
                pending |-> call.pending, attempts |-> call.attempts, outcome |-> call.outcome]
<1>1. call = [pc |-> call.pc, started |-> call.started, begun |-> call.begun,
              last |-> call.last, pending |-> call.pending, attempts |-> call.attempts,
              outcome |-> call.outcome]
  BY DEF CallShape
<1>. DEFINE once == [call EXCEPT !.started = None]
<1>2. [call EXCEPT !.started = None, !.begun = None] = [once EXCEPT !.begun = None]
  OBVIOUS
<1>3. once = [pc |-> call.pc, started |-> None, begun |-> call.begun, last |-> call.last,
              pending |-> call.pending, attempts |-> call.attempts, outcome |-> call.outcome]
  BY <1>1
<1>. HIDE DEF once
<1>. QED
  BY <1>2, <1>3

LEMMA EndKeeps ==
    ASSUME IInv, NEW interval \in ResultIntervals, PredictEnd(interval) PROVE IInv'
<1>. DEFINE run == [id |-> call.attempts + 1, first |-> call.attempts + 1, available |-> now,
                started |-> call.started, finished |-> IF call.started = None THEN None ELSE now,
                end |-> IF frame = None THEN None ELSE frame.end, begun |-> call.begun,
                grid |-> interval,
                observed |-> IF frame = None THEN None ELSE frame.observed,
                newest |-> IF frame = None THEN None ELSE frame.newest]
            taken == [call EXCEPT !.started = None, !.begun = None]
<1>1. /\ Persist(run, taken) /\ UNCHANGED <<now, registered, runs>>
      /\ call.pc = "predicting" \/ (call.pc = "idle" /\ call.started = None)
  BY DEF PredictEnd
<1>2. /\ now \in Nat /\ call.attempts \in Nat /\ CallShape(call)
      /\ call.pc = "predicting" => call.started = call.begun /\ call.begun <= now
      /\ call.pc = "idle" => call.begun = None
  BY DEF IInv, Measured
<1>3. RunShape(run)
  BY DEF RunShape
<1>4. /\ run.id = call.attempts + 1 /\ run.available = now /\ run.grid = interval
      /\ run.started = call.started /\ run.begun = call.begun
      /\ run.started # None => run.finished = now
  OBVIOUS
<1>. HIDE DEF run
<1>5. taken = [pc |-> call.pc, started |-> None, begun |-> None, last |-> call.last,
               pending |-> call.pending, attempts |-> call.attempts, outcome |-> call.outcome]
  BY <1>2, TakenIs
<1>. HIDE DEF taken
<1>6. Regular(run)
  <2>1. run.id \in Nat /\ run.available \in Nat /\ run.grid \in ResultIntervals
    BY <1>2, <1>4
  <2>2. call.pc = "predicting" => OwnBounds(run)
    BY <1>2, <1>4 DEF OwnBounds
  <2>3. call.pc = "idle" /\ call.started = None => OwnBounds(run)
    BY <1>2, <1>4 DEF OwnBounds
  <2>. QED
    BY <1>1, <2>1, <2>2, <2>3 DEF Regular
<1>7. CallShape(taken) /\ taken.begun = None /\ taken.attempts = call.attempts
  BY <1>5 DEF CallShape
<1>. QED
  BY <1>1, <1>3, <1>4, <1>6, <1>7, PersistKeeps

LEMMA RepeatKeeps == ASSUME IInv, Repeat PROVE IInv'
<1>. DEFINE run == [call.pending EXCEPT !.id = call.attempts + 1]
<1>1. /\ Persist(run, call) /\ UNCHANGED <<now, registered, runs>>
      /\ call.pc = "idle" /\ call.pending # None
  BY DEF Repeat
<1>2. /\ RunShape(call.pending) /\ Regular(call.pending) /\ call.attempts \in Nat
      /\ CallShape(call) /\ call.begun = None
  BY <1>1 DEF IInv, Measured, Pending
<1>3. run = [id |-> call.attempts + 1, first |-> call.pending.first,
             available |-> call.pending.available,
             started |-> call.pending.started, finished |-> call.pending.finished,
             end |-> call.pending.end, begun |-> call.pending.begun,
             grid |-> call.pending.grid, observed |-> call.pending.observed,
             newest |-> call.pending.newest]
  BY <1>2 DEF RunShape
<1>. HIDE DEF run
<1>4. RunShape(run)
  BY <1>3 DEF RunShape
<1>5. Regular(run) /\ run.id = call.attempts + 1
  BY <1>2, <1>3 DEF Regular, OwnBounds
<1>. QED
  BY <1>1, <1>2, <1>4, <1>5, PersistKeeps

\* The stored run is regular, newest, and on the grid its commit leaves registered.
LEMMA StoredKeeps ==
    ASSUME IInv, call.pc = "open", Stored, UNCHANGED now, NEW outcome, NEW pending,
           pending \in {None, call.pending},
           call' = [call EXCEPT !.pc = "idle", !.pending = pending, !.outcome = outcome]
    PROVE  IInv'
<1>1. /\ RunShape(call.pending) /\ Regular(call.pending) /\ call.last = call.attempts
      /\ call.pending.id = call.attempts /\ call.attempts \in Nat /\ call.begun = None
      /\ registered # None => OnGrid(call.pending, registered)
      /\ registered \in OrNone(ResultIntervals)
  BY DEF IInv, Pending, Measured
<1>2. call' = [pc |-> "idle", started |-> call.started, begun |-> call.begun,
               last |-> call.last, pending |-> pending, attempts |-> call.attempts,
               outcome |-> outcome]
  BY DEF IInv, CallShape
<1>3. /\ runs' = runs \cup {call.pending}
      /\ registered' = IF registered = None THEN call.pending.grid ELSE registered
  BY DEF Stored
<1>4. CallShape(call') /\ Measured'
  BY <1>1, <1>2 DEF CallShape, Measured
<1>5. Pending'
  BY <1>1, <1>2 DEF Pending, RunShape, Regular, OwnBounds
<1>6. registered' \in OrNone(ResultIntervals) /\ registered' # None
  BY <1>1, <1>3, ForecastingAssumption DEF OrNone, Regular
<1>7. OnGrid(call.pending, registered')
  BY <1>1, <1>3 DEF OnGrid, Points
<1>8. \A r \in runs : Regular(r) /\ r.id <= call.attempts /\ OnGrid(r, registered')
  BY <1>1, <1>3 DEF IInv, Committed
<1>9. Committed'
  <2>1. \A r \in runs' : Regular(r) /\ r.id <= call.attempts /\ OnGrid(r, registered')
    BY <1>1, <1>3, <1>7, <1>8
  <2>. QED
    BY <1>2, <1>6, <2>1 DEF Committed, Regular, OwnBounds, OnGrid, Points
<1>10. ReturnedIsStored'
  BY <1>1, <1>2, <1>3 DEF ReturnedIsStored
<1>. QED
  BY <1>2, <1>1, <1>4, <1>5, <1>6, <1>9, <1>10 DEF IInv

LEMMA LoseKeeps == ASSUME IInv, LoseBlock PROVE IInv'
<1>1. call' = [pc |-> "idle", started |-> call.started, begun |-> call.begun,
               last |-> call.last, pending |-> call.pending, attempts |-> call.attempts,
               outcome |-> "raised"]
  BY DEF LoseBlock, IInv, CallShape
<1>2. UNCHANGED <<now, registered, runs>> /\ call.pc = "open"
  BY DEF LoseBlock
<1>3. CallShape(call') /\ Measured'
  BY <1>1, <1>2 DEF CallShape, Measured, IInv
<1>4. Pending'
  BY <1>1, <1>2 DEF Pending, IInv, RunShape, Regular, OwnBounds
<1>. QED
  BY <1>1, <1>2, <1>3, <1>4, CallStep DEF IInv

LEMMA Inductive == ASSUME IInv, [Next]_vars PROVE IInv'
<1>1. ASSUME NEW t \in Grid, Measure(t) PROVE IInv'
  BY <1>1, AsideKeeps DEF Measure
<1>2. ASSUME NEW start \in Grid, ReadContext(start) PROVE IInv'
  BY <1>2, AsideKeeps DEF ReadContext
<1>3. CASE Commit
  <2>1. /\ call' = [call EXCEPT !.pc = "idle", !.pending = None, !.outcome = "returned"]
        /\ call.pc = "open" /\ Stored /\ UNCHANGED now
    BY <1>3 DEF Commit
  <2>. QED
    BY <2>1, StoredKeeps
<1>4. CASE LoseCommitReply
  <2>1. /\ call' = [call EXCEPT !.pc = "idle", !.pending = call.pending, !.outcome = "raised"]
        /\ call.pc = "open" /\ Stored /\ UNCHANGED now
    BY <1>4 DEF LoseCommitReply, IInv, CallShape
  <2>. QED
    BY <2>1, StoredKeeps
<1>5. CASE UNCHANGED vars
  BY <1>5, AsideKeeps DEF vars
<1>. QED
  BY <1>1, <1>2, <1>3, <1>4, <1>5, TickKeeps, RegisterKeeps, StartKeeps, FailKeeps, EndKeeps,
     RepeatKeeps, LoseKeeps DEF Next

-----------------------------------------------------------------------------
(* The theorems.                                                            *)

LEMMA Invariance == Spec => []IInv
  BY Initially, Inductive, PTL DEF Spec

\* After on_predict_end returned, last_run_id names a stored run, whatever was lost
\* and repeated before (ForecastStoreCallback).
THEOREM ReturnedStays == Spec => []ReturnedIsStored
<1>1. IInv => ReturnedIsStored
  BY DEF IInv
<1>. QED
  BY <1>1, Invariance, PTL

\* No run carries a compute start that another prediction, failed or not, left
\* behind (on_predict_start, on_predict_end).
THEOREM BoundsStayOwn == Spec => []BoundsAreOwn
<1>1. IInv => BoundsAreOwn
  BY DEF IInv, Committed, Regular, OwnBounds, BoundsAreOwn
<1>. QED
  BY <1>1, Invariance, PTL

\* Every stored point lies on the registered grid, whoever registered the series
\* and whatever interval the predictions carry (_persist, check_grid).
THEOREM RunsStayOnGrid == Spec => []RunsOnGrid
<1>1. IInv => RunsOnGrid
  BY DEF IInv, Committed, OnGrid, RunsOnGrid
<1>. QED
  BY <1>1, Invariance, PTL

-----------------------------------------------------------------------------
(* Predictions stored twice.                                                *)

\* What is stored of the prediction a caller may still repeat was stored by blocks
\* whose commit was not answered.  A prediction's first number is none of a later one.
Repeated ==
    /\ StoredTwiceOnlyIfLost
    /\ \A r \in runs : r.first \in Nat /\ r.first <= r.id
    /\ call.pc = "open" \/ call.pending # None =>
          \A r \in runs : r.first = call.pending.first => r.id \in lost
    /\ call.pc = "open" \/ call.pending # None =>
          call.pending.first \in Nat /\ call.pending.first <= call.attempts

LEMMA OtherwiseRepeated ==
    ASSUME IInv, Repeated,
           \/ Tick \/ (\E t \in Grid : Measure(t))
           \/ (\E interval \in ResultIntervals : Register(interval))
           \/ (\E start \in Grid : ReadContext(start))
           \/ PredictStart \/ PredictFails \/ LoseBlock \/ UNCHANGED vars
    PROVE  Repeated'
<1>1. UNCHANGED <<runs, lost>>
  BY DEF Tick, Measure, Register, ReadContext, PredictStart, PredictFails, LoseBlock, vars
<1>2. /\ call'.pending = call.pending /\ call'.attempts = call.attempts
      /\ call'.pc = "open" => call.pc = "open"
  BY DEF Tick, Measure, Register, ReadContext, PredictStart, PredictFails, LoseBlock, vars,
         IInv, CallShape
<1>3. call'.pc = "open" \/ call'.pending # None => call.pc = "open" \/ call.pending # None
  BY <1>2
<1>. QED
  BY <1>1, <1>2, <1>3 DEF Repeated, StoredTwiceOnlyIfLost

LEMMA PersistRepeated ==
    ASSUME Repeated, NEW run, NEW taken, CallShape(taken), Persist(run, taken),
           run.first \in Nat, run.first <= run.id,
           \A r \in runs : r.first = run.first => r.id \in lost, UNCHANGED <<runs, lost>>
    PROVE  Repeated'
<1>1. CASE Accepted(run)
  <2>1. call'.pending = run /\ call'.attempts = run.id
    BY <1>1 DEF Persist, CallShape
  <2>. QED
    BY <2>1 DEF Repeated, StoredTwiceOnlyIfLost
<1>2. CASE ~Accepted(run)
  <2>1. call'.pc = "idle" /\ call'.pending = None
    BY <1>2 DEF Persist, CallShape
  <2>. QED
    BY <2>1 DEF Repeated, StoredTwiceOnlyIfLost
<1>. QED
  BY <1>1, <1>2

\* A new prediction has a number that none before it had.
LEMMA EndRepeated ==
    ASSUME IInv, Repeated, NEW interval \in ResultIntervals, PredictEnd(interval)
    PROVE  Repeated'
<1>. DEFINE run == [id |-> call.attempts + 1, first |-> call.attempts + 1, available |-> now,
                started |-> call.started, finished |-> IF call.started = None THEN None ELSE now,
                end |-> IF frame = None THEN None ELSE frame.end, begun |-> call.begun,
                grid |-> interval,
                observed |-> IF frame = None THEN None ELSE frame.observed,
                newest |-> IF frame = None THEN None ELSE frame.newest]
            taken == [call EXCEPT !.started = None, !.begun = None]
<1>1. Persist(run, taken) /\ UNCHANGED <<runs, lost>>
  BY DEF PredictEnd
<1>2. taken = [pc |-> call.pc, started |-> None, begun |-> None, last |-> call.last,
               pending |-> call.pending, attempts |-> call.attempts, outcome |-> call.outcome]
  BY TakenIs DEF IInv
<1>3. run.first = call.attempts + 1 /\ run.id = call.attempts + 1
  OBVIOUS
<1>. HIDE DEF run, taken
<1>4. CallShape(taken)
  BY <1>2 DEF CallShape
<1>5. \A r \in runs : r.first # run.first
  <2>1. call.attempts \in Nat
    BY DEF IInv
  <2>2. \A r \in runs : r.id \in Nat /\ r.id <= call.attempts
    BY DEF IInv, Committed, Regular
  <2>3. \A r \in runs : r.first \in Nat /\ r.first <= r.id
    BY DEF Repeated
  <2>. QED
    BY <1>3, <2>1, <2>2, <2>3
<1>6. run.first \in Nat /\ run.first <= run.id
  BY <1>3 DEF IInv
<1>. QED
  BY <1>1, <1>4, <1>5, <1>6, PersistRepeated

LEMMA RepeatRepeated == ASSUME IInv, Repeated, Repeat PROVE Repeated'
<1>. DEFINE run == [call.pending EXCEPT !.id = call.attempts + 1]
<1>1. /\ Persist(run, call) /\ UNCHANGED <<runs, lost>> /\ call.pending # None
  BY DEF Repeat
<1>2. RunShape(call.pending) /\ CallShape(call) /\ call.attempts \in Nat
  BY <1>1 DEF IInv, Pending
<1>3. run.first = call.pending.first /\ run.id = call.attempts + 1
  BY <1>2 DEF RunShape
<1>. HIDE DEF run
<1>4. call.pending.first \in Nat /\ call.pending.first <= call.attempts + 1
  <2>1. call.pending.first \in Nat /\ call.pending.first <= call.attempts
    BY <1>1 DEF Repeated
  <2>. QED
    BY <1>2, <2>1
<1>5. \A r \in runs : r.first = run.first => r.id \in lost
  BY <1>1, <1>3 DEF Repeated
<1>. QED
  BY <1>1, <1>2, <1>3, <1>4, <1>5, PersistRepeated

\* The stored run has a greater number than the others of its prediction, whose
\* commits were not answered.
LEMMA StoredRepeated ==
    ASSUME IInv, Repeated, Commit \/ LoseCommitReply PROVE Repeated'
<1>1. /\ runs' = runs \cup {call.pending} /\ call.pc = "open"
      /\ lost' = lost \/ lost' = lost \cup {call.pending.id}
  BY DEF Commit, LoseCommitReply, Stored
<1>2. /\ call.pending.id = call.attempts /\ call.attempts \in Nat
      /\ \A r \in runs : r.id \in Nat /\ r.id < call.attempts
  BY <1>1 DEF IInv, Pending, Committed, Regular
<1>3. /\ call'.pc = "idle" /\ call'.attempts = call.attempts
      /\ call'.pending = None
         \/ (call'.pending = call.pending /\ lost' = lost \cup {call.pending.id})
  BY DEF Commit, LoseCommitReply, IInv, CallShape
<1>4. StoredTwiceOnlyIfLost'
  <2>. SUFFICES ASSUME NEW r \in runs', NEW s \in runs', r.first = s.first, r.id < s.id
                PROVE  r.id \in lost
    BY <1>1 DEF StoredTwiceOnlyIfLost
  <2>1. r \in runs
    BY <1>1, <1>2
  <2>. QED
    BY <1>1, <2>1 DEF Repeated, StoredTwiceOnlyIfLost
<1>5. \A r \in runs' : r.first \in Nat /\ r.first <= r.id
  BY <1>1, <1>2 DEF Repeated
<1>6. call'.pending # None => \A r \in runs' : r.first = call'.pending.first => r.id \in lost'
  BY <1>1, <1>3 DEF Repeated
<1>. QED
  BY <1>1, <1>3, <1>4, <1>5, <1>6 DEF Repeated

LEMMA RepeatedStart == ASSUME Init PROVE Repeated
<1>1. call.pc = "idle" /\ call.pending = None /\ runs = {}
  BY DEF Init
<1>. QED
  BY <1>1 DEF Repeated, StoredTwiceOnlyIfLost

\* However often connections are lost and writes repeated, a prediction has two stored
\* runs only if the commit of the earlier one was not answered (write_forecast, connect).
THEOREM TwiceOnlyIfLost == Spec => []StoredTwiceOnlyIfLost
<1>1. Init => Repeated
  BY RepeatedStart
<1>2. IInv /\ Repeated /\ [Next]_vars => Repeated'
  BY OtherwiseRepeated, EndRepeated, RepeatRepeated, StoredRepeated DEF Next
<1>3. Repeated => StoredTwiceOnlyIfLost
  BY DEF Repeated
<1>. QED
  BY <1>1, <1>2, <1>3, Invariance, PTL DEF Spec

-----------------------------------------------------------------------------
(* The reads, with the lemmas about them.                                   *)

Gap == INSTANCE ReadsProofs WITH
    byRun <- FALSE, log <- actuals, open <- {}, writes <- 0, Batches <- {[t \in Grid |-> 1]},
    Claims <- Times, Windows <- Times \X Times, MaxNow <- Horizon, Jobs <- {},
    MaxWrites <- 1, Null <- None

\* A history is a log of measurements on the grid.
LEMMA GapParameters == Gap!Parameters
<1>1. Interval \in Nat \ {0} /\ Horizon \in Nat /\ Horizon \in Times
  BY ForecastingAssumption DEF Times
<1>2. UNION {DOMAIN b : b \in {[t \in Grid |-> 1]}} = Grid
  OBVIOUS
<1>3. Grid \subseteq {t \in Times : t % Interval = 0}
  BY DEF Grid
<1>. QED
  BY <1>1, <1>2, <1>3 DEF Gap!Parameters, Gap!Times, Gap!Targets, Times

LEMMA MaxOf ==
    ASSUME NEW n \in Nat, NEW S, S \subseteq 0 .. n, S # {}
    PROVE  Max(S) \in S /\ \A m \in S : m <= Max(S)
<1>1. Gap!Max(S) = Max(S)
  BY Zenon DEF Gap!Max, Max
<1>2. Gap!Max(S) \in S /\ \A m \in S : m <= Gap!Max(S)
  BY GapParameters, Gap!MaxOf
<1>. QED
  BY <1>1, <1>2

LEMMA OnTheGrid ==
    ASSUME NEW t \in Grid PROVE History!Bucket(t) = t /\ t \in Nat /\ t % Interval = 0
<1>1. t \in Gap!Times /\ t % Interval = 0
  BY DEF Grid, Times, Gap!Times
<1>2. Gap!Bucket(t) = t /\ t \in Nat
  BY <1>1, GapParameters, Gap!OnTheGrid
<1>. QED
  BY <1>1, <1>2 DEF Gap!Bucket, History!Bucket

LEMMA CarriedIs ==
    ASSUME NEW q, q.start \in Grid, q.end \in Nat, NEW raw
    PROVE  /\ DOMAIN History!Carried(q, raw) = History!Buckets(q)
           /\ \A b \in History!Buckets(q) :
                 History!InBucket(q, b) # {} => History!Carried(q, raw)[b] = raw[b]
<1>1. q.start \in Gap!Times /\ q.start % Interval = 0
  BY DEF Grid, Times, Gap!Times
<1>2. /\ DOMAIN Gap!Carried(q, raw) = Gap!Buckets(q)
      /\ \A b \in Gap!Buckets(q) : Gap!InBucket(q, b) # {} => Gap!Carried(q, raw)[b] = raw[b]
  BY <1>1, GapParameters, Gap!CarriedIs
<1>3. \A b : Gap!InBucket(q, b) = History!InBucket(q, b)
  BY DEF Gap!InBucket, Gap!Visible, Gap!Bucket, History!InBucket, History!Visible, History!Bucket
<1>4. Gap!Buckets(q) = History!Buckets(q)
  BY DEF Gap!Buckets, Gap!Times, Gap!Bucket, History!Buckets, History!Times, History!Bucket
<1>5. Gap!Carried(q, raw) = History!Carried(q, raw)
  BY Zenon DEF Gap!Carried, Gap!Buckets, Gap!InBucket, Gap!Visible, Gap!Times, Gap!Bucket,
     History!Carried, History!Buckets, History!InBucket, History!Visible, History!Times,
     History!Bucket
<1>. QED
  BY <1>2, <1>3, <1>4, <1>5

-----------------------------------------------------------------------------
(* What a context tells: the leakage audit.                                 *)

Audited(r) == r.observed # None => r.end <= r.available /\ r.newest <= r.available

\* The measurements are on the grid and were known when they arrived, and a frame
\* that holds one ends, and knows, no later than the clock: with it any run made
\* from it, pending or stored.
Informed ==
    /\ now \in Nat
    /\ \A r \in actuals : r.target \in Grid /\ r.known \in 0 .. now /\ r.value = 1
    /\ frame # None /\ frame.observed # None => frame.end \in 0 .. now /\ frame.newest \in 0 .. now
    /\ call.pc = "open" \/ call.pending # None => Audited(call.pending)
    /\ AuditIsClean

\* A window in which a measurement is visible has a bucket that is not NULL.
LEMMA SeenIsFilled ==
    ASSUME Informed, NEW start \in Grid, NEW window,
           window \in History!Context(History!TargetHistory(start, now, None)),
           History!Visible(History!TargetHistory(start, now, None)) # {}
    PROVE  ContextEnd(window) \in 0 .. now
<1>. DEFINE q == History!TargetHistory(start, now, None)
            filled == {b \in DOMAIN window.value : window.value[b] # None}
<1>1. q.start = start /\ q.end = now /\ now \in Nat /\ Interval \in Nat \ {0} /\ Horizon \in Nat
  BY ForecastingAssumption DEF History!TargetHistory, Informed
<1>. HIDE DEF q
<1>2. PICK r \in History!Visible(q) : TRUE
  BY DEF q
<1>3. /\ r \in actuals /\ start <= r.target /\ r.target < now
      /\ r.target \in Grid /\ r.value = 1
  BY <1>1, <1>2 DEF History!Visible, Informed
<1>. DEFINE b == r.target
<1>4. History!Bucket(b) = b /\ b % Interval = 0 /\ b \in 0 .. Horizon
  BY <1>3, OnTheGrid DEF Grid, Times
<1>5. History!Bucket(start) = start
  BY OnTheGrid
<1>6. b \in History!Buckets(q)
  BY <1>1, <1>3, <1>4, <1>5 DEF History!Buckets, History!Times
<1>7. r \in History!InBucket(q, b)
  BY <1>2, <1>4 DEF History!InBucket
<1>8. PICK raw \in History!Raws(q) : window = [raw |-> raw, value |-> History!Carried(q, raw)]
  BY DEF q, History!Context
<1>9. raw[b] = 1
  <2>1. raw[b] \in {x.value : x \in History!Latest(History!InBucket(q, b))}
    BY <1>6, <1>7 DEF History!Raws, History!Picks
  <2>2. History!Latest(History!InBucket(q, b)) \subseteq actuals
    BY DEF History!Latest, History!InBucket, History!Visible
  <2>. QED
    BY <2>1, <2>2 DEF Informed
<1>10. History!Carried(q, raw)[b] = 1
  <2>1. History!InBucket(q, b) # {}
    BY <1>7
  <2>2. q.start \in Grid /\ q.end \in Nat
    BY <1>1
  <2>. HIDE DEF b
  <2>. QED
    BY <1>6, <1>9, <2>1, <2>2, CarriedIs, Zenon
<1>11. DOMAIN window.value = History!Buckets(q)
  <2>1. q.start \in Grid /\ q.end \in Nat
    BY <1>1
  <2>. QED
    BY <1>8, <2>1, CarriedIs
<1>12. filled \subseteq History!Buckets(q) /\ b \in filled
  <2>1. window.value[b] = 1 /\ 1 # None
    BY <1>8, <1>10, ForecastingAssumption
  <2>. QED
    BY <1>6, <1>11, <2>1
<1>13. \A x \in History!Buckets(q) : x \in 0 .. now
  BY <1>1 DEF History!Buckets, History!Times
<1>14. filled # {} /\ filled \subseteq 0 .. now
  BY <1>12, <1>13, Zenon
<1>15. Max(filled) \in 0 .. now
  <2>. HIDE DEF filled
  <2>. QED
    BY <1>1, <1>14, MaxOf
<1>. QED
  BY <1>14, <1>15 DEF ContextEnd

LEMMA ReadInforms == ASSUME Informed, NEW start \in Grid, ReadContext(start) PROVE Informed'
<1>. DEFINE q == History!TargetHistory(start, now, None)
            seen == History!Visible(q)
<1>1. PICK window \in History!Context(q) :
         frame' = [end |-> ContextEnd(window),
                   observed |-> IF seen = {} THEN None ELSE Max({r.target : r \in seen}),
                   newest |-> IF seen = {} THEN None ELSE Max({r.known : r \in seen})]
  BY DEF ReadContext
<1>2. UNCHANGED <<now, actuals, runs, call>>
  BY DEF ReadContext
<1>3. ASSUME seen # {} PROVE frame'.end \in 0 .. now /\ frame'.newest \in 0 .. now
  <2>. DEFINE knowledge == {r.known : r \in seen}
  <2>1. ContextEnd(window) \in 0 .. now
    BY <1>3, SeenIsFilled
  <2>2. knowledge # {} /\ knowledge \subseteq 0 .. now
    BY <1>3 DEF History!Visible, Informed
  <2>3. now \in Nat
    BY DEF Informed
  <2>4. Max(knowledge) \in 0 .. now
    <3>. HIDE DEF knowledge
    <3>. QED
      BY <2>2, <2>3, MaxOf
  <2>. HIDE DEF seen
  <2>. QED
    BY <1>1, <1>3, <2>1, <2>4
<1>4. seen = {} => frame'.observed = None
  <2>. HIDE DEF seen
  <2>. QED
    BY <1>1
<1>. HIDE DEF seen
<1>5. frame'.observed # None => frame'.end \in 0 .. now /\ frame'.newest \in 0 .. now
  BY <1>3, <1>4
<1>. QED
  BY <1>2, <1>5 DEF Informed, AuditIsClean, Audited

\* Every other step moves the clock, adds a measurement, or passes on what it has.
LEMMA OtherwiseInformed ==
    ASSUME IInv, Informed,
           \/ Tick \/ (\E t \in Grid : Measure(t))
           \/ (\E interval \in ResultIntervals : Register(interval))
           \/ PredictStart \/ PredictFails \/ LoseBlock \/ UNCHANGED vars
    PROVE  Informed'
<1>1. now' \in Nat /\ now <= now' /\ UNCHANGED <<frame, runs>>
  BY DEF Tick, Measure, Register, PredictStart, PredictFails, LoseBlock, vars, Informed
<1>2. \A r \in actuals' : r.target \in Grid /\ r.known \in 0 .. now' /\ r.value = 1
  <2>1. CASE \E t \in Grid : Measure(t)
    <3>1. PICK t \in Grid : Measure(t)
      BY <2>1
    <3>. QED
      BY <3>1 DEF Measure, Informed
  <2>2. CASE UNCHANGED actuals
    BY <1>1, <2>2 DEF Informed
  <2>. QED
    BY <2>1, <2>2 DEF Tick, Register, PredictStart, PredictFails, LoseBlock, vars
<1>3. call'.pc = "open" \/ call'.pending # None => Audited(call'.pending)
  <2>1. call'.pending = call.pending /\ (call'.pc = "open" => call.pc = "open")
    BY DEF Tick, Measure, Register, PredictStart, PredictFails, LoseBlock, vars, IInv, CallShape
  <2>. QED
    BY <2>1 DEF Informed, LoseBlock
<1>. QED
  BY <1>1, <1>2, <1>3 DEF Informed, AuditIsClean, Audited

LEMMA PersistInforms ==
    ASSUME Informed, NEW run, Audited(run), NEW taken, CallShape(taken),
           Persist(run, taken), UNCHANGED <<now, actuals, runs, frame>>
    PROVE  Informed'
<1>1. CASE Accepted(run)
  <2>1. call' = [pc |-> "open", started |-> taken.started, begun |-> taken.begun,
                 last |-> run.id, pending |-> run, attempts |-> run.id, outcome |-> None]
    BY <1>1 DEF Persist, CallShape
  <2>. QED
    BY <2>1 DEF Informed, AuditIsClean, Audited
<1>2. CASE ~Accepted(run)
  <2>1. call' = [pc |-> "idle", started |-> taken.started, begun |-> taken.begun,
                 last |-> taken.last, pending |-> None, attempts |-> taken.attempts,
                 outcome |-> "raised"]
    BY <1>2 DEF Persist, CallShape
  <2>. QED
    BY <2>1 DEF Informed, AuditIsClean, Audited
<1>. QED
  BY <1>1, <1>2

LEMMA EndInforms ==
    ASSUME IInv, Informed, NEW interval \in ResultIntervals, PredictEnd(interval) PROVE Informed'
<1>. DEFINE run == [id |-> call.attempts + 1, first |-> call.attempts + 1, available |-> now,
                started |-> call.started, finished |-> IF call.started = None THEN None ELSE now,
                end |-> IF frame = None THEN None ELSE frame.end, begun |-> call.begun,
                grid |-> interval,
                observed |-> IF frame = None THEN None ELSE frame.observed,
                newest |-> IF frame = None THEN None ELSE frame.newest]
<1>1. Persist(run, [call EXCEPT !.started = None, !.begun = None])
      /\ UNCHANGED <<now, actuals, runs, frame>>
  BY DEF PredictEnd
<1>2. Audited(run)
  BY DEF Audited, Informed
<1>3. CallShape([call EXCEPT !.started = None, !.begun = None])
  BY TakenIs DEF IInv, CallShape
<1>. HIDE DEF run
<1>. QED
  BY <1>1, <1>2, <1>3, PersistInforms

LEMMA RepeatInforms == ASSUME IInv, Informed, Repeat PROVE Informed'
<1>. DEFINE run == [call.pending EXCEPT !.id = call.attempts + 1]
<1>1. /\ Persist(run, call) /\ UNCHANGED <<now, actuals, runs, frame>>
      /\ call.pending # None /\ CallShape(call)
  BY DEF Repeat, IInv
<1>2. RunShape(call.pending)
  BY <1>1 DEF IInv, Pending
<1>3. /\ run.observed = call.pending.observed /\ run.end = call.pending.end
      /\ run.newest = call.pending.newest /\ run.available = call.pending.available
  BY <1>2 DEF RunShape
<1>4. Audited(call.pending)
  BY <1>1 DEF Informed
<1>. HIDE DEF run
<1>5. Audited(run)
  BY <1>3, <1>4 DEF Audited
<1>. QED
  BY <1>1, <1>5, PersistInforms

LEMMA StoredInforms ==
    ASSUME IInv, Informed, Commit \/ LoseCommitReply PROVE Informed'
<1>1. /\ runs' = runs \cup {call.pending} /\ UNCHANGED <<now, actuals, frame>>
      /\ call.pc = "open"
  BY DEF Commit, LoseCommitReply, Stored
<1>2. Audited(call.pending)
  BY <1>1 DEF Informed
<1>3. call'.pc = "idle" /\ call'.pending \in {None, call.pending}
  BY DEF Commit, LoseCommitReply, IInv, CallShape
<1>4. AuditIsClean'
  BY <1>1, <1>2 DEF Informed, AuditIsClean, Audited
<1>. QED
  BY <1>1, <1>2, <1>3, <1>4 DEF Informed, Audited

LEMMA InformedInvariance == Spec => []Informed
<1>1. Init => Informed
  <2>. SUFFICES ASSUME Init PROVE Informed
    OBVIOUS
  <2>1. call.pc = "idle" /\ call.pending = None
    BY DEF Init
  <2>. QED
    BY <2>1 DEF Init, Informed, AuditIsClean
<1>2. IInv /\ Informed /\ [Next]_vars => Informed'
  BY ReadInforms, OtherwiseInformed, EndInforms, RepeatInforms, StoredInforms DEF Next
<1>. QED
  BY <1>1, <1>2, Invariance, PTL DEF Spec

\* The leakage audit finds nothing in a run whose context held a measurement,
\* however late measurements arrive and however often its write was repeated
\* (StoreReader.context, _context_bounds, _persist).
THEOREM AuditStaysClean == Spec => []AuditIsClean
<1>1. Informed => AuditIsClean
  BY DEF Informed
<1>. QED
  BY <1>1, InformedInvariance, PTL

-----------------------------------------------------------------------------
(* Types.                                                                   *)

\* Times of a frame and of the callback are times, and runs are runs.
Typed ==
    /\ now \in Times /\ runs \subseteq Run /\ call.pending \in OrNone(Run)
    /\ call.pc = "open" => call.pending \in Run
    /\ call.started \in OrNone(Times) /\ call.begun \in OrNone(Times)
    /\ frame # None => /\ frame.end \in OrNone(Times) /\ frame.observed \in OrNone(Times)
                       /\ frame.newest \in OrNone(Times)
    /\ \A r, s \in runs : r.id = s.id => r = s

\* The end of a context is a time: of a bucket, or of the covariates.
LEMMA EndIsTime ==
    ASSUME now \in Times, NEW start \in Grid, NEW window,
           window \in History!Context(History!TargetHistory(start, now, None))
    PROVE  ContextEnd(window) \in Times
<1>. DEFINE q == History!TargetHistory(start, now, None)
            filled == {b \in DOMAIN window.value : window.value[b] # None}
<1>1. Horizon \in Nat /\ Interval \in Nat \ {0}
  BY ForecastingAssumption
<1>2. q.start \in Grid /\ q.end \in Nat
  BY <1>1 DEF History!TargetHistory, Times
<1>3. PICK raw : window = [raw |-> raw, value |-> History!Carried(q, raw)]
  BY DEF History!Context
<1>. HIDE DEF q
<1>4. DOMAIN window.value \subseteq 0 .. Horizon
  BY <1>2, <1>3, CarriedIs DEF History!Buckets, History!Times
<1>5. filled # {} => Max(filled) \in Times
  <2>1. filled \subseteq 0 .. Horizon
    BY <1>4
  <2>. HIDE DEF filled
  <2>. QED
    BY <1>1, <2>1, MaxOf DEF Times
<1>6. Max(Grid) \in Times
  <2>1. 0 \in Grid /\ Grid \subseteq 0 .. Horizon
    BY <1>1 DEF Grid, Times
  <2>. QED
    BY <1>1, <2>1, MaxOf DEF Times
<1>. QED
  BY <1>5, <1>6 DEF ContextEnd

LEMMA ReadTyped ==
    ASSUME Informed, Typed, NEW start \in Grid, ReadContext(start) PROVE Typed'
<1>. DEFINE q == History!TargetHistory(start, now, None)
            seen == History!Visible(q)
            targets == {r.target : r \in seen}
            knowledge == {r.known : r \in seen}
<1>1. PICK window \in History!Context(q) :
         frame' = [end |-> ContextEnd(window),
                   observed |-> IF seen = {} THEN None ELSE Max(targets),
                   newest |-> IF seen = {} THEN None ELSE Max(knowledge)]
  BY DEF ReadContext
<1>2. UNCHANGED <<now, actuals, runs, call>>
  BY DEF ReadContext
<1>3. ContextEnd(window) \in Times
  BY EndIsTime DEF Typed
<1>4. Horizon \in Nat /\ now \in 0 .. Horizon
  BY ForecastingAssumption DEF Typed, Times
<1>5. targets \subseteq 0 .. Horizon /\ knowledge \subseteq 0 .. Horizon
  <2>1. seen \subseteq actuals
    BY DEF History!Visible
  <2>. HIDE DEF seen
  <2>. QED
    BY <1>4, <2>1 DEF Informed, Grid, Times
<1>6. seen # {} => targets # {} /\ knowledge # {}
  OBVIOUS
<1>. HIDE DEF seen, targets, knowledge
<1>7. seen # {} => Max(targets) \in Times /\ Max(knowledge) \in Times
  BY <1>4, <1>5, <1>6, MaxOf DEF Times
<1>8. frame'.end \in OrNone(Times) /\ frame'.observed \in OrNone(Times)
      /\ frame'.newest \in OrNone(Times)
  BY <1>1, <1>3, <1>7 DEF OrNone
<1>. QED
  BY <1>2, <1>8 DEF Typed

LEMMA OtherwiseTyped ==
    ASSUME IInv, Typed,
           \/ Tick \/ (\E t \in Grid : Measure(t))
           \/ (\E interval \in ResultIntervals : Register(interval))
           \/ PredictStart \/ PredictFails \/ LoseBlock \/ UNCHANGED vars
    PROVE  Typed'
<1>1. UNCHANGED <<frame, runs>> /\ now' \in Times
  BY ForecastingAssumption
     DEF Tick, Measure, Register, PredictStart, PredictFails, LoseBlock, vars, Typed, Times
<1>2. /\ call'.pending = call.pending /\ (call'.pc = "open" => call.pc = "open")
      /\ call'.started \in {call.started, now} /\ call'.begun \in {call.begun, None, now}
  BY DEF Tick, Measure, Register, PredictStart, PredictFails, LoseBlock, vars, IInv, CallShape
<1>. QED
  BY <1>1, <1>2 DEF Typed, OrNone

LEMMA PersistTyped ==
    ASSUME Typed, NEW run \in Run, NEW taken, CallShape(taken),
           taken.started \in OrNone(Times), taken.begun \in OrNone(Times),
           Persist(run, taken), UNCHANGED <<now, runs, frame>>
    PROVE  Typed'
<1>1. CASE Accepted(run)
  <2>1. call' = [pc |-> "open", started |-> taken.started, begun |-> taken.begun,
                 last |-> run.id, pending |-> run, attempts |-> run.id, outcome |-> None]
    BY <1>1 DEF Persist, CallShape
  <2>. QED
    BY <2>1 DEF Typed, OrNone
<1>2. CASE ~Accepted(run)
  <2>1. call' = [pc |-> "idle", started |-> taken.started, begun |-> taken.begun,
                 last |-> taken.last, pending |-> None, attempts |-> taken.attempts,
                 outcome |-> "raised"]
    BY <1>2 DEF Persist, CallShape
  <2>. QED
    BY <2>1 DEF Typed, OrNone
<1>. QED
  BY <1>1, <1>2

LEMMA EndTyped ==
    ASSUME IInv, Typed, NEW interval \in ResultIntervals, PredictEnd(interval) PROVE Typed'
<1>. DEFINE run == [id |-> call.attempts + 1, first |-> call.attempts + 1, available |-> now,
                started |-> call.started, finished |-> IF call.started = None THEN None ELSE now,
                end |-> IF frame = None THEN None ELSE frame.end, begun |-> call.begun,
                grid |-> interval,
                observed |-> IF frame = None THEN None ELSE frame.observed,
                newest |-> IF frame = None THEN None ELSE frame.newest]
            taken == [call EXCEPT !.started = None, !.begun = None]
<1>1. /\ Persist(run, taken) /\ UNCHANGED <<now, runs, frame>>
      /\ call.attempts < MaxAttempts
  BY DEF PredictEnd
<1>2. taken = [pc |-> call.pc, started |-> None, begun |-> None, last |-> call.last,
               pending |-> call.pending, attempts |-> call.attempts, outcome |-> call.outcome]
  BY TakenIs DEF IInv
<1>3. call.attempts + 1 \in 1 .. MaxAttempts
  BY <1>1, ForecastingAssumption DEF IInv
<1>4. run \in Run
  BY <1>3 DEF Run, Typed, OrNone
<1>. HIDE DEF run, taken
<1>5. CallShape(taken) /\ taken.started \in OrNone(Times) /\ taken.begun \in OrNone(Times)
  BY <1>2 DEF CallShape, OrNone
<1>. QED
  BY <1>1, <1>4, <1>5, PersistTyped

LEMMA RepeatTyped == ASSUME IInv, Typed, Repeat PROVE Typed'
<1>. DEFINE run == [call.pending EXCEPT !.id = call.attempts + 1]
<1>1. /\ Persist(run, call) /\ UNCHANGED <<now, runs, frame>>
      /\ call.pending # None /\ CallShape(call) /\ call.attempts < MaxAttempts
  BY DEF Repeat, IInv
<1>2. call.attempts + 1 \in 1 .. MaxAttempts
  BY <1>1, ForecastingAssumption DEF IInv
<1>3. call.pending \in Run
  BY <1>1 DEF Typed, OrNone
<1>4. run \in Run
  BY <1>2, <1>3 DEF Run
<1>. HIDE DEF run
<1>. QED
  BY <1>1, <1>4, PersistTyped DEF Typed

\* The run that is stored has a number of its own.
LEMMA StoredTyped ==
    ASSUME IInv, Typed, Commit \/ LoseCommitReply PROVE Typed'
<1>1. /\ runs' = runs \cup {call.pending} /\ UNCHANGED <<now, frame>> /\ call.pc = "open"
  BY DEF Commit, LoseCommitReply, Stored
<1>2. /\ call'.pc = "idle" /\ call'.pending \in {None, call.pending}
      /\ call'.started = call.started /\ call'.begun = call.begun
  BY DEF Commit, LoseCommitReply, IInv, CallShape
<1>3. \A r \in runs : r.id # call.pending.id
  <2>1. call.pending.id = call.attempts /\ call.attempts \in Nat
    BY <1>1 DEF IInv, Pending
  <2>2. \A r \in runs : r.id < call.attempts /\ r.id \in Nat
    BY <1>1 DEF IInv, Committed, Regular
  <2>. QED
    BY <2>1, <2>2
<1>. QED
  BY <1>1, <1>2, <1>3 DEF Typed, OrNone

LEMMA TypedStart == ASSUME Init PROVE Typed
<1>1. /\ call.pc = "idle" /\ call.pending = None /\ call.started = None /\ call.begun = None
      /\ runs = {} /\ frame = None /\ now = 0
  BY DEF Init
<1>. QED
  BY <1>1, ForecastingAssumption DEF Typed, OrNone, Times

\* What is read, pending and stored is made of times and registered intervals, and a
\* run_id names one run however often its write is repeated.
THEOREM TypeCorrect == Spec => []TypeOK
<1>1. Init => Typed
  BY TypedStart
<1>2. IInv /\ Informed /\ Typed /\ [Next]_vars => Typed'
  BY ReadTyped, OtherwiseTyped, EndTyped, RepeatTyped, StoredTyped DEF Next
<1>3. IInv /\ Informed /\ Typed => TypeOK
  BY DEF IInv, Informed, Typed, TypeOK
<1>. QED
  BY <1>1, <1>2, <1>3, Invariance, InformedInvariance, PTL DEF Spec
=============================================================================
