------------------------- MODULE EvaluationsProofs -------------------------
(***************************************************************************)
(* Proofs about Evaluations: for any number of workers, metrics and reports *)
(* a metric keeps one series, every committed metric is readable, no load   *)
(* returns a superseded evaluation, and what a load re-derives a report     *)
(* from is what its metrics were computed from: never an older backtest, the *)
(* same one for a single process, the same ground truth under a quiet pin.  *)
(***************************************************************************)
EXTENDS Evaluations, TLAPS

Saves(w) == work[w].pc = "saving"

(* The inductive invariant.                                                 *)

\* Before a load chooses, and when nothing is saved, a worker holds nothing.
HoldsNothing ==
    \A w \in Workers :
        /\ work[w].pc \in {"idle", "backtest", "evaluation"} => work[w].chosen = None
        /\ ~Saves(w) => work[w].used = {} /\ work[w].new = {}
        /\ Saves(w) => work[w].chosen \in EvalRow

\* An id belongs to one evaluation, committed or in progress.
IdsApart ==
    /\ \A e \in evals : e.id <= begun
    /\ \A w \in Workers : Saves(w) =>
          /\ work[w].chosen.id <= begun
          /\ \A e \in evals : e.id # work[w].chosen.id
          /\ \A o \in Workers \ {w} : Saves(o) => work[o].chosen.id # work[w].chosen.id

\* f was begun after committed evaluations only, each recorded before it.
Follows(f) ==
    \A i \in f.after : \E e \in evals : e.id = i

Later(f) == \A e \in evals : e.id \in f.after => e.recorded < f.recorded

\* The clock has passed every commit, and the order of evaluations follows it.
Ordered ==
    /\ \A e \in evals : e.recorded < clock /\ Follows(e) /\ Later(e)
    /\ \A w \in Workers : Saves(w) =>
          work[w].chosen.recorded <= clock /\ Follows(work[w].chosen) /\ Later(work[w].chosen)

\* No two series rows of S have a key in common.
UniqueIn(S) == \A s, t \in S : s.key = t.key => s = t

\* What a save holds is stored or its own, and the rows it has locked are its alone.
SeriesApart ==
    /\ UniqueIn(series)
    /\ \A w \in Workers : UniqueIn(series \cup work[w].new)
    /\ \A w \in Workers : /\ work[w].new \subseteq work[w].used
                          /\ work[w].used \subseteq series \cup work[w].new
    /\ \A w \in Workers : \A o \in Workers \ {w} :
          \A s \in work[w].used, t \in work[o].used : s.key # t.key

\* A key of the report is still to be upserted, or its series row is held.
KeysHeld ==
    \A w \in Workers : Saves(w) =>
        \A k \in work[w].chosen.keys :
            \/ \E i \in DOMAIN work[w].order : work[w].order[i] = k
            \/ \E s \in work[w].used : s.key = k

IInv ==
    /\ TypeOK /\ HoldsNothing /\ IdsApart /\ Ordered
    /\ SeriesApart /\ KeysHeld /\ MetricsReadable

LEMMA IdleType == Idle \in Work
  BY BoundsAssumption DEF Idle, Work

LEMMA Initially == ASSUME Init PROVE IInv
<1>1. TypeOK
  <2>1. truth \in Truth /\ truth.pinned <= truth.all
    BY BoundsAssumption DEF Init, Truth
  <2>. QED
    BY <2>1, IdleType, BoundsAssumption DEF Init, TypeOK
<1>2. \A w \in Workers : work[w] = Idle
  BY DEF Init
<1>. QED
  BY <1>1, <1>2 DEF Init, Idle, IInv, HoldsNothing, IdsApart, Ordered, SeriesApart, UniqueIn,
                    KeysHeld, MetricsReadable, Saves

-----------------------------------------------------------------------------
(* Steps that neither save nor touch the tables.                            *)

\* Worker w is not saving after the step, and the tables are as before.
Aside(w) ==
    /\ UNCHANGED <<evals, series, metrics, begun, clock>>
    /\ TypeOK'
    /\ \A o \in Workers \ {w} : work'[o] = work[o]
    /\ work'[w].pc # "saving" /\ work'[w].used = {} /\ work'[w].new = {}
    /\ work'[w].pc \in {"idle", "backtest", "evaluation"} => work'[w].chosen = None

LEMMA AsideKeeps == ASSUME IInv, NEW w \in Workers, Aside(w) PROVE IInv'
<1>1. \A o \in Workers : Saves(o)' => o # w /\ Saves(o) /\ work'[o] = work[o]
  BY DEF Aside, Saves
<1>2. HoldsNothing'
  BY <1>1 DEF Aside, IInv, HoldsNothing, Saves
<1>3. IdsApart'
  BY <1>1 DEF Aside, IInv, IdsApart
<1>4. Ordered'
  BY <1>1 DEF Aside, IInv, Ordered, Follows, Later
<1>5. SeriesApart'
  BY DEF Aside, IInv, SeriesApart, UniqueIn
<1>6. KeysHeld'
  BY <1>1 DEF Aside, IInv, KeysHeld
<1>7. MetricsReadable'
  BY DEF Aside, IInv, MetricsReadable
<1>. QED
  BY <1>2, <1>3, <1>4, <1>5, <1>6, <1>7 DEF IInv, Aside

\* A worker whose record keeps what it holds steps aside.
LEMMA StepAside ==
    ASSUME IInv, NEW w \in Workers, ~Saves(w), NEW rec \in Work,
           work' = [work EXCEPT ![w] = rec],
           rec.pc # "saving", rec.used = work[w].used, rec.new = work[w].new,
           rec.pc \in {"idle", "backtest", "evaluation"} => rec.chosen = None,
           UNCHANGED <<crew, evals, series, metrics, begun, clock, truth>>,
           backtest' \in 0..MaxBacktests
    PROVE  IInv'
<1>1. work' \in [Workers -> Work] /\ work'[w] = rec
  BY DEF IInv, TypeOK
<1>2. TypeOK'
  BY <1>1 DEF IInv, TypeOK
<1>3. work[w].used = {} /\ work[w].new = {}
  BY DEF IInv, HoldsNothing
<1>4. \A o \in Workers \ {w} : work'[o] = work[o]
  BY DEF IInv, TypeOK
<1>5. Aside(w)
  BY <1>1, <1>2, <1>3, <1>4 DEF Aside
<1>. QED
  BY <1>5, AsideKeeps

LEMMA ResetKeeps ==
    ASSUME IInv, NEW w \in Workers, work' = [work EXCEPT ![w] = Idle],
           UNCHANGED <<crew, clock, backtest, truth, evals, series, metrics, begun>>
    PROVE  IInv'
<1>1. TypeOK'
  BY IdleType DEF IInv, TypeOK
<1>2. Aside(w)
  BY <1>1 DEF Aside, IInv, TypeOK, Idle
<1>. QED
  BY <1>2, AsideKeeps

\* The steps of a pipeline before and outside a save.
Walks(w) ==
    CheckBacktest(w) \/ SaveBacktest(w) \/ Evaluate(w) \/ ChooseEvaluation(w)
    \/ LoadPredictions(w) \/ LoadMeasurements(w)

LEMMA WalkKeeps == ASSUME IInv, NEW w \in Workers, Walks(w) PROVE IInv'
<1>1. work[w] \in Work /\ work \in [Workers -> Work]
  BY DEF IInv, TypeOK
<1>2. /\ backtest \in 0..MaxBacktests /\ truth \in Truth
      /\ MaxBacktests \in Nat /\ MaxTruth \in Nat
  BY BoundsAssumption DEF IInv, TypeOK
<1>3. work[w].pc \in {"idle", "backtest", "evaluation"} => work[w].chosen = None
  BY DEF IInv, HoldsNothing
<1>4. CASE CheckBacktest(w)
  <2>1. PICK rec \in Work : /\ work' = [work EXCEPT ![w] = rec]
                            /\ rec.pc \in {"evaluation", "backtest"}
                            /\ rec.used = work[w].used /\ rec.new = work[w].new
                            /\ rec.chosen = work[w].chosen
    <3>1. work' = [work EXCEPT ![w] = [work[w] EXCEPT !.pc =
                       IF HasBacktest THEN "evaluation" ELSE "backtest"]]
      BY <1>4 DEF CheckBacktest
    <3>2. [work[w] EXCEPT !.pc = IF HasBacktest THEN "evaluation" ELSE "backtest"] \in Work
      BY <1>1 DEF Work
    <3>. QED
      BY <1>1, <3>1, <3>2 DEF Work
  <2>. QED
    BY <1>2, <1>3, <1>4, <2>1, StepAside DEF CheckBacktest, Saves
<1>5. CASE SaveBacktest(w)
  <2>1. [work[w] EXCEPT !.pc = "evaluation"] \in Work
    BY <1>1 DEF Work
  <2>2. backtest' \in 0..MaxBacktests
    BY <1>2, <1>5 DEF SaveBacktest
  <2>. QED
    BY <1>1, <1>3, <1>5, <2>1, <2>2, StepAside DEF SaveBacktest, Saves, Work
<1>6. CASE Evaluate(w)
  <2>1. [work[w] EXCEPT !.pc = "predictions"] \in Work
    BY <1>1 DEF Work
  <2>. QED
    BY <1>1, <1>2, <1>6, <2>1, StepAside DEF Evaluate, Saves, Work
<1>7. CASE ChooseEvaluation(w)
  <2>1. PICK e \in Latest :
            work' = [work EXCEPT ![w].pc = "predictions", ![w].chosen = e]
    BY <1>7 DEF ChooseEvaluation
  <2>2. e \in EvalRow
    BY DEF Latest, IInv, TypeOK
  <2>. DEFINE rec == [work[w] EXCEPT !.pc = "predictions", !.chosen = e]
  <2>3. /\ rec \in Work /\ rec.pc = "predictions"
        /\ rec.used = work[w].used /\ rec.new = work[w].new
    BY <1>1, <2>2 DEF Work
  <2>4. work' = [work EXCEPT ![w] = rec]
    BY <2>1
  <2>. HIDE DEF rec
  <2>. QED
    BY <1>2, <1>7, <2>3, <2>4, StepAside DEF ChooseEvaluation, Saves
<1>8. CASE LoadPredictions(w)
  <2>. DEFINE rec == [work[w] EXCEPT !.pc = "measurements", !.of = backtest]
  <2>1. /\ rec \in Work /\ rec.pc = "measurements"
        /\ rec.used = work[w].used /\ rec.new = work[w].new
    BY <1>1, <1>2 DEF Work
  <2>2. work' = [work EXCEPT ![w] = rec]
    BY <1>8 DEF LoadPredictions
  <2>. HIDE DEF rec
  <2>. QED
    BY <1>2, <1>8, <2>1, <2>2, StepAside DEF LoadPredictions, Saves
<1>9. CASE LoadMeasurements(w)
  <2>1. SeenTruth(w) \in 0..MaxTruth
    BY <1>2 DEF SeenTruth, Truth
  <2>2. PICK p \in {"report", "loaded"}, quiet \in BOOLEAN :
            work' = [work EXCEPT ![w].pc = p, ![w].truth = SeenTruth(w), ![w].frozen = quiet]
    BY <1>9 DEF LoadMeasurements
  <2>. DEFINE rec == [work[w] EXCEPT !.pc = p, !.truth = SeenTruth(w), !.frozen = quiet]
  <2>3. /\ rec \in Work /\ rec.pc = p
        /\ rec.used = work[w].used /\ rec.new = work[w].new
    BY <1>1, <2>1 DEF Work
  <2>4. work' = [work EXCEPT ![w] = rec]
    BY <2>2
  <2>. HIDE DEF rec
  <2>. QED
    BY <1>2, <1>9, <2>3, <2>4, StepAside DEF LoadMeasurements, Saves
<1>. QED
  BY <1>4, <1>5, <1>6, <1>7, <1>8, <1>9 DEF Walks

-----------------------------------------------------------------------------
(* A save: its beginning, its statements and its commit.                    *)

LEMMA Counted ==
    ASSUME IInv, NEW w \in Workers, NEW order \in Orders, BeginSave(w, order)
    PROVE  /\ begun \in Nat /\ begun' = begun + 1
           /\ begun + 1 \in 1..MaxEvals /\ begun' \in 0..MaxEvals
<1>1. begun \in 0..MaxEvals /\ begun < MaxEvals /\ begun' = begun + 1
  BY DEF BeginSave, IInv, TypeOK
<1>. QED
  BY <1>1, BoundsAssumption

LEMMA BeginType ==
    ASSUME IInv, NEW w \in Workers, NEW order \in Orders, BeginSave(w, order)
    PROVE  /\ TypeOK' /\ work'[w].chosen \in EvalRow /\ work'[w].order = order
           /\ work'[w].pc = "saving"
           /\ work'[w].used = work[w].used /\ work'[w].new = work[w].new
           /\ work'[w].chosen.id = begun + 1 /\ work'[w].chosen.recorded = clock
           /\ work'[w].chosen.after = {e.id : e \in evals}
           /\ work'[w].chosen.keys = {order[i] : i \in DOMAIN order}
           /\ \A o \in Workers \ {w} : work'[o] = work[o]
<1>. DEFINE row == [id |-> begun + 1, recorded |-> clock, of |-> work[w].of,
                   truth |-> work[w].truth, frozen |-> work[w].frozen,
                   keys |-> {order[i] : i \in DOMAIN order},
                   after |-> {e.id : e \in evals}]
            rec == [work[w] EXCEPT !.pc = "saving", !.chosen = row, !.order = order]
<1>1. order \in Seq(Keys) /\ begun + 1 \in Ids /\ begun' \in 0..MaxEvals
  BY Counted, BoundsAssumption DEF Ids
<1>2. work[w] \in Work /\ clock \in Nat
  BY DEF IInv, TypeOK
<1>3. {e.id : e \in evals} \in SUBSET Ids
  BY DEF IInv, TypeOK, EvalRow
<1>4. {order[i] : i \in DOMAIN order} \in SUBSET Keys
  BY <1>1
<1>5. work[w].of \in 0..MaxBacktests /\ work[w].truth \in 0..MaxTruth
      /\ work[w].frozen \in BOOLEAN
  BY <1>2 DEF Work
<1>6. row \in EvalRow
  BY <1>1, <1>2, <1>3, <1>4, <1>5 DEF EvalRow
<1>7. /\ row.id = begun + 1 /\ row.recorded = clock
      /\ row.after = {e.id : e \in evals} /\ row.keys = {order[i] : i \in DOMAIN order}
  OBVIOUS
<1>8. work' = [work EXCEPT ![w] = rec]
  BY DEF BeginSave
<1>. HIDE DEF row
<1>9. /\ rec \in Work /\ rec.pc = "saving" /\ rec.chosen = row /\ rec.order = order
      /\ rec.used = work[w].used /\ rec.new = work[w].new
  BY <1>1, <1>2, <1>6 DEF Work
<1>. HIDE DEF rec
<1>10. work' \in [Workers -> Work] /\ work'[w] = rec
  BY <1>8, <1>9 DEF IInv, TypeOK
<1>11. TypeOK'
  BY <1>1, <1>10 DEF IInv, TypeOK, BeginSave
<1>12. \A o \in Workers \ {w} : work'[o] = work[o]
  BY <1>8 DEF IInv, TypeOK
<1>. QED
  BY <1>6, <1>7, <1>9, <1>10, <1>11, <1>12

LEMMA BeginKeeps ==
    ASSUME IInv, NEW w \in Workers, NEW order \in Orders, BeginSave(w, order)
    PROVE  IInv'
<1>1. /\ TypeOK' /\ work'[w].chosen \in EvalRow /\ work'[w].order = order
      /\ work'[w].pc = "saving"
      /\ work'[w].used = work[w].used /\ work'[w].new = work[w].new
      /\ work'[w].chosen.id = begun + 1 /\ work'[w].chosen.recorded = clock
      /\ work'[w].chosen.after = {e.id : e \in evals}
      /\ work'[w].chosen.keys = {order[i] : i \in DOMAIN order}
      /\ \A o \in Workers \ {w} : work'[o] = work[o]
  BY BeginType
<1>2. /\ UNCHANGED <<clock, evals, series, metrics>> /\ begun' = begun + 1 /\ ~Saves(w)
      /\ begun \in Nat /\ clock \in Nat
      /\ \A e \in evals : e.id \in Nat /\ e.recorded \in Nat
      /\ \A o \in Workers : Saves(o) => work[o].chosen.id \in Nat
  <2>1. /\ UNCHANGED <<clock, evals, series, metrics>> /\ ~Saves(w) /\ clock \in Nat
        /\ evals \subseteq EvalRow
        /\ \A o \in Workers : Saves(o) => work[o].chosen \in EvalRow
    BY DEF BeginSave, Saves, IInv, TypeOK, HoldsNothing
  <2>2. \A e \in EvalRow : e.id \in Nat /\ e.recorded \in Nat
    BY DEF EvalRow, Ids
  <2>. QED
    BY <2>1, <2>2, Counted
<1>3. HoldsNothing'
  BY <1>1, <1>2 DEF IInv, HoldsNothing, Saves
<1>4. \A o \in Workers \ {w} : Saves(o)' <=> Saves(o)
  BY <1>1 DEF Saves
<1>5. IdsApart'
  BY <1>1, <1>2, <1>4 DEF IInv, IdsApart
<1>6. Ordered'
  <2>1. \A e \in evals : e.recorded < clock' /\ Follows(e)' /\ Later(e)'
    BY <1>2 DEF IInv, Ordered, Follows, Later
  <2>2. ASSUME NEW o \in Workers \ {w}, Saves(o)'
        PROVE  /\ work'[o].chosen.recorded <= clock'
               /\ Follows(work[o].chosen)' /\ Later(work[o].chosen)'
    BY <1>1, <1>2, <1>4, <2>2 DEF IInv, Ordered, Follows, Later
  <2>3. work'[w].chosen.recorded <= clock' /\ Follows(work[w].chosen)' /\ Later(work[w].chosen)'
    BY <1>1, <1>2 DEF IInv, Ordered, Follows, Later
  <2>. QED
    BY <1>2, <2>1, <2>2, <2>3 DEF Ordered
<1>7. SeriesApart'
  BY <1>1, <1>2 DEF IInv, SeriesApart, UniqueIn
<1>8. KeysHeld'
  BY <1>1, <1>4 DEF IInv, KeysHeld
<1>9. MetricsReadable'
  BY <1>2 DEF IInv, MetricsReadable
<1>. QED
  BY <1>1, <1>3, <1>5, <1>6, <1>7, <1>8, <1>9 DEF IInv

\* What Upsert adds: the one row of the key, which no other save holds.
LEMMA UpsertType ==
    ASSUME IInv, NEW w \in Workers, Upsert(w)
    PROVE  \E row \in SeriesRow :
             /\ TypeOK' /\ Saves(w) /\ Saves(w)' /\ work[w].order # <<>>
             /\ row.key = Head(work[w].order)
             /\ row \in series \cup work[w].new
                  \/ \A s \in series \cup work[w].new : s.key # row.key
             /\ work'[w].chosen = work[w].chosen
             /\ work'[w].order = Tail(work[w].order)
             /\ work'[w].new = work[w].new \cup ({row} \ series)
             /\ work'[w].used = work[w].used \cup {row}
             /\ \A o \in Workers \ {w} : work'[o] = work[o]
<1>. DEFINE key == Head(work[w].order)
            fresh == [key |-> key, minted |-> work[w].chosen.id]
            row == IF Existing(w) = {} THEN fresh ELSE CHOOSE s \in Existing(w) : TRUE
            rec == [work[w] EXCEPT !.order = Tail(work[w].order),
                                   !.new = work[w].new \cup ({row} \ series),
                                   !.used = work[w].used \cup {row}]
<1>1. /\ work[w] \in Work /\ series \subseteq SeriesRow /\ work[w].order # <<>>
      /\ Saves(w) /\ work[w].chosen \in EvalRow
  BY DEF IInv, TypeOK, HoldsNothing, Upsert, Upserting, Saves
<1>2. /\ key \in Keys /\ Tail(work[w].order) \in Seq(Keys)
      /\ work[w].new \subseteq SeriesRow /\ work[w].used \subseteq SeriesRow
  BY <1>1 DEF Work
<1>3. fresh \in SeriesRow /\ fresh.key = key
  BY <1>1, <1>2 DEF SeriesRow, EvalRow
<1>4. /\ row \in SeriesRow /\ row.key = key
      /\ row \in series \cup work[w].new \/ \A s \in series \cup work[w].new : s.key # key
  <2>. HIDE DEF fresh, key
  <2>1. CASE Existing(w) = {}
    BY <1>3, <2>1 DEF Existing, key
  <2>2. CASE Existing(w) # {}
    <3>1. row \in Existing(w)
      BY <2>2
    <3>. QED
      BY <1>1, <1>2, <3>1 DEF Existing, key
  <2>. QED
    BY <2>1, <2>2
<1>5. work' = [work EXCEPT ![w] = rec]
  BY DEF Upsert
<1>. HIDE DEF row
<1>6. {row} \ series \subseteq SeriesRow
  BY <1>4
<1>7. /\ rec \in Work /\ rec.pc = work[w].pc /\ rec.chosen = work[w].chosen
      /\ rec.order = Tail(work[w].order) /\ rec.new = work[w].new \cup ({row} \ series)
      /\ rec.used = work[w].used \cup {row}
  BY <1>1, <1>2, <1>4, <1>6 DEF Work
<1>. HIDE DEF rec
<1>8. work' \in [Workers -> Work] /\ work'[w] = rec /\ \A o \in Workers \ {w} : work'[o] = work[o]
  BY <1>5, <1>7 DEF IInv, TypeOK
<1>9. TypeOK'
  BY <1>8 DEF IInv, TypeOK, Upsert
<1>. QED
  BY <1>1, <1>4, <1>7, <1>8, <1>9 DEF Saves

\* Tail drops the first element only.
LEMMA TailKeeps ==
    ASSUME NEW S, NEW q \in Seq(S), NEW i \in DOMAIN q, i # 1
    PROVE  i - 1 \in DOMAIN Tail(q) /\ Tail(q)[i - 1] = q[i]
<1>1. /\ Len(q) \in Nat /\ DOMAIN q = 1..Len(q) /\ i \in 1..Len(q)
      /\ i - 1 \in 1..(Len(q) - 1)
  OBVIOUS
<1>2. Len(Tail(q)) = Len(q) - 1 /\ DOMAIN Tail(q) = 1..(Len(q) - 1)
  BY <1>1
<1>3. Tail(q)[i - 1] = q[(i - 1) + 1]
  BY <1>1, <1>2
<1>. QED
  BY <1>1, <1>2, <1>3

LEMMA UpsertKeeps == ASSUME IInv, NEW w \in Workers, Upsert(w) PROVE IInv'
<1>1. PICK row \in SeriesRow :
             /\ TypeOK' /\ Saves(w) /\ Saves(w)' /\ work[w].order # <<>>
             /\ row.key = Head(work[w].order)
             /\ row \in series \cup work[w].new
                  \/ \A s \in series \cup work[w].new : s.key # row.key
             /\ work'[w].chosen = work[w].chosen
             /\ work'[w].order = Tail(work[w].order)
             /\ work'[w].new = work[w].new \cup ({row} \ series)
             /\ work'[w].used = work[w].used \cup {row}
             /\ \A o \in Workers \ {w} : work'[o] = work[o]
  BY UpsertType
<1>2. UNCHANGED <<clock, evals, series, metrics, begun>>
  BY DEF Upsert
<1>3. \A o \in Workers : (Saves(o)' <=> Saves(o)) /\ work'[o].chosen = work[o].chosen
  BY <1>1 DEF Saves
<1>4. HoldsNothing'
  BY <1>1, <1>3 DEF IInv, HoldsNothing, Saves
<1>5. IdsApart'
  BY <1>2, <1>3 DEF IInv, IdsApart
<1>6. Ordered'
  BY <1>2, <1>3 DEF IInv, Ordered, Follows, Later
<1>7. \A o \in Workers \ {w} : \A s \in work[o].used : s.key # row.key
  BY <1>1 DEF Upsert, WaitsFor
<1>8. SeriesApart'
  <2>1. UniqueIn(series \cup work[w].new \cup {row})
    BY <1>1 DEF IInv, SeriesApart, UniqueIn
  <2>2. series \cup work'[w].new = series \cup work[w].new \cup {row}
    BY <1>1
  <2>3. \A o \in Workers : UniqueIn(series \cup work'[o].new)
    BY <1>1, <2>1, <2>2 DEF IInv, SeriesApart
  <2>4. \A o \in Workers : /\ work'[o].new \subseteq work'[o].used
                           /\ work'[o].used \subseteq series \cup work'[o].new
    BY <1>1, <2>2 DEF IInv, SeriesApart
  <2>5. \A o \in Workers : \A v \in Workers \ {o} :
           \A s \in work'[o].used, t \in work'[v].used : s.key # t.key
    BY <1>1, <1>7 DEF IInv, SeriesApart
  <2>. QED
    BY <1>2, <2>3, <2>4, <2>5 DEF IInv, SeriesApart, UniqueIn
<1>9. KeysHeld'
  <2>1. SUFFICES ASSUME NEW o \in Workers, Saves(o)', NEW k \in work'[o].chosen.keys
                 PROVE  \/ \E i \in DOMAIN work'[o].order : work'[o].order[i] = k
                        \/ \E s \in work'[o].used : s.key = k
    BY DEF KeysHeld
  <2>2. CASE o # w
    BY <1>1, <1>3, <2>1, <2>2 DEF IInv, KeysHeld
  <2>3. CASE o = w /\ \E s \in work[w].used : s.key = k
    BY <1>1, <2>3
  <2>4. CASE o = w /\ \E i \in DOMAIN work[w].order : work[w].order[i] = k
    <3>1. PICK i \in DOMAIN work[w].order : work[w].order[i] = k
      BY <2>4
    <3>2. work[w].order \in Seq(Keys) /\ work[w].order # <<>>
      BY <1>1 DEF IInv, TypeOK, Work
    <3>3. CASE i = 1
      BY <1>1, <2>4, <3>1, <3>2, <3>3
    <3>4. CASE i # 1
      <4>1. i - 1 \in DOMAIN Tail(work[w].order) /\ Tail(work[w].order)[i - 1] = k
        BY <3>1, <3>2, <3>4, TailKeeps
      <4>. QED
        BY <1>1, <2>4, <4>1
    <3>. QED
      BY <3>3, <3>4
  <2>. QED
    BY <1>3, <2>1, <2>2, <2>3, <2>4 DEF IInv, KeysHeld
<1>10. MetricsReadable'
  BY <1>2 DEF IInv, MetricsReadable
<1>. QED
  BY <1>1, <1>4, <1>5, <1>6, <1>8, <1>9, <1>10 DEF IInv

\* What the commit of a save makes of the tables.
LEMMA CommitType ==
    ASSUME IInv, NEW w \in Workers, Commit(w)
    PROVE  /\ TypeOK' /\ Saves(w) /\ work'[w] = Idle /\ clock' = clock + 1 /\ clock \in Nat
           /\ \A o \in Workers \ {w} : work'[o] = work[o]
           /\ \A e \in evals' : e.recorded \in Nat
           /\ \A o \in Workers : Saves(o) => work[o].chosen.recorded \in Nat
<1>1. /\ Saves(w) /\ work \in [Workers -> Work] /\ clock \in Nat
      /\ evals \subseteq EvalRow /\ series \subseteq SeriesRow /\ metrics \subseteq MetricRow
      /\ \A o \in Workers : Saves(o) => work[o].chosen \in EvalRow
  BY DEF Commit, Saves, IInv, TypeOK, HoldsNothing
<1>2. work[w].chosen \in EvalRow /\ work[w].new \subseteq SeriesRow
      /\ work[w].used \subseteq SeriesRow
  BY <1>1 DEF Work
<1>3. work[w].chosen.id \in Ids
  BY <1>2 DEF EvalRow
<1>4. MetricRows(w) \subseteq MetricRow
  BY <1>2, <1>3 DEF MetricRows, MetricRow
<1>5. /\ work' \in [Workers -> Work] /\ work'[w] = Idle
      /\ \A o \in Workers \ {w} : work'[o] = work[o]
  BY <1>1, IdleType DEF Commit
<1>6. /\ evals' \subseteq EvalRow /\ series' \subseteq SeriesRow
      /\ metrics' \subseteq MetricRow /\ clock' = clock + 1 /\ clock' \in Nat
      /\ UNCHANGED <<crew, backtest, truth, begun>>
  BY <1>1, <1>2, <1>4 DEF Commit
<1>7. TypeOK'
  BY <1>5, <1>6 DEF IInv, TypeOK
<1>8. \A e \in EvalRow : e.recorded \in Nat
  BY DEF EvalRow
<1>. QED
  BY <1>1, <1>5, <1>6, <1>7, <1>8

LEMMA CommitKeeps == ASSUME IInv, NEW w \in Workers, Commit(w) PROVE IInv'
<1>. DEFINE done == work[w].chosen
<1>1. /\ TypeOK' /\ Saves(w) /\ work'[w] = Idle /\ clock' = clock + 1 /\ clock \in Nat
      /\ \A o \in Workers \ {w} : work'[o] = work[o]
      /\ \A e \in evals' : e.recorded \in Nat
      /\ \A o \in Workers : Saves(o) => work[o].chosen.recorded \in Nat
  BY CommitType
<1>2. /\ evals' = evals \cup {done} /\ series' = series \cup work[w].new
      /\ metrics' = metrics \cup MetricRows(w) /\ UNCHANGED begun
      /\ work[w].order = <<>>
  BY DEF Commit
<1>3. \A o \in Workers : Saves(o)' <=> o # w /\ Saves(o)
  BY <1>1 DEF Saves, Idle
<1>. HIDE DEF done
<1>4. HoldsNothing'
  BY <1>1, <1>3 DEF IInv, HoldsNothing, Idle
<1>5. IdsApart'
  BY <1>1, <1>2, <1>3 DEF IInv, IdsApart, done
<1>6. Ordered'
  <2>1. \A f : Follows(f) => Follows(f)'
    BY <1>2 DEF Follows
  <2>2. \A e \in evals : e.id # done.id
    BY <1>1 DEF IInv, IdsApart, done
  <2>3. ASSUME NEW f, Follows(f), Later(f) PROVE Later(f)'
    BY <1>2, <2>2, <2>3 DEF Follows, Later
  <2>4. Follows(done) /\ Later(done) /\ done.recorded <= clock /\ done.recorded \in Nat
    BY <1>1 DEF IInv, Ordered, done
  <2>5. ASSUME NEW e \in evals' PROVE e.recorded < clock' /\ Follows(e)' /\ Later(e)'
    BY <1>1, <1>2, <2>1, <2>3, <2>4 DEF IInv, Ordered
  <2>6. ASSUME NEW o \in Workers \ {w}, Saves(o)
        PROVE  /\ work'[o].chosen.recorded <= clock'
               /\ Follows(work[o].chosen)' /\ Later(work[o].chosen)'
    <3>1. work'[o].chosen = work[o].chosen
      BY <1>1
    <3>2. /\ Follows(work[o].chosen) /\ Later(work[o].chosen)
          /\ work[o].chosen.recorded <= clock /\ work[o].chosen.recorded \in Nat
      BY <1>1, <2>6 DEF IInv, Ordered
    <3>3. work'[o].chosen.recorded <= clock'
      BY <1>1, <3>1, <3>2
    <3>4. Follows(work[o].chosen)'
      BY <1>2, <3>1, <3>2 DEF Follows
    <3>5. Later(work[o].chosen)'
      BY <1>2, <2>2, <3>1, <3>2 DEF Follows, Later
    <3>. QED
      BY <3>3, <3>4, <3>5
  <2>. QED
    BY <1>3, <2>5, <2>6 DEF Ordered
<1>7. SeriesApart'
  <2>1. UniqueIn(series')
    BY <1>2 DEF IInv, SeriesApart
  <2>2. ASSUME NEW o \in Workers \ {w} PROVE UniqueIn(series' \cup work'[o].new)
    <3>1. \A s \in work[w].new, t \in work[o].new : s.key # t.key
      BY DEF IInv, SeriesApart
    <3>. QED
      BY <1>1, <1>2, <2>1, <3>1 DEF IInv, SeriesApart, UniqueIn
  <2>3. work'[w].new = {} /\ work'[w].used = {}
    BY <1>1 DEF Idle
  <2>4. \A o \in Workers : UniqueIn(series' \cup work'[o].new)
    BY <2>1, <2>2, <2>3
  <2>5. \A o \in Workers : /\ work'[o].new \subseteq work'[o].used
                           /\ work'[o].used \subseteq series' \cup work'[o].new
    BY <1>1, <1>2, <2>3 DEF IInv, SeriesApart
  <2>6. \A o \in Workers : \A v \in Workers \ {o} :
           \A s \in work'[o].used, t \in work'[v].used : s.key # t.key
    BY <1>1, <2>3 DEF IInv, SeriesApart
  <2>. QED
    BY <2>1, <2>4, <2>5, <2>6 DEF SeriesApart, UniqueIn
<1>8. KeysHeld'
  BY <1>1, <1>3 DEF IInv, KeysHeld
<1>9. MetricsReadable'
  <2>1. SUFFICES ASSUME NEW e \in evals', NEW k \in e.keys
                 PROVE  \E m \in metrics' : m.eval = e.id /\ m.series \in series'
                                               /\ m.series.key = k
    BY DEF MetricsReadable
  <2>2. CASE e \in evals
    BY <1>2, <2>2 DEF IInv, MetricsReadable
  <2>3. CASE e = done
    <3>1. PICK s \in work[w].used : s.key = k
      BY <1>1, <1>2, <2>3 DEF IInv, KeysHeld, done
    <3>2. s \in series'
      BY <1>2 DEF IInv, SeriesApart
    <3>3. [series |-> s, eval |-> done.id] \in metrics'
      BY <1>2 DEF MetricRows, done
    <3>. QED
      BY <2>3, <3>1, <3>2, <3>3
  <2>. QED
    BY <1>2, <2>2, <2>3
<1>. QED
  BY <1>1, <1>4, <1>5, <1>6, <1>7, <1>8, <1>9 DEF IInv

LEMMA NothingKeeps ==
    ASSUME IInv, UNCHANGED <<crew, clock, backtest, evals, series, metrics, begun, work>>,
           truth' \in Truth, truth'.pinned <= truth'.all
    PROVE  IInv'
  BY DEF IInv, TypeOK, HoldsNothing, IdsApart, Ordered, Follows, Later, SeriesApart, UniqueIn,
         KeysHeld, MetricsReadable, Saves

LEMMA Inductive == ASSUME IInv, [Next]_vars PROVE IInv'
<1>1. CASE Revise \/ ReviseLate \/ LateEnds
  <2>1. truth' \in Truth /\ truth'.pinned <= truth'.all
    BY <1>1, BoundsAssumption DEF Revise, ReviseLate, LateEnds, IInv, TypeOK, Truth
  <2>. QED
    BY <1>1, <2>1, NothingKeeps DEF Revise, ReviseLate, LateEnds
<1>2. ASSUME NEW w \in crew, Walks(w) PROVE IInv'
  BY <1>2, WalkKeeps, BoundsAssumption DEF IInv, TypeOK
<1>3. ASSUME NEW w \in crew, NEW order \in Orders, BeginSave(w, order) PROVE IInv'
  BY <1>3, BeginKeeps, BoundsAssumption DEF IInv, TypeOK
<1>4. ASSUME NEW w \in crew, Upsert(w) PROVE IInv'
  BY <1>4, UpsertKeeps, BoundsAssumption DEF IInv, TypeOK
<1>5. ASSUME NEW w \in crew, Commit(w) PROVE IInv'
  BY <1>5, CommitKeeps, BoundsAssumption DEF IInv, TypeOK
<1>6. ASSUME NEW w \in crew, Crash(w) \/ DeadlockVictim(w) PROVE IInv'
  <2>1. w \in Workers
    BY BoundsAssumption DEF IInv, TypeOK
  <2>. QED
    BY <1>6, <2>1, ResetKeeps DEF Crash, DeadlockVictim
<1>7. CASE UNCHANGED vars
  BY <1>7, NothingKeeps DEF vars, IInv, TypeOK
<1>. QED
  BY <1>1, <1>2, <1>3, <1>4, <1>5, <1>6, <1>7 DEF Next, Walks

-----------------------------------------------------------------------------
(* What a report was computed from.                                         *)

\* A worker has chosen a row, or is saving one.
Holding(w) == work[w].chosen # None \/ Saves(w)

\* The pin is quiet, and t is the state of the ground truth it shows for good.
Frozen(t) == truth.late = 0 /\ t = truth.pinned

\* A report of a pinned provider was computed from the state at the pin once quiet.
AtPin ==
    /\ \A e \in evals : e.frozen => Frozen(e.truth)
    /\ \A w \in Workers : Holding(w) /\ work[w].chosen.frozen => Frozen(work[w].chosen.truth)
    /\ \A w \in Workers :
          work[w].pc \in {"report", "loaded"} /\ work[w].frozen => Frozen(work[w].truth)
    /\ \A w \in Pinned : work[w].pc = "loaded" /\ work[w].chosen.frozen => work[w].frozen

\* A row was computed from a backtest that was stored before it is read.
NoOlder(w) ==
    /\ work[w].pc \in {"measurements", "report", "loaded"} => work[w].of <= backtest
    /\ Holding(w) => work[w].chosen.of <= backtest
    /\ work[w].pc \in {"measurements", "loaded"} /\ work[w].chosen # None =>
          work[w].chosen.of <= work[w].of

\* One process alone saves the backtest once, before it evaluates anything.
OneBacktest(w) ==
    /\ work[w].pc = "backtest" => backtest = 0
    /\ work[w].pc \notin {"idle", "backtest"} => backtest # 0
    /\ backtest = 0 => evals = {}
    /\ \A e \in evals : e.of = backtest
    /\ work[w].pc \in {"measurements", "report", "loaded"} => work[w].of = backtest
    /\ Holding(w) => work[w].chosen.of = backtest

Sourced ==
    /\ AtPin
    /\ \A e \in evals : e.of <= backtest
    /\ \A w \in Workers : NoOlder(w)
    /\ \A w \in crew : crew = {w} => OneBacktest(w)
    /\ \A w \in Workers : work[w].pc = "loaded" => work[w].chosen # None

LEMMA SourcedInit == ASSUME Init PROVE Sourced
<1>1. \A w \in Workers : work[w].pc = "idle" /\ work[w].chosen = None
  BY DEF Init, Idle
<1>2. crew \subseteq Workers /\ Pinned \subseteq Workers
  BY BoundsAssumption DEF Init
<1>. QED
  BY <1>1, <1>2 DEF Init, Sourced, AtPin, NoOlder, OneBacktest, Holding, Saves

\* It is enough to look at the worker that took the step.
LEMMA SourcedAt ==
    ASSUME IInv, Sourced, NEW w \in crew, UNCHANGED <<crew, truth>>,
           \A o \in Workers \ {w} : work'[o] = work[o],
           backtest' \in Nat, backtest <= backtest',
           \A e \in evals' : (e.frozen => Frozen(e.truth)) /\ e.of <= backtest',
           Holding(w)' /\ work'[w].chosen.frozen => Frozen(work'[w].chosen.truth),
           work'[w].pc \in {"report", "loaded"} /\ work'[w].frozen => Frozen(work'[w].truth),
           w \in Pinned /\ work'[w].pc = "loaded" /\ work'[w].chosen.frozen => work'[w].frozen,
           work'[w].pc = "loaded" => work'[w].chosen # None,
           NoOlder(w)', crew = {w} => OneBacktest(w)'
    PROVE  Sourced'
<1>1. w \in Workers /\ Pinned \subseteq Workers
  BY BoundsAssumption DEF IInv, TypeOK
<1>2. \A o \in Workers \ {w} : Holding(o)' <=> Holding(o)
  BY DEF Holding, Saves
<1>3. AtPin'
  BY <1>1, <1>2 DEF Sourced, AtPin, Frozen
<1>4. \A o \in crew' : crew' = {o} => OneBacktest(o)'
  <2>1. \A o \in crew : crew = {o} => o = w
    OBVIOUS
  <2>. QED
    BY <2>1
<1>5. ASSUME NEW o \in Workers \ {w} PROVE NoOlder(o)'
  <2>1. backtest \in Nat /\ work[o] \in Work
    BY BoundsAssumption DEF IInv, TypeOK
  <2>2. work[o].of \in Nat
    BY <2>1, BoundsAssumption DEF Work
  <2>3. Holding(o) => work[o].chosen.of \in Nat
    BY <2>1, BoundsAssumption DEF Holding, Work, EvalRow, IInv, HoldsNothing
  <2>. QED
    BY <1>2, <2>1, <2>2, <2>3 DEF Sourced, NoOlder
<1>. QED
  BY <1>1, <1>3, <1>4, <1>5 DEF Sourced

\* What is known of the worker that takes a step.
LEMMA WorkerKnows ==
    ASSUME IInv, Sourced, NEW w \in crew
    PROVE  /\ w \in Workers /\ work \in [Workers -> Work] /\ backtest \in Nat
           /\ work[w].of \in Nat
           /\ \A e \in evals : e.of \in Nat /\ (e.frozen => Frozen(e.truth)) /\ e.of <= backtest
           /\ Holding(w) => work[w].chosen.of \in Nat
           /\ Holding(w) /\ work[w].chosen.frozen => Frozen(work[w].chosen.truth)
           /\ crew = {w} => OneBacktest(w)
           /\ NoOlder(w)
           /\ work[w].pc \in {"idle", "backtest", "evaluation"} => work[w].chosen = None
<1>1. w \in Workers /\ work \in [Workers -> Work] /\ backtest \in 0..MaxBacktests
      /\ evals \subseteq EvalRow /\ MaxBacktests \in Nat
  BY BoundsAssumption DEF IInv, TypeOK
<1>2. \A e \in EvalRow : e.of \in Nat
  BY <1>1 DEF EvalRow
<1>3. work[w].of \in Nat /\ (Holding(w) => work[w].chosen \in EvalRow)
  BY <1>1 DEF Work, Holding, IInv, HoldsNothing
<1>. QED
  BY <1>1, <1>2, <1>3 DEF Sourced, AtPin, IInv, HoldsNothing

\* The steps before a report is written or shown.
LEMMA SourcedWalk == ASSUME IInv, Sourced, NEW w \in crew, Walks(w) PROVE Sourced'
<1>1. /\ w \in Workers /\ work \in [Workers -> Work] /\ evals' = evals
      /\ UNCHANGED <<crew, truth>> /\ backtest \in Nat
  BY WorkerKnows DEF Walks, CheckBacktest, SaveBacktest, Evaluate,
     ChooseEvaluation, LoadPredictions, LoadMeasurements
<1>2. \A o \in Workers \ {w} : work'[o] = work[o]
  BY <1>1 DEF Walks, CheckBacktest, SaveBacktest, Evaluate,
     ChooseEvaluation, LoadPredictions, LoadMeasurements
<1>3. /\ work[w].of \in Nat
      /\ \A e \in evals : e.of \in Nat /\ (e.frozen => Frozen(e.truth)) /\ e.of <= backtest
      /\ Holding(w) => work[w].chosen.of \in Nat
      /\ Holding(w) /\ work[w].chosen.frozen => Frozen(work[w].chosen.truth)
      /\ crew = {w} => OneBacktest(w)
      /\ NoOlder(w)
      /\ work[w].pc \in {"idle", "backtest", "evaluation"} => work[w].chosen = None
  BY WorkerKnows
<1>. USE DEF Holding, Saves
<1>5. CASE CheckBacktest(w)
  <2>1. /\ work[w].pc = "idle" /\ work'[w].chosen = work[w].chosen /\ backtest' = backtest
        /\ work'[w].pc = IF backtest # 0 THEN "evaluation" ELSE "backtest"
    BY <1>1, <1>5 DEF CheckBacktest, HasBacktest, Work
  <2>. QED
    BY <1>1, <1>2, <1>3, <2>1, SourcedAt DEF OneBacktest, NoOlder
<1>6. CASE SaveBacktest(w)
  <2>1. /\ work[w].pc = "backtest" /\ work'[w].chosen = work[w].chosen
        /\ backtest' = backtest + 1 /\ work'[w].pc = "evaluation"
    BY <1>1, <1>6 DEF SaveBacktest, Work
  <2>2. backtest' # 0 /\ backtest' \in Nat /\ backtest <= backtest'
    BY <1>1, <2>1
  <2>3. \A e \in evals' : e.of <= backtest'
    BY <1>1, <1>3, <2>1
  <2>. QED
    BY <1>1, <1>2, <1>3, <2>1, <2>2, <2>3, SourcedAt DEF OneBacktest, NoOlder
<1>7. CASE Evaluate(w)
  <2>1. /\ work[w].pc = "evaluation" /\ work'[w].chosen = work[w].chosen
        /\ backtest' = backtest /\ work'[w].pc = "predictions"
    BY <1>1, <1>7 DEF Evaluate, Work
  <2>. QED
    BY <1>1, <1>2, <1>3, <2>1, SourcedAt DEF OneBacktest, NoOlder
<1>8. CASE ChooseEvaluation(w)
  <2>1. PICK e \in evals : /\ work[w].pc = "evaluation" /\ backtest' = backtest
                           /\ work'[w].chosen = e /\ work'[w].pc = "predictions"
    BY <1>1, <1>8 DEF ChooseEvaluation, Latest, Work
  <2>. QED
    BY <1>1, <1>2, <1>3, <2>1, SourcedAt DEF OneBacktest, NoOlder
<1>9. CASE LoadPredictions(w)
  <2>1. /\ work[w].pc = "predictions" /\ work'[w].chosen = work[w].chosen
        /\ backtest' = backtest /\ work'[w].pc = "measurements" /\ work'[w].of = backtest
    BY <1>1, <1>9 DEF LoadPredictions, Work
  <2>. QED
    BY <1>1, <1>2, <1>3, <2>1, SourcedAt DEF OneBacktest, NoOlder
<1>10. CASE LoadMeasurements(w)
  <2>1. /\ work[w].pc = "measurements" /\ work'[w].chosen = work[w].chosen
        /\ backtest' = backtest /\ work'[w].of = work[w].of
        /\ work'[w].pc = IF work[w].chosen = None THEN "report" ELSE "loaded"
        /\ work'[w].truth = SeenTruth(w)
        /\ work'[w].frozen = (w \in Pinned /\ truth.late = 0)
    BY <1>1, <1>10 DEF LoadMeasurements, Work
  <2>2. work'[w].frozen => Frozen(work'[w].truth)
    BY <2>1 DEF SeenTruth, Frozen
  <2>3. work'[w].pc = "loaded" => work[w].chosen # None
    BY <2>1
  <2>4. w \in Pinned /\ work'[w].pc = "loaded" /\ work'[w].chosen.frozen => work'[w].frozen
    BY <1>3, <2>1, <2>3 DEF Frozen
  <2>5. NoOlder(w)'
    BY <1>3, <2>1 DEF NoOlder
  <2>6. crew = {w} => OneBacktest(w)'
    BY <1>1, <1>3, <2>1 DEF OneBacktest
  <2>7. Holding(w)' /\ work'[w].chosen.frozen => Frozen(work'[w].chosen.truth)
    BY <1>3, <2>1
  <2>. QED
    BY <1>1, <1>2, <1>3, <2>1, <2>2, <2>3, <2>4, <2>5, <2>6, <2>7, SourcedAt
<1>. QED
  BY <1>5, <1>6, <1>7, <1>8, <1>9, <1>10 DEF Walks

LEMMA SourcedBegin ==
    ASSUME IInv, Sourced, NEW w \in crew, NEW order \in Orders, BeginSave(w, order)
    PROVE  Sourced'
<1>1. /\ w \in Workers /\ work \in [Workers -> Work] /\ backtest \in Nat
      /\ NoOlder(w) /\ (crew = {w} => OneBacktest(w))
      /\ \A e \in evals : (e.frozen => Frozen(e.truth)) /\ e.of <= backtest
  BY WorkerKnows
<1>2. /\ UNCHANGED <<crew, truth, evals, backtest>> /\ work[w].pc = "report"
      /\ \A o \in Workers \ {w} : work'[o] = work[o]
  BY <1>1, BeginType DEF BeginSave
<1>3. /\ work'[w].pc = "saving" /\ work'[w].chosen.of = work[w].of
      /\ work'[w].chosen.truth = work[w].truth /\ work'[w].chosen.frozen = work[w].frozen
  BY <1>1 DEF BeginSave, Work
<1>4. work[w].frozen => Frozen(work[w].truth)
  BY <1>1, <1>2 DEF Sourced, AtPin
<1>5. NoOlder(w)' /\ (crew = {w} => OneBacktest(w)')
  BY <1>1, <1>2, <1>3 DEF NoOlder, OneBacktest, Holding, Saves
<1>. QED
  BY <1>1, <1>2, <1>3, <1>4, <1>5, SourcedAt

LEMMA SourcedUpsert == ASSUME IInv, Sourced, NEW w \in crew, Upsert(w) PROVE Sourced'
<1>1. /\ w \in Workers /\ backtest \in Nat /\ NoOlder(w) /\ (crew = {w} => OneBacktest(w))
      /\ \A e \in evals : (e.frozen => Frozen(e.truth)) /\ e.of <= backtest
      /\ Holding(w) /\ work[w].chosen.frozen => Frozen(work[w].chosen.truth)
  BY WorkerKnows
<1>2. /\ UNCHANGED <<crew, truth, evals, backtest>> /\ Saves(w) /\ Saves(w)'
      /\ work'[w].chosen = work[w].chosen /\ \A o \in Workers \ {w} : work'[o] = work[o]
  BY <1>1, UpsertType DEF Upsert
<1>3. NoOlder(w)' /\ (crew = {w} => OneBacktest(w)')
  BY <1>1, <1>2 DEF NoOlder, OneBacktest, Holding, Saves
<1>. QED
  BY <1>1, <1>2, <1>3, SourcedAt DEF Holding, Saves

LEMMA SourcedCommit == ASSUME IInv, Sourced, NEW w \in crew, Commit(w) PROVE Sourced'
<1>1. /\ w \in Workers /\ backtest \in Nat /\ NoOlder(w) /\ (crew = {w} => OneBacktest(w))
      /\ \A e \in evals : (e.frozen => Frozen(e.truth)) /\ e.of <= backtest
      /\ Holding(w) /\ work[w].chosen.frozen => Frozen(work[w].chosen.truth)
  BY WorkerKnows
<1>2. /\ UNCHANGED <<crew, truth, backtest>> /\ Saves(w) /\ work'[w] = Idle
      /\ evals' = evals \cup {work[w].chosen}
      /\ \A o \in Workers \ {w} : work'[o] = work[o]
  BY <1>1, CommitType DEF Commit
<1>3. Idle.pc = "idle" /\ Idle.chosen = None
  BY DEF Idle
<1>4. NoOlder(w)' /\ (crew = {w} => OneBacktest(w)') /\ ~Holding(w)'
  BY <1>1, <1>2, <1>3 DEF NoOlder, OneBacktest, Holding, Saves
<1>5. \A e \in evals' : (e.frozen => Frozen(e.truth)) /\ e.of <= backtest'
  BY <1>1, <1>2 DEF NoOlder, Holding
<1>. QED
  BY <1>1, <1>2, <1>3, <1>4, <1>5, SourcedAt

LEMMA SourcedReset ==
    ASSUME IInv, Sourced, NEW w \in crew, Crash(w) \/ DeadlockVictim(w) PROVE Sourced'
<1>1. /\ w \in Workers /\ work \in [Workers -> Work] /\ backtest \in Nat
      /\ NoOlder(w) /\ (crew = {w} => OneBacktest(w))
      /\ \A e \in evals : (e.frozen => Frozen(e.truth)) /\ e.of <= backtest
  BY WorkerKnows
<1>2. /\ UNCHANGED <<crew, truth, evals, backtest>> /\ work'[w] = Idle
      /\ \A o \in Workers \ {w} : work'[o] = work[o]
  BY <1>1 DEF Crash, DeadlockVictim
<1>3. Idle.pc = "idle" /\ Idle.chosen = None
  BY DEF Idle
<1>4. NoOlder(w)' /\ (crew = {w} => OneBacktest(w)') /\ ~Holding(w)'
  BY <1>1, <1>2, <1>3 DEF NoOlder, OneBacktest, Holding, Saves
<1>. QED
  BY <1>1, <1>2, <1>3, <1>4, SourcedAt

\* Once the pin is quiet, no revision changes what it shows.
LEMMA SourcedRevise ==
    ASSUME IInv, Sourced, Revise \/ ReviseLate \/ LateEnds PROVE Sourced'
<1>1. /\ UNCHANGED <<crew, backtest, evals, work>>
      /\ truth.late = 0 => truth'.late = 0 /\ truth'.pinned = truth.pinned
  BY DEF Revise, ReviseLate, LateEnds, IInv, TypeOK, Truth
<1>2. \A t : Frozen(t) => Frozen(t)'
  BY <1>1 DEF Frozen
<1>3. AtPin'
  BY <1>1, <1>2 DEF Sourced, AtPin, Holding, Saves, Frozen
<1>. QED
  BY <1>1, <1>3 DEF Sourced, NoOlder, OneBacktest, Holding, Saves

LEMMA SourcedStep == ASSUME IInv, Sourced, [Next]_vars PROVE Sourced'
<1>1. CASE UNCHANGED vars
  BY <1>1 DEF vars, Sourced, AtPin, Frozen, NoOlder, OneBacktest, Holding, Saves
<1>2. CASE \E w \in crew :
          Walks(w) \/ (\E order \in Orders : BeginSave(w, order)) \/ Upsert(w) \/ Commit(w)
          \/ Crash(w) \/ DeadlockVictim(w)
  BY <1>2, SourcedWalk, SourcedBegin, SourcedUpsert, SourcedCommit, SourcedReset
<1>. QED
  BY <1>1, <1>2, SourcedRevise DEF Next, Walks

-----------------------------------------------------------------------------
(* The theorems.                                                            *)

LEMMA Invariance == Spec => []IInv
  BY Initially, Inductive, PTL DEF Spec

\* Every variable of the evaluation storage keeps its type.
THEOREM TypeCorrect == Spec => []TypeOK
<1>1. IInv => TypeOK
  BY DEF IInv
<1>. QED
  BY <1>1, Invariance, PTL

\* A metric has one row of evaluation_series, whichever evaluations meet on it and
\* whichever of them are aborted (the upsert of save_evaluation_output).
THEOREM SeriesUnique == Spec => []OneSeriesPerKey
<1>1. IInv => OneSeriesPerKey
  BY DEF IInv, SeriesApart, UniqueIn, OneSeriesPerKey
<1>. QED
  BY <1>1, Invariance, PTL

\* Every metric of a committed evaluation has its series row, although the upsert
\* may have returned the id of a row another transaction made.
THEOREM AllReadable == Spec => []MetricsReadable
<1>1. IInv => MetricsReadable
  BY DEF IInv
<1>. QED
  BY <1>1, Invariance, PTL

\* load_evaluation_output returns no evaluation that a committed one was begun after,
\* although it goes by the start of their transactions.
THEOREM LoadsLatest == Spec => LoadNotSuperseded
<1>. DEFINE Fresh == \A w \in Workers :
          work[w].pc = "evaluation" /\ work'[w].chosen # None =>
              \A e \in evals : work'[w].chosen.id \notin e.after
<1>1. ASSUME IInv, [Next]_vars, ~UNCHANGED vars PROVE Fresh
  <2>1. SUFFICES ASSUME NEW w \in Workers, work[w].pc = "evaluation",
                        work'[w].chosen # None, NEW e \in evals
                 PROVE  work'[w].chosen.id \notin e.after
    OBVIOUS
  <2>2. work[w].chosen = None /\ work \in [Workers -> Work]
    BY <1>1, <2>1 DEF IInv, HoldsNothing, TypeOK
  <2>3. work'[w] # work[w]
    BY <2>1, <2>2
  <2>4. ASSUME NEW o \in crew, o # w,
               \/ Walks(o) \/ \E order \in Orders : BeginSave(o, order)
               \/ Upsert(o) \/ Commit(o) \/ Crash(o) \/ DeadlockVictim(o)
        PROVE  work'[w] = work[w]
    BY <2>2, <2>4 DEF Walks, CheckBacktest, SaveBacktest, Evaluate, ChooseEvaluation,
         LoadPredictions, LoadMeasurements, BeginSave, Upsert, Commit, Crash, DeadlockVictim
  <2>5. \/ Walks(w) \/ \E order \in Orders : BeginSave(w, order)
        \/ Upsert(w) \/ Commit(w) \/ Crash(w) \/ DeadlockVictim(w)
    BY <1>1, <2>3, <2>4 DEF Next, Walks, Revise, ReviseLate, LateEnds
  <2>6. CASE ChooseEvaluation(w)
    <3>1. PICK f \in Latest : work' = [work EXCEPT ![w].pc = "predictions", ![w].chosen = f]
      BY <2>6 DEF ChooseEvaluation
    <3>2. work'[w].chosen = f
      BY <2>2, <3>1 DEF Work
    <3>3. f \in evals /\ e.recorded <= f.recorded
      BY DEF Latest
    <3>4. e.recorded \in Nat /\ f.recorded \in Nat
      BY <1>1, <3>3 DEF IInv, TypeOK, EvalRow
    <3>5. f.id \in e.after => f.recorded < e.recorded
      BY <1>1, <3>3 DEF IInv, Ordered, Later
    <3>. QED
      BY <3>2, <3>3, <3>4, <3>5
  <2>7. CASE ~ChooseEvaluation(w)
    <3>1. CheckBacktest(w) \/ Evaluate(w) => work'[w].chosen = work[w].chosen
      BY <2>1, <2>2 DEF CheckBacktest, Evaluate, Work
    <3>2. Crash(w) \/ DeadlockVictim(w) => work'[w].chosen = None
      BY <2>2 DEF Crash, DeadlockVictim, Idle
    <3>3. CheckBacktest(w) \/ Evaluate(w) \/ Crash(w) \/ DeadlockVictim(w)
      BY <2>1, <2>5, <2>7 DEF Walks, SaveBacktest, LoadPredictions, LoadMeasurements,
           BeginSave, Upsert, Upserting, Commit
    <3>. QED
      BY <2>1, <2>2, <3>1, <3>2, <3>3
  <2>. QED
    BY <2>6, <2>7
<1>2. ASSUME IInv, [Next]_vars PROVE [Fresh]_vars
  BY <1>1, <1>2
<1>. HIDE DEF Fresh
<1>3. Spec => [][Fresh]_vars
  BY <1>2, Invariance, PTL DEF Spec
<1>. QED
  BY <1>3 DEF LoadNotSuperseded, Fresh

\* What load_evaluation_output re-derives is of no older backtest than the metrics; of
\* the same one when one process works on the label; and of the same ground truth when
\* the report and the load both read it under the pin and the pin was quiet.
THEOREM ReloadConsistent == Spec => []ReportConsistent
<1>1. Sourced /\ IInv => ReportConsistent
  <2>1. SUFFICES ASSUME Sourced, IInv, NEW w \in crew, work[w].pc = "loaded"
                 PROVE  /\ work[w].chosen.of <= work[w].of
                        /\ crew = {w} => work[w].of = work[w].chosen.of
                        /\ w \in Pinned /\ work[w].chosen.frozen =>
                              work[w].truth = work[w].chosen.truth
    BY DEF ReportConsistent
  <2>2. w \in Workers /\ Holding(w)
    BY <2>1, BoundsAssumption DEF IInv, TypeOK, Sourced, Holding
  <2>. QED
    BY <2>1, <2>2 DEF Sourced, AtPin, Frozen, NoOlder, OneBacktest
<1>2. Spec => []Sourced
  BY SourcedInit, SourcedStep, Invariance, PTL DEF Spec
<1>. QED
  BY <1>1, <1>2, Invariance, PTL
=============================================================================
