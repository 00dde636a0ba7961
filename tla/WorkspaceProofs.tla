--------------------------- MODULE WorkspaceProofs ---------------------------
(***************************************************************************)
(* Proofs about Workspace: whatever saves of a label interleave, fail or    *)
(* deadlock, a listed run has its points and production runs are kept, for  *)
(* any number of workers, labels, tables and events; and a label with one   *)
(* saver and one table loads when the resume check finds it, and is         *)
(* replaced as LabelStore says.                                             *)
(***************************************************************************)
EXTENDS Workspace, TLAPS

\* Rows a worker's DELETE has chosen or deleted.
Chosen(w) == work[w].targets \cup work[w].gone

(* The inductive invariant.                                                 *)

\* A run id belongs to one run.
RunsUnique == \A r, s \in runs : RunId(r) = RunId(s) => r = s

\* A save in progress is one that has begun and nobody else's, and nothing it
\* will insert exists yet or is being deleted.
SavesFresh ==
    /\ \A x \in runs \cup points : x.save <= Len(saved)
    /\ \A w \in Workers : \A x \in Chosen(w) : x.save <= Len(saved)
    /\ \A w \in Workers : Saving(w) =>
          /\ work[w].save \in 1..Len(saved)
          /\ \A x \in runs \cup points : x.save # work[w].save
          /\ \A o \in Workers : \A x \in Chosen(o) : x.save # work[w].save
          /\ \A o \in Workers \ {w} : Saving(o) => work[o].save # work[w].save

\* The points a save deletes are its label's, so the DELETE of runs that follows
\* chooses their run if it still exists.
DeletesMatch ==
    \A w \in Workers : Saving(w) => \A x \in Chosen(w), r \in runs :
        RunId(r) = RunId(x) =>
            /\ work[w].pc = "points" => r.label = Current(w).label
            /\ work[w].pc = "runs" => r \in Chosen(w)

\* Production runs carry no label and are never chosen.
ProductionApart ==
    /\ \A r \in runs : r.save = 0 => r.label = None
    /\ \A w \in Workers : \A x \in Chosen(w) : x.save # 0

IInv == TypeOK /\ RunsUnique /\ SavesFresh /\ DeletesMatch /\ ProductionApart /\ ListedIsStored

LEMMA IdleType == Idle \in Work
  BY OutputAssumption DEF Idle, Work

LEMMA Initially == ASSUME Init PROVE IInv
<1>1. /\ \A r \in runs : r.save = 0 /\ r.label = None
      /\ \A r \in runs : r = [save |-> 0, event |-> r.event, label |-> None]
      /\ \A x \in points : x.save = 0
  BY DEF Init
<1>2. \A w \in Workers : Chosen(w) = {} /\ ~Saving(w)
  BY DEF Init, Idle, Chosen, Saving
<1>3. TypeOK
  <2>1. runs \subseteq RunRow /\ points \subseteq PointRow
    BY StorageAssumption, OutputAssumption DEF Init, RunRow, PointRow
  <2>. QED
    BY <2>1, IdleType, OutputAssumption DEF Init, TypeOK
<1>4. RunsUnique
  BY <1>1 DEF RunsUnique, RunId
<1>5. ListedIsStored
  <2>1. SUFFICES ASSUME NEW r \in runs PROVE \E p \in points : RunId(p) = RunId(r)
    BY DEF ListedIsStored
  <2>2. [save |-> 0, event |-> r.event, table |-> Home] \in points
    BY DEF Init
  <2>. QED
    BY <1>1, <2>2 DEF RunId
<1>6. SavesFresh
  BY <1>1, <1>2 DEF SavesFresh, Init
<1>. QED
  BY <1>1, <1>2, <1>3, <1>4, <1>5, <1>6 DEF IInv, DeletesMatch, ProductionApart

-----------------------------------------------------------------------------
(* Steps outside a save, and the end of one without a commit.               *)

\* A worker is not saving any more and has chosen nothing new; the store is untouched.
Quiet(w) ==
    /\ UNCHANGED <<runs, points, saved>>
    /\ TypeOK'
    /\ \A o \in Workers \ {w} : work'[o] = work[o]
    /\ work'[w].pc \notin {"points", "runs"}
    /\ Chosen(w)' \subseteq Chosen(w)

LEMMA QuietKeeps == ASSUME IInv, NEW w \in Workers, Quiet(w) PROVE IInv'
<1>1. \A o \in Workers : /\ Chosen(o)' \subseteq Chosen(o)
                         /\ o # w => Chosen(o)' = Chosen(o)
                         /\ Saving(o)' <=> o # w /\ Saving(o)
  BY DEF Quiet, Chosen, Saving
<1>2. SavesFresh'
  BY <1>1 DEF Quiet, IInv, SavesFresh
<1>3. DeletesMatch'
  BY <1>1 DEF Quiet, IInv, DeletesMatch, Current
<1>4. ProductionApart'
  BY <1>1 DEF Quiet, IInv, ProductionApart
<1>. QED
  BY <1>2, <1>3, <1>4 DEF Quiet, IInv, RunsUnique, ListedIsStored

LEMMA IdleIsQuiet ==
    ASSUME TypeOK, NEW w \in Workers, work' = [work EXCEPT ![w] = Idle],
           UNCHANGED <<runs, points, saved>>
    PROVE  Quiet(w)
<1>1. TypeOK'
  BY IdleType DEF TypeOK
<1>. QED
  BY <1>1 DEF Quiet, Idle, TypeOK, Chosen

LEMMA ResumeKeeps ==
    ASSUME IInv, NEW w \in Workers, NEW l \in Labels, NEW t \in Tables, Resume(w, l, t)
    PROVE  IInv'
<1>1. CASE UNCHANGED <<runs, points, saved, work>>
  BY <1>1 DEF IInv, TypeOK, RunsUnique, SavesFresh, DeletesMatch, ProductionApart,
              ListedIsStored, Chosen, Saving, Current
<1>2. CASE work' = [work EXCEPT ![w] = [Idle EXCEPT !.pc = "present", !.storage = <<l, t>>]]
  <2>1. [Idle EXCEPT !.pc = "present", !.storage = <<l, t>>] \in Work
    BY IdleType DEF Work
  <2>2. TypeOK'
    BY <1>2, <2>1 DEF Resume, IInv, TypeOK
  <2>3. work'[w].pc = "present" /\ work'[w].targets = {} /\ work'[w].gone = {}
    BY <1>2 DEF Idle, IInv, TypeOK
  <2>4. Quiet(w)
    BY <1>2, <2>2, <2>3 DEF Resume, Quiet, Chosen, IInv, TypeOK
  <2>. QED
    BY <2>4, QuietKeeps
<1>. QED
  BY <1>1, <1>2 DEF Resume

LEMMA LoadedType ==
    ASSUME NEW rec \in Work, NEW found \in SUBSET ((0..MaxSaves) \X Events)
    PROVE  [rec EXCEPT !.pc = "loaded", !.result = found] \in Work
<1>. DEFINE Found == SUBSET ((0..MaxSaves) \X Events)
<1>1. found \in Found /\ Work = [pc : {"idle", "points", "runs", "present", "loaded"},
         save : 0..MaxSaves, storage : (Labels \X Tables) \cup {None},
         targets : SUBSET (RunRow \cup PointRow),
         gone : SUBSET (RunRow \cup PointRow),
         done : SUBSET Events, result : Found]
  BY DEF Work
<1>. HIDE DEF Found
<1>. QED
  BY <1>1

LEMMA LoadKeeps == ASSUME IInv, NEW w \in Workers, Load(w) PROVE IInv'
<1>. DEFINE found == {RunId(p) : p \in Artifacts(work[w].storage[1], work[w].storage[2])}
<1>1. found \in SUBSET ((0..MaxSaves) \X Events)
  BY DEF IInv, TypeOK, Artifacts, PointRow, RunId
<1>. HIDE DEF found
<1>2. work' = [work EXCEPT ![w].pc = "loaded", ![w].result = found]
  BY DEF Load, found
<1>3. [work[w] EXCEPT !.pc = "loaded", !.result = found] \in Work
  BY <1>1, LoadedType DEF IInv, TypeOK
<1>4. TypeOK' /\ \A o \in Workers \ {w} : work'[o] = work[o]
  BY <1>2, <1>3 DEF Load, IInv, TypeOK
<1>5. work'[w].pc = "loaded" /\ Chosen(w)' = Chosen(w)
  BY <1>2 DEF IInv, TypeOK, Work, Chosen
<1>6. Quiet(w)
  BY <1>4, <1>5 DEF Load, Quiet
<1>. QED
  BY <1>6, QuietKeeps

LEMMA IdleKeeps ==
    ASSUME IInv, NEW w \in Workers, Abandon(w) \/ DeadlockVictim(w) \/ Forget(w)
    PROVE  IInv'
  BY IdleIsQuiet, QuietKeeps DEF Abandon, DeadlockVictim, Forget, IInv

-----------------------------------------------------------------------------
(* The steps of a save.                                                     *)

\* The rows of a label's artifacts are its own and no production rows.
LEMMA DoomedRows ==
    ASSUME IInv, NEW l \in Labels, NEW t \in Tables
    PROVE  /\ Doomed(l, t) \subseteq points
           /\ \A x \in Doomed(l, t) : x.save # 0
           /\ \A x \in Doomed(l, t), r \in runs : RunId(r) = RunId(x) => r.label = l
<1>1. \A x \in Doomed(l, t) : x \in points /\ \E r \in runs : r.label = l /\ RunId(r) = RunId(x)
  BY DEF Doomed, Artifacts, Listed
<1>2. \A x, y : RunId(x) = RunId(y) => x.save = y.save
  BY DEF RunId
<1>. QED
  BY <1>1, <1>2, StorageAssumption DEF IInv, RunsUnique, ProductionApart

LEMMA BeginKeeps ==
    ASSUME IInv, NEW w \in Workers, NEW l \in Labels, NEW t \in Tables,
           NEW output \in Outputs, Begin(w, l, t, output)
    PROVE  IInv'
<1>. DEFINE save == [label |-> l, table |-> t, output |-> output]
            rec == [Idle EXCEPT !.pc = "points", !.save = Len(saved) + 1,
                                !.storage = <<l, t>>, !.targets = Doomed(l, t)]
<1>1. /\ saved' = Append(saved, save) /\ work' = [work EXCEPT ![w] = rec]
      /\ Len(saved) < MaxSaves /\ work[w].pc = "idle"
      /\ UNCHANGED <<runs, points>>
  BY DEF Begin
<1>2. save \in Save /\ save.label = l
  BY DEF Save
<1>3. saved \in Seq(Save) /\ Len(saved) \in Nat /\ MaxSaves \in Nat
  BY OutputAssumption DEF IInv, TypeOK
<1>4. /\ saved' \in Seq(Save) /\ Len(saved') = Len(saved) + 1
      /\ saved'[Len(saved) + 1].label = l
      /\ \A i \in 1..Len(saved) : saved'[i] = saved[i]
  BY <1>1, <1>2, <1>3
<1>5. rec \in Work
  <2>1. <<l, t>> \in (Labels \X Tables) \cup {None} /\ Len(saved) + 1 \in 0..MaxSaves
    BY <1>1, <1>3
  <2>2. Doomed(l, t) \in SUBSET (RunRow \cup PointRow)
    BY DoomedRows DEF IInv, TypeOK
  <2>. QED
    BY <2>1, <2>2, IdleType DEF Work
<1>6. TypeOK'
  BY <1>1, <1>3, <1>4, <1>5 DEF IInv, TypeOK
<1>7. /\ rec.pc = "points" /\ rec.save = Len(saved) + 1
      /\ rec.targets = Doomed(l, t) /\ rec.gone = {}
  BY DEF Idle
<1>. HIDE DEF rec, save
<1>8. \A o \in Workers :
        /\ Chosen(o)' = IF o = w THEN Doomed(l, t) ELSE Chosen(o)
        /\ Saving(o)' <=> (o = w \/ Saving(o))
        /\ work'[o].save = IF o = w THEN Len(saved) + 1 ELSE work[o].save
        /\ o # w => work'[o] = work[o]
        /\ o = w => work'[o].pc = "points"
  BY <1>1, <1>7 DEF IInv, TypeOK, Chosen, Saving
<1>9. \A x \in runs \cup points \cup Doomed(l, t) : x.save \in Nat /\ x.save <= Len(saved)
  BY <1>3, DoomedRows DEF IInv, TypeOK, RunRow, PointRow, SavesFresh
<1>10. \A o \in Workers : \A x \in Chosen(o) : x.save \in Nat /\ x.save <= Len(saved)
  BY <1>3 DEF IInv, TypeOK, Work, RunRow, PointRow, SavesFresh, Chosen
<1>11. SavesFresh'
  <2>1. \A x \in (runs \cup points)' : x.save <= Len(saved')
    BY <1>1, <1>3, <1>4, <1>9
  <2>2. \A o \in Workers : \A x \in Chosen(o)' : x.save <= Len(saved')
    BY <1>3, <1>4, <1>8, <1>9, <1>10
  <2>3. ASSUME NEW o \in Workers, Saving(o)'
        PROVE  /\ work'[o].save \in 1..Len(saved')
               /\ \A x \in (runs \cup points)' : x.save # work'[o].save
               /\ \A q \in Workers : \A x \in Chosen(q)' : x.save # work'[o].save
               /\ \A q \in Workers \ {o} : Saving(q)' => work'[q].save # work'[o].save
    <3>1. CASE o = w
      <4>1. work'[o].save = Len(saved) + 1
        BY <1>8, <3>1
      <4>2. \A q \in Workers \ {o} : Saving(q)' => work'[q].save # work'[o].save
        BY <1>3, <1>8, <3>1, <4>1 DEF IInv, SavesFresh
      <4>. QED
        BY <1>1, <1>3, <1>4, <1>8, <1>9, <1>10, <4>1, <4>2
    <3>2. CASE o # w
      <4>1. Saving(o) /\ work'[o].save = work[o].save /\ work[o].save \in 1..Len(saved)
        BY <1>8, <2>3, <3>2 DEF IInv, SavesFresh
      <4>2. \A q \in Workers : \A x \in Chosen(q)' : x.save # work'[o].save
        BY <1>8, <4>1, DoomedRows DEF IInv, SavesFresh
      <4>3. \A q \in Workers \ {o} : Saving(q)' => work'[q].save # work'[o].save
        BY <1>3, <1>8, <4>1 DEF IInv, SavesFresh
      <4>4. \A x \in (runs \cup points)' : x.save # work'[o].save
        BY <1>1, <4>1 DEF IInv, SavesFresh
      <4>. QED
        BY <1>3, <1>4, <4>1, <4>2, <4>3, <4>4
    <3>. QED
      BY <3>1, <3>2
  <2>. QED
    BY <2>1, <2>2, <2>3 DEF SavesFresh
<1>12. DeletesMatch'
  <2>1. SUFFICES ASSUME NEW o \in Workers, Saving(o)', NEW x \in Chosen(o)', NEW r \in runs,
                        RunId(r) = RunId(x)
                 PROVE  /\ work'[o].pc = "points" => r.label = saved'[work'[o].save].label
                        /\ work'[o].pc = "runs" => r \in Chosen(o)'
    BY <1>1 DEF DeletesMatch, Current, RunId
  <2>2. CASE o = w
    BY <1>4, <1>8, <2>1, <2>2, DoomedRows
  <2>3. CASE o # w
    <3>1. Saving(o) /\ x \in Chosen(o) /\ work'[o] = work[o] /\ work[o].save \in 1..Len(saved)
      BY <1>8, <2>1, <2>3 DEF IInv, SavesFresh
    <3>. QED
      BY <1>4, <1>8, <2>1, <2>3, <3>1 DEF IInv, DeletesMatch, Current
  <2>. QED
    BY <2>2, <2>3
<1>13. ProductionApart'
  BY <1>1, <1>8, DoomedRows DEF IInv, ProductionApart
<1>. QED
  BY <1>1, <1>6, <1>11, <1>12, <1>13 DEF IInv, RunsUnique, ListedIsStored

LEMMA CurrentType ==
    ASSUME IInv, NEW w \in Workers, Saving(w)
    PROVE  Current(w) \in Save
<1>1. work[w].save \in 1..Len(saved) /\ saved \in Seq(Save)
  BY DEF IInv, SavesFresh, TypeOK
<1>. QED
  BY <1>1 DEF Current

\* A statement goes on: what the worker has chosen loses at most rows that are gone.
Proceed(w) ==
    /\ UNCHANGED <<runs, points, saved>>
    /\ TypeOK'
    /\ \A o \in Workers \ {w} : work'[o] = work[o]
    /\ work'[w].pc = work[w].pc /\ work'[w].save = work[w].save
    /\ Chosen(w)' \subseteq Chosen(w)
    /\ Chosen(w) \cap (runs \cup points) \subseteq Chosen(w)'

LEMMA ProceedKeeps == ASSUME IInv, NEW w \in Workers, Proceed(w) PROVE IInv'
<1>1. \A o \in Workers :
        /\ Chosen(o)' \subseteq Chosen(o) /\ Chosen(o) \cap runs \subseteq Chosen(o)'
        /\ work'[o].pc = work[o].pc /\ work'[o].save = work[o].save
        /\ Saving(o)' <=> Saving(o)
  BY DEF Proceed, Chosen, Saving
<1>2. SavesFresh'
  BY <1>1 DEF Proceed, IInv, SavesFresh
<1>3. DeletesMatch'
  BY <1>1 DEF Proceed, IInv, DeletesMatch, Current
<1>4. ProductionApart'
  BY <1>1 DEF Proceed, IInv, ProductionApart
<1>. QED
  BY <1>2, <1>3, <1>4 DEF Proceed, IInv, RunsUnique, ListedIsStored

LEMMA DeleteRowKeeps == ASSUME IInv, NEW w \in Workers, DeleteRow(w) PROVE IInv'
<1>1. PICK x \in work[w].targets :
        work' = [work EXCEPT ![w].targets = @ \ {x},
                             ![w].gone = @ \cup ({x} \cap (runs \cup points))]
  BY DEF DeleteRow
<1>2. UNCHANGED <<runs, points, saved>> /\ work[w] \in Work
  BY DEF DeleteRow, IInv, TypeOK
<1>. DEFINE T == work[w].targets \ {x}
            G == work[w].gone \cup ({x} \cap (runs \cup points))
<1>3. T \in SUBSET (RunRow \cup PointRow) /\ G \in SUBSET (RunRow \cup PointRow)
  BY <1>2 DEF Work
<1>. HIDE DEF T, G
<1>4. work' = [work EXCEPT ![w] = [work[w] EXCEPT !.targets = T, !.gone = G]]
  BY <1>1 DEF T, G, IInv, TypeOK
<1>5. [work[w] EXCEPT !.targets = T, !.gone = G] \in Work
  BY <1>2, <1>3 DEF Work
<1>6. TypeOK' /\ \A o \in Workers \ {w} : work'[o] = work[o]
  BY <1>2, <1>4, <1>5 DEF IInv, TypeOK
<1>7. /\ work'[w].pc = work[w].pc /\ work'[w].save = work[w].save
      /\ work'[w].targets = T /\ work'[w].gone = G
  BY <1>2, <1>4 DEF IInv, TypeOK, Work
<1>8. Proceed(w)
  BY <1>2, <1>6, <1>7 DEF Proceed, Chosen, T, G
<1>. QED
  BY <1>8, ProceedKeeps

LEMMA WriteEventKeeps == ASSUME IInv, NEW w \in Workers, WriteEvent(w) PROVE IInv'
<1>1. PICK e \in Todo(w) : work' = [work EXCEPT ![w].done = @ \cup {e}]
  BY DEF WriteEvent
<1>2. e \in Events /\ work[w] \in Work /\ UNCHANGED <<runs, points, saved>>
  <2>1. Current(w).output \in Outputs
    BY CurrentType DEF WriteEvent, Inserting, Saving, Save
  <2>. QED
    BY <2>1, OutputAssumption DEF WriteEvent, Todo, IInv, TypeOK
<1>. DEFINE D == work[w].done \cup {e}
<1>3. D \in SUBSET Events
  BY <1>2 DEF Work
<1>. HIDE DEF D
<1>4. work' = [work EXCEPT ![w] = [work[w] EXCEPT !.done = D]]
  BY <1>1 DEF D, IInv, TypeOK
<1>5. [work[w] EXCEPT !.done = D] \in Work
  BY <1>2, <1>3 DEF Work
<1>6. TypeOK' /\ \A o \in Workers \ {w} : work'[o] = work[o]
  BY <1>2, <1>4, <1>5 DEF IInv, TypeOK
<1>7. /\ work'[w].pc = work[w].pc /\ work'[w].save = work[w].save
      /\ Chosen(w)' = Chosen(w)
  BY <1>2, <1>4 DEF IInv, TypeOK, Work, Chosen
<1>8. Proceed(w)
  BY <1>2, <1>6, <1>7 DEF Proceed
<1>. QED
  BY <1>8, ProceedKeeps

LEMMA DeleteRunsKeeps == ASSUME IInv, NEW w \in Workers, DeleteRuns(w) PROVE IInv'
<1>. DEFINE L == Listed(Current(w).label)
<1>1. work[w] \in Work /\ UNCHANGED <<runs, points, saved>>
  BY DEF DeleteRuns, IInv, TypeOK
<1>2. L \subseteq runs /\ L \in SUBSET (RunRow \cup PointRow)
  BY DEF Listed, IInv, TypeOK
<1>3. Saving(w) /\ Current(w).label \in Labels
  BY CurrentType DEF DeleteRuns, Saving, Save
<1>4. \A x \in L : x.save # 0 /\ x.label = Current(w).label
  BY <1>3, StorageAssumption DEF Listed, IInv, ProductionApart
<1>. HIDE DEF L
<1>5. work' = [work EXCEPT ![w] = [work[w] EXCEPT !.pc = "runs", !.targets = L]]
  BY DEF DeleteRuns, DoomedRuns, L, IInv, TypeOK
<1>6. [work[w] EXCEPT !.pc = "runs", !.targets = L] \in Work
  BY <1>1, <1>2 DEF Work
<1>7. TypeOK'
  BY <1>1, <1>5, <1>6 DEF IInv, TypeOK
<1>8. /\ work'[w].pc = "runs" /\ work'[w].save = work[w].save
      /\ work'[w].targets = L /\ work'[w].gone = work[w].gone
      /\ \A o \in Workers \ {w} : work'[o] = work[o]
  BY <1>1, <1>5 DEF IInv, TypeOK, Work
<1>9. \A o \in Workers :
        /\ Chosen(o)' = IF o = w THEN L \cup Chosen(w) ELSE Chosen(o)
        /\ work'[o].save = work[o].save
        /\ Saving(o)' <=> Saving(o)
  BY <1>3, <1>8 DEF DeleteRuns, Chosen, Saving
<1>10. SavesFresh'
  BY <1>1, <1>2, <1>9 DEF IInv, SavesFresh
<1>11. DeletesMatch'
  <2>1. SUFFICES ASSUME NEW o \in Workers, Saving(o)', NEW x \in Chosen(o)', NEW r \in runs,
                        RunId(r) = RunId(x)
                 PROVE  /\ work'[o].pc = "points" => r.label = saved[work'[o].save].label
                        /\ work'[o].pc = "runs" => r \in Chosen(o)'
    BY <1>1 DEF DeletesMatch, Current, RunId
  <2>2. CASE o # w
    BY <1>8, <1>9, <2>1, <2>2 DEF IInv, DeletesMatch, Current
  <2>3. CASE o = w /\ x \in L
    <3>1. r = x
      BY <1>2, <2>1, <2>3 DEF IInv, RunsUnique
    <3>. QED
      BY <1>8, <2>1, <2>3, <3>1
  <2>4. CASE o = w /\ x \in Chosen(w)
    <3>1. r.label = Current(w).label
      BY <1>3, <2>1, <2>4 DEF DeleteRuns, IInv, DeletesMatch
    <3>. QED
      BY <1>8, <1>9, <2>1, <2>4, <3>1 DEF L, Listed
  <2>. QED
    BY <1>9, <2>1, <2>2, <2>3, <2>4
<1>12. ProductionApart'
  BY <1>1, <1>4, <1>9 DEF IInv, ProductionApart
<1>. QED
  BY <1>1, <1>7, <1>10, <1>11, <1>12 DEF IInv, RunsUnique, ListedIsStored

LEMMA CommitKeeps == ASSUME IInv, NEW w \in Workers, Commit(w) PROVE IInv'
<1>. DEFINE s == work[w].save
<1>1. /\ Saving(w) /\ work[w] \in Work /\ s \in 1..Len(saved) /\ work[w].targets = {}
      /\ work[w].pc = "runs"
  BY DEF Commit, Inserting, Saving, IInv, TypeOK, SavesFresh
<1>2. Current(w) \in Save
  BY <1>1, CurrentType
<1>3. /\ \A r \in NewRuns(w) : r \in RunRow /\ r.save = s /\ r.event \in work[w].done
                               /\ r = [save |-> s, event |-> r.event, label |-> Current(w).label]
      /\ \A p \in NewPoints(w) : p \in PointRow /\ p.save = s
  BY <1>1, <1>2 DEF NewRuns, NewPoints, RunRow, PointRow, Work, Save
<1>4. \A r \in NewRuns(w) : \E p \in NewPoints(w) : RunId(p) = RunId(r)
  <2>1. SUFFICES ASSUME NEW r \in NewRuns(w) PROVE \E p \in NewPoints(w) : RunId(p) = RunId(r)
    OBVIOUS
  <2>2. [save |-> s, event |-> r.event, table |-> Current(w).table] \in NewPoints(w)
    BY <1>3 DEF NewPoints
  <2>. QED
    BY <1>3, <2>2 DEF RunId
<1>5. /\ runs' = (runs \ work[w].gone) \cup NewRuns(w)
      /\ points' = (points \ work[w].gone) \cup NewPoints(w)
      /\ saved' = saved /\ work' = [work EXCEPT ![w] = Idle]
  BY DEF Commit
<1>. HIDE DEF s
<1>6. TypeOK'
  BY <1>3, <1>5, IdleType DEF IInv, TypeOK
<1>7. \A o \in Workers :
        /\ o # w => work'[o] = work[o] /\ Chosen(o)' = Chosen(o)
        /\ o = w => Chosen(o)' = {}
        /\ Saving(o)' <=> o # w /\ Saving(o)
  BY <1>5 DEF IInv, TypeOK, Chosen, Saving, Idle
<1>8. \A x, y : RunId(x) = RunId(y) => x.save = y.save /\ x.event = y.event
  BY DEF RunId
<1>9. RunsUnique'
  <2>1. \A r \in runs, q \in NewRuns(w) : RunId(r) # RunId(q)
    BY <1>1, <1>3, <1>8 DEF IInv, SavesFresh, s
  <2>2. \A r, q \in NewRuns(w) : RunId(r) = RunId(q) => r = q
    BY <1>3, <1>8
  <2>. QED
    BY <1>5, <2>1, <2>2 DEF IInv, RunsUnique, RunId
<1>10. SavesFresh'
  <2>1. s <= Len(saved)
    BY <1>1
  <2>2. \A o \in Workers \ {w} : Saving(o) => work[o].save # s
    BY <1>1 DEF IInv, SavesFresh, s
  <2>3. \A x \in (runs \cup points)' : x \in runs \cup points \/ x.save = s
    BY <1>3, <1>5
  <2>. QED
    BY <1>5, <1>7, <2>1, <2>2, <2>3 DEF IInv, SavesFresh
<1>11. DeletesMatch'
  <2>1. SUFFICES ASSUME NEW o \in Workers, Saving(o)', NEW x \in Chosen(o)', NEW r \in runs',
                        RunId(r) = RunId(x)
                 PROVE  /\ work'[o].pc = "points" => r.label = saved[work'[o].save].label
                        /\ work'[o].pc = "runs" => r \in Chosen(o)'
    BY <1>5 DEF DeletesMatch, Current, RunId
  <2>2. x \in Chosen(o) /\ Saving(o) /\ o # w
    BY <1>7, <2>1
  <2>3. x.save # s
    BY <1>1, <2>2 DEF IInv, SavesFresh, s
  <2>4. r \in runs
    BY <1>3, <1>5, <1>8, <2>1, <2>3
  <2>. QED
    BY <1>7, <2>1, <2>2, <2>4 DEF IInv, DeletesMatch, Current
<1>12. ProductionApart'
  BY <1>1, <1>3, <1>5, <1>7 DEF IInv, ProductionApart
<1>13. ListedIsStored'
  <2>1. SUFFICES ASSUME NEW r \in runs' PROVE \E p \in points' : RunId(p) = RunId(r)
    BY DEF ListedIsStored, RunId
  <2>2. CASE r \in NewRuns(w)
    BY <1>4, <1>5, <2>2
  <2>3. CASE r \in runs \ work[w].gone
    <3>1. PICK p \in points : RunId(p) = RunId(r)
      BY <2>3 DEF IInv, ListedIsStored
    <3>2. ASSUME p \in work[w].gone PROVE FALSE
      BY <1>1, <2>3, <3>1, <3>2 DEF IInv, DeletesMatch, Chosen
    <3>. QED
      BY <1>5, <3>1, <3>2
  <2>. QED
    BY <1>5, <2>1, <2>2, <2>3
<1>. QED
  BY <1>6, <1>9, <1>10, <1>11, <1>12, <1>13 DEF IInv

LEMMA Inductive == ASSUME IInv, [Next]_vars PROVE IInv'
<1>1. CASE UNCHANGED vars
  BY <1>1 DEF vars, IInv, TypeOK, RunsUnique, SavesFresh, DeletesMatch, ProductionApart,
              ListedIsStored, Chosen, Saving, Current
<1>2. CASE Next
  BY <1>2, BeginKeeps, DeleteRowKeeps, DeleteRunsKeeps, WriteEventKeeps, CommitKeeps, IdleKeeps,
     ResumeKeeps, LoadKeeps DEF Next
<1>. QED
  BY <1>1, <1>2

LEMMA Invariance == Spec => []IInv
  BY Initially, Inductive, PTL DEF Spec

-----------------------------------------------------------------------------
(* The results.                                                             *)

\* Every variable keeps its type.
THEOREM TypeCorrect == Spec => []TypeOK
<1>1. IInv => TypeOK
  BY DEF IInv
<1>. QED
  BY <1>1, Invariance, PTL

\* What has_backtest_output finds listed has its points, whoever else overwrites
\* the label meanwhile.
THEOREM ListedStays == Spec => []ListedIsStored
<1>1. IInv => ListedIsStored
  BY DEF IInv
<1>. QED
  BY <1>1, Invariance, PTL

\* No overwrite reaches a production run or its points.
THEOREM ProductionStays == Spec => ProductionKept
<1>. DEFINE A == \A x \in runs \cup points : x.save = 0 => x \in runs' \cup points'
<1>1. ASSUME IInv, [Next]_vars PROVE A
  <2>1. CASE runs' = runs /\ points' = points
    BY <2>1
  <2>2. CASE \E w \in Workers : Commit(w)
    BY <1>1, <2>2 DEF Commit, IInv, ProductionApart, Chosen
  <2>. QED
    BY <1>1, <2>1, <2>2 DEF Next, vars, Begin, DeleteRow, DeleteRuns, WriteEvent, Abandon,
       DeadlockVictim, Resume, Load, Forget
<1>. HIDE DEF A
<1>2. Spec => [][A]_vars
  BY <1>1, Invariance, PTL DEF Spec
<1>. QED
  BY <1>2 DEF ProductionKept, A

-----------------------------------------------------------------------------
(* Labels with one saver.  IInv says nothing of what a label holds; this    *)
(* second invariant follows it through the statements of a save.            *)

\* A row carries the label and the table of the save that minted it, and a save
\* works on a storage of some worker.
Traced ==
    /\ \A r \in runs : r.save # 0 => r.label = saved[r.save].label
    /\ \A p \in points : p.save # 0 => p.table = saved[p.save].table
    /\ \A i \in 1..Len(saved) :
          \E w \in Workers : <<saved[i].label, saved[i].table>> \in Storages[w]

\* Every point stored under an owned label has its run, and the runs listed are
\* those of one save.
Whole ==
    \A l \in Owned :
        /\ \A p \in Stored(l) : \E r \in Listed(l) : RunId(r) = RunId(p)
        /\ \A r, s \in Listed(l) : r.save = s.save

\* A saver has chosen rows of its label only; of an owned label, all the points
\* and, once the second DELETE has its snapshot, all the runs.
Covers(w) ==
    /\ <<Current(w).label, Current(w).table>> \in Storages[w]
    /\ work[w].done \subseteq Current(w).output
    /\ \A x \in Chosen(w) : saved[x.save].label = Current(w).label
    /\ Current(w).label \in Owned =>
          /\ Stored(Current(w).label) \subseteq Chosen(w)
          /\ work[w].pc = "runs" => Listed(Current(w).label) \subseteq Chosen(w)

\* A worker that resumes does so from its own storage, where an owned label that
\* was present still is, and what it loaded is the output of one save.
Resumes(w) ==
    /\ work[w].pc \in {"present", "loaded"} => work[w].storage \in Storages[w]
    /\ work[w].storage[1] \in Owned =>
          /\ work[w].pc = "present" => Listed(work[w].storage[1]) # {}
          /\ work[w].pc = "loaded" => /\ work[w].result # {}
                                      /\ \A x, y \in work[w].result : x[1] = y[1]

LabelInv ==
    /\ Traced /\ Whole
    /\ \A w \in Workers : (Saving(w) => Covers(w)) /\ Resumes(w)

LEMMA OwnedConstant == Owned' = Owned
  BY DEF Owned

\* An owned label has one saver and one table.
LEMMA OneStorage ==
    ASSUME NEW l \in Owned, NEW w \in Workers, NEW o \in Workers,
           NEW t \in Tables, NEW u \in Tables,
           <<l, t>> \in Storages[w], <<l, u>> \in Storages[o]
    PROVE  o = w /\ u = t
  BY DEF Owned

LEMMA OwnedLabel == Owned \subseteq Labels
  BY DEF Owned

\* What is listed under a label is what its saves minted.
LEMMA ListedBySave ==
    ASSUME IInv, Traced, NEW l \in Labels, NEW r \in runs
    PROVE  r \in Listed(l) <=> r.save # 0 /\ saved[r.save].label = l
  BY StorageAssumption DEF IInv, ProductionApart, Traced, Listed

\* A listed run of an owned label has its points in the label's table.
LEMMA ListedHasPoints ==
    ASSUME IInv, Traced, NEW l \in Labels, NEW r \in Listed(l)
    PROVE  \E p \in Stored(l) : RunId(p) = RunId(r)
<1>1. r \in runs /\ r.save # 0 /\ saved[r.save].label = l
  BY ListedBySave DEF Listed
<1>2. PICK p \in points : RunId(p) = RunId(r)
  BY <1>1 DEF IInv, ListedIsStored
<1>3. p.save = r.save
  BY <1>2 DEF RunId
<1>. QED
  BY <1>1, <1>2, <1>3 DEF Stored

\* The saves that rows and workers refer to have begun.
LEMMA Begun ==
    ASSUME IInv
    PROVE  /\ \A x \in runs \cup points : x.save # 0 => x.save \in 1..Len(saved)
           /\ \A w \in Workers : \A x \in Chosen(w) : x.save \in 1..Len(saved)
           /\ \A w \in Workers : Saving(w) => work[w].save \in 1..Len(saved)
           /\ \A i \in 1..Len(saved) : saved[i] \in Save
<1>1. saved \in Seq(Save) /\ runs \subseteq RunRow /\ points \subseteq PointRow /\ MaxSaves \in Nat
  BY OutputAssumption DEF IInv, TypeOK
<1>2. \A x \in runs \cup points : x.save \in Nat
  BY <1>1 DEF RunRow, PointRow
<1>3. \A w \in Workers : \A x \in Chosen(w) : x.save \in Nat
  BY <1>1 DEF IInv, TypeOK, Work, Chosen, RunRow, PointRow
<1>4. \A x \in runs \cup points : x.save <= Len(saved)
  BY DEF IInv, SavesFresh
<1>5. \A w \in Workers : \A x \in Chosen(w) : x.save <= Len(saved) /\ x.save # 0
  BY DEF IInv, SavesFresh, ProductionApart
<1>6. \A w \in Workers : Saving(w) => work[w].save \in 1..Len(saved)
  BY DEF IInv, SavesFresh
<1>. QED
  BY <1>1, <1>2, <1>3, <1>4, <1>5, <1>6

\* A step of one worker that leaves the store alone.
LEMMA StoreUntouched ==
    ASSUME LabelInv, NEW w \in Workers, UNCHANGED <<runs, points, saved>>,
           \A o \in Workers \ {w} : work'[o] = work[o],
           Saving(w)' => Covers(w)', Resumes(w)'
    PROVE  LabelInv'
<1>1. \A l : Listed(l)' = Listed(l) /\ Stored(l)' = Stored(l)
  BY DEF Listed, Stored
<1>2. Traced' /\ Whole'
  BY <1>1, OwnedConstant DEF LabelInv, Traced, Whole, RunId
<1>3. ASSUME NEW o \in Workers \ {w} PROVE (Saving(o)' => Covers(o)') /\ Resumes(o)'
  <2>1. work'[o] = work[o] /\ Chosen(o)' = Chosen(o) /\ Current(o)' = Current(o)
        /\ Saving(o)' = Saving(o)
    BY DEF Chosen, Current, Saving
  <2>2. Saving(o) => Covers(o)
    BY DEF LabelInv
  <2>3. Saving(o)' => Covers(o)'
    BY <1>1, <2>1, <2>2, OwnedConstant DEF Covers
  <2>4. Resumes(o)'
    BY <1>1, <2>1, OwnedConstant DEF LabelInv, Resumes
  <2>. QED
    BY <2>3, <2>4
<1>. QED
  BY <1>2, <1>3 DEF LabelInv

LEMMA IdleFits ==
    ASSUME IInv, LabelInv, NEW w \in Workers, Abandon(w) \/ DeadlockVictim(w) \/ Forget(w)
    PROVE  LabelInv'
<1>1. UNCHANGED <<runs, points, saved>> /\ work' = [work EXCEPT ![w] = Idle]
  BY DEF Abandon, DeadlockVictim, Forget
<1>2. work'[w] = Idle /\ \A o \in Workers \ {w} : work'[o] = work[o]
  BY <1>1 DEF IInv, TypeOK
<1>3. ~Saving(w)' /\ Resumes(w)'
  BY <1>2 DEF Saving, Resumes, Idle
<1>. QED
  BY <1>1, <1>2, <1>3, StoreUntouched

LEMMA ResumeFits ==
    ASSUME IInv, LabelInv, NEW w \in Workers, NEW l \in Labels, NEW t \in Tables,
           Resume(w, l, t)
    PROVE  LabelInv'
<1>. DEFINE rec == [Idle EXCEPT !.pc = "present", !.storage = <<l, t>>]
<1>1. UNCHANGED <<runs, points, saved>> /\ <<l, t>> \in Storages[w] /\ work[w].pc = "idle"
  BY DEF Resume
<1>2. CASE UNCHANGED work
  <2>1. ~Saving(w)' /\ Resumes(w)'
    BY <1>1, <1>2 DEF Saving, Resumes
  <2>. QED
    BY <1>1, <1>2, <2>1, StoreUntouched
<1>3. CASE Has(l) /\ work' = [work EXCEPT ![w] = rec]
  <2>1. rec.pc = "present" /\ rec.storage = <<l, t>>
    BY DEF Idle
  <2>. HIDE DEF rec
  <2>2. work'[w] = rec /\ \A o \in Workers \ {w} : work'[o] = work[o]
    BY <1>3 DEF IInv, TypeOK
  <2>3. Listed(l)' # {}
    BY <1>1, <1>3 DEF Has, Listed
  <2>4. ~Saving(w)' /\ Resumes(w)'
    BY <1>1, <2>1, <2>2, <2>3 DEF Saving, Resumes
  <2>. QED
    BY <1>1, <2>2, <2>4, StoreUntouched
<1>. QED
  BY <1>2, <1>3 DEF Resume

\* What a worker finds present under its own label, it finds in its table.
LEMMA LoadFits ==
    ASSUME IInv, LabelInv, NEW w \in Workers, Load(w)
    PROVE  LabelInv'
<1>. DEFINE found == {RunId(p) : p \in Artifacts(work[w].storage[1], work[w].storage[2])}
<1>1. /\ UNCHANGED <<runs, points, saved>> /\ work[w].pc = "present"
      /\ work' = [work EXCEPT ![w].pc = "loaded", ![w].result = found]
  BY DEF Load
<1>2. ASSUME work[w].storage[1] \in Owned
      PROVE  found # {} /\ \A x, y \in found : x[1] = y[1]
  <2>. DEFINE l == work[w].storage[1]
              t == work[w].storage[2]
  <2>1. work[w].storage \in Storages[w] /\ Storages[w] \subseteq Labels \X Tables
    BY <1>1, StorageAssumption DEF LabelInv, Resumes
  <2>2. <<l, t>> \in Storages[w] /\ l \in Labels /\ t \in Tables /\ l \in Owned
    BY <1>2, <2>1
  <2>3. PICK r \in Listed(l) : TRUE
    BY <1>1, <1>2 DEF LabelInv, Resumes
  <2>4. PICK p \in Stored(l) : RunId(p) = RunId(r)
    BY <2>2, <2>3, ListedHasPoints DEF LabelInv
  <2>5. p \in points /\ p.save # 0 /\ saved[p.save].label = l /\ p.save \in 1..Len(saved)
    BY <2>4, Begun DEF Stored
  <2>6. p.table = t
    <3>1. PICK o \in Workers : <<l, p.table>> \in Storages[o]
      BY <2>5 DEF LabelInv, Traced
    <3>. QED
      BY <2>2, <2>5, <3>1, OneStorage DEF IInv, TypeOK, PointRow
  <2>7. RunId(p) \in found
    BY <2>3, <2>4, <2>5, <2>6 DEF Artifacts
  <2>8. \A a, b : RunId(a)[1] = a.save /\ (RunId(a) = RunId(b) => a.save = b.save)
    BY DEF RunId
  <2>9. \A x \in found : \E q \in Listed(l) : x[1] = q.save
    BY <2>8 DEF Artifacts
  <2>. QED
    BY <2>2, <2>7, <2>9 DEF LabelInv, Whole
<1>. HIDE DEF found
<1>3. /\ work'[w] = [work[w] EXCEPT !.pc = "loaded", !.result = found]
      /\ \A o \in Workers \ {w} : work'[o] = work[o]
  BY <1>1 DEF IInv, TypeOK
<1>4. work'[w].pc = "loaded" /\ work'[w].result = found /\ work'[w].storage = work[w].storage
  BY <1>3 DEF IInv, TypeOK, Work
<1>5. ~Saving(w)' /\ Resumes(w)'
  BY <1>1, <1>2, <1>4 DEF LabelInv, Saving, Resumes
<1>. QED
  BY <1>1, <1>3, <1>5, StoreUntouched

LEMMA DeleteRowFits == ASSUME IInv, LabelInv, NEW w \in Workers, DeleteRow(w) PROVE LabelInv'
<1>1. PICK x \in work[w].targets :
        work' = [work EXCEPT ![w].targets = @ \ {x},
                             ![w].gone = @ \cup ({x} \cap (runs \cup points))]
  BY DEF DeleteRow
<1>2. UNCHANGED <<runs, points, saved>> /\ work[w] \in Work
  BY DEF DeleteRow, IInv, TypeOK
<1>3. /\ work'[w] = [work[w] EXCEPT !.targets = @ \ {x},
                                    !.gone = @ \cup ({x} \cap (runs \cup points))]
      /\ \A o \in Workers \ {w} : work'[o] = work[o]
  BY <1>1 DEF IInv, TypeOK
<1>4. /\ work'[w].pc = work[w].pc /\ work'[w].save = work[w].save
      /\ work'[w].done = work[w].done /\ work'[w].storage = work[w].storage
      /\ work'[w].result = work[w].result
      /\ work'[w].targets = work[w].targets \ {x}
      /\ work'[w].gone = work[w].gone \cup ({x} \cap (runs \cup points))
  BY <1>2, <1>3 DEF Work
<1>5. /\ Chosen(w)' \subseteq Chosen(w)
      /\ Chosen(w) \cap (runs \cup points) \subseteq Chosen(w)'
  BY <1>4 DEF Chosen
<1>6. \A l : /\ Listed(l)' = Listed(l) /\ Stored(l)' = Stored(l)
             /\ Listed(l) \subseteq runs /\ Stored(l) \subseteq points
  BY <1>2 DEF Listed, Stored
<1>7. Saving(w)' = Saving(w) /\ Current(w)' = Current(w)
  BY <1>2, <1>4 DEF Saving, Current
<1>8. ASSUME Saving(w)' PROVE Covers(w)'
  <2>1. Covers(w)
    BY <1>7, <1>8 DEF LabelInv
  <2>. QED
    BY <1>2, <1>4, <1>5, <1>6, <1>7, <2>1, OwnedConstant DEF Covers
<1>9. Resumes(w)'
  BY <1>4, <1>6, OwnedConstant DEF LabelInv, Resumes
<1>. QED
  BY <1>2, <1>3, <1>8, <1>9, StoreUntouched

LEMMA WriteEventFits == ASSUME IInv, LabelInv, NEW w \in Workers, WriteEvent(w) PROVE LabelInv'
<1>1. PICK e \in Todo(w) : work' = [work EXCEPT ![w].done = @ \cup {e}]
  BY DEF WriteEvent
<1>2. UNCHANGED <<runs, points, saved>> /\ work[w] \in Work /\ Saving(w)
  BY DEF WriteEvent, Inserting, Saving, IInv, TypeOK
<1>3. /\ work'[w] = [work[w] EXCEPT !.done = @ \cup {e}]
      /\ \A o \in Workers \ {w} : work'[o] = work[o]
  BY <1>1 DEF IInv, TypeOK
<1>4. /\ work'[w].pc = work[w].pc /\ work'[w].save = work[w].save
      /\ work'[w].done = work[w].done \cup {e} /\ work'[w].storage = work[w].storage
      /\ Chosen(w)' = Chosen(w)
  BY <1>2, <1>3 DEF Work, Chosen
<1>5. \A l : Listed(l)' = Listed(l) /\ Stored(l)' = Stored(l)
  BY <1>2 DEF Listed, Stored
<1>6. Current(w)' = Current(w) /\ e \in Current(w).output /\ Covers(w)
  BY <1>2, <1>4 DEF Current, Todo, LabelInv
<1>7. Covers(w)'
  BY <1>2, <1>4, <1>5, <1>6, OwnedConstant DEF Covers
<1>8. Resumes(w)'
  BY <1>2, <1>4 DEF Saving, Resumes
<1>. QED
  BY <1>2, <1>3, <1>7, <1>8, StoreUntouched

LEMMA DeleteRunsFits == ASSUME IInv, LabelInv, NEW w \in Workers, DeleteRuns(w) PROVE LabelInv'
<1>. DEFINE l == Current(w).label
<1>1. /\ UNCHANGED <<runs, points, saved>> /\ work[w] \in Work /\ Saving(w)
      /\ work[w].targets = {} /\ Covers(w)
  BY DEF DeleteRuns, Saving, IInv, TypeOK, LabelInv
<1>2. /\ work'[w] = [work[w] EXCEPT !.pc = "runs", !.targets = Listed(l)]
      /\ \A o \in Workers \ {w} : work'[o] = work[o]
  BY DEF DeleteRuns, DoomedRuns, IInv, TypeOK
<1>3. /\ work'[w].pc = "runs" /\ work'[w].save = work[w].save
      /\ work'[w].done = work[w].done /\ Chosen(w)' = Listed(l) \cup Chosen(w)
  BY <1>1, <1>2 DEF Work, Chosen
<1>4. \A k : Listed(k)' = Listed(k) /\ Stored(k)' = Stored(k)
  BY <1>1 DEF Listed, Stored
<1>5. Current(w)' = Current(w) /\ l \in Labels
  BY <1>1, <1>3, CurrentType DEF Current, Save
<1>6. \A x \in Listed(l) : saved[x.save].label = l
  BY <1>5, ListedBySave DEF LabelInv, Listed
<1>7. Covers(w)'
  BY <1>1, <1>3, <1>4, <1>5, <1>6, OwnedConstant DEF Covers
<1>8. Resumes(w)'
  BY <1>3 DEF Resumes
<1>. QED
  BY <1>1, <1>2, <1>7, <1>8, StoreUntouched

LEMMA BeginFits ==
    ASSUME IInv, LabelInv, NEW w \in Workers, NEW l \in Labels, NEW t \in Tables,
           NEW output \in Outputs, Begin(w, l, t, output)
    PROVE  LabelInv'
<1>. DEFINE save == [label |-> l, table |-> t, output |-> output]
            rec == [Idle EXCEPT !.pc = "points", !.save = Len(saved) + 1,
                                !.storage = <<l, t>>, !.targets = Doomed(l, t)]
<1>1. /\ saved' = Append(saved, save) /\ work' = [work EXCEPT ![w] = rec]
      /\ <<l, t>> \in Storages[w] /\ UNCHANGED <<runs, points>>
  BY DEF Begin
<1>2. saved \in Seq(Save) /\ save \in Save
  BY DEF IInv, TypeOK, Save
<1>3. /\ Len(saved') = Len(saved) + 1 /\ saved'[Len(saved) + 1] = save
      /\ \A i \in 1..Len(saved) : saved'[i] = saved[i]
  BY <1>1, <1>2
<1>4. /\ save.label = l /\ save.table = t
      /\ rec.pc = "points" /\ rec.save = Len(saved) + 1 /\ rec.done = {}
      /\ rec.targets = Doomed(l, t) /\ rec.gone = {}
  BY DEF Idle
<1>. HIDE DEF save, rec
<1>5. work'[w] = rec /\ \A o \in Workers \ {w} : work'[o] = work[o]
  BY <1>1 DEF IInv, TypeOK
<1>6. \A x \in runs \cup points : x.save # 0 => saved'[x.save] = saved[x.save]
  BY <1>3, Begun
<1>7. \A k : Listed(k)' = Listed(k) /\ Stored(k)' = Stored(k)
  BY <1>1, <1>6 DEF Listed, Stored
<1>8. Traced'
  <2>1. \A r \in runs : r.save # 0 => r.label = saved'[r.save].label
    BY <1>6 DEF LabelInv, Traced
  <2>2. \A p \in points : p.save # 0 => p.table = saved'[p.save].table
    BY <1>6 DEF LabelInv, Traced
  <2>3. \A i \in 1..Len(saved') :
            \E o \in Workers : <<saved'[i].label, saved'[i].table>> \in Storages[o]
    <3>1. \A i \in 1..Len(saved') : i \in 1..Len(saved) \/ i = Len(saved) + 1
      BY <1>2, <1>3
    <3>. QED
      BY <1>1, <1>3, <1>4, <3>1 DEF LabelInv, Traced
  <2>. QED
    BY <1>1, <2>1, <2>2, <2>3 DEF Traced
<1>9. Whole'
  BY <1>7, OwnedConstant DEF LabelInv, Whole, RunId
<1>10. ASSUME NEW o \in Workers \ {w} PROVE (Saving(o)' => Covers(o)') /\ Resumes(o)'
  <2>1. work'[o] = work[o] /\ Chosen(o)' = Chosen(o) /\ Saving(o)' = Saving(o)
    BY <1>5 DEF Chosen, Saving
  <2>2. ASSUME Saving(o) PROVE Covers(o)'
    <3>1. Current(o)' = Current(o) /\ Covers(o)
      BY <1>3, <2>1, <2>2, Begun DEF Current, LabelInv
    <3>2. \A x \in Chosen(o) : saved'[x.save] = saved[x.save]
      BY <1>3, Begun
    <3>. QED
      BY <1>7, <2>1, <3>1, <3>2, OwnedConstant DEF Covers
  <2>3. Resumes(o)'
    BY <1>7, <2>1, OwnedConstant DEF LabelInv, Resumes
  <2>. QED
    BY <2>1, <2>2, <2>3
<1>11. Covers(w)'
  <2>1. Current(w)' = save /\ Chosen(w)' = Doomed(l, t) /\ work'[w].pc = "points"
        /\ work'[w].done = {}
    BY <1>3, <1>4, <1>5 DEF Current, Chosen
  <2>2. \A x \in Doomed(l, t) : x \in points /\ \E r \in Listed(l) : RunId(r) = RunId(x)
    BY DEF Doomed, Artifacts
  <2>3. \A x \in Doomed(l, t) : saved'[x.save].label = l
    <3>1. SUFFICES ASSUME NEW x \in Doomed(l, t) PROVE saved'[x.save].label = l
      OBVIOUS
    <3>2. PICK r \in Listed(l) : RunId(r) = RunId(x)
      BY <2>2
    <3>3. r.save = x.save /\ r \in runs
      BY <3>2 DEF RunId, Listed
    <3>. QED
      BY <1>6, <3>2, <3>3, ListedBySave DEF LabelInv
  <2>4. ASSUME l \in Owned, NEW p \in Stored(l) PROVE p \in Doomed(l, t)
    <3>1. p \in points /\ p.save # 0 /\ saved[p.save].label = l /\ p.save \in 1..Len(saved)
      BY Begun DEF Stored
    <3>2. PICK o \in Workers : <<l, p.table>> \in Storages[o]
      BY <3>1 DEF LabelInv, Traced
    <3>3. p.table = t
      BY <1>1, <2>4, <3>1, <3>2, OneStorage DEF IInv, TypeOK, PointRow
    <3>4. PICK r \in Listed(l) : RunId(r) = RunId(p)
      BY <2>4 DEF LabelInv, Whole
    <3>. QED
      BY <3>1, <3>3, <3>4 DEF Doomed, Artifacts
  <2>. QED
    BY <1>1, <1>4, <1>7, <2>1, <2>3, <2>4, OwnedConstant DEF Covers
<1>12. Resumes(w)'
  BY <1>4, <1>5 DEF Resumes
<1>. QED
  BY <1>8, <1>9, <1>10, <1>11, <1>12 DEF LabelInv

\* A commit replaces what its label lists and stores, if the label has one saver,
\* and leaves the other owned labels alone.
LEMMA CommitEffect ==
    ASSUME IInv, LabelInv, NEW w \in Workers, Commit(w), NEW l \in Owned
    PROVE  /\ l # Current(w).label => Listed(l)' = Listed(l) /\ Stored(l)' = Stored(l)
           /\ l = Current(w).label => Listed(l)' = NewRuns(w) /\ Stored(l)' = NewPoints(w)
<1>. DEFINE s == work[w].save
<1>1. /\ Saving(w) /\ Covers(w) /\ work[w].pc = "runs" /\ s \in 1..Len(saved)
      /\ Chosen(w) = work[w].gone /\ l \in Labels
  BY Begun, OwnedLabel DEF Commit, Inserting, Saving, Chosen, LabelInv
<1>2. /\ runs' = (runs \ work[w].gone) \cup NewRuns(w)
      /\ points' = (points \ work[w].gone) \cup NewPoints(w) /\ saved' = saved
  BY DEF Commit
<1>3. \A r \in NewRuns(w) : r.save = s /\ r.label = Current(w).label
  BY DEF NewRuns
<1>4. \A p \in NewPoints(w) : p.save = s
  BY DEF NewPoints
<1>5. s # 0 /\ saved[s].label = Current(w).label
  BY <1>1 DEF Current
<1>6. \A x \in work[w].gone : saved[x.save].label = Current(w).label
  BY <1>1 DEF Covers
<1>. HIDE DEF s
<1>7. ASSUME l # Current(w).label PROVE Listed(l)' = Listed(l) /\ Stored(l)' = Stored(l)
  <2>1. \A r \in Listed(l) : r \in runs /\ saved[r.save].label = l
    BY <1>1, ListedBySave DEF LabelInv, Listed
  <2>2. Listed(l) \cap work[w].gone = {} /\ Stored(l) \cap work[w].gone = {}
    BY <1>6, <1>7, <2>1 DEF Stored
  <2>. QED
    BY <1>2, <1>3, <1>4, <1>5, <1>7, <2>2 DEF Listed, Stored
<1>8. ASSUME l = Current(w).label PROVE Listed(l)' = NewRuns(w) /\ Stored(l)' = NewPoints(w)
  <2>1. Listed(l) \subseteq work[w].gone /\ Stored(l) \subseteq work[w].gone
    BY <1>1, <1>8 DEF Covers
  <2>. QED
    BY <1>2, <1>3, <1>4, <1>5, <1>8, <2>1 DEF Listed, Stored
<1>. QED
  BY <1>7, <1>8

LEMMA CommitFits == ASSUME IInv, LabelInv, NEW w \in Workers, Commit(w) PROVE LabelInv'
<1>. DEFINE s == work[w].save
<1>1. /\ Saving(w) /\ Covers(w) /\ s \in 1..Len(saved) /\ work[w] \in Work
      /\ Current(w) \in Save /\ s # 0 /\ saved[s] = Current(w)
  BY Begun, CurrentType DEF Commit, Inserting, Saving, LabelInv, IInv, TypeOK, Current
<1>2. /\ runs' = (runs \ work[w].gone) \cup NewRuns(w)
      /\ points' = (points \ work[w].gone) \cup NewPoints(w)
      /\ saved' = saved /\ work' = [work EXCEPT ![w] = Idle]
  BY DEF Commit
<1>3. /\ \A r \in NewRuns(w) : r.save = s /\ r.label = Current(w).label
      /\ \A p \in NewPoints(w) : p.save = s /\ p.table = Current(w).table
                                 /\ p.event \in work[w].done
      /\ \A e \in work[w].done :
            [save |-> s, event |-> e, label |-> Current(w).label] \in NewRuns(w)
  BY DEF NewRuns, NewPoints
<1>. HIDE DEF s
<1>4. Traced'
  BY <1>1, <1>2, <1>3 DEF LabelInv, Traced
<1>5. \A p \in NewPoints(w) : \E r \in NewRuns(w) : RunId(r) = RunId(p)
  <2>1. SUFFICES ASSUME NEW p \in NewPoints(w) PROVE \E r \in NewRuns(w) : RunId(r) = RunId(p)
    OBVIOUS
  <2>. DEFINE r == [save |-> s, event |-> p.event, label |-> Current(w).label]
  <2>2. r \in NewRuns(w) /\ r.save = p.save /\ r.event = p.event
    BY <1>3
  <2>. QED
    BY <2>2 DEF RunId
<1>6. Whole'
  <2>1. SUFFICES ASSUME NEW l \in Owned
                 PROVE  /\ \A p \in Stored(l)' : \E r \in Listed(l)' : RunId(r) = RunId(p)
                        /\ \A r, q \in Listed(l)' : r.save = q.save
    BY OwnedConstant DEF Whole, RunId
  <2>2. CASE l # Current(w).label
    BY <2>2, CommitEffect DEF LabelInv, Whole
  <2>3. CASE l = Current(w).label
    <3>1. Listed(l)' = NewRuns(w) /\ Stored(l)' = NewPoints(w)
      BY <2>3, CommitEffect
    <3>. QED
      BY <1>3, <1>5, <3>1
  <2>. QED
    BY <2>2, <2>3
<1>7. work'[w] = Idle /\ \A o \in Workers \ {w} : work'[o] = work[o]
  BY <1>2 DEF IInv, TypeOK
<1>8. \A o \in Workers \ {w} : \A k \in Labels, u \in Tables :
          <<k, u>> \in Storages[o] /\ k \in Owned => k # Current(w).label
  BY <1>1, OneStorage DEF Covers, Save
<1>9. ASSUME NEW o \in Workers \ {w} PROVE (Saving(o)' => Covers(o)') /\ Resumes(o)'
  <2>1. /\ work'[o] = work[o] /\ Chosen(o)' = Chosen(o) /\ Saving(o)' = Saving(o)
        /\ Current(o)' = Current(o)
    BY <1>2, <1>7 DEF Chosen, Saving, Current
  <2>2. ASSUME Saving(o) PROVE Covers(o)'
    <3>1. Covers(o) /\ Current(o) \in Save
      BY <2>2, CurrentType DEF LabelInv
    <3>2. ASSUME NEW k \in Owned, k = Current(o).label
          PROVE  Listed(k)' = Listed(k) /\ Stored(k)' = Stored(k)
      BY <1>8, <3>1, <3>2, CommitEffect DEF Covers, Save
    <3>. QED
      BY <1>2, <2>1, <3>1, <3>2, OwnedConstant DEF Covers
  <2>3. Resumes(o)'
    <3>1. ASSUME NEW k \in Owned, k = work[o].storage[1], work[o].pc = "present"
          PROVE  Listed(k)' = Listed(k)
      <4>1. work[o].storage \in Storages[o] /\ Storages[o] \subseteq Labels \X Tables
        BY <3>1, StorageAssumption DEF LabelInv, Resumes
      <4>. QED
        BY <1>8, <3>1, <4>1, CommitEffect
    <3>. QED
      BY <2>1, <3>1, OwnedConstant DEF LabelInv, Resumes
  <2>. QED
    BY <2>1, <2>2, <2>3
<1>10. ~Saving(w)' /\ Resumes(w)'
  BY <1>7 DEF Saving, Resumes, Idle
<1>. QED
  BY <1>4, <1>6, <1>9, <1>10 DEF LabelInv

LEMMA LabelsInitially == ASSUME Init PROVE LabelInv
<1>1. /\ \A x \in runs \cup points : x.save = 0
      /\ \A r \in runs : r.label = None
      /\ saved = << >> /\ \A w \in Workers : work[w] = Idle
  BY DEF Init
<1>2. \A l \in Owned : Listed(l) = {} /\ Stored(l) = {}
  BY <1>1, OwnedLabel, StorageAssumption DEF Listed, Stored
<1>. QED
  BY <1>1, <1>2 DEF LabelInv, Traced, Whole, Saving, Resumes, Idle

LEMMA LabelsInductive == ASSUME IInv, LabelInv, [Next]_vars PROVE LabelInv'
<1>1. CASE UNCHANGED vars
  <2>1. \A l : Listed(l)' = Listed(l) /\ Stored(l)' = Stored(l)
    BY <1>1 DEF vars, Listed, Stored
  <2>. QED
    BY <1>1, <2>1, OwnedConstant DEF vars, LabelInv, Traced, Whole, Covers, Resumes, Chosen,
       Current, Saving, RunId
<1>2. CASE Next
  BY <1>2, BeginFits, DeleteRowFits, DeleteRunsFits, WriteEventFits, CommitFits, IdleFits,
     ResumeFits, LoadFits DEF Next
<1>. QED
  BY <1>1, <1>2

LEMMA LabelInvariance == Spec => []LabelInv
  BY Invariance, LabelsInitially, LabelsInductive, PTL DEF Spec

\* A label with one saver that the resume check finds loads as the output of one
\* save, however the labels of others are fought over.
THEOREM ResumeIsSound == Spec => []ResumeLoads
<1>1. LabelInv => ResumeLoads
  BY DEF LabelInv, Resumes, ResumeLoads
<1>. QED
  BY <1>1, LabelInvariance, PTL

-----------------------------------------------------------------------------
(* The refinement: a commit of a save of an owned label replaces the label, *)
(* every other step is a stutter.                                           *)

Catalogue == [l \in Owned |-> {RunId(r) : r \in Listed(l)}]
Content == [l \in Owned |-> {RunId(p) : p \in Stored(l)}]

LEMMA SameLabels ==
    ASSUME \A l \in Owned : Listed(l)' = Listed(l) /\ Stored(l)' = Stored(l)
    PROVE  Catalogue' = Catalogue /\ Content' = Content
  BY OwnedConstant DEF Catalogue, Content, RunId

LEMMA CommitReplaces ==
    ASSUME IInv, LabelInv, NEW w \in Workers, Commit(w)
    PROVE  Promise!Next \/ (Catalogue' = Catalogue /\ Content' = Content)
<1>. DEFINE l == Current(w).label
            s == work[w].save
            out == Current(w).output
<1>1. /\ Saving(w) /\ Covers(w) /\ s \in 1..Len(saved) /\ Current(w) \in Save
      /\ Len(saved) <= MaxSaves /\ saved \in Seq(Save)
  BY Begun, CurrentType DEF Commit, Inserting, Saving, LabelInv, IInv, TypeOK
<1>2. CASE l \notin Owned
  BY <1>2, CommitEffect, SameLabels
<1>3. CASE l \in Owned
  <2>1. work[w].done = out
    BY <1>1 DEF Commit, Todo, Covers
  <2>2. {RunId(r) : r \in NewRuns(w)} = {s} \X out
    <3>1. \A r \in NewRuns(w) : r.save = s /\ r.event \in out
      BY <2>1 DEF NewRuns
    <3>2. ASSUME NEW e \in out PROVE \E r \in NewRuns(w) : r.save = s /\ r.event = e
      <4>1. [save |-> s, event |-> e, label |-> l] \in NewRuns(w)
        BY <2>1, <3>2 DEF NewRuns
      <4>. QED
        BY <4>1
    <3>. QED
      BY <3>1, <3>2 DEF RunId
  <2>3. {RunId(p) : p \in NewPoints(w)} = {s} \X out
    <3>1. \A p \in NewPoints(w) : p.save = s /\ p.event \in out
      BY <2>1 DEF NewPoints
    <3>2. ASSUME NEW e \in out PROVE \E p \in NewPoints(w) : p.save = s /\ p.event = e
      <4>1. [save |-> s, event |-> e, table |-> Current(w).table] \in NewPoints(w)
        BY <2>1, <3>2 DEF NewPoints
      <4>. QED
        BY <4>1
    <3>. QED
      BY <3>1, <3>2 DEF RunId
  <2>. HIDE DEF l, s, out
  <2>4. \A k \in Owned : /\ {RunId(r) : r \in Listed(k)'} = IF k = l THEN {s} \X out
                                                            ELSE {RunId(r) : r \in Listed(k)}
                         /\ {RunId(p) : p \in Stored(k)'} = IF k = l THEN {s} \X out
                                                            ELSE {RunId(p) : p \in Stored(k)}
    BY <2>2, <2>3, CommitEffect DEF l
  <2>5. /\ Catalogue' = [Catalogue EXCEPT ![l] = {s} \X out]
        /\ Content' = [Content EXCEPT ![l] = {s} \X out]
    BY <1>3, <2>4, OwnedConstant DEF Catalogue, Content, RunId
  <2>6. s \in 1..MaxSaves /\ out \in Outputs
    BY <1>1, OutputAssumption DEF s, out, Save
  <2>7. \E k \in Owned, save \in 1..MaxSaves, output \in Outputs :
            /\ Catalogue' = [Catalogue EXCEPT ![k] = {save} \X output]
            /\ Content' = [Content EXCEPT ![k] = {save} \X output]
    BY <1>3, <2>5, <2>6 DEF l
  <2>. QED
    BY <2>7, Zenon DEF Promise!Next, Promise!Replace, Catalogue, Content
<1>. QED
  BY <1>2, <1>3

\* A label with one saver is overwritten wholesale, listed and stored alike,
\* although the overwrite is three kinds of statement under snapshots of their own.
THEOREM LabelsAreReplaced == Spec => ImplementsLabelStore
<1>1. ASSUME Init PROVE Promise!Init
  <2>1. \A l \in Owned : Listed(l) = {} /\ Stored(l) = {}
    BY <1>1, OwnedLabel, StorageAssumption DEF Init, Listed, Stored
  <2>. QED
    BY <2>1 DEF Promise!Init
<1>2. ASSUME IInv, LabelInv, [Next]_vars
      PROVE  Promise!Next \/ (Catalogue' = Catalogue /\ Content' = Content)
  <2>1. CASE UNCHANGED <<runs, points, saved>>
    BY <2>1, SameLabels DEF Listed, Stored
  <2>2. CASE \E w \in Workers : Commit(w)
    BY <1>2, <2>2, CommitReplaces
  <2>3. CASE \E w \in Workers, l \in Labels, t \in Tables, output \in Outputs :
                 Begin(w, l, t, output)
    <3>1. PICK w \in Workers, l \in Labels, t \in Tables, output \in Outputs :
              Begin(w, l, t, output)
      BY <2>3
    <3>2. UNCHANGED <<runs, points>> /\ \A i \in 1..Len(saved) : saved'[i] = saved[i]
      BY <1>2, <3>1 DEF Begin, IInv, TypeOK, Save
    <3>. QED
      BY <1>2, <3>2, Begun, SameLabels DEF Listed, Stored
  <2>. QED
    BY <1>2, <2>1, <2>2, <2>3 DEF Next, vars, DeleteRow, DeleteRuns, WriteEvent, Abandon,
       DeadlockVictim, Resume, Load, Forget
<1>3. ASSUME IInv, LabelInv, [Next]_vars PROVE [Promise!Next]_<<Catalogue, Content>>
  BY <1>2, <1>3
<1>. QED
  BY <1>1, <1>3, Invariance, LabelInvariance, PTL
     DEF Spec, ImplementsLabelStore, Promise!Spec, Catalogue, Content
=============================================================================
