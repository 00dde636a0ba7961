------------------------------- MODULE Ingest -------------------------------
(***************************************************************************)
(* Bulk ingest (scripts/ingest_liander.py): per target one transaction      *)
(* registers each series, skips those that have points and COPYs the rest.  *)
(* Several ingests may run at once and be killed at any time; killed ones   *)
(* are run again.  The names begin with Ingest where SeriesRegistry, about   *)
(* which SeriesRegistryProofs proves as well, has the plain ones.           *)
(***************************************************************************)
EXTENDS Naturals, Sequences, SequencesExt

CONSTANTS
    Procs,     \* ingest processes
    Plan,      \* the targets in order, each the sequence of its series
    MaxFaults  \* bound on kills and failed ingests

ASSUME IngestAssumption ==
    /\ Plan \in Seq(Seq(UNION {ToSet(Plan[n]) : n \in DOMAIN Plan}))
    /\ \A n \in DOMAIN Plan : Len(Plan[n]) > 0 /\ IsInjective(Plan[n])
    /\ \A m, n \in DOMAIN Plan : m # n => ToSet(Plan[m]) \cap ToSet(Plan[n]) = {}
    /\ MaxFaults \in Nat

Series == UNION {ToSet(Plan[n]) : n \in DOMAIN Plan}

VARIABLES
    registry,  \* registered series, committed
    loaded,    \* series whose file has been copied, committed
    proc,      \* per process: target, series, step, and what its transaction holds
    faults     \* kills and failures so far

ingestVars == <<registry, loaded, proc, faults>>

\* at: the position in Plan; the next statement is step, of series number.
Fresh == [at |-> 1, number |-> 1, step |-> "register", names |-> {}, copied |-> {}]

\* Another process has registered some of the series already, without points.
IngestInit ==
    /\ registry \in SUBSET Series /\ loaded = {} /\ faults = 0
    /\ proc = [p \in Procs |-> Fresh]

Running(p) == proc[p].at <= Len(Plan)
Current(p) == Plan[proc[p].at][proc[p].number]
Others(p) == Procs \ {p}

Advance(p, next) ==
    proc' = [proc EXCEPT ![p] =
        IF next.number < Len(Plan[next.at])
        THEN [next EXCEPT !.number = @ + 1, !.step = "register"]
        ELSE [next EXCEPT !.step = "commit"]]

\* _register: INSERT ON CONFLICT DO NOTHING waits for another's uncommitted name.
RegisterSeries(p) ==
    /\ Running(p) /\ proc[p].step = "register"
    /\ \A q \in Others(p) : Current(p) \notin proc[q].names
    /\ proc' = [proc EXCEPT ![p].step = "look",
                            ![p].names = @ \cup ({Current(p)} \ registry)]
    /\ UNCHANGED <<registry, loaded, faults>>

\* Mutant of HasPoints: a registered series is taken for an ingested one.
HasPointsIfNamed(p) == Current(p) \in registry

\* _has_points.
HasPoints(p) == Current(p) \in loaded \cup proc[p].copied

Look(p) ==
    /\ Running(p) /\ proc[p].step = "look"
    /\ IF HasPoints(p) THEN Advance(p, proc[p]) ELSE proc' = [proc EXCEPT ![p].step = "copy"]
    /\ UNCHANGED <<registry, loaded, faults>>

\* _copy waits for another's uncommitted rows of the same keys.
Copy(p) ==
    /\ Running(p) /\ proc[p].step = "copy" /\ Current(p) \notin loaded
    /\ \A q \in Others(p) : Current(p) \notin proc[q].copied
    /\ Advance(p, [proc[p] EXCEPT !.copied = @ \cup {Current(p)}])
    /\ UNCHANGED <<registry, loaded, faults>>

\* The rows were committed after this process looked: UniqueViolation ends it,
\* and it is run again.
Collide(p) ==
    /\ Running(p) /\ proc[p].step = "copy" /\ Current(p) \in loaded
    /\ proc' = [proc EXCEPT ![p] = Fresh]
    /\ UNCHANGED <<registry, loaded, faults>>

\* One transaction per target.
Commit(p) ==
    /\ Running(p) /\ proc[p].step = "commit"
    /\ registry' = registry \cup proc[p].names
    /\ loaded' = loaded \cup proc[p].copied
    /\ proc' = [proc EXCEPT ![p] = [Fresh EXCEPT !.at = proc[p].at + 1]]
    /\ UNCHANGED faults

\* Mutant of Kill: what was copied is stored (autocommit).
KillKeepsCopies(p) ==
    /\ Running(p) /\ faults < MaxFaults
    /\ proc' = [proc EXCEPT ![p] = Fresh] /\ faults' = faults + 1
    /\ loaded' = loaded \cup proc[p].copied
    /\ UNCHANGED registry

\* The process is killed, or a download or a conversion fails; it is run again.
Kill(p) ==
    /\ Running(p) /\ faults < MaxFaults
    /\ proc' = [proc EXCEPT ![p] = Fresh] /\ faults' = faults + 1
    /\ UNCHANGED <<registry, loaded>>

Statement(p) == RegisterSeries(p) \/ Look(p) \/ Copy(p) \/ Collide(p) \/ Commit(p)

\* All ingests have ended.
Done == (\A p \in Procs : ~Running(p)) /\ UNCHANGED ingestVars

IngestNext == (\E p \in Procs : Statement(p) \/ Kill(p)) \/ Done

IngestSpec == IngestInit /\ [][IngestNext]_ingestVars

\* A process that can run its next statement does.
FairIngestSpec == IngestSpec /\ \A p \in Procs : WF_ingestVars(Statement(p))

-----------------------------------------------------------------------------
(* Properties.                                                             *)

\* Every variable keeps its type; a copied series is registered, or will be by
\* the same commit.
IngestTypeOK ==
    /\ registry \subseteq Series /\ loaded \subseteq registry /\ faults \in 0 .. MaxFaults
    /\ \A p \in Procs : proc[p].copied \subseteq registry \cup proc[p].names

\* "one transaction per target": a target's series are loaded together, whoever
\* was killed and whoever won the race for them.
TargetsWhole ==
    \A n \in DOMAIN Plan : ToSet(Plan[n]) \cap loaded \in {{}, ToSet(Plan[n])}

\* "a killed ingest resumes cleanly": every file is loaded in the end, series that
\* somebody else registered included, and no two ingests wait for each other.
EveryFileLoaded == <>[](loaded = Series)
=============================================================================
