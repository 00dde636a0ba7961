---------------------------- MODULE Provisioning ----------------------------
(***************************************************************************)
(* Declarations and provisioning (config.py, ddl.py, provision.py, the      *)
(* describe command of cli.py): provision() compares the requested          *)
(* declaration with store_tables, refuses drift, and then runs idempotent   *)
(* DDL; from_store() rebuilds a declaration from the store alone; adapters  *)
(* keep the declaration they resolved once; describe prints one to a file,  *)
(* which may be provisioned in turn.                                        *)
(*                                                                         *)
(* Every provisioning replaces the catalog functions before it reaches a    *)
(* table, so two of them meet there: the later one waits, and fails when    *)
(* the earlier one commits ("tuple concurrently updated").                  *)
(***************************************************************************)
EXTENDS Declarations, FiniteSets

CONSTANTS
    Provisioners,  \* processes that call provision()
    Readers,       \* stores and adapters that read the declaration on first use
    Requests       \* the declarations that may be requested, as callers write them

\* StoreConfig of a request: bands are canonicalized, tables are a map from names,
\* which sort like numbers, to specs.
Normalized(spec) ==
    IF spec.role = "actuals" THEN spec ELSE [spec EXCEPT !.band = Canonical(@)]

Configs == {[q EXCEPT !.tables = [n \in DOMAIN @ |-> Normalized(@[n])]] : q \in Requests}

Names == UNION {DOMAIN q.tables : q \in Requests}

\* The dataclasses of the three roles; a caller spells a band as a sequence.
Specs == [role : {"actuals"}, revisions : BOOLEAN, observed : BOOLEAN]
    \cup [role : {"predictors"}, band : Seq(Levels), value : BOOLEAN]
    \cup [role : {"forecasts"}, band : Seq(Levels), mean : BOOLEAN]

ASSUME RequestsAssumption ==
    /\ Names \subseteq Nat /\ IsFiniteSet(Names)
    /\ \A q \in Requests :
          /\ q # None
          /\ q = [tables |-> q.tables, enforcement |-> q.enforcement, guard |-> q.guard]
          /\ DOMAIN q.tables # {} /\ q.tables \in [DOMAIN q.tables -> Specs]
          /\ q.enforcement \in {"monitor", "fk"} /\ q.guard \in BOOLEAN

VARIABLES
    store,   \* the committed store: rows of store_tables, tables, triggers, functions
    job,     \* per provisioner: what it is doing
    reader,  \* per reader: the declaration it is reading or has kept
    file,    \* the declaration that describe last printed, or None
    settings \* <<enforcement, guard>> of the declarations committed so far

vars == <<store, job, reader, file, settings>>

-----------------------------------------------------------------------------
(* Specs, their store_tables rows, and back.                                *)

Get(row, key, default) == IF key \in DOMAIN row THEN row[key] ELSE default

\* table_configs: has_target_time_observed is persisted only when true.
RowOf(spec, enforcement) ==
    CASE spec.role = "actuals" /\ spec.observed ->
            [enforcement |-> enforcement, role |-> "actuals", revisions |-> spec.revisions,
             has_target_time_observed |-> TRUE]
      [] spec.role = "actuals" /\ ~spec.observed ->
            [enforcement |-> enforcement, role |-> "actuals", revisions |-> spec.revisions]
      [] spec.role = "predictors" ->
            [enforcement |-> enforcement, role |-> "predictors",
             quantile_band |-> spec.band, has_value |-> spec.value]
      [] spec.role = "forecasts" ->
            [enforcement |-> enforcement, role |-> "forecasts",
             quantile_band |-> spec.band, has_mean |-> spec.mean]

\* Mutant of SpecOf: an absent PK switch is what the row of a revisioned table
\* is taken to have, and the switch is dropped.
SpecOfRevisioned(row) ==
    CASE row.role = "actuals" ->
            [role |-> "actuals", revisions |-> TRUE,
             observed |-> Get(row, "has_target_time_observed", FALSE)]
      [] row.role = "predictors" ->
            [role |-> "predictors", band |-> Get(row, "quantile_band", {}),
             value |-> Get(row, "has_value", TRUE)]
      [] row.role = "forecasts" ->
            [role |-> "forecasts", band |-> Get(row, "quantile_band", {}),
             mean |-> row.has_mean]

\* config_from_tables, of one row.
SpecOf(row) ==
    CASE row.role = "actuals" ->
            [role |-> "actuals", revisions |-> Get(row, "revisions", TRUE),
             observed |-> Get(row, "has_target_time_observed", FALSE)]
      [] row.role = "predictors" ->
            [role |-> "predictors", band |-> Get(row, "quantile_band", {}),
             value |-> Get(row, "has_value", TRUE)]
      [] row.role = "forecasts" ->
            [role |-> "forecasts", band |-> Get(row, "quantile_band", {}),
             mean |-> row.has_mean]

PrintedSpec(spec) ==
    IF spec.role = "actuals" THEN spec ELSE [spec EXCEPT !.band = Dumped(@)]

\* The declaration as dumps writes it and loads reads it.
Printed(c) == [c EXCEPT !.tables = [n \in DOMAIN @ |-> PrintedSpec(@[n])]]

RowsOf(c) == [n \in DOMAIN c.tables |-> RowOf(c.tables[n], c.enforcement)]

\* config_from_tables: the enforcement mode of the last table wins; a store
\* without points tables has no declaration.
Rebuilt(rows, guard) ==
    IF DOMAIN rows = {} THEN None
    ELSE LET last == CHOOSE n \in DOMAIN rows : \A m \in DOMAIN rows : m <= n
         IN  [tables |-> [n \in DOMAIN rows |-> SpecOf(rows[n])],
              enforcement |-> rows[last].enforcement, guard |-> guard]

-----------------------------------------------------------------------------
(* The store, and what the generated statements do to it.                   *)

\* rows: store_tables; shapes: the spec each table was created from; triggers:
\* <<table, trigger>> pairs; guard: whether append_only_guard() exists.
Empty == [rows |-> << >>, shapes |-> << >>, triggers |-> {}, guard |-> FALSE]

SingleBelief(spec) == spec.role = "actuals" /\ ~spec.revisions

\* What is there stays, and what is missing is added.
Completed(there, added) ==
    [n \in DOMAIN there \cup DOMAIN added |->
        IF n \in DOMAIN there THEN there[n] ELSE added[n]]

\* Mutant of Seeded: ON CONFLICT DO UPDATE.
SeededOver(rows, c) == Completed(RowsOf(c), rows)

\* _seed_rows: ON CONFLICT DO NOTHING.
Seeded(rows, c) == Completed(rows, RowsOf(c))

\* The triggers of points_ddl, attached by the requested spec of every declared
\* table, whether the table is new or not.
Attached(c) ==
    {<<n, "belief_guard">> : n \in {m \in DOMAIN c.tables : SingleBelief(c.tables[m])}}
    \cup (IF c.guard
          THEN {<<n, "append_only_guard">> :
                   n \in {m \in DOMAIN c.tables : ~SingleBelief(c.tables[m])}}
          ELSE {})

\* Mutant of Applied: a declared table is created anew.
AppliedAnew(st, c) ==
    [rows |-> Seeded(st.rows, c),
     shapes |-> Completed(c.tables, st.shapes),
     triggers |-> st.triggers \cup Attached(c),
     guard |-> st.guard \/ c.guard]

\* catalog_ddl, then points_ddl: CREATE ... IF NOT EXISTS, CREATE OR REPLACE.
Applied(st, c) ==
    [rows |-> Seeded(st.rows, c),
     shapes |-> Completed(st.shapes, c.tables),
     triggers |-> st.triggers \cup Attached(c),
     guard |-> st.guard \/ c.guard]

\* Mutant of Differs: only new tables are compared.
DiffersNever(rows, c) == {}

\* compare_declarations, of the rows it reads.
Differs(rows, c) == {n \in DOMAIN c.tables \cap DOMAIN rows : rows[n] # RowsOf(c)[n]}

\* Mutant of Missing: only the tables both sides know are compared.
MissingNone(rows, c) == {}

\* Declared tables the store does not have.
Missing(rows, c) == DOMAIN c.tables \ DOMAIN rows

-----------------------------------------------------------------------------
(* Provisioning.                                                            *)

\* What a provisioning is asked for: a request, or the file.
Requested == Configs \cup ({file} \ {None})

\* overtaken: the declared tables that another provisioning created between the check
\* and the commit; reported: what the last one declared if it succeeded.
NoJob == [pc |-> "idle", config |-> None, overtaken |-> {}, reported |-> None]

NoReader == [pc |-> "unread", rows |-> << >>, config |-> None]

Init ==
    /\ store = Empty
    /\ job = [p \in Provisioners |-> NoJob]
    /\ reader = [r \in Readers |-> NoReader]
    /\ file = None
    /\ settings = {}

\* The check: MigrationRequired when a declared table differs.
Check(p, c) ==
    /\ job[p].pc = "idle"
    /\ IF Differs(store.rows, c) = {}
       THEN job' = [job EXCEPT ![p] = [NoJob EXCEPT !.pc = "checked", !.config = c]]
       ELSE job' = [job EXCEPT ![p] = NoJob]
    /\ UNCHANGED <<store, reader, file, settings>>

Executing == {p \in Provisioners : job[p].pc = "executed"}

\* The catalog statements and the block of every table run.
Execute(p) ==
    /\ job[p].pc = "checked" /\ Executing = {}
    /\ job' = [job EXCEPT ![p].pc = "executed"]
    /\ UNCHANGED <<store, reader, file, settings>>

\* Another provisioning holds the catalog functions.
Wait(p) ==
    /\ job[p].pc = "checked" /\ Executing # {}
    /\ job' = [job EXCEPT ![p].pc = "waiting"]
    /\ UNCHANGED <<store, reader, file, settings>>

\* The tables of c that p's commit creates.
Created(p, c) == DOMAIN c.tables \cap Missing(store.rows, job[p].config)

\* The commit: provision() does it for a DSN, otherwise the caller.  Whoever
\* waited for the catalog functions raises; whoever has only checked goes on.
Commit(p) ==
    /\ job[p].pc = "executed"
    /\ store' = Applied(store, job[p].config)
    /\ job' = [q \in Provisioners |->
                 CASE q = p -> [job[p] EXCEPT !.pc = "idle", !.reported = job[p].config]
                   [] q # p /\ job[q].pc = "waiting" -> NoJob
                   [] q # p /\ job[q].pc = "checked" ->
                         [job[q] EXCEPT !.overtaken = @ \cup Created(p, job[q].config)]
                   [] OTHER -> job[q]]
    /\ settings' = settings \cup {<<job[p].config.enforcement, job[p].config.guard>>}
    /\ UNCHANGED <<reader, file>>

\* A statement fails, the connection is lost or the caller rolls back; a waiting
\* provisioning goes on.
Abandon(p) ==
    /\ job[p].pc # "idle"
    /\ job' = [q \in Provisioners |->
                 IF q = p THEN NoJob
                 ELSE IF job[q].pc = "waiting" /\ job[p].pc = "executed"
                      THEN [job[q] EXCEPT !.pc = "checked"]
                 ELSE job[q]]
    /\ UNCHANGED <<store, reader, file, settings>>

-----------------------------------------------------------------------------
(* Readers: from_store reads store_tables and then looks for the guard       *)
(* function, each by its own snapshot; the result is kept.                   *)

ReadRows(r) ==
    /\ reader[r].pc = "unread"
    /\ reader' = [reader EXCEPT ![r].pc = "rows", ![r].rows = store.rows]
    /\ UNCHANGED <<store, job, file, settings>>

\* NotProvisioned and InvalidDeclaration leave the reader without a declaration.
ReadGuard(r) ==
    /\ reader[r].pc = "rows"
    /\ LET config == Rebuilt(reader[r].rows, store.guard)
       IN  reader' = [reader EXCEPT ![r] =
              [pc |-> IF config = None THEN "unread" ELSE "kept", rows |-> << >>,
               config |-> config]]
    /\ UNCHANGED <<store, job, file, settings>>

\* The adapter or Store is dropped and another one created.
Drop(r) ==
    /\ reader[r].pc = "kept"
    /\ reader' = [reader EXCEPT ![r] = NoReader]
    /\ UNCHANGED <<store, job, file, settings>>

\* describe prints what it recovered; the file replaces an earlier one.
Describe(r) ==
    /\ reader[r].pc = "kept"
    /\ file' = Printed(reader[r].config)
    /\ UNCHANGED <<store, job, reader, settings>>

Next ==
    \/ \E p \in Provisioners :
          \/ \E c \in Requested : Check(p, c)
          \/ Execute(p) \/ Wait(p) \/ Commit(p) \/ Abandon(p)
    \/ \E r \in Readers : ReadRows(r) \/ ReadGuard(r) \/ Drop(r) \/ Describe(r)

Spec == Init /\ [][Next]_vars
-----------------------------------------------------------------------------
(* Properties.                                                             *)

\* What a declaration is: known names, and of every level of a band one spelling.
IsDeclaration(c) ==
    /\ DOMAIN c.tables \subseteq Names /\ DOMAIN c.tables # {}
    /\ \A n \in DOMAIN c.tables : c.tables[n].role # "actuals" =>
          /\ c.tables[n].band \subseteq Levels
          /\ \A k, l \in c.tables[n].band : Same(k, l) => k = l

\* Every variable keeps its type; a row, a table and a trigger come together.
TypeOK ==
    /\ DOMAIN store.rows \subseteq Names /\ DOMAIN store.shapes = DOMAIN store.rows
    /\ \A g \in store.triggers : g[1] \in DOMAIN store.shapes
    /\ \A c \in {job[p].config : p \in Provisioners} \cup {job[p].reported : p \in Provisioners}
               \cup {reader[r].config : r \in Readers} \cup {file} : c # None => IsDeclaration(c)
    /\ \A r \in Readers : DOMAIN reader[r].rows \subseteq Names
    /\ \A p \in Provisioners : job[p].overtaken \subseteq Names
    /\ settings \subseteq {"monitor", "fk"} \X BOOLEAN

\* What store_tables declares of a table is the table that exists, also when
\* provisionings with different declarations race (CREATE TABLE IF NOT EXISTS
\* and ON CONFLICT DO NOTHING must skip alike).
RowMatchesTable ==
    \A n \in DOMAIN store.rows : SpecOf(store.rows[n]) = store.shapes[n]

\* A declaration that was kept after reading the rows and the guard by two
\* snapshots stays true of every table it names, whatever is provisioned meanwhile
\* and later: its enforcement mode is one of its tables' rows, and the guard it saw
\* is still there (Store.config, the adapters' _config).
KeptStaysTrue ==
    \A r \in Readers : LET c == reader[r].config IN c # None =>
        /\ \A n \in DOMAIN c.tables : n \in DOMAIN store.shapes /\ store.shapes[n] = c.tables[n]
        /\ \E n \in DOMAIN c.tables : store.rows[n].enforcement = c.enforcement
        /\ c.guard => store.guard

\* What a report of success claims of the declaration c, its overtaken tables aside.
Declares(c, overtaken) ==
    /\ DOMAIN c.tables \subseteq DOMAIN store.rows
    /\ \A n \in DOMAIN c.tables \ overtaken : /\ store.rows[n] = RowsOf(c)[n]
                                            /\ store.shapes[n] = c.tables[n]
    /\ Attached(c) \subseteq store.triggers

\* A provisioning that reports success leaves, for good, every table it asked for with
\* its triggers, and as it asked for it, unless another provisioning created that very
\* table between its check and its commit: nothing else that commits in between
\* makes the report untrue (provision compares once and never again).
VerifiedUnlessOvertaken ==
    \A p \in Provisioners :
        job[p].reported # None => Declares(job[p].reported, job[p].overtaken)

Recovered == Rebuilt(store.rows, store.guard)

\* The declarations committed so far agree on the store-level switches.
OneSetting == \A s, t \in settings : s = t

\* Running the statements of c again adds nothing but the insert-only triggers
\* of tables created before the guard was asked for.
OnlyGuards(c) ==
    LET after == Applied(store, c)
    IN  /\ [after EXCEPT !.triggers = store.triggers] = store
        /\ after.triggers \ store.triggers \subseteq (DOMAIN store.rows) \X {"append_only_guard"}

\* The declaration read from the store re-provisions as a no-op when the declarations
\* committed so far agree on the store-level switches.  When they do not, the check
\* refuses it exactly for the tables whose enforcement mode is not the one the last
\* table has, and its statements would only add guards (StoreConfig.from_store).
RecoveredIsNoOp ==
    Recovered # None =>
        /\ Differs(store.rows, Recovered) =
              {n \in DOMAIN store.rows : store.rows[n].enforcement # Recovered.enforcement}
        /\ OnlyGuards(Recovered)
        /\ OneSetting => Differs(store.rows, Recovered) = {} /\ Applied(store, Recovered) = store

\* describe --config: no drift of rows, and the same guard setting.
InSync(c) ==
    /\ Differs(store.rows, c) = {} /\ Missing(store.rows, c) = {}
    /\ c.guard = store.guard

\* A file that describe calls in sync provisions as a no-op when the declarations
\* committed so far agree on the store-level switches, and otherwise only adds guards.
InSyncIsNoOp ==
    \A c \in Configs : InSync(c) =>
        /\ OnlyGuards(c)
        /\ OneSetting => Applied(store, c) = store

\* Bands of the tables that exist.
Bands == {store.shapes[n].band : n \in {m \in DOMAIN store.shapes :
                                           store.shapes[m].role # "actuals"}}

\* The rule is bijective (naming.py): the columns of a provisioned table are as
\* many as its levels, and each parses back to the level it was declared for.
Bijective(band) ==
    \A l \in band :
        LET parsed == ParseQuantileColumn(QuantileColumn(l))
        IN  /\ parsed # None /\ Same(parsed, l)
            /\ \A k \in band : QuantileColumn(k) = QuantileColumn(l) => k = l

\* An engine that meets the band numerically finds its columns, whatever spelling
\* the table was created with (_quantile_column_map, save_backtest_output).
Found(band) == \A l \in band : QuantileColumn(Short(l)) \in Columns(band)

\* The columns of every provisioned table name its levels one to one, and engines
\* find them by number (quantile_column, parse_quantile_column).
ColumnsNameLevels == \A band \in Bands : Bijective(band) /\ Found(band)

\* Two specs are equal as StoreConfigs compare them.
EqualSpec(s, t) ==
    IF s.role = "actuals" \/ t.role = "actuals" THEN s = t
    ELSE Equal(s.band, t.band) /\ [s EXCEPT !.band = {}] = [t EXCEPT !.band = {}]

\* The file that describe printed declares the tables it was printed from, with the
\* same columns, for good (dumps, loads).
FileKeepsDeclaration ==
    file # None => \A n \in DOMAIN file.tables :
        /\ n \in DOMAIN store.shapes /\ EqualSpec(file.tables[n], store.shapes[n])
        /\ store.shapes[n].role # "actuals" =>
              Columns(file.tables[n].band) = Columns(store.shapes[n].band)

-----------------------------------------------------------------------------
(* What the documentation says and the code does not do: violated.          *)

\* "re-running with the same StoreConfig is a no-op" (provision.py), of a
\* declaration that compares equal to the tables it names.
SameConfigIsNoOp ==
    \A c \in Requested :
        (\A n \in DOMAIN c.tables : /\ n \in DOMAIN store.shapes
                                    /\ EqualSpec(c.tables[n], store.shapes[n])
                                    /\ store.rows[n].enforcement = c.enforcement)
        => Differs(store.rows, c) = {}
=============================================================================
