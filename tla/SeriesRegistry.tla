--------------------------- MODULE SeriesRegistry ---------------------------
(***************************************************************************)
(* The series registry (series.py, register_series() of ddl.py) as blocks   *)
(* use it: get-or-create of a name, strict lookup by name or id, and the    *)
(* writes that resolve a reference and check the grid before they insert.   *)
(*                                                                         *)
(* register_series inserts ON CONFLICT DO NOTHING, which waits while        *)
(* another transaction is inserting the name, and then selects the id by    *)
(* name.  The id comes from an identity sequence, which no rollback resets. *)
(***************************************************************************)
EXTENDS Integers, FiniteSets

CONSTANTS
    Blocks,     \* client blocks, each on a connection of its own
    Names,      \* series names
    Intervals,  \* sample intervals
    Targets,    \* target times
    Grid(_),    \* the target times a write at an interval accepts: those on its
                \* grid, all of them when it is not checked (28 days or more)
    MaxId,      \* bound on the ids the sequence hands out
    None        \* no call in progress

ASSUME RegistryAssumption ==
    /\ MaxId \in Nat
    /\ \A iv \in Intervals : Grid(iv) \subseteq Targets
    /\ \A n \in Names, iv \in Intervals : None # [name |-> n, interval |-> iv]
    /\ \A i \in 1..MaxId, iv \in Intervals : None # [id |-> i, interval |-> iv]

VARIABLES
    series,  \* committed rows of the registry
    points,  \* committed points, as <<series id, target time>>
    minted,  \* how many ids the identity sequence has handed out
    txn,     \* per block: its transaction
    client   \* per block: what the code using the block holds

vars == <<series, points, minted, txn, client>>

-----------------------------------------------------------------------------

Ids == 1..MaxId

Row == [id : Ids, name : Names, interval : Intervals]

Points == Ids \X Targets

\* What a caller learned: this id is that name's.
Learned == [id : Ids, name : Names]

Call == [name : Names, interval : Intervals]

Txn == [status : {"idle", "open", "failed"}, series : SUBSET Row, points : SUBSET Points]

\* held: learned in the block that is open; known: remembered from earlier blocks,
\* whether they committed or not.
Client == [call : Call \cup {None}, held : SUBSET Learned, known : SUBSET Learned]

Closed == [status |-> "idle", series |-> {}, points |-> {}]

\* Mutant of Failed: the error is answered with a rollback inside the block, which
\* goes on in a fresh transaction.
FailedReopened == [status |-> "open", series |-> {}, points |-> {}]

\* A transaction the server aborted: its rows are gone, the block is still open.
Failed == [status |-> "failed", series |-> {}, points |-> {}]

Init ==
    /\ series = {}
    /\ points = {}
    /\ minted = 0
    /\ txn = [b \in Blocks |-> Closed]
    /\ client = [b \in Blocks |-> [call |-> None, held |-> {}, known |-> {}]]

\* What a statement of block b sees: committed rows and its own.
Visible(b) == series \cup txn[b].series

-----------------------------------------------------------------------------
(* register_series.                                                         *)

\* The block can send a statement; in a failed transaction every one only raises.
Ready(b) == client[b].call = None /\ txn[b].status # "failed"

Named(S, n) == {r \in S : r.name = n}

\* The statement is sent; the first one of a block begins its transaction.
Register(b, n, iv) ==
    /\ Ready(b)
    /\ client' = [client EXCEPT ![b].call = [name |-> n, interval |-> iv]]
    /\ txn' = [txn EXCEPT ![b].status = "open"]
    /\ UNCHANGED <<series, points, minted>>

\* Another open transaction has inserted the name.
WaitsFor(b, o) ==
    /\ client[b].call # None /\ o # b
    /\ Named(txn[o].series, client[b].call.name) # {}

Free(b) == client[b].call # None /\ \A o \in Blocks : ~WaitsFor(b, o)

\* Mutant of NextId: an id is derived from the rows, so a rollback frees it.
NextIdFromRows == 1 + Cardinality(UNION {Visible(b) : b \in Blocks})

NextId == minted + 1

Learns(b, id) ==
    client' = [client EXCEPT ![b].held = @ \cup {[id |-> id, name |-> client[b].call.name]},
                             ![b].call = None]

\* The name is new: INSERT ... RETURNING.  MaxId bounds the ids of a behaviour.
Create(b) ==
    /\ Free(b) /\ Named(Visible(b), client[b].call.name) = {} /\ minted < MaxId
    /\ minted' = minted + 1
    /\ txn' = [txn EXCEPT ![b].series = @ \cup
                  {[id |-> NextId, name |-> client[b].call.name,
                    interval |-> client[b].call.interval]}]
    /\ Learns(b, NextId)
    /\ UNCHANGED <<series, points>>

\* The name is there: DO NOTHING, then the SELECT, with a snapshot of its own,
\* returns its id; the interval of the call is not looked at.
Find(b) ==
    /\ Free(b)
    /\ \E r \in Named(Visible(b), client[b].call.name) : Learns(b, r.id)
    /\ UNCHANGED <<series, points, minted, txn>>

-----------------------------------------------------------------------------
(* Writes, which resolve their series reference first.                      *)

\* get_series_id, and the lookup by name: strict, UnknownSeries otherwise.
Resolve(b, n) ==
    /\ Ready(b)
    /\ client' = [client EXCEPT ![b].held =
                     @ \cup [id : {r.id : r \in Named(Visible(b), n)}, name : {n}]]
    /\ txn' = [txn EXCEPT ![b].status = "open"]
    /\ UNCHANGED <<series, points, minted>>

\* Mutant of Found: an id the caller holds is not looked up.
FoundUnchecked(b, id) == [id : {id}, name : Names, interval : Intervals]

\* _lookup by series_id.
Found(b, id) == {r \in Visible(b) : r.id = id}

\* A write by an id the caller holds, from this block or an earlier one: refused
\* when the id is unknown or the target time is off the grid of the series.
Write(b, l, t) ==
    /\ Ready(b)
    /\ l \in client[b].held \cup client[b].known
    /\ \/ \E r \in Found(b, l.id) :
             /\ t \in Grid(r.interval)
             /\ txn' = [txn EXCEPT ![b].status = "open", ![b].points = @ \cup {<<l.id, t>>}]
       \/ /\ \A r \in Found(b, l.id) : t \notin Grid(r.interval)
          /\ txn' = [txn EXCEPT ![b].status = "open"]
    /\ UNCHANGED <<series, points, minted, client>>

-----------------------------------------------------------------------------
(* The end of a block.                                                      *)

\* The caller goes on with what it learned.
Remember(b) == client' = [client EXCEPT ![b].known = @ \cup client[b].held,
                                        ![b].held = {}, ![b].call = None]

\* The transaction is rolled back; the caller may still hold its ids.
Rollback(b) ==
    /\ txn' = [txn EXCEPT ![b] = Closed]
    /\ Remember(b)
    /\ UNCHANGED <<series, points, minted>>

Publish(b) ==
    /\ series' = series \cup txn[b].series
    /\ points' = points \cup txn[b].points
    /\ txn' = [txn EXCEPT ![b] = Closed]
    /\ Remember(b)
    /\ UNCHANGED minted

\* Normal exit issues COMMIT; of a failed transaction the server makes a ROLLBACK.
Leave(b) ==
    /\ client[b].call = None
    /\ \/ txn[b].status = "open" /\ Publish(b)
       \/ txn[b].status = "failed" /\ Rollback(b)

\* An exception leaves the block, or the connection is lost.
Abandon(b) == txn[b].status # "idle" /\ Rollback(b)

Deadlocked(b) ==
    \E S \in SUBSET Blocks :
        /\ b \in S
        /\ \A x \in S : (\E y \in S : WaitsFor(x, y)) /\ (\E y \in S : WaitsFor(y, x))

\* Blocks that register names in opposite orders wait for each other; the server
\* aborts one of them.  Its call raises, and whoever catches that is still inside
\* the block, with the ids of earlier calls.
DeadlockVictim(b) ==
    /\ Deadlocked(b)
    /\ txn' = [txn EXCEPT ![b] = Failed]
    /\ client' = [client EXCEPT ![b].call = None]
    /\ UNCHANGED <<series, points, minted>>

Next ==
    \E b \in Blocks :
        \/ \E n \in Names, iv \in Intervals : Register(b, n, iv)
        \/ Create(b) \/ Find(b)
        \/ \E n \in Names : Resolve(b, n)
        \/ \E l \in Learned, t \in Targets : Write(b, l, t)
        \/ Leave(b) \/ Abandon(b) \/ DeadlockVictim(b)

Spec == Init /\ [][Next]_vars

-----------------------------------------------------------------------------
(* Properties.                                                             *)

\* Every variable keeps its type.
TypeOK ==
    /\ series \subseteq Row
    /\ points \subseteq Points
    /\ minted \in 0..MaxId
    /\ txn \in [Blocks -> Txn]
    /\ client \in [Blocks -> Client]

\* An id that a registration or a lookup returned in a block whose transaction
\* commits is that name's in the registry, whether the block created the row or
\* found what another block was inserting (register_series under ON CONFLICT).
\* Of a failed transaction nothing is committed, however the block is left.
ReturnedIdStands ==
    [][\A b \in Blocks : Leave(b) /\ txn[b].status = "open" => \A l \in client[b].held :
          \E r \in series' : r.id = l.id /\ r.name = l.name]_vars

\* An id a caller holds never names another series, even one it learned in a
\* block that rolled back ("safe to cache because ids are never reused").
CachedIdSafe ==
    \A b \in Blocks : \A l \in client[b].held \cup client[b].known :
        \A r \in series : r.id = l.id => r.name = l.name

\* The registry and the points implement the catalogue: names are registered
\* once and for good, and no point is stored off the grid of its series or
\* without one, whichever blocks race, roll back or write by a remembered id.
Catalogue == INSTANCE SeriesCatalogue WITH
    entry <- [n \in Names |->
                IF Named(series, n) = {} THEN None
                ELSE LET r == CHOOSE r \in Named(series, n) : TRUE
                     IN  [id |-> r.id, interval |-> r.interval]],
    stored <- points,
    Absent <- None
ImplementsCatalogue == Catalogue!Spec
=============================================================================
