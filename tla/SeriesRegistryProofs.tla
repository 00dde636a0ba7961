------------------------ MODULE SeriesRegistryProofs ------------------------
(***************************************************************************)
(* Proofs about SeriesRegistry: ids are unique and safe to cache, what a    *)
(* registration returned stands once its block commits, and the registry    *)
(* with its points implements SeriesCatalogue, for any number of blocks,    *)
(* names, intervals and ids.  Then about Ingest, which registers series     *)
(* before it loads them: a target is loaded whole.  The two specifications  *)
(* share no variable.                                                       *)
(***************************************************************************)
EXTENDS SeriesRegistry, Ingest, TLAPS

(* The inductive invariant: RegistryInv, and what callers and points rely   *)
(* on.                                                                      *)

\* Ids of all rows, committed or not, are distinct and at most minted; a name is
\* inserted by one open block at most and never when it is committed.
RegistryInv ==
    /\ \A b \in Blocks : \A r \in Visible(b) : r.id <= minted
    /\ \A a, b \in Blocks : \A r \in Visible(a), s \in Visible(b) :
          r.id = s.id \/ r.name = s.name => r = s
    /\ \A a, b \in Blocks : a # b => txn[a].series \cap txn[b].series = {}
    /\ \A b \in Blocks : txn[b].series \cap series = {}

\* An id a caller learned is minted, and no row in sight gives it another name.
LearnedSafe ==
    \A b \in Blocks : \A l \in client[b].held \cup client[b].known :
        /\ l.id <= minted
        /\ \A o \in Blocks : \A r \in Visible(o) : r.id = l.id => r.name = l.name

\* What a block learned since it began, it still sees, unless its transaction failed.
HeldSeen ==
    \A b \in Blocks : txn[b].status # "failed" => \A l \in client[b].held :
        \E r \in Visible(b) : r.id = l.id /\ r.name = l.name

\* A point lies on the grid of a series visible to its block.
OnGrid ==
    /\ \A p \in points : \E r \in series : r.id = p[1] /\ p[2] \in Grid(r.interval)
    /\ \A b \in Blocks : \A p \in txn[b].points :
          \E r \in Visible(b) : r.id = p[1] /\ p[2] \in Grid(r.interval)

\* Names are unique in a set of rows, and so are ids.
Unique(S) == \A r, s \in S : r.id = s.id \/ r.name = s.name => r = s

IInv == TypeOK /\ RegistryInv /\ Unique(series) /\ LearnedSafe /\ HeldSeen /\ OnGrid

LEMMA Initially == ASSUME Init PROVE IInv
<1>1. TypeOK
  BY RegistryAssumption DEF Init, TypeOK, Txn, Client, Closed
<1>2. \A b \in Blocks : Visible(b) = {} /\ client[b].held = {} /\ client[b].known = {}
                        /\ txn[b].series = {} /\ txn[b].points = {}
  BY DEF Init, Visible, Closed
<1>. QED
  BY <1>1, <1>2 DEF Init, IInv, RegistryInv, Unique, LearnedSafe, HeldSeen, OnGrid

-----------------------------------------------------------------------------
(* What a step does, in the terms of the invariant.                        *)

\* Whatever a block learns is a row it sees, and a point it writes is on the grid
\* of one; no row of the registry, committed or not, changes.
Observe ==
    /\ TypeOK'
    /\ UNCHANGED <<series, points, minted>>
    /\ \A b \in Blocks :
          /\ txn'[b].series = txn[b].series /\ client'[b].known = client[b].known
          /\ txn[b].status = "failed" => txn'[b].status = "failed"
          /\ \A l \in client'[b].held \ client[b].held :
                \E r \in Visible(b) : r.id = l.id /\ r.name = l.name
          /\ \A p \in txn'[b].points \ txn[b].points :
                \E r \in Visible(b) : r.id = p[1] /\ p[2] \in Grid(r.interval)

LEMMA VisibleType == ASSUME TypeOK, NEW b \in Blocks PROVE Visible(b) \subseteq Row
  BY DEF TypeOK, Txn, Visible

LEMMA RegisterObserves ==
    ASSUME TypeOK, NEW b \in Blocks, NEW n \in Names, NEW iv \in Intervals, Register(b, n, iv)
    PROVE  Observe
<1>1. [name |-> n, interval |-> iv] \in Call
  BY DEF Call
<1>2. TypeOK'
  BY <1>1 DEF Register, TypeOK, Txn, Client
<1>3. \A o \in Blocks : txn[o].status = "failed" => txn'[o].status = "failed"
  BY DEF Register, Ready, TypeOK, Txn
<1>4. \A o \in Blocks :
        /\ txn'[o].series = txn[o].series /\ txn'[o].points = txn[o].points
        /\ client'[o].held = client[o].held /\ client'[o].known = client[o].known
  BY DEF Register, TypeOK, Txn, Client
<1>. QED
  BY <1>2, <1>3, <1>4 DEF Observe, Register

LEMMA FindObserves ==
    ASSUME TypeOK, NEW b \in Blocks, Find(b)
    PROVE  Observe
<1>1. PICK r \in Named(Visible(b), client[b].call.name) : Learns(b, r.id)
  BY DEF Find
<1>. DEFINE l == [id |-> r.id, name |-> client[b].call.name]
<1>2. r \in Row /\ r \in Visible(b) /\ r.name = client[b].call.name
  BY <1>1, VisibleType DEF Named
<1>3. l \in Learned
  BY <1>2 DEF Row, Learned
<1>4. client' = [client EXCEPT ![b].held = @ \cup {l}, ![b].call = None]
  BY <1>1 DEF Learns
<1>5. TypeOK'
  BY <1>3, <1>4 DEF Find, TypeOK, Client
<1>. HIDE DEF l
<1>6. \A o \in Blocks : client'[o].known = client[o].known
                        /\ client'[o].held \ client[o].held \subseteq IF o = b THEN {l} ELSE {}
  BY <1>4 DEF TypeOK, Client
<1>7. r.id = l.id /\ r.name = l.name
  BY <1>2 DEF l
<1>. QED
  BY <1>2, <1>5, <1>6, <1>7 DEF Observe, Find

LEMMA ResolveObserves ==
    ASSUME TypeOK, NEW b \in Blocks, NEW n \in Names, Resolve(b, n)
    PROVE  Observe
<1>. DEFINE L == [id : {r.id : r \in Named(Visible(b), n)}, name : {n}]
<1>1. L \in SUBSET Learned
  BY VisibleType DEF Learned, Named, Row
<1>2. \A l \in L : \E r \in Visible(b) : r.id = l.id /\ r.name = l.name
  BY DEF Named
<1>. HIDE DEF L
<1>3. client' = [client EXCEPT ![b].held = @ \cup L]
  BY DEF Resolve, L
<1>4. TypeOK'
  <2>1. client' \in [Blocks -> Client]
    BY <1>1, <1>3 DEF TypeOK, Client
  <2>2. txn' \in [Blocks -> Txn]
    BY DEF Resolve, TypeOK, Txn
  <2>. QED
    BY <2>1, <2>2 DEF Resolve, TypeOK
<1>5. \A o \in Blocks : txn[o].status = "failed" => txn'[o].status = "failed"
  BY DEF Resolve, Ready, TypeOK, Txn
<1>6. \A o \in Blocks :
        /\ txn'[o].series = txn[o].series /\ txn'[o].points = txn[o].points
        /\ client'[o].known = client[o].known
        /\ client'[o].held \ client[o].held \subseteq IF o = b THEN L ELSE {}
  BY <1>3 DEF Resolve, TypeOK, Txn, Client
<1>. QED
  BY <1>2, <1>4, <1>5, <1>6 DEF Observe, Resolve

LEMMA WriteObserves ==
    ASSUME TypeOK, NEW b \in Blocks, NEW l \in Learned, NEW t \in Targets, Write(b, l, t)
    PROVE  Observe
<1>1. CASE \E r \in Found(b, l.id) :
              /\ t \in Grid(r.interval)
              /\ txn' = [txn EXCEPT ![b].status = "open", ![b].points = @ \cup {<<l.id, t>>}]
  <2>1. <<l.id, t>> \in Points
    BY DEF Learned, Points
  <2>2. TypeOK'
    <3>1. [txn[b] EXCEPT !.status = "open", !.points = @ \cup {<<l.id, t>>}] \in Txn
      BY <2>1 DEF TypeOK, Txn
    <3>2. txn' \in [Blocks -> Txn]
      BY <1>1, <3>1 DEF TypeOK
    <3>. QED
      BY <3>2 DEF Write, TypeOK
  <2>3. \E r \in Visible(b) : r.id = l.id /\ t \in Grid(r.interval)
    BY <1>1 DEF Found
  <2>4. \A o \in Blocks :
          /\ txn'[o].series = txn[o].series
          /\ txn'[o].points \ txn[o].points \subseteq IF o = b THEN {<<l.id, t>>} ELSE {}
          /\ txn[o].status = "failed" => txn'[o].status = "failed"
    BY <1>1 DEF Write, Ready, TypeOK, Txn
  <2>. QED
    BY <2>2, <2>3, <2>4 DEF Observe, Write
<1>2. CASE txn' = [txn EXCEPT ![b].status = "open"]
  <2>1. TypeOK'
    BY <1>2 DEF Write, TypeOK, Txn
  <2>2. \A o \in Blocks : txn[o].status = "failed" => txn'[o].status = "failed"
    BY <1>2 DEF Write, Ready, TypeOK, Txn
  <2>. QED
    BY <1>2, <2>1, <2>2 DEF Observe, Write, TypeOK, Txn
<1>. QED
  BY <1>1, <1>2 DEF Write

\* Every step observes, creates a row, or ends a block or its transaction.
LEMMA StepEffect ==
    ASSUME TypeOK, Next
    PROVE  Observe \/ \E b \in Blocks : Create(b) \/ Publish(b) \/ Rollback(b) \/ DeadlockVictim(b)
  BY RegisterObserves, FindObserves, ResolveObserves, WriteObserves
     DEF Next, Leave, Abandon

-----------------------------------------------------------------------------
(* The five effects preserve the invariant.                                 *)

LEMMA ObserveKeeps == ASSUME IInv, Observe PROVE IInv'
<1>1. \A b \in Blocks : Visible(b)' = Visible(b)
  BY DEF Observe, Visible
<1>2. RegistryInv'
  BY <1>1 DEF Observe, IInv, RegistryInv
<1>3. ASSUME NEW b \in Blocks, NEW l \in client'[b].held \cup client'[b].known
      PROVE  /\ l.id <= minted
             /\ \A o \in Blocks : \A r \in Visible(o) : r.id = l.id => r.name = l.name
  <2>1. CASE l \in client[b].held \cup client[b].known
    BY <2>1 DEF IInv, LearnedSafe
  <2>2. CASE l \in client'[b].held \ client[b].held
    BY <2>2 DEF Observe, IInv, RegistryInv
  <2>. QED
    BY <2>1, <2>2 DEF Observe
<1>4. LearnedSafe'
  BY <1>1, <1>3 DEF Observe, LearnedSafe
<1>5. HeldSeen'
  BY <1>1 DEF Observe, IInv, HeldSeen
<1>6. OnGrid'
  BY <1>1 DEF Observe, IInv, OnGrid
<1>. QED
  BY <1>2, <1>4, <1>5, <1>6 DEF Observe, IInv, Unique

LEMMA CreateKeeps == ASSUME IInv, NEW b \in Blocks, Create(b) PROVE IInv'
<1>. DEFINE row == [id |-> NextId, name |-> client[b].call.name,
                    interval |-> client[b].call.interval]
            l == [id |-> NextId, name |-> client[b].call.name]
<1>1. client[b].call \in Call /\ minted \in Nat /\ NextId \in Ids /\ NextId = minted + 1
  BY RegistryAssumption DEF IInv, TypeOK, Client, Create, Free, NextId, Ids
<1>2. row \in Row /\ l \in Learned /\ row.id = NextId /\ row.name = client[b].call.name
  BY <1>1 DEF Row, Learned, Call
<1>3. /\ txn' = [txn EXCEPT ![b].series = @ \cup {row}]
      /\ client' = [client EXCEPT ![b].held = @ \cup {l}, ![b].call = None]
  BY DEF Create, Learns
<1>4. minted' = minted + 1 /\ UNCHANGED <<series, points>>
  BY DEF Create
<1>5. l.id = row.id /\ l.name = row.name
  OBVIOUS
<1>. HIDE DEF row, l
<1>6. TypeOK'
  <2>1. txn' \in [Blocks -> Txn]
    BY <1>2, <1>3 DEF IInv, TypeOK, Txn
  <2>2. client' \in [Blocks -> Client]
    BY <1>2, <1>3 DEF IInv, TypeOK, Client
  <2>3. minted' \in 0..MaxId
    BY <1>1, <1>4, RegistryAssumption DEF Ids
  <2>. QED
    BY <1>4, <2>1, <2>2, <2>3 DEF IInv, TypeOK
<1>7. \A o \in Blocks :
        /\ txn'[o].series = IF o = b THEN txn[b].series \cup {row} ELSE txn[o].series
        /\ txn'[o].points = txn[o].points /\ txn'[o].status = txn[o].status
        /\ client'[o].known = client[o].known
        /\ client'[o].held = IF o = b THEN client[b].held \cup {l} ELSE client[o].held
  BY <1>3 DEF IInv, TypeOK, Txn, Client
<1>8. \A o \in Blocks : Visible(o)' = IF o = b THEN Visible(b) \cup {row} ELSE Visible(o)
  BY <1>4, <1>7 DEF Visible
<1>9. \A o \in Blocks : \A r \in Visible(o) :
        r \in Row /\ r.id \in Nat /\ r.id <= minted /\ r.id # row.id /\ r.name # row.name
  <2>1. ASSUME NEW o \in Blocks, NEW r \in Visible(o) PROVE r \in Row /\ r.id \in Nat
    BY <2>1, VisibleType DEF IInv, Row, Ids
  <2>2. ASSUME NEW o \in Blocks, NEW r \in Visible(o) PROVE r.id <= minted
    BY <2>2 DEF IInv, RegistryInv
  <2>3. ASSUME NEW o \in Blocks, NEW r \in Visible(o) PROVE r.name # row.name
    BY <1>2, <2>3 DEF Create, Free, WaitsFor, Named, Visible
  <2>. QED
    BY <1>1, <1>2, <2>1, <2>2, <2>3
<1>10. RegistryInv'
  <2>1. \A o \in Blocks : \A r \in Visible(o)' : r.id <= minted'
    BY <1>1, <1>2, <1>4, <1>8, <1>9
  <2>2. \A o, q \in Blocks : \A r \in Visible(o)', s \in Visible(q)' :
          r.id = s.id \/ r.name = s.name => r = s
    BY <1>8, <1>9 DEF IInv, RegistryInv
  <2>3. \A o \in Blocks : row \notin txn[o].series /\ row \notin series
    BY <1>9 DEF Visible
  <2>4. \A o, q \in Blocks : o # q => txn'[o].series \cap txn'[q].series = {}
    BY <1>7, <2>3 DEF IInv, RegistryInv
  <2>5. \A o \in Blocks : txn'[o].series \cap series' = {}
    BY <1>4, <1>7, <2>3 DEF IInv, RegistryInv
  <2>. QED
    BY <2>1, <2>2, <2>4, <2>5 DEF RegistryInv
<1>11. LearnedSafe'
  <2>1. ASSUME NEW o \in Blocks, NEW k \in client[o].held \cup client[o].known
        PROVE  k.id \in Nat /\ k.id <= minted
    BY DEF IInv, TypeOK, Client, Learned, Ids, LearnedSafe
  <2>2. ASSUME NEW o \in Blocks, NEW k \in client[o].held \cup client[o].known
        PROVE  \A q \in Blocks : \A r \in Visible(q)' : r.id = k.id => r.name = k.name
    BY <1>1, <1>2, <1>8, <2>1 DEF IInv, LearnedSafe
  <2>3. \A q \in Blocks : \A r \in Visible(q)' : r.id = l.id => r.name = l.name
    BY <1>5, <1>8, <1>9
  <2>4. l.id <= minted'
    BY <1>1, <1>2, <1>4, <1>5
  <2>5. \A o \in Blocks : \A k \in client'[o].held \cup client'[o].known :
          k = l \/ k \in client[o].held \cup client[o].known
    BY <1>7
  <2>6. \A o \in Blocks : \A k \in client[o].held \cup client[o].known : k.id <= minted'
    BY <1>1, <1>4, <2>1
  <2>. QED
    BY <2>2, <2>3, <2>4, <2>5, <2>6 DEF LearnedSafe
<1>12. HeldSeen'
  BY <1>5, <1>7, <1>8 DEF IInv, HeldSeen
<1>13. OnGrid'
  BY <1>4, <1>7, <1>8 DEF IInv, OnGrid
<1>. QED
  BY <1>4, <1>6, <1>10, <1>11, <1>12, <1>13 DEF IInv, Unique

LEMMA PublishKeeps == ASSUME IInv, NEW b \in Blocks, Publish(b) PROVE IInv'
<1>1. TypeOK'
  <2>1. txn' \in [Blocks -> Txn]
    BY DEF Publish, Closed, IInv, TypeOK, Txn
  <2>2. client' \in [Blocks -> Client]
    <3>1. [client[b] EXCEPT !.known = @ \cup client[b].held, !.held = {}, !.call = None]
             \in Client
      BY DEF IInv, TypeOK, Client
    <3>. QED
      BY <3>1 DEF Publish, Remember, IInv, TypeOK
  <2>3. series' \subseteq Row /\ points' \subseteq Points
    BY DEF Publish, IInv, TypeOK, Txn
  <2>. QED
    BY <2>1, <2>2, <2>3 DEF Publish, IInv, TypeOK
<1>2. \A o \in Blocks :
        /\ txn'[o].series = IF o = b THEN {} ELSE txn[o].series
        /\ txn'[o].points = IF o = b THEN {} ELSE txn[o].points
        /\ o # b => txn'[o].status = txn[o].status
        /\ client'[o].held = IF o = b THEN {} ELSE client[o].held
        /\ client'[o].known = IF o = b THEN client[b].known \cup client[b].held
                              ELSE client[o].known
  BY DEF Publish, Remember, Closed, IInv, TypeOK, Txn, Client
<1>3. series' = Visible(b) /\ points' = points \cup txn[b].points /\ minted' = minted
  BY DEF Publish, Visible
<1>4. \A o \in Blocks : Visible(o)' = IF o = b THEN Visible(b) ELSE Visible(b) \cup Visible(o)
  BY <1>2, <1>3 DEF Visible
<1>5. RegistryInv'
  <2>1. \A o \in Blocks : \A r \in Visible(o)' : r.id <= minted'
    BY <1>3, <1>4 DEF IInv, RegistryInv
  <2>2. \A o, q \in Blocks : \A r \in Visible(o)', s \in Visible(q)' :
          r.id = s.id \/ r.name = s.name => r = s
    BY <1>4 DEF IInv, RegistryInv
  <2>3. \A o, q \in Blocks : o # q => txn'[o].series \cap txn'[q].series = {}
    BY <1>2 DEF IInv, RegistryInv
  <2>4. \A o \in Blocks : txn'[o].series \cap series' = {}
    BY <1>2, <1>3 DEF IInv, RegistryInv, Visible
  <2>. QED
    BY <2>1, <2>2, <2>3, <2>4 DEF RegistryInv
<1>6. LearnedSafe'
  BY <1>2, <1>3, <1>4 DEF IInv, LearnedSafe
<1>7. HeldSeen'
  BY <1>2, <1>4 DEF IInv, HeldSeen
<1>8. OnGrid'
  <2>1. \A p \in points' : \E r \in series' : r.id = p[1] /\ p[2] \in Grid(r.interval)
    BY <1>3 DEF IInv, OnGrid, Visible
  <2>. QED
    BY <1>2, <1>4, <2>1 DEF IInv, OnGrid
<1>9. Unique(series)'
  BY <1>3 DEF IInv, RegistryInv, Unique
<1>. QED
  BY <1>1, <1>5, <1>6, <1>7, <1>8, <1>9 DEF IInv

LEMMA RollbackKeeps == ASSUME IInv, NEW b \in Blocks, Rollback(b) PROVE IInv'
<1>1. TypeOK'
  <2>1. [client[b] EXCEPT !.known = @ \cup client[b].held, !.held = {}, !.call = None] \in Client
    BY DEF IInv, TypeOK, Client
  <2>2. client' \in [Blocks -> Client]
    BY <2>1 DEF Rollback, Remember, IInv, TypeOK
  <2>3. txn' \in [Blocks -> Txn]
    BY DEF Rollback, Closed, IInv, TypeOK, Txn
  <2>. QED
    BY <2>2, <2>3 DEF Rollback, IInv, TypeOK
<1>2. \A o \in Blocks :
        /\ txn'[o].series = IF o = b THEN {} ELSE txn[o].series
        /\ txn'[o].points = IF o = b THEN {} ELSE txn[o].points
        /\ o # b => txn'[o].status = txn[o].status
        /\ client'[o].held = IF o = b THEN {} ELSE client[o].held
        /\ client'[o].known = IF o = b THEN client[b].known \cup client[b].held
                              ELSE client[o].known
  BY DEF Rollback, Remember, Closed, IInv, TypeOK, Txn, Client
<1>3. UNCHANGED <<series, points, minted>>
  BY DEF Rollback
<1>4. \A o \in Blocks : Visible(o)' = IF o = b THEN series ELSE Visible(o)
  BY <1>2, <1>3 DEF Visible
<1>5. \A o \in Blocks : Visible(o)' \subseteq Visible(o)
  BY <1>4 DEF Visible
<1>6. RegistryInv'
  BY <1>2, <1>3, <1>5 DEF IInv, RegistryInv
<1>7. LearnedSafe'
  BY <1>2, <1>3, <1>5 DEF IInv, LearnedSafe
<1>8. HeldSeen'
  BY <1>2, <1>4 DEF IInv, HeldSeen
<1>9. OnGrid'
  BY <1>2, <1>3, <1>4 DEF IInv, OnGrid
<1>. QED
  BY <1>1, <1>3, <1>6, <1>7, <1>8, <1>9 DEF IInv, Unique

\* The caller keeps the ids, the transaction none of its rows.
LEMMA FailKeeps == ASSUME IInv, NEW b \in Blocks, DeadlockVictim(b) PROVE IInv'
<1>1. TypeOK'
  BY DEF DeadlockVictim, Failed, IInv, TypeOK, Txn, Client
<1>2. \A o \in Blocks :
        /\ txn'[o].series = IF o = b THEN {} ELSE txn[o].series
        /\ txn'[o].points = IF o = b THEN {} ELSE txn[o].points
        /\ txn'[o].status = IF o = b THEN "failed" ELSE txn[o].status
        /\ client'[o].held = client[o].held /\ client'[o].known = client[o].known
  BY DEF DeadlockVictim, Failed, IInv, TypeOK, Txn, Client
<1>3. UNCHANGED <<series, points, minted>>
  BY DEF DeadlockVictim
<1>4. \A o \in Blocks : Visible(o)' = IF o = b THEN series ELSE Visible(o)
  BY <1>2, <1>3 DEF Visible
<1>5. \A o \in Blocks : Visible(o)' \subseteq Visible(o)
  BY <1>4 DEF Visible
<1>6. RegistryInv'
  BY <1>2, <1>3, <1>5 DEF IInv, RegistryInv
<1>7. LearnedSafe'
  BY <1>2, <1>3, <1>5 DEF IInv, LearnedSafe
<1>8. HeldSeen'
  BY <1>2, <1>4 DEF IInv, HeldSeen
<1>9. OnGrid'
  BY <1>2, <1>3, <1>4 DEF IInv, OnGrid
<1>. QED
  BY <1>1, <1>3, <1>6, <1>7, <1>8, <1>9 DEF IInv, Unique

LEMMA StutterKeeps == ASSUME IInv, UNCHANGED vars PROVE IInv'
  BY DEF vars, IInv, TypeOK, RegistryInv, Unique, LearnedSafe, HeldSeen, OnGrid, Visible

LEMMA Inductive == ASSUME IInv, [Next]_vars PROVE IInv'
<1>1. CASE Next
  BY <1>1, StepEffect, ObserveKeeps, CreateKeeps, PublishKeeps, RollbackKeeps, FailKeeps DEF IInv
<1>2. CASE UNCHANGED vars
  BY <1>2, StutterKeeps
<1>. QED
  BY <1>1, <1>2

LEMMA Invariance == Spec => []IInv
  BY Initially, Inductive, PTL DEF Spec

-----------------------------------------------------------------------------
(* The results.                                                             *)

\* Every variable keeps its type.
THEOREM TypeCorrect == Spec => []TypeOK
<1>1. IInv => TypeOK
  BY DEF IInv
<1>. QED
  BY <1>1, Invariance, PTL

\* register_series hands out one id per name and one name per id, committed or
\* not, whichever blocks race and roll back.
THEOREM IdsUnique == Spec => []RegistryInv
<1>1. IInv => RegistryInv
  BY DEF IInv
<1>. QED
  BY <1>1, Invariance, PTL

\* An id may be cached across blocks, even one learned in a block that rolled back.
THEOREM CacheSafe == Spec => []CachedIdSafe
<1>1. IInv => CachedIdSafe
  BY DEF IInv, LearnedSafe, CachedIdSafe, Visible
<1>. QED
  BY <1>1, Invariance, PTL

\* What a block learned is in the registry once it commits.
THEOREM ReturnStands == Spec => ReturnedIdStands
<1>. DEFINE A == \A b \in Blocks : Leave(b) /\ txn[b].status = "open" => \A l \in client[b].held :
                    \E r \in series' : r.id = l.id /\ r.name = l.name
<1>1. ASSUME IInv PROVE A
  BY <1>1 DEF IInv, HeldSeen, Leave, Publish, Visible
<1>. HIDE DEF A
<1>2. Spec => [][A]_vars
  BY <1>1, Invariance, PTL DEF Spec
<1>. QED
  BY <1>2 DEF ReturnedIdStands, A

-----------------------------------------------------------------------------
(* The registry implements the catalogue.                                   *)

\* The catalogue's entry of a name, when its row is the only one.
Entry(S, n) == IF Named(S, n) = {} THEN None
               ELSE LET r == CHOOSE r \in Named(S, n) : TRUE
                    IN  [id |-> r.id, interval |-> r.interval]

LEMMA EntryOfRow ==
    ASSUME NEW S \in SUBSET Row, Unique(S), NEW r \in S
    PROVE  /\ Entry(S, r.name) = [id |-> r.id, interval |-> r.interval]
           /\ Entry(S, r.name) # None
<1>1. Named(S, r.name) = {r}
  BY DEF Named, Unique
<1>2. Entry(S, r.name) = [id |-> r.id, interval |-> r.interval]
  BY <1>1 DEF Entry
<1>3. r.id \in 1..MaxId /\ r.interval \in Intervals
  BY DEF Row, Ids
<1>. QED
  BY <1>2, <1>3, RegistryAssumption

LEMMA EntryOfName ==
    ASSUME NEW S \in SUBSET Row, Unique(S), NEW n \in Names
    PROVE  \/ Entry(S, n) = None /\ Named(S, n) = {}
           \/ \E r \in S : r.name = n /\ Entry(S, n) = [id |-> r.id, interval |-> r.interval]
<1>1. CASE Named(S, n) = {}
  BY <1>1 DEF Entry
<1>2. CASE Named(S, n) # {}
  BY <1>2, EntryOfRow DEF Named
<1>. QED
  BY <1>1, <1>2

\* The committed registry only grows, and stays unique; points stay on a grid.
LEMMA CatalogueStep ==
    ASSUME IInv, [Next]_vars
    PROVE  /\ series \in SUBSET Row /\ Unique(series)
           /\ series' \in SUBSET Row /\ Unique(series') /\ series \subseteq series'
           /\ points \subseteq points'
           /\ \A p \in points' : \E r \in series' : r.id = p[1] /\ p[2] \in Grid(r.interval)
<1>1. IInv'
  BY Inductive
<1>2. series \subseteq series' /\ points \subseteq points'
  <2>1. CASE UNCHANGED vars
    BY <2>1 DEF vars
  <2>2. CASE Next
    BY <2>2, StepEffect DEF IInv, Observe, Create, Publish, Rollback, DeadlockVictim
  <2>. QED
    BY <2>1, <2>2
<1>. QED
  BY <1>1, <1>2 DEF IInv, TypeOK, OnGrid, Unique

LEMMA CatalogueExtends == ASSUME IInv, [Next]_vars PROVE Catalogue!Extend /\ Catalogue!Add
<1>. DEFINE entry == [n \in Names |-> Entry(series, n)]
            entryN == [n \in Names |-> Entry(series', n)]
            Entries == [id : Ids, interval : Intervals] \cup {None}
<1>1. \A n \in Names : Entry(series', n) \in Entries
  BY CatalogueStep, EntryOfName DEF Row
<1>2. \A n \in Names : Entry(series, n) # None => Entry(series', n) = Entry(series, n)
  <2>1. SUFFICES ASSUME NEW n \in Names, Entry(series, n) # None
                 PROVE  Entry(series', n) = Entry(series, n)
    OBVIOUS
  <2>2. PICK r \in series : r.name = n /\ Entry(series, n) = [id |-> r.id, interval |-> r.interval]
    BY <2>1, CatalogueStep, EntryOfName
  <2>. QED
    BY <2>2, CatalogueStep, EntryOfRow
<1>3. \A m, n \in Names :
        m # n /\ Entry(series', m) # None /\ Entry(series', n) # None =>
          Entry(series', m).id # Entry(series', n).id
  BY CatalogueStep, EntryOfName DEF Unique
<1>4. \A p \in points' : \E n \in Names :
        /\ Entry(series', n) # None /\ Entry(series', n).id = p[1]
        /\ p[2] \in Grid(Entry(series', n).interval)
  <2>1. SUFFICES ASSUME NEW p \in points'
                 PROVE  \E n \in Names :
                          /\ Entry(series', n) # None /\ Entry(series', n).id = p[1]
                          /\ p[2] \in Grid(Entry(series', n).interval)
    OBVIOUS
  <2>2. PICK r \in series' : r.id = p[1] /\ p[2] \in Grid(r.interval)
    BY CatalogueStep
  <2>3. r.name \in Names
    BY CatalogueStep DEF Row
  <2>4. /\ Entry(series', r.name) = [id |-> r.id, interval |-> r.interval]
        /\ Entry(series', r.name) # None
    BY CatalogueStep, EntryOfRow
  <2>. QED
    BY <2>2, <2>3, <2>4
<1>5. Catalogue!Extend
  BY <1>1, <1>2, <1>3 DEF Catalogue!Extend, Entry
<1>6. Catalogue!Add
  BY <1>4, CatalogueStep DEF Catalogue!Add, Entry
<1>. QED
  BY <1>5, <1>6

\* The registry and the points implement the catalogue of names and grids.
THEOREM RegistryIsCatalogue == Spec => ImplementsCatalogue
<1>1. ASSUME Init PROVE Catalogue!Init
  BY <1>1 DEF Init, Catalogue!Init, Named
<1>2. ASSUME IInv, [Next]_vars PROVE Catalogue!Extend /\ Catalogue!Add
  BY <1>2, CatalogueExtends
<1>. QED
  BY <1>1, <1>2, Invariance, PTL DEF Spec, ImplementsCatalogue, Catalogue!Spec

-----------------------------------------------------------------------------
(* The bulk ingest: for any plan and any number of ingests, killed and      *)
(* restarted at any statement, a target's series are loaded together.       *)

\* What a process's record is, whichever target it is at.
Record == [at : Nat \ {0}, number : Nat \ {0}, step : {"register", "look", "copy", "commit"},
           names : SUBSET Series, copied : SUBSET Series]

\* The record r of a process agrees with the tables: its series are those of its
\* target, the one at hand is registered once looked for, and those before it, all
\* of them at the commit, are loaded or copied.
Agrees(r, regs, done) ==
    r.at <= Len(Plan) =>
        /\ r.number <= Len(Plan[r.at])
        /\ r.copied \subseteq ToSet(Plan[r.at]) /\ r.copied \subseteq regs \cup r.names
        /\ r.step \in {"look", "copy"} => Plan[r.at][r.number] \in regs \cup r.names
        /\ \A i \in DOMAIN Plan[r.at] :
              i < r.number \/ r.step = "commit" => Plan[r.at][i] \in done \cup r.copied

\* The inductive invariant.
LoadInv ==
    /\ registry \subseteq Series /\ loaded \subseteq registry /\ faults \in 0..MaxFaults
    /\ proc \in [Procs -> Record]
    /\ \A p \in Procs : Agrees(proc[p], registry, loaded)
    /\ \A p \in Procs : ~Running(p) => proc[p].copied = {}
    /\ TargetsWhole

\* A target of the plan is a non-empty sequence of series.
LEMMA PlanIs ==
    /\ Len(Plan) \in Nat /\ DOMAIN Plan = 1..Len(Plan)
    /\ \A n \in DOMAIN Plan : /\ Len(Plan[n]) \in Nat \ {0} /\ DOMAIN Plan[n] = 1..Len(Plan[n])
                              /\ ToSet(Plan[n]) \subseteq Series
                              /\ \A i \in DOMAIN Plan[n] : Plan[n][i] \in ToSet(Plan[n])
<1>1. Plan \in Seq(Seq(Series)) /\ \A n \in DOMAIN Plan : Len(Plan[n]) > 0
  BY IngestAssumption DEF Series
<1>2. \A n \in DOMAIN Plan : Plan[n] \in Seq(Series)
  BY <1>1
<1>3. \A n \in DOMAIN Plan : ToSet(Plan[n]) \subseteq Series
  BY DEF Series
<1>4. \A n \in DOMAIN Plan : \A i \in DOMAIN Plan[n] : Plan[n][i] \in ToSet(Plan[n])
  BY DEF ToSet
<1>. QED
  BY <1>1, <1>2, <1>3, <1>4

\* A process that starts on any target agrees with any tables.
LEMMA FreshAgrees ==
    ASSUME NEW n \in Nat \ {0}, NEW regs, NEW done
    PROVE  /\ [Fresh EXCEPT !.at = n] \in Record
           /\ Agrees([Fresh EXCEPT !.at = n], regs, done)
           /\ [Fresh EXCEPT !.at = n].copied = {}
<1>1. [Fresh EXCEPT !.at = n] = [at |-> n, number |-> 1, step |-> "register",
                                 names |-> {}, copied |-> {}]
  BY DEF Fresh
<1>2. n <= Len(Plan) => n \in DOMAIN Plan
  BY PlanIs
<1>. QED
  BY <1>1, <1>2, PlanIs DEF Agrees, Record

\* More rows in the tables disturb nobody.
LEMMA Monotone ==
    ASSUME NEW r, NEW regs, NEW done, NEW more, NEW further, Agrees(r, regs, done),
           regs \subseteq more, done \subseteq further
    PROVE  Agrees(r, more, further)
  BY DEF Agrees

LEMMA LoadInitially == ASSUME IngestInit PROVE LoadInv
<1>1. Fresh = [Fresh EXCEPT !.at = 1]
  BY DEF Fresh
<1>2. \A p \in Procs : proc[p] = Fresh
  BY DEF IngestInit
<1>3. Fresh \in Record /\ Agrees(Fresh, registry, loaded) /\ Fresh.copied = {}
  BY <1>1, FreshAgrees
<1>4. TargetsWhole
  BY DEF IngestInit, TargetsWhole
<1>. QED
  BY <1>2, <1>3, <1>4, IngestAssumption DEF IngestInit, LoadInv

\* A step of p that leaves loaded alone keeps the invariant when p's record agrees.
LEMMA StepKeeps ==
    ASSUME LoadInv, NEW p \in Procs, NEW rec \in Record, proc' = [proc EXCEPT ![p] = rec],
           UNCHANGED <<registry, loaded>>, faults' \in 0..MaxFaults,
           Agrees(rec, registry, loaded), ~(rec.at <= Len(Plan)) => rec.copied = {}
    PROVE  LoadInv'
<1>1. proc' \in [Procs -> Record] /\ proc'[p] = rec
  BY DEF LoadInv
<1>2. \A q \in Procs \ {p} : proc'[q] = proc[q]
  BY DEF LoadInv
<1>. QED
  BY <1>1, <1>2 DEF LoadInv, Running, TargetsWhole

\* What is known of a running process.
LEMMA Here ==
    ASSUME LoadInv, NEW p \in Procs, Running(p)
    PROVE  /\ proc[p] \in Record /\ proc[p].at \in DOMAIN Plan
           /\ proc[p].number \in DOMAIN Plan[proc[p].at]
           /\ Current(p) \in ToSet(Plan[proc[p].at]) /\ Current(p) \in Series
           /\ Agrees(proc[p], registry, loaded) /\ faults \in 0..MaxFaults
<1>1. /\ proc[p] \in Record /\ Agrees(proc[p], registry, loaded) /\ faults \in 0..MaxFaults
      /\ proc[p].at <= Len(Plan)
  BY DEF LoadInv, Running
<1>2. proc[p].at \in DOMAIN Plan
  BY <1>1, PlanIs DEF Record
<1>3. proc[p].number \in DOMAIN Plan[proc[p].at]
  BY <1>1, <1>2, PlanIs DEF Record, Agrees
<1>. QED
  BY <1>1, <1>2, <1>3, PlanIs DEF Current

\* Advance, once the series at hand is loaded or copied.
LEMMA AdvanceKeeps ==
    ASSUME LoadInv, NEW p \in Procs, Running(p), NEW next \in Record, Advance(p, next),
           proc[p].step \in {"look", "copy"},
           next.at = proc[p].at, next.number = proc[p].number, next.names = proc[p].names,
           next.copied \subseteq proc[p].copied \cup {Current(p)},
           proc[p].copied \subseteq next.copied, Current(p) \in loaded \cup next.copied,
           UNCHANGED <<registry, loaded, faults>>
    PROVE  LoadInv'
<1>. DEFINE plan == Plan[next.at]
            rec == IF next.number < Len(plan)
                   THEN [next EXCEPT !.number = next.number + 1, !.step = "register"]
                   ELSE [next EXCEPT !.step = "commit"]
<1>1. proc' = [proc EXCEPT ![p] = rec]
  BY DEF Advance
<1>2. /\ next.at \in DOMAIN Plan /\ next.number \in DOMAIN plan /\ plan[next.number] = Current(p)
      /\ Current(p) \in ToSet(plan) /\ Agrees(proc[p], registry, loaded)
      /\ faults \in 0..MaxFaults /\ next.at <= Len(Plan) /\ proc[p].at <= Len(Plan)
      /\ DOMAIN plan = 1..Len(plan) /\ Len(plan) \in Nat
  BY Here, PlanIs DEF Current, Running
<1>3. /\ rec.at = next.at /\ rec.copied = next.copied /\ rec.names = next.names
      /\ \/ rec.number = next.number + 1 /\ rec.step = "register" /\ next.number < Len(plan)
         \/ rec.number = next.number /\ rec.step = "commit" /\ next.number >= Len(plan)
  BY <1>2 DEF Record
<1>4. rec \in Record
  <2>1. CASE next.number < Len(plan)
    <3>1. next.number + 1 \in Nat \ {0} /\ "register" \in {"register", "look", "copy", "commit"}
      BY DEF Record
    <3>2. [next EXCEPT !.number = next.number + 1, !.step = "register"] \in Record
      BY <3>1 DEF Record
    <3>. QED
      BY <2>1, <3>2
  <2>2. CASE ~(next.number < Len(plan))
    BY <2>2 DEF Record
  <2>. QED
    BY <2>1, <2>2
<1>. HIDE DEF rec
<1>5. next.copied \subseteq ToSet(plan) /\ next.copied \subseteq registry \cup next.names
  BY <1>2 DEF Agrees, Current
<1>6. ASSUME NEW i \in DOMAIN plan, i < rec.number \/ rec.step = "commit"
      PROVE  plan[i] \in loaded \cup next.copied
  <2>1. i \in Nat /\ next.number \in Nat /\ i <= next.number
    BY <1>2, <1>3, <1>6
  <2>2. CASE i = next.number
    BY <1>2, <2>2
  <2>3. CASE i # next.number
    <3>1. i < next.number
      BY <2>1, <2>3
    <3>. QED
      BY <1>2, <3>1 DEF Agrees
  <2>. QED
    BY <2>2, <2>3
<1>7. rec.number <= Len(plan)
  BY <1>2, <1>3
<1>8. Agrees(rec, registry, loaded)
  BY <1>3, <1>5, <1>6, <1>7 DEF Agrees
<1>. QED
  BY <1>1, <1>2, <1>3, <1>4, <1>8, StepKeeps

LEMMA RestartKeeps ==
    ASSUME LoadInv, NEW p \in Procs, proc' = [proc EXCEPT ![p] = Fresh],
           UNCHANGED <<registry, loaded>>, faults' \in 0..MaxFaults
    PROVE  LoadInv'
<1>1. Fresh = [Fresh EXCEPT !.at = 1]
  BY DEF Fresh
<1>2. Fresh \in Record /\ Agrees(Fresh, registry, loaded) /\ Fresh.copied = {}
  BY <1>1, FreshAgrees
<1>. QED
  BY <1>2, StepKeeps

LEMMA RegisterSeriesKeeps == ASSUME LoadInv, NEW p \in Procs, RegisterSeries(p) PROVE LoadInv'
<1>. DEFINE names == proc[p].names \cup ({Current(p)} \ registry)
            rec == [proc[p] EXCEPT !.step = "look", !.names = names]
<1>1. Running(p) /\ UNCHANGED <<registry, loaded, faults>> /\ proc' = [proc EXCEPT ![p] = rec]
  BY DEF RegisterSeries
<1>2. /\ proc[p] \in Record /\ Current(p) \in Series /\ Agrees(proc[p], registry, loaded)
      /\ faults \in 0..MaxFaults /\ proc[p].step = "register"
  BY <1>1, Here DEF RegisterSeries
<1>3. names \in SUBSET Series /\ Current(p) \in registry \cup names
  BY <1>2 DEF Record
<1>4. proc[p].names \subseteq names
  OBVIOUS
<1>. HIDE DEF names
<1>5. /\ rec \in Record /\ rec.at = proc[p].at /\ rec.number = proc[p].number
      /\ rec.copied = proc[p].copied /\ rec.names = names /\ rec.step = "look"
  BY <1>2, <1>3 DEF Record
<1>. HIDE DEF rec
<1>6. Agrees(rec, registry, loaded)
  BY <1>2, <1>3, <1>4, <1>5 DEF Agrees, Current
<1>. QED
  BY <1>1, <1>2, <1>5, <1>6, StepKeeps DEF Running

LEMMA LookKeeps == ASSUME LoadInv, NEW p \in Procs, Look(p) PROVE LoadInv'
<1>1. /\ Running(p) /\ proc[p].step = "look" /\ UNCHANGED <<registry, loaded, faults>>
  BY DEF Look
<1>2. /\ proc[p] \in Record /\ Agrees(proc[p], registry, loaded) /\ faults \in 0..MaxFaults
  BY <1>1, Here
<1>3. CASE HasPoints(p)
  <2>1. Advance(p, proc[p]) /\ Current(p) \in loaded \cup proc[p].copied
    BY <1>3 DEF Look, HasPoints
  <2>. QED
    BY <1>1, <1>2, <2>1, AdvanceKeeps
<1>4. CASE ~HasPoints(p)
  <2>. DEFINE rec == [proc[p] EXCEPT !.step = "copy"]
  <2>1. proc' = [proc EXCEPT ![p] = rec]
    BY <1>4 DEF Look
  <2>2. /\ rec \in Record /\ rec.at = proc[p].at /\ rec.number = proc[p].number
        /\ rec.copied = proc[p].copied /\ rec.names = proc[p].names /\ rec.step = "copy"
    BY <1>2 DEF Record
  <2>. HIDE DEF rec
  <2>3. Agrees(rec, registry, loaded)
    BY <1>1, <1>2, <2>2 DEF Agrees
  <2>. QED
    BY <1>1, <1>2, <2>1, <2>2, <2>3, StepKeeps DEF Running
<1>. QED
  BY <1>3, <1>4

LEMMA CopyKeeps == ASSUME LoadInv, NEW p \in Procs, Copy(p) PROVE LoadInv'
<1>. DEFINE copied == proc[p].copied \cup {Current(p)}
            next == [proc[p] EXCEPT !.copied = copied]
<1>1. /\ Running(p) /\ proc[p].step = "copy" /\ UNCHANGED <<registry, loaded, faults>>
      /\ Advance(p, next)
  BY DEF Copy
<1>2. proc[p] \in Record /\ Current(p) \in Series
  BY <1>1, Here
<1>3. copied \in SUBSET Series /\ Current(p) \in copied /\ proc[p].copied \subseteq copied
  BY <1>2 DEF Record
<1>4. copied \subseteq proc[p].copied \cup {Current(p)}
  OBVIOUS
<1>. HIDE DEF copied
<1>5. /\ next \in Record /\ next.at = proc[p].at /\ next.number = proc[p].number
      /\ next.names = proc[p].names /\ next.copied = copied
  BY <1>2, <1>3 DEF Record
<1>. HIDE DEF next
<1>. QED
  BY <1>1, <1>3, <1>4, <1>5, AdvanceKeeps

\* The target a transaction commits is whole from then on, the others as before.
LEMMA CommitKeeps == ASSUME LoadInv, NEW p \in Procs, Commit(p) PROVE LoadInv'
<1>. DEFINE n == proc[p].at
            rec == [Fresh EXCEPT !.at = n + 1]
<1>1. /\ Running(p) /\ proc[p].step = "commit" /\ proc' = [proc EXCEPT ![p] = rec]
      /\ registry' = registry \cup proc[p].names /\ loaded' = loaded \cup proc[p].copied
      /\ faults' = faults
  BY DEF Commit
<1>2. proc[p] \in Record /\ n \in DOMAIN Plan /\ Agrees(proc[p], registry, loaded) /\ n <= Len(Plan)
  BY <1>1, Here DEF Running
<1>3. n + 1 \in Nat \ {0}
  BY <1>2 DEF Record
<1>4. rec \in Record /\ Agrees(rec, registry', loaded') /\ rec.copied = {}
  BY <1>3, FreshAgrees
<1>5. /\ proc[p].copied \subseteq ToSet(Plan[n])
      /\ proc[p].copied \subseteq registry \cup proc[p].names
      /\ \A i \in DOMAIN Plan[n] : Plan[n][i] \in loaded \cup proc[p].copied
  BY <1>1, <1>2 DEF Agrees
<1>. HIDE DEF rec, n
<1>6. TargetsWhole'
  <2>1. SUFFICES ASSUME NEW m \in DOMAIN Plan
                 PROVE  ToSet(Plan[m]) \cap loaded' \in {{}, ToSet(Plan[m])}
    BY DEF TargetsWhole
  <2>2. CASE m = n
    BY <1>1, <1>5, <2>2 DEF ToSet
  <2>3. CASE m # n
    <3>1. ToSet(Plan[m]) \cap ToSet(Plan[n]) = {}
      BY <1>2, <2>3, IngestAssumption
    <3>2. ToSet(Plan[m]) \cap loaded' = ToSet(Plan[m]) \cap loaded
      BY <1>1, <1>5, <3>1
    <3>. QED
      BY <3>2 DEF LoadInv, TargetsWhole
  <2>. QED
    BY <2>2, <2>3
<1>7. registry' \subseteq Series /\ loaded' \subseteq registry'
  BY <1>1, <1>2, <1>5 DEF LoadInv, Record
<1>8. proc' \in [Procs -> Record] /\ proc'[p] = rec /\ \A q \in Procs \ {p} : proc'[q] = proc[q]
  BY <1>1, <1>4 DEF LoadInv
<1>9. \A q \in Procs : Agrees(proc'[q], registry', loaded')
  <2>1. \A q \in Procs \ {p} : Agrees(proc[q], registry', loaded')
    BY <1>1, Monotone DEF LoadInv
  <2>. QED
    BY <1>4, <1>8, <2>1
<1>. QED
  BY <1>1, <1>4, <1>6, <1>7, <1>8, <1>9 DEF LoadInv, Running

LEMMA LoadInductive == ASSUME LoadInv, [IngestNext]_ingestVars PROVE LoadInv'
<1>1. ASSUME NEW p \in Procs, Statement(p) PROVE LoadInv'
  <2>1. CASE Collide(p)
    BY <1>1, <2>1, RestartKeeps DEF Collide, LoadInv
  <2>. QED
    BY <1>1, <2>1, RegisterSeriesKeeps, LookKeeps, CopyKeeps, CommitKeeps DEF Statement
<1>2. ASSUME NEW p \in Procs, Kill(p) PROVE LoadInv'
  <2>1. faults' \in 0..MaxFaults
    BY <1>2, IngestAssumption DEF Kill, LoadInv
  <2>. QED
    BY <1>2, <2>1, RestartKeeps DEF Kill
<1>3. CASE UNCHANGED ingestVars
  BY <1>3 DEF ingestVars, LoadInv, TargetsWhole, Running
<1>. QED
  BY <1>1, <1>2, <1>3 DEF IngestNext, Done

LEMMA LoadInvariance == IngestSpec => []LoadInv
  BY LoadInitially, LoadInductive, PTL DEF IngestSpec

\* Every variable keeps its type; nothing is loaded that is not registered.
THEOREM IngestTypeCorrect == IngestSpec => []IngestTypeOK
<1>1. LoadInv => IngestTypeOK
  <2>1. SUFFICES ASSUME LoadInv, NEW p \in Procs
                 PROVE  proc[p].copied \subseteq registry \cup proc[p].names
    BY DEF LoadInv, IngestTypeOK
  <2>2. CASE Running(p)
    BY <2>1, <2>2, Here DEF Agrees, Running
  <2>3. CASE ~Running(p)
    BY <2>1, <2>3 DEF LoadInv
  <2>. QED
    BY <2>2, <2>3
<1>. QED
  BY <1>1, LoadInvariance, PTL

\* "one transaction per target": the series of a target are loaded together, whoever
\* was killed, collided or won the race for them (ingest_target).
THEOREM LoadedWhole == IngestSpec => []TargetsWhole
<1>1. LoadInv => TargetsWhole
  BY DEF LoadInv
<1>. QED
  BY <1>1, LoadInvariance, PTL
=============================================================================
