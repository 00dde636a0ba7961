------------------------ MODULE BeliefStoreProofs ------------------------
(***************************************************************************)
(* Proofs about BeliefStore, for every set of blocks, tables, targets and  *)
(* batches: type correctness, the stability of a pinned read and one       *)
(* belief per target; then that what returned calls wrote is stored once   *)
(* the block commits, that a run is never split, and that the tables       *)
(* implement the append-only log of BeliefLog.                             *)
(***************************************************************************)
EXTENDS BeliefStore, SequenceTheorems, TLAPS

(* Types of the records the actions build. *)

LEMMA IdleType == Idle \in Txn /\ Failed \in Txn
  BY DEF Idle, Failed, Blank, Txn

\* The version a row's table keys it by.
LEMMA KeyType == ASSUME NEW r \in Row PROVE Key(r) \in Keys
  BY DEF Row, Key, Keys, Version

LEMMA ClockType == ASSUME TypeOK PROVE clock \in Nat
  BY InputsAssumption DEF TypeOK

\* The transaction after the first statement of a call.
LEMMA EnteredType ==
    ASSUME TypeOK, NEW b \in Blocks
    PROVE  Entered(b) \in Txn /\ Entered(b).status \in {"open", "failed"}
<1>1. clock \in Nat /\ txn[b] \in Txn
  BY ClockType DEF TypeOK
<1>. QED
  BY <1>1 DEF Entered, Txn, Blank

LEMMA PresentType ==
    ASSUME TypeOK, NEW b \in Blocks
    PROVE  Present(b) \in Client /\ (CanCall(b) => Present(b).call = None)
  BY DEF TypeOK, Present, NewClient, Client, CanCall

LEMMA NewCallType ==
    ASSUME TypeOK, NEW t \in Tables, NEW run \in RunIds \cup {None}, NEW batch \in Seq(Point)
    PROVE  NewCall(t, run, batch) \in Call
  BY InputsAssumption DEF TypeOK, NewCall, Call

\* The row a statement offers.
LEMMA OfferedType ==
    ASSUME TypeOK, NEW b \in Blocks, client[b].call # None,
           NEW i \in DOMAIN client[b].call.batch
    PROVE  Offered(b, i) \in Row
<1>1. client[b].call \in Call /\ txn[b].began \in Nat
  BY DEF TypeOK, Client, Txn
<1>2. client[b].call.batch[i] \in Point
  BY <1>1 DEF Call
<1>. QED
  BY <1>1, <1>2, InputsAssumption DEF Offered, Row, Call, Point

\* The statement in progress is one of the batch.
LEMMA CurrentType ==
    ASSUME TypeOK, NEW b \in Blocks, Executing(b)
    PROVE  Current(b) \in Row /\ Key(Current(b)) \in Keys
<1>1. client[b].call \in Call
  BY DEF TypeOK, Client, Executing
<1>2. client[b].call.next \in DOMAIN client[b].call.batch
  BY <1>1 DEF Executing, Call
<1>3. Current(b) \in Row
  BY <1>2, OfferedType DEF Executing, Current
<1>. QED
  BY <1>3, KeyType

\* What a returned call tells its caller.
LEMMA AcknowledgedType ==
    ASSUME TypeOK, NEW b \in Blocks, client[b].call # None
    PROVE  Acknowledged(b) \subseteq Told
<1>. DEFINE c == client[b].call
<1>1. c \in Call
  BY DEF TypeOK, Client
<1>2. ASSUME NEW i \in DOMAIN c.batch
      PROVE  [key |-> Key(Offered(b, i)), value |-> c.batch[i].value,
              stated |-> c.batch[i].claim # None, asked |-> c.asked] \in Told
  <2>1. Key(Offered(b, i)) \in Keys
    BY <1>2, OfferedType, KeyType
  <2>2. c.batch[i] \in Point
    BY <1>1 DEF Call
  <2>. QED
    BY <1>1, <2>1, <2>2 DEF Told, Call, Point
<1>. QED
  BY <1>2 DEF Acknowledged

-----------------------------------------------------------------------------
(* Type correctness, one lemma per group of actions.                       *)

LEMMA StartType ==
    ASSUME TypeOK, NEW b \in Blocks, NEW c \in Call \cup {None}, Start(b, c)
    PROVE  TypeOK'
<1>1. txn' \in [Blocks -> Txn]
  BY EnteredType DEF TypeOK, Start
<1>2. [Present(b) EXCEPT !.call = c] \in Client
  BY PresentType DEF Client
<1>3. client' \in [Blocks -> Client]
  BY <1>2 DEF TypeOK, Start
<1>. QED
  BY <1>1, <1>3 DEF TypeOK, Start

\* A batch whose points all take the run's available_at is still a batch.
LEMMA StampedType ==
    ASSUME NEW batch \in Seq(Point), NEW available \in Claims
    PROVE  [i \in DOMAIN batch |-> [batch[i] EXCEPT !.claim = available]] \in Seq(Point)
<1>1. ASSUME NEW i \in DOMAIN batch
      PROVE  [batch[i] EXCEPT !.claim = available] \in Point
  <2>1. batch[i] \in Point
    BY <1>1
  <2>. QED
    BY <2>1 DEF Point
<1>2. DOMAIN batch = 1..Len(batch) /\ Len(batch) \in Nat
  OBVIOUS
<1>3. [i \in DOMAIN batch |-> [batch[i] EXCEPT !.claim = available]] \in [1..Len(batch) -> Point]
  BY <1>1, <1>2
<1>. QED
  BY <1>2, <1>3, SeqDef, Zenon

LEMMA InsertRunType ==
    ASSUME TypeOK, NEW b \in Blocks, NEW t \in Tables, NEW batch \in Batches,
           NEW available \in Claims, CanCall(b),
           InsertRun(b, t, batch, available), UNCHANGED <<clock, rows, runs>>
    PROVE  TypeOK'
<1>. DEFINE stamped == [i \in DOMAIN batch |-> [batch[i] EXCEPT !.claim = available]]
            run(id) == [id |-> id, available |-> available, recorded |-> Entered(b).began]
<1>1. PICK id \in RunIds \ UsedIds :
        /\ txn' = [txn EXCEPT ![b] = [Entered(b) EXCEPT !.runs = @ \cup {run(id)}]]
        /\ client' = [client EXCEPT ![b] =
                         [Present(b) EXCEPT !.call = NewCall(t, id, stamped)]]
  BY DEF InsertRun
<1>2. run(id) \in Run
  BY EnteredType, InputsAssumption DEF Run, Txn
<1>3. [Entered(b) EXCEPT !.runs = @ \cup {run(id)}] \in Txn
  BY <1>2, EnteredType DEF Txn
<1>4. NewCall(t, id, stamped) \in Call
  BY StampedType, NewCallType, InputsAssumption
<1>5. [Present(b) EXCEPT !.call = NewCall(t, id, stamped)] \in Client
  BY <1>4, PresentType DEF Client
<1>. QED
  BY <1>1, <1>3, <1>5 DEF TypeOK

LEMMA WriteType ==
    ASSUME TypeOK, NEW b \in Blocks, Write(b)
    PROVE  TypeOK'
<1>1. PICK t \in Tables, batch \in Batches :
        \/ WriteActuals(b, t, batch)
        \/ WritePredictors(b, t, batch)
        \/ \E available \in Claims, ordered \in BOOLEAN :
              WriteForecast(b, t, batch, available, ordered)
  BY DEF Write
<1>2. NewCall(t, None, batch) \in Call
  BY NewCallType, InputsAssumption
<1>3. CASE WriteActuals(b, t, batch)
  BY <1>2, <1>3, StartType DEF WriteActuals
<1>4. CASE WritePredictors(b, t, batch)
  BY <1>2, <1>4, StartType DEF WritePredictors
<1>5. ASSUME NEW available \in Claims, NEW ordered \in BOOLEAN,
             WriteForecast(b, t, batch, available, ordered)
      PROVE  TypeOK'
  <2>1. CASE Start(b, None)
    BY <2>1, StartType
  <2>2. CASE CanCall(b) /\ InsertRun(b, t, batch, available) /\ UNCHANGED <<clock, rows, runs>>
    BY <2>2, InsertRunType
  <2>3. CASE /\ txn' = [txn EXCEPT ![b] = Failed]
             /\ client' = [client EXCEPT ![b] = Present(b)]
             /\ UNCHANGED <<clock, rows, runs>>
    BY <2>3, IdleType, PresentType DEF TypeOK
  <2>. QED
    BY <1>5, <2>1, <2>2, <2>3 DEF WriteForecast
<1>. QED
  BY <1>1, <1>3, <1>4, <1>5

LEMMA AdvanceType ==
    ASSUME TypeOK, NEW b \in Blocks, Executing(b), Advance(b)
    PROVE  client' \in [Blocks -> Client]
<1>1. client[b] \in Client /\ client[b].call \in Call
  BY DEF TypeOK, Client, Executing
<1>2. [client[b].call EXCEPT !.next = @ + 1] \in Call
  BY <1>1 DEF Call
<1>3. [client[b] EXCEPT !.call.next = @ + 1] \in Client
  BY <1>1, <1>2 DEF Client
<1>. QED
  BY <1>3 DEF Advance, TypeOK

LEMMA RaiseType ==
    ASSUME TypeOK, NEW b \in Blocks, Raise(b)
    PROVE  txn' \in [Blocks -> Txn] /\ client' \in [Blocks -> Client]
  BY IdleType DEF Raise, TypeOK, Client

LEMMA StatementType ==
    ASSUME TypeOK, NEW b \in Blocks, Statement(b)
    PROVE  TypeOK'
<1>1. CASE InsertRow(b)
  <2>1. Current(b) \in Row /\ Key(Current(b)) \in Keys
    BY <1>1, CurrentType DEF InsertRow, Reached
  <2>2. txn' \in [Blocks -> Txn]
    BY <1>1, <2>1 DEF InsertRow, TypeOK, Txn
  <2>. QED
    BY <1>1, <2>2, AdvanceType DEF InsertRow, Reached, TypeOK
<1>2. CASE SkipRow(b)
  BY <1>2, AdvanceType DEF SkipRow, Reached, TypeOK
<1>3. CASE Redeliver(b)
  <2>1. Current(b) \in Row /\ Key(Current(b)) \in Keys
    BY <1>3, CurrentType DEF Redeliver, Reached
  <2>2. txn' \in [Blocks -> Txn]
    BY <1>3, <2>1 DEF Redeliver, TypeOK, Txn
  <2>. QED
    BY <1>3, <2>2, AdvanceType DEF Redeliver, Reached, TypeOK
<1>4. CASE Conflict(b)
  BY <1>4, RaiseType DEF Conflict, TypeOK
<1>5. CASE DuplicateTarget(b)
  BY <1>5, RaiseType DEF DuplicateTarget, TypeOK
<1>. QED
  BY <1>1, <1>2, <1>3, <1>4, <1>5 DEF Statement

LEMMA EndBlockType ==
    ASSUME TypeOK, NEW b \in Blocks,
           NEW how \in {"none", "committed", "discarded", "raised"}, EndBlock(b, how)
    PROVE  txn' \in [Blocks -> Txn] /\ client' \in [Blocks -> Client]
  BY IdleType DEF EndBlock, TypeOK, Client

LEMMA PublishType ==
    ASSUME TypeOK, NEW b \in Blocks, Publish(b)
    PROVE  rows' \subseteq Row /\ runs' \subseteq Run
  BY DEF Publish, TypeOK, Txn

LEMMA StepType == TypeOK /\ [Next]_vars => TypeOK'
<1>. SUFFICES ASSUME TypeOK, [Next]_vars PROVE TypeOK'
  OBVIOUS
<1>1. CASE Tick
  BY <1>1, ClockType, InputsAssumption DEF Tick, TypeOK
<1>2. ASSUME NEW b \in Blocks, Read(b) PROVE TypeOK'
  BY <1>2, StartType DEF Read
<1>3. ASSUME NEW b \in Blocks, Write(b) PROVE TypeOK'
  BY <1>3, WriteType
<1>4. ASSUME NEW b \in Blocks, Statement(b) PROVE TypeOK'
  BY <1>4, StatementType
<1>5. ASSUME NEW b \in Blocks, ClientFault(b) PROVE TypeOK'
  BY <1>5 DEF ClientFault, TypeOK, Client
<1>6. ASSUME NEW b \in Blocks, DeadlockVictim(b) PROVE TypeOK'
  BY <1>6, RaiseType DEF DeadlockVictim, TypeOK
<1>7. ASSUME NEW b \in Blocks, Return(b) PROVE TypeOK'
  <2>1. Acknowledged(b) \subseteq Told
    BY <1>7, AcknowledgedType DEF Return
  <2>. QED
    BY <1>7, <2>1 DEF Return, TypeOK, Client
<1>8. ASSUME NEW b \in Blocks, Leave(b) PROVE TypeOK'
  BY <1>8, EndBlockType, PublishType DEF Leave, TypeOK
<1>9. ASSUME NEW b \in Blocks, Abandon(b) PROVE TypeOK'
  BY <1>9, EndBlockType DEF Abandon, TypeOK
<1>10. ASSUME NEW b \in Blocks, LoseCommitReply(b) PROVE TypeOK'
  BY <1>10, EndBlockType, PublishType DEF LoseCommitReply, TypeOK
<1>11. CASE UNCHANGED vars
  BY <1>11 DEF vars, TypeOK
<1>. QED
  BY <1>1, <1>2, <1>3, <1>4, <1>5, <1>6, <1>7, <1>8, <1>9, <1>10, <1>11 DEF Next

\* Every reachable state has the types of TypeOK.
THEOREM TypeCorrect == Spec => []TypeOK
<1>1. Init => TypeOK
  BY IdleType, InputsAssumption DEF Init, TypeOK, NewClient, Client
<1>. QED
  BY <1>1, StepType, PTL DEF Spec

-----------------------------------------------------------------------------
(* What a step can do to the tables and the transactions.                  *)

\* Only the transaction of b changes, and to t.
OnlyTxn(b, t) == rows' = rows /\ runs' = runs /\ txn' = [txn EXCEPT ![b] = t]

\* The transaction of b begins, with or without the run row u.
Begins(b, U) ==
    /\ txn[b].status # "failed"
    /\ \A u \in U : u.recorded = Entered(b).began /\ u.id \notin UsedIds
    /\ \A u, v \in U : u = v
    /\ OnlyTxn(b, [Entered(b) EXCEPT !.runs = @ \cup U])

Inserts(b) ==
    /\ Reached(b) /\ Existing(b) = {}
    /\ OnlyTxn(b, [txn[b] EXCEPT !.rows = @ \cup {Current(b)},
                                 !.locks = @ \cup {Key(Current(b))}])

Locks(b) ==
    /\ Reached(b)
    /\ OnlyTxn(b, [txn[b] EXCEPT !.locks = @ \cup {Key(Current(b))}])

Commits(b) ==
    txn[b].status = "open" /\ Publish(b) /\ txn' = [txn EXCEPT ![b] = Idle]

ServerStep ==
    \/ UNCHANGED <<rows, runs, txn>>
    \/ \E b \in Blocks :
          \/ \E U \in SUBSET Run : Begins(b, U)
          \/ Inserts(b)
          \/ Locks(b)
          \/ OnlyTxn(b, Idle)
          \/ OnlyTxn(b, Failed)
          \/ Commits(b)

LEMMA StartStep ==
    ASSUME TypeOK, NEW b \in Blocks, NEW c, Start(b, c)
    PROVE  Begins(b, {})
<1>1. txn[b].status # "failed"
  BY DEF Start, CanCall
<1>2. [Entered(b) EXCEPT !.runs = @ \cup {}] = Entered(b)
  BY EnteredType DEF Txn
<1>. QED
  BY <1>1, <1>2 DEF Begins, OnlyTxn, Start

LEMMA WriteStep ==
    ASSUME TypeOK, NEW b \in Blocks, Write(b)
    PROVE  OnlyTxn(b, Failed) \/ \E U \in SUBSET Run : Begins(b, U)
<1>1. PICK t \in Tables, batch \in Batches :
        \/ WriteActuals(b, t, batch)
        \/ WritePredictors(b, t, batch)
        \/ \E available \in Claims, ordered \in BOOLEAN :
              WriteForecast(b, t, batch, available, ordered)
  BY DEF Write
<1>2. ASSUME NEW c, Start(b, c) PROVE \E U \in SUBSET Run : Begins(b, U)
  BY <1>2, StartStep
<1>3. CASE WriteActuals(b, t, batch) \/ WritePredictors(b, t, batch)
  BY <1>2, <1>3 DEF WriteActuals, WritePredictors
<1>4. ASSUME NEW available \in Claims, NEW ordered \in BOOLEAN,
             WriteForecast(b, t, batch, available, ordered)
      PROVE  OnlyTxn(b, Failed) \/ \E U \in SUBSET Run : Begins(b, U)
  <2>1. ASSUME CanCall(b), InsertRun(b, t, batch, available), UNCHANGED <<clock, rows, runs>>
        PROVE  \E U \in SUBSET Run : Begins(b, U)
    <3>. DEFINE run(id) == [id |-> id, available |-> available, recorded |-> Entered(b).began]
    <3>1. PICK id \in RunIds \ UsedIds :
            txn' = [txn EXCEPT ![b] = [Entered(b) EXCEPT !.runs = @ \cup {run(id)}]]
      BY <2>1 DEF InsertRun
    <3>2. run(id) \in Run
      BY EnteredType, InputsAssumption DEF Run, Txn
    <3>3. Begins(b, {run(id)})
      BY <2>1, <3>1 DEF Begins, OnlyTxn, CanCall
    <3>. QED
      BY <3>2, <3>3
  <2>2. CASE Start(b, None)
    BY <1>2, <2>2
  <2>3. CASE txn' = [txn EXCEPT ![b] = Failed] /\ UNCHANGED <<clock, rows, runs>>
    BY <2>3 DEF OnlyTxn
  <2>. QED
    BY <1>4, <2>1, <2>2, <2>3 DEF WriteForecast
<1>. QED
  BY <1>1, <1>3, <1>4

LEMMA StatementStep ==
    ASSUME TypeOK, NEW b \in Blocks, Statement(b)
    PROVE  Inserts(b) \/ Locks(b) \/ OnlyTxn(b, Failed) \/ UNCHANGED <<rows, runs, txn>>
<1>1. CASE InsertRow(b)
  BY <1>1 DEF InsertRow, Inserts, OnlyTxn, TypeOK, Txn
<1>2. CASE Redeliver(b)
  BY <1>2 DEF Redeliver, Locks, OnlyTxn
<1>3. CASE SkipRow(b) \/ Conflict(b) \/ DuplicateTarget(b)
  BY <1>3 DEF SkipRow, Conflict, DuplicateTarget, Raise, OnlyTxn
<1>. QED
  BY <1>1, <1>2, <1>3 DEF Statement

LEMMA StepEffect ==
    ASSUME TypeOK, [Next]_vars
    PROVE  ServerStep
<1>1. CASE Tick \/ UNCHANGED vars
  BY <1>1 DEF Tick, vars, ServerStep
<1>2. ASSUME NEW b \in Blocks, Read(b) PROVE ServerStep
  BY <1>2, StartStep DEF Read, ServerStep
<1>3. ASSUME NEW b \in Blocks, Write(b) PROVE ServerStep
  BY <1>3, WriteStep DEF ServerStep
<1>4. ASSUME NEW b \in Blocks, Statement(b) PROVE ServerStep
  BY <1>4, StatementStep DEF ServerStep
<1>5. ASSUME NEW b \in Blocks, ClientFault(b) \/ DeadlockVictim(b) \/ Return(b) PROVE ServerStep
  BY <1>5 DEF ClientFault, DeadlockVictim, Return, Raise, OnlyTxn, ServerStep
<1>6. ASSUME NEW b \in Blocks, Leave(b) \/ LoseCommitReply(b) \/ Abandon(b) PROVE ServerStep
  BY <1>6 DEF Leave, LoseCommitReply, Abandon, EndBlock, Commits, OnlyTxn, ServerStep
<1>. QED
  BY <1>1, <1>2, <1>3, <1>4, <1>5, <1>6 DEF Next

-----------------------------------------------------------------------------
(* A call in progress has an open transaction.                             *)

LEMMA StartInTransaction ==
    ASSUME TypeOK, CallInTransaction, NEW b \in Blocks, NEW c, Start(b, c)
    PROVE  CallInTransaction'
<1>1. Entered(b).status = "open"
  BY DEF Start, CanCall, Entered, Blank
<1>. QED
  BY <1>1 DEF Start, TypeOK, CallInTransaction

LEMMA WriteInTransaction ==
    ASSUME TypeOK, CallInTransaction, NEW b \in Blocks, Write(b)
    PROVE  CallInTransaction'
<1>1. PICK t \in Tables, batch \in Batches :
        \/ WriteActuals(b, t, batch)
        \/ WritePredictors(b, t, batch)
        \/ \E available \in Claims, ordered \in BOOLEAN :
              WriteForecast(b, t, batch, available, ordered)
  BY DEF Write
<1>2. CASE WriteActuals(b, t, batch) \/ WritePredictors(b, t, batch)
  BY <1>2, StartInTransaction DEF WriteActuals, WritePredictors
<1>3. ASSUME NEW available \in Claims, NEW ordered \in BOOLEAN,
             WriteForecast(b, t, batch, available, ordered)
      PROVE  CallInTransaction'
  <2>1. CASE Start(b, None)
    BY <2>1, StartInTransaction
  <2>2. CASE CanCall(b) /\ InsertRun(b, t, batch, available)
    <3>1. Entered(b).status = "open" /\ Entered(b) \in Txn
      BY <2>2, EnteredType DEF CanCall, Entered, Blank
    <3>. QED
      BY <2>2, <3>1 DEF InsertRun, TypeOK, CallInTransaction, Txn
  <2>3. CASE /\ CanCall(b) /\ txn' = [txn EXCEPT ![b] = Failed]
             /\ client' = [client EXCEPT ![b] = Present(b)]
    BY <2>3, PresentType DEF TypeOK, CallInTransaction
  <2>. QED
    BY <1>3, <2>1, <2>2, <2>3 DEF WriteForecast
<1>. QED
  BY <1>1, <1>2, <1>3

LEMMA CallInTransactionStep ==
    TypeOK /\ CallInTransaction /\ [Next]_vars => CallInTransaction'
<1>. SUFFICES ASSUME TypeOK, CallInTransaction, [Next]_vars PROVE CallInTransaction'
  OBVIOUS
<1>1. CASE Tick \/ UNCHANGED vars
  BY <1>1 DEF Tick, vars, CallInTransaction
<1>2. ASSUME NEW b \in Blocks, Read(b) \/ Write(b) PROVE CallInTransaction'
  BY <1>2, StartInTransaction, WriteInTransaction DEF Read
<1>3. ASSUME NEW b \in Blocks, Raise(b) PROVE CallInTransaction'
  BY <1>3 DEF Raise, TypeOK, Client, CallInTransaction
<1>4. ASSUME NEW b \in Blocks, Statement(b) PROVE CallInTransaction'
  <2>1. CASE Conflict(b) \/ DuplicateTarget(b)
    BY <1>3, <2>1 DEF Conflict, DuplicateTarget
  <2>2. CASE InsertRow(b) \/ SkipRow(b) \/ Redeliver(b)
    <3>1. client[b].call # None
      BY <2>2 DEF InsertRow, SkipRow, Redeliver, Reached, Executing
    <3>2. \A a \in Blocks : txn'[a].status = txn[a].status
      BY <2>2 DEF InsertRow, SkipRow, Redeliver, TypeOK, Txn
    <3>3. \A a \in Blocks \ {b} : client'[a] = client[a]
      BY <2>2 DEF InsertRow, SkipRow, Redeliver, Advance, TypeOK
    <3>. QED
      BY <3>1, <3>2, <3>3 DEF CallInTransaction
  <2>. QED
    BY <1>4, <2>1, <2>2 DEF Statement
<1>5. ASSUME NEW b \in Blocks, ClientFault(b) \/ Return(b) PROVE CallInTransaction'
  BY <1>5 DEF ClientFault, Return, TypeOK, Client, CallInTransaction
<1>6. ASSUME NEW b \in Blocks, DeadlockVictim(b) PROVE CallInTransaction'
  BY <1>3, <1>6 DEF DeadlockVictim
<1>7. ASSUME NEW b \in Blocks, Leave(b) \/ Abandon(b) \/ LoseCommitReply(b)
      PROVE  CallInTransaction'
  BY <1>7 DEF Leave, Abandon, LoseCommitReply, EndBlock, TypeOK, Client, CallInTransaction
<1>. QED
  BY <1>1, <1>2, <1>4, <1>5, <1>6, <1>7 DEF Next

-----------------------------------------------------------------------------
(* A pinned read is stable once the pin is quiet.                          *)

LEMMA StampedStep == TypeOK /\ CallInTransaction /\ Stamped /\ [Next]_vars => Stamped'
<1>. SUFFICES ASSUME TypeOK, CallInTransaction, Stamped, ServerStep PROVE Stamped'
  BY StepEffect
<1>. DEFINE Good(t) == /\ \A r \in t.rows : r.recorded = t.began
                       /\ \A u \in t.runs : u.recorded = t.began
                       /\ t.status # "open" => t.rows = {} /\ t.runs = {}
<1>1. \A a \in Blocks : Good(txn[a]) /\ txn[a] \in Txn
  BY DEF Stamped, TypeOK
<1>2. SUFFICES ASSUME NEW a \in Blocks PROVE Good(txn'[a])
  BY DEF Stamped
<1>3. CASE UNCHANGED <<rows, runs, txn>>
  BY <1>1, <1>3
<1>4. ASSUME NEW b \in Blocks, NEW t \in Txn, txn' = [txn EXCEPT ![b] = t], Good(t)
      PROVE  Good(txn'[a])
  BY <1>1, <1>4 DEF TypeOK
<1>5. Good(Idle) /\ Good(Failed) /\ Idle \in Txn /\ Failed \in Txn
  BY IdleType DEF Idle, Failed, Blank
<1>6. ASSUME NEW b \in Blocks, OnlyTxn(b, Idle) \/ OnlyTxn(b, Failed) \/ Commits(b)
      PROVE  Good(txn'[a])
  BY <1>4, <1>5, <1>6 DEF OnlyTxn, Commits
<1>7. ASSUME NEW b \in Blocks, NEW U \in SUBSET Run, Begins(b, U)
      PROVE  Good(txn'[a])
  <2>1. Entered(b) \in Txn /\ Good(Entered(b)) /\ Entered(b).status = "open"
    BY <1>1, <1>7, EnteredType DEF Begins, Entered, Blank
  <2>2. [Entered(b) EXCEPT !.runs = @ \cup U] \in Txn
    BY <2>1 DEF Txn
  <2>3. Good([Entered(b) EXCEPT !.runs = @ \cup U])
    BY <1>7, <2>1 DEF Begins, Txn
  <2>. QED
    BY <1>4, <1>7, <2>2, <2>3 DEF Begins, OnlyTxn
<1>8. ASSUME NEW b \in Blocks, Inserts(b) PROVE Good(txn'[a])
  <2>. DEFINE t == [txn[b] EXCEPT !.rows = @ \cup {Current(b)},
                                  !.locks = @ \cup {Key(Current(b))}]
  <2>1. Current(b) \in Row /\ Key(Current(b)) \in Keys /\ Current(b).recorded = txn[b].began
    BY <1>8, CurrentType DEF Inserts, Reached, Current, Offered
  <2>2. txn[b].status = "open"
    BY <1>8 DEF Inserts, Reached, Executing, CallInTransaction
  <2>3. t \in Txn /\ Good(t)
    BY <1>1, <2>1, <2>2 DEF Txn
  <2>. QED
    BY <1>4, <1>8, <2>3 DEF Inserts, OnlyTxn
<1>9. ASSUME NEW b \in Blocks, Locks(b) PROVE Good(txn'[a])
  <2>1. Key(Current(b)) \in Keys
    BY <1>9, CurrentType DEF Locks, Reached
  <2>. DEFINE t == [txn[b] EXCEPT !.locks = @ \cup {Key(Current(b))}]
  <2>2. t \in Txn /\ Good(t)
    BY <1>1, <2>1 DEF Txn
  <2>. QED
    BY <1>4, <1>9, <2>2 DEF Locks, OnlyTxn
<1>. QED
  BY <1>3, <1>6, <1>7, <1>8, <1>9 DEF ServerStep

LEMMA InvariantsHold == Spec => [](TypeOK /\ CallInTransaction /\ Stamped)
<1>1. Init => TypeOK /\ CallInTransaction /\ Stamped
  BY IdleType, InputsAssumption
  DEF Init, TypeOK, NewClient, Client, CallInTransaction, Stamped, Idle, Blank
<1>. QED
  BY <1>1, StepType, CallInTransactionStep, StampedStep, PTL DEF Spec

\* What a step commits at a quiet pin p was recorded after p.
LEMMA QuietStep ==
    ASSUME TypeOK, Stamped, [Next]_vars, NEW p \in 0..MaxTime, Quiet(p)
    PROVE  SeenRows(p)' = SeenRows(p) /\ SeenRuns(p)' = SeenRuns(p)
<1>1. CASE rows' = rows /\ runs' = runs
  BY <1>1 DEF SeenRows, SeenRuns
<1>2. ASSUME NEW b \in Blocks, Commits(b)
      PROVE  SeenRows(p)' = SeenRows(p) /\ SeenRuns(p)' = SeenRuns(p)
  <2>1. p < txn[b].began /\ txn[b].began \in Nat /\ p \in Nat
    BY <1>2 DEF Commits, Quiet, TypeOK, Txn
  <2>2. \A r \in txn[b].rows : ~(r.recorded <= p)
    BY <2>1 DEF Stamped
  <2>3. \A u \in txn[b].runs : ~(u.recorded <= p)
    BY <2>1 DEF Stamped
  <2>. QED
    BY <1>2, <2>2, <2>3 DEF Commits, Publish, SeenRows, SeenRuns
<1>3. ServerStep
  BY StepEffect
<1>. QED
  BY <1>1, <1>2, <1>3 DEF ServerStep, Begins, Inserts, Locks, OnlyTxn

\* A pinned read whose pin is older than every open transaction never changes.
THEOREM PinStability == Spec => PinStableWhenQuiet
<1>1. TypeOK /\ Stamped /\ [Next]_vars =>
        [\A p \in 0..MaxTime :
            Quiet(p) => SeenRows(p)' = SeenRows(p) /\ SeenRuns(p)' = SeenRuns(p)]_vars
  BY QuietStep
<1>. QED
  BY <1>1, InvariantsHold, PTL DEF Spec, PinStableWhenQuiet

\* The clock never goes back.
LEMMA ClockStep == [Next]_vars => clock' = clock \/ clock' = clock + 1
<1>. SUFFICES ASSUME [Next]_vars PROVE clock' = clock \/ clock' = clock + 1
  OBVIOUS
<1>1. CASE Tick \/ UNCHANGED vars
  BY <1>1 DEF Tick, vars
<1>2. ASSUME NEW b \in Blocks, Read(b) PROVE clock' = clock
  BY <1>2 DEF Read, Start
<1>3. ASSUME NEW b \in Blocks, Write(b) PROVE clock' = clock
  BY <1>3 DEF Write, WriteActuals, WritePredictors, WriteForecast, Start
<1>4. ASSUME NEW b \in Blocks, Statement(b) PROVE clock' = clock
  BY <1>4 DEF Statement, InsertRow, SkipRow, Redeliver, Conflict, DuplicateTarget
<1>5. ASSUME NEW b \in Blocks, ClientFault(b) \/ DeadlockVictim(b) \/ Return(b)
      PROVE  clock' = clock
  BY <1>5 DEF ClientFault, DeadlockVictim, Return
<1>6. ASSUME NEW b \in Blocks, Leave(b) \/ Abandon(b) \/ LoseCommitReply(b)
      PROVE  clock' = clock
  BY <1>6 DEF Leave, Abandon, LoseCommitReply
<1>. QED
  BY <1>1, <1>2, <1>3, <1>4, <1>5, <1>6 DEF Next

\* A step leaves a quiet pin quiet: what begins later begins after it.
LEMMA QuietRemains ==
    ASSUME TypeOK, [Next]_vars, NEW p \in 0..MaxTime, Quiet(p)
    PROVE  Quiet(p)'
<1>1. clock \in Nat /\ clock' \in Nat /\ clock <= clock' /\ p < clock'
  <2>1. clock \in Nat /\ p \in Nat /\ p < clock
    BY ClockType DEF Quiet
  <2>2. clock' = clock \/ clock' = clock + 1
    BY ClockStep
  <2>. QED
    BY <2>1, <2>2
<1>2. \A a \in Blocks : txn'[a].status = "open" => p < txn'[a].began
  <2>1. ServerStep
    BY StepEffect
  <2>2. CASE UNCHANGED <<rows, runs, txn>>
    BY <2>2 DEF Quiet
  <2>3. ASSUME NEW b \in Blocks, NEW t, txn' = [txn EXCEPT ![b] = t],
               t.status = "open" => p < t.began
        PROVE  \A a \in Blocks : txn'[a].status = "open" => p < txn'[a].began
    BY <2>3 DEF Quiet, TypeOK
  <2>4. ASSUME NEW b \in Blocks, OnlyTxn(b, Idle) \/ OnlyTxn(b, Failed) \/ Commits(b)
        PROVE  \A a \in Blocks : txn'[a].status = "open" => p < txn'[a].began
    BY <2>3, <2>4 DEF OnlyTxn, Commits, Idle, Failed, Blank
  <2>5. ASSUME NEW b \in Blocks, NEW U \in SUBSET Run, Begins(b, U)
        PROVE  \A a \in Blocks : txn'[a].status = "open" => p < txn'[a].began
    <3>. DEFINE t == [Entered(b) EXCEPT !.runs = @ \cup U]
    <3>1. t.status = Entered(b).status /\ t.began = Entered(b).began
      BY EnteredType DEF Txn
    <3>2. Entered(b).status = "open" => p < Entered(b).began
      BY DEF Entered, Blank, Quiet
    <3>. QED
      BY <2>3, <2>5, <3>1, <3>2 DEF Begins, OnlyTxn
  <2>6. ASSUME NEW b \in Blocks, Inserts(b) \/ Locks(b)
        PROVE  \A a \in Blocks : txn'[a].status = "open" => p < txn'[a].began
    BY <2>6 DEF Inserts, Locks, OnlyTxn, Quiet, TypeOK, Txn
  <2>. QED
    BY <2>1, <2>2, <2>4, <2>5, <2>6 DEF ServerStep
<1>. QED
  BY <1>1, <1>2 DEF Quiet

\* Once quiet, a pin stays quiet, so the stability lasts.
THEOREM QuietLasts ==
    Spec => [][\A p \in 0..MaxTime : Quiet(p) => Quiet(p)']_vars
<1>1. TypeOK /\ [Next]_vars => [\A p \in 0..MaxTime : Quiet(p) => Quiet(p)']_vars
  BY QuietRemains
<1>. QED
  BY <1>1, TypeCorrect, PTL DEF Spec

\* The same rows come back forever: whatever a pinned read returns from when its
\* pin is quiet, it returns from in every later state (recorded_at DEFAULT now(),
\* the promise of README.md:38 in the form the code gives it).
THEOREM PinnedForever ==
    ASSUME NEW p \in 0..MaxTime, NEW S, NEW U
    PROVE  Spec => [](Quiet(p) /\ SeenRows(p) = S /\ SeenRuns(p) = U =>
                        [](SeenRows(p) = S /\ SeenRuns(p) = U))
<1>. DEFINE Seen == Quiet(p) /\ SeenRows(p) = S /\ SeenRuns(p) = U
<1>1. ASSUME TypeOK, Stamped, [Next]_vars, Seen PROVE Seen'
  <2>1. Quiet(p)'
    BY <1>1, QuietRemains
  <2>2. SeenRows(p)' = SeenRows(p) /\ SeenRuns(p)' = SeenRuns(p)
    BY <1>1, QuietStep
  <2>. QED
    BY <1>1, <2>1, <2>2
<1>2. Seen => SeenRows(p) = S /\ SeenRuns(p) = U
  OBVIOUS
<1>. HIDE DEF Seen
<1>3. Spec => [](Seen => [](SeenRows(p) = S /\ SeenRuns(p) = U))
  BY <1>1, <1>2, InvariantsHold, PTL DEF Spec
<1>. QED
  BY <1>3 DEF Seen

-----------------------------------------------------------------------------
(* Concurrent blocks never store two rows under one key.                   *)

\* Two sets of rows whose keys are locked by different blocks share no key.
LEMMA PendingDisjoint ==
    ASSUME KeysHeld, NEW a \in Blocks, NEW b \in Blocks, a # b,
           NEW x \in txn[a].rows, NEW y \in txn[b].rows
    PROVE  Key(x) # Key(y)
<1>1. Key(x) \in txn[a].locks /\ Key(y) \in txn[b].locks
  BY DEF KeysHeld
<1>. QED
  BY <1>1 DEF KeysHeld

\* What one block's transaction becomes without touching the tables.
LEMMA OnlyTxnKeys ==
    ASSUME TypeOK, KeysHeld, NEW b \in Blocks, NEW t, OnlyTxn(b, t),
           UniqueIn(rows \cup t.rows),
           \A r \in t.rows : Key(r) \in t.locks,
           \A o \in Blocks \ {b} : t.locks \cap txn[o].locks = {}
    PROVE  KeysHeld'
<1>1. /\ rows' = rows
      /\ \A a \in Blocks : txn'[a] = IF a = b THEN t ELSE txn[a]
  BY DEF OnlyTxn, TypeOK
<1>2. UniqueIn(rows)' /\ \A a \in Blocks : UniqueIn(rows' \cup txn'[a].rows)
  BY <1>1 DEF KeysHeld, UniqueIn
<1>3. \A a \in Blocks : \A r \in txn'[a].rows : Key(r) \in txn'[a].locks
  BY <1>1 DEF KeysHeld
<1>4. \A a, o \in Blocks : a # o => txn'[a].locks \cap txn'[o].locks = {}
  BY <1>1 DEF KeysHeld
<1>. QED
  BY <1>1, <1>2, <1>3, <1>4 DEF KeysHeld, UniqueIn

LEMMA CommitKeys ==
    ASSUME TypeOK, KeysHeld, NEW b \in Blocks, Commits(b)
    PROVE  KeysHeld'
<1>1. /\ rows' = rows \cup txn[b].rows
      /\ \A a \in Blocks : txn'[a] = IF a = b THEN Idle ELSE txn[a]
      /\ Idle.rows = {} /\ Idle.locks = {}
  BY DEF Commits, Publish, TypeOK, Idle, Blank
<1>2. UniqueIn(rows')
  BY <1>1 DEF KeysHeld
<1>3. ASSUME NEW a \in Blocks PROVE UniqueIn(rows' \cup txn'[a].rows)
  <2>1. CASE a = b
    BY <1>1, <1>2, <2>1 DEF UniqueIn
  <2>2. CASE a # b
    <3>1. txn'[a].rows = txn[a].rows
      BY <1>1, <2>2
    <3>2. UniqueIn(rows \cup txn[b].rows) /\ UniqueIn(rows \cup txn[a].rows)
      BY DEF KeysHeld
    <3>3. \A x \in txn[a].rows, y \in txn[b].rows : Key(x) # Key(y)
      BY <2>2, PendingDisjoint
    <3>. QED
      BY <1>1, <3>1, <3>2, <3>3 DEF UniqueIn
  <2>. QED
    BY <2>1, <2>2
<1>4. \A a \in Blocks : \A r \in txn'[a].rows : Key(r) \in txn'[a].locks
  BY <1>1 DEF KeysHeld
<1>5. \A a, o \in Blocks : a # o => txn'[a].locks \cap txn'[o].locks = {}
  BY <1>1 DEF KeysHeld
<1>. QED
  BY <1>2, <1>3, <1>4, <1>5 DEF KeysHeld, UniqueIn

LEMMA KeysHeldStep == TypeOK /\ KeysHeld /\ [Next]_vars => KeysHeld'
<1>. SUFFICES ASSUME TypeOK, KeysHeld, ServerStep PROVE KeysHeld'
  BY StepEffect
<1>1. CASE UNCHANGED <<rows, runs, txn>>
  BY <1>1 DEF KeysHeld, UniqueIn
<1>2. ASSUME NEW b \in Blocks, OnlyTxn(b, Idle) \/ OnlyTxn(b, Failed) PROVE KeysHeld'
  <2>1. /\ Idle.rows = {} /\ Idle.locks = {} /\ Failed.rows = {} /\ Failed.locks = {}
        /\ UniqueIn(rows)
    BY DEF Idle, Failed, Blank, KeysHeld
  <2>2. UniqueIn(rows \cup {})
    BY <2>1
  <2>. QED
    BY <1>2, <2>1, <2>2, OnlyTxnKeys
<1>3. ASSUME NEW b \in Blocks, NEW U \in SUBSET Run, Begins(b, U) PROVE KeysHeld'
  <2>. DEFINE t == [Entered(b) EXCEPT !.runs = @ \cup U]
  <2>1. t.rows = Entered(b).rows /\ t.locks = Entered(b).locks
    BY EnteredType DEF Txn
  <2>2. \/ t.rows = txn[b].rows /\ t.locks = txn[b].locks
        \/ t.rows = {} /\ t.locks = {}
    BY <2>1 DEF Entered, Blank
  <2>3. UniqueIn(rows \cup t.rows)
    BY <2>2 DEF KeysHeld, UniqueIn
  <2>4. \A r \in t.rows : Key(r) \in t.locks
    BY <2>2 DEF KeysHeld
  <2>5. \A o \in Blocks \ {b} : t.locks \cap txn[o].locks = {}
    BY <2>2 DEF KeysHeld
  <2>. HIDE DEF t
  <2>6. OnlyTxn(b, t)
    BY <1>3 DEF Begins, t
  <2>. QED
    BY <2>3, <2>4, <2>5, <2>6, OnlyTxnKeys
<1>4. ASSUME NEW b \in Blocks, Inserts(b) PROVE KeysHeld'
  <2>. DEFINE k == Key(Current(b))
              t == [txn[b] EXCEPT !.rows = @ \cup {Current(b)}, !.locks = @ \cup {k}]
  <2>1. t.rows = txn[b].rows \cup {Current(b)} /\ t.locks = txn[b].locks \cup {k}
    BY DEF TypeOK, Txn
  <2>2. \A x \in rows \cup txn[b].rows : Key(x) # k
    BY <1>4 DEF Inserts, Existing
  <2>3. UniqueIn(rows \cup t.rows)
    BY <2>1, <2>2 DEF KeysHeld, UniqueIn
  <2>4. \A r \in t.rows : Key(r) \in t.locks
    BY <2>1 DEF KeysHeld
  <2>5. \A o \in Blocks \ {b} : k \notin txn[o].locks
    BY <1>4 DEF Inserts, Reached, WaitsFor
  <2>6. \A o \in Blocks \ {b} : t.locks \cap txn[o].locks = {}
    BY <2>1, <2>5 DEF KeysHeld
  <2>7. OnlyTxn(b, t)
    BY <1>4 DEF Inserts
  <2>. HIDE DEF t
  <2>. QED
    BY <2>3, <2>4, <2>6, <2>7, OnlyTxnKeys
<1>5. ASSUME NEW b \in Blocks, Locks(b) PROVE KeysHeld'
  <2>. DEFINE k == Key(Current(b))
              t == [txn[b] EXCEPT !.locks = @ \cup {k}]
  <2>1. t.rows = txn[b].rows /\ t.locks = txn[b].locks \cup {k}
    BY DEF TypeOK, Txn
  <2>2. UniqueIn(rows \cup t.rows) /\ \A r \in t.rows : Key(r) \in t.locks
    BY <2>1 DEF KeysHeld
  <2>3. \A o \in Blocks \ {b} : k \notin txn[o].locks
    BY <1>5 DEF Locks, Reached, WaitsFor
  <2>4. \A o \in Blocks \ {b} : t.locks \cap txn[o].locks = {}
    BY <2>1, <2>3 DEF KeysHeld
  <2>5. OnlyTxn(b, t)
    BY <1>5 DEF Locks
  <2>. HIDE DEF t
  <2>. QED
    BY <2>2, <2>4, <2>5, OnlyTxnKeys
<1>6. ASSUME NEW b \in Blocks, Commits(b) PROVE KeysHeld'
  BY <1>6, CommitKeys
<1>. QED
  BY <1>1, <1>2, <1>3, <1>4, <1>5, <1>6 DEF ServerStep

\* The locks keep the keys of the tables and of every open block unique.
THEOREM KeysAlwaysHeld == Spec => []KeysHeld
<1>1. Init => KeysHeld
  BY DEF Init, KeysHeld, UniqueIn, Idle, Blank
<1>. QED
  BY <1>1, KeysHeldStep, TypeCorrect, PTL DEF Spec

\* No interleaving of blocks gives a single-belief target two beliefs.
THEOREM SingleBeliefHolds == Spec => []OneBeliefPerTarget
<1>1. KeysHeld => OneBeliefPerTarget
  <2>. SUFFICES ASSUME KeysHeld, NEW x \in rows, NEW y \in rows, x.table \in SingleBelief,
                       x.table = y.table, x.target = y.target
                PROVE  x = y
    BY DEF OneBeliefPerTarget
  <2>1. x.table \notin Logs /\ y.table \notin Logs
    BY RolesAssumption
  <2>2. Version(x) = None /\ Version(y) = None
    BY <2>1 DEF Version
  <2>. QED
    BY <2>2 DEF KeysHeld, UniqueIn, Key
<1>. QED
  BY <1>1, KeysAlwaysHeld, PTL

-----------------------------------------------------------------------------
(* What a block's client may rely on, as a function of its transaction t,   *)
(* its client's view c and the committed rows S.                            *)

\* A row of S stands for the acknowledged belief x, as in Holds.
HoldsIn(S, x) ==
    \E r \in S : Key(r) = x.key /\ (r.table \in SingleBelief \cup Logs => r.value = x.value)

\* What the i-th point of call c is acknowledged as.
Ack(t, c, i) ==
    LET p == c.batch[i]
    IN  [key |-> Key([table |-> c.table, target |-> p.target, run |-> c.run,
                      available |-> IF p.claim = None THEN t.began ELSE p.claim,
                      recorded |-> t.began, value |-> p.value]),
         value |-> p.value, stated |-> p.claim # None, asked |-> c.asked]

\* Nothing is told of a block that goes on but what its transaction sees, and the
\* points of a call that have been sent are there too.
Delivered(S, t, c) ==
    /\ t.status # "idle" => c.ended = "none"
    /\ c.ended = "committed" => \A x \in c.told : HoldsIn(S, x)
    /\ t.status = "open" => \A x \in c.told : HoldsIn(S \cup t.rows, x)
    /\ c.call # None => \A i \in DOMAIN c.call.batch :
          i < c.call.next => HoldsIn(S \cup t.rows, Ack(t, c.call, i))

AllDelivered == \A b \in Blocks : Delivered(rows, txn[b], client[b])

\* Everything the proofs of this part start from.
Base == TypeOK /\ CallInTransaction

LEMMA Monotone ==
    ASSUME NEW S, NEW T, S \subseteq T, NEW t, NEW c, Delivered(S, t, c)
    PROVE  Delivered(T, t, c)
<1>1. \A x : HoldsIn(S, x) => HoldsIn(T, x)
  BY DEF HoldsIn
<1>2. \A x : HoldsIn(S \cup t.rows, x) => HoldsIn(T \cup t.rows, x)
  BY DEF HoldsIn
<1>. QED
  BY <1>1, <1>2 DEF Delivered

\* A block's statements leave the other blocks' transactions and clients alone.
LEMMA OneBlock ==
    ASSUME AllDelivered, NEW b \in Blocks, rows \subseteq rows',
           \A a \in Blocks \ {b} : txn'[a] = txn[a] /\ client'[a] = client[a],
           Delivered(rows', txn'[b], client'[b])
    PROVE  AllDelivered'
<1>1. SUFFICES ASSUME NEW a \in Blocks PROVE Delivered(rows', txn'[a], client'[a])
  BY DEF AllDelivered, Delivered, HoldsIn, Ack, Key, Version
<1>2. CASE a # b
  BY <1>2, Monotone DEF AllDelivered
<1>. QED
  BY <1>2

\* A call that has sent nothing yet, on a block's transaction as it is entered.
LEMMA FreshCall ==
    ASSUME Base, AllDelivered, NEW b \in Blocks, CanCall(b),
           NEW t \in Txn, NEW c \in Client,
           t.status = "open", t.rows = Entered(b).rows, t.began = Entered(b).began,
           c.told = Present(b).told, c.ended = Present(b).ended,
           c.call # None => c.call.next = 1
    PROVE  Delivered(rows, t, c)
<1>1. CASE txn[b].status = "idle"
  <2>1. c.told = {} /\ c.ended = "none"
    BY <1>1 DEF Present, NewClient
  <2>2. c.call # None => \A i \in DOMAIN c.call.batch : ~(i < c.call.next)
    BY DEF Client, Call
  <2>. QED
    BY <2>1, <2>2 DEF Delivered
<1>2. CASE txn[b].status = "open"
  <2>1. c.told = client[b].told /\ c.ended = client[b].ended /\ t.rows = txn[b].rows
    BY <1>2 DEF Present, Entered
  <2>2. c.call # None => \A i \in DOMAIN c.call.batch : ~(i < c.call.next)
    BY DEF Client, Call
  <2>3. Delivered(rows, txn[b], client[b])
    BY DEF AllDelivered
  <2>. QED
    BY <1>2, <2>1, <2>2, <2>3 DEF Delivered
<1>. QED
  BY <1>1, <1>2 DEF CanCall

LEMMA EnteredOpen ==
    ASSUME Base, NEW b \in Blocks, CanCall(b)
    PROVE  Entered(b) \in Txn /\ Entered(b).status = "open"
  BY EnteredType DEF Base, CanCall, Entered, Blank

LEMMA StartDelivers ==
    ASSUME Base, AllDelivered, NEW b \in Blocks, NEW c0 \in Call \cup {None}, Start(b, c0),
           c0 # None => c0.next = 1
    PROVE  AllDelivered'
<1>. DEFINE c == [Present(b) EXCEPT !.call = c0]
<1>1. Present(b) \in Client
  BY PresentType DEF Base
<1>2. c \in Client /\ c.call = c0 /\ c.told = Present(b).told /\ c.ended = Present(b).ended
  BY <1>1 DEF Client
<1>. HIDE DEF c
<1>3. txn'[b] = Entered(b) /\ client'[b] = c
  BY DEF Start, Base, TypeOK, c
<1>4. Delivered(rows, Entered(b), c)
  BY <1>2, FreshCall, EnteredOpen DEF Start
<1>. QED
  BY <1>3, <1>4, OneBlock DEF Start, Base, TypeOK

\* A block whose transaction has failed owes its caller nothing.
LEMMA FailedDelivers ==
    ASSUME Base, AllDelivered, NEW b \in Blocks, NEW c \in Client,
           txn[b].status # "idle" => c.ended = client[b].ended,
           txn[b].status = "idle" => c.ended = "none",
           c.call = None, UNCHANGED rows,
           txn' = [txn EXCEPT ![b] = Failed], client' = [client EXCEPT ![b] = c]
    PROVE  AllDelivered'
<1>1. c.ended = "none"
  BY DEF AllDelivered, Delivered, Base, TypeOK, Txn
<1>2. Delivered(rows, Failed, c)
  BY <1>1 DEF Delivered, Failed, Blank
<1>. QED
  BY <1>2, OneBlock DEF Base, TypeOK

LEMMA WriteDelivers ==
    ASSUME Base, AllDelivered, NEW b \in Blocks, Write(b)
    PROVE  AllDelivered'
<1>1. PICK t \in Tables, batch \in Batches :
        \/ WriteActuals(b, t, batch)
        \/ WritePredictors(b, t, batch)
        \/ \E available \in Claims, ordered \in BOOLEAN :
              WriteForecast(b, t, batch, available, ordered)
  BY DEF Write
<1>2. NewCall(t, None, batch) \in Call /\ NewCall(t, None, batch).next = 1
  BY NewCallType, InputsAssumption DEF Base, NewCall
<1>3. CASE WriteActuals(b, t, batch) \/ WritePredictors(b, t, batch)
  BY <1>2, <1>3, StartDelivers DEF WriteActuals, WritePredictors
<1>4. ASSUME NEW available \in Claims, NEW ordered \in BOOLEAN,
             WriteForecast(b, t, batch, available, ordered)
      PROVE  AllDelivered'
  <2>1. CASE Start(b, None)
    BY <2>1, StartDelivers
  <2>2. CASE CanCall(b) /\ InsertRun(b, t, batch, available) /\ UNCHANGED <<clock, rows, runs>>
    <3>. DEFINE stamped == [i \in DOMAIN batch |-> [batch[i] EXCEPT !.claim = available]]
                run(id) == [id |-> id, available |-> available, recorded |-> Entered(b).began]
    <3>1. PICK id \in RunIds \ UsedIds :
            /\ txn' = [txn EXCEPT ![b] = [Entered(b) EXCEPT !.runs = @ \cup {run(id)}]]
            /\ client' = [client EXCEPT ![b] =
                             [Present(b) EXCEPT !.call = NewCall(t, id, stamped)]]
      BY <2>2 DEF InsertRun
    <3>. DEFINE u == run(id)
                d == [Present(b) EXCEPT !.call = NewCall(t, id, stamped)]
                tx == [Entered(b) EXCEPT !.runs = @ \cup {u}]
    <3>2. NewCall(t, id, stamped) \in Call /\ NewCall(t, id, stamped).next = 1
      BY StampedType, NewCallType, InputsAssumption DEF Base, NewCall
    <3>3. u \in Run
      BY EnteredType, InputsAssumption DEF Run, Txn, Base
    <3>4. Entered(b) \in Txn /\ Entered(b).status = "open" /\ Present(b) \in Client
      BY <2>2, EnteredOpen, PresentType DEF Base
    <3>. HIDE DEF run, stamped, u
    <3>5. /\ tx \in Txn /\ tx.status = "open" /\ tx.rows = Entered(b).rows
          /\ tx.began = Entered(b).began
      BY <3>3, <3>4 DEF Txn
    <3>6. /\ d \in Client /\ d.told = Present(b).told /\ d.ended = Present(b).ended
          /\ d.call.next = 1
      BY <3>2, <3>4 DEF Client
    <3>7. txn'[b] = tx /\ client'[b] = d
      BY <3>1 DEF Base, TypeOK, u
    <3>. HIDE DEF tx, d
    <3>8. Delivered(rows, tx, d)
      BY <2>2, <3>5, <3>6, FreshCall
    <3>. QED
      BY <2>2, <3>1, <3>7, <3>8, OneBlock DEF Base, TypeOK
  <2>3. CASE /\ CanCall(b) /\ txn' = [txn EXCEPT ![b] = Failed]
             /\ client' = [client EXCEPT ![b] = Present(b)]
             /\ UNCHANGED <<clock, rows, runs>>
    <3>1. Present(b) \in Client /\ Present(b).call = None
      BY <2>3, PresentType DEF Base
    <3>2. /\ txn[b].status # "idle" => Present(b).ended = client[b].ended
          /\ txn[b].status = "idle" => Present(b).ended = "none"
      BY DEF Present, NewClient
    <3>. QED
      BY <2>3, <3>1, <3>2, FailedDelivers
  <2>. QED
    BY <1>4, <2>1, <2>2, <2>3 DEF WriteForecast
<1>. QED
  BY <1>1, <1>3, <1>4

LEMMA RaiseDelivers ==
    ASSUME Base, AllDelivered, NEW b \in Blocks, Raise(b), UNCHANGED rows,
           client[b].call # None
    PROVE  AllDelivered'
<1>. DEFINE c == [client[b] EXCEPT !.call = None]
<1>1. c \in Client /\ c.call = None /\ c.ended = client[b].ended
  BY DEF Base, TypeOK, Client
<1>2. client' = [client EXCEPT ![b] = c] /\ txn[b].status = "open"
  BY DEF Raise, Base, CallInTransaction
<1>. HIDE DEF c
<1>. QED
  BY <1>1, <1>2, FailedDelivers DEF Raise

\* The next point has been sent: its row is there, whether inserted or found.
LEMMA AdvanceDelivers ==
    ASSUME Base, AllDelivered, NEW b \in Blocks, Executing(b), Advance(b), UNCHANGED rows,
           NEW t \in Txn, txn' = [txn EXCEPT ![b] = t],
           t.status = txn[b].status, t.began = txn[b].began, txn[b].rows \subseteq t.rows,
           \E r \in rows \cup t.rows :
              /\ Key(r) = Key(Current(b))
              /\ r.table \in SingleBelief \cup Logs => r.value = Current(b).value
    PROVE  AllDelivered'
<1>. DEFINE old == client[b].call
            new == [old EXCEPT !.next = @ + 1]
            c == [client[b] EXCEPT !.call = new]
<1>1. /\ client[b] \in Client /\ old \in Call /\ old # None
      /\ old.next \in DOMAIN old.batch /\ txn[b].status = "open"
  BY DEF Base, TypeOK, Client, Executing, Call, CallInTransaction
<1>2. /\ new.next = old.next + 1 /\ new.batch = old.batch /\ new.table = old.table
      /\ new.run = old.run /\ new.asked = old.asked /\ new \in Call
  BY <1>1 DEF Call
<1>3. c.call = new /\ c.told = client[b].told /\ c.ended = client[b].ended
  BY <1>1 DEF Client
<1>4. client'[b] = c /\ txn'[b] = t
  BY DEF Advance, Base, TypeOK
<1>. HIDE DEF old, new, c
<1>5. \A i : Ack(t, new, i) = Ack(txn[b], old, i)
  BY <1>2 DEF Ack
<1>6. /\ Ack(txn[b], old, old.next).key = Key(Current(b))
      /\ Ack(txn[b], old, old.next).value = Current(b).value
  BY DEF Ack, Current, Offered, old
<1>7. HoldsIn(rows \cup t.rows, Ack(t, new, old.next))
  BY <1>5, <1>6 DEF HoldsIn
<1>8. \A x : HoldsIn(rows \cup txn[b].rows, x) => HoldsIn(rows \cup t.rows, x)
  BY DEF HoldsIn
<1>9. Delivered(rows, txn[b], client[b])
  BY DEF AllDelivered
<1>10. \A i \in DOMAIN new.batch : i < new.next => HoldsIn(rows \cup t.rows, Ack(t, new, i))
  <2>1. SUFFICES ASSUME NEW i \in DOMAIN old.batch, i < old.next + 1
                 PROVE  HoldsIn(rows \cup t.rows, Ack(t, new, i))
    BY <1>2
  <2>2. i \in Nat /\ old.next \in Nat
    BY <1>1 DEF Call
  <2>3. CASE i = old.next
    BY <1>7, <2>3
  <2>4. CASE i < old.next
    BY <1>1, <1>5, <1>8, <1>9, <2>1, <2>4 DEF Delivered, old
  <2>. QED
    BY <2>1, <2>2, <2>3, <2>4
<1>11. Delivered(rows, t, c)
  BY <1>1, <1>3, <1>8, <1>9, <1>10 DEF Delivered
<1>. QED
  BY <1>4, <1>11, OneBlock DEF Advance, Base, TypeOK

LEMMA StatementDelivers ==
    ASSUME Base, AllDelivered, NEW b \in Blocks, Statement(b)
    PROVE  AllDelivered'
<1>1. Executing(b) /\ UNCHANGED rows /\ client[b].call # None /\ txn[b] \in Txn
  BY DEF Statement, InsertRow, SkipRow, Redeliver, Conflict, DuplicateTarget, Reached, Executing,
         Base, TypeOK
<1>2. Current(b) \in Row /\ Key(Current(b)) \in Keys
  BY <1>1, CurrentType DEF Base
<1>3. CASE InsertRow(b)
  <2>. DEFINE t == [txn[b] EXCEPT !.rows = @ \cup {Current(b)},
                                  !.locks = @ \cup {Key(Current(b))}]
  <2>1. /\ t \in Txn /\ t.status = txn[b].status /\ t.began = txn[b].began
        /\ t.rows = txn[b].rows \cup {Current(b)}
    BY <1>1, <1>2 DEF Txn
  <2>2. txn' = [txn EXCEPT ![b] = t]
    BY <1>1, <1>3 DEF InsertRow, Base, TypeOK, Txn
  <2>. HIDE DEF t
  <2>. QED
    BY <1>1, <1>3, <2>1, <2>2, AdvanceDelivers DEF InsertRow
<1>4. CASE SkipRow(b)
  <2>1. PICK r \in rows \cup txn[b].rows : Key(r) = Key(Current(b))
    BY <1>4 DEF SkipRow, Existing
  <2>2. r.table = Current(b).table
    BY <2>1 DEF Key
  <2>3. r.table \notin SingleBelief \cup Logs
    BY <1>4, <2>2, RolesAssumption DEF SkipRow
  <2>4. txn' = [txn EXCEPT ![b] = txn[b]]
    BY <1>4 DEF SkipRow, Base, TypeOK
  <2>. QED
    BY <1>1, <1>4, <2>1, <2>3, <2>4, AdvanceDelivers DEF SkipRow
<1>5. CASE Redeliver(b)
  <2>1. PICK r \in rows \cup txn[b].rows :
          Key(r) = Key(Current(b)) /\ r.value = Current(b).value
    BY <1>5 DEF Redeliver, Existing, SameBelief
  <2>. DEFINE t == [txn[b] EXCEPT !.locks = @ \cup {Key(Current(b))}]
  <2>2. t \in Txn /\ t.status = txn[b].status /\ t.began = txn[b].began /\ t.rows = txn[b].rows
    BY <1>1, <1>2 DEF Txn
  <2>3. txn' = [txn EXCEPT ![b] = t]
    BY <1>1, <1>5 DEF Redeliver, Base, TypeOK, Txn
  <2>. HIDE DEF t
  <2>4. \E k \in rows \cup t.rows :
          /\ Key(k) = Key(Current(b))
          /\ k.table \in SingleBelief \cup Logs => k.value = Current(b).value
    BY <2>1, <2>2
  <2>5. Advance(b) /\ txn[b].rows \subseteq t.rows
    BY <1>5, <2>2 DEF Redeliver
  <2>. QED
    BY <1>1, <2>2, <2>3, <2>4, <2>5, AdvanceDelivers
<1>6. CASE Conflict(b) \/ DuplicateTarget(b)
  BY <1>1, <1>6, RaiseDelivers DEF Conflict, DuplicateTarget
<1>. QED
  BY <1>3, <1>4, <1>5, <1>6 DEF Statement

LEMMA ReturnDelivers ==
    ASSUME Base, AllDelivered, NEW b \in Blocks, Return(b)
    PROVE  AllDelivered'
<1>. DEFINE call == client[b].call
            c == [client[b] EXCEPT !.call = None, !.told = @ \cup Acknowledged(b)]
<1>1. client[b] \in Client /\ call \in Call /\ call # None /\ txn[b].status = "open"
  BY DEF Return, Base, TypeOK, Client, CallInTransaction
<1>2. \A i \in DOMAIN call.batch : i < call.next
  BY <1>1 DEF Return, Executing, Call
<1>3. Acknowledged(b) = {Ack(txn[b], call, i) : i \in DOMAIN call.batch}
  BY DEF Acknowledged, Ack, Offered
<1>4. c.call = None /\ c.told = client[b].told \cup Acknowledged(b) /\ c.ended = client[b].ended
  BY <1>1 DEF Client
<1>5. client'[b] = c
  BY DEF Return, Base, TypeOK
<1>. HIDE DEF c
<1>6. Delivered(rows, txn[b], client[b])
  BY DEF AllDelivered
<1>7. Delivered(rows, txn[b], c)
  BY <1>1, <1>2, <1>3, <1>4, <1>6 DEF Delivered
<1>. QED
  BY <1>5, <1>7, OneBlock DEF Return, Base, TypeOK

\* The block ends; it may have been committed first.
LEMMA EndDelivers ==
    ASSUME Base, AllDelivered, NEW b \in Blocks,
           NEW how \in {"committed", "discarded", "raised"}, EndBlock(b, how),
           how = "committed" => Commits(b), rows \subseteq rows'
    PROVE  AllDelivered'
<1>. DEFINE c == [client[b] EXCEPT !.call = None, !.ended = how]
<1>1. c.call = None /\ c.told = client[b].told /\ c.ended = how
  BY DEF Base, TypeOK, Client
<1>2. client'[b] = c /\ txn'[b] = Idle /\ Idle.status = "idle"
  BY DEF EndBlock, Base, TypeOK, Idle, Blank
<1>. HIDE DEF c
<1>3. how = "committed" => \A x \in c.told : HoldsIn(rows', x)
  BY <1>1 DEF AllDelivered, Delivered, Commits, Publish
<1>4. Delivered(rows', Idle, c)
  BY <1>1, <1>2, <1>3 DEF Delivered
<1>. QED
  BY <1>2, <1>4, OneBlock DEF EndBlock, Base, TypeOK

LEMMA DeliveredStep == Base /\ AllDelivered /\ [Next]_vars => AllDelivered'
<1>. SUFFICES ASSUME Base, AllDelivered, [Next]_vars PROVE AllDelivered'
  OBVIOUS
<1>1. CASE Tick \/ UNCHANGED vars
  <2>1. SUFFICES ASSUME NEW a \in Blocks PROVE Delivered(rows', txn'[a], client'[a])
    BY DEF AllDelivered, Delivered, HoldsIn, Ack, Key, Version
  <2>. QED
    BY <1>1 DEF Tick, vars, AllDelivered
<1>2. ASSUME NEW b \in Blocks, Read(b) PROVE AllDelivered'
  BY <1>2, StartDelivers DEF Read
<1>3. ASSUME NEW b \in Blocks, ClientFault(b) PROVE AllDelivered'
  <2>. DEFINE c == [client[b] EXCEPT !.call = None]
  <2>1. c.call = None /\ c.told = client[b].told /\ c.ended = client[b].ended
    BY DEF Base, TypeOK, Client
  <2>2. client'[b] = c
    BY <1>3 DEF ClientFault, Base, TypeOK
  <2>. HIDE DEF c
  <2>3. Delivered(rows, txn[b], c)
    BY <2>1 DEF AllDelivered, Delivered
  <2>. QED
    BY <1>3, <2>2, <2>3, OneBlock DEF ClientFault, Base, TypeOK
<1>4. ASSUME NEW b \in Blocks, DeadlockVictim(b) PROVE AllDelivered'
  <2>1. client[b].call # None
    BY <1>4 DEF DeadlockVictim, Deadlocked, WaitsFor, Executing
  <2>. QED
    BY <1>4, <2>1, RaiseDelivers DEF DeadlockVictim
<1>5. ASSUME NEW b \in Blocks, Leave(b) \/ LoseCommitReply(b) \/ Abandon(b) PROVE AllDelivered'
  <2>1. CASE Leave(b)
    BY <2>1, EndDelivers DEF Leave, Commits, Publish, EndBlock
  <2>2. CASE LoseCommitReply(b)
    BY <2>2, EndDelivers DEF LoseCommitReply, Publish
  <2>3. CASE Abandon(b)
    BY <2>3, EndDelivers DEF Abandon
  <2>. QED
    BY <1>5, <2>1, <2>2, <2>3
<1>. QED
  BY <1>1, <1>2, <1>3, <1>4, <1>5, WriteDelivers, StatementDelivers, ReturnDelivers DEF Next

\* Leaving a block whose transaction was not aborted stores what its calls were
\* told, whatever other blocks did.
THEOREM AcknowledgedIsStored == Spec => []AcknowledgedStored
<1>1. Init => AllDelivered
  BY DEF Init, AllDelivered, Delivered, NewClient, Idle, Blank
<1>2. AllDelivered => AcknowledgedStored
  BY DEF AllDelivered, Delivered, AcknowledgedStored, Holds, HoldsIn
<1>. QED
  BY <1>1, <1>2, DeliveredStep, InvariantsHold, PTL DEF Spec, Base

-----------------------------------------------------------------------------
(* Run ids are used once.                                                   *)

\* A run row is committed or held by one open block, and its id is its own.
RunsOnce ==
    /\ \A u, v \in runs : u.id = v.id => u = v
    /\ \A a, b \in Blocks : \A u \in runs \cup txn[a].runs, v \in runs \cup txn[b].runs :
          u.id = v.id => u = v
    /\ \A a \in Blocks : runs \cap txn[a].runs = {}
    /\ \A a, b \in Blocks : a # b => txn[a].runs \cap txn[b].runs = {}

\* A transaction is left as it was, with new runs at most, or emptied.
LEMMA OnlyTxnRuns ==
    ASSUME TypeOK, RunsOnce, NEW b \in Blocks, NEW t, OnlyTxn(b, t),
           NEW U, t.runs \subseteq txn[b].runs \cup U,
           \A u \in U : u.id \notin UsedIds, \A u, v \in U : u = v
    PROVE  RunsOnce'
<1>1. runs' = runs /\ \A a \in Blocks : txn'[a].runs = IF a = b THEN t.runs ELSE txn[a].runs
  BY DEF OnlyTxn, TypeOK
<1>2. \A u \in U, a \in Blocks : \A v \in runs \cup txn[a].runs : u.id # v.id /\ u # v
  BY DEF UsedIds
<1>3. \A a, o \in Blocks : \A u \in runs' \cup txn'[a].runs, v \in runs' \cup txn'[o].runs :
        u.id = v.id => u = v
  <2>1. SUFFICES ASSUME NEW a \in Blocks, NEW o \in Blocks,
                        NEW u \in runs' \cup txn'[a].runs, NEW v \in runs' \cup txn'[o].runs,
                        u.id = v.id
                 PROVE  u = v
    OBVIOUS
  <2>2. u \in runs \cup txn[a].runs \/ u \in U
    BY <1>1
  <2>3. v \in runs \cup txn[o].runs \/ v \in U
    BY <1>1
  <2>. QED
    BY <1>2, <2>1, <2>2, <2>3 DEF RunsOnce
<1>4. \A a \in Blocks : runs' \cap txn'[a].runs = {}
  BY <1>1, <1>2 DEF RunsOnce
<1>5. \A a, o \in Blocks : a # o => txn'[a].runs \cap txn'[o].runs = {}
  BY <1>1, <1>2 DEF RunsOnce
<1>. QED
  BY <1>1, <1>3, <1>4, <1>5 DEF RunsOnce

LEMMA NoNewRuns ==
    ASSUME TypeOK, RunsOnce, NEW b \in Blocks, NEW t, OnlyTxn(b, t), t.runs \subseteq txn[b].runs
    PROVE  RunsOnce'
<1>. DEFINE U == {}
<1>1. /\ t.runs \subseteq txn[b].runs \cup U
      /\ \A u \in U : u.id \notin UsedIds
      /\ \A u, v \in U : u = v
  OBVIOUS
<1>. HIDE DEF U
<1>. QED
  BY <1>1, OnlyTxnRuns

LEMMA RunsOnceStep == TypeOK /\ RunsOnce /\ [Next]_vars => RunsOnce'
<1>. SUFFICES ASSUME TypeOK, RunsOnce, ServerStep PROVE RunsOnce'
  BY StepEffect
<1>1. CASE UNCHANGED <<rows, runs, txn>>
  BY <1>1 DEF RunsOnce
<1>2. ASSUME NEW b \in Blocks, OnlyTxn(b, Idle) \/ OnlyTxn(b, Failed) PROVE RunsOnce'
  <2>1. Idle.runs = {} /\ Failed.runs = {}
    BY DEF Idle, Failed, Blank
  <2>. QED
    BY <1>2, <2>1, NoNewRuns
<1>3. ASSUME NEW b \in Blocks, NEW U \in SUBSET Run, Begins(b, U) PROVE RunsOnce'
  <2>. DEFINE t == [Entered(b) EXCEPT !.runs = @ \cup U]
  <2>1. t.runs = Entered(b).runs \cup U
    BY EnteredType DEF Txn
  <2>2. Entered(b).runs \subseteq txn[b].runs
    BY DEF Entered, Blank
  <2>3. OnlyTxn(b, t)
    BY <1>3 DEF Begins
  <2>. HIDE DEF t
  <2>. QED
    BY <1>3, <2>1, <2>2, <2>3, OnlyTxnRuns DEF Begins
<1>4. ASSUME NEW b \in Blocks, Inserts(b) PROVE RunsOnce'
  <2>. DEFINE t == [txn[b] EXCEPT !.rows = @ \cup {Current(b)},
                                  !.locks = @ \cup {Key(Current(b))}]
  <2>1. t.runs \subseteq txn[b].runs
    BY DEF TypeOK, Txn
  <2>2. OnlyTxn(b, t)
    BY <1>4 DEF Inserts
  <2>. HIDE DEF t
  <2>. QED
    BY <2>1, <2>2, NoNewRuns
<1>5. ASSUME NEW b \in Blocks, Locks(b) PROVE RunsOnce'
  <2>. DEFINE t == [txn[b] EXCEPT !.locks = @ \cup {Key(Current(b))}]
  <2>1. t.runs \subseteq txn[b].runs
    BY DEF TypeOK, Txn
  <2>2. OnlyTxn(b, t)
    BY <1>5 DEF Locks
  <2>. HIDE DEF t
  <2>. QED
    BY <2>1, <2>2, NoNewRuns
<1>6. ASSUME NEW b \in Blocks, Commits(b) PROVE RunsOnce'
  <2>1. /\ runs' = runs \cup txn[b].runs
        /\ \A a \in Blocks : txn'[a].runs = IF a = b THEN {} ELSE txn[a].runs
    BY <1>6 DEF Commits, Publish, TypeOK, Idle, Blank
  <2>. QED
    BY <2>1 DEF RunsOnce
<1>. QED
  BY <1>1, <1>2, <1>3, <1>4, <1>5, <1>6 DEF ServerStep

-----------------------------------------------------------------------------
(* The points of a forecast are tied to its run.                            *)

\* A log's row carries the clocks of a run of U; other rows carry no run.
RowLinked(U, r) ==
    IF r.table \in Logs
    THEN \E u \in U : u.id = r.run /\ u.available = r.available /\ u.recorded = r.recorded
    ELSE r.run = None

\* A forecast call's run is in its transaction, and its points take the run's
\* knowledge time.
CallLinked(t, call) ==
    IF call.table \in Logs
    THEN \E u \in t.runs : /\ u.id = call.run /\ u.recorded = t.began
                           /\ \A i \in DOMAIN call.batch : call.batch[i].claim = u.available
    ELSE call.run = None

Linked(t, c) ==
    /\ \A r \in t.rows : RowLinked(t.runs, r)
    /\ c.call # None => CallLinked(t, c.call)

AllLinked ==
    /\ \A r \in rows : RowLinked(runs, r)
    /\ \A b \in Blocks : Linked(txn[b], client[b])

\* A block changes its own transaction and client, not the tables.
LEMMA OneBlockLinked ==
    ASSUME AllLinked, NEW b \in Blocks, UNCHANGED <<rows, runs>>,
           \A a \in Blocks \ {b} : txn'[a] = txn[a] /\ client'[a] = client[a],
           Linked(txn'[b], client'[b])
    PROVE  AllLinked'
<1>1. SUFFICES /\ \A r \in rows' : RowLinked(runs', r)
               /\ \A a \in Blocks : Linked(txn'[a], client'[a])
  BY DEF AllLinked, Linked, RowLinked, CallLinked
<1>2. \A r \in rows' : RowLinked(runs', r)
  BY DEF AllLinked
<1>. QED
  BY <1>2 DEF AllLinked

LEMMA EnteredLinked ==
    ASSUME AllLinked, NEW b \in Blocks, NEW U
    PROVE  \A r \in Entered(b).rows : RowLinked(Entered(b).runs \cup U, r)
<1>1. CASE txn[b].status = "idle"
  BY <1>1 DEF Entered, Blank
<1>2. CASE txn[b].status # "idle"
  BY <1>2 DEF Entered, AllLinked, Linked, RowLinked
<1>. QED
  BY <1>1, <1>2

LEMMA StartLinks ==
    ASSUME Base, AllLinked, NEW b \in Blocks, NEW c0 \in Call \cup {None}, Start(b, c0),
           c0 # None => c0.table \notin Logs /\ c0.run = None
    PROVE  AllLinked'
<1>1. Present(b) \in Client
  BY PresentType DEF Base
<1>2. /\ txn'[b] = Entered(b) /\ client'[b].call = c0
      /\ \A a \in Blocks \ {b} : txn'[a] = txn[a] /\ client'[a] = client[a]
  BY <1>1 DEF Start, Base, TypeOK, Client
<1>3. \A r \in Entered(b).rows : RowLinked(Entered(b).runs \cup {}, r)
  BY EnteredLinked
<1>4. Linked(txn'[b], client'[b])
  BY <1>2, <1>3 DEF Linked, CallLinked
<1>. QED
  BY <1>2, <1>4, OneBlockLinked DEF Start

LEMMA WriteLinks ==
    ASSUME Base, AllLinked, NEW b \in Blocks, Write(b)
    PROVE  AllLinked'
<1>1. PICK t \in Tables, batch \in Batches :
        \/ WriteActuals(b, t, batch)
        \/ WritePredictors(b, t, batch)
        \/ \E available \in Claims, ordered \in BOOLEAN :
              WriteForecast(b, t, batch, available, ordered)
  BY DEF Write
<1>2. NewCall(t, None, batch) \in Call /\ NewCall(t, None, batch).run = None
      /\ NewCall(t, None, batch).table = t
  BY NewCallType, InputsAssumption DEF Base, NewCall
<1>3. CASE WriteActuals(b, t, batch) \/ WritePredictors(b, t, batch)
  <2>1. t \in Actuals \cup Predictors => t \notin Logs
    BY RolesAssumption DEF Actuals
  <2>. QED
    BY <1>2, <1>3, <2>1, StartLinks DEF WriteActuals, WritePredictors
<1>4. ASSUME NEW available \in Claims, NEW ordered \in BOOLEAN,
             WriteForecast(b, t, batch, available, ordered)
      PROVE  AllLinked'
  <2>1. CASE Start(b, None)
    BY <2>1, StartLinks
  <2>2. CASE /\ CanCall(b) /\ InsertRun(b, t, batch, available) /\ t \in Logs
             /\ UNCHANGED <<clock, rows, runs>>
    <3>. DEFINE stamped == [i \in DOMAIN batch |-> [batch[i] EXCEPT !.claim = available]]
                run(id) == [id |-> id, available |-> available, recorded |-> Entered(b).began]
    <3>1. PICK id \in RunIds \ UsedIds :
            /\ txn' = [txn EXCEPT ![b] = [Entered(b) EXCEPT !.runs = @ \cup {run(id)}]]
            /\ client' = [client EXCEPT ![b] =
                             [Present(b) EXCEPT !.call = NewCall(t, id, stamped)]]
      BY <2>2 DEF InsertRun
    <3>. DEFINE u == run(id)
                call == NewCall(t, id, stamped)
    <3>2. \A i \in DOMAIN stamped : stamped[i].claim = available
      <4>1. \A i \in DOMAIN batch : batch[i] \in Point
        BY InputsAssumption
      <4>. QED
        BY <4>1 DEF Point
    <3>3. /\ call.table = t /\ call.run = id /\ call.batch = stamped
          /\ u.id = id /\ u.available = available /\ u.recorded = Entered(b).began
      BY DEF NewCall
    <3>4. Entered(b) \in Txn /\ Present(b) \in Client
      BY EnteredType, PresentType DEF Base
    <3>. HIDE DEF u, call, run
    <3>5. /\ txn'[b].rows = Entered(b).rows /\ txn'[b].runs = Entered(b).runs \cup {u}
          /\ txn'[b].began = Entered(b).began /\ client'[b].call = call
          /\ \A a \in Blocks \ {b} : txn'[a] = txn[a] /\ client'[a] = client[a]
      BY <3>1, <3>4 DEF Base, TypeOK, Txn, Client, u, call
    <3>6. CallLinked(txn'[b], call)
      BY <2>2, <3>2, <3>3, <3>5 DEF CallLinked
    <3>7. Linked(txn'[b], client'[b])
      BY <3>5, <3>6, EnteredLinked DEF Linked
    <3>. QED
      BY <2>2, <3>5, <3>7, OneBlockLinked
  <2>3. CASE /\ CanCall(b) /\ txn' = [txn EXCEPT ![b] = Failed]
             /\ client' = [client EXCEPT ![b] = Present(b)]
             /\ UNCHANGED <<clock, rows, runs>>
    <3>1. Present(b).call = None
      BY <2>3, PresentType DEF Base
    <3>2. Linked(Failed, Present(b))
      BY <3>1 DEF Linked, Failed, Blank
    <3>. QED
      BY <2>3, <3>2, OneBlockLinked DEF Base, TypeOK
  <2>. QED
    BY <1>4, <2>1, <2>2, <2>3 DEF WriteForecast, AcceptsForecast
<1>. QED
  BY <1>1, <1>3, <1>4

\* No call in progress any more, and the transaction kept or emptied.
LEMMA CallEndLinks ==
    ASSUME Base, AllLinked, NEW b \in Blocks, UNCHANGED <<rows, runs>>,
           \A a \in Blocks \ {b} : txn'[a] = txn[a] /\ client'[a] = client[a],
           client'[b].call = None, txn'[b] \in {txn[b], Idle, Failed}
    PROVE  AllLinked'
<1>1. Linked(txn'[b], client'[b])
  BY DEF Linked, AllLinked, Idle, Failed, Blank
<1>. QED
  BY <1>1, OneBlockLinked

LEMMA RaiseLinks ==
    ASSUME Base, AllLinked, NEW b \in Blocks, Raise(b), UNCHANGED <<rows, runs>>
    PROVE  AllLinked'
<1>1. /\ \A a \in Blocks \ {b} : txn'[a] = txn[a] /\ client'[a] = client[a]
      /\ client'[b].call = None /\ txn'[b] = Failed
  BY DEF Raise, Base, TypeOK, Client
<1>. QED
  BY <1>1, CallEndLinks

\* The next point: the call keeps its run, and a row it inserts is of that run.
LEMMA AdvanceLinks ==
    ASSUME Base, AllLinked, NEW b \in Blocks, Executing(b), Advance(b),
           UNCHANGED <<rows, runs>>, NEW t, txn' = [txn EXCEPT ![b] = t],
           t.began = txn[b].began, t.runs = txn[b].runs,
           t.rows \subseteq txn[b].rows \cup {Current(b)}
    PROVE  AllLinked'
<1>1. /\ client[b] \in Client /\ client[b].call \in Call
      /\ client[b].call.next \in DOMAIN client[b].call.batch
  BY DEF Base, TypeOK, Client, Executing, Call
<1>2. /\ client'[b].call.table = client[b].call.table /\ client'[b].call.run = client[b].call.run
      /\ client'[b].call.batch = client[b].call.batch
      /\ \A a \in Blocks \ {b} : txn'[a] = txn[a] /\ client'[a] = client[a]
      /\ txn'[b] = t
  BY <1>1 DEF Advance, Base, TypeOK, Client, Call
<1>3. CallLinked(txn[b], client[b].call) /\ \A r \in txn[b].rows : RowLinked(txn[b].runs, r)
  BY DEF AllLinked, Linked, Executing
<1>4. RowLinked(t.runs, Current(b))
  <2>1. /\ Current(b).table = client[b].call.table /\ Current(b).run = client[b].call.run
        /\ Current(b).recorded = txn[b].began
    BY DEF Current, Offered
  <2>2. CASE client[b].call.table \in Logs
    <3>1. PICK u \in txn[b].runs :
            /\ u.id = client[b].call.run /\ u.recorded = txn[b].began
            /\ \A i \in DOMAIN client[b].call.batch : client[b].call.batch[i].claim = u.available
      BY <1>3, <2>2 DEF CallLinked
    <3>2. u.available # None
      BY NoneAssumption DEF Base, TypeOK, Txn, Run
    <3>3. Current(b).available = u.available
      BY <1>1, <3>1, <3>2 DEF Current, Offered
    <3>. QED
      BY <2>1, <2>2, <3>1, <3>3 DEF RowLinked
  <2>3. CASE client[b].call.table \notin Logs
    BY <1>3, <2>1, <2>3 DEF CallLinked, RowLinked
  <2>. QED
    BY <2>2, <2>3
<1>5. \A r \in t.rows : RowLinked(t.runs, r)
  BY <1>3, <1>4
<1>6. CallLinked(t, client'[b].call)
  BY <1>2, <1>3 DEF CallLinked
<1>. QED
  BY <1>2, <1>5, <1>6, OneBlockLinked DEF Linked

LEMMA StatementLinks ==
    ASSUME Base, AllLinked, NEW b \in Blocks, Statement(b)
    PROVE  AllLinked'
<1>1. Executing(b) /\ UNCHANGED <<rows, runs>> /\ txn[b] \in Txn
  BY DEF Statement, InsertRow, SkipRow, Redeliver, Conflict, DuplicateTarget, Reached, Base, TypeOK
<1>2. CASE InsertRow(b)
  <2>. DEFINE t == [txn[b] EXCEPT !.rows = @ \cup {Current(b)},
                                  !.locks = @ \cup {Key(Current(b))}]
  <2>1. /\ t.began = txn[b].began /\ t.runs = txn[b].runs
        /\ t.rows = txn[b].rows \cup {Current(b)}
    BY <1>1 DEF Txn
  <2>2. txn' = [txn EXCEPT ![b] = t]
    BY <1>1, <1>2 DEF InsertRow, Base, TypeOK, Txn
  <2>. HIDE DEF t
  <2>. QED
    BY <1>1, <1>2, <2>1, <2>2, AdvanceLinks DEF InsertRow
<1>3. CASE SkipRow(b)
  <2>1. txn' = [txn EXCEPT ![b] = txn[b]]
    BY <1>3 DEF SkipRow, Base, TypeOK
  <2>. QED
    BY <1>1, <1>3, <2>1, AdvanceLinks DEF SkipRow
<1>4. CASE Redeliver(b)
  <2>. DEFINE t == [txn[b] EXCEPT !.locks = @ \cup {Key(Current(b))}]
  <2>1. t.began = txn[b].began /\ t.rows = txn[b].rows /\ t.runs = txn[b].runs
    BY <1>1 DEF Txn
  <2>2. txn' = [txn EXCEPT ![b] = t]
    BY <1>1, <1>4 DEF Redeliver, Base, TypeOK, Txn
  <2>. HIDE DEF t
  <2>. QED
    BY <1>1, <1>4, <2>1, <2>2, AdvanceLinks DEF Redeliver
<1>5. CASE Conflict(b) \/ DuplicateTarget(b)
  BY <1>1, <1>5, RaiseLinks DEF Conflict, DuplicateTarget
<1>. QED
  BY <1>2, <1>3, <1>4, <1>5 DEF Statement

\* Rows and runs of a transaction are committed together.
LEMMA CommitLinks ==
    ASSUME Base, AllLinked, NEW b \in Blocks, Commits(b), EndBlock(b, client'[b].ended)
    PROVE  AllLinked'
<1>1. /\ rows' = rows \cup txn[b].rows /\ runs' = runs \cup txn[b].runs
      /\ txn'[b] = Idle /\ client'[b].call = None
      /\ \A a \in Blocks \ {b} : txn'[a] = txn[a] /\ client'[a] = client[a]
  BY DEF Commits, Publish, EndBlock, Base, TypeOK, Client
<1>2. \A r \in rows' : RowLinked(runs', r)
  BY <1>1 DEF AllLinked, Linked, RowLinked
<1>3. \A a \in Blocks : Linked(txn'[a], client'[a])
  BY <1>1 DEF AllLinked, Linked, Idle, Blank
<1>. QED
  BY <1>2, <1>3 DEF AllLinked, Linked, RowLinked, CallLinked

LEMMA LinkedStep == Base /\ AllLinked /\ [Next]_vars => AllLinked'
<1>. SUFFICES ASSUME Base, AllLinked, [Next]_vars PROVE AllLinked'
  OBVIOUS
<1>1. CASE Tick \/ UNCHANGED vars
  <2>1. SUFFICES /\ \A r \in rows' : RowLinked(runs', r)
                 /\ \A a \in Blocks : Linked(txn'[a], client'[a])
    BY DEF AllLinked, Linked, RowLinked, CallLinked
  <2>. QED
    BY <1>1 DEF Tick, vars, AllLinked
<1>2. ASSUME NEW b \in Blocks, Read(b) PROVE AllLinked'
  BY <1>2, StartLinks DEF Read
<1>3. ASSUME NEW b \in Blocks, ClientFault(b) \/ Return(b) PROVE AllLinked'
  <2>1. /\ \A a \in Blocks \ {b} : txn'[a] = txn[a] /\ client'[a] = client[a]
        /\ client'[b].call = None /\ txn'[b] = txn[b] /\ UNCHANGED <<rows, runs>>
    BY <1>3 DEF ClientFault, Return, Base, TypeOK, Client
  <2>. QED
    BY <2>1, CallEndLinks
<1>4. ASSUME NEW b \in Blocks, DeadlockVictim(b) PROVE AllLinked'
  BY <1>4, RaiseLinks DEF DeadlockVictim
<1>5. ASSUME NEW b \in Blocks, NEW how, EndBlock(b, how), UNCHANGED <<rows, runs>>
      PROVE  AllLinked'
  <2>1. /\ \A a \in Blocks \ {b} : txn'[a] = txn[a] /\ client'[a] = client[a]
        /\ client'[b].call = None /\ txn'[b] = Idle
    BY <1>5 DEF EndBlock, Base, TypeOK, Client
  <2>. QED
    BY <1>5, <2>1, CallEndLinks
<1>6. ASSUME NEW b \in Blocks, NEW how, EndBlock(b, how), Publish(b), txn[b].status = "open"
      PROVE  AllLinked'
  <2>1. Commits(b) /\ client'[b].ended = how
    BY <1>6 DEF Commits, EndBlock, Base, TypeOK, Client
  <2>. QED
    BY <1>6, <2>1, CommitLinks
<1>7. ASSUME NEW b \in Blocks, Leave(b) \/ LoseCommitReply(b) \/ Abandon(b) PROVE AllLinked'
  BY <1>5, <1>6, <1>7 DEF Leave, LoseCommitReply, Abandon
<1>. QED
  BY <1>1, <1>2, <1>3, <1>4, <1>7, WriteLinks, StatementLinks DEF Next

-----------------------------------------------------------------------------
(* The results.                                                             *)

LEMMA LinksHold == Spec => [](RunsOnce /\ AllLinked)
<1>1. Init => RunsOnce /\ AllLinked
  BY DEF Init, RunsOnce, AllLinked, Linked, Idle, Blank, NewClient
<1>. QED
  BY <1>1, RunsOnceStep, LinkedStep, InvariantsHold, PTL DEF Spec, Base

\* A pin sees a run and all its points, or neither.
THEOREM RunsWhole == Spec => []RunNeverSplit
<1>1. TypeOK /\ RunsOnce /\ AllLinked => RunNeverSplit
  <2>1. SUFFICES ASSUME TypeOK, RunsOnce, AllLinked PROVE RunNeverSplit
    OBVIOUS
  <2>2. \A r \in rows : r.table \in Logs => \E u \in runs : u.id = r.run
    BY <2>1 DEF AllLinked, RowLinked
  <2>3. ASSUME NEW r \in rows, NEW u \in runs, r.run = u.id
        PROVE  r.available = u.available /\ r.recorded = u.recorded
    <3>1. r.run # None
      BY <2>1, <2>3, NoneAssumption DEF TypeOK, Run
    <3>. QED
      BY <2>1, <2>3, <3>1 DEF AllLinked, RowLinked, RunsOnce
  <2>. QED
    BY <2>2, <2>3 DEF RunNeverSplit, SeenRows, SeenRuns
<1>. QED
  BY <1>1, LinksHold, InvariantsHold, PTL

\* What a commit adds to the tables is one unit of work of the log.
LEMMA CommitIsUnit ==
    ASSUME TypeOK, Stamped, RunsOnce, AllLinked, UniqueIn(rows'), RunsOnce',
           NEW b \in Blocks, Commits(b)
    PROVE  Abstract!Commit
<1>1. rows' = rows \cup txn[b].rows /\ runs' = runs \cup txn[b].runs
  BY DEF Commits, Publish
<1>2. \A x \in (rows' \ rows) \cup (runs' \ runs) : x.recorded = txn[b].began
  BY <1>1 DEF Stamped
<1>3. \A x, y \in rows' : Abstract!Collide(x, y) => x = y
  <2>1. SUFFICES ASSUME NEW x \in rows', NEW y \in rows', Abstract!Collide(x, y)
                 PROVE  Key(x) = Key(y)
    BY DEF UniqueIn
  <2>2. x.table = y.table /\ x.target = y.target
    BY <2>1 DEF Abstract!Collide
  <2>3. Version(x) = Version(y)
    BY <2>1, RolesAssumption DEF Abstract!Collide, Version
  <2>. QED
    BY <2>2, <2>3 DEF Key
<1>4. \A r \in rows' \ rows : r.table \in Logs =>
        \E u \in runs' \ runs : u.id = r.run /\ u.available = r.available
  BY <1>1 DEF AllLinked, Linked, RowLinked, RunsOnce
<1>. QED
  BY <1>1, <1>2, <1>3, <1>4 DEF Abstract!Commit, RunsOnce

\* The tables implement the append-only log of beliefs.
THEOREM StoreIsLog == Spec => ImplementsLog
<1>1. Init => Abstract!Init
  BY DEF Init, Abstract!Init
<1>2. ASSUME TypeOK, Stamped, RunsOnce, AllLinked, KeysHeld', RunsOnce', [Next]_vars
      PROVE  [Abstract!Commit]_<<rows, runs>>
  <2>1. ServerStep
    BY <1>2, StepEffect
  <2>2. CASE UNCHANGED <<rows, runs>>
    BY <2>2
  <2>3. ASSUME NEW b \in Blocks, Commits(b) PROVE Abstract!Commit
    BY <1>2, <2>3, CommitIsUnit DEF KeysHeld, UniqueIn
  <2>. QED
    BY <2>1, <2>2, <2>3 DEF ServerStep, Begins, Inserts, Locks, OnlyTxn
<1>. QED
  BY <1>1, <1>2, LinksHold, InvariantsHold, KeysAlwaysHeld, PTL
     DEF Spec, ImplementsLog, Abstract!Spec
=============================================================================
