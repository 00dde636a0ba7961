----------------------------- MODULE ReadsProofs -----------------------------
(***************************************************************************)
(* Proofs about Reads, for any log and any windows: the three reads of a    *)
(* log agree, a gap holds the nearest earlier belief, what is known later   *)
(* is invisible, and an engine that cuts an export off for itself sees what *)
(* the window shows.                                                       *)
(***************************************************************************)
EXTENDS Reads, FiniteSetTheorems, WellFoundedInduction, TLAPS

(* Lemmas on numbers, and what locf computes.                              *)

\* A set of bounded numbers has a greatest.
LEMMA MaxOf ==
    ASSUME NEW n \in Nat, NEW S, S \subseteq 0 .. n, S # {}
    PROVE  Max(S) \in S /\ \A m \in S : m <= Max(S)
<1>. DEFINE Below == {n - m : m \in S}
<1>0. \A m \in S : m \in 0 .. n /\ n - m \in Nat
  OBVIOUS
<1>1. Below \subseteq Nat /\ Below # {}
  BY <1>0
<1>2. PICK k \in Below : \A l \in Below : <<l, k>> \notin OpToRel(<, Nat)
  BY <1>1, NatLessThanWellFounded, WFMin, Zenon
<1>3. PICK x \in S : k = n - x
  OBVIOUS
<1>4. \A m \in S : m <= x
  <2>. SUFFICES ASSUME NEW m \in S, x < m PROVE FALSE
    OBVIOUS
  <2>1. n - m \in Below /\ n - m < k /\ n - m \in Nat /\ k \in Nat
    BY <1>0, <1>3
  <2>. QED
    BY <2>1, <1>2 DEF OpToRel
<1>5. \A m \in S : x >= m
  BY <1>0, <1>3, <1>4
<1>6. \E y \in S : \A m \in S : y >= m
  BY <1>5
<1>7. Max(S) \in S /\ \A m \in S : Max(S) >= m
  BY <1>6 DEF Max
<1>. QED
  BY <1>0, <1>7

LEMMA Division == ASSUME NEW i \in Nat \ {0}, NEW t \in Nat PROVE
   /\ t = (i * (t \div i)) + (t % i) /\ t \div i \in Nat /\ t % i \in 0 .. i - 1
  OBVIOUS

LEMMA Multiple == ASSUME NEW i \in Nat \ {0}, NEW k \in Int PROVE (i * k) % i = 0
  OBVIOUS

LEMMA Spaced ==
    ASSUME NEW i \in Nat \ {0}, NEW b \in Nat, NEW c \in Nat, b % i = 0, c % i = 0, c < b
    PROVE  c <= b - i /\ (b - i) % i = 0 /\ b - i \in Nat
<1>. DEFINE k == c \div i
            m == b \div i
<1>1. c = i * k /\ b = i * m /\ k \in Nat /\ m \in Nat
  BY Division
<1>. HIDE DEF k, m
<1>2. k < m
  BY <1>1
<1>3. k <= m - 1 /\ i * k <= i * (m - 1)
  BY <1>1, <1>2
<1>4. i * (m - 1) = b - i
  BY <1>1
<1>. QED
  BY <1>1, <1>3, <1>4, Multiple

\* g carries the raws of F forward over the buckets B.
Fill(g, B, i, F, raw, null) ==
    g = [b \in B |-> IF b \in F THEN raw[b] ELSE IF b - i \in B THEN g[b - i] ELSE null]

\* The buckets up to b with a row, and what reaches b from the last of them.
UpTo(b, B, F) == {c \in B \cap F : c <= b}
Reaching(b, B, F, raw, null) ==
    IF UpTo(b, B, F) = {} THEN null ELSE raw[Max(UpTo(b, B, F))]

\* B is a stretch of the grid.
Stretch(B, i) ==
    /\ i \in Nat \ {0} /\ B \in SUBSET Nat /\ \A b \in B : b % i = 0
    /\ \A b \in B : \A c \in B : c < b => b - i \in B

LEMMA ReachingSteps ==
    ASSUME NEW i, NEW B, Stretch(B, i), NEW F, NEW raw, NEW null, NEW b \in B
    PROVE  Reaching(b, B, F, raw, null) =
               IF b \in F THEN raw[b]
               ELSE IF b - i \in B THEN Reaching(b - i, B, F, raw, null) ELSE null
<1>0. b \in Nat /\ i \in Nat \ {0} /\ \A c \in B : c \in Nat /\ c % i = 0
  BY DEF Stretch
<1>1. \A c \in B : c < b => c <= b - i /\ b - i \in B
  BY <1>0, Spaced DEF Stretch
<1>2. CASE b \in F
  <2>1. b <= b /\ \A c \in UpTo(b, B, F) : c \in 0 .. b /\ c <= b /\ c \in Nat
    BY <1>0 DEF UpTo
  <2>2. b \in UpTo(b, B, F) /\ UpTo(b, B, F) \subseteq 0 .. b
    BY <1>2, <2>1 DEF UpTo
  <2>3. Max(UpTo(b, B, F)) \in UpTo(b, B, F) /\ b <= Max(UpTo(b, B, F))
    BY <1>0, <2>2, MaxOf
  <2>4. Max(UpTo(b, B, F)) = b
    BY <1>0, <2>1, <2>3
  <2>. QED
    BY <1>2, <2>2, <2>4 DEF Reaching
<1>3. CASE b \notin F /\ b - i \in B
  <2>1. \A c \in B \cap F : c <= b <=> c <= b - i
    BY <1>0, <1>1, <1>3
  <2>2. UpTo(b, B, F) = UpTo(b - i, B, F)
    BY <2>1 DEF UpTo
  <2>. QED
    BY <1>3, <2>2 DEF Reaching
<1>4. CASE b \notin F /\ b - i \notin B
  <2>1. \A c \in B \cap F : ~(c <= b)
    BY <1>0, <1>1, <1>4
  <2>2. UpTo(b, B, F) = {}
    BY <2>1 DEF UpTo
  <2>. QED
    BY <1>4, <2>2 DEF Reaching
<1>. QED
  BY <1>2, <1>3, <1>4

\* The recursion of locf has one solution: every bucket takes what reaches it.
LEMMA Fills ==
    ASSUME NEW i, NEW B, Stretch(B, i), NEW F, NEW raw, NEW null
    PROVE  \E g : Fill(g, B, i, F, raw, null)
<1>. DEFINE near(b) == Reaching(b, B, F, raw, null)
            g == [b \in B |-> near(b)]
            h == [b \in B |-> IF b \in F THEN raw[b] ELSE IF b - i \in B THEN g[b - i] ELSE null]
<1>1. \A b \in B : near(b) = IF b \in F THEN raw[b] ELSE IF b - i \in B THEN near(b - i) ELSE null
  BY ReachingSteps
<1>. HIDE DEF near
<1>2. \A b \in B : near(b) = IF b \in F THEN raw[b] ELSE IF b - i \in B THEN g[b - i] ELSE null
  BY <1>1
<1>3. g = h
  BY <1>2
<1>. QED
  BY <1>3 DEF Fill

LEMMA Filled ==
    ASSUME NEW i, NEW B, Stretch(B, i), NEW F, NEW raw, NEW null,
           NEW g, Fill(g, B, i, F, raw, null), NEW x \in B
    PROVE  g[x] = Reaching(x, B, F, raw, null)
<1>. DEFINE near(b) == Reaching(b, B, F, raw, null)
            wrong == {b \in B : g[b] # near(b)}
<1>1. \A b \in B : near(b) = IF b \in F THEN raw[b] ELSE IF b - i \in B THEN near(b - i) ELSE null
  BY ReachingSteps
<1>. SUFFICES ASSUME g[x] # near(x) PROVE FALSE
  OBVIOUS
<1>. HIDE DEF near
<1>2. wrong \subseteq Nat /\ wrong # {}
  BY DEF Stretch
<1>3. PICK b \in wrong : \A c \in wrong : <<c, b>> \notin OpToRel(<, Nat)
  BY <1>2, NatLessThanWellFounded, WFMin, Zenon
<1>4. b \in B /\ b \in Nat /\ i \in Nat \ {0} /\ \A c \in B : c \in Nat
  BY DEF Stretch
<1>5. g[b] = IF b \in F THEN raw[b] ELSE IF b - i \in B THEN g[b - i] ELSE null
  BY <1>4 DEF Fill
<1>6. b \notin F /\ b - i \in wrong
  BY <1>1, <1>3, <1>4, <1>5
<1>7. b - i \in Nat /\ b - i < b
  BY <1>4, <1>6
<1>. QED
  BY <1>3, <1>4, <1>6, <1>7 DEF OpToRel

\* Bucket finds the bucket of a target on the grid, and those of a window are a
\* stretch of it.
LEMMA OnTheGrid ==
    ASSUME NEW t \in Times, t % Interval = 0 PROVE Bucket(t) = t /\ t \in Nat
<1>. DEFINE k == t \div Interval
<1>1. t \in Nat /\ t % Interval = 0 /\ Interval \in Nat \ {0}
  BY ReadsAssumption DEF Parameters, Times
<1>2. t = Interval * k /\ k \in Nat
  <2>1. t = (Interval * k) + (t % Interval) /\ k \in Nat
    BY <1>1, Division, Zenon
  <2>. HIDE DEF k
  <2>. QED
    BY <1>1, <2>1
<1>. HIDE DEF k
<1>3. t = k * Interval
  BY <1>1, <1>2
<1>. QED
  BY <1>1, <1>3 DEF k, Bucket

LEMMA OfTheGrid ==
    ASSUME NEW q, q.start \in Nat, q.end \in Int, Bucket(q.start) = q.start
    PROVE  Stretch(Buckets(q), Interval)
<1>. DEFINE B == Buckets(q)
<1>1. Interval \in Nat \ {0} /\ Horizon \in Nat
  BY ReadsAssumption DEF Parameters
<1>2. B \in SUBSET Nat /\ \A x \in B : x % Interval = 0
  BY <1>1 DEF Buckets, Times
<1>3. ASSUME NEW x \in B, NEW y \in B, y < x PROVE x - Interval \in B
  <2>1. x \in 0 .. Horizon /\ y \in 0 .. Horizon /\ q.start <= y /\ x < q.end
        /\ x % Interval = 0 /\ y % Interval = 0
    BY DEF Buckets, Times
  <2>2. x \in Nat /\ y \in Nat
    BY <1>1, <2>1
  <2>3. y <= x - Interval /\ (x - Interval) % Interval = 0 /\ x - Interval \in Nat
    BY <1>1, <1>3, <2>1, <2>2, Spaced, Zenon
  <2>4. x - Interval \in 0 .. Horizon /\ q.start <= x - Interval /\ x - Interval < q.end
    BY <1>1, <2>1, <2>2, <2>3
  <2>. QED
    BY <2>3, <2>4 DEF Buckets, Times
<1>. HIDE DEF B
<1>4. Stretch(B, Interval)
  BY <1>1, <1>2, <1>3 DEF Stretch
<1>. QED
  BY <1>4 DEF B

\* locf leaves a bucket with rows alone.
LEMMA CarriedIs ==
    ASSUME NEW q, q.start \in Times, q.start % Interval = 0, q.end \in Nat, NEW raw
    PROVE  /\ DOMAIN Carried(q, raw) = Buckets(q)
           /\ \A b \in Buckets(q) :
                 InBucket(q, b) # {} => Carried(q, raw)[b] = raw[b]
<1>. DEFINE B == Buckets(q)
            F == {x \in B : InBucket(q, x) # {}}
            Law(g) == Fill(g, B, Interval, F, raw, Null)
            Rule(g) == g = [x \in B |-> IF InBucket(q, x) # {} THEN raw[x]
                                       ELSE IF x - Interval \in B THEN g[x - Interval] ELSE Null]
<1>1. Stretch(B, Interval)
  BY OnTheGrid, OfTheGrid
<1>2. \E g : Law(g)
  <2>. HIDE DEF B, F
  <2>. QED
    BY <1>1, Fills, Zenon
<1>3. \A g : Law(g) => Rule(g)
  BY DEF Fill
<1>4. Rule(CHOOSE g : Rule(g))
  BY <1>2, <1>3, Zenon
<1>5. Carried(q, raw) = CHOOSE g : Rule(g)
  BY DEF Carried
<1>. HIDE DEF Law
<1>. QED
  BY <1>4, <1>5

-----------------------------------------------------------------------------
(* The rows of a log, and what reads select.                                *)

\* The rows of a log are of the batches: on the grid, of a claimed knowledge time,
\* recorded when their transaction began.
Rows ==
    /\ now \in Nat /\ open \subseteq Nat
    /\ \A r \in log : /\ r.target \in Targets /\ r.known \in Times
                      /\ r.value \in Values /\ r.recorded \in Nat

LEMMA RowsInvariance == Spec => []Rows
<1>1. Init => Rows
  BY DEF Init, Rows
<1>2. Rows /\ [Next]_(vars) => Rows'
  <2>. SUFFICES ASSUME Rows, Next \/ UNCHANGED vars PROVE Rows'
    OBVIOUS
  <2>1. ASSUME NEW batch \in Batches, NEW known \in Claims, NEW job \in Writers,
               NEW began \in open, Write(batch, known, job, began)
        PROVE  Rows'
    <3>1. known \in Times
      BY ReadsAssumption DEF Parameters
    <3>2. \A t \in DOMAIN batch : t \in Targets /\ batch[t] \in Values
      BY DEF Targets, Values
    <3>. QED
      BY <2>1, <3>1, <3>2 DEF Write, Closes, Rows
  <2>2. CASE Begin
    BY <2>2 DEF Begin, Rows
  <2>3. CASE Tick
    BY <2>3 DEF Tick, Rows
  <2>4. ASSUME NEW began \in open, End(began) PROVE Rows'
    BY <2>4 DEF End, Closes, Rows
  <2>5. CASE UNCHANGED vars
    BY <2>5 DEF vars, Rows
  <2>. QED
    BY <2>1, <2>2, <2>3, <2>4, <2>5 DEF Next
<1>. QED
  BY <1>1, <1>2, PTL DEF Spec

\* Every variable keeps its type, and the key of a forecast log or of vintages
\* names one row (the write functions' ON CONFLICT, runs numbered by the writer).
THEOREM TypeCorrect == Spec => []TypeOK
<1>. DEFINE Numbered == \A r \in log : r.run <= writes
<1>1. Init => TypeOK /\ Numbered
  BY ReadsAssumption DEF Init, TypeOK, Parameters, Times
<1>2. TypeOK /\ Numbered /\ [Next]_vars => TypeOK' /\ Numbered'
  <2>. SUFFICES ASSUME TypeOK, Numbered, Next \/ UNCHANGED vars PROVE TypeOK' /\ Numbered'
    OBVIOUS
  <2>0. MaxNow \in Nat /\ MaxWrites \in Nat
    BY ReadsAssumption DEF Parameters, Times
  <2>1. ASSUME NEW batch \in Batches, NEW known \in Claims, NEW job \in Writers,
               NEW began \in open, Write(batch, known, job, began)
        PROVE  TypeOK' /\ Numbered'
    <3>. DEFINE fresh == {u \in DOMAIN batch : ~Stored(u, known)}
                added == {[target |-> t, known |-> known, recorded |-> began, run |-> writes + 1,
                           job |-> job, value |-> batch[t]] : t \in fresh}
    <3>1. /\ log' = log \cup added /\ writes' = writes + 1 /\ writes + 1 \in 1 .. MaxWrites
          /\ UNCHANGED <<byRun, now>> /\ writes \in Nat /\ open' \subseteq open
      BY <2>0, <2>1 DEF Write, Closes, TypeOK
    <3>2. \A t \in fresh : t \in Targets /\ batch[t] \in Values
      BY DEF Targets, Values
    <3>3. known \in Times /\ job \in Jobs \cup {Null} /\ began \in 0 .. MaxNow
      BY <2>0, ReadsAssumption DEF Parameters, Writers, TypeOK
    <3>4. added \subseteq Row
      BY <3>1, <3>2, <3>3 DEF Row
    <3>5. \A r \in added : /\ r.run = writes + 1 /\ r.known = known
                           /\ \A s \in added : r.target = s.target => r = s
                           /\ byRun \/ \A s \in log : s.target = r.target => s.known # known
      BY DEF Stored
    <3>6. \A r \in log : r.run <= writes /\ r.run \in Nat
      BY DEF TypeOK, Row
    <3>. HIDE DEF added
    <3>7. \A r \in log : \A s \in added :
             r.run # s.run /\ (byRun \/ r.target # s.target \/ r.known # s.known)
      BY <3>1, <3>5, <3>6
    <3>8. Numbered'
      BY <3>1, <3>5, <3>6
    <3>. QED
      BY <2>0, <3>1, <3>4, <3>5, <3>7, <3>8 DEF TypeOK
  <2>2. CASE Begin
    BY <2>0, <2>2 DEF Begin, TypeOK, Row
  <2>3. CASE Tick
    <3>1. now' \in 0 .. MaxNow /\ open' \subseteq 0 .. now'
      BY <2>0, <2>3 DEF Tick, TypeOK
    <3>. QED
      BY <2>3, <3>1 DEF Tick, TypeOK, Row
  <2>4. ASSUME NEW began \in open, End(began) PROVE TypeOK' /\ Numbered'
    BY <2>0, <2>4 DEF End, Closes, TypeOK, Row
  <2>5. CASE UNCHANGED vars
    BY <2>5 DEF vars, TypeOK, Row
  <2>. QED
    BY <2>1, <2>2, <2>3, <2>4, <2>5 DEF Next
<1>. QED
  BY <1>1, <1>2, PTL DEF Spec

\* The targets of the log are the buckets they fall in.
LEMMA RowsInBucket ==
    ASSUME Rows, NEW q, NEW b
    PROVE  InBucket(q, b) = {r \in Visible(q) : r.target = b}
<1>1. ASSUME NEW r \in Visible(q) PROVE Bucket(r.target) = r.target
  <2>1. r \in log
    BY DEF Visible
  <2>2. r.target \in Times /\ r.target % Interval = 0
    BY <2>1, ReadsAssumption DEF Rows, Parameters
  <2>. QED
    BY <2>2, OnTheGrid DEF Bucket
<1>. QED
  BY <1>1 DEF InBucket

\* Among rows there is one of the greatest knowledge time.
LEMMA LatestExists ==
    ASSUME Rows, NEW rows \in SUBSET log, rows # {} PROVE Latest(rows) # {}
<1>. DEFINE knowledge == {r.known : r \in rows}
<1>1. Horizon \in Nat /\ knowledge \subseteq 0 .. Horizon /\ knowledge # {}
  BY ReadsAssumption DEF Rows, Times, Parameters
<1>. HIDE DEF knowledge
<1>2. Max(knowledge) \in knowledge /\ \A k \in knowledge : k <= Max(knowledge)
  BY <1>1, MaxOf
<1>. USE DEF knowledge
<1>3. PICK r \in rows : r.known = Max(knowledge)
  BY <1>2
<1>4. \A o \in rows : o.known <= r.known
  BY <1>2, <1>3
<1>. QED
  BY <1>4 DEF Latest

\* A bucket may show each of its latest beliefs.
LEMMA RawsPick ==
    ASSUME Rows, NEW q, NEW b \in Buckets(q)
    PROVE  {raw[b] : raw \in Raws(q)} = Picks(q, b)
<1>1. Raws(q) = {raw \in [Buckets(q) -> Values \cup {Null}] :
                        \A x \in Buckets(q) : raw[x] \in Picks(q, x)}
  BY DEF Raws
<1>2. ASSUME NEW x PROVE Picks(q, x) # {} /\ Picks(q, x) \subseteq Values \cup {Null}
  <2>1. InBucket(q, x) \in SUBSET log
    BY DEF InBucket, Visible
  <2>2. Latest(InBucket(q, x)) \subseteq log
    BY <2>1 DEF Latest
  <2>3. InBucket(q, x) # {} => Latest(InBucket(q, x)) # {}
    BY <2>1, LatestExists
  <2>. QED
    BY <2>2, <2>3 DEF Picks, Rows
<1>3. ASSUME NEW v \in Picks(q, b) PROVE \E raw \in Raws(q) : raw[b] = v
  <2>. DEFINE raw == [x \in Buckets(q) |-> IF x = b THEN v ELSE CHOOSE y : y \in Picks(q, x)]
  <2>1. \A x \in Buckets(q) : raw[x] \in Picks(q, x)
    BY <1>2
  <2>2. raw \in [Buckets(q) -> Values \cup {Null}]
    BY <1>2, <2>1
  <2>3. raw[b] = v
    OBVIOUS
  <2>. HIDE DEF raw
  <2>. QED
    BY <1>1, <2>1, <2>2, <2>3
<1>4. \A raw \in Raws(q) : raw[b] \in Picks(q, b)
  BY <1>1
<1>. QED
  BY <1>3, <1>4

\* The context window, the as-of query and the latest view select the same beliefs,
\* and only runs of one knowledge time leave more than one answer
\* (read_context_series, forecast_asof, the latest_ views).
THEOREM ReadsKeepAgreeing == Spec => []ReadsAgree
<1>1. Rows /\ TypeOK => ReadsAgree
  <2>. SUFFICES ASSUME Rows, TypeOK, NEW q \in Queries
                PROVE  /\ \A b \in Buckets(q) :
                             {raw[b] : raw \in Raws(q)} =
                                IF ForecastAsOf(q, b) = {} THEN {Null}
                                ELSE {r.value : r \in ForecastAsOf(q, b)}
                       /\ \A t \in Targets : \A r, s \in ForecastAsOf(q, t) :
                             r = s \/ (byRun /\ r.known = s.known /\ r.run # s.run)
                       /\ (q.pin = Null /\ q.job = Null /\ \A r \in log : r.known <= q.asof) =>
                             \A t \in Targets : q.start <= t /\ t < q.end =>
                                LatestView(t) = ForecastAsOf(q, t)
    BY DEF ReadsAgree
  <2>1. ASSUME NEW b \in Buckets(q)
        PROVE  {raw[b] : raw \in Raws(q)} =
                  IF ForecastAsOf(q, b) = {} THEN {Null}
                  ELSE {r.value : r \in ForecastAsOf(q, b)}
    <3>1. ForecastAsOf(q, b) = Latest(InBucket(q, b))
      BY RowsInBucket DEF ForecastAsOf
    <3>2. InBucket(q, b) \in SUBSET log
      BY DEF InBucket, Visible
    <3>3. ForecastAsOf(q, b) = {} <=> InBucket(q, b) = {}
      BY <3>1, <3>2, LatestExists DEF Latest
    <3>4. Picks(q, b) = IF ForecastAsOf(q, b) = {} THEN {Null}
                        ELSE {r.value : r \in ForecastAsOf(q, b)}
      BY <3>1, <3>3 DEF Picks
    <3>. QED
      BY <3>4, RawsPick
  <2>2. ASSUME q.pin = Null, q.job = Null, \A r \in log : r.known <= q.asof,
               NEW t \in Targets, q.start <= t, t < q.end
        PROVE  LatestView(t) = ForecastAsOf(q, t)
    <3>1. {r \in log : r.target = t} = {r \in Visible(q) : r.target = t}
      BY <2>2 DEF Visible
    <3>. QED
      BY <3>1 DEF LatestView, ForecastAsOf
  <2>3. ASSUME NEW t \in Targets, NEW r \in ForecastAsOf(q, t), NEW s \in ForecastAsOf(q, t)
        PROVE  r = s \/ (byRun /\ r.known = s.known /\ r.run # s.run)
    <3>1. r \in log /\ s \in log /\ r.target = t /\ s.target = t
      BY <2>3 DEF ForecastAsOf, Latest, Visible
    <3>2. r.known <= s.known /\ s.known <= r.known /\ r.known \in Int /\ s.known \in Int
      BY <2>3, <3>1, ReadsAssumption DEF ForecastAsOf, Latest, Rows, Times, Parameters
    <3>3. r.known = s.known
      BY <3>2
    <3>. QED
      BY <3>1, <3>3 DEF TypeOK
  <2>. QED
    BY <2>1, <2>2, <2>3
<1>. QED
  BY <1>1, RowsInvariance, TypeCorrect, PTL

\* Carried, as a function of the rows it sees.
CarriedOver(rows, q, raw) ==
    LET carried[b \in Buckets(q)] ==
            IF {r \in rows : Bucket(r.target) = b} # {} THEN raw[b]
            ELSE IF b - Interval \in Buckets(q) THEN carried[b - Interval]
            ELSE Null
    IN  carried

PicksOver(rows, b) ==
    IF {r \in rows : Bucket(r.target) = b} = {} THEN {Null}
    ELSE {r.value : r \in Latest({r \in rows : Bucket(r.target) = b})}

RawsOver(rows, q) ==
    {raw \in [Buckets(q) -> Values \cup {Null}] : \A b \in Buckets(q) : raw[b] \in PicksOver(rows, b)}

ContextOver(rows, q) ==
    {[raw |-> raw, value |-> CarriedOver(rows, q, raw)] : raw \in RawsOver(rows, q)}

\* No look-ahead: rows known later, recorded after the pin or of another job change
\* nothing about a window or an as-of answer, whenever they are committed
\* (read_context_series, forecast_asof).
THEOREM LaterStaysInvisible ==
    Spec => LaterBeliefsAreInvisible
<1>1. \A q : Context(q) = ContextOver(Visible(q), q)
  BY DEF Context, ContextOver, Raws, RawsOver, Picks, PicksOver, Carried, CarriedOver,
         InBucket
<1>2. \A q : Context(q)' = ContextOver(Visible(q)', q)
  BY DEF Context, ContextOver, Raws, RawsOver, Picks, PicksOver, Carried, CarriedOver,
         InBucket
<1>3. ASSUME Rows', Next, NEW q \in Queries,
             \A r \in log' \ log : \/ r.known > q.asof
                                   \/ q.pin # Null /\ r.recorded > q.pin
                                   \/ q.job # Null /\ r.job # q.job
      PROVE  /\ Context(q)' = Context(q)
             /\ \A t \in Targets : ForecastAsOf(q, t)' = ForecastAsOf(q, t)
  <2>1. log \subseteq log'
    BY <1>3 DEF Next, Write, Begin, Tick, End
  <2>2. q.asof \in Int /\ (q.pin # Null => q.pin \in Int)
    BY ReadsAssumption DEF Queries, Times, Parameters
  <2>3. \A r \in log' : r.known \in Int /\ r.recorded \in Int
    BY <1>3, ReadsAssumption DEF Rows, Times, Parameters
  <2>4. \A r \in log' \ log : \/ ~(r.known <= q.asof)
                              \/ q.pin # Null /\ ~(r.recorded <= q.pin)
                              \/ q.job # Null /\ r.job # q.job
    BY <1>3, <2>2, <2>3
  <2>5. Visible(q)' = Visible(q)
    BY <2>1, <2>4, Zenon DEF Visible
  <2>6. \A t : ForecastAsOf(q, t)' = ForecastAsOf(q, t)
    BY <2>5 DEF ForecastAsOf, Latest
  <2>. QED
    BY <1>1, <1>2, <2>5, <2>6
<1>4. Rows' /\ [Next]_(vars) =>
        [log' # log => \A q \in Queries :
           (\A r \in log' \ log : \/ r.known > q.asof
                                  \/ q.pin # Null /\ r.recorded > q.pin
                                  \/ q.job # Null /\ r.job # q.job)
           => /\ Context(q)' = Context(q)
              /\ \A t \in Targets : ForecastAsOf(q, t)' = ForecastAsOf(q, t)]_(vars)
  BY <1>3
<1>. QED
  BY <1>4, RowsInvariance, PTL DEF Spec, LaterBeliefsAreInvisible

\* Every answer about q: the window, the as-of query, the export.
Answers(q) == [context |-> Context(q), forecast |-> [t \in Targets |-> ForecastAsOf(q, t)],
               export |-> Versioned(q)]

AnswersOver(rows, exported, q) ==
    [context |-> ContextOver(rows, q),
     forecast |-> [t \in Targets |-> Latest({r \in rows : r.target = t})],
     export |-> {seq \in SetToSeqs(exported) : \A i, j \in DOMAIN seq : i < j =>
                    \/ seq[i].target < seq[j].target
                    \/ seq[i].target = seq[j].target /\ seq[i].known <= seq[j].known}]

\* Nothing that is still open, or yet to begin, can be recorded by the pin.
Quiet(pin) == pin < now /\ \A began \in open : pin < began

\* What is committed was recorded when a transaction began that was open.
LEMMA LogGrows ==
    ASSUME [Next]_vars
    PROVE  /\ log \subseteq log' /\ \A r \in log' \ log : r.recorded \in open
           /\ open' \subseteq open \cup {now} /\ now' \in {now, now + 1}
<1>1. ASSUME NEW batch \in Batches, NEW known \in Claims, NEW job \in Writers,
             NEW began \in open, Write(batch, known, job, began)
      PROVE  /\ log \subseteq log' /\ \A r \in log' \ log : r.recorded \in open
             /\ open' \subseteq open /\ now' = now
  BY <1>1 DEF Write, Closes
<1>2. ASSUME NEW began \in open, End(began)
      PROVE  log' = log /\ open' \subseteq open /\ now' = now
  BY <1>2 DEF End, Closes
<1>3. CASE Begin \/ Tick \/ UNCHANGED vars
  BY <1>3 DEF Begin, Tick, vars
<1>. QED
  BY <1>1, <1>2, <1>3 DEF Next

\* A quiet pin fixes the rows a query reads, and stays quiet: what is committed from
\* now on is recorded when a transaction began that is open or does not exist yet.
LEMMA PinFixes ==
    ASSUME TypeOK, [Next]_vars, NEW q, q.pin \in Nat, q.pin # Null, Quiet(q.pin)
    PROVE  /\ Visible(q)' = Visible(q) /\ Exported(q)' = Exported(q)
           /\ Quiet(q.pin)'
<1>1. now \in Nat /\ now' \in Nat /\ now <= now' /\ open \subseteq Nat
  BY LogGrows, ReadsAssumption DEF TypeOK, Parameters, Times
<1>2. log \subseteq log' /\ \A r \in log' \ log : r.recorded \in open
  BY LogGrows
<1>3. \A r \in log' \ log : ~(r.recorded <= q.pin)
  <2>1. \A began \in open : ~(began <= q.pin)
    BY <1>1 DEF Quiet
  <2>. QED
    BY <1>2, <2>1, Zenon
<1>4. Visible(q)' = Visible(q)
  BY <1>2, <1>3, Zenon DEF Visible
<1>5. Exported(q)' = Exported(q)
  BY <1>2, <1>3, Zenon DEF Exported
<1>6. open' \subseteq open \cup {now}
  BY LogGrows
<1>7. q.pin < now' /\ \A began \in open' : q.pin < began
  BY <1>1, <1>6 DEF Quiet
<1>. QED
  BY <1>4, <1>5, <1>7 DEF Quiet

\* A pinned read is reproducible once the pin is quiet: when it has passed and every
\* transaction that began by then has ended, whatever any query may answer under it,
\* it may answer in every later state, whatever is committed (recorded_before of
\* read_context_series, forecast_asof and read_versioned_series).
THEOREM PinnedAnswersStay ==
    ASSUME NEW q, q.pin \in Nat, q.pin # Null, NEW A
    PROVE  Spec => [](Quiet(q.pin) /\ Answers(q) = A => [](Answers(q) = A))
<1>1. Answers(q) = AnswersOver(Visible(q), Exported(q), q)
  BY DEF Answers, AnswersOver, ForecastAsOf, Versioned, Context, ContextOver, Raws, RawsOver,
         Picks, PicksOver, Carried, CarriedOver, InBucket
<1>2. Answers(q)' = AnswersOver(Visible(q)', Exported(q)', q)
  BY DEF Answers, AnswersOver, ForecastAsOf, Versioned, Context, ContextOver, Raws, RawsOver,
         Picks, PicksOver, Carried, CarriedOver, InBucket
<1>. DEFINE Seen == Quiet(q.pin) /\ Answers(q) = A
<1>3. ASSUME TypeOK, [Next]_vars, Seen PROVE Seen'
  <2>1. Visible(q)' = Visible(q) /\ Exported(q)' = Exported(q) /\ Quiet(q.pin)'
    BY <1>3, PinFixes
  <2>2. Answers(q)' = A
    BY <1>1, <1>2, <1>3, <2>1
  <2>. QED
    BY <2>1, <2>2
<1>4. Seen => Answers(q) = A
  OBVIOUS
<1>. HIDE DEF Seen
<1>5. Spec => [](Seen => [](Answers(q) = A))
  BY <1>3, <1>4, TypeCorrect, PTL DEF Spec
<1>. QED
  BY <1>5 DEF Seen

\* A gap is a bucket whose belief is missing or NULL, and every bucket shows the nearest
\* earlier belief of its window, a NULL one included (time_bucket_gapfill, locf,
\* ContextSeries.gaps).
THEOREM GapsStayFilled == Spec => []GapsAreFilled
<1>1. ASSUME Rows, NEW q \in Queries, q.start = Bucket(q.start),
             NEW window \in Context(q), NEW b \in Buckets(q)
      PROVE  LET before == {r \in Visible(q) : r.target <= b}
                 nearest == {r \in before : \A s \in before : s.target <= r.target}
                 beliefs == {r \in Visible(q) : r.target = b}
             IN  /\ beliefs = {} => b \in Gaps(window)
                 /\ b \in Gaps(window) /\ beliefs # {} =>
                       window.value[b] = Null /\ \E r \in Latest(beliefs) : r.value = Null
                 /\ IF before = {} THEN window.value[b] = Null
                    ELSE window.value[b] \in {r.value : r \in Latest(nearest)}
  <2>. DEFINE rows == Visible(q)
              B == Buckets(q)
              F == {x \in B : InBucket(q, x) # {}}
              before == {r \in rows : r.target <= b}
              nearest == {r \in before : \A s \in before : s.target <= r.target}
              beliefs == {r \in rows : r.target = b}
              last == Max(UpTo(b, B, F))
  <2>1. PICK raw \in Raws(q) : window = [raw |-> raw, value |-> Carried(q, raw)]
    BY DEF Context
  <2>2. Stretch(B, Interval)
    <3>1. q.start \in Nat /\ q.end \in Int
      BY ReadsAssumption DEF Queries, Times, Parameters
    <3>2. Buckets(q) = B /\ Bucket(q.start) = q.start
      BY <1>1 DEF Buckets, Times, Bucket, Buckets, Times, Bucket
    <3>. QED
      BY <3>1, <3>2, OfTheGrid
  <2>3. \A x : InBucket(q, x) = {r \in rows : r.target = x}
    BY <1>1, RowsInBucket
  <2>4. \A x \in B : raw[x] \in IF InBucket(q, x) = {} THEN {Null}
                                ELSE {r.value : r \in Latest(InBucket(q, x))}
    BY DEF Raws, Picks
  <2>5. DOMAIN raw = B
    BY DEF Raws
  <2>6. \A r \in rows : r.target \in B
    <3>. SUFFICES ASSUME NEW r \in rows PROVE r.target \in B
      OBVIOUS
    <3>1. r \in log /\ q.start <= r.target /\ r.target < q.end
      BY DEF Visible
    <3>. QED
      BY <1>1, <3>1, ReadsAssumption DEF Rows, Parameters, Buckets
  <2>7. b \in Gaps(window) <=> raw[b] = Null
    BY <2>1, <2>5 DEF Gaps
  <2>8. window.value[b] = Reaching(b, B, F, raw, Null)
    <3>. DEFINE Law(g) == Fill(g, B, Interval, F, raw, Null)
                Rule(g) == g = [x \in B |-> IF InBucket(q, x) # {} THEN raw[x]
                                ELSE IF x - Interval \in B THEN g[x - Interval] ELSE Null]
    <3>1. \A g : Law(g) <=> Rule(g)
      BY DEF Fill
    <3>2. \E g : Law(g)
      <4>. HIDE DEF B, F
      <4>. QED
        BY <2>2, Fills, Zenon
    <3>3. Law(CHOOSE g : Rule(g))
      BY <3>1, <3>2, Zenon
    <3>4. Carried(q, raw) = CHOOSE g : Rule(g)
      BY DEF Carried
    <3>5. Law(Carried(q, raw))
      BY <3>3, <3>4, Zenon
    <3>6. Carried(q, raw)[b] = Reaching(b, B, F, raw, Null)
      <4>1. b \in B
        OBVIOUS
      <4>. HIDE DEF B, F
      <4>. QED
        BY <2>2, <3>5, <4>1, Filled
    <3>. QED
      BY <2>1, <3>6
  <2>9. \A x \in B : x \in UpTo(b, B, F) <=> \E r \in before : r.target = x
    BY <2>3 DEF UpTo
  <2>12. beliefs = {} => b \in Gaps(window)
    BY <2>3, <2>4, <2>7
  <2>13. ASSUME b \in Gaps(window), beliefs # {}
         PROVE  window.value[b] = Null /\ \E r \in Latest(beliefs) : r.value = Null
    <3>1. InBucket(q, b) = beliefs /\ raw[b] = Null
      BY <2>3, <2>7, <2>13
    <3>2. q.start \in Times /\ q.start % Interval = 0 /\ q.end \in Nat
      <4>1. q.start \in Times /\ q.end \in Nat /\ Interval \in Nat \ {0}
        BY ReadsAssumption DEF Queries, Times, Parameters
      <4>2. q.start = (q.start \div Interval) * Interval /\ q.start \in Nat
        BY <1>1, <4>1 DEF Bucket, Times
      <4>3. q.start = Interval * (q.start \div Interval) /\ (q.start \div Interval) \in Int
        BY <4>1, <4>2, Division
      <4>. QED
        BY <4>1, <4>3, Multiple
    <3>3. window.value[b] = raw[b]
      BY <2>1, <2>13, <3>1, <3>2, CarriedIs
    <3>4. raw[b] \in {r.value : r \in Latest(beliefs)}
      <4>. HIDE DEF beliefs
      <4>. QED
        BY <2>4, <2>13, <3>1
    <3>. QED
      BY <3>1, <3>3, <3>4
  <2>10. ASSUME before = {} PROVE window.value[b] = Null
    BY <2>6, <2>8, <2>9, <2>10 DEF UpTo, Reaching
  <2>11. ASSUME before # {} PROVE window.value[b] \in {r.value : r \in Latest(nearest)}
    <3>1. UpTo(b, B, F) # {} /\ \A x \in UpTo(b, B, F) : x \in B
      BY <2>6, <2>9, <2>11 DEF UpTo
    <3>2. b \in Nat /\ \A x \in B : x \in Nat
      BY <2>2 DEF Stretch
    <3>3. UpTo(b, B, F) \subseteq 0 .. b
      <4>1. \A x \in UpTo(b, B, F) : x \in B /\ x <= b
        BY DEF UpTo
      <4>. HIDE DEF B, F
      <4>2. \A x \in UpTo(b, B, F) : x \in 0 .. b
        BY <3>2, <4>1
      <4>. QED
        BY <4>2, Zenon
    <3>4. last \in UpTo(b, B, F) /\ \A x \in UpTo(b, B, F) : x <= last
      BY <3>1, <3>2, <3>3, MaxOf
    <3>. HIDE DEF last
    <3>5. nearest = {r \in rows : r.target = last}
      <4>1. \A r \in before : r.target \in UpTo(b, B, F) /\ r.target \in Nat
        BY <2>6, <2>9, <3>2
      <4>2. last \in Nat /\ last <= b
        BY <3>1, <3>2, <3>4 DEF UpTo
      <4>3. \E s \in before : s.target = last
        BY <2>9, <3>1, <3>4
      <4>4. \A r \in nearest : r.target = last
        BY <3>4, <4>1, <4>2, <4>3
      <4>5. \A r \in rows : r.target = last => r \in nearest
        BY <3>4, <4>1, <4>2
      <4>. QED
        BY <4>4, <4>5
    <3>6. raw[last] \in {r.value : r \in Latest(nearest)}
      <4>1. last \in B /\ InBucket(q, last) = nearest /\ nearest # {}
        BY <2>3, <2>9, <3>1, <3>4, <3>5
      <4>. HIDE DEF nearest
      <4>. QED
        BY <2>4, <4>1
    <3>7. window.value[b] = raw[last]
      BY <2>8, <3>1 DEF Reaching, last
    <3>. QED
      BY <3>6, <3>7
  <2>. QED
    BY <2>10, <2>11, <2>12, <2>13
<1>2. Rows => GapsAreFilled
  BY <1>1 DEF GapsAreFilled
<1>. QED
  BY <1>2, RowsInvariance, PTL

-----------------------------------------------------------------------------
(* The versioned export.                                                    *)

LEMMA LogIsFinite == Spec => []IsFiniteSet(log)
<1>1. Init => IsFiniteSet(log)
  BY FS_EmptySet DEF Init
<1>2. IsFiniteSet(log) /\ [Next]_(vars) => IsFiniteSet(log)'
  <2>. SUFFICES ASSUME IsFiniteSet(log), Next \/ UNCHANGED vars PROVE IsFiniteSet(log')
    OBVIOUS
  <2>1. ASSUME NEW batch \in Batches, NEW known \in Claims, NEW job \in Writers,
               NEW began \in open, Write(batch, known, job, began)
        PROVE  IsFiniteSet(log')
    <3>. DEFINE new == {u \in DOMAIN batch : ~Stored(u, known)}
                row == [t \in new |-> [target |-> t, known |-> known, recorded |-> began,
                                       run |-> writes + 1, job |-> job, value |-> batch[t]]]
                added == {row[t] : t \in new}
    <3>1. \A t \in new : t \in Targets
      BY DEF Targets
    <3>2. Horizon \in Nat /\ new \subseteq 0 .. Horizon
      BY <3>1, ReadsAssumption DEF Parameters, Times
    <3>3. IsFiniteSet(0 .. Horizon)
      BY <3>2, FS_Interval
    <3>4. IsFiniteSet(new)
      <4>. HIDE DEF new
      <4>. QED
        BY <3>2, <3>3, FS_Subset
    <3>5. row \in Surjection(new, added)
      <4>. HIDE DEF new
      <4>. QED
        BY DEF Surjection
    <3>6. log' = log \cup added
      BY <2>1 DEF Write
    <3>. HIDE DEF row, added, new
    <3>7. IsFiniteSet(added)
      BY <3>4, <3>5, FS_Surjection
    <3>. QED
      BY <3>6, <3>7, FS_Union
  <2>2. CASE Begin \/ Tick \/ UNCHANGED vars \/ \E began \in open : End(began)
    BY <2>2 DEF Begin, Tick, End, vars
  <2>. QED
    BY <2>1, <2>2 DEF Next
<1>. QED
  BY <1>1, <1>2, PTL DEF Spec

\* An export has a place for every row.
LEMMA ExportIsComplete ==
    ASSUME NEW S, IsFiniteSet(S), NEW rows \in SetToSeqs(S), NEW r \in S
    PROVE  \E i \in DOMAIN rows : rows[i] = r
<1>. DEFINE n == Cardinality(S)
<1>1. n \in Nat
  BY FS_CardinalityType
<1>2. rows \in [1 .. n -> S] /\ \A i, j \in 1 .. n : i # j => rows[i] # rows[j]
  BY DEF SetToSeqs
<1>. HIDE DEF n
<1>3. Cardinality(1 .. n) = n /\ IsFiniteSet(1 .. n)
  BY <1>1, FS_Interval
<1>4. rows \in Injection(1 .. n, S)
  BY <1>2 DEF Injection, IsInjective
<1>5. rows \in Surjection(1 .. n, S)
  BY <1>3, <1>4, FS_Injection DEF n
<1>. QED
  BY <1>2, <1>5 DEF Surjection

\* An engine that takes the export and applies the cutoff itself sees a value the
\* context window may show (read_versioned_series and its readers).
THEOREM EngineKeepsAgreeing == Spec => []EngineCutoffAgrees
<1>1. ASSUME Rows, IsFiniteSet(log), NEW q \in Queries, q.job = Null,
             NEW rows \in Versioned(q), NEW b \in Buckets(q)
      PROVE  LET seen == {i \in DOMAIN rows : rows[i].target = b /\ rows[i].known <= q.asof}
                 last == IF seen = {} THEN Null ELSE rows[Max(seen)].value
             IN  \E raw \in Raws(q) : raw[b] = last
  <2>. DEFINE S == Exported(q)
              n == Cardinality(S)
              seen == {i \in DOMAIN rows : rows[i].target = b /\ rows[i].known <= q.asof}
              last == IF seen = {} THEN Null ELSE rows[Max(seen)].value
              bucket == InBucket(q, b)
  <2>1. IsFiniteSet(S) /\ S \subseteq log
    BY <1>1, FS_Subset DEF Exported
  <2>2. n \in Nat /\ rows \in [1 .. n -> S]
    BY <2>1, FS_CardinalityType DEF Versioned, SetToSeqs
  <2>3. rows \in SetToSeqs(S)
    BY DEF Versioned
  <2>4. \A i, j \in 1 .. n : i < j => \/ rows[i].target < rows[j].target
                                      \/ /\ rows[i].target = rows[j].target
                                         /\ rows[i].known <= rows[j].known
    BY <2>2 DEF Versioned
  <2>5. bucket = {r \in S : r.target = b /\ r.known <= q.asof}
    BY <1>1, RowsInBucket DEF Exported, Visible
  <2>. HIDE DEF n
  <2>6. seen \subseteq 1 .. n /\ \A i \in seen : rows[i] \in bucket
    <3>. HIDE DEF S
    <3>. QED
      BY <2>2, <2>5
  <2>7. \A r \in bucket : \E i \in seen : rows[i] = r
    <3>1. \A r \in bucket : \E i \in DOMAIN rows : rows[i] = r
      BY <2>1, <2>3, <2>5, ExportIsComplete
    <3>. QED
      BY <2>5, <3>1
  <2>8. last \in Picks(q, b)
    <3>1. CASE seen = {}
      BY <2>7, <3>1 DEF Picks
    <3>2. CASE seen # {}
      <4>. DEFINE m == Max(seen)
      <4>1. seen \subseteq 0 .. n
        BY <2>2, <2>6
      <4>2. m \in seen /\ \A i \in seen : i <= m
        <5>. HIDE DEF seen
        <5>. QED
          BY <2>2, <3>2, <4>1, MaxOf
      <4>. HIDE DEF m
      <4>3. rows[m] \in bucket
        BY <2>6, <4>2
      <4>4. \A i \in seen : rows[i].known <= rows[m].known
        <5>. SUFFICES ASSUME NEW i \in seen PROVE rows[i].known <= rows[m].known
          OBVIOUS
        <5>1. rows[i].target = b /\ rows[m].target = b /\ i \in 1 .. n /\ m \in 1 .. n /\ i <= m
          BY <2>6, <4>2
        <5>2. b \in Int /\ rows[m].known \in Int
          <6>1. rows[m] \in log
            BY <2>1, <2>2, <5>1
          <6>. QED
            BY <6>1, <1>1, ReadsAssumption DEF Rows, Times, Buckets, Parameters
        <5>3. CASE i = m
          BY <5>2, <5>3
        <5>4. CASE i < m
          BY <2>4, <5>1, <5>2, <5>4
        <5>. QED
          BY <5>1, <5>3, <5>4
      <4>5. rows[m] \in Latest(bucket)
        <5>. HIDE DEF bucket, seen
        <5>. QED
          BY <2>7, <4>3, <4>4 DEF Latest
      <4>6. last = rows[m].value
        BY <3>2 DEF m
      <4>. HIDE DEF last
      <4>. QED
        BY <4>3, <4>5, <4>6 DEF Picks
    <3>. QED
      BY <3>1, <3>2
  <2>. HIDE DEF last
  <2>9. \E raw \in Raws(q) : raw[b] = last
    BY <1>1, <2>8, RawsPick
  <2>. QED
    BY <2>9 DEF last
<1>2. Rows /\ IsFiniteSet(log) => EngineCutoffAgrees
  BY <1>1 DEF EngineCutoffAgrees
<1>. QED
  BY <1>2, RowsInvariance, LogIsFinite, PTL

\* By target and then by knowledge.
Precedes(r, s) ==
    \/ r.target < s.target
    \/ r.target = s.target /\ r.known <= s.known

Ordered(rows, n) == \A i, j \in 1 .. n : i < j => Precedes(rows[i], rows[j])

\* Among rows there is one that no other follows.
LEMMA LastExists ==
    ASSUME NEW S, S # {}, \A r \in S : r.target \in 0 .. Horizon /\ r.known \in 0 .. Horizon
    PROVE  \E m \in S : \A r \in S : Precedes(r, m)
<1>. DEFINE targets == {r.target : r \in S}
            t == Max(targets)
            knowledge == {r.known : r \in {s \in S : s.target = t}}
            k == Max(knowledge)
<1>1. Horizon \in Nat
  BY ReadsAssumption DEF Parameters
<1>2. targets \subseteq 0 .. Horizon /\ targets # {}
  OBVIOUS
<1>. HIDE DEF targets
<1>3. t \in targets /\ \A x \in targets : x <= t
  BY <1>1, <1>2, MaxOf
<1>. HIDE DEF t
<1>4. knowledge \subseteq 0 .. Horizon /\ knowledge # {}
  BY <1>3 DEF targets
<1>. HIDE DEF knowledge
<1>5. k \in knowledge /\ \A x \in knowledge : x <= k
  BY <1>1, <1>4, MaxOf
<1>. HIDE DEF k
<1>6. PICK m \in S : m.target = t /\ m.known = k
  BY <1>5 DEF knowledge
<1>7. ASSUME NEW r \in S PROVE Precedes(r, m)
  <2>1. r.target \in Int /\ r.target <= t /\ t \in Int
    BY <1>2, <1>3, <1>6 DEF targets
  <2>2. r.target = t => r.known <= k
    BY <1>5 DEF knowledge
  <2>. QED
    BY <1>6, <2>1, <2>2 DEF Precedes
<1>. QED
  BY <1>7

\* Every finite set of rows can be put in order.
LEMMA OrderExists ==
    ASSUME NEW S, IsFiniteSet(S),
           \A r \in S : r.target \in 0 .. Horizon /\ r.known \in 0 .. Horizon
    PROVE  \E rows \in SetToSeqs(S) : Ordered(rows, Cardinality(S))
<1>. DEFINE orders(T) == {rows \in SetToSeqs(T) : Ordered(rows, Cardinality(T))}
            Unordered == {T \in FiniteSubsetsOf(S) : orders(T) = {}}
<1>1. SUFFICES ASSUME Unordered # {} PROVE FALSE
  <2>1. S \in FiniteSubsetsOf(S)
    BY FS_FiniteSubsetsOfFinite
  <2>. QED
    BY <2>1
<1>2. PICK T \in Unordered : \A U \in Unordered : <<U, T>> \notin StrictSubsetOrdering(S)
  BY <1>1, FS_StrictSubsetOrderingWellFounded, WFMin, Zenon
<1>3. T \in SUBSET S /\ IsFiniteSet(T) /\ orders(T) = {}
  BY FS_FiniteSubsetsOfFinite, FS_Subset
<1>. DEFINE n == Cardinality(T)
<1>4. n \in Nat
  BY <1>3, FS_CardinalityType
<1>5. CASE T = {}
  <2>1. Cardinality(T) = 0
    BY <1>5, FS_EmptySet
  <2>2. << >> \in SetToSeqs(T) /\ Ordered(<< >>, 0)
    BY <1>5, <2>1 DEF SetToSeqs, Ordered
  <2>. QED
    BY <1>3, <2>1, <2>2
<1>6. CASE T # {}
  <2>1. PICK m \in T : \A r \in T : Precedes(r, m)
    BY <1>3, <1>6, LastExists
  <2>. DEFINE U == T \ {m}
  <2>2. IsFiniteSet(U) /\ Cardinality(U) = n - 1 /\ U \in FiniteSubsetsOf(S)
    BY <1>3, FS_RemoveElement, FS_FiniteSubsetsOfFinite
  <2>3. <<U, T>> \in StrictSubsetOrdering(S)
    BY <1>3 DEF StrictSubsetOrdering
  <2>4. U \notin Unordered
    BY <1>2, <2>3
  <2>5. PICK v : v \in SetToSeqs(U) /\ Ordered(v, n - 1)
    BY <2>2, <2>4
  <2>6. /\ v \in [1 .. n - 1 -> U]
        /\ \A i, j \in 1 .. n - 1 : i # j => v[i] # v[j]
    BY <2>2, <2>5 DEF SetToSeqs
  <2>. DEFINE w == [i \in 1 .. n |-> IF i = n THEN m ELSE v[i]]
  <2>7. \A i \in 1 .. n : i = n \/ i \in 1 .. n - 1
    BY <1>4
  <2>. HIDE DEF n
  <2>8. /\ w \in [1 .. n -> T]
        /\ \A i, j \in 1 .. n : i # j => w[i] # w[j]
    BY <2>6, <2>7
  <2>9. Ordered(w, n)
    <3>. SUFFICES ASSUME NEW i \in 1 .. n, NEW j \in 1 .. n, i < j PROVE Precedes(w[i], w[j])
      BY DEF Ordered
    <3>1. i \in 1 .. n - 1 /\ w[i] = v[i]
      BY <1>4
    <3>2. CASE j = n
      BY <2>1, <2>6, <3>1, <3>2
    <3>3. CASE j # n
      BY <2>5, <2>7, <3>1, <3>3 DEF Ordered
    <3>. QED
      BY <3>2, <3>3
  <2>10. w \in SetToSeqs(T)
    BY <2>8 DEF SetToSeqs, n
  <2>. QED
    BY <1>3, <2>9, <2>10 DEF n
<1>. QED
  BY <1>5, <1>6

\* There is an export of every window: EngineCutoffAgrees is about something.
THEOREM ExportsExist ==
    Spec => [](\A q \in Queries : Versioned(q) # {})
<1>1. ASSUME Rows, IsFiniteSet(log), NEW q \in Queries PROVE Versioned(q) # {}
  <2>. DEFINE S == Exported(q)
  <2>1. IsFiniteSet(S) /\ S \subseteq log
    BY <1>1, FS_Subset DEF Exported
  <2>2. \A r \in S : r.target \in 0 .. Horizon /\ r.known \in 0 .. Horizon
    BY <1>1, <2>1, ReadsAssumption DEF Rows, Parameters, Times
  <2>3. PICK rows \in SetToSeqs(S) : Ordered(rows, Cardinality(S))
    <3>. HIDE DEF S
    <3>. QED
      BY <2>1, <2>2, OrderExists
  <2>4. DOMAIN rows = 1 .. Cardinality(S)
    BY DEF SetToSeqs
  <2>5. rows \in Versioned(q)
    BY <2>3, <2>4 DEF Versioned, Ordered, Precedes
  <2>. QED
    BY <2>5
<1>2. Rows /\ IsFiniteSet(log) => \A q \in Queries : Versioned(q) # {}
  BY <1>1
<1>. QED
  BY <1>2, RowsInvariance, LogIsFinite, PTL
=============================================================================
