------------------------- MODULE ProvisioningProofs -------------------------
(***************************************************************************)
(* Proofs about Provisioning, for any set of requests, provisioners and     *)
(* readers: store_tables describes the tables that exist, a declaration     *)
(* once read stays true, a provisioning reports the truth of every table    *)
(* that no other one created under it, and what was recovered or is called  *)
(* in sync provisions as a no-op, or adds guards only.                      *)
(***************************************************************************)
EXTENDS Provisioning, FiniteSetTheorems, WellFoundedInduction, TLAPS

(* Powers of ten.                                                           *)

\* p lists the powers of ten up to the n-th.
Powers(p, n) == p[0] = 1 /\ \A i \in 1 .. n : p[i] = 10 * p[i - 1]

\* A set of numbers that has one has a least.
LEMMA Least ==
    ASSUME NEW S, S \subseteq Nat, S # {}
    PROVE  \E n \in S : \A m \in S : n <= m
<1>1. PICK n \in S : \A m \in S : <<m, n>> \notin OpToRel(<, Nat)
  BY NatLessThanWellFounded, WFMin, Zenon
<1>2. \A m \in S : m \in Nat
  OBVIOUS
<1>3. \A m \in S : ~(m < n)
  BY <1>1, <1>2 DEF OpToRel
<1>. QED
  BY <1>2, <1>3

LEMMA PowersExist == ASSUME NEW n \in Nat PROVE \E p : Powers(p, n)
<1>. DEFINE without == {m \in Nat : ~\E p : Powers(p, m)}
<1>. SUFFICES ASSUME without # {} PROVE FALSE
  OBVIOUS
<1>1. PICK m \in without : \A k \in without : m <= k
  BY Least
<1>2. CASE m = 0
  <2>1. Powers([i \in {0} |-> 1], 0)
    BY DEF Powers
  <2>. QED
    BY <1>2, <2>1
<1>3. CASE m # 0
  <2>1. m - 1 \in Nat /\ m - 1 \notin without
    BY <1>1, <1>3
  <2>2. PICK p : Powers(p, m - 1)
    BY <2>1
  <2>. DEFINE g == [i \in 0 .. m |-> IF i = m THEN 10 * p[m - 1] ELSE p[i]]
  <2>3. g[0] = 1
    BY <1>3, <2>2 DEF Powers
  <2>4. \A i \in 1 .. m : g[i] = 10 * g[i - 1]
    <3>1. ASSUME NEW i \in 1 .. m PROVE g[i] = 10 * g[i - 1]
      <4>1. i - 1 \in 0 .. m /\ i \in 0 .. m /\ i - 1 # m
        OBVIOUS
      <4>2. g[i - 1] = p[i - 1]
        BY <4>1
      <4>3. CASE i = m
        BY <4>1, <4>2, <4>3
      <4>4. CASE i # m
        <5>1. i \in 1 .. m - 1
          BY <4>4
        <5>2. g[i] = p[i]
          BY <4>1, <4>4
        <5>. QED
          BY <2>2, <4>2, <5>1, <5>2 DEF Powers
      <4>. QED
        BY <4>3, <4>4
    <3>. QED
      BY <3>1
  <2>. QED
    BY <2>3, <2>4 DEF Powers
<1>. QED
  BY <1>2, <1>3

LEMMA PowersAgree ==
    ASSUME NEW n \in Nat, NEW m \in Nat, NEW p, Powers(p, n), NEW q, Powers(q, m),
           NEW i \in Nat, i <= n, i <= m
    PROVE  p[i] = q[i]
<1>. DEFINE apart == {k \in Nat : k <= n /\ k <= m /\ p[k] # q[k]}
<1>. SUFFICES ASSUME apart # {} PROVE FALSE
  OBVIOUS
<1>1. PICK k \in apart : \A j \in apart : k <= j
  BY Least
<1>2. k # 0
  BY DEF Powers
<1>3. k - 1 \in Nat /\ k - 1 \notin apart /\ k \in 1 .. n /\ k \in 1 .. m
  BY <1>1, <1>2
<1>4. p[k - 1] = q[k - 1]
  BY <1>3
<1>. QED
  BY <1>3, <1>4 DEF Powers

\* The recursion of Ten has a solution.
LEMMA TenSteps == Ten = [n \in Nat |-> IF n = 0 THEN 1 ELSE 10 * Ten[n - 1]]
<1>. DEFINE p(n) == CHOOSE q : Powers(q, n)
            f == [n \in Nat |-> p(n)[n]]
            h == [n \in Nat |-> IF n = 0 THEN 1 ELSE 10 * f[n - 1]]
<1>1. \A n \in Nat : Powers(p(n), n)
  BY PowersExist
<1>. HIDE DEF p
<1>2. ASSUME NEW n \in Nat PROVE f[n] = IF n = 0 THEN 1 ELSE 10 * f[n - 1]
  <2>1. CASE n = 0
    BY <1>1, <2>1 DEF Powers
  <2>2. CASE n # 0
    <3>1. n - 1 \in Nat /\ n \in 1 .. n
      BY <2>2
    <3>2. p(n)[n] = 10 * p(n)[n - 1]
      BY <1>1, <3>1 DEF Powers
    <3>3. p(n)[n - 1] = p(n - 1)[n - 1]
      BY <1>1, <3>1, PowersAgree
    <3>. QED
      BY <2>2, <3>1, <3>2, <3>3
  <2>. QED
    BY <2>1, <2>2
<1>3. f = h
  BY <1>2
<1>. HIDE DEF f
<1>4. \E g : g = [n \in Nat |-> IF n = 0 THEN 1 ELSE 10 * g[n - 1]]
  BY <1>3
<1>. QED
  BY <1>4 DEF Ten

LEMMA TenNext ==
    /\ Ten[0] = 1
    /\ \A n \in Nat : Ten[n + 1] = 10 * Ten[n]
<1>1. Ten[0] = 1
  <2>1. \A f : f = [n \in Nat |-> IF n = 0 THEN 1 ELSE 10 * Ten[n - 1]] => f[0] = 1
    OBVIOUS
  <2>. QED
    BY <2>1, TenSteps, Zenon
<1>2. ASSUME NEW n \in Nat PROVE Ten[n + 1] = 10 * Ten[n]
  <2>1. \A f : f = [k \in Nat |-> IF k = 0 THEN 1 ELSE 10 * Ten[k - 1]] => f[n + 1] = 10 * Ten[n]
    OBVIOUS
  <2>. QED
    BY <2>1, TenSteps, Zenon
<1>. QED
  BY <1>1, <1>2

LEMMA TenType == ASSUME NEW n \in Nat PROVE Ten[n] \in Nat \ {0}
<1>. DEFINE bad == {k \in Nat : Ten[k] \notin Nat \ {0}}
<1>. SUFFICES ASSUME bad # {} PROVE FALSE
  OBVIOUS
<1>1. PICK k \in bad : \A j \in bad : k <= j
  BY Least
<1>2. k # 0
  BY TenNext
<1>3. k - 1 \in Nat /\ Ten[k - 1] \in Nat \ {0} /\ (k - 1) + 1 = k
  BY <1>1, <1>2
<1>4. Ten[k] = 10 * Ten[k - 1]
  BY <1>3, TenNext
<1>. QED
  BY <1>3, <1>4

LEMMA TenSum == ASSUME NEW m \in Nat, NEW n \in Nat PROVE Ten[m + n] = Ten[m] * Ten[n]
<1>. DEFINE bad == {k \in Nat : Ten[m + k] # Ten[m] * Ten[k]}
<1>. SUFFICES ASSUME bad # {} PROVE FALSE
  OBVIOUS
<1>1. PICK k \in bad : \A j \in bad : k <= j
  BY Least
<1>2. k # 0
  BY TenNext, TenType
<1>. DEFINE j == k - 1
<1>3. j \in Nat /\ j \notin bad /\ j + 1 = k /\ (m + j) + 1 = m + k /\ m + j \in Nat
  BY <1>1, <1>2
<1>4. Ten[m + j] = Ten[m] * Ten[j]
  BY <1>3
<1>5. Ten[k] = 10 * Ten[j] /\ Ten[m + k] = 10 * Ten[m + j]
  <2>. HIDE DEF j
  <2>. QED
    BY <1>3, TenNext
<1>6. Ten[m] \in Nat /\ Ten[j] \in Nat
  BY <1>3, TenType
<1>7. Ten[m] * Ten[k] = Ten[m + k]
  <2>. HIDE DEF j
  <2>1. \A a, b \in Nat : 10 * (a * b) = a * (10 * b)
    OBVIOUS
  <2>. QED
    BY <1>4, <1>5, <1>6, <2>1
<1>. QED
  BY <1>7

-----------------------------------------------------------------------------
(* Levels: numbers written with decimals.                                   *)

\* A number d.num / 10^d.exp below one.
Fractional(d) == d.num \in Nat /\ d.exp \in Nat /\ d.num < Ten[d.exp]

LEMMA LevelType == ASSUME NEW l \in Levels
                   PROVE  Fractional(l) /\ l.num # 0 /\ l = [num |-> l.num, exp |-> l.exp]
<1>1. PICK e \in 1 .. Digits : l \in [num : 1 .. Ten[e] - 1, exp : {e}]
  BY DEF Levels
<1>2. e \in Nat /\ Ten[e] \in Nat
  BY <1>1, TenType, DigitsAssumption
<1>. QED
  BY <1>1, <1>2 DEF Fractional

LEMMA Division == ASSUME NEW i \in Nat \ {0}, NEW t \in Nat PROVE
   /\ t = (i * (t \div i)) + (t % i) /\ t \div i \in Nat /\ t % i \in 0 .. i - 1
  OBVIOUS

LEMMA Wider == ASSUME NEW a \in Nat, NEW b \in Nat, NEW c \in Nat
               PROVE  /\ a <= b => a * c <= b * c
                      /\ a < b /\ c # 0 => a * c < b * c
<1>1. a <= b => (b - a) * c >= 0
  OBVIOUS
<1>2. a < b /\ c # 0 => (b - a) * c >= c
  OBVIOUS
<1>3. (b - a) * c = (b * c) - (a * c)
  OBVIOUS
<1>. QED
  BY <1>1, <1>2, <1>3

LEMMA Cancel == ASSUME NEW a \in Nat, NEW b \in Nat, NEW c \in Nat \ {0}, a * c = b * c
                PROVE  a = b
  OBVIOUS

\* Decimal equality is symmetric and transitive.
LEMMA SameSymmetric == ASSUME NEW k, NEW l, Same(k, l) PROVE Same(l, k)
  BY DEF Same

LEMMA SameTransitive ==
    ASSUME NEW k, NEW l, NEW m, Same(k, l), Same(l, m),
           k.num \in Nat, l.num \in Nat, m.num \in Nat,
           k.exp \in Nat, l.exp \in Nat, m.exp \in Nat
    PROVE  Same(k, m)
<1>. DEFINE a == k.num
            b == l.num
            c == m.num
            x == Ten[k.exp]
            y == Ten[l.exp]
            z == Ten[m.exp]
<1>1. /\ a \in Nat /\ b \in Nat /\ c \in Nat
      /\ x \in Nat /\ y \in Nat \ {0} /\ z \in Nat
  BY TenType
<1>2. a * y = b * x /\ b * z = c * y
  BY DEF Same
<1>. HIDE DEF a, b, c, x, y, z
<1>3. (a * z) * y = (a * y) * z /\ (c * x) * y = (c * y) * x /\ (b * x) * z = (b * z) * x
  BY <1>1
<1>4. (a * z) * y = (c * x) * y
  BY <1>2, <1>3
<1>5. a * z \in Nat /\ c * x \in Nat
  BY <1>1
<1>6. a * z = c * x
  BY <1>1, <1>4, <1>5, Cancel
<1>. QED
  BY <1>2, <1>6 DEF Same, a, b, c, x, y, z

\* What trimming does: it divides by the power of ten of the zeros.
Zeros(d, z) == /\ z \in 0 .. d.exp /\ d.num % Ten[z] = 0 /\ (d.num \div Ten[z]) % 10 # 0

LEMMA ZerosExist == ASSUME NEW d, Fractional(d), d.num # 0 PROVE \E z : Zeros(d, z)
<1>. DEFINE N == d.num
            divisors == {z \in 0 .. d.exp : N % Ten[z] = 0}
            short == {d.exp - z : z \in divisors}
<1>1. N \in Nat \ {0} /\ d.exp \in Nat /\ N < Ten[d.exp]
  BY DEF Fractional
<1>2. 0 \in divisors
  BY <1>1, TenNext
<1>3. short \subseteq Nat /\ short # {}
  BY <1>1, <1>2
<1>4. PICK k \in short : \A j \in short : k <= j
  BY <1>3, Least
<1>5. PICK z \in divisors : k = d.exp - z
  OBVIOUS
<1>. DEFINE T == Ten[z]
            q == N \div T
<1>6. z \in Nat /\ z <= d.exp /\ N % T = 0 /\ T \in Nat \ {0}
  BY <1>1, TenType
<1>7. N = T * q /\ q \in Nat
  <2>. HIDE DEF T, N
  <2>1. N = (T * q) + (N % T) /\ q \in Nat
    BY <1>1, <1>6, Division
  <2>. HIDE DEF q
  <2>. QED
    BY <1>6, <2>1
<1>8. ASSUME q % 10 = 0 PROVE FALSE
  <2>1. PICK u \in Nat : q = 10 * u
    <3>. HIDE DEF q
    <3>1. q = (10 * (q \div 10)) + (q % 10) /\ q \div 10 \in Nat
      BY <1>7
    <3>. QED
      BY <1>8, <3>1
  <2>. HIDE DEF q
  <2>2. Ten[z + 1] = 10 * T
    BY <1>6, TenNext
  <2>3. N = Ten[z + 1] * u
    <3>. HIDE DEF T, N
    <3>1. T * (10 * u) = (10 * T) * u
      BY <1>6, <2>1
    <3>. QED
      BY <1>7, <2>1, <2>2, <3>1
  <2>4. z # d.exp
    <3>1. ASSUME NEW a \in Nat, NEW b \in Nat, a * b # 0 PROVE a * b >= a
      BY <3>1
    <3>. QED
      BY <1>1, <1>6, <1>7, <3>1
  <2>5. z + 1 \in 0 .. d.exp
    <3>1. z \in Nat /\ d.exp \in Nat /\ z <= d.exp
      BY <1>1, <1>6
    <3>. QED
      BY <2>4, <3>1
  <2>6. N % Ten[z + 1] = 0
    <3>1. Ten[z + 1] \in Nat \ {0}
      BY <1>6, TenType
    <3>2. ASSUME NEW a \in Nat \ {0}, NEW b \in Nat PROVE (a * b) % a = 0
      OBVIOUS
    <3>. HIDE DEF N
    <3>. QED
      BY <2>1, <2>3, <3>1, <3>2
  <2>7. d.exp - (z + 1) \in short
    BY <2>5, <2>6
  <2>8. k <= d.exp - (z + 1)
    BY <1>4, <2>7
  <2>. QED
    <3>1. z \in Nat /\ d.exp \in Nat /\ k = d.exp - z
      BY <1>1, <1>5, <1>6
    <3>. QED
      BY <2>8, <3>1
<1>9. Zeros(d, z)
  BY <1>1, <1>6, <1>8 DEF Zeros
<1>. QED
  BY <1>9

\* A trimmed number is the same number, and below one; it ends in no zero.
LEMMA TrimmedIs ==
    ASSUME NEW d, Fractional(d)
    PROVE  /\ Trimmed(d) = [num |-> Trimmed(d).num, exp |-> Trimmed(d).exp]
           /\ Fractional(Trimmed(d)) /\ Same(Trimmed(d), d) /\ Trimmed(d).exp <= d.exp
           /\ IF d.num = 0 THEN Trimmed(d) = [num |-> 0, exp |-> 0]
                           ELSE Trimmed(d).num % 10 # 0 /\ Trimmed(d).num # 0
<1>1. CASE d.num = 0
  <2>1. Trimmed(d) = [num |-> 0, exp |-> 0]
    BY <1>1 DEF Trimmed
  <2>2. Ten[d.exp] \in Nat
    BY TenType DEF Fractional
  <2>. QED
    BY <1>1, <2>1, <2>2, TenNext DEF Fractional, Same
<1>2. CASE d.num # 0
  <2>. DEFINE z == CHOOSE z \in 0 .. d.exp : d.num % Ten[z] = 0 /\ (d.num \div Ten[z]) % 10 # 0
              T == Ten[z]
              q == d.num \div T
              R == Ten[d.exp - z]
  <2>1. Zeros(d, z)
    BY <1>2, ZerosExist DEF Zeros
  <2>2. Trimmed(d) = [num |-> q, exp |-> d.exp - z]
    BY <1>2 DEF Trimmed
  <2>. HIDE DEF z
  <2>3. z \in Nat /\ d.exp \in Nat /\ z <= d.exp /\ d.exp - z \in Nat /\ d.num \in Nat \ {0}
    BY <1>2, <2>1 DEF Zeros, Fractional
  <2>4. T \in Nat \ {0} /\ R \in Nat \ {0} /\ d.num % T = 0 /\ q % 10 # 0
    BY <2>1, <2>3, TenType DEF Zeros
  <2>5. Ten[d.exp] = T * R
    <3>1. z + (d.exp - z) = d.exp
      BY <2>3
    <3>. QED
      BY <2>3, <3>1, TenSum
  <2>. HIDE DEF T, R
  <2>6. d.num = T * q /\ q \in Nat
    <3>1. d.num = (T * q) + (d.num % T) /\ q \in Nat
      BY <2>3, <2>4, Division
    <3>. HIDE DEF q
    <3>. QED
      BY <2>4, <3>1
  <2>. HIDE DEF q
  <2>7. q * (T * R) = (T * q) * R
    BY <2>4, <2>6
  <2>8. q < R
    <3>1. T * q < T * R
      BY <2>5, <2>6 DEF Fractional
    <3>2. ASSUME NEW a \in Nat, NEW b \in Nat, NEW c \in Nat, a >= b PROVE c * a >= c * b
      BY <3>2
    <3>. QED
      BY <2>4, <2>6, <3>1, <3>2
  <2>9. q # 0
    BY <2>3, <2>4, <2>6
  <2>10. Same(Trimmed(d), d) /\ Fractional(Trimmed(d))
    BY <2>2, <2>3, <2>5, <2>6, <2>7, <2>8 DEF Same, Fractional, R
  <2>. QED
    BY <1>2, <2>2, <2>3, <2>4, <2>9, <2>10
<1>. QED
  BY <1>1, <1>2

\* Equal numbers that end in no zero are written alike.
LEMMA SameTrimmed ==
    ASSUME NEW d, NEW e, Fractional(d), Fractional(e), Same(d, e),
           d.num % 10 # 0, e.num % 10 # 0, d.exp <= e.exp
    PROVE  d.num = e.num /\ d.exp = e.exp
<1>. DEFINE k == e.exp - d.exp
            D == Ten[d.exp]
            E == Ten[e.exp]
            R == Ten[k]
<1>1. d.exp \in Nat /\ e.exp \in Nat /\ k \in Nat /\ d.num \in Nat /\ e.num \in Nat
  BY DEF Fractional
<1>2. D \in Nat \ {0} /\ R \in Nat \ {0}
  BY <1>1, TenType
<1>3. E = D * R
  <2>1. d.exp + k = e.exp
    BY <1>1
  <2>. QED
    BY <1>1, <2>1, TenSum
<1>4. d.num * E = e.num * D
  BY DEF Same
<1>5. d.num * R = e.num
  <2>. HIDE DEF D, E, R, k
  <2>1. d.num * (D * R) = (d.num * R) * D
    BY <1>1, <1>2
  <2>2. (d.num * R) * D = e.num * D /\ d.num * R \in Nat
    BY <1>1, <1>2, <1>3, <1>4, <2>1
  <2>. QED
    BY <1>1, <1>2, <2>2, Cancel
<1>6. k = 0
  <2>1. SUFFICES ASSUME k # 0 PROVE FALSE
    OBVIOUS
  <2>2. k - 1 \in Nat /\ (k - 1) + 1 = k
    BY <1>1, <2>1
  <2>. DEFINE Q == Ten[k - 1]
  <2>3. R = 10 * Q /\ Q \in Nat
    <3>. HIDE DEF k
    <3>. QED
      BY <2>2, TenNext, TenType
  <2>. HIDE DEF R, Q, k
  <2>4. e.num = 10 * (d.num * Q) /\ d.num * Q \in Nat
    BY <1>1, <1>5, <2>3
  <2>5. \A n \in Nat : (10 * n) % 10 = 0
    OBVIOUS
  <2>. QED
    BY <2>4, <2>5
<1>7. R = 1
  BY <1>6, TenNext
<1>. QED
  BY <1>1, <1>5, <1>6, <1>7

\* Equal numbers are trimmed alike.
LEMMA TrimmedAlike ==
    ASSUME NEW d, NEW e, Fractional(d), Fractional(e), Same(d, e)
    PROVE  Trimmed(d) = Trimmed(e)
<1>. DEFINE t == Trimmed(d)
            u == Trimmed(e)
<1>1. Ten[d.exp] \in Nat \ {0} /\ Ten[e.exp] \in Nat \ {0}
      /\ d.num \in Nat /\ e.num \in Nat /\ d.exp \in Nat /\ e.exp \in Nat
  BY TenType DEF Fractional
<1>2. /\ t = [num |-> t.num, exp |-> t.exp] /\ Fractional(t) /\ Same(t, d)
      /\ IF d.num = 0 THEN t = [num |-> 0, exp |-> 0] ELSE t.num % 10 # 0 /\ t.num # 0
  BY TrimmedIs
<1>3. /\ u = [num |-> u.num, exp |-> u.exp] /\ Fractional(u) /\ Same(u, e)
      /\ IF e.num = 0 THEN u = [num |-> 0, exp |-> 0] ELSE u.num % 10 # 0 /\ u.num # 0
  BY TrimmedIs
<1>. HIDE DEF t, u
<1>4. d.num = 0 <=> e.num = 0
  BY <1>1 DEF Same
<1>5. CASE d.num = 0
  BY <1>2, <1>3, <1>4, <1>5 DEF t, u
<1>6. CASE d.num # 0
  <2>1. t.num \in Nat /\ t.exp \in Nat /\ u.num \in Nat /\ u.exp \in Nat
    BY <1>2, <1>3 DEF Fractional
  <2>2. Same(t, e)
    BY <1>1, <1>2, <2>1, SameTransitive
  <2>3. Same(e, u)
    BY <1>3, SameSymmetric
  <2>4. Same(t, u) /\ Same(u, t)
    BY <1>1, <2>1, <2>2, <2>3, SameTransitive, SameSymmetric
  <2>5. t.num % 10 # 0 /\ u.num % 10 # 0
    BY <1>2, <1>3, <1>4, <1>6
  <2>6. t.num = u.num /\ t.exp = u.exp
    <3>1. CASE t.exp <= u.exp
      BY <1>2, <1>3, <2>4, <2>5, <3>1, SameTrimmed
    <3>2. CASE u.exp <= t.exp
      BY <1>2, <1>3, <2>4, <2>5, <3>2, SameTrimmed
    <3>. QED
      BY <2>1, <3>1, <3>2
  <2>. QED
    BY <1>2, <1>3, <2>6 DEF t, u
<1>. QED
  BY <1>5, <1>6

-----------------------------------------------------------------------------
(* Column names.                                                            *)

\* The numbers with the quotients v and w and the rests r and s are as K to L.
Quotient(K, L, v, w, r, s) == ((K * v) + r) * L = ((L * w) + s) * K

LEMMA Quotients ==
    ASSUME NEW K \in Nat \ {0}, NEW L \in Nat \ {0}, NEW v \in Nat, NEW w \in Nat,
           NEW r \in Nat, NEW s \in Nat, r < K, s < L,
           Quotient(K, L, v, w, r, s)
    PROVE  v = w /\ r * L = s * K
<1>1. ((K * v) + r) * L = (v * (K * L)) + (r * L)
  OBVIOUS
<1>2. ((L * w) + s) * K = (w * (K * L)) + (s * K)
  OBVIOUS
<1>. DEFINE P == K * L
<1>3. r * L < P /\ s * K < P /\ r * L \in Nat /\ s * K \in Nat /\ P \in Nat
  <2>1. r \in Nat /\ r < K /\ s \in Nat /\ s < L
    OBVIOUS
  <2>2. r * L < K * L /\ s * K < L * K
    BY <2>1, Wider
  <2>. QED
    BY <2>1, <2>2
<1>4. (v * P) + (r * L) = (w * P) + (s * K)
  BY <1>1, <1>2 DEF Quotient
<1>. DEFINE x == r * L
            y == s * K
<1>. HIDE DEF P, x, y
<1>5. ASSUME NEW p \in Nat, NEW q \in Nat, NEW a \in Nat, NEW b \in Nat, NEW c \in Nat,
             a < c, b < c, p < q
      PROVE  (p * c) + a # (q * c) + b
  <2>1. (p + 1) * c <= q * c
    <3>1. p + 1 \in Nat /\ p + 1 <= q
      BY <1>5
    <3>. QED
      BY <3>1, Wider
  <2>2. (p + 1) * c = (p * c) + c
    OBVIOUS
  <2>. QED
    BY <1>5, <2>1, <2>2
<1>6. x \in Nat /\ y \in Nat /\ P \in Nat /\ x < P /\ y < P /\ (v * P) + x = (w * P) + y
  BY <1>3, <1>4 DEF x, y
<1>7. ~(v < w) /\ ~(w < v)
  BY <1>5, <1>6
<1>8. v = w
  BY <1>7
<1>9. x = y
  <2>1. v * P \in Nat
    BY <1>6
  <2>. QED
    BY <1>6, <1>8, <2>1
<1>. QED
  BY <1>8, <1>9 DEF x, y

LEMMA ColumnIs ==
    ASSUME NEW l, Fractional(l)
    PROVE  LET w == (100 * l.num) \div Ten[l.exp]
               r == (100 * l.num) % Ten[l.exp]
           IN  /\ w \in Nat /\ r \in 0 .. Ten[l.exp] - 1 /\ 100 * l.num = (Ten[l.exp] * w) + r
               /\ QuantileColumn(l) =
                     [whole |-> w, fraction |-> Trimmed([num |-> r, exp |-> l.exp])]
               /\ Fractional([num |-> r, exp |-> l.exp])
<1>. DEFINE N == 100 * l.num
            T == Ten[l.exp]
            w == N \div T
            r == N % T
<1>1. N \in Nat /\ l.exp \in Nat
  BY DEF Fractional
<1>2. T \in Nat \ {0}
  BY <1>1, TenType
<1>3. QuantileColumn(l) = [whole |-> w, fraction |-> Trimmed([num |-> r, exp |-> l.exp])]
  BY DEF QuantileColumn
<1>4. w \in Nat /\ r \in 0 .. T - 1 /\ N = (T * w) + r
  <2>. HIDE DEF N, T
  <2>. QED
    BY <1>1, <1>2, Division
<1>. HIDE DEF w, r
<1>5. Fractional([num |-> r, exp |-> l.exp])
  BY <1>1, <1>2, <1>4 DEF Fractional
<1>. QED
  BY <1>3, <1>4, <1>5 DEF w, r

\* Equal levels have one column.
LEMMA ColumnAlike ==
    ASSUME NEW k, NEW l, Fractional(k), Fractional(l), Same(k, l)
    PROVE  QuantileColumn(k) = QuantileColumn(l)
<1>. DEFINE K == Ten[k.exp]
            L == Ten[l.exp]
            v == (100 * k.num) \div K
            w == (100 * l.num) \div L
            r == (100 * k.num) % K
            s == (100 * l.num) % L
<1>1. /\ v \in Nat /\ r \in 0 .. K - 1 /\ 100 * k.num = (K * v) + r
      /\ QuantileColumn(k) = [whole |-> v, fraction |-> Trimmed([num |-> r, exp |-> k.exp])]
      /\ Fractional([num |-> r, exp |-> k.exp])
  BY ColumnIs
<1>2. /\ w \in Nat /\ s \in 0 .. L - 1 /\ 100 * l.num = (L * w) + s
      /\ QuantileColumn(l) = [whole |-> w, fraction |-> Trimmed([num |-> s, exp |-> l.exp])]
      /\ Fractional([num |-> s, exp |-> l.exp])
  BY ColumnIs
<1>. HIDE DEF v, w, r, s
<1>3. k.num \in Nat /\ l.num \in Nat /\ K \in Nat \ {0} /\ L \in Nat \ {0}
      /\ k.num * L = l.num * K
  BY TenType DEF Fractional, Same
<1>4. (100 * k.num) * L = (100 * l.num) * K
  <2>. HIDE DEF K, L
  <2>1. (100 * k.num) * L = 100 * (k.num * L) /\ (100 * l.num) * K = 100 * (l.num * K)
    BY <1>3
  <2>. QED
    BY <1>3, <2>1
<1>5. v = w /\ r * L = s * K
  <2>. HIDE DEF K, L
  <2>1. Quotient(K, L, v, w, r, s)
    BY <1>1, <1>2, <1>4 DEF Quotient
  <2>. QED
    <3>1. /\ K \in Nat \ {0} /\ L \in Nat \ {0} /\ v \in Nat /\ w \in Nat
          /\ r \in Nat /\ r < K /\ s \in Nat /\ s < L
      BY <1>1, <1>2, <1>3
    <3>. QED
      BY <2>1, <3>1, Quotients
<1>6. Same([num |-> r, exp |-> k.exp], [num |-> s, exp |-> l.exp])
  BY <1>5 DEF Same
<1>7. Trimmed([num |-> r, exp |-> k.exp]) = Trimmed([num |-> s, exp |-> l.exp])
  BY <1>1, <1>2, <1>6, TrimmedAlike
<1>. QED
  BY <1>1, <1>2, <1>5, <1>7

\* The level that a column name writes.
Named(name) == [num |-> name.whole * Ten[name.fraction.exp] + name.fraction.num,
                exp |-> 2 + name.fraction.exp]

\* It is the level that has the column.
LEMMA NamedSame ==
    ASSUME NEW l, Fractional(l)
    PROVE  Same(Named(QuantileColumn(l)), l) /\ Fractional(Named(QuantileColumn(l)))
<1>. DEFINE E == Ten[l.exp]
            w == (100 * l.num) \div E
            r == (100 * l.num) % E
            f == Trimmed([num |-> r, exp |-> l.exp])
            F == Ten[f.exp]
            p == Named(QuantileColumn(l))
<1>1. /\ w \in Nat /\ r \in 0 .. E - 1 /\ 100 * l.num = (E * w) + r
      /\ QuantileColumn(l) = [whole |-> w, fraction |-> f]
      /\ Fractional([num |-> r, exp |-> l.exp])
  BY ColumnIs
<1>. HIDE DEF w, r
<1>2. Fractional(f) /\ Same(f, [num |-> r, exp |-> l.exp])
  BY <1>1, TrimmedIs
<1>3. p = [num |-> (w * F) + f.num, exp |-> 2 + f.exp]
  BY <1>1 DEF Named
<1>. HIDE DEF f, p
<1>4. /\ f.num \in Nat /\ f.exp \in Nat /\ l.num \in Nat /\ l.num < E /\ r \in Nat
      /\ E \in Nat \ {0} /\ F \in Nat \ {0} /\ f.num * E = r * F
  BY <1>1, <1>2, TenType DEF Fractional, Same
<1>5. Ten[2 + f.exp] = 100 * F
  <2>1. Ten[f.exp + 1] = 10 * Ten[f.exp]
    BY <1>4, TenNext
  <2>2. f.exp + 1 \in Nat /\ (f.exp + 1) + 1 = 2 + f.exp
    BY <1>4
  <2>3. Ten[2 + f.exp] = 10 * Ten[f.exp + 1]
    BY <2>2, TenNext
  <2>. QED
    BY <1>4, <2>1, <2>3
<1>. HIDE DEF E, F
<1>6. ((w * F) + f.num) * E = l.num * (100 * F)
  <2>1. ((w * F) + f.num) * E = ((w * F) * E) + (f.num * E)
    BY <1>1, <1>4
  <2>2. l.num * (100 * F) = (100 * l.num) * F
    BY <1>4
  <2>3. ((E * w) + r) * F = ((w * F) * E) + (r * F)
    BY <1>1, <1>4
  <2>. QED
    BY <1>1, <1>4, <2>1, <2>2, <2>3
<1>7. Same(p, l)
  BY <1>3, <1>5, <1>6 DEF Same, E
<1>8. (w * F) + f.num \in Nat
  BY <1>1, <1>4
<1>9. (w * F) + f.num < 100 * F
  <2>. DEFINE x == (w * F) + f.num
              y == 100 * F
  <2>1. x \in Nat /\ y \in Nat \ {0} /\ x * E = l.num * y
    BY <1>4, <1>6, <1>8
  <2>. HIDE DEF x, y
  <2>2. ASSUME x >= y PROVE FALSE
    <3>. DEFINE n == l.num
    <3>1. n \in Nat /\ n < E /\ E \in Nat /\ x * E = n * y
      BY <1>4, <2>1
    <3>. HIDE DEF n
    <3>2. y * E <= x * E
      BY <2>1, <2>2, <3>1, Wider
    <3>3. n * y < E * y
      BY <2>1, <3>1, Wider
    <3>4. y * E = E * y /\ y * E \in Int /\ n * y \in Int
      BY <2>1, <3>1
    <3>. QED
      BY <3>1, <3>2, <3>3, <3>4
  <2>3. x < y
    BY <2>1, <2>2
  <2>. QED
    BY <2>3 DEF x, y
<1>10. Fractional(p)
  BY <1>3, <1>4, <1>5, <1>8, <1>9 DEF Fractional
<1>. QED
  BY <1>7, <1>10 DEF p

\* A column name parses to the level it was made from.
LEMMA Parses ==
    ASSUME NEW l, Fractional(l)
    PROVE  /\ ParseQuantileColumn(QuantileColumn(l)) # None
           /\ Same(ParseQuantileColumn(QuantileColumn(l)), l)
<1>. DEFINE name == QuantileColumn(l)
<1>1. Same(Named(name), l) /\ Fractional(Named(name))
  BY NamedSame
<1>2. QuantileColumn(Named(name)) = name
  BY <1>1, ColumnAlike
<1>3. ParseQuantileColumn(name) = Named(name)
  BY <1>2 DEF ParseQuantileColumn, Named
<1>4. Named(name) \in [num : Nat, exp : Nat]
  BY <1>1 DEF Named, Fractional
<1>. QED
  BY <1>1, <1>3, <1>4, NoneAssumption

\* Levels of one column are equal.
LEMMA ColumnSame ==
    ASSUME NEW k, NEW l, Fractional(k), Fractional(l), QuantileColumn(k) = QuantileColumn(l)
    PROVE  Same(k, l)
<1>. DEFINE p == Named(QuantileColumn(k))
<1>1. Same(p, k) /\ Same(p, l) /\ Fractional(p)
  BY NamedSame
<1>. HIDE DEF p
<1>2. Same(k, p)
  BY <1>1, SameSymmetric
<1>. QED
  BY <1>1, <1>2, SameTransitive DEF Fractional

\* A printed level is a level, the same number, and has the same column.
LEMMA ShortIs ==
    ASSUME NEW l \in Levels
    PROVE  Short(l) \in Levels /\ Same(Short(l), l) /\ QuantileColumn(Short(l)) = QuantileColumn(l)
<1>. DEFINE t == Short(l)
<1>1. Fractional(l) /\ l.num # 0
  BY LevelType
<1>2. /\ t = [num |-> t.num, exp |-> t.exp] /\ Fractional(t) /\ Same(t, l) /\ t.exp <= l.exp
      /\ t.num # 0
  BY <1>1, TrimmedIs DEF Short
<1>. HIDE DEF t
<1>3. t.num \in Nat /\ t.exp \in Nat /\ t.num < Ten[t.exp]
  BY <1>2 DEF Fractional
<1>4. t.exp # 0
  BY <1>2, <1>3, TenNext
<1>5. l.exp \in 1 .. Digits /\ Digits \in Nat
  BY DigitsAssumption DEF Levels
<1>6. t.exp \in 1 .. Digits
  BY <1>2, <1>3, <1>4, <1>5
<1>7. Ten[t.exp] \in Nat /\ t.num \in 1 .. Ten[t.exp] - 1
  BY <1>2, <1>3, TenType
<1>8. t \in [num : 1 .. Ten[t.exp] - 1, exp : {t.exp}]
  <2>. DEFINE n == t.num
              e == t.exp
              M == 1 .. Ten[t.exp] - 1
  <2>1. n \in M /\ t = [num |-> n, exp |-> e]
    BY <1>2, <1>7
  <2>. HIDE DEF n, e, M
  <2>2. t \in [num : M, exp : {e}]
    BY <2>1
  <2>. QED
    BY <2>2 DEF n, e, M
<1>9. t \in Levels
  BY <1>6, <1>8 DEF Levels
<1>10. QuantileColumn(t) = QuantileColumn(l)
  BY <1>1, <1>2, ColumnAlike
<1>. QED
  BY <1>2, <1>9, <1>10 DEF t

-----------------------------------------------------------------------------
(* Specs and their rows.                                                    *)

LEMMA SameTruth == \A a, b \in BOOLEAN : (a <=> b) => a = b
  OBVIOUS

\* The specs of stored tables: their bands are of no concern here.
SpecShape(s) ==
    \/ /\ s = [role |-> "actuals", revisions |-> s.revisions, observed |-> s.observed]
       /\ s.observed \in BOOLEAN
    \/ s = [role |-> "predictors", band |-> s.band, value |-> s.value]
    \/ s = [role |-> "forecasts", band |-> s.band, mean |-> s.mean]

\* A row says everything of its spec.
LEMMA RowDescribes ==
    ASSUME NEW s, SpecShape(s), NEW e
    PROVE  SpecOf(RowOf(s, e)) = s /\ RowOf(s, e).enforcement = e
<1>1. CASE s.role = "actuals"
  <2>1. s = [role |-> "actuals", revisions |-> s.revisions, observed |-> s.observed]
        /\ s.observed \in BOOLEAN
    BY <1>1 DEF SpecShape
  <2>2. CASE s.observed
    <3>1. RowOf(s, e) = [enforcement |-> e, role |-> "actuals", revisions |-> s.revisions,
                         has_target_time_observed |-> TRUE]
      BY <1>1, <2>2 DEF RowOf
    <3>2. SpecOf(RowOf(s, e)) = [role |-> "actuals", revisions |-> s.revisions, observed |-> TRUE]
      BY <3>1 DEF SpecOf, Get
    <3>3. s.observed = TRUE
      BY <2>1, <2>2, Zenon
    <3>4. SpecOf(RowOf(s, e)) = s
      BY <2>1, <3>2, <3>3, Zenon
    <3>. QED
      BY <3>1, <3>4
  <2>3. CASE ~s.observed
    <3>1. RowOf(s, e) = [enforcement |-> e, role |-> "actuals", revisions |-> s.revisions]
      BY <1>1, <2>3 DEF RowOf
    <3>2. SpecOf(RowOf(s, e)) = [role |-> "actuals", revisions |-> s.revisions, observed |-> FALSE]
      BY <3>1 DEF SpecOf, Get
    <3>3. s.observed = FALSE
      BY <2>1, <2>3, Zenon
    <3>4. SpecOf(RowOf(s, e)) = s
      BY <2>1, <3>2, <3>3, Zenon
    <3>. QED
      BY <3>1, <3>4
  <2>. QED
    BY <2>2, <2>3
<1>2. CASE s.role = "predictors"
  <2>1. s = [role |-> "predictors", band |-> s.band, value |-> s.value]
    BY <1>2 DEF SpecShape
  <2>2. RowOf(s, e) = [enforcement |-> e, role |-> "predictors",
                       quantile_band |-> s.band, has_value |-> s.value]
    BY <1>2 DEF RowOf
  <2>. QED
    BY <2>1, <2>2 DEF SpecOf, Get
<1>3. CASE s.role = "forecasts"
  <2>1. s = [role |-> "forecasts", band |-> s.band, mean |-> s.mean]
    BY <1>3 DEF SpecShape
  <2>2. RowOf(s, e) = [enforcement |-> e, role |-> "forecasts",
                       quantile_band |-> s.band, has_mean |-> s.mean]
    BY <1>3 DEF RowOf
  <2>. QED
    BY <2>1, <2>2 DEF SpecOf, Get
<1>. QED
  BY <1>1, <1>2, <1>3 DEF SpecShape

\* A finite set of numbers has a greatest one.
LEMMA Greatest ==
    ASSUME NEW S, IsFiniteSet(S), S # {}, S \subseteq Nat
    PROVE  \E n \in S : \A m \in S : m <= n
<1>. DEFINE Unbounded == {T \in FiniteSubsetsOf(S) : T # {} /\ \A n \in T : \E m \in T : ~(m <= n)}
<1>1. SUFFICES ASSUME Unbounded # {} PROVE FALSE
  <2>1. S \in FiniteSubsetsOf(S)
    BY FS_FiniteSubsetsOfFinite
  <2>. QED
    BY <2>1
<1>2. PICK T \in Unbounded : \A U \in Unbounded : <<U, T>> \notin StrictSubsetOrdering(S)
  BY <1>1, FS_StrictSubsetOrderingWellFounded, WFMin, Zenon
<1>3. PICK n \in T : TRUE
  OBVIOUS
<1>4. T \in SUBSET S /\ IsFiniteSet(T)
  BY FS_FiniteSubsetsOfFinite, FS_Subset
<1>5. IsFiniteSet(T \ {n}) /\ T \ {n} \in FiniteSubsetsOf(S)
  BY <1>4, FS_Subset, FS_FiniteSubsetsOfFinite
<1>6. <<T \ {n}, T>> \in StrictSubsetOrdering(S)
  BY <1>3, <1>4 DEF StrictSubsetOrdering
<1>7. T \ {n} \notin Unbounded
  BY <1>2, <1>6
<1>8. CASE T = {n}
  BY <1>4, <1>8
<1>9. CASE T # {n}
  <2>1. PICK k \in T \ {n} : \A m \in T \ {n} : m <= k
    BY <1>3, <1>5, <1>7, <1>9
  <2>2. \A i \in T : i \in Nat
    BY <1>4
  <2>3. (\A m \in T : m <= k) \/ (\A m \in T : m <= n)
    BY <2>1, <2>2
  <2>. QED
    BY <2>1, <2>3
<1>. QED
  BY <1>8, <1>9

-----------------------------------------------------------------------------
(* The inductive invariant.                                                 *)

Function(f) == f = [n \in DOMAIN f |-> f[n]]

Settings == {"monitor", "fk"} \X BOOLEAN

\* A declaration, whether a caller's, recovered or from the file.
Declaration(c) ==
    /\ c = [tables |-> c.tables, enforcement |-> c.enforcement, guard |-> c.guard]
    /\ Function(c.tables) /\ DOMAIN c.tables \subseteq Names
    /\ \A n \in DOMAIN c.tables : SpecShape(c.tables[n])
    /\ c.enforcement \in {"monitor", "fk"} /\ c.guard \in BOOLEAN

\* store_tables has a row for every table, which describes it.
Described(st) ==
    /\ st = [rows |-> st.rows, shapes |-> st.shapes, triggers |-> st.triggers, guard |-> st.guard]
    /\ Function(st.rows) /\ Function(st.shapes)
    /\ DOMAIN st.rows = DOMAIN st.shapes /\ DOMAIN st.rows \subseteq Names
    /\ \A n \in DOMAIN st.rows :
          SpecShape(st.shapes[n]) /\ st.rows[n] = RowOf(st.shapes[n], st.rows[n].enforcement)

\* Its switches are those of the settings committed so far, and its tables have the
\* triggers that every one of them asks for.
Switched(st, set) ==
    /\ set \subseteq Settings
    /\ st.guard \in BOOLEAN /\ (st.guard <=> \E s \in set : s[2])
    /\ \A n \in DOMAIN st.rows :
          /\ SingleBelief(st.shapes[n]) => <<n, "belief_guard">> \in st.triggers
          /\ (\A s \in set : s[2]) /\ ~SingleBelief(st.shapes[n]) =>
                <<n, "append_only_guard">> \in st.triggers
          /\ \E s \in set : st.rows[n].enforcement = s[1]

\* st only adds to what old is.
Extends(st, old) ==
    /\ \A n \in DOMAIN old.rows : /\ n \in DOMAIN st.rows /\ st.rows[n] = old.rows[n]
                                  /\ st.shapes[n] = old.shapes[n]
    /\ old.triggers \subseteq st.triggers
    /\ old.guard => st.guard

\* What a report of success claims, of the store st.
DeclaresIn(st, c, overtaken) ==
    /\ DOMAIN c.tables \subseteq DOMAIN st.rows
    /\ \A n \in DOMAIN c.tables \ overtaken : /\ st.rows[n] = RowsOf(c)[n]
                                             /\ st.shapes[n] = c.tables[n]
    /\ Attached(c) \subseteq st.triggers

\* A provisioning under way has a declaration, which differs from nothing but the
\* tables it was overtaken in; one that ended reported the truth of the others.
JobOk(j, st) ==
    /\ j = [pc |-> j.pc, config |-> j.config, overtaken |-> j.overtaken, reported |-> j.reported]
    /\ j.pc \in {"idle", "checked", "waiting", "executed"}
    /\ j.overtaken \subseteq Names
    /\ j.pc # "idle" =>
          /\ Declaration(j.config) /\ j.reported = None
          /\ Differs(st.rows, j.config) \subseteq j.overtaken
    /\ j.reported # None => DeclaresIn(st, j.reported, j.overtaken)

\* What a reader has read is still stored, and what it keeps is true.
ReaderOk(d, st) ==
    /\ d = [pc |-> d.pc, rows |-> d.rows, config |-> d.config]
    /\ d.pc = "kept" => d.config # None
    /\ Function(d.rows)
    /\ \A n \in DOMAIN d.rows : n \in DOMAIN st.rows /\ st.rows[n] = d.rows[n]
    /\ d.config # None =>
          /\ Declaration(d.config)
          /\ \A n \in DOMAIN d.config.tables :
                n \in DOMAIN st.rows /\ st.shapes[n] = d.config.tables[n]
          /\ \E n \in DOMAIN d.config.tables : st.rows[n].enforcement = d.config.enforcement
          /\ d.config.guard => st.guard

Alone == \A p, q \in Provisioners : job[p].pc = "executed" /\ job[q].pc = "executed" => p = q

IInv ==
    /\ Described(store) /\ Switched(store, settings) /\ Alone
    /\ job = [p \in Provisioners |-> job[p]] /\ reader = [r \in Readers |-> reader[r]]
    /\ \A p \in Provisioners : JobOk(job[p], store)
    /\ \A r \in Readers : ReaderOk(reader[r], store)
    /\ file # None => Declaration(file)

LEMMA Initially == ASSUME Init PROVE IInv
<1>1. Described(store) /\ Switched(store, settings)
  BY DEF Init, Empty, Described, Switched, Function
<1>2. \A p \in Provisioners : job[p] = NoJob
  BY DEF Init
<1>3. \A r \in Readers : reader[r] = NoReader
  BY DEF Init
<1>4. Alone /\ \A p \in Provisioners : JobOk(job[p], store)
  BY <1>2 DEF Alone, JobOk, NoJob
<1>5. \A r \in Readers : ReaderOk(reader[r], store)
  BY <1>3 DEF ReaderOk, NoReader, Function
<1>. QED
  BY <1>1, <1>4, <1>5 DEF Init, IInv

-----------------------------------------------------------------------------
(* Declarations and what applying them does.                                *)

LEMMA NormalizedShape == ASSUME NEW s \in Specs PROVE SpecShape(Normalized(s))
<1>1. CASE s \in [role : {"actuals"}, revisions : BOOLEAN, observed : BOOLEAN]
  BY <1>1 DEF Normalized, SpecShape
<1>2. CASE s \in [role : {"predictors"}, band : Seq(Levels), value : BOOLEAN]
  <2>1. Normalized(s) = [role |-> "predictors", band |-> Canonical(s.band), value |-> s.value]
    BY <1>2 DEF Normalized
  <2>. QED
    BY <2>1 DEF SpecShape
<1>3. CASE s \in [role : {"forecasts"}, band : Seq(Levels), mean : BOOLEAN]
  <2>1. Normalized(s) = [role |-> "forecasts", band |-> Canonical(s.band), mean |-> s.mean]
    BY <1>3 DEF Normalized
  <2>. QED
    BY <2>1 DEF SpecShape
<1>. QED
  BY <1>1, <1>2, <1>3 DEF Specs

LEMMA RequestedDeclares == ASSUME IInv, NEW c \in Requested PROVE Declaration(c)
<1>1. CASE c \in Configs
  <2>1. PICK q \in Requests :
            c = [q EXCEPT !.tables = [n \in DOMAIN q.tables |-> Normalized(q.tables[n])]]
    BY <1>1 DEF Configs
  <2>2. /\ q = [tables |-> q.tables, enforcement |-> q.enforcement, guard |-> q.guard]
        /\ q.tables \in [DOMAIN q.tables -> Specs]
        /\ q.enforcement \in {"monitor", "fk"} /\ q.guard \in BOOLEAN
        /\ DOMAIN q.tables \subseteq Names
    BY RequestsAssumption DEF Names
  <2>. DEFINE tables == [n \in DOMAIN q.tables |-> Normalized(q.tables[n])]
  <2>3. c = [tables |-> tables, enforcement |-> q.enforcement, guard |-> q.guard]
    BY <2>1, <2>2
  <2>4. Function(tables) /\ DOMAIN tables \subseteq Names
    BY <2>2 DEF Function
  <2>5. \A n \in DOMAIN tables : SpecShape(tables[n])
    BY <2>2, NormalizedShape
  <2>. HIDE DEF tables
  <2>. QED
    BY <2>2, <2>3, <2>4, <2>5 DEF Declaration
<1>2. CASE c \notin Configs
  BY <1>2 DEF Requested, IInv
<1>. QED
  BY <1>1, <1>2

LEMMA PrintedShape == ASSUME NEW s, SpecShape(s) PROVE SpecShape(PrintedSpec(s))
<1>1. CASE s.role = "actuals"
  BY <1>1 DEF PrintedSpec
<1>2. CASE s = [role |-> "predictors", band |-> s.band, value |-> s.value]
  <2>1. PrintedSpec(s) = [role |-> "predictors", band |-> Dumped(s.band), value |-> s.value]
    BY <1>2 DEF PrintedSpec
  <2>. QED
    BY <2>1 DEF SpecShape
<1>3. CASE s = [role |-> "forecasts", band |-> s.band, mean |-> s.mean]
  <2>1. PrintedSpec(s) = [role |-> "forecasts", band |-> Dumped(s.band), mean |-> s.mean]
    BY <1>3 DEF PrintedSpec
  <2>. QED
    BY <2>1 DEF SpecShape
<1>. QED
  BY <1>1, <1>2, <1>3 DEF SpecShape

LEMMA PrintedDeclares == ASSUME NEW c, Declaration(c) PROVE Declaration(Printed(c))
<1>. DEFINE tables == [n \in DOMAIN c.tables |-> PrintedSpec(c.tables[n])]
<1>1. Printed(c) = [tables |-> tables, enforcement |-> c.enforcement, guard |-> c.guard]
  BY DEF Printed, Declaration
<1>2. Function(tables) /\ DOMAIN tables \subseteq Names
  BY DEF Function, Declaration
<1>3. \A n \in DOMAIN tables : SpecShape(tables[n])
  BY PrintedShape DEF Declaration
<1>. HIDE DEF tables
<1>. QED
  BY <1>1, <1>2, <1>3 DEF Declaration

\* What the generated statements leave of the store st.
LEMMA AppliedStore ==
    ASSUME NEW st, Described(st), NEW c, Declaration(c)
    PROVE  LET ap == Applied(st, c)
           IN  /\ ap = [rows |-> ap.rows, shapes |-> ap.shapes, triggers |-> ap.triggers,
                        guard |-> ap.guard]
               /\ Function(ap.rows) /\ Function(ap.shapes)
               /\ DOMAIN ap.rows = DOMAIN st.rows \cup DOMAIN c.tables
               /\ DOMAIN ap.shapes = DOMAIN st.rows \cup DOMAIN c.tables
               /\ \A n \in DOMAIN st.rows :
                     ap.rows[n] = st.rows[n] /\ ap.shapes[n] = st.shapes[n]
               /\ \A n \in DOMAIN c.tables \ DOMAIN st.rows :
                     /\ ap.rows[n] = RowOf(c.tables[n], c.enforcement)
                     /\ ap.shapes[n] = c.tables[n]
               /\ ap.triggers = st.triggers \cup Attached(c)
               /\ ap.guard = (st.guard \/ c.guard)
<1>1. /\ Applied(st, c).rows = Completed(st.rows, RowsOf(c))
      /\ Applied(st, c).shapes = Completed(st.shapes, c.tables)
      /\ Applied(st, c).triggers = st.triggers \cup Attached(c)
      /\ Applied(st, c).guard = (st.guard \/ c.guard)
      /\ Applied(st, c) = [rows |-> Completed(st.rows, RowsOf(c)),
                           shapes |-> Completed(st.shapes, c.tables),
                           triggers |-> st.triggers \cup Attached(c),
                           guard |-> st.guard \/ c.guard]
  BY DEF Applied, Seeded
<1>2. DOMAIN st.rows = DOMAIN st.shapes /\ DOMAIN RowsOf(c) = DOMAIN c.tables
  BY DEF Described, RowsOf
<1>3. \A n \in DOMAIN c.tables : RowsOf(c)[n] = RowOf(c.tables[n], c.enforcement)
  BY DEF RowsOf
<1>. QED
  BY <1>1, <1>2, <1>3 DEF Completed, Function

\* A row that differs from nothing is the row the declaration would seed.
LEMMA Agreeing ==
    ASSUME NEW st, Described(st), NEW c, Declaration(c),
           NEW n \in DOMAIN c.tables, n \in DOMAIN st.rows, n \notin Differs(st.rows, c)
    PROVE  st.rows[n] = RowsOf(c)[n] /\ st.shapes[n] = c.tables[n]
<1>1. st.rows[n] = RowsOf(c)[n]
  BY DEF Differs
<1>2. RowsOf(c)[n] = RowOf(c.tables[n], c.enforcement)
  BY DEF RowsOf
<1>3. SpecShape(c.tables[n]) /\ SpecShape(st.shapes[n])
      /\ st.rows[n] = RowOf(st.shapes[n], st.rows[n].enforcement)
  BY DEF Declaration, Described
<1>4. SpecOf(st.rows[n]) = c.tables[n]
  BY <1>1, <1>2, <1>3, RowDescribes
<1>5. SpecOf(st.rows[n]) = st.shapes[n]
  BY <1>3, RowDescribes
<1>. QED
  BY <1>1, <1>4, <1>5

LEMMA AppliedDescribed ==
    ASSUME NEW st, Described(st), NEW c, Declaration(c)
    PROVE  Described(Applied(st, c)) /\ Extends(Applied(st, c), st)
<1>. DEFINE ap == Applied(st, c)
<1>1. /\ ap = [rows |-> ap.rows, shapes |-> ap.shapes, triggers |-> ap.triggers,
               guard |-> ap.guard]
      /\ Function(ap.rows) /\ Function(ap.shapes)
      /\ DOMAIN ap.rows = DOMAIN st.rows \cup DOMAIN c.tables
      /\ DOMAIN ap.shapes = DOMAIN st.rows \cup DOMAIN c.tables
      /\ \A n \in DOMAIN st.rows : ap.rows[n] = st.rows[n] /\ ap.shapes[n] = st.shapes[n]
      /\ \A n \in DOMAIN c.tables \ DOMAIN st.rows :
            /\ ap.rows[n] = RowOf(c.tables[n], c.enforcement)
            /\ ap.shapes[n] = c.tables[n]
      /\ ap.triggers = st.triggers \cup Attached(c)
      /\ ap.guard = (st.guard \/ c.guard)
  BY AppliedStore
<1>. HIDE DEF ap
<1>2. DOMAIN ap.rows \subseteq Names
  BY <1>1 DEF Described, Declaration
<1>3. ASSUME NEW n \in DOMAIN ap.rows
      PROVE  SpecShape(ap.shapes[n]) /\ ap.rows[n] = RowOf(ap.shapes[n], ap.rows[n].enforcement)
  <2>1. CASE n \in DOMAIN st.rows
    BY <1>1, <2>1 DEF Described
  <2>2. CASE n \notin DOMAIN st.rows
    <3>1. n \in DOMAIN c.tables \ DOMAIN st.rows /\ SpecShape(c.tables[n])
      BY <1>1, <2>2 DEF Declaration
    <3>2. RowOf(c.tables[n], c.enforcement).enforcement = c.enforcement
      BY <3>1, RowDescribes
    <3>. QED
      BY <1>1, <3>1, <3>2
  <2>. QED
    BY <2>1, <2>2
<1>4. Described(ap)
  BY <1>1, <1>2, <1>3 DEF Described
<1>5. Extends(ap, st)
  BY <1>1 DEF Extends
<1>. QED
  BY <1>4, <1>5 DEF ap

LEMMA AppliedDeclares ==
    ASSUME NEW st, Described(st), NEW c, Declaration(c),
           NEW overtaken, Differs(st.rows, c) \subseteq overtaken
    PROVE  DeclaresIn(Applied(st, c), c, overtaken)
<1>. DEFINE ap == Applied(st, c)
<1>1. /\ DOMAIN ap.rows = DOMAIN st.rows \cup DOMAIN c.tables
      /\ \A n \in DOMAIN st.rows : ap.rows[n] = st.rows[n] /\ ap.shapes[n] = st.shapes[n]
      /\ \A n \in DOMAIN c.tables \ DOMAIN st.rows :
            /\ ap.rows[n] = RowOf(c.tables[n], c.enforcement)
            /\ ap.shapes[n] = c.tables[n]
      /\ ap.triggers = st.triggers \cup Attached(c)
  BY AppliedStore
<1>. HIDE DEF ap
<1>2. \A n \in DOMAIN c.tables : RowsOf(c)[n] = RowOf(c.tables[n], c.enforcement)
  BY DEF RowsOf
<1>3. ASSUME NEW n \in DOMAIN c.tables \ overtaken
      PROVE  ap.rows[n] = RowsOf(c)[n] /\ ap.shapes[n] = c.tables[n]
  <2>1. CASE n \in DOMAIN st.rows
    BY <1>1, <2>1, Agreeing
  <2>2. CASE n \notin DOMAIN st.rows
    BY <1>1, <1>2, <2>2
  <2>. QED
    BY <2>1, <2>2
<1>. QED
  BY <1>1, <1>3 DEF DeclaresIn, ap

LEMMA AppliedSwitched ==
    ASSUME NEW st, NEW set, Described(st), Switched(st, set), NEW c, Declaration(c)
    PROVE  Switched(Applied(st, c), set \cup {<<c.enforcement, c.guard>>})
<1>. DEFINE ap == Applied(st, c)
            new == set \cup {<<c.enforcement, c.guard>>}
<1>1. /\ DOMAIN ap.rows = DOMAIN st.rows \cup DOMAIN c.tables
      /\ \A n \in DOMAIN st.rows : ap.rows[n] = st.rows[n] /\ ap.shapes[n] = st.shapes[n]
      /\ \A n \in DOMAIN c.tables \ DOMAIN st.rows :
            /\ ap.rows[n] = RowOf(c.tables[n], c.enforcement)
            /\ ap.shapes[n] = c.tables[n]
      /\ ap.triggers = st.triggers \cup Attached(c)
      /\ ap.guard = (st.guard \/ c.guard)
  BY AppliedStore
<1>. HIDE DEF ap
<1>2. new \subseteq Settings
  BY DEF Declaration, Switched, Settings
<1>3. ap.guard \in BOOLEAN /\ (ap.guard <=> \E s \in new : s[2])
  <2>1. (\E s \in new : s[2]) <=> (\E s \in set : s[2]) \/ c.guard
    <3>. DEFINE own == <<c.enforcement, c.guard>>
    <3>1. own[2] = c.guard
      OBVIOUS
    <3>2. \A s : s \in new <=> s \in set \/ s = own
      OBVIOUS
    <3>. HIDE DEF own, new
    <3>. QED
      BY <3>1, <3>2, Zenon
  <2>2. (st.guard <=> \E s \in set : s[2])
    BY DEF Switched
  <2>. QED
    BY <1>1, <2>1, <2>2, Zenon
<1>4. ASSUME NEW n \in DOMAIN ap.rows
      PROVE  /\ SingleBelief(ap.shapes[n]) => <<n, "belief_guard">> \in ap.triggers
             /\ (\A s \in new : s[2]) /\ ~SingleBelief(ap.shapes[n]) =>
                   <<n, "append_only_guard">> \in ap.triggers
             /\ \E s \in new : ap.rows[n].enforcement = s[1]
  <2>1. CASE n \in DOMAIN st.rows
    BY <1>1, <2>1 DEF Switched
  <2>2. CASE n \notin DOMAIN st.rows
    <3>1. /\ n \in DOMAIN c.tables /\ ap.shapes[n] = c.tables[n]
          /\ ap.rows[n].enforcement = c.enforcement
      BY <1>1, <2>2, RowDescribes DEF Declaration
    <3>2. /\ SingleBelief(c.tables[n]) => <<n, "belief_guard">> \in ap.triggers
          /\ c.guard /\ ~SingleBelief(c.tables[n]) => <<n, "append_only_guard">> \in ap.triggers
      BY <1>1, <3>1 DEF Attached
    <3>3. <<c.enforcement, c.guard>> \in new
      OBVIOUS
    <3>. QED
      BY <3>1, <3>2, <3>3
  <2>. QED
    BY <2>1, <2>2
<1>. QED
  BY <1>2, <1>3, <1>4 DEF Switched, ap

\* What was reported, and what readers have, survives an extension of the store.
LEMMA DeclaresLasts ==
    ASSUME NEW st, NEW new, Extends(new, st), NEW c, NEW overtaken, DeclaresIn(st, c, overtaken)
    PROVE  DeclaresIn(new, c, overtaken)
  BY DEF Extends, DeclaresIn

LEMMA ReaderLasts ==
    ASSUME NEW st, NEW new, Extends(new, st), NEW d, ReaderOk(d, st)
    PROVE  ReaderOk(d, new)
  BY DEF Extends, ReaderOk

\* What is rebuilt of rows the store has is a declaration, true of the tables.
LEMMA RebuiltDeclares ==
    ASSUME NEW st, NEW set, Described(st), Switched(st, set), NEW rows, Function(rows),
           \A n \in DOMAIN rows : n \in DOMAIN st.rows /\ st.rows[n] = rows[n],
           NEW c, c = Rebuilt(rows, st.guard), c # None
    PROVE  /\ Declaration(c) /\ DOMAIN c.tables = DOMAIN rows
           /\ \A n \in DOMAIN c.tables : st.shapes[n] = c.tables[n]
           /\ c.guard = st.guard
           /\ \E last \in DOMAIN rows : c.enforcement = rows[last].enforcement
<1>. DEFINE last == CHOOSE n \in DOMAIN rows : \A m \in DOMAIN rows : m <= n
            tables == [n \in DOMAIN rows |-> SpecOf(rows[n])]
<1>1. /\ DOMAIN rows # {}
      /\ c = [tables |-> tables, enforcement |-> rows[last].enforcement, guard |-> st.guard]
  BY DEF Rebuilt
<1>2. last \in DOMAIN rows
  <2>1. DOMAIN rows \subseteq Names /\ Names \subseteq Nat /\ IsFiniteSet(Names)
    BY RequestsAssumption DEF Described
  <2>2. DOMAIN rows \in SUBSET Names /\ DOMAIN rows \subseteq Nat
    BY <2>1, Zenon
  <2>3. \E n \in DOMAIN rows : \A m \in DOMAIN rows : m <= n
    BY <1>1, <2>1, <2>2, FS_Subset, Greatest
  <2>. QED
    BY <2>3
<1>3. ASSUME NEW n \in DOMAIN rows
      PROVE  SpecShape(tables[n]) /\ st.shapes[n] = tables[n]
  <2>1. SpecShape(st.shapes[n]) /\ rows[n] = RowOf(st.shapes[n], st.rows[n].enforcement)
    BY DEF Described
  <2>. QED
    BY <2>1, RowDescribes
<1>4. rows[last].enforcement \in {"monitor", "fk"} /\ st.guard \in BOOLEAN
  BY <1>2 DEF Switched, Settings
<1>5. Function(tables) /\ DOMAIN tables = DOMAIN rows /\ DOMAIN rows \subseteq Names
  BY DEF Function, Described
<1>. HIDE DEF last, tables
<1>. QED
  BY <1>1, <1>2, <1>3, <1>4, <1>5 DEF Declaration

-----------------------------------------------------------------------------
(* Readers.                                                                 *)

\* A step of a reader keeps the invariant if it leaves the reader in order.
LEMMA ReaderStep ==
    ASSUME IInv, NEW r \in Readers, NEW d, reader' = [reader EXCEPT ![r] = d],
           ReaderOk(d, store), UNCHANGED <<store, job, file, settings>>
    PROVE  IInv'
<1>1. reader' = [x \in Readers |-> reader'[x]] /\ \A x \in Readers : ReaderOk(reader'[x], store)
  BY DEF IInv
<1>. QED
  BY <1>1 DEF IInv, Alone

LEMMA ReadersKeep ==
    ASSUME IInv, NEW r \in Readers, ReadRows(r) \/ ReadGuard(r) \/ Drop(r) \/ Describe(r)
    PROVE  IInv'
<1>1. ReaderOk(reader[r], store) /\ Described(store) /\ Switched(store, settings)
  BY DEF IInv
<1>2. CASE ReadRows(r)
  <2>. DEFINE once == [reader[r] EXCEPT !.pc = "rows"]
              d == [once EXCEPT !.rows = store.rows]
  <2>1. reader' = [reader EXCEPT ![r] = d]
    BY <1>2 DEF ReadRows
  <2>2. once = [pc |-> "rows", rows |-> reader[r].rows, config |-> reader[r].config]
    BY <1>1 DEF ReaderOk
  <2>. HIDE DEF once
  <2>3. d = [pc |-> "rows", rows |-> store.rows, config |-> reader[r].config]
    BY <2>2
  <2>. HIDE DEF d
  <2>4. ReaderOk(d, store)
    BY <1>1, <2>3 DEF ReaderOk, Described
  <2>. QED
    BY <1>2, <2>1, <2>4, ReaderStep DEF ReadRows
<1>3. CASE ReadGuard(r)
  <2>. DEFINE config == Rebuilt(reader[r].rows, store.guard)
              d == [pc |-> IF config = None THEN "unread" ELSE "kept", rows |-> << >>,
                    config |-> config]
  <2>1. reader' = [reader EXCEPT ![r] = d]
    BY <1>3 DEF ReadGuard
  <2>2. config # None => /\ Declaration(config) /\ DOMAIN config.tables = DOMAIN reader[r].rows
                         /\ \A n \in DOMAIN config.tables : store.shapes[n] = config.tables[n]
                         /\ config.guard = store.guard
                         /\ \E last \in DOMAIN reader[r].rows :
                               config.enforcement = reader[r].rows[last].enforcement
    BY <1>1, RebuiltDeclares DEF ReaderOk
  <2>. HIDE DEF config
  <2>3. ReaderOk(d, store)
    BY <1>1, <2>2 DEF ReaderOk, Function
  <2>. HIDE DEF d
  <2>. QED
    BY <1>3, <2>1, <2>3, ReaderStep DEF ReadGuard
<1>4. CASE Drop(r)
  <2>1. ReaderOk(NoReader, store)
    BY DEF ReaderOk, NoReader, Function
  <2>. QED
    BY <1>4, <2>1, ReaderStep DEF Drop
<1>5. CASE Describe(r)
  <2>1. file' # None => Declaration(file')
    BY <1>1, <1>5, PrintedDeclares DEF Describe, ReaderOk
  <2>. QED
    BY <1>5, <2>1 DEF IInv, Describe, Alone
<1>. QED
  BY <1>2, <1>3, <1>4, <1>5

-----------------------------------------------------------------------------
(* Provisioners.                                                            *)

LEMMA Checked ==
    ASSUME NEW overtaken, NEW c
    PROVE  [[pc |-> "idle", config |-> None, overtaken |-> overtaken, reported |-> None]
                EXCEPT !.pc = "checked", !.config = c] =
           [pc |-> "checked", config |-> c, overtaken |-> overtaken, reported |-> None]
<1>. DEFINE once == [[pc |-> "idle", config |-> None, overtaken |-> overtaken, reported |-> None]
                        EXCEPT !.pc = "checked"]
<1>1. once = [pc |-> "checked", config |-> None, overtaken |-> overtaken, reported |-> None]
  OBVIOUS
<1>. HIDE DEF once
<1>2. [once EXCEPT !.config = c] =
          [pc |-> "checked", config |-> c, overtaken |-> overtaken, reported |-> None]
  BY <1>1
<1>. QED
  BY <1>2 DEF once

LEMMA CheckKeeps ==
    ASSUME IInv, NEW p \in Provisioners, NEW c \in Requested, Check(p, c)
    PROVE  IInv'
<1>. DEFINE checked == [pc |-> "checked", config |-> c, overtaken |-> {}, reported |-> None]
<1>1. [NoJob EXCEPT !.pc = "checked", !.config = c] = checked
  BY Checked, Zenon DEF NoJob
<1>2. Declaration(c)
  BY RequestedDeclares
<1>3. PICK j \in {NoJob, checked} :
          /\ job' = [job EXCEPT ![p] = j]
          /\ j = checked => Differs(store.rows, c) \subseteq {}
  <2>1. CASE Differs(store.rows, c) = {}
    BY <1>1, <2>1 DEF Check
  <2>2. CASE Differs(store.rows, c) # {}
    <3>1. NoJob # checked
      BY DEF NoJob
    <3>. QED
      BY <2>2, <3>1 DEF Check
  <2>. QED
    BY <2>1, <2>2
<1>4. JobOk(NoJob, store)
  BY DEF JobOk, NoJob
<1>5. j = checked => JobOk(j, store)
  BY <1>2, <1>3 DEF JobOk
<1>6. j.pc # "executed"
  BY <1>3 DEF NoJob
<1>. HIDE DEF checked
<1>7. job' = [x \in Provisioners |-> job'[x]] /\ (\A x \in Provisioners : JobOk(job'[x], store))
      /\ \A x \in Provisioners : job'[x].pc = "executed" => job[x].pc = "executed"
  BY <1>3, <1>4, <1>5, <1>6 DEF IInv
<1>. QED
  BY <1>7 DEF Check, IInv, Alone

\* A step by which a provisioning goes on.
LEMMA GoesOn ==
    ASSUME NEW st, NEW j, JobOk(j, st), j.pc # "idle",
           NEW pc \in {"checked", "waiting", "executed"}
    PROVE  JobOk([j EXCEPT !.pc = pc], st) /\ [j EXCEPT !.pc = pc].pc = pc
<1>1. [j EXCEPT !.pc = pc] =
          [pc |-> pc, config |-> j.config, overtaken |-> j.overtaken, reported |-> j.reported]
  BY DEF JobOk
<1>. QED
  BY <1>1 DEF JobOk

LEMMA RunKeeps == ASSUME IInv, NEW p \in Provisioners, Execute(p) \/ Wait(p) PROVE IInv'
<1>1. PICK pc \in {"executed", "waiting"} :
          /\ job' = [job EXCEPT ![p] = [job[p] EXCEPT !.pc = pc]]
          /\ pc = "executed" => Executing = {}
  BY DEF Execute, Wait
<1>2. job[p].pc = "checked" /\ UNCHANGED <<store, reader, file, settings>>
  BY DEF Execute, Wait
<1>3. JobOk([job[p] EXCEPT !.pc = pc], store) /\ [job[p] EXCEPT !.pc = pc].pc = pc
  <2>1. JobOk(job[p], store) /\ job[p].pc # "idle"
    BY <1>2 DEF IInv
  <2>. QED
    BY <2>1, GoesOn
<1>. DEFINE j == [job[p] EXCEPT !.pc = pc]
<1>. HIDE DEF j
<1>4. /\ job' = [x \in Provisioners |-> job'[x]] /\ job'[p] = j
      /\ \A x \in Provisioners \ {p} : job'[x] = job[x]
  BY <1>1 DEF IInv, j
<1>5. \A x \in Provisioners : JobOk(job'[x], store)
  BY <1>3, <1>4 DEF IInv, j
<1>6. Alone'
  BY <1>1, <1>3, <1>4 DEF IInv, Alone, Executing, j
<1>. QED
  BY <1>2, <1>4, <1>5, <1>6 DEF IInv

LEMMA AbandonKeeps == ASSUME IInv, NEW p \in Provisioners, Abandon(p) PROVE IInv'
<1>1. /\ job' = [x \in Provisioners |-> job'[x]] /\ job'[p] = NoJob
      /\ \A x \in Provisioners \ {p} : \/ job'[x] = job[x]
                                       \/ /\ job'[x] = [job[x] EXCEPT !.pc = "checked"]
                                          /\ job[x].pc = "waiting"
  BY DEF Abandon
<1>2. JobOk(NoJob, store) /\ NoJob.pc = "idle"
  BY DEF JobOk, NoJob
<1>3. ASSUME NEW x \in Provisioners PROVE JobOk(job'[x], store)
                                          /\ (job'[x].pc = "executed" => job[x].pc = "executed")
  <2>1. JobOk(job[x], store)
    BY DEF IInv
  <2>2. CASE job'[x] = job[x]
    BY <2>1, <2>2
  <2>3. CASE x = p
    BY <1>1, <1>2, <2>3
  <2>4. CASE job'[x] = [job[x] EXCEPT !.pc = "checked"] /\ job[x].pc = "waiting"
    <3>1. JobOk([job[x] EXCEPT !.pc = "checked"], store)
          /\ [job[x] EXCEPT !.pc = "checked"].pc = "checked"
      BY <2>1, <2>4, GoesOn
    <3>. QED
      BY <2>4, <3>1
  <2>. QED
    BY <1>1, <2>2, <2>3, <2>4
<1>4. Alone'
  BY <1>3 DEF IInv, Alone
<1>. QED
  BY <1>1, <1>3, <1>4 DEF IInv, Abandon

LEMMA CommitKeeps == ASSUME IInv, NEW p \in Provisioners, Commit(p) PROVE IInv'
<1>. DEFINE c == job[p].config
<1>1. /\ job[p].pc = "executed" /\ store' = Applied(store, c) /\ UNCHANGED <<reader, file>>
      /\ job' = [x \in Provisioners |-> job'[x]]
      /\ job'[p] = [job[p] EXCEPT !.pc = "idle", !.reported = c]
      /\ \A x \in Provisioners \ {p} :
            job'[x] = CASE job[x].pc = "waiting" -> NoJob
                        [] job[x].pc = "checked" ->
                              [job[x] EXCEPT !.overtaken = @ \cup Created(p, job[x].config)]
                        [] OTHER -> job[x]
      /\ settings' = settings \cup {<<c.enforcement, c.guard>>}
  BY DEF Commit
<1>2. Described(store) /\ Switched(store, settings) /\ JobOk(job[p], store) /\ Declaration(c)
  BY <1>1 DEF IInv, JobOk
<1>. HIDE DEF c
<1>3. Described(store') /\ Switched(store', settings') /\ Extends(store', store)
  BY <1>1, <1>2, AppliedDescribed, AppliedSwitched
<1>4. JobOk(job'[p], store') /\ job'[p].pc = "idle"
  <2>. DEFINE once == [job[p] EXCEPT !.pc = "idle"]
  <2>1. once = [pc |-> "idle", config |-> c, overtaken |-> job[p].overtaken, reported |-> job[p].reported]
    BY <1>2 DEF JobOk, c
  <2>2. job'[p] = [once EXCEPT !.reported = c]
    BY <1>1
  <2>. HIDE DEF once
  <2>3. job'[p] = [pc |-> "idle", config |-> c, overtaken |-> job[p].overtaken, reported |-> c]
    BY <2>1, <2>2
  <2>4. DeclaresIn(store', c, job[p].overtaken)
    BY <1>1, <1>2, AppliedDeclares DEF JobOk, c
  <2>. QED
    BY <1>2, <2>3, <2>4 DEF JobOk
<1>5. ASSUME NEW x \in Provisioners \ {p}
      PROVE  JobOk(job'[x], store') /\ job'[x].pc # "executed"
  <2>1. JobOk(job[x], store) /\ job[x].pc # "executed"
    BY <1>1 DEF IInv, Alone
  <2>2. CASE job[x].pc = "waiting"
    BY <1>1, <2>2 DEF JobOk, NoJob
  <2>3. CASE job[x].pc = "checked"
    <3>. DEFINE new == job[x].overtaken \cup Created(p, job[x].config)
    <3>1. job'[x] = [job[x] EXCEPT !.overtaken = new]
      BY <1>1, <2>3
    <3>2. job'[x] = [pc |-> "checked", config |-> job[x].config, overtaken |-> new,
                     reported |-> job[x].reported]
      BY <2>1, <2>3, <3>1 DEF JobOk
    <3>3. Declaration(job[x].config) /\ Differs(store.rows, job[x].config) \subseteq job[x].overtaken
      BY <2>1, <2>3 DEF JobOk
    <3>4. Differs(store'.rows, job[x].config) \subseteq new
      BY <1>1, <1>2, <3>3, AppliedStore DEF Differs, Created, Missing, c
    <3>5. new \subseteq Names
      BY <2>1, <3>3 DEF JobOk, Declaration, Created
    <3>. QED
      BY <2>1, <2>3, <3>2, <3>3, <3>4, <3>5 DEF JobOk
  <2>4. CASE job[x].pc = "idle"
    <3>1. job'[x] = job[x]
      BY <1>1, <2>4
    <3>. QED
      BY <1>3, <2>1, <2>4, <3>1, DeclaresLasts DEF JobOk
  <2>. QED
    BY <2>1, <2>2, <2>3, <2>4 DEF JobOk
<1>6. \A r \in Readers : ReaderOk(reader[r], store')
  BY <1>3, ReaderLasts DEF IInv
<1>7. Alone'
  BY <1>4, <1>5 DEF Alone
<1>. QED
  BY <1>1, <1>3, <1>4, <1>5, <1>6, <1>7 DEF IInv

LEMMA Inductive == ASSUME IInv, [Next]_vars PROVE IInv'
<1>1. CASE UNCHANGED vars
  BY <1>1 DEF vars, IInv, Alone
<1>. QED
  BY <1>1, CheckKeeps, RunKeeps, CommitKeeps, AbandonKeeps, ReadersKeep DEF Next

LEMMA Invariance == Spec => []IInv
  BY Initially, Inductive, PTL DEF Spec

-----------------------------------------------------------------------------
(* The theorems.                                                            *)

\* What store_tables declares of a table is the table that exists, however many
\* provisionings with different declarations race (_seed_rows, points_ddl).
THEOREM RowsDescribe == Spec => []RowMatchesTable
<1>1. IInv => RowMatchesTable
  BY RowDescribes DEF IInv, Described, RowMatchesTable
<1>. QED
  BY <1>1, Invariance, PTL

\* A declaration kept after one read of store_tables and one look at the guard stays
\* true of the tables it names (Store.config, StoreConfig.from_store).
THEOREM KeptIsTrue == Spec => []KeptStaysTrue
<1>1. IInv => KeptStaysTrue
  BY DEF IInv, Described, ReaderOk, KeptStaysTrue
<1>. QED
  BY <1>1, Invariance, PTL

\* A provisioning that reports success leaves every table it asked for, with its
\* triggers and as it asked for it, for good, but for the tables that another one
\* created between its check and its commit (_provision).
THEOREM ReportsHold == Spec => []VerifiedUnlessOvertaken
<1>1. IInv => VerifiedUnlessOvertaken
  BY DEF IInv, JobOk, DeclaresIn, Declares, VerifiedUnlessOvertaken
<1>. QED
  BY <1>1, Invariance, PTL

\* Applying to a store what its tables already are adds nothing but insert-only
\* triggers, and nothing at all when the settings agree.
LEMMA NothingToApply ==
    ASSUME IInv, NEW c, Declaration(c), c.guard = store.guard,
           \A n \in DOMAIN c.tables : n \in DOMAIN store.rows /\ store.shapes[n] = c.tables[n]
    PROVE  OnlyGuards(c) /\ (OneSetting => Applied(store, c) = store)
<1>. DEFINE ap == Applied(store, c)
<1>1. Described(store) /\ Switched(store, settings)
  BY DEF IInv
<1>2. /\ ap = [rows |-> ap.rows, shapes |-> ap.shapes, triggers |-> ap.triggers,
               guard |-> ap.guard]
      /\ Function(ap.rows) /\ Function(ap.shapes)
      /\ DOMAIN ap.rows = DOMAIN store.rows \cup DOMAIN c.tables
      /\ DOMAIN ap.shapes = DOMAIN store.rows \cup DOMAIN c.tables
      /\ \A n \in DOMAIN store.rows :
            ap.rows[n] = store.rows[n] /\ ap.shapes[n] = store.shapes[n]
      /\ ap.triggers = store.triggers \cup Attached(c)
      /\ ap.guard = (store.guard \/ c.guard)
  BY <1>1, AppliedStore
<1>. HIDE DEF ap
<1>3. ap.rows = store.rows /\ ap.shapes = store.shapes
  <2>1. DOMAIN store.rows \cup DOMAIN c.tables = DOMAIN store.rows
    OBVIOUS
  <2>. QED
    BY <1>1, <1>2, <2>1 DEF Described, Function
<1>4. ap.guard = store.guard
  <2>1. store.guard \in BOOLEAN /\ ap.guard = (store.guard \/ store.guard)
    BY <1>1, <1>2 DEF Switched
  <2>. QED
    BY <2>1, Zenon
<1>5. store = [rows |-> store.rows, shapes |-> store.shapes, triggers |-> store.triggers,
               guard |-> store.guard]
  BY <1>1 DEF Described
<1>6. \A n \in DOMAIN c.tables : SingleBelief(c.tables[n]) => <<n, "belief_guard">> \in store.triggers
  BY <1>1 DEF Switched
<1>7. OnlyGuards(c)
  <2>1. [ap EXCEPT !.triggers = store.triggers] = store
    BY <1>2, <1>3, <1>4, <1>5
  <2>2. Attached(c) \ store.triggers \subseteq (DOMAIN store.rows) \X {"append_only_guard"}
    BY <1>6 DEF Attached
  <2>3. ap.triggers \ store.triggers \subseteq (DOMAIN store.rows) \X {"append_only_guard"}
    BY <1>2, <2>2
  <2>. QED
    BY <2>1, <2>3 DEF OnlyGuards, ap
<1>8. ASSUME OneSetting PROVE ap = store
  <2>1. c.guard => \A s \in settings : s[2]
    BY <1>1, <1>8 DEF Switched, OneSetting
  <2>2. \A n \in DOMAIN c.tables :
            c.guard /\ ~SingleBelief(c.tables[n]) => <<n, "append_only_guard">> \in store.triggers
    BY <1>1, <2>1 DEF Switched
  <2>3. Attached(c) \subseteq store.triggers
    BY <1>6, <2>2 DEF Attached
  <2>4. ap.triggers = store.triggers
    BY <1>2, <2>3
  <2>. QED
    BY <1>2, <1>3, <1>4, <1>5, <2>4
<1>. QED
  BY <1>7, <1>8 DEF ap

\* The declaration rebuilt from the store alone is refused exactly for the tables of
\* another enforcement mode, and its statements add nothing but guards; when the
\* declarations committed so far agree on the switches it provisions as a no-op
\* (StoreConfig.from_store).
THEOREM RecoveredStays == Spec => []RecoveredIsNoOp
<1>1. ASSUME IInv, NEW c, c = Recovered, c # None
      PROVE  /\ Differs(store.rows, c) =
                    {n \in DOMAIN store.rows : store.rows[n].enforcement # c.enforcement}
             /\ OnlyGuards(c)
             /\ OneSetting => Differs(store.rows, c) = {} /\ Applied(store, c) = store
  <2>1. Described(store) /\ Switched(store, settings) /\ Function(store.rows)
    BY <1>1 DEF IInv, Described
  <2>2. /\ Declaration(c) /\ DOMAIN c.tables = DOMAIN store.rows /\ c.guard = store.guard
        /\ \A n \in DOMAIN c.tables : store.shapes[n] = c.tables[n]
        /\ \E last \in DOMAIN store.rows : c.enforcement = store.rows[last].enforcement
    BY <1>1, <2>1, RebuiltDeclares DEF Recovered
  <2>3. ASSUME NEW n \in DOMAIN c.tables
        PROVE  store.rows[n] = RowsOf(c)[n] <=> store.rows[n].enforcement = c.enforcement
    <3>1. store.rows[n] = RowOf(store.shapes[n], store.rows[n].enforcement)
      BY <2>1, <2>2 DEF Described
    <3>2. RowsOf(c)[n] = RowOf(store.shapes[n], c.enforcement)
      BY <2>2 DEF RowsOf
    <3>3. RowsOf(c)[n].enforcement = c.enforcement
      BY <2>1, <2>2, <3>2, RowDescribes DEF Described
    <3>. QED
      BY <3>1, <3>2, <3>3
  <2>4. Differs(store.rows, c) =
            {n \in DOMAIN store.rows : store.rows[n].enforcement # c.enforcement}
    BY <2>2, <2>3 DEF Differs
  <2>5. OnlyGuards(c) /\ (OneSetting => Applied(store, c) = store)
    BY <1>1, <2>2, NothingToApply
  <2>6. OneSetting => \A n \in DOMAIN store.rows : store.rows[n].enforcement = c.enforcement
    BY <2>1, <2>2 DEF Switched, OneSetting
  <2>. QED
    BY <2>4, <2>5, <2>6
<1>2. IInv => RecoveredIsNoOp
  BY <1>1 DEF RecoveredIsNoOp
<1>. QED
  BY <1>2, Invariance, PTL

\* A declaration of which describe reports no drift adds nothing but guards, and is a
\* no-op when the declarations committed so far agree on the switches (_describe).
THEOREM InSyncStays == Spec => []InSyncIsNoOp
<1>1. ASSUME IInv, NEW c \in Configs, InSync(c)
      PROVE  OnlyGuards(c) /\ (OneSetting => Applied(store, c) = store)
  <2>1. Described(store) /\ Declaration(c)
    BY <1>1, RequestedDeclares DEF IInv, Requested
  <2>2. /\ \A n \in DOMAIN c.tables : n \in DOMAIN store.rows
        /\ Differs(store.rows, c) = {} /\ c.guard = store.guard
    BY <1>1 DEF InSync, Missing
  <2>3. \A n \in DOMAIN c.tables : store.shapes[n] = c.tables[n]
    BY <2>1, <2>2, Agreeing
  <2>. QED
    BY <1>1, <2>1, <2>2, <2>3, NothingToApply
<1>2. IInv => InSyncIsNoOp
  BY <1>1 DEF InSyncIsNoOp
<1>. QED
  BY <1>2, Invariance, PTL

-----------------------------------------------------------------------------
(* Levels in the tables, under way and in the file.                         *)

\* A band names levels, each in one spelling.
Spelled(band) == band \subseteq Levels /\ \A k, l \in band : Same(k, l) => k = l

Leveled(s) == s.role # "actuals" => Spelled(s.band)

\* Tables and the declarations under way have levels, and the file prints specs of
\* tables that exist.
FileInv ==
    /\ \A n \in DOMAIN store.rows : Leveled(store.shapes[n])
    /\ \A p \in Provisioners : job[p].pc # "idle" =>
          \A n \in DOMAIN job[p].config.tables : Leveled(job[p].config.tables[n])
    /\ file # None => \A n \in DOMAIN file.tables :
          n \in DOMAIN store.rows /\ file.tables[n] = PrintedSpec(store.shapes[n])

LEMMA CanonicalSpelled == ASSUME NEW w \in Seq(Levels) PROVE Spelled(Canonical(w))
<1>1. Canonical(w) \subseteq Levels
  BY DEF Canonical
<1>2. ASSUME NEW k \in Canonical(w), NEW l \in Canonical(w), Same(k, l) PROVE k = l
  <2>. DEFINE first(i) == \A h \in 1 .. i - 1 : ~Same(w[h], w[i])
  <2>1. PICK i \in DOMAIN w : k = w[i] /\ first(i)
    BY DEF Canonical
  <2>2. PICK j \in DOMAIN w : l = w[j] /\ first(j)
    BY DEF Canonical
  <2>3. i \in Nat \ {0} /\ j \in Nat \ {0}
    OBVIOUS
  <2>4. Same(w[i], w[j]) /\ Same(w[j], w[i])
    BY <1>2, <2>1, <2>2, SameSymmetric
  <2>5. ~(i < j)
    <3>1. i < j => i \in 1 .. j - 1
      BY <2>3
    <3>. QED
      BY <2>2, <2>4, <3>1
  <2>6. ~(j < i)
    <3>1. j < i => j \in 1 .. i - 1
      BY <2>3
    <3>. QED
      BY <2>1, <2>4, <3>1
  <2>7. i = j
    BY <2>3, <2>5, <2>6
  <2>. QED
    BY <2>1, <2>2, <2>7
<1>. QED
  BY <1>1, <1>2 DEF Spelled

LEMMA NormalizedLeveled == ASSUME NEW s \in Specs PROVE Leveled(Normalized(s))
<1>1. CASE s.role = "actuals"
  BY <1>1 DEF Normalized, Leveled
<1>2. CASE s.role # "actuals"
  <2>1. s.band \in Seq(Levels)
    BY <1>2 DEF Specs
  <2>2. Spelled(Canonical(s.band))
    BY <2>1, CanonicalSpelled
  <2>3. Normalized(s).band = Canonical(s.band)
    BY <1>2 DEF Normalized, Specs
  <2>. QED
    BY <2>2, <2>3 DEF Leveled
<1>. QED
  BY <1>1, <1>2

\* A printed band is the band.
LEMMA DumpedSpelled ==
    ASSUME NEW band, Spelled(band)
    PROVE  /\ Spelled(Dumped(band)) /\ Equal(Dumped(band), band)
           /\ Columns(Dumped(band)) = Columns(band)
<1>1. \A l \in band : /\ l \in Levels /\ Short(l) \in Levels /\ Same(Short(l), l)
                      /\ QuantileColumn(Short(l)) = QuantileColumn(l)
  BY ShortIs DEF Spelled
<1>2. ASSUME NEW k \in band, NEW l \in band, Same(Short(k), Short(l)) PROVE k = l
  <2>1. /\ k.num \in Nat /\ k.exp \in Nat /\ l.num \in Nat /\ l.exp \in Nat
        /\ Short(k).num \in Nat /\ Short(k).exp \in Nat
        /\ Short(l).num \in Nat /\ Short(l).exp \in Nat
    BY <1>1, LevelType DEF Fractional
  <2>2. Same(k, Short(k)) /\ Same(Short(l), l)
    BY <1>1, SameSymmetric
  <2>3. Same(k, Short(l))
    BY <1>2, <2>1, <2>2, SameTransitive
  <2>4. Same(k, l)
    BY <2>1, <2>2, <2>3, SameTransitive
  <2>. QED
    BY <2>4 DEF Spelled
<1>3. Spelled(Dumped(band))
  BY <1>1, <1>2 DEF Spelled, Dumped
<1>. QED
  BY <1>1, <1>3 DEF Dumped, Equal, Columns

\* What a printed spec has in common with the spec.
LEMMA PrintedAgrees ==
    ASSUME NEW s, SpecShape(s), Leveled(s)
    PROVE  /\ Leveled(PrintedSpec(s)) /\ EqualSpec(PrintedSpec(s), s)
           /\ s.role # "actuals" => Columns(PrintedSpec(s).band) = Columns(s.band)
<1>1. CASE s.role = "actuals"
  BY <1>1 DEF PrintedSpec, Leveled, EqualSpec
<1>2. CASE s.role # "actuals"
  <2>. DEFINE t == PrintedSpec(s)
  <2>1. t = [s EXCEPT !.band = Dumped(s.band)]
    BY <1>2 DEF PrintedSpec
  <2>2. t.band = Dumped(s.band) /\ t.role # "actuals"
        /\ [t EXCEPT !.band = {}] = [s EXCEPT !.band = {}]
    <3>. HIDE DEF t
    <3>. DEFINE b == Dumped(s.band)
    <3>1. CASE s = [role |-> "predictors", band |-> s.band, value |-> s.value]
      <4>. HIDE DEF b
      <4>1. t = [role |-> "predictors", band |-> b, value |-> s.value]
        BY <2>1, <3>1 DEF b
      <4>. QED
        BY <3>1, <4>1 DEF b
    <3>2. CASE s = [role |-> "forecasts", band |-> s.band, mean |-> s.mean]
      <4>. HIDE DEF b
      <4>1. t = [role |-> "forecasts", band |-> b, mean |-> s.mean]
        BY <2>1, <3>2 DEF b
      <4>. QED
        BY <3>2, <4>1 DEF b
    <3>. QED
      BY <1>2, <3>1, <3>2 DEF SpecShape
  <2>3. Spelled(Dumped(s.band)) /\ Equal(Dumped(s.band), s.band)
        /\ Columns(Dumped(s.band)) = Columns(s.band)
    BY <1>2, DumpedSpelled DEF Leveled
  <2>. HIDE DEF t
  <2>4. Leveled(t) /\ EqualSpec(t, s) /\ Columns(t.band) = Columns(s.band)
    BY <1>2, <2>2, <2>3 DEF Leveled, EqualSpec
  <2>. QED
    BY <2>4 DEF t
<1>. QED
  BY <1>1, <1>2

LEMMA RequestedLeveled ==
    ASSUME IInv, FileInv, NEW c \in Requested, NEW n \in DOMAIN c.tables
    PROVE  Leveled(c.tables[n])
<1>1. CASE c \in Configs
  <2>1. PICK q \in Requests :
            c = [q EXCEPT !.tables = [m \in DOMAIN q.tables |-> Normalized(q.tables[m])]]
    BY <1>1 DEF Configs
  <2>2. /\ q = [tables |-> q.tables, enforcement |-> q.enforcement, guard |-> q.guard]
        /\ q.tables \in [DOMAIN q.tables -> Specs]
    BY RequestsAssumption
  <2>3. c.tables = [m \in DOMAIN q.tables |-> Normalized(q.tables[m])]
    BY <2>1, <2>2
  <2>. QED
    BY <2>2, <2>3, NormalizedLeveled
<1>2. CASE c \notin Configs
  <2>1. c = file /\ file # None
    BY <1>2 DEF Requested
  <2>2. SpecShape(store.shapes[n]) /\ Leveled(store.shapes[n])
        /\ c.tables[n] = PrintedSpec(store.shapes[n])
    BY <2>1 DEF FileInv, IInv, Described
  <2>. QED
    BY <2>2, PrintedAgrees
<1>. QED
  BY <1>1, <1>2

LEMMA FileStep ==
    ASSUME IInv, FileInv, [Next]_vars PROVE FileInv'
<1>1. ASSUME NEW p \in Provisioners, NEW c \in Requested, Check(p, c) PROVE FileInv'
  <2>. DEFINE checked == [NoJob EXCEPT !.pc = "checked", !.config = c]
  <2>1. checked.config = c
    BY Checked, Zenon DEF NoJob
  <2>2. job'[p] = NoJob \/ job'[p] = checked
    BY <1>1 DEF Check, IInv
  <2>3. NoJob.pc = "idle"
    BY DEF NoJob
  <2>. HIDE DEF checked
  <2>4. \A x \in Provisioners \ {p} : job'[x] = job[x]
    BY <1>1 DEF Check, IInv
  <2>. QED
    BY <1>1, <2>1, <2>2, <2>3, <2>4, RequestedLeveled DEF Check, FileInv
<1>2. ASSUME NEW p \in Provisioners, Execute(p) \/ Wait(p) \/ Abandon(p) PROVE FileInv'
  <2>1. ASSUME NEW x \in Provisioners, job'[x].pc # "idle"
        PROVE  job[x].pc # "idle" /\ job'[x].config = job[x].config
    <3>1. JobOk(job[x], store)
      BY DEF IInv
    <3>2. job'[x] = job[x] \/ \E pc \in {"checked", "waiting", "executed"} :
              job'[x] = [job[x] EXCEPT !.pc = pc] /\ job[x].pc # "idle"
      BY <1>2, <2>1 DEF Execute, Wait, Abandon, IInv, NoJob
    <3>. QED
      BY <2>1, <3>1, <3>2 DEF JobOk
  <2>. QED
    BY <1>2, <2>1 DEF Execute, Wait, Abandon, FileInv
<1>3. ASSUME NEW p \in Provisioners, Commit(p) PROVE FileInv'
  <2>. DEFINE c == job[p].config
  <2>1. /\ job[p].pc = "executed" /\ store' = Applied(store, c) /\ UNCHANGED file
    BY <1>3 DEF Commit
  <2>2. Described(store) /\ Declaration(c)
    BY <2>1 DEF IInv, JobOk
  <2>3. \A n \in DOMAIN c.tables : Leveled(c.tables[n])
    BY <2>1 DEF FileInv
  <2>. HIDE DEF c
  <2>4. /\ DOMAIN store'.rows = DOMAIN store.rows \cup DOMAIN c.tables
        /\ \A n \in DOMAIN store.rows : store'.shapes[n] = store.shapes[n]
        /\ \A n \in DOMAIN c.tables \ DOMAIN store.rows : store'.shapes[n] = c.tables[n]
    BY <2>1, <2>2, AppliedStore
  <2>5. ASSUME NEW x \in Provisioners, job'[x].pc # "idle"
        PROVE  job[x].pc # "idle" /\ job'[x].config = job[x].config
    <3>1. JobOk(job[x], store) /\ JobOk(job[p], store)
      BY DEF IInv
    <3>2. x # p
      BY <1>3, <2>5, <3>1 DEF Commit, JobOk
    <3>. DEFINE new == job[x].overtaken \cup Created(p, job[x].config)
    <3>3. job'[x] = job[x] \/ job'[x] = [job[x] EXCEPT !.overtaken = new]
      <4>1. job'[x] = CASE job[x].pc = "waiting" -> NoJob
                        [] job[x].pc = "checked" -> [job[x] EXCEPT !.overtaken = new]
                        [] OTHER -> job[x]
        BY <1>3, <3>2 DEF Commit
      <4>2. job[x].pc # "waiting"
        BY <2>5, <4>1 DEF NoJob
      <4>. QED
        BY <4>1, <4>2
    <3>. QED
      BY <2>5, <3>1, <3>3 DEF JobOk
  <2>. QED
    BY <2>1, <2>3, <2>4, <2>5 DEF FileInv
<1>4. ASSUME NEW r \in Readers, ReadRows(r) \/ ReadGuard(r) \/ Drop(r) PROVE FileInv'
  BY <1>4 DEF ReadRows, ReadGuard, Drop, FileInv
<1>5. ASSUME NEW r \in Readers, Describe(r) PROVE FileInv'
  <2>. DEFINE c == reader[r].config
  <2>1. Declaration(c) /\ \A n \in DOMAIN c.tables :
            n \in DOMAIN store.rows /\ store.shapes[n] = c.tables[n]
    BY <1>5 DEF Describe, IInv, ReaderOk
  <2>2. file' = Printed(c) /\ UNCHANGED <<store, job>>
    BY <1>5 DEF Describe
  <2>. HIDE DEF c
  <2>3. file'.tables = [n \in DOMAIN c.tables |-> PrintedSpec(c.tables[n])]
    BY <2>1, <2>2 DEF Printed, Declaration
  <2>. QED
    BY <2>1, <2>2, <2>3 DEF FileInv
<1>6. CASE UNCHANGED vars
  BY <1>6 DEF vars, FileInv
<1>. QED
  BY <1>1, <1>2, <1>3, <1>4, <1>5, <1>6 DEF Next

LEMMA FileInvariance == Spec => []FileInv
<1>1. Init => FileInv
  BY DEF Init, Empty, NoJob, FileInv
<1>2. IInv /\ FileInv /\ [Next]_vars => FileInv'
  BY FileStep
<1>. QED
  BY <1>1, <1>2, Invariance, PTL DEF Spec

\* Declarations, wherever they are, are whole, and triggers are on tables.
TypeInv ==
    /\ \A g \in store.triggers : g[1] \in DOMAIN store.rows
    /\ \A p \in Provisioners : /\ job[p].config # None => IsDeclaration(job[p].config)
                               /\ job[p].reported # None => IsDeclaration(job[p].reported)
    /\ \A r \in Readers : reader[r].config # None => IsDeclaration(reader[r].config)
    /\ file # None => IsDeclaration(file)

LEMMA WhollyDeclares ==
    ASSUME NEW c, DOMAIN c.tables \subseteq Names, DOMAIN c.tables # {},
           \A n \in DOMAIN c.tables : Leveled(c.tables[n])
    PROVE  IsDeclaration(c)
  BY DEF IsDeclaration, Leveled, Spelled

LEMMA RequestedWhole ==
    ASSUME IInv, FileInv, TypeInv, NEW c \in Requested PROVE IsDeclaration(c)
<1>1. DOMAIN c.tables \subseteq Names
  BY RequestedDeclares DEF Declaration
<1>2. DOMAIN c.tables # {}
  <2>1. CASE c \in Configs
    <3>1. PICK q \in Requests :
              c = [q EXCEPT !.tables = [m \in DOMAIN q.tables |-> Normalized(q.tables[m])]]
      BY <2>1 DEF Configs
    <3>2. /\ q = [tables |-> q.tables, enforcement |-> q.enforcement, guard |-> q.guard]
          /\ DOMAIN q.tables # {}
      BY RequestsAssumption
    <3>3. c.tables = [m \in DOMAIN q.tables |-> Normalized(q.tables[m])]
      BY <3>1, <3>2
    <3>. QED
      BY <3>2, <3>3
  <2>2. CASE c \notin Configs
    BY <2>2 DEF Requested, TypeInv, IsDeclaration
  <2>. QED
    BY <2>1, <2>2
<1>. QED
  BY <1>1, <1>2, RequestedLeveled, WhollyDeclares

LEMMA TypeStep ==
    ASSUME IInv, FileInv, TypeInv, [Next]_vars PROVE TypeInv'
<1>1. ASSUME NEW p \in Provisioners, NEW c \in Requested, Check(p, c) PROVE TypeInv'
  <2>. DEFINE checked == [NoJob EXCEPT !.pc = "checked", !.config = c]
  <2>1. checked.config = c /\ checked.reported = None
    BY Checked, Zenon DEF NoJob
  <2>2. NoJob.config = None /\ NoJob.reported = None
    BY DEF NoJob
  <2>3. job'[p] = NoJob \/ job'[p] = checked
    BY <1>1 DEF Check, IInv
  <2>. HIDE DEF checked
  <2>4. \A x \in Provisioners \ {p} : job'[x] = job[x]
    BY <1>1 DEF Check, IInv
  <2>5. IsDeclaration(c)
    BY RequestedWhole
  <2>. QED
    BY <1>1, <2>1, <2>2, <2>3, <2>4, <2>5 DEF Check, TypeInv
<1>2. ASSUME NEW p \in Provisioners, Execute(p) \/ Wait(p) \/ Abandon(p) PROVE TypeInv'
  <2>1. ASSUME NEW x \in Provisioners
        PROVE  /\ job'[x].config \in {None, job[x].config}
               /\ job'[x].reported \in {None, job[x].reported}
    <3>1. JobOk(job[x], store)
      BY DEF IInv
    <3>2. \/ job'[x] = job[x] \/ job'[x] = NoJob
          \/ \E pc \in {"checked", "waiting", "executed"} : job'[x] = [job[x] EXCEPT !.pc = pc]
      BY <1>2 DEF Execute, Wait, Abandon, IInv
    <3>. QED
      BY <3>1, <3>2 DEF JobOk, NoJob
  <2>. QED
    BY <1>2, <2>1 DEF Execute, Wait, Abandon, TypeInv
<1>3. ASSUME NEW p \in Provisioners, Commit(p) PROVE TypeInv'
  <2>. DEFINE c == job[p].config
  <2>1. /\ job[p].pc = "executed" /\ store' = Applied(store, c) /\ UNCHANGED <<file, reader>>
    BY <1>3 DEF Commit
  <2>2. Described(store) /\ Declaration(c)
    BY <2>1 DEF IInv, JobOk
  <2>3. /\ DOMAIN store'.rows = DOMAIN store.rows \cup DOMAIN c.tables
        /\ store'.triggers = store.triggers \cup Attached(c)
    BY <2>1, <2>2, AppliedStore
  <2>4. \A g \in Attached(c) : g[1] \in DOMAIN c.tables
    BY DEF Attached
  <2>5. ASSUME NEW x \in Provisioners
        PROVE  /\ job'[x].config \in {None, job[x].config}
               /\ job'[x].reported \in {None, job[x].reported, job[x].config}
    <3>1. JobOk(job[x], store)
      BY DEF IInv
    <3>2. CASE x = p
      <4>. DEFINE once == [job[p] EXCEPT !.pc = "idle"]
                  ended == [once EXCEPT !.reported = job[p].config]
      <4>1. job'[x] = ended
        BY <1>3, <3>2 DEF Commit
      <4>2. once = [pc |-> "idle", config |-> job[p].config, overtaken |-> job[p].overtaken,
                    reported |-> job[p].reported]
        BY <3>1, <3>2 DEF JobOk
      <4>. HIDE DEF once
      <4>3. ended.config = job[p].config /\ ended.reported = job[p].config
        BY <4>2
      <4>. QED
        BY <3>2, <4>1, <4>3
    <3>3. CASE x # p
      <4>. DEFINE new == job[x].overtaken \cup Created(p, job[x].config)
      <4>1. \/ job'[x] = job[x] \/ job'[x] = NoJob
            \/ job'[x] = [job[x] EXCEPT !.overtaken = new]
        <5>1. job'[x] = CASE job[x].pc = "waiting" -> NoJob
                          [] job[x].pc = "checked" -> [job[x] EXCEPT !.overtaken = new]
                          [] OTHER -> job[x]
          BY <1>3, <3>3 DEF Commit
        <5>. QED
          BY <5>1
      <4>. QED
        BY <3>1, <4>1 DEF JobOk, NoJob
    <3>. QED
      BY <3>2, <3>3
  <2>. HIDE DEF c
  <2>. QED
    BY <2>1, <2>3, <2>4, <2>5 DEF TypeInv
<1>4. ASSUME NEW r \in Readers, ReadRows(r) \/ ReadGuard(r) \/ Drop(r) PROVE TypeInv'
  <2>1. ASSUME NEW x \in Readers, reader'[x].config # None PROVE IsDeclaration(reader'[x].config)
    <3>1. ReaderOk(reader[x], store) /\ ReaderOk(reader[r], store)
      BY DEF IInv
    <3>2. CASE reader'[x].config = reader[x].config
      BY <2>1, <3>2 DEF TypeInv
    <3>3. CASE reader'[x].config # reader[x].config
      <4>. DEFINE c == Rebuilt(reader[r].rows, store.guard)
      <4>1. x = r /\ ReadGuard(r)
        <5>1. ReadRows(r) => reader'[x].config = reader[x].config
          BY <3>1 DEF ReadRows, IInv, ReaderOk
        <5>2. Drop(r) => reader'[x] = reader[x] \/ reader'[x] = NoReader
          BY DEF Drop, IInv
        <5>3. NoReader.config = None
          BY DEF NoReader
        <5>. QED
          BY <1>4, <2>1, <3>3, <5>1, <5>2, <5>3 DEF ReadGuard, IInv
      <4>2. reader'[x].config = c
        BY <4>1 DEF ReadGuard, IInv
      <4>3. /\ Declaration(c) /\ DOMAIN c.tables = DOMAIN reader[r].rows
            /\ \A n \in DOMAIN c.tables : store.shapes[n] = c.tables[n]
        BY <2>1, <3>1, <4>2, RebuiltDeclares DEF ReaderOk, IInv
      <4>4. DOMAIN reader[r].rows # {}
        BY <2>1, <4>2 DEF Rebuilt
      <4>. HIDE DEF c
      <4>5. \A n \in DOMAIN c.tables : Leveled(c.tables[n])
        BY <3>1, <4>3 DEF FileInv, ReaderOk
      <4>. QED
        BY <4>2, <4>3, <4>4, <4>5, WhollyDeclares DEF Declaration
    <3>. QED
      BY <3>2, <3>3
  <2>. QED
    BY <1>4, <2>1 DEF ReadRows, ReadGuard, Drop, TypeInv
<1>5. ASSUME NEW r \in Readers, Describe(r) PROVE TypeInv'
  <2>. DEFINE c == reader[r].config
  <2>1. /\ Declaration(c) /\ IsDeclaration(c)
        /\ \A n \in DOMAIN c.tables : n \in DOMAIN store.rows /\ store.shapes[n] = c.tables[n]
    BY <1>5 DEF Describe, IInv, ReaderOk, TypeInv
  <2>2. file' = Printed(c) /\ UNCHANGED <<store, job, reader>>
    BY <1>5 DEF Describe
  <2>. HIDE DEF c
  <2>3. file'.tables = [n \in DOMAIN c.tables |-> PrintedSpec(c.tables[n])]
    BY <2>1, <2>2 DEF Printed, Declaration
  <2>4. \A n \in DOMAIN c.tables : Leveled(PrintedSpec(c.tables[n]))
    BY <2>1, PrintedAgrees DEF Declaration, FileInv
  <2>5. IsDeclaration(file')
    BY <2>1, <2>3, <2>4, WhollyDeclares DEF Declaration, IsDeclaration
  <2>. QED
    BY <2>2, <2>5 DEF TypeInv
<1>6. CASE UNCHANGED vars
  BY <1>6 DEF vars, TypeInv
<1>. QED
  BY <1>1, <1>2, <1>3, <1>4, <1>5, <1>6 DEF Next

\* Whatever is requested, kept or printed is a declaration of known tables in levels of
\* one spelling each; a row, a table and its triggers come together.
THEOREM TypeCorrect == Spec => []TypeOK
<1>1. Init => TypeInv
  BY DEF Init, Empty, NoJob, NoReader, TypeInv
<1>2. IInv /\ FileInv /\ TypeInv /\ [Next]_vars => TypeInv'
  BY TypeStep
<1>3. IInv /\ TypeInv => TypeOK
  BY DEF IInv, Described, Switched, Settings, ReaderOk, JobOk, TypeInv, TypeOK
<1>. QED
  BY <1>1, <1>2, <1>3, Invariance, FileInvariance, PTL DEF Spec

\* The file that describe printed keeps declaring the tables it was printed from,
\* with the same columns, whatever is provisioned later and from which file: printing
\* a level as a float loses no digit of it (dumps, loads).
THEOREM FileStaysTrue == Spec => []FileKeepsDeclaration
<1>1. IInv /\ FileInv => FileKeepsDeclaration
  <2>. SUFFICES ASSUME IInv, FileInv, file # None, NEW n \in DOMAIN file.tables
                PROVE  /\ n \in DOMAIN store.shapes
                       /\ EqualSpec(file.tables[n], store.shapes[n])
                       /\ store.shapes[n].role # "actuals" =>
                             Columns(file.tables[n].band) = Columns(store.shapes[n].band)
    BY DEF FileKeepsDeclaration
  <2>1. /\ n \in DOMAIN store.shapes /\ SpecShape(store.shapes[n])
        /\ Leveled(store.shapes[n]) /\ file.tables[n] = PrintedSpec(store.shapes[n])
    BY DEF FileInv, IInv, Described
  <2>. QED
    BY <2>1, PrintedAgrees
<1>. QED
  BY <1>1, Invariance, FileInvariance, PTL

\* A band that names every level once has a column for each, which parses back to it
\* and is found from any spelling.
LEMMA SpelledNames ==
    ASSUME NEW band, Spelled(band)
    PROVE  Bijective(band) /\ Found(band)
<1>1. \A l \in band : l \in Levels /\ Fractional(l)
  BY LevelType DEF Spelled
<1>2. \A l \in band : /\ ParseQuantileColumn(QuantileColumn(l)) # None
                      /\ Same(ParseQuantileColumn(QuantileColumn(l)), l)
  BY <1>1, Parses
<1>3. \A k, l \in band : QuantileColumn(k) = QuantileColumn(l) => k = l
  BY <1>1, ColumnSame DEF Spelled
<1>4. \A l \in band : QuantileColumn(Short(l)) = QuantileColumn(l)
  BY <1>1, ShortIs
<1>. QED
  BY <1>2, <1>3, <1>4 DEF Bijective, Found, Columns

\* The columns of every table that is ever provisioned name its levels one to one,
\* whatever was requested and in which spelling (quantile_column,
\* parse_quantile_column, _quantile_column_map).
THEOREM ColumnsAreNames == Spec => []ColumnsNameLevels
<1>1. IInv /\ FileInv => ColumnsNameLevels
  <2>. SUFFICES ASSUME IInv, FileInv, NEW band \in Bands PROVE Bijective(band) /\ Found(band)
    BY DEF ColumnsNameLevels
  <2>1. PICK n \in DOMAIN store.shapes :
            store.shapes[n].role # "actuals" /\ band = store.shapes[n].band
    BY DEF Bands
  <2>2. Spelled(band)
    BY <2>1 DEF FileInv, IInv, Described, Leveled
  <2>. QED
    BY <2>2, SpelledNames
<1>. QED
  BY <1>1, Invariance, FileInvariance, PTL
=============================================================================
