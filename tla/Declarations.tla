---------------------------- MODULE Declarations ----------------------------
(***************************************************************************)
(* Quantile levels and bands: the spellings a caller may use (config.py),   *)
(* the column names (naming.py) and the YAML file that describe prints      *)
(* (declaration.py).                                                       *)
(*                                                                         *)
(* A Decimal keeps the digits it was written with: "0.50" and "0.5" are     *)
(* equal numbers with different strings.  A float has one string.  A string *)
(* of digits is the number it writes and its length.                        *)
(***************************************************************************)
EXTENDS Integers, Sequences

CONSTANTS
    Digits,  \* decimals of a level, at most: a float keeps fifteen
    None     \* no level, no declaration

ASSUME DigitsAssumption == Digits \in 1 .. 15

ASSUME NoneAssumption == None \notin [num : Nat, exp : Nat]

Ten[n \in Nat] == IF n = 0 THEN 1 ELSE 10 * Ten[n - 1]

\* Spelled numbers between 0 and 1: num / 10^exp, written with exp decimals.
Levels == UNION {[num : 1 .. Ten[e] - 1, exp : {e}] : e \in 1 .. Digits}

-----------------------------------------------------------------------------
(* Levels.                                                                  *)

\* Decimal equality, which is also what makes two StoreConfigs equal.
Same(k, l) == k.num * Ten[l.exp] = l.num * Ten[k.exp]

Equal(band, other) ==
    /\ \A k \in band : \E l \in other : Same(k, l)
    /\ \A l \in other : \E k \in band : Same(k, l)

\* The decimals without trailing zeros.
Trimmed(d) ==
    IF d.num = 0 THEN [num |-> 0, exp |-> 0]
    ELSE LET zeros == CHOOSE z \in 0 .. d.exp :
                        d.num % Ten[z] = 0 /\ (d.num \div Ten[z]) % 10 # 0
         IN  [num |-> d.num \div Ten[zeros], exp |-> d.exp - zeros]

\* str(float(level)): no trailing zero.
Short(l) == Trimmed(l)

\* _levels: a set of Decimals, of which the first of equal ones stays.
Canonical(written) ==
    {written[i] : i \in {j \in DOMAIN written :
                            \A h \in 1 .. j - 1 : ~Same(written[h], written[j])}}

-----------------------------------------------------------------------------
(* Column names: "q", two digits of whole percents, "_" and the fraction of  *)
(* a percent.                                                              *)

\* quantile_column: normalize() trims the fraction.
QuantileColumn(l) ==
    [whole |-> (100 * l.num) \div Ten[l.exp],
     fraction |-> Trimmed([num |-> (100 * l.num) % Ten[l.exp], exp |-> l.exp])]

\* Mutant of ParseQuantileColumn: the fraction of a percent is not read.
ParseWholePercents(name) == [num |-> name.whole, exp |-> 2]

\* parse_quantile_column: the level with that number, if it has that name.
ParseQuantileColumn(name) ==
    LET level == [num |-> name.whole * Ten[name.fraction.exp] + name.fraction.num,
                  exp |-> 2 + name.fraction.exp]
    IN  IF QuantileColumn(level) = name THEN level ELSE None

Columns(band) == {QuantileColumn(l) : l \in band}

-----------------------------------------------------------------------------
(* The file.                                                                *)

\* Mutant of Dumped: two decimals are enough for a percent.
DumpedToPercent(band) ==
    {Short([num |-> (l.num * 100) \div Ten[l.exp], exp |-> 2]) :
        l \in {k \in band : k.num * 100 >= Ten[k.exp]}}

\* dumps writes the levels as floats, loads takes their strings.
Dumped(band) == {Short(l) : l \in band}
=============================================================================
