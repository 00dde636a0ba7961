--------------------------- MODULE MCProvisioning ---------------------------
(* Instances of Provisioning for TLC. *)
EXTENDS Provisioning, TLC

Actuals(revisions, observed) ==
    [role |-> "actuals", revisions |-> revisions, observed |-> observed]

Log(band, mean) == [role |-> "forecasts", band |-> band, mean |-> mean]

Feed(band, value) == [role |-> "predictors", band |-> band, value |-> value]

Config(tables, enforcement, guard) ==
    [tables |-> tables, enforcement |-> enforcement, guard |-> guard]

L(n, e) == [num |-> n, exp |-> e]

\* Tenths, percents of one and two digits, tenths of a percent; levels named twice
\* and in two spellings, in no order.
Wide ==
    <<L(9, 1), L(1, 1), L(90, 2), L(50, 2), L(5, 2), L(505, 3), L(50, 3), L(1, 2),
      L(99, 2), L(5, 3)>>

\* Two shapes of table 1, and table 2 alone or with either, of two settings.
Rivals ==
    {Config(1 :> Actuals(TRUE, TRUE), "monitor", FALSE)} \cup
    {Config(2 :> Feed(<< >>, TRUE), "fk", TRUE)} \cup
    {Config(t, "monitor", TRUE) :
        t \in {1 :> Actuals(FALSE, FALSE), 2 :> Log(Wide, TRUE),
               (1 :> Actuals(TRUE, TRUE)) @@ (2 :> Feed(<<L(10, 2)>>, TRUE))}}

\* One band in two spellings.
Respelled == {Config(2 :> Log(band, TRUE), "monitor", TRUE) :
                 band \in {<<L(1, 1), L(5, 1)>>, <<L(50, 2), L(10, 2)>>}}
=============================================================================
