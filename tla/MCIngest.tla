------------------------------ MODULE MCIngest ------------------------------
(* Instances of Ingest for TLC. *)
EXTENDS Ingest

\* Two targets with a load and a weather series each.
TwoTargets == << <<"a/load", "a/wx">>, <<"b/load", "b/wx">> >>
=============================================================================
