--------------------------- MODULE MCForecasting ---------------------------
(* Instances of Forecasting for TLC. *)
EXTENDS Forecasting
=============================================================================
