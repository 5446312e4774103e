----------------------------- MODULE MCFheTask -----------------------------
(* TLC instances of FheTask: a delivery and its redelivery, one stop. *)
EXTENDS FheTask
=============================================================================
