--------------------------- MODULE MCModelAudit ---------------------------
(* TLC instances of ModelAudit. *)
EXTENDS ModelAudit
CONSTANTS i1, i2
===========================================================================
