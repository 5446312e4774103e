--------------------------- MODULE MCResultIndex ---------------------------
(* TLC instances of ResultIndex: a data task, its redelivery under the same
   ids, one that shares its taskId only, and a model import. *)
EXTENDS ResultIndex
CONSTANTS a, b, c, m, ra, rc, rm, ta, tm
Kinds == [j \in Jobs |-> IF j = m THEN "model" ELSE "data"]
ReqIds == [j \in Jobs |-> IF j = m THEN rm ELSE IF j = c THEN rc ELSE ra]
TaskIds == [j \in Jobs |-> IF j = m THEN tm ELSE ta]
=============================================================================
