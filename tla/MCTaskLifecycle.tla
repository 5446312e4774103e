-------------------------- MODULE MCTaskLifecycle --------------------------
(* Instances of TaskLifecycle: two data jobs and two model requests. *)
EXTENDS TaskLifecycle
CONSTANTS m, c, d1, d2, t1, t2, t3, t4

Kinds == [j \in Jobs |-> CASE j = m -> "model" [] j = c -> "config" [] OTHER -> "data"]
Ids == [j \in Jobs |-> CASE j = m -> t1 [] j = c -> t2 [] j = d1 -> t3 [] OTHER -> t4]
Configs == [j \in Jobs |-> CASE j = m -> "good" [] j = c -> "bad" [] OTHER -> "absent"]

(* The model and its data are delivered under one task id. *)
SharedIds == [j \in Jobs |-> IF j \in {m, d1} THEN t1 ELSE Ids[j]]
=============================================================================
