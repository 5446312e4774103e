-------------------------- MODULE ReliableReports --------------------------
(***************************************************************************)
(* What the report outbox promises: once a terminal report is owed to the  *)
(* platform it stays owed, across crashes and restarts, until the platform *)
(* has received it; what was received stays received.                      *)
(***************************************************************************)
CONSTANT Reports

VARIABLES owed, received

Init == owed = {} /\ received = {}

(* Durable acceptance; a rewrite of the whole state file may make several
   reports durable at once. *)
Accept(S) ==
    /\ S # {} /\ S \cap (owed \cup received) = {}
    /\ owed' = owed \cup S
    /\ UNCHANGED received

(* Delivery; a report can arrive before it is durable. *)
Receive(r) ==
    /\ r \notin received
    /\ received' = received \cup {r}
    /\ owed' = owed \ {r}

Next == (\E S \in SUBSET Reports : Accept(S)) \/ (\E r \in Reports : Receive(r))

Spec == Init /\ [][Next]_<<owed, received>>
=============================================================================
