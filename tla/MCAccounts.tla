---------------------------- MODULE MCAccounts ----------------------------
(* Accounts for TLC. *)
EXTENDS Accounts

CONSTANTS e1, e2, e3, a1, a2

\* Task threads: two beside each other, one, or none, as when no document is found.
Downloads == [e \in Exports |-> CASE e = e1 -> 2 [] e = e2 -> 1 [] e = e3 -> 0]

\* The first export may use any account, the labels of the others have the same one assigned.
Choice == [e \in Exports |-> IF e = e1 THEN {} ELSE {a1}]

\* Bound: the export of two task threads runs alone, beside the web process, and its saves
\* may fail; those of one and of none run side by side.
Idle(e) == At(Main(e), "off") /\ outcome[e] = "none"
Together == (Idle(e1) /\ faults = 0) \/ (Idle(e2) /\ Idle(e3))

=============================================================================
