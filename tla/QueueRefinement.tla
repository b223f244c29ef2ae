-------------------------- MODULE QueueRefinement --------------------------
(***************************************************************************)
(* The export queue seen as JobLifecycle: what the table and the threads   *)
(* amount to for one who knows of no rows and transactions.                *)
(***************************************************************************)
EXTENDS ExportQueue

Phase == [j \in Jobs |-> IF rows[j] = NoRow THEN "absent" ELSE rows[j].status]

Owner == [j \in Jobs |-> IF Held(j) THEN CHOOSE w \in Workers : Holds(w, j) ELSE NoJob]

Attempts == [j \in Jobs |-> IF rows[j] = NoRow THEN 0 ELSE rows[j].retries]

Lifecycle == INSTANCE JobLifecycle
  WITH Nobody <- NoJob, phase <- Phase, owner <- Owner, attempts <- Attempts

\* With no cancel or requeue and no database error, the table, the two-transaction
\* mark_completed / mark_failed and the crashes implement JobLifecycle.
ImplementsLifecycle == Lifecycle!Spec

=============================================================================
