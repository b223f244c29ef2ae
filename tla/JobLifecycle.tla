---------------------------- MODULE JobLifecycle ----------------------------
(***************************************************************************)
(* What the export queue promises when nobody intervenes by hand and the   *)
(* database accepts every write: each job is executed by one worker at a   *)
(* time, a bounded number of times, until it is completed or failed, and   *)
(* only a worker that dies can leave it unfinished.  Rows, transactions,   *)
(* backoff and duplicate detection do not exist at this level.             *)
(***************************************************************************)
EXTENDS Integers

CONSTANTS
  Workers,
  Jobs,
  MaxAttempts,   \* executions that may fail before a job is given up
  Nobody         \* not a worker

VARIABLES
  phase,      \* absent, pending, running, completed or failed
  owner,      \* the worker executing the job, or Nobody
  attempts    \* executions that ended in failure

vars == <<phase, owner, attempts>>

Init ==
  /\ phase = [j \in Jobs |-> "absent"]
  /\ owner = [j \in Jobs |-> Nobody]
  /\ attempts = [j \in Jobs |-> 0]

Submit(j) ==
  /\ phase[j] = "absent"
  /\ phase' = [phase EXCEPT ![j] = "pending"]
  /\ UNCHANGED <<owner, attempts>>

Start(w, j) ==
  /\ phase[j] = "pending"
  /\ \A i \in Jobs : owner[i] # w
  /\ phase' = [phase EXCEPT ![j] = "running"]
  /\ owner' = [owner EXCEPT ![j] = w]
  /\ UNCHANGED attempts

Complete(j) ==
  /\ owner[j] # Nobody /\ phase[j] = "running"
  /\ phase' = [phase EXCEPT ![j] = "completed"]
  /\ owner' = [owner EXCEPT ![j] = Nobody]
  /\ UNCHANGED attempts

\* A failed execution: tried again, or given up when it was the last.
Fail(j) ==
  /\ owner[j] # Nobody /\ phase[j] = "running"
  /\ attempts' = [attempts EXCEPT ![j] = @ + 1]
  /\ phase' = [phase EXCEPT ![j] =
                 IF attempts[j] + 1 < MaxAttempts THEN "pending" ELSE "failed"]
  /\ owner' = [owner EXCEPT ![j] = Nobody]

\* Workers die; what they were executing stays running, owned by nobody.
Die(dead) ==
  /\ owner' = [j \in Jobs |-> IF owner[j] \in dead THEN Nobody ELSE owner[j]]
  /\ UNCHANGED <<phase, attempts>>

Next ==
  \/ \E j \in Jobs : Submit(j) \/ Complete(j) \/ Fail(j)
  \/ \E w \in Workers, j \in Jobs : Start(w, j)
  \/ \E dead \in SUBSET Workers : Die(dead)

Spec == Init /\ [][Next]_vars

=============================================================================
