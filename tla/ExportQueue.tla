---------------------------- MODULE ExportQueue ----------------------------
(***************************************************************************)
(* The export queue: the rows of the export_queue table, the worker        *)
(* threads that claim and run them, and the callers that enqueue, cancel   *)
(* and requeue them (core/queue_manager.py, core/worker.py, the queue      *)
(* methods of core/database.py and the queue handlers of web.py).          *)
(*                                                                         *)
(* The grain is the database transaction: every Database method opens its  *)
(* own connection and commits once, so a handler that reads a row and then *)
(* updates it is two steps, and any other thread may run between them.     *)
(* Reads that cannot matter twice (the web handlers look a row up before   *)
(* QueueManager looks it up again; rows are never deleted) are one step.   *)
(*                                                                         *)
(* Abstracted: wall-clock time (a retry is "not due" until BecomeDue), the *)
(* payload (only its nested chain_to requests are kept, as a count), the   *)
(* export itself (an outcome), events, telemetry and status counters.      *)
(***************************************************************************)
EXTENDS Integers

CONSTANTS
  Workers,       \* worker threads, of every process that drains the queue
  Clients,       \* callers that enqueue: web handlers, the scheduler tick, the CLI
  Admins,        \* the clients that also cancel and requeue (the web event loop)
  Procs,         \* operating-system processes
  ProcOf,        \* the process each worker and client lives in
  Jobs,          \* job ids (uuid4); a chained job takes one outside RootJobs
  RootJobs,      \* the ids that client requests draw from
  Keys,          \* (label_name, profile_name) pairs
  Chains,        \* how many chain_to requests a client's payload may nest
  ChainLimit,    \* deepest chain_depth that is enqueued: 3 in the code
  MaxAttempts,   \* retry_policy.max_attempts, at least 1
  Outcomes,      \* how an export can end, a subset of {"succeeded", "failed", "raised"}
  MaxRequeues,   \* bound: requeues of one job
  MaxFaults,     \* bound: database errors ("database is locked", disk full)
  MaxCrashes,    \* bound: process crashes
  NoRow, NoJob, NoDraft

Actors == Workers \cup Clients

Status == {"pending", "running", "completed", "failed", "cancelled"}

Row == [status : Status, key : Keys, retries : Nat, due : BOOLEAN,
        born : Nat, depth : 0..ChainLimit, links : Nat]

Draft == [id : Jobs, key : Keys, born : Nat, depth : 0..ChainLimit, links : Nat]

ASSUME ConstantsAssumption ==
  /\ Workers \cap Clients = {}
  /\ Admins \subseteq Clients
  /\ ProcOf \in [Actors -> Procs]
  /\ RootJobs \subseteq Jobs
  /\ Chains \subseteq Nat
  /\ ChainLimit \in Nat
  /\ MaxAttempts \in Nat \ {0}
  /\ Outcomes \subseteq {"succeeded", "failed", "raised"}
  /\ MaxRequeues \in Nat /\ MaxFaults \in Nat /\ MaxCrashes \in Nat
  /\ NoRow \notin Row
  /\ NoJob \notin Jobs \cup Workers
  /\ NoDraft \notin Draft

PCs == {"idle", "insert",
        "export", "complete_check", "complete_write", "completed",
        "fail_read", "fail_check", "fail_write", "retry_write", "failed",
        "cancel_write", "requeue_write"}

\* The local state of a thread or request handler: the transaction it does next, the
\* job it works on, the retry_count it computed, whether it is in the except clause of
\* _run_job, and the QueueEntry it built and has not inserted.
Thread == [pc : PCs, job : Jobs \cup {NoJob}, tries : Nat, handling : BOOLEAN,
           draft : Draft \cup {NoDraft}]

AtRest == [pc |-> "idle", job |-> NoJob, tries |-> 0, handling |-> FALSE, draft |-> NoDraft]

VARIABLES
  rows,       \* the export_queue table: Jobs -> Row, NoRow for an id not inserted
  stamp,      \* source of created_at: later QueueEntry objects get larger stamps
  thread,     \* the local state of each worker and client
  faults,     \* database errors so far
  crashes,    \* crashes so far
  lost,       \* history: jobs whose worker vanished or gave up before it wrote an outcome
  disturbed,  \* history: jobs requeued while a worker ran them, or whose bookkeeping
              \* failed after the outcome was written
  requeues    \* history: how often each job was requeued

tableVars  == <<rows, stamp>>
ghostVars  == <<lost, disturbed, requeues>>
budgetVars == <<faults, crashes>>
vars == <<rows, stamp, thread, faults, crashes, lost, disturbed, requeues>>

-----------------------------------------------------------------------------
(* States of the actors. *)

\* The worker owes the row an outcome: it has claimed the job and not yet marked it.
Holding == {"export", "complete_check", "complete_write",
            "fail_read", "fail_check", "fail_write", "retry_write"}

At(a, where) == thread[a].pc = where

Goto(a, where) == thread' = [thread EXCEPT ![a].pc = where]

\* The call returns: its local variables are gone.
Return(a) == thread' = [thread EXCEPT ![a] = AtRest]

\* Worker w is executing job j.
Holds(w, j) == thread[w].pc \in Holding /\ thread[w].job = j

Held(j) == \E w \in Workers : Holds(w, j)

-----------------------------------------------------------------------------
(* core/jobs.py: the transition table. *)

ValidTransitions ==
  [pending   |-> {"running", "cancelled", "failed"},
   running   |-> {"completed", "failed", "cancelled"},
   failed    |-> {"pending"},
   completed |-> {},
   cancelled |-> {"pending"}]

CanTransition(current, target) == target \in ValidTransitions[current]

-----------------------------------------------------------------------------
(* core/database.py: the queries on export_queue. *)

StatusIs(j, s) == rows[j] # NoRow /\ rows[j].status = s

\* Mutant: the claim forgets that a row may already be running.
DueJobs_AnyOpen ==
  {j \in Jobs : (StatusIs(j, "pending") \/ StatusIs(j, "running")) /\ rows[j].due}

\* Mutant: the claim forgets that a row may have been cancelled.
DueJobs_EvenCancelled ==
  {j \in Jobs : (StatusIs(j, "pending") \/ StatusIs(j, "cancelled")) /\ rows[j].due}

DueJobs == {j \in Jobs : StatusIs(j, "pending") /\ rows[j].due}

\* ORDER BY created_at ASC LIMIT 1
Oldest(S) == {j \in S : \A i \in S : rows[j].born <= rows[i].born}

Allowed(j, target) == rows[j] # NoRow /\ CanTransition(rows[j].status, target)

SetStatus(j, s) == rows' = [rows EXCEPT ![j].status = s]

-----------------------------------------------------------------------------
Init ==
  /\ rows = [j \in Jobs |-> NoRow]
  /\ stamp = 0
  /\ thread = [a \in Actors |-> AtRest]
  /\ faults = 0
  /\ crashes = 0
  /\ lost = {}
  /\ disturbed = {}
  /\ requeues = [j \in Jobs |-> 0]

-----------------------------------------------------------------------------
(* QueueManager.enqueue: a read for duplicates, then an insert. *)

Drafted(j) == \E a \in Actors : thread[a].draft # NoDraft /\ thread[a].draft.id = j

Duplicate(k) == \E j \in DueJobs : rows[j].key = k

\* A duplicate ends the call with the existing id; otherwise the entry is built,
\* with its id and created_at, and inserted in a later transaction.
DedupRead(a, k, l, d, ids) ==
  \/ /\ Duplicate(k)
     /\ Return(a)
     /\ UNCHANGED stamp
  \/ /\ ~Duplicate(k)
     /\ \E j \in ids :
          /\ rows[j] = NoRow /\ ~Drafted(j)
          /\ thread' = [thread EXCEPT ![a].pc = "insert",
                          ![a].draft = [id |-> j, key |-> k, born |-> stamp,
                                        depth |-> d, links |-> l]]
     /\ stamp' = stamp + 1

RequestExport(c) ==
  /\ At(c, "idle")
  /\ \E k \in Keys, l \in Chains : DedupRead(c, k, l, 0, RootJobs)
  /\ UNCHANGED <<rows, ghostVars, budgetVars>>

EnqueueInsert(a) ==
  LET e == thread[a].draft IN
  /\ At(a, "insert")
  /\ rows' = [rows EXCEPT ![e.id] =
                [status |-> "pending", key |-> e.key, retries |-> 0, due |-> TRUE,
                 born |-> e.born, depth |-> e.depth, links |-> e.links]]
  /\ Return(a)
  /\ UNCHANGED <<stamp, ghostVars, budgetVars>>

\* next_run_at of a retry passes.
BecomeDue(j) ==
  /\ StatusIs(j, "pending") /\ ~rows[j].due
  /\ rows' = [rows EXCEPT ![j].due = TRUE]
  /\ UNCHANGED <<stamp, thread, ghostVars, budgetVars>>

-----------------------------------------------------------------------------
(* Database.claim_next_queue: one UPDATE ... RETURNING. *)

Claim(w) ==
  /\ At(w, "idle")
  /\ \E j \in Oldest(DueJobs) :
       /\ SetStatus(j, "running")
       /\ thread' = [thread EXCEPT ![w].pc = "export", ![w].job = j]
       /\ lost' = lost \ {j}
  /\ UNCHANGED <<stamp, disturbed, requeues, budgetVars>>

-----------------------------------------------------------------------------
(* BackgroundWorker._run_job, with mark_completed and mark_failed inline. *)

\* Mutant: _run_job without its except clause.
Raise_NoExcept(w) == Return(w)

\* An exception: the first one enters the except clause, which calls mark_failed;
\* one raised while handling is swallowed and the worker moves on.
Raise(w) ==
  IF thread[w].handling
  THEN Return(w)
  ELSE thread' = [thread EXCEPT ![w].pc = "fail_read", ![w].handling = TRUE,
                                ![w].tries = 0, ![w].draft = NoDraft]

\* The request is built and the engine runs; nothing of the table is touched.
ExportEnds(w) ==
  /\ At(w, "export")
  /\ \/ "succeeded" \in Outcomes /\ Goto(w, "complete_check")
     \/ "failed" \in Outcomes /\ Goto(w, "fail_read")
     \/ "raised" \in Outcomes /\ Raise(w)
  /\ UNCHANGED <<tableVars, ghostVars, budgetVars>>

CompleteCheck(w) ==
  /\ At(w, "complete_check")
  /\ IF Allowed(thread[w].job, "completed") THEN Goto(w, "complete_write") ELSE Raise(w)
  /\ UNCHANGED <<tableVars, ghostVars, budgetVars>>

\* Mutant: a status string that is not a JobStatus.
CompleteWrite_RawString(w) ==
  /\ At(w, "complete_write")
  /\ SetStatus(thread[w].job, "done")
  /\ Goto(w, "completed")
  /\ UNCHANGED <<stamp, ghostVars, budgetVars>>

CompleteWrite(w) ==
  /\ At(w, "complete_write")
  /\ SetStatus(thread[w].job, "completed")
  /\ Goto(w, "completed")
  /\ UNCHANGED <<stamp, ghostVars, budgetVars>>

\* _record_success, then the chained job: its payload is the rest of the nest.
AfterComplete(w) ==
  LET r == rows[thread[w].job] IN
  /\ At(w, "completed")
  /\ IF r.links > 0 /\ r.depth < ChainLimit
     THEN \E k \in Keys : DedupRead(w, k, r.links - 1, r.depth + 1, Jobs \ RootJobs)
     ELSE Return(w) /\ UNCHANGED stamp
  /\ UNCHANGED <<rows, ghostVars, budgetVars>>

\* Mutant: one attempt too many.
FailRead_OffByOne(w) ==
  LET n == rows[thread[w].job].retries + 1 IN
  /\ At(w, "fail_read")
  /\ thread' = [thread EXCEPT ![w].tries = n,
                  ![w].pc = IF n > MaxAttempts THEN "fail_check" ELSE "retry_write"]
  /\ UNCHANGED <<tableVars, ghostVars, budgetVars>>

FailRead(w) ==
  LET n == rows[thread[w].job].retries + 1 IN
  /\ At(w, "fail_read")
  /\ thread' = [thread EXCEPT ![w].tries = n,
                  ![w].pc = IF n >= MaxAttempts THEN "fail_check" ELSE "retry_write"]
  /\ UNCHANGED <<tableVars, ghostVars, budgetVars>>

FailCheck(w) ==
  /\ At(w, "fail_check")
  /\ IF Allowed(thread[w].job, "failed") THEN Goto(w, "fail_write") ELSE Raise(w)
  /\ UNCHANGED <<tableVars, ghostVars, budgetVars>>

\* After the outcome: _record_error, whose own failure only the try block notices.
Recorded(w) ==
  IF thread[w].handling
  THEN Return(w)
  ELSE thread' = [thread EXCEPT ![w].pc = "failed", ![w].tries = 0]

FailWrite(w) ==
  LET t == thread[w] IN
  /\ At(w, "fail_write")
  /\ rows' = [rows EXCEPT ![t.job].status = "failed", ![t.job].retries = t.tries]
  /\ Recorded(w)
  /\ UNCHANGED <<stamp, ghostVars, budgetVars>>

\* Mutant: the retry is scheduled but retry_count is not stored.
RetryWrite_ForgetsCount(w) ==
  LET t == thread[w] IN
  /\ At(w, "retry_write")
  /\ rows' = [rows EXCEPT ![t.job].status = "pending", ![t.job].due = FALSE]
  /\ Recorded(w)
  /\ UNCHANGED <<stamp, ghostVars, budgetVars>>

\* The retry branch of mark_failed writes without checking the transition.
RetryWrite(w) ==
  LET t == thread[w] IN
  /\ At(w, "retry_write")
  /\ rows' = [rows EXCEPT ![t.job].status = "pending", ![t.job].retries = t.tries,
                          ![t.job].due = FALSE]
  /\ Recorded(w)
  /\ UNCHANGED <<stamp, ghostVars, budgetVars>>

AfterFail(w) ==
  /\ At(w, "failed")
  /\ Return(w)
  /\ UNCHANGED <<tableVars, ghostVars, budgetVars>>

-----------------------------------------------------------------------------
(* QueueManager.cancel and requeue, as the web handlers call them. *)

CancelCheck(a) ==
  /\ At(a, "idle")
  /\ \E j \in Jobs :
       /\ Allowed(j, "cancelled")
       /\ thread' = [thread EXCEPT ![a].pc = "cancel_write", ![a].job = j]
  /\ UNCHANGED <<tableVars, ghostVars, budgetVars>>

CancelWrite(a) ==
  /\ At(a, "cancel_write")
  /\ SetStatus(thread[a].job, "cancelled")
  /\ Return(a)
  /\ UNCHANGED <<stamp, ghostVars, budgetVars>>

RequeueCheck(a) ==
  /\ At(a, "idle")
  /\ \E j \in Jobs :
       /\ Allowed(j, "pending")
       /\ requeues[j] < MaxRequeues
       /\ thread' = [thread EXCEPT ![a].pc = "requeue_write", ![a].job = j]
  /\ UNCHANGED <<tableVars, ghostVars, budgetVars>>

\* Mutant: a requeue starts the count over.
RequeueWrite_ResetsCount(a) ==
  LET j == thread[a].job IN
  /\ At(a, "requeue_write")
  /\ rows' = [rows EXCEPT ![j].status = "pending", ![j].due = TRUE, ![j].retries = 0]
  /\ Return(a)
  /\ requeues' = [requeues EXCEPT ![j] = @ + 1]
  /\ disturbed' = IF Held(j) THEN disturbed \cup {j} ELSE disturbed
  /\ UNCHANGED <<stamp, lost, budgetVars>>

\* next_run_at becomes now; retry_count keeps its value.
RequeueWrite(a) ==
  LET j == thread[a].job IN
  /\ At(a, "requeue_write")
  /\ rows' = [rows EXCEPT ![j].status = "pending", ![j].due = TRUE]
  /\ Return(a)
  /\ requeues' = [requeues EXCEPT ![j] = @ + 1]
  /\ disturbed' = IF Held(j) THEN disturbed \cup {j} ELSE disturbed
  /\ UNCHANGED <<stamp, lost, budgetVars>>

-----------------------------------------------------------------------------
(* What can go wrong underneath. *)

\* A transaction of worker w raises instead of committing. In the try block that
\* enters the except clause (after the outcome, the outcome is written twice); in the
\* except clause nothing is left to record it.
DbFault(w) ==
  LET t == thread[w] IN
  /\ faults < MaxFaults
  /\ t.pc \notin {"idle", "export"}
  /\ faults' = faults + 1
  /\ Raise(w)
  /\ disturbed' = IF t.pc \in Holding THEN disturbed ELSE disturbed \cup {t.job}
  /\ lost' = IF t.handling THEN lost \cup {t.job} ELSE lost
  /\ UNCHANGED <<tableVars, requeues, crashes>>

\* A transaction of a client raises: the request fails, nothing is written.
RequestFails(c) ==
  /\ faults < MaxFaults
  /\ ~At(c, "idle")
  /\ faults' = faults + 1
  /\ Return(c)
  /\ UNCHANGED <<tableVars, ghostVars, crashes>>

\* Process p dies and starts again: its threads begin anew, the table is as committed,
\* and no start-up code looks at rows left running.
Crash(p) ==
  LET dead == {a \in Actors : ProcOf[a] = p} IN
  /\ crashes < MaxCrashes
  /\ \E a \in dead : ~At(a, "idle")
  /\ crashes' = crashes + 1
  /\ thread' = [a \in Actors |-> IF a \in dead THEN AtRest ELSE thread[a]]
  /\ lost' = lost \cup {j \in Jobs : \E w \in Workers \cap dead : Holds(w, j)}
  /\ UNCHANGED <<tableVars, disturbed, requeues, faults>>

-----------------------------------------------------------------------------
WorkerStep(w) ==
  \/ Claim(w) \/ ExportEnds(w)
  \/ CompleteCheck(w) \/ CompleteWrite(w) \/ AfterComplete(w) \/ EnqueueInsert(w)
  \/ FailRead(w) \/ FailCheck(w) \/ FailWrite(w) \/ RetryWrite(w) \/ AfterFail(w)

AdminStep(a) == CancelCheck(a) \/ CancelWrite(a) \/ RequeueCheck(a) \/ RequeueWrite(a)

Next ==
  \/ \E w \in Workers : WorkerStep(w) \/ DbFault(w)
  \/ \E c \in Clients : RequestExport(c) \/ EnqueueInsert(c) \/ RequestFails(c)
  \/ \E a \in Admins : AdminStep(a)
  \/ \E j \in Jobs : BecomeDue(j)
  \/ \E p \in Procs : Crash(p)

Spec == Init /\ [][Next]_vars

\* Threads are scheduled, exports return and time passes; users owe nothing.
Fairness ==
  /\ \A w \in Workers : WF_vars(WorkerStep(w))
  /\ \A j \in Jobs : WF_vars(BecomeDue(j))

FairSpec == Spec /\ Fairness

-----------------------------------------------------------------------------
(* Type invariant. *)

\* A call in progress has what it is about: an entry to insert, a job whose row exists;
\* and workers and clients keep to their own steps.
WellFormed(a) ==
  LET t == thread[a] IN
  /\ a \in Workers => t.pc \notin {"cancel_write", "requeue_write"}
  /\ a \in Clients => t.pc \in {"idle", "insert", "cancel_write", "requeue_write"}
  /\ t.pc = "insert" => t.draft # NoDraft
  /\ t.pc # "idle" /\ ~(t.pc = "insert" /\ a \in Clients) => t.job # NoJob
  /\ t.job # NoJob => rows[t.job] # NoRow

\* Every variable has its type and every thread is well formed.
TypeOK ==
  /\ rows \in [Jobs -> Row \cup {NoRow}]
  /\ stamp \in Nat
  /\ thread \in [Actors -> Thread]
  /\ faults \in Nat /\ crashes \in Nat
  /\ lost \subseteq Jobs /\ disturbed \subseteq Jobs
  /\ requeues \in [Jobs -> Nat]
  /\ \A a \in Actors : WellFormed(a)

-----------------------------------------------------------------------------
(* Safety. *)

\* Two workers never execute the same job, and a job somebody executes is not up for
\* another claim - unless it was disturbed. This is the promise of claim_next_queue
\* ("no two callers ever obtain the same job") carried over a whole execution, with
\* retries, cancels, crashes and database errors between the claim and the outcome.
SingleHolder ==
  \A j \in Jobs \ disturbed :
    /\ \A v, w \in Workers : Holds(v, j) /\ Holds(w, j) => v = w
    /\ StatusIs(j, "pending") => ~Held(j)

\* A row that says running has a worker behind it, or its worker was lost to a crash or
\* to a database error in the except clause of _run_job. Nothing else strands a job.
NoOrphan ==
  \A j \in Jobs : StatusIs(j, "running") => Held(j) \/ j \in lost

\* mark_failed stops at max_attempts: an undisturbed job fails at most MaxAttempts times
\* plus once per requeue (requeue keeps retry_count), and one that may still run has an
\* attempt left.
AttemptBudget ==
  \A j \in Jobs \ disturbed : rows[j] # NoRow =>
    /\ rows[j].retries <= MaxAttempts + requeues[j]
    /\ rows[j].status \in {"pending", "running"} =>
         rows[j].retries < MaxAttempts + requeues[j]

\* No step of mark_failed, whose read and write are separate transactions, skips or
\* repeats a count.
CountStep ==
  \A j \in Jobs \ disturbed : rows[j] # NoRow =>
    rows'[j].retries \in {rows[j].retries, rows[j].retries + 1}

\* The count that mark_failed read in one transaction is still the row's count when it
\* writes the next one: retry_count of an undisturbed job never goes back and never skips.
RetriesStepByOne == [][CountStep]_vars

SettledStep ==
  \A j \in Jobs \ disturbed' :
    /\ StatusIs(j, "completed") \/ StatusIs(j, "failed")
       \/ (StatusIs(j, "cancelled") /\ ~Held(j))
    /\ rows'[j].status # rows[j].status
    => \E a \in Admins : /\ thread[a].pc \in {"cancel_write", "requeue_write"}
                         /\ thread[a].job = j

\* What an export left behind is not undone by a worker: an undisturbed row that is
\* completed or failed, or cancelled with nobody executing it, changes only by the
\* pending write of a cancel or requeue request.
SettledMovesByAdminOnly == [][SettledStep]_vars

-----------------------------------------------------------------------------
(* Liveness. *)

Settled(j) == \E s \in {"completed", "failed", "cancelled"} : StatusIs(j, s)

\* A job in the table ends completed or failed (or cancelled), unless its worker was lost:
\* retries, backoff and competing workers neither starve it nor run it for ever.
EveryJobSettles ==
  \A j \in Jobs : rows[j] # NoRow ~> Settled(j) \/ j \in lost

=============================================================================
