----------------------------- MODULE Accounts -----------------------------
(***************************************************************************)
(* Account health (core/api_pool.py): what parallel exports learn about    *)
(* the Onshape accounts they use, and how it is remembered.                *)
(*                                                                         *)
(* Every export builds its own ApiPool (app.py, create_export_engine) from *)
(* the records in application_state; the web process keeps another for     *)
(* its dashboard.  A pool changes a record under its lock, field by field  *)
(* (Record, Unlock), reads it again after the lock is released, field by   *)
(* field beside other threads (Dump, DumpUntil), and saves it whole        *)
(* (Store).  Of the fields, those that are read together are the status    *)
(* and the time a rest ends; the counters go with the status.  Within an   *)
(* export, one thread leases the account and looks for documents, then     *)
(* task threads download in parallel, all through one client and pool      *)
(* (core/onshape_client.py, core/export_engine.py).                        *)
(*                                                                         *)
(* Time is a small integer.  last_used, which only breaks ties between     *)
(* accounts, and last_error are left out.  The requests of a phase (the    *)
(* pages of the document list, the requests of a download) are one call,   *)
(* tried MaxAttempts times.  Every account is enabled.                     *)
(***************************************************************************)
EXTENDS Integers

CONSTANTS
  Accounts,
  Exports,
  Web,          \* the pool of the web process
  Tasks,        \* Tasks[e]: task threads of export e
  Assigned,     \* Assigned[e]: accounts of its label, {} for any
  MaxAttempts,  \* requests per call, RetryPolicy.max_attempts
  MaxReset,     \* bound: longest rest Onshape asks for
  MaxDelay,     \* RetryPolicy.backoff_max_seconds
  MaxFaults,    \* bound: database errors
  Horizon       \* bound: the last instant

ASSUME AccountsAssumption ==
  /\ Web \notin Exports
  /\ Tasks \in [Exports -> Nat]
  /\ Assigned \in [Exports -> SUBSET Accounts]
  /\ MaxAttempts \in Nat \ {0} /\ MaxReset \in Nat \ {0} /\ MaxDelay \in Nat \ {0}
  /\ MaxFaults \in Nat /\ Horizon \in Nat

Pools == Exports \cup {Web}
Main(e) == <<e, 0>>
TasksOf(e) == {<<e, k>> : k \in 1..Tasks[e]}
Threads == UNION {{Main(e)} \cup TasksOf(e) : e \in Exports}

Statuses == {"available", "failed", "rate_limited"}

\* AccountRuntimeState; until = 0 stands for None.
Records == [usage : Nat, failures : Nat, status : Statuses, until : Nat]
Fresh == [usage |-> 0, failures |-> 0, status |-> "available", until |-> 0]

Steps == {"off", "lease", "begin", "call", "sleep", "work", "raise", "until", "dump", "read",
          "store", "done"}
Outcomes == {"none", "refused", "success", "failure", "broken"}

VARIABLES
  now,
  stored,   \* the records in application_state
  copy,     \* copy[p]: the records of pool p
  leased,   \* leased[e]: the accounts export e has leased, at most one
  thread,   \* of each thread: the step it is at, the step after a save, the attempts
            \* of its call, when its sleep ends, and the record it is about to store
            \* or, while it holds the lock of its pool, to finish
  outcome,  \* what run_manual_export came to
  faults,
  recorded, \* history: successes and failures recorded for each account, by any pool
  told,     \* history: the latest time Onshape asked an account to rest until
  writer,   \* history: the pool that saved each account last
  blurred   \* history: accounts whose record changed while a thread read it to save it

history == <<recorded, told, writer, blurred>>
vars == <<now, stored, copy, leased, thread, outcome, faults, history>>

Limited(r) == r.status = "rate_limited" /\ (r.until = 0 \/ r.until > now)

\* mark_available_if_cooldown_expired
Cleared(r) ==
  IF r.status = "rate_limited" /\ r.until # 0 /\ r.until <= now
  THEN [r EXCEPT !.status = "available", !.until = 0]
  ELSE r

\* record_success, record_failure, record_rate_limited
Success(r) == [r EXCEPT !.usage = @ + 1, !.status = "available", !.until = 0]
Failure(r) == [r EXCEPT !.failures = @ + 1, !.status = "failed"]
\* Mutant: a new cooldown is added to the one before.
RateLimited_Added(r, reset) ==
  [r EXCEPT !.failures = @ + 1, !.status = "rate_limited", !.until = @ + reset]

RateLimited(r, reset) ==
  [r EXCEPT !.failures = @ + 1, !.status = "rate_limited", !.until = reset]

MinOf(i, j) == IF i < j THEN i ELSE j

\* RetryPolicy.delay_for_attempt
Delay(attempt) == MinOf(2^attempt, MaxDelay)

\* A local that is not read again goes back to its first value.
Rest(step) == [step |-> step, next |-> "off", attempt |-> 0, wake |-> 0, payload |-> Fresh]

Init ==
  /\ now = 0
  /\ stored = [a \in Accounts |-> Fresh]
  /\ copy = [p \in Pools |-> stored]
  /\ leased = [e \in Exports |-> {}]
  /\ thread = [t \in Threads |-> Rest("off")]
  /\ outcome = [e \in Exports |-> "none"]
  /\ faults = 0
  /\ recorded = [a \in Accounts |-> [usage |-> 0, failures |-> 0]]
  /\ told = [a \in Accounts |-> 0]
  /\ writer = [a \in Accounts |-> Web]
  /\ blurred = {}

At(t, step) == thread[t].step = step
Goto(t, step) == thread' = [thread EXCEPT ![t] = Rest(step)]

\* A thread is between two assignments to a record, which the lock of the pool protects
\* from others that change it, and not from those that read it to save it.
Locked(p) == \E t \in Threads : t[1] = p /\ At(t, "until")

\* Export e's pool begins to change the record of its account; the time comes last.
Record(e, a, r) ==
  /\ ~Locked(e)
  /\ copy' = [copy EXCEPT ![e][a] = [r EXCEPT !.until = copy[e][a].until]]

\* Thread t has to finish the record, to save it and to go on.
SaveThen(t, r, step) ==
  thread' = [thread EXCEPT ![t] = [Rest("until") EXCEPT !.next = step, !.payload = r]]

CountSuccess(a) == recorded' = [recorded EXCEPT ![a].usage = @ + 1]
CountFailure(a) == recorded' = [recorded EXCEPT ![a].failures = @ + 1]

-----------------------------------------------------------------------------
(* One export *)

\* create_export_engine: a pool of its own, loaded from the stored records.
CreatePool(e) ==
  /\ At(Main(e), "off") /\ outcome[e] = "none"
  /\ copy' = [copy EXCEPT ![e] = stored]
  /\ Goto(Main(e), "lease")
  /\ UNCHANGED <<now, stored, leased, outcome, faults, history>>

Eligible(e) == IF Assigned[e] = {} THEN Accounts ELSE Assigned[e]

\* The least used account, then the one with the fewest failures.
Best(records, S) ==
  {a \in S : \A b \in S :
     \/ records[a].usage < records[b].usage
     \/ records[a].usage = records[b].usage /\ records[a].failures <= records[b].failures}

Lease(e) ==
  /\ At(Main(e), "lease")
  /\ LET records == [a \in Accounts |->
                       IF a \in Eligible(e) THEN Cleared(copy[e][a]) ELSE copy[e][a]]
         free == {a \in Eligible(e) : ~Limited(records[a])}
     IN /\ copy' = [copy EXCEPT ![e] = records]
        /\ IF free = {}  \* AllAccountsRateLimitedError, NoEnabledAccountsError
           THEN /\ Goto(Main(e), "done")
                /\ outcome' = [outcome EXCEPT ![e] = "refused"]
                /\ UNCHANGED leased
           ELSE \E a \in Best(records, free) :
                /\ leased' = [leased EXCEPT ![e] = {a}]
                /\ thread' = [thread EXCEPT ![Main(e)].step = "begin",
                                            ![Main(e)].payload = records[a]]
                /\ UNCHANGED outcome
  /\ UNCHANGED <<now, stored, faults, history>>

\* lease() saves what it leased; an error here comes before the try block.
Begin(e) ==
  /\ At(Main(e), "begin")
  /\ \E a \in leased[e] :
       \/ /\ stored' = [stored EXCEPT ![a] = thread[Main(e)].payload]
          /\ writer' = [writer EXCEPT ![a] = e]
          /\ Goto(Main(e), "call")
          /\ UNCHANGED <<outcome, faults>>
       \/ /\ faults < MaxFaults /\ faults' = faults + 1
          /\ Goto(Main(e), "done")
          /\ outcome' = [outcome EXCEPT ![e] = "broken"]
          /\ UNCHANGED <<stored, writer>>
  /\ UNCHANGED <<now, copy, leased, recorded, told, blurred>>

\* The main thread goes on to the downloads, a task returns to the thread pool.
Succeeds(t) == IF t[2] = 0 THEN "work" ELSE "done"

\* An exception: caught by run_manual_export, or counted by _run_parallel.
Fails(t) == IF t[2] = 0 THEN "raise" ELSE "done"

\* _should_retry_response, or the except clause of _api_request: sleep and try again.
RetryOrFail(t, r, waits) ==
  IF thread[t].attempt + 1 < MaxAttempts
  THEN \E wait \in waits :
         thread' = [thread EXCEPT ![t].step = "until", ![t].next = "sleep", ![t].payload = r,
                                  ![t].attempt = @ + 1, ![t].wake = now + wait]
  ELSE SaveThen(t, r, Fails(t))

\* The Retry-After header, as seconds or a date, if the answer has one.
Waits(t, rests) == rests \cup {Delay(thread[t].attempt)}

\* What an answer comes to: a record that is changed to r.
Good(e, t, a, r) ==
  /\ Record(e, a, r) /\ CountSuccess(a)
  /\ \E step \in {Succeeds(t), Fails(t)} : SaveThen(t, r, step)
  /\ UNCHANGED told

\* Mutant: an answer counts once for every attempt it took.
AnswerGood_PerAttempt(e, t, a) ==
  Good(e, t, a, [Success(copy[e][a]) EXCEPT !.usage = @ + thread[t].attempt])

\* The answer counts as work whatever follows it; 4xx answers do too, but end the call.
AnswerGood(e, t, a) == Good(e, t, a, Success(copy[e][a]))

\* 429, with or without a Retry-After header.
AnswerLimited(e, t, a) ==
  \E rest \in 1..MaxReset :
    LET r == RateLimited(copy[e][a], now + rest)
    IN /\ Record(e, a, r) /\ CountFailure(a)
       /\ told' = [told EXCEPT ![a] = IF now + rest > @ THEN now + rest ELSE @]
       /\ RetryOrFail(t, r, Waits(t, {rest}))

\* 500, 502, 503, 504, a broken connection or a timeout.
AnswerUnavailable(e, t, a) ==
  /\ Record(e, a, Failure(copy[e][a])) /\ CountFailure(a)
  /\ RetryOrFail(t, Failure(copy[e][a]), Waits(t, 1..MaxReset))
  /\ UNCHANGED told

\* Another 5xx is a failure that is not tried again.
AnswerError(e, t, a) ==
  /\ Record(e, a, Failure(copy[e][a])) /\ CountFailure(a)
  /\ SaveThen(t, Failure(copy[e][a]), Fails(t))
  /\ UNCHANGED told

Answer(e, t) ==
  /\ At(t, "call")
  /\ \E a \in leased[e] :
       AnswerGood(e, t, a) \/ AnswerLimited(e, t, a)
       \/ AnswerUnavailable(e, t, a) \/ AnswerError(e, t, a)
  /\ UNCHANGED <<now, stored, leased, outcome, faults, writer, blurred>>

\* Time is bounded: at the last instant a sleep is over at once.
Wake(t) ==
  /\ At(t, "sleep") /\ (thread[t].wake <= now \/ now = Horizon)
  /\ thread' = [thread EXCEPT ![t].step = "call", ![t].wake = 0]
  /\ UNCHANGED <<now, stored, copy, leased, outcome, faults, history>>

\* The last assignment; the lock is released.
Unlock(e, t) ==
  /\ At(t, "until")
  /\ \E a \in leased[e] : copy' = [copy EXCEPT ![e][a].until = thread[t].payload.until]
  /\ thread' = [thread EXCEPT ![t].step = "dump", ![t].payload = Fresh]
  /\ UNCHANGED <<now, stored, leased, outcome, faults, history>>

\* _persist_state, without the lock: to_dict reads the record, the time last.
Dump(e, t) ==
  /\ At(t, "dump")
  /\ \E a \in leased[e] :
       thread' = [thread EXCEPT ![t].step = "read", ![t].payload = copy[e][a]]
  /\ UNCHANGED <<now, stored, copy, leased, outcome, faults, history>>

DumpUntil(e, t) ==
  /\ At(t, "read")
  /\ \E a \in leased[e] :
       /\ thread' = [thread EXCEPT ![t].step = "store", ![t].payload.until = copy[e][a].until]
       /\ blurred' = IF Locked(e) \/ copy[e][a] # thread[t].payload THEN blurred \cup {a} ELSE blurred
  /\ UNCHANGED <<now, stored, copy, leased, outcome, faults, recorded, told, writer>>

Store(e, t) ==
  /\ At(t, "store")
  /\ \E a \in leased[e] :
       /\ stored' = [stored EXCEPT ![a] = thread[t].payload]
       /\ writer' = [writer EXCEPT ![a] = e]
  /\ thread' = [thread EXCEPT ![t].step = thread[t].next, ![t].next = "off", ![t].payload = Fresh]
  /\ UNCHANGED <<now, copy, leased, outcome, faults, recorded, told, blurred>>

\* A database error in a request ends the call; after the last record_success it makes
\* the export a failure; in the except clause it leaves run_manual_export.
StoreFails(e, t) ==
  /\ At(t, "store")
  /\ faults < MaxFaults /\ faults' = faults + 1
  /\ IF outcome[e] = "failure"
     THEN /\ Goto(t, "done")
          /\ outcome' = [outcome EXCEPT ![e] = "broken"]
     ELSE /\ Goto(t, Fails(t))
          /\ outcome' = [outcome EXCEPT ![e] = "none"]
  /\ UNCHANGED <<now, stored, copy, leased, history>>

StartTasks(e) ==
  /\ At(Main(e), "work")
  /\ TasksOf(e) # {} /\ \A t \in TasksOf(e) : At(t, "off")
  /\ thread' = [t \in Threads |->
                  IF t \in TasksOf(e) THEN Rest("call") ELSE thread[t]]
  /\ UNCHANGED <<now, stored, copy, leased, outcome, faults, history>>

\* Mutant: the export is recorded while downloads are still running.
Join_Early(e) ==
  /\ At(Main(e), "work")
  /\ \A t \in TasksOf(e) : ~At(t, "off")
  /\ \E a \in leased[e] :
       LET r == Success(copy[e][a])
       IN Record(e, a, r) /\ CountSuccess(a) /\ SaveThen(Main(e), r, "done")
  /\ outcome' = [outcome EXCEPT ![e] = "success"]
  /\ UNCHANGED <<now, stored, leased, faults, told, writer, blurred>>

\* The thread pool is joined, then the export itself is recorded as one more success.
Join(e) ==
  /\ At(Main(e), "work")
  /\ \A t \in TasksOf(e) : At(t, "done")
  /\ \E a \in leased[e] :
       LET r == Success(copy[e][a])
       IN Record(e, a, r) /\ CountSuccess(a) /\ SaveThen(Main(e), r, "done")
  /\ outcome' = [outcome EXCEPT ![e] = "success"]
  /\ UNCHANGED <<now, stored, leased, faults, told, writer, blurred>>

\* The except clause of run_manual_export.
Raised(e) ==
  /\ At(Main(e), "raise")
  /\ \E a \in leased[e] :
       LET r == Failure(copy[e][a])
       IN Record(e, a, r) /\ CountFailure(a) /\ SaveThen(Main(e), r, "done")
  /\ outcome' = [outcome EXCEPT ![e] = "failure"]
  /\ UNCHANGED <<now, stored, leased, faults, told, writer, blurred>>

-----------------------------------------------------------------------------

\* A page that shows accounts: snapshot() of the web process's pool, loaded once at
\* bootstrap, clears what has expired and saves every record.
WebPolls(a) ==
  /\ copy' = [copy EXCEPT ![Web][a] = Cleared(@)]
  /\ stored' = [stored EXCEPT ![a] = Cleared(copy[Web][a])]
  /\ writer' = [writer EXCEPT ![a] = Web]
  /\ UNCHANGED <<now, leased, thread, outcome, faults, recorded, told, blurred>>

Passes ==
  /\ now < Horizon /\ now' = now + 1
  /\ UNCHANGED <<stored, copy, leased, thread, outcome, faults, history>>

ThreadStep(e, t) ==
  \/ Answer(e, t) \/ Wake(t) \/ Unlock(e, t) \/ Dump(e, t) \/ DumpUntil(e, t)
  \/ Store(e, t) \/ StoreFails(e, t)

ExportStep(e) ==
  \/ Lease(e) \/ Begin(e) \/ StartTasks(e) \/ Join(e) \/ Raised(e)
  \/ \E t \in {Main(e)} \cup TasksOf(e) : ThreadStep(e, t)

Next ==
  \/ \E e \in Exports : CreatePool(e) \/ ExportStep(e)
  \/ \E a \in Accounts : WebPolls(a)
  \/ Passes

Spec == Init /\ [][Next]_vars

-----------------------------------------------------------------------------
(* Properties *)

\* Every variable has its type: an export in progress has leased one of its accounts.
TypeOK ==
  /\ now \in 0..Horizon
  /\ stored \in [Accounts -> Records]
  /\ copy \in [Pools -> [Accounts -> Records]]
  /\ leased \in [Exports -> SUBSET Accounts]
  /\ thread \in [Threads -> [step : Steps, next : Steps, attempt : 0..(MaxAttempts - 1),
                             wake : Int, payload : Records]]
  /\ outcome \in [Exports -> Outcomes]
  /\ faults \in 0..MaxFaults
  /\ recorded \in [Accounts -> [usage : Nat, failures : Nat]]
  /\ told \in [Accounts -> Nat]
  /\ writer \in [Accounts -> Pools] /\ blurred \subseteq Accounts
  /\ \A e \in Exports : \A t \in {Main(e)} \cup TasksOf(e) :
       thread[t].step \notin {"off", "lease", "done"} => \E a \in leased[e] : leased[e] = {a}

\* What pools remember of an account, wherever a record of it is (in the database, in a
\* pool, in the hand of a thread about to save it), never counts more than was done:
\* exports that load, change and save whole records side by side may forget work of one
\* another, but count none twice (api_pool.py, _load_state, record_*, _persist_state).
Within(r, a) == r.usage <= recorded[a].usage /\ r.failures <= recorded[a].failures

NeverOvercounted ==
  /\ \A a \in Accounts : Within(stored[a], a) /\ \A p \in Pools : Within(copy[p][a], a)
  /\ \A e \in Exports : \A t \in {Main(e)} \cup TasksOf(e) :
       \A a \in leased[e] : thread[t].step \in {"begin", "until", "read", "store"} => Within(thread[t].payload, a)

\* An account is kept from use no longer than Onshape last asked, through stale copies,
\* saves in any order and clearing by three different callers: no stored or pooled
\* cooldown ends later.  One without an end comes from a save that another thread's record
\* overlapped, and from nothing else (record_rate_limited, is_rate_limited, _persist_state).
AsTold(r, a) ==
  r.status = "rate_limited" => r.until <= told[a] /\ (r.until = 0 => a \in blurred)

CooldownAsTold ==
  \A a \in Accounts :
    /\ AsTold(stored[a], a)
    /\ \A p \in Pools : ~Locked(p) => AsTold(copy[p][a], a)

\* What record_rate_limited says of itself: "Mark an account as rate limited until reset_at
\* or a cooldown expires".  A rest that is remembered has an end.
RestsEnd == \A a \in Accounts : stored[a].status = "rate_limited" => stored[a].until > 0

\* When an export is over, all its threads learned of its account is in the database,
\* unless another pool has saved the account since: its task threads save in any order,
\* and what makes it right is the last record, after the thread pool is joined
\* (export_engine.py, run_manual_export, _run_parallel).
EndsSaved ==
  \A e \in Exports : \A a \in leased[e] :
    /\ At(Main(e), "done") /\ outcome[e] \in {"success", "failure"} /\ writer[a] = e
    => stored[a] = copy[e][a]

=============================================================================
