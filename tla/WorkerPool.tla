---------------------------- MODULE WorkerPool ----------------------------
(***************************************************************************)
(* The threads of one BackgroundWorker (core/worker.py): start() and       *)
(* stop(), as the web event loop or the CLI main thread calls them, beside *)
(* the loops of the worker threads they create.                            *)
(*                                                                         *)
(* One thread object calls start() and stop(), so the two never overlap    *)
(* each other; they do overlap the worker threads, one step here being one *)
(* locked block, event operation or database call.  What a claimed job     *)
(* does is ExportQueue's; here it takes a while and may raise.  The wait   *)
(* between two ticks is the time a thread spends at "loop".                *)
(***************************************************************************)
EXTENDS Integers

CONSTANTS
  Size,        \* worker_count
  MaxBatch,    \* max_jobs_per_tick
  MaxStarts,   \* bound: start() calls that create threads
  MaxFaults    \* bound: database errors

ASSUME PoolAssumption ==
  /\ Size \in Nat \ {0} /\ MaxBatch \in Nat \ {0}
  /\ MaxStarts \in Nat /\ MaxFaults \in Nat

\* Thread worker_index of the n-th start(): <<n, worker_index>>.
Threads == (1..MaxStarts) \X (0..(Size - 1))

Generation(n) == {t \in Threads : t[1] = n}

PCs == {"none", "created", "loop", "advance", "ticking", "drain", "claim", "job",
        "finish", "crashed", "dead"}

CallPCs == {"idle", "start_state", "start_scheduler", "launch",
            "stop_set", "join", "clear", "stop_state", "stop_scheduler"}

VARIABLES
  pc,         \* what each thread does next
  batch,      \* jobs each thread claimed in its current tick
  members,    \* self._threads
  stop,       \* self._stop
  scheduler,  \* scheduler.running
  call,       \* what the start() or stop() in progress does next
  todo,       \* the threads it has still to launch or join
  starts, faults,
  abandoned,  \* history: threads that stop() gave up waiting for
  late        \* history: jobs each thread claimed since the stop flag was last set

threadVars == <<pc, batch>>
callVars == <<members, call, todo>>
vars == <<pc, batch, members, stop, scheduler, call, todo, starts, faults, abandoned, late>>

Alive(t) == pc[t] \notin {"none", "created", "dead"}

Goto(t, where) == pc' = [pc EXCEPT ![t] = where]

\* The thread list is walked in the order of worker_index.
First(S) == {t \in S : \A u \in S : t[2] <= u[2]}

Fault == faults < MaxFaults /\ faults' = faults + 1

Init ==
  /\ pc = [t \in Threads |-> "none"]
  /\ batch = [t \in Threads |-> 0]
  /\ members = {}
  /\ stop = FALSE
  /\ scheduler = FALSE
  /\ call = "idle"
  /\ todo = {}
  /\ starts = 0
  /\ faults = 0
  /\ abandoned = {}
  /\ late = [t \in Threads |-> 0]

-----------------------------------------------------------------------------
(* start() *)

\* Mutant: start() without its "already started" return.
StartBegins_Again ==
  /\ call = "idle" /\ starts < MaxStarts
  /\ starts' = starts + 1
  /\ stop' = FALSE
  /\ members' = members \cup Generation(starts + 1)
  /\ pc' = [t \in Threads |-> IF t[1] = starts + 1 THEN "created" ELSE pc[t]]
  /\ call' = "start_state"
  /\ todo' = Generation(starts + 1)
  /\ UNCHANGED <<batch, scheduler, faults, abandoned, late>>

\* Under the lock; a start() that finds threads returns at once.
StartBegins ==
  /\ call = "idle" /\ starts < MaxStarts
  /\ members = {}
  /\ starts' = starts + 1
  /\ stop' = FALSE
  /\ members' = Generation(starts + 1)
  /\ pc' = [t \in Threads |-> IF t[1] = starts + 1 THEN "created" ELSE pc[t]]
  /\ call' = "start_state"
  /\ todo' = Generation(starts + 1)
  /\ UNCHANGED <<batch, scheduler, faults, abandoned, late>>

StartRecorded ==
  /\ call = "start_state"
  /\ call' = "start_scheduler"
  /\ UNCHANGED <<threadVars, members, todo, stop, scheduler, starts, faults, abandoned, late>>

\* Sync, start and wire the scheduler; scheduler.start() sets its flag before it writes.
StartScheduler ==
  /\ call = "start_scheduler"
  /\ scheduler' = TRUE
  /\ \/ call' = "launch" /\ UNCHANGED <<todo, faults>>
     \/ call' = "idle" /\ todo' = {} /\ Fault
  /\ UNCHANGED <<threadVars, members, stop, starts, abandoned, late>>

Launch ==
  /\ call = "launch"
  /\ \E t \in First(todo) :
       /\ Goto(t, "loop")
       /\ todo' = todo \ {t}
       /\ call' = IF todo = {t} THEN "idle" ELSE "launch"
  /\ UNCHANGED <<batch, members, stop, scheduler, starts, faults, abandoned, late>>

-----------------------------------------------------------------------------
(* stop() *)

StopBegins ==
  /\ call = "idle"
  /\ call' = "stop_set"
  /\ todo' = members
  /\ UNCHANGED <<threadVars, members, stop, scheduler, starts, faults, abandoned, late>>

\* Mutant: stop() does not wait for the threads.
StopSet_NoJoin ==
  /\ call = "stop_set"
  /\ stop' = TRUE
  /\ late' = IF stop THEN late ELSE [t \in Threads |-> 0]
  /\ call' = "clear"
  /\ todo' = {}
  /\ UNCHANGED <<threadVars, members, scheduler, starts, faults, abandoned>>

StopSet ==
  /\ call = "stop_set"
  /\ stop' = TRUE
  /\ late' = IF stop THEN late ELSE [t \in Threads |-> 0]
  /\ call' = IF todo = {} THEN "clear" ELSE "join"
  /\ UNCHANGED <<threadVars, members, todo, scheduler, starts, faults, abandoned>>

\* A thread that has ended (or was never launched) is not waited for; one that is still
\* alive after the timeout is given up.
Join ==
  /\ call = "join"
  /\ \E t \in First(todo) :
       /\ todo' = todo \ {t}
       /\ call' = IF todo = {t} THEN "clear" ELSE "join"
       /\ abandoned' = IF Alive(t) THEN abandoned \cup {t} ELSE abandoned
  /\ UNCHANGED <<threadVars, members, stop, scheduler, starts, faults, late>>

StopClears ==
  /\ call = "clear"
  /\ members' = {}
  /\ call' = "stop_state"
  /\ UNCHANGED <<threadVars, todo, stop, scheduler, starts, faults, abandoned, late>>

StopRecorded ==
  /\ call = "stop_state"
  /\ call' = "stop_scheduler"
  /\ UNCHANGED <<threadVars, members, todo, stop, scheduler, starts, faults, abandoned, late>>

\* Its write comes last, so raising changes nothing more.
StopScheduler ==
  /\ call = "stop_scheduler"
  /\ scheduler' = FALSE
  /\ call' = "idle"
  /\ UNCHANGED <<threadVars, members, todo, stop, starts, faults, abandoned, late>>

\* set_state raises out of start() or stop(): the rest of the call does not happen.
CallRaises ==
  /\ call \in {"start_state", "stop_state"}
  /\ Fault
  /\ call' = "idle"
  /\ todo' = {}
  /\ UNCHANGED <<threadVars, members, stop, scheduler, starts, abandoned, late>>

-----------------------------------------------------------------------------
(* _run_loop, _tick_async and _drain_queue. *)

\* Mutant: the loop does not look at the stop flag.
Wake_Forever(t) ==
  /\ pc[t] = "loop"
  /\ Goto(t, IF t[2] = 0 THEN "advance" ELSE "drain")
  /\ UNCHANGED <<batch, callVars, stop, scheduler, starts, faults, abandoned, late>>

\* The while condition; only worker 0 goes by the scheduler.
Wake(t) ==
  /\ pc[t] = "loop"
  /\ Goto(t, IF stop THEN "dead" ELSE IF t[2] = 0 THEN "advance" ELSE "drain")
  /\ UNCHANGED <<batch, callVars, stop, scheduler, starts, faults, abandoned, late>>

Advance(t) ==
  /\ pc[t] = "advance"
  /\ Goto(t, IF scheduler THEN "ticking" ELSE "drain")
  /\ UNCHANGED <<batch, callVars, stop, scheduler, starts, faults, abandoned, late>>

\* scheduler.tick() returns; what it raises is swallowed.
TickEnds(t) ==
  /\ pc[t] = "ticking"
  /\ Goto(t, "drain")
  /\ UNCHANGED <<batch, callVars, stop, scheduler, starts, faults, abandoned, late>>

\* The drain loop is left, and with it the count of its jobs.
LeaveDrain(t, where) == Goto(t, where) /\ batch' = [batch EXCEPT ![t] = 0]

\* Mutant: the drain loop does not look at the stop flag.
Drain_Deaf(t) ==
  /\ pc[t] = "drain"
  /\ IF batch[t] = MaxBatch THEN LeaveDrain(t, "finish") ELSE Goto(t, "claim") /\ UNCHANGED batch
  /\ UNCHANGED <<callVars, stop, scheduler, starts, faults, abandoned, late>>

\* Mutant: one job more than max_jobs_per_tick.
Drain_OffByOne(t) ==
  /\ pc[t] = "drain"
  /\ IF stop \/ batch[t] > MaxBatch
     THEN LeaveDrain(t, "finish") ELSE Goto(t, "claim") /\ UNCHANGED batch
  /\ UNCHANGED <<callVars, stop, scheduler, starts, faults, abandoned, late>>

Drain(t) ==
  /\ pc[t] = "drain"
  /\ IF stop \/ batch[t] = MaxBatch
     THEN LeaveDrain(t, "finish") ELSE Goto(t, "claim") /\ UNCHANGED batch
  /\ UNCHANGED <<callVars, stop, scheduler, starts, faults, abandoned, late>>

\* Mutant: the claimed job is not counted.
Claim_NotCounted(t) ==
  /\ pc[t] = "claim"
  /\ \/ /\ Goto(t, "job")
        /\ late' = IF stop THEN [late EXCEPT ![t] = @ + 1] ELSE late
        /\ UNCHANGED batch
     \/ LeaveDrain(t, "finish") /\ UNCHANGED late
  /\ UNCHANGED <<callVars, stop, scheduler, starts, faults, abandoned>>

\* The queue has a due job, or none.
Claim(t) ==
  /\ pc[t] = "claim"
  /\ \/ /\ Goto(t, "job")
        /\ batch' = [batch EXCEPT ![t] = @ + 1]
        /\ late' = IF stop THEN [late EXCEPT ![t] = @ + 1] ELSE late
     \/ LeaveDrain(t, "finish") /\ UNCHANGED late
  /\ UNCHANGED <<callVars, stop, scheduler, starts, faults, abandoned>>

JobEnds(t) ==
  /\ pc[t] = "job"
  /\ Goto(t, "drain")
  /\ UNCHANGED <<batch, callVars, stop, scheduler, starts, faults, abandoned, late>>

\* last_tick_at, telemetry and the wait.
TickFinished(t) ==
  /\ pc[t] = "finish"
  /\ Goto(t, "loop")
  /\ UNCHANGED <<batch, callVars, stop, scheduler, starts, faults, abandoned, late>>

\* A database call of the tick raises: claim_next, _record_error after a failed job, or
\* set_state at the end.
TickRaises(t) ==
  /\ pc[t] \in {"claim", "job", "finish"}
  /\ Fault
  /\ LeaveDrain(t, "crashed")
  /\ UNCHANGED <<callVars, stop, scheduler, starts, abandoned, late>>

\* The handler of _run_loop records the error; if that raises too, the thread ends.
ErrorHandled(t) ==
  /\ pc[t] = "crashed"
  /\ \/ Goto(t, "loop") /\ UNCHANGED faults
     \/ Goto(t, "dead") /\ Fault
  /\ UNCHANGED <<batch, callVars, stop, scheduler, starts, abandoned, late>>

-----------------------------------------------------------------------------
Start == StartBegins \/ StartRecorded \/ StartScheduler \/ Launch

Stop == StopSet \/ Join \/ StopClears \/ StopRecorded \/ StopScheduler

ThreadStep(t) ==
  \/ Wake(t) \/ Advance(t) \/ TickEnds(t) \/ Drain(t) \/ Claim(t) \/ JobEnds(t)
  \/ TickFinished(t) \/ ErrorHandled(t)

Next ==
  \/ Start \/ StopBegins \/ Stop \/ CallRaises
  \/ \E t \in Threads : ThreadStep(t) \/ TickRaises(t)

Spec == Init /\ [][Next]_vars

\* Threads are scheduled, jobs and ticks return, waits time out.
FairSpec == Spec /\ \A t \in Threads : WF_vars(ThreadStep(t))

-----------------------------------------------------------------------------
\* Every variable has its type; a thread exists from the start() that creates it.
TypeOK ==
  /\ pc \in [Threads -> PCs]
  /\ batch \in [Threads -> 0..MaxBatch]
  /\ members \subseteq Threads /\ todo \subseteq Threads /\ abandoned \subseteq Threads
  /\ stop \in BOOLEAN /\ scheduler \in BOOLEAN
  /\ call \in CallPCs
  /\ starts \in 0..MaxStarts /\ faults \in 0..MaxFaults
  /\ late \in [Threads -> Nat]
  /\ \A t \in Threads : pc[t] = "none" <=> t[1] > starts

\* A thread that runs is one stop() knows of, or one it gave up on after its timeout: a
\* stop() whose joins all succeed leaves nobody behind.
NoStray == \A t \in Threads : Alive(t) => t \in members \/ t \in abandoned

\* The scheduler is advanced by one thread at a time, whatever starts, stops and errors
\* came before, as long as stop() gave up on nobody.
OneAdvancer ==
  \A t, u \in Threads \ abandoned : pc[t] = "ticking" /\ pc[u] = "ticking" => t = u

\* Once the stop flag is set, a thread takes at most the one job whose claim it had
\* already decided on; stop()'s timeout is spent on jobs in flight.
OneLateClaim == \A t \in Threads : late[t] <= 1

\* Once stopping, every thread ends, those included that stop() no longer waits for -
\* unless a start() clears the flag first.
StopDrains == stop ~> ~stop \/ \A t \in Threads : ~Alive(t)

\* A backlog does not keep worker 0 from the scheduler: max_jobs_per_tick brings it back.
SchedulerServed ==
  \A t \in Threads :
    scheduler /\ t[2] = 0 /\ Alive(t) ~>
      pc[t] \in {"ticking", "dead"} \/ ~scheduler \/ stop

=============================================================================
