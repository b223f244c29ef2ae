----------------------------- MODULE Scheduler -----------------------------
(***************************************************************************)
(* SchedulerService (core/scheduler.py) as its callers drive it: start()   *)
(* and the LABELS_CHANGED event run sync_labels in the thread of the web   *)
(* event loop or the CLI, worker 0 of each process runs tick().  Both read *)
(* rows of scheduler_jobs in one transaction and write them in another.    *)
(*                                                                         *)
(* Time is counted in units far longer than the configuration cache lives. *)
(* Of the export queue only what enqueue's duplicate check sees is kept:   *)
(* whether a label has a due pending entry.  Profiles are left out.        *)
(***************************************************************************)
EXTENDS Integers, FiniteSets

CONSTANTS
  Labels,     \* groups of labels.json
  Processes,  \* processes that run a worker
  Web,        \* the one that serves the label editor
  Intervals,  \* members of ScheduleInterval
  Delta,      \* interval_delta
  Unparsed,   \* any other text in a label's scheduler field
  Off,        \* a label without schedule, disabled or absent
  None,
  MaxTime, MaxEdits, MaxFaults   \* bounds: clock, label edits, database errors and crashes

ASSUME SchedulerAssumption ==
  /\ Web \in Processes
  /\ Delta \in [Intervals -> Nat \ {0}]
  /\ Unparsed \notin Intervals /\ Off \notin Intervals /\ Unparsed # Off
  /\ MaxTime \in Nat /\ MaxEdits \in Nat /\ MaxFaults \in Nat

Settings == Intervals \cup {Unparsed, Off}

NextRunAfter(at, interval) == at + Delta[interval]
PreviousWindowStart(at, interval) == at - Delta[interval]

Row == [interval : Intervals, next : Int, last : Int \cup {None}]

ASSUME NoneIsNoRow == None \notin Row /\ None \notin Int /\ None \notin Labels

VARIABLES
  now,
  labels,     \* labels.json
  rows,       \* scheduler_jobs, by label
  due,        \* the label has a due pending entry in export_queue
  running,    \* scheduler.running of each process
  loader,     \* a labels loader is registered in the web process
  cache,      \* the configuration cache of the web process's worker
  sync,       \* sync_labels in progress: pc, labels to go, configuration, row read
  tick,       \* tick in progress: pc, its now, rows read and not yet written, current label
  edits, faults,
  exported,   \* history: moments in the export windows enqueued, by label
  settled,    \* history: moments in windows enqueued, or found to have a duplicate, once
              \* the row was advanced
  raced,      \* history: labels whose row one party read while another had yet to write it
  torn        \* history: labels whose tick broke off between the enqueue and the write

queueVars == <<due, exported>>
processVars == <<running, loader, cache>>
historyVars == <<settled, raced, torn>>
vars == <<now, labels, rows, due, running, loader, cache, sync, tick, edits, faults,
          exported, settled, raced, torn>>

NoSync == [pc |-> "idle", todo |-> {}, config |-> None, at |-> 0, row |-> None, cur |-> None]

NoTick == [pc |-> "idle", at |-> 0, jobs |-> <<>>, cur |-> None]

SetSync(p, s) == sync' = [sync EXCEPT ![p] = s]

SetTick(p, t) == tick' = [tick EXCEPT ![p] = t]

\* Some tick, or sync, has read the row of l and not written it back.
HeldByTick(l) == \E p \in Processes : l \in DOMAIN tick[p].jobs

HeldBySync(l) == \E p \in Processes : sync[p].pc = "write" /\ sync[p].cur = l

Fault == faults < MaxFaults /\ faults' = faults + 1

Init ==
  /\ now = 0
  /\ labels \in [Labels -> Settings]
  /\ rows = [l \in Labels |-> None]
  /\ due = [l \in Labels |-> FALSE]
  /\ running = [p \in Processes |-> FALSE]
  /\ loader = FALSE
  /\ cache = None
  /\ sync = [p \in Processes |-> NoSync]
  /\ tick = [p \in Processes |-> NoTick]
  /\ edits = 0 /\ faults = 0
  /\ exported = [l \in Labels |-> {}]
  /\ settled = [l \in Labels |-> {}]
  /\ raced = {}
  /\ torn = {}

-----------------------------------------------------------------------------
(* Surroundings: the clock, the queue and the configuration cache. *)

Elapse ==
  /\ now < MaxTime
  /\ now' = now + 1
  /\ cache' = None
  /\ UNCHANGED <<labels, rows, queueVars, running, loader, sync, tick, edits, faults, historyVars>>

\* The cache also expires, and a job of the worker loads it again, within a unit of time.
CacheExpires ==
  /\ cache # None
  /\ cache' = None
  /\ UNCHANGED <<now, labels, rows, queueVars, running, loader, sync, tick, edits, faults, historyVars>>

JobLoads ==
  /\ running[Web] /\ cache = None
  /\ edits < MaxEdits   \* otherwise nobody is left to read it
  /\ cache' = labels
  /\ UNCHANGED <<now, labels, rows, queueVars, running, loader, sync, tick, edits, faults, historyVars>>

\* A worker claims the entry; or a retry or a manual request makes one due.
QueueMoves(l) ==
  /\ due' = [due EXCEPT ![l] = ~@]
  /\ UNCHANGED <<now, labels, rows, processVars, sync, tick, edits, faults, exported, historyVars>>

-----------------------------------------------------------------------------
(* sync_labels, called by _sync_scheduler_jobs and on_labels_changed. *)

\* p loads the configuration, from its cache while that is fresh, and enters sync_labels.
SyncBegins(p, file) ==
  LET config == IF p = Web /\ cache # None THEN cache ELSE file
  IN  /\ SetSync(p, [NoSync EXCEPT !.pc = "next", !.config = config, !.at = now,
                                   !.todo = {l \in Labels : config[l] # Off}])
      /\ cache' = IF p = Web THEN config ELSE cache

Start(p) ==
  /\ ~running[p] /\ sync[p].pc = "idle"
  /\ SyncBegins(p, labels)
  /\ UNCHANGED <<now, labels, rows, queueVars, running, loader, tick, edits, faults, historyVars>>

\* Create, update or delete: write labels.json, then emit LABELS_CHANGED, which calls
\* on_labels_changed in this thread if the worker was started and its loader registered.
EditLabel(l) ==
  /\ edits < MaxEdits
  /\ sync[Web].pc = "idle"
  /\ \E setting \in Settings \ {labels[l]} : labels' = [labels EXCEPT ![l] = setting]
  /\ edits' = edits + 1
  /\ IF loader THEN SyncBegins(Web, labels') ELSE UNCHANGED <<sync, cache>>
  /\ UNCHANGED <<now, rows, queueVars, running, loader, tick, faults, historyVars>>

\* The end of sync_labels, normal or by an exception: start() goes on to start the scheduler
\* either way, but registers the loader only after a sync that did not raise.
SyncOver(p, raised) ==
  /\ SetSync(p, NoSync)
  /\ running' = [running EXCEPT ![p] = TRUE]
  /\ loader' = (loader \/ (p = Web /\ ~raised))

SyncTakes(p, l) ==
  /\ SetSync(p, [sync[p] EXCEPT !.pc = "write", !.cur = l, !.row = rows[l]])
  /\ raced' = IF HeldByTick(l) \/ HeldBySync(l) THEN raced \cup {l} ELSE raced

\* The next label of the file: parse_interval, which may raise, and find_scheduler_job.
SyncRead(p) ==
  /\ sync[p].pc = "next"
  /\ \E l \in sync[p].todo :
       \/ /\ sync[p].config[l] \in Intervals
          /\ SyncTakes(p, l)
          /\ UNCHANGED <<running, loader>>
       \/ /\ sync[p].config[l] = Unparsed
          /\ SyncOver(p, TRUE)
          /\ UNCHANGED raced
  /\ UNCHANGED <<now, labels, rows, queueVars, cache, tick, edits, faults, settled, torn>>

\* Mutant: the row is built anew.
SyncWrite_Anew(p) ==
  /\ sync[p].pc = "write"
  /\ LET l == sync[p].cur
     IN  /\ rows' = [rows EXCEPT ![l] =
              [interval |-> sync[p].config[l], next |-> sync[p].at, last |-> None]]
         /\ SetSync(p, [sync[p] EXCEPT !.pc = "next", !.todo = @ \ {l}, !.cur = None, !.row = None])
  /\ UNCHANGED <<now, labels, queueVars, processVars, tick, edits, faults, historyVars>>

SyncWrite(p) ==
  /\ sync[p].pc = "write"
  /\ LET l == sync[p].cur
         existing == sync[p].row
     IN  /\ rows' = [rows EXCEPT ![l] =
              [interval |-> sync[p].config[l],
               next     |-> IF existing = None THEN sync[p].at ELSE existing.next,
               last     |-> IF existing = None THEN None ELSE existing.last]]
         /\ SetSync(p, [sync[p] EXCEPT !.pc = "next", !.todo = @ \ {l}, !.cur = None, !.row = None])
  /\ UNCHANGED <<now, labels, queueVars, processVars, tick, edits, faults, historyVars>>

SyncEnds(p) ==
  /\ sync[p].pc = "next" /\ sync[p].todo = {}
  /\ SyncOver(p, FALSE)
  /\ UNCHANGED <<now, labels, rows, queueVars, cache, tick, edits, faults, historyVars>>

SyncFails(p) ==
  /\ sync[p].pc # "idle"
  /\ Fault
  /\ SyncOver(p, TRUE)
  /\ UNCHANGED <<now, labels, rows, queueVars, cache, tick, edits, historyVars>>

-----------------------------------------------------------------------------
(* tick *)

TickStarts(p) ==
  /\ running[p] /\ tick[p].pc = "idle"
  /\ SetTick(p, [NoTick EXCEPT !.pc = "read", !.at = now])
  /\ raced' = IF \E q \in Processes : tick[q].pc # "idle" THEN Labels ELSE raced
  /\ UNCHANGED <<now, labels, rows, queueVars, processVars, sync, edits, faults, settled, torn>>

\* due_jobs, which takes the time again.
DueRows == {l \in Labels : rows[l] # None /\ rows[l].next <= now}

TickRead(p) ==
  /\ tick[p].pc = "read"
  /\ SetTick(p, IF DueRows = {} THEN NoTick
                ELSE [tick[p] EXCEPT !.pc = "check", !.jobs = [l \in DueRows |-> rows[l]]])
  /\ raced' = raced \cup {l \in DueRows : HeldBySync(l)}
  /\ UNCHANGED <<now, labels, rows, queueVars, processVars, sync, edits, faults, settled, torn>>

\* The export window of row r in the tick of p.
Window(p, r) ==
  <<IF r.last = None THEN PreviousWindowStart(tick[p].at, r.interval) ELSE r.last, tick[p].at>>

\* The moment s is the time from s to s + 1.
Moments(w) == w[1]..(w[2] - 1)

\* The duplicate check of enqueue.
TickCheck(p) ==
  /\ tick[p].pc = "check"
  /\ \E l \in DOMAIN tick[p].jobs :
       SetTick(p, [tick[p] EXCEPT !.pc = IF due[l] THEN "save" ELSE "insert", !.cur = l])
  /\ UNCHANGED <<now, labels, rows, queueVars, processVars, sync, edits, faults, historyVars>>

TickInsert(p) ==
  /\ tick[p].pc = "insert"
  /\ LET l == tick[p].cur
     IN  /\ exported' = [exported EXCEPT ![l] = @ \cup Moments(Window(p, tick[p].jobs[l]))]
         /\ due' = [due EXCEPT ![l] = TRUE]
  /\ SetTick(p, [tick[p] EXCEPT !.pc = "save"])
  /\ UNCHANGED <<now, labels, rows, processVars, sync, edits, faults, historyVars>>

\* tick[p] without the row of its current label.
RowDone(p) ==
  LET rest == DOMAIN tick[p].jobs \ {tick[p].cur}
  IN  IF rest = {} THEN NoTick
      ELSE [tick[p] EXCEPT !.pc = "check", !.cur = None, !.jobs = [l \in rest |-> tick[p].jobs[l]]]

Settle(p) ==
  LET l == tick[p].cur
  IN  settled' = [settled EXCEPT ![l] = @ \cup Moments(Window(p, tick[p].jobs[l]))]

\* Mutant: the row records the time of the write, not of the window's end.
TickSave_Clock(p) ==
  /\ tick[p].pc = "save"
  /\ rows' = [rows EXCEPT ![tick[p].cur] =
       LET job == tick[p].jobs[tick[p].cur]
       IN  [interval |-> job.interval, next |-> NextRunAfter(now, job.interval), last |-> now]]
  /\ SetTick(p, RowDone(p))
  /\ Settle(p)
  /\ UNCHANGED <<now, labels, queueVars, processVars, sync, edits, faults, raced, torn>>

\* Mutant: the next run is not advanced.
TickSave_SameNext(p) ==
  /\ tick[p].pc = "save"
  /\ rows' = [rows EXCEPT ![tick[p].cur] = [tick[p].jobs[tick[p].cur] EXCEPT !.last = tick[p].at]]
  /\ SetTick(p, RowDone(p))
  /\ Settle(p)
  /\ UNCHANGED <<now, labels, queueVars, processVars, sync, edits, faults, raced, torn>>

TickSave(p) ==
  /\ tick[p].pc = "save"
  /\ rows' = [rows EXCEPT ![tick[p].cur] =
       LET job == tick[p].jobs[tick[p].cur]
       IN  [interval |-> job.interval,
            next     |-> NextRunAfter(tick[p].at, job.interval),
            last     |-> tick[p].at]]
  /\ SetTick(p, RowDone(p))
  /\ Settle(p)
  /\ UNCHANGED <<now, labels, queueVars, processVars, sync, edits, faults, raced, torn>>

\* A tick that breaks off with its entry enqueued and its row not written.
Torn(p) == IF tick[p].pc = "save" THEN {tick[p].cur} ELSE {}

\* A database error ends the tick; _advance_scheduler swallows it.
TickFails(p) ==
  /\ tick[p].pc # "idle"
  /\ Fault
  /\ SetTick(p, NoTick)
  /\ torn' = torn \cup Torn(p)
  /\ UNCHANGED <<now, labels, rows, queueVars, processVars, sync, edits, settled, raced>>

-----------------------------------------------------------------------------
Crash(p) ==
  /\ running[p] \/ sync[p].pc # "idle"
  /\ Fault
  /\ running' = [running EXCEPT ![p] = FALSE]
  /\ IF p = Web THEN loader' = FALSE /\ cache' = None ELSE UNCHANGED <<loader, cache>>
  /\ SetSync(p, NoSync)
  /\ SetTick(p, NoTick)
  /\ torn' = torn \cup Torn(p)
  /\ UNCHANGED <<now, labels, rows, queueVars, edits, settled, raced>>

SyncStep(p) == SyncRead(p) \/ SyncWrite(p) \/ SyncEnds(p)

TickStep(p) ==
  TickStarts(p) \/ TickRead(p) \/ TickCheck(p) \/ TickInsert(p) \/ TickSave(p)

Next ==
  \/ Elapse \/ CacheExpires \/ JobLoads
  \/ \E l \in Labels : QueueMoves(l) \/ EditLabel(l)
  \/ \E p \in Processes :
       \/ Start(p) \/ SyncStep(p) \/ SyncFails(p)
       \/ TickStep(p) \/ TickFails(p)
       \/ Crash(p)

Spec == Init /\ [][Next]_vars

FairSpec ==
  Spec /\ \A p \in Processes : WF_vars(SyncStep(p)) /\ WF_vars(TickStep(p))

-----------------------------------------------------------------------------
\* Every variable has its type; a row's interval is one that tick can parse.
TypeOK ==
  /\ now \in 0..MaxTime
  /\ labels \in [Labels -> Settings]
  /\ \A l \in Labels : rows[l] = None \/ rows[l] \in Row
  /\ due \in [Labels -> BOOLEAN]
  /\ running \in [Processes -> BOOLEAN] /\ loader \in BOOLEAN
  /\ edits \in 0..MaxEdits /\ faults \in 0..MaxFaults
  /\ raced \subseteq Labels /\ torn \subseteq Labels
  /\ cache = None \/ cache \in [Labels -> Settings]
  /\ \A p \in Processes :
       /\ sync[p].pc \in {"idle", "next", "write"} /\ sync[p].todo \subseteq Labels
       /\ tick[p].pc \in {"idle", "read", "check", "insert", "save"}
       /\ DOMAIN tick[p].jobs \subseteq Labels

\* No moment is lost: from the first window of a label to its last_run_at, every moment lies
\* in a window that tick enqueued or found a duplicate for - whatever syncs, edits, errors
\* and crashes came between, as long as no two parties had its row at once.
NoGap ==
  \A l \in Labels \ raced :
    rows[l] # None /\ rows[l].last # None =>
      \A s \in settled[l] : s..(rows[l].last - 1) \subseteq settled[l]

\* No moment is exported twice: the window that tick is about to enqueue shares none with
\* those before, unless two parties had the row at once or a tick was torn.
NothingTwice ==
  \A p \in Processes : tick[p].pc = "insert" /\ tick[p].cur \notin raced \cup torn =>
    LET w == Window(p, tick[p].jobs[tick[p].cur])
    IN  w[1] <= w[2] /\ Moments(w) \cap exported[tick[p].cur] = {}

\* A due row is served and its next run moves into the future.
DueServed ==
  \A l \in Labels :
    l \in DueRows /\ (\E p \in Processes : running[p]) ~>
      l \notin DueRows \/ \A p \in Processes : ~running[p]

\* README.md:80 lists "15min" and "30min" among the intervals: once a worker is up, every
\* label that had a schedule has its row.
ScheduledLabelsHaveRows ==
  \A p \in Processes : running[p] /\ edits = 0 =>
    \A l \in Labels : labels[l] # Off => rows[l] # None

=============================================================================
