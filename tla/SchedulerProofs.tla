--------------------------- MODULE SchedulerProofs --------------------------
(***************************************************************************)
(* Theorems about Scheduler, for any labels, processes, intervals and      *)
(* bounds: types, and that no moment of a label is lost or exported twice  *)
(* unless two parties had its row at once or a tick was torn.              *)
(***************************************************************************)
EXTENDS Scheduler, TLAPS

USE SchedulerAssumption, NoneIsNoRow

-----------------------------------------------------------------------------
(* Types *)

SyncOK(s) ==
  /\ DOMAIN s = {"pc", "todo", "config", "at", "row", "cur"}
  /\ s.pc \in {"idle", "next", "write"} /\ s.todo \subseteq Labels
  /\ s.pc # "idle" => s.config \in [Labels -> Settings] /\ s.at \in Int
  /\ s.pc = "write" => /\ s.cur \in Labels /\ s.config[s.cur] \in Intervals
                       /\ s.row = None \/ s.row \in Row

TickOK(t) ==
  /\ DOMAIN t = {"pc", "at", "jobs", "cur"}
  /\ t.pc \in {"idle", "read", "check", "insert", "save"} /\ t.at \in Int
  /\ DOMAIN t.jobs \subseteq Labels /\ \A l \in DOMAIN t.jobs : t.jobs[l] \in Row
  /\ t.pc \in {"idle", "read"} => DOMAIN t.jobs = {}
  /\ t.pc \in {"insert", "save"} => t.cur \in DOMAIN t.jobs

TypeInv ==
  /\ TypeOK
  /\ DOMAIN rows = Labels /\ DOMAIN sync = Processes /\ DOMAIN tick = Processes
  /\ settled \in [Labels -> SUBSET Int] /\ exported \in [Labels -> SUBSET Int]
  /\ \A p \in Processes : SyncOK(sync[p]) /\ TickOK(tick[p])

LEMMA NoSyncOK == SyncOK(NoSync) /\ NoSync.pc = "idle"
BY DEF NoSync, SyncOK

LEMMA NoTickOK == TickOK(NoTick) /\ NoTick.pc = "idle" /\ DOMAIN NoTick.jobs = {}
BY DEF NoTick, TickOK

LEMMA TypeInitially == Init => TypeInv
<1> SUFFICES ASSUME Init PROVE TypeInv
  OBVIOUS
<1>1. \A p \in Processes : sync[p] = NoSync /\ tick[p] = NoTick
  BY DEF Init
<1>2. \A p \in Processes : SyncOK(sync[p]) /\ TickOK(tick[p])
  BY <1>1, NoSyncOK, NoTickOK
<1>3. due \in [Labels -> BOOLEAN] /\ running \in [Processes -> BOOLEAN] /\ loader \in BOOLEAN
  BY DEF Init
<1>4. TypeOK
  BY <1>2, <1>3 DEF Init, TypeOK, SyncOK, TickOK
<1> QED BY <1>2, <1>4 DEF Init, TypeInv

\* A step that leaves the processes alone.
LEMMA TypeElsewhere ==
  ASSUME TypeInv, TypeOK', UNCHANGED <<rows, sync, tick, exported, settled>>
  PROVE  TypeInv'
BY DEF TypeInv

\* A step of sync_labels in process p.
LEMMA TypeOfSync ==
  ASSUME TypeInv, NEW p \in Processes, NEW s, SyncOK(s), SetSync(p, s),
         DOMAIN rows' = Labels, \A l \in Labels : rows'[l] = None \/ rows'[l] \in Row,
         labels' \in [Labels -> Settings], running' \in [Processes -> BOOLEAN], loader' \in BOOLEAN,
         cache' = None \/ cache' \in [Labels -> Settings],
         edits' \in 0..MaxEdits, faults' \in 0..MaxFaults, raced' \subseteq Labels,
         UNCHANGED <<now, due, tick, exported, settled, torn>>
  PROVE  TypeInv'
<1>1. DOMAIN sync' = Processes /\ \A q \in Processes : sync'[q] = IF q = p THEN s ELSE sync[q]
  BY DEF SetSync, TypeInv
<1>2. \A q \in Processes : SyncOK(sync'[q])
  BY <1>1 DEF TypeInv
<1>3. TypeOK'
  BY <1>2 DEF TypeInv, TypeOK, SyncOK
<1> QED BY <1>1, <1>2, <1>3 DEF TypeInv

\* A step of tick in process p.
LEMMA TypeOfTick ==
  ASSUME TypeInv, NEW p \in Processes, NEW t, TickOK(t), SetTick(p, t),
         DOMAIN rows' = Labels, \A l \in Labels : rows'[l] = None \/ rows'[l] \in Row,
         due' \in [Labels -> BOOLEAN], faults' \in 0..MaxFaults,
         raced' \subseteq Labels, torn' \subseteq Labels,
         exported' \in [Labels -> SUBSET Int], settled' \in [Labels -> SUBSET Int],
         UNCHANGED <<now, labels, running, loader, cache, sync, edits>>
  PROVE  TypeInv'
<1>1. DOMAIN tick' = Processes /\ \A q \in Processes : tick'[q] = IF q = p THEN t ELSE tick[q]
  BY DEF SetTick, TypeInv
<1>2. \A q \in Processes : TickOK(tick'[q])
  BY <1>1 DEF TypeInv
<1>3. TypeOK'
  BY <1>2 DEF TypeInv, TypeOK, TickOK
<1> QED BY <1>1, <1>2, <1>3 DEF TypeInv

LEMMA Faults == ASSUME TypeInv, Fault PROVE faults' \in 0..MaxFaults
BY DEF TypeInv, TypeOK, Fault

LEMMA Windows ==
  ASSUME TypeInv, NEW p \in Processes, tick[p].pc \in {"insert", "save"}
  PROVE  /\ tick[p].cur \in Labels /\ tick[p].jobs[tick[p].cur] \in Row
         /\ Moments(Window(p, tick[p].jobs[tick[p].cur])) \subseteq Int
BY DEF TypeInv, TickOK, Window, Moments

LEMMA TypesOfSync ==
  ASSUME TypeInv, NEW p \in Processes, SyncStep(p) \/ SyncFails(p) \/ Start(p)
  PROVE  TypeInv'
<1>1. /\ SyncOK(sync[p]) /\ labels \in [Labels -> Settings] /\ running \in [Processes -> BOOLEAN]
      /\ loader \in BOOLEAN
      /\ cache = None \/ cache \in [Labels -> Settings]
      /\ edits \in 0..MaxEdits /\ faults \in 0..MaxFaults /\ raced \subseteq Labels /\ now \in Int
      /\ DOMAIN rows = Labels /\ \A l \in Labels : rows[l] = None \/ rows[l] \in Row
  BY DEF TypeInv, TypeOK
<1>2. ASSUME NEW raised, SyncOver(p, raised)
      PROVE  /\ SetSync(p, NoSync) /\ running' \in [Processes -> BOOLEAN] /\ loader' \in BOOLEAN
  BY <1>1, <1>2 DEF SyncOver
<1>3. CASE Start(p)
  <2> DEFINE config == IF p = Web /\ cache # None THEN cache ELSE labels
             s == [NoSync EXCEPT !.pc = "next", !.config = config, !.at = now,
                                 !.todo = {l \in Labels : config[l] # Off}]
  <2>1. config \in [Labels -> Settings]
    BY <1>1
  <2>2. SetSync(p, s) /\ cache' = IF p = Web THEN config ELSE cache
    BY <1>3 DEF Start, SyncBegins
  <2>3. /\ UNCHANGED <<now, labels, rows, due, exported, running, loader, tick, edits, faults>>
        /\ UNCHANGED <<settled, raced, torn>>
    BY <1>3 DEF Start, queueVars, historyVars
  <2> HIDE DEF config
  <2>4. SyncOK(s)
    BY <1>1, <2>1 DEF SyncOK, NoSync
  <2>5. cache' = None \/ cache' \in [Labels -> Settings]
    BY <1>1, <2>1, <2>2
  <2> HIDE DEF s
  <2> QED BY <1>1, <2>2, <2>3, <2>4, <2>5, TypeOfSync
<1>4. CASE SyncRead(p)
  <2>1. /\ UNCHANGED <<now, labels, rows, due, exported, cache, tick, edits, faults, settled, torn>>
        /\ sync[p].pc = "next"
    BY <1>4 DEF SyncRead, queueVars
  <2>2. PICK l \in sync[p].todo :
          \/ sync[p].config[l] \in Intervals /\ SyncTakes(p, l) /\ UNCHANGED <<running, loader>>
          \/ SyncOver(p, TRUE) /\ UNCHANGED raced
    BY <1>4 DEF SyncRead
  <2>3. CASE SyncOver(p, TRUE) /\ UNCHANGED raced
    BY <1>1, <1>2, <2>1, <2>3, NoSyncOK, TypeOfSync
  <2>4. CASE sync[p].config[l] \in Intervals /\ SyncTakes(p, l) /\ UNCHANGED <<running, loader>>
    <3> DEFINE s == [sync[p] EXCEPT !.pc = "write", !.cur = l, !.row = rows[l]]
    <3>1. SetSync(p, s) /\ raced' \subseteq Labels
      BY <1>1, <2>4 DEF SyncTakes, SyncOK
    <3>2. SyncOK(s)
      BY <1>1, <2>1, <2>4 DEF SyncOK
    <3> HIDE DEF s
    <3> QED BY <1>1, <2>1, <2>4, <3>1, <3>2, TypeOfSync
  <2> QED BY <2>2, <2>3, <2>4
<1>5. CASE SyncWrite(p)
  <2> DEFINE l == sync[p].cur
             r == [interval |-> sync[p].config[l],
                   next     |-> IF sync[p].row = None THEN sync[p].at ELSE sync[p].row.next,
                   last     |-> IF sync[p].row = None THEN None ELSE sync[p].row.last]
             s == [sync[p] EXCEPT !.pc = "next", !.todo = @ \ {l}, !.cur = None, !.row = None]
  <2>1. rows' = [rows EXCEPT ![l] = r] /\ SetSync(p, s) /\ sync[p].pc = "write"
    BY <1>5 DEF SyncWrite
  <2>2. UNCHANGED <<now, labels, due, exported, running, loader, cache, tick, edits, faults,
                    settled, raced, torn>>
    BY <1>5 DEF SyncWrite, queueVars, processVars, historyVars
  <2>3. l \in Labels /\ r \in Row
    BY <1>1, <2>1 DEF SyncOK, Row
  <2>4. SyncOK(s)
    BY <1>1, <2>1 DEF SyncOK
  <2> HIDE DEF r, s, l
  <2>5. DOMAIN rows' = Labels /\ \A k \in Labels : rows'[k] = None \/ rows'[k] \in Row
    BY <1>1, <2>1, <2>3
  <2> QED BY <1>1, <2>1, <2>2, <2>4, <2>5, TypeOfSync
<1>6. CASE SyncEnds(p) \/ SyncFails(p)
  <2>1. /\ UNCHANGED <<now, labels, rows, due, exported, cache, tick, edits, settled, raced, torn>>
        /\ \E raised \in BOOLEAN : SyncOver(p, raised)
    BY <1>6 DEF SyncEnds, SyncFails, queueVars, historyVars
  <2>2. faults' \in 0..MaxFaults
    BY <1>1, <1>6, Faults DEF SyncEnds, SyncFails
  <2> QED BY <1>1, <1>2, <2>1, <2>2, NoSyncOK, TypeOfSync
<1> QED BY <1>3, <1>4, <1>5, <1>6 DEF SyncStep

LEMMA TypesOfTick ==
  ASSUME TypeInv, NEW p \in Processes, TickStep(p) \/ TickFails(p)
  PROVE  TypeInv'
<1>1. /\ TickOK(tick[p]) /\ now \in Int /\ due \in [Labels -> BOOLEAN]
      /\ faults \in 0..MaxFaults /\ raced \subseteq Labels /\ torn \subseteq Labels
      /\ exported \in [Labels -> SUBSET Int] /\ settled \in [Labels -> SUBSET Int]
      /\ DOMAIN rows = Labels /\ \A l \in Labels : rows[l] = None \/ rows[l] \in Row
  BY DEF TypeInv, TypeOK
<1>2. CASE TickStarts(p)
  <2> DEFINE t == [NoTick EXCEPT !.pc = "read", !.at = now]
  <2>1. SetTick(p, t) /\ raced' \subseteq Labels
    BY <1>1, <1>2 DEF TickStarts
  <2>2. UNCHANGED <<now, labels, rows, due, exported, running, loader, cache, sync, edits, faults,
                    settled, torn>>
    BY <1>2 DEF TickStarts, queueVars, processVars
  <2>3. TickOK(t)
    BY <1>1 DEF TickOK, NoTick
  <2> HIDE DEF t
  <2> QED BY <1>1, <2>1, <2>2, <2>3, TypeOfTick
<1>3. CASE TickRead(p)
  <2> DEFINE t == IF DueRows = {} THEN NoTick
                  ELSE [tick[p] EXCEPT !.pc = "check", !.jobs = [l \in DueRows |-> rows[l]]]
  <2>1. SetTick(p, t) /\ raced' \subseteq Labels
    BY <1>1, <1>3 DEF TickRead, DueRows
  <2>2. UNCHANGED <<now, labels, rows, due, exported, running, loader, cache, sync, edits, faults,
                    settled, torn>>
    BY <1>3 DEF TickRead, queueVars, processVars
  <2>3. TickOK(t)
    BY <1>1, NoTickOK DEF TickOK, DueRows
  <2> HIDE DEF t
  <2> QED BY <1>1, <2>1, <2>2, <2>3, TypeOfTick
<1>4. CASE TickCheck(p)
  <2>1. PICK l \in DOMAIN tick[p].jobs :
          SetTick(p, [tick[p] EXCEPT !.pc = IF due[l] THEN "save" ELSE "insert", !.cur = l])
    BY <1>4 DEF TickCheck
  <2> DEFINE t == [tick[p] EXCEPT !.pc = IF due[l] THEN "save" ELSE "insert", !.cur = l]
  <2>2. UNCHANGED <<now, labels, rows, due, exported, running, loader, cache, sync, edits, faults,
                    settled, raced, torn>>
    BY <1>4 DEF TickCheck, queueVars, processVars, historyVars
  <2>3. TickOK(t)
    BY <1>1 DEF TickOK
  <2> HIDE DEF t
  <2> QED BY <1>1, <2>1, <2>2, <2>3, TypeOfTick DEF t
<1>5. CASE TickInsert(p)
  <2> DEFINE t == [tick[p] EXCEPT !.pc = "save"]
  <2>1. SetTick(p, t) /\ tick[p].pc = "insert"
    BY <1>5 DEF TickInsert
  <2>2. UNCHANGED <<now, labels, rows, running, loader, cache, sync, edits, faults,
                    settled, raced, torn>>
    BY <1>5 DEF TickInsert, processVars, historyVars
  <2>3. due' \in [Labels -> BOOLEAN] /\ exported' \in [Labels -> SUBSET Int]
    BY <1>1, <1>5, <2>1, Windows DEF TickInsert
  <2>4. TickOK(t)
    BY <1>1, <2>1 DEF TickOK
  <2> HIDE DEF t
  <2> QED BY <1>1, <2>1, <2>2, <2>3, <2>4, TypeOfTick
<1>6. CASE TickSave(p)
  <2> DEFINE job == tick[p].jobs[tick[p].cur]
             r == [interval |-> job.interval, next |-> NextRunAfter(tick[p].at, job.interval),
                   last |-> tick[p].at]
  <2>1. SetTick(p, RowDone(p)) /\ tick[p].pc = "save" /\ rows' = [rows EXCEPT ![tick[p].cur] = r]
    BY <1>6 DEF TickSave
  <2>2. UNCHANGED <<now, labels, due, exported, running, loader, cache, sync, edits, faults,
                    raced, torn>>
    BY <1>6 DEF TickSave, queueVars, processVars
  <2>3. settled' \in [Labels -> SUBSET Int]
    BY <1>1, <1>6, <2>1, Windows DEF TickSave, Settle
  <2>4. r \in Row /\ tick[p].cur \in Labels
    BY <1>1, <2>1, Windows DEF TickOK, Row, NextRunAfter
  <2>5. DOMAIN rows' = Labels /\ \A k \in Labels : rows'[k] = None \/ rows'[k] \in Row
    BY <1>1, <2>1, <2>4
  <2>6. TickOK(RowDone(p))
    BY <1>1, <2>1, NoTickOK DEF TickOK, RowDone
  <2> QED BY <1>1, <2>1, <2>2, <2>3, <2>5, <2>6, TypeOfTick
<1>7. CASE TickFails(p)
  <2>1. SetTick(p, NoTick) /\ torn' = torn \cup Torn(p) /\ faults' \in 0..MaxFaults
    BY <1>7, Faults DEF TickFails
  <2>2. UNCHANGED <<now, labels, rows, due, exported, running, loader, cache, sync, edits,
                    settled, raced>>
    BY <1>7 DEF TickFails, queueVars, processVars
  <2>3. torn' \subseteq Labels
    BY <1>1, <2>1, Windows DEF Torn
  <2> QED BY <1>1, <2>1, <2>2, <2>3, NoTickOK, TypeOfTick
<1> QED BY <1>2, <1>3, <1>4, <1>5, <1>6, <1>7 DEF TickStep

LEMMA TypeKeeps ==
  ASSUME TypeInv, [Next]_vars
  PROVE  TypeInv'
<1>1. /\ labels \in [Labels -> Settings] /\ now \in 0..MaxTime /\ edits \in 0..MaxEdits
      /\ raced \subseteq Labels /\ running \in [Processes -> BOOLEAN] /\ loader \in BOOLEAN
      /\ cache = None \/ cache \in [Labels -> Settings]
      /\ DOMAIN rows = Labels /\ \A l \in Labels : rows[l] = None \/ rows[l] \in Row
      /\ due \in [Labels -> BOOLEAN] /\ torn \subseteq Labels /\ faults \in 0..MaxFaults
  BY DEF TypeInv, TypeOK
<1>2. CASE Elapse \/ CacheExpires \/ JobLoads \/ UNCHANGED vars
  <2>1. /\ now' \in 0..MaxTime
        /\ cache' = None \/ cache' \in [Labels -> Settings]
        /\ UNCHANGED <<labels, rows, due, exported, running, loader, sync, tick, edits, faults>>
        /\ UNCHANGED <<settled, raced, torn>>
    BY <1>1, <1>2 DEF Elapse, CacheExpires, JobLoads, vars, queueVars, historyVars
  <2>2. TypeOK'
    BY <2>1 DEF TypeInv, TypeOK
  <2> QED BY <2>1, <2>2, TypeElsewhere
<1>3. ASSUME NEW l \in Labels, QueueMoves(l) PROVE TypeInv'
  <2>1. /\ UNCHANGED <<now, labels, rows, running, loader, cache, sync, tick, edits, faults>>
        /\ UNCHANGED <<exported, settled, raced, torn>>
    BY <1>3 DEF QueueMoves, processVars, historyVars
  <2>2. due' \in [Labels -> BOOLEAN]
    BY <1>1, <1>3 DEF QueueMoves
  <2>3. TypeOK'
    BY <2>1, <2>2 DEF TypeInv, TypeOK
  <2> QED BY <2>1, <2>3, TypeElsewhere
<1>4. ASSUME NEW l \in Labels, EditLabel(l) PROVE TypeInv'
  <2>1. /\ UNCHANGED <<now, rows, due, exported, running, loader, tick, faults, settled, raced, torn>>
        /\ edits' = edits + 1 /\ edits < MaxEdits
        /\ \E setting \in Settings : labels' = [labels EXCEPT ![l] = setting]
    BY <1>4 DEF EditLabel, queueVars, historyVars
  <2>2. labels' \in [Labels -> Settings] /\ edits' \in 0..MaxEdits
    BY <1>1, <2>1
  <2>3. CASE UNCHANGED <<sync, cache>>
    <3>1. TypeOK'
      BY <2>1, <2>2, <2>3 DEF TypeInv, TypeOK
    <3> QED BY <2>1, <2>3, <3>1, TypeElsewhere
  <2>4. CASE SyncBegins(Web, labels')
    <3> DEFINE config == IF Web = Web /\ cache # None THEN cache ELSE labels'
               s == [NoSync EXCEPT !.pc = "next", !.config = config, !.at = now,
                                   !.todo = {k \in Labels : config[k] # Off}]
    <3>1. SetSync(Web, s) /\ cache' = config
      BY <2>4 DEF SyncBegins
    <3>2. config \in [Labels -> Settings]
      BY <1>1, <2>2
    <3> HIDE DEF config
    <3>3. SyncOK(s)
      BY <1>1, <3>2 DEF SyncOK, NoSync
    <3> HIDE DEF s
    <3> QED BY <1>1, <2>1, <2>2, <3>1, <3>2, <3>3, TypeOfSync
  <2> QED BY <1>4, <2>3, <2>4 DEF EditLabel
<1>5. ASSUME NEW p \in Processes, Crash(p) PROVE TypeInv'
  <2>1. /\ UNCHANGED <<now, labels, rows, due, exported, edits, settled, raced>>
        /\ running' = [running EXCEPT ![p] = FALSE] /\ SetSync(p, NoSync) /\ SetTick(p, NoTick)
        /\ torn' = torn \cup Torn(p)
    BY <1>5 DEF Crash, queueVars
  <2>2. /\ loader' \in BOOLEAN /\ faults' \in 0..MaxFaults /\ running' \in [Processes -> BOOLEAN]
        /\ cache' = None \/ cache' \in [Labels -> Settings]
    BY <1>1, <1>5, <2>1, Faults DEF Crash
  <2>3. torn' \subseteq Labels
    BY <1>1, <2>1, Windows DEF Torn
  <2>4. DOMAIN sync' = Processes /\ DOMAIN tick' = Processes
        /\ \A q \in Processes : /\ sync'[q] = IF q = p THEN NoSync ELSE sync[q]
                                /\ tick'[q] = IF q = p THEN NoTick ELSE tick[q]
    BY <2>1 DEF SetSync, SetTick, TypeInv
  <2>5. \A q \in Processes : SyncOK(sync'[q]) /\ TickOK(tick'[q])
    BY <2>4, NoSyncOK, NoTickOK DEF TypeInv
  <2>6. TypeOK'
    BY <2>1, <2>2, <2>3, <2>5 DEF TypeInv, TypeOK, SyncOK, TickOK
  <2> QED BY <2>1, <2>4, <2>5, <2>6 DEF TypeInv
<1> QED BY <1>2, <1>3, <1>4, <1>5, TypesOfSync, TypesOfTick DEF Next

\* Every variable keeps its type; a row's interval is one that tick can parse.
THEOREM TypeCorrect == Spec => []TypeOK
<1>1. TypeInv => TypeOK
  BY DEF TypeInv
<1> QED BY TypeInitially, TypeKeeps, <1>1, PTL DEF Spec

-----------------------------------------------------------------------------
(* Windows *)

Ticking(p) == tick[p].pc # "idle"

\* last_run_at of a label's row.
LastRun(l) == IF rows[l] = None THEN None ELSE rows[l].last

\* A label that is not raced: whoever has read its row has it as it is, and alone.
HoldInv ==
  /\ \A p, q \in Processes : Ticking(p) /\ Ticking(q) /\ p # q => raced = Labels
  /\ \A p \in Processes : \A l \in DOMAIN tick[p].jobs \ raced : tick[p].jobs[l] = rows[l]
  /\ \A p \in Processes :
       sync[p].pc = "write" /\ sync[p].cur \notin raced =>
         /\ sync[p].row = rows[sync[p].cur]
         /\ \A q \in Processes : sync[p].cur \notin DOMAIN tick[q].jobs
         /\ \A q \in Processes : sync[q].pc = "write" /\ sync[q].cur = sync[p].cur => q = p

\* What it settled is one interval that ends at its last run.
GapInv ==
  \A l \in Labels \ raced :
    /\ LastRun(l) = None => settled[l] = {}
    /\ LastRun(l) # None => \A s \in settled[l] : s..(LastRun(l) - 1) \subseteq settled[l]

\* What it exported lies before its last run, or before the tick that is about to advance it.
OnceInv ==
  /\ \A p \in Processes : tick[p].at <= now
  /\ \A l \in Labels \ raced : LastRun(l) # None =>
       /\ LastRun(l) <= now
       /\ \A p \in Processes : Ticking(p) => LastRun(l) <= tick[p].at
  /\ \A l \in Labels \ (raced \cup torn) : \A m \in exported[l] :
       \/ LastRun(l) # None /\ m < LastRun(l)
       \/ \E p \in Processes : tick[p].pc = "save" /\ tick[p].cur = l /\ m < tick[p].at

WindowInv == TypeInv /\ HoldInv /\ GapInv /\ OnceInv

LEMMA WindowInitially == Init => WindowInv
<1> SUFFICES ASSUME Init PROVE WindowInv
  OBVIOUS
<1>1. \A p \in Processes : /\ sync[p].pc = "idle" /\ tick[p].pc = "idle" /\ tick[p].at = 0
                           /\ DOMAIN tick[p].jobs = {}
  BY NoSyncOK, NoTickOK DEF Init, NoTick
<1>2. \A l \in Labels : LastRun(l) = None
  BY DEF Init, LastRun
<1>3. HoldInv /\ GapInv
  BY <1>1, <1>2 DEF Init, HoldInv, GapInv, Ticking
<1>4. OnceInv
  BY <1>1, <1>2 DEF Init, OnceInv, Ticking
<1> QED BY <1>3, <1>4, TypeInitially DEF WindowInv

LEMMA WindowsFit ==
  ASSUME WindowInv
  PROVE  NoGap /\ NothingTwice
<1>1. NoGap
  BY DEF WindowInv, GapInv, NoGap, LastRun
<1>2. ASSUME NEW p \in Processes, tick[p].pc = "insert", tick[p].cur \notin raced \cup torn
      PROVE  LET w == Window(p, tick[p].jobs[tick[p].cur])
             IN  w[1] <= w[2] /\ Moments(w) \cap exported[tick[p].cur] = {}
  <2> DEFINE l == tick[p].cur
  <2>1. /\ l \in DOMAIN tick[p].jobs /\ l \in Labels /\ tick[p].at \in Int /\ Ticking(p)
        /\ tick[p].jobs[l] \in Row /\ tick[p].jobs[l] = rows[l]
    BY <1>2 DEF WindowInv, TypeInv, TickOK, HoldInv, Ticking
  <2>2. \A q \in Processes : ~(tick[q].pc = "save" /\ tick[q].cur = l)
    BY <1>2, <2>1 DEF WindowInv, HoldInv, Ticking
  <2>3. \A m \in exported[l] : LastRun(l) # None /\ m < LastRun(l)
    BY <1>2, <2>1, <2>2 DEF WindowInv, OnceInv
  <2>4. rows[l] # None /\ rows[l].last \in Int \cup {None} /\ rows[l].interval \in Intervals
    BY <2>1 DEF Row
  <2>5. CASE rows[l].last = None
    BY <2>1, <2>3, <2>4, <2>5 DEF LastRun, Window, Moments, PreviousWindowStart
  <2>6. CASE rows[l].last # None
    <3>1. LastRun(l) = rows[l].last /\ rows[l].last <= tick[p].at /\ rows[l].last \in Int
      BY <1>2, <2>1, <2>4, <2>6 DEF LastRun, WindowInv, OnceInv
    <3>2. Window(p, tick[p].jobs[l]) = <<rows[l].last, tick[p].at>>
      BY <2>1, <2>6 DEF Window
    <3>3. exported[l] \subseteq Int
      BY <2>1 DEF WindowInv, TypeInv
    <3> QED BY <2>1, <2>3, <3>1, <3>2, <3>3 DEF Moments
  <2> QED BY <2>5, <2>6
<1> QED BY <1>1, <1>2 DEF NothingTwice

\* Time passes, syncs and ticks end or break off; nobody reads or writes a row.
LEMMA NobodyWrites ==
  ASSUME WindowInv, UNCHANGED <<rows, exported, settled>>, now \in Int, now' \in Int, now <= now',
         raced \subseteq raced', raced' \subseteq Labels, torn \subseteq torn',
         \A q \in Processes : sync'[q].pc = "write" => sync'[q] = sync[q],
         \A q \in Processes : \/ tick'[q] = tick[q]
                              \/ tick'[q] = NoTick /\ Torn(q) \subseteq torn' /\ NoTick.at <= now'
  PROVE  HoldInv' /\ GapInv' /\ OnceInv'
<1>1. \A q \in Processes : /\ Ticking(q)' => tick'[q] = tick[q] /\ Ticking(q)
                           /\ DOMAIN tick'[q].jobs # {} => tick'[q] = tick[q]
  BY NoTickOK DEF Ticking
<1>2. \A l \in Labels : LastRun(l)' = LastRun(l)
  BY DEF LastRun
<1>3. HoldInv'
  <2>1. ASSUME NEW q1 \in Processes, NEW q2 \in Processes, Ticking(q1)', Ticking(q2)', q1 # q2
        PROVE  raced' = Labels
    BY <1>1, <2>1 DEF WindowInv, HoldInv
  <2>2. ASSUME NEW q \in Processes, NEW l \in DOMAIN tick'[q].jobs \ raced'
        PROVE  tick'[q].jobs[l] = rows'[l]
    BY <1>1, <2>2 DEF WindowInv, HoldInv
  <2>3. ASSUME NEW q \in Processes, sync'[q].pc = "write", sync'[q].cur \notin raced'
        PROVE  /\ sync'[q].row = rows'[sync'[q].cur]
               /\ \A r \in Processes : sync'[q].cur \notin DOMAIN tick'[r].jobs
               /\ \A r \in Processes : sync'[r].pc = "write" /\ sync'[r].cur = sync'[q].cur => r = q
    BY <1>1, <2>3 DEF WindowInv, HoldInv
  <2> QED BY <2>1, <2>2, <2>3 DEF HoldInv
<1>4. GapInv'
  BY <1>2 DEF WindowInv, GapInv
<1>5. OnceInv'
  <2>1. \A q \in Processes : tick'[q].at <= now'
    BY DEF WindowInv, OnceInv, TypeInv, TickOK
  <2>2. ASSUME NEW l \in Labels \ raced', LastRun(l)' # None
        PROVE  LastRun(l)' <= now' /\ \A q \in Processes : Ticking(q)' => LastRun(l)' <= tick'[q].at
    <3>1. LastRun(l) \in Int /\ LastRun(l) <= now
      BY <1>2, <2>2 DEF WindowInv, OnceInv, TypeInv, TypeOK, Row, LastRun
    <3> QED BY <1>1, <1>2, <2>2, <3>1 DEF WindowInv, OnceInv
  <2>3. ASSUME NEW l \in Labels \ (raced' \cup torn'), NEW m \in exported'[l]
        PROVE  \/ LastRun(l)' # None /\ m < LastRun(l)'
               \/ \E q \in Processes : tick'[q].pc = "save" /\ tick'[q].cur = l /\ m < tick'[q].at
    BY <1>2, <2>3 DEF WindowInv, OnceInv, Torn
  <2> QED BY <2>1, <2>2, <2>3 DEF OnceInv
<1> QED BY <1>3, <1>4, <1>5

\* A tick alone: no other process is in a tick when a label is not raced.
LEMMA TickAlone ==
  ASSUME WindowInv, NEW p \in Processes, Ticking(p), NEW l \in Labels \ raced, NEW q \in Processes,
         Ticking(q)
  PROVE  q = p
BY DEF WindowInv, HoldInv

LEMMA SyncTakesRow ==
  ASSUME WindowInv, NEW p \in Processes, NEW l \in Labels, SyncTakes(p, l),
         UNCHANGED <<rows, exported, settled, tick, now, torn>>
  PROVE  HoldInv' /\ GapInv' /\ OnceInv'
<1>1. /\ raced \subseteq raced' /\ raced' \subseteq Labels
      /\ HeldByTick(l) \/ HeldBySync(l) => l \in raced'
  BY DEF SyncTakes, WindowInv, TypeInv, TypeOK
<1>2. \A q \in Processes : q # p => sync'[q] = sync[q]
  BY DEF SyncTakes, SetSync, WindowInv, TypeInv
<1>3. sync'[p].pc = "write" /\ sync'[p].cur = l /\ sync'[p].row = rows[l]
  BY DEF SyncTakes, SetSync, WindowInv, TypeInv, SyncOK
<1>4. \A k \in Labels : LastRun(k)' = LastRun(k)
  BY DEF LastRun
<1>5. ASSUME NEW q \in Processes, sync'[q].pc = "write", sync'[q].cur \notin raced'
      PROVE  /\ sync'[q].row = rows'[sync'[q].cur]
             /\ \A r \in Processes : sync'[q].cur \notin DOMAIN tick'[r].jobs
             /\ \A r \in Processes : sync'[r].pc = "write" /\ sync'[r].cur = sync'[q].cur => r = q
  <2>1. CASE q = p
    <3>1. ~HeldByTick(l) /\ ~HeldBySync(l)
      BY <1>1, <1>3, <1>5, <2>1
    <3> QED BY <1>2, <1>3, <2>1, <3>1 DEF HeldByTick, HeldBySync
  <2>2. CASE q # p
    <3>1. sync'[q] = sync[q] /\ sync[q].cur \notin raced
      BY <1>1, <1>2, <1>5, <2>2
    <3>2. sync[q].cur = l => HeldBySync(l)
      BY <1>5, <3>1 DEF HeldBySync
    <3>3. sync[q].cur # l
      BY <1>1, <1>5, <3>1, <3>2
    <3> QED BY <1>2, <1>3, <1>5, <3>1, <3>3 DEF WindowInv, HoldInv
  <2> QED BY <2>1, <2>2
<1>6. HoldInv'
  <2>1. ASSUME NEW q1 \in Processes, NEW q2 \in Processes, Ticking(q1)', Ticking(q2)', q1 # q2
        PROVE  raced' = Labels
    BY <1>1, <2>1 DEF WindowInv, HoldInv, Ticking
  <2>2. ASSUME NEW q \in Processes, NEW k \in DOMAIN tick'[q].jobs \ raced'
        PROVE  tick'[q].jobs[k] = rows'[k]
    BY <1>1, <2>2 DEF WindowInv, HoldInv
  <2> QED BY <1>5, <2>1, <2>2 DEF HoldInv
<1>7. GapInv'
  BY <1>1, <1>4 DEF WindowInv, GapInv
<1>8. OnceInv'
  BY <1>1, <1>4 DEF WindowInv, OnceInv, Ticking
<1> QED BY <1>6, <1>7, <1>8

\* sync_labels keeps what it does not set: the last run stays.
LEMMA SyncWritesRow ==
  ASSUME WindowInv, NEW p \in Processes, SyncWrite(p)
  PROVE  HoldInv' /\ GapInv' /\ OnceInv'
<1> DEFINE l == sync[p].cur
           r == [interval |-> sync[p].config[l],
                 next     |-> IF sync[p].row = None THEN sync[p].at ELSE sync[p].row.next,
                 last     |-> IF sync[p].row = None THEN None ELSE sync[p].row.last]
<1>1. /\ rows' = [rows EXCEPT ![l] = r] /\ sync[p].pc = "write"
      /\ UNCHANGED <<now, exported, settled, raced, torn, tick>>
  BY DEF SyncWrite, queueVars, historyVars
<1>2. /\ \A q \in Processes : q # p => sync'[q] = sync[q]
      /\ sync'[p].pc = "next" /\ l \in Labels
  BY DEF SyncWrite, SetSync, WindowInv, TypeInv, SyncOK
<1>3. \A k \in Labels : k # l => rows'[k] = rows[k]
  BY <1>1 DEF WindowInv, TypeInv
<1>4. \A k \in Labels \ raced : LastRun(k)' = LastRun(k)
  <2>1. CASE l \in raced
    BY <1>3, <2>1 DEF LastRun
  <2>2. CASE l \notin raced
    <3>1. sync[p].row = rows[l] /\ rows'[l] = r /\ r # None /\ r.last = LastRun(l)
      <4>1. sync[p].row = rows[l] /\ rows'[l] = r
        BY <1>1, <1>2, <2>2 DEF WindowInv, TypeInv, HoldInv
      <4>2. r \in Row
        BY <1>1 DEF WindowInv, TypeInv, SyncOK, Row
      <4> QED BY <4>1, <4>2 DEF LastRun
    <3> QED BY <1>3, <3>1 DEF LastRun
  <2> QED BY <2>1, <2>2
<1> HIDE DEF r
<1>5. ASSUME NEW q \in Processes, NEW k \in DOMAIN tick'[q].jobs \ raced'
      PROVE  tick'[q].jobs[k] = rows'[k]
  <2>1. k \in Labels /\ k # l
    BY <1>1, <1>5 DEF WindowInv, TypeInv, TickOK, HoldInv
  <2> QED BY <1>1, <1>3, <1>5, <2>1 DEF WindowInv, HoldInv
<1>6. ASSUME NEW q \in Processes, sync'[q].pc = "write", sync'[q].cur \notin raced'
      PROVE  /\ sync'[q].row = rows'[sync'[q].cur]
             /\ \A s \in Processes : sync'[q].cur \notin DOMAIN tick'[s].jobs
             /\ \A s \in Processes : sync'[s].pc = "write" /\ sync'[s].cur = sync'[q].cur => s = q
  <2>1. q # p /\ sync'[q] = sync[q] /\ sync[q].cur \notin raced
    BY <1>1, <1>2, <1>6
  <2>2. sync[q].cur # l /\ sync[q].cur \in Labels
    BY <1>1, <1>6, <2>1 DEF WindowInv, HoldInv, TypeInv, SyncOK
  <2> QED BY <1>1, <1>2, <1>3, <1>6, <2>1, <2>2 DEF WindowInv, HoldInv
<1>7. HoldInv'
  BY <1>1, <1>5, <1>6 DEF WindowInv, HoldInv, Ticking
<1>8. GapInv'
  BY <1>1, <1>4 DEF WindowInv, GapInv
<1>9. OnceInv'
  BY <1>1, <1>4 DEF WindowInv, OnceInv, Ticking
<1> QED BY <1>7, <1>8, <1>9

LEMMA TickBegins ==
  ASSUME WindowInv, NEW p \in Processes, TickStarts(p)
  PROVE  HoldInv' /\ GapInv' /\ OnceInv'
<1>1. /\ UNCHANGED <<rows, sync, exported, settled, now, torn>> /\ raced \subseteq raced'
      /\ raced' \subseteq Labels /\ now \in Int
      /\ \A q \in Processes : Ticking(q) => raced' = Labels
  BY DEF TickStarts, queueVars, WindowInv, TypeInv, TypeOK, Ticking
<1>2. /\ \A q \in Processes : q # p => tick'[q] = tick[q]
      /\ tick'[p].pc = "read" /\ tick'[p].at = now /\ DOMAIN tick'[p].jobs = {} /\ ~Ticking(p)
  BY NoTickOK DEF TickStarts, SetTick, WindowInv, TypeInv, NoTick, Ticking
<1>3. \A k \in Labels : LastRun(k)' = LastRun(k)
  BY <1>1 DEF LastRun
<1>4. HoldInv'
  <2>1. ASSUME NEW q1 \in Processes, NEW q2 \in Processes, Ticking(q1)', Ticking(q2)', q1 # q2
        PROVE  raced' = Labels
    BY <1>1, <1>2, <2>1 DEF Ticking
  <2>2. ASSUME NEW q \in Processes, NEW l \in DOMAIN tick'[q].jobs \ raced'
        PROVE  tick'[q].jobs[l] = rows'[l]
    BY <1>1, <1>2, <2>2 DEF WindowInv, HoldInv
  <2>3. ASSUME NEW q \in Processes, sync'[q].pc = "write", sync'[q].cur \notin raced'
        PROVE  /\ sync'[q].row = rows'[sync'[q].cur]
               /\ \A r \in Processes : sync'[q].cur \notin DOMAIN tick'[r].jobs
               /\ \A r \in Processes : sync'[r].pc = "write" /\ sync'[r].cur = sync'[q].cur => r = q
    BY <1>1, <1>2, <2>3 DEF WindowInv, HoldInv
  <2> QED BY <2>1, <2>2, <2>3 DEF HoldInv
<1>5. GapInv'
  BY <1>1, <1>3 DEF WindowInv, GapInv
<1>6. OnceInv'
  <2>1. \A q \in Processes : tick'[q].at <= now'
    BY <1>1, <1>2 DEF WindowInv, OnceInv
  <2>2. ASSUME NEW l \in Labels \ raced', LastRun(l)' # None
        PROVE  LastRun(l)' <= now' /\ \A q \in Processes : Ticking(q)' => LastRun(l)' <= tick'[q].at
    BY <1>1, <1>2, <1>3, <2>2 DEF WindowInv, OnceInv, Ticking
  <2>3. ASSUME NEW l \in Labels \ (raced' \cup torn'), NEW m \in exported'[l]
        PROVE  \/ LastRun(l)' # None /\ m < LastRun(l)'
               \/ \E q \in Processes : tick'[q].pc = "save" /\ tick'[q].cur = l /\ m < tick'[q].at
    BY <1>1, <1>2, <1>3, <2>3 DEF WindowInv, OnceInv, Ticking
  <2> QED BY <2>1, <2>2, <2>3 DEF OnceInv
<1> QED BY <1>4, <1>5, <1>6

\* A tick that has read, or not yet read, its rows, or goes on to the next of them.
LEMMA TickGoesOn ==
  ASSUME WindowInv, NEW p \in Processes, Ticking(p),
         UNCHANGED <<rows, sync, settled, exported, now, torn>>,
         raced \subseteq raced', raced' \subseteq Labels,
         \A q \in Processes : q # p => tick'[q] = tick[q],
         tick'[p].at = tick[p].at, tick[p].pc # "save",
         \A l \in DOMAIN tick'[p].jobs : l \notin raced' => tick'[p].jobs[l] = rows[l],
         \A q \in Processes : sync[q].pc = "write" /\ sync[q].cur \in DOMAIN tick'[p].jobs =>
           sync[q].cur \in raced'
  PROVE  HoldInv' /\ GapInv' /\ OnceInv'
<1>1. \A q \in Processes : Ticking(q)' => Ticking(q)
  BY DEF Ticking
<1>2. \A k \in Labels : LastRun(k)' = LastRun(k)
  BY DEF LastRun
<1>3. HoldInv'
  <2>1. ASSUME NEW q1 \in Processes, NEW q2 \in Processes, Ticking(q1)', Ticking(q2)', q1 # q2
        PROVE  raced' = Labels
    BY <1>1, <2>1 DEF WindowInv, HoldInv
  <2>2. ASSUME NEW q \in Processes, NEW l \in DOMAIN tick'[q].jobs \ raced'
        PROVE  tick'[q].jobs[l] = rows'[l]
    BY <2>2 DEF WindowInv, HoldInv
  <2>3. ASSUME NEW q \in Processes, sync'[q].pc = "write", sync'[q].cur \notin raced'
        PROVE  /\ sync'[q].row = rows'[sync'[q].cur]
               /\ \A r \in Processes : sync'[q].cur \notin DOMAIN tick'[r].jobs
               /\ \A r \in Processes : sync'[r].pc = "write" /\ sync'[r].cur = sync'[q].cur => r = q
    BY <2>3 DEF WindowInv, HoldInv
  <2> QED BY <2>1, <2>2, <2>3 DEF HoldInv
<1>4. GapInv'
  BY <1>2 DEF WindowInv, GapInv
<1>5. OnceInv'
  <2>1. \A q \in Processes : tick'[q].at <= now'
    BY DEF WindowInv, OnceInv
  <2>2. ASSUME NEW l \in Labels \ raced', LastRun(l)' # None
        PROVE  LastRun(l)' <= now' /\ \A q \in Processes : Ticking(q)' => LastRun(l)' <= tick'[q].at
    BY <1>1, <1>2, <2>2 DEF WindowInv, OnceInv
  <2>3. ASSUME NEW l \in Labels \ (raced' \cup torn'), NEW m \in exported'[l]
        PROVE  \/ LastRun(l)' # None /\ m < LastRun(l)'
               \/ \E q \in Processes : tick'[q].pc = "save" /\ tick'[q].cur = l /\ m < tick'[q].at
    BY <1>2, <2>3 DEF WindowInv, OnceInv
  <2> QED BY <2>1, <2>2, <2>3 DEF OnceInv
<1> QED BY <1>3, <1>4, <1>5

LEMMA TickReadsAndChecks ==
  ASSUME WindowInv, NEW p \in Processes, TickRead(p) \/ TickCheck(p)
  PROVE  HoldInv' /\ GapInv' /\ OnceInv'
<1>1. TickOK(tick[p]) /\ DOMAIN tick = Processes /\ raced \subseteq Labels
  BY DEF WindowInv, TypeInv, TypeOK
<1>2. CASE TickRead(p)
  <2>1. /\ UNCHANGED <<rows, sync, settled, exported, now, torn>> /\ tick[p].pc = "read"
        /\ raced' = raced \cup {l \in DueRows : HeldBySync(l)}
        /\ tick' = [tick EXCEPT ![p] = IF DueRows = {} THEN NoTick
             ELSE [tick[p] EXCEPT !.pc = "check", !.jobs = [l \in DueRows |-> rows[l]]]]
    BY <1>2 DEF TickRead, SetTick, queueVars
  <2>2. CASE DueRows = {}
    <3>1. tick'[p] = NoTick /\ (\A q \in Processes : q # p => tick'[q] = tick[q]) /\ raced' = raced
      BY <1>1, <2>1, <2>2
    <3>2. Torn(p) = {} /\ now \in Int /\ NoTick.at <= now
      BY <2>1 DEF Torn, NoTick, WindowInv, TypeInv, TypeOK
    <3>3. \A q \in Processes : \/ tick'[q] = tick[q]
                               \/ tick'[q] = NoTick /\ Torn(q) \subseteq torn' /\ NoTick.at <= now'
      BY <2>1, <3>1, <3>2
    <3>4. now' \in Int /\ now <= now' /\ \A q \in Processes : sync'[q] = sync[q]
      BY <2>1, <3>2
    <3> QED BY <1>1, <2>1, <3>1, <3>2, <3>3, <3>4, NobodyWrites
  <2>3. CASE DueRows # {}
    <3>1. /\ tick'[p].at = tick[p].at /\ tick'[p].jobs = [l \in DueRows |-> rows[l]]
          /\ \A q \in Processes : q # p => tick'[q] = tick[q]
      BY <1>1, <2>1, <2>3 DEF TickOK
    <3>2. \A q \in Processes : sync[q].pc = "write" /\ sync[q].cur \in DueRows => sync[q].cur \in raced'
      BY <2>1 DEF HeldBySync
    <3>3. raced \subseteq raced' /\ raced' \subseteq Labels
      BY <1>1, <2>1 DEF DueRows
    <3>4. /\ \A l \in DOMAIN tick'[p].jobs : tick'[p].jobs[l] = rows[l]
          /\ DOMAIN tick'[p].jobs = DueRows
      BY <3>1
    <3>5. Ticking(p) /\ tick[p].pc # "save"
      BY <2>1 DEF Ticking
    <3> QED BY <2>1, <3>1, <3>2, <3>3, <3>4, <3>5, TickGoesOn
  <2> QED BY <2>2, <2>3
<1>3. CASE TickCheck(p)
  <2>1. /\ UNCHANGED <<rows, sync, settled, exported, now, torn, raced>> /\ tick[p].pc = "check"
        /\ \E l \in DOMAIN tick[p].jobs : \E pc \in {"save", "insert"} :
             tick' = [tick EXCEPT ![p] = [tick[p] EXCEPT !.pc = pc, !.cur = l]]
    BY <1>3 DEF TickCheck, SetTick, queueVars, historyVars
  <2>2. /\ tick'[p].at = tick[p].at /\ tick'[p].jobs = tick[p].jobs
        /\ \A q \in Processes : q # p => tick'[q] = tick[q]
    BY <1>1, <2>1 DEF TickOK
  <2>3. /\ \A l \in DOMAIN tick[p].jobs : l \notin raced => tick[p].jobs[l] = rows[l]
        /\ \A q \in Processes : sync[q].pc = "write" /\ sync[q].cur \in DOMAIN tick[p].jobs =>
             sync[q].cur \in raced
    BY DEF WindowInv, HoldInv
  <2> QED BY <1>1, <2>1, <2>2, <2>3, TickGoesOn DEF Ticking
<1> QED BY <1>2, <1>3

LEMMA TickInserts ==
  ASSUME WindowInv, NEW p \in Processes, TickInsert(p)
  PROVE  HoldInv' /\ GapInv' /\ OnceInv'
<1> DEFINE l == tick[p].cur
           w == Window(p, tick[p].jobs[l])
<1>1. /\ UNCHANGED <<rows, sync, settled, now, torn, raced>> /\ tick[p].pc = "insert"
      /\ exported' = [exported EXCEPT ![l] = @ \cup Moments(w)]
  BY DEF TickInsert, historyVars
<1>2. /\ \A q \in Processes : q # p => tick'[q] = tick[q]
      /\ tick'[p].pc = "save" /\ tick'[p].cur = l /\ tick'[p].at = tick[p].at
      /\ tick'[p].jobs = tick[p].jobs /\ l \in Labels /\ tick[p].at \in Int
  BY <1>1, Windows DEF TickInsert, SetTick, WindowInv, TypeInv, TickOK
<1>3. \A m \in Moments(w) : m < tick[p].at
  BY <1>2 DEF Moments, Window
<1> HIDE DEF w
<1>4. \A k \in Labels : exported'[k] = IF k = l THEN exported[k] \cup Moments(w) ELSE exported[k]
  BY <1>1 DEF WindowInv, TypeInv
<1>5. (\A k \in Labels : LastRun(k)' = LastRun(k)) /\ \A q \in Processes : Ticking(q)' <=> Ticking(q)
  BY <1>1, <1>2 DEF LastRun, Ticking
<1>6. HoldInv'
  <2>1. ASSUME NEW q1 \in Processes, NEW q2 \in Processes, Ticking(q1)', Ticking(q2)', q1 # q2
        PROVE  raced' = Labels
    BY <1>1, <1>5, <2>1 DEF WindowInv, HoldInv
  <2>2. ASSUME NEW q \in Processes, NEW k \in DOMAIN tick'[q].jobs \ raced'
        PROVE  tick'[q].jobs[k] = rows'[k]
    BY <1>1, <1>2, <2>2 DEF WindowInv, HoldInv
  <2>3. ASSUME NEW q \in Processes, sync'[q].pc = "write", sync'[q].cur \notin raced'
        PROVE  /\ sync'[q].row = rows'[sync'[q].cur]
               /\ \A r \in Processes : sync'[q].cur \notin DOMAIN tick'[r].jobs
               /\ \A r \in Processes : sync'[r].pc = "write" /\ sync'[r].cur = sync'[q].cur => r = q
    BY <1>1, <1>2, <2>3 DEF WindowInv, HoldInv
  <2> QED BY <2>1, <2>2, <2>3 DEF HoldInv
<1>7. GapInv'
  BY <1>1, <1>5 DEF WindowInv, GapInv
<1>8. OnceInv'
  <2>1. \A q \in Processes : tick'[q].at <= now'
    BY <1>1, <1>2 DEF WindowInv, OnceInv
  <2>2. ASSUME NEW k \in Labels \ raced', LastRun(k)' # None
        PROVE  LastRun(k)' <= now' /\ \A q \in Processes : Ticking(q)' => LastRun(k)' <= tick'[q].at
    BY <1>1, <1>2, <1>5, <2>2 DEF WindowInv, OnceInv
  <2>3. ASSUME NEW k \in Labels \ (raced' \cup torn'), NEW m \in exported'[k]
        PROVE  \/ LastRun(k)' # None /\ m < LastRun(k)'
               \/ \E q \in Processes : tick'[q].pc = "save" /\ tick'[q].cur = k /\ m < tick'[q].at
    <3>1. CASE m \in exported[k]
      BY <1>1, <1>2, <1>5, <2>3, <3>1 DEF WindowInv, OnceInv
    <3>2. CASE m \notin exported[k]
      BY <1>2, <1>3, <1>4, <2>3, <3>2
    <3> QED BY <3>1, <3>2
  <2> QED BY <2>1, <2>2, <2>3 DEF OnceInv
<1> QED BY <1>6, <1>7, <1>8

LEMMA TickSaves ==
  ASSUME WindowInv, NEW p \in Processes, TickSave(p)
  PROVE  HoldInv' /\ GapInv' /\ OnceInv'
<1>0. PICK l : l = tick[p].cur
  OBVIOUS
<1> DEFINE job == tick[p].jobs[l]
           r == [interval |-> job.interval, next |-> NextRunAfter(tick[p].at, job.interval),
                 last |-> tick[p].at]
           w == Window(p, job)
<1>1. /\ UNCHANGED <<sync, exported, now, torn, raced>> /\ tick[p].pc = "save" /\ Ticking(p)
      /\ rows' = [rows EXCEPT ![l] = r] /\ settled' = [settled EXCEPT ![l] = @ \cup Moments(w)]
      /\ tick' = [tick EXCEPT ![p] = RowDone(p)]
  BY <1>0 DEF TickSave, SetTick, Settle, queueVars, Ticking
<1>2. /\ l \in Labels /\ l \in DOMAIN tick[p].jobs /\ job \in Row /\ tick[p].at \in Int /\ now \in Nat
      /\ tick[p].at <= now /\ TickOK(tick[p])
  BY <1>0, <1>1 DEF WindowInv, TypeInv, TypeOK, TickOK, OnceInv
<1>3. \A q \in Processes : q # p => tick'[q] = tick[q]
  BY <1>1 DEF WindowInv, TypeInv
<1>4. /\ tick'[p].pc # "save" /\ (Ticking(p)' => tick'[p].at = tick[p].at) /\ tick'[p].at <= now
      /\ DOMAIN tick'[p].jobs \subseteq DOMAIN tick[p].jobs \ {l}
      /\ \A k \in DOMAIN tick'[p].jobs : tick'[p].jobs[k] = tick[p].jobs[k]
  <2>1. tick'[p] = RowDone(p)
    BY <1>1 DEF WindowInv, TypeInv
  <2>2. CASE DOMAIN tick[p].jobs \ {l} = {}
    <3>1. tick'[p] = NoTick
      BY <1>0, <2>1, <2>2 DEF RowDone
    <3> QED BY <1>2, <3>1, NoTickOK DEF NoTick, Ticking
  <2>3. CASE DOMAIN tick[p].jobs \ {l} # {}
    <3>1. tick'[p] = [tick[p] EXCEPT !.pc = "check", !.cur = None,
                        !.jobs = [k \in DOMAIN tick[p].jobs \ {l} |-> tick[p].jobs[k]]]
      BY <1>0, <2>1, <2>3 DEF RowDone
    <3> QED BY <1>2, <3>1 DEF TickOK
  <2> QED BY <2>2, <2>3
<1>5. /\ \A k \in Labels : rows'[k] = IF k = l THEN r ELSE rows[k]
      /\ \A k \in Labels : settled'[k] = IF k = l THEN settled[k] \cup Moments(w) ELSE settled[k]
      /\ DOMAIN rows = Labels
  BY <1>1, <1>2 DEF WindowInv, TypeInv
<1>6. LastRun(l)' = tick[p].at /\ tick[p].at # None /\ \A k \in Labels : k # l => LastRun(k)' = LastRun(k)
  <2>1. r \in Row
    BY <1>2 DEF Row, NextRunAfter
  <2>2. rows'[l] = r /\ r # None /\ r.last = tick[p].at /\ tick[p].at # None
    BY <1>2, <1>5, <2>1
  <2> HIDE DEF r
  <2>3. LastRun(l)' = tick[p].at
    BY <2>2 DEF LastRun
  <2>4. \A k \in Labels : k # l => LastRun(k)' = LastRun(k)
    BY <1>5 DEF LastRun
  <2> QED BY <2>2, <2>3, <2>4
<1> HIDE DEF r, w
<1>7. \A q \in Processes : Ticking(q)' => Ticking(q)
  BY <1>1, <1>3 DEF Ticking
<1>8. HoldInv'
  <2>1. ASSUME NEW q1 \in Processes, NEW q2 \in Processes, Ticking(q1)', Ticking(q2)', q1 # q2
        PROVE  raced' = Labels
    BY <1>1, <1>7, <2>1 DEF WindowInv, HoldInv
  <2>2. ASSUME NEW q \in Processes, NEW k \in DOMAIN tick'[q].jobs \ raced'
        PROVE  tick'[q].jobs[k] = rows'[k]
    <3>1. CASE q = p
      BY <1>1, <1>2, <1>4, <1>5, <2>2, <3>1 DEF WindowInv, HoldInv, TickOK
    <3>2. CASE q # p
      <4>1. k \in Labels /\ k \notin raced /\ tick'[q] = tick[q] /\ Ticking(q)
        BY <1>1, <1>3, <2>2, <3>2 DEF WindowInv, TypeInv, TickOK, Ticking
      <4> QED BY <1>1, <3>2, <4>1, TickAlone
    <3> QED BY <3>1, <3>2
  <2>3. ASSUME NEW q \in Processes, sync'[q].pc = "write", sync'[q].cur \notin raced'
        PROVE  /\ sync'[q].row = rows'[sync'[q].cur]
               /\ \A s \in Processes : sync'[q].cur \notin DOMAIN tick'[s].jobs
               /\ \A s \in Processes : sync'[s].pc = "write" /\ sync'[s].cur = sync'[q].cur => s = q
    <3>1. sync[q].cur \in Labels /\ sync[q].cur # l
      BY <1>1, <1>2, <2>3 DEF WindowInv, HoldInv, TypeInv, SyncOK
    <3> QED BY <1>1, <1>3, <1>4, <1>5, <2>3, <3>1 DEF WindowInv, HoldInv
  <2> QED BY <2>1, <2>2, <2>3 DEF HoldInv
<1>9. ASSUME l \notin raced
      PROVE  job = rows[l] /\ rows[l] # None /\ LastRun(l) = job.last
  BY <1>2, <1>9 DEF WindowInv, HoldInv, LastRun
<1>10. ASSUME NEW k \in Labels \ raced
       PROVE  /\ LastRun(k)' = None => settled'[k] = {}
              /\ LastRun(k)' # None => \A s \in settled'[k] : s..(LastRun(k)' - 1) \subseteq settled'[k]
  <2>1. CASE k # l
    BY <1>5, <1>6, <2>1 DEF WindowInv, GapInv
  <2>2. CASE k = l /\ job.last = None
    <3>1. settled[l] = {} /\ settled'[l] = Moments(w)
      BY <1>2, <1>5, <1>9, <2>2 DEF WindowInv, GapInv
    <3>2. Moments(w) = (tick[p].at - Delta[job.interval])..(tick[p].at - 1)
      BY <2>2 DEF w, Moments, Window, PreviousWindowStart
    <3>3. Delta[job.interval] \in Nat
      BY <1>2 DEF Row
    <3>4. \A s \in settled'[l] : s..(tick[p].at - 1) \subseteq settled'[l]
      BY <1>2, <3>1, <3>2, <3>3
    <3> QED BY <1>2, <1>6, <2>2, <3>4
  <2>3. CASE k = l /\ job.last # None
    <3>1. /\ job.last \in Int /\ LastRun(l) = job.last /\ settled[l] \subseteq Int
          /\ \A s \in settled[l] : s..(job.last - 1) \subseteq settled[l]
      BY <1>2, <1>9, <2>3 DEF WindowInv, GapInv, TypeInv, Row
    <3>2. settled'[l] = settled[l] \cup (job.last..(tick[p].at - 1))
      BY <1>2, <1>5, <2>3 DEF w, Moments, Window
    <3>3. ASSUME NEW s \in settled'[l], NEW m \in s..(tick[p].at - 1)
          PROVE  m \in settled'[l]
      <4>1. s \in Int /\ m \in Int
        BY <1>2, <3>1, <3>2
      <4>2. CASE m >= job.last
        BY <1>2, <3>1, <3>2, <3>3, <4>1, <4>2
      <4>3. CASE m < job.last
        <5>1. s \in settled[l]
          BY <1>2, <3>1, <3>2, <3>3, <4>1, <4>3
        <5> QED BY <3>1, <3>2, <3>3, <4>1, <4>3, <5>1
      <4> QED BY <3>1, <4>1, <4>2, <4>3
    <3>4. \A s \in settled'[l] : s..(tick[p].at - 1) \subseteq settled'[l]
      BY <3>3
    <3> QED BY <1>2, <1>6, <2>3, <3>4
  <2> QED BY <2>1, <2>2, <2>3
<1>11. GapInv'
  BY <1>1, <1>10 DEF GapInv
<1>12. OnceInv'
  <2>1. \A q \in Processes : tick'[q].at <= now'
    BY <1>1, <1>3, <1>4 DEF WindowInv, OnceInv
  <2>2. ASSUME NEW k \in Labels \ raced', LastRun(k)' # None
        PROVE  LastRun(k)' <= now' /\ \A q \in Processes : Ticking(q)' => LastRun(k)' <= tick'[q].at
    <3>1. \A q \in Processes : Ticking(q)' => q = p /\ tick'[q].at = tick[p].at
      <4>1. k \in Labels \ raced
        BY <1>1, <2>2
      <4>2. \A q \in Processes : Ticking(q) => q = p
        BY <1>1, <4>1, TickAlone
      <4> QED BY <1>4, <1>7, <4>2
    <3>2. CASE k = l
      BY <1>1, <1>2, <1>6, <3>1, <3>2
    <3>3. CASE k # l
      <4>1. LastRun(k) # None /\ LastRun(k)' = LastRun(k) /\ k \notin raced
        BY <1>1, <1>6, <2>2, <3>3
      <4> QED BY <1>1, <3>1, <4>1 DEF WindowInv, OnceInv
    <3> QED BY <3>2, <3>3
  <2>3. ASSUME NEW k \in Labels \ (raced' \cup torn'), NEW m \in exported'[k]
        PROVE  \/ LastRun(k)' # None /\ m < LastRun(k)'
               \/ \E q \in Processes : tick'[q].pc = "save" /\ tick'[q].cur = k /\ m < tick'[q].at
    <3>1. k \notin raced /\ k \notin torn /\ m \in exported[k] /\ m \in Int
      BY <1>1, <2>3 DEF WindowInv, TypeInv
    <3>2. \/ LastRun(k) # None /\ m < LastRun(k)
          \/ \E q \in Processes : tick[q].pc = "save" /\ tick[q].cur = k /\ m < tick[q].at
      BY <3>1 DEF WindowInv, OnceInv
    <3>3. \A q \in Processes : tick[q].pc = "save" => q = p
      BY <1>1, <3>1, TickAlone DEF Ticking
    <3>4. CASE k = l
      <4>1. LastRun(l) # None => LastRun(l) \in Int /\ LastRun(l) <= tick[p].at
        BY <1>1, <1>2, <1>9, <3>1, <3>4 DEF WindowInv, OnceInv, Row
      <4>2. m < tick[p].at
        BY <1>0, <1>2, <3>1, <3>2, <3>3, <3>4, <4>1
      <4> QED BY <1>6, <3>4, <4>2
    <3>5. CASE k # l
      BY <1>0, <1>6, <3>2, <3>3, <3>5
    <3> QED BY <3>4, <3>5
  <2> QED BY <2>1, <2>2, <2>3 DEF OnceInv
<1> QED BY <1>8, <1>11, <1>12

LEMMA WindowKeeps ==
  ASSUME WindowInv, [Next]_vars
  PROVE  WindowInv'
<1>1. TypeInv' /\ now \in Int /\ now' \in Int /\ raced \subseteq Labels
  BY TypeKeeps DEF WindowInv, TypeInv, TypeOK
<1>2. CASE \/ Elapse \/ CacheExpires \/ JobLoads \/ UNCHANGED vars
           \/ \E l \in Labels : QueueMoves(l)
  <2>1. UNCHANGED <<rows, sync, tick, exported, settled, raced, torn>> /\ now <= now'
    BY <1>1, <1>2 DEF Elapse, CacheExpires, JobLoads, QueueMoves, vars, queueVars, historyVars
  <2> QED BY <1>1, <2>1, NobodyWrites DEF WindowInv
<1>3. ASSUME NEW p \in Processes, NEW s, s.pc # "write", SetSync(p, s), now' = now,
             UNCHANGED <<rows, tick, exported, settled, raced, torn>>
      PROVE  WindowInv'
  <2>1. \A q \in Processes : sync'[q].pc = "write" => sync'[q] = sync[q]
    BY <1>3 DEF SetSync, WindowInv, TypeInv
  <2>2. now <= now' /\ raced' \subseteq Labels /\ \A q \in Processes : tick'[q] = tick[q]
    BY <1>1, <1>3
  <2> QED BY <1>1, <1>3, <2>1, <2>2, NobodyWrites DEF WindowInv
<1>4. ASSUME NEW l \in Labels, EditLabel(l) PROVE WindowInv'
  <2>1. UNCHANGED <<now, rows, tick, exported, settled, raced, torn>>
    BY <1>4 DEF EditLabel, queueVars, historyVars
  <2>2. CASE UNCHANGED sync
    <3>1. now <= now' /\ raced' \subseteq Labels /\ (\A q \in Processes : tick'[q] = tick[q])
          /\ \A q \in Processes : sync'[q] = sync[q]
      BY <1>1, <2>1, <2>2
    <3> QED BY <1>1, <2>1, <3>1, NobodyWrites DEF WindowInv
  <2>3. CASE SyncBegins(Web, labels')
    <3>1. PICK s : s.pc = "next" /\ SetSync(Web, s)
      BY <2>3 DEF SyncBegins, NoSync
    <3> QED BY <1>3, <2>1, <3>1
  <2> QED BY <1>4, <2>2, <2>3 DEF EditLabel
<1>5. ASSUME NEW p \in Processes, Start(p) \/ SyncEnds(p) \/ SyncFails(p) PROVE WindowInv'
  <2>1. UNCHANGED <<now, rows, tick, exported, settled, raced, torn>>
    BY <1>5 DEF Start, SyncEnds, SyncFails, queueVars, historyVars
  <2>2. PICK s : s.pc # "write" /\ SetSync(p, s)
    BY <1>5, NoSyncOK DEF Start, SyncEnds, SyncFails, SyncBegins, SyncOver, NoSync
  <2> QED BY <1>3, <2>1, <2>2
<1>6. ASSUME NEW p \in Processes, SyncRead(p) PROVE WindowInv'
  <2>1. UNCHANGED <<now, rows, tick, exported, settled, torn>> /\ sync[p].todo \subseteq Labels
    BY <1>6 DEF SyncRead, queueVars, WindowInv, TypeInv, SyncOK
  <2>2. CASE \E l \in sync[p].todo : SyncTakes(p, l)
    BY <1>1, <2>1, <2>2, SyncTakesRow DEF WindowInv
  <2>3. CASE SyncOver(p, TRUE) /\ UNCHANGED raced
    <3>1. NoSync.pc # "write" /\ SetSync(p, NoSync)
      BY <2>3, NoSyncOK DEF SyncOver
    <3> QED BY <1>3, <2>1, <2>3, <3>1
  <2> QED BY <1>6, <2>2, <2>3 DEF SyncRead
<1>7. ASSUME NEW p \in Processes, TickFails(p) \/ Crash(p) PROVE WindowInv'
  <2>1. /\ UNCHANGED <<now, rows, exported, settled, raced>> /\ torn' = torn \cup Torn(p)
        /\ SetTick(p, NoTick)
        /\ UNCHANGED sync \/ SetSync(p, NoSync)
    BY <1>7 DEF TickFails, Crash, queueVars
  <2>2. \A q \in Processes : \/ tick'[q] = tick[q]
                             \/ tick'[q] = NoTick /\ Torn(q) \subseteq torn' /\ NoTick.at <= now'
    <3>1. NoTick.at <= now'
      BY <2>1 DEF NoTick, WindowInv, TypeInv, TypeOK
    <3> QED BY <2>1, <3>1 DEF SetTick, WindowInv, TypeInv
  <2>3. \A q \in Processes : sync'[q].pc = "write" => sync'[q] = sync[q]
    BY <2>1, NoSyncOK DEF SetSync, WindowInv, TypeInv
  <2>4. now <= now' /\ raced' \subseteq Labels /\ raced \subseteq raced' /\ torn \subseteq torn'
    BY <1>1, <2>1
  <2> QED BY <1>1, <2>1, <2>2, <2>3, <2>4, NobodyWrites DEF WindowInv
<1> QED BY <1>1, <1>2, <1>4, <1>5, <1>6, <1>7, SyncWritesRow, TickBegins, TickReadsAndChecks,
           TickInserts, TickSaves DEF Next, SyncStep, TickStep, WindowInv

\* From the first window of a label to its last run no moment is lost, whatever syncs, edits,
\* errors and crashes come between (scheduler.py, tick and sync_labels).
THEOREM NoMomentLost == Spec => []NoGap
<1> QED BY WindowInitially, WindowKeeps, WindowsFit, PTL DEF Spec

\* A window that tick enqueues shares no moment with those before it (scheduler.py, tick).
THEOREM NoMomentTwice == Spec => []NothingTwice
<1> QED BY WindowInitially, WindowKeeps, WindowsFit, PTL DEF Spec

=============================================================================
