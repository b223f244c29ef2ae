------------------------- MODULE ExportQueueProofs -------------------------
(***************************************************************************)
(* Theorems about ExportQueue, for any number of workers, clients,         *)
(* processes and jobs and any bounds.                                      *)
(***************************************************************************)
EXTENDS QueueRefinement, TLAPS

USE ConstantsAssumption

-----------------------------------------------------------------------------
(* What the table and the threads hold. *)

\* Storing a row keeps the table well typed and removes no row.
LEMMA RowStored ==
  ASSUME rows \in [Jobs -> Row \cup {NoRow}], NEW j \in Jobs, NEW r \in Row,
         rows' = [rows EXCEPT ![j] = r]
  PROVE  /\ rows' \in [Jobs -> Row \cup {NoRow}]
         /\ \A i \in Jobs : rows[i] # NoRow => rows'[i] # NoRow
         /\ rows'[j] = r
         /\ \A i \in Jobs \ {j} : rows'[i] = rows[i]
OBVIOUS

\* A thread may change alone if its new state is well formed and no row disappears.
LEMMA ThreadMoved ==
  ASSUME TypeOK, NEW a \in Actors, NEW t \in Thread,
         thread' = [thread EXCEPT ![a] = t],
         \A i \in Jobs : rows[i] # NoRow => rows'[i] # NoRow,
         WellFormed(a)'
  PROVE  /\ thread' \in [Actors -> Thread]
         /\ \A b \in Actors : WellFormed(b)'
<1>1. thread' \in [Actors -> Thread]
  BY DEF TypeOK
<1>2. ASSUME NEW b \in Actors, b # a PROVE WellFormed(b)'
  <2>1. thread'[b] = thread[b] /\ thread[b] \in Thread
    BY <1>2 DEF TypeOK
  <2>2. WellFormed(b)
    BY DEF TypeOK
  <2> QED BY <2>1, <2>2 DEF WellFormed, Thread
<1> QED BY <1>1, <1>2

\* A thread that returns has nothing in progress.
LEMMA Returned ==
  ASSUME TypeOK, NEW a \in Actors, Return(a),
         \A i \in Jobs : rows[i] # NoRow => rows'[i] # NoRow
  PROVE  /\ thread' \in [Actors -> Thread]
         /\ \A b \in Actors : WellFormed(b)'
<1>1. AtRest \in Thread
  BY DEF AtRest, Thread, PCs
<1>2. thread' = [thread EXCEPT ![a] = AtRest] /\ thread'[a] = AtRest
  BY DEF Return, TypeOK
<1>3. WellFormed(a)'
  BY <1>2 DEF WellFormed, AtRest
<1> QED BY <1>1, <1>2, <1>3, ThreadMoved

\* A worker that meets an exception still knows its job.
LEMMA Raised ==
  ASSUME TypeOK, NEW w \in Workers, thread[w].pc # "idle", Raise(w), UNCHANGED rows
  PROVE  /\ thread' \in [Actors -> Thread]
         /\ \A b \in Actors : WellFormed(b)'
<1>0. w \in Actors /\ thread[w] \in Thread /\ WellFormed(w) /\ w \notin Clients
  BY DEF TypeOK, Actors
<1>1. CASE thread[w].handling
  BY <1>0, <1>1, Returned DEF Raise
<1>2. CASE ~thread[w].handling
  <2> DEFINE t == [thread[w] EXCEPT !.pc = "fail_read", !.handling = TRUE,
                                    !.tries = 0, !.draft = NoDraft]
  <2>1. t \in Thread
    BY <1>0 DEF Thread, PCs
  <2>2. thread' = [thread EXCEPT ![w] = t] /\ thread'[w] = t
    BY <1>0, <1>2 DEF Raise, TypeOK
  <2>3. WellFormed(w)'
    BY <1>0, <2>2 DEF WellFormed, Thread
  <2> QED BY <1>0, <2>1, <2>2, <2>3, ThreadMoved
<1> QED BY <1>1, <1>2

\* A worker that has written a failure still knows its job.
LEMMA Noted ==
  ASSUME TypeOK, NEW w \in Workers, thread[w].pc # "idle", Recorded(w),
         \A i \in Jobs : rows[i] # NoRow => rows'[i] # NoRow
  PROVE  /\ thread' \in [Actors -> Thread]
         /\ \A b \in Actors : WellFormed(b)'
<1>0. w \in Actors /\ thread[w] \in Thread /\ WellFormed(w) /\ w \notin Clients
  BY DEF TypeOK, Actors
<1>1. CASE thread[w].handling
  BY <1>0, <1>1, Returned DEF Recorded
<1>2. CASE ~thread[w].handling
  <2> DEFINE t == [thread[w] EXCEPT !.pc = "failed", !.tries = 0]
  <2>1. t \in Thread
    BY <1>0 DEF Thread, PCs
  <2>2. thread' = [thread EXCEPT ![w] = t] /\ thread'[w] = t
    BY <1>0, <1>2 DEF Recorded, TypeOK
  <2>3. WellFormed(w)'
    BY <1>0, <2>2 DEF WellFormed, Thread
  <2> QED BY <1>0, <2>1, <2>2, <2>3, ThreadMoved
<1> QED BY <1>1, <1>2

\* The duplicate check ends the call or leaves it with an entry to insert.
LEMMA Requested ==
  ASSUME TypeOK, NEW a \in Actors, NEW k \in Keys, NEW l \in Nat, NEW d \in 0..ChainLimit,
         NEW ids \in SUBSET Jobs, DedupRead(a, k, l, d, ids), UNCHANGED rows,
         a \in Workers => thread[a].job # NoJob
  PROVE  /\ thread' \in [Actors -> Thread]
         /\ \A b \in Actors : WellFormed(b)'
         /\ stamp' \in Nat
<1>1. CASE Return(a) /\ UNCHANGED stamp
  BY <1>1, Returned DEF TypeOK
<1>2. CASE ~(Return(a) /\ UNCHANGED stamp)
  <2>1. PICK j \in ids :
          thread' = [thread EXCEPT ![a].pc = "insert",
                       ![a].draft = [id |-> j, key |-> k, born |-> stamp,
                                     depth |-> d, links |-> l]]
    BY <1>2 DEF DedupRead
  <2> DEFINE e == [id |-> j, key |-> k, born |-> stamp, depth |-> d, links |-> l]
             t == [thread[a] EXCEPT !.pc = "insert", !.draft = e]
  <2>2. e \in Draft /\ thread[a] \in Thread
    BY DEF Draft, TypeOK
  <2>3. t \in Thread /\ t.pc = "insert" /\ t.draft = e /\ t.job = thread[a].job
    BY <2>2 DEF Thread, PCs
  <2>4. thread' = [thread EXCEPT ![a] = t] /\ thread'[a] = t
    BY <2>1 DEF TypeOK
  <2>5. WellFormed(a) /\ e # NoDraft
    BY <2>2 DEF TypeOK
  <2>6. WellFormed(a)'
    <3> HIDE DEF e, t
    <3> QED BY <2>3, <2>4, <2>5 DEF WellFormed, Actors
  <2>7. stamp' \in Nat
    BY <1>2 DEF DedupRead, TypeOK
  <2> HIDE DEF e, t
  <2> QED BY <2>3, <2>4, <2>6, <2>7, ThreadMoved DEF TypeOK
<1> QED BY <1>1, <1>2

LEMMA TypeInit == Init => TypeOK
BY DEF Init, TypeOK, WellFormed, AtRest, Thread, PCs, Actors

LEMMA TypeStep == TypeOK /\ [Next]_vars => TypeOK'
<1> SUFFICES ASSUME TypeOK, [Next]_vars PROVE TypeOK'
  OBVIOUS
<1> USE DEF tableVars, ghostVars, budgetVars
<1>a. Workers \subseteq Actors /\ Clients \subseteq Actors /\ Admins \subseteq Clients
  BY DEF Actors
<1>b. ASSUME NEW w \in Workers, thread[w].pc # "idle"
      PROVE  thread[w].job \in Jobs /\ rows[thread[w].job] \in Row /\ thread[w].tries \in Nat
  BY <1>a, <1>b DEF TypeOK, WellFormed, Thread
<1>1. ASSUME NEW w \in Workers, Claim(w) PROVE TypeOK'
  <2>0. w \in Actors /\ w \notin Clients /\ thread[w] \in Thread
    BY <1>a DEF TypeOK
  <2>1. PICK j \in Oldest(DueJobs) :
          /\ SetStatus(j, "running")
          /\ thread' = [thread EXCEPT ![w].pc = "export", ![w].job = j]
          /\ lost' = lost \ {j}
    BY <1>1 DEF Claim
  <2> DEFINE r == [rows[j] EXCEPT !.status = "running"]
             t == [thread[w] EXCEPT !.pc = "export", !.job = j]
  <2>2. j \in Jobs /\ r \in Row
    BY DEF Oldest, DueJobs, StatusIs, TypeOK, Row, Status
  <2>3. rows' = [rows EXCEPT ![j] = r]
    BY <2>1, <2>2 DEF SetStatus, TypeOK
  <2>4. /\ rows' \in [Jobs -> Row \cup {NoRow}]
        /\ \A i \in Jobs : rows[i] # NoRow => rows'[i] # NoRow
        /\ rows'[j] \in Row
    <3> HIDE DEF r
    <3> QED BY <2>2, <2>3, RowStored DEF TypeOK
  <2>5. t \in Thread /\ t.pc = "export" /\ t.job = j
    BY <2>0, <2>2 DEF Thread, PCs
  <2>6. thread' = [thread EXCEPT ![w] = t] /\ thread'[w] = t
    BY <2>0, <2>1 DEF TypeOK
  <2>7. WellFormed(w)'
    BY <2>0, <2>2, <2>4, <2>5, <2>6 DEF WellFormed
  <2> HIDE DEF t
  <2> QED BY <1>1, <2>0, <2>1, <2>4, <2>5, <2>6, <2>7, ThreadMoved DEF Claim, TypeOK
<1>2. ASSUME NEW w \in Workers, ExportEnds(w) PROVE TypeOK'
  <2>1. thread[w].pc # "idle" /\ UNCHANGED rows
    BY <1>2 DEF ExportEnds, At
  <2>2. CASE Raise(w)
    BY <1>2, <2>1, <2>2, Raised DEF ExportEnds, TypeOK
  <2>3. CASE ~Raise(w)
    BY <1>2, <2>3 DEF ExportEnds, Goto, At, TypeOK, WellFormed, Thread, PCs, Actors
  <2> QED BY <2>2, <2>3
<1>3. ASSUME NEW w \in Workers, CompleteCheck(w) PROVE TypeOK'
  <2>1. thread[w].pc # "idle" /\ UNCHANGED rows
    BY <1>3 DEF CompleteCheck, At
  <2>2. CASE Raise(w)
    BY <1>3, <2>1, <2>2, Raised DEF CompleteCheck, TypeOK
  <2>3. CASE ~Raise(w)
    BY <1>3, <2>3 DEF CompleteCheck, Goto, At, TypeOK, WellFormed, Thread, PCs, Actors
  <2> QED BY <2>2, <2>3
<1>4. ASSUME NEW w \in Workers, CompleteWrite(w) PROVE TypeOK'
  <2> DEFINE j == thread[w].job
             r == [rows[j] EXCEPT !.status = "completed"]
             t == [thread[w] EXCEPT !.pc = "completed"]
  <2>0. w \in Actors /\ w \notin Clients /\ thread[w] \in Thread /\ WellFormed(w)
        /\ thread[w].pc = "complete_write"
    BY <1>a, <1>4 DEF TypeOK, CompleteWrite, At
  <2>1. j \in Jobs /\ r \in Row
    BY <1>b, <2>0 DEF Row, Status
  <2>2. rows' = [rows EXCEPT ![j] = r]
    BY <1>4, <2>1 DEF CompleteWrite, SetStatus, TypeOK
  <2>3. /\ rows' \in [Jobs -> Row \cup {NoRow}]
        /\ \A i \in Jobs : rows[i] # NoRow => rows'[i] # NoRow
    <3> HIDE DEF j, r
    <3> QED BY <2>1, <2>2, RowStored DEF TypeOK
  <2>4. t \in Thread /\ t.pc = "completed" /\ t.job = j
    BY <2>0 DEF Thread, PCs
  <2>5. thread' = [thread EXCEPT ![w] = t] /\ thread'[w] = t
    BY <1>4, <2>0 DEF CompleteWrite, Goto, TypeOK
  <2>6. WellFormed(w)'
    BY <1>b, <2>0, <2>3, <2>4, <2>5 DEF WellFormed
  <2> HIDE DEF t
  <2> QED BY <1>4, <2>0, <2>3, <2>4, <2>5, <2>6, ThreadMoved DEF CompleteWrite, TypeOK
<1>5. ASSUME NEW w \in Workers, AfterComplete(w) PROVE TypeOK'
  <2> DEFINE r == rows[thread[w].job]
  <2>1. w \in Actors /\ thread[w].pc # "idle" /\ thread[w].job # NoJob /\ UNCHANGED rows
    BY <1>a, <1>b, <1>5 DEF AfterComplete, At
  <2>2. r.links \in Nat /\ r.depth \in 0..ChainLimit
    BY <1>b, <2>1 DEF Row
  <2>3. CASE r.links > 0 /\ r.depth < ChainLimit
    <3>1. PICK k \in Keys : DedupRead(w, k, r.links - 1, r.depth + 1, Jobs \ RootJobs)
      BY <1>5, <2>3 DEF AfterComplete
    <3>2. r.links - 1 \in Nat /\ r.depth + 1 \in 0..ChainLimit
      BY <2>2, <2>3
    <3> HIDE DEF r
    <3> QED BY <1>5, <2>1, <3>1, <3>2, Requested DEF AfterComplete, TypeOK
  <2>4. CASE ~(r.links > 0 /\ r.depth < ChainLimit)
    BY <1>5, <2>1, <2>4, Returned DEF AfterComplete, TypeOK
  <2> QED BY <2>3, <2>4
<1>6. ASSUME NEW a \in Actors, EnqueueInsert(a) PROVE TypeOK'
  <2> DEFINE e == thread[a].draft
             r == [status |-> "pending", key |-> e.key, retries |-> 0, due |-> TRUE,
                   born |-> e.born, depth |-> e.depth, links |-> e.links]
  <2>1. e \in Draft
    BY <1>6 DEF EnqueueInsert, At, TypeOK, WellFormed, Thread
  <2>2. e.id \in Jobs /\ r \in Row /\ rows' = [rows EXCEPT ![e.id] = r]
    BY <1>6, <2>1 DEF EnqueueInsert, Draft, Row, Status
  <2>3. /\ rows' \in [Jobs -> Row \cup {NoRow}]
        /\ \A i \in Jobs : rows[i] # NoRow => rows'[i] # NoRow
    <3> HIDE DEF e, r
    <3> QED BY <2>2, RowStored DEF TypeOK
  <2> QED BY <1>6, <2>3, Returned DEF EnqueueInsert, TypeOK
<1>7. ASSUME NEW w \in Workers, FailRead(w) PROVE TypeOK'
  <2> DEFINE n == rows[thread[w].job].retries + 1
             t == [thread[w] EXCEPT !.tries = n,
                     !.pc = IF n >= MaxAttempts THEN "fail_check" ELSE "retry_write"]
  <2>0. w \in Actors /\ thread[w] \in Thread /\ WellFormed(w) /\ w \notin Clients
    BY <1>7 DEF TypeOK, Actors
  <2>1. thread[w].pc = "fail_read" /\ rows[thread[w].job] \in Row
    BY <1>7, <2>0 DEF FailRead, At, WellFormed, TypeOK, Thread
  <2>2. t \in Thread /\ thread' = [thread EXCEPT ![w] = t] /\ UNCHANGED rows
    <3>1. n \in Nat
      BY <2>1 DEF Row
    <3>2. thread' = [thread EXCEPT ![w] = t] /\ UNCHANGED rows
      BY <1>7, <2>0 DEF FailRead, TypeOK
    <3> QED BY <3>1, <3>2, <2>0 DEF Thread, PCs
  <2>3. WellFormed(w)'
    BY <2>0, <2>1, <2>2 DEF WellFormed, TypeOK, Thread
  <2> QED BY <1>7, <2>0, <2>2, <2>3, ThreadMoved DEF FailRead, TypeOK
<1>8. ASSUME NEW w \in Workers, FailCheck(w) PROVE TypeOK'
  <2>1. thread[w].pc # "idle" /\ UNCHANGED rows
    BY <1>8 DEF FailCheck, At
  <2>2. CASE Raise(w)
    BY <1>8, <2>1, <2>2, Raised DEF FailCheck, TypeOK
  <2>3. CASE ~Raise(w)
    BY <1>8, <2>3 DEF FailCheck, Goto, At, TypeOK, WellFormed, Thread, PCs, Actors
  <2> QED BY <2>2, <2>3
<1>9. ASSUME NEW w \in Workers, FailWrite(w) PROVE TypeOK'
  <2> DEFINE j == thread[w].job
             r == [rows[j] EXCEPT !.status = "failed", !.retries = thread[w].tries]
  <2>1. thread[w].pc # "idle"
    BY <1>9 DEF FailWrite, At
  <2>2. j \in Jobs /\ r \in Row
    BY <1>b, <2>1 DEF Row, Status
  <2>3. rows' = [rows EXCEPT ![j] = r]
    BY <1>9, <2>2 DEF FailWrite, TypeOK
  <2>4. /\ rows' \in [Jobs -> Row \cup {NoRow}]
        /\ \A i \in Jobs : rows[i] # NoRow => rows'[i] # NoRow
    <3> HIDE DEF j, r
    <3> QED BY <2>2, <2>3, RowStored DEF TypeOK
  <2> QED BY <1>9, <2>1, <2>4, Noted DEF FailWrite, TypeOK
<1>10. ASSUME NEW w \in Workers, RetryWrite(w) PROVE TypeOK'
  <2> DEFINE j == thread[w].job
             r == [rows[j] EXCEPT !.status = "pending", !.retries = thread[w].tries,
                                  !.due = FALSE]
  <2>1. thread[w].pc # "idle"
    BY <1>10 DEF RetryWrite, At
  <2>2. j \in Jobs /\ r \in Row
    BY <1>b, <2>1 DEF Row, Status
  <2>3. rows' = [rows EXCEPT ![j] = r]
    BY <1>10, <2>2 DEF RetryWrite, TypeOK
  <2>4. /\ rows' \in [Jobs -> Row \cup {NoRow}]
        /\ \A i \in Jobs : rows[i] # NoRow => rows'[i] # NoRow
    <3> HIDE DEF j, r
    <3> QED BY <2>2, <2>3, RowStored DEF TypeOK
  <2> QED BY <1>10, <2>1, <2>4, Noted DEF RetryWrite, TypeOK
<1>11. ASSUME NEW w \in Workers, AfterFail(w) PROVE TypeOK'
  BY <1>a, <1>11, Returned DEF AfterFail, TypeOK
<1>12. ASSUME NEW w \in Workers, DbFault(w) PROVE TypeOK'
  <2>1. thread[w].pc # "idle" /\ UNCHANGED rows /\ Raise(w)
    BY <1>12 DEF DbFault
  <2>2. /\ UNCHANGED <<stamp, crashes, requeues>>
        /\ faults' = faults + 1
        /\ lost' \in {lost, lost \cup {thread[w].job}}
        /\ disturbed' \in {disturbed, disturbed \cup {thread[w].job}}
    BY <1>12 DEF DbFault
  <2> QED BY <1>b, <2>1, <2>2, Raised DEF TypeOK
<1>13. ASSUME NEW c \in Clients, RequestExport(c) PROVE TypeOK'
  <2>1. PICK k \in Keys, l \in Chains : DedupRead(c, k, l, 0, RootJobs)
    BY <1>13 DEF RequestExport
  <2>2. c \in Actors /\ c \notin Workers /\ l \in Nat /\ 0 \in 0..ChainLimit
    BY <1>a
  <2> QED BY <1>13, <2>1, <2>2, Requested DEF RequestExport, TypeOK
<1>14. ASSUME NEW c \in Clients, RequestFails(c) PROVE TypeOK'
  BY <1>a, <1>14, Returned DEF RequestFails, TypeOK
<1>15. ASSUME NEW a \in Admins, CancelCheck(a) PROVE TypeOK'
  BY <1>15 DEF CancelCheck, Allowed, At, TypeOK, WellFormed, Thread, PCs, Actors
<1>16. ASSUME NEW a \in Admins, CancelWrite(a) PROVE TypeOK'
  BY <1>16 DEF CancelWrite, SetStatus, Row, Status, At, Return, AtRest, TypeOK, WellFormed,
               Thread, PCs, Actors
<1>17. ASSUME NEW a \in Admins, RequeueCheck(a) PROVE TypeOK'
  BY <1>17 DEF RequeueCheck, Allowed, At, TypeOK, WellFormed, Thread, PCs, Actors
<1>18. ASSUME NEW a \in Admins, RequeueWrite(a) PROVE TypeOK'
  <2> DEFINE j == thread[a].job
             r == [rows[j] EXCEPT !.status = "pending", !.due = TRUE]
  <2>1. a \in Actors /\ thread[a].pc = "requeue_write" /\ Return(a)
    BY <1>a, <1>18 DEF RequeueWrite, At
  <2>2. j \in Jobs /\ rows[j] \in Row
    BY <2>1 DEF TypeOK, WellFormed, Thread
  <2>3. r \in Row
    BY <2>2 DEF Row, Status
  <2>4. rows' = [rows EXCEPT ![j] = r]
    BY <1>18, <2>2 DEF RequeueWrite, TypeOK
  <2>5. /\ rows' \in [Jobs -> Row \cup {NoRow}]
        /\ \A i \in Jobs : rows[i] # NoRow => rows'[i] # NoRow
    <3> HIDE DEF j, r
    <3> QED BY <2>2, <2>3, <2>4, RowStored DEF TypeOK
  <2>6. requeues' \in [Jobs -> Nat] /\ disturbed' \subseteq Jobs
    BY <1>18, <2>2 DEF RequeueWrite, TypeOK
  <2> QED BY <1>18, <2>1, <2>5, <2>6, Returned DEF RequeueWrite, TypeOK
<1>19. ASSUME NEW j \in Jobs, BecomeDue(j) PROVE TypeOK'
  <2> DEFINE r == [rows[j] EXCEPT !.due = TRUE]
  <2>1. r \in Row
    BY <1>19, ZenonT(40) DEF BecomeDue, StatusIs, TypeOK, Row
  <2>2. rows' = [rows EXCEPT ![j] = r]
    BY <1>19 DEF BecomeDue, TypeOK
  <2>3. /\ rows' \in [Jobs -> Row \cup {NoRow}]
        /\ \A i \in Jobs : rows[i] # NoRow => rows'[i] # NoRow
    <3> HIDE DEF r
    <3> QED BY <2>1, <2>2, RowStored DEF TypeOK
  <2> QED BY <1>19, <2>3 DEF BecomeDue, TypeOK, WellFormed, Thread
<1>20. ASSUME NEW p \in Procs, Crash(p) PROVE TypeOK'
  BY <1>20 DEF Crash, At, AtRest, TypeOK, WellFormed, Thread, PCs, Actors
<1>21. CASE UNCHANGED vars
  BY <1>21 DEF vars, TypeOK, WellFormed
<1> QED
  BY <1>a, <1>1, <1>2, <1>3, <1>4, <1>5, <1>6, <1>7, <1>8, <1>9, <1>10, <1>11, <1>12, <1>13,
     <1>14, <1>15, <1>16, <1>17, <1>18, <1>19, <1>20, <1>21 DEF Next, WorkerStep, AdminStep

\* Every reachable state is well typed, and every call in progress knows the job or the
\* entry it is about.
THEOREM TypeCorrect == Spec => []TypeOK
BY TypeInit, TypeStep, PTL DEF Spec

-----------------------------------------------------------------------------
(* The inductive invariant. *)

\* The id of an entry about to be inserted is in nobody else's hands, nor in the table.
FreshDrafts ==
  \A a \in Actors : thread[a].draft # NoDraft =>
    /\ rows[thread[a].draft.id] = NoRow
    /\ \A b \in Actors :
         thread[b].draft # NoDraft /\ thread[b].draft.id = thread[a].draft.id => b = a

\* The except clause of _run_job does nothing but mark_failed.
Handlers ==
  \A w \in Workers :
    thread[w].handling => thread[w].pc \in {"fail_read", "fail_check", "fail_write", "retry_write"}

\* What a worker may rely on while it executes job j: it is alone, the row is running or was
\* cancelled under it, an attempt is left, and the count it read is still the row's.
Execution(j) ==
  /\ \A v, w \in Workers : Holds(v, j) /\ Holds(w, j) => v = w
  /\ \A w \in Workers : Holds(w, j) =>
       /\ rows[j].status \in {"running", "cancelled"}
       /\ rows[j].retries < MaxAttempts + requeues[j]
       /\ thread[w].pc \in {"fail_check", "fail_write", "retry_write"} =>
            thread[w].tries = rows[j].retries + 1
       /\ thread[w].pc = "retry_write" => thread[w].tries < MaxAttempts

Budget(j) ==
  rows[j] # NoRow =>
    /\ rows[j].retries <= MaxAttempts + requeues[j]
    /\ rows[j].status \in {"pending", "running"} =>
         rows[j].retries < MaxAttempts + requeues[j]

Executions == \A j \in Jobs \ disturbed : Execution(j) /\ Budget(j)

IInv == TypeOK /\ FreshDrafts /\ Handlers /\ NoOrphan /\ Executions

-----------------------------------------------------------------------------
(* Ids are fresh. *)

\* No new entry is built and no row is inserted.
LEMMA FreshKept ==
  ASSUME TypeOK, FreshDrafts,
         \A b \in Actors : thread'[b].draft \in {thread[b].draft, NoDraft},
         \A i \in Jobs : rows[i] = NoRow => rows'[i] = NoRow
  PROVE  FreshDrafts'
<1> SUFFICES ASSUME NEW a \in Actors, thread'[a].draft # NoDraft
             PROVE  /\ rows'[thread'[a].draft.id] = NoRow
                    /\ \A b \in Actors :
                         thread'[b].draft # NoDraft /\ thread'[b].draft.id = thread'[a].draft.id
                         => b = a
  BY DEF FreshDrafts
<1>1. thread'[a].draft = thread[a].draft /\ thread[a].draft \in Draft
  BY DEF TypeOK, Thread
<1>2. thread[a].draft.id \in Jobs
  BY <1>1 DEF Draft
<1> QED BY <1>1, <1>2 DEF FreshDrafts

\* A duplicate check takes an id that no row and no other entry has.
LEMMA FreshRequested ==
  ASSUME TypeOK, FreshDrafts, NEW a \in Actors, NEW k, NEW l, NEW d,
         NEW ids \in SUBSET Jobs, DedupRead(a, k, l, d, ids), UNCHANGED rows
  PROVE  FreshDrafts'
<1>1. CASE Return(a)
  BY <1>1, FreshKept DEF Return, AtRest, TypeOK
<1>2. CASE ~Return(a)
  <2>1. PICK j \in ids :
          /\ rows[j] = NoRow /\ ~Drafted(j)
          /\ thread' = [thread EXCEPT ![a].pc = "insert",
                          ![a].draft = [id |-> j, key |-> k, born |-> stamp,
                                        depth |-> d, links |-> l]]
    BY <1>2 DEF DedupRead
  <2>2. /\ thread'[a].draft.id = j
        /\ \A b \in Actors \ {a} : thread'[b] = thread[b]
    BY <2>1 DEF TypeOK, Thread
  <2>3. \A b \in Actors \ {a} : thread[b].draft # NoDraft => thread[b].draft.id # j
    BY <2>1 DEF Drafted
  <2>4. rows'[thread'[a].draft.id] = NoRow
    BY <2>1, <2>2
  <2>5. ASSUME NEW b \in Actors \ {a}, thread'[b].draft # NoDraft
        PROVE  rows'[thread'[b].draft.id] = NoRow /\ thread'[b].draft.id # j
    BY <2>2, <2>3, <2>5 DEF FreshDrafts
  <2>6. ASSUME NEW b \in Actors \ {a}, NEW c \in Actors \ {a},
               thread'[b].draft # NoDraft, thread'[c].draft # NoDraft,
               thread'[b].draft.id = thread'[c].draft.id
        PROVE  b = c
    BY <2>2, <2>6 DEF FreshDrafts
  <2> QED BY <2>2, <2>4, <2>5, <2>6, Zenon DEF FreshDrafts
<1> QED BY <1>1, <1>2

LEMMA FreshStep == TypeOK /\ FreshDrafts /\ [Next]_vars => FreshDrafts'
<1> SUFFICES ASSUME TypeOK, FreshDrafts, [Next]_vars PROVE FreshDrafts'
  OBVIOUS
<1> USE DEF tableVars, ghostVars, budgetVars
<1>a. Workers \subseteq Actors /\ Clients \subseteq Actors /\ Admins \subseteq Clients
  BY DEF Actors
<1>b. ASSUME NEW a \in Actors, Return(a)
      PROVE  \A b \in Actors : thread'[b].draft \in {thread[b].draft, NoDraft}
  BY <1>b DEF Return, AtRest, TypeOK
<1>c. ASSUME NEW a \in Actors, NEW where, Goto(a, where)
      PROVE  \A b \in Actors : thread'[b].draft \in {thread[b].draft, NoDraft}
  BY <1>c DEF Goto, TypeOK, Thread
<1>d. ASSUME NEW w \in Workers, Raise(w)
      PROVE  \A b \in Actors : thread'[b].draft \in {thread[b].draft, NoDraft}
  BY <1>a, <1>b, <1>d DEF Raise, TypeOK, Thread
<1>e. ASSUME NEW w \in Workers, Recorded(w)
      PROVE  \A b \in Actors : thread'[b].draft \in {thread[b].draft, NoDraft}
  BY <1>a, <1>b, <1>e DEF Recorded, TypeOK, Thread
<1>f. ASSUME NEW a \in Actors, thread[a].job # NoJob
      PROVE  rows[thread[a].job] # NoRow
  BY <1>f DEF TypeOK, WellFormed
<1>g. ASSUME NEW a \in Actors, thread[a].pc \notin {"idle", "insert"}
      PROVE  rows[thread[a].job] # NoRow
  BY <1>f, <1>g DEF TypeOK, WellFormed
<1>1. ASSUME NEW w \in Workers, Claim(w) PROVE FreshDrafts'
  <2>1. \A i \in Jobs : rows[i] = NoRow => rows'[i] = NoRow
    BY <1>1 DEF Claim, Oldest, DueJobs, StatusIs, SetStatus, TypeOK
  <2>2. \A b \in Actors : thread'[b].draft \in {thread[b].draft, NoDraft}
    BY <1>1 DEF Claim, TypeOK, Thread
  <2> QED BY <2>1, <2>2, FreshKept
<1>2. ASSUME NEW w \in Workers, ExportEnds(w) PROVE FreshDrafts'
  BY <1>2, <1>a, <1>c, <1>d, FreshKept DEF ExportEnds
<1>3. ASSUME NEW w \in Workers, CompleteCheck(w) PROVE FreshDrafts'
  BY <1>3, <1>a, <1>c, <1>d, FreshKept DEF CompleteCheck
<1>4. ASSUME NEW w \in Workers, CompleteWrite(w) PROVE FreshDrafts'
  <2>1. \A i \in Jobs : rows[i] = NoRow => rows'[i] = NoRow
    BY <1>4, <1>a, <1>g DEF CompleteWrite, At, SetStatus, TypeOK
  <2> QED BY <1>4, <2>1, <1>a, <1>c, FreshKept DEF CompleteWrite
<1>5. ASSUME NEW w \in Workers, AfterComplete(w) PROVE FreshDrafts'
  BY <1>5, <1>a, <1>b, FreshKept, FreshRequested DEF AfterComplete
<1>6. ASSUME NEW a \in Actors, EnqueueInsert(a) PROVE FreshDrafts'
  <2> DEFINE e == thread[a].draft
  <2>1. e \in Draft
    BY <1>6 DEF EnqueueInsert, At, TypeOK, WellFormed, Thread
  <2>2. \A i \in Jobs \ {e.id} : rows'[i] = rows[i]
    BY <1>6 DEF EnqueueInsert, TypeOK
  <2>3. thread'[a].draft = NoDraft /\ \A b \in Actors \ {a} : thread'[b] = thread[b]
    BY <1>6 DEF EnqueueInsert, Return, AtRest, TypeOK
  <2>4. \A b \in Actors \ {a} : thread[b].draft # NoDraft =>
                                   thread[b].draft.id \in Jobs \ {e.id}
    BY <2>1 DEF FreshDrafts, TypeOK, Thread, Draft
  <2> QED BY <2>2, <2>3, <2>4 DEF FreshDrafts
<1>7. ASSUME NEW w \in Workers, FailRead(w) PROVE FreshDrafts'
  <2>1. \A b \in Actors : thread'[b].draft \in {thread[b].draft, NoDraft}
    BY <1>7 DEF FailRead, TypeOK, Thread
  <2> QED BY <1>7, <2>1, FreshKept DEF FailRead
<1>8. ASSUME NEW w \in Workers, FailCheck(w) PROVE FreshDrafts'
  BY <1>8, <1>a, <1>c, <1>d, FreshKept DEF FailCheck
<1>9. ASSUME NEW w \in Workers, FailWrite(w) PROVE FreshDrafts'
  <2>1. \A i \in Jobs : rows[i] = NoRow => rows'[i] = NoRow
    BY <1>9, <1>a, <1>g DEF FailWrite, At, TypeOK
  <2> QED BY <1>9, <2>1, <1>e, FreshKept DEF FailWrite
<1>10. ASSUME NEW w \in Workers, RetryWrite(w) PROVE FreshDrafts'
  <2>1. \A i \in Jobs : rows[i] = NoRow => rows'[i] = NoRow
    BY <1>10, <1>a, <1>g DEF RetryWrite, At, TypeOK
  <2> QED BY <1>10, <2>1, <1>e, FreshKept DEF RetryWrite
<1>11. ASSUME NEW w \in Workers, AfterFail(w) PROVE FreshDrafts'
  BY <1>11, <1>a, <1>b, FreshKept DEF AfterFail
<1>12. ASSUME NEW w \in Workers, DbFault(w) PROVE FreshDrafts'
  BY <1>12, <1>d, FreshKept DEF DbFault
<1>13. ASSUME NEW c \in Clients, RequestExport(c) PROVE FreshDrafts'
  BY <1>13, <1>a, FreshRequested DEF RequestExport
<1>14. ASSUME NEW c \in Clients, RequestFails(c) PROVE FreshDrafts'
  BY <1>14, <1>a, <1>b, FreshKept DEF RequestFails
<1>15. ASSUME NEW a \in Admins, AdminStep(a) PROVE FreshDrafts'
  <2>1. \A i \in Jobs : rows[i] = NoRow => rows'[i] = NoRow
    BY <1>15, <1>a, <1>g DEF AdminStep, CancelCheck, CancelWrite, RequeueCheck, RequeueWrite,
                             At, SetStatus, TypeOK
  <2>2. \A b \in Actors : thread'[b].draft \in {thread[b].draft, NoDraft}
    BY <1>15, <1>a, <1>b DEF AdminStep, CancelCheck, CancelWrite, RequeueCheck, RequeueWrite,
                             TypeOK, Thread
  <2> QED BY <2>1, <2>2, FreshKept
<1>16. ASSUME NEW j \in Jobs, BecomeDue(j) PROVE FreshDrafts'
  BY <1>16, FreshKept DEF BecomeDue, StatusIs, TypeOK
<1>17. ASSUME NEW p \in Procs, Crash(p) PROVE FreshDrafts'
  <2>1. \A b \in Actors : thread'[b].draft \in {thread[b].draft, NoDraft}
    BY <1>17 DEF Crash, AtRest
  <2> QED BY <1>17, <2>1, FreshKept DEF Crash
<1>18. CASE UNCHANGED vars
  BY <1>18 DEF vars, FreshDrafts
<1> QED
  BY <1>a, <1>1, <1>2, <1>3, <1>4, <1>5, <1>6, <1>7, <1>8, <1>9, <1>10, <1>11, <1>12, <1>13,
     <1>14, <1>15, <1>16, <1>17, <1>18 DEF Next, WorkerStep

-----------------------------------------------------------------------------
(* Every running row is held or known to be lost. *)

\* Only thread a moves, and a row that is running now was running before; if a was the
\* one that held it, a holds it still or it is on record as lost.
LEMMA OrphanKept ==
  ASSUME NoOrphan, NEW a \in Actors,
         \A b \in Actors \ {a} : thread'[b] = thread[b],
         lost \subseteq lost',
         \A j \in Jobs : StatusIs(j, "running")' =>
           /\ StatusIs(j, "running")
           /\ a \in Workers /\ Holds(a, j) => Holds(a, j)' \/ j \in lost'
  PROVE  NoOrphan'
<1> SUFFICES ASSUME NEW j \in Jobs, StatusIs(j, "running")'
             PROVE  Held(j)' \/ j \in lost'
  BY DEF NoOrphan
<1>1. CASE j \in lost
  BY <1>1
<1>2. CASE j \notin lost
  <2>1. PICK w \in Workers : Holds(w, j)
    BY <1>2 DEF NoOrphan, Held
  <2>2. CASE w = a
    BY <2>1, <2>2 DEF Held
  <2>3. CASE w # a
    <3>1. Holds(w, j)'
      BY <2>1, <2>3 DEF Holds, Actors
    <3> QED BY <3>1 DEF Held
  <2> QED BY <2>2, <2>3
<1> QED BY <1>1, <1>2

LEMMA HandlersStep == TypeOK /\ Handlers /\ [Next]_vars => Handlers'
<1> SUFFICES ASSUME TypeOK, Handlers, [Next]_vars PROVE Handlers'
  OBVIOUS
<1>a. Workers \subseteq Actors /\ Clients \subseteq Actors /\ Admins \subseteq Clients
      /\ Workers \cap Clients = {}
  BY DEF Actors
<1>1. ASSUME NEW w \in Workers, WorkerStep(w) \/ DbFault(w) PROVE Handlers'
  <2>1. \A b \in Actors \ {w} : thread'[b] = thread[b]
    BY <1>1, <1>a DEF WorkerStep, DbFault, Claim, ExportEnds, CompleteCheck, CompleteWrite,
         AfterComplete, DedupRead, EnqueueInsert, FailRead, FailCheck, FailWrite, RetryWrite,
         AfterFail, Raise, Recorded, Return, Goto, TypeOK
  <2>2. thread'[w].handling =>
          thread'[w].pc \in {"fail_read", "fail_check", "fail_write", "retry_write"}
    <3>0. thread[w] \in Thread /\ w \in Actors
      BY <1>a DEF TypeOK
    <3>1. CASE Return(w)
      BY <3>0, <3>1 DEF Return, AtRest, TypeOK
    <3>2. CASE Raise(w) /\ ~Return(w)
      BY <3>0, <3>2 DEF Raise, TypeOK, Thread
    <3>g. ASSUME NEW x \in PCs, Goto(w, x), ~thread[w].handling PROVE ~thread'[w].handling
      BY <3>0, <3>g DEF Goto, TypeOK, Thread
    <3>h. thread[w].pc \in PCs \ {"fail_read", "fail_check", "fail_write", "retry_write"}
            => ~thread[w].handling
      BY DEF Handlers
    <3>3. CASE Claim(w) \/ ExportEnds(w)
      <4>1. CASE Claim(w)
        BY <3>0, <3>h, <4>1 DEF Claim, At, PCs, TypeOK, Thread
      <4>2. CASE ExportEnds(w) /\ ~Raise(w)
        BY <3>g, <3>h, <4>2 DEF ExportEnds, At, PCs
      <4> QED BY <3>1, <3>2, <3>3, <4>1, <4>2
    <3>4. CASE CompleteCheck(w) \/ CompleteWrite(w) \/ AfterFail(w) \/ EnqueueInsert(w)
      <4>1. CASE CompleteCheck(w) /\ ~Raise(w)
        BY <3>g, <3>h, <4>1 DEF CompleteCheck, At, PCs
      <4>2. CASE CompleteWrite(w)
        BY <3>g, <3>h, <4>2 DEF CompleteWrite, At, PCs
      <4>3. CASE AfterFail(w) \/ EnqueueInsert(w)
        BY <3>1, <4>3 DEF AfterFail, EnqueueInsert
      <4> QED BY <3>1, <3>2, <3>4, <4>1, <4>2, <4>3
    <3>5. CASE AfterComplete(w)
      BY <3>0, <3>1, <3>5 DEF AfterComplete, DedupRead, At, Handlers, TypeOK, Thread
    <3>6. CASE FailRead(w) \/ FailCheck(w)
      BY <3>0, <3>2, <3>1, <3>6 DEF FailRead, FailCheck, Goto, At, Handlers, TypeOK, Thread
    <3>7. CASE FailWrite(w) \/ RetryWrite(w)
      BY <3>0, <3>1, <3>7 DEF FailWrite, RetryWrite, Recorded, TypeOK, Thread
    <3>8. CASE DbFault(w)
      BY <3>1, <3>2, <3>8 DEF DbFault
    <3> QED BY <1>1, <3>3, <3>4, <3>5, <3>6, <3>7, <3>8 DEF WorkerStep
  <2> QED BY <1>a, <2>1, <2>2 DEF Handlers
<1>2. ASSUME NEW c \in Clients,
             RequestExport(c) \/ EnqueueInsert(c) \/ RequestFails(c)
             \/ (c \in Admins /\ AdminStep(c))
      PROVE  Handlers'
  <2>1. \A w \in Workers : thread'[w] = thread[w]
    BY <1>a, <1>2 DEF RequestExport, DedupRead, EnqueueInsert, RequestFails, AdminStep,
         CancelCheck, CancelWrite, RequeueCheck, RequeueWrite, Return, TypeOK
  <2> QED BY <2>1 DEF Handlers
<1>3. ASSUME NEW p \in Procs, Crash(p) PROVE Handlers'
  BY <1>3, <1>a DEF Crash, AtRest, Handlers
<1>4. ASSUME NEW j \in Jobs, BecomeDue(j) PROVE Handlers'
  BY <1>4 DEF BecomeDue, Handlers
<1>5. CASE UNCHANGED vars
  BY <1>5 DEF vars, Handlers
<1> QED BY <1>a, <1>1, <1>2, <1>3, <1>4, <1>5 DEF Next

LEMMA OrphanStep == TypeOK /\ Handlers /\ NoOrphan /\ [Next]_vars => NoOrphan'
<1> SUFFICES ASSUME TypeOK, Handlers, NoOrphan, [Next]_vars PROVE NoOrphan'
  OBVIOUS
<1> USE DEF tableVars, ghostVars, budgetVars
<1>a. Workers \subseteq Actors /\ Clients \subseteq Actors /\ Admins \subseteq Clients
      /\ Workers \cap Clients = {}
  BY DEF Actors
<1>b. ASSUME NEW w \in Workers PROVE w \in Actors /\ thread[w] \in Thread
  BY <1>a DEF TypeOK
<1>c. ASSUME NEW w \in Workers, thread[w].pc # "idle" PROVE thread[w].job \in Jobs
  BY <1>a, <1>c DEF TypeOK, WellFormed, Thread
<1>1. ASSUME NEW w \in Workers, Claim(w) PROVE NoOrphan'
  <2>1. PICK i \in Jobs :
          /\ SetStatus(i, "running")
          /\ thread' = [thread EXCEPT ![w].pc = "export", ![w].job = i]
          /\ lost' = lost \ {i}
    BY <1>1 DEF Claim, Oldest, DueJobs
  <2>2. Holds(w, i)' /\ \A v \in Workers \ {w} : thread'[v] = thread[v]
    BY <1>a, <1>b, <2>1 DEF Holds, Holding, TypeOK, Thread
  <2>3. \A k \in Jobs : ~Holds(w, k)
    BY <1>1 DEF Claim, At, Holds, Holding
  <2>4. ASSUME NEW k \in Jobs \ {i}, StatusIs(k, "running")' PROVE Held(k)' \/ k \in lost'
    <3>1. StatusIs(k, "running")
      BY <2>1, <2>4 DEF SetStatus, StatusIs, TypeOK
    <3>2. k \in lost \/ \E v \in Workers \ {w} : Holds(v, k)
      BY <2>3, <3>1 DEF NoOrphan, Held
    <3> QED BY <2>1, <2>2, <3>2 DEF Held, Holds
  <2> QED BY <2>2, <2>4 DEF NoOrphan, Held
<1>2. ASSUME NEW w \in Workers, ExportEnds(w) \/ CompleteCheck(w) \/ FailRead(w) \/ AfterFail(w)
      PROVE  NoOrphan'
  <2>1. ~(ExportEnds(w) \/ CompleteCheck(w)) \/ ~thread[w].handling
    BY <1>2 DEF ExportEnds, CompleteCheck, At, Handlers
  <2>2. \A b \in Actors \ {w} : thread'[b] = thread[b]
    BY <1>2, <1>b DEF ExportEnds, CompleteCheck, FailRead, AfterFail, Raise, Return, Goto, TypeOK
  <2>3. \A j \in Jobs : Holds(w, j) => Holds(w, j)'
    BY <1>2, <1>b, <2>1 DEF ExportEnds, CompleteCheck, FailRead, AfterFail, Raise, Goto, At,
         TypeOK, Thread, Holds, Holding
  <2>4. UNCHANGED <<rows, lost>>
    BY <1>2 DEF ExportEnds, CompleteCheck, FailRead, AfterFail
  <2> QED BY <1>b, <2>2, <2>3, <2>4, OrphanKept DEF StatusIs
<1>3. ASSUME NEW w \in Workers, FailCheck(w) PROVE NoOrphan'
  <2>2. \A b \in Actors \ {w} : thread'[b] = thread[b]
    BY <1>3, <1>b DEF FailCheck, Raise, Return, Goto, TypeOK
  <2>3. UNCHANGED <<rows, lost>>
    BY <1>3 DEF FailCheck
  <2>4. ASSUME NEW j \in Jobs, Holds(w, j), StatusIs(j, "running") PROVE Holds(w, j)'
    <3>1. Allowed(thread[w].job, "failed")
      BY <2>4 DEF Holds, StatusIs, Allowed, CanTransition, ValidTransitions
    <3> QED BY <1>3, <1>b, <2>4, <3>1 DEF FailCheck, Goto, Holds, Holding, TypeOK, Thread
  <2> QED BY <1>b, <2>2, <2>3, <2>4, OrphanKept DEF StatusIs
<1>4. ASSUME NEW w \in Workers, CompleteWrite(w) \/ FailWrite(w) \/ RetryWrite(w) PROVE NoOrphan'
  <2>1. thread[w].job \in Jobs
    BY <1>4, <1>c DEF CompleteWrite, FailWrite, RetryWrite, At
  <2>2. \A b \in Actors \ {w} : thread'[b] = thread[b]
    BY <1>4, <1>b DEF CompleteWrite, FailWrite, RetryWrite, Recorded, Return, Goto, TypeOK
  <2>3. \A j \in Jobs \ {thread[w].job} : rows'[j] = rows[j]
    BY <1>4 DEF CompleteWrite, FailWrite, RetryWrite, SetStatus, TypeOK
  <2>4. ASSUME NEW j \in Jobs, j = thread[w].job PROVE ~StatusIs(j, "running")'
    <3>1. rows[j] \in Row
      BY <1>4, <2>4, <1>b DEF CompleteWrite, FailWrite, RetryWrite, At, TypeOK, WellFormed
    <3>2. CASE CompleteWrite(w)
      BY <2>4, <3>1, <3>2 DEF CompleteWrite, SetStatus, StatusIs, TypeOK, Row
    <3>3. CASE FailWrite(w)
      BY <2>4, <3>1, <3>3 DEF FailWrite, StatusIs, TypeOK, Row
    <3>4. CASE RetryWrite(w)
      BY <2>4, <3>1, <3>4 DEF RetryWrite, StatusIs, TypeOK, Row
    <3> QED BY <1>4, <3>2, <3>3, <3>4
  <2>5. UNCHANGED lost
    BY <1>4 DEF CompleteWrite, FailWrite, RetryWrite
  <2>6. \A j \in Jobs : StatusIs(j, "running")' => StatusIs(j, "running") /\ ~Holds(w, j)
    BY <2>3, <2>4 DEF StatusIs, Holds
  <2> QED BY <1>b, <2>2, <2>5, <2>6, OrphanKept
<1>5. ASSUME NEW w \in Workers, AfterComplete(w) PROVE NoOrphan'
  <2>1. \A b \in Actors \ {w} : thread'[b] = thread[b]
    BY <1>5, <1>b DEF AfterComplete, DedupRead, Return, TypeOK
  <2>2. \A j \in Jobs : ~Holds(w, j)
    BY <1>5 DEF AfterComplete, At, Holds, Holding
  <2>3. UNCHANGED <<rows, lost>>
    BY <1>5 DEF AfterComplete
  <2> QED BY <1>b, <2>1, <2>2, <2>3, OrphanKept DEF StatusIs
<1>6. ASSUME NEW a \in Actors, EnqueueInsert(a) PROVE NoOrphan'
  <2>1. \A b \in Actors \ {a} : thread'[b] = thread[b]
    BY <1>6 DEF EnqueueInsert, Return, TypeOK
  <2>2. \A j \in Jobs : ~Holds(a, j)
    BY <1>6 DEF EnqueueInsert, At, Holds, Holding
  <2>3. \A j \in Jobs : StatusIs(j, "running")' => StatusIs(j, "running")
    BY <1>6 DEF EnqueueInsert, StatusIs, TypeOK
  <2>4. UNCHANGED lost
    BY <1>6 DEF EnqueueInsert
  <2> QED BY <2>1, <2>2, <2>3, <2>4, OrphanKept
<1>7. ASSUME NEW w \in Workers, DbFault(w) PROVE NoOrphan'
  <2>1. \A b \in Actors \ {w} : thread'[b] = thread[b]
    BY <1>7, <1>b DEF DbFault, Raise, Return, TypeOK
  <2>2. UNCHANGED rows /\ lost \subseteq lost'
    BY <1>7 DEF DbFault
  <2>3. ASSUME NEW j \in Jobs, Holds(w, j) PROVE Holds(w, j)' \/ j \in lost'
    BY <1>7, <1>b, <2>3 DEF DbFault, Raise, Holds, Holding, TypeOK, Thread
  <2> QED BY <1>b, <2>1, <2>2, <2>3, OrphanKept DEF StatusIs
<1>8. ASSUME NEW c \in Clients, RequestExport(c) \/ RequestFails(c) \/ (c \in Admins /\ AdminStep(c))
      PROVE  NoOrphan'
  <2>1. c \in Actors /\ \A b \in Actors \ {c} : thread'[b] = thread[b]
    BY <1>8, <1>a DEF RequestExport, RequestFails, AdminStep, CancelCheck, CancelWrite,
         RequeueCheck, RequeueWrite, DedupRead, Return, TypeOK
  <2>2. \A j \in Jobs : StatusIs(j, "running")' => StatusIs(j, "running")
    <3>1. CASE CancelWrite(c)
      BY <3>1 DEF CancelWrite, SetStatus, StatusIs, TypeOK
    <3>2. CASE RequeueWrite(c)
      BY <3>2 DEF RequeueWrite, StatusIs, TypeOK
    <3>3. CASE UNCHANGED rows
      BY <3>3 DEF StatusIs
    <3> QED BY <1>8, <3>1, <3>2, <3>3 DEF RequestExport, RequestFails, AdminStep, CancelCheck,
               RequeueCheck
  <2>3. UNCHANGED lost
    BY <1>8 DEF RequestExport, RequestFails, AdminStep, CancelCheck, CancelWrite,
         RequeueCheck, RequeueWrite
  <2> QED BY <1>a, <2>1, <2>2, <2>3, OrphanKept
<1>9. ASSUME NEW j \in Jobs, BecomeDue(j) PROVE NoOrphan'
  <2>1. \A i \in Jobs : StatusIs(i, "running")' => StatusIs(i, "running")
    BY <1>9 DEF BecomeDue, StatusIs, TypeOK
  <2> QED BY <1>9, <2>1 DEF BecomeDue, NoOrphan, Held, Holds
<1>10. ASSUME NEW p \in Procs, Crash(p) PROVE NoOrphan'
  <2> DEFINE dead == {a \in Actors : ProcOf[a] = p}
  <2>1. ASSUME NEW j \in Jobs, StatusIs(j, "running") PROVE Held(j)' \/ j \in lost'
    <3>1. CASE j \in lost
      BY <1>10, <3>1 DEF Crash
    <3>2. CASE j \notin lost
      <4>1. PICK w \in Workers : Holds(w, j)
        BY <2>1, <3>2 DEF NoOrphan, Held
      <4>2. CASE w \in dead
        BY <1>10, <4>1, <4>2 DEF Crash
      <4>3. CASE w \notin dead
        BY <1>10, <1>a, <4>1, <4>3 DEF Crash, Held, Holds
      <4> QED BY <4>2, <4>3
    <3> QED BY <3>1, <3>2
  <2> QED BY <1>10, <2>1 DEF Crash, NoOrphan, StatusIs
<1>11. CASE UNCHANGED vars
  BY <1>11 DEF vars, NoOrphan, StatusIs, Held, Holds
<1> QED
  BY <1>a, <1>1, <1>2, <1>3, <1>4, <1>5, <1>6, <1>7, <1>8, <1>9, <1>10, <1>11 DEF Next, WorkerStep

-----------------------------------------------------------------------------
(* A job that is executed is executed by one worker, within its budget. *)

\* The row keeps its status and count, and a worker that executes the job now did so
\* before, with a count that is right.
LEMMA SameRow ==
  ASSUME NEW j \in Jobs, Execution(j), Budget(j),
         rows'[j] = NoRow <=> rows[j] = NoRow,
         rows'[j].status = rows[j].status, rows'[j].retries = rows[j].retries,
         requeues'[j] = requeues[j],
         \A w \in Workers : Holds(w, j)' =>
           /\ Holds(w, j)
           /\ thread'[w].pc \in {"fail_check", "fail_write", "retry_write"} =>
                thread'[w].tries = rows[j].retries + 1
           /\ thread'[w].pc = "retry_write" => thread'[w].tries < MaxAttempts
  PROVE  Execution(j)' /\ Budget(j)'
<1>1. Execution(j)'
  BY DEF Execution
<1>2. Budget(j)'
  BY DEF Budget
<1> QED BY <1>1, <1>2

\* Nothing that concerns the job changes, except that a worker may let go of it.
LEMMA Untouched ==
  ASSUME NEW j \in Jobs, Execution(j), Budget(j),
         rows'[j] = rows[j], requeues'[j] = requeues[j],
         \A w \in Workers : Holds(w, j)' => thread'[w] = thread[w]
  PROVE  Execution(j)' /\ Budget(j)'
<1>1. ASSUME NEW w \in Workers, Holds(w, j)'
      PROVE  /\ Holds(w, j)
             /\ thread'[w].pc \in {"fail_check", "fail_write", "retry_write"} =>
                  thread'[w].tries = rows[j].retries + 1
             /\ thread'[w].pc = "retry_write" => thread'[w].tries < MaxAttempts
  BY <1>1 DEF Holds, Execution
<1> QED BY <1>1, SameRow

\* Nobody executes the job any more, or yet.
LEMMA Idle ==
  ASSUME NEW j \in Jobs, \A w \in Workers : ~Holds(w, j)', Budget(j)'
  PROVE  Execution(j)' /\ Budget(j)'
BY DEF Execution

\* A disturbed job stays disturbed.
LEMMA DisturbedGrows == [Next]_vars => disturbed \subseteq disturbed'
BY DEF Next, WorkerStep, AdminStep, Claim, ExportEnds, CompleteCheck, CompleteWrite,
   AfterComplete, EnqueueInsert, FailRead, FailCheck, FailWrite, RetryWrite, AfterFail, DbFault,
   RequestExport, RequestFails, CancelCheck, CancelWrite, RequeueCheck, RequeueWrite, BecomeDue,
   Crash, vars, ghostVars

LEMMA ExecutionStep == TypeOK /\ FreshDrafts /\ Executions /\ [Next]_vars => Executions'
<1> SUFFICES ASSUME TypeOK, FreshDrafts, Executions, [Next]_vars, NEW j \in Jobs, j \notin disturbed'
             PROVE  Execution(j)' /\ Budget(j)'
  BY DEF Executions
<1> USE DEF tableVars, ghostVars, budgetVars
<1>a. Workers \subseteq Actors /\ Clients \subseteq Actors /\ Admins \subseteq Clients
      /\ Workers \cap Clients = {}
  BY DEF Actors
<1>b. ASSUME NEW w \in Workers PROVE w \in Actors /\ thread[w] \in Thread
  BY <1>a DEF TypeOK
<1>c. ASSUME NEW w \in Workers, thread[w].pc # "idle"
      PROVE  thread[w].job \in Jobs /\ rows[thread[w].job] \in Row
  BY <1>a, <1>c DEF TypeOK, WellFormed, Thread
<1>d. disturbed \subseteq disturbed'
  BY DisturbedGrows
<1>e. Execution(j) /\ Budget(j)
  BY <1>d DEF Executions
<1>f. requeues[j] \in Nat
  BY DEF TypeOK
<1>1. ASSUME NEW w \in Workers, Claim(w) PROVE Execution(j)' /\ Budget(j)'
  <2>1. PICK i \in Jobs :
          /\ StatusIs(i, "pending")
          /\ SetStatus(i, "running")
          /\ thread' = [thread EXCEPT ![w].pc = "export", ![w].job = i]
    BY <1>1 DEF Claim, Oldest, DueJobs
  <2>2. /\ \A v \in Workers \ {w} : thread'[v] = thread[v]
        /\ thread'[w].pc = "export" /\ thread'[w].job = i
    BY <1>a, <1>b, <2>1 DEF TypeOK, Thread
  <2>3. UNCHANGED requeues
    BY <1>1 DEF Claim
  <2>4. CASE j # i
    <3>1. rows'[j] = rows[j]
      BY <2>1, <2>4 DEF SetStatus, TypeOK
    <3> QED BY <1>e, <2>2, <2>3, <2>4, <3>1, Untouched DEF Holds
  <2>5. CASE j = i
    <3>1. /\ rows[j] \in Row /\ rows'[j].status = "running"
          /\ rows'[j].retries = rows[j].retries
      BY <2>1, <2>5 DEF SetStatus, StatusIs, TypeOK, Row
    <3>2. rows[j].retries < MaxAttempts + requeues[j]
      BY <1>e, <2>1, <2>5 DEF Budget, StatusIs
    <3>3. \A v \in Workers \ {w} : ~Holds(v, j)'
      BY <1>e, <2>1, <2>2, <2>5 DEF Holds, Execution, StatusIs
    <3>4. Execution(j)'
      BY <2>2, <2>3, <3>1, <3>2, <3>3 DEF Execution
    <3>5. rows[j].retries \in Nat
      BY <3>1 DEF Row
    <3>6. Budget(j)'
      BY <1>f, <2>3, <3>1, <3>2, <3>5 DEF Budget
    <3> QED BY <3>4, <3>6
  <2> QED BY <2>4, <2>5
<1>2. ASSUME NEW w \in Workers,
             ExportEnds(w) \/ CompleteCheck(w) \/ FailCheck(w) \/ AfterFail(w) \/ AfterComplete(w)
      PROVE  Execution(j)' /\ Budget(j)'
  <2>1. UNCHANGED <<rows, requeues>>
    BY <1>2 DEF ExportEnds, CompleteCheck, FailCheck, AfterFail, AfterComplete
  <2>2. \A v \in Workers \ {w} : thread'[v] = thread[v]
    BY <1>2, <1>a, <1>b DEF ExportEnds, CompleteCheck, FailCheck, AfterFail, AfterComplete, Raise,
         Return, Goto, DedupRead, TypeOK
  <2>3. ASSUME Holds(w, j)'
        PROVE  /\ Holds(w, j)
               /\ thread'[w].pc # "retry_write"
               /\ thread'[w].pc \in {"fail_check", "fail_write"} =>
                    /\ thread[w].pc = "fail_check"
                    /\ thread'[w].tries = thread[w].tries
    <3>1. CASE ExportEnds(w)
      BY <3>1, <2>3, <1>b DEF ExportEnds, Raise, Return, AtRest, Goto, At, Holds, Holding, TypeOK, Thread
    <3>2. CASE CompleteCheck(w)
      BY <3>2, <2>3, <1>b DEF CompleteCheck, Raise, Return, AtRest, Goto, At, Holds, Holding, TypeOK, Thread
    <3>3. CASE FailCheck(w)
      BY <3>3, <2>3, <1>b DEF FailCheck, Raise, Return, AtRest, Goto, At, Holds, Holding, TypeOK, Thread
    <3>4. CASE AfterFail(w)
      BY <3>4, <2>3, <1>b DEF AfterFail, Return, AtRest, Holds, Holding, TypeOK
    <3>5. CASE AfterComplete(w)
      BY <3>5, <2>3, <1>b DEF AfterComplete, DedupRead, Return, AtRest, Holds, Holding, TypeOK, Thread
    <3> QED BY <1>2, <3>1, <3>2, <3>3, <3>4, <3>5
  <2>4. ASSUME NEW v \in Workers, Holds(v, j)'
        PROVE  /\ Holds(v, j)
               /\ thread'[v].pc \in {"fail_check", "fail_write", "retry_write"} =>
                    thread'[v].tries = rows[j].retries + 1
               /\ thread'[v].pc = "retry_write" => thread'[v].tries < MaxAttempts
    <3>1. CASE v = w
      BY <1>e, <2>3, <2>4, <3>1 DEF Execution
    <3>2. CASE v # w
      BY <1>e, <2>2, <2>4, <3>2 DEF Execution, Holds
    <3> QED BY <3>1, <3>2
  <2> QED BY <1>e, <2>1, <2>4, SameRow
<1>3. ASSUME NEW w \in Workers, FailRead(w) PROVE Execution(j)' /\ Budget(j)'
  <2>1. UNCHANGED <<rows, requeues>> /\ \A v \in Workers \ {w} : thread'[v] = thread[v]
    BY <1>3, <1>b DEF FailRead, TypeOK
  <2>2. /\ thread'[w].job = thread[w].job /\ thread[w].pc = "fail_read"
        /\ thread'[w].tries = rows[thread[w].job].retries + 1
        /\ thread'[w].pc = "retry_write" => ~(thread'[w].tries >= MaxAttempts)
    BY <1>3, <1>b DEF FailRead, At, TypeOK, Thread
  <2>3. rows[thread[w].job].retries \in Nat
    BY <1>c, <2>2 DEF Row
  <2>4. ASSUME NEW v \in Workers, Holds(v, j)'
        PROVE  /\ Holds(v, j)
               /\ thread'[v].pc \in {"fail_check", "fail_write", "retry_write"} =>
                    thread'[v].tries = rows[j].retries + 1
               /\ thread'[v].pc = "retry_write" => thread'[v].tries < MaxAttempts
    <3>1. CASE v = w
      BY <2>2, <2>3, <2>4, <3>1 DEF Holds, Holding
    <3>2. CASE v # w
      BY <1>e, <2>1, <2>4, <3>2 DEF Execution, Holds
    <3> QED BY <3>1, <3>2
  <2> QED BY <1>e, <2>1, <2>4, SameRow
<1>4. ASSUME NEW w \in Workers, CompleteWrite(w) \/ FailWrite(w) \/ RetryWrite(w)
      PROVE  Execution(j)' /\ Budget(j)'
  <2>1. UNCHANGED requeues
    BY <1>4 DEF CompleteWrite, FailWrite, RetryWrite
  <2>2. \A v \in Workers \ {w} : thread'[v] = thread[v]
    BY <1>4, <1>b DEF CompleteWrite, FailWrite, RetryWrite, Recorded, Return, Goto, TypeOK
  <2>3. ~Holds(w, j)'
    BY <1>4, <1>b DEF CompleteWrite, FailWrite, RetryWrite, Recorded, Return, AtRest, Goto, Holds,
         Holding, TypeOK, Thread
  <2>4. CASE j # thread[w].job
    <3>1. rows'[j] = rows[j]
      BY <1>4, <2>4 DEF CompleteWrite, FailWrite, RetryWrite, SetStatus, TypeOK
    <3> QED BY <1>e, <2>1, <2>2, <2>3, <3>1, Untouched
  <2>5. CASE j = thread[w].job
    <3>1. Holds(w, j) /\ rows[j] \in Row
      BY <1>4, <1>c, <2>5 DEF CompleteWrite, FailWrite, RetryWrite, At, Holds, Holding
    <3>2. /\ rows[j].retries \in Nat /\ rows[j].retries < MaxAttempts + requeues[j]
          /\ thread[w].pc \in {"fail_write", "retry_write"} => thread[w].tries = rows[j].retries + 1
          /\ thread[w].pc = "retry_write" => thread[w].tries < MaxAttempts
      BY <1>e, <3>1 DEF Execution, Row
    <3>3. ASSUME NEW v \in Workers PROVE ~Holds(v, j)'
      BY <1>e, <2>2, <2>3, <3>1 DEF Execution, Holds
    <3>4. CASE CompleteWrite(w)
      <4>1. rows'[j].status = "completed" /\ rows'[j].retries = rows[j].retries
        BY <2>5, <3>1, <3>4 DEF CompleteWrite, SetStatus, TypeOK, Row
      <4>2. Budget(j)'
        BY <1>f, <2>1, <3>2, <4>1 DEF Budget
      <4> QED BY <3>3, <4>2, Idle
    <3>5. CASE FailWrite(w)
      <4>1. rows'[j].status = "failed" /\ rows'[j].retries = rows[j].retries + 1
        BY <2>5, <3>1, <3>2, <3>5 DEF FailWrite, At, TypeOK, Row
      <4>2. Budget(j)'
        BY <1>f, <2>1, <3>2, <4>1 DEF Budget
      <4> QED BY <3>3, <4>2, Idle
    <3>6. CASE RetryWrite(w)
      <4>1. /\ rows'[j].retries = rows[j].retries + 1
            /\ rows[j].retries + 1 < MaxAttempts
        BY <2>5, <3>1, <3>2, <3>6 DEF RetryWrite, At, TypeOK, Row
      <4>2. Budget(j)'
        BY <1>f, <2>1, <3>2, <4>1 DEF Budget
      <4> QED BY <3>3, <4>2, Idle
    <3> QED BY <1>4, <3>4, <3>5, <3>6
  <2> QED BY <2>4, <2>5
<1>5. ASSUME NEW a \in Actors, EnqueueInsert(a) PROVE Execution(j)' /\ Budget(j)'
  <2> DEFINE e == thread[a].draft
  <2>1. e # NoDraft /\ rows[e.id] = NoRow
    BY <1>5 DEF EnqueueInsert, At, TypeOK, WellFormed, FreshDrafts
  <2>2. UNCHANGED requeues /\ \A b \in Actors \ {a} : thread'[b] = thread[b]
    BY <1>5 DEF EnqueueInsert, Return, TypeOK
  <2>3. \A i \in Jobs : ~Holds(a, i)'
    BY <1>5 DEF EnqueueInsert, Return, AtRest, Holds, Holding, TypeOK
  <2>4. CASE j # e.id
    <3>1. rows'[j] = rows[j]
      BY <1>5, <2>4 DEF EnqueueInsert, TypeOK
    <3> QED BY <1>b, <1>e, <2>2, <2>3, <3>1, Untouched
  <2>5. CASE j = e.id
    <3>1. \A w \in Workers : ~Holds(w, j)
      BY <1>b, <2>1, <2>5 DEF TypeOK, WellFormed, Holds, Holding
    <3>2. \A w \in Workers : ~Holds(w, j)'
      BY <1>b, <2>2, <2>3, <3>1 DEF Holds
    <3>3. rows'[j].retries = 0
      BY <1>5, <2>5 DEF EnqueueInsert, TypeOK
    <3>4. Budget(j)'
      BY <1>f, <2>2, <3>3 DEF Budget
    <3> QED BY <3>2, <3>4, Idle
  <2> QED BY <2>4, <2>5
<1>6. ASSUME NEW w \in Workers, DbFault(w) PROVE Execution(j)' /\ Budget(j)'
  <2>1. UNCHANGED <<rows, requeues>> /\ \A v \in Workers \ {w} : thread'[v] = thread[v]
    BY <1>6, <1>b DEF DbFault, Raise, Return, TypeOK
  <2>2. ASSUME Holds(w, j)' PROVE Holds(w, j) /\ thread'[w].pc = "fail_read"
    <3>1. thread'[w].pc = "fail_read" /\ thread'[w].job = thread[w].job
      BY <1>6, <1>b, <2>2 DEF DbFault, Raise, Return, AtRest, Holds, Holding, TypeOK, Thread
    <3>2. thread[w].pc \in Holding
      BY <1>6, <2>2, <3>1 DEF DbFault, Holds
    <3> QED BY <2>2, <3>1, <3>2 DEF Holds
  <2>3. ASSUME NEW v \in Workers, Holds(v, j)'
        PROVE  /\ Holds(v, j)
               /\ thread'[v].pc \in {"fail_check", "fail_write", "retry_write"} =>
                    thread'[v].tries = rows[j].retries + 1
               /\ thread'[v].pc = "retry_write" => thread'[v].tries < MaxAttempts
    <3>1. CASE v = w
      BY <2>2, <2>3, <3>1
    <3>2. CASE v # w
      BY <1>e, <2>1, <2>3, <3>2 DEF Execution, Holds
    <3> QED BY <3>1, <3>2
  <2> QED BY <1>e, <2>1, <2>3, SameRow
<1>7. ASSUME NEW c \in Clients,
             RequestExport(c) \/ RequestFails(c)
             \/ (c \in Admins /\ (CancelCheck(c) \/ RequeueCheck(c)))
      PROVE  Execution(j)' /\ Budget(j)'
  <2>1. UNCHANGED <<rows, requeues>>
    BY <1>7 DEF RequestExport, RequestFails, CancelCheck, RequeueCheck
  <2>2. \A w \in Workers : thread'[w] = thread[w]
    BY <1>7, <1>a DEF RequestExport, RequestFails, CancelCheck, RequeueCheck, DedupRead, Return,
         TypeOK
  <2> QED BY <1>e, <2>1, <2>2, Untouched
<1>8. ASSUME NEW a \in Admins, CancelWrite(a) \/ RequeueWrite(a) PROVE Execution(j)' /\ Budget(j)'
  <2>1. \A w \in Workers : thread'[w] = thread[w]
    BY <1>8, <1>a DEF CancelWrite, RequeueWrite, Return, TypeOK
  <2>2. thread[a].job \in Jobs /\ rows[thread[a].job] \in Row
    BY <1>8, <1>a DEF CancelWrite, RequeueWrite, At, TypeOK, WellFormed, Thread
  <2>3. CASE j # thread[a].job
    <3>1. rows'[j] = rows[j] /\ requeues'[j] = requeues[j]
      BY <1>8, <2>3 DEF CancelWrite, RequeueWrite, SetStatus, TypeOK
    <3> QED BY <1>e, <2>1, <3>1, Untouched
  <2>4. CASE j = thread[a].job /\ CancelWrite(a)
    <3>1. /\ UNCHANGED requeues /\ rows[j] \in Row /\ rows[j].retries \in Nat
          /\ rows'[j].status = "cancelled" /\ rows'[j].retries = rows[j].retries
      BY <2>2, <2>4 DEF CancelWrite, SetStatus, TypeOK, Row
    <3>2. Execution(j)'
      BY <1>e, <2>1, <3>1 DEF Execution, Holds
    <3>3. Budget(j)'
      BY <1>e, <3>1 DEF Budget, TypeOK
    <3> QED BY <3>2, <3>3
  <2>5. CASE j = thread[a].job /\ RequeueWrite(a)
    <3>1. /\ requeues'[j] = requeues[j] + 1 /\ rows[j] \in Row /\ rows[j].retries \in Nat
          /\ rows'[j].status = "pending" /\ rows'[j].retries = rows[j].retries
      BY <2>2, <2>5 DEF RequeueWrite, TypeOK, Row
    <3>2. \A w \in Workers : ~Holds(w, j)'
      BY <2>1, <2>5 DEF RequeueWrite, Held, Holds
    <3>3. rows[j].retries <= MaxAttempts + requeues[j]
      BY <1>e, <3>1 DEF Budget
    <3>4. Budget(j)'
      BY <1>f, <3>1, <3>3 DEF Budget
    <3> QED BY <3>2, <3>4, Idle
  <2> QED BY <1>8, <2>3, <2>4, <2>5
<1>9. ASSUME NEW i \in Jobs, BecomeDue(i) PROVE Execution(j)' /\ Budget(j)'
  <2>1. UNCHANGED <<thread, requeues>>
    BY <1>9 DEF BecomeDue
  <2>2. CASE i # j
    <3>1. rows'[j] = rows[j]
      BY <1>9, <2>2 DEF BecomeDue, TypeOK
    <3> QED BY <1>e, <2>1, <3>1, Untouched
  <2>3. CASE i = j
    <3>1. /\ rows[j] # NoRow /\ rows'[j] # NoRow
          /\ rows'[j].status = rows[j].status /\ rows'[j].retries = rows[j].retries
      <4> DEFINE r == [rows[j] EXCEPT !.due = TRUE]
      <4>1. r \in Row /\ r.status = rows[j].status /\ r.retries = rows[j].retries
        BY <1>9, <2>3, ZenonT(40) DEF BecomeDue, StatusIs, TypeOK, Row
      <4>2. rows'[j] = r /\ rows[j] # NoRow
        BY <1>9, <2>3 DEF BecomeDue, StatusIs, TypeOK
      <4> HIDE DEF r
      <4> QED BY <4>1, <4>2
    <3>2. ASSUME NEW v \in Workers, Holds(v, j)'
          PROVE  /\ Holds(v, j)
                 /\ thread'[v].pc \in {"fail_check", "fail_write", "retry_write"} =>
                      thread'[v].tries = rows[j].retries + 1
                 /\ thread'[v].pc = "retry_write" => thread'[v].tries < MaxAttempts
      BY <1>e, <2>1, <3>2 DEF Execution, Holds
    <3> QED BY <1>e, <2>1, <3>1, <3>2, SameRow
  <2> QED BY <2>2, <2>3
<1>10. ASSUME NEW p \in Procs, Crash(p) PROVE Execution(j)' /\ Budget(j)'
  <2>1. UNCHANGED <<rows, requeues>>
    BY <1>10 DEF Crash
  <2>2. \A w \in Workers : Holds(w, j)' => thread'[w] = thread[w]
    BY <1>10, <1>b DEF Crash, AtRest, Holds, Holding
  <2> QED BY <1>e, <2>1, <2>2, Untouched
<1>11. CASE UNCHANGED vars
  BY <1>e, <1>11, Untouched DEF vars
<1> QED
  BY <1>a, <1>1, <1>2, <1>3, <1>4, <1>5, <1>6, <1>7, <1>8, <1>9, <1>10, <1>11
     DEF Next, WorkerStep, AdminStep

-----------------------------------------------------------------------------
(* The invariant and what follows from it. *)

LEMMA InvInit == Init => IInv
<1> SUFFICES ASSUME Init PROVE IInv
  OBVIOUS
<1>1. TypeOK
  BY TypeInit
<1>2. \A a \in Actors : thread[a] = AtRest
  BY DEF Init
<1>3. FreshDrafts
  BY <1>2 DEF FreshDrafts, AtRest
<1>4. Handlers
  BY <1>2 DEF Handlers, AtRest, Actors
<1>5. NoOrphan
  BY DEF Init, NoOrphan, StatusIs
<1>6. Executions
  BY <1>2 DEF Init, Executions, Execution, Budget, Holds, Holding, AtRest, Actors
<1> QED BY <1>1, <1>3, <1>4, <1>5, <1>6 DEF IInv

LEMMA InvStep == IInv /\ [Next]_vars => IInv'
BY TypeStep, FreshStep, HandlersStep, OrphanStep, ExecutionStep DEF IInv

THEOREM Invariance == Spec => []IInv
BY InvInit, InvStep, PTL DEF Spec

\* Whatever cancels, retries, crashes and database errors do, an undisturbed job is
\* executed by at most one worker and is never up for another claim meanwhile.
THEOREM ExclusiveExecution == Spec => []SingleHolder
<1>1. IInv => SingleHolder
  BY DEF IInv, Executions, Execution, SingleHolder, StatusIs, Held
<1> QED BY <1>1, Invariance, PTL

\* A row that says running is executed by somebody, or its worker is on record as lost.
THEOREM NothingStranded == Spec => []NoOrphan
<1>1. IInv => NoOrphan
  BY DEF IInv
<1> QED BY <1>1, Invariance, PTL

\* mark_failed keeps every undisturbed job within max_attempts, plus one per requeue.
THEOREM AttemptsBounded == Spec => []AttemptBudget
<1>1. IInv => AttemptBudget
  BY DEF IInv, Executions, Budget, AttemptBudget
<1> QED BY <1>1, Invariance, PTL

-----------------------------------------------------------------------------
(* What a step may do to a row. *)

\* The steps that write a row, and what they know of it.
LEMMA RowWritten ==
  ASSUME IInv, [Next]_vars, NEW j \in Jobs, rows[j] # NoRow, rows'[j] # rows[j]
  PROVE  \/ /\ StatusIs(j, "pending")
            /\ rows'[j].retries = rows[j].retries
         \/ \E w \in Workers :
              /\ Holds(w, j)
              /\ \/ rows'[j].retries = rows[j].retries
                 \/ /\ thread[w].pc \in {"fail_write", "retry_write"}
                    /\ rows'[j].retries = thread[w].tries
         \/ \E a \in Admins :
              /\ thread[a].pc \in {"cancel_write", "requeue_write"} /\ thread[a].job = j
              /\ rows'[j].retries = rows[j].retries
<1> USE DEF tableVars, ghostVars, budgetVars
<1>a. TypeOK /\ FreshDrafts /\ rows[j] \in Row
  BY DEF IInv, TypeOK
<1>b. ASSUME NEW w \in Workers PROVE w \in Actors /\ thread[w] \in Thread
  BY <1>a DEF TypeOK, Actors
<1>1. ASSUME NEW w \in Workers, Claim(w)
      PROVE  StatusIs(j, "pending") /\ rows'[j].retries = rows[j].retries
  BY <1>1, <1>a DEF Claim, Oldest, DueJobs, SetStatus, StatusIs, TypeOK, Row
<1>2. ASSUME NEW w \in Workers, CompleteWrite(w)
      PROVE  Holds(w, j) /\ rows'[j].retries = rows[j].retries
  BY <1>2, <1>a DEF CompleteWrite, At, SetStatus, TypeOK, Row, Holds, Holding
<1>3. ASSUME NEW w \in Workers, FailWrite(w) \/ RetryWrite(w)
      PROVE  /\ Holds(w, j)
             /\ thread[w].pc \in {"fail_write", "retry_write"}
             /\ rows'[j].retries = thread[w].tries
  BY <1>3, <1>a DEF FailWrite, RetryWrite, At, TypeOK, Row, Holds, Holding
<1>4. ASSUME NEW a \in Actors, EnqueueInsert(a) PROVE FALSE
  <2>1. thread[a].draft # NoDraft /\ rows[thread[a].draft.id] = NoRow
    BY <1>4, <1>a DEF EnqueueInsert, At, TypeOK, WellFormed, FreshDrafts
  <2> QED BY <1>4, <1>a, <2>1 DEF EnqueueInsert, TypeOK
<1>5. ASSUME NEW i \in Jobs, BecomeDue(i)
      PROVE  StatusIs(j, "pending") /\ rows'[j].retries = rows[j].retries
  BY <1>5, <1>a DEF BecomeDue, StatusIs, TypeOK, Row
<1>6. ASSUME NEW a \in Admins, CancelWrite(a) \/ RequeueWrite(a)
      PROVE  /\ thread[a].pc \in {"cancel_write", "requeue_write"} /\ thread[a].job = j
             /\ rows'[j].retries = rows[j].retries
  BY <1>6, <1>a DEF CancelWrite, RequeueWrite, At, SetStatus, TypeOK, Row
<1>7. \/ UNCHANGED rows
      \/ \E w \in Workers : Claim(w) \/ CompleteWrite(w) \/ FailWrite(w) \/ RetryWrite(w)
      \/ \E a \in Actors : EnqueueInsert(a)
      \/ \E i \in Jobs : BecomeDue(i)
      \/ \E a \in Admins : CancelWrite(a) \/ RequeueWrite(a)
  BY DEF Next, WorkerStep, AdminStep, ExportEnds, CompleteCheck, AfterComplete, FailRead,
     FailCheck, AfterFail, DbFault, RequestExport, RequestFails, CancelCheck, RequeueCheck, Crash,
     vars, Actors
<1> QED BY <1>1, <1>2, <1>3, <1>4, <1>5, <1>6, <1>7

LEMMA CountOfStep == IInv /\ [Next]_vars => CountStep
<1> SUFFICES ASSUME IInv, [Next]_vars, NEW j \in Jobs, j \notin disturbed, rows[j] # NoRow,
                    rows'[j] # rows[j]
             PROVE  rows'[j].retries \in {rows[j].retries, rows[j].retries + 1}
  BY DEF CountStep
<1>1. \A w \in Workers : Holds(w, j) /\ thread[w].pc \in {"fail_write", "retry_write"} =>
                           thread[w].tries = rows[j].retries + 1
  BY DEF IInv, Executions, Execution
<1> QED BY <1>1, RowWritten

LEMMA SettledOfStep == IInv /\ [Next]_vars => SettledStep
<1> SUFFICES ASSUME IInv, [Next]_vars, NEW j \in Jobs, j \notin disturbed',
                    StatusIs(j, "completed") \/ StatusIs(j, "failed")
                      \/ (StatusIs(j, "cancelled") /\ ~Held(j)),
                    rows'[j].status # rows[j].status
             PROVE  \E a \in Admins : /\ thread[a].pc \in {"cancel_write", "requeue_write"}
                                      /\ thread[a].job = j
  BY DEF SettledStep
<1>1. disturbed \subseteq disturbed'
  BY DisturbedGrows
<1>2. ~Held(j)
  BY <1>1 DEF IInv, Executions, Execution, Held, StatusIs
<1> QED BY <1>2, RowWritten DEF StatusIs, Held

\* A count read in one transaction is still right when the next one writes it: the
\* retry_count of an undisturbed job never goes back and never skips.
THEOREM CountsInStep == Spec => RetriesStepByOne
BY Invariance, CountOfStep, PTL DEF Spec, RetriesStepByOne

\* Only a cancel or requeue request moves an undisturbed job that has settled.
THEOREM SettledStays == Spec => SettledMovesByAdminOnly
BY Invariance, SettledOfStep, PTL DEF Spec, SettledMovesByAdminOnly

-----------------------------------------------------------------------------
(* The queue implements JobLifecycle when nobody cancels or requeues and the database *)
(* accepts every write.                                                               *)

Unattended == Admins = {} /\ MaxFaults = 0

\* Nothing disturbs a job, and a worker about to give one up has counted its last attempt.
Calm ==
  /\ disturbed = {}
  /\ \A j \in Jobs : rows[j] # NoRow => rows[j].status # "cancelled"
  /\ \A w \in Workers :
       thread[w].pc \in {"fail_check", "fail_write"} => thread[w].tries >= MaxAttempts

LEMMA CalmInit == Init => Calm
BY DEF Init, Calm, AtRest, Actors

\* The steps that are left.
LEMMA UnattendedNext ==
  ASSUME Unattended, TypeOK, [Next]_vars
  PROVE  \/ \E w \in Workers : WorkerStep(w)
         \/ \E c \in Clients : RequestExport(c) \/ EnqueueInsert(c)
         \/ \E j \in Jobs : BecomeDue(j)
         \/ \E p \in Procs : Crash(p)
         \/ UNCHANGED vars
<1>1. ~(faults < MaxFaults)
  BY DEF Unattended, TypeOK
<1> QED BY <1>1 DEF Next, DbFault, RequestFails, Unattended

LEMMA CalmStep ==
  ASSUME Unattended, IInv, Calm, [Next]_vars
  PROVE  Calm'
<1> USE DEF tableVars, ghostVars, budgetVars
<1>a. TypeOK /\ Workers \subseteq Actors
  BY DEF IInv, Actors
<1>b. ASSUME NEW a \in Actors PROVE thread[a] \in Thread
  BY <1>a DEF TypeOK
<1>1. disturbed' = disturbed
  BY <1>a, UnattendedNext
     DEF WorkerStep, Claim, ExportEnds, CompleteCheck, CompleteWrite, AfterComplete, EnqueueInsert,
         FailRead, FailCheck, FailWrite, RetryWrite, AfterFail, RequestExport, BecomeDue, Crash, vars
<1>2. ASSUME NEW j \in Jobs, rows'[j] # NoRow PROVE rows'[j].status # "cancelled"
  <2>0. rows[j] \in Row \cup {NoRow}
    BY <1>a DEF TypeOK
  <2>1. CASE UNCHANGED rows
    BY <1>2, <2>1 DEF Calm
  <2>2. ASSUME NEW w \in Workers, Claim(w) \/ CompleteWrite(w) PROVE rows'[j].status # "cancelled"
    <3>1. PICK i \in Jobs : /\ rows[i] # NoRow
                            /\ \/ rows' = [rows EXCEPT ![i].status = "running"]
                               \/ rows' = [rows EXCEPT ![i].status = "completed"]
      <4>1. CASE Claim(w)
        BY <4>1 DEF Claim, SetStatus, Oldest, DueJobs, StatusIs
      <4>2. CASE CompleteWrite(w)
        BY <1>a, <1>b, <4>2 DEF CompleteWrite, SetStatus, At, TypeOK, WellFormed, Thread
      <4> QED BY <2>2, <4>1, <4>2
    <3>2. CASE i = j
      <4>1. rows[j] \in Row
        BY <2>0, <3>1, <3>2
      <4> QED BY <1>a, <3>1, <3>2, <4>1 DEF TypeOK, Row
    <3>3. CASE i # j
      BY <1>2, <1>a, <3>1, <3>3 DEF TypeOK, Calm
    <3> QED BY <3>2, <3>3
  <2>3. ASSUME NEW w \in Workers, FailWrite(w) \/ RetryWrite(w) PROVE rows'[j].status # "cancelled"
    <3>1. j = thread[w].job => rows[j] \in Row
      BY <1>a, <2>0, <2>3 DEF FailWrite, RetryWrite, At, TypeOK, WellFormed
    <3>2. j = thread[w].job => rows'[j].status \in {"failed", "pending"}
      BY <1>a, <2>3, <3>1 DEF FailWrite, RetryWrite, TypeOK, Row
    <3>3. j # thread[w].job => rows'[j] = rows[j]
      BY <1>a, <2>3 DEF FailWrite, RetryWrite, TypeOK
    <3> QED BY <1>2, <3>2, <3>3 DEF Calm
  <2>4. ASSUME NEW a \in Actors, EnqueueInsert(a) PROVE rows'[j].status # "cancelled"
    <3>1. j = thread[a].draft.id => rows'[j].status = "pending"
      BY <1>a, <2>4 DEF EnqueueInsert, TypeOK
    <3>2. j # thread[a].draft.id => rows'[j] = rows[j]
      BY <1>a, <2>4 DEF EnqueueInsert, TypeOK
    <3> QED BY <1>2, <3>1, <3>2 DEF Calm
  <2>5. ASSUME NEW i \in Jobs, BecomeDue(i) PROVE rows'[j].status # "cancelled"
    BY <1>2, <1>a, <2>0, <2>5 DEF BecomeDue, StatusIs, TypeOK, Row, Calm
  <2>6. \/ UNCHANGED rows
        \/ \E w \in Workers : Claim(w) \/ CompleteWrite(w) \/ FailWrite(w) \/ RetryWrite(w)
        \/ \E a \in Actors : EnqueueInsert(a)
        \/ \E i \in Jobs : BecomeDue(i)
    BY <1>a, UnattendedNext
       DEF WorkerStep, ExportEnds, CompleteCheck, AfterComplete, FailRead, FailCheck, AfterFail,
           RequestExport, Crash, vars, Actors
  <2> QED BY <2>1, <2>2, <2>3, <2>4, <2>5, <2>6
<1>3. ASSUME NEW w \in Workers, thread'[w].pc \in {"fail_check", "fail_write"}
      PROVE  thread'[w].tries >= MaxAttempts
  <2>0. w \in Actors /\ thread[w] \in Thread
    BY <1>a, <1>b
  <2>1. CASE thread'[w] = thread[w]
    BY <1>3, <2>1 DEF Calm
  <2>2. CASE FailRead(w)
    BY <1>3, <1>a, <2>0, <2>2 DEF FailRead, TypeOK, Thread
  <2>3. CASE FailCheck(w)
    BY <1>3, <1>a, <2>0, <2>3 DEF FailCheck, Goto, Raise, Return, AtRest, At, TypeOK, Thread, Calm
  <2>4. \/ thread'[w] = thread[w] \/ FailRead(w) \/ FailCheck(w)
        \/ thread'[w].pc \notin {"fail_check", "fail_write"}
    <3>1. ASSUME NEW v \in Workers, WorkerStep(v) PROVE w = v \/ thread'[w] = thread[w]
      BY <1>a, <2>0, <3>1
         DEF WorkerStep, Claim, ExportEnds, CompleteCheck, CompleteWrite, AfterComplete, DedupRead,
             EnqueueInsert, FailRead, FailCheck, FailWrite, RetryWrite, AfterFail, Goto, Return,
             Raise, Recorded, TypeOK
    <3>2. CASE WorkerStep(w)
      BY <1>a, <2>0, <3>2
         DEF WorkerStep, Claim, ExportEnds, CompleteCheck, CompleteWrite, AfterComplete, DedupRead,
             EnqueueInsert, FailWrite, RetryWrite, AfterFail, Goto, Return, Raise, Recorded, AtRest,
             TypeOK, Thread
    <3>3. ASSUME NEW c \in Clients, RequestExport(c) \/ EnqueueInsert(c) PROVE thread'[w] = thread[w]
      <4>1. c # w
        OBVIOUS
      <4> QED BY <1>a, <2>0, <3>3, <4>1 DEF RequestExport, DedupRead, EnqueueInsert, Return, TypeOK
    <3>4. ASSUME NEW p \in Procs, Crash(p)
          PROVE  thread'[w] = thread[w] \/ thread'[w] = AtRest
      BY <2>0, <3>4 DEF Crash
    <3>5. ASSUME NEW j \in Jobs, BecomeDue(j) PROVE thread'[w] = thread[w]
      BY <3>5 DEF BecomeDue
    <3> QED BY <1>a, <3>1, <3>2, <3>3, <3>4, <3>5, UnattendedNext DEF AtRest, vars
  <2> QED BY <1>3, <2>1, <2>2, <2>3, <2>4
<1> QED BY <1>1, <1>2, <1>3 DEF Calm

\* The owner of a job is the worker that holds it, before a step and after it.
LEMMA Owned ==
  ASSUME IInv, Calm, NEW j \in Jobs
  PROVE  /\ \A w \in Workers : Holds(w, j) => Owner[j] = w
         /\ ~Held(j) => Owner[j] = NoJob
         /\ Held(j) <=> Owner[j] # NoJob
<1>1. \A v, w \in Workers : Holds(v, j) /\ Holds(w, j) => v = w
  BY DEF IInv, Executions, Execution, Calm
<1>2. Owner[j] = IF Held(j) THEN CHOOSE w \in Workers : Holds(w, j) ELSE NoJob
  BY DEF Owner
<1> QED BY <1>1, <1>2 DEF Held

LEMMA OwnedNext ==
  ASSUME IInv', Calm', NEW j \in Jobs
  PROVE  /\ \A w \in Workers : Holds(w, j)' => Owner'[j] = w
         /\ ~Held(j)' => Owner'[j] = NoJob
<1>1. \A v, w \in Workers : Holds(v, j)' /\ Holds(w, j)' => v = w
  BY DEF IInv, Executions, Execution, Calm
<1>2. Owner'[j] = IF Held(j)' THEN CHOOSE w \in Workers : Holds(w, j)' ELSE NoJob
  BY DEF Owner
<1> QED BY <1>1, <1>2 DEF Held

\* If the workers of D let go of what they hold and nothing else changes hands, what they
\* owned has no owner.
LEMMA OwnersLetGo ==
  ASSUME IInv, Calm, IInv', Calm', NEW D \in SUBSET Workers,
         \A v \in Workers, i \in Jobs : Holds(v, i)' <=> Holds(v, i) /\ v \notin D
  PROVE  Owner' = [j \in Jobs |-> IF Owner[j] \in D THEN NoJob ELSE Owner[j]]
<1>1. ASSUME NEW j \in Jobs
      PROVE  Owner'[j] = IF Owner[j] \in D THEN NoJob ELSE Owner[j]
  <2>1. CASE Held(j)
    <3>1. PICK w \in Workers : Holds(w, j) /\ Owner[j] = w
      BY <2>1, Owned DEF Held
    <3>2. \A v \in Workers : Holds(v, j) => v = w
      BY <3>1, Owned
    <3>3. CASE w \in D
      <4>1. ~Held(j)'
        BY <3>2, <3>3 DEF Held
      <4> QED BY <3>1, <3>3, <4>1, OwnedNext
    <3>4. CASE w \notin D
      BY <3>1, <3>4, OwnedNext
    <3> QED BY <3>3, <3>4
  <2>2. CASE ~Held(j)
    <3>1. ~Held(j)'
      BY <2>2 DEF Held
    <3>2. Owner[j] = NoJob /\ Owner'[j] = NoJob
      BY <2>2, <3>1, Owned, OwnedNext
    <3> QED BY <3>2
  <2> QED BY <2>1, <2>2
<1>2. Owner' = [j \in Jobs |-> Owner'[j]]
  BY DEF Owner
<1> QED BY <1>1, <1>2

\* A step that leaves the table alone, as far as status and count go, at most lets workers
\* let go: the abstract machine sees them die, or nothing.
LEMMA Quiet ==
  ASSUME IInv, Calm, IInv', Calm', NEW D \in SUBSET Workers,
         \A v \in Workers, i \in Jobs : Holds(v, i)' <=> Holds(v, i) /\ v \notin D,
         Phase' = Phase, Attempts' = Attempts
  PROVE  Lifecycle!Next
<1>1. Lifecycle!Die(D)
  BY OwnersLetGo DEF Lifecycle!Die
<1> QED BY <1>1 DEF Lifecycle!Next

\* Worker w ends its execution of j and nobody else lets go of anything.
LEMMA OwnerEnds ==
  ASSUME IInv, Calm, IInv', Calm', NEW w \in Workers, NEW j \in Jobs, Holds(w, j),
         \A v \in Workers, i \in Jobs : Holds(v, i)' <=> Holds(v, i) /\ v # w
  PROVE  /\ Owner[j] = w /\ w # NoJob
         /\ Owner' = [Owner EXCEPT ![j] = NoJob]
<1>1. Owner[j] = w /\ w # NoJob
  BY Owned
<1>2. ASSUME NEW i \in Jobs, Owner[i] = w PROVE i = j
  <2>1. Held(i)
    BY <1>1, <1>2, Owned
  <2>2. Holds(w, i)
    BY <1>2, <2>1, Owned DEF Held
  <2> QED BY <2>2 DEF Holds
<1>3. \A v \in Workers, i \in Jobs : Holds(v, i)' <=> Holds(v, i) /\ v \notin {w}
  OBVIOUS
<1>4. Owner' = [i \in Jobs |-> IF Owner[i] \in {w} THEN NoJob ELSE Owner[i]]
  BY <1>3, OwnersLetGo
<1>5. \A i \in Jobs : Owner[i] \in {w} <=> i = j
  BY <1>1, <1>2
<1>6. Owner = [i \in Jobs |-> Owner[i]]
  BY DEF Owner
<1> QED BY <1>1, <1>4, <1>5, <1>6

\* Phase and Attempts follow the one row that is written.
LEMMA RowSeen ==
  ASSUME NEW j \in Jobs, rows'[j] \in Row, \A i \in Jobs : i # j => rows'[i] = rows[i]
  PROVE  /\ Phase' = [Phase EXCEPT ![j] = rows'[j].status]
         /\ Attempts' = [Attempts EXCEPT ![j] = rows'[j].retries]
<1>1. rows'[j] # NoRow
  OBVIOUS
<1>2. Phase' = [Phase EXCEPT ![j] = rows'[j].status]
  BY <1>1 DEF Phase
<1>3. Attempts' = [Attempts EXCEPT ![j] = rows'[j].retries]
  BY <1>1 DEF Attempts
<1> QED BY <1>2, <1>3

\* A new status for a row that exists changes nothing else of the table.
LEMMA StatusSet ==
  ASSUME rows \in [Jobs -> Row \cup {NoRow}], NEW j \in Jobs, rows[j] # NoRow,
         NEW s \in Status, rows' = [rows EXCEPT ![j].status = s]
  PROVE  /\ Phase' = [Phase EXCEPT ![j] = s]
         /\ Attempts' = Attempts
<1>1. rows[j] \in Row
  OBVIOUS
<1>2. /\ rows'[j] \in Row /\ rows'[j].status = s /\ rows'[j].retries = rows[j].retries
      /\ \A i \in Jobs : i # j => rows'[i] = rows[i]
  BY <1>1 DEF Row
<1>3. Attempts[j] = rows[j].retries
  BY DEF Attempts
<1>4. Attempts = [i \in Jobs |-> Attempts[i]]
  BY DEF Attempts
<1>5. /\ Phase' = [Phase EXCEPT ![j] = s]
      /\ Attempts' = [Attempts EXCEPT ![j] = Attempts[j]]
  BY <1>2, <1>3, RowSeen
<1> QED BY <1>4, <1>5

LEMMA LifecycleInit == Init => Lifecycle!Init
<1> SUFFICES ASSUME Init PROVE Lifecycle!Init
  OBVIOUS
<1>1. \A j \in Jobs : ~Held(j)
  BY DEF Init, Held, Holds, Holding, AtRest, Actors
<1> QED BY <1>1 DEF Init, Lifecycle!Init, Phase, Owner, Attempts

\* Without cancels, requeues and database errors every step of the queue is a step of
\* JobLifecycle: the claim starts a job, the write that ends an execution completes or
\* fails it, the insert submits it, and the death of a thread leaves it without an owner.
LEMMA Simulation ==
  ASSUME Unattended, IInv, Calm, IInv', Calm', [Next]_vars
  PROVE  Lifecycle!Next
<1> USE DEF tableVars, ghostVars, budgetVars
<1>a. /\ TypeOK /\ FreshDrafts
      /\ Workers \subseteq Actors /\ Clients \subseteq Actors
      /\ thread \in [Actors -> Thread] /\ rows \in [Jobs -> Row \cup {NoRow}]
  BY DEF IInv, TypeOK, Actors
<1>b. UNCHANGED rows => Phase' = Phase /\ Attempts' = Attempts
  BY DEF Phase, Attempts
<1>c. ASSUME UNCHANGED thread PROVE \A v \in Workers, i \in Jobs : Holds(v, i)' <=> Holds(v, i)
  BY <1>c DEF Holds
<1>1. ASSUME NEW w \in Workers, Claim(w) PROVE Lifecycle!Next
  <2>1. PICK j \in Jobs : /\ StatusIs(j, "pending")
                          /\ rows' = [rows EXCEPT ![j].status = "running"]
                          /\ thread' = [thread EXCEPT ![w].pc = "export", ![w].job = j]
    BY <1>1 DEF Claim, Oldest, DueJobs, SetStatus
  <2>2. rows[j] \in Row /\ ~Held(j)
    BY <1>a, <2>1 DEF StatusIs, IInv, Executions, Execution, Calm, Held
  <2>3. \A i \in Jobs : ~Holds(w, i)
    BY <1>1 DEF Claim, At, Holds, Holding
  <2>4. \A i \in Jobs : Holds(w, i)' <=> i = j
    BY <1>a, <2>1 DEF Holds, Holding, Thread
  <2>5. \A v \in Workers \ {w}, i \in Jobs : Holds(v, i)' <=> Holds(v, i)
    BY <1>a, <2>1 DEF Holds
  <2>6. Phase[j] = "pending"
    BY <2>1 DEF Phase, StatusIs
  <2>7. Phase' = [Phase EXCEPT ![j] = "running"] /\ Attempts' = Attempts
    <3>1. rows[j] # NoRow /\ "running" \in Status
      BY <2>1 DEF StatusIs, Status
    <3> QED BY <1>a, <2>1, <3>1, StatusSet
  <2>8. \A i \in Jobs : Owner[i] # w
    <3> SUFFICES ASSUME NEW i \in Jobs, Owner[i] = w PROVE FALSE
      OBVIOUS
    <3>1. Held(i)
      BY Owned
    <3> QED BY <2>3, <3>1, Owned DEF Held
  <2>9. Owner'[j] = w
    BY <2>4, OwnedNext
  <2>10. ASSUME NEW i \in Jobs, i # j PROVE Owner'[i] = Owner[i]
    <3>1. \A v \in Workers : Holds(v, i)' <=> Holds(v, i)
      BY <2>3, <2>4, <2>5, <2>10
    <3>2. CASE Held(i)
      <4>1. PICK v \in Workers : Holds(v, i)
        BY <3>2 DEF Held
      <4> QED BY <3>1, <4>1, Owned, OwnedNext
    <3>3. CASE ~Held(i)
      <4>1. ~Held(i)'
        BY <3>1, <3>3 DEF Held
      <4> QED BY <3>3, <4>1, Owned, OwnedNext
    <3> QED BY <3>2, <3>3
  <2>11. Owner' = [Owner EXCEPT ![j] = w]
    <3>1. Owner = [i \in Jobs |-> Owner[i]] /\ Owner' = [i \in Jobs |-> Owner'[i]]
      BY DEF Owner
    <3>2. \A i \in Jobs : Owner'[i] = IF i = j THEN w ELSE Owner[i]
      BY <2>9, <2>10
    <3> QED BY <3>1, <3>2
  <2> QED BY <2>6, <2>7, <2>8, <2>11 DEF Lifecycle!Next, Lifecycle!Start
<1>2. ASSUME NEW w \in Workers, UNCHANGED rows,
             ExportEnds(w) \/ CompleteCheck(w) \/ AfterComplete(w) \/ FailRead(w)
               \/ FailCheck(w) \/ AfterFail(w)
      PROVE  Lifecycle!Next
  <2>1. \A v \in Workers \ {w}, i \in Jobs : Holds(v, i)' <=> Holds(v, i)
    BY <1>a, <1>2 DEF Holds, ExportEnds, CompleteCheck, AfterComplete, FailRead, FailCheck,
       AfterFail, Goto, Raise, Return, DedupRead
  <2>2. \/ \A i \in Jobs : Holds(w, i)' <=> Holds(w, i)
        \/ \A i \in Jobs : ~Holds(w, i)'
    <3>1. CASE ExportEnds(w) \/ CompleteCheck(w) \/ FailCheck(w)
      BY <1>a, <3>1 DEF Holds, Holding, ExportEnds, CompleteCheck, FailCheck, At, Goto, Raise,
         Return, AtRest, Thread
    <3>2. CASE FailRead(w)
      BY <1>a, <3>2 DEF Holds, Holding, FailRead, At, Thread
    <3>3. CASE AfterFail(w)
      BY <1>a, <3>3 DEF Holds, Holding, AfterFail, Return, AtRest
    <3>4. CASE AfterComplete(w)
      BY <1>a, <3>4 DEF Holds, Holding, AfterComplete, DedupRead, Return, AtRest, Thread
    <3> QED BY <1>2, <3>1, <3>2, <3>3, <3>4
  <2>3. CASE \A i \in Jobs : Holds(w, i)' <=> Holds(w, i)
    <3>1. \A v \in Workers, i \in Jobs : Holds(v, i)' <=> Holds(v, i) /\ v \notin {}
      BY <2>1, <2>3
    <3> QED BY <1>2, <1>b, <3>1, Quiet
  <2>4. CASE \A i \in Jobs : ~Holds(w, i)'
    <3>1. \A v \in Workers, i \in Jobs : Holds(v, i)' <=> Holds(v, i) /\ v \notin {w}
      BY <2>1, <2>4
    <3> QED BY <1>2, <1>b, <3>1, Quiet
  <2> QED BY <2>2, <2>3, <2>4
<1>3. ASSUME NEW w \in Workers, CompleteWrite(w) PROVE Lifecycle!Next
  <2> DEFINE j == thread[w].job
  <2>1. j \in Jobs /\ rows[j] \in Row /\ Holds(w, j)
    BY <1>a, <1>3 DEF CompleteWrite, At, TypeOK, WellFormed, Thread, Holds, Holding
  <2>2. rows[j].status = "running"
    BY <2>1 DEF IInv, Executions, Execution, Calm
  <2>3. \A v \in Workers, i \in Jobs : Holds(v, i)' <=> Holds(v, i) /\ v # w
    BY <1>a, <1>3 DEF CompleteWrite, Goto, Holds, Holding, Thread
  <2>4. rows[j] # NoRow /\ Phase[j] = "running"
    BY <2>1, <2>2 DEF Phase
  <2>5. Phase' = [Phase EXCEPT ![j] = "completed"] /\ Attempts' = Attempts
    <3>1. rows' = [rows EXCEPT ![j].status = "completed"] /\ "completed" \in Status
      BY <1>3 DEF CompleteWrite, SetStatus, Status
    <3> HIDE DEF j
    <3> QED BY <1>a, <2>1, <2>4, <3>1, StatusSet
  <2> HIDE DEF j
  <2> QED BY <2>1, <2>3, <2>4, <2>5, OwnerEnds, ZenonT(40) DEF Lifecycle!Next, Lifecycle!Complete
<1>4. ASSUME NEW w \in Workers, FailWrite(w) \/ RetryWrite(w) PROVE Lifecycle!Next
  <2> DEFINE j == thread[w].job
             s == IF thread[w].tries < MaxAttempts THEN "pending" ELSE "failed"
  <2>0. thread[w].pc \in {"fail_write", "retry_write"}
    BY <1>4 DEF FailWrite, RetryWrite, At
  <2>1. j \in Jobs /\ rows[j] \in Row /\ Holds(w, j) /\ thread[w].tries \in Nat
    BY <1>a, <2>0 DEF TypeOK, WellFormed, Thread, Holds, Holding
  <2>2. /\ rows[j].status = "running"
        /\ thread[w].tries = rows[j].retries + 1
        /\ thread[w].pc = "retry_write" => thread[w].tries < MaxAttempts
    BY <2>0, <2>1 DEF IInv, Executions, Execution, Calm
  <2>3. thread[w].pc = "fail_write" => ~(thread[w].tries < MaxAttempts)
    BY <2>1 DEF Calm
  <2>4. \A v \in Workers, i \in Jobs : Holds(v, i)' <=> Holds(v, i) /\ v # w
    BY <1>a, <1>4, SMTT(30) DEF FailWrite, RetryWrite, Recorded, Return, AtRest, Holds, Holding, Thread
  <2>5. /\ rows'[j].status = s /\ rows'[j].retries = thread[w].tries /\ rows'[j] \in Row
        /\ \A i \in Jobs : i # j => rows'[i] = rows[i]
    BY <1>a, <1>4, <2>0, <2>1, <2>2, <2>3 DEF FailWrite, RetryWrite, At, Row, Status
  <2>6. Attempts[j] = rows[j].retries /\ Phase[j] = "running"
    BY <2>1, <2>2 DEF Attempts, Phase
  <2>7. s = IF Attempts[j] + 1 < MaxAttempts THEN "pending" ELSE "failed"
    BY <2>2, <2>6
  <2> HIDE DEF j, s
  <2>8. Phase' = [Phase EXCEPT ![j] = s]
    BY <2>1, <2>5 DEF Phase
  <2>9. Attempts' = [Attempts EXCEPT ![j] = Attempts[j] + 1]
    BY <2>1, <2>2, <2>5, <2>6 DEF Attempts
  <2> QED BY <2>1, <2>4, <2>6, <2>7, <2>8, <2>9, OwnerEnds DEF Lifecycle!Next, Lifecycle!Fail
<1>5. ASSUME NEW a \in Actors, EnqueueInsert(a) PROVE Lifecycle!Next
  <2> DEFINE j == thread[a].draft.id
  <2>1. j \in Jobs /\ rows[j] = NoRow
    BY <1>a, <1>5 DEF EnqueueInsert, At, TypeOK, WellFormed, Thread, Draft, FreshDrafts
  <2>2. \A v \in Workers, i \in Jobs : Holds(v, i)' <=> Holds(v, i) /\ v \notin {}
    BY <1>a, <1>5 DEF EnqueueInsert, At, Return, AtRest, Holds, Holding
  <2>3. thread[a].draft \in Draft
    BY <1>a, <1>5 DEF EnqueueInsert, At, TypeOK, WellFormed, Thread
  <2>4. rows'[j] \in Row /\ rows'[j].status = "pending" /\ rows'[j].retries = 0
    BY <1>a, <1>5, <2>1, <2>3 DEF EnqueueInsert, Draft, Row, Status
  <2>5. \A i \in Jobs : i # j => rows'[i] = rows[i]
    BY <1>a, <1>5, <2>1 DEF EnqueueInsert
  <2> HIDE DEF j
  <2>6. Phase[j] = "absent" /\ Phase' = [Phase EXCEPT ![j] = "pending"]
    BY <2>1, <2>4, <2>5, RowSeen DEF Phase
  <2>7. Attempts' = Attempts
    <3>1. Attempts = [i \in Jobs |-> Attempts[i]] /\ Attempts[j] = 0
      BY <2>1 DEF Attempts
    <3>2. Attempts' = [Attempts EXCEPT ![j] = 0]
      BY <2>1, <2>4, <2>5, RowSeen
    <3> QED BY <3>1, <3>2
  <2>8. Owner' = [i \in Jobs |-> IF Owner[i] \in {} THEN NoJob ELSE Owner[i]]
    BY <2>2, OwnersLetGo
  <2>9. Owner' = Owner
    BY <2>8 DEF Owner
  <2> QED BY <2>1, <2>6, <2>7, <2>9 DEF Lifecycle!Next, Lifecycle!Submit
<1>6. ASSUME NEW c \in Clients, RequestExport(c) PROVE Lifecycle!Next
  <2>1. \A v \in Workers : thread'[v] = thread[v]
    BY <1>a, <1>6 DEF RequestExport, DedupRead, Return
  <2>2. \A v \in Workers, i \in Jobs : Holds(v, i)' <=> Holds(v, i) /\ v \notin {}
    BY <2>1 DEF Holds
  <2> QED BY <1>6, <1>b, <2>2, Quiet DEF RequestExport
<1>7. ASSUME NEW j \in Jobs, BecomeDue(j) PROVE Lifecycle!Next
  <2>1. \A v \in Workers, i \in Jobs : Holds(v, i)' <=> Holds(v, i) /\ v \notin {}
    BY <1>7, <1>c DEF BecomeDue
  <2>2. Phase' = Phase /\ Attempts' = Attempts
    <3>1. rows[j] \in Row /\ rows' = [rows EXCEPT ![j].due = TRUE]
      BY <1>a, <1>7 DEF BecomeDue, StatusIs
    <3>2. /\ rows'[j] \in Row /\ rows'[j].status = rows[j].status
          /\ rows'[j].retries = rows[j].retries
          /\ \A i \in Jobs : i # j => rows'[i] = rows[i]
      BY <1>a, <3>1 DEF Row
    <3>3. /\ Phase = [i \in Jobs |-> Phase[i]] /\ Phase[j] = rows'[j].status
          /\ Attempts = [i \in Jobs |-> Attempts[i]] /\ Attempts[j] = rows'[j].retries
      BY <3>1, <3>2 DEF Phase, Attempts
    <3>4. /\ Phase' = [Phase EXCEPT ![j] = Phase[j]]
          /\ Attempts' = [Attempts EXCEPT ![j] = Attempts[j]]
      BY <3>2, <3>3, RowSeen
    <3> QED BY <3>3, <3>4
  <2> QED BY <2>1, <2>2, Quiet
<1>8. ASSUME NEW p \in Procs, Crash(p) PROVE Lifecycle!Next
  <2> DEFINE dead == {a \in Actors : ProcOf[a] = p}
             D == Workers \cap dead
  <2>1. \A v \in Workers : thread'[v] = IF v \in D THEN AtRest ELSE thread[v]
    BY <1>a, <1>8 DEF Crash
  <2> HIDE DEF D
  <2>2. \A v \in Workers, i \in Jobs : Holds(v, i)' <=> Holds(v, i) /\ v \notin D
    BY <2>1 DEF Holds, Holding, AtRest
  <2>3. D \in SUBSET Workers
    BY DEF D
  <2> QED BY <1>8, <1>b, <2>2, <2>3, Quiet DEF Crash
<1>9. CASE UNCHANGED vars
  <2>1. \A v \in Workers, i \in Jobs : Holds(v, i)' <=> Holds(v, i) /\ v \notin {}
    BY <1>9, <1>c DEF vars
  <2> QED BY <1>9, <1>b, <2>1, Quiet DEF vars
<1>10. ASSUME NEW w \in Workers, WorkerStep(w) PROVE Lifecycle!Next
  BY <1>a, <1>10, <1>1, <1>2, <1>3, <1>4, <1>5
     DEF WorkerStep, ExportEnds, CompleteCheck, AfterComplete, FailRead, FailCheck, AfterFail
<1> QED BY <1>a, <1>5, <1>6, <1>7, <1>8, <1>9, <1>10, UnattendedNext

\* When nobody cancels or requeues and the database accepts every write, the queue keeps
\* the promises of JobLifecycle: the claim, the two-transaction outcomes, the retries and
\* the crashes of core/worker.py and core/queue_manager.py are its steps.
THEOREM QueueImplements == ASSUME Unattended PROVE Spec => ImplementsLifecycle
<1>1. Init => IInv /\ Calm
  BY InvInit, CalmInit
<1>2. IInv /\ Calm /\ [Next]_vars => (IInv /\ Calm)'
  BY InvStep, CalmStep
<1>3. IInv /\ Calm /\ [Next]_vars /\ (IInv /\ Calm)' => [Lifecycle!Next]_(Lifecycle!vars)
  BY Simulation
<1>4. Init => Lifecycle!Init
  BY LifecycleInit
<1> QED BY <1>1, <1>2, <1>3, <1>4, PTL DEF Spec, ImplementsLifecycle, Lifecycle!Spec

=============================================================================
