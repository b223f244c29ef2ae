---------------------------- MODULE ProcessProofs ----------------------------
(***************************************************************************)
(* Theorems about the processes.                                           *)
(*                                                                         *)
(* WorkerPool, for any number of workers, batch, starts and errors: who    *)
(* runs and what a thread may still claim after stop().  Schema, for any   *)
(* services and commands and any number of boots, errors and kills: what   *)
(* processes that migrate one database side by side leave behind.          *)
(***************************************************************************)
EXTENDS WorkerPool, Schema, TLAPS

USE PoolAssumption

\* A thread that may claim has not used up its tick.
RoomToClaim == \A t \in Threads : pc[t] = "claim" => batch[t] < MaxBatch

\* A call has still to launch or join threads of the list; the list is of the last start().
Listed == todo \subseteq members /\ members \subseteq Generation(starts)

\* A stop() that has walked past a thread has seen it end, or has given it up.
Waited ==
  /\ call = "stop_set" => todo = members
  /\ call = "clear" => todo = {}
  /\ call \in {"join", "clear"} =>
       \A t \in members \ todo : ~Alive(t) \/ t \in abandoned

\* Only threads with worker_index 0 come near the scheduler.
Zeroth == \A t \in Threads : pc[t] \in {"advance", "ticking"} => t[2] = 0

\* A thread that is about to claim after the stop flag was set has not done so before.
FirstLate == \A t \in Threads : stop /\ pc[t] = "claim" => late[t] = 0

IInv ==
  /\ TypeOK /\ RoomToClaim
  /\ Listed /\ Waited /\ NoStray
  /\ Zeroth
  /\ FirstLate /\ OneLateClaim

-----------------------------------------------------------------------------
(* What the steps of the threads have in common. *)

Running == PCs \ {"none", "created", "dead"}

\* A thread in its loop moves, and no other; nobody is launched, listed or given up.
Moving(t) ==
  /\ pc[t] \in Running
  /\ \E where \in PCs \ {"none", "created"} :
       /\ pc' = [pc EXCEPT ![t] = where]
       /\ where \in {"advance", "ticking"} => t[2] = 0
  /\ UNCHANGED <<callVars, stop, scheduler, starts, abandoned>>

\* What such a move does to the counters of the thread.
Counted ==
  /\ batch' \in [Threads -> 0..MaxBatch] /\ RoomToClaim'
  /\ late' \in [Threads -> Nat] /\ FirstLate' /\ OneLateClaim'
  /\ faults' \in 0..MaxFaults

\* A step that is not a claim and does not go on to one; it may end the thread's tick.
LEMMA CalmStep ==
  ASSUME IInv, NEW t \in Threads, pc[t] \in Running,
         NEW where \in PCs \ {"none", "created", "claim"},
         pc' = [pc EXCEPT ![t] = where], where \in {"advance", "ticking"} => t[2] = 0,
         batch' = batch \/ batch' = [batch EXCEPT ![t] = 0],
         faults' \in 0..MaxFaults,
         UNCHANGED <<callVars, stop, scheduler, starts, abandoned, late>>
  PROVE  Moving(t) /\ Counted
<1>1. Moving(t)
  BY DEF Moving
<1>2. /\ pc \in [Threads -> PCs] /\ batch \in [Threads -> 0..MaxBatch]
      /\ late \in [Threads -> Nat] /\ RoomToClaim /\ FirstLate /\ OneLateClaim
  BY DEF IInv, TypeOK
<1>3. pc'[t] = where /\ \A u \in Threads \ {t} : pc'[u] = pc[u]
  BY <1>2
<1>4. batch' \in [Threads -> 0..MaxBatch] /\ \A u \in Threads \ {t} : batch'[u] = batch[u]
  BY <1>2
<1>5. RoomToClaim'
  BY <1>2, <1>3, <1>4 DEF RoomToClaim
<1>6. FirstLate' /\ OneLateClaim' /\ late' \in [Threads -> Nat]
  BY <1>2, <1>3 DEF FirstLate, OneLateClaim
<1> QED BY <1>1, <1>4, <1>5, <1>6 DEF Counted

\* Each step of a thread is a move, and leaves its counters in range.
LEMMA ThreadStepMoves ==
  ASSUME IInv, NEW t \in Threads, ThreadStep(t) \/ TickRaises(t)
  PROVE  Moving(t) /\ Counted
<1>1. {"loop", "advance", "ticking", "drain", "claim", "job", "finish", "crashed"} \subseteq Running
  BY DEF Running, PCs
<1>2. {"loop", "advance", "ticking", "drain", "job", "finish", "crashed", "dead"}
        \subseteq PCs \ {"none", "created", "claim"}
  BY DEF PCs
<1>0. /\ pc \in [Threads -> PCs] /\ batch \in [Threads -> 0..MaxBatch]
      /\ late \in [Threads -> Nat] /\ faults \in 0..MaxFaults /\ stop \in BOOLEAN
      /\ RoomToClaim /\ Zeroth /\ FirstLate /\ OneLateClaim
  BY DEF IInv, TypeOK
<1>3. CASE Wake(t)
  <2> DEFINE where == IF stop THEN "dead" ELSE IF t[2] = 0 THEN "advance" ELSE "drain"
  <2>1. /\ where \in PCs \ {"none", "created", "claim"}
        /\ where \in {"advance", "ticking"} => t[2] = 0
    BY <1>2
  <2>2. pc[t] = "loop" /\ pc' = [pc EXCEPT ![t] = where]
        /\ UNCHANGED <<batch, callVars, stop, scheduler, starts, faults, abandoned, late>>
    BY <1>3 DEF Wake, Goto
  <2> HIDE DEF where
  <2> QED BY <1>0, <1>1, <2>1, <2>2, CalmStep
<1>4. CASE Advance(t)
  <2> DEFINE where == IF scheduler THEN "ticking" ELSE "drain"
  <2>1. where \in PCs \ {"none", "created", "claim"} /\ t[2] = 0
    BY <1>0, <1>2, <1>4 DEF Advance, Zeroth
  <2>2. pc[t] = "advance" /\ pc' = [pc EXCEPT ![t] = where]
        /\ UNCHANGED <<batch, callVars, stop, scheduler, starts, faults, abandoned, late>>
    BY <1>4 DEF Advance, Goto
  <2> HIDE DEF where
  <2> QED BY <1>0, <1>1, <2>1, <2>2, CalmStep
<1>5. CASE TickEnds(t) \/ JobEnds(t)
  <2>1. pc[t] \in Running /\ pc' = [pc EXCEPT ![t] = "drain"]
        /\ UNCHANGED <<batch, callVars, stop, scheduler, starts, faults, abandoned, late>>
    BY <1>1, <1>5 DEF TickEnds, JobEnds, Goto
  <2> QED BY <1>0, <1>1, <1>2, <2>1, CalmStep
<1>6. CASE Drain(t)
  <2>1. CASE stop \/ batch[t] = MaxBatch
    <3>1. pc[t] = "drain" /\ pc' = [pc EXCEPT ![t] = "finish"]
      BY <1>6, <2>1 DEF Drain, LeaveDrain, Goto
    <3>2. batch' = [batch EXCEPT ![t] = 0] /\ faults' \in 0..MaxFaults
          /\ UNCHANGED <<callVars, stop, scheduler, starts, abandoned, late>>
      BY <1>0, <1>6, <2>1 DEF Drain, LeaveDrain
    <3> QED BY <1>1, <1>2, <3>1, <3>2, CalmStep
  <2>2. CASE ~(stop \/ batch[t] = MaxBatch)
    <3>1. pc[t] = "drain" /\ pc' = [pc EXCEPT ![t] = "claim"]
          /\ UNCHANGED <<batch, callVars, stop, scheduler, starts, faults, abandoned, late>>
      BY <1>6, <2>2 DEF Drain, Goto
    <3>2. Counted
      BY <1>0, <2>2, <3>1 DEF Counted, RoomToClaim, FirstLate, OneLateClaim
    <3>3. "claim" \in PCs \ {"none", "created"} /\ ("claim" \in {"advance", "ticking"} => t[2] = 0)
      BY DEF PCs
    <3> QED BY <1>1, <3>1, <3>2, <3>3 DEF Moving
  <2> QED BY <2>1, <2>2
<1>7. CASE Claim(t)
  <2>1. CASE LeaveDrain(t, "finish") /\ UNCHANGED late
    <3>1. pc[t] = "claim" /\ pc' = [pc EXCEPT ![t] = "finish"]
      BY <1>7, <2>1 DEF Claim, LeaveDrain, Goto
    <3>2. batch' = [batch EXCEPT ![t] = 0] /\ faults' \in 0..MaxFaults
          /\ UNCHANGED <<callVars, stop, scheduler, starts, abandoned, late>>
      BY <1>0, <1>7, <2>1 DEF Claim, LeaveDrain
    <3> QED BY <1>1, <1>2, <3>1, <3>2, CalmStep
  <2>2. CASE /\ Goto(t, "job")
             /\ batch' = [batch EXCEPT ![t] = @ + 1]
             /\ late' = IF stop THEN [late EXCEPT ![t] = @ + 1] ELSE late
    <3>1. pc[t] = "claim" /\ batch[t] < MaxBatch /\ (stop => late[t] = 0)
      BY <1>0, <1>7 DEF Claim, RoomToClaim, FirstLate
    <3>2. pc' = [pc EXCEPT ![t] = "job"]
          /\ UNCHANGED <<callVars, stop, scheduler, starts, faults, abandoned>>
      BY <1>7, <2>2 DEF Claim, Goto
    <3>3. batch' \in [Threads -> 0..MaxBatch] /\ RoomToClaim'
      BY <1>0, <2>2, <3>1, <3>2 DEF RoomToClaim
    <3>4. late' \in [Threads -> Nat] /\ FirstLate' /\ OneLateClaim'
      BY <1>0, <2>2, <3>1, <3>2 DEF FirstLate, OneLateClaim
    <3>5. "job" \in PCs \ {"none", "created"} /\ ("job" \in {"advance", "ticking"} => t[2] = 0)
      BY DEF PCs
    <3>6. Moving(t)
      BY <1>1, <3>1, <3>2, <3>5 DEF Moving
    <3> QED BY <1>0, <3>2, <3>3, <3>4, <3>6 DEF Counted
  <2> QED BY <1>7, <2>1, <2>2 DEF Claim
<1>9. CASE TickFinished(t)
  <2>1. pc[t] = "finish" /\ pc' = [pc EXCEPT ![t] = "loop"]
        /\ UNCHANGED <<batch, callVars, stop, scheduler, starts, faults, abandoned, late>>
    BY <1>9 DEF TickFinished, Goto
  <2> QED BY <1>0, <1>1, <1>2, <2>1, CalmStep
<1>10. CASE ErrorHandled(t)
  <2>1. PICK where \in {"loop", "dead"} : pc' = [pc EXCEPT ![t] = where]
    BY <1>10 DEF ErrorHandled, Goto
  <2>2. pc[t] = "crashed" /\ faults' \in 0..MaxFaults
        /\ UNCHANGED <<batch, callVars, stop, scheduler, starts, abandoned, late>>
    BY <1>0, <1>10 DEF ErrorHandled, Fault
  <2> QED BY <1>1, <1>2, <2>1, <2>2, CalmStep
<1>11. CASE TickRaises(t)
  <2>1. pc[t] \in Running /\ pc' = [pc EXCEPT ![t] = "crashed"]
    BY <1>1, <1>11 DEF TickRaises, LeaveDrain, Goto
  <2>2. batch' = [batch EXCEPT ![t] = 0] /\ faults' \in 0..MaxFaults
        /\ UNCHANGED <<callVars, stop, scheduler, starts, abandoned, late>>
    BY <1>0, <1>11 DEF TickRaises, LeaveDrain, Fault
  <2> QED BY <1>1, <1>2, <2>1, <2>2, CalmStep
<1>12. \/ Wake(t) \/ Advance(t) \/ TickEnds(t) \/ JobEnds(t) \/ Drain(t) \/ Claim(t)
       \/ TickFinished(t) \/ ErrorHandled(t) \/ TickRaises(t)
  BY Zenon DEF ThreadStep
<1> QED
  BY Zenon, <1>3, <1>4, <1>5, <1>6, <1>7, <1>9, <1>10, <1>11, <1>12

-----------------------------------------------------------------------------
LEMMA Initially == Init => IInv
<1> SUFFICES ASSUME Init PROVE IInv
  OBVIOUS
<1>1. \A t \in Threads : t[1] \in Nat /\ t[1] > 0
  BY DEF Threads
<1>2. TypeOK
  <2>0. pc = [t \in Threads |-> "none"] /\ starts = 0 /\ "none" \in PCs
    BY DEF Init, PCs
  <2>1. pc \in [Threads -> PCs] /\ \A t \in Threads : pc[t] = "none" <=> t[1] > starts
    BY <1>1, <2>0
  <2>2. 0 \in 0..MaxBatch /\ 0 \in 0..MaxStarts /\ 0 \in 0..MaxFaults
    OBVIOUS
  <2>3. batch \in [Threads -> 0..MaxBatch] /\ late \in [Threads -> Nat]
    BY <2>2 DEF Init
  <2>4. /\ members \subseteq Threads /\ todo \subseteq Threads /\ abandoned \subseteq Threads
        /\ stop \in BOOLEAN /\ scheduler \in BOOLEAN /\ call \in CallPCs
        /\ starts \in 0..MaxStarts /\ faults \in 0..MaxFaults
    BY <2>2 DEF Init, CallPCs
  <2> QED BY <2>1, <2>3, <2>4 DEF TypeOK
<1>3. RoomToClaim /\ Listed /\ Waited /\ NoStray /\ Zeroth /\ FirstLate /\ OneLateClaim
  BY DEF Init, RoomToClaim, Listed, Generation, Waited, NoStray, Alive, Zeroth, FirstLate, OneLateClaim
<1> QED BY <1>2, <1>3 DEF IInv

\* A running thread that moves disturbs none of the invariant's parts.
LEMMA ThreadsKeep ==
  ASSUME IInv, NEW t \in Threads, ThreadStep(t) \/ TickRaises(t)
  PROVE  IInv'
<1>1. Moving(t) /\ RoomToClaim' /\ FirstLate' /\ OneLateClaim'
      /\ batch' \in [Threads -> 0..MaxBatch] /\ late' \in [Threads -> Nat] /\ faults' \in 0..MaxFaults
  BY ThreadStepMoves DEF Counted
<1>2. TypeOK /\ Listed /\ Waited /\ NoStray /\ Zeroth
  BY DEF IInv
<1>3. PICK where \in PCs \ {"none", "created"} :
        /\ pc' = [pc EXCEPT ![t] = where]
        /\ where \in {"advance", "ticking"} => t[2] = 0
  BY <1>1 DEF Moving
<1>4. /\ pc[t] \in Running /\ pc \in [Threads -> PCs]
      /\ UNCHANGED <<members, call, todo, stop, scheduler, starts, abandoned>>
  BY <1>1, <1>2 DEF Moving, callVars, TypeOK
<1>5. \A u \in Threads : Alive(u)' => Alive(u)
  BY <1>3, <1>4 DEF Alive, Running, PCs
<1>6. TypeOK'
  BY <1>1, <1>2, <1>3, <1>4 DEF TypeOK, Running
<1>7. Listed' /\ Waited' /\ NoStray'
  BY <1>2, <1>4, <1>5 DEF Listed, Waited, NoStray, Generation
<1>8. Zeroth'
  BY <1>2, <1>3, <1>4 DEF Zeroth
<1> QED BY <1>1, <1>6, <1>7, <1>8 DEF IInv

\* A call that moves no thread, and neither counts nor forgets a claim, keeps what is
\* said of the threads alone.
LEMMA ThreadsUntouched ==
  ASSUME IInv, UNCHANGED <<threadVars, late>>, stop' => stop
  PROVE  RoomToClaim' /\ Zeroth' /\ FirstLate' /\ OneLateClaim'
BY DEF IInv, threadVars, RoomToClaim, Zeroth, FirstLate, OneLateClaim

LEMMA StartKeeps ==
  ASSUME IInv, Start
  PROVE  IInv'
<1>0. TypeOK /\ RoomToClaim /\ Listed /\ Waited /\ NoStray /\ Zeroth /\ FirstLate /\ OneLateClaim
  BY DEF IInv
<1>1. CASE StartBegins
  <2>1. /\ members = {} /\ starts < MaxStarts /\ starts' = starts + 1 /\ stop' = FALSE
        /\ members' = Generation(starts + 1) /\ todo' = Generation(starts + 1)
        /\ pc' = [t \in Threads |-> IF t[1] = starts + 1 THEN "created" ELSE pc[t]]
        /\ call' = "start_state"
        /\ UNCHANGED <<batch, scheduler, faults, abandoned, late>>
    BY <1>1 DEF StartBegins
  <2>2. starts' \in 0..MaxStarts
    BY <1>0, <2>1 DEF TypeOK
  <2>3. TypeOK'
    <3>1. \A t \in Threads : t[1] \in Nat
      BY DEF Threads
    <3>2. pc' \in [Threads -> PCs] /\ \A t \in Threads : pc'[t] = "none" <=> t[1] > starts'
      BY <1>0, <2>1, <3>1 DEF TypeOK, PCs
    <3> QED BY <1>0, <2>1, <2>2, <3>2 DEF TypeOK, CallPCs, Generation
  <2>4. Listed' /\ Waited'
    BY <2>1 DEF Listed, Waited, Generation
  <2>5. NoStray'
    BY <1>0, <2>1 DEF NoStray, Alive
  <2>6. RoomToClaim' /\ Zeroth' /\ FirstLate' /\ OneLateClaim'
    BY <1>0, <2>1 DEF RoomToClaim, Zeroth, FirstLate, OneLateClaim
  <2> QED BY <2>3, <2>4, <2>5, <2>6 DEF IInv
<1>2. CASE StartRecorded \/ StartScheduler
  <2>1. /\ todo' \in {todo, {}} /\ call' \in {"start_scheduler", "launch", "idle"}
        /\ scheduler' \in BOOLEAN /\ faults' \in 0..MaxFaults
        /\ UNCHANGED <<threadVars, members, stop, starts, abandoned, late>>
    <3>1. CASE StartRecorded
      BY <1>0, <3>1 DEF StartRecorded, TypeOK
    <3>2. CASE StartScheduler
      BY <1>0, <3>2 DEF StartScheduler, Fault, TypeOK
    <3> QED BY <1>2, <3>1, <3>2
  <2>2. TypeOK' /\ Listed' /\ Waited' /\ NoStray'
    BY <1>0, <2>1 DEF TypeOK, CallPCs, threadVars, Listed, Waited, NoStray, Alive, Generation
  <2>3. RoomToClaim' /\ Zeroth' /\ FirstLate' /\ OneLateClaim'
    BY <2>1, ThreadsUntouched
  <2> QED BY <2>2, <2>3 DEF IInv
<1>3. CASE Launch
  <2>1. PICK t \in First(todo) :
          /\ pc' = [pc EXCEPT ![t] = "loop"]
          /\ todo' = todo \ {t}
          /\ call' = IF todo = {t} THEN "idle" ELSE "launch"
    BY <1>3 DEF Launch, Goto
  <2>2. UNCHANGED <<batch, members, stop, scheduler, starts, faults, abandoned, late>>
    BY <1>3 DEF Launch
  <2>3. t \in members /\ t \in Threads /\ t[1] = starts
    BY <1>0, <2>1 DEF First, Listed, Generation
  <2>4. TypeOK'
    BY <1>0, <2>1, <2>2, <2>3 DEF TypeOK, PCs, CallPCs, Threads
  <2>5. Listed' /\ Waited' /\ NoStray'
    BY <1>0, <2>1, <2>2, <2>3 DEF Listed, Waited, NoStray, Alive, Generation, TypeOK
  <2>6. RoomToClaim' /\ Zeroth' /\ FirstLate' /\ OneLateClaim'
    BY <1>0, <2>1, <2>2, <2>3 DEF RoomToClaim, Zeroth, FirstLate, OneLateClaim, TypeOK
  <2> QED BY <2>4, <2>5, <2>6 DEF IInv
<1> QED BY <1>1, <1>2, <1>3 DEF Start

LEMMA StopKeeps ==
  ASSUME IInv, StopBegins \/ Stop \/ CallRaises
  PROVE  IInv'
<1>0. TypeOK /\ RoomToClaim /\ Listed /\ Waited /\ NoStray /\ Zeroth /\ FirstLate /\ OneLateClaim
  BY DEF IInv
<1>1. CASE StopBegins
  <2>1. TypeOK' /\ Listed' /\ Waited' /\ NoStray'
    BY <1>0, <1>1 DEF StopBegins, TypeOK, CallPCs, threadVars, Listed, Waited, NoStray, Alive, Generation
  <2>2. RoomToClaim' /\ Zeroth' /\ FirstLate' /\ OneLateClaim'
    BY <1>1, ThreadsUntouched DEF StopBegins
  <2> QED BY <2>1, <2>2 DEF IInv
<1>2. CASE StopSet
  <2>1. TypeOK' /\ Listed' /\ Waited' /\ NoStray'
    BY <1>0, <1>2 DEF StopSet, TypeOK, CallPCs, threadVars, Listed, Waited, NoStray, Alive, Generation
  <2>2. RoomToClaim' /\ Zeroth'
    BY <1>0, <1>2 DEF StopSet, threadVars, RoomToClaim, Zeroth
  <2>3. FirstLate' /\ OneLateClaim'
    BY <1>0, <1>2 DEF StopSet, threadVars, FirstLate, OneLateClaim, TypeOK
  <2> QED BY <2>1, <2>2, <2>3 DEF IInv
<1>3. CASE Join
  <2>1. PICK t \in First(todo) :
          /\ todo' = todo \ {t}
          /\ call' = IF todo = {t} THEN "clear" ELSE "join"
          /\ abandoned' = IF Alive(t) THEN abandoned \cup {t} ELSE abandoned
    BY <1>3 DEF Join
  <2>2. call = "join" /\ UNCHANGED <<threadVars, members, stop, scheduler, starts, faults, late>>
    BY <1>3 DEF Join
  <2>3. t \in Threads
    BY <1>0, <2>1 DEF First, TypeOK
  <2>4. TypeOK' /\ Listed' /\ NoStray'
    BY <1>0, <2>1, <2>2, <2>3 DEF TypeOK, CallPCs, threadVars, Listed, NoStray, Alive, Generation
  <2>5. \A u \in members \ todo' : ~Alive(u) \/ u \in abandoned'
    BY <1>0, <2>1, <2>2 DEF Waited
  <2>6. Waited'
    BY <2>1, <2>2, <2>5 DEF Waited, Alive, threadVars
  <2>7. RoomToClaim' /\ Zeroth' /\ FirstLate' /\ OneLateClaim'
    BY <2>2, ThreadsUntouched
  <2> QED BY <2>4, <2>6, <2>7 DEF IInv
<1>4. CASE StopClears
  <2>1. call = "clear" /\ todo = {} /\ members' = {} /\ call' = "stop_state"
        /\ UNCHANGED <<threadVars, todo, stop, scheduler, starts, faults, abandoned, late>>
    BY <1>0, <1>4 DEF StopClears, Waited
  <2>2. TypeOK' /\ Listed' /\ Waited'
    BY <1>0, <2>1 DEF TypeOK, CallPCs, threadVars, Listed, Waited
  <2>3. NoStray'
    BY <1>0, <2>1 DEF Waited, NoStray, Alive, threadVars
  <2>4. RoomToClaim' /\ Zeroth' /\ FirstLate' /\ OneLateClaim'
    BY <2>1, ThreadsUntouched
  <2> QED BY <2>2, <2>3, <2>4 DEF IInv
<1>5. CASE StopRecorded \/ StopScheduler \/ CallRaises
  <2>1. /\ todo' \in {todo, {}} /\ call' \in {"stop_scheduler", "idle"}
        /\ scheduler' \in BOOLEAN /\ faults' \in 0..MaxFaults
        /\ UNCHANGED <<threadVars, members, stop, starts, abandoned, late>>
    <3>1. CASE StopRecorded \/ StopScheduler
      BY <1>0, <3>1 DEF StopRecorded, StopScheduler, TypeOK
    <3>2. CASE CallRaises
      BY <1>0, <3>2 DEF CallRaises, Fault, TypeOK
    <3> QED BY <1>5, <3>1, <3>2
  <2>2. TypeOK' /\ Listed' /\ Waited' /\ NoStray'
    BY <1>0, <2>1 DEF TypeOK, CallPCs, threadVars, Listed, Waited, NoStray, Alive, Generation
  <2>3. RoomToClaim' /\ Zeroth' /\ FirstLate' /\ OneLateClaim'
    BY <2>1, ThreadsUntouched
  <2> QED BY <2>2, <2>3 DEF IInv
<1> QED BY <1>1, <1>2, <1>3, <1>4, <1>5 DEF Stop

\* The invariant is inductive: what a thread may do and what start() and stop() know of
\* it go together.
THEOREM Invariance == Spec => []IInv
<1>1. IInv /\ [Next]_vars => IInv'
  <2> SUFFICES ASSUME IInv, [Next]_vars PROVE IInv'
    OBVIOUS
  <2>1. CASE Next
    BY <2>1, StartKeeps, StopKeeps, ThreadsKeep DEF Next
  <2>2. CASE UNCHANGED vars
    BY <2>2 DEF vars, IInv, TypeOK, RoomToClaim, Listed, Waited, NoStray, Alive, Zeroth, FirstLate,
                OneLateClaim, Generation
  <2> QED BY <2>1, <2>2
<1> QED BY Initially, <1>1, PTL DEF Spec

-----------------------------------------------------------------------------
\* Every reachable state is well typed, and a thread exists from its start() on.
THEOREM TypeCorrect == Spec => []TypeOK
<1>1. IInv => TypeOK
  BY DEF IInv
<1> QED BY Invariance, <1>1, PTL

\* A stop() whose joins all succeed leaves no thread behind (worker.py, start, stop).
THEOREM NobodyLeftBehind == Spec => []NoStray
<1>1. IInv => NoStray
  BY DEF IInv
<1> QED BY Invariance, <1>1, PTL

\* Among the threads that stop() never gave up on, one at a time is in scheduler.tick()
\* (worker.py, _tick_async, _advance_scheduler).
THEOREM AdvancedByOne == Spec => []OneAdvancer
<1>1. IInv => OneAdvancer
  <2> SUFFICES ASSUME IInv, NEW t \in Threads \ abandoned, NEW u \in Threads \ abandoned,
                      pc[t] = "ticking", pc[u] = "ticking"
               PROVE  t = u
    BY DEF OneAdvancer
  <2>1. t[2] = 0 /\ u[2] = 0
    BY DEF IInv, Zeroth
  <2>2. t \in members /\ u \in members
    BY DEF IInv, NoStray, Alive
  <2>3. t[1] = u[1]
    BY <2>2 DEF IInv, Listed, Generation
  <2> QED BY <2>1, <2>3 DEF Threads
<1> QED BY Invariance, <1>1, PTL

\* A thread claims at most one job after the stop flag is set (worker.py, _drain_queue).
THEOREM LateClaimsBounded == Spec => []OneLateClaim
<1>1. IInv => OneLateClaim
  BY DEF IInv
<1> QED BY Invariance, <1>1, PTL

-----------------------------------------------------------------------------
(* The schema of the database *)

HIDE PoolAssumption

AllTables == {"schema_migrations"} \cup TablesUpTo(Latest)

\* What the proofs need to know of the scripts.
LEMMA Scripts ==
  /\ Latest = 3 /\ Versions = 1..3
  /\ \A v \in Versions : Len(Script[v]) \in Nat \ {0} /\ TablesOf(v) = {Script[v][i] : i \in 1..Len(Script[v])}
  /\ "application_state" \in TablesOf(1) /\ "auth_owner" \in TablesOf(2)
<1>1. Latest = 3 /\ Script[1] = V1 /\ Script[2] = V2 /\ Script[3] = V3
  BY DEF Script, Latest
<1>2. Len(V1) = 4 /\ DOMAIN V1 = 1..4 /\ V1[4] = "application_state"
  BY DEF V1
<1>3. Len(V2) = 2 /\ DOMAIN V2 = 1..2 /\ V2[1] = "auth_owner"
  BY DEF V2
<1>4. Len(V3) = 2 /\ DOMAIN V3 = 1..2
  BY DEF V3
<1>5. Versions = 1..3 /\ \A v \in 1..3 : v = 1 \/ v = 2 \/ v = 3
  BY <1>1 DEF Versions
<1>6. \A v \in Versions : Len(Script[v]) \in Nat \ {0} /\ DOMAIN Script[v] = 1..Len(Script[v])
  BY <1>1, <1>2, <1>3, <1>4, <1>5
<1>7. "application_state" \in TablesOf(1)
  BY <1>1, <1>2 DEF TablesOf
<1>8. "auth_owner" \in TablesOf(2)
  BY <1>1, <1>3 DEF TablesOf
<1> QED BY <1>1, <1>5, <1>6, <1>7, <1>8 DEF TablesOf

LEMMA Whole ==
  /\ \A v \in Versions : TablesOf(v) \subseteq TablesUpTo(Latest)
  /\ \A T : (\A v \in Versions : TablesOf(v) \subseteq T) => TablesUpTo(Latest) \subseteq T
BY DEF TablesUpTo, Versions

-----------------------------------------------------------------------------
(* The schema: the invariant *)

Rows == [migrations : SUBSET Versions, version : 0..Latest]
BootSteps == {"off", "ensure", "read", "next", "script", "record", "commit", "services", "up", "failed"}
BootRecords ==
  [step : BootSteps, applied : SUBSET Versions, version : 1..Latest + 1, at : Nat \ {0}]

SchemaTyped ==
  /\ tables \subseteq AllTables
  /\ stored \in Rows /\ written \in Rows
  /\ writer \in Processes \cup {Nobody}
  /\ boot \in [Processes -> BootRecords]
  /\ why \in [Processes -> {"none", "recorded", "missing", "error"}]
  /\ boots \in Nat /\ errors \in Nat /\ kills \in Nat

\* The lock: a transaction adds to what is stored, and only a boot between two statements of
\* the loop, or at its end, has one.
LockInv ==
  /\ writer = Nobody => written = stored
  /\ stored.migrations \subseteq written.migrations
  /\ written.version \in {stored.version, Latest}
  /\ writer # Nobody => boot[writer].step \in {"next", "commit"}

\* What a boot has done: the versions before the one it has come to are recorded, for
\* itself at least, and the tables before the statement it has come to exist.
Seen(p) == IF writer = p THEN written.migrations ELSE stored.migrations

DoneInv(p) ==
  /\ boot[p].step \in {"ensure", "read"} => boot[p].version = 1
  /\ boot[p].step \in {"next", "script", "record", "commit"} =>
       /\ boot[p].applied \subseteq stored.migrations
       /\ \A v \in Versions : v < boot[p].version => v \in Seen(p)
  /\ boot[p].step \in {"script", "record"} => boot[p].version \in Versions \ boot[p].applied
  /\ boot[p].step = "script" =>
       /\ boot[p].at <= Len(Script[boot[p].version])
       /\ \A i \in 1..(boot[p].at - 1) : Script[boot[p].version][i] \in tables
  /\ boot[p].step = "record" => TablesOf(boot[p].version) \subseteq tables
  /\ boot[p].step = "commit" => writer = p /\ written.version = Latest /\ Versions \subseteq written.migrations

WhyInv(p) ==
  /\ why[p] # "none" => boot[p].step \in {"off", "failed"}
  /\ why[p] # "missing"
  /\ why[p] = "recorded" => boot[p].version \in stored.migrations \ boot[p].applied

SchemaInv ==
  /\ SchemaTyped /\ LockInv /\ RecordedIsWhole /\ UpIsMigrated
  /\ \A p \in Processes : DoneInv(p) /\ WhyInv(p)
-----------------------------------------------------------------------------
(* The schema: steps *)

\* A step of p that takes nothing from the others: tables and records only grow, and the
\* transaction of another process stays as it is.
Grows(p) ==
  /\ tables \subseteq tables' /\ stored.migrations \subseteq stored'.migrations
  /\ stored' \in {stored, written}
  /\ \A q \in Processes \ {p} :
       /\ boot'[q] = boot[q] /\ why'[q] = why[q]
       /\ writer = q => writer' = q /\ written' = written
       /\ writer' = q => writer = q

Up(q) ==
  boot[q].step \in {"services", "up"} =>
    TablesUpTo(Latest) \subseteq tables /\ stored = [migrations |-> Versions, version |-> Latest]

Own(p) == DoneInv(p) /\ WhyInv(p) /\ Up(p)

LEMMA OthersKeep ==
  ASSUME SchemaInv, NEW p \in Processes, Grows(p), SchemaTyped'
  PROVE  \A q \in Processes \ {p} : Own(q)'
<1> SUFFICES ASSUME NEW q \in Processes \ {p} PROVE Own(q)'
  OBVIOUS
<1>1. DoneInv(q) /\ WhyInv(q) /\ Up(q)
  BY DEF SchemaInv, UpIsMigrated, Up
<1>2. boot'[q] = boot[q] /\ why'[q] = why[q] /\ tables \subseteq tables'
  BY DEF Grows
<1>3. Seen(q) \subseteq Seen(q)'
  BY DEF Grows, Seen
<1>4. stored.migrations \subseteq stored'.migrations
  BY DEF Grows
<1>5. writer = q => writer' = q /\ written' = written
  BY DEF Grows
<1>6. DoneInv(q)'
  BY <1>1, <1>2, <1>3, <1>4, <1>5 DEF DoneInv
<1>7. WhyInv(q)'
  BY <1>1, <1>2, <1>4 DEF WhyInv
<1>8. Up(q)'
  <2>1. ASSUME stored = [migrations |-> Versions, version |-> Latest] PROVE stored' = stored
    <3>1. stored' \in {stored, written} /\ written \in Rows /\ written.version = Latest
          /\ Versions \subseteq written.migrations
      BY <2>1 DEF Grows, SchemaInv, SchemaTyped, LockInv
    <3>2. written = [migrations |-> Versions, version |-> Latest]
      BY <3>1 DEF Rows
    <3> QED BY <2>1, <3>1, <3>2
  <2> QED BY <1>1, <1>2, <2>1 DEF Up
<1> QED BY <1>6, <1>7, <1>8 DEF Own

\* What is left to show of a step of p.
LEMMA StepKeeps ==
  ASSUME SchemaInv, NEW p \in Processes, Grows(p), SchemaTyped', LockInv', RecordedIsWhole', Own(p)'
  PROVE  SchemaInv'
<1>1. \A q \in Processes : Own(q)'
  BY OthersKeep
<1> QED BY <1>1 DEF SchemaInv, Own, Up, UpIsMigrated

\* Rows that are stored or written already are whole, and stay so with more tables.
LEMMA OldRows ==
  ASSUME RecordedIsWhole, tables \subseteq tables', {stored', written'} \subseteq {stored, written}
  PROVE  RecordedIsWhole'
BY DEF RecordedIsWhole

LEMMA Rolled ==
  ASSUME SchemaInv, NEW p \in Processes, Rollback(p), UNCHANGED <<tables, stored>>,
         \A q \in Processes \ {p} : boot'[q] = boot[q] /\ why'[q] = why[q]
  PROVE  Grows(p) /\ LockInv' /\ RecordedIsWhole' /\ written' \in Rows /\ writer' \in Processes \cup {Nobody}
<1>1. Nobody \notin Processes
  BY SchemaAssumption DEF Processes
<1>2. writer' # p /\ writer' \in {writer, Nobody} /\ written' \in {stored, written}
  BY <1>1 DEF Rollback
<1>3. Grows(p)
  BY <1>1 DEF Rollback, Grows
<1>4. LockInv'
  BY <1>1, <1>2 DEF Rollback, LockInv, SchemaInv, SchemaTyped
<1> QED BY <1>2, <1>3, <1>4, OldRows DEF SchemaInv, SchemaTyped

LEMMA Committed ==
  ASSUME SchemaInv, NEW p \in Processes, Commit(p), UNCHANGED tables,
         \A q \in Processes \ {p} : boot'[q] = boot[q] /\ why'[q] = why[q]
  PROVE  /\ Grows(p) /\ LockInv' /\ RecordedIsWhole' /\ writer' # p
         /\ stored' \in Rows /\ written' \in Rows /\ writer' \in Processes \cup {Nobody}
         /\ Seen(p) = stored'.migrations
<1>1. Nobody \notin Processes
  BY SchemaAssumption DEF Processes
<1>2. writer' # p /\ writer' \in {writer, Nobody} /\ {stored', written'} \subseteq {stored, written}
  BY <1>1 DEF Commit
<1>3. Grows(p)
  BY <1>1 DEF Commit, Grows, SchemaInv, LockInv
<1>4. LockInv'
  BY <1>1, <1>2 DEF Commit, LockInv, SchemaInv, SchemaTyped
<1>5. Seen(p) = stored'.migrations
  BY DEF Commit, Seen
<1> QED BY <1>2, <1>3, <1>4, <1>5, OldRows DEF SchemaInv, SchemaTyped

\* p inserts: what it writes must be whole.
LEMMA Inserted ==
  ASSUME SchemaInv, NEW p \in Processes, NEW rows \in Rows, Inserts(p, rows), UNCHANGED <<tables, stored>>,
         \A q \in Processes \ {p} : boot'[q] = boot[q] /\ why'[q] = why[q],
         boot'[p].step \in {"next", "commit"},
         Seen(p) \subseteq rows.migrations, rows.version \in {stored.version, Latest},
         \A v \in rows.migrations : TablesOf(v) \subseteq tables,
         1..rows.version \subseteq rows.migrations
  PROVE  /\ Grows(p) /\ LockInv' /\ RecordedIsWhole'
         /\ written' = rows /\ writer' = p
<1>1. Nobody \notin Processes
  BY SchemaAssumption DEF Processes
<1>2. stored.migrations \subseteq Seen(p)
  BY DEF SchemaInv, LockInv, Seen
<1>3. Grows(p)
  BY <1>1 DEF Inserts, Grows
<1>4. LockInv'
  BY <1>1, <1>2 DEF Inserts, LockInv
<1>5. RecordedIsWhole'
  BY DEF Inserts, RecordedIsWhole, SchemaInv
<1> QED BY <1>3, <1>4, <1>5 DEF Inserts

LEMMA Created ==
  ASSUME SchemaInv, NEW p \in Processes, NEW t \in AllTables, Creates(t),
         \A q \in Processes \ {p} : boot'[q] = boot[q] /\ why'[q] = why[q],
         boot[p].step \notin {"next", "commit"}
  PROVE  /\ Grows(p) /\ LockInv' /\ RecordedIsWhole' /\ tables' \subseteq AllTables
         /\ t \in tables' /\ writer' # p
<1>1. Nobody \notin Processes
  BY SchemaAssumption DEF Processes
<1>2. writer # p
  BY <1>1 DEF SchemaInv, LockInv
<1>3. Grows(p)
  BY DEF Creates, Grows
<1>4. LockInv'
  BY <1>1, <1>2 DEF Creates, LockInv, SchemaInv, SchemaTyped
<1> QED BY <1>2, <1>3, <1>4, OldRows DEF Creates, SchemaInv, SchemaTyped

\* A boot starts.
LEMMA BeginsKeeps ==
  ASSUME SchemaInv, NEW p \in Processes, Begins(p), boots' \in Nat,
         boot[p].step \in {"off", "failed", "up"}
  PROVE  SchemaInv'
<1>1. /\ boot'[p] = [step |-> "ensure", applied |-> {}, version |-> 1, at |-> 1] /\ why'[p] = "none"
      /\ \A q \in Processes \ {p} : boot'[q] = boot[q] /\ why'[q] = why[q]
      /\ UNCHANGED database
  BY DEF Begins, SchemaInv, SchemaTyped
<1>2. SchemaTyped'
  <2>1. [step |-> "ensure", applied |-> {}, version |-> 1, at |-> 1] \in BootRecords
    BY Scripts DEF BootRecords, BootSteps
  <2> QED BY <2>1 DEF Begins, database, SchemaInv, SchemaTyped
<1>3. writer # p
  BY SchemaAssumption DEF Processes, SchemaInv, LockInv
<1>4. Grows(p)
  BY <1>1 DEF database, Grows
<1>5. LockInv' /\ RecordedIsWhole'
  BY <1>1, <1>3 DEF database, LockInv, RecordedIsWhole, SchemaInv, SchemaTyped
<1>6. Own(p)'
  BY <1>1 DEF Own, DoneInv, WhyInv, Up
<1> QED BY <1>2, <1>4, <1>5, <1>6, StepKeeps

\* A boot fails, or a process is killed.
LEMMA FailKeeps ==
  ASSUME SchemaInv, NEW p \in Processes, NEW step \in {"off", "failed"}, Moves(p, step),
         Rollback(p), UNCHANGED <<tables, stored>>,
         boots' \in Nat, errors' \in Nat, kills' \in Nat,
         NEW reason \in {"none", "recorded", "error"}, why' = [why EXCEPT ![p] = reason],
         reason = "recorded" => boot[p].version \in stored.migrations \ boot[p].applied
  PROVE  SchemaInv'
<1>1. /\ boot'[p] = [boot[p] EXCEPT !.step = step] /\ why'[p] = reason
      /\ \A q \in Processes \ {p} : boot'[q] = boot[q] /\ why'[q] = why[q]
  BY DEF Moves, SchemaInv, SchemaTyped
<1>2. /\ Grows(p) /\ LockInv' /\ RecordedIsWhole'
      /\ written' \in Rows /\ writer' \in Processes \cup {Nobody}
  BY <1>1, Rolled
<1>3. SchemaTyped'
  <2>1. boot[p] \in BootRecords /\ step \in BootSteps
    BY DEF SchemaInv, SchemaTyped, BootSteps
  <2>2. boot' \in [Processes -> BootRecords]
    BY <2>1 DEF Moves, SchemaInv, SchemaTyped, BootRecords
  <2> QED BY <1>2, <2>2 DEF SchemaInv, SchemaTyped
<1>4. /\ boot'[p].step = step /\ boot'[p].version = boot[p].version
      /\ boot'[p].applied = boot[p].applied
  BY <1>1 DEF SchemaInv, SchemaTyped, BootRecords
<1>5. Own(p)'
  BY <1>1, <1>4 DEF Own, DoneInv, WhyInv, Up
<1> QED BY <1>2, <1>3, <1>5, StepKeeps

LEMMA EnsureKeeps ==
  ASSUME SchemaInv, NEW p \in Processes, EnsureMigrationTable(p), UNCHANGED <<boots, errors, kills>>
  PROVE  SchemaInv'
<1>1. /\ boot'[p] = [boot[p] EXCEPT !.step = "read"] /\ boot[p] \in BootRecords
      /\ boot[p].step = "ensure" /\ why[p] = "none"
      /\ \A q \in Processes \ {p} : boot'[q] = boot[q] /\ why'[q] = why[q]
  BY DEF EnsureMigrationTable, On, Moves, SchemaInv, SchemaTyped, WhyInv
<1>2. /\ Grows(p) /\ LockInv' /\ RecordedIsWhole' /\ tables' \subseteq AllTables
  BY <1>1, Created DEF EnsureMigrationTable, AllTables
<1>3. SchemaTyped'
  <2>1. boot' \in [Processes -> BootRecords]
    BY <1>1 DEF EnsureMigrationTable, Moves, SchemaInv, SchemaTyped, BootRecords, BootSteps
  <2> QED BY <1>2, <2>1 DEF EnsureMigrationTable, Creates, SchemaInv, SchemaTyped
<1>4. boot'[p].step = "read" /\ boot'[p].version = 1 /\ why'[p] = "none"
  BY <1>1 DEF EnsureMigrationTable, BootRecords, SchemaInv, DoneInv
<1>5. Own(p)'
  BY <1>4 DEF Own, DoneInv, WhyInv, Up
<1> QED BY <1>2, <1>3, <1>5, StepKeeps

\* A step that touches nothing but the record of p.
LEMMA QuietKeeps ==
  ASSUME SchemaInv, NEW p \in Processes, UNCHANGED <<database, why>>, UNCHANGED <<boots, errors, kills>>,
         NEW r \in BootRecords, boot' = [boot EXCEPT ![p] = r], Own(p)',
         writer = p => r.step \in {"next", "commit"}
  PROVE  SchemaInv'
<1>1. boot'[p] = r /\ \A q \in Processes \ {p} : boot'[q] = boot[q] /\ why'[q] = why[q]
  BY DEF SchemaInv, SchemaTyped
<1>2. Grows(p) /\ RecordedIsWhole'
  BY <1>1 DEF database, Grows, RecordedIsWhole, SchemaInv
<1>3. LockInv'
  BY <1>1 DEF database, LockInv, SchemaInv, SchemaTyped
<1>4. SchemaTyped'
  BY DEF database, SchemaInv, SchemaTyped
<1> QED BY <1>2, <1>3, <1>4, StepKeeps

LEMMA ReadKeeps ==
  ASSUME SchemaInv, NEW p \in Processes, AppliedMigrations(p), UNCHANGED <<boots, errors, kills>>
  PROVE  SchemaInv'
<1> DEFINE r == [boot[p] EXCEPT !.step = "next", !.applied = stored.migrations]
<1>1. /\ boot' = [boot EXCEPT ![p] = r] /\ boot[p].step = "read" /\ boot[p].version = 1
      /\ why[p] = "none" /\ boot[p] \in BootRecords
  BY DEF AppliedMigrations, On, SchemaInv, SchemaTyped, WhyInv, DoneInv
<1>2. /\ r.step = "next" /\ r.applied = stored.migrations /\ r.version = 1
      /\ r \in BootRecords
  BY <1>1 DEF BootRecords, BootSteps, SchemaInv, SchemaTyped, Rows
<1> HIDE DEF r
<1>3. boot'[p] = r /\ UNCHANGED <<database, why>>
  BY <1>1 DEF AppliedMigrations, SchemaInv, SchemaTyped
<1>4. Own(p)'
  BY <1>1, <1>2, <1>3, Scripts DEF Own, DoneInv, WhyInv, Up, database
<1> QED BY <1>1, <1>2, <1>3, <1>4, QuietKeeps

LEMMA PassKeeps ==
  ASSUME SchemaInv, NEW p \in Processes, PassOver(p), UNCHANGED <<boots, errors, kills>>
  PROVE  SchemaInv'
<1> DEFINE r == [boot[p] EXCEPT !.version = boot[p].version + 1]
<1>1. /\ boot' = [boot EXCEPT ![p] = r] /\ boot[p].step = "next" /\ boot[p].version \in boot[p].applied
      /\ why[p] = "none" /\ boot[p] \in BootRecords
  BY DEF PassOver, On, SchemaInv, SchemaTyped, WhyInv
<1>2. boot[p].applied \subseteq stored.migrations /\ stored.migrations \subseteq Seen(p)
      /\ \A v \in Versions : v < boot[p].version => v \in Seen(p)
  BY <1>1 DEF SchemaInv, DoneInv, LockInv, Seen
<1>3. /\ r.step = "next" /\ r.applied = boot[p].applied /\ r.version = boot[p].version + 1
      /\ r \in BootRecords
  <2>1. boot[p].version + 1 \in 1..Latest + 1
    BY <1>1, Scripts DEF BootRecords
  <2> QED BY <1>1, <2>1 DEF BootRecords
<1>4. \A v \in Versions : v < r.version => v \in Seen(p)
  BY <1>1, <1>2, <1>3, Scripts DEF BootRecords
<1> HIDE DEF r
<1>5. boot'[p] = r /\ UNCHANGED <<database, why>>
  BY <1>1 DEF PassOver, SchemaInv, SchemaTyped
<1>6. Own(p)'
  BY <1>1, <1>2, <1>3, <1>4, <1>5 DEF Own, DoneInv, WhyInv, Up, database, Seen
<1> QED BY <1>1, <1>3, <1>5, <1>6, QuietKeeps

LEMMA ApplyKeeps ==
  ASSUME SchemaInv, NEW p \in Processes, Apply(p), UNCHANGED <<boots, errors, kills>>
  PROVE  SchemaInv'
<1> DEFINE r == [boot[p] EXCEPT !.step = "script", !.at = 1]
<1>1. /\ boot' = [boot EXCEPT ![p] = r] /\ boot[p].step = "next"
      /\ boot[p].version \in Versions \ boot[p].applied
      /\ why[p] = "none" /\ boot[p] \in BootRecords
  BY DEF Apply, On, SchemaInv, SchemaTyped, WhyInv
<1>2. /\ r.step = "script" /\ r.applied = boot[p].applied /\ r.version = boot[p].version
      /\ r.at = 1 /\ r \in BootRecords
  <2>1. "script" \in BootSteps /\ 1 \in Nat \ {0}
    BY DEF BootSteps
  <2> QED BY <1>1, <2>1 DEF BootRecords
<1> HIDE DEF r
<1>3. /\ boot'[p] = r /\ UNCHANGED <<tables, why>>
      /\ \A q \in Processes \ {p} : boot'[q] = boot[q] /\ why'[q] = why[q]
  BY <1>1 DEF Apply, SchemaInv, SchemaTyped
<1>4. /\ Grows(p) /\ LockInv' /\ RecordedIsWhole' /\ writer' # p
      /\ stored' \in Rows /\ written' \in Rows /\ writer' \in Processes \cup {Nobody}
      /\ Seen(p) = stored'.migrations
  BY <1>3, Committed DEF Apply
<1>5. SchemaTyped'
  BY <1>1, <1>2, <1>3, <1>4 DEF SchemaInv, SchemaTyped
<1>6. /\ boot[p].applied \subseteq stored'.migrations
      /\ \A v \in Versions : v < boot[p].version => v \in Seen(p)
  BY <1>1, <1>4 DEF SchemaInv, DoneInv, Grows
<1>7. Own(p)'
  <2>1. Seen(p)' = stored'.migrations
    BY <1>4 DEF Seen
  <2>2. DoneInv(p)'
    BY <1>1, <1>2, <1>3, <1>4, <1>6, <2>1, Scripts DEF DoneInv
  <2> QED BY <1>1, <1>2, <1>3, <2>2 DEF Own, WhyInv, Up
<1> QED BY <1>4, <1>5, <1>7, StepKeeps

LEMMA RunKeeps ==
  ASSUME SchemaInv, NEW p \in Processes, RunScript(p), UNCHANGED <<boots, errors, kills>>
  PROVE  SchemaInv'
<1> DEFINE v == boot[p].version
           n == Len(Script[v])
           t == Script[v][boot[p].at]
           r == IF boot[p].at < n THEN [boot[p] EXCEPT !.at = boot[p].at + 1]
                                  ELSE [boot[p] EXCEPT !.step = "record"]
<1>1. /\ boot' = [boot EXCEPT ![p] = r] /\ boot[p].step = "script"
      /\ why[p] = "none" /\ boot[p] \in BootRecords /\ UNCHANGED why /\ Creates(t)
  BY DEF RunScript, On, SchemaInv, SchemaTyped, WhyInv
<1>2. /\ v \in Versions \ boot[p].applied /\ boot[p].at \in 1..n /\ n \in Nat \ {0}
      /\ \A i \in 1..(boot[p].at - 1) : Script[v][i] \in tables
      /\ boot[p].applied \subseteq stored.migrations
      /\ \A u \in Versions : u < v => u \in Seen(p)
  BY <1>1, Scripts DEF SchemaInv, DoneInv, BootRecords
<1>3. t \in TablesOf(v) /\ t \in AllTables
  <2>1. t \in TablesOf(v) /\ v \in Versions
    BY <1>2, Scripts
  <2> QED BY <2>1, Whole DEF AllTables
<1>4. /\ r \in BootRecords /\ r.applied = boot[p].applied /\ r.version = v
      /\ \/ r.step = "script" /\ boot[p].at < n /\ r.at = boot[p].at + 1
         \/ r.step = "record" /\ boot[p].at = n
  BY <1>1, <1>2 DEF BootRecords, BootSteps
<1>5. TablesOf(v) = {Script[v][i] : i \in 1..n}
  BY <1>2, Scripts
<1> HIDE DEF r, t, n
<1>6. /\ boot'[p] = r
      /\ \A q \in Processes \ {p} : boot'[q] = boot[q] /\ why'[q] = why[q]
  BY <1>1 DEF SchemaInv, SchemaTyped
<1>7. /\ Grows(p) /\ LockInv' /\ RecordedIsWhole' /\ tables' \subseteq AllTables
      /\ t \in tables' /\ writer' # p
  BY <1>1, <1>3, <1>6, Created
<1>8. UNCHANGED <<stored, writer, written>>
  BY <1>1 DEF Creates
<1>9. SchemaTyped'
  BY <1>1, <1>4, <1>7, <1>8 DEF SchemaInv, SchemaTyped
<1>10. \A i \in 1..boot[p].at : Script[v][i] \in tables'
  <2> SUFFICES ASSUME NEW i \in 1..boot[p].at PROVE Script[v][i] \in tables'
    OBVIOUS
  <2>1. CASE i = boot[p].at
    BY <1>7, <2>1 DEF t
  <2>2. CASE i # boot[p].at
    BY <1>2, <1>7, <2>2 DEF Grows
  <2> QED BY <2>1, <2>2
<1>11. DoneInv(p)'
  <2>1. Seen(p)' = Seen(p)
    BY <1>8 DEF Seen
  <2>2. CASE r.step = "script"
    <3>1. r.at = boot[p].at + 1 /\ r.at <= n /\ \A i \in 1..(r.at - 1) : Script[v][i] \in tables'
      BY <1>2, <1>4, <1>10, <2>2
    <3>2. n = Len(Script[r.version]) /\ Script[r.version] = Script[v]
      BY <1>4 DEF n
    <3> HIDE DEF v
    <3> QED BY <1>2, <1>4, <1>6, <1>8, <2>1, <2>2, <3>1, <3>2 DEF DoneInv
  <2>3. CASE r.step = "record"
    <3>1. TablesOf(v) \subseteq tables'
      BY <1>2, <1>4, <1>5, <1>10, <2>3
    <3> HIDE DEF v
    <3> QED BY <1>2, <1>4, <1>6, <1>8, <2>1, <2>3, <3>1 DEF DoneInv
  <2> QED BY <1>4, <2>2, <2>3
<1>12. Own(p)'
  BY <1>1, <1>4, <1>6, <1>11 DEF Own, WhyInv, Up
<1> QED BY <1>7, <1>9, <1>12, StepKeeps

LEMMA RecordKeeps ==
  ASSUME SchemaInv, NEW p \in Processes, RecordMigration(p), UNCHANGED <<boots, errors, kills>>
  PROVE  SchemaInv'
<1> DEFINE v == boot[p].version
           rows == [stored EXCEPT !.migrations = stored.migrations \cup {v}]
           r == [boot[p] EXCEPT !.step = "next", !.version = v + 1]
<1>1. /\ boot[p].step = "record" /\ why[p] = "none" /\ boot[p] \in BootRecords /\ writer = Nobody
      /\ v \in Versions \ boot[p].applied /\ TablesOf(v) \subseteq tables
      /\ boot[p].applied \subseteq stored.migrations
      /\ stored \in Rows /\ boots \in Nat /\ errors \in Nat /\ kills \in Nat
  BY DEF RecordMigration, On, SchemaInv, SchemaTyped, WhyInv, DoneInv
<1>2. CASE v \in stored.migrations
  <2>1. Fails(p, "recorded")
    BY <1>2 DEF RecordMigration
  <2> QED BY <1>1, <1>2, <2>1, FailKeeps DEF Fails
<1>3. CASE v \notin stored.migrations
  <2>1. /\ Inserts(p, rows) /\ boot' = [boot EXCEPT ![p] = r] /\ UNCHANGED <<tables, stored, why>>
    BY <1>3 DEF RecordMigration
  <2>2. Seen(p) = stored.migrations
    BY <1>1, SchemaAssumption DEF Seen, Processes
  <2>3. /\ rows \in Rows /\ rows.migrations = stored.migrations \cup {v} /\ rows.version = stored.version
    BY <1>1 DEF Rows
  <2>4. r \in BootRecords /\ r.step = "next" /\ r.version = v + 1 /\ r.applied = boot[p].applied
    <3>1. v + 1 \in 1..Latest + 1 /\ "next" \in BootSteps
      BY <1>1, Scripts DEF BootSteps
    <3> QED BY <1>1, <3>1 DEF BootRecords
  <2>5. \A u \in Versions : u < v => u \in stored.migrations
    BY <1>1, <2>2 DEF SchemaInv, DoneInv
  <2>6. /\ \A u \in rows.migrations : TablesOf(u) \subseteq tables
        /\ 1..rows.version \subseteq rows.migrations
    BY <1>1, <2>3 DEF SchemaInv, RecordedIsWhole
  <2> HIDE DEF r, rows
  <2>7. /\ boot'[p] = r
        /\ \A q \in Processes \ {p} : boot'[q] = boot[q] /\ why'[q] = why[q]
    BY <2>1 DEF SchemaInv, SchemaTyped
  <2>8. Grows(p) /\ LockInv' /\ RecordedIsWhole' /\ written' = rows /\ writer' = p
    BY <2>1, <2>2, <2>3, <2>4, <2>6, <2>7, Inserted
  <2>9. SchemaTyped'
    BY <2>1, <2>3, <2>4, <2>8 DEF SchemaInv, SchemaTyped
  <2>10. \A u \in Versions : u < r.version => u \in rows.migrations
    BY <1>1, <2>3, <2>4, <2>5, Scripts
  <2>11. Own(p)'
    <3>1. Seen(p)' = rows.migrations
      BY <2>8 DEF Seen
    <3> QED BY <1>1, <2>1, <2>4, <2>7, <2>10, <3>1 DEF Own, DoneInv, WhyInv, Up
  <2> QED BY <2>8, <2>9, <2>11, StepKeeps
<1> QED BY <1>2, <1>3

LEMMA SetKeeps ==
  ASSUME SchemaInv, NEW p \in Processes, SetVersion(p), UNCHANGED <<boots, errors, kills>>
  PROVE  SchemaInv'
<1> DEFINE base == IF writer = p THEN written ELSE stored
           rows == [base EXCEPT !.version = Latest]
           r == [boot[p] EXCEPT !.step = "commit"]
<1>1. /\ boot[p].step = "next" /\ boot[p].version = Latest + 1 /\ boot[p] \in BootRecords
      /\ why[p] = "none" /\ boot[p].applied \subseteq stored.migrations
  BY DEF SetVersion, On, SchemaInv, SchemaTyped, WhyInv, DoneInv
<1>2. base \in {stored, written} /\ base \in Rows /\ Seen(p) = base.migrations
  BY DEF SchemaInv, SchemaTyped, Seen
<1>3. Versions \subseteq base.migrations
  <2>1. \A v \in Versions : v < Latest + 1
    BY Scripts
  <2> QED BY <1>1, <1>2, <2>1 DEF SchemaInv, DoneInv
<1>4. \A v \in Versions : TablesOf(v) \subseteq tables
  BY <1>2, <1>3 DEF SchemaInv, RecordedIsWhole
<1>5. "application_state" \in tables
  BY <1>4, Scripts
<1>6. Inserts(p, rows) /\ boot' = [boot EXCEPT ![p] = r] /\ UNCHANGED <<tables, stored, why>>
  BY <1>5 DEF SetVersion, Moves
<1>7. rows \in Rows /\ rows.migrations = base.migrations /\ rows.version = Latest
  BY <1>2, Scripts DEF Rows
<1>8. r \in BootRecords /\ r.step = "commit" /\ r.version = Latest + 1 /\ r.applied = boot[p].applied
  BY <1>1 DEF BootRecords, BootSteps
<1>9. /\ \A v \in rows.migrations : TablesOf(v) \subseteq tables
      /\ 1..rows.version \subseteq rows.migrations
  <2>1. rows.migrations \subseteq Versions /\ 1..Latest = Versions
    BY <1>7 DEF Rows, Versions
  <2> QED BY <1>3, <1>4, <1>7, <2>1
<1> HIDE DEF r, rows, base
<1>10. /\ boot'[p] = r
       /\ \A q \in Processes \ {p} : boot'[q] = boot[q] /\ why'[q] = why[q]
  BY <1>6 DEF SchemaInv, SchemaTyped
<1>11. Grows(p) /\ LockInv' /\ RecordedIsWhole' /\ written' = rows /\ writer' = p
  BY <1>2, <1>6, <1>7, <1>8, <1>9, <1>10, Inserted
<1>12. SchemaTyped'
  BY <1>6, <1>7, <1>8, <1>11 DEF SchemaInv, SchemaTyped
<1>13. Own(p)'
  <2>1. Seen(p)' = rows.migrations
    BY <1>11 DEF Seen
  <2> QED BY <1>1, <1>3, <1>6, <1>7, <1>8, <1>10, <1>11, <2>1 DEF Own, DoneInv, WhyInv, Up
<1> QED BY <1>11, <1>12, <1>13, StepKeeps

LEMMA EndsKeeps ==
  ASSUME SchemaInv, NEW p \in Processes, Ends(p), UNCHANGED <<boots, errors, kills>>
  PROVE  SchemaInv'
<1> DEFINE r == [boot[p] EXCEPT !.step = "services"]
<1>1. /\ boot' = [boot EXCEPT ![p] = r] /\ boot[p].step = "commit" /\ why[p] = "none"
      /\ boot[p] \in BootRecords /\ writer = p /\ written.version = Latest
      /\ Versions \subseteq written.migrations /\ UNCHANGED <<tables, why>>
  BY DEF Ends, On, Moves, SchemaInv, SchemaTyped, WhyInv, DoneInv
<1>2. r \in BootRecords /\ r.step = "services" /\ r.version = boot[p].version
  BY <1>1 DEF BootRecords, BootSteps
<1>3. /\ boot'[p] = [boot[p] EXCEPT !.step = "services"]
      /\ \A q \in Processes \ {p} : boot'[q] = boot[q] /\ why'[q] = why[q]
  BY <1>1 DEF SchemaInv, SchemaTyped
<1> HIDE DEF r
<1>4. /\ Grows(p) /\ LockInv' /\ RecordedIsWhole' /\ writer' # p
      /\ stored' \in Rows /\ written' \in Rows /\ writer' \in Processes \cup {Nobody}
  BY <1>1, <1>3, Committed DEF Ends
<1>5. SchemaTyped'
  BY <1>1, <1>2, <1>4 DEF SchemaInv, SchemaTyped
<1>6. stored' = [migrations |-> Versions, version |-> Latest]
  <2>1. stored' = written /\ written \in Rows
    BY <1>1 DEF Ends, Commit, SchemaInv, SchemaTyped
  <2> QED BY <1>1, <2>1 DEF Rows
<1>7. TablesUpTo(Latest) \subseteq tables'
  <2>1. \A v \in Versions : TablesOf(v) \subseteq tables
    BY <1>1 DEF SchemaInv, RecordedIsWhole
  <2> QED BY <1>1, <2>1, Whole
<1>8. Own(p)'
  <2>1. boot'[p].step = "services"
    BY <1>1, <1>3 DEF BootRecords
  <2> QED BY <1>1, <1>6, <1>7, <2>1 DEF Own, DoneInv, WhyInv, Up
<1> QED BY <1>4, <1>5, <1>8, StepKeeps

LEMMA ServicesKeep ==
  ASSUME SchemaInv, NEW p \in Processes, BuildServices(p), UNCHANGED <<boots, errors, kills>>
  PROVE  SchemaInv'
<1> DEFINE r == [boot[p] EXCEPT !.step = "up"]
<1>1. boot[p].step = "services" /\ why[p] = "none" /\ boot[p] \in BootRecords /\ Up(p)
  BY DEF BuildServices, On, SchemaInv, SchemaTyped, WhyInv, UpIsMigrated, Up
<1>2. Asked(p) \subseteq tables
  <2>1. TablesOf(1) \subseteq tables /\ TablesOf(2) \subseteq tables
    BY <1>1, Scripts, Whole DEF Up
  <2> QED BY <2>1, Scripts DEF Asked
<1>3. boot' = [boot EXCEPT ![p] = r] /\ UNCHANGED <<database, why>>
  BY <1>2 DEF BuildServices, Moves
<1>4. r \in BootRecords /\ r.step = "up"
  BY <1>1 DEF BootRecords, BootSteps
<1> HIDE DEF r
<1>5. boot'[p] = r
  BY <1>3 DEF SchemaInv, SchemaTyped
<1>6. Own(p)'
  BY <1>1, <1>3, <1>4, <1>5 DEF Own, DoneInv, WhyInv, Up, database
<1>7. writer # p
  BY <1>1, SchemaAssumption DEF Processes, SchemaInv, LockInv
<1> QED BY <1>3, <1>4, <1>6, <1>7, QuietKeeps

LEMMA SchemaStep ==
  ASSUME SchemaInv, [SchemaNext]_schemaVars
  PROVE  SchemaInv'
<1>1. CASE UNCHANGED schemaVars
  BY <1>1 DEF schemaVars, database, SchemaInv, SchemaTyped, LockInv, RecordedIsWhole, UpIsMigrated,
       DoneInv, WhyInv, Seen
<1>2. ASSUME NEW p \in Processes, Restarts(p) \/ Boots(p) \/ Initialize(p) \/ Broken(p) \/ Killed(p)
      PROVE  SchemaInv'
  <2>1. boots \in Nat /\ errors \in Nat /\ kills \in Nat
    BY DEF SchemaInv, SchemaTyped
  <2>2. CASE Restarts(p)
    BY <2>1, <2>2, BeginsKeeps DEF Restarts
  <2>3. CASE Boots(p)
    BY <2>1, <2>3, BeginsKeeps DEF Boots, On
  <2>4. CASE Initialize(p)
    BY <2>4, EnsureKeeps, ReadKeeps, PassKeeps, ApplyKeeps, RunKeeps, RecordKeeps, SetKeeps, EndsKeeps,
       ServicesKeep DEF Initialize
  <2>5. CASE Broken(p)
    <3>1. /\ Moves(p, "failed") /\ why' = [why EXCEPT ![p] = "error"]
          /\ Rollback(p) /\ UNCHANGED <<tables, stored>>
          /\ boots' \in Nat /\ errors' \in Nat /\ kills' \in Nat
      BY <2>1, <2>5 DEF Broken, Fails
    <3> QED BY <3>1, FailKeeps
  <2>6. CASE Killed(p)
    <3>1. why' = [why EXCEPT ![p] = why[p]] /\ why[p] \in {"none", "recorded", "error"}
      BY <2>6 DEF Killed, SchemaInv, SchemaTyped, WhyInv
    <3>2. why[p] = "recorded" => boot[p].version \in stored.migrations \ boot[p].applied
      BY DEF SchemaInv, WhyInv
    <3>3. /\ Moves(p, "off") /\ Rollback(p) /\ UNCHANGED <<tables, stored>>
          /\ boots' \in Nat /\ errors' \in Nat /\ kills' \in Nat
      BY <2>1, <2>6 DEF Killed
    <3> QED BY <3>1, <3>2, <3>3, FailKeeps
  <2> QED BY <1>2, <2>2, <2>3, <2>4, <2>5, <2>6
<1> QED BY <1>1, <1>2 DEF SchemaNext

LEMMA SchemaStart ==
  ASSUME SchemaInit
  PROVE  SchemaInv
<1>1. PICK v \in 0..Latest :
        /\ tables = IF v = 0 THEN {} ELSE {"schema_migrations"} \cup TablesUpTo(v)
        /\ stored = [migrations |-> 1..v, version |-> v]
  BY DEF SchemaInit
<1>2. /\ 1..v \subseteq Versions /\ stored \in Rows
      /\ stored.migrations = 1..v /\ stored.version = v
  BY <1>1, Scripts DEF Rows, Versions
<1>3. TablesUpTo(v) \subseteq TablesUpTo(Latest) /\ \A u \in 1..v : TablesOf(u) \subseteq tables
  <2>1. \A u \in 1..v : TablesOf(u) \subseteq TablesUpTo(v)
    BY DEF TablesUpTo
  <2>2. \A u \in 1..v : v # 0 /\ u \in 1..Latest
    BY <1>2 DEF Versions
  <2>3. TablesUpTo(v) \subseteq TablesUpTo(Latest)
    BY <2>2 DEF TablesUpTo
  <2> QED BY <1>1, <2>1, <2>2, <2>3
<1> DEFINE r == [step |-> "off", applied |-> {}, version |-> 1, at |-> 1]
<1>4. r \in BootRecords /\ r.step = "off"
  BY Scripts DEF BootRecords, BootSteps
<1> HIDE DEF r
<1>5. \A p \in Processes : boot[p] = r /\ why[p] = "none"
  BY DEF SchemaInit, r
<1>6. SchemaTyped
  <2>1. boot \in [Processes -> BootRecords]
    BY <1>4 DEF SchemaInit, r
  <2> QED BY <1>1, <1>2, <1>3, <2>1 DEF SchemaInit, SchemaTyped, AllTables
<1>7. LockInv /\ RecordedIsWhole
  BY <1>2, <1>3 DEF SchemaInit, LockInv, RecordedIsWhole
<1>8. UpIsMigrated /\ \A p \in Processes : DoneInv(p) /\ WhyInv(p)
  BY <1>4, <1>5 DEF UpIsMigrated, DoneInv, WhyInv
<1> QED BY <1>6, <1>7, <1>8 DEF SchemaInv

LEMMA SchemaInvariance == SchemaSpec => []SchemaInv
<1>1. SchemaInit => SchemaInv
  BY SchemaStart
<1>2. SchemaInv /\ [SchemaNext]_schemaVars => SchemaInv'
  BY SchemaStep
<1> QED BY <1>1, <1>2, PTL DEF SchemaSpec

\* Whatever processes boot at once, and wherever boots before them were killed or failed: a
\* version that schema_migrations holds has all of its tables (Database.initialize).
THEOREM RecordsAreWhole == SchemaSpec => []RecordedIsWhole
<1>1. SchemaInv => RecordedIsWhole
  BY DEF SchemaInv
<1> QED BY <1>1, SchemaInvariance, PTL

\* A process that is up works on the whole schema (Application.bootstrap).
THEOREM BootEndsMigrated == SchemaSpec => []UpIsMigrated
<1>1. SchemaInv => UpIsMigrated
  BY DEF SchemaInv
<1> QED BY <1>1, SchemaInvariance, PTL

\* A boot that no error breaks fails only when another has recorded its version first
\* (Database._record_migration).
THEOREM LosersHaveWinners == SchemaSpec => []FailureExplained
<1>1. SchemaInv => FailureExplained
  BY DEF SchemaInv, WhyInv, FailureExplained
<1> QED BY <1>1, SchemaInvariance, PTL
=============================================================================
