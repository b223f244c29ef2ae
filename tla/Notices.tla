------------------------------ MODULE Notices ------------------------------
(***************************************************************************)
(* Events inside one process: the bus (core/events.py), the audit log that *)
(* writes each event to the database in the publisher's thread             *)
(* (core/audit.py), and the notification service that hands events to a    *)
(* delivery thread through a bounded queue (core/notifications.py),        *)
(* started and stopped by the web application's lifespan (web.py).         *)
(*                                                                         *)
(* Publishers are threads; event <<p, n>> is the n-th of publisher p.  A   *)
(* delivery thread publishes Meta events about its deliveries.  One thread *)
(* object calls start() and stop(), in turn.  The audit table is its       *)
(* number of rows.  Left out: age-based purging, the bus history, filters  *)
(* of subscriptions, coroutine subscribers (there are none), what channels *)
(* exist and how they send.                                                *)
(***************************************************************************)
EXTENDS Integers, Sequences, FiniteSets

CONSTANTS
  Publishers,   \* threads that publish, beside the delivery threads
  Capacity,     \* of the notification queue (2000 in the code)
  MaxRows,      \* max_rows of the audit log (50 000)
  PurgeEvery,   \* purge_every (500)
  MaxStarts,    \* bound: calls of start()
  MaxEvents,    \* bound: events of each publisher
  MaxMetas,     \* bound: deliveries that a channel takes part in
  MaxFaults,    \* bound: database errors
  MaxRestarts,  \* bound: restarts of the process
  Sentinel, Meta, Audit

ASSUME NoticesAssumption ==
  /\ Capacity \in Nat \ {0} /\ MaxRows \in Nat /\ PurgeEvery \in Nat \ {0}
  /\ MaxStarts \in Nat /\ MaxEvents \in Nat /\ MaxMetas \in Nat
  /\ MaxFaults \in Nat /\ MaxRestarts \in Nat
  /\ IsFiniteSet(Publishers)

Generations == 1..MaxStarts     \* one delivery thread for each start()
ASSUME PublishersAssumption == Publishers \cap Generations = {}
Threads == Publishers \cup Generations
Events == Publishers \X (1..MaxEvents)

\* What is subscribed, queued and published besides is told apart.
ASSUME NamesAssumption == Audit \notin Generations /\ Events \cap {Sentinel, Meta} = {}

VARIABLES
  subs,      \* subscriptions in order: Audit, or the generation of the service
  pub,       \* what each thread publishes: step, event, subscribers still to call
  queue,     \* of events and sentinels
  token,     \* generation subscribed, 0 when stopped
  stop,      \* the stop flag
  thread,    \* the thread stop() will join, 0 for none
  deliver,   \* of each delivery thread: its step and the event in hand
  call,      \* progress of a stop() call
  published, \* how many events each publisher has published
  starts, faults, restarts, metas,
  rows,      \* rows of the audit table
  writes,    \* _writes_since_purge
  lapses,    \* history: purges that failed or were forgotten since the last that worked
  sent,      \* history: the latest event of each publisher handed to channels
  abandoned  \* history: delivery threads that stop() left without having seen their end

serviceVars == <<token, stop, thread, call, starts, abandoned>>
auditVars == <<rows, writes, lapses, faults>>
vars == <<subs, pub, queue, published, restarts, metas, sent, deliver, serviceVars, auditVars>>

Nothing == <<>>  \* no event
Quiet == [step |-> "idle", event |-> Nothing, todo |-> <<>>]
At(step, e) == [step |-> step, event |-> e]

Init ==
  /\ subs = <<Audit>>
  /\ pub = [p \in Threads |-> Quiet]
  /\ queue = <<>> /\ token = 0 /\ stop = FALSE /\ thread = 0
  /\ deliver = [g \in Generations |-> At("none", Nothing)]
  /\ call = "idle"
  /\ published = [p \in Publishers |-> 0] /\ starts = 0 /\ faults = 0 /\ restarts = 0 /\ metas = 0
  /\ rows \in 0..MaxRows /\ writes = 0 /\ lapses = 0
  /\ sent = [p \in Publishers |-> 0] /\ abandoned = {}

Elements(s) == {s[i] : i \in 1..Len(s)}
MinOf(i, j) == IF i < j THEN i ELSE j

-----------------------------------------------------------------------------
(* The bus *)

Subscribe(s) == subs' = Append(subs, s)

\* No two subscriptions have one token.
Unsubscribe(s) ==
  \E i \in 1..Len(subs) :
    subs[i] = s /\ subs' = SubSeq(subs, 1, i - 1) \o SubSeq(subs, i + 1, Len(subs))

\* publish(): the subscribers are those of this moment.
Publishes(p, e) == pub' = [pub EXCEPT ![p] = [step |-> "fan", event |-> e, todo |-> subs]]

Publish(p) ==
  /\ pub[p].step = "idle" /\ published[p] < MaxEvents
  /\ published' = [published EXCEPT ![p] = @ + 1]
  /\ Publishes(p, <<p, published[p] + 1>>)
  /\ UNCHANGED <<subs, queue, restarts, metas, sent, deliver, serviceVars, auditVars>>

\* After a call, whatever it raised, the next subscriber is called; after the last one
\* publish() returns, a delivery thread to its loop.
NextSubscriber(p) ==
  IF Len(pub[p].todo) > 1
  THEN pub' = [pub EXCEPT ![p].step = "fan", ![p].todo = Tail(@)] /\ UNCHANGED deliver
  ELSE /\ pub' = [pub EXCEPT ![p] = Quiet]
       /\ deliver' = [g \in Generations |-> IF g = p THEN At("test", Nothing) ELSE deliver[g]]

Calls(p, s) == pub[p].step = "fan" /\ Head(pub[p].todo) = s

\* NotificationService._enqueue: a full queue drops the event, Meta events are not for
\* delivery.
Enqueue(p) ==
  /\ \E g \in Generations : Calls(p, g)
  /\ queue' = IF pub[p].event # Meta /\ Len(queue) < Capacity
              THEN Append(queue, pub[p].event) ELSE queue
  /\ NextSubscriber(p)
  /\ UNCHANGED <<subs, published, restarts, metas, sent, serviceVars, auditVars>>

-----------------------------------------------------------------------------
(* The audit log *)

AddEvent == rows' = rows + 1
PurgeEvents == rows' = MinOf(rows, MaxRows)

\* An event that cannot be written is lost, and not counted.
Record(p) ==
  /\ Calls(p, Audit)
  /\ \/ AddEvent /\ pub' = [pub EXCEPT ![p].step = "count"]
        /\ UNCHANGED <<deliver, faults>>
     \/ faults < MaxFaults /\ faults' = faults + 1 /\ NextSubscriber(p) /\ UNCHANGED rows
  /\ UNCHANGED <<subs, queue, published, restarts, metas, sent, serviceVars, writes, lapses>>

\* Mutant: the count goes on after a purge is due, and the purge waits for the exact number.
Count_NoReset(p) ==
  /\ pub[p].step = "count"
  /\ writes' = writes + 1
  /\ IF writes + 1 = PurgeEvery
     THEN pub' = [pub EXCEPT ![p].step = "purge"] /\ UNCHANGED deliver
     ELSE NextSubscriber(p)
  /\ UNCHANGED <<subs, queue, published, restarts, metas, sent, serviceVars, rows, lapses, faults>>

\* Mutant: one event more than purge_every is written between purges.
Count_OneMore(p) ==
  /\ pub[p].step = "count"
  /\ IF writes < PurgeEvery
     THEN writes' = writes + 1 /\ NextSubscriber(p)
     ELSE writes' = 0 /\ pub' = [pub EXCEPT ![p].step = "purge"] /\ UNCHANGED deliver
  /\ UNCHANGED <<subs, queue, published, restarts, metas, sent, serviceVars, rows, lapses, faults>>

\* _maybe_purge: counted under the lock, purged outside it.
Count(p) ==
  /\ pub[p].step = "count"
  /\ IF writes + 1 < PurgeEvery
     THEN writes' = writes + 1 /\ NextSubscriber(p)
     ELSE writes' = 0 /\ pub' = [pub EXCEPT ![p].step = "purge"] /\ UNCHANGED deliver
  /\ UNCHANGED <<subs, queue, published, restarts, metas, sent, serviceVars, rows, lapses, faults>>

Purge(p) ==
  /\ pub[p].step = "purge"
  /\ \/ PurgeEvents /\ lapses' = 0 /\ UNCHANGED faults
     \/ faults < MaxFaults /\ faults' = faults + 1 /\ lapses' = lapses + 1 /\ UNCHANGED rows
  /\ NextSubscriber(p)
  /\ UNCHANGED <<subs, queue, published, restarts, metas, sent, serviceVars, writes>>

-----------------------------------------------------------------------------
(* The notification service *)

\* Mutant: start() is not idempotent.
Start_Twice ==
  /\ call = "idle" /\ starts < MaxStarts
  /\ starts' = starts + 1
  /\ stop' = FALSE
  /\ token' = starts + 1
  /\ Subscribe(starts + 1)
  /\ thread' = starts + 1
  /\ deliver' = [deliver EXCEPT ![starts + 1].step = "test"]
  /\ UNCHANGED <<pub, queue, published, restarts, metas, sent, call, abandoned, auditVars>>

\* start() does nothing when it is subscribed already; it clears the flag, not the queue.
Start ==
  /\ call = "idle" /\ token = 0 /\ starts < MaxStarts
  /\ starts' = starts + 1
  /\ stop' = FALSE
  /\ token' = starts + 1
  /\ Subscribe(starts + 1)
  /\ thread' = starts + 1
  /\ deliver' = [deliver EXCEPT ![starts + 1].step = "test"]
  /\ UNCHANGED <<pub, queue, published, restarts, metas, sent, call, abandoned, auditVars>>

StopBegins ==
  /\ call = "idle" /\ token # 0
  /\ Unsubscribe(token)
  /\ token' = 0 /\ stop' = TRUE
  /\ call' = "sentinel"
  /\ UNCHANGED <<pub, queue, published, restarts, metas, sent, thread, deliver, starts,
                 abandoned, auditVars>>

Dead(g) == deliver[g].step \in {"none", "dead"}

\* put_nowait raises queue.Full out of stop() when the queue is full: nothing is joined.
StopSentinel ==
  /\ call = "sentinel"
  /\ IF Len(queue) < Capacity
     THEN /\ queue' = Append(queue, Sentinel) /\ call' = "join"
          /\ UNCHANGED abandoned
     ELSE /\ call' = "idle" /\ abandoned' = abandoned \cup {thread}
          /\ UNCHANGED queue
  /\ UNCHANGED <<subs, pub, published, restarts, metas, sent, token, stop, thread, deliver,
                 starts, auditVars>>

\* join(timeout): the thread has ended, or the timeout comes first.
StopJoined ==
  /\ call = "join"
  /\ abandoned' = IF Dead(thread) THEN abandoned ELSE abandoned \cup {thread}
  /\ call' = "idle" /\ thread' = 0
  /\ UNCHANGED <<subs, pub, queue, published, restarts, metas, sent, token, stop, deliver,
                 starts, auditVars>>

Goto(g, step) == deliver' = [deliver EXCEPT ![g].step = step]

\* The loop condition of _run.
Test(g) ==
  /\ deliver[g].step = "test"
  /\ Goto(g, IF stop THEN "dead" ELSE "get")
  /\ UNCHANGED <<subs, pub, queue, published, restarts, metas, sent, token, stop, thread, call,
                 starts, abandoned, auditVars>>

\* Mutant: a sentinel is skipped like an event that no channel wants.
Get_PastSentinel(g) ==
  /\ deliver[g].step = "get" /\ queue # <<>>
  /\ queue' = Tail(queue)
  /\ deliver' = [deliver EXCEPT ![g] =
                   IF Head(queue) = Sentinel THEN At("get", Nothing) ELSE At("send", Head(queue))]
  /\ UNCHANGED <<subs, pub, published, restarts, metas, sent, token, stop, thread, call,
                 starts, abandoned, auditVars>>

\* queue.get(): a sentinel ends the thread.
Get(g) ==
  /\ deliver[g].step = "get" /\ queue # <<>>
  /\ queue' = Tail(queue)
  /\ deliver' = [deliver EXCEPT ![g] =
                   IF Head(queue) = Sentinel
                   THEN At("dead", Nothing) ELSE At("send", Head(queue))]
  /\ UNCHANGED <<subs, pub, published, restarts, metas, sent, token, stop, thread, call,
                 starts, abandoned, auditVars>>

\* Mutant: an error of a channel leaves the loop.
Send_Raises(g) ==
  /\ deliver[g].step = "send"
  /\ sent' = [sent EXCEPT ![deliver[g].event[1]] = deliver[g].event[2]]
  /\ \E step \in {"test", "dead"} : deliver' = [deliver EXCEPT ![g] = At(step, Nothing)]
  /\ UNCHANGED <<subs, pub, queue, published, restarts, metas, token, stop, thread, call,
                 starts, abandoned, auditVars>>

\* dispatch: no channel matches, or one is sent to, with or without success, and the
\* result is published.
Send(g) ==
  /\ deliver[g].step = "send"
  /\ sent' = [sent EXCEPT ![deliver[g].event[1]] = deliver[g].event[2]]
  /\ \/ /\ deliver' = [deliver EXCEPT ![g] = At("test", Nothing)]
        /\ UNCHANGED <<pub, metas>>
     \/ /\ metas < MaxMetas /\ metas' = metas + 1
        /\ deliver' = [deliver EXCEPT ![g] = At("told", Nothing)]
        /\ Publishes(g, Meta)
  /\ UNCHANGED <<subs, queue, published, restarts, token, stop, thread, call, starts,
                 abandoned, auditVars>>

Counting == {p \in Threads : pub[p].step = "count"}
Purging == {p \in Threads : pub[p].step = "purge"}

\* The process ends and starts again: all but the table is forgotten.
Restart ==
  /\ restarts < MaxRestarts /\ restarts' = restarts + 1
  /\ subs' = <<Audit>> /\ queue' = <<>> /\ token' = 0 /\ stop' = FALSE /\ thread' = 0
  /\ pub' = [p \in Threads |-> Quiet]
  /\ deliver' = [g \in Generations |-> IF Dead(g) THEN deliver[g] ELSE At("dead", Nothing)]
  /\ call' = "idle" /\ writes' = 0
  /\ lapses' = lapses + 1 + Cardinality(Counting) + Cardinality(Purging)
  /\ UNCHANGED <<published, metas, sent, starts, rows, faults, abandoned>>

PublisherStep(p) ==
  Enqueue(p) \/ Record(p) \/ Count(p) \/ Purge(p)

DeliveryStep(g) == Test(g) \/ Get(g) \/ Send(g)

Next ==
  \/ \E p \in Publishers : Publish(p)
  \/ \E p \in Threads : PublisherStep(p)
  \/ \E g \in Generations : DeliveryStep(g)
  \/ Start \/ StopBegins \/ StopSentinel \/ StopJoined
  \/ Restart

Spec == Init /\ [][Next]_vars

\* Threads run, database calls and channels return (senders have timeouts).
FairSpec ==
  /\ Spec
  /\ \A p \in Threads : WF_vars(PublisherStep(p))
  /\ \A g \in Generations : WF_vars(DeliveryStep(g))
  /\ WF_vars(StopSentinel \/ StopJoined)

-----------------------------------------------------------------------------
(* Properties *)

\* The audit table keeps to its limit: it exceeds max_rows by the events written since the
\* last purge, those whose thread has yet to count them, and a further interval only for
\* each purge under way, failed, or forgotten with its counter by a restart, however
\* publishers interleave between the write, the count and the purge (audit.py, record,
\* _maybe_purge).
AuditBounded ==
  rows <= MaxRows + (PurgeEvery - 1) + Cardinality(Counting)
          + PurgeEvery * (Cardinality(Purging) + lapses)

\* What one publisher says is delivered in the order it was said, and once, across stops
\* and starts of the service, as long as stop() never gave up on a delivery thread; events
\* may be dropped (notifications.py, start, stop, _run).
InOrder ==
  [][\A g \in Generations :
       abandoned = {} /\ deliver[g].step = "send" /\ deliver'[g].step \in {"test", "told"}
       => sent[deliver[g].event[1]] < deliver[g].event[2]]_vars

\* A delivery thread ends after stop(), whether it meets the flag or the sentinel, in front
\* of an empty or a full queue, unless start() clears the flag first; another thread that
\* stop() once gave up on may take the sentinel (notifications.py, stop, _run).
StopEnds ==
  \A g \in Generations :
    stop /\ abandoned = {} ~> Dead(g) \/ ~stop

\* An event that waits while the service's thread lives is taken from the queue, however
\* deliveries end and whatever is dropped at the limit, unless the service is stopped first
\* or a sentinel that an earlier stop() left behind ends the thread (notifications.py, _run).
Served ==
  \A e \in Events, g \in Generations :
    e \in Elements(queue) /\ token = g /\ ~Dead(g)
      ~> e \notin Elements(queue) \/ token = 0 \/ Sentinel \in Elements(queue)

=============================================================================
