---------------------------- MODULE NoticesProofs ----------------------------
(***************************************************************************)
(* Theorems about Notices, for any publishers and bounds: the audit table  *)
(* keeps to its limit, and what is delivered is delivered in order.        *)
(***************************************************************************)
EXTENDS Notices, FiniteSetTheorems, SequenceTheorems, TLAPS

USE NoticesAssumption

\* A thread publishes one event at a time, a delivery thread only when it has told of one.
ThreadInv ==
  /\ DOMAIN pub = Threads /\ DOMAIN deliver = Generations
  /\ \A p \in Threads :
       DOMAIN pub[p] = {"step", "event", "todo"} /\ pub[p].step \in {"idle", "fan", "count", "purge"}
  /\ \A g \in Generations :
       /\ DOMAIN deliver[g] = {"step", "event"} /\ (deliver[g].step # "told" => pub[g].step = "idle")
       /\ deliver[g].step # "none" => g <= starts
  /\ starts \in Nat

\* Each row above the limit was counted since the last purge, waits to be counted, or is one
\* of purge_every that a purge under way or lost has to answer for.
RowsInv ==
  /\ rows \in Nat /\ lapses \in Nat /\ writes \in 0..(PurgeEvery - 1)
  /\ rows <= MaxRows + writes + Cardinality(Counting)
             + PurgeEvery * (Cardinality(Purging) + lapses)

-----------------------------------------------------------------------------
(* Threads *)

LEMMA ThreadsFinite ==
  /\ IsFiniteSet(Counting) /\ Cardinality(Counting) \in Nat
  /\ IsFiniteSet(Purging) /\ Cardinality(Purging) \in Nat
<1>1. IsFiniteSet(Threads)
  <2>1. IsFiniteSet(Generations)
    BY FS_Interval DEF Generations
  <2> QED BY <2>1, FS_Union DEF Threads
<1>2. Counting \subseteq Threads /\ Purging \subseteq Threads
  BY DEF Counting, Purging
<1> QED BY <1>1, <1>2, FS_Subset, FS_CardinalityType

LEMMA ThreadsInitially == Init => ThreadInv
BY DEF Init, ThreadInv, Quiet, At, Threads

\* What calling the next subscriber does to the thread that calls.
LEMMA Called ==
  ASSUME ThreadInv, NEW p \in Threads, pub[p].step # "idle", NextSubscriber(p), starts' = starts
  PROVE  /\ ThreadInv' /\ pub'[p].step \in {"fan", "idle"}
         /\ \A q \in Threads \ {p} : pub'[q] = pub[q]
<1>1. CASE Len(pub[p].todo) > 1
  <2>1. UNCHANGED deliver /\ \E rest : pub' = [pub EXCEPT ![p].step = "fan", ![p].todo = rest]
    BY <1>1 DEF NextSubscriber
  <2>2. pub'[p].step = "fan" /\ DOMAIN pub'[p] = {"step", "event", "todo"} /\ DOMAIN pub' = Threads
    BY <2>1 DEF ThreadInv
  <2>3. \A q \in Threads \ {p} : pub'[q] = pub[q]
    BY <2>1 DEF ThreadInv
  <2>4. \A g \in Generations : g \in Threads
    BY DEF Threads
  <2> QED BY <2>1, <2>2, <2>3, <2>4 DEF ThreadInv
<1>2. CASE ~(Len(pub[p].todo) > 1)
  <2>1. /\ pub' = [pub EXCEPT ![p] = Quiet]
        /\ deliver' = [g \in Generations |-> IF g = p THEN At("test", Nothing) ELSE deliver[g]]
    BY <1>2 DEF NextSubscriber
  <2>2. \A g \in Generations : g \in Threads
    BY DEF Threads
  <2> QED BY <2>1, <2>2 DEF ThreadInv, Quiet, At
<1> QED BY <1>1, <1>2

LEMMA ThreadsKeep ==
  ASSUME ThreadInv, [Next]_vars
  PROVE  ThreadInv'
<1> \A g \in Generations : g \in Threads /\ g \notin Publishers
  BY PublishersAssumption DEF Threads
<1>1. ASSUME NEW p \in Publishers, Publish(p) PROVE ThreadInv'
  BY <1>1 DEF Publish, Publishes, ThreadInv, Threads, serviceVars
<1>2. ASSUME NEW p \in Threads, PublisherStep(p) PROVE ThreadInv'
  <2>1. pub[p].step # "idle" /\ starts' = starts
    BY <1>2 DEF PublisherStep, Enqueue, Record, Count, Purge, Calls, serviceVars
  <2>2. CASE NextSubscriber(p)
    BY <2>1, <2>2, Called
  <2>3. CASE UNCHANGED deliver /\ \E s \in {"count", "purge"} : pub' = [pub EXCEPT ![p].step = s]
    BY <2>1, <2>3 DEF ThreadInv
  <2> QED BY <1>2, <2>2, <2>3 DEF PublisherStep, Enqueue, Record, Count, Purge
<1>3. ASSUME NEW g \in Generations, Test(g) \/ Get(g) PROVE ThreadInv'
  <2>1. /\ UNCHANGED <<pub, starts>> /\ deliver[g].step \notin {"told", "none"}
        /\ DOMAIN deliver' = Generations /\ DOMAIN deliver'[g] = {"step", "event"}
        /\ \A h \in Generations \ {g} : deliver'[h] = deliver[h]
    BY <1>3 DEF Test, Get, Goto, At, ThreadInv
  <2> QED BY <2>1 DEF ThreadInv
<1>4. ASSUME NEW g \in Generations, Send(g) PROVE ThreadInv'
  BY <1>4 DEF Send, Publishes, At, ThreadInv
<1>5. CASE Start
  <2>1. /\ UNCHANGED pub /\ deliver' = [deliver EXCEPT ![starts + 1].step = "test"]
        /\ starts' = starts + 1
    BY <1>5 DEF Start
  <2>2. ~(starts + 1 <= starts)
    BY DEF ThreadInv
  <2>3. \A g \in Generations : g \in Int
    BY DEF Generations
  <2> QED BY <2>1, <2>2, <2>3 DEF ThreadInv
<1>6. CASE StopBegins \/ StopSentinel \/ StopJoined \/ UNCHANGED vars
  <2>1. UNCHANGED <<pub, deliver, starts>>
    BY <1>6 DEF StopBegins, StopSentinel, StopJoined, vars, serviceVars
  <2> QED BY <2>1 DEF ThreadInv
<1>7. CASE Restart
  BY <1>7 DEF Restart, Quiet, At, Dead, ThreadInv
<1> QED BY <1>1, <1>2, <1>3, <1>4, <1>5, <1>6, <1>7 DEF Next, DeliveryStep

-----------------------------------------------------------------------------
(* Rows *)

\* How one thread's move changes the number of those that count and that purge.
LEMMA Moves ==
  ASSUME ThreadInv, NEW p \in Threads, DOMAIN pub' = Threads,
         \A q \in Threads \ {p} : pub'[q] = pub[q]
  PROVE  /\ Cardinality(Counting') = Cardinality(Counting)
              + (IF pub'[p].step = "count" THEN 1 ELSE 0) - (IF pub[p].step = "count" THEN 1 ELSE 0)
         /\ Cardinality(Purging') = Cardinality(Purging)
              + (IF pub'[p].step = "purge" THEN 1 ELSE 0) - (IF pub[p].step = "purge" THEN 1 ELSE 0)
<1>1. ASSUME NEW s
      PROVE  LET S == {q \in Threads : pub[q].step = s}
                 T == {q \in Threads : pub'[q].step = s}
             IN IsFiniteSet(S) =>
                  Cardinality(T) = Cardinality(S) + (IF pub'[p].step = s THEN 1 ELSE 0)
                                                  - (IF pub[p].step = s THEN 1 ELSE 0)
  <2> DEFINE S == {q \in Threads : pub[q].step = s}
             T == {q \in Threads : pub'[q].step = s}
  <2> SUFFICES ASSUME IsFiniteSet(S)
               PROVE  Cardinality(T) = Cardinality(S) + (IF pub'[p].step = s THEN 1 ELSE 0)
                                                      - (IF pub[p].step = s THEN 1 ELSE 0)
    OBVIOUS
  <2>1. Cardinality(S) \in Nat
    BY FS_CardinalityType
  <2>2. T = IF pub'[p].step = s THEN S \cup {p} ELSE S \ {p}
    OBVIOUS
  <2>3. p \in S <=> pub[p].step = s
    OBVIOUS
  <2> HIDE DEF S, T
  <2>4. /\ Cardinality(S \cup {p}) = IF p \in S THEN Cardinality(S) ELSE Cardinality(S) + 1
        /\ Cardinality(S \ {p}) = IF p \in S THEN Cardinality(S) - 1 ELSE Cardinality(S)
    BY FS_AddElement, FS_RemoveElement
  <2> QED BY <2>1, <2>2, <2>3, <2>4
<1> QED BY <1>1, ThreadsFinite DEF Counting, Purging

\* A thread that neither counts nor purges, before and after, does not matter.
LEMMA RowsSame ==
  ASSUME RowsInv, UNCHANGED <<rows, writes, lapses>>,
         Cardinality(Counting') = Cardinality(Counting),
         Cardinality(Purging') = Cardinality(Purging)
  PROVE  RowsInv'
BY DEF RowsInv

LEMMA RowsInitially == Init => RowsInv
<1> SUFFICES ASSUME Init PROVE RowsInv
  OBVIOUS
<1>1. Counting = {} /\ Purging = {}
  BY DEF Init, Counting, Purging, Quiet
<1>2. Cardinality({}) = 0
  BY FS_EmptySet
<1>3. /\ rows \in 0..MaxRows /\ writes = 0 /\ lapses = 0
      /\ Cardinality(Counting) = 0 /\ Cardinality(Purging) = 0
  BY <1>1, <1>2 DEF Init
<1> QED BY <1>3 DEF RowsInv

\* The bound through a write, a count, a purge and a restart.
LEMMA Sums ==
  ASSUME NEW c \in Nat, NEW u \in Nat, NEW w \in Nat, NEW e \in Nat \ {0}
  PROVE  /\ e * (u + w) \in Nat
         /\ e * (u + 1 + w) = e * (u + w) + e
         /\ u >= 1 => e * (u - 1 + (w + 1)) = e * (u + w)
         /\ e * (0 + (w + 1 + c + u)) >= e * (u + w) + e + c
<1>1. e * (w + 1 + c + u) = e * (u + w) + e + e * c
  OBVIOUS
<1>2. e * c >= c
  <2>1. e * c = c + (e - 1) * c
    OBVIOUS
  <2>2. (e - 1) * c \in Nat
    OBVIOUS
  <2> QED BY <2>1, <2>2
<1>3. e * (u + w) \in Nat
  OBVIOUS
<1>4. e * (u + 1 + w) = e * (u + w) + e
  OBVIOUS
<1> QED BY <1>1, <1>2, <1>3, <1>4

LEMMA RowsKeep ==
  ASSUME ThreadInv, RowsInv, [Next]_vars
  PROVE  RowsInv'
<1> DEFINE C == Cardinality(Counting)
           U == Cardinality(Purging)
           Held == PurgeEvery * (U + lapses)
<1>1. /\ C \in Nat /\ U \in Nat /\ Held \in Nat /\ rows \in Nat /\ lapses \in Nat
      /\ writes \in 0..(PurgeEvery - 1) /\ rows <= MaxRows + writes + C + Held
  BY ThreadsFinite DEF RowsInv
<1>2. ThreadInv'
  BY ThreadsKeep
<1>3. ASSUME UNCHANGED pub PROVE Counting' = Counting /\ Purging' = Purging
  BY <1>3 DEF Counting, Purging
<1>4. ASSUME NEW p \in Publishers, Publish(p) PROVE RowsInv'
  <2>1. /\ p \in Threads /\ pub[p].step = "idle" /\ pub'[p].step = "fan"
        /\ \A q \in Threads \ {p} : pub'[q] = pub[q]
        /\ UNCHANGED <<rows, writes, lapses>>
    BY <1>4 DEF Publish, Publishes, auditVars, ThreadInv, Threads
  <2> QED BY <1>1, <1>2, <2>1, Moves, RowsSame DEF ThreadInv
<1>5. ASSUME NEW p \in Threads, Enqueue(p) PROVE RowsInv'
  <2>1. pub[p].step = "fan" /\ UNCHANGED <<rows, writes, lapses, starts>> /\ NextSubscriber(p)
    BY <1>5 DEF Enqueue, Calls, auditVars, serviceVars
  <2> QED BY <1>1, <2>1, Called, Moves, RowsSame DEF ThreadInv
<1>6. ASSUME NEW p \in Threads, Record(p) PROVE RowsInv'
  <2>1. pub[p].step = "fan" /\ UNCHANGED <<writes, lapses, starts>>
    BY <1>6 DEF Record, Calls, serviceVars
  <2>2. CASE AddEvent /\ pub' = [pub EXCEPT ![p].step = "count"]
    <3>1. /\ rows' = rows + 1 /\ pub'[p].step = "count"
          /\ \A q \in Threads \ {p} : pub'[q] = pub[q]
      BY <2>2 DEF AddEvent, ThreadInv
    <3>2. Cardinality(Counting') = C + 1 /\ Cardinality(Purging') = U
      BY <1>1, <1>2, <2>1, <3>1, Moves DEF ThreadInv
    <3> HIDE DEF C, U
    <3>3. rows' <= MaxRows + writes + (C + 1) + Held
      BY <1>1, <3>1
    <3> QED BY <1>1, <2>1, <3>1, <3>2, <3>3 DEF RowsInv
  <2>3. CASE NextSubscriber(p) /\ UNCHANGED rows
    BY <1>1, <2>1, <2>3, Called, Moves, RowsSame DEF ThreadInv
  <2> QED BY <1>6, <2>2, <2>3 DEF Record
<1>7. ASSUME NEW p \in Threads, Count(p) PROVE RowsInv'
  <2>1. pub[p].step = "count" /\ UNCHANGED <<rows, lapses, starts>>
    BY <1>7 DEF Count, serviceVars
  <2>2. CASE writes + 1 < PurgeEvery
    <3>1. writes' = writes + 1 /\ NextSubscriber(p)
      BY <1>7, <2>2 DEF Count
    <3>2. Cardinality(Counting') = C - 1 /\ Cardinality(Purging') = U
      BY <1>1, <2>1, <3>1, Called, Moves DEF ThreadInv
    <3> HIDE DEF C, U
    <3>3. rows <= MaxRows + (writes + 1) + (C - 1) + Held
      BY <1>1
    <3> QED BY <1>1, <2>1, <2>2, <3>1, <3>2, <3>3 DEF RowsInv
  <2>3. CASE ~(writes + 1 < PurgeEvery)
    <3>1. writes' = 0 /\ pub' = [pub EXCEPT ![p].step = "purge"]
      BY <1>7, <2>3 DEF Count
    <3>2. pub'[p].step = "purge" /\ \A q \in Threads \ {p} : pub'[q] = pub[q]
      BY <3>1 DEF ThreadInv
    <3>3. Cardinality(Counting') = C - 1 /\ Cardinality(Purging') = U + 1
      BY <1>1, <1>2, <2>1, <3>2, Moves DEF ThreadInv
    <3>4. PurgeEvery * (U + 1 + lapses) = Held + PurgeEvery
      BY <1>1, Sums
    <3> HIDE DEF C, U, Held
    <3>5. rows <= MaxRows + 0 + (C - 1) + (Held + PurgeEvery)
      BY <1>1
    <3> QED BY <1>1, <2>1, <3>1, <3>3, <3>4, <3>5 DEF RowsInv
  <2> QED BY <2>2, <2>3
<1>8. ASSUME NEW p \in Threads, Purge(p) PROVE RowsInv'
  <2>1. pub[p].step = "purge" /\ UNCHANGED <<writes, starts>> /\ NextSubscriber(p)
    BY <1>8 DEF Purge, serviceVars
  <2>2. Cardinality(Counting') = C /\ Cardinality(Purging') = U - 1 /\ U - 1 \in Nat
    <3>1. Cardinality(Counting') = C /\ Cardinality(Purging') = U - 1
      BY <1>1, <2>1, Called, Moves DEF ThreadInv
    <3>2. p \in Purging
      BY <2>1 DEF Purging
    <3>3. U # 0
      BY <3>2, ThreadsFinite, FS_EmptySet
    <3> QED BY <1>1, <3>1, <3>3
  <2>3. CASE PurgeEvents /\ lapses' = 0
    <3>1. rows' \in Nat /\ rows' <= MaxRows
      BY <1>1, <2>3 DEF PurgeEvents, MinOf
    <3>2. PurgeEvery * (U - 1 + 0) \in Nat
      BY <2>2
    <3> HIDE DEF C, U
    <3> QED BY <1>1, <2>1, <2>2, <2>3, <3>1, <3>2 DEF RowsInv
  <2>4. CASE lapses' = lapses + 1 /\ UNCHANGED rows
    <3>1. PurgeEvery * (U - 1 + (lapses + 1)) = Held
      BY <1>1, <2>2
    <3> HIDE DEF C, U, Held
    <3> QED BY <1>1, <2>1, <2>2, <2>4, <3>1 DEF RowsInv
  <2> QED BY <1>8, <2>3, <2>4 DEF Purge
<1>9. ASSUME NEW g \in Generations, DeliveryStep(g) PROVE RowsInv'
  <2>1. UNCHANGED <<rows, writes, lapses>>
    BY <1>9 DEF DeliveryStep, Test, Get, Send, auditVars
  <2>2. CASE UNCHANGED pub
    BY <1>3, <2>1, <2>2, RowsSame
  <2>3. CASE Send(g) /\ Publishes(g, Meta)
    <3>1. /\ g \in Threads /\ pub[g].step = "idle" /\ pub'[g].step = "fan"
          /\ \A q \in Threads \ {g} : pub'[q] = pub[q]
      BY <2>3 DEF Send, Publishes, ThreadInv, Threads
    <3> QED BY <1>1, <1>2, <2>1, <3>1, Moves, RowsSame DEF ThreadInv
  <2> QED BY <1>9, <2>2, <2>3 DEF DeliveryStep, Test, Get, Send
<1>10. CASE Start \/ StopBegins \/ StopSentinel \/ StopJoined \/ UNCHANGED vars
  <2>1. UNCHANGED <<rows, writes, lapses, pub>>
    BY <1>10 DEF Start, StopBegins, StopSentinel, StopJoined, vars, auditVars
  <2> QED BY <1>3, <2>1, RowsSame
<1>11. CASE Restart
  <2>1. Counting' = {} /\ Purging' = {}
    BY <1>11 DEF Restart, Counting, Purging, Quiet
  <2>2. Cardinality(Counting') = 0 /\ Cardinality(Purging') = 0
    BY <2>1, FS_EmptySet
  <2>3. writes' = 0 /\ rows' = rows /\ lapses' = lapses + 1 + C + U
    BY <1>11 DEF Restart
  <2>4. PurgeEvery * (0 + (lapses + 1 + C + U)) >= Held + PurgeEvery + C
    BY <1>1, Sums
  <2> HIDE DEF C, U, Held
  <2>5. rows <= MaxRows + 0 + 0 + PurgeEvery * (0 + (lapses + 1 + C + U))
    BY <1>1, <2>4
  <2> QED BY <1>1, <2>2, <2>3, <2>5 DEF RowsInv
<1> QED BY <1>4, <1>5, <1>6, <1>7, <1>8, <1>9, <1>10, <1>11 DEF Next, PublisherStep

-----------------------------------------------------------------------------
(* What is on the bus *)

Calling == {<<Audit>>} \cup {<<g>> : g \in Generations} \cup {<<Audit, g>> : g \in Generations}

\* One service is subscribed at a time, after the audit log: an event is put into the queue
\* once.  Delivery threads have the events of publishers in hand, and publish others.
BusInv ==
  /\ token \in 0..starts /\ starts \in 0..MaxStarts
  /\ subs = IF token = 0 THEN <<Audit>> ELSE <<Audit, token>>
  /\ published \in [Publishers -> 0..MaxEvents] /\ DOMAIN sent = Publishers
  /\ \A p \in Threads : pub[p].step # "idle" =>
       /\ pub[p].todo \in Calling
       /\ p \in Publishers => published[p] >= 1 /\ pub[p].event = <<p, published[p]>>
       /\ p \in Generations => pub[p].event = Meta
       /\ pub[p].step \in {"count", "purge"} => Head(pub[p].todo) = Audit
  /\ queue \in Seq(Events \cup {Sentinel})
  /\ \A g \in Generations : deliver[g].step = "send" => deliver[g].event \in Events

LEMMA ShortSequences ==
  /\ \A a, b : Append(<<a>>, b) = <<a, b>>
  /\ \A a : \A s \in Seq({a}) : Len(s) = 1 /\ s[1] = a => s = <<a>>
<1>1. ASSUME NEW a, NEW b PROVE Append(<<a>>, b) = <<a, b>>
  <2> DEFINE s == Append(<<a>>, b)
             t == <<a, b>>
  <2>1. <<a>> \in Seq({a, b}) /\ Len(<<a>>) = 1 /\ <<a>>[1] = a /\ b \in {a, b}
    OBVIOUS
  <2>2. s \in Seq({a, b}) /\ Len(s) = 2 /\ s[1] = a /\ s[2] = b
    <3>1. 1 \in 1..1
      OBVIOUS
    <3> QED BY <2>1, <3>1, AppendProperties
  <2>3. t \in Seq({a, b}) /\ Len(t) = 2 /\ t[1] = a /\ t[2] = b
    OBVIOUS
  <2> HIDE DEF s, t
  <2>4. \A i \in 1..Len(s) : s[i] = t[i]
    BY <2>2, <2>3
  <2> QED BY <2>2, <2>3, <2>4, SeqEqual DEF s, t
<1>2. ASSUME NEW a, NEW s \in Seq({a}), Len(s) = 1, s[1] = a PROVE s = <<a>>
  <2> DEFINE t == <<a>>
  <2>1. t \in Seq({a}) /\ Len(t) = 1 /\ t[1] = a
    OBVIOUS
  <2> HIDE DEF t
  <2>2. \A i \in 1..Len(s) : s[i] = t[i]
    BY <1>2, <2>1
  <2> QED BY <1>2, <2>1, <2>2, SeqEqual DEF t
<1> QED BY <1>1, <1>2

LEMMA Callings ==
  /\ \A g \in Generations : g \in Threads /\ g \in Nat \ {0} /\ g # Audit /\ g \notin Publishers
  /\ \A todo \in Calling :
       \/ Len(todo) = 1 /\ todo = <<Head(todo)>> /\ Head(todo) \in Generations \cup {Audit}
       \/ Len(todo) = 2 /\ Head(todo) = Audit /\ \E g \in Generations : todo = <<Audit, g>> /\ Tail(todo) = <<g>>
<1>1. \A g \in Generations : g \in Threads /\ g \in Nat \ {0} /\ g # Audit /\ g \notin Publishers
  BY NamesAssumption, PublishersAssumption DEF Threads, Generations
<1>2. \A a : Len(<<a>>) = 1 /\ Head(<<a>>) = a
  OBVIOUS
<1>3. \A a, b : Len(<<a, b>>) = 2 /\ Head(<<a, b>>) = a /\ Tail(<<a, b>>) = <<b>>
  OBVIOUS
<1>4. ASSUME NEW todo \in Calling
      PROVE  \/ Len(todo) = 1 /\ todo = <<Head(todo)>> /\ Head(todo) \in Generations \cup {Audit}
             \/ Len(todo) = 2 /\ Head(todo) = Audit /\ \E g \in Generations : todo = <<Audit, g>> /\ Tail(todo) = <<g>>
  <2>1. CASE \E a \in Generations \cup {Audit} : todo = <<a>>
    BY <1>2, <2>1
  <2>2. CASE \E g \in Generations : todo = <<Audit, g>>
    <3>1. PICK g \in Generations : todo = <<Audit, g>>
      BY <2>2
    <3>2. Len(todo) = 2 /\ Head(todo) = Audit /\ Tail(todo) = <<g>>
      BY <1>3, <3>1
    <3> QED BY <3>1, <3>2
  <2> QED BY <2>1, <2>2 DEF Calling
<1> QED BY <1>1, <1>4

\* A thread has called a subscriber: the audit log, and then the service if it is to be
\* called, or the service, and then nobody.  A delivery thread is back in its loop.
LEMMA Passes ==
  ASSUME ThreadInv, BusInv, NEW p \in Threads, pub[p].step # "idle", NextSubscriber(p),
         starts' = starts
  PROVE  /\ ThreadInv' /\ \A q \in Threads \ {p} : pub'[q] = pub[q]
         /\ \/ /\ Head(pub[p].todo) = Audit /\ pub'[p].step = "fan" /\ pub'[p].event = pub[p].event
               /\ \E g \in Generations : pub[p].todo = <<Audit, g>> /\ pub'[p].todo = <<g>>
            \/ /\ pub'[p].step = "idle"
               /\ Head(pub[p].todo) \in Generations \/ pub[p].todo = <<Audit>>
         /\ \A g \in Generations : \/ deliver'[g] = deliver[g]
                                   \/ deliver[g].step = "told" /\ deliver'[g].step = "test"
<1>1. ThreadInv' /\ \A q \in Threads \ {p} : pub'[q] = pub[q]
  BY Called
<1>2. pub[p].todo \in Calling
  BY DEF BusInv
<1>3. CASE Len(pub[p].todo) > 1
  <2>1. pub' = [pub EXCEPT ![p].step = "fan", ![p].todo = Tail(@)] /\ UNCHANGED deliver
    BY <1>3 DEF NextSubscriber
  <2>2. pub'[p].step = "fan" /\ pub'[p].event = pub[p].event /\ pub'[p].todo = Tail(pub[p].todo)
    BY <2>1 DEF ThreadInv
  <2>3. Head(pub[p].todo) = Audit /\ \E g \in Generations : pub[p].todo = <<Audit, g>> /\ Tail(pub[p].todo) = <<g>>
    <3>1. Len(pub[p].todo) \in {1, 2}
      BY <1>2, Callings
    <3>2. Len(pub[p].todo) # 1
      <4>1. \A n : n = 1 => ~(n > 1)
        OBVIOUS
      <4> QED BY <1>3, <4>1
    <3> QED BY <1>2, <3>2, Callings
  <2> QED BY <1>1, <2>1, <2>2, <2>3
<1>4. CASE ~(Len(pub[p].todo) > 1)
  <2>1. /\ pub' = [pub EXCEPT ![p] = Quiet]
        /\ deliver' = [g \in Generations |-> IF g = p THEN At("test", Nothing) ELSE deliver[g]]
    BY <1>4 DEF NextSubscriber
  <2>2. pub'[p].step = "idle"
    BY <2>1 DEF ThreadInv, Quiet
  <2>3. Head(pub[p].todo) \in Generations \/ pub[p].todo = <<Audit>>
    BY <1>2, <1>4, Callings
  <2>4. \A g \in Generations : g = p => deliver[g].step = "told" /\ deliver'[g].step = "test"
    BY <2>1 DEF ThreadInv, At
  <2>5. \A g \in Generations : g # p => deliver'[g] = deliver[g]
    BY <2>1
  <2> QED BY <1>1, <2>2, <2>3, <2>4, <2>5
<1> QED BY <1>3, <1>4

LEMMA BusInitially == Init => BusInv
<1> SUFFICES ASSUME Init PROVE BusInv
  OBVIOUS
<1>1. \A p \in Threads : pub[p].step = "idle"
  BY DEF Init, Quiet
<1>2. \A g \in Generations : deliver[g].step # "send"
  BY DEF Init, At
<1> QED BY <1>1, <1>2 DEF Init, BusInv

\* A step that leaves the service as it is, and the queue.
LEMMA BusSame ==
  ASSUME ThreadInv, BusInv, UNCHANGED <<token, starts, subs, published, queue>>,
         DOMAIN sent' = Publishers,
         NEW p \in Threads, \A q \in Threads \ {p} : pub'[q] = pub[q],
         pub'[p].step # "idle" =>
           /\ pub'[p].todo \in Calling
           /\ p \in Publishers => published[p] >= 1 /\ pub'[p].event = <<p, published[p]>>
           /\ p \in Generations => pub'[p].event = Meta
           /\ pub'[p].step \in {"count", "purge"} => Head(pub'[p].todo) = Audit,
         \A g \in Generations : deliver'[g].step = "send" => deliver'[g].event \in Events
  PROVE  BusInv'
BY DEF BusInv

LEMMA BusKeeps ==
  ASSUME ThreadInv, BusInv, [Next]_vars
  PROVE  BusInv'
<1> DOMAIN sent' = Publishers
  <2>1. sent' = sent \/ \E a, b : sent' = [sent EXCEPT ![a] = b]
    BY DEF Next, Publish, PublisherStep, Enqueue, Record, Count, Purge, DeliveryStep, Test, Get, Send,
           Start, StopBegins, StopSentinel, StopJoined, Restart, vars
  <2> QED BY <2>1 DEF BusInv
<1> ThreadInv'
  BY ThreadsKeep
<1>1. ASSUME NEW p \in Publishers, Publish(p) PROVE BusInv'
  <2>1. /\ p \in Threads /\ published[p] \in 0..MaxEvents /\ published[p] < MaxEvents
        /\ published' = [published EXCEPT ![p] = @ + 1]
        /\ pub' = [pub EXCEPT ![p] = [step |-> "fan", event |-> <<p, published[p] + 1>>, todo |-> subs]]
        /\ UNCHANGED <<subs, queue, deliver, token, starts>>
    BY <1>1 DEF Publish, Publishes, BusInv, Threads, serviceVars
  <2>2. /\ pub'[p] = [step |-> "fan", event |-> <<p, published[p] + 1>>, todo |-> subs]
        /\ \A q \in Threads \ {p} : pub'[q] = pub[q]
    BY <2>1 DEF ThreadInv
  <2>3. published' \in [Publishers -> 0..MaxEvents] /\ published'[p] = published[p] + 1
        /\ \A q \in Publishers \ {p} : published'[q] = published[q]
    BY <2>1 DEF BusInv
  <2>4. subs \in Calling
    BY DEF BusInv, Calling, Generations
  <2>5. p \notin Generations
    BY PublishersAssumption
  <2>6. ASSUME NEW q \in Threads, pub'[q].step # "idle"
        PROVE  /\ pub'[q].todo \in Calling
               /\ q \in Publishers => published'[q] >= 1 /\ pub'[q].event = <<q, published'[q]>>
               /\ q \in Generations => pub'[q].event = Meta
               /\ pub'[q].step \in {"count", "purge"} => Head(pub'[q].todo) = Audit
    <3>1. CASE q = p
      BY <2>1, <2>2, <2>3, <2>4, <2>5, <3>1
    <3>2. CASE q # p
      BY <2>2, <2>3, <2>6, <3>2 DEF BusInv
    <3> QED BY <3>1, <3>2
  <2> QED BY <2>1, <2>3, <2>6 DEF BusInv
<1>2. ASSUME NEW p \in Threads, Enqueue(p) PROVE BusInv'
  <2>1. /\ pub[p].step = "fan" /\ NextSubscriber(p) /\ Head(pub[p].todo) \in Generations
        /\ UNCHANGED <<subs, published, token, starts>>
        /\ queue' = IF pub[p].event # Meta /\ Len(queue) < Capacity
                    THEN Append(queue, pub[p].event) ELSE queue
    BY <1>2 DEF Enqueue, Calls, serviceVars
  <2>2. /\ pub'[p].step = "idle" /\ \A q \in Threads \ {p} : pub'[q] = pub[q]
        /\ \A g \in Generations : \/ deliver'[g] = deliver[g]
                                  \/ deliver[g].step = "told" /\ deliver'[g].step = "test"
    BY <2>1, Passes, Callings
  <2>3. pub[p].event # Meta => pub[p].event \in Events
    <3>1. p \in Publishers => published[p] \in 1..MaxEvents /\ pub[p].event = <<p, published[p]>>
      BY <2>1 DEF BusInv
    <3>2. p \in Generations => pub[p].event = Meta
      BY <2>1 DEF BusInv
    <3> QED BY <3>1, <3>2 DEF Events, Threads
  <2>4. queue' \in Seq(Events \cup {Sentinel})
    BY <2>1, <2>3, AppendProperties DEF BusInv
  <2> QED BY <2>1, <2>2, <2>4 DEF BusInv
<1>3. ASSUME NEW p \in Threads, Record(p) \/ Count(p) \/ Purge(p) PROVE BusInv'
  <2>1. /\ pub[p].step # "idle" /\ Head(pub[p].todo) = Audit
        /\ UNCHANGED <<subs, queue, published, token, starts>>
    BY <1>3 DEF Record, Count, Purge, Calls, serviceVars, BusInv
  <2>2. CASE NextSubscriber(p)
    <3>1. /\ \A q \in Threads \ {p} : pub'[q] = pub[q]
          /\ \/ pub'[p].step = "idle"
             \/ /\ pub'[p].step = "fan" /\ pub'[p].event = pub[p].event
                /\ \E g \in Generations : pub'[p].todo = <<g>>
          /\ \A g \in Generations : \/ deliver'[g] = deliver[g]
                                    \/ deliver[g].step = "told" /\ deliver'[g].step = "test"
      BY <2>1, <2>2, Passes
    <3>2. \A g \in Generations : deliver'[g].step = "send" => deliver'[g].event \in Events
      BY <3>1 DEF BusInv
    <3>3. pub'[p].step # "idle" => pub'[p].todo \in Calling
      BY <3>1 DEF Calling
    <3> QED BY <2>1, <3>1, <3>2, <3>3, BusSame DEF BusInv
  <2>3. CASE UNCHANGED deliver /\ \E s \in {"count", "purge"} : pub' = [pub EXCEPT ![p].step = s]
    <3>1. /\ \A q \in Threads \ {p} : pub'[q] = pub[q]
          /\ pub'[p].event = pub[p].event /\ pub'[p].todo = pub[p].todo
      BY <2>3 DEF ThreadInv
    <3> QED BY <2>1, <2>3, <3>1, BusSame DEF BusInv
  <2> QED BY <1>3, <2>2, <2>3 DEF Record, Count, Purge
<1>4. ASSUME NEW g \in Generations, Test(g) PROVE BusInv'
  <2>1. /\ UNCHANGED <<subs, pub, queue, published, token, starts>>
        /\ \A h \in Generations : deliver'[h].step = "send" => deliver'[h] = deliver[h]
    BY <1>4 DEF Test, Goto, ThreadInv
  <2> QED BY <2>1 DEF BusInv
<1>5. ASSUME NEW g \in Generations, Get(g) PROVE BusInv'
  <2>1. UNCHANGED <<subs, pub, published, token, starts>> /\ queue # <<>> /\ queue' = Tail(queue)
    BY <1>5 DEF Get
  <2>2. queue' \in Seq(Events \cup {Sentinel}) /\ Head(queue) \in Events \cup {Sentinel}
    BY <2>1, HeadTailProperties DEF BusInv
  <2>3. \A h \in Generations \ {g} : deliver'[h] = deliver[h]
    BY <1>5 DEF Get, ThreadInv
  <2>4. deliver'[g].step = "send" => deliver'[g].event \in Events
    BY <1>5, <2>2 DEF Get, At, ThreadInv
  <2> QED BY <2>1, <2>2, <2>3, <2>4 DEF BusInv
<1>6. ASSUME NEW g \in Generations, Send(g) PROVE BusInv'
  <2>1. /\ UNCHANGED <<subs, queue, published, token, starts>> /\ g \in Threads /\ g \notin Publishers
        /\ \A h \in Generations \ {g} : deliver'[h] = deliver[h]
        /\ deliver'[g].step # "send"
    BY <1>6, Callings DEF Send, At, ThreadInv
  <2>2. subs \in Calling
    BY DEF BusInv, Calling, Generations
  <2>3. \A q \in Threads \ {g} : pub'[q] = pub[q]
    BY <1>6 DEF Send, Publishes, ThreadInv
  <2>4. \/ pub'[g] = pub[g]
        \/ pub'[g] = [step |-> "fan", event |-> Meta, todo |-> subs]
    BY <1>6, <2>1 DEF Send, Publishes, ThreadInv
  <2>5. pub[g].step = "idle"
    BY <1>6 DEF Send, ThreadInv
  <2>6. \A h \in Generations : deliver'[h].step = "send" => deliver'[h].event \in Events
    BY <2>1 DEF BusInv
  <2> QED BY <2>1, <2>2, <2>3, <2>4, <2>5, <2>6, BusSame
<1>7. CASE Start
  <2>1. /\ UNCHANGED <<pub, queue, published>> /\ starts < MaxStarts /\ token = 0
        /\ starts' = starts + 1 /\ token' = starts + 1 /\ subs' = Append(subs, starts + 1)
        /\ \A h \in Generations : deliver'[h].step = "send" => deliver'[h] = deliver[h]
    BY <1>7 DEF Start, Subscribe, ThreadInv
  <2>2. Append(<<Audit>>, starts + 1) = <<Audit, starts + 1>>
    BY ShortSequences
  <2>3. subs' = <<Audit, starts + 1>>
    BY <2>1, <2>2 DEF BusInv
  <2> QED BY <2>1, <2>3 DEF BusInv
<1>8. CASE StopBegins
  <2>1. UNCHANGED <<pub, queue, published, starts, deliver>> /\ token # 0 /\ token' = 0 /\ Unsubscribe(token)
    BY <1>8 DEF StopBegins
  <2>2. subs = <<Audit, token>> /\ token # Audit
    BY <2>1, Callings DEF BusInv, Generations
  <2>3. PICK i \in 1..2 : subs[i] = token /\ subs' = SubSeq(subs, 1, i - 1) \o SubSeq(subs, i + 1, 2)
    BY <2>1, <2>2 DEF Unsubscribe
  <2>4. i = 2
    BY <2>2, <2>3
  <2>5. SubSeq(subs, 3, 2) = <<>>
    BY SubSeqEmpty
  <2>6. /\ SubSeq(subs, 1, 1) \in Seq({Audit}) /\ Len(SubSeq(subs, 1, 1)) = 1
        /\ SubSeq(subs, 1, 1)[1] = Audit
    <3>1. \A k \in 1..1 : k = 1
      OBVIOUS
    <3>2. subs[1] = Audit
      BY <2>2
    <3> QED BY <3>1, <3>2, SubSeqProperties
  <2>7. subs' = SubSeq(subs, 1, 1)
    BY <2>3, <2>4, <2>5, <2>6, ConcatEmptySeq
  <2>8. subs' = <<Audit>>
    BY <2>6, <2>7, ShortSequences
  <2> QED BY <2>1, <2>8 DEF BusInv
<1>9. CASE StopSentinel
  <2>1. UNCHANGED <<subs, pub, published, starts, deliver, token>> /\ queue' \in {queue, Append(queue, Sentinel)}
    BY <1>9 DEF StopSentinel
  <2>2. queue' \in Seq(Events \cup {Sentinel})
    BY <2>1, AppendProperties DEF BusInv
  <2> QED BY <2>1, <2>2 DEF BusInv
<1>10. CASE StopJoined \/ UNCHANGED vars
  <2>1. UNCHANGED <<subs, pub, queue, published, starts, deliver, token>>
    BY <1>10 DEF StopJoined, vars, serviceVars
  <2> QED BY <2>1 DEF BusInv
<1>11. CASE Restart
  <2>1. /\ UNCHANGED <<published, starts>> /\ token' = 0 /\ subs' = <<Audit>> /\ queue' = <<>>
        /\ \A p \in Threads : pub'[p].step = "idle"
        /\ \A g \in Generations : deliver'[g].step # "send"
    BY <1>11 DEF Restart, Quiet, Dead, At
  <2> QED BY <2>1 DEF BusInv
<1> QED BY <1>1, <1>2, <1>3, <1>4, <1>5, <1>6, <1>7, <1>8, <1>9, <1>10, <1>11
     DEF Next, PublisherStep, DeliveryStep
-----------------------------------------------------------------------------
(* The order of deliveries *)

\* Until stop() gives up on a thread, one delivery thread lives at a time, from start() to
\* the end of stop().
OneInv ==
  abandoned = {} =>
    /\ token # 0 => token = thread /\ call = "idle"
    /\ \A g \in Generations : ~Dead(g) => g = thread /\ (token = g \/ call # "idle")

\* The last event of a publisher that has been put into the queue, or dropped.
Waits(p) == pub[p].step # "idle" /\ pub[p].todo # <<Audit>>
Last(p) == IF Waits(p) THEN published[p] - 1 ELSE published[p]

InHand(g, p) == deliver[g].step = "send" /\ deliver[g].event[1] = p
Queued(i, p) == queue[i] # Sentinel /\ queue[i][1] = p

\* Of each publisher: what was sent, what is in hand, what waits in the queue and what is yet
\* to be put there follow one another.
OrderInv ==
  abandoned = {} =>
    \A p \in Publishers :
      /\ sent[p] \in Int /\ sent[p] <= Last(p)
      /\ \A g \in Generations : InHand(g, p) =>
           sent[p] < deliver[g].event[2] /\ deliver[g].event[2] <= Last(p)
      /\ \A i \in 1..Len(queue) : Queued(i, p) =>
           /\ sent[p] < queue[i][2] /\ queue[i][2] <= Last(p)
           /\ \A g \in Generations : InHand(g, p) => deliver[g].event[2] < queue[i][2]
           /\ \A j \in 1..Len(queue) : i < j /\ Queued(j, p) => queue[i][2] < queue[j][2]

LEMMA OrderInitially == Init => OneInv /\ OrderInv
<1> SUFFICES ASSUME Init PROVE OneInv /\ OrderInv
  OBVIOUS
<1>1. \A g \in Generations : Dead(g) /\ deliver[g].step = "none"
  BY DEF Init, Dead, At
<1>2. \A p \in Publishers : pub[p].step = "idle"
  BY DEF Init, Quiet, Threads
<1>3. \A p \in Publishers : sent[p] = 0 /\ Last(p) = 0
  BY <1>2 DEF Init, Last, Waits
<1>4. Len(queue) = 0 /\ token = 0
  BY DEF Init
<1> QED BY <1>1, <1>3, <1>4 DEF OneInv, OrderInv, InHand

LEMMA OneKeeps ==
  ASSUME ThreadInv, BusInv, OneInv, [Next]_vars
  PROVE  OneInv'
<1>1. ASSUME UNCHANGED <<token, thread, call, abandoned>>,
             \A g \in Generations : ~Dead(g)' => ~Dead(g)
      PROVE  OneInv'
  BY <1>1 DEF OneInv
<1>2. ASSUME NEW p \in Publishers, Publish(p) PROVE OneInv'
  BY <1>1, <1>2 DEF Publish, serviceVars, Dead
<1>3. ASSUME NEW p \in Threads, PublisherStep(p) PROVE OneInv'
  <2>1. UNCHANGED serviceVars /\ pub[p].step # "idle"
    BY <1>3 DEF PublisherStep, Enqueue, Record, Count, Purge, Calls
  <2>2. CASE UNCHANGED deliver
    BY <1>1, <2>1, <2>2 DEF serviceVars, Dead
  <2>3. CASE NextSubscriber(p)
    BY <1>1, <2>1, <2>3, Passes DEF serviceVars, Dead
  <2> QED BY <1>3, <2>2, <2>3 DEF PublisherStep, Enqueue, Record, Count, Purge
<1>4. ASSUME NEW g \in Generations, DeliveryStep(g) PROVE OneInv'
  <2>1. /\ UNCHANGED <<token, thread, call, abandoned>> /\ ~Dead(g)
        /\ \A h \in Generations \ {g} : deliver'[h] = deliver[h]
    BY <1>4 DEF DeliveryStep, Test, Get, Send, Goto, Dead, ThreadInv
  <2> QED BY <1>1, <2>1 DEF Dead
<1>5. CASE Start
  <2>1. /\ call = "idle" /\ token = 0 /\ starts < MaxStarts /\ UNCHANGED <<call, abandoned>>
        /\ token' = starts + 1 /\ thread' = starts + 1
        /\ \A g \in Generations : g # starts + 1 => deliver'[g] = deliver[g]
    BY <1>5 DEF Start, ThreadInv
  <2>2. abandoned = {} => \A g \in Generations : Dead(g)
    BY <2>1, Callings DEF OneInv
  <2> QED BY <2>1, <2>2 DEF OneInv, Dead
<1>6. CASE StopBegins
  BY <1>6 DEF StopBegins, OneInv, Dead
<1>7. CASE StopSentinel
  <2>1. UNCHANGED <<token, thread, deliver>> /\ call = "sentinel"
        /\ (abandoned' = {} => abandoned = {} /\ call' = "join")
    BY <1>7 DEF StopSentinel
  <2> QED BY <2>1 DEF OneInv, Dead
<1>8. CASE StopJoined
  <2>1. UNCHANGED <<token, deliver>> /\ call = "join"
        /\ (abandoned' = {} => abandoned = {} /\ Dead(thread))
    BY <1>8 DEF StopJoined
  <2> QED BY <2>1 DEF OneInv, Dead
<1>9. CASE Restart
  <2>1. token' = 0 /\ \A g \in Generations : Dead(g)'
    BY <1>9 DEF Restart, Dead, At
  <2> QED BY <2>1 DEF OneInv
<1>10. CASE UNCHANGED vars
  BY <1>1, <1>10 DEF vars, serviceVars, Dead
<1> QED BY <1>2, <1>3, <1>4, <1>5, <1>6, <1>7, <1>8, <1>9, <1>10 DEF Next

\* A step that sends nothing and puts nothing into the queue; it may drop an event.
LEMMA OrderSame ==
  ASSUME BusInv, OrderInv, UNCHANGED <<queue, sent>>, abandoned' = {} => abandoned = {},
         \A p \in Publishers : Last(p) \in Int /\ Last(p)' \in Int /\ Last(p) <= Last(p)',
         \A g \in Generations : deliver'[g].step = "send" => deliver'[g] = deliver[g]
  PROVE  OrderInv'
<1> SUFFICES ASSUME abandoned' = {}, NEW p \in Publishers
             PROVE  /\ sent'[p] \in Int /\ sent'[p] <= Last(p)'
                    /\ \A g \in Generations : InHand(g, p)' =>
                         sent'[p] < deliver'[g].event[2] /\ deliver'[g].event[2] <= Last(p)'
                    /\ \A i \in 1..Len(queue') : Queued(i, p)' =>
                         /\ sent'[p] < queue'[i][2] /\ queue'[i][2] <= Last(p)'
                         /\ \A g \in Generations : InHand(g, p)' => deliver'[g].event[2] < queue'[i][2]
                         /\ \A j \in 1..Len(queue') : i < j /\ Queued(j, p)' => queue'[i][2] < queue'[j][2]
  BY DEF OrderInv
<1>1. /\ sent[p] \in Int /\ sent[p] <= Last(p)
      /\ \A g \in Generations : InHand(g, p) =>
           sent[p] < deliver[g].event[2] /\ deliver[g].event[2] <= Last(p)
      /\ \A i \in 1..Len(queue) : Queued(i, p) =>
           /\ sent[p] < queue[i][2] /\ queue[i][2] <= Last(p)
           /\ \A g \in Generations : InHand(g, p) => deliver[g].event[2] < queue[i][2]
           /\ \A j \in 1..Len(queue) : i < j /\ Queued(j, p) => queue[i][2] < queue[j][2]
  BY DEF OrderInv
<1>2. Last(p) \in Int /\ Last(p)' \in Int /\ Last(p) <= Last(p)'
  OBVIOUS
<1>3. \A g \in Generations : InHand(g, p)' => InHand(g, p) /\ deliver'[g].event = deliver[g].event
                                              /\ deliver[g].event \in Events
  BY DEF InHand, BusInv
<1>4. \A i \in 1..Len(queue) : /\ Queued(i, p)' <=> Queued(i, p)
                               /\ queue'[i] = queue[i] /\ (Queued(i, p) => queue[i] \in Events)
  BY DEF Queued, BusInv
<1>5. \A e \in Events : e[2] \in Int
  BY DEF Events
<1> QED BY <1>1, <1>2, <1>3, <1>4, <1>5

\* With an event put into the queue, or nothing.
LEMMA LastIs ==
  ASSUME ThreadInv, BusInv, NEW p \in Publishers
  PROVE  /\ p \in Threads /\ Last(p) \in Int /\ published[p] \in Int
         /\ Waits(p) => Last(p) = published[p] - 1
         /\ ~Waits(p) => Last(p) = published[p]
BY DEF BusInv, Last, Threads

LEMMA OrderPublisher ==
  ASSUME ThreadInv, BusInv, OrderInv, [Next]_vars, NEW p \in Threads,
         (Publish(p) /\ p \in Publishers) \/ Record(p) \/ Count(p) \/ Purge(p)
  PROVE  OrderInv'
<1> ThreadInv' /\ BusInv'
  BY ThreadsKeep, BusKeeps
<1>1. UNCHANGED <<queue, sent, abandoned>>
  BY DEF Publish, Record, Count, Purge, serviceVars
<1>2. /\ \A q \in Threads \ {p} : pub'[q] = pub[q]
      /\ \A g \in Generations : deliver'[g].step = "send" => deliver'[g] = deliver[g]
      /\ \A q \in Publishers \ {p} : published'[q] = published[q]
      /\ p \in Publishers => Last(p)' \in Int /\ Last(p) <= Last(p)'
  <2>1. CASE Publish(p) /\ p \in Publishers
    <3>1. /\ pub[p].step = "idle" /\ published' = [published EXCEPT ![p] = @ + 1]
          /\ pub' = [pub EXCEPT ![p] = [step |-> "fan", event |-> <<p, published[p] + 1>>, todo |-> subs]]
          /\ UNCHANGED deliver
      BY <2>1 DEF Publish, Publishes
    <3>2. published[p] \in Int /\ published'[p] = published[p] + 1 /\ Last(p) = published[p]
      BY <2>1, <3>1, LastIs DEF BusInv, Waits
    <3>3. Last(p)' \in {published'[p], published'[p] - 1}
      BY DEF Last
    <3> QED BY <2>1, <3>1, <3>2, <3>3 DEF ThreadInv, BusInv
  <2>2. CASE NextSubscriber(p) /\ pub[p].step # "idle" /\ Head(pub[p].todo) = Audit /\ UNCHANGED <<starts, published>>
    <3>1. /\ \A q \in Threads \ {p} : pub'[q] = pub[q]
          /\ \/ /\ pub'[p].step = "fan" /\ \E g \in Generations : pub[p].todo = <<Audit, g>> /\ pub'[p].todo = <<g>>
             \/ pub'[p].step = "idle" /\ pub[p].todo = <<Audit>>
          /\ \A g \in Generations : deliver'[g].step = "send" => deliver'[g] = deliver[g]
      BY <2>2, Passes, Callings
    <3>2. \A g \in Generations : <<g>> # <<Audit>> /\ <<Audit, g>> # <<Audit>>
      <4>1. \A g \in Generations : <<g>>[1] # <<Audit>>[1]
        BY Callings
      <4>2. \A g : Len(<<Audit, g>>) # Len(<<Audit>>)
        OBVIOUS
      <4> QED BY <4>1, <4>2
    <3>3. Waits(p)' <=> Waits(p)
      BY <2>2, <3>1, <3>2 DEF Waits
    <3>4. p \in Publishers => Last(p)' = Last(p) /\ Last(p) \in Int
      BY <2>2, <3>3, LastIs DEF Last
    <3> QED BY <2>2, <3>1, <3>4
  <2>3. CASE /\ UNCHANGED <<deliver, published>> /\ pub[p].step # "idle"
             /\ \E s \in {"count", "purge"} : pub' = [pub EXCEPT ![p].step = s]
    <3>1. /\ \A q \in Threads \ {p} : pub'[q] = pub[q]
          /\ pub'[p].step # "idle" /\ pub'[p].todo = pub[p].todo
      BY <2>3 DEF ThreadInv
    <3>2. p \in Publishers => Last(p)' = Last(p) /\ Last(p) \in Int
      BY <2>3, <3>1, LastIs DEF Last, Waits
    <3> QED BY <2>3, <3>1, <3>2
  <2>4. \/ Publish(p) /\ p \in Publishers
        \/ pub[p].step # "idle" /\ Head(pub[p].todo) = Audit /\ UNCHANGED <<starts, published>>
    <3>1. CASE Count(p) \/ Purge(p)
      <4>1. pub[p].step \in {"count", "purge"} /\ UNCHANGED <<starts, published>>
        BY <3>1 DEF Count, Purge, serviceVars
      <4> QED BY <4>1 DEF BusInv
    <3>2. CASE Record(p)
      BY <3>2 DEF Record, Calls, serviceVars
    <3>3. CASE Publish(p) /\ p \in Publishers
      BY <3>3
    <3> QED BY <3>1, <3>2, <3>3
  <2> QED BY <2>1, <2>2, <2>3, <2>4 DEF Record, Count, Purge
<1>3. \A q \in Publishers : Last(q) \in Int /\ Last(q)' \in Int /\ Last(q) <= Last(q)'
  <2> SUFFICES ASSUME NEW q \in Publishers, q # p PROVE Last(q)' = Last(q)
    <3>1. \A q \in Publishers : Last(q) \in Int
      BY LastIs
    <3> QED BY <1>2, <3>1
  <2>1. pub'[q] = pub[q] /\ published'[q] = published[q]
    BY <1>2 DEF Threads
  <2> QED BY <2>1 DEF Last, Waits
<1> QED BY <1>1, <1>2, <1>3, OrderSame

LEMMA OrderService ==
  ASSUME ThreadInv, BusInv, OrderInv, [Next]_vars,
         \/ \E g \in Generations : Test(g)
         \/ Start \/ StopBegins \/ StopJoined \/ UNCHANGED vars
  PROVE  OrderInv'
<1>1. UNCHANGED <<pub, queue, sent, published>> /\ (abandoned' = {} => abandoned = {})
  BY DEF Test, Start, StopBegins, StopJoined, vars, serviceVars
<1>2. \A g \in Generations : deliver'[g].step = "send" => deliver'[g] = deliver[g]
  BY DEF Test, Goto, Start, StopBegins, StopJoined, vars, ThreadInv
<1>3. \A q \in Publishers : Last(q)' = Last(q) /\ Last(q) \in Int
  BY <1>1, LastIs DEF Last, Waits
<1> QED BY <1>1, <1>2, <1>3, OrderSame

LEMMA OrderEnqueue ==
  ASSUME ThreadInv, BusInv, OrderInv, [Next]_vars, NEW p \in Threads, Enqueue(p)
  PROVE  OrderInv'
<1> BusInv' /\ ThreadInv'
  BY BusKeeps, ThreadsKeep
<1>1. /\ pub[p].step = "fan" /\ NextSubscriber(p) /\ Head(pub[p].todo) \in Generations
      /\ UNCHANGED <<published, sent, abandoned, starts>>
      /\ queue' = IF pub[p].event # Meta /\ Len(queue) < Capacity
                  THEN Append(queue, pub[p].event) ELSE queue
  BY DEF Enqueue, Calls, serviceVars
<1>2. /\ pub'[p].step = "idle" /\ \A q \in Threads \ {p} : pub'[q] = pub[q]
      /\ \A g \in Generations : deliver'[g].step = "send" => deliver'[g] = deliver[g]
  BY <1>1, Passes, Callings
<1>3. \A q \in Publishers \ {p} : Last(q)' = Last(q)
  <2> SUFFICES ASSUME NEW q \in Publishers \ {p} PROVE Last(q)' = Last(q)
    OBVIOUS
  <2>1. q \in Threads /\ pub'[q] = pub[q] /\ published' = published
    BY <1>1, <1>2 DEF Threads
  <2> QED BY <2>1 DEF Last, Waits
<1>4. p \in Publishers => Last(p) = published[p] - 1 /\ Last(p)' = published[p] /\ published[p] \in Int
  <2>1. <<Audit>>[1] = Audit /\ Head(<<Audit>>) = Audit
    OBVIOUS
  <2>2. Waits(p) /\ ~Waits(p)'
    BY <1>1, <1>2, <2>1, Callings DEF Waits
  <2> QED BY <1>1, <2>2, LastIs DEF Last
<1>5. \A q \in Publishers : Last(q) \in Int /\ Last(q)' \in Int /\ Last(q) <= Last(q)'
  BY <1>3, <1>4, LastIs
<1>6. CASE queue' = queue
  BY <1>1, <1>2, <1>5, <1>6, OrderSame
<1>7. CASE pub[p].event # Meta /\ queue' = Append(queue, pub[p].event)
  <2> SUFFICES ASSUME abandoned' = {}, NEW q \in Publishers
               PROVE  /\ sent'[q] \in Int /\ sent'[q] <= Last(q)'
                      /\ \A g \in Generations : InHand(g, q)' =>
                           sent'[q] < deliver'[g].event[2] /\ deliver'[g].event[2] <= Last(q)'
                      /\ \A i \in 1..Len(queue') : Queued(i, q)' =>
                           /\ sent'[q] < queue'[i][2] /\ queue'[i][2] <= Last(q)'
                           /\ \A g \in Generations : InHand(g, q)' => deliver'[g].event[2] < queue'[i][2]
                           /\ \A j \in 1..Len(queue') : i < j /\ Queued(j, q)' => queue'[i][2] < queue'[j][2]
    BY DEF OrderInv
  <2>1. /\ sent[q] \in Int /\ sent[q] <= Last(q)
        /\ \A g \in Generations : InHand(g, q) =>
             sent[q] < deliver[g].event[2] /\ deliver[g].event[2] <= Last(q)
        /\ \A i \in 1..Len(queue) : Queued(i, q) =>
             /\ sent[q] < queue[i][2] /\ queue[i][2] <= Last(q)
             /\ \A g \in Generations : InHand(g, q) => deliver[g].event[2] < queue[i][2]
             /\ \A j \in 1..Len(queue) : i < j /\ Queued(j, q) => queue[i][2] < queue[j][2]
    BY <1>1 DEF OrderInv
  <2>2. p \in Publishers /\ pub[p].event = <<p, published[p]>>
    BY <1>1, <1>7 DEF BusInv, Threads
  <2>3. /\ Len(queue) \in Nat /\ Len(queue') = Len(queue) + 1
        /\ queue'[Len(queue) + 1] = <<p, published[p]>>
        /\ \A i \in 1..Len(queue) : queue'[i] = queue[i] /\ queue[i] \in Events \cup {Sentinel}
    <3>1. pub[p].event \in Events \cup {Sentinel}
      <4>1. published[p] \in 1..MaxEvents
        BY <1>1, <2>2 DEF BusInv
      <4> QED BY <2>2, <4>1 DEF Events
    <3>2. queue \in Seq(Events \cup {Sentinel})
      BY DEF BusInv
    <3> QED BY <1>7, <2>2, <3>1, <3>2, AppendProperties
  <2>4. \A g \in Generations : InHand(g, q)' => InHand(g, q) /\ deliver'[g] = deliver[g]
                                                /\ deliver[g].event \in Events
    BY <1>2 DEF InHand, BusInv
  <2>5. \A e \in Events : e[2] \in Int
    BY DEF Events
  <2>6. Last(q) \in Int /\ Last(q)' \in Int /\ Last(q) <= Last(q)' /\ (q = p => published[p] = Last(q) + 1 /\ Last(q)' = published[p])
    BY <1>4, <1>5
  <2>7. \A i \in 1..Len(queue) : Queued(i, q)' => Queued(i, q) /\ queue[i] \in Events
    BY <2>3 DEF Queued
  <2>8. \A i : i = Len(queue) + 1 /\ Queued(i, q)' => q = p /\ queue'[i][2] = published[p]
    BY <2>3 DEF Queued
  <2>9. \A i \in 1..Len(queue') : i \in 1..Len(queue) \/ i = Len(queue) + 1
    BY <2>3
  <2>10. \A g \in Generations : InHand(g, q)' =>
           sent'[q] < deliver'[g].event[2] /\ deliver'[g].event[2] <= Last(q)'
    BY <1>1, <2>1, <2>4, <2>5, <2>6
  <2>11. ASSUME NEW i \in 1..Len(queue'), Queued(i, q)'
         PROVE  /\ sent'[q] < queue'[i][2] /\ queue'[i][2] <= Last(q)'
                /\ \A g \in Generations : InHand(g, q)' => deliver'[g].event[2] < queue'[i][2]
                /\ \A j \in 1..Len(queue') : i < j /\ Queued(j, q)' => queue'[i][2] < queue'[j][2]
    <3>1. CASE i = Len(queue) + 1
      <4>1. q = p /\ queue'[i][2] = Last(q) + 1 /\ queue'[i][2] = Last(q)'
        BY <2>6, <2>8, <2>11, <3>1
      <4>2. \A j \in 1..Len(queue') : ~(i < j)
        BY <2>3, <3>1
      <4>3. sent'[q] = sent[q] /\ sent[q] < Last(q) + 1
        BY <1>1, <2>1, <2>6
      <4>4. \A g \in Generations : InHand(g, q)' => deliver'[g].event[2] < Last(q) + 1
        BY <2>1, <2>4, <2>5, <2>6
      <4> QED BY <2>6, <4>1, <4>2, <4>3, <4>4
    <3>2. CASE i \in 1..Len(queue)
      <4>1. Queued(i, q) /\ queue[i] \in Events /\ queue'[i] = queue[i] /\ queue[i][2] \in Int
        BY <2>3, <2>5, <2>7, <2>11, <3>2
      <4>2. sent'[q] < queue'[i][2] /\ queue'[i][2] <= Last(q)'
        BY <1>1, <2>1, <2>6, <3>2, <4>1
      <4>3. \A g \in Generations : InHand(g, q)' => deliver'[g].event[2] < queue'[i][2]
        BY <2>1, <2>4, <3>2, <4>1
      <4>4. ASSUME NEW j \in 1..Len(queue'), i < j, Queued(j, q)' PROVE queue'[i][2] < queue'[j][2]
        <5>1. CASE j \in 1..Len(queue)
          BY <2>1, <2>3, <2>7, <3>2, <4>1, <4>4, <5>1
        <5>2. CASE j = Len(queue) + 1
          <6>1. queue'[j][2] = Last(q) + 1
            BY <2>6, <2>8, <4>4, <5>2
          <6>2. queue[i][2] <= Last(q)
            BY <2>1, <3>2, <4>1
          <6> QED BY <2>6, <4>1, <6>1, <6>2
        <5> QED BY <2>9, <5>1, <5>2
      <4> QED BY <4>2, <4>3, <4>4
    <3> QED BY <2>9, <3>1, <3>2
  <2>12. sent'[q] \in Int /\ sent'[q] <= Last(q)'
    BY <1>1, <2>1, <2>6
  <2> QED BY <2>10, <2>11, <2>12
<1> QED BY <1>1, <1>6, <1>7

LEMMA OrderGet ==
  ASSUME ThreadInv, BusInv, OneInv, OrderInv, NEW g \in Generations, Get(g)
  PROVE  OrderInv'
<1> SUFFICES ASSUME abandoned' = {}, NEW p \in Publishers
             PROVE  /\ sent'[p] \in Int /\ sent'[p] <= Last(p)'
                    /\ \A h \in Generations : InHand(h, p)' =>
                         sent'[p] < deliver'[h].event[2] /\ deliver'[h].event[2] <= Last(p)'
                    /\ \A i \in 1..Len(queue') : Queued(i, p)' =>
                         /\ sent'[p] < queue'[i][2] /\ queue'[i][2] <= Last(p)'
                         /\ \A h \in Generations : InHand(h, p)' => deliver'[h].event[2] < queue'[i][2]
                         /\ \A j \in 1..Len(queue') : i < j /\ Queued(j, p)' => queue'[i][2] < queue'[j][2]
  BY DEF OrderInv
<1>1. /\ deliver[g].step = "get" /\ queue # <<>> /\ queue' = Tail(queue)
      /\ UNCHANGED <<abandoned, sent, pub, published>> /\ abandoned = {}
      /\ \A h \in Generations \ {g} : deliver'[h] = deliver[h]
      /\ deliver'[g] = IF Head(queue) = Sentinel THEN At("dead", Nothing) ELSE At("send", Head(queue))
  BY DEF Get, ThreadInv
<1>2. /\ sent[p] \in Int /\ sent[p] <= Last(p)
      /\ \A i \in 1..Len(queue) : Queued(i, p) =>
           /\ sent[p] < queue[i][2] /\ queue[i][2] <= Last(p)
           /\ \A j \in 1..Len(queue) : i < j /\ Queued(j, p) => queue[i][2] < queue[j][2]
  BY <1>1 DEF OrderInv
<1>3. Last(p)' = Last(p)
  BY <1>1 DEF Last, Waits
<1>4. /\ Len(queue) \in Nat \ {0} /\ Len(queue') = Len(queue) - 1 /\ Head(queue) = queue[1]
      /\ \A i \in 1..Len(queue') : queue'[i] = queue[i + 1]
  BY <1>1, HeadTailProperties, EmptySeq DEF BusInv
<1>5. \A h \in Generations : InHand(h, p)' => h = g /\ Queued(1, p) /\ deliver'[h].event = queue[1]
  <2>1. \A h \in Generations \ {g} : deliver[h].step # "send"
    BY <1>1 DEF OneInv, Dead
  <2>2. InHand(g, p)' => Queued(1, p) /\ deliver'[g].event = queue[1]
    BY <1>1, <1>4 DEF InHand, Queued, At
  <2> QED BY <1>1, <2>1, <2>2 DEF InHand
<1>6. \A i \in 1..Len(queue') :
        i + 1 \in 1..Len(queue) /\ 1 < i + 1 /\ (Queued(i, p)' => Queued(i + 1, p) /\ queue'[i] = queue[i + 1])
  BY <1>4 DEF Queued
<1>7. 1 \in 1..Len(queue)
  BY <1>4
<1>8. \A h \in Generations : InHand(h, p)' =>
        sent'[p] < deliver'[h].event[2] /\ deliver'[h].event[2] <= Last(p)'
  BY <1>1, <1>2, <1>3, <1>5, <1>7
<1>9. ASSUME NEW i \in 1..Len(queue'), Queued(i, p)'
      PROVE  /\ sent'[p] < queue'[i][2] /\ queue'[i][2] <= Last(p)'
             /\ \A h \in Generations : InHand(h, p)' => deliver'[h].event[2] < queue'[i][2]
             /\ \A j \in 1..Len(queue') : i < j /\ Queued(j, p)' => queue'[i][2] < queue'[j][2]
  <2>1. sent'[p] < queue'[i][2] /\ queue'[i][2] <= Last(p)'
    BY <1>1, <1>2, <1>3, <1>6, <1>9
  <2>2. \A h \in Generations : InHand(h, p)' => deliver'[h].event[2] < queue'[i][2]
    BY <1>2, <1>5, <1>6, <1>7, <1>9
  <2>3. ASSUME NEW j \in 1..Len(queue'), i < j, Queued(j, p)' PROVE queue'[i][2] < queue'[j][2]
    <3>1. i + 1 < j + 1
      BY <1>4, <2>3
    <3> QED BY <1>2, <1>6, <1>9, <2>3, <3>1
  <2> QED BY <2>1, <2>2, <2>3
<1> QED BY <1>1, <1>2, <1>3, <1>8, <1>9

LEMMA OrderSend ==
  ASSUME ThreadInv, BusInv, OneInv, OrderInv, NEW g \in Generations, Send(g)
  PROVE  OrderInv'
<1> SUFFICES ASSUME abandoned' = {}, NEW p \in Publishers
             PROVE  /\ sent'[p] \in Int /\ sent'[p] <= Last(p)'
                    /\ \A h \in Generations : InHand(h, p)' =>
                         sent'[p] < deliver'[h].event[2] /\ deliver'[h].event[2] <= Last(p)'
                    /\ \A i \in 1..Len(queue') : Queued(i, p)' =>
                         /\ sent'[p] < queue'[i][2] /\ queue'[i][2] <= Last(p)'
                         /\ \A h \in Generations : InHand(h, p)' => deliver'[h].event[2] < queue'[i][2]
                         /\ \A j \in 1..Len(queue') : i < j /\ Queued(j, p)' => queue'[i][2] < queue'[j][2]
  BY DEF OrderInv
<1>1. /\ deliver[g].step = "send" /\ deliver'[g].step # "send"
      /\ UNCHANGED <<abandoned, queue, published>> /\ abandoned = {}
      /\ sent' = [sent EXCEPT ![deliver[g].event[1]] = deliver[g].event[2]]
      /\ \A h \in Generations \ {g} : deliver'[h] = deliver[h]
      /\ \A q \in Threads \ {g} : pub'[q] = pub[q]
  BY DEF Send, Publishes, At, ThreadInv
<1>2. \A h \in Generations : ~InHand(h, p)'
  <2>1. \A h \in Generations \ {g} : deliver[h].step # "send"
    BY <1>1 DEF OneInv, Dead
  <2> QED BY <1>1, <2>1 DEF InHand
<1>3. Last(p)' = Last(p)
  <2>1. p \in Threads \ {g}
    BY PublishersAssumption DEF Threads
  <2> QED BY <1>1, <2>1 DEF Last, Waits
<1>4. \/ sent'[p] = sent[p]
      \/ InHand(g, p) /\ sent'[p] = deliver[g].event[2]
  <2>1. CASE deliver[g].event[1] = p
    BY <1>1, <2>1 DEF InHand, BusInv
  <2>2. CASE deliver[g].event[1] # p
    BY <1>1, <2>2 DEF BusInv
  <2> QED BY <2>1, <2>2
<1>5. deliver[g].event[2] \in Int
  BY <1>1 DEF BusInv, Events
<1>6. \A i : Queued(i, p)' <=> Queued(i, p)
  BY <1>1 DEF Queued
<1> QED BY <1>1, <1>2, <1>3, <1>4, <1>5, <1>6 DEF OrderInv

LEMMA OrderSentinel ==
  ASSUME ThreadInv, BusInv, OrderInv, StopSentinel
  PROVE  OrderInv'
<1> SUFFICES ASSUME abandoned' = {}, NEW p \in Publishers
             PROVE  /\ sent'[p] \in Int /\ sent'[p] <= Last(p)'
                    /\ \A h \in Generations : InHand(h, p)' =>
                         sent'[p] < deliver'[h].event[2] /\ deliver'[h].event[2] <= Last(p)'
                    /\ \A i \in 1..Len(queue') : Queued(i, p)' =>
                         /\ sent'[p] < queue'[i][2] /\ queue'[i][2] <= Last(p)'
                         /\ \A h \in Generations : InHand(h, p)' => deliver'[h].event[2] < queue'[i][2]
                         /\ \A j \in 1..Len(queue') : i < j /\ Queued(j, p)' => queue'[i][2] < queue'[j][2]
  BY DEF OrderInv
<1>1. /\ abandoned = {} /\ queue' = Append(queue, Sentinel)
      /\ UNCHANGED <<pub, published, sent, deliver>>
  BY DEF StopSentinel
<1>2. /\ Len(queue) \in Nat /\ Len(queue') = Len(queue) + 1 /\ queue'[Len(queue) + 1] = Sentinel
      /\ \A i \in 1..Len(queue) : queue'[i] = queue[i]
  <2>1. Sentinel \in Events \cup {Sentinel}
    OBVIOUS
  <2> QED BY <1>1, <2>1, AppendProperties DEF BusInv
<1>3. \A i \in 1..Len(queue') : Queued(i, p)' => i \in 1..Len(queue) /\ Queued(i, p) /\ queue'[i] = queue[i]
  BY <1>2 DEF Queued
<1>4. Last(p)' = Last(p) /\ \A h \in Generations : InHand(h, p)' <=> InHand(h, p)
  BY <1>1 DEF Last, Waits, InHand
<1> QED BY <1>1, <1>3, <1>4 DEF OrderInv

LEMMA OrderRestart ==
  ASSUME ThreadInv, BusInv, OrderInv, Restart
  PROVE  OrderInv'
<1>1. /\ UNCHANGED <<sent, abandoned, published>> /\ Len(queue') = 0
      /\ \A g \in Generations : deliver'[g].step # "send"
      /\ \A p \in Publishers : pub'[p].step = "idle"
  BY DEF Restart, Quiet, Dead, At, Threads
<1>2. \A p \in Publishers : Last(p)' = published[p] /\ Last(p) \in {published[p], published[p] - 1}
                            /\ published[p] \in Int
  BY <1>1 DEF Last, Waits, BusInv
<1> QED BY <1>1, <1>2 DEF OrderInv, InHand

LEMMA OrderKeeps ==
  ASSUME ThreadInv, BusInv, OneInv, OrderInv, [Next]_vars
  PROVE  OrderInv'
BY OrderPublisher, OrderService, OrderEnqueue, OrderGet, OrderSend, OrderSentinel, OrderRestart
   DEF Next, PublisherStep, DeliveryStep, Threads

-----------------------------------------------------------------------------
(* Theorems *)

LEMMA Invariance == Spec => [](ThreadInv /\ RowsInv)
<1>1. Init => ThreadInv /\ RowsInv
  BY ThreadsInitially, RowsInitially
<1>2. ThreadInv /\ RowsInv /\ [Next]_vars => (ThreadInv /\ RowsInv)'
  BY ThreadsKeep, RowsKeep
<1> QED BY <1>1, <1>2, PTL DEF Spec

\* However many threads publish, and whatever fails or restarts, the audit table exceeds its
\* limit by no more than one interval, the events not yet counted, and an interval for each
\* purge under way or lost (audit.py, record, _maybe_purge).
THEOREM TableKeepsToLimit == Spec => []AuditBounded
<1>1. RowsInv => AuditBounded
  <2> SUFFICES ASSUME RowsInv PROVE AuditBounded
    OBVIOUS
  <2> DEFINE Held == PurgeEvery * (Cardinality(Purging) + lapses)
  <2>1. /\ Cardinality(Counting) \in Nat /\ Held \in Nat /\ rows \in Nat
        /\ writes \in 0..(PurgeEvery - 1) /\ rows <= MaxRows + writes + Cardinality(Counting) + Held
    BY ThreadsFinite DEF RowsInv
  <2> HIDE DEF Held
  <2>2. rows <= MaxRows + (PurgeEvery - 1) + Cardinality(Counting) + Held
    BY <2>1
  <2> QED BY <2>2 DEF AuditBounded, Held
<1> QED BY <1>1, Invariance, PTL

DeliveryInv == ThreadInv /\ BusInv /\ OneInv /\ OrderInv

\* However publishers and the service's threads interleave, whatever is dropped, and across
\* stops, starts and restarts: a publisher's events reach the channels in the order of their
\* publication, and once, unless stop() gave up on a thread (notifications.py, start, stop, _run).
THEOREM DeliveredInOrder == Spec => InOrder
<1>1. Init => DeliveryInv
  BY ThreadsInitially, BusInitially, OrderInitially DEF DeliveryInv
<1>2. DeliveryInv /\ [Next]_vars => DeliveryInv'
  BY ThreadsKeep, BusKeeps, OneKeeps, OrderKeeps DEF DeliveryInv
<1>3. DeliveryInv =>
        \A g \in Generations :
          abandoned = {} /\ deliver[g].step = "send" /\ deliver'[g].step \in {"test", "told"}
          => sent[deliver[g].event[1]] < deliver[g].event[2]
  <2> SUFFICES ASSUME DeliveryInv, NEW g \in Generations, abandoned = {}, deliver[g].step = "send"
               PROVE  sent[deliver[g].event[1]] < deliver[g].event[2]
    OBVIOUS
  <2>1. deliver[g].event[1] \in Publishers
    BY DEF DeliveryInv, BusInv, Events
  <2> QED BY <2>1 DEF DeliveryInv, OrderInv, InHand
<1> QED BY <1>1, <1>2, <1>3, PTL DEF Spec, InOrder

=============================================================================
