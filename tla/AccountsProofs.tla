--------------------------- MODULE AccountsProofs ---------------------------
(***************************************************************************)
(* Theorems about Accounts, for any accounts, exports, tasks, attempts and *)
(* bounds: what the pools and the database remember of an account counts   *)
(* nothing twice and keeps it from use no longer than Onshape asked.       *)
(***************************************************************************)
EXTENDS Accounts, TLAPS

USE AccountsAssumption

Counts == [usage : Nat, failures : Nat]
ThreadsOf(e) == {Main(e)} \cup TasksOf(e)
Fields == {"step", "next", "attempt", "wake", "payload"}

\* A record that counts no more than was recorded and rests no longer than was told.
Sound(r, counts, limit) ==
  /\ r \in Records
  /\ r.usage <= counts.usage /\ r.failures <= counts.failures /\ r.until <= limit

\* A record that does not rest for ever.
Ends(r) == r.status = "rate_limited" => r.until # 0

\* The record of an account is being changed in a pool.
Writing(p, a) == \E t \in Threads : t[1] = p /\ thread[t].step = "until" /\ a \in leased[p]

\* Where records are kept: in the database and in the pools.
DataInv ==
  /\ now \in Nat
  /\ recorded \in [Accounts -> Counts] /\ told \in [Accounts -> Nat] /\ blurred \subseteq Accounts
  /\ DOMAIN stored = Accounts /\ DOMAIN copy = Pools
  /\ \A p \in Pools : DOMAIN copy[p] = Accounts
  /\ \A a \in Accounts : Sound(stored[a], recorded[a], told[a]) /\ (Ends(stored[a]) \/ a \in blurred)
  /\ \A p \in Pools : \A a \in Accounts :
       /\ Sound(copy[p][a], recorded[a], told[a])
       /\ Ends(copy[p][a]) \/ a \in blurred \/ Writing(p, a)

Saves == {"until", "dump", "read", "store"}

Begun == {"begin", "call", "sleep", "work", "raise", "done"} \cup Saves

Nexts == {"sleep", "work", "raise", "done"}

\* What thread t of export e holds of its account: the record it leased, the one it has
\* begun to write to the pool, or the one it read from there.
Holds(e, t, a) ==
  /\ thread[t].step \in {"begin", "until", "read", "store"} =>
       Sound(thread[t].payload, recorded[a], told[a])
  /\ thread[t].step \in {"begin", "until", "store"} => Ends(thread[t].payload) \/ a \in blurred
  /\ thread[t].step = "until" => copy[e][a] = [thread[t].payload EXCEPT !.until = copy[e][a].until]

\* An export leases once, before its tasks start and before it saves: a record on its way
\* is one of the account that is leased. The lock lets one thread change it at a time.
ThreadInv ==
  /\ DOMAIN thread = Threads /\ DOMAIN leased = Exports
  /\ \A e \in Exports : leased[e] \subseteq Accounts /\ \A a, b \in leased[e] : a = b
  /\ \A t \in Threads :
       /\ DOMAIN thread[t] = Fields
       /\ thread[t].step \in Saves => thread[t].next \in Nexts
  /\ \A e \in Exports : thread[Main(e)].step \notin Begun =>
       \A t \in TasksOf(e) : thread[t].step \notin Begun
  /\ \A e \in Exports : \A t, u \in ThreadsOf(e) :
       thread[t].step = "until" /\ thread[u].step = "until" => t = u
  /\ \A e \in Exports : \A t \in ThreadsOf(e) : \A a \in leased[e] : Holds(e, t, a)

AccountInv == DataInv /\ ThreadInv

-----------------------------------------------------------------------------
(* Records *)

LEMMA SoundLater ==
  ASSUME NEW r, NEW c \in Counts, NEW d \in Counts, NEW m \in Nat, NEW n \in Nat, Sound(r, c, m),
         c.usage <= d.usage, c.failures <= d.failures, m <= n
  PROVE  Sound(r, d, n)
BY DEF Sound, Records, Counts

\* A record half written: the time is still the one of before.
LEMMA SoundMidway ==
  ASSUME NEW r, NEW c \in Counts, NEW m \in Nat, NEW time \in Nat, Sound(r, c, m), time <= m
  PROVE  Sound([r EXCEPT !.until = time], c, m)
BY DEF Sound, Records

LEMMA SuccessSound ==
  ASSUME NEW r, NEW c \in Counts, NEW d \in Counts, NEW m \in Nat, Sound(r, c, m),
         d.usage = c.usage + 1, d.failures = c.failures
  PROVE  Sound(Success(r), d, m) /\ Ends(Success(r))
<1>1. /\ r \in Records /\ r.usage \in Nat /\ r.failures \in Nat /\ r.until \in Nat
      /\ c.usage \in Nat /\ c.failures \in Nat /\ r.usage <= c.usage /\ r.failures <= c.failures
  BY DEF Sound, Records, Counts
<1> DEFINE more == r.usage + 1
           s == [r EXCEPT !.usage = more, !.status = "available", !.until = 0]
<1>2. more \in Nat /\ Success(r) = s
  BY <1>1 DEF Success
<1> HIDE DEF more
<1>3. s \in Records /\ s.usage = more /\ s.failures = r.failures /\ s.status = "available" /\ s.until = 0
  BY <1>1, <1>2 DEF Records, Statuses
<1> HIDE DEF s
<1> QED BY <1>1, <1>2, <1>3 DEF Sound, Ends, more, Counts

LEMMA FailureSound ==
  ASSUME NEW r, NEW c \in Counts, NEW d \in Counts, NEW m \in Nat, Sound(r, c, m),
         d.usage = c.usage, d.failures = c.failures + 1
  PROVE  Sound(Failure(r), d, m) /\ Ends(Failure(r))
<1>1. /\ r \in Records /\ r.usage \in Nat /\ r.failures \in Nat /\ r.until \in Nat
      /\ c.usage \in Nat /\ c.failures \in Nat /\ r.usage <= c.usage /\ r.failures <= c.failures
  BY DEF Sound, Records, Counts
<1> DEFINE more == r.failures + 1
           s == [r EXCEPT !.failures = more, !.status = "failed"]
<1>2. more \in Nat /\ Failure(r) = s
  BY <1>1 DEF Failure
<1> HIDE DEF more
<1>3. s \in Records /\ s.failures = more /\ s.usage = r.usage /\ s.status = "failed"
      /\ s.until = r.until
  BY <1>1, <1>2 DEF Records, Statuses
<1> HIDE DEF s
<1> QED BY <1>1, <1>2, <1>3 DEF Sound, Ends, more, Counts

LEMMA LimitedSound ==
  ASSUME NEW r, NEW c \in Counts, NEW d \in Counts, NEW m \in Nat, Sound(r, c, m),
         d.usage = c.usage, d.failures = c.failures + 1,
         NEW reset \in Nat, NEW n \in Nat, 0 < reset, reset <= n
  PROVE  Sound(RateLimited(r, reset), d, n) /\ Ends(RateLimited(r, reset))
<1>1. /\ r \in Records /\ r.usage \in Nat /\ r.failures \in Nat /\ r.until \in Nat
      /\ c.usage \in Nat /\ c.failures \in Nat /\ r.usage <= c.usage /\ r.failures <= c.failures
  BY DEF Sound, Records, Counts
<1> DEFINE more == r.failures + 1
           s == [r EXCEPT !.failures = more, !.status = "rate_limited", !.until = reset]
<1>2. more \in Nat /\ RateLimited(r, reset) = s
  BY <1>1 DEF RateLimited
<1> HIDE DEF more
<1>3. s \in Records /\ s.failures = more /\ s.usage = r.usage /\ s.until = reset
  BY <1>1, <1>2 DEF Records, Statuses
<1> HIDE DEF s
<1> QED BY <1>1, <1>2, <1>3 DEF Sound, Ends, more, Counts

LEMMA ClearedSound ==
  ASSUME NEW r, NEW c \in Counts, NEW m \in Nat, Sound(r, c, m)
  PROVE  Sound(Cleared(r), c, m) /\ (Ends(r) => Ends(Cleared(r)))
<1> DEFINE s == [r EXCEPT !.status = "available", !.until = 0]
<1>1. r \in Records /\ r.usage <= c.usage /\ r.failures <= c.failures /\ 0 <= m
  BY DEF Sound
<1>2. s \in Records /\ s.usage = r.usage /\ s.failures = r.failures /\ s.status = "available" /\ s.until = 0
  BY <1>1 DEF Records, Statuses
<1>3. Cleared(r) = r \/ Cleared(r) = s
  BY DEF Cleared
<1> HIDE DEF s
<1>4. Sound(s, c, m) /\ Ends(s)
  BY <1>1, <1>2 DEF Sound, Ends
<1> QED BY <1>3, <1>4

-----------------------------------------------------------------------------
(* Steps *)

\* More is recorded and told, never less.
Grows ==
  /\ recorded' \in [Accounts -> Counts] /\ told' \in [Accounts -> Nat]
  /\ blurred \subseteq blurred' /\ blurred' \subseteq Accounts
  /\ \A a \in Accounts : /\ recorded[a].usage <= recorded'[a].usage
                         /\ recorded[a].failures <= recorded'[a].failures
                         /\ told[a] <= told'[a]

LEMMA GrowsIdle ==
  ASSUME DataInv, UNCHANGED <<recorded, told>>, blurred \subseteq blurred', blurred' \subseteq Accounts
  PROVE  Grows
BY DEF DataInv, Grows, Counts

LEMMA SoundStays ==
  ASSUME DataInv, Grows, NEW a \in Accounts, NEW r, Sound(r, recorded[a], told[a])
  PROVE  Sound(r, recorded'[a], told'[a])
<1>1. /\ recorded[a] \in Counts /\ recorded'[a] \in Counts /\ told[a] \in Nat /\ told'[a] \in Nat
      /\ recorded[a].usage <= recorded'[a].usage /\ recorded[a].failures <= recorded'[a].failures
      /\ told[a] <= told'[a]
  BY DEF Grows, DataInv
<1> QED BY <1>1, SoundLater

LEMMA PoolRecords ==
  ASSUME DataInv, Grows, NEW p \in Pools, NEW a \in Accounts, NEW r,
         Sound(r, recorded'[a], told'[a]), Ends(r) \/ a \in blurred' \/ Writing(p, a)',
         copy' = [copy EXCEPT ![p][a] = r], UNCHANGED <<now, stored>>,
         \A q \in Pools, b \in Accounts : (q # p \/ b # a) /\ Writing(q, b) => Writing(q, b)'
  PROVE  DataInv'
<1>1. \A q \in Pools : DOMAIN copy'[q] = Accounts /\ \A b \in Accounts :
        ((q # p \/ b # a) /\ copy'[q][b] = copy[q][b]) \/ (q = p /\ b = a /\ copy'[q][b] = r)
  BY DEF DataInv
<1>2. ASSUME NEW b \in Accounts
      PROVE  /\ Sound(stored[b], recorded'[b], told'[b]) /\ (Ends(stored[b]) \/ b \in blurred')
             /\ \A q \in Pools : Sound(copy[q][b], recorded'[b], told'[b])
  BY SoundStays DEF DataInv, Grows
<1>3. ASSUME NEW q \in Pools, NEW b \in Accounts
      PROVE  /\ Sound(copy'[q][b], recorded'[b], told'[b])
             /\ Ends(copy'[q][b]) \/ b \in blurred' \/ Writing(q, b)'
  <2>1. CASE q = p /\ b = a
    BY <1>1, <2>1
  <2>2. CASE q # p \/ b # a
    <3>1. copy'[q][b] = copy[q][b]
      BY <1>1, <2>2
    <3>2. Ends(copy[q][b]) \/ b \in blurred \/ Writing(q, b)
      BY DEF DataInv
    <3>3. Writing(q, b) => Writing(q, b)'
      BY <2>2
    <3> HIDE DEF Writing
    <3> QED BY <1>2, <3>1, <3>2, <3>3, Zenon DEF Grows
  <2> QED BY <2>1, <2>2
<1> QED BY <1>1, <1>2, <1>3 DEF DataInv, Grows

\* The pools stay as they are.
LEMMA PoolsStay ==
  ASSUME DataInv, Grows, UNCHANGED <<now, copy>>, DOMAIN stored' = Accounts,
         \A a \in Accounts : stored'[a] # stored[a] =>
           Sound(stored'[a], recorded'[a], told'[a]) /\ (Ends(stored'[a]) \/ a \in blurred'),
         \A q \in Pools, b \in Accounts : Writing(q, b) => Writing(q, b)'
  PROVE  DataInv'
<1>1. ASSUME NEW a \in Accounts
      PROVE  Sound(stored'[a], recorded'[a], told'[a]) /\ (Ends(stored'[a]) \/ a \in blurred')
  <2>1. CASE stored'[a] = stored[a]
    BY <2>1, SoundStays DEF DataInv, Grows
  <2> QED BY <2>1
<1>2. ASSUME NEW p \in Pools, NEW a \in Accounts
      PROVE  /\ Sound(copy[p][a], recorded'[a], told'[a])
             /\ Ends(copy[p][a]) \/ a \in blurred' \/ Writing(p, a)'
  <2>1. Sound(copy[p][a], recorded[a], told[a]) /\ (Ends(copy[p][a]) \/ a \in blurred \/ Writing(p, a))
    BY DEF DataInv
  <2>2. Sound(copy[p][a], recorded'[a], told'[a])
    BY <2>1, SoundStays
  <2> QED BY <2>1, <2>2 DEF Grows
<1> QED BY <1>1, <1>2 DEF DataInv, Grows

OnlyMoves(t) ==
  /\ DOMAIN thread' = Threads /\ DOMAIN thread'[t] = Fields
  /\ \A u \in Threads \ {t} : thread'[u] = thread[u]

LEMMA Threading ==
  \A e \in Exports :
    /\ Main(e) \in ThreadsOf(e) /\ ThreadsOf(e) \subseteq Threads
    /\ \A t \in ThreadsOf(e) : t[1] = e /\ \A f \in Exports : t \in ThreadsOf(f) => f = e
    /\ \A t \in Threads : t[1] = e => t \in ThreadsOf(e)
    /\ e \in Pools /\ Web \in Pools /\ e # Web
<1>1. \A e \in Exports : Main(e)[1] = e /\ \A t \in TasksOf(e) : t[1] = e
  BY DEF Main, TasksOf
<1>2. \A e \in Exports : \A t \in ThreadsOf(e) : t[1] = e
  BY <1>1 DEF ThreadsOf
<1>3. \A t \in Threads : \E e \in Exports : t \in ThreadsOf(e)
  BY DEF Threads, ThreadsOf
<1>4. \A e \in Exports : Main(e) \in ThreadsOf(e) /\ ThreadsOf(e) \subseteq Threads
  BY DEF Threads, ThreadsOf
<1> QED BY <1>2, <1>3, <1>4 DEF Pools

\* A record that is being changed stays so unless its own thread ends that.
LEMMA WritingStays ==
  ASSUME NEW t \in Threads, OnlyMoves(t), UNCHANGED leased, NEW q, NEW b,
         thread[t].step = "until" => thread'[t].step = "until" \/ q # t[1], Writing(q, b)
  PROVE  Writing(q, b)'
<1>1. PICK u \in Threads : u[1] = q /\ thread[u].step = "until" /\ b \in leased[q]
  BY DEF Writing
<1>2. thread'[u].step = "until" /\ b \in leased'[q]
  BY <1>1 DEF OnlyMoves
<1> QED BY <1>1, <1>2 DEF Writing

\* One thread of export e moves on; nobody leases.
LEMMA ThreadMoves ==
  ASSUME DataInv, ThreadInv, Grows, NEW e \in Exports, NEW t \in ThreadsOf(e),
         OnlyMoves(t), UNCHANGED leased,
         thread'[t].step \in Saves => thread'[t].next \in Nexts,
         thread'[t].step \in Begun /\ (t # Main(e) => thread[Main(e)].step \in Begun),
         \A u \in ThreadsOf(e) \ {t} : thread[u].step = "until" =>
           thread'[t].step # "until" /\ copy'[e] = copy[e],
         \A f \in Exports \ {e} : copy'[f] = copy[f],
         \A a \in leased[e] : Holds(e, t, a)'
  PROVE  ThreadInv'
<1> USE DEF OnlyMoves
<1>1. t \in Threads /\ Main(e) \in Threads
  BY Threading
<1>2. \A f \in Exports : /\ Main(f) \in Threads
                         /\ \A u \in ThreadsOf(f) : u \in Threads /\ (u = t => f = e)
  BY Threading
<1>3. ASSUME NEW f \in Exports, thread'[Main(f)].step \notin Begun, NEW u \in TasksOf(f)
      PROVE  thread'[u].step \notin Begun
  <2>1. u \in ThreadsOf(f) /\ Main(f) \in ThreadsOf(f)
    BY DEF ThreadsOf
  <2>2. CASE f = e
    <3>1. t # Main(e)
      BY <1>3, <2>2
    <3>2. thread'[Main(e)] = thread[Main(e)] /\ thread[Main(e)].step \in Begun
      BY <1>1, <3>1
    <3> QED BY <1>3, <2>2, <3>2
  <2>3. CASE f # e
    <3>1. u # t /\ Main(f) # t /\ u \in Threads /\ Main(f) \in Threads
      BY <1>2, <2>1, <2>3
    <3> QED BY <1>3, <3>1 DEF ThreadInv
  <2> QED BY <2>2, <2>3
<1>4. ASSUME NEW f \in Exports, NEW u \in ThreadsOf(f), NEW a \in leased[f]
      PROVE  Holds(f, u, a)'
  <2>1. CASE u = t
    BY <1>2, <1>4, <2>1
  <2>2. CASE u # t
    <3>1. a \in Accounts /\ Holds(f, u, a) /\ thread'[u] = thread[u]
      BY <1>2, <1>4, <2>2 DEF ThreadInv
    <3>2. thread[u].step = "until" => copy'[f] = copy[f]
      BY <1>2, <2>2
    <3>3. \A r : Sound(r, recorded[a], told[a]) => Sound(r, recorded'[a], told'[a])
      BY <3>1, SoundStays
    <3>4. a \in blurred => a \in blurred'
      BY DEF Grows
    <3>5. /\ thread'[u].step \in {"begin", "until", "read", "store"} =>
               Sound(thread'[u].payload, recorded'[a], told'[a])
          /\ thread'[u].step \in {"begin", "until", "store"} => Ends(thread'[u].payload) \/ a \in blurred'
      BY <3>1, <3>3, <3>4 DEF Holds
    <3>6. thread'[u].step = "until" =>
            copy'[f][a] = [thread'[u].payload EXCEPT !.until = copy'[f][a].until]
      BY <3>1, <3>2 DEF Holds
    <3> QED BY <3>5, <3>6 DEF Holds
  <2> QED BY <2>1, <2>2
<1>5. \A u \in Threads : DOMAIN thread'[u] = Fields
        /\ (thread'[u].step \in Saves => thread'[u].next \in Nexts)
  BY DEF ThreadInv
<1>6. ASSUME NEW f \in Exports, NEW u \in ThreadsOf(f), NEW v \in ThreadsOf(f),
             thread'[u].step = "until", thread'[v].step = "until"
      PROVE  u = v
  <2>1. CASE u # t /\ v # t
    BY <1>2, <1>6, <2>1 DEF ThreadInv
  <2>2. CASE u = t \/ v = t
    BY <1>2, <1>6, <2>2
  <2> QED BY <2>1, <2>2
<1> QED BY <1>3, <1>4, <1>5, <1>6 DEF ThreadInv

\* A thread of an export in progress has begun, and so has its main thread.
LEMMA InProgress ==
  ASSUME ThreadInv, NEW e \in Exports, NEW t \in ThreadsOf(e), thread[t].step \in Begun
  PROVE  /\ t \in Threads /\ (t # Main(e) => thread[Main(e)].step \in Begun)
         /\ t[1] = e /\ e \in Pools /\ leased[e] \subseteq Accounts
         /\ DOMAIN thread = Threads /\ DOMAIN thread[t] = Fields
<1>1. t \in Threads /\ t[1] = e /\ e \in Pools
  BY Threading
<1>2. t # Main(e) => thread[Main(e)].step \in Begun
  BY DEF ThreadInv, ThreadsOf
<1> QED BY <1>1, <1>2 DEF ThreadInv

LEMMA Saving ==
  ASSUME ThreadInv, NEW t \in Threads, NEW r, NEW step \in {"work", "raise", "done"},
         SaveThen(t, r, step)
  PROVE  /\ OnlyMoves(t) /\ thread'[t].step = "until" /\ thread'[t].next = step
         /\ thread'[t].payload = r
BY DEF ThreadInv, SaveThen, Rest, OnlyMoves, Fields

LEMMA Retrying ==
  ASSUME ThreadInv, NEW t \in Threads, NEW r, NEW waits, RetryOrFail(t, r, waits)
  PROVE  /\ OnlyMoves(t) /\ thread'[t].step = "until" /\ thread'[t].next \in {"sleep", "raise", "done"}
         /\ thread'[t].payload = r
<1>1. Fails(t) \in {"raise", "done"}
  BY DEF Fails
<1>2. CASE SaveThen(t, r, Fails(t))
  BY <1>1, <1>2, Saving
<1>3. CASE \E wait \in waits :
             thread' = [thread EXCEPT ![t].step = "until", ![t].next = "sleep", ![t].payload = r,
                                      ![t].attempt = @ + 1, ![t].wake = now + wait]
  BY <1>3 DEF ThreadInv, OnlyMoves, Fields
<1> QED BY <1>2, <1>3 DEF RetryOrFail

\* What is recorded of an answer is begun to be written in the pool of the export, and counted.
LEMMA Recording ==
  ASSUME AccountInv, NEW e \in Exports, NEW t \in ThreadsOf(e), thread[t].step \in Begun,
         thread[t].step # "until", NEW a \in leased[e], NEW r, Grows,
         Sound(r, recorded'[a], told'[a]), Ends(r), Record(e, a, r),
         OnlyMoves(t), thread'[t].step = "until", thread'[t].payload = r,
         thread'[t].next \in {"sleep", "work", "raise", "done"},
         UNCHANGED <<now, stored, leased>>
  PROVE  AccountInv'
<1> DEFINE half == [r EXCEPT !.until = copy[e][a].until]
<1>1. /\ t \in Threads /\ t[1] = e /\ e \in Pools /\ a \in Accounts /\ DOMAIN copy = Pools
      /\ DOMAIN copy[e] = Accounts /\ copy' = [copy EXCEPT ![e][a] = half]
      /\ \A u \in ThreadsOf(e) : u \in Threads /\ u[1] = e
  BY InProgress, Threading DEF AccountInv, DataInv, Record
<1>2. Sound(half, recorded'[a], told'[a])
  <2>1. Sound(copy[e][a], recorded'[a], told'[a])
    BY <1>1, SoundStays DEF AccountInv, DataInv
  <2>2. recorded'[a] \in Counts /\ told'[a] \in Nat
    BY <1>1 DEF Grows
  <2>3. copy[e][a].until \in Nat /\ copy[e][a].until <= told'[a]
    BY <2>1 DEF Sound, Records
  <2> QED BY <2>2, <2>3, SoundMidway
<1>3. Writing(e, a)'
  BY <1>1 DEF Writing
<1>4. \A q \in Pools, b \in Accounts : Writing(q, b) => Writing(q, b)'
  BY <1>1, WritingStays
<1>5. copy'[e][a] = half /\ \A f \in Exports \ {e} : copy'[f] = copy[f]
  BY <1>1
<1>6. r \in Records
  BY DEF Sound
<1> HIDE DEF half
<1>7. DataInv'
  BY <1>1, <1>2, <1>3, <1>4, PoolRecords, ZenonT(60) DEF AccountInv
<1>8. half = [r EXCEPT !.until = half.until]
  BY <1>6 DEF half, Records
<1>9. \A u \in ThreadsOf(e) : thread[u].step # "until"
  BY <1>1 DEF Record, Locked, At
<1>10. \A b \in leased[e] : Holds(e, t, b)'
  <2> TAKE b \in leased[e]
  <2>1. b = a
    BY DEF AccountInv, ThreadInv
  <2> QED BY <1>5, <1>8, <2>1 DEF Holds
<1>11. ThreadInv'
  <2>1. thread'[t].step \in Begun /\ thread'[t].next \in Nexts
    BY DEF Begun, Saves, Nexts
  <2> QED BY <1>5, <1>9, <1>10, <2>1, InProgress, ThreadMoves DEF AccountInv
<1> QED BY <1>7, <1>11 DEF AccountInv

LEMMA Counted ==
  ASSUME DataInv, NEW a \in Accounts, UNCHANGED blurred,
         CountSuccess(a) \/ CountFailure(a),
         UNCHANGED told \/ (told' \in [Accounts -> Nat] /\ \A b \in Accounts : told[b] <= told'[b])
  PROVE  Grows /\ recorded'[a] \in Counts
<1>1. /\ recorded \in [Accounts -> Counts] /\ recorded[a].usage \in Nat /\ recorded[a].failures \in Nat
      /\ told' \in [Accounts -> Nat] /\ \A b \in Accounts : told[b] <= told'[b]
      /\ blurred' \subseteq Accounts
  BY DEF DataInv, Counts
<1>2. CASE CountSuccess(a)
  <2> DEFINE new == [recorded[a] EXCEPT !.usage = @ + 1]
  <2>1. recorded' = [recorded EXCEPT ![a] = new]
    BY <1>2 DEF CountSuccess
  <2>2. new \in Counts /\ recorded[a].usage <= new.usage /\ recorded[a].failures <= new.failures
    BY <1>1 DEF Counts
  <2> HIDE DEF new
  <2> QED BY <1>1, <2>1, <2>2 DEF Grows, Counts
<1>3. CASE CountFailure(a)
  <2> DEFINE new == [recorded[a] EXCEPT !.failures = @ + 1]
  <2>1. recorded' = [recorded EXCEPT ![a] = new]
    BY <1>3 DEF CountFailure
  <2>2. new \in Counts /\ recorded[a].usage <= new.usage /\ recorded[a].failures <= new.failures
    BY <1>1 DEF Counts
  <2> HIDE DEF new
  <2> QED BY <1>1, <2>1, <2>2 DEF Grows, Counts
<1> QED BY <1>2, <1>3

LEMMA CountedOne ==
  ASSUME DataInv, NEW a \in Accounts
  PROVE  /\ recorded[a] \in Counts /\ told[a] \in Nat
         /\ CountSuccess(a) => recorded'[a].usage = recorded[a].usage + 1
                               /\ recorded'[a].failures = recorded[a].failures
         /\ CountFailure(a) => recorded'[a].usage = recorded[a].usage
                               /\ recorded'[a].failures = recorded[a].failures + 1
BY DEF DataInv, CountSuccess, CountFailure, Counts

LEMMA Answering ==
  ASSUME AccountInv, NEW e \in Exports, NEW t \in ThreadsOf(e), Answer(e, t)
  PROVE  AccountInv'
<1>1. PICK a \in leased[e] : \/ AnswerGood(e, t, a) \/ AnswerLimited(e, t, a)
                             \/ AnswerUnavailable(e, t, a) \/ AnswerError(e, t, a)
  BY DEF Answer
<1>2. /\ UNCHANGED <<now, stored, leased, blurred>> /\ thread[t].step \in Begun
      /\ thread[t].step # "until" /\ t \in Threads /\ a \in Accounts /\ e \in Pools
  BY InProgress DEF Answer, At, Begun, AccountInv
<1>3. /\ Sound(copy[e][a], recorded[a], told[a]) /\ now \in Nat /\ told \in [Accounts -> Nat]
      /\ recorded[a] \in Counts /\ told[a] \in Nat /\ Fails(t) \in {"raise", "done"}
      /\ Succeeds(t) \in {"work", "done"}
  BY <1>2 DEF AccountInv, DataInv, Fails, Succeeds
<1>4. CASE AnswerGood(e, t, a)
  <2> DEFINE r == Success(copy[e][a])
  <2>1. Record(e, a, r) /\ CountSuccess(a) /\ UNCHANGED told
    BY <1>4 DEF AnswerGood, Good
  <2>2. Grows /\ recorded'[a] \in Counts /\ told'[a] = told[a]
    BY <1>2, <2>1, Counted DEF AccountInv
  <2>3. Sound(r, recorded'[a], told'[a]) /\ Ends(r)
    BY <1>2, <1>3, <2>1, <2>2, CountedOne, SuccessSound DEF AccountInv
  <2>4. PICK step \in {Succeeds(t), Fails(t)} : SaveThen(t, r, step)
    BY <1>4 DEF AnswerGood, Good
  <2> HIDE DEF r
  <2>5. /\ OnlyMoves(t) /\ thread'[t].step = "until" /\ thread'[t].payload = r
        /\ thread'[t].next \in {"work", "raise", "done"}
    BY <1>2, <1>3, <2>4, Saving DEF AccountInv
  <2> QED BY <1>2, <2>1, <2>2, <2>3, <2>5, Recording
<1>5. CASE AnswerLimited(e, t, a)
  <2>1. PICK rest \in 1..MaxReset :
          /\ Record(e, a, RateLimited(copy[e][a], now + rest)) /\ CountFailure(a)
          /\ told' = [told EXCEPT ![a] = IF now + rest > @ THEN now + rest ELSE @]
          /\ RetryOrFail(t, RateLimited(copy[e][a], now + rest), Waits(t, {rest}))
    BY <1>5 DEF AnswerLimited
  <2> DEFINE r == RateLimited(copy[e][a], now + rest)
  <2>2. /\ now + rest \in Nat /\ 0 < now + rest /\ told'[a] \in Nat /\ now + rest <= told'[a]
        /\ told' \in [Accounts -> Nat] /\ \A b \in Accounts : told[b] <= told'[b]
    BY <1>2, <1>3, <2>1
  <2>3. Grows /\ recorded'[a] \in Counts
    BY <1>2, <2>1, <2>2, Counted DEF AccountInv
  <2>4. Sound(r, recorded'[a], told'[a]) /\ Ends(r)
    BY <1>2, <1>3, <2>1, <2>2, <2>3, CountedOne, LimitedSound DEF AccountInv
  <2>5. Record(e, a, r) /\ RetryOrFail(t, r, Waits(t, {rest}))
    BY <2>1
  <2> HIDE DEF r
  <2>6. /\ OnlyMoves(t) /\ thread'[t].step = "until" /\ thread'[t].payload = r
        /\ thread'[t].next \in {"sleep", "raise", "done"}
    BY <1>2, <2>5, Retrying DEF AccountInv
  <2> QED BY <1>2, <2>3, <2>4, <2>5, <2>6, Recording
<1>6. CASE AnswerUnavailable(e, t, a) \/ AnswerError(e, t, a)
  <2> DEFINE r == Failure(copy[e][a])
  <2>1. CountFailure(a) /\ Record(e, a, r) /\ UNCHANGED told
    BY <1>6 DEF AnswerUnavailable, AnswerError
  <2>2. Grows /\ recorded'[a] \in Counts /\ told'[a] = told[a]
    BY <1>2, <2>1, Counted DEF AccountInv
  <2>3. Sound(r, recorded'[a], told'[a]) /\ Ends(r)
    BY <1>2, <1>3, <2>1, <2>2, CountedOne, FailureSound DEF AccountInv
  <2>4. RetryOrFail(t, r, Waits(t, 1..MaxReset)) \/ SaveThen(t, r, Fails(t))
    BY <1>6 DEF AnswerUnavailable, AnswerError
  <2> HIDE DEF r
  <2>5. /\ OnlyMoves(t) /\ thread'[t].step = "until" /\ thread'[t].payload = r
        /\ thread'[t].next \in {"sleep", "raise", "done"}
    BY <1>2, <1>3, <2>4, Retrying, Saving DEF AccountInv
  <2> QED BY <1>2, <2>1, <2>2, <2>3, <2>5, Recording
<1> QED BY <1>1, <1>4, <1>5, <1>6

\* The export itself is recorded when its tasks are joined, or when it failed.
LEMMA Ending ==
  ASSUME AccountInv, NEW e \in Exports, Join(e) \/ Raised(e)
  PROVE  AccountInv'
<1>0. PICK a \in leased[e] : \E r :
        /\ Record(e, a, r) /\ SaveThen(Main(e), r, "done")
        /\ \/ r = Success(copy[e][a]) /\ CountSuccess(a)
           \/ r = Failure(copy[e][a]) /\ CountFailure(a)
  BY DEF Join, Raised
<1>1. PICK r : /\ Record(e, a, r) /\ SaveThen(Main(e), r, "done")
               /\ \/ r = Success(copy[e][a]) /\ CountSuccess(a)
                  \/ r = Failure(copy[e][a]) /\ CountFailure(a)
  BY <1>0
<1>2. /\ UNCHANGED <<now, stored, leased, told, blurred>> /\ Main(e) \in ThreadsOf(e)
      /\ thread[Main(e)].step \in Begun /\ thread[Main(e)].step # "until"
  BY Threading DEF Join, Raised, At, Begun
<1>3. Main(e) \in Threads /\ e \in Pools /\ a \in Accounts
  BY <1>2, InProgress DEF AccountInv
<1>4. /\ OnlyMoves(Main(e)) /\ thread'[Main(e)].step = "until" /\ thread'[Main(e)].payload = r
      /\ thread'[Main(e)].next = "done"
  BY <1>1, <1>3, Saving DEF AccountInv
<1>5. Grows /\ recorded'[a] \in Counts /\ told'[a] = told[a]
  BY <1>1, <1>2, <1>3, Counted DEF AccountInv
<1>6. Sound(copy[e][a], recorded[a], told[a]) /\ recorded[a] \in Counts /\ told[a] \in Nat
  BY <1>3 DEF AccountInv, DataInv
<1>7. Sound(r, recorded'[a], told'[a]) /\ Ends(r)
  <2>1. CASE r = Success(copy[e][a]) /\ CountSuccess(a)
    BY <1>3, <1>5, <1>6, <2>1, CountedOne, SuccessSound DEF AccountInv
  <2>2. CASE r = Failure(copy[e][a]) /\ CountFailure(a)
    BY <1>3, <1>5, <1>6, <2>2, CountedOne, FailureSound DEF AccountInv
  <2> QED BY <1>1, <2>1, <2>2
<1> QED BY <1>1, <1>2, <1>4, <1>5, <1>7, Recording

LEMMA Waking ==
  ASSUME AccountInv, NEW e \in Exports, NEW t \in ThreadsOf(e), Wake(t)
  PROVE  AccountInv'
<1>1. /\ UNCHANGED <<now, stored, copy, leased, recorded, told, blurred>>
      /\ thread[t].step = "sleep" /\ thread[t].step \in Begun
  BY DEF Wake, At, Begun, history
<1>2. OnlyMoves(t) /\ thread'[t].step = "call"
  BY <1>1, InProgress DEF AccountInv, Wake, OnlyMoves, Fields
<1>3. Grows
  BY <1>1, GrowsIdle DEF AccountInv, DataInv
<1>4. DataInv'
  BY <1>1, <1>2, <1>3, PoolsStay, WritingStays, InProgress DEF AccountInv, DataInv
<1>5. ThreadInv'
  <2>1. \A a \in leased[e] : Holds(e, t, a)'
    BY <1>2 DEF Holds
  <2> QED BY <1>1, <1>2, <1>3, <2>1, InProgress, ThreadMoves DEF AccountInv, Begun, Saves
<1> QED BY <1>4, <1>5 DEF AccountInv

\* The record is written: what the thread holds is what the pool remembers now.
LEMMA Unlocking ==
  ASSUME AccountInv, NEW e \in Exports, NEW t \in ThreadsOf(e), Unlock(e, t)
  PROVE  AccountInv'
<1>1. /\ UNCHANGED <<now, stored, leased, recorded, told, blurred>>
      /\ thread[t].step = "until" /\ thread[t].step \in Begun
      /\ thread' = [thread EXCEPT ![t].step = "dump", ![t].payload = Fresh]
  BY DEF Unlock, At, Begun, Saves, history
<1>2. PICK a \in leased[e] : copy' = [copy EXCEPT ![e][a].until = thread[t].payload.until]
  BY DEF Unlock
<1> DEFINE r == thread[t].payload
<1>3. /\ t \in Threads /\ e \in Pools /\ t[1] = e /\ a \in Accounts /\ DOMAIN copy = Pools
      /\ DOMAIN copy[e] = Accounts /\ thread[t].next \in Nexts /\ \A b \in leased[e] : b = a
  BY <1>1, InProgress DEF AccountInv, DataInv, ThreadInv, Saves
<1>4. /\ OnlyMoves(t) /\ thread'[t].step = "dump" /\ thread'[t].next = thread[t].next
  BY <1>1, InProgress DEF AccountInv, OnlyMoves, Fields
<1>5. Grows
  BY <1>1, GrowsIdle DEF AccountInv, DataInv
<1>6. /\ Sound(r, recorded[a], told[a]) /\ (Ends(r) \/ a \in blurred)
      /\ copy[e][a] = [r EXCEPT !.until = copy[e][a].until]
  <2>1. Holds(e, t, a)
    BY DEF AccountInv, ThreadInv
  <2> QED BY <1>1, <2>1 DEF Holds
<1>7. [copy[e][a] EXCEPT !.until = r.until] = r
  BY <1>6 DEF Sound, Records
<1>8. copy' = [copy EXCEPT ![e][a] = r]
  BY <1>2, <1>3, <1>7
<1> HIDE DEF r
<1>9. Sound(r, recorded'[a], told'[a]) /\ (Ends(r) \/ a \in blurred')
  BY <1>1, <1>6
<1>10. ASSUME NEW q \in Pools, NEW b \in Accounts, q # e \/ b # a, Writing(q, b) PROVE Writing(q, b)'
  <2>1. q # e
    BY <1>3, <1>10 DEF Writing
  <2> QED BY <1>1, <1>3, <1>4, <1>10, <2>1, WritingStays
<1>11. DataInv'
  BY <1>1, <1>3, <1>5, <1>8, <1>9, <1>10, PoolRecords DEF AccountInv
<1>12. ThreadInv'
  <2>1. \A b \in leased[e] : Holds(e, t, b)'
    BY <1>4 DEF Holds
  <2>2. \A u \in ThreadsOf(e) \ {t} : thread[u].step # "until"
    BY <1>1 DEF AccountInv, ThreadInv
  <2>3. \A f \in Exports \ {e} : copy'[f] = copy[f]
    BY <1>3, <1>8
  <2> QED BY <1>1, <1>3, <1>4, <1>5, <2>1, <2>2, <2>3, InProgress, ThreadMoves
          DEF AccountInv, Begun, Saves
<1> QED BY <1>11, <1>12 DEF AccountInv

\* A thread reads the record to save it, first all but the time; a record that is being
\* changed, or was changed meanwhile, is blurred.
LEMMA Dumping ==
  ASSUME AccountInv, NEW e \in Exports, NEW t \in ThreadsOf(e), Dump(e, t) \/ DumpUntil(e, t)
  PROVE  AccountInv'
<1>1. /\ UNCHANGED <<now, stored, copy, leased, recorded, told>> /\ thread[t].step \in {"dump", "read"}
      /\ thread[t].step \in Begun
  BY DEF Dump, DumpUntil, At, Begun, Saves, history
<1>2. /\ t \in Threads /\ DOMAIN thread[t] = Fields /\ DOMAIN thread = Threads /\ e \in Pools
      /\ thread[t].next \in Nexts /\ t[1] = e /\ leased[e] \subseteq Accounts
      /\ \A b, c \in leased[e] : b = c
  BY <1>1, InProgress DEF AccountInv, ThreadInv, Saves
<1>3. /\ OnlyMoves(t) /\ thread'[t].step \in {"read", "store"} /\ thread'[t].next = thread[t].next
  BY <1>2 DEF Dump, DumpUntil, OnlyMoves, Fields
<1>4. Grows
  <2>1. CASE Dump(e, t)
    BY <1>1, <2>1, GrowsIdle DEF Dump, history, AccountInv, DataInv
  <2>2. CASE DumpUntil(e, t)
    <3>1. blurred \subseteq blurred' /\ blurred' \subseteq Accounts
      BY <1>2, <2>2 DEF DumpUntil, AccountInv, DataInv
    <3> QED BY <1>1, <3>1, GrowsIdle DEF AccountInv
  <2> QED BY <2>1, <2>2
<1>5. DataInv'
  BY <1>1, <1>2, <1>3, <1>4, PoolsStay, WritingStays DEF AccountInv, DataInv
<1>6. ASSUME NEW a \in leased[e]
      PROVE  Holds(e, t, a)'
  <2>1. Sound(copy[e][a], recorded'[a], told'[a]) /\ (Ends(copy[e][a]) \/ a \in blurred \/ Writing(e, a))
    BY <1>1, <1>2 DEF AccountInv, DataInv
  <2>2. CASE Dump(e, t)
    <3>0. PICK b \in leased[e] :
            thread' = [thread EXCEPT ![t].step = "read", ![t].payload = copy[e][b]]
      BY <2>2 DEF Dump
    <3>1. thread'[t].step = "read" /\ thread'[t].payload = copy[e][a]
      BY <1>2, <3>0 DEF Fields
    <3> QED BY <2>1, <3>1 DEF Holds
  <2>3. CASE DumpUntil(e, t)
    <3> DEFINE r == thread[t].payload
               new == [r EXCEPT !.until = copy[e][a].until]
    <3>0. PICK b \in leased[e] : thread' =
            [thread EXCEPT ![t].step = "store", ![t].payload.until = copy[e][b].until]
      BY <2>3 DEF DumpUntil
    <3>1. thread[t].step = "read" /\ Sound(r, recorded'[a], told'[a])
      <4>1. thread[t].step = "read" /\ Holds(e, t, a)
        BY <2>3 DEF DumpUntil, At, AccountInv, ThreadInv
      <4> QED BY <1>1, <4>1 DEF Holds
    <3>2. thread'[t].step = "store" /\ thread'[t].payload = new
      <4>1. a = b
        BY <1>2
      <4> QED BY <1>2, <3>0, <4>1 DEF Fields
    <3>3. a \in blurred' \/ (~Locked(e) /\ copy[e][a] = r /\ a \notin blurred)
      BY <1>2, <2>3 DEF DumpUntil
    <3>4. Sound(new, recorded'[a], told'[a])
      <4>1. copy[e][a].until \in Nat /\ copy[e][a].until <= told'[a]
        BY <2>1 DEF Sound, Records
      <4>2. recorded'[a] \in Counts /\ told'[a] \in Nat
        BY <1>2, <1>4 DEF Grows
      <4> QED BY <3>1, <4>1, <4>2, SoundMidway
    <3>5. Ends(new) \/ a \in blurred'
      <4> SUFFICES ASSUME ~Locked(e), copy[e][a] = r, a \notin blurred PROVE Ends(new)
        BY <3>3
      <4>1. ~Writing(e, a)
        BY DEF Writing, Locked, At
      <4>2. Ends(r)
        BY <2>1, <4>1
      <4>3. new = r
        BY <3>1 DEF Sound, Records
      <4> QED BY <4>2, <4>3
    <3> HIDE DEF new
    <3> QED BY <3>2, <3>4, <3>5 DEF Holds
  <2> QED BY <2>2, <2>3
<1>7. ThreadInv'
  BY <1>1, <1>2, <1>3, <1>4, <1>6, InProgress, ThreadMoves DEF AccountInv, Begun, Saves
<1> QED BY <1>5, <1>7 DEF AccountInv

\* The record is saved as it was read, or not at all.
LEMMA Storing ==
  ASSUME AccountInv, NEW e \in Exports, NEW t \in ThreadsOf(e), Store(e, t) \/ StoreFails(e, t)
  PROVE  AccountInv'
<1>1. /\ UNCHANGED <<now, copy, leased, recorded, told, blurred>> /\ thread[t].step = "store"
      /\ thread[t].step \in Begun
  BY DEF Store, StoreFails, At, Begun, Saves, history
<1>2. /\ t \in Threads /\ DOMAIN thread[t] = Fields /\ DOMAIN thread = Threads
      /\ thread[t].next \in Nexts /\ leased[e] \subseteq Accounts
  BY <1>1, InProgress DEF AccountInv, ThreadInv, Saves
<1>3. Grows
  BY <1>1, GrowsIdle DEF AccountInv, DataInv
<1>4. OnlyMoves(t) /\ thread'[t].step \in {"sleep", "work", "raise", "done"}
  <2>1. CASE Store(e, t)
    BY <1>2, <2>1 DEF Store, OnlyMoves, Fields, Nexts
  <2>2. CASE StoreFails(e, t)
    <3>1. \E step \in {"raise", "done"} : Goto(t, step)
      BY <2>2 DEF StoreFails, Fails
    <3> QED BY <1>2, <3>1 DEF Goto, Rest, OnlyMoves, Fields
  <2> QED BY <2>1, <2>2
<1>5. /\ DOMAIN stored' = Accounts
      /\ \A b \in Accounts : stored'[b] # stored[b] =>
           Sound(stored'[b], recorded'[b], told'[b]) /\ (Ends(stored'[b]) \/ b \in blurred')
  <2>1. CASE Store(e, t)
    <3>1. PICK a \in leased[e] : stored' = [stored EXCEPT ![a] = thread[t].payload]
      BY <2>1 DEF Store
    <3>2. /\ Sound(thread[t].payload, recorded'[a], told'[a])
          /\ Ends(thread[t].payload) \/ a \in blurred'
      BY <1>1 DEF AccountInv, ThreadInv, Holds
    <3> QED BY <3>1, <3>2 DEF AccountInv, DataInv
  <2>2. CASE StoreFails(e, t)
    BY <2>2 DEF StoreFails, AccountInv, DataInv
  <2> QED BY <2>1, <2>2
<1>6. DataInv'
  BY <1>1, <1>2, <1>3, <1>4, <1>5, PoolsStay, WritingStays DEF AccountInv
<1>7. \A a \in leased[e] : Holds(e, t, a)'
  BY <1>4 DEF Holds
<1>8. ThreadInv'
  BY <1>1, <1>3, <1>4, <1>7, InProgress, ThreadMoves DEF AccountInv, Begun, Saves
<1> QED BY <1>6, <1>8 DEF AccountInv

LEMMA Starting ==
  ASSUME AccountInv, NEW e \in Exports, StartTasks(e)
  PROVE  AccountInv'
<1>1. /\ UNCHANGED <<now, stored, copy, leased, recorded, told, blurred>>
      /\ thread[Main(e)].step = "work" /\ \A t \in TasksOf(e) : thread[t].step = "off"
      /\ thread' = [t \in Threads |-> IF t \in TasksOf(e) THEN Rest("call") ELSE thread[t]]
  BY DEF StartTasks, At, history
<1>2. \A f \in Exports : Main(f) \in Threads /\ Main(f) \notin TasksOf(e) /\ ThreadsOf(f) \subseteq Threads
        /\ TasksOf(f) \subseteq ThreadsOf(f)
  BY DEF Main, TasksOf, ThreadsOf, Threads
<1>3. DOMAIN thread' = Threads /\ \A t \in Threads :
        \/ thread'[t] = thread[t]
        \/ t \in TasksOf(e) /\ DOMAIN thread'[t] = Fields /\ thread'[t].step = "call"
  BY <1>1 DEF Rest, Fields
<1>4. \A q \in Pools, b \in Accounts : Writing(q, b) => Writing(q, b)'
  BY <1>1 DEF Writing
<1>5. DataInv'
  BY <1>1, <1>4, PoolsStay, GrowsIdle DEF AccountInv, DataInv
<1>6. ASSUME NEW f \in Exports, thread'[Main(f)].step \notin Begun, NEW t \in TasksOf(f)
      PROVE  thread'[t].step \notin Begun
  <2>1. thread'[Main(f)] = thread[Main(f)] /\ t \in Threads
    BY <1>1, <1>2
  <2>2. f # e
    BY <1>1, <1>6, <2>1 DEF Begun
  <2>3. t \notin TasksOf(e)
    BY <2>2 DEF TasksOf
  <2>4. thread'[t] = thread[t]
    BY <1>1, <2>1, <2>3
  <2> QED BY <1>6, <2>1, <2>4 DEF AccountInv, ThreadInv
<1>7. ASSUME NEW f \in Exports, NEW t \in ThreadsOf(f)
      PROVE  /\ \A a \in leased[f] : Holds(f, t, a)'
             /\ \A u \in ThreadsOf(f) : thread'[t].step = "until" /\ thread'[u].step = "until" => t = u
  <2>1. t \in Threads /\ \A u \in ThreadsOf(f) : u \in Threads
    BY <1>2
  <2>2. ASSUME NEW a \in leased[f] PROVE Holds(f, t, a)'
    <3>1. CASE thread'[t] = thread[t]
      <4>1. Holds(f, t, a)
        BY DEF AccountInv, ThreadInv
      <4> QED BY <1>1, <3>1, <4>1 DEF Holds
    <3>2. CASE thread'[t].step = "call"
      BY <3>2 DEF Holds
    <3> QED BY <1>3, <2>1, <3>1, <3>2
  <2>3. \A u \in ThreadsOf(f) : thread'[t].step = "until" /\ thread'[u].step = "until" => t = u
    BY <1>3, <2>1 DEF AccountInv, ThreadInv
  <2> QED BY <2>2, <2>3
<1>8. \A t \in Threads : DOMAIN thread'[t] = Fields
        /\ (thread'[t].step \in Saves => thread'[t].next \in Nexts)
  BY <1>3 DEF Saves, AccountInv, ThreadInv
<1>9. ThreadInv'
  <2>1. /\ DOMAIN leased' = Exports
        /\ \A f \in Exports : leased'[f] \subseteq Accounts /\ \A a, b \in leased'[f] : a = b
    BY <1>1 DEF AccountInv, ThreadInv
  <2>2. \A f \in Exports : \A t \in ThreadsOf(f) : \A a \in leased'[f] : Holds(f, t, a)'
    BY <1>1, <1>7
  <2> QED BY <1>3, <1>6, <1>7, <1>8, <2>1, <2>2 DEF ThreadInv
<1> QED BY <1>5, <1>9 DEF AccountInv

\* The pool of an export that has not begun: nobody writes to it.
LEMMA NotWriting ==
  ASSUME ThreadInv, NEW e \in Exports, thread[Main(e)].step \in {"off", "lease"}
  PROVE  /\ \A t \in ThreadsOf(e) : thread[t].step \notin Begun \ {"done"}
         /\ \A b : ~Writing(e, b)
<1>1. \A t \in ThreadsOf(e) : thread[t].step \notin Begun
  BY DEF ThreadInv, ThreadsOf, Begun, Saves
<1> QED BY <1>1, Threading DEF Writing, Begun, Saves

LEMMA Creating ==
  ASSUME AccountInv, NEW e \in Exports, CreatePool(e)
  PROVE  AccountInv'
<1>1. /\ UNCHANGED <<now, stored, leased, recorded, told, blurred>> /\ copy' = [copy EXCEPT ![e] = stored]
      /\ thread[Main(e)].step = "off" /\ thread' = [thread EXCEPT ![Main(e)] = Rest("lease")]
  BY DEF CreatePool, At, Goto, history
<1>2. Main(e) \in Threads /\ Main(e)[1] = e /\ e \in Pools /\ Main(e) \in ThreadsOf(e)
  BY Threading
<1>3. OnlyMoves(Main(e)) /\ thread'[Main(e)].step = "lease"
  BY <1>1, <1>2 DEF Rest, Fields, OnlyMoves, AccountInv, ThreadInv
<1>4. \A q \in Pools, b \in Accounts : Writing(q, b) => Writing(q, b)'
  BY <1>1, <1>2, <1>3, WritingStays
<1>5. DataInv'
  BY <1>1, <1>4 DEF AccountInv, DataInv
<1>6. \A f \in Exports : Main(f) \in Threads /\ Main(e) \notin TasksOf(f) /\ ThreadsOf(f) \subseteq Threads
        /\ TasksOf(f) \subseteq ThreadsOf(f)
  BY DEF Main, TasksOf, ThreadsOf, Threads
<1>7. ASSUME NEW f \in Exports, thread'[Main(f)].step \notin Begun, NEW t \in TasksOf(f)
      PROVE  thread'[t].step \notin Begun
  <2>1. thread[Main(f)].step \notin Begun
    BY <1>1, <1>3, <1>6, <1>7 DEF OnlyMoves, Begun, Saves
  <2> QED BY <1>3, <1>6, <2>1 DEF OnlyMoves, AccountInv, ThreadInv
<1>8. ASSUME NEW f \in Exports, NEW t \in ThreadsOf(f), NEW a \in leased[f]
      PROVE  Holds(f, t, a)'
  <2>1. CASE t = Main(e)
    BY <1>3, <2>1 DEF Holds
  <2>2. CASE t # Main(e)
    <3>1. thread'[t] = thread[t] /\ Holds(f, t, a)
      BY <1>3, <1>6, <2>2 DEF OnlyMoves, AccountInv, ThreadInv
    <3>2. f # e => copy'[f] = copy[f]
      BY <1>1
    <3>3. f = e => thread[t].step # "until"
      BY <1>1, NotWriting DEF AccountInv, Begun, Saves
    <3> QED BY <1>1, <3>1, <3>2, <3>3 DEF Holds
  <2> QED BY <2>1, <2>2
<1>9. \A f \in Exports : \A t, u \in ThreadsOf(f) :
        thread'[t].step = "until" /\ thread'[u].step = "until" => t = u
  BY <1>3, <1>6 DEF OnlyMoves, AccountInv, ThreadInv
<1>10. \A t \in Threads : DOMAIN thread'[t] = Fields
        /\ (thread'[t].step \in Saves => thread'[t].next \in Nexts)
  BY <1>3 DEF OnlyMoves, Saves, AccountInv, ThreadInv
<1>11. ThreadInv'
  BY <1>1, <1>3, <1>7, <1>8, <1>9, <1>10 DEF OnlyMoves, AccountInv, ThreadInv
<1> QED BY <1>5, <1>11 DEF AccountInv

\* The thread that leases takes the record as it is in the pool, cleared of what has expired.
LEMMA Leasing ==
  ASSUME AccountInv, NEW e \in Exports, Lease(e)
  PROVE  AccountInv'
<1> DEFINE records == [a \in Accounts |->
                         IF a \in Eligible(e) THEN Cleared(copy[e][a]) ELSE copy[e][a]]
           free == {a \in Eligible(e) : ~Limited(records[a])}
<1>1. /\ UNCHANGED <<now, stored, recorded, told, blurred>> /\ copy' = [copy EXCEPT ![e] = records]
      /\ thread[Main(e)].step = "lease" /\ e \in Pools
  BY DEF Lease, At, history, Pools
<1>2. \A b : ~Writing(e, b)
  BY <1>1, NotWriting DEF AccountInv
<1>3. \A a \in Accounts : Sound(records[a], recorded[a], told[a]) /\ (Ends(records[a]) \/ a \in blurred)
  <2> TAKE a \in Accounts
  <2>1. /\ Sound(copy[e][a], recorded[a], told[a]) /\ (Ends(copy[e][a]) \/ a \in blurred)
        /\ recorded[a] \in Counts /\ told[a] \in Nat
    BY <1>1, <1>2 DEF AccountInv, DataInv
  <2>2. Sound(Cleared(copy[e][a]), recorded[a], told[a])
        /\ (Ends(Cleared(copy[e][a])) \/ a \in blurred)
    BY <2>1, ClearedSound
  <2> QED BY <2>1, <2>2
<1>4. DOMAIN records = Accounts
  OBVIOUS
<1>5. \/ Goto(Main(e), "done") /\ UNCHANGED leased
      \/ \E a \in Best(records, free) :
           /\ leased' = [leased EXCEPT ![e] = {a}]
           /\ thread' = [thread EXCEPT ![Main(e)].step = "begin", ![Main(e)].payload = records[a]]
  BY DEF Lease
<1>6. \A a \in Best(records, free) : a \in Accounts
  BY DEF Best, Eligible
<1> HIDE DEF records, free
<1>7. \A f \in Exports : /\ Main(f) \in Threads /\ ThreadsOf(f) \subseteq Threads
                         /\ TasksOf(f) \subseteq ThreadsOf(f) /\ Main(f) \in ThreadsOf(f)
                         /\ Main(e) \notin TasksOf(f) /\ (Main(e) \in ThreadsOf(f) => f = e)
  BY DEF Main, TasksOf, ThreadsOf, Threads
<1>8. /\ OnlyMoves(Main(e)) /\ thread'[Main(e)].step \in {"begin", "done"}
      /\ thread'[Main(e)].step = "begin" =>
           \E a \in Accounts : leased'[e] = {a} /\ thread'[Main(e)].payload = records[a]
      /\ thread'[Main(e)].step = "done" => leased'[e] = leased[e]
  BY <1>5, <1>6, <1>7 DEF Goto, Rest, OnlyMoves, Fields, AccountInv, ThreadInv
<1>9. DOMAIN leased' = Exports /\ \A f \in Exports \ {e} : leased'[f] = leased[f]
  BY <1>5 DEF AccountInv, ThreadInv
<1>10. \A t \in ThreadsOf(e) : thread[t].step \notin Begun \ {"done"}
  BY <1>1, NotWriting DEF AccountInv
<1>11. ASSUME NEW q \in Pools \ {e}, NEW b, Writing(q, b) PROVE Writing(q, b)'
  <2>1. PICK t \in Threads : t[1] = q /\ thread[t].step = "until" /\ b \in leased[q]
    BY <1>11 DEF Writing
  <2>2. t # Main(e)
    BY <1>1, <2>1
  <2>3. q \in Exports
    BY <2>1 DEF Threads, Main, TasksOf
  <2> QED BY <1>8, <1>9, <2>1, <2>2, <2>3 DEF OnlyMoves, Writing
<1>12. DataInv'
  BY <1>1, <1>3, <1>4, <1>11 DEF AccountInv, DataInv
<1>13. ASSUME NEW f \in Exports, thread'[Main(f)].step \notin Begun, NEW t \in TasksOf(f)
      PROVE  thread'[t].step \notin Begun
  <2>1. f # e
    BY <1>8, <1>13 DEF Begun
  <2>2. Main(f) # Main(e) /\ t # Main(e) /\ t \in Threads /\ Main(f) \in Threads
    BY <1>7, <2>1
  <2>3. thread'[Main(f)] = thread[Main(f)] /\ thread'[t] = thread[t]
    BY <1>8, <2>2 DEF OnlyMoves
  <2> QED BY <1>13, <2>3 DEF AccountInv, ThreadInv
<1>14. ASSUME NEW f \in Exports, NEW t \in ThreadsOf(f), NEW b \in leased'[f]
      PROVE  Holds(f, t, b)'
  <2>1. CASE t = Main(e)
    <3>1. f = e
      BY <1>7, <2>1
    <3> QED BY <1>1, <1>3, <1>8, <2>1, <3>1 DEF Holds
  <2>2. CASE t # Main(e) /\ f = e
    <3>1. thread'[t].step \notin {"begin", "until", "read", "store"}
      BY <1>7, <1>8, <1>10, <2>2 DEF OnlyMoves, Begun, Saves
    <3> QED BY <3>1 DEF Holds
  <2>3. CASE t # Main(e) /\ f # e
    <3>1. thread'[t] = thread[t] /\ Holds(f, t, b) /\ copy'[f] = copy[f]
      BY <1>1, <1>7, <1>8, <1>9, <2>3 DEF OnlyMoves, AccountInv, ThreadInv
    <3> QED BY <1>1, <3>1 DEF Holds
  <2> QED BY <2>1, <2>2, <2>3
<1>15. \A f \in Exports : \A t, u \in ThreadsOf(f) :
        thread'[t].step = "until" /\ thread'[u].step = "until" => t = u
  BY <1>7, <1>8 DEF OnlyMoves, AccountInv, ThreadInv
<1>16. \A t \in Threads : DOMAIN thread'[t] = Fields
        /\ (thread'[t].step \in Saves => thread'[t].next \in Nexts)
  BY <1>8 DEF OnlyMoves, Saves, AccountInv, ThreadInv
<1>17. \A f \in Exports : leased'[f] \subseteq Accounts /\ \A a, b \in leased'[f] : a = b
  BY <1>8, <1>9 DEF AccountInv, ThreadInv
<1>18. ThreadInv'
  BY <1>8, <1>9, <1>13, <1>14, <1>15, <1>16, <1>17 DEF OnlyMoves, ThreadInv
<1> QED BY <1>12, <1>18 DEF AccountInv

LEMMA Beginning ==
  ASSUME AccountInv, NEW e \in Exports, Begin(e)
  PROVE  AccountInv'
<1>1. /\ UNCHANGED <<now, copy, leased, recorded, told, blurred>> /\ thread[Main(e)].step = "begin"
      /\ thread[Main(e)].step \in Begun /\ Main(e) \in ThreadsOf(e)
  BY Threading DEF Begin, At, Begun
<1>2. Grows
  BY <1>1, GrowsIdle DEF AccountInv, DataInv
<1>3. PICK a \in leased[e] :
        \/ stored' = [stored EXCEPT ![a] = thread[Main(e)].payload] /\ Goto(Main(e), "call")
        \/ UNCHANGED stored /\ Goto(Main(e), "done")
  BY DEF Begin
<1>4. /\ Sound(thread[Main(e)].payload, recorded'[a], told'[a]) /\ a \in Accounts
      /\ Ends(thread[Main(e)].payload) \/ a \in blurred'
  BY <1>1, InProgress DEF AccountInv, ThreadInv, Holds
<1>5. OnlyMoves(Main(e)) /\ thread'[Main(e)].step \in {"call", "done"}
  BY <1>1, <1>3, InProgress DEF Goto, Rest, OnlyMoves, Fields, AccountInv
<1>6. /\ DOMAIN stored' = Accounts
      /\ \A b \in Accounts : stored'[b] # stored[b] =>
           Sound(stored'[b], recorded'[b], told'[b]) /\ (Ends(stored'[b]) \/ b \in blurred')
  BY <1>3, <1>4 DEF AccountInv, DataInv
<1>7. DataInv'
  BY <1>1, <1>2, <1>5, <1>6, PoolsStay, WritingStays, InProgress DEF AccountInv
<1>8. \A b \in leased[e] : Holds(e, Main(e), b)'
  BY <1>5 DEF Holds
<1>9. ThreadInv'
  BY <1>1, <1>2, <1>5, <1>8, ThreadMoves DEF AccountInv, Begun, Saves
<1> QED BY <1>7, <1>9 DEF AccountInv

LEMMA Polling ==
  ASSUME AccountInv, NEW a \in Accounts, WebPolls(a)
  PROVE  AccountInv'
<1>1. /\ UNCHANGED <<now, leased, thread, recorded, told, blurred>> /\ Web \in Pools
      /\ copy' = [copy EXCEPT ![Web][a] = Cleared(copy[Web][a])]
      /\ stored' = [stored EXCEPT ![a] = Cleared(copy[Web][a])]
  BY DEF WebPolls, Pools
<1>2. ~Writing(Web, a) /\ \A q, b : Writing(q, b) <=> Writing(q, b)'
  <2>1. \A t \in Threads : t[1] # Web
    BY DEF Threads, Main, TasksOf
  <2> QED BY <1>1, <2>1 DEF Writing
<1>3. /\ Sound(copy[Web][a], recorded[a], told[a]) /\ (Ends(copy[Web][a]) \/ a \in blurred)
      /\ recorded[a] \in Counts /\ told[a] \in Nat
  BY <1>1, <1>2 DEF AccountInv, DataInv
<1>4. Sound(Cleared(copy[Web][a]), recorded[a], told[a])
      /\ (Ends(Cleared(copy[Web][a])) \/ a \in blurred)
  BY <1>3, ClearedSound
<1>5. DataInv'
  BY <1>1, <1>2, <1>4 DEF AccountInv, DataInv
<1>6. ASSUME NEW f \in Exports, NEW t \in ThreadsOf(f), NEW b \in leased[f] PROVE Holds(f, t, b)'
  <2>1. copy'[f] = copy[f] /\ Holds(f, t, b)
    BY <1>1, Threading DEF AccountInv, ThreadInv
  <2> QED BY <1>1, <2>1 DEF Holds
<1>7. ThreadInv'
  BY <1>1, <1>6 DEF AccountInv, ThreadInv
<1> QED BY <1>5, <1>7 DEF AccountInv

-----------------------------------------------------------------------------
(* Types, and how an export ends *)

ThreadRecords == [step : Steps, next : Steps, attempt : 0..(MaxAttempts - 1), wake : Int,
                  payload : Records]

Typed ==
  /\ now \in 0..Horizon
  /\ stored \in [Accounts -> Records] /\ copy \in [Pools -> [Accounts -> Records]]
  /\ leased \in [Exports -> SUBSET Accounts] /\ thread \in [Threads -> ThreadRecords]
  /\ outcome \in [Exports -> Outcomes] /\ faults \in 0..MaxFaults
  /\ recorded \in [Accounts -> Counts] /\ told \in [Accounts -> Nat]
  /\ writer \in [Accounts -> Pools] /\ blurred \subseteq Accounts

Finished(e) == outcome[e] \in {"success", "failure"}

\* From its last record on, an export is alone with the account's record: it is on its way
\* to the database, in which it stays until another pool saves.
Ended(e) ==
  Finished(e) =>
    /\ thread[Main(e)].step \in Saves \cup {"done"}
    /\ thread[Main(e)].step # "done" => thread[Main(e)].next = "done"
    /\ thread[Main(e)].step \in {"read", "store"} =>
         \A a \in leased[e] : thread[Main(e)].payload = copy[e][a]
    /\ thread[Main(e)].step = "done" =>
         \A a \in leased[e] : writer[a] = e => stored[a] = copy[e][a]

\* Task threads run while the main thread waits for them.
EndInv ==
  \A e \in Exports :
    /\ thread[Main(e)].step # "work" => \A t \in TasksOf(e) : thread[t].step \in {"off", "done"}
    /\ \A t \in ThreadsOf(e) :
         thread[t].step \notin {"off", "lease", "done"} => \E a \in leased[e] : leased[e] = {a}
    /\ Ended(e)

\* Records that threads may have.
LEMMA RestTyped == \A step \in Steps : Rest(step) \in ThreadRecords
<1>1. Fresh \in Records
  BY DEF Fresh, Records, Statuses
<1>2. 0 \in 0..(MaxAttempts - 1) /\ 0 \in Int /\ "off" \in Steps
  BY DEF Steps
<1> QED BY <1>1, <1>2 DEF Rest, ThreadRecords

LEMMA SaveTyped ==
  ASSUME Typed, NEW t, NEW r \in Records, NEW step \in Steps, SaveThen(t, r, step)
  PROVE  thread' \in [Threads -> ThreadRecords]
<1>1. Rest("until") \in ThreadRecords
  BY RestTyped DEF Steps
<1>2. [Rest("until") EXCEPT !.next = step, !.payload = r] \in ThreadRecords
  BY <1>1 DEF ThreadRecords
<1> QED BY <1>2 DEF SaveThen, Typed

LEMMA GotoTyped ==
  ASSUME Typed, NEW t, NEW step \in Steps, Goto(t, step)
  PROVE  thread' \in [Threads -> ThreadRecords]
<1>1. Rest(step) \in ThreadRecords
  BY RestTyped
<1> QED BY <1>1 DEF Goto, Typed

LEMMA RetryTyped ==
  ASSUME Typed, NEW t \in Threads, NEW r \in Records, NEW rests, rests \subseteq Int,
         RetryOrFail(t, r, Waits(t, rests))
  PROVE  thread' \in [Threads -> ThreadRecords]
<1>1. thread[t] \in ThreadRecords /\ thread[t].attempt \in 0..(MaxAttempts - 1)
  BY DEF Typed, ThreadRecords
<1>2. CASE SaveThen(t, r, Fails(t))
  <2>1. Fails(t) \in Steps
    BY DEF Fails, Steps
  <2> QED BY <1>2, <2>1, SaveTyped
<1>3. ASSUME NEW wait \in Waits(t, rests), thread[t].attempt + 1 < MaxAttempts,
             thread' = [thread EXCEPT ![t].step = "until", ![t].next = "sleep", ![t].payload = r,
                                      ![t].attempt = @ + 1, ![t].wake = now + wait]
      PROVE  thread' \in [Threads -> ThreadRecords]
  <2>1. Delay(thread[t].attempt) \in Int
    <3>1. 2^thread[t].attempt \in Int
      BY <1>1
    <3> QED BY <3>1 DEF Delay, MinOf
  <2>2. now + wait \in Int
    BY <2>1 DEF Waits, Typed
  <2> DEFINE n == thread[t].attempt + 1
             w == now + wait
             s == [thread[t] EXCEPT !.step = "until", !.next = "sleep", !.payload = r,
                                    !.attempt = n, !.wake = w]
  <2>3. thread' = [thread EXCEPT ![t] = s]
    BY <1>1, <1>3 DEF Typed, ThreadRecords
  <2>4. n \in 0..(MaxAttempts - 1) /\ w \in Int /\ {"until", "sleep"} \subseteq Steps
    BY <1>1, <1>3, <2>2 DEF Steps
  <2> HIDE DEF n, w
  <2>5. s \in ThreadRecords
    BY <1>1, <2>4 DEF ThreadRecords
  <2> QED BY <2>3, <2>5 DEF Typed
<1> QED BY <1>2, <1>3 DEF RetryOrFail

\* What is made of a record is one.
LEMMA MadeTyped ==
  ASSUME NEW r \in Records, NEW time \in Nat
  PROVE  Success(r) \in Records /\ Failure(r) \in Records /\ RateLimited(r, time) \in Records
<1> DEFINE u == r.usage + 1
           f == r.failures + 1
           s == [r EXCEPT !.usage = u, !.status = "available", !.until = 0]
           x == [r EXCEPT !.failures = f, !.status = "failed"]
           l == [r EXCEPT !.failures = f, !.status = "rate_limited", !.until = time]
<1>1. u \in Nat /\ f \in Nat
  BY DEF Records
<1>2. Success(r) = s
  BY DEF Success
<1>3. Failure(r) = x
  BY DEF Failure
<1>4. RateLimited(r, time) = l
  BY DEF RateLimited
<1> HIDE DEF u, f
<1>5. s \in Records
  BY <1>1 DEF Records, Statuses
<1>6. x \in Records
  BY <1>1 DEF Records, Statuses
<1>7. l \in Records
  BY <1>1 DEF Records, Statuses
<1> QED BY <1>2, <1>3, <1>4, <1>5, <1>6, <1>7

\* A record that a pool or the database gets is one.
LEMMA RecordTyped ==
  ASSUME Typed, DataInv', NEW p \in Pools, NEW a \in Accounts, NEW r,
         copy' = [copy EXCEPT ![p][a] = r]
  PROVE  copy' \in [Pools -> [Accounts -> Records]]
<1>1. copy'[p][a] = r
  BY DEF Typed
<1>2. r \in Records
  BY <1>1 DEF DataInv, Sound
<1> QED BY <1>2 DEF Typed

LEMMA StoredTyped ==
  ASSUME Typed, DataInv', NEW a \in Accounts, NEW r, stored' = [stored EXCEPT ![a] = r]
  PROVE  stored' \in [Accounts -> Records]
<1>1. r \in Records
  BY DEF Typed, DataInv, Sound
<1> QED BY <1>1 DEF Typed

\* One thread of export e moves while the export is in progress; other exports keep
\* their records, and what is saved is saved by e.
LEMMA EndMoves ==
  ASSUME EndInv, NEW e \in Exports, NEW t \in ThreadsOf(e), OnlyMoves(t), UNCHANGED leased,
         thread[t].step \notin {"off", "lease", "done"},
         t = Main(e) => \A u \in TasksOf(e) : thread[u].step \in {"off", "done"},
         \A f \in Exports \ {e} : outcome'[f] = outcome[f] /\ copy'[f] = copy[f],
         \A a \in Accounts : (stored'[a] = stored[a] /\ writer'[a] = writer[a]) \/ writer'[a] = e,
         \A f \in Exports : leased[f] \subseteq Accounts,
         Ended(e)'
  PROVE  EndInv'
<1> USE DEF OnlyMoves
<1>1. \A f \in Exports : /\ Main(f) \in Threads /\ Main(f) \in ThreadsOf(f)
                         /\ \A u \in ThreadsOf(f) : u \in Threads /\ (u = t => f = e)
                         /\ \A u \in TasksOf(f) : u \in ThreadsOf(f) /\ u # Main(f)
  BY DEF ThreadsOf, Threads, Main, TasksOf
<1>2. ASSUME NEW f \in Exports \ {e}
      PROVE  /\ thread'[Main(f)].step # "work" =>
                  \A u \in TasksOf(f) : thread'[u].step \in {"off", "done"}
             /\ \A u \in ThreadsOf(f) : thread'[u].step \notin {"off", "lease", "done"} =>
                  \E a \in leased'[f] : leased'[f] = {a}
             /\ Ended(f)'
  <2>1. \A u \in ThreadsOf(f) : thread'[u] = thread[u]
    BY <1>1
  <2>2. Ended(f)'
    <3> SUFFICES ASSUME Finished(f)' PROVE Ended(f)'
      BY DEF Ended
    <3>1. Finished(f) /\ copy'[f] = copy[f] /\ thread'[Main(f)] = thread[Main(f)]
      BY <1>1, <2>1 DEF Finished
    <3>2. ASSUME NEW a \in leased[f], writer'[a] = f PROVE writer[a] = f /\ stored'[a] = stored[a]
      BY <3>2
    <3> QED BY <3>1, <3>2 DEF EndInv, Ended
  <2> QED BY <1>1, <2>1, <2>2 DEF EndInv
<1>3. thread'[Main(e)].step # "work" => \A u \in TasksOf(e) : thread'[u].step \in {"off", "done"}
  <2>1. CASE t = Main(e)
    BY <1>1, <2>1
  <2>2. CASE t # Main(e)
    <3>1. t \in TasksOf(e) /\ thread'[Main(e)] = thread[Main(e)]
      BY <1>1, <2>2 DEF ThreadsOf
    <3> QED BY <3>1 DEF EndInv
  <2> QED BY <2>1, <2>2
<1>4. \E a \in leased[e] : leased[e] = {a}
  BY DEF EndInv
<1> QED BY <1>2, <1>3, <1>4 DEF EndInv

\* Nothing but its last save follows the end of an export.
LEMMA NotFinished ==
  ASSUME EndInv, NEW e \in Exports, NEW t \in ThreadsOf(e),
         thread[t].step \notin {"off", "lease", "done"}, Finished(e)
  PROVE  t = Main(e) /\ thread[t].step \in Saves /\ thread[t].next = "done"
BY DEF EndInv, Ended, ThreadsOf, Saves

TypedInv == AccountInv /\ Typed /\ EndInv

LEMMA AnswerTyped ==
  ASSUME TypedInv, AccountInv', NEW e \in Exports, NEW t \in ThreadsOf(e), Answer(e, t)
  PROVE  Typed' /\ EndInv'
<1>1. PICK a \in leased[e] : \/ AnswerGood(e, t, a) \/ AnswerLimited(e, t, a)
                             \/ AnswerUnavailable(e, t, a) \/ AnswerError(e, t, a)
  BY DEF Answer
<1>2. /\ UNCHANGED <<now, stored, leased, outcome, faults, writer>> /\ thread[t].step = "call"
      /\ t \in Threads /\ e \in Pools /\ a \in Accounts
  BY Threading DEF Answer, At, TypedInv, Typed
<1>3. Fails(t) \in {"raise", "done"} /\ Succeeds(t) \in {"work", "done"}
  BY DEF Fails, Succeeds
<1>4. PICK r : copy' = [copy EXCEPT ![e][a] = r]
  BY <1>1 DEF AnswerGood, Good, AnswerLimited, AnswerUnavailable, AnswerError, Record
<1>5. thread' \in [Threads -> ThreadRecords] /\ OnlyMoves(t)
  <2>0. /\ copy[e][a] \in Records /\ Success(copy[e][a]) \in Records /\ Failure(copy[e][a]) \in Records
        /\ \A rest \in 1..MaxReset : RateLimited(copy[e][a], now + rest) \in Records
    <3>1. copy[e][a] \in Records /\ \A rest \in 1..MaxReset : now + rest \in Nat
      BY <1>2 DEF TypedInv, Typed
    <3> QED BY <3>1, MadeTyped
  <2>1. CASE \E made \in Records, step \in {Succeeds(t), Fails(t)} : SaveThen(t, made, step)
    BY <1>2, <1>3, <2>1, SaveTyped, Saving DEF TypedInv, AccountInv, Steps
  <2>2. CASE \E made \in Records, rest \in 1..MaxReset : RetryOrFail(t, made, Waits(t, {rest}))
    <3>1. \A rest \in 1..MaxReset : {rest} \subseteq Int
      OBVIOUS
    <3> QED BY <1>2, <2>2, <3>1, RetryTyped, Retrying DEF TypedInv, AccountInv
  <2>3. CASE \E made \in Records : RetryOrFail(t, made, Waits(t, 1..MaxReset))
    BY <1>2, <2>3, RetryTyped, Retrying DEF TypedInv, AccountInv
  <2>4. CASE AnswerGood(e, t, a) \/ AnswerError(e, t, a)
    BY <2>0, <2>1, <2>4 DEF AnswerGood, Good, AnswerError
  <2>5. CASE AnswerLimited(e, t, a)
    BY <2>0, <2>2, <2>5 DEF AnswerLimited
  <2>6. CASE AnswerUnavailable(e, t, a)
    BY <2>0, <2>3, <2>6 DEF AnswerUnavailable
  <2> QED BY <1>1, <2>4, <2>5, <2>6
<1>6. copy' \in [Pools -> [Accounts -> Records]]
  BY <1>2, <1>4, RecordTyped DEF TypedInv, AccountInv
<1>7. recorded' \in [Accounts -> Counts] /\ told' \in [Accounts -> Nat] /\ blurred' \subseteq Accounts
  BY DEF AccountInv, DataInv
<1>8. Typed'
  BY <1>2, <1>5, <1>6, <1>7 DEF TypedInv, Typed
<1>9. ~Finished(e) /\ ~Finished(e)'
  BY <1>2, NotFinished DEF TypedInv, Finished, Saves
<1>10. t = Main(e) => \A u \in TasksOf(e) : thread[u].step \in {"off", "done"}
  BY <1>2 DEF TypedInv, EndInv
<1>11. EndInv'
  <2>1. \A f \in Exports \ {e} : outcome'[f] = outcome[f] /\ copy'[f] = copy[f]
    BY <1>2, <1>4 DEF TypedInv, Typed
  <2>2. Ended(e)'
    BY <1>9 DEF Ended
  <2>3. (\A f \in Exports : leased[f] \subseteq Accounts) /\ EndInv
    BY DEF TypedInv, Typed
  <2> QED BY <1>2, <1>5, <1>10, <2>1, <2>2, <2>3, EndMoves
<1> QED BY <1>8, <1>11

LEMMA WakeTyped ==
  ASSUME TypedInv, AccountInv', NEW e \in Exports, NEW t \in ThreadsOf(e),
         Wake(t) \/ Dump(e, t) \/ DumpUntil(e, t)
  PROVE  Typed' /\ EndInv'
<1>1. /\ UNCHANGED <<now, stored, copy, leased, outcome, faults, recorded, told, writer>>
      /\ thread[t].step \in {"sleep", "dump", "read"} /\ t \in Threads /\ e \in Pools
      /\ thread[t] \in ThreadRecords /\ leased[e] \subseteq Accounts
      /\ \A a, b \in leased[e] : a = b
  BY Threading DEF Wake, Dump, DumpUntil, At, history, TypedInv, Typed, AccountInv, ThreadInv
<1>2. \A a \in leased[e] : copy[e][a] \in Records
  BY <1>1 DEF TypedInv, Typed
<1>3. PICK r \in ThreadRecords :
        /\ thread' = [thread EXCEPT ![t] = r]
        /\ thread[t].step # "sleep" => /\ r.step \in {"read", "store"} /\ r.next = thread[t].next
        /\ thread[t].step = "dump" => \A a \in leased[e] : r.payload = copy[e][a]
        /\ thread[t].step = "read" =>
             \A a \in leased[e] : r.payload = [thread[t].payload EXCEPT !.until = copy[e][a].until]
  <2>1. CASE Wake(t)
    <3> DEFINE r == [thread[t] EXCEPT !.step = "call", !.wake = 0]
    <3>0. thread[t] \in ThreadRecords /\ "call" \in Steps /\ 0 \in Int
      BY <1>1 DEF Steps
    <3>1. r \in ThreadRecords
      BY <3>0 DEF ThreadRecords
    <3>2. thread' = [thread EXCEPT ![t] = r] /\ thread[t].step = "sleep"
      BY <2>1 DEF Wake, At
    <3> QED BY <3>1, <3>2
  <2>2. CASE Dump(e, t)
    <3>1. PICK a \in leased[e] :
            thread' = [thread EXCEPT ![t].step = "read", ![t].payload = copy[e][a]]
      BY <2>2 DEF Dump
    <3> DEFINE r == [thread[t] EXCEPT !.step = "read", !.payload = copy[e][a]]
    <3>2. r \in ThreadRecords /\ r.step = "read" /\ r.next = thread[t].next /\ r.payload = copy[e][a]
      BY <1>1, <1>2 DEF ThreadRecords, Steps
    <3>3. thread' = [thread EXCEPT ![t] = r] /\ thread[t].step = "dump"
      BY <2>2, <3>1, ZenonT(60) DEF Dump, At
    <3> HIDE DEF r
    <3> QED BY <1>1, <3>2, <3>3
  <2>3. CASE DumpUntil(e, t)
    <3>1. PICK a \in leased[e] : thread' =
            [thread EXCEPT ![t].step = "store", ![t].payload.until = copy[e][a].until]
      BY <2>3 DEF DumpUntil
    <3> DEFINE new == [thread[t].payload EXCEPT !.until = copy[e][a].until]
               r == [thread[t] EXCEPT !.step = "store", !.payload = new]
    <3>2. new \in Records
      <4>1. thread[t].payload \in Records /\ copy[e][a].until \in Nat
        BY <1>1, <1>2 DEF ThreadRecords, Records
      <4> QED BY <4>1 DEF Records
    <3>3. thread' = [thread EXCEPT ![t] = r] /\ thread[t].step = "read"
      <4>1. thread[t].step = "read"
        BY <2>3 DEF DumpUntil, At
      <4>2. DOMAIN thread[t] = Fields
        BY <1>1 DEF ThreadRecords, Fields
      <4> QED BY <3>1, <4>1, <4>2 DEF Fields
    <3>4. \A b \in leased[e] : new = [thread[t].payload EXCEPT !.until = copy[e][b].until]
      BY <1>1
    <3> HIDE DEF new
    <3>5. r \in ThreadRecords /\ r.step = "store" /\ r.next = thread[t].next /\ r.payload = new
      BY <1>1, <3>2 DEF ThreadRecords, Steps
    <3> HIDE DEF r
    <3> QED BY <3>3, <3>4, <3>5
  <2> QED BY <2>1, <2>2, <2>3
<1>4. Typed'
  BY <1>1, <1>3 DEF TypedInv, Typed, AccountInv, DataInv
<1>5. OnlyMoves(t) /\ thread'[t] = r
  BY <1>1, <1>3 DEF OnlyMoves, TypedInv, Typed, ThreadRecords, Fields
<1>6. t = Main(e) => \A u \in TasksOf(e) : thread[u].step \in {"off", "done"}
  BY <1>1 DEF TypedInv, EndInv
<1>7. Ended(e)'
  <2> SUFFICES ASSUME Finished(e)' PROVE Ended(e)'
    BY DEF Ended
  <2>1. Finished(e)
    BY <1>1 DEF Finished
  <2>2. t = Main(e) /\ thread[t].step \in {"dump", "read"} /\ thread[t].next = "done"
    BY <1>1, <2>1, NotFinished DEF TypedInv, Saves
  <2>3. r.step \in {"read", "store"} /\ r.next = "done"
    BY <1>3, <2>2
  <2>4. \A a \in leased[e] : r.payload = copy[e][a]
    <3>1. CASE thread[t].step = "dump"
      BY <1>3, <3>1
    <3>2. CASE thread[t].step = "read"
      <4>1. \A a \in leased[e] : thread[t].payload = copy[e][a]
        BY <2>1, <2>2, <3>2 DEF TypedInv, EndInv, Ended
      <4>2. \A a \in leased[e] : [copy[e][a] EXCEPT !.until = copy[e][a].until] = copy[e][a]
        BY <1>2 DEF Records
      <4>3. \A a \in leased[e] : r.payload = [thread[t].payload EXCEPT !.until = copy[e][a].until]
        BY <1>3, <3>2
      <4>4. ASSUME NEW a \in leased[e] PROVE r.payload = copy[e][a]
        <5>1. r.payload = [copy[e][a] EXCEPT !.until = copy[e][a].until]
          BY <4>1, <4>3, Zenon
        <5> QED BY <4>2, <5>1, Zenon
      <4> QED BY <4>4
    <3> QED BY <2>2, <3>1, <3>2
  <2> QED BY <1>1, <1>5, <2>2, <2>3, <2>4 DEF Ended, Saves
<1>8. EndInv'
  BY <1>1, <1>5, <1>6, <1>7, EndMoves DEF TypedInv, Typed
<1> QED BY <1>4, <1>8

LEMMA UnlockTyped ==
  ASSUME TypedInv, AccountInv', NEW e \in Exports, NEW t \in ThreadsOf(e), Unlock(e, t)
  PROVE  Typed' /\ EndInv'
<1>1. /\ UNCHANGED <<now, stored, leased, outcome, faults, recorded, told, writer, blurred>>
      /\ thread[t].step = "until" /\ t \in Threads /\ e \in Pools
      /\ thread[t] \in ThreadRecords /\ leased[e] \subseteq Accounts
  BY Threading DEF Unlock, At, history, TypedInv, Typed
<1>2. PICK a \in leased[e] : copy' = [copy EXCEPT ![e][a].until = thread[t].payload.until]
  BY DEF Unlock
<1>3. PICK s : copy' = [copy EXCEPT ![e][a] = s]
  BY <1>2
<1>4. copy' \in [Pools -> [Accounts -> Records]]
  BY <1>1, <1>3, RecordTyped DEF TypedInv, AccountInv
<1> DEFINE r == [thread[t] EXCEPT !.step = "dump", !.payload = Fresh]
<1>5. r \in ThreadRecords /\ r.step = "dump" /\ r.next = thread[t].next
  <2>1. Fresh \in Records
    BY DEF Fresh, Records, Statuses
  <2> QED BY <1>1, <2>1 DEF ThreadRecords, Steps
<1>6. thread' = [thread EXCEPT ![t] = r]
  BY DEF Unlock
<1> HIDE DEF r
<1>7. Typed'
  BY <1>1, <1>4, <1>5, <1>6 DEF TypedInv, Typed
<1>8. OnlyMoves(t) /\ thread'[t] = r
  BY <1>1, <1>5, <1>6 DEF OnlyMoves, TypedInv, Typed, ThreadRecords, Fields
<1>9. t = Main(e) => \A u \in TasksOf(e) : thread[u].step \in {"off", "done"}
  BY <1>1 DEF TypedInv, EndInv
<1>10. Ended(e)'
  <2> SUFFICES ASSUME Finished(e)' PROVE Ended(e)'
    BY DEF Ended
  <2>1. Finished(e)
    BY <1>1 DEF Finished
  <2>2. t = Main(e) /\ thread[t].next = "done"
    BY <1>1, <2>1, NotFinished DEF TypedInv
  <2> QED BY <1>5, <1>8, <2>2 DEF Ended, Saves
<1>11. \A f \in Exports \ {e} : copy'[f] = copy[f] /\ outcome'[f] = outcome[f]
  BY <1>1, <1>3 DEF TypedInv, Typed
<1>12. EndInv'
  BY <1>1, <1>8, <1>9, <1>10, <1>11, EndMoves DEF TypedInv, Typed
<1> QED BY <1>7, <1>12

LEMMA StoreTyped ==
  ASSUME TypedInv, AccountInv', NEW e \in Exports, NEW t \in ThreadsOf(e), Store(e, t)
  PROVE  Typed' /\ EndInv'
<1>1. PICK a \in leased[e] :
        /\ stored' = [stored EXCEPT ![a] = thread[t].payload]
        /\ writer' = [writer EXCEPT ![a] = e]
  BY DEF Store
<1>2. /\ UNCHANGED <<now, copy, leased, outcome, faults, recorded, told, blurred>>
      /\ thread[t].step = "store" /\ t \in Threads /\ e \in Pools /\ a \in Accounts
      /\ thread[t] \in ThreadRecords
  BY Threading DEF Store, At, TypedInv, Typed
<1> DEFINE r == [thread[t] EXCEPT !.step = thread[t].next, !.next = "off", !.payload = Fresh]
<1>3. r \in ThreadRecords /\ thread' = [thread EXCEPT ![t] = r] /\ r.step = thread[t].next
  <2>1. Fresh \in Records
    BY DEF Fresh, Records, Statuses
  <2>2. r \in ThreadRecords /\ r.step = thread[t].next
    BY <1>2, <2>1 DEF ThreadRecords, Steps
  <2>3. thread' = [thread EXCEPT ![t] = r]
    BY DEF Store
  <2> QED BY <2>2, <2>3
<1> HIDE DEF r
<1>4. Typed'
  <2>1. stored' \in [Accounts -> Records]
    BY <1>1, <1>2, StoredTyped DEF TypedInv, AccountInv
  <2> QED BY <1>1, <1>2, <1>3, <2>1 DEF TypedInv, Typed
<1>5. OnlyMoves(t) /\ thread'[t] = r
  BY <1>2, <1>3 DEF OnlyMoves, TypedInv, Typed, ThreadRecords, Fields
<1>6. t = Main(e) => \A u \in TasksOf(e) : thread[u].step \in {"off", "done"}
  BY <1>2 DEF TypedInv, EndInv
<1>7. Ended(e)'
  <2> SUFFICES ASSUME Finished(e)' PROVE Ended(e)'
    BY DEF Ended
  <2>1. Finished(e)
    BY <1>2 DEF Finished
  <2>2. t = Main(e) /\ thread[t].next = "done" /\ \A b \in leased[e] : thread[t].payload = copy[e][b]
    BY <1>2, <2>1, NotFinished DEF TypedInv, EndInv, Ended
  <2>3. \A b \in leased[e] : b = a
    BY DEF TypedInv, AccountInv, ThreadInv
  <2>4. stored'[a] = thread[t].payload
    BY <1>1, <1>2 DEF TypedInv, Typed
  <2> QED BY <1>2, <1>3, <1>5, <2>2, <2>3, <2>4 DEF Ended
<1>8. \A b \in Accounts : (stored'[b] = stored[b] /\ writer'[b] = writer[b]) \/ writer'[b] = e
  BY <1>1, <1>2 DEF TypedInv, Typed
<1>9. EndInv'
  BY <1>2, <1>5, <1>6, <1>7, <1>8, EndMoves DEF TypedInv, Typed
<1> QED BY <1>4, <1>9

LEMMA StoreFailsTyped ==
  ASSUME TypedInv, AccountInv', NEW e \in Exports, NEW t \in ThreadsOf(e), StoreFails(e, t)
  PROVE  Typed' /\ EndInv'
<1>1. /\ UNCHANGED <<now, stored, copy, leased, recorded, told, writer, blurred>>
      /\ thread[t].step = "store" /\ t \in Threads
  BY Threading DEF StoreFails, At, history
<1>2. PICK step \in {"raise", "done"}, after \in {"broken", "none"} :
        Goto(t, step) /\ outcome' = [outcome EXCEPT ![e] = after]
  BY DEF StoreFails, Fails
<1>3. faults' \in 0..MaxFaults
  BY DEF StoreFails, TypedInv, Typed
<1>4. thread' \in [Threads -> ThreadRecords]
  BY <1>2, GotoTyped DEF TypedInv, Steps
<1>5. Typed'
  BY <1>1, <1>2, <1>3, <1>4 DEF TypedInv, Typed, Outcomes
<1>6. OnlyMoves(t)
  BY <1>1, <1>2 DEF OnlyMoves, Goto, Rest, TypedInv, Typed, Fields
<1>7. t = Main(e) => \A u \in TasksOf(e) : thread[u].step \in {"off", "done"}
  BY <1>1 DEF TypedInv, EndInv
<1>8. ~Finished(e)'
  BY <1>2 DEF Finished, TypedInv, Typed
<1>9. EndInv'
  BY <1>1, <1>2, <1>6, <1>7, <1>8, EndMoves DEF TypedInv, Typed, Ended
<1> QED BY <1>5, <1>9

LEMMA EndingTyped ==
  ASSUME TypedInv, AccountInv', NEW e \in Exports, Join(e) \/ Raised(e)
  PROVE  Typed' /\ EndInv'
<1> DEFINE t == Main(e)
<1>0. PICK a \in leased[e] : /\ \E r : copy' = [copy EXCEPT ![e][a] = r]
                             /\ \E made \in {Success(copy[e][a]), Failure(copy[e][a])} :
                                  SaveThen(t, made, "done")
  BY DEF Join, Raised, Record
<1>1. PICK r : copy' = [copy EXCEPT ![e][a] = r]
  BY <1>0
<1>2. /\ UNCHANGED <<now, stored, leased, faults, told, writer, blurred>>
      /\ thread[t].step \in {"work", "raise"} /\ t \in ThreadsOf(e) /\ t \in Threads
      /\ e \in Pools /\ a \in Accounts
  BY Threading DEF Join, Raised, At, TypedInv, Typed
<1>3. PICK after \in {"success", "failure"} : outcome' = [outcome EXCEPT ![e] = after]
  BY DEF Join, Raised
<1>4. \A u \in TasksOf(e) : thread[u].step \in {"off", "done"}
  BY DEF Join, Raised, At, TypedInv, EndInv
<1> HIDE DEF t
<1>5. thread' \in [Threads -> ThreadRecords]
  <2>1. copy[e][a] \in Records
    BY <1>2 DEF TypedInv, Typed
  <2>2. Success(copy[e][a]) \in Records /\ Failure(copy[e][a]) \in Records
    BY <2>1, MadeTyped
  <2> QED BY <1>0, <2>2, SaveTyped DEF TypedInv, Steps
<1>6. OnlyMoves(t) /\ thread'[t].step = "until" /\ thread'[t].next = "done"
  BY <1>0, <1>2, Saving DEF TypedInv, AccountInv
<1>7. copy' \in [Pools -> [Accounts -> Records]] /\ recorded' \in [Accounts -> Counts]
  BY <1>1, <1>2, RecordTyped DEF TypedInv, AccountInv, DataInv
<1>8. Typed'
  BY <1>2, <1>3, <1>5, <1>7 DEF TypedInv, Typed, Outcomes
<1>9. Ended(e)'
  BY <1>6 DEF Ended, Saves, t
<1>10. EndInv'
  <2>1. \A f \in Exports \ {e} : outcome'[f] = outcome[f] /\ copy'[f] = copy[f]
    BY <1>1, <1>3 DEF TypedInv, Typed
  <2>2. (\A f \in Exports : leased[f] \subseteq Accounts) /\ EndInv
    BY DEF TypedInv, Typed
  <2>3. thread[t].step \notin {"off", "lease", "done"}
    BY <1>2
  <2> QED BY <1>2, <1>4, <1>6, <1>9, <2>1, <2>2, <2>3, EndMoves
<1> QED BY <1>8, <1>10

LEMMA BeginTyped ==
  ASSUME TypedInv, AccountInv', NEW e \in Exports, Begin(e)
  PROVE  Typed' /\ EndInv'
<1> DEFINE t == Main(e)
<1>1. /\ UNCHANGED <<now, copy, leased, recorded, told, blurred>> /\ thread[t].step = "begin"
      /\ t \in ThreadsOf(e) /\ t \in Threads /\ e \in Pools
  BY Threading DEF Begin, At
<1>2. PICK a \in leased[e] :
       \/ /\ stored' = [stored EXCEPT ![a] = thread[t].payload]
          /\ writer' = [writer EXCEPT ![a] = e]
          /\ Goto(t, "call")
          /\ UNCHANGED <<outcome, faults>>
       \/ /\ faults < MaxFaults /\ faults' = faults + 1
          /\ Goto(t, "done")
          /\ outcome' = [outcome EXCEPT ![e] = "broken"]
          /\ UNCHANGED <<stored, writer>>
  BY DEF Begin
<1>3. a \in Accounts /\ faults' \in 0..MaxFaults /\ ~Finished(e)
  <2>1. a \in Accounts /\ faults' \in 0..MaxFaults
    BY <1>2 DEF TypedInv, Typed
  <2>2. ~Finished(e)
    BY <1>1, NotFinished DEF TypedInv, Saves
  <2> QED BY <2>1, <2>2
<1>4. ~Finished(e)' /\ outcome' \in [Exports -> Outcomes]
      /\ \A f \in Exports \ {e} : outcome'[f] = outcome[f]
  BY <1>2, <1>3 DEF Finished, TypedInv, Typed, Outcomes
<1>5. thread' \in [Threads -> ThreadRecords]
  BY <1>2, GotoTyped DEF TypedInv, Steps
<1>6. OnlyMoves(t)
  BY <1>1, <1>2 DEF OnlyMoves, Goto, Rest, TypedInv, Typed, Fields
<1>7. stored' \in [Accounts -> Records] /\ writer' \in [Accounts -> Pools]
  <2>1. CASE UNCHANGED <<stored, writer>>
    BY <2>1 DEF TypedInv, Typed
  <2>2. CASE stored' = [stored EXCEPT ![a] = thread[t].payload] /\ writer' = [writer EXCEPT ![a] = e]
    <3>1. stored' \in [Accounts -> Records]
      BY <1>3, <2>2, StoredTyped DEF TypedInv, AccountInv
    <3> QED BY <1>1, <1>3, <2>2, <3>1 DEF TypedInv, Typed
  <2> QED BY <1>2, <2>1, <2>2
<1>8. Typed'
  BY <1>1, <1>3, <1>4, <1>5, <1>7 DEF TypedInv, Typed
<1>9. \A u \in TasksOf(e) : thread[u].step \in {"off", "done"}
  BY <1>1 DEF TypedInv, EndInv
<1>10. \A b \in Accounts : (stored'[b] = stored[b] /\ writer'[b] = writer[b]) \/ writer'[b] = e
  BY <1>2, <1>3 DEF TypedInv, Typed
<1> HIDE DEF t
<1>11. EndInv'
  BY <1>1, <1>4, <1>6, <1>9, <1>10, EndMoves DEF TypedInv, Typed, Ended
<1> QED BY <1>8, <1>11

LEMMA StartTyped ==
  ASSUME TypedInv, AccountInv', NEW e \in Exports, StartTasks(e)
  PROVE  Typed' /\ EndInv'
<1>1. /\ UNCHANGED <<now, stored, copy, leased, outcome, faults, recorded, told, writer, blurred>>
      /\ thread[Main(e)].step = "work"
      /\ thread' = [t \in Threads |-> IF t \in TasksOf(e) THEN Rest("call") ELSE thread[t]]
  BY DEF StartTasks, At, history
<1>2. Typed'
  <2>1. Rest("call") \in ThreadRecords
    BY RestTyped DEF Steps
  <2> QED BY <1>1, <2>1 DEF TypedInv, Typed
<1>3. \A f \in Exports : /\ Main(f) \in Threads /\ Main(f) \notin TasksOf(e)
                         /\ ThreadsOf(f) \subseteq Threads /\ TasksOf(f) \subseteq ThreadsOf(f)
                         /\ Main(f) \in ThreadsOf(f)
                         /\ \A u \in TasksOf(e) : u \in ThreadsOf(f) => f = e
  BY DEF Main, TasksOf, ThreadsOf, Threads
<1>4. ASSUME NEW f \in Exports
      PROVE  /\ thread'[Main(f)].step # "work" =>
                  \A u \in TasksOf(f) : thread'[u].step \in {"off", "done"}
             /\ \A u \in ThreadsOf(f) : thread'[u].step \notin {"off", "lease", "done"} =>
                  \E a \in leased'[f] : leased'[f] = {a}
             /\ Ended(f)'
  <2>1. thread'[Main(f)] = thread[Main(f)]
    BY <1>1, <1>3
  <2>2. Ended(f)'
    BY <1>1, <2>1 DEF TypedInv, EndInv, Ended, Finished
  <2>3. CASE f = e
    BY <1>1, <1>3, <2>1, <2>2, <2>3 DEF TypedInv, EndInv
  <2>4. CASE f # e
    <3>1. \A u \in ThreadsOf(f) : thread'[u] = thread[u]
      BY <1>1, <1>3, <2>4
    <3> QED BY <1>1, <1>3, <2>1, <2>2, <3>1 DEF TypedInv, EndInv
  <2> QED BY <2>3, <2>4
<1> QED BY <1>2, <1>4 DEF EndInv

\* An export that has not leased yet has not ended.
LEMMA LeaseTyped ==
  ASSUME TypedInv, AccountInv', NEW e \in Exports, CreatePool(e) \/ Lease(e)
  PROVE  Typed' /\ EndInv'
<1> DEFINE t == Main(e)
<1>1. /\ UNCHANGED <<now, stored, faults, recorded, told, writer, blurred>>
      /\ thread[t].step \in {"off", "lease"} /\ t \in Threads /\ e \in Pools
      /\ ~Finished(e)
  <2>1. thread[t].step \in {"off", "lease"}
    BY DEF CreatePool, Lease, At
  <2>2. ~Finished(e)
    BY <2>1 DEF TypedInv, EndInv, Ended, Saves
  <2> QED BY <2>1, <2>2, Threading DEF CreatePool, Lease, history
<1>2. PICK table : copy' = [copy EXCEPT ![e] = table] /\ table \in [Accounts -> Records]
  <2>1. CASE CreatePool(e)
    BY <2>1 DEF CreatePool, TypedInv, Typed
  <2>2. CASE Lease(e)
    <3> DEFINE records == [a \in Accounts |->
                             IF a \in Eligible(e) THEN Cleared(copy[e][a]) ELSE copy[e][a]]
    <3>1. copy' = [copy EXCEPT ![e] = records]
      BY <2>2 DEF Lease
    <3>2. ASSUME NEW a \in Accounts PROVE records[a] \in Records
      <4>1. copy[e][a] \in Records
        BY <1>1 DEF TypedInv, Typed
      <4>2. Cleared(copy[e][a]) \in Records
        BY <4>1 DEF Cleared, Records, Statuses
      <4> QED BY <4>1, <4>2
    <3> QED BY <3>1, <3>2
  <2> QED BY <2>1, <2>2
<1>3. PICK r \in ThreadRecords, new \in SUBSET Accounts, after \in Outcomes \ {"success", "failure"} :
        /\ thread' = [thread EXCEPT ![t] = r]
        /\ leased' = [leased EXCEPT ![e] = new]
        /\ outcome' = [outcome EXCEPT ![e] = after]
        /\ r.step \notin {"off", "lease", "done"} => \E a \in new : new = {a}
        /\ r.step # "work"
  <2>0. /\ outcome[e] \in Outcomes \ {"success", "failure"} /\ leased[e] \in SUBSET Accounts
        /\ outcome = [outcome EXCEPT ![e] = outcome[e]] /\ leased = [leased EXCEPT ![e] = leased[e]]
    BY <1>1 DEF Finished, TypedInv, Typed
  <2>1. CASE CreatePool(e)
    <3>1. Rest("lease") \in ThreadRecords /\ Rest("lease").step = "lease"
      BY RestTyped DEF Steps, Rest
    <3>2. thread' = [thread EXCEPT ![t] = Rest("lease")] /\ UNCHANGED <<leased, outcome>>
      BY <2>1 DEF CreatePool, Goto
    <3> QED BY <2>0, <3>1, <3>2
  <2>2. CASE Lease(e)
    <3> DEFINE records == [a \in Accounts |->
                             IF a \in Eligible(e) THEN Cleared(copy[e][a]) ELSE copy[e][a]]
               free == {a \in Eligible(e) : ~Limited(records[a])}
    <3>1. \/ /\ Goto(t, "done") /\ outcome' = [outcome EXCEPT ![e] = "refused"]
             /\ UNCHANGED leased
          \/ \E a \in Best(records, free) :
               /\ leased' = [leased EXCEPT ![e] = {a}]
               /\ thread' = [thread EXCEPT ![t].step = "begin", ![t].payload = records[a]]
               /\ UNCHANGED outcome
      BY <2>2 DEF Lease
    <3>2. \A a \in Best(records, free) : a \in Accounts
      BY DEF Best, Eligible
    <3>3. copy' = [copy EXCEPT ![e] = records]
      BY <2>2 DEF Lease
    <3> HIDE DEF records, free
    <3>4. \A a \in Accounts : records[a] \in Records
      BY <1>1, <1>2, <3>3 DEF TypedInv, Typed
    <3>5. CASE Goto(t, "done") /\ outcome' = [outcome EXCEPT ![e] = "refused"] /\ UNCHANGED leased
      <4>1. Rest("done") \in ThreadRecords /\ Rest("done").step = "done"
        BY RestTyped DEF Steps, Rest
      <4>2. thread' = [thread EXCEPT ![t] = Rest("done")]
        BY <3>5 DEF Goto
      <4>3. "refused" \in Outcomes \ {"success", "failure"}
        BY DEF Outcomes
      <4> QED BY <2>0, <3>5, <4>1, <4>2, <4>3
    <3>6. ASSUME NEW a \in Best(records, free), leased' = [leased EXCEPT ![e] = {a}],
                 thread' = [thread EXCEPT ![t].step = "begin", ![t].payload = records[a]],
                 UNCHANGED outcome
          PROVE  \E r \in ThreadRecords, new \in SUBSET Accounts,
                    after \in Outcomes \ {"success", "failure"} :
                   /\ thread' = [thread EXCEPT ![t] = r]
                   /\ leased' = [leased EXCEPT ![e] = new]
                   /\ outcome' = [outcome EXCEPT ![e] = after]
                   /\ r.step \notin {"off", "lease", "done"} => \E b \in new : new = {b}
                   /\ r.step # "work"
      <4> DEFINE r == [thread[t] EXCEPT !.step = "begin", !.payload = records[a]]
      <4>1. thread[t] \in ThreadRecords /\ records[a] \in Records /\ "begin" \in Steps
        BY <1>1, <3>2, <3>4 DEF TypedInv, Typed, Steps
      <4>2. r \in ThreadRecords /\ r.step = "begin"
        BY <4>1 DEF ThreadRecords
      <4>3. thread' = [thread EXCEPT ![t] = r]
        BY <1>1, <3>6
      <4>4. {a} \in SUBSET Accounts
        BY <3>2
      <4> HIDE DEF r
      <4> QED BY <2>0, <3>6, <4>2, <4>3, <4>4
    <3> QED BY <3>1, <3>5, <3>6
  <2> QED BY <2>1, <2>2
<1>4. Typed'
  BY <1>1, <1>2, <1>3 DEF TypedInv, Typed
<1>5. ASSUME NEW f \in Exports
      PROVE  /\ thread'[Main(f)].step # "work" =>
                  \A u \in TasksOf(f) : thread'[u].step \in {"off", "done"}
             /\ \A u \in ThreadsOf(f) : thread'[u].step \notin {"off", "lease", "done"} =>
                  \E a \in leased'[f] : leased'[f] = {a}
             /\ Ended(f)'
  <2>1. /\ Main(f) \in Threads /\ ThreadsOf(f) \subseteq Threads /\ (Main(f) = t => f = e)
        /\ TasksOf(f) \subseteq ThreadsOf(f) /\ t \notin TasksOf(f) /\ (t \in ThreadsOf(f) => f = e)
        /\ \A u \in ThreadsOf(f) : u = Main(f) \/ u \in TasksOf(f)
    BY DEF Main, TasksOf, ThreadsOf, Threads
  <2>2. \A u \in Threads \ {t} : thread'[u] = thread[u]
    BY <1>3 DEF TypedInv, Typed
  <2>3. CASE f # e
    <3>1. /\ \A u \in ThreadsOf(f) : thread'[u] = thread[u]
          /\ leased'[f] = leased[f] /\ outcome'[f] = outcome[f] /\ copy'[f] = copy[f]
      BY <1>2, <1>3, <2>1, <2>2, <2>3 DEF TypedInv, Typed
    <3>2. thread'[Main(f)] = thread[Main(f)]
      BY <2>1, <3>1 DEF ThreadsOf
    <3> QED BY <1>1, <2>1, <3>1, <3>2 DEF TypedInv, EndInv, Ended, Finished
  <2>4. CASE f = e
    <3>1. /\ thread'[t] = r /\ leased'[e] = new /\ outcome'[e] = after
          /\ \A u \in TasksOf(e) : thread'[u] = thread[u]
      BY <1>1, <1>3, <2>1, <2>2, <2>4 DEF TypedInv, Typed
    <3>2. \A u \in TasksOf(e) : thread[u].step \in {"off", "done"}
      BY <1>1 DEF TypedInv, EndInv
    <3>3. Ended(e)'
      BY <3>1 DEF Ended, Finished
    <3> QED BY <1>3, <2>1, <2>4, <3>1, <3>2, <3>3
  <2> QED BY <2>3, <2>4
<1> QED BY <1>4, <1>5 DEF EndInv

LEMMA OthersTyped ==
  ASSUME TypedInv, AccountInv', Passes \/ (\E a \in Accounts : WebPolls(a)) \/ UNCHANGED vars
  PROVE  Typed' /\ EndInv'
<1>1. CASE Passes \/ UNCHANGED vars
  <2>1. /\ UNCHANGED <<stored, copy, leased, thread, outcome, faults, recorded, told, writer, blurred>>
        /\ now' \in 0..Horizon
    BY <1>1 DEF Passes, vars, history, TypedInv, Typed
  <2> QED BY <2>1 DEF TypedInv, Typed, EndInv, Ended, Finished
<1>2. ASSUME NEW a \in Accounts, WebPolls(a) PROVE Typed' /\ EndInv'
  <2>1. /\ UNCHANGED <<now, leased, thread, outcome, faults, recorded, told, blurred>>
        /\ copy' = [copy EXCEPT ![Web][a] = Cleared(copy[Web][a])]
        /\ stored' = [stored EXCEPT ![a] = Cleared(copy[Web][a])]
        /\ writer' = [writer EXCEPT ![a] = Web]
    BY <1>2 DEF WebPolls
  <2>2. Web \in Pools
    BY DEF Pools
  <2>3. copy' \in [Pools -> [Accounts -> Records]]
    BY <2>1, <2>2, RecordTyped DEF TypedInv, AccountInv
  <2>4. stored' \in [Accounts -> Records]
    BY <2>1, StoredTyped DEF TypedInv, AccountInv
  <2>5. Typed'
    BY <2>1, <2>2, <2>3, <2>4 DEF TypedInv, Typed
  <2>6. ASSUME NEW f \in Exports PROVE Ended(f)'
    <3> SUFFICES ASSUME Finished(f)' PROVE Ended(f)'
      BY DEF Ended
    <3>1. f # Web /\ f \in Pools /\ copy'[f] = copy[f] /\ Finished(f)
      BY <2>1, <2>2, Threading DEF TypedInv, Typed, Finished
    <3>2. \A b \in leased[f] : writer'[b] = f => writer[b] = f /\ stored'[b] = stored[b]
      BY <2>1, <3>1 DEF TypedInv, Typed
    <3> QED BY <2>1, <3>1, <3>2 DEF TypedInv, EndInv, Ended
  <2>7. EndInv'
    BY <2>1, <2>6 DEF TypedInv, EndInv
  <2> QED BY <2>5, <2>7
<1> QED BY <1>1, <1>2

-----------------------------------------------------------------------------

LEMMA Initially == Init => AccountInv
<1> SUFFICES ASSUME Init PROVE AccountInv
  OBVIOUS
<1>1. ASSUME NEW a \in Accounts PROVE Sound(Fresh, recorded[a], told[a]) /\ Ends(Fresh)
  <2>1. /\ Fresh \in Records /\ Fresh.usage = 0 /\ Fresh.failures = 0 /\ Fresh.status = "available"
        /\ Fresh.until = 0
    BY DEF Fresh, Records, Statuses
  <2>2. recorded[a].usage = 0 /\ recorded[a].failures = 0 /\ told[a] = 0
    BY DEF Init
  <2>3. Fresh.usage <= recorded[a].usage
    <3>1. 0 <= 0
      OBVIOUS
    <3> QED BY <2>1, <2>2, <3>1, Zenon
  <2>4. Fresh.failures <= recorded[a].failures
    <3>1. 0 <= 0
      OBVIOUS
    <3> QED BY <2>1, <2>2, <3>1, Zenon
  <2>5. Fresh.until <= told[a]
    <3>1. 0 <= 0
      OBVIOUS
    <3> QED BY <2>1, <2>2, <3>1, Zenon
  <2> QED BY <2>1, <2>3, <2>4, <2>5 DEF Sound, Ends
<1>2. DataInv
  BY <1>1 DEF Init, DataInv, Counts
<1>3. \A t \in Threads : DOMAIN thread[t] = Fields /\ thread[t].step = "off"
  BY DEF Init, Rest, Fields
<1>4. \A e \in Exports : Main(e) \in Threads /\ TasksOf(e) \subseteq Threads /\ ThreadsOf(e) \subseteq Threads
  BY DEF ThreadsOf, Threads
<1>5. ThreadInv
  BY <1>3, <1>4 DEF Init, ThreadInv, Begun, Saves, Holds
<1> QED BY <1>2, <1>5 DEF AccountInv

\* Nothing but the time passes.
LEMMA Idling ==
  ASSUME AccountInv, UNCHANGED <<stored, copy, leased, thread, recorded, told, blurred>>,
         now' = now \/ now' = now + 1
  PROVE  AccountInv'
<1>1. now' \in Nat
  BY DEF AccountInv, DataInv
<1>2. \A p, a : Writing(p, a) <=> Writing(p, a)'
  BY DEF Writing
<1>3. DataInv'
  BY <1>1, <1>2 DEF AccountInv, DataInv
<1>4. ThreadInv'
  BY SMTT(40) DEF AccountInv, ThreadInv, Holds
<1> QED BY <1>3, <1>4 DEF AccountInv

LEMMA Stepwise ==
  ASSUME AccountInv, [Next]_vars
  PROVE  AccountInv'
<1>1. ASSUME NEW e \in Exports, ExportStep(e) PROVE AccountInv'
  <2>1. \A t \in {Main(e)} \cup TasksOf(e) : t \in ThreadsOf(e)
    BY DEF ThreadsOf
  <2> QED BY <1>1, <2>1, Leasing, Beginning, Starting, Ending, Answering, Waking, Unlocking,
             Dumping, Storing
          DEF ExportStep, ThreadStep
<1>2. CASE Passes
  BY <1>2, Idling DEF Passes, history
<1>3. CASE UNCHANGED vars
  BY <1>3, Idling DEF vars, history
<1> QED BY <1>1, <1>2, <1>3, Creating, Polling DEF Next

LEMMA TypedInitially == Init => Typed /\ EndInv
<1> SUFFICES ASSUME Init PROVE Typed /\ EndInv
  OBVIOUS
<1>1. Fresh \in Records
  BY DEF Fresh, Records, Statuses
<1>2. Rest("off") \in ThreadRecords /\ Rest("off").step = "off"
  BY RestTyped DEF Steps, Rest
<1>3. Typed
  <2>1. stored \in [Accounts -> Records]
    BY <1>1 DEF Init
  <2>2. copy \in [Pools -> [Accounts -> Records]] /\ leased \in [Exports -> SUBSET Accounts]
    BY <2>1 DEF Init
  <2>3. thread \in [Threads -> ThreadRecords]
    BY <1>2 DEF Init
  <2>4. recorded \in [Accounts -> Counts] /\ told \in [Accounts -> Nat]
    BY DEF Init, Counts
  <2>5. outcome \in [Exports -> Outcomes] /\ writer \in [Accounts -> Pools]
    BY DEF Init, Outcomes, Pools
  <2> QED BY <2>1, <2>2, <2>3, <2>4, <2>5 DEF Init, Typed
<1>4. \A t \in Threads : thread[t].step = "off"
  BY <1>2 DEF Init
<1>5. \A e \in Exports : Main(e) \in Threads /\ ThreadsOf(e) \subseteq Threads /\ TasksOf(e) \subseteq Threads
  BY DEF ThreadsOf, Threads
<1>6. EndInv
  BY <1>4, <1>5 DEF Init, EndInv, Ended, Finished
<1> QED BY <1>3, <1>6

\* The invariant with the types is inductive.
THEOREM Invariance == Spec => []TypedInv
<1>1. Init => TypedInv
  BY Initially, TypedInitially DEF TypedInv
<1>2. TypedInv /\ [Next]_vars => TypedInv'
  <2> SUFFICES ASSUME TypedInv, [Next]_vars PROVE TypedInv'
    OBVIOUS
  <2>1. AccountInv'
    BY Stepwise DEF TypedInv
  <2>2. ASSUME NEW e \in Exports, ExportStep(e) PROVE Typed' /\ EndInv'
    <3>1. \A t \in {Main(e)} \cup TasksOf(e) : t \in ThreadsOf(e)
      BY DEF ThreadsOf
    <3> QED BY <2>1, <2>2, <3>1, LeaseTyped, BeginTyped, StartTyped, EndingTyped, AnswerTyped,
               WakeTyped, UnlockTyped, StoreTyped, StoreFailsTyped DEF ExportStep, ThreadStep
  <2>3. Typed' /\ EndInv'
    BY <2>1, <2>2, LeaseTyped, OthersTyped DEF Next
  <2> QED BY <2>1, <2>3 DEF TypedInv
<1> QED BY <1>1, <1>2, PTL DEF Spec

\* Every reachable state is well typed, and an export in progress has leased one account.
THEOREM TypeCorrect == Spec => []TypeOK
<1>1. TypedInv => TypeOK
  BY DEF TypedInv, Typed, EndInv, TypeOK, ThreadRecords, Counts, ThreadsOf
<1> QED BY Invariance, <1>1, PTL

\* What an export learned of its account is in the database when it is over, unless
\* another pool has saved the account since (export_engine.py, run_manual_export).
THEOREM LearnedIsSaved == Spec => []EndsSaved
<1>1. TypedInv => EndsSaved
  BY DEF TypedInv, EndInv, Ended, Finished, EndsSaved, At
<1> QED BY Invariance, <1>1, PTL

\* Records that pools load, change and save side by side count no use of an account twice,
\* in the database, in any pool and on their way (api_pool.py, _persist_state).
THEOREM CountsNothingTwice == Spec => []NeverOvercounted
<1>1. AccountInv => NeverOvercounted
  BY DEF AccountInv, DataInv, ThreadInv, Holds, NeverOvercounted, Sound, Within, ThreadsOf
<1> QED BY Initially, Stepwise, <1>1, PTL DEF Spec

\* No account rests for longer than Onshape last asked for, in the database or in a pool
\* nobody is writing to; and it rests without an end only if a thread that was saving its
\* record read it while another changed it (api_pool.py, record_rate_limited, _persist_state).
THEOREM RestsAsAsked == Spec => []CooldownAsTold
<1>1. AccountInv => CooldownAsTold
  <2> SUFFICES ASSUME AccountInv, NEW a \in Accounts
               PROVE  AsTold(stored[a], a) /\ \A p \in Pools : ~Locked(p) => AsTold(copy[p][a], a)
    BY DEF CooldownAsTold
  <2>1. AsTold(stored[a], a)
    BY DEF AccountInv, DataInv, AsTold, Sound, Ends
  <2>2. ASSUME NEW p \in Pools, ~Locked(p) PROVE AsTold(copy[p][a], a)
    <3>1. ~Writing(p, a)
      BY <2>2 DEF Writing, Locked, At
    <3>2. Sound(copy[p][a], recorded[a], told[a]) /\ (Ends(copy[p][a]) \/ a \in blurred)
      BY <3>1 DEF AccountInv, DataInv
    <3> QED BY <3>2 DEF AsTold, Sound, Ends
  <2> QED BY <2>1, <2>2
<1> QED BY Initially, Stepwise, <1>1, PTL DEF Spec

=============================================================================
