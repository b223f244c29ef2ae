---------------------------- MODULE AccessProofs ----------------------------
(***************************************************************************)
(* Theorems about Access, for any browsers, terminals, limits, lifetimes   *)
(* and bounds.                                                             *)
(***************************************************************************)
EXTENDS Access, FiniteSetTheorems, SequenceTheorems, WellFoundedInduction, TLAPS

USE AccessAssumption

-----------------------------------------------------------------------------
(* What a rate limiter knows of an address. *)

\* What well-foundedness of the natural numbers gives without a predicate as parameter.
Less == {p \in Nat \X Nat : p[1] < p[2]}

LEMMA LessIsWellFounded == IsWellFoundedOn(Less, Nat)
<1>1. OpToRel(<, Nat) = Less
  BY Zenon DEF OpToRel, Less
<1> QED BY <1>1, NatLessThanWellFounded, Zenon

LEMMA LeastExists ==
  ASSUME NEW T, T \subseteq Nat, T # {}
  PROVE  \E x \in T : \A y \in T : x <= y
<1>1. PICK x \in T : \A y \in T : ~(<<y, x>> \in Less)
  BY LessIsWellFounded, WFMin, Zenon
<1>2. ASSUME NEW y \in T PROVE x <= y
  <2>1. x \in Nat /\ y \in Nat /\ <<y, x>> \in Nat \X Nat
    OBVIOUS
  <2>2. ~(<<y, x>>[1] < <<y, x>>[2])
    BY <1>1, <2>1, Zenon DEF Less
  <2> QED BY <2>1, <2>2
<1> QED BY <1>2

\* Times in the order in which the clock gave them.
Ordered(times) == \A i, j \in 1..Len(times) : i <= j => times[i] <= times[j]

\* What is left of a sequence without its first n elements.
LEMMA RestOf ==
  ASSUME NEW s \in Seq(Nat), NEW n \in 0..Len(s)
  PROVE  /\ SubSeq(s, n + 1, Len(s)) \in Seq(Nat) /\ Len(SubSeq(s, n + 1, Len(s))) = Len(s) - n
         /\ \A i \in 1..(Len(s) - n) : SubSeq(s, n + 1, Len(s))[i] = s[i + n]
<1> DEFINE m == Len(s)
           rest == SubSeq(s, n + 1, m)
<1>1. m \in Nat /\ n \in Nat /\ n <= m
  OBVIOUS
<1>2. \A i \in (n + 1)..m : s[i] \in Nat
  OBVIOUS
<1> HIDE DEF m
<1>3. n + 1 \in Int /\ m \in Int /\ m - (n + 1) + 1 = m - n
  BY <1>1
<1>4. /\ rest \in Seq(Nat) /\ Len(rest) = IF n + 1 <= m THEN m - (n + 1) + 1 ELSE 0
      /\ \A i \in 1..(m - (n + 1) + 1) : rest[i] = s[(n + 1) + i - 1]
  BY <1>2, <1>3, SubSeqProperties
<1> HIDE DEF rest
<1>5. Len(rest) = m - n
  BY <1>1, <1>4
<1>6. ASSUME NEW i \in 1..(m - n) PROVE rest[i] = s[i + n]
  <2>1. (n + 1) + i - 1 = i + n
    BY <1>1
  <2> QED BY <1>3, <1>4, <2>1
<1> QED BY <1>4, <1>5, <1>6 DEF rest, m

\* All times from the first on that is in the window.
LEMMA RecentFrom ==
  ASSUME clock \in Nat, NEW times \in Seq(Nat)
  PROVE  \E n \in 0..Len(times) :
           /\ Recent(times) = SubSeq(times, n + 1, Len(times))
           /\ \A i \in 1..n : Stale(times[i])
           /\ n < Len(times) => ~Stale(times[n + 1])
<1> DEFINE Gone(n) == /\ \A i \in 1..n : Stale(times[i])
                      /\ n < Len(times) => ~Stale(times[n + 1])
           Young == {i \in 1..Len(times) : ~Stale(times[i])}
<1>1. Len(times) \in Nat
  OBVIOUS
<1>2. \E n \in 0..Len(times) : Gone(n)
  <2>1. CASE Young = {}
    <3>1. Gone(Len(times))
      BY <1>1, <2>1
    <3> QED BY <1>1, <3>1
  <2>2. CASE Young # {}
    <3>1. Young \subseteq Nat
      BY <1>1
    <3> HIDE DEF Young
    <3>2. PICK k \in Young : \A y \in Young : k <= y
      BY <2>2, <3>1, LeastExists
    <3>3. k \in 1..Len(times) /\ ~Stale(times[k])
      BY DEF Young
    <3>4. ASSUME NEW i \in 1..(k - 1) PROVE Stale(times[i])
      <4>1. i \in 1..Len(times) /\ i \in Int /\ k \in Int /\ ~(k <= i)
        BY <1>1, <3>3
      <4>2. i \notin Young
        BY <3>2, <4>1
      <4> QED BY <4>1, <4>2 DEF Young
    <3>5. (k - 1) \in 0..Len(times) /\ (k - 1) + 1 = k
      BY <1>1, <3>3
    <3>6. Gone(k - 1)
      BY <3>3, <3>4, <3>5
    <3> QED BY <3>5, <3>6
  <2> QED BY <2>1, <2>2
<1> DEFINE gone == CHOOSE n \in 0..Len(times) : Gone(n)
<1>3. gone \in 0..Len(times) /\ Gone(gone)
  BY <1>2
<1>4. Recent(times) = SubSeq(times, gone + 1, Len(times))
  BY DEF Recent
<1> HIDE DEF gone
<1> QED BY <1>3, <1>4

\* Dropping times out of the window at the front leaves what is in it.
LEMMA RecentOfRest ==
  ASSUME clock \in Nat, NEW times \in Seq(Nat), NEW d \in 0..Len(times),
         \A i \in 1..d : Stale(times[i])
  PROVE  Recent(SubSeq(times, d + 1, Len(times))) = Recent(times)
<1> DEFINE rest == SubSeq(times, d + 1, Len(times))
<1>1. rest \in Seq(Nat) /\ Len(rest) = Len(times) - d /\ Len(times) \in Nat
  BY RestOf
<1>2. \A i \in 1..Len(rest) : rest[i] = times[i + d]
  BY RestOf
<1>3. PICK n \in 0..Len(times) :
        /\ Recent(times) = SubSeq(times, n + 1, Len(times))
        /\ \A i \in 1..n : Stale(times[i])
        /\ n < Len(times) => ~Stale(times[n + 1])
  BY RecentFrom
<1> HIDE DEF rest
<1>4. PICK m \in 0..Len(rest) :
        /\ Recent(rest) = SubSeq(rest, m + 1, Len(rest))
        /\ \A i \in 1..m : Stale(rest[i])
        /\ m < Len(rest) => ~Stale(rest[m + 1])
  BY <1>1, RecentFrom
<1>5. n >= d
  <2> SUFFICES ASSUME n < d PROVE FALSE
    BY <1>1
  <2>1. n < Len(times) /\ (n + 1) \in 1..d
    BY <1>1
  <2> QED BY <1>3, <2>1
<1>6. n = m + d
  <2>1. CASE n < m + d
    <3>1. n < Len(times) /\ (n + 1 - d) \in 1..m /\ (n + 1 - d) \in 1..Len(rest) /\ (n + 1 - d) + d = n + 1
      BY <1>1, <1>5, <2>1
    <3>2. Stale(rest[n + 1 - d])
      BY <1>4, <3>1
    <3>3. rest[n + 1 - d] = times[n + 1]
      BY <1>2, <3>1
    <3> QED BY <1>3, <3>1, <3>2, <3>3
  <2>2. CASE n > m + d
    <3>1. m < Len(rest) /\ (m + 1) \in 1..Len(rest) /\ (m + 1 + d) \in 1..n
      BY <1>1, <2>2
    <3>2. Stale(times[m + 1 + d]) /\ rest[m + 1] = times[m + 1 + d]
      BY <1>2, <1>3, <3>1
    <3> QED BY <1>4, <3>1, <3>2
  <2> QED BY <1>1, <2>1, <2>2
<1>7. SubSeq(rest, m + 1, Len(rest)) = SubSeq(times, n + 1, Len(times))
  BY <1>1, <1>6 DEF rest
<1> QED BY <1>3, <1>4, <1>7 DEF rest

\* What a limiter knows of an address: of all the times g at which it allowed a request,
\* those in b, which leaves out stale ones; no more than most are in the window.
Knows(g, b, most) ==
  /\ Ordered(g) /\ \A i \in 1..Len(g) : g[i] <= clock
  /\ \A i \in 1..Len(g) : ~Stale(g[i]) => Len(g) - i < most
  /\ \E d \in 0..Len(g) : b = SubSeq(g, d + 1, Len(g)) /\ \A i \in 1..d : Stale(g[i])

LEMMA NothingKnown == ASSUME NEW most PROVE Knows(<<>>, <<>>, most)
BY DEF Knows, Ordered

LEMMA RestGrows ==
  ASSUME NEW g \in Seq(Nat), NEW t \in Nat, NEW n \in 0..Len(g)
  PROVE  Append(SubSeq(g, n + 1, Len(g)), t) = SubSeq(Append(g, t), n + 1, Len(g) + 1)
<1> DEFINE rest == SubSeq(g, n + 1, Len(g))
           h == Append(g, t)
<1>0. Len(g) \in Nat /\ n \in Nat /\ n <= Len(g)
  OBVIOUS
<1>1. rest \in Seq(Nat) /\ Len(rest) = Len(g) - n /\ \A i \in 1..Len(rest) : rest[i] = g[i + n]
  BY RestOf
<1>2. /\ h \in Seq(Nat) /\ Len(h) = Len(g) + 1 /\ h[Len(g) + 1] = t
      /\ \A i \in 1..Len(g) : h[i] = g[i]
  BY AppendProperties
<1> HIDE DEF rest, h
<1> DEFINE left == Append(rest, t)
           right == SubSeq(h, n + 1, Len(g) + 1)
<1>3. /\ left \in Seq(Nat) /\ Len(left) = Len(rest) + 1 /\ left[Len(rest) + 1] = t
      /\ \A i \in 1..Len(rest) : left[i] = rest[i]
  BY <1>1, AppendProperties
<1>4. /\ right \in Seq(Nat) /\ Len(right) = Len(g) + 1 - n
      /\ \A i \in 1..Len(right) : right[i] = h[i + n]
  <2>1. n \in 0..Len(h) /\ Len(h) = Len(g) + 1 /\ h \in Seq(Nat)
    BY <1>0, <1>2
  <2>2. right = SubSeq(h, n + 1, Len(h))
    BY <2>1
  <2> DEFINE last == SubSeq(h, n + 1, Len(h))
  <2>3. /\ last \in Seq(Nat) /\ Len(last) = Len(h) - n
        /\ \A i \in 1..(Len(h) - n) : last[i] = h[i + n]
    BY <2>1, RestOf
  <2> HIDE DEF right, last
  <2>4. right = last
    BY <2>2 DEF last
  <2>5. Len(h) - n = Len(g) + 1 - n
    BY <2>1
  <2>6. Len(right) = Len(g) + 1 - n
    BY <2>3, <2>4, <2>5
  <2> QED BY <2>3, <2>4, <2>5, <2>6
<1> HIDE DEF left, right
<1>5. ASSUME NEW i \in 1..Len(left) PROVE left[i] = right[i]
  <2>1. right[i] = h[i + n]
    BY <1>0, <1>1, <1>3, <1>4
  <2>2. CASE i = Len(rest) + 1
    <3>1. i + n = Len(g) + 1
      BY <1>0, <1>1, <2>2
    <3> QED BY <1>2, <1>3, <2>1, <2>2, <3>1
  <2>3. CASE i \in 1..Len(rest)
    <3>1. left[i] = rest[i] /\ rest[i] = g[i + n]
      BY <1>1, <1>3, <2>3
    <3>2. i + n \in 1..Len(g)
      <4>1. i \in Int /\ 1 <= i /\ i <= Len(g) - n
        BY <1>1, <2>3
      <4> QED BY <1>0, <4>1
    <3>3. h[i + n] = g[i + n]
      BY <1>2, <3>2
    <3> QED BY <2>1, <3>1, <3>3
  <2> QED BY <1>0, <1>1, <1>3, <2>2, <2>3
<1>6. Len(left) = Len(right)
  BY <1>0, <1>1, <1>3, <1>4
<1>7. left = right
  BY <1>3, <1>4, <1>5, <1>6, SeqEqual
<1> QED BY <1>7 DEF left, right, rest, h

\* Counting a request.
LEMMA KnowsRecent ==
  ASSUME clock \in Nat, NEW most \in Nat, NEW g \in Seq(Nat), NEW b, Knows(g, b, most)
  PROVE  /\ Recent(b) = Recent(g) /\ Knows(g, Recent(b), most)
         /\ Len(Recent(b)) < most =>
              Knows(Append(g, clock), Append(Recent(b), clock), most)
<1>1. Recent(b) = Recent(g)
  BY RecentOfRest DEF Knows
<1>2. PICK n \in 0..Len(g) :
        /\ Recent(g) = SubSeq(g, n + 1, Len(g))
        /\ \A i \in 1..n : Stale(g[i])
        /\ n < Len(g) => ~Stale(g[n + 1])
  BY RecentFrom
<1>3. Knows(g, Recent(b), most)
  BY <1>1, <1>2 DEF Knows
<1>4. ASSUME Len(Recent(b)) < most
      PROVE  Knows(Append(g, clock), Append(Recent(b), clock), most)
  <2> DEFINE h == Append(g, clock)
  <2>1. /\ Len(h) = Len(g) + 1 /\ Len(g) \in Nat /\ h[Len(g) + 1] = clock
        /\ \A i \in 1..Len(g) : h[i] = g[i] /\ g[i] \in Nat
    OBVIOUS
  <2>2. Append(Recent(b), clock) = SubSeq(h, n + 1, Len(h))
    BY <1>1, <1>2, <2>1, RestGrows
  <2>3. n \in 0..Len(h) /\ \A i \in 1..n : Stale(h[i])
    BY <1>2, <2>1
  <2> HIDE DEF h
  <2>4. Ordered(h) /\ \A i \in 1..Len(h) : h[i] <= clock
    <3>1. Ordered(g) /\ \A i \in 1..Len(g) : g[i] <= clock
      BY DEF Knows
    <3>2. \A i \in 1..Len(h) : i \in 1..Len(g) \/ i = Len(g) + 1
      BY <2>1
    <3>3. \A i \in 1..Len(h) : h[i] <= clock
      BY <2>1, <3>1, <3>2
    <3>4. ASSUME NEW i \in 1..Len(h), NEW j \in 1..Len(h), i <= j PROVE h[i] <= h[j]
      <4>1. CASE j = Len(g) + 1
        BY <2>1, <3>3, <4>1
      <4>2. CASE j \in 1..Len(g)
        <5>1. i \in 1..Len(g)
          BY <3>4, <4>2
        <5> QED BY <2>1, <3>1, <3>4, <4>2, <5>1 DEF Ordered
      <4> QED BY <3>2, <4>1, <4>2
    <3> QED BY <3>3, <3>4 DEF Ordered
  <2>5. ASSUME NEW i \in 1..Len(h), ~Stale(h[i]) PROVE Len(h) - i < most
    <3>1. Len(Recent(b)) = Len(g) - n
      BY <1>1, <1>2
    <3>2. i \notin 1..n
      BY <2>3, <2>5
    <3> QED BY <1>4, <2>1, <3>1, <3>2
  <2>6. Knows(h, Append(Recent(b), clock), most)
    BY <2>2, <2>3, <2>4, <2>5 DEF Knows
  <2> QED BY <2>6 DEF h
<1> QED BY <1>1, <1>3, <1>4

\* Forgetting an address whose last request is stale.
LEMMA KnowsSwept ==
  ASSUME clock \in Nat, NEW most \in Nat, NEW g \in Seq(Nat), NEW b, Knows(g, b, most),
         b = <<>> \/ Stale(b[Len(b)])
  PROVE  Knows(g, <<>>, most)
<1>1. PICK d \in 0..Len(g) : b = SubSeq(g, d + 1, Len(g)) /\ \A i \in 1..d : Stale(g[i])
  BY DEF Knows
<1>2. CASE d = Len(g)
  <2>1. SubSeq(g, d + 1, Len(g)) = <<>>
    BY <1>2
  <2> QED BY <1>1, <2>1
<1>3. CASE d < Len(g)
  <2>0. Len(g) \in Nat /\ d \in Nat
    OBVIOUS
  <2>1. Len(b) = Len(g) - d /\ b[Len(b)] = g[Len(g)] /\ Len(g) \in 1..Len(g)
    <3>1. Len(b) = Len(g) - d /\ \A i \in 1..Len(b) : b[i] = g[i + d]
      BY <1>1, <2>0
    <3> QED BY <1>3, <2>0, <3>1
  <2>2. Stale(g[Len(g)])
    BY <1>3, <2>0, <2>1
  <2>3. \A i \in 1..Len(g) : g[i] <= g[Len(g)]
    BY <2>1 DEF Knows, Ordered
  <2>4. \A i \in 1..Len(g) : Stale(g[i])
    <3>1. \A i \in 1..Len(g) : g[i] \in Nat
      OBVIOUS
    <3> QED BY <2>1, <2>2, <2>3, <3>1 DEF Stale
  <2>5. SubSeq(g, Len(g) + 1, Len(g)) = <<>> /\ Len(g) \in 0..Len(g)
    OBVIOUS
  <2> QED BY <2>4, <2>5 DEF Knows
<1> QED BY <1>2, <1>3

\* Time passes.
LEMMA KnowsLater ==
  ASSUME clock \in Nat, clock' = clock + 1, NEW most \in Nat, NEW g \in Seq(Nat), NEW b,
         Knows(g, b, most)
  PROVE  Knows(g, b, most)'
<1>1. \A i \in 1..Len(g) : g[i] \in Nat /\ (Stale(g[i]) => Stale(g[i])')
  BY DEF Stale
<1>2. \A i \in 1..Len(g) : g[i] <= clock'
  BY <1>1 DEF Knows
<1>3. \A i \in 1..Len(g) : ~Stale(g[i])' => Len(g) - i < most
  BY <1>1 DEF Knows
<1>4. \E d \in 0..Len(g) : b = SubSeq(g, d + 1, Len(g)) /\ \A i \in 1..d : Stale(g[i])'
  <2>1. PICK d \in 0..Len(g) : b = SubSeq(g, d + 1, Len(g)) /\ \A i \in 1..d : Stale(g[i])
    BY DEF Knows
  <2>2. \A i \in 1..d : i \in 1..Len(g)
    OBVIOUS
  <2> QED BY <1>1, <2>1, <2>2
<1>5. Ordered(g)
  BY DEF Knows
<1> QED BY <1>2, <1>3, <1>4, <1>5 DEF Knows

\* What the limiter knows is what LimitExact says.
LEMMA KnowsEnough ==
  ASSUME clock \in Nat, NEW most \in Nat, NEW g \in Seq(Nat), NEW b, Knows(g, b, most)
  PROVE  Cardinality({k \in DOMAIN g : ~Stale(g[k])}) <= most
<1>1. PICK n \in 0..Len(g) :
        /\ \A i \in 1..n : Stale(g[i])
        /\ n < Len(g) => ~Stale(g[n + 1])
  BY RecentFrom
<1>2. Len(g) \in Nat /\ DOMAIN g = 1..Len(g) /\ \A i \in 1..Len(g) : g[i] \in Nat
  OBVIOUS
<1>3. ASSUME NEW i \in (n + 1)..Len(g) PROVE ~Stale(g[i])
  <2>1. n < Len(g) /\ g[n + 1] <= g[i] /\ g[n + 1] \in Nat /\ g[i] \in Nat
    BY <1>2 DEF Knows, Ordered
  <2> QED BY <1>1, <2>1, SMTT(30) DEF Stale
<1>4. {k \in DOMAIN g : ~Stale(g[k])} = (n + 1)..Len(g)
  BY <1>1, <1>2, <1>3
<1>5. Cardinality((n + 1)..Len(g)) <= most
  <2>1. CASE n = Len(g)
    BY <1>2, <2>1, FS_Interval
  <2>2. CASE n < Len(g)
    <3>1. Cardinality((n + 1)..Len(g)) = Len(g) - (n + 1) + 1
      BY <1>2, <2>2, FS_Interval
    <3>2. Len(g) - (n + 1) < most
      BY <1>1, <1>2, <2>2 DEF Knows
    <3> QED BY <1>2, <3>1, <3>2
  <2> QED BY <2>1, <2>2
<1> QED BY <1>4, <1>5

LimitersKnow ==
  /\ granted \in [Limiters -> [Ips -> Seq(Nat)]]
  /\ \A l \in Limiters, ip \in Ips : Knows(granted[l][ip], Bucket(l, ip), Most[l])

LEMMA KnowsSame ==
  ASSUME clock' = clock, NEW g, NEW b, NEW most, Knows(g, b, most)
  PROVE  Knows(g, b, most)'
BY DEF Knows, Ordered, Stale

\* allow() and reset() leave every limiter with what it must know.
LEMMA LimitersKnowOn ==
  ASSUME clock \in Nat, clock' = clock, DOMAIN buckets = Limiters, LimitersKnow,
         NEW l \in Limiters, NEW ip \in Ips, Counts(l, ip) \/ Reset(l, ip)
  PROVE  LimitersKnow'
<1> DEFINE Of(table, i) == IF i \in DOMAIN table THEN table[i] ELSE <<>>
           g == granted[l][ip]
           kept == Recent(Bucket(l, ip))
           same == Put(buckets[l], ip, kept)
           more == Put(buckets[l], ip, Append(kept, clock))
           less == [i \in DOMAIN buckets[l] \ {ip} |-> buckets[l][i]]
<1>0. /\ \A m \in Limiters, i \in Ips : Bucket(m, i) = Of(buckets[m], i)
      /\ Most \in [Limiters -> Nat]
      /\ \A m \in Limiters, i \in Ips :
           granted[m][i] \in Seq(Nat) /\ Knows(granted[m][i], Of(buckets[m], i), Most[m])
  BY DEF Bucket, LimitersKnow
<1>1. SUFFICES ASSUME NEW table, NEW h \in Seq(Nat),
                      buckets' = [buckets EXCEPT ![l] = table],
                      granted' = [granted EXCEPT ![l][ip] = h],
                      Knows(h, Of(table, ip), Most[l]),
                      \A i \in Ips \ {ip} : Knows(granted[l][i], Of(table, i), Most[l])
               PROVE  LimitersKnow'
  <2>1. CASE Reset(l, ip)
    <3>1. Of(less, ip) = <<>> /\ \A i \in Ips \ {ip} : Of(less, i) = Of(buckets[l], i)
      OBVIOUS
    <3>2. buckets' = [buckets EXCEPT ![l] = less] /\ granted' = [granted EXCEPT ![l][ip] = <<>>]
      BY <2>1 DEF Reset
    <3> HIDE DEF less, Of
    <3>3. Knows(<<>>, Of(less, ip), Most[l])
      BY <3>1, NothingKnown
    <3>4. \A i \in Ips \ {ip} : Knows(granted[l][i], Of(less, i), Most[l])
      BY <1>0, <3>1
    <3>5. <<>> \in Seq(Nat)
      OBVIOUS
    <3> QED BY <1>1, <3>2, <3>3, <3>4, <3>5
  <2>2. CASE Counts(l, ip)
    <3>1. /\ Knows(g, kept, Most[l])
          /\ Len(kept) < Most[l] => Knows(Append(g, clock), Append(kept, clock), Most[l])
      <4>1. g \in Seq(Nat) /\ Knows(g, Bucket(l, ip), Most[l]) /\ Most[l] \in Nat
        BY <1>0 DEF LimitersKnow
      <4> QED BY <4>1, KnowsRecent
    <3>2. CASE ~Allowed(l, ip)
      <4>1. buckets' = [buckets EXCEPT ![l] = same] /\ granted' = [granted EXCEPT ![l][ip] = g]
        BY <2>2, <3>2 DEF Counts, LimitersKnow
      <4>2. Of(same, ip) = kept /\ \A i \in Ips \ {ip} : Of(same, i) = Of(buckets[l], i)
        BY DEF Put
      <4>3. g \in Seq(Nat)
        BY <1>0
      <4> HIDE DEF same, Of, g, kept
      <4>4. Knows(g, Of(same, ip), Most[l])
        BY <3>1, <4>2
      <4>5. \A i \in Ips \ {ip} : Knows(granted[l][i], Of(same, i), Most[l])
        BY <1>0, <4>2
      <4> QED BY <1>1, <4>1, <4>3, <4>4, <4>5
    <3>3. CASE Allowed(l, ip)
      <4> DEFINE h == Append(g, clock)
      <4>1. /\ buckets' = [buckets EXCEPT ![l] = Swept(more)]
            /\ granted' = [granted EXCEPT ![l][ip] = h]
        BY <2>2, <3>3 DEF Counts
      <4>2. /\ Of(more, ip) = Append(kept, clock)
            /\ \A i \in Ips \ {ip} : Of(more, i) = Of(buckets[l], i)
        BY DEF Put
      <4>3. h \in Seq(Nat) /\ Len(kept) < Most[l]
        BY <1>0, <3>3 DEF Allowed
      <4>4. ASSUME NEW i \in Ips
            PROVE  \/ Of(Swept(more), i) = Of(more, i)
                   \/ /\ Of(Swept(more), i) = <<>>
                      /\ Of(more, i) = <<>> \/ Stale(Of(more, i)[Len(Of(more, i))])
        BY DEF Swept
      <4> HIDE DEF more, Of, g, kept, h
      <4>5. Knows(h, Of(more, ip), Most[l])
        BY <3>1, <4>2, <4>3 DEF h
      <4>6. \A i \in Ips \ {ip} : Knows(granted[l][i], Of(more, i), Most[l])
        BY <1>0, <4>2
      <4>7. Knows(h, Of(Swept(more), ip), Most[l])
        BY <1>0, <4>3, <4>4, <4>5, KnowsSwept
      <4>8. ASSUME NEW i \in Ips \ {ip}
            PROVE  Knows(granted[l][i], Of(Swept(more), i), Most[l])
        BY <1>0, <4>4, <4>6, KnowsSwept
      <4> QED BY <1>1, <4>1, <4>3, <4>7, <4>8
    <3> QED BY <3>2, <3>3
  <2> QED BY <2>1, <2>2
<1>2. granted \in [Limiters -> [Ips -> Seq(Nat)]]
  BY DEF LimitersKnow
<1>3. granted' \in [Limiters -> [Ips -> Seq(Nat)]]
  BY <1>1, <1>2
<1>4. ASSUME NEW m \in Limiters, NEW i \in Ips
      PROVE  Knows(granted'[m][i], Of(buckets'[m], i), Most[m])
  <2>1. CASE m # l
    <3>1. granted'[m][i] = granted[m][i] /\ buckets'[m] = buckets[m]
      BY <1>1, <1>2, <2>1
    <3> QED BY <1>0, <3>1
  <2>2. CASE m = l /\ i # ip
    <3>1. granted'[m][i] = granted[l][i] /\ buckets'[m] = table
      BY <1>1, <1>2, <2>2
    <3> QED BY <1>1, <2>2, <3>1
  <2>3. CASE m = l /\ i = ip
    <3>1. granted'[m][i] = h /\ buckets'[m] = table
      BY <1>1, <1>2, <2>3
    <3> QED BY <1>1, <2>3, <3>1
  <2> QED BY <2>1, <2>2, <2>3
<1>5. \A m \in Limiters, i \in Ips : Bucket(m, i)' = Of(buckets'[m], i)
  BY DEF Bucket
<1> HIDE DEF Of
<1>6. ASSUME NEW m \in Limiters, NEW i \in Ips
      PROVE  Knows(granted[m][i], Bucket(m, i), Most[m])'
  <2>1. Knows(granted'[m][i], Bucket(m, i)', Most[m])
    BY <1>4, <1>5
  <2> QED BY <2>1 DEF Knows, Ordered, Stale
<1> QED BY <1>3, <1>6 DEF LimitersKnow

LEMMA LimitersRest ==
  ASSUME LimitersKnow, UNCHANGED <<limits, clock>>
  PROVE  LimitersKnow'
BY ZenonT(40) DEF LimitersKnow, Knows, Ordered, Stale, Bucket, limits

-----------------------------------------------------------------------------
(* The inductive invariant *)

Signature == [by : Users, until : Nat]

\* A limiter knows what it must, a token is made once and for one user, a session lives as long as it was made for, a
\* browser holds a token of its own, and a request was let pass for a reason.
IInv ==
  /\ TypeOK /\ LimitersKnow
  /\ told \subseteq Users /\ told \subseteq {owner}
  /\ signed \in Seq(Signature)
  /\ \A s \in sessions : s.expires = signed[s.token].until
  /\ \A b \in Browsers : cookie[b] # Nobody =>
       cookie[b] \in 1..Len(signed) /\ signed[cookie[b]].by = b
  /\ \A v \in visits :
       IF v.token = Nobody THEN ~v.told
       ELSE /\ v.token \in 1..Len(signed)
            /\ signed[v.token].by = v.by /\ v.at < signed[v.token].until

PCs == [at : Steps, of : {"idle", "login", "setup", "wizard"}]

\* A handler that holds the event loop is alone.
Alone == \A b, c \in Browsers : pc[b].at \in Holds /\ pc[c].at \in Holds => b = c

-----------------------------------------------------------------------------
(* What actions have in common. *)

\* A user's request goes on to a step at which it does not hold the event loop, or the
\* loop is free, or it held it before.
LEMMA PcMoves ==
  ASSUME TypeOK, NEW u \in Users, NEW p \in PCs, pc' = [pc EXCEPT ![u] = p],
         p.at \in Holds => u \in Terminals \/ LoopFree(u) \/ pc[u].at \in Holds
  PROVE  pc' \in [Users -> PCs] /\ Alone'
<1>1. pc \in [Users -> PCs] /\ Alone
  BY DEF TypeOK, PCs, Alone
<1>2. pc' \in [Users -> PCs]
  BY <1>1
<1>3. ASSUME NEW b \in Browsers, NEW c \in Browsers, pc'[b].at \in Holds, pc'[c].at \in Holds
      PROVE  b = c
  <2>1. b \in Users /\ c \in Users /\ (u \in Browsers => u \notin Terminals)
    BY DEF Users
  <2>2. CASE b # u /\ c # u
    BY <1>1, <1>3, <2>1, <2>2 DEF Alone
  <2>3. CASE b = u \/ c = u
    <3>1. p.at \in Holds /\ u \in Browsers /\ u \notin Terminals
      BY <1>1, <1>3, <2>1, <2>3
    <3>2. \A d \in Browsers \ {u} : pc'[d] = pc[d]
      BY <1>1 DEF Users
    <3>3. \A d \in Browsers \ {u} : pc[d].at \notin Holds
      BY <1>1, <3>1 DEF LoopFree, Alone
    <3> QED BY <1>3, <2>3, <3>2, <3>3
  <2> QED BY <2>2, <2>3
<1> QED BY <1>2, <1>3 DEF Alone

\* allow() and reset() keep the tables of the limiters to addresses.
LimitersTyped ==
  DOMAIN buckets = Limiters /\ \A l \in Limiters : DOMAIN buckets[l] \subseteq Ips

LEMMA TableChanged ==
  ASSUME LimitersTyped, NEW l \in Limiters, NEW ip \in Ips, NEW table,
         buckets' = [buckets EXCEPT ![l] = table], DOMAIN table \subseteq DOMAIN buckets[l] \cup {ip}
  PROVE  LimitersTyped'
BY DEF LimitersTyped

LEMMA LimitersKeep ==
  ASSUME LimitersTyped, NEW l \in Limiters, NEW ip \in Ips, Counts(l, ip) \/ Reset(l, ip)
  PROVE  LimitersTyped'
<1> DEFINE kept == Recent(Bucket(l, ip))
           same == Put(buckets[l], ip, kept)
           more == Put(buckets[l], ip, Append(kept, clock))
           less == [i \in DOMAIN buckets[l] \ {ip} |-> buckets[l][i]]
<1>1. CASE Reset(l, ip)
  <2>1. buckets' = [buckets EXCEPT ![l] = less] /\ DOMAIN less \subseteq DOMAIN buckets[l] \cup {ip}
    BY <1>1 DEF Reset
  <2> HIDE DEF less
  <2> QED BY <2>1, TableChanged
<1>2. CASE Counts(l, ip) /\ ~Allowed(l, ip)
  <2>1. buckets' = [buckets EXCEPT ![l] = same] /\ DOMAIN same \subseteq DOMAIN buckets[l] \cup {ip}
    BY <1>2 DEF Counts, Put
  <2> HIDE DEF same
  <2> QED BY <2>1, TableChanged
<1>3. CASE Counts(l, ip) /\ Allowed(l, ip)
  <2>1. buckets' = [buckets EXCEPT ![l] = Swept(more)]
    BY <1>3 DEF Counts
  <2>2. DOMAIN more = DOMAIN buckets[l] \cup {ip}
    BY DEF Put
  <2> HIDE DEF more
  <2>3. DOMAIN Swept(more) \subseteq DOMAIN more
    BY DEF Swept
  <2> QED BY <2>1, <2>2, <2>3, TableChanged
<1> QED BY <1>1, <1>2, <1>3

\* A token that was made stays what it was.
LEMMA SignedGrows ==
  ASSUME IInv, NEW u \in Users, NEW until \in Nat,
         signed' = Append(signed, [by |-> u, until |-> until])
  PROVE  /\ signed' \in Seq(Signature) /\ Len(signed') = Len(signed) + 1
         /\ \A k \in 1..Len(signed) : signed'[k] = signed[k]
         /\ signed'[Len(signed) + 1] = [by |-> u, until |-> until]
<1>1. [by |-> u, until |-> until] \in Signature /\ signed \in Seq(Signature)
  BY DEF IInv, Signature
<1> QED BY <1>1

\* Steps that only move a request.
LEMMA MoveKeeps ==
  ASSUME IInv, NEW u \in Users, NEW p \in PCs, pc' = [pc EXCEPT ![u] = p],
         p.at \in Holds => u \in Terminals \/ LoopFree(u) \/ pc[u].at \in Holds,
         UNCHANGED <<tables, configured, limits, cookie, bounds, told, signed, visits>>
  PROVE  IInv'
<1>1. pc' \in [Users -> PCs] /\ Alone'
  BY PcMoves DEF IInv
<1>2. UNCHANGED <<owner, sessions, configured, buckets, cookie, clock, acts, restarts, told,
                  signed, visits>>
  BY DEF tables, limits, bounds
<1>3. TypeOK'
  BY <1>1, <1>2 DEF IInv, TypeOK, PCs, Alone
<1>4. LimitersKnow'
  BY LimitersRest DEF IInv, limits, bounds
<1> QED BY <1>2, <1>3, <1>4 DEF IInv

-----------------------------------------------------------------------------
LEMMA Initially == Init => IInv
<1> SUFFICES ASSUME Init PROVE IInv
  OBVIOUS
<1>1. pc \in [Users -> PCs] /\ Alone
  BY DEF Init, PCs, Idle, Steps, Alone, Holds, Users
<1>2. /\ owner \in Users \cup {Nobody} /\ configured \in BOOLEAN /\ cookie \in [Browsers -> Nat \cup {Nobody}]
      /\ clock \in 0..MaxClock /\ acts \in 0..MaxActs /\ restarts \in 0..MaxRestarts
  BY DEF Init
<1>3. DOMAIN buckets = Limiters /\ \A l \in Limiters : DOMAIN buckets[l] \subseteq Ips
  BY DEF Init
<1>4. TypeOK
  BY <1>1, <1>2, <1>3 DEF Init, TypeOK, PCs, Alone
<1>5. signed \in Seq(Signature)
  BY DEF Init
<1>6. LimitersKnow
  <2>1. \A l \in Limiters, ip \in Ips : granted[l][ip] = <<>> /\ Bucket(l, ip) = <<>>
    BY DEF Init, Bucket
  <2>2. granted \in [Limiters -> [Ips -> Seq(Nat)]]
    BY DEF Init
  <2> QED BY <2>1, <2>2, NothingKnown DEF LimitersKnow
<1> QED BY <1>4, <1>5, <1>6 DEF Init, IInv

\* The guard lets a request pass that no owner could object to, or one with a session.
LEMMA GuardKeeps ==
  ASSUME IInv, NEW b \in Browsers, NEW setup \in BOOLEAN, Guarded(b, setup)
  PROVE  IInv'
<1>1. /\ pc[b] = Idle /\ LoopFree(b) /\ acts' \in 0..MaxActs
      /\ UNCHANGED <<tables, cookie, clock, restarts, told, signed>>
  BY DEF Guarded, Act, IInv, TypeOK
<1>2. LimitersTyped'
  BY LimitersKeep DEF Guarded, Limiters, LimitersTyped, IInv, TypeOK
<1>3. pc' \in [Users -> PCs] /\ Alone'
  <2>1. CASE UNCHANGED pc
    BY <2>1 DEF IInv, TypeOK, PCs, Alone
  <2>2. CASE Begins(b, "setup", "body")
    <3> DEFINE p == [at |-> "body", of |-> "setup"]
    <3>1. p \in PCs /\ p.at \notin Holds
      BY DEF PCs, Steps, Holds
    <3>2. b \in Users /\ pc' = [pc EXCEPT ![b] = p]
      BY <2>2 DEF Begins, Users
    <3> QED BY <3>1, <3>2, PcMoves DEF IInv
  <2> QED BY <2>1, <2>2 DEF Guarded
<1>4. configured' \in BOOLEAN
  BY DEF Guarded, IInv, TypeOK
<1>5. TypeOK'
  BY <1>1, <1>2, <1>3, <1>4 DEF IInv, TypeOK, tables, LimitersTyped, PCs, Alone
<1>6. ASSUME NEW v \in visits'
      PROVE  IF v.token = Nobody THEN ~v.told
             ELSE /\ v.token \in 1..Len(signed)
                  /\ signed[v.token].by = v.by /\ v.at < signed[v.token].until
  <2>1. CASE v \in visits
    BY <2>1 DEF IInv
  <2>2. CASE v \notin visits
    <3>1. /\ Open \/ Alive(cookie[b])
          /\ v = [by |-> b, at |-> clock, told |-> told # {},
                  token |-> IF Open THEN Nobody ELSE cookie[b]]
      BY <1>6, <2>2 DEF Guarded
    <3>2. CASE Open
      <4>1. told = {}
        BY <3>2 DEF Open, IInv, Users
      <4> QED BY <3>1, <3>2, <4>1
    <3>3. CASE ~Open
      <4>1. PICK s \in sessions : s.token = cookie[b] /\ s.expires > clock
        BY <3>1, <3>3 DEF Alive
      <4>2. s.token \in 1..Len(signed) /\ s.expires = signed[s.token].until
        BY DEF IInv, TypeOK
      <4>3. cookie[b] # Nobody
        BY <4>1, <4>2 DEF IInv
      <4>4. signed[cookie[b]].by = b
        BY <4>3 DEF IInv
      <4> QED BY <3>1, <3>3, <4>1, <4>2, <4>3, <4>4 DEF IInv, TypeOK
    <3> QED BY <3>2, <3>3
  <2> QED BY <2>1, <2>2
<1>7. LimitersKnow'
  BY <1>1, LimitersKnowOn DEF Guarded, Limiters, IInv, TypeOK
<1> QED BY <1>1, <1>5, <1>6, <1>7 DEF IInv, tables

LEMMA LoginBeginsKeeps ==
  ASSUME IInv, NEW b \in Browsers, LoginBegins(b)
  PROVE  IInv'
<1>1. /\ pc[b] = Idle /\ LoopFree(b) /\ acts' \in 0..MaxActs
      /\ UNCHANGED <<tables, configured, cookie, clock, restarts, told, signed, visits>>
  BY DEF LoginBegins, Act, IInv, TypeOK
<1>2. LimitersTyped'
  BY LimitersKeep DEF LoginBegins, Limiters, LimitersTyped, IInv, TypeOK
<1>3. pc' \in [Users -> PCs] /\ Alone'
  <2>1. CASE UNCHANGED pc
    BY <2>1 DEF IInv, TypeOK, PCs, Alone
  <2>2. CASE Begins(b, "login", "form")
    <3> DEFINE p == [at |-> "form", of |-> "login"]
    <3>1. p \in PCs /\ p.at \notin Holds
      BY DEF PCs, Steps, Holds
    <3>2. b \in Users /\ pc' = [pc EXCEPT ![b] = p]
      BY <2>2 DEF Begins, Users
    <3> QED BY <3>1, <3>2, PcMoves DEF IInv
  <2> QED BY <2>1, <2>2 DEF LoginBegins
<1>4. TypeOK'
  BY <1>1, <1>2, <1>3 DEF IInv, TypeOK, tables, LimitersTyped, PCs, Alone
<1>5. LimitersKnow'
  BY <1>1, LimitersKnowOn DEF LoginBegins, Limiters, IInv, TypeOK
<1> QED BY <1>1, <1>4, <1>5 DEF IInv, tables

\* Requests that go on, and the wizard.
LEMMA GoesOnKeeps ==
  ASSUME IInv, NEW u \in Users,
         \/ u \in Browsers /\ (SetupGoesOn(u) \/ LoginGoesOn(u))
         \/ u \in Terminals /\ WizardBegins(u)
         \/ Check(u)
  PROVE  IInv'
<1>0. pc[u] \in PCs /\ pc \in [Users -> PCs]
  BY DEF IInv, TypeOK, PCs
<1>1. PICK p \in PCs : /\ pc' = [pc EXCEPT ![u] = p]
                       /\ p.at \in Holds => u \in Terminals \/ LoopFree(u) \/ pc[u].at \in Holds
  <2>1. \A step \in {"check", "sign_in", "insert"} : [pc[u] EXCEPT !.at = step] \in PCs
    BY <1>0 DEF PCs, Steps
  <2>2. Idle \in PCs /\ Idle.at \notin Holds
    BY DEF Idle, PCs, Steps, Holds
  <2>3. CASE u \in Browsers /\ SetupGoesOn(u)
    BY <2>1, <2>3 DEF SetupGoesOn, Goto
  <2>4. CASE u \in Browsers /\ LoginGoesOn(u)
    BY <2>1, <2>2, <2>4 DEF LoginGoesOn, Authenticate, Goto, Ends
  <2>5. CASE u \in Terminals /\ WizardBegins(u)
    <3>1. [at |-> "check", of |-> "wizard"] \in PCs
      BY DEF PCs, Steps
    <3> QED BY <2>5, <3>1 DEF WizardBegins, Begins
  <2>6. CASE Check(u)
    BY <2>1, <2>2, <2>6 DEF Check, Goto, Ends, Holds
  <2> QED BY <2>3, <2>4, <2>5, <2>6
<1>2. UNCHANGED <<tables, configured, limits, cookie, bounds, told, signed, visits>>
  BY DEF SetupGoesOn, LoginGoesOn, WizardBegins, Check
<1> QED BY <1>1, <1>2, MoveKeeps

\* The one INSERT that succeeds makes the first owner.
LEMMA InsertKeeps ==
  ASSUME IInv, NEW u \in Users, Insert(u)
  PROVE  IInv'
<1>0. pc[u] \in PCs /\ pc[u].at = "insert" /\ pc \in [Users -> PCs]
  BY DEF Insert, IInv, TypeOK, PCs
<1>1. UNCHANGED <<sessions, limits, cookie, bounds, signed, visits>>
  BY DEF Insert
<1>2. PICK p \in PCs : pc' = [pc EXCEPT ![u] = p]
  <2>1. Idle \in PCs /\ [pc[u] EXCEPT !.at = "sign_in"] \in PCs
    BY <1>0 DEF Idle, PCs, Steps
  <2> QED BY <2>1 DEF Insert, Goto, Ends
<1>3. pc' \in [Users -> PCs] /\ Alone'
  BY <1>0, <1>2, PcMoves DEF IInv, Holds
<1>4. /\ owner' \in Users \cup {Nobody} /\ configured' \in BOOLEAN
      /\ told' \subseteq Users /\ told' \subseteq {owner'}
  <2>1. /\ owner \in Users \cup {Nobody} /\ configured \in BOOLEAN
        /\ told \subseteq Users /\ told \subseteq {owner} /\ Nobody \notin Users
    BY DEF IInv, TypeOK, Users
  <2>2. CASE owner = Nobody
    <3>1. owner' = u /\ told' = told \cup {u} /\ configured' = (configured \/ u \in Browsers)
      BY <2>2 DEF Insert
    <3> QED BY <2>1, <2>2, <3>1
  <2>3. CASE owner # Nobody
    <3>1. UNCHANGED <<owner, told, configured>>
      BY <2>3 DEF Insert
    <3> QED BY <2>1, <3>1
  <2> QED BY <2>2, <2>3
<1>5. TypeOK'
  BY <1>1, <1>3, <1>4 DEF IInv, TypeOK, limits, bounds, PCs, Alone
<1>6. LimitersKnow'
  BY <1>1, LimitersRest DEF IInv, bounds
<1> QED BY <1>1, <1>4, <1>5, <1>6 DEF IInv

\* A new token is nobody's but the user's who signs in.
LEMMA SignInKeeps ==
  ASSUME IInv, NEW u \in Users, SignIn(u)
  PROVE  IInv'
<1>0. /\ TypeOK /\ pc[u].at = "sign_in" /\ clock \in Nat
      /\ UNCHANGED <<owner, configured, bounds, told, visits>>
  BY DEF SignIn, IInv, TypeOK
<1>1. PICK remember \in BOOLEAN : CreateSession(u, remember)
  BY DEF SignIn
<1> DEFINE until == clock + Lifetime[remember]
           token == Len(signed) + 1
<1>2. until \in Nat /\ signed' = Append(signed, [by |-> u, until |-> until])
      /\ sessions' = sessions \cup {[token |-> token, expires |-> until]}
  BY <1>0, <1>1 DEF CreateSession
<1> HIDE DEF until
<1>3. /\ signed' \in Seq(Signature) /\ Len(signed') = token
      /\ \A k \in 1..Len(signed) : signed'[k] = signed[k]
      /\ signed'[token] = [by |-> u, until |-> until]
  BY <1>2, SignedGrows
<1>4. Len(signed) \in Nat
  BY DEF IInv
<1> HIDE DEF token
<1>4a. token = Len(signed) + 1
  BY DEF token
<1>5. \A s \in sessions' : s \in [token : 1..Len(signed'), expires : Nat]
  BY <1>0, <1>2, <1>3, <1>4, <1>4a DEF TypeOK
<1>6. \A s \in sessions' : s.expires = signed'[s.token].until
  BY <1>0, <1>2, <1>3, <1>4, <1>4a DEF TypeOK, IInv
<1>7. cookie' = IF u \in Browsers THEN [cookie EXCEPT ![u] = token] ELSE cookie
  BY <1>4a DEF SignIn
<1>8. cookie' \in [Browsers -> Nat \cup {Nobody}]
  BY <1>0, <1>4, <1>4a, <1>7 DEF TypeOK
<1>9. \A b \in Browsers : cookie'[b] # Nobody =>
        cookie'[b] \in 1..Len(signed') /\ signed'[cookie'[b]].by = b
  <2> SUFFICES ASSUME NEW b \in Browsers, cookie'[b] # Nobody
               PROVE  cookie'[b] \in 1..Len(signed') /\ signed'[cookie'[b]].by = b
    OBVIOUS
  <2>1. CASE b = u
    BY <1>0, <1>3, <1>4, <1>4a, <1>7, <2>1 DEF TypeOK
  <2>2. CASE b # u
    BY <1>0, <1>3, <1>4, <1>4a, <1>7, <2>2 DEF TypeOK, IInv
  <2> QED BY <2>1, <2>2
<1>10. \A v \in visits' :
         IF v.token = Nobody THEN ~v.told
         ELSE /\ v.token \in 1..Len(signed')
              /\ signed'[v.token].by = v.by /\ v.at < signed'[v.token].until
  BY <1>0, <1>3, <1>4, <1>4a DEF IInv
<1>11. pc' \in [Users -> PCs] /\ Alone'
  <2>1. Idle \in PCs /\ Idle.at \notin Holds /\ pc' = [pc EXCEPT ![u] = Idle]
    BY DEF Idle, PCs, Steps, Holds, SignIn, Ends
  <2> QED BY <1>0, <2>1, PcMoves
<1>12. LimitersTyped'
  <2>1. CASE UNCHANGED limits
    BY <1>0, <2>1 DEF TypeOK, LimitersTyped, limits
  <2>2. CASE pc[u].of = "login" /\ Reset("login", IpOf[u])
    <3>1. CASE IpOf[u] \in Ips
      BY <1>0, <2>2, <3>1, LimitersKeep DEF TypeOK, LimitersTyped, Limiters
    <3>2. CASE IpOf[u] \notin Ips
      BY <1>0, <2>2 DEF TypeOK, LimitersTyped, Reset
    <3> QED BY <3>1, <3>2
  <2> QED BY <2>1, <2>2 DEF SignIn
<1>13. TypeOK'
  BY <1>0, <1>5, <1>8, <1>11, <1>12 DEF TypeOK, LimitersTyped, PCs, Alone, bounds
<1>14. LimitersKnow'
  <2>1. LimitersKnow /\ clock' = clock /\ DOMAIN buckets = Limiters
    BY <1>0 DEF IInv, TypeOK, bounds
  <2>2. CASE UNCHANGED limits
    BY <2>1, <2>2, LimitersRest
  <2>3. CASE pc[u].of = "login" /\ Reset("login", IpOf[u])
    <3>1. CASE IpOf[u] \in Ips
      BY <1>0, <2>1, <2>3, <3>1, LimitersKnowOn DEF Limiters
    <3>2. CASE IpOf[u] \notin Ips
      <4>1. granted' = granted
        BY <2>1, <2>3, <3>2 DEF Reset, LimitersKnow
      <4>2. \A l \in Limiters, ip \in Ips : Bucket(l, ip)' = Bucket(l, ip)
        BY <2>1, <2>3, <3>2 DEF Reset, Bucket
      <4> QED BY <2>1, <4>1, <4>2, ZenonT(40) DEF LimitersKnow, Knows, Ordered, Stale
    <3> QED BY <3>1, <3>2
  <2> QED BY <2>2, <2>3 DEF SignIn
<1> QED BY <1>0, <1>3, <1>6, <1>9, <1>10, <1>13, <1>14 DEF IInv

LEMMA OthersKeep ==
  ASSUME IInv, WebRestarts \/ Tick \/ \E b \in Browsers : Logout(b)
  PROVE  IInv'
<1>1. CASE WebRestarts
  <2>1. pc' \in [Users -> PCs] /\ Alone'
    BY <1>1 DEF WebRestarts, IInv, TypeOK, PCs, Idle, Steps, Alone, Holds, Users
  <2>2. /\ LimitersTyped' /\ configured' \in BOOLEAN /\ restarts' \in 0..MaxRestarts
        /\ UNCHANGED <<owner, sessions, cookie, clock, acts, told, signed, visits>>
    BY <1>1 DEF WebRestarts, tables, LimitersTyped, IInv, TypeOK
  <2>3. TypeOK'
    BY <2>1, <2>2 DEF IInv, TypeOK, LimitersTyped, PCs, Alone
  <2>4. LimitersKnow'
    <3>1. \A l \in Limiters, ip \in Ips : granted'[l][ip] = <<>> /\ Bucket(l, ip)' = <<>>
      BY <1>1 DEF WebRestarts, Bucket
    <3>2. granted' \in [Limiters -> [Ips -> Seq(Nat)]]
      BY <1>1 DEF WebRestarts
    <3>3. \A most : Knows(<<>>, <<>>, most)'
      BY DEF Knows, Ordered
    <3> QED BY <3>1, <3>2, <3>3 DEF LimitersKnow
  <2> QED BY <2>2, <2>3, <2>4 DEF IInv
<1>2. CASE Tick
  <2>1. /\ clock' \in 0..MaxClock
        /\ UNCHANGED <<owner, sessions, configured, buckets, pc, cookie, acts, restarts, told,
                       signed, visits>>
    BY <1>2 DEF Tick, tables, limits, IInv, TypeOK
  <2>2. TypeOK'
    BY <2>1 DEF IInv, TypeOK
  <2>3. LimitersKnow'
    <3>1. clock \in Nat /\ clock' = clock + 1 /\ LimitersKnow /\ UNCHANGED limits
      BY <1>2 DEF Tick, IInv, TypeOK
    <3>2. /\ UNCHANGED <<granted, buckets>> /\ Most \in [Limiters -> Nat]
          /\ granted \in [Limiters -> [Ips -> Seq(Nat)]]
      BY <3>1 DEF limits, LimitersKnow
    <3>3. ASSUME NEW l \in Limiters, NEW ip \in Ips
          PROVE  Knows(granted[l][ip], Bucket(l, ip), Most[l])'
      <4>1. /\ granted[l][ip] \in Seq(Nat) /\ Most[l] \in Nat
            /\ Knows(granted[l][ip], Bucket(l, ip), Most[l])
        BY <3>1, <3>2 DEF LimitersKnow
      <4>2. Bucket(l, ip)' = Bucket(l, ip) /\ granted'[l][ip] = granted[l][ip]
        BY <3>2 DEF Bucket
      <4> QED BY <3>1, <4>1, <4>2, KnowsLater
    <3> QED BY <3>2, <3>3 DEF LimitersKnow
  <2> QED BY <2>1, <2>2, <2>3 DEF IInv
<1>3. ASSUME NEW b \in Browsers, Logout(b) PROVE IInv'
  <2>1. /\ sessions' \subseteq sessions /\ cookie' = [cookie EXCEPT ![b] = Nobody]
        /\ acts' \in 0..MaxActs
        /\ UNCHANGED <<owner, configured, buckets, pc, clock, restarts, told, signed, visits>>
    BY <1>3 DEF Logout, DestroySession, Act, limits, IInv, TypeOK
  <2>2. TypeOK'
    BY <2>1 DEF IInv, TypeOK
  <2>3. LimitersKnow'
    BY <1>3, LimitersRest DEF Logout, IInv
  <2> QED BY <2>1, <2>2, <2>3 DEF IInv, TypeOK
<1> QED BY <1>1, <1>2, <1>3

\* The invariant is inductive.
THEOREM Invariance == Spec => []IInv
<1>1. IInv /\ [Next]_vars => IInv'
  <2> SUFFICES ASSUME IInv, [Next]_vars PROVE IInv'
    OBVIOUS
  <2> USE DEF Users
  <2>1. CASE Next
    BY <2>1, GuardKeeps, LoginBeginsKeeps, GoesOnKeeps, InsertKeeps, SignInKeeps, OthersKeep DEF Next
  <2>2. CASE UNCHANGED vars
    <3>1. UNCHANGED <<tables, configured, limits, pc, cookie, bounds, told, signed, visits>>
      BY <2>2 DEF vars
    <3>2. LimitersKnow'
      BY <3>1, LimitersRest DEF IInv, bounds
    <3> QED BY <3>1, <3>2 DEF tables, limits, bounds, IInv, TypeOK
  <2> QED BY <2>1, <2>2
<1> QED BY Initially, <1>1, PTL DEF Spec

-----------------------------------------------------------------------------
\* Every reachable state is well typed, and a handler that holds the event loop is alone.
THEOREM TypeCorrect == Spec => []TypeOK
<1>1. IInv => TypeOK
  BY DEF IInv
<1> QED BY Invariance, <1>1, PTL

\* A limiter allows no more than it should and shuts nobody out without reason, whatever
\* it forgets (web.py, _RateLimiter).
THEOREM LimitsAreKept == Spec => []LimitExact
<1>1. IInv => LimitExact
  <2> SUFFICES ASSUME IInv, NEW l \in Limiters, NEW ip \in Ips
               PROVE  /\ Recent(granted[l][ip]) = Recent(Bucket(l, ip))
                      /\ Cardinality({k \in DOMAIN granted[l][ip] : ~Stale(granted[l][ip][k])})
                           <= Most[l]
    BY DEF LimitExact
  <2>1. clock \in Nat /\ granted[l][ip] \in Seq(Nat) /\ Most[l] \in Nat
    BY DEF IInv, TypeOK, LimitersKnow
  <2>2. Knows(granted[l][ip], Bucket(l, ip), Most[l])
    BY DEF IInv, LimitersKnow
  <2> QED BY <2>1, <2>2, KnowsRecent, KnowsEnough
<1> QED BY Invariance, <1>1, PTL

\* Nobody but the owner was ever told that the account is his (auth.py, create_owner).
THEOREM FirstComeOnly == Spec => []OneOwner
<1>1. IInv => OneOwner
  BY DEF IInv, OneOwner
<1> QED BY Invariance, <1>1, PTL

\* The guard lets in who has a session of his own that has not expired, and others only
\* before there is an owner (web.py, auth_guard).
THEOREM NobodyElseLetIn == Spec => []LetIn
<1>1. IInv => LetIn
  BY DEF IInv, LetIn
<1> QED BY Invariance, <1>1, PTL

=============================================================================
