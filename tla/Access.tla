------------------------------- MODULE Access -------------------------------
(***************************************************************************)
(* The owner, the sessions and the limits on requests: AuthService         *)
(* (core/auth.py), the guard, the login, the set-up routes and the rate    *)
(* limiters of the web application (web.py), and the terminal's wizard     *)
(* (terminal/wizard.py), which creates the owner in a process of its own.  *)
(*                                                                         *)
(* The web application runs its handlers on one event loop: between two    *)
(* awaits a handler is alone, but for other processes, which reach the     *)
(* database between any two of its transactions.  A user is a browser or a *)
(* terminal; what is typed is right, wrong or malformed.  Left out: scrypt *)
(* and the encoding of tokens, change_password, reset_password and         *)
(* purge_expired_sessions, which nothing calls, events, pages.             *)
(***************************************************************************)
EXTENDS Naturals, Sequences, FiniteSets

CONSTANTS
  Browsers, Terminals,   \* who may create the owner; browsers sign in too
  Ips, IpOf,             \* addresses, and the one of each browser
  Most,                  \* requests that each limiter allows in a window
  Window,                \* ticks of the clock that the limiters look back
  MaxIps,                \* addresses from which on the limiters forget stale ones
  Lifetime,              \* ticks that a session lives, remembered or not
  MaxClock, MaxActs, MaxRestarts,  \* bounds: time, what browsers begin, restarts
  Nobody

Limiters == {"login", "api"}

ASSUME AccessAssumption ==
  /\ IpOf \in [Browsers -> Ips] /\ Browsers \cap Terminals = {}
  /\ Most \in [Limiters -> Nat \ {0}] /\ Window \in Nat /\ MaxIps \in Nat
  /\ Lifetime \in [BOOLEAN -> Nat \ {0}]
  /\ MaxClock \in Nat /\ MaxActs \in Nat /\ MaxRestarts \in Nat
  /\ Nobody \notin Browsers \cup Terminals /\ Nobody \notin Nat

Users == Browsers \cup Terminals

VARIABLES
  owner,       \* the row of auth_owner: who created it, or Nobody
  sessions,    \* the rows of auth_sessions: a token and when it expires
  configured,  \* the web application's copy of the fact that there is an owner
  buckets,     \* of each limiter, by address: the times of what it allowed
  pc,          \* what each user's request or wizard does next
  cookie,      \* the token each browser holds, or Nobody
  clock, acts, restarts,
  granted,     \* history: what each limiter allowed since it was last reset
  told,        \* history: who was told that his account is the owner's
  signed,      \* history: of each token, for whom it was made and until when
  visits       \* history: requests the guard let pass

tables == <<owner, sessions>>
limits == <<buckets, granted>>
bounds == <<clock, acts, restarts>>
vars == <<tables, configured, limits, pc, cookie, bounds, told, signed, visits>>

Put(table, k, value) == [j \in DOMAIN table \cup {k} |-> IF j = k THEN value ELSE table[j]]

\* The step of a user's request, and whether it is a login, a set-up or the wizard.
Idle == [at |-> "idle", of |-> "idle"]
Goto(u, step) == pc' = [pc EXCEPT ![u].at = step]
Begins(u, of, step) == pc' = [pc EXCEPT ![u] = [at |-> step, of |-> of]]
Ends(u) == pc' = [pc EXCEPT ![u] = Idle]

Init ==
  /\ owner = Nobody /\ sessions = {} /\ configured = (owner # Nobody)
  /\ buckets = [l \in Limiters |-> <<>>]
  /\ pc = [u \in Users |-> Idle]
  /\ cookie = [b \in Browsers |-> Nobody]
  /\ clock = 0 /\ acts = 0 /\ restarts = 0
  /\ granted = [l \in Limiters |-> [ip \in Ips |-> <<>>]]
  /\ told = {} /\ signed = <<>> /\ visits = {}

Act == acts < MaxActs /\ acts' = acts + 1

\* A handler holds the event loop from its last await to its answer.
Holds == {"check", "insert", "sign_in"}
LoopFree(b) == \A c \in Browsers \ {b} : pc[c].at \notin Holds

-----------------------------------------------------------------------------
(* _RateLimiter *)

Stale(t) == t + Window < clock

\* allow() pops times from the front until it meets one in the window.
Recent(times) ==
  LET gone == CHOOSE n \in 0..Len(times) :
                /\ \A i \in 1..n : Stale(times[i])
                /\ n < Len(times) => ~Stale(times[n + 1])
  IN SubSeq(times, gone + 1, Len(times))

Bucket(l, ip) == IF ip \in DOMAIN buckets[l] THEN buckets[l][ip] ELSE <<>>

Allowed(l, ip) == Len(Recent(Bucket(l, ip))) < Most[l]

\* Mutant: an address is forgotten though only its first request is out of the window.
Swept_Young(table) ==
  IF Cardinality(DOMAIN table) <= MaxIps THEN table
  ELSE [ip \in {i \in DOMAIN table : table[i] # <<>> /\ ~Stale(table[i][1])} |-> table[ip]]

\* Above MaxIps addresses those are forgotten whose last request is out of the window.
Swept(table) ==
  IF Cardinality(DOMAIN table) <= MaxIps THEN table
  ELSE [ip \in {i \in DOMAIN table : table[i] # <<>> /\ ~Stale(table[i][Len(table[i])])}
         |-> table[ip]]

\* allow(): what it counts changes whether it allows the request or not.
Counts(l, ip) ==
  LET kept == Recent(Bucket(l, ip))
  IN IF Allowed(l, ip)
     THEN /\ buckets' = [buckets EXCEPT ![l] = Swept(Put(@, ip, Append(kept, clock)))]
          /\ granted' = [granted EXCEPT ![l][ip] = Append(@, clock)]
     ELSE /\ buckets' = [buckets EXCEPT ![l] = Put(@, ip, kept)]
          /\ UNCHANGED granted

\* reset()
Reset(l, ip) ==
  /\ buckets' = [buckets EXCEPT ![l] = [i \in DOMAIN @ \ {ip} |-> @[i]]]
  /\ granted' = [granted EXCEPT ![l][ip] = <<>>]

-----------------------------------------------------------------------------
(* The guard and the requests behind it *)

Alive(token) == \E s \in sessions : s.token = token /\ s.expires > clock

\* Mutant: whether there is an owner is asked for at the start only.
Open_Cached == ~configured

\* Without an owner everything is open.
Open == ~configured /\ owner = Nobody

\* auth_guard, of a request for the API; the handler of a set-up is modelled, others are not.
Guarded(b, setup) ==
  /\ pc[b] = Idle /\ Act /\ LoopFree(b)
  /\ Counts("api", IpOf[b])
  /\ IF ~Allowed("api", IpOf[b]) THEN UNCHANGED <<configured, pc, visits>>
     ELSE /\ configured' = (configured \/ owner # Nobody)
          /\ IF Open \/ Alive(cookie[b])
             THEN /\ IF setup THEN Begins(b, "setup", "body") ELSE UNCHANGED pc
                  /\ visits' = visits \cup {[by |-> b, at |-> clock, told |-> told # {},
                                             token |-> IF Open THEN Nobody ELSE cookie[b]]}
             ELSE UNCHANGED <<pc, visits>>
  /\ UNCHANGED <<tables, cookie, clock, restarts, told, signed>>

\* api_setup_owner has read the body of the request.
SetupGoesOn(b) ==
  /\ pc[b].at = "body" /\ LoopFree(b)
  /\ Goto(b, "check")
  /\ UNCHANGED <<tables, configured, limits, cookie, bounds, told, signed, visits>>

-----------------------------------------------------------------------------
(* Signing in and out *)

\* login_submit: the limiter, then the form is read.
LoginBegins(b) ==
  /\ pc[b] = Idle /\ Act /\ LoopFree(b)
  /\ Counts("login", IpOf[b])
  /\ IF Allowed("login", IpOf[b]) THEN Begins(b, "login", "form") ELSE UNCHANGED pc
  /\ UNCHANGED <<tables, configured, cookie, clock, restarts, told, signed, visits>>

\* The name and the password are right or wrong.
Authenticate(b) == Goto(b, "sign_in") \/ Ends(b)

\* The first to sign in becomes the owner.
LoginGoesOn(b) ==
  /\ pc[b].at = "form" /\ LoopFree(b)
  /\ IF owner = Nobody THEN Goto(b, "check")
     ELSE Authenticate(b)
  /\ UNCHANGED <<tables, configured, limits, cookie, bounds, told, signed, visits>>

\* create_owner: what is typed is malformed, or there is an owner by now.
Check(u) ==
  /\ pc[u].at = "check"
  /\ \/ Ends(u)
     \/ owner = Nobody /\ Goto(u, "insert")
  /\ UNCHANGED <<tables, configured, limits, cookie, bounds, told, signed, visits>>

\* Mutant: the row of an earlier owner is replaced.
Insert_Replace(u) ==
  /\ pc[u].at = "insert"
  /\ owner' = u /\ told' = told \cup {u}
  /\ Goto(u, "sign_in")
  /\ configured' = (configured \/ u \in Browsers)
  /\ UNCHANGED <<sessions, limits, cookie, bounds, signed, visits>>

\* The primary key of auth_owner lets one INSERT through.
Insert(u) ==
  /\ pc[u].at = "insert"
  /\ IF owner = Nobody
     THEN /\ owner' = u /\ told' = told \cup {u}
          /\ Goto(u, "sign_in")
          /\ configured' = (configured \/ u \in Browsers)
     ELSE Ends(u) /\ UNCHANGED <<owner, told, configured>>
  /\ UNCHANGED <<sessions, limits, cookie, bounds, signed, visits>>

CreateSession(u, remember) ==
  LET expires == clock + Lifetime[remember]
  IN /\ sessions' = sessions \cup {[token |-> Len(signed) + 1, expires |-> expires]}
     /\ signed' = Append(signed, [by |-> u, until |-> expires])

\* The browser gets the token, the terminal drops it; a login resets its limiter.
SignIn(u) ==
  /\ pc[u].at = "sign_in"
  /\ \E remember \in IF pc[u].of = "login" THEN BOOLEAN ELSE {TRUE} : CreateSession(u, remember)
  /\ cookie' = IF u \in Browsers THEN [cookie EXCEPT ![u] = Len(signed) + 1] ELSE cookie
  /\ IF pc[u].of = "login" THEN Reset("login", IpOf[u]) ELSE UNCHANGED limits
  /\ Ends(u)
  /\ UNCHANGED <<owner, configured, bounds, told, visits>>

DestroySession(token) == sessions' = {s \in sessions : s.token # token}

\* logout
Logout(b) ==
  /\ pc[b] = Idle /\ Act /\ LoopFree(b)
  /\ DestroySession(cookie[b])
  /\ cookie' = [cookie EXCEPT ![b] = Nobody]
  /\ UNCHANGED <<owner, configured, limits, pc, clock, restarts, told, signed, visits>>

\* _step_owner of the wizard
WizardBegins(t) ==
  /\ pc[t] = Idle /\ owner = Nobody
  /\ Begins(t, "wizard", "check")
  /\ UNCHANGED <<tables, configured, limits, cookie, bounds, told, signed, visits>>

-----------------------------------------------------------------------------

\* The web application ends, also in the middle of a handler, and starts anew.
WebRestarts ==
  /\ restarts < MaxRestarts /\ restarts' = restarts + 1
  /\ configured' = (owner # Nobody)
  /\ buckets' = [l \in Limiters |-> <<>>]
  /\ granted' = [l \in Limiters |-> [ip \in Ips |-> <<>>]]
  /\ pc' = [u \in Users |-> IF u \in Browsers THEN Idle ELSE pc[u]]
  /\ UNCHANGED <<tables, cookie, clock, acts, told, signed, visits>>

Tick ==
  /\ clock < MaxClock /\ clock' = clock + 1
  /\ UNCHANGED <<tables, configured, limits, pc, cookie, acts, restarts, told, signed, visits>>

Next ==
  \/ \E b \in Browsers :
       \/ Guarded(b, FALSE) \/ Guarded(b, TRUE) \/ SetupGoesOn(b)
       \/ LoginBegins(b) \/ LoginGoesOn(b) \/ Logout(b)
  \/ \E u \in Users : Check(u) \/ Insert(u) \/ SignIn(u)
  \/ \E t \in Terminals : WizardBegins(t)
  \/ WebRestarts \/ Tick

Spec == Init /\ [][Next]_vars

-----------------------------------------------------------------------------
(* Properties *)

Steps == {"idle", "body", "form", "check", "insert", "sign_in"}

\* Every variable has its type; a handler that holds the event loop is alone.
TypeOK ==
  /\ owner \in Users \cup {Nobody} /\ configured \in BOOLEAN
  /\ \A s \in sessions : s \in [token : 1..Len(signed), expires : Nat]
  /\ DOMAIN buckets = Limiters
  /\ \A l \in Limiters : DOMAIN buckets[l] \subseteq Ips
  /\ pc \in [Users -> [at : Steps, of : {"idle", "login", "setup", "wizard"}]]
  /\ cookie \in [Browsers -> Nat \cup {Nobody}]
  /\ \A b, c \in Browsers : pc[b].at \in Holds /\ pc[c].at \in Holds => b = c
  /\ clock \in 0..MaxClock /\ acts \in 0..MaxActs /\ restarts \in 0..MaxRestarts

\* A limiter knows all that it allowed in the window and nothing else: forgetting stale
\* addresses forgets no request that counts, and a refused request does not count.  So it
\* allows no more than Most in a window, and no address is shut out for longer than its own
\* requests justify (web.py, _RateLimiter, login_submit, auth_guard).
LimitExact ==
  \A l \in Limiters, ip \in Ips :
    /\ Recent(granted[l][ip]) = Recent(Bucket(l, ip))
    /\ Cardinality({k \in DOMAIN granted[l][ip] : ~Stale(granted[l][ip][k])}) <= Most[l]

\* However many browsers and terminals create the owner at once, one of them is told that
\* the account is his, and it stays his (core/auth.py, create_owner; web.py, login_submit,
\* api_setup_owner; terminal/wizard.py, _step_owner).
OneOwner == told \subseteq {owner}

\* From when the owner is told so, whatever process he used, the web application lets no
\* request for the API pass but with a session of that browser that has not expired
\* (web.py, auth_guard).
LetIn ==
  \A v \in visits :
    IF v.token = Nobody THEN ~v.told
    ELSE signed[v.token].by = v.by /\ v.at < signed[v.token].until

=============================================================================
