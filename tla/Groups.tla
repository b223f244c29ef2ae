------------------------------- MODULE Groups -------------------------------
(***************************************************************************)
(* Schools, their API keys and their groups, from the page that edits them *)
(* to the job that uses them: the tree of the browser (ui/static/app.js,   *)
(* treeSelector), the routes behind it (web.py, core/organizations.py) and *)
(* the configuration that the worker caches for five seconds               *)
(* (core/worker.py, _load_config).                                         *)
(*                                                                         *)
(* A group is a label; it names API keys.  A key counts by its name: the   *)
(* page and the server compare names.  A handler of the server has no await*)
(* between what it reads and what it writes, so it is one step here;       *)
(* ConfigStore.tla treats the files and other processes.  Left out: which  *)
(* forms are open, requests that are lost, other fields of a school, key or*)
(* group, accounts.json, the selection of groups for a batch export,       *)
(* moveGroup, which no control of the page calls.                          *)
(***************************************************************************)
EXTENDS Naturals, FiniteSets

CONSTANTS
  Schools, Keys, Names,  \* ids of schools, names of keys, names of groups
  Established,           \* the keys of each school and the groups at the start
  Threads,               \* threads of the worker
  TTL,                   \* ticks of the clock that a cached configuration lives
  MaxActs,               \* bound: edits begun on the page
  MaxClock,              \* bound: ticks of the clock
  Nothing

Tables(S, T) == UNION {[D -> T] : D \in SUBSET S}
GroupTables == Tables(Names, [keys : SUBSET Keys, on : BOOLEAN])
Data == [keysOf : Tables(Schools, SUBSET Keys), groups : GroupTables]

ASSUME GroupsAssumption ==
  /\ Established \in Data
  /\ TTL \in Nat \ {0} /\ MaxActs \in Nat /\ MaxClock \in Nat

VARIABLES
  data,      \* organizations.json and labels.json
  tree,      \* what the schools page shows, and the number of the load it came from
  loading,   \* the list is hidden while a load is under way
  requests,  \* edits that the server has answered or not
  loads,     \* loads of the tree under way
  asked,     \* how many loads the page has begun
  cache,     \* the configuration the worker keeps and when it was asked for
  thread,    \* of each thread of the worker: its step, when it asked, what it works with
  clock, acts,
  past       \* history: the groups there were at each time

page == <<tree, loading, requests, loads, asked>>
worker == <<cache, thread>>
bounds == <<clock, acts>>
vars == <<data, page, worker, bounds, past>>

Put(table, k, value) == [j \in DOMAIN table \cup {k} |-> IF j = k THEN value ELSE table[j]]
Drop(table, k) == [j \in DOMAIN table \ {k} |-> table[j]]

AllKeys(d) == UNION {d.keysOf[s] : s \in DOMAIN d.keysOf}

\* ConfigManager.load fails when a group names a key that no school has.
Loadable(d) == \A g \in DOMAIN d.groups : d.groups[g].keys \subseteq AllKeys(d)

\* api_tree: nothing when the configuration does not load; groups are listed under schools.
Served(d) ==
  IF ~Loadable(d) THEN [keysOf |-> <<>>, groups |-> <<>>]
  ELSE [keysOf |-> d.keysOf, groups |-> IF DOMAIN d.keysOf = {} THEN <<>> ELSE d.groups]

Idle == [step |-> "idle", since |-> 0, groups |-> Nothing]

Init ==
  /\ data = Established
  /\ tree = [number |-> 1, shown |-> Served(data)]
  /\ loading = FALSE /\ requests = {} /\ loads = {} /\ asked = 1
  /\ cache = Nothing /\ thread = [w \in Threads |-> Idle]
  /\ clock = 0 /\ acts = 0
  /\ past = {<<clock, data.groups>>}

Acts == acts < MaxActs /\ acts' = acts + 1

-----------------------------------------------------------------------------
(* The schools page *)

Shown == tree.shown

Edit(op, school, key, group) == [op |-> op, school |-> school, key |-> key, group |-> group]
Toggles == {"enable_group", "disable_group"}

\* What the page can ask for: a new school at any time, the rest of what the list holds.
SchoolEdits ==
  {Edit("create_school", s, Nothing, Nothing) : s \in Schools}
  \cup {Edit(op, s, Nothing, Nothing) :
          op \in {"edit_school", "delete_school", "duplicate_school"}, s \in DOMAIN Shown.keysOf}

KeyEdits ==
  UNION {{Edit("add_key", s, k, Nothing) : k \in Keys}
         \cup {Edit("delete_key", s, k, Nothing) : k \in Shown.keysOf[s]}
         : s \in DOMAIN Shown.keysOf}

GroupEdits ==
  {Edit("create_group", s, Nothing, g) : s \in DOMAIN Shown.keysOf, g \in Names}
  \cup UNION {{Edit("delete_group", Nothing, Nothing, g),
               Edit(IF Shown.groups[g].on THEN "disable_group" ELSE "enable_group", Nothing, Nothing, g)}
              : g \in DOMAIN Shown.groups}

Edits == {e \in SchoolEdits \cup KeyEdits \cup GroupEdits : loading => e.op = "create_school"}

\* A new group gets the keys of its school that the page knows; {} is for the name of a school
\* without a key, which the server does not know as a key.
KeysFor(e) == IF e.op = "create_group" THEN Shown.keysOf[e.school] ELSE {}

Ask(e) ==
  /\ Acts
  /\ requests' = requests \cup {[edit |-> e, keys |-> KeysFor(e), number |-> acts, answer |-> "none"]}
  /\ UNCHANGED <<data, tree, loading, loads, asked, worker, clock, past>>

\* The routes of schools and keys; a refused edit changes nothing.
EditedSchools(e, d) ==
  IF (e.op = "create_school") = (e.school \in DOMAIN d.keysOf) THEN {}
  ELSE CASE e.op = "create_school" -> {Put(d.keysOf, e.school, {})}
         [] e.op = "edit_school" -> {d.keysOf}
         [] e.op = "delete_school" -> {Drop(d.keysOf, e.school)}
         [] e.op = "duplicate_school" ->
              {Put(d.keysOf, new, d.keysOf[e.school]) : new \in Schools \ DOMAIN d.keysOf}
         [] e.op = "add_key" ->
              {Put(d.keysOf, e.school, d.keysOf[e.school] \cup {k}) : k \in {e.key} \ d.keysOf[e.school]}
         [] e.op = "delete_key" ->
              {Put(d.keysOf, e.school, d.keysOf[e.school] \ {k}) : k \in {e.key} \cap d.keysOf[e.school]}

\* _create_label, _delete_label, _update_label; the first and the last load all files.
EditedGroups(r, d) ==
  LET g == r.edit.group
  IN IF (r.edit.op = "create_group") = (g \in DOMAIN d.groups) THEN {}
     ELSE CASE r.edit.op = "create_group" ->
                 IF Loadable(d) /\ r.keys # {} /\ r.keys \subseteq AllKeys(d)
                 THEN {Put(d.groups, g, [keys |-> r.keys, on |-> TRUE])} ELSE {}
            [] r.edit.op = "delete_group" -> {Drop(d.groups, g)}
            [] r.edit.op \in Toggles ->
                 IF Loadable(d)
                 THEN {Put(d.groups, g, [d.groups[g] EXCEPT !.on = r.edit.op = "enable_group"])} ELSE {}

Edited(r, d) ==
  IF r.edit.op \in {"create_group", "delete_group"} \cup Toggles
  THEN {[d EXCEPT !.groups = groups] : groups \in EditedGroups(r, d)}
  ELSE {[d EXCEPT !.keysOf = keysOf] : keysOf \in EditedSchools(r.edit, d)}

Answered(r, answer) == requests' = (requests \ {r}) \cup {[r EXCEPT !.answer = answer]}

Serve(r) ==
  /\ r \in requests /\ r.answer = "none"
  /\ IF Edited(r, data) = {}
     THEN Answered(r, "error") /\ UNCHANGED <<data, past>>
     ELSE /\ Answered(r, "ok")
          /\ data' \in Edited(r, data)
          /\ past' = past \cup {<<clock, data'.groups>>}
  /\ UNCHANGED <<tree, loading, loads, asked, worker, bounds>>

\* Mutant: enabling or disabling a group does not load the tree again.
Receive_ToggleKeepsTree(r) ==
  /\ r \in requests /\ r.answer # "none"
  /\ requests' = requests \ {r}
  /\ IF r.answer = "ok" /\ r.edit.op \notin Toggles
     THEN /\ loading' = TRUE /\ asked' = asked + 1
          /\ loads' = loads \cup {[number |-> asked + 1, shown |-> Nothing]}
     ELSE UNCHANGED <<loading, loads, asked>>
  /\ UNCHANGED <<data, tree, worker, bounds, past>>

\* The answer reaches the page: the tree is loaded again unless it is an error.
Receive(r) ==
  /\ r \in requests /\ r.answer # "none"
  /\ requests' = requests \ {r}
  /\ IF r.answer = "ok"
     THEN /\ loading' = TRUE /\ asked' = asked + 1
          /\ loads' = loads \cup {[number |-> asked + 1, shown |-> Nothing]}
     ELSE UNCHANGED <<loading, loads, asked>>
  /\ UNCHANGED <<data, tree, worker, bounds, past>>

ServeTree(l) ==
  /\ l \in loads /\ l.shown = Nothing
  /\ loads' = (loads \ {l}) \cup {[l EXCEPT !.shown = Served(data)]}
  /\ UNCHANGED <<data, tree, loading, requests, asked, worker, bounds, past>>

\* loadTree: whichever answer comes last is shown.
ShowTree(l) ==
  /\ l \in loads /\ l.shown # Nothing
  /\ tree' = l /\ loading' = FALSE
  /\ loads' = loads \ {l}
  /\ UNCHANGED <<data, requests, asked, worker, bounds, past>>

-----------------------------------------------------------------------------
(* The worker *)

Fresh == cache # Nothing /\ clock < cache.at + TTL

\* Mutant: a configuration that is used stays in the cache for longer.
LookUp_Sliding(w) ==
  /\ thread[w].step = "idle"
  /\ IF Fresh
     THEN /\ thread' = [thread EXCEPT ![w] = [step |-> "has", since |-> clock, groups |-> cache.groups]]
          /\ cache' = [cache EXCEPT !.at = clock]
     ELSE /\ thread' = [thread EXCEPT ![w] = [step |-> "load", since |-> clock, groups |-> Nothing]]
          /\ UNCHANGED cache
  /\ UNCHANGED <<data, page, bounds, past>>

\* _load_config: for the labels of the scheduler, a job it has claimed or its time-out.
LookUp(w) ==
  /\ thread[w].step = "idle"
  /\ thread' = [thread EXCEPT ![w] =
       IF Fresh THEN [step |-> "has", since |-> clock, groups |-> cache.groups]
       ELSE [step |-> "load", since |-> clock, groups |-> Nothing]]
  /\ UNCHANGED <<data, page, cache, bounds, past>>

Load(w) ==
  /\ thread[w].step = "load"
  /\ thread' = [thread EXCEPT ![w] =
       IF Loadable(data) THEN [@ EXCEPT !.step = "store", !.groups = data.groups] ELSE Idle]
  /\ UNCHANGED <<data, page, cache, bounds, past>>

\* The cache is as old as the question, not as the answer.
Store(w) ==
  /\ thread[w].step = "store"
  /\ cache' = [at |-> thread[w].since, groups |-> thread[w].groups]
  /\ thread' = [thread EXCEPT ![w].step = "has"]
  /\ UNCHANGED <<data, page, bounds, past>>

\* The thread is done with it: a job built or refused (_build_request), labels scheduled.
Done(w) ==
  /\ thread[w].step = "has"
  /\ thread' = [thread EXCEPT ![w] = Idle]
  /\ UNCHANGED <<data, page, cache, bounds, past>>

Tick ==
  /\ clock < MaxClock /\ clock' = clock + 1
  /\ past' = past \cup {<<clock', data.groups>>}
  /\ UNCHANGED <<data, page, worker, acts>>

-----------------------------------------------------------------------------

Next ==
  \/ \E e \in Edits : Ask(e)
  \/ \E r \in requests : Serve(r) \/ Receive(r)
  \/ \E l \in loads : ServeTree(l) \/ ShowTree(l)
  \/ \E w \in Threads : LookUp(w) \/ Load(w) \/ Store(w) \/ Done(w)
  \/ Tick

Spec == Init /\ [][Next]_vars

-----------------------------------------------------------------------------
(* Properties *)

Keyless(g) == g \in DOMAIN Established.groups /\ Established.groups[g].keys = {}

\* Every variable has its type: a group without a key was there at the start (the wizard
\* makes such groups), the page makes none.
TypeOK ==
  /\ data \in Data
  /\ \A g \in DOMAIN data.groups : data.groups[g].keys # {} \/ Keyless(g)
  /\ tree.number \in 1..asked /\ tree.shown \in Data
  /\ loading \in BOOLEAN
  /\ \A l \in loads : l.number \in 1..asked /\ (l.shown = Nothing \/ l.shown \in Data)
  /\ \A r \in requests : r.answer \in {"none", "ok", "error"}
  /\ clock \in 0..MaxClock /\ acts \in 0..MaxActs
  /\ \A w \in Threads : thread[w].step \in {"idle", "load", "store", "has"}

\* When nothing is under way the page shows the schools and groups as they are, whatever
\* edits overtook each other on their way to the server, provided that the load it began
\* last is the one that ended last (app.js, loadTree and its callers; web.py, api_tree).
TreeCurrent ==
  requests = {} /\ loads = {} /\ tree.number = asked => tree.shown = Served(data)

\* A thread that looks up the configuration works with one that was in the files less than
\* TTL before it asked, or later: an edit reaches every job that starts TTL after it, though
\* threads that load side by side store what they read in any order (worker.py,
\* _load_config, _build_request).
JobsSeeEdits ==
  \A w \in Threads : thread[w].step = "has" =>
    \E t \in 0..clock : t + TTL > thread[w].since /\ <<t, thread[w].groups>> \in past

=============================================================================
