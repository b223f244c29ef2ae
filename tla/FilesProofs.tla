----------------------------- MODULE FilesProofs ----------------------------
(***************************************************************************)
(* Theorems about the files the program keeps, for any processes, names,   *)
(* documents and bounds.  ConfigStore: every file stays a whole document,  *)
(* a reference that a load misses was taken away, the snapshot of a        *)
(* restore leads back.  ExportFiles: downloads keep to their own files,    *)
(* what a history row lists is on disk, and the row is final.              *)
(***************************************************************************)
EXTENDS ExportFiles, ConfigStore, FiniteSetTheorems, WellFoundedInduction, SequenceTheorems, TLAPS

-----------------------------------------------------------------------------
(* Configuration files: documents *)

Document(doc) == doc # Torn /\ doc # Absent

LEMMA DocumentsOfFiles ==
  /\ Documents("accounts") = SUBSET Accounts /\ Documents("config") = SUBSET Channels
  /\ Documents("profiles") = SUBSET Profiles
  /\ Documents("labels") = Tables(Labels, LabelRecords) /\ Documents("orgs") = Tables(Orgs, SUBSET Creds)
BY DEF Documents, ProfileNames

LEMMA DocumentsAreWhole ==
  Torn # Absent /\ \A f \in ConfigFiles : \A doc \in Documents(f) : Document(doc)
BY ConfigStoreAssumption DEF Document

LEMMA TargetIsFile == \A op : Target(op) \in ConfigFiles
BY DEF Target, ConfigFiles

LEMMA PutInTable ==
  ASSUME NEW S, NEW T, NEW f \in Tables(S, T), NEW k \in S, NEW x \in T
  PROVE  Put(f, k, x) \in Tables(S, T)
<1>1. PICK D \in SUBSET S : f \in [D -> T]
  BY DEF Tables
<1>2. Put(f, k, x) \in [D \cup {k} -> T]
  BY <1>1 DEF Put
<1> QED BY <1>2 DEF Tables

LEMMA DropFromTable ==
  ASSUME NEW S, NEW T, NEW f \in Tables(S, T), NEW k
  PROVE  Drop(f, k) \in Tables(S, T)
<1>1. PICK D \in SUBSET S : f \in [D -> T]
  BY DEF Tables
<1>2. Drop(f, k) \in [D \ {k} -> T]
  BY <1>1 DEF Drop
<1> QED BY <1>2 DEF Tables

LEMMA InTable ==
  ASSUME NEW S, NEW T, NEW f \in Tables(S, T)
  PROVE  DOMAIN f \subseteq S /\ \A k \in DOMAIN f : f[k] \in T
BY DEF Tables

-----------------------------------------------------------------------------
(* Configuration files: what a request reads and what it writes *)

Plan(p, op) == IF p = Worker THEN LoadOrder ELSE ReadsOf(op)
LoadsAll(p, op) == p = Worker \/ op \in {"create", "update", "move"}
Requested == WebRequests \cup CliRequests
Visits == ConfigFiles \cup {"check"}

\* The files without which a request cannot be decided.
Needs(op) ==
  CASE op \in {"create", "update"} -> {"labels", "profiles", "accounts", "orgs"}
    [] op = "move" -> {"labels", "accounts", "orgs"}
    [] op = "import" -> {"orgs", "accounts"}
    [] OTHER -> {Target(op)}

LEMMA LoadOrderIs ==
  /\ LoadOrder \in Seq(Visits) /\ Len(LoadOrder) = 6
  /\ LoadOrder[1] = "config" /\ LoadOrder[2] = "accounts" /\ LoadOrder[3] = "labels"
  /\ LoadOrder[4] = "profiles" /\ LoadOrder[5] = "orgs" /\ LoadOrder[6] = "check"
BY DEF LoadOrder, Visits, ConfigFiles

LEMMA LoadAndMore ==
  ASSUME NEW more, more \in Seq(ConfigFiles), Len(more) = 2,
         NEW plan, plan = LoadOrder \o more
  PROVE  /\ plan \in Seq(Visits) /\ Len(plan) = 8
         /\ plan[1] = "config" /\ plan[2] = "accounts" /\ plan[3] = "labels"
         /\ plan[4] = "profiles" /\ plan[5] = "orgs" /\ plan[6] = "check"
         /\ \A j \in 7..8 : plan[j] # "check"
<1>1. more \in Seq(Visits)
  BY DEF Visits
<1>2. LoadOrder \in Seq(Visits) /\ Len(LoadOrder) = 6
  BY LoadOrderIs
<1>3. /\ plan \in Seq(Visits) /\ Len(plan) = Len(LoadOrder) + Len(more)
      /\ \A j \in 1..Len(LoadOrder) + Len(more) :
           plan[j] = IF j <= Len(LoadOrder) THEN LoadOrder[j] ELSE more[j - Len(LoadOrder)]
  BY <1>1, <1>2, ConcatProperties
<1>4. \A j \in 1..6 : plan[j] = LoadOrder[j]
  BY <1>2, <1>3
<1>5. \A j \in 7..8 : plan[j] = more[j - 6] /\ j - 6 \in 1..Len(more)
  BY <1>2, <1>3
<1>6. \A j \in 1..Len(more) : more[j] \in ConfigFiles
  BY ElementOfSeq
<1>7. \A j \in 7..8 : plan[j] # "check"
  BY <1>5, <1>6 DEF ConfigFiles
<1>8. Len(plan) = 8 /\ plan[1] = LoadOrder[1] /\ plan[2] = LoadOrder[2] /\ plan[3] = LoadOrder[3]
      /\ plan[4] = LoadOrder[4] /\ plan[5] = LoadOrder[5] /\ plan[6] = LoadOrder[6]
  BY <1>2, <1>3, <1>4
<1> QED BY <1>3, <1>7, <1>8, LoadOrderIs

LEMMA PlanIs ==
  ASSUME NEW p \in Loaders, NEW op, p = Worker \/ op \in Requested,
         NEW plan, plan = Plan(p, op)
  PROVE  /\ plan \in Seq(Visits)
         /\ \A j \in 1..Len(plan) : plan[j] = "check" => j = 6 /\ LoadsAll(p, op)
         /\ LoadsAll(p, op) =>
              /\ Len(plan) >= 6
              /\ plan[1] = "config" /\ plan[2] = "accounts" /\ plan[3] = "labels"
              /\ plan[4] = "profiles" /\ plan[5] = "orgs" /\ plan[6] = "check"
         /\ p # Worker => \A f \in Needs(op) : \E j \in 1..Len(plan) : plan[j] = f
<1>1. CASE p = Worker
  <2>1. plan = LoadOrder
    BY <1>1 DEF Plan
  <2>2. \A j \in 1..6 : LoadOrder[j] = "check" => j = 6
    BY LoadOrderIs
  <2>3. Len(plan) = 6 /\ plan \in Seq(Visits) /\ LoadsAll(p, op)
    BY <1>1, <2>1, LoadOrderIs DEF LoadsAll
  <2>4. /\ plan[1] = "config" /\ plan[2] = "accounts" /\ plan[3] = "labels"
        /\ plan[4] = "profiles" /\ plan[5] = "orgs" /\ plan[6] = "check"
    BY <2>1, LoadOrderIs
  <2>5. \A j \in 1..Len(plan) : plan[j] = "check" => j = 6
    BY <2>1, <2>2, <2>3
  <2>6. Len(plan) >= 6
    BY <2>3
  <2> QED BY <1>1, <2>3, <2>4, <2>5, <2>6, Zenon
<1>2. CASE p # Worker /\ op \in {"create", "update", "move"}
  <2>1. PICK more \in Seq(ConfigFiles) : Len(more) = 2 /\ plan = LoadOrder \o more
    <3>1. CASE op \in {"create", "update"}
      <4>1. plan = LoadOrder \o <<"labels", "orgs">>
        BY <1>2, <3>1 DEF Plan, ReadsOf
      <4>2. <<"labels", "orgs">> \in Seq(ConfigFiles) /\ Len(<<"labels", "orgs">>) = 2
        BY DEF ConfigFiles
      <4> QED BY <4>1, <4>2
    <3>2. CASE op = "move"
      <4>1. plan = LoadOrder \o <<"orgs", "labels">>
        BY <1>2, <3>2 DEF Plan, ReadsOf
      <4>2. <<"orgs", "labels">> \in Seq(ConfigFiles) /\ Len(<<"orgs", "labels">>) = 2
        BY DEF ConfigFiles
      <4> QED BY <4>1, <4>2
    <3> QED BY <1>2, <3>1, <3>2
  <2>2. /\ plan \in Seq(Visits) /\ Len(plan) = 8
        /\ plan[1] = "config" /\ plan[2] = "accounts" /\ plan[3] = "labels"
        /\ plan[4] = "profiles" /\ plan[5] = "orgs" /\ plan[6] = "check"
        /\ \A j \in 7..8 : plan[j] # "check"
    BY <2>1, LoadAndMore
  <2>3. \A j \in 1..8 : plan[j] = "check" => j = 6
    BY <2>2
  <2>4. Needs(op) \subseteq {"labels", "profiles", "accounts", "orgs"}
    BY <1>2 DEF Needs
  <2> QED BY <1>2, <2>2, <2>3, <2>4 DEF LoadsAll
<1>3. CASE p # Worker /\ op = "import"
  <2>1. plan = <<"orgs", "accounts">> /\ Needs(op) = {"orgs", "accounts"}
    BY <1>3 DEF Plan, ReadsOf, Needs
  <2>2. plan \in Seq(Visits) /\ Len(plan) = 2 /\ plan[1] = "orgs" /\ plan[2] = "accounts"
    BY <2>1 DEF Visits, ConfigFiles
  <2> QED BY <1>3, <2>1, <2>2 DEF LoadsAll
<1>4. CASE p # Worker /\ op \notin {"create", "update", "move", "import"}
  <2>1. plan = <<Target(op)>> /\ Needs(op) = {Target(op)}
    BY <1>4 DEF Plan, ReadsOf, Needs
  <2>2. Target(op) \in ConfigFiles /\ Target(op) # "check"
    BY TargetIsFile DEF ConfigFiles
  <2> QED BY <1>4, <2>1, <2>2 DEF LoadsAll, Visits
<1> QED BY <1>1, <1>2, <1>3, <1>4

\* Labels refer to names of the given accounts, credentials and profiles.
RefersTo(doc, names, profiles) ==
  \A l \in DOMAIN doc : doc[l].accounts \subseteq names /\ doc[l].profile \in profiles

LEMMA PutRefers ==
  ASSUME NEW names, NEW profiles, NEW doc, RefersTo(doc, names, profiles), NEW k, NEW r,
         r.accounts \subseteq names, r.profile \in profiles
  PROVE  RefersTo(Put(doc, k, r), names, profiles)
BY DEF RefersTo, Put

LEMMA DropRefers ==
  ASSUME NEW names, NEW profiles, NEW doc, RefersTo(doc, names, profiles), NEW k
  PROVE  RefersTo(Drop(doc, k), names, profiles)
BY DEF RefersTo, Drop

LEMMA DecidedLabels ==
  ASSUME NEW op \in {"create", "update", "move", "delete", "first_label"}, NEW v,
         \A f \in Needs(op) : v[f] \in Documents(f),
         NEW names, NEW profiles, Default \in profiles,
         RefersTo(v["labels"], names, profiles),
         "profiles" \in Needs(op) => v["profiles"] \subseteq profiles,
         "orgs" \in Needs(op) => KnownAccounts(v) \subseteq names,
         NEW doc \in Edits(op, v)
  PROVE  doc \in Documents("labels") /\ RefersTo(doc, names, profiles)
<1> DEFINE labels == v["labels"]
<1> DEFINE T == LabelRecords
<1>0. Default \in Profiles /\ v.labels = labels /\ v.profiles = v["profiles"]
  BY ConfigStoreAssumption
<1>1. "labels" \in Needs(op)
  BY DEF Needs, Target
<1>2. labels \in Tables(Labels, T)
  BY <1>1, DocumentsOfFiles
<1> HIDE DEF T
<1>3. DOMAIN labels \subseteq Labels /\ \A l \in DOMAIN labels : labels[l] \in T
  BY <1>2, InTable
<1>4. \A l \in DOMAIN labels : labels[l].accounts \subseteq names /\ labels[l].profile \in profiles
  BY DEF RefersTo
<1> HIDE DEF labels
<1>5. ASSUME NEW table \in Tables(Labels, T), RefersTo(table, names, profiles), NEW l \in Labels, NEW r \in T,
             r.accounts \subseteq names, r.profile \in profiles
      PROVE  Put(table, l, r) \in Documents("labels") /\ RefersTo(Put(table, l, r), names, profiles)
  BY <1>5, PutInTable, PutRefers, DocumentsOfFiles DEF T
<1>6. ASSUME NEW l
      PROVE  Drop(labels, l) \in Tables(Labels, T) /\ RefersTo(Drop(labels, l), names, profiles)
  BY <1>2, DropFromTable, DropRefers DEF labels
<1>7. CASE op = "create"
  <2>1. "profiles" \in Needs(op) /\ "orgs" \in Needs(op)
    BY <1>7 DEF Needs
  <2>2. PICK l \in Labels \ DOMAIN labels,
             r \in {r \in T : r.profile \in v["profiles"] /\ r.accounts \subseteq KnownAccounts(v)} :
          doc = Put(labels, l, r)
    BY <1>0, <1>7 DEF Edits, Created, T
  <2> QED BY <1>2, <1>5, <2>1, <2>2 DEF labels
<1>8. CASE op = "update"
  <2>1. "profiles" \in Needs(op) /\ "orgs" \in Needs(op)
    BY <1>8 DEF Needs
  <2>2. PICK l \in DOMAIN labels : doc \in {Put(Drop(labels, l), new, r) :
            new \in {l} \cup (Labels \ DOMAIN labels),
            r \in {r \in T :
                     /\ r.accounts \subseteq KnownAccounts(v) \/ r.accounts = labels[l].accounts
                     /\ r.profile \in v["profiles"] \/ r.profile = labels[l].profile}}
    BY <1>0, <1>8 DEF Edits, Updated, T
  <2>3. PICK new \in {l} \cup (Labels \ DOMAIN labels),
             r \in {r \in T :
                     /\ r.accounts \subseteq KnownAccounts(v) \/ r.accounts = labels[l].accounts
                     /\ r.profile \in v["profiles"] \/ r.profile = labels[l].profile} :
          doc = Put(Drop(labels, l), new, r)
    BY <2>2
  <2>4. new \in Labels /\ r \in T /\ r.accounts \subseteq names /\ r.profile \in profiles
    BY <1>3, <1>4, <2>1
  <2> QED BY <1>5, <1>6, <2>3, <2>4
<1>9. CASE op = "move"
  <2>1. "orgs" \in Needs(op)
    BY <1>9 DEF Needs
  <2>2. "accounts" \in Needs(op)
    BY <1>9 DEF Needs
  <2>3. PICK l \in DOMAIN labels, a \in KnownAccounts(v) :
          doc = Put(labels, l, [labels[l] EXCEPT !.accounts = {a}])
    BY <1>0, <1>9 DEF Edits, Moved, labels
  <2> DEFINE r == [labels[l] EXCEPT !.accounts = {a}]
  <2>4. a \in Names
    <3>1. v["accounts"] \subseteq Accounts /\ v["orgs"] \in Tables(Orgs, SUBSET Creds)
      BY <2>1, <2>2, DocumentsOfFiles
    <3>2. CredNames(v["orgs"]) \subseteq Creds
      BY <3>1, InTable DEF CredNames
    <3> QED BY <2>3, <3>1, <3>2 DEF KnownAccounts, Names
  <2>5. r \in T /\ r.accounts = {a} /\ r.profile = labels[l].profile
    BY <1>3, <2>4 DEF T, LabelRecords
  <2> HIDE DEF r
  <2>6. doc = Put(labels, l, r) /\ l \in Labels /\ r.accounts \subseteq names /\ r.profile \in profiles
    BY <1>3, <1>4, <2>1, <2>3, <2>5 DEF r
  <2> QED BY <1>2, <1>5, <2>5, <2>6 DEF labels
<1>10. CASE op = "delete"
  <2>1. PICK l \in DOMAIN labels : doc = Drop(labels, l)
    BY <1>0, <1>10 DEF Edits, Deleted
  <2> QED BY <1>6, <2>1, DocumentsOfFiles DEF T
<1>11. CASE op = "first_label"
  <2> DEFINE r == [accounts |-> {}, profile |-> Default]
  <2>1. PICK l \in Labels \ DOMAIN labels : doc = Put(labels, l, r)
    BY <1>0, <1>11 DEF Edits, FirstLabel
  <2>2. r \in T /\ r.accounts \subseteq names /\ r.profile \in profiles
    BY <1>0 DEF T, LabelRecords
  <2> HIDE DEF r
  <2> QED BY <1>2, <1>5, <2>1, <2>2 DEF labels
<1> QED BY <1>7, <1>8, <1>9, <1>10, <1>11

LEMMA DecidedOthers ==
  ASSUME NEW op \in Requested, op \notin {"create", "update", "move", "delete", "first_label"}, NEW v,
         \A f \in Needs(op) : v[f] \in Documents(f), NEW doc \in Edits(op, v)
  PROVE  doc \in Documents(Target(op))
<1>0. Primary \in Creds /\ v.orgs = v["orgs"] /\ v.profiles = v["profiles"]
      /\ v.accounts = v["accounts"] /\ v.config = v["config"]
  BY ConfigStoreAssumption
<1>1. CASE op = "profile"
  <2>1. v["profiles"] \subseteq Profiles /\ Target(op) = "profiles"
    BY <1>1, DocumentsOfFiles DEF Needs, Target
  <2> QED BY <1>0, <1>1, <2>1, DocumentsOfFiles DEF Edits, AddedProfile
<1>2. CASE op = "account"
  <2>1. v["accounts"] \subseteq Accounts /\ Target(op) = "accounts"
    BY <1>2, DocumentsOfFiles DEF Needs, Target
  <2> QED BY <1>0, <1>2, <2>1, DocumentsOfFiles DEF Edits, AddedAccount
<1>3. CASE op \in {"channel", "no_channel"}
  <2>1. v["config"] \subseteq Channels /\ Target(op) = "config"
    BY <1>3, DocumentsOfFiles DEF Needs, Target
  <2> QED BY <1>0, <1>3, <2>1, DocumentsOfFiles DEF Edits, UpsertedChannel, DeletedChannel
<1>4. CASE op \in OrgRequests
  <2> DEFINE orgs == v["orgs"]
  <2> DEFINE T == SUBSET Creds
  <2>1. Target(op) = "orgs" /\ "orgs" \in Needs(op)
    BY <1>4 DEF OrgRequests, Target, Needs
  <2>2. orgs \in Tables(Orgs, T) /\ Documents(Target(op)) = Tables(Orgs, T)
    BY <2>1, DocumentsOfFiles
  <2>3. DOMAIN orgs \subseteq Orgs /\ \A o \in DOMAIN orgs : orgs[o] \subseteq Creds
    BY <2>2, InTable
  <2>4. \A o \in Orgs, x \in T : Put(orgs, o, x) \in Tables(Orgs, T)
    <3> HIDE DEF orgs, T
    <3> QED BY <2>2, PutInTable
  <2>5. CASE op = "create_org"
    BY <1>0, <2>2, <2>4, <2>5 DEF Edits, CreatedOrg
  <2>6. CASE op = "delete_org"
    <3>1. PICK o \in DOMAIN orgs : doc = Drop(orgs, o)
      BY <1>0, <2>6 DEF Edits, DeletedOrg
    <3> HIDE DEF orgs, T
    <3> QED BY <2>2, <3>1, DropFromTable
  <2>7. CASE op = "duplicate_org"
    <3>1. PICK new \in Orgs \ DOMAIN orgs, o \in DOMAIN orgs : doc = Put(orgs, new, orgs[o])
      BY <1>0, <2>7 DEF Edits, DuplicatedOrg
    <3> QED BY <2>2, <2>3, <2>4, <3>1
  <2>8. CASE op = "add_cred"
    <3>1. PICK o \in DOMAIN orgs, c \in Creds : doc = Put(orgs, o, orgs[o] \cup {c})
      BY <1>0, <2>8 DEF Edits, AddedCred
    <3>2. orgs[o] \cup {c} \in T
      BY <2>3
    <3> HIDE DEF orgs, T
    <3> QED BY <2>2, <2>3, <2>4, <3>1, <3>2
  <2>9. CASE op = "delete_cred"
    <3>1. PICK o \in DOMAIN orgs : \E c \in orgs[o] : doc = Put(orgs, o, orgs[o] \ {c})
      BY <1>0, <2>9 DEF Edits, DeletedCred
    <3>2. \A c : orgs[o] \ {c} \in T
      BY <2>3
    <3> HIDE DEF orgs, T
    <3> QED BY <2>2, <2>3, <2>4, <3>1, <3>2
  <2>10. CASE op = "import"
    <3>1. PICK D \in SUBSET Orgs : doc = [o \in D |-> {Primary}]
      BY <1>0, <2>10 DEF Edits, Imported
    <3>2. doc \in [D -> T]
      BY <1>0, <3>1
    <3> QED BY <2>2, <3>2 DEF Tables
  <2> QED BY <1>4, <2>5, <2>6, <2>7, <2>8, <2>9, <2>10 DEF OrgRequests
<1> QED BY <1>1, <1>2, <1>3, <1>4
        DEF Requested, WebRequests, CliRequests, LabelRequests, ChannelRequests

-----------------------------------------------------------------------------
(* Configuration files: what is kept *)

Moving == {"write", "replace"}
Writes == {"open"} \cup Moving
Copies == {"copy", "empty", "fill"}

\* What is left of an archive to copy.
Suffixes == {<<"accounts", "config", "profiles", "labels", "orgs">>, <<"config", "profiles", "labels", "orgs">>,
             <<"profiles", "labels", "orgs">>, <<"labels", "orgs">>, <<"orgs">>}
Left(s) == {s[i] : i \in 1..Len(s)}

\* The names that a file has or had: what labels may refer to.
Facts == [accounts |-> NamesIn("accounts", file["accounts"]), gone |-> gone,
          names |-> NamesIn("accounts", file["accounts"]) \cup NamesIn("orgs", file["orgs"]) \cup gone,
          profiles |-> NamesIn("profiles", file["profiles"]) \cup gone]

\* Nothing is forgotten.
Grows(k, m) ==
  /\ k.gone \subseteq m.gone /\ k.accounts \subseteq m.accounts \cup m.gone
  /\ k.names \subseteq m.names /\ k.profiles \subseteq m.profiles

ProcTyped(p, r) ==
  /\ DOMAIN r = {"op", "step", "todo", "doc", "moved"}
  /\ r.moved \in BOOLEAN /\ (r.moved => r.step \in Moving)
  /\ r.step \in {"idle", "read"} \cup Writes \cup Copies
  /\ r.step = "idle" => r.op = "none"
  /\ r.step = "read" => p = Worker \/ r.op \in Requested
  /\ r.step \in Writes => p \in Editors /\ r.op \in Requested /\ r.doc \in Documents(Target(r.op))
  /\ r.step \in Copies => /\ p \in Editors /\ r.todo \in Suffixes
                          /\ \/ r.op = "backup" /\ r.step = "copy"
                             \/ r.op = "restore" /\ p = Cli

ViewTyped(v) ==
  DOMAIN v = ConfigFiles /\ \A f \in ConfigFiles : v[f] = Absent \/ v[f] \in Documents(f)

\* A request has read its plan up to the i-th visit.
ReadUpTo(p, r, v, i) ==
  /\ r.todo = SubSeq(Plan(p, r.op), i, Len(Plan(p, r.op)))
  /\ \A j \in 1..(i - 1) : Plan(p, r.op)[j] # "check" => v[Plan(p, r.op)[j]] # Absent

\* On the way to the check: profiles and credentials that labels refer to were met or are
\* gone, accounts are in accounts.json, in time for the load or not, or gone.
LoadSound(v, i, k) ==
  /\ i \in 5..6 => \A l \in DOMAIN v["labels"] : v["labels"][l].profile \in v["profiles"] \cup k.gone
  /\ i = 6 => \A l \in DOMAIN v["labels"] :
                v["labels"][l].accounts \subseteq k.accounts \cup CredNames(v["orgs"]) \cup k.gone

ReadSound(p, r, v, k) ==
  \E i \in 1..(Len(Plan(p, r.op)) + 1) :
    ReadUpTo(p, r, v, i) /\ (LoadsAll(p, r.op) => LoadSound(v, i, k))

ViewKnown(v, k) ==
  /\ v["labels"] # Absent => RefersTo(v["labels"], k.names, k.profiles)
  /\ v["profiles"] # Absent => v["profiles"] \subseteq k.profiles
  /\ v["accounts"] # Absent => v["accounts"] \subseteq k.names
  /\ v["orgs"] # Absent => CredNames(v["orgs"]) \subseteq k.names

ProcSound(p, r, v, k) ==
  /\ ProcTyped(p, r) /\ ViewTyped(v) /\ ViewKnown(v, k)
  /\ r.step = "read" => ReadSound(p, r, v, k)
  /\ r.step \in Writes /\ Target(r.op) = "labels" => RefersTo(r.doc, k.names, k.profiles)

ProcsInv ==
  /\ DOMAIN proc = Loaders /\ DOMAIN view = Loaders
  /\ \A p \in Loaders : ProcSound(p, proc[p], view[p], Facts)

\* What a file, a temporary file or an archive holds.
Kept(f, doc, k) ==
  /\ doc = Torn \/ doc = Absent \/ doc \in Documents(f)
  /\ f = "labels" /\ Document(doc) => RefersTo(doc, k.names, k.profiles)

FilesInv ==
  /\ DOMAIN file = ConfigFiles /\ DOMAIN tmp = ConfigFiles /\ DOMAIN archive = ConfigFiles
  /\ Default \in Facts.profiles
  /\ \A f \in ConfigFiles :
       /\ file[f] # Absent /\ Kept(f, file[f], Facts)
       /\ Kept(f, tmp[f], Facts) /\ Kept(f, archive[f], Facts)

SoundInv == FilesInv /\ ProcsInv

LEMMA SuffixSteps ==
  ASSUME NEW s \in Suffixes
  PROVE  /\ Head(s) \in ConfigFiles
         /\ Len(s) > 1 => /\ Tail(s) \in Suffixes /\ Head(s) # "orgs"
                          /\ \A f : f \in Left(s) => f = Head(s) \/ f \in Left(Tail(s))
         /\ ~(Len(s) > 1) => \A f \in Left(s) : f = Head(s)
<1> DEFINE Good(t) ==
         /\ Head(t) \in ConfigFiles
         /\ Len(t) > 1 => /\ Tail(t) \in Suffixes /\ Head(t) # "orgs"
                          /\ \A f : f \in Left(t) => f = Head(t) \/ f \in Left(Tail(t))
         /\ ~(Len(t) > 1) => \A f \in Left(t) : f = Head(t)
<1>1. s = <<"accounts", "config", "profiles", "labels", "orgs">> => Good(s)
  BY DEF Suffixes, Left, ConfigFiles
<1>2. s = <<"config", "profiles", "labels", "orgs">> => Good(s)
  BY DEF Suffixes, Left, ConfigFiles
<1>3. s = <<"profiles", "labels", "orgs">> => Good(s)
  BY DEF Suffixes, Left, ConfigFiles
<1>4. s = <<"labels", "orgs">> => Good(s)
  BY DEF Suffixes, Left, ConfigFiles
<1>5. s = <<"orgs">> => Good(s)
  BY DEF Suffixes, Left, ConfigFiles
<1> QED BY <1>1, <1>2, <1>3, <1>4, <1>5 DEF Suffixes

LEMMA WholeArchive == ArchiveOrder \in Suffixes /\ ConfigFiles \subseteq Left(ArchiveOrder)
<1>1. ArchiveOrder \in Suffixes
  BY DEF ArchiveOrder, Suffixes
<1>2. /\ ArchiveOrder[1] = "accounts" /\ ArchiveOrder[2] = "config" /\ ArchiveOrder[3] = "profiles"
      /\ ArchiveOrder[4] = "labels" /\ ArchiveOrder[5] = "orgs" /\ Len(ArchiveOrder) = 5
  BY DEF ArchiveOrder
<1>3. \A i \in 1..5 : ArchiveOrder[i] \in Left(ArchiveOrder)
  BY <1>2 DEF Left
<1> QED BY <1>1, <1>2, <1>3 DEF ConfigFiles

LEMMA RefersGrows ==
  ASSUME NEW doc, NEW k, NEW m, Grows(k, m), RefersTo(doc, k.names, k.profiles)
  PROVE  RefersTo(doc, m.names, m.profiles)
BY DEF RefersTo, Grows

LEMMA SoundGrows ==
  ASSUME NEW p, NEW r, NEW v, NEW k, NEW m, ProcSound(p, r, v, k), Grows(k, m)
  PROVE  ProcSound(p, r, v, m)
<1>1. ViewKnown(v, m)
  BY RefersGrows DEF ProcSound, ViewKnown, Grows
<1>2. \A i : LoadSound(v, i, k) => LoadSound(v, i, m)
  BY DEF LoadSound, Grows
<1>3. ReadSound(p, r, v, k) => ReadSound(p, r, v, m)
  BY <1>2 DEF ReadSound
<1> QED BY <1>1, <1>3, RefersGrows DEF ProcSound

LEMMA GrowsItself == ASSUME UNCHANGED <<file, gone>> PROVE Facts' = Facts /\ Grows(Facts, Facts')
BY DEF Facts, Grows

LEMMA ChangeGrows ==
  ASSUME DOMAIN file = ConfigFiles, NEW p, NEW f \in ConfigFiles, NEW content, Changes(p, f, content)
  PROVE  /\ DOMAIN file' = ConfigFiles
         /\ file'[f] = content /\ \A g \in ConfigFiles \ {f} : file'[g] = file[g]
         /\ Grows(Facts, Facts')
<1>1. /\ DOMAIN file' = ConfigFiles
      /\ file'[f] = content /\ \A g \in ConfigFiles \ {f} : file'[g] = file[g]
      /\ gone' = gone \cup (NamesIn(f, file[f]) \ NamesIn(f, content))
  BY DEF Changes
<1>2. /\ file'["accounts"] = IF f = "accounts" THEN content ELSE file["accounts"]
      /\ file'["orgs"] = IF f = "orgs" THEN content ELSE file["orgs"]
      /\ file'["profiles"] = IF f = "profiles" THEN content ELSE file["profiles"]
  BY <1>1 DEF ConfigFiles
<1>3. Facts' = [accounts |-> NamesIn("accounts", file'["accounts"]), gone |-> gone',
                names |-> NamesIn("accounts", file'["accounts"]) \cup NamesIn("orgs", file'["orgs"]) \cup gone',
                profiles |-> NamesIn("profiles", file'["profiles"]) \cup gone']
  BY DEF Facts, NamesIn, CredNames
<1>4. Grows(Facts, Facts')
  BY <1>1, <1>2, <1>3 DEF Facts, Grows
<1> QED BY <1>1, <1>4

LEMMA ProcsMove ==
  ASSUME ProcsInv, Grows(Facts, Facts'), DOMAIN proc' = Loaders, DOMAIN view' = Loaders,
         \A q \in Loaders : \/ proc'[q] = proc[q] /\ view'[q] = view[q]
                            \/ ProcSound(q, proc'[q], view'[q], Facts)
  PROVE  ProcsInv'
<1>1. \A q \in Loaders : ProcSound(q, proc'[q], view'[q], Facts')
  BY SoundGrows DEF ProcsInv
<1>2. \A q \in Loaders : ProcSound(q, proc[q], view[q], Facts)'
  BY <1>1
<1> QED BY <1>2 DEF ProcsInv

LEMMA FilesMove ==
  ASSUME FilesInv, Grows(Facts, Facts'),
         DOMAIN file' = ConfigFiles, DOMAIN tmp' = ConfigFiles, DOMAIN archive' = ConfigFiles,
         \A f \in ConfigFiles :
           /\ file'[f] # Absent /\ Kept(f, file'[f], Facts)
           /\ Kept(f, tmp'[f], Facts) /\ Kept(f, archive'[f], Facts)
  PROVE  FilesInv'
<1>1. ASSUME NEW f, NEW doc, Kept(f, doc, Facts) PROVE Kept(f, doc, Facts')
  BY <1>1, RefersGrows DEF Kept
<1>2. Default \in (Facts').profiles
  BY DEF FilesInv, Grows
<1>3. \A f \in ConfigFiles :
        /\ file'[f] # Absent /\ Kept(f, file'[f], Facts')
        /\ Kept(f, tmp'[f], Facts') /\ Kept(f, archive'[f], Facts')
  BY <1>1
<1>4. \A f \in ConfigFiles :
        /\ file[f]' # Absent /\ Kept(f, file[f], Facts)'
        /\ Kept(f, tmp[f], Facts)' /\ Kept(f, archive[f], Facts)'
  BY <1>3
<1> QED BY <1>2, <1>4 DEF FilesInv

\* A step of a process that changes no file.
LEMMA SoundMove ==
  ASSUME SoundInv, NEW p \in Loaders, UNCHANGED <<file, tmp, archive, gone>>,
         DOMAIN proc' = Loaders, DOMAIN view' = Loaders,
         \A q \in Loaders \ {p} : proc'[q] = proc[q] /\ view'[q] = view[q],
         ProcSound(p, proc'[p], view'[p], Facts)
  PROVE  SoundInv'
<1>1. Grows(Facts, Facts')
  BY GrowsItself
<1>2. FilesInv'
  BY <1>1, FilesMove DEF SoundInv, FilesInv
<1>3. ProcsInv'
  BY <1>1, ProcsMove DEF SoundInv
<1> QED BY <1>2, <1>3 DEF SoundInv

-----------------------------------------------------------------------------
(* Configuration files: what a process does next *)

LEMMA IdleSound == \A p, k : ProcSound(p, Idle, Nothing, k)
<1>1. ViewTyped(Nothing) /\ \A f \in ConfigFiles : Nothing[f] = Absent
  BY DEF ViewTyped, Nothing
<1>2. \A p : ProcTyped(p, Idle)
  BY DEF ProcTyped, Idle, Moving, Writes, Copies
<1>3. \A k : ViewKnown(Nothing, k)
  BY <1>1 DEF ViewKnown, ConfigFiles
<1> QED BY <1>1, <1>2, <1>3 DEF ProcSound, Idle, Writes, Moving

\* A request, or the worker, begins to read.
LEMMA BeginsToRead ==
  ASSUME NEW p \in Loaders, NEW op, p = Worker \/ (p \in Editors /\ op \in Requested),
         NEW r, DOMAIN r = {"op", "step", "todo", "doc", "moved"}, r.op = op, r.step = "read",
         r.todo = Plan(p, op), r.moved = FALSE,
         NEW v, NEW k, ViewTyped(v), ViewKnown(v, k)
  PROVE  ProcSound(p, r, v, k)
<1> DEFINE plan == Plan(p, op)
<1>1. plan \in Seq(Visits)
  BY PlanIs
<1> HIDE DEF plan
<1>2. plan = SubSeq(plan, 1, Len(plan)) /\ 1 \in 1..(Len(plan) + 1)
  BY <1>1
<1>3. ReadUpTo(p, r, v, 1)
  BY <1>2 DEF ReadUpTo, plan
<1>4. LoadSound(v, 1, k)
  BY DEF LoadSound
<1>5. ReadSound(p, r, v, k)
  BY <1>2, <1>3, <1>4 DEF ReadSound, plan
<1>6. ProcTyped(p, r)
  BY DEF ProcTyped, Moving, Writes, Copies
<1> QED BY <1>5, <1>6 DEF ProcSound, Writes, Moving

LEMMA RestOfPlan ==
  ASSUME NEW T, NEW S \in Seq(T), NEW i \in 1..Len(S)
  PROVE  /\ SubSeq(S, i, Len(S)) # <<>> /\ Head(SubSeq(S, i, Len(S))) = S[i]
         /\ Tail(SubSeq(S, i, Len(S))) = SubSeq(S, i + 1, Len(S))
<1>1. Len(SubSeq(S, i, Len(S))) = Len(S) - i + 1 /\ Len(S) \in i..Len(S)
  OBVIOUS
<1>2. Len(SubSeq(S, i, Len(S))) # 0
  BY <1>1
<1>3. SubSeq(S, i, Len(S)) # <<>>
  BY <1>2, EmptySeq
<1> QED BY <1>1, <1>3, HeadTailOfSubSeq

\* Where a process that reads is in its plan.
LEMMA Reads ==
  ASSUME NEW p \in Loaders, NEW r, NEW v, NEW k, ProcSound(p, r, v, k), r.step = "read",
         NEW plan, plan = Plan(p, r.op)
  PROVE  /\ plan \in Seq(Visits)
         /\ \E i \in 1..(Len(plan) + 1) :
              /\ ReadUpTo(p, r, v, i) /\ (LoadsAll(p, r.op) => LoadSound(v, i, k))
              /\ r.todo = SubSeq(plan, i, Len(plan))
              /\ r.todo # <<>> => /\ i \in 1..Len(plan) /\ Head(r.todo) = plan[i]
                                 /\ Tail(r.todo) = SubSeq(plan, i + 1, Len(plan))
              /\ r.todo = <<>> => i = Len(plan) + 1
<1>1. p = Worker \/ r.op \in Requested
  BY DEF ProcSound, ProcTyped
<1>2. plan \in Seq(Visits)
  BY <1>1, PlanIs
<1>3. PICK i \in 1..(Len(plan) + 1) :
         ReadUpTo(p, r, v, i) /\ (LoadsAll(p, r.op) => LoadSound(v, i, k))
  BY DEF ProcSound, ReadSound
<1>4. r.todo = SubSeq(plan, i, Len(plan))
  BY <1>3 DEF ReadUpTo
<1>5. CASE i = Len(plan) + 1
  <2>1. r.todo = <<>>
    <3>1. Len(plan) \in Int /\ i \in Int /\ Len(plan) < i
      BY <1>2, <1>5
    <3>2. SubSeq(plan, i, Len(plan)) = <<>>
      BY <3>1, SubSeqEmpty
    <3> QED BY <1>4, <3>2
  <2> QED BY <1>2, <1>3, <1>4, <1>5, <2>1
<1>6. CASE i \in 1..Len(plan)
  <2>1. r.todo # <<>> /\ Head(r.todo) = plan[i] /\ Tail(r.todo) = SubSeq(plan, i + 1, Len(plan))
    <3>1. /\ SubSeq(plan, i, Len(plan)) # <<>> /\ Head(SubSeq(plan, i, Len(plan))) = plan[i]
          /\ Tail(SubSeq(plan, i, Len(plan))) = SubSeq(plan, i + 1, Len(plan))
      BY <1>2, <1>6, RestOfPlan
    <3> QED BY <1>4, <3>1
  <2> QED BY <1>2, <1>3, <1>4, <1>6, <2>1
<1>7. i \in 1..Len(plan) \/ i = Len(plan) + 1
  BY <1>2
<1> QED BY <1>2, <1>5, <1>6, <1>7

\* One file more is read.
LEMMA ReadsOne ==
  ASSUME FilesInv, NEW p \in Loaders, NEW r, NEW v, ProcSound(p, r, v, Facts), r.step = "read",
         r.todo # <<>>, NEW f, f = Head(r.todo), f # "check", file[f] # Torn,
         NEW s, s = [r EXCEPT !.todo = Tail(@)], NEW w, w = [v EXCEPT ![f] = file[f]]
  PROVE  ProcSound(p, s, w, Facts)
<1> DEFINE plan == Plan(p, r.op)
<1> DEFINE k == Facts
<1>1. /\ plan \in Seq(Visits)
      /\ \E i \in 1..(Len(plan) + 1) :
              /\ ReadUpTo(p, r, v, i) /\ (LoadsAll(p, r.op) => LoadSound(v, i, k))
              /\ r.todo = SubSeq(plan, i, Len(plan))
              /\ r.todo # <<>> => /\ i \in 1..Len(plan) /\ Head(r.todo) = plan[i]
                                 /\ Tail(r.todo) = SubSeq(plan, i + 1, Len(plan))
              /\ r.todo = <<>> => i = Len(plan) + 1
  BY Reads
<1>2. p = Worker \/ r.op \in Requested
  BY DEF ProcSound, ProcTyped
<1>3. /\ \A j \in 1..Len(plan) : plan[j] = "check" => j = 6 /\ LoadsAll(p, r.op)
      /\ LoadsAll(p, r.op) =>
              /\ Len(plan) >= 6
              /\ plan[1] = "config" /\ plan[2] = "accounts" /\ plan[3] = "labels"
              /\ plan[4] = "profiles" /\ plan[5] = "orgs" /\ plan[6] = "check"
  BY <1>2, PlanIs
<1> HIDE DEF plan
<1>4. PICK i \in 1..Len(plan) :
              /\ ReadUpTo(p, r, v, i) /\ (LoadsAll(p, r.op) => LoadSound(v, i, k))
              /\ plan[i] = f /\ Tail(r.todo) = SubSeq(plan, i + 1, Len(plan))
  BY <1>1
<1>5. f \in ConfigFiles
  <2>1. plan[i] \in Visits
    BY <1>1, <1>4, ElementOfSeq
  <2> QED BY <1>4, <2>1 DEF Visits
<1>6. /\ DOMAIN r = {"op", "step", "todo", "doc", "moved"} /\ DOMAIN v = ConfigFiles
      /\ ViewTyped(v) /\ ViewKnown(v, k) /\ ProcTyped(p, r)
  BY DEF ProcSound, ProcTyped, ViewTyped
<1>7. s.op = r.op /\ s.step = "read" /\ s.moved = r.moved /\ s.todo = SubSeq(plan, i + 1, Len(plan))
      /\ DOMAIN s = {"op", "step", "todo", "doc", "moved"}
  BY <1>4, <1>6
<1>8. DOMAIN w = ConfigFiles /\ w[f] = file[f] /\ \A g \in ConfigFiles \ {f} : w[g] = v[g]
  BY <1>5, <1>6
<1>9. file[f] \in Documents(f) /\ Document(file[f])
  BY <1>5, DocumentsAreWhole DEF FilesInv, Kept
<1>10. ViewTyped(w)
  BY <1>6, <1>8, <1>9 DEF ViewTyped
<1>11. /\ f = "accounts" => file[f] = k.accounts
       /\ f = "accounts" => file[f] \subseteq k.names
       /\ f = "profiles" => file[f] \cup k.gone = k.profiles
       /\ f = "orgs" => CredNames(file[f]) \subseteq k.names
       /\ f = "orgs" => k.names = k.accounts \cup CredNames(file[f]) \cup k.gone
       /\ f = "labels" => RefersTo(file[f], k.names, k.profiles)
  <2>1. f = "labels" => RefersTo(file[f], k.names, k.profiles)
    BY <1>5, <1>9 DEF FilesInv, Kept
  <2> QED BY <1>9, <2>1 DEF Facts, NamesIn
<1>12. ViewKnown(w, k)
  <2>1. w["labels"] # Absent => RefersTo(w["labels"], k.names, k.profiles)
    BY <1>6, <1>8, <1>11 DEF ViewKnown, ConfigFiles
  <2>2. w["profiles"] # Absent => w["profiles"] \subseteq k.profiles
    BY <1>6, <1>8, <1>11 DEF ViewKnown, ConfigFiles
  <2>3. w["accounts"] # Absent => w["accounts"] \subseteq k.names
    BY <1>6, <1>8, <1>11 DEF ViewKnown, ConfigFiles
  <2>4. w["orgs"] # Absent => CredNames(w["orgs"]) \subseteq k.names
    BY <1>6, <1>8, <1>11 DEF ViewKnown, ConfigFiles
  <2> QED BY <2>1, <2>2, <2>3, <2>4 DEF ViewKnown
<1>13. \A j \in 1..(i - 1) : plan[j] # "check" => v[plan[j]] # Absent
  BY <1>4 DEF ReadUpTo, plan
<1>14. \A j \in 1..i : plan[j] # "check" => w[plan[j]] # Absent
  <2> TAKE j \in 1..i
  <2> SUFFICES ASSUME plan[j] # "check" PROVE w[plan[j]] # Absent
    OBVIOUS
  <2>1. plan[j] \in ConfigFiles
    <3>1. j \in 1..Len(plan)
      BY <1>1, <1>4
    <3>2. plan[j] \in Visits
      BY <1>1, <3>1, ElementOfSeq
    <3> QED BY <3>2 DEF Visits
  <2>2. CASE plan[j] = f
    BY <1>8, <1>9, <2>2 DEF Document
  <2>3. CASE plan[j] # f
    <3>1. j \in 1..(i - 1)
      BY <1>4, <2>3
    <3>2. v[plan[j]] # Absent
      BY <1>13, <3>1
    <3>3. w[plan[j]] = v[plan[j]]
      BY <1>8, <2>1, <2>3
    <3> QED BY <3>2, <3>3
  <2> QED BY <2>2, <2>3
<1>15. ReadUpTo(p, s, w, i + 1) /\ i + 1 \in 1..(Len(plan) + 1)
  <2>1. Plan(p, s.op) = plan /\ (i + 1) - 1 = i /\ Len(plan) \in Nat
    BY <1>1, <1>7 DEF plan
  <2> QED BY <1>7, <1>14, <2>1, SMTT(40) DEF ReadUpTo
<1>16. ASSUME LoadsAll(p, r.op) PROVE LoadSound(w, i + 1, k)
  <2>1. LoadSound(v, i, k)
    BY <1>4, <1>16
  <2>2. /\ plan[1] = "config" /\ plan[2] = "accounts" /\ plan[3] = "labels"
        /\ plan[4] = "profiles" /\ plan[5] = "orgs" /\ plan[6] = "check"
    BY <1>3, <1>16
  <2>3. i \in {1, 2, 3, 4, 5, 6} \/ i >= 6
    BY <1>4, SMTT(30)
  <2>4. i # 6
    BY <1>4, <2>2
  <2>5. /\ f # "accounts" => w["accounts"] = v["accounts"]
        /\ f # "labels" => w["labels"] = v["labels"]
        /\ f # "profiles" => w["profiles"] = v["profiles"]
        /\ f # "orgs" => w["orgs"] = v["orgs"]
    BY <1>8 DEF ConfigFiles
  <2>6. i + 1 \in 5..6 => \A l \in DOMAIN w["labels"] : w["labels"][l].profile \in w["profiles"] \cup k.gone
    <3>1. CASE i = 4
      <4>1. v["labels"] # Absent
        BY <1>13, <2>2, <3>1
      <4>2. RefersTo(v["labels"], k.names, k.profiles)
        BY <1>6, <4>1 DEF ViewKnown
      <4>3. f = "profiles" /\ w["profiles"] \cup k.gone = k.profiles
        BY <1>4, <1>8, <1>11, <2>2, <3>1
      <4> QED BY <2>5, <4>2, <4>3 DEF RefersTo
    <3>2. CASE i = 5
      <4>1. f = "orgs"
        BY <1>4, <2>2, <3>2
      <4> QED BY <2>1, <2>5, <3>2, <4>1 DEF LoadSound
    <3> QED BY <1>4, <3>1, <3>2
  <2>7. i + 1 = 6 =>
          \A l \in DOMAIN w["labels"] :
            w["labels"][l].accounts \subseteq k.accounts \cup CredNames(w["orgs"]) \cup k.gone
    <3> SUFFICES ASSUME i = 5
                 PROVE  \A l \in DOMAIN w["labels"] :
            w["labels"][l].accounts \subseteq k.accounts \cup CredNames(w["orgs"]) \cup k.gone
      BY <1>4
    <3>1. v["labels"] # Absent
      BY <1>13, <2>2
    <3>2. RefersTo(v["labels"], k.names, k.profiles)
      BY <1>6, <3>1 DEF ViewKnown
    <3>3. f = "orgs"
      BY <1>4, <2>2
    <3>4. k.names = k.accounts \cup CredNames(w["orgs"]) \cup k.gone
      BY <1>8, <1>11, <3>3
    <3>5. w["labels"] = v["labels"]
      BY <2>5, <3>3
    <3> HIDE DEF k
    <3> QED BY <3>2, <3>4, <3>5 DEF RefersTo
  <2> QED BY <2>6, <2>7 DEF LoadSound
<1>17. ReadSound(p, s, w, k)
  BY <1>7, <1>15, <1>16 DEF ReadSound, plan
<1>18. ProcTyped(p, s)
  BY <1>2, <1>6, <1>7 DEF ProcTyped, Writes, Moving, Copies
<1> QED BY <1>7, <1>10, <1>12, <1>17, <1>18 DEF ProcSound, Writes, Moving

\* The references are checked.
LEMMA ChecksOne ==
  ASSUME NEW p \in Loaders, NEW r, NEW v, NEW k, ProcSound(p, r, v, k), r.step = "read",
         r.todo # <<>>, Head(r.todo) = "check", NEW s, s = [r EXCEPT !.todo = Tail(@)]
  PROVE  /\ ProcSound(p, s, v, k)
         /\ LoadSound(v, 6, k)
         /\ \A f \in {"accounts", "labels", "profiles", "orgs"} : v[f] # Absent
<1> DEFINE plan == Plan(p, r.op)
<1>1. /\ plan \in Seq(Visits)
      /\ \E i \in 1..(Len(plan) + 1) :
              /\ ReadUpTo(p, r, v, i) /\ (LoadsAll(p, r.op) => LoadSound(v, i, k))
              /\ r.todo = SubSeq(plan, i, Len(plan))
              /\ r.todo # <<>> => /\ i \in 1..Len(plan) /\ Head(r.todo) = plan[i]
                                 /\ Tail(r.todo) = SubSeq(plan, i + 1, Len(plan))
              /\ r.todo = <<>> => i = Len(plan) + 1
  BY Reads
<1>2. p = Worker \/ r.op \in Requested
  BY DEF ProcSound, ProcTyped
<1>3. /\ \A j \in 1..Len(plan) : plan[j] = "check" => j = 6 /\ LoadsAll(p, r.op)
      /\ LoadsAll(p, r.op) =>
              /\ Len(plan) >= 6
              /\ plan[1] = "config" /\ plan[2] = "accounts" /\ plan[3] = "labels"
              /\ plan[4] = "profiles" /\ plan[5] = "orgs" /\ plan[6] = "check"
  BY <1>2, PlanIs
<1> HIDE DEF plan
<1>4. PICK i \in 1..Len(plan) :
              /\ ReadUpTo(p, r, v, i) /\ (LoadsAll(p, r.op) => LoadSound(v, i, k))
              /\ plan[i] = "check" /\ Tail(r.todo) = SubSeq(plan, i + 1, Len(plan))
  BY <1>1
<1>5. i = 6 /\ LoadsAll(p, r.op) /\ LoadSound(v, 6, k)
  BY <1>3, <1>4
<1>6. \A j \in 1..5 : plan[j] # "check" => v[plan[j]] # Absent
  BY <1>4, <1>5 DEF ReadUpTo, plan
<1>7. \A f \in {"accounts", "labels", "profiles", "orgs"} : v[f] # Absent
  BY <1>3, <1>5, <1>6
<1>8. /\ DOMAIN r = {"op", "step", "todo", "doc", "moved"} /\ ProcTyped(p, r)
      /\ ViewTyped(v) /\ ViewKnown(v, k)
  BY DEF ProcSound, ProcTyped
<1>9. s.op = r.op /\ s.step = "read" /\ s.moved = r.moved /\ s.todo = SubSeq(plan, 7, Len(plan))
      /\ DOMAIN s = {"op", "step", "todo", "doc", "moved"}
  BY <1>4, <1>5, <1>8
<1>10. \A j \in 1..6 : plan[j] # "check" => v[plan[j]] # Absent
  BY <1>4, <1>5, <1>6
<1>11. ReadUpTo(p, s, v, 7) /\ 7 \in 1..(Len(plan) + 1)
  <2>1. Plan(p, s.op) = plan /\ 7 - 1 = 6 /\ Len(plan) \in Nat /\ Len(plan) >= 6
    BY <1>1, <1>3, <1>5, <1>9 DEF plan
  <2> QED BY <1>9, <1>10, <2>1 DEF ReadUpTo
<1>12. LoadSound(v, 7, k)
  BY DEF LoadSound
<1>13. ReadSound(p, s, v, k)
  BY <1>9, <1>11, <1>12 DEF ReadSound, plan
<1>14. ProcTyped(p, s)
  BY <1>2, <1>8, <1>9 DEF ProcTyped, Writes, Moving, Copies
<1> QED BY <1>5, <1>7, <1>8, <1>9, <1>13, <1>14 DEF ProcSound, Writes, Moving

\* A request has read what it needs and decides.
LEMMA DecidesOne ==
  ASSUME NEW p \in Editors, NEW r, NEW v, NEW k, ProcSound(p, r, v, k), r.step = "read", r.todo = <<>>,
         Default \in k.profiles, NEW doc \in Edits(r.op, v),
         NEW s, s = [r EXCEPT !.step = "open", !.doc = doc]
  PROVE  ProcSound(p, s, Nothing, k)
<1> DEFINE plan == Plan(p, r.op)
<1>0. p \in Loaders /\ p # Worker /\ r.op \in Requested
  BY ConfigStoreAssumption DEF ProcSound, ProcTyped, Loaders
<1>1. /\ plan \in Seq(Visits)
      /\ \E i \in 1..(Len(plan) + 1) :
              /\ ReadUpTo(p, r, v, i) /\ (LoadsAll(p, r.op) => LoadSound(v, i, k))
              /\ r.todo = SubSeq(plan, i, Len(plan))
              /\ r.todo # <<>> => /\ i \in 1..Len(plan) /\ Head(r.todo) = plan[i]
                                 /\ Tail(r.todo) = SubSeq(plan, i + 1, Len(plan))
              /\ r.todo = <<>> => i = Len(plan) + 1
  BY <1>0, Reads
<1>2. \A f \in Needs(r.op) : \E j \in 1..Len(plan) : plan[j] = f
  BY <1>0, PlanIs
<1> HIDE DEF plan
<1>3. ReadUpTo(p, r, v, Len(plan) + 1) /\ Len(plan) \in Nat
  BY <1>1
<1>4. \A j \in 1..Len(plan) : plan[j] # "check" => v[plan[j]] # Absent
  BY <1>3 DEF ReadUpTo, plan
<1>5. Needs(r.op) \subseteq ConfigFiles /\ "check" \notin Needs(r.op)
  BY TargetIsFile DEF Needs, ConfigFiles
<1>6. \A f \in Needs(r.op) : v[f] # Absent
  BY <1>2, <1>4, <1>5
<1>7. \A f \in Needs(r.op) : v[f] \in Documents(f)
  BY <1>5, <1>6 DEF ProcSound, ViewTyped
<1>8. /\ doc \in Documents(Target(r.op))
      /\ Target(r.op) = "labels" => RefersTo(doc, k.names, k.profiles)
  <2>1. CASE r.op \in {"create", "update", "move", "delete", "first_label"}
    <3>1. Target(r.op) = "labels" /\ "labels" \in Needs(r.op)
      BY <2>1 DEF Target, Needs
    <3>2. RefersTo(v["labels"], k.names, k.profiles)
      BY <1>6, <3>1 DEF ProcSound, ViewKnown
    <3>3. "profiles" \in Needs(r.op) => v["profiles"] \subseteq k.profiles
      BY <1>6 DEF ProcSound, ViewKnown
    <3>4. "orgs" \in Needs(r.op) => KnownAccounts(v) \subseteq k.names
      <4>1. "orgs" \in Needs(r.op) => "accounts" \in Needs(r.op)
        BY <2>1 DEF Needs, Target
      <4>2. "orgs" \in Needs(r.op) => v["accounts"] \subseteq k.names /\ CredNames(v["orgs"]) \subseteq k.names
        BY <1>6, <4>1 DEF ProcSound, ViewKnown
      <4> QED BY <4>2 DEF KnownAccounts
    <3> QED BY <1>7, <2>1, <3>1, <3>2, <3>3, <3>4, DecidedLabels
  <2>2. CASE r.op \notin {"create", "update", "move", "delete", "first_label"}
    <3>1. doc \in Documents(Target(r.op))
      BY <1>0, <1>7, <2>2, DecidedOthers
    <3>2. Target(r.op) # "labels"
      BY <2>2 DEF Target
    <3> QED BY <3>1, <3>2
  <2> QED BY <2>1, <2>2
<1>9. DOMAIN r = {"op", "step", "todo", "doc", "moved"} /\ r.moved = FALSE
  BY DEF ProcSound, ProcTyped, Moving
<1>10. s.op = r.op /\ s.step = "open" /\ s.doc = doc /\ s.moved = FALSE
       /\ DOMAIN s = {"op", "step", "todo", "doc", "moved"}
  BY <1>9
<1>11. ProcTyped(p, s)
  BY <1>0, <1>8, <1>10 DEF ProcTyped, Writes, Moving, Copies
<1>12. ViewTyped(Nothing) /\ ViewKnown(Nothing, k)
  BY IdleSound DEF ProcSound
<1> QED BY <1>8, <1>10, <1>11, <1>12 DEF ProcSound

\* A step of a process that reads nothing.
LEMMA StepSound ==
  ASSUME NEW p, NEW r, NEW s, NEW v, NEW k, ProcSound(p, r, v, k), ProcTyped(p, s), s.step # "read",
         s.step \in Writes => r.step \in Writes /\ s.op = r.op /\ s.doc = r.doc
  PROVE  ProcSound(p, s, v, k)
BY DEF ProcSound

LEMMA EndsSound ==
  ASSUME SoundInv, NEW p \in Loaders, Ends(p), UNCHANGED <<file, tmp, archive, gone>>
  PROVE  SoundInv'
<1>1. /\ proc'[p] = Idle /\ view'[p] = Nothing
      /\ DOMAIN proc' = Loaders /\ DOMAIN view' = Loaders
      /\ \A q \in Loaders \ {p} : proc'[q] = proc[q] /\ view'[q] = view[q]
  BY DEF Ends, SoundInv, ProcsInv
<1> QED BY <1>1, IdleSound, SoundMove

-----------------------------------------------------------------------------
(* Configuration files: every step *)

LEMMA BeginSound ==
  ASSUME SoundInv, NEW p \in Editors, NEW op \in Requested, BeginRequest(p, op)
  PROVE  SoundInv'
<1>1. p \in Loaders /\ p # Worker
  BY ConfigStoreAssumption DEF Loaders
<1> DEFINE r == [Idle EXCEPT !.op = op, !.step = "read", !.todo = ReadsOf(op)]
<1>2. /\ DOMAIN r = {"op", "step", "todo", "doc", "moved"} /\ r.op = op /\ r.step = "read"
      /\ r.todo = Plan(p, op) /\ r.moved = FALSE
  BY <1>1 DEF Idle, Plan
<1>3. /\ proc'[p] = r /\ view' = view /\ DOMAIN proc' = Loaders /\ DOMAIN view' = Loaders
      /\ \A q \in Loaders \ {p} : proc'[q] = proc[q]
  BY <1>1 DEF BeginRequest, SoundInv, ProcsInv
<1>4. ProcSound(p, proc[p], view[p], Facts)
  BY <1>1 DEF SoundInv, ProcsInv
<1> HIDE DEF r
<1>5. ProcSound(p, r, view[p], Facts)
  BY <1>1, <1>2, <1>4, BeginsToRead DEF ProcSound
<1>6. UNCHANGED <<file, tmp, archive, gone>>
  BY DEF BeginRequest, Forgets, backups
<1> QED BY <1>1, <1>3, <1>5, <1>6, SoundMove

LEMMA WorkerLoadsSound == ASSUME SoundInv, WorkerLoads PROVE SoundInv'
<1>1. Worker \in Loaders
  BY DEF Loaders
<1>2. ProcSound(Worker, proc[Worker], view[Worker], Facts) /\ proc[Worker].step = "idle"
  BY <1>1 DEF SoundInv, ProcsInv, WorkerLoads, At
<1>3. DOMAIN proc[Worker] = {"op", "step", "todo", "doc", "moved"} /\ proc[Worker].moved = FALSE
  BY <1>2 DEF ProcSound, ProcTyped, Moving
<1> DEFINE r == [proc[Worker] EXCEPT !.step = "read", !.todo = LoadOrder]
<1>4. /\ proc'[Worker] = r /\ view' = view /\ DOMAIN proc' = Loaders /\ DOMAIN view' = Loaders
      /\ \A q \in Loaders \ {Worker} : proc'[q] = proc[q]
  BY <1>1 DEF WorkerLoads, SoundInv, ProcsInv
<1>5. /\ DOMAIN r = {"op", "step", "todo", "doc", "moved"} /\ r.op = proc[Worker].op /\ r.step = "read"
      /\ r.todo = Plan(Worker, proc[Worker].op) /\ r.moved = FALSE
  BY <1>3 DEF Plan
<1> HIDE DEF r
<1>6. ProcSound(Worker, r, view[Worker], Facts)
  BY <1>1, <1>2, <1>5, BeginsToRead DEF ProcSound
<1>7. UNCHANGED <<file, tmp, archive, gone>>
  BY DEF WorkerLoads, Forgets, backups
<1> QED BY <1>1, <1>4, <1>6, <1>7, SoundMove

LEMMA ReadSoundKept == ASSUME SoundInv, NEW p \in Loaders, Read(p) PROVE SoundInv'
<1>1. UNCHANGED <<file, tmp, archive, gone>>
  BY DEF Read, backups, history
<1>2. CASE file[First(p)] = Torn
  BY <1>1, <1>2, EndsSound DEF Read
<1>3. CASE file[First(p)] # Torn
  <2> DEFINE f == First(p)
  <2>1. /\ ProcSound(p, proc[p], view[p], Facts) /\ proc[p].step = "read" /\ proc[p].todo # <<>>
        /\ f = Head(proc[p].todo) /\ f # "check" /\ file[f] # Torn /\ FilesInv
    BY <1>3 DEF SoundInv, ProcsInv, Read, Reading, At, First
  <2>2. /\ proc'[p] = [proc[p] EXCEPT !.todo = Tail(@)] /\ view'[p] = [view[p] EXCEPT ![f] = file[f]]
        /\ DOMAIN proc' = Loaders /\ DOMAIN view' = Loaders
        /\ \A q \in Loaders \ {p} : proc'[q] = proc[q] /\ view'[q] = view[q]
    BY <1>3 DEF SoundInv, ProcsInv, Read
  <2> HIDE DEF f
  <2>3. ProcSound(p, proc'[p], view'[p], Facts)
    <3>1. ProcSound(p, [proc[p] EXCEPT !.todo = Tail(@)], [view[p] EXCEPT ![f] = file[f]], Facts)
      BY <2>1, ReadsOne
    <3> QED BY <2>2, <3>1
  <2> QED BY <1>1, <2>2, <2>3, SoundMove
<1> QED BY <1>2, <1>3

LEMMA CheckSoundKept == ASSUME SoundInv, NEW p \in Loaders, Check(p) PROVE SoundInv'
<1>1. UNCHANGED <<file, tmp, archive, gone>>
  BY DEF Check, backups, history
<1>2. CASE Missing(view[p]) # {}
  BY <1>1, <1>2, EndsSound DEF Check
<1>3. CASE Missing(view[p]) = {}
  <2>1. /\ ProcSound(p, proc[p], view[p], Facts) /\ proc[p].step = "read" /\ proc[p].todo # <<>>
        /\ Head(proc[p].todo) = "check"
    BY DEF SoundInv, ProcsInv, Check, Reading, At, First
  <2>2. /\ proc'[p] = [proc[p] EXCEPT !.todo = Tail(@)] /\ view' = view
        /\ DOMAIN proc' = Loaders /\ DOMAIN view' = Loaders
        /\ \A q \in Loaders \ {p} : proc'[q] = proc[q] /\ view'[q] = view[q]
    BY <1>3 DEF SoundInv, ProcsInv, Check
  <2>3. ProcSound(p, proc'[p], view'[p], Facts)
    BY <2>1, <2>2, ChecksOne
  <2> QED BY <1>1, <2>2, <2>3, SoundMove
<1> QED BY <1>2, <1>3

LEMMA DecideSoundKept == ASSUME SoundInv, NEW p \in Editors, Decide(p) PROVE SoundInv'
<1>0. p \in Loaders
  BY DEF Loaders
<1>1. UNCHANGED <<file, tmp, archive, gone>>
  BY DEF Decide, backups, history
<1>2. CASE Ends(p)
  BY <1>0, <1>1, <1>2, EndsSound
<1>3. CASE /\ \E d \in Edits(proc[p].op, view[p]) :
                proc' = [proc EXCEPT ![p].step = "open", ![p].doc = d]
           /\ view' = [view EXCEPT ![p] = Nothing]
  <2>1. /\ ProcSound(p, proc[p], view[p], Facts) /\ proc[p].step = "read" /\ proc[p].todo = <<>>
        /\ Default \in Facts.profiles
    BY <1>0 DEF SoundInv, ProcsInv, FilesInv, Decide, HasRead, At
  <2>2. PICK d \in Edits(proc[p].op, view[p]) :
             proc' = [proc EXCEPT ![p].step = "open", ![p].doc = d]
    BY <1>3
  <2>3. /\ proc'[p] = [proc[p] EXCEPT !.step = "open", !.doc = d] /\ view'[p] = Nothing
        /\ DOMAIN proc' = Loaders /\ DOMAIN view' = Loaders
        /\ \A q \in Loaders \ {p} : proc'[q] = proc[q] /\ view'[q] = view[q]
    BY <1>0, <1>3, <2>2 DEF SoundInv, ProcsInv
  <2>4. ProcSound(p, proc'[p], view'[p], Facts)
    <3>1. ProcSound(p, [proc[p] EXCEPT !.step = "open", !.doc = d], Nothing, Facts)
      BY <2>1, <2>2, DecidesOne
    <3> QED BY <2>3, <3>1
  <2> QED BY <1>0, <1>1, <2>3, <2>4, SoundMove
<1> QED BY <1>2, <1>3 DEF Decide

\* A process that writes or copies goes on to another step.
LEMMA GoesOn ==
  ASSUME SoundInv, NEW p \in Editors, NEW step, Becomes(p, step), view' = view,
         \/ proc[p].step \in Writes /\ step \in Moving
         \/ proc[p].step \in Copies /\ p = Cli /\ step \in Copies /\ proc[p].op = "restore"
  PROVE  /\ DOMAIN proc' = Loaders /\ DOMAIN view' = Loaders
         /\ \A q \in Loaders : \/ proc'[q] = proc[q] /\ view'[q] = view[q]
                               \/ ProcSound(q, proc'[q], view'[q], Facts)
<1> DEFINE s == [proc[p] EXCEPT !.step = step]
<1>1. p \in Loaders
  BY DEF Loaders
<1>2. ProcSound(p, proc[p], view[p], Facts) /\ ProcTyped(p, proc[p])
  BY <1>1 DEF SoundInv, ProcsInv, ProcSound
<1>3. DOMAIN proc[p] = {"op", "step", "todo", "doc", "moved"}
  BY <1>2 DEF ProcTyped
<1>4. /\ DOMAIN s = {"op", "step", "todo", "doc", "moved"} /\ s.step = step
      /\ s.op = proc[p].op /\ s.todo = proc[p].todo /\ s.doc = proc[p].doc /\ s.moved = proc[p].moved
  BY <1>3
<1>5. /\ proc'[p] = s /\ DOMAIN proc' = Loaders /\ DOMAIN view' = Loaders
      /\ \A q \in Loaders \ {p} : proc'[q] = proc[q]
  BY <1>1 DEF Becomes, SoundInv, ProcsInv
<1> HIDE DEF s
<1>6. ProcTyped(p, s)
  <2>1. CASE proc[p].step \in Writes /\ step \in Moving
    BY <1>2, <1>4, <2>1 DEF ProcTyped, Writes, Moving, Copies
  <2>2. CASE proc[p].step \in Copies /\ p = Cli /\ step \in Copies /\ proc[p].op = "restore"
    BY <1>2, <1>4, <2>2 DEF ProcTyped, Writes, Moving, Copies
  <2> QED BY <2>1, <2>2
<1>7. step # "read" /\ (step \in Writes => proc[p].step \in Writes)
  BY DEF Writes, Moving, Copies
<1>8. ProcSound(p, s, view[p], Facts)
  BY <1>2, <1>4, <1>6, <1>7, StepSound
<1> QED BY <1>5, <1>8

LEMMA OpenSoundKept == ASSUME SoundInv, NEW p \in Editors, Open(p) PROVE SoundInv'
<1>1. TargetOf(p) \in ConfigFiles
  BY TargetIsFile DEF TargetOf
<1>2. Grows(Facts, Facts') /\ UNCHANGED <<file, archive>>
  BY GrowsItself DEF Open, backups
<1>3. /\ DOMAIN proc' = Loaders /\ DOMAIN view' = Loaders
      /\ \A q \in Loaders : \/ proc'[q] = proc[q] /\ view'[q] = view[q]
                            \/ ProcSound(q, proc'[q], view'[q], Facts)
  BY GoesOn DEF Open, At, Writes, Moving
<1>4. Kept(TargetOf(p), Torn, Facts)
  BY DEF Kept, Document
<1>5. FilesInv'
  BY <1>1, <1>2, <1>4, FilesMove DEF SoundInv, FilesInv, Open
<1>6. ProcsInv'
  BY <1>2, <1>3, ProcsMove DEF SoundInv
<1> QED BY <1>5, <1>6 DEF SoundInv

LEMMA WriteTmpSoundKept == ASSUME SoundInv, NEW p \in Editors, WriteTmp(p) PROVE SoundInv'
<1> DEFINE f == TargetOf(p)
<1>1. f \in ConfigFiles /\ p \in Loaders
  BY TargetIsFile DEF TargetOf, Loaders
<1>2. PICK content \in {proc[p].doc, Torn} :
         IF proc[p].moved
         THEN Changes(p, f, content) /\ UNCHANGED tmp
         ELSE /\ tmp' = [tmp EXCEPT ![f] = content]
              /\ UNCHANGED <<file, gone, grown, undo>>
  BY DEF WriteTmp
<1>3. /\ DOMAIN proc' = Loaders /\ DOMAIN view' = Loaders
      /\ \A q \in Loaders : \/ proc'[q] = proc[q] /\ view'[q] = view[q]
                            \/ ProcSound(q, proc'[q], view'[q], Facts)
  BY GoesOn DEF WriteTmp, At, Writes, Moving
<1>4. Kept(f, content, Facts) /\ content # Absent
  <2>1. /\ proc[p].doc \in Documents(f)
        /\ f = "labels" => RefersTo(proc[p].doc, Facts.names, Facts.profiles)
    BY <1>1 DEF SoundInv, ProcsInv, ProcSound, ProcTyped, WriteTmp, At, Writes, Moving, TargetOf
  <2> QED BY <1>1, <1>2, <2>1, DocumentsAreWhole DEF Kept, Document
<1>5. archive' = archive
  BY DEF WriteTmp, backups
<1> HIDE DEF f
<1>6. /\ Grows(Facts, Facts') /\ DOMAIN file' = ConfigFiles /\ DOMAIN tmp' = ConfigFiles
      /\ \A g \in ConfigFiles : /\ file'[g] = file[g] \/ (g = f /\ file'[g] = content)
                                /\ tmp'[g] = tmp[g] \/ (g = f /\ tmp'[g] = content)
  <2>0. DOMAIN file = ConfigFiles /\ DOMAIN tmp = ConfigFiles
    BY DEF SoundInv, FilesInv
  <2>1. CASE proc[p].moved
    <3>1. Changes(p, f, content) /\ tmp' = tmp
      BY <1>2, <2>1
    <3> QED BY <1>1, <2>0, <3>1, ChangeGrows
  <2>2. CASE ~proc[p].moved
    <3>1. tmp' = [tmp EXCEPT ![f] = content] /\ UNCHANGED <<file, gone>>
      BY <1>2, <2>2
    <3>2. Grows(Facts, Facts')
      BY <3>1, GrowsItself
    <3> QED BY <1>1, <2>0, <3>1, <3>2
  <2> QED BY <2>1, <2>2
<1>7. FilesInv'
  <2>1. \A g \in ConfigFiles :
           /\ file'[g] # Absent /\ Kept(g, file'[g], Facts)
           /\ Kept(g, tmp'[g], Facts) /\ Kept(g, archive'[g], Facts)
    <3>1. \A g \in ConfigFiles : /\ file[g] # Absent /\ Kept(g, file[g], Facts)
                                 /\ Kept(g, tmp[g], Facts) /\ Kept(g, archive[g], Facts)
      BY DEF SoundInv, FilesInv
    <3> QED BY <1>4, <1>5, <1>6, <3>1, Zenon
  <2> QED BY <1>5, <1>6, <2>1, FilesMove DEF SoundInv, FilesInv
<1>8. ProcsInv'
  BY <1>3, <1>6, ProcsMove DEF SoundInv
<1> QED BY <1>7, <1>8 DEF SoundInv

LEMMA ReplaceSoundKept == ASSUME SoundInv, NEW p \in Editors, Replace(p) PROVE SoundInv'
<1> DEFINE f == TargetOf(p)
<1>1. f \in ConfigFiles /\ p \in Loaders
  BY TargetIsFile DEF TargetOf, Loaders
<1>2. /\ archive' = archive /\ view' = view
      /\ IF tmp[f] = Absent
         THEN UNCHANGED <<file, tmp, gone, grown, undo>>
         ELSE Changes(p, f, tmp[f]) /\ tmp' = [tmp EXCEPT ![f] = Absent]
  BY DEF Replace, backups
<1>3. Kept(f, Absent, Facts)
  BY DEF Kept, Document
<1> HIDE DEF f
<1>4. /\ Grows(Facts, Facts') /\ DOMAIN file' = ConfigFiles /\ DOMAIN tmp' = ConfigFiles
      /\ \A g \in ConfigFiles : /\ file'[g] = file[g] \/ (file'[g] = tmp[g] /\ tmp[g] # Absent)
                                /\ tmp'[g] = tmp[g] \/ (g = f /\ tmp'[g] = Absent)
  <2>0. DOMAIN file = ConfigFiles /\ DOMAIN tmp = ConfigFiles
    BY DEF SoundInv, FilesInv
  <2>1. CASE tmp[f] = Absent
    <3>1. UNCHANGED <<file, tmp, gone>>
      BY <1>2, <2>1
    <3>2. Grows(Facts, Facts')
      BY <3>1, GrowsItself
    <3> QED BY <2>0, <3>1, <3>2
  <2>2. CASE tmp[f] # Absent
    <3>1. Changes(p, f, tmp[f]) /\ tmp' = [tmp EXCEPT ![f] = Absent]
      BY <1>2, <2>2
    <3> QED BY <1>1, <2>0, <2>2, <3>1, ChangeGrows
  <2> QED BY <2>1, <2>2
<1>5. FilesInv'
  <2>1. \A g \in ConfigFiles :
           /\ file'[g] # Absent /\ Kept(g, file'[g], Facts)
           /\ Kept(g, tmp'[g], Facts) /\ Kept(g, archive'[g], Facts)
    <3>1. \A g \in ConfigFiles : /\ file[g] # Absent /\ Kept(g, file[g], Facts)
                                 /\ Kept(g, tmp[g], Facts) /\ Kept(g, archive[g], Facts)
      BY DEF SoundInv, FilesInv
    <3>2. archive' = archive
      BY <1>2
    <3> QED BY <1>3, <1>4, <3>1, <3>2, Zenon
  <2> QED BY <1>2, <1>4, <2>1, FilesMove DEF SoundInv, FilesInv
<1>6. ASSUME NEW q \in Loaders
      PROVE  proc'[q] = proc[q] \/ ProcSound(q, proc'[q], view'[q], Facts)
  <2>1. proc'[q] = IF q = p THEN Idle
                   ELSE IF At(q, "write") /\ TargetOf(q) = TargetOf(p)
                        THEN [proc[q] EXCEPT !.moved = TRUE] ELSE proc[q]
    BY DEF Replace
  <2>2. ProcSound(q, proc[q], view[q], Facts) /\ ProcTyped(q, proc[q])
    BY DEF SoundInv, ProcsInv, ProcSound
  <2>3. CASE q = p
    <3>1. ProcTyped(q, Idle) /\ Idle.step = "idle" /\ "idle" \notin Writes
      BY IdleSound DEF ProcSound, Idle, Writes, Moving
    <3> QED BY <1>2, <2>1, <2>2, <2>3, <3>1, StepSound
  <2>4. CASE q # p /\ At(q, "write")
    <3> DEFINE s == [proc[q] EXCEPT !.moved = TRUE]
    <3>1. DOMAIN proc[q] = {"op", "step", "todo", "doc", "moved"} /\ proc[q].step = "write"
      BY <2>2, <2>4 DEF ProcTyped, At
    <3>2. /\ DOMAIN s = {"op", "step", "todo", "doc", "moved"} /\ s.step = "write" /\ s.moved = TRUE
          /\ s.op = proc[q].op /\ s.todo = proc[q].todo /\ s.doc = proc[q].doc
      BY <3>1
    <3> HIDE DEF s
    <3>3. ProcTyped(q, s)
      BY <2>2, <3>1, <3>2 DEF ProcTyped, Writes, Moving, Copies
    <3>4. ProcSound(q, s, view[q], Facts)
      BY <2>2, <3>1, <3>2, <3>3, StepSound DEF Writes, Moving
    <3> QED BY <1>2, <2>1, <2>4, <3>4 DEF s
  <2> QED BY <2>1, <2>3, <2>4
<1>7. DOMAIN proc' = Loaders /\ DOMAIN view' = Loaders
  BY <1>2 DEF Replace, SoundInv, ProcsInv
<1>8. ProcsInv'
  BY <1>2, <1>4, <1>6, <1>7, ProcsMove DEF SoundInv
<1> QED BY <1>5, <1>8 DEF SoundInv

\* A backup or a restore begins.
LEMMA BeginCopySound ==
  ASSUME SoundInv, NEW p \in Editors, NEW op, BeginCopy(p, op, "copy"),
         op = "backup" \/ (op = "restore" /\ p = Cli),
         UNCHANGED <<file, tmp, view, archive, gone>>
  PROVE  SoundInv'
<1> DEFINE s == [Idle EXCEPT !.op = op, !.step = "copy", !.todo = ArchiveOrder]
<1>1. p \in Loaders
  BY DEF Loaders
<1>2. /\ proc'[p] = s /\ DOMAIN proc' = Loaders /\ DOMAIN view' = Loaders
      /\ \A q \in Loaders \ {p} : proc'[q] = proc[q]
  BY <1>1 DEF BeginCopy, SoundInv, ProcsInv
<1>3. /\ DOMAIN s = {"op", "step", "todo", "doc", "moved"} /\ s.op = op /\ s.step = "copy"
      /\ s.todo = ArchiveOrder /\ s.moved = FALSE
  BY DEF Idle
<1>4. ProcSound(p, proc[p], view[p], Facts)
  BY <1>1 DEF SoundInv, ProcsInv
<1> HIDE DEF s
<1>5. ProcTyped(p, s)
  BY <1>3, WholeArchive DEF ProcTyped, Writes, Moving, Copies
<1>6. ProcSound(p, s, view[p], Facts)
  BY <1>3, <1>4, <1>5, StepSound DEF Writes, Moving
<1> QED BY <1>1, <1>2, <1>6, SoundMove

LEMMA CopySoundKept == ASSUME SoundInv, NEW p \in Editors, Copy(p) PROVE SoundInv'
<1> DEFINE f == First(p)
<1>1. p \in Loaders
  BY DEF Loaders
<1>2. ProcSound(p, proc[p], view[p], Facts) /\ ProcTyped(p, proc[p]) /\ proc[p].step = "copy"
  BY <1>1 DEF SoundInv, ProcsInv, ProcSound, Copy, At
<1>3. /\ DOMAIN proc[p] = {"op", "step", "todo", "doc", "moved"} /\ proc[p].todo \in Suffixes
      /\ proc[p].op = "backup" \/ (proc[p].op = "restore" /\ p = Cli)
      /\ proc[p].moved = FALSE
  BY <1>2 DEF ProcTyped, Copies, Moving
<1>4. f \in ConfigFiles /\ (Len(proc[p].todo) > 1 => Tail(proc[p].todo) \in Suffixes)
  BY <1>3, SuffixSteps DEF First
<1>5. /\ UNCHANGED <<file, tmp, view, gone>>
      /\ archive' = archive \/ archive' = [archive EXCEPT ![f] = file[f]]
  BY DEF Copy, history
<1> DEFINE s == proc'[p]
<1>6. /\ DOMAIN proc' = Loaders /\ DOMAIN view' = Loaders
      /\ \A q \in Loaders \ {p} : proc'[q] = proc[q] /\ view'[q] = view[q]
      /\ s = IF Len(proc[p].todo) > 1 THEN [proc[p] EXCEPT !.todo = Tail(@)]
             ELSE IF proc[p].op = "backup" THEN Idle
             ELSE [proc[p] EXCEPT !.step = "empty", !.todo = ArchiveOrder]
  <2>1. DOMAIN proc = Loaders /\ DOMAIN view = Loaders
    BY DEF SoundInv, ProcsInv
  <2> DEFINE t == IF Len(proc[p].todo) > 1 THEN [proc[p] EXCEPT !.todo = Tail(@)]
                  ELSE IF proc[p].op = "backup" THEN Idle
                  ELSE [proc[p] EXCEPT !.step = "empty", !.todo = ArchiveOrder]
  <2>2. proc' = [proc EXCEPT ![p] = t]
    BY DEF Copy
  <2> HIDE DEF t
  <2>3. /\ DOMAIN proc' = Loaders /\ DOMAIN view' = Loaders
        /\ \A q \in Loaders \ {p} : proc'[q] = proc[q] /\ view'[q] = view[q]
        /\ s = t
    BY <1>1, <1>5, <2>1, <2>2
  <2> QED BY <2>3 DEF t
<1> HIDE DEF s, f
<1>7. ProcSound(p, s, view[p], Facts)
  <2>1. CASE Len(proc[p].todo) > 1
    <3>1. /\ DOMAIN s = {"op", "step", "todo", "doc", "moved"} /\ s.op = proc[p].op /\ s.step = "copy"
          /\ s.todo = Tail(proc[p].todo) /\ s.moved = FALSE
      BY <1>2, <1>3, <1>6, <2>1
    <3>2. ProcTyped(p, s)
      BY <1>3, <1>4, <2>1, <3>1 DEF ProcTyped, Writes, Moving, Copies
    <3> QED BY <1>2, <3>1, <3>2, StepSound DEF Writes, Moving
  <2>2. CASE ~(Len(proc[p].todo) > 1) /\ proc[p].op = "backup"
    <3>1. s = Idle
      BY <1>6, <2>2
    <3>2. ProcTyped(p, s) /\ s.step = "idle"
      BY <3>1, IdleSound DEF ProcSound, Idle
    <3> QED BY <1>2, <3>2, StepSound DEF Writes, Moving
  <2>3. CASE ~(Len(proc[p].todo) > 1) /\ proc[p].op # "backup"
    <3>1. /\ DOMAIN s = {"op", "step", "todo", "doc", "moved"} /\ s.op = proc[p].op /\ s.step = "empty"
          /\ s.todo = ArchiveOrder /\ s.moved = FALSE
      BY <1>2, <1>3, <1>6, <2>3
    <3>2. ProcTyped(p, s)
      BY <1>3, <2>3, <3>1, WholeArchive DEF ProcTyped, Writes, Moving, Copies
    <3> QED BY <1>2, <3>1, <3>2, StepSound DEF Writes, Moving
  <2> QED BY <2>1, <2>2, <2>3
<1>8. Grows(Facts, Facts')
  BY <1>5, GrowsItself
<1>9. ProcsInv'
  BY <1>5, <1>6, <1>7, <1>8, ProcsMove DEF SoundInv, s
<1>10. DOMAIN archive' = ConfigFiles /\ \A g \in ConfigFiles : archive'[g] = archive[g] \/ archive'[g] = file[g]
  BY <1>4, <1>5 DEF SoundInv, FilesInv
<1>11. \A g \in ConfigFiles :
           /\ file'[g] # Absent /\ Kept(g, file'[g], Facts)
           /\ Kept(g, tmp'[g], Facts) /\ Kept(g, archive'[g], Facts)
  <2>1. \A g \in ConfigFiles : /\ file[g] # Absent /\ Kept(g, file[g], Facts)
                               /\ Kept(g, tmp[g], Facts) /\ Kept(g, archive[g], Facts)
    BY DEF SoundInv, FilesInv
  <2>2. file' = file /\ tmp' = tmp
    BY <1>5
  <2> QED BY <1>10, <2>1, <2>2, Zenon
<1>12. FilesInv'
  BY <1>5, <1>8, <1>10, <1>11, FilesMove DEF SoundInv, FilesInv
<1> QED BY <1>9, <1>12 DEF SoundInv

\* A restore overwrites a file.
LEMMA OverwriteSound ==
  ASSUME SoundInv, NEW f \in ConfigFiles, NEW content, Kept(f, content, Facts), content # Absent,
         Changes(Cli, f, content), UNCHANGED <<tmp, archive>>,
         /\ DOMAIN proc' = Loaders /\ DOMAIN view' = Loaders
         /\ \A q \in Loaders : \/ proc'[q] = proc[q] /\ view'[q] = view[q]
                               \/ ProcSound(q, proc'[q], view'[q], Facts)
  PROVE  SoundInv'
<1>1. DOMAIN file = ConfigFiles
  BY DEF SoundInv, FilesInv
<1>2. /\ DOMAIN file' = ConfigFiles /\ file'[f] = content
      /\ \A g \in ConfigFiles \ {f} : file'[g] = file[g]
      /\ Grows(Facts, Facts')
  BY <1>1, ChangeGrows
<1>3. \A g \in ConfigFiles :
           /\ file'[g] # Absent /\ Kept(g, file'[g], Facts)
           /\ Kept(g, tmp'[g], Facts) /\ Kept(g, archive'[g], Facts)
  <2>1. \A g \in ConfigFiles : /\ file[g] # Absent /\ Kept(g, file[g], Facts)
                               /\ Kept(g, tmp[g], Facts) /\ Kept(g, archive[g], Facts)
    BY DEF SoundInv, FilesInv
  <2>2. tmp' = tmp /\ archive' = archive
    OBVIOUS
  <2>3. \A g \in ConfigFiles : file'[g] = file[g] \/ (g = f /\ file'[g] = content)
    BY <1>2
  <2> QED BY <2>1, <2>2, <2>3, Zenon
<1>4. FilesInv'
  BY <1>2, <1>3, FilesMove DEF SoundInv, FilesInv
<1>5. ProcsInv'
  BY <1>2, ProcsMove DEF SoundInv
<1> QED BY <1>4, <1>5 DEF SoundInv

LEMMA Restoring ==
  ASSUME SoundInv, NEW step \in {"empty", "fill"}, At(Cli, step)
  PROVE  /\ Cli \in Editors /\ Cli \in Loaders
         /\ ProcSound(Cli, proc[Cli], view[Cli], Facts) /\ ProcTyped(Cli, proc[Cli])
         /\ DOMAIN proc[Cli] = {"op", "step", "todo", "doc", "moved"} /\ proc[Cli].moved = FALSE
         /\ proc[Cli].todo \in Suffixes /\ proc[Cli].op = "restore" /\ First(Cli) \in ConfigFiles
<1>1. Cli \in Editors /\ Cli \in Loaders
  BY DEF Editors, Loaders
<1>2. ProcSound(Cli, proc[Cli], view[Cli], Facts) /\ ProcTyped(Cli, proc[Cli])
  BY <1>1 DEF SoundInv, ProcsInv, ProcSound
<1>3. /\ DOMAIN proc[Cli] = {"op", "step", "todo", "doc", "moved"} /\ proc[Cli].moved = FALSE
      /\ proc[Cli].todo \in Suffixes /\ proc[Cli].op = "restore"
  BY <1>2 DEF ProcTyped, Copies, Moving, At
<1> QED BY <1>1, <1>2, <1>3, SuffixSteps DEF First

LEMMA EmptySoundKept == ASSUME SoundInv, Empty(Cli) PROVE SoundInv'
<1>1. /\ Cli \in Editors /\ proc[Cli].op = "restore" /\ First(Cli) \in ConfigFiles
  BY Restoring DEF Empty
<1>2. /\ DOMAIN proc' = Loaders /\ DOMAIN view' = Loaders
      /\ \A q \in Loaders : \/ proc'[q] = proc[q] /\ view'[q] = view[q]
                            \/ ProcSound(q, proc'[q], view'[q], Facts)
  BY <1>1, GoesOn DEF Empty, At, Copies
<1>3. Kept(First(Cli), Torn, Facts) /\ Torn # Absent
  BY DocumentsAreWhole DEF Kept, Document
<1>4. Changes(Cli, First(Cli), Torn) /\ UNCHANGED <<tmp, archive>>
  BY DEF Empty, backups
<1> QED BY <1>1, <1>2, <1>3, <1>4, OverwriteSound

LEMMA FillSoundKept ==
  ASSUME SoundInv, \A f \in ConfigFiles : archive[f] # Absent, Fill(Cli)
  PROVE  SoundInv'
<1>1. /\ Cli \in Loaders
      /\ ProcSound(Cli, proc[Cli], view[Cli], Facts) /\ ProcTyped(Cli, proc[Cli])
      /\ DOMAIN proc[Cli] = {"op", "step", "todo", "doc", "moved"} /\ proc[Cli].moved = FALSE
      /\ proc[Cli].todo \in Suffixes /\ proc[Cli].op = "restore" /\ First(Cli) \in ConfigFiles
  BY Restoring DEF Fill
<1>2. Cli \in Editors /\ (Len(proc[Cli].todo) > 1 => Tail(proc[Cli].todo) \in Suffixes)
  BY <1>1, SuffixSteps DEF Editors
<1> DEFINE s == IF Len(proc[Cli].todo) > 1
                THEN [proc[Cli] EXCEPT !.step = "empty", !.todo = Tail(@)] ELSE Idle
<1>3. /\ proc'[Cli] = s /\ view' = view /\ DOMAIN proc' = Loaders /\ DOMAIN view' = Loaders
      /\ \A q \in Loaders \ {Cli} : proc'[q] = proc[q]
  <2>1. DOMAIN proc = Loaders /\ DOMAIN view = Loaders
    BY DEF SoundInv, ProcsInv
  <2>2. proc' = [proc EXCEPT ![Cli] = s] /\ view' = view
    BY DEF Fill
  <2> HIDE DEF s
  <2> QED BY <1>1, <2>1, <2>2
<1>4. ProcSound(Cli, s, view[Cli], Facts)
  <2>1. CASE Len(proc[Cli].todo) > 1
    <3>1. /\ DOMAIN s = {"op", "step", "todo", "doc", "moved"} /\ s.op = proc[Cli].op /\ s.step = "empty"
          /\ s.todo = Tail(proc[Cli].todo) /\ s.moved = FALSE
      BY <1>1, <2>1
    <3> HIDE DEF s
    <3>2. ProcTyped(Cli, s)
      BY <1>1, <1>2, <2>1, <3>1 DEF ProcTyped, Writes, Moving, Copies
    <3> QED BY <1>1, <3>1, <3>2, StepSound DEF Writes, Moving
  <2>2. CASE ~(Len(proc[Cli].todo) > 1)
    <3>1. s = Idle
      BY <2>2
    <3> HIDE DEF s
    <3>2. ProcTyped(Cli, s) /\ s.step = "idle"
      BY <3>1, IdleSound DEF ProcSound, Idle
    <3> QED BY <1>1, <3>2, StepSound DEF Writes, Moving
  <2> QED BY <2>1, <2>2
<1> HIDE DEF s
<1>5. Kept(First(Cli), archive[First(Cli)], Facts) /\ archive[First(Cli)] # Absent
  BY <1>1 DEF SoundInv, FilesInv
<1>6. Changes(Cli, First(Cli), archive[First(Cli)]) /\ UNCHANGED <<tmp, archive>>
  BY DEF Fill, backups
<1> QED BY <1>1, <1>3, <1>4, <1>5, <1>6, OverwriteSound

LEMMA CrashSoundKept == ASSUME SoundInv, NEW p \in Editors, Crash(p) PROVE SoundInv'
<1>1. /\ UNCHANGED <<file, tmp, gone>> /\ Ends(p) /\ p \in Loaders
      /\ archive' = archive \/ archive' = Nothing
  BY DEF Crash, history, Loaders
<1>2. Grows(Facts, Facts')
  BY <1>1, GrowsItself
<1>3. /\ DOMAIN proc' = Loaders /\ DOMAIN view' = Loaders
      /\ \A q \in Loaders : \/ proc'[q] = proc[q] /\ view'[q] = view[q]
                            \/ ProcSound(q, proc'[q], view'[q], Facts)
  BY <1>1, IdleSound DEF Ends, SoundInv, ProcsInv
<1>4. ProcsInv'
  BY <1>2, <1>3, ProcsMove DEF SoundInv
<1>5. DOMAIN archive' = ConfigFiles /\ \A g \in ConfigFiles : archive'[g] = archive[g] \/ archive'[g] = Absent
  BY <1>1 DEF SoundInv, FilesInv, Nothing
<1>6. \A g \in ConfigFiles :
           /\ file'[g] # Absent /\ Kept(g, file'[g], Facts)
           /\ Kept(g, tmp'[g], Facts) /\ Kept(g, archive'[g], Facts)
  <2>1. \A g \in ConfigFiles : /\ file[g] # Absent /\ Kept(g, file[g], Facts)
                               /\ Kept(g, tmp[g], Facts) /\ Kept(g, archive[g], Facts)
    BY DEF SoundInv, FilesInv
  <2>2. file' = file /\ tmp' = tmp
    BY <1>1
  <2>3. \A g \in ConfigFiles : Kept(g, Absent, Facts)
    BY DEF Kept, Document
  <2> QED BY <1>5, <2>1, <2>2, <2>3, Zenon
<1>7. FilesInv'
  BY <1>1, <1>2, <1>5, <1>6, FilesMove DEF SoundInv, FilesInv
<1> QED BY <1>4, <1>7 DEF SoundInv

-----------------------------------------------------------------------------
(* Configuration files: writers and the temporary file they share *)

\* A file that two processes have not opened at once is written by one of them, which puts
\* a whole document in place.
WriteInv ==
  \A p \in Editors :
    /\ proc[p].step \in Moving /\ TargetOf(p) \notin clashed =>
         /\ ~SharesTmp(p) /\ ~proc[p].moved
         /\ proc[p].step = "replace" => tmp[TargetOf(p)] # Torn
    /\ proc[p].step = "fill" => First(p) \in overwritten

LEMMA SharesTmpIs ==
  \A p \in Editors :
    SharesTmp(p) <=> \E q \in Editors \ {p} : proc[q].step \in Moving /\ TargetOf(q) = TargetOf(p)
BY DEF SharesTmp, Moving

\* A step that opens, writes and moves nothing.
LEMMA WriteQuiet ==
  ASSUME WriteInv, FilesWhole, NEW p, UNCHANGED <<file, tmp, clashed, overwritten>>,
         \A q \in Editors \ {p} : proc'[q] = proc[q],
         p \in Editors => proc'[p].step \notin Moving /\ proc'[p].step # "fill"
  PROVE  WriteInv' /\ FilesWhole'
<1>1. FilesWhole'
  BY DEF FilesWhole
<1>2. ASSUME NEW q \in Editors, proc'[q].step \in Moving \/ proc'[q].step = "fill"
      PROVE  proc'[q] = proc[q] /\ TargetOf(q)' = TargetOf(q) /\ First(q)' = First(q)
  BY <1>2 DEF TargetOf, First
<1>3. ASSUME NEW q \in Editors, proc'[q].step \in Moving, SharesTmp(q)' PROVE SharesTmp(q)
  <2>1. PICK r \in Editors \ {q} : proc'[r].step \in Moving /\ TargetOf(r)' = TargetOf(q)'
    BY <1>3 DEF SharesTmp, Moving
  <2>2. proc[r].step \in Moving /\ TargetOf(r) = TargetOf(q)
    BY <1>2, <1>3, <2>1
  <2> QED BY <2>1, <2>2, SharesTmpIs
<1>4. ASSUME NEW q \in Editors, proc'[q].step \in Moving, TargetOf(q)' \notin clashed'
      PROVE  /\ ~SharesTmp(q)' /\ ~proc'[q].moved
             /\ proc'[q].step = "replace" => tmp'[TargetOf(q)'] # Torn
  BY <1>2, <1>3, <1>4 DEF WriteInv
<1>5. ASSUME NEW q \in Editors, proc'[q].step = "fill" PROVE First(q)' \in overwritten'
  BY <1>2, <1>5 DEF WriteInv
<1> QED BY <1>1, <1>4, <1>5 DEF WriteInv

LEMMA OpenWhole ==
  ASSUME SoundInv, WriteInv, FilesWhole, NEW p \in Editors, Open(p)
  PROVE  WriteInv' /\ FilesWhole'
<1> DEFINE f == TargetOf(p)
<1>1. p \in Loaders /\ f \in ConfigFiles
  BY TargetIsFile DEF Loaders, TargetOf
<1>2. ~proc[p].moved
  BY <1>1 DEF SoundInv, ProcsInv, ProcSound, ProcTyped, Open, At, Moving
<1>3. DOMAIN proc = Loaders /\ DOMAIN proc[p] = {"op", "step", "todo", "doc", "moved"}
      /\ DOMAIN tmp = ConfigFiles
  BY <1>1 DEF SoundInv, ProcsInv, FilesInv, ProcSound, ProcTyped
<1>4. /\ proc'[p].op = proc[p].op /\ proc'[p].step = "write" /\ proc'[p].moved = proc[p].moved
      /\ \A q \in Editors \ {p} : proc'[q] = proc[q]
  BY <1>1, <1>3 DEF Open, Becomes, Loaders
<1>5. \A q \in Editors : TargetOf(q)' = TargetOf(q)
  BY <1>4 DEF TargetOf
<1>6. /\ tmp' = [tmp EXCEPT ![f] = Torn] /\ UNCHANGED <<file, overwritten>>
      /\ clashed \subseteq clashed' /\ (SharesTmp(p) => f \in clashed')
  BY DEF Open
<1> HIDE DEF f
<1>7. ASSUME NEW q \in Editors, proc'[q].step \in Moving, TargetOf(q) \notin clashed'
      PROVE  /\ ~SharesTmp(q)' /\ ~proc'[q].moved
             /\ proc'[q].step = "replace" => tmp'[TargetOf(q)] # Torn
  <2>1. CASE q = p
    <3>1. ~SharesTmp(p)
      BY <1>6, <1>7, <2>1 DEF f
    <3>2. ~SharesTmp(p)'
      BY <1>4, <1>5, <3>1 DEF SharesTmp
    <3> QED BY <1>2, <1>4, <2>1, <3>2
  <2>2. CASE q # p
    <3>1. TargetOf(q) # f
      BY <1>4, <1>6, <1>7, <2>2, SharesTmpIs DEF f
    <3>2. /\ proc[q] = proc'[q] /\ ~SharesTmp(q) /\ ~proc[q].moved
          /\ proc[q].step = "replace" => tmp[TargetOf(q)] # Torn
      BY <1>4, <1>6, <1>7, <2>2 DEF WriteInv
    <3>3. ~SharesTmp(q)'
      <4>1. SUFFICES ASSUME NEW r \in Editors \ {q}, proc'[r].step \in Moving, TargetOf(r) = TargetOf(q)
                     PROVE  FALSE
        BY <1>5 DEF SharesTmp, Moving
      <4>2. r # p
        BY <3>1, <4>1 DEF f
      <4> QED BY <1>4, <3>2, <4>1, <4>2, SharesTmpIs
    <3>4. tmp'[TargetOf(q)] = tmp[TargetOf(q)]
      BY <1>6, <3>1
    <3> QED BY <3>2, <3>3, <3>4
  <2> QED BY <2>1, <2>2
<1>8. ASSUME NEW q \in Editors, proc'[q].step = "fill" PROVE First(q)' \in overwritten'
  <2>1. proc'[q] = proc[q]
    BY <1>4, <1>8
  <2> QED BY <1>6, <1>8, <2>1 DEF WriteInv, First
<1>9. WriteInv'
  BY <1>5, <1>7, <1>8 DEF WriteInv
<1>10. FilesWhole'
  BY <1>6 DEF FilesWhole
<1> QED BY <1>9, <1>10

LEMMA WriteTmpWhole ==
  ASSUME SoundInv, WriteInv, FilesWhole, NEW p \in Editors, WriteTmp(p)
  PROVE  WriteInv' /\ FilesWhole'
<1> DEFINE f == TargetOf(p)
<1>1. p \in Loaders /\ f \in ConfigFiles /\ proc[p].step = "write"
  BY TargetIsFile DEF Loaders, TargetOf, WriteTmp, At
<1>2. Document(proc[p].doc)
  <2>1. proc[p].doc \in Documents(f)
    BY <1>1 DEF SoundInv, ProcsInv, ProcSound, ProcTyped, Writes, Moving, TargetOf
  <2> QED BY <1>1, <2>1, DocumentsAreWhole
<1>3. DOMAIN proc = Loaders /\ DOMAIN proc[p] = {"op", "step", "todo", "doc", "moved"}
      /\ DOMAIN tmp = ConfigFiles /\ DOMAIN file = ConfigFiles
  BY <1>1 DEF SoundInv, ProcsInv, FilesInv, ProcSound, ProcTyped
<1>4. /\ proc'[p].op = proc[p].op /\ proc'[p].step = "replace" /\ proc'[p].moved = proc[p].moved
      /\ \A q \in Editors \ {p} : proc'[q] = proc[q]
  BY <1>1, <1>3 DEF WriteTmp, Becomes, Loaders
<1>5. \A q \in Editors : TargetOf(q)' = TargetOf(q)
  BY <1>4 DEF TargetOf
<1>6. UNCHANGED <<clashed, overwritten>>
  BY DEF WriteTmp
<1>7. PICK content \in {proc[p].doc} \cup (IF f \in clashed THEN {Torn} ELSE {}) :
         IF proc[p].moved
         THEN Changes(p, f, content) /\ UNCHANGED tmp
         ELSE /\ tmp' = [tmp EXCEPT ![f] = content]
              /\ UNCHANGED <<file, gone, grown, undo>>
  BY DEF WriteTmp
<1> HIDE DEF f
<1>8. f \notin clashed => /\ ~SharesTmp(p) /\ ~proc[p].moved /\ content # Torn
                          /\ tmp'[f] # Torn /\ file' = file
  <2>1. f \notin clashed => ~SharesTmp(p) /\ ~proc[p].moved
    BY <1>1 DEF WriteInv, f, Moving
  <2>2. f \notin clashed => content # Torn
    BY <1>2, <1>7 DEF Document
  <2> QED BY <1>1, <1>3, <1>7, <2>1, <2>2
<1>9. \A g \in ConfigFiles \ {f} : file'[g] = file[g] /\ tmp'[g] = tmp[g]
  <2>1. CASE proc[p].moved
    <3>1. Changes(p, f, content) /\ tmp' = tmp
      BY <1>7, <2>1
    <3> QED BY <1>1, <1>3, <3>1, ChangeGrows
  <2>2. CASE ~proc[p].moved
    <3>1. tmp' = [tmp EXCEPT ![f] = content] /\ file' = file
      BY <1>7, <2>2
    <3> QED BY <1>3, <3>1
  <2> QED BY <2>1, <2>2
<1>10. FilesWhole'
  BY <1>6, <1>8, <1>9 DEF FilesWhole
<1>11. ASSUME NEW q \in Editors, proc'[q].step \in Moving, TargetOf(q) \notin clashed'
       PROVE  /\ ~SharesTmp(q)' /\ ~proc'[q].moved
              /\ proc'[q].step = "replace" => tmp'[TargetOf(q)] # Torn
  <2>1. proc[q].step \in Moving /\ proc'[q].moved = proc[q].moved
    BY <1>1, <1>4, <1>11 DEF Moving
  <2>2. ~SharesTmp(q) /\ ~proc[q].moved
    BY <1>6, <1>11, <2>1 DEF WriteInv
  <2>3. ~SharesTmp(q)'
    <3>1. \A r \in Editors : proc'[r].step \in Moving => proc[r].step \in Moving
      BY <1>1, <1>4 DEF Moving
    <3> QED BY <1>5, <2>2, <3>1 DEF SharesTmp, Moving
  <2>4. CASE q = p
    BY <1>6, <1>8, <1>11, <2>1, <2>2, <2>3, <2>4 DEF f
  <2>5. CASE q # p
    <3>1. TargetOf(q) # f
      BY <1>1, <2>2, <2>5, SharesTmpIs DEF f, Moving
    <3>2. TargetOf(q) \in ConfigFiles /\ proc'[q] = proc[q]
      BY <1>4, <2>5, TargetIsFile DEF TargetOf
    <3>3. proc[q].step = "replace" => tmp[TargetOf(q)] # Torn
      BY <1>6, <1>11, <2>1 DEF WriteInv
    <3> QED BY <1>9, <2>1, <2>2, <2>3, <3>1, <3>2, <3>3
  <2> QED BY <2>4, <2>5
<1>12. ASSUME NEW q \in Editors, proc'[q].step = "fill" PROVE First(q)' \in overwritten'
  <2>1. proc'[q] = proc[q]
    BY <1>4, <1>12
  <2> QED BY <1>6, <1>12, <2>1 DEF WriteInv, First
<1>13. WriteInv'
  BY <1>5, <1>11, <1>12 DEF WriteInv
<1> QED BY <1>10, <1>13

LEMMA ReplaceWhole ==
  ASSUME SoundInv, WriteInv, FilesWhole, NEW p \in Editors, Replace(p)
  PROVE  WriteInv' /\ FilesWhole'
<1> DEFINE f == TargetOf(p)
<1>1. p \in Loaders /\ f \in ConfigFiles /\ proc[p].step = "replace" /\ Editors \subseteq Loaders
  BY TargetIsFile DEF Loaders, TargetOf, Replace, At
<1>2. DOMAIN proc = Loaders /\ DOMAIN tmp = ConfigFiles /\ DOMAIN file = ConfigFiles
      /\ \A q \in Loaders : DOMAIN proc[q] = {"op", "step", "todo", "doc", "moved"}
  BY DEF SoundInv, ProcsInv, FilesInv, ProcSound, ProcTyped
<1>3. \A q \in Loaders : proc'[q] = IF q = p THEN Idle
                                    ELSE IF At(q, "write") /\ TargetOf(q) = f
                                    THEN [proc[q] EXCEPT !.moved = TRUE] ELSE proc[q]
  BY DEF Replace
<1>4. UNCHANGED <<clashed, overwritten>>
  BY DEF Replace
<1>5. IF tmp[f] = Absent
      THEN UNCHANGED <<file, tmp, gone, grown, undo>>
      ELSE Changes(p, f, tmp[f]) /\ tmp' = [tmp EXCEPT ![f] = Absent]
  BY DEF Replace
<1>6. f \notin clashed => ~SharesTmp(p) /\ tmp[f] # Torn
  BY <1>1 DEF WriteInv, Moving
<1>7. ASSUME NEW q \in Editors \ {p}
      PROVE  /\ proc'[q].step = proc[q].step /\ proc'[q].op = proc[q].op /\ proc'[q].todo = proc[q].todo
             /\ proc'[q] = proc[q] \/ (At(q, "write") /\ TargetOf(q) = f)
  <2>1. q \in Loaders /\ DOMAIN proc[q] = {"op", "step", "todo", "doc", "moved"}
    BY <1>1, <1>2
  <2> HIDE DEF f
  <2> QED BY <1>3, <2>1
<1>8. proc'[p].step = "idle" /\ proc'[p] = Idle
  <2>1. proc'[p] = Idle
    <3> HIDE DEF f
    <3> QED BY <1>1, <1>3
  <2> QED BY <2>1 DEF Idle
<1> HIDE DEF f
<1>9. \A g \in ConfigFiles \ {f} : file'[g] = file[g] /\ tmp'[g] = tmp[g]
  <2>1. CASE tmp[f] = Absent
    BY <1>5, <2>1
  <2>2. CASE tmp[f] # Absent
    <3>1. Changes(p, f, tmp[f]) /\ tmp' = [tmp EXCEPT ![f] = Absent]
      BY <1>5, <2>2
    <3> QED BY <1>1, <1>2, <3>1, ChangeGrows
  <2> QED BY <2>1, <2>2
<1>10. file'[f] = file[f] \/ file'[f] = tmp[f]
  <2>1. CASE tmp[f] = Absent
    BY <1>5, <2>1
  <2>2. CASE tmp[f] # Absent
    <3>1. Changes(p, f, tmp[f])
      BY <1>5, <2>2
    <3> QED BY <1>1, <1>2, <3>1, ChangeGrows
  <2> QED BY <2>1, <2>2
<1>11. FilesWhole'
  BY <1>4, <1>6, <1>9, <1>10 DEF FilesWhole
<1>12. ASSUME NEW q \in Editors, proc'[q].step \in Moving, TargetOf(q)' \notin clashed'
       PROVE  /\ ~SharesTmp(q)' /\ ~proc'[q].moved
              /\ proc'[q].step = "replace" => tmp'[TargetOf(q)'] # Torn
  <2>1. q # p /\ proc[q].step \in Moving /\ TargetOf(q)' = TargetOf(q)
    BY <1>7, <1>8, <1>12 DEF Moving, TargetOf
  <2>2. /\ ~SharesTmp(q) /\ ~proc[q].moved
        /\ proc[q].step = "replace" => tmp[TargetOf(q)] # Torn
    BY <1>4, <1>12, <2>1 DEF WriteInv
  <2>3. TargetOf(q) # f
    BY <1>1, <2>1, <2>2, SharesTmpIs DEF f, Moving
  <2>4. proc'[q] = proc[q] /\ TargetOf(q) \in ConfigFiles
    BY <1>7, <2>1, <2>3, TargetIsFile DEF TargetOf
  <2>5. ~SharesTmp(q)'
    <3>1. SUFFICES ASSUME NEW r \in Editors \ {q}, proc'[r].step \in Moving, TargetOf(r)' = TargetOf(q)'
                   PROVE  FALSE
      BY DEF SharesTmp, Moving
    <3>2. r # p /\ proc[r].step \in Moving /\ TargetOf(r) = TargetOf(q)
      BY <1>7, <1>8, <2>1, <3>1 DEF Moving, TargetOf
    <3> QED BY <2>2, <3>1, <3>2, SharesTmpIs
  <2> QED BY <1>9, <2>1, <2>2, <2>3, <2>4, <2>5
<1>13. ASSUME NEW q \in Editors, proc'[q].step = "fill" PROVE First(q)' \in overwritten'
  <2>1. q # p /\ proc[q].step = "fill" /\ First(q)' = First(q)
    BY <1>7, <1>8, <1>13 DEF First
  <2> QED BY <1>4, <2>1 DEF WriteInv
<1>14. WriteInv'
  BY <1>12, <1>13 DEF WriteInv
<1> QED BY <1>11, <1>14

LEMMA OverwriteWhole ==
  ASSUME SoundInv, WriteInv, FilesWhole, NEW f \in ConfigFiles, NEW content,
         Changes(Cli, f, content), f \in overwritten', overwritten \subseteq overwritten',
         UNCHANGED <<tmp, clashed>>,
         \A q \in Editors \ {Cli} : proc'[q] = proc[q],
         proc'[Cli].step \notin Moving, proc'[Cli].step = "fill" => First(Cli)' = f
  PROVE  WriteInv' /\ FilesWhole'
<1>1. DOMAIN file = ConfigFiles
  BY DEF SoundInv, FilesInv
<1>2. \A g \in ConfigFiles \ {f} : file'[g] = file[g]
  BY <1>1, ChangeGrows
<1>3. FilesWhole'
  BY <1>2 DEF FilesWhole
<1>4. ASSUME NEW q \in Editors, proc'[q].step \in Moving
      PROVE  q # Cli /\ proc'[q] = proc[q] /\ TargetOf(q)' = TargetOf(q)
  BY <1>4 DEF TargetOf
<1>5. ASSUME NEW q \in Editors, proc'[q].step \in Moving, SharesTmp(q)' PROVE SharesTmp(q)
  <2>1. PICK r \in Editors \ {q} : proc'[r].step \in Moving /\ TargetOf(r)' = TargetOf(q)'
    BY <1>5 DEF SharesTmp, Moving
  <2>2. proc[r].step \in Moving /\ TargetOf(r) = TargetOf(q)
    BY <1>4, <1>5, <2>1
  <2> QED BY <2>1, <2>2, SharesTmpIs
<1>6. ASSUME NEW q \in Editors, proc'[q].step \in Moving, TargetOf(q)' \notin clashed'
      PROVE  /\ ~SharesTmp(q)' /\ ~proc'[q].moved
             /\ proc'[q].step = "replace" => tmp'[TargetOf(q)'] # Torn
  BY <1>4, <1>5, <1>6 DEF WriteInv
<1>7. ASSUME NEW q \in Editors, proc'[q].step = "fill" PROVE First(q)' \in overwritten'
  <2>1. CASE q = Cli
    BY <1>7, <2>1
  <2>2. CASE q # Cli
    BY <1>7, <2>2 DEF WriteInv, First
  <2> QED BY <2>1, <2>2
<1>8. WriteInv'
  BY <1>6, <1>7 DEF WriteInv
<1> QED BY <1>3, <1>8

LEMMA EmptyWhole ==
  ASSUME SoundInv, WriteInv, FilesWhole, Empty(Cli)
  PROVE  WriteInv' /\ FilesWhole'
<1>1. Cli \in Loaders /\ First(Cli) \in ConfigFiles
      /\ DOMAIN proc[Cli] = {"op", "step", "todo", "doc", "moved"} /\ DOMAIN proc = Loaders
  BY Restoring DEF Empty, SoundInv, ProcsInv
<1>2. /\ proc'[Cli].step = "fill" /\ proc'[Cli].todo = proc[Cli].todo
      /\ \A q \in Editors \ {Cli} : proc'[q] = proc[q]
  BY <1>1 DEF Empty, Becomes, Loaders
<1>3. First(Cli)' = First(Cli)
  BY <1>2 DEF First
<1>4. /\ Changes(Cli, First(Cli), Torn) /\ overwritten' = overwritten \cup {First(Cli)}
      /\ UNCHANGED <<tmp, clashed>>
  BY DEF Empty
<1> QED BY <1>1, <1>2, <1>3, <1>4, OverwriteWhole DEF Moving

LEMMA FillWhole ==
  ASSUME SoundInv, WriteInv, FilesWhole, Fill(Cli)
  PROVE  WriteInv' /\ FilesWhole'
<1>1. Cli \in Loaders /\ Cli \in Editors /\ First(Cli) \in ConfigFiles /\ proc[Cli].step = "fill"
      /\ DOMAIN proc[Cli] = {"op", "step", "todo", "doc", "moved"} /\ DOMAIN proc = Loaders
  BY Restoring DEF Fill, SoundInv, ProcsInv, At
<1>2. First(Cli) \in overwritten
  BY <1>1 DEF WriteInv
<1> DEFINE s == IF Len(proc[Cli].todo) > 1
                THEN [proc[Cli] EXCEPT !.step = "empty", !.todo = Tail(@)] ELSE Idle
<1>3. proc' = [proc EXCEPT ![Cli] = s]
  BY DEF Fill
<1>4. s.step \in {"empty", "idle"}
  BY <1>1 DEF Idle
<1> HIDE DEF s
<1>5. proc'[Cli].step \in {"empty", "idle"} /\ \A q \in Editors \ {Cli} : proc'[q] = proc[q]
  BY <1>1, <1>3, <1>4 DEF Loaders
<1>6. Changes(Cli, First(Cli), archive[First(Cli)]) /\ UNCHANGED <<tmp, clashed, overwritten>>
  BY DEF Fill
<1> QED BY <1>1, <1>2, <1>5, <1>6, OverwriteWhole DEF Moving

-----------------------------------------------------------------------------
(* Configuration files: backup and restore *)

IsTable(f) == f = [g \in ConfigFiles |-> f[g]]

Complete == \A f \in ConfigFiles : archive[f] # Absent

\* Whoever restores has an archive that no backup is at work on, and while no other process
\* changes a file, the snapshot is what the files were.
RestoreInv ==
  /\ IsTable(file) /\ IsTable(safety) /\ IsTable(before)
  /\ undo \in {"none", "taking", "valid", "void"}
  /\ \A p \in Editors : proc[p].op = "backup" => archive["orgs"] = Absent
  /\ \A p, q \in Editors : proc[p].op = "backup" /\ proc[q].op = "backup" => p = q
  /\ proc[Cli].op = "restore" => undo # "none" /\ Complete
  /\ undo \in {"taking", "valid"} => Complete
  /\ undo = "taking" =>
       /\ file = before
       /\ At(Cli, "copy") => \A f \in ConfigFiles \ Left(proc[Cli].todo) : safety[f] = file[f]
       /\ At(Cli, "empty") => safety = file
       /\ ~At(Cli, "fill")
  /\ undo = "valid" => ~At(Cli, "copy") /\ WayBack

Aside(q) == proc'[q].op \notin {"backup", "restore"} /\ proc'[q].step \notin Copies

\* A step of a process that neither makes a backup nor restores one.
LEMMA RestoreQuiet ==
  ASSUME RestoreInv, UNCHANGED <<archive, safety, before>>, IsTable(file'),
         UNCHANGED <<file, undo>> \/ undo' = "void",
         \A q \in Editors : \/ Aside(q)
                            \/ /\ proc'[q].op = proc[q].op /\ proc'[q].step = proc[q].step
                               /\ proc'[q].todo = proc[q].todo
  PROVE  RestoreInv'
<1>1. Cli \in Editors /\ (Complete' <=> Complete)
  BY DEF Editors, Complete
<1>2. IsTable(file)' /\ IsTable(safety)' /\ IsTable(before)' /\ undo' \in {"none", "taking", "valid", "void"}
  BY DEF RestoreInv, IsTable
<1>3. \A p \in Editors : proc'[p].op \in {"backup", "restore"} => proc'[p].op = proc[p].op
  BY DEF Aside
<1>4. /\ \A p \in Editors : proc'[p].op = "backup" => archive'["orgs"] = Absent
      /\ \A p, q \in Editors : proc'[p].op = "backup" /\ proc'[q].op = "backup" => p = q
  BY <1>3 DEF RestoreInv
<1>5. proc'[Cli].op = "restore" => undo' # "none" /\ Complete'
  BY <1>1, <1>3 DEF RestoreInv
<1>6. undo' \in {"taking", "valid"} => /\ Complete' /\ file' = file /\ undo' = undo
  BY <1>1 DEF RestoreInv
<1>7. proc'[Cli].step \in Copies => proc'[Cli].step = proc[Cli].step /\ proc'[Cli].todo = proc[Cli].todo
  BY <1>1 DEF Aside
<1>8. undo' = "taking" =>
       /\ file' = before'
       /\ At(Cli, "copy")' => \A f \in ConfigFiles \ Left(proc'[Cli].todo) : safety'[f] = file'[f]
       /\ At(Cli, "empty")' => safety' = file'
       /\ ~At(Cli, "fill")'
  BY <1>6, <1>7 DEF RestoreInv, At, Copies
<1>9. undo' = "valid" => ~At(Cli, "copy")' /\ WayBack'
  <2>1. undo' = "valid" => file' = file /\ undo = "valid" /\ WayBack /\ ~At(Cli, "copy")
    BY <1>6 DEF RestoreInv
  <2>2. undo' = "valid" => WayBack'
    BY <2>1 DEF WayBack
  <2> QED BY <1>7, <2>1, <2>2 DEF At, Copies
<1>10. (Left(proc[Cli].todo))' = Left(proc'[Cli].todo)
  BY DEF Left
<1> QED BY <1>2, <1>4, <1>5, <1>6, <1>8, <1>9, <1>10 DEF RestoreInv

LEMMA BackupRestores ==
  ASSUME SoundInv, RestoreInv, NEW p \in Editors, Backup(p)
  PROVE  RestoreInv'
<1>1. /\ UNCHANGED <<file, archive, safety, before, undo>> /\ archive = Nothing
      /\ \A q \in Editors : proc[q].op # "backup"
  BY DEF Backup, backups, history
<1>2. p \in Loaders /\ DOMAIN proc = Loaders /\ Editors \subseteq Loaders /\ Cli \in Editors
  BY DEF Loaders, Editors, SoundInv, ProcsInv
<1>3. proc'[p].op = "backup" /\ \A q \in Editors \ {p} : proc'[q] = proc[q]
  BY <1>2 DEF Backup, BeginCopy, Idle
<1>4. ~Complete /\ archive["orgs"] = Absent
  BY <1>1 DEF Complete, Nothing, ConfigFiles
<1>5. /\ IsTable(file)' /\ IsTable(safety)' /\ IsTable(before)'
      /\ undo' \in {"none", "void"}
  BY <1>1, <1>4 DEF RestoreInv, IsTable
<1>6. \A q \in Editors : proc'[q].op = "backup" => q = p
  BY <1>1, <1>3
<1>7. proc'[Cli].op # "restore"
  BY <1>2, <1>3, <1>4 DEF RestoreInv
<1> QED BY <1>1, <1>4, <1>5, <1>6, <1>7 DEF RestoreInv

LEMMA RestoreBegins ==
  ASSUME SoundInv, RestoreInv, Restore(Cli)
  PROVE  RestoreInv'
<1>1. /\ file' = file /\ archive' = archive /\ safety' = Nothing /\ before' = file /\ undo' = "taking"
      /\ Complete
  BY DEF Restore, Complete
<1>2. Cli \in Loaders /\ DOMAIN proc = Loaders /\ Editors \subseteq Loaders
  BY DEF Loaders, Editors, SoundInv, ProcsInv
<1>3. /\ proc'[Cli].op = "restore" /\ proc'[Cli].step = "copy" /\ proc'[Cli].todo = ArchiveOrder
      /\ \A q \in Editors \ {Cli} : proc'[q] = proc[q]
  BY <1>2 DEF Restore, BeginCopy, Idle
<1>4. IsTable(file)' /\ IsTable(safety)' /\ IsTable(before)' /\ Complete'
  BY <1>1 DEF RestoreInv, IsTable, Nothing, Complete
<1>5. \A q \in Editors : proc'[q].op # "backup"
  <2>1. archive["orgs"] # Absent
    BY <1>1 DEF Complete, ConfigFiles
  <2> QED BY <1>3, <2>1 DEF RestoreInv
<1>6. ConfigFiles \ Left(proc'[Cli].todo) = {} /\ (Left(proc[Cli].todo))' = Left(proc'[Cli].todo)
  BY <1>3, WholeArchive DEF Left
<1> QED BY <1>1, <1>3, <1>4, <1>5, <1>6 DEF RestoreInv, At

\* A member of the archive is copied.
LEMMA Copying ==
  ASSUME SoundInv, NEW p \in Editors, Copy(p)
  PROVE  /\ p \in Loaders /\ proc[p].step = "copy" /\ proc[p].todo \in Suffixes
         /\ First(p) \in ConfigFiles /\ DOMAIN archive = ConfigFiles
         /\ proc[p].op = "backup" \/ (proc[p].op = "restore" /\ p = Cli)
         /\ \A q \in Editors \ {p} : proc'[q] = proc[q]
         /\ Len(proc[p].todo) > 1 => /\ proc'[p].op = proc[p].op /\ proc'[p].step = "copy"
                                     /\ proc'[p].todo = Tail(proc[p].todo)
         /\ ~(Len(proc[p].todo) > 1) =>
              /\ proc[p].op = "backup" => proc'[p] = Idle
              /\ proc[p].op # "backup" => /\ proc'[p].op = proc[p].op /\ proc'[p].step = "empty"
                                          /\ proc'[p].todo = ArchiveOrder
<1>1. p \in Loaders /\ Editors \subseteq Loaders /\ proc[p].step = "copy"
  BY DEF Loaders, Copy, At
<1>2. ProcTyped(p, proc[p]) /\ DOMAIN proc = Loaders /\ DOMAIN archive = ConfigFiles
  BY <1>1 DEF SoundInv, ProcsInv, ProcSound, FilesInv
<1>3. /\ proc[p].todo \in Suffixes /\ DOMAIN proc[p] = {"op", "step", "todo", "doc", "moved"}
      /\ proc[p].op = "backup" \/ (proc[p].op = "restore" /\ p = Cli)
  BY <1>1, <1>2 DEF ProcTyped, Copies
<1>4. First(p) \in ConfigFiles
  BY <1>3, SuffixSteps DEF First
<1> DEFINE t == IF Len(proc[p].todo) > 1 THEN [proc[p] EXCEPT !.todo = Tail(@)]
                ELSE IF proc[p].op = "backup" THEN Idle
                ELSE [proc[p] EXCEPT !.step = "empty", !.todo = ArchiveOrder]
<1>5. proc' = [proc EXCEPT ![p] = t]
  BY DEF Copy
<1>6. /\ Len(proc[p].todo) > 1 => t.op = proc[p].op /\ t.step = "copy" /\ t.todo = Tail(proc[p].todo)
      /\ ~(Len(proc[p].todo) > 1) =>
              /\ proc[p].op = "backup" => t = Idle
              /\ proc[p].op # "backup" => /\ t.op = proc[p].op /\ t.step = "empty"
                                          /\ t.todo = ArchiveOrder
  BY <1>1, <1>3
<1> HIDE DEF t
<1>7. proc'[p] = t /\ \A q \in Editors \ {p} : proc'[q] = proc[q]
  BY <1>1, <1>2, <1>5
<1> QED BY <1>1, <1>2, <1>3, <1>4, <1>6, <1>7

LEMMA BackupCopies ==
  ASSUME SoundInv, RestoreInv, NEW p \in Editors, Copy(p), proc[p].op = "backup"
  PROVE  RestoreInv'
<1> DEFINE f == First(p)
<1>1. /\ proc[p].todo \in Suffixes /\ f \in ConfigFiles /\ DOMAIN archive = ConfigFiles
      /\ \A q \in Editors \ {p} : proc'[q] = proc[q]
      /\ Len(proc[p].todo) > 1 => proc'[p].op = "backup"
      /\ ~(Len(proc[p].todo) > 1) => proc'[p] = Idle
  BY Copying
<1>2. /\ UNCHANGED <<file, safety, before, undo>> /\ archive' = [archive EXCEPT ![f] = file[f]]
  BY DEF Copy, history
<1>3. archive["orgs"] = Absent /\ ~Complete /\ Cli \in Editors
  BY DEF RestoreInv, Complete, ConfigFiles, Editors
<1>4. /\ IsTable(file)' /\ IsTable(safety)' /\ IsTable(before)'
      /\ undo' \in {"none", "void"}
  BY <1>2, <1>3 DEF RestoreInv, IsTable
<1>5. \A q \in Editors : proc'[q].op = "backup" => q = p
  BY <1>1 DEF RestoreInv
<1>6. proc'[p].op = "backup" => archive'["orgs"] = Absent
  <2>1. Len(proc[p].todo) > 1 => f # "orgs"
    BY <1>1, SuffixSteps DEF First
  <2>2. Idle.op # "backup"
    BY DEF Idle
  <2> HIDE DEF f
  <2> QED BY <1>1, <1>2, <1>3, <2>1, <2>2 DEF ConfigFiles
<1>7. proc'[Cli].op # "restore"
  <2>1. proc[Cli].op # "restore"
    BY <1>3 DEF RestoreInv
  <2>2. Idle.op # "restore"
    BY DEF Idle
  <2> QED BY <1>1, <1>3, <2>1, <2>2
<1> QED BY <1>4, <1>5, <1>6, <1>7 DEF RestoreInv

LEMMA RestoreCopies ==
  ASSUME SoundInv, RestoreInv, NEW p \in Editors, Copy(p), proc[p].op # "backup"
  PROVE  RestoreInv'
<1> DEFINE f == First(Cli)
<1>1. /\ p = Cli /\ proc[Cli].op = "restore" /\ proc[Cli].step = "copy" /\ proc[Cli].todo \in Suffixes
      /\ f \in ConfigFiles
      /\ \A q \in Editors \ {Cli} : proc'[q] = proc[q]
      /\ proc'[Cli].op = "restore"
      /\ Len(proc[Cli].todo) > 1 => proc'[Cli].step = "copy" /\ proc'[Cli].todo = Tail(proc[Cli].todo)
      /\ ~(Len(proc[Cli].todo) > 1) => proc'[Cli].step = "empty"
  BY Copying
<1>2. /\ UNCHANGED <<file, archive, before, undo>> /\ safety' = [safety EXCEPT ![f] = file[f]]
  BY <1>1 DEF Copy, history
<1>3. Complete /\ Complete' /\ undo \in {"taking", "void"}
  BY <1>1, <1>2 DEF RestoreInv, Complete, At
<1>4. IsTable(file)' /\ IsTable(before)' /\ IsTable(safety)'
  <2>1. IsTable(file)' /\ IsTable(before)'
    BY <1>2 DEF RestoreInv, IsTable
  <2> HIDE DEF f
  <2>2. safety = [g \in ConfigFiles |-> safety[g]]
    BY DEF RestoreInv, IsTable
  <2>3. DOMAIN safety = ConfigFiles
    BY <2>2
  <2>4. safety' = [g \in ConfigFiles |-> IF g = f THEN file[f] ELSE safety[g]]
    BY <1>1, <1>2, <2>2, <2>3
  <2>5. safety' = [g \in ConfigFiles |-> safety'[g]]
    BY <2>4
  <2> QED BY <2>1, <2>5 DEF IsTable
<1>5. \A q \in Editors : proc'[q].op # "backup"
  <2>1. \A q \in Editors : proc[q].op # "backup"
    BY <1>3 DEF RestoreInv, Complete, ConfigFiles
  <2> QED BY <1>1, <2>1
<1>6. ASSUME undo = "taking"
      PROVE  /\ \A g \in ConfigFiles \ Left(proc[Cli].todo) : safety[g] = file[g]
             /\ file = before
  BY <1>1, <1>6 DEF RestoreInv, At
<1>7. /\ safety'[f] = file[f] /\ \A g \in ConfigFiles \ {f} : safety'[g] = safety[g]
  <2>1. DOMAIN safety = ConfigFiles
    BY DEF RestoreInv, IsTable
  <2> HIDE DEF f
  <2> QED BY <1>1, <1>2, <2>1
<1>8. ASSUME undo = "taking", Len(proc[Cli].todo) > 1
      PROVE  \A g \in ConfigFiles \ Left(proc'[Cli].todo) : safety'[g] = file'[g]
  <2>1. \A g : g \in Left(proc[Cli].todo) => g = f \/ g \in Left(Tail(proc[Cli].todo))
    BY <1>1, <1>8, SuffixSteps DEF First
  <2> HIDE DEF f
  <2> QED BY <1>1, <1>2, <1>6, <1>7, <1>8, <2>1
<1>9. ASSUME undo = "taking", ~(Len(proc[Cli].todo) > 1)
      PROVE  safety' = file'
  <2>1. \A g \in Left(proc[Cli].todo) : g = f
    BY <1>1, <1>9, SuffixSteps DEF First
  <2> HIDE DEF f
  <2>2. \A g \in ConfigFiles : safety'[g] = file'[g]
    BY <1>2, <1>6, <1>7, <1>9, <2>1
  <2>3. safety' = [g \in ConfigFiles |-> safety'[g]] /\ file' = [g \in ConfigFiles |-> file'[g]]
    BY <1>4 DEF IsTable
  <2> QED BY <2>2, <2>3
<1>10. (Left(proc[Cli].todo))' = Left(proc'[Cli].todo)
  BY DEF Left
<1>11. undo' = "taking" =>
       /\ file' = before'
       /\ At(Cli, "copy")' => \A g \in ConfigFiles \ Left(proc'[Cli].todo) : safety'[g] = file'[g]
       /\ At(Cli, "empty")' => safety' = file'
       /\ ~At(Cli, "fill")'
  BY <1>1, <1>2, <1>6, <1>8, <1>9 DEF At
<1> QED BY <1>2, <1>3, <1>4, <1>5, <1>10, <1>11 DEF RestoreInv

LEMMA EmptyRestores ==
  ASSUME SoundInv, RestoreInv, Empty(Cli)
  PROVE  RestoreInv'
<1> DEFINE f == First(Cli)
<1>1. /\ Cli \in Loaders /\ proc[Cli].op = "restore" /\ f \in ConfigFiles /\ proc[Cli].step = "empty"
      /\ DOMAIN proc[Cli] = {"op", "step", "todo", "doc", "moved"} /\ DOMAIN proc = Loaders
      /\ Editors \subseteq Loaders
  BY Restoring DEF Empty, SoundInv, ProcsInv, Loaders, At
<1>2. /\ proc'[Cli].step = "fill" /\ proc'[Cli].op = "restore"
      /\ \A q \in Editors \ {Cli} : proc'[q] = proc[q]
  BY <1>1 DEF Empty, Becomes
<1>3. /\ UNCHANGED <<archive, safety, before>> /\ file' = [file EXCEPT ![f] = Torn]
      /\ undo' = IF undo = "taking" THEN "valid" ELSE undo
  BY <1>1 DEF Empty, backups, Changes
<1>4. Complete /\ Complete' /\ undo \in {"taking", "valid", "void"}
  BY <1>1, <1>3 DEF RestoreInv, Complete
<1>5. /\ file = [g \in ConfigFiles |-> file[g]]
      /\ safety = [g \in ConfigFiles |-> safety[g]] /\ before = [g \in ConfigFiles |-> before[g]]
  BY DEF RestoreInv, IsTable
<1> HIDE DEF f
<1>6. file' = [g \in ConfigFiles |-> IF g = f THEN Torn ELSE file[g]]
  BY <1>1, <1>3, <1>5
<1>7. IsTable(file)' /\ IsTable(before)' /\ IsTable(safety)'
  <2>1. file' = [g \in ConfigFiles |-> file'[g]]
    BY <1>6
  <2> QED BY <1>3, <1>5, <2>1 DEF IsTable
<1>8. \A q \in Editors : proc'[q].op # "backup"
  <2>1. \A q \in Editors : proc[q].op # "backup"
    BY <1>4 DEF RestoreInv, Complete, ConfigFiles
  <2> QED BY <1>2, <2>1
<1>9. undo \in {"taking", "valid"} =>
        safety = before /\ \A g \in ConfigFiles : file[g] \in {before[g], archive[g], Torn}
  BY <1>1 DEF RestoreInv, At, WayBack
<1>10. undo' = "valid" =>
         safety' = before' /\ \A g \in ConfigFiles : file'[g] \in {before'[g], archive'[g], Torn}
  BY <1>3, <1>4, <1>6, <1>9
<1>11. undo' # "taking" /\ undo' # "none" /\ undo' \in {"valid", "void"}
  BY <1>3, <1>4
<1> QED BY <1>2, <1>4, <1>7, <1>8, <1>10, <1>11 DEF RestoreInv, At, WayBack

LEMMA FillRestores ==
  ASSUME SoundInv, RestoreInv, Fill(Cli)
  PROVE  RestoreInv'
<1> DEFINE f == First(Cli)
<1>1. /\ Cli \in Loaders /\ proc[Cli].op = "restore" /\ f \in ConfigFiles /\ proc[Cli].step = "fill"
      /\ DOMAIN proc[Cli] = {"op", "step", "todo", "doc", "moved"} /\ DOMAIN proc = Loaders
      /\ Editors \subseteq Loaders
  BY Restoring DEF Fill, SoundInv, ProcsInv, Loaders, At
<1> DEFINE s == IF Len(proc[Cli].todo) > 1
                THEN [proc[Cli] EXCEPT !.step = "empty", !.todo = Tail(@)] ELSE Idle
<1>2. proc' = [proc EXCEPT ![Cli] = s]
  BY DEF Fill
<1>3. s.step \in {"empty", "idle"} /\ s.op # "backup"
  BY <1>1 DEF Idle
<1> HIDE DEF s, f
<1>4. /\ proc'[Cli].step \in {"empty", "idle"} /\ proc'[Cli].op # "backup"
      /\ \A q \in Editors \ {Cli} : proc'[q] = proc[q]
  BY <1>1, <1>2, <1>3
<1>5. undo \in {"valid", "void"} /\ Complete
  BY <1>1 DEF RestoreInv, At
<1>6. /\ UNCHANGED <<archive, safety, before>> /\ file' = [file EXCEPT ![f] = archive[f]] /\ undo' = undo
  BY <1>1, <1>5 DEF Fill, backups, Changes, f
<1>7. /\ file = [g \in ConfigFiles |-> file[g]]
      /\ safety = [g \in ConfigFiles |-> safety[g]] /\ before = [g \in ConfigFiles |-> before[g]]
  BY DEF RestoreInv, IsTable
<1>8. file' = [g \in ConfigFiles |-> IF g = f THEN archive[f] ELSE file[g]]
  BY <1>1, <1>6, <1>7
<1>9. IsTable(file)' /\ IsTable(before)' /\ IsTable(safety)' /\ Complete'
  <2>1. file' = [g \in ConfigFiles |-> file'[g]]
    BY <1>8
  <2> QED BY <1>5, <1>6, <1>7, <2>1 DEF IsTable, Complete
<1>10. \A q \in Editors : proc'[q].op # "backup"
  <2>1. \A q \in Editors : proc[q].op # "backup"
    BY <1>5 DEF RestoreInv, Complete, ConfigFiles
  <2> QED BY <1>4, <2>1
<1>11. undo = "valid" =>
        safety = before /\ \A g \in ConfigFiles : file[g] \in {before[g], archive[g], Torn}
  BY DEF RestoreInv, WayBack
<1>12. undo' = "valid" =>
         safety' = before' /\ \A g \in ConfigFiles : file'[g] \in {before'[g], archive'[g], Torn}
  BY <1>6, <1>8, <1>11
<1>13. undo' \in {"valid", "void"}
  BY <1>5, <1>6
<1> QED BY <1>4, <1>9, <1>10, <1>12, <1>13 DEF RestoreInv, At, WayBack

LEMMA CrashRestores ==
  ASSUME SoundInv, RestoreInv, NEW p \in Editors, Crash(p)
  PROVE  RestoreInv'
<1>1. /\ p \in Loaders /\ Editors \subseteq Loaders /\ DOMAIN proc = Loaders /\ Cli \in Editors
  BY DEF Loaders, Editors, SoundInv, ProcsInv
<1>2. proc'[p] = Idle /\ \A q \in Editors \ {p} : proc'[q] = proc[q]
  BY <1>1 DEF Crash, Ends
<1>3. UNCHANGED <<file, safety, before, undo>>
  BY DEF Crash, history
<1>4. Idle.op = "none" /\ Idle.step = "idle"
  BY DEF Idle
<1>5. CASE proc[p].op # "backup"
  <2>1. archive' = archive
    BY <1>5 DEF Crash
  <2>2. Aside(p)
    BY <1>2, <1>4 DEF Aside, Copies
  <2>3. IsTable(file')
    BY <1>3 DEF RestoreInv
  <2>4. \A q \in Editors : \/ Aside(q)
                           \/ /\ proc'[q].op = proc[q].op /\ proc'[q].step = proc[q].step
                              /\ proc'[q].todo = proc[q].todo
    BY <1>2, <2>2
  <2> QED BY <1>3, <2>1, <2>3, <2>4, RestoreQuiet
<1>6. CASE proc[p].op = "backup"
  <2>1. archive' = Nothing
    BY <1>6 DEF Crash
  <2>2. ~Complete /\ proc[Cli].op # "restore"
    BY <1>1, <1>6 DEF RestoreInv, Complete, ConfigFiles
  <2>3. /\ IsTable(file)' /\ IsTable(safety)' /\ IsTable(before)'
        /\ undo' \in {"none", "void"}
    BY <1>3, <2>2 DEF RestoreInv, IsTable
  <2>4. \A q \in Editors : proc'[q].op # "backup"
    BY <1>2, <1>4, <1>6 DEF RestoreInv
  <2>5. proc'[Cli].op # "restore"
    BY <1>1, <1>2, <1>4, <2>2
  <2> QED BY <2>3, <2>4, <2>5 DEF RestoreInv
<1> QED BY <1>5, <1>6

\* A request that edits a file is no restore: what it changes ends the claim of the snapshot.
LEMMA WritesRestores ==
  ASSUME SoundInv, RestoreInv, NEW p \in Editors, Open(p) \/ WriteTmp(p) \/ Replace(p)
  PROVE  RestoreInv'
<1> DEFINE f == TargetOf(p)
<1>1. p \in Loaders /\ Editors \subseteq Loaders /\ DOMAIN proc = Loaders /\ f \in ConfigFiles
  BY TargetIsFile DEF Loaders, TargetOf, SoundInv, ProcsInv
<1>2. \A q \in Loaders : DOMAIN proc[q] = {"op", "step", "todo", "doc", "moved"}
  BY DEF SoundInv, ProcsInv, ProcSound, ProcTyped
<1>3. proc[p].op \in Requested
  <2>1. ProcTyped(p, proc[p]) /\ proc[p].step \in Writes
    BY <1>1 DEF SoundInv, ProcsInv, ProcSound, Open, WriteTmp, Replace, At, Writes, Moving
  <2> QED BY <2>1 DEF ProcTyped
<1>4. proc[p].op \notin {"backup", "restore"}
  BY <1>3 DEF Requested, WebRequests, CliRequests, LabelRequests, OrgRequests, ChannelRequests
<1>5. UNCHANGED <<archive, safety, before>>
  BY DEF Open, WriteTmp, Replace, backups
<1>6. (\E content : Changes(p, f, content)) \/ UNCHANGED <<file, undo>>
  BY DEF Open, WriteTmp, Replace
<1>7. IsTable(file') /\ (UNCHANGED <<file, undo>> \/ undo' = "void")
  <2>1. file = [g \in ConfigFiles |-> file[g]]
    BY DEF RestoreInv, IsTable
  <2>2. CASE UNCHANGED <<file, undo>>
    BY <2>1, <2>2 DEF IsTable
  <2>3. ASSUME NEW content, Changes(p, f, content) PROVE IsTable(file') /\ undo' = "void"
    <3> HIDE DEF f
    <3>1. file' = [file EXCEPT ![f] = content] /\ undo' = "void"
      BY <1>4, <2>3 DEF Changes
    <3>2. file' = [g \in ConfigFiles |-> IF g = f THEN content ELSE file[g]]
      BY <1>1, <2>1, <3>1
    <3>3. file' = [g \in ConfigFiles |-> file'[g]]
      BY <3>2
    <3> QED BY <3>1, <3>3 DEF IsTable
  <2> QED BY <1>6, <2>2, <2>3
<1>8. ASSUME NEW q \in Editors
      PROVE  \/ Aside(q)
             \/ /\ proc'[q].op = proc[q].op /\ proc'[q].step = proc[q].step
                /\ proc'[q].todo = proc[q].todo
  <2>1. q \in Loaders /\ DOMAIN proc[q] = {"op", "step", "todo", "doc", "moved"}
    BY <1>1, <1>2
  <2>2. CASE Open(p) \/ WriteTmp(p)
    <3>1. PICK step \in Moving : Becomes(p, step)
      BY <2>2 DEF Open, WriteTmp, Moving
    <3>2. q # p => proc'[q] = proc[q]
      BY <1>1, <2>1, <3>1 DEF Becomes
    <3>3. q = p => proc'[q].op = proc[p].op /\ proc'[q].step = step
      BY <1>1, <2>1, <3>1 DEF Becomes
    <3> QED BY <1>4, <3>1, <3>2, <3>3 DEF Aside, Moving, Copies
  <2>3. CASE Replace(p)
    <3>1. proc'[q] = IF q = p THEN Idle
                     ELSE IF At(q, "write") /\ TargetOf(q) = TargetOf(p)
                     THEN [proc[q] EXCEPT !.moved = TRUE] ELSE proc[q]
      BY <2>1, <2>3 DEF Replace
    <3>2. q = p => Aside(q)
      BY <3>1 DEF Aside, Copies, Idle
    <3>3. q # p => /\ proc'[q].op = proc[q].op /\ proc'[q].step = proc[q].step
                   /\ proc'[q].todo = proc[q].todo
      BY <2>1, <3>1
    <3> QED BY <3>2, <3>3
  <2> QED BY <2>2, <2>3
<1> QED BY <1>5, <1>7, <1>8, RestoreQuiet

-----------------------------------------------------------------------------
(* Configuration files: the invariant *)

StoreInv == SoundInv /\ WriteInv /\ FilesWhole /\ RestoreInv

LEMMA StoreInitially == ASSUME StoreInit PROVE StoreInv
<1>1. /\ DOMAIN proc = Loaders /\ DOMAIN view = Loaders /\ Editors \subseteq Loaders /\ Cli \in Editors
      /\ \A p \in Loaders : proc[p] = Idle /\ view[p] = Nothing
  BY DEF StoreInit, Loaders, Editors
<1>2. ProcsInv
  BY <1>1, IdleSound DEF ProcsInv
<1>3. /\ DOMAIN file = ConfigFiles /\ DOMAIN tmp = ConfigFiles /\ DOMAIN archive = ConfigFiles
      /\ \A f \in ConfigFiles : tmp[f] = Absent /\ archive[f] = Absent
      /\ file["accounts"] = {} /\ file["config"] = {} /\ file["profiles"] = {Default}
      /\ file["labels"] = <<>> /\ file["orgs"] = Established
  BY DEF StoreInit, Nothing, Defaults, DefaultProfiles, ConfigFiles
<1>4. <<>> \in Tables(Labels, LabelRecords)
  <2>1. <<>> \in [{} -> LabelRecords]
    OBVIOUS
  <2> QED BY <2>1 DEF Tables
<1>5. \A f \in ConfigFiles : file[f] \in Documents(f)
  BY <1>3, <1>4, DocumentsOfFiles, ConfigStoreAssumption DEF ConfigFiles
<1>6. RefersTo(file["labels"], Facts.names, Facts.profiles)
  <2>1. DOMAIN file["labels"] = {}
    BY <1>3
  <2> QED BY <2>1 DEF RefersTo
<1>7. \A f \in ConfigFiles : /\ file[f] # Absent /\ Kept(f, file[f], Facts)
                             /\ Kept(f, tmp[f], Facts) /\ Kept(f, archive[f], Facts)
  BY <1>3, <1>5, <1>6, DocumentsAreWhole DEF Kept, Document
<1>8. Default \in Facts.profiles
  <2>1. NamesIn("profiles", {Default}) = {Default}
    <3>1. {Default} \in Documents("profiles")
      BY DocumentsOfFiles, ConfigStoreAssumption
    <3>2. {Default} # Torn
      BY <3>1, DocumentsAreWhole DEF Document, ConfigFiles
    <3> QED BY <3>2 DEF NamesIn
  <2> QED BY <1>3, <2>1 DEF Facts
<1>9. SoundInv
  BY <1>2, <1>3, <1>7, <1>8 DEF SoundInv, FilesInv
<1>10. WriteInv
  BY <1>1 DEF WriteInv, Idle, Moving
<1>11. FilesWhole
  BY <1>5, DocumentsAreWhole DEF FilesWhole, Document
<1>12. RestoreInv
  <2>1. IsTable(file) /\ IsTable(safety) /\ IsTable(before)
    BY DEF StoreInit, IsTable, Nothing
  <2>2. undo = "none"
    BY DEF StoreInit
  <2>3. \A p \in Editors : proc[p].op = "none"
    BY <1>1 DEF Idle
  <2> QED BY <1>1, <2>1, <2>2, <2>3 DEF RestoreInv
<1> QED BY <1>9, <1>10, <1>11, <1>12 DEF StoreInv

\* A step that opens, writes and moves nothing, and neither makes a backup nor restores one.
LEMMA StoreQuiet ==
  ASSUME StoreInv, SoundInv', NEW p \in Loaders,
         UNCHANGED <<file, tmp, clashed, overwritten, archive, safety, before, undo>>,
         \A q \in Editors \ {p} : proc'[q] = proc[q],
         proc'[p].step \in {"idle", "read", "open"}, proc'[p].op \notin {"backup", "restore"} \/ p \notin Editors
  PROVE  StoreInv'
<1>1. WriteInv' /\ FilesWhole'
  BY WriteQuiet DEF StoreInv, Moving
<1>2. \A q \in Editors : \/ Aside(q)
                         \/ /\ proc'[q].op = proc[q].op /\ proc'[q].step = proc[q].step
                            /\ proc'[q].todo = proc[q].todo
  BY DEF Aside, Copies
<1>3. IsTable(file')
  BY DEF StoreInv, RestoreInv
<1>4. RestoreInv'
  BY <1>2, <1>3, RestoreQuiet DEF StoreInv
<1> QED BY <1>1, <1>4 DEF StoreInv

LEMMA AtRest ==
  ASSUME SoundInv', NEW p \in Loaders, proc'[p].step \in {"idle", "read", "open"}
  PROVE  proc'[p].op \notin {"backup", "restore"} \/ p \notin Editors
<1>1. (ProcTyped(p, proc[p]))'
  BY DEF SoundInv, ProcsInv, ProcSound
<1>2. ProcTyped(p, proc'[p])
  BY <1>1
<1>3. proc'[p].op = "none" \/ p = Worker \/ proc'[p].op \in Requested
  BY <1>2 DEF ProcTyped, Writes, Moving
<1>4. Worker \notin Editors
  BY ConfigStoreAssumption
<1> QED BY <1>3, <1>4 DEF Requested, WebRequests, CliRequests, LabelRequests, OrgRequests, ChannelRequests

LEMMA StoreKept == ASSUME StoreInv, StoreNext PROVE StoreInv'
<1>0. /\ Web \in Editors /\ Cli \in Editors /\ Worker \in Loaders /\ Editors \subseteq Loaders
      /\ DOMAIN proc = Loaders /\ DOMAIN view = Loaders
      /\ \A p \in Loaders : DOMAIN proc[p] = {"op", "step", "todo", "doc", "moved"}
  BY DEF Editors, Loaders, StoreInv, SoundInv, ProcsInv, ProcSound, ProcTyped
<1>1. ASSUME NEW p \in Editors, NEW op \in Requested, BeginRequest(p, op) PROVE StoreInv'
  <2>1. SoundInv'
    BY <1>1, BeginSound DEF StoreInv
  <2>2. UNCHANGED <<file, tmp, clashed, overwritten, archive, safety, before, undo>>
    BY <1>1 DEF BeginRequest, Forgets, backups
  <2>3. proc'[p].step = "read" /\ \A q \in Editors \ {p} : proc'[q] = proc[q]
    BY <1>0, <1>1 DEF BeginRequest, Idle
  <2> QED BY <1>0, <2>1, <2>2, <2>3, StoreQuiet, AtRest
<1>2. ASSUME NEW p \in Loaders, Read(p) \/ Check(p) PROVE StoreInv'
  <2>1. SoundInv'
    BY <1>2, ReadSoundKept, CheckSoundKept DEF StoreInv
  <2>2. UNCHANGED <<file, tmp, clashed, overwritten, archive, safety, before, undo>>
    BY <1>2 DEF Read, Check, backups, history
  <2>3. proc[p].step = "read"
    BY <1>2 DEF Read, Check, Reading, At
  <2>4. proc' = [proc EXCEPT ![p] = Idle] \/ proc' = [proc EXCEPT ![p].todo = Tail(@)]
    BY <1>2 DEF Read, Check, Ends
  <2>5. proc'[p].step \in {"idle", "read"} /\ \A q \in Editors \ {p} : proc'[q] = proc[q]
    BY <1>0, <2>3, <2>4 DEF Idle
  <2> QED BY <2>1, <2>2, <2>5, StoreQuiet, AtRest
<1>3. ASSUME WorkerLoads PROVE StoreInv'
  <2>1. SoundInv'
    BY <1>3, WorkerLoadsSound DEF StoreInv
  <2>2. UNCHANGED <<file, tmp, clashed, overwritten, archive, safety, before, undo>>
    BY <1>3 DEF WorkerLoads, Forgets, backups
  <2>3. proc'[Worker].step = "read" /\ \A q \in Editors \ {Worker} : proc'[q] = proc[q]
    BY <1>0, <1>3 DEF WorkerLoads
  <2> QED BY <1>0, <2>1, <2>2, <2>3, StoreQuiet, AtRest
<1>4. ASSUME WorkerLoaded PROVE StoreInv'
  <2>1. UNCHANGED <<file, tmp, gone, clashed, overwritten, archive, safety, before, undo>>
    BY <1>4 DEF WorkerLoaded, backups, history
  <2>2. SoundInv'
    BY <1>0, <1>4, <2>1, EndsSound DEF StoreInv, WorkerLoaded
  <2>3. proc'[Worker].step = "idle" /\ \A q \in Editors \ {Worker} : proc'[q] = proc[q]
    BY <1>0, <1>4 DEF WorkerLoaded, Ends, Idle
  <2> QED BY <1>0, <2>1, <2>2, <2>3, StoreQuiet, AtRest
<1>5. ASSUME NEW p \in Editors, Decide(p) PROVE StoreInv'
  <2>1. SoundInv'
    BY <1>5, DecideSoundKept DEF StoreInv
  <2>2. UNCHANGED <<file, tmp, clashed, overwritten, archive, safety, before, undo>>
    BY <1>5 DEF Decide, backups, history
  <2>3. \/ proc' = [proc EXCEPT ![p] = Idle]
        \/ \E d \in Edits(proc[p].op, view[p]) : proc' = [proc EXCEPT ![p].step = "open", ![p].doc = d]
    BY <1>5 DEF Decide, Ends
  <2>4. proc'[p].step \in {"idle", "open"} /\ \A q \in Editors \ {p} : proc'[q] = proc[q]
    BY <1>0, <2>3 DEF Idle
  <2> QED BY <1>0, <2>1, <2>2, <2>4, StoreQuiet, AtRest
<1>6. ASSUME NEW p \in Editors, Open(p) \/ WriteTmp(p) \/ Replace(p) PROVE StoreInv'
  <2>1. SoundInv'
    BY <1>6, OpenSoundKept, WriteTmpSoundKept, ReplaceSoundKept DEF StoreInv
  <2>2. WriteInv' /\ FilesWhole'
    BY <1>6, OpenWhole, WriteTmpWhole, ReplaceWhole DEF StoreInv
  <2>3. RestoreInv'
    BY <1>6, WritesRestores DEF StoreInv
  <2> QED BY <2>1, <2>2, <2>3 DEF StoreInv
<1>7. ASSUME NEW p \in Editors, NEW op \in {"backup", "restore"}, BeginCopy(p, op, "copy"),
             op = "backup" \/ p = Cli,
             UNCHANGED <<file, tmp, view, archive, gone, clashed, overwritten>>
      PROVE  SoundInv' /\ WriteInv' /\ FilesWhole'
  <2>1. SoundInv'
    BY <1>7, BeginCopySound DEF StoreInv
  <2>2. proc'[p].step = "copy" /\ \A q \in Editors \ {p} : proc'[q] = proc[q]
    BY <1>0, <1>7 DEF BeginCopy, Idle
  <2>3. WriteInv' /\ FilesWhole'
    BY <1>7, <2>2, WriteQuiet DEF StoreInv, Moving
  <2> QED BY <2>1, <2>3
<1>8. ASSUME NEW p \in Editors, Backup(p) PROVE StoreInv'
  <2>1. SoundInv' /\ WriteInv' /\ FilesWhole'
    BY <1>7, <1>8 DEF Backup, backups, history
  <2> QED BY <1>8, <2>1, BackupRestores DEF StoreInv
<1>9. ASSUME Restore(Cli) PROVE StoreInv'
  <2>1. SoundInv' /\ WriteInv' /\ FilesWhole'
    BY <1>0, <1>7, <1>9 DEF Restore
  <2> QED BY <1>9, <2>1, RestoreBegins DEF StoreInv
<1>10. ASSUME NEW p \in Editors, Copy(p) PROVE StoreInv'
  <2>1. SoundInv'
    BY <1>10, CopySoundKept DEF StoreInv
  <2>2. /\ \A q \in Editors \ {p} : proc'[q] = proc[q]
        /\ proc'[p].step \in {"idle", "copy", "empty"}
    BY <1>10, Copying DEF StoreInv, Idle
  <2>3. UNCHANGED <<file, tmp, clashed, overwritten>>
    BY <1>10 DEF Copy, history
  <2>4. WriteInv' /\ FilesWhole'
    BY <2>2, <2>3, WriteQuiet DEF StoreInv, Moving
  <2>5. RestoreInv'
    BY <1>10, BackupCopies, RestoreCopies DEF StoreInv
  <2> QED BY <2>1, <2>4, <2>5 DEF StoreInv
<1>11. ASSUME Empty(Cli) PROVE StoreInv'
  BY <1>11, EmptySoundKept, EmptyWhole, EmptyRestores DEF StoreInv
<1>12. ASSUME Fill(Cli) PROVE StoreInv'
  <2>1. Complete
    BY <1>0, <1>12, Restoring DEF StoreInv, RestoreInv, Fill
  <2> QED BY <1>12, <2>1, FillSoundKept, FillWhole, FillRestores DEF StoreInv, Complete
<1>13. ASSUME NEW p \in Editors, Crash(p) PROVE StoreInv'
  <2>1. SoundInv'
    BY <1>13, CrashSoundKept DEF StoreInv
  <2>2. proc'[p].step = "idle" /\ \A q \in Editors \ {p} : proc'[q] = proc[q]
    BY <1>0, <1>13 DEF Crash, Ends, Idle
  <2>3. UNCHANGED <<file, tmp, clashed, overwritten>>
    BY <1>13 DEF Crash, history
  <2>4. WriteInv' /\ FilesWhole'
    BY <2>2, <2>3, WriteQuiet DEF StoreInv, Moving
  <2> QED BY <1>13, <2>1, <2>4, CrashRestores DEF StoreInv
<1> QED BY <1>0, <1>1, <1>2, <1>3, <1>4, <1>5, <1>6, <1>8, <1>9, <1>10, <1>11, <1>12, <1>13
        DEF StoreNext, EditorStep, Requested

LEMMA StoreStutters == ASSUME StoreInv, UNCHANGED storeVars PROVE StoreInv'
<1>1. Facts' = Facts /\ UNCHANGED <<file, tmp, proc, view, archive, safety, clashed, overwritten, before, undo>>
  BY GrowsItself DEF storeVars, backups, history
<1>2. SoundInv'
  BY <1>1 DEF StoreInv, SoundInv, FilesInv, ProcsInv
<1>3. \A p \in Editors : TargetOf(p)' = TargetOf(p) /\ First(p)' = First(p) /\ SharesTmp(p)' = SharesTmp(p)
  BY <1>1 DEF TargetOf, First, SharesTmp
<1>4. WriteInv' /\ FilesWhole'
  BY <1>1, <1>3 DEF StoreInv, WriteInv, FilesWhole
<1>5. IsTable(file')
  BY <1>1 DEF StoreInv, RestoreInv
<1>6. RestoreInv'
  BY <1>1, <1>5, RestoreQuiet DEF StoreInv
<1> QED BY <1>2, <1>4, <1>6 DEF StoreInv

LEMMA StoreAlways == StoreSpec => []StoreInv
<1>1. StoreInit => StoreInv
  BY StoreInitially
<1>2. StoreInv /\ [StoreNext]_storeVars => StoreInv'
  BY StoreKept, StoreStutters
<1> QED BY <1>1, <1>2, PTL DEF StoreSpec

-----------------------------------------------------------------------------
(* Configuration files: what accounts.json gains while a process reads *)

Listed == NamesIn("accounts", file["accounts"])

\* Only a process that reads holds a copy of accounts.json; what the file has beside the
\* copy it gained since that process began.
GrownInv ==
  /\ DOMAIN grown = Loaders
  /\ \A p \in Loaders :
       view[p]["accounts"] # Absent =>
         At(p, "read") /\ Listed \subseteq view[p]["accounts"] \cup grown[p]

LEMMA ListedNext == Listed' = NamesIn("accounts", file'["accounts"])
BY DEF Listed, NamesIn, CredNames

\* Every copy is dropped or kept by a process that still reads and is told what the file gains.
LEMMA GrownMove ==
  ASSUME GrownInv, DOMAIN grown' = Loaders,
         \A q \in Loaders :
           \/ view'[q]["accounts"] = Absent
           \/ /\ view'[q]["accounts"] = view[q]["accounts"]
              /\ At(q, "read") =>
                   proc'[q].step = "read" /\ grown[q] \cup (Listed' \ Listed) \subseteq grown'[q]
  PROVE  GrownInv'
<1>1. ASSUME NEW q \in Loaders, view'[q]["accounts"] # Absent
      PROVE  proc'[q].step = "read" /\ Listed' \subseteq view'[q]["accounts"] \cup grown'[q]
  BY <1>1 DEF GrownInv
<1>2. \A q \in Loaders :
        (view[q]["accounts"])' # Absent =>
          At(q, "read")' /\ Listed' \subseteq (view[q]["accounts"])' \cup (grown[q])'
  BY <1>1 DEF At
<1> QED BY <1>2 DEF GrownInv

\* A step that changes no file.
LEMMA GrownStays ==
  ASSUME GrownInv, UNCHANGED <<file, grown>>,
         \A q \in Loaders :
           \/ view'[q]["accounts"] = Absent
           \/ view'[q]["accounts"] = view[q]["accounts"] /\ (At(q, "read") => proc'[q].step = "read")
  PROVE  GrownInv'
<1>1. Listed' = Listed
  BY ListedNext DEF Listed
<1> QED BY <1>1, GrownMove DEF GrownInv

LEMMA GrownEnds ==
  ASSUME StoreInv, GrownInv, NEW p \in Loaders, Ends(p), UNCHANGED <<file, grown>>
  PROVE  GrownInv'
<1>1. \A q \in Loaders : view'[q] = IF q = p THEN Nothing ELSE view[q]
  BY DEF Ends, StoreInv, SoundInv, ProcsInv
<1>2. \A q \in Loaders : q # p => proc'[q] = proc[q]
  BY DEF Ends, StoreInv, SoundInv, ProcsInv
<1>3. Nothing["accounts"] = Absent
  BY DEF Nothing, ConfigFiles
<1> QED BY <1>1, <1>2, <1>3, GrownStays DEF At

\* A file changes under the processes that read.
LEMMA GrownChanges ==
  ASSUME StoreInv, GrownInv, NEW p, NEW f \in ConfigFiles, NEW content,
         Changes(p, f, content), view' = view,
         \A q \in Loaders : At(q, "read") => proc'[q].step = "read"
  PROVE  GrownInv'
<1>1. /\ file' = [file EXCEPT ![f] = content] /\ DOMAIN file = ConfigFiles
      /\ grown' = [q \in Loaders |->
                     IF f = "accounts" /\ At(q, "read")
                     THEN grown[q] \cup (NamesIn(f, content) \ NamesIn(f, file[f])) ELSE grown[q]]
  BY DEF Changes, StoreInv, SoundInv, FilesInv
<1>2. CASE f = "accounts"
  <2>1. Listed' = NamesIn(f, content) /\ Listed = NamesIn(f, file[f])
    BY <1>1, <1>2, ListedNext DEF Listed
  <2> QED BY <1>1, <1>2, <2>1, GrownMove
<1>3. CASE f # "accounts"
  <2>1. Listed' = Listed
    BY <1>1, <1>3, ListedNext DEF Listed, ConfigFiles
  <2> QED BY <1>1, <1>3, <2>1, GrownMove
<1> QED BY <1>2, <1>3

\* A process begins to read: it is idle and has no copy.
LEMMA GrownBegins ==
  ASSUME StoreInv, GrownInv, NEW p \in Loaders, At(p, "idle"), Forgets(p), UNCHANGED <<file, view>>,
         \A q \in Loaders \ {p} : proc'[q] = proc[q]
  PROVE  GrownInv'
<1>1. grown' = [grown EXCEPT ![p] = {}] /\ DOMAIN grown = Loaders
  BY DEF Forgets, GrownInv
<1>2. Listed' = Listed
  BY ListedNext DEF Listed
<1>3. view[p]["accounts"] = Absent
  BY DEF GrownInv, At
<1> QED BY <1>1, <1>2, <1>3, GrownMove DEF At

LEMMA GrownReads == ASSUME StoreInv, GrownInv, NEW p \in Loaders, Read(p) PROVE GrownInv'
<1>1. UNCHANGED <<file, grown>> /\ At(p, "read")
  BY DEF Read, Reading, history
<1>2. CASE file[First(p)] = Torn
  BY <1>1, <1>2, GrownEnds DEF Read
<1>3. CASE file[First(p)] # Torn
  <2>1. /\ view' = [view EXCEPT ![p][First(p)] = file[First(p)]]
        /\ proc' = [proc EXCEPT ![p].todo = Tail(@)]
    BY <1>3 DEF Read
  <2>2. /\ DOMAIN view = Loaders /\ DOMAIN view[p] = ConfigFiles /\ DOMAIN proc = Loaders
        /\ DOMAIN proc[p] = {"op", "step", "todo", "doc", "moved"}
    BY DEF StoreInv, SoundInv, ProcsInv, ProcSound, ProcTyped, ViewTyped
  <2>3. /\ \A q \in Loaders \ {p} : proc'[q] = proc[q] /\ view'[q] = view[q]
        /\ proc'[p].step = "read" /\ view'[p] = [view[p] EXCEPT ![First(p)] = file[First(p)]]
    BY <1>1, <2>1, <2>2 DEF At
  <2>4. CASE First(p) # "accounts"
    <3>1. view'[p]["accounts"] = view[p]["accounts"]
      BY <2>2, <2>3, <2>4 DEF ConfigFiles
    <3> QED BY <1>1, <2>3, <3>1, GrownStays DEF At
  <2>5. CASE First(p) = "accounts"
    <3>1. view'[p]["accounts"] = file["accounts"] /\ Listed = file["accounts"]
      BY <1>3, <2>2, <2>3, <2>5 DEF ConfigFiles, Listed, NamesIn
    <3>2. Listed' = Listed /\ grown' = grown
      BY <1>1, ListedNext DEF Listed
    <3>3. ASSUME NEW q \in Loaders, view'[q]["accounts"] # Absent
          PROVE  proc'[q].step = "read" /\ Listed' \subseteq view'[q]["accounts"] \cup grown'[q]
      <4>1. CASE q = p
        BY <2>3, <3>1, <3>2, <4>1
      <4>2. CASE q # p
        BY <2>3, <3>2, <3>3, <4>2 DEF GrownInv, At
      <4> QED BY <4>1, <4>2
    <3>4. \A q \in Loaders :
            (view[q]["accounts"])' # Absent =>
              At(q, "read")' /\ Listed' \subseteq (view[q]["accounts"])' \cup (grown[q])'
      BY <3>3 DEF At
    <3> QED BY <3>2, <3>4 DEF GrownInv
  <2> QED BY <2>4, <2>5
<1> QED BY <1>2, <1>3

LEMMA GrownChecks == ASSUME StoreInv, GrownInv, NEW p \in Loaders, Check(p) PROVE GrownInv'
<1>1. UNCHANGED <<file, grown>>
  BY DEF Check, history
<1>2. CASE Missing(view[p]) # {}
  BY <1>1, <1>2, GrownEnds DEF Check
<1>3. CASE Missing(view[p]) = {}
  <2>1. view' = view /\ proc' = [proc EXCEPT ![p].todo = Tail(@)]
    BY <1>3 DEF Check
  <2>2. DOMAIN proc = Loaders /\ DOMAIN proc[p] = {"op", "step", "todo", "doc", "moved"}
    BY DEF StoreInv, SoundInv, ProcsInv, ProcSound, ProcTyped
  <2>3. \A q \in Loaders : proc'[q].step = proc[q].step
    BY <2>1, <2>2
  <2> QED BY <1>1, <2>1, <2>3, GrownStays DEF At
<1> QED BY <1>2, <1>3

LEMMA GrownDecides == ASSUME StoreInv, GrownInv, NEW p \in Editors, Decide(p) PROVE GrownInv'
<1>0. p \in Loaders /\ DOMAIN proc = Loaders /\ DOMAIN view = Loaders
  BY DEF Loaders, StoreInv, SoundInv, ProcsInv
<1>1. UNCHANGED <<file, grown>>
  BY DEF Decide, history
<1>2. CASE Ends(p)
  BY <1>0, <1>1, <1>2, GrownEnds
<1>3. CASE /\ \E d \in Edits(proc[p].op, view[p]) :
                proc' = [proc EXCEPT ![p].step = "open", ![p].doc = d]
           /\ view' = [view EXCEPT ![p] = Nothing]
  <2>1. \A q \in Loaders \ {p} : proc'[q] = proc[q] /\ view'[q] = view[q]
    BY <1>0, <1>3
  <2>2. view'[p]["accounts"] = Absent
    BY <1>0, <1>3 DEF Nothing, ConfigFiles
  <2> QED BY <1>1, <2>1, <2>2, GrownStays DEF At
<1> QED BY <1>2, <1>3 DEF Decide

\* A process that writes or copies holds no copy of accounts.json.
LEMMA GrownWrites ==
  ASSUME StoreInv, GrownInv, NEW p \in Editors,
         Open(p) \/ WriteTmp(p) \/ Replace(p) \/ Backup(p) \/ Copy(p)
         \/ (p = Cli /\ (Restore(p) \/ Empty(p) \/ Fill(p)))
  PROVE  GrownInv'
<1>0. p \in Loaders /\ DOMAIN proc = Loaders /\ view' = view
  BY DEF Loaders, StoreInv, SoundInv, ProcsInv,
         Open, WriteTmp, Replace, Backup, Copy, Restore, Empty, Fill
<1>1. ~At(p, "read")
  BY DEF At, Open, WriteTmp, Replace, Backup, Copy, Restore, Empty, Fill, BeginCopy
<1>2. \A q \in Loaders : At(q, "read") => proc'[q].step = "read"
  <2> SUFFICES ASSUME NEW q \in Loaders, At(q, "read") PROVE proc'[q] = proc[q]
    BY DEF At
  <2>1. q # p
    BY <1>1
  <2>2. CASE Replace(p)
    BY <2>1, <2>2 DEF Replace, At
  <2>3. CASE Backup(p) \/ Restore(p)
    BY <1>0, <2>1, <2>3 DEF Backup, Restore, BeginCopy
  <2>4. CASE Open(p) \/ WriteTmp(p) \/ Empty(p)
    BY <1>0, <2>1, <2>4 DEF Open, WriteTmp, Empty, Becomes
  <2>5. CASE Copy(p) \/ Fill(p)
    BY <1>0, <2>1, <2>5 DEF Copy, Fill
  <2> QED BY <2>2, <2>3, <2>4, <2>5
<1>3. TargetOf(p) \in ConfigFiles
  BY TargetIsFile DEF TargetOf
<1>4. CASE UNCHANGED <<file, grown>>
  BY <1>0, <1>2, <1>4, GrownStays
<1>5. ASSUME NEW f \in ConfigFiles, NEW content, Changes(p, f, content) PROVE GrownInv'
  BY <1>0, <1>2, <1>5, GrownChanges
<1>6. CASE Open(p) \/ Backup(p) \/ Restore(p) \/ Copy(p)
  BY <1>4, <1>6 DEF Open, Backup, Restore, Copy, history
<1>7. CASE WriteTmp(p)
  BY <1>3, <1>4, <1>5, <1>7 DEF WriteTmp
<1>8. CASE Replace(p)
  BY <1>3, <1>4, <1>5, <1>8 DEF Replace
<1>9. CASE p = Cli /\ (Empty(p) \/ Fill(p))
  <2>1. proc[p].todo \in Suffixes
    BY <1>0, <1>9 DEF StoreInv, SoundInv, ProcsInv, ProcSound, ProcTyped, Empty, Fill, At, Copies
  <2>2. First(p) \in ConfigFiles
    BY <2>1, SuffixSteps DEF First
  <2> QED BY <1>5, <1>9, <2>2 DEF Empty, Fill
<1> QED BY <1>6, <1>7, <1>8, <1>9

LEMMA GrownKept == ASSUME StoreInv, GrownInv, StoreNext PROVE GrownInv'
<1>0. Worker \in Loaders /\ Cli \in Editors /\ Web \in Editors /\ Editors \subseteq Loaders
  BY DEF Loaders, Editors
<1>1. ASSUME NEW p \in Editors, NEW op, BeginRequest(p, op) PROVE GrownInv'
  <2>1. \A q \in Loaders \ {p} : proc'[q] = proc[q]
    BY <1>0, <1>1 DEF BeginRequest, StoreInv, SoundInv, ProcsInv
  <2> QED BY <1>0, <1>1, <2>1, GrownBegins DEF BeginRequest
<1>2. ASSUME WorkerLoads PROVE GrownInv'
  <2>1. \A q \in Loaders \ {Worker} : proc'[q] = proc[q]
    BY <1>0, <1>2 DEF WorkerLoads, StoreInv, SoundInv, ProcsInv
  <2> QED BY <1>0, <1>2, <2>1, GrownBegins DEF WorkerLoads
<1>3. ASSUME WorkerLoaded PROVE GrownInv'
  BY <1>0, <1>3, GrownEnds DEF WorkerLoaded, history
<1>4. ASSUME NEW p \in Editors, Crash(p) PROVE GrownInv'
  BY <1>0, <1>4, GrownEnds DEF Crash, history
<1>5. ASSUME NEW p \in Loaders, Read(p) \/ Check(p) PROVE GrownInv'
  BY <1>5, GrownReads, GrownChecks
<1>6. ASSUME NEW p \in Editors, EditorStep(p) PROVE GrownInv'
  BY <1>4, <1>6, GrownDecides, GrownWrites DEF EditorStep
<1>7. ASSUME Restore(Cli) \/ Empty(Cli) \/ Fill(Cli) PROVE GrownInv'
  BY <1>0, <1>7, GrownWrites
<1> QED BY <1>0, <1>1, <1>2, <1>3, <1>5, <1>6, <1>7 DEF StoreNext

LEMMA GrownAlways == StoreSpec => []GrownInv
<1>1. StoreInit => GrownInv
  BY DEF StoreInit, GrownInv, Nothing, ConfigFiles
<1>2. ASSUME StoreInv, GrownInv, UNCHANGED storeVars PROVE GrownInv'
  <2>1. UNCHANGED <<file, grown, view, proc>>
    BY <1>2 DEF storeVars, history
  <2> QED BY <1>2, <2>1, GrownStays DEF At
<1>3. StoreInv /\ GrownInv /\ [StoreNext]_storeVars => GrownInv'
  BY <1>2, GrownKept
<1> QED BY <1>1, <1>3, StoreAlways, PTL DEF StoreSpec

-----------------------------------------------------------------------------
(* Configuration files: the theorems *)

\* Between any two steps of any number of requests, and after any of them has died, a file
\* is a whole document unless two processes opened its temporary file at once or a restore
\* wrote it in place (configuration.py, write_json; backup.py, restore_backup).
THEOREM FilesStayWhole == StoreSpec => []FilesWhole
<1>1. StoreInv => FilesWhole
  BY DEF StoreInv
<1> QED BY <1>1, StoreAlways, PTL

\* Whatever the requests and in whatever order their reads and writes fall, a reference that
\* a load misses was once taken out of a file, or accounts.json gained it after that very load
\* began (configuration.py, load, validate_cross_references).
THEOREM MissingHasReason == StoreSpec => []MissingExplained
<1>1. ASSUME StoreInv, GrownInv PROVE MissingExplained
  <2>1. SUFFICES ASSUME NEW p \in Loaders, Reading(p) /\ First(p) = "check"
                 PROVE  Missing(view[p]) \subseteq gone \cup grown[p]
    BY DEF MissingExplained
  <2> DEFINE v == view[p]
  <2>2. ProcSound(p, proc[p], v, Facts) /\ proc[p].step = "read" /\ proc[p].todo # <<>>
        /\ Head(proc[p].todo) = "check"
    BY <1>1, <2>1 DEF StoreInv, SoundInv, ProcsInv, Reading, First, At
  <2>3. LoadSound(v, 6, Facts) /\ v["accounts"] # Absent
    BY <2>2, ChecksOne
  <2>4. Facts.gone = gone /\ Facts.accounts = Listed
    BY DEF Facts, Listed
  <2>5. Listed \subseteq v["accounts"] \cup grown[p]
    BY <1>1, <2>3 DEF GrownInv
  <2> HIDE DEF v
  <2>6. /\ \A l \in DOMAIN v["labels"] : v["labels"][l].profile \in v["profiles"] \cup gone
        /\ \A l \in DOMAIN v["labels"] :
             v["labels"][l].accounts \subseteq v["accounts"] \cup CredNames(v["orgs"]) \cup gone \cup grown[p]
    BY <2>3, <2>4, <2>5 DEF LoadSound
  <2>7. \A l \in DOMAIN v.labels :
          (v.labels[l].accounts \ KnownAccounts(v)) \cup ({v.labels[l].profile} \ v.profiles)
            \subseteq gone \cup grown[p]
    BY <2>6 DEF KnownAccounts
  <2>8. Missing(v) \subseteq gone \cup grown[p]
    BY <2>7 DEF Missing
  <2> QED BY <2>8 DEF v
<1> QED BY <1>1, StoreAlways, GrownAlways, PTL

\* From the first file a restore overwrites until another request changes a file, through a
\* failure of the restore at any step, the snapshot holds what was there before
\* (backup.py, restore_backup).
THEOREM SnapshotLeadsBack == StoreSpec => []WayBack
<1>1. StoreInv => WayBack
  BY DEF StoreInv, RestoreInv, WayBack
<1> QED BY <1>1, StoreAlways, PTL

-----------------------------------------------------------------------------
(* Exports *)

USE ExportFilesAssumption

Writing == {"request", "poll", "write", "exported"}
Over == {"none", "exported", "failed"}

-----------------------------------------------------------------------------
(* Exports: free names *)

LEMMA LeastIn ==
  ASSUME NEW S, S \subseteq Nat, S # {}
  PROVE  Least(S) \in S
<1> DEFINE R == {pair \in Nat \X Nat : pair[1] < pair[2]}
<1>1. IsWellFoundedOn(R, Nat)
  BY NatLessThanWellFounded DEF OpToRel
<1> HIDE DEF R
<1>2. PICK x \in S : \A y \in S : ~(<<y, x>> \in R)
  BY <1>1, WFMin
<1>3. ASSUME NEW y \in S PROVE x <= y
  <2>1. x \in Nat /\ y \in Nat /\ <<y, x>> \in Nat \X Nat
    OBVIOUS
  <2>2. y < x => <<y, x>> \in R
    BY <2>1 DEF R
  <2> QED BY <1>2, <2>1, <2>2
<1> QED BY <1>3 DEF Least

LEMMA NumberOfTasks ==
  ASSUME NEW t \in Tasks
  PROVE  /\ IsFiniteSet(Numbers) /\ IsFiniteSet(Tasks \ {t})
         /\ Cardinality(Tasks \ {t}) < Cardinality(Numbers)
         /\ Numbers \subseteq Nat
<1> DEFINE n == Cardinality(Exports) * Cardinality(Items)
<1>1. IsFiniteSet(Tasks) /\ Cardinality(Tasks) = n
  BY FS_Product DEF Tasks
<1>2. n \in Nat
  BY <1>1, FS_CardinalityType
<1>3. Numbers = 1..n
  BY DEF Numbers
<1> HIDE DEF n
<1>4. IsFiniteSet(Numbers) /\ Cardinality(Numbers) = n /\ Numbers \subseteq Nat
  BY <1>2, <1>3, FS_Interval, SMTT(30)
<1>5. IsFiniteSet(Tasks \ {t}) /\ Cardinality(Tasks \ {t}) = Cardinality(Tasks) - 1
  BY <1>1, FS_RemoveElement
<1> QED BY <1>1, <1>2, <1>4, <1>5

-----------------------------------------------------------------------------
(* Exports: the steps of an export and of its tasks *)

Before == {"idle", "list", "folder", "mkdir"}

\* An export has a folder of its own as long as it scans or has tasks.
Made(e) == phase[e] \in {"scan", "parallel"} \/ \E t \in TasksOf(e) : task[t].step # "none"

StepInv ==
  /\ phase \in [Exports -> Phases] /\ DOMAIN folder = Exports
  /\ DOMAIN task = Tasks /\ \A t \in Tasks : DOMAIN task[t] = {"step", "number"} /\ task[t].step \in Steps
  /\ swept \subseteq Exports /\ \A e \in swept : phase[e] # "idle"
  /\ \A e \in Exports : \A t \in TasksOf(e) :
       /\ phase[e] \in Before \cup {"raised"} => task[t].step = "none"
       /\ phase[e] = "scan" => task[t].step \in {"none", "queued"}
       /\ phase[e] \in {"finish", "done"} => task[t].step \in Over

LEMMA TaskOf ==
  /\ \A t \in Tasks : t[1] \in Exports /\ t[2] \in Items /\ t = <<t[1], t[2]>> /\ t \in TasksOf(t[1])
  /\ \A e \in Exports : \A t \in TasksOf(e) : t \in Tasks /\ t[1] = e
BY DEF Tasks, TasksOf

LEMMA StepInitially == Init => StepInv
BY TaskOf DEF Init, StepInv, Phases, Steps, Before

\* An export goes on, its tasks do not, or one task goes on while its export waits for it.
LEMMA ExportEnters ==
  ASSUME StepInv, NEW e \in Exports, NEW p \in Phases, phase' = [phase EXCEPT ![e] = p],
         p # "idle", DOMAIN folder' = Exports, UNCHANGED <<task, swept>>,
         p \in Before \cup {"raised", "scan"} => phase[e] \in Before \cup {"raised"},
         p \in {"finish", "done"} => \A t \in TasksOf(e) : task[t].step \in Over
  PROVE  StepInv'
<1>1. \A f \in Exports : phase'[f] = IF f = e THEN p ELSE phase[f]
  BY DEF StepInv
<1> QED BY <1>1 DEF StepInv, Phases

LEMMA TaskSteps ==
  ASSUME StepInv, NEW t \in Tasks, phase[t[1]] = "parallel", NEW s \in Steps, NEW n,
         task' = [task EXCEPT ![t].step = s, ![t].number = n] \/ task' = [task EXCEPT ![t].step = s],
         UNCHANGED <<phase, folder, swept>>
  PROVE  /\ StepInv' /\ task'[t].step = s
         /\ \A u \in Tasks \ {t} : task'[u] = task[u]
<1>1. /\ \A u \in Tasks \ {t} : task'[u] = task[u]
      /\ task'[t].step = s /\ DOMAIN task'[t] = {"step", "number"} /\ DOMAIN task' = Tasks
  BY DEF StepInv
<1>2. \A f \in Exports : \A u \in TasksOf(f) : phase[f] # "parallel" => u # t /\ u \in Tasks
  BY TaskOf
<1> QED BY <1>1, <1>2, TaskOf DEF StepInv, Before

\* A task that runs has an export that waits for it.
LEMMA Waited ==
  ASSUME StepInv, NEW t \in Tasks, task[t].step \in {"request", "poll", "write"}
  PROVE  phase[t[1]] = "parallel"
BY TaskOf DEF StepInv, Phases, Before, Over

LEMMA StepKeeps ==
  ASSUME StepInv, [Next]_vars
  PROVE  StepInv'
<1>1. ASSUME NEW e \in Exports, Begin(e) \/ List(e) \/ NameFolder(e) PROVE StepInv'
  <2>1. /\ phase[e] \in Before /\ UNCHANGED <<task, swept>> /\ DOMAIN folder' = Exports
        /\ \E p \in {"list", "raised", "finish", "folder", "mkdir"} : phase' = [phase EXCEPT ![e] = p]
    BY <1>1 DEF Begin, List, NameFolder, Enter, DiskSame, Before, StepInv
  <2>2. \A t \in TasksOf(e) : task[t].step \in Over
    BY <2>1 DEF StepInv, Over
  <2> QED BY <2>1, <2>2, ExportEnters DEF Phases
<1>2. ASSUME NEW e \in Exports, MakeFolder(e) PROVE StepInv'
  <2>1. /\ phase[e] \in Before /\ UNCHANGED <<task, swept, folder>>
        /\ \E p \in {"scan", "raised"} : phase' = [phase EXCEPT ![e] = p]
    BY <1>2 DEF MakeFolder, Enter, Before
  <2> QED BY <2>1, ExportEnters DEF Phases, StepInv
<1>3. ASSUME NEW e \in Exports, Scan(e) PROVE StepInv'
  <2>1. UNCHANGED <<phase, folder, swept>> /\ phase[e] = "scan"
    BY <1>3 DEF Scan, DiskSame
  <2>2. \/ UNCHANGED task
        \/ \E S \in SUBSET Items :
             task' = [t \in Tasks |-> IF t[1] = e /\ t[2] \in S THEN [task[t] EXCEPT !.step = "queued"]
                                                               ELSE task[t]]
    BY <1>3 DEF Scan, ItemsOf
  <2>3. DOMAIN task' = Tasks /\ \A t \in Tasks :
          \/ task'[t] = task[t]
          \/ t[1] = e /\ DOMAIN task'[t] = {"step", "number"} /\ task'[t].step = "queued"
    BY <2>2 DEF StepInv
  <2> QED BY <2>1, <2>3, TaskOf DEF StepInv, Before, Steps
<1>4. ASSUME NEW e \in Exports, Scanned(e) PROVE StepInv'
  BY <1>4, ExportEnters DEF Scanned, Enter, DiskSame, Phases, StepInv, Before
<1>5. ASSUME NEW e \in Exports, Joined(e) \/ Raised(e) \/ Finish(e) PROVE StepInv'
  <2>1. /\ UNCHANGED <<task, swept, folder>>
        /\ \E p \in {"finish", "done"} : phase' = [phase EXCEPT ![e] = p]
    BY <1>5 DEF Joined, Raised, Finish, Enter, DiskSame
  <2>2. \A t \in TasksOf(e) : task[t].step \in Over
    BY <1>5 DEF Joined, Raised, Finish, StepInv, Over, Before
  <2> QED BY <2>1, <2>2, ExportEnters DEF Phases, StepInv, Before
<1>6. ASSUME NEW t \in Tasks, TaskStep(t) PROVE StepInv'
  <2>1. UNCHANGED <<phase, folder, swept>> /\ phase[t[1]] = "parallel"
    BY <1>6, Waited DEF TaskStep, StartTask, RequestAnswered, Polled, Write, DiskSame, exportVars
  <2>2. \E s \in Steps : \E n :
          task' = [task EXCEPT ![t].step = s, ![t].number = n] \/ task' = [task EXCEPT ![t].step = s]
    BY <1>6 DEF TaskStep, StartTask, RequestAnswered, Polled, Write, Step, Steps
  <2> QED BY <2>1, <2>2, TaskSteps
<1>7. CASE Cleanup
  BY <1>7 DEF Cleanup, StepInv, exportVars
<1>8. CASE Ages \/ AllDone \/ UNCHANGED vars
  BY <1>8 DEF Ages, AllDone, vars, exportVars, StepInv
<1> QED BY <1>1, <1>2, <1>3, <1>4, <1>5, <1>6, <1>7, <1>8 DEF Next, ExportStep

-----------------------------------------------------------------------------
(* Exports: the history row *)

\* From the moment it stops waiting for its tasks, an export that has seen no failure lists
\* every task it started; the row says what the export listed.
RowInv ==
  /\ DOMAIN result = Exports
  /\ \A e \in Exports :
       /\ DOMAIN result[e] = {"exported", "failed", "rows"}
       /\ \A i \in result[e].exported : i \in Items /\ task[<<e, i>>].step = "exported"
       /\ phase[e] \in {"finish", "done"} /\ ~result[e].failed =>
            \A t \in TasksOf(e) : task[t].step # "none" => t[2] \in result[e].exported
       /\ phase[e] # "done" => result[e].rows = {}
       /\ \A row \in result[e].rows :
            row.files = result[e].exported /\ row.success = ~result[e].failed

LEMMA RowInitially == Init => RowInv
BY TaskOf DEF Init, RowInv

\* Nothing is listed and no row is written but by the export itself, when it ends.
LEMMA TaskKeepsRow ==
  ASSUME StepInv, RowInv, UNCHANGED <<phase, result>>, DOMAIN task' = Tasks,
         \A t \in Tasks : task[t].step = "exported" => task'[t].step = "exported",
         \A t \in Tasks : phase[t[1]] \in {"finish", "done"} => task'[t] = task[t]
  PROVE  RowInv'
BY TaskOf DEF RowInv, Tasks

LEMMA ExportKeepsRow ==
  ASSUME StepInv, RowInv, NEW e \in Exports, NEW p \in Phases \ {"finish", "done"},
         phase' = [phase EXCEPT ![e] = p], phase[e] # "done", UNCHANGED <<task, result>>
  PROVE  RowInv'
<1>1. \A f \in Exports : phase'[f] = IF f = e THEN p ELSE phase[f]
  BY DEF StepInv
<1> QED BY <1>1 DEF RowInv

LEMMA RowKeeps ==
  ASSUME StepInv, RowInv, [Next]_vars
  PROVE  RowInv'
<1>1. ASSUME NEW e \in Exports, Begin(e) \/ NameFolder(e) \/ MakeFolder(e) \/ Scanned(e)
      PROVE  RowInv'
  <2>1. /\ phase[e] # "done" /\ UNCHANGED <<task, result>>
        /\ \E p \in {"list", "mkdir", "scan", "raised", "parallel"} : phase' = [phase EXCEPT ![e] = p]
    BY <1>1 DEF Begin, NameFolder, MakeFolder, Scanned, Enter, DiskSame
  <2> QED BY <2>1, ExportKeepsRow DEF Phases
<1>2. ASSUME NEW e \in Exports, List(e) PROVE RowInv'
  <2>1. phase[e] = "list" /\ UNCHANGED <<task, result>>
    BY <1>2 DEF List, DiskSame
  <2>2. CASE \E p \in {"raised", "folder"} : phase' = [phase EXCEPT ![e] = p]
    BY <2>1, <2>2, ExportKeepsRow DEF Phases
  <2>3. CASE phase' = [phase EXCEPT ![e] = "finish"]
    <3>1. \A t \in TasksOf(e) : task[t].step = "none"
      BY <2>1 DEF StepInv, Before
    <3>2. \A f \in Exports : phase'[f] = IF f = e THEN "finish" ELSE phase[f]
      BY <2>3 DEF StepInv
    <3> QED BY <2>1, <3>1, <3>2 DEF RowInv
  <2> QED BY <1>2, <2>2, <2>3 DEF List, Enter
<1>3. ASSUME NEW e \in Exports, Scan(e) PROVE RowInv'
  <2>1. UNCHANGED phase /\ phase[e] = "scan"
    BY <1>3 DEF Scan, DiskSame
  <2>2. /\ DOMAIN task' = Tasks
        /\ \A t \in Tasks : task'[t] = task[t] \/ (t[1] = e /\ t[2] \in Items)
    BY <1>3 DEF Scan, ItemsOf, StepInv
  <2>3. /\ DOMAIN result' = Exports
        /\ \A f \in Exports : f # e => result'[f] = result[f]
        /\ DOMAIN result'[e] = {"exported", "failed", "rows"}
        /\ result'[e].exported = result[e].exported /\ result'[e].rows = result[e].rows
    BY <1>3 DEF Scan, Fail, RowInv
  <2>4. result[e].exported = {} /\ result[e].rows = {}
    <3>1. \A i \in Items : <<e, i>> \in TasksOf(e)
      BY DEF TasksOf
    <3>2. \A i \in Items : task[<<e, i>>].step \in {"none", "queued"}
      BY <2>1, <3>1 DEF StepInv
    <3> QED BY <2>1, <3>2 DEF RowInv
  <2>5. \A f \in Exports : f # e => \A t \in TasksOf(f) : task'[t] = task[t]
    BY <2>2, TaskOf
  <2>6. ASSUME NEW f \in Exports, f # e, NEW i \in result'[f].exported
        PROVE  i \in Items /\ task'[<<f, i>>].step = "exported"
    BY <2>3, <2>5, <2>6 DEF RowInv, TasksOf
  <2> QED BY <2>1, <2>3, <2>4, <2>5, <2>6 DEF RowInv
<1>4. ASSUME NEW e \in Exports, Joined(e) PROVE RowInv'
  <2>1. /\ phase[e] = "parallel" /\ phase' = [phase EXCEPT ![e] = "finish"] /\ UNCHANGED task
        /\ \A t \in TasksOf(e) : task[t].step \in Over /\ result' = Collected(e)
    BY <1>4 DEF Joined, Enter, DiskSame, Over
  <2>2. \A f \in Exports : phase'[f] = IF f = e THEN "finish" ELSE phase[f]
    BY <2>1 DEF StepInv
  <2> DEFINE got == {t[2] : t \in {u \in TasksOf(e) : task[u].step = "exported"}}
             lost == \E t \in TasksOf(e) : task[t].step = "failed"
             bad == result[e].failed \/ lost
  <2>3. result' = [result EXCEPT ![e].exported = got, ![e].failed = bad]
    BY <1>4 DEF Joined, Collected, RowInv
  <2>4. /\ \A i \in got : i \in Items /\ task[<<e, i>>].step = "exported"
        /\ ~bad => \A t \in TasksOf(e) : task[t].step # "none" => t[2] \in got
    BY <2>1, TaskOf DEF Over, TasksOf
  <2> HIDE DEF got, lost, bad
  <2>5. /\ DOMAIN result' = Exports
        /\ \A f \in Exports : f # e => result'[f] = result[f]
        /\ DOMAIN result'[e] = {"exported", "failed", "rows"}
        /\ result'[e].exported = got /\ result'[e].rows = result[e].rows
        /\ result'[e].failed = bad
    BY <2>3 DEF RowInv
  <2>6. result[e].rows = {}
    BY <2>1 DEF RowInv
  <2> QED BY <2>1, <2>2, <2>4, <2>5, <2>6 DEF RowInv
<1>5. ASSUME NEW e \in Exports, Raised(e) PROVE RowInv'
  <2>1. phase[e] = "raised" /\ UNCHANGED task
    BY <1>5 DEF Raised, DiskSame
  <2>2. \A f \in Exports : phase'[f] = IF f = e THEN "finish" ELSE phase[f]
    BY <1>5 DEF StepInv, Raised, Enter
  <2>3. /\ DOMAIN result' = Exports
        /\ \A f \in Exports : f # e => result'[f] = result[f]
        /\ DOMAIN result'[e] = {"exported", "failed", "rows"}
        /\ result'[e].exported = result[e].exported /\ result'[e].rows = result[e].rows
        /\ result'[e].failed
    <3> DEFINE bad == result[e].failed \/ TRUE
    <3>1. bad /\ result' = [result EXCEPT ![e].failed = bad]
      BY <1>5 DEF Raised, Fail
    <3> HIDE DEF bad
    <3>2. DOMAIN result = Exports /\ DOMAIN result[e] = {"exported", "failed", "rows"}
      BY DEF RowInv
    <3> QED BY <3>1, <3>2
  <2> QED BY <2>1, <2>2, <2>3 DEF RowInv
<1>6. ASSUME NEW e \in Exports, Finish(e) PROVE RowInv'
  <2>1. phase[e] = "finish" /\ UNCHANGED task
    BY <1>6 DEF Finish, DiskSame
  <2>2. \A f \in Exports : phase'[f] = IF f = e THEN "done" ELSE phase[f]
    BY <1>6 DEF StepInv, Finish, Enter
  <2>3. CASE UNCHANGED result
    BY <2>1, <2>2, <2>3 DEF RowInv
  <2>4. CASE AddExportHistory(e)
    <3> DEFINE row == [success |-> ~result[e].failed, files |-> result[e].exported]
    <3>1. row.files = result[e].exported /\ row.success = ~result[e].failed
      OBVIOUS
    <3>2. result' = [result EXCEPT ![e].rows = {row}]
      BY <2>4 DEF AddExportHistory
    <3> HIDE DEF row
    <3>3. /\ DOMAIN result' = Exports
          /\ \A f \in Exports : f # e => result'[f] = result[f]
          /\ DOMAIN result'[e] = {"exported", "failed", "rows"}
          /\ result'[e].exported = result[e].exported /\ result'[e].rows = {row}
          /\ result'[e].failed = result[e].failed
      BY <3>2 DEF RowInv
    <3> QED BY <2>1, <2>2, <3>1, <3>3 DEF RowInv
  <2> QED BY <1>6, <2>3, <2>4 DEF Finish
<1>7. ASSUME NEW t \in Tasks, TaskStep(t) PROVE RowInv'
  <2>1. UNCHANGED <<phase, result>> /\ phase[t[1]] = "parallel"
    BY <1>7, Waited DEF TaskStep, StartTask, RequestAnswered, Polled, Write, DiskSame, exportVars
  <2>2. task[t].step # "exported" /\ DOMAIN task' = Tasks /\ \A u \in Tasks \ {t} : task'[u] = task[u]
    BY <1>7 DEF TaskStep, StartTask, RequestAnswered, Polled, Write, Step, StepInv
  <2> QED BY <2>1, <2>2, TaskKeepsRow
<1>8. CASE Cleanup \/ Ages \/ AllDone \/ UNCHANGED vars
  BY <1>8 DEF Cleanup, Ages, AllDone, vars, exportVars, RowInv
<1> QED BY <1>1, <1>2, <1>3, <1>4, <1>5, <1>6, <1>7, <1>8 DEF Next, ExportStep

LEMMA RowsSettled == StepInv /\ RowInv => RowIsFinal
<1> SUFFICES ASSUME StepInv, RowInv, NEW e \in Exports, NEW row \in result[e].rows,
                    NEW t \in TasksOf(e)
             PROVE  /\ task[t].step \in Over
                    /\ row.success /\ task[t].step # "none" => t[2] \in row.files
  BY DEF RowIsFinal, Over
<1>1. phase[e] = "done"
  BY DEF RowInv
<1> QED BY <1>1 DEF StepInv, RowInv

-----------------------------------------------------------------------------
(* Exports: the disk *)

\* A file holds a task that has written it; what has a folder or a path has a number.
HeldInv ==
  /\ DOMAIN files = Files
  /\ \A p \in Files : files[p] # NoFile =>
       files[p] \in Tasks /\ task[files[p]].step = "exported" /\ Path(files[p]) = p
  /\ \A e \in Exports : phase[e] = "mkdir" \/ Made(e) => folder[e] \in Numbers
  /\ \A t \in Tasks : task[t].step \in Writing => task[t].number \in Numbers

\* A directory is the folder of an export that got past mkdir.  Until a clean-up, an export
\* has a folder on disk that is no other's.
FolderInv ==
  /\ \A d \in folders : \E g \in Exports : phase[g] \notin Before /\ d = FolderOf(g)
  /\ \A e \in Exports \ swept : Made(e) => FolderOf(e) \in folders
  /\ \A e, f \in Exports \ swept : Made(e) /\ Made(f) /\ e # f => FolderOf(e) # FolderOf(f)

\* Until a clean-up, two tasks of one export have one path only when they raced for it, and
\* what was written stays, but for such twins.
TwinInv ==
  /\ \A t, u \in Tasks :
       /\ t # u /\ t[1] = u[1] /\ t[1] \notin swept /\ Path(t) = Path(u)
       /\ task[t].step \in Writing /\ task[u].step \in Writing
       => t \in raced /\ u \in raced
  /\ \A t \in Tasks : t[1] \notin swept /\ task[t].step = "exported" => files[Path(t)] # NoFile
  /\ swept = {} =>
       \A t \in Tasks : task[t].step = "exported" => files[Path(t)] = t \/ t \in raced

DiskInv == HeldInv /\ FolderInv /\ TwinInv

LEMMA DiskInitially == Init => DiskInv
BY TaskOf DEF Init, DiskInv, HeldInv, FolderInv, TwinInv, Made, Writing

LEMMA HasMade ==
  ASSUME NEW t \in Tasks, task[t].step # "none"
  PROVE  Made(t[1])
BY TaskOf DEF Made

\* A path of an export that has its folder is one of Files.
LEMMA PathIn ==
  ASSUME HeldInv, NEW t \in Tasks, Made(t[1]), NEW n \in Numbers
  PROVE  PathOf(t, n) \in Files
BY TaskOf DEF HeldInv, PathOf, FolderOf, Files, Folders

\* Paths do not move under a step that leaves folders and numbers of the tasks at work.
LEMMA DiskKeeps ==
  ASSUME StepInv, DiskInv, UNCHANGED <<folders, files, swept, raced>>,
         \A e \in Exports : phase[e] \notin Before => phase'[e] \notin Before /\ folder'[e] = folder[e],
         \A e \in Exports : Made(e)' => Made(e) /\ folder'[e] = folder[e],
         \A e \in Exports : phase'[e] = "mkdir" => folder'[e] \in Numbers,
         \A t \in Tasks : task'[t].step \in Writing =>
           task[t].step \in Writing /\ task'[t].number = task[t].number /\ Made(t[1])',
         \A t \in Tasks : task[t].step = "exported" <=> task'[t].step = "exported"
  PROVE  DiskInv'
<1>1. \A t \in Tasks : task'[t].step \in Writing => Path(t)' = Path(t)
  BY TaskOf DEF Path, PathOf, FolderOf
<1>2. \A e \in Exports : Made(e)' \/ phase[e] \notin Before => FolderOf(e)' = FolderOf(e)
  BY DEF FolderOf
<1>3. HeldInv'
  <2>1. \A p \in Files : files[p] # NoFile =>
          files[p] \in Tasks /\ task'[files[p]].step = "exported" /\ Path(files[p])' = p
    BY <1>1 DEF DiskInv, HeldInv, Writing
  <2> QED BY <2>1 DEF DiskInv, HeldInv
<1>4. FolderInv'
  BY <1>2 DEF DiskInv, FolderInv
<1>5. TwinInv'
  <2>1. \A t \in Tasks : task'[t].step = "exported" => Path(t)' = Path(t)
    BY <1>1 DEF Writing
  <2> QED BY <1>1, <2>1 DEF DiskInv, TwinInv
<1> QED BY <1>3, <1>4, <1>5 DEF DiskInv

-----------------------------------------------------------------------------
(* Exports: there is always a free name *)

\* There are more numbers than other tasks.
LEMMA Collision ==
  ASSUME NEW t \in Tasks, NEW f \in [Numbers -> Tasks \ {t}]
  PROVE  \E m, n \in Numbers : m # n /\ f[m] = f[n]
<1> DEFINE T == Tasks \ {t}
<1>1. IsFiniteSet(Numbers) /\ IsFiniteSet(T) /\ Cardinality(T) < Cardinality(Numbers)
  BY NumberOfTasks
<1>2. f \in [Numbers -> T]
  OBVIOUS
<1> HIDE DEF T
<1> QED BY ONLY <1>1, <1>2, FS_PigeonHole

LEMMA FreeFile ==
  ASSUME HeldInv, NEW t \in Tasks, Made(t[1]), task[t].step = "queued"
  PROVE  \E m \in Numbers : files[PathOf(t, m)] = NoFile
<1> SUFFICES ASSUME \A m \in Numbers : files[PathOf(t, m)] # NoFile PROVE FALSE
  OBVIOUS
<1> DEFINE f == [m \in Numbers |-> files[PathOf(t, m)]]
<1>1. \A m \in Numbers : f[m] \in Tasks \ {t} /\ Path(f[m]) = PathOf(t, m)
  BY PathIn DEF HeldInv
<1>2. f \in [Numbers -> Tasks \ {t}]
  BY <1>1
<1> HIDE DEF f
<1>3. PICK m, n \in Numbers : m # n /\ f[m] = f[n]
  BY <1>2, Collision
<1>4. PathOf(t, m) = PathOf(t, n)
  BY <1>1, <1>3
<1> QED BY <1>3, <1>4 DEF PathOf

LEMMA FreeFolder ==
  ASSUME StepInv, FolderInv, NEW e \in Exports, phase[e] \in Before
  PROVE  \E k \in Numbers : <<Base[e], k>> \notin folders
<1> SUFFICES ASSUME \A k \in Numbers : <<Base[e], k>> \in folders PROVE FALSE
  OBVIOUS
<1>1. PICK i \in Items : TRUE
  OBVIOUS
<1> DEFINE owner(k) == CHOOSE g \in Exports : phase[g] \notin Before /\ <<Base[e], k>> = FolderOf(g)
           f == [k \in Numbers |-> <<owner(k), i>>]
<1>2. \A k \in Numbers : owner(k) \in Exports \ {e} /\ <<Base[e], k>> = FolderOf(owner(k))
  BY DEF FolderInv
<1> HIDE DEF owner
<1>3. f \in [Numbers -> Tasks \ {<<e, i>>}] /\ \A k \in Numbers : f[k] = <<owner(k), i>>
  BY <1>1, <1>2 DEF Tasks
<1> HIDE DEF f
<1>4. <<e, i>> \in Tasks
  BY <1>1 DEF Tasks
<1>5. PICK k, n \in Numbers : k # n /\ f[k] = f[n]
  BY <1>3, <1>4, Collision
<1>6. FolderOf(owner(k)) = FolderOf(owner(n))
  BY <1>3, <1>5
<1>7. <<Base[e], k>> = <<Base[e], n>>
  BY <1>2, <1>6
<1> QED BY <1>5, <1>7

-----------------------------------------------------------------------------
(* Exports: each step leaves the disk in order *)

LEMMA ExportKeepsDisk ==
  ASSUME StepInv, DiskInv, NEW e \in Exports,
         Begin(e) \/ List(e) \/ NameFolder(e) \/ Scan(e) \/ Scanned(e) \/ Joined(e) \/ Raised(e) \/ Finish(e)
  PROVE  DiskInv'
<1>1. UNCHANGED <<folders, files, swept, raced>> /\ \A f \in Exports : f # e => phase'[f] = phase[f]
  BY DEF Begin, List, NameFolder, Scan, Scanned, Joined, Raised, Finish, Enter, DiskSame, StepInv
<1>2. \A f \in Exports : f # e => folder'[f] = folder[f]
  BY DEF Begin, List, NameFolder, Scan, Scanned, Joined, Raised, Finish, DiskSame, StepInv
<1>3. \A t \in Tasks : task'[t] = task[t] \/ (t[1] = e /\ phase[e] = "scan" /\ task'[t].step = "queued")
  <2>1. CASE Scan(e)
    <3>1. \/ UNCHANGED task
          \/ \E S : task' = [t \in Tasks |-> IF t[1] = e /\ t[2] \in S THEN [task[t] EXCEPT !.step = "queued"]
                                                                       ELSE task[t]]
      BY <2>1 DEF Scan
    <3>2. \A t \in Tasks : task'[t] = task[t] \/ (t[1] = e /\ task'[t].step = "queued")
      BY <3>1 DEF StepInv
    <3> QED BY <2>1, <3>2 DEF Scan
  <2>2. CASE ~Scan(e)
    BY <2>2 DEF Begin, List, NameFolder, Scanned, Joined, Raised, Finish
  <2> QED BY <2>1, <2>2
<1>4. \A t \in Tasks : phase[t[1]] = "scan" => task[t].step \notin Writing
  BY TaskOf DEF StepInv, Writing
<1>5. \A t \in Tasks : /\ task'[t].step \in Writing => task'[t] = task[t] /\ Made(t[1])'
                       /\ task[t].step = "exported" <=> task'[t].step = "exported"
  BY <1>3, <1>4, TaskOf DEF Writing, Made
<1>6. \A f \in Exports : f # e => (Made(f)' <=> Made(f))
  BY <1>1, <1>3, TaskOf DEF Made
<1>7. CASE NameFolder(e)
  <2>1. /\ phase[e] = "folder" /\ phase'[e] = "mkdir" /\ UNCHANGED task
        /\ folder'[e] = Least({k \in Numbers : <<Base[e], k>> \notin folders})
    BY <1>7 DEF NameFolder, Enter, StepInv
  <2>2. ~Made(e)'
    BY <2>1 DEF Made, StepInv, Before
  <2>3. Numbers \subseteq Nat
    BY DEF Numbers
  <2>4. folder'[e] \in Numbers
    <3> DEFINE S == {k \in Numbers : <<Base[e], k>> \notin folders}
    <3>1. S # {} /\ S \subseteq Nat
      BY <2>1, <2>3, FreeFolder DEF DiskInv, Before
    <3>2. Least(S) \in S
      BY <3>1, LeastIn
    <3> QED BY <2>1, <3>2
  <2>5. \A f \in Exports : phase[f] \notin Before => f # e
    BY <2>1 DEF Before
  <2> QED BY <1>1, <1>2, <1>5, <1>6, <2>1, <2>2, <2>4, <2>5, DiskKeeps DEF DiskInv, HeldInv
<1>8. CASE ~NameFolder(e)
  <2>1. UNCHANGED folder
    BY <1>8 DEF Begin, List, Scan, Scanned, Joined, Raised, Finish, DiskSame
  <2>2. /\ phase'[e] # "mkdir"
        /\ phase[e] \notin Before => phase'[e] \notin Before
        /\ phase'[e] \in {"scan", "parallel"} => phase[e] = "scan"
    BY <1>8 DEF Begin, List, Scan, Scanned, Joined, Raised, Finish, Enter, StepInv, Before
  <2>3. Made(e)' => Made(e)
    BY <1>3, <2>2, TaskOf DEF Made
  <2> QED BY <1>1, <1>5, <1>6, <2>1, <2>2, <2>3, DiskKeeps DEF DiskInv, HeldInv
<1> QED BY <1>7, <1>8

LEMMA MakeFolderKeepsDisk ==
  ASSUME StepInv, DiskInv, NEW e \in Exports, MakeFolder(e)
  PROVE  DiskInv'
<1>1. /\ phase[e] = "mkdir" /\ UNCHANGED <<files, swept, raced, folder, task>>
      /\ \A f \in Exports : f # e => phase'[f] = phase[f]
      /\ phase'[e] \in {"scan", "raised"}
  BY DEF MakeFolder, Enter, StepInv
<1>2. \A t \in TasksOf(e) : task[t].step = "none"
  BY <1>1 DEF StepInv, Before
<1>3. /\ ~Made(e) /\ folder[e] \in Numbers
      /\ \A f \in Exports : f # e => (Made(f)' <=> Made(f))
      /\ \A f \in Exports : FolderOf(f)' = FolderOf(f)
      /\ \A f \in Exports : phase[f] \notin Before => phase'[f] \notin Before
  BY <1>1, <1>2 DEF Made, DiskInv, HeldInv, FolderOf, Before
<1>5. \A t \in Tasks : Path(t)' = Path(t)
  BY <1>1 DEF Path, PathOf, FolderOf
<1>6. HeldInv'
  BY <1>1, <1>3, <1>5 DEF DiskInv, HeldInv
<1>7. TwinInv'
  BY <1>1, <1>5 DEF DiskInv, TwinInv
<1>8. FolderInv'
  <2>1. CASE FolderOf(e) \notin folders /\ folders' = folders \cup {FolderOf(e)}
    <3>1. phase'[e] \notin Before
      BY <1>1 DEF Before
    <3> QED BY <1>1, <1>3, <2>1, <3>1 DEF DiskInv, FolderInv
  <2>2. CASE UNCHANGED folders /\ phase'[e] = "raised"
    <3>1. ~Made(e)'
      BY <1>1, <1>2, <2>2 DEF Made
    <3> QED BY <1>1, <1>3, <2>2, <3>1 DEF DiskInv, FolderInv
  <2> QED BY <2>1, <2>2 DEF MakeFolder, Enter, StepInv
<1> QED BY <1>6, <1>7, <1>8 DEF DiskInv

LEMMA StartKeepsDisk ==
  ASSUME StepInv, DiskInv, NEW t \in Tasks, StartTask(t)
  PROVE  DiskInv'
<1> DEFINE free == {m \in Numbers : files[PathOf(t, m)] = NoFile}
           n == Least(free)
           same == {u \in Running(t[1]) : Path(u) = PathOf(t, n)}
<1>1. /\ phase[t[1]] = "parallel" /\ task[t].step = "queued"
      /\ UNCHANGED <<folders, files, swept, phase, folder>>
      /\ task' = [task EXCEPT ![t].step = "request", ![t].number = n]
      /\ raced' = IF same = {} THEN raced ELSE raced \cup same \cup {t}
  BY DEF StartTask, DiskSame, exportVars
<1>2. n \in Numbers /\ files[PathOf(t, n)] = NoFile
  <2>1. free # {} /\ free \subseteq Nat
    BY <1>1, FreeFile, HasMade DEF DiskInv, Numbers
  <2> QED BY <2>1, LeastIn
<1> HIDE DEF n, free
<1>3. /\ \A u \in Tasks \ {t} : task'[u] = task[u] /\ Path(u)' = Path(u)
      /\ task'[t].step = "request" /\ task'[t].number = n /\ Path(t)' = PathOf(t, n)
  BY <1>1 DEF StepInv, Path, PathOf, FolderOf
<1>4. /\ \A e \in Exports : (Made(e)' <=> Made(e)) /\ FolderOf(e)' = FolderOf(e)
      /\ Made(t[1])
  <2>1. \A e \in Exports \ {t[1]} : \A u \in TasksOf(e) : task'[u] = task[u]
    BY <1>3, TaskOf
  <2>2. Made(t[1]) /\ Made(t[1])'
    BY <1>1 DEF Made
  <2>3. \A e \in Exports \ {t[1]} : Made(e)' <=> Made(e)
    BY <1>1, <2>1 DEF Made
  <2>4. \A e \in Exports : FolderOf(e)' = FolderOf(e)
    BY <1>1 DEF FolderOf
  <2> QED BY <2>2, <2>3, <2>4
<1>5. HeldInv'
  <2>1. \A p \in Files : files[p] # NoFile => files[p] \in Tasks \ {t}
    BY <1>1 DEF DiskInv, HeldInv
  <2>2. \A p \in Files : files[p] # NoFile =>
          task'[files[p]].step = "exported" /\ Path(files[p])' = p
    BY <1>1, <1>3, <2>1 DEF DiskInv, HeldInv
  <2>3. \A e \in Exports : phase[e] = "mkdir" \/ Made(e)' => folder[e] \in Numbers
    BY <1>4 DEF DiskInv, HeldInv
  <2>4. \A u \in Tasks : task'[u].step \in Writing => task'[u].number \in Numbers
    BY <1>2, <1>3 DEF DiskInv, HeldInv
  <2> QED BY <1>1, <2>1, <2>2, <2>3, <2>4 DEF DiskInv, HeldInv
<1>6. FolderInv'
  BY <1>1, <1>4 DEF DiskInv, FolderInv
<1>7. TwinInv'
  <2>1. ASSUME NEW u \in Tasks, u # t, u[1] = t[1], t[1] \notin swept, Path(u) = PathOf(t, n),
               task[u].step \in Writing
        PROVE  u \in raced' /\ t \in raced'
    <3>1. task[u].step # "exported"
      BY <1>2, <2>1 DEF DiskInv, TwinInv
    <3>2. u \in same
      BY <2>1, <3>1, TaskOf DEF Running, Writing
    <3> QED BY <1>1, <3>2
  <2>2. raced \subseteq raced'
    BY <1>1
  <2>3. \A u \in Tasks : task'[u].step = "exported" => u # t
    BY <1>3
  <2>4. ASSUME NEW u \in Tasks, NEW w \in Tasks, u # w, u[1] = w[1], u[1] \notin swept,
               Path(u)' = Path(w)', task'[u].step \in Writing, task'[w].step \in Writing
        PROVE  u \in raced' /\ w \in raced'
    <3>1. CASE u = t
      BY <1>3, <2>1, <2>4, <3>1
    <3>2. CASE w = t
      BY <1>3, <2>1, <2>4, <3>2
    <3>3. CASE u # t /\ w # t
      BY <1>3, <2>2, <2>4, <3>3 DEF DiskInv, TwinInv
    <3> QED BY <3>1, <3>2, <3>3
  <2> QED BY <1>1, <1>3, <2>2, <2>3, <2>4 DEF DiskInv, TwinInv
<1> QED BY <1>5, <1>6, <1>7 DEF DiskInv

\* Two exports that no clean-up met never meet in a path.
LEMMA Apart ==
  ASSUME FolderInv, NEW t \in Tasks, NEW u \in Tasks, t[1] \notin swept, u[1] \notin swept,
         task[t].step # "none", task[u].step # "none", Path(t) = Path(u)
  PROVE  t[1] = u[1]
<1>1. Made(t[1]) /\ Made(u[1]) /\ t[1] \in Exports /\ u[1] \in Exports
  BY HasMade, TaskOf
<1>2. FolderOf(t[1]) = FolderOf(u[1])
  BY DEF Path, PathOf
<1> QED BY <1>1, <1>2 DEF FolderInv

LEMMA WriteKeepsDisk ==
  ASSUME StepInv, DiskInv, NEW t \in Tasks, task[t].step = "write",
         files' = [files EXCEPT ![Path(t)] = t], folders' = folders \cup {FolderOf(t[1])},
         task' = [task EXCEPT ![t].step = "exported"], UNCHANGED <<phase, folder, raced, swept>>
  PROVE  DiskInv'
<1>1. /\ Made(t[1]) /\ phase[t[1]] = "parallel"
      /\ task[t].number \in Numbers /\ Path(t) \in Files
  BY HasMade, Waited, PathIn DEF DiskInv, HeldInv, Writing, Path
<1>2. /\ \A p \in Files : files'[p] = IF p = Path(t) THEN t ELSE files[p]
      /\ DOMAIN files' = Files
  BY DEF DiskInv, HeldInv
<1>3. /\ \A u \in Tasks \ {t} : task'[u] = task[u]
      /\ task'[t].step = "exported" /\ task'[t].number = task[t].number
      /\ \A u \in Tasks : Path(u)' = Path(u)
  BY DEF StepInv, Path, PathOf, FolderOf
<1>4. \A e \in Exports : (Made(e)' <=> Made(e)) /\ FolderOf(e)' = FolderOf(e)
  <2>1. \A e \in Exports \ {t[1]} : \A u \in TasksOf(e) : task'[u] = task[u]
    BY <1>3, TaskOf
  <2>2. Made(t[1]) /\ Made(t[1])'
    BY <1>1 DEF Made
  <2>3. \A e \in Exports \ {t[1]} : Made(e)' <=> Made(e)
    BY <2>1 DEF Made
  <2>4. \A e \in Exports : FolderOf(e)' = FolderOf(e)
    BY DEF FolderOf
  <2> QED BY <2>2, <2>3, <2>4
<1>5. t # NoFile
  BY DEF Tasks
<1>6. HeldInv'
  <2>1. ASSUME NEW p \in Files, files'[p] # NoFile
        PROVE  \E u \in Tasks : files'[p] = u /\ task'[u].step = "exported" /\ Path(u) = p
    <3>1. CASE p = Path(t)
      BY <1>2, <1>3, <3>1
    <3>2. CASE p # Path(t)
      BY <1>2, <1>3, <2>1, <3>2 DEF DiskInv, HeldInv
    <3> QED BY <3>1, <3>2
  <2>2. \A p \in Files : files'[p] # NoFile =>
          files'[p] \in Tasks /\ task'[files'[p]].step = "exported" /\ Path(files[p])' = p
    BY <1>3, <2>1
  <2>3. \A e \in Exports : phase[e] = "mkdir" \/ Made(e)' => folder[e] \in Numbers
    BY <1>4 DEF DiskInv, HeldInv
  <2>4. \A u \in Tasks : task'[u].step \in Writing => task'[u].number \in Numbers
    BY <1>1, <1>3 DEF DiskInv, HeldInv
  <2> QED BY <1>2, <2>2, <2>3, <2>4 DEF HeldInv
<1>7. FolderInv'
  <2>1. phase[t[1]] \notin Before
    BY <1>1 DEF Before
  <2>2. \A d \in folders' : \E g \in Exports : phase'[g] \notin Before /\ d = FolderOf(g)'
    BY <1>4, <2>1, TaskOf DEF DiskInv, FolderInv
  <2>3. \A e \in Exports \ swept : Made(e)' => FolderOf(e)' \in folders'
    BY <1>4 DEF DiskInv, FolderInv
  <2>4. \A e, f \in Exports \ swept : Made(e)' /\ Made(f)' /\ e # f => FolderOf(e)' # FolderOf(f)'
    BY <1>4 DEF DiskInv, FolderInv
  <2> QED BY <2>2, <2>3, <2>4 DEF FolderInv
<1>8. TwinInv'
  <2>1. \A u \in Tasks : task'[u].step \in Writing => task[u].step \in Writing
    BY <1>3 DEF Writing
  <2>2. ASSUME NEW u \in Tasks, NEW w \in Tasks, u # w, u[1] = w[1], u[1] \notin swept,
               Path(u)' = Path(w)', task'[u].step \in Writing, task'[w].step \in Writing
        PROVE  u \in raced' /\ w \in raced'
    BY <1>3, <2>1, <2>2 DEF DiskInv, TwinInv
  <2>3. \A u \in Tasks : task'[u].step = "exported" => u = t \/ (u # t /\ task[u].step = "exported")
    BY <1>3
  <2>4. \A u \in Tasks : task[u].step = "exported" => Path(u) \in Files
    BY HasMade, PathIn DEF DiskInv, HeldInv, Writing, Path
  <2>5. ASSUME NEW u \in Tasks, u[1] \notin swept', task'[u].step = "exported"
        PROVE  files'[Path(u)'] # NoFile
    BY <1>1, <1>2, <1>3, <1>5, <2>3, <2>4, <2>5 DEF DiskInv, TwinInv
  <2>6. ASSUME swept' = {}, NEW u \in Tasks, task'[u].step = "exported"
        PROVE  files'[Path(u)'] = u \/ u \in raced'
    <3>1. CASE u = t
      BY <1>1, <1>2, <1>3, <3>1
    <3>2. CASE u # t /\ Path(u) = Path(t)
      <4>1. task[u].step = "exported"
        BY <1>3, <2>6, <3>2
      <4>2. u[1] = t[1]
        BY <2>6, <3>2, <4>1, Apart DEF DiskInv
      <4> QED BY <2>6, <3>2, <4>1, <4>2 DEF DiskInv, TwinInv, Writing
    <3>3. CASE u # t /\ Path(u) # Path(t)
      BY <1>2, <1>3, <2>3, <2>4, <2>6, <3>3 DEF DiskInv, TwinInv
    <3> QED BY <3>1, <3>2, <3>3
  <2> QED BY <2>2, <2>5, <2>6 DEF TwinInv
<1> QED BY <1>6, <1>7, <1>8 DEF DiskInv

\* After a clean-up nothing is promised to the exports it met, and the others have no task.
LEMMA CleanupKeepsDisk ==
  ASSUME StepInv, DiskInv, Cleanup
  PROVE  DiskInv'
<1>1. /\ folders' = {} /\ files' = [p \in Files |-> NoFile]
      /\ swept' = {e \in Exports : phase[e] # "idle"}
      /\ UNCHANGED <<phase, folder, task, raced>>
  BY DEF Cleanup, exportVars
<1>2. \A e \in Exports \ swept' : phase[e] = "idle" /\ \A t \in TasksOf(e) : task[t].step = "none"
  BY <1>1 DEF StepInv, Before
<1>3. \A e \in Exports : Made(e)' <=> Made(e)
  BY <1>1 DEF Made
<1>4. \A e \in Exports \ swept' : ~Made(e)
  BY <1>2 DEF Made
<1>5. \A t \in Tasks : t[1] \notin swept' => task[t].step = "none"
  BY <1>2, TaskOf
<1>6. HeldInv'
  BY <1>1, <1>3 DEF DiskInv, HeldInv
<1>7. FolderInv'
  BY <1>1, <1>3, <1>4 DEF FolderInv
<1>8. TwinInv'
  BY <1>1, <1>5 DEF TwinInv, Writing
<1> QED BY <1>6, <1>7, <1>8 DEF DiskInv

\* An answer, a poll or a failed write moves no path.
LEMMA TaskKeepsDisk ==
  ASSUME StepInv, DiskInv, NEW t \in Tasks, NEW s \in {"write", "poll", "failed"},
         task[t].step \in {"request", "poll", "write"}, task' = [task EXCEPT ![t].step = s],
         UNCHANGED <<folders, files, swept, raced, phase, folder>>
  PROVE  DiskInv'
<1>1. /\ \A u \in Tasks \ {t} : task'[u] = task[u]
      /\ task'[t].step = s /\ task'[t].number = task[t].number
  BY DEF StepInv
<1>2. phase[t[1]] = "parallel" /\ Made(t[1])
  BY Waited, HasMade
<1>3. \A e \in Exports : Made(e)' => Made(e)
  BY <1>1, <1>2, TaskOf DEF Made
<1>4. \A u \in Tasks : /\ task'[u].step \in Writing =>
                            task[u].step \in Writing /\ task'[u].number = task[u].number /\ Made(u[1])'
                       /\ task[u].step = "exported" <=> task'[u].step = "exported"
  BY <1>1, TaskOf DEF Writing, Made
<1> QED BY <1>3, <1>4, DiskKeeps DEF DiskInv, HeldInv

LEMMA DiskPreserved ==
  ASSUME StepInv, DiskInv, [Next]_vars
  PROVE  DiskInv'
<1>1. ASSUME NEW t \in Tasks, RequestAnswered(t) \/ Polled(t) PROVE DiskInv'
  BY <1>1, TaskKeepsDisk DEF RequestAnswered, Polled, DiskSame, exportVars, Step
<1>2. ASSUME NEW t \in Tasks, Write(t) PROVE DiskInv'
  <2>1. task[t].step = "write" /\ UNCHANGED <<phase, folder, raced, swept>>
    BY <1>2 DEF Write, exportVars
  <2>2. CASE Step(t, "failed") /\ UNCHANGED <<files, folders, aged>>
    BY <2>1, <2>2, TaskKeepsDisk DEF Step
  <2>3. CASE ~(Step(t, "failed") /\ UNCHANGED <<files, folders, aged>>)
    BY <1>2, <2>1, <2>3, WriteKeepsDisk DEF Write, Step
  <2> QED BY <2>2, <2>3
<1>3. CASE Ages \/ AllDone \/ UNCHANGED vars
  <2>1. UNCHANGED <<folders, files, swept, raced, phase, folder, task>>
    BY <1>3 DEF Ages, AllDone, vars, exportVars
  <2>2. \A e \in Exports : Made(e)' <=> Made(e)
    BY <2>1 DEF Made
  <2> QED BY <2>1, <2>2, HasMade, TaskOf, DiskKeeps DEF DiskInv, HeldInv, Writing
<1> QED BY <1>1, <1>2, <1>3, ExportKeepsDisk, MakeFolderKeepsDisk, StartKeepsDisk, CleanupKeepsDisk
        DEF Next, ExportStep, TaskStep

LEMMA RowsOnDisk == StepInv /\ RowInv /\ DiskInv => ReportedOnDisk
<1> SUFFICES ASSUME RowInv, DiskInv, swept = {}, NEW e \in Exports, NEW row \in result[e].rows,
                    NEW i \in row.files
             PROVE  files[Path(<<e, i>>)] = <<e, i>> \/ <<e, i>> \in raced
  BY DEF ReportedOnDisk
<1>1. <<e, i>> \in Tasks /\ task[<<e, i>>].step = "exported"
  BY DEF RowInv, Tasks
<1> QED BY <1>1 DEF DiskInv, TwinInv

\* What one step does to the files.
KeepsOthers ==
  \A p \in Files :
    files[p] # NoFile /\ files'[p] \notin {NoFile, files[p]} =>
      \/ {files[p][1], files'[p][1]} \cap swept # {}
      \/ files'[p][1] = files[p][1] /\ {files[p], files'[p]} \subseteq raced

LEMMA StepKeepsOthers ==
  ASSUME StepInv, DiskInv, [Next]_vars
  PROVE  KeepsOthers
<1>1. CASE UNCHANGED files
  BY <1>1 DEF KeepsOthers
<1>2. CASE Cleanup
  BY <1>2 DEF Cleanup, KeepsOthers
<1>3. ASSUME NEW t \in Tasks, task[t].step = "write", files' = [files EXCEPT ![Path(t)] = t]
      PROVE  KeepsOthers
  <2> SUFFICES ASSUME NEW p \in Files, files[p] # NoFile, files'[p] \notin {NoFile, files[p]},
                      files[p][1] \notin swept, files'[p][1] \notin swept
               PROVE  files'[p][1] = files[p][1] /\ {files[p], files'[p]} \subseteq raced
    BY DEF KeepsOthers
  <2>1. p = Path(t) /\ files'[p] = t
    BY <1>3 DEF DiskInv, HeldInv
  <2>2. PICK u \in Tasks : u = files[p] /\ task[u].step = "exported" /\ Path(u) = p
    BY DEF DiskInv, HeldInv
  <2>3. u[1] = t[1]
    BY <1>3, <2>1, <2>2, Apart DEF DiskInv
  <2>4. u \in raced /\ t \in raced
    BY <1>3, <2>1, <2>2, <2>3 DEF DiskInv, TwinInv, Writing
  <2> QED BY <2>1, <2>2, <2>3, <2>4
<1>4. UNCHANGED files \/ Cleanup \/ \E t \in Tasks : Write(t)
  BY DEF Next, ExportStep, TaskStep, Begin, List, NameFolder, MakeFolder, Scan, Scanned, Joined, Raised,
         Finish, StartTask, RequestAnswered, Polled, Ages, AllDone, DiskSame, vars
<1> QED BY <1>1, <1>2, <1>3, <1>4 DEF Write

-----------------------------------------------------------------------------
(* Exports: theorems *)

ExportInv == StepInv /\ RowInv /\ DiskInv

THEOREM Invariance == Spec => []ExportInv
<1>1. Init => ExportInv
  BY StepInitially, RowInitially, DiskInitially DEF ExportInv
<1>2. ExportInv /\ [Next]_vars => ExportInv'
  BY StepKeeps, RowKeeps, DiskPreserved DEF ExportInv
<1> QED BY <1>1, <1>2, PTL DEF Spec

\* A history row is written when no download of the export is under way, and one that says
\* success lists everything that was tried, however many exports, documents and threads
\* there are (export_engine.py, the joined thread pool and the finally clause).
THEOREM RowsAreFinal == Spec => []RowIsFinal
<1>1. ExportInv => RowIsFinal
  BY RowsSettled DEF ExportInv
<1> QED BY <1>1, Invariance, PTL

\* While no clean-up has run, each file a history row lists is on disk with the contents of
\* its own Part Studio, but for twins of one name that raced (folder_manager.py, unique_path;
\* export_engine.py, _run_parallel).
THEOREM RowsAreOnDisk == Spec => []ReportedOnDisk
<1>1. ExportInv => ReportedOnDisk
  BY RowsOnDisk DEF ExportInv
<1> QED BY <1>1, Invariance, PTL

\* No step replaces a file of another export or another name, clean-ups and races apart
\* (folder_manager.py, unique_path and create_export_folder).
THEOREM FilesAreKept == Spec => KeepsOthersFiles
<1>1. ExportInv /\ [Next]_vars => [KeepsOthers]_vars
  BY StepKeepsOthers DEF ExportInv
<1>2. ExportInv /\ [Next]_vars =>
        [\A p \in Files :
           files[p] # NoFile /\ files'[p] \notin {NoFile, files[p]} =>
             \/ {files[p][1], files'[p][1]} \cap swept # {}
             \/ files'[p][1] = files[p][1] /\ {files[p], files'[p]} \subseteq raced]_vars
  BY <1>1 DEF KeepsOthers
<1> QED BY <1>2, Invariance, PTL DEF Spec, KeepsOthersFiles

=============================================================================
