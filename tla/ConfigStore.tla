---------------------------- MODULE ConfigStore ----------------------------
(***************************************************************************)
(* The configuration files (core/configuration.py) and who writes them:    *)
(* handlers of the web application (web.py, core/organizations.py), the    *)
(* command line and its wizard (core/profile_manager.py, terminal/         *)
(* wizard.py), backup and restore (core/backup.py); beside them the worker,*)
(* which loads all files for every job.                                    *)
(*                                                                         *)
(* An editor is a process that handles one request at a time: it reads     *)
(* files one by one, decides, and replaces one file through a temporary    *)
(* file whose name depends on that file only (write_json).  What a request *)
(* asks for is chosen when it decides; nothing depends on it before.       *)
(*                                                                         *)
(* A file is what its references need: accounts and profiles their names,  *)
(* organizations the credential names of each, labels their account names  *)
(* and profile, config.json its notification channels.  Left out: secrets, *)
(* export folders, schedules and other fields nothing refers to, missing   *)
(* files (load() creates them), database and logs in backups, and two      *)
(* backups within one second, which share a name.                          *)
(***************************************************************************)
EXTENDS Naturals, Sequences, FiniteSets

CONSTANTS
  Web, Cli, Worker,  \* processes: two editors and a reader
  Labels, Accounts, Profiles, Orgs, Creds, Channels,
  Primary,           \* name of the credential of an imported account
  Default,           \* the profile of labels made by the wizard, "STL"
  Established,       \* the organizations that earlier sessions have made
  MaxEdits,          \* bound: requests of both editors
  MaxLoads,          \* bound: loads of the worker
  MaxCrashes,        \* bound: processes killed and requests failed by the disk
  Torn,              \* content of a file that is no JSON document
  Absent             \* no file, or a document not read

Editors == {Web, Cli}
Loaders == Editors \cup {Worker}
ConfigFiles == {"accounts", "config", "profiles", "labels", "orgs"}
Names == Accounts \cup Creds

LabelRecords == [accounts : SUBSET Names, profile : Profiles]

\* ExportProfilesConfig: no name twice.
ProfileNames == SUBSET Profiles

\* Functions from a subset of S to T: labels by name, organizations by id.
Tables(S, T) == UNION {[D -> T] : D \in SUBSET S}

Documents(f) ==
  CASE f = "accounts" -> SUBSET Accounts
    [] f = "config" -> SUBSET Channels
    [] f = "profiles" -> ProfileNames
    [] f = "labels" -> Tables(Labels, LabelRecords)
    [] f = "orgs" -> Tables(Orgs, SUBSET Creds)

ASSUME ConfigStoreAssumption ==
  /\ Default \in Profiles /\ Primary \in Creds
  /\ Established \in Tables(Orgs, SUBSET Creds)
  /\ MaxEdits \in Nat /\ MaxLoads \in Nat /\ MaxCrashes \in Nat
  /\ Web # Cli /\ Worker \notin Editors
  /\ Torn # Absent /\ \A f \in ConfigFiles : \A d \in Documents(f) : d # Torn /\ d # Absent

VARIABLES
  file,      \* of each file: its document, or Torn
  tmp,       \* of each file: its temporary file
  proc,      \* of each process: its request, step, files still to visit, the document
             \* to write, whether another process has renamed the file it writes to
  view,      \* of each process: the documents it has read
  archive,   \* the backup that is made or restored
  safety,    \* the snapshot that a restore takes first
  edits, loads, crashes,
  gone,      \* history: names that a file had and lost
  grown,     \* history: of each process, names that accounts.json gained while it read
  clashed,   \* history: files whose temporary file two processes had open at once
  overwritten, \* history: files that a restore wrote to
  before,    \* history: the files when the restore began
  undo       \* history: a restore is "taking" its snapshot or overwriting ("valid"),
             \* or another process has changed a file since it began ("void")

bounds == <<edits, loads, crashes>>
backups == <<archive, safety>>
history == <<gone, grown, clashed, overwritten, before, undo>>
storeVars == <<file, tmp, proc, view, backups, bounds, history>>

Nothing == [f \in ConfigFiles |-> Absent]
Idle == [op |-> "none", step |-> "idle", todo |-> <<>>, doc |-> Absent, moved |-> FALSE]

\* default_export_profiles_config: of its profiles, the one that every label of the wizard
\* refers to.
DefaultProfiles == {Default}

\* default_app_config and the defaults of the other files: no channels, accounts or labels.
Defaults == [accounts |-> {}, config |-> {}, profiles |-> DefaultProfiles, labels |-> <<>>]

\* ensure_default_files
StoreInit ==
  /\ file = [f \in ConfigFiles |-> IF f = "orgs" THEN Established ELSE Defaults[f]]
  /\ tmp = Nothing
  /\ proc = [p \in Loaders |-> Idle]
  /\ view = [p \in Loaders |-> Nothing]
  /\ archive = Nothing /\ safety = Nothing
  /\ edits = 0 /\ loads = 0 /\ crashes = 0
  /\ gone = {} /\ grown = [p \in Loaders |-> {}] /\ clashed = {} /\ overwritten = {}
  /\ before = Nothing /\ undo = "none"

At(p, step) == proc[p].step = step
Becomes(p, step) == proc' = [proc EXCEPT ![p].step = step]
Ends(p) == proc' = [proc EXCEPT ![p] = Idle] /\ view' = [view EXCEPT ![p] = Nothing]

-----------------------------------------------------------------------------
(* Reading *)

CredNames(orgs) == UNION {orgs[o] : o \in DOMAIN orgs}
KnownAccounts(v) == v.accounts \cup CredNames(v.orgs)

\* Mutant: the names of accounts.json are not looked up.
Missing_KeysOnly(v) ==
  UNION {(v.labels[l].accounts \ CredNames(v.orgs)) \cup ({v.labels[l].profile} \ v.profiles) :
           l \in DOMAIN v.labels}

\* validate_cross_references
Missing(v) ==
  UNION {(v.labels[l].accounts \ KnownAccounts(v)) \cup ({v.labels[l].profile} \ v.profiles) :
           l \in DOMAIN v.labels}

\* Mutant: the profiles are read before the labels that refer to them.
LoadOrder_LabelsLate == <<"config", "accounts", "profiles", "labels", "orgs", "check">>

\* ConfigManager.load
LoadOrder == <<"config", "accounts", "labels", "profiles", "orgs", "check">>

First(p) == Head(proc[p].todo)
Reading(p) == At(p, "read") /\ proc[p].todo # <<>>
HasRead(p) == At(p, "read") /\ proc[p].todo = <<>>

\* read_json: what is no document fails the request.
Read(p) ==
  /\ Reading(p) /\ First(p) # "check"
  /\ IF file[First(p)] = Torn
     THEN Ends(p)
     ELSE /\ view' = [view EXCEPT ![p][First(p)] = file[First(p)]]
          /\ proc' = [proc EXCEPT ![p].todo = Tail(@)]
  /\ UNCHANGED <<file, tmp, backups, bounds, history>>

Check(p) ==
  /\ Reading(p) /\ First(p) = "check"
  /\ IF Missing(view[p]) # {}
     THEN Ends(p)
     ELSE proc' = [proc EXCEPT ![p].todo = Tail(@)] /\ UNCHANGED view
  /\ UNCHANGED <<file, tmp, backups, bounds, history>>

\* A process begins to read: what accounts.json gained before is no reason for it.
Forgets(p) ==
  /\ grown' = [grown EXCEPT ![p] = {}]
  /\ UNCHANGED <<gone, clashed, overwritten, before, undo>>

\* The worker loads the configuration for a job.
WorkerLoads ==
  /\ At(Worker, "idle") /\ loads < MaxLoads
  /\ loads' = loads + 1
  /\ proc' = [proc EXCEPT ![Worker].step = "read", ![Worker].todo = LoadOrder]
  /\ Forgets(Worker)
  /\ UNCHANGED <<file, tmp, view, backups, edits, crashes>>

WorkerLoaded ==
  /\ HasRead(Worker)
  /\ Ends(Worker)
  /\ UNCHANGED <<file, tmp, backups, bounds, history>>

-----------------------------------------------------------------------------
(* Requests *)

LabelRequests == {"create", "update", "move", "delete", "profile"}
OrgRequests == {"create_org", "delete_org", "duplicate_org", "add_cred", "delete_cred", "import"}
ChannelRequests == {"channel", "no_channel"}
WebRequests == LabelRequests \cup OrgRequests \cup ChannelRequests
CliRequests == {"profile", "account", "first_label"}

\* The file a request edits.
Target(op) ==
  CASE op \in {"create", "update", "move", "delete", "first_label"} -> "labels"
    [] op = "profile" -> "profiles"
    [] op = "account" -> "accounts"
    [] op \in {"channel", "no_channel"} -> "config"
    [] OTHER -> "orgs"

\* The files it reads.
ReadsOf(op) ==
  CASE op \in {"create", "update"} -> LoadOrder \o <<"labels", "orgs">>
    [] op = "move" -> LoadOrder \o <<"orgs", "labels">>
    [] op = "import" -> <<"orgs", "accounts">>
    [] OTHER -> <<Target(op)>>

BeginRequest(p, op) ==
  /\ At(p, "idle") /\ edits < MaxEdits
  /\ edits' = edits + 1
  /\ proc' = [proc EXCEPT ![p] = [Idle EXCEPT !.op = op, !.step = "read", !.todo = ReadsOf(op)]]
  /\ Forgets(p)
  /\ UNCHANGED <<file, tmp, view, backups, loads, crashes>>

Drop(table, k) == [j \in DOMAIN table \ {k} |-> table[j]]
Put(table, k, value) == [j \in DOMAIN table \cup {k} |-> IF j = k THEN value ELSE table[j]]

\* _create_label, and the wizard's first label, which refers to no account.
Created(v) ==
  {Put(v.labels, l, r) : l \in Labels \ DOMAIN v.labels,
     r \in {r \in LabelRecords : r.profile \in v.profiles /\ r.accounts \subseteq KnownAccounts(v)}}

FirstLabel(v) ==
  {Put(v.labels, l, [accounts |-> {}, profile |-> Default]) : l \in Labels \ DOMAIN v.labels}

\* _update_label: what the body repeats is not checked unless it is there.
Updated(v) ==
  UNION {{Put(Drop(v.labels, l), new, r) :
            new \in {l} \cup (Labels \ DOMAIN v.labels),
            r \in {r \in LabelRecords :
                     /\ r.accounts \subseteq KnownAccounts(v) \/ r.accounts = v.labels[l].accounts
                     /\ r.profile \in v.profiles \/ r.profile = v.labels[l].profile}} :
           l \in DOMAIN v.labels}

\* _move_label
Moved(v) ==
  {Put(v.labels, l, [v.labels[l] EXCEPT !.accounts = {a}]) :
     l \in DOMAIN v.labels, a \in KnownAccounts(v)}

\* import_from_accounts: an organization for each account, if there is none yet.
Imported(v) ==
  IF DOMAIN v.orgs # {} THEN {}
  ELSE {[o \in D |-> {Primary}] :
          D \in {D \in SUBSET Orgs : Cardinality(D) = Cardinality(v.accounts)}}

\* _delete_label
Deleted(v) == {Drop(v.labels, l) : l \in DOMAIN v.labels}

\* add_profile replaces one of the same name, if it is asked to; so do those of channels.
AddedProfile(v) == {v.profiles \cup {x} : x \in Profiles}
UpsertedChannel(v) == {v.config \cup {c} : c \in Channels}
DeletedChannel(v) == {v.config \ {c} : c \in Channels}

\* The wizard's account; AccountsConfig refuses a name that is taken.
AddedAccount(v) == {v.accounts \cup {a} : a \in Accounts \ v.accounts}

CreatedOrg(v) == {Put(v.orgs, o, {}) : o \in Orgs \ DOMAIN v.orgs}
DeletedOrg(v) == {Drop(v.orgs, o) : o \in DOMAIN v.orgs}
DuplicatedOrg(v) ==
  {Put(v.orgs, new, v.orgs[o]) : new \in Orgs \ DOMAIN v.orgs, o \in DOMAIN v.orgs}

\* An organization has no credential name twice; one it does not have cannot be deleted.
AddedCred(v) ==
  UNION {{Put(v.orgs, o, v.orgs[o] \cup {c}) : c \in Creds \ v.orgs[o]} : o \in DOMAIN v.orgs}
DeletedCred(v) ==
  UNION {{Put(v.orgs, o, v.orgs[o] \ {c}) : c \in v.orgs[o]} : o \in DOMAIN v.orgs}

\* The documents a request may come to write; none when it is refused.
Edits(op, v) ==
  CASE op = "create" -> Created(v)
    [] op = "update" -> Updated(v)
    [] op = "move" -> Moved(v)
    [] op = "delete" -> Deleted(v)
    [] op = "first_label" -> FirstLabel(v)
    [] op = "profile" -> AddedProfile(v)
    [] op = "account" -> AddedAccount(v)
    [] op = "create_org" -> CreatedOrg(v)
    [] op = "delete_org" -> DeletedOrg(v)
    [] op = "duplicate_org" -> DuplicatedOrg(v)
    [] op = "add_cred" -> AddedCred(v)
    [] op = "delete_cred" -> DeletedCred(v)
    [] op = "import" -> Imported(v)
    [] op = "channel" -> UpsertedChannel(v)
    [] op = "no_channel" -> DeletedChannel(v)

Decide(p) ==
  /\ HasRead(p) /\ p \in Editors
  /\ \/ /\ \E d \in Edits(proc[p].op, view[p]) :
             proc' = [proc EXCEPT ![p].step = "open", ![p].doc = d]
        /\ view' = [view EXCEPT ![p] = Nothing]
     \/ Ends(p)
  /\ UNCHANGED <<file, tmp, backups, bounds, history>>

-----------------------------------------------------------------------------
(* write_json *)

TargetOf(p) == Target(proc[p].op)

\* Another process has the same temporary file open, or is about to rename it.
SharesTmp(p) ==
  \E q \in Editors \ {p} : proc[q].step \in {"write", "replace"} /\ TargetOf(q) = TargetOf(p)

NamesIn(f, doc) ==
  IF doc = Torn THEN {}
  ELSE CASE f = "orgs" -> CredNames(doc)
         [] f \in {"accounts", "profiles"} -> doc
         [] OTHER -> {}

\* A file changes: what the history keeps of it.
Changes(p, f, content) ==
  /\ file' = [file EXCEPT ![f] = content]
  /\ gone' = gone \cup (NamesIn(f, file[f]) \ NamesIn(f, content))
  /\ grown' = [q \in Loaders |->
                 IF f = "accounts" /\ At(q, "read")
                 THEN grown[q] \cup (NamesIn(f, content) \ NamesIn(f, file[f])) ELSE grown[q]]
  /\ undo' = IF proc[p].op # "restore" THEN "void" ELSE IF undo = "taking" THEN "valid" ELSE undo

\* Mutant: the file itself is opened.
Open_InPlace(p) ==
  /\ At(p, "open")
  /\ tmp' = [tmp EXCEPT ![TargetOf(p)] = Torn]
  /\ Changes(p, TargetOf(p), Torn)
  /\ clashed' = IF SharesTmp(p) THEN clashed \cup {TargetOf(p)} ELSE clashed
  /\ Becomes(p, "write")
  /\ UNCHANGED <<view, backups, bounds, overwritten, before>>

\* Opening the temporary file empties it.
Open(p) ==
  /\ At(p, "open")
  /\ tmp' = [tmp EXCEPT ![TargetOf(p)] = Torn]
  /\ clashed' = IF SharesTmp(p) THEN clashed \cup {TargetOf(p)} ELSE clashed
  /\ Becomes(p, "write")
  /\ UNCHANGED <<file, view, backups, bounds, gone, grown, overwritten, before, undo>>

\* Two processes that write to one file leave either document or a mixture.
WriteTmp(p) ==
  /\ At(p, "write")
  /\ \E content \in {proc[p].doc} \cup (IF TargetOf(p) \in clashed THEN {Torn} ELSE {}) :
       IF proc[p].moved
       THEN Changes(p, TargetOf(p), content) /\ UNCHANGED tmp
       ELSE /\ tmp' = [tmp EXCEPT ![TargetOf(p)] = content]
            /\ UNCHANGED <<file, gone, grown, undo>>
  /\ Becomes(p, "replace")
  /\ UNCHANGED <<view, backups, bounds, clashed, overwritten, before>>

\* Renaming a file another process has already renamed raises FileNotFoundError; one that
\* is open elsewhere is written to under its new name.
Replace(p) ==
  /\ At(p, "replace")
  /\ IF tmp[TargetOf(p)] = Absent
     THEN UNCHANGED <<file, tmp, gone, grown, undo>>
     ELSE Changes(p, TargetOf(p), tmp[TargetOf(p)]) /\ tmp' = [tmp EXCEPT ![TargetOf(p)] = Absent]
  /\ proc' = [q \in Loaders |->
                IF q = p THEN Idle
                ELSE IF At(q, "write") /\ TargetOf(q) = TargetOf(p)
                     THEN [proc[q] EXCEPT !.moved = TRUE] ELSE proc[q]]
  /\ UNCHANGED <<view, backups, bounds, clashed, overwritten, before>>

-----------------------------------------------------------------------------
(* Backup and restore *)

ArchiveOrder == <<"accounts", "config", "profiles", "labels", "orgs">>

BeginCopy(p, op, step) ==
  /\ At(p, "idle") /\ edits < MaxEdits
  /\ edits' = edits + 1
  /\ proc' = [proc EXCEPT ![p] = [Idle EXCEPT !.op = op, !.step = step, !.todo = ArchiveOrder]]

\* create_backup: one archive is followed.
Backup(p) ==
  /\ archive = Nothing /\ \A q \in Editors : proc[q].op # "backup"
  /\ BeginCopy(p, "backup", "copy")
  /\ UNCHANGED <<file, tmp, view, backups, loads, crashes, history>>

\* restore_backup: of an archive that is intact.  The repository offers it to scripts and
\* tests; no handler and no command calls it.
Restore(p) ==
  /\ \A f \in ConfigFiles : archive[f] # Absent
  /\ BeginCopy(p, "restore", "copy")
  /\ safety' = Nothing /\ before' = file /\ undo' = "taking"
  /\ UNCHANGED <<file, tmp, view, archive, loads, crashes, gone, grown, clashed, overwritten>>

\* Mutant: the snapshot is taken while files are overwritten.
Copy_Interleaved(p) ==
  /\ At(p, "copy")
  /\ LET f == First(p)
     IN IF proc[p].op = "backup"
        THEN archive' = [archive EXCEPT ![f] = file[f]] /\ UNCHANGED safety
        ELSE safety' = [safety EXCEPT ![f] = file[f]] /\ UNCHANGED archive
  /\ proc' = [proc EXCEPT ![p] =
                IF proc[p].op = "restore" THEN [proc[p] EXCEPT !.step = "empty"]
                ELSE IF Len(proc[p].todo) > 1 THEN [proc[p] EXCEPT !.todo = Tail(@)] ELSE Idle]
  /\ UNCHANGED <<file, tmp, view, bounds, history>>

\* One member of the archive; a restore goes on to overwrite the files.
Copy(p) ==
  /\ At(p, "copy")
  /\ LET f == First(p)
     IN IF proc[p].op = "backup"
        THEN archive' = [archive EXCEPT ![f] = file[f]] /\ UNCHANGED safety
        ELSE safety' = [safety EXCEPT ![f] = file[f]] /\ UNCHANGED archive
  /\ proc' = [proc EXCEPT ![p] =
                IF Len(proc[p].todo) > 1 THEN [proc[p] EXCEPT !.todo = Tail(@)]
                ELSE IF proc[p].op = "backup" THEN Idle
                ELSE [proc[p] EXCEPT !.step = "empty", !.todo = ArchiveOrder]]
  /\ UNCHANGED <<file, tmp, view, bounds, history>>

\* target.open("wb")
Empty(p) ==
  /\ At(p, "empty")
  /\ Changes(p, First(p), Torn)
  /\ overwritten' = overwritten \cup {First(p)}
  /\ Becomes(p, "fill")
  /\ UNCHANGED <<tmp, view, backups, bounds, clashed, before>>

Fill(p) ==
  /\ At(p, "fill")
  /\ Changes(p, First(p), archive[First(p)])
  /\ proc' = [proc EXCEPT ![p] =
                IF Len(proc[p].todo) > 1
                THEN [proc[p] EXCEPT !.step = "empty", !.todo = Tail(@)] ELSE Idle]
  /\ UNCHANGED <<tmp, view, backups, bounds, clashed, overwritten, before>>

\* The process dies, or the disk fails the request: a temporary file stays, an unfinished
\* backup does not, a restore stops where it is.
Crash(p) ==
  /\ crashes < MaxCrashes /\ crashes' = crashes + 1
  /\ ~At(p, "idle")
  /\ Ends(p)
  /\ archive' = IF proc[p].op = "backup" THEN Nothing ELSE archive
  /\ UNCHANGED <<file, tmp, safety, edits, loads, history>>

-----------------------------------------------------------------------------

EditorStep(p) ==
  \/ Decide(p) \/ Open(p) \/ WriteTmp(p) \/ Replace(p)
  \/ Backup(p) \/ Copy(p) \/ Crash(p)

StoreNext ==
  \/ \E op \in WebRequests : BeginRequest(Web, op)
  \/ \E op \in CliRequests : BeginRequest(Cli, op)
  \/ \E p \in Loaders : Read(p) \/ Check(p)
  \/ \E p \in Editors : EditorStep(p)
  \/ Restore(Cli) \/ Empty(Cli) \/ Fill(Cli)
  \/ WorkerLoads \/ WorkerLoaded

StoreSpec == StoreInit /\ [][StoreNext]_storeVars

-----------------------------------------------------------------------------
(* Properties *)

\* Whoever reads a file meets a whole document, between the steps of a writer and after a
\* writer has died in the middle, unless two processes wrote the file at once, through the
\* temporary file they share, or a restore wrote it in place (configuration.py, write_json,
\* read_json; backup.py, restore_backup).
FilesWhole ==
  \A f \in ConfigFiles : file[f] = Torn => f \in clashed \cup overwritten

\* A load that finds a reference to nothing has a reason: the name was taken out of a file
\* at some time, by a deletion, a lost update or a restore, or accounts.json gained it while
\* this very load read, too late for the load and in time for a label another process then
\* wrote.  No sequence of creating, changing and moving labels, no order of reads and writes
\* of two processes brings a configuration, or one load of it, to refer to a name that only
\* appears (configuration.py, load, validate_cross_references; web.py, _create_label,
\* _update_label, _move_label).
MissingExplained ==
  \A p \in Loaders :
    Reading(p) /\ First(p) = "check" => Missing(view[p]) \subseteq gone \cup grown[p]

\* While a restore replaces the files, and after it failed half way, the snapshot it took
\* holds the files as they were before, and no file holds anything but its old or its new
\* document, until another request changes a file (backup.py:131-132, restore_backup).
WayBack ==
  undo = "valid" =>
    /\ safety = before
    /\ \A f \in ConfigFiles : file[f] \in {before[f], archive[f], Torn}

=============================================================================
