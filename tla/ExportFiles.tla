---------------------------- MODULE ExportFiles ----------------------------
(***************************************************************************)
(* One export from the document list to the history row                    *)
(* (core/export_engine.py, core/folder_manager.py and the download part of *)
(* core/onshape_client.py), several exports side by side, and the clean-up *)
(* of old export folders (web.py, api_run_cleanup).                        *)
(*                                                                         *)
(* An item is one Part Studio in one format.  All exports here write under *)
(* one organization; Base[e] is its label and day after sanitize_filename. *)
(* Folder <<b, k>> is the k-th of its label and day, file <<f, x, n>> the  *)
(* n-th of name x in folder f.  What requests do to the account is         *)
(* Accounts'; here a request succeeds or not.  A timeout of future.result  *)
(* is left out: as_completed yields futures that have their result.        *)
(***************************************************************************)
EXTENDS Integers, FiniteSets

CONSTANTS
  Exports, Docs, Items,
  Base,         \* Base[e]
  DocOf,        \* DocOf[i]: the document of an item
  Name,         \* Name[i]: its file name, with extension
  MaxWorkers,   \* parallel downloads of an export
  MaxCleanups,  \* bound: clean-ups
  NoFile

ASSUME ExportFilesAssumption ==
  /\ IsFiniteSet(Exports) /\ IsFiniteSet(Items) /\ Items # {}
  /\ DocOf \in [Items -> Docs] /\ NoFile \notin Exports \X Items
  /\ MaxWorkers \in Nat \ {0} /\ MaxCleanups \in Nat

\* As many as there can be folders of a day, or files of a name.
Numbers == 1..(Cardinality(Exports) * Cardinality(Items))
Folders == {Base[e] : e \in Exports} \X Numbers
Files == Folders \X {Name[i] : i \in Items} \X Numbers
Tasks == Exports \X Items

ItemsOf(d) == {i \in Items : DocOf[i] = d}
Least(S) == CHOOSE n \in S : \A m \in S : n <= m

Phases == {"idle", "list", "folder", "mkdir", "scan", "parallel", "raised", "finish", "done"}
Steps == {"none", "queued", "request", "poll", "write", "exported", "failed"}

VARIABLES
  folders,   \* directories that exist
  files,     \* what each file holds: NoFile or the task that wrote it
  aged,      \* the organization's directory is older than the retention
  phase,     \* where run_manual_export of each export is
  folder,    \* the number of its folder, 0 when it has none
  docs,      \* documents it has still to scan
  task,      \* of each task: its step, the number of its file
  result,    \* of each export: items listed as exported, whether any failed, the
             \* history rows it wrote
  cleanups,
  raced,     \* history: tasks that chose the path of another that had not written yet
  swept      \* history: exports that had begun when a clean-up ran

exportVars == <<phase, folder, docs, result>>
vars == <<folders, files, aged, phase, folder, docs, task, result, cleanups, raced, swept>>

FolderOf(e) == <<Base[e], folder[e]>>
PathOf(t, n) == <<FolderOf(t[1]), Name[t[2]], n>>
Path(t) == PathOf(t, task[t].number)

Init ==
  /\ folders = {} /\ files = [p \in Files |-> NoFile] /\ aged = FALSE
  /\ phase = [e \in Exports |-> "idle"]
  /\ folder = [e \in Exports |-> 0]
  /\ docs = [e \in Exports |-> {}]
  /\ task = [t \in Tasks |-> [step |-> "none", number |-> 0]]
  /\ result = [e \in Exports |-> [exported |-> {}, failed |-> FALSE, rows |-> {}]]
  /\ cleanups = 0 /\ raced = {} /\ swept = {}

Enter(e, p) == phase' = [phase EXCEPT ![e] = p]
Fail(e, failed) == result' = [result EXCEPT ![e].failed = @ \/ failed]
Step(t, s) == task' = [task EXCEPT ![t].step = s]
DiskSame == UNCHANGED <<folders, files, aged, cleanups, swept>>

-----------------------------------------------------------------------------
(* run_manual_export *)

\* The lease was granted.
Begin(e) ==
  /\ phase[e] = "idle" /\ Enter(e, "list")
  /\ DiskSame /\ UNCHANGED <<folder, docs, task, result, raced>>

\* fetch_documents_by_label: an error, nothing in the window, or some documents.
List(e) ==
  /\ phase[e] = "list"
  /\ \/ Enter(e, "raised") /\ UNCHANGED docs
     \/ Enter(e, "finish") /\ UNCHANGED docs
     \/ \E S \in SUBSET Docs \ {{}} : Enter(e, "folder") /\ docs' = [docs EXCEPT ![e] = S]
  /\ DiskSame /\ UNCHANGED <<folder, task, result, raced>>

\* create_export_folder: unique_path, then mkdir.
NameFolder(e) ==
  /\ phase[e] = "folder" /\ Enter(e, "mkdir")
  /\ folder' = [folder EXCEPT ![e] = Least({k \in Numbers : <<Base[e], k>> \notin folders})]
  /\ DiskSame /\ UNCHANGED <<docs, task, result, raced>>

\* Mutant: mkdir with exist_ok.
MakeFolder_ExistOk(e) ==
  /\ phase[e] = "mkdir"
  /\ folders' = folders \cup {FolderOf(e)}
  /\ aged' = (aged /\ \E f \in folders : f[1] = Base[e])
  /\ Enter(e, "scan")
  /\ UNCHANGED <<files, cleanups, swept, folder, docs, task, result, raced>>

\* A new label directory makes the organization's directory young again; a folder in a
\* label directory that exists does not.
MakeFolder(e) ==
  /\ phase[e] = "mkdir"
  /\ \/ /\ FolderOf(e) \notin folders
        /\ folders' = folders \cup {FolderOf(e)}
        /\ aged' = (aged /\ \E f \in folders : f[1] = Base[e])
        /\ Enter(e, "scan")
     \/ /\ FolderOf(e) \in folders  \* FileExistsError
        /\ Enter(e, "raised")
        /\ UNCHANGED <<folders, aged>>
  /\ UNCHANGED <<files, cleanups, swept, folder, docs, task, result, raced>>

\* A document without an id or Part Studios, or a failed request, is one failure; a Part
\* Studio without an id is one for the Part Studio; the others are queued.
Scan(e) ==
  /\ phase[e] = "scan"
  /\ \E d \in docs[e] :
       /\ docs' = [docs EXCEPT ![e] = @ \ {d}]
       /\ \/ Fail(e, TRUE) /\ UNCHANGED task
          \/ \E S \in SUBSET ItemsOf(d) :
               /\ task' = [t \in Tasks |->
                             IF t[1] = e /\ t[2] \in S THEN [task[t] EXCEPT !.step = "queued"]
                                                       ELSE task[t]]
               /\ Fail(e, S # ItemsOf(d))
  /\ DiskSame /\ UNCHANGED <<phase, folder, raced>>

Scanned(e) ==
  /\ phase[e] = "scan" /\ docs[e] = {}
  /\ Enter(e, "parallel")
  /\ DiskSame /\ UNCHANGED <<folder, docs, task, result, raced>>

TasksOf(e) == {e} \X Items
Running(e) == {t \in TasksOf(e) : task[t].step \in {"request", "poll", "write"}}

\* What as_completed hands over: the paths of the downloads that succeeded, a failure for
\* each of the others.
Collected(e) ==
  [result EXCEPT
     ![e].exported = {t[2] : t \in {u \in TasksOf(e) : task[u].step = "exported"}},
     ![e].failed = @ \/ \E t \in TasksOf(e) : task[t].step = "failed"]

\* Mutant: the export goes on with downloads running, the thread pool is not waited for.
Joined_NoWait(e) ==
  /\ phase[e] = "parallel"
  /\ \A t \in TasksOf(e) : task[t].step # "queued"
  /\ Enter(e, "finish") /\ result' = Collected(e)
  /\ DiskSame /\ UNCHANGED <<folder, docs, task, raced>>

Joined(e) ==
  /\ phase[e] = "parallel"
  /\ \A t \in TasksOf(e) : task[t].step \in {"none", "exported", "failed"}
  /\ Enter(e, "finish") /\ result' = Collected(e)
  /\ DiskSame /\ UNCHANGED <<folder, docs, task, raced>>

\* The except clause.
Raised(e) ==
  /\ phase[e] = "raised" /\ Enter(e, "finish") /\ Fail(e, TRUE)
  /\ DiskSame /\ UNCHANGED <<folder, docs, task, raced>>

AddExportHistory(e) ==
  result' = [result EXCEPT ![e].rows =
               {[success |-> ~result[e].failed, files |-> result[e].exported]}]

\* The finally clause: the history row, unless its insert fails.
Finish(e) ==
  /\ phase[e] = "finish" /\ Enter(e, "done")
  /\ AddExportHistory(e) \/ UNCHANGED result
  /\ DiskSame /\ UNCHANGED <<folder, docs, task, raced>>

-----------------------------------------------------------------------------
(* _export_one, in a thread of the pool *)

\* Mutant: every file is the first of its name.
StartTask_NoSuffix(t) ==
  /\ phase[t[1]] = "parallel" /\ task[t].step = "queued"
  /\ Cardinality(Running(t[1])) < MaxWorkers
  /\ task' = [task EXCEPT ![t].step = "request", ![t].number = 1]
  /\ raced' = raced
  /\ DiskSame /\ UNCHANGED <<exportVars>>

\* unique_path looks for a free name; the file is written when the download is there.
StartTask(t) ==
  /\ phase[t[1]] = "parallel" /\ task[t].step = "queued"
  /\ Cardinality(Running(t[1])) < MaxWorkers
  /\ LET n == Least({m \in Numbers : files[PathOf(t, m)] = NoFile})
         same == {u \in Running(t[1]) : Path(u) = PathOf(t, n)}
     IN /\ task' = [task EXCEPT ![t].step = "request", ![t].number = n]
        /\ raced' = IF same = {} THEN raced ELSE raced \cup same \cup {t}
  /\ DiskSame /\ UNCHANGED <<exportVars>>

\* An STL request is answered with the bytes or a redirect to them, one in another format
\* with a translation to wait for; which format an item has is left open.  The download
\* that follows a redirect or a translation is part of the step "write".
RequestAnswered(t) ==
  /\ task[t].step = "request"
  /\ Step(t, "write") \/ Step(t, "poll") \/ Step(t, "failed")
  /\ DiskSame /\ UNCHANGED <<exportVars, raced>>

\* wait_for_translation: polled until it is done, has failed, or the deadline is found to
\* have passed after a poll that found it unfinished.
Polled(t) ==
  /\ task[t].step = "poll"
  /\ Step(t, "write") \/ Step(t, "failed")
  /\ DiskSame /\ UNCHANGED <<exportVars, raced>>

\* The folder is made again if it is gone, and whatever has the path is replaced.
Write(t) ==
  /\ task[t].step = "write"
  /\ \/ /\ files' = [files EXCEPT ![Path(t)] = t]
        /\ folders' = folders \cup {FolderOf(t[1])}
        /\ aged' = (aged /\ \E f \in folders : f[1] = Base[t[1]])
        /\ Step(t, "exported")
     \/ Step(t, "failed") /\ UNCHANGED <<files, folders, aged>>
  /\ UNCHANGED <<exportVars, cleanups, raced, swept>>

-----------------------------------------------------------------------------
(* Clean-up *)

Ages ==
  /\ folders # {} /\ ~aged /\ aged' = TRUE
  /\ UNCHANGED <<folders, files, exportVars, task, cleanups, raced, swept>>

\* The organization's directory goes as a whole when it is itself old.
Cleanup ==
  /\ aged /\ cleanups < MaxCleanups /\ cleanups' = cleanups + 1
  /\ folders' = {} /\ files' = [p \in Files |-> NoFile] /\ aged' = FALSE
  /\ swept' = {e \in Exports : phase[e] # "idle"}
  /\ UNCHANGED <<exportVars, task, raced>>

\* Nothing else may stop: an export that waits for ever is a deadlock.
AllDone == (\A e \in Exports : phase[e] = "done") /\ UNCHANGED vars

TaskStep(t) == StartTask(t) \/ RequestAnswered(t) \/ Polled(t) \/ Write(t)

ExportStep(e) ==
  \/ List(e) \/ NameFolder(e) \/ MakeFolder(e) \/ Scan(e) \/ Scanned(e)
  \/ Joined(e) \/ Raised(e) \/ Finish(e)

Next ==
  \/ \E e \in Exports : Begin(e) \/ ExportStep(e)
  \/ \E t \in Tasks : TaskStep(t)
  \/ Ages
  \/ Cleanup
  \/ AllDone

Spec == Init /\ [][Next]_vars

-----------------------------------------------------------------------------
(* Properties *)

\* A download replaces no file of another export and none of another name.  Two may meet in
\* one file only when both chose its path before either had written it, or when a clean-up
\* removed the folder under an export, whose write makes it again though it is by then
\* another's (folder_manager.py, unique_path; onshape_client.py, save_path.parent.mkdir).
KeepsOthersFiles ==
  [][\A p \in Files :
       files[p] # NoFile /\ files'[p] \notin {NoFile, files[p]} =>
         \/ {files[p][1], files'[p][1]} \cap swept # {}
         \/ files'[p][1] = files[p][1] /\ {files[p], files'[p]} \subseteq raced]_vars

\* What a history row lists as exported is on disk, each file with the contents of its own
\* Part Studio, through parallel downloads, failures beside them and other exports of the
\* label on that day - but for twins that raced for a path and a clean-up
\* (export_engine.py, _run_parallel, run_manual_export).
ReportedOnDisk ==
  swept = {} =>
    \A e \in Exports : \A row \in result[e].rows : \A i \in row.files :
      files[Path(<<e, i>>)] = <<e, i>> \/ <<e, i>> \in raced

\* The history row is final: no download is under way when it is written, and a row that
\* says success lists everything that was tried (export_engine.py, the joined thread pool
\* and the finally clause).
RowIsFinal ==
  \A e \in Exports : \A row \in result[e].rows : \A t \in TasksOf(e) :
    /\ task[t].step \in {"none", "exported", "failed"}
    /\ row.success /\ task[t].step # "none" => t[2] \in row.files

============================================================================
