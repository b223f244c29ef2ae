------------------------------ MODULE MCFiles ------------------------------
(***************************************************************************)
(* Instances of ExportFiles and ConfigStore for TLC.  The models share no  *)
(* state, the one writing below the export root and the other below the    *)
(* configuration directory: a behaviour has exports or requests.           *)
(***************************************************************************)
EXTENDS ExportFiles, ConfigStore, TLC

CONSTANTS e1, e2, twin1, twin2

\* Two exports of one label on one day.
OneLabel == [e \in Exports |-> "label"]

\* Two Part Studios of one name in one document.
OneDocument == [i \in Items |-> "doc"]
OneName == [i \in Items |-> "twin"]

\* An organization with one credential.
OneOrg == "acme" :> {"Primary"}

VARIABLE visited

FilesInit == visited \in {"exports", "configuration"} /\ Init /\ StoreInit

\* The end of a behaviour, where requests and loads are used up.  To stop anywhere else, in
\* an export or in a request, is a deadlock.
Rests ==
  /\ visited = "configuration"
  /\ edits = MaxEdits /\ loads = MaxLoads /\ \A p \in Loaders : At(p, "idle")
  /\ UNCHANGED <<visited, vars, storeVars>>

FilesNext ==
  \/ visited = "exports" /\ Next /\ UNCHANGED <<visited, storeVars>>
  \/ visited = "configuration" /\ StoreNext /\ UNCHANGED <<visited, vars>>
  \/ Rests

FilesSpec == FilesInit /\ [][FilesNext]_<<visited, vars, storeVars>>
=============================================================================
