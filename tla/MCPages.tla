------------------------------- MODULE MCPages -------------------------------
(***************************************************************************)
(* Instances of Groups and Planner for TLC.  A browser shows one page at a *)
(* time, and the models share no state: a behaviour visits the schools page*)
(* or the export page.                                                     *)
(***************************************************************************)
EXTENDS Groups, Planner, TLC

\* One school with a key and a group that names it.
OneSchool ==
  [keysOf |-> "acme" :> {"main"}, groups |-> "robots" :> [keys |-> {"main"}, on |-> TRUE]]

\* Threads are model values that only quantifiers and functions on Threads mention.
ThreadSymmetry == Permutations(Threads)

VARIABLE visited

\* What the export page remembers makes no difference to the schools page.
PagesInit ==
  /\ visited \in {"schools", "export"} /\ Init /\ PlannerInit
  /\ visited = "schools" => lastUsed.label = Blank

PagesNext ==
  \/ visited = "schools" /\ Next /\ UNCHANGED <<visited, plannerVars>>
  \/ visited = "export" /\ PlannerNext /\ UNCHANGED <<visited, vars>>

PagesSpec == PagesInit /\ [][PagesNext]_<<visited, vars, plannerVars>>
=============================================================================
