--------------------------- MODULE MCExportQueue ---------------------------
(***************************************************************************)
(* Instances of ExportQueue for TLC.                                       *)
(***************************************************************************)
EXTENDS QueueRefinement, TLC

CONSTANTS w1, w2, w3, web, tick, p1, p2, j1, j2, j3

\* The process that serves the web UI runs w1 and w2; a second one (--run-worker) runs
\* w3 and the scheduler tick.
MCProcOf ==
  [a \in {w1, w2, w3, web, tick} |-> IF a \in {w1, w2, web} THEN p1 ELSE p2]

ContendedProcOf == [a \in Workers \cup {web} |-> MCProcOf[a]]

UnattendedProcOf == [a \in {w1, w3, web} |-> MCProcOf[a]]

\* w1 and w2 live in the same process and differ in nothing.
WorkerSymmetry == Permutations({w1, w2})

=============================================================================
