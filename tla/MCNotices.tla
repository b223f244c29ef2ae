----------------------------- MODULE MCNotices ------------------------------
(***************************************************************************)
(* Instances of Notices for TLC.                                           *)
(***************************************************************************)
EXTENDS Notices

CONSTANTS p1, p2
=============================================================================
