------------------------------ MODULE MCAccess ------------------------------
(***************************************************************************)
(* Instances of Access for TLC.                                            *)
(***************************************************************************)
EXTENDS Access, TLC

CONSTANTS b1, b2

Addresses == b1 :> "home" @@ b2 :> "away"
SmallLimits == "login" :> 2 @@ "api" :> 1
Short == TRUE :> 2 @@ FALSE :> 1
=============================================================================
