-------------------------- MODULE MCPermissionGate --------------------------
EXTENDS PermissionGate, TLC

CONSTANTS c1, c2, c3

(* Two calls that ask for the same action of one tool in the first run, in  *)
(* parallel or one after the other, and a call of another tool in the       *)
(* second run.                                                              *)
MCTool   == (c1 :> "bash") @@ (c2 :> "bash") @@ (c3 :> "edit")
MCAction == (c1 :> "a") @@ (c2 :> "a") @@ (c3 :> "a")
MCRunOf  == (c1 :> 1) @@ (c2 :> 1) @@ (c3 :> 2)
=============================================================================
