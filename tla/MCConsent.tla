------------------------------- MODULE MCConsent -------------------------------
(* What the agent may use: the tool calls a user consents to, and the          *)
(* credentials a user attaches to the workspace. The two modules are about     *)
(* different state: in every behaviour one of them moves.                      *)
EXTENDS MCPermissionGate

CONSTANTS Secrets, Requesters, Handlers, MaxInputs, MaxFaults  \* Credentials

VARIABLES
  moves,
  attached, present, shown, op, pending, asked, sync, handler, up, disk, uplink, inputs,
  faults, mixed, partial

Creds == INSTANCE Credentials WITH
  Users <- Requesters, Tasks <- Handlers, status <- shown, request <- asked, task <- handler
ASSUME AttachingAssumption == Creds!CredentialsAssumption

credVars == <<attached, present, shown, op, pending, asked, sync, handler, up, disk, uplink,
              inputs, faults, mixed, partial>>

(* The workspace runs; see MCWorkspaceLive for one that is stopped.            *)
SumInit ==
  /\ Init /\ Creds!Init /\ up
  /\ moves \in {"gate", "credentials"} /\ (moves = "gate" => attached = None)
SumNext ==
  /\ UNCHANGED moves
  /\ \/ moves = "gate" /\ Next /\ UNCHANGED credVars
     \/ moves = "credentials" /\ Creds!Next /\ UNCHANGED vars
SumSpec == SumInit /\ [][SumNext]_<<moves, vars, credVars>>

(* Answers are interchangeable, so are the two calls of the first run and the  *)
(* runner's handlers.                                                          *)
Symmetry == Permutations(Users) \cup Permutations({c1, c2}) \cup Permutations(Handlers)
-----------------------------------------------------------------------------
(* The flag tells of credential material on the disk (Credentials, whose types *)
(* are checked along with it).                                                 *)
FlagCovers == (moves = "credentials" => Creds!TypeOK) /\ Creds!FlagCovers
================================================================================
