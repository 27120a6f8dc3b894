--------------------------- MODULE MCWorkspaceLive ----------------------------
(* What must eventually happen to a workspace and to the credentials of one.   *)
(* The two modules are about different workspaces: in every behaviour one of   *)
(* them moves.                                                                 *)
EXTENDS WorkspaceLifecycle

CONSTANTS Secrets, None, Users, Handlers, MaxInputs, MaxFaults  \* Credentials

VARIABLES
  moves,
  attached, present, shown, doing, pending, request, sync, handler, up, disk, uplink, asked,
  faults, mixed, partial

Creds == INSTANCE Credentials WITH
  Tasks <- Handlers, status <- shown, op <- doing, task <- handler, inputs <- asked
credVars == <<attached, present, shown, doing, pending, request, sync, handler, up, disk, uplink,
              asked, faults, mixed, partial>>

(* A workspace in use: its creation is part of the run that checks safety.     *)
LiveInit ==
  /\ Init /\ status = "running" /\ Creds!Init
  /\ moves \in {"workspace", "credentials"} /\ (moves = "workspace" => up /\ attached = None)
LiveNext ==
  /\ UNCHANGED moves
  /\ \/ moves = "workspace" /\ Next /\ UNCHANGED credVars
     \/ moves = "credentials" /\ Creds!Next /\ UNCHANGED vars

(* The fairness of each module, while it is the one that moves.                *)
InLife(A) == moves = "workspace" /\ A
InCreds(A) == moves = "credentials" /\ A
LiveSpec ==
  /\ LiveInit /\ [][LiveNext]_<<moves, vars, credVars>>
  /\ WF_vars(InLife(Runner)) /\ WF_vars(InLife(Heartbeat))
  /\ WF_vars(InLife(\E c \in Conns : Connect(c)))
  /\ \A r \in Callers : WF_vars(InLife(RequestRuns(r)))
  /\ \A c \in Conns : SF_vars(InLife(ConnectionHandled(c)))
  /\ WF_vars(InLife(Socket)) /\ SF_vars(InLife(HandleBeat))
  /\ WF_credVars(InCreds(Creds!RequestStep)) /\ WF_credVars(InCreds(Creds!SyncStep))
  /\ WF_credVars(InCreds(Creds!Beat)) /\ WF_credVars(InCreds(Creds!Handle))
  /\ \A t \in Handlers : WF_credVars(InCreds(Creds!RunnerStep(t)))
-----------------------------------------------------------------------------
(* The flag of a running workspace settles at what its attachment asks for     *)
(* (Credentials).                                                              *)
FlagSettles == Creds!FlagSettles
===============================================================================
