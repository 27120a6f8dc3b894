------------------------ MODULE MCWorkspaceLifecycle ------------------------
(* The life of a workspace, and the resources of the QEMU workspaces of a      *)
(* runner. The two modules are about different workspaces: in every behaviour  *)
(* one of them moves.                                                          *)
EXTENDS WorkspaceLifecycle, TLC

CONSTANTS Workspaces, Users, Sizes, Cap, MaxInputs, MaxFaults  \* Capacity

VARIABLES
  moves,
  row, idle, request, stops, tasks, vm, uplink, capInputs, faults, capRaced, active

Qemu == INSTANCE Capacity WITH inputs <- capInputs, raced <- capRaced
ASSUME CapacityLimits == Qemu!CapacityAssumption

qemuVars == <<row, idle, request, stops, tasks, vm, uplink, capInputs, faults, capRaced, active>>

(* One state for the module that does not move.                                *)
SumInit ==
  /\ Init /\ Qemu!Init
  /\ \/ moves = "workspace" /\ \A w \in Workspaces : row[w].status = "none"
     \/ moves = "qemu" /\ status = "running"
SumNext ==
  /\ UNCHANGED moves
  /\ \/ moves = "workspace" /\ Next /\ UNCHANGED qemuVars
     \/ moves = "qemu" /\ Qemu!Next /\ UNCHANGED vars
SumSpec == SumInit /\ [][SumNext]_<<moves, vars, qemuVars>>

(* Requests are interchangeable, and so are QEMU workspaces.                   *)
Symmetry == Permutations(Requests) \cup Permutations(Workspaces)
-----------------------------------------------------------------------------
(* The variables of both modules have their types.                             *)
TypesOK == TypeOK /\ (moves = "qemu" => Qemu!TypeOK)

(* The properties of Capacity, whose comments say more.                        *)

(* The machines that run are within the cap, unless a request was admitted     *)
(* while another one was on its way.                                           *)
CapKeptUnraced == Qemu!CapKeptUnraced
(* A machine that runs has the resources its row shows.                        *)
RunsAsShown == Qemu!RunsAsShown
=============================================================================
