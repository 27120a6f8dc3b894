---------------------------- MODULE MCServicesLive ----------------------------
(* What must eventually happen to the calls of the harness, to background      *)
(* processes, images, terminals and the tunnels of desktops. They are          *)
(* independent of each other: in every behaviour one of them moves. Terminals  *)
(* are there three times: with two shells and a page that loses its socket,    *)
(* and with one shell that is typed into, of a QEMU and of a Docker workspace. *)
EXTENDS Naturals, Sequences

CONSTANTS
  \* RunnerRpc
  s,     \* an exec_stream
  MaxLines, MaxEvents,
  \* WorkspaceProcesses
  Procs, Calls, None, MaxFaults,
  \* Images
  j, capA,  \* a build job, and a capture at its runner
  MaxInputs,
  \* Terminals and DesktopTunnel
  p, tunA

VARIABLES
  part,
  call, target, outcome, got, inbox, registry, notice, posted, row, conn, up, toRunner,
  toBackend, remote, printed, cut,
  rows, wsStatus, request, task, os, tracked, box, stopping, doomed, beat, faults, known,
  forgotten, overtaken,
  def, job, image, imageTask, used, purge, online, stage, todo, sent, working, reports, second,
  inputs,
  page, requests, opening, ptys, writes, uplink, storing, pageInbox, current, drops,
  proxy, queue, socket, frames, orders, answers, session, nextSession, breaks

Rpc == INSTANCE RunnerRpc WITH Requests <- {s}, Kind <- [r \in {s} |-> "stream"]
Proc == INSTANCE WorkspaceProcesses WITH Requests <- Calls
Img == INSTANCE Images WITH
         Jobs <- {j}, Captures <- {capA}, Host <- [i \in {capA} |-> j], task <- imageTask,
         Beginnings <- {"none", "active", "delete_failed"}

Shells == INSTANCE Terminals WITH
  Pages <- {p}, MaxTerminals <- 2, MaxChunks <- 0, MaxKeys <- 0, MaxDrops <- 1,
  Threaded <- FALSE, inbox <- pageInbox
Typing == INSTANCE Terminals WITH
  Pages <- {p}, MaxTerminals <- 1, MaxChunks <- 3, MaxKeys <- 2, MaxDrops <- 0,
  Threaded <- FALSE, inbox <- pageInbox
Docker == INSTANCE Terminals WITH
  Pages <- {p}, MaxTerminals <- 1, MaxChunks <- 0, MaxKeys <- 2, MaxDrops <- 0,
  Threaded <- TRUE, inbox <- pageInbox
Tunnel == INSTANCE DesktopTunnel WITH
  Tunnels <- {tunA}, MaxFrames <- 3, MaxFaults <- 2, sent <- frames, replies <- answers

rpcVars == <<call, target, outcome, got, inbox, registry, notice, posted, row, conn, up,
             toRunner, toBackend, remote, printed, cut>>
procVars == <<rows, wsStatus, request, task, os, tracked, box, stopping, doomed, beat, faults,
              known, forgotten, overtaken>>
imgVars == <<def, job, image, imageTask, used, purge, online, stage, todo, sent, working,
             reports, second, inputs>>
shellVars == <<page, requests, opening, ptys, writes, uplink, storing, pageInbox, current, drops>>
tunnelVars == <<proxy, queue, socket, frames, orders, answers, session, nextSession, breaks>>
screenVars == <<shellVars, tunnelVars>>
vars == <<part, rpcVars, procVars, imgVars, screenVars>>

Init ==
  /\ part \in {"rpc", "proc", "images", "shells", "typing", "docker", "tunnel"}
  /\ Rpc!Init /\ Proc!Init /\ Img!Init /\ Shells!Init /\ Tunnel!Init
  /\ part # "images" => job[j].status = "none" /\ image[capA].status = "none"

Next ==
  /\ UNCHANGED part
  /\ \/ part = "rpc" /\ Rpc!Next /\ UNCHANGED <<procVars, imgVars, screenVars>>
     \/ part = "proc" /\ Proc!Next /\ UNCHANGED <<rpcVars, imgVars, screenVars>>
     \/ part = "images" /\ Img!Next /\ UNCHANGED <<rpcVars, procVars, screenVars>>
     \/ part = "shells" /\ Shells!Next /\ UNCHANGED <<rpcVars, procVars, imgVars, tunnelVars>>
     \/ part = "typing" /\ Typing!Next /\ UNCHANGED <<rpcVars, procVars, imgVars, tunnelVars>>
     \/ part = "docker" /\ Docker!Next /\ UNCHANGED <<rpcVars, procVars, imgVars, tunnelVars>>
     \/ part = "tunnel" /\ Tunnel!Next /\ UNCHANGED <<rpcVars, procVars, imgVars, shellVars>>

(* The fairness of each module, while it is the one that moves.               *)
Images(A) == part = "images" /\ A
Screen(A) == part \in {"shells", "typing", "docker"} /\ A
Desktop(A) == part = "tunnel" /\ A
Spec ==
  /\ Init /\ [][Next]_vars
  /\ Rpc!Fairness
  /\ WF_procVars(part = "proc" /\ Proc!Beats) /\ WF_procVars(part = "proc" /\ Proc!Stops)
  /\ WF_imgVars(Images(Img!Purges)) /\ WF_imgVars(Images(Img!RunnerNext))
  /\ WF_imgVars(Images(Img!HandlerNext)) /\ WF_imgVars(Images(Img!RegisterNext))
  /\ WF_imgVars(Images(Img!HourPasses)) /\ WF_imgVars(Images(Img!Sweeps))
  /\ WF_shellVars(Screen(Shells!Obeys)) /\ WF_shellVars(Screen(Shells!Started))
  /\ WF_shellVars(Screen(Shells!Handled)) /\ WF_shellVars(Screen(Shells!Stored))
  /\ WF_shellVars(Screen(\E i \in DOMAIN ptys : Shells!TerminalNext(i)))
  /\ WF_shellVars(Screen(Shells!Hears(p))) /\ WF_shellVars(Screen(Shells!Reconnects(p)))
  /\ WF_tunnelVars(Desktop(Tunnel!Handled)) /\ WF_tunnelVars(Desktop(Tunnel!Obeys))
  /\ WF_tunnelVars(Desktop(Tunnel!PageNext(tunA))) /\ WF_tunnelVars(Desktop(Tunnel!RunnerNext(tunA)))
-----------------------------------------------------------------------------
(* The properties of the five modules, whose comments say more.                *)

(* Every call returns, and a command whose caller gave up is stopped.          *)
CallsEnd == Rpc!CallReturns /\ Rpc!CancelStops

(* The deletion of a capture and of a definition ends.                         *)
DeletionsEnd == Img!CaptureDeletionEnds /\ Img!DefinitionDeletionEnds

(* What ends on one side ends on the other: a process at the backend, a shell  *)
(* and a desktop at the page, and a terminal or a tunnel that is closed at the *)
(* runner.                                                                     *)
EndsAreTold ==
  /\ Proc!ExitIsNoticed
  /\ Shells!EndIsShown /\ Shells!CloseEnds
  /\ Tunnel!EndReachesPage /\ Tunnel!LeaveEndsTunnel
===============================================================================
