------------------------------ MODULE MCServices ------------------------------
(* The remote calls of the harness, background processes, images, terminals    *)
(* and the tunnels of desktops are independent of each other: in every         *)
(* behaviour one of them moves. Terminals are there three times: with two      *)
(* shells and a page that loses its socket, and with one shell that is typed   *)
(* into, of a QEMU and of a Docker workspace. Images that are captured are     *)
(* left to MCServicesLive.                                                     *)
EXTENDS RunnerRpc, TLC

CONSTANTS
  execW, execS, \* RunnerRpc: an exec_wait and an exec_stream
  \* WorkspaceProcesses
  Procs, Calls, None, MaxFaults,
  \* Images
  jobA, jobB, \* two build jobs
  MaxInputs,
  \* Terminals and DesktopTunnel
  pageA, tunA

VARIABLES
  part,
  rows, wsStatus, request, task, os, tracked, box, stopping, doomed, beat, faults, known,
  forgotten, overtaken,
  def, job, image, imageTask, used, purge, online, stage, todo, sent, working, reports, second,
  inputs,
  page, requests, opening, ptys, writes, uplink, storing, pageInbox, current, drops,
  proxy, queue, socket, frames, orders, answers, session, nextSession, breaks

CallKind == [r \in {execW, execS} |-> IF r = execS THEN "stream" ELSE "wait"]

Proc == INSTANCE WorkspaceProcesses WITH Requests <- Calls
Img == INSTANCE Images WITH
         Jobs <- {jobA, jobB}, Captures <- {}, Host <- <<>>, task <- imageTask,
         Beginnings <- {"active"}

Shells == INSTANCE Terminals WITH
  Pages <- {pageA}, MaxTerminals <- 2, MaxChunks <- 1, MaxKeys <- 0, MaxDrops <- 1,
  Threaded <- FALSE, inbox <- pageInbox
Typing == INSTANCE Terminals WITH
  Pages <- {pageA}, MaxTerminals <- 1, MaxChunks <- 3, MaxKeys <- 2, MaxDrops <- 0,
  Threaded <- FALSE, inbox <- pageInbox
Docker == INSTANCE Terminals WITH
  Pages <- {pageA}, MaxTerminals <- 1, MaxChunks <- 0, MaxKeys <- 2, MaxDrops <- 0,
  Threaded <- TRUE, inbox <- pageInbox
Tunnel == INSTANCE DesktopTunnel WITH
  Tunnels <- {tunA}, MaxFrames <- 3, MaxFaults <- 2, sent <- frames, replies <- answers

ASSUME ProcessesAssumption == Proc!NoneAssumption /\ Proc!FaultsAssumption
ASSUME BuildsAssumption == Img!ImagesAssumption
ASSUME ViewsAssumption ==
  /\ Shells!TerminalAssumption /\ Typing!TerminalAssumption /\ Docker!TerminalAssumption
  /\ Tunnel!TunnelAssumption

procVars == <<rows, wsStatus, request, task, os, tracked, box, stopping, doomed, beat, faults,
              known, forgotten, overtaken>>
imgVars == <<def, job, image, imageTask, used, purge, online, stage, todo, sent, working,
             reports, second, inputs>>
shellVars == <<page, requests, opening, ptys, writes, uplink, storing, pageInbox, current, drops>>
tunnelVars == <<proxy, queue, socket, frames, orders, answers, session, nextSession, breaks>>
sumVars == <<part, vars, procVars, imgVars, shellVars, tunnelVars>>

SumInit ==
  /\ part \in {"rpc", "proc", "images", "shells", "typing", "docker", "tunnel"}
  /\ Init /\ Proc!Init /\ Img!Init /\ Shells!Init /\ Tunnel!Init

SumNext ==
  /\ UNCHANGED part
  /\ \/ part = "rpc" /\ Next
        /\ UNCHANGED <<procVars, imgVars, shellVars, tunnelVars>>
     \/ part = "proc" /\ Proc!Next
        /\ UNCHANGED <<vars, imgVars, shellVars, tunnelVars>>
     \/ part = "images" /\ Img!Next
        /\ UNCHANGED <<vars, procVars, shellVars, tunnelVars>>
     \/ /\ \/ part = "shells" /\ Shells!Next
           \/ part = "typing" /\ Typing!Next
           \/ part = "docker" /\ Docker!Next
        /\ UNCHANGED <<vars, procVars, imgVars, tunnelVars>>
     \/ part = "tunnel" /\ Tunnel!Next
        /\ UNCHANGED <<vars, procVars, imgVars, shellVars>>

SumSpec == SumInit /\ [][SumNext]_sumVars

(* Calls are interchangeable, and so are the build jobs.                       *)
Symmetry == Permutations(Calls) \cup Permutations({jobA, jobB})
-----------------------------------------------------------------------------
(* The properties of these modules, whose comments say more.                   *)

(* The variables have their types.                                             *)
TypesOK ==
  /\ TypeOK
  /\ part = "proc" => Proc!TypeOK
  /\ part = "images" => Img!TypeOK
  /\ part = "shells" => Shells!TypeOK
  /\ part = "typing" => Typing!TypeOK
  /\ part = "docker" => Docker!TypeOK
  /\ part = "tunnel" => Tunnel!TypeOK

(* A live process is written off in two ways only.                             *)
EndedIsDead == Proc!EndedIsDead

(* A build shown as deleted has no image left to use, and a definition becomes *)
(* deleted after the last of its builds.                                       *)
DeletedInOrder == []Img!DeletedTogether /\ Img!DeletedLast

(* A page shows a terminal and a desktop without a gap; keys reach a shell of  *)
(* QEMU in their order.                                                        *)
ShownInOrder ==
  Shells!ShowsInOrder /\ Tunnel!StreamWhole /\ (part = "typing" => Typing!KeysInOrder)
===============================================================================
