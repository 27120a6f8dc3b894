------------------------------- MODULE Capacity -------------------------------
(* The resources of the QEMU workspaces of one runner: the cap on the total of *)
(* those that run, the requests that create, resume, resize and stop them, the *)
(* stop for inactivity, and the virtual machines. vCPUs, memory and disk are   *)
(* checked alike and are one size here; a disk cannot shrink. Left out: a lost *)
(* connection and deletion (WorkspaceLifecycle), the range of a single size,   *)
(* the choice of a runner and of an image (Images), sharing of a runner that   *)
(* changes its cap.                                                            *)
EXTENDS Naturals, Sequences, FiniteSetsExt

CONSTANTS
  Workspaces, Users,
  Sizes, Cap,
  MaxInputs,  \* bound: requests of the users and what else they do
  MaxFaults   \* bound: machines that stop by themselves, commands that fail

(* Assumed of the constants by the modules that instantiate this one.          *)
CapacityAssumption ==
  /\ Sizes \subseteq Nat \ {0} /\ Cap \in Nat /\ \A s \in Sizes : s <= Cap
  /\ MaxInputs \in Nat /\ MaxFaults \in Nat /\ IsFiniteSet(Workspaces)

VARIABLES
  row,       \* the backend's workspaces: status, operation, size
  idle,      \* workspaces whose last_activity_at is past its deadline
  request,   \* the users' requests, once they have been admitted
  stops,     \* workspaces the stop for inactivity has still to look at
  tasks,     \* at the runner
  vm,        \* the machines
  uplink,    \* from the runner to the backend
  inputs, faults,
  raced,     \* history: a request was admitted that did not see another one, or
             \* a resize failed in a machine that goes on running
  active     \* history: workspaces somebody was active in since time passed

vars == <<row, idle, request, stops, tasks, vm, uplink, inputs, faults, raced, active>>

(* What the machines that run use is within the cap.                           *)
MachinesFit ==
  MapThenSumSet(LAMBDA w : vm[w].size, {w \in Workspaces : vm[w].state = "running"}) <= Cap

NoRequest == [kind |-> "none", ws |-> "none", size |-> 0]
Blank == [status |-> "none", op |-> "none", size |-> 0]
(* No workspace yet, or one that runs or is stopped.                           *)
Init ==
  /\ row \in [Workspaces -> {Blank} \cup [status : {"running", "stopped"}, op : {"none"}, size : Sizes]]
  /\ vm = [w \in Workspaces |-> [state |-> row[w].status, size |-> row[w].size]]
  /\ MachinesFit /\ idle = {}
  /\ request = [u \in Users |-> NoRequest] /\ stops = {} /\ tasks = {}
  /\ uplink = <<>> /\ inputs = 0 /\ faults = 0 /\ raced = FALSE /\ active = {}

Running == {w \in Workspaces : row[w].status = "running"}
Total(S) == MapThenSumSet(LAMBDA w : row[w].size, S)
(* A mutant: the request is not counted.                                       *)
FitsBefore(w, size) == Total(Running \ {w}) <= Cap
Fits(w, size) == Total(Running \ {w}) + size <= Cap
-----------------------------------------------------------------------------
(* Users. A request reads the row, checks, and goes on after other awaits.     *)

Admitted(w) == \E u \in Users : request[u].ws = w /\ request[u].kind # "stop"
OnItsWay(w) ==
  \/ Admitted(w) \/ \E t \in tasks : t.ws = w /\ t.kind # "stop"
  \/ vm[w].state = "running" /\ row[w].status # "running"
Ask(u, kind, w, size) ==
  /\ request[u] = NoRequest /\ inputs < MaxInputs /\ inputs' = inputs + 1
  /\ request' = [request EXCEPT ![u] = [kind |-> kind, ws |-> w, size |-> size]]
  /\ raced' = (raced \/ (kind # "stop" /\ \E v \in Workspaces : OnItsWay(v)))
  /\ active' = IF kind = "resume" THEN active \cup {w} ELSE active
  /\ UNCHANGED <<row, idle, stops, tasks, vm, uplink, faults>>

AskCreate(u, w, size) ==
  /\ row[w].status = "none" /\ ~Admitted(w) /\ Fits(w, size) /\ Ask(u, "create", w, size)
AskResume(u, w) ==
  /\ row[w].status = "stopped" /\ row[w].op = "none" /\ Fits(w, row[w].size)
  /\ Ask(u, "resume", w, row[w].size)
AskResize(u, w, size) ==
  /\ row[w].status \in {"running", "stopped"} /\ row[w].op = "none"
  /\ size # row[w].size /\ Fits(w, size)
  /\ Ask(u, IF row[w].status = "running" THEN "save and apply" ELSE "save", w, size)
AskStop(u, w) ==
  /\ row[w].status = "running" /\ row[w].op = "none" /\ Ask(u, "stop", w, row[w].size)

Create(u) ==
  LET r == request[u] IN
  /\ r.kind = "create"
  /\ row' = [row EXCEPT ![r.ws] = [status |-> "creating", op |-> "start", size |-> r.size]]
  /\ request' = [request EXCEPT ![u].kind = "start"] /\ UNCHANGED tasks
Save(u) ==
  LET r == request[u] IN
  /\ r.kind \in {"save", "save and apply"}
  /\ row' = [row EXCEPT ![r.ws].size = r.size]
  /\ request' = [request EXCEPT ![u] = IF r.kind = "save" THEN NoRequest
                                       ELSE [r EXCEPT !.kind = "update"]]
  /\ UNCHANGED tasks
(* The operation is set and the task emitted.                                  *)
Dispatch(u) ==
  LET r == request[u] IN
  /\ r.kind \in {"start", "resume", "update", "stop"}
  /\ row' = [row EXCEPT ![r.ws].op = r.kind]
  /\ tasks' = tasks \cup {r} /\ request' = [request EXCEPT ![u] = NoRequest]
RequestStep ==
  /\ \E u \in Users : Create(u) \/ Save(u) \/ Dispatch(u)
  /\ UNCHANGED <<idle, stops, vm, uplink, inputs, faults, raced, active>>

(* A user types or opens files, which touches the row; an agent runs commands, *)
(* which does not; or nobody does anything for long.                           *)
Touch(w) == idle' = idle \ {w} /\ active' = active \cup {w}
Work(w) == active' = active \cup {w} /\ UNCHANGED idle
Elapse(w) == idle' = idle \cup {w} /\ active' = active \ {w}
Activity ==
  /\ \E w \in Running : \/ (Touch(w) \/ Work(w)) /\ inputs < MaxInputs /\ inputs' = inputs + 1
                        \/ Elapse(w) /\ UNCHANGED inputs
  /\ UNCHANGED <<row, request, stops, tasks, vm, uplink, faults, raced>>

(* The stop for inactivity works on the list a heartbeat made; the row is read *)
(* again, the deadline is not.                                                 *)
AutoStop(w) ==
  LET r == [kind |-> "stop", ws |-> w, size |-> row[w].size] IN
  /\ w \in stops /\ stops' = stops \ {w}
  /\ IF row[w].status = "running" /\ row[w].op = "none"
     THEN row' = [row EXCEPT ![w].op = "stop"] /\ tasks' = tasks \cup {r}
     ELSE UNCHANGED <<row, tasks>>
  /\ UNCHANGED <<idle, request, vm, uplink, inputs, faults, raced, active>>
-----------------------------------------------------------------------------
(* The runner.                                                                 *)

Told == [start |-> "created", resume |-> "resumed", resize |-> "updated", stop |-> "stopped"]
Ends(t, kind) ==
  /\ tasks' = tasks \ {t}
  /\ uplink' = Append(uplink, [kind |-> kind, ws |-> t.ws, of |-> t.kind, up |-> {}])
Machine(w, state, size) == vm' = [vm EXCEPT ![w] = [state |-> state, size |-> size]]

Performs(t) ==
  \/ /\ t.kind = "stop" /\ Machine(t.ws, "stopped", vm[t.ws].size) /\ Ends(t, "stopped")
  \/ /\ t.kind \in {"start", "resume", "resize"} /\ t.size >= vm[t.ws].size
     /\ Machine(t.ws, "running", t.size) /\ Ends(t, Told[t.kind])
(* A mutant: a resize that is refused starts the machine as it was.            *)
RefusesAndRestarts(t) ==
  /\ t.kind \in {"resume", "resize"} /\ t.size < vm[t.ws].size
  /\ Machine(t.ws, "running", vm[t.ws].size) /\ Ends(t, "error")
(* A disk that would shrink fails the task, of a resize with the machine down. *)
Refuses(t) ==
  /\ t.kind \in {"resume", "resize"} /\ t.size < vm[t.ws].size
  /\ UNCHANGED vm /\ Ends(t, "error")
(* The machine is stopped before its disk is looked at.                        *)
Halts(t) ==
  /\ t.kind = "update" /\ Machine(t.ws, "stopped", vm[t.ws].size)
  /\ tasks' = (tasks \ {t}) \cup {[t EXCEPT !.kind = "resize"]} /\ UNCHANGED uplink
RunnerStep ==
  /\ \E t \in tasks : Performs(t) \/ Refuses(t) \/ Halts(t)
  /\ UNCHANGED <<row, idle, request, stops, inputs, faults, raced, active>>

(* A command fails; of a resume possibly after the machine was started, of a   *)
(* resize possibly before it was stopped.                                      *)
Fails(t) ==
  /\ Ends(t, "error") /\ raced' = (raced \/ t.kind = "update")
  /\ \/ UNCHANGED vm
     \/ t.kind = "resume" /\ t.size >= vm[t.ws].size /\ Machine(t.ws, "running", t.size)
PowerOff(w) ==
  /\ vm[w].state = "running" /\ Machine(w, "stopped", vm[w].size)
  /\ UNCHANGED <<tasks, uplink, raced>>
Fault ==
  /\ faults < MaxFaults /\ faults' = faults + 1
  /\ (\E t \in tasks : Fails(t)) \/ (\E w \in Workspaces : PowerOff(w))
  /\ UNCHANGED <<row, idle, request, stops, inputs, active>>

Beat ==
  /\ \A i \in DOMAIN uplink : uplink[i].kind # "beat"
  /\ uplink' = Append(uplink, [kind |-> "beat", ws |-> "none", of |-> "none",
                               up |-> {w \in Workspaces : vm[w].state = "running"}])
  /\ UNCHANGED <<row, idle, request, stops, tasks, vm, inputs, faults, raced, active>>
-----------------------------------------------------------------------------
(* The backend's handlers.                                                     *)

Status == [created |-> "running", resumed |-> "running", stopped |-> "stopped"]
OnEnd ==
  LET m == Head(uplink) IN
  /\ uplink # <<>> /\ m.kind # "beat"
  /\ row' = [row EXCEPT
       ![m.ws].op = "none",
       ![m.ws].status = IF m.kind \in DOMAIN Status THEN Status[m.kind]
                        ELSE IF m.kind = "error" /\ m.of = "start" THEN "failed" ELSE @]
  /\ UNCHANGED stops
(* The status of a workspace that is being created is left alone; then the     *)
(* inactive ones are listed.                                                   *)
OnBeat ==
  LET up == Head(uplink).up
      Seen(w) == IF row[w].status \notin {"running", "stopped"} THEN row[w]
                 ELSE [row[w] EXCEPT !.status = IF w \in up THEN "running" ELSE "stopped"]
  IN
  /\ uplink # <<>> /\ Head(uplink).kind = "beat" /\ stops = {}
  /\ row' = [w \in Workspaces |-> Seen(w)]
  /\ stops' = {w \in idle : row'[w].status = "running" /\ row'[w].op = "none"}
Handle ==
  /\ OnEnd \/ OnBeat
  /\ uplink' = Tail(uplink)
  /\ UNCHANGED <<idle, request, tasks, vm, inputs, faults, raced, active>>

Input ==
  \E u \in Users, w \in Workspaces :
    \/ AskResume(u, w) \/ AskStop(u, w)
    \/ \E size \in Sizes : AskCreate(u, w, size) \/ AskResize(u, w, size)
Next ==
  \/ Input \/ RequestStep \/ Activity \/ RunnerStep \/ Fault \/ Beat \/ Handle
  \/ \E w \in Workspaces : AutoStop(w)
Spec == Init /\ [][Next]_vars
-----------------------------------------------------------------------------
(* The variables have their types.                                             *)
TypeOK ==
  LET Kinds == {"start", "resume", "update", "stop"}
      Known == Sizes \cup {0}
  IN
  /\ row \in [Workspaces -> [status : {"none", "creating", "running", "stopped", "failed"},
                             op : Kinds \cup {"none"}, size : Known]]
  /\ idle \subseteq Workspaces /\ active \subseteq Workspaces /\ stops \subseteq Workspaces
  /\ request \in [Users -> [kind : Kinds \cup {"create", "save", "save and apply"},
                            ws : Workspaces, size : Sizes] \cup {NoRequest}]
  /\ tasks \subseteq [kind : Kinds \cup {"resize"}, ws : Workspaces, size : Known]
  /\ vm \in [Workspaces -> [state : {"none", "running", "stopped"}, size : Known]]
  /\ inputs \in 0..MaxInputs /\ faults \in 0..MaxFaults /\ raced \in BOOLEAN

(* "Optional cap for total vCPUs across active (running) QEMU workspaces".     *)
CapKept == MachinesFit

(* The cap holds as long as every request was admitted while no other one, and *)
(* no machine the rows did not show yet, was on its way to run: through stops  *)
(* of users, for inactivity and from outside, resizes of stopped workspaces    *)
(* and failed commands.                                                        *)
CapKeptUnraced == ~raced => CapKept

(* Whatever is resized, refused or fails, a machine that runs has the          *)
(* resources its row shows, once nothing is under way: a refused or failed     *)
(* resize leaves it stopped.                                                   *)
RunsAsShown ==
  ~raced /\ tasks = {} /\ (\A u \in Users : request[u] = NoRequest) =>
    \A w \in Workspaces : vm[w].state = "running" => vm[w].size = row[w].size

(* "Automatically stop running workspaces after this many minutes of           *)
(* inactivity": a heartbeat chooses no workspace somebody is active in.        *)
StopsInactive == [][\A w \in stops' \ stops : w \notin active]_vars
===============================================================================
