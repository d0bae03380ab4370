--------------------------- MODULE DevSupervisor ---------------------------
(***************************************************************************)
(* Supervisor::run_until of minco-dev: it starts the services of a plan    *)
(* one after the other, runs the lifecycle commands, spawns the processes, *)
(* watches them, and takes everything down again when it is interrupted,   *)
(* when a command or a process fails, or when nobody is ready in time.     *)
(* Commands and processes are process groups: the leader it spawned and    *)
(* what the leader has spawned.                                            *)
(***************************************************************************)
EXTENDS Naturals

CONSTANTS
    Services, Lifecycles, Processes,    \* how many of each the plan lists
    Startable, Stoppable,   \* the services with a start, a stop command
    Probed,                 \* the processes with an HTTP readiness probe
    Command                 \* the one command that runs at a time

Service == 1..Services
Process == 1..Processes
Child == Process \cup {Command}

ASSUME SupervisorAssumption ==
    /\ Services \in Nat /\ Lifecycles \in Nat /\ Processes \in Nat
    /\ Startable \subseteq Service /\ Stoppable \subseteq Service
    /\ Probed \subseteq Process /\ Command \notin Process

VARIABLES
    stage,      \* what run_until is doing
    at,         \* with which entry of the plan
    started,    \* started_services
    child,      \* the leaders, and whether others of the group may run
    service,    \* external: what the commands have made of the services
    interrupt,  \* the shutdown future is ready
    closed,     \* the receiver of the events is gone
    result      \* of run_until, so far

devVars == <<stage, at, started, child, service, interrupt, closed, result>>

NotSpawned == [leader |-> "none", group |-> FALSE]
Spawned == [leader |-> "running", group |-> TRUE]
(* finish_log_tasks and the escalation of reap_managed_until kill the      *)
(* group; a leader that does not die in time is given up.                  *)
Reaped == [leader |-> "reaped", group |-> FALSE]
GivenUp == [leader |-> "stuck", group |-> FALSE]

Ended(c) == child[c].leader \in {"succeeded", "failed"}
Watched == {p \in Process : child[p] # NotSpawned}

DevInit ==
    /\ stage = "services" /\ at = 1 /\ started = {}
    /\ child = [c \in Child |-> NotSpawned]
    /\ service = [s \in Service |-> "down"]
    /\ interrupt = FALSE /\ closed = FALSE /\ result = "ok"

Goto(to, entry) == stage' = to /\ at' = entry

StopTopology == Goto("reaping", 1)

Fails == result' = "error" /\ StopTopology

(* run_until is left without stop_topology.  The children are dropped,     *)
(* which kills their leaders (kill_on_drop) and nobody else.               *)
Leaves(why) ==
    /\ Goto("returned", at) /\ result' = why
    /\ child' = [c \in Child |->
          IF child[c].leader = "none" THEN child[c] ELSE [child[c] EXCEPT !.leader = "reaped"]]
    /\ UNCHANGED <<started, service>>

(* An event that nobody receives ends run_until at once.                   *)
Abandon == closed /\ Leaves("abandoned")

-----------------------------------------------------------------------------
(* Services and lifecycle commands.                                        *)

StartService ==
    /\ stage = "services" /\ at \in Service
    /\ IF at \notin Startable
       THEN Goto(stage, at + 1) /\ UNCHANGED <<started, child, service, result>>
       ELSE \/ Abandon
            \/ /\ ~closed
               /\ child' = [child EXCEPT ![Command] = Spawned]
               /\ service' = [service EXCEPT ![at] = "touched"]
               /\ Goto("starting", at)
               /\ UNCHANGED <<started, result>>
            \/ ~closed /\ Fails /\ UNCHANGED <<started, child, service>>

(* terminate_managed: the command is told to end, and killed when it does  *)
(* not.                                                                    *)
Terminated ==
    /\ interrupt
    /\ StopTopology
    /\ \/ child' = [child EXCEPT ![Command] = Reaped] /\ UNCHANGED result
       \/ /\ child[Command].leader = "running"
          /\ child' = [child EXCEPT ![Command] = GivenUp]
          /\ result' = "error"

Finished(outcome) ==
    /\ child[Command].leader = outcome
    /\ child' = [child EXCEPT ![Command] = Reaped]

(* Mutant: a start that was interrupted does not count as a start.         *)
MutantAwaitStart ==
    /\ stage = "starting"
    /\ \/ /\ Finished("succeeded")
          /\ IF closed THEN Goto("returned", at) /\ result' = "abandoned"
             ELSE Goto("services", at + 1) /\ UNCHANGED result
          /\ started' = started \cup {at}
       \/ Finished("failed") /\ Fails /\ started' = started \cup {at}
       \/ Terminated /\ UNCHANGED started
    /\ UNCHANGED service

(* run_completed_until of a start command.  However it ends, the service   *)
(* may be up, and is on the list of those to stop.                         *)
AwaitStart ==
    /\ stage = "starting"
    /\ started' = started \cup {at}
    /\ \/ /\ Finished("succeeded")
          /\ IF closed THEN Goto("returned", at) /\ result' = "abandoned"
             ELSE Goto("services", at + 1) /\ UNCHANGED result
       \/ Finished("failed") /\ Fails
       \/ Terminated
    /\ UNCHANGED service

RunLifecycle ==
    /\ stage = "services" /\ at = Services + 1
    /\ Goto("lifecycle", 1)
    /\ UNCHANGED <<started, child, service, result>>

StartLifecycle ==
    /\ stage = "lifecycle" /\ at \in 1..Lifecycles
    /\ \/ Abandon
       \/ /\ ~closed
          /\ child' = [child EXCEPT ![Command] = Spawned]
          /\ Goto("preparing", at)
          /\ UNCHANGED <<started, service, result>>
       \/ ~closed /\ Fails /\ UNCHANGED <<started, child, service>>

(* Mutant: a lifecycle command is waited for, whatever happens meanwhile.  *)
MutantAwaitLifecycle ==
    /\ stage = "preparing"
    /\ \/ /\ Finished("succeeded")
          /\ IF closed THEN Goto("returned", at) /\ result' = "abandoned"
             ELSE Goto("lifecycle", at + 1) /\ UNCHANGED result
       \/ Finished("failed") /\ Fails
    /\ UNCHANGED <<started, service>>

AwaitLifecycle ==
    /\ stage = "preparing"
    /\ \/ /\ Finished("succeeded")
          /\ IF closed THEN Goto("returned", at) /\ result' = "abandoned"
             ELSE Goto("lifecycle", at + 1) /\ UNCHANGED result
       \/ Finished("failed") /\ Fails
       \/ Terminated
    /\ UNCHANGED <<started, service>>

-----------------------------------------------------------------------------
(* Processes.                                                              *)

RunProcesses ==
    /\ stage = "lifecycle" /\ at = Lifecycles + 1
    /\ Goto("processes", 1)
    /\ UNCHANGED <<started, child, service, result>>

SpawnProcess ==
    /\ stage = "processes" /\ at \in Process
    /\ \/ Abandon
       \/ /\ ~closed
          /\ child' = [child EXCEPT ![at] = Spawned]
          /\ Goto("readying", at)
          /\ UNCHANGED <<started, service, result>>
       \/ ~closed /\ Fails /\ UNCHANGED <<started, child, service>>

(* A probe may succeed, find the process gone or run out of time.  Without *)
(* one a process is ready at once.                                         *)
WaitForReadiness ==
    /\ stage = "readying"
    /\ \/ ~closed /\ Goto("processes", at + 1) /\ UNCHANGED result
       \/ (closed \/ at \in Probed) /\ Fails
       \/ interrupt /\ StopTopology /\ UNCHANGED result
    /\ UNCHANGED <<started, child, service>>

(* The loop of the ticker.  The error of a process whose state cannot be   *)
(* read passes stop_topology by.                                           *)
Watch ==
    /\ stage = "processes" /\ at = Processes + 1
    /\ \/ interrupt /\ StopTopology /\ UNCHANGED <<started, child, service, result>>
       \/ (\E p \in Process : Ended(p)) /\ Fails /\ UNCHANGED <<started, child, service>>
       \/ Watched # {} /\ Leaves("unwatched")

-----------------------------------------------------------------------------
(* stop_topology.                                                          *)

(* Mutant: the rest of the group is left alone when the leader has ended.  *)
MutantReap ==
    /\ stage = "reaping" /\ at \in Watched
    /\ \/ child' = [child EXCEPT ![at] = [@ EXCEPT !.leader = "reaped", !.group = Ended(at)]]
          /\ UNCHANGED result
       \/ /\ child[at].leader = "running"
          /\ child' = [child EXCEPT ![at] = GivenUp]
          /\ result' = "error"
    /\ Goto(stage, at + 1)
    /\ UNCHANGED <<started, service>>

(* All have got the signal to terminate; each is reaped, killed with its   *)
(* group after the grace period, or given up.                              *)
Reap ==
    /\ stage = "reaping" /\ at \in Watched
    /\ \/ child' = [child EXCEPT ![at] = Reaped] /\ UNCHANGED result
       \/ /\ child[at].leader = "running"
          /\ child' = [child EXCEPT ![at] = GivenUp]
          /\ result' = "error"
    /\ Goto(stage, at + 1)
    /\ UNCHANGED <<started, service>>

StopServices ==
    /\ stage = "reaping" /\ at \notin Watched
    /\ Goto("stopping", Services)
    /\ UNCHANGED <<started, child, service, result>>

(* In reverse order; a stop command that cannot be spawned or fails is an  *)
(* error, and the next service is stopped all the same.                    *)
StopService ==
    /\ stage = "stopping" /\ at \in Service
    /\ IF at \in started \cap Stoppable
       THEN \/ /\ child' = [child EXCEPT ![Command] = Spawned]
               /\ service' = [service EXCEPT ![at] = "stopping"]
               /\ Goto("ending", at)
               /\ UNCHANGED result
            \/ /\ service' = [service EXCEPT ![at] = "unstopped"]
               /\ result' = "error"
               /\ Goto(stage, at - 1)
               /\ UNCHANGED child
       ELSE Goto(stage, at - 1) /\ UNCHANGED <<child, service, result>>
    /\ UNCHANGED started

AwaitStop ==
    /\ stage = "ending"
    /\ \/ /\ Finished("succeeded")
          /\ service' = [service EXCEPT ![at] = "stopped"]
          /\ UNCHANGED result
       \/ /\ Finished("failed")
          /\ service' = [service EXCEPT ![at] = "unstopped"]
          /\ result' = "error"
    /\ Goto("stopping", at - 1)
    /\ UNCHANGED started

Return ==
    /\ stage = "stopping" /\ at = 0
    /\ Goto("returned", at)
    /\ UNCHANGED <<started, child, service, result>>

SupervisorStep ==
    /\ \/ StartService \/ AwaitStart \/ RunLifecycle \/ StartLifecycle \/ AwaitLifecycle
       \/ RunProcesses \/ SpawnProcess \/ WaitForReadiness \/ Watch
       \/ Reap \/ StopServices \/ StopService \/ AwaitStop \/ Return
    /\ UNCHANGED <<interrupt, closed>>

-----------------------------------------------------------------------------
(* The environment.                                                        *)

(* A leader ends by itself; what it has spawned need not.                  *)
Exit(c) ==
    /\ child[c].leader = "running"
    /\ \E outcome \in {"succeeded", "failed"} : child' = [child EXCEPT ![c].leader = outcome]
    /\ UNCHANGED <<stage, at, started, service, interrupt, closed, result>>

Interrupt ==
    /\ ~interrupt /\ interrupt' = TRUE
    /\ UNCHANGED <<stage, at, started, child, service, closed, result>>

(* render_development_events ends with its output.                         *)
RendererEnds ==
    /\ ~closed /\ closed' = TRUE
    /\ UNCHANGED <<stage, at, started, child, service, interrupt, result>>

DevNext ==
    SupervisorStep \/ Interrupt \/ RendererEnds \/ \E c \in Child : Exit(c)

DevSpec == DevInit /\ [][DevNext]_devVars

-----------------------------------------------------------------------------
(* Properties.                                                             *)

(* The supervisor's own state keeps its shape: the entry it works on is    *)
(* one of the plan's, and a command runs only while it is waited for.      *)
SupervisorTypeOK ==
    /\ at \in 0..(Services + Lifecycles + Processes + 1)
    /\ started \subseteq Startable
    /\ service \in [Service -> {"down", "touched", "stopping", "stopped", "unstopped"}]
    /\ result \in {"ok", "error", "abandoned", "unwatched"}
    /\ child[Command].leader \in {"running", "succeeded", "failed"} =>
          stage \in {"starting", "preparing", "ending"}

(* However a run ends, nothing it started is left behind unnoticed: no     *)
(* member of a group is alive but a leader that cannot be killed, every    *)
(* service its start command may have brought up was stopped, and what     *)
(* could not be undone makes the run an error ("cleanup failure must fail  *)
(* supervision", tests/supervisor.rs).  A lost receiver cuts it short, and *)
(* a process under watch whose state cannot be read.                       *)
NothingLeftBehind ==
    stage = "returned" =>
       \/ closed /\ result = "abandoned"
       \/ result = "unwatched"
       \/ /\ \A c \in Child :
                /\ ~child[c].group
                /\ child[c].leader \in {"none", "reaped"} \/ result = "error"
          /\ \A s \in Stoppable :
                /\ service[s] # "touched"
                /\ service[s] = "unstopped" => result = "error"

(* A service is stopped when the processes that use it are gone and the    *)
(* services started after it have been stopped, or given up.               *)
StopsInOrder ==
    \A s \in Service : service[s] \in {"stopping", "stopped", "unstopped"} =>
       /\ \A p \in Process : ~child[p].group /\ child[p].leader \in {"none", "reaped", "stuck"}
       /\ \A t \in Stoppable : t > s => service[t] \in {"down", "stopped", "unstopped"}

(* An interrupt, or a process that ends under watch, ends the run, although*)
(* start and lifecycle commands may never end and processes may ignore     *)
(* every signal.                                                           *)
RunEnds ==
    interrupt \/ (stage = "processes" /\ at = Processes + 1 /\ \E p \in Process : Ended(p))
        ~> stage = "returned"
=============================================================================
