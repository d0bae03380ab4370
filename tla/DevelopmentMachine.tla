------------------------- MODULE DevelopmentMachine -------------------------
(***************************************************************************)
(* A developer's machine: `cargo minco dev` with one service whose start   *)
(* and stop commands are `cargo minco __local-service`, or two terminals   *)
(* that start and stop that service themselves.  The supervisor kills a    *)
(* start it no longer waits for, and the stop must cope with what is left. *)
(***************************************************************************)
EXTENDS DevSupervisor, LocalServices

CONSTANTS
    Managed,        \* the service of the plan that is a local service
    Supervised,     \* the operation the supervisor's command is
    Wanted          \* MINCO_CONTAINER_RUNTIME of its environment

ASSUME MachineAssumption ==
    Managed \in Startable \cap Stoppable /\ Supervised \in Operation /\ Wanted \in Preference

VARIABLES
    scene,      \* who uses the service
    begun       \* the command has taken the lock

machineVars == <<devVars, localVars, scene, begun>>

MachineInit ==
    /\ DevInit /\ LocalInit
    /\ scene \in {"supervised", "terminals"} /\ begun = FALSE

(* The command of the supervisor is a start or a stop of the service.      *)
Commanded ==
    /\ stage \in {"starting", "ending"} /\ at = Managed
    /\ child[Command].leader = "running"

Spawns == child[Command].leader # "running" /\ child'[Command].leader = "running"

(* A command that is no longer waited for is killed; it dies of its signal.*)
Supervise ==
    /\ SupervisorStep
    /\ begun' = (begun /\ ~Spawns)
    /\ IF Commanded /\ op[Supervised].at # "idle" /\ child'[Command].leader # "running"
       THEN child'[Command] # GivenUp /\ Killed(Supervised)
       ELSE UNCHANGED <<power, resource, occupied, late, receipt, lock, op, verdict>>

CommandBegins ==
    /\ Commanded /\ ~begun
    /\ begun' = TRUE
    /\ Acquire(Supervised, IF stage = "starting" THEN "start" ELSE "stop", Wanted)
    /\ UNCHANGED devVars

(* What the operation says is the exit code of the command.                *)
CommandRuns ==
    /\ Commanded /\ begun
    /\ OperationStep(Supervised)
    /\ IF op'[Supervised].at # "idle" THEN UNCHANGED devVars
       ELSE /\ Exit(Command)
            /\ child'[Command].leader =
                  IF verdict' \in {"ready", "stopped"} THEN "succeeded" ELSE "failed"
    /\ UNCHANGED begun

OtherChildExits ==
    /\ \E c \in Child : Exit(c) /\ (c = Command => ~Commanded)
    /\ UNCHANGED <<power, resource, occupied, late, receipt, lock, op, verdict, begun>>

SupervisedStep ==
    \/ Supervise \/ CommandBegins \/ CommandRuns \/ OtherChildExits
    \/ /\ Interrupt \/ RendererEnds
       /\ UNCHANGED <<power, resource, occupied, late, receipt, lock, op, verdict, begun>>
    \/ LocalEnvironment /\ UNCHANGED <<devVars, begun>>

(* The supervised scene ends with the supervisor.                          *)
MachineNext ==
    /\ \/ scene = "supervised" /\ stage # "returned" /\ SupervisedStep /\ Remember
       \/ scene = "terminals" /\ LocalNext /\ UNCHANGED <<devVars, begun>>
    /\ UNCHANGED scene

(* The supervisor goes on and stop commands end: each of their own         *)
(* commands has a timeout.                                                 *)
StopGoesOn ==
    /\ stage = "ending"
    /\ CommandBegins \/ CommandRuns \/ (OtherChildExits /\ child'[Command] # child[Command])
    /\ Remember /\ UNCHANGED scene

MachineFairness ==
    /\ WF_machineVars(scene = "supervised" /\ Supervise /\ Remember /\ UNCHANGED scene)
    /\ WF_machineVars(scene = "supervised" /\ StopGoesOn)

MachineSpec == MachineInit /\ [][MachineNext]_machineVars /\ MachineFairness

-----------------------------------------------------------------------------
(* Properties.                                                             *)

(* Supervisor and operations keep their shapes; an operation under the     *)
(* supervisor lasts no longer than its command.                            *)
MachineTypeOK ==
    /\ SupervisorTypeOK /\ LocalTypeOK
    /\ scene = "supervised" /\ op[Supervised].at # "idle" => Commanded

(* When the stop command of the service succeeded, what a killed start had *)
(* brought up is down, wherever it was and although no receipt tells.  Only*)
(* a command of that start which the runtime carries out later can bring   *)
(* the service up after the stop: nothing else of it runs.                 *)
StoppedMeansDown ==
    scene = "supervised" /\ service[Managed] = "stopped"
       => \A r \in Runtime : Runs(r) => r \in raised

(* The supervisor leaves nothing behind, takes things down in order, and   *)
(* what it stopped is down.                                                *)
ShutdownIsClean == NothingLeftBehind /\ StopsInOrder /\ StoppedMeansDown
=============================================================================
