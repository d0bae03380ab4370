--------------------------- MODULE LocalServices ---------------------------
(***************************************************************************)
(* `cargo minco __local-service start|stop` of one service in one          *)
(* workspace (crates/minco-cli/src/service_runtime.rs): its container may  *)
(* live in Apple Container or in Docker, runtimes that come and go on      *)
(* their own, and a receipt below target/ says where.  Operations run      *)
(* under a file lock, may be killed between any two of their commands, and *)
(* may leave a command behind that takes effect later.                     *)
(***************************************************************************)
EXTENDS Naturals, FiniteSets

CONSTANTS
    Apple, Docker,      \* the two runtimes
    Operation,          \* the invocations that run at the same time
    NoReceipt, Nobody

Runtime == {Apple, Docker}
Preference == Runtime \cup {"auto"}

ASSUME LocalServicesAssumption ==
    /\ Apple # Docker /\ NoReceipt \notin Runtime /\ Nobody \notin Operation

VARIABLES
    power,      \* external: whether a runtime is installed and answers
    resource,   \* external: the container of the service's name in it
    occupied,   \* external: a stranger listens on the service's port
    late,       \* external: the command left behind, if any
    receipt,    \* the runtime in the lifecycle receipt
    lock,       \* who holds the service lock
    op,         \* the operations
    verdict,    \* what the last operation returned
    reported,   \* history: the containers a start has reported ready
    raised      \* history: running containers that the command left behind brought up

localVars == <<power, resource, occupied, late, receipt, lock, op, verdict, reported, raised>>

Owned == {"stopped", "running"}
Runs(r) == resource[r] = "running"
PortBusy == occupied \/ \E r \in Runtime : Runs(r)
Up == {r \in Runtime : power[r] = "up"}

Unbegun == [at |-> "idle", kind |-> "none", prefer |-> "auto", runtime |-> NoReceipt,
            created |-> FALSE]

(* At most one killed command of a behaviour takes effect later.           *)
NoneYet == [command |-> "none yet", runtime |-> NoReceipt]
Landed == [command |-> "landed", runtime |-> NoReceipt]

LocalInit ==
    /\ power \in [Runtime -> {"missing", "up"}] /\ Up # {}
    /\ resource \in [Runtime -> {"absent", "foreign"}]
    /\ occupied = FALSE /\ late = NoneYet
    /\ receipt = NoReceipt /\ lock = Nobody
    /\ op = [o \in Operation |-> Unbegun] /\ verdict = "nothing"
    /\ reported = {} /\ raised = {}

Onward(o, state) == op' = [op EXCEPT ![o] = state] /\ verdict' = "nothing"

Continue(o, there) == Onward(o, [op[o] EXCEPT !.at = there]) /\ UNCHANGED lock

(* The operation returns; its lock is dropped.                             *)
Say(o, what) ==
    /\ op' = [op EXCEPT ![o] = Unbegun] /\ verdict' = what
    /\ lock' = IF lock = o THEN Nobody ELSE lock

Give(r, state) == resource' = [resource EXCEPT ![r] = state]

(* Apple containers run with --rm.                                         *)
Halted(r) == IF r = Apple THEN {"absent", "stopped"} ELSE {"stopped"}

(* The command was killed, by its timeout or with its operation, and what  *)
(* it asked for may still happen.                                          *)
LeftBehind(command, r) ==
    \/ UNCHANGED late
    \/ late = NoneYet /\ late' = [command |-> command, runtime |-> r]

-----------------------------------------------------------------------------
(* Both operations.                                                        *)

(* Mutant: operations do not exclude one another.                          *)
MutantAcquire(o, kind, prefer) ==
    /\ op[o].at = "idle"
    /\ Onward(o, [Unbegun EXCEPT !.at = "selecting", !.kind = kind, !.prefer = prefer])
    /\ UNCHANGED <<lock, power, resource, occupied, late, receipt>>

(* try_lock: whoever finds it held is refused.                             *)
Acquire(o, kind, prefer) ==
    /\ op[o].at = "idle" /\ lock = Nobody
    /\ lock' = o
    /\ Onward(o, [Unbegun EXCEPT !.at = "selecting", !.kind = kind, !.prefer = prefer])
    /\ UNCHANGED <<power, resource, occupied, late, receipt>>

Chosen(o, r, there) ==
    Onward(o, [op[o] EXCEPT !.at = there, !.runtime = r]) /\ UNCHANGED lock

(* What inspecting these runtimes shows: a foreign container of the name,  *)
(* or an owned one in more than one of them, is an error.                  *)
Ambiguous(inspected) ==
    \/ \E r \in inspected : resource[r] = "foreign"
    \/ Cardinality({r \in inspected : resource[r] \in Owned}) > 1

Holding(inspected) == {r \in inspected : resource[r] \in Owned}

-----------------------------------------------------------------------------
(* start.                                                                  *)

(* Mutant: an explicit choice outranks the receipt.                        *)
MutantStartRuntimes(prefer) ==
    IF prefer # "auto" THEN Up \cap {prefer}
    ELSE IF receipt # NoReceipt THEN Up \cap {receipt}
    ELSE IF Up = {} \/ Ambiguous(Up) THEN {}
    ELSE IF Holding(Up) # {} THEN Holding(Up)
    ELSE IF Apple \in Up THEN {Apple} ELSE Up

(* select_start_runtime: the receipt's runtime, else the chosen one, else  *)
(* that of an owned container, else Apple before Docker; none when it is   *)
(* not ready or the choice is refused.                                     *)
StartRuntimes(prefer) ==
    IF receipt # NoReceipt THEN IF prefer \in {"auto", receipt} THEN Up \cap {receipt} ELSE {}
    ELSE IF prefer # "auto" THEN Up \cap {prefer}
    ELSE IF Up = {} \/ Ambiguous(Up) THEN {}
    ELSE IF Holding(Up) # {} THEN Holding(Up)
    ELSE IF Apple \in Up THEN {Apple} ELSE Up

SelectStart(o) ==
    /\ op[o].at = "selecting" /\ op[o].kind = "start"
    /\ \/ \E r \in StartRuntimes(op[o].prefer) : Chosen(o, r, "inspecting")
       \/ StartRuntimes(op[o].prefer) = {} /\ Say(o, "failed")
    /\ UNCHANGED <<power, resource, occupied, late, receipt>>

(* Mutant: without a receipt the container counts as the attempt's own.    *)
MutantInspect(o) ==
    LET r == op[o].runtime IN
    /\ op[o].at = "inspecting"
    /\ IF r \notin Up \/ resource[r] = "foreign" THEN Say(o, "failed")
       ELSE IF Runs(r) THEN Continue(o, "readying")
       ELSE IF PortBusy THEN Say(o, "failed")
       ELSE /\ Onward(o, [op[o] EXCEPT !.at = "bringing", !.created = receipt = NoReceipt])
            /\ UNCHANGED lock
    /\ UNCHANGED <<power, resource, occupied, late, receipt>>

(* A running container is only awaited; else the port must be free.        *)
Inspect(o) ==
    LET r == op[o].runtime IN
    /\ op[o].at = "inspecting"
    /\ IF r \notin Up \/ resource[r] = "foreign" THEN Say(o, "failed")
       ELSE IF Runs(r) THEN Continue(o, "readying")
       ELSE IF PortBusy THEN Say(o, "failed")
       ELSE /\ Onward(o, [op[o] EXCEPT !.at = "bringing", !.created = resource[r] = "absent"])
            /\ UNCHANGED lock
    /\ UNCHANGED <<power, resource, occupied, late, receipt>>

(* A failed start takes down what it has created, and nothing else.        *)
FailStart(o) == IF op[o].created THEN Continue(o, "cleaning") ELSE Say(o, "failed")

(* run and up create the container, start needs one; up also starts one    *)
(* that has appeared meanwhile.  All need the port.                        *)
CanBring(o, r) ==
    /\ r \in Up
    /\ Runs(r) \/ ~PortBusy
    /\ \/ resource[r] = "absent" /\ op[o].created
       \/ resource[r] \in Owned /\ (r = Docker \/ ~op[o].created)

(* The command can fail before, halfway through and after what it does.    *)
Bring(o) ==
    LET r == op[o].runtime IN
    /\ op[o].at = "bringing"
    /\ \/ CanBring(o, r) /\ Give(r, "running") /\ Continue(o, "verifying") /\ UNCHANGED late
       \/ /\ \/ UNCHANGED resource
             \/ CanBring(o, r) /\ Give(r, "running")
             \/ r \in Up /\ resource[r] = "absent" /\ op[o].created /\ Give(r, "stopped")
          /\ FailStart(o)
          /\ LeftBehind("bring", r)
    /\ UNCHANGED <<power, occupied, receipt>>

Verify(o) ==
    /\ op[o].at = "verifying"
    /\ IF op[o].runtime \in Up /\ Runs(op[o].runtime) THEN Continue(o, "readying") ELSE FailStart(o)
    /\ UNCHANGED <<power, resource, occupied, late, receipt>>

(* wait_until_ready asks at the port, whoever answers there with the       *)
(* service's credentials.                                                  *)
Await(o) ==
    /\ op[o].at = "readying"
    /\ \/ (\E r \in Runtime : Runs(r)) /\ Continue(o, "writing")
       \/ FailStart(o)
    /\ UNCHANGED <<power, resource, occupied, late, receipt>>

WriteReceipt(o) ==
    /\ op[o].at = "writing"
    /\ \/ receipt' = op[o].runtime /\ Say(o, "ready")
       \/ UNCHANGED receipt /\ Say(o, "failed")
    /\ UNCHANGED <<power, resource, occupied, late>>

-----------------------------------------------------------------------------
(* stop_exact_resource, for a stop and for the cleanup of a start.         *)

HaltThen(o, onward, onError) ==
    LET r == op[o].runtime IN
    /\ \/ r \in Up /\ resource[r] \in {"absent", "stopped"} /\ onward
          /\ UNCHANGED <<resource, late>>
       \/ r \in Up /\ Runs(r) /\ onward /\ (\E end \in Halted(r) : Give(r, end))
          /\ UNCHANGED late
       \/ /\ onError
          /\ LeftBehind("halt", r)
          /\ \/ UNCHANGED resource
             \/ r \in Up /\ Runs(r) /\ \E end \in Halted(r) : Give(r, end)
    /\ UNCHANGED <<power, occupied, receipt>>

(* cleanup_created_resource.                                               *)
Clean(o) ==
    /\ op[o].at = "cleaning"
    /\ HaltThen(o, Continue(o, "removing"), Say(o, "failed"))

Remove(o) ==
    LET r == op[o].runtime IN
    /\ op[o].at = "removing"
    /\ \/ r \in Up /\ resource[r] = "stopped" /\ Give(r, "absent") /\ UNCHANGED late
       \/ /\ UNCHANGED resource
          /\ IF resource[r] = "stopped" THEN LeftBehind("remove", r) ELSE UNCHANGED late
    /\ Say(o, "failed")
    /\ UNCHANGED <<power, occupied, receipt>>

-----------------------------------------------------------------------------
(* stop.                                                                   *)

(* Mutant: runtimes that do not answer are passed over, as a start does.   *)
MutantDiscovered(prefer) ==
    IF prefer # "auto" THEN Up \cap {prefer} ELSE Up

(* discovery_runtimes: every installed runtime must answer.                *)
Discovered(prefer) ==
    IF prefer # "auto" THEN Up \cap {prefer}
    ELSE IF \A r \in Runtime : power[r] \in {"missing", "up"} THEN Up ELSE {}

(* The preference does not matter beside a receipt.                        *)
SelectStop(o) ==
    LET found == Discovered(op[o].prefer) IN
    /\ op[o].at = "selecting" /\ op[o].kind = "stop"
    /\ IF receipt # NoReceipt
       THEN IF receipt \in Up THEN Chosen(o, receipt, "stopping") ELSE Say(o, "failed")
       ELSE IF found = {} \/ Ambiguous(found) THEN Say(o, "failed")
       ELSE IF Holding(found) = {} THEN Say(o, "stopped")
       ELSE \E r \in Holding(found) : Chosen(o, r, "stopping")
    /\ UNCHANGED <<power, resource, occupied, late, receipt>>

Stop(o) ==
    /\ op[o].at = "stopping"
    /\ HaltThen(o, Continue(o, "checking"), Say(o, "failed"))

Check(o) ==
    LET r == op[o].runtime IN
    /\ op[o].at = "checking"
    /\ IF r \in Up /\ resource[r] \in {"absent", "stopped"}
       THEN Continue(o, "forgetting") ELSE Say(o, "failed")
    /\ UNCHANGED <<power, resource, occupied, late, receipt>>

RemoveReceipt(o) ==
    /\ op[o].at = "forgetting"
    /\ \/ receipt' = NoReceipt /\ Say(o, "stopped")
       \/ UNCHANGED receipt /\ Say(o, "failed")
    /\ UNCHANGED <<power, resource, occupied, late>>

-----------------------------------------------------------------------------
(* The operation is killed; the system releases its lock.                  *)
Killed(o) ==
    LET command == CASE op[o].at = "bringing" -> "bring"
                     [] op[o].at \in {"cleaning", "stopping"} -> "halt"
                     [] op[o].at = "removing" -> "remove"
                     [] OTHER -> "none"
    IN
    /\ op[o].at # "idle"
    /\ Say(o, "nothing")
    /\ IF command = "none" THEN UNCHANGED late ELSE LeftBehind(command, op[o].runtime)
    /\ UNCHANGED <<power, resource, occupied, receipt>>

OperationStep(o) ==
    \/ SelectStart(o) \/ Inspect(o) \/ Bring(o) \/ Verify(o) \/ Await(o) \/ WriteReceipt(o)
    \/ Clean(o) \/ Remove(o)
    \/ SelectStop(o) \/ Stop(o) \/ Check(o) \/ RemoveReceipt(o) \/ Killed(o)

Begin(o) == \E kind \in {"start", "stop"}, prefer \in Preference : Acquire(o, kind, prefer)

-----------------------------------------------------------------------------
(* The environment.                                                        *)

(* A runtime that goes down takes its containers with it; one that stalls  *)
(* answers no command while they run on.                                   *)
RuntimeChanges(r) ==
    /\ power[r] # "missing"
    /\ \/ power[r] # "up" /\ power' = [power EXCEPT ![r] = "up"] /\ UNCHANGED resource
       \/ power[r] = "up" /\ power' = [power EXCEPT ![r] = "stalled"] /\ UNCHANGED resource
       \/ /\ power[r] # "down" /\ power' = [power EXCEPT ![r] = "down"]
          /\ IF Runs(r) THEN \E end \in Halted(r) : Give(r, end) ELSE UNCHANGED resource
    /\ UNCHANGED <<occupied, late, receipt, lock, op, verdict>>

ContainerDies(r) ==
    /\ Runs(r) /\ \E end \in Halted(r) : Give(r, end)
    /\ UNCHANGED <<power, occupied, late, receipt, lock, op, verdict>>

PortChanges ==
    /\ occupied \/ ~PortBusy
    /\ occupied' = ~occupied
    /\ UNCHANGED <<power, resource, late, receipt, lock, op, verdict>>

(* cargo clean takes target/ with the receipt; not under an operation.     *)
TargetCleaned ==
    /\ lock = Nobody /\ receipt # NoReceipt
    /\ receipt' = NoReceipt
    /\ UNCHANGED <<power, resource, occupied, late, lock, op, verdict>>

Lands ==
    /\ late.runtime \in Runtime
    /\ LET command == late.command
           r == late.runtime
       IN \/ UNCHANGED resource
          \/ /\ command = "bring" /\ r \in Up /\ resource[r] \in {"absent", "stopped"}
             /\ Give(r, IF PortBusy THEN "stopped" ELSE "running")
          \/ /\ command = "halt" /\ r \in Up /\ Runs(r)
             /\ \E end \in Halted(r) : Give(r, end)
          \/ /\ command = "remove" /\ r \in Up /\ resource[r] = "stopped"
             /\ Give(r, "absent")
    /\ late' = Landed
    /\ UNCHANGED <<power, occupied, receipt, lock, op, verdict>>

SaysNow(o, what) == op[o].at # "idle" /\ op'[o].at = "idle" /\ verdict' = what

LocalEnvironment ==
    \/ \E r \in Runtime : RuntimeChanges(r) \/ ContainerDies(r)
    \/ PortChanges \/ TargetCleaned \/ Lands

Remember ==
    /\ reported' = {r \in Runtime :
          /\ resource'[r] # "absent"
          /\ r \in reported \/ \E o \in Operation : SaysNow(o, "ready") /\ op[o].runtime = r}
    /\ raised' = {r \in Runtime :
          /\ resource'[r] = "running"
          /\ r \in raised \/ (late.runtime = r /\ late' = Landed /\ ~Runs(r))}

LocalNext ==
    /\ LocalEnvironment \/ \E o \in Operation : Begin(o) \/ OperationStep(o)
    /\ Remember

LocalSpec == LocalInit /\ [][LocalNext]_localVars

-----------------------------------------------------------------------------
(* Properties.                                                             *)

(* Operations work on a runtime, and only the holder of the lock is at     *)
(* work.                                                                   *)
LocalTypeOK ==
    /\ receipt \in Runtime \cup {NoReceipt}
    /\ reported \subseteq {r \in Runtime : resource[r] \in Owned}
    /\ raised \subseteq {r \in Runtime : Runs(r)}
    /\ \A o \in Operation :
          /\ op[o].at # "idle" <=> lock = o
          /\ op[o].at \notin {"idle", "selecting"} => op[o].runtime \in Runtime

(* From the first start that reports the service ready to the stop, a      *)
(* service stays in one runtime, whichever runtimes come and go ("Existing *)
(* projects do not change runtimes mid-lifecycle", ADR 0044).              *)
LifecycleStaysPut ==
    receipt # NoReceipt => receipt' \in {receipt, NoReceipt}

(* A failed start removes no container that has ever been reported ready   *)
(* ("cleans up only a resource created by that attempt", ADR 0036).        *)
OnlyOwnAttemptRemoved ==
    \A o \in Operation :
       op[o].at = "removing" /\ op'[o].at = "idle" /\ resource' # resource
          => op[o].runtime \notin reported

(* A stop that was not confined to one runtime says so only when no        *)
(* operation's container runs in either, although it may have looked in one*)
(* only.  A command left behind by a killed start can bring the service up *)
(* behind its back: what still runs then, that command has brought up.     *)
StopIsTrue ==
    \A o \in Operation :
       SaysNow(o, "stopped") /\ (receipt # NoReceipt \/ op[o].prefer = "auto")
          => \A r \in Runtime : Runs(r) => r \in raised

ServicesKept == [][LifecycleStaysPut /\ OnlyOwnAttemptRemoved /\ StopIsTrue]_localVars
=============================================================================
