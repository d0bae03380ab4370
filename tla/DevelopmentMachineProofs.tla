----------------------- MODULE DevelopmentMachineProofs -----------------------
(***************************************************************************)
(* Proofs about the supervisor and the local services, for a plan of any   *)
(* length and any number of terminals.                                     *)
(*                                                                         *)
(* The supervisor takes its plan down as it brought it up: the processes   *)
(* it watches are a prefix of the plan (ProcessesInOrder), a service that  *)
(* may be up is on the list of those to stop, and above the entry it is at *)
(* every service has been seen to (ServiceOK).  The operations of a local  *)
(* service are fenced by its lock and by the port: one container runs at a *)
(* time, and it is the receipt's (RunsOK).  Under the supervisor there is  *)
(* one start at most before the stop, so the container is in one runtime,  *)
(* and that is where the stop looks (OneHome).                             *)
(***************************************************************************)
EXTENDS DevelopmentMachine, FiniteSetTheorems, TLAPS

-----------------------------------------------------------------------------
(* DevSupervisor.                                                          *)

Early == {"services", "starting", "lifecycle", "preparing", "processes", "readying"}
Waiting == {"starting", "preparing", "ending"}

Group ==
    [leader : {"none", "running", "succeeded", "failed", "reaped", "stuck"}, group : BOOLEAN]

(* Nothing is left of the group, and it is no secret if its leader is.     *)
Settled(c) ==
    /\ ~child[c].group
    /\ child[c].leader \in {"none", "reaped", "stuck"}
    /\ child[c].leader = "stuck" => result = "error"

(* run_until was left without stop_topology.                               *)
CutShort == result \in {"abandoned", "unwatched"}

(* The run was not cut short, and the services are being stopped.          *)
TakenDown ==
    stage \in {"stopping", "ending"} \/ (stage = "returned" /\ ~CutShort)

DevShape ==
    /\ started \subseteq Startable
    /\ child \in [Child -> Group]
    /\ service \in [Service -> {"down", "touched", "stopping", "stopped", "unstopped"}]
    /\ result \in {"ok", "error", "abandoned", "unwatched"}
    /\ interrupt \in BOOLEAN /\ closed \in BOOLEAN

(* The entry of the plan that each stage is at.                            *)
EntryOK ==
    \/ stage = "services" /\ at \in 1..(Services + 1)
    \/ stage = "starting" /\ at \in Startable
    \/ stage = "lifecycle" /\ at \in 1..(Lifecycles + 1)
    \/ stage = "preparing" /\ at \in 1..Lifecycles
    \/ stage = "processes" /\ at \in 1..(Processes + 1)
    \/ stage = "readying" /\ at \in Process
    \/ stage = "reaping" /\ at \in 1..(Processes + 1)
    \/ stage = "stopping" /\ at \in 0..Services
    \/ stage = "ending" /\ at \in started \cap Stoppable
    \/ stage = "returned" /\ at \in 0..(Services + Lifecycles + Processes + 1)
       /\ (~CutShort => at = 0)

ResultOK ==
    /\ stage \in Early => result = "ok"
    /\ CutShort => stage = "returned"
    /\ result = "abandoned" => closed

(* A command that is not waited for is over.                               *)
CommandOver ==
    stage \notin Waiting =>
        /\ child[Command].leader \in {"none", "reaped", "stuck"}
        /\ ~CutShort => Settled(Command)

(* The processes were spawned in order and are taken down in that order.   *)
ProcessesInOrder ==
    /\ \A p, q \in Process : q < p /\ child[p] # NotSpawned => child[q] # NotSpawned
    /\ stage \in {"processes", "readying"} =>
          \A q \in Process : q < at => child[q] # NotSpawned
    /\ stage = "readying" => child[at] # NotSpawned
    /\ stage = "reaping" => \A p \in Process : p < at => Settled(p)
    /\ TakenDown => \A p \in Process : Settled(p)

(* A service that may be up is on the list; the services above the entry   *)
(* have been seen to.                                                      *)
ServiceOK(s) ==
    /\ service[s] = "touched" => s \in started \/ (stage = "starting" /\ at = s)
    /\ service[s] \in {"stopping", "stopped", "unstopped"} =>
          TakenDown /\ (at < s \/ (stage = "ending" /\ at = s))
    /\ TakenDown /\ at < s /\ s \in Stoppable => service[s] \in {"down", "stopped", "unstopped"}
    /\ service[s] = "unstopped" => result = "error"

DevInv ==
    /\ DevShape /\ EntryOK /\ ResultOK /\ CommandOver /\ ProcessesInOrder
    /\ \A s \in Service : ServiceOK(s)

-----------------------------------------------------------------------------
(* LocalServices.                                                          *)

StartAt == {"inspecting", "bringing", "verifying", "readying", "writing"}
StopAt == {"stopping", "checking", "forgetting"}

OpRecord ==
    [at : {"idle", "selecting", "cleaning", "removing"} \cup StartAt \cup StopAt,
     kind : {"none", "start", "stop"}, prefer : Preference,
     runtime : Runtime \cup {NoReceipt}, created : BOOLEAN]

LateRecord ==
    {NoneYet, Landed} \cup [command : {"bring", "halt", "remove"}, runtime : Runtime]

LocalShape ==
    /\ power \in [Runtime -> {"missing", "up", "stalled", "down"}]
    /\ resource \in [Runtime -> {"absent", "foreign", "stopped", "running"}]
    /\ occupied \in BOOLEAN /\ late \in LateRecord
    /\ receipt \in Runtime \cup {NoReceipt} /\ lock \in Operation \cup {Nobody}
    /\ op \in [Operation -> OpRecord]
    /\ reported \subseteq {r \in Runtime : resource[r] \in Owned}
    /\ raised \subseteq {r \in Runtime : Runs(r)}

(* An operation at work has the lock, and what it does is about the        *)
(* receipt's runtime if there is a receipt.                                *)
OpOK(o) ==
    /\ op[o].at # "idle" <=> lock = o
    /\ op[o].at \notin {"idle", "selecting"} => op[o].runtime \in Runtime
    /\ op[o].at \in {"selecting", "inspecting"} => ~op[o].created
    /\ op[o].at \in StartAt /\ receipt # NoReceipt => op[o].runtime = receipt
    /\ op[o].at \in StartAt \ {"inspecting"} => resource[op[o].runtime] # "foreign"
    /\ op[o].at \in {"cleaning", "removing"} => op[o].created
    /\ op[o].at # "idle" /\ op[o].created => op[o].runtime \notin reported

(* What runs without the doing of a command that was left behind.          *)
Brought(r) == Runs(r) /\ r \notin raised

NothingBrought == \A r \in Runtime : ~Brought(r)
OnlyBroughtIn(r) == \A q \in Runtime : Brought(q) => q = r
OnlyRunsIn(r) == \A q \in Runtime : Runs(q) => q = r

(* The port lets one container run at a time.  What was brought up runs    *)
(* where the receipt says, or where the operation at work is at work.      *)
RunsOK ==
    /\ \A r \in Runtime : Runs(r) => OnlyRunsIn(r) /\ power[r] # "missing"
    /\ receipt # NoReceipt => OnlyBroughtIn(receipt)

OpRuns(o) ==
    /\ op[o].at \in StartAt \ {"inspecting"} => OnlyBroughtIn(op[o].runtime)
    /\ receipt # NoReceipt \/ op[o].prefer = "auto" =>
          /\ op[o].at \in {"stopping", "checking"} => OnlyBroughtIn(op[o].runtime)
          /\ op[o].at = "forgetting" => NothingBrought

LocalInv ==
    /\ LocalShape /\ RunsOK
    /\ \A o \in Operation : OpOK(o) /\ OpRuns(o)

-----------------------------------------------------------------------------
(* The two together.                                                       *)

(* The container is in this runtime, or a command left behind may put it   *)
(* there.                                                                  *)
Houses(r) == resource[r] \in Owned \/ (late.command = "bring" /\ late.runtime = r)

(* The container can only be in this runtime.                              *)
OwnedIn(r) == \A q \in Runtime : Houses(q) => q = r

NothingOwned == receipt = NoReceipt /\ \A q \in Runtime : ~Houses(q)

(* One start has been tried at most: its container is where it was looking,*)
(* and where the stop will look.                                           *)
OneHome ==
    /\ \A q, r \in Runtime : Houses(q) /\ Houses(r) => q = r
    /\ \A q \in Runtime : Houses(q) => power[q] # "missing" /\ Wanted \in {"auto", q}
    /\ receipt # NoReceipt => OwnedIn(receipt)

(* The operation of the supervisor's command, as far as it goes.           *)
OpHome ==
    LET x == op[Supervised] IN
    /\ \A o \in Operation \ {Supervised} : op[o].at = "idle"
    /\ x.at # "idle" => x.prefer = Wanted
    /\ x.at = "selecting" /\ x.kind = "start" => NothingOwned
    /\ x.at \in StartAt \cup {"cleaning", "removing"} =>
          /\ x.kind = "start" /\ OwnedIn(x.runtime)
          /\ power[x.runtime] # "missing" /\ Wanted \in {"auto", x.runtime}
    /\ x.at \in StopAt => x.kind = "stop" /\ OwnedIn(x.runtime)
    /\ x.at = "forgetting" => NothingBrought

Home == OneHome /\ OpHome

OpCommanded ==
    op[Supervised].at # "idle" =>
       /\ Commanded /\ begun
       /\ op[Supervised].kind = IF stage = "starting" THEN "start" ELSE "stop"

(* What is known of the managed service while its turn has not come, while *)
(* it is being started, being stopped, and when it has been stopped.       *)
Held ==
    /\ service[Managed] = "down" => NothingOwned
    /\ \/ stage = "services" /\ at <= Managed
       \/ stage = "starting" /\ at < Managed
       => service[Managed] = "down"
    /\ stage = "starting" /\ at = Managed =>
          service[Managed] = "touched" /\ (~begun => NothingOwned)
    /\ stage = "ending" /\ at = Managed =>
          /\ service[Managed] = "stopping"
          /\ child[Command].leader = "succeeded" => NothingBrought
    /\ service[Managed] = "stopped" => NothingBrought

SupervisedInv == Home /\ OpCommanded /\ Held

MachineInv == DevInv /\ LocalInv /\ (scene = "supervised" => SupervisedInv)

-----------------------------------------------------------------------------
(* The supervisor, step by step.                                           *)

LEMMA GroupValues ==
    /\ NotSpawned \in Group /\ Spawned \in Group /\ Reaped \in Group /\ GivenUp \in Group
    /\ NotSpawned.leader = "none" /\ Spawned.leader = "running"
    /\ Reaped.leader = "reaped" /\ GivenUp.leader = "stuck"
    /\ ~NotSpawned.group /\ ~Reaped.group /\ ~GivenUp.group
BY DEF Group, NotSpawned, Spawned, Reaped, GivenUp

LEMMA ChildIs ==
    /\ Command \in Child /\ Command \notin Process /\ Process \subseteq Child
    /\ \A c \in Child : c # Command => c \in Process
BY SupervisorAssumption DEF Child

LEMMA DevInitInv == DevInit => DevInv
<1> SUFFICES ASSUME DevInit PROVE DevInv
  OBVIOUS
<1> USE DEF DevInit
<1>1. DevShape
  BY SupervisorAssumption, GroupValues DEF DevShape
<1>2. EntryOK /\ ResultOK
  BY SupervisorAssumption DEF EntryOK, ResultOK, CutShort
<1>3. CommandOver /\ ProcessesInOrder
  BY GroupValues, ChildIs DEF CommandOver, ProcessesInOrder, Settled, TakenDown, Waiting, CutShort
<1>4. \A s \in Service : ServiceOK(s)
  BY DEF ServiceOK, TakenDown, CutShort
<1> QED
  BY <1>1, <1>2, <1>3, <1>4 DEF DevInv

(* The entry that each stage is at, and the parts of the invariant.        *)
LEMMA DevParts ==
    ASSUME DevInv
    PROVE  /\ Services \in Nat /\ Lifecycles \in Nat /\ Processes \in Nat
           /\ DevShape /\ EntryOK /\ ResultOK /\ CommandOver /\ ProcessesInOrder
           /\ \A s \in Service : ServiceOK(s)
           /\ at \in Nat
           /\ stage \in {"starting", "ending"} => at \in Service
<1>1. /\ DevShape /\ EntryOK /\ ResultOK /\ CommandOver /\ ProcessesInOrder
      /\ \A s \in Service : ServiceOK(s)
  BY DEF DevInv
<1>2. started \subseteq Service /\ Startable \subseteq Service
  BY <1>1, SupervisorAssumption DEF DevShape
<1>3. at \in Nat
  <2>1. \/ at \in Service \/ at \in Process \/ at \in 1..(Services + 1)
        \/ at \in 1..(Lifecycles + 1) \/ at \in 1..Lifecycles \/ at \in 1..(Processes + 1)
        \/ at \in 0..Services \/ at \in 0..(Services + Lifecycles + Processes + 1)
    BY <1>1, <1>2 DEF EntryOK, CutShort
  <2> QED
    BY <2>1, SupervisorAssumption DEF Service, Process
<1>4. stage \in {"starting", "ending"} => at \in Service
  BY <1>1, <1>2 DEF EntryOK, CutShort
<1> QED
  BY <1>1, <1>3, <1>4, SupervisorAssumption

(* A command that was waited for is over, and no process is touched.       *)
LEMMA CommandEnds ==
    ASSUME DevInv,
           child' = [child EXCEPT ![Command] = Reaped]
              \/ (child' = [child EXCEPT ![Command] = GivenUp] /\ result' = "error")
    PROVE  /\ child' \in [Child -> Group]
           /\ Settled(Command)'
           /\ \A p \in Process : child'[p] = child[p]
<1>1. child \in [Child -> Group]
  BY DEF DevInv, DevShape
<1>2. child' \in [Child -> Group] /\ \A p \in Process : child'[p] = child[p]
  BY <1>1, GroupValues, ChildIs
<1>3. Settled(Command)'
  BY <1>1, GroupValues, ChildIs DEF Settled
<1> QED
  BY <1>2, <1>3

LEMMA AwaitStartPreserves ==
    ASSUME DevInv, AwaitStart, UNCHANGED <<interrupt, closed>>
    PROVE  DevInv'
<1>0. /\ Services \in Nat /\ Lifecycles \in Nat /\ Processes \in Nat /\ at \in Nat
      /\ DevShape /\ EntryOK /\ ResultOK /\ CommandOver /\ ProcessesInOrder
      /\ \A s \in Service : ServiceOK(s)
  BY DevParts
<1>1. stage = "starting" /\ at \in Startable /\ at \in 1..Services
      /\ started' = started \cup {at} /\ service' = service /\ result = "ok"
  BY <1>0, SupervisorAssumption DEF AwaitStart, EntryOK, ResultOK, Early, Service, CutShort
<1>2. \/ child' = [child EXCEPT ![Command] = Reaped]
      \/ child' = [child EXCEPT ![Command] = GivenUp] /\ result' = "error"
  BY DEF AwaitStart, Finished, Terminated
<1>3. /\ child' \in [Child -> Group] /\ Settled(Command)'
      /\ \A p \in Process : child'[p] = child[p]
  BY <1>2, CommandEnds
<1>4. \/ stage' = "services" /\ at' = at + 1 /\ result' = "ok"
      \/ stage' = "reaping" /\ at' = 1 /\ result' \in {"ok", "error"}
      \/ stage' = "returned" /\ at' = at /\ result' = "abandoned" /\ closed
  BY <1>1 DEF AwaitStart, Fails, StopTopology, Goto, Terminated
<1>5. DevShape'
  BY <1>0, <1>1, <1>3, <1>4 DEF DevShape
<1>6. EntryOK'
  BY <1>0, <1>1, <1>4 DEF EntryOK, CutShort
<1>7. ResultOK' /\ CommandOver'
  BY <1>3, <1>4 DEF ResultOK, Early, CommandOver, Settled, CutShort
<1>8. ProcessesInOrder'
  BY <1>0, <1>3, <1>4 DEF ProcessesInOrder, TakenDown, Process, CutShort
<1>9. \A s \in Service : ServiceOK(s)'
  BY <1>0, <1>1, <1>4 DEF ServiceOK, TakenDown, CutShort
<1> QED
  BY <1>5, <1>6, <1>7, <1>8, <1>9 DEF DevInv

(* Steps of a run that comes up, which leave child and service alone.      *)
LEMMA QuietEarly ==
    ASSUME DevInv, UNCHANGED <<interrupt, closed, started, child, service>>,
           stage \in {"services", "lifecycle", "processes", "readying"}, EntryOK', ResultOK',
           stage' \in {"services", "lifecycle", "processes", "reaping"},
           stage' = "processes" => \A q \in Process : q < at' => child[q] # NotSpawned,
           stage' = "reaping" => at' = 1, result' \in {"ok", "error"}
    PROVE  DevInv'
<1>0. /\ DevShape /\ CommandOver /\ ProcessesInOrder
      /\ \A s \in Service : ServiceOK(s)
  BY DevParts
<1>1. result = "ok"
  BY DevParts DEF ResultOK, Early, CutShort
<1>2. DevShape'
  BY <1>0 DEF DevShape
<1>3. CommandOver'
  BY <1>0, <1>1 DEF CommandOver, Settled, Waiting, CutShort
<1>4. ProcessesInOrder'
  BY <1>0 DEF ProcessesInOrder, TakenDown, Process, Settled, CutShort
<1>5. \A s \in Service : ServiceOK(s)'
  BY <1>0, <1>1 DEF ServiceOK, TakenDown, CutShort
<1> QED
  BY <1>2, <1>3, <1>4, <1>5 DEF DevInv

(* The receiver is gone, or a process cannot be watched: the children are  *)
(* dropped.                                                                *)
LEMMA LeavesPreserves ==
    ASSUME DevInv, Abandon \/ Leaves("unwatched"), UNCHANGED <<interrupt, closed>>,
           stage \in {"services", "lifecycle", "processes"}
    PROVE  DevInv'
<1>0. /\ Services \in Nat /\ Lifecycles \in Nat /\ Processes \in Nat
      /\ DevShape /\ EntryOK /\ ProcessesInOrder
      /\ \A s \in Service : ServiceOK(s)
  BY DevParts
<1>1. /\ stage' = "returned" /\ at' = at /\ UNCHANGED <<started, service>>
      /\ result' = "unwatched" \/ (closed /\ result' = "abandoned")
  BY DEF Abandon, Leaves, Goto
<1>2. /\ child' \in [Child -> Group]
      /\ child'[Command].leader \in {"none", "reaped"}
      /\ \A p \in Process : child'[p] = NotSpawned <=> child[p] = NotSpawned
  BY <1>0, ChildIs, GroupValues DEF Abandon, Leaves, DevShape, Group
<1>3. DevShape'
  BY <1>0, <1>1, <1>2 DEF DevShape
<1>4. EntryOK'
  BY <1>0, <1>1 DEF EntryOK, CutShort
<1>5. ResultOK' /\ CommandOver'
  BY <1>1, <1>2 DEF ResultOK, Early, CommandOver, CutShort
<1>6. ProcessesInOrder'
  BY <1>0, <1>1, <1>2 DEF ProcessesInOrder, TakenDown, CutShort
<1>7. \A s \in Service : ServiceOK(s)'
  BY <1>0, <1>1 DEF ServiceOK, TakenDown, CutShort
<1> QED
  BY <1>3, <1>4, <1>5, <1>6, <1>7 DEF DevInv

LEMMA StartServicePreserves ==
    ASSUME DevInv, StartService, UNCHANGED <<interrupt, closed>>
    PROVE  DevInv'
<1>0. /\ Services \in Nat /\ Lifecycles \in Nat /\ Processes \in Nat
      /\ DevShape /\ EntryOK /\ ResultOK /\ ProcessesInOrder
      /\ \A s \in Service : ServiceOK(s)
  BY DevParts
<1>1. stage = "services" /\ at \in Service /\ at \in 1..Services /\ result = "ok"
  BY <1>0 DEF StartService, ResultOK, Early, Service, CutShort
<1>2. CASE at \notin Startable
  <2>1. /\ stage' = "services" /\ at' = at + 1 /\ result' = result
        /\ UNCHANGED <<started, child, service>>
    BY <1>1, <1>2 DEF StartService, Goto
  <2>2. EntryOK' /\ ResultOK'
    BY <1>0, <1>1, <2>1 DEF EntryOK, ResultOK, Early, CutShort
  <2> QED
    BY <1>1, <2>1, <2>2, QuietEarly
<1>3. CASE at \in Startable /\ Abandon
  BY <1>1, <1>3, LeavesPreserves
<1>4. CASE at \in Startable /\ ~Abandon /\ Fails /\ UNCHANGED <<started, child, service>>
  <2>1. stage' = "reaping" /\ at' = 1 /\ result' = "error"
    BY <1>4 DEF Fails, StopTopology, Goto
  <2>2. EntryOK' /\ ResultOK'
    BY <1>0, <1>1, <2>1 DEF EntryOK, ResultOK, Early, CutShort
  <2> QED
    BY <1>1, <1>4, <2>1, <2>2, QuietEarly
<1>5. CASE /\ at \in Startable /\ child' = [child EXCEPT ![Command] = Spawned]
           /\ service' = [service EXCEPT ![at] = "touched"]
           /\ Goto("starting", at) /\ UNCHANGED <<started, result>>
  <2>1. /\ child' \in [Child -> Group] /\ \A p \in Process : child'[p] = child[p]
        /\ service' \in [Service -> {"down", "touched", "stopping", "stopped", "unstopped"}]
        /\ service'[at] = "touched" /\ \A s \in Service : s # at => service'[s] = service[s]
    BY <1>0, <1>1, <1>5, GroupValues, ChildIs DEF DevShape
  <2>2. DevShape' /\ EntryOK' /\ ResultOK' /\ CommandOver'
    BY <1>0, <1>1, <1>5, <2>1 DEF DevShape, EntryOK, ResultOK, CommandOver, Waiting, Early, Goto, CutShort
  <2>3. ProcessesInOrder'
    BY <1>0, <1>5, <2>1 DEF ProcessesInOrder, TakenDown, Goto, CutShort
  <2>4. \A s \in Service : ServiceOK(s)'
    BY <1>0, <1>1, <1>5, <2>1 DEF ServiceOK, TakenDown, Goto, CutShort
  <2> QED
    BY <2>2, <2>3, <2>4 DEF DevInv
<1> QED
  BY <1>2, <1>3, <1>4, <1>5 DEF StartService

(* The two changes of stage, and the ends of waiting and watching.         *)
LEMMA RunNextPreserves ==
    ASSUME DevInv, RunLifecycle \/ RunProcesses \/ WaitForReadiness \/ Watch,
           UNCHANGED <<interrupt, closed>>
    PROVE  DevInv'
<1>0. /\ Services \in Nat /\ Lifecycles \in Nat /\ Processes \in Nat
      /\ DevShape /\ EntryOK /\ ResultOK /\ ProcessesInOrder
  BY DevParts
<1>u. CASE Leaves("unwatched") /\ stage = "processes"
  BY <1>u, LeavesPreserves
<1> SUFFICES ASSUME ~(Leaves("unwatched") /\ stage = "processes")
             PROVE  DevInv'
  BY <1>u
<1>1. /\ stage \in {"services", "lifecycle", "processes", "readying"} /\ result = "ok"
      /\ UNCHANGED <<started, child, service>>
  BY <1>0 DEF RunLifecycle, RunProcesses, WaitForReadiness, Watch, ResultOK, Early, CutShort
<1>2. \/ stage' = "lifecycle" /\ at' = 1 /\ result' = "ok"
      \/ stage' = "processes" /\ at' = 1 /\ result' = "ok"
      \/ /\ stage = "readying" /\ at \in Process
         /\ stage' = "processes" /\ at' = at + 1 /\ result' = "ok"
      \/ stage' = "reaping" /\ at' = 1 /\ result' \in {"ok", "error"}
  BY <1>0, <1>1
  DEF RunLifecycle, RunProcesses, WaitForReadiness, Watch, Goto, StopTopology, Fails, EntryOK, CutShort
<1>3. EntryOK' /\ ResultOK'
  BY <1>0, <1>2 DEF EntryOK, ResultOK, Early, Process, CutShort
<1>4. stage' = "processes" => \A q \in Process : q < at' => child[q] # NotSpawned
  BY <1>0, <1>2 DEF ProcessesInOrder, Process
<1> QED
  BY <1>1, <1>2, <1>3, <1>4, QuietEarly

LEMMA StartLifecyclePreserves ==
    ASSUME DevInv, StartLifecycle, UNCHANGED <<interrupt, closed>>
    PROVE  DevInv'
<1>0. /\ Services \in Nat /\ Lifecycles \in Nat /\ Processes \in Nat
      /\ DevShape /\ EntryOK /\ ResultOK /\ ProcessesInOrder
      /\ \A s \in Service : ServiceOK(s)
  BY DevParts
<1>1. stage = "lifecycle" /\ at \in 1..Lifecycles /\ result = "ok"
  BY <1>0 DEF StartLifecycle, ResultOK, Early, CutShort
<1>2. CASE Abandon
  BY <1>1, <1>2, LeavesPreserves
<1>3. CASE Fails /\ UNCHANGED <<started, child, service>>
  <2>1. stage' = "reaping" /\ at' = 1 /\ result' = "error"
    BY <1>3 DEF Fails, StopTopology, Goto
  <2>2. EntryOK' /\ ResultOK'
    BY <1>0, <1>1, <2>1 DEF EntryOK, ResultOK, Early, CutShort
  <2> QED
    BY <1>1, <1>3, <2>1, <2>2, QuietEarly
<1>4. CASE /\ child' = [child EXCEPT ![Command] = Spawned]
           /\ Goto("preparing", at) /\ UNCHANGED <<started, service, result>>
  <2>1. /\ child' \in [Child -> Group] /\ \A p \in Process : child'[p] = child[p]
    BY <1>0, <1>1, <1>4, GroupValues, ChildIs DEF DevShape
  <2>2. DevShape' /\ EntryOK' /\ ResultOK' /\ CommandOver'
    BY <1>0, <1>1, <1>4, <2>1 DEF DevShape, EntryOK, ResultOK, CommandOver, Waiting, Early, Goto, CutShort
  <2>3. ProcessesInOrder'
    BY <1>0, <1>4, <2>1 DEF ProcessesInOrder, TakenDown, Goto, CutShort
  <2>4. \A s \in Service : ServiceOK(s)'
    BY <1>0, <1>1, <1>4, <2>1 DEF ServiceOK, TakenDown, Goto, CutShort
  <2> QED
    BY <2>2, <2>3, <2>4 DEF DevInv
<1> QED
  BY <1>2, <1>3, <1>4 DEF StartLifecycle

LEMMA AwaitLifecyclePreserves ==
    ASSUME DevInv, AwaitLifecycle, UNCHANGED <<interrupt, closed>>
    PROVE  DevInv'
<1>0. /\ Services \in Nat /\ Lifecycles \in Nat /\ Processes \in Nat /\ at \in Nat
      /\ DevShape /\ EntryOK /\ ResultOK /\ CommandOver /\ ProcessesInOrder
      /\ \A s \in Service : ServiceOK(s)
  BY DevParts
<1>1. stage = "preparing" /\ at \in 1..Lifecycles
      /\ UNCHANGED <<started, service>> /\ result = "ok"
  BY <1>0 DEF AwaitLifecycle, EntryOK, ResultOK, Early, CutShort
<1>2. \/ child' = [child EXCEPT ![Command] = Reaped]
      \/ child' = [child EXCEPT ![Command] = GivenUp] /\ result' = "error"
  BY DEF AwaitLifecycle, Finished, Terminated
<1>3. /\ child' \in [Child -> Group] /\ Settled(Command)'
      /\ \A p \in Process : child'[p] = child[p]
  BY <1>2, CommandEnds
<1>4. \/ stage' = "lifecycle" /\ at' = at + 1 /\ result' = "ok"
      \/ stage' = "reaping" /\ at' = 1 /\ result' \in {"ok", "error"}
      \/ stage' = "returned" /\ at' = at /\ result' = "abandoned" /\ closed
  BY <1>1 DEF AwaitLifecycle, Fails, StopTopology, Goto, Terminated
<1>5. DevShape'
  BY <1>0, <1>1, <1>3, <1>4 DEF DevShape
<1>6. EntryOK'
  BY <1>0, <1>1, <1>4 DEF EntryOK, CutShort
<1>7. ResultOK' /\ CommandOver'
  BY <1>3, <1>4 DEF ResultOK, Early, CommandOver, Settled, CutShort
<1>8. ProcessesInOrder'
  BY <1>0, <1>3, <1>4 DEF ProcessesInOrder, TakenDown, Process, CutShort
<1>9. \A s \in Service : ServiceOK(s)'
  BY <1>0, <1>1, <1>4 DEF ServiceOK, TakenDown, CutShort
<1> QED
  BY <1>5, <1>6, <1>7, <1>8, <1>9 DEF DevInv

LEMMA SpawnProcessPreserves ==
    ASSUME DevInv, SpawnProcess, UNCHANGED <<interrupt, closed>>
    PROVE  DevInv'
<1>0. /\ Services \in Nat /\ Lifecycles \in Nat /\ Processes \in Nat
      /\ DevShape /\ EntryOK /\ ResultOK /\ CommandOver /\ ProcessesInOrder
      /\ \A s \in Service : ServiceOK(s)
  BY DevParts
<1>1. stage = "processes" /\ at \in Process /\ result = "ok"
  BY <1>0 DEF SpawnProcess, ResultOK, Early, CutShort
<1>2. CASE Abandon
  BY <1>1, <1>2, LeavesPreserves
<1>3. CASE Fails /\ UNCHANGED <<started, child, service>>
  <2>1. stage' = "reaping" /\ at' = 1 /\ result' = "error"
    BY <1>3 DEF Fails, StopTopology, Goto
  <2>2. EntryOK' /\ ResultOK'
    BY <1>0, <1>1, <2>1 DEF EntryOK, ResultOK, Early, CutShort
  <2> QED
    BY <1>1, <1>3, <2>1, <2>2, QuietEarly
<1>4. CASE /\ child' = [child EXCEPT ![at] = Spawned]
           /\ Goto("readying", at) /\ UNCHANGED <<started, service, result>>
  <2>1. /\ child' \in [Child -> Group] /\ child'[at] # NotSpawned
        /\ \A c \in Child : c # at => child'[c] = child[c]
    BY <1>0, <1>1, <1>4, GroupValues, ChildIs DEF DevShape
  <2>2. DevShape' /\ EntryOK' /\ ResultOK'
    BY <1>0, <1>1, <1>4, <2>1 DEF DevShape, EntryOK, ResultOK, Early, Goto, CutShort
  <2>3. CommandOver'
    BY <1>0, <1>1, <1>4, <2>1, ChildIs DEF CommandOver, Waiting, Settled, Goto, CutShort
  <2>4. ProcessesInOrder'
    BY <1>0, <1>1, <1>4, <2>1, ChildIs DEF ProcessesInOrder, TakenDown, Goto, Process, CutShort
  <2>5. \A s \in Service : ServiceOK(s)'
    BY <1>0, <1>1, <1>4 DEF ServiceOK, TakenDown, Goto, CutShort
  <2> QED
    BY <2>2, <2>3, <2>4, <2>5 DEF DevInv
<1> QED
  BY <1>2, <1>3, <1>4 DEF SpawnProcess

LEMMA ReapPreserves ==
    ASSUME DevInv, Reap, UNCHANGED <<interrupt, closed>>
    PROVE  DevInv'
<1>0. /\ Services \in Nat /\ Lifecycles \in Nat /\ Processes \in Nat
      /\ DevShape /\ EntryOK /\ ResultOK /\ CommandOver /\ ProcessesInOrder
      /\ \A s \in Service : ServiceOK(s)
  BY DevParts
<1>1. /\ stage = "reaping" /\ at \in Process /\ child[at] # NotSpawned
      /\ stage' = stage /\ at' = at + 1 /\ UNCHANGED <<started, service>>
      /\ \/ child' = [child EXCEPT ![at] = Reaped] /\ result' = result
         \/ child' = [child EXCEPT ![at] = GivenUp] /\ result' = "error"
  BY DEF Reap, Watched, Goto
<1>2. result \in {"ok", "error"} /\ result' \in {"ok", "error"}
      /\ (result = "error" => result' = "error")
  BY <1>0, <1>1 DEF DevShape, ResultOK, CutShort
<1>3. /\ child' \in [Child -> Group] /\ child'[at] # NotSpawned
      /\ ~child'[at].group /\ child'[at].leader \in {"none", "reaped", "stuck"}
      /\ child'[at].leader = "stuck" => result' = "error"
      /\ \A c \in Child : c # at => child'[c] = child[c]
  BY <1>0, <1>1, GroupValues, ChildIs DEF DevShape
<1>4. DevShape'
  BY <1>0, <1>1, <1>2, <1>3 DEF DevShape
<1>5. EntryOK' /\ ResultOK'
  BY <1>0, <1>1, <1>2 DEF EntryOK, ResultOK, Early, Process, CutShort
<1>6. CommandOver'
  BY <1>0, <1>1, <1>2, <1>3, ChildIs DEF CommandOver, Waiting, Settled, CutShort
<1>7. ProcessesInOrder'
  <2>1. \A p \in Process : p < at + 1 => p < at \/ p = at
    BY <1>0, <1>1 DEF Process
  <2>2. \A p \in Process : p < at + 1 =>
           /\ ~child'[p].group /\ child'[p].leader \in {"none", "reaped", "stuck"}
           /\ child'[p].leader = "stuck" => result' = "error"
    BY <1>0, <1>1, <1>2, <1>3, <2>1, ChildIs DEF ProcessesInOrder, Settled
  <2>3. \A p, q \in Process : q < p /\ child'[p] # NotSpawned => child'[q] # NotSpawned
    BY <1>0, <1>1, <1>3, ChildIs DEF ProcessesInOrder
  <2> QED
    BY <1>1, <2>2, <2>3 DEF ProcessesInOrder, TakenDown, Settled, CutShort
<1>8. \A s \in Service : ServiceOK(s)'
  BY <1>0, <1>1, <1>2 DEF ServiceOK, TakenDown, CutShort
<1> QED
  BY <1>4, <1>5, <1>6, <1>7, <1>8 DEF DevInv

(* All that were spawned have been reaped: they are a prefix of the plan.  *)
LEMMA StopServicesPreserves ==
    ASSUME DevInv, StopServices, UNCHANGED <<interrupt, closed>>
    PROVE  DevInv'
<1>0. /\ Services \in Nat /\ Lifecycles \in Nat /\ Processes \in Nat
      /\ DevShape /\ EntryOK /\ ResultOK /\ CommandOver /\ ProcessesInOrder
      /\ \A s \in Service : ServiceOK(s)
  BY DevParts
<1>1. /\ stage = "reaping" /\ at \in 1..(Processes + 1) /\ at \notin Watched
      /\ stage' = "stopping" /\ at' = Services /\ UNCHANGED <<started, child, service, result>>
  BY <1>0 DEF StopServices, Goto, EntryOK, CutShort
<1>2. \A p \in Process : Settled(p)
  <2> SUFFICES ASSUME NEW p \in Process PROVE Settled(p)
    OBVIOUS
  <2>1. CASE p < at
    BY <1>0, <1>1, <2>1 DEF ProcessesInOrder
  <2>2. CASE ~(p < at)
    <3>1. at \in Process /\ (at = p \/ at < p)
      BY <1>0, <1>1, <2>2 DEF Process
    <3>2. child[p] = NotSpawned
      BY <1>0, <1>1, <3>1 DEF ProcessesInOrder, Watched
    <3> QED
      BY <3>2, GroupValues DEF Settled
  <2> QED
    BY <2>1, <2>2
<1>3. DevShape' /\ EntryOK' /\ ResultOK' /\ CommandOver'
  BY <1>0, <1>1 DEF DevShape, EntryOK, ResultOK, Early, CommandOver, Settled, Waiting, CutShort
<1>4. ProcessesInOrder'
  BY <1>0, <1>1, <1>2 DEF ProcessesInOrder, Settled
<1>5. \A s \in Service : ServiceOK(s)'
  <2>1. \A s \in Service : ~(Services < s)
    BY <1>0 DEF Service
  <2> QED
    BY <1>0, <1>1, <2>1 DEF ServiceOK, TakenDown, CutShort
<1> QED
  BY <1>3, <1>4, <1>5 DEF DevInv

(* Steps while the services are stopped.                                   *)
LEMMA StopServicePreserves ==
    ASSUME DevInv, StopService \/ AwaitStop \/ Return, UNCHANGED <<interrupt, closed>>
    PROVE  DevInv'
<1>0. /\ Services \in Nat /\ Lifecycles \in Nat /\ Processes \in Nat
      /\ DevShape /\ EntryOK /\ ResultOK /\ CommandOver /\ ProcessesInOrder
      /\ \A s \in Service : ServiceOK(s)
  BY DevParts
<1>1. /\ stage \in {"stopping", "ending"} /\ TakenDown /\ started' = started
      /\ result \in {"ok", "error"}
      /\ \A p \in Process : Settled(p)
  BY <1>0 DEF StopService, AwaitStop, Return, TakenDown, ProcessesInOrder, DevShape, ResultOK, CutShort
<1>2. ASSUME result' \in {"ok", "error"}, result = "error" => result' = "error",
             \A p \in Process : child'[p] = child[p],
             stage' \in {"stopping", "ending", "returned"}
      PROVE  ProcessesInOrder' /\ TakenDown' /\ ResultOK'
  BY <1>0, <1>1, <1>2 DEF ProcessesInOrder, TakenDown, Settled, ResultOK, Early, CutShort
<1>3. CASE StopService
  <2>1. stage = "stopping" /\ at \in 1..Services /\ at \in Service
    BY <1>3 DEF StopService, Service
  <2>2. CASE /\ at \in started \cap Stoppable
             /\ child' = [child EXCEPT ![Command] = Spawned]
             /\ service' = [service EXCEPT ![at] = "stopping"]
             /\ Goto("ending", at) /\ UNCHANGED result
    <3>1. /\ child' \in [Child -> Group] /\ \A p \in Process : child'[p] = child[p]
          /\ service' \in [Service -> {"down", "touched", "stopping", "stopped", "unstopped"}]
          /\ service'[at] = "stopping" /\ \A s \in Service : s # at => service'[s] = service[s]
      BY <1>0, <2>1, <2>2, GroupValues, ChildIs DEF DevShape
    <3>2. ProcessesInOrder' /\ TakenDown' /\ ResultOK'
      BY <1>1, <1>2, <2>2, <3>1 DEF Goto
    <3>3. DevShape' /\ EntryOK' /\ CommandOver'
      BY <1>0, <1>1, <2>2, <3>1 DEF DevShape, EntryOK, CommandOver, Waiting, Goto, CutShort
    <3>4. \A s \in Service : ServiceOK(s)'
      <4> SUFFICES ASSUME NEW s \in Service PROVE ServiceOK(s)'
        OBVIOUS
      <4>1. ServiceOK(s)
        BY <1>0
      <4>2. CASE s = at
        BY <1>1, <2>1, <2>2, <3>1, <3>2, <4>2 DEF ServiceOK, Goto
      <4>3. CASE s # at
        BY <1>1, <2>1, <2>2, <3>1, <3>2, <4>1, <4>3 DEF ServiceOK, Goto
      <4> QED
        BY <4>2, <4>3
    <3> QED
      BY <3>2, <3>3, <3>4 DEF DevInv
  <2>3. CASE /\ at \in started \cap Stoppable
             /\ service' = [service EXCEPT ![at] = "unstopped"] /\ result' = "error"
             /\ Goto(stage, at - 1) /\ UNCHANGED child
    <3>1. /\ service' \in [Service -> {"down", "touched", "stopping", "stopped", "unstopped"}]
          /\ service'[at] = "unstopped" /\ \A s \in Service : s # at => service'[s] = service[s]
          /\ at' = at - 1 /\ stage' = "stopping" /\ at - 1 \in 0..Services
      BY <1>0, <2>1, <2>3 DEF DevShape, Goto
    <3>2. ProcessesInOrder' /\ TakenDown' /\ ResultOK'
      BY <1>1, <1>2, <2>3, <3>1
    <3>3. DevShape' /\ EntryOK' /\ CommandOver'
      BY <1>0, <1>1, <2>1, <2>3, <3>1 DEF DevShape, EntryOK, CommandOver, Waiting, Settled, CutShort
    <3>4. \A s \in Service : ServiceOK(s)'
      <4> SUFFICES ASSUME NEW s \in Service PROVE ServiceOK(s)'
        OBVIOUS
      <4>1. ServiceOK(s) /\ s \in Nat
        BY <1>0 DEF Service
      <4>2. CASE s = at
        BY <1>1, <2>1, <2>3, <3>1, <3>2, <4>2 DEF ServiceOK
      <4>3. CASE s # at
        BY <1>1, <2>1, <2>3, <3>1, <3>2, <4>1, <4>3 DEF ServiceOK
      <4> QED
        BY <4>2, <4>3
    <3> QED
      BY <3>2, <3>3, <3>4 DEF DevInv
  <2>4. CASE /\ at \notin started \cap Stoppable
             /\ Goto(stage, at - 1) /\ UNCHANGED <<child, service, result>>
    <3>1. at' = at - 1 /\ stage' = "stopping" /\ at - 1 \in 0..Services
      BY <1>0, <2>1, <2>4 DEF Goto
    <3>2. ProcessesInOrder' /\ TakenDown' /\ ResultOK'
      BY <1>1, <1>2, <2>4, <3>1
    <3>3. DevShape' /\ EntryOK' /\ CommandOver'
      BY <1>0, <1>1, <2>1, <2>4, <3>1 DEF DevShape, EntryOK, CommandOver, Waiting, Settled, CutShort
    <3>4. \A s \in Service : ServiceOK(s)'
      <4> SUFFICES ASSUME NEW s \in Service PROVE ServiceOK(s)'
        OBVIOUS
      <4>1. ServiceOK(s) /\ s \in Nat
            /\ service[s] \in {"down", "touched", "stopping", "stopped", "unstopped"}
        BY <1>0 DEF Service, DevShape
      <4>2. CASE s = at
        BY <1>1, <2>1, <2>4, <3>1, <3>2, <4>1, <4>2 DEF ServiceOK
      <4>3. CASE s # at
        BY <1>1, <2>1, <2>4, <3>1, <3>2, <4>1, <4>3 DEF ServiceOK
      <4> QED
        BY <4>2, <4>3
    <3> QED
      BY <3>2, <3>3, <3>4 DEF DevInv
  <2> QED
    BY <1>3, <2>2, <2>3, <2>4 DEF StopService
<1>4. CASE AwaitStop
  <2>1. /\ stage = "ending" /\ at \in started \cap Stoppable /\ at \in Service /\ at \in 1..Services
        /\ stage' = "stopping" /\ at' = at - 1
        /\ child' = [child EXCEPT ![Command] = Reaped]
        /\ \/ service' = [service EXCEPT ![at] = "stopped"] /\ result' = result
           \/ service' = [service EXCEPT ![at] = "unstopped"] /\ result' = "error"
    BY <1>0, <1>4, SupervisorAssumption DEF AwaitStop, Goto, Finished, EntryOK, Service, DevShape, CutShort
  <2>2. /\ child' \in [Child -> Group] /\ Settled(Command)'
        /\ \A p \in Process : child'[p] = child[p]
    BY <2>1, CommandEnds
  <2>3. /\ service' \in [Service -> {"down", "touched", "stopping", "stopped", "unstopped"}]
        /\ service'[at] \in {"stopped", "unstopped"}
        /\ service'[at] = "unstopped" => result' = "error"
        /\ \A s \in Service : s # at => service'[s] = service[s]
        /\ result' \in {"ok", "error"} /\ (result = "error" => result' = "error")
    BY <1>0, <1>1, <2>1 DEF DevShape
  <2>4. ProcessesInOrder' /\ TakenDown' /\ ResultOK'
    BY <1>2, <2>1, <2>2, <2>3
  <2>5. DevShape' /\ EntryOK' /\ CommandOver'
    BY <1>0, <1>1, <2>1, <2>2, <2>3 DEF DevShape, EntryOK, CommandOver, Settled, CutShort
  <2>6. \A s \in Service : ServiceOK(s)'
    <3> SUFFICES ASSUME NEW s \in Service PROVE ServiceOK(s)'
      OBVIOUS
    <3>1. ServiceOK(s) /\ s \in Nat
      BY <1>0 DEF Service
    <3>2. CASE s = at
      BY <2>1, <2>3, <2>4, <3>2 DEF ServiceOK
    <3>3. CASE s # at
      BY <1>1, <2>1, <2>3, <2>4, <3>1, <3>3 DEF ServiceOK
    <3> QED
      BY <3>2, <3>3
  <2> QED
    BY <2>4, <2>5, <2>6 DEF DevInv
<1>5. CASE Return
  <2>1. /\ stage = "stopping" /\ at = 0 /\ stage' = "returned" /\ at' = 0
        /\ UNCHANGED <<child, service, result>>
    BY <1>5 DEF Return, Goto
  <2>2. ProcessesInOrder' /\ TakenDown' /\ ResultOK'
    BY <1>1, <1>2, <2>1
  <2>3. DevShape' /\ EntryOK' /\ CommandOver'
    BY <1>0, <1>1, <2>1 DEF DevShape, EntryOK, CommandOver, Settled, Waiting, CutShort
  <2>4. \A s \in Service : ServiceOK(s)'
    BY <1>0, <1>1, <2>1, <2>2 DEF ServiceOK
  <2> QED
    BY <2>2, <2>3, <2>4 DEF DevInv
<1> QED
  BY <1>3, <1>4, <1>5

LEMMA ExitPreserves ==
    ASSUME DevInv, NEW c \in Child, Exit(c)
    PROVE  DevInv'
<1>0. /\ DevShape /\ EntryOK /\ ResultOK /\ CommandOver /\ ProcessesInOrder
      /\ \A s \in Service : ServiceOK(s)
  BY DevParts
<1>1. PICK outcome \in {"succeeded", "failed"} : child' = [child EXCEPT ![c].leader = outcome]
  BY DEF Exit
<1>2. child[c].leader = "running" /\ UNCHANGED <<stage, at, started, service, interrupt, closed, result>>
  BY DEF Exit
<1>3. /\ child' \in [Child -> Group] /\ child'[c].leader = outcome
      /\ \A d \in Child : d # c => child'[d] = child[d]
  BY <1>0, <1>1 DEF DevShape, Group
<1>4. child[c] # NotSpawned /\ child'[c] # NotSpawned
  BY <1>2, <1>3, GroupValues
<1>5. DevShape' /\ EntryOK' /\ ResultOK'
  BY <1>0, <1>2, <1>3 DEF DevShape, EntryOK, ResultOK, CutShort
<1>6. CommandOver'
  BY <1>0, <1>2, <1>3, ChildIs DEF CommandOver, Settled, CutShort
<1>7. ProcessesInOrder'
  <2>1. \A p \in Process : Settled(p) => Settled(p)'
    BY <1>2, <1>3, ChildIs DEF Settled
  <2>2. \A p \in Process : child'[p] = NotSpawned <=> child[p] = NotSpawned
    BY <1>3, <1>4, ChildIs
  <2>3. TakenDown' => TakenDown
    BY <1>2 DEF TakenDown, CutShort
  <2>4. stage = "readying" => at \in Process
    BY <1>0 DEF EntryOK, CutShort
  <2> QED
    BY <1>0, <1>2, <2>1, <2>2, <2>3, <2>4 DEF ProcessesInOrder
<1>8. \A s \in Service : ServiceOK(s)'
  BY <1>0, <1>2 DEF ServiceOK, TakenDown, CutShort
<1> QED
  BY <1>5, <1>6, <1>7, <1>8 DEF DevInv

LEMMA DevStep ==
    ASSUME DevInv, [DevNext]_devVars
    PROVE  DevInv'
<1>1. CASE SupervisorStep
  BY <1>1, StartServicePreserves, AwaitStartPreserves, RunNextPreserves, StartLifecyclePreserves,
     AwaitLifecyclePreserves, SpawnProcessPreserves, ReapPreserves, StopServicesPreserves,
     StopServicePreserves DEF SupervisorStep
<1>2. CASE Interrupt \/ RendererEnds \/ UNCHANGED devVars
  <2>1. /\ UNCHANGED <<stage, at, started, child, service, result>>
        /\ DevInv
        /\ closed => closed'
    BY <1>2 DEF Interrupt, RendererEnds, devVars
  <2>2. interrupt' \in BOOLEAN /\ closed' \in BOOLEAN
    BY <1>2, <2>1 DEF Interrupt, RendererEnds, devVars, DevInv, DevShape
  <2>3. DevShape' /\ EntryOK' /\ ResultOK'
    BY <2>1, <2>2 DEF DevInv, DevShape, EntryOK, ResultOK, CutShort
  <2>4. CommandOver' /\ ProcessesInOrder'
    BY <2>1 DEF DevInv, CommandOver, ProcessesInOrder, TakenDown, Settled, CutShort
  <2>5. \A s \in Service : ServiceOK(s)'
    BY <2>1 DEF DevInv, ServiceOK, TakenDown, CutShort
  <2> QED
    BY <2>3, <2>4, <2>5 DEF DevInv
<1>3. ASSUME NEW c \in Child, Exit(c) PROVE DevInv'
  BY <1>3, ExitPreserves
<1> QED
  BY <1>1, <1>2, <1>3 DEF DevNext

(* What the invariant says.                                                *)
LEMMA SupervisorIsSound ==
    ASSUME DevInv
    PROVE  SupervisorTypeOK /\ NothingLeftBehind /\ StopsInOrder
<1>0. /\ Services \in Nat /\ Lifecycles \in Nat /\ Processes \in Nat
      /\ DevShape /\ EntryOK /\ ResultOK /\ CommandOver /\ ProcessesInOrder
      /\ \A s \in Service : ServiceOK(s)
  BY DevParts
<1>1. SupervisorTypeOK
  <2>1. at \in 0..(Services + Lifecycles + Processes + 1)
    <3>1. stage \in {"starting", "ending"} => at \in 1..Services
      BY DevParts DEF Service
    <3> QED
      BY <1>0, <3>1 DEF EntryOK, Process, CutShort
  <2> QED
    BY <1>0, <2>1, ChildIs DEF SupervisorTypeOK, DevShape, CommandOver, Waiting, CutShort
<1>2. NothingLeftBehind
  <2> SUFFICES ASSUME stage = "returned", ~(closed /\ result = "abandoned"), result # "unwatched"
               PROVE  /\ \A c \in Child :
                            /\ ~child[c].group
                            /\ child[c].leader \in {"none", "reaped"} \/ result = "error"
                      /\ \A s \in Stoppable :
                            /\ service[s] # "touched"
                            /\ service[s] = "unstopped" => result = "error"
    BY DEF NothingLeftBehind
  <2>1. ~CutShort /\ TakenDown /\ at = 0
    BY <1>0 DEF ResultOK, TakenDown, EntryOK, CutShort
  <2>2. \A c \in Child : Settled(c)
    BY <1>0, <2>1, ChildIs DEF CommandOver, Waiting, ProcessesInOrder, CutShort
  <2>3. \A s \in Stoppable : s \in Service /\ 0 < s
    BY SupervisorAssumption DEF Service
  <2> QED
    BY <1>0, <2>1, <2>2, <2>3 DEF Settled, ServiceOK
<1>3. StopsInOrder
  <2> SUFFICES ASSUME NEW s \in Service, service[s] \in {"stopping", "stopped", "unstopped"}
               PROVE  /\ \A p \in Process : Settled(p)
                      /\ \A t \in Stoppable : t > s => service[t] \in {"down", "stopped", "unstopped"}
    BY DEF StopsInOrder, Settled
  <2>1. TakenDown /\ (at < s \/ at = s)
    BY <1>0 DEF ServiceOK
  <2>2. at \in Nat /\ s \in Nat /\ \A t \in Stoppable : t \in Service /\ t \in Nat
    BY <1>0, DevParts, SupervisorAssumption DEF Service
  <2> QED
    BY <1>0, <2>1, <2>2 DEF ServiceOK, ProcessesInOrder
<1> QED
  BY <1>1, <1>2, <1>3

-----------------------------------------------------------------------------
(* The local services, step by step.                                       *)

LEMMA LocalInitInv == LocalInit => LocalInv
<1> SUFFICES ASSUME LocalInit PROVE LocalInv
  OBVIOUS
<1>1. LocalShape
  BY DEF LocalInit, LocalShape, LateRecord, OpRecord, Unbegun, Preference
<1>2. RunsOK /\ \A o \in Operation : OpOK(o) /\ OpRuns(o)
  BY LocalServicesAssumption DEF LocalInit, RunsOK, OpOK, OpRuns, Unbegun, Runs, OnlyRunsIn,
     OnlyBroughtIn, Brought, StartAt, StopAt
<1> QED
  BY <1>1, <1>2 DEF LocalInv

(* What any step does to the runtimes and their containers.                *)
Moves ==
    /\ power' \in [Runtime -> {"missing", "up", "stalled", "down"}]
    /\ \A r \in Runtime : power[r] # "missing" => power'[r] # "missing"
    /\ resource' \in [Runtime -> {"absent", "foreign", "stopped", "running"}]
    /\ \A r \in Runtime : resource'[r] = "foreign" <=> resource[r] = "foreign"
    /\ occupied' \in BOOLEAN /\ late' \in LateRecord

(* Nothing comes up.                                                       *)
Shrinks == \A r \in Runtime : resource'[r] = "running" => resource[r] = "running"

LEMMA CommandsLeftBehind ==
    ASSUME late \in LateRecord, NEW command \in {"bring", "halt", "remove"}, NEW r \in Runtime,
           LeftBehind(command, r) \/ UNCHANGED late
    PROVE  late' \in LateRecord
<1>1. [command |-> command, runtime |-> r] \in LateRecord
  BY DEF LateRecord
<1> QED
  BY <1>1 DEF LeftBehind

(* Nothing comes up but by a command that was left behind.                 *)
BroughtShrinks ==
    /\ \A r \in Runtime : Brought(r)' => Brought(r)
    /\ \A r \in Runtime : OnlyBroughtIn(r) => OnlyBroughtIn(r)'
    /\ NothingBrought => NothingBrought'

LEMMA NothingIsBrought ==
    ASSUME \A r \in Runtime : Brought(r)' => Brought(r)
    PROVE  BroughtShrinks
BY DEF BroughtShrinks, OnlyBroughtIn, NothingBrought

LEMMA RaisedIs ==
    ASSUME Remember
    PROVE  /\ raised' \subseteq {r \in Runtime : Runs(r)'}
           /\ \A r \in Runtime : r \in raised /\ Runs(r)' => r \in raised'
BY DEF Remember, Runs

LEMMA RunsShrink ==
    ASSUME LocalInv, Moves, Shrinks, Remember, receipt' \in {receipt, NoReceipt}
    PROVE  RunsOK' /\ BroughtShrinks
<1>1. BroughtShrinks
  BY RaisedIs, NothingIsBrought DEF Shrinks, Brought, Runs
<1> QED
  BY <1>1 DEF LocalInv, RunsOK, Moves, Shrinks, OnlyRunsIn, OnlyBroughtIn, Runs, BroughtShrinks

(* Only one operation is at work.                                          *)
LEMMA OthersIdle ==
    ASSUME LocalInv, NEW o \in Operation, lock \in {o, Nobody}
    PROVE  \A p \in Operation : p # o => op[p].at = "idle"
BY LocalServicesAssumption DEF LocalInv, OpOK

LEMMA IdleIsOK ==
    ASSUME NEW p \in Operation, op'[p].at = "idle", lock' # p
    PROVE  OpOK(p)' /\ OpRuns(p)'
BY DEF OpOK, OpRuns, StartAt, StopAt

LEMMA ReportedKept ==
    ASSUME LocalInv, Moves, Remember, \A o \in Operation : ~SaysNow(o, "ready")
    PROVE  /\ reported' \subseteq reported
           /\ reported' \subseteq {r \in Runtime : resource'[r] \in Owned}
<1>1. reported' \subseteq reported /\ \A r \in reported' : r \in Runtime /\ resource'[r] # "absent"
  BY DEF Remember
<1>2. \A r \in reported : resource[r] # "foreign"
  BY DEF LocalInv, LocalShape, Owned
<1> QED
  BY <1>1, <1>2 DEF Moves, Owned

(* An operation returns.                                                   *)
LEMMA Returns ==
    ASSUME LocalInv, NEW o \in Operation, op[o].at # "idle", NEW what, Say(o, what),
           Moves, Remember, RunsOK', receipt' \in Runtime \cup {NoReceipt},
           what = "ready" => resource[op[o].runtime] # "foreign"
    PROVE  LocalInv'
<1>1. LocalShape /\ lock = o
  BY DEF LocalInv, OpOK
<1>2. op' = [op EXCEPT ![o] = Unbegun] /\ lock' = Nobody /\ verdict' = what
  BY <1>1 DEF Say
<1>3. Unbegun \in OpRecord /\ Unbegun.at = "idle"
  BY DEF Unbegun, OpRecord, Preference
<1>4. op' \in [Operation -> OpRecord] /\ \A p \in Operation : op'[p].at = "idle"
  BY <1>1, <1>2, <1>3, OthersIdle DEF LocalShape
<1>5. \A p \in Operation : OpOK(p)' /\ OpRuns(p)'
  BY <1>2, <1>4, IdleIsOK, LocalServicesAssumption
<1>6. reported' \subseteq {r \in Runtime : resource'[r] \in Owned}
  <2>1. SUFFICES ASSUME NEW r \in reported'
                 PROVE  r \in Runtime /\ resource'[r] \in Owned
    OBVIOUS
  <2>2. r \in Runtime /\ resource'[r] # "absent"
    BY DEF Remember
  <2>3. r \in reported => resource[r] # "foreign"
    BY <1>1 DEF LocalShape, Owned
  <2>4. \A p \in Operation : op[p].at # "idle" => p = o
    BY <1>1, OthersIdle
  <2>5. r \notin reported => what = "ready" /\ r = op[o].runtime
    BY <1>2, <2>4 DEF Remember, SaysNow
  <2>6. resource[r] # "foreign"
    BY <2>3, <2>5
  <2> QED
    BY <2>2, <2>6 DEF Moves, Owned
<1>7. LocalShape'
  BY <1>2, <1>4, <1>6, RaisedIs DEF LocalShape, Moves
<1> QED
  BY <1>5, <1>7 DEF LocalInv

(* An operation goes on, at a place where it is sound to be.               *)
LEMMA GoesOn ==
    ASSUME LocalInv, NEW o \in Operation, NEW state \in OpRecord,
           op' = [op EXCEPT ![o] = state], state.at # "idle",
           lock \in {o, Nobody}, lock' = o, UNCHANGED receipt, Moves, Remember, RunsOK',
           state.at # "selecting" => state.runtime \in Runtime,
           state.at \in {"selecting", "inspecting"} => ~state.created,
           state.at \in StartAt /\ receipt # NoReceipt => state.runtime = receipt,
           state.at \in StartAt \ {"inspecting"} => resource[state.runtime] # "foreign",
           state.at \in {"cleaning", "removing"} => state.created,
           state.created => state.runtime \notin reported,
           state.at \in StartAt \ {"inspecting"} => OnlyBroughtIn(state.runtime)',
           (receipt # NoReceipt \/ state.prefer = "auto") /\ state.at \in {"stopping", "checking"}
              => OnlyBroughtIn(state.runtime)',
           (receipt # NoReceipt \/ state.prefer = "auto") /\ state.at = "forgetting"
              => NothingBrought'
    PROVE  LocalInv'
<1>1. LocalShape /\ op \in [Operation -> OpRecord]
  BY DEF LocalInv, LocalShape
<1>2. op' \in [Operation -> OpRecord] /\ op'[o] = state
  BY <1>1
<1>3. \A p \in Operation : p # o => op'[p].at = "idle"
  BY <1>1, OthersIdle
<1>4. \A p \in Operation : ~SaysNow(p, "ready")
  BY <1>1, <1>2, OthersIdle DEF SaysNow
<1>5. reported' \subseteq reported /\ reported' \subseteq {r \in Runtime : resource'[r] \in Owned}
  BY <1>4, ReportedKept
<1>6. LocalShape'
  BY <1>1, <1>2, <1>5, RaisedIs DEF LocalShape, Moves
<1>7. OpOK(o)'
  <2>1. state.at \in StartAt \ {"inspecting"} => resource'[state.runtime] # "foreign"
    BY DEF Moves, StartAt
  <2> QED
    BY <1>2, <1>5, <2>1 DEF OpOK
<1>8. OpRuns(o)'
  <2>1. receipt' = receipt
    OBVIOUS
  <2> QED
    BY <1>2, <2>1 DEF OpRuns
<1> QED
  BY <1>3, <1>6, <1>7, <1>8, IdleIsOK DEF LocalInv

LEMMA EnvironmentPreserves ==
    ASSUME LocalInv, LocalEnvironment, Remember
    PROVE  LocalInv'
<1>0. LocalShape /\ UNCHANGED <<lock, op>> /\ \A o \in Operation : OpOK(o) /\ OpRuns(o)
  BY DEF LocalInv, LocalEnvironment, RuntimeChanges, ContainerDies, PortChanges, TargetCleaned, Lands
<1>1. \A o \in Operation : ~SaysNow(o, "ready")
  BY <1>0 DEF SaysNow
<1>2. /\ receipt' = receipt \/ (receipt' = NoReceipt /\ lock = Nobody)
  BY DEF LocalEnvironment, RuntimeChanges, ContainerDies, PortChanges, TargetCleaned, Lands
<1> SUFFICES ASSUME Moves /\ RunsOK' /\ BroughtShrinks
             PROVE  LocalInv'
  <2>0. Landed \in LateRecord
    BY DEF LateRecord
  <2>1. CASE \E r \in Runtime : RuntimeChanges(r)
    <3>1. PICK r \in Runtime : RuntimeChanges(r)
      BY <2>1
    <3>2. PICK level \in {"up", "stalled", "down"} : power' = [power EXCEPT ![r] = level]
      BY <3>1 DEF RuntimeChanges
    <3>3. /\ power' \in [Runtime -> {"missing", "up", "stalled", "down"}]
          /\ \A q \in Runtime : power[q] # "missing" => power'[q] # "missing"
      BY <1>0, <3>2 DEF LocalShape
    <3>4. \/ resource' = resource
          \/ Runs(r) /\ \E end \in {"absent", "stopped"} : resource' = [resource EXCEPT ![r] = end]
      BY <3>1 DEF RuntimeChanges, Give, Halted
    <3>5. /\ resource' \in [Runtime -> {"absent", "foreign", "stopped", "running"}] /\ Shrinks
          /\ \A q \in Runtime : resource'[q] = "foreign" <=> resource[q] = "foreign"
      BY <1>0, <3>4 DEF LocalShape, Shrinks, Runs
    <3>6. UNCHANGED <<occupied, late, receipt>>
      BY <3>1 DEF RuntimeChanges
    <3>7. Moves
      BY <1>0, <3>3, <3>5, <3>6 DEF Moves, LocalShape
    <3> QED
      BY <3>5, <3>6, <3>7, RunsShrink
  <2>2. CASE \E r \in Runtime : ContainerDies(r)
    <3>1. PICK r \in Runtime : ContainerDies(r)
      BY <2>2
    <3>2. Runs(r) /\ \E end \in {"absent", "stopped"} : resource' = [resource EXCEPT ![r] = end]
      BY <3>1 DEF ContainerDies, Give, Halted
    <3>3. /\ resource' \in [Runtime -> {"absent", "foreign", "stopped", "running"}] /\ Shrinks
          /\ \A q \in Runtime : resource'[q] = "foreign" <=> resource[q] = "foreign"
      BY <1>0, <3>2 DEF LocalShape, Shrinks, Runs
    <3>4. UNCHANGED <<power, occupied, late, receipt>>
      BY <3>1 DEF ContainerDies
    <3>5. Moves
      BY <1>0, <3>3, <3>4 DEF Moves, LocalShape
    <3> QED
      BY <3>3, <3>4, <3>5, RunsShrink
  <2>3. CASE PortChanges \/ TargetCleaned
    <3>1. /\ UNCHANGED <<power, resource, late>> /\ occupied' \in BOOLEAN
          /\ receipt' \in {receipt, NoReceipt}
      BY <1>0, <2>3 DEF PortChanges, TargetCleaned, LocalShape
    <3>2. Moves /\ Shrinks
      BY <1>0, <3>1 DEF Moves, Shrinks, LocalShape
    <3> QED
      BY <3>1, <3>2, RunsShrink
  <2>4. CASE Lands
    <3>1. UNCHANGED <<power, occupied, receipt>> /\ late' = Landed
      BY <2>4 DEF Lands
    <3>2. PICK r \in Runtime : r = late.runtime
      BY <2>4 DEF Lands
    <3>3. \/ resource' = resource
          \/ /\ r \in Up /\ resource[r] \in {"absent", "stopped"} /\ ~PortBusy
             /\ resource' = [resource EXCEPT ![r] = "running"]
          \/ /\ resource[r] \in Owned \cup {"absent"}
             /\ \E end \in {"absent", "stopped"} : resource' = [resource EXCEPT ![r] = end]
      <4>1. \/ UNCHANGED resource
            \/ /\ r \in Up /\ resource[r] \in {"absent", "stopped"}
               /\ Give(r, IF PortBusy THEN "stopped" ELSE "running")
            \/ Runs(r) /\ \E end \in Halted(r) : Give(r, end)
            \/ resource[r] = "stopped" /\ Give(r, "absent")
        BY <2>4, <3>2 DEF Lands
      <4>2. CASE /\ r \in Up /\ resource[r] \in {"absent", "stopped"}
                 /\ Give(r, IF PortBusy THEN "stopped" ELSE "running")
        BY <4>2, <1>0 DEF Give, LocalShape, Owned
      <4>3. CASE \/ Runs(r) /\ \E end \in Halted(r) : Give(r, end)
                 \/ resource[r] = "stopped" /\ Give(r, "absent")
        BY <4>3 DEF Give, Halted, Runs, Owned
      <4> QED
        BY <4>1, <4>2, <4>3
    <3>4. /\ resource' \in [Runtime -> {"absent", "foreign", "stopped", "running"}]
          /\ \A q \in Runtime : resource'[q] = "foreign" <=> resource[q] = "foreign"
      BY <1>0, <3>3 DEF LocalShape, Owned
    <3>5. Moves
      BY <1>0, <2>0, <3>1, <3>4 DEF Moves, LocalShape
    <3>6. \A q \in Runtime : Runs(q) => OnlyRunsIn(q) /\ power[q] # "missing"
      BY DEF LocalInv, RunsOK
    <3>7. \A q \in Runtime : Runs(q)' => OnlyRunsIn(q)' /\ power[q] # "missing"
      <4>1. CASE Shrinks
        BY <3>6, <4>1 DEF Shrinks, OnlyRunsIn, Runs
      <4>2. CASE /\ r \in Up /\ ~PortBusy /\ resource' = [resource EXCEPT ![r] = "running"]
        <5>1. \A q \in Runtime : ~Runs(q)
          BY <4>2 DEF PortBusy
        <5>2. \A q \in Runtime : Runs(q)' => q = r
          BY <1>0, <4>2, <5>1 DEF Runs, LocalShape
        <5> QED
          BY <4>2, <5>2 DEF OnlyRunsIn, Up
      <4> QED
        BY <1>0, <3>3, <4>1, <4>2 DEF Shrinks, LocalShape, Runs
    <3>8. \A q \in Runtime : Brought(q)' => Brought(q)
      <4> SUFFICES ASSUME NEW q \in Runtime, Brought(q)' PROVE Brought(q)
        OBVIOUS
      <4>1. q \notin raised /\ (q # r \/ Runs(q))
        BY <3>1, <3>2, RaisedIs DEF Brought, Remember, Runs
      <4>2. q # r => resource'[q] = resource[q]
        BY <1>0, <3>3 DEF LocalShape
      <4> QED
        BY <4>1, <4>2 DEF Brought, Runs
    <3>9. BroughtShrinks
      BY <3>8, NothingIsBrought
    <3> QED
      BY <3>1, <3>5, <3>7, <3>9 DEF RunsOK, LocalInv, BroughtShrinks, OnlyBroughtIn
  <2> QED
    BY <2>1, <2>2, <2>3, <2>4 DEF LocalEnvironment
<1>3. reported' \subseteq reported /\ reported' \subseteq {r \in Runtime : resource'[r] \in Owned}
  BY <1>1, ReportedKept
<1>4. LocalShape'
  BY <1>0, <1>2, <1>3, RaisedIs DEF LocalShape, Moves
<1>5. \A o \in Operation : OpOK(o)'
  BY <1>0, <1>2, <1>3, LocalServicesAssumption DEF OpOK, Moves, StartAt
<1>6. \A o \in Operation : OpRuns(o)'
  <2> SUFFICES ASSUME NEW o \in Operation, op[o].at # "idle"
               PROVE  OpRuns(o)'
    BY <1>0, IdleIsOK DEF OpRuns, StartAt, StopAt
  <2>1. receipt' = receipt
    BY <1>0, <1>2, LocalServicesAssumption DEF OpOK
  <2>2. op[o].at # "selecting" => op[o].runtime \in Runtime
    BY <1>0 DEF OpOK
  <2> QED
    BY <1>0, <2>1, <2>2 DEF OpRuns, StartAt, BroughtShrinks
<1> QED
  BY <1>4, <1>5, <1>6 DEF LocalInv

LEMMA StandsStill ==
    ASSUME LocalInv, UNCHANGED <<power, resource, occupied, late>>, Remember,
           receipt' \in {receipt, NoReceipt}
    PROVE  /\ Moves /\ Shrinks /\ RunsOK' /\ BroughtShrinks
           /\ \A r \in Runtime : OnlyBroughtIn(r) => OnlyBroughtIn(r)'
<1>1. Moves /\ Shrinks
  BY DEF LocalInv, LocalShape, Moves, Shrinks
<1> QED
  BY <1>1, RunsShrink DEF BroughtShrinks

(* What is known of an operation at work.                                  *)
LEMMA AtWork ==
    ASSUME LocalInv, NEW o \in Operation, op[o].at # "idle"
    PROVE  /\ LocalShape /\ RunsOK /\ OpOK(o) /\ OpRuns(o)
           /\ op[o] \in OpRecord /\ lock = o
           /\ op[o].at # "selecting" => op[o].runtime \in Runtime
           /\ op[o].created => op[o].runtime \notin reported
BY DEF LocalInv, OpOK, LocalShape

LEMMA Continues ==
    ASSUME LocalInv, NEW o \in Operation, op[o].at \notin {"idle", "selecting"},
           NEW there \in {"cleaning", "removing"} \cup (StartAt \ {"inspecting"}) \cup StopAt,
           NEW r \in Runtime, r = op[o].runtime,
           Continue(o, there), UNCHANGED receipt, Moves, Remember, RunsOK',
           there \in StartAt =>
              /\ receipt # NoReceipt => r = receipt
              /\ resource[r] # "foreign",
           there \in {"cleaning", "removing"} => op[o].created,
           there \in StartAt => OnlyBroughtIn(r)',
           (receipt # NoReceipt \/ op[o].prefer = "auto") /\ there \in {"stopping", "checking"}
              => OnlyBroughtIn(r)',
           (receipt # NoReceipt \/ op[o].prefer = "auto") /\ there = "forgetting" => NothingBrought'
    PROVE  LocalInv'
<1>1. op[o] \in OpRecord /\ lock = o /\ (op[o].created => r \notin reported)
  BY AtWork
<1> DEFINE state == [op[o] EXCEPT !.at = there]
<1>2. there \in {"idle", "selecting", "cleaning", "removing"} \cup StartAt \cup StopAt
  OBVIOUS
<1>3. /\ state \in OpRecord /\ state.at = there /\ state.prefer = op[o].prefer
      /\ state.runtime = r /\ state.created = op[o].created
  BY <1>1, <1>2 DEF OpRecord
<1>4. op' = [op EXCEPT ![o] = state] /\ lock' = o
  BY <1>1 DEF Continue, Onward
<1>5. state.at \notin {"idle", "selecting", "inspecting"}
  BY <1>3 DEF StartAt, StopAt
<1> HIDE DEF state
<1> QED
  BY <1>1, <1>3, <1>4, <1>5, GoesOn

LEMMA StartFails ==
    ASSUME LocalInv, NEW o \in Operation, op[o].at \notin {"idle", "selecting"},
           FailStart(o), UNCHANGED receipt, Moves, Remember, RunsOK'
    PROVE  LocalInv'
<1>1. CASE op[o].created /\ Continue(o, "cleaning")
  BY <1>1, Continues, AtWork DEF StartAt, StopAt
<1>2. CASE Say(o, "failed")
  <2>1. receipt' \in Runtime \cup {NoReceipt}
    BY DEF LocalInv, LocalShape
  <2> QED
    BY <1>2, <2>1, Returns
<1> QED
  BY <1>1, <1>2 DEF FailStart

LEMMA AcquirePreserves ==
    ASSUME LocalInv, NEW o \in Operation, Begin(o), Remember
    PROVE  LocalInv'
<1>1. PICK kind \in {"start", "stop"}, prefer \in Preference : Acquire(o, kind, prefer)
  BY DEF Begin
<1> DEFINE state == [Unbegun EXCEPT !.at = "selecting", !.kind = kind, !.prefer = prefer]
<1>2. state \in OpRecord /\ state.at = "selecting" /\ ~state.created
  BY DEF OpRecord, Unbegun
<1>3. op' = [op EXCEPT ![o] = state] /\ lock' = o /\ lock = Nobody
  BY <1>1 DEF Acquire, Onward
<1>4. Moves /\ RunsOK' /\ UNCHANGED receipt
  BY <1>1, StandsStill DEF Acquire
<1> HIDE DEF state
<1> QED
  BY <1>2, <1>3, <1>4, GoesOn DEF StartAt, StopAt

(* Choosing a runtime.                                                     *)
LEMMA Chooses ==
    ASSUME LocalInv, NEW o \in Operation, op[o].at = "selecting", NEW r \in Runtime,
           NEW there \in {"inspecting", "stopping"}, Chosen(o, r, there),
           UNCHANGED <<power, resource, occupied, late, receipt>>, Remember,
           there = "inspecting" /\ receipt # NoReceipt => r = receipt,
           (receipt # NoReceipt \/ op[o].prefer = "auto") /\ there = "stopping" => OnlyBroughtIn(r)
    PROVE  LocalInv'
<1>1. op[o] \in OpRecord /\ lock = o /\ OpOK(o)
  BY AtWork
<1> DEFINE state == [op[o] EXCEPT !.at = there, !.runtime = r]
<1>2. /\ state \in OpRecord /\ state.at = there /\ state.prefer = op[o].prefer
      /\ state.runtime = r /\ state.created = op[o].created
  BY <1>1 DEF OpRecord, StartAt, StopAt
<1>3. op' = [op EXCEPT ![o] = state] /\ lock' = o
  BY <1>1 DEF Chosen, Onward
<1>4. Moves /\ RunsOK' /\ UNCHANGED receipt /\ (OnlyBroughtIn(r) => OnlyBroughtIn(r)')
  BY StandsStill
<1>5. ~state.created
  BY <1>1, <1>2 DEF OpOK
<1> HIDE DEF state
<1> QED
  BY <1>1, <1>2, <1>3, <1>4, <1>5, GoesOn DEF StartAt, StopAt

LEMMA SelectStartPreserves ==
    ASSUME LocalInv, NEW o \in Operation, SelectStart(o), Remember
    PROVE  LocalInv'
<1>1. /\ op[o].at = "selecting" /\ LocalShape
      /\ UNCHANGED <<power, resource, occupied, late, receipt>>
  BY AtWork DEF SelectStart
<1>2. CASE \E r \in StartRuntimes(op[o].prefer) : Chosen(o, r, "inspecting")
  <2>1. PICK r \in StartRuntimes(op[o].prefer) : Chosen(o, r, "inspecting")
    BY <1>2
  <2>2. r \in Runtime /\ (receipt # NoReceipt => r = receipt)
    BY DEF StartRuntimes, Up, Holding, Runtime
  <2> QED
    BY <1>1, <2>1, <2>2, Chooses
<1>3. CASE Say(o, "failed")
  BY <1>1, <1>3, StandsStill, Returns DEF LocalShape
<1> QED
  BY <1>2, <1>3 DEF SelectStart

LEMMA InspectPreserves ==
    ASSUME LocalInv, NEW o \in Operation, Inspect(o), Remember
    PROVE  LocalInv'
<1>1. op[o].at = "inspecting" /\ UNCHANGED <<power, resource, occupied, late, receipt>>
  BY DEF Inspect
<1>2. /\ LocalShape /\ OpOK(o) /\ RunsOK /\ op[o] \in OpRecord /\ lock = o
  BY <1>1, AtWork
<1>3. PICK r \in Runtime : r = op[o].runtime
  BY <1>1, AtWork
<1>4. Moves /\ RunsOK' /\ \A q \in Runtime : OnlyBroughtIn(q) => OnlyBroughtIn(q)'
  BY <1>1, StandsStill
<1>5. receipt # NoReceipt => r = receipt
  BY <1>1, <1>2, <1>3 DEF OpOK, StartAt
<1>6. CASE Say(o, "failed")
  BY <1>1, <1>2, <1>4, <1>6, Returns DEF LocalShape
<1>7. CASE Runs(r) /\ Continue(o, "readying")
  <2>1. OnlyBroughtIn(r)' /\ resource[r] # "foreign"
    BY <1>2, <1>4, <1>7 DEF RunsOK, Runs, OnlyRunsIn, OnlyBroughtIn, Brought
  <2> QED
    BY <1>1, <1>3, <1>4, <1>5, <1>7, <2>1, Continues DEF StartAt, StopAt
<1>8. CASE /\ ~PortBusy /\ resource[r] # "foreign" /\ UNCHANGED lock
           /\ Onward(o, [op[o] EXCEPT !.at = "bringing", !.created = resource[r] = "absent"])
  <2> DEFINE state == [op[o] EXCEPT !.at = "bringing", !.created = resource[r] = "absent"]
  <2>1. /\ state \in OpRecord /\ state.at = "bringing" /\ state.runtime = r
        /\ state.created => resource[r] = "absent"
    BY <1>2, <1>3 DEF OpRecord, StartAt
  <2>2. op' = [op EXCEPT ![o] = state] /\ lock' = o
    BY <1>2, <1>8 DEF Onward
  <2>3. resource[r] = "absent" => r \notin reported
    BY <1>2 DEF LocalShape, Owned
  <2>4. OnlyBroughtIn(r)'
    BY <1>4, <1>8 DEF PortBusy, OnlyBroughtIn, Brought
  <2> HIDE DEF state
  <2> QED
    BY <1>1, <1>2, <1>4, <1>5, <1>8, <2>1, <2>2, <2>3, <2>4, GoesOn DEF StartAt, StopAt
<1> QED
  BY <1>1, <1>3, <1>6, <1>7, <1>8 DEF Inspect

LEMMA Gives ==
    ASSUME LocalInv, UNCHANGED <<power, occupied>>, late' \in LateRecord,
           \/ UNCHANGED resource
           \/ \E r \in Runtime, state \in {"absent", "stopped", "running"} :
                 resource[r] # "foreign" /\ Give(r, state)
    PROVE  Moves
BY DEF LocalInv, LocalShape, Moves, Give

(* The port keeps the container that a start brings up alone.              *)
LEMMA BringsUp ==
    ASSUME LocalInv, NEW o \in Operation, op[o].at = "bringing", NEW r \in Runtime,
           r = op[o].runtime, CanBring(o, r), Give(r, "running"), UNCHANGED <<power, receipt>>
    PROVE  RunsOK' /\ OnlyBroughtIn(r)'
<1>1. LocalShape /\ OpOK(o) /\ RunsOK
  BY AtWork
<1>2. \A q \in Runtime : Runs(q) => q = r
  BY <1>1 DEF CanBring, PortBusy, RunsOK, OnlyRunsIn
<1>3. \A q \in Runtime : Runs(q)' => q = r
  BY <1>1, <1>2 DEF Give, Runs, LocalShape
<1>4. power'[r] # "missing"
  BY DEF CanBring, Up
<1>5. receipt # NoReceipt => receipt = r
  BY <1>1 DEF OpOK, StartAt
<1> QED
  BY <1>3, <1>4, <1>5 DEF RunsOK, OnlyRunsIn, OnlyBroughtIn, Brought

LEMMA BringPreserves ==
    ASSUME LocalInv, NEW o \in Operation, Bring(o), Remember
    PROVE  LocalInv'
<1>1. op[o].at = "bringing" /\ UNCHANGED <<power, occupied, receipt>>
  BY DEF Bring
<1>2. LocalShape /\ OpOK(o) /\ RunsOK
  BY <1>1, AtWork
<1>3. PICK r \in Runtime : r = op[o].runtime
  BY <1>1, AtWork
<1>4. resource[r] # "foreign" /\ (receipt # NoReceipt => r = receipt)
  BY <1>1, <1>2, <1>3 DEF OpOK, StartAt
<1>5. CASE CanBring(o, r) /\ Give(r, "running") /\ Continue(o, "verifying") /\ UNCHANGED late
  <2>1. Moves
    BY <1>1, <1>2, <1>4, <1>5, Gives DEF LocalShape
  <2>2. RunsOK' /\ OnlyBroughtIn(r)'
    BY <1>1, <1>3, <1>5, BringsUp
  <2> QED
    BY <1>1, <1>3, <1>4, <1>5, <2>1, <2>2, Continues DEF StartAt, StopAt
<1>6. CASE /\ \/ UNCHANGED resource
              \/ CanBring(o, r) /\ Give(r, "running")
              \/ r \in Up /\ resource[r] = "absent" /\ op[o].created /\ Give(r, "stopped")
           /\ FailStart(o)
           /\ LeftBehind("bring", r)
  <2>1. late' \in LateRecord
    BY <1>2, <1>6, CommandsLeftBehind DEF LocalShape
  <2>2. Moves
    BY <1>1, <1>4, <1>6, <2>1, Gives
  <2>3. RunsOK'
    <3>1. CASE CanBring(o, r) /\ Give(r, "running")
      BY <1>1, <1>3, <3>1, BringsUp
    <3>2. CASE UNCHANGED resource \/ Give(r, "stopped")
      <4>1. Shrinks
        BY <1>2, <3>2 DEF LocalShape, Give, Shrinks
      <4> QED
        BY <1>1, <2>2, <4>1, RunsShrink
    <3> QED
      BY <1>6, <3>1, <3>2
  <2> QED
    BY <1>1, <1>6, <2>2, <2>3, StartFails
<1> QED
  BY <1>3, <1>5, <1>6 DEF Bring

LEMMA VerifyAwaitPreserve ==
    ASSUME LocalInv, NEW o \in Operation, Verify(o) \/ Await(o), Remember
    PROVE  LocalInv'
<1>1. /\ op[o].at \in {"verifying", "readying"}
      /\ UNCHANGED <<power, resource, occupied, late, receipt>>
      /\ \/ op[o].at = "verifying" /\ Continue(o, "readying")
         \/ op[o].at = "readying" /\ Continue(o, "writing")
         \/ FailStart(o)
  BY DEF Verify, Await
<1>2. OpOK(o) /\ OpRuns(o)
  BY <1>1, AtWork
<1>3. PICK r \in Runtime : r = op[o].runtime
  BY <1>1, AtWork
<1>4. Moves /\ RunsOK' /\ \A q \in Runtime : OnlyBroughtIn(q) => OnlyBroughtIn(q)'
  BY <1>1, StandsStill
<1>5. /\ resource[r] # "foreign" /\ (receipt # NoReceipt => r = receipt)
      /\ OnlyBroughtIn(r)
  BY <1>1, <1>2, <1>3 DEF OpOK, OpRuns, StartAt
<1>6. CASE FailStart(o)
  BY <1>1, <1>4, <1>6, StartFails
<1>7. ASSUME NEW there \in {"readying", "writing"}, Continue(o, there) PROVE LocalInv'
  BY <1>1, <1>3, <1>4, <1>5, <1>7, Continues DEF StartAt, StopAt
<1> QED
  BY <1>1, <1>6, <1>7

LEMMA WriteReceiptPreserves ==
    ASSUME LocalInv, NEW o \in Operation, WriteReceipt(o), Remember
    PROVE  LocalInv'
<1>1. op[o].at = "writing" /\ UNCHANGED <<power, resource, occupied, late>>
  BY DEF WriteReceipt
<1>2. LocalShape /\ OpOK(o) /\ OpRuns(o) /\ RunsOK
  BY <1>1, AtWork
<1>3. PICK r \in Runtime : r = op[o].runtime
  BY <1>1, AtWork
<1>4. resource[r] # "foreign" /\ OnlyBroughtIn(r)
  BY <1>1, <1>2, <1>3 DEF OpOK, OpRuns, StartAt
<1>5. Moves
  BY <1>1, <1>2 DEF Moves, LocalShape
<1>6. receipt' \in {r, receipt}
  BY <1>3 DEF WriteReceipt
<1>7. RunsOK'
  <2>1. BroughtShrinks
    BY <1>1, RaisedIs, NothingIsBrought DEF Brought, Runs
  <2> QED
    BY <1>1, <1>2, <1>4, <1>6, <2>1 DEF RunsOK, OnlyRunsIn, OnlyBroughtIn, Runs, BroughtShrinks
<1>8. PICK what : Say(o, what)
  BY DEF WriteReceipt
<1> QED
  BY <1>1, <1>2, <1>3, <1>4, <1>5, <1>6, <1>7, <1>8, Returns DEF LocalShape

(* stop_exact_resource, for a stop or a cleanup.                           *)
LEMMA HaltPreserves ==
    ASSUME LocalInv, NEW o \in Operation, Clean(o) \/ Stop(o), Remember
    PROVE  LocalInv'
<1>1. /\ op[o].at \in {"cleaning", "stopping"} /\ UNCHANGED <<power, occupied, receipt>>
  BY DEF Clean, Stop, HaltThen
<1>2. LocalShape /\ OpOK(o) /\ OpRuns(o) /\ RunsOK
  BY <1>1, AtWork
<1>3. PICK r \in Runtime : r = op[o].runtime
  BY <1>1, AtWork
<1>4. /\ UNCHANGED late \/ LeftBehind("halt", r)
      /\ \/ UNCHANGED resource
         \/ Runs(r) /\ \E end \in {"absent", "stopped"} : Give(r, end)
  BY <1>3 DEF Clean, Stop, HaltThen, Halted
<1>5. late' \in LateRecord
  BY <1>2, <1>4, CommandsLeftBehind DEF LocalShape
<1>6. Moves
  <2>1. Runs(r) => resource[r] # "foreign"
    BY DEF Runs
  <2> QED
    BY <1>1, <1>4, <1>5, <2>1, Gives
<1>7. Shrinks
  BY <1>2, <1>4 DEF Shrinks, Give, Runs, LocalShape
<1>8. RunsOK' /\ (OnlyBroughtIn(r) => OnlyBroughtIn(r)')
  BY <1>1, <1>6, <1>7, RunsShrink DEF BroughtShrinks
<1>9. CASE Say(o, "failed")
  BY <1>1, <1>2, <1>6, <1>8, <1>9, Returns DEF LocalShape
<1>10. CASE Clean(o) /\ Continue(o, "removing")
  <2>1. op[o].at = "cleaning" /\ op[o].created
    BY <1>2, <1>10 DEF Clean, OpOK
  <2> QED
    BY <1>1, <1>3, <1>6, <1>8, <1>10, <2>1, Continues DEF StartAt, StopAt
<1>11. CASE Stop(o) /\ Continue(o, "checking")
  <2>1. /\ op[o].at = "stopping"
        /\ receipt # NoReceipt \/ op[o].prefer = "auto" => OnlyBroughtIn(r)
    BY <1>2, <1>3, <1>11 DEF Stop, OpRuns
  <2> QED
    BY <1>1, <1>3, <1>5, <1>6, <1>8, <1>11, <2>1, Continues DEF StartAt, StopAt
<1> QED
  BY <1>9, <1>10, <1>11 DEF Clean, Stop, HaltThen

LEMMA RemovePreserves ==
    ASSUME LocalInv, NEW o \in Operation, Remove(o), Remember
    PROVE  LocalInv'
<1>1. op[o].at = "removing" /\ Say(o, "failed") /\ UNCHANGED <<power, occupied, receipt>>
  BY DEF Remove
<1>2. LocalShape
  BY <1>1, AtWork
<1>3. PICK r \in Runtime : r = op[o].runtime
  BY <1>1, AtWork
<1>4. /\ UNCHANGED late \/ LeftBehind("remove", r)
      /\ UNCHANGED resource \/ (resource[r] = "stopped" /\ Give(r, "absent"))
  BY <1>3 DEF Remove
<1>5. late' \in LateRecord
  BY <1>2, <1>4, CommandsLeftBehind DEF LocalShape
<1>6. Moves /\ Shrinks
  <2>1. Moves
    BY <1>1, <1>4, <1>5, Gives
  <2> QED
    BY <1>2, <1>4, <2>1 DEF Shrinks, Give, LocalShape
<1> QED
  BY <1>1, <1>2, <1>6, RunsShrink, Returns DEF LocalShape

(* A stop without a receipt has looked in every runtime that may run it.   *)
LEMMA StopLooksEverywhere ==
    ASSUME LocalInv, Discovered("auto") # {}, ~Ambiguous(Discovered("auto")), NEW q \in Runtime, Runs(q)
    PROVE  Holding(Discovered("auto")) = {q}
<1>1. RunsOK /\ LocalShape
  BY DEF LocalInv
<1>2. power[q] = "up" /\ Discovered("auto") = Up
  BY <1>1 DEF Discovered, RunsOK, Up, LocalShape
<1>3. q \in Holding(Up)
  BY <1>2 DEF Holding, Up, Runs, Owned
<1>4. \A r \in Holding(Up) : r = q
  <2> SUFFICES ASSUME NEW r \in Holding(Up), r # q
               PROVE  FALSE
    OBVIOUS
  <2>1. Holding(Up) \subseteq Runtime
    BY DEF Holding, Up
  <2>2. Holding(Up) = {q, r}
    BY <1>3, <2>1 DEF Runtime
  <2>3. IsFiniteSet({q}) /\ Cardinality({q}) = 1
    BY FS_Singleton
  <2>4. Cardinality({q} \cup {r}) = 2
    BY <2>3, FS_AddElement
  <2>5. Cardinality(Holding(Up)) = 2
    BY <2>2, <2>4
  <2> QED
    BY <1>2, <2>5 DEF Ambiguous, Holding
<1> QED
  BY <1>2, <1>3, <1>4

LEMMA SelectStopPreserves ==
    ASSUME LocalInv, NEW o \in Operation, SelectStop(o), Remember
    PROVE  /\ LocalInv'
           /\ SaysNow(o, "stopped") /\ (receipt # NoReceipt \/ op[o].prefer = "auto")
                => NothingBrought
<1>1. /\ op[o].at = "selecting" /\ LocalShape /\ OpOK(o) /\ op[o] \in OpRecord /\ lock = o
      /\ UNCHANGED <<power, resource, occupied, late, receipt>>
  BY AtWork DEF SelectStop
<1>2. ASSUME NEW what, Say(o, what) PROVE what # "ready" => LocalInv'
  BY <1>1, <1>2, StandsStill, Returns DEF LocalShape
<1>3. CASE receipt # NoReceipt
  <2>1. CASE receipt \in Runtime /\ Chosen(o, receipt, "stopping")
    <3>1. OnlyBroughtIn(receipt)
      BY <1>3 DEF LocalInv, RunsOK
    <3>2. op[o].at # "idle" /\ op'[o].at # "idle"
      BY <1>1, <2>1 DEF Chosen, Onward, OpRecord, LocalShape
    <3> QED
      BY <1>1, <2>1, <3>1, <3>2, Chooses DEF SaysNow
  <2>2. CASE Say(o, "failed")
    BY <1>2, <2>2 DEF Say, SaysNow
  <2> QED
    BY <1>3, <2>1, <2>2 DEF SelectStop, Up
<1>4. CASE receipt = NoReceipt
  <2> DEFINE found == Discovered(op[o].prefer)
  <2>1. CASE Say(o, "failed")
    BY <1>2, <2>1 DEF Say, SaysNow
  <2>2. CASE found # {} /\ ~Ambiguous(found) /\ Holding(found) = {} /\ Say(o, "stopped")
    <3>1. op[o].prefer = "auto" => NothingBrought
      BY <2>2, StopLooksEverywhere DEF NothingBrought, Brought
    <3> QED
      BY <1>2, <1>4, <2>2, <3>1
  <2>3. CASE /\ found # {} /\ ~Ambiguous(found)
             /\ \E r \in Holding(found) : Chosen(o, r, "stopping")
    <3>1. PICK r \in Holding(found) : Chosen(o, r, "stopping")
      BY <2>3
    <3>2. r \in Runtime
      BY DEF Holding, Discovered, Up
    <3>3. op[o].prefer = "auto" => OnlyBroughtIn(r)
      BY <2>3, StopLooksEverywhere DEF OnlyBroughtIn, Brought
    <3>4. op'[o].at # "idle"
      BY <1>1, <3>1 DEF Chosen, Onward, OpRecord, LocalShape
    <3> QED
      BY <1>1, <1>4, <3>1, <3>2, <3>3, <3>4, Chooses DEF SaysNow
  <2> QED
    BY <1>4, <2>1, <2>2, <2>3 DEF SelectStop
<1> QED
  BY <1>3, <1>4

LEMMA CheckPreserves ==
    ASSUME LocalInv, NEW o \in Operation, Check(o), Remember
    PROVE  LocalInv'
<1>1. op[o].at = "checking" /\ UNCHANGED <<power, resource, occupied, late, receipt>>
  BY DEF Check
<1>2. LocalShape /\ OpRuns(o)
  BY <1>1, AtWork
<1>3. PICK r \in Runtime : r = op[o].runtime
  BY <1>1, AtWork
<1>4. Moves /\ RunsOK' /\ (NothingBrought => NothingBrought')
  BY <1>1, StandsStill DEF BroughtShrinks
<1>5. CASE Say(o, "failed")
  BY <1>1, <1>2, <1>4, <1>5, Returns DEF LocalShape
<1>6. CASE resource[r] \in {"absent", "stopped"} /\ Continue(o, "forgetting")
  <2>1. receipt # NoReceipt \/ op[o].prefer = "auto" => OnlyBroughtIn(r)
    BY <1>1, <1>2, <1>3 DEF OpRuns
  <2>2. OnlyBroughtIn(r) => NothingBrought'
    BY <1>4, <1>6 DEF OnlyBroughtIn, NothingBrought, Brought, Runs
  <2>3. "forgetting" \in StopAt /\ "forgetting" \notin StartAt
    BY DEF StartAt, StopAt
  <2> QED
    BY <1>1, <1>3, <1>4, <1>6, <2>1, <2>2, <2>3, Continues
<1> QED
  BY <1>3, <1>5, <1>6 DEF Check

LEMMA RemoveReceiptPreserves ==
    ASSUME LocalInv, NEW o \in Operation, RemoveReceipt(o), Remember
    PROVE  LocalInv'
<1>1. /\ op[o].at = "forgetting" /\ UNCHANGED <<power, resource, occupied, late>>
      /\ receipt' \in {receipt, NoReceipt}
  BY DEF RemoveReceipt
<1>2. LocalShape
  BY <1>1, AtWork
<1>3. Moves /\ RunsOK'
  BY <1>1, StandsStill
<1>4. PICK what \in {"stopped", "failed"} : Say(o, what)
  BY DEF RemoveReceipt
<1> QED
  BY <1>1, <1>2, <1>3, <1>4, Returns DEF LocalShape

LEMMA KilledPreserves ==
    ASSUME LocalInv, NEW o \in Operation, Killed(o), Remember
    PROVE  LocalInv'
<1>1. /\ op[o].at # "idle" /\ Say(o, "nothing")
      /\ UNCHANGED <<power, resource, occupied, receipt>>
  BY DEF Killed
<1>2. LocalShape
  BY <1>1, AtWork
<1>3. late' \in LateRecord
  <2>1. CASE UNCHANGED late
    BY <1>2, <2>1 DEF LocalShape
  <2>2. CASE op[o].at \in {"bringing", "cleaning", "stopping", "removing"} /\ ~UNCHANGED late
    <3>1. PICK r \in Runtime : r = op[o].runtime
      BY <2>2, AtWork
    <3>2. PICK command \in {"bring", "halt", "remove"} : LeftBehind(command, r)
      BY <2>2, <3>1 DEF Killed
    <3> QED
      BY <1>2, <3>2, CommandsLeftBehind DEF LocalShape
  <2>3. op[o].at \notin {"bringing", "cleaning", "stopping", "removing"} => UNCHANGED late
    BY DEF Killed
  <2> QED
    BY <2>1, <2>2, <2>3
<1>4. Moves /\ Shrinks
  BY <1>1, <1>2, <1>3 DEF Moves, Shrinks, LocalShape
<1> QED
  BY <1>1, <1>2, <1>4, RunsShrink, Returns DEF LocalShape

LEMMA OperationPreserves ==
    ASSUME LocalInv, NEW o \in Operation, OperationStep(o), Remember
    PROVE  LocalInv'
BY SelectStartPreserves, InspectPreserves, BringPreserves, VerifyAwaitPreserve,
   WriteReceiptPreserves, HaltPreserves, RemovePreserves, SelectStopPreserves, CheckPreserves,
   RemoveReceiptPreserves, KilledPreserves DEF OperationStep

LEMMA LocalStep ==
    ASSUME LocalInv, [LocalNext]_localVars
    PROVE  LocalInv'
<1>1. CASE UNCHANGED localVars
  BY <1>1 DEF localVars, LocalInv, LocalShape, RunsOK, OpOK, OpRuns, OnlyRunsIn, Runs,
     OnlyBroughtIn, NothingBrought, Brought
<1> QED
  BY <1>1, EnvironmentPreserves, AcquirePreserves, OperationPreserves DEF LocalNext

-----------------------------------------------------------------------------
(* What a step of the local services may do.                               *)

LEMMA ReceiptStaysPut ==
    ASSUME LocalInv, [LocalNext]_localVars
    PROVE  LifecycleStaysPut
<1>1. CASE \E o \in Operation : WriteReceipt(o)
  <2>1. PICK o \in Operation : WriteReceipt(o)
    BY <1>1
  <2>2. OpOK(o) /\ op[o].at = "writing" /\ receipt' \in {receipt, op[o].runtime}
    BY <2>1 DEF LocalInv, WriteReceipt
  <2> QED
    BY <2>2 DEF OpOK, StartAt, LifecycleStaysPut
<1>2. ~(\E o \in Operation : WriteReceipt(o)) => receipt' \in {receipt, NoReceipt}
  <2>1. LocalEnvironment => receipt' \in {receipt, NoReceipt}
    BY DEF LocalEnvironment, RuntimeChanges, ContainerDies, PortChanges, TargetCleaned, Lands
  <2>2. \A o \in Operation : Begin(o) => receipt' = receipt
    BY DEF Begin, Acquire
  <2>3. \A o \in Operation :
           SelectStart(o) \/ Inspect(o) \/ Bring(o) \/ Verify(o) \/ Await(o)
              \/ Remove(o) \/ SelectStop(o) \/ Check(o) \/ Killed(o)
           => receipt' = receipt
    BY DEF SelectStart, Inspect, Bring, Verify, Await, Remove, SelectStop, Check, Killed
  <2>4. \A o \in Operation : Clean(o) \/ Stop(o) => receipt' = receipt
    BY DEF Clean, Stop, HaltThen
  <2>5. \A o \in Operation : RemoveReceipt(o) => receipt' \in {receipt, NoReceipt}
    BY DEF RemoveReceipt
  <2>6. UNCHANGED localVars => receipt' = receipt
    BY DEF localVars
  <2>7. \A o \in Operation :
           OperationStep(o) /\ ~WriteReceipt(o) => receipt' \in {receipt, NoReceipt}
    BY <2>3, <2>4, <2>5 DEF OperationStep
  <2> QED
    BY <2>1, <2>2, <2>6, <2>7 DEF LocalNext
<1> QED
  BY <1>1, <1>2 DEF LifecycleStaysPut

LEMMA RemovesOwnAttempt ==
    ASSUME LocalInv
    PROVE  OnlyOwnAttemptRemoved
BY DEF LocalInv, OpOK, OnlyOwnAttemptRemoved

(* Which operation says how it ended.                                      *)
LEMMA WhoSaysSo ==
    ASSUME NEW p \in Operation, OperationStep(p), verdict' \notin {"nothing", "failed"}
    PROVE  \/ WriteReceipt(p) /\ verdict' = "ready"
           \/ SelectStop(p) /\ verdict' = "stopped"
           \/ RemoveReceipt(p) /\ verdict' = "stopped"
<1>1. ~Say(p, "failed") /\ ~Say(p, "nothing")
  BY DEF Say
<1>2. \A state : ~Onward(p, state)
  BY DEF Onward
<1>3. \A there : ~Continue(p, there)
  BY <1>2 DEF Continue
<1>4. \A r, there : ~Chosen(p, r, there)
  BY <1>2 DEF Chosen
<1>5. ~SelectStart(p) /\ ~Remove(p) /\ ~Killed(p) /\ ~FailStart(p)
  BY <1>1, <1>3, <1>4, Zenon DEF SelectStart, Remove, Killed, FailStart
<1>6. ~Inspect(p) /\ ~Verify(p) /\ ~Await(p) /\ ~Check(p)
  BY <1>1, <1>2, <1>3, <1>5, Zenon DEF Inspect, Verify, Await, Check
<1>7. ~Bring(p) /\ ~Clean(p) /\ ~Stop(p)
  BY <1>1, <1>3, <1>5, Zenon DEF Bring, Clean, Stop, HaltThen
<1>8. WriteReceipt(p) => verdict' = "ready"
  BY <1>1, Zenon DEF WriteReceipt, Say
<1>9. RemoveReceipt(p) => verdict' = "stopped"
  BY <1>1, Zenon DEF RemoveReceipt, Say
<1>10. SelectStop(p) => verdict' = "stopped"
  <2>1. SelectStop(p) => Say(p, "stopped")
    BY <1>1, <1>4, Zenon DEF SelectStop
  <2> QED
    BY <2>1 DEF Say
<1> QED
  BY <1>5, <1>6, <1>7, <1>8, <1>9, <1>10, Zenon DEF OperationStep

(* Who says that the service has stopped.                                  *)
LEMMA StopsTruly ==
    ASSUME LocalInv, [LocalNext]_localVars
    PROVE  StopIsTrue
<1> SUFFICES ASSUME NEW o \in Operation, SaysNow(o, "stopped"),
                    receipt # NoReceipt \/ op[o].prefer = "auto"
             PROVE  NothingBrought
  BY DEF StopIsTrue, NothingBrought, Brought
<1>1. op \in [Operation -> OpRecord]
  BY DEF LocalInv, LocalShape
<1>2. op' # op /\ op'[o] # op[o] /\ verdict' = "stopped" /\ op'[o].at = "idle"
  BY DEF SaysNow
<1>3. ~LocalEnvironment /\ ~UNCHANGED localVars
  BY <1>2 DEF LocalEnvironment, RuntimeChanges, ContainerDies, PortChanges, TargetCleaned, Lands, localVars
<1>4. PICK p \in Operation : OperationStep(p)
  <2>1. \A p \in Operation : ~Begin(p)
    BY <1>2 DEF Begin, Acquire, Onward
  <2> QED
    BY <1>3, <2>1 DEF LocalNext
<1>5. CASE SelectStop(p)
  <2>1. p = o
    BY <1>1, <1>2, <1>5 DEF SelectStop, Say, Chosen, Onward
  <2>2. Remember
    BY <1>3 DEF LocalNext
  <2> QED
    BY <1>5, <2>1, <2>2, SelectStopPreserves
<1>6. CASE RemoveReceipt(p)
  <2>1. p = o
    BY <1>1, <1>2, <1>6 DEF RemoveReceipt, Say
  <2>2. op[o].at = "forgetting" /\ OpRuns(o)
    BY <1>6, <2>1 DEF RemoveReceipt, LocalInv
  <2> QED
    BY <2>2 DEF OpRuns
<1> QED
  BY <1>2, <1>4, <1>5, <1>6, WhoSaysSo

LEMMA LocalIsSound ==
    ASSUME LocalInv
    PROVE  LocalTypeOK
BY DEF LocalInv, LocalShape, OpOK, LocalTypeOK

-----------------------------------------------------------------------------
(* One operation at a time, under the supervisor.                          *)

(* Where an operation may go.                                              *)
SameOrder(x, y) == y.kind = x.kind /\ y.prefer = x.prefer

Onwards(x, y) ==
    \/ /\ x.at = "selecting" /\ x.kind = "start" /\ y.at = "inspecting"
       /\ y.runtime \in StartRuntimes(x.prefer)
    \/ /\ x.at = "selecting" /\ x.kind = "stop" /\ y.at = "stopping"
       /\ IF receipt # NoReceipt THEN y.runtime = receipt
          ELSE y.runtime \in Holding(Discovered(x.prefer))
    \/ /\ y.runtime = x.runtime /\ x.at \in StartAt \cup {"cleaning"}
       /\ y.at \in {"bringing", "verifying", "readying", "writing", "cleaning", "removing"}
    \/ y.runtime = x.runtime /\ x.at = "stopping" /\ y.at = "checking"
    \/ /\ y.runtime = x.runtime /\ x.at = "checking" /\ y.at = "forgetting"
       /\ resource[x.runtime] \in {"absent", "stopped"} /\ UNCHANGED resource

LEMMA OperationMoves ==
    ASSUME LocalInv, NEW o \in Operation, OperationStep(o)
    PROVE  /\ op[o].at # "idle"
           /\ \A p \in Operation : p # o => op'[p] = op[p]
           /\ op'[o] = Unbegun \/ (SameOrder(op[o], op'[o]) /\ Onwards(op[o], op'[o]))
<1>1. op \in [Operation -> OpRecord] /\ op[o] \in OpRecord
  BY DEF LocalInv, LocalShape
<1>2. op[o].at # "idle"
  BY DEF OperationStep, SelectStart, Inspect, Bring, Verify, Await, WriteReceipt, Clean, Remove,
     SelectStop, Stop, Check, RemoveReceipt, Killed
<1> DEFINE Others == \A p \in Operation : p # o => op'[p] = op[p]
<1> DEFINE Goes(there, r) ==
              op'[o].at = there /\ op'[o].runtime = r /\ SameOrder(op[o], op'[o])
<1> DEFINE Done == Others /\ (op'[o] = Unbegun \/ (SameOrder(op[o], op'[o]) /\ Onwards(op[o], op'[o])))
<1> SUFFICES Done
  BY <1>2
<1>3. ASSUME NEW what, Say(o, what)
      PROVE  Others /\ op'[o] = Unbegun
  BY <1>1, <1>3 DEF Say
<1>4. ASSUME NEW there, Continue(o, there)
      PROVE  Others /\ Goes(there, op[o].runtime)
  BY <1>1, <1>4 DEF Continue, Onward, OpRecord, SameOrder
<1>5. ASSUME NEW r, NEW there, Chosen(o, r, there)
      PROVE  Others /\ Goes(there, r)
  BY <1>1, <1>5 DEF Chosen, Onward, OpRecord, SameOrder
<1>6. ASSUME NEW there \in {"readying", "verifying", "writing", "cleaning", "removing"},
             op[o].at \in StartAt \cup {"cleaning"}, Continue(o, there)
      PROVE  Done
  <2>1. Others /\ Goes(there, op[o].runtime)
    BY <1>4, <1>6
  <2> QED
    BY <1>6, <2>1 DEF Onwards
<1>7. CASE SelectStart(o)
  <2>1. CASE Say(o, "failed")
    BY <1>3, <2>1
  <2>2. CASE /\ op[o].at = "selecting" /\ op[o].kind = "start"
             /\ \E r \in StartRuntimes(op[o].prefer) : Chosen(o, r, "inspecting")
    <3>1. PICK r \in StartRuntimes(op[o].prefer) : Chosen(o, r, "inspecting")
      BY <2>2
    <3>2. Others /\ Goes("inspecting", r)
      BY <1>5, <3>1
    <3> QED
      BY <2>2, <3>2 DEF Onwards
  <2> QED
    BY <1>7, <2>1, <2>2 DEF SelectStart
<1>8. CASE SelectStop(o)
  <2>1. CASE \E what : Say(o, what)
    BY <1>3, <2>1
  <2>2. CASE /\ op[o].at = "selecting" /\ op[o].kind = "stop" /\ receipt # NoReceipt
             /\ Chosen(o, receipt, "stopping")
    <3>1. Others /\ Goes("stopping", receipt)
      BY <1>1, <2>2 DEF Chosen, Onward, OpRecord, SameOrder
    <3> QED
      BY <2>2, <3>1 DEF Onwards
  <2>3. CASE /\ op[o].at = "selecting" /\ op[o].kind = "stop" /\ receipt = NoReceipt
             /\ \E r \in Holding(Discovered(op[o].prefer)) : Chosen(o, r, "stopping")
    <3>1. PICK r \in Holding(Discovered(op[o].prefer)) : Chosen(o, r, "stopping")
      BY <2>3
    <3>2. Others /\ Goes("stopping", r)
      BY <1>5, <3>1
    <3> QED
      BY <2>3, <3>2 DEF Onwards
  <2> QED
    BY <1>8, <2>1, <2>2, <2>3 DEF SelectStop
<1>9. CASE Inspect(o)
  <2>1. op[o].at = "inspecting" /\ op[o].at \in StartAt
    BY <1>9 DEF Inspect, StartAt
  <2>2. CASE Onward(o, [op[o] EXCEPT !.at = "bringing",
                                     !.created = resource[op[o].runtime] = "absent"])
    <3>1. Others /\ Goes("bringing", op[o].runtime)
      BY <1>1, <2>2 DEF Onward, OpRecord, SameOrder
    <3> QED
      BY <2>1, <3>1 DEF Onwards
  <2>3. CASE Say(o, "failed")
    BY <1>3, <2>3
  <2>4. CASE Continue(o, "readying")
    BY <1>6, <2>1, <2>4
  <2> QED
    BY <1>9, <2>2, <2>3, <2>4 DEF Inspect
<1>10. CASE Bring(o) \/ Verify(o) \/ Await(o)
  <2>1. op[o].at \in StartAt
    BY <1>10 DEF Bring, Verify, Await, StartAt
  <2>2. \/ Continue(o, "verifying") \/ Continue(o, "readying") \/ Continue(o, "writing")
        \/ Continue(o, "cleaning") \/ Say(o, "failed")
    BY <1>10 DEF Bring, Verify, Await, FailStart
  <2>3. CASE Say(o, "failed")
    BY <1>3, <2>3
  <2> QED
    BY <1>6, <2>1, <2>2, <2>3
<1>11. CASE WriteReceipt(o) \/ Remove(o) \/ RemoveReceipt(o) \/ Killed(o)
  <2>1. PICK what : Say(o, what)
    BY <1>11 DEF WriteReceipt, Remove, RemoveReceipt, Killed
  <2> QED
    BY <1>3, <2>1
<1>12. CASE Clean(o)
  <2>1. op[o].at = "cleaning" /\ (Continue(o, "removing") \/ Say(o, "failed"))
    BY <1>12 DEF Clean, HaltThen
  <2> QED
    BY <1>3, <1>6, <2>1
<1>13. CASE Stop(o)
  <2>1. op[o].at = "stopping" /\ (Continue(o, "checking") \/ Say(o, "failed"))
    BY <1>13 DEF Stop, HaltThen
  <2>2. CASE Continue(o, "checking")
    <3>1. Others /\ Goes("checking", op[o].runtime)
      BY <1>4, <2>2
    <3> QED
      BY <2>1, <3>1 DEF Onwards
  <2> QED
    BY <1>3, <2>1, <2>2
<1>14. CASE Check(o)
  <2>1. CASE Say(o, "failed")
    BY <1>3, <2>1
  <2>2. CASE /\ op[o].at = "checking" /\ resource[op[o].runtime] \in {"absent", "stopped"}
             /\ UNCHANGED resource /\ Continue(o, "forgetting")
    <3>1. Others /\ Goes("forgetting", op[o].runtime)
      BY <1>4, <2>2
    <3> QED
      BY <2>2, <3>1 DEF Onwards
  <2> QED
    BY <1>14, <2>1, <2>2 DEF Check
<1> QED
  BY <1>7, <1>8, <1>9, <1>10, <1>11, <1>12, <1>13, <1>14 DEF OperationStep

(* A step that gives the container no other place, brings nothing up but   *)
(* by a command left behind, and keeps the receipt or drops it.            *)
HomeShrinks ==
    /\ \A r \in Runtime : Houses(r)' => Houses(r)
    /\ BroughtShrinks /\ receipt' \in {receipt, NoReceipt}
    /\ \A r \in Runtime : power[r] # "missing" => power'[r] # "missing"

LEMMA HomeIsKept ==
    ASSUME HomeShrinks
    PROVE  /\ OneHome => OneHome'
           /\ NothingOwned => NothingOwned'
           /\ \A r \in Runtime : OwnedIn(r) => OwnedIn(r)'
           /\ NothingBrought => NothingBrought'
<1>1. \A r \in Runtime : OwnedIn(r) => OwnedIn(r)'
  BY DEF HomeShrinks, OwnedIn
<1>2. OneHome => OneHome'
  <2>1. receipt' # NoReceipt => receipt' = receipt
    BY DEF HomeShrinks
  <2> QED
    BY <2>1 DEF HomeShrinks, OneHome, OwnedIn
<1>3. NothingOwned => NothingOwned'
  BY DEF HomeShrinks, NothingOwned
<1>4. NothingBrought => NothingBrought'
  BY DEF HomeShrinks, BroughtShrinks
<1> QED
  BY <1>1, <1>2, <1>3, <1>4

LEMMA LateCommands ==
    /\ NoneYet.command = "none yet" /\ Landed.command = "landed" /\ Landed.runtime = NoReceipt
    /\ Landed # NoneYet
<1>1. NoneYet.command = "none yet" /\ Landed.command = "landed" /\ Landed.runtime = NoReceipt
  BY DEF NoneYet, Landed
<1>2. Landed.command # NoneYet.command
  BY <1>1, Zenon
<1>3. Landed # NoneYet
  BY <1>2, Zenon
<1> QED
  BY <1>1, <1>3, Zenon

(* The command left behind is carried out where the container has its      *)
(* place already.                                                          *)
LEMMA LandsAtHome ==
    ASSUME LocalInv, Lands, Remember, NEW q \in Runtime
    PROVE  (Houses(q)' => Houses(q)) /\ (Brought(q)' => Brought(q))
<1>1. LocalShape /\ late' = Landed /\ late'.command # "bring"
  BY LateCommands DEF LocalInv, Lands
<1>2. PICK r \in Runtime : r = late.runtime
  BY DEF Lands
<1>3. \/ UNCHANGED resource
      \/ late.command = "bring" /\ \E state \in {"stopped", "running"} : Give(r, state)
      \/ Runs(r) /\ \E end \in Halted(r) : Give(r, end)
      \/ resource[r] = "stopped" /\ Give(r, "absent")
  BY <1>2 DEF Lands
<1>4. q # r => resource'[q] = resource[q]
  BY <1>1, <1>3 DEF Give, LocalShape
<1>5. Houses(q)' => Houses(q)
  <2>1. Houses(q)' => resource'[q] \in Owned
    BY <1>1 DEF Houses
  <2>2. CASE q # r
    BY <1>4, <2>1, <2>2 DEF Houses
  <2>3. CASE q = r /\ late.command = "bring"
    BY <1>2, <2>3 DEF Houses
  <2>4. CASE q = r /\ late.command # "bring"
    <3>1. UNCHANGED resource \/ Runs(r) \/ resource[r] = "stopped"
      BY <1>3, <2>4
    <3> QED
      BY <2>1, <2>4, <3>1 DEF Houses, Owned, Runs
  <2> QED
    BY <2>2, <2>3, <2>4
<1>6. Brought(q)' => Brought(q)
  <2> SUFFICES ASSUME Brought(q)' PROVE Brought(q)
    OBVIOUS
  <2>1. q \notin raised /\ (q # r \/ Runs(q))
    BY <1>1, <1>2, RaisedIs DEF Brought, Remember, Runs
  <2> QED
    BY <1>4, <2>1 DEF Brought, Runs
<1> QED
  BY <1>5, <1>6

LEMMA EnvironmentShrinks ==
    ASSUME LocalInv, LocalEnvironment, Remember
    PROVE  HomeShrinks /\ UNCHANGED op
<1>1. LocalShape
  BY DEF LocalInv
<1>2. UNCHANGED op /\ receipt' \in {receipt, NoReceipt}
  BY DEF LocalEnvironment, RuntimeChanges, ContainerDies, PortChanges, TargetCleaned, Lands
<1>3. \A q \in Runtime : (Houses(q)' => Houses(q)) /\ (Brought(q)' => Brought(q))
  <2>1. CASE Lands
    BY <2>1, LandsAtHome, Zenon
  <2>2. CASE ~Lands
    <3>1. UNCHANGED late
      BY <2>2 DEF LocalEnvironment, RuntimeChanges, ContainerDies, PortChanges, TargetCleaned
    <3>2. \/ UNCHANGED resource
          \/ \E r \in Runtime, end \in {"absent", "stopped"} :
                Runs(r) /\ resource' = [resource EXCEPT ![r] = end]
      BY <2>2 DEF LocalEnvironment, RuntimeChanges, ContainerDies, PortChanges, TargetCleaned, Give, Halted
    <3>3. \A q \in Runtime : (resource'[q] \in Owned => resource[q] \in Owned) /\ (Runs(q)' => Runs(q))
      BY <1>1, <3>2 DEF Owned, Runs, LocalShape
    <3> QED
      BY <3>1, <3>3, RaisedIs DEF Houses, Brought
  <2> QED
    BY <2>1, <2>2
<1>4. \/ UNCHANGED power
      \/ \E r \in Runtime, level \in {"up", "stalled", "down"} : power' = [power EXCEPT ![r] = level]
  BY DEF LocalEnvironment, RuntimeChanges, ContainerDies, PortChanges, TargetCleaned, Lands
<1>5. \A r \in Runtime : power[r] # "missing" => power'[r] # "missing"
  BY <1>1, <1>4 DEF LocalShape
<1> QED
  BY <1>2, <1>3, <1>5, NothingIsBrought DEF HomeShrinks

(* What an operation under the supervisor does to the home of its          *)
(* container.                                                              *)
LEMMA OperationAtHome ==
    ASSUME LocalInv, Home, OperationStep(Supervised), Remember, NEW r \in Runtime \cup {NoReceipt},
           r = op[Supervised].runtime
    PROVE  /\ OneHome' /\ UNCHANGED power
           /\ r \in Runtime /\ OwnedIn(r) => OwnedIn(r)'
           /\ op[Supervised].at # "bringing" /\ op[Supervised].at # "writing" => HomeShrinks
<1> DEFINE x == op[Supervised]
<1>0. LocalShape /\ Supervised \in Operation /\ OneHome /\ OpHome
  BY MachineAssumption DEF LocalInv, Home
<1>1. x.at # "idle" /\ OpOK(Supervised)
  BY <1>0, OperationMoves DEF LocalInv
<1>2. UNCHANGED power
  BY DEF OperationStep, SelectStart, Inspect, Bring, Verify, Await, WriteReceipt, Clean, Remove,
     SelectStop, Stop, Check, RemoveReceipt, Killed, HaltThen
<1>3. CASE x.at = "bringing"
  <2>1. Bring(Supervised) \/ Killed(Supervised)
    BY <1>3 DEF OperationStep, SelectStart, Inspect, Verify, Await, WriteReceipt, Clean, Remove,
       SelectStop, Stop, Check, RemoveReceipt
  <2>2. r \in Runtime /\ UNCHANGED receipt
    BY <1>1, <1>3, <2>1 DEF Bring, Killed, OpOK
  <2>3. OwnedIn(r) /\ power[r] # "missing" /\ Wanted \in {"auto", r}
    BY <1>0, <1>3, <2>2 DEF OpHome, StartAt
  <2>4. \A q \in Runtime : q # r => resource'[q] = resource[q]
    BY <1>0, <2>1 DEF Bring, Killed, Give, LocalShape
  <2>5. late' = late \/ late'.runtime = r
    BY <1>3, <2>1 DEF Bring, Killed, LeftBehind
  <2>6. \A q \in Runtime : q # r /\ Houses(q)' => Houses(q)
    BY <2>4, <2>5 DEF Houses
  <2>7. OwnedIn(r)'
    BY <2>3, <2>6 DEF OwnedIn
  <2>8. receipt # NoReceipt => receipt = r
    BY <1>1, <1>3 DEF OpOK, StartAt
  <2>9. OneHome'
    BY <1>2, <2>2, <2>3, <2>7, <2>8 DEF OneHome, OwnedIn
  <2> QED
    BY <1>2, <1>3, <2>2, <2>7, <2>9
<1>4. CASE WriteReceipt(Supervised)
  <2>1. /\ x.at = "writing" /\ r \in Runtime /\ receipt' \in {r, receipt} /\ UNCHANGED <<resource, late>>
    BY <1>1, <1>4 DEF WriteReceipt, OpOK
  <2>2. OwnedIn(r) /\ OwnedIn(r)'
    BY <1>0, <2>1 DEF OpHome, StartAt, OwnedIn, Houses
  <2>3. OneHome'
    BY <1>0, <1>2, <2>1, <2>2 DEF OneHome, OwnedIn, Houses
  <2> QED
    BY <1>2, <2>1, <2>2, <2>3
<1>5. CASE x.at # "bringing" /\ ~WriteReceipt(Supervised)
  <2>1. ~Bring(Supervised)
    BY <1>5 DEF Bring
  <2>2. receipt' \in {receipt, NoReceipt}
    BY <1>5, <2>1 DEF OperationStep, SelectStart, Inspect, Verify, Await, Clean,
       Remove, SelectStop, Stop, Check, RemoveReceipt, Killed, HaltThen
  <2>3. \/ UNCHANGED resource
        \/ \E q \in Runtime \cup {NoReceipt}, end \in {"absent", "stopped"} :
              resource[q] \in Owned /\ resource' = [resource EXCEPT ![q] = end]
    BY <1>5, <2>1 DEF OperationStep, SelectStart, Inspect, Verify, Await, Clean, Halted, Runs, Give, Owned,
       Remove, SelectStop, Stop, Check, RemoveReceipt, Killed, HaltThen
  <2>4. late' = late \/ late'.command \in {"halt", "remove"}
    <3>1. \A command \in {"halt", "remove"} : \A q : LeftBehind(command, q) =>
             late' = late \/ late'.command \in {"halt", "remove"}
      BY DEF LeftBehind
    <3>2. CASE Killed(Supervised)
      <4>1. UNCHANGED late \/ \E command \in {"halt", "remove"}, q \in Runtime \cup {NoReceipt} :
                                 LeftBehind(command, q)
        BY <1>5, <3>2 DEF Killed
      <4> QED
        BY <3>1, <4>1
    <3>3. CASE ~Killed(Supervised)
      <4>1. UNCHANGED late \/ \E command \in {"halt", "remove"}, q \in Runtime \cup {NoReceipt} :
                                 LeftBehind(command, q)
        BY <1>5, <2>1, <3>3 DEF OperationStep, SelectStart, Inspect, Verify, Await, Clean,
           Remove, SelectStop, Stop, Check, RemoveReceipt, HaltThen
      <4> QED
        BY <3>1, <4>1
    <3> QED
      BY <3>2, <3>3
  <2>5. \A q \in Runtime : (resource'[q] \in Owned => resource[q] \in Owned) /\ (Runs(q)' => Runs(q))
    BY <1>0, <2>3 DEF Runs, Owned, LocalShape
  <2>6. \A q \in Runtime : (Houses(q)' => Houses(q)) /\ (Brought(q)' => Brought(q))
    BY <2>4, <2>5, RaisedIs DEF Houses, Brought
  <2>7. HomeShrinks
    BY <1>2, <2>2, <2>6, NothingIsBrought DEF HomeShrinks
  <2> QED
    BY <1>0, <1>2, <2>7, HomeIsKept
<1> QED
  BY <1>3, <1>4, <1>5

LEMMA OperationKeepsHome ==
    ASSUME LocalInv, Home, OperationStep(Supervised), Remember
    PROVE  /\ Home'
           /\ op[Supervised].at # "idle"
           /\ op'[Supervised].at # "idle" => op'[Supervised].kind = op[Supervised].kind
<1> DEFINE x == op[Supervised]
           y == op'[Supervised]
<1>0. /\ LocalShape /\ OneHome /\ OpHome /\ Supervised \in Operation /\ x \in OpRecord
      /\ OpOK(Supervised) /\ RunsOK
  BY MachineAssumption DEF LocalInv, Home, LocalShape
<1>1. /\ x.at # "idle" /\ \A p \in Operation : p # Supervised => op'[p] = op[p]
      /\ y = Unbegun \/ (SameOrder(x, y) /\ Onwards(x, y))
  BY <1>0, OperationMoves
<1>2. PICK r \in Runtime \cup {NoReceipt} : r = x.runtime
  BY <1>0 DEF OpRecord
<1>3. /\ OneHome' /\ UNCHANGED power
      /\ r \in Runtime /\ OwnedIn(r) => OwnedIn(r)'
      /\ x.at # "bringing" /\ x.at # "writing" => HomeShrinks
  BY <1>2, OperationAtHome
<1>4. \A p \in Operation \ {Supervised} : op'[p].at = "idle"
  BY <1>0, <1>1 DEF OpHome
<1>5. CASE y = Unbegun
  <2>1. y.at = "idle"
    BY <1>5 DEF Unbegun
  <2>2. OpHome'
    BY <1>4, <2>1 DEF OpHome, StartAt, StopAt
  <2> QED
    BY <1>1, <1>3, <2>1, <2>2 DEF Home
<1>6. CASE SameOrder(x, y) /\ Onwards(x, y)
  <2>0. x.prefer = Wanted /\ y.prefer = Wanted /\ y.kind = x.kind
    BY <1>0, <1>1, <1>6 DEF OpHome, SameOrder
  <2>1. CASE x.at = "selecting" /\ x.kind = "start" /\ y.at = "inspecting"
             /\ y.runtime \in StartRuntimes(x.prefer)
    <3>1. NothingOwned /\ HomeShrinks
      BY <1>0, <1>3, <2>1 DEF OpHome
    <3>2. NothingOwned'
      BY <3>1, HomeIsKept
    <3>3. PICK q \in Runtime : q = y.runtime
      BY <2>1 DEF StartRuntimes, Up, Holding
    <3>4. q \in Up /\ Wanted \in {"auto", q}
      BY <2>0, <2>1, <3>1, <3>3 DEF StartRuntimes, NothingOwned, Houses, Up, Holding
    <3>5. power'[q] # "missing" /\ OwnedIn(q)'
      BY <1>3, <3>2, <3>4 DEF Up, NothingOwned, OwnedIn
    <3>6. OpHome'
      BY <1>4, <2>0, <2>1, <3>3, <3>4, <3>5 DEF OpHome, StopAt, StartAt, OwnedIn
    <3> QED
      BY <1>1, <1>3, <2>0, <3>6 DEF Home
  <2>2. CASE x.at = "selecting" /\ x.kind = "stop" /\ y.at = "stopping"
             /\ IF receipt # NoReceipt THEN y.runtime = receipt
                ELSE y.runtime \in Holding(Discovered(x.prefer))
    <3>1. HomeShrinks
      BY <1>3, <2>2
    <3>2. PICK q \in Runtime : q = y.runtime
      BY <1>0, <2>2 DEF Holding, Discovered, Up, LocalShape
    <3>3. OwnedIn(q)
      BY <1>0, <2>2, <3>2 DEF OneHome, OwnedIn, Houses, Holding
    <3>4. OwnedIn(q)'
      BY <3>1, <3>3, HomeIsKept
    <3>5. OpHome'
      BY <1>4, <2>0, <2>2, <3>2, <3>4 DEF OpHome, StopAt, StartAt, OwnedIn
    <3> QED
      BY <1>1, <1>3, <2>0, <3>5 DEF Home
  <2>3. CASE /\ y.runtime = x.runtime /\ x.at \in StartAt \cup {"cleaning"}
             /\ y.at \in {"bringing", "verifying", "readying", "writing", "cleaning", "removing"}
    <3>1. r \in Runtime
      BY <1>0, <1>2, <2>3 DEF OpOK, StartAt
    <3>2. /\ x.kind = "start" /\ OwnedIn(r) /\ power[r] # "missing" /\ Wanted \in {"auto", r}
      BY <1>0, <1>2, <2>3, <3>1 DEF OpHome
    <3>3. OwnedIn(r)' /\ power'[r] # "missing"
      BY <1>3, <3>1, <3>2
    <3>4. OpHome'
      BY <1>2, <1>4, <2>0, <2>3, <3>2, <3>3 DEF OpHome, StopAt, OwnedIn
    <3> QED
      BY <1>1, <1>3, <2>0, <3>4 DEF Home
  <2>4. CASE /\ y.runtime = x.runtime /\ x.at \in {"stopping", "checking"}
             /\ \/ y.at = "checking"
                \/ y.at = "forgetting" /\ resource[r] \in {"absent", "stopped"} /\ UNCHANGED resource
    <3>1. r \in Runtime
      BY <1>0, <1>2, <2>4 DEF OpOK
    <3>2. x.kind = "stop" /\ OwnedIn(r)
      BY <1>0, <1>2, <2>4 DEF OpHome, StopAt
    <3>3. OwnedIn(r)'
      BY <1>3, <3>1, <3>2
    <3>4. y.at = "forgetting" => NothingBrought'
      <4>1. resource[r] \in {"absent", "stopped"} => NothingBrought
        BY <3>1, <3>2 DEF OwnedIn, Houses, NothingBrought, Brought, Runs, Owned
      <4> QED
        BY <1>3, <2>4, <4>1, HomeIsKept
    <3>5. OpHome'
      BY <1>2, <1>4, <2>0, <2>4, <3>2, <3>3, <3>4 DEF OpHome, StartAt, StopAt, OwnedIn
    <3> QED
      BY <1>1, <1>3, <2>0, <3>5 DEF Home
  <2> QED
    BY <1>2, <1>6, <2>1, <2>2, <2>3, <2>4 DEF Onwards
<1> QED
  BY <1>1, <1>5, <1>6

(* A stop of the supervisor that succeeds has found the service down.      *)
LEMMA SupervisedStopIsTrue ==
    ASSUME LocalInv, Home, OperationStep(Supervised), Remember, op[Supervised].kind = "stop",
           verdict' \in {"ready", "stopped"}
    PROVE  NothingBrought'
<1> DEFINE x == op[Supervised]
<1>0. LocalShape /\ OneHome /\ OpHome /\ Supervised \in Operation /\ RunsOK
  BY MachineAssumption DEF LocalInv, Home
<1>1. verdict' \notin {"nothing", "failed"}
  BY Zenon
<1> DEFINE Ends == NothingBrought => NothingBrought'
<1>2. x.at # "bringing" /\ x.at # "writing" => Ends
  <2>1. PICK r \in Runtime \cup {NoReceipt} : r = x.runtime
    BY <1>0 DEF LocalShape, OpRecord
  <2> QED
    BY <2>1, OperationAtHome, HomeIsKept
<1>3. CASE WriteReceipt(Supervised)
  <2>1. x.at \in StartAt
    BY <1>3 DEF WriteReceipt, StartAt
  <2> QED
    BY <1>0, <2>1 DEF OpHome
<1>4. CASE RemoveReceipt(Supervised)
  BY <1>0, <1>2, <1>4 DEF OpHome, RemoveReceipt
<1>5. CASE SelectStop(Supervised)
  <2>1. x.at = "selecting" /\ x.prefer = Wanted /\ UNCHANGED resource
    BY <1>0, <1>5 DEF SelectStop, OpHome
  <2>2. ~Say(Supervised, "failed") /\ \A q, there : ~Chosen(Supervised, q, there)
    BY <1>1, Zenon DEF Say, Chosen, Onward
  <2> DEFINE found == Discovered(Wanted)
  <2>3. found # {} /\ ~Ambiguous(found) /\ Holding(found) = {}
    BY <1>5, <2>1, <2>2, Zenon DEF SelectStop
  <2>4. \A q \in Runtime : ~Runs(q)
    <3> SUFFICES ASSUME NEW q \in Runtime, Runs(q) PROVE FALSE
      OBVIOUS
    <3>1. CASE Wanted = "auto"
      BY <2>3, <3>1, StopLooksEverywhere
    <3>2. CASE Wanted # "auto"
      <4>1. Wanted = q
        BY <1>0, <3>2 DEF OneHome, Houses, Runs, Owned
      <4>2. found = {q}
        BY <2>3, <3>2, <4>1 DEF Discovered
      <4> QED
        BY <2>3, <4>2 DEF Holding, Runs, Owned
    <3> QED
      BY <3>1, <3>2
  <2> QED
    BY <1>2, <2>1, <2>4 DEF NothingBrought, Brought
<1> QED
  BY <1>0, <1>1, <1>3, <1>4, <1>5, WhoSaysSo

-----------------------------------------------------------------------------
(* The machine.                                                            *)

LEMMA MachineInitInv == MachineInit => MachineInv
<1> SUFFICES ASSUME MachineInit PROVE MachineInv
  OBVIOUS
<1>1. DevInv /\ LocalInv
  BY DevInitInv, LocalInitInv DEF MachineInit
<1>2. /\ op = [o \in Operation |-> Unbegun] /\ Unbegun.at = "idle"
      /\ receipt = NoReceipt /\ resource \in [Runtime -> {"absent", "foreign"}]
      /\ late.command # "bring"
  BY LateCommands DEF MachineInit, LocalInit, Unbegun
<1>3. NothingOwned /\ OneHome /\ \A o \in Operation : op[o].at = "idle"
  BY <1>2 DEF NothingOwned, OneHome, Houses, Owned
<1>4. Supervised \in Operation /\ Managed \in Service
  BY MachineAssumption, SupervisorAssumption
<1>5. OpHome /\ OpCommanded
  BY <1>3, <1>4 DEF OpHome, OpCommanded, StartAt, StopAt
<1>6. Held
  BY <1>3, <1>4 DEF Held, MachineInit, DevInit
<1> QED
  BY <1>1, <1>3, <1>5, <1>6 DEF MachineInv, SupervisedInv, Home

(* Every step is one of the supervisor's and one of the services', or      *)
(* leaves them alone.                                                      *)
LEMMA NothingToRemember ==
    ASSUME LocalInv, UNCHANGED <<power, resource, occupied, late, receipt, lock, op, verdict>>, Remember
    PROVE  UNCHANGED localVars
<1>1. \A o \in Operation : ~SaysNow(o, "ready")
  BY DEF SaysNow
<1>2. \A r : r \in reported' <=> r \in Runtime /\ resource[r] # "absent" /\ r \in reported
  BY <1>1 DEF Remember
<1>3. \A r \in reported : r \in Runtime /\ resource[r] # "absent"
  BY DEF LocalInv, LocalShape, Owned
<1>4. reported' = reported
  BY <1>2, <1>3
<1>5. \A r : r \in raised' <=> r \in Runtime /\ resource[r] = "running" /\ r \in raised
  BY DEF Remember, Runs
<1>6. \A r \in raised : r \in Runtime /\ resource[r] = "running"
  BY DEF LocalInv, LocalShape, Runs
<1>7. raised' = raised
  BY <1>5, <1>6
<1> QED
  BY <1>4, <1>7 DEF localVars

LEMMA MachineSteps ==
    ASSUME LocalInv, [MachineNext]_machineVars
    PROVE  [DevNext]_devVars /\ [LocalNext]_localVars
<1>0. Supervised \in Operation /\ Command \in Child
  BY MachineAssumption, ChildIs
<1>1. CASE UNCHANGED machineVars
  BY <1>1 DEF machineVars
<1>2. CASE LocalNext /\ UNCHANGED devVars
  BY <1>2
<1>3. CASE SupervisedStep /\ Remember
  <2>1. CASE Supervise
    <3>1. \/ Killed(Supervised)
          \/ UNCHANGED <<power, resource, occupied, late, receipt, lock, op, verdict>>
      BY <2>1 DEF Supervise
    <3>2. [LocalNext]_localVars
      BY <1>0, <1>3, <3>1, NothingToRemember DEF LocalNext, OperationStep
    <3> QED
      BY <2>1, <3>2 DEF Supervise, DevNext
  <2>2. CASE CommandBegins
    <3>1. Begin(Supervised)
      BY <2>2, MachineAssumption DEF CommandBegins, Begin
    <3> QED
      BY <1>0, <1>3, <2>2, <3>1 DEF CommandBegins, LocalNext
  <2>3. CASE CommandRuns
    BY <1>0, <1>3, <2>3 DEF CommandRuns, LocalNext, DevNext
  <2>4. CASE OtherChildExits
    BY <1>3, <2>4, NothingToRemember DEF OtherChildExits, DevNext
  <2>5. CASE /\ Interrupt \/ RendererEnds
             /\ UNCHANGED <<power, resource, occupied, late, receipt, lock, op, verdict, begun>>
    BY <1>3, <2>5, NothingToRemember DEF DevNext
  <2>6. CASE LocalEnvironment /\ UNCHANGED devVars
    BY <1>3, <2>6 DEF LocalNext
  <2> QED
    BY <1>3, <2>1, <2>2, <2>3, <2>4, <2>5, <2>6 DEF SupervisedStep
<1> QED
  BY <1>1, <1>2, <1>3 DEF MachineNext

(* The supervisor goes on from a command of the service only when the      *)
(* command is over or given up.                                            *)
LEMMA CommandIsLeft ==
    ASSUME Commanded, SupervisorStep, child \in [Child -> Group]
    PROVE  child'[Command].leader # "running"
<1>1. \/ AwaitStart \/ AwaitStop
  BY DEF Commanded, SupervisorStep, StartService, RunLifecycle, StartLifecycle, AwaitLifecycle,
     RunProcesses, SpawnProcess, WaitForReadiness, Watch, Reap, StopServices, StopService, Return
<1>2. \/ child' = [child EXCEPT ![Command] = Reaped]
      \/ child' = [child EXCEPT ![Command] = GivenUp]
  BY <1>1 DEF AwaitStart, AwaitStop, Finished, Terminated
<1> QED
  BY <1>2, ChildIs, GroupValues

(* The supervisor itself touches no container; only the start command of   *)
(* the service, which it has killed, may have left something behind.       *)
NothingTouched ==
    /\ UNCHANGED <<resource, receipt>> /\ (NothingBrought => NothingBrought')
    /\ service[Managed] = "down" => UNCHANGED late

LEMMA HeldByStart ==
    ASSUME DevInv, Held, StartService, begun' = (begun /\ ~Spawns), NothingTouched
    PROVE  Held'
<1>0. /\ Managed \in Service /\ Managed \in Startable /\ Managed \in Nat /\ at \in Nat
      /\ DevShape /\ CommandOver
  BY DevParts, MachineAssumption, SupervisorAssumption DEF Service
<1>1. service[Managed] = "down" /\ NothingOwned => NothingOwned'
  BY DEF NothingTouched, NothingOwned, Houses
<1>2. stage = "services" /\ at \in Service
  BY DEF StartService
<1>3. CASE stage' = "services" /\ at' = at + 1 /\ at # Managed /\ UNCHANGED service
  BY <1>0, <1>1, <1>2, <1>3 DEF Held, NothingTouched
<1>4. CASE stage' \notin {"services", "starting", "ending"} /\ UNCHANGED service
  BY <1>1, <1>4 DEF Held, NothingTouched
<1>5. CASE /\ stage' = "starting" /\ at' = at /\ service' = [service EXCEPT ![at] = "touched"]
           /\ child' = [child EXCEPT ![Command] = Spawned]
  <2>1. Spawns
    <3>1. child[Command].leader # "running"
      BY <1>0, <1>2 DEF CommandOver, Waiting, CutShort
    <3>2. child'[Command].leader = "running"
      BY <1>0, <1>5, ChildIs, GroupValues DEF DevShape
    <3> QED
      BY <3>1, <3>2 DEF Spawns
  <2>2. ~begun'
    <3>1. (begun /\ ~Spawns) = FALSE
      BY <2>1, Zenon
    <3>2. begun' = FALSE
      BY <3>1, Zenon
    <3> QED
      BY <3>2, Zenon
  <2>3. service'[at] = "touched" /\ (at # Managed => service'[Managed] = service[Managed])
    BY <1>0, <1>2, <1>5 DEF DevShape
  <2>4. at = Managed => NothingOwned
    BY <1>0, <1>2 DEF Held, NothingTouched
  <2> QED
    BY <1>0, <1>1, <1>2, <1>5, <2>2, <2>3, <2>4 DEF Held, NothingTouched
<1> QED
  BY <1>0, <1>3, <1>4, <1>5 DEF StartService, Abandon, Leaves, Fails, StopTopology, Goto

LEMMA HeldByAwaitStart ==
    ASSUME DevInv, Held, AwaitStart, NothingTouched
    PROVE  Held'
<1>0. Managed \in Nat /\ at \in Nat
  BY DevParts, MachineAssumption, SupervisorAssumption DEF Service
<1>1. service[Managed] = "down" /\ NothingOwned => NothingOwned'
  BY DEF NothingTouched, NothingOwned, Houses
<1>2. stage = "starting" /\ UNCHANGED service
  BY DEF AwaitStart
<1>3. \/ stage' = "services" /\ at' = at + 1
      \/ stage' \in {"returned", "reaping"}
  BY DEF AwaitStart, Fails, Terminated, StopTopology, Goto
<1> QED
  BY <1>0, <1>1, <1>2, <1>3 DEF Held, NothingTouched

LEMMA HeldByStops ==
    ASSUME DevInv, Held, StopService \/ AwaitStop, NothingTouched
    PROVE  Held'
<1>0. /\ Managed \in Service /\ Managed \in Nat /\ at \in Nat /\ DevShape
      /\ stage \in {"starting", "ending"} => at \in Service
  BY DevParts, MachineAssumption, SupervisorAssumption DEF Service
<1>1. service[Managed] = "down" /\ NothingOwned => NothingOwned'
  BY DEF NothingTouched, NothingOwned, Houses
<1>2. CASE StopService
  <2>1. stage = "stopping" /\ at \in Service
    BY <1>2 DEF StopService
  <2>2. CASE /\ child' = [child EXCEPT ![Command] = Spawned] /\ stage' = "ending" /\ at' = at
             /\ service' = [service EXCEPT ![at] = "stopping"]
    <3>1. child'[Command].leader = "running"
      BY <1>0, <2>2, ChildIs, GroupValues DEF DevShape
    <3>2. service'[at] = "stopping" /\ (at # Managed => service'[Managed] = service[Managed])
      BY <1>0, <2>1, <2>2 DEF DevShape
    <3> QED
      BY <1>1, <2>2, <3>1, <3>2 DEF Held, NothingTouched
  <2>3. CASE /\ stage' = "stopping"
             /\ service' = [service EXCEPT ![at] = "unstopped"] \/ UNCHANGED service
    <3>1. service'[Managed] \in {service[Managed], "unstopped"}
      BY <1>0, <2>1, <2>3 DEF DevShape
    <3> QED
      BY <1>1, <2>3, <3>1 DEF Held, NothingTouched
  <2> QED
    BY <1>2, <2>1, <2>2, <2>3 DEF StopService, Goto
<1>3. CASE AwaitStop
  <2>1. stage = "ending" /\ stage' = "stopping"
    BY <1>3 DEF AwaitStop, Goto
  <2>2. \/ /\ service' = [service EXCEPT ![at] = "stopped"]
           /\ child[Command].leader = "succeeded"
        \/ service' = [service EXCEPT ![at] = "unstopped"]
    BY <1>3 DEF AwaitStop, Finished
  <2>3. \/ service'[Managed] \in {service[Managed], "unstopped"}
        \/ at = Managed /\ service'[Managed] = "stopped" /\ child[Command].leader = "succeeded"
    BY <1>0, <2>1, <2>2 DEF DevShape
  <2> QED
    BY <1>1, <2>1, <2>3 DEF Held, NothingTouched
<1> QED
  BY <1>2, <1>3

LEMMA SuperviseKeepsHeld ==
    ASSUME DevInv, Held, SupervisorStep, begun' = (begun /\ ~Spawns), NothingTouched
    PROVE  Held'
<1>1. service[Managed] = "down" /\ NothingOwned => NothingOwned'
  BY DEF NothingTouched, NothingOwned, Houses
<1>2. CASE StartService \/ AwaitStart \/ StopService \/ AwaitStop
  BY <1>2, HeldByStart, HeldByAwaitStart, HeldByStops
<1>3. CASE RunLifecycle \/ StartLifecycle \/ AwaitLifecycle \/ RunProcesses \/ SpawnProcess
           \/ WaitForReadiness \/ Watch \/ Reap \/ StopServices \/ Return
  <2>1. stage' \notin {"services", "starting", "ending"} /\ UNCHANGED service
    BY <1>3 DEF RunLifecycle, StartLifecycle, AwaitLifecycle, RunProcesses, SpawnProcess,
       WaitForReadiness, Watch, Reap, StopServices, Return, Abandon, Leaves, Fails, StopTopology, Goto, Terminated
  <2> QED
    BY <1>1, <2>1 DEF Held, NothingTouched
<1> QED
  BY <1>2, <1>3 DEF SupervisorStep

(* The supervisor's steps.                                                 *)
LEMMA SuperviseKeepsInv ==
    ASSUME DevInv, LocalInv, SupervisedInv, Supervise, Remember
    PROVE  SupervisedInv'
<1>0. /\ Home /\ OpCommanded /\ Held /\ Supervised \in Operation
      /\ op \in [Operation -> OpRecord] /\ child \in [Child -> Group]
  BY MachineAssumption DEF SupervisedInv, LocalInv, LocalShape, DevInv, DevShape
<1>1. SupervisorStep /\ begun' = (begun /\ ~Spawns)
  BY DEF Supervise
<1>2. CASE /\ Commanded /\ op[Supervised].at # "idle" /\ Killed(Supervised)
  <2>1. Home'
    BY <1>0, <1>2, OperationKeepsHome DEF OperationStep
  <2>2. op'[Supervised].at = "idle"
    BY <1>0, <1>2 DEF Killed, Say, Unbegun
  <2>3. OpCommanded'
    BY <2>2 DEF OpCommanded
  <2>4. UNCHANGED <<resource, receipt>>
    BY <1>2 DEF Killed
  <2>5. NothingBrought => NothingBrought'
    BY <2>4, RaisedIs DEF NothingBrought, Brought, Runs
  <2>6. service[Managed] # "down"
    BY <1>0, <1>2 DEF Commanded, Held
  <2>7. Held'
    BY <1>0, <1>1, <2>4, <2>5, <2>6, SuperviseKeepsHeld DEF NothingTouched
  <2> QED
    BY <2>1, <2>3, <2>7 DEF SupervisedInv
<1>3. CASE /\ ~(Commanded /\ op[Supervised].at # "idle" /\ child'[Command].leader # "running")
           /\ UNCHANGED <<power, resource, occupied, late, receipt, lock, op, verdict>>
  <2>1. UNCHANGED localVars
    BY <1>3, NothingToRemember
  <2>2. Home'
    BY <1>0, <2>1 DEF localVars, Home, OneHome, OpHome, OwnedIn, NothingOwned, Houses,
       NothingBrought, Brought, Runs
  <2>3. op'[Supervised].at = "idle"
    BY <1>0, <1>1, <1>3, CommandIsLeft DEF OpCommanded
  <2>4. OpCommanded'
    BY <2>3 DEF OpCommanded
  <2>5. NothingTouched
    BY <2>1 DEF localVars, NothingTouched, NothingBrought, Brought, Runs
  <2>6. Held'
    BY <1>0, <1>1, <2>5, SuperviseKeepsHeld
  <2> QED
    BY <2>2, <2>4, <2>6 DEF SupervisedInv
<1> QED
  BY <1>2, <1>3 DEF Supervise

(* The command begins and runs.                                            *)
LEMMA CommandBeginsKeepsInv ==
    ASSUME DevInv, LocalInv, SupervisedInv, CommandBegins, Remember
    PROVE  SupervisedInv'
<1>0. /\ Home /\ OpCommanded /\ Held /\ Supervised \in Operation
      /\ op \in [Operation -> OpRecord]
  BY MachineAssumption DEF SupervisedInv, LocalInv, LocalShape
<1> DEFINE kind == IF stage = "starting" THEN "start" ELSE "stop"
           state == [Unbegun EXCEPT !.at = "selecting", !.kind = kind, !.prefer = Wanted]
<1>1. /\ Commanded /\ ~begun /\ begun' = TRUE /\ lock = Nobody
      /\ UNCHANGED <<power, resource, late, receipt, stage, at, child, service>>
  BY DEF CommandBegins, Acquire, devVars
<1>2. op' = [op EXCEPT ![Supervised] = state]
  BY DEF CommandBegins, Acquire, Onward
<1>3. /\ state.at = "selecting" /\ state.kind = kind /\ state.prefer = Wanted
  BY DEF Unbegun
<1> HIDE DEF state
<1>4. op'[Supervised] = state /\ \A p \in Operation : p # Supervised => op'[p].at = "idle"
  BY <1>0, <1>1, <1>2, OthersIdle
<1>5. kind = "start" => NothingOwned
  BY <1>0, <1>1 DEF Held, Commanded
<1>6. (NothingOwned => NothingOwned') /\ (NothingBrought => NothingBrought')
  BY <1>1, RaisedIs DEF NothingOwned, Houses, NothingBrought, Brought, Runs
<1>7. OpHome'
  BY <1>3, <1>4, <1>5, <1>6 DEF OpHome, StartAt, StopAt
<1>8. OneHome'
  BY <1>0, <1>1 DEF Home, OneHome, OwnedIn, Houses
<1>9. OpCommanded'
  BY <1>1, <1>3, <1>4 DEF OpCommanded, Commanded
<1>10. Held'
  BY <1>0, <1>1, <1>6 DEF Held
<1> QED
  BY <1>7, <1>8, <1>9, <1>10 DEF SupervisedInv, Home

LEMMA CommandRunsKeepsInv ==
    ASSUME DevInv, LocalInv, SupervisedInv, CommandRuns, Remember
    PROVE  SupervisedInv'
<1>0. /\ Home /\ OpCommanded /\ Held /\ Supervised \in Operation
      /\ op[Supervised] \in OpRecord /\ child \in [Child -> Group]
  BY MachineAssumption DEF SupervisedInv, LocalInv, LocalShape, DevInv, DevShape
<1>1. Commanded /\ begun /\ OperationStep(Supervised) /\ UNCHANGED begun
  BY DEF CommandRuns
<1>2. /\ Home' /\ op[Supervised].at # "idle"
      /\ op'[Supervised].at # "idle" => op'[Supervised].kind = op[Supervised].kind
  BY <1>0, <1>1, OperationKeepsHome
<1>3. op[Supervised].kind = IF stage = "starting" THEN "start" ELSE "stop"
  BY <1>0, <1>2 DEF OpCommanded
<1>4. UNCHANGED <<stage, at, service>>
  BY DEF CommandRuns, Exit, devVars
<1>5. op'[Supervised].at # "idle" => UNCHANGED child
  BY DEF CommandRuns, devVars
<1>6. OpCommanded'
  BY <1>1, <1>2, <1>3, <1>4, <1>5 DEF OpCommanded, Commanded
<1>7. stage = "ending" /\ child'[Command].leader = "succeeded" => NothingBrought'
  <2> SUFFICES ASSUME stage = "ending", child'[Command].leader = "succeeded"
               PROVE  NothingBrought'
    OBVIOUS
  <2>1. child[Command].leader = "running"
    BY <1>1 DEF Commanded
  <2>2. op'[Supervised].at = "idle"
    BY <1>5, <2>1
  <2>3. verdict' \in {"ready", "stopped"}
    BY <2>2 DEF CommandRuns
  <2> QED
    BY <1>0, <1>1, <1>3, <2>3, SupervisedStopIsTrue
<1>8. /\ at = Managed
      /\ \/ stage = "starting" /\ service[Managed] = "touched"
         \/ stage = "ending" /\ service[Managed] = "stopping"
  BY <1>0, <1>1 DEF Commanded, Held
<1>9. Held'
  <2>1. service'[Managed] # "down" /\ service'[Managed] # "stopped"
    BY <1>4, <1>8
  <2>2. Managed \in Nat
    BY MachineAssumption, SupervisorAssumption DEF Service
  <2> QED
    BY <1>1, <1>4, <1>7, <1>8, <2>1, <2>2 DEF Held
<1> QED
  BY <1>2, <1>6, <1>9 DEF SupervisedInv

(* Steps of others.                                                        *)
LEMMA OthersKeepInv ==
    ASSUME DevInv, LocalInv, SupervisedInv, UNCHANGED begun,
           Remember,
           \/ OtherChildExits
           \/ (Interrupt \/ RendererEnds) /\ UNCHANGED <<power, resource, late, receipt, op>>
           \/ LocalEnvironment /\ UNCHANGED devVars
    PROVE  SupervisedInv'
<1>0. /\ Home /\ OpCommanded /\ Held /\ child \in [Child -> Group]
  BY DEF SupervisedInv, DevInv, DevShape
<1>1. HomeShrinks /\ UNCHANGED op
  <2>1. CASE LocalEnvironment
    BY <2>1, EnvironmentShrinks
  <2>2. CASE UNCHANGED <<power, resource, late, receipt, op>>
    BY <2>2, RaisedIs, NothingIsBrought DEF HomeShrinks, Houses, Brought, Runs
  <2> QED
    BY <2>1, <2>2 DEF OtherChildExits
<1>2. /\ OneHome' /\ (NothingOwned => NothingOwned')
      /\ \A r \in Runtime : OwnedIn(r) => OwnedIn(r)'
      /\ NothingBrought => NothingBrought'
  BY <1>0, <1>1, HomeIsKept DEF Home
<1>3. /\ UNCHANGED <<stage, at, service>>
      /\ Commanded => UNCHANGED <<child[Command]>>
      /\ stage = "ending" /\ at = Managed /\ child'[Command].leader = "succeeded"
            => child[Command].leader = "succeeded"
  <2>1. CASE OtherChildExits
    <3>1. PICK c \in Child : Exit(c) /\ (c = Command => ~Commanded)
      BY <2>1 DEF OtherChildExits
    <3>2. UNCHANGED <<stage, at, service>> /\ child[c].leader = "running"
          /\ \A d \in Child : d # c => child'[d] = child[d]
      BY <1>0, <3>1 DEF Exit
    <3> QED
      BY <3>1, <3>2, ChildIs DEF Commanded
  <2>2. CASE Interrupt \/ RendererEnds \/ UNCHANGED devVars
    BY <2>2 DEF Interrupt, RendererEnds, devVars
  <2> QED
    BY <2>1, <2>2
<1>4. OpHome'
  <2> DEFINE x == op[Supervised]
  <2>1. x.at \in StartAt \cup {"cleaning", "removing"} \cup StopAt => x.runtime \in Runtime
    BY MachineAssumption DEF LocalInv, OpOK, StartAt, StopAt
  <2>2. \A r \in Runtime : power[r] # "missing" => power'[r] # "missing"
    BY <1>1 DEF HomeShrinks
  <2>3. OpHome /\ op' = op
    BY <1>0, <1>1 DEF Home
  <2> QED
    BY <1>2, <2>1, <2>2, <2>3 DEF OpHome
<1>5. OpCommanded'
  BY <1>0, <1>1, <1>3 DEF OpCommanded, Commanded
<1>6. Held'
  BY <1>0, <1>2, <1>3 DEF Held
<1> QED
  BY <1>1, <1>2, <1>4, <1>5, <1>6 DEF SupervisedInv, Home

LEMMA MachineStep ==
    ASSUME MachineInv, [MachineNext]_machineVars
    PROVE  MachineInv'
<1>0. DevInv /\ LocalInv /\ (scene = "supervised" => SupervisedInv) /\ UNCHANGED scene
  BY DEF MachineInv, MachineNext, machineVars
<1>1. DevInv' /\ LocalInv'
  BY <1>0, MachineSteps, DevStep, LocalStep
<1>2. ASSUME scene = "supervised" PROVE SupervisedInv'
  <2>1. CASE SupervisedStep /\ Remember
    <3>1. CASE Supervise
      BY <1>0, <1>2, <2>1, <3>1, SuperviseKeepsInv
    <3>2. CASE CommandBegins
      BY <1>0, <1>2, <2>1, <3>2, CommandBeginsKeepsInv
    <3>3. CASE CommandRuns
      BY <1>0, <1>2, <2>1, <3>3, CommandRunsKeepsInv
    <3>4. CASE OtherChildExits
      BY <1>0, <1>2, <2>1, <3>4, OthersKeepInv DEF OtherChildExits
    <3>5. CASE /\ Interrupt \/ RendererEnds
               /\ UNCHANGED <<power, resource, occupied, late, receipt, lock, op, verdict, begun>>
      BY <1>0, <1>2, <2>1, <3>5, OthersKeepInv
    <3>6. CASE LocalEnvironment /\ UNCHANGED <<devVars, begun>>
      BY <1>0, <1>2, <2>1, <3>6, OthersKeepInv
    <3> QED
      BY <2>1, <3>1, <3>2, <3>3, <3>4, <3>5, <3>6 DEF SupervisedStep
  <2>2. CASE UNCHANGED machineVars
    BY <1>0, <1>2, <2>2 DEF machineVars, devVars, localVars, SupervisedInv, Home, OneHome, OwnedIn,
       Houses, NothingBrought, Brought, OpHome, OpCommanded, Commanded, Held, NothingOwned, Runs
  <2> QED
    BY <1>2, <2>1, <2>2 DEF MachineNext
<1> QED
  BY <1>0, <1>1, <1>2 DEF MachineInv

(* The invariant of the machine, and the two components' for themselves.   *)
THEOREM MachineInvariant == MachineSpec => []MachineInv
<1>1. MachineInit => MachineInv
  BY MachineInitInv
<1>2. MachineInv /\ [MachineNext]_machineVars => MachineInv'
  BY MachineStep
<1> QED
  BY <1>1, <1>2, PTL DEF MachineSpec

(* The supervisor's and the operations' own state keeps its shape, and an  *)
(* operation under the supervisor lasts no longer than its command.        *)
THEOREM MachineTypeCorrect == MachineSpec => []MachineTypeOK
<1>1. MachineInv => MachineTypeOK
  BY SupervisorIsSound, LocalIsSound DEF MachineInv, MachineTypeOK, SupervisedInv, OpCommanded
<1> QED
  BY <1>1, MachineInvariant, PTL

(* Supervisor::run_until leaves nothing behind, takes everything down in   *)
(* order, and of a local service whose stop command succeeded nothing runs *)
(* in either runtime, however far a killed start had brought it, but what a*)
(* command of that start brings up when it takes effect later.             *)
THEOREM ShutdownAlwaysClean == MachineSpec => []ShutdownIsClean
<1>1. MachineInv => ShutdownIsClean
  BY SupervisorIsSound
  DEF MachineInv, ShutdownIsClean, StoppedMeansDown, SupervisedInv, Held, NothingBrought, Brought
<1> QED
  BY <1>1, MachineInvariant, PTL

(* start and stop of a local service: it stays in its runtime while it has *)
(* a receipt, a failed start removes only what it has created, and a stop  *)
(* that says so has found it down, unless a command left behind by a killed*)
(* start has brought it up.                                                *)
THEOREM ServicesAreKept == MachineSpec => ServicesKept
<1>1. MachineInv /\ [MachineNext]_machineVars
         => [LifecycleStaysPut /\ OnlyOwnAttemptRemoved /\ StopIsTrue]_localVars
  BY MachineSteps, ReceiptStaysPut, RemovesOwnAttempt, StopsTruly DEF MachineInv
<1> QED
  BY <1>1, MachineInvariant, PTL DEF MachineSpec, ServicesKept

(* The supervisor for itself: the same of any plan, whatever its commands  *)
(* are.                                                                    *)
THEOREM SupervisorShutsDown == DevSpec => [](NothingLeftBehind /\ StopsInOrder)
<1>1. DevInit => DevInv
  BY DevInitInv
<1>2. DevInv /\ [DevNext]_devVars => DevInv'
  BY DevStep
<1>3. DevInv => NothingLeftBehind /\ StopsInOrder
  BY SupervisorIsSound
<1> QED
  BY <1>1, <1>2, <1>3, PTL DEF DevSpec

(* The local services for themselves, used by any number of terminals.     *)
THEOREM TerminalsKeepServices == LocalSpec => []LocalTypeOK /\ ServicesKept
<1>1. LocalInit => LocalInv
  BY LocalInitInv
<1>2. LocalInv /\ [LocalNext]_localVars => LocalInv'
  BY LocalStep
<1>3. LocalInv => LocalTypeOK
  BY LocalIsSound
<1>4. LocalInv /\ [LocalNext]_localVars
         => [LifecycleStaysPut /\ OnlyOwnAttemptRemoved /\ StopIsTrue]_localVars
  BY ReceiptStaysPut, RemovesOwnAttempt, StopsTruly
<1> QED
  BY <1>1, <1>2, <1>3, <1>4, PTL DEF LocalSpec, ServicesKept
=============================================================================
