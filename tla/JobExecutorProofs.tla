------------------------- MODULE JobExecutorProofs --------------------------
(***************************************************************************)
(* Proofs about JobExecutor, for every set of jobs and workers and every   *)
(* bound.                                                                  *)
(*                                                                         *)
(* That no two handlers overlap is not inductive: it follows from the      *)
(* times.  A worker that is before or in its handler still holds a lease   *)
(* and a lock that end ExecutionLease after its reading, and the true time *)
(* is short of that (LeaseOutlivesHandler); readings never run ahead of    *)
(* the clock, so no claim, recovery or acquisition of another worker takes *)
(* them away (Spared).  WorkerOK says the first, worker by worker, and     *)
(* with LeasesApart it makes the inductive invariant ExecInv.              *)
(***************************************************************************)
EXTENDS JobExecutor, JobStoreProofs

(* The steps at which an invocation holds the job it executes.             *)
InHand == {"preflight", "start", "handler"}

(* The steps at which it presents a lease.                                 *)
Leased == InHand \cup {"busy", "settle", "release", "retry"}

(* How far the clock can be from the reading an invocation acts on.        *)
InTime(w) ==
    /\ worker[w].now <= clock
    /\ worker[w].pc \in {"claim", "preflight", "start"} =>
           clock <= worker[w].now + StartDelay
    /\ Is(w, "handler") =>
           /\ worker[w].start <= worker[w].now + StartDelay
           /\ clock <= worker[w].start + ExecutionTimeout

(* The record runs under the invocation's lease, and for as long as taken. *)
HoldsJob(w) ==
    /\ LeaseHeld(worker[w].job, worker[w].lease)
    /\ jobs[worker[w].job].lease_expires_at = worker[w].now + ExecutionLease

(* The overlap lock of its job, if there is one, is the invocation's.      *)
HoldsLock(w) ==
    OverlapKeyHeldBy(w) # NoOverlapKey =>
        locks[OverlapKeyHeldBy(w)] =
            [owner |-> worker[w].lease,
             expires_at |-> worker[w].now + ExecutionLease]

WorkerOK(w) ==
    /\ worker[w] \in WorkerState
    /\ worker[w].lease <= minted
    /\ worker[w].pc \notin {"idle", "ack"} =>
           worker[w].job \in Job /\ jobs[worker[w].job].status # "absent"
    /\ worker[w].pc \in Leased => worker[w].lease # NoLease
    /\ InTime(w)
    /\ worker[w].pc \in InHand => HoldsJob(w)
    /\ worker[w].pc \in {"start", "handler"} => HoldsLock(w)

(* A lease is in the hands of one invocation.                              *)
LeasesApart ==
    \A u, v \in Worker :
        worker[u].lease = worker[v].lease /\ worker[u].lease # NoLease => u = v

(* A record that is stored has been written once at least.                 *)
RevisionsOK ==
    \A j \in Job : jobs[j].status # "absent" => jobs[j].revision # 0

ExecInv ==
    /\ StoreInv
    /\ RevisionsOK
    /\ clock \in 0..Horizon
    /\ crashes \in 0..MaxCrashes
    /\ worker \in [Worker -> WorkerState]
    /\ \A w \in Worker : WorkerOK(w)
    /\ LeasesApart

(* What every step leaves to the invocations that do not take it: a record *)
(* that runs under a lease other than `lease` and is not over, and a lock  *)
(* of another owner that is not over.                                      *)
Spared(lease) ==
    /\ minted <= minted'
    /\ \A j \in Job : jobs[j].status # "absent" =>
          jobs'[j].status # "absent" /\ jobs'[j].fingerprint = jobs[j].fingerprint
    /\ \A j \in Job :
          /\ jobs[j].status = "running" /\ jobs[j].lease_id # lease
          /\ jobs[j].lease_expires_at > clock
          => jobs'[j] = jobs[j]
    /\ \A k \in OverlapKey :
          /\ locks[k].owner \notin {lease, NoLease}
          /\ locks[k].expires_at > clock
          => locks'[k] = locks[k]

-----------------------------------------------------------------------------
(* The operations of the store spare what other invocations hold.          *)

LEMMA UnchangedSpares ==
    ASSUME ExecInv, UNCHANGED storeVars, NEW lease PROVE Spared(lease)
BY DEF ExecInv, StoreInv, JobsOK, Spared, storeVars

(* Every way a stored record is written keeps what it was submitted with   *)
(* and does not remove it.                                                 *)
Keeps(q, r) == q.fingerprint = r.fingerprint /\ q.status # "absent"

LEMMA ClaimKeeps ==
    ASSUME NEW r \in JobRecord, NEW lease, NEW expires
    PROVE  Keeps(Claimed(r, lease, expires), r)
BY DEF JobRecord, Claimed, Keeps

LEMMA TransitionKeeps ==
    ASSUME NEW r \in JobRecord, NEW status, status # "absent"
    PROVE  Keeps(Transition(r, status), r)
BY DEF JobRecord, Transition, Keeps

LEMMA SettleKeeps ==
    ASSUME NEW r \in JobRecord, NEW status, status # "absent", NEW lease, NEW outcome
    PROVE  Keeps(Settled(r, status, lease, outcome), r)
BY DEF JobRecord, Transition, Settled, Keeps

LEMMA RetryKeeps ==
    ASSUME NEW r \in JobRecord, NEW lease, NEW next
    PROVE  Keeps([Settled(r, "pending", lease, "retried") EXCEPT !.available_at = next], r)
BY DEF JobRecord, Transition, Settled, Keeps

LEMMA ReopenKeeps ==
    ASSUME NEW r \in JobRecord, NEW now
    PROVE  /\ Keeps(Reopened(r, now), r)
           /\ Keeps([Reopened(r, now) EXCEPT !.attempt_count = 0], r)
BY DEF JobRecord, Transition, Reopened, Keeps

(* Any step that changes one record, which is not held by another, and     *)
(* leaves its fingerprint alone.                                           *)
LEMMA UpdateSpares ==
    ASSUME ExecInv, NEW lease, NEW j \in Job, NEW q,
           jobs' = [jobs EXCEPT ![j] = q], locks' = locks, minted' \in Nat,
           minted <= minted', q.status # "absent",
           jobs[j].status # "absent" => Keeps(q, jobs[j]),
           \/ jobs[j].status # "running"
           \/ jobs[j].lease_id = lease
           \/ ~(jobs[j].lease_expires_at > clock)
    PROVE  Spared(lease)
<1>1. \A i \in Job : jobs'[i] = IF i = j THEN q ELSE jobs[i]
  BY DEF ExecInv, StoreInv, JobsOK
<1>2. QED
  BY <1>1 DEF Spared, Keeps

LEMMA InsertSpares ==
    ASSUME ExecInv, NEW j \in Job, NEW k, NEW f, NEW at, NEW status,
           Insert(j, k, f, at, status), NEW lease
    PROVE  Spared(lease)
<1> DEFINE q == pending_record(k, f, at)
<1>1. /\ jobs[j].status = "absent" /\ jobs' = [jobs EXCEPT ![j] = q]
      /\ locks' = locks /\ minted' = minted /\ minted \in Nat
  BY DEF Insert, Insertable, ExecInv, StoreInv, JobsOK
<1>2. q.status # "absent"
  BY DEF pending_record
<1> HIDE DEF q
<1>3. minted' \in Nat /\ minted <= minted'
  BY <1>1
<1>4. QED
  BY <1>1, <1>2, <1>3, UpdateSpares

(* A claim at a reading that is not ahead of the clock finds the job       *)
(* pending, or the lease on it over.                                       *)
LEMMA ClaimSpares ==
    ASSUME ExecInv, NEW j \in Job, NEW expires, NEW now \in Nat, now <= clock,
           claim_execution(j, expires, now), NEW lease
    PROVE  Spared(lease)
<1>1. /\ jobs[j] \in JobRecord /\ minted \in Nat /\ clock \in Nat
  BY DEF ExecInv, StoreInv, JobsOK
<1> DEFINE q == Claimed(jobs[j], FreshLease, expires)
<1>2. /\ jobs' = [jobs EXCEPT ![j] = q]
      /\ locks' = locks /\ minted' = minted + 1
  BY DEF claim_execution, FreshLease
<1>3. jobs[j].status # "running" \/ ~(jobs[j].lease_expires_at > clock)
  BY <1>1 DEF claim_execution, Claimable, LeaseExpired, JobRecord
<1>4. Keeps(q, jobs[j]) /\ q.status # "absent"
  BY <1>1, ClaimKeeps DEF Keeps
<1> HIDE DEF q
<1>5. minted' \in Nat /\ minted <= minted'
  BY <1>1, <1>2
<1>6. QED
  BY <1>2, <1>3, <1>4, <1>5, UpdateSpares

(* A record settles only under the lease that is presented.                *)
LEMMA SettleSpares ==
    ASSUME ExecInv, NEW j \in Job, NEW lease,
           \/ complete(j, lease) \/ fail_permanently(j, lease)
           \/ \E next \in Instant : schedule_retry_and_publish(j, lease, next)
    PROVE  Spared(lease)
<1>1. /\ jobs[j] \in JobRecord /\ minted \in Nat
  BY DEF ExecInv, StoreInv, JobsOK
<1>2. LeaseHeld(j, lease) /\ locks' = locks /\ minted' = minted
  BY DEF complete, fail_permanently, schedule_retry_and_publish
<1>3. PICK q : jobs' = [jobs EXCEPT ![j] = q] /\ Keeps(q, jobs[j])
  <2>1. CASE complete(j, lease)
    BY <2>1, <1>1, SettleKeeps DEF complete
  <2>2. CASE fail_permanently(j, lease)
    BY <2>2, <1>1, SettleKeeps DEF fail_permanently
  <2>3. CASE \E next \in Instant : schedule_retry_and_publish(j, lease, next)
    BY <2>3, <1>1, RetryKeeps DEF schedule_retry_and_publish
  <2>4. QED
    BY <2>1, <2>2, <2>3
<1>4. minted' \in Nat /\ minted <= minted' /\ q.status # "absent"
  BY <1>1, <1>2, <1>3 DEF Keeps
<1>5. QED
  BY <1>2, <1>3, <1>4, UpdateSpares DEF LeaseHeld

(* Cancelling and rerunning touch no running job; recovery at the clock    *)
(* touches only leases that are over.                                      *)
LEMMA OperateSpares ==
    ASSUME ExecInv, Operate, NEW lease PROVE Spared(lease)
<1>1. \A j \in Job : jobs[j] \in JobRecord
  BY DEF ExecInv, StoreInv, JobsOK
<1>2. minted \in Nat /\ clock \in Nat
  BY DEF ExecInv, StoreInv, JobsOK
<1>3. ASSUME NEW j \in Job, NEW revision,
             cancel(j, revision) \/ retry_failed(j, revision, clock)
      PROVE  Spared(lease)
  <2>1. jobs[j].status # "running" /\ locks' = locks /\ minted' = minted
    BY <1>3 DEF cancel, retry_failed
  <2>2. PICK q : jobs' = [jobs EXCEPT ![j] = q] /\ Keeps(q, jobs[j])
    <3>1. CASE cancel(j, revision)
      BY <3>1, <1>1, TransitionKeeps DEF cancel
    <3>2. CASE retry_failed(j, revision, clock)
      BY <3>2, <1>1, ReopenKeeps DEF retry_failed
    <3>3. QED
      BY <1>3, <3>1, <3>2
  <2>3. minted' \in Nat /\ minted <= minted' /\ q.status # "absent"
    BY <1>2, <2>1, <2>2 DEF Keeps
  <2>4. QED
    BY <2>1, <2>2, <2>3, UpdateSpares
<1>4. CASE recover_expired_leases(clock)
  <2> DEFINE S == ExpiredLeases(clock)
  <2>1. /\ \A j \in Job : jobs'[j] = IF j \in S THEN Reopened(jobs[j], clock) ELSE jobs[j]
        /\ locks' = locks /\ minted' = minted
    BY <1>4 DEF recover_expired_leases, RecoverLeases
  <2>2. \A j \in S : ~(jobs[j].lease_expires_at > clock)
    BY <1>1, <1>2 DEF ExpiredLeases, LeaseExpired, JobRecord
  <2>3. \A j \in Job : Keeps(Reopened(jobs[j], clock), jobs[j])
    BY <1>1, ReopenKeeps
  <2> HIDE DEF S
  <2>4. QED
    BY <1>2, <2>1, <2>2, <2>3 DEF Spared, Keeps
<1>5. QED
  BY <1>3, <1>4 DEF Operate

(* A lock is taken when it is free at a reading that is not ahead of the   *)
(* clock, and given back by its owner.                                     *)
LEMMA LockSpares ==
    ASSUME ExecInv, NEW k \in OverlapKey, NEW lease, NEW expires,
           NEW now \in Nat, now <= clock,
           acquire(k, lease, expires, now) \/ release(k, lease)
    PROVE  Spared(lease)
<1>1. /\ locks \in [OverlapKey -> Lock] /\ minted \in Nat /\ clock \in Nat
  BY DEF ExecInv, StoreInv, JobsOK, LocksOK
<1>2. locks[k].owner \in {lease, NoLease} \/ ~(locks[k].expires_at > clock)
  BY <1>1 DEF acquire, release, LockFree, NoLock, Lock
<1>3. PICK l : locks' = [locks EXCEPT ![k] = l] /\ jobs' = jobs /\ minted' = minted
  BY DEF acquire, release, SetLock
<1>4. \A i \in OverlapKey : locks'[i] = IF i = k THEN l ELSE locks[i]
  BY <1>1, <1>3
<1>5. QED
  BY <1>1, <1>2, <1>3, <1>4 DEF Spared

-----------------------------------------------------------------------------
(* What is spared stays an invocation's.                                   *)

(* The leases and locks of an invocation in hand are not over: it started  *)
(* its handler within StartDelay, and the handler ends in time.            *)
LEMMA LeaseNotOver ==
    ASSUME ExecInv, NEW w \in Worker, worker[w].pc \in InHand
    PROVE  worker[w].now + ExecutionLease > clock
<1>1. WorkerOK(w) /\ clock \in Nat
  BY DEF ExecInv
<1>2. worker[w].now \in Nat /\ worker[w].start \in Nat
  BY <1>1 DEF WorkerOK, WorkerState
<1>3. QED
  BY <1>1, <1>2, ExecutorAssumption, LeaseOutlivesHandler
     DEF WorkerOK, InTime, InHand, Is

LEMMA SparedIsKept ==
    ASSUME ExecInv, NEW w \in Worker, NEW lease, Spared(lease),
           worker[w].pc \in InHand => worker[w].lease # lease,
           worker'[w] = worker[w], clock' = clock, minted' \in Nat
    PROVE  WorkerOK(w)'
<1>1. /\ WorkerOK(w) /\ clock \in Nat /\ minted \in Nat
      /\ jobs \in [Job -> JobRecord] /\ locks \in [OverlapKey -> Lock]
  BY DEF ExecInv, StoreInv, JobsOK, LocksOK
<1> DEFINE s == worker[w]
<1>2. s \in WorkerState /\ s.lease \in Nat /\ s.lease <= minted'
  BY <1>1 DEF WorkerOK, WorkerState, Spared
<1>3. InTime(w)'
  BY <1>1 DEF WorkerOK, InTime, Is
<1>4. ASSUME s.pc \notin {"idle", "ack"}
      PROVE  /\ s.job \in Job /\ jobs[s.job].status # "absent"
             /\ jobs'[s.job].status # "absent"
             /\ jobs'[s.job].fingerprint = jobs[s.job].fingerprint
  BY <1>1, <1>4 DEF WorkerOK, Spared
<1>5. ASSUME s.pc \in InHand PROVE HoldsJob(w)'
  <2>1. /\ s.lease # NoLease /\ HoldsJob(w) /\ s.job \in Job
    BY <1>1, <1>5 DEF WorkerOK, Leased, InHand
  <2>2. jobs[s.job].lease_expires_at > clock
    BY <1>5, <2>1, LeaseNotOver DEF HoldsJob
  <2>3. jobs'[s.job] = jobs[s.job]
    BY <1>5, <2>1, <2>2 DEF HoldsJob, LeaseHeld, Spared
  <2>4. QED
    BY <2>1, <2>3 DEF HoldsJob, LeaseHeld
<1>6. ASSUME s.pc \in {"start", "handler"} PROVE HoldsLock(w)'
  <2>1. /\ s.lease # NoLease /\ HoldsLock(w) /\ s.job \in Job /\ s.pc \in InHand
        /\ jobs'[s.job].fingerprint = jobs[s.job].fingerprint
    BY <1>1, <1>4, <1>6 DEF WorkerOK, Leased, InHand
  <2>2. OverlapKeyHeldBy(w)' = OverlapKeyHeldBy(w)
    BY <2>1 DEF OverlapKeyHeldBy, Fp
  <2>3. OverlapKeyHeldBy(w) # NoOverlapKey => OverlapKeyHeldBy(w) \in OverlapKey
    <3>1. jobs[s.job].fingerprint \in Fingerprint
      BY <1>1, <2>1 DEF JobRecord
    <3>2. QED
      BY <3>1, ExecutorAssumption DEF OverlapKeyHeldBy, Fp
  <2>4. ASSUME OverlapKeyHeldBy(w) # NoOverlapKey
        PROVE  locks'[OverlapKeyHeldBy(w)] = locks[OverlapKeyHeldBy(w)]
    <3>1. /\ locks[OverlapKeyHeldBy(w)].owner = s.lease
          /\ locks[OverlapKeyHeldBy(w)].expires_at > clock
      BY <2>1, <2>4, LeaseNotOver DEF HoldsLock
    <3>2. s.lease \notin {lease, NoLease}
      BY <2>1
    <3>3. QED
      BY <2>3, <2>4, <3>1, <3>2 DEF Spared
  <2>5. QED
    BY <2>1, <2>2, <2>4 DEF HoldsLock
<1>7. s.pc \in Leased => s.lease # NoLease
  BY <1>1 DEF WorkerOK
<1>8. QED
  BY <1>2, <1>3, <1>4, <1>5, <1>6, <1>7 DEF WorkerOK

(* A step of invocation w that presents no other lease than its own, leaves *)
(* the clock alone and leaves w in order.                                  *)
LEMMA WorkerMoves ==
    ASSUME ExecInv, NEW w \in Worker, NEW s, s \in WorkerState,
           worker' = [worker EXCEPT ![w] = s],
           clock' = clock, crashes' \in 0..MaxCrashes, Spared(worker[w].lease),
           StoreInv', RevisionsOK', WorkerOK(w)',
           s.lease \in {NoLease, worker[w].lease, minted + 1}
    PROVE  ExecInv'
<1>1. worker \in [Worker -> WorkerState] /\ LeasesApart
  BY DEF ExecInv
<1>2. \A v \in Worker : worker'[v] = IF v = w THEN s ELSE worker[v]
  BY <1>1
<1>3. minted' \in Nat /\ minted \in Nat
  BY DEF StoreInv, JobsOK, ExecInv
<1>4. ASSUME NEW v \in Worker, v # w PROVE WorkerOK(v)'
  <2>1. worker[v].pc \in InHand => worker[v].lease # worker[w].lease
    BY <1>1, <1>4 DEF LeasesApart, ExecInv, WorkerOK, Leased
  <2>2. worker'[v] = worker[v] /\ clock' = clock
    BY <1>2, <1>4
  <2>3. QED
    BY <1>3, <2>1, <2>2, SparedIsKept
<1>5. LeasesApart'
  <2>1. \A v \in Worker : worker[v].lease \in Nat /\ worker[v].lease <= minted
    BY DEF ExecInv, WorkerOK, WorkerState
  <2>2. \A v \in Worker \ {w} : worker'[v].lease # minted + 1
    BY <1>2, <1>3, <2>1
  <2>3. QED
    BY <1>1, <1>2, <2>2 DEF LeasesApart
<1>6. worker' \in [Worker -> WorkerState]
  BY <1>1
<1>7. QED
  BY <1>4, <1>5, <1>6 DEF ExecInv

-----------------------------------------------------------------------------
(* Every action is a step of the store and keeps the invariant.            *)

(* The calls of workers, applications and operators: all but those of the  *)
(* dispatchers.                                                            *)
ClientNext == SubmitNext \/ ExecutionNext \/ OperatorNext \/ LockNext

LEMMA ClientIsStore == [ClientNext]_storeVars => [StoreNext]_storeVars
BY DEF ClientNext, StoreNext

LEMMA StoreSteps ==
    ASSUME ExecInv, [StoreNext]_storeVars
    PROVE  StoreInv' /\ RevisionsOK'
<1>1. StoreInv'
  BY StepInv DEF ExecInv
<1>2. RevisionMoves
  BY StepMovesRevision DEF ExecInv
<1>3. \A j \in Job : jobs[j].revision \in Nat
  BY DEF ExecInv, StoreInv, JobsOK, JobRecord
<1>4. QED
  BY <1>1, <1>2, <1>3 DEF RevisionMoves, ExecInv, RevisionsOK

(* What an invocation presents to the store: an instant, and a lease that  *)
(* was minted.                                                             *)
LEMMA Presented ==
    ASSUME ExecInv, NEW w \in Worker
    PROVE  /\ worker[w] \in WorkerState
           /\ clock \in Instant /\ worker[w].now \in Instant /\ worker[w].now \in Nat
           /\ worker[w].now <= clock
           /\ worker[w].now + ExecutionLease \in Instant
           /\ worker[w].now + OverlapRetryDelay \in Instant
           /\ worker[w].now + RetryDelay \in Instant
           /\ worker[w].pc \in Leased =>
                 /\ worker[w].job \in Job /\ worker[w].lease \in 1..minted
                 /\ worker[w].lease \in Nat /\ worker[w].lease # NoLease
           /\ worker[w].pc = "claim" => worker[w].job \in Job
<1>1. WorkerOK(w) /\ clock \in 0..Horizon /\ minted \in Nat
  BY DEF ExecInv, StoreInv, JobsOK
<1>2. worker[w].now \in 0..Horizon /\ worker[w].lease \in Nat
  BY <1>1, ExecutorAssumption DEF WorkerOK, WorkerState, InTime
<1>3. worker[w].pc \in Leased \cup {"claim"} => worker[w].job \in Job
  BY <1>1 DEF WorkerOK, Leased, InHand
<1>4. worker[w].pc \in Leased => worker[w].lease \in 1..minted
  BY <1>1, <1>2 DEF WorkerOK, NoLease
<1>5. \A t \in 0..Horizon : /\ t \in Instant /\ t + ExecutionLease \in Instant
                             /\ t + OverlapRetryDelay \in Instant
                             /\ t + RetryDelay \in Instant
  BY ExecutorAssumption
<1>6. worker[w].now <= clock /\ worker[w].now \in Nat
  BY <1>1, <1>2 DEF WorkerOK, InTime
<1>7. worker[w] \in WorkerState
  BY <1>1 DEF WorkerOK
<1>8. worker[w].pc \in Leased => worker[w].lease # NoLease
  BY <1>1 DEF WorkerOK
<1>9. QED
  BY <1>1, <1>2, <1>3, <1>4, <1>5, <1>6, <1>7, <1>8

(* An invocation that is over holds nothing.                               *)
LEMMA Ends ==
    ASSUME ExecInv, NEW w \in Worker, Done(w) \/ Return(w),
           [ClientNext]_storeVars, Spared(worker[w].lease),
           clock' = clock, crashes' \in 0..MaxCrashes
    PROVE  ExecInv'
<1>1. PICK s : /\ worker' = [worker EXCEPT ![w] = s]
               /\ s \in {IdleWorker, [IdleWorker EXCEPT !.pc = "ack"]}
  BY DEF Done, Return
<1>2. /\ s \in WorkerState /\ s.pc \in {"idle", "ack"} /\ s.lease = NoLease /\ s.now = 0
  BY <1>1 DEF IdleWorker, WorkerState, WorkerPc, NoLease
<1>3. StoreInv' /\ RevisionsOK'
  BY StoreSteps, ClientIsStore
<1>4. worker'[w] = s
  BY <1>1 DEF ExecInv
<1>5. clock \in Nat /\ minted' \in Nat
  BY <1>3 DEF ExecInv, StoreInv, JobsOK
<1>6. WorkerOK(w)'
  BY <1>2, <1>4, <1>5 DEF WorkerOK, InTime, Is, Leased, InHand, NoLease
<1>7. QED
  BY <1>1, <1>2, <1>3, <1>6, WorkerMoves

(* An invocation that is past its handler, or found the lock busy, keeps   *)
(* its job and its lease.                                                  *)
LEMMA GoesOn ==
    ASSUME ExecInv, NEW w \in Worker, worker[w].pc \in Leased,
           NEW pc \in {"busy", "release", "retry"}, Goto(w, pc),
           [ClientNext]_storeVars, Spared(worker[w].lease),
           UNCHANGED <<clock, crashes>>
    PROVE  ExecInv'
<1> DEFINE s == [worker[w] EXCEPT !.pc = pc]
<1>1. worker' = [worker EXCEPT ![w] = s]
  BY DEF Goto
<1>2. /\ worker[w] \in WorkerState /\ worker[w].now <= clock /\ worker[w].lease # NoLease
      /\ worker[w].lease <= minted /\ worker[w].lease \in Nat /\ minted \in Nat
      /\ worker[w].job \in Job /\ jobs[worker[w].job].status # "absent"
  BY DEF ExecInv, StoreInv, JobsOK, WorkerOK, InTime, WorkerState, Leased, InHand
<1>3. /\ s \in WorkerState /\ s.pc = pc /\ s.job = worker[w].job
      /\ s.lease = worker[w].lease /\ s.now = worker[w].now
  BY <1>2 DEF WorkerState, WorkerPc
<1> HIDE DEF s
<1>4. StoreInv' /\ RevisionsOK'
  BY StoreSteps, ClientIsStore
<1>5. worker'[w] = s
  BY <1>1 DEF ExecInv
<1>6. s.lease <= minted' /\ jobs'[s.job].status # "absent"
  BY <1>2, <1>3, <1>4 DEF Spared, StoreInv, JobsOK
<1>7. WorkerOK(w)'
  BY <1>2, <1>3, <1>5, <1>6 DEF WorkerOK, InTime, Is, Leased, InHand
<1>8. QED
  BY <1>1, <1>3, <1>4, <1>7, WorkerMoves DEF ExecInv

(* What the steps of an invocation have in common as steps of the store.   *)
Served(w) == [ClientNext]_storeVars /\ Spared(worker[w].lease) /\ clock' = clock

LEMMA NotServed ==
    ASSUME ExecInv, NEW w \in Worker, UNCHANGED storeVars, clock' = clock
    PROVE  Served(w)
BY UnchangedSpares DEF Served

LEMMA FencedOutServed ==
    ASSUME ExecInv, NEW w \in Worker, FencedOut(w), clock' = clock
    PROVE  Served(w) /\ Return(w)
BY NotServed DEF FencedOut

LEMMA SettleServed ==
    ASSUME ExecInv, NEW w \in Worker, worker[w].pc \in Leased, clock' = clock,
           \/ complete(worker[w].job, worker[w].lease)
           \/ fail_permanently(worker[w].job, worker[w].lease)
           \/ \E next \in Instant :
                 schedule_retry_and_publish(worker[w].job, worker[w].lease, next)
    PROVE  Served(w)
<1>1. worker[w].job \in Job /\ worker[w].lease \in 1..minted
  BY Presented
<1>2. ClientNext
  BY <1>1 DEF ClientNext, ExecutionNext
<1>3. QED
  BY <1>1, <1>2, SettleSpares DEF Served

LEMMA ReleaseServed ==
    ASSUME ExecInv, NEW w \in Worker, worker[w].pc \in Leased, clock' = clock,
           ReleaseLock(w)
    PROVE  Served(w)
<1>1. CASE UNCHANGED storeVars
  BY <1>1, NotServed
<1>2. CASE /\ OverlapKeyHeldBy(w) # NoOverlapKey
           /\ release(OverlapKeyHeldBy(w), worker[w].lease)
  <2>1. /\ worker[w].job \in Job /\ worker[w].lease \in 1..minted
        /\ worker[w].now \in Nat /\ worker[w].now <= clock
    BY Presented
  <2>2. OverlapKeyHeldBy(w) \in OverlapKey
    BY <1>2, <2>1, ExecutorAssumption
       DEF OverlapKeyHeldBy, Fp, ExecInv, StoreInv, JobsOK, JobRecord
  <2>3. ClientNext
    BY <1>2, <2>1, <2>2 DEF ClientNext, LockNext
  <2>4. QED
    BY <1>2, <2>1, <2>2, <2>3, LockSpares DEF Served
<1>3. QED
  BY <1>1, <1>2 DEF ReleaseLock

(* The invocation starts with a reading of the clock.                      *)
LEMMA BeginStep ==
    ASSUME ExecInv, NEW w \in Worker, NEW j \in Job, Begin(w, j)
    PROVE  ExecInv' /\ Served(w)
<1> DEFINE s == [IdleWorker EXCEPT !.pc = "claim", !.job = j, !.now = clock]
<1>1. worker' = [worker EXCEPT ![w] = s] /\ UNCHANGED storeVars /\ UNCHANGED <<clock, crashes>>
  BY DEF Begin, KeepOthers
<1>2. Served(w) /\ clock \in Nat /\ minted \in Nat
  BY <1>1, NotServed DEF ExecInv, StoreInv, JobsOK
<1>3. /\ s \in WorkerState /\ s.pc = "claim" /\ s.job = j /\ s.now = clock
      /\ s.lease = NoLease
  BY <1>2 DEF IdleWorker, WorkerState, WorkerPc, NoLease
<1> HIDE DEF s
<1>4. StoreInv' /\ RevisionsOK'
  BY <1>2, StoreSteps, ClientIsStore DEF Served
<1>5. worker'[w] = s /\ jobs'[j].status # "absent" /\ minted' = minted
  BY <1>1 DEF ExecInv, Begin, storeVars
<1>6. InTime(w)'
  BY <1>1, <1>2, <1>3, <1>5, ExecutorAssumption DEF InTime, Is
<1>7. WorkerOK(w)'
  BY <1>2, <1>3, <1>5, <1>6 DEF WorkerOK, Leased, InHand, NoLease
<1>8. QED
  BY <1>1, <1>2, <1>3, <1>4, <1>7, WorkerMoves DEF Served, ExecInv

(* The claim is made at the reading, and gives a lease nobody has.         *)
LEMMA ClaimStep ==
    ASSUME ExecInv, NEW w \in Worker, Claim(w)
    PROVE  ExecInv' /\ Served(w)
<1> DEFINE o == worker[w]
<1>1. /\ o.pc = "claim" /\ o.job \in Job /\ o.now \in Nat /\ o.now <= clock
      /\ o.now \in Instant /\ o.now + ExecutionLease \in Instant
      /\ o \in WorkerState /\ UNCHANGED <<clock, crashes>>
  BY Presented DEF Claim, Is, KeepOthers
<1>2. CASE UNCHANGED storeVars /\ Done(w)
  <2>1. Served(w)
    BY <1>1, <1>2, NotServed
  <2>2. QED
    BY <1>1, <1>2, <2>1, Ends DEF Served, ExecInv
<1>3. CASE /\ claim_execution(o.job, o.now + ExecutionLease, o.now)
           /\ worker' = [worker EXCEPT ![w] =
                 [@ EXCEPT !.pc = "preflight", !.lease = FreshLease,
                           !.attempt = jobs[o.job].attempt_count + 1]]
  <2> DEFINE r == jobs[o.job]
             q == Claimed(r, minted + 1, o.now + ExecutionLease)
             s == [o EXCEPT !.pc = "preflight", !.lease = minted + 1,
                            !.attempt = r.attempt_count + 1]
  <2>1. ClientNext
    BY <1>1, <1>3 DEF ClientNext, ExecutionNext
  <2>2. Spared(o.lease)
    BY <1>1, <1>3, ClaimSpares
  <2>3. Served(w)
    BY <1>1, <2>1, <2>2 DEF Served
  <2>4. StoreInv' /\ RevisionsOK'
    BY <2>1, StoreSteps, ClientIsStore
  <2>5. /\ minted \in Nat /\ r \in JobRecord /\ RecordOK(r, minted)
        /\ jobs' = [jobs EXCEPT ![o.job] = q] /\ minted' = minted + 1
        /\ worker' = [worker EXCEPT ![w] = s]
    BY <1>1, <1>3 DEF claim_execution, FreshLease, ExecInv, StoreInv, JobsOK
  <2>6. /\ q.status = "running" /\ q.lease_id = minted + 1
        /\ q.lease_expires_at = o.now + ExecutionLease
    BY <2>5 DEF Claimed, JobRecord
  <2>7. /\ s \in WorkerState /\ s.pc = "preflight" /\ s.job = o.job
        /\ s.now = o.now /\ s.lease = minted + 1
    <3>1. /\ r.attempt_count + 1 \in Nat /\ minted + 1 \in Nat
          /\ "preflight" \in WorkerPc
      BY <2>5 DEF WorkerPc, JobRecord
    <3>2. QED
      BY <1>1, <3>1 DEF WorkerState
  <2> HIDE DEF q, s, r
  <2>8. worker'[w] = s /\ jobs'[o.job] = q
    BY <1>1, <2>5 DEF ExecInv, StoreInv, JobsOK
  <2>9. InTime(w)'
    <3>1. clock <= o.now + StartDelay
      BY <1>1 DEF ExecInv, WorkerOK, InTime
    <3>2. QED
      BY <1>1, <2>7, <2>8, <3>1 DEF InTime, Is
  <2>10. HoldsJob(w)'
    BY <2>6, <2>7, <2>8 DEF HoldsJob, LeaseHeld
  <2>11. WorkerOK(w)'
    BY <1>1, <2>5, <2>6, <2>7, <2>8, <2>9, <2>10 DEF WorkerOK, NoLease
  <2>12. s.lease \in {NoLease, o.lease, minted + 1}
    BY <2>7
  <2>13. QED
    BY <1>1, <2>2, <2>3, <2>4, <2>5, <2>7, <2>11, <2>12, WorkerMoves DEF ExecInv
<1>4. QED
  BY <1>2, <1>3 DEF Claim

LEMMA PreflightFailStep ==
    ASSUME ExecInv, NEW w \in Worker, PreflightFail(w)
    PROVE  ExecInv' /\ Served(w)
<1>1. worker[w].pc \in Leased /\ UNCHANGED <<clock, crashes>>
  BY DEF PreflightFail, Is, KeepOthers, Leased, InHand
<1>2. Served(w) /\ (Done(w) \/ Return(w))
  BY <1>1, SettleServed, FencedOutServed DEF PreflightFail
<1>3. QED
  BY <1>1, <1>2, Ends DEF Served, ExecInv

(* The lock is taken for the lease's time from the same reading.           *)
LEMMA AcquireStep ==
    ASSUME ExecInv, NEW w \in Worker, Acquire(w)
    PROVE  ExecInv' /\ Served(w)
<1> DEFINE o == worker[w]
           k == OverlapKeyHeldBy(w)
           lock == [owner |-> o.lease, expires_at |-> o.now + ExecutionLease]
<1>1. /\ o.pc = "preflight" /\ o.pc \in Leased /\ UNCHANGED <<clock, crashes>>
  BY DEF Acquire, Is, KeepOthers, Leased, InHand
<1>2. /\ o.job \in Job /\ o.now \in Nat /\ o.now <= clock /\ o.lease \in 1..minted
      /\ o.now \in Instant /\ o.now + ExecutionLease \in Instant
      /\ o \in WorkerState
  BY <1>1, Presented
<1>3. k # NoOverlapKey => k \in OverlapKey
  BY <1>2, ExecutorAssumption
     DEF OverlapKeyHeldBy, Fp, ExecInv, StoreInv, JobsOK, JobRecord
<1>4. CASE ~LockFree(k, o.now) /\ Goto(w, "busy") /\ UNCHANGED storeVars
  <2>1. Served(w)
    BY <1>1, <1>4, NotServed
  <2>2. QED
    BY <1>1, <1>4, <2>1, GoesOn DEF Served
<1>5. CASE /\ Goto(w, "start")
           /\ \/ k = NoOverlapKey /\ UNCHANGED storeVars
              \/ /\ k # NoOverlapKey
                 /\ acquire(k, o.lease, o.now + ExecutionLease, o.now)
  <2> DEFINE s == [o EXCEPT !.pc = "start"]
  <2>1. Served(w)
    <3>1. CASE UNCHANGED storeVars
      BY <1>1, <3>1, NotServed
    <3>2. CASE /\ k # NoOverlapKey
               /\ acquire(k, o.lease, o.now + ExecutionLease, o.now)
      <4>1. ClientNext
        BY <1>2, <1>3, <3>2 DEF ClientNext, LockNext
      <4>2. Spared(o.lease)
        BY <1>2, <1>3, <3>2, LockSpares
      <4>3. QED
        BY <1>1, <4>1, <4>2 DEF Served
    <3>3. QED
      BY <1>5, <3>1, <3>2
  <2>2. StoreInv' /\ RevisionsOK'
    BY <2>1, StoreSteps, ClientIsStore DEF Served
  <2>3. jobs' = jobs /\ minted' = minted /\ worker' = [worker EXCEPT ![w] = s]
    <3>1. jobs' = jobs /\ minted' = minted
      BY <1>5 DEF acquire, SetLock, storeVars
    <3>2. QED
      BY <1>5, <3>1 DEF Goto
  <2>4. /\ s \in WorkerState /\ s.pc = "start" /\ s.job = o.job
        /\ s.now = o.now /\ s.lease = o.lease
    BY <1>2 DEF WorkerState, WorkerPc
  <2> HIDE DEF s
  <2>5. worker'[w] = s
    BY <2>3 DEF ExecInv
  <2>6. WorkerOK(w) /\ HoldsJob(w)
    BY <1>1 DEF ExecInv, WorkerOK, InHand
  <2>7. InTime(w)'
    BY <1>1, <2>4, <2>5, <2>6 DEF WorkerOK, InTime, Is
  <2>8. HoldsJob(w)'
    BY <2>3, <2>4, <2>5, <2>6 DEF HoldsJob, LeaseHeld
  <2>9. HoldsLock(w)'
    <3>1. k' = k
      BY <2>3, <2>4, <2>5 DEF OverlapKeyHeldBy, Fp
    <3>2. k # NoOverlapKey => locks'[k] = lock
      BY <1>3, <1>5 DEF acquire, SetLock, ExecInv, StoreInv, LocksOK
    <3>3. QED
      BY <2>4, <2>5, <3>1, <3>2 DEF HoldsLock
  <2>10. WorkerOK(w)'
    BY <1>1, <2>3, <2>4, <2>5, <2>6, <2>7, <2>8, <2>9 DEF WorkerOK, Leased, InHand
  <2>11. QED
    BY <1>1, <2>1, <2>2, <2>3, <2>4, <2>10, WorkerMoves DEF Served, ExecInv
<1>6. QED
  BY <1>4, <1>5 DEF Acquire

LEMMA BusyStep ==
    ASSUME ExecInv, NEW w \in Worker, Busy(w)
    PROVE  ExecInv' /\ Served(w)
<1>1. worker[w].pc \in Leased /\ UNCHANGED <<clock, crashes>>
  BY DEF Busy, Is, KeepOthers, Leased
<1>2. worker[w].now + OverlapRetryDelay \in Instant
  BY Presented
<1>3. Served(w) /\ (Done(w) \/ Return(w))
  BY <1>1, <1>2, SettleServed, FencedOutServed DEF Busy
<1>4. QED
  BY <1>1, <1>3, Ends DEF Served, ExecInv

(* The handler starts while the lease has more than its timeout to go.     *)
LEMMA StartHandlerStep ==
    ASSUME ExecInv, NEW w \in Worker, StartHandler(w)
    PROVE  ExecInv' /\ Served(w)
<1> DEFINE o == worker[w]
           s == [o EXCEPT !.pc = "handler", !.start = clock]
<1>1. /\ o.pc = "start" /\ worker' = [worker EXCEPT ![w] = s]
      /\ UNCHANGED storeVars /\ UNCHANGED <<clock, crashes>>
  BY DEF StartHandler, Is, KeepOthers
<1>2. /\ WorkerOK(w) /\ o \in WorkerState /\ clock \in Nat /\ Served(w)
      /\ clock <= o.now + StartDelay
  BY <1>1, NotServed DEF ExecInv, WorkerOK, InTime
<1>3. /\ s \in WorkerState /\ s.pc = "handler" /\ s.job = o.job /\ s.now = o.now
      /\ s.lease = o.lease /\ s.start = clock
  BY <1>2 DEF WorkerState, WorkerPc
<1> HIDE DEF s
<1>4. worker'[w] = s /\ jobs' = jobs /\ locks' = locks /\ minted' = minted
  BY <1>1 DEF ExecInv, storeVars
<1>5. InTime(w)'
  <2>1. clock <= clock + ExecutionTimeout
    BY <1>2, ExecutorAssumption
  <2>2. QED
    BY <1>1, <1>2, <1>3, <1>4, <2>1 DEF WorkerOK, InTime, Is
<1>6. HoldsJob(w)' /\ HoldsLock(w)'
  <2>1. HoldsJob(w) /\ HoldsLock(w)
    BY <1>1, <1>2 DEF WorkerOK, InHand
  <2>2. QED
    BY <1>3, <1>4, <2>1 DEF HoldsJob, LeaseHeld, HoldsLock, OverlapKeyHeldBy, Fp
<1>7. WorkerOK(w)'
  BY <1>1, <1>2, <1>3, <1>4, <1>5, <1>6 DEF WorkerOK, Leased, InHand
<1>8. QED
  BY <1>1, <1>2, <1>3, <1>7, StoreSteps, ClientIsStore, WorkerMoves DEF Served, ExecInv

(* The handler is over: the clock is read again.                           *)
LEMMA FinishHandlerStep ==
    ASSUME ExecInv, NEW w \in Worker, FinishHandler(w)
    PROVE  ExecInv' /\ Served(w)
<1> DEFINE o == worker[w]
<1>1. PICK outcome \in {"ok", "permanent", "retryable"} :
         worker' = [worker EXCEPT ![w] =
         [@ EXCEPT !.pc = "settle", !.now = clock, !.start = 0, !.outcome = outcome]]
  BY DEF FinishHandler
<1> DEFINE s == [o EXCEPT !.pc = "settle", !.now = clock, !.start = 0,
                          !.outcome = outcome]
<1>2. /\ o.pc = "handler" /\ worker' = [worker EXCEPT ![w] = s]
      /\ UNCHANGED storeVars /\ UNCHANGED <<clock, crashes>>
  BY <1>1 DEF FinishHandler, Is, KeepOthers
<1>3. WorkerOK(w) /\ o \in WorkerState /\ clock \in Nat /\ Served(w)
  BY <1>2, NotServed DEF ExecInv, WorkerOK
<1>4. /\ s \in WorkerState /\ s.pc = "settle" /\ s.job = o.job /\ s.now = clock
      /\ s.lease = o.lease
  BY <1>3 DEF WorkerState, WorkerPc
<1> HIDE DEF s
<1>5. worker'[w] = s /\ jobs' = jobs /\ minted' = minted
  BY <1>2 DEF ExecInv, storeVars
<1>6. InTime(w)'
  BY <1>2, <1>3, <1>4, <1>5 DEF InTime, Is
<1>7. WorkerOK(w)'
  BY <1>2, <1>3, <1>4, <1>5, <1>6 DEF WorkerOK, Leased, InHand
<1>8. QED
  BY <1>2, <1>3, <1>4, <1>7, StoreSteps, ClientIsStore, WorkerMoves DEF Served, ExecInv

(* The outcome is stored under the lease, or the invocation is fenced out. *)
LEMMA CompleteStep ==
    ASSUME ExecInv, NEW w \in Worker, Complete(w) \/ Fail(w)
    PROVE  ExecInv' /\ Served(w)
<1>1. worker[w].pc \in Leased /\ UNCHANGED <<clock, crashes>>
  BY DEF Complete, Fail, Is, KeepOthers, Leased
<1>2. Served(w) /\ (Goto(w, "release") \/ Return(w))
  BY <1>1, SettleServed, FencedOutServed DEF Complete, Fail
<1>3. CASE Goto(w, "release")
  BY <1>1, <1>2, <1>3, GoesOn DEF Served
<1>4. CASE Return(w)
  BY <1>1, <1>2, <1>4, Ends DEF Served, ExecInv
<1>5. QED
  BY <1>2, <1>3, <1>4

LEMMA ReleaseStep ==
    ASSUME ExecInv, NEW w \in Worker, Release(w) \/ ReleaseBeforeRetry(w)
    PROVE  ExecInv' /\ Served(w)
<1>1. /\ worker[w].pc \in Leased /\ UNCHANGED <<clock, crashes>> /\ ReleaseLock(w)
  BY DEF Release, ReleaseBeforeRetry, Is, KeepOthers, Leased
<1>2. Served(w)
  BY <1>1, ReleaseServed
<1>3. CASE Release(w)
  BY <1>1, <1>2, <1>3, Ends DEF Served, ExecInv, Release
<1>4. CASE ReleaseBeforeRetry(w)
  BY <1>1, <1>2, <1>4, GoesOn DEF Served, ReleaseBeforeRetry
<1>5. QED
  BY <1>3, <1>4

LEMMA RetryStep ==
    ASSUME ExecInv, NEW w \in Worker, Retry(w)
    PROVE  ExecInv' /\ Served(w)
<1>1. worker[w].pc \in Leased /\ UNCHANGED <<clock, crashes>>
  BY DEF Retry, Is, KeepOthers, Leased
<1>2. worker[w].now + RetryDelay \in Instant
  BY Presented
<1>3. Served(w) /\ (Done(w) \/ Return(w))
  BY <1>1, <1>2, SettleServed, FencedOutServed DEF Retry
<1>4. QED
  BY <1>1, <1>3, Ends DEF Served, ExecInv

(* Acknowledging and losing an invocation.                                 *)
LEMMA ReturnStep ==
    ASSUME ExecInv, NEW w \in Worker, Ack(w) \/ Crash(w)
    PROVE  ExecInv' /\ Served(w)
<1>1. Return(w) /\ UNCHANGED storeVars /\ clock' = clock
  BY DEF Ack, Crash, KeepOthers
<1>2. crashes' \in 0..MaxCrashes
  BY ExecutorAssumption DEF Ack, Crash, KeepOthers, ExecInv
<1>3. Served(w)
  BY <1>1, NotServed
<1>4. QED
  BY <1>1, <1>2, <1>3, Ends DEF Served

LEMMA RunKeeps ==
    ASSUME ExecInv, NEW w \in Worker, Run(w)
    PROVE  ExecInv' /\ Served(w)
BY ClaimStep, PreflightFailStep, AcquireStep, BusyStep, StartHandlerStep,
   FinishHandlerStep, CompleteStep, ReleaseStep, RetryStep DEF Run

(* A step of the store that no invocation takes.                           *)
LEMMA StoreMoves ==
    ASSUME ExecInv, [StoreNext]_storeVars, Spared(NoLease),
           UNCHANGED <<clock, worker, crashes>>
    PROVE  ExecInv'
<1>1. StoreInv' /\ RevisionsOK' /\ minted' \in Nat
  BY StoreSteps DEF StoreInv, JobsOK
<1>2. ASSUME NEW w \in Worker PROVE WorkerOK(w)'
  <2>1. worker[w].pc \in InHand => worker[w].lease # NoLease
    BY DEF ExecInv, WorkerOK, Leased
  <2>2. QED
    BY <1>1, <2>1, SparedIsKept
<1>3. LeasesApart'
  BY DEF ExecInv, LeasesApart
<1>4. QED
  BY <1>1, <1>2, <1>3 DEF ExecInv

LEMMA SubmitStep ==
    ASSUME ExecInv, NEW j \in Job, Submit(j)
    PROVE  ExecInv' /\ [ClientNext]_storeVars
<1>1. /\ KeyOf[j] \in DedupeKey \cup {NoKey} /\ FingerprintOf[j] \in Fingerprint
      /\ clock \in Instant
  BY ExecutorAssumption DEF ExecInv
<1>2. ClientNext
  BY <1>1 DEF Submit, ClientNext, SubmitNext
<1>3. Spared(NoLease)
  BY InsertSpares DEF Submit, enqueue_with_intent
<1>4. QED
  BY <1>2, <1>3, StoreMoves, ClientIsStore DEF Submit

(* An operator's revision is one a stored record can have.                 *)
LEMMA OperateStep ==
    ASSUME ExecInv, Operate
    PROVE  ExecInv' /\ [ClientNext]_storeVars
<1>1. clock \in Instant
  BY ExecutorAssumption DEF ExecInv
<1>2. ASSUME NEW j \in Job, CanRevise(j), jobs[j].status # "absent"
      PROVE  jobs[j].revision \in 1..MaxRevision
  <2>1. jobs[j].revision \in Nat /\ jobs[j].revision # 0
    BY <1>2 DEF ExecInv, StoreInv, JobsOK, JobRecord, RevisionsOK
  <2>2. QED
    BY <1>2, <2>1, StoreAssumption DEF CanRevise
<1>3. ASSUME NEW j \in Job,
             \/ cancel(j, jobs[j].revision)
             \/ retry_failed(j, jobs[j].revision, clock)
      PROVE  OperatorNext
  <2>1. jobs[j].revision \in 1..MaxRevision
    BY <1>2, <1>3 DEF cancel, retry_failed
  <2>2. QED
    BY <1>1, <1>3, <2>1 DEF OperatorNext
<1>4. recover_expired_leases(clock) => OperatorNext
  BY <1>1 DEF recover_expired_leases, OperatorNext
<1>5. ClientNext
  BY <1>3, <1>4 DEF Operate, ClientNext
<1>6. QED
  BY <1>5, OperateSpares, StoreMoves, ClientIsStore DEF Operate

(* Time passes only as far as the guards of the handlers and the starts    *)
(* allow.                                                                  *)
LEMMA TickStep ==
    ASSUME ExecInv, Tick
    PROVE  ExecInv' /\ [ClientNext]_storeVars
<1>1. UNCHANGED <<storeVars, worker, crashes>> /\ clock' = clock + 1 /\ clock \in Nat
  BY DEF Tick, ExecInv
<1>2. StoreInv' /\ RevisionsOK' /\ clock' \in 0..Horizon
  BY <1>1, StoreSteps, ExecutorAssumption DEF Tick, ExecInv
<1>3. ASSUME NEW w \in Worker PROVE WorkerOK(w)'
  <2>1. WorkerOK(w) /\ worker[w] \in WorkerState
    BY DEF ExecInv, WorkerOK
  <2>2. /\ worker[w].now \in Nat /\ worker[w].start \in Nat
    BY <2>1 DEF WorkerState
  <2>3. ASSUME worker[w].pc \in {"claim", "preflight", "start"}
        PROVE  clock + 1 <= worker[w].now + StartDelay
    BY <1>1, <2>2, <2>3, ExecutorAssumption DEF Tick
  <2>4. ASSUME Is(w, "handler")
        PROVE  clock + 1 <= worker[w].start + ExecutionTimeout
    <3>1. jobs[worker[w].job].fingerprint \in Fingerprint
      BY <2>1, <2>4 DEF Is, WorkerOK, ExecInv, StoreInv, JobsOK, JobRecord
    <3>2. DeadlineOf[Fp(w)] \in Nat
      BY <3>1, ExecutorAssumption DEF Fp
    <3>3. EffectiveTimeout(w) \in Int /\ EffectiveTimeout(w) <= ExecutionTimeout
      BY <2>2, <3>2, ExecutorAssumption DEF EffectiveTimeout
    <3>4. clock < worker[w].start + EffectiveTimeout(w)
      BY <2>4 DEF Tick
    <3>5. QED
      BY <1>1, <2>2, <3>3, <3>4, ExecutorAssumption
  <2>5. InTime(w)'
    BY <1>1, <2>1, <2>2, <2>3, <2>4 DEF WorkerOK, InTime, Is
  <2>6. QED
    BY <1>1, <2>1, <2>5
       DEF WorkerOK, HoldsJob, HoldsLock, LeaseHeld, OverlapKeyHeldBy, Fp, storeVars
<1>4. LeasesApart'
  BY <1>1 DEF ExecInv, LeasesApart
<1>5. QED
  BY <1>1, <1>2, <1>3, <1>4 DEF ExecInv

LEMMA ExecInitInv == ExecInit => ExecInv
<1> SUFFICES ASSUME ExecInit PROVE ExecInv
  OBVIOUS
<1>1. StoreInv
  BY InitInv DEF ExecInit
<1>2. \A j \in Job : jobs[j].status = "absent"
  BY DEF ExecInit, StoreInit, AbsentRecord, pending_record
<1>3. IdleWorker \in WorkerState
  BY DEF IdleWorker, WorkerState, WorkerPc, NoLease
<1>4. /\ \A w \in Worker : worker[w] = IdleWorker
      /\ worker \in [Worker -> WorkerState]
      /\ clock = 0 /\ crashes = 0 /\ minted = 0
  BY <1>3 DEF ExecInit, StoreInit
<1>5. \A w \in Worker : WorkerOK(w)
  BY <1>3, <1>4 DEF WorkerOK, InTime, Is, IdleWorker, NoLease, InHand, Leased
<1>6. LeasesApart
  BY <1>4 DEF LeasesApart, IdleWorker
<1>7. QED
  BY <1>1, <1>2, <1>4, <1>5, <1>6, ExecutorAssumption DEF ExecInv, RevisionsOK

LEMMA ExecStep ==
    ASSUME ExecInv, [ExecNext]_execVars
    PROVE  ExecInv' /\ [StoreNext]_storeVars
<1>1. CASE UNCHANGED execVars
  <2>1. UNCHANGED storeVars /\ UNCHANGED <<clock, worker, crashes>>
    BY <1>1 DEF execVars
  <2>2. QED
    BY <2>1, UnchangedSpares, StoreMoves
<1>2. ASSUME NEW w \in Worker,
             (\E j \in Job : Begin(w, j)) \/ Run(w) \/ Ack(w) \/ Crash(w)
      PROVE  ExecInv' /\ [StoreNext]_storeVars
  BY <1>2, BeginStep, RunKeeps, ReturnStep, ClientIsStore DEF Served
<1>3. QED
  BY <1>1, <1>2, SubmitStep, OperateStep, TickStep, ClientIsStore DEF ExecNext

-----------------------------------------------------------------------------
(* While no invocation is lost, every running job is in the hands of the   *)
(* invocation whose lease it runs under.                                   *)

Holding == InHand \cup {"busy", "settle", "retry"}

Holder(w, j) ==
    /\ worker[w].pc \in Holding
    /\ worker[w].job = j
    /\ LeaseHeld(j, worker[w].lease)

HeldUnlessLost ==
    crashes = 0 =>
        \A j \in Job : jobs[j].status = "running" => \E w \in Worker : Holder(w, j)

(* No job comes to run, or to run under another lease.                     *)
NoneStarted ==
    \A j \in Job : jobs'[j].status = "running" =>
        jobs[j].status = "running" /\ jobs'[j].lease_id = jobs[j].lease_id

LEMMA HeldKept ==
    ASSUME ExecInv, HeldUnlessLost, NEW w \in Worker, NEW s,
           worker' = [worker EXCEPT ![w] = s], crashes' = 0 => crashes = 0, NoneStarted,
           \A j \in Job : Holder(w, j) /\ jobs'[j].status = "running" => Holder(w, j)'
    PROVE  HeldUnlessLost'
<1> SUFFICES ASSUME crashes = 0, NEW j \in Job, jobs'[j].status = "running"
             PROVE  \E v \in Worker : Holder(v, j)'
  BY DEF HeldUnlessLost
<1>1. PICK v \in Worker : Holder(v, j)
  BY DEF NoneStarted, HeldUnlessLost
<1>2. CASE v = w
  BY <1>1, <1>2
<1>3. CASE v # w
  <2>1. worker'[v] = worker[v]
    BY <1>3 DEF ExecInv
  <2>2. LeaseHeld(j, worker[v].lease)'
    BY <1>1, <2>1 DEF Holder, LeaseHeld, NoneStarted
  <2>3. QED
    BY <1>1, <2>1, <2>2 DEF Holder
<1>4. QED
  BY <1>2, <1>3

(* An invocation that keeps its job and lease while the records stay.      *)
LEMMA HeldByMover ==
    ASSUME ExecInv, HeldUnlessLost, NEW w \in Worker, NEW s,
           worker' = [worker EXCEPT ![w] = s], crashes' = crashes, jobs' = jobs,
           \/ worker[w].pc \notin Holding
           \/ ~LeaseHeld(worker[w].job, worker[w].lease)
           \/ /\ s.pc \in Holding /\ s.job = worker[w].job
              /\ s.lease = worker[w].lease
    PROVE  HeldUnlessLost'
<1>1. worker'[w] = s /\ NoneStarted
  BY DEF ExecInv, NoneStarted
<1>2. \A j \in Job : Holder(w, j) => Holder(w, j)'
  BY <1>1 DEF Holder, LeaseHeld
<1>3. QED
  BY <1>1, <1>2, HeldKept

LEMMA SettledStatus ==
    ASSUME NEW r \in JobRecord, NEW status, NEW lease, NEW outcome, NEW next
    PROVE  /\ Settled(r, status, lease, outcome).status = status
           /\ [Settled(r, status, lease, outcome) EXCEPT
                  !.available_at = next].status = status
BY DEF Settled, Transition, JobRecord

(* The job of a worker that settles or reschedules it does not run on.     *)
LEMMA HeldBySettler ==
    ASSUME ExecInv, HeldUnlessLost, NEW w \in Worker, NEW s,
           worker' = [worker EXCEPT ![w] = s], crashes' = crashes,
           worker[w].job \in Job,
           \/ complete(worker[w].job, worker[w].lease)
           \/ fail_permanently(worker[w].job, worker[w].lease)
           \/ \E next \in Instant :
                 schedule_retry_and_publish(worker[w].job, worker[w].lease, next)
    PROVE  HeldUnlessLost'
<1> DEFINE i == worker[w].job
           r == jobs[i]
<1>1. r \in JobRecord /\ jobs \in [Job -> JobRecord]
  BY DEF ExecInv, StoreInv, JobsOK
<1>2. PICK q : jobs' = [jobs EXCEPT ![i] = q] /\ q.status # "running"
  <2>1. CASE complete(i, worker[w].lease)
    <3>1. Settled(r, "succeeded", worker[w].lease, "succeeded").status = "succeeded"
      BY <1>1, SettledStatus
    <3>2. QED
      BY <2>1, <3>1 DEF complete
  <2>2. CASE fail_permanently(i, worker[w].lease)
    <3>1. Settled(r, "failed_permanently", worker[w].lease,
                  "failed_permanently").status = "failed_permanently"
      BY <1>1, SettledStatus
    <3>2. QED
      BY <2>2, <3>1 DEF fail_permanently
  <2>3. ASSUME NEW next \in Instant,
               schedule_retry_and_publish(i, worker[w].lease, next)
        PROVE  \E q : jobs' = [jobs EXCEPT ![i] = q] /\ q.status # "running"
    <3>1. [Settled(r, "pending", worker[w].lease, "retried") EXCEPT
              !.available_at = next].status = "pending"
      BY <1>1, SettledStatus
    <3>2. QED
      BY <2>3, <3>1 DEF schedule_retry_and_publish
  <2>4. QED
    BY <2>1, <2>2, <2>3
<1>3. \A j \in Job : jobs'[j] = IF j = i THEN q ELSE jobs[j]
  BY <1>1, <1>2
<1>4. NoneStarted
  BY <1>2, <1>3 DEF NoneStarted
<1>5. \A j \in Job : Holder(w, j) => jobs'[j].status # "running"
  BY <1>2, <1>3 DEF Holder
<1>6. QED
  BY <1>4, <1>5, HeldKept

LEMMA ClaimHeld ==
    ASSUME ExecInv, HeldUnlessLost, NEW w \in Worker, Claim(w)
    PROVE  HeldUnlessLost'
<1> DEFINE o == worker[w]
<1>1. /\ o.pc = "claim" /\ o.pc \notin Holding /\ o.job \in Job /\ o \in WorkerState
      /\ crashes' = crashes
  BY Presented DEF Claim, Is, KeepOthers, Holding, InHand
<1>2. CASE UNCHANGED storeVars /\ Done(w)
  BY <1>1, <1>2, HeldByMover DEF Done, storeVars
<1>3. CASE /\ claim_execution(o.job, o.now + ExecutionLease, o.now)
           /\ worker' = [worker EXCEPT ![w] =
                 [@ EXCEPT !.pc = "preflight", !.lease = FreshLease,
                           !.attempt = jobs[o.job].attempt_count + 1]]
  <2> SUFFICES ASSUME crashes = 0, NEW j \in Job, jobs'[j].status = "running"
               PROVE  \E v \in Worker : Holder(v, j)'
    BY <1>1 DEF HeldUnlessLost
  <2> DEFINE r == jobs[o.job]
             q == Claimed(r, minted + 1, o.now + ExecutionLease)
             s == [o EXCEPT !.pc = "preflight", !.lease = minted + 1,
                            !.attempt = r.attempt_count + 1]
  <2>1. /\ r \in JobRecord /\ jobs' = [jobs EXCEPT ![o.job] = q]
        /\ worker' = [worker EXCEPT ![w] = s]
    BY <1>1, <1>3 DEF claim_execution, FreshLease, ExecInv, StoreInv, JobsOK
  <2>2. q.status = "running" /\ q.lease_id = minted + 1
    BY <2>1 DEF Claimed, JobRecord
  <2>3. s.pc = "preflight" /\ s.job = o.job /\ s.lease = minted + 1
    BY <1>1 DEF WorkerState
  <2> HIDE DEF q, s, r
  <2>4. worker'[w] = s /\ jobs'[j] = IF j = o.job THEN q ELSE jobs[j]
    BY <1>1, <2>1 DEF ExecInv, StoreInv, JobsOK
  <2>5. CASE j = o.job
    BY <2>2, <2>3, <2>4, <2>5 DEF Holder, LeaseHeld, Holding, InHand
  <2>6. CASE j # o.job
    <3>1. PICK v \in Worker : Holder(v, j)
      BY <2>4, <2>6 DEF HeldUnlessLost
    <3>2. v # w
      BY <1>1, <3>1 DEF Holder
    <3>3. worker'[v] = worker[v]
      BY <2>1, <3>2 DEF ExecInv
    <3>4. QED
      BY <2>4, <2>6, <3>1, <3>3 DEF Holder, LeaseHeld
  <2>7. QED
    BY <2>5, <2>6
<1>4. QED
  BY <1>2, <1>3 DEF Claim

LEMMA FencedOutHeld ==
    ASSUME ExecInv, HeldUnlessLost, NEW w \in Worker, FencedOut(w), crashes' = crashes
    PROVE  HeldUnlessLost'
BY HeldByMover DEF FencedOut, Return, storeVars

LEMMA SettlingHeld ==
    ASSUME ExecInv, HeldUnlessLost, NEW w \in Worker,
           PreflightFail(w) \/ Busy(w) \/ Complete(w) \/ Fail(w) \/ Retry(w)
    PROVE  HeldUnlessLost'
<1>1. worker[w].job \in Job /\ crashes' = crashes
  BY Presented DEF PreflightFail, Busy, Complete, Fail, Retry, Is, KeepOthers,
                   Leased, InHand
<1>2. /\ worker[w].now + OverlapRetryDelay \in Instant
      /\ worker[w].now + RetryDelay \in Instant
  BY Presented
<1>3. CASE FencedOut(w)
  BY <1>1, <1>3, FencedOutHeld
<1>4. CASE ~FencedOut(w)
  <2>1. \E s : worker' = [worker EXCEPT ![w] = s]
    BY <1>4 DEF PreflightFail, Busy, Complete, Fail, Retry, Done, Goto
  <2>2. \/ complete(worker[w].job, worker[w].lease)
        \/ fail_permanently(worker[w].job, worker[w].lease)
        \/ \E next \in Instant :
              schedule_retry_and_publish(worker[w].job, worker[w].lease, next)
    BY <1>2, <1>4 DEF PreflightFail, Busy, Complete, Fail, Retry
  <2>3. QED
    BY <1>1, <2>1, <2>2, HeldBySettler
<1>5. QED
  BY <1>3, <1>4

LEMMA StayingHeld ==
    ASSUME ExecInv, HeldUnlessLost, NEW w \in Worker,
           \/ Acquire(w) \/ StartHandler(w) \/ FinishHandler(w)
           \/ Release(w) \/ ReleaseBeforeRetry(w)
    PROVE  HeldUnlessLost'
<1> DEFINE o == worker[w]
<1>1. o \in WorkerState
  BY Presented
<1>2. jobs' = jobs /\ crashes' = crashes
  BY DEF Acquire, StartHandler, FinishHandler, Release, ReleaseBeforeRetry,
         KeepOthers, ReleaseLock, acquire, release, SetLock, storeVars
<1>3. CASE Release(w)
  <2>1. o.pc \notin Holding
    BY <1>3 DEF Release, Is, Holding, InHand
  <2>2. QED
    BY <1>2, <1>3, <2>1, HeldByMover DEF Release, Done
<1>4. CASE ~Release(w)
  <2>1. PICK s : /\ worker' = [worker EXCEPT ![w] = s]
                 /\ s.pc \in {"start", "busy", "handler", "settle", "retry"}
                 /\ s.job = o.job /\ s.lease = o.lease
    <3>1. CASE Acquire(w) \/ ReleaseBeforeRetry(w)
      <4>1. PICK pc \in {"start", "busy", "retry"} : Goto(w, pc)
        BY <3>1 DEF Acquire, ReleaseBeforeRetry
      <4> DEFINE s == [o EXCEPT !.pc = pc]
      <4>2. s.pc = pc /\ s.job = o.job /\ s.lease = o.lease
        BY <1>1 DEF WorkerState
      <4>3. worker' = [worker EXCEPT ![w] = s]
        BY <4>1 DEF Goto
      <4> HIDE DEF s
      <4>4. QED
        BY <4>2, <4>3
    <3>2. CASE StartHandler(w)
      <4> DEFINE s == [o EXCEPT !.pc = "handler", !.start = clock]
      <4>1. s.pc = "handler" /\ s.job = o.job /\ s.lease = o.lease
        BY <1>1 DEF WorkerState
      <4>2. worker' = [worker EXCEPT ![w] = s]
        BY <3>2 DEF StartHandler
      <4> HIDE DEF s
      <4>3. QED
        BY <4>1, <4>2
    <3>3. CASE FinishHandler(w)
      <4>1. PICK outcome : worker' = [worker EXCEPT ![w] =
               [@ EXCEPT !.pc = "settle", !.now = clock, !.start = 0, !.outcome = outcome]]
        BY <3>3 DEF FinishHandler
      <4> DEFINE s == [o EXCEPT !.pc = "settle", !.now = clock, !.start = 0,
                                !.outcome = outcome]
      <4>2. s.pc = "settle" /\ s.job = o.job /\ s.lease = o.lease
        BY <1>1 DEF WorkerState
      <4>3. worker' = [worker EXCEPT ![w] = s]
        BY <4>1
      <4> HIDE DEF s
      <4>4. QED
        BY <4>2, <4>3
    <3>4. QED
      BY <1>4, <3>1, <3>2, <3>3
  <2>2. s.pc \in Holding
    BY <2>1 DEF Holding, InHand
  <2>3. QED
    BY <1>2, <2>1, <2>2, HeldByMover
<1>5. QED
  BY <1>3, <1>4

LEMMA RunHeld ==
    ASSUME ExecInv, HeldUnlessLost, NEW w \in Worker, Run(w)
    PROVE  HeldUnlessLost'
BY ClaimHeld, SettlingHeld, StayingHeld DEF Run

(* An invocation that has not claimed, or is over, holds nothing.          *)
LEMMA IdleHeld ==
    ASSUME ExecInv, HeldUnlessLost, NEW w \in Worker,
           (\E j \in Job : Begin(w, j)) \/ Ack(w)
    PROVE  HeldUnlessLost'
<1>1. worker[w].pc \notin Holding /\ jobs' = jobs /\ crashes' = crashes
  BY DEF Begin, Ack, Is, KeepOthers, Holding, InHand, storeVars
<1>2. \E s : worker' = [worker EXCEPT ![w] = s]
  BY DEF Begin, Ack, Return
<1>3. QED
  BY <1>1, <1>2, HeldByMover

(* Neither a submission nor an operator starts a job.                      *)
LEMMA OthersHeld ==
    ASSUME ExecInv, HeldUnlessLost, NoneStarted, UNCHANGED <<worker, crashes>>
    PROVE  HeldUnlessLost'
BY DEF HeldUnlessLost, NoneStarted, Holder, LeaseHeld

LEMMA InsertStartsNone ==
    ASSUME ExecInv, NEW j \in Job, NEW k, NEW f, NEW at, NEW status,
           Insert(j, k, f, at, status)
    PROVE  NoneStarted
<1> DEFINE q == pending_record(k, f, at)
<1>1. jobs' = [jobs EXCEPT ![j] = q] /\ q.status # "running"
  BY DEF Insert, pending_record
<1> HIDE DEF q
<1>2. \A i \in Job : jobs'[i] = IF i = j THEN q ELSE jobs[i]
  BY <1>1 DEF ExecInv, StoreInv, JobsOK
<1>3. QED
  BY <1>1, <1>2 DEF NoneStarted

LEMMA OperateStartsNone ==
    ASSUME ExecInv, Operate PROVE NoneStarted
<1>1. jobs \in [Job -> JobRecord]
  BY DEF ExecInv, StoreInv, JobsOK
<1>2. ASSUME NEW j \in Job, NEW q, jobs' = [jobs EXCEPT ![j] = q], q.status # "running"
      PROVE  NoneStarted
  BY <1>1, <1>2 DEF NoneStarted
<1>3. ASSUME NEW j \in Job, cancel(j, jobs[j].revision) PROVE NoneStarted
  <2>1. Transition(jobs[j], "cancelled").status = "cancelled"
    BY <1>1 DEF Transition, JobRecord
  <2>2. QED
    BY <1>2, <1>3, <2>1 DEF cancel
<1>4. ASSUME NEW j \in Job, retry_failed(j, jobs[j].revision, clock) PROVE NoneStarted
  <2> DEFINE q == [Reopened(jobs[j], clock) EXCEPT !.attempt_count = 0]
  <2>1. q.status = "pending"
    BY <1>1 DEF Reopened, Transition, JobRecord
  <2>2. jobs' = [jobs EXCEPT ![j] = q]
    BY <1>4 DEF retry_failed
  <2> HIDE DEF q
  <2>3. QED
    BY <1>2, <2>1, <2>2
<1>5. ASSUME recover_expired_leases(clock) PROVE NoneStarted
  <2>1. \A j \in Job : Reopened(jobs[j], clock).status = "pending"
    BY <1>1 DEF Reopened, Transition, JobRecord
  <2>2. QED
    BY <1>5, <2>1 DEF recover_expired_leases, RecoverLeases, NoneStarted
<1>6. QED
  BY <1>3, <1>4, <1>5 DEF Operate

-----------------------------------------------------------------------------
(* The invariant, and what it says.                                        *)

THEOREM ExecInvariant == ExecSpec => []ExecInv
<1>1. ExecInit => ExecInv
  BY ExecInitInv
<1>2. ExecInv /\ [ExecNext]_execVars => ExecInv'
  BY ExecStep
<1>3. QED
  BY <1>1, <1>2, PTL DEF ExecSpec

(* Whatever the workers, operators and crashes do between the calls, the   *)
(* durable state changes only as the operations of the store change it, so *)
(* every theorem about the store holds of it.                              *)
THEOREM ExecutorUsesStore == ExecSpec => StoreSpec
<1>1. ExecInit => StoreInit
  BY DEF ExecInit
<1>2. ExecInv /\ [ExecNext]_execVars => [StoreNext]_storeVars
  BY ExecStep
<1>3. QED
  BY <1>1, <1>2, ExecInvariant, PTL DEF ExecSpec, StoreSpec

LEMMA ExecInvTypes == ExecInv => ExecTypeOK
BY DEF ExecInv, StoreInv, JobsOK, PublicationsOK, KeysOK, LocksOK, ExecTypeOK, TypeOK

LEMMA ExecInvHolds == ExecInv => HandlerHoldsLease
BY DEF ExecInv, WorkerOK, HandlerHoldsLease, HoldsJob, Is, InHand

LEMMA ExecInvConcurrent == ExecInv => NoConcurrentHandlers
<1> SUFFICES ASSUME ExecInv, NEW u \in Worker, NEW v \in Worker,
                    Is(u, "handler"), Is(v, "handler"),
                    worker[u].job = worker[v].job
             PROVE  u = v
  BY DEF NoConcurrentHandlers
<1>1. HoldsJob(u) /\ HoldsJob(v) /\ worker[u].lease # NoLease
  BY DEF ExecInv, WorkerOK, InHand, Leased, Is
<1>2. worker[u].lease = worker[v].lease
  BY <1>1 DEF HoldsJob, LeaseHeld
<1>3. QED
  BY <1>1, <1>2 DEF ExecInv, LeasesApart

LEMMA ExecInvOverlap == ExecInv => NoOverlappingHandlers
<1> SUFFICES ASSUME ExecInv, NEW u \in Worker, NEW v \in Worker,
                    Is(u, "handler"), Is(v, "handler"),
                    OverlapKeyHeldBy(u) = OverlapKeyHeldBy(v),
                    OverlapKeyHeldBy(u) # NoOverlapKey
             PROVE  u = v
  BY DEF NoOverlappingHandlers
<1>1. HoldsLock(u) /\ HoldsLock(v) /\ worker[u].lease # NoLease
  BY DEF ExecInv, WorkerOK, InHand, Leased, Is
<1>2. worker[u].lease = worker[v].lease
  BY <1>1 DEF HoldsLock
<1>3. QED
  BY <1>1, <1>2 DEF ExecInv, LeasesApart

(* Worker invocations and the store keep the shape the code gives them.    *)
THEOREM ExecutorTypeCorrect == ExecSpec => []ExecTypeOK
BY ExecInvariant, ExecInvTypes, PTL

(* A handler in progress still holds its job, whatever was recovered,      *)
(* cancelled, claimed or delivered twice meanwhile.                        *)
THEOREM HandlersHoldTheirLease == ExecSpec => []HandlerHoldsLease
BY ExecInvariant, ExecInvHolds, PTL

(* Two handlers never run one job at the same time, for any number of      *)
(* workers, jobs, deliveries and crashes, as long as handler timeout and   *)
(* start delay together stay below the execution lease.                    *)
THEOREM HandlersNeverConcurrent == ExecSpec => []NoConcurrentHandlers
BY ExecInvariant, ExecInvConcurrent, PTL

(* Jobs that share an overlap key never run at the same time               *)
(* (without_overlapping), although lock and lease are separate calls.      *)
THEOREM HandlersNeverOverlap == ExecSpec => []NoOverlappingHandlers
BY ExecInvariant, ExecInvOverlap, PTL

=============================================================================
