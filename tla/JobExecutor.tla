---------------------------- MODULE JobExecutor -----------------------------
(***************************************************************************)
(* JobExecutor::run: worker invocations that execute jobs of the durable   *)
(* store, one store call at a time.  Every await on the store is a step    *)
(* boundary; the clock is the true time, and an invocation acts on the     *)
(* reading it took earlier (`now` in the code), which it therefore keeps.  *)
(*                                                                         *)
(* The transport is left open: any invocation may be started for any       *)
(* stored job at any time, which covers every duplicated, delayed or       *)
(* reordered delivery.  JobsSystem adds the queue and the publisher.       *)
(***************************************************************************)
EXTENDS JobStore

CONSTANTS
    Worker,             \* worker invocations that may run at once
    NoOverlapKey,       \* envelope.overlap_key == None
    OverlapKeyOf,       \* fingerprint -> overlap key; the fingerprint covers it
    MaximumAttempts,    \* fingerprint -> maximum_attempts
    DeadlineOf,         \* fingerprint -> deadline; far off if it has none
    KeyOf,              \* job -> the dedupe key it is submitted with
    FingerprintOf,      \* job -> what it is submitted with
    Submitted,          \* jobs an application submits durably
    ExecutionLease,     \* JobExecutor::execution_lease
    ExecutionTimeout,   \* JobExecutor::execution_timeout
    StartDelay,         \* assumed: reading the clock to starting the handler
    OverlapRetryDelay,  \* OVERLAP_RETRY_DELAY
    RetryDelay,         \* RetryPolicy::delay_for_attempt
    MaxCrashes,         \* bound: worker invocations lost
    Operators,          \* operator actions in use
    Horizon             \* bound: the last instant

OperatorAction == {"cancel", "retry_failed", "recover_expired_leases"}

ASSUME ExecutorAssumption ==
    /\ NoOverlapKey \notin OverlapKey
    /\ OverlapKeyOf \in [Fingerprint -> OverlapKey \cup {NoOverlapKey}]
    /\ MaximumAttempts \in [Fingerprint -> Nat \ {0}]
    /\ DeadlineOf \in [Fingerprint -> Nat]
    /\ KeyOf \in [Job -> DedupeKey \cup {NoKey}]
    /\ FingerprintOf \in [Job -> Fingerprint]
    /\ Submitted \subseteq Job
    /\ ExecutionLease \in Nat /\ ExecutionTimeout \in Nat
    /\ StartDelay \in Nat /\ OverlapRetryDelay \in Nat /\ RetryDelay \in Nat
    /\ MaxCrashes \in Nat
    /\ Operators \subseteq OperatorAction
    /\ Horizon \in Nat
    /\ \A t \in 0..Horizon :
          {t, t + ExecutionLease, t + OverlapRetryDelay, t + RetryDelay}
              \subseteq Instant

(* A handler that starts within StartDelay of the worker's clock reading   *)
(* is over before the lease and the overlap lock taken at that reading     *)
(* expire: 300 s + delay < 15 min with the defaults of services.rs.        *)
ASSUME LeaseOutlivesHandler == StartDelay + ExecutionTimeout < ExecutionLease

VARIABLES
    clock,    \* true time
    worker,   \* worker invocations
    crashes   \* invocations lost so far

execVars == <<storeVars, clock, worker, crashes>>

-----------------------------------------------------------------------------
(* Worker state.  now is the clock reading in use: run reads the clock     *)
(* before the claim and again when the handler is over.                    *)

IdleWorker == [pc |-> "idle", job |-> NoJob, now |-> 0, lease |-> NoLease,
               attempt |-> 0, start |-> 0, outcome |-> "none"]

Is(w, pc) == worker[w].pc = pc

Goto(w, pc) == worker' = [worker EXCEPT ![w].pc = pc]

(* run returns a disposition, which the worker acknowledges: nothing else  *)
(* of the invocation is used any more.                                     *)
Done(w) == worker' = [worker EXCEPT ![w] = [IdleWorker EXCEPT !.pc = "ack"]]

(* The invocation is over: acknowledged, failed or lost.                   *)
Return(w) == worker' = [worker EXCEPT ![w] = IdleWorker]

Fp(w) == jobs[worker[w].job].fingerprint

OverlapKeyHeldBy(w) == OverlapKeyOf[Fp(w)]

(* tokio::time::timeout of the handler: the configured timeout or what the *)
(* deadline leaves, counted from the reading taken before the claim.       *)
EffectiveTimeout(w) ==
    LET left == DeadlineOf[Fp(w)] - worker[w].now
    IN  IF left < ExecutionTimeout THEN left ELSE ExecutionTimeout

KeepOthers == UNCHANGED <<clock, crashes>>

(* LeaseFencedOut: the worker's lease is not the record's any more; the    *)
(* error ends the invocation and nothing is given back.                    *)
FencedOut(w) ==
    /\ ~LeaseHeld(worker[w].job, worker[w].lease)
    /\ Return(w)
    /\ UNCHANGED storeVars

-----------------------------------------------------------------------------
(* JobExecutor::run.                                                       *)

(* The invocation reads the clock and is about to claim job j.             *)
Begin(w, j) ==
    /\ Is(w, "idle")
    /\ jobs[j].status # "absent"
    /\ worker' = [worker EXCEPT ![w] =
                     [IdleWorker EXCEPT !.pc = "claim", !.job = j, !.now = clock]]
    /\ UNCHANGED storeVars /\ KeepOthers

(* The claim, made at the reading taken before it.  Without a claim the    *)
(* delivery is skipped, whether the job turns out terminal, leased or not  *)
(* yet available: the worker acknowledges all three.                       *)
Claim(w) ==
    LET s == worker[w]
    IN  /\ Is(w, "claim")
        /\ \/ /\ claim_execution(s.job, s.now + ExecutionLease, s.now)
              /\ worker' = [worker EXCEPT ![w] =
                    [@ EXCEPT !.pc = "preflight", !.lease = FreshLease,
                              !.attempt = jobs[s.job].attempt_count + 1]]
           \/ /\ ~Claimable(s.job, s.now)
              /\ Done(w)
              /\ UNCHANGED storeVars
        /\ KeepOthers

(* The delivery fails before the handler starts: its deadline is over at   *)
(* the reading, or this worker cannot resolve the job's name or version or *)
(* finds that the delivery differs from the record (any job may meet it).  *)
PreflightFail(w) ==
    /\ Is(w, "preflight")
    /\ \/ fail_permanently(worker[w].job, worker[w].lease) /\ Done(w)
       \/ FencedOut(w)
    /\ KeepOthers

(* The overlap lock, taken for the lease's time from the same reading.     *)
Acquire(w) ==
    LET s == worker[w]
        k == OverlapKeyHeldBy(w)
    IN  /\ Is(w, "preflight")
        /\ s.now < DeadlineOf[Fp(w)]
        /\ IF k = NoOverlapKey
           THEN Goto(w, "start") /\ UNCHANGED storeVars
           ELSE \/ /\ acquire(k, s.lease, s.now + ExecutionLease, s.now)
                   /\ Goto(w, "start")
                \/ /\ ~LockFree(k, s.now)
                   /\ Goto(w, "busy")
                   /\ UNCHANGED storeVars
        /\ KeepOthers

(* The lock is busy: the job is rescheduled whatever its attempt count.    *)
(* (The release before it finds another owner and changes nothing.)        *)
Busy(w) ==
    LET s == worker[w]
    IN  /\ Is(w, "busy")
        /\ \/ /\ schedule_retry_and_publish(s.job, s.lease,
                                            s.now + OverlapRetryDelay)
              /\ Done(w)
           \/ FencedOut(w)
        /\ KeepOthers

StartHandler(w) ==
    /\ Is(w, "start")
    /\ worker' = [worker EXCEPT ![w] = [@ EXCEPT !.pc = "handler", !.start = clock]]
    /\ UNCHANGED storeVars /\ KeepOthers

(* The handler returns, fails or is cut off by the timeout, and the clock  *)
(* is read again.  A timeout is a retryable failure.                       *)
FinishHandler(w) ==
    /\ Is(w, "handler")
    /\ \E outcome \in {"ok", "permanent", "retryable"} :
          worker' = [worker EXCEPT ![w] =
              [@ EXCEPT !.pc = "settle", !.now = clock, !.start = 0, !.outcome = outcome]]
    /\ UNCHANGED storeVars /\ KeepOthers

(* No further attempt: handler classification, attempts exhausted, or the  *)
(* retry would start at or after the deadline.                             *)
Exhausted(w) ==
    LET s == worker[w]
    IN  \/ s.outcome = "permanent"
        \/ s.attempt >= MaximumAttempts[Fp(w)]
        \/ s.now + RetryDelay >= DeadlineOf[Fp(w)]

(* Mutant: the worker writes the outcome itself, not through the store.    *)
MutantCompleteInPlace(w) ==
    /\ Is(w, "settle") /\ worker[w].outcome = "ok"
    /\ \/ /\ LeaseHeld(worker[w].job, worker[w].lease)
          /\ jobs' = [jobs EXCEPT ![worker[w].job].status = "succeeded"]
          /\ Goto(w, "release")
          /\ UNCHANGED <<fingerprints, publications, locks, minted>>
       \/ FencedOut(w)
    /\ KeepOthers

Complete(w) ==
    /\ Is(w, "settle") /\ worker[w].outcome = "ok"
    /\ \/ complete(worker[w].job, worker[w].lease) /\ Goto(w, "release")
       \/ FencedOut(w)
    /\ KeepOthers

Fail(w) ==
    /\ Is(w, "settle") /\ worker[w].outcome # "ok" /\ Exhausted(w)
    /\ \/ fail_permanently(worker[w].job, worker[w].lease) /\ Goto(w, "release")
       \/ FencedOut(w)
    /\ KeepOthers

(* Give the lock back if this lease still owns it.                         *)
ReleaseLock(w) ==
    LET k == OverlapKeyHeldBy(w)
    IN  \/ k # NoOverlapKey /\ release(k, worker[w].lease)
        \/ /\ k # NoOverlapKey => locks[k].owner # worker[w].lease
           /\ UNCHANGED storeVars

(* After complete or fail_permanently.                                     *)
Release(w) == Is(w, "release") /\ ReleaseLock(w) /\ Done(w) /\ KeepOthers

(* A retry releases the lock first and reschedules after that.             *)
ReleaseBeforeRetry(w) ==
    /\ Is(w, "settle") /\ worker[w].outcome = "retryable" /\ ~Exhausted(w)
    /\ ReleaseLock(w) /\ Goto(w, "retry") /\ KeepOthers

(* Mutant: the retry is never stored.                                      *)
MutantRetryForgotten(w) ==
    /\ Is(w, "retry")
    /\ Done(w)
    /\ UNCHANGED storeVars /\ KeepOthers

Retry(w) ==
    LET s == worker[w]
    IN  /\ Is(w, "retry")
        /\ \/ /\ schedule_retry_and_publish(s.job, s.lease, s.now + RetryDelay)
              /\ Done(w)
           \/ FencedOut(w)
        /\ KeepOthers

(* run returned a disposition: the message is acknowledged.                *)
Ack(w) ==
    /\ Is(w, "ack")
    /\ Return(w)
    /\ UNCHANGED storeVars /\ KeepOthers

(* The invocation is lost (the process dies, or a store error ends it):    *)
(* nothing it holds is given back.                                         *)
Crash(w) ==
    /\ ~Is(w, "idle")
    /\ crashes < MaxCrashes
    /\ crashes' = crashes + 1
    /\ Return(w)
    /\ UNCHANGED <<storeVars, clock>>

(* The steps of an invocation between its start and its return.            *)
Run(w) ==
    \/ Claim(w) \/ PreflightFail(w) \/ Acquire(w) \/ Busy(w)
    \/ StartHandler(w) \/ FinishHandler(w)
    \/ Complete(w) \/ Fail(w) \/ Release(w)
    \/ ReleaseBeforeRetry(w) \/ Retry(w)

-----------------------------------------------------------------------------
(* Applications, operators and time.                                       *)

(* submit_durable.                                                         *)
Submit(j) ==
    /\ j \in Submitted
    /\ enqueue_with_intent(j, KeyOf[j], FingerprintOf[j], clock)
    /\ UNCHANGED <<clock, worker, crashes>>

(* An operator presents the revision it inspected; only an inspection that *)
(* is still current has an effect.                                         *)
Operate ==
    /\ \/ /\ "cancel" \in Operators
          /\ \E j \in Job : cancel(j, jobs[j].revision)
       \/ /\ "retry_failed" \in Operators
          /\ \E j \in Job : retry_failed(j, jobs[j].revision, clock)
       \/ /\ "recover_expired_leases" \in Operators
          /\ recover_expired_leases(clock)
    /\ UNCHANGED <<clock, worker, crashes>>

(* Time passes, but not so far that a handler outruns its timeout or a     *)
(* worker takes longer than StartDelay from its reading to its handler.    *)
Tick ==
    /\ clock < Horizon
    /\ \A w \in Worker :
          /\ worker[w].pc \in {"claim", "preflight", "start"} =>
                 clock < worker[w].now + StartDelay
          /\ Is(w, "handler") =>
                 clock < worker[w].start + EffectiveTimeout(w)
    /\ clock' = clock + 1
    /\ UNCHANGED <<storeVars, worker, crashes>>

ExecInit ==
    /\ StoreInit
    /\ clock = 0
    /\ worker = [w \in Worker |-> IdleWorker]
    /\ crashes = 0

ExecNext ==
    \/ \E w \in Worker :
          \/ \E j \in Job : Begin(w, j)
          \/ Run(w) \/ Ack(w) \/ Crash(w)
    \/ \E j \in Job : Submit(j)
    \/ Operate
    \/ Tick

ExecSpec == ExecInit /\ [][ExecNext]_execVars

-----------------------------------------------------------------------------
(* Properties.                                                             *)

WorkerPc == {"idle", "claim", "preflight", "busy", "start", "handler",
             "settle", "release", "retry", "ack"}

WorkerState ==
    [pc : WorkerPc, job : Job \cup {NoJob}, now : Nat, lease : Nat,
     attempt : Nat, start : Nat, outcome : {"none", "ok", "permanent", "retryable"}]

(* Worker invocations keep the shape JobExecutor::run gives them, and the  *)
(* store keeps its own.                                                    *)
ExecTypeOK ==
    /\ TypeOK
    /\ clock \in 0..Horizon
    /\ worker \in [Worker -> WorkerState]
    /\ crashes \in 0..MaxCrashes

(* No two handlers of one job run at the same time: the execution claim    *)
(* keeps a duplicate delivery out until the lease is over, and the handler *)
(* is over by then, whoever crashed, was delayed or was reclaimed.         *)
NoConcurrentHandlers ==
    \A u, v \in Worker :
        /\ Is(u, "handler") /\ Is(v, "handler")
        /\ worker[u].job = worker[v].job
        => u = v

(* No two handlers whose jobs share an overlap key run at the same time    *)
(* (without_overlapping), although lock and lease are taken in two calls,  *)
(* given back in two calls and may be left behind by a crash.              *)
NoOverlappingHandlers ==
    \A u, v \in Worker :
        /\ Is(u, "handler") /\ Is(v, "handler")
        /\ OverlapKeyHeldBy(u) = OverlapKeyHeldBy(v)
        /\ OverlapKeyHeldBy(u) # NoOverlapKey
        => u = v

(* A worker that runs a handler still holds its job: the record is running *)
(* under the worker's lease, so cancelling, recovering or reclaiming it    *)
(* never happens under a handler in progress.                              *)
HandlerHoldsLease ==
    \A w \in Worker : Is(w, "handler") => LeaseHeld(worker[w].job, worker[w].lease)

(* "a handler is never started when no positive budget remains"            *)
(* (services.rs): a handler that runs was started before its deadline.     *)
StartedBeforeDeadline ==
    \A w \in Worker : Is(w, "handler") => worker[w].start < DeadlineOf[Fp(w)]
=============================================================================
