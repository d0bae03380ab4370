------------------------------ MODULE JobStore ------------------------------
(***************************************************************************)
(* The durable job store of minco-plugin-jobs: job records, the dedupe     *)
(* index, publication generations (the transactional outbox of the jobs)   *)
(* and overlap locks.  MemoryJobStore is the reference semantics of the    *)
(* SQL adapters; every port method runs under one lock (one transaction in *)
(* the adapters) and is therefore ONE action here.                         *)
(*                                                                         *)
(* The client is the most general one.  A caller may present any clock     *)
(* reading (workers' clocks are not synchronised and a reading can be      *)
(* stale), any lease identity that was ever minted (a late worker still    *)
(* holds an old claim) and any revision.  A call the store refuses         *)
(* (fenced out, conflict, not claimable) changes nothing and is a          *)
(* stuttering step, so it is not written down as an action of its own.     *)
(***************************************************************************)
EXTENDS Integers, Sequences, FiniteSets

CONSTANTS
    Job,                  \* job identities (Uuid)
    DedupeKey,            \* dedupe keys
    NoKey,                \* envelope.dedupe_key == None
    NoJob,                \* fingerprints has no entry for the key
    Fingerprint,          \* what semantic_fingerprint tells apart
    OverlapKey,           \* overlap keys
    Instant,              \* clock readings and availability times
    DispatchLimit,        \* largest claim_due limit (100 in the code)
    MAX_ATTEMPT_HISTORY,  \* entries retained on a record (25 in the code)
    MaxLeases,            \* bound: leases minted in one behaviour
    MaxRevision,          \* bound: revisions of one record
    MaxGenerations        \* bound: publication generations of one job

ASSUME StoreAssumption ==
    /\ Instant \subseteq Nat
    /\ NoKey \notin DedupeKey
    /\ NoJob \notin Job
    /\ Fingerprint # {}
    /\ DispatchLimit \in Nat \ {0}
    /\ MAX_ATTEMPT_HISTORY \in Nat \ {0}
    /\ MaxLeases \in Nat
    /\ MaxRevision \in Nat
    /\ MaxGenerations \in Nat

VARIABLES
    jobs,          \* MemoryState.jobs
    fingerprints,  \* MemoryState.fingerprints: dedupe key -> job
    publications,  \* MemoryState.publications, by job and generation
    locks,         \* MemoryState.locks: overlap key -> (owner, expiry)
    minted         \* Uuid::now_v7 as a counter: leases 1..minted exist

storeVars == <<jobs, fingerprints, publications, locks, minted>>

NoLease == 0

-----------------------------------------------------------------------------
(* Records.                                                                *)

TerminalStatus == {"succeeded", "failed_permanently", "cancelled"}

JobStatus == {"absent", "pending", "running"} \cup TerminalStatus

(* One history entry.  record_attempt also keeps the time and the failure  *)
(* code, which nothing reads back.                                         *)
JobAttempt ==
    [attempt : Nat, lease : Nat,
     outcome : {"succeeded", "retried", "failed_permanently"}]

JobRecord ==
    [status : JobStatus, key : DedupeKey \cup {NoKey},
     fingerprint : Fingerprint, available_at : Nat, revision : Nat,
     lease_id : Nat, lease_expires_at : Nat, attempt_count : Nat,
     attempts : Seq(JobAttempt)]

PublicationStatus == {"pending", "claimed", "published", "failed"}

(* The index in publications[j] is JobPublication::generation.             *)
JobPublication ==
    [status : PublicationStatus, available_at : Nat,
     lease_id : Nat, claim_expires_at : Nat]

Lock == [owner : Nat, expires_at : Nat]

NoLock == [owner |-> NoLease, expires_at |-> 0]

(* pending_record: the record a submission is stored as.                   *)
pending_record(k, f, at) ==
    [status |-> "pending", key |-> k, fingerprint |-> f,
     available_at |-> at, revision |-> 1, lease_id |-> NoLease,
     lease_expires_at |-> 0, attempt_count |-> 0, attempts |-> <<>>]

(* The identity is not in MemoryState.jobs.                                *)
AbsentRecord ==
    [pending_record(NoKey, CHOOSE f \in Fingerprint : TRUE, 0) EXCEPT
        !.status = "absent", !.revision = 0]

(* Mutant: the generation is due one unit early.                           *)
MutantInsertPublicationEarly(j, at, status) ==
    Append(publications[j],
           [status |-> status, available_at |-> at - 1,
            lease_id |-> NoLease, claim_expires_at |-> 0])

(* insert_publication: the next generation of job j.                       *)
insert_publication(j, at, status) ==
    Append(publications[j],
           [status |-> status, available_at |-> at,
            lease_id |-> NoLease, claim_expires_at |-> 0])

RoomForGeneration(j) == Len(publications[j]) < MaxGenerations

(* record_attempt: append one entry and drop the oldest beyond the cap.    *)
record_attempt(r, lease, outcome) ==
    LET all == Append(r.attempts, [attempt |-> r.attempt_count,
                                   lease |-> lease, outcome |-> outcome])
        excess == Len(all) - MAX_ATTEMPT_HISTORY
    IN  IF excess > 0 THEN SubSeq(all, excess + 1, Len(all)) ELSE all

(* Mutant: the lease is left on the record.                                *)
MutantTransitionKeepsLease(r, status) ==
    [r EXCEPT !.status = status, !.revision = @ + 1]

(* Mutant: the revision is not bumped.                                     *)
MutantTransitionSameRevision(r, status) ==
    [r EXCEPT !.status = status, !.lease_id = NoLease, !.lease_expires_at = 0]

(* Every transition of a record bumps its revision and takes away the      *)
(* lease it was running under, if any.                                     *)
Transition(r, status) ==
    [r EXCEPT !.status = status, !.lease_id = NoLease,
              !.lease_expires_at = 0, !.revision = @ + 1]

(* The record as a claim leaves it.                                        *)
Claimed(r, lease, expires) ==
    [r EXCEPT !.status = "running", !.lease_id = lease,
              !.lease_expires_at = expires,
              !.attempt_count = @ + 1, !.revision = @ + 1]

(* The record as its claim settles it, and what the history says of it.    *)
Settled(r, status, lease, outcome) ==
    [Transition(r, status) EXCEPT !.attempts = record_attempt(r, lease, outcome)]

(* The record as it comes back to pending, available from `at`.            *)
Reopened(r, at) == [Transition(r, "pending") EXCEPT !.available_at = at]

(* JobStatus::Running with a lease whose expiry is not after now.          *)
LeaseExpired(r, now) == r.status = "running" /\ r.lease_expires_at <= now

(* validate_worker_claim: an expiry lies after the reading it extends.     *)
(* (Its cap of one hour only refuses more and is left out.)                *)
ValidClaim(expires, now) == expires > now

(* Mint a lease identity.                                                  *)
FreshLease == minted + 1

CanMint == minted < MaxLeases

CanRevise(j) == jobs[j].revision < MaxRevision

-----------------------------------------------------------------------------
(* Submission.                                                             *)

(* Mutant: the dedupe index is not consulted.                              *)
MutantInsertableIgnoresKey(j, k) == jobs[j].status = "absent"

(* dedupe_outcome finds no job under the key, and the identity is new: the *)
(* only case in which enqueue and ingest write.                            *)
Insertable(j, k) ==
    /\ k # NoKey => fingerprints[k] = NoJob
    /\ jobs[j].status = "absent"

Insert(j, k, f, at, status) ==
    /\ Insertable(j, k)
    /\ RoomForGeneration(j)
    /\ jobs' = [jobs EXCEPT ![j] = pending_record(k, f, at)]
    /\ fingerprints' = IF k = NoKey THEN fingerprints
                       ELSE [fingerprints EXCEPT ![k] = j]
    /\ publications' = [publications EXCEPT
                           ![j] = insert_publication(j, at, status)]
    /\ UNCHANGED <<locks, minted>>

(* enqueue_with_intent: the job and its first generation, in one write.    *)
enqueue_with_intent(j, k, f, at) == Insert(j, k, f, at, "pending")

(* ingest_existing_delivery: the delivery is already on the transport, so  *)
(* its generation is recorded as published.                                *)
ingest_existing_delivery(j, k, f, at) == Insert(j, k, f, at, "published")

-----------------------------------------------------------------------------
(* Execution.                                                              *)

(* Mutant: a live lease does not keep a second claim out.                  *)
MutantClaimableWhileLeased(j, now) ==
    /\ jobs[j].status \in {"pending", "running"}
    /\ jobs[j].available_at <= now

Claimable(j, now) ==
    \/ jobs[j].status = "pending" /\ jobs[j].available_at <= now
    \/ LeaseExpired(jobs[j], now)

(* Mutant: the attempt number stands in for the lease.                     *)
MutantClaimByAttempt(j, expires, now) ==
    /\ ValidClaim(expires, now)
    /\ Claimable(j, now)
    /\ CanMint /\ CanRevise(j)
    /\ jobs' = [jobs EXCEPT ![j] = Claimed(@, @.attempt_count + 1, expires)]
    /\ minted' = FreshLease
    /\ UNCHANGED <<fingerprints, publications, locks>>

claim_execution(j, expires, now) ==
    /\ ValidClaim(expires, now)
    /\ Claimable(j, now)
    /\ CanMint /\ CanRevise(j)
    /\ jobs' = [jobs EXCEPT ![j] = Claimed(@, FreshLease, expires)]
    /\ minted' = FreshLease
    /\ UNCHANGED <<fingerprints, publications, locks>>

(* Mutant: the lease is not compared.                                      *)
MutantLeaseNotCompared(j, lease) == jobs[j].status = "running"

(* The fence of complete, schedule_retry_and_publish, fail_permanently.    *)
LeaseHeld(j, lease) ==
    /\ jobs[j].lease_id = lease
    /\ jobs[j].status = "running"

complete(j, lease) ==
    /\ LeaseHeld(j, lease)
    /\ CanRevise(j)
    /\ jobs' = [jobs EXCEPT ![j] =
                  Settled(@, "succeeded", lease, "succeeded")]
    /\ UNCHANGED <<fingerprints, publications, locks, minted>>

fail_permanently(j, lease) ==
    /\ LeaseHeld(j, lease)
    /\ CanRevise(j)
    /\ jobs' = [jobs EXCEPT ![j] =
                  Settled(@, "failed_permanently", lease, "failed_permanently")]
    /\ UNCHANGED <<fingerprints, publications, locks, minted>>

(* Mutant: the retry is stored without a generation.                       *)
MutantRetryNotPublished(j, lease, next) ==
    /\ LeaseHeld(j, lease)
    /\ CanRevise(j)
    /\ jobs' = [jobs EXCEPT ![j] =
                  [Settled(@, "pending", lease, "retried") EXCEPT
                      !.available_at = next]]
    /\ UNCHANGED <<fingerprints, publications, locks, minted>>

(* Mutant: the generation takes the availability the record had before.    *)
MutantRetryPublishedEarly(j, lease, next) ==
    /\ LeaseHeld(j, lease)
    /\ CanRevise(j) /\ RoomForGeneration(j)
    /\ jobs' = [jobs EXCEPT ![j] =
                  [Settled(@, "pending", lease, "retried") EXCEPT
                      !.available_at = next]]
    /\ publications' = [publications EXCEPT
                           ![j] = insert_publication(j, jobs[j].available_at,
                                                     "pending")]
    /\ UNCHANGED <<fingerprints, locks, minted>>

(* The retry state and the intent to publish it, in one write.             *)
schedule_retry_and_publish(j, lease, next) ==
    /\ LeaseHeld(j, lease)
    /\ CanRevise(j) /\ RoomForGeneration(j)
    /\ jobs' = [jobs EXCEPT ![j] =
                  [Settled(@, "pending", lease, "retried") EXCEPT
                      !.available_at = next]]
    /\ publications' = [publications EXCEPT
                           ![j] = insert_publication(j, next, "pending")]
    /\ UNCHANGED <<fingerprints, locks, minted>>

-----------------------------------------------------------------------------
(* Operator interventions.                                                 *)

cancel(j, revision) ==
    /\ jobs[j].revision = revision
    /\ jobs[j].status = "pending"
    /\ CanRevise(j)
    /\ jobs' = [jobs EXCEPT ![j] = Transition(@, "cancelled")]
    /\ UNCHANGED <<fingerprints, publications, locks, minted>>

retry_failed(j, revision, now) ==
    /\ jobs[j].revision = revision
    /\ jobs[j].status = "failed_permanently"
    /\ CanRevise(j) /\ RoomForGeneration(j)
    /\ jobs' = [jobs EXCEPT ![j] =
                  [Reopened(@, now) EXCEPT !.attempt_count = 0]]
    /\ publications' = [publications EXCEPT
                           ![j] = insert_publication(j, now, "pending")]
    /\ UNCHANGED <<fingerprints, locks, minted>>

ExpiredLeases(now) == {j \in Job : LeaseExpired(jobs[j], now)}

(* Expired leases are given up, and no attempt is recorded for them.       *)
RecoverLeases(expired, now) ==
    /\ expired # {} /\ expired \subseteq ExpiredLeases(now)
    /\ \A j \in expired : CanRevise(j) /\ RoomForGeneration(j)
    /\ jobs' = [j \in Job |->
                  IF j \in expired THEN Reopened(jobs[j], now) ELSE jobs[j]]
    /\ publications' = [j \in Job |->
                          IF j \in expired
                          THEN insert_publication(j, now, "pending")
                          ELSE publications[j]]
    /\ UNCHANGED <<fingerprints, locks, minted>>

(* Every expired lease at once.                                            *)
recover_expired_leases(now) == RecoverLeases(ExpiredLeases(now), now)

-----------------------------------------------------------------------------
(* Publications.  A generation is named by <<job, generation>>.            *)

PublicationId == UNION {{j} \X (1..Len(publications[j])) : j \in Job}

Publication(id) == publications[id[1]][id[2]]

ClaimExpired(p, now) == p.status = "claimed" /\ p.claim_expires_at <= now

Due(p, now) ==
    \/ p.status \in {"pending", "failed"} /\ p.available_at <= now
    \/ ClaimExpired(p, now)

(* The generation p while its claim is held under the lease (NoLease: once *)
(* the claim is given up).                                                 *)
PublicationUnder(p, status, lease, expires) ==
    [p EXCEPT !.status = status, !.lease_id = lease,
              !.claim_expires_at = expires]

(* claim_due takes due generations up to the limit, in the adapter's scan  *)
(* order (by identity in memory, skipping rows another transaction has     *)
(* locked in PostgreSQL), so any batch of that size is possible.  Every    *)
(* generation gets a lease of its own in the code; a publication lease is  *)
(* only ever compared for the generation it was handed out with, so one    *)
(* fresh identity stands for the whole batch.                              *)
claim_due(batch, limit, expires, now) ==
    LET due == {id \in PublicationId : Due(Publication(id), now)}
    IN  /\ ValidClaim(expires, now)
        /\ batch # {} /\ batch \subseteq due
        /\ \/ Cardinality(batch) = limit
           \/ Cardinality(batch) < limit /\ batch = due
        /\ CanMint
        /\ publications' =
              [j \in Job |->
                 [g \in 1..Len(publications[j]) |->
                    IF <<j, g>> \in batch
                    THEN PublicationUnder(publications[j][g], "claimed",
                                          FreshLease, expires)
                    ELSE publications[j][g]]]
        /\ minted' = FreshLease
        /\ UNCHANGED <<jobs, fingerprints, locks>>

(* Mutant: the lease stays on the generation.                              *)
MutantReleaseKeepsLease(j, g, status, at) ==
    publications' = [publications EXCEPT ![j][g] = [@ EXCEPT !.status = status,
                                                             !.available_at = at]]

(* The claim on generation g of job j is given up.                         *)
ReleasePublication(j, g, status, at) ==
    publications' = [publications EXCEPT ![j][g] =
                        [status |-> status, available_at |-> at,
                         lease_id |-> NoLease, claim_expires_at |-> 0]]

mark_published(j, g, lease) ==
    /\ publications[j][g].lease_id = lease
    /\ publications[j][g].status = "claimed"
    /\ ReleasePublication(j, g, "published", publications[j][g].available_at)
    /\ UNCHANGED <<jobs, fingerprints, locks, minted>>

(* Mutant: a failed send ends the generation.                              *)
MutantMarkFailedFinal(j, g, lease, retry_at) ==
    /\ publications[j][g].lease_id = lease
    /\ ReleasePublication(j, g, "published", retry_at)
    /\ UNCHANGED <<jobs, fingerprints, locks, minted>>

(* Fenced by the lease alone: the memory store does not look at the status *)
(* (the SQL adapters do).                                                  *)
mark_failed(j, g, lease, retry_at) ==
    /\ publications[j][g].lease_id = lease
    /\ ReleasePublication(j, g, "failed", retry_at)
    /\ UNCHANGED <<jobs, fingerprints, locks, minted>>

ExpiredClaims(now) ==
    {id \in PublicationId : ClaimExpired(Publication(id), now)}

(* Expired claims are given up.                                            *)
RecoverClaims(expired, now) ==
    /\ expired # {} /\ expired \subseteq ExpiredClaims(now)
    /\ publications' =
          [j \in Job |->
             [g \in 1..Len(publications[j]) |->
                IF <<j, g>> \in expired
                THEN PublicationUnder(publications[j][g], "pending", NoLease, 0)
                ELSE publications[j][g]]]
    /\ UNCHANGED <<jobs, fingerprints, locks, minted>>

(* Every expired claim at once.                                            *)
recover_expired_claims(now) == RecoverClaims(ExpiredClaims(now), now)

-----------------------------------------------------------------------------
(* Overlap locks.                                                          *)

LockFree(k, now) == locks[k] = NoLock \/ locks[k].expires_at <= now

SetLock(k, lock) ==
    /\ locks' = [locks EXCEPT ![k] = lock]
    /\ UNCHANGED <<jobs, fingerprints, publications, minted>>

(* Mutant: a held lock is taken over.                                      *)
MutantAcquireHeld(k, lease, expires, now) ==
    SetLock(k, [owner |-> lease, expires_at |-> expires])

acquire(k, lease, expires, now) ==
    /\ LockFree(k, now)
    /\ SetLock(k, [owner |-> lease, expires_at |-> expires])

refresh(k, lease, expires, now) ==
    /\ locks[k].owner = lease
    /\ locks[k].expires_at > now
    /\ SetLock(k, [owner |-> lease, expires_at |-> expires])

release(k, lease) ==
    /\ locks[k].owner = lease
    /\ SetLock(k, NoLock)

ExpiredLocks(now) ==
    {k \in OverlapKey : locks[k] # NoLock /\ LockFree(k, now)}

(* Expired locks are removed.                                              *)
RecoverLocks(expired, now) ==
    /\ expired # {} /\ expired \subseteq ExpiredLocks(now)
    /\ locks' = [k \in OverlapKey |-> IF k \in expired THEN NoLock ELSE locks[k]]
    /\ UNCHANGED <<jobs, fingerprints, publications, minted>>

(* Every expired lock at once.                                             *)
recover_expired(now) == RecoverLocks(ExpiredLocks(now), now)

-----------------------------------------------------------------------------
(* The store under the most general client.  The memory store recovers     *)
(* every expired lease, claim or lock; a statement of an adapter recovers  *)
(* those its snapshot shows it, so that a recovery of some is allowed.     *)

StoreInit ==
    /\ jobs = [j \in Job |-> AbsentRecord]
    /\ fingerprints = [k \in DedupeKey |-> NoJob]
    /\ publications = [j \in Job |-> <<>>]
    /\ locks = [k \in OverlapKey |-> NoLock]
    /\ minted = 0

SubmitNext ==
    \E j \in Job, k \in DedupeKey \cup {NoKey}, f \in Fingerprint, at \in Instant :
        \/ enqueue_with_intent(j, k, f, at)
        \/ ingest_existing_delivery(j, k, f, at)

ExecutionNext ==
    \/ \E j \in Job, expires, now \in Instant : claim_execution(j, expires, now)
    \/ \E j \in Job, lease \in 1..minted :
          \/ complete(j, lease)
          \/ fail_permanently(j, lease)
          \/ \E next \in Instant : schedule_retry_and_publish(j, lease, next)

OperatorNext ==
    \/ \E j \in Job, revision \in 1..MaxRevision :
          \/ cancel(j, revision)
          \/ \E now \in Instant : retry_failed(j, revision, now)
    \/ \E now \in Instant : \E expired \in SUBSET ExpiredLeases(now) :
          RecoverLeases(expired, now)

PublicationNext ==
    \/ \E j \in Job : \E g \in 1..Len(publications[j]), lease \in 1..minted :
          \/ mark_published(j, g, lease)
          \/ \E retry_at \in Instant : mark_failed(j, g, lease, retry_at)
    \/ \E now \in Instant : \E expired \in SUBSET ExpiredClaims(now) :
          RecoverClaims(expired, now)
    \/ \E limit \in 1..DispatchLimit, expires, now \in Instant :
          \E batch \in SUBSET PublicationId : claim_due(batch, limit, expires, now)

LockNext ==
    \/ \E k \in OverlapKey, lease \in 1..minted :
          \/ \E expires, now \in Instant :
                \/ acquire(k, lease, expires, now)
                \/ refresh(k, lease, expires, now)
          \/ release(k, lease)
    \/ \E now \in Instant : \E expired \in SUBSET ExpiredLocks(now) :
          RecoverLocks(expired, now)

StoreNext ==
    \/ SubmitNext
    \/ ExecutionNext
    \/ OperatorNext
    \/ PublicationNext
    \/ LockNext

StoreSpec == StoreInit /\ [][StoreNext]_storeVars

-----------------------------------------------------------------------------
(* Properties.                                                             *)

(* Every variable keeps the shape of MemoryState (ports.rs JobRecord,      *)
(* JobPublication).                                                        *)
TypeOK ==
    /\ jobs \in [Job -> JobRecord]
    /\ fingerprints \in [DedupeKey -> Job \cup {NoJob}]
    /\ publications \in [Job -> Seq(JobPublication)]
    /\ locks \in [OverlapKey -> Lock]
    /\ minted \in Nat

(* A record carries a lease exactly while it is running: no transition     *)
(* (settling, cancelling, recovery) leaves a lease behind that a late      *)
(* worker could still present, and no running job is without one.          *)
RunningIffLeased ==
    \A j \in Job : jobs[j].status = "running" <=> jobs[j].lease_id # NoLease

(* The attempt history lists the leases that settled, oldest first, each   *)
(* at most once, and never the one that is executing now: a claim that was *)
(* reclaimed, recovered or already settled cannot settle the job again.    *)
EachLeaseSettlesOnce ==
    \A j \in Job :
        LET history == jobs[j].attempts
        IN  /\ \A a, b \in 1..Len(history) :
                  a < b => history[a].lease < history[b].lease
            /\ jobs[j].status = "running" =>
                  \A a \in 1..Len(history) :
                      history[a].lease < jobs[j].lease_id

(* A lease names one claim of one job: no two jobs run under the same      *)
(* lease.  Overlap locks identify their owner by that lease alone, so two  *)
(* jobs sharing one would share a lock.                                    *)
LeasesAreUnique ==
    \A i, j \in Job :
        /\ jobs[i].status = "running" /\ jobs[j].status = "running"
        /\ jobs[i].lease_id = jobs[j].lease_id
        => i = j

(* A dedupe key names one job for ever: the index entry and the record     *)
(* agree, and no second job carries the key, whatever became of the first. *)
OneJobPerKey ==
    /\ \A j \in Job : jobs[j].key # NoKey => fingerprints[jobs[j].key] = j
    /\ \A k \in DedupeKey : fingerprints[k] # NoJob =>
           jobs[fingerprints[k]].key = k

(* A generation carries a lease exactly while it is claimed.  mark_failed  *)
(* checks nothing but the lease, so this is what keeps a late dispatcher   *)
(* from reopening a generation that was delivered.                         *)
ClaimedIffLeased ==
    \A j \in Job : \A g \in 1..Len(publications[j]) :
        publications[j][g].status = "claimed" <=>
            publications[j][g].lease_id # NoLease

(* Both together: a lease is on a record or a generation exactly while it  *)
(* is held, so nothing is settled or marked twice under one claim.         *)
LeasesFollowStatus == RunningIffLeased /\ ClaimedIffLeased

(* A published generation is final: no later call of any dispatcher, fresh *)
(* or stale, changes it (no delivery is repeated once it is acknowledged). *)
PublishedIsFinal ==
    [][\A j \in Job : \A g \in 1..Len(publications[j]) :
          publications[j][g].status = "published" =>
              publications'[j][g] = publications[j][g]]_storeVars

(* A revision names one state of a record: every change of a stored record *)
(* moves its revision by exactly one, so an operator's expected_revision   *)
(* refuses every record that is no longer the one inspected.               *)
RevisionNamesState ==
    [][\A j \in Job :
          jobs'[j] # jobs[j] => jobs'[j].revision = jobs[j].revision + 1]_storeVars

(* The store implements the lifecycle: a job is pending, running, settled, *)
(* cancelled and reopened only as JobLifecycle allows, under tokens that   *)
(* are leases, and comes (back) to pending exactly when the store records  *)
(* one more generation for it: no retry, recovery or operator rerun loses  *)
(* its publication intent, no stale claim and no late call reopens a job.  *)
Lifecycle == INSTANCE JobLifecycle WITH
    phase <- [j \in Job |-> jobs[j].status],
    holder <- [j \in Job |-> jobs[j].lease_id],
    issued <- minted,
    intents <- [j \in Job |-> Len(publications[j])]

ImplementsLifecycle == Lifecycle!LifecycleSpec
=============================================================================
