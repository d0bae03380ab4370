-------------------------- MODULE JobsSystemProofs --------------------------
(***************************************************************************)
(* Proofs about JobsSystem, for every set of jobs, workers, triggers and   *)
(* scenarios and every bound.                                              *)
(*                                                                         *)
(* The steps of the workers keep ExecInv (JobExecutorProofs); what is new  *)
(* here is the pass of the publisher.  It acts on a lease and on           *)
(* generations it read in earlier steps, so the invariant says what is     *)
(* still true of them (PassOK): the generations are there, and those that  *)
(* are still under the pass's lease were due at the pass's reading         *)
(* (ClaimsDated).  The latter is what keeps a failed send from moving a    *)
(* generation to a time before its job is available.                       *)
(*                                                                         *)
(* That a pending job always has a delivery needs more (DeliveryInv): of   *)
(* the message that carries the job, of the invocations that received it,  *)
(* which will claim and not skip the job, and of the generation the pass   *)
(* has in hand, which was due.  It holds as long as no job is pending with *)
(* more attempts than its policy allows, and the last section shows when   *)
(* that is so.                                                             *)
(***************************************************************************)
EXTENDS JobsSystem, JobExecutorProofs

Pass ==
    [pc : {"idle", "claim", "next", "send", "mark", "fail"}, now : Nat,
     lease : Nat, batch : SUBSET PublicationId,
     id : (Job \cup {NoJob}) \X Nat, attempt : Nat]

(* The pass acts under a lease, and on a generation.                       *)
Claiming == {"next", "send", "mark", "fail"}
AtHand == {"send", "mark", "fail"}

PassOK ==
    /\ publisher \in Pass
    /\ publisher.now <= clock
    /\ publisher.pc \in Claiming => publisher.lease \in 1..minted
    /\ publisher.pc \in AtHand => publisher.id \in PublicationId

(* Messages, and the counters and bounds of the environment.               *)
TransportOK ==
    /\ queue \subseteq Message
    /\ inflight \in [Worker -> Message]
    /\ fired \subseteq Triggers
    /\ sendFailures \in 0..MaxSendFailures
    /\ scenario \in Scenarios

(* Generation p was claimed when it was due, by the pass s or before it,   *)
(* when leases 1..m have been minted.                                      *)
Dated(p, m, s) ==
    /\ p.lease_id <= m
    /\ p.status = "claimed" => p.available_at <= p.claim_expires_at
    /\ s.pc \in Claiming /\ p.lease_id = s.lease => p.available_at <= s.now

ClaimsDated ==
    \A j \in Job : \A g \in 1..Len(publications[j]) :
        Dated(publications[j][g], minted, publisher)

(* NewestIntentNotEarly for one job, its record and its generations: a     *)
(* pending job has a generation.                                           *)
NotEarly(r, ps) ==
    r.status = "pending" =>
        Len(ps) # 0 /\ ps[Len(ps)].available_at >= r.available_at

IntentsOK == \A j \in Job : NotEarly(jobs[j], publications[j])

SystemInv ==
    /\ ExecInv
    /\ HeldUnlessLost
    /\ PassOK
    /\ TransportOK
    /\ ClaimsDated
    /\ IntentsOK

-----------------------------------------------------------------------------
(* What the calls of workers, applications and operators do to the         *)
(* generations: a job comes to pending exactly with a new one, that is     *)
(* due when the job is and unpublished unless the job is new.              *)

Intended ==
    \A j \in Job :
        \/ /\ publications'[j] = publications[j]
           /\ jobs'[j].status = "pending" =>
                 /\ jobs[j].status = "pending"
                 /\ jobs'[j].available_at = jobs[j].available_at
        \/ \E at \in Nat, status \in {"pending", "published"} :
              /\ publications'[j] = insert_publication(j, at, status)
              /\ jobs'[j].available_at = at /\ jobs'[j].status = "pending"
              /\ status = "published" => jobs[j].status = "absent"

LEMMA OneIntends ==
    ASSUME StoreInv, NEW j \in Job, NEW q, NEW at \in Nat,
           NEW status \in {"pending", "published"}, q.available_at = at,
           q.status = "pending", status = "published" => jobs[j].status = "absent",
           jobs' = [jobs EXCEPT ![j] = q],
           publications' = [publications EXCEPT ![j] = insert_publication(j, at, status)]
    PROVE  Intended
<1> DEFINE ps == insert_publication(j, at, status)
<1>1. /\ jobs \in [Job -> JobRecord] /\ publications \in [Job -> Seq(JobPublication)]
      /\ publications' = [publications EXCEPT ![j] = ps]
  BY DEF StoreInv, JobsOK, PublicationsOK
<1>2. \A i \in Job : /\ jobs'[i] = IF i = j THEN q ELSE jobs[i]
                     /\ publications'[i] = IF i = j THEN ps ELSE publications[i]
  <2> HIDE DEF ps
  <2>1. QED
    BY <1>1
<1>3. QED
  BY <1>2 DEF Intended

LEMMA NoneIntends ==
    ASSUME StoreInv, NEW j \in Job, NEW q, q.status # "pending",
           jobs' = [jobs EXCEPT ![j] = q], publications' = publications
    PROVE  Intended
<1>1. \A i \in Job : jobs'[i] = IF i = j THEN q ELSE jobs[i]
  BY DEF StoreInv, JobsOK
<1>2. QED
  BY <1>1 DEF Intended

LEMMA SubmitIntends ==
    ASSUME StoreInv, SubmitNext PROVE Intended
<1>1. PICK j \in Job, k \in DedupeKey \cup {NoKey}, f \in Fingerprint,
           at \in Instant, status \in {"pending", "published"} :
         Insert(j, k, f, at, status)
  BY DEF SubmitNext, enqueue_with_intent, ingest_existing_delivery
<1> DEFINE q == pending_record(k, f, at)
<1>2. q.available_at = at /\ at \in Nat /\ q.status = "pending"
  BY StoreAssumption DEF pending_record
<1>3. /\ jobs[j].status = "absent" /\ jobs' = [jobs EXCEPT ![j] = q]
      /\ publications' = [publications EXCEPT ![j] = insert_publication(j, at, status)]
  BY <1>1 DEF Insert, Insertable
<1> HIDE DEF q
<1>4. QED
  BY <1>2, <1>3, OneIntends

LEMMA ExecutionIntends ==
    ASSUME StoreInv, ExecutionNext PROVE Intended
<1>1. jobs \in [Job -> JobRecord] /\ Instant \subseteq Nat
  BY StoreAssumption DEF StoreInv, JobsOK
<1>2. ASSUME NEW j \in Job, NEW expires, NEW now, claim_execution(j, expires, now)
      PROVE  Intended
  <2> DEFINE q == Claimed(jobs[j], FreshLease, expires)
  <2>1. q.status = "running"
    BY <1>1 DEF Claimed, JobRecord
  <2>2. jobs' = [jobs EXCEPT ![j] = q] /\ publications' = publications
    BY <1>2 DEF claim_execution
  <2> HIDE DEF q
  <2>3. QED
    BY <2>1, <2>2, NoneIntends
<1>3. ASSUME NEW j \in Job, NEW lease, complete(j, lease) \/ fail_permanently(j, lease)
      PROVE  Intended
  <2>1. PICK status \in {"succeeded", "failed_permanently"} :
           /\ jobs' = [jobs EXCEPT ![j] = Settled(jobs[j], status, lease, status)]
           /\ publications' = publications
    BY <1>3 DEF complete, fail_permanently
  <2> DEFINE q == Settled(jobs[j], status, lease, status)
  <2>2. q.status # "pending"
    BY <1>1, SettledStatus
  <2>3. jobs' = [jobs EXCEPT ![j] = q]
    BY <2>1
  <2> HIDE DEF q
  <2>4. QED
    BY <2>1, <2>2, <2>3, NoneIntends
<1>4. ASSUME NEW j \in Job, NEW lease, NEW next \in Instant,
             schedule_retry_and_publish(j, lease, next)
      PROVE  Intended
  <2> DEFINE q == [Settled(jobs[j], "pending", lease, "retried") EXCEPT
                      !.available_at = next]
  <2>1. q.available_at = next /\ next \in Nat /\ q.status = "pending"
    BY <1>1 DEF Settled, Transition, JobRecord
  <2>2. /\ jobs' = [jobs EXCEPT ![j] = q]
        /\ publications' = [publications EXCEPT
                               ![j] = insert_publication(j, next, "pending")]
    BY <1>4 DEF schedule_retry_and_publish
  <2> HIDE DEF q
  <2>3. QED
    BY <2>1, <2>2, OneIntends
<1>5. QED
  BY <1>2, <1>3, <1>4 DEF ExecutionNext

LEMMA OperatorIntends ==
    ASSUME StoreInv, OperatorNext PROVE Intended
<1>1. jobs \in [Job -> JobRecord] /\ Instant \subseteq Nat
  BY StoreAssumption DEF StoreInv, JobsOK
<1>2. ASSUME NEW j \in Job, NEW revision, cancel(j, revision) PROVE Intended
  <2> DEFINE q == Transition(jobs[j], "cancelled")
  <2>1. q.status = "cancelled"
    BY <1>1 DEF Transition, JobRecord
  <2>2. jobs' = [jobs EXCEPT ![j] = q] /\ publications' = publications
    BY <1>2 DEF cancel
  <2> HIDE DEF q
  <2>3. QED
    BY <2>1, <2>2, NoneIntends
<1>3. ASSUME NEW j \in Job, NEW revision, NEW now \in Instant,
             retry_failed(j, revision, now)
      PROVE  Intended
  <2> DEFINE q == [Reopened(jobs[j], now) EXCEPT !.attempt_count = 0]
  <2>1. q.available_at = now /\ now \in Nat /\ q.status = "pending"
    BY <1>1 DEF Reopened, Transition, JobRecord
  <2>2. /\ jobs' = [jobs EXCEPT ![j] = q]
        /\ publications' = [publications EXCEPT
                               ![j] = insert_publication(j, now, "pending")]
    BY <1>3 DEF retry_failed
  <2> HIDE DEF q
  <2>3. QED
    BY <2>1, <2>2, OneIntends
<1>4. ASSUME NEW now \in Instant, NEW expired, RecoverLeases(expired, now)
      PROVE  Intended
  <2>1. \A j \in Job : /\ Reopened(jobs[j], now).available_at = now /\ now \in Nat
                       /\ Reopened(jobs[j], now).status = "pending"
    BY <1>1 DEF Reopened, Transition, JobRecord
  <2>2. \A j \in Job :
           /\ jobs'[j] = IF j \in expired THEN Reopened(jobs[j], now) ELSE jobs[j]
           /\ publications'[j] = IF j \in expired
                                 THEN insert_publication(j, now, "pending")
                                 ELSE publications[j]
    BY <1>4 DEF RecoverLeases
  <2>3. QED
    BY <2>1, <2>2 DEF Intended
<1>5. QED
  BY <1>2, <1>3, <1>4 DEF OperatorNext

LEMMA ClientIntends ==
    ASSUME StoreInv, [ClientNext]_storeVars PROVE Intended
<1>1. CASE LockNext \/ UNCHANGED storeVars
  <2>1. jobs' = jobs /\ publications' = publications
    BY <1>1 DEF LockNext, acquire, refresh, release, RecoverLocks, SetLock, storeVars
  <2>2. QED
    BY <2>1 DEF Intended
<1>2. QED
  BY <1>1, SubmitIntends, ExecutionIntends, OperatorIntends DEF ClientNext

-----------------------------------------------------------------------------
(* The publisher's pass is not disturbed by those calls.                   *)

(* Leases are minted one at a time.                                        *)
LEMMA MintedGrows ==
    ASSUME StoreInv, [StoreNext]_storeVars
    PROVE  minted' \in Nat /\ minted <= minted'
<1>1. minted \in Nat
  BY DEF StoreInv, JobsOK
<1>2. minted' = minted \/ minted' = minted + 1
  <2>1. CASE SubmitNext
    BY <2>1 DEF SubmitNext, enqueue_with_intent, ingest_existing_delivery, Insert
  <2>2. CASE ExecutionNext
    BY <2>2 DEF ExecutionNext, claim_execution, complete, fail_permanently,
                schedule_retry_and_publish, FreshLease
  <2>3. CASE OperatorNext
    BY <2>3 DEF OperatorNext, cancel, retry_failed, RecoverLeases
  <2>4. CASE PublicationNext
    BY <2>4 DEF PublicationNext, claim_due, mark_published, mark_failed,
                RecoverClaims, FreshLease
  <2>5. CASE LockNext \/ UNCHANGED storeVars
    BY <2>5 DEF LockNext, acquire, refresh, release, RecoverLocks, SetLock, storeVars
  <2>6. QED
    BY <2>1, <2>2, <2>3, <2>4, <2>5 DEF StoreNext
<1>3. QED
  BY <1>1, <1>2

(* The generation that is added.                                           *)
LEMMA Inserted ==
    ASSUME StoreInv, NEW j \in Job, NEW at \in Nat, NEW status \in {"pending", "published"}
    PROVE  LET ps == insert_publication(j, at, status)
           IN  /\ Len(publications[j]) \in Nat /\ Len(ps) = Len(publications[j]) + 1
               /\ \A g \in 1..Len(publications[j]) : ps[g] = publications[j][g]
               /\ ps[Len(ps)].status = status /\ ps[Len(ps)].available_at = at
               /\ ps[Len(ps)].lease_id = NoLease
<1> DEFINE p == [status |-> status, available_at |-> at,
                 lease_id |-> NoLease, claim_expires_at |-> 0]
           ps == insert_publication(j, at, status)
<1>1. /\ publications[j] \in Seq(JobPublication) /\ p \in JobPublication
      /\ ps = Append(publications[j], p)
  BY DEF StoreInv, PublicationsOK, insert_publication, JobPublication,
         PublicationStatus, NoLease
<1>2. p.status = status /\ p.available_at = at /\ p.lease_id = NoLease
  OBVIOUS
<1> HIDE DEF p, ps
<1>3. /\ Len(publications[j]) \in Nat /\ Len(ps) = Len(publications[j]) + 1
      /\ \A g \in 1..Len(publications[j]) : ps[g] = publications[j][g]
      /\ ps[Len(ps)] = p
  BY <1>1
<1>4. QED
  BY <1>2, <1>3 DEF ps

(* Generations are never removed.                                          *)
LEMMA IntendedGrows ==
    ASSUME StoreInv, Intended
    PROVE  /\ \A j \in Job : Len(publications[j]) \in Nat
           /\ \A j \in Job : Len(publications[j]) <= Len(publications'[j])
           /\ PublicationId \subseteq PublicationId'
<1>1. \A j \in Job : Len(publications[j]) \in Nat
  BY DEF StoreInv, PublicationsOK
<1>3. \A j \in Job : Len(publications[j]) <= Len(publications'[j])
                     /\ Len(publications'[j]) \in Nat
  BY <1>1, Inserted DEF Intended
<1>4. \A j \in Job : 1..Len(publications[j]) \subseteq 1..Len(publications'[j])
  BY <1>1, <1>3
<1>5. QED
  BY <1>1, <1>3, <1>4 DEF PublicationId

(* The pass keeps its generations and its lease while others step.         *)
LEMMA PassUndisturbed ==
    ASSUME PassOK, UNCHANGED publisher, minted \in Nat, minted' \in Nat, minted <= minted',
           clock \in Nat, clock' \in Nat, clock <= clock',
           PublicationId \subseteq PublicationId'
    PROVE  PassOK'
<1>1. Pass \subseteq Pass'
  BY DEF Pass
<1>2. publisher.now \in Nat
  BY DEF PassOK, Pass
<1>3. publisher' \in Pass'
  BY <1>1 DEF PassOK
<1>4. publisher'.now <= clock'
  BY <1>2 DEF PassOK
<1>5. publisher'.pc \in Claiming => publisher'.lease \in 1..minted'
  BY DEF PassOK
<1>6. publisher'.pc \in AtHand => publisher'.id \in PublicationId'
  BY DEF PassOK
<1>7. QED
  BY <1>3, <1>4, <1>5, <1>6 DEF PassOK

LEMMA DatedUndisturbed ==
    ASSUME StoreInv, ClaimsDated, IntentsOK, PassOK, UNCHANGED publisher,
           Intended, minted' \in Nat, minted <= minted'
    PROVE  ClaimsDated' /\ IntentsOK'
<1>1. /\ PublicationsOK /\ minted \in Nat
      /\ \A j \in Job : publications[j] \in Seq(JobPublication)
      /\ \A j \in Job : Len(publications[j]) \in Nat
  BY DEF StoreInv, JobsOK, PublicationsOK
<1>2. ASSUME NEW p, p \in JobPublication, Dated(p, minted, publisher)
      PROVE  Dated(p, minted', publisher')
  BY <1>1, <1>2 DEF Dated, JobPublication
<1>3. \A j \in Job : \A g \in 1..Len(publications[j]) :
         Dated(publications[j][g], minted', publisher')
  BY <1>1, <1>2 DEF ClaimsDated
<1>4. ASSUME NEW j \in Job, publications'[j] = publications[j],
             jobs'[j].status = "pending" =>
                 /\ jobs[j].status = "pending"
                 /\ jobs'[j].available_at = jobs[j].available_at
      PROVE  NotEarly(jobs'[j], publications'[j])
  BY <1>4 DEF IntentsOK, NotEarly
<1>5. ASSUME NEW j \in Job, NEW at \in Nat, NEW status \in {"pending", "published"},
             publications'[j] = insert_publication(j, at, status),
             jobs'[j].available_at = at
      PROVE  /\ \A g \in 1..Len(publications'[j]) :
                   Dated(publications'[j][g], minted', publisher')
             /\ NotEarly(jobs'[j], publications'[j])
  <2> DEFINE ps == publications'[j]
             n == Len(publications[j])
  <2>1. /\ n \in Nat /\ Len(ps) = n + 1
        /\ \A g \in 1..n : ps[g] = publications[j][g]
        /\ ps[n + 1].status = status /\ ps[n + 1].available_at = at
        /\ ps[n + 1].lease_id = NoLease
    BY <1>5, Inserted
  <2>2. \A g \in 1..n : Dated(ps[g], minted', publisher')
    BY <1>3, <2>1
  <2>3. Dated(ps[n + 1], minted', publisher')
    BY <1>1, <2>1 DEF Dated, PassOK, NoLease
  <2> HIDE DEF ps, n
  <2>4. NotEarly(jobs'[j], ps)
    <3>1. Len(ps) # 0 /\ ps[Len(ps)].available_at = at /\ at >= at
      BY <2>1
    <3>2. QED
      BY <1>5, <3>1 DEF NotEarly
  <2>5. \A g \in 1..Len(ps) : Dated(ps[g], minted', publisher')
    BY <2>1, <2>2, <2>3
  <2>6. QED
    BY <2>4, <2>5 DEF ps
<1>6. \A j \in Job :
         /\ \A g \in 1..Len(publications'[j]) :
               Dated(publications'[j][g], minted', publisher')
         /\ NotEarly(jobs'[j], publications'[j])
  BY <1>3, <1>4, <1>5 DEF Intended
<1>7. QED
  BY <1>6 DEF ClaimsDated, IntentsOK

-----------------------------------------------------------------------------
(* The steps of the pass.                                                  *)

(* Readings of the clock and what the pass makes of them are instants.     *)
LEMMA PassReadings ==
    ASSUME ExecInv, PassOK
    PROVE  /\ clock \in Instant /\ clock \in Nat /\ publisher.now \in Instant
           /\ publisher.now \in Nat /\ publisher.now <= clock
           /\ publisher.now + PublicationLease \in Instant
           /\ publisher.now + PublicationRetryDelay \in Instant
<1>1. clock \in 0..Horizon /\ publisher.now \in Nat /\ publisher.now <= clock
  BY DEF ExecInv, PassOK, Pass
<1>2. publisher.now \in 0..Horizon
  BY <1>1, ExecutorAssumption
<1>3. \A t \in 0..Horizon : /\ t \in Instant /\ t + PublicationLease \in Instant
                            /\ t + PublicationRetryDelay \in Instant
  BY ExecutorAssumption, SystemAssumption
<1>4. QED
  BY <1>1, <1>2, <1>3

(* A step of the pass touches no record and no lock.                       *)
LEMMA PassKeepsExec ==
    ASSUME ExecInv, HeldUnlessLost, [PublicationNext]_storeVars,
           UNCHANGED <<clock, worker, crashes>>
    PROVE  ExecInv' /\ HeldUnlessLost' /\ [StoreNext]_storeVars
<1>1. [StoreNext]_storeVars
  BY DEF StoreNext
<1>2. jobs' = jobs /\ locks' = locks
  BY DEF PublicationNext, claim_due, mark_published, mark_failed, RecoverClaims, storeVars
<1>3. Spared(NoLease) /\ NoneStarted
  BY <1>1, <1>2, MintedGrows DEF ExecInv, Spared, NoneStarted
<1>4. QED
  BY <1>1, <1>3, StoreMoves, OthersHeld

(* A step of the pass that rewrites generations where they are.            *)
LEMMA Rewritten ==
    ASSUME StoreInv, StoreInv', IntentsOK, jobs' = jobs,
           \A j \in Job : DOMAIN publications'[j] = 1..Len(publications[j]),
           \A j \in Job : \A g \in 1..Len(publications[j]) :
              /\ Dated(publications'[j][g], minted', publisher')
              /\ publications'[j][g].available_at >= publications[j][g].available_at
    PROVE  ClaimsDated' /\ IntentsOK' /\ PublicationId' = PublicationId
<1>1. \A j \in Job : /\ publications[j] \in Seq(JobPublication)
                     /\ publications'[j] \in Seq(JobPublication)
  BY DEF StoreInv, PublicationsOK
<1>2. \A j \in Job : /\ Len(publications'[j]) = Len(publications[j])
                     /\ Len(publications[j]) \in Nat
  BY <1>1
<1>3. ClaimsDated' /\ PublicationId' = PublicationId
  BY <1>2 DEF ClaimsDated, PublicationId
<1>4. ASSUME NEW j \in Job, jobs[j].status = "pending"
      PROVE  NotEarly(jobs[j], publications'[j])
  <2> DEFINE n == Len(publications[j])
  <2>1. /\ n \in 1..n /\ publications[j][n].available_at >= jobs[j].available_at
    BY <1>2, <1>4 DEF IntentsOK, NotEarly
  <2>2. /\ publications[j][n] \in JobPublication /\ publications'[j][n] \in JobPublication
        /\ jobs[j] \in JobRecord
    BY <1>1, <1>2, <2>1 DEF StoreInv, JobsOK
  <2>3. publications'[j][n].available_at >= jobs[j].available_at
    <3>1. publications'[j][n].available_at >= publications[j][n].available_at
      BY <2>1
    <3>2. /\ publications'[j][n].available_at \in Nat
          /\ publications[j][n].available_at \in Nat /\ jobs[j].available_at \in Nat
      BY <2>2 DEF JobPublication, JobRecord
    <3>3. QED
      BY <2>1, <3>1, <3>2
  <2>4. QED
    BY <1>2, <2>1, <2>3 DEF NotEarly
<1>5. IntentsOK'
  BY <1>4 DEF IntentsOK, NotEarly
<1>6. QED
  BY <1>3, <1>5

(* Under an idle pass, or one that has not claimed yet, nothing is said of *)
(* generations under its lease.                                            *)
LEMMA NoClaimingDated ==
    ASSUME ClaimsDated, UNCHANGED storeVars, publisher'.pc \notin Claiming
    PROVE  ClaimsDated'
BY DEF ClaimsDated, Dated, storeVars

LEMMA StoreKept ==
    ASSUME IntentsOK, UNCHANGED storeVars
    PROVE  IntentsOK' /\ PublicationId' = PublicationId /\ Pass' = Pass
BY DEF IntentsOK, PublicationId, Pass, storeVars

LEMMA IdleIsPass == IdlePublisher \in Pass
BY DEF IdlePublisher, Pass, NoLease

PublisherOK == ExecInv /\ HeldUnlessLost /\ PassOK /\ ClaimsDated /\ IntentsOK

LEMMA PassStartStep ==
    ASSUME PublisherOK, PassStart
    PROVE  PublisherOK' /\ [StoreNext]_storeVars
<1>1. /\ ExecInv /\ PassOK /\ HeldUnlessLost /\ IntentsOK /\ ClaimsDated /\ StoreInv
      /\ clock \in Instant /\ clock \in Nat
      /\ publisher' = [publisher EXCEPT !.pc = "claim", !.now = clock]
      /\ UNCHANGED <<clock, worker, crashes>>
  BY PassReadings DEF PublisherOK, PassStart, KeepWorkers, ExecInv
<1>2. /\ publisher'.pc = "claim" /\ publisher'.now = clock /\ publisher' \in Pass
  BY <1>1 DEF PassOK, Pass
<1>3. [PublicationNext]_storeVars
  BY <1>1 DEF PassStart, recover_expired_claims, PublicationNext
<1>4. ExecInv' /\ HeldUnlessLost' /\ [StoreNext]_storeVars
  BY <1>1, <1>3, PassKeepsExec DEF PublisherOK
<1>5. ClaimsDated' /\ IntentsOK' /\ PublicationId' = PublicationId
  <2>1. CASE UNCHANGED storeVars
    BY <1>1, <1>2, <2>1, NoClaimingDated, StoreKept DEF Claiming
  <2>2. CASE recover_expired_claims(clock)
    <3> DEFINE new(j, g) == PublicationUnder(publications[j][g], "pending", NoLease, 0)
               hit(j, g) == <<j, g>> \in ExpiredClaims(clock)
    <3>1. /\ jobs' = jobs /\ minted' = minted /\ minted \in Nat
          /\ publications' = [j \in Job |->
                [g \in 1..Len(publications[j]) |->
                   IF hit(j, g) THEN new(j, g) ELSE publications[j][g]]]
      BY <1>1, <2>2 DEF recover_expired_claims, RecoverClaims, StoreInv, JobsOK
    <3>2. /\ \A j \in Job : DOMAIN publications'[j] = 1..Len(publications[j])
          /\ \A j \in Job : \A g \in 1..Len(publications[j]) :
                /\ publications[j][g] \in JobPublication
                /\ publications'[j][g] = IF hit(j, g) THEN new(j, g)
                                         ELSE publications[j][g]
      BY <1>1, <3>1 DEF StoreInv, PublicationsOK
    <3>3. ASSUME NEW j \in Job, NEW g \in 1..Len(publications[j])
          PROVE  /\ Dated(publications'[j][g], minted', publisher')
                 /\ publications'[j][g].available_at >= publications[j][g].available_at
      <4>1. /\ new(j, g).available_at = publications[j][g].available_at
            /\ new(j, g).lease_id = 0 /\ new(j, g).status = "pending"
            /\ publications[j][g].available_at \in Nat
        BY <3>2 DEF PublicationUnder, JobPublication, NoLease
      <4>2. Dated(publications[j][g], minted, publisher)
        BY <1>1 DEF ClaimsDated
      <4> HIDE DEF new, hit
      <4>3. QED
        BY <1>2, <3>1, <3>2, <4>1, <4>2 DEF Dated, Claiming
    <3>4. QED
      BY <1>1, <1>4, <3>1, <3>2, <3>3, Rewritten DEF ExecInv
  <2>3. QED
    BY <1>1, <2>1, <2>2 DEF PassStart
<1>6. PassOK'
  <2>1. Pass' = Pass
    BY <1>5 DEF Pass
  <2>2. QED
    BY <1>1, <1>2, <2>1 DEF PassOK, Claiming, AtHand
<1>7. QED
  BY <1>4, <1>5, <1>6 DEF PublisherOK

(* The generations in the batch are due at the pass's reading.             *)
LEMMA PassClaimStep ==
    ASSUME PublisherOK, PassClaim
    PROVE  PublisherOK' /\ [StoreNext]_storeVars
<1> DEFINE now == publisher.now
           expires == publisher.now + PublicationLease
<1>1. /\ ExecInv /\ PassOK /\ HeldUnlessLost /\ IntentsOK /\ ClaimsDated /\ StoreInv
      /\ UNCHANGED <<clock, worker, crashes>> /\ minted \in Nat
      /\ now \in Nat /\ now <= clock /\ now \in Instant /\ expires \in Instant
      /\ publisher \in Pass /\ clock \in Nat
  BY PassReadings DEF PublisherOK, PassClaim, KeepWorkers, ExecInv, StoreInv, JobsOK, PassOK
<1>2. CASE UNCHANGED storeVars /\ publisher' = IdlePublisher
  <2>1. publisher'.pc = "idle" /\ publisher'.now = 0 /\ publisher' \in Pass
    BY <1>2, IdleIsPass DEF IdlePublisher
  <2>2. ExecInv' /\ HeldUnlessLost' /\ [StoreNext]_storeVars
    BY <1>1, <1>2, PassKeepsExec
  <2>3. ClaimsDated' /\ IntentsOK' /\ Pass' = Pass
    BY <1>1, <1>2, <2>1, NoClaimingDated, StoreKept DEF Claiming
  <2>4. PassOK'
    BY <1>1, <2>1, <2>3 DEF PassOK, Claiming, AtHand
  <2>5. QED
    BY <2>2, <2>3, <2>4 DEF PublisherOK
<1>3. ASSUME NEW batch \in SUBSET PublicationId,
             claim_due(batch, DispatchLimit, expires, now),
             publisher' = [publisher EXCEPT !.pc = "next", !.batch = batch,
                                            !.lease = FreshLease]
      PROVE  PublisherOK' /\ [StoreNext]_storeVars
  <2> DEFINE new(j, g) == PublicationUnder(publications[j][g], "claimed", minted + 1,
                                           expires)
  <2>1. /\ publisher'.pc = "next" /\ publisher'.now = now /\ publisher'.lease = minted + 1
        /\ publisher' \in Pass
    <3>1. publisher' = [publisher EXCEPT !.pc = "next", !.batch = batch,
                                         !.lease = minted + 1]
      BY <1>3 DEF FreshLease
    <3>2. minted + 1 \in Nat
      BY <1>1
    <3>3. QED
      BY <1>1, <3>1, <3>2 DEF Pass
  <2>2. [PublicationNext]_storeVars
    <3>1. DispatchLimit \in 1..DispatchLimit
      BY StoreAssumption
    <3>2. QED
      BY <1>1, <1>3, <3>1 DEF PublicationNext
  <2>3. ExecInv' /\ HeldUnlessLost' /\ [StoreNext]_storeVars
    BY <1>1, <2>2, PassKeepsExec
  <2>4. /\ jobs' = jobs /\ minted' = minted + 1 /\ expires > now
        /\ publications' = [j \in Job |->
              [g \in 1..Len(publications[j]) |->
                 IF <<j, g>> \in batch THEN new(j, g) ELSE publications[j][g]]]
    BY <1>3 DEF claim_due, ValidClaim, FreshLease
  <2>5. /\ \A j \in Job : DOMAIN publications'[j] = 1..Len(publications[j])
        /\ \A j \in Job : \A g \in 1..Len(publications[j]) :
              /\ publications[j][g] \in JobPublication
              /\ publications'[j][g] = IF <<j, g>> \in batch THEN new(j, g)
                                       ELSE publications[j][g]
    BY <1>1, <2>4 DEF StoreInv, PublicationsOK
  <2>6. ASSUME NEW j \in Job, NEW g \in 1..Len(publications[j])
        PROVE  /\ Dated(publications'[j][g], minted', publisher')
               /\ publications'[j][g].available_at >= publications[j][g].available_at
    <3> DEFINE p == publications[j][g]
    <3>1. /\ new(j, g).available_at = p.available_at
          /\ new(j, g).lease_id = minted + 1 /\ new(j, g).claim_expires_at = expires
          /\ p \in JobPublication /\ expires \in Nat
      <4>1. p \in JobPublication
        BY <2>5
      <4>2. expires \in Nat
        BY <1>1, SystemAssumption
      <4>3. QED
        BY <4>1, <4>2 DEF PublicationUnder, JobPublication
    <3>2. Dated(p, minted, publisher)
      BY <1>1 DEF ClaimsDated
    <3>3. ASSUME <<j, g>> \in batch PROVE p.available_at <= now
      <4>1. Due(p, now)
        BY <1>3, <3>3 DEF claim_due, Publication
      <4>2. QED
        BY <1>1, <3>1, <3>2, <4>1 DEF Due, ClaimExpired, Dated, JobPublication
    <3>4. CASE <<j, g>> \in batch
      <4>1. publications'[j][g] = new(j, g)
        BY <2>5, <3>4
      <4> HIDE DEF new
      <4>2. p.available_at \in Nat
        BY <3>1 DEF JobPublication
      <4>3. QED
        BY <1>1, <2>1, <2>4, <3>1, <3>3, <3>4, <4>1, <4>2 DEF Dated, Claiming
    <3>5. CASE <<j, g>> \notin batch
      <4>1. publications'[j][g] = p
        BY <2>5, <3>5
      <4>2. p.available_at \in Nat /\ p.lease_id \in Nat
        BY <3>1 DEF JobPublication
      <4>3. QED
        BY <1>1, <2>1, <2>4, <3>2, <4>1, <4>2 DEF Dated
    <3>6. QED
      BY <3>4, <3>5
  <2>7. ClaimsDated' /\ IntentsOK' /\ PublicationId' = PublicationId
    BY <1>1, <2>3, <2>4, <2>5, <2>6, Rewritten DEF ExecInv
  <2>8. PassOK'
    <3>1. Pass' = Pass
      BY <2>7 DEF Pass
    <3>2. QED
      BY <1>1, <2>1, <2>4, <3>1 DEF PassOK, AtHand
  <2>9. QED
    BY <2>3, <2>7, <2>8 DEF PublisherOK
<1>4. QED
  BY <1>2, <1>3 DEF PassClaim

(* A step of the pass that leaves the store alone: it goes on under its    *)
(* lease and reading, or is over.                                          *)
LEMMA PassGoesOn ==
    ASSUME PublisherOK, UNCHANGED storeVars, UNCHANGED <<clock, worker, crashes>>,
           \/ publisher' = IdlePublisher
           \/ /\ publisher' \in Pass /\ publisher.pc \in Claiming
              /\ publisher'.now = publisher.now /\ publisher'.lease = publisher.lease
              /\ publisher'.pc \in AtHand => publisher'.id \in PublicationId
    PROVE  PublisherOK' /\ [StoreNext]_storeVars
<1>1. ExecInv' /\ HeldUnlessLost' /\ [StoreNext]_storeVars
  BY PassKeepsExec DEF PublisherOK
<1>2. IntentsOK' /\ PublicationId' = PublicationId /\ Pass' = Pass /\ minted' = minted
  BY StoreKept DEF PublisherOK, storeVars
<1>3. clock \in Nat
  BY DEF PublisherOK, ExecInv
<1>4. CASE publisher' = IdlePublisher
  <2>1. publisher'.pc = "idle" /\ publisher'.now = 0 /\ publisher' \in Pass
    BY <1>4, IdleIsPass DEF IdlePublisher
  <2>2. ClaimsDated'
    BY <2>1, NoClaimingDated DEF PublisherOK, Claiming
  <2>3. PassOK'
    BY <1>2, <1>3, <2>1 DEF PassOK, Claiming, AtHand
  <2>4. QED
    BY <1>1, <1>2, <2>2, <2>3 DEF PublisherOK
<1>5. CASE /\ publisher' \in Pass /\ publisher.pc \in Claiming
           /\ publisher'.now = publisher.now /\ publisher'.lease = publisher.lease
           /\ publisher'.pc \in AtHand => publisher'.id \in PublicationId
  <2>1. ClaimsDated'
    BY <1>5 DEF PublisherOK, ClaimsDated, Dated, storeVars
  <2>2. PassOK'
    BY <1>2, <1>5 DEF PublisherOK, PassOK
  <2>3. QED
    BY <1>1, <1>2, <2>1, <2>2 DEF PublisherOK
<1>6. QED
  BY <1>4, <1>5

LEMMA PublicationsAreNumbered ==
    ASSUME StoreInv, NEW id \in PublicationId
    PROVE  /\ id[1] \in Job /\ id[2] \in 1..Len(publications[id[1]])
           /\ id[2] \in Nat /\ id \in (Job \cup {NoJob}) \X Nat
           /\ Len(publications[id[1]]) \in Nat
<1>1. PICK j \in Job : id \in {j} \X (1..Len(publications[j]))
  BY DEF PublicationId
<1>2. id[1] = j /\ id[2] \in 1..Len(publications[j]) /\ id = <<id[1], id[2]>>
  BY <1>1
<1>3. Len(publications[j]) \in Nat
  BY DEF StoreInv, PublicationsOK
<1>4. QED
  BY <1>2, <1>3

LEMMA PassReadStep ==
    ASSUME PublisherOK, PassRead
    PROVE  PublisherOK' /\ [StoreNext]_storeVars
<1>1. PICK id \in publisher.batch :
         publisher' = [publisher EXCEPT
            !.id = id, !.batch = @ \ {id},
            !.pc = IF jobs[id[1]].status \in TerminalStatus THEN "mark" ELSE "send",
            !.attempt = IF jobs[id[1]].attempt_count = 0 THEN 1
                        ELSE jobs[id[1]].attempt_count]
  BY DEF PassRead
<1>2. /\ publisher \in Pass /\ publisher.pc = "next" /\ StoreInv
      /\ UNCHANGED storeVars /\ UNCHANGED <<clock, worker, crashes>>
  BY DEF PassRead, PublisherOK, PassOK, KeepWorkers, ExecInv
<1>3. id \in PublicationId
  BY <1>1, <1>2 DEF Pass
<1>4. /\ id \in (Job \cup {NoJob}) \X Nat
      /\ jobs[id[1]].attempt_count \in Nat
  BY <1>2, <1>3, PublicationsAreNumbered DEF StoreInv, JobsOK, JobRecord
<1> DEFINE pc == IF jobs[id[1]].status \in TerminalStatus THEN "mark" ELSE "send"
           n == IF jobs[id[1]].attempt_count = 0 THEN 1 ELSE jobs[id[1]].attempt_count
<1>5. pc \in {"mark", "send"} /\ n \in Nat
  BY <1>4
<1>6. publisher' = [publisher EXCEPT !.id = id, !.batch = @ \ {id}, !.pc = pc,
                                     !.attempt = n]
  BY <1>1
<1> HIDE DEF pc, n
<1>7. /\ publisher' \in Pass /\ publisher'.id = id
      /\ publisher'.now = publisher.now /\ publisher'.lease = publisher.lease
  BY <1>2, <1>4, <1>5, <1>6 DEF Pass
<1>8. QED
  BY <1>2, <1>3, <1>7, PassGoesOn DEF Claiming

LEMMA PassSendStep ==
    ASSUME PublisherOK, PassSend
    PROVE  PublisherOK' /\ [StoreNext]_storeVars
<1>1. PICK pc \in {"mark", "fail"} : publisher' = [publisher EXCEPT !.pc = pc]
  BY DEF PassSend
<1>2. /\ publisher \in Pass /\ publisher.pc = "send" /\ publisher.id \in PublicationId
      /\ UNCHANGED storeVars /\ UNCHANGED <<clock, worker, crashes>>
  BY DEF PassSend, PublisherOK, PassOK, KeepWorkers, AtHand
<1>3. /\ publisher' \in Pass /\ publisher'.id = publisher.id
      /\ publisher'.now = publisher.now /\ publisher'.lease = publisher.lease
  BY <1>1, <1>2 DEF Pass
<1>4. QED
  BY <1>2, <1>3, PassGoesOn DEF Claiming

LEMMA PassCrashStep ==
    ASSUME PublisherOK, PassCrash
    PROVE  PublisherOK' /\ [StoreNext]_storeVars
BY PassGoesOn DEF PassCrash, KeepWorkers

(* A mark under the pass's lease moves no generation to an earlier time:   *)
(* the generation was due at the pass's reading.                           *)
LEMMA PassMarkStep ==
    ASSUME PublisherOK, PassMark
    PROVE  PublisherOK' /\ [StoreNext]_storeVars
<1> DEFINE j == publisher.id[1]
           g == publisher.id[2]
           at == publisher.now + PublicationRetryDelay
           rest == IF publisher.batch = {} THEN IdlePublisher
                   ELSE [publisher EXCEPT !.pc = "next"]
<1>1. /\ ExecInv /\ PassOK /\ HeldUnlessLost /\ IntentsOK /\ ClaimsDated /\ StoreInv
      /\ publisher \in Pass /\ publisher.pc \in {"mark", "fail"}
      /\ UNCHANGED <<clock, worker, crashes>> /\ minted \in Nat
  BY DEF PublisherOK, PassMark, KeepWorkers, ExecInv, StoreInv, JobsOK, PassOK
<1>2. /\ j \in Job /\ g \in 1..Len(publications[j]) /\ Len(publications[j]) \in Nat
      /\ publisher.id \in PublicationId /\ publisher.lease \in 1..minted
      /\ publisher.now \in Nat /\ at \in Instant /\ at \in Nat
      /\ at >= publisher.now
  <2>1. publisher.id \in PublicationId /\ publisher.lease \in 1..minted
    BY <1>1 DEF PassOK, Claiming, AtHand
  <2>2. publisher.now \in Nat /\ at \in Instant
    BY <1>1, PassReadings
  <2>3. at \in Nat /\ at >= publisher.now
    BY <2>2, SystemAssumption
  <2>4. QED
    BY <1>1, <2>1, <2>2, <2>3, PublicationsAreNumbered
<1>3. CASE UNCHANGED storeVars /\ publisher' = IdlePublisher
  BY <1>1, <1>3, PassGoesOn
<1>4. ASSUME NEW status \in {"published", "failed"}, NEW time \in Nat,
             publications[j][g].lease_id = publisher.lease,
             ReleasePublication(j, g, status, time),
             time \in {publications[j][g].available_at, at},
             UNCHANGED <<jobs, fingerprints, locks, minted>>,
             [PublicationNext]_storeVars, publisher' = rest
      PROVE  PublisherOK' /\ [StoreNext]_storeVars
  <2> DEFINE q == [status |-> status, available_at |-> time,
                   lease_id |-> NoLease, claim_expires_at |-> 0]
  <2>1. ExecInv' /\ HeldUnlessLost' /\ [StoreNext]_storeVars
    BY <1>1, <1>4, PassKeepsExec
  <2>2. publications' = [publications EXCEPT ![j][g] = q]
    BY <1>4 DEF ReleasePublication
  <2>3. q.status = status /\ q.available_at = time /\ q.lease_id = 0
    BY DEF NoLease
  <2> HIDE DEF q
  <2>4. /\ \A i \in Job : DOMAIN publications'[i] = 1..Len(publications[i])
        /\ \A i \in Job : \A h \in 1..Len(publications[i]) :
              /\ publications[i][h] \in JobPublication
              /\ publications'[i][h] = IF i = j /\ h = g THEN q ELSE publications[i][h]
    BY <1>1, <1>2, <2>2 DEF StoreInv, PublicationsOK
  <2>5. time >= publications[j][g].available_at
    <3>1. Dated(publications[j][g], minted, publisher)
      BY <1>1, <1>2 DEF ClaimsDated
    <3>2. publications[j][g].available_at <= publisher.now
      BY <1>1, <1>4, <3>1 DEF Dated, Claiming
    <3>3. publications[j][g].available_at \in Nat
      BY <1>2, <2>4 DEF JobPublication
    <3>4. QED
      BY <1>2, <1>4, <3>2, <3>3
  <2>6. /\ publisher'.now \in Nat /\ publisher' \in Pass
        /\ \/ publisher' = IdlePublisher
           \/ /\ publisher'.pc = "next" /\ publisher'.now = publisher.now
              /\ publisher'.lease = publisher.lease
    BY <1>1, <1>4, IdleIsPass DEF Pass
  <2>7. ASSUME NEW i \in Job, NEW h \in 1..Len(publications[i])
        PROVE  /\ Dated(publications'[i][h], minted', publisher')
               /\ publications'[i][h].available_at >= publications[i][h].available_at
    <3>1. Dated(publications[i][h], minted, publisher)
      BY <1>1 DEF ClaimsDated
    <3>2. publications[i][h].available_at \in Nat /\ publications[i][h].lease_id \in Nat
      BY <2>4 DEF JobPublication
    <3>3. CASE i = j /\ h = g
      <4>1. publications'[i][h] = q
        BY <2>4, <3>3
      <4>2. Dated(q, minted', publisher')
        BY <1>1, <1>2, <1>4, <2>3, <2>6 DEF Dated, Claiming, IdlePublisher
      <4>3. QED
        BY <2>3, <2>5, <3>3, <4>1, <4>2
    <3>4. CASE ~(i = j /\ h = g)
      <4>1. publications'[i][h] = publications[i][h]
        BY <2>4, <3>4
      <4>2. Dated(publications[i][h], minted', publisher')
        BY <1>1, <1>4, <2>6, <3>1 DEF Dated, Claiming, IdlePublisher
      <4>3. QED
        BY <3>2, <4>1, <4>2
    <3>5. QED
      BY <3>3, <3>4
  <2>8. ClaimsDated' /\ IntentsOK' /\ PublicationId' = PublicationId
    BY <1>1, <1>4, <2>1, <2>4, <2>7, Rewritten DEF ExecInv
  <2>9. PassOK'
    <3>1. Pass' = Pass /\ clock' = clock /\ minted' = minted /\ clock \in Nat
      BY <1>1, <1>4, <2>8 DEF Pass, ExecInv
    <3>2. QED
      BY <1>1, <1>2, <2>6, <3>1 DEF PassOK, Claiming, AtHand, IdlePublisher
  <2>10. QED
    BY <2>1, <2>8, <2>9 DEF PublisherOK
<1>5. CASE mark_published(j, g, publisher.lease) /\ publisher' = rest
  <2>1. PublicationNext
    BY <1>2, <1>5 DEF PublicationNext
  <2>2. publications[j][g].available_at \in Nat
    <3>1. publications[j] \in Seq(JobPublication)
      BY <1>1, <1>2 DEF StoreInv, PublicationsOK
    <3>2. publications[j][g] \in JobPublication
      BY <1>2, <3>1
    <3>3. QED
      BY <3>2 DEF JobPublication
  <2>3. QED
    BY <1>4, <1>5, <2>1, <2>2 DEF mark_published
<1>6. CASE mark_failed(j, g, publisher.lease, at) /\ publisher' = rest
  <2>1. PublicationNext
    BY <1>2, <1>6 DEF PublicationNext
  <2>2. QED
    BY <1>2, <1>4, <1>6, <2>1 DEF mark_failed
<1>7. QED
  BY <1>3, <1>5, <1>6 DEF PassMark

LEMMA PublisherStep ==
    ASSUME PublisherOK,
           PassStart \/ PassClaim \/ PassRead \/ PassSend \/ PassMark \/ PassCrash
    PROVE  PublisherOK' /\ [StoreNext]_storeVars
BY PassStartStep, PassClaimStep, PassReadStep, PassSendStep, PassMarkStep, PassCrashStep

-----------------------------------------------------------------------------
(* The steps of the workers, the applications, the operators and time.     *)

LEMMA ClientStep ==
    ASSUME PublisherOK, [ClientNext]_storeVars, ExecInv', HeldUnlessLost',
           clock' \in Nat, clock <= clock', UNCHANGED publisher
    PROVE  PublisherOK' /\ [StoreNext]_storeVars
<1>1. /\ StoreInv /\ PassOK /\ ClaimsDated /\ IntentsOK
      /\ clock \in Nat /\ minted \in Nat
  BY DEF PublisherOK, ExecInv, StoreInv, JobsOK
<1>2. [StoreNext]_storeVars
  BY ClientIsStore
<1>3. minted' \in Nat /\ minted <= minted'
  BY <1>1, <1>2, MintedGrows
<1>4. Intended
  BY <1>1, ClientIntends
<1>5. PassOK'
  BY <1>1, <1>3, <1>4, IntendedGrows, PassUndisturbed
<1>6. ClaimsDated' /\ IntentsOK'
  BY <1>1, <1>3, <1>4, DatedUndisturbed
<1>7. QED
  BY <1>2, <1>5, <1>6 DEF PublisherOK

(* A step of an invocation, and its start.                                 *)
LEMMA ServedStep ==
    ASSUME PublisherOK, NEW w \in Worker, UNCHANGED publisher,
           (\E j \in Job : Begin(w, j)) \/ Run(w) \/ Ack(w) \/ Crash(w)
    PROVE  PublisherOK' /\ [StoreNext]_storeVars
<1>1. ExecInv /\ HeldUnlessLost /\ clock \in Nat /\ crashes \in Nat
  BY ExecutorAssumption DEF PublisherOK, ExecInv
<1>2. ExecInv' /\ Served(w)
  BY <1>1, BeginStep, RunKeeps, ReturnStep
<1>3. HeldUnlessLost'
  <2>1. CASE Crash(w)
    BY <1>1, <2>1 DEF Crash, HeldUnlessLost
  <2>2. QED
    BY <1>1, <2>1, RunHeld, IdleHeld
<1>4. QED
  BY <1>1, <1>2, <1>3, ClientStep DEF Served

(* Steps around the executor that leave it and the store alone.            *)
LEMMA ExecKept ==
    ASSUME PublisherOK, UNCHANGED publisher, UNCHANGED <<storeVars, clock, worker>>,
           crashes' \in 0..MaxCrashes, crashes' = 0 => crashes = 0
    PROVE  PublisherOK' /\ [StoreNext]_storeVars
<1>1. ExecInv /\ HeldUnlessLost /\ clock \in Nat
  BY DEF PublisherOK, ExecInv
<1>2. UNCHANGED <<jobs, fingerprints, publications, locks, minted>>
  BY DEF storeVars
<1>3. StoreInv' /\ RevisionsOK'
  BY <1>1, StoreSteps
<1>4. \A w \in Worker : WorkerOK(w)'
  BY <1>1, <1>2 DEF ExecInv, WorkerOK, InTime, Is, HoldsJob, HoldsLock, LeaseHeld,
                    OverlapKeyHeldBy, Fp
<1>5. ExecInv'
  BY <1>1, <1>3, <1>4 DEF ExecInv, LeasesApart
<1>6. HeldUnlessLost'
  BY <1>1, <1>2 DEF HeldUnlessLost, Holder, LeaseHeld
<1>7. QED
  BY <1>1, <1>5, <1>6, ClientStep

LEMMA IngestStep ==
    ASSUME PublisherOK, TransportOK, NEW w \in Worker, Ingest(w)
    PROVE  PublisherOK' /\ [StoreNext]_storeVars
<1>1. /\ ExecInv /\ HeldUnlessLost /\ clock \in Nat /\ clock \in Instant
      /\ UNCHANGED <<clock, worker, crashes, publisher>>
  BY PassReadings DEF PublisherOK, Ingest, KeepTransport
<1>2. PICK j \in Scheduled :
         ingest_existing_delivery(j, KeyOf[j], FingerprintOf[j], clock)
  BY DEF Ingest
<1>3. /\ j \in Job /\ KeyOf[j] \in DedupeKey \cup {NoKey}
      /\ FingerprintOf[j] \in Fingerprint
  BY ExecutorAssumption, SystemAssumption
<1>4. SubmitNext
  BY <1>1, <1>2, <1>3 DEF SubmitNext
<1>5. Spared(NoLease) /\ NoneStarted
  BY <1>1, <1>2, <1>3, InsertSpares, InsertStartsNone DEF ingest_existing_delivery
<1>6. ClientNext
  BY <1>4 DEF ClientNext
<1>7. ExecInv' /\ HeldUnlessLost'
  BY <1>1, <1>5, <1>6, ClientIsStore, StoreMoves, OthersHeld
<1>8. QED
  BY <1>1, <1>6, <1>7, ClientStep

LEMMA EnvironmentStep ==
    ASSUME PublisherOK, UNCHANGED publisher,
           (\E j \in Job : Submit(j)) \/ Operate \/ Tick
    PROVE  PublisherOK' /\ [StoreNext]_storeVars
<1>1. ExecInv /\ HeldUnlessLost /\ clock \in Nat
  BY DEF PublisherOK, ExecInv
<1>2. ExecInv' /\ [ClientNext]_storeVars
  BY <1>1, SubmitStep, OperateStep, TickStep
<1>3. NoneStarted
  <2>1. CASE \E j \in Job : Submit(j)
    BY <1>1, <2>1, InsertStartsNone DEF Submit, enqueue_with_intent
  <2>2. CASE Operate
    BY <1>1, <2>2, OperateStartsNone
  <2>3. CASE Tick
    BY <2>3 DEF Tick, NoneStarted, storeVars
  <2>4. QED
    BY <2>1, <2>2, <2>3
<1>4. UNCHANGED <<worker, crashes>> /\ clock' \in Nat /\ clock <= clock'
  BY <1>1 DEF Submit, Operate, Tick
<1>5. HeldUnlessLost'
  BY <1>1, <1>3, <1>4, OthersHeld
<1>6. QED
  BY <1>2, <1>4, <1>5, ClientStep

-----------------------------------------------------------------------------
(* Messages stay messages.                                                 *)

LEMMA NoMessageIsMessage == NoMessage \in Message
BY DEF NoMessage, Trigger, Message

LEMMA SentIsMessage ==
    ASSUME PublisherOK, publisher.pc \in AtHand
    PROVE  Delivery(publisher.id[1], publisher.id[2], publisher.attempt) \in Message
<1>1. publisher.id \in PublicationId /\ publisher.attempt \in Nat /\ StoreInv
  BY DEF PublisherOK, PassOK, Pass, ExecInv
<1>2. publisher.id[1] \in Job /\ publisher.id[2] \in Nat
  BY <1>1, PublicationsAreNumbered
<1>3. QED
  BY <1>1, <1>2 DEF Delivery, Message

(* Replacing the message an invocation handles.                            *)
LEMMA InflightKept ==
    ASSUME TransportOK, NEW w \in Worker, NEW m \in Message
    PROVE  [inflight EXCEPT ![w] = m] \in [Worker -> Message]
BY DEF TransportOK

LEMMA WorkerTransport ==
    ASSUME TransportOK, NEW w \in Worker,
           \/ Receive(w) \/ Ingest(w) \/ Execute(w) \/ RunStep(w)
           \/ Acknowledge(w) \/ WorkerCrash(w)
    PROVE  TransportOK'
<1>1. inflight' \in [Worker -> Message]
  <2>1. CASE Receive(w)
    BY <2>1, InflightKept DEF Receive, TransportOK
  <2>2. CASE Ingest(w) \/ Execute(w)
    BY <2>2 DEF Ingest, Execute, TransportOK
  <2>3. CASE RunStep(w) \/ Acknowledge(w) \/ WorkerCrash(w)
    BY <2>3, NoMessageIsMessage, InflightKept
       DEF RunStep, Acknowledge, WorkerCrash, TransportOK
  <2>4. QED
    BY <2>1, <2>2, <2>3
<1>2. queue' \subseteq Message
  BY DEF Receive, Ingest, Execute, RunStep, Acknowledge, WorkerCrash, KeepTransport,
         TransportOK
<1>3. UNCHANGED <<fired, sendFailures, scenario>>
  BY DEF Receive, Ingest, Execute, RunStep, Acknowledge, WorkerCrash, KeepTransport
<1>4. QED
  BY <1>1, <1>2, <1>3 DEF TransportOK

LEMMA PublisherTransport ==
    ASSUME PublisherOK, TransportOK,
           PassStart \/ PassClaim \/ PassRead \/ PassSend \/ PassMark \/ PassCrash
    PROVE  TransportOK'
<1>1. UNCHANGED <<inflight, fired, scenario>>
  BY DEF PassStart, PassClaim, PassRead, PassSend, PassMark, PassCrash, KeepWorkers
<1>2. queue' \subseteq Message
  <2>1. CASE PassSend
    BY <2>1, SentIsMessage DEF PassSend, AtHand, TransportOK
  <2>2. QED
    BY <2>1 DEF PassStart, PassClaim, PassRead, PassMark, PassCrash, TransportOK
<1>3. sendFailures' \in 0..MaxSendFailures
  <2>1. \/ sendFailures' = sendFailures
        \/ sendFailures < MaxSendFailures /\ sendFailures' = sendFailures + 1
    BY DEF PassStart, PassClaim, PassRead, PassSend, PassMark, PassCrash
  <2>2. sendFailures \in 0..MaxSendFailures
    BY DEF TransportOK
  <2>3. QED
    BY <2>1, <2>2, SystemAssumption
<1>4. QED
  BY <1>1, <1>2, <1>3 DEF TransportOK

-----------------------------------------------------------------------------
(* The invariant, and what it says.                                        *)

LEMMA SystemInitInv == Init => SystemInv
<1> SUFFICES ASSUME Init PROVE SystemInv
  OBVIOUS
<1>1. ExecInv /\ \A j \in Job : jobs[j].status = "absent" /\ publications[j] = <<>>
  BY ExecInitInv DEF Init, ExecInit, StoreInit, AbsentRecord, pending_record
<1>2. HeldUnlessLost /\ ClaimsDated /\ IntentsOK
  BY <1>1 DEF HeldUnlessLost, ClaimsDated, IntentsOK, NotEarly
<1>3. PassOK
  BY IdleIsPass, ExecutorAssumption
     DEF Init, ExecInit, PassOK, IdlePublisher, Claiming, AtHand
<1>4. TransportOK
  BY NoMessageIsMessage, SystemAssumption DEF Init, TransportOK
<1>5. QED
  BY <1>1, <1>2, <1>3, <1>4 DEF SystemInv

LEMMA SystemStep ==
    ASSUME SystemInv, [Next]_vars
    PROVE  SystemInv' /\ [StoreNext]_storeVars
<1>1. PublisherOK /\ TransportOK /\ crashes \in 0..MaxCrashes
  BY DEF SystemInv, PublisherOK, ExecInv
<1>2. ASSUME PublisherOK' /\ TransportOK' PROVE SystemInv'
  BY <1>2 DEF SystemInv, PublisherOK
<1>3. ASSUME NEW w \in Worker,
             \/ Receive(w) \/ Ingest(w) \/ Execute(w) \/ RunStep(w)
             \/ Acknowledge(w) \/ WorkerCrash(w)
      PROVE  SystemInv' /\ [StoreNext]_storeVars
  <2>1. PublisherOK' /\ [StoreNext]_storeVars
    <3>1. UNCHANGED publisher
      BY <1>3 DEF Receive, Ingest, Execute, RunStep, Acknowledge, WorkerCrash,
                  KeepTransport
    <3>2. CASE Receive(w)
      BY <1>1, <3>1, <3>2, ExecKept DEF Receive, execVars
    <3>3. CASE Execute(w)
      <4>1. JobOf(inflight[w]) \in Job
        <5>1. inflight[w] \in Message
          BY <1>1 DEF TransportOK
        <5>2. fingerprints \in [DedupeKey -> Job \cup {NoJob}]
          BY <1>1 DEF PublisherOK, ExecInv, StoreInv, KeysOK
        <5>3. QED
          BY <3>3, <5>1, <5>2 DEF Execute, JobOf, IsTrigger, Message
      <4>2. \E j \in Job : Begin(w, j)
        BY <3>3, <4>1 DEF Execute
      <4>3. QED
        BY <1>1, <3>1, <4>2, ServedStep
    <3>4. CASE WorkerCrash(w) /\ ~Crash(w)
      <4>1. /\ UNCHANGED <<storeVars, clock, worker>> /\ crashes' = crashes + 1
            /\ crashes < MaxCrashes
        BY <3>4 DEF WorkerCrash
      <4>2. crashes' \in 0..MaxCrashes /\ (crashes' = 0 => crashes = 0)
        BY <1>1, <4>1, ExecutorAssumption
      <4>3. QED
        BY <1>1, <3>1, <4>1, <4>2, ExecKept
    <3>5. CASE Run(w) \/ Ack(w) \/ Crash(w)
      BY <1>1, <3>1, <3>5, ServedStep
    <3>6. CASE Ingest(w)
      BY <1>1, <3>6, IngestStep
    <3>7. QED
      BY <1>3, <3>2, <3>3, <3>4, <3>5, <3>6 DEF RunStep, Acknowledge
  <2>2. QED
    BY <1>1, <1>2, <1>3, <2>1, WorkerTransport
<1>4. CASE PassStart \/ PassClaim \/ PassRead \/ PassSend \/ PassMark \/ PassCrash
  BY <1>1, <1>2, <1>4, PublisherStep, PublisherTransport
<1>5. CASE (\E k \in DedupeKey : Fire(k)) \/ UNCHANGED vars
  <2>1. UNCHANGED execVars /\ UNCHANGED publisher
    BY <1>5 DEF Fire, vars
  <2>2. TransportOK'
    <3>1. ASSUME NEW k \in DedupeKey, Fire(k) PROVE TransportOK'
      <4>1. Trigger(k) \in Message
        BY DEF Trigger, Message
      <4>2. QED
        BY <1>1, <3>1, <4>1 DEF Fire, TransportOK
    <3>2. QED
      BY <1>1, <1>5, <3>1 DEF vars, TransportOK
  <2>3. QED
    BY <1>1, <1>2, <2>1, <2>2, ExecKept DEF execVars
<1>6. CASE ((\E j \in Job : Submit(j)) \/ Operate \/ Tick) /\ KeepSystem
  BY <1>1, <1>2, <1>6, EnvironmentStep DEF KeepSystem, TransportOK
<1>7. QED
  BY <1>3, <1>4, <1>5, <1>6 DEF Next

THEOREM SystemInvariant == Spec => []SystemInv
<1>1. Init => SystemInv
  BY SystemInitInv
<1>2. SystemInv /\ [Next]_vars => SystemInv'
  BY SystemStep
<1>3. QED
  BY <1>1, <1>2, PTL DEF Spec

LEMMA SystemIsStore == Spec => StoreSpec
<1>1. Init => StoreInit
  BY DEF Init, ExecInit
<1>2. SystemInv /\ [Next]_vars => [StoreNext]_storeVars
  BY SystemStep
<1>3. QED
  BY <1>1, <1>2, SystemInvariant, PTL DEF Spec, StoreSpec

(* Workers, publisher, scheduler, operators and crashes change the durable *)
(* state only as the operations of the store do.                           *)
THEOREM SystemUsesStore == Spec => ImplementsStore
<1>1. [StoreNext]_storeVars => [storeVars' # storeVars => StoreNext]_storeVars
  OBVIOUS
<1>2. QED
  BY <1>1, SystemIsStore, PTL DEF StoreSpec, ImplementsStore

(* So a job of the whole system lives as the lifecycle allows: it is       *)
(* settled once per claim, and comes back only with an intent to publish.  *)
THEOREM SystemImplementsLifecycle == Spec => ImplementsLifecycle
BY SystemIsStore, StoreImplementsLifecycle, PTL

LEMMA SystemInvTypes == SystemInv => SystemTypeOK
BY ExecInvTypes DEF SystemInv, PassOK, Pass, TransportOK, SystemTypeOK

LEMMA SystemInvNotEarly == SystemInv => NewestIntentNotEarly
BY DEF SystemInv, IntentsOK, NotEarly, NewestIntentNotEarly

LEMMA SystemInvConcurrent == SystemInv => NoConcurrentHandlers
BY ExecInvConcurrent DEF SystemInv

LEMMA SystemInvRecoverable == SystemInv => RunningIsRecoverableUnlessLost
<1> SUFFICES ASSUME SystemInv, crashes = 0, NEW j \in Job, jobs[j].status = "running"
             PROVE  \E w \in Worker : worker[w].job = j /\ LeaseHeld(j, worker[w].lease)
  BY DEF RunningIsRecoverableUnlessLost, RunningIsRecoverable
<1>1. PICK w \in Worker : Holder(w, j)
  BY DEF SystemInv, HeldUnlessLost
<1>2. QED
  BY <1>1 DEF Holder

(* Queue, messages in hand and the publisher's pass keep their shape: a    *)
(* generation the pass still acts on is always there.                      *)
THEOREM SystemTypeCorrect == Spec => []SystemTypeOK
BY SystemInvariant, SystemInvTypes, PTL

(* No two handlers of one job run at the same time, whatever the transport *)
(* duplicates or delays.                                                   *)
THEOREM SystemHandlersNeverConcurrent == Spec => []NoConcurrentHandlers
BY SystemInvariant, SystemInvConcurrent, PTL

(* A pending job's newest generation is not due before the job is, not     *)
(* even after a send that failed and a claim that was recovered.           *)
THEOREM IntentsAreNotEarly == Spec => []NewestIntentNotEarly
BY SystemInvariant, SystemInvNotEarly, PTL

(* As long as no invocation is lost, every running job is in the hands of  *)
(* an invocation that holds its lease: results that are fenced out, busy   *)
(* locks and reclaimed leases strand none.                                 *)
THEOREM RunningJobsAreRecoverable == Spec => []RunningIsRecoverableUnlessLost
BY SystemInvariant, SystemInvRecoverable, PTL

-----------------------------------------------------------------------------
(* No pending job is lost.                                                 *)

Waiting(j) == jobs[j].status = "pending"
Generations(j) == Len(publications[j])

(* Message m is the delivery of job j's newest generation, or the trigger  *)
(* it was minted for while it has no other.                                *)
Newest(m, j) ==
    ~IsTrigger(m) /\ m.job = j /\ m.generation = Generations(j)

Names(m, j) ==
    \/ Newest(m, j)
    \/ IsTrigger(m) /\ fingerprints[m.key] = j /\ Generations(j) = 1

(* Worker w has not executed its message yet, or has read the clock late   *)
(* enough to claim the pending job j.                                      *)
WillClaim(w, j) ==
    \/ Is(w, "idle")
    \/ /\ Is(w, "claim") /\ worker[w].job = j
       /\ jobs[j].available_at <= worker[w].now

(* A message is on the queue that brings job j to a worker: nobody who     *)
(* received it acknowledges it without a claim.                            *)
Carries(m, j) ==
    /\ Names(m, j)
    /\ \A w \in Worker : inflight[w] = m => WillClaim(w, j)

Carried(j) ==
    /\ jobs[j].available_at <= clock
    /\ \E m \in queue : Carries(m, j)

(* The publisher sends a generation when its job is available, with an     *)
(* attempt the decoder accepts if the job still waits for it.              *)
Accepted(j, attempt) ==
    /\ jobs[j].available_at <= clock
    /\ attempt \in 1..MaximumAttempts[jobs[j].fingerprint]

Sent(m) ==
    /\ m.job \in Job /\ m.generation \in 1..Generations(m.job)
    /\ m.generation = Generations(m.job) /\ Waiting(m.job) =>
           Accepted(m.job, m.attempt)

MessageOK(m) == IsTrigger(m) \/ Sent(m)

(* An invocation that is past its start has a message.  A trigger is not   *)
(* acknowledged before its job is stored; the delivery of the newest       *)
(* generation of a pending job is acknowledged only after its claim.       *)
HandOK(w) ==
    /\ inflight[w] = NoMessage \/ MessageOK(inflight[w])
    /\ inflight[w] = NoMessage => Is(w, "idle")
    /\ IsTrigger(inflight[w]) /\ fingerprints[inflight[w].key] = NoJob =>
           Is(w, "idle") /\ inflight[w] \in queue
    /\ \A j \in Job : Newest(inflight[w], j) /\ Waiting(j) => WillClaim(w, j)

(* What the pass knows of a generation it claimed, sends and marks.        *)
NewestId(id) == id[2] = Generations(id[1]) /\ Waiting(id[1])

ClaimedId(id) ==
    NewestId(id) => jobs[id[1]].available_at <= publisher.now

PassCarries ==
    /\ publisher.pc \in Claiming => \A id \in publisher.batch : ClaimedId(id)
    /\ publisher.pc \in AtHand => ClaimedId(publisher.id)
    /\ publisher.pc = "send" /\ NewestId(publisher.id) =>
           publisher.attempt \in
               1..MaximumAttempts[jobs[publisher.id[1]].fingerprint]
    /\ publisher.pc = "mark" /\ NewestId(publisher.id) =>
           Carried(publisher.id[1])

NewestPublished(j) == publications[j][Generations(j)].status = "published"

DeliveryInv ==
    /\ \A j \in Job : jobs[j].status = "absent" => Generations(j) = 0
    /\ \A m \in queue : MessageOK(m)
    /\ \A w \in Worker : HandOK(w)
    /\ PassCarries
    /\ \A j \in Job : Waiting(j) /\ NewestPublished(j) => Carried(j)

(* A pending job has not used up more attempts than its policy allows.     *)
PendingWithinLimit ==
    \A j \in Job : Waiting(j) =>
        jobs[j].attempt_count <= MaximumAttempts[jobs[j].fingerprint]

-----------------------------------------------------------------------------
(* What every step does: a job that waits after it either waited before    *)
(* for the same time and generation, or has one generation more; stored    *)
(* jobs, their fingerprints and their keys stay.                           *)
Same(j) ==
    /\ Generations(j)' = Generations(j)
    /\ Waiting(j)' => Waiting(j) /\ jobs'[j].available_at = jobs[j].available_at

Forward ==
    /\ \A j \in Job : Generations(j) \in Nat
    /\ \A j \in Job : Same(j) \/ Generations(j)' = Generations(j) + 1
    /\ \A j \in Job : jobs[j].status # "absent" =>
          jobs'[j].status # "absent" /\ jobs'[j].fingerprint = jobs[j].fingerprint
    /\ \A j \in Job : Generations(j)' = Generations(j) + 1 =>
          jobs'[j].status # "absent"
    /\ \A k \in DedupeKey : fingerprints[k] # NoJob =>
          fingerprints'[k] = fingerprints[k]
    /\ clock \in Nat /\ clock' \in Nat /\ clock <= clock'
    /\ \A j \in Job : jobs[j].available_at \in Nat

(* What an invocation does with its message: it has none or has not begun  *)
(* with it; is not concerned; begins; or goes on, and gives no job up that *)
(* it was about to claim.                                                  *)
Hand(w) ==
    \/ Is(w, "idle")' /\ inflight'[w] \in queue' \cup {NoMessage}
    \/ inflight'[w] = inflight[w] /\ worker'[w] = worker[w]
    \/ /\ inflight'[w] = inflight[w]
       /\ inflight[w] # NoMessage /\ JobOf(inflight[w]) # NoJob
       /\ Is(w, "claim")' /\ worker'[w].job = JobOf(inflight[w])
       /\ worker'[w].now = clock
    \/ /\ inflight'[w] = inflight[w] /\ ~Is(w, "idle")
       /\ \A j \in Job : WillClaim(w, j) /\ Waiting(j) => ~Waiting(j)'

(* A message leaves the queue when it is acknowledged or never decodable.  *)
QueueKeeps ==
    \A m \in queue :
        \/ m \in queue'
        \/ \E w \in Worker : inflight[w] = m /\ Is(w, "ack")
        \/ ~Decodable(m)

LEMMA NewestStays ==
    ASSUME Forward, NEW m, Sent(m), NEW j \in Job, Newest(m, j)', Waiting(j)'
    PROVE  Same(j) /\ Newest(m, j) /\ Waiting(j)
BY DEF Forward, Sent, Newest, Same, IsTrigger

LEMMA SentStays ==
    ASSUME Forward, DeliveryInv, NEW m, Sent(m) PROVE Sent(m)'
<1> DEFINE j == m.job
<1>1. /\ j \in Job /\ m.generation \in 1..Generations(j) /\ Generations(j) \in Nat
      /\ Generations(j)' \in Nat /\ Generations(j) <= Generations(j)'
  BY DEF Sent, Forward, Same
<1>2. jobs[j].status # "absent" /\ jobs'[j].fingerprint = jobs[j].fingerprint
  BY <1>1 DEF DeliveryInv, Forward
<1>3. m.generation = Generations(j)' /\ Waiting(j)' =>
         Same(j) /\ m.generation = Generations(j) /\ Waiting(j)
  BY <1>1 DEF Forward, Same
<1>4. m.generation = Generations(j)' /\ Waiting(j)' => Accepted(j, m.attempt)'
  <2> SUFFICES ASSUME m.generation = Generations(j)', Waiting(j)'
               PROVE  Accepted(j, m.attempt)'
    OBVIOUS
  <2>1. Accepted(j, m.attempt) /\ jobs'[j].available_at = jobs[j].available_at
    BY <1>3 DEF Sent, Same
  <2>2. QED
    BY <1>1, <1>2, <2>1 DEF Accepted, Forward
<1>5. QED
  BY <1>1, <1>4 DEF Sent

LEMMA NamesIsJobOf ==
    ASSUME NEW m, NEW j \in Job, Names(m, j)
    PROVE  JobOf(m) = j /\ m # NoMessage
<1>1. JobOf(m) = j
  BY DEF Names, Newest, JobOf
<1>2. ASSUME m = NoMessage PROVE FALSE
  <2>1. m.key = NoKey /\ m.job = NoJob
    BY <1>2 DEF NoMessage, Trigger
  <2>2. QED
    BY <2>1, StoreAssumption DEF Names, Newest, IsTrigger
<1>3. QED
  BY <1>1, <1>2

(* An invocation that will claim a job its message names still will.       *)
LEMMA WillClaimStays ==
    ASSUME Forward, NEW w \in Worker, Hand(w), NEW j \in Job, Waiting(j), Waiting(j)',
           jobs'[j].available_at = jobs[j].available_at,
           jobs[j].available_at <= clock,
           inflight'[w] = inflight[w] =>
               WillClaim(w, j) /\ JobOf(inflight[w]) = j
    PROVE  WillClaim(w, j)'
<1>1. CASE Is(w, "idle")'
  BY <1>1 DEF WillClaim
<1>2. CASE inflight'[w] = inflight[w] /\ worker'[w] = worker[w]
  BY <1>2 DEF WillClaim, Is
<1>3. CASE /\ inflight'[w] = inflight[w]
           /\ Is(w, "claim")' /\ worker'[w].job = JobOf(inflight[w])
           /\ worker'[w].now = clock
  BY <1>3 DEF WillClaim
<1>4. CASE /\ inflight'[w] = inflight[w]
           /\ \A i \in Job : WillClaim(w, i) /\ Waiting(i) => ~Waiting(i)'
  BY <1>4
<1>5. QED
  BY <1>1, <1>2, <1>3, <1>4 DEF Hand

(* The message that carries a job carries it on.                           *)
LEMMA CarriedStays ==
    ASSUME Forward, DeliveryInv, QueueKeeps, TransportOK, \A w \in Worker : Hand(w),
           NEW j \in Job, Same(j), Waiting(j)', Carried(j)
    PROVE  Carried(j)'
<1>1. /\ Waiting(j) /\ jobs'[j].available_at = jobs[j].available_at
      /\ Generations(j)' = Generations(j)
  BY DEF Same
<1>2. PICK m \in queue : Carries(m, j)
  BY DEF Carried
<1>3. Names(m, j) /\ JobOf(m) = j /\ m # NoMessage /\ MessageOK(m)
  BY <1>2, NamesIsJobOf DEF Carries, DeliveryInv
<1>4. Decodable(m)
  BY <1>1, <1>3 DEF Decodable, Names, Newest, MessageOK, Sent, Accepted
<1>5. m \in queue'
  <2>1. ASSUME NEW w \in Worker, inflight[w] = m PROVE ~Is(w, "ack")
    BY <1>2, <2>1 DEF Carries, WillClaim, Is
  <2>2. QED
    BY <1>4, <2>1 DEF QueueKeeps
<1>6. Names(m, j)'
  <2>1. CASE Newest(m, j)
    BY <1>1, <2>1 DEF Names, Newest, IsTrigger
  <2>2. CASE IsTrigger(m) /\ fingerprints[m.key] = j /\ Generations(j) = 1
    <3>1. fingerprints'[m.key] = j
      <4>1. m.key \in DedupeKey
        BY <2>2 DEF IsTrigger, TransportOK, Message
      <4>2. QED
        BY <2>2, <4>1, StoreAssumption DEF Forward
    <3>2. QED
      BY <1>1, <2>2, <3>1 DEF Names, IsTrigger
  <2>3. QED
    BY <1>3, <2>1, <2>2 DEF Names
<1>7. ASSUME NEW w \in Worker, inflight'[w] = m PROVE WillClaim(w, j)'
  <2>1. inflight'[w] = inflight[w] => WillClaim(w, j) /\ JobOf(inflight[w]) = j
    BY <1>2, <1>3, <1>7 DEF Carries
  <2>2. QED
    BY <1>1, <2>1, WillClaimStays DEF Carried
<1>8. jobs'[j].available_at <= clock'
  BY <1>1 DEF Carried, Forward
<1>9. QED
  BY <1>5, <1>6, <1>7, <1>8 DEF Carried, Carries

LEMMA MessageStays ==
    ASSUME Forward, DeliveryInv, NEW m, MessageOK(m) PROVE MessageOK(m)'
BY SentStays DEF MessageOK, IsTrigger

LEMMA HandStays ==
    ASSUME Forward, DeliveryInv, QueueKeeps, TransportOK,
           \A m \in queue' : m \in queue \/ MessageOK(m)', NEW w \in Worker, Hand(w)
    PROVE  HandOK(w)'
<1>1. HandOK(w) /\ \A m \in queue' : MessageOK(m)'
  BY MessageStays DEF DeliveryInv
<1>2. inflight'[w] = NoMessage \/ MessageOK(inflight[w])'
  <2> SUFFICES ASSUME NEW m, m = inflight'[w], m # NoMessage PROVE MessageOK(m)'
    BY DEF MessageOK, Sent, IsTrigger, Accepted, Generations, Waiting
  <2>1. CASE inflight'[w] = inflight[w]
    BY <1>1, <2>1, MessageStays DEF HandOK
  <2>2. CASE inflight'[w] \in queue' \cup {NoMessage}
    BY <1>1, <2>2
  <2>3. QED
    BY <2>1, <2>2 DEF Hand
<1>3. inflight'[w] = NoMessage => Is(w, "idle")'
  BY <1>1 DEF Hand, HandOK, Is
<1>4. ASSUME IsTrigger(inflight'[w]), fingerprints'[inflight'[w].key] = NoJob
      PROVE  Is(w, "idle")' /\ inflight'[w] \in queue'
  <2> DEFINE m == inflight[w]
  <2>1. CASE Is(w, "idle")' /\ inflight'[w] \in queue' \cup {NoMessage}
    BY <1>4, <2>1 DEF NoMessage, Trigger, IsTrigger
  <2>2. ASSUME inflight'[w] = m
        PROVE  fingerprints[m.key] = NoJob /\ Is(w, "idle") /\ m \in queue
    <3>1. m.key \in DedupeKey
      BY <1>4, <2>2 DEF TransportOK, Message, IsTrigger
    <3>2. QED
      BY <1>1, <1>4, <2>2, <3>1 DEF Forward, HandOK
  <2>3. CASE inflight'[w] = m /\ worker'[w] = worker[w]
    <3>1. ~\E u \in Worker : inflight[u] = m /\ Is(u, "ack")
      BY <1>4, <2>2, <2>3 DEF DeliveryInv, HandOK, Is
    <3>2. Decodable(m)
      BY <1>4, <2>3 DEF Decodable
    <3>3. QED
      BY <2>2, <2>3, <3>1, <3>2 DEF QueueKeeps, Is
  <2>4. CASE inflight'[w] = m /\ JobOf(m) # NoJob
    BY <1>4, <2>2, <2>4 DEF JobOf
  <2>5. CASE inflight'[w] = m /\ ~Is(w, "idle")
    BY <2>2, <2>5
  <2>6. QED
    BY <2>1, <2>3, <2>4, <2>5 DEF Hand
<1>5. ASSUME NEW j \in Job, Newest(inflight[w], j)', Waiting(j)'
      PROVE  WillClaim(w, j)'
  <2>1. CASE inflight'[w] # inflight[w]
    BY <2>1 DEF Hand, WillClaim
  <2>2. CASE inflight'[w] = inflight[w]
    <3> PICK m : m = inflight[w]
      OBVIOUS
    <3>0. Newest(m, j)'
      BY <1>5, <2>2 DEF Newest, IsTrigger
    <3>1. Sent(m)
      <4>1. m # NoMessage /\ ~IsTrigger(m)
        BY <3>0, StoreAssumption DEF Newest, NoMessage, Trigger, IsTrigger
      <4>2. QED
        BY <1>1, <4>1 DEF HandOK, MessageOK
    <3>2. Same(j) /\ Newest(m, j) /\ Waiting(j)
      BY <1>5, <3>0, <3>1, NewestStays
    <3>3. jobs[j].available_at <= clock
      BY <3>1, <3>2 DEF Sent, Newest, Accepted
    <3>4. WillClaim(w, j) /\ JobOf(inflight[w]) = j
      BY <1>1, <3>2, NamesIsJobOf DEF HandOK, Names
    <3>5. QED
      BY <1>5, <3>2, <3>3, <3>4, WillClaimStays DEF Same
  <2>3. QED
    BY <2>1, <2>2
<1>6. QED
  BY <1>2, <1>3, <1>4, <1>5 DEF HandOK

LEMMA NewestIdStays ==
    ASSUME Forward, StoreInv, NEW id \in PublicationId, NewestId(id)'
    PROVE  /\ NewestId(id) /\ Same(id[1]) /\ id[1] \in Job
           /\ jobs'[id[1]].fingerprint = jobs[id[1]].fingerprint
<1>1. id[1] \in Job /\ id[2] \in 1..Generations(id[1]) /\ Generations(id[1]) \in Nat
  BY PublicationsAreNumbered DEF Generations
<1>2. Same(id[1]) /\ NewestId(id)
  BY <1>1 DEF Forward, NewestId, Same
<1>3. jobs[id[1]].status # "absent"
  BY <1>2 DEF NewestId, Waiting
<1>4. QED
  BY <1>1, <1>2, <1>3 DEF Forward

LEMMA ClaimedIdStays ==
    ASSUME Forward, StoreInv, NEW id \in PublicationId, ClaimedId(id),
           publisher'.now = publisher.now
    PROVE  ClaimedId(id)'
<1>1. NewestId(id)' => /\ NewestId(id) /\ Same(id[1]) /\ Waiting(id[1])'
  BY NewestIdStays DEF NewestId
<1>2. QED
  BY <1>1 DEF ClaimedId, Same

(* The pass is not disturbed by the steps of others.                       *)
LEMMA PassStays ==
    ASSUME Forward, DeliveryInv, QueueKeeps, TransportOK, StoreInv, PassOK,
           \A w \in Worker : Hand(w), UNCHANGED publisher
    PROVE  PassCarries'
<1>1. publisher.batch \subseteq PublicationId /\ PassCarries
  BY DEF PassOK, Pass, DeliveryInv
<1>2. publisher.pc \in AtHand => publisher.id \in PublicationId
  BY DEF PassOK
<1>3. publisher'.pc \in Claiming => \A id \in publisher'.batch : ClaimedId(id)'
  BY <1>1, ClaimedIdStays DEF PassCarries
<1>4. ASSUME publisher.pc \in AtHand
      PROVE  /\ ClaimedId(publisher.id)'
             /\ publisher.pc = "send" /\ NewestId(publisher.id)' =>
                    publisher.attempt \in
                        1..MaximumAttempts[jobs'[publisher.id[1]].fingerprint]
             /\ publisher.pc = "mark" /\ NewestId(publisher.id)' =>
                    Carried(publisher.id[1])'
  <2>1. PICK id \in PublicationId : id = publisher.id
    BY <1>2, <1>4
  <2>2. id = publisher'.id
    BY <2>1
  <2>3. ClaimedId(id)'
    BY <1>1, <1>4, <2>1, ClaimedIdStays DEF PassCarries
  <2>4. ASSUME NewestId(id)'
        PROVE  /\ NewestId(id) /\ Same(id[1]) /\ id[1] \in Job /\ Waiting(id[1])'
               /\ jobs'[id[1]].fingerprint = jobs[id[1]].fingerprint
    BY <2>4, NewestIdStays DEF NewestId
  <2>5. ASSUME NewestId(id)', publisher.pc = "mark" PROVE Carried(id[1])'
    <3>1. Carried(id[1])
      BY <1>1, <2>1, <2>4, <2>5 DEF PassCarries
    <3>2. PICK j \in Job : j = id[1]
      BY <2>4, <2>5
    <3>3. QED
      BY <2>4, <2>5, <3>1, <3>2, CarriedStays
  <2>6. publisher.pc = "send" /\ NewestId(id)' =>
           publisher.attempt \in 1..MaximumAttempts[jobs'[id[1]].fingerprint]
    BY <1>1, <2>1, <2>4 DEF PassCarries
  <2>7. (id = publisher.id)'
    BY <2>2
  <2>8. QED
    BY <2>2, <2>3, <2>5, <2>6
       DEF ClaimedId, NewestId, Carried, Carries, Names, Newest, WillClaim,
           Generations, Waiting, Is
<1>5. QED
  BY <1>3, <1>4 DEF PassCarries, AtHand

(* What is left to show of a step: what it does with the pass, and which   *)
(* generation it publishes.                                                *)
LEMMA DeliveryFrame ==
    ASSUME Forward, DeliveryInv, QueueKeeps, TransportOK,
           \A w \in Worker : Hand(w),
           \A m \in queue' : m \in queue \/ MessageOK(m)',
           PassCarries',
           \A j \in Job : Waiting(j)' /\ NewestPublished(j)' =>
               (Same(j) /\ NewestPublished(j)) \/ Carried(j)'
    PROVE  DeliveryInv'
<1>1. \A j \in Job : jobs'[j].status = "absent" => Generations(j)' = 0
  BY DEF DeliveryInv, Forward, Same
<1>2. \A m \in queue' : MessageOK(m)'
  BY MessageStays DEF DeliveryInv
<1>3. \A w \in Worker : HandOK(w)'
  BY HandStays
<1>4. \A j \in Job : Waiting(j)' /\ NewestPublished(j)' => Carried(j)'
  BY CarriedStays DEF DeliveryInv, Same
<1>5. QED
  BY <1>1, <1>2, <1>3, <1>4 DEF DeliveryInv

-----------------------------------------------------------------------------
(* The steps of workers, applications, operators, scheduler and time.      *)

LEMMA KeysStay ==
    ASSUME [ClientNext]_storeVars
    PROVE  \A k \in DedupeKey : fingerprints[k] # NoJob =>
               fingerprints'[k] = fingerprints[k]
<1>1. CASE SubmitNext
  <2>1. PICK j \in Job, k \in DedupeKey \cup {NoKey} :
           /\ k # NoKey => fingerprints[k] = NoJob
           /\ fingerprints' = IF k = NoKey THEN fingerprints
                              ELSE [fingerprints EXCEPT ![k] = j]
    BY <1>1 DEF SubmitNext, enqueue_with_intent, ingest_existing_delivery, Insert,
                Insertable
  <2>2. QED
    BY <2>1
<1>2. CASE ExecutionNext \/ OperatorNext \/ LockNext \/ UNCHANGED storeVars
  BY <1>2 DEF ExecutionNext, claim_execution, complete, fail_permanently,
              schedule_retry_and_publish, OperatorNext, cancel, retry_failed,
              RecoverLeases, LockNext, acquire, refresh, release, RecoverLocks,
              SetLock, storeVars
<1>3. QED
  BY <1>1, <1>2 DEF ClientNext

LEMMA ClientForward ==
    ASSUME ExecInv, [ClientNext]_storeVars, NEW lease, Spared(lease),
           clock' \in Nat, clock <= clock'
    PROVE  /\ Forward
           /\ \A j \in Job :
                \/ publications'[j] = publications[j] /\ Same(j)
                \/ /\ Generations(j)' = Generations(j) + 1
                   /\ NewestPublished(j)' =>
                          jobs[j].status = "absent" /\ jobs'[j].status # "absent"
<1>1. /\ StoreInv /\ Intended /\ clock \in Nat
      /\ \A j \in Job : jobs[j].available_at \in Nat /\ Generations(j) \in Nat
  BY ClientIntends DEF ExecInv, StoreInv, JobsOK, JobRecord, PublicationsOK, Generations
<1>2. ASSUME NEW j \in Job
      PROVE  \/ publications'[j] = publications[j] /\ Same(j)
             \/ /\ Generations(j)' = Generations(j) + 1
                /\ jobs'[j].status # "absent"
                /\ NewestPublished(j)' => jobs[j].status = "absent"
  <2>1. CASE /\ publications'[j] = publications[j]
             /\ jobs'[j].status = "pending" =>
                   /\ jobs[j].status = "pending"
                   /\ jobs'[j].available_at = jobs[j].available_at
    BY <2>1 DEF Same, Generations, Waiting
  <2>2. ASSUME NEW at \in Nat, NEW status \in {"pending", "published"},
               publications'[j] = insert_publication(j, at, status),
               jobs'[j].status = "pending",
               status = "published" => jobs[j].status = "absent"
        PROVE  /\ Generations(j)' = Generations(j) + 1
               /\ jobs'[j].status # "absent"
               /\ NewestPublished(j)' => jobs[j].status = "absent"
    BY <1>1, <2>2, Inserted DEF Generations, NewestPublished
  <2>3. QED
    BY <1>1, <2>1, <2>2 DEF Intended
<1>3. \A j \in Job : Same(j) => Generations(j)' # Generations(j) + 1
  BY <1>1 DEF Same
<1>4. \A j \in Job : jobs[j].status # "absent" =>
         jobs'[j].status # "absent" /\ jobs'[j].fingerprint = jobs[j].fingerprint
  BY DEF Spared
<1>5. \A j \in Job : /\ Same(j) \/ Generations(j)' = Generations(j) + 1
                     /\ Generations(j)' = Generations(j) + 1 =>
                            jobs'[j].status # "absent"
  BY <1>2, <1>3
<1>6. Forward
  BY <1>1, <1>4, <1>5, KeysStay DEF Forward
<1>7. QED
  BY <1>2, <1>6

CarriedInv == SystemInv /\ DeliveryInv

LEMMA ClientDelivers ==
    ASSUME CarriedInv, [ClientNext]_storeVars, NEW lease, Spared(lease),
           clock' \in Nat, clock <= clock', UNCHANGED publisher,
           QueueKeeps, \A m \in queue' : m \in queue \/ MessageOK(m)',
           \A w \in Worker : Hand(w),
           \A j \in Job : jobs[j].status = "absent" /\ Waiting(j)' /\ NewestPublished(j)'
               => Carried(j)'
    PROVE  DeliveryInv'
<1>1. ExecInv /\ StoreInv /\ TransportOK /\ PassOK /\ DeliveryInv
  BY DEF CarriedInv, SystemInv, ExecInv
<1>2. /\ Forward
      /\ \A j \in Job :
           \/ publications'[j] = publications[j] /\ Same(j)
           \/ NewestPublished(j)' => jobs[j].status = "absent"
  BY <1>1, ClientForward
<1>3. \A j \in Job : Waiting(j)' /\ NewestPublished(j)' =>
         (Same(j) /\ NewestPublished(j)) \/ Carried(j)'
  BY <1>2 DEF NewestPublished, Generations
<1>4. PassCarries'
  BY <1>1, <1>2, PassStays
<1>5. QED
  BY <1>1, <1>2, <1>3, <1>4, DeliveryFrame

(* Steps that leave the store alone.                                       *)
LEMMA QuietDelivers ==
    ASSUME CarriedInv, UNCHANGED storeVars, clock' \in Nat, clock <= clock',
           UNCHANGED publisher,
           QueueKeeps, \A m \in queue' : m \in queue \/ MessageOK(m)',
           \A w \in Worker : Hand(w)
    PROVE  DeliveryInv'
<1>1. Spared(NoLease)
  BY UnchangedSpares DEF CarriedInv, SystemInv
<1>2. \A j \in Job : jobs[j].status = "absent" => ~Waiting(j)'
  BY DEF Waiting, storeVars
<1>3. QED
  BY <1>1, <1>2, ClientDelivers

(* An invocation that takes a step with its message, while the others do   *)
(* not.                                                                    *)
LEMMA OneHand ==
    ASSUME ExecInv, TransportOK, NEW w \in Worker, NEW s, NEW m,
           worker' = worker \/ worker' = [worker EXCEPT ![w] = s],
           inflight' = inflight \/ inflight' = [inflight EXCEPT ![w] = m],
           Hand(w)
    PROVE  \A v \in Worker : Hand(v)
<1>1. ASSUME NEW v \in Worker, v # w
      PROVE  inflight'[v] = inflight[v] /\ worker'[v] = worker[v]
  BY <1>1 DEF ExecInv, TransportOK
<1>2. QED
  BY <1>1 DEF Hand

LEMMA ReceiveDelivers ==
    ASSUME CarriedInv, NEW w \in Worker, Receive(w) PROVE DeliveryInv'
<1>1. /\ UNCHANGED <<storeVars, clock, worker, publisher, queue>>
      /\ ExecInv /\ TransportOK /\ clock \in Nat
  BY DEF Receive, execVars, KeepTransport, CarriedInv, SystemInv, ExecInv
<1>2. PICK m \in queue : Is(w, "idle") /\ inflight' = [inflight EXCEPT ![w] = m]
  BY DEF Receive
<1>3. Hand(w)
  BY <1>1, <1>2 DEF Hand, Is, TransportOK
<1>4. \A v \in Worker : Hand(v)
  BY <1>1, <1>2, <1>3, OneHand
<1>5. QED
  BY <1>1, <1>4, QuietDelivers DEF QueueKeeps

LEMMA ExecuteDelivers ==
    ASSUME CarriedInv, NEW w \in Worker, Execute(w) PROVE DeliveryInv'
<1> DEFINE s == [IdleWorker EXCEPT !.pc = "claim", !.job = JobOf(inflight[w]),
                                   !.now = clock]
<1>1. /\ UNCHANGED <<storeVars, clock, inflight, publisher, queue>>
      /\ ExecInv /\ TransportOK /\ clock \in Nat
      /\ inflight[w] # NoMessage /\ JobOf(inflight[w]) # NoJob
      /\ worker' = [worker EXCEPT ![w] = s]
  BY DEF Execute, Begin, KeepOthers, KeepTransport, CarriedInv, SystemInv, ExecInv
<1>2. s.pc = "claim" /\ s.job = JobOf(inflight[w]) /\ s.now = clock
  BY DEF IdleWorker
<1> HIDE DEF s
<1>3. worker'[w] = s
  BY <1>1 DEF ExecInv
<1>4. Hand(w)
  BY <1>1, <1>2, <1>3 DEF Hand, Is
<1>5. \A v \in Worker : Hand(v)
  BY <1>1, <1>4, OneHand
<1>6. QED
  BY <1>1, <1>5, QuietDelivers DEF QueueKeeps

LEMMA AcknowledgeDelivers ==
    ASSUME CarriedInv, NEW w \in Worker, Acknowledge(w) PROVE DeliveryInv'
<1>1. /\ UNCHANGED <<storeVars, clock, publisher>>
      /\ ExecInv /\ TransportOK /\ clock \in Nat
      /\ Is(w, "ack") /\ queue' \in {queue, queue \ {inflight[w]}}
      /\ inflight' = [inflight EXCEPT ![w] = NoMessage]
      /\ worker' = [worker EXCEPT ![w] = IdleWorker]
  BY DEF Acknowledge, Ack, Return, KeepOthers, CarriedInv, SystemInv, ExecInv
<1>2. worker'[w] = IdleWorker /\ inflight'[w] = NoMessage /\ IdleWorker.pc = "idle"
  BY <1>1 DEF ExecInv, TransportOK, IdleWorker
<1>3. Hand(w)
  BY <1>2 DEF Hand, Is
<1>4. \A v \in Worker : Hand(v)
  BY <1>1, <1>3, OneHand
<1>5. QueueKeeps
  BY <1>1 DEF QueueKeeps
<1>6. QED
  BY <1>1, <1>4, <1>5, QuietDelivers

LEMMA CrashDelivers ==
    ASSUME CarriedInv, NEW w \in Worker, WorkerCrash(w) PROVE DeliveryInv'
<1>1. /\ UNCHANGED <<storeVars, clock, publisher, queue>>
      /\ ExecInv /\ TransportOK /\ clock \in Nat
      /\ inflight' = [inflight EXCEPT ![w] = NoMessage]
      /\ \/ worker' = worker /\ Is(w, "idle")
         \/ worker' = [worker EXCEPT ![w] = IdleWorker]
  BY DEF WorkerCrash, Crash, Return, KeepTransport, CarriedInv, SystemInv, ExecInv
<1>2. Is(w, "idle")' /\ inflight'[w] = NoMessage
  BY <1>1 DEF ExecInv, TransportOK, IdleWorker, Is
<1>3. Hand(w)
  BY <1>2 DEF Hand
<1>4. \A v \in Worker : Hand(v)
  BY <1>1, <1>3, OneHand
<1>5. QED
  BY <1>1, <1>4, QuietDelivers DEF QueueKeeps

(* A trigger fires.                                                        *)
LEMMA FireDelivers ==
    ASSUME CarriedInv, \E k \in DedupeKey : Fire(k)
    PROVE  DeliveryInv'
<1>1. /\ UNCHANGED <<storeVars, clock, worker, inflight, publisher>> /\ clock \in Nat
  BY DEF Fire, execVars, CarriedInv, SystemInv, ExecInv
<1>2. \A w \in Worker : Hand(w)
  BY <1>1 DEF Hand
<1>3. QueueKeeps
  BY DEF Fire, QueueKeeps
<1>4. \A m \in queue' : m \in queue \/ MessageOK(m)'
  <2>1. ASSUME NEW k \in DedupeKey PROVE IsTrigger(Trigger(k))
    BY StoreAssumption DEF IsTrigger, Trigger
  <2>2. ASSUME NEW k \in DedupeKey, Fire(k), NEW m \in queue', m \notin queue
        PROVE  MessageOK(m)'
    <3>1. m = Trigger(k)
      BY <2>2 DEF Fire
    <3>2. QED
      BY <2>1, <3>1 DEF MessageOK, IsTrigger
  <2>3. QED
    BY <2>2
<1>5. QED
  BY <1>1, <1>2, <1>3, <1>4, QuietDelivers

(* run writes at most the record of the job it claimed.                    *)
LEMMA RunStoresNone ==
    ASSUME ExecInv, NEW w \in Worker, Run(w),
           NEW j \in Job, jobs[j].status = "absent"
    PROVE  jobs'[j].status = "absent"
<1> DEFINE i == worker[w].job
<1>1. /\ i \in Job /\ jobs[i].status # "absent" /\ jobs \in [Job -> JobRecord]
      /\ ~Is(w, "idle")
  <2>1. worker[w].pc \notin {"idle", "ack"}
    BY DEF Run, Claim, PreflightFail, Acquire, Busy, StartHandler, FinishHandler,
           Complete, Fail, Release, ReleaseBeforeRetry, Retry, Is
  <2>2. QED
    BY <2>1 DEF ExecInv, WorkerOK, StoreInv, JobsOK, Is
<1>2. jobs' = jobs \/ \E q : jobs' = [jobs EXCEPT ![i] = q]
  <2>1. CASE Claim(w)
    BY <2>1 DEF Claim, claim_execution, storeVars
  <2>2. CASE PreflightFail(w)
    BY <2>2 DEF PreflightFail, fail_permanently, FencedOut, storeVars
  <2>3. CASE Acquire(w)
    BY <2>3 DEF Acquire, acquire, SetLock, storeVars
  <2>4. CASE Busy(w) \/ Retry(w)
    BY <2>4 DEF Busy, Retry, schedule_retry_and_publish, FencedOut, storeVars
  <2>5. CASE StartHandler(w) \/ FinishHandler(w)
    BY <2>5 DEF StartHandler, FinishHandler, storeVars
  <2>6. CASE Complete(w) \/ Fail(w)
    BY <2>6 DEF Complete, complete, Fail, fail_permanently, FencedOut, storeVars
  <2>7. CASE Release(w) \/ ReleaseBeforeRetry(w)
    BY <2>7 DEF Release, ReleaseBeforeRetry, ReleaseLock, release, SetLock, storeVars
  <2>8. QED
    BY <2>1, <2>2, <2>3, <2>4, <2>5, <2>6, <2>7 DEF Run
<1>3. QED
  BY <1>1, <1>2

(* An invocation that can claim the job does not skip it.                  *)
LEMMA RunClaims ==
    ASSUME ExecInv, NEW w \in Worker, Run(w),
           NEW j \in Job, WillClaim(w, j), Waiting(j)
    PROVE  ~Waiting(j)'
<1>1. worker[w].pc = "claim" /\ Claim(w)
  BY DEF WillClaim, Run, Claim, PreflightFail, Acquire, Busy, StartHandler,
         FinishHandler, Complete, Fail, Release, ReleaseBeforeRetry, Retry, Is
<1>2. worker[w].job = j /\ Claimable(j, worker[w].now)
  BY <1>1 DEF WillClaim, Is, Claimable, Waiting
<1>3. claim_execution(j, worker[w].now + ExecutionLease, worker[w].now)
  BY <1>1, <1>2 DEF Claim
<1>4. jobs'[j].status = "running"
  <2>1. /\ jobs \in [Job -> JobRecord]
        /\ jobs' = [jobs EXCEPT ![j] = Claimed(jobs[j], FreshLease,
                                               worker[w].now + ExecutionLease)]
    BY <1>3 DEF claim_execution, ExecInv, StoreInv, JobsOK
  <2>2. QED
    BY <2>1 DEF Claimed, JobRecord
<1>5. QED
  BY <1>4 DEF Waiting

LEMMA RunDelivers ==
    ASSUME CarriedInv, NEW w \in Worker, RunStep(w) PROVE DeliveryInv'
<1>1. /\ ExecInv /\ TransportOK /\ clock \in Nat /\ Run(w)
      /\ UNCHANGED <<publisher, queue>>
      /\ inflight' = IF worker'[w].pc = "idle"
                     THEN [inflight EXCEPT ![w] = NoMessage] ELSE inflight
  BY DEF RunStep, KeepTransport, CarriedInv, SystemInv, ExecInv
<1>2. Served(w) /\ ExecInv'
  BY <1>1, RunKeeps
<1>3. ~Is(w, "idle")
  BY <1>1 DEF Run, Claim, PreflightFail, Acquire, Busy, StartHandler, FinishHandler,
              Complete, Fail, Release, ReleaseBeforeRetry, Retry, Is
<1>4. Hand(w)
  <2>1. CASE worker'[w].pc = "idle"
    BY <1>1, <2>1 DEF Hand, Is, TransportOK
  <2>2. CASE worker'[w].pc # "idle"
    BY <1>1, <1>3, <2>2, RunClaims DEF Hand
  <2>3. QED
    BY <2>1, <2>2
<1>5. \E s : worker' = [worker EXCEPT ![w] = s]
  <2>1. ASSUME Done(w) \/ Return(w) \/ \E pc : Goto(w, pc)
        PROVE  \E s : worker' = [worker EXCEPT ![w] = s]
    BY <2>1 DEF Done, Return, Goto
  <2>2. CASE Claim(w)
    BY <2>1, <2>2 DEF Claim
  <2>3. CASE StartHandler(w) \/ FinishHandler(w)
    BY <2>3 DEF StartHandler, FinishHandler
  <2>4. CASE \/ PreflightFail(w) \/ Acquire(w) \/ Busy(w) \/ Complete(w) \/ Fail(w)
             \/ Release(w) \/ ReleaseBeforeRetry(w) \/ Retry(w)
    <3>1. Done(w) \/ Return(w) \/ \E pc : Goto(w, pc)
      BY <2>4 DEF PreflightFail, Acquire, Busy, Complete, Fail, Release,
                  ReleaseBeforeRetry, Retry, FencedOut
    <3>2. QED
      BY <2>1, <3>1
  <2>5. QED
    BY <1>1, <2>2, <2>3, <2>4 DEF Run
<1>6. PICK s : worker' = [worker EXCEPT ![w] = s]
  BY <1>5
<1>7. \A v \in Worker : Hand(v)
  BY <1>1, <1>4, <1>6, OneHand
<1>8. \A j \in Job : jobs[j].status = "absent" => ~Waiting(j)'
  BY <1>1, RunStoresNone DEF Waiting
<1>9. QED
  BY <1>1, <1>2, <1>7, <1>8, ClientDelivers DEF Served, QueueKeeps

(* A trigger's job is stored as delivered: the trigger is still on the     *)
(* queue, and nobody who received it has begun with it.                    *)
LEMMA IngestDelivers ==
    ASSUME CarriedInv, NEW w \in Worker, Ingest(w) PROVE DeliveryInv'
<1>1. /\ UNCHANGED <<clock, worker, inflight, publisher, queue>>
      /\ ExecInv /\ StoreInv /\ TransportOK /\ DeliveryInv /\ clock \in Nat
      /\ clock \in Instant
  BY ExecutorAssumption DEF Ingest, KeepTransport, CarriedInv, SystemInv, ExecInv
<1> DEFINE m == inflight[w]
<1>2. PICK j \in Scheduled :
         /\ KeyOf[j] = m.key
         /\ ingest_existing_delivery(j, KeyOf[j], FingerprintOf[j], clock)
  BY DEF Ingest
<1>3. /\ j \in Job /\ KeyOf[j] \in DedupeKey \cup {NoKey}
      /\ FingerprintOf[j] \in Fingerprint /\ IsTrigger(m) /\ m.key \in DedupeKey
  BY <1>2, ExecutorAssumption, SystemAssumption
     DEF Ingest, TransportOK, Message, IsTrigger
<1>4. ClientNext
  BY <1>1, <1>2, <1>3 DEF ClientNext, SubmitNext
<1>5. Spared(NoLease)
  BY <1>1, <1>2, <1>3, InsertSpares DEF ingest_existing_delivery
<1>6. /\ fingerprints[m.key] = NoJob /\ jobs[j].status = "absent"
      /\ fingerprints' = [fingerprints EXCEPT ![m.key] = j]
      /\ jobs' = [jobs EXCEPT ![j] = pending_record(KeyOf[j], FingerprintOf[j], clock)]
      /\ publications' = [publications EXCEPT
                             ![j] = insert_publication(j, clock, "published")]
  BY <1>2, <1>3, StoreAssumption DEF ingest_existing_delivery, Insert, Insertable
<1>7. m \in queue /\ \A v \in Worker : inflight[v] = m => Is(v, "idle")
  BY <1>1, <1>3, <1>6 DEF DeliveryInv, HandOK
<1>8. Carried(j)'
  <2>1. jobs'[j].available_at = clock
    BY <1>1, <1>3, <1>6 DEF pending_record, StoreInv, JobsOK
  <2>2. Generations(j)' = 1
    <3>1. Generations(j) = 0
      BY <1>1, <1>3, <1>6 DEF DeliveryInv
    <3>2. publications'[j] = insert_publication(j, clock, "published")
      BY <1>1, <1>3, <1>6 DEF StoreInv, PublicationsOK
    <3>3. /\ Len(publications[j]) \in Nat
          /\ Len(insert_publication(j, clock, "published")) = Len(publications[j]) + 1
      BY <1>1, <1>3, Inserted
    <3>4. QED
      BY <3>1, <3>2, <3>3 DEF Generations
  <2>3. fingerprints'[m.key] = j
    BY <1>1, <1>3, <1>6 DEF StoreInv, KeysOK
  <2>4. m \in queue' /\ m = inflight'[w]
    BY <1>1, <1>7
  <2>5. \A v \in Worker : inflight'[v] = m => Is(v, "idle")'
    BY <1>1, <1>7 DEF Is
  <2>6. jobs'[j].available_at <= clock'
    BY <1>1, <2>1
  <2> HIDE DEF m
  <2>7. PICK n : n = m
    OBVIOUS
  <2>8. Names(n, j)'
    BY <1>3, <2>2, <2>3, <2>7 DEF Names, IsTrigger
  <2>9. Carries(n, j)'
    BY <2>5, <2>7, <2>8 DEF Carries, WillClaim
  <2>10. QED
    BY <2>4, <2>6, <2>7, <2>9 DEF Carried
<1>9. \A i \in Job : jobs[i].status = "absent" /\ Waiting(i)' => i = j
  BY <1>1, <1>3, <1>6 DEF Waiting, StoreInv, JobsOK
<1>10. \A v \in Worker : Hand(v)
  BY <1>1 DEF Hand
<1>11. QED
  BY <1>1, <1>4, <1>5, <1>8, <1>9, <1>10, ClientDelivers DEF QueueKeeps

LEMMA OperateStoresNone ==
    ASSUME ExecInv, Operate, NEW j \in Job, jobs[j].status = "absent"
    PROVE  jobs'[j].status = "absent"
<1>1. jobs \in [Job -> JobRecord]
  BY DEF ExecInv, StoreInv, JobsOK
<1>2. ASSUME NEW i \in Job, cancel(i, jobs[i].revision) \/
                             retry_failed(i, jobs[i].revision, clock)
      PROVE  jobs'[j] = jobs[j]
  <2>1. i # j /\ \E q : jobs' = [jobs EXCEPT ![i] = q]
    BY <1>2 DEF cancel, retry_failed
  <2>2. QED
    BY <1>1, <2>1
<1>3. CASE recover_expired_leases(clock)
  <2>1. j \notin ExpiredLeases(clock)
    BY DEF ExpiredLeases, LeaseExpired
  <2>2. jobs'[j] = jobs[j]
    BY <1>3, <2>1 DEF recover_expired_leases, RecoverLeases
  <2>3. QED
    BY <2>2
<1>4. QED
  BY <1>2, <1>3 DEF Operate

LEMMA EnvironmentDelivers ==
    ASSUME CarriedInv, KeepSystem, (\E j \in Job : Submit(j)) \/ Operate \/ Tick
    PROVE  DeliveryInv'
<1>1. /\ UNCHANGED <<worker, inflight, publisher, queue>>
      /\ ExecInv /\ StoreInv /\ clock \in Nat /\ clock' \in Nat /\ clock <= clock'
  BY DEF KeepSystem, Submit, Operate, Tick, CarriedInv, SystemInv, ExecInv
<1>2. \A w \in Worker : Hand(w)
  BY <1>1 DEF Hand
<1>3. CASE Tick
  BY <1>1, <1>2, <1>3, QuietDelivers DEF Tick, QueueKeeps
<1>4. CASE Operate
  <2>1. [ClientNext]_storeVars /\ Spared(NoLease)
    BY <1>1, <1>4, OperateStep, OperateSpares
  <2>2. \A j \in Job : jobs[j].status = "absent" => ~Waiting(j)'
    BY <1>1, <1>4, OperateStoresNone DEF Waiting
  <2>3. QED
    BY <1>1, <1>2, <2>1, <2>2, ClientDelivers DEF QueueKeeps
<1>5. ASSUME NEW i \in Job, Submit(i) PROVE DeliveryInv'
  <2>1. /\ [ClientNext]_storeVars /\ clock \in Nat
        /\ Insert(i, KeyOf[i], FingerprintOf[i], clock, "pending")
    BY <1>1, <1>5, SubmitStep DEF Submit, enqueue_with_intent
  <2>2. Spared(NoLease)
    BY <1>1, <2>1, InsertSpares
  <2>3. ASSUME NEW j \in Job, jobs[j].status = "absent", Waiting(j)'
        PROVE  ~NewestPublished(j)'
    <3>1. i = j
      BY <1>1, <2>1, <2>3 DEF Insert, Waiting, StoreInv, JobsOK
    <3>2. publications'[j] = insert_publication(j, clock, "pending")
      BY <1>1, <2>1, <3>1 DEF Insert, StoreInv, PublicationsOK
    <3> DEFINE ps == insert_publication(j, clock, "pending")
    <3>3. ps[Len(ps)].status = "pending"
      BY <1>1, Inserted
    <3>4. QED
      BY <3>2, <3>3 DEF NewestPublished, Generations
  <2>4. QED
    BY <1>1, <1>2, <2>1, <2>2, <2>3, ClientDelivers DEF QueueKeeps
<1>6. QED
  BY <1>3, <1>4, <1>5

-----------------------------------------------------------------------------
(* The steps of the pass.                                                  *)

LEMMA PassIsPublication ==
    ASSUME PublisherOK,
           PassStart \/ PassClaim \/ PassRead \/ PassSend \/ PassMark \/ PassCrash
    PROVE  [PublicationNext]_storeVars /\ UNCHANGED <<clock, worker, inflight>>
<1>0. UNCHANGED <<clock, worker, inflight>>
  BY DEF PassStart, PassClaim, PassRead, PassSend, PassMark, PassCrash, KeepWorkers
<1> SUFFICES [PublicationNext]_storeVars
  BY <1>0
<1>1. /\ StoreInv /\ PassOK /\ clock \in Instant
      /\ publisher.now + PublicationLease \in Instant
      /\ publisher.now + PublicationRetryDelay \in Instant
      /\ publisher.now \in Instant
  BY PassReadings DEF PublisherOK, ExecInv
<1>2. CASE PassStart
  BY <1>1, <1>2 DEF PassStart, recover_expired_claims, PublicationNext
<1>3. CASE PassClaim
  <2>1. DispatchLimit \in 1..DispatchLimit
    BY StoreAssumption
  <2>2. QED
    BY <1>1, <1>3, <2>1 DEF PassClaim, PublicationNext
<1>4. CASE PassRead \/ PassSend \/ PassCrash
  BY <1>4 DEF PassRead, PassSend, PassCrash
<1>5. CASE PassMark
  <2>1. /\ publisher.id[1] \in Job
        /\ publisher.id[2] \in 1..Len(publications[publisher.id[1]])
        /\ publisher.lease \in 1..minted
    BY <1>1, <1>5, PublicationsAreNumbered DEF PassMark, PassOK, Claiming, AtHand
  <2>2. QED
    BY <1>1, <1>5, <2>1 DEF PassMark, PublicationNext
<1>6. QED
  BY <1>2, <1>3, <1>4, <1>5

(* They rewrite generations where they are.                                *)
LEMMA PassForward ==
    ASSUME StoreInv, [PublicationNext]_storeVars, clock \in Nat, UNCHANGED clock
    PROVE  /\ Forward /\ \A j \in Job : Same(j)
           /\ UNCHANGED <<jobs, fingerprints>>
<1>1. /\ \A j \in Job : Generations(j) \in Nat
      /\ \A j \in Job : jobs[j].available_at \in Nat
      /\ UNCHANGED <<jobs, fingerprints>>
  BY DEF StoreInv, PublicationsOK, JobsOK, JobRecord, Generations, PublicationNext,
         claim_due, mark_published, mark_failed, RecoverClaims, storeVars
<1>2. \A j \in Job : Generations(j)' = Generations(j)
  BY GenerationsKept DEF Generations, storeVars
<1>3. \A j \in Job : Same(j)
  BY <1>1, <1>2 DEF Same, Waiting
<1>4. QED
  BY <1>1, <1>2, <1>3 DEF Forward

LEMMA PassDelivers ==
    ASSUME CarriedInv, [PublicationNext]_storeVars,
           UNCHANGED <<clock, worker, inflight>>,
           QueueKeeps, \A m \in queue' : m \in queue \/ MessageOK(m)',
           PassCarries',
           \A j \in Job : Waiting(j)' /\ NewestPublished(j)' =>
               NewestPublished(j) \/ Carried(j)'
    PROVE  DeliveryInv'
<1>1. ExecInv /\ TransportOK /\ StoreInv /\ DeliveryInv /\ clock \in Nat
  BY DEF CarriedInv, SystemInv, ExecInv
<1>2. Forward /\ \A j \in Job : Same(j)
  BY <1>1, PassForward
<1>3. \A w \in Worker : Hand(w)
  BY DEF Hand
<1>4. QED
  BY <1>1, <1>2, <1>3, DeliveryFrame

(* A pending job has a newest generation.                                  *)
LEMMA WaitingHasNewest ==
    ASSUME StoreInv, IntentsOK, NEW j \in Job, Waiting(j)
    PROVE  /\ Generations(j) \in 1..Generations(j)
           /\ <<j, Generations(j)>> \in PublicationId
           /\ publications[j][Generations(j)].available_at >= jobs[j].available_at
<1>1. Generations(j) \in Nat /\ Generations(j) # 0
  BY DEF StoreInv, PublicationsOK, IntentsOK, NotEarly, Waiting, Generations
<1>2. Generations(j) \in 1..Generations(j)
  BY <1>1
<1>3. QED
  BY <1>2 DEF IntentsOK, NotEarly, Waiting, Generations, PublicationId

(* The pass publishes nothing in this step: a generation is published      *)
(* after it only if it was before.                                         *)
LEMMA PublishesNone ==
    ASSUME StoreInv, IntentsOK, [PublicationNext]_storeVars, clock \in Nat,
           UNCHANGED clock,
           \A j \in Job : \A g \in 1..Generations(j) :
               publications'[j][g].status = "published" =>
                   publications[j][g].status = "published"
    PROVE  \A j \in Job : Waiting(j)' /\ NewestPublished(j)' => NewestPublished(j)
<1>1. Forward /\ \A j \in Job : Same(j)
  BY PassForward
<1>2. \A j \in Job : Waiting(j) => Generations(j) \in 1..Generations(j)
  BY WaitingHasNewest
<1>3. QED
  BY <1>1, <1>2 DEF NewestPublished, Same

LEMMA PassStartDelivers ==
    ASSUME CarriedInv, PassStart PROVE DeliveryInv'
<1>1. /\ PublisherOK /\ StoreInv /\ IntentsOK /\ clock \in Nat /\ queue' = queue
      /\ publisher.pc = "idle" /\ publisher \in Pass
      /\ publisher' = [publisher EXCEPT !.pc = "claim", !.now = clock]
  BY DEF CarriedInv, SystemInv, PublisherOK, ExecInv, PassStart, PassOK
<1>2. [PublicationNext]_storeVars /\ UNCHANGED <<clock, worker, inflight>>
  BY <1>1, PassIsPublication
<1>3. publisher'.pc = "claim"
  BY <1>1 DEF Pass
<1>4. PassCarries'
  BY <1>3 DEF PassCarries, Claiming, AtHand
<1>5. \A j \in Job : \A g \in 1..Generations(j) :
         publications'[j][g].status = "published" =>
             publications[j][g].status = "published"
  <2>1. CASE UNCHANGED storeVars
    BY <2>1 DEF storeVars
  <2>2. CASE recover_expired_claims(clock)
    <3>1. \A j \in Job : \A g \in 1..Generations(j) :
             \/ publications'[j][g] = publications[j][g]
             \/ publications'[j][g] = PublicationUnder(publications[j][g], "pending",
                                                       NoLease, 0)
      BY <2>2 DEF recover_expired_claims, RecoverClaims, Generations
    <3>2. \A j \in Job : \A g \in 1..Generations(j) :
             publications[j][g] \in JobPublication
      BY <1>1 DEF StoreInv, PublicationsOK, Generations
    <3>3. \A q \in JobPublication :
             PublicationUnder(q, "pending", NoLease, 0).status = "pending"
      BY DEF PublicationUnder, JobPublication
    <3>4. QED
      BY <3>1, <3>2, <3>3
  <2>3. QED
    BY <2>1, <2>2 DEF PassStart
<1>6. QED
  BY <1>1, <1>2, <1>4, <1>5, PublishesNone, PassDelivers DEF QueueKeeps

(* What the pass claims was due, and its jobs are available by then.       *)
LEMMA PassClaimDelivers ==
    ASSUME CarriedInv, PassClaim, PublisherOK' PROVE DeliveryInv'
<1>0. StoreInv /\ publisher \in Pass /\ queue' = queue
  BY DEF CarriedInv, SystemInv, ExecInv, PassClaim, PassOK
<1>1. /\ PublisherOK /\ StoreInv /\ IntentsOK /\ clock \in Nat /\ queue' = queue
      /\ publisher \in Pass /\ minted \in Nat
  BY <1>0 DEF CarriedInv, SystemInv, PublisherOK, ExecInv, StoreInv, JobsOK
<1>2. [PublicationNext]_storeVars /\ UNCHANGED <<clock, worker, inflight>>
  BY <1>1, PassIsPublication
<1>3. UNCHANGED jobs /\ \A j \in Job : Same(j)
  BY <1>1, <1>2, PassForward
<1>4. CASE UNCHANGED storeVars /\ publisher' = IdlePublisher
  <2>1. PassCarries'
    BY <1>4 DEF PassCarries, Claiming, AtHand, IdlePublisher
  <2>2. \A j \in Job : \A g \in 1..Generations(j) :
           publications'[j][g] = publications[j][g]
    BY <1>4 DEF storeVars
  <2>3. QED
    BY <1>1, <1>2, <2>1, <2>2, PublishesNone, PassDelivers DEF QueueKeeps
<1>5. ASSUME NEW batch \in SUBSET PublicationId,
             claim_due(batch, DispatchLimit, publisher.now + PublicationLease,
                       publisher.now),
             publisher' = [publisher EXCEPT !.pc = "next", !.batch = batch,
                                            !.lease = FreshLease]
      PROVE  DeliveryInv'
  <2> DEFINE new(j, g) == PublicationUnder(publications[j][g], "claimed", FreshLease,
                                           publisher.now + PublicationLease)
  <2>1. /\ publisher'.pc = "next" /\ publisher'.batch = batch
        /\ publisher'.lease = FreshLease /\ FreshLease \in Nat
    BY <1>1, <1>5 DEF Pass, FreshLease
  <2>2. \A j \in Job : \A g \in 1..Generations(j) :
           /\ publications[j][g] \in JobPublication
           /\ publications'[j][g] = IF <<j, g>> \in batch THEN new(j, g)
                                    ELSE publications[j][g]
    BY <1>1, <1>5 DEF claim_due, Generations, StoreInv, PublicationsOK
  <2>3. \A j \in Job : \A g \in 1..Generations(j) :
           new(j, g).status = "claimed" /\ new(j, g).lease_id = FreshLease
    BY <2>2 DEF PublicationUnder, JobPublication
  <2>4. \A j \in Job : \A g \in 1..Generations(j) :
           publications'[j][g].status = "published" =>
               publications[j][g].status = "published"
    <3> HIDE DEF new
    <3>1. QED
      BY <2>2, <2>3
  <2>5. ASSUME NEW id \in batch PROVE ClaimedId(id)'
    <3>1. /\ id[1] \in Job /\ id[2] \in 1..Generations(id[1]) /\ id = <<id[1], id[2]>>
      BY <1>1, <1>5, PublicationsAreNumbered DEF Generations, PublicationId
    <3> PICK j \in Job : \E g \in 1..Generations(j) : id = <<j, g>>
      BY <3>1
    <3> PICK g \in 1..Generations(j) : id = <<j, g>>
      OBVIOUS
    <3> DEFINE p == publications'[j][g]
    <3>2. p.lease_id = FreshLease
      <4> HIDE DEF new
      <4>1. QED
        BY <2>2, <2>3
    <3>3. Generations(j)' = Generations(j)
      BY <1>3 DEF Same
    <3>4. p.available_at <= publisher'.now
      <4>1. Dated(p, minted', publisher')
        BY <3>3 DEF PublisherOK, ClaimsDated, Generations
      <4>2. QED
        BY <2>1, <3>2, <4>1 DEF Dated, Claiming
    <3>5. ASSUME g = Generations(j)', Waiting(j)'
          PROVE  jobs'[j].available_at <= publisher'.now
      <4>1. p.available_at >= jobs'[j].available_at
        BY <3>5 DEF PublisherOK, IntentsOK, NotEarly, Generations, Waiting
      <4>2. p.available_at \in Nat
        <5>1. publications' \in [Job -> Seq(JobPublication)]
          BY DEF PublisherOK, ExecInv, StoreInv, PublicationsOK
        <5>2. p \in JobPublication
          BY <3>3, <5>1 DEF Generations
        <5>3. QED
          BY <5>2 DEF JobPublication
      <4>3. jobs'[j].available_at \in Nat /\ publisher'.now \in Nat
        BY DEF PublisherOK, ExecInv, StoreInv, JobsOK, JobRecord, PassOK, Pass
      <4> HIDE DEF p
      <4>4. QED
        BY <3>4, <4>1, <4>2, <4>3
    <3>6. QED
      BY <3>5 DEF ClaimedId, NewestId
  <2>6. PassCarries'
    BY <2>1, <2>5 DEF PassCarries, AtHand
  <2>7. QED
    BY <1>1, <1>2, <2>4, <2>6, PublishesNone, PassDelivers DEF QueueKeeps
<1>6. QED
  BY <1>4, <1>5 DEF PassClaim

(* The attempt is read from the record, which a job that waits for this    *)
(* generation still has when the message is sent.                          *)
LEMMA PassReadDelivers ==
    ASSUME CarriedInv, PassRead, PendingWithinLimit PROVE DeliveryInv'
<1>1. /\ PublisherOK /\ StoreInv /\ IntentsOK /\ clock \in Nat /\ queue' = queue
      /\ publisher \in Pass /\ UNCHANGED storeVars /\ publisher.pc = "next"
      /\ PassCarries
  BY DEF CarriedInv, SystemInv, PublisherOK, ExecInv, PassRead, PassOK, DeliveryInv
<1>2. UNCHANGED <<clock, worker, inflight>>
  BY <1>1, PassIsPublication
<1>3. PICK id \in publisher.batch :
         publisher' = [publisher EXCEPT
            !.id = id, !.batch = @ \ {id},
            !.pc = IF jobs[id[1]].status \in TerminalStatus THEN "mark" ELSE "send",
            !.attempt = IF jobs[id[1]].attempt_count = 0 THEN 1
                        ELSE jobs[id[1]].attempt_count]
  BY DEF PassRead
<1>4. id[1] \in Job /\ id \in PublicationId
  BY <1>1, <1>3, PublicationsAreNumbered DEF Pass
<1>5. /\ publisher'.id = id /\ publisher'.batch = publisher.batch \ {id}
      /\ publisher'.now = publisher.now
      /\ publisher'.pc = IF jobs[id[1]].status \in TerminalStatus THEN "mark" ELSE "send"
      /\ publisher'.attempt = IF jobs[id[1]].attempt_count = 0 THEN 1
                              ELSE jobs[id[1]].attempt_count
  BY <1>1, <1>3 DEF Pass
<1>6. UNCHANGED <<jobs, publications>>
  BY <1>1 DEF storeVars
<1>7. \A i \in publisher.batch : ClaimedId(i)'
  BY <1>1, <1>5, <1>6 DEF PassCarries, Claiming, ClaimedId, NewestId, Generations, Waiting
<1>8. ASSUME NewestId(id)'
      PROVE  /\ publisher'.pc = "send"
             /\ publisher'.attempt \in 1..MaximumAttempts[jobs'[id[1]].fingerprint]
  <2>1. jobs[id[1]].status = "pending"
    BY <1>6, <1>8 DEF NewestId, Waiting
  <2>2. /\ jobs[id[1]].attempt_count <= MaximumAttempts[jobs[id[1]].fingerprint]
        /\ jobs[id[1]].attempt_count \in Nat
        /\ MaximumAttempts[jobs[id[1]].fingerprint] \in Nat \ {0}
    BY <1>1, <1>4, <2>1, ExecutorAssumption
       DEF PendingWithinLimit, Waiting, StoreInv, JobsOK, JobRecord
  <2>3. QED
    BY <1>5, <1>6, <2>1, <2>2 DEF TerminalStatus
<1>9. PassCarries'
  <2>1. ClaimedId(publisher.id)' /\ \A i \in publisher'.batch : ClaimedId(i)'
    BY <1>3, <1>5, <1>7 DEF ClaimedId, NewestId, Generations, Waiting
  <2>2. NewestId(publisher.id)' => NewestId(id)'
    BY <1>5 DEF NewestId, Generations, Waiting
  <2>3. publisher'.pc = "mark" => ~NewestId(publisher.id)'
    BY <1>8, <2>2
  <2>4. NewestId(publisher.id)' =>
           publisher'.attempt \in 1..MaximumAttempts[jobs'[publisher'.id[1]].fingerprint]
    BY <1>5, <1>8, <2>2
  <2>5. QED
    BY <2>1, <2>3, <2>4 DEF PassCarries
<1>10. \A j \in Job : Waiting(j)' /\ NewestPublished(j)' => NewestPublished(j)
  BY <1>6 DEF NewestPublished, Generations
<1>11. QED
  BY <1>1, <1>2, <1>9, <1>10, PassDelivers DEF QueueKeeps

(* A message the pass sends is the delivery of a generation that is there. *)
LEMMA PassSendDelivers ==
    ASSUME CarriedInv, PassSend PROVE DeliveryInv'
<1>1. /\ PublisherOK /\ StoreInv /\ clock \in Nat
      /\ publisher \in Pass /\ publisher.pc = "send" /\ publisher.now <= clock
      /\ UNCHANGED storeVars /\ PassCarries /\ publisher.id \in PublicationId
      /\ publisher.now \in Nat
  BY DEF CarriedInv, SystemInv, PublisherOK, ExecInv, PassSend, PassOK, DeliveryInv,
         AtHand, Pass
<1>2. UNCHANGED <<clock, worker, inflight>>
  BY <1>1, PassIsPublication
<1> DEFINE m == Delivery(publisher.id[1], publisher.id[2], publisher.attempt)
<1>3. /\ queue' \in {queue, queue \cup {m}}
      /\ \/ publisher' = [publisher EXCEPT !.pc = "mark"] /\ m \in queue'
         \/ publisher' = [publisher EXCEPT !.pc = "fail"]
  BY DEF PassSend
<1>4. PICK id \in PublicationId : id = publisher.id
  BY <1>1
<1>5. id[1] \in Job /\ id[2] \in 1..Generations(id[1])
  BY <1>1, PublicationsAreNumbered DEF Generations
<1>6. PICK n : n = m
  OBVIOUS
<1>7. /\ ~IsTrigger(n) /\ n.job = id[1] /\ n.generation = id[2]
      /\ n.attempt = publisher.attempt
  BY <1>4, <1>6 DEF Delivery, IsTrigger
<1> HIDE DEF m
<1>8. UNCHANGED <<jobs, publications, fingerprints>>
  BY <1>1 DEF storeVars
<1>9. ASSUME NewestId(id)
      PROVE  /\ jobs[id[1]].available_at <= clock /\ Waiting(id[1])
             /\ publisher.attempt \in 1..MaximumAttempts[jobs[id[1]].fingerprint]
  <2>1. /\ jobs[id[1]].available_at <= publisher.now /\ Waiting(id[1])
        /\ publisher.attempt \in 1..MaximumAttempts[jobs[id[1]].fingerprint]
    BY <1>1, <1>4, <1>9 DEF PassCarries, AtHand, ClaimedId, NewestId
  <2>2. jobs[id[1]].available_at \in Nat
    BY <1>1, <1>5 DEF StoreInv, JobsOK, JobRecord
  <2>3. QED
    BY <1>1, <2>1, <2>2
<1>10. MessageOK(n)'
  BY <1>2, <1>5, <1>7, <1>8, <1>9
     DEF MessageOK, Sent, Accepted, NewestId, Generations, Waiting
<1>11. \A i \in queue' : i \in queue \/ MessageOK(i)'
  BY <1>3, <1>6, <1>10
<1>12. ASSUME NewestId(id), n \in queue' PROVE Carried(id[1])'
  <2>1. Newest(n, id[1])
    BY <1>7, <1>9, <1>12 DEF Newest, NewestId
  <2>2. \A w \in Worker : inflight[w] = n => WillClaim(w, id[1])
    BY <1>5, <1>9, <1>12, <2>1 DEF CarriedInv, DeliveryInv, HandOK
  <2>3. Names(n, id[1])'
    BY <1>8, <2>1 DEF Names, Newest, Generations, IsTrigger
  <2>4. Carries(n, id[1])'
    BY <1>2, <1>8, <2>2, <2>3 DEF Carries, WillClaim, Is
  <2>5. QED
    BY <1>2, <1>8, <1>9, <1>12, <2>4 DEF Carried
<1>13. /\ publisher'.pc \in {"mark", "fail"} /\ publisher'.batch = publisher.batch
       /\ publisher'.id = id /\ publisher'.now = publisher.now
       /\ publisher'.pc = "mark" => n \in queue'
  BY <1>1, <1>3, <1>4, <1>6 DEF Pass
<1>14. PassCarries'
  <2>1. \A i \in publisher.batch \cup {id} : ClaimedId(i)'
    BY <1>1, <1>4, <1>8, <1>13
       DEF PassCarries, Claiming, AtHand, ClaimedId, NewestId, Generations, Waiting
  <2>2. ClaimedId(publisher.id)' /\ \A i \in publisher'.batch : ClaimedId(i)'
    BY <1>13, <2>1 DEF ClaimedId, NewestId, Generations, Waiting
  <2>3. NewestId(publisher.id)' => NewestId(id)
    BY <1>8, <1>13 DEF NewestId, Generations, Waiting
  <2>4. publisher'.pc = "mark" /\ NewestId(publisher.id)' => Carried(publisher.id[1])'
    <3>1. publisher'.pc = "mark" /\ NewestId(publisher.id)' => Carried(id[1])'
      BY <1>12, <1>13, <2>3
    <3>2. QED
      BY <1>13, <3>1 DEF Carried, Carries, Names, Newest, WillClaim, Generations
  <2>5. publisher'.pc # "send"
    BY <1>13
  <2>6. QED
    BY <2>2, <2>4, <2>5 DEF PassCarries
<1>15. \A j \in Job : Waiting(j)' /\ NewestPublished(j)' => NewestPublished(j)
  BY <1>8 DEF NewestPublished, Generations
<1>16. QED
  BY <1>1, <1>2, <1>3, <1>11, <1>14, <1>15, PassDelivers DEF QueueKeeps

(* A generation is published with its message on the queue, unless the job *)
(* does not wait for it any more.                                          *)
LEMMA PassMarkDelivers ==
    ASSUME CarriedInv, PassMark \/ PassCrash PROVE DeliveryInv'
<1>1. /\ PublisherOK /\ StoreInv /\ IntentsOK /\ clock \in Nat /\ queue' = queue
      /\ publisher \in Pass /\ PassCarries /\ TransportOK /\ ExecInv /\ DeliveryInv
  BY DEF CarriedInv, SystemInv, PublisherOK, ExecInv, PassMark, PassCrash, PassOK,
         DeliveryInv
<1>2. [PublicationNext]_storeVars /\ UNCHANGED <<clock, worker, inflight>>
  BY <1>1, PassIsPublication
<1>3. Forward /\ (\A j \in Job : Same(j)) /\ UNCHANGED <<jobs, fingerprints>>
  BY <1>1, <1>2, PassForward
<1>4. \/ publisher' = IdlePublisher
      \/ publisher' = [publisher EXCEPT !.pc = "next"] /\ publisher.pc \in Claiming
  BY DEF PassMark, PassCrash, Claiming
<1>5. PassCarries'
  <2>1. CASE publisher' = IdlePublisher
    BY <2>1 DEF PassCarries, Claiming, AtHand, IdlePublisher
  <2>2. CASE publisher' = [publisher EXCEPT !.pc = "next"] /\ publisher.pc \in Claiming
    <3>1. /\ publisher'.pc = "next" /\ publisher'.batch = publisher.batch
          /\ publisher'.now = publisher.now
      BY <1>1, <2>2 DEF Pass
    <3>2. \A id \in publisher.batch : ClaimedId(id)'
      BY <1>1, <1>3, <2>2, <3>1, ClaimedIdStays DEF PassCarries, Pass
    <3>3. QED
      BY <3>1, <3>2 DEF PassCarries, AtHand
  <2>3. QED
    BY <1>4, <2>1, <2>2
<1>6. ASSUME NEW j \in Job, Waiting(j)', NewestPublished(j)'
      PROVE  NewestPublished(j) \/ Carried(j)'
  <2> DEFINE g == Generations(j)
             i == publisher.id[1]
             h == publisher.id[2]
  <2>1. Waiting(j) /\ g \in 1..g /\ Generations(j)' = g
    BY <1>1, <1>3, <1>6, WaitingHasNewest DEF Same
  <2>2. CASE publications'[j][g] = publications[j][g]
    BY <1>6, <2>1, <2>2 DEF NewestPublished
  <2>3. CASE /\ publisher.pc = "mark" /\ i = j /\ h = g
    <3>1. NewestId(publisher.id) /\ Carried(j)
      BY <1>1, <2>1, <2>3 DEF PassCarries, NewestId
    <3>2. \A w \in Worker : Hand(w)
      BY <1>2 DEF Hand
    <3>3. QED
      BY <1>1, <1>3, <1>6, <3>1, <3>2, CarriedStays DEF QueueKeeps
  <2>4. CASE publications'[j][g].status = "failed"
    BY <1>6, <2>1, <2>4 DEF NewestPublished
  <2>5. \/ publications'[j][g] = publications[j][g]
        \/ publisher.pc = "mark" /\ i = j /\ h = g
        \/ publications'[j][g].status = "failed"
    <3>1. CASE UNCHANGED storeVars
      BY <3>1 DEF storeVars
    <3>2. ASSUME NEW status, NEW at, ReleasePublication(i, h, status, at),
                 publisher.pc = "mark" \/ status = "failed"
          PROVE  \/ publications'[j][g] = publications[j][g]
                 \/ publisher.pc = "mark" /\ i = j /\ h = g
                 \/ publications'[j][g].status = "failed"
      <4>1. publications \in [Job -> Seq(JobPublication)]
        BY <1>1 DEF StoreInv, PublicationsOK
      <4>2. publications[j] \in Seq(JobPublication)
        BY <4>1
      <4>3. g \in DOMAIN publications[j]
        BY <2>1, <4>2 DEF Generations
      <4> HIDE DEF g, i, h
      <4>4. QED
        BY <3>2, <4>1, <4>2, <4>3 DEF ReleasePublication
    <3>3. QED
      BY <3>1, <3>2 DEF PassMark, PassCrash, mark_published, mark_failed
  <2>6. QED
    BY <2>2, <2>3, <2>4, <2>5
<1>7. QED
  BY <1>1, <1>2, <1>5, <1>6, PassDelivers DEF QueueKeeps

(* The invariant holds at first, every step keeps it, and it says that a   *)
(* pending job is unpublished or on its way.                               *)
LEMMA DeliveryInitInv == Init => DeliveryInv
<1> SUFFICES ASSUME Init PROVE DeliveryInv
  OBVIOUS
<1>1. /\ \A j \in Job : jobs[j].status = "absent" /\ publications[j] = <<>>
      /\ queue = {} /\ publisher = IdlePublisher
      /\ \A w \in Worker : inflight[w] = NoMessage /\ worker[w].pc = "idle"
  BY DEF Init, ExecInit, StoreInit, AbsentRecord, pending_record, IdleWorker
<1>2. \A w \in Worker : HandOK(w)
  BY <1>1 DEF HandOK, Is, NoMessage, Trigger, IsTrigger, Newest, WillClaim, Waiting
<1>3. PassCarries
  BY <1>1 DEF PassCarries, IdlePublisher, Claiming, AtHand
<1>4. QED
  BY <1>1, <1>2, <1>3 DEF DeliveryInv, Waiting, Generations

LEMMA DeliveryStep ==
    ASSUME CarriedInv, PendingWithinLimit, [Next]_vars PROVE CarriedInv'
<1>1. SystemInv' /\ PublisherOK'
  BY SystemStep DEF CarriedInv, SystemInv, PublisherOK
<1> SUFFICES DeliveryInv'
  BY <1>1 DEF CarriedInv
<1>2. ASSUME NEW w \in Worker,
             \/ Receive(w) \/ Ingest(w) \/ Execute(w) \/ RunStep(w)
             \/ Acknowledge(w) \/ WorkerCrash(w)
      PROVE  DeliveryInv'
  BY <1>2, ReceiveDelivers, IngestDelivers, ExecuteDelivers, RunDelivers,
     AcknowledgeDelivers, CrashDelivers
<1>3. CASE PassStart \/ PassClaim \/ PassRead \/ PassSend \/ PassMark \/ PassCrash
  BY <1>1, <1>3, PassStartDelivers, PassClaimDelivers, PassReadDelivers,
     PassSendDelivers, PassMarkDelivers
<1>4. CASE \E k \in DedupeKey : Fire(k)
  BY <1>4, FireDelivers
<1>5. CASE ((\E j \in Job : Submit(j)) \/ Operate \/ Tick) /\ KeepSystem
  BY <1>5, EnvironmentDelivers
<1>6. CASE UNCHANGED vars
  <2>1. UNCHANGED <<storeVars, clock, worker, inflight, queue, publisher>>
    BY <1>6 DEF vars, execVars
  <2>2. clock \in Nat
    BY DEF CarriedInv, SystemInv, ExecInv
  <2>3. (\A w \in Worker : Hand(w)) /\ QueueKeeps
    BY <2>1 DEF Hand, QueueKeeps
  <2>4. QED
    BY <2>1, <2>2, <2>3, QuietDelivers
<1>7. QED
  BY <1>2, <1>3, <1>4, <1>5, <1>6 DEF Next

LEMMA DeliveryInvPending == CarriedInv => PendingHasDelivery
<1> SUFFICES ASSUME CarriedInv, NEW j \in Job, Waiting(j)
             PROVE  \/ Undelivered(j)
                    \/ jobs[j].available_at <= clock /\ OnTransport(j)
  BY DEF PendingHasDelivery, Waiting
<1>1. StoreInv /\ IntentsOK /\ DeliveryInv
  BY DEF CarriedInv, SystemInv, ExecInv
<1>2. Generations(j) \in 1..Len(publications[j])
  BY <1>1, WaitingHasNewest DEF Generations
<1>3. CASE NewestPublished(j)
  <2>1. PICK m \in queue : Names(m, j) /\ jobs[j].available_at <= clock
    BY <1>1, <1>3 DEF DeliveryInv, Carried, Carries
  <2>2. JobOf(m) = j /\ MessageOK(m)
    BY <1>1, <2>1, NamesIsJobOf DEF DeliveryInv
  <2>3. Decodable(m)
    BY <2>1, <2>2 DEF Decodable, Names, Newest, MessageOK, Sent, Accepted
  <2>4. QED
    BY <2>1, <2>2, <2>3 DEF OnTransport
<1>4. CASE ~NewestPublished(j)
  BY <1>2, <1>4 DEF NewestPublished, Undelivered
<1>5. QED
  BY <1>3, <1>4

(* An accepted job is not lost while it waits, whatever was reordered,     *)
(* sent twice, marked failed, skipped as terminal or lost with a crash, as *)
(* long as no job is pending with more attempts than its policy allows:    *)
(* the delivery of such a job is one the decoder refuses.                  *)
THEOREM PendingJobsAreDelivered ==
    Spec /\ []PendingWithinLimit => []PendingHasDelivery
<1>1. Init => CarriedInv
  BY SystemInitInv, DeliveryInitInv DEF CarriedInv
<1>2. CarriedInv /\ PendingWithinLimit /\ [Next]_vars => CarriedInv'
  BY DeliveryStep
<1>3. QED
  BY <1>1, <1>2, DeliveryInvPending, PTL DEF Spec

-----------------------------------------------------------------------------
(* When no job is pending beyond its limit.                                *)

(* Jobs come without an overlap key, and no operator recovers leases (the  *)
(* repository has no caller of recover_expired_leases): only a retry that  *)
(* the policy allows brings a job that ran back to pending.                *)
OnlyRetriesReopen ==
    /\ \A f \in Fingerprint : OverlapKeyOf[f] = NoOverlapKey
    /\ "recover_expired_leases" \notin Operators

(* The attempt an invocation counts is the record's while it holds the     *)
(* lease, and a retry it is about to store is one the policy allows.       *)
Counted(w) ==
    /\ ~Is(w, "busy")
    /\ worker[w].pc \in Leased /\ LeaseHeld(worker[w].job, worker[w].lease) =>
           worker[w].attempt = jobs[worker[w].job].attempt_count
    /\ Is(w, "retry") => worker[w].attempt < MaximumAttempts[Fp(w)]

AttemptsInv ==
    /\ SystemInv
    /\ PendingWithinLimit
    /\ \A w \in Worker : Counted(w)

(* What every step does: no running job's count changes under its lease,   *)
(* and a job that waits has an attempt left.                               *)
CountsKept ==
    /\ \A j \in Job : jobs'[j].status = "running" /\ jobs'[j].lease_id <= minted =>
          /\ jobs[j].status = "running" /\ jobs[j].lease_id = jobs'[j].lease_id
          /\ jobs'[j].attempt_count = jobs[j].attempt_count
    /\ PendingWithinLimit'

LEMMA OneCounts ==
    ASSUME ExecInv, PendingWithinLimit, NEW j \in Job, NEW q,
           jobs' = [jobs EXCEPT ![j] = q],
           q.status = "running" => q.lease_id = minted + 1,
           q.status = "pending" => q.attempt_count <= MaximumAttempts[q.fingerprint]
    PROVE  CountsKept
<1>1. minted \in Nat /\ \A i \in Job : jobs'[i] = IF i = j THEN q ELSE jobs[i]
  BY DEF ExecInv, StoreInv, JobsOK
<1>2. QED
  BY <1>1 DEF CountsKept, PendingWithinLimit, Waiting

LEMMA NoneCounts ==
    ASSUME PendingWithinLimit, jobs' = jobs PROVE CountsKept
BY DEF CountsKept, PendingWithinLimit, Waiting

LEMMA CountedStays ==
    ASSUME ExecInv, NEW lease, Spared(lease), CountsKept, NEW w \in Worker,
           Counted(w), NEW s, s = worker'[w], s.pc # "busy",
           s.pc \in Leased =>
               /\ worker[w].pc \in Leased /\ s.job = worker[w].job
               /\ s.lease = worker[w].lease /\ s.attempt = worker[w].attempt,
           s.pc = "retry" => Is(w, "retry") \/
               worker[w].attempt < MaximumAttempts[Fp(w)]
    PROVE  Counted(w)'
<1>1. worker[w].pc \in Leased =>
         /\ worker[w].job \in Job /\ worker[w].lease <= minted
         /\ jobs[worker[w].job].status # "absent"
  BY DEF ExecInv, WorkerOK, Leased, InHand
<1>2. worker[w].pc \in Leased => Fp(w) = jobs'[worker[w].job].fingerprint
  BY <1>1 DEF Spared, Fp
<1>3. "retry" \in Leased
  BY DEF Leased
<1>4. s.pc \in Leased /\ LeaseHeld(s.job, s.lease)' =>
         s.attempt = jobs'[s.job].attempt_count
  BY <1>1 DEF Counted, CountsKept, LeaseHeld
<1>5. s.pc = "retry" => s.attempt < MaximumAttempts[jobs'[s.job].fingerprint]
  BY <1>2, <1>3 DEF Counted
<1>6. QED
  BY <1>4, <1>5 DEF Counted, Is, Fp, LeaseHeld

(* The step of one invocation leaves the others' counts alone.             *)
LEMMA OthersCounted ==
    ASSUME AttemptsInv, NEW lease, Spared(lease), CountsKept, NEW w \in Worker,
           NEW s, worker' = [worker EXCEPT ![w] = s], Counted(w)'
    PROVE  \A v \in Worker : Counted(v)'
<1>1. ASSUME NEW v \in Worker, v # w PROVE Counted(v)'
  <2>1. worker'[v] = worker[v] /\ Counted(v) /\ ExecInv
    BY <1>1 DEF AttemptsInv, SystemInv, ExecInv
  <2>2. QED
    BY <2>1, CountedStays DEF Counted, Is
<1>2. QED
  BY <1>1

(* A claim counts one attempt more, for the record and the invocation.     *)
LEMMA ClaimCounts ==
    ASSUME AttemptsInv, NEW w \in Worker, Claim(w)
    PROVE  CountsKept /\ \A v \in Worker : Counted(v)'
<1> DEFINE o == worker[w]
           j == worker[w].job
           r == jobs[j]
           q == Claimed(r, FreshLease, o.now + ExecutionLease)
<1>1. /\ ExecInv /\ PendingWithinLimit /\ Counted(w) /\ o.pc = "claim" /\ j \in Job
      /\ r \in JobRecord /\ o \in WorkerState /\ jobs \in [Job -> JobRecord]
      /\ worker \in [Worker -> WorkerState] /\ minted \in Nat
  BY Presented DEF AttemptsInv, SystemInv, Claim, Is, ExecInv, StoreInv, JobsOK
<1>2. Spared(o.lease)
  BY <1>1, RunKeeps DEF Run, Served
<1>3. CASE UNCHANGED storeVars /\ Done(w)
  <2>1. CountsKept /\ worker' = [worker EXCEPT ![w] = [IdleWorker EXCEPT !.pc = "ack"]]
    BY <1>1, <1>3, NoneCounts DEF storeVars, Done
  <2>2. worker'[w].pc = "ack"
    BY <1>1, <2>1 DEF IdleWorker
  <2>3. Counted(w)'
    BY <2>2 DEF Counted, Is, Leased, InHand
  <2>4. QED
    BY <1>2, <2>1, <2>3, OthersCounted
<1>4. CASE /\ claim_execution(j, o.now + ExecutionLease, o.now)
           /\ worker' = [worker EXCEPT ![w] =
                 [@ EXCEPT !.pc = "preflight", !.lease = FreshLease,
                           !.attempt = jobs[j].attempt_count + 1]]
  <2> DEFINE s == [o EXCEPT !.pc = "preflight", !.lease = FreshLease,
                            !.attempt = r.attempt_count + 1]
  <2>1. jobs' = [jobs EXCEPT ![j] = q] /\ worker' = [worker EXCEPT ![w] = s]
    BY <1>4 DEF claim_execution
  <2>2. /\ q.status = "running" /\ q.lease_id = minted + 1
        /\ q.attempt_count = r.attempt_count + 1
    BY <1>1 DEF Claimed, JobRecord, FreshLease
  <2>3. s.pc = "preflight" /\ s.job = j /\ s.attempt = r.attempt_count + 1
    BY <1>1 DEF WorkerState
  <2> HIDE DEF q, s
  <2>4. CountsKept
    BY <1>1, <2>1, <2>2, OneCounts
  <2>5. jobs'[j] = q /\ worker'[w] = s
    BY <1>1, <2>1
  <2>6. Counted(w)'
    BY <2>2, <2>3, <2>5 DEF Counted, Is, LeaseHeld
  <2>7. QED
    BY <1>2, <2>1, <2>4, <2>6, OthersCounted
<1>5. QED
  BY <1>3, <1>4 DEF Claim

(* An invocation that is over, or goes on without a store call that would  *)
(* end its claim.                                                          *)
LEMMA GoesOnCounted ==
    ASSUME AttemptsInv, NEW w \in Worker, Run(w), CountsKept,
           NEW s, worker' = [worker EXCEPT ![w] = s],
           \/ s.pc \in {"idle", "ack"}
           \/ /\ s.pc \in {"start", "handler", "settle", "release", "retry"}
              /\ worker[w].pc \in Leased /\ s.job = worker[w].job
              /\ s.lease = worker[w].lease /\ s.attempt = worker[w].attempt
              /\ s.pc = "retry" => worker[w].attempt < MaximumAttempts[Fp(w)]
    PROVE  CountsKept /\ \A v \in Worker : Counted(v)'
<1>1. ExecInv /\ Counted(w)
  BY DEF AttemptsInv, SystemInv
<1>2. Spared(worker[w].lease) /\ worker'[w] = s
  BY <1>1, RunKeeps DEF Served, ExecInv
<1>3. s.pc # "busy" /\ (s.pc \in Leased => s.pc \notin {"idle", "ack"})
  BY DEF Leased, InHand
<1>4. s.pc # "retry" \/ worker[w].attempt < MaximumAttempts[Fp(w)]
  OBVIOUS
<1>5. Counted(w)'
  BY <1>1, <1>2, <1>3, <1>4, CountedStays
<1>6. QED
  BY <1>2, <1>5, OthersCounted

LEMMA SettledCount ==
    ASSUME NEW r \in JobRecord, NEW status, NEW lease, NEW outcome, NEW next
    PROVE  LET q == [Settled(r, status, lease, outcome) EXCEPT !.available_at = next]
           IN  /\ q.status = status /\ q.attempt_count = r.attempt_count
               /\ q.fingerprint = r.fingerprint
BY DEF Settled, Transition, JobRecord

(* A job is settled, or stored for a retry that the policy allows.         *)
LEMMA SettlingCounts ==
    ASSUME AttemptsInv, NEW w \in Worker,
           PreflightFail(w) \/ Complete(w) \/ Fail(w) \/ Retry(w)
    PROVE  CountsKept /\ \A v \in Worker : Counted(v)'
<1> DEFINE o == worker[w]
           j == worker[w].job
           r == jobs[j]
<1>1. /\ ExecInv /\ PendingWithinLimit /\ Counted(w) /\ Run(w) /\ o.pc \in Leased
      /\ j \in Job /\ r \in JobRecord /\ o \in WorkerState
  BY Presented DEF AttemptsInv, SystemInv, ExecInv, StoreInv, JobsOK, Run, Is, Leased,
                   InHand, PreflightFail, Complete, Fail, Retry
<1>2. CountsKept
  <2>1. CASE jobs' = jobs
    BY <1>1, <2>1, NoneCounts
  <2>2. CASE complete(j, o.lease) \/ fail_permanently(j, o.lease)
    <3>1. PICK status \in {"succeeded", "failed_permanently"} :
             jobs' = [jobs EXCEPT ![j] = Settled(r, status, o.lease, status)]
      BY <2>2 DEF complete, fail_permanently
    <3> DEFINE q == Settled(r, status, o.lease, status)
    <3>2. q.status = status
      BY <1>1, SettledStatus
    <3> HIDE DEF q
    <3>3. jobs' = [jobs EXCEPT ![j] = q]
      BY <3>1 DEF q
    <3>4. QED
      BY <1>1, <3>2, <3>3, OneCounts
  <2>3. CASE Retry(w) /\ schedule_retry_and_publish(j, o.lease, o.now + RetryDelay)
    <3> DEFINE q == [Settled(r, "pending", o.lease, "retried") EXCEPT
                        !.available_at = o.now + RetryDelay]
    <3>1. /\ q.status = "pending" /\ q.attempt_count = r.attempt_count
          /\ q.fingerprint = r.fingerprint
      BY <1>1, SettledCount
    <3>2. o.attempt = r.attempt_count /\ o.attempt < MaximumAttempts[r.fingerprint]
      BY <1>1, <2>3 DEF Counted, Retry, Is, schedule_retry_and_publish, Fp
    <3>3. MaximumAttempts[r.fingerprint] \in Nat /\ r.attempt_count \in Nat
      BY <1>1, ExecutorAssumption DEF JobRecord
    <3>4. jobs' = [jobs EXCEPT ![j] = q]
      BY <2>3 DEF schedule_retry_and_publish
    <3> HIDE DEF q
    <3>5. q.attempt_count <= MaximumAttempts[q.fingerprint]
      BY <3>1, <3>2, <3>3
    <3>6. QED
      BY <1>1, <3>1, <3>4, <3>5, OneCounts
  <2>4. QED
    BY <2>1, <2>2, <2>3 DEF PreflightFail, Complete, Fail, Retry, FencedOut, storeVars
<1>3. CASE Done(w) \/ Return(w)
  <2> DEFINE s == IF Done(w) THEN [IdleWorker EXCEPT !.pc = "ack"] ELSE IdleWorker
  <2>1. worker' = [worker EXCEPT ![w] = s]
    BY <1>3 DEF Done, Return
  <2>2. s.pc \in {"idle", "ack"}
    BY DEF IdleWorker
  <2> HIDE DEF s
  <2>3. QED
    BY <1>1, <1>2, <2>1, <2>2, GoesOnCounted
<1>4. CASE Goto(w, "release")
  <2> DEFINE s == [o EXCEPT !.pc = "release"]
  <2>1. worker' = [worker EXCEPT ![w] = s]
    BY <1>4 DEF Goto
  <2>2. s.pc = "release" /\ s.job = j /\ s.lease = o.lease /\ s.attempt = o.attempt
    BY <1>1 DEF WorkerState
  <2> HIDE DEF s
  <2>3. QED
    BY <1>1, <1>2, <2>1, <2>2, GoesOnCounted
<1>5. QED
  BY <1>3, <1>4 DEF PreflightFail, Complete, Fail, Retry, FencedOut

(* A job without an overlap key never finds its lock busy; a retry is      *)
(* stored only when attempts are left.                                     *)
LEMMA StayingCounts ==
    ASSUME OnlyRetriesReopen, AttemptsInv, NEW w \in Worker,
           \/ Acquire(w) \/ StartHandler(w) \/ FinishHandler(w)
           \/ Release(w) \/ ReleaseBeforeRetry(w)
    PROVE  CountsKept /\ \A v \in Worker : Counted(v)'
<1> DEFINE o == worker[w]
<1>1. /\ ExecInv /\ PendingWithinLimit /\ Run(w) /\ o.pc \in Leased
      /\ o.job \in Job /\ jobs[o.job] \in JobRecord /\ o \in WorkerState
  BY Presented DEF AttemptsInv, SystemInv, ExecInv, StoreInv, JobsOK, Run, Is, Leased,
                   InHand, Acquire, StartHandler, FinishHandler, Release,
                   ReleaseBeforeRetry
<1>2. jobs' = jobs
  BY DEF Acquire, StartHandler, FinishHandler, Release, ReleaseBeforeRetry,
         ReleaseLock, acquire, release, SetLock, storeVars
<1>3. CountsKept
  BY <1>1, <1>2, NoneCounts
<1>4. CASE Release(w)
  <2> DEFINE s == [IdleWorker EXCEPT !.pc = "ack"]
  <2>1. worker' = [worker EXCEPT ![w] = s] /\ s.pc = "ack"
    BY <1>4 DEF Release, Done, IdleWorker
  <2> HIDE DEF s
  <2>2. QED
    BY <1>1, <1>3, <2>1, GoesOnCounted
<1>5. CASE ~Release(w)
  <2>1. PICK s : /\ worker' = [worker EXCEPT ![w] = s]
                 /\ s.pc \in {"start", "handler", "settle", "retry"}
                 /\ s.pc = "retry" => o.attempt < MaximumAttempts[Fp(w)]
                 /\ s.job = o.job /\ s.lease = o.lease /\ s.attempt = o.attempt
    <3>1. CASE Acquire(w) \/ ReleaseBeforeRetry(w)
      <4>1. PICK pc \in {"start", "retry"} :
               Goto(w, pc) /\ (pc = "retry" => ReleaseBeforeRetry(w))
        <5>1. jobs[o.job].fingerprint \in Fingerprint
          BY <1>1 DEF JobRecord
        <5>2. OverlapKeyHeldBy(w) = NoOverlapKey
          BY <5>1 DEF OnlyRetriesReopen, OverlapKeyHeldBy, Fp
        <5>3. QED
          BY <3>1, <5>2 DEF Acquire, ReleaseBeforeRetry
      <4> DEFINE s == [o EXCEPT !.pc = pc]
      <4>2. s.pc = pc /\ s.job = o.job /\ s.lease = o.lease /\ s.attempt = o.attempt
        BY <1>1 DEF WorkerState
      <4>3. worker' = [worker EXCEPT ![w] = s]
        BY <4>1 DEF Goto
      <4>4. pc = "retry" => o.attempt < MaximumAttempts[Fp(w)]
        <5>1. o.attempt \in Nat /\ MaximumAttempts[Fp(w)] \in Nat
          BY <1>1, ExecutorAssumption DEF WorkerState, JobRecord, Fp
        <5>2. QED
          BY <4>1, <5>1 DEF ReleaseBeforeRetry, Exhausted
      <4> HIDE DEF s
      <4>5. QED
        BY <4>2, <4>3, <4>4
    <3>2. CASE StartHandler(w)
      <4> DEFINE s == [o EXCEPT !.pc = "handler", !.start = clock]
      <4>1. s.pc = "handler" /\ s.job = o.job /\ s.lease = o.lease /\ s.attempt = o.attempt
        BY <1>1 DEF WorkerState
      <4>2. worker' = [worker EXCEPT ![w] = s]
        BY <3>2 DEF StartHandler
      <4> HIDE DEF s
      <4>3. QED
        BY <4>1, <4>2
    <3>3. CASE FinishHandler(w)
      <4>1. PICK outcome : worker' = [worker EXCEPT ![w] =
               [@ EXCEPT !.pc = "settle", !.now = clock, !.start = 0, !.outcome = outcome]]
        BY <3>3 DEF FinishHandler
      <4> DEFINE s == [o EXCEPT !.pc = "settle", !.now = clock, !.start = 0,
                                !.outcome = outcome]
      <4>2. s.pc = "settle" /\ s.job = o.job /\ s.lease = o.lease /\ s.attempt = o.attempt
        BY <1>1 DEF WorkerState
      <4>3. worker' = [worker EXCEPT ![w] = s]
        BY <4>1
      <4> HIDE DEF s
      <4>4. QED
        BY <4>2, <4>3
    <3>4. QED
      BY <1>5, <3>1, <3>2, <3>3
  <2>2. QED
    BY <1>1, <1>3, <2>1, GoesOnCounted
<1>6. QED
  BY <1>4, <1>5

LEMMA RunCounts ==
    ASSUME OnlyRetriesReopen, AttemptsInv, NEW w \in Worker, Run(w)
    PROVE  CountsKept /\ \A v \in Worker : Counted(v)'
<1>1. ~Busy(w)
  BY DEF AttemptsInv, Counted, Busy
<1>2. QED
  BY <1>1, ClaimCounts, SettlingCounts, StayingCounts DEF Run

(* A step that no invocation takes.                                        *)
LEMMA QuietCounts ==
    ASSUME AttemptsInv, NEW lease, Spared(lease), CountsKept, UNCHANGED worker
    PROVE  \A v \in Worker : Counted(v)'
<1> SUFFICES ASSUME NEW v \in Worker PROVE Counted(v)'
  OBVIOUS
<1>1. ExecInv /\ Counted(v) /\ worker'[v] = worker[v] /\ worker[v].pc # "busy"
  BY DEF AttemptsInv, SystemInv, Counted, Is
<1>2. worker[v].pc = "retry" => Is(v, "retry")
  BY DEF Is
<1>3. QED
  BY <1>1, <1>2, CountedStays

LEMMA InsertCounts ==
    ASSUME AttemptsInv, NEW j \in Job, NEW k \in DedupeKey \cup {NoKey},
           NEW f \in Fingerprint, NEW at \in Nat, NEW status,
           Insert(j, k, f, at, status), UNCHANGED worker
    PROVE  CountsKept /\ \A v \in Worker : Counted(v)'
<1> DEFINE q == pending_record(k, f, at)
<1>1. ExecInv /\ PendingWithinLimit
  BY DEF AttemptsInv, SystemInv
<1>2. q.status = "pending" /\ q.attempt_count = 0 /\ q.fingerprint = f
  BY DEF pending_record
<1>3. 0 <= MaximumAttempts[f]
  BY ExecutorAssumption
<1>4. jobs' = [jobs EXCEPT ![j] = q]
  BY DEF Insert
<1> HIDE DEF q
<1>5. CountsKept
  BY <1>1, <1>2, <1>3, <1>4, OneCounts
<1>6. Spared(NoLease)
  BY <1>1, InsertSpares
<1>7. QED
  BY <1>5, <1>6, QuietCounts

(* An operator cancels a job, or reopens it with all its attempts left.    *)
LEMMA OperateCounts ==
    ASSUME OnlyRetriesReopen, AttemptsInv, Operate
    PROVE  CountsKept /\ \A v \in Worker : Counted(v)'
<1>1. /\ ExecInv /\ PendingWithinLimit /\ jobs \in [Job -> JobRecord]
      /\ UNCHANGED worker /\ Spared(NoLease)
  BY OperateSpares DEF AttemptsInv, SystemInv, ExecInv, StoreInv, JobsOK, Operate
<1>2. CountsKept
  <2>1. ASSUME NEW j \in Job, cancel(j, jobs[j].revision) PROVE CountsKept
    <3> DEFINE q == Transition(jobs[j], "cancelled")
    <3>1. q.status = "cancelled" /\ jobs' = [jobs EXCEPT ![j] = q]
      BY <1>1, <2>1 DEF cancel, Transition, JobRecord
    <3> HIDE DEF q
    <3>2. QED
      BY <1>1, <3>1, OneCounts
  <2>2. ASSUME NEW j \in Job, retry_failed(j, jobs[j].revision, clock)
        PROVE  CountsKept
    <3> DEFINE q == [Reopened(jobs[j], clock) EXCEPT !.attempt_count = 0]
    <3>1. /\ q.status = "pending" /\ q.attempt_count = 0 /\ q.fingerprint \in Fingerprint
          /\ jobs' = [jobs EXCEPT ![j] = q]
      BY <1>1, <2>2 DEF retry_failed, Reopened, Transition, JobRecord
    <3> HIDE DEF q
    <3>2. 0 <= MaximumAttempts[q.fingerprint]
      BY <3>1, ExecutorAssumption
    <3>3. QED
      BY <1>1, <3>1, <3>2, OneCounts
  <2>3. QED
    BY <2>1, <2>2 DEF Operate, OnlyRetriesReopen
<1>3. QED
  BY <1>1, <1>2, QuietCounts

(* The publisher does not touch the records.                               *)
LEMMA PassCounts ==
    ASSUME AttemptsInv,
           PassStart \/ PassClaim \/ PassRead \/ PassSend \/ PassMark \/ PassCrash
    PROVE  CountsKept /\ \A v \in Worker : Counted(v)'
<1>1. PublisherOK /\ StoreInv /\ ExecInv /\ clock \in Nat /\ PendingWithinLimit
  BY DEF AttemptsInv, SystemInv, PublisherOK, ExecInv
<1>2. [PublicationNext]_storeVars /\ UNCHANGED <<clock, worker, inflight>>
  BY <1>1, PassIsPublication
<1>3. UNCHANGED <<jobs, locks>> /\ minted' \in {minted, minted + 1}
  BY <1>2 DEF PublicationNext, claim_due, mark_published, mark_failed, RecoverClaims,
              FreshLease, storeVars
<1>4. minted \in Nat /\ \A j \in Job : jobs[j] \in JobRecord
  BY <1>1 DEF StoreInv, JobsOK
<1>5. Spared(NoLease)
  BY <1>3, <1>4 DEF Spared
<1>6. CountsKept
  BY <1>1, <1>3, NoneCounts
<1>7. QED
  BY <1>2, <1>5, <1>6, QuietCounts

LEMMA AttemptsStep ==
    ASSUME OnlyRetriesReopen, AttemptsInv, [Next]_vars PROVE AttemptsInv'
<1> SUFFICES CountsKept /\ \A v \in Worker : Counted(v)'
  BY SystemStep DEF AttemptsInv, CountsKept
<1>1. ExecInv /\ PendingWithinLimit /\ TransportOK /\ clock \in Nat
  BY DEF AttemptsInv, SystemInv, ExecInv
<1>2. ASSUME UNCHANGED storeVars, NEW w \in Worker, NEW s,
             worker' = [worker EXCEPT ![w] = s], s.pc \in {"idle", "claim"}
      PROVE  CountsKept /\ \A v \in Worker : Counted(v)'
  <2>1. Spared(NoLease) /\ CountsKept
    BY <1>1, <1>2, UnchangedSpares, NoneCounts DEF storeVars
  <2>2. worker'[w].pc \in {"idle", "claim"}
    BY <1>1, <1>2 DEF ExecInv
  <2>3. Counted(w)'
    BY <2>2 DEF Counted, Is, Leased, InHand
  <2>4. QED
    BY <1>2, <2>1, <2>3, OthersCounted
<1>3. ASSUME UNCHANGED storeVars, UNCHANGED worker
      PROVE  CountsKept /\ \A v \in Worker : Counted(v)'
  BY <1>1, <1>3, UnchangedSpares, NoneCounts, QuietCounts DEF storeVars
<1>4. ASSUME NEW w \in Worker,
             \/ Receive(w) \/ Ingest(w) \/ Execute(w) \/ RunStep(w)
             \/ Acknowledge(w) \/ WorkerCrash(w)
      PROVE  CountsKept /\ \A v \in Worker : Counted(v)'
  <2>1. CASE Receive(w)
    BY <1>3, <2>1 DEF Receive, execVars
  <2>2. CASE Ingest(w)
    <3>1. PICK j \in Job : Insert(j, KeyOf[j], FingerprintOf[j], clock, "published")
      BY <2>2, SystemAssumption DEF Ingest, ingest_existing_delivery
    <3>2. KeyOf[j] \in DedupeKey \cup {NoKey} /\ FingerprintOf[j] \in Fingerprint
      BY ExecutorAssumption
    <3>3. QED
      BY <1>1, <2>2, <3>1, <3>2, InsertCounts DEF Ingest
  <2>3. CASE Execute(w)
    <3> DEFINE s == [IdleWorker EXCEPT !.pc = "claim", !.job = JobOf(inflight[w]),
                                       !.now = clock]
    <3>1. UNCHANGED storeVars /\ worker' = [worker EXCEPT ![w] = s]
      BY <2>3 DEF Execute, Begin
    <3>2. s.pc = "claim"
      BY DEF IdleWorker
    <3> HIDE DEF s
    <3>3. QED
      BY <1>2, <3>1, <3>2
  <2>4. CASE RunStep(w)
    BY <2>4, RunCounts DEF RunStep
  <2>5. CASE Acknowledge(w) \/ WorkerCrash(w)
    <3>1. /\ UNCHANGED storeVars
          /\ worker' = worker \/ worker' = [worker EXCEPT ![w] = IdleWorker]
      BY <2>5 DEF Acknowledge, WorkerCrash, Ack, Crash, Return
    <3>2. IdleWorker.pc = "idle"
      BY DEF IdleWorker
    <3>3. QED
      BY <1>2, <1>3, <3>1, <3>2
  <2>6. QED
    BY <1>4, <2>1, <2>2, <2>3, <2>4, <2>5
<1>5. CASE PassStart \/ PassClaim \/ PassRead \/ PassSend \/ PassMark \/ PassCrash
  BY <1>5, PassCounts
<1>6. CASE \/ \E k \in DedupeKey : Fire(k)
           \/ Tick
           \/ UNCHANGED vars
  BY <1>3, <1>6 DEF Fire, Tick, vars, execVars
<1>7. ASSUME NEW j \in Job, Submit(j)
      PROVE  CountsKept /\ \A v \in Worker : Counted(v)'
  <2>1. KeyOf[j] \in DedupeKey \cup {NoKey} /\ FingerprintOf[j] \in Fingerprint
    BY ExecutorAssumption
  <2>2. QED
    BY <1>1, <1>7, <2>1, InsertCounts DEF Submit, enqueue_with_intent
<1>8. QED
  BY <1>4, <1>5, <1>6, <1>7, OperateCounts DEF Next

LEMMA AttemptsInitInv == Init => AttemptsInv
<1> SUFFICES ASSUME Init PROVE AttemptsInv
  OBVIOUS
<1>1. /\ \A j \in Job : jobs[j].status = "absent"
      /\ \A w \in Worker : worker[w].pc = "idle"
  BY DEF Init, ExecInit, StoreInit, AbsentRecord, pending_record, IdleWorker
<1>2. PendingWithinLimit
  BY <1>1 DEF PendingWithinLimit, Waiting
<1>3. \A w \in Worker : Counted(w)
  BY <1>1 DEF Counted, Is, Leased, InHand
<1>4. QED
  BY <1>2, <1>3, SystemInitInv DEF AttemptsInv

(* A job that waits has an attempt left: the busy lock and the recovery of *)
(* leases, which reopen a job whatever its attempt count, do not happen.   *)
LEMMA PendingStaysWithinLimit ==
    ASSUME OnlyRetriesReopen PROVE Spec => []PendingWithinLimit
<1>1. Init => AttemptsInv
  BY AttemptsInitInv
<1>2. AttemptsInv /\ [Next]_vars => AttemptsInv'
  BY AttemptsStep
<1>3. AttemptsInv => PendingWithinLimit
  BY DEF AttemptsInv
<1>4. QED
  BY <1>1, <1>2, <1>3, PTL DEF Spec

(* So a pending job always has a delivery when no job shares an overlap    *)
(* key and nobody calls recover_expired_leases.                            *)
THEOREM PendingJobsAlwaysDelivered ==
    ASSUME OnlyRetriesReopen PROVE Spec => []PendingHasDelivery
<1>1. Spec => []PendingWithinLimit
  BY PendingStaysWithinLimit
<1>2. QED
  BY <1>1, PendingJobsAreDelivered, PTL
=============================================================================
