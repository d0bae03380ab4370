--------------------------- MODULE JobStoreProofs ---------------------------
(***************************************************************************)
(* Proofs about JobStore, for every set of jobs, keys and instants and     *)
(* every bound.                                                            *)
(*                                                                         *)
(* The fencing invariants are not inductive as they stand: that a history  *)
(* stays sorted when a lease is minted needs every lease on record to have *)
(* been minted before.  RecordOK says so record by record, PublicationOK   *)
(* generation by generation, and KeysOK ties the dedupe index to the       *)
(* records; together they are the inductive invariant StoreInv.            *)
(***************************************************************************)
EXTENDS JobStore, TLAPS

(* A record and the leases on it, when leases 1..m have been minted.       *)
RecordOK(r, m) ==
    /\ r \in JobRecord
    /\ r.status = "running" <=> r.lease_id # NoLease
    /\ r.lease_id <= m
    /\ \A a \in 1..Len(r.attempts) : r.attempts[a].lease <= m
    /\ \A a, b \in 1..Len(r.attempts) :
          a < b => r.attempts[a].lease < r.attempts[b].lease
    /\ r.status = "running" =>
          \A a \in 1..Len(r.attempts) : r.attempts[a].lease < r.lease_id

PublicationOK(p) ==
    /\ p \in JobPublication
    /\ p.status = "claimed" <=> p.lease_id # NoLease

JobsOK ==
    /\ minted \in Nat
    /\ jobs \in [Job -> JobRecord]
    /\ \A j \in Job : RecordOK(jobs[j], minted)

PublicationsOK ==
    /\ publications \in [Job -> Seq(JobPublication)]
    /\ \A j \in Job : \A g \in 1..Len(publications[j]) :
          PublicationOK(publications[j][g])

KeysOK ==
    /\ fingerprints \in [DedupeKey -> Job \cup {NoJob}]
    /\ \A j \in Job : jobs[j].status = "absent" =>
          jobs[j].key = NoKey /\ jobs[j].revision = 0
    /\ OneJobPerKey

LocksOK == locks \in [OverlapKey -> Lock]

StoreInv ==
    /\ JobsOK
    /\ PublicationsOK
    /\ KeysOK
    /\ LocksOK
    /\ LeasesAreUnique

-----------------------------------------------------------------------------
(* What the helpers return.                                                *)

(* A record that changes its status stays a record and keeps its history.  *)
LEMMA TransitionFacts ==
    ASSUME NEW r \in JobRecord, NEW status \in JobStatus
    PROVE  /\ Transition(r, status) \in JobRecord
           /\ Transition(r, status).status = status
           /\ Transition(r, status).lease_id = NoLease
           /\ Transition(r, status).attempts = r.attempts
           /\ Transition(r, status).key = r.key
           /\ Transition(r, status).revision = r.revision + 1
<1>1. r.revision + 1 \in Nat
  BY DEF JobRecord
<1>2. QED
  BY <1>1 DEF Transition, JobRecord, NoLease

(* h is a history that was cut to a suffix of `old` and got one new entry: *)
(* what is at index a was at index a + d before, or is the new entry.      *)
ExtendsHistory(h, old, lease) ==
    \E d \in Nat :
        /\ Len(h) + d = Len(old) + 1
        /\ \A a \in 1..Len(h) :
              h[a].lease = IF a + d <= Len(old) THEN old[a + d].lease ELSE lease

(* record_attempt keeps the newest entries and adds one.                   *)
LEMMA RecordAttemptFacts ==
    ASSUME NEW r \in JobRecord, NEW lease \in Nat,
           NEW outcome \in {"succeeded", "retried", "failed_permanently"}
    PROVE  /\ record_attempt(r, lease, outcome) \in Seq(JobAttempt)
           /\ ExtendsHistory(record_attempt(r, lease, outcome), r.attempts, lease)
<1> DEFINE e == [attempt |-> r.attempt_count, lease |-> lease, outcome |-> outcome]
           all == Append(r.attempts, e)
           excess == Len(all) - MAX_ATTEMPT_HISTORY
           h == record_attempt(r, lease, outcome)
<1>1. e \in JobAttempt /\ e.lease = lease
  BY DEF JobRecord, JobAttempt
<1>2. r.attempts \in Seq(JobAttempt)
  BY DEF JobRecord
<1>3. /\ all \in Seq(JobAttempt)
      /\ Len(all) = Len(r.attempts) + 1
      /\ \A a \in 1..Len(all) :
            all[a].lease = IF a <= Len(r.attempts) THEN r.attempts[a].lease ELSE lease
  BY <1>1, <1>2
<1>4. h = IF excess > 0 THEN SubSeq(all, excess + 1, Len(all)) ELSE all
  BY DEF record_attempt
<1>5. excess \in Int /\ excess < Len(all) /\ Len(all) \in Nat
  BY <1>3, StoreAssumption
<1> HIDE DEF e, all, excess, h
<1>6. CASE excess > 0
  <2>1. h = SubSeq(all, excess + 1, Len(all))
    BY <1>4, <1>6
  <2>2. /\ h \in Seq(JobAttempt)
        /\ Len(h) = Len(all) - excess
        /\ \A a \in 1..Len(h) : h[a] = all[a + excess]
    BY <2>1, <1>3, <1>5, <1>6
  <2>3. Len(h) + excess = Len(r.attempts) + 1
    BY <2>2, <1>3, <1>5
  <2>4. \A a \in 1..Len(h) : a + excess \in 1..Len(all)
    BY <2>2, <1>5, <1>6
  <2>5. \A a \in 1..Len(h) :
           h[a].lease = IF a + excess <= Len(r.attempts)
                        THEN r.attempts[a + excess].lease ELSE lease
    BY <2>2, <2>4, <1>3
  <2>6. excess \in Nat
    BY <1>5, <1>6
  <2>7. QED
    BY <2>2, <2>3, <2>5, <2>6 DEF h, ExtendsHistory
<1>7. CASE ~(excess > 0)
  <2>1. h = all
    BY <1>4, <1>7
  <2>2. /\ 0 \in Nat /\ Len(h) + 0 = Len(r.attempts) + 1
        /\ \A a \in 1..Len(h) :
              h[a].lease = IF a + 0 <= Len(r.attempts)
                           THEN r.attempts[a + 0].lease ELSE lease
    BY <2>1, <1>3, <1>2
  <2>3. QED
    BY <2>1, <2>2, <1>3 DEF h, ExtendsHistory
<1>8. QED
  BY <1>6, <1>7, <1>5

(* The entries of a history carry leases.                                  *)
LEMMA HistoryLeases ==
    ASSUME NEW h \in Seq(JobAttempt)
    PROVE  Len(h) \in Nat /\ \A a \in 1..Len(h) : h[a].lease \in Nat
<1>1. \A a \in 1..Len(h) : h[a] \in JobAttempt
  OBVIOUS
<1>2. QED
  BY <1>1 DEF JobAttempt

(* A generation is added at the end and the others stay as they are.       *)
LEMMA InsertPublicationFacts ==
    ASSUME PublicationsOK, NEW j \in Job, NEW at \in Nat,
           NEW status \in PublicationStatus \ {"claimed"}
    PROVE  LET ps == insert_publication(j, at, status)
           IN  /\ ps \in Seq(JobPublication)
               /\ Len(ps) = Len(publications[j]) + 1
               /\ \A g \in 1..Len(ps) : PublicationOK(ps[g])
               /\ \A g \in 1..Len(publications[j]) : ps[g] = publications[j][g]
<1> DEFINE p == [status |-> status, available_at |-> at,
                 lease_id |-> NoLease, claim_expires_at |-> 0]
           ps == insert_publication(j, at, status)
<1>1. p \in JobPublication /\ PublicationOK(p)
  BY DEF JobPublication, PublicationOK, NoLease
<1>2. publications[j] \in Seq(JobPublication)
  BY DEF PublicationsOK
<1>3. ps = Append(publications[j], p)
  BY DEF insert_publication
<1> HIDE DEF p, ps
<1>4. /\ ps \in Seq(JobPublication)
      /\ Len(ps) = Len(publications[j]) + 1
      /\ \A g \in 1..Len(publications[j]) : ps[g] = publications[j][g]
      /\ ps[Len(publications[j]) + 1] = p
  BY <1>1, <1>2, <1>3
<1>5. \A g \in 1..Len(ps) : PublicationOK(ps[g])
  BY <1>1, <1>2, <1>4 DEF PublicationsOK
<1>6. QED
  BY <1>4, <1>5 DEF ps

-----------------------------------------------------------------------------
(* What keeps a record in order.                                           *)

(* Minting a lease does not disturb a record.                              *)
LEMMA RecordOKMonotone ==
    ASSUME NEW m \in Nat, NEW r, RecordOK(r, m)
    PROVE  RecordOK(r, m + 1)
<1>1. r.lease_id \in Nat /\ r.attempts \in Seq(JobAttempt)
  BY DEF RecordOK, JobRecord
<1>2. \A a \in 1..Len(r.attempts) : r.attempts[a].lease \in Nat
  BY <1>1, HistoryLeases
<1>3. QED
  BY <1>1, <1>2 DEF RecordOK

(* Leaving "running", or never having been there, without a history entry  *)
(* (cancel, retry_failed, lease recovery).                                 *)
LEMMA ReopenOK ==
    ASSUME NEW m \in Nat, NEW r, RecordOK(r, m),
           NEW q \in JobRecord, q.status # "running", q.lease_id = NoLease,
           q.attempts = r.attempts
    PROVE  RecordOK(q, m)
BY DEF RecordOK, NoLease

(* Settling a running record: the lease it ran under is the newest entry,  *)
(* and it was newer than every entry before.                               *)
LEMMA SettleOK ==
    ASSUME NEW m \in Nat, NEW r, RecordOK(r, m), r.status = "running",
           NEW q \in JobRecord, q.status # "running", q.lease_id = NoLease,
           ExtendsHistory(q.attempts, r.attempts, r.lease_id)
    PROVE  RecordOK(q, m)
<1> DEFINE h == q.attempts
           n == Len(r.attempts)
<1>1. /\ r.lease_id \in Nat /\ r.lease_id <= m
      /\ r.attempts \in Seq(JobAttempt) /\ h \in Seq(JobAttempt)
  BY DEF RecordOK, JobRecord
<1>2. /\ \A a \in 1..n : r.attempts[a].lease \in Nat
      /\ \A a \in 1..n : r.attempts[a].lease < r.lease_id
      /\ \A a, b \in 1..n : a < b => r.attempts[a].lease < r.attempts[b].lease
      /\ n \in Nat /\ Len(h) \in Nat
  BY <1>1, HistoryLeases DEF RecordOK
<1>3. PICK d \in Nat : /\ Len(h) + d = n + 1
                       /\ \A a \in 1..Len(h) :
                             h[a].lease = IF a + d <= n THEN r.attempts[a + d].lease
                                          ELSE r.lease_id
  BY DEF ExtendsHistory
<1> HIDE DEF h, n
<1>4. \A a \in 1..Len(h) : h[a].lease <= m
  <2> SUFFICES ASSUME NEW a \in 1..Len(h) PROVE h[a].lease <= m
    OBVIOUS
  <2>1. CASE a + d <= n
    <3>1. a + d \in 1..n
      BY <1>2, <2>1
    <3>2. h[a].lease = r.attempts[a + d].lease
      BY <1>3, <2>1
    <3>3. QED
      BY <3>1, <3>2, <1>1, <1>2
  <2>2. CASE ~(a + d <= n)
    BY <2>2, <1>3, <1>1
  <2>3. QED
    BY <2>1, <2>2
<1>5. \A a, b \in 1..Len(h) : a < b => h[a].lease < h[b].lease
  <2> SUFFICES ASSUME NEW a \in 1..Len(h), NEW b \in 1..Len(h), a < b
               PROVE  h[a].lease < h[b].lease
    OBVIOUS
  <2> DEFINE x == a + d
             y == b + d
  <2>1. /\ x \in 1..n /\ y \in Nat /\ 1 <= y /\ x < y
        /\ x <= n
    BY <1>2, <1>3
  <2>2. /\ h[a].lease = IF x <= n THEN r.attempts[x].lease ELSE r.lease_id
        /\ h[b].lease = IF y <= n THEN r.attempts[y].lease ELSE r.lease_id
    BY <1>3
  <2> HIDE DEF x, y
  <2>3. CASE y <= n
    <3>1. y \in 1..n
      BY <2>1, <2>3, <1>2
    <3>2. QED
      BY <2>1, <2>2, <2>3, <3>1, <1>2
  <2>4. CASE ~(y <= n)
    BY <2>1, <2>2, <2>4, <1>2
  <2>5. QED
    BY <2>3, <2>4
<1>6. QED
  BY <1>4, <1>5 DEF RecordOK, NoLease, h

(* A claim under the lease minted last: newer than everything on record.   *)
LEMMA ClaimOK ==
    ASSUME NEW m \in Nat, NEW r, RecordOK(r, m), NEW expires \in Nat
    PROVE  /\ RecordOK(Claimed(r, m + 1, expires), m + 1)
           /\ Claimed(r, m + 1, expires).status = "running"
           /\ Claimed(r, m + 1, expires).lease_id = m + 1
           /\ Claimed(r, m + 1, expires).key = r.key
           /\ Claimed(r, m + 1, expires).revision = r.revision + 1
<1> DEFINE q == Claimed(r, m + 1, expires)
<1>1. /\ r \in JobRecord /\ r.attempts \in Seq(JobAttempt)
      /\ r.attempt_count + 1 \in Nat /\ r.revision + 1 \in Nat
  BY DEF RecordOK, JobRecord
<1>2. /\ \A a \in 1..Len(r.attempts) :
            r.attempts[a].lease \in Nat /\ r.attempts[a].lease <= m
      /\ \A a, b \in 1..Len(r.attempts) :
            a < b => r.attempts[a].lease < r.attempts[b].lease
  BY <1>1, HistoryLeases DEF RecordOK
<1>3. /\ q \in JobRecord /\ q.status = "running" /\ q.lease_id = m + 1
      /\ q.attempts = r.attempts /\ q.key = r.key /\ q.revision = r.revision + 1
  <2>1. m + 1 \in Nat /\ "running" \in JobStatus
    BY DEF JobStatus
  <2>2. QED
    BY <1>1, <2>1 DEF JobRecord, Claimed
<1> HIDE DEF q
<1>4. RecordOK(q, m + 1)
  BY <1>2, <1>3 DEF RecordOK, NoLease
<1>5. QED
  BY <1>3, <1>4 DEF q

-----------------------------------------------------------------------------
(* Steps that change one record, or one job's generations.                 *)

(* A record that is not running afterwards: what settling, cancelling and  *)
(* reopening have in common.                                               *)
LEMMA UpdateOK ==
    ASSUME StoreInv, NEW j \in Job, NEW q, RecordOK(q, minted),
           q.status \notin {"running", "absent"}, q.key = jobs[j].key,
           jobs' = [jobs EXCEPT ![j] = q], fingerprints' = fingerprints,
           minted' = minted
    PROVE  JobsOK' /\ KeysOK' /\ LeasesAreUnique'
<1>1. jobs \in [Job -> JobRecord] /\ q \in JobRecord
  BY DEF StoreInv, JobsOK, RecordOK
<1>2. \A i \in Job : jobs'[i] = IF i = j THEN q ELSE jobs[i]
  BY <1>1
<1>3. JobsOK'
  BY <1>1, <1>2 DEF StoreInv, JobsOK
<1>4. LeasesAreUnique'
  BY <1>2 DEF StoreInv, LeasesAreUnique
<1>5. \A i \in Job : jobs'[i].key = jobs[i].key
  BY <1>2
<1>6. OneJobPerKey'
  <2>1. \A i \in Job : jobs'[i].key # NoKey => fingerprints'[jobs'[i].key] = i
    BY <1>5 DEF StoreInv, KeysOK, OneJobPerKey
  <2>2. ASSUME NEW k \in DedupeKey, fingerprints'[k] # NoJob
        PROVE  jobs'[fingerprints'[k]].key = k
    <3>1. fingerprints[k] \in Job
      BY <2>2 DEF StoreInv, KeysOK
    <3>2. QED
      BY <3>1, <2>2, <1>5 DEF StoreInv, KeysOK, OneJobPerKey
  <2>3. QED
    BY <2>1, <2>2 DEF OneJobPerKey
<1>7. KeysOK'
  BY <1>2, <1>6 DEF StoreInv, KeysOK
<1>8. QED
  BY <1>3, <1>4, <1>7

(* One more generation of one job.                                         *)
LEMMA AppendOK ==
    ASSUME PublicationsOK, NEW j \in Job, NEW at \in Nat,
           NEW status \in PublicationStatus \ {"claimed"},
           publications' = [publications EXCEPT
                               ![j] = insert_publication(j, at, status)]
    PROVE  PublicationsOK'
<1> DEFINE ps == insert_publication(j, at, status)
<1>1. ps \in Seq(JobPublication) /\ \A g \in 1..Len(ps) : PublicationOK(ps[g])
  BY InsertPublicationFacts
<1> HIDE DEF ps
<1>2. publications' = [publications EXCEPT ![j] = ps]
  BY DEF ps
<1>3. \A i \in Job : publications'[i] = IF i = j THEN ps ELSE publications[i]
  BY <1>2 DEF PublicationsOK
<1>4. publications' \in [Job -> Seq(JobPublication)]
  BY <1>1, <1>2 DEF PublicationsOK
<1>5. QED
  BY <1>1, <1>3, <1>4 DEF PublicationsOK

-----------------------------------------------------------------------------
(* Every action keeps the invariant.                                       *)

(* An empty store (MemoryJobStore::new) satisfies the inductive invariant. *)
LEMMA InitInv == StoreInit => StoreInv
<1> SUFFICES ASSUME StoreInit PROVE StoreInv
  OBVIOUS
<1>1. /\ AbsentRecord \in JobRecord /\ AbsentRecord.status = "absent"
      /\ AbsentRecord.key = NoKey /\ AbsentRecord.lease_id = NoLease
      /\ AbsentRecord.attempts = <<>> /\ AbsentRecord.revision = 0
  <2> DEFINE f0 == CHOOSE f \in Fingerprint : TRUE
             p == pending_record(NoKey, f0, 0)
  <2>1. f0 \in Fingerprint
    BY StoreAssumption
  <2> HIDE DEF f0
  <2>2. /\ p \in JobRecord /\ p.key = NoKey /\ p.lease_id = NoLease
        /\ p.attempts = <<>>
    BY <2>1 DEF pending_record, JobRecord, JobStatus, NoLease
  <2>3. AbsentRecord = [p EXCEPT !.status = "absent", !.revision = 0]
    BY DEF AbsentRecord, f0
  <2> HIDE DEF p
  <2>4. QED
    BY <2>2, <2>3 DEF JobRecord, JobStatus
<1>2. RecordOK(AbsentRecord, 0)
  BY <1>1 DEF RecordOK, NoLease
<1>3. JobsOK
  BY <1>1, <1>2 DEF StoreInit, JobsOK
<1>4. PublicationsOK
  BY DEF StoreInit, PublicationsOK
<1>5. KeysOK
  BY <1>1 DEF StoreInit, KeysOK, OneJobPerKey
<1>6. LocksOK
  BY DEF StoreInit, LocksOK, NoLock, Lock, NoLease
<1>7. LeasesAreUnique
  BY <1>1 DEF StoreInit, LeasesAreUnique
<1>8. QED
  BY <1>3, <1>4, <1>5, <1>6, <1>7 DEF StoreInv

(* Accepting a job, with its first generation unpublished or already       *)
(* delivered, keeps the inductive invariant.                               *)
LEMMA InsertInv ==
    ASSUME StoreInv, NEW j \in Job, NEW k \in DedupeKey \cup {NoKey},
           NEW f \in Fingerprint, NEW at \in Instant,
           NEW status \in PublicationStatus \ {"claimed"},
           Insert(j, k, f, at, status)
    PROVE  StoreInv'
<1> DEFINE p == pending_record(k, f, at)
<1>1. at \in Nat
  BY StoreAssumption
<1>2. /\ p \in JobRecord /\ p.status = "pending" /\ p.key = k
      /\ p.lease_id = NoLease /\ p.attempts = <<>>
  BY <1>1 DEF pending_record, JobRecord, JobStatus, NoLease
<1>3. jobs' = [jobs EXCEPT ![j] = p] /\ minted' = minted
  BY DEF Insert
<1> HIDE DEF p
<1>4. \A i \in Job : jobs'[i] = IF i = j THEN p ELSE jobs[i]
  BY <1>3 DEF StoreInv, JobsOK
<1>5. RecordOK(p, minted)
  BY <1>2 DEF StoreInv, JobsOK, RecordOK, NoLease
<1>6. JobsOK'
  BY <1>2, <1>3, <1>4, <1>5 DEF StoreInv, JobsOK
<1>7. PublicationsOK'
  BY <1>1, AppendOK DEF StoreInv, Insert
<1>8. LeasesAreUnique'
  BY <1>2, <1>4 DEF StoreInv, LeasesAreUnique
<1>9. LocksOK'
  BY DEF StoreInv, LocksOK, Insert
<1>10. KeysOK'
  <2>1. jobs[j].status = "absent" /\ jobs[j].key = NoKey
    BY DEF Insert, Insertable, StoreInv, KeysOK
  <2>2. \A i \in DedupeKey : fingerprints[i] # j
    BY <2>1, StoreAssumption DEF StoreInv, KeysOK, OneJobPerKey
  <2>3. CASE k = NoKey
    <3>1. fingerprints' = fingerprints
      BY <2>3 DEF Insert
    <3>2. QED
      BY <3>1, <2>1, <2>2, <2>3, <1>2, <1>4, StoreAssumption
         DEF StoreInv, KeysOK, OneJobPerKey
  <2>4. CASE k # NoKey
    <3>1. k \in DedupeKey /\ fingerprints[k] = NoJob
      BY <2>4 DEF Insert, Insertable
    <3>2. fingerprints' = [fingerprints EXCEPT ![k] = j]
      BY <2>4 DEF Insert
    <3>3. fingerprints' \in [DedupeKey -> Job \cup {NoJob}]
      BY <3>2 DEF StoreInv, KeysOK
    <3>4. \A i \in DedupeKey :
             fingerprints'[i] = IF i = k THEN j ELSE fingerprints[i]
      BY <3>2 DEF StoreInv, KeysOK
    <3>5. \A i \in Job : jobs'[i].key # NoKey => fingerprints'[jobs'[i].key] = i
      <4> SUFFICES ASSUME NEW i \in Job, jobs'[i].key # NoKey
                   PROVE  fingerprints'[jobs'[i].key] = i
        OBVIOUS
      <4>1. CASE i = j
        BY <4>1, <1>2, <1>4, <3>1, <3>4
      <4>2. CASE i # j
        <5>1. /\ jobs'[i].key = jobs[i].key /\ jobs[i].key \in DedupeKey
              /\ fingerprints[jobs[i].key] = i
          BY <4>2, <1>4 DEF StoreInv, KeysOK, OneJobPerKey, JobsOK, JobRecord
        <5>2. jobs[i].key # k
          BY <5>1, <3>1, StoreAssumption
        <5>3. QED
          BY <5>1, <5>2, <3>4
      <4>3. QED
        BY <4>1, <4>2
    <3>6. \A i \in DedupeKey : fingerprints'[i] # NoJob =>
             jobs'[fingerprints'[i]].key = i
      BY <3>1, <3>4, <2>2, <1>2, <1>4 DEF StoreInv, KeysOK, OneJobPerKey
    <3>7. QED
      BY <3>3, <3>5, <3>6, <1>2, <1>4 DEF StoreInv, KeysOK, OneJobPerKey
  <2>5. QED
    BY <2>3, <2>4
<1>11. QED
  BY <1>6, <1>7, <1>8, <1>9, <1>10 DEF StoreInv

(* claim_execution keeps the inductive invariant: the fresh lease is no    *)
(* other job's and no attempt's yet.                                       *)
LEMMA ClaimInv ==
    ASSUME StoreInv, NEW j \in Job, NEW expires \in Instant, NEW now \in Instant,
           claim_execution(j, expires, now)
    PROVE  StoreInv'
<1> DEFINE q == Claimed(jobs[j], minted + 1, expires)
<1>1. /\ minted \in Nat /\ minted' = minted + 1 /\ expires \in Nat
      /\ jobs \in [Job -> JobRecord] /\ RecordOK(jobs[j], minted)
  BY StoreAssumption DEF StoreInv, JobsOK, claim_execution, FreshLease
<1>2. RecordOK(q, minted')
  BY <1>1, ClaimOK
<1>3. q.lease_id = minted + 1 /\ q.status = "running" /\ q.key = jobs[j].key
  BY <1>1, ClaimOK
<1>4. jobs' = [jobs EXCEPT ![j] = q]
  BY DEF claim_execution, FreshLease
<1> HIDE DEF q
<1>5. \A i \in Job : jobs'[i] = IF i = j THEN q ELSE jobs[i]
  BY <1>1, <1>4
<1>6. \A i \in Job : RecordOK(jobs[i], minted')
  BY <1>1, RecordOKMonotone DEF StoreInv, JobsOK
<1>7. JobsOK'
  <2>1. q \in JobRecord
    BY <1>2 DEF RecordOK
  <2>2. QED
    BY <2>1, <1>1, <1>2, <1>4, <1>5, <1>6 DEF JobsOK
<1>8. LeasesAreUnique'
  <2>1. \A i \in Job : jobs[i].lease_id \in Nat /\ jobs[i].lease_id <= minted
    BY DEF StoreInv, JobsOK, RecordOK, JobRecord
  <2>2. QED
    BY <2>1, <1>1, <1>3, <1>5 DEF StoreInv, LeasesAreUnique
<1>9. KeysOK'
  <2>1. \A i \in Job : jobs'[i].key = jobs[i].key
    BY <1>3, <1>5
  <2>2. fingerprints' = fingerprints
    BY DEF claim_execution
  <2>3. \A i \in DedupeKey : fingerprints[i] # NoJob => fingerprints[i] \in Job
    BY DEF StoreInv, KeysOK
  <2>4. OneJobPerKey'
    BY <2>1, <2>2, <2>3 DEF StoreInv, KeysOK, OneJobPerKey
  <2>5. \A i \in Job : jobs'[i].status = "absent" =>
           jobs'[i].key = NoKey /\ jobs'[i].revision = 0
    BY <1>3, <1>5 DEF StoreInv, KeysOK
  <2>6. QED
    BY <2>2, <2>4, <2>5 DEF StoreInv, KeysOK
<1>10. PublicationsOK' /\ LocksOK'
  BY DEF StoreInv, PublicationsOK, LocksOK, claim_execution
<1>11. QED
  BY <1>7, <1>8, <1>9, <1>10 DEF StoreInv

(* The record a settling call leaves is the old one with its history grown *)
(* by the lease it ran under.                                              *)
LEMMA SettledFacts ==
    ASSUME StoreInv, NEW j \in Job, NEW lease \in Nat, LeaseHeld(j, lease),
           NEW status \in JobStatus \ {"running", "absent"},
           NEW outcome \in {"succeeded", "retried", "failed_permanently"}
    PROVE  LET q == Settled(jobs[j], status, lease, outcome)
           IN  /\ RecordOK(q, minted)
               /\ q.status = status /\ q.key = jobs[j].key
               /\ q.revision = jobs[j].revision + 1
               /\ q.lease_id = NoLease
<1> DEFINE r == jobs[j]
           t == Transition(r, status)
           h == record_attempt(r, lease, outcome)
           q == Settled(r, status, lease, outcome)
<1>1. /\ r \in JobRecord /\ RecordOK(r, minted) /\ minted \in Nat
      /\ r.status = "running" /\ r.lease_id = lease
  BY DEF StoreInv, JobsOK, LeaseHeld
<1>2. /\ t \in JobRecord /\ t.status = status /\ t.lease_id = NoLease
      /\ t.key = r.key /\ t.revision = r.revision + 1
  BY <1>1, TransitionFacts
<1>3. h \in Seq(JobAttempt) /\ ExtendsHistory(h, r.attempts, lease)
  BY <1>1, RecordAttemptFacts
<1>4. q = [t EXCEPT !.attempts = h]
  BY DEF Settled
<1> HIDE DEF r, t, h, q
<1>5. /\ q \in JobRecord /\ q.status = status /\ q.lease_id = NoLease
      /\ q.key = r.key /\ q.revision = r.revision + 1 /\ q.attempts = h
  BY <1>2, <1>3, <1>4 DEF JobRecord
<1>6. RecordOK(q, minted)
  BY <1>1, <1>3, <1>5, SettleOK
<1>7. QED
  BY <1>5, <1>6 DEF r, q

(* A new availability time disturbs nothing.                               *)
LEMMA AvailableAtFacts ==
    ASSUME NEW m \in Nat, NEW r, RecordOK(r, m), NEW at \in Nat
    PROVE  LET q == [r EXCEPT !.available_at = at]
           IN  /\ RecordOK(q, m)
               /\ q.status = r.status /\ q.key = r.key
               /\ q.revision = r.revision /\ q.lease_id = r.lease_id
               /\ q.available_at = at
<1> DEFINE q == [r EXCEPT !.available_at = at]
<1>1. /\ q \in JobRecord /\ q.status = r.status /\ q.key = r.key
      /\ q.revision = r.revision /\ q.lease_id = r.lease_id
      /\ q.attempts = r.attempts /\ q.available_at = at
  BY DEF RecordOK, JobRecord
<1> HIDE DEF q
<1>2. RecordOK(q, m)
  BY <1>1 DEF RecordOK
<1>3. QED
  BY <1>1, <1>2 DEF q

(* complete and fail_permanently keep the inductive invariant: the lease   *)
(* moves from the record into its attempts.                                *)
LEMMA SettleInv ==
    ASSUME StoreInv, NEW j \in Job, NEW lease \in Nat,
           complete(j, lease) \/ fail_permanently(j, lease)
    PROVE  StoreInv'
<1>1. PICK status \in {"succeeded", "failed_permanently"} :
         /\ LeaseHeld(j, lease)
         /\ jobs' = [jobs EXCEPT ![j] = Settled(jobs[j], status, lease, status)]
         /\ UNCHANGED <<fingerprints, publications, locks, minted>>
  BY DEF complete, fail_permanently
<1>2. status \in JobStatus \ {"running", "absent"}
  BY DEF JobStatus, TerminalStatus
<1> DEFINE q == Settled(jobs[j], status, lease, status)
<1>3. RecordOK(q, minted) /\ q.status = status /\ q.key = jobs[j].key
  BY <1>1, <1>2, SettledFacts
<1> HIDE DEF q
<1>4. JobsOK' /\ KeysOK' /\ LeasesAreUnique'
  BY <1>1, <1>2, <1>3, UpdateOK DEF q
<1>5. PublicationsOK' /\ LocksOK'
  BY <1>1 DEF StoreInv, PublicationsOK, LocksOK
<1>6. QED
  BY <1>4, <1>5 DEF StoreInv

(* schedule_retry_and_publish keeps the inductive invariant: record and    *)
(* new generation change in one step.                                      *)
LEMMA RetryInv ==
    ASSUME StoreInv, NEW j \in Job, NEW lease \in Nat, NEW next \in Instant,
           schedule_retry_and_publish(j, lease, next)
    PROVE  StoreInv'
<1> DEFINE s == Settled(jobs[j], "pending", lease, "retried")
           q == [s EXCEPT !.available_at = next]
<1>1. /\ next \in Nat /\ "pending" \in JobStatus \ {"running", "absent"}
      /\ minted \in Nat
  BY StoreAssumption DEF JobStatus, StoreInv, JobsOK
<1>2. /\ jobs' = [jobs EXCEPT ![j] = q] /\ LeaseHeld(j, lease)
      /\ UNCHANGED <<fingerprints, locks, minted>>
  BY DEF schedule_retry_and_publish
<1>3. RecordOK(s, minted) /\ s.status = "pending" /\ s.key = jobs[j].key
  BY <1>1, <1>2, SettledFacts
<1> HIDE DEF s
<1>4. RecordOK(q, minted) /\ q.status = "pending" /\ q.key = jobs[j].key
  BY <1>1, <1>3, AvailableAtFacts
<1> HIDE DEF q
<1>5. JobsOK' /\ KeysOK' /\ LeasesAreUnique'
  BY <1>2, <1>4, UpdateOK
<1>6. PublicationsOK'
  <2>1. "pending" \in PublicationStatus \ {"claimed"}
    BY DEF PublicationStatus
  <2>2. QED
    BY <1>1, <2>1, AppendOK DEF schedule_retry_and_publish, StoreInv
<1>7. LocksOK'
  BY <1>2 DEF StoreInv, LocksOK
<1>8. QED
  BY <1>5, <1>6, <1>7 DEF StoreInv

(* cancel keeps the inductive invariant.                                   *)
LEMMA CancelInv ==
    ASSUME StoreInv, NEW j \in Job, NEW revision, cancel(j, revision)
    PROVE  StoreInv'
<1> DEFINE q == Transition(jobs[j], "cancelled")
<1>1. /\ jobs[j] \in JobRecord /\ RecordOK(jobs[j], minted) /\ minted \in Nat
      /\ "cancelled" \in JobStatus
  BY DEF StoreInv, JobsOK, JobStatus, TerminalStatus
<1>2. /\ q \in JobRecord /\ q.status = "cancelled" /\ q.lease_id = NoLease
      /\ q.attempts = jobs[j].attempts /\ q.key = jobs[j].key
  BY <1>1, TransitionFacts
<1>3. /\ jobs' = [jobs EXCEPT ![j] = q]
      /\ UNCHANGED <<fingerprints, publications, locks, minted>>
  BY DEF cancel
<1> HIDE DEF q
<1>4. RecordOK(q, minted)
  BY <1>1, <1>2, ReopenOK
<1>5. JobsOK' /\ KeysOK' /\ LeasesAreUnique'
  BY <1>2, <1>3, <1>4, UpdateOK
<1>6. QED
  BY <1>3, <1>5 DEF StoreInv, PublicationsOK, LocksOK

(* A record that is opened again for a fresh run (retry_failed) or after   *)
(* its lease expired (RecoverLeases).                                      *)
LEMMA ReopenedFacts ==
    ASSUME NEW m \in Nat, NEW r, RecordOK(r, m), NEW at \in Nat
    PROVE  LET q == Reopened(r, at)
           IN  /\ RecordOK(q, m)
               /\ q.status = "pending" /\ q.key = r.key
               /\ q.revision = r.revision + 1 /\ q.lease_id = NoLease
<1> DEFINE t == Transition(r, "pending")
           q == Reopened(r, at)
<1>1. r \in JobRecord /\ "pending" \in JobStatus
  BY DEF RecordOK, JobStatus
<1>2. /\ t \in JobRecord /\ t.status = "pending" /\ t.lease_id = NoLease
      /\ t.attempts = r.attempts /\ t.key = r.key /\ t.revision = r.revision + 1
  BY <1>1, TransitionFacts
<1>3. q = [t EXCEPT !.available_at = at]
  BY DEF Reopened
<1> HIDE DEF t, q
<1>4. /\ q \in JobRecord /\ q.status = "pending" /\ q.lease_id = NoLease
      /\ q.attempts = r.attempts /\ q.key = r.key /\ q.revision = r.revision + 1
  BY <1>2, <1>3 DEF JobRecord
<1>5. RecordOK(q, m)
  BY <1>4, ReopenOK
<1>6. QED
  BY <1>4, <1>5 DEF q

(* retry_failed keeps the inductive invariant: the reopened job gets a     *)
(* generation of its own.                                                  *)
LEMMA RetryFailedInv ==
    ASSUME StoreInv, NEW j \in Job, NEW revision, NEW now \in Instant,
           retry_failed(j, revision, now)
    PROVE  StoreInv'
<1> DEFINE t == Reopened(jobs[j], now)
           q == [t EXCEPT !.attempt_count = 0]
<1>1. RecordOK(jobs[j], minted) /\ minted \in Nat /\ now \in Nat
  BY StoreAssumption DEF StoreInv, JobsOK
<1>2. /\ RecordOK(t, minted) /\ t.status = "pending" /\ t.key = jobs[j].key
      /\ t.lease_id = NoLease
  BY <1>1, ReopenedFacts
<1>3. jobs' = [jobs EXCEPT ![j] = q] /\ UNCHANGED <<fingerprints, locks, minted>>
  BY DEF retry_failed
<1> HIDE DEF t
<1>4. RecordOK(q, minted) /\ q.status = "pending" /\ q.key = jobs[j].key
  <2>1. /\ q \in JobRecord /\ q.status = "pending" /\ q.key = jobs[j].key
        /\ q.lease_id = NoLease /\ q.attempts = t.attempts
    BY <1>2 DEF RecordOK, JobRecord
  <2> HIDE DEF q
  <2>2. QED
    BY <1>1, <1>2, <2>1, ReopenOK
<1> HIDE DEF q
<1>5. JobsOK' /\ KeysOK' /\ LeasesAreUnique'
  BY <1>4, <1>3, UpdateOK
<1>6. PublicationsOK'
  <2>1. "pending" \in PublicationStatus \ {"claimed"}
    BY DEF PublicationStatus
  <2>2. QED
    BY <1>1, <2>1, AppendOK DEF retry_failed, StoreInv
<1>7. QED
  BY <1>3, <1>5, <1>6 DEF StoreInv, LocksOK

(* Recovering leases keeps the inductive invariant, whichever set of jobs  *)
(* it reopens.                                                             *)
LEMMA RecoverLeasesInv ==
    ASSUME StoreInv, NEW now \in Instant, NEW expired, RecoverLeases(expired, now)
    PROVE  StoreInv'
<1> DEFINE q(j) == Reopened(jobs[j], now)
           ps(j) == insert_publication(j, now, "pending")
<1>1. /\ jobs' = [j \in Job |-> IF j \in expired THEN q(j) ELSE jobs[j]]
      /\ publications' = [j \in Job |->
                             IF j \in expired THEN ps(j) ELSE publications[j]]
      /\ UNCHANGED <<fingerprints, locks, minted>>
  BY DEF RecoverLeases
<1>2. /\ minted \in Nat /\ now \in Nat
      /\ "pending" \in PublicationStatus \ {"claimed"}
      /\ \A j \in Job : RecordOK(jobs[j], minted)
  BY StoreAssumption DEF StoreInv, JobsOK, PublicationStatus
<1>3. \A j \in Job : /\ RecordOK(q(j), minted)
                     /\ q(j).status = "pending" /\ q(j).key = jobs[j].key
  BY <1>2, ReopenedFacts
<1>4. \A j \in Job : /\ ps(j) \in Seq(JobPublication)
                     /\ \A g \in 1..Len(ps(j)) : PublicationOK(ps(j)[g])
  BY <1>2, InsertPublicationFacts DEF StoreInv
<1> HIDE DEF q, ps
<1>5. \A j \in Job : /\ RecordOK(jobs'[j], minted') /\ jobs'[j] \in JobRecord
                     /\ jobs'[j].key = jobs[j].key
                     /\ jobs'[j] = jobs[j] \/ jobs'[j].status = "pending"
  BY <1>1, <1>2, <1>3 DEF RecordOK
<1>6. JobsOK'
  BY <1>1, <1>2, <1>5 DEF JobsOK
<1>7. PublicationsOK'
  <2>1. \A j \in Job : publications'[j] = IF j \in expired THEN ps(j)
                                           ELSE publications[j]
    BY <1>1
  <2>2. QED
    BY <1>1, <1>4, <2>1 DEF StoreInv, PublicationsOK
<1>8. LeasesAreUnique'
  BY <1>5 DEF StoreInv, LeasesAreUnique
<1>9. KeysOK'
  <2>1. \A i \in DedupeKey : fingerprints[i] # NoJob => fingerprints[i] \in Job
    BY DEF StoreInv, KeysOK
  <2>2. OneJobPerKey'
    BY <1>1, <1>5, <2>1 DEF StoreInv, KeysOK, OneJobPerKey
  <2>3. \A j \in Job : jobs'[j].status = "absent" =>
           jobs'[j].key = NoKey /\ jobs'[j].revision = 0
    BY <1>5 DEF StoreInv, KeysOK
  <2>4. QED
    BY <1>1, <2>2, <2>3 DEF StoreInv, KeysOK
<1>10. QED
  BY <1>1, <1>6, <1>7, <1>8, <1>9 DEF StoreInv, LocksOK

(* Nothing but the publications changes.                                   *)
LEMMA PublicationFrame ==
    ASSUME StoreInv, PublicationsOK', minted' \in Nat, minted' \in {minted, minted + 1},
           UNCHANGED <<jobs, fingerprints, locks>>
    PROVE  StoreInv'
<1>1. \A j \in Job : RecordOK(jobs[j], minted')
  BY RecordOKMonotone DEF StoreInv, JobsOK
<1>2. JobsOK'
  BY <1>1 DEF StoreInv, JobsOK
<1>3. QED
  BY <1>2 DEF StoreInv, KeysOK, OneJobPerKey, LocksOK, LeasesAreUnique

(* A generation that is claimed, or that gives its claim up.               *)
LEMMA ClaimedPublicationOK ==
    ASSUME NEW p \in JobPublication, NEW lease \in Nat, NEW expires \in Nat,
           NEW status \in PublicationStatus, status = "claimed" <=> lease # NoLease
    PROVE  PublicationOK(PublicationUnder(p, status, lease, expires))
BY DEF PublicationOK, PublicationUnder, JobPublication

(* A rewriting of generations, none added and none dropped.                *)
LEMMA RewriteOK ==
    ASSUME PublicationsOK,
           publications' = [j \in Job |-> publications'[j]],
           \A j \in Job :
              /\ publications'[j] = [g \in 1..Len(publications[j]) |-> publications'[j][g]]
              /\ \A g \in 1..Len(publications[j]) : PublicationOK(publications'[j][g])
    PROVE  PublicationsOK'
<1>1. \A j \in Job : Len(publications[j]) \in Nat
  BY DEF PublicationsOK
<1>2. ASSUME NEW j \in Job
      PROVE  /\ publications'[j] \in Seq(JobPublication)
             /\ \A g \in 1..Len(publications'[j]) : PublicationOK(publications'[j][g])
  <2> DEFINE ps == publications'[j]
             n == Len(publications[j])
  <2>1. /\ ps = [g \in 1..n |-> ps[g]] /\ n \in Nat
        /\ \A g \in 1..n : PublicationOK(ps[g])
    BY <1>1
  <2> HIDE DEF ps, n
  <2>2. \A g \in 1..n : ps[g] \in JobPublication
    BY <2>1 DEF PublicationOK
  <2>3. ps \in Seq(JobPublication) /\ Len(ps) = n
    BY <2>1, <2>2
  <2>4. QED
    BY <2>1, <2>3 DEF ps
<1>3. QED
  BY <1>2 DEF PublicationsOK

(* claim_due keeps the inductive invariant for every batch it may pick.    *)
LEMMA ClaimDueInv ==
    ASSUME StoreInv, NEW batch, NEW limit, NEW expires \in Instant,
           NEW now \in Instant, claim_due(batch, limit, expires, now)
    PROVE  StoreInv'
<1> DEFINE new(j, g) == IF <<j, g>> \in batch
                        THEN PublicationUnder(publications[j][g], "claimed",
                                              FreshLease, expires)
                        ELSE publications[j][g]
<1>1. /\ publications' = [j \in Job |->
                             [g \in 1..Len(publications[j]) |-> new(j, g)]]
      /\ minted' = minted + 1 /\ UNCHANGED <<jobs, fingerprints, locks>>
  BY DEF claim_due, FreshLease
<1>2. /\ FreshLease \in Nat /\ FreshLease # NoLease /\ minted + 1 \in Nat
      /\ expires \in Nat /\ "claimed" \in PublicationStatus
  BY StoreAssumption DEF StoreInv, JobsOK, FreshLease, NoLease, PublicationStatus
<1>3. ASSUME NEW j \in Job, NEW g \in 1..Len(publications[j])
      PROVE  PublicationOK(new(j, g))
  <2>1. PublicationOK(publications[j][g]) /\ publications[j][g] \in JobPublication
    BY DEF StoreInv, PublicationsOK, PublicationOK
  <2>2. PublicationOK(PublicationUnder(publications[j][g], "claimed",
                                       FreshLease, expires))
    BY <2>1, <1>2, ClaimedPublicationOK
  <2>3. QED
    BY <2>1, <2>2
<1> HIDE DEF new
<1>4. PublicationsOK'
  <2>1. \A j \in Job :
           /\ publications'[j] = [g \in 1..Len(publications[j]) |-> publications'[j][g]]
           /\ \A g \in 1..Len(publications[j]) : PublicationOK(publications'[j][g])
    BY <1>1, <1>3
  <2>2. publications' = [j \in Job |-> publications'[j]]
    BY <1>1
  <2>3. QED
    BY <2>1, <2>2, RewriteOK DEF StoreInv
<1>5. QED
  BY <1>1, <1>2, <1>4, PublicationFrame

(* Recovering claims keeps the inductive invariant, whichever it gives up. *)
LEMMA RecoverClaimsInv ==
    ASSUME StoreInv, NEW now \in Instant, NEW expired, RecoverClaims(expired, now)
    PROVE  StoreInv'
<1> DEFINE new(j, g) == IF <<j, g>> \in expired
                        THEN PublicationUnder(publications[j][g], "pending", NoLease, 0)
                        ELSE publications[j][g]
<1>1. /\ publications' = [j \in Job |->
                             [g \in 1..Len(publications[j]) |-> new(j, g)]]
      /\ UNCHANGED <<jobs, fingerprints, locks, minted>>
  BY DEF RecoverClaims
<1>2. NoLease \in Nat /\ 0 \in Nat /\ "pending" \in PublicationStatus
  BY DEF NoLease, PublicationStatus
<1>3. ASSUME NEW j \in Job, NEW g \in 1..Len(publications[j])
      PROVE  PublicationOK(new(j, g))
  <2>1. PublicationOK(publications[j][g]) /\ publications[j][g] \in JobPublication
    BY DEF StoreInv, PublicationsOK, PublicationOK
  <2>2. PublicationOK(PublicationUnder(publications[j][g], "pending", NoLease, 0))
    BY <2>1, <1>2, ClaimedPublicationOK
  <2>3. QED
    BY <2>1, <2>2
<1> HIDE DEF new
<1>4. PublicationsOK'
  <2>1. \A j \in Job :
           /\ publications'[j] = [g \in 1..Len(publications[j]) |-> publications'[j][g]]
           /\ \A g \in 1..Len(publications[j]) : PublicationOK(publications'[j][g])
    BY <1>1, <1>3
  <2>2. publications' = [j \in Job |-> publications'[j]]
    BY <1>1
  <2>3. QED
    BY <2>1, <2>2, RewriteOK DEF StoreInv
<1>5. minted' \in Nat /\ minted' = minted
  BY <1>1 DEF StoreInv, JobsOK
<1>6. QED
  BY <1>1, <1>4, <1>5, PublicationFrame

(* mark_published and mark_failed keep the inductive invariant: they       *)
(* change one generation and no record.                                    *)
LEMMA MarkInv ==
    ASSUME StoreInv, NEW j \in Job, NEW g \in 1..Len(publications[j]),
           NEW lease,
           \/ mark_published(j, g, lease)
           \/ \E retry_at \in Instant : mark_failed(j, g, lease, retry_at)
    PROVE  StoreInv'
<1>1. /\ publications \in [Job -> Seq(JobPublication)]
      /\ publications[j] \in Seq(JobPublication)
      /\ publications[j][g].available_at \in Nat
      /\ Instant \subseteq Nat
  <2>1. publications[j][g] \in JobPublication
    BY DEF StoreInv, PublicationsOK, PublicationOK
  <2>2. QED
    BY <2>1, StoreAssumption DEF StoreInv, PublicationsOK, JobPublication
<1>2. PICK status \in {"published", "failed"}, at \in Nat :
         ReleasePublication(j, g, status, at)
  BY <1>1 DEF mark_published, mark_failed
<1> DEFINE p == [status |-> status, available_at |-> at,
                 lease_id |-> NoLease, claim_expires_at |-> 0]
<1>3. p \in JobPublication /\ PublicationOK(p)
  BY DEF JobPublication, PublicationStatus, PublicationOK, NoLease
<1>4. publications' = [publications EXCEPT ![j][g] = p]
  BY <1>2 DEF ReleasePublication
<1> HIDE DEF p
<1>5. /\ publications' = [publications EXCEPT ![j] = [publications[j] EXCEPT ![g] = p]]
      /\ [publications[j] EXCEPT ![g] = p] \in Seq(JobPublication)
      /\ Len([publications[j] EXCEPT ![g] = p]) = Len(publications[j])
      /\ \A i \in 1..Len(publications[j]) :
            [publications[j] EXCEPT ![g] = p][i] =
                IF i = g THEN p ELSE publications[j][i]
  BY <1>1, <1>3, <1>4
<1>6. PublicationsOK'
  <2> DEFINE ps == [publications[j] EXCEPT ![g] = p]
  <2>1. \A i \in 1..Len(ps) : PublicationOK(ps[i])
    BY <1>3, <1>5 DEF StoreInv, PublicationsOK
  <2>2. publications' = [publications EXCEPT ![j] = ps] /\ ps \in Seq(JobPublication)
    BY <1>5
  <2> HIDE DEF ps
  <2>3. \A i \in Job : publications'[i] = IF i = j THEN ps ELSE publications[i]
    BY <1>1, <2>2
  <2>4. publications' \in [Job -> Seq(JobPublication)]
    BY <1>1, <2>2
  <2>5. QED
    BY <2>1, <2>3, <2>4 DEF StoreInv, PublicationsOK
<1>7. UNCHANGED <<jobs, fingerprints, locks, minted>> /\ minted \in Nat
  BY DEF mark_published, mark_failed, StoreInv, JobsOK
<1>8. QED
  BY <1>6, <1>7, PublicationFrame

(* The overlap-lock operations keep the inductive invariant: they touch no *)
(* job and mint no lease.                                                  *)
LEMMA LockInv ==
    ASSUME StoreInv, LockNext
    PROVE  StoreInv'
<1>1. NoLock \in Lock
  BY DEF NoLock, Lock, NoLease
<1>2. locks' \in [OverlapKey -> Lock]
      /\ UNCHANGED <<jobs, fingerprints, publications, minted>>
  <2>1. ASSUME NEW k \in OverlapKey, NEW lease \in 1..minted,
               NEW expires \in Instant,
               SetLock(k, [owner |-> lease, expires_at |-> expires])
        PROVE  locks' \in [OverlapKey -> Lock]
               /\ UNCHANGED <<jobs, fingerprints, publications, minted>>
    <3>1. [owner |-> lease, expires_at |-> expires] \in Lock
      BY StoreAssumption DEF StoreInv, JobsOK, Lock
    <3>2. QED
      BY <2>1, <3>1 DEF SetLock, StoreInv, LocksOK
  <2>2. ASSUME NEW k \in OverlapKey, SetLock(k, NoLock)
        PROVE  locks' \in [OverlapKey -> Lock]
               /\ UNCHANGED <<jobs, fingerprints, publications, minted>>
    BY <2>2, <1>1 DEF SetLock, StoreInv, LocksOK
  <2>3. ASSUME NEW now \in Instant, NEW expired, RecoverLocks(expired, now)
        PROVE  locks' \in [OverlapKey -> Lock]
               /\ UNCHANGED <<jobs, fingerprints, publications, minted>>
    BY <2>3, <1>1 DEF RecoverLocks, StoreInv, LocksOK
  <2>4. QED
    BY <2>1, <2>2, <2>3 DEF LockNext, acquire, refresh, release
<1>3. QED
  BY <1>2 DEF StoreInv, JobsOK, PublicationsOK, KeysOK, OneJobPerKey, LocksOK,
              LeasesAreUnique

(* Any step of the store.                                                  *)
LEMMA StepInv == StoreInv /\ [StoreNext]_storeVars => StoreInv'
<1> SUFFICES ASSUME StoreInv, [StoreNext]_storeVars PROVE StoreInv'
  OBVIOUS
<1>1. CASE SubmitNext
  <2>1. "pending" \in PublicationStatus \ {"claimed"}
        /\ "published" \in PublicationStatus \ {"claimed"}
    BY DEF PublicationStatus
  <2>2. QED
    BY <1>1, <2>1, InsertInv
       DEF SubmitNext, enqueue_with_intent, ingest_existing_delivery
<1>2. CASE ExecutionNext
  <2>1. 1..minted \subseteq Nat
    BY DEF StoreInv, JobsOK
  <2>2. QED
    BY <1>2, <2>1, ClaimInv, SettleInv, RetryInv DEF ExecutionNext
<1>3. CASE OperatorNext
  BY <1>3, CancelInv, RetryFailedInv, RecoverLeasesInv DEF OperatorNext
<1>4. CASE PublicationNext
  BY <1>4, ClaimDueInv, MarkInv, RecoverClaimsInv DEF PublicationNext
<1>5. CASE LockNext
  BY <1>5, LockInv
<1>6. CASE UNCHANGED storeVars
  BY <1>6 DEF storeVars, StoreInv, JobsOK, PublicationsOK, KeysOK, OneJobPerKey,
              LocksOK, LeasesAreUnique
<1>7. QED
  BY <1>1, <1>2, <1>3, <1>4, <1>5, <1>6 DEF StoreNext

-----------------------------------------------------------------------------
(* The theorems.                                                           *)

(* The inductive invariant holds in every state of the store.              *)
THEOREM StoreInvariant == StoreSpec => []StoreInv
<1>1. StoreInit => StoreInv
  BY InitInv
<1>2. StoreInv /\ [StoreNext]_storeVars => StoreInv'
  BY StepInv
<1>3. QED
  BY <1>1, <1>2, PTL DEF StoreSpec

(* Type correctness: the records, generations and locks keep the shapes of *)
(* ports.rs under every port method.                                       *)
THEOREM TypeCorrect == StoreSpec => []TypeOK
<1>1. StoreInv => TypeOK
  BY DEF StoreInv, JobsOK, PublicationsOK, KeysOK, LocksOK, TypeOK
<1>2. QED
  BY <1>1, StoreInvariant, PTL

(* claim_execution, the settling calls and lease recovery keep a lease on  *)
(* a record exactly while it is running.                                   *)
THEOREM LeaseOnlyWhileRunning == StoreSpec => []RunningIffLeased
<1>1. StoreInv => RunningIffLeased
  BY DEF StoreInv, JobsOK, RecordOK, RunningIffLeased
<1>2. QED
  BY <1>1, StoreInvariant, PTL

(* record_attempt never lists a lease twice, nor one that is older than    *)
(* the entry before it: a claim settles its job at most once.              *)
THEOREM LeaseSettlesOnce == StoreSpec => []EachLeaseSettlesOnce
<1>1. StoreInv => EachLeaseSettlesOnce
  BY DEF StoreInv, JobsOK, RecordOK, EachLeaseSettlesOnce
<1>2. QED
  BY <1>1, StoreInvariant, PTL

(* Two running jobs never share a lease, which is all an overlap lock      *)
(* knows of its owner.                                                     *)
THEOREM LeaseNamesOneJob == StoreSpec => []LeasesAreUnique
<1>1. StoreInv => LeasesAreUnique
  BY DEF StoreInv
<1>2. QED
  BY <1>1, StoreInvariant, PTL

(* enqueue_with_intent and ingest_existing_delivery store one job under a  *)
(* dedupe key, and the index never points anywhere else.                   *)
THEOREM KeyNamesOneJob == StoreSpec => []OneJobPerKey
<1>1. StoreInv => OneJobPerKey
  BY DEF StoreInv, KeysOK
<1>2. QED
  BY <1>1, StoreInvariant, PTL

(* claim_due, the two marks and claim recovery keep a lease on a           *)
(* generation exactly while it is claimed.                                 *)
THEOREM LeaseOnlyWhileClaimed == StoreSpec => []ClaimedIffLeased
<1>1. StoreInv => ClaimedIffLeased
  BY DEF StoreInv, PublicationsOK, PublicationOK, ClaimedIffLeased
<1>2. QED
  BY <1>1, StoreInvariant, PTL

(* Executions and publications alike: a lease is there exactly while it is *)
(* held, whatever is settled late, recovered or rerun.                     *)
THEOREM LeaseOnlyWhileHeld == StoreSpec => []LeasesFollowStatus
  BY LeaseOnlyWhileRunning, LeaseOnlyWhileClaimed, PTL DEF LeasesFollowStatus

-----------------------------------------------------------------------------
(* What a step may never do.                                               *)

(* Every generation that was published is what it was.                     *)
PublishedKept ==
    \A j \in Job : \A g \in 1..Len(publications[j]) :
        publications[j][g].status = "published" =>
            publications'[j][g] = publications[j][g]

(* Adding a generation keeps the earlier ones.                             *)
LEMMA AppendKeepsPublished ==
    ASSUME StoreInv, NEW j \in Job, NEW at \in Instant,
           NEW status \in PublicationStatus \ {"claimed"},
           publications' = [publications EXCEPT
                               ![j] = insert_publication(j, at, status)]
    PROVE  PublishedKept
<1> DEFINE ps == insert_publication(j, at, status)
<1>1. \A g \in 1..Len(publications[j]) : ps[g] = publications[j][g]
  BY InsertPublicationFacts, StoreAssumption DEF StoreInv
<1>2. publications' = [publications EXCEPT ![j] = ps]
  OBVIOUS
<1> HIDE DEF ps
<1>3. \A i \in Job : publications'[i] = IF i = j THEN ps ELSE publications[i]
  BY <1>2 DEF StoreInv, PublicationsOK
<1>4. QED
  BY <1>1, <1>3 DEF PublishedKept

(* So does every step: claims and marks touch only generations that are    *)
(* due or claimed, and a claimed one is the only kind that has a lease.    *)
LEMMA StepKeepsPublished ==
    ASSUME StoreInv, [StoreNext]_storeVars
    PROVE  PublishedKept
<1>1. {"pending", "published"} \subseteq PublicationStatus \ {"claimed"}
  BY DEF PublicationStatus
<1>2. CASE SubmitNext
  BY <1>1, <1>2, AppendKeepsPublished
     DEF SubmitNext, enqueue_with_intent, ingest_existing_delivery, Insert
<1>3. CASE publications' = publications
  BY <1>3 DEF PublishedKept
<1>4. CASE ExecutionNext
  BY <1>1, <1>3, <1>4, AppendKeepsPublished
     DEF ExecutionNext, claim_execution, complete, fail_permanently,
         schedule_retry_and_publish
<1>5. CASE OperatorNext
  <2>1. ASSUME NEW now \in Instant, NEW expired, RecoverLeases(expired, now)
        PROVE  PublishedKept
    <3> DEFINE ps(j) == insert_publication(j, now, "pending")
    <3>1. \A j \in Job : \A g \in 1..Len(publications[j]) :
             ps(j)[g] = publications[j][g]
      BY <1>1, InsertPublicationFacts, StoreAssumption DEF StoreInv
    <3>2. \A j \in Job : publications'[j] = ps(j) \/ publications'[j] = publications[j]
      BY <2>1 DEF RecoverLeases
    <3> HIDE DEF ps
    <3>3. QED
      BY <3>1, <3>2 DEF PublishedKept
  <2>2. QED
    BY <1>1, <1>3, <1>5, <2>1, AppendKeepsPublished
       DEF OperatorNext, cancel, retry_failed
<1>6. CASE PublicationNext
  <2>1. ASSUME NEW batch, NEW limit, NEW expires \in Instant, NEW now \in Instant,
               claim_due(batch, limit, expires, now)
        PROVE  PublishedKept
    <3> SUFFICES ASSUME NEW j \in Job, NEW g \in 1..Len(publications[j]),
                        publications[j][g].status = "published"
                 PROVE  publications'[j][g] = publications[j][g]
      BY DEF PublishedKept
    <3>1. ~Due(Publication(<<j, g>>), now)
      BY DEF Due, ClaimExpired, Publication
    <3>2. <<j, g>> \notin batch
      BY <3>1, <2>1 DEF claim_due
    <3>3. QED
      BY <3>2, <2>1 DEF claim_due
  <2>2. ASSUME NEW j \in Job, NEW g \in 1..Len(publications[j]),
               NEW lease \in 1..minted,
               \/ mark_published(j, g, lease)
               \/ \E retry_at \in Instant : mark_failed(j, g, lease, retry_at)
        PROVE  PublishedKept
    <3>1. publications[j][g].lease_id # NoLease
      BY <2>2 DEF StoreInv, JobsOK, NoLease, mark_published, mark_failed
    <3>2. publications[j][g].status # "published"
      BY <3>1 DEF StoreInv, PublicationsOK, PublicationOK
    <3>3. PICK q : publications' = [publications EXCEPT ![j][g] = q]
      BY <2>2 DEF mark_published, mark_failed, ReleasePublication
    <3>4. \A i \in Job : \A n \in 1..Len(publications[i]) :
             (i # j \/ n # g) => publications'[i][n] = publications[i][n]
      BY <3>3 DEF StoreInv, PublicationsOK
    <3>5. QED
      BY <3>2, <3>4 DEF PublishedKept
  <2>3. ASSUME NEW now \in Instant, NEW expired, RecoverClaims(expired, now)
        PROVE  PublishedKept
    <3> SUFFICES ASSUME NEW j \in Job, NEW g \in 1..Len(publications[j]),
                        publications[j][g].status = "published"
                 PROVE  publications'[j][g] = publications[j][g]
      BY DEF PublishedKept
    <3>1. <<j, g>> \notin expired
      BY <2>3 DEF RecoverClaims, ExpiredClaims, ClaimExpired, Publication
    <3>2. QED
      BY <2>3, <3>1 DEF RecoverClaims
  <2>4. QED
    BY <1>6, <2>1, <2>2, <2>3 DEF PublicationNext
<1>7. CASE LockNext \/ UNCHANGED storeVars
  BY <1>3, <1>7 DEF LockNext, acquire, refresh, release, RecoverLocks, SetLock,
                    storeVars
<1>8. QED
  BY <1>2, <1>4, <1>5, <1>6, <1>7 DEF StoreNext

(* mark_published is final: no dispatcher, however late, changes or        *)
(* reclaims a generation that was acknowledged.                            *)
THEOREM PublishedStaysPublished == StoreSpec => PublishedIsFinal
<1>1. StoreInv /\ [StoreNext]_storeVars => [PublishedKept]_storeVars
  BY StepKeepsPublished
<1>2. QED
  BY <1>1, StoreInvariant, PTL DEF StoreSpec, PublishedIsFinal, PublishedKept

(* A record that changed has the next revision.                            *)
RevisionMoves ==
    \A j \in Job :
        jobs'[j] # jobs[j] => jobs'[j].revision = jobs[j].revision + 1

(* A step that rewrites one record moves its revision.                     *)
LEMMA UpdateMovesRevision ==
    ASSUME StoreInv, NEW j \in Job, NEW q, jobs' = [jobs EXCEPT ![j] = q],
           q.revision = jobs[j].revision + 1
    PROVE  RevisionMoves
BY DEF StoreInv, JobsOK, RevisionMoves

(* Every step of the store either leaves a job record as it is or moves    *)
(* its revision on.                                                        *)
LEMMA StepMovesRevision ==
    ASSUME StoreInv, [StoreNext]_storeVars
    PROVE  RevisionMoves
<1>1. /\ minted \in Nat /\ Instant \subseteq Nat
      /\ \A j \in Job : RecordOK(jobs[j], minted) /\ jobs[j] \in JobRecord
  BY StoreAssumption DEF StoreInv, JobsOK
<1>2. CASE jobs' = jobs
  BY <1>2 DEF RevisionMoves
<1>3. CASE SubmitNext
  <2>1. PICK j \in Job, k \in DedupeKey \cup {NoKey}, f \in Fingerprint, at \in Instant :
           /\ jobs[j].status = "absent"
           /\ jobs' = [jobs EXCEPT ![j] = pending_record(k, f, at)]
    BY <1>3 DEF SubmitNext, enqueue_with_intent, ingest_existing_delivery, Insert,
                Insertable
  <2>2. pending_record(k, f, at).revision = jobs[j].revision + 1
    <3>1. jobs[j].revision = 0
      BY <2>1 DEF StoreInv, KeysOK
    <3>2. QED
      BY <3>1 DEF pending_record
  <2>3. QED
    BY <2>1, <2>2, UpdateMovesRevision
<1>4. CASE ExecutionNext
  <2>1. ASSUME NEW j \in Job, NEW expires \in Instant, NEW now \in Instant,
               claim_execution(j, expires, now)
        PROVE  RevisionMoves
    <3>1. Claimed(jobs[j], minted + 1, expires).revision = jobs[j].revision + 1
      <4>1. expires \in Nat /\ RecordOK(jobs[j], minted)
        BY <1>1
      <4>2. QED
        BY <4>1, <1>1, ClaimOK
    <3>2. jobs' = [jobs EXCEPT ![j] = Claimed(jobs[j], minted + 1, expires)]
      BY <2>1 DEF claim_execution, FreshLease
    <3>3. QED
      BY <3>1, <3>2, UpdateMovesRevision
  <2>2. ASSUME NEW j \in Job, NEW lease \in 1..minted,
               complete(j, lease) \/ fail_permanently(j, lease)
        PROVE  RevisionMoves
    <3>1. PICK status \in {"succeeded", "failed_permanently"} :
             /\ LeaseHeld(j, lease)
             /\ jobs' = [jobs EXCEPT ![j] = Settled(jobs[j], status, lease, status)]
      BY <2>2 DEF complete, fail_permanently
    <3>2. status \in JobStatus \ {"running", "absent"} /\ lease \in Nat
      BY <1>1 DEF JobStatus, TerminalStatus
    <3>3. Settled(jobs[j], status, lease, status).revision = jobs[j].revision + 1
      BY <3>1, <3>2, SettledFacts
    <3>4. QED
      BY <3>1, <3>3, UpdateMovesRevision
  <2>3. ASSUME NEW j \in Job, NEW lease \in 1..minted, NEW next \in Instant,
               schedule_retry_and_publish(j, lease, next)
        PROVE  RevisionMoves
    <3> DEFINE t == Settled(jobs[j], "pending", lease, "retried")
               q == [t EXCEPT !.available_at = next]
    <3>1. LeaseHeld(j, lease) /\ jobs' = [jobs EXCEPT ![j] = q]
      BY <2>3 DEF schedule_retry_and_publish
    <3>2. /\ "pending" \in JobStatus \ {"running", "absent"} /\ lease \in Nat
          /\ next \in Nat
      BY <1>1 DEF JobStatus
    <3>3. RecordOK(t, minted) /\ t.revision = jobs[j].revision + 1
      BY <3>1, <3>2, SettledFacts
    <3> HIDE DEF t
    <3>4. q.revision = jobs[j].revision + 1
      BY <1>1, <3>2, <3>3, AvailableAtFacts
    <3> HIDE DEF q
    <3>5. QED
      BY <3>1, <3>4, UpdateMovesRevision
  <2>4. QED
    BY <1>4, <2>1, <2>2, <2>3 DEF ExecutionNext
<1>5. CASE OperatorNext
  <2>1. ASSUME NEW j \in Job, NEW revision, cancel(j, revision)
        PROVE  RevisionMoves
    <3>1. jobs' = [jobs EXCEPT ![j] = Transition(jobs[j], "cancelled")]
      BY <2>1 DEF cancel
    <3>2. Transition(jobs[j], "cancelled").revision = jobs[j].revision + 1
      BY <1>1, TransitionFacts DEF JobStatus, TerminalStatus
    <3>3. QED
      BY <3>1, <3>2, UpdateMovesRevision
  <2>2. ASSUME NEW j \in Job, NEW revision, NEW now \in Instant,
               retry_failed(j, revision, now)
        PROVE  RevisionMoves
    <3> DEFINE t == Reopened(jobs[j], now)
               q == [t EXCEPT !.attempt_count = 0]
    <3>1. jobs' = [jobs EXCEPT ![j] = q]
      BY <2>2 DEF retry_failed
    <3>2. RecordOK(t, minted) /\ t.revision = jobs[j].revision + 1
      BY <1>1, ReopenedFacts
    <3> HIDE DEF t
    <3>3. q.revision = jobs[j].revision + 1
      BY <3>2 DEF RecordOK, JobRecord
    <3> HIDE DEF q
    <3>4. QED
      BY <3>1, <3>3, UpdateMovesRevision
  <2>3. ASSUME NEW now \in Instant, NEW expired, RecoverLeases(expired, now)
        PROVE  RevisionMoves
    <3>1. \A j \in Job : Reopened(jobs[j], now).revision = jobs[j].revision + 1
      BY <1>1, ReopenedFacts
    <3>2. \A j \in Job : jobs'[j] = Reopened(jobs[j], now) \/ jobs'[j] = jobs[j]
      BY <2>3 DEF RecoverLeases
    <3>3. QED
      BY <3>1, <3>2 DEF RevisionMoves
  <2>4. QED
    BY <1>5, <2>1, <2>2, <2>3 DEF OperatorNext
<1>6. CASE PublicationNext \/ LockNext \/ UNCHANGED storeVars
  BY <1>2, <1>6
     DEF PublicationNext, claim_due, mark_published, mark_failed,
         RecoverClaims, LockNext, acquire, refresh, release,
         RecoverLocks, SetLock, storeVars
<1>7. QED
  BY <1>3, <1>4, <1>5, <1>6 DEF StoreNext

(* Every write of a record bumps its revision by one, so cancel and        *)
(* retry_failed act on exactly the record the operator inspected.          *)
THEOREM RevisionIsCurrent == StoreSpec => RevisionNamesState
<1>1. StoreInv /\ [StoreNext]_storeVars => [RevisionMoves]_storeVars
  BY StepMovesRevision
<1>2. QED
  BY <1>1, StoreInvariant, PTL DEF StoreSpec, RevisionNamesState, RevisionMoves

-----------------------------------------------------------------------------
(* The store implements the lifecycle.                                     *)

phaseOf == [j \in Job |-> jobs[j].status]
holderOf == [j \in Job |-> jobs[j].lease_id]
intentsOf == [j \in Job |-> Len(publications[j])]

(* One record changes.                                                     *)
LEMMA PhaseStep ==
    ASSUME StoreInv, NEW j \in Job, NEW q, jobs' = [jobs EXCEPT ![j] = q]
    PROVE  /\ phaseOf' = [phaseOf EXCEPT ![j] = q.status]
           /\ holderOf' = [holderOf EXCEPT ![j] = q.lease_id]
<1>1. \A i \in Job : jobs'[i] = IF i = j THEN q ELSE jobs[i]
  BY DEF StoreInv, JobsOK
<1>2. phaseOf' = [phaseOf EXCEPT ![j] = q.status]
  <2>1. phaseOf' = [i \in Job |-> IF i = j THEN q.status ELSE jobs[i].status]
    BY <1>1 DEF phaseOf
  <2>2. QED
    BY <2>1 DEF phaseOf
<1>3. holderOf' = [holderOf EXCEPT ![j] = q.lease_id]
  <2>1. holderOf' = [i \in Job |-> IF i = j THEN q.lease_id ELSE jobs[i].lease_id]
    BY <1>1 DEF holderOf
  <2>2. QED
    BY <2>1 DEF holderOf
<1>4. QED
  BY <1>2, <1>3

(* One job gets one more generation.                                       *)
LEMMA IntentStep ==
    ASSUME StoreInv, NEW j \in Job, NEW at \in Instant,
           NEW status \in PublicationStatus \ {"claimed"},
           publications' = [publications EXCEPT
                               ![j] = insert_publication(j, at, status)]
    PROVE  intentsOf' = [intentsOf EXCEPT ![j] = @ + 1]
<1> DEFINE ps == insert_publication(j, at, status)
<1>1. Len(ps) = Len(publications[j]) + 1
  BY InsertPublicationFacts, StoreAssumption DEF StoreInv
<1>2. publications' = [publications EXCEPT ![j] = ps]
  OBVIOUS
<1> HIDE DEF ps
<1>3. \A i \in Job : publications'[i] = IF i = j THEN ps ELSE publications[i]
  BY <1>2 DEF StoreInv, PublicationsOK
<1>4. intentsOf' = [i \in Job |-> IF i = j THEN Len(publications[j]) + 1
                                   ELSE Len(publications[i])]
  BY <1>1, <1>3 DEF intentsOf
<1>5. QED
  BY <1>4 DEF intentsOf

(* A submission is Accept.                                                 *)
LEMMA SubmitAccepts ==
    ASSUME StoreInv, SubmitNext
    PROVE  \E j \in Job : Lifecycle!Accept(j)
<1>1. PICK j \in Job, k \in DedupeKey \cup {NoKey}, f \in Fingerprint, at \in Instant,
           status \in {"pending", "published"} : Insert(j, k, f, at, status)
  BY DEF SubmitNext, enqueue_with_intent, ingest_existing_delivery
<1>2. status \in PublicationStatus \ {"claimed"}
  BY DEF PublicationStatus
<1>3. /\ jobs[j].status = "absent" /\ jobs[j].lease_id = NoLease
      /\ jobs' = [jobs EXCEPT ![j] = pending_record(k, f, at)]
      /\ publications' = [publications EXCEPT
                             ![j] = insert_publication(j, at, status)]
      /\ minted' = minted
  BY <1>1 DEF Insert, Insertable, StoreInv, JobsOK, RecordOK
<1> DEFINE q == pending_record(k, f, at)
<1>4. q.status = "pending" /\ q.lease_id = NoLease
  BY DEF pending_record
<1> HIDE DEF q
<1>5. /\ phaseOf' = [phaseOf EXCEPT ![j] = "pending"]
      /\ holderOf' = [holderOf EXCEPT ![j] = NoLease]
  <2>1. /\ phaseOf' = [phaseOf EXCEPT ![j] = q.status]
        /\ holderOf' = [holderOf EXCEPT ![j] = q.lease_id]
    BY <1>3, PhaseStep DEF q
  <2>2. QED
    BY <2>1, <1>4
<1>6. holderOf' = holderOf
  BY <1>3, <1>5 DEF holderOf
<1>7. intentsOf' = [intentsOf EXCEPT ![j] = @ + 1]
  BY <1>2, <1>3, IntentStep
<1>8. Lifecycle!Accept(j)
  BY <1>3, <1>5, <1>6, <1>7 DEF Lifecycle!Accept, phaseOf, holderOf, intentsOf
<1>9. QED
  BY <1>8

(* A claim is Start.                                                       *)
LEMMA ClaimStarts ==
    ASSUME StoreInv, NEW j \in Job, NEW expires \in Instant, NEW now \in Instant,
           claim_execution(j, expires, now)
    PROVE  Lifecycle!Start(j)
<1> DEFINE q == Claimed(jobs[j], minted + 1, expires)
<1>1. /\ minted \in Nat /\ expires \in Nat /\ RecordOK(jobs[j], minted)
      /\ jobs[j].status \in {"pending", "running"}
      /\ jobs' = [jobs EXCEPT ![j] = q] /\ minted' = minted + 1
      /\ publications' = publications
  BY StoreAssumption
     DEF StoreInv, JobsOK, claim_execution, Claimable, LeaseExpired, FreshLease
<1>2. q.status = "running" /\ q.lease_id = minted + 1
  BY <1>1, ClaimOK
<1> HIDE DEF q
<1>3. /\ phaseOf' = [phaseOf EXCEPT ![j] = "running"]
      /\ holderOf' = [holderOf EXCEPT ![j] = minted']
  <2>1. /\ phaseOf' = [phaseOf EXCEPT ![j] = q.status]
        /\ holderOf' = [holderOf EXCEPT ![j] = q.lease_id]
    BY <1>1, PhaseStep
  <2>2. QED
    BY <2>1, <1>1, <1>2
<1>4. intentsOf' = intentsOf
  BY <1>1 DEF intentsOf
<1>5. QED
  BY <1>1, <1>3, <1>4 DEF Lifecycle!Start, phaseOf, holderOf, intentsOf

(* complete and fail_permanently are Settle.                               *)
LEMMA SettlingSettles ==
    ASSUME StoreInv, NEW j \in Job, NEW lease \in 1..minted,
           complete(j, lease) \/ fail_permanently(j, lease)
    PROVE  Lifecycle!Settle(j)
<1>1. PICK status \in {"succeeded", "failed_permanently"} :
         /\ LeaseHeld(j, lease)
         /\ jobs' = [jobs EXCEPT ![j] = Settled(jobs[j], status, lease, status)]
         /\ UNCHANGED <<publications, minted>>
  BY DEF complete, fail_permanently
<1> DEFINE q == Settled(jobs[j], status, lease, status)
<1>2. status \in JobStatus \ {"running", "absent"} /\ lease \in Nat /\ lease # 0
  BY DEF JobStatus, TerminalStatus, StoreInv, JobsOK
<1>3. q.status = status /\ q.lease_id = 0
  BY <1>1, <1>2, SettledFacts DEF NoLease
<1> HIDE DEF q
<1>4. /\ phaseOf' = [phaseOf EXCEPT ![j] = status]
      /\ holderOf' = [holderOf EXCEPT ![j] = 0]
  BY <1>1, <1>3, PhaseStep DEF q
<1>5. intentsOf' = intentsOf
  BY <1>1 DEF intentsOf
<1>6. jobs[j].status = "running" /\ jobs[j].lease_id # 0
  BY <1>1, <1>2 DEF LeaseHeld
<1>7. QED
  BY <1>1, <1>4, <1>5, <1>6 DEF Lifecycle!Settle, phaseOf, holderOf, intentsOf

(* A job that is running or has failed comes back to pending with one more *)
(* generation.                                                             *)
LEMMA OneJobReopens ==
    ASSUME StoreInv, NEW j \in Job, jobs[j].status \in {"running", "failed_permanently"},
           NEW q, q.status = "pending", q.lease_id = 0, NEW at \in Instant,
           jobs' = [jobs EXCEPT ![j] = q],
           publications' = [publications EXCEPT
                               ![j] = insert_publication(j, at, "pending")],
           minted' = minted
    PROVE  Lifecycle!Reopen({j})
<1>1. /\ phaseOf' = [phaseOf EXCEPT ![j] = "pending"]
      /\ holderOf' = [holderOf EXCEPT ![j] = 0]
  BY PhaseStep
<1>2. intentsOf' = [intentsOf EXCEPT ![j] = @ + 1]
  BY IntentStep DEF PublicationStatus
<1>3. /\ phaseOf' = [i \in Job |-> IF i \in {j} THEN "pending" ELSE phaseOf[i]]
      /\ holderOf' = [i \in Job |-> IF i \in {j} THEN 0 ELSE holderOf[i]]
      /\ intentsOf' = [i \in Job |-> IF i \in {j} THEN intentsOf[i] + 1
                                     ELSE intentsOf[i]]
  BY <1>1, <1>2 DEF phaseOf, holderOf, intentsOf
<1>4. QED
  BY <1>3 DEF Lifecycle!Reopen, phaseOf, holderOf, intentsOf

(* A retry, a rerun of a failed job and lease recovery are Reopen.         *)
LEMMA ReopeningReopens ==
    ASSUME StoreInv,
           \/ \E j \in Job, lease \in 1..minted, next \in Instant :
                 schedule_retry_and_publish(j, lease, next)
           \/ \E j \in Job, revision \in 1..MaxRevision, now \in Instant :
                 retry_failed(j, revision, now)
           \/ \E now \in Instant : \E expired \in SUBSET ExpiredLeases(now) :
                 RecoverLeases(expired, now)
    PROVE  \E S \in SUBSET Job : Lifecycle!Reopen(S)
<1>1. /\ minted \in Nat /\ Instant \subseteq Nat
      /\ "pending" \in JobStatus \ {"running", "absent"}
      /\ \A j \in Job : RecordOK(jobs[j], minted)
  BY StoreAssumption DEF StoreInv, JobsOK, JobStatus
<1>2. ASSUME NEW j \in Job, NEW lease \in 1..minted, NEW next \in Instant,
             schedule_retry_and_publish(j, lease, next)
      PROVE  Lifecycle!Reopen({j})
  <2> DEFINE t == Settled(jobs[j], "pending", lease, "retried")
             q == [t EXCEPT !.available_at = next]
  <2>1. LeaseHeld(j, lease) /\ jobs' = [jobs EXCEPT ![j] = q] /\ minted' = minted
    BY <1>2 DEF schedule_retry_and_publish
  <2>2. RecordOK(t, minted) /\ t.status = "pending" /\ t.lease_id = NoLease
    <3>1. lease \in Nat
      BY <1>1
    <3>2. QED
      BY <1>1, <2>1, <3>1, SettledFacts
  <2> HIDE DEF t
  <2>3. q.status = "pending" /\ q.lease_id = 0
    <3>1. next \in Nat
      BY <1>1
    <3>2. QED
      BY <1>1, <2>2, <3>1, AvailableAtFacts DEF NoLease
  <2> HIDE DEF q
  <2>4. QED
    BY <1>2, <2>1, <2>3, OneJobReopens DEF LeaseHeld, schedule_retry_and_publish
<1>3. ASSUME NEW j \in Job, NEW revision, NEW now \in Instant,
             retry_failed(j, revision, now)
      PROVE  Lifecycle!Reopen({j})
  <2> DEFINE t == Reopened(jobs[j], now)
             q == [t EXCEPT !.attempt_count = 0]
  <2>1. jobs' = [jobs EXCEPT ![j] = q] /\ minted' = minted
    BY <1>3 DEF retry_failed
  <2>2. RecordOK(t, minted) /\ t.status = "pending" /\ t.lease_id = NoLease
    <3>1. now \in Nat
      BY <1>1
    <3>2. QED
      BY <1>1, <3>1, ReopenedFacts
  <2> HIDE DEF t
  <2>3. q.status = "pending" /\ q.lease_id = 0
    BY <2>2 DEF RecordOK, JobRecord, NoLease
  <2> HIDE DEF q
  <2>4. QED
    BY <1>3, <2>1, <2>3, OneJobReopens DEF retry_failed
<1>4. ASSUME NEW now \in Instant, NEW S, RecoverLeases(S, now)
      PROVE  \E T \in SUBSET Job : Lifecycle!Reopen(T)
  <2> DEFINE q(j) == Reopened(jobs[j], now)
             ps(j) == insert_publication(j, now, "pending")
  <2>1. S \in SUBSET Job /\ \A j \in S : LeaseExpired(jobs[j], now)
    BY <1>4 DEF RecoverLeases, ExpiredLeases
  <2>2. /\ S # {} /\ S \in SUBSET Job /\ minted' = minted
        /\ \A j \in S : jobs[j].status = "running"
        /\ \A j \in Job : jobs'[j] = IF j \in S THEN q(j) ELSE jobs[j]
        /\ \A j \in Job : publications'[j] = IF j \in S THEN ps(j)
                                              ELSE publications[j]
    BY <1>4, <2>1 DEF RecoverLeases, LeaseExpired
  <2>3. \A j \in Job : q(j).status = "pending" /\ q(j).lease_id = 0
    BY <1>1, ReopenedFacts DEF NoLease
  <2>4. \A j \in Job : Len(ps(j)) = Len(publications[j]) + 1
    BY <1>1, InsertPublicationFacts DEF StoreInv, PublicationStatus
  <2> HIDE DEF q, ps
  <2>5. /\ phaseOf' = [j \in Job |-> IF j \in S THEN "pending" ELSE phaseOf[j]]
        /\ holderOf' = [j \in Job |-> IF j \in S THEN 0 ELSE holderOf[j]]
        /\ intentsOf' = [j \in Job |-> IF j \in S THEN intentsOf[j] + 1
                                       ELSE intentsOf[j]]
    BY <2>2, <2>3, <2>4 DEF phaseOf, holderOf, intentsOf
  <2>6. Lifecycle!Reopen(S)
    BY <2>2, <2>5 DEF Lifecycle!Reopen, phaseOf, holderOf, intentsOf
  <2>7. QED
    BY <2>1, <2>6
<1>5. QED
  BY <1>2, <1>3, <1>4

(* A dispatcher adds no generation and drops none.                         *)
LEMMA GenerationsKept ==
    ASSUME StoreInv, PublicationNext
    PROVE  \A j \in Job : Len(publications'[j]) = Len(publications[j])
<1>1. publications \in [Job -> Seq(JobPublication)]
  BY DEF StoreInv, PublicationsOK
<1>2. ASSUME NEW j \in Job, NEW g \in 1..Len(publications[j]), NEW q,
             publications' = [publications EXCEPT ![j][g] = q]
      PROVE  \A i \in Job : Len(publications'[i]) = Len(publications[i])
  BY <1>1, <1>2
<1>3. ASSUME \A i \in Job : DOMAIN publications'[i] = 1..Len(publications[i]),
             \A i \in Job : publications'[i] \in Seq(JobPublication)
      PROVE  \A i \in Job : Len(publications'[i]) = Len(publications[i])
  BY <1>1, <1>3
<1>4. \A i \in Job : publications'[i] \in Seq(JobPublication)
  BY StepInv DEF StoreNext, StoreInv, PublicationsOK
<1>5. ASSUME NEW batch, NEW limit, NEW expires, NEW now,
             claim_due(batch, limit, expires, now) \/ RecoverClaims(batch, now)
      PROVE  \A i \in Job : DOMAIN publications'[i] = 1..Len(publications[i])
  BY <1>5 DEF claim_due, RecoverClaims
<1>6. ASSUME NEW j \in Job, NEW g \in 1..Len(publications[j]), NEW lease, NEW at,
             mark_published(j, g, lease) \/ mark_failed(j, g, lease, at)
      PROVE  \A i \in Job : Len(publications'[i]) = Len(publications[i])
  BY <1>2, <1>6 DEF mark_published, mark_failed, ReleasePublication
<1>7. QED
  BY <1>3, <1>4, <1>5, <1>6 DEF PublicationNext

(* Any step of the store is a step of the lifecycle, or stutters there.    *)
LEMMA StepRefines ==
    ASSUME StoreInv, [StoreNext]_storeVars
    PROVE  [Lifecycle!LifecycleNext]_(Lifecycle!lifecycleVars)
<1>1. CASE SubmitNext
  BY <1>1, SubmitAccepts DEF Lifecycle!LifecycleNext
<1>2. CASE ExecutionNext
  BY <1>2, ClaimStarts, SettlingSettles, ReopeningReopens
     DEF ExecutionNext, Lifecycle!LifecycleNext
<1>3. CASE OperatorNext
  <2>1. ASSUME NEW j \in Job, NEW revision, cancel(j, revision)
        PROVE  Lifecycle!Withdraw(j)
    <3> DEFINE q == Transition(jobs[j], "cancelled")
    <3>1. /\ jobs[j] \in JobRecord /\ jobs[j].status = "pending"
          /\ jobs[j].lease_id = NoLease
          /\ jobs' = [jobs EXCEPT ![j] = q] /\ UNCHANGED <<publications, minted>>
      BY <2>1 DEF cancel, StoreInv, JobsOK, RecordOK
    <3>2. q.status = "cancelled" /\ q.lease_id = NoLease
      BY <3>1, TransitionFacts DEF JobStatus, TerminalStatus
    <3> HIDE DEF q
    <3>3. /\ phaseOf' = [phaseOf EXCEPT ![j] = q.status]
          /\ holderOf' = [holderOf EXCEPT ![j] = q.lease_id]
      BY <3>1, PhaseStep
    <3>4. phaseOf' = [phaseOf EXCEPT ![j] = "cancelled"] /\ holderOf' = holderOf
      BY <3>1, <3>2, <3>3 DEF holderOf
    <3>5. QED
      BY <3>1, <3>4 DEF Lifecycle!Withdraw, phaseOf, holderOf
  <2>2. QED
    BY <1>3, <2>1, ReopeningReopens DEF OperatorNext, Lifecycle!LifecycleNext
<1>4. CASE PublicationNext
  <2>1. \A j \in Job : Len(publications'[j]) = Len(publications[j])
    BY <1>4, GenerationsKept
  <2>2. intentsOf' = intentsOf /\ jobs' = jobs /\ minted' \in {minted, minted + 1}
    BY <2>1, <1>4 DEF intentsOf, PublicationNext, claim_due, mark_published,
                      mark_failed, RecoverClaims, FreshLease
  <2>3. QED
    BY <2>2 DEF Lifecycle!LifecycleNext, Lifecycle!Issue, Lifecycle!lifecycleVars,
                intentsOf
<1>5. CASE LockNext \/ UNCHANGED storeVars
  BY <1>5 DEF LockNext, acquire, refresh, release, RecoverLocks, SetLock,
              storeVars, Lifecycle!lifecycleVars
<1>6. QED
  BY <1>1, <1>2, <1>3, <1>4, <1>5 DEF StoreNext

(* The durable store implements the lifecycle a job is promised, for any   *)
(* number of jobs, workers and dispatchers and every interleaving of their *)
(* calls.                                                                  *)
THEOREM StoreImplementsLifecycle == StoreSpec => ImplementsLifecycle
<1>1. StoreInit => Lifecycle!LifecycleInit
  <2> SUFFICES ASSUME StoreInit PROVE Lifecycle!LifecycleInit
    OBVIOUS
  <2>1. \A j \in Job : /\ jobs[j].status = "absent" /\ jobs[j].lease_id = 0
                       /\ Len(publications[j]) = 0
    BY DEF StoreInit, AbsentRecord, pending_record, NoLease
  <2>2. QED
    BY <2>1 DEF StoreInit, Lifecycle!LifecycleInit
<1>2. StoreInv /\ [StoreNext]_storeVars
      => [Lifecycle!LifecycleNext]_(Lifecycle!lifecycleVars)
  BY StepRefines
<1>3. QED
  BY <1>1, <1>2, StoreInvariant, PTL
     DEF StoreSpec, ImplementsLifecycle, Lifecycle!LifecycleSpec
=============================================================================
