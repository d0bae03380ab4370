---------------------------- MODULE SqlJobsProofs ----------------------------
(***************************************************************************)
(* The SQL adapters implement the job ports, for any number of jobs,       *)
(* connections and dedupe keys: SqlInv is an inductive invariant, and a    *)
(* step that keeps it is a step of the store or leaves the store as it is. *)
(*                                                                         *)
(* SqlInv says of an open transaction that what it has written is ONE      *)
(* operation of the store that is still enabled on the committed rows.     *)
(* A step of another transaction spares it: it changes neither the rows    *)
(* nor the dedupe keys of those it has written (in PostgreSQL because of   *)
(* the row locks, in SQLite because no other transaction is open).         *)
(***************************************************************************)
EXTENDS SqlJobs, JobStoreProofs

(* What a transaction that will publish has written is one operation of    *)
(* the store on the committed rows: a submission, a retry, a rerun or a    *)
(* recovery.                                                               *)
Submits(c) ==
    \E j \in Job, k \in DedupeKey \cup {NoKey}, f \in Fingerprint, at \in Instant :
        /\ Rows(c) = {j} /\ tx[c].rows[j] = pending_record(k, f, at)
        /\ Insertable(j, k) /\ RoomForGeneration(j)

Retries(c) ==
    \E j \in Job, lease \in 1..minted, next \in Instant :
        /\ Rows(c) = {j}
        /\ tx[c].rows[j] = [Settled(jobs[j], "pending", lease, "retried") EXCEPT
                               !.available_at = next]
        /\ LeaseHeld(j, lease) /\ CanRevise(j) /\ RoomForGeneration(j)

Reruns(c) ==
    \E j \in Job, revision \in 1..MaxRevision, now \in Instant :
        /\ Rows(c) = {j}
        /\ tx[c].rows[j] = [Reopened(jobs[j], now) EXCEPT !.attempt_count = 0]
        /\ jobs[j].revision = revision /\ jobs[j].status = "failed_permanently"
        /\ CanRevise(j) /\ RoomForGeneration(j)

Recovers(c, now) ==
    /\ Rows(c) \subseteq Job
    /\ \A j \in Rows(c) :
          /\ tx[c].rows[j] = Reopened(jobs[j], now)
          /\ LeaseExpired(jobs[j], now) /\ CanRevise(j) /\ RoomForGeneration(j)

Updates(c) ==
    /\ Rows(c) # {}
    /\ Retries(c) \/ Reruns(c) \/ \E now \in Instant : Recovers(c, now)

(* The generations it has inserted are the next ones of its job rows.      *)
Intent(c, j, status) ==
    [status |-> status, available_at |-> tx[c].rows[j].available_at,
     lease_id |-> NoLease, claim_expires_at |-> 0]

Published(c) == DOMAIN tx[c].generations

Numbered(c) ==
    /\ Published(c) \subseteq Rows(c)
    /\ \A j \in Published(c) :
          tx[c].generations[j].number = Len(publications[j]) + 1

Intends(c, statuses) ==
    \A j \in Published(c) : \E status \in statuses :
        tx[c].generations[j].row = Intent(c, j, status)

(* Step by step.                                                           *)
Between(c) ==
    /\ Published(c) = Rows(c)
    /\ Rows(c) = {} \/ (Submits(c) /\ Intends(c, {"pending", "published"}))

Collides(c) ==
    \E by \in {"job", "key"}, j \in Job, k \in DedupeKey \cup {NoKey} :
        /\ tx[c].arg = [by |-> by, job |-> j, key |-> k]
        /\ by = "job" => Sees(c, j)
        /\ by = "key" => SeesUnderKey(c, k) # {}

Publishes(c) ==
    \/ /\ tx[c].arg = NoArg /\ Updates(c) /\ Intends(c, {"pending"})
    \/ /\ \E status \in {"pending", "published"} : tx[c].arg = [status |-> status]
       /\ Submits(c) /\ Published(c) = {}

Rechecks(c) ==
    \E now \in Instant, rows \in SUBSET Job :
        /\ tx[c].arg = [now |-> now, rows |-> rows]
        /\ Recovers(c, now) /\ Published(c) = {}

Claims(c) ==
    \E j \in Job, expires, now \in Instant :
        /\ tx[c].arg = [job |-> j, expires |-> expires]
        /\ ValidClaim(expires, now) /\ Claimable(j, now) /\ CanMint /\ CanRevise(j)

ClaimsDue(c) ==
    \E batch \in SUBSET PublicationId, limit \in 1..DispatchLimit,
       expires, now \in Instant :
        LET due == {id \in PublicationId : Due(Publication(id), now)} IN
        /\ tx[c].arg = [batch |-> batch, expires |-> expires]
        /\ ValidClaim(expires, now) /\ CanMint
        /\ batch # {} /\ batch \subseteq due
        /\ Cardinality(batch) = limit \/ (Cardinality(batch) < limit /\ batch = due)

Locks(c) ==
    \E k \in OverlapKey, lease \in 1..minted, expires, now \in Instant,
       expired \in BOOLEAN :
        /\ tx[c].arg = [key |-> k, lock |-> [owner |-> lease, expires_at |-> expires],
                        expired |-> expired]
        /\ expired => LockFree(k, now)

Exclusive == {"claim", "update", "write_lock"}

StepOK(c) ==
    \/ tx[c] = Closed
    \/ tx[c].step = "open" /\ Between(c)
    \/ tx[c].step = "lookup" /\ Between(c) /\ Collides(c)
    \/ tx[c].step = "generation" /\ Publishes(c)
    \/ /\ tx[c].step = "commit" /\ Published(c) = Rows(c)
       /\ Updates(c) /\ Intends(c, {"pending"})
    \/ tx[c].step = "recover" /\ Rechecks(c)
    \/ tx[c].step = "claim" /\ Rows(c) = {} /\ Claims(c)
    \/ tx[c].step = "update" /\ Rows(c) = {} /\ ClaimsDue(c)
    \/ tx[c].step = "write_lock" /\ Rows(c) = {} /\ Locks(c)

Shape(t) ==
    t = [step |-> t.step, rows |-> t.rows, generations |-> t.generations,
         inserted |-> t.inserted, arg |-> t.arg]

TransactionOK(c) ==
    /\ Shape(tx[c]) /\ StepOK(c) /\ Numbered(c)
    /\ tx[c].inserted \subseteq Published(c)

AdapterOK ==
    \/ adapter = "postgres" /\ \A c \in Connection : tx[c].step \notin Exclusive
    \/ adapter = "sqlite" /\ \A c, d \in Connection :
          c # d => tx[c] = Closed \/ tx[d] = Closed

SqlInv ==
    /\ StoreInv
    /\ tx = [c \in Connection |-> tx[c]]
    /\ \A c \in Connection : TransactionOK(c)
    /\ WritesAreDisjoint
    /\ AdapterOK

-----------------------------------------------------------------------------
(* Rows as functions.                                                      *)

LEMMA WithFacts ==
    ASSUME NEW f, NEW j, NEW x
    PROVE  /\ DOMAIN With(f, j, x) = {j} \cup DOMAIN f
           /\ With(f, j, x)[j] = x
           /\ \A i \in DOMAIN f : i # j => With(f, j, x)[i] = f[i]
BY DEF With

LEMMA NoRows == DOMAIN <<>> = {}
OBVIOUS

LEMMA RowFacts ==
    ASSUME NEW j, NEW x
    PROVE  DOMAIN Row(j, x) = {j} /\ Row(j, x)[j] = x
BY DEF Row

LEMMA TransactionFacts ==
    ASSUME NEW step, NEW rows, NEW arg
    PROVE  LET t == Transaction(step, rows, arg)
           IN  /\ Shape(t) /\ t.step = step /\ t.rows = rows /\ t.arg = arg
               /\ DOMAIN t.generations = {} /\ t.inserted = {}
<1> DEFINE t == Transaction(step, rows, arg)
<1>1. Shape(t)
  BY DEF Transaction, Shape
<1>2. t.step = step /\ t.rows = rows /\ t.arg = arg /\ t.inserted = {}
  BY DEF Transaction
<1>3. DOMAIN t.generations = {}
  BY NoRows DEF Transaction
<1>4. QED
  BY <1>1, <1>2, <1>3

LEMMA ClosedFacts ==
    /\ Shape(Closed) /\ Closed.step = "closed" /\ Closed.arg = NoArg
    /\ DOMAIN Closed.rows = {} /\ DOMAIN Closed.generations = {} /\ Closed.inserted = {}
BY TransactionFacts, NoRows DEF Closed

-----------------------------------------------------------------------------
(* Instants as text.                                                       *)

(* The text of an instant, by its remainder.                               *)
LEMMA TextFacts ==
    ASSUME NEW t \in Nat
    PROVE  \E q \in Nat :
              \/ t = 4 * q     /\ Text(t) = <<2 + q, 0>>
              \/ t = 4 * q + 1 /\ Text(t) = <<2 + q, 1, 2, 3, 0>>
              \/ t = 4 * q + 2 /\ Text(t) = <<2 + q, 1, 3, 0>>
              \/ t = 4 * q + 3 /\ Text(t) = <<2 + q, 1, 3, 3, 0>>
<1> DEFINE q == t \div 4
           first == (t % 4) \div 2
           second == t % 2
<1>1. /\ q \in Nat
      /\ first \in {0, 1} /\ second \in {0, 1} /\ t = 4 * q + 2 * first + second
  OBVIOUS
<1>2. Text(t) = CASE first = 0 /\ second = 0 -> <<Digit(q), Plus>>
                  [] first = 1 /\ second = 0 -> <<Digit(q), Dot, Digit(first), Plus>>
                  [] second = 1 -> <<Digit(q), Dot, Digit(first), Digit(second), Plus>>
  BY DEF Text
<1> HIDE DEF q, first, second
<1>3. CASE first = 0 /\ second = 0
  BY <1>1, <1>2, <1>3 DEF Digit, Plus
<1>4. CASE first = 0 /\ second = 1
  BY <1>1, <1>2, <1>4 DEF Digit, Plus, Dot
<1>5. CASE first = 1 /\ second = 0
  BY <1>1, <1>2, <1>5 DEF Digit, Plus, Dot
<1>6. CASE first = 1 /\ second = 1
  BY <1>1, <1>2, <1>6 DEF Digit, Plus, Dot
<1>7. QED
  BY <1>1, <1>3, <1>4, <1>5, <1>6

(* ... letter by letter.                                                   *)
LEMMA LettersFacts ==
    ASSUME NEW t \in Nat
    PROVE  /\ Text(t) \in Seq(Int)
           /\ \E q \in Nat :
                 /\ t \in (4 * q)..(4 * q + 3)
                 /\ Text(t)[1] = 2 + q
                 /\ Text(t)[2] = IF t = 4 * q THEN 0 ELSE 1
                 /\ Len(Text(t)) = IF t = 4 * q THEN 2 ELSE IF t = 4 * q + 2 THEN 4 ELSE 5
                 /\ t # 4 * q => Text(t)[3] = IF t = 4 * q + 1 THEN 2 ELSE 3
                 /\ t # 4 * q => Text(t)[4] = IF t = 4 * q + 2 THEN 0 ELSE 3
                 /\ t # 4 * q => Len(Text(t)) = 4 \/ Text(t)[5] = 0
<1> DEFINE x == Text(t)
<1>1. PICK q \in Nat :
         \/ t = 4 * q     /\ x = <<2 + q, 0>>
         \/ t = 4 * q + 1 /\ x = <<2 + q, 1, 2, 3, 0>>
         \/ t = 4 * q + 2 /\ x = <<2 + q, 1, 3, 0>>
         \/ t = 4 * q + 3 /\ x = <<2 + q, 1, 3, 3, 0>>
  BY TextFacts
<1> HIDE DEF x
<1>2. x \in Seq(Int)
  <2>1. CASE x = <<2 + q, 0>>
    BY <2>1
  <2>2. CASE x = <<2 + q, 1, 2, 3, 0>>
    BY <2>2
  <2>3. CASE x = <<2 + q, 1, 3, 0>>
    BY <2>3
  <2>4. CASE x = <<2 + q, 1, 3, 3, 0>>
    BY <2>4
  <2>5. QED
    BY <1>1, <2>1, <2>2, <2>3, <2>4
<1>3. /\ t \in (4 * q)..(4 * q + 3)
      /\ x[1] = 2 + q
      /\ x[2] = IF t = 4 * q THEN 0 ELSE 1
      /\ Len(x) = IF t = 4 * q THEN 2 ELSE IF t = 4 * q + 2 THEN 4 ELSE 5
      /\ t # 4 * q => x[3] = IF t = 4 * q + 1 THEN 2 ELSE 3
      /\ t # 4 * q => x[4] = IF t = 4 * q + 2 THEN 0 ELSE 3
      /\ t # 4 * q => Len(x) = 4 \/ x[5] = 0
  BY <1>1
<1>4. QED
  BY <1>2, <1>3 DEF x

(* The comparison letter by letter.                                        *)
Before(x, y) ==
    \E n \in 1..Len(x) :
        n <= Len(y) /\ x[n] < y[n] /\ \A i \in 1..(n - 1) : x[i] = y[i]

LEMMA AtMostFacts ==
    ASSUME NEW a \in Nat, NEW b \in Nat
    PROVE  AtMost(a, b) <=> Text(a) = Text(b) \/ Before(Text(a), Text(b))
<1> DEFINE x == Text(a)
           y == Text(b)
<1>1. x \in Seq(Int) /\ y \in Seq(Int)
  <2>1. \A t \in Nat : Text(t) \in Seq(Int)
    BY LettersFacts
  <2>2. QED
    BY <2>1
<1> HIDE DEF x, y
<1>2. ASSUME NEW n \in 1..Len(x), n <= Len(y)
      PROVE  SubSeq(x, 1, n - 1) = SubSeq(y, 1, n - 1)
                <=> \A i \in 1..(n - 1) : x[i] = y[i]
  <2> DEFINE u == SubSeq(x, 1, n - 1)
             v == SubSeq(y, 1, n - 1)
  <2>1. /\ u \in Seq(Int) /\ Len(u) = n - 1 /\ \A i \in 1..(n - 1) : u[i] = x[i]
        /\ v \in Seq(Int) /\ Len(v) = n - 1 /\ \A i \in 1..(n - 1) : v[i] = y[i]
    BY <1>1, <1>2
  <2>2. QED
    BY <2>1
<1>3. QED
  BY <1>2 DEF AtMost, Before, x, y

(* Texts are in the order of the instants they stand for.                  *)
LEMMA TextOrder ==
    ASSUME NEW a \in Nat, NEW b \in Nat
    PROVE  AtMost(a, b) <=> a <= b
<1> DEFINE x == Text(a)
           y == Text(b)
<1>1. PICK q \in Nat :
         /\ a \in (4 * q)..(4 * q + 3)
         /\ x[1] = 2 + q
         /\ x[2] = IF a = 4 * q THEN 0 ELSE 1
         /\ Len(x) = IF a = 4 * q THEN 2 ELSE IF a = 4 * q + 2 THEN 4 ELSE 5
         /\ a # 4 * q => x[3] = IF a = 4 * q + 1 THEN 2 ELSE 3
         /\ a # 4 * q => x[4] = IF a = 4 * q + 2 THEN 0 ELSE 3
         /\ a # 4 * q => Len(x) = 4 \/ x[5] = 0
  BY LettersFacts
<1>2. PICK r \in Nat :
         /\ b \in (4 * r)..(4 * r + 3)
         /\ y[1] = 2 + r
         /\ y[2] = IF b = 4 * r THEN 0 ELSE 1
         /\ Len(y) = IF b = 4 * r THEN 2 ELSE IF b = 4 * r + 2 THEN 4 ELSE 5
         /\ b # 4 * r => y[3] = IF b = 4 * r + 1 THEN 2 ELSE 3
         /\ b # 4 * r => y[4] = IF b = 4 * r + 2 THEN 0 ELSE 3
         /\ b # 4 * r => Len(y) = 4 \/ y[5] = 0
  BY LettersFacts
<1>3. x \in Seq(Int) /\ y \in Seq(Int)
  BY LettersFacts
<1>4. AtMost(a, b) <=> x = y \/ Before(x, y)
  BY AtMostFacts
<1> HIDE DEF x, y
<1> DEFINE Differ(n) == /\ n \in 1..Len(x) /\ n \in 1..Len(y) /\ x[n] # y[n]
                        /\ \A i \in 1..(n - 1) : x[i] = y[i]
<1>5. ASSUME NEW n \in Nat, Differ(n)
      PROVE  x # y /\ (Before(x, y) <=> x[n] < y[n])
  <2>1. x # y
    BY <1>5
  <2>2. x[n] < y[n] => Before(x, y)
    BY <1>5 DEF Before
  <2>3. ASSUME Before(x, y) PROVE x[n] < y[n]
    <3>1. PICK m \in 1..Len(x) :
             m <= Len(y) /\ x[m] < y[m] /\ \A i \in 1..(m - 1) : x[i] = y[i]
      BY <2>3 DEF Before
    <3>2. x[m] \in Int /\ y[m] \in Int /\ m \in Nat
      BY <1>3, <3>1
    <3>3. ~(m < n)
      <4>1. m < n => m \in 1..(n - 1)
        BY <3>2
      <4>2. QED
        BY <4>1, <3>1, <3>2, <1>5
    <3>4. ~(n < m)
      <4>1. n < m => n \in 1..(m - 1)
        BY <3>2, <1>5
      <4>2. QED
        BY <4>1, <3>1, <1>5
    <3>5. QED
      BY <3>1, <3>2, <3>3, <3>4
  <2>4. QED
    BY <2>1, <2>2, <2>3
<1>6. CASE a = b
  BY <1>4, <1>6 DEF x, y
<1>7. CASE a # b
  <2>1. \/ Differ(1) /\ (a < b <=> x[1] < y[1])
        \/ Differ(2) /\ (a < b <=> x[2] < y[2])
        \/ Differ(3) /\ (a < b <=> x[3] < y[3])
        \/ Differ(4) /\ (a < b <=> x[4] < y[4])
    BY <1>1, <1>2, <1>7
  <2> HIDE DEF Differ
  <2>2. QED
    BY <2>1, <1>4, <1>5, <1>7
<1>8. QED
  BY <1>6, <1>7

-----------------------------------------------------------------------------
(* What transactions have written.                                         *)

LEMMA SubmittedRow ==
    ASSUME NEW k, NEW f, NEW at
    PROVE  LET r == pending_record(k, f, at)
           IN  r.status = "pending" /\ r.key = k /\ r.available_at = at
BY DEF pending_record

LEMMA RetriedRow ==
    ASSUME StoreInv, NEW j \in Job, NEW lease \in 1..minted, NEW next \in Instant,
           LeaseHeld(j, lease)
    PROVE  LET r == [Settled(jobs[j], "pending", lease, "retried") EXCEPT
                        !.available_at = next]
           IN  r.status = "pending" /\ r.key = jobs[j].key /\ r.available_at = next
<1>1. minted \in Nat /\ next \in Nat /\ lease \in Nat
      /\ "pending" \in JobStatus \ {"running", "absent"}
  BY StoreAssumption DEF StoreInv, JobsOK, JobStatus
<1> DEFINE q == Settled(jobs[j], "pending", lease, "retried")
<1>2. RecordOK(q, minted) /\ q.status = "pending" /\ q.key = jobs[j].key
  BY <1>1, SettledFacts
<1> HIDE DEF q
<1>3. QED
  BY <1>1, <1>2, AvailableAtFacts DEF q

LEMMA ReopenedRow ==
    ASSUME StoreInv, NEW j \in Job, NEW now \in Instant
    PROVE  LET r == Reopened(jobs[j], now)
               s == [r EXCEPT !.attempt_count = 0]
           IN  /\ r.status = "pending" /\ r.key = jobs[j].key /\ r.available_at = now
               /\ s.status = "pending" /\ s.key = jobs[j].key /\ s.available_at = now
<1>1. jobs[j] \in JobRecord /\ now \in Nat /\ "pending" \in JobStatus
  BY StoreAssumption DEF StoreInv, JobsOK, JobStatus
<1> DEFINE t == Transition(jobs[j], "pending")
<1>2. t \in JobRecord /\ t.status = "pending" /\ t.key = jobs[j].key
  BY <1>1, TransitionFacts
<1> HIDE DEF t
<1>3. QED
  BY <1>1, <1>2 DEF Reopened, JobRecord, t

(* The job of a submission is new, and so is its key; an update is of jobs *)
(* that are there, and leaves them their keys.                             *)
LEMMA Submitted ==
    ASSUME StoreInv, NEW c \in Connection, Submits(c)
    PROVE  \E j \in Job : /\ Rows(c) = {j} /\ jobs[j].status = "absent"
                          /\ tx[c].rows[j].status = "pending"
                          /\ tx[c].rows[j].key \in DedupeKey =>
                                fingerprints[tx[c].rows[j].key] = NoJob
BY SubmittedRow, StoreAssumption DEF Submits, Insertable

LEMMA Updated ==
    ASSUME StoreInv, NEW c \in Connection, Updates(c)
    PROVE  /\ Rows(c) \subseteq Job
           /\ \A j \in Rows(c) :
                 /\ jobs[j].status # "absent"
                 /\ tx[c].rows[j].status = "pending" /\ tx[c].rows[j].key = jobs[j].key
<1>1. CASE Retries(c)
  <2>1. PICK j \in Job, lease \in 1..minted, next \in Instant :
           /\ Rows(c) = {j} /\ LeaseHeld(j, lease)
           /\ tx[c].rows[j] = [Settled(jobs[j], "pending", lease, "retried") EXCEPT
                                  !.available_at = next]
    BY <1>1 DEF Retries
  <2>2. tx[c].rows[j].status = "pending" /\ tx[c].rows[j].key = jobs[j].key
    BY <2>1, RetriedRow
  <2>3. jobs[j].status # "absent"
    BY <2>1 DEF LeaseHeld
  <2>4. QED
    BY <2>1, <2>2, <2>3
<1>2. CASE Reruns(c)
  <2>1. PICK j \in Job, now \in Instant :
           /\ Rows(c) = {j} /\ jobs[j].status = "failed_permanently"
           /\ tx[c].rows[j] = [Reopened(jobs[j], now) EXCEPT !.attempt_count = 0]
    BY <1>2 DEF Reruns
  <2>2. tx[c].rows[j].status = "pending" /\ tx[c].rows[j].key = jobs[j].key
    BY <2>1, ReopenedRow
  <2>3. QED
    BY <2>1, <2>2
<1>3. CASE \E now \in Instant : Recovers(c, now)
  BY <1>3, ReopenedRow DEF Recovers, LeaseExpired
<1>4. QED
  BY <1>1, <1>2, <1>3 DEF Updates

(* Whichever it is.                                                        *)
LEMMA Written ==
    ASSUME StoreInv, NEW c \in Connection, TransactionOK(c)
    PROVE  /\ Rows(c) \subseteq Job
           /\ \A j \in Rows(c) :
                 /\ tx[c].rows[j].status = "pending"
                 /\ jobs[j].status # "absent" => tx[c].rows[j].key = jobs[j].key
                 /\ tx[c].rows[j].key \in DedupeKey =>
                       fingerprints[tx[c].rows[j].key] \in {j, NoJob}
<1>1. CASE Rows(c) = {}
  BY <1>1
<1>2. CASE Submits(c)
  BY <1>2, Submitted
<1>3. CASE Updates(c)
  BY <1>3, Updated, StoreAssumption DEF StoreInv, KeysOK, OneJobPerKey
<1>4. CASE Rechecks(c)
  <2>1. Rows(c) # {} => Updates(c)
    BY <1>4 DEF Rechecks, Updates
  <2>2. QED
    BY <2>1, <1>1, <1>3
<1>5. Rows(c) = {} \/ Submits(c) \/ Updates(c) \/ Rechecks(c)
  BY ClosedFacts DEF TransactionOK, StepOK, Between, Publishes, Rows
<1>6. QED
  BY <1>1, <1>2, <1>3, <1>4, <1>5

-----------------------------------------------------------------------------
(* Steps of others.                                                        *)

(* A step that leaves the rows a transaction has written, and their keys,  *)
(* as it found them, and takes no row away.                                *)
Spares(c) ==
    /\ tx'[c].rows = tx[c].rows
    /\ \A j \in Rows(c) :
          /\ jobs'[j] = jobs[j] /\ Len(publications'[j]) = Len(publications[j])
          /\ \A k \in DedupeKey :
                tx[c].rows[j].key = k => fingerprints'[k] = fingerprints[k]
    /\ \A j \in Job : jobs[j].status # "absent" =>
          jobs'[j].status # "absent" /\ jobs'[j].key = jobs[j].key
    /\ minted' \in Nat /\ minted <= minted'

LEMMA SparedSubmits ==
    ASSUME NEW c \in Connection, Spares(c), Submits(c)
    PROVE  Submits(c)'
BY SubmittedRow, StoreAssumption DEF Submits, Spares, Rows, Insertable, RoomForGeneration

LEMMA SparedUpdates ==
    ASSUME StoreInv, NEW c \in Connection, Spares(c)
    PROVE  /\ Retries(c) => Retries(c)'
           /\ Reruns(c) => Reruns(c)'
           /\ \A now \in Instant : Recovers(c, now) => Recovers(c, now)'
           /\ Updates(c) => Updates(c)'
<1>1. 1..minted \subseteq 1..minted'
  BY DEF StoreInv, JobsOK, Spares
<1>2. ASSUME Retries(c) PROVE Retries(c)'
  <2>1. PICK j \in Job, lease \in 1..minted, next \in Instant :
           /\ Rows(c) = {j}
           /\ tx[c].rows[j] = [Settled(jobs[j], "pending", lease, "retried") EXCEPT
                                  !.available_at = next]
           /\ LeaseHeld(j, lease) /\ CanRevise(j) /\ RoomForGeneration(j)
    BY <1>2 DEF Retries
  <2>2. lease \in 1..minted'
    BY <1>1
  <2>3. /\ Rows(c)' = {j} /\ tx'[c].rows[j] = tx[c].rows[j] /\ jobs'[j] = jobs[j]
        /\ Len(publications'[j]) = Len(publications[j])
    BY <2>1 DEF Spares, Rows
  <2>4. /\ tx'[c].rows[j] = [Settled(jobs'[j], "pending", lease, "retried") EXCEPT
                                 !.available_at = next]
        /\ LeaseHeld(j, lease)' /\ CanRevise(j)' /\ RoomForGeneration(j)'
    BY <2>1, <2>3 DEF LeaseHeld, CanRevise, RoomForGeneration
  <2>5. QED
    BY <2>2, <2>3, <2>4 DEF Retries
<1>3. ASSUME Reruns(c) PROVE Reruns(c)'
  <2>1. PICK j \in Job, revision \in 1..MaxRevision, now \in Instant :
           /\ Rows(c) = {j}
           /\ tx[c].rows[j] = [Reopened(jobs[j], now) EXCEPT !.attempt_count = 0]
           /\ jobs[j].revision = revision /\ jobs[j].status = "failed_permanently"
           /\ CanRevise(j) /\ RoomForGeneration(j)
    BY <1>3 DEF Reruns
  <2>2. /\ Rows(c)' = {j} /\ tx'[c].rows[j] = tx[c].rows[j] /\ jobs'[j] = jobs[j]
        /\ Len(publications'[j]) = Len(publications[j])
    BY <2>1 DEF Spares, Rows
  <2>3. /\ tx'[c].rows[j] = [Reopened(jobs'[j], now) EXCEPT !.attempt_count = 0]
        /\ CanRevise(j)' /\ RoomForGeneration(j)'
    BY <2>1, <2>2 DEF CanRevise, RoomForGeneration
  <2>4. QED
    BY <2>1, <2>2, <2>3 DEF Reruns
<1>4. \A now \in Instant : Recovers(c, now) => Recovers(c, now)'
  BY DEF Recovers, Spares, Rows, CanRevise, RoomForGeneration
<1>5. QED
  BY <1>2, <1>3, <1>4 DEF Updates, Rows, Spares

LEMMA SparedTransaction ==
    ASSUME StoreInv, NEW c \in Connection, TransactionOK(c), Spares(c),
           tx'[c] = tx[c], tx[c].step \notin Exclusive
    PROVE  TransactionOK(c)'
<1>1. /\ Rows(c)' = Rows(c) /\ Published(c)' = Published(c)
      /\ \A statuses : Intends(c, statuses) => Intends(c, statuses)'
  BY DEF Spares, Rows, Published, Intends, Intent
<1>2. Shape(tx[c])' /\ (tx[c].inserted \subseteq Published(c))'
  BY DEF TransactionOK, Spares, Shape, Published
<1>3. Numbered(c)'
  BY <1>1 DEF TransactionOK, Numbered, Spares
<1>4. Between(c) => Between(c)'
  BY <1>1, SparedSubmits DEF Between
<1>5. Collides(c) => Collides(c)'
  <2>1. \A j \in Job : Sees(c, j) => Sees(c, j)'
    BY <1>1 DEF Sees, Spares
  <2>2. \A k : SeesUnderKey(c, k) \subseteq SeesUnderKey(c, k)'
    BY <1>1 DEF SeesUnderKey, Spares
  <2>3. tx'[c].arg = tx[c].arg
    OBVIOUS
  <2>4. QED
    BY <2>1, <2>2, <2>3 DEF Collides
<1>6. Publishes(c) => Publishes(c)'
  <2>1. tx'[c].arg = tx[c].arg
    OBVIOUS
  <2>2. QED
    BY <1>1, <2>1, SparedSubmits, SparedUpdates DEF Publishes
<1>7. Rechecks(c) => Rechecks(c)'
  <2>1. tx'[c].arg = tx[c].arg
    OBVIOUS
  <2>2. QED
    BY <1>1, <2>1, SparedUpdates DEF Rechecks
<1>8. StepOK(c)'
  BY <1>1, <1>4, <1>5, <1>6, <1>7, SparedUpdates
     DEF TransactionOK, StepOK, Spares, Exclusive
<1>9. QED
  BY <1>2, <1>3, <1>8 DEF TransactionOK

(* A transaction that has not begun.                                       *)
LEMMA ClosedOK ==
    ASSUME NEW c \in Connection, tx'[c] = Closed
    PROVE  TransactionOK(c)' /\ Rows(c)' = {}
BY ClosedFacts DEF TransactionOK, StepOK, Numbered, Published, Rows

LEMMA OnlyClosed ==
    ASSUME NEW c \in Connection, TransactionOK(c), tx[c].step = "closed"
    PROVE  tx[c] = Closed
BY DEF TransactionOK, StepOK

(* No other transaction has written a row under the key of a committed job *)
(* it has not written.                                                     *)
LEMMA OwnKeys ==
    ASSUME SqlInv, NEW o \in Connection, NEW i \in Job, i \notin Rows(o),
           NEW j \in Rows(o), tx[o].rows[j].key = jobs[i].key
    PROVE  jobs[i].key = NoKey
<1> SUFFICES ASSUME jobs[i].key # NoKey PROVE FALSE
  OBVIOUS
<1>1. jobs[i].key \in DedupeKey
  BY DEF SqlInv, StoreInv, JobsOK, JobRecord
<1>2. fingerprints[jobs[i].key] = i
  BY DEF SqlInv, StoreInv, KeysOK, OneJobPerKey
<1>3. fingerprints[tx[o].rows[j].key] \in {j, NoJob}
  BY <1>1, Written DEF SqlInv
<1>4. QED
  BY <1>2, <1>3, StoreAssumption

(* A step of one transaction that nobody else sees.                        *)
LEMMA PrivateStep ==
    ASSUME SqlInv, NEW c \in Connection, NEW t, Become(c, t),
           UNCHANGED <<storeVars, adapter>>, TransactionOK(c)',
           adapter = "postgres" => t.step \notin Exclusive,
           adapter = "sqlite" => WriteLock(c),
           \A o \in Others(c) : \A j \in Rows(o) :
              /\ j \notin DOMAIN t.rows
              /\ \A i \in DOMAIN t.rows :
                    t.rows[i].key = tx[o].rows[j].key => t.rows[i].key = NoKey
    PROVE  SqlInv'
<1>1. /\ tx' = [d \in Connection |-> tx'[d]]
      /\ tx'[c] = t
      /\ \A o \in Others(c) : tx'[o] = tx[o]
  BY DEF SqlInv, Become, Others
<1>2. /\ jobs' = jobs /\ fingerprints' = fingerprints /\ publications' = publications
      /\ locks' = locks /\ minted' = minted /\ adapter' = adapter
  BY DEF storeVars
<1>3. StoreInv'
  BY StepInv DEF SqlInv
<1>4. ASSUME NEW o \in Others(c) PROVE TransactionOK(o)'
  <2>1. o \in Connection /\ TransactionOK(o) /\ tx'[o] = tx[o]
    BY <1>1, <1>4 DEF SqlInv, Others
  <2>2. CASE tx[o] = Closed
    BY <2>1, <2>2, ClosedOK
  <2>3. CASE tx[o] # Closed
    <3>1. adapter = "postgres"
      <4>1. adapter = "sqlite" => tx[o].step = "closed"
        BY <1>4 DEF WriteLock
      <4>2. QED
        BY <4>1, <2>1, <2>3, OnlyClosed DEF SqlInv, AdapterOK
    <3>2. tx[o].step \notin Exclusive
      BY <3>1, <2>1 DEF SqlInv, AdapterOK
    <3>3. Spares(o)
      BY <1>2, <2>1 DEF Spares, SqlInv, StoreInv, JobsOK
    <3>4. QED
      BY <2>1, <3>2, <3>3, SparedTransaction DEF SqlInv
  <2>4. QED
    BY <2>2, <2>3
<1>5. WritesAreDisjoint'
  <2>1. \A a, b \in Connection : a # b /\ a # c /\ b # c =>
           /\ Rows(a)' \cap Rows(b)' = {}
           /\ \A i \in Rows(a)', j \in Rows(b)' :
                 tx'[a].rows[i].key = tx'[b].rows[j].key => tx'[a].rows[i].key = NoKey
    BY <1>1 DEF SqlInv, WritesAreDisjoint, Rows, Others
  <2>2. \A b \in Connection : b # c =>
           /\ Rows(c)' \cap Rows(b)' = {}
           /\ \A i \in Rows(c)', j \in Rows(b)' :
                 tx'[c].rows[i].key = tx'[b].rows[j].key => tx'[c].rows[i].key = NoKey
    BY <1>1 DEF Rows, Others
  <2>3. QED
    BY <2>1, <2>2 DEF WritesAreDisjoint
<1>6. AdapterOK'
  <2>1. CASE adapter = "postgres"
    BY <1>1, <1>2, <2>1 DEF SqlInv, AdapterOK, Others
  <2>2. CASE adapter = "sqlite"
    <3>1. \A o \in Others(c) : tx'[o] = Closed
      BY <1>1, <2>2, OnlyClosed DEF WriteLock, SqlInv, Others
    <3>2. QED
      BY <1>2, <2>2, <3>1 DEF AdapterOK, Others
  <2>3. QED
    BY <2>1, <2>2 DEF SqlInv, AdapterOK
<1>7. QED
  BY <1>1, <1>3, <1>4, <1>5, <1>6 DEF SqlInv, Others

-----------------------------------------------------------------------------
(* What each statement makes of its own transaction.                       *)

(* An update has written its job rows and goes on to publish them.         *)
LEMMA UpdateOpens ==
    ASSUME NEW c \in Connection, NEW rows, tx'[c] = Transaction("generation", rows, NoArg),
           Updates(c)'
    PROVE  TransactionOK(c)'
<1>1. /\ tx'[c].step = "generation" /\ tx'[c].rows = rows /\ tx'[c].arg = NoArg
      /\ tx'[c].inserted = {} /\ Shape(tx'[c]) /\ Published(c)' = {}
  BY TransactionFacts DEF Published
<1>2. Publishes(c)'
  BY <1>1 DEF Publishes, Intends
<1>3. QED
  BY <1>1, <1>2 DEF TransactionOK, StepOK, Numbered

(* A transaction that has written nothing.                                 *)
LEMMA EmptyOpens ==
    ASSUME NEW c \in Connection, NEW step, NEW arg, tx'[c] = Transaction(step, <<>>, arg),
           \/ step = "recover" /\ Rechecks(c)'
           \/ step = "claim" /\ Claims(c)'
           \/ step = "update" /\ ClaimsDue(c)'
           \/ step = "write_lock" /\ Locks(c)'
    PROVE  TransactionOK(c)'
<1>1. /\ tx'[c].step = step /\ Rows(c)' = {} /\ Published(c)' = {}
      /\ tx'[c].inserted = {} /\ Shape(tx'[c])
  BY TransactionFacts, NoRows DEF Published, Rows
<1>2. QED
  BY <1>1 DEF TransactionOK, StepOK, Numbered

(* A step that leaves the committed rows as they are.                      *)
LEMMA KeptRows ==
    ASSUME SqlInv, UNCHANGED storeVars, NEW c \in Connection, tx'[c].rows = tx[c].rows
    PROVE  /\ Spares(c) /\ Rows(c)' = Rows(c)
           /\ Submits(c) => Submits(c)'
           /\ Updates(c) => Updates(c)'
           /\ \A now \in Instant : Recovers(c, now) => Recovers(c, now)'
<1>1. Spares(c) /\ Rows(c)' = Rows(c)
  BY DEF Spares, storeVars, SqlInv, StoreInv, JobsOK, Rows
<1>2. QED
  BY <1>1, SparedSubmits, SparedUpdates DEF SqlInv

LEMMA InsertRowOK ==
    ASSUME SqlInv, NEW c \in Connection, NEW j \in Job, NEW k \in DedupeKey \cup {NoKey},
           NEW f \in Fingerprint, NEW at \in Instant, NEW status \in {"pending", "published"},
           InsertRow(c, j, k, f, at, status)
    PROVE  /\ TransactionOK(c)'
           /\ tx'[c].step \notin Exclusive
           /\ tx'[c].rows = tx[c].rows \/ tx'[c].rows = Row(j, pending_record(k, f, at))
<1> DEFINE keyed == k # NoKey /\ SeesUnderKey(c, k) # {}
           inserts == [tx[c] EXCEPT !.step = "generation", !.arg = [status |-> status],
                                    !.rows = Row(j, pending_record(k, f, at))]
           collides(by) == [tx[c] EXCEPT !.step = "lookup",
                                         !.arg = [by |-> by, job |-> j, key |-> k]]
<1>1. /\ Shape(tx[c]) /\ StepOK(c) /\ Numbered(c) /\ tx[c].inserted \subseteq Published(c)
      /\ tx[c].step \in {"closed", "open"} /\ UNCHANGED storeVars
      /\ \A t : Become(c, t) => tx'[c] = t
  BY DEF InsertRow, SqlInv, TransactionOK, Become
<1>2. Between(c)
  BY <1>1, ClosedFacts DEF StepOK, Between, Published, Rows
<1>3. CASE ~Sees(c, j) /\ ~keyed /\ Rows(c) = {} /\ RoomForGeneration(j) /\ Become(c, inserts)
  <2>1. /\ tx'[c] = [step |-> "generation", rows |-> Row(j, pending_record(k, f, at)),
                     generations |-> tx[c].generations, inserted |-> tx[c].inserted,
                     arg |-> [status |-> status]]
    BY <1>1, <1>3 DEF Shape
  <2>2. Published(c)' = {} /\ tx'[c].inserted = {} /\ Shape(tx'[c])
    BY <2>1, <1>1, <1>2, <1>3 DEF Published, Between, Shape
  <2>3. Rows(c)' = {j} /\ tx'[c].rows[j] = pending_record(k, f, at)
    <3>1. tx'[c].rows = Row(j, pending_record(k, f, at))
      BY <2>1
    <3>2. QED
      BY <3>1, RowFacts DEF Rows
  <2>4. Insertable(j, k)
    <3>1. jobs[j].status = "absent"
      BY <1>3 DEF Sees
    <3>2. ASSUME k # NoKey, fingerprints[k] # NoJob PROVE FALSE
      <4>1. fingerprints[k] \in Job /\ jobs[fingerprints[k]].key = k
        BY <3>2 DEF SqlInv, StoreInv, KeysOK, OneJobPerKey
      <4>2. jobs[fingerprints[k]].status # "absent"
        BY <4>1, <3>2 DEF SqlInv, StoreInv, KeysOK
      <4>3. fingerprints[k] \in SeesUnderKey(c, k)
        BY <4>1, <4>2 DEF SeesUnderKey
      <4>4. QED
        BY <4>3, <3>2, <1>3
    <3>3. QED
      BY <3>1, <3>2 DEF Insertable
  <2>5. Submits(c)'
    BY <2>3, <2>4, <1>1, <1>3 DEF Submits, Insertable, RoomForGeneration, storeVars
  <2>6. Publishes(c)'
    BY <2>1, <2>2, <2>5 DEF Publishes
  <2>7. QED
    BY <2>1, <2>2, <2>6 DEF TransactionOK, StepOK, Numbered, Exclusive
<1>4. ASSUME NEW by \in {"job", "key"}, by = "job" => Sees(c, j), by = "key" => keyed,
             Become(c, collides(by))
      PROVE  TransactionOK(c)' /\ tx'[c].step \notin Exclusive /\ tx'[c].rows = tx[c].rows
  <2>1. tx'[c] = [step |-> "lookup", rows |-> tx[c].rows,
                  generations |-> tx[c].generations, inserted |-> tx[c].inserted,
                  arg |-> [by |-> by, job |-> j, key |-> k]]
    BY <1>1, <1>4 DEF Shape
  <2>2. /\ Shape(tx'[c]) /\ Published(c)' = Published(c) /\ Rows(c)' = Rows(c)
        /\ tx'[c].inserted = tx[c].inserted
        /\ \A statuses : Intends(c, statuses) => Intends(c, statuses)'
    BY <2>1 DEF Shape, Published, Rows, Intends, Intent
  <2>3. Between(c)'
    BY <2>1, <2>2, <1>1, <1>2, KeptRows DEF Between
  <2>4. Collides(c)'
    <3>1. (Sees(c, j) => Sees(c, j)') /\ SeesUnderKey(c, k)' = SeesUnderKey(c, k)
      BY <2>1, <2>2, <1>1 DEF Sees, SeesUnderKey, storeVars
    <3>2. QED
      BY <3>1, <2>1, <1>4 DEF Collides
  <2>5. Numbered(c)'
    BY <2>1, <2>2, <1>1 DEF Numbered, storeVars, Published
  <2>6. QED
    BY <2>1, <2>2, <2>3, <2>4, <2>5, <1>1 DEF TransactionOK, StepOK, Exclusive
<1>5. QED
  BY <1>3, <1>4 DEF InsertRow

(* The row a submission collided with is still there.                      *)
LEMMA LookupOK ==
    ASSUME SqlInv, NEW c \in Connection, Lookup(c)
    PROVE  /\ TransactionOK(c)'
           /\ tx'[c].step \notin Exclusive /\ tx'[c].rows = tx[c].rows
<1> DEFINE sought == tx[c].arg
           found == {j \in Job : /\ Sees(c, j)
                                 /\ \/ sought.by = "job" /\ sought.job = j
                                    \/ sought.by = "key" /\ j \in SeesUnderKey(c, sought.key)}
           t == [tx[c] EXCEPT !.arg = NoArg,
                              !.step = IF found = {} THEN "vanished" ELSE "open"]
<1>1. /\ Shape(tx[c]) /\ StepOK(c) /\ Numbered(c) /\ tx[c].inserted \subseteq Published(c)
      /\ tx[c].step = "lookup" /\ UNCHANGED storeVars /\ tx'[c] = t
  BY DEF Lookup, SqlInv, TransactionOK, Become
<1>2. Between(c) /\ Collides(c)
  BY <1>1, ClosedFacts DEF StepOK
<1>3. found # {}
  <2>1. PICK by \in {"job", "key"}, j \in Job, k \in DedupeKey \cup {NoKey} :
           /\ sought = [by |-> by, job |-> j, key |-> k]
           /\ by = "job" => Sees(c, j)
           /\ by = "key" => SeesUnderKey(c, k) # {}
    BY <1>2 DEF Collides
  <2>2. sought.by = by /\ sought.job = j /\ sought.key = k
    BY <2>1
  <2>3. CASE by = "job"
    BY <2>1, <2>2, <2>3
  <2>4. CASE by = "key"
    <3>1. PICK i \in Job : i \in SeesUnderKey(c, k)
      BY <2>1, <2>4 DEF SeesUnderKey
    <3>2. Sees(c, i)
      BY <3>1 DEF SeesUnderKey, Sees
    <3>3. QED
      BY <2>2, <2>4, <3>1, <3>2
  <2>5. QED
    BY <2>3, <2>4
<1> HIDE DEF found
<1>4. tx'[c] = [step |-> "open", rows |-> tx[c].rows, generations |-> tx[c].generations,
                inserted |-> tx[c].inserted, arg |-> NoArg]
  BY <1>1, <1>3 DEF Shape
<1>5. /\ Shape(tx'[c]) /\ Published(c)' = Published(c) /\ Rows(c)' = Rows(c)
      /\ tx'[c].inserted = tx[c].inserted /\ tx'[c].rows = tx[c].rows
      /\ tx'[c].step = "open" /\ tx'[c].generations = tx[c].generations
      /\ \A statuses : Intends(c, statuses) => Intends(c, statuses)'
  BY <1>4 DEF Shape, Published, Rows, Intends, Intent
<1>6. Between(c)'
  BY <1>1, <1>2, <1>5, KeptRows DEF Between
<1>7. Numbered(c)'
  BY <1>5, <1>1 DEF Numbered, storeVars, Published
<1>8. StepOK(c)'
  BY <1>5, <1>6 DEF StepOK
<1>9. QED
  BY <1>1, <1>5, <1>7, <1>8 DEF TransactionOK, Exclusive

(* One more generation of those the transaction owes its job rows.         *)
LEMMA InsertGenerationOK ==
    ASSUME SqlInv, NEW c \in Connection, InsertGeneration(c)
    PROVE  /\ TransactionOK(c)'
           /\ tx'[c].step \notin Exclusive /\ tx'[c].rows = tx[c].rows
<1> DEFINE submitted == tx[c].arg # NoArg
           row(j) == [status |-> IF submitted THEN tx[c].arg.status ELSE "pending",
                      available_at |-> tx[c].rows[j].available_at,
                      lease_id |-> NoLease, claim_expires_at |-> 0]
           entry(j) == [number |-> Len(publications[j]) + 1, row |-> row(j)]
           new(j) == With(tx[c].generations, j, entry(j))
           step(j) == IF submitted THEN "open"
                      ELSE IF Rows(c) = DOMAIN new(j) THEN "commit" ELSE "generation"
           inserted(j) == IF submitted THEN tx[c].inserted \cup {j} ELSE tx[c].inserted
<1>1. /\ Shape(tx[c]) /\ StepOK(c) /\ Numbered(c) /\ tx[c].inserted \subseteq Published(c)
      /\ tx[c].step = "generation" /\ UNCHANGED storeVars
  BY DEF InsertGeneration, SqlInv, TransactionOK
<1>2. PICK j \in Rows(c) \ Published(c) :
         tx'[c] = [tx[c] EXCEPT !.generations = new(j), !.arg = NoArg,
                                !.inserted = inserted(j), !.step = step(j)]
  BY DEF InsertGeneration, SqlInv, Become, Published
<1>3. tx'[c] = [step |-> step(j), rows |-> tx[c].rows, generations |-> new(j),
                inserted |-> inserted(j), arg |-> NoArg]
  BY <1>1, <1>2 DEF Shape
<1>4. /\ Shape(tx'[c]) /\ Rows(c)' = Rows(c) /\ tx'[c].rows = tx[c].rows
      /\ tx'[c].generations = new(j) /\ tx'[c].inserted = inserted(j)
      /\ tx'[c].arg = NoArg /\ tx'[c].step = step(j)
  BY <1>3 DEF Shape, Rows
<1> HIDE DEF new, entry
<1>5. /\ Published(c)' = {j} \cup Published(c)
      /\ tx'[c].generations[j] = entry(j)
      /\ \A i \in Published(c) : tx'[c].generations[i] = tx[c].generations[i]
  <2>1. /\ DOMAIN new(j) = {j} \cup Published(c) /\ new(j)[j] = entry(j)
        /\ \A i \in Published(c) : i # j => new(j)[i] = tx[c].generations[i]
    BY DEF Published, new, With
  <2>2. \A i \in Published(c) : i # j
    BY <1>2
  <2>3. tx'[c].generations = new(j)
    BY <1>4
  <2>4. QED
    BY <2>1, <2>2, <2>3 DEF Published
<1>6. entry(j).number = Len(publications[j]) + 1 /\ entry(j).row = row(j)
  BY DEF entry
<1>7. Publishes(c)
  BY <1>1, ClosedFacts DEF StepOK
<1>8. Numbered(c)'
  BY <1>1, <1>2, <1>4, <1>5, <1>6 DEF Numbered, storeVars
<1>9. CASE tx[c].arg = NoArg /\ Updates(c) /\ Intends(c, {"pending"})
  <2>1. /\ tx'[c].step \in {"commit", "generation"}
        /\ tx'[c].step = "commit" => Published(c)' = Rows(c)'
        /\ tx'[c].inserted \subseteq Published(c)'
    BY <1>1, <1>4, <1>5, <1>9 DEF Published
  <2>2. Updates(c)'
    BY <1>1, <1>4, <1>9, KeptRows
  <2>3. Intends(c, {"pending"})'
    BY <1>4, <1>5, <1>6, <1>9 DEF Intends, Intent
  <2>4. QED
    BY <1>4, <1>8, <2>1, <2>2, <2>3 DEF TransactionOK, StepOK, Publishes, Exclusive
<1>10. ASSUME NEW status \in {"pending", "published"}, tx[c].arg = [status |-> status],
              Submits(c), Published(c) = {}
       PROVE  TransactionOK(c)' /\ tx'[c].step = "open"
  <2>1. tx[c].arg # NoArg /\ tx[c].arg.status = status
    BY <1>10 DEF NoArg
  <2>2. tx'[c].step = "open" /\ tx'[c].inserted = {j} /\ row(j).status = status
    BY <1>1, <1>4, <1>10, <2>1
  <2>3. Rows(c) = {j} /\ Submits(c)'
    BY <1>1, <1>2, <1>4, <1>10, KeptRows DEF Submits
  <2>4. Intends(c, {"pending", "published"})'
    BY <1>4, <1>5, <1>6, <1>10, <2>1 DEF Intends, Intent
  <2>5. Between(c)'
    BY <1>4, <1>5, <1>10, <2>3, <2>4 DEF Between
  <2>6. QED
    BY <1>4, <1>5, <1>8, <2>2, <2>5 DEF TransactionOK, StepOK
<1>11. QED
  BY <1>4, <1>7, <1>9, <1>10 DEF Publishes, Exclusive

-----------------------------------------------------------------------------
(* A commit is one operation of the store, or writes nothing.              *)

(* What is committed, if each job row written has its generation.          *)
LEMMA Committed ==
    ASSUME SqlInv, NEW c \in Connection, Commit(c)
    PROVE  /\ Rows(c) \subseteq Job /\ Published(c) = Rows(c)
           /\ Rows(c) = {} \/ (Submits(c) /\ Intends(c, {"pending", "published"}))
              \/ (Updates(c) /\ Intends(c, {"pending"}))
           /\ \A j \in Job :
                 /\ jobs'[j] = IF j \in Rows(c) THEN tx[c].rows[j] ELSE jobs[j]
                 /\ publications'[j] =
                       IF j \in Rows(c)
                       THEN Append(publications[j], tx[c].generations[j].row)
                       ELSE publications[j]
           /\ locks' = locks /\ minted' = minted
<1>1. tx[c].step \in {"open", "commit"} /\ StepOK(c) /\ Rows(c) \subseteq Job
  BY Written DEF Commit, SqlInv, TransactionOK
<1>2. /\ Published(c) = Rows(c)
      /\ Rows(c) = {} \/ (Submits(c) /\ Intends(c, {"pending", "published"}))
              \/ (Updates(c) /\ Intends(c, {"pending"}))
  BY <1>1, ClosedFacts DEF StepOK, Between
<1>3. \A j \in Job :
         /\ jobs'[j] = IF j \in Rows(c) THEN tx[c].rows[j] ELSE jobs[j]
         /\ publications'[j] = IF j \in Rows(c)
                               THEN Append(publications[j], tx[c].generations[j].row)
                               ELSE publications[j]
  BY <1>2 DEF Commit, Published
<1>4. QED
  BY <1>1, <1>2, <1>3 DEF Commit

(* A commit leaves every dedupe entry that is not of a row it inserted.    *)
LEMMA KeysCommitted ==
    ASSUME SqlInv, NEW c \in Connection, Commit(c)
    PROVE  /\ \A k \in DedupeKey :
                 IF \E j \in Rows(c) : tx[c].rows[j].key = k
                 THEN fingerprints'[k] \in Rows(c) /\ tx[c].rows[fingerprints'[k]].key = k
                 ELSE fingerprints'[k] = fingerprints[k]
           /\ fingerprints' = [k \in DedupeKey |-> fingerprints'[k]]
<1>1. ASSUME NEW k \in DedupeKey, NEW j \in Rows(c), tx[c].rows[j].key = k
      PROVE  fingerprints'[k] \in Rows(c) /\ tx[c].rows[fingerprints'[k]].key = k
  BY <1>1 DEF Commit
<1>2. ASSUME NEW k \in DedupeKey, ~ \E j \in Rows(c) : tx[c].rows[j].key = k
      PROVE  fingerprints'[k] = fingerprints[k]
  BY <1>2 DEF Commit
<1>3. fingerprints' = [k \in DedupeKey |-> fingerprints'[k]]
  BY DEF Commit
<1>4. QED
  BY <1>1, <1>2, <1>3

(* What is inserted as a publication row.                                  *)
LEMMA IntentFacts ==
    ASSUME NEW c \in Connection, NEW j, NEW status
    PROVE  Append(publications[j], Intent(c, j, status))
              = insert_publication(j, tx[c].rows[j].available_at, status)
BY DEF Intent, insert_publication

LEMMA CommitEmpty ==
    ASSUME SqlInv, NEW c \in Connection, Commit(c), Rows(c) = {}
    PROVE  UNCHANGED storeVars
<1>1. \A j \in Job : jobs'[j] = jobs[j] /\ publications'[j] = publications[j]
  BY Committed
<1>2. \A k \in DedupeKey : fingerprints'[k] = fingerprints[k]
  BY KeysCommitted
<1>3. jobs' = jobs /\ publications' = publications /\ fingerprints' = fingerprints
  <2>1. /\ jobs = [j \in Job |-> jobs[j]] /\ jobs' = [j \in Job |-> jobs'[j]]
        /\ publications = [j \in Job |-> publications[j]]
        /\ publications' = [j \in Job |-> publications'[j]]
        /\ fingerprints = [k \in DedupeKey |-> fingerprints[k]]
        /\ fingerprints' = [k \in DedupeKey |-> fingerprints'[k]]
    BY KeysCommitted DEF Commit, SqlInv, StoreInv, JobsOK, PublicationsOK, KeysOK
  <2>2. QED
    BY <1>1, <1>2, <2>1
<1>4. QED
  BY <1>3, Committed DEF storeVars

LEMMA CommitSubmission ==
    ASSUME SqlInv, NEW c \in Connection, Commit(c), Submits(c),
           Intends(c, {"pending", "published"})
    PROVE  SubmitNext
<1>1. PICK j \in Job, k \in DedupeKey \cup {NoKey}, f \in Fingerprint, at \in Instant :
         /\ Rows(c) = {j} /\ tx[c].rows[j] = pending_record(k, f, at)
         /\ Insertable(j, k) /\ RoomForGeneration(j)
  BY DEF Submits
<1>2. tx[c].rows[j].key = k /\ tx[c].rows[j].available_at = at
  BY <1>1, SubmittedRow
<1>3. PICK status \in {"pending", "published"} :
         tx[c].generations[j].row = Intent(c, j, status)
  BY <1>1, Committed DEF Intends
<1>4. jobs' = [jobs EXCEPT ![j] = pending_record(k, f, at)]
  <2>1. jobs' = [i \in Job |-> jobs'[i]] /\ jobs = [i \in Job |-> jobs[i]]
    BY DEF Commit, SqlInv, StoreInv, JobsOK
  <2>2. \A i \in Job : jobs'[i] = IF i = j THEN pending_record(k, f, at) ELSE jobs[i]
    BY <1>1, Committed
  <2>3. QED
    BY <2>1, <2>2
<1>5. publications' = [publications EXCEPT ![j] = insert_publication(j, at, status)]
  <2>1. /\ publications' = [i \in Job |-> publications'[i]]
        /\ publications = [i \in Job |-> publications[i]]
    BY DEF Commit, SqlInv, StoreInv, PublicationsOK
  <2>2. Append(publications[j], tx[c].generations[j].row)
           = insert_publication(j, at, status)
    BY <1>2, <1>3, IntentFacts
  <2>3. \A i \in Job : publications'[i] = IF i = j THEN insert_publication(j, at, status)
                                          ELSE publications[i]
    BY <1>1, <2>2, Committed
  <2>4. QED
    BY <2>1, <2>3
<1>6. fingerprints' = IF k = NoKey THEN fingerprints ELSE [fingerprints EXCEPT ![k] = j]
  <2>1. /\ fingerprints' = [i \in DedupeKey |-> fingerprints'[i]]
        /\ fingerprints = [i \in DedupeKey |-> fingerprints[i]]
    BY KeysCommitted DEF SqlInv, StoreInv, KeysOK
  <2>2. \A i \in DedupeKey : fingerprints'[i] = IF i = k THEN j ELSE fingerprints[i]
    BY <1>1, <1>2, KeysCommitted
  <2>3. QED
    BY <2>1, <2>2, StoreAssumption
<1>7. Insert(j, k, f, at, status)
  BY <1>1, <1>4, <1>5, <1>6, Committed DEF Insert
<1>8. QED
  BY <1>7 DEF SubmitNext, enqueue_with_intent, ingest_existing_delivery

(* An update leaves the dedupe entries, which are of the rows' keys.       *)
LEMMA UpdateKeepsKeys ==
    ASSUME SqlInv, NEW c \in Connection, Commit(c), Updates(c)
    PROVE  fingerprints' = fingerprints
<1>1. ASSUME NEW k \in DedupeKey PROVE fingerprints'[k] = fingerprints[k]
  <2>1. ASSUME NEW j \in Rows(c), tx[c].rows[j].key = k PROVE fingerprints[k] = j
    BY <2>1, Updated, StoreAssumption DEF SqlInv, StoreInv, KeysOK, OneJobPerKey
  <2>2. QED
    BY <2>1, KeysCommitted
<1>2. /\ fingerprints' = [i \in DedupeKey |-> fingerprints'[i]]
      /\ fingerprints = [i \in DedupeKey |-> fingerprints[i]]
  BY KeysCommitted DEF SqlInv, StoreInv, KeysOK
<1>3. QED
  BY <1>1, <1>2

(* ... and appends to the publications what its rows are available from.   *)
LEMMA UpdatePublishes ==
    ASSUME SqlInv, NEW c \in Connection, Commit(c), Intends(c, {"pending"})
    PROVE  \A j \in Job : publications'[j] =
              IF j \in Rows(c)
              THEN insert_publication(j, tx[c].rows[j].available_at, "pending")
              ELSE publications[j]
<1>1. ASSUME NEW j \in Job, j \in Rows(c)
      PROVE  publications'[j] = insert_publication(j, tx[c].rows[j].available_at, "pending")
  <2>1. tx[c].generations[j].row = Intent(c, j, "pending")
    BY <1>1, Committed DEF Intends
  <2>2. publications'[j] = Append(publications[j], tx[c].generations[j].row)
    BY <1>1, Committed
  <2>3. QED
    BY <2>1, <2>2, IntentFacts
<1>2. ASSUME NEW j \in Job, j \notin Rows(c) PROVE publications'[j] = publications[j]
  BY <1>2, Committed
<1>3. QED
  BY <1>1, <1>2

(* One row, written by a retry or a rerun.                                 *)
LEMMA CommitOne ==
    ASSUME SqlInv, NEW c \in Connection, Commit(c), Updates(c), Intends(c, {"pending"}),
           NEW j \in Job, Rows(c) = {j}
    PROVE  /\ jobs' = [jobs EXCEPT ![j] = tx[c].rows[j]]
           /\ publications' = [publications EXCEPT ![j] =
                 insert_publication(j, tx[c].rows[j].available_at, "pending")]
           /\ UNCHANGED <<fingerprints, locks, minted>>
<1> DEFINE ps == insert_publication(j, tx[c].rows[j].available_at, "pending")
<1>1. /\ jobs' = [i \in Job |-> jobs'[i]] /\ jobs = [i \in Job |-> jobs[i]]
      /\ publications' = [i \in Job |-> publications'[i]]
      /\ publications = [i \in Job |-> publications[i]]
  BY DEF Commit, SqlInv, StoreInv, JobsOK, PublicationsOK
<1>2. \A i \in Job : /\ jobs'[i] = IF i = j THEN tx[c].rows[j] ELSE jobs[i]
                     /\ publications'[i] = IF i = j THEN ps ELSE publications[i]
  BY Committed, UpdatePublishes
<1> HIDE DEF ps
<1>3. jobs' = [jobs EXCEPT ![j] = tx[c].rows[j]]
      /\ publications' = [publications EXCEPT ![j] = ps]
  BY <1>1, <1>2
<1>4. QED
  BY <1>3, Committed, UpdateKeepsKeys DEF ps

LEMMA CommitUpdate ==
    ASSUME SqlInv, NEW c \in Connection, Commit(c), Updates(c), Intends(c, {"pending"})
    PROVE  ExecutionNext \/ OperatorNext
<1>0. StoreInv
  BY DEF SqlInv
<1>1. CASE Retries(c)
  <2>1. PICK j \in Job, lease \in 1..minted, next \in Instant :
           /\ Rows(c) = {j}
           /\ tx[c].rows[j] = [Settled(jobs[j], "pending", lease, "retried") EXCEPT
                                  !.available_at = next]
           /\ LeaseHeld(j, lease) /\ CanRevise(j) /\ RoomForGeneration(j)
    BY <1>1 DEF Retries
  <2> DEFINE row == [Settled(jobs[j], "pending", lease, "retried") EXCEPT
                        !.available_at = next]
  <2>2. row.available_at = next
    BY <2>1, <1>0, RetriedRow
  <2>3. tx[c].rows[j] = row
    BY <2>1
  <2>4. /\ jobs' = [jobs EXCEPT ![j] = row]
        /\ publications' = [publications EXCEPT ![j] =
                               insert_publication(j, next, "pending")]
        /\ UNCHANGED <<fingerprints, locks, minted>>
    <3> HIDE DEF row
    <3>1. QED
      BY <2>1, <2>2, <2>3, CommitOne
  <2>5. schedule_retry_and_publish(j, lease, next)
    BY <2>1, <2>4 DEF schedule_retry_and_publish
  <2>6. QED
    BY <2>5 DEF ExecutionNext
<1>2. CASE Reruns(c)
  <2>1. PICK j \in Job, revision \in 1..MaxRevision, now \in Instant :
           /\ Rows(c) = {j}
           /\ tx[c].rows[j] = [Reopened(jobs[j], now) EXCEPT !.attempt_count = 0]
           /\ jobs[j].revision = revision /\ jobs[j].status = "failed_permanently"
           /\ CanRevise(j) /\ RoomForGeneration(j)
    BY <1>2 DEF Reruns
  <2> DEFINE row == [Reopened(jobs[j], now) EXCEPT !.attempt_count = 0]
  <2>2. row.available_at = now
    BY <1>0, ReopenedRow
  <2>3. tx[c].rows[j] = row
    BY <2>1
  <2>4. /\ jobs' = [jobs EXCEPT ![j] = row]
        /\ publications' = [publications EXCEPT ![j] =
                               insert_publication(j, now, "pending")]
        /\ UNCHANGED <<fingerprints, locks, minted>>
    <3> HIDE DEF row
    <3>1. QED
      BY <2>1, <2>2, <2>3, CommitOne
  <2>5. retry_failed(j, revision, now)
    BY <2>1, <2>4 DEF retry_failed
  <2>6. QED
    BY <2>5 DEF OperatorNext
<1>3. ASSUME NEW now \in Instant, Recovers(c, now) PROVE OperatorNext
  <2>1. /\ Rows(c) # {} /\ Rows(c) \in SUBSET ExpiredLeases(now)
        /\ \A j \in Rows(c) :
              /\ tx[c].rows[j] = Reopened(jobs[j], now)
              /\ CanRevise(j) /\ RoomForGeneration(j)
    BY <1>3 DEF Updates, Recovers, ExpiredLeases
  <2>2. \A j \in Job :
           jobs'[j] = IF j \in Rows(c) THEN Reopened(jobs[j], now) ELSE jobs[j]
    BY <2>1, Committed
  <2>3. \A j \in Job : publications'[j] = IF j \in Rows(c)
                                          THEN insert_publication(j, now, "pending")
                                          ELSE publications[j]
    <3>1. \A j \in Rows(c) : j \in Job /\ tx[c].rows[j].available_at = now
      BY <2>1, ReopenedRow, Committed DEF SqlInv
    <3>2. QED
      BY <3>1, UpdatePublishes
  <2>4. /\ jobs' = [j \in Job |-> jobs'[j]]
        /\ publications' = [j \in Job |-> publications'[j]]
    BY DEF Commit
  <2>5. jobs' = [j \in Job |->
                   IF j \in Rows(c) THEN Reopened(jobs[j], now) ELSE jobs[j]]
    BY <2>2, <2>4
  <2>6. publications' = [j \in Job |->
                           IF j \in Rows(c) THEN insert_publication(j, now, "pending")
                           ELSE publications[j]]
    BY <2>3, <2>4
  <2>7. RecoverLeases(Rows(c), now)
    BY <2>1, <2>5, <2>6, Committed, UpdateKeepsKeys DEF RecoverLeases
  <2>8. QED
    BY <2>1, <2>7 DEF OperatorNext
<1>4. QED
  BY <1>1, <1>2, <1>3 DEF Updates

LEMMA CommitRefines ==
    ASSUME SqlInv, NEW c \in Connection, Commit(c)
    PROVE  [StoreNext]_storeVars
BY Committed, CommitEmpty, CommitSubmission, CommitUpdate DEF StoreNext

-----------------------------------------------------------------------------
(* Steps that change the committed rows.                                   *)

(* Every transaction ends with the step, or is spared by it.               *)
LEMMA SharedStep ==
    ASSUME SqlInv, StoreInv', UNCHANGED adapter, tx' = [c \in Connection |-> tx'[c]],
           \A c \in Connection :
              \/ tx'[c] = Closed
              \/ tx'[c] = tx[c] /\ tx[c].step \notin Exclusive /\ Spares(c)
    PROVE  SqlInv'
<1>1. ASSUME NEW c \in Connection PROVE TransactionOK(c)'
  <2>1. CASE tx'[c] = Closed
    BY <2>1, ClosedOK
  <2>2. CASE tx'[c] = tx[c] /\ tx[c].step \notin Exclusive /\ Spares(c)
    BY <2>2, SparedTransaction DEF SqlInv
  <2>3. QED
    BY <2>1, <2>2
<1>2. \A c \in Connection : Rows(c)' = {} \/ tx'[c] = tx[c]
  BY ClosedFacts DEF Rows
<1>3. WritesAreDisjoint'
  BY <1>2 DEF SqlInv, WritesAreDisjoint, Rows
<1>4. AdapterOK'
  <2>1. Closed.step \notin Exclusive
    BY ClosedFacts DEF Exclusive
  <2>2. QED
    BY <2>1 DEF SqlInv, AdapterOK
<1>5. QED
  BY <1>1, <1>3, <1>4 DEF SqlInv

(* Nobody else has an uncommitted row or key of those a commit changes.    *)
LEMMA CommitSpares ==
    ASSUME SqlInv, NEW c \in Connection, Commit(c), NEW o \in Others(c)
    PROVE  tx'[o] = tx[o] /\ Spares(o)
<1>0. o \in Connection /\ o # c /\ StoreInv /\ TransactionOK(o) /\ TransactionOK(c)
  BY DEF Others, SqlInv
<1>1. tx'[o] = tx[o]
  BY <1>0 DEF Commit, Become, SqlInv
<1>2. ASSUME NEW j \in Rows(o)
      PROVE  /\ jobs'[j] = jobs[j] /\ publications'[j] = publications[j]
             /\ \A k \in DedupeKey :
                   tx[o].rows[j].key = k => fingerprints'[k] = fingerprints[k]
  <2>1. j \in Job /\ j \notin Rows(c)
    BY <1>0, Written DEF SqlInv, WritesAreDisjoint
  <2>2. ASSUME NEW k \in DedupeKey, tx[o].rows[j].key = k
        PROVE  ~ \E i \in Rows(c) : tx[c].rows[i].key = k
    BY <1>0, <2>2, StoreAssumption DEF SqlInv, WritesAreDisjoint
  <2>3. \A k \in DedupeKey :
           tx[o].rows[j].key = k => fingerprints'[k] = fingerprints[k]
    BY <2>2, KeysCommitted
  <2>4. QED
    BY <2>1, <2>3, Committed
<1>3. ASSUME NEW j \in Job, jobs[j].status # "absent"
      PROVE  jobs'[j].status # "absent" /\ jobs'[j].key = jobs[j].key
  <2>1. CASE j \in Rows(c)
    <3>1. jobs'[j] = tx[c].rows[j]
      BY <2>1, Committed
    <3>2. QED
      BY <1>0, <1>3, <2>1, <3>1, Written
  <2>2. CASE j \notin Rows(c)
    BY <1>3, <2>2, Committed
  <2>3. QED
    BY <2>1, <2>2
<1>4. minted' \in Nat /\ minted <= minted'
  BY <1>0, Committed DEF StoreInv, JobsOK
<1>5. QED
  BY <1>1, <1>2, <1>3, <1>4 DEF Spares

(* A statement outside the transactions writes no row of theirs.           *)
LEMMA StatementSpares ==
    ASSUME StoreInv, StoreInv', UNCHANGED <<tx, fingerprints>>, minted <= minted',
           \A j \in Job :
              /\ Len(publications'[j]) = Len(publications[j])
              /\ jobs'[j] # jobs[j] => /\ Unlocked(j)
                                       /\ jobs'[j].status # "absent"
                                       /\ jobs'[j].key = jobs[j].key,
           NEW c \in Connection, TransactionOK(c)
    PROVE  Spares(c)
<1>1. Rows(c) \subseteq Job
  BY Written
<1>2. minted' \in Nat
  BY DEF StoreInv, JobsOK
<1>3. QED
  BY <1>1, <1>2 DEF Spares, Unlocked

(* Beside a transaction that has begun, no other holds the write lock.     *)
LEMMA OthersRest ==
    ASSUME SqlInv, NEW c \in Connection, tx[c] # Closed, NEW o \in Others(c)
    PROVE  tx[o] = Closed \/ tx[o].step \notin Exclusive
BY DEF SqlInv, AdapterOK, Others

(* The transaction ends.                                                   *)
LEMMA Ends ==
    ASSUME SqlInv, NEW c \in Connection, Become(c, Closed)
    PROVE  /\ tx' = [d \in Connection |-> tx'[d]]
           /\ tx'[c] = Closed
           /\ \A o \in Others(c) : tx'[o] = tx[o]
BY DEF SqlInv, Become, Others

LEMMA CommitInv ==
    ASSUME SqlInv, NEW c \in Connection, Commit(c), UNCHANGED adapter
    PROVE  SqlInv' /\ [StoreNext]_storeVars
<1>1. [StoreNext]_storeVars /\ StoreInv'
  BY CommitRefines, StepInv DEF SqlInv
<1>2. Become(c, Closed) /\ tx[c] # Closed
  BY ClosedFacts DEF Commit
<1>3. ASSUME NEW o \in Others(c)
      PROVE  tx'[o] = Closed \/ (tx'[o] = tx[o] /\ tx[o].step \notin Exclusive /\ Spares(o))
  BY <1>2, CommitSpares, OthersRest
<1>4. QED
  BY <1>1, <1>2, <1>3, Ends, SharedStep DEF Others

LEMMA RollbackInv ==
    ASSUME SqlInv, NEW c \in Connection, Rollback(c), UNCHANGED adapter
    PROVE  SqlInv' /\ UNCHANGED storeVars
<1>1. UNCHANGED storeVars /\ StoreInv'
  BY StepInv DEF SqlInv, Rollback
<1>2. Become(c, Closed) /\ tx[c] # Closed
  BY ClosedFacts DEF Rollback
<1>3. ASSUME NEW o \in Others(c)
      PROVE  tx'[o] = Closed \/ (tx'[o] = tx[o] /\ tx[o].step \notin Exclusive /\ Spares(o))
  <2>1. o \in Connection /\ tx'[o] = tx[o]
    BY <1>2, Ends DEF Others
  <2>2. QED
    BY <1>1, <1>2, <2>1, OthersRest, KeptRows
<1>4. QED
  BY <1>1, <1>2, <1>3, Ends, SharedStep DEF Others

-----------------------------------------------------------------------------
(* PostgreSQL: transactions.                                               *)

(* Lookup and InsertGeneration, on either database: no new row.            *)
LEMMA SameRowsInv ==
    ASSUME SqlInv, NEW c \in Connection, Lookup(c) \/ InsertGeneration(c), UNCHANGED adapter
    PROVE  SqlInv' /\ UNCHANGED storeVars
<1>1. /\ TransactionOK(c)' /\ tx'[c].step \notin Exclusive /\ tx'[c].rows = tx[c].rows
      /\ UNCHANGED storeVars /\ tx[c] # Closed
  BY LookupOK, InsertGenerationOK, ClosedFacts DEF Lookup, InsertGeneration
<1>2. PICK t : Become(c, t)
  BY DEF Lookup, InsertGeneration
<1>3. tx'[c] = t
  BY <1>2 DEF Become, SqlInv
<1>4. adapter = "sqlite" => WriteLock(c)
  BY <1>1, ClosedFacts DEF SqlInv, AdapterOK, WriteLock, Others
<1>5. \A o \in Others(c) : \A j \in Rows(o) :
         /\ j \notin Rows(c)
         /\ \A i \in Rows(c) :
               tx[c].rows[i].key = tx[o].rows[j].key => tx[c].rows[i].key = NoKey
  BY DEF SqlInv, WritesAreDisjoint, Others
<1>6. DOMAIN t.rows = Rows(c) /\ t.rows = tx[c].rows /\ t.step \notin Exclusive
  BY <1>1, <1>3 DEF Rows
<1>7. QED
  BY <1>1, <1>2, <1>4, <1>5, <1>6, PrivateStep

LEMMA PgInsertInv ==
    ASSUME SqlInv, adapter = "postgres", UNCHANGED adapter, NEW c \in Connection,
           NEW j \in Job, NEW k \in DedupeKey \cup {NoKey}, NEW f \in Fingerprint,
           NEW at \in Instant, NEW status \in {"pending", "published"},
           PgInsert(c, j, k, f, at, status)
    PROVE  SqlInv' /\ UNCHANGED storeVars
<1>1. /\ TransactionOK(c)' /\ tx'[c].step \notin Exclusive
      /\ tx'[c].rows = tx[c].rows \/ tx'[c].rows = Row(j, pending_record(k, f, at))
      /\ UNCHANGED storeVars
  BY InsertRowOK DEF PgInsert, InsertRow
<1>2. PICK t : Become(c, t)
  BY DEF PgInsert, InsertRow
<1>3. tx'[c] = t
  BY <1>2 DEF Become, SqlInv
<1>4. ASSUME NEW o \in Others(c), NEW i \in Rows(o)
      PROVE  /\ i \notin DOMAIN t.rows
             /\ \A r \in DOMAIN t.rows :
                   t.rows[r].key = tx[o].rows[i].key => t.rows[r].key = NoKey
  <2>1. CASE t.rows = tx[c].rows
    BY <1>4, <2>1 DEF SqlInv, WritesAreDisjoint, Others, Rows
  <2>2. CASE t.rows = Row(j, pending_record(k, f, at))
    <3> DEFINE r == pending_record(k, f, at)
    <3>0. r.key = k
      BY SubmittedRow
    <3> HIDE DEF r
    <3>1. DOMAIN t.rows = {j} /\ t.rows[j].key = k
      BY <2>2, <3>0 DEF r, Row
    <3>2. i # j /\ (k # NoKey => tx[o].rows[i].key # k)
      BY <1>4 DEF PgInsert, RowFree, KeyFree
    <3>3. QED
      BY <3>1, <3>2
  <2>3. QED
    BY <1>1, <1>3, <2>1, <2>2
<1>5. QED
  BY <1>1, <1>2, <1>3, <1>4, PrivateStep

(* An update of a row that is there, of which no other transaction has     *)
(* written, opens a transaction.                                           *)
LEMMA RowOpensInv ==
    ASSUME SqlInv, UNCHANGED <<storeVars, adapter>>, NEW c \in Connection,
           NEW j \in Job, NEW row, RowFree(c, j), row.key = jobs[j].key,
           tx[c] = Closed, Become(c, Transaction("generation", Row(j, row), NoArg)),
           Updates(c)', adapter = "sqlite" => WriteLock(c)
    PROVE  SqlInv'
<1> DEFINE t == Transaction("generation", Row(j, row), NoArg)
<1>1. t.step = "generation" /\ t.rows = Row(j, row) /\ t.step \notin Exclusive
  BY TransactionFacts DEF Exclusive
<1>2. DOMAIN t.rows = {j} /\ t.rows[j] = row
  BY <1>1, RowFacts
<1>3. tx'[c] = t
  BY DEF Become, SqlInv
<1>4. TransactionOK(c)'
  BY <1>3, UpdateOpens
<1> HIDE DEF t
<1>5. ASSUME NEW o \in Others(c), NEW i \in Rows(o)
      PROVE  /\ i \notin DOMAIN t.rows
             /\ \A r \in DOMAIN t.rows :
                   t.rows[r].key = tx[o].rows[i].key => t.rows[r].key = NoKey
  <2>1. j \notin Rows(o) /\ o \in Connection
    BY DEF RowFree, Others
  <2>2. row.key = tx[o].rows[i].key => row.key = NoKey
    BY <2>1, OwnKeys
  <2>3. QED
    BY <1>2, <2>1, <2>2
<1>6. Become(c, t)
  BY DEF t
<1>7. QED
  BY <1>1, <1>4, <1>5, <1>6, PrivateStep

LEMMA RetryOpensInv ==
    ASSUME SqlInv, UNCHANGED <<storeVars, adapter>>, NEW c \in Connection,
           NEW j \in Job, NEW lease \in 1..minted, NEW next \in Instant,
           RowFree(c, j), LeaseHeld(j, lease), CanRevise(j), RoomForGeneration(j),
           tx[c] = Closed, adapter = "sqlite" => WriteLock(c),
           Become(c, Transaction("generation",
                       Row(j, [Settled(jobs[j], "pending", lease, "retried") EXCEPT
                                  !.available_at = next]), NoArg))
    PROVE  SqlInv'
<1> DEFINE row == [Settled(jobs[j], "pending", lease, "retried") EXCEPT
                      !.available_at = next]
           t == Transaction("generation", Row(j, row), NoArg)
<1>1. row.key = jobs[j].key
  BY RetriedRow DEF SqlInv
<1>2. tx'[c] = t
  BY DEF Become, SqlInv
<1> HIDE DEF row
<1>3. Rows(c)' = {j} /\ tx'[c].rows[j] = row
  <2>1. tx'[c].rows = Row(j, row)
    BY <1>2 DEF Transaction
  <2>2. QED
    BY <2>1 DEF Rows, Row
<1>4. jobs' = jobs /\ publications' = publications /\ minted' = minted
  BY DEF storeVars
<1>5. row = [Settled(jobs'[j], "pending", lease, "retried") EXCEPT !.available_at = next]
  BY <1>4 DEF row
<1>6. Updates(c)'
  BY <1>3, <1>4, <1>5 DEF Updates, Retries, LeaseHeld, CanRevise, RoomForGeneration
<1>7. Become(c, Transaction("generation", Row(j, row), NoArg))
  BY DEF row
<1>8. QED
  BY <1>1, <1>6, <1>7, RowOpensInv

LEMMA RerunOpensInv ==
    ASSUME SqlInv, UNCHANGED <<storeVars, adapter>>, NEW c \in Connection,
           NEW j \in Job, NEW revision \in 1..MaxRevision, NEW now \in Instant,
           RowFree(c, j), CanRevise(j), RoomForGeneration(j),
           jobs[j].revision = revision, jobs[j].status = "failed_permanently",
           tx[c] = Closed, adapter = "sqlite" => WriteLock(c),
           Become(c, Transaction("generation",
                       Row(j, [Reopened(jobs[j], now) EXCEPT !.attempt_count = 0]), NoArg))
    PROVE  SqlInv'
<1> DEFINE row == [Reopened(jobs[j], now) EXCEPT !.attempt_count = 0]
           t == Transaction("generation", Row(j, row), NoArg)
<1>1. row.key = jobs[j].key
  BY ReopenedRow DEF SqlInv
<1>2. tx'[c] = t
  BY DEF Become, SqlInv
<1> HIDE DEF row
<1>3. Rows(c)' = {j} /\ tx'[c].rows[j] = row
  <2>1. tx'[c].rows = Row(j, row)
    BY <1>2 DEF Transaction
  <2>2. QED
    BY <2>1 DEF Rows, Row
<1>4. jobs' = jobs /\ publications' = publications /\ minted' = minted
  BY DEF storeVars
<1>5. row = [Reopened(jobs'[j], now) EXCEPT !.attempt_count = 0]
  BY <1>4 DEF row
<1>6. Updates(c)'
  BY <1>3, <1>4, <1>5 DEF Updates, Reruns, CanRevise, RoomForGeneration
<1>7. Become(c, Transaction("generation", Row(j, row), NoArg))
  BY DEF row
<1>8. QED
  BY <1>1, <1>6, <1>7, RowOpensInv

(* A transaction that has written nothing yet begins.                      *)
LEMMA EmptyOpensInv ==
    ASSUME SqlInv, UNCHANGED <<storeVars, adapter>>, NEW c \in Connection,
           NEW step, NEW arg, Become(c, Transaction(step, <<>>, arg)),
           \/ step = "recover" /\ Rechecks(c)'
           \/ step = "claim" /\ Claims(c)'
           \/ step = "update" /\ ClaimsDue(c)'
           \/ step = "write_lock" /\ Locks(c)',
           adapter = "postgres" => step = "recover",
           adapter = "sqlite" => WriteLock(c)
    PROVE  SqlInv'
<1> DEFINE t == Transaction(step, <<>>, arg)
<1>1. t.step = step /\ DOMAIN t.rows = {}
  BY TransactionFacts, NoRows
<1>2. tx'[c] = t /\ Become(c, t)
  BY DEF Become, SqlInv
<1>3. TransactionOK(c)'
  BY <1>2, EmptyOpens
<1> HIDE DEF t
<1>4. adapter = "postgres" => t.step \notin Exclusive
  BY <1>1 DEF Exclusive
<1>5. QED
  BY <1>1, <1>2, <1>3, <1>4, PrivateStep

LEMMA PgRecoverScanInv ==
    ASSUME SqlInv, adapter = "postgres", UNCHANGED adapter, NEW c \in Connection,
           NEW now \in Instant, PgRecoverScan(c, now)
    PROVE  SqlInv' /\ UNCHANGED storeVars
<1> DEFINE arg == [now |-> now, rows |-> ExpiredLeases(now)]
<1>1. Become(c, Transaction("recover", <<>>, arg)) /\ UNCHANGED storeVars
  BY DEF PgRecoverScan
<1>2. tx'[c] = Transaction("recover", <<>>, arg)
  BY <1>1 DEF Become, SqlInv
<1> HIDE DEF arg
<1>3. tx'[c].arg = arg /\ Rows(c)' = {} /\ Published(c)' = {}
  BY <1>2, TransactionFacts, NoRows DEF Rows, Published
<1>4. ExpiredLeases(now) \in SUBSET Job
  BY DEF ExpiredLeases
<1>5. Rechecks(c)'
  BY <1>3, <1>4 DEF Rechecks, Recovers, arg
<1>6. QED
  BY <1>1, <1>5, EmptyOpensInv

LEMMA PgRecoverRowInv ==
    ASSUME SqlInv, adapter = "postgres", UNCHANGED adapter, NEW c \in Connection,
           PgRecoverRow(c)
    PROVE  SqlInv' /\ UNCHANGED storeVars
<1>1. /\ Shape(tx[c]) /\ StepOK(c) /\ tx[c].inserted \subseteq Published(c)
      /\ tx[c].step = "recover" /\ UNCHANGED storeVars
  BY DEF PgRecoverRow, SqlInv, TransactionOK
<1>2. Rechecks(c)
  BY <1>1, ClosedFacts DEF StepOK
<1>3. PICK now \in Instant, expired \in SUBSET Job :
         /\ tx[c].arg = [now |-> now, rows |-> expired]
         /\ Recovers(c, now) /\ Published(c) = {}
  BY <1>2 DEF Rechecks
<1>4. tx[c].arg.now = now /\ tx[c].arg.rows = expired
  BY <1>3
<1> DEFINE rows(j) == IF LeaseExpired(jobs[j], now)
                      THEN With(tx[c].rows, j, Reopened(jobs[j], now))
                      ELSE tx[c].rows
           rest(j) == expired \ {j}
           next(j) == CASE rest(j) # {} -> [tx[c] EXCEPT !.rows = rows(j),
                                                         !.arg.rows = rest(j)]
                        [] rest(j) = {} /\ DOMAIN rows(j) = {} -> Closed
                        [] OTHER -> Transaction("generation", rows(j), NoArg)
<1>5. PICK j \in expired :
         /\ RowFree(c, j) /\ CanRevise(j) /\ RoomForGeneration(j)
         /\ Become(c, next(j))
  BY <1>4 DEF PgRecoverRow
<1>6. /\ DOMAIN rows(j) \subseteq Rows(c) \cup {j}
      /\ \A i \in DOMAIN rows(j) :
            /\ i \in Job /\ rows(j)[i] = Reopened(jobs[i], now)
            /\ LeaseExpired(jobs[i], now) /\ CanRevise(i) /\ RoomForGeneration(i)
  <2>1. CASE LeaseExpired(jobs[j], now)
    <3>1. /\ DOMAIN rows(j) = {j} \cup Rows(c)
          /\ rows(j)[j] = Reopened(jobs[j], now)
          /\ \A i \in Rows(c) : i # j => rows(j)[i] = tx[c].rows[i]
      BY <2>1 DEF With, Rows
    <3> HIDE DEF rows
    <3>2. QED
      BY <2>1, <3>1, <1>3, <1>5 DEF Recovers
  <2>2. CASE ~LeaseExpired(jobs[j], now)
    <3>1. rows(j) = tx[c].rows
      BY <2>2
    <3> HIDE DEF rows
    <3>2. QED
      BY <3>1, <1>3 DEF Recovers, Rows
  <2>3. QED
    BY <2>1, <2>2
<1> HIDE DEF rows
<1>7. tx'[c] = next(j)
  BY <1>5 DEF Become, SqlInv
<1>8. ASSUME Rows(c)' = DOMAIN rows(j), tx'[c].rows = rows(j)
      PROVE  Recovers(c, now)'
  BY <1>1, <1>6, <1>8 DEF Recovers, storeVars, CanRevise, RoomForGeneration
<1>9. /\ TransactionOK(c)' /\ tx'[c].step \notin Exclusive
      /\ Rows(c)' \subseteq DOMAIN rows(j)
      /\ Rows(c)' # {} => tx'[c].rows = rows(j)
  <2>1. CASE rest(j) # {}
    <3>1. tx'[c] = [tx[c] EXCEPT !.rows = rows(j), !.arg.rows = rest(j)]
      BY <2>1, <1>7
    <3> HIDE DEF rest
    <3>2. tx'[c] = [step |-> "recover", rows |-> rows(j),
                    generations |-> tx[c].generations, inserted |-> tx[c].inserted,
                    arg |-> [now |-> now, rows |-> rest(j)]]
      <4>1. PICK arg : arg = [tx[c].arg EXCEPT !.rows = rest(j)]
        OBVIOUS
      <4>2. arg = [now |-> now, rows |-> rest(j)]
        BY <4>1, <1>3
      <4>3. tx'[c] = [tx[c] EXCEPT !.rows = rows(j), !.arg = arg]
        BY <3>1, <4>1
      <4>4. QED
        BY <4>2, <4>3, <1>1 DEF Shape
    <3>3. /\ Shape(tx'[c]) /\ tx'[c].step = "recover" /\ tx'[c].rows = rows(j)
          /\ Rows(c)' = DOMAIN rows(j) /\ Published(c)' = {} /\ tx'[c].inserted = {}
          /\ tx'[c].arg = [now |-> now, rows |-> rest(j)]
      BY <3>2, <1>1, <1>3 DEF Shape, Rows, Published
    <3>4. rest(j) \in SUBSET Job
      BY DEF rest
    <3>5. Rechecks(c)'
      BY <3>3, <3>4, <1>8 DEF Rechecks
    <3>6. QED
      BY <3>3, <3>5 DEF TransactionOK, StepOK, Numbered, Exclusive
  <2>2. CASE rest(j) = {} /\ DOMAIN rows(j) = {}
    <3>1. tx'[c] = Closed
      BY <2>2, <1>7
    <3>2. QED
      BY <3>1, ClosedOK, ClosedFacts DEF Exclusive
  <2>3. CASE rest(j) = {} /\ DOMAIN rows(j) # {}
    <3>1. tx'[c] = Transaction("generation", rows(j), NoArg)
      BY <2>3, <1>7
    <3>2. tx'[c].rows = rows(j) /\ tx'[c].step = "generation"
      BY <3>1 DEF Transaction
    <3>3. Rows(c)' = DOMAIN rows(j)
      BY <3>2 DEF Rows
    <3>4. Updates(c)'
      BY <3>2, <3>3, <2>3, <1>8 DEF Updates
    <3>5. QED
      BY <3>1, <3>2, <3>3, <3>4, UpdateOpens DEF Exclusive
  <2>4. QED
    BY <2>1, <2>2, <2>3
<1>10. ASSUME NEW o \in Others(c), NEW i \in Rows(o)
       PROVE  /\ i \notin Rows(c)'
              /\ \A r \in Rows(c)' :
                    tx'[c].rows[r].key = tx[o].rows[i].key => tx'[c].rows[r].key = NoKey
  <2>1. o \in Connection /\ \A r \in DOMAIN rows(j) : r \notin Rows(o)
    BY <1>5, <1>6 DEF SqlInv, WritesAreDisjoint, RowFree, Others
  <2>2. ASSUME NEW r \in Rows(c)', tx'[c].rows[r].key = tx[o].rows[i].key
        PROVE  tx'[c].rows[r].key = NoKey
    <3>1. r \in DOMAIN rows(j) /\ r \in Job /\ tx'[c].rows[r] = Reopened(jobs[r], now)
      BY <1>6, <1>9, <2>2
    <3>2. tx'[c].rows[r].key = jobs[r].key
      BY <3>1, ReopenedRow DEF SqlInv
    <3>3. QED
      BY <2>1, <2>2, <3>1, <3>2, OwnKeys
  <2>3. QED
    BY <2>1, <2>2, <1>9
<1> HIDE DEF next
<1>11. DOMAIN next(j).rows = Rows(c)' /\ next(j).rows = tx'[c].rows
       /\ next(j).step = tx'[c].step
  BY <1>7 DEF Rows
<1>12. QED
  BY <1>1, <1>5, <1>9, <1>10, <1>11, PrivateStep

LEMMA PgTransactionsInv ==
    ASSUME SqlInv, adapter = "postgres", UNCHANGED adapter, NEW c \in Connection,
           PgTransactions(c)
    PROVE  SqlInv' /\ [StoreNext]_storeVars
<1>1. ASSUME NEW j \in Job, NEW lease \in 1..minted, NEW next \in Instant,
             PgRetry(c, j, lease, next)
      PROVE  SqlInv' /\ UNCHANGED storeVars
  BY <1>1, RetryOpensInv DEF PgRetry, Writes
<1>2. ASSUME NEW j \in Job, NEW revision \in 1..MaxRevision, NEW now \in Instant,
             PgRerun(c, j, revision, now)
      PROVE  SqlInv' /\ UNCHANGED storeVars
  BY <1>2, RerunOpensInv DEF PgRerun, Writes
<1>3. QED
  BY <1>1, <1>2, PgInsertInv, PgRecoverScanInv, PgRecoverRowInv, SameRowsInv,
     CommitInv, RollbackInv DEF PgTransactions

-----------------------------------------------------------------------------
(* PostgreSQL: statements.                                                 *)

(* A statement that locks no row of a transaction.                         *)
LEMMA PgStatementInv ==
    ASSUME SqlInv, adapter = "postgres", UNCHANGED <<tx, adapter, fingerprints>>,
           StoreNext, minted <= minted',
           \A j \in Job :
              /\ Len(publications'[j]) = Len(publications[j])
              /\ jobs'[j] # jobs[j] => /\ Unlocked(j)
                                       /\ jobs'[j].status # "absent"
                                       /\ jobs'[j].key = jobs[j].key
    PROVE  SqlInv'
<1>1. StoreInv /\ StoreInv'
  BY StepInv DEF SqlInv
<1>2. \A c \in Connection : tx'[c] = tx[c] /\ Spares(c)
  BY <1>1, StatementSpares DEF SqlInv
<1>3. \A c \in Connection : tx[c].step \notin Exclusive
  BY DEF SqlInv, AdapterOK
<1>4. tx' = [c \in Connection |-> tx'[c]]
  BY DEF SqlInv
<1>5. QED
  BY <1>1, <1>2, <1>3, <1>4, SharedStep

(* A job row is rewritten.                                                 *)
LEMMA PgRowInv ==
    ASSUME SqlInv, adapter = "postgres",
           UNCHANGED <<tx, adapter, fingerprints, publications>>,
           StoreNext, minted <= minted', NEW j \in Job, NEW row, Unlocked(j),
           jobs' = [jobs EXCEPT ![j] = row],
           row.status # "absent", row.key = jobs[j].key
    PROVE  SqlInv'
<1>1. \A i \in Job : jobs'[i] = IF i = j THEN row ELSE jobs[i]
  BY DEF SqlInv, StoreInv, JobsOK
<1>2. QED
  BY <1>1, PgStatementInv

LEMMA PgJobStatementsInv ==
    ASSUME SqlInv, adapter = "postgres", UNCHANGED <<tx, adapter>>, PgJobStatements
    PROVE  SqlInv' /\ StoreNext
<1>1. ASSUME NEW j \in Job, NEW expires \in Instant, NEW now \in Instant,
             PgClaimExecution(j, expires, now)
      PROVE  SqlInv' /\ StoreNext
  <2>1. /\ Unlocked(j) /\ jobs' = [jobs EXCEPT ![j] = Claimed(jobs[j], minted + 1, expires)]
        /\ minted' = minted + 1 /\ UNCHANGED <<fingerprints, publications>>
    BY <1>1 DEF PgClaimExecution, claim_execution, FreshLease
  <2> DEFINE row == Claimed(jobs[j], minted + 1, expires)
  <2>2. minted \in Nat /\ RecordOK(jobs[j], minted) /\ expires \in Nat
    BY StoreAssumption DEF SqlInv, StoreInv, JobsOK
  <2>3. row.status = "running" /\ row.key = jobs[j].key
    BY <2>2, ClaimOK
  <2>4. StoreNext
    BY <1>1 DEF PgClaimExecution, StoreNext, ExecutionNext
  <2>5. jobs' = [jobs EXCEPT ![j] = row] /\ minted <= minted'
    BY <2>1, <2>2
  <2> HIDE DEF row
  <2>6. QED
    BY <2>1, <2>3, <2>4, <2>5, PgRowInv
<1>2. ASSUME NEW j \in Job, NEW lease \in 1..minted,
             PgComplete(j, lease) \/ PgFailPermanently(j, lease)
      PROVE  SqlInv' /\ StoreNext
  <2>1. PICK status \in {"succeeded", "failed_permanently"} :
           /\ Unlocked(j) /\ LeaseHeld(j, lease)
           /\ jobs' = [jobs EXCEPT ![j] = Settled(jobs[j], status, lease, status)]
           /\ UNCHANGED <<fingerprints, publications, minted>>
    BY <1>2 DEF PgComplete, PgFailPermanently, complete, fail_permanently
  <2> DEFINE row == Settled(jobs[j], status, lease, status)
  <2>2. StoreInv /\ minted \in Nat /\ lease \in Nat
        /\ status \in JobStatus \ {"running", "absent"}
    BY DEF SqlInv, StoreInv, JobsOK, JobStatus, TerminalStatus
  <2>3. row.status = status /\ row.key = jobs[j].key
    BY <2>1, <2>2, SettledFacts
  <2>4. StoreNext
    BY <1>2 DEF PgComplete, PgFailPermanently, StoreNext, ExecutionNext
  <2>5. jobs' = [jobs EXCEPT ![j] = row] /\ minted <= minted'
    BY <2>1, <2>2
  <2> HIDE DEF row
  <2>6. QED
    BY <2>1, <2>2, <2>3, <2>4, <2>5, PgRowInv
<1>3. ASSUME NEW j \in Job, NEW revision \in 1..MaxRevision, PgCancel(j, revision)
      PROVE  SqlInv' /\ StoreNext
  <2>1. /\ Unlocked(j) /\ jobs' = [jobs EXCEPT ![j] = Transition(jobs[j], "cancelled")]
        /\ UNCHANGED <<fingerprints, publications, minted>>
    BY <1>3 DEF PgCancel, cancel
  <2> DEFINE row == Transition(jobs[j], "cancelled")
  <2>2. minted \in Nat /\ jobs[j] \in JobRecord /\ "cancelled" \in JobStatus
    BY DEF SqlInv, StoreInv, JobsOK, JobStatus, TerminalStatus
  <2>3. row.status = "cancelled" /\ row.key = jobs[j].key
    BY <2>2, TransitionFacts
  <2>4. StoreNext
    BY <1>3 DEF PgCancel, StoreNext, OperatorNext
  <2>5. jobs' = [jobs EXCEPT ![j] = row] /\ minted <= minted'
    BY <2>1, <2>2
  <2> HIDE DEF row
  <2>6. QED
    BY <2>1, <2>3, <2>4, <2>5, PgRowInv
<1>4. QED
  BY <1>1, <1>2, <1>3 DEF PgJobStatements

(* What is not a statement on job rows changes none, and adds no           *)
(* generation.                                                             *)
LEMMA OtherStatements ==
    ASSUME StoreInv, PublicationNext \/ LockNext
    PROVE  /\ UNCHANGED <<jobs, fingerprints>> /\ minted <= minted'
           /\ \A j \in Job : Len(publications'[j]) = Len(publications[j])
<1>0. minted \in Nat
  BY DEF StoreInv, JobsOK
<1>1. CASE PublicationNext
  BY <1>0, <1>1, GenerationsKept
     DEF PublicationNext, claim_due, mark_published, mark_failed, RecoverClaims, FreshLease
<1>2. CASE LockNext
  BY <1>0, <1>2 DEF LockNext, acquire, refresh, release, RecoverLocks, SetLock
<1>3. QED
  BY <1>1, <1>2

LEMMA PgOtherStatementsInv ==
    ASSUME SqlInv, adapter = "postgres", UNCHANGED <<tx, adapter>>,
           PgPublicationStatements \/ PgLockStatements
    PROVE  SqlInv' /\ StoreNext
<1>1. CASE PgPublicationStatements
  <2>1. ASSUME NEW batch \in SUBSET PublicationId, NEW expires \in Instant,
               NEW now \in Instant, PgClaimDue(batch, expires, now)
        PROVE  PublicationNext
    <3>1. PICK limit \in 1..DispatchLimit : claim_due(batch, limit, expires, now)
      BY <2>1 DEF PgClaimDue
    <3>2. QED
      BY <3>1 DEF PublicationNext
  <2>2. PublicationNext
    BY <1>1, <2>1 DEF PgPublicationStatements, PgMarkPublished, PgMarkFailed,
                      PgRecoverClaims, PublicationNext
  <2>3. QED
    BY <2>2, OtherStatements, PgStatementInv DEF StoreNext, SqlInv
<1>2. CASE PgLockStatements
  <2>1. LockNext
    BY <1>2 DEF PgLockStatements, PgAcquire, PgRefresh, PgRelease, PgRecoverLocks, LockNext
  <2>2. QED
    BY <2>1, OtherStatements, PgStatementInv DEF StoreNext, SqlInv
<1>3. QED
  BY <1>1, <1>2

-----------------------------------------------------------------------------
(* SQLite: transactions.                                                   *)

LEMMA Unwritten ==
    ASSUME SqlInv, NEW c \in Connection, WriteLock(c)
    PROVE  \A o \in Others(c) : tx[o] = Closed /\ Rows(o) = {}
BY ClosedFacts, OnlyClosed DEF SqlInv, WriteLock, Others, Rows

LEMMA LiteInsertInv ==
    ASSUME SqlInv, adapter = "sqlite", UNCHANGED adapter, NEW c \in Connection,
           NEW j \in Job, NEW k \in DedupeKey \cup {NoKey}, NEW f \in Fingerprint,
           NEW at \in Instant, NEW status \in {"pending", "published"},
           LiteInsert(c, j, k, f, at, status)
    PROVE  SqlInv' /\ UNCHANGED storeVars
<1>1. TransactionOK(c)' /\ UNCHANGED storeVars /\ WriteLock(c)
  BY InsertRowOK DEF LiteInsert, InsertRow
<1>2. PICK t : Become(c, t)
  BY DEF LiteInsert, InsertRow
<1>3. \A o \in Others(c) : Rows(o) = {}
  BY <1>1, Unwritten
<1>4. QED
  BY <1>1, <1>2, <1>3, PrivateStep

(* What Begin gives: the transaction was closed, and others have written   *)
(* nothing.                                                                *)
LEMMA BeginFacts ==
    ASSUME SqlInv, NEW c \in Connection, Begin(c)
    PROVE  tx[c] = Closed /\ WriteLock(c) /\ \A j \in Job : RowFree(c, j)
BY Unwritten DEF Begin, RowFree

(* Instants compare as their texts do.                                     *)
LEMMA LiteExpired ==
    ASSUME StoreInv, NEW now \in Instant
    PROVE  /\ \A j \in Job : LiteLeaseExpired(j, now) <=> LeaseExpired(jobs[j], now)
           /\ \A j \in Job : AtMost(jobs[j].available_at, now) <=> jobs[j].available_at <= now
           /\ \A id \in PublicationId :
                 /\ LiteDue(id, now) <=> Due(Publication(id), now)
                 /\ LiteClaimExpired(Publication(id), now)
                       <=> ClaimExpired(Publication(id), now)
           /\ \A k \in OverlapKey : AtMost(locks[k].expires_at, now)
                                       <=> locks[k].expires_at <= now
<1>1. now \in Nat
  BY StoreAssumption
<1>2. ASSUME NEW j \in Job
      PROVE  jobs[j].lease_expires_at \in Nat /\ jobs[j].available_at \in Nat
  BY DEF StoreInv, JobsOK, JobRecord
<1>3. ASSUME NEW id \in PublicationId
      PROVE  Publication(id).available_at \in Nat /\ Publication(id).claim_expires_at \in Nat
  <2>1. PICK j \in Job : \E g \in 1..Len(publications[j]) : id = <<j, g>>
    BY DEF PublicationId
  <2> PICK g \in 1..Len(publications[j]) : id = <<j, g>>
    BY <2>1
  <2>2. publications[j][g] \in JobPublication
    BY DEF StoreInv, PublicationsOK, PublicationOK
  <2>3. Publication(id) = publications[j][g]
    BY DEF Publication
  <2>4. QED
    BY <2>2, <2>3 DEF JobPublication
<1>4. ASSUME NEW k \in OverlapKey PROVE locks[k].expires_at \in Nat
  BY DEF StoreInv, LocksOK, Lock
<1>5. QED
  BY <1>1, <1>2, <1>3, <1>4, TextOrder
     DEF LiteLeaseExpired, LeaseExpired, LiteDue, Due, LiteClaimExpired, ClaimExpired

LEMMA LiteRecoverLeasesInv ==
    ASSUME SqlInv, adapter = "sqlite", UNCHANGED adapter, NEW c \in Connection,
           NEW now \in Instant, LiteRecoverLeases(c, now)
    PROVE  SqlInv' /\ UNCHANGED storeVars
<1> DEFINE expired == {j \in Job : LiteLeaseExpired(j, now)}
           rows == [j \in expired |-> Reopened(jobs[j], now)]
<1>1. /\ expired # {} /\ \A j \in expired : CanRevise(j) /\ RoomForGeneration(j)
      /\ Begin(c) /\ Become(c, Transaction("generation", rows, NoArg))
      /\ UNCHANGED storeVars
  BY DEF LiteRecoverLeases, Opens
<1>2. tx'[c] = Transaction("generation", rows, NoArg)
  BY <1>1 DEF Become, SqlInv
<1>3. /\ DOMAIN rows \subseteq Job /\ DOMAIN rows # {}
      /\ \A j \in DOMAIN rows :
            /\ rows[j] = Reopened(jobs[j], now)
            /\ LeaseExpired(jobs[j], now) /\ CanRevise(j) /\ RoomForGeneration(j)
  BY <1>1, LiteExpired DEF SqlInv
<1> HIDE DEF rows
<1>4. tx'[c].rows = rows /\ Rows(c)' = DOMAIN rows
  BY <1>2 DEF Transaction, Rows
<1>5. Recovers(c, now)'
  BY <1>1, <1>3, <1>4 DEF Recovers, storeVars, CanRevise, RoomForGeneration
<1>6. TransactionOK(c)'
  BY <1>2, <1>3, <1>4, <1>5, UpdateOpens DEF Updates
<1>7. WriteLock(c) /\ \A o \in Others(c) : Rows(o) = {}
  BY <1>1, BeginFacts, Unwritten
<1>8. QED
  BY <1>1, <1>6, <1>7, PrivateStep

(* The SELECT of a read and an update.                                     *)
LiteSelects(c) ==
    \/ \E j \in Job, expires, now \in Instant : LiteClaimSelect(c, j, expires, now)
    \/ \E batch \in SUBSET PublicationId, limit \in 1..DispatchLimit,
          expires, now \in Instant : LiteDueSelect(c, batch, limit, expires, now)
    \/ \E k \in OverlapKey, lease \in 1..minted, expires, now \in Instant :
          LiteAcquireSelect(c, k, lease, expires, now)

LEMMA LiteSelectsInv ==
    ASSUME SqlInv, adapter = "sqlite", UNCHANGED adapter, NEW c \in Connection,
           LiteSelects(c)
    PROVE  SqlInv' /\ UNCHANGED storeVars
<1>0. StoreInv
  BY DEF SqlInv
<1>1. ASSUME NEW step, NEW arg, Opens(c, step, <<>>, arg),
             \/ step = "claim" /\ (tx'[c].arg = arg => Claims(c)')
             \/ step = "update" /\ (tx'[c].arg = arg => ClaimsDue(c)')
             \/ step = "write_lock" /\ (tx'[c].arg = arg => Locks(c)')
      PROVE  SqlInv' /\ UNCHANGED storeVars
  <2>1. /\ Begin(c) /\ Become(c, Transaction(step, <<>>, arg)) /\ UNCHANGED storeVars
    BY <1>1 DEF Opens
  <2>2. tx'[c] = Transaction(step, <<>>, arg)
    BY <2>1 DEF Become, SqlInv
  <2>3. tx'[c].arg = arg /\ WriteLock(c)
    BY <2>1, <2>2, BeginFacts DEF Transaction
  <2>4. QED
    BY <1>1, <2>1, <2>3, EmptyOpensInv
<1>2. ASSUME NEW j \in Job, NEW expires \in Instant, NEW now \in Instant,
             LiteClaimSelect(c, j, expires, now)
      PROVE  SqlInv' /\ UNCHANGED storeVars
  <2> DEFINE arg == [job |-> j, expires |-> expires]
  <2>1. /\ ValidClaim(expires, now) /\ Claimable(j, now) /\ CanMint /\ CanRevise(j)
        /\ Opens(c, "claim", <<>>, arg)
    BY <1>2, <1>0, LiteExpired DEF LiteClaimSelect, Claimable
  <2>2. (ValidClaim(expires, now) /\ Claimable(j, now) /\ CanMint /\ CanRevise(j))'
    BY <2>1 DEF Opens, storeVars, ValidClaim, Claimable, CanMint, CanRevise
  <2>3. tx'[c].arg = arg => Claims(c)'
    BY <2>2 DEF Claims
  <2> HIDE DEF arg
  <2>4. QED
    BY <2>1, <2>3, <1>1
<1>3. ASSUME NEW batch \in SUBSET PublicationId, NEW limit \in 1..DispatchLimit,
             NEW expires \in Instant, NEW now \in Instant,
             LiteDueSelect(c, batch, limit, expires, now)
      PROVE  SqlInv' /\ UNCHANGED storeVars
  <2> DEFINE arg == [batch |-> batch, expires |-> expires]
             due == {id \in PublicationId : Due(Publication(id), now)}
  <2>1. due = {id \in PublicationId : LiteDue(id, now)}
    BY <1>0, LiteExpired
  <2>2. /\ ValidClaim(expires, now) /\ CanMint
        /\ batch # {} /\ batch \subseteq due
        /\ Cardinality(batch) = limit \/ (Cardinality(batch) < limit /\ batch = due)
        /\ Opens(c, "update", <<>>, arg)
    BY <1>3, <2>1 DEF LiteDueSelect
  <2>3. PublicationId' = PublicationId /\ due' = due /\ CanMint'
    BY <2>2 DEF Opens, storeVars, PublicationId, Publication, CanMint
  <2>4. tx'[c].arg = arg => ClaimsDue(c)'
    <3>1. batch \in SUBSET (PublicationId')
      BY <2>3
    <3> HIDE DEF due
    <3>2. QED
      BY <2>2, <2>3, <3>1 DEF ClaimsDue, ValidClaim, due
  <2> HIDE DEF arg
  <2>5. QED
    BY <2>2, <2>4, <1>1
<1>4. ASSUME NEW k \in OverlapKey, NEW lease \in 1..minted, NEW expires \in Instant,
             NEW now \in Instant, LiteAcquireSelect(c, k, lease, expires, now)
      PROVE  SqlInv' /\ UNCHANGED storeVars
  <2> DEFINE expired == locks[k] # NoLock /\ AtMost(locks[k].expires_at, now)
             arg == [key |-> k, lock |-> [owner |-> lease, expires_at |-> expires],
                     expired |-> expired]
  <2>1. Opens(c, "write_lock", <<>>, arg)
    BY <1>4 DEF LiteAcquireSelect
  <2>2. expired \in BOOLEAN /\ (expired => LockFree(k, now))
    BY <1>0, LiteExpired DEF LockFree
  <2> HIDE DEF expired
  <2>3. lease \in 1..(minted') /\ (expired => LockFree(k, now)')
    BY <2>1, <2>2 DEF Opens, storeVars, LockFree
  <2>4. tx'[c].arg = arg => Locks(c)'
    BY <2>2, <2>3 DEF Locks
  <2> HIDE DEF arg
  <2>5. QED
    BY <2>1, <2>4, <1>1
<1>5. QED
  BY <1>2, <1>3, <1>4 DEF LiteSelects

(* Every transaction is closed after the step, as all others were before.  *)
LEMMA AloneInv ==
    ASSUME SqlInv, adapter = "sqlite", UNCHANGED adapter, [StoreNext]_storeVars,
           NEW c \in Connection, tx[c] # Closed, Become(c, Closed)
    PROVE  SqlInv'
<1>1. \A o \in Others(c) : tx[o] = Closed
  BY DEF SqlInv, AdapterOK, Others
<1>2. StoreInv'
  BY StepInv DEF SqlInv
<1>3. \A d \in Connection : tx'[d] = Closed
  BY <1>1, Ends DEF Others
<1>4. QED
  BY <1>2, <1>3, Ends, SharedStep

(* The SELECT still holds when the UPDATE is executed.                     *)
LEMMA LiteClaimUpdateInv ==
    ASSUME SqlInv, adapter = "sqlite", UNCHANGED adapter, NEW c \in Connection,
           LiteClaimUpdate(c)
    PROVE  SqlInv' /\ [StoreNext]_storeVars
<1>1. tx[c] # Closed /\ StepOK(c) /\ tx[c].step = "claim"
  BY ClosedFacts DEF LiteClaimUpdate, SqlInv, TransactionOK
<1>2. Claims(c)
  BY <1>1 DEF StepOK
<1>3. PICK j \in Job, expires \in Instant, now \in Instant :
         /\ tx[c].arg = [job |-> j, expires |-> expires]
         /\ ValidClaim(expires, now) /\ Claimable(j, now) /\ CanMint /\ CanRevise(j)
  BY <1>2 DEF Claims
<1>4. tx[c].arg.job = j /\ tx[c].arg.expires = expires
  BY <1>3
<1>5. claim_execution(j, expires, now)
  BY <1>3, <1>4 DEF LiteClaimUpdate, claim_execution
<1>6. StoreNext
  BY <1>5 DEF StoreNext, ExecutionNext
<1>7. QED
  BY <1>1, <1>6, AloneInv DEF LiteClaimUpdate

LEMMA LiteDueUpdateInv ==
    ASSUME SqlInv, adapter = "sqlite", UNCHANGED adapter, NEW c \in Connection,
           LiteDueUpdate(c)
    PROVE  SqlInv' /\ [StoreNext]_storeVars
<1>1. tx[c] # Closed /\ StepOK(c) /\ tx[c].step = "update"
  BY ClosedFacts DEF LiteDueUpdate, SqlInv, TransactionOK
<1>2. ClaimsDue(c)
  BY <1>1 DEF StepOK
<1> DEFINE due(now) == {id \in PublicationId : Due(Publication(id), now)}
<1>3. PICK batch \in SUBSET PublicationId, limit \in 1..DispatchLimit,
           expires \in Instant, now \in Instant :
         /\ tx[c].arg = [batch |-> batch, expires |-> expires]
         /\ ValidClaim(expires, now) /\ CanMint
         /\ batch # {} /\ batch \subseteq due(now)
         /\ Cardinality(batch) = limit \/ (Cardinality(batch) < limit /\ batch = due(now))
  BY <1>2 DEF ClaimsDue
<1>4. tx[c].arg.batch = batch /\ tx[c].arg.expires = expires
  BY <1>3
<1>5. /\ publications' =
            [j \in Job |->
               [g \in 1..Len(publications[j]) |->
                  IF <<j, g>> \in batch
                  THEN PublicationUnder(publications[j][g], "claimed", FreshLease, expires)
                  ELSE publications[j][g]]]
      /\ minted' = FreshLease /\ UNCHANGED <<jobs, fingerprints, locks>>
  BY <1>4 DEF LiteDueUpdate
<1>6. claim_due(batch, limit, expires, now)
  BY <1>3, <1>5 DEF claim_due
<1>7. StoreNext
  BY <1>6 DEF StoreNext, PublicationNext
<1>8. QED
  BY <1>1, <1>7, AloneInv DEF LiteDueUpdate

LEMMA LiteAcquireWriteInv ==
    ASSUME SqlInv, adapter = "sqlite", UNCHANGED adapter, NEW c \in Connection,
           LiteAcquireWrite(c)
    PROVE  SqlInv' /\ [StoreNext]_storeVars
<1>1. tx[c] # Closed /\ StepOK(c) /\ tx[c].step = "write_lock"
  BY ClosedFacts DEF LiteAcquireWrite, SqlInv, TransactionOK
<1>2. Locks(c)
  BY <1>1 DEF StepOK
<1>3. PICK k \in OverlapKey, lease \in 1..minted, expires \in Instant, now \in Instant,
           expired \in BOOLEAN :
         /\ tx[c].arg = [key |-> k, lock |-> [owner |-> lease, expires_at |-> expires],
                         expired |-> expired]
         /\ expired => LockFree(k, now)
  BY <1>2 DEF Locks
<1>4. /\ tx[c].arg.key = k /\ tx[c].arg.lock = [owner |-> lease, expires_at |-> expires]
      /\ tx[c].arg.expired = expired
  BY <1>3
<1>5. acquire(k, lease, expires, now) \/ UNCHANGED storeVars
  BY <1>3, <1>4 DEF LiteAcquireWrite, acquire, SetLock, LockFree, storeVars
<1>6. [StoreNext]_storeVars
  BY <1>5 DEF StoreNext, LockNext
<1>7. QED
  BY <1>1, <1>6, AloneInv DEF LiteAcquireWrite

LEMMA LiteTransactionsInv ==
    ASSUME SqlInv, adapter = "sqlite", UNCHANGED adapter, NEW c \in Connection,
           LiteTransactions(c) \/ LiteSelects(c) \/ LiteAcquireWrite(c)
    PROVE  SqlInv' /\ [StoreNext]_storeVars
<1>1. ASSUME NEW j \in Job, NEW lease \in 1..minted, NEW next \in Instant,
             LiteRetry(c, j, lease, next)
      PROVE  SqlInv' /\ UNCHANGED storeVars
  BY <1>1, BeginFacts, RetryOpensInv DEF LiteRetry, Opens
<1>2. ASSUME NEW j \in Job, NEW revision \in 1..MaxRevision, NEW now \in Instant,
             LiteRerun(c, j, revision, now)
      PROVE  SqlInv' /\ UNCHANGED storeVars
  BY <1>2, BeginFacts, RerunOpensInv DEF LiteRerun, Opens
<1>3. QED
  BY <1>1, <1>2, LiteInsertInv, LiteRecoverLeasesInv, LiteSelectsInv, LiteClaimUpdateInv,
     LiteDueUpdateInv, LiteAcquireWriteInv, SameRowsInv, CommitInv, RollbackInv
     DEF LiteTransactions, LiteSelects

-----------------------------------------------------------------------------
(* SQLite: statements, outside any transaction.                            *)

LEMMA LiteStatementsRefine ==
    ASSUME SqlInv, LiteStatements \/ LiteLockStatements
    PROVE  Autocommit /\ StoreNext
<1>0. StoreInv
  BY DEF SqlInv
<1>1. CASE LiteStatements
  <2>1. ASSUME NEW now \in Instant, LiteRecoverClaims(now)
        PROVE  Autocommit /\ PublicationNext
    <3> DEFINE expired == {id \in PublicationId : LiteClaimExpired(Publication(id), now)}
    <3>1. expired \in SUBSET ExpiredClaims(now)
      BY <1>0, LiteExpired DEF ExpiredClaims
    <3>2. Autocommit /\ RecoverClaims(expired, now)
      BY <2>1 DEF LiteRecoverClaims
    <3> HIDE DEF expired
    <3>3. QED
      BY <3>1, <3>2 DEF PublicationNext
  <2>2. QED
    BY <1>1, <2>1 DEF LiteStatements, LiteComplete, LiteFailPermanently, LiteCancel,
       LiteMarkPublished, LiteMarkFailed, StoreNext, ExecutionNext, OperatorNext,
       PublicationNext
<1>2. CASE LiteLockStatements
  <2>1. ASSUME NEW k \in OverlapKey, NEW lease \in 1..minted, NEW expires \in Instant,
               NEW now \in Instant, LiteRefresh(k, lease, expires, now)
        PROVE  refresh(k, lease, expires, now)
    <3>1. locks[k].expires_at \in Nat /\ now \in Nat
      BY <1>0, StoreAssumption DEF StoreInv, LocksOK, Lock
    <3>2. QED
      BY <2>1, <3>1, <1>0, LiteExpired DEF LiteRefresh, refresh
  <2>2. ASSUME NEW now \in Instant, LiteRecoverLocks(now)
        PROVE  Autocommit /\ LockNext
    <3> DEFINE expired == {k \in OverlapKey : /\ locks[k] # NoLock
                                              /\ AtMost(locks[k].expires_at, now)}
    <3>1. expired \in SUBSET ExpiredLocks(now)
      BY <1>0, LiteExpired DEF ExpiredLocks, LockFree
    <3>2. Autocommit /\ RecoverLocks(expired, now)
      BY <2>2 DEF LiteRecoverLocks
    <3> HIDE DEF expired
    <3>3. QED
      BY <3>1, <3>2 DEF LockNext
  <2>3. QED
    BY <1>2, <2>1, <2>2 DEF LiteLockStatements, LiteRefresh, LiteRelease, StoreNext, LockNext
<1>3. QED
  BY <1>1, <1>2

LEMMA LiteStatementsInv ==
    ASSUME SqlInv, UNCHANGED <<tx, adapter>>, LiteStatements \/ LiteLockStatements
    PROVE  SqlInv' /\ StoreNext
<1>1. Autocommit /\ StoreNext
  BY LiteStatementsRefine
<1>2. \A c \in Connection : tx'[c] = Closed
  BY <1>1, OnlyClosed DEF Autocommit, SqlInv
<1>3. StoreInv' /\ tx' = [c \in Connection |-> tx'[c]]
  BY <1>1, StepInv DEF SqlInv
<1>4. QED
  BY <1>1, <1>2, <1>3, SharedStep

-----------------------------------------------------------------------------
(* The theorems.                                                           *)

LEMMA SqlInitInv == SqlInit => SqlInv
<1> SUFFICES ASSUME SqlInit PROVE SqlInv
  OBVIOUS
<1>1. StoreInv
  BY InitInv DEF SqlInit
<1>2. tx = [c \in Connection |-> tx[c]] /\ \A c \in Connection : tx[c] = Closed
  BY DEF SqlInit
<1>3. \A c \in Connection : TransactionOK(c) /\ Rows(c) = {}
  BY <1>2, ClosedFacts DEF TransactionOK, StepOK, Numbered, Published, Rows
<1>4. WritesAreDisjoint
  BY <1>3 DEF WritesAreDisjoint
<1>5. AdapterOK
  BY <1>2, ClosedFacts DEF SqlInit, AdapterOK, Exclusive
<1>6. QED
  BY <1>1, <1>2, <1>3, <1>4, <1>5 DEF SqlInv

LEMMA SqlStep ==
    SqlInv /\ [SqlNext]_<<sqlVars, adapter>> => SqlInv' /\ [StoreNext]_storeVars
<1> SUFFICES ASSUME SqlInv, [SqlNext]_<<sqlVars, adapter>>
             PROVE  SqlInv' /\ [StoreNext]_storeVars
  OBVIOUS
<1>1. CASE adapter = "postgres" /\ UNCHANGED adapter /\ (PgJobCalls \/ PgLockCalls)
  BY <1>1, PgTransactionsInv, PgJobStatementsInv, PgOtherStatementsInv
     DEF PgJobCalls, PgLockCalls
<1>2. CASE adapter = "sqlite" /\ UNCHANGED adapter /\ (LiteJobCalls \/ LiteLockCalls)
  BY <1>2, LiteTransactionsInv, LiteStatementsInv
     DEF LiteJobCalls, LiteLockCalls, LiteSelects
<1>3. CASE UNCHANGED <<sqlVars, adapter>>
  <2>1. UNCHANGED <<storeVars, tx, adapter>> /\ UNCHANGED storeVars
    BY <1>3 DEF sqlVars
  <2>2. StoreInv'
    BY <2>1, StepInv DEF SqlInv
  <2>3. ASSUME NEW c \in Connection PROVE TransactionOK(c)'
    <3>1. /\ jobs' = jobs /\ fingerprints' = fingerprints /\ publications' = publications
          /\ locks' = locks /\ minted' = minted /\ tx' = tx
      BY <2>1 DEF storeVars
    <3>2. /\ Rows(c)' = Rows(c) /\ Published(c)' = Published(c) /\ Shape(tx[c])'= Shape(tx[c])
          /\ Numbered(c)' = Numbered(c) /\ Between(c)' = Between(c)
          /\ Updates(c)' = Updates(c) /\ Intends(c, {"pending"})' = Intends(c, {"pending"})
      BY <3>1
         DEF Rows, Published, Shape, Numbered, Between, Submits, Intends, Intent, Insertable,
             RoomForGeneration, Updates, Retries, Reruns, Recovers, LeaseHeld, CanRevise
    <3>3. Collides(c)' = Collides(c) /\ Publishes(c)' = Publishes(c) /\ Rechecks(c)' = Rechecks(c)
      BY <3>1
         DEF Rows, Published, Submits, Intends, Intent, Insertable, RoomForGeneration, Updates,
             Retries, Reruns, Recovers, LeaseHeld, CanRevise, Collides, Sees, SeesUnderKey,
             Publishes, Rechecks
    <3>4. Claims(c)' = Claims(c) /\ ClaimsDue(c)' = ClaimsDue(c) /\ Locks(c)' = Locks(c)
      BY <3>1 DEF Claims, Claimable, CanMint, CanRevise, ClaimsDue, PublicationId, Publication,
                  Locks, LockFree
    <3>5. QED
      BY <3>1, <3>2, <3>3, <3>4 DEF SqlInv, TransactionOK, StepOK
  <2>4. QED
    BY <2>1, <2>2, <2>3 DEF SqlInv, WritesAreDisjoint, AdapterOK, Rows
<1>4. QED
  BY <1>1, <1>2, <1>3 DEF SqlNext, JobCalls, LockCalls

LEMMA SoundInv == SqlInv => TransactionsAreSound
<1> SUFFICES ASSUME SqlInv PROVE TransactionsAreSound
  OBVIOUS
<1>1. GenerationsAreNext
  BY DEF SqlInv, TransactionOK, Numbered, GenerationsAreNext, Published
<1>2. CallersAreServed
  <2>1. ASSUME NEW c \in Connection
        PROVE  tx[c].inserted \subseteq DOMAIN tx[c].generations /\ tx[c].step # "vanished"
    BY ClosedFacts DEF SqlInv, TransactionOK, StepOK, Published
  <2>2. QED
    BY <2>1 DEF CallersAreServed
<1>3. QED
  BY <1>1, <1>2 DEF SqlInv, TransactionsAreSound

(* The inductive invariant holds in every state of either adapter.         *)
THEOREM SqlInvariant == SqlSpec => []SqlInv
<1>1. SqlInv /\ [SqlNext]_<<sqlVars, adapter>> => SqlInv'
  BY SqlStep
<1>2. QED
  BY SqlInitInv, <1>1, PTL DEF SqlSpec

(* TransactionsAreSound: whatever the statements of any number of          *)
(* connections do between each other (enqueue_record_in, the fenced and    *)
(* guarded UPDATEs, recover_expired_leases row by row), two transactions   *)
(* never write one job row or one dedupe key, MAX(generation) + 1 is still *)
(* next at the commit, and no collision costs a caller what it was told.   *)
THEOREM TransactionsAlwaysSound == SqlSpec => []TransactionsAreSound
BY SqlInvariant, SoundInv, PTL

(* ImplementsPorts: the committed rows of PostgresJobStore and             *)
(* SqliteJobStore change as the operations of the ports change the store,  *)
(* each at once.                                                           *)
THEOREM SqlImplementsPorts == SqlSpec => ImplementsPorts
<1>1. SqlInit => StoreInit
  BY DEF SqlInit
<1>2. SqlInv /\ [SqlNext]_<<sqlVars, adapter>> => [StoreNext]_storeVars
  BY SqlStep
<1>3. QED
  BY SqlInvariant, <1>1, <1>2, PTL DEF SqlSpec, ImplementsPorts, StoreSpec

(* What is proved of the store holds of the tables: leases, histories,     *)
(* dedupe keys, final publications, revisions and the lifecycle of a job.  *)
THEOREM SqlKeepsStorePromises ==
    SqlSpec => /\ [](LeasesFollowStatus /\ EachLeaseSettlesOnce)
               /\ [](LeasesAreUnique /\ OneJobPerKey)
               /\ PublishedIsFinal /\ RevisionNamesState /\ ImplementsLifecycle
<1>1. SqlSpec => StoreSpec
  BY SqlImplementsPorts DEF ImplementsPorts
<1>2. QED
  BY <1>1, LeaseOnlyWhileHeld, LeaseSettlesOnce, LeaseNamesOneJob, KeyNamesOneJob,
     PublishedStaysPublished, RevisionIsCurrent, StoreImplementsLifecycle, PTL
=============================================================================
