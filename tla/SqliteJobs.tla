----------------------------- MODULE SqliteJobs -----------------------------
(***************************************************************************)
(* SqliteJobStore.  BEGIN IMMEDIATE takes the database's write lock, so    *)
(* that at most one transaction is open and no statement outside commits   *)
(* meanwhile.  Instants are stored as RFC 3339 text and compared as text.  *)
(***************************************************************************)
EXTENDS SqlTransactions

(* Nobody else holds, or needs, the write lock.                            *)
WriteLock(c) == \A o \in Others(c) : tx[o].step = "closed"

Autocommit == \A c \in Connection : tx[c].step = "closed"

Begin(c) == tx[c] = Closed /\ WriteLock(c)

Opens(c, step, rows, arg) ==
    /\ Begin(c)
    /\ Become(c, Transaction(step, rows, arg))
    /\ UNCHANGED storeVars

-----------------------------------------------------------------------------
(* to_rfc3339: no fraction, or as many groups of digits as it takes; here  *)
(* a second has four instants and a group is one binary digit.  "+" sorts  *)
(* before "." and "." before the digits.                                   *)

Plus == 0
Dot == 1
Digit(d) == 2 + d

Text(t) ==
    LET whole == Digit(t \div 4)
        first == (t % 4) \div 2
        second == t % 2
    IN  CASE first = 0 /\ second = 0 -> <<whole, Plus>>
          [] first = 1 /\ second = 0 -> <<whole, Dot, Digit(first), Plus>>
          [] second = 1 -> <<whole, Dot, Digit(first), Digit(second), Plus>>

(* The comparison of two texts in a WHERE clause.                          *)
AtMost(a, b) ==
    LET x == Text(a)
        y == Text(b)
    IN  \/ x = y
        \/ \E n \in 1..Len(x) :
              /\ n <= Len(y) /\ x[n] < y[n]
              /\ SubSeq(x, 1, n - 1) = SubSeq(y, 1, n - 1)

LiteLeaseExpired(j, now) ==
    jobs[j].status = "running" /\ AtMost(jobs[j].lease_expires_at, now)

LiteClaimExpired(p, now) == p.status = "claimed" /\ AtMost(p.claim_expires_at, now)

-----------------------------------------------------------------------------
(* Submission, in a transaction of its own or the caller's.  A failed      *)
(* INSERT undoes nothing but itself.                                       *)

LiteInsert(c, j, k, f, at, status) ==
    WriteLock(c) /\ InsertRow(c, j, k, f, at, status)

-----------------------------------------------------------------------------
(* Job rows.                                                               *)

(* claim_execution: the SELECT of a claimable row ...                      *)
LiteClaimSelect(c, j, expires, now) ==
    /\ ValidClaim(expires, now) /\ CanMint /\ CanRevise(j)
    /\ \/ jobs[j].status = "pending" /\ AtMost(jobs[j].available_at, now)
       \/ LiteLeaseExpired(j, now)
    /\ Opens(c, "claim", <<>>, [job |-> j, expires |-> expires])

(* ... and the UPDATE, which names the row and checks nothing, with its    *)
(* COMMIT.                                                                 *)
LiteClaimUpdate(c) ==
    /\ tx[c].step = "claim"
    /\ jobs' = [jobs EXCEPT ![tx[c].arg.job] =
                  Claimed(@, FreshLease, tx[c].arg.expires)]
    /\ minted' = FreshLease
    /\ Become(c, Closed)
    /\ UNCHANGED <<fingerprints, publications, locks>>

LiteComplete(j, lease) == Autocommit /\ complete(j, lease)

LiteFailPermanently(j, lease) == Autocommit /\ fail_permanently(j, lease)

LiteCancel(j, revision) == Autocommit /\ cancel(j, revision)

LiteRetry(c, j, lease, next) ==
    /\ LeaseHeld(j, lease)
    /\ CanRevise(j) /\ RoomForGeneration(j)
    /\ Opens(c, "generation",
             Row(j, [Settled(jobs[j], "pending", lease, "retried") EXCEPT
                        !.available_at = next]), NoArg)

LiteRerun(c, j, revision, now) ==
    /\ jobs[j].revision = revision /\ jobs[j].status = "failed_permanently"
    /\ CanRevise(j) /\ RoomForGeneration(j)
    /\ Opens(c, "generation",
             Row(j, [Reopened(jobs[j], now) EXCEPT !.attempt_count = 0]), NoArg)

(* recover_expired_leases: one UPDATE of every row whose lease is over.    *)
LiteRecoverLeases(c, now) ==
    LET expired == {j \in Job : LiteLeaseExpired(j, now)} IN
    /\ expired # {}
    /\ \A j \in expired : CanRevise(j) /\ RoomForGeneration(j)
    /\ Opens(c, "generation", [j \in expired |-> Reopened(jobs[j], now)], NoArg)

-----------------------------------------------------------------------------
(* Publication rows.                                                       *)

LiteDue(id, now) ==
    LET p == Publication(id) IN
    \/ p.status \in {"pending", "failed"} /\ AtMost(p.available_at, now)
    \/ LiteClaimExpired(p, now)

(* claim_due: the SELECT of the due rows that have waited longest ...      *)
LiteDueSelect(c, batch, limit, expires, now) ==
    LET due == {id \in PublicationId : LiteDue(id, now)} IN
    /\ ValidClaim(expires, now) /\ CanMint
    /\ batch # {} /\ batch \subseteq due
    /\ Cardinality(batch) = limit \/ (Cardinality(batch) < limit /\ batch = due)
    /\ \A a \in batch, b \in due \ batch :
          AtMost(Publication(a).available_at, Publication(b).available_at)
    /\ Opens(c, "update", <<>>, [batch |-> batch, expires |-> expires])

(* ... and the UPDATE of the rows it named, under one lease, with its      *)
(* COMMIT.                                                                 *)
LiteDueUpdate(c) ==
    LET arg == tx[c].arg IN
    /\ tx[c].step = "update"
    /\ publications' =
          [j \in Job |->
             [g \in 1..Len(publications[j]) |->
                IF <<j, g>> \in arg.batch
                THEN PublicationUnder(publications[j][g], "claimed", FreshLease,
                                      arg.expires)
                ELSE publications[j][g]]]
    /\ minted' = FreshLease
    /\ Become(c, Closed)
    /\ UNCHANGED <<jobs, fingerprints, locks>>

LiteMarkPublished(j, g, lease) == Autocommit /\ mark_published(j, g, lease)

LiteMarkFailed(j, g, lease, retry_at) ==
    /\ Autocommit
    /\ publications[j][g].status = "claimed" /\ mark_failed(j, g, lease, retry_at)

LiteRecoverClaims(now) ==
    /\ Autocommit
    /\ RecoverClaims({id \in PublicationId : LiteClaimExpired(Publication(id), now)}, now)

-----------------------------------------------------------------------------
(* Overlap locks.                                                          *)

(* acquire: is there an expired lock?                                      *)
LiteAcquireSelect(c, k, lease, expires, now) ==
    Opens(c, "write_lock", <<>>,
          [key |-> k, lock |-> [owner |-> lease, expires_at |-> expires],
           expired |-> locks[k] # NoLock /\ AtMost(locks[k].expires_at, now)])

(* Then it is taken over, else one is inserted if there is none, and the   *)
(* transaction commits.                                                    *)
LiteAcquireWrite(c) ==
    LET arg == tx[c].arg IN
    /\ tx[c].step = "write_lock"
    /\ locks' = IF arg.expired \/ locks[arg.key] = NoLock
                THEN [locks EXCEPT ![arg.key] = arg.lock] ELSE locks
    /\ Become(c, Closed)
    /\ UNCHANGED <<jobs, fingerprints, publications, minted>>

LiteRefresh(k, lease, expires, now) ==
    /\ Autocommit
    /\ locks[k].owner = lease /\ ~AtMost(locks[k].expires_at, now)
    /\ SetLock(k, [owner |-> lease, expires_at |-> expires])

LiteRelease(k, lease) == Autocommit /\ release(k, lease)

LiteRecoverLocks(now) ==
    /\ Autocommit
    /\ RecoverLocks({k \in OverlapKey : /\ locks[k] # NoLock
                                        /\ AtMost(locks[k].expires_at, now)}, now)

-----------------------------------------------------------------------------
LiteTransactions(c) ==
    \/ \E j \in Job, k \in DedupeKey \cup {NoKey}, f \in Fingerprint, at \in Instant,
          status \in {"pending", "published"} : LiteInsert(c, j, k, f, at, status)
    \/ \E j \in Job, expires, now \in Instant : LiteClaimSelect(c, j, expires, now)
    \/ \E j \in Job, lease \in 1..minted, next \in Instant : LiteRetry(c, j, lease, next)
    \/ \E j \in Job, revision \in 1..MaxRevision, now \in Instant :
          LiteRerun(c, j, revision, now)
    \/ \E now \in Instant : LiteRecoverLeases(c, now)
    \/ \E batch \in SUBSET PublicationId, limit \in 1..DispatchLimit,
          expires, now \in Instant : LiteDueSelect(c, batch, limit, expires, now)
    \/ LiteClaimUpdate(c) \/ LiteDueUpdate(c)
    \/ Lookup(c) \/ InsertGeneration(c) \/ Commit(c) \/ Rollback(c)

LiteStatements ==
    \/ \E j \in Job, lease \in 1..minted :
          LiteComplete(j, lease) \/ LiteFailPermanently(j, lease)
    \/ \E j \in Job, revision \in 1..MaxRevision : LiteCancel(j, revision)
    \/ \E j \in Job : \E g \in 1..Len(publications[j]), lease \in 1..minted :
          \/ LiteMarkPublished(j, g, lease)
          \/ \E at \in Instant : LiteMarkFailed(j, g, lease, at)
    \/ \E now \in Instant : LiteRecoverClaims(now)

LiteLockStatements ==
    \/ \E k \in OverlapKey, lease \in 1..minted :
          \/ \E expires, now \in Instant : LiteRefresh(k, lease, expires, now)
          \/ LiteRelease(k, lease)
    \/ \E now \in Instant : LiteRecoverLocks(now)

LiteJobCalls ==
    \/ \E c \in Connection : LiteTransactions(c)
    \/ LiteStatements /\ UNCHANGED tx

LiteLockCalls ==
    \/ \E c \in Connection :
          \/ \E k \in OverlapKey, lease \in 1..minted, expires, now \in Instant :
                LiteAcquireSelect(c, k, lease, expires, now)
          \/ LiteAcquireWrite(c)
    \/ LiteLockStatements /\ UNCHANGED tx
=============================================================================
