---------------------------- MODULE PostgresJobs ----------------------------
(***************************************************************************)
(* PostgresJobStore under READ COMMITTED.  A statement that meets a row    *)
(* another transaction has written waits for that transaction and then     *)
(* looks at the committed row; one that is a call of its own commits at    *)
(* once and is ONE action.                                                 *)
(***************************************************************************)
EXTENDS SqlTransactions

(* No other transaction has written the job row, or one with the key.      *)
RowFree(c, j) == \A o \in Others(c) : j \notin Rows(o)

KeyFree(c, k) == \A o \in Others(c) : \A j \in Rows(o) : tx[o].rows[j].key # k

Unlocked(j) == \A c \in Connection : j \notin Rows(c)

(* The call starts its transaction with an update that writes these rows.  *)
Writes(c, rows) ==
    /\ tx[c] = Closed
    /\ Become(c, Transaction("generation", rows, NoArg))
    /\ UNCHANGED storeVars

-----------------------------------------------------------------------------
(* Calls of several statements.                                            *)

(* Mutant: the collision is not contained by a savepoint, and the rows the *)
(* transaction has written before are lost.                                *)
MutantInsertWithoutSavepoint(c, j, k, f, at, status) ==
    LET keyed == k # NoKey /\ SeesUnderKey(c, k) # {} IN
    /\ tx[c].step \in {"closed", "open"}
    /\ RowFree(c, j) /\ (k # NoKey => KeyFree(c, k))
    /\ \/ /\ ~Sees(c, j) /\ ~keyed
          /\ Rows(c) = {} /\ RoomForGeneration(j)
          /\ Become(c, [tx[c] EXCEPT !.step = "generation", !.arg = [status |-> status],
                                     !.rows = Row(j, pending_record(k, f, at))])
       \/ \E by \in {"job", "key"} :
             /\ by = "job" => Sees(c, j)
             /\ by = "key" => keyed
             /\ Become(c, [tx[c] EXCEPT !.step = "lookup", !.rows = <<>>,
                                        !.generations = <<>>,
                                        !.arg = [by |-> by, job |-> j, key |-> k]])
    /\ UNCHANGED storeVars

(* enqueue_record_in, for a call or inside a caller's transaction: SAVEPOINT*)
(* and INSERT, which waits for whoever has written the job or the key.  A  *)
(* collision rolls back to the savepoint.                                  *)
PgInsert(c, j, k, f, at, status) ==
    /\ RowFree(c, j) /\ (k # NoKey => KeyFree(c, k))
    /\ InsertRow(c, j, k, f, at, status)

(* schedule_retry_and_publish: the fenced UPDATE; its publication follows. *)
PgRetry(c, j, lease, next) ==
    /\ RowFree(c, j) /\ LeaseHeld(j, lease)
    /\ CanRevise(j) /\ RoomForGeneration(j)
    /\ Writes(c, Row(j, [Settled(jobs[j], "pending", lease, "retried") EXCEPT
                            !.available_at = next]))

(* retry_failed: the UPDATE guarded by revision and status.                *)
PgRerun(c, j, revision, now) ==
    /\ RowFree(c, j)
    /\ jobs[j].revision = revision /\ jobs[j].status = "failed_permanently"
    /\ CanRevise(j) /\ RoomForGeneration(j)
    /\ Writes(c, Row(j, [Reopened(jobs[j], now) EXCEPT !.attempt_count = 0]))

(* recover_expired_leases: the snapshot of the UPDATE shows it rows ...    *)
PgRecoverScan(c, now) ==
    /\ tx[c] = Closed /\ ExpiredLeases(now) # {}
    /\ \A j \in ExpiredLeases(now) : CanRevise(j) /\ RoomForGeneration(j)
    /\ Become(c, Transaction("recover", <<>>, [now |-> now, rows |-> ExpiredLeases(now)]))
    /\ UNCHANGED storeVars

(* Mutant: the condition is not evaluated again after a wait.              *)
MutantRecoverStaleRow(c) ==
    /\ tx[c].step = "recover"
    /\ UNCHANGED storeVars
    /\ \E j \in tx[c].arg.rows :
        LET now == tx[c].arg.now
            rest == tx[c].arg.rows \ {j}
            rows == With(tx[c].rows, j, Reopened(jobs[j], now))
        IN
        /\ RowFree(c, j)
        /\ CanRevise(j) /\ RoomForGeneration(j)
        /\ Become(c, IF rest # {} THEN [tx[c] EXCEPT !.rows = rows, !.arg.rows = rest]
                     ELSE Transaction("generation", rows, NoArg))

(* ... and it writes them one by one, each after the transaction that      *)
(* holds it, if the committed row still has an expired lease.              *)
PgRecoverRow(c) ==
    /\ tx[c].step = "recover"
    /\ UNCHANGED storeVars
    /\ \E j \in tx[c].arg.rows :
        LET now == tx[c].arg.now
            rest == tx[c].arg.rows \ {j}
            rows == IF LeaseExpired(jobs[j], now)
                    THEN With(tx[c].rows, j, Reopened(jobs[j], now))
                    ELSE tx[c].rows
        IN
        /\ RowFree(c, j)
        /\ CanRevise(j) /\ RoomForGeneration(j)
        /\ Become(c, CASE rest # {} -> [tx[c] EXCEPT !.rows = rows, !.arg.rows = rest]
                       [] rest = {} /\ DOMAIN rows = {} -> Closed
                       [] OTHER -> Transaction("generation", rows, NoArg))

-----------------------------------------------------------------------------
(* Calls of one statement: UPDATE ... WHERE, on rows nobody has locked.    *)

PgClaimExecution(j, expires, now) == Unlocked(j) /\ claim_execution(j, expires, now)

PgComplete(j, lease) == Unlocked(j) /\ complete(j, lease)

PgFailPermanently(j, lease) == Unlocked(j) /\ fail_permanently(j, lease)

PgCancel(j, revision) == Unlocked(j) /\ cancel(j, revision)

(* FOR UPDATE SKIP LOCKED: due rows in use by another statement are left   *)
(* out, so that the batch may be smaller than the limit.                   *)
PgClaimDue(batch, expires, now) ==
    /\ Cardinality(batch) \in 1..DispatchLimit
    /\ claim_due(batch, Cardinality(batch), expires, now)

PgMarkPublished(j, g, lease) == mark_published(j, g, lease)

PgMarkFailed(j, g, lease, retry_at) ==
    publications[j][g].status = "claimed" /\ mark_failed(j, g, lease, retry_at)

(* Of the expired claims, those the statement's snapshot shows.            *)
PgRecoverClaims(expired, now) == RecoverClaims(expired, now)

(* INSERT ... ON CONFLICT DO UPDATE ... WHERE expires_at <= now.           *)
PgAcquire(k, lease, expires, now) == acquire(k, lease, expires, now)

PgRefresh(k, lease, expires, now) == refresh(k, lease, expires, now)

PgRelease(k, lease) == release(k, lease)

PgRecoverLocks(expired, now) == RecoverLocks(expired, now)

-----------------------------------------------------------------------------
PgTransactions(c) ==
    \/ \E j \in Job, k \in DedupeKey \cup {NoKey}, f \in Fingerprint, at \in Instant,
          status \in {"pending", "published"} : PgInsert(c, j, k, f, at, status)
    \/ \E j \in Job, lease \in 1..minted, next \in Instant : PgRetry(c, j, lease, next)
    \/ \E j \in Job, revision \in 1..MaxRevision, now \in Instant :
          PgRerun(c, j, revision, now)
    \/ \E now \in Instant : PgRecoverScan(c, now)
    \/ PgRecoverRow(c)
    \/ Lookup(c) \/ InsertGeneration(c) \/ Commit(c) \/ Rollback(c)

PgJobStatements ==
    \/ \E j \in Job, expires, now \in Instant : PgClaimExecution(j, expires, now)
    \/ \E j \in Job, lease \in 1..minted : PgComplete(j, lease) \/ PgFailPermanently(j, lease)
    \/ \E j \in Job, revision \in 1..MaxRevision : PgCancel(j, revision)

PgPublicationStatements ==
    \/ \E batch \in SUBSET PublicationId, expires, now \in Instant :
          PgClaimDue(batch, expires, now)
    \/ \E j \in Job : \E g \in 1..Len(publications[j]), lease \in 1..minted :
          \/ PgMarkPublished(j, g, lease)
          \/ \E at \in Instant : PgMarkFailed(j, g, lease, at)
    \/ \E now \in Instant : \E expired \in SUBSET ExpiredClaims(now) :
          PgRecoverClaims(expired, now)

PgLockStatements ==
    \/ \E k \in OverlapKey, lease \in 1..minted :
          \/ \E expires, now \in Instant :
                PgAcquire(k, lease, expires, now) \/ PgRefresh(k, lease, expires, now)
          \/ PgRelease(k, lease)
    \/ \E now \in Instant : \E expired \in SUBSET ExpiredLocks(now) :
          PgRecoverLocks(expired, now)

PgJobCalls ==
    \/ \E c \in Connection : PgTransactions(c)
    \/ (PgJobStatements \/ PgPublicationStatements) /\ UNCHANGED tx

PgLockCalls == PgLockStatements /\ UNCHANGED tx
=============================================================================
