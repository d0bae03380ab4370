-------------------------- MODULE SqlTransactions --------------------------
(***************************************************************************)
(* The transactions in which the SQL adapters of the job ports change the  *)
(* tables minco_jobs, minco_job_publications and minco_job_locks.  The     *)
(* variables of JobStore are the committed rows; a transaction keeps the   *)
(* rows it has written to itself until it commits, statement by statement, *)
(* and the server rolls it back when its connection or its caller is lost. *)
(***************************************************************************)
EXTENDS JobStore

CONSTANTS Connection

VARIABLE tx     \* the transaction open on each connection

sqlVars == <<storeVars, tx>>

(* step: what the transaction does next.  rows: job rows it has written.   *)
(* generations: publication rows it has written, with their numbers.       *)
(* inserted: jobs it reported as inserted.  arg: arguments of the step.    *)
NoArg == [status |-> "none"]

Transaction(step, rows, arg) ==
    [step |-> step, rows |-> rows, generations |-> <<>>, inserted |-> {}, arg |-> arg]

Closed == Transaction("closed", <<>>, NoArg)

Others(c) == Connection \ {c}

Rows(c) == DOMAIN tx[c].rows

Become(c, t) == tx' = [tx EXCEPT ![c] = t]

(* The rows of f, and x as that of job j.                                  *)
With(f, j, x) == [i \in {j} \cup DOMAIN f |-> IF i = j THEN x ELSE f[i]]

Row(j, x) == [i \in {j} |-> x]

-----------------------------------------------------------------------------
(* What a statement of the transaction sees: committed rows, and its own.  *)

Sees(c, j) == jobs[j].status # "absent" \/ j \in Rows(c)

SeesUnderKey(c, k) ==
    {j \in Job : \/ j \in Rows(c) /\ tx[c].rows[j].key = k
                 \/ jobs[j].status # "absent" /\ jobs[j].key = k}

-----------------------------------------------------------------------------
(* Statements both adapters have.                                          *)

(* INSERT of a job row.  It collides with the primary key or the dedupe    *)
(* index, or the publication row is next.  (Bound: one job inserted per    *)
(* transaction, so that its commit is one operation of the ports.)         *)
InsertRow(c, j, k, f, at, status) ==
    LET keyed == k # NoKey /\ SeesUnderKey(c, k) # {} IN
    /\ tx[c].step \in {"closed", "open"}
    /\ \/ /\ ~Sees(c, j) /\ ~keyed
          /\ Rows(c) = {} /\ RoomForGeneration(j)
          /\ Become(c, [tx[c] EXCEPT !.step = "generation", !.arg = [status |-> status],
                                     !.rows = Row(j, pending_record(k, f, at))])
       \/ \E by \in {"job", "key"} :
             /\ by = "job" => Sees(c, j)
             /\ by = "key" => keyed
             /\ Become(c, [tx[c] EXCEPT !.step = "lookup",
                                        !.arg = [by |-> by, job |-> j, key |-> k]])
    /\ UNCHANGED storeVars

(* The row an INSERT collided with is read for its fingerprint, to answer  *)
(* Duplicate or to refuse; "vanished" if there is none.  Neither answer    *)
(* writes anything.                                                        *)
Lookup(c) ==
    LET sought == tx[c].arg
        found == {j \in Job : /\ Sees(c, j)
                              /\ \/ sought.by = "job" /\ sought.job = j
                                 \/ sought.by = "key" /\ j \in SeesUnderKey(c, sought.key)}
    IN
    /\ tx[c].step = "lookup"
    /\ Become(c, [tx[c] EXCEPT !.arg = NoArg,
                               !.step = IF found = {} THEN "vanished" ELSE "open"])
    /\ UNCHANGED storeVars

(* INSERT ... SELECT COALESCE(MAX(generation), 0) + 1: the publication row *)
(* of a job row written before it.  A submission then leaves the caller    *)
(* free to go on; any other call commits.                                  *)
InsertGeneration(c) ==
    \E j \in Rows(c) \ DOMAIN tx[c].generations :
        LET submitted == tx[c].arg # NoArg
            row == [status |-> IF submitted THEN tx[c].arg.status ELSE "pending",
                    available_at |-> tx[c].rows[j].available_at,
                    lease_id |-> NoLease, claim_expires_at |-> 0]
            generations == With(tx[c].generations, j,
                                [number |-> Len(publications[j]) + 1, row |-> row])
        IN
        /\ tx[c].step = "generation"
        /\ Become(c, [tx[c] EXCEPT
              !.generations = generations,
              !.arg = NoArg,
              !.inserted = IF submitted THEN @ \cup {j} ELSE @,
              !.step = IF submitted THEN "open"
                       ELSE IF Rows(c) = DOMAIN generations THEN "commit"
                       ELSE "generation"])
        /\ UNCHANGED storeVars

(* COMMIT: the rows written become the committed ones.                     *)
Commit(c) ==
    LET rows == tx[c].rows
        new == tx[c].generations
    IN
    /\ tx[c].step \in {"open", "commit"}
    /\ jobs' = [j \in Job |-> IF j \in Rows(c) THEN rows[j] ELSE jobs[j]]
    /\ fingerprints' =
          [k \in DedupeKey |->
             IF \E j \in Rows(c) : rows[j].key = k
             THEN CHOOSE j \in Rows(c) : rows[j].key = k
             ELSE fingerprints[k]]
    /\ publications' =
          [j \in Job |-> IF j \in DOMAIN new THEN Append(publications[j], new[j].row)
                         ELSE publications[j]]
    /\ Become(c, Closed)
    /\ UNCHANGED <<locks, minted>>

(* An error, a refusal, a caller that gives up, a lost connection or, in   *)
(* PostgreSQL, a deadlock.                                                 *)
Rollback(c) ==
    /\ tx[c].step # "closed"
    /\ Become(c, Closed)
    /\ UNCHANGED storeVars

-----------------------------------------------------------------------------
(* Properties.                                                             *)

(* No statement waits for what another has written and then acts on what   *)
(* was true before: two open transactions never write the same job or key. *)
WritesAreDisjoint ==
    \A c, d \in Connection : c # d =>
        /\ Rows(c) \cap Rows(d) = {}
        /\ \A i \in Rows(c), j \in Rows(d) :
              tx[c].rows[i].key = tx[d].rows[j].key => tx[c].rows[i].key = NoKey

(* MAX(generation) + 1 is still the next generation when the transaction   *)
(* commits: UNIQUE (job_id, generation) never refuses a retry, a rerun or  *)
(* a recovery.                                                             *)
GenerationsAreNext ==
    \A c \in Connection : \A j \in DOMAIN tx[c].generations :
        tx[c].generations[j].number = Len(publications[j]) + 1

(* A collision neither loses what the caller's transaction was told        *)
(* before ("without aborting the caller's transaction") nor is with a row  *)
(* that is gone when it is looked up ("job dedupe conflict vanished").     *)
CallersAreServed ==
    \A c \in Connection :
        /\ tx[c].inserted \subseteq DOMAIN tx[c].generations
        /\ tx[c].step # "vanished"

(* What the transactions rely on from locks, savepoints and constraints.   *)
TransactionsAreSound ==
    WritesAreDisjoint /\ GenerationsAreNext /\ CallersAreServed

(* Whatever the statements of concurrent transactions, commits, rollbacks  *)
(* and lost connections do to the committed rows is what an operation of   *)
(* the job ports does at once, so that all that is proved of the store     *)
(* holds of the adapters.                                                  *)
ImplementsPorts == StoreSpec
=============================================================================
