------------------------------- MODULE SqlJobs -------------------------------
(***************************************************************************)
(* The durable job store on either database: a behaviour is that of one    *)
(* adapter.                                                                *)
(***************************************************************************)
EXTENDS PostgresJobs, SqliteJobs

VARIABLE adapter

SqlInit ==
    /\ StoreInit
    /\ tx = [c \in Connection |-> Closed]
    /\ adapter \in {"postgres", "sqlite"}

JobCalls ==
    \/ adapter = "postgres" /\ PgJobCalls /\ UNCHANGED adapter
    \/ adapter = "sqlite" /\ LiteJobCalls /\ UNCHANGED adapter

LockCalls ==
    \/ adapter = "postgres" /\ PgLockCalls /\ UNCHANGED adapter
    \/ adapter = "sqlite" /\ LiteLockCalls /\ UNCHANGED adapter

SqlNext == JobCalls \/ LockCalls

SqlSpec == SqlInit /\ [][SqlNext]_<<sqlVars, adapter>>
=============================================================================
