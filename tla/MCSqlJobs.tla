----------------------------- MODULE MCSqlJobs -----------------------------
(* SqlJobs on a small instance.  The two instants print with one group of  *)
(* digits and with two.                                                    *)
EXTENDS SqlJobs, FiniteSetsExt, TLC

CONSTANTS PairRevisions, KeyRevisions, LockRevisions  \* bounds of sums of revisions

MCInstant == {2, 3}

MCSymmetry == Permutations(Job) \cup Permutations(Connection)

Present == {j \in Job : jobs[j].status # "absent"}

Revisions == MapThenSumSet(LAMBDA j : jobs[j].revision, Job)

Pending == \A id \in PublicationId : Publication(id).status = "pending"

(* One job has a long history; two meet in submissions, claims,            *)
(* settlements and recoveries; dedupe keys, which only submissions read,   *)
(* are used while there is little else.                                    *)
LongOrWide ==
    /\ Cardinality(Present) = 2 =>
          /\ Pending /\ Revisions <= PairRevisions
          /\ \A j \in Present : jobs[j].available_at = 2
    /\ (\E j \in Present : jobs[j].key # NoKey) => Pending /\ Revisions <= KeyRevisions

(* So are locks, which no call changes together with jobs.                 *)
LocksApart ==
    /\ Pending /\ minted = 1 /\ Revisions <= LockRevisions
    /\ \A j \in Present : jobs[j].key = NoKey

UnlockedJobs == \A k \in OverlapKey : locks[k] = NoLock

MCNext ==
    \/ LongOrWide /\ UnlockedJobs /\ JobCalls
    \/ LongOrWide /\ LocksApart /\ LockCalls

MCSpec == SqlInit /\ [][MCNext]_<<sqlVars, adapter>>
=============================================================================
