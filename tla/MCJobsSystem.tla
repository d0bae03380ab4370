---------------------------- MODULE MCJobsSystem ----------------------------
(* JobsSystem on small instances, in the time units of MCJobExecutor.      *)
EXTENDS JobsSystem, TLC

CONSTANTS Attempts, Overlap, k1

MCInstant == 0..(Horizon + 3)

MCOverlapKeyOf == [f \in Fingerprint |-> Overlap]
MCMaximumAttempts == [f \in Fingerprint |-> Attempts]
MCDeadlineOf == [f \in Fingerprint |-> 99]
MCFingerprintOf == [j \in Job |-> CHOOSE f \in Fingerprint : TRUE]

(* Scheduled jobs are minted under the occurrence of their trigger.        *)
MCKeyOf == [j \in Job |-> IF j \in Scheduled THEN k1 ELSE NoKey]

MCSymmetry == Permutations(Worker) \cup Permutations(Scheduled)

(* A behaviour follows the submitted jobs, with operators, failing sends   *)
(* and lost passes, or the occurrence of a trigger, with lost workers; or  *)
(* all of it at once.                                                      *)
MCApart == {{"submissions", "operators", "failures"},
            {"triggers", "crashes"}}
MCTogether == {UNION MCApart}
=============================================================================
