--------------------------- MODULE MCJobExecutor ----------------------------
(* JobExecutor on small instances.  Times are in units of the model: a     *)
(* lease of 3, a handler timeout of 1 and a start delay of 1 keep the      *)
(* order of the defaults in services.rs (15 min, 300 s, seconds).          *)
EXTENDS JobExecutor, TLC

CONSTANTS Attempts, Deadline, Overlap

MCInstant == 0..(Horizon + 3)

MCOverlapKeyOf == [f \in Fingerprint |-> Overlap]
MCMaximumAttempts == [f \in Fingerprint |-> Attempts]
MCDeadlineOf == [f \in Fingerprint |-> Deadline]
MCKeyOf == [j \in Job |-> NoKey]
MCFingerprintOf == [j \in Job |-> CHOOSE f \in Fingerprint : TRUE]

MCSymmetry == Permutations(Worker) \cup Permutations(Job)
=============================================================================
