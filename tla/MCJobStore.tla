----------------------------- MODULE MCJobStore -----------------------------
(* JobStore on a small instance: one job through long histories, with an   *)
(* overlap lock beside it, or two jobs that share a key through shorter    *)
(* ones.                                                                   *)
EXTENDS JobStore, TLC

CONSTANTS
    PairLeases, PairRevision, PairGenerations  \* bounds while there are two jobs

MCInstant == 0..1

(* Neither the jobs nor the overlap keys are told apart by the store.      *)
MCSymmetry == Permutations(Job) \cup Permutations(DedupeKey)

Small ==
    LET stored == {j \in Job : jobs[j].status # "absent"} IN
    Cardinality(stored) > 1 =>
        /\ locks = [k \in OverlapKey |-> NoLock]
        /\ minted <= PairLeases
        /\ \A j \in stored :
              /\ jobs[j].revision <= PairRevision
              /\ Len(publications[j]) <= PairGenerations

MCSpec == StoreInit /\ [][StoreNext /\ Small']_storeVars
=============================================================================
