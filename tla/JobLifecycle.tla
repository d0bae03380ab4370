---------------------------- MODULE JobLifecycle ----------------------------
(***************************************************************************)
(* What a durable job promises, without clocks, leases that expire,        *)
(* revisions, histories or publication claims: a job is worked on under    *)
(* one token at a time, tokens are never reused, only the current token    *)
(* settles the job, success and cancellation are final, and each time the  *)
(* job becomes pending exactly one more intent to deliver it exists.       *)
(* JobStore implements this specification.                                 *)
(***************************************************************************)
EXTENDS Naturals

CONSTANTS Job

VARIABLES
    phase,    \* where each job is
    holder,   \* the token each running job is worked on under, else 0
    issued,   \* every token in use so far is at most this
    intents   \* how often each job was promised a delivery

lifecycleVars == <<phase, holder, issued, intents>>

LifecycleInit ==
    /\ phase = [j \in Job |-> "absent"]
    /\ holder = [j \in Job |-> 0]
    /\ issued = 0
    /\ intents = [j \in Job |-> 0]

(* A new job, promised a delivery.                                         *)
Accept(j) ==
    /\ phase[j] = "absent"
    /\ phase' = [phase EXCEPT ![j] = "pending"]
    /\ intents' = [intents EXCEPT ![j] = @ + 1]
    /\ UNCHANGED <<holder, issued>>

(* Work starts under a fresh token; a running job is taken over.           *)
Start(j) ==
    /\ phase[j] \in {"pending", "running"}
    /\ issued' = issued + 1
    /\ phase' = [phase EXCEPT ![j] = "running"]
    /\ holder' = [holder EXCEPT ![j] = issued']
    /\ UNCHANGED intents

(* The current token's work ends the job.                                  *)
Settle(j) ==
    /\ phase[j] = "running" /\ holder[j] # 0
    /\ \E outcome \in {"succeeded", "failed_permanently"} :
          phase' = [phase EXCEPT ![j] = outcome]
    /\ holder' = [holder EXCEPT ![j] = 0]
    /\ UNCHANGED <<issued, intents>>

(* Jobs come back to pending, each with one more intent: a retry, a lease  *)
(* recovery (of several jobs at once) or an operator's rerun.              *)
Reopen(S) ==
    /\ S # {}
    /\ \A j \in S : phase[j] \in {"running", "failed_permanently"}
    /\ phase' = [j \in Job |-> IF j \in S THEN "pending" ELSE phase[j]]
    /\ holder' = [j \in Job |-> IF j \in S THEN 0 ELSE holder[j]]
    /\ intents' = [j \in Job |-> IF j \in S THEN intents[j] + 1 ELSE intents[j]]
    /\ UNCHANGED issued

Withdraw(j) ==
    /\ phase[j] = "pending"
    /\ phase' = [phase EXCEPT ![j] = "cancelled"]
    /\ UNCHANGED <<holder, issued, intents>>

(* A token is used for something else (a publication claim).               *)
Issue ==
    /\ issued' = issued + 1
    /\ UNCHANGED <<phase, holder, intents>>

LifecycleNext ==
    \/ \E j \in Job : Accept(j) \/ Start(j) \/ Settle(j) \/ Withdraw(j)
    \/ \E S \in SUBSET Job : Reopen(S)
    \/ Issue

LifecycleSpec == LifecycleInit /\ [][LifecycleNext]_lifecycleVars
=============================================================================
