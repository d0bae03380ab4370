-------------------------- MODULE ActivityDispatch --------------------------
(***************************************************************************)
(* dispatch_pending_activity of the ticketing service: the activity        *)
(* intents that ticket mutations committed are published as domain events  *)
(* through a durable event outbox, one event identity per intent, beside   *)
(* whatever dispatch_once passes the application runs on that outbox.      *)
(***************************************************************************)
EXTENDS EventOutbox, Sequences

CONSTANTS
    ActivityPass,   \* dispatchers that run dispatch_pending_activity
    ActivityLimit   \* its limit

ASSUME ActivityAssumption ==
    /\ ActivityPass \subseteq Dispatcher
    /\ ActivityLimit \in Nat \ {0}

VARIABLES
    intents,   \* the intents, in the order they were committed
    marked     \* the intents whose published_at is set

activityVars == <<outboxVars, intents, marked>>

Committed == {intents[n] : n \in DOMAIN intents}

ActivityTypeOK ==
    /\ OutboxTypeOK
    /\ Committed \subseteq Event /\ Len(intents) = Cardinality(Committed)
    /\ marked \subseteq Committed

ActivityInit == OutboxInit /\ intents = <<>> /\ marked = {}

KeepIntents == UNCHANGED <<intents, marked>>

KeepHistory == UNCHANGED <<disturbed, disruptions>>

(* A ticket mutation and its intent commit in one transaction.             *)
CommitMutation(i) ==
    /\ i \notin Committed /\ outbox[i].status = "absent"
    /\ intents' = Append(intents, i)
    /\ UNCHANGED <<outboxVars, marked>>

-----------------------------------------------------------------------------
(* One pass.                                                               *)

Unmarked(n) == n \in DOMAIN intents /\ intents[n] \notin marked

(* Mutant: the limit is taken of all the intents.                          *)
MutantLimitOfAll ==
    {intents[n] : n \in {k \in DOMAIN intents : Unmarked(k) /\ k <= ActivityLimit}}

pending_activity_intents ==
    {intents[n] : n \in {k \in DOMAIN intents :
        Unmarked(k) /\ Cardinality({m \in 1..(k - 1) : Unmarked(m)}) < ActivityLimit}}

(* On to the next intent of the list, the earliest that is left.           *)
Continue(d, batch) ==
    \/ batch = {} /\ Goto(d, Idle)
    \/ \E n \in DOMAIN intents :
          /\ intents[n] \in batch /\ \A m \in 1..(n - 1) : intents[m] \notin batch
          /\ Goto(d, Pass("enqueue", batch \ {intents[n]}, intents[n]))

ListPending(d) ==
    /\ pass[d] = Idle
    /\ pending_activity_intents # {}
    /\ Continue(d, pending_activity_intents)
    /\ UNCHANGED <<outbox, delivered, claimant>> /\ KeepHistory /\ KeepIntents

(* A duplicate is as good as a fresh record.                               *)
EnqueueIntent(d) ==
    /\ pass[d].pc = "enqueue"
    /\ enqueue(pass[d].event) \/ (outbox[pass[d].event].status # "absent" /\ UNCHANGED outbox)
    /\ Goto(d, [pass[d] EXCEPT !.pc = "claim_event"])
    /\ UNCHANGED <<delivered, claimant>> /\ KeepHistory /\ KeepIntents

(* Mutant: an event that cannot be claimed is taken for published.         *)
MutantUnclaimableIsPublished(d) ==
    LET i == pass[d].event
    IN  /\ pass[d].pc = "claim_event"
        /\ IF Claimable(i)
           THEN Claim(d, {i}) /\ Goto(d, [pass[d] EXCEPT !.pc = "publish"])
           ELSE Goto(d, [pass[d] EXCEPT !.pc = "mark_intent"]) /\ UNCHANGED <<outbox, claimant>>
        /\ UNCHANGED delivered /\ KeepHistory /\ KeepIntents

(* An event that another worker has claimed or published is skipped.       *)
ClaimIntent(d) ==
    LET i == pass[d].event
    IN  /\ pass[d].pc = "claim_event"
        /\ IF Claimable(i)
           THEN Claim(d, {i}) /\ Goto(d, [pass[d] EXCEPT !.pc = "publish"])
           ELSE Continue(d, pass[d].batch) /\ UNCHANGED <<outbox, claimant>>
        /\ UNCHANGED delivered /\ KeepHistory /\ KeepIntents

(* An error of the publisher ends the pass; the claim is not given back.   *)
PublishIntent(d) ==
    /\ pass[d].pc = "publish"
    /\ \/ /\ Delivered(pass[d].event)
          /\ Goto(d, [pass[d] EXCEPT !.pc = "mark_event"])
          /\ KeepHistory
       \/ /\ Delivered(pass[d].event) \/ UNCHANGED delivered
          /\ Goto(d, Idle)
          /\ disturbed' = disturbed \cup {pass[d].event}
          /\ Disrupted
    /\ UNCHANGED <<outbox, claimant>> /\ KeepIntents

MarkEvent(d) ==
    /\ pass[d].pc = "mark_event"
    /\ IF claimed_by(pass[d].event, d)
       THEN mark_published(pass[d].event) /\ Goto(d, [pass[d] EXCEPT !.pc = "mark_intent"])
       ELSE UNCHANGED outbox /\ Goto(d, Idle)
    /\ UNCHANGED <<delivered, claimant>> /\ KeepHistory /\ KeepIntents

MarkIntent(d) ==
    /\ pass[d].pc = "mark_intent"
    /\ marked' = marked \cup {pass[d].event}
    /\ Continue(d, pass[d].batch)
    /\ UNCHANGED <<outbox, delivered, claimant, intents>> /\ KeepHistory

ActivityStep(d) ==
    \/ ListPending(d) \/ EnqueueIntent(d) \/ ClaimIntent(d)
    \/ PublishIntent(d) \/ MarkEvent(d) \/ MarkIntent(d)

(* Events that are not intents come from requests, which may publish them  *)
(* at once; every process may be lost.                                     *)
OutboxStep ==
    /\ \/ Environment
       \/ \E e \in Event \ Committed :
             \/ Enqueue(e)
             \/ \E d \in Dispatcher \ ActivityPass : RequestEnqueue(d, e)
       \/ \E d \in Dispatcher : PassCrash(d)
       \/ \E d \in Dispatcher \ ActivityPass : DispatchStep(d)
    /\ KeepIntents

ActivityNext ==
    \/ \E i \in Event : CommitMutation(i)
    \/ \E d \in ActivityPass : ActivityStep(d)
    \/ OutboxStep

ActivitySpec == ActivityInit /\ [][ActivityNext]_activityVars

-----------------------------------------------------------------------------
(* Properties.                                                             *)

(* published_at of an intent is set only after its event was delivered and *)
(* its outbox record says so.                                              *)
IntentMarkedAfterPublication ==
    \A i \in marked : delivered[i] > 0 /\ outbox[i].status = "published"

(* Records and intents alike are marked only after the transport took the  *)
(* event.                                                                  *)
MarksFollowDelivery == PublishedWasDelivered /\ IntentMarkedAfterPublication

(* A pass skips an intent whose event others have published and leaves it  *)
(* unmarked.  The earliest of those are all that a pass is ever shown.     *)
Stuck(n) == n \in DOMAIN intents /\ intents[n] \notin marked
    /\ outbox[intents[n]].status = "published"

CrowdedOut(e) ==
    \E n \in DOMAIN intents :
       intents[n] = e /\ Cardinality({m \in 1..(n - 1) : Stuck(m)}) >= ActivityLimit

(* No event waits for ever, and no intent that is not crowded out: passes  *)
(* of either kind, repeated, deliver all of them through lapsed claims,    *)
(* failed publishes and lost passes.                                       *)
DeliveredUnlessCrowdedOut ==
    <>[](\A e \in Event :
            /\ outbox[e].status \in {"absent", "published"}
            /\ e \in Committed => delivered[e] > 0 \/ CrowdedOut(e))

(* The pass "publishes each unpublished intent", and "intents stop         *)
(* accumulating silently" (ADR 0056).                                      *)
EveryIntentIsPublished ==
    \A e \in Event : e \in Committed ~> delivered[e] > 0
=============================================================================
