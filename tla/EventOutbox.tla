---------------------------- MODULE EventOutbox -----------------------------
(***************************************************************************)
(* The domain-event outbox of minco-plugin-events and the passes that      *)
(* drain it: dispatch_once, and the request-assisted publication that a    *)
(* use case runs right after it enqueued its event.                        *)
(*                                                                         *)
(* Time is abstract.  A claim may lapse at any moment after it was made    *)
(* and the delay of a failed event may end at any moment, so a pass can be *)
(* arbitrarily slow.  claim_pending takes any Limit of the eligible        *)
(* events: the memory adapter takes the lowest identifiers, the PostgreSQL *)
(* adapter the longest available.                                          *)
(***************************************************************************)
EXTENDS Naturals, FiniteSets

CONSTANTS
    Event,        \* domain events
    Dispatcher,   \* passes that may run at the same time
    Name,         \* worker identifiers
    NameOf,       \* the worker_id each pass claims under
    Limit,        \* the limit of dispatch_once
    MaxDisruptions,  \* bound: passes lost or overtaken, publishes that fail
    NoOne

ASSUME OutboxAssumption ==
    /\ NameOf \in [Dispatcher -> Name]
    /\ NoOne \notin Dispatcher \cup Name
    /\ Limit \in Nat \ {0} /\ MaxDisruptions \in Nat

VARIABLES
    outbox,      \* the OutboxRecord of each event
    delivered,   \* how often the publisher accepted it: 0, 1 or 2 for more
    pass,        \* where each pass is
    claimant,    \* history: the pass whose claim is the latest one
    disturbed,   \* history: events with a lapsed claim or a failed publish
    disruptions  \* how much has gone wrong so far

outboxVars == <<outbox, delivered, pass, claimant, disturbed, disruptions>>

Record(status, worker, lapsed, delayed) ==
    [status |-> status, claimed_by |-> worker, lapsed |-> lapsed, delayed |-> delayed]

Absent == Record("absent", NoOne, FALSE, FALSE)

Pass(pc, batch, event) == [pc |-> pc, batch |-> batch, event |-> event]

Idle == Pass("idle", {}, NoOne)

(* Where a pass of ActivityDispatch can be besides.                        *)
ActivityPlace == {"enqueue", "claim_event", "publish", "mark_event", "mark_intent"}

OutboxTypeOK ==
    /\ outbox \in [Event ->
          [status : {"absent", "pending", "claimed", "published", "failed"},
           claimed_by : Name \cup {NoOne}, lapsed : BOOLEAN, delayed : BOOLEAN]]
    /\ delivered \in [Event -> 0..2]
    /\ pass \in [Dispatcher ->
          [pc : {"idle", "request", "claim", "next", "mark", "fail"} \cup ActivityPlace,
           batch : SUBSET Event, event : Event \cup {NoOne}]]
    /\ claimant \in [Event -> Dispatcher \cup {NoOne}]
    /\ disturbed \subseteq Event
    /\ disruptions \in 0..MaxDisruptions

OutboxInit ==
    /\ outbox = [e \in Event |-> Absent]
    /\ delivered = [e \in Event |-> 0]
    /\ pass = [d \in Dispatcher |-> Idle]
    /\ claimant = [e \in Event |-> NoOne]
    /\ disturbed = {}
    /\ disruptions = 0

-----------------------------------------------------------------------------
(* The store.                                                              *)

(* Mutant: a claimed record is claimed again.                              *)
MutantClaimsClaimed(e) ==
    outbox[e].status \in {"pending", "claimed", "failed"} /\ ~outbox[e].delayed

Claimable(e) ==
    outbox[e].status \in {"pending", "failed"} /\ ~outbox[e].delayed

enqueue(e) ==
    /\ outbox[e].status = "absent"
    /\ outbox' = [outbox EXCEPT ![e] = Record("pending", NoOne, FALSE, FALSE)]

(* claim_pending and claim_event, of a batch that is eligible.             *)
Claim(d, batch) ==
    /\ outbox' = [e \in Event |->
          IF e \in batch THEN Record("claimed", NameOf[d], FALSE, FALSE) ELSE outbox[e]]
    /\ claimant' = [e \in Event |-> IF e \in batch THEN d ELSE claimant[e]]

(* Mutant: any worker may settle a claimed record.                         *)
MutantUnfenced(e, d) == outbox[e].status = "claimed"

claimed_by(e, d) ==
    outbox[e].status = "claimed" /\ outbox[e].claimed_by = NameOf[d]

mark_published(e) ==
    outbox' = [outbox EXCEPT ![e] = Record("published", NoOne, FALSE, FALSE)]

mark_failed(e) ==
    outbox' = [outbox EXCEPT ![e] = Record("failed", NoOne, FALSE, TRUE)]

Recovered ==
    [e \in Event |->
        IF outbox[e].status = "claimed" /\ outbox[e].lapsed
        THEN Record("pending", NoOne, FALSE, FALSE) ELSE outbox[e]]

-----------------------------------------------------------------------------
(* Time.                                                                   *)

Disrupted == disruptions < MaxDisruptions /\ disruptions' = disruptions + 1

(* The pass holds e claimed; the last two are places of ActivityDispatch.  *)
AtWork(d, e) ==
    \/ pass[d].pc \in {"next", "mark", "fail"} /\ e \in pass[d].batch \cup {pass[d].event}
    \/ pass[d].pc \in {"publish", "mark_event"} /\ e = pass[d].event

(* A claim lapses that nobody works under any more, or under a slow pass.  *)
Lapse(e) ==
    /\ outbox[e].status = "claimed" /\ ~outbox[e].lapsed
    /\ outbox' = [outbox EXCEPT ![e].lapsed = TRUE]
    /\ disturbed' = disturbed \cup {e}
    /\ UNCHANGED <<delivered, pass, claimant>>

AbandonedClaimLapses(e) ==
    /\ Lapse(e)
    /\ ~AtWork(claimant[e], e)
    /\ UNCHANGED disruptions

SlowClaimLapses(e) ==
    /\ Lapse(e)
    /\ AtWork(claimant[e], e)
    /\ Disrupted

DelayEnds(e) ==
    /\ outbox[e].delayed
    /\ outbox' = [outbox EXCEPT ![e].delayed = FALSE]
    /\ UNCHANGED <<delivered, pass, claimant, disturbed, disruptions>>

-----------------------------------------------------------------------------
(* A pass.                                                                 *)

Goto(d, p) == pass' = [pass EXCEPT ![d] = p]

Enqueue(e) ==
    /\ enqueue(e)
    /\ UNCHANGED <<delivered, pass, claimant, disturbed, disruptions>>

(* Mutant: dispatch_once does not recover expired claims.                  *)
MutantNoRecovery(d) ==
    /\ pass[d] = Idle
    /\ Goto(d, Pass("claim", {}, NoOne))
    /\ UNCHANGED <<outbox, delivered, claimant, disturbed, disruptions>>

PassRecover(d) ==
    /\ pass[d] = Idle
    /\ outbox' = Recovered
    /\ Goto(d, Pass("claim", {}, NoOne))
    /\ UNCHANGED <<delivered, claimant, disturbed, disruptions>>

PassClaim(d) ==
    /\ pass[d].pc = "claim"
    /\ \E batch \in SUBSET {e \in Event : Claimable(e)} :
          /\ \/ Cardinality(batch) = Limit
             \/ /\ batch = {e \in Event : Claimable(e)}
                /\ Cardinality(batch) < Limit
          /\ Claim(d, batch)
          /\ Goto(d, IF batch = {} THEN Idle ELSE Pass("next", batch, NoOne))
    /\ UNCHANGED <<delivered, disturbed, disruptions>>

(* A use case enqueues an event and then claims just that one; claim_event *)
(* leaves an event alone that is claimed, published or delayed.            *)
RequestEnqueue(d, e) ==
    /\ pass[d] = Idle
    /\ enqueue(e)
    /\ Goto(d, Pass("request", {}, e))
    /\ UNCHANGED <<delivered, claimant, disturbed, disruptions>>

RequestClaim(d) ==
    LET e == pass[d].event
    IN  /\ pass[d].pc = "request"
        /\ IF Claimable(e)
           THEN Claim(d, {e}) /\ Goto(d, Pass("next", {e}, NoOne))
           ELSE Goto(d, Idle) /\ UNCHANGED <<outbox, claimant>>
        /\ UNCHANGED <<delivered, disturbed, disruptions>>

(* publish of the next record: accepted, or an error, after which the      *)
(* transport may have the event all the same.                              *)
Delivered(e) ==
    delivered' = [delivered EXCEPT ![e] = IF @ = 2 THEN 2 ELSE @ + 1]

PublishAccepted(d, e) ==
    /\ pass[d].pc = "next" /\ e \in pass[d].batch
    /\ Delivered(e)
    /\ Goto(d, Pass("mark", pass[d].batch \ {e}, e))
    /\ UNCHANGED <<outbox, claimant, disturbed, disruptions>>

PublishFails(d, e) ==
    /\ pass[d].pc = "next" /\ e \in pass[d].batch
    /\ Delivered(e) \/ UNCHANGED delivered
    /\ Goto(d, Pass("fail", pass[d].batch \ {e}, e))
    /\ disturbed' = disturbed \cup {e}
    /\ Disrupted
    /\ UNCHANGED <<outbox, claimant>>

(* The mark.  One that finds the claim gone ends the pass and leaves the   *)
(* rest of its batch claimed.                                              *)
PassMark(d) ==
    LET e == pass[d].event
        rest == pass[d].batch
    IN  /\ pass[d].pc \in {"mark", "fail"}
        /\ IF claimed_by(e, d)
           THEN /\ IF pass[d].pc = "mark" THEN mark_published(e) ELSE mark_failed(e)
                /\ Goto(d, IF rest = {} THEN Idle ELSE Pass("next", rest, NoOne))
           ELSE /\ UNCHANGED outbox
                /\ Goto(d, Idle)
        /\ UNCHANGED <<delivered, claimant, disturbed, disruptions>>

(* The process is lost, or a call to the store fails.                      *)
PassCrash(d) ==
    /\ pass[d] # Idle
    /\ Goto(d, Idle)
    /\ Disrupted
    /\ UNCHANGED <<outbox, delivered, claimant, disturbed>>

DispatchStep(d) ==
    \/ RequestClaim(d) \/ PassRecover(d) \/ PassClaim(d) \/ PassMark(d)
    \/ \E e \in Event : PublishAccepted(d, e) \/ PublishFails(d, e)

Environment == \E e \in Event : AbandonedClaimLapses(e) \/ SlowClaimLapses(e) \/ DelayEnds(e)

-----------------------------------------------------------------------------
(* Properties.                                                             *)

(* An event is reported published only after the publisher accepted it,    *)
(* whatever slow passes and recoveries do to its record.                   *)
PublishedWasDelivered ==
    \A e \in Event : outbox[e].status = "published" => delivered[e] > 0

(* An event is delivered twice only if a claim on it lapsed or a publish   *)
(* of it failed: two passes, or a pass and a request, that run at the same *)
(* time never publish the same event on their own.                         *)
DuplicateHasCause ==
    \A e \in Event : delivered[e] = 2 => e \in disturbed

(* mark_published and mark_failed settle a record only for the pass that   *)
(* made the current claim; a pass whose claim was recovered and taken by   *)
(* another worker changes nothing.                                         *)
SettledByClaimant ==
    [][\A e \in Event :
          (outbox[e].status = "claimed" /\ outbox'[e].status \in {"published", "failed"})
              => \E d \in Dispatcher : claimant[e] = d /\ pass[d].event = e]_outboxVars
=============================================================================
