------------------------- MODULE BackgroundWorkProofs -------------------------
(***************************************************************************)
(* Proofs about the passes beside the requests, for any number of them.    *)
(*                                                                         *)
(* The outbox: as long as nothing has gone wrong with an event, the pass   *)
(* that is going to publish it, or has just done so, has the claim, and    *)
(* there is one such pass (WorkOK), so the event is delivered at most once *)
(* (RecordOK).  What a lapsed claim or a failed publish may do is left to  *)
(* `disturbed`.  The relay: an entry a pass still has the claim of is the  *)
(* entry it read, and what the ledger said it appended it has              *)
(* (BatchIsCurrent), so what is deleted from the journal is in the ledger. *)
(* The ledger: its segments hold its records (Hold), and Place keeps them  *)
(* so for one record more; a batch is placed by a function over the        *)
(* naturals, about which induction goes by a least counterexample.         *)
(***************************************************************************)
EXTENDS BackgroundWork, FiniteSetTheorems, SequenceTheorems, WellFoundedInduction, TLAPS

-----------------------------------------------------------------------------
(* The outbox, its passes and the intents.                                 *)

Statuses == {"absent", "pending", "claimed", "published", "failed"}
OutboxRecords ==
    [status : Statuses, claimed_by : Name \cup {NoOne}, lapsed : BOOLEAN, delayed : BOOLEAN]
PassPlace == {"idle", "request", "claim", "next", "mark", "fail"} \cup ActivityPlace
Passes == [pc : PassPlace, batch : SUBSET Event, event : Event \cup {NoOne}]
AtEvent == {"request", "mark", "fail"} \cup ActivityPlace

(* A pass that is at an event has one, outside of the rest of its batch;   *)
(* the batch of an activity pass are intents, and so is its event.         *)
PassOK(d) ==
    /\ pass[d].pc \in AtEvent =>
          pass[d].event \in Event /\ pass[d].event \notin pass[d].batch
    /\ pass[d].pc \in ActivityPlace =>
          pass[d].event \in Committed /\ pass[d].batch \subseteq Committed

OutboxTyped ==
    /\ OutboxTypeOK
    /\ intents \in Seq(Event) /\ IsFiniteSet(Committed)
            /\ Len(intents) = Cardinality(Committed)
    /\ marked \subseteq Committed
    /\ \A d \in Dispatcher : PassOK(d)

(* What the status of a record says: of a claim, whose it is; of an event  *)
(* nothing has gone wrong with, whether it was delivered.                  *)
RecordOK(e) ==
    /\ outbox[e].lapsed => e \in disturbed
    /\ outbox[e].status = "failed" => e \in disturbed
    /\ outbox[e].status = "published" => delivered[e] > 0
    /\ outbox[e].status \in {"absent", "pending"} /\ e \notin disturbed => delivered[e] = 0
    /\ e \notin disturbed => delivered[e] <= 1
    /\ outbox[e].status = "claimed" =>
          claimant[e] \in Dispatcher /\ outbox[e].claimed_by = NameOf[claimant[e]]

(* The pass is going to publish e, or has just published it.               *)
WillPublish(d, e) ==
    \/ pass[d].pc \in {"next", "mark", "fail"} /\ e \in pass[d].batch
    \/ pass[d].pc = "publish" /\ e = pass[d].event
HasPublished(d, e) == pass[d].pc \in {"mark", "mark_event"} /\ e = pass[d].event

(* Unless something went wrong with e, a pass at work on it has the claim, *)
(* and has not delivered it before it publishes it.                        *)
WorkOK(d, e) ==
    /\ (WillPublish(d, e) \/ HasPublished(d, e)) /\ e \notin disturbed =>
          outbox[e].status = "claimed" /\ claimant[e] = d
    /\ WillPublish(d, e) /\ e \notin disturbed => delivered[e] = 0
    /\ HasPublished(d, e) => delivered[e] > 0
    /\ pass[d].pc = "fail" /\ e = pass[d].event => e \in disturbed
    /\ pass[d].pc = "mark_intent" /\ e = pass[d].event =>
          outbox[e].status = "published" /\ delivered[e] > 0

EventsInv ==
    /\ OutboxTyped
    /\ \A e \in Event : RecordOK(e)
    /\ \A d \in Dispatcher, e \in Event : WorkOK(d, e)
    /\ IntentMarkedAfterPublication

LEMMA EventsImplied ==
  ASSUME EventsInv
  PROVE  ActivityTypeOK /\ EventsSound
<1>1. MarksFollowDelivery
  BY DEF EventsInv, RecordOK, MarksFollowDelivery, PublishedWasDelivered
<1>2. DuplicateHasCause
  BY DEF EventsInv, RecordOK, DuplicateHasCause
<1>3. ActivityTypeOK
  <2>1. Committed \subseteq Event
    BY DEF EventsInv, OutboxTyped, Committed
  <2> QED  BY <2>1 DEF EventsInv, OutboxTyped, ActivityTypeOK
<1> QED  BY <1>1, <1>2, <1>3 DEF EventsSound

LEMMA EventsInvInit == ActivityInit => EventsInv
<1> SUFFICES ASSUME ActivityInit PROVE EventsInv
  OBVIOUS
<1>1. Committed = {}
  BY DEF ActivityInit, Committed
<1>2. IsFiniteSet(Committed) /\ Cardinality(Committed) = 0
  BY <1>1, FS_EmptySet
<1>3. \A d \in Dispatcher : pass[d] = Idle
  BY DEF ActivityInit, OutboxInit
<1>4. OutboxTyped
  <2>2. OutboxTypeOK
    BY OutboxAssumption
       DEF ActivityInit, OutboxInit, OutboxTypeOK, Absent, Record, Idle, Pass
  <2>3. \A d \in Dispatcher : PassOK(d)
    BY <1>3 DEF PassOK, Idle, Pass, AtEvent, ActivityPlace
  <2> QED  BY <1>1, <1>2, <2>2, <2>3 DEF OutboxTyped, ActivityInit
<1>5. \A e \in Event : RecordOK(e)
  BY DEF ActivityInit, OutboxInit, RecordOK, Absent, Record
<1>6. \A d \in Dispatcher, e \in Event : WorkOK(d, e)
  BY <1>3 DEF WorkOK, WillPublish, HasPublished, Idle, Pass
<1> QED
  BY <1>4, <1>5, <1>6 DEF EventsInv, IntentMarkedAfterPublication, ActivityInit

(* What becomes of the passes when one goes on.                            *)
LEMMA GotoPasses ==
  ASSUME pass \in [Dispatcher -> Passes], NEW d \in Dispatcher, NEW p \in Passes, Goto(d, p)
  PROVE  /\ pass' \in [Dispatcher -> Passes]
         /\ pass'[d] = p
         /\ \A c \in Dispatcher : c # d => pass'[c] = pass[c]
BY DEF Goto

LEMMA ContinueGoes ==
  ASSUME OutboxTyped, NEW d \in Dispatcher, NEW batch \in SUBSET Committed, Continue(d, batch)
  PROVE  \E p \in Passes :
            /\ Goto(d, p)
            /\ \/ p = Idle
               \/ /\ p.pc = "enqueue" /\ p.event \in Committed
                  /\ p.batch \subseteq Committed /\ p.event \notin p.batch
<1>1. Committed \subseteq Event
  BY DEF OutboxTyped, Committed
<1>2. CASE batch = {} /\ Goto(d, Idle)
  <2>1. Idle \in Passes
    BY DEF Idle, Pass, Passes, PassPlace
  <2> QED  BY <1>2, <2>1
<1>3. ASSUME NEW n \in DOMAIN intents, intents[n] \in batch,
             Goto(d, Pass("enqueue", batch \ {intents[n]}, intents[n]))
      PROVE  \E p \in Passes :
            /\ Goto(d, p)
            /\ p.pc = "enqueue" /\ p.event \in Committed
            /\ p.batch \subseteq Committed /\ p.event \notin p.batch
  <2> DEFINE p == Pass("enqueue", batch \ {intents[n]}, intents[n])
  <2>1. p \in Passes
    BY <1>1, <1>3 DEF Pass, Passes, PassPlace, ActivityPlace
  <2>2. /\ p.pc = "enqueue" /\ p.event \in Committed
        /\ p.batch \subseteq Committed /\ p.event \notin p.batch
    BY <1>3 DEF Pass
  <2> HIDE DEF p
  <2>3. Goto(d, p)
    BY <1>3 DEF p
  <2> QED  BY <2>1, <2>2, <2>3
<1> QED  BY <1>2, <1>3 DEF Continue

(* What a step of a pass has to show of the passes.                        *)
Placed(p) ==
    /\ p \in Passes
    /\ p.pc \in AtEvent => p.event \in Event /\ p.event \notin p.batch
    /\ p.pc \in ActivityPlace => p.event \in Committed /\ p.batch \subseteq Committed

LEMMA PassesStay ==
  ASSUME OutboxTyped, NEW d \in Dispatcher, NEW p, Placed(p), Goto(d, p), intents' = intents
  PROVE  /\ pass' \in [Dispatcher -> Passes]
         /\ pass'[d] = p
         /\ \A c \in Dispatcher : c # d => pass'[c] = pass[c]
         /\ \A c \in Dispatcher : PassOK(c)'
<1>1. pass \in [Dispatcher -> Passes]
  BY DEF OutboxTyped, OutboxTypeOK, Passes, PassPlace
<1>2. p \in Passes
  BY DEF Placed
<1>3. /\ pass' \in [Dispatcher -> Passes]
      /\ pass'[d] = p
      /\ \A c \in Dispatcher : c # d => pass'[c] = pass[c]
  BY <1>1, <1>2, GotoPasses
<1>4. Committed' = Committed
  BY DEF Committed
<1>5. ASSUME NEW c \in Dispatcher PROVE PassOK(c)'
  <2>1. CASE c = d
    BY <1>3, <1>4, <2>1 DEF PassOK, Placed
  <2>2. CASE c # d
    BY <1>3, <1>4, <2>2 DEF PassOK, OutboxTyped
  <2> QED  BY <2>1, <2>2
<1> QED  BY <1>3, <1>5

LEMMA TypesStay ==
  ASSUME OutboxTyped, intents' = intents, marked' \subseteq Committed,
         outbox' \in [Event -> OutboxRecords], delivered' \in [Event -> 0..2],
         pass' \in [Dispatcher -> Passes], \A c \in Dispatcher : PassOK(c)',
         claimant' \in [Event -> Dispatcher \cup {NoOne}],
         disturbed' \subseteq Event, disruptions' \in 0..MaxDisruptions
  PROVE  OutboxTyped'
<1>1. Committed' = Committed
  BY DEF Committed
<1> QED  BY <1>1 DEF OutboxTyped, OutboxTypeOK, OutboxRecords, Statuses, Passes, PassPlace

LEMMA Types ==
  ASSUME OutboxTyped
  PROVE  /\ outbox \in [Event -> OutboxRecords] /\ delivered \in [Event -> 0..2]
         /\ pass \in [Dispatcher -> Passes]
         /\ claimant \in [Event -> Dispatcher \cup {NoOne}]
         /\ disturbed \subseteq Event /\ disruptions \in 0..MaxDisruptions
         /\ Committed \subseteq Event
BY DEF OutboxTyped, OutboxTypeOK, OutboxRecords, Statuses, Passes, PassPlace, Committed

LEMMA LapsePreserves ==
  ASSUME EventsInv, NEW e \in Event, AbandonedClaimLapses(e)
          \/ SlowClaimLapses(e), KeepIntents
  PROVE  EventsInv'
<1> USE DEF EventsInv
<1>0. /\ outbox \in [Event -> OutboxRecords] /\ delivered \in [Event -> 0..2]
      /\ pass \in [Dispatcher -> Passes]
      /\ claimant \in [Event -> Dispatcher \cup {NoOne}]
      /\ disturbed \subseteq Event /\ disruptions \in 0..MaxDisruptions
      /\ Committed \subseteq Event
  BY Types
<1>1. /\ pass' = pass /\ intents' = intents /\ Committed' = Committed
      /\ marked' = marked /\ marked \subseteq Committed
  BY DEF KeepIntents, Committed, OutboxTyped, AbandonedClaimLapses, SlowClaimLapses, Lapse
<1>2. OutboxTyped'
  <2>1. \A c \in Dispatcher : PassOK(c)'
    BY <1>1 DEF PassOK, OutboxTyped
  <2>2. /\ outbox' \in [Event -> OutboxRecords] /\ delivered' \in [Event -> 0..2]
        /\ claimant' \in [Event -> Dispatcher \cup {NoOne}]
        /\ disturbed' \subseteq Event /\ disruptions' \in 0..MaxDisruptions
    <3>1. Lapse(e)
      BY DEF AbandonedClaimLapses, SlowClaimLapses
    <3>2. outbox' = [outbox EXCEPT ![e] = [outbox[e] EXCEPT !.lapsed = TRUE]]
      BY <1>0, <3>1 DEF Lapse
    <3>3. [outbox[e] EXCEPT !.lapsed = TRUE] \in OutboxRecords
      BY <1>0 DEF OutboxRecords
    <3>4. outbox' \in [Event -> OutboxRecords]
      BY <1>0, <3>2, <3>3
    <3>5. disruptions' \in 0..MaxDisruptions
      BY <1>0, OutboxAssumption DEF AbandonedClaimLapses, SlowClaimLapses, Disrupted
    <3> QED  BY <1>0, <3>1, <3>4, <3>5 DEF Lapse
  <2> QED  BY <1>0, <1>1, <2>1, <2>2, TypesStay
<1>3. ASSUME NEW f \in Event PROVE RecordOK(f)'
  BY <1>0 DEF RecordOK, OutboxRecords, AbandonedClaimLapses, SlowClaimLapses, Lapse
<1>4. ASSUME NEW c \in Dispatcher, NEW f \in Event PROVE WorkOK(c, f)'
  <2>1. WorkOK(c, f) /\ RecordOK(f)
    OBVIOUS
  <2>2. WillPublish(c, f)' = WillPublish(c, f) /\ HasPublished(c, f)' = HasPublished(c, f)
    BY <1>1 DEF WillPublish, HasPublished
  <2> QED  BY <1>0, <2>2 DEF WorkOK, AbandonedClaimLapses, SlowClaimLapses, Lapse
<1>5. IntentMarkedAfterPublication'
  BY <1>0, <1>1
     DEF IntentMarkedAfterPublication, AbandonedClaimLapses, SlowClaimLapses, Lapse
<1> QED  BY <1>2, <1>3, <1>4, <1>5

LEMMA DelayEndsPreserves ==
  ASSUME EventsInv, NEW e \in Event, DelayEnds(e), KeepIntents
  PROVE  EventsInv'
<1> USE DEF EventsInv
<1>0. /\ outbox \in [Event -> OutboxRecords] /\ delivered \in [Event -> 0..2]
      /\ pass \in [Dispatcher -> Passes]
      /\ claimant \in [Event -> Dispatcher \cup {NoOne}]
      /\ disturbed \subseteq Event /\ disruptions \in 0..MaxDisruptions
      /\ Committed \subseteq Event
  BY Types
<1>1. /\ pass' = pass /\ intents' = intents /\ Committed' = Committed
      /\ marked' = marked /\ marked \subseteq Committed
  BY DEF KeepIntents, Committed, OutboxTyped, DelayEnds
<1>2. OutboxTyped'
  <2>1. \A c \in Dispatcher : PassOK(c)'
    BY <1>1 DEF PassOK, OutboxTyped
  <2>2. /\ outbox' \in [Event -> OutboxRecords] /\ delivered' \in [Event -> 0..2]
        /\ claimant' \in [Event -> Dispatcher \cup {NoOne}]
        /\ disturbed' \subseteq Event /\ disruptions' \in 0..MaxDisruptions
    BY <1>0 DEF OutboxRecords, DelayEnds
  <2> QED  BY <1>0, <1>1, <2>1, <2>2, TypesStay
<1>3. ASSUME NEW f \in Event PROVE RecordOK(f)'
  BY <1>0 DEF RecordOK, OutboxRecords, Statuses, Record, DelayEnds
<1>4. ASSUME NEW c \in Dispatcher, NEW f \in Event PROVE WorkOK(c, f)'
  <2>1. WorkOK(c, f) /\ RecordOK(f)
    OBVIOUS
  <2>2. WillPublish(c, f)' = WillPublish(c, f) /\ HasPublished(c, f)' = HasPublished(c, f)
    BY <1>1 DEF WillPublish, HasPublished
  <2> QED  BY <2>2 DEF WorkOK, DelayEnds
<1>5. IntentMarkedAfterPublication'
  BY <1>1 DEF IntentMarkedAfterPublication, DelayEnds
<1> QED  BY <1>2, <1>3, <1>4, <1>5

LEMMA EnqueuePreserves ==
  ASSUME EventsInv, NEW e \in Event, Enqueue(e), KeepIntents
  PROVE  EventsInv'
<1> USE DEF EventsInv
<1>0. /\ outbox \in [Event -> OutboxRecords] /\ delivered \in [Event -> 0..2]
      /\ pass \in [Dispatcher -> Passes]
      /\ claimant \in [Event -> Dispatcher \cup {NoOne}]
      /\ disturbed \subseteq Event /\ disruptions \in 0..MaxDisruptions
      /\ Committed \subseteq Event
  BY Types
<1>1. /\ pass' = pass /\ intents' = intents /\ Committed' = Committed
      /\ marked' = marked /\ marked \subseteq Committed
  BY DEF KeepIntents, Committed, OutboxTyped, Enqueue, enqueue
<1>2. OutboxTyped'
  <2>1. \A c \in Dispatcher : PassOK(c)'
    BY <1>1 DEF PassOK, OutboxTyped
  <2>2. /\ outbox' \in [Event -> OutboxRecords] /\ delivered' \in [Event -> 0..2]
        /\ claimant' \in [Event -> Dispatcher \cup {NoOne}]
        /\ disturbed' \subseteq Event /\ disruptions' \in 0..MaxDisruptions
    BY <1>0 DEF OutboxRecords, Statuses, Record, Enqueue, enqueue
  <2> QED  BY <1>0, <1>1, <2>1, <2>2, TypesStay
<1>3. ASSUME NEW f \in Event PROVE RecordOK(f)'
  BY DEF RecordOK, Record, Enqueue, enqueue
<1>4. ASSUME NEW c \in Dispatcher, NEW f \in Event PROVE WorkOK(c, f)'
  <2>1. WorkOK(c, f) /\ RecordOK(f)
    OBVIOUS
  <2>2. WillPublish(c, f)' = WillPublish(c, f) /\ HasPublished(c, f)' = HasPublished(c, f)
    BY <1>1 DEF WillPublish, HasPublished
  <2> QED  BY <1>0, <2>2 DEF WorkOK, Enqueue, enqueue
<1>5. IntentMarkedAfterPublication'
  BY <1>0, <1>1 DEF IntentMarkedAfterPublication, Enqueue, enqueue
<1> QED  BY <1>2, <1>3, <1>4, <1>5

LEMMA PassRecoverPreserves ==
  ASSUME EventsInv, NEW d \in Dispatcher, PassRecover(d), KeepIntents
  PROVE  EventsInv'
<1> USE DEF EventsInv
<1>0. /\ outbox \in [Event -> OutboxRecords] /\ delivered \in [Event -> 0..2]
      /\ pass \in [Dispatcher -> Passes]
      /\ claimant \in [Event -> Dispatcher \cup {NoOne}]
      /\ disturbed \subseteq Event /\ disruptions \in 0..MaxDisruptions
      /\ Committed \subseteq Event
  BY Types
<1>k. intents' = intents /\ marked' \subseteq Committed
  BY DEF KeepIntents, OutboxTyped
<1>1. PICK p : Placed(p) /\ Goto(d, p) /\ (p = Pass("claim", {}, NoOne))
  BY DEF Placed, Passes, PassPlace, AtEvent, ActivityPlace, Pass, PassRecover
<1>2. /\ pass' \in [Dispatcher -> Passes] /\ pass'[d] = p
      /\ \A c \in Dispatcher : c # d => pass'[c] = pass[c]
      /\ \A c \in Dispatcher : PassOK(c)'
  BY <1>1, <1>k, PassesStay
<1>3. OutboxTyped'
  <2>1. /\ outbox' \in [Event -> OutboxRecords] /\ delivered' \in [Event -> 0..2]
        /\ claimant' \in [Event -> Dispatcher \cup {NoOne}]
        /\ disturbed' \subseteq Event /\ disruptions' \in 0..MaxDisruptions
    BY <1>0 DEF OutboxRecords, Statuses, Record, PassRecover, Recovered
  <2> QED  BY <1>2, <1>k, <2>1, TypesStay
<1>4. ASSUME NEW f \in Event PROVE RecordOK(f)'
  BY DEF RecordOK, Record, PassRecover, Recovered
<1>5. ASSUME NEW c \in Dispatcher, NEW f \in Event PROVE WorkOK(c, f)'
  <2>0. /\ WorkOK(c, f) /\ RecordOK(f) /\ PassOK(c)
        /\ WorkOK(d, f) /\ PassOK(d)
    BY DEF OutboxTyped
  <2>1. CASE c = d
    BY <1>1, <1>2, <2>1 DEF WorkOK, WillPublish, HasPublished, Record, Pass
  <2>2. CASE c # d
    <3>1. WillPublish(c, f)' = WillPublish(c, f) /\ HasPublished(c, f)' = HasPublished(c, f)
      BY <1>2, <2>2 DEF WillPublish, HasPublished
    <3> QED  BY <1>2, <2>0, <2>2, <3>1 DEF WorkOK, RecordOK, PassRecover, Recovered
  <2> QED  BY <2>1, <2>2
<1>6. IntentMarkedAfterPublication'
  BY <1>0 DEF IntentMarkedAfterPublication, OutboxTyped, KeepIntents, PassRecover, Recovered
<1> QED  BY <1>3, <1>4, <1>5, <1>6

LEMMA PassClaimPreserves ==
  ASSUME EventsInv, NEW d \in Dispatcher, PassClaim(d), KeepIntents
  PROVE  EventsInv'
<1> USE DEF EventsInv
<1>0. /\ outbox \in [Event -> OutboxRecords] /\ delivered \in [Event -> 0..2]
      /\ pass \in [Dispatcher -> Passes]
      /\ claimant \in [Event -> Dispatcher \cup {NoOne}]
      /\ disturbed \subseteq Event /\ disruptions \in 0..MaxDisruptions
      /\ Committed \subseteq Event
  BY Types
<1>k. intents' = intents /\ marked' \subseteq Committed
  BY DEF KeepIntents, OutboxTyped
<1>a. PICK batch \in SUBSET {e \in Event : Claimable(e)} :
          Claim(d, batch)
                  /\ Goto(d, IF batch = {} THEN Idle ELSE Pass("next", batch, NoOne))
  BY DEF PassClaim
<1>b. /\ pass[d].pc = "claim" /\ UNCHANGED <<delivered, disturbed, disruptions>>
      /\ Claim(d, batch) /\ \A e \in batch : Claimable(e)
  BY <1>a DEF PassClaim
<1>1. PICK p : Placed(p) /\ Goto(d, p)
        /\ (p = IF batch = {} THEN Idle ELSE Pass("next", batch, NoOne))
  <2>1. Goto(d, IF batch = {} THEN Idle ELSE Pass("next", batch, NoOne))
    BY <1>a
  <2>2. Placed(IF batch = {} THEN Idle ELSE Pass("next", batch, NoOne))
    BY DEF Placed, Passes, PassPlace, AtEvent, ActivityPlace, Pass, Idle
  <2> QED  BY <2>1, <2>2
<1>2. /\ pass' \in [Dispatcher -> Passes] /\ pass'[d] = p
      /\ \A c \in Dispatcher : c # d => pass'[c] = pass[c]
      /\ \A c \in Dispatcher : PassOK(c)'
  BY <1>1, <1>k, PassesStay
<1>3. OutboxTyped'
  <2>1. /\ outbox' \in [Event -> OutboxRecords] /\ delivered' \in [Event -> 0..2]
        /\ claimant' \in [Event -> Dispatcher \cup {NoOne}]
        /\ disturbed' \subseteq Event /\ disruptions' \in 0..MaxDisruptions
    BY <1>0, <1>b, OutboxAssumption DEF OutboxRecords, Statuses, Record, Claim
  <2> QED  BY <1>2, <1>k, <2>1, TypesStay
<1>4. ASSUME NEW f \in Event PROVE RecordOK(f)'
  BY <1>b DEF RecordOK, Record, Claim
<1>5. ASSUME NEW c \in Dispatcher, NEW f \in Event PROVE WorkOK(c, f)'
  <2>0. /\ WorkOK(c, f) /\ RecordOK(f) /\ PassOK(c)
        /\ WorkOK(d, f) /\ PassOK(d)
    BY DEF OutboxTyped
  <2>1. CASE c = d
    BY <1>b, <1>1, <1>2
       DEF WorkOK, WillPublish, HasPublished, RecordOK, Record, Pass, Idle, Claim, Claimable
  <2>2. CASE c # d
    <3>1. WillPublish(c, f)' = WillPublish(c, f) /\ HasPublished(c, f)' = HasPublished(c, f)
      BY <1>2, <2>2 DEF WillPublish, HasPublished
    <3> QED  BY <1>b, <1>2, <2>0, <2>2
                DEF WorkOK, WillPublish, HasPublished, Claim, Claimable
  <2> QED  BY <2>1, <2>2
<1>6. IntentMarkedAfterPublication'
  BY <1>0, <1>b DEF IntentMarkedAfterPublication, OutboxTyped, KeepIntents, Claim, Claimable
<1> QED  BY <1>3, <1>4, <1>5, <1>6

LEMMA RequestEnqueuePreserves ==
  ASSUME EventsInv, NEW d \in Dispatcher, NEW e \in Event, RequestEnqueue(d, e), KeepIntents
  PROVE  EventsInv'
<1> USE DEF EventsInv
<1>0. /\ outbox \in [Event -> OutboxRecords] /\ delivered \in [Event -> 0..2]
      /\ pass \in [Dispatcher -> Passes]
      /\ claimant \in [Event -> Dispatcher \cup {NoOne}]
      /\ disturbed \subseteq Event /\ disruptions \in 0..MaxDisruptions
      /\ Committed \subseteq Event
  BY Types
<1>k. intents' = intents /\ marked' \subseteq Committed
  BY DEF KeepIntents, OutboxTyped
<1>1. PICK p : Placed(p) /\ Goto(d, p) /\ (p = Pass("request", {}, e))
  BY DEF Placed, Passes, PassPlace, ActivityPlace, Pass, RequestEnqueue
<1>2. /\ pass' \in [Dispatcher -> Passes] /\ pass'[d] = p
      /\ \A c \in Dispatcher : c # d => pass'[c] = pass[c]
      /\ \A c \in Dispatcher : PassOK(c)'
  BY <1>1, <1>k, PassesStay
<1>3. OutboxTyped'
  <2>1. /\ outbox' \in [Event -> OutboxRecords] /\ delivered' \in [Event -> 0..2]
        /\ claimant' \in [Event -> Dispatcher \cup {NoOne}]
        /\ disturbed' \subseteq Event /\ disruptions' \in 0..MaxDisruptions
    BY <1>0 DEF OutboxRecords, Statuses, Record, RequestEnqueue, enqueue
  <2> QED  BY <1>2, <1>k, <2>1, TypesStay
<1>4. ASSUME NEW f \in Event PROVE RecordOK(f)'
  BY DEF RecordOK, Record, RequestEnqueue, enqueue
<1>5. ASSUME NEW c \in Dispatcher, NEW f \in Event PROVE WorkOK(c, f)'
  <2>0. /\ WorkOK(c, f) /\ RecordOK(f) /\ PassOK(c)
        /\ WorkOK(d, f) /\ PassOK(d)
    BY DEF OutboxTyped
  <2>1. CASE c = d
    BY <1>1, <1>2
       DEF WorkOK, WillPublish, HasPublished, Record, Pass, RequestEnqueue, enqueue
  <2>2. CASE c # d
    <3>1. WillPublish(c, f)' = WillPublish(c, f) /\ HasPublished(c, f)' = HasPublished(c, f)
      BY <1>2, <2>2 DEF WillPublish, HasPublished
    <3> QED  BY <1>0, <1>2, <2>0, <2>2, <3>1 DEF WorkOK, RequestEnqueue, enqueue
  <2> QED  BY <2>1, <2>2
<1>6. IntentMarkedAfterPublication'
  BY <1>0
     DEF IntentMarkedAfterPublication, OutboxTyped, KeepIntents, RequestEnqueue, enqueue
<1> QED  BY <1>3, <1>4, <1>5, <1>6

LEMMA RequestClaimPreserves ==
  ASSUME EventsInv, NEW d \in Dispatcher, RequestClaim(d), KeepIntents
  PROVE  EventsInv'
<1> USE DEF EventsInv
<1>0. /\ outbox \in [Event -> OutboxRecords] /\ delivered \in [Event -> 0..2]
      /\ pass \in [Dispatcher -> Passes]
      /\ claimant \in [Event -> Dispatcher \cup {NoOne}]
      /\ disturbed \subseteq Event /\ disruptions \in 0..MaxDisruptions
      /\ Committed \subseteq Event
  BY Types
<1>k. intents' = intents /\ marked' \subseteq Committed
  BY DEF KeepIntents, OutboxTyped
<1>1. PICK p : Placed(p) /\ Goto(d, p)
        /\ (p = IF Claimable(pass[d].event) THEN Pass("next", {pass[d].event}, NoOne) ELSE Idle)
  BY
     DEF Placed, Passes, PassPlace, AtEvent, ActivityPlace, Pass, Idle, OutboxTyped,
         PassOK, RequestClaim
<1>2. /\ pass' \in [Dispatcher -> Passes] /\ pass'[d] = p
      /\ \A c \in Dispatcher : c # d => pass'[c] = pass[c]
      /\ \A c \in Dispatcher : PassOK(c)'
  BY <1>1, <1>k, PassesStay
<1>3. OutboxTyped'
  <2>1. /\ outbox' \in [Event -> OutboxRecords] /\ delivered' \in [Event -> 0..2]
        /\ claimant' \in [Event -> Dispatcher \cup {NoOne}]
        /\ disturbed' \subseteq Event /\ disruptions' \in 0..MaxDisruptions
    <3>1. pass[d].event \in Event /\ NameOf[d] \in Name
      BY OutboxAssumption DEF OutboxTyped, PassOK, AtEvent, RequestClaim, Claim, Claimable
    <3>2. outbox' \in [Event -> OutboxRecords]
      <4>1. Record("claimed", NameOf[d], FALSE, FALSE) \in OutboxRecords
        BY <3>1 DEF OutboxRecords, Statuses, Record
      <4>2. \/ outbox' = outbox
            \/ outbox' = [f \in Event |-> IF f \in {pass[d].event}
                      THEN Record("claimed", NameOf[d], FALSE, FALSE) ELSE outbox[f]]
        BY DEF RequestClaim, Claim
      <4> QED  BY <1>0, <4>1, <4>2
    <3>3. claimant' \in [Event -> Dispatcher \cup {NoOne}]
      BY <1>0, <3>1 DEF RequestClaim, Claim, Claimable
    <3> QED  BY <1>0, <3>2, <3>3 DEF RequestClaim, Claim, Claimable
  <2> QED  BY <1>2, <1>k, <2>1, TypesStay
<1>4. ASSUME NEW f \in Event PROVE RecordOK(f)'
  BY DEF RecordOK, Record, RequestClaim, Claim
<1>5. ASSUME NEW c \in Dispatcher, NEW f \in Event PROVE WorkOK(c, f)'
  <2>0. /\ WorkOK(c, f) /\ RecordOK(f) /\ PassOK(c)
        /\ WorkOK(d, f) /\ PassOK(d)
    BY DEF OutboxTyped
  <2>1. CASE c = d
    BY <1>1, <1>2, <2>0, <2>1
       DEF WorkOK, WillPublish, HasPublished, RecordOK, Record, Pass, Idle, RequestClaim,
           Claim, Claimable
  <2>2. CASE c # d
    <3>1. WillPublish(c, f)' = WillPublish(c, f) /\ HasPublished(c, f)' = HasPublished(c, f)
      BY <1>2, <2>2 DEF WillPublish, HasPublished
    <3> QED  BY <1>2, <2>0, <2>2, <3>1
                DEF WorkOK, RecordOK, WillPublish, HasPublished, Record, RequestClaim,
                    Claim, Claimable
  <2> QED  BY <2>1, <2>2
<1>6. IntentMarkedAfterPublication'
  BY <1>0
     DEF IntentMarkedAfterPublication, OutboxTyped, KeepIntents, RequestClaim, Claim,
         Claimable
<1> QED  BY <1>3, <1>4, <1>5, <1>6

LEMMA PublishAcceptedPreserves ==
  ASSUME EventsInv, NEW d \in Dispatcher, NEW e \in Event, PublishAccepted(d, e), KeepIntents
  PROVE  EventsInv'
<1> USE DEF EventsInv
<1>0. /\ outbox \in [Event -> OutboxRecords] /\ delivered \in [Event -> 0..2]
      /\ pass \in [Dispatcher -> Passes]
      /\ claimant \in [Event -> Dispatcher \cup {NoOne}]
      /\ disturbed \subseteq Event /\ disruptions \in 0..MaxDisruptions
      /\ Committed \subseteq Event
  BY Types
<1>k. intents' = intents /\ marked' \subseteq Committed
  BY DEF KeepIntents, OutboxTyped
<1>1. PICK p : Placed(p) /\ Goto(d, p) /\ (p = Pass("mark", pass[d].batch \ {e}, e))
  BY <1>0
     DEF Placed, Passes, PassPlace, AtEvent, ActivityPlace, Pass, Idle, PublishAccepted,
         Delivered
<1>2. /\ pass' \in [Dispatcher -> Passes] /\ pass'[d] = p
      /\ \A c \in Dispatcher : c # d => pass'[c] = pass[c]
      /\ \A c \in Dispatcher : PassOK(c)'
  BY <1>1, <1>k, PassesStay
<1>3. OutboxTyped'
  <2>1. /\ outbox' \in [Event -> OutboxRecords] /\ delivered' \in [Event -> 0..2]
        /\ claimant' \in [Event -> Dispatcher \cup {NoOne}]
        /\ disturbed' \subseteq Event /\ disruptions' \in 0..MaxDisruptions
    BY <1>0 DEF OutboxRecords, Statuses, Record, PublishAccepted, Delivered
  <2> QED  BY <1>2, <1>k, <2>1, TypesStay
<1>4. ASSUME NEW f \in Event PROVE RecordOK(f)'
  BY <1>0
     DEF RecordOK, WorkOK, HasPublished, WillPublish, Record, PublishAccepted, Delivered
<1>5. ASSUME NEW c \in Dispatcher, NEW f \in Event PROVE WorkOK(c, f)'
  <2>0. /\ WorkOK(c, f) /\ RecordOK(f) /\ PassOK(c)
        /\ WorkOK(d, f) /\ PassOK(d)
    BY DEF OutboxTyped
  <2>1. CASE c = d
    BY <1>0, <1>1, <1>2, <2>0, <2>1
       DEF WorkOK, WillPublish, HasPublished, RecordOK, PassOK, AtEvent, Record, Pass,
           PublishAccepted, Delivered
  <2>2. CASE c # d
    <3>1. WillPublish(c, f)' = WillPublish(c, f) /\ HasPublished(c, f)' = HasPublished(c, f)
      BY <1>2, <2>2 DEF WillPublish, HasPublished
    <3> QED  BY <1>0, <1>2, <2>0, <2>2, <3>1
                DEF WorkOK, RecordOK, WillPublish, HasPublished, Record, PublishAccepted,
                    Delivered
  <2> QED  BY <2>1, <2>2
<1>6. IntentMarkedAfterPublication'
  BY <1>0
     DEF IntentMarkedAfterPublication, OutboxTyped, KeepIntents, PublishAccepted, Delivered
<1> QED  BY <1>3, <1>4, <1>5, <1>6

LEMMA PublishFailsPreserves ==
  ASSUME EventsInv, NEW d \in Dispatcher, NEW e \in Event, PublishFails(d, e), KeepIntents
  PROVE  EventsInv'
<1> USE DEF EventsInv
<1>0. /\ outbox \in [Event -> OutboxRecords] /\ delivered \in [Event -> 0..2]
      /\ pass \in [Dispatcher -> Passes]
      /\ claimant \in [Event -> Dispatcher \cup {NoOne}]
      /\ disturbed \subseteq Event /\ disruptions \in 0..MaxDisruptions
      /\ Committed \subseteq Event
  BY Types
<1>k. intents' = intents /\ marked' \subseteq Committed
  BY DEF KeepIntents, OutboxTyped
<1>1. PICK p : Placed(p) /\ Goto(d, p) /\ (p = Pass("fail", pass[d].batch \ {e}, e))
  BY <1>0
     DEF Placed, Passes, PassPlace, AtEvent, ActivityPlace, Pass, Idle, PublishFails,
         Delivered
<1>2. /\ pass' \in [Dispatcher -> Passes] /\ pass'[d] = p
      /\ \A c \in Dispatcher : c # d => pass'[c] = pass[c]
      /\ \A c \in Dispatcher : PassOK(c)'
  BY <1>1, <1>k, PassesStay
<1>3. OutboxTyped'
  <2>1. /\ outbox' \in [Event -> OutboxRecords] /\ delivered' \in [Event -> 0..2]
        /\ claimant' \in [Event -> Dispatcher \cup {NoOne}]
        /\ disturbed' \subseteq Event /\ disruptions' \in 0..MaxDisruptions
    BY <1>0, OutboxAssumption
       DEF OutboxRecords, Statuses, Record, Disrupted, OutboxTyped, PassOK, AtEvent,
           PublishFails, Delivered, Disrupted
  <2> QED  BY <1>2, <1>k, <2>1, TypesStay
<1>4. ASSUME NEW f \in Event PROVE RecordOK(f)'
  BY <1>0 DEF RecordOK, WorkOK, HasPublished, WillPublish, Record, PublishFails, Delivered
<1>5. ASSUME NEW c \in Dispatcher, NEW f \in Event PROVE WorkOK(c, f)'
  <2>0. /\ WorkOK(c, f) /\ RecordOK(f) /\ PassOK(c)
        /\ WorkOK(d, f) /\ PassOK(d)
    BY DEF OutboxTyped
  <2>1. CASE c = d
    BY <1>0, <1>1, <1>2, <2>0, <2>1
       DEF WorkOK, WillPublish, HasPublished, RecordOK, PassOK, AtEvent, Record, Pass,
           PublishFails, Delivered
  <2>2. CASE c # d
    <3>1. WillPublish(c, f)' = WillPublish(c, f) /\ HasPublished(c, f)' = HasPublished(c, f)
      BY <1>2, <2>2 DEF WillPublish, HasPublished
    <3> QED  BY <1>0, <1>2, <2>0, <2>2, <3>1
                DEF WorkOK, RecordOK, WillPublish, HasPublished, Record, PublishFails,
                    Delivered
  <2> QED  BY <2>1, <2>2
<1>6. IntentMarkedAfterPublication'
  <2>1. ASSUME NEW f \in Event PROVE delivered[f] > 0 => delivered'[f] > 0
    BY <1>0 DEF PublishFails, Delivered
  <2>2. marked' = marked /\ outbox' = outbox /\ marked \subseteq Event
    BY <1>0 DEF PublishFails, KeepIntents, OutboxTyped
  <2> QED  BY <2>1, <2>2 DEF IntentMarkedAfterPublication
<1> QED  BY <1>3, <1>4, <1>5, <1>6

LEMMA PassMarkPreserves ==
  ASSUME EventsInv, NEW d \in Dispatcher, PassMark(d), KeepIntents
  PROVE  EventsInv'
<1> USE DEF EventsInv
<1>0. /\ outbox \in [Event -> OutboxRecords] /\ delivered \in [Event -> 0..2]
      /\ pass \in [Dispatcher -> Passes]
      /\ claimant \in [Event -> Dispatcher \cup {NoOne}]
      /\ disturbed \subseteq Event /\ disruptions \in 0..MaxDisruptions
      /\ Committed \subseteq Event
  BY Types
<1>k. intents' = intents /\ marked' \subseteq Committed
  BY DEF KeepIntents, OutboxTyped
<1>1. PICK p : Placed(p) /\ Goto(d, p) /\ (p = IF claimed_by(pass[d].event, d)
        /\ pass[d].batch # {} THEN Pass("next", pass[d].batch, NoOne) ELSE Idle)
  BY <1>0
     DEF Placed, Passes, PassPlace, AtEvent, ActivityPlace, Pass, Idle, PassMark,
         claimed_by, mark_published, mark_failed
<1>2. /\ pass' \in [Dispatcher -> Passes] /\ pass'[d] = p
      /\ \A c \in Dispatcher : c # d => pass'[c] = pass[c]
      /\ \A c \in Dispatcher : PassOK(c)'
  BY <1>1, <1>k, PassesStay
<1>3. OutboxTyped'
  <2>1. /\ outbox' \in [Event -> OutboxRecords] /\ delivered' \in [Event -> 0..2]
        /\ claimant' \in [Event -> Dispatcher \cup {NoOne}]
        /\ disturbed' \subseteq Event /\ disruptions' \in 0..MaxDisruptions
    <3>1. pass[d].event \in Event /\ NameOf[d] \in Name
      BY OutboxAssumption
         DEF OutboxTyped, PassOK, AtEvent, PassMark, claimed_by, mark_published, mark_failed
    <3>2. outbox' \in [Event -> OutboxRecords]
      <4>1. /\ Record("published", NoOne, FALSE, FALSE) \in OutboxRecords
            /\ Record("failed", NoOne, FALSE, TRUE) \in OutboxRecords
        BY DEF OutboxRecords, Statuses, Record
      <4>2. \/ outbox' = outbox
            \/ outbox' = [outbox EXCEPT ![pass[d].event] = Record("published", NoOne, FALSE, FALSE)]
            \/ outbox' = [outbox EXCEPT ![pass[d].event] = Record("failed", NoOne, FALSE, TRUE)]
        BY DEF PassMark, mark_published, mark_failed
      <4> QED  BY <1>0, <3>1, <4>1, <4>2
    <3>3. claimant' \in [Event -> Dispatcher \cup {NoOne}]
      BY <1>0, <3>1 DEF PassMark, claimed_by, mark_published, mark_failed
    <3> QED  BY <1>0, <3>2, <3>3 DEF PassMark, claimed_by, mark_published, mark_failed
  <2> QED  BY <1>2, <1>k, <2>1, TypesStay
<1>4. ASSUME NEW f \in Event PROVE RecordOK(f)'
  BY <1>0
     DEF RecordOK, WorkOK, HasPublished, WillPublish, Record, PassMark, claimed_by,
         mark_published, mark_failed
<1>5. ASSUME NEW c \in Dispatcher, NEW f \in Event PROVE WorkOK(c, f)'
  <2>0. /\ WorkOK(c, f) /\ RecordOK(f) /\ PassOK(c)
        /\ WorkOK(d, f) /\ PassOK(d)
    BY DEF OutboxTyped
  <2>1. CASE c = d
    BY <1>0, <1>1, <1>2, <2>0, <2>1
       DEF WorkOK, WillPublish, HasPublished, RecordOK, OutboxRecords, Statuses, Record,
           Pass, Idle, PassMark, claimed_by, mark_published, mark_failed
  <2>2. CASE c # d
    <3>1. WillPublish(c, f)' = WillPublish(c, f) /\ HasPublished(c, f)' = HasPublished(c, f)
      BY <1>2, <2>2 DEF WillPublish, HasPublished
    <3> QED  BY <1>0, <1>2, <2>0, <2>2, <3>1
                DEF WorkOK, RecordOK, WillPublish, HasPublished, Record, PassMark,
                    claimed_by, mark_published, mark_failed
  <2> QED  BY <2>1, <2>2
<1>6. IntentMarkedAfterPublication'
  BY <1>0
     DEF IntentMarkedAfterPublication, OutboxTyped, KeepIntents, PassMark, claimed_by,
         mark_published, mark_failed
<1> QED  BY <1>3, <1>4, <1>5, <1>6

LEMMA PassCrashPreserves ==
  ASSUME EventsInv, NEW d \in Dispatcher, PassCrash(d), KeepIntents
  PROVE  EventsInv'
<1> USE DEF EventsInv
<1>0. /\ outbox \in [Event -> OutboxRecords] /\ delivered \in [Event -> 0..2]
      /\ pass \in [Dispatcher -> Passes]
      /\ claimant \in [Event -> Dispatcher \cup {NoOne}]
      /\ disturbed \subseteq Event /\ disruptions \in 0..MaxDisruptions
      /\ Committed \subseteq Event
  BY Types
<1>k. intents' = intents /\ marked' \subseteq Committed
  BY DEF KeepIntents, OutboxTyped
<1>1. PICK p : Placed(p) /\ Goto(d, p) /\ (p = Idle)
  BY DEF Placed, Passes, PassPlace, AtEvent, ActivityPlace, Pass, Idle, PassCrash
<1>2. /\ pass' \in [Dispatcher -> Passes] /\ pass'[d] = p
      /\ \A c \in Dispatcher : c # d => pass'[c] = pass[c]
      /\ \A c \in Dispatcher : PassOK(c)'
  BY <1>1, <1>k, PassesStay
<1>3. OutboxTyped'
  <2>1. /\ outbox' \in [Event -> OutboxRecords] /\ delivered' \in [Event -> 0..2]
        /\ claimant' \in [Event -> Dispatcher \cup {NoOne}]
        /\ disturbed' \subseteq Event /\ disruptions' \in 0..MaxDisruptions
    BY <1>0, OutboxAssumption
       DEF OutboxRecords, Statuses, Record, Disrupted, OutboxTyped, PassOK, AtEvent,
           PassCrash
  <2> QED  BY <1>2, <1>k, <2>1, TypesStay
<1>4. ASSUME NEW f \in Event PROVE RecordOK(f)'
  BY DEF RecordOK, Record, PassCrash
<1>5. ASSUME NEW c \in Dispatcher, NEW f \in Event PROVE WorkOK(c, f)'
  <2>0. /\ WorkOK(c, f) /\ RecordOK(f) /\ PassOK(c)
        /\ WorkOK(d, f) /\ PassOK(d)
    BY DEF OutboxTyped
  <2>1. CASE c = d
    BY <1>1, <1>2, <2>0, <2>1
       DEF WorkOK, WillPublish, HasPublished, RecordOK, Record, Pass, Idle, PassCrash
  <2>2. CASE c # d
    <3>1. WillPublish(c, f)' = WillPublish(c, f) /\ HasPublished(c, f)' = HasPublished(c, f)
      BY <1>2, <2>2 DEF WillPublish, HasPublished
    <3> QED  BY <1>2, <2>0, <2>2, <3>1 DEF WorkOK, PassCrash
  <2> QED  BY <2>1, <2>2
<1>6. IntentMarkedAfterPublication'
  BY <1>0 DEF IntentMarkedAfterPublication, OutboxTyped, KeepIntents, PassCrash
<1> QED  BY <1>3, <1>4, <1>5, <1>6

LEMMA ListPendingPreserves ==
  ASSUME EventsInv, NEW d \in Dispatcher, ListPending(d)
  PROVE  EventsInv'
<1> USE DEF EventsInv
<1>0. /\ outbox \in [Event -> OutboxRecords] /\ delivered \in [Event -> 0..2]
      /\ pass \in [Dispatcher -> Passes]
      /\ claimant \in [Event -> Dispatcher \cup {NoOne}]
      /\ disturbed \subseteq Event /\ disruptions \in 0..MaxDisruptions
      /\ Committed \subseteq Event
  BY Types
<1>k. intents' = intents /\ marked' \subseteq Committed
  BY DEF KeepIntents, ListPending, OutboxTyped
<1>a. pending_activity_intents \in SUBSET Committed /\ Continue(d, pending_activity_intents)
  BY DEF ListPending, pending_activity_intents, Committed
<1>1. PICK p : Placed(p) /\ Goto(d, p) /\ ((p = Idle \/ p.pc = "enqueue"))
  <2>1. PICK q \in Passes :
            /\ Goto(d, q)
            /\ \/ q = Idle
               \/ /\ q.pc = "enqueue" /\ q.event \in Committed
                  /\ q.batch \subseteq Committed /\ q.event \notin q.batch
    BY <1>a, ContinueGoes
  <2>2. Placed(q)
    BY <1>0, <2>1 DEF Placed, Idle, Pass, AtEvent, ActivityPlace
  <2> QED  BY <2>1, <2>2
<1>2. /\ pass' \in [Dispatcher -> Passes] /\ pass'[d] = p
      /\ \A c \in Dispatcher : c # d => pass'[c] = pass[c]
      /\ \A c \in Dispatcher : PassOK(c)'
  BY <1>1, <1>k, PassesStay
<1>3. OutboxTyped'
  <2>1. /\ outbox' \in [Event -> OutboxRecords] /\ delivered' \in [Event -> 0..2]
        /\ claimant' \in [Event -> Dispatcher \cup {NoOne}]
        /\ disturbed' \subseteq Event /\ disruptions' \in 0..MaxDisruptions
    BY <1>0 DEF OutboxRecords, Statuses, Record, ListPending, KeepHistory
  <2> QED  BY <1>2, <1>k, <2>1, TypesStay
<1>4. ASSUME NEW f \in Event PROVE RecordOK(f)'
  BY DEF RecordOK, Record, ListPending, KeepHistory
<1>5. ASSUME NEW c \in Dispatcher, NEW f \in Event PROVE WorkOK(c, f)'
  <2>0. /\ WorkOK(c, f) /\ RecordOK(f) /\ PassOK(c)
        /\ WorkOK(d, f) /\ PassOK(d)
    BY DEF OutboxTyped
  <2>1. CASE c = d
    BY <1>1, <1>2, <2>1
       DEF WorkOK, WillPublish, HasPublished, Record, Pass, ListPending, KeepHistory
  <2>2. CASE c # d
    <3>1. WillPublish(c, f)' = WillPublish(c, f) /\ HasPublished(c, f)' = HasPublished(c, f)
      BY <1>2, <2>2 DEF WillPublish, HasPublished
    <3> QED  BY <1>2, <2>0, <2>2, <3>1 DEF WorkOK, ListPending, KeepHistory
  <2> QED  BY <2>1, <2>2
<1>6. IntentMarkedAfterPublication'
  BY <1>0
     DEF IntentMarkedAfterPublication, OutboxTyped, KeepIntents, ListPending, KeepHistory
<1> QED  BY <1>3, <1>4, <1>5, <1>6

LEMMA MarkIntentPreserves ==
  ASSUME EventsInv, NEW d \in Dispatcher, MarkIntent(d)
  PROVE  EventsInv'
<1> USE DEF EventsInv
<1>0. /\ outbox \in [Event -> OutboxRecords] /\ delivered \in [Event -> 0..2]
      /\ pass \in [Dispatcher -> Passes]
      /\ claimant \in [Event -> Dispatcher \cup {NoOne}]
      /\ disturbed \subseteq Event /\ disruptions \in 0..MaxDisruptions
      /\ Committed \subseteq Event
  BY Types
<1>k. intents' = intents /\ marked' \subseteq Committed
  BY DEF MarkIntent, OutboxTyped, PassOK, ActivityPlace
<1>a. pass[d].batch \in SUBSET Committed /\ Continue(d, pass[d].batch)
  BY DEF MarkIntent, OutboxTyped, PassOK, ActivityPlace
<1>1. PICK p : Placed(p) /\ Goto(d, p) /\ ((p = Idle \/ p.pc = "enqueue"))
  <2>1. PICK q \in Passes :
            /\ Goto(d, q)
            /\ \/ q = Idle
               \/ /\ q.pc = "enqueue" /\ q.event \in Committed
                  /\ q.batch \subseteq Committed /\ q.event \notin q.batch
    BY <1>a, ContinueGoes
  <2>2. Placed(q)
    BY <1>0, <2>1 DEF Placed, Idle, Pass, AtEvent, ActivityPlace
  <2> QED  BY <2>1, <2>2
<1>2. /\ pass' \in [Dispatcher -> Passes] /\ pass'[d] = p
      /\ \A c \in Dispatcher : c # d => pass'[c] = pass[c]
      /\ \A c \in Dispatcher : PassOK(c)'
  BY <1>1, <1>k, PassesStay
<1>3. OutboxTyped'
  <2>1. /\ outbox' \in [Event -> OutboxRecords] /\ delivered' \in [Event -> 0..2]
        /\ claimant' \in [Event -> Dispatcher \cup {NoOne}]
        /\ disturbed' \subseteq Event /\ disruptions' \in 0..MaxDisruptions
    BY <1>0 DEF OutboxRecords, Statuses, Record, MarkIntent, KeepHistory
  <2> QED  BY <1>2, <1>k, <2>1, TypesStay
<1>4. ASSUME NEW f \in Event PROVE RecordOK(f)'
  BY DEF RecordOK, Record, MarkIntent, KeepHistory
<1>5. ASSUME NEW c \in Dispatcher, NEW f \in Event PROVE WorkOK(c, f)'
  <2>0. /\ WorkOK(c, f) /\ RecordOK(f) /\ PassOK(c)
        /\ WorkOK(d, f) /\ PassOK(d)
    BY DEF OutboxTyped
  <2>1. CASE c = d
    BY <1>1, <1>2, <2>0, <2>1
       DEF WorkOK, WillPublish, HasPublished, RecordOK, Record, Pass, Idle, MarkIntent,
           KeepHistory
  <2>2. CASE c # d
    <3>1. WillPublish(c, f)' = WillPublish(c, f) /\ HasPublished(c, f)' = HasPublished(c, f)
      BY <1>2, <2>2 DEF WillPublish, HasPublished
    <3> QED  BY <1>2, <2>0, <2>2, <3>1 DEF WorkOK, MarkIntent, KeepHistory
  <2> QED  BY <2>1, <2>2
<1>6. IntentMarkedAfterPublication'
  <2>1. WorkOK(d, pass[d].event)
    BY <1>0 DEF MarkIntent, OutboxTyped, PassOK, AtEvent, ActivityPlace
  <2> QED  BY <2>1 DEF WorkOK, IntentMarkedAfterPublication, MarkIntent
<1> QED  BY <1>3, <1>4, <1>5, <1>6

LEMMA EnqueueIntentPreserves ==
  ASSUME EventsInv, NEW d \in Dispatcher, EnqueueIntent(d)
  PROVE  EventsInv'
<1> USE DEF EventsInv
<1>0. /\ outbox \in [Event -> OutboxRecords] /\ delivered \in [Event -> 0..2]
      /\ pass \in [Dispatcher -> Passes]
      /\ claimant \in [Event -> Dispatcher \cup {NoOne}]
      /\ disturbed \subseteq Event /\ disruptions \in 0..MaxDisruptions
      /\ Committed \subseteq Event
  BY Types
<1>k. intents' = intents /\ marked' = marked /\ marked \subseteq Committed
  BY DEF KeepIntents, OutboxTyped, EnqueueIntent
<1>i. PICK i \in Event : i = pass[d].event /\ i \in Committed /\ i \notin pass[d].batch
          /\ pass[d].batch \subseteq Committed /\ pass[d].pc = "enqueue"
  BY DEF OutboxTyped, PassOK, AtEvent, ActivityPlace, EnqueueIntent
<1>1. PICK p : Placed(p) /\ Goto(d, p) /\ ((p.pc = "claim_event" /\ p.event = i
        /\ p.batch = pass[d].batch))
  <2> DEFINE q == [pass[d] EXCEPT !.pc = "claim_event"]
  <2>1. Placed(q) /\ q.pc = "claim_event" /\ q.event = i /\ q.batch = pass[d].batch
    BY <1>0, <1>i DEF Placed, Passes, PassPlace, AtEvent, ActivityPlace
  <2>2. Goto(d, q)
    BY DEF EnqueueIntent
  <2> QED  BY <2>1, <2>2
<1>2. /\ pass' \in [Dispatcher -> Passes] /\ pass'[d] = p
      /\ \A c \in Dispatcher : c # d => pass'[c] = pass[c]
      /\ \A c \in Dispatcher : PassOK(c)'
  BY <1>1, <1>k, PassesStay
<1>r. /\ \A f \in Event : f # i =>
            /\ outbox'[f] = outbox[f] /\ delivered'[f] = delivered[f]
                    /\ claimant'[f] = claimant[f]
            /\ f \in disturbed' <=> f \in disturbed
      /\ outbox' \in [Event -> OutboxRecords] /\ delivered' \in [Event -> 0..2]
      /\ claimant' \in [Event -> Dispatcher \cup {NoOne}]
      /\ disturbed' \subseteq Event /\ disruptions' \in 0..MaxDisruptions
      /\ i \in disturbed => i \in disturbed'
  <2>1. NameOf[d] \in Name
    BY OutboxAssumption
  <2>2. /\ Record("pending", NoOne, FALSE, FALSE) \in OutboxRecords
        /\ Record("claimed", NameOf[d], FALSE, FALSE) \in OutboxRecords
        /\ Record("published", NoOne, FALSE, FALSE) \in OutboxRecords
    BY <2>1 DEF OutboxRecords, Statuses, Record
  <2> QED  BY <1>0, <1>i, <2>2, OutboxAssumption
              DEF KeepHistory, Disrupted, EnqueueIntent, enqueue
<1>q. /\ delivered' = delivered /\ disturbed' = disturbed /\ claimant' = claimant
      /\ \/ outbox'[i] = outbox[i]
         \/ outbox[i].status = "absent" /\ outbox'[i].status = "pending"
                 /\ ~outbox'[i].lapsed
  BY <1>0, <1>i, OutboxAssumption DEF EnqueueIntent, Record, KeepHistory, enqueue
<1>3. OutboxTyped'
  BY <1>2, <1>k, <1>r, TypesStay
<1>o. /\ RecordOK(i) /\ WorkOK(d, i) /\ \A c \in Dispatcher : WorkOK(c, i)
  OBVIOUS
<1>4. ASSUME NEW f \in Event PROVE RecordOK(f)'
  <2>1. CASE f # i
    <3>1. RecordOK(f)
      OBVIOUS
    <3> QED  BY <1>r, <2>1, <3>1 DEF RecordOK
  <2>2. CASE f = i
    BY <1>i, <1>o, <1>q, <1>1, <2>2 DEF RecordOK, Record, WorkOK, WillPublish, HasPublished
  <2> QED  BY <2>1, <2>2
<1>5. ASSUME NEW c \in Dispatcher, NEW f \in Event PROVE WorkOK(c, f)'
  <2>0. WorkOK(c, f) /\ RecordOK(f)
    OBVIOUS
  <2>1. CASE c = d /\ f = i
    BY <1>i, <1>o, <1>q, <1>1, <1>2, <2>1 DEF WorkOK, WillPublish, HasPublished
  <2>2. CASE c = d /\ f # i
    BY <1>i, <1>1, <1>2, <1>r, <2>0, <2>2 DEF WorkOK, WillPublish, HasPublished, Idle, Pass
  <2>3. CASE c # d
    <3>1. WillPublish(c, f)' = WillPublish(c, f) /\ HasPublished(c, f)' = HasPublished(c, f)
      BY <1>2, <2>3 DEF WillPublish, HasPublished
    <3>2. pass'[c] = pass[c]
      BY <1>2, <2>3
    <3>3. CASE f # i
      BY <1>r, <2>0, <3>1, <3>2, <3>3 DEF WorkOK
    <3>4. CASE f = i
      BY <1>i, <1>o, <1>q, <2>3, <3>1, <3>2, <3>4 DEF WorkOK, WillPublish, HasPublished
    <3> QED  BY <3>3, <3>4
  <2> QED  BY <2>1, <2>2, <2>3
<1>6. IntentMarkedAfterPublication'
  <2>1. ASSUME NEW f \in marked PROVE delivered'[f] > 0 /\ outbox'[f].status = "published"
    <3>1. delivered[f] > 0 /\ outbox[f].status = "published" /\ f \in Event
      BY <1>0, <1>k DEF IntentMarkedAfterPublication
    <3>2. CASE f # i
      BY <1>r, <3>1, <3>2
    <3>3. CASE f = i
      BY <1>0, <1>q, <3>1, <3>3 DEF Claimable
    <3> QED  BY <3>2, <3>3
  <2> QED  BY <1>k, <2>1 DEF IntentMarkedAfterPublication
<1> QED  BY <1>3, <1>4, <1>5, <1>6

LEMMA ClaimIntentPreserves ==
  ASSUME EventsInv, NEW d \in Dispatcher, ClaimIntent(d)
  PROVE  EventsInv'
<1> USE DEF EventsInv
<1>0. /\ outbox \in [Event -> OutboxRecords] /\ delivered \in [Event -> 0..2]
      /\ pass \in [Dispatcher -> Passes]
      /\ claimant \in [Event -> Dispatcher \cup {NoOne}]
      /\ disturbed \subseteq Event /\ disruptions \in 0..MaxDisruptions
      /\ Committed \subseteq Event
  BY Types
<1>k. intents' = intents /\ marked' = marked /\ marked \subseteq Committed
  BY DEF KeepIntents, OutboxTyped, ClaimIntent
<1>i. PICK i \in Event : i = pass[d].event /\ i \in Committed /\ i \notin pass[d].batch
          /\ pass[d].batch \subseteq Committed /\ pass[d].pc = "claim_event"
  BY DEF OutboxTyped, PassOK, AtEvent, ActivityPlace, ClaimIntent
<1>1. PICK p : Placed(p) /\ Goto(d, p) /\ (IF Claimable(i) THEN (p.pc = "publish"
        /\ p.event = i /\ p.batch = pass[d].batch) ELSE p.pc \in {"idle", "enqueue"})
  <2>1. CASE Claimable(pass[d].event)
    <3> DEFINE q == [pass[d] EXCEPT !.pc = "publish"]
    <3>1. Placed(q) /\ q.pc = "publish" /\ q.event = i /\ q.batch = pass[d].batch
      BY <1>0, <1>i DEF Placed, Passes, PassPlace, AtEvent, ActivityPlace
    <3>2. Goto(d, q)
      BY <2>1 DEF ClaimIntent
    <3> QED  BY <1>i, <2>1, <3>1, <3>2
  <2>2. CASE ~Claimable(pass[d].event)
    <3>a. pass[d].batch \in SUBSET Committed /\ Continue(d, pass[d].batch)
      BY <1>i, <2>2 DEF ClaimIntent
    <3>1. PICK q \in Passes :
            /\ Goto(d, q)
            /\ \/ q = Idle
               \/ /\ q.pc = "enqueue" /\ q.event \in Committed
                  /\ q.batch \subseteq Committed /\ q.event \notin q.batch
      BY <3>a, ContinueGoes
    <3>2. Placed(q)
      BY <1>0, <3>1 DEF Placed, Idle, Pass, AtEvent, ActivityPlace
    <3>3. q.pc \in {"idle", "enqueue"}
      BY <3>1 DEF Idle, Pass
    <3> QED  BY <1>i, <2>2, <3>1, <3>2, <3>3
  <2> QED  BY <2>1, <2>2
<1>2. /\ pass' \in [Dispatcher -> Passes] /\ pass'[d] = p
      /\ \A c \in Dispatcher : c # d => pass'[c] = pass[c]
      /\ \A c \in Dispatcher : PassOK(c)'
  BY <1>1, <1>k, PassesStay
<1>r. /\ \A f \in Event : f # i =>
            /\ outbox'[f] = outbox[f] /\ delivered'[f] = delivered[f]
                    /\ claimant'[f] = claimant[f]
            /\ f \in disturbed' <=> f \in disturbed
      /\ outbox' \in [Event -> OutboxRecords] /\ delivered' \in [Event -> 0..2]
      /\ claimant' \in [Event -> Dispatcher \cup {NoOne}]
      /\ disturbed' \subseteq Event /\ disruptions' \in 0..MaxDisruptions
      /\ i \in disturbed => i \in disturbed'
  <2>1. NameOf[d] \in Name
    BY OutboxAssumption
  <2>2. /\ Record("pending", NoOne, FALSE, FALSE) \in OutboxRecords
        /\ Record("claimed", NameOf[d], FALSE, FALSE) \in OutboxRecords
        /\ Record("published", NoOne, FALSE, FALSE) \in OutboxRecords
    BY <2>1 DEF OutboxRecords, Statuses, Record
  <2> QED  BY <1>0, <1>i, <2>2 DEF KeepHistory, Disrupted, ClaimIntent, Claim, Claimable
<1>q. /\ delivered' = delivered /\ disturbed' = disturbed
      /\ Claimable(i) => outbox[i].status \in {"pending", "failed"} /\ claimant'[i] = d
            /\ outbox'[i] = Record("claimed", NameOf[d], FALSE, FALSE)
      /\ ~Claimable(i) => outbox'[i] = outbox[i] /\ claimant'[i] = claimant[i]
  BY <1>0, <1>i, OutboxAssumption DEF ClaimIntent, Record, KeepHistory, Claim, Claimable
<1>3. OutboxTyped'
  BY <1>2, <1>k, <1>r, TypesStay
<1>o. /\ RecordOK(i) /\ WorkOK(d, i) /\ \A c \in Dispatcher : WorkOK(c, i)
  OBVIOUS
<1>4. ASSUME NEW f \in Event PROVE RecordOK(f)'
  <2>1. CASE f # i
    <3>1. RecordOK(f)
      OBVIOUS
    <3> QED  BY <1>r, <2>1, <3>1 DEF RecordOK
  <2>2. CASE f = i
    BY <1>i, <1>o, <1>q, <1>1, <2>2 DEF RecordOK, Record, WorkOK, WillPublish, HasPublished
  <2> QED  BY <2>1, <2>2
<1>5. ASSUME NEW c \in Dispatcher, NEW f \in Event PROVE WorkOK(c, f)'
  <2>0. WorkOK(c, f) /\ RecordOK(f)
    OBVIOUS
  <2>1. CASE c = d /\ f = i
    BY <1>i, <1>o, <1>q, <1>1, <1>2, <2>1
       DEF WorkOK, WillPublish, HasPublished, RecordOK, Record
  <2>2. CASE c = d /\ f # i
    BY <1>i, <1>1, <1>2, <1>r, <2>0, <2>2 DEF WorkOK, WillPublish, HasPublished, Idle, Pass
  <2>3. CASE c # d
    <3>1. WillPublish(c, f)' = WillPublish(c, f) /\ HasPublished(c, f)' = HasPublished(c, f)
      BY <1>2, <2>3 DEF WillPublish, HasPublished
    <3>2. pass'[c] = pass[c]
      BY <1>2, <2>3
    <3>3. CASE f # i
      BY <1>r, <2>0, <3>1, <3>2, <3>3 DEF WorkOK
    <3>4. CASE f = i
      BY <1>i, <1>o, <1>q, <1>r, <2>3, <3>1, <3>2, <3>4
         DEF WorkOK, WillPublish, HasPublished, Record
    <3> QED  BY <3>3, <3>4
  <2> QED  BY <2>1, <2>2, <2>3
<1>6. IntentMarkedAfterPublication'
  <2>1. ASSUME NEW f \in marked PROVE delivered'[f] > 0 /\ outbox'[f].status = "published"
    <3>1. delivered[f] > 0 /\ outbox[f].status = "published" /\ f \in Event
      BY <1>0, <1>k DEF IntentMarkedAfterPublication
    <3>2. CASE f # i
      BY <1>r, <3>1, <3>2
    <3>3. CASE f = i
      BY <1>0, <1>q, <3>1, <3>3 DEF Claimable
    <3> QED  BY <3>2, <3>3
  <2> QED  BY <1>k, <2>1 DEF IntentMarkedAfterPublication
<1> QED  BY <1>3, <1>4, <1>5, <1>6

LEMMA PublishIntentPreserves ==
  ASSUME EventsInv, NEW d \in Dispatcher, PublishIntent(d)
  PROVE  EventsInv'
<1> USE DEF EventsInv
<1>0. /\ outbox \in [Event -> OutboxRecords] /\ delivered \in [Event -> 0..2]
      /\ pass \in [Dispatcher -> Passes]
      /\ claimant \in [Event -> Dispatcher \cup {NoOne}]
      /\ disturbed \subseteq Event /\ disruptions \in 0..MaxDisruptions
      /\ Committed \subseteq Event
  BY Types
<1>k. intents' = intents /\ marked' = marked /\ marked \subseteq Committed
  BY DEF KeepIntents, OutboxTyped, PublishIntent
<1>i. PICK i \in Event : i = pass[d].event /\ i \in Committed /\ i \notin pass[d].batch
          /\ pass[d].batch \subseteq Committed /\ pass[d].pc = "publish"
  BY DEF OutboxTyped, PassOK, AtEvent, ActivityPlace, PublishIntent
<1>1. PICK p : Placed(p) /\ Goto(d, p) /\ ((p.pc = "mark_event" /\ p.event = i
        /\ p.batch = pass[d].batch) \/ p = Idle)
  <2> DEFINE q == [pass[d] EXCEPT !.pc = "mark_event"]
  <2>1. Placed(q) /\ q.pc = "mark_event" /\ q.event = i /\ q.batch = pass[d].batch
    BY <1>0, <1>i DEF Placed, Passes, PassPlace, AtEvent, ActivityPlace
  <2>2. Placed(Idle)
    BY DEF Placed, Passes, PassPlace, AtEvent, ActivityPlace, Idle, Pass
  <2>3. Goto(d, q) \/ Goto(d, Idle)
    BY DEF PublishIntent
  <2> QED  BY <2>1, <2>2, <2>3
<1>2. /\ pass' \in [Dispatcher -> Passes] /\ pass'[d] = p
      /\ \A c \in Dispatcher : c # d => pass'[c] = pass[c]
      /\ \A c \in Dispatcher : PassOK(c)'
  BY <1>1, <1>k, PassesStay
<1>r. /\ \A f \in Event : f # i =>
            /\ outbox'[f] = outbox[f] /\ delivered'[f] = delivered[f]
                    /\ claimant'[f] = claimant[f]
            /\ f \in disturbed' <=> f \in disturbed
      /\ outbox' \in [Event -> OutboxRecords] /\ delivered' \in [Event -> 0..2]
      /\ claimant' \in [Event -> Dispatcher \cup {NoOne}]
      /\ disturbed' \subseteq Event /\ disruptions' \in 0..MaxDisruptions
      /\ i \in disturbed => i \in disturbed'
  <2>1. NameOf[d] \in Name
    BY OutboxAssumption
  <2>2. /\ Record("pending", NoOne, FALSE, FALSE) \in OutboxRecords
        /\ Record("claimed", NameOf[d], FALSE, FALSE) \in OutboxRecords
        /\ Record("published", NoOne, FALSE, FALSE) \in OutboxRecords
    BY <2>1 DEF OutboxRecords, Statuses, Record
  <2> QED  BY <1>0, <1>i, <2>2, OutboxAssumption
              DEF KeepHistory, Disrupted, PublishIntent, Delivered, Disrupted
<1>q. /\ outbox' = outbox /\ claimant' = claimant
      /\ \/ /\ delivered'[i] = IF delivered[i] = 2 THEN 2 ELSE delivered[i] + 1
            /\ disturbed' = disturbed
         \/ i \in disturbed' /\ delivered'[i] >= delivered[i] /\ pass'[d] = Idle
  <2>1. CASE Delivered(i) /\ KeepHistory
    <3>1. delivered'[i] = IF delivered[i] = 2 THEN 2 ELSE delivered[i] + 1
      BY <1>0, <2>1 DEF Delivered
    <3> QED  BY <1>i, <2>1, <3>1 DEF PublishIntent, KeepHistory
  <2>2. CASE /\ Delivered(i) \/ UNCHANGED delivered
             /\ Goto(d, Idle) /\ disturbed' = disturbed \cup {i}
    <3>1. pass'[d] = Idle
      BY <1>0, <2>2 DEF Goto
    <3>2. delivered'[i] >= delivered[i]
      BY <1>0, <2>2 DEF Delivered
    <3> QED  BY <1>i, <2>2, <3>1, <3>2 DEF PublishIntent
  <2> QED  BY <1>i, <2>1, <2>2 DEF PublishIntent
<1>3. OutboxTyped'
  BY <1>2, <1>k, <1>r, TypesStay
<1>o. /\ RecordOK(i) /\ WorkOK(d, i) /\ \A c \in Dispatcher : WorkOK(c, i)
  OBVIOUS
<1>4. ASSUME NEW f \in Event PROVE RecordOK(f)'
  <2>1. CASE f # i
    <3>1. RecordOK(f)
      OBVIOUS
    <3> QED  BY <1>r, <2>1, <3>1 DEF RecordOK
  <2>2. CASE f = i
    <3>1. delivered'[i] >= delivered[i]
      BY <1>0, <1>q
    <3>2. WillPublish(d, i)
      BY <1>i DEF WillPublish
    <3>3. i \notin disturbed' => delivered[i] = 0 /\ outbox[i].status = "claimed"
            /\ delivered'[i] = 1
      BY <1>0, <1>o, <1>r, <1>q, <3>2 DEF WorkOK
    <3> QED  BY <1>0, <1>o, <1>r, <1>q, <2>2, <3>1, <3>3 DEF RecordOK
  <2> QED  BY <2>1, <2>2
<1>5. ASSUME NEW c \in Dispatcher, NEW f \in Event PROVE WorkOK(c, f)'
  <2>0. WorkOK(c, f) /\ RecordOK(f)
    OBVIOUS
  <2>1. CASE c = d /\ f = i
    BY <1>0, <1>i, <1>o, <1>q, <1>1, <1>2, <2>1
       DEF WorkOK, WillPublish, HasPublished, RecordOK, Record, Idle, Pass
  <2>2. CASE c = d /\ f # i
    BY <1>i, <1>1, <1>2, <1>r, <2>0, <2>2 DEF WorkOK, WillPublish, HasPublished, Idle, Pass
  <2>3. CASE c # d
    <3>1. WillPublish(c, f)' = WillPublish(c, f) /\ HasPublished(c, f)' = HasPublished(c, f)
      BY <1>2, <2>3 DEF WillPublish, HasPublished
    <3>2. pass'[c] = pass[c]
      BY <1>2, <2>3
    <3>3. CASE f # i
      BY <1>r, <2>0, <3>1, <3>2, <3>3 DEF WorkOK
    <3>4. CASE f = i
      BY <1>0, <1>i, <1>o, <1>q, <1>r, <2>3, <3>1, <3>2, <3>4
         DEF WorkOK, RecordOK, WillPublish, HasPublished, Record
    <3> QED  BY <3>3, <3>4
  <2> QED  BY <2>1, <2>2, <2>3
<1>6. IntentMarkedAfterPublication'
  <2>1. ASSUME NEW f \in marked PROVE delivered'[f] > 0 /\ outbox'[f].status = "published"
    <3>1. delivered[f] > 0 /\ outbox[f].status = "published" /\ f \in Event
      BY <1>0, <1>k DEF IntentMarkedAfterPublication
    <3>2. CASE f # i
      BY <1>r, <3>1, <3>2
    <3>3. CASE f = i
      <4>1. delivered'[i] >= delivered[i]
        BY <1>0, <1>q
      <4> QED  BY <1>0, <1>q, <1>r, <3>1, <3>3, <4>1
    <3> QED  BY <3>2, <3>3
  <2> QED  BY <1>k, <2>1 DEF IntentMarkedAfterPublication
<1> QED  BY <1>3, <1>4, <1>5, <1>6

LEMMA MarkEventPreserves ==
  ASSUME EventsInv, NEW d \in Dispatcher, MarkEvent(d)
  PROVE  EventsInv'
<1> USE DEF EventsInv
<1>0. /\ outbox \in [Event -> OutboxRecords] /\ delivered \in [Event -> 0..2]
      /\ pass \in [Dispatcher -> Passes]
      /\ claimant \in [Event -> Dispatcher \cup {NoOne}]
      /\ disturbed \subseteq Event /\ disruptions \in 0..MaxDisruptions
      /\ Committed \subseteq Event
  BY Types
<1>k. intents' = intents /\ marked' = marked /\ marked \subseteq Committed
  BY DEF KeepIntents, OutboxTyped, MarkEvent
<1>i. PICK i \in Event : i = pass[d].event /\ i \in Committed /\ i \notin pass[d].batch
          /\ pass[d].batch \subseteq Committed /\ pass[d].pc = "mark_event"
  BY DEF OutboxTyped, PassOK, AtEvent, ActivityPlace, MarkEvent
<1>1. PICK p : Placed(p) /\ Goto(d, p)
        /\ (IF claimed_by(i, d) THEN (p.pc = "mark_intent" /\ p.event = i
                /\ p.batch = pass[d].batch) ELSE p = Idle)
  <2>1. CASE claimed_by(pass[d].event, d)
    <3> DEFINE q == [pass[d] EXCEPT !.pc = "mark_intent"]
    <3>1. Placed(q) /\ q.pc = "mark_intent" /\ q.event = i /\ q.batch = pass[d].batch
      BY <1>0, <1>i DEF Placed, Passes, PassPlace, AtEvent, ActivityPlace
    <3>2. Goto(d, q)
      BY <2>1 DEF MarkEvent
    <3> QED  BY <1>i, <2>1, <3>1, <3>2
  <2>2. CASE ~claimed_by(pass[d].event, d)
    <3>1. Placed(Idle)
      BY DEF Placed, Passes, PassPlace, AtEvent, ActivityPlace, Idle, Pass
    <3>2. Goto(d, Idle)
      BY <2>2 DEF MarkEvent
    <3> QED  BY <1>i, <2>2, <3>1, <3>2
  <2> QED  BY <2>1, <2>2
<1>2. /\ pass' \in [Dispatcher -> Passes] /\ pass'[d] = p
      /\ \A c \in Dispatcher : c # d => pass'[c] = pass[c]
      /\ \A c \in Dispatcher : PassOK(c)'
  BY <1>1, <1>k, PassesStay
<1>r. /\ \A f \in Event : f # i =>
            /\ outbox'[f] = outbox[f] /\ delivered'[f] = delivered[f]
                    /\ claimant'[f] = claimant[f]
            /\ f \in disturbed' <=> f \in disturbed
      /\ outbox' \in [Event -> OutboxRecords] /\ delivered' \in [Event -> 0..2]
      /\ claimant' \in [Event -> Dispatcher \cup {NoOne}]
      /\ disturbed' \subseteq Event /\ disruptions' \in 0..MaxDisruptions
      /\ i \in disturbed => i \in disturbed'
  <2>1. NameOf[d] \in Name
    BY OutboxAssumption
  <2>2. /\ Record("pending", NoOne, FALSE, FALSE) \in OutboxRecords
        /\ Record("claimed", NameOf[d], FALSE, FALSE) \in OutboxRecords
        /\ Record("published", NoOne, FALSE, FALSE) \in OutboxRecords
    BY <2>1 DEF OutboxRecords, Statuses, Record
  <2> QED  BY <1>0, <1>i, <2>2
              DEF KeepHistory, Disrupted, MarkEvent, claimed_by, mark_published
<1>q. /\ delivered' = delivered /\ disturbed' = disturbed /\ claimant' = claimant
      /\ claimed_by(i, d) => outbox'[i] = Record("published", NoOne, FALSE, FALSE)
              /\ outbox[i].status = "claimed"
      /\ ~claimed_by(i, d) => outbox'[i] = outbox[i]
  BY <1>0, <1>i, OutboxAssumption
     DEF MarkEvent, Record, KeepHistory, claimed_by, mark_published
<1>3. OutboxTyped'
  BY <1>2, <1>k, <1>r, TypesStay
<1>o. /\ RecordOK(i) /\ WorkOK(d, i) /\ \A c \in Dispatcher : WorkOK(c, i)
  OBVIOUS
<1>4. ASSUME NEW f \in Event PROVE RecordOK(f)'
  <2>1. CASE f # i
    <3>1. RecordOK(f)
      OBVIOUS
    <3> QED  BY <1>r, <2>1, <3>1 DEF RecordOK
  <2>2. CASE f = i
    BY <1>i, <1>o, <1>q, <1>1, <2>2 DEF RecordOK, Record, WorkOK, WillPublish, HasPublished
  <2> QED  BY <2>1, <2>2
<1>5. ASSUME NEW c \in Dispatcher, NEW f \in Event PROVE WorkOK(c, f)'
  <2>0. WorkOK(c, f) /\ RecordOK(f)
    OBVIOUS
  <2>1. CASE c = d /\ f = i
    BY <1>i, <1>o, <1>q, <1>1, <1>2, <2>1
       DEF WorkOK, WillPublish, HasPublished, Record, Idle, Pass
  <2>2. CASE c = d /\ f # i
    BY <1>i, <1>1, <1>2, <1>r, <2>0, <2>2 DEF WorkOK, WillPublish, HasPublished, Idle, Pass
  <2>3. CASE c # d
    <3>1. WillPublish(c, f)' = WillPublish(c, f) /\ HasPublished(c, f)' = HasPublished(c, f)
      BY <1>2, <2>3 DEF WillPublish, HasPublished
    <3>2. pass'[c] = pass[c]
      BY <1>2, <2>3
    <3>3. CASE f # i
      BY <1>r, <2>0, <3>1, <3>2, <3>3 DEF WorkOK
    <3>4. CASE f = i
      BY <1>i, <1>o, <1>q, <1>r, <2>3, <3>1, <3>2, <3>4
         DEF WorkOK, WillPublish, HasPublished, Record
    <3> QED  BY <3>3, <3>4
  <2> QED  BY <2>1, <2>2, <2>3
<1>6. IntentMarkedAfterPublication'
  <2>1. ASSUME NEW f \in marked PROVE delivered'[f] > 0 /\ outbox'[f].status = "published"
    <3>1. delivered[f] > 0 /\ outbox[f].status = "published" /\ f \in Event
      BY <1>0, <1>k DEF IntentMarkedAfterPublication
    <3>2. CASE f # i
      BY <1>r, <3>1, <3>2
    <3>3. CASE f = i
      BY <1>0, <1>q, <3>1, <3>3 DEF Claimable
    <3> QED  BY <3>2, <3>3
  <2> QED  BY <1>k, <2>1 DEF IntentMarkedAfterPublication
<1> QED  BY <1>3, <1>4, <1>5, <1>6

LEMMA CommitMutationPreserves ==
  ASSUME EventsInv, NEW i \in Event, CommitMutation(i)
  PROVE  EventsInv'
<1>1. /\ i \notin Committed /\ intents' = Append(intents, i) /\ marked' = marked
      /\ outbox' = outbox /\ delivered' = delivered /\ pass' = pass /\ claimant' = claimant
      /\ disturbed' = disturbed /\ disruptions' = disruptions
      /\ intents \in Seq(Event) /\ IsFiniteSet(Committed)
              /\ Len(intents) = Cardinality(Committed)
  BY DEF CommitMutation, outboxVars, EventsInv, OutboxTyped
<1>2. Committed' = Committed \cup {i}
  <2>1. /\ Len(intents') = Len(intents) + 1 /\ intents'[Len(intents) + 1] = i
        /\ \A n \in 1..Len(intents) : intents'[n] = intents[n]
        /\ DOMAIN intents = 1..Len(intents) /\ DOMAIN intents' = 1..(Len(intents) + 1)
        /\ Len(intents) \in Nat
    BY <1>1
  <2>2. DOMAIN intents' = DOMAIN intents \cup {Len(intents) + 1}
    BY <2>1
  <2> QED  BY <2>1, <2>2 DEF Committed
<1>3. IsFiniteSet(Committed') /\ Cardinality(Committed') = Cardinality(Committed) + 1
  BY <1>1, <1>2, FS_AddElement
<1>4. intents' \in Seq(Event) /\ Len(intents') = Len(intents) + 1
  BY <1>1
<1>5. OutboxTyped'
  <2>1. \A d \in Dispatcher : PassOK(d)'
    BY <1>1, <1>2 DEF EventsInv, OutboxTyped, PassOK
  <2>2. OutboxTypeOK'
    BY <1>1 DEF EventsInv, OutboxTyped, OutboxTypeOK
  <2>3. marked' \subseteq Committed'
    BY <1>1, <1>2 DEF EventsInv, OutboxTyped
  <2> QED  BY <1>1, <1>3, <1>4, <2>1, <2>2, <2>3 DEF OutboxTyped
<1>6. \A f \in Event : RecordOK(f)'
  BY <1>1 DEF EventsInv, RecordOK
<1>7. \A c \in Dispatcher, f \in Event : WorkOK(c, f)'
  BY <1>1 DEF EventsInv, WorkOK, WillPublish, HasPublished
<1>8. IntentMarkedAfterPublication'
  BY <1>1 DEF EventsInv, IntentMarkedAfterPublication
<1> QED  BY <1>5, <1>6, <1>7, <1>8 DEF EventsInv

LEMMA EventsStutter ==
  ASSUME EventsInv, UNCHANGED activityVars
  PROVE  EventsInv'
<1>1. /\ outbox' = outbox /\ delivered' = delivered /\ pass' = pass /\ claimant' = claimant
      /\ disturbed' = disturbed /\ disruptions' = disruptions
      /\ intents' = intents /\ marked' = marked
  BY DEF activityVars, outboxVars
<1>2. Committed' = Committed
  BY <1>1 DEF Committed
<1>3. OutboxTyped'
  <2>1. \A d \in Dispatcher : PassOK(d)'
    BY <1>1, <1>2 DEF EventsInv, OutboxTyped, PassOK
  <2>2. OutboxTypeOK'
    BY <1>1 DEF EventsInv, OutboxTyped, OutboxTypeOK
  <2> QED  BY <1>1, <1>2, <2>1, <2>2 DEF EventsInv, OutboxTyped
<1>4. \A f \in Event : RecordOK(f)'
  BY <1>1 DEF EventsInv, RecordOK
<1>5. \A c \in Dispatcher, f \in Event : WorkOK(c, f)'
  BY <1>1 DEF EventsInv, WorkOK, WillPublish, HasPublished
<1>6. IntentMarkedAfterPublication'
  BY <1>1 DEF EventsInv, IntentMarkedAfterPublication
<1> QED  BY <1>3, <1>4, <1>5, <1>6 DEF EventsInv

LEMMA EventsStep ==
  ASSUME EventsInv, ActivityNext
  PROVE  EventsInv'
<1>1. ASSUME NEW i \in Event, CommitMutation(i) PROVE EventsInv'
  BY <1>1, CommitMutationPreserves
<1>2. ASSUME NEW d \in Dispatcher, ActivityStep(d) PROVE EventsInv'
  BY <1>2, ListPendingPreserves, EnqueueIntentPreserves, ClaimIntentPreserves,
     PublishIntentPreserves, MarkEventPreserves, MarkIntentPreserves DEF ActivityStep
<1>3. ASSUME OutboxStep PROVE EventsInv'
  <2>0. KeepIntents
    BY <1>3 DEF OutboxStep
  <2>1. CASE Environment
    BY <2>0, <2>1, LapsePreserves, DelayEndsPreserves DEF Environment
  <2>2. ASSUME NEW e \in Event, Enqueue(e) PROVE EventsInv'
    BY <2>0, <2>2, EnqueuePreserves
  <2>3. ASSUME NEW e \in Event, NEW d \in Dispatcher, RequestEnqueue(d, e) PROVE EventsInv'
    BY <2>0, <2>3, RequestEnqueuePreserves
  <2>4. ASSUME NEW d \in Dispatcher, PassCrash(d) PROVE EventsInv'
    BY <2>0, <2>4, PassCrashPreserves
  <2>5. ASSUME NEW d \in Dispatcher, DispatchStep(d) PROVE EventsInv'
    BY <2>0, <2>5, RequestClaimPreserves, PassRecoverPreserves, PassClaimPreserves,
       PassMarkPreserves, PublishAcceptedPreserves, PublishFailsPreserves DEF DispatchStep
  <2> QED  BY <1>3, <2>1, <2>2, <2>3, <2>4, <2>5 DEF OutboxStep
<1>4. ActivityPass \subseteq Dispatcher
  BY ActivityAssumption
<1> QED  BY <1>1, <1>2, <1>3, <1>4 DEF ActivityNext

(* A record is settled by the pass that claimed it last: the name in the   *)
(* record is that pass's, and no other pass goes by it.                    *)
OwnDispatcherName == \A c, d \in Dispatcher : NameOf[c] = NameOf[d] => c = d

LEMMA StepSettles ==
  ASSUME OwnDispatcherName, EventsInv, ActivityNext, NEW e \in Event,
         outbox[e].status = "claimed", outbox'[e].status \in {"published", "failed"}
  PROVE  \E d \in Dispatcher : claimant[e] = d /\ pass[d].event = e
<1>0. outbox \in [Event -> OutboxRecords] /\ RecordOK(e)
  BY Types DEF EventsInv
<1>1. ASSUME NEW d \in Dispatcher, claimed_by(e, d), pass[d].event = e
      PROVE  \E c \in Dispatcher : claimant[e] = c /\ pass[c].event = e
  BY <1>0, <1>1 DEF claimed_by, RecordOK, OwnDispatcherName
<1>2. outbox' # outbox
  OBVIOUS
<1>3. ASSUME NEW d \in Dispatcher, ActivityStep(d)
      PROVE  \E c \in Dispatcher : claimant[e] = c /\ pass[c].event = e
  <2>1. CASE ListPending(d) \/ PublishIntent(d) \/ MarkIntent(d)
    BY <1>2, <2>1 DEF ListPending, PublishIntent, MarkIntent
  <2>2. CASE EnqueueIntent(d)
    BY <1>0, <1>2, <2>2 DEF EnqueueIntent, enqueue, Record
  <2>3. CASE ClaimIntent(d)
    BY <1>0, <1>2, <2>3 DEF ClaimIntent, Claim, Record
  <2>4. CASE MarkEvent(d)
    <3>1. claimed_by(pass[d].event, d) /\ mark_published(pass[d].event)
      BY <1>2, <2>4 DEF MarkEvent
    <3>2. pass[d].event = e
      BY <1>0, <3>1 DEF mark_published
    <3> QED  BY <1>1, <3>1, <3>2
  <2> QED  BY <1>3, <2>1, <2>2, <2>3, <2>4 DEF ActivityStep
<1>4. ASSUME NEW d \in Dispatcher, DispatchStep(d)
      PROVE  \E c \in Dispatcher : claimant[e] = c /\ pass[c].event = e
  <2>1. ASSUME NEW f \in Event, PublishAccepted(d, f) \/ PublishFails(d, f) PROVE FALSE
    BY <1>2, <2>1 DEF PublishAccepted, PublishFails
  <2>2. CASE PassRecover(d)
    BY <1>0, <2>2 DEF PassRecover, Recovered, Record
  <2>3. CASE RequestClaim(d)
    BY <1>0, <2>3 DEF RequestClaim, Claim, Record
  <2>4. CASE PassClaim(d)
    BY <1>0, <2>4 DEF PassClaim, Claim, Record
  <2>5. CASE PassMark(d)
    <3>1. /\ claimed_by(pass[d].event, d)
          /\ mark_published(pass[d].event) \/ mark_failed(pass[d].event)
      BY <1>2, <2>5 DEF PassMark
    <3>2. pass[d].event = e
      BY <1>0, <3>1 DEF mark_published, mark_failed
    <3> QED  BY <1>1, <3>1, <3>2
  <2> QED  BY <1>4, <2>1, <2>2, <2>3, <2>4, <2>5 DEF DispatchStep
<1>5. CASE OutboxStep
  <2>1. ASSUME NEW f \in Event, AbandonedClaimLapses(f) \/ SlowClaimLapses(f) PROVE FALSE
    <3>1. Lapse(f)
      BY <2>1 DEF AbandonedClaimLapses, SlowClaimLapses
    <3> QED  BY <1>0, <3>1 DEF Lapse, OutboxRecords
  <2>2. ASSUME NEW f \in Event, DelayEnds(f) PROVE FALSE
    BY <1>0, <2>2 DEF DelayEnds, OutboxRecords
  <2>3. ASSUME NEW f \in Event, Enqueue(f) PROVE FALSE
    BY <1>0, <2>3 DEF Enqueue, enqueue, Record
  <2>4. ASSUME NEW f \in Event, NEW d \in Dispatcher, RequestEnqueue(d, f) PROVE FALSE
    BY <1>0, <2>4 DEF RequestEnqueue, enqueue, Record
  <2>5. ASSUME NEW d \in Dispatcher, PassCrash(d) PROVE FALSE
    BY <1>2, <2>5 DEF PassCrash
  <2> QED  BY <1>4, <1>5, <2>1, <2>2, <2>3, <2>4, <2>5 DEF OutboxStep, Environment
<1>6. ASSUME NEW i \in Event, CommitMutation(i) PROVE FALSE
  BY <1>2, <1>6 DEF CommitMutation, outboxVars
<1> QED  BY <1>3, <1>5, <1>6, ActivityAssumption DEF ActivityNext

-----------------------------------------------------------------------------
(* The audit journal and its relay.                                        *)

JournalEntries ==
    [status : AuditJournalStatus \cup {"absent"}, content : Nat,
     by : {WorkerOf[p] : p \in RelayPass} \cup {"none"}, expired : BOOLEAN, available : BOOLEAN]
AppendOutcomes == {"none", "appended", "event_conflict", "storage_limit", "infrastructure"}
Relays == [pc : {"idle", "claim", "append", "mark"}, batch : Batch, outcome : AppendOutcomes]

(* An entry without a content is no entry, and a claim has a claimant.     *)
EntryOK(e) ==
    /\ journal[e].content = NoContent => journal[e] = NoEntry
    /\ journal[e].content # NoContent => journal[e].status # "absent"
    /\ journal[e].status = "claimed" <=> journal[e].by # "none"
    /\ journal[e].status # "claimed" => ~journal[e].expired

RelayPassOK(p) ==
    /\ Cardinality(relay[p].batch) <= RelayLimit
    /\ relay[p].pc \in {"append", "mark"} <=> relay[p].batch # {}

RelayTyped ==
    /\ journal \in [AuditEvent -> JournalEntries] /\ records \in [AuditEvent -> Nat]
    /\ relay \in [RelayPass -> Relays] /\ accepted \subseteq Written
    /\ \A e \in AuditEvent : EntryOK(e)
    /\ \A p \in RelayPass : RelayPassOK(p)

(* The entries a pass still has the claim of are as it read them, and an   *)
(* appended batch is in the ledger.                                        *)
BatchIsCurrent(p) ==
    /\ \A x \in relay[p].batch :
          journal[x.id].status = "claimed" /\ journal[x.id].by = WorkerOf[p] =>
             journal[x.id].content = x.content
    /\ relay[p].pc = "mark" /\ relay[p].outcome = "appended" =>
          \A x \in relay[p].batch : records[x.id] = x.content

RelayInv == NothingLost /\ \A p \in RelayPass : BatchIsCurrent(p)

(* No two relay processes go by one worker_id.                             *)
OwnWorker == \A p, q \in RelayPass : WorkerOf[p] = WorkerOf[q] => p = q

LEMMA RelayTypedImplies ==
  ASSUME RelayTyped
  PROVE  RelayTypeOK
<1>1. ASSUME NEW e \in AuditEvent, journal[e] # NoEntry
      PROVE  /\ journal[e].status \in AuditJournalStatus
             /\ journal[e].status = "claimed" <=> journal[e].by # "none"
             /\ journal[e].status # "claimed" => ~journal[e].expired
  <2>1. journal[e] \in JournalEntries /\ EntryOK(e)
    BY DEF RelayTyped
  <2> QED  BY <1>1, <2>1 DEF EntryOK, JournalEntries
<1>2. ASSUME NEW p \in RelayPass
      PROVE  /\ relay[p].batch \in Batch /\ Cardinality(relay[p].batch) <= RelayLimit
             /\ relay[p].pc \in {"append", "mark"} <=> relay[p].batch # {}
  <2>1. relay[p] \in Relays /\ RelayPassOK(p)
    BY DEF RelayTyped
  <2> QED  BY <2>1 DEF RelayPassOK, Relays
<1> QED  BY <1>1, <1>2 DEF RelayTypeOK

LEMMA RestingIsTyped == Resting \in Relays /\ Cardinality({}) = 0
BY FS_EmptySet DEF Resting, Relays, Batch, AppendOutcomes

LEMMA RelayTypedInit == RelayInit => RelayTyped
<1> SUFFICES ASSUME RelayInit PROVE RelayTyped
  OBVIOUS
<1>1. NoEntry \in JournalEntries
  BY DEF NoEntry, JournalEntries, NoContent
<1>2. journal \in [AuditEvent -> JournalEntries] /\ records \in [AuditEvent -> Nat]
  BY <1>1 DEF RelayInit, LedgerInit, NoContent
<1>3. relay \in [RelayPass -> Relays] /\ accepted \subseteq Written
  BY RestingIsTyped DEF RelayInit
<1>4. \A e \in AuditEvent : EntryOK(e)
  BY DEF RelayInit, EntryOK, NoEntry
<1>5. \A p \in RelayPass : RelayPassOK(p)
  <2>1. \A p \in RelayPass : relay[p].batch = {} /\ relay[p].pc = "idle"
    BY DEF RelayInit, Resting
  <2>2. 0 <= RelayLimit
    BY RelayAssumption
  <2> QED  BY <2>1, <2>2, RestingIsTyped DEF RelayPassOK
<1> QED  BY <1>2, <1>3, <1>4, <1>5 DEF RelayTyped

(* claim_pending takes at most RelayLimit entries: how many eligible ones  *)
(* come before an entry tells the selected ones apart.                     *)
LEMMA SelectedBounded ==
  /\ IsFiniteSet(Selected) /\ Cardinality(Selected) <= RelayLimit
<1> DEFINE below(e) == {f \in Eligible : f < e}
<1>1. Eligible \subseteq Nat
  BY LedgerAssumption DEF Eligible
<1>2. ASSUME NEW e \in Eligible PROVE IsFiniteSet(below(e)) /\ Cardinality(below(e)) \in Nat
  <2>1. below(e) \in SUBSET Nat /\ e \in Nat /\ \A s \in below(e) : s <= e
    <3>1. e \in Nat /\ below(e) \subseteq Eligible
      BY <1>1
    <3>2. ASSUME NEW s \in below(e) PROVE s \in Nat /\ s <= e
      <4>1. s \in Eligible /\ s < e
        OBVIOUS
      <4>2. s \in Nat
        BY <1>1, <4>1
      <4> QED  BY <3>1, <4>1, <4>2
    <3> QED  BY <1>1, <3>1, <3>2
  <2>2. IsFiniteSet(below(e))
    BY ONLY <2>1, FS_BoundedSetOfNaturals
  <2> QED  BY <2>2, FS_CardinalityType
<1>3. ASSUME NEW e \in Eligible, NEW g \in Eligible, e < g
      PROVE  Cardinality(below(e)) < Cardinality(below(g))
  <2>1. below(e) \subseteq below(g) /\ e \in below(g) /\ e \notin below(e)
    <3>1. e \in Nat /\ g \in Nat /\ e \in below(g) /\ ~(e < e)
      BY <1>1, <1>3
    <3>2. ASSUME NEW f \in below(e) PROVE f \in below(g)
      <4>1. f \in Eligible /\ f < e
        OBVIOUS
      <4>2. f \in Nat /\ f < g
        BY <1>1, <1>3, <3>1, <4>1
      <4> QED  BY <4>1, <4>2
    <3> QED  BY <3>1, <3>2
  <2>2. /\ Cardinality(below(e)) <= Cardinality(below(g))
        /\ Cardinality(below(e)) = Cardinality(below(g)) => below(g) = below(e)
    <3> HIDE DEF below
    <3> QED  BY <1>2, <2>1, FS_Subset
  <2>3. Cardinality(below(e)) # Cardinality(below(g))
    BY <2>1, <2>2
  <2> HIDE DEF below
  <2> QED  BY <1>2, <2>2, <2>3
<1> DEFINE rank == [e \in Selected |-> Cardinality(below(e))]
<1>4. rank \in [Selected -> 0..(RelayLimit - 1)]
  <2>1. ASSUME NEW e \in Selected PROVE Cardinality(below(e)) \in 0..(RelayLimit - 1)
    <3>1. e \in Eligible /\ Cardinality(below(e)) < RelayLimit
      BY DEF Selected
    <3> HIDE DEF below
    <3> QED  BY <1>2, <3>1, RelayAssumption
  <2> QED  BY <2>1
<1>5. ASSUME NEW e \in Selected, NEW g \in Selected, rank[e] = rank[g] PROVE e = g
  <2>1. e \in Eligible /\ g \in Eligible /\ e \in Nat /\ g \in Nat
    BY <1>1 DEF Selected
  <2>2. Cardinality(below(e)) = Cardinality(below(g))
    BY <1>5
  <2> HIDE DEF below
  <2> QED  BY <1>2, <1>3, <2>1, <2>2
<1>6. rank \in Injection(Selected, 0..(RelayLimit - 1))
  BY <1>4, <1>5 DEF Injection, IsInjective
<1>7. IsFiniteSet(0..(RelayLimit - 1)) /\ Cardinality(0..(RelayLimit - 1)) = RelayLimit
  BY RelayAssumption, FS_Interval
<1> HIDE DEF rank
<1> QED  BY <1>6, <1>7, FS_Injection

(* What a pass has claimed is a batch of that size.                        *)
LEMMA ClaimedBatch ==
  ASSUME RelayTyped,
         NEW b, b = {[id |-> e, content |-> journal[e].content] : e \in Selected}
  PROVE  b \in Batch /\ Cardinality(b) <= RelayLimit
<1>1. ASSUME NEW e \in Selected PROVE e \in AuditEvent /\ journal[e].content \in Nat \ {0}
  <2>1. e \in AuditEvent /\ journal[e].status \in {"pending", "failed"}
    BY DEF Selected, Eligible
  <2>2. journal[e] \in JournalEntries /\ EntryOK(e)
    BY <2>1 DEF RelayTyped
  <2> QED  BY <2>1, <2>2 DEF EntryOK, JournalEntries, NoEntry, NoContent
<1>2. b \in Batch
  BY <1>1 DEF Batch
<1> DEFINE g == [x \in b |-> x.id]
<1>3. g \in [b -> Selected]
  OBVIOUS
<1>4. \A x, y \in b : g[x] = g[y] => x = y
  OBVIOUS
<1>5. g \in Injection(b, Selected)
  BY <1>3, <1>4 DEF Injection, IsInjective
<1>6. IsFiniteSet(b) /\ Cardinality(b) <= Cardinality(Selected)
  <2> HIDE DEF g
  <2> QED  BY <1>5, SelectedBounded, FS_Injection
<1>7. Cardinality(b) \in Nat /\ Cardinality(Selected) \in Nat
  BY <1>6, SelectedBounded, FS_CardinalityType
<1> QED  BY <1>2, <1>6, <1>7, SelectedBounded, RelayAssumption

(* The ledger keeps what it has, and has an appended batch.                *)
LEMMA AppendKeeps ==
  ASSUME records \in [AuditEvent -> Nat], NEW b \in Batch, append_batch(b)
  PROVE  /\ records' \in [AuditEvent -> Nat]
         /\ \A e \in AuditEvent : records[e] # NoContent => records'[e] = records[e]
         /\ AppendOutcome(b) = "appended" => \A x \in b : records'[x.id] = x.content
<1>1. CASE AppendOutcome(b) # "appended"
  BY <1>1 DEF append_batch, ledgerVars
<1>2. CASE AppendOutcome(b) = "appended"
  <2>0. ~Conflicts(b)
    BY <1>2 DEF AppendOutcome
  <2>1. records' = [e \in AuditEvent |->
                IF \E x \in b : x.id = e
                THEN (CHOOSE x \in b : x.id = e).content ELSE records[e]]
    BY <1>2 DEF append_batch
  <2>2. ASSUME NEW x \in b PROVE x.id \in AuditEvent /\ records'[x.id] = x.content
          /\ x.content \in Nat
    <3>1. x.id \in AuditEvent /\ x.content \in Nat
      BY DEF Batch
    <3>2. (CHOOSE y \in b : y.id = x.id) = x
      <4>1. \A y \in b : y.id = x.id => y = x
        BY DEF Batch
      <4> QED  BY <4>1
    <3> QED  BY <2>1, <3>1, <3>2
  <2>3. ASSUME NEW e \in AuditEvent, ~\E x \in b : x.id = e PROVE records'[e] = records[e]
    BY <2>1, <2>3
  <2>4. ASSUME NEW e \in AuditEvent PROVE records'[e] \in Nat
    BY <2>2, <2>3
  <2>5. ASSUME NEW x \in b, records[x.id] # NoContent PROVE records[x.id] = x.content
    BY <2>0, <2>5 DEF Conflicts
  <2>6. ASSUME NEW e \in AuditEvent, records[e] # NoContent PROVE records'[e] = records[e]
    BY <2>2, <2>3, <2>5, <2>6
  <2>7. records' \in [AuditEvent -> Nat]
    BY <2>1, <2>4
  <2> QED  BY <2>2, <2>6, <2>7
<1> QED  BY <1>1, <1>2

(* What a step that touches the journal alone, entry by entry, shows.      *)
LEMMA JournalStep ==
  ASSUME RelayTyped, UNCHANGED <<records, relay>>, accepted' \subseteq Written,
         journal' \in [AuditEvent -> JournalEntries],
         \A e \in AuditEvent : EntryOK(e)'
  PROVE  RelayTyped'
BY DEF RelayTyped, RelayPassOK

(* What a step of a pass shows that goes to the place q.                   *)
LEMMA RelayGoes ==
  ASSUME RelayTyped, NEW p \in RelayPass, NEW q \in Relays,
         relay' = [relay EXCEPT ![p] = q],
         Cardinality(q.batch) <= RelayLimit, q.pc \in {"append", "mark"} <=> q.batch # {}
  PROVE  /\ relay' \in [RelayPass -> Relays] /\ relay'[p] = q
         /\ \A c \in RelayPass : c # p => relay'[c] = relay[c]
         /\ \A c \in RelayPass : RelayPassOK(c)'
BY DEF RelayTyped, RelayPassOK

LEMMA EnqueueRecordTyped ==
  ASSUME RelayTyped, NEW w \in Written, EnqueueRecord(w)
  PROVE  RelayTyped'
<1>1. w.id \in AuditEvent /\ w.content \in Nat \ {0}
  BY RelayAssumption
<1>2. Entry(w.content) \in JournalEntries
  BY <1>1 DEF Entry, NoEntry, JournalEntries, AuditJournalStatus, NoContent
<1>3. \/ journal' = journal
      \/ journal' = [journal EXCEPT ![w.id] = Entry(w.content)]
  BY DEF EnqueueRecord
<1>4. journal' \in [AuditEvent -> JournalEntries]
  BY <1>1, <1>2, <1>3 DEF RelayTyped
<1>5. ASSUME NEW e \in AuditEvent PROVE EntryOK(e)'
  <2>1. journal'[e] = journal[e] \/ journal'[e] = Entry(w.content)
    BY <1>1, <1>3 DEF RelayTyped
  <2>2. CASE journal'[e] = journal[e]
    BY <2>2 DEF RelayTyped, EntryOK
  <2>3. CASE journal'[e] = Entry(w.content)
    BY <1>1, <2>3 DEF EntryOK, Entry, NoEntry, NoContent
  <2> QED  BY <2>1, <2>2, <2>3
<1> QED
  BY <1>4, <1>5, JournalStep DEF EnqueueRecord, RelayTyped

LEMMA RecoverTyped ==
  ASSUME RelayTyped, NEW p \in RelayPass, recover_expired_claims(p)
  PROVE  RelayTyped'
<1>1. ASSUME NEW e \in AuditEvent PROVE journal'[e] \in JournalEntries /\ EntryOK(e)'
  <2>1. journal[e] \in JournalEntries /\ EntryOK(e)
    BY DEF RelayTyped
  <2>2. CASE journal[e].status = "claimed" /\ journal[e].expired
    <3>1. journal'[e] = Unclaimed(journal[e], "failed", TRUE)
      BY <2>2 DEF recover_expired_claims
    <3>2. journal[e].content # NoContent
      BY <2>1, <2>2 DEF EntryOK, NoEntry
    <3>3. journal[e] \in JournalEntries /\ journal[e].status # "absent"
      BY <2>1, <2>2
    <3>4. /\ journal'[e] \in JournalEntries /\ journal'[e].content = journal[e].content
          /\ journal'[e].status = "failed" /\ journal'[e].by = "none"
                  /\ ~journal'[e].expired
      BY <3>1, <3>2, <3>3 DEF Unclaimed, JournalEntries, AuditJournalStatus
    <3> QED  BY <3>2, <3>4 DEF EntryOK
  <2>3. CASE ~(journal[e].status = "claimed" /\ journal[e].expired)
    <3>1. journal'[e] = journal[e]
      BY <2>3 DEF recover_expired_claims
    <3> QED  BY <2>1, <3>1 DEF EntryOK
  <2> QED  BY <2>2, <2>3
<1>2. journal' \in [AuditEvent -> JournalEntries]
  <2>1. \E f : journal' = [e \in AuditEvent |-> f[e]]
    <3> DEFINE g == [e \in AuditEvent |->
          IF journal[e].status = "claimed" /\ journal[e].expired
          THEN Unclaimed(journal[e], "failed", TRUE) ELSE journal[e]]
    <3>1. journal' = g
      BY DEF recover_expired_claims
    <3>2. g = [e \in AuditEvent |-> g[e]]
      OBVIOUS
    <3> QED  BY <3>1, <3>2
  <2> QED  BY <1>1, <2>1
<1>3. PICK q : q = [relay[p] EXCEPT !.pc = "claim"]
  OBVIOUS
<1>4. /\ q \in Relays /\ relay' = [relay EXCEPT ![p] = q]
      /\ Cardinality(q.batch) <= RelayLimit
      /\ q.pc \in {"append", "mark"} <=> q.batch # {}
  BY <1>3 DEF recover_expired_claims, RelayTyped, RelayPassOK, Relays
<1>5. relay' \in [RelayPass -> Relays] /\ \A c \in RelayPass : RelayPassOK(c)'
  BY <1>4, RelayGoes
<1> QED
  BY <1>1, <1>2, <1>5 DEF RelayTyped, recover_expired_claims

LEMMA ClaimTyped ==
  ASSUME RelayTyped, NEW p \in RelayPass, claim_pending(p)
  PROVE  RelayTyped'
<1>0. Selected \subseteq AuditEvent
  BY DEF Selected, Eligible
<1>1. ASSUME NEW e \in AuditEvent PROVE journal'[e] \in JournalEntries /\ EntryOK(e)'
  <2>1. journal[e] \in JournalEntries /\ EntryOK(e)
    BY DEF RelayTyped
  <2>2. CASE e \in Selected
    <3>1. journal'[e] = [journal[e] EXCEPT !.status = "claimed", !.by = WorkerOf[p], !.expired = FALSE]
      BY <2>2 DEF claim_pending
    <3>2. journal[e].status # "absent" /\ journal[e].content # NoContent
      BY <2>1, <2>2 DEF EntryOK, NoEntry, Selected, Eligible
    <3>3. journal'[e] \in JournalEntries
      BY <2>1, <3>1 DEF JournalEntries, AuditJournalStatus
    <3>4. /\ journal'[e].status = "claimed" /\ journal'[e].by = WorkerOf[p]
          /\ journal'[e].expired = FALSE /\ journal'[e].content = journal[e].content
      BY <2>1, <3>1 DEF JournalEntries
    <3>5. EntryOK(e)'
      BY <3>2, <3>4, RelayAssumption DEF EntryOK
    <3> QED  BY <3>3, <3>5
  <2>3. CASE e \notin Selected
    <3>1. journal'[e] = journal[e]
      BY <2>3 DEF claim_pending
    <3> QED  BY <2>1, <3>1 DEF EntryOK
  <2> QED  BY <2>2, <2>3
<1>2. journal' \in [AuditEvent -> JournalEntries]
  <2> DEFINE g == [e \in AuditEvent |->
          IF e \in Selected
          THEN [journal[e] EXCEPT !.status = "claimed", !.by = WorkerOf[p], !.expired = FALSE]
          ELSE journal[e]]
  <2>1. journal' = g
    BY DEF claim_pending
  <2>2. g = [e \in AuditEvent |-> g[e]]
    OBVIOUS
  <2> HIDE DEF g
  <2> QED  BY <1>1, <2>1, <2>2
<1>3. PICK b : b = {[id |-> e, content |-> journal[e].content] : e \in Selected}
  OBVIOUS
<1>4. b \in Batch /\ Cardinality(b) <= RelayLimit /\ (Selected = {} <=> b = {})
  BY <1>3, ClaimedBatch
<1>5. PICK q : q = IF Selected = {} THEN Resting
                   ELSE [pc |-> "append", outcome |-> "none", batch |-> b]
  OBVIOUS
<1>6. relay' = [relay EXCEPT ![p] = q]
  BY <1>3, <1>5 DEF claim_pending
<1>7. /\ q \in Relays /\ Cardinality(q.batch) <= RelayLimit
      /\ q.pc \in {"append", "mark"} <=> q.batch # {}
  <2>1. CASE Selected = {}
    <3>1. q = Resting /\ Resting.batch = {} /\ Resting.pc = "idle"
      BY <1>5, <2>1 DEF Resting
    <3>2. 0 <= RelayLimit
      BY RelayAssumption
    <3> QED  BY <3>1, <3>2, RestingIsTyped
  <2>2. CASE Selected # {}
    BY <1>4, <1>5, <2>2 DEF Relays, AppendOutcomes
  <2> QED  BY <2>1, <2>2
<1>8. relay' \in [RelayPass -> Relays] /\ \A c \in RelayPass : RelayPassOK(c)'
  BY <1>6, <1>7, RelayGoes
<1> QED
  BY <1>1, <1>2, <1>8 DEF RelayTyped, claim_pending

LEMMA AppendTyped ==
  ASSUME RelayTyped, NEW p \in RelayPass, AppendBatch(p)
  PROVE  /\ RelayTyped'
         /\ \A e \in AuditEvent : records[e] # NoContent => records'[e] = records[e]
         /\ relay'[p].outcome = "appended" =>
               \A x \in relay[p].batch : records'[x.id] = x.content
<1>1. relay[p] \in Relays /\ relay[p].batch \in Batch /\ RelayPassOK(p)
        /\ relay[p].pc = "append"
  BY DEF RelayTyped, Relays, AppendBatch
<1>2. append_batch(relay[p].batch) \/ UNCHANGED records
  BY DEF AppendBatch, ledgerVars
<1>3. /\ records' \in [AuditEvent -> Nat]
      /\ \A e \in AuditEvent : records[e] # NoContent => records'[e] = records[e]
  BY <1>1, <1>2, AppendKeeps DEF RelayTyped
<1>4. AppendOutcome(relay[p].batch) \in AppendOutcomes
  BY DEF AppendOutcome, AppendOutcomes
<1>5. PICK o \in AppendOutcomes :
         /\ relay' = [relay EXCEPT ![p] = [@ EXCEPT !.pc = "mark", !.outcome = o]]
         /\ \/ o = AppendOutcome(relay[p].batch) /\ append_batch(relay[p].batch)
            \/ o = "infrastructure"
  BY <1>4 DEF AppendBatch, AppendOutcomes
<1>6. PICK q : q = [relay[p] EXCEPT !.pc = "mark", !.outcome = o]
  OBVIOUS
<1>7. /\ q \in Relays /\ q.batch = relay[p].batch /\ q.pc = "mark" /\ q.outcome = o
  BY <1>1, <1>6 DEF Relays
<1>8. relay' = [relay EXCEPT ![p] = q]
  BY <1>5, <1>6 DEF RelayTyped
<1>9. /\ relay' \in [RelayPass -> Relays] /\ relay'[p] = q
      /\ \A c \in RelayPass : RelayPassOK(c)'
  BY <1>1, <1>7, <1>8, RelayGoes DEF RelayPassOK
<1>10. RelayTyped'
  BY <1>3, <1>9 DEF RelayTyped, AppendBatch, EntryOK
<1>11. o = "appended" => \A x \in relay[p].batch : records'[x.id] = x.content
  BY <1>1, <1>5, AppendKeeps DEF RelayTyped
<1> QED  BY <1>3, <1>7, <1>9, <1>10, <1>11

(* What a mark makes of an entry.                                          *)
LEMMA MarkEntry ==
  ASSUME RelayTyped, NEW p \in RelayPass, Mark(p), NEW e \in AuditEvent
  PROVE  \/ journal'[e] = journal[e]
         \/ /\ HoldsClaims(p) /\ \E x \in relay[p].batch : x.id = e
            /\ \/ journal'[e] = NoEntry /\ relay[p].outcome = "appended"
               \/ journal'[e] = Unclaimed(journal[e], "failed", FALSE)
               \/ journal'[e] = Unclaimed(journal[e], "quarantined", TRUE)
<1>1. CASE ~HoldsClaims(p)
  BY <1>1 DEF Mark
<1>2. CASE HoldsClaims(p) /\ relay[p].outcome = "appended"
  <2>1. journal' = MarkedDelivered(p)
    BY <1>2 DEF Mark
  <2> QED  BY <1>2, <2>1 DEF MarkedDelivered
<1>3. CASE HoldsClaims(p) /\ relay[p].outcome = "infrastructure"
  <2>1. journal' = Marked(p, "failed", FALSE)
    BY <1>3 DEF Mark
  <2> QED  BY <1>3, <2>1 DEF Marked
<1>4. CASE HoldsClaims(p) /\ relay[p].outcome \notin {"appended", "infrastructure"}
  <2>1. journal' = Marked(p, "quarantined", TRUE)
    BY <1>4 DEF Mark
  <2> QED  BY <1>4, <2>1 DEF Marked
<1> QED  BY <1>1, <1>2, <1>3, <1>4

LEMMA MarkTyped ==
  ASSUME RelayTyped, NEW p \in RelayPass, Mark(p)
  PROVE  RelayTyped'
<1>1. ASSUME NEW e \in AuditEvent PROVE journal'[e] \in JournalEntries /\ EntryOK(e)'
  <2>1. journal[e] \in JournalEntries /\ EntryOK(e)
    BY DEF RelayTyped
  <2>2. CASE journal'[e] = journal[e]
    BY <2>1, <2>2 DEF EntryOK
  <2>3. CASE journal'[e] = NoEntry
    BY <2>3 DEF EntryOK, NoEntry, JournalEntries, NoContent
  <2>4. ASSUME NEW st \in {"failed", "quarantined"}, NEW av \in BOOLEAN,
               HoldsClaims(p), \E x \in relay[p].batch : x.id = e,
               journal'[e] = Unclaimed(journal[e], st, av)
        PROVE  journal'[e] \in JournalEntries /\ EntryOK(e)'
    <3>1. journal[e].status = "claimed"
      BY <2>4 DEF HoldsClaims
    <3>2. journal[e].content # NoContent
      BY <2>1, <3>1 DEF EntryOK, NoEntry
    <3>3. /\ journal[e] \in JournalEntries /\ journal[e].status # "absent"
          /\ st \in {"pending", "failed", "quarantined"} /\ st # "claimed" /\ st # "absent"
      BY <2>1, <2>4, <3>1
    <3>4. /\ journal'[e] \in JournalEntries /\ journal'[e].content = journal[e].content
          /\ journal'[e].status = st /\ journal'[e].by = "none" /\ ~journal'[e].expired
      BY <2>4, <3>2, <3>3 DEF Unclaimed, JournalEntries, AuditJournalStatus
    <3> QED  BY <3>2, <3>3, <3>4 DEF EntryOK
  <2> QED  BY <2>2, <2>3, <2>4, MarkEntry
<1>2. journal' \in [AuditEvent -> JournalEntries]
  <2>1. DOMAIN journal' = AuditEvent /\ journal' = [e \in DOMAIN journal' |-> journal'[e]]
    BY DEF Mark, Marked, MarkedDelivered, RelayTyped
  <2> QED  BY <1>1, <2>1
<1>3. /\ relay' = [relay EXCEPT ![p] = Resting]
      /\ Resting.batch = {} /\ Resting.pc = "idle" /\ 0 <= RelayLimit
  BY RelayAssumption DEF Mark, Resting
<1>4. relay' \in [RelayPass -> Relays] /\ \A c \in RelayPass : RelayPassOK(c)'
  BY <1>3, RestingIsTyped, RelayGoes
<1> QED
  BY <1>1, <1>2, <1>4 DEF RelayTyped, Mark

LEMMA CrashTyped ==
  ASSUME RelayTyped, NEW p \in RelayPass, Crash(p)
  PROVE  RelayTyped'
<1>1. /\ relay' = [relay EXCEPT ![p] = Resting]
      /\ Resting.batch = {} /\ Resting.pc = "idle" /\ 0 <= RelayLimit
  BY RelayAssumption DEF Crash, Resting
<1>2. relay' \in [RelayPass -> Relays] /\ \A c \in RelayPass : RelayPassOK(c)'
  BY <1>1, RestingIsTyped, RelayGoes
<1> QED
  BY <1>2 DEF RelayTyped, Crash, EntryOK

LEMMA TimeTyped ==
  ASSUME RelayTyped, NEW e \in AuditEvent, ClaimExpires(e) \/ RetryComes(e)
  PROVE  /\ RelayTyped'
         /\ \A f \in AuditEvent : /\ journal'[f].status = journal[f].status
                                 /\ journal'[f].by = journal[f].by
                                 /\ journal'[f].content = journal[f].content
<1>1. journal[e] \in JournalEntries /\ EntryOK(e)
  BY DEF RelayTyped
<1>2. PICK r : /\ journal' = [journal EXCEPT ![e] = r]
               /\ \/ r = [journal[e] EXCEPT !.expired = TRUE]
                       /\ journal[e].status = "claimed"
                  \/ r = [journal[e] EXCEPT !.available = TRUE]
                          /\ journal[e].status = "failed"
  <2>1. CASE ClaimExpires(e)
    BY <2>1 DEF ClaimExpires, RelayTyped
  <2>2. CASE RetryComes(e)
    BY <2>2 DEF RetryComes, RelayTyped
  <2> QED  BY <2>1, <2>2
<1>3. /\ r \in JournalEntries /\ r.status = journal[e].status /\ r.by = journal[e].by
      /\ r.content = journal[e].content /\ (r.expired => journal[e].expired
              \/ r.status = "claimed")
      /\ r.content # NoContent
  <2>1. journal[e].status # "absent" /\ journal[e].content # NoContent
    BY <1>1, <1>2 DEF EntryOK, NoEntry
  <2>2. CASE r = [journal[e] EXCEPT !.expired = TRUE] /\ journal[e].status = "claimed"
    BY <1>1, <2>1, <2>2 DEF JournalEntries
  <2>3. CASE r = [journal[e] EXCEPT !.available = TRUE] /\ journal[e].status = "failed"
    BY <1>1, <2>1, <2>3 DEF JournalEntries
  <2> QED  BY <1>2, <2>2, <2>3
<1>4. /\ journal' \in [AuditEvent -> JournalEntries] /\ journal'[e] = r
      /\ \A f \in AuditEvent : f # e => journal'[f] = journal[f]
  BY <1>2, <1>3 DEF RelayTyped
<1>5. ASSUME NEW f \in AuditEvent PROVE EntryOK(f)'
  <2>1. CASE f # e
    BY <1>4, <2>1 DEF RelayTyped, EntryOK
  <2>2. CASE f = e
    BY <1>1, <1>3, <1>4, <2>2 DEF EntryOK
  <2> QED  BY <2>1, <2>2
<1>6. RelayTyped'
  BY <1>4, <1>5, JournalStep DEF ClaimExpires, RetryComes, RelayTyped
<1> QED  BY <1>3, <1>4, <1>6

LEMMA RelayStutter ==
  ASSUME RelayTyped, UNCHANGED <<records, journal, relay, accepted>>
  PROVE  RelayTyped' /\ (RelayInv => RelayInv')
BY DEF RelayTyped, EntryOK, RelayPassOK, RelayInv, NothingLost, BatchIsCurrent

LEMMA RelayTypedStep ==
  ASSUME RelayTyped, RelayNext
  PROVE  RelayTyped'
<1>1. ASSUME NEW w \in Written, EnqueueRecord(w) PROVE RelayTyped'
  BY <1>1, EnqueueRecordTyped
<1>2. ASSUME NEW p \in RelayPass, Step(p) PROVE RelayTyped'
  BY <1>2, RecoverTyped, ClaimTyped, AppendTyped, MarkTyped DEF Step
<1>3. ASSUME NEW p \in RelayPass, Crash(p) PROVE RelayTyped'
  BY <1>3, CrashTyped
<1>4. ASSUME NEW e \in AuditEvent, ClaimExpires(e) \/ RetryComes(e) PROVE RelayTyped'
  BY <1>4, TimeTyped
<1>5. CASE Archive
  BY <1>5, RelayStutter DEF Archive, mark_archived
<1> QED  BY <1>1, <1>2, <1>3, <1>4, <1>5 DEF RelayNext

(* Nothing is lost: step by step.                                          *)
LEMMA RecordIds ==
  ASSUME RelayTyped
  PROVE  /\ \A w \in accepted : w.id \in AuditEvent /\ w.content # NoContent
         /\ \A p \in RelayPass : \A x \in relay[p].batch :
               x.id \in AuditEvent /\ x.content # NoContent
<1>1. ASSUME NEW w \in accepted PROVE w.id \in AuditEvent /\ w.content # NoContent
  BY RelayAssumption DEF RelayTyped, NoContent
<1>2. ASSUME NEW p \in RelayPass, NEW x \in relay[p].batch
      PROVE  x.id \in AuditEvent /\ x.content # NoContent
  <2>1. relay[p].batch \in Batch
    BY DEF RelayTyped, Relays
  <2> QED  BY <2>1 DEF Batch, NoContent
<1> QED  BY <1>1, <1>2

LEMMA EnqueueLosesNothing ==
  ASSUME RelayTyped, RelayInv, NEW w \in Written, EnqueueRecord(w)
  PROVE  RelayInv'
<1>1. w.id \in AuditEvent /\ w.content # NoContent
  BY RelayAssumption DEF NoContent
<1>2. records' = records /\ relay' = relay /\ accepted' = accepted \cup {w}
  BY DEF EnqueueRecord
<1>3. \/ journal' = journal /\ journal[w.id].content = w.content
      \/ journal[w.id] = NoEntry /\ journal' = [journal EXCEPT ![w.id] = Entry(w.content)]
  BY <1>1 DEF EnqueueRecord, RelayTyped, EntryOK
<1>4. Entry(w.content).content = w.content /\ Entry(w.content).status = "pending"
  BY DEF Entry, NoEntry
<1>5. \A e \in AuditEvent : e # w.id => journal'[e] = journal[e]
  BY <1>1, <1>3 DEF RelayTyped
<1>6. journal'[w.id].content = w.content
  BY <1>1, <1>3, <1>4 DEF RelayTyped
<1>7. NothingLost'
  <2>1. ASSUME NEW v \in accepted'
        PROVE  records'[v.id] = v.content \/ journal'[v.id].content = v.content
    <3>1. CASE v = w
      BY <1>6, <3>1
    <3>2. CASE v \in accepted /\ v.id # w.id
      BY <1>2, <1>5, <3>2, RecordIds DEF RelayInv, NothingLost
    <3>3. CASE v \in accepted /\ v.id = w.id
      <4>1. v.content # NoContent /\ (records[v.id] = v.content
              \/ journal[v.id].content = v.content)
        BY <3>3, RecordIds DEF RelayInv, NothingLost
      <4>2. journal[v.id].content = v.content => journal' = journal
        BY <1>3, <3>3, <4>1 DEF NoEntry
      <4> QED  BY <1>2, <4>1, <4>2
    <3> QED  BY <1>2, <3>1, <3>2, <3>3
  <2> QED  BY <2>1 DEF NothingLost
<1>8. ASSUME NEW p \in RelayPass PROVE BatchIsCurrent(p)'
  <2>1. BatchIsCurrent(p)
    BY DEF RelayInv
  <2>2. ASSUME NEW x \in relay[p].batch,
               journal'[x.id].status = "claimed", journal'[x.id].by = WorkerOf[p]
        PROVE  journal'[x.id].content = x.content
    <3>1. x.id \in AuditEvent
      BY RecordIds
    <3>2. journal'[x.id] = journal[x.id]
      BY <1>1, <1>3, <1>4, <1>5, <2>2, <3>1 DEF RelayTyped
    <3> QED  BY <2>1, <2>2, <3>2 DEF BatchIsCurrent
  <2> QED  BY <1>2, <2>1, <2>2 DEF BatchIsCurrent
<1> QED  BY <1>7, <1>8 DEF RelayInv

(* A step after which the journal has the contents it had and no claim     *)
(* more, and the passes their batches or none.                             *)
LEMMA QuietStep ==
  ASSUME RelayTyped, RelayInv, UNCHANGED <<records, accepted>>,
         \A e \in AuditEvent :
            /\ journal'[e].content = journal[e].content
            /\ journal'[e].status = "claimed" =>
                  journal[e].status = "claimed" /\ journal'[e].by = journal[e].by,
         \A p \in RelayPass :
            \/ relay'[p].batch = {}
            \/ relay'[p].batch = relay[p].batch
                    /\ (relay'[p].pc = "mark" => relay'[p] = relay[p])
  PROVE  RelayInv'
<1>1. NothingLost'
  <2>1. \A w \in accepted : w.id \in AuditEvent
    BY RecordIds
  <2> QED  BY <2>1 DEF RelayInv, NothingLost
<1>2. ASSUME NEW p \in RelayPass PROVE BatchIsCurrent(p)'
  <2>1. BatchIsCurrent(p) /\ \A x \in relay[p].batch : x.id \in AuditEvent
    BY RecordIds DEF RelayInv
  <2>2. CASE relay'[p].batch = {}
    BY <2>2 DEF BatchIsCurrent
  <2>3. CASE relay'[p].batch = relay[p].batch
          /\ (relay'[p].pc = "mark" => relay'[p] = relay[p])
    BY <2>1, <2>3 DEF BatchIsCurrent
  <2> QED  BY <2>2, <2>3
<1> QED  BY <1>1, <1>2 DEF RelayInv

LEMMA RecoverLosesNothing ==
  ASSUME RelayTyped, RelayInv, NEW p \in RelayPass, recover_expired_claims(p)
  PROVE  RelayInv'
<1>1. ASSUME NEW e \in AuditEvent
      PROVE  /\ journal'[e].content = journal[e].content
             /\ journal'[e].status = "claimed" =>
                  journal[e].status = "claimed" /\ journal'[e].by = journal[e].by
  <2>1. journal[e] \in JournalEntries
    BY DEF RelayTyped
  <2>2. journal'[e] = Unclaimed(journal[e], "failed", TRUE) \/ journal'[e] = journal[e]
    BY DEF recover_expired_claims
  <2> QED  BY <2>1, <2>2 DEF Unclaimed, JournalEntries
<1>2. ASSUME NEW c \in RelayPass
      PROVE  relay'[c].batch = relay[c].batch
              /\ (relay'[c].pc = "mark" => relay'[c] = relay[c])
  BY DEF recover_expired_claims, RelayTyped, Relays
<1> QED
  BY <1>1, <1>2, QuietStep DEF recover_expired_claims

LEMMA CrashLosesNothing ==
  ASSUME RelayTyped, RelayInv, NEW p \in RelayPass, Crash(p)
  PROVE  RelayInv'
<1>1. UNCHANGED <<records, accepted>> /\ journal' = journal
  BY DEF Crash
<1>2. ASSUME NEW c \in RelayPass PROVE relay'[c].batch = {} \/ relay'[c] = relay[c]
  BY DEF Crash, RelayTyped, Resting
<1> QED  BY <1>1, <1>2, QuietStep

LEMMA TimeLosesNothing ==
  ASSUME RelayTyped, RelayInv, NEW e \in AuditEvent, ClaimExpires(e) \/ RetryComes(e)
  PROVE  RelayInv'
<1>1. UNCHANGED <<records, accepted>> /\ relay' = relay
  BY DEF ClaimExpires, RetryComes
<1> QED  BY <1>1, TimeTyped, QuietStep

LEMMA ClaimLosesNothing ==
  ASSUME OwnWorker, RelayTyped, RelayInv, NEW p \in RelayPass, claim_pending(p)
  PROVE  RelayInv'
<1>1. UNCHANGED <<records, accepted>>
  BY DEF claim_pending
<1>2. ASSUME NEW e \in AuditEvent
      PROVE  /\ journal'[e].content = journal[e].content
             /\ e \in Selected => journal'[e].by = WorkerOf[p]
             /\ e \notin Selected => journal'[e] = journal[e]
  <2>1. journal[e] \in JournalEntries
    BY DEF RelayTyped
  <2>2. CASE e \in Selected
    <3>1. journal'[e] = [journal[e] EXCEPT !.status = "claimed", !.by = WorkerOf[p], !.expired = FALSE]
      BY <2>2 DEF claim_pending
    <3> QED  BY <2>1, <2>2, <3>1 DEF JournalEntries
  <2>3. CASE e \notin Selected
    BY <2>3 DEF claim_pending
  <2> QED  BY <2>2, <2>3
<1>3. NothingLost'
  <2>1. \A w \in accepted : w.id \in AuditEvent
    BY RecordIds
  <2> QED  BY <1>1, <1>2, <2>1 DEF RelayInv, NothingLost
<1>4. ASSUME NEW c \in RelayPass PROVE BatchIsCurrent(c)'
  <2>1. CASE c = p
    <3>1. /\ relay'[p].pc # "mark"
          /\ \A x \in relay'[p].batch : \E e \in Selected : x = [id |-> e, content |-> journal[e].content]
      BY DEF claim_pending, RelayTyped, Resting
    <3>2. ASSUME NEW x \in relay'[p].batch PROVE journal'[x.id].content = x.content
      <4>1. PICK e \in Selected : x = [id |-> e, content |-> journal[e].content]
        BY <3>1
      <4>2. e \in AuditEvent
        BY DEF Selected, Eligible
      <4> QED  BY <1>2, <4>1, <4>2
    <3> QED  BY <2>1, <3>1, <3>2 DEF BatchIsCurrent
  <2>2. CASE c # p
    <3>1. relay'[c] = relay[c] /\ WorkerOf[c] # WorkerOf[p]
      BY <2>2 DEF claim_pending, RelayTyped, OwnWorker
    <3>2. BatchIsCurrent(c) /\ \A x \in relay[c].batch : x.id \in AuditEvent
      BY RecordIds DEF RelayInv
    <3>3. ASSUME NEW x \in relay[c].batch,
                 journal'[x.id].status = "claimed", journal'[x.id].by = WorkerOf[c]
          PROVE  journal'[x.id].content = x.content
      BY <1>2, <3>1, <3>2, <3>3 DEF BatchIsCurrent
    <3> QED  BY <1>1, <3>1, <3>2, <3>3 DEF BatchIsCurrent
  <2> QED  BY <2>1, <2>2
<1> QED  BY <1>3, <1>4 DEF RelayInv

LEMMA AppendLosesNothing ==
  ASSUME RelayTyped, RelayInv, NEW p \in RelayPass, AppendBatch(p)
  PROVE  RelayInv'
<1>1. /\ \A e \in AuditEvent : records[e] # NoContent => records'[e] = records[e]
      /\ relay'[p].outcome = "appended" => \A x \in relay[p].batch : records'[x.id] = x.content
  BY AppendTyped
<1>2. /\ journal' = journal /\ accepted' = accepted /\ relay'[p].batch = relay[p].batch
      /\ \A c \in RelayPass : c # p => relay'[c] = relay[c]
  BY DEF AppendBatch, RelayTyped, Relays
<1>3. NothingLost'
  <2>1. \A w \in accepted : w.id \in AuditEvent /\ w.content # NoContent
    BY RecordIds
  <2> QED  BY <1>1, <1>2, <2>1 DEF RelayInv, NothingLost
<1>4. ASSUME NEW c \in RelayPass PROVE BatchIsCurrent(c)'
  <2>1. BatchIsCurrent(c) /\ \A x \in relay[c].batch : x.id \in AuditEvent
          /\ x.content # NoContent
    BY RecordIds DEF RelayInv
  <2>2. CASE c = p
    BY <1>1, <1>2, <2>1, <2>2 DEF BatchIsCurrent
  <2>3. CASE c # p
    BY <1>1, <1>2, <2>1, <2>3 DEF BatchIsCurrent
  <2> QED  BY <2>2, <2>3
<1> QED  BY <1>3, <1>4 DEF RelayInv

(* The relay deletes an entry only after the ledger has it: the entry it   *)
(* deletes is the one it read, because the claim is still its own.         *)
LEMMA MarkLosesNothing ==
  ASSUME RelayTyped, RelayInv, NEW p \in RelayPass, Mark(p)
  PROVE  RelayInv'
<1>1. /\ records' = records /\ accepted' = accepted /\ relay[p].pc = "mark"
      /\ relay'[p].batch = {} /\ \A c \in RelayPass : c # p => relay'[c] = relay[c]
  BY DEF Mark, RelayTyped, Resting
<1>2. ASSUME NEW e \in AuditEvent
      PROVE  /\ journal'[e].status = "claimed" => journal'[e] = journal[e]
             /\ \/ journal'[e].content = journal[e].content
                \/ records[e] = journal[e].content
  <2>0. journal[e] \in JournalEntries
    BY DEF RelayTyped
  <2>1. CASE journal'[e] = journal[e]
    BY <2>1
  <2>2. CASE /\ HoldsClaims(p) /\ \E x \in relay[p].batch : x.id = e
             /\ journal'[e] = NoEntry /\ relay[p].outcome = "appended"
    <3>1. PICK x \in relay[p].batch : x.id = e
      BY <2>2
    <3>2. journal[e].content = x.content /\ records[e] = x.content
      BY <1>1, <2>2, <3>1 DEF HoldsClaims, RelayInv, BatchIsCurrent
    <3> QED  BY <2>2, <3>2 DEF NoEntry
  <2>3. CASE \/ journal'[e] = Unclaimed(journal[e], "failed", FALSE)
             \/ journal'[e] = Unclaimed(journal[e], "quarantined", TRUE)
    BY <2>0, <2>3 DEF Unclaimed, JournalEntries
  <2> QED  BY <2>1, <2>2, <2>3, MarkEntry
<1>3. NothingLost'
  <2>1. \A w \in accepted : w.id \in AuditEvent
    BY RecordIds
  <2> QED  BY <1>1, <1>2, <2>1 DEF RelayInv, NothingLost
<1>4. ASSUME NEW c \in RelayPass PROVE BatchIsCurrent(c)'
  <2>1. CASE c = p
    BY <1>1, <2>1 DEF BatchIsCurrent
  <2>2. CASE c # p
    <3>1. BatchIsCurrent(c) /\ \A x \in relay[c].batch : x.id \in AuditEvent
      BY RecordIds DEF RelayInv
    <3> QED  BY <1>1, <1>2, <2>2, <3>1 DEF BatchIsCurrent
  <2> QED  BY <2>1, <2>2
<1> QED  BY <1>3, <1>4 DEF RelayInv

LEMMA RelayLosesNothing ==
  ASSUME OwnWorker, RelayTyped, RelayInv, RelayNext
  PROVE  RelayInv'
<1>1. ASSUME NEW w \in Written, EnqueueRecord(w) PROVE RelayInv'
  BY <1>1, EnqueueLosesNothing
<1>2. ASSUME NEW p \in RelayPass, Step(p) PROVE RelayInv'
  BY <1>2, RecoverLosesNothing, ClaimLosesNothing, AppendLosesNothing, MarkLosesNothing
     DEF Step
<1>3. ASSUME NEW p \in RelayPass, Crash(p) PROVE RelayInv'
  BY <1>3, CrashLosesNothing
<1>4. ASSUME NEW e \in AuditEvent, ClaimExpires(e) \/ RetryComes(e) PROVE RelayInv'
  BY <1>4, TimeLosesNothing
<1>5. CASE Archive
  BY <1>5, RelayStutter DEF Archive, mark_archived
<1> QED  BY <1>1, <1>2, <1>3, <1>4, <1>5 DEF RelayNext

LEMMA RelayInvInit == RelayInit => RelayInv
BY DEF RelayInit, RelayInv, NothingLost, BatchIsCurrent, Resting

-----------------------------------------------------------------------------
(* Induction over the naturals, on sets of them: a least counterexample.   *)

LEMMA LeastNatural ==
  ASSUME NEW T \in SUBSET Nat, T # {}
  PROVE  \E m \in T : \A k \in T : m <= k
<1>1. PICK n \in T : TRUE
  OBVIOUS
<1> DEFINE S == 0..n
           F == {0..m : m \in {k \in T : k <= n}}
<1>2. IsWellFoundedOn(StrictSubsetOrdering(S), FiniteSubsetsOf(S))
  BY FS_StrictSubsetOrderingWellFounded
<1>3. F \subseteq FiniteSubsetsOf(S) /\ F # {}
  <2>1. ASSUME NEW m \in T, m <= n PROVE 0..m \in FiniteSubsetsOf(S)
    <3>1. 0..m \subseteq S /\ m \in Int
      BY <2>1
    <3>2. IsFiniteSet(0..m)
      BY <3>1, FS_Interval
    <3> QED  BY <3>1, <3>2 DEF FiniteSubsetsOf
  <2>2. n <= n
    BY <1>1
  <2> QED  BY <1>1, <2>1, <2>2
<1>4. PICK X \in F : \A Y \in F : ~(<<Y, X>> \in StrictSubsetOrdering(S))
  <2> HIDE DEF F, S
  <2> QED  BY <1>2, <1>3, WFMin
<1>5. PICK m \in T : m <= n /\ X = 0..m
  BY <1>4
<1>6. ASSUME NEW k \in T, ~(m <= k) PROVE FALSE
  <2>1. k < m /\ k <= n /\ k \in Nat /\ m \in Nat
    BY <1>5, <1>6
  <2>2. 0..k \in F /\ 0..k \in SUBSET S /\ 0..m \in SUBSET S
    BY <1>5, <2>1
  <2>3. 0..k \subseteq 0..m /\ m \in 0..m /\ m \notin 0..k
    BY <2>1
  <2>4. <<0..k, X>> \in StrictSubsetOrdering(S)
    BY <1>5, <2>2, <2>3 DEF StrictSubsetOrdering
  <2> QED  BY <1>4, <2>2, <2>4
<1> QED  BY <1>6

LEMMA InductionOverNat ==
  ASSUME NEW G, 0 \in G, \A n \in Nat : n \in G => n + 1 \in G
  PROVE  Nat \subseteq G
<1> SUFFICES ASSUME Nat \ G # {} PROVE FALSE
  OBVIOUS
<1>1. PICK m \in Nat \ G : \A k \in Nat \ G : m <= k
  BY LeastNatural
<1>2. m # 0 /\ m - 1 \in Nat
  BY <1>1
<1>3. m - 1 \in G
  BY <1>1, <1>2
<1>4. (m - 1) + 1 = m
  BY <1>1
<1> QED  BY <1>1, <1>2, <1>3, <1>4

(* A finite set of naturals has a greatest element.                        *)
LEMMA MaxOfFinite ==
  ASSUME NEW S \in SUBSET Nat, IsFiniteSet(S), S # {}
  PROVE  Max(S) \in S /\ \A k \in S : Max(S) >= k
<1> DEFINE Above(m) == {k \in S : m < k}
           F == {Above(m) : m \in S}
<1>1. IsWellFoundedOn(StrictSubsetOrdering(S), FiniteSubsetsOf(S))
  BY FS_StrictSubsetOrderingWellFounded
<1>2. F \subseteq FiniteSubsetsOf(S) /\ F # {}
  <2>1. ASSUME NEW m \in S PROVE Above(m) \in FiniteSubsetsOf(S)
    <3>1. Above(m) \in SUBSET S
      OBVIOUS
    <3> HIDE DEF Above
    <3>2. IsFiniteSet(Above(m))
      BY <3>1, FS_Subset
    <3> QED  BY <3>1, <3>2 DEF FiniteSubsetsOf
  <2> QED  BY <2>1
<1>3. PICK X \in F : \A Y \in F : ~(<<Y, X>> \in StrictSubsetOrdering(S))
  <2> HIDE DEF F
  <2> QED  BY <1>1, <1>2, WFMin
<1>4. PICK m \in S : X = Above(m)
  BY <1>3
<1>5. ASSUME NEW k \in S, ~(m >= k) PROVE FALSE
  <2>1. m \in Nat /\ k \in Nat /\ m < k
    BY <1>5
  <2>2. Above(k) \in F /\ Above(k) \in SUBSET S /\ Above(m) \in SUBSET S
    OBVIOUS
  <2>3. ASSUME NEW j \in Above(k) PROVE j \in Above(m)
    <3>1. j \in S /\ k < j /\ j \in Nat
      OBVIOUS
    <3> QED  BY <2>1, <3>1
  <2>4. k \in Above(m) /\ k \notin Above(k)
    BY <2>1
  <2>5. <<Above(k), X>> \in StrictSubsetOrdering(S)
    BY <1>4, <2>2, <2>3, <2>4 DEF StrictSubsetOrdering
  <2> QED  BY <1>3, <2>2, <2>5
<1>6. \E x \in S : \A y \in S : x >= y
  BY <1>5
<1> QED  BY <1>6 DEF Max

(* A function that is defined from one natural to the next exists.         *)
Unfolds(f, v0, step) == f = [n \in Nat |-> IF n = 0 THEN v0 ELSE step[n - 1][f[n - 1]]]

LEMMA RecursionOverNat ==
  ASSUME NEW V, NEW v0 \in V, NEW step \in [Nat -> [V -> V]]
  PROVE  \E f \in [Nat -> V] : Unfolds(f, v0, step)
<1> DEFINE Good(n, g) == /\ g \in [0..n -> V] /\ g[0] = v0
                         /\ \A i \in 1..n : g[i] = step[i - 1][g[i - 1]]
<1>1. \A n \in Nat : \E g : Good(n, g)
  <2> DEFINE G == {n \in Nat : \E g : Good(n, g)}
  <2>1. 0 \in G
    <3>1. Good(0, [i \in 0..0 |-> v0])
      OBVIOUS
    <3> QED  BY <3>1
  <2>2. ASSUME NEW n \in Nat, n \in G PROVE n + 1 \in G
    <3>1. PICK g : Good(n, g)
      BY <2>2
    <3>2. g[n] \in V
      BY <3>1
    <3> DEFINE h == [i \in 0..(n + 1) |-> IF i = n + 1 THEN step[n][g[n]] ELSE g[i]]
    <3>3. h \in [0..(n + 1) -> V]
      BY <3>1, <3>2
    <3>4. h[0] = v0
      BY <3>1
    <3>5. ASSUME NEW i \in 1..(n + 1) PROVE h[i] = step[i - 1][h[i - 1]]
      <4>1. CASE i = n + 1
        BY <4>1
      <4>2. CASE i # n + 1
        <5>1. i \in 1..n /\ i - 1 \in 0..n /\ i - 1 # n + 1
          BY <4>2
        <5>2. h[i] = g[i] /\ h[i - 1] = g[i - 1]
          BY <4>2, <5>1
        <5> QED  BY <3>1, <5>1, <5>2
      <4> QED  BY <4>1, <4>2
    <3>6. Good(n + 1, h)
      BY <3>3, <3>4, <3>5
    <3> HIDE DEF Good, h
    <3> QED  BY <3>6
  <2> HIDE DEF G
  <2>3. Nat \subseteq G
    BY <2>1, <2>2, InductionOverNat
  <2> QED  BY <2>3 DEF G
<1>2. ASSUME NEW n \in Nat, NEW m \in Nat, NEW g, NEW h, Good(n, g), Good(m, h)
      PROVE  \A i \in Nat : i <= n /\ i <= m => g[i] = h[i]
  <2> DEFINE G == {i \in Nat : i <= n /\ i <= m => g[i] = h[i]}
  <2>1. 0 \in G
    BY <1>2
  <2>2. ASSUME NEW i \in Nat, i \in G PROVE i + 1 \in G
    <3> SUFFICES ASSUME i + 1 <= n, i + 1 <= m PROVE g[i + 1] = h[i + 1]
      OBVIOUS
    <3>1. i <= n /\ i <= m /\ i + 1 \in 1..n /\ i + 1 \in 1..m /\ (i + 1) - 1 = i
      OBVIOUS
    <3>2. g[i] = h[i]
      BY <2>2, <3>1
    <3>3. g[i + 1] = step[i][g[i]] /\ h[i + 1] = step[i][h[i]]
      BY <1>2, <3>1
    <3> QED  BY <3>2, <3>3
  <2> HIDE DEF G
  <2>3. Nat \subseteq G
    BY <2>1, <2>2, InductionOverNat
  <2> QED  BY <2>3 DEF G
<1> DEFINE g(n) == CHOOSE g : Good(n, g)
           f == [n \in Nat |-> g(n)[n]]
<1>3. \A n \in Nat : Good(n, g(n))
  <2> HIDE DEF Good
  <2> QED  BY <1>1
<1>4. ASSUME NEW n \in Nat PROVE f[n] \in V
  <2>1. g(n) \in [0..n -> V]
    BY <1>3
  <2> HIDE DEF g
  <2> QED  BY <2>1
<1>5. ASSUME NEW n \in Nat PROVE f[n] = IF n = 0 THEN v0 ELSE step[n - 1][f[n - 1]]
  <2>0. Good(n, g(n))
    BY <1>3
  <2>1. CASE n = 0
    <3>1. g(0)[0] = v0
      BY <2>0, <2>1
    <3> HIDE DEF g
    <3> QED  BY <2>1, <3>1
  <2>2. CASE n # 0
    <3>1. n - 1 \in Nat /\ n \in 1..n /\ n - 1 <= n
      BY <2>2
    <3>2. g(n)[n] = step[n - 1][g(n)[n - 1]]
      BY <2>0, <3>1
    <3>3. Good(n - 1, g(n - 1))
      BY <1>3, <3>1
    <3>4. g(n)[n - 1] = g(n - 1)[n - 1]
      <4> HIDE DEF g, Good
      <4> QED  BY <1>2, <2>0, <3>1, <3>3
    <3> HIDE DEF g, Good
    <3>5. f[n] = g(n)[n] /\ f[n - 1] = g(n - 1)[n - 1]
      BY <3>1
    <3> QED  BY <2>2, <3>2, <3>4, <3>5
  <2> QED  BY <2>1, <2>2
<1>6. f \in [Nat -> V]
  BY <1>4
<1> HIDE DEF f, Good
<1>7. Unfolds(f, v0, step)
  BY <1>5, <1>6 DEF Unfolds
<1> QED  BY <1>6, <1>7

-----------------------------------------------------------------------------
(* The encoded size of records.                                            *)

Contents == [AuditEvent -> Nat]

LEMMA SizeBelowDef ==
  ASSUME NEW c \in Contents, NEW ids \in SUBSET AuditEvent
  PROVE  /\ SizeBelow(c, ids) \in [Nat -> Nat]
         /\ SizeBelow(c, ids)[0] = 0
         /\ \A n \in Nat : SizeBelow(c, ids)[n + 1] =
               SizeBelow(c, ids)[n] + (IF n \in ids THEN c[n] ELSE 0)
<1> DEFINE more == [n \in Nat |-> IF n \in ids THEN c[n] ELSE 0]
           step == [n \in Nat |-> [v \in Nat |-> v + more[n]]]
<1>1. more \in [Nat -> Nat]
  BY DEF Contents
<1> HIDE DEF more
<1>2. step \in [Nat -> [Nat -> Nat]]
  BY <1>1
<1>3. PICK f \in [Nat -> Nat] : Unfolds(f, 0, step)
  <2> HIDE DEF step
  <2>1. 0 \in Nat
    OBVIOUS
  <2> QED  BY ONLY <1>2, <2>1, RecursionOverNat
<1>4. f = [n \in Nat |->
            IF n = 0 THEN 0 ELSE f[n - 1] + (IF n - 1 \in ids THEN c[n - 1] ELSE 0)]
  <2>1. ASSUME NEW n \in Nat, n # 0
        PROVE  step[n - 1][f[n - 1]] = f[n - 1] + (IF n - 1 \in ids THEN c[n - 1] ELSE 0)
    <3>1. n - 1 \in Nat /\ f[n - 1] \in Nat
      BY <2>1
    <3>2. step[n - 1][f[n - 1]] = f[n - 1] + more[n - 1]
      BY <3>1
    <3> QED  BY <3>1, <3>2 DEF more
  <2> HIDE DEF step
  <2> QED  BY <1>3, <2>1 DEF Unfolds
<1> DEFINE Def(s) == s = [id \in Nat |->
            IF id = 0 THEN 0 ELSE s[id - 1] + (IF id - 1 \in ids THEN c[id - 1] ELSE 0)]
<1>5. Def(SizeBelow(c, ids))
  <2>1. SizeBelow(c, ids) = CHOOSE s : Def(s)
    BY DEF SizeBelow
  <2>2. \E s : Def(s)
    BY <1>4
  <2> HIDE DEF Def
  <2> QED  BY <2>1, <2>2
<1> DEFINE s == SizeBelow(c, ids)
<1>6. s = [id \in Nat |->
            IF id = 0 THEN 0 ELSE s[id - 1] + (IF id - 1 \in ids THEN c[id - 1] ELSE 0)]
  BY <1>5
<1> HIDE DEF Def, s
<1>7. s[0] = 0 /\ \A n \in Nat : s[n + 1] = s[n] + (IF n \in ids THEN c[n] ELSE 0)
  <2>1. s[0] = 0
    BY <1>6
  <2>2. ASSUME NEW n \in Nat PROVE s[n + 1] = s[n] + (IF n \in ids THEN c[n] ELSE 0)
    <3>1. n + 1 \in Nat /\ n + 1 # 0 /\ (n + 1) - 1 = n
      OBVIOUS
    <3> QED  BY <1>6, <3>1
  <2> QED  BY <2>1, <2>2
<1>8. s \in [Nat -> Nat]
  <2> DEFINE G == {n \in Nat : s[n] \in Nat}
  <2>1. 0 \in G
    BY <1>7
  <2>2. ASSUME NEW n \in Nat, n \in G PROVE n + 1 \in G
    BY <1>7, <2>2 DEF Contents
  <2> HIDE DEF G
  <2>3. Nat \subseteq G
    BY <2>1, <2>2, InductionOverNat
  <2> QED  BY <1>6, <2>3 DEF G
<1> QED  BY <1>7, <1>8 DEF s

(* Records above a bound add nothing.                                      *)
LEMMA SizeBelowStable ==
  ASSUME NEW c \in Contents, NEW ids \in SUBSET AuditEvent,
         NEW m \in Nat, \A e \in ids : e < m
  PROVE  \A n \in Nat : m <= n => SizeBelow(c, ids)[n] = SizeBelow(c, ids)[m]
<1> DEFINE s == SizeBelow(c, ids)
           G == {n \in Nat : m <= n => s[n] = s[m]}
<1>1. s \in [Nat -> Nat] /\ \A n \in Nat : s[n + 1] = s[n] + (IF n \in ids THEN c[n] ELSE 0)
  BY SizeBelowDef
<1> HIDE DEF s
<1>2. 0 \in G
  OBVIOUS
<1>3. ASSUME NEW n \in Nat, n \in G PROVE n + 1 \in G
  <2> SUFFICES ASSUME m <= n + 1 PROVE s[n + 1] = s[m]
    OBVIOUS
  <2>1. CASE m = n + 1
    BY <2>1
  <2>2. CASE m # n + 1
    <3>1. m <= n /\ n \notin ids /\ s[n] \in Nat
      BY <1>1, <2>2
    <3> QED  BY <1>1, <1>3, <3>1
  <2> QED  BY <2>1, <2>2
<1> HIDE DEF G
<1>4. Nat \subseteq G
  BY <1>2, <1>3, InductionOverNat
<1> QED  BY <1>4 DEF G, s

LEMMA SizeIs ==
  ASSUME NEW c \in Contents, NEW ids \in SUBSET AuditEvent, IsFiniteSet(ids),
         NEW n \in Nat, \A e \in ids : e < n
  PROVE  Size(c, ids) = SizeBelow(c, ids)[n]
<1>1. CASE ids = {}
  <2>1. SizeBelow(c, ids)[n] = SizeBelow(c, ids)[0]
    BY <1>1, SizeBelowStable
  <2> QED  BY <1>1, <2>1, SizeBelowDef DEF Size
<1>2. CASE ids # {}
  <2>0. ids \in SUBSET Nat
    BY LedgerAssumption
  <2>1. PICK k \in Nat : k = Max(ids) /\ k \in ids /\ \A j \in ids : k >= j
    BY <1>2, <2>0, MaxOfFinite
  <2>2. PICK m \in Nat : m = k + 1
    OBVIOUS
  <2>3. (\A e \in ids : e < m) /\ m <= n
    BY <2>0, <2>1, <2>2
  <2>4. SizeBelow(c, ids)[n] = SizeBelow(c, ids)[m]
    BY <2>3, SizeBelowStable
  <2> QED  BY <1>2, <2>1, <2>2, <2>4 DEF Size
<1> QED  BY <1>1, <1>2

LEMMA BoundOfFinite ==
  ASSUME NEW ids \in SUBSET AuditEvent, IsFiniteSet(ids)
  PROVE  \E n \in Nat : \A e \in ids : e < n
<1>1. CASE ids = {}
  BY <1>1
<1>2. CASE ids # {}
  <2>0. ids \in SUBSET Nat
    BY LedgerAssumption
  <2>1. PICK k \in Nat : k = Max(ids) /\ k \in ids /\ \A j \in ids : k >= j
    BY <1>2, <2>0, MaxOfFinite
  <2>2. PICK m \in Nat : m = k + 1
    OBVIOUS
  <2>3. \A e \in ids : e < m
    BY <2>0, <2>1, <2>2
  <2> QED  BY <2>3
<1> QED  BY <1>1, <1>2

LEMMA SizeType ==
  ASSUME NEW c \in Contents, NEW ids \in SUBSET AuditEvent, IsFiniteSet(ids)
  PROVE  Size(c, ids) \in Nat
<1>1. PICK n \in Nat : \A e \in ids : e < n
  BY BoundOfFinite
<1> QED  BY <1>1, SizeIs, SizeBelowDef

(* Only the contents of the records themselves count.                      *)
LEMMA SizeSame ==
  ASSUME NEW c \in Contents, NEW d \in Contents, NEW ids \in SUBSET AuditEvent,
         IsFiniteSet(ids), \A e \in ids : c[e] = d[e]
  PROVE  Size(c, ids) = Size(d, ids)
<1> DEFINE s == SizeBelow(c, ids)
           t == SizeBelow(d, ids)
           G == {n \in Nat : s[n] = t[n]}
<1>1. /\ s[0] = 0 /\ \A n \in Nat : s[n + 1] = s[n] + (IF n \in ids THEN c[n] ELSE 0)
      /\ t[0] = 0 /\ \A n \in Nat : t[n + 1] = t[n] + (IF n \in ids THEN d[n] ELSE 0)
  BY SizeBelowDef
<1> HIDE DEF s, t
<1>2. 0 \in G
  BY <1>1
<1>3. ASSUME NEW n \in Nat, n \in G PROVE n + 1 \in G
  BY <1>1, <1>3
<1> HIDE DEF G
<1>4. Nat \subseteq G
  BY <1>2, <1>3, InductionOverNat
<1>5. PICK n \in Nat : \A e \in ids : e < n
  BY BoundOfFinite
<1>6. Size(c, ids) = s[n] /\ Size(d, ids) = t[n]
  BY <1>5, SizeIs DEF s, t
<1> QED  BY <1>4, <1>6 DEF G

(* One more record adds its content.                                       *)
LEMMA SizeAdds ==
  ASSUME NEW c \in Contents, NEW d \in Contents, NEW ids \in SUBSET AuditEvent,
         IsFiniteSet(ids), NEW x \in AuditEvent, x \notin ids, \A e \in ids : c[e] = d[e]
  PROVE  Size(d, ids \cup {x}) = Size(c, ids) + d[x]
<1> DEFINE all == ids \cup {x}
           s == SizeBelow(c, ids)
           t == SizeBelow(d, all)
           G == {n \in Nat : t[n] = s[n] + (IF x < n THEN d[x] ELSE 0)}
<1>0. all \in SUBSET AuditEvent /\ IsFiniteSet(all) /\ x \in Nat /\ d[x] \in Nat
  BY FS_AddElement, LedgerAssumption DEF Contents
<1>1. /\ s \in [Nat -> Nat] /\ s[0] = 0
      /\ \A n \in Nat : s[n + 1] = s[n] + (IF n \in ids THEN c[n] ELSE 0)
      /\ t \in [Nat -> Nat] /\ t[0] = 0
      /\ \A n \in Nat : t[n + 1] = t[n] + (IF n \in all THEN d[n] ELSE 0)
  BY <1>0, SizeBelowDef
<1> HIDE DEF s, t
<1>2. 0 \in G
  BY <1>0, <1>1
<1>3. ASSUME NEW n \in Nat, n \in G PROVE n + 1 \in G
  <2>1. s[n] \in Nat /\ t[n] = s[n] + (IF x < n THEN d[x] ELSE 0)
    BY <1>1, <1>3
  <2>2. CASE n = x
    <3>1. ~(x < n) /\ x < n + 1 /\ n \notin ids /\ n \in all
      BY <1>0, <2>2
    <3>2. t[n + 1] = t[n] + d[x] /\ s[n + 1] = s[n]
      BY <1>1, <2>1, <2>2, <3>1
    <3> QED  BY <1>0, <2>1, <3>1, <3>2
  <2>3. CASE n # x /\ n \in ids
    <3>1. (x < n <=> x < n + 1) /\ n \in all /\ c[n] = d[n] /\ c[n] \in Nat
      BY <1>0, <2>3 DEF Contents
    <3>2. t[n + 1] = t[n] + c[n] /\ s[n + 1] = s[n] + c[n]
      BY <1>1, <2>3, <3>1
    <3> QED  BY <1>0, <2>1, <3>1, <3>2
  <2>4. CASE n # x /\ n \notin ids
    <3>1. (x < n <=> x < n + 1) /\ n \notin all
      BY <1>0, <2>4
    <3>2. t[n + 1] = t[n] /\ s[n + 1] = s[n]
      BY <1>0, <1>1, <2>1, <2>4, <3>1
    <3> QED  BY <1>0, <2>1, <3>1, <3>2
  <2> QED  BY <2>2, <2>3, <2>4
<1> HIDE DEF G
<1>4. Nat \subseteq G
  BY <1>2, <1>3, InductionOverNat
<1>5. PICK n \in Nat : \A e \in all : e < n
  BY <1>0, BoundOfFinite
<1>6. Size(c, ids) = s[n] /\ Size(d, all) = t[n]
  BY <1>0, <1>5, SizeIs DEF s, t
<1>7. x < n
  BY <1>5
<1> QED  BY <1>4, <1>6, <1>7 DEF G

-----------------------------------------------------------------------------
(* The segments.                                                           *)

SegmentShapes == [state : {"active", "sealed", "archived"}, ids : SUBSET AuditEvent, bytes : Nat]

(* Segments hold the records of the contents c: each in one of them, in    *)
(* the sizes that count, the last one active.                              *)
Hold(segs, c) ==
    /\ segs \in Seq(SegmentShapes) /\ Len(segs) > 0
    /\ \A i \in 1..Len(segs) :
          /\ segs[i].state = "active" <=> i = Len(segs)
          /\ IsFiniteSet(segs[i].ids)
          /\ segs[i].bytes = Size(c, segs[i].ids)
          /\ segs[i].bytes <= RejectAt
          /\ Cardinality(segs[i].ids) > 1 => segs[i].bytes <= RotateAt
    /\ \A i, j \in 1..Len(segs) : \A e \in AuditEvent :
          e \in segs[i].ids /\ e \in segs[j].ids => i = j
    /\ \A e \in AuditEvent : c[e] # NoContent <=> \E i \in 1..Len(segs) : e \in segs[i].ids

(* All segments of a but the active one are in b as they are in a.         *)
Extends(a, b) == Len(a) <= Len(b) /\ \A i \in 1..(Len(a) - 1) : b[i] = a[i]

(* What Place does: to the active segment, or to a new one after it.       *)
Joined(segs, x, r) ==
    LET k == Len(segs) IN
    /\ Len(r) = k /\ \A i \in 1..(k - 1) : r[i] = segs[i]
    /\ r[k].state = segs[k].state /\ r[k].ids = segs[k].ids \cup {x.id}
    /\ r[k].bytes = segs[k].bytes + x.content
    /\ segs[k].ids = {} \/ segs[k].bytes + x.content <= RotateAt
    /\ segs[k].bytes + x.content <= RejectAt
Rotated(segs, x, r) ==
    LET k == Len(segs) IN
    /\ Len(r) = k + 1 /\ \A i \in 1..(k - 1) : r[i] = segs[i]
    /\ r[k].state = "sealed" /\ r[k].ids = segs[k].ids /\ r[k].bytes = segs[k].bytes
    /\ r[k + 1].state = "active" /\ r[k + 1].ids = {x.id} /\ r[k + 1].bytes = x.content
    /\ x.content <= RejectAt

(* The last element of a sequence is replaced.                             *)
LEMMA LastReplaced ==
  ASSUME NEW S, NEW s \in Seq(S), Len(s) > 0, NEW e \in S
  PROVE  /\ Front(s) \o <<e>> \in Seq(S) /\ Len(Front(s) \o <<e>>) = Len(s)
         /\ (Front(s) \o <<e>>)[Len(s)] = e
         /\ \A i \in 1..(Len(s) - 1) : (Front(s) \o <<e>>)[i] = s[i]
<1>1. /\ Front(s) \in Seq(S) /\ Len(Front(s)) = Len(s) - 1
      /\ \A i \in 1..(Len(s) - 1) : Front(s)[i] = s[i]
  <2>1. Len(s) \in Nat /\ \A i \in 1..(Len(s) - 1) : s[i] \in S
    OBVIOUS
  <2>2. PICK m \in Int : m = Len(s) - 1
    OBVIOUS
  <2>3. /\ SubSeq(s, 1, m) \in Seq(S)
        /\ Len(SubSeq(s, 1, m)) = IF 1 <= m THEN m - 1 + 1 ELSE 0
        /\ \A i \in 1..(m - 1 + 1) : SubSeq(s, 1, m)[i] = s[1 + i - 1]
    <3>1. 1 \in Int /\ \A i \in 1..m : s[i] \in S
      BY <2>1, <2>2
    <3> QED  BY ONLY <2>2, <3>1, SubSeqProperties
  <2> QED  BY <2>1, <2>2, <2>3 DEF Front
<1>2. PICK f \in Seq(S) : f = Front(s)
  BY <1>1
<1>3. PICK g \in Seq(S) : g = <<e>> /\ Len(g) = 1 /\ g[1] = e
  <2>1. <<e>> \in Seq(S) /\ Len(<<e>>) = 1 /\ <<e>>[1] = e
    OBVIOUS
  <2> QED  BY <2>1
<1>4. /\ f \o g \in Seq(S) /\ Len(f \o g) = Len(f) + Len(g)
      /\ \A i \in 1..(Len(f) + Len(g)) : (f \o g)[i] = IF i <= Len(f) THEN f[i] ELSE g[i - Len(f)]
  BY ONLY ConcatProperties
<1>5. PICK r \in Seq(S) : r = f \o g
  BY <1>4
<1>6. /\ Len(r) = Len(s) /\ r[Len(s)] = e
      /\ \A i \in 1..(Len(s) - 1) : r[i] = s[i]
  <2>1. Len(f) \in Nat /\ Len(f) = Len(s) - 1 /\ Len(f) + Len(g) = Len(s)
    BY <1>1, <1>2, <1>3
  <2>2. Len(r) = Len(s)
          /\ \A i \in 1..Len(s) : r[i] = IF i <= Len(f) THEN f[i] ELSE g[i - Len(f)]
    BY <1>4, <1>5, <2>1
  <2>3. r[Len(s)] = e
    <3>1. Len(s) \in 1..Len(s) /\ ~(Len(s) <= Len(f)) /\ Len(s) - Len(f) = 1
      BY <2>1
    <3> QED  BY <1>3, <2>2, <3>1
  <2>4. ASSUME NEW i \in 1..(Len(s) - 1) PROVE r[i] = s[i]
    <3>1. i \in 1..Len(s) /\ i <= Len(f)
      BY <2>1
    <3> QED  BY <1>1, <1>2, <2>2, <3>1
  <2> QED  BY <2>2, <2>3, <2>4
<1> QED  BY <1>2, <1>3, <1>5, <1>6

LEMMA PlaceCases ==
  ASSUME NEW segs \in Seq(SegmentShapes), Len(segs) > 0,
         NEW x \in [id : AuditEvent, content : Nat \ {0}], Place(segs, x) # <<>>
  PROVE  /\ Place(segs, x) \in Seq(SegmentShapes)
         /\ Joined(segs, x, Place(segs, x)) \/ Rotated(segs, x, Place(segs, x))
<1>1. PICK k \in Nat : k = Len(segs) /\ k > 0
  OBVIOUS
<1>2. PICK active \in SegmentShapes : active = segs[k]
  BY <1>1
<1>3. active.bytes \in Nat /\ active.ids \in SUBSET AuditEvent /\ Last(segs) = active
  BY <1>1, <1>2 DEF SegmentShapes, Last
<1>4. x.id \in AuditEvent /\ x.content \in Nat /\ RotateAt \in Nat /\ RejectAt \in Nat
  BY LedgerAssumption
<1>5. ActiveSegment \in SegmentShapes
  BY DEF ActiveSegment, SegmentShapes
<1> DEFINE With(l) == [l EXCEPT !.ids = @ \cup {x.id}, !.bytes = @ + x.content]
<1>6. ASSUME NEW l \in SegmentShapes
      PROVE  /\ With(l).state = l.state /\ With(l).ids = l.ids \cup {x.id}
             /\ With(l).bytes = l.bytes + x.content
             /\ With(l) \in SegmentShapes
  <2>1. PICK ids \in SUBSET AuditEvent : ids = l.ids \cup {x.id}
    BY <1>4 DEF SegmentShapes
  <2>2. PICK n \in Nat : n = l.bytes + x.content
    BY <1>4 DEF SegmentShapes
  <2>3. With(l) = [l EXCEPT !.ids = ids, !.bytes = n]
    BY <2>1, <2>2
  <2>4. [l EXCEPT !.ids = ids, !.bytes = n] \in SegmentShapes
    BY DEF SegmentShapes
  <2>5. PICK r : r = With(l)
    OBVIOUS
  <2>6. r.state = l.state /\ r.ids = l.ids \cup {x.id} /\ r.bytes = l.bytes + x.content
    BY <2>5 DEF SegmentShapes
  <2> HIDE DEF With
  <2> QED  BY <2>3, <2>4, <2>5, <2>6
<1> DEFINE Full == active.ids # {} /\ active.bytes + x.content > RotateAt
           old == [active EXCEPT !.state = "sealed"]
           opened == Append(Front(segs) \o <<old>>, ActiveSegment)
           Put(open) == IF Last(open).bytes + x.content > RejectAt THEN <<>>
                        ELSE Front(open) \o <<With(Last(open))>>
<1>7. Place(segs, x) = Put(IF Full THEN opened ELSE segs)
  BY <1>3 DEF Place
<1>8. ASSUME NEW open \in Seq(SegmentShapes), Len(open) > 0, Place(segs, x) = Put(open)
      PROVE  /\ Last(open) \in SegmentShapes /\ Last(open).bytes + x.content <= RejectAt
             /\ Place(segs, x) = Front(open) \o <<With(Last(open))>>
  <2>1. PICK l \in SegmentShapes : l = Last(open)
    BY <1>8 DEF Last
  <2>2. l.bytes \in Nat
    BY DEF SegmentShapes
  <2> HIDE DEF With
  <2>3. ~(l.bytes + x.content > RejectAt) /\ Place(segs, x) = Front(open) \o <<With(l)>>
    BY <1>8, <2>1
  <2> QED  BY <1>4, <2>1, <2>2, <2>3
<1>9. CASE ~Full
  <2>1. Place(segs, x) = Put(segs)
    BY <1>7, <1>9
  <2> HIDE DEF With
  <2>2. active.bytes + x.content <= RejectAt
          /\ Place(segs, x) = Front(segs) \o <<With(active)>>
    <3> HIDE DEF Put
    <3>1. /\ Last(segs).bytes + x.content <= RejectAt
          /\ Place(segs, x) = Front(segs) \o <<With(Last(segs))>>
      BY <1>1, <1>8, <2>1
    <3> QED  BY <1>3, <3>1
  <2>3. PICK grown \in SegmentShapes : grown = With(active)
    BY <1>6
  <2>4. PICK r \in Seq(SegmentShapes) : r = Front(segs) \o <<grown>>
    BY <1>1, <2>3, LastReplaced
  <2>5. Len(r) = k /\ r[k] = grown /\ \A i \in 1..(k - 1) : r[i] = segs[i]
    BY <1>1, <2>3, <2>4, LastReplaced
  <2>6. /\ grown.state = active.state /\ grown.ids = active.ids \cup {x.id}
        /\ grown.bytes = active.bytes + x.content
    BY <1>6, <2>3
  <2>7. active.ids = {} \/ active.bytes + x.content <= RotateAt
    BY <1>3, <1>4, <1>9
  <2>8. Joined(segs, x, r)
    BY <1>1, <1>2, <2>2, <2>5, <2>6, <2>7 DEF Joined
  <2> QED  BY <2>2, <2>3, <2>4, <2>8
<1>10. CASE Full
  <2>1. Place(segs, x) = Put(opened)
    BY <1>7, <1>10
  <2>2. PICK sealed \in SegmentShapes :
           sealed = old /\ sealed.state = "sealed" /\ sealed.ids = active.ids
           /\ sealed.bytes = active.bytes
    <3>1. PICK r : r = old
      OBVIOUS
    <3>2. r \in SegmentShapes /\ r.state = "sealed" /\ r.ids = active.ids
            /\ r.bytes = active.bytes
      BY <3>1 DEF SegmentShapes
    <3> QED  BY <3>1, <3>2
  <2>3. PICK mid \in Seq(SegmentShapes) : mid = Front(segs) \o <<sealed>>
    BY <1>1, <2>2, LastReplaced
  <2>4. Len(mid) = k /\ mid[k] = sealed /\ \A i \in 1..(k - 1) : mid[i] = segs[i]
    <3>1. /\ Len(mid) = Len(segs) /\ mid[Len(segs)] = sealed
          /\ \A i \in 1..(Len(segs) - 1) : mid[i] = segs[i]
      <4>1. Len(segs) > 0
        BY <1>1
      <4> QED  BY ONLY <2>3, <4>1, LastReplaced
    <3> QED  BY <1>1, <3>1
  <2>5. PICK open \in Seq(SegmentShapes) : open = opened
          /\ open = Append(mid, ActiveSegment)
    <3>1. opened = Append(mid, ActiveSegment)
      BY <2>2, <2>3
    <3>2. Append(mid, ActiveSegment) \in Seq(SegmentShapes)
      BY <1>5, AppendProperties
    <3> QED  BY <3>1, <3>2
  <2>6. /\ Len(open) = k + 1 /\ open[k + 1] = ActiveSegment
        /\ \A i \in 1..k : open[i] = mid[i]
    <3>1. /\ Len(open) = Len(mid) + 1 /\ open[Len(mid) + 1] = ActiveSegment
          /\ \A i \in 1..Len(mid) : open[i] = mid[i]
      <4>1. /\ Len(Append(mid, ActiveSegment)) = Len(mid) + 1
            /\ \A i \in 1..Len(mid) : Append(mid, ActiveSegment)[i] = mid[i]
            /\ Append(mid, ActiveSegment)[Len(mid) + 1] = ActiveSegment
        <5> HIDE DEF opened, old, Full, Put, With
        <5> QED  BY ONLY <1>5, AppendProperties
      <4> QED  BY ONLY <2>5, <4>1
    <3> QED  BY <2>4, <3>1
  <2> HIDE DEF With, Put, old, opened
  <2>7. Last(open) = ActiveSegment /\ Len(open) > 0
    BY <2>6 DEF Last
  <2>8. ActiveSegment.bytes + x.content <= RejectAt
          /\ Place(segs, x) = Front(open) \o <<With(ActiveSegment)>>
    <3>1. /\ Last(open).bytes + x.content <= RejectAt
          /\ Place(segs, x) = Front(open) \o <<With(Last(open))>>
      BY <1>8, <2>1, <2>5, <2>7
    <3> QED  BY <2>7, <3>1
  <2>9. PICK new \in SegmentShapes : new = With(ActiveSegment)
    BY <1>5, <1>6
  <2>10. new.state = "active" /\ new.ids = {x.id} /\ new.bytes = x.content
    <3>1. /\ new.state = ActiveSegment.state /\ new.ids = ActiveSegment.ids \cup {x.id}
          /\ new.bytes = ActiveSegment.bytes + x.content
      BY <1>5, <1>6, <2>9
    <3>2. ActiveSegment.state = "active" /\ ActiveSegment.ids = {}
            /\ ActiveSegment.bytes = 0
      BY DEF ActiveSegment
    <3> QED  BY <1>4, <3>1, <3>2
  <2>11. PICK r \in Seq(SegmentShapes) : r = Front(open) \o <<new>>
    BY <2>7, <2>9, LastReplaced
  <2>12. Len(r) = k + 1 /\ r[k + 1] = new /\ \A i \in 1..k : r[i] = open[i]
    <3>1. Len(r) = Len(open) /\ r[Len(open)] = new
            /\ \A i \in 1..(Len(open) - 1) : r[i] = open[i]
      BY <2>7, <2>11, LastReplaced
    <3> QED  BY <2>6, <3>1
  <2>13. x.content <= RejectAt
    BY <1>4, <2>8 DEF ActiveSegment
  <2>14. /\ \A i \in 1..(k - 1) : r[i] = segs[i]
         /\ r[k] = sealed
    <3>1. k \in 1..k /\ \A i \in 1..(k - 1) : i \in 1..k
      BY <1>1
    <3> QED  BY <2>4, <2>6, <2>12, <3>1
  <2>15. Rotated(segs, x, r)
    BY <1>1, <1>2, <2>2, <2>10, <2>12, <2>13, <2>14 DEF Rotated
  <2> QED  BY <2>8, <2>9, <2>11, <2>15
<1> QED  BY <1>9, <1>10

(* A new record goes where it may: what holds c holds c with it.           *)
LEMMA PlaceHolds ==
  ASSUME NEW c \in Contents, NEW d \in Contents, NEW segs, Hold(segs, c),
         NEW x \in [id : AuditEvent, content : Nat \ {0}],
         c[x.id] = NoContent, d[x.id] = x.content,
         \A e \in AuditEvent : e # x.id => d[e] = c[e],
         Place(segs, x) # <<>>
  PROVE  Hold(Place(segs, x), d) /\ Extends(segs, Place(segs, x))
<1> DEFINE k == Len(segs)
<1>1. PICK r \in Seq(SegmentShapes) : r = Place(segs, x) /\ (Joined(segs, x, r)
        \/ Rotated(segs, x, r))
  BY PlaceCases DEF Hold
<1>2. /\ segs \in Seq(SegmentShapes) /\ k \in Nat /\ k > 0
      /\ x.id \in AuditEvent /\ x.content \in Nat /\ x.content # 0
  BY DEF Hold
<1>3. ASSUME NEW i \in 1..k
      PROVE  /\ segs[i] \in SegmentShapes /\ segs[i].ids \in SUBSET AuditEvent
             /\ segs[i].bytes \in Nat /\ x.id \notin segs[i].ids
             /\ \A e \in segs[i].ids : c[e] = d[e]
             /\ IsFiniteSet(segs[i].ids) /\ segs[i].bytes = Size(c, segs[i].ids)
             /\ segs[i].bytes = Size(d, segs[i].ids)
             /\ segs[i].state = "active" <=> i = k
             /\ segs[i].bytes <= RejectAt
             /\ Cardinality(segs[i].ids) > 1 => segs[i].bytes <= RotateAt
  <2>1. segs[i] \in SegmentShapes
    BY <1>2
  <2>2. segs[i].ids \in SUBSET AuditEvent /\ segs[i].bytes \in Nat
    BY <2>1 DEF SegmentShapes
  <2>3. x.id \notin segs[i].ids
    BY <1>2 DEF Hold
  <2>4. \A e \in segs[i].ids : c[e] = d[e]
    BY <2>2, <2>3
  <2>5. /\ IsFiniteSet(segs[i].ids) /\ segs[i].bytes = Size(c, segs[i].ids)
        /\ segs[i].state = "active" <=> i = k
        /\ segs[i].bytes <= RejectAt
        /\ Cardinality(segs[i].ids) > 1 => segs[i].bytes <= RotateAt
    BY DEF Hold
  <2>6. Size(c, segs[i].ids) = Size(d, segs[i].ids)
    BY <2>2, <2>4, <2>5, SizeSame
  <2> QED  BY <2>1, <2>2, <2>3, <2>4, <2>5, <2>6
<1>4. k \in 1..k
  BY <1>2
<1>5. CASE Joined(segs, x, r)
  <2>1. /\ Len(r) = k /\ \A i \in 1..(k - 1) : r[i] = segs[i]
        /\ r[k].state = "active" /\ r[k].ids = segs[k].ids \cup {x.id}
        /\ r[k].bytes = segs[k].bytes + x.content
        /\ segs[k].ids = {} \/ r[k].bytes <= RotateAt
        /\ r[k].bytes <= RejectAt
    BY <1>3, <1>4, <1>5 DEF Joined
  <2>2. r[k].bytes = Size(d, r[k].ids) /\ IsFiniteSet(r[k].ids)
    <3>1. PICK ids \in SUBSET AuditEvent : ids = segs[k].ids
      BY <1>3, <1>4
    <3>2. PICK e \in AuditEvent : e = x.id
      BY <1>2
    <3>3. /\ IsFiniteSet(ids) /\ e \notin ids /\ \A f \in ids : c[f] = d[f]
          /\ segs[k].bytes = Size(c, ids) /\ d[e] = x.content
      BY <1>3, <1>4, <3>1, <3>2
    <3>4. Size(d, ids \cup {e}) = Size(c, ids) + d[e]
      BY <3>3, SizeAdds
    <3>5. IsFiniteSet(ids \cup {e})
      BY <3>3, FS_AddElement
    <3> QED  BY <2>1, <3>1, <3>2, <3>3, <3>4, <3>5
  <2>3. Cardinality(r[k].ids) > 1 => r[k].bytes <= RotateAt
    <3>1. CASE segs[k].ids = {}
      <4>1. r[k].ids = {x.id}
        BY <2>1, <3>1
      <4>2. Cardinality(r[k].ids) = 1
        BY <4>1, FS_Singleton
      <4> QED  BY <4>2
    <3> QED  BY <2>1, <3>1
  <2>4. ASSUME NEW i \in 1..Len(r)
        PROVE  /\ r[i].state = "active" <=> i = Len(r)
               /\ IsFiniteSet(r[i].ids) /\ r[i].bytes = Size(d, r[i].ids)
               /\ r[i].bytes <= RejectAt
               /\ Cardinality(r[i].ids) > 1 => r[i].bytes <= RotateAt
    <3>1. CASE i = k
      BY <2>1, <2>2, <2>3, <3>1
    <3>2. CASE i # k
      <4>1. i \in 1..(k - 1) /\ i \in 1..k
        BY <1>2, <2>1, <3>2
      <4>2. r[i] = segs[i]
        BY <2>1, <4>1
      <4> QED  BY <1>3, <2>1, <3>2, <4>1, <4>2
    <3> QED  BY <3>1, <3>2
  <2>5. ASSUME NEW i \in 1..k, NEW e \in AuditEvent
        PROVE  e \in r[i].ids <=> (e \in segs[i].ids \/ (e = x.id /\ i = k))
    <3>1. CASE i = k
      BY <2>1, <3>1
    <3>2. CASE i # k
      <4>1. i \in 1..(k - 1)
        BY <1>2, <3>2
      <4> QED  BY <2>1, <3>2, <4>1
    <3> QED  BY <3>1, <3>2
  <2>6. \A i, j \in 1..Len(r) : \A e \in AuditEvent : e \in r[i].ids
          /\ e \in r[j].ids => i = j
    BY <1>3, <2>1, <2>5 DEF Hold
  <2>7. \A e \in AuditEvent : d[e] # NoContent <=> \E i \in 1..Len(r) : e \in r[i].ids
    <3>1. ASSUME NEW e \in AuditEvent, e # x.id
          PROVE  d[e] # NoContent <=> \E i \in 1..Len(r) : e \in r[i].ids
      BY <2>1, <2>5, <3>1 DEF Hold
    <3>2. d[x.id] # NoContent /\ \E i \in 1..Len(r) : x.id \in r[i].ids
      BY <1>2, <1>4, <2>1, <2>5 DEF NoContent
    <3> QED  BY <3>1, <3>2
  <2>8. Hold(r, d)
    BY <1>2, <2>1, <2>4, <2>6, <2>7 DEF Hold
  <2>9. Extends(segs, r)
    BY <1>2, <2>1 DEF Extends
  <2> QED  BY <1>1, <2>8, <2>9
<1>6. CASE Rotated(segs, x, r)
  <2>1. /\ Len(r) = k + 1 /\ \A i \in 1..(k - 1) : r[i] = segs[i]
        /\ r[k].state = "sealed" /\ r[k].ids = segs[k].ids /\ r[k].bytes = segs[k].bytes
        /\ r[k + 1].state = "active" /\ r[k + 1].ids = {x.id} /\ r[k + 1].bytes = x.content
        /\ x.content <= RejectAt
    BY <1>6 DEF Rotated
  <2>2. /\ IsFiniteSet({x.id}) /\ Cardinality({x.id}) = 1 /\ x.content = Size(d, {x.id})
    <3>0. PICK none \in SUBSET AuditEvent : none = {}
      OBVIOUS
    <3>1. PICK e \in AuditEvent : e = x.id
      BY <1>2
    <3>2. IsFiniteSet(none) /\ Size(c, none) = 0 /\ none \cup {e} = {e}
      BY <3>0, FS_EmptySet DEF Size
    <3>3. Size(d, none \cup {e}) = Size(c, none) + d[e]
      <4>1. e \notin none /\ \A f \in none : c[f] = d[f]
        BY <3>0
      <4> QED  BY ONLY <3>2, <4>1, SizeAdds
    <3>4. IsFiniteSet({e}) /\ Cardinality({e}) = 1
      BY FS_Singleton
    <3>5. Size(d, {e}) = 0 + d[e] /\ d[e] = x.content
      BY <3>1, <3>2, <3>3
    <3> QED  BY <1>2, <3>1, <3>4, <3>5
  <2>4. ASSUME NEW i \in 1..Len(r)
        PROVE  /\ r[i].state = "active" <=> i = Len(r)
               /\ IsFiniteSet(r[i].ids) /\ r[i].bytes = Size(d, r[i].ids)
               /\ r[i].bytes <= RejectAt
               /\ Cardinality(r[i].ids) > 1 => r[i].bytes <= RotateAt
    <3>0. CASE i = k + 1
      <4>1. r[i].state = "active" /\ r[i].ids = {x.id} /\ r[i].bytes = x.content
              /\ i = Len(r)
        BY <2>1, <3>0
      <4>2. ~(Cardinality(r[i].ids) > 1)
        BY <2>2, <4>1
      <4> QED  BY <2>1, <2>2, <4>1, <4>2
    <3>1. CASE i = k
      BY <1>2, <1>3, <1>4, <2>1, <3>1
    <3>2. CASE i # k /\ i # k + 1
      <4>1. i \in 1..(k - 1) /\ i \in 1..k
        BY <1>2, <2>1, <3>2
      <4>2. r[i] = segs[i]
        BY <2>1, <4>1
      <4> QED  BY <1>3, <2>1, <3>2, <4>1, <4>2
    <3> QED  BY <3>0, <3>1, <3>2
  <2>5. ASSUME NEW i \in 1..(k + 1), NEW e \in AuditEvent
        PROVE  e \in r[i].ids <=> \/ i \in 1..k /\ e \in segs[i].ids
                                  \/ e = x.id /\ i = k + 1
    <3>0. CASE i = k + 1
      BY <1>2, <2>1, <3>0
    <3>1. CASE i = k
      BY <1>2, <2>1, <3>1
    <3>2. CASE i # k /\ i # k + 1
      <4>1. i \in 1..(k - 1) /\ i \in 1..k
        BY <1>2, <3>2
      <4> QED  BY <2>1, <3>2, <4>1
    <3> QED  BY <3>0, <3>1, <3>2
  <2>6. ASSUME NEW i \in 1..Len(r), NEW j \in 1..Len(r), NEW e \in AuditEvent,
               e \in r[i].ids, e \in r[j].ids
        PROVE  i = j
    <3>1. CASE e = x.id
      <4>1. i = k + 1 /\ j = k + 1
        BY <1>3, <2>1, <2>5, <2>6, <3>1
      <4> QED  BY <4>1
    <3>2. CASE e # x.id
      <4>1. i \in 1..k /\ j \in 1..k /\ e \in segs[i].ids /\ e \in segs[j].ids
        BY <2>1, <2>5, <2>6, <3>2
      <4> QED  BY <4>1 DEF Hold
    <3> QED  BY <3>1, <3>2
  <2>7. \A e \in AuditEvent : d[e] # NoContent <=> \E i \in 1..Len(r) : e \in r[i].ids
    <3>1. ASSUME NEW e \in AuditEvent, e # x.id
          PROVE  d[e] # NoContent <=> \E i \in 1..Len(r) : e \in r[i].ids
      <4>1. (\E i \in 1..Len(r) : e \in r[i].ids) <=> \E i \in 1..k : e \in segs[i].ids
        <5>1. \A i \in 1..k : i \in 1..(k + 1)
          BY <1>2
        <5> QED  BY <2>1, <2>5, <3>1, <5>1
      <4> QED  BY <3>1, <4>1 DEF Hold
    <3>2. d[x.id] # NoContent /\ \E i \in 1..Len(r) : x.id \in r[i].ids
      <4>1. k + 1 \in 1..Len(r) /\ x.id \in r[k + 1].ids
        BY <1>2, <2>1
      <4> QED  BY <1>2, <4>1 DEF NoContent
    <3> QED  BY <3>1, <3>2
  <2>8. Hold(r, d)
    <3>1. Len(r) > 0
      BY <1>2, <2>1
    <3> QED  BY <2>4, <2>6, <2>7, <3>1 DEF Hold
  <2>9. Extends(segs, r)
    BY <1>2, <2>1 DEF Extends
  <2> QED  BY <1>1, <2>8, <2>9
<1> QED  BY <1>1, <1>5, <1>6

-----------------------------------------------------------------------------
(* A batch is placed, record by record.                                    *)

Records == [id : AuditEvent, content : Nat \ {0}]

LEMMA PlaceNextType ==
  ASSUME NEW new \in SUBSET Records, NEW n \in Nat, NEW segs \in Seq(SegmentShapes)
  PROVE  PlaceNext(new, n, segs) \in Seq(SegmentShapes)
<1>1. CASE segs = <<>> \/ ~\E x \in new : x.id = n
  BY <1>1 DEF PlaceNext
<1>2. CASE segs # <<>> /\ \E x \in new : x.id = n
  <2>1. PICK x \in Records : x = CHOOSE y \in new : y.id = n
    BY <1>2
  <2>2. PlaceNext(new, n, segs) = Place(segs, x)
    BY <1>2, <2>1 DEF PlaceNext
  <2>3. CASE Place(segs, x) = <<>>
    BY <2>2, <2>3
  <2>4. CASE Place(segs, x) # <<>>
    <3>1. Len(segs) > 0
      BY <1>2
    <3>2. Place(segs, x) \in Seq(SegmentShapes)
      BY <2>4, <3>1, PlaceCases DEF Records
    <3> QED  BY <2>2, <3>2
  <2> QED  BY <2>3, <2>4
<1> QED  BY <1>1, <1>2

LEMMA PlacingDef ==
  ASSUME segments \in Seq(SegmentShapes), NEW new \in SUBSET Records
  PROVE  /\ Placing(new)[0] = segments
         /\ \A n \in Nat : Placing(new)[n + 1] = PlaceNext(new, n, Placing(new)[n])
<1> DEFINE V == Seq(SegmentShapes)
           step == [n \in Nat |-> [v \in V |-> PlaceNext(new, n, v)]]
<1>1. step \in [Nat -> [V -> V]]
  BY PlaceNextType
<1>2. PICK f \in [Nat -> V] : Unfolds(f, segments, step)
  <2> HIDE DEF step, V
  <2>1. segments \in V
    BY DEF V
  <2> QED  BY ONLY <1>1, <2>1, RecursionOverNat
<1>3. f = [id \in Nat |-> IF id = 0 THEN segments ELSE PlaceNext(new, id - 1, f[id - 1])]
  <2>1. ASSUME NEW n \in Nat, n # 0
        PROVE  step[n - 1][f[n - 1]] = PlaceNext(new, n - 1, f[n - 1])
    <3>1. n - 1 \in Nat /\ f[n - 1] \in V
      BY <2>1
    <3> HIDE DEF V
    <3> QED  BY <3>1
  <2> HIDE DEF step
  <2> QED  BY <1>2, <2>1 DEF Unfolds
<1> DEFINE Def(s) == s = [id \in Nat |->
            IF id = 0 THEN segments ELSE PlaceNext(new, id - 1, s[id - 1])]
<1>4. Def(Placing(new))
  <2>1. Placing(new) = CHOOSE s : Def(s)
    BY DEF Placing
  <2>2. \E s : Def(s)
    BY <1>3
  <2> HIDE DEF Def
  <2> QED  BY <2>1, <2>2
<1> DEFINE s == Placing(new)
<1>5. s = [id \in Nat |-> IF id = 0 THEN segments ELSE PlaceNext(new, id - 1, s[id - 1])]
  BY <1>4
<1> HIDE DEF Def, s
<1>6. s[0] = segments
  BY <1>5
<1>7. ASSUME NEW n \in Nat PROVE s[n + 1] = PlaceNext(new, n, s[n])
  <2>1. n + 1 \in Nat /\ n + 1 # 0 /\ (n + 1) - 1 = n
    OBVIOUS
  <2> QED  BY <1>5, <2>1
<1> QED  BY <1>6, <1>7 DEF s

(* The records with the new ones below an ID.                              *)
Upto(new, n) ==
    [e \in AuditEvent |-> IF e < n /\ \E x \in new : x.id = e
                          THEN (CHOOSE x \in new : x.id = e).content ELSE records[e]]

(* The plan holds the records as far as it is made, or has failed.         *)
LEMMA PlacingHolds ==
  ASSUME records \in Contents, Hold(segments, records),
         NEW new \in SUBSET Records, \A x \in new : records[x.id] = NoContent
  PROVE  \A n \in Nat : Placing(new)[n] # <<>> =>
            Hold(Placing(new)[n], Upto(new, n)) /\ Extends(segments, Placing(new)[n])
<1> DEFINE placed == Placing(new)
           Holds(n) == Hold(placed[n], Upto(new, n)) /\ Extends(segments, placed[n])
           G == {n \in Nat : placed[n] # <<>> => Holds(n)}
<1>1. placed[0] = segments /\ \A n \in Nat : placed[n + 1] = PlaceNext(new, n, placed[n])
  BY PlacingDef DEF Hold
<1>2. ASSUME NEW n \in Nat PROVE Upto(new, n) \in Contents
  <2>1. ASSUME NEW e \in AuditEvent, \E x \in new : x.id = e
        PROVE  (CHOOSE x \in new : x.id = e).content \in Nat
    <3>1. PICK x \in Records : x = CHOOSE y \in new : y.id = e
      BY <2>1
    <3> QED  BY <3>1 DEF Records
  <2> QED  BY <2>1 DEF Upto, Contents
<1> HIDE DEF placed
<1>3. 0 \in G
  <2>1. Upto(new, 0) = records
    <3>1. \A e \in AuditEvent : ~(e < 0)
      BY LedgerAssumption
    <3> QED  BY <3>1 DEF Upto, Contents
  <2>2. Extends(segments, segments)
    BY DEF Extends, Hold
  <2> QED  BY <1>1, <2>1, <2>2
<1>4. ASSUME NEW n \in Nat, n \in G PROVE n + 1 \in G
  <2> SUFFICES ASSUME placed[n + 1] # <<>> PROVE Holds(n + 1)
    OBVIOUS
  <2>1. placed[n + 1] = PlaceNext(new, n, placed[n])
    BY <1>1
  <2>2. placed[n] # <<>> /\ Holds(n)
    BY <1>4, <2>1 DEF PlaceNext
  <2>3. PICK c \in Contents : c = Upto(new, n)
    BY <1>2
  <2>4. PICK d \in Contents : d = Upto(new, n + 1)
    BY <1>2
  <2>5. CASE ~\E x \in new : x.id = n
    <3>1. placed[n + 1] = placed[n]
      BY <2>1, <2>5 DEF PlaceNext
    <3>2. Upto(new, n + 1) = Upto(new, n)
      <4>1. ASSUME NEW e \in AuditEvent, \E x \in new : x.id = e PROVE e < n + 1 <=> e < n
        BY <2>5, <4>1, LedgerAssumption
      <4> QED  BY <4>1 DEF Upto
    <3> QED  BY <2>2, <3>1, <3>2
  <2>6. CASE \E x \in new : x.id = n
    <3>1. PICK x \in Records : x = (CHOOSE y \in new : y.id = n) /\ x \in new /\ x.id = n
      BY <2>6
    <3>2. placed[n + 1] = Place(placed[n], x)
      BY <2>1, <2>2, <2>6, <3>1 DEF PlaceNext
    <3>3. n \in AuditEvent /\ c[x.id] = NoContent
      BY <2>3, <3>1 DEF Upto, Records
    <3>4. d[x.id] = x.content
      <4>1. n < n + 1 /\ x.id \in AuditEvent
        BY <3>1, <3>3
      <4> QED  BY <2>4, <2>6, <3>1, <4>1 DEF Upto
    <3>5. ASSUME NEW e \in AuditEvent, e # x.id PROVE d[e] = c[e]
      <4>1. e < n + 1 <=> e < n
        BY <3>1, <3>5, LedgerAssumption
      <4> QED  BY <2>3, <2>4, <4>1 DEF Upto
    <3>6. PICK segs : segs = placed[n]
      OBVIOUS
    <3>7. Hold(segs, c) /\ Place(segs, x) # <<>>
      BY <2>2, <2>3, <3>2, <3>6
    <3>8. Hold(Place(segs, x), d) /\ Extends(segs, Place(segs, x))
      <4> x \in [id : AuditEvent, content : Nat \ {0}]
        BY DEF Records
      <4> QED  BY ONLY <3>3, <3>4, <3>5, <3>7, x \in [id : AuditEvent, content : Nat \ {0}],
                  c \in Contents, d \in Contents, PlaceHolds
    <3>9. PICK next : next = Place(segs, x) /\ next = placed[n + 1]
      BY <3>2, <3>6
    <3>10. Hold(next, Upto(new, n + 1))
      BY <2>4, <3>8, <3>9
    <3>11. Extends(segments, next)
      <4>1. Extends(segments, segs) /\ Extends(segs, next)
        BY <2>2, <3>6, <3>8, <3>9
      <4>2. Len(segments) \in Nat /\ Len(segs) \in Nat /\ Len(next) \in Nat
        BY <3>7, <3>10 DEF Hold
      <4> QED  BY <4>1, <4>2 DEF Extends
    <3> QED  BY <3>9, <3>10, <3>11
  <2> QED  BY <2>5, <2>6
<1> HIDE DEF G
<1>5. Nat \subseteq G
  BY <1>3, <1>4, InductionOverNat
<1> QED  BY <1>5 DEF G, placed

(* A batch is appended to segments that hold the records.                  *)
LEMMA AppendHolds ==
  ASSUME records \in Contents, Hold(segments, records),
         NEW batch \in Batch, batch # {}, IsFiniteSet(batch), append_batch(batch)
  PROVE  Hold(segments', records') /\ Extends(segments, segments')
<1>1. CASE AppendOutcome(batch) # "appended"
  <2>1. segments' = segments /\ records' = records
    BY <1>1 DEF append_batch, ledgerVars
  <2>2. Extends(segments, segments)
    BY DEF Extends, Hold
  <2> QED  BY <2>1, <2>2
<1>2. CASE AppendOutcome(batch) = "appended"
  <2>1. /\ ~Conflicts(batch) /\ Planned(batch) # <<>> /\ segments' = Planned(batch)
        /\ records' = [e \in AuditEvent |->
              IF \E x \in batch : x.id = e
              THEN (CHOOSE x \in batch : x.id = e).content ELSE records[e]]
    BY <1>2 DEF append_batch, AppendOutcome
  <2>2. batch \in SUBSET Records
    BY DEF Batch, Records
  <2>3. PICK new \in SUBSET Records : new = NewRecords(batch)
    BY <2>2 DEF NewRecords
  <2>4. new \subseteq batch /\ \A x \in batch : x \in new <=> records[x.id] = NoContent
    BY <2>3 DEF NewRecords
  <2> DEFINE ids == {x.id : x \in batch}
  <2>5. ids \in SUBSET Nat /\ ids # {} /\ IsFiniteSet(ids)
    <3>1. ids \in SUBSET Nat /\ ids # {}
      BY <2>2, LedgerAssumption DEF Records
    <3> DEFINE f == [x \in batch |-> x.id]
    <3>2. f \in Surjection(batch, ids)
      BY DEF Surjection
    <3> HIDE DEF f
    <3>3. IsFiniteSet(ids)
      BY <3>2, FS_Surjection
    <3> QED  BY <3>1, <3>3
  <2> HIDE DEF ids
  <2>6. PICK m \in Nat : m = Max(ids) /\ \A e \in ids : e <= m
    BY <2>5, MaxOfFinite
  <2>7. PICK n \in Nat : n = m + 1
    OBVIOUS
  <2>8. segments' = Placing(new)[n]
    BY <2>1, <2>3, <2>6, <2>7 DEF Planned, ids
  <2>9. Hold(segments', Upto(new, n)) /\ Extends(segments, segments')
    BY <2>1, <2>4, <2>7, <2>8, PlacingHolds
  <2>10. Upto(new, n) = records'
    <3>1. ASSUME NEW e \in AuditEvent PROVE Upto(new, n)[e] = records'[e]
      <4>1. CASE ~\E x \in batch : x.id = e
        BY <2>1, <2>4, <4>1 DEF Upto
      <4>2. CASE \E x \in batch : x.id = e
        <5>1. PICK x \in batch : x.id = e
          BY <4>2
        <5>2. \A y \in batch : y.id = e => y = x
          BY <5>1 DEF Batch
        <5>3. records'[e] = x.content
          BY <2>1, <5>1, <5>2
        <5>4. CASE x \in new
          <6>1. e < n
            <7>1. e \in ids
              BY <5>1 DEF ids
            <7>2. e \in Nat /\ e <= m
              BY <2>5, <2>6, <7>1
            <7> QED  BY <2>7, <7>2
          <6>2. (CHOOSE y \in new : y.id = e) = x
            BY <2>4, <5>1, <5>2, <5>4
          <6> QED  BY <5>1, <5>3, <5>4, <6>1, <6>2 DEF Upto
        <5>5. CASE x \notin new
          <6>1. ~\E y \in new : y.id = e
            BY <2>4, <5>2, <5>5
          <6>2. records[e] = x.content
            BY <2>1, <2>4, <5>1, <5>5 DEF Conflicts
          <6> QED  BY <5>3, <6>1, <6>2 DEF Upto
        <5> QED  BY <5>4, <5>5
      <4> QED  BY <4>1, <4>2
    <3> QED  BY <2>1, <3>1 DEF Upto
  <2> QED  BY <2>9, <2>10
<1> QED  BY <1>1, <1>2

(* An archived segment stays where it is.                                  *)
LEMMA ArchiveHolds ==
  ASSUME Hold(segments, records), NEW i \in DOMAIN segments, mark_archived(i)
  PROVE  /\ Hold(segments', records')
         /\ \A j \in DOMAIN segments :
               /\ segments'[j].ids = segments[j].ids
                       /\ segments'[j].bytes = segments[j].bytes
               /\ segments'[j].state \in {segments[j].state, "archived"}
<1>1. segments \in Seq(SegmentShapes) /\ Len(segments) > 0
        /\ DOMAIN segments = 1..Len(segments)
  BY DEF Hold
<1>2. PICK old \in SegmentShapes : old = segments[i]
  BY <1>1
<1>3. PICK new : new = [old EXCEPT !.state = "archived"]
  OBVIOUS
<1>4. new \in SegmentShapes /\ new.state = "archived" /\ new.ids = old.ids
        /\ new.bytes = old.bytes
  BY <1>2, <1>3 DEF SegmentShapes
<1>5. old.state = "sealed" /\ segments' = [segments EXCEPT ![i] = new] /\ records' = records
  BY <1>2, <1>3 DEF mark_archived
<1>6. PICK segs : segs = segments'
  OBVIOUS
<1>7. /\ segs \in Seq(SegmentShapes) /\ Len(segs) = Len(segments)
      /\ \A j \in 1..Len(segments) : segs[j] = IF j = i THEN new ELSE segments[j]
  BY <1>1, <1>4, <1>5, <1>6, ExceptSeq
<1>8. ASSUME NEW j \in 1..Len(segments)
      PROVE  /\ segs[j].ids = segments[j].ids /\ segs[j].bytes = segments[j].bytes
             /\ segs[j].state \in {segments[j].state, "archived"}
             /\ segs[j].state = "active" <=> segments[j].state = "active"
  BY <1>2, <1>4, <1>5, <1>7
<1>9. Hold(segs, records)
  <2>1. ASSUME NEW j \in 1..Len(segs)
        PROVE  /\ segs[j].state = "active" <=> j = Len(segs)
               /\ IsFiniteSet(segs[j].ids)
               /\ segs[j].bytes = Size(records, segs[j].ids)
               /\ segs[j].bytes <= RejectAt
               /\ Cardinality(segs[j].ids) > 1 => segs[j].bytes <= RotateAt
    <3>1. j \in 1..Len(segments) /\ segs[j].ids = segments[j].ids
            /\ segs[j].bytes = segments[j].bytes
          /\ (segs[j].state = "active" <=> segments[j].state = "active")
      BY <1>7, <1>8
    <3>2. /\ segments[j].state = "active" <=> j = Len(segments)
          /\ IsFiniteSet(segments[j].ids)
          /\ segments[j].bytes = Size(records, segments[j].ids)
          /\ segments[j].bytes <= RejectAt
          /\ Cardinality(segments[j].ids) > 1 => segments[j].bytes <= RotateAt
      BY <3>1 DEF Hold
    <3> QED  BY <1>7, <3>1, <3>2
  <2>2. \A j, k \in 1..Len(segs) : \A e \in AuditEvent :
           e \in segs[j].ids /\ e \in segs[k].ids => j = k
    BY <1>7, <1>8 DEF Hold
  <2>3. \A e \in AuditEvent : records[e] # NoContent <=> \E j \in 1..Len(segs) : e \in segs[j].ids
    BY <1>7, <1>8 DEF Hold
  <2> QED  BY <1>1, <1>7, <2>1, <2>2, <2>3 DEF Hold
<1> QED  BY <1>1, <1>5, <1>6, <1>8, <1>9

LEMMA HoldSound ==
  ASSUME records \in Contents, Hold(segments, records)
  PROVE  SegmentsSound
<1>1. DOMAIN segments = 1..Len(segments)
  BY DEF Hold
<1>2. ASSUME NEW e \in AuditEvent
      PROVE  Cardinality({i \in DOMAIN segments : e \in segments[i].ids})
               = IF records[e] = NoContent THEN 0 ELSE 1
  <2> DEFINE at == {i \in DOMAIN segments : e \in segments[i].ids}
  <2>1. CASE records[e] = NoContent
    <3>1. at = {}
      BY <1>1, <2>1 DEF Hold
    <3> HIDE DEF at
    <3> QED  BY <2>1, <3>1, FS_EmptySet DEF at
  <2>2. CASE records[e] # NoContent
    <3>1. PICK i \in DOMAIN segments : e \in segments[i].ids
      BY <1>1, <2>2 DEF Hold
    <3>2. at = {i}
      <4>1. \A j \in 1..Len(segments) : e \in segments[j].ids => j = i
        BY <1>1, <3>1 DEF Hold
      <4> QED  BY <1>1, <3>1, <4>1
    <3>3. Cardinality({i}) = 1
      BY FS_Singleton
    <3> QED  BY <2>2, <3>2, <3>3
  <2> QED  BY <2>1, <2>2
<1>3. SegmentsPartition
  BY <1>1, <1>2 DEF Hold, SegmentsPartition
<1>4. SegmentsBounded
  BY <1>1 DEF Hold, SegmentsBounded
<1> QED  BY <1>3, <1>4 DEF SegmentsSound

LEMMA HoldInit == LedgerInit => Hold(segments, records)
<1> SUFFICES ASSUME LedgerInit PROVE Hold(segments, records)
  OBVIOUS
<1>1. ActiveSegment \in SegmentShapes /\ ActiveSegment.ids = {} /\ ActiveSegment.bytes = 0
      /\ ActiveSegment.state = "active"
  BY DEF ActiveSegment, SegmentShapes
<1>2. /\ segments \in Seq(SegmentShapes) /\ Len(segments) = 1 /\ segments[1] = ActiveSegment
  BY <1>1 DEF LedgerInit
<1>3. IsFiniteSet({}) /\ Cardinality({}) = 0 /\ Size(records, {}) = 0 /\ 0 <= RejectAt
  BY FS_EmptySet, LedgerAssumption DEF Size
<1>4. \A e \in AuditEvent : records[e] = NoContent
  BY DEF LedgerInit
<1>5. \A i \in 1..Len(segments) : i = 1 /\ segments[i] = ActiveSegment
  BY <1>2
<1>6. ASSUME NEW i \in 1..Len(segments)
      PROVE  /\ segments[i].state = "active" <=> i = Len(segments)
             /\ IsFiniteSet(segments[i].ids)
             /\ segments[i].bytes = Size(records, segments[i].ids)
             /\ segments[i].bytes <= RejectAt
             /\ Cardinality(segments[i].ids) > 1 => segments[i].bytes <= RotateAt
  <2>1. segments[i].ids = {} /\ segments[i].bytes = 0 /\ segments[i].state = "active"
          /\ i = Len(segments)
    BY <1>1, <1>2, <1>5
  <2> QED  BY <1>3, <2>1
<1>7. \A i \in 1..Len(segments) : segments[i].ids = {}
  BY <1>1, <1>5
<1> QED  BY <1>2, <1>4, <1>5, <1>6, <1>7 DEF Hold

-----------------------------------------------------------------------------
(* The ledger under the relay.                                             *)

LedgerOK ==
    /\ Hold(segments, records)
    /\ \A p \in RelayPass : IsFiniteSet(relay[p].batch)

LEMMA LedgerOKInit == RelayInit => LedgerOK
<1> SUFFICES ASSUME RelayInit PROVE LedgerOK
  OBVIOUS
<1>1. Hold(segments, records)
  BY HoldInit DEF RelayInit
<1>2. \A p \in RelayPass : relay[p].batch = {}
  BY DEF RelayInit, Resting
<1> QED  BY <1>1, <1>2, FS_EmptySet DEF LedgerOK

(* A pass goes on with its batch, with none, or with what it has claimed.  *)
LEMMA BatchesFinite ==
  ASSUME RelayTyped, LedgerOK, NEW p \in RelayPass, Step(p) \/ Crash(p)
  PROVE  \A q \in RelayPass : IsFiniteSet(relay'[q].batch)
<1>1. ASSUME NEW q \in RelayPass PROVE relay[q] \in Relays /\ IsFiniteSet(relay[q].batch)
  BY DEF RelayTyped, LedgerOK
<1>2. IsFiniteSet(Resting.batch)
  BY FS_EmptySet DEF Resting
<1>3. \E r : relay' = [relay EXCEPT ![p] = r] /\ IsFiniteSet(r.batch)
  <2>1. CASE recover_expired_claims(p)
    <3>1. PICK r : r = [relay[p] EXCEPT !.pc = "claim"]
      OBVIOUS
    <3>2. r.batch = relay[p].batch /\ relay' = [relay EXCEPT ![p] = r]
      BY <1>1, <2>1, <3>1 DEF recover_expired_claims, Relays
    <3> QED  BY <1>1, <3>2
  <2>2. CASE claim_pending(p)
    <3>1. CASE Selected = {}
      BY <1>2, <2>2, <3>1 DEF claim_pending
    <3>2. CASE Selected # {}
      <4>1. PICK b : b = {[id |-> e, content |-> journal[e].content] : e \in Selected}
        OBVIOUS
      <4>2. PICK r : r = [pc |-> "append", outcome |-> "none", batch |-> b]
        OBVIOUS
      <4>3. relay' = [relay EXCEPT ![p] = r] /\ r.batch = b
        BY <2>2, <3>2, <4>1, <4>2 DEF claim_pending
      <4>4. IsFiniteSet(b)
        <5> DEFINE f == [e \in Selected |-> [id |-> e, content |-> journal[e].content]]
        <5>1. f \in Surjection(Selected, b)
          BY <4>1 DEF Surjection
        <5> HIDE DEF f
        <5> QED  BY <5>1, SelectedBounded, FS_Surjection
      <4> QED  BY <4>3, <4>4
    <3> QED  BY <3>1, <3>2
  <2>3. CASE AppendBatch(p)
    <3>1. PICK o : relay' = [relay EXCEPT ![p] = [@ EXCEPT !.pc = "mark", !.outcome = o]]
      BY <2>3 DEF AppendBatch
    <3>2. PICK r : r = [relay[p] EXCEPT !.pc = "mark", !.outcome = o]
      OBVIOUS
    <3>3. r.batch = relay[p].batch /\ relay' = [relay EXCEPT ![p] = r]
      BY <1>1, <3>1, <3>2 DEF Relays, RelayTyped
    <3> QED  BY <1>1, <3>3
  <2>4. CASE Mark(p) \/ Crash(p)
    BY <1>2, <2>4 DEF Mark, Crash
  <2> QED  BY <2>1, <2>2, <2>3, <2>4 DEF Step
<1>4. PICK r : relay' = [relay EXCEPT ![p] = r] /\ IsFiniteSet(r.batch)
  BY <1>3
<1>5. ASSUME NEW q \in RelayPass PROVE IsFiniteSet(relay'[q].batch)
  <2>1. CASE q = p
    BY <1>4, <2>1 DEF RelayTyped
  <2>2. CASE q # p
    <3>1. relay'[q] = relay[q]
      BY <1>4, <2>2 DEF RelayTyped
    <3> QED  BY <1>1, <3>1
  <2> QED  BY <2>1, <2>2
<1> QED  BY <1>5

(* The ledger keeps its segments through a step of the relay, and what it  *)
(* has sealed as it is.                                                    *)
Frozen ==
    \A i \in DOMAIN segments :
       segments[i].state # "active" =>
          /\ segments'[i].ids = segments[i].ids /\ segments'[i].bytes = segments[i].bytes
          /\ segments'[i].state \in {segments[i].state, "archived"}

LEMMA LedgerOKStep ==
  ASSUME RelayTyped, LedgerOK, RelayNext
  PROVE  LedgerOK' /\ Frozen
<1>0. records \in Contents /\ Hold(segments, records)
  BY DEF RelayTyped, LedgerOK, Contents
<1>1. \A q \in RelayPass : IsFiniteSet(relay'[q].batch)
  <2>1. CASE UNCHANGED relay
    BY <2>1 DEF LedgerOK
  <2>2. CASE \E p \in RelayPass : Step(p) \/ Crash(p)
    BY <2>2, BatchesFinite
  <2>3. ASSUME NEW w \in Written, EnqueueRecord(w) PROVE UNCHANGED relay
    BY <2>3 DEF EnqueueRecord
  <2>4. ASSUME NEW e \in AuditEvent, ClaimExpires(e) \/ RetryComes(e) PROVE UNCHANGED relay
    BY <2>4 DEF ClaimExpires, RetryComes
  <2>5. CASE Archive
    BY <2>1, <2>5 DEF Archive
  <2> QED  BY <2>1, <2>2, <2>3, <2>4, <2>5 DEF RelayNext
<1>2. CASE UNCHANGED ledgerVars
  <2>1. segments' = segments /\ records' = records
    BY <1>2 DEF ledgerVars
  <2> QED  BY <1>0, <1>1, <2>1 DEF LedgerOK, Frozen
<1>3. ASSUME NEW p \in RelayPass, AppendBatch(p), append_batch(relay[p].batch)
      PROVE  LedgerOK' /\ Frozen
  <2>1. PICK batch \in Batch : batch = relay[p].batch /\ batch # {} /\ IsFiniteSet(batch)
    BY <1>3 DEF RelayTyped, RelayPassOK, Relays, LedgerOK, AppendBatch
  <2>2. Hold(segments', records') /\ Extends(segments, segments')
    BY <1>0, <1>3, <2>1, AppendHolds
  <2>3. Frozen
    <3> SUFFICES ASSUME NEW i \in DOMAIN segments, segments[i].state # "active"
                 PROVE  segments'[i] = segments[i]
      BY DEF Frozen
    <3>1. i \in 1..(Len(segments) - 1)
      BY <1>0 DEF Hold
    <3> QED  BY <2>2, <3>1 DEF Extends
  <2> QED  BY <1>1, <2>2, <2>3 DEF LedgerOK
<1>4. CASE Archive
  <2>1. PICK i \in DOMAIN segments : mark_archived(i)
    BY <1>4 DEF Archive
  <2>2. /\ Hold(segments', records')
        /\ \A j \in DOMAIN segments :
              /\ segments'[j].ids = segments[j].ids
                      /\ segments'[j].bytes = segments[j].bytes
              /\ segments'[j].state \in {segments[j].state, "archived"}
    BY <1>0, <2>1, ArchiveHolds
  <2> QED  BY <1>1, <2>2 DEF LedgerOK, Frozen
<1>5. ASSUME NEW w \in Written, EnqueueRecord(w) PROVE UNCHANGED ledgerVars
  BY <1>5 DEF EnqueueRecord, ledgerVars
<1>6. ASSUME NEW e \in AuditEvent, ClaimExpires(e)
        \/ RetryComes(e) PROVE UNCHANGED ledgerVars
  BY <1>6 DEF ClaimExpires, RetryComes, ledgerVars
<1>7. ASSUME NEW p \in RelayPass, Step(p) \/ Crash(p)
      PROVE  UNCHANGED ledgerVars \/ (AppendBatch(p) /\ append_batch(relay[p].batch))
  <2>1. CASE AppendBatch(p)
    BY <2>1 DEF AppendBatch, append_batch
  <2>2. CASE ~AppendBatch(p)
    BY <1>7, <2>2 DEF Step, recover_expired_claims, claim_pending, Mark, Crash, ledgerVars
  <2> QED  BY <2>1, <2>2
<1> QED  BY <1>2, <1>3, <1>4, <1>5, <1>6, <1>7 DEF RelayNext

LEMMA LedgerOKStutter == LedgerOK /\ UNCHANGED vars => LedgerOK'
BY DEF LedgerOK, vars

-----------------------------------------------------------------------------
(* The theorems.                                                           *)

(* Journal, passes and outbox keep their shapes: a claim has a claimant, a *)
(* relay pass holds at most RelayLimit entries, every intent is committed  *)
(* once.                                                                   *)
THEOREM BackgroundTypeCorrect == BackgroundSpec => []BackgroundTypeOK
<1>1. BackgroundInit => RelayTyped /\ EventsInv
  BY RelayTypedInit, EventsInvInit DEF BackgroundInit
<1>2. RelayTyped /\ EventsInv /\ [BackgroundNext]_backgroundVars => (RelayTyped
        /\ EventsInv)'
  <2> SUFFICES ASSUME RelayTyped, EventsInv, [BackgroundNext]_backgroundVars
               PROVE  (RelayTyped /\ EventsInv)'
    OBVIOUS
  <2>1. CASE RelayNext /\ UNCHANGED activityVars
    BY <2>1, RelayTypedStep, EventsStutter
  <2>2. CASE ActivityNext /\ UNCHANGED vars
    BY <2>2, RelayStutter, EventsStep DEF vars
  <2>3. CASE UNCHANGED backgroundVars
    BY <2>3, RelayStutter, EventsStutter DEF backgroundVars, vars
  <2> QED  BY <2>1, <2>2, <2>3 DEF BackgroundNext
<1>3. RelayTyped /\ EventsInv => BackgroundTypeOK
  BY RelayTypedImplies, EventsImplied DEF BackgroundTypeOK
<1> QED  BY <1>1, <1>2, <1>3, PTL DEF BackgroundSpec

(* Records and intents are marked only after the transport took the event, *)
(* and an event is delivered twice only if a claim on it lapsed or a       *)
(* publish of it failed: passes of either kind, a request among them, never*)
(* duplicate one on their own.                                             *)
THEOREM EventsAlwaysSound == BackgroundSpec => []EventsSound
<1>1. BackgroundInit => EventsInv
  BY EventsInvInit DEF BackgroundInit
<1>2. EventsInv /\ [BackgroundNext]_backgroundVars => EventsInv'
  BY EventsStep, EventsStutter DEF BackgroundNext, backgroundVars
<1>3. EventsInv => EventsSound
  BY EventsImplied
<1> QED  BY <1>1, <1>2, <1>3, PTL DEF BackgroundSpec

(* mark_published and mark_failed settle a record for the pass that made   *)
(* the current claim and for no other, if no two passes go by one name.    *)
THEOREM OnlyTheClaimantSettles ==
  ASSUME OwnDispatcherName PROVE BackgroundSpec => SettledByClaimant
<1>1. BackgroundInit => EventsInv
  BY EventsInvInit DEF BackgroundInit
<1>2. EventsInv /\ [BackgroundNext]_backgroundVars => EventsInv'
  BY EventsStep, EventsStutter DEF BackgroundNext, backgroundVars
<1> DEFINE Settled ==
      \A e \in Event :
          (outbox[e].status = "claimed" /\ outbox'[e].status \in {"published", "failed"})
              => \E d \in Dispatcher : claimant[e] = d /\ pass[d].event = e
<1>3. EventsInv /\ [BackgroundNext]_backgroundVars => [Settled]_outboxVars
  <2> SUFFICES ASSUME EventsInv, [BackgroundNext]_backgroundVars, outboxVars' # outboxVars
               PROVE  Settled
    OBVIOUS
  <2>1. ActivityNext
    BY DEF BackgroundNext, backgroundVars, activityVars
  <2> QED  BY <2>1, StepSettles, OwnDispatcherName
<1> HIDE DEF Settled
<1>4. BackgroundSpec => [][Settled]_outboxVars
  BY <1>1, <1>2, <1>3, PTL DEF BackgroundSpec
<1> QED  BY <1>4 DEF SettledByClaimant, Settled

(* "Relay deletes only after idempotent ledger commit": no record that was *)
(* accepted is ever missing from both the journal and the ledger, through  *)
(* slow and lost passes, lost answers and identities used again, if no two *)
(* relay processes go by one worker_id; and append_batch places every one  *)
(* of the ledger in one segment, the segments within their thresholds.     *)
THEOREM AuditAlwaysSound ==
  ASSUME OwnWorker PROVE BackgroundSpec => []AuditSound
<1>1. BackgroundInit => RelayTyped /\ RelayInv /\ LedgerOK
  BY RelayTypedInit, RelayInvInit, LedgerOKInit DEF BackgroundInit
<1>2. RelayTyped /\ RelayInv /\ LedgerOK /\ [BackgroundNext]_backgroundVars
         => (RelayTyped /\ RelayInv /\ LedgerOK)'
  <2> SUFFICES ASSUME RelayTyped, RelayInv, LedgerOK, [BackgroundNext]_backgroundVars
               PROVE  (RelayTyped /\ RelayInv /\ LedgerOK)'
    OBVIOUS
  <2>1. CASE RelayNext
    BY <2>1, RelayTypedStep, RelayLosesNothing, LedgerOKStep, OwnWorker
  <2>2. CASE UNCHANGED vars
    BY <2>2, RelayStutter, LedgerOKStutter DEF vars
  <2> QED  BY <2>1, <2>2 DEF BackgroundNext, backgroundVars
<1>3. RelayTyped /\ RelayInv /\ LedgerOK => AuditSound
  BY HoldSound DEF RelayTyped, RelayInv, LedgerOK, Contents, AuditSound
<1> QED  BY <1>1, <1>2, <1>3, PTL DEF BackgroundSpec

(* append_batch puts nothing into a sealed or archived segment, and        *)
(* mark_archived leaves one archived: what an archive receipt describes    *)
(* stays as it is, whatever the batches and the thresholds.                *)
THEOREM SealedStaysFrozen == BackgroundSpec => SealedIsFrozen
<1>1. BackgroundInit => RelayTyped /\ LedgerOK
  BY RelayTypedInit, LedgerOKInit DEF BackgroundInit
<1>2. RelayTyped /\ LedgerOK /\ [BackgroundNext]_backgroundVars
         => (RelayTyped /\ LedgerOK)' /\ [Frozen]_ledgerVars
  <2> SUFFICES ASSUME RelayTyped, LedgerOK, [BackgroundNext]_backgroundVars
               PROVE  (RelayTyped /\ LedgerOK)' /\ [Frozen]_ledgerVars
    OBVIOUS
  <2>1. CASE RelayNext
    BY <2>1, RelayTypedStep, LedgerOKStep
  <2>2. CASE UNCHANGED vars
    BY <2>2, RelayStutter, LedgerOKStutter DEF vars, ledgerVars
  <2> QED  BY <2>1, <2>2 DEF BackgroundNext, backgroundVars
<1>3. BackgroundSpec => [][Frozen]_ledgerVars
  BY <1>1, <1>2, PTL DEF BackgroundSpec
<1> QED  BY <1>3 DEF SealedIsFrozen, Frozen
===============================================================================
