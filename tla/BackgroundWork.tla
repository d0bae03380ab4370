--------------------------- MODULE BackgroundWork ---------------------------
(***************************************************************************)
(* The passes that run beside the requests of an application and bring     *)
(* what they have committed to its readers: the audit relay, and the       *)
(* activity and dispatch passes over the event outbox.  They share         *)
(* nothing; a behaviour is that of one of the two.                         *)
(***************************************************************************)
EXTENDS AuditRelay, ActivityDispatch

VARIABLE machine

backgroundVars == <<vars, activityVars, machine>>

BackgroundInit ==
    RelayInit /\ ActivityInit /\ machine \in {"relay", "outbox"}

BackgroundNext ==
    \/ machine = "relay" /\ RelayNext /\ UNCHANGED <<activityVars, machine>>
    \/ machine = "outbox" /\ ActivityNext /\ UNCHANGED <<vars, machine>>

OfRelay(Action) == machine = "relay" /\ Action /\ UNCHANGED <<activityVars, machine>>
OfOutbox(Action) == machine = "outbox" /\ Action /\ UNCHANGED <<vars, machine>>

(* Passes of every kind are run again and again, and time goes on.         *)
BackgroundFairness ==
    /\ \A p \in RelayPass : WF_backgroundVars(OfRelay(Step(p)))
    /\ \A e \in AuditEvent :
          WF_backgroundVars(OfRelay(ClaimExpires(e))) /\ WF_backgroundVars(OfRelay(RetryComes(e)))
    /\ \A d \in Dispatcher : WF_backgroundVars(OfOutbox(
          IF d \in ActivityPass THEN ActivityStep(d) ELSE DispatchStep(d) /\ KeepIntents))
    /\ \A e \in Event :
          WF_backgroundVars(OfOutbox((AbandonedClaimLapses(e) \/ DelayEnds(e)) /\ KeepIntents))

BackgroundSpec == BackgroundInit /\ [][BackgroundNext]_backgroundVars /\ BackgroundFairness

-----------------------------------------------------------------------------
(* Properties.                                                             *)

(* Journal, segments, outbox and passes keep their shapes.                 *)
BackgroundTypeOK == RelayTypeOK /\ ActivityTypeOK

(* The relay loses no record on its way, and the ledger places all of them *)
(* within its thresholds.                                                  *)
AuditSound == NothingLost /\ SegmentsSound

(* Events and intents are marked after they were delivered, and delivered  *)
(* twice only when something went wrong.                                   *)
EventsSound == MarksFollowDelivery /\ DuplicateHasCause

(* Every record settles, every event is delivered, and every intent that   *)
(* is not crowded out.                                                     *)
BackgroundSettles == EveryRecordSettles /\ DeliveredUnlessCrowdedOut
=============================================================================
