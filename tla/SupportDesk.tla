---------------------------- MODULE SupportDesk ----------------------------
(***************************************************************************)
(* The protocols of the ticketing plugin around its store: the aggregate,  *)
(* the records people decide on, the inbound mail - with a connector that  *)
(* posts messages, or from the queue of the mail worker - the delivery of  *)
(* a reply, and the provisioning of the workspace whose projects the desk  *)
(* serves.  Each works on records of its own; a behaviour is that of one.  *)
(***************************************************************************)
EXTENDS TicketAggregate, DeskReviews, MailWake, TicketMail, WorkspaceProvisioning

VARIABLE protocol

deskVars ==
    <<aggregateVars, reviewVars, wakeVars, mailVars, provisionVars, protocol>>

DeskInit ==
    /\ AggregateInit /\ ReviewInit /\ WakeInit /\ MailInit
    /\ ProvisionInit
    /\ protocol \in {"aggregate", "reviews", "intake", "wake", "mail", "workspace"}
    /\ protocol # "aggregate" => ~sqlite
    /\ protocol # "wake" => ~fifo

DeskNext ==
    /\ \/ protocol = "aggregate" /\ AggregateNext
             /\ UNCHANGED <<reviewVars, wakeVars, mailVars, provisionVars>>
       \/ protocol = "reviews" /\ ReviewNext
             /\ UNCHANGED <<aggregateVars, wakeVars, mailVars, provisionVars>>
       \/ protocol = "intake" /\ IntakeNext
             /\ UNCHANGED <<aggregateVars, reviewVars, workerVars, mailVars, provisionVars>>
       \/ protocol = "wake" /\ WakeNext
             /\ UNCHANGED <<aggregateVars, reviewVars, mailVars, provisionVars>>
       \/ protocol = "mail" /\ MailNext
             /\ UNCHANGED <<aggregateVars, reviewVars, wakeVars, provisionVars>>
       \/ protocol = "workspace" /\ ProvisionNext
             /\ UNCHANGED <<aggregateVars, reviewVars, wakeVars, mailVars>>
    /\ UNCHANGED protocol

DeskSpec == DeskInit /\ [][DeskNext]_deskVars

(* The shapes of the aggregate, the records, the mails, the delivery and   *)
(* the registry.                                                           *)
DeskTypeOK ==
    /\ AggregateTypeOK /\ ReviewTypeOK /\ IntakeTypeOK /\ WakeTypeOK /\ MailTypeOK
    /\ ProvisionTypeOK

(* Inbound mail from the notification to the conversation: no notification *)
(* is forgotten before its mails have jobs, and no job loses or repeats a  *)
(* mail or lets a stranger write.                                          *)
InboundSound == IntakeSound /\ WakeSound
=============================================================================
