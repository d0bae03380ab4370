----------------------------- MODULE TicketMail -----------------------------
(***************************************************************************)
(* The delivery of one public reply by mail                                *)
(* (deliver_public_reply_by_mail): the send intent committed before the    *)
(* provider is called, the attempt that fences its outcome, the evidence   *)
(* appended to it, and the operator's reconciliation.  The job is          *)
(* redelivered and retried: its runs overlap, crash and meet a failing     *)
(* store.                                                                  *)
(***************************************************************************)
EXTENDS Naturals, Sequences, SequencesExt, FiniteSets

CONSTANTS
    Run,            \* executions of the job; each makes at most one attempt
    OperatorWaits,  \* TRUE: reconciliations and runs exclude each other
    MaxCrashes,     \* bound: runs that die
    MaxFailures,    \* bound: store calls that fail
    MaxVerdicts     \* bound: reconciliations

ASSUME MailAssumption ==
    /\ "none" \notin Run
    /\ OperatorWaits \in BOOLEAN
    /\ MaxCrashes \in Nat /\ MaxFailures \in Nat /\ MaxVerdicts \in Nat

VARIABLES
    intent,     \* SendIntent of the message
    evidence,   \* the kinds of its OutboundDeliveryEvidence, in order
    run,        \* the executions
    operator,   \* reconcile_outbound_delivery
    sent,       \* the runs whose mail the provider accepted
    spent       \* crashes, failures and verdicts so far

mailVars == <<intent, evidence, run, operator, sent, spent>>

SendIntentState ==
    {"pending_send", "sending", "sent", "recovery_required", "failed_no_send"}
OutboundEvidenceKind == {"accepted", "ambiguous", "permanent_failure"}

NoAttempt == "none"
NoIntent == [state |-> "absent", attempt |-> NoAttempt]
Asleep == [pc |-> "idle", accepted |-> FALSE]

MailInit ==
    /\ intent = NoIntent
    /\ evidence = <<>>
    /\ run = [r \in Run |-> [pc |-> "idle", attempt |-> NoAttempt, outcome |-> "none"]]
    /\ operator = Asleep
    /\ sent = {}
    /\ spent = [crash |-> 0, failure |-> 0, verdict |-> 0]

Answers == {"ok", "retryable", "permanent", "reconcile"}
InFlight(r) == run[r].pc \notin Answers \cup {"idle", "dead"}

Goto(r, pc) == run' = [run EXCEPT ![r].pc = pc]

-----------------------------------------------------------------------------
(* The store's operations on the intent.                                   *)

claim_send_attempt(r, expected) ==
    IF intent.state = expected
    THEN intent' = [state |-> "sending", attempt |-> r]
    ELSE UNCHANGED intent

(* The fence of resolve_send_intent_fenced and complete_send_attempt; that *)
(* of append_outbound_evidence_fenced asks for the attempt only.           *)
Fenced(r) == intent.state = "sending" /\ intent.attempt = r

resolve_send_intent_fenced(r, to) ==
    intent' = IF Fenced(r) THEN [state |-> to, attempt |-> NoAttempt] ELSE intent

(* The operator's transition asks for nothing and leaves the attempt.      *)
resolve_send_intent(to) ==
    intent' = IF intent = NoIntent THEN intent ELSE [intent EXCEPT !.state = to]

-----------------------------------------------------------------------------
(* The job.                                                                *)

(* An ambiguous row is open until an authoritative row follows it.         *)
Unresolved ==
    \E i \in DOMAIN evidence :
       /\ evidence[i] = "ambiguous"
       /\ \A j \in i + 1 .. Len(evidence) : evidence[j] = "ambiguous"

(* A run begins by reading the evidence; a store that fails is a retryable *)
(* answer here and at every call below (StoreFails).                       *)
Begin(r) ==
    /\ run[r].pc = "idle"
    /\ OperatorWaits => operator = Asleep
    /\ Goto(r, CASE Contains(evidence, "accepted") -> "ok"
                 [] ~Contains(evidence, "accepted") /\ Unresolved -> "reconcile"
                 [] OTHER -> "claim")
    /\ UNCHANGED <<intent, evidence, operator, sent, spent>>

(* Mutant: an intent in flight is taken as one to resend.                  *)
ClaimResumes(r) ==
    /\ run[r].pc = "claim"
    /\ IF intent = NoIntent
       THEN intent' = [state |-> "sending", attempt |-> NoAttempt] /\ Goto(r, "initial")
       ELSE /\ UNCHANGED intent
            /\ Goto(r, CASE intent.state = "sent" -> "ok"
                         [] intent.state = "pending_send" -> "resend"
                         [] intent.state = "failed_no_send" -> "permanent"
                         [] OTHER -> "initial")
    /\ UNCHANGED <<evidence, operator, sent, spent>>

(* claim_send_intent inserts the intent, or returns the one there is.      *)
Claim(r) ==
    /\ run[r].pc = "claim"
    /\ IF intent = NoIntent
       THEN intent' = [state |-> "sending", attempt |-> NoAttempt] /\ Goto(r, "initial")
       ELSE /\ UNCHANGED intent
            /\ Goto(r, CASE intent.state = "sent" -> "ok"
                         [] intent.state = "pending_send" -> "resend"
                         [] intent.state = "failed_no_send" -> "permanent"
                         [] OTHER -> "reconcile")
    /\ UNCHANGED <<evidence, operator, sent, spent>>

(* The claim of the attempt: a resend that loses it stops, an initial send *)
(* that loses it calls the provider without one.                           *)
ClaimAttempt(r) ==
    LET expected == IF run[r].pc = "initial" THEN "sending" ELSE "pending_send"
        won == intent.state = expected
    IN
    /\ run[r].pc \in {"initial", "resend"}
    /\ claim_send_attempt(r, expected)
    /\ run' = [run EXCEPT ![r] = [@ EXCEPT !.pc = IF ~won /\ run[r].pc = "resend"
                                                     THEN "reconcile" ELSE "send",
                                           !.attempt = IF won THEN r ELSE NoAttempt]]
    /\ UNCHANGED <<evidence, operator, sent, spent>>

(* mail.send: the provider takes the mail, reports no side effect, refuses *)
(* it for good, or leaves the caller not knowing whether it took it.       *)
Send(r) ==
    /\ run[r].pc = "send"
    /\ \E outcome \in {"accepted", "safe_after_backoff", "ambiguous", "never"} :
          /\ run' = [run EXCEPT ![r] = [@ EXCEPT !.pc = "report", !.outcome = outcome]]
          /\ \/ outcome \in {"accepted", "ambiguous"} /\ sent' = sent \cup {r}
             \/ outcome # "accepted" /\ UNCHANGED sent
    /\ UNCHANGED <<intent, evidence, operator, spent>>

(* complete_send_attempt: state, evidence and threading in a transaction.  *)
Complete(r) ==
    /\ run[r].pc = "report" /\ run[r].outcome = "accepted"
    /\ IF Fenced(r)
       THEN /\ resolve_send_intent_fenced(r, "sent")
            /\ evidence' = Append(evidence, "accepted")
       ELSE UNCHANGED <<intent, evidence>>
    /\ Goto(r, CASE run[r].attempt = NoAttempt -> "retryable"
                 [] Fenced(r) -> "ok"
                 [] OTHER -> "reconcile")
    /\ UNCHANGED <<operator, sent, spent>>

BackOff(r) ==
    /\ run[r].pc = "report" /\ run[r].outcome = "safe_after_backoff"
    /\ resolve_send_intent_fenced(r, "pending_send")
    /\ Goto(r, "retryable")
    /\ UNCHANGED <<evidence, operator, sent, spent>>

(* An unknown or a refused outcome: the evidence first, under the attempt, *)
(* then the intent; without the attempt nothing is written.                *)
AppendEvidence(r) ==
    LET ambiguous == run[r].outcome = "ambiguous"
        owned == run[r].attempt = r /\ intent.attempt = r
    IN
    /\ run[r].pc = "report" /\ run[r].outcome \in {"ambiguous", "never"}
    /\ evidence' = IF ~owned THEN evidence
                   ELSE Append(evidence, IF ambiguous THEN "ambiguous" ELSE "permanent_failure")
    /\ Goto(r, CASE owned -> "resolve"
                 [] ~owned /\ ambiguous -> "retryable"
                 [] OTHER -> "permanent")
    /\ UNCHANGED <<intent, operator, sent, spent>>

(* Mutant: an ambiguous outcome is filed as a failure.                     *)
ResolveAmbiguousAsFailed(r) ==
    LET ambiguous == run[r].outcome = "ambiguous" IN
    /\ run[r].pc = "resolve"
    /\ resolve_send_intent_fenced(r, "failed_no_send")
    /\ Goto(r, IF ambiguous THEN "retryable" ELSE "permanent")
    /\ UNCHANGED <<evidence, operator, sent, spent>>

Resolve(r) ==
    LET ambiguous == run[r].outcome = "ambiguous" IN
    /\ run[r].pc = "resolve"
    /\ resolve_send_intent_fenced(r, IF ambiguous THEN "recovery_required" ELSE "failed_no_send")
    /\ Goto(r, IF ambiguous THEN "retryable" ELSE "permanent")
    /\ UNCHANGED <<evidence, operator, sent, spent>>

(* A store call that fails: the provider's answer, if there was one, is    *)
(* lost and the job retries.                                               *)
StoreFails(r) ==
    /\ run[r].pc \in {"claim", "initial", "resend", "report", "resolve"}
    /\ spent.failure < MaxFailures
    /\ spent' = [spent EXCEPT !.failure = @ + 1]
    /\ Goto(r, "retryable")
    /\ UNCHANGED <<intent, evidence, operator, sent>>

Crash(r) ==
    /\ InFlight(r)
    /\ spent.crash < MaxCrashes
    /\ spent' = [spent EXCEPT !.crash = @ + 1]
    /\ Goto(r, "dead")
    /\ UNCHANGED <<intent, evidence, operator, sent>>

-----------------------------------------------------------------------------
(* reconcile_outbound_delivery, called after a run asked for it by an      *)
(* operator who has looked the mail up at the provider.                    *)

Verify ==
    /\ operator = Asleep
    /\ spent.verdict < MaxVerdicts
    /\ \E r \in Run : run[r].pc = "reconcile"
    /\ OperatorWaits => \A r \in Run : ~InFlight(r)
    /\ operator' = [pc |-> "resolve", accepted |-> sent # {}]
    /\ spent' = [spent EXCEPT !.verdict = @ + 1]
    /\ UNCHANGED <<intent, evidence, run, sent>>

(* The outcome of the transition is ignored.                               *)
ReconcileIntent ==
    /\ operator.pc = "resolve"
    /\ \/ resolve_send_intent(IF operator.accepted THEN "sent" ELSE "pending_send")
             /\ UNCHANGED spent
       \/ spent.failure < MaxFailures /\ UNCHANGED intent
             /\ spent' = [spent EXCEPT !.failure = @ + 1]
    /\ operator' = [operator EXCEPT !.pc = "append"]
    /\ UNCHANGED <<evidence, run, sent>>

ReconcileEvidence ==
    /\ operator.pc = "append"
    /\ \/ evidence' = Append(evidence, IF operator.accepted THEN "accepted" ELSE "permanent_failure")
             /\ UNCHANGED spent
       \/ spent.failure < MaxFailures /\ UNCHANGED evidence
             /\ spent' = [spent EXCEPT !.failure = @ + 1]
    /\ operator' = Asleep
    /\ UNCHANGED <<intent, run, sent>>

MailNext ==
    \/ \E r \in Run :
          \/ Begin(r) \/ Claim(r) \/ ClaimAttempt(r) \/ Send(r)
          \/ Complete(r) \/ BackOff(r) \/ AppendEvidence(r) \/ Resolve(r)
          \/ StoreFails(r) \/ Crash(r)
    \/ Verify \/ ReconcileIntent \/ ReconcileEvidence

MailSpec == MailInit /\ [][MailNext]_mailVars

-----------------------------------------------------------------------------
(* The intent, the evidence and the runs are well formed, and an attempt   *)
(* in the intent is that of a run which has claimed it (claim_send_attempt *)
(* is its only writer).                                                    *)
MailTypeOK ==
    /\ intent = NoIntent \/ intent \in [state : SendIntentState, attempt : Run \cup {NoAttempt}]
    /\ evidence \in Seq(OutboundEvidenceKind)
    /\ operator \in [pc : {"idle", "resolve", "append"}, accepted : BOOLEAN]
    /\ sent \subseteq Run
    /\ \A r \in Run :
          /\ run[r].pc \in Answers \cup {"idle", "dead", "claim", "initial", "resend",
                                         "send", "report", "resolve"}
          /\ intent.attempt = r => run[r].attempt = r

(* "Ambiguous transport outcomes recover without duplicate sends"          *)
(* (SendIntent): whatever crashes, fails or is redelivered, and whatever   *)
(* is reconciled, the requester gets one mail.                             *)
NoDuplicateSend == Cardinality(sent) <= 1

(* A run that reports success, or an intent that says sent, stands on a    *)
(* mail the provider did accept.                                           *)
OkIsAccepted ==
    (intent.state = "sent" \/ \E r \in Run : run[r].pc = "ok") => sent # {}

(* FailedNoSend is "reconciled permanent failure; the intent is terminal": *)
(* it is never the end of a mail that did go out.                          *)
FailedWasNotSent == intent.state = "failed_no_send" => sent = {}

(* What the records say of the delivery is true of the provider: success   *)
(* means a mail it accepted, failure that none went out.                   *)
OutcomeIsTrue == OkIsAccepted /\ FailedWasNotSent
=============================================================================
