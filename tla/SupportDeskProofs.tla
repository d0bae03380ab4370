--------------------------- MODULE SupportDeskProofs ---------------------------
(***************************************************************************)
(* Proofs about the protocols of the ticketing plugin, for any number of   *)
(* callers, runs and instances.                                            *)
(*                                                                         *)
(* Mail: one run at a time has the right to send (InitialAlone,            *)
(* ProviderFenced), and what the intent, the evidence, a run and the       *)
(* operator say of the mail is true of it (...TellsSent).  Inbound mail: a *)
(* mail is in the conversation its identity names and no other             *)
(* (IdentitiesMatch), a job tells what has become of it (JobsTell), the    *)
(* mails an invocation is past have jobs (PastIsQueued) and, on a FIFO     *)
(* queue, are past in order.  The ticket:                                  *)
(* the copy an operation works on is behind the ticket or equals it        *)
(* (CopiesBehind), so the revision the commit compares tells whether       *)
(* anything was missed.  The workspace: the binding is made by one pass    *)
(* (BoundOnce), the tables a pass has read only grow (SeenIsThere), the    *)
(* check of the history holds until the commit (CheckHolds), and a profile *)
(* is known by one digest (OneDigest).                                     *)
(***************************************************************************)
EXTENDS SupportDesk, FiniteSetTheorems, TLAPS

-----------------------------------------------------------------------------
(* The delivery of a reply by mail.                                        *)

RunStates ==
    {"ok", "retryable", "permanent", "reconcile", "idle", "dead", "claim", "initial",
     "resend", "send", "report", "resolve"}
AtProvider == {"send", "report", "resolve"}
SendOutcome == {"none", "accepted", "safe_after_backoff", "ambiguous", "never"}

Runs == [pc : RunStates, attempt : Run \cup {NoAttempt}, outcome : SendOutcome]
Intents == {NoIntent} \cup [state : SendIntentState, attempt : Run \cup {NoAttempt}]

(* A run claims its attempt once, and until then the intent does not have  *)
(* it.  None of this needs anything of the operator.                       *)
MailTyped ==
    /\ intent \in Intents
    /\ evidence \in Seq(OutboundEvidenceKind)
    /\ run \in [Run -> Runs]
    /\ operator \in [pc : {"idle", "resolve", "append"}, accepted : BOOLEAN]
    /\ sent \subseteq Run
    /\ \A r \in Run : intent.attempt = r =>
          run[r].attempt = r /\ run[r].pc \notin {"idle", "claim", "initial", "resend"}

(* The right to send: the run that inserted the intent has it, then the    *)
(* run whose attempt is in it, which alone is at the provider.             *)
InitialAlone ==
    /\ \A r \in Run : run[r].pc = "initial" =>
          intent = [state |-> "sending", attempt |-> NoAttempt]
    /\ \A r, s \in Run : run[r].pc = "initial" /\ run[s].pc = "initial" => r = s

ProviderFenced ==
    \A r \in Run :
       /\ run[r].pc \in AtProvider => intent = [state |-> "sending", attempt |-> r]
       /\ run[r].pc = "resend" => intent # NoIntent

(* What the intent says of the mail, and the evidence.                     *)
IntentTellsSent ==
    /\ intent.state \in {"absent", "pending_send", "failed_no_send"} => sent = {}
    /\ intent = [state |-> "sending", attempt |-> NoAttempt] => sent = {}
    /\ intent.state = "sent" => sent # {}

EvidenceTellsSent ==
    \A i \in DOMAIN evidence : evidence[i] = "accepted" => sent # {}

RunTellsSent ==
    \A r \in Run :
       /\ run[r].pc = "ok" => sent # {}
       /\ run[r].pc = "send" => sent = {}
       /\ run[r].pc = "resolve" => run[r].outcome # "accepted"
       /\ run[r].pc \in {"report", "resolve"} =>
             CASE run[r].outcome = "accepted" -> sent = {r}
               [] run[r].outcome = "ambiguous" -> sent \subseteq {r}
               [] OTHER -> sent = {}

(* While the operator is at it no run is, and what it has seen stays true. *)
OperatorTellsSent ==
    operator # Asleep =>
       /\ operator.pc # "idle"
       /\ \A r \in Run : ~InFlight(r)
       /\ operator.accepted <=> sent # {}

AtMostOne == \A r, s \in sent : r = s

MailFacts ==
    /\ InitialAlone /\ ProviderFenced /\ IntentTellsSent /\ EvidenceTellsSent
    /\ RunTellsSent /\ OperatorTellsSent /\ AtMostOne

MailInv == MailTyped /\ MailFacts

(* What a run becomes, field by field, is a run.                           *)
LEMMA AttemptWritten ==
    ASSUME NEW f \in [Run -> Runs], NEW r \in Run, NEW pc \in RunStates,
           NEW a \in Run \cup {NoAttempt}
    PROVE  [f EXCEPT ![r] = [@ EXCEPT !.pc = pc, !.attempt = a]] \in [Run -> Runs]
BY DEF Runs

LEMMA OutcomeWritten ==
    ASSUME NEW f \in [Run -> Runs], NEW r \in Run, NEW pc \in RunStates,
           NEW o \in SendOutcome
    PROVE  [f EXCEPT ![r] = [@ EXCEPT !.pc = pc, !.outcome = o]] \in [Run -> Runs]
BY DEF Runs

(* An appended row is the only new one.                                    *)
LEMMA EvidenceAppended ==
    ASSUME evidence \in Seq(OutboundEvidenceKind), NEW k \in OutboundEvidenceKind
    PROVE  /\ Append(evidence, k) \in Seq(OutboundEvidenceKind)
           /\ \A i \in DOMAIN Append(evidence, k) :
                 \/ Append(evidence, k)[i] = k
                 \/ i \in DOMAIN evidence /\ Append(evidence, k)[i] = evidence[i]
OBVIOUS

USE DEF RunStates, AtProvider, SendOutcome, Runs, Intents, MailTyped, InitialAlone,
       ProviderFenced, IntentTellsSent, EvidenceTellsSent, RunTellsSent, OperatorTellsSent,
       AtMostOne, MailFacts, MailInv, SendIntentState, OutboundEvidenceKind, NoAttempt, NoIntent,
       Asleep, InFlight, Answers

LEMMA ClaimAttemptKeepsShape ==
    ASSUME MailAssumption, MailTyped, NEW r \in Run, ClaimAttempt(r)
    PROVE  MailTyped'
<1> DEFINE expected == IF run[r].pc = "initial" THEN "sending" ELSE "pending_send"
           pc == IF intent.state # expected /\ run[r].pc = "resend"
                 THEN "reconcile" ELSE "send"
           a == IF intent.state = expected THEN r ELSE NoAttempt
<1>1. run' = [run EXCEPT ![r] = [@ EXCEPT !.pc = pc, !.attempt = a]]
  BY DEF ClaimAttempt
<1>2. pc \in RunStates /\ a \in Run \cup {NoAttempt}
  OBVIOUS
<1>3. run' \in [Run -> Runs]
  <2>1. run \in [Run -> Runs]
    OBVIOUS
  <2> HIDE DEF pc, a, Runs, RunStates, SendOutcome, NoAttempt
  <2> QED
    BY ONLY <1>1, <1>2, <2>1, r \in Run, AttemptWritten
<1>4. intent' \in Intents /\ \A s \in Run : intent'.attempt = s =>
         run'[s].attempt = s /\ run'[s].pc \notin {"idle", "claim", "initial", "resend"}
  <2>1. intent.attempt # r
    BY DEF ClaimAttempt
  <2>2. run'[r].pc = pc /\ run'[r].attempt = a /\ \A s \in Run \ {r} : run'[s] = run[s]
    <3>1. run \in [Run -> [pc : RunStates, attempt : Run \cup {NoAttempt}, outcome : SendOutcome]]
      OBVIOUS
    <3> HIDE DEF pc, a, Runs, RunStates, SendOutcome, NoAttempt
    <3> QED
      BY ONLY <1>1, <3>1, r \in Run
  <2>3. CASE intent.state = expected
    <3>1. intent' = [state |-> "sending", attempt |-> r] /\ a = r /\ pc = "send"
      BY <2>3 DEF ClaimAttempt, claim_send_attempt
    <3> QED
      BY <2>2, <3>1, MailAssumption
  <2>4. CASE intent.state # expected
    <3>1. intent' = intent
      BY <2>4 DEF ClaimAttempt, claim_send_attempt
    <3> QED
      BY <2>1, <2>2, <3>1
  <2> QED
    BY <2>3, <2>4
<1> QED
  BY <1>3, <1>4 DEF ClaimAttempt

LEMMA SendKeepsShape ==
    ASSUME MailAssumption, MailTyped, NEW r \in Run, Send(r)
    PROVE  MailTyped'
<1> PICK outcome \in {"accepted", "safe_after_backoff", "ambiguous", "never"} :
       /\ run' = [run EXCEPT ![r] = [@ EXCEPT !.pc = "report", !.outcome = outcome]]
       /\ sent' = sent \cup {r} \/ sent' = sent
  BY DEF Send
<1>1. outcome \in SendOutcome /\ "report" \in RunStates
  OBVIOUS
<1>2. run' \in [Run -> Runs]
  <2> HIDE DEF Runs, RunStates, SendOutcome
  <2> QED
    BY <1>1, OutcomeWritten
<1>3. \A s \in Run : run'[s].attempt = run[s].attempt /\ (s # r => run'[s].pc = run[s].pc)
  OBVIOUS
<1>4. run'[r].pc = "report"
  OBVIOUS
<1> QED
  BY <1>2, <1>3, <1>4 DEF Send

LEMMA CompleteKeepsShape ==
    ASSUME MailAssumption, MailTyped, NEW r \in Run, Complete(r)
    PROVE  MailTyped'
<1>1. evidence' \in Seq(OutboundEvidenceKind)
  <2>1. evidence' \in {evidence, Append(evidence, "accepted")}
    BY DEF Complete
  <2>2. evidence \in Seq(OutboundEvidenceKind) /\ "accepted" \in OutboundEvidenceKind
    OBVIOUS
  <2> QED
    BY ONLY <2>1, <2>2, EvidenceAppended
<1>2. run' \in [Run -> Runs]
  BY DEF Complete, Goto
<1>3. intent' \in Intents /\ \A s \in Run : intent'.attempt = s =>
         run'[s].attempt = s /\ run'[s].pc \notin {"idle", "claim", "initial", "resend"}
  BY DEF Complete, Goto, Fenced, resolve_send_intent_fenced, MailAssumption
<1> QED
  BY <1>1, <1>2, <1>3 DEF Complete

LEMMA AppendEvidenceKeepsShape ==
    ASSUME MailAssumption, MailTyped, NEW r \in Run, AppendEvidence(r)
    PROVE  MailTyped'
<1>1. evidence' \in Seq(OutboundEvidenceKind)
  BY DEF AppendEvidence
<1>2. run' \in [Run -> Runs]
  BY DEF AppendEvidence, Goto
<1>3. \A s \in Run : intent'.attempt = s =>
         run'[s].attempt = s /\ run'[s].pc \notin {"idle", "claim", "initial", "resend"}
  BY DEF AppendEvidence, Goto, MailAssumption
<1> QED
  BY <1>1, <1>2, <1>3 DEF AppendEvidence

LEMMA ReconcileEvidenceKeepsShape ==
    ASSUME MailAssumption, MailTyped, ReconcileEvidence
    PROVE  MailTyped'
<1> DEFINE k == IF operator.accepted THEN "accepted" ELSE "permanent_failure"
<1>0. evidence' \in {evidence, Append(evidence, k)} /\ k \in OutboundEvidenceKind
  BY DEF ReconcileEvidence
<1>1. evidence' \in Seq(OutboundEvidenceKind)
  <2> HIDE DEF k, OutboundEvidenceKind
  <2> QED
    BY <1>0, EvidenceAppended
<1> QED
  BY <1>1 DEF ReconcileEvidence

LEMMA ShapeKept ==
    ASSUME MailAssumption, MailTyped, [MailNext]_mailVars
    PROVE  MailTyped'
<1>1. ASSUME NEW r \in Run, Begin(r)
      PROVE  MailTyped'
  BY <1>1 DEF Begin, Goto, Unresolved, Contains
<1>2. ASSUME NEW r \in Run, Claim(r)
      PROVE  MailTyped'
  BY <1>2 DEF Claim, Goto, MailAssumption
<1>3. ASSUME NEW r \in Run, BackOff(r) \/ Resolve(r)
      PROVE  MailTyped'
  BY <1>3 DEF BackOff, Resolve, Goto, resolve_send_intent_fenced, Fenced, MailAssumption
<1>4. ASSUME NEW r \in Run, StoreFails(r) \/ Crash(r)
      PROVE  MailTyped'
  BY <1>4 DEF StoreFails, Crash, Goto, MailAssumption
<1>5. CASE Verify
  BY <1>5 DEF Verify
<1>6. CASE ReconcileIntent
  BY <1>6 DEF ReconcileIntent, resolve_send_intent
<1>7. CASE UNCHANGED mailVars
  BY <1>7 DEF mailVars
<1> QED
  BY <1>1, <1>2, <1>3, <1>4, <1>5, <1>6, <1>7, ClaimAttemptKeepsShape, SendKeepsShape,
     CompleteKeepsShape, AppendEvidenceKeepsShape, ReconcileEvidenceKeepsShape DEF MailNext

LEMMA ShapeInitially ==
    ASSUME MailAssumption, MailInit
    PROVE  MailTyped
BY DEF MailInit, MailAssumption

LEMMA ShapeImplies ==
    ASSUME MailTyped
    PROVE  MailTypeOK
BY DEF MailTypeOK

LEMMA BeginKeepsMail ==
    ASSUME MailAssumption, OperatorWaits, MailInv, NEW r \in Run, Begin(r)
    PROVE  MailFacts'
<1>1. InitialAlone'
  BY DEF Begin, Goto, Unresolved, Contains, MailAssumption
<1>2. ProviderFenced'
  BY DEF Begin, Goto, Unresolved, Contains, MailAssumption
<1>3. IntentTellsSent'
  BY DEF Begin, Goto, Unresolved, Contains, MailAssumption
<1>4. EvidenceTellsSent'
  BY DEF Begin, Goto, Unresolved, Contains, MailAssumption
<1>5. RunTellsSent'
  BY DEF Begin, Goto, Unresolved, Contains, MailAssumption
<1>6. OperatorTellsSent'
  BY DEF Begin, Goto, Unresolved, Contains, MailAssumption
<1>7. AtMostOne'
  BY DEF Begin, Goto, Unresolved, Contains, MailAssumption
<1> QED
  BY <1>1, <1>2, <1>3, <1>4, <1>5, <1>6, <1>7 DEF MailFacts

LEMMA ClaimKeepsMail ==
    ASSUME MailAssumption, OperatorWaits, MailInv, NEW r \in Run, Claim(r)
    PROVE  MailFacts'
<1>1. InitialAlone'
  <2>1. \A s \in Run : s # r => run'[s] = run[s]
    BY DEF Claim, Goto
  <2>2. CASE intent = NoIntent
    <3>1. \A s \in Run : run[s].pc # "initial"
      BY <2>2
    <3>2. intent' = [state |-> "sending", attempt |-> NoAttempt]
      BY <2>2 DEF Claim
    <3> QED
      BY ONLY <2>1, <3>1, <3>2 DEF InitialAlone
  <2>3. CASE intent # NoIntent
    <3>1. intent' = intent /\ run'[r].pc # "initial"
      BY <2>3 DEF Claim, Goto
    <3>2. InitialAlone
      OBVIOUS
    <3> QED
      BY ONLY <2>1, <3>1, <3>2 DEF InitialAlone
  <2> QED
    BY <2>2, <2>3
<1>2. ProviderFenced'
  BY DEF Claim, Goto, MailAssumption
<1>3. IntentTellsSent'
  BY DEF Claim, Goto, MailAssumption
<1>4. EvidenceTellsSent'
  BY DEF Claim, Goto, MailAssumption
<1>5. RunTellsSent'
  BY DEF Claim, Goto, MailAssumption
<1>6. OperatorTellsSent'
  BY DEF Claim, Goto, MailAssumption
<1>7. AtMostOne'
  BY DEF Claim, Goto, MailAssumption
<1> QED
  BY <1>1, <1>2, <1>3, <1>4, <1>5, <1>6, <1>7 DEF MailFacts

LEMMA ClaimAttemptKeepsMail ==
    ASSUME MailAssumption, OperatorWaits, MailInv, NEW r \in Run, ClaimAttempt(r)
    PROVE  MailFacts'
<1>1. InitialAlone'
  BY DEF ClaimAttempt, claim_send_attempt, MailAssumption
<1>2. ProviderFenced'
  BY DEF ClaimAttempt, claim_send_attempt, MailAssumption
<1>3. IntentTellsSent'
  BY DEF ClaimAttempt, claim_send_attempt, MailAssumption
<1>4. EvidenceTellsSent'
  BY DEF ClaimAttempt, claim_send_attempt, MailAssumption
<1>5. RunTellsSent'
  BY DEF ClaimAttempt, claim_send_attempt, MailAssumption
<1>6. OperatorTellsSent'
  BY DEF ClaimAttempt, claim_send_attempt, MailAssumption
<1>7. AtMostOne'
  BY DEF ClaimAttempt, claim_send_attempt, MailAssumption
<1> QED
  BY <1>1, <1>2, <1>3, <1>4, <1>5, <1>6, <1>7 DEF MailFacts

LEMMA SendKeepsMail ==
    ASSUME MailAssumption, OperatorWaits, MailInv, NEW r \in Run, Send(r)
    PROVE  MailFacts'
<1>1. InitialAlone'
  BY DEF Send, MailAssumption
<1>2. ProviderFenced'
  BY DEF Send, MailAssumption
<1>3. IntentTellsSent'
  BY DEF Send, MailAssumption
<1>4. EvidenceTellsSent'
  BY DEF Send, MailAssumption
<1>5. RunTellsSent'
  BY DEF Send, MailAssumption
<1>6. OperatorTellsSent'
  BY DEF Send, MailAssumption
<1>7. AtMostOne'
  BY DEF Send, MailAssumption
<1> QED
  BY <1>1, <1>2, <1>3, <1>4, <1>5, <1>6, <1>7 DEF MailFacts

LEMMA CompleteKeepsMail ==
    ASSUME MailAssumption, OperatorWaits, MailInv, NEW r \in Run, Complete(r)
    PROVE  MailFacts'
<1>1. InitialAlone'
  BY DEF Complete, Goto, Fenced, resolve_send_intent_fenced, MailAssumption
<1>2. ProviderFenced'
  BY DEF Complete, Goto, Fenced, resolve_send_intent_fenced, MailAssumption
<1>3. IntentTellsSent'
  <2>1. sent' = {r}
    BY DEF Complete
  <2>2. intent' = [state |-> "sent", attempt |-> NoAttempt]
    BY DEF Complete, Fenced, resolve_send_intent_fenced
  <2> QED
    BY <2>1, <2>2
<1>4. EvidenceTellsSent'
  <2>1. sent = {r} /\ sent' = sent
    BY DEF Complete
  <2> QED
    BY ONLY <2>1 DEF EvidenceTellsSent
<1>5. RunTellsSent'
  <2>1. sent = {r} /\ sent' = sent
    BY DEF Complete
  <2>2. run'[r].pc \notin AtProvider
    BY DEF Complete, Goto
  <2>3. \A s \in Run : s # r => run'[s] = run[s]
    BY DEF Complete, Goto
  <2>4. \A s \in Run : s # r => run[s].pc \notin AtProvider
    <3>1. intent.attempt = r
      BY DEF Complete
    <3>2. \A s \in Run : run[s].pc \in AtProvider => intent.attempt = s
      OBVIOUS
    <3> QED
      BY <3>1, <3>2
  <2> QED
    BY <2>1, <2>2, <2>3, <2>4
<1>6. OperatorTellsSent'
  BY DEF Complete, Goto, Fenced, resolve_send_intent_fenced, MailAssumption
<1>7. AtMostOne'
  BY DEF Complete, Goto, Fenced, resolve_send_intent_fenced, MailAssumption
<1> QED
  BY <1>1, <1>2, <1>3, <1>4, <1>5, <1>6, <1>7 DEF MailFacts

LEMMA BackOffKeepsMail ==
    ASSUME MailAssumption, OperatorWaits, MailInv, NEW r \in Run, BackOff(r)
    PROVE  MailFacts'
<1>1. InitialAlone'
  BY DEF BackOff, Goto, Fenced, resolve_send_intent_fenced, MailAssumption
<1>2. ProviderFenced'
  BY DEF BackOff, Goto, Fenced, resolve_send_intent_fenced, MailAssumption
<1>3. IntentTellsSent'
  BY DEF BackOff, Goto, Fenced, resolve_send_intent_fenced, MailAssumption
<1>4. EvidenceTellsSent'
  BY DEF BackOff, Goto, Fenced, resolve_send_intent_fenced, MailAssumption
<1>5. RunTellsSent'
  BY DEF BackOff, Goto, Fenced, resolve_send_intent_fenced, MailAssumption
<1>6. OperatorTellsSent'
  BY DEF BackOff, Goto, Fenced, resolve_send_intent_fenced, MailAssumption
<1>7. AtMostOne'
  BY DEF BackOff, Goto, Fenced, resolve_send_intent_fenced, MailAssumption
<1> QED
  BY <1>1, <1>2, <1>3, <1>4, <1>5, <1>6, <1>7 DEF MailFacts

LEMMA AppendEvidenceKeepsMail ==
    ASSUME MailAssumption, OperatorWaits, MailInv, NEW r \in Run, AppendEvidence(r)
    PROVE  MailFacts'
<1>1. InitialAlone'
  BY DEF AppendEvidence, Goto, MailAssumption
<1>2. ProviderFenced'
  BY DEF AppendEvidence, Goto, MailAssumption
<1>3. IntentTellsSent'
  BY DEF AppendEvidence, Goto, MailAssumption
<1>4. EvidenceTellsSent'
  BY DEF AppendEvidence, Goto, MailAssumption
<1>5. RunTellsSent'
  BY DEF AppendEvidence, Goto, MailAssumption
<1>6. OperatorTellsSent'
  BY DEF AppendEvidence, Goto, MailAssumption
<1>7. AtMostOne'
  BY DEF AppendEvidence, Goto, MailAssumption
<1> QED
  BY <1>1, <1>2, <1>3, <1>4, <1>5, <1>6, <1>7 DEF MailFacts

LEMMA ResolveKeepsMail ==
    ASSUME MailAssumption, OperatorWaits, MailInv, NEW r \in Run, Resolve(r)
    PROVE  MailFacts'
<1>1. InitialAlone'
  BY DEF Resolve, Goto, Fenced, resolve_send_intent_fenced, MailAssumption
<1>2. ProviderFenced'
  <2>1. intent = [state |-> "sending", attempt |-> r] /\ intent.attempt = r
    BY DEF Resolve
  <2>2. run'[r].pc \notin AtProvider \cup {"resend"}
    BY DEF Resolve, Goto
  <2>3. intent' # NoIntent
    BY <2>1 DEF Resolve, resolve_send_intent_fenced, Fenced
  <2>4. \A s \in Run : s # r => run'[s] = run[s]
    BY DEF Resolve, Goto
  <2>5. \A s \in Run : run[s].pc \in AtProvider => intent.attempt = s
    OBVIOUS
  <2> QED
    BY ONLY <2>1, <2>2, <2>3, <2>4, <2>5 DEF ProviderFenced
<1>3. IntentTellsSent'
  <2>2. CASE run[r].outcome = "ambiguous"
    <3>1. intent' = [state |-> "recovery_required", attempt |-> NoAttempt]
      BY <2>2 DEF Resolve, resolve_send_intent_fenced, Fenced
    <3> QED
      BY <3>1
  <2>3. CASE run[r].outcome # "ambiguous"
    <3>1. intent' = [state |-> "failed_no_send", attempt |-> NoAttempt]
      BY <2>3 DEF Resolve, resolve_send_intent_fenced, Fenced
    <3>2. sent' = {}
      BY <2>3 DEF Resolve
    <3> QED
      BY <3>1, <3>2
  <2> QED
    BY <2>2, <2>3
<1>4. EvidenceTellsSent'
  BY DEF Resolve, Goto, Fenced, resolve_send_intent_fenced, MailAssumption
<1>5. RunTellsSent'
  BY DEF Resolve, Goto, Fenced, resolve_send_intent_fenced, MailAssumption
<1>6. OperatorTellsSent'
  BY DEF Resolve, Goto, Fenced, resolve_send_intent_fenced, MailAssumption
<1>7. AtMostOne'
  BY DEF Resolve, Goto, Fenced, resolve_send_intent_fenced, MailAssumption
<1> QED
  BY <1>1, <1>2, <1>3, <1>4, <1>5, <1>6, <1>7 DEF MailFacts

LEMMA StoreFailsKeepsMail ==
    ASSUME MailAssumption, OperatorWaits, MailInv, NEW r \in Run, StoreFails(r)
    PROVE  MailFacts'
<1>1. InitialAlone'
  BY DEF StoreFails, Goto, MailAssumption
<1>2. ProviderFenced'
  BY DEF StoreFails, Goto, MailAssumption
<1>3. IntentTellsSent'
  BY DEF StoreFails, Goto, MailAssumption
<1>4. EvidenceTellsSent'
  BY DEF StoreFails, Goto, MailAssumption
<1>5. RunTellsSent'
  BY DEF StoreFails, Goto, MailAssumption
<1>6. OperatorTellsSent'
  BY DEF StoreFails, Goto, MailAssumption
<1>7. AtMostOne'
  BY DEF StoreFails, Goto, MailAssumption
<1> QED
  BY <1>1, <1>2, <1>3, <1>4, <1>5, <1>6, <1>7 DEF MailFacts

LEMMA CrashKeepsMail ==
    ASSUME MailAssumption, OperatorWaits, MailInv, NEW r \in Run, Crash(r)
    PROVE  MailFacts'
<1>1. InitialAlone'
  BY DEF Crash, Goto, MailAssumption
<1>2. ProviderFenced'
  BY DEF Crash, Goto, MailAssumption
<1>3. IntentTellsSent'
  BY DEF Crash, Goto, MailAssumption
<1>4. EvidenceTellsSent'
  BY DEF Crash, Goto, MailAssumption
<1>5. RunTellsSent'
  BY DEF Crash, Goto, MailAssumption
<1>6. OperatorTellsSent'
  BY DEF Crash, Goto, MailAssumption
<1>7. AtMostOne'
  BY DEF Crash, Goto, MailAssumption
<1> QED
  BY <1>1, <1>2, <1>3, <1>4, <1>5, <1>6, <1>7 DEF MailFacts

LEMMA VerifyKeepsMail ==
    ASSUME MailAssumption, OperatorWaits, MailInv, Verify
    PROVE  MailFacts'
<1>1. InitialAlone'
  BY DEF Verify, MailAssumption
<1>2. ProviderFenced'
  BY DEF Verify, MailAssumption
<1>3. IntentTellsSent'
  BY DEF Verify, MailAssumption
<1>4. EvidenceTellsSent'
  BY DEF Verify, MailAssumption
<1>5. RunTellsSent'
  BY DEF Verify, MailAssumption
<1>6. OperatorTellsSent'
  BY DEF Verify, MailAssumption
<1>7. AtMostOne'
  BY DEF Verify, MailAssumption
<1> QED
  BY <1>1, <1>2, <1>3, <1>4, <1>5, <1>6, <1>7 DEF MailFacts

LEMMA ReconcileIntentKeepsMail ==
    ASSUME MailAssumption, OperatorWaits, MailInv, ReconcileIntent
    PROVE  MailFacts'
<1>1. InitialAlone'
  <2>1. \A r \in Run : run[r].pc # "initial"
    BY DEF ReconcileIntent
  <2>2. run' = run
    BY DEF ReconcileIntent
  <2> QED
    BY ONLY <2>1, <2>2 DEF InitialAlone
<1>2. ProviderFenced'
  <2>1. \A r \in Run : run[r].pc \notin AtProvider \cup {"resend"}
    BY DEF ReconcileIntent
  <2>2. run' = run
    BY DEF ReconcileIntent
  <2> QED
    BY ONLY <2>1, <2>2 DEF ProviderFenced
<1>3. IntentTellsSent'
  BY DEF ReconcileIntent, resolve_send_intent, MailAssumption
<1>4. EvidenceTellsSent'
  BY DEF ReconcileIntent, resolve_send_intent, MailAssumption
<1>5. RunTellsSent'
  BY DEF ReconcileIntent, resolve_send_intent, MailAssumption
<1>6. OperatorTellsSent'
  BY DEF ReconcileIntent, resolve_send_intent, MailAssumption
<1>7. AtMostOne'
  BY DEF ReconcileIntent, resolve_send_intent, MailAssumption
<1> QED
  BY <1>1, <1>2, <1>3, <1>4, <1>5, <1>6, <1>7 DEF MailFacts

LEMMA ReconcileEvidenceKeepsMail ==
    ASSUME MailAssumption, OperatorWaits, MailInv, ReconcileEvidence
    PROVE  MailFacts'
<1> DEFINE k == IF operator.accepted THEN "accepted" ELSE "permanent_failure"
<1>0. evidence' \in {evidence, Append(evidence, k)} /\ k \in OutboundEvidenceKind
  BY DEF ReconcileEvidence
<1>1. InitialAlone'
  BY DEF ReconcileEvidence, MailAssumption
<1>2. ProviderFenced'
  BY DEF ReconcileEvidence, MailAssumption
<1>3. IntentTellsSent'
  BY DEF ReconcileEvidence, MailAssumption
<1>4. EvidenceTellsSent'
  <2>1. sent' = sent /\ (k = "accepted" => sent # {})
    BY DEF ReconcileEvidence
  <2>2. evidence \in Seq(OutboundEvidenceKind) /\ EvidenceTellsSent
    OBVIOUS
  <2> HIDE DEF k, OutboundEvidenceKind
  <2> QED
    BY ONLY <1>0, <2>1, <2>2, EvidenceAppended DEF EvidenceTellsSent
<1>5. RunTellsSent'
  BY DEF ReconcileEvidence, MailAssumption
<1>6. OperatorTellsSent'
  BY DEF ReconcileEvidence, MailAssumption
<1>7. AtMostOne'
  BY DEF ReconcileEvidence, MailAssumption
<1> QED
  BY <1>1, <1>2, <1>3, <1>4, <1>5, <1>6, <1>7 DEF MailFacts

(* One mail, and what the records say of it, when runs and the operator    *)
(* exclude each other.                                                     *)
LEMMA MailStep ==
    ASSUME MailAssumption, OperatorWaits, MailInv, [MailNext]_mailVars
    PROVE  MailInv'
<1>0. MailTyped'
  BY ShapeKept
<1>1. CASE UNCHANGED mailVars
  BY <1>1 DEF mailVars
<1>2. CASE MailNext
  <2>1. MailFacts'
    BY <1>2, BeginKeepsMail, ClaimKeepsMail, ClaimAttemptKeepsMail, SendKeepsMail,
       CompleteKeepsMail, BackOffKeepsMail, AppendEvidenceKeepsMail, ResolveKeepsMail,
       StoreFailsKeepsMail, CrashKeepsMail, VerifyKeepsMail, ReconcileIntentKeepsMail,
       ReconcileEvidenceKeepsMail DEF MailNext
  <2> QED
    BY <1>0, <2>1
<1> QED
  BY <1>1, <1>2

LEMMA MailInitially ==
    ASSUME MailAssumption, MailInit
    PROVE  MailInv
BY DEF MailInit, MailAssumption

LEMMA MailInvImplies ==
    ASSUME MailInv
    PROVE  NoDuplicateSend /\ OutcomeIsTrue /\ MailTypeOK
<1>1. NoDuplicateSend
  <2>0. \A r, s \in sent : r = s
    OBVIOUS
  <2>1. CASE sent = {}
    <3>1. Cardinality({}) = 0
      BY FS_EmptySet
    <3> QED
      BY ONLY <2>1, <3>1 DEF NoDuplicateSend
  <2>2. CASE sent # {}
    <3>1. PICK r \in sent : TRUE
      BY ONLY <2>2
    <3>2. sent = {r}
      BY ONLY <2>0, <3>1
    <3>3. Cardinality({r}) = 1
      BY FS_Singleton
    <3> QED
      BY ONLY <3>2, <3>3 DEF NoDuplicateSend
  <2> QED
    BY <2>1, <2>2
<1>2. OutcomeIsTrue
  BY DEF OutcomeIsTrue, OkIsAccepted, FailedWasNotSent
<1>3. MailTypeOK
  BY DEF MailTypeOK
<1> QED
  BY <1>1, <1>2, <1>3

HIDE DEF RunStates, AtProvider, SendOutcome, Runs, Intents, MailTyped, InitialAlone,
       ProviderFenced, IntentTellsSent, EvidenceTellsSent, RunTellsSent, OperatorTellsSent,
       AtMostOne, MailFacts, MailInv, SendIntentState, OutboundEvidenceKind, NoAttempt, NoIntent,
       Asleep, InFlight, Answers
-----------------------------------------------------------------------------
(* The records people decide on.                                           *)

(* What a call may have read: a draft to send, or what was sent, to answer;  *)
(* neither has answers.                                                    *)
Taken(kind) == [state |-> Takes(kind), answers |-> None]

Clarification ==
    {c \in [state : ClarificationState, answers : Review \cup {None}] :
        c.state = "answered" <=> c.answers # None}

(* The calls, by what they have to remember.                               *)
ReviewCall ==
    {Unreviewed, Reading("send", Taken("send")), Reading("reply", Taken("reply")),
     Reading("run", [revision |-> BoundRevision])}
    \cup [pc : {"read", "ok"}, kind : {"decide"}, copy : Review]
    \cup [pc : {"refused", "superseded", "lost", "ok"},
          kind : {"send", "reply", "run", "decide"}]

ReviewInv ==
    /\ clarification \in Clarification
    /\ proposals \in [Review -> AutomationProposalState \cup {None}]
    /\ review \in [Review -> ReviewCall]

USE DEF Taken, Clarification, ReviewCall, ReviewInv, ClarificationState,
       AutomationProposalState, BoundRevision, Unreviewed, Takes, Busy, Reading, Over, Become

LEMMA ReadClarificationKeepsReviews ==
    ASSUME ReviewAssumption, ReviewInv, NEW c \in Review, NEW kind \in {"send", "reply"},
           ReadClarification(c, kind)
    PROVE  ReviewInv'
<1>1. clarification.state = Takes(kind) => clarification = Taken(kind)
  BY DEF ReviewAssumption
<1>2. review'[c] \in ReviewCall
  BY <1>1 DEF ReadClarification
<1> QED
  BY <1>2 DEF ReadClarification

LEMMA WriteSendKeepsReviews ==
    ASSUME ReviewAssumption, ReviewInv, NEW c \in Review, WriteSend(c)
    PROVE  ReviewInv'
<1>1. review[c].copy = Taken("send")
  BY DEF WriteSend
<1>2. clarification' = [state |-> "sent", answers |-> None]
  BY <1>1 DEF WriteSend
<1> QED
  BY <1>2 DEF WriteSend, ReviewAssumption

LEMMA WriteReplyKeepsReviews ==
    ASSUME ReviewAssumption, ReviewInv, NEW c \in Review, WriteReply(c)
    PROVE  ReviewInv'
<1>1. review[c].copy = Taken("reply")
  BY DEF WriteReply
<1>2. clarification' = [state |-> "answered", answers |-> c]
  BY <1>1 DEF WriteReply
<1> QED
  BY <1>2 DEF WriteReply, ReviewAssumption

LEMMA RunKeepsReviews ==
    ASSUME ReviewAssumption, ReviewInv, NEW c \in Review, LoadTicket(c) \/ StoreProposal(c)
    PROVE  ReviewInv'
<1>1. CASE LoadTicket(c)
  BY <1>1 DEF LoadTicket
<1>2. CASE StoreProposal(c)
  BY <1>2 DEF StoreProposal
<1> QED
  BY <1>1, <1>2

LEMMA DecideKeepsReviews ==
    ASSUME ReviewAssumption, ReviewInv, NEW c \in Review, ReadProposal(c) \/ WriteDecision(c)
    PROVE  ReviewInv'
<1>1. CASE ReadProposal(c)
  BY <1>1 DEF ReadProposal
<1>2. CASE WriteDecision(c)
  BY <1>2 DEF WriteDecision
<1> QED
  BY <1>1, <1>2

LEMMA ChangeTicketKeepsReviews ==
    ASSUME ReviewInv, ChangeTicket
    PROVE  ReviewInv'
BY DEF ChangeTicket

LEMMA ReviewStep ==
    ASSUME ReviewAssumption, ReviewInv, [ReviewNext]_reviewVars
    PROVE  ReviewInv'
<1>1. CASE UNCHANGED reviewVars
  BY <1>1 DEF reviewVars
<1>2. CASE ReviewNext
  BY <1>2, ReadClarificationKeepsReviews, WriteSendKeepsReviews, WriteReplyKeepsReviews,
     RunKeepsReviews, DecideKeepsReviews, ChangeTicketKeepsReviews DEF ReviewNext
<1> QED
  BY <1>1, <1>2

LEMMA ReviewInitially ==
    ASSUME ReviewAssumption, ReviewInit
    PROVE  ReviewInv
BY DEF ReviewInit, ReviewAssumption

LEMMA ReviewInvImplies ==
    ASSUME ReviewInv
    PROVE  ReviewTypeOK
BY DEF ReviewTypeOK

HIDE DEF Taken, Clarification, ReviewCall, ReviewInv, ClarificationState,
       AutomationProposalState, BoundRevision, Unreviewed, Takes, Busy, Reading, Over, Become
-----------------------------------------------------------------------------
(* The ticket.                                                             *)

OpNames == {"agent_reply", "requester_reply", "internal_note", "csat", "update", "status"}
Pending == [op : Ops, pc : {"row", "loaded"}, copy : Tickets]
TicketCall == {Unmade, Refused} \cup Pending \cup [pc : {"ok"}, op : [name : OpNames]]

(* What StampsAgree says, of a copy as of the stored ticket.               *)
Stamped(t) ==
    /\ t.waiting <=> t.status \in Waiting
    /\ t.resolved <=> t.status \in Stopped
    /\ t.status \in Stopped => t.resolution
    /\ t.status = "closed" => t.closed /\ t.reason

AggregateTyped ==
    /\ ticket \in Tickets \cup {Gone}
    /\ ticket # Gone => Stamped(ticket)
    /\ call \in [Caller -> TicketCall]

(* A copy is behind the ticket or is the ticket, but for its age.          *)
Copied(t, u) ==
    /\ t.status = u.status /\ t.waiting = u.waiting /\ t.resolved = u.resolved
    /\ t.closed = u.closed /\ t.resolution = u.resolution /\ t.reason = u.reason
    /\ t.first = u.first /\ t.csat = u.csat /\ t.messages = u.messages

CopiesBehind ==
    \A c \in Caller : call[c].pc \in {"row", "loaded"} =>
       /\ Stamped(call[c].copy)
       /\ ticket # Gone =>
             /\ call[c].copy.revision <= ticket.revision
             /\ call[c].copy.revision = ticket.revision => Copied(call[c].copy, ticket)

AggregateInv == AggregateTyped /\ CopiesBehind /\ NoReplyLost /\ CsatOnce

USE DEF TicketStatus, Stopped, Waiting

(* The status operation, field by field.                                   *)
StatusSet(t, s, w, r, c, y, z) ==
    [t EXCEPT !.status = s, !.waiting = w, !.resolved = r, !.closed = c,
              !.reason = y, !.resolution = z]

StatusFields(t, u, s, w, r, c, y, z) ==
    /\ u \in Tickets
    /\ u.status = s /\ u.waiting = w /\ u.resolved = r /\ u.closed = c
    /\ u.reason = y /\ u.resolution = z
    /\ u.revision = t.revision /\ u.first = t.first /\ u.csat = t.csat
    /\ u.messages = t.messages

Unchanged(t, u) ==
    u \in Tickets /\ u.messages = t.messages /\ u.csat = t.csat /\ u.revision = t.revision

LEMMA StatusSetFields ==
    ASSUME NEW t \in Tickets, NEW s \in TicketStatus, NEW w \in BOOLEAN, NEW r \in BOOLEAN,
           NEW c \in BOOLEAN, NEW y \in BOOLEAN, NEW z \in BOOLEAN
    PROVE  StatusFields(t, StatusSet(t, s, w, r, c, y, z), s, w, r, c, y, z)
<1> PICK u : u = StatusSet(t, s, w, r, c, y, z)
  OBVIOUS
<1>1. u = [revision |-> t.revision, status |-> s, waiting |-> w, resolved |-> r, closed |-> c,
           resolution |-> z, reason |-> y, first |-> t.first, csat |-> t.csat,
           messages |-> t.messages, aged |-> t.aged]
  BY DEF Tickets, StatusSet
<1>2. StatusFields(t, u, s, w, r, c, y, z)
  BY <1>1 DEF Tickets, StatusFields
<1> QED
  BY <1>2

LEMMA StatusApplied ==
    ASSUME NEW t \in Tickets, NEW s \in TicketStatus, NEW res \in BOOLEAN, NEW rea \in BOOLEAN
    PROVE  /\ StatusFields(t, apply_status(t, s, res, rea), s, s \in Waiting,
              IF s = "closed" THEN t.resolved ELSE s = "resolved",
              s = "closed" \/ (t.closed /\ s # "open"),
              IF s = "closed" THEN rea ELSE t.reason /\ s # "open",
              t.resolution \/ (s \in Stopped /\ res))
           /\ Unchanged(t, apply_status(t, s, res, rea))
<1> DEFINE w == s \in Waiting
           r == IF s = "closed" THEN t.resolved ELSE s = "resolved"
           c == s = "closed" \/ (t.closed /\ s # "open")
           y == IF s = "closed" THEN rea ELSE t.reason /\ s # "open"
           z == t.resolution \/ (s \in Stopped /\ res)
<1>1. w \in BOOLEAN /\ r \in BOOLEAN /\ c \in BOOLEAN /\ y \in BOOLEAN /\ z \in BOOLEAN
  <2>1. t.resolved \in BOOLEAN
    BY DEF Tickets
  <2>2. r \in BOOLEAN
    BY <2>1
  <2>3. y \in BOOLEAN
    BY Zenon
  <2>4. w \in BOOLEAN
    OBVIOUS
  <2>5. c \in BOOLEAN
    BY Zenon
  <2>6. z \in BOOLEAN
    BY Zenon
  <2> HIDE DEF w, r, c, y, z
  <2> QED
    BY <2>2, <2>3, <2>4, <2>5, <2>6, Zenon
<1>2. apply_status(t, s, res, rea) = StatusSet(t, s, w, r, c, y, z)
  BY DEF apply_status, StatusSet
<1>3. StatusFields(t, apply_status(t, s, res, rea), s, w, r, c, y, z)
  <2> HIDE DEF w, r, c, y, z, TicketStatus
  <2>1. StatusFields(t, StatusSet(t, s, w, r, c, y, z), s, w, r, c, y, z)
    BY <1>1, StatusSetFields, SMTT(20)
  <2> QED
    BY <1>2, <2>1, Zenon
<1>4. Unchanged(t, apply_status(t, s, res, rea))
  <2> HIDE DEF w, r, c, y, z, TicketStatus
  <2> QED
    BY <1>3, Zenon DEF StatusFields, Unchanged
<1> QED
  BY <1>3, <1>4

LEMMA OpValues ==
    ASSUME AggregateAssumption, NEW op \in Ops
    PROVE  /\ op.name \in OpNames
           /\ op.name = "status" =>
                 op.status \in TicketStatus /\ op.resolution \in BOOLEAN /\ op.reason \in BOOLEAN
BY DEF Ops, OpNames, AggregateAssumption

(* An allowed change of status leaves the stamps right.                    *)
LEMMA StatusStamped ==
    ASSUME NEW t \in Tickets, Stamped(t), NEW s \in TicketStatus,
           NEW res \in BOOLEAN, NEW rea \in BOOLEAN,
           s \in Stopped => res \/ t.resolution,
           s = "closed" => rea /\ t.status = "resolved",
           NEW u, u = apply_status(t, s, res, rea)
    PROVE  Stamped(u)
BY StatusApplied DEF Stamped, StatusFields, Tickets

(* A change of status is a change of nothing else.                         *)
LEMMA StatusKeeps ==
    ASSUME NEW t \in Tickets, NEW s \in TicketStatus, NEW res \in BOOLEAN, NEW rea \in BOOLEAN,
           NEW u, u = apply_status(t, s, res, rea)
    PROVE  Unchanged(t, u)
BY StatusApplied

LEMMA Opened ==
    ASSUME NEW t \in Tickets, NEW u, u = apply_status(t, "open", FALSE, FALSE)
    PROVE  /\ u \in Tickets /\ Stamped(u) /\ u.status = "open"
           /\ u.revision = t.revision /\ u.messages = t.messages /\ u.csat = t.csat
           /\ u.resolution = t.resolution
<1> DEFINE w == "open" \in Waiting
           r == IF "open" = "closed" THEN t.resolved ELSE "open" = "resolved"
           c == "open" = "closed" \/ (t.closed /\ "open" # "open")
           y == IF "open" = "closed" THEN FALSE ELSE t.reason /\ "open" # "open"
           z == t.resolution \/ ("open" \in Stopped /\ FALSE)
<1>1. w = FALSE
  OBVIOUS
<1>2. r = FALSE
  OBVIOUS
<1>3. c = FALSE
  BY Zenon
<1>4. y = FALSE
  BY Zenon
<1>5. z = t.resolution
  <2>1. t.resolution \in BOOLEAN
    BY DEF Tickets
  <2> QED
    BY <2>1, Zenon
<1>6. u = StatusSet(t, "open", w, r, c, y, z)
  BY DEF apply_status, StatusSet
<1> HIDE DEF w, r, c, y, z
<1>8. w \in BOOLEAN /\ r \in BOOLEAN /\ c \in BOOLEAN /\ y \in BOOLEAN /\ z \in BOOLEAN
  <2>1. z \in BOOLEAN
    BY <1>5 DEF Tickets
  <2> QED
    BY <1>1, <1>2, <1>3, <1>4, <2>1, Zenon
<1>9. "open" \in TicketStatus
  OBVIOUS
<1>10. StatusFields(t, u, "open", w, r, c, y, z)
  <2> HIDE DEF TicketStatus
  <2> QED
    <3>1. StatusFields(t, StatusSet(t, "open", w, r, c, y, z), "open", w, r, c, y, z)
      BY <1>8, <1>9, StatusSetFields, SMTT(20)
    <3> QED
      BY <1>6, <3>1, Zenon
<1>11. Stamped(u)
  <2>1. u.waiting = FALSE /\ u.resolved = FALSE
    BY <1>1, <1>2, <1>10, Zenon DEF StatusFields
  <2> QED
    BY <1>10, <2>1 DEF Stamped, StatusFields
<1> QED
  BY <1>5, <1>10, <1>11, Zenon DEF StatusFields

(* An operation on a copy: the ticket it makes, what it leaves alone.      *)
LEMMA Touched ==
    ASSUME NEW t \in Tickets, NEW u, u = touch(t)
    PROVE  /\ u \in Tickets /\ u.revision = t.revision + 1 /\ u.status = t.status
           /\ u.waiting = t.waiting /\ u.resolved = t.resolved /\ u.closed = t.closed
           /\ u.resolution = t.resolution /\ u.reason = t.reason
           /\ u.first = t.first /\ u.csat = t.csat /\ u.messages = t.messages
<1>1. u = [revision |-> t.revision + 1, status |-> t.status, waiting |-> t.waiting,
           resolved |-> t.resolved, closed |-> t.closed, resolution |-> t.resolution,
           reason |-> t.reason, first |-> t.first, csat |-> t.csat,
           messages |-> t.messages, aged |-> FALSE]
  BY DEF touch, Tickets
<1>2. t.revision + 1 \in Nat
  BY DEF Tickets
<1> QED
  BY <1>1, <1>2 DEF Tickets

(* The operations before touch: the ticket they make, and what they leave  *)
(* alone.                                                                  *)
Worked(t, op, c) ==
    CASE op.name = "requester_reply" -> reply_as_requester_message(t, c)
      [] op.name = "agent_reply" -> reply_as_agent_message(t, c)
      [] op.name = "internal_note" -> internal_note_message(t, c)
      [] op.name = "csat" -> submit_csat(t, c)
      [] op.name = "update" -> t
      [] op.name = "status" -> change_status(t, op, c)

Effect(t, op, c, u) ==
    /\ u \in Tickets /\ Stamped(u)
    /\ t.messages \subseteq u.messages
    /\ Appends(op) \/ op.name = "status" => u.messages = t.messages \cup {c}
    /\ op.name = "csat" => u.csat = c /\ t.csat = NoOne
    /\ op.name # "csat" => u.csat = t.csat
    /\ Appends(op) =>
          /\ u.resolution = t.resolution
          /\ u.status = "closed" => u.closed = t.closed /\ u.reason = t.reason

LEMMA MessageAdded ==
    ASSUME NEW t \in Tickets, NEW c \in Caller, NEW u, u = [t EXCEPT !.messages = @ \cup {c}]
    PROVE  /\ u \in Tickets /\ u.revision = t.revision /\ u.status = t.status
           /\ u.waiting = t.waiting /\ u.resolved = t.resolved /\ u.closed = t.closed
           /\ u.resolution = t.resolution /\ u.reason = t.reason
           /\ u.first = t.first /\ u.csat = t.csat /\ u.messages = t.messages \cup {c}
BY DEF Tickets

LEMMA OperationWorks ==
    ASSUME AggregateAssumption, NEW t \in Tickets, Stamped(t), NEW op \in Ops,
           NEW c \in Caller, Allowed(t, op)
    PROVE  Effect(t, op, c, Worked(t, op, c)) /\ Worked(t, op, c).revision = t.revision
<1>1. CASE op.name = "requester_reply"
  <2> DEFINE v == IF Reopens(t) THEN apply_status(t, "open", FALSE, FALSE) ELSE t
  <2>1. /\ v \in Tickets /\ Stamped(v) /\ v.messages = t.messages /\ v.csat = t.csat
        /\ v.resolution = t.resolution /\ v.revision = t.revision
        /\ v.status = "closed" => v.closed = t.closed /\ v.reason = t.reason
    <3>1. CASE Reopens(t)
      BY <3>1, Opened
    <3>2. CASE ~Reopens(t)
      BY <3>2
    <3> QED
      BY <3>1, <3>2
  <2>2. Worked(t, op, c) = [v EXCEPT !.messages = @ \cup {c}]
    BY <1>1 DEF Worked, reply_as_requester_message
  <2> HIDE DEF v
  <2> QED
    BY <1>1, <2>1, <2>2, MessageAdded DEF Effect, Stamped, Appends
<1>2. CASE op.name = "agent_reply"
  <2> DEFINE v == Answering(t)
             w == [v EXCEPT !.messages = @ \cup {c}]
             x == [w EXCEPT !.first = IF @ = NoOne THEN c ELSE @]
  <2>1. /\ v \in Tickets /\ Stamped(v) /\ v.messages = t.messages /\ v.csat = t.csat
        /\ v.resolution = t.resolution /\ v.revision = t.revision
        /\ v.status = "closed" => v.closed = t.closed /\ v.reason = t.reason
    <3>1. CASE t.status = "new"
      BY <3>1, Opened DEF Answering
    <3>2. CASE t.status # "new"
      BY <3>2 DEF Answering
    <3> QED
      BY <3>1, <3>2
  <2>2. Worked(t, op, c) = x
    BY <1>2 DEF Worked, reply_as_agent_message
  <2> HIDE DEF v
  <2>3. /\ w \in Tickets /\ w.revision = v.revision /\ w.status = v.status
        /\ w.waiting = v.waiting /\ w.resolved = v.resolved /\ w.closed = v.closed
        /\ w.resolution = v.resolution /\ w.reason = v.reason
        /\ w.first = v.first /\ w.csat = v.csat /\ w.messages = v.messages \cup {c}
    BY <2>1, MessageAdded
  <2> HIDE DEF w
  <2>4. /\ x \in Tickets /\ x.revision = w.revision /\ x.status = w.status
        /\ x.waiting = w.waiting /\ x.resolved = w.resolved /\ x.closed = w.closed
        /\ x.resolution = w.resolution /\ x.reason = w.reason
        /\ x.csat = w.csat /\ x.messages = w.messages
    BY <2>3 DEF Tickets
  <2> HIDE DEF x
  <2> QED
    BY <1>2, <2>1, <2>2, <2>3, <2>4 DEF Effect, Stamped, Appends
<1>3. CASE op.name = "internal_note"
  <2>1. Worked(t, op, c) = [t EXCEPT !.messages = @ \cup {c}]
    BY <1>3 DEF Worked, internal_note_message
  <2> QED
    BY <1>3, <2>1, MessageAdded DEF Effect, Stamped, Appends
<1>4. CASE op.name = "csat"
  <2> DEFINE u == [t EXCEPT !.csat = c]
  <2>1. Worked(t, op, c) = u
    BY <1>4 DEF Worked, submit_csat
  <2>2. /\ u \in Tickets /\ u.revision = t.revision /\ u.status = t.status
        /\ u.waiting = t.waiting /\ u.resolved = t.resolved /\ u.closed = t.closed
        /\ u.resolution = t.resolution /\ u.reason = t.reason
        /\ u.csat = c /\ u.messages = t.messages
    BY DEF Tickets
  <2>3. t.csat = NoOne
    BY <1>4 DEF Allowed
  <2> HIDE DEF u
  <2> QED
    BY <1>4, <2>1, <2>2, <2>3 DEF Effect, Stamped, Appends
<1>5. CASE op.name = "update"
  BY <1>5 DEF Worked, Effect, Appends
<1>6. CASE op.name = "status"
  <2> DEFINE v == apply_status(t, op.status, op.resolution, op.reason)
  <2>1. op.status \in TicketStatus /\ op.resolution \in BOOLEAN /\ op.reason \in BOOLEAN
    BY <1>6, OpValues
  <2>2. /\ op.status \in Stopped => op.resolution \/ t.resolution
        /\ op.status = "closed" => op.reason /\ t.status = "resolved"
    BY <1>6, <2>1 DEF Allowed, StatusAllowed, can_transition_to, Tickets
  <2> HIDE DEF v, TicketStatus, Stopped
  <2>0. v = apply_status(t, op.status, op.resolution, op.reason)
    BY DEF v
  <2>3. Stamped(v)
    BY <2>0, <2>1, <2>2, StatusStamped, Zenon
  <2>4. v \in Tickets /\ v.messages = t.messages /\ v.csat = t.csat /\ v.revision = t.revision
    <3>1. Unchanged(t, v)
      BY <2>0, <2>1, StatusKeeps, Zenon
    <3> QED
      BY <3>1, Zenon DEF Unchanged
  <2>5. Worked(t, op, c) = [v EXCEPT !.messages = @ \cup {c}]
    BY <1>6 DEF Worked, change_status, v
  <2> QED
    BY <1>6, <2>3, <2>4, <2>5, MessageAdded DEF Effect, Stamped, Appends
<1> QED
  BY <1>1, <1>2, <1>3, <1>4, <1>5, <1>6, OpValues DEF OpNames

-----------------------------------------------------------------------------
(* What a call in progress is.                                             *)
LEMMA PendingCall ==
    ASSUME AggregateInv, NEW c \in Caller, call[c].pc \in {"row", "loaded"}
    PROVE  call[c] \in Pending
BY DEF AggregateInv, AggregateTyped, TicketCall, Unmade, Refused

LEMMA StoredTicket ==
    ASSUME AggregateInv, ticket # Gone
    PROVE  ticket \in Tickets /\ Stamped(ticket)
BY DEF AggregateInv, AggregateTyped

(* A ticket is not a missing one.                                          *)
LEMMA TicketIsThere ==
    ASSUME NEW t \in Tickets
    PROVE  t # Gone
<1>1. t.status # "gone"
  BY DEF Tickets
<1> QED
  BY <1>1 DEF Gone

(* The revision goes up, the messages and the rating stay.                 *)
Follows(u) ==
    /\ u \in Tickets /\ Stamped(u)
    /\ u.revision = ticket.revision + 1
    /\ ticket.messages \subseteq u.messages

LEMMA CommitFollows ==
    ASSUME AggregateAssumption, AggregateInv, NEW c \in Caller,
           call[c].pc = "loaded", Allowed(call[c].copy, call[c].op),
           Fresh(call[c].copy.revision),
           NEW t, t = Apply(call[c].copy, call[c].op, c),
           NEW u, u = IF Appends(call[c].op) THEN AppendResult(t, c) ELSE t
    PROVE  /\ Follows(u)
           /\ Appends(call[c].op) \/ call[c].op.name = "status" => c \in u.messages
           /\ call[c].op.name = "csat" => u.csat = c /\ ticket.csat = NoOne
           /\ call[c].op.name # "csat" => u.csat = ticket.csat
<1> DEFINE copy == call[c].copy
           op == call[c].op
           w == Worked(copy, op, c)
<1>1. /\ copy \in Tickets /\ op \in Ops /\ Stamped(copy) /\ ticket # Gone
      /\ copy.revision = ticket.revision /\ Copied(copy, ticket)
  BY PendingCall DEF Pending, AggregateInv, CopiesBehind, Fresh
<1>2. ticket \in Tickets /\ Stamped(ticket)
  BY <1>1, StoredTicket
<1>3. t = touch(w)
  BY DEF Apply, Worked
<1> HIDE DEF copy, op, w
<1>4. Effect(copy, op, c, w) /\ w.revision = copy.revision
  BY <1>1, OperationWorks DEF copy, op, w
<1>5. /\ t \in Tickets /\ t.revision = w.revision + 1 /\ t.status = w.status
      /\ t.waiting = w.waiting /\ t.resolved = w.resolved /\ t.closed = w.closed
      /\ t.resolution = w.resolution /\ t.reason = w.reason
      /\ t.first = w.first /\ t.csat = w.csat /\ t.messages = w.messages
  BY <1>3, <1>4, Touched DEF Effect
<1>6. CASE ~Appends(op)
  <2>1. u = t
    BY <1>6 DEF op
  <2>2. Stamped(t)
    BY <1>4, <1>5 DEF Effect, Stamped
  <2>3. op.name # "csat" \/ op.name = "csat"
    OBVIOUS
  <2> QED
    BY <1>1, <1>4, <1>5, <1>6, <2>1, <2>2 DEF Effect, Follows, Copied, op
<1>7. CASE Appends(op)
  <2>1. u = AppendResult(t, c)
    BY <1>7 DEF op
  <2>2. u = [revision |-> t.revision, status |-> t.status, waiting |-> t.waiting,
             resolved |-> t.resolved, closed |-> ticket.closed,
             resolution |-> ticket.resolution, reason |-> ticket.reason,
             first |-> t.first, csat |-> ticket.csat,
             messages |-> ticket.messages \cup {c}, aged |-> FALSE]
    BY <1>2, <2>1 DEF AppendResult, Tickets
  <2>3. u \in Tickets
    <3>1. /\ t.revision \in Nat /\ t.status \in TicketStatus /\ t.waiting \in BOOLEAN
          /\ t.resolved \in BOOLEAN /\ t.first \in Caller \cup {NoOne}
      BY <1>5 DEF Tickets
    <3>2. /\ ticket.closed \in BOOLEAN /\ ticket.resolution \in BOOLEAN
          /\ ticket.reason \in BOOLEAN /\ ticket.csat \in Caller \cup {NoOne}
          /\ ticket.messages \cup {c} \in SUBSET Caller
      BY <1>2 DEF Tickets
    <3> QED
      BY ONLY <2>2, <3>1, <3>2 DEF Tickets
  <2>4. /\ u.status = t.status /\ u.waiting = t.waiting /\ u.resolved = t.resolved
        /\ u.closed = ticket.closed /\ u.reason = ticket.reason
        /\ u.resolution = ticket.resolution /\ u.csat = ticket.csat
        /\ u.messages = ticket.messages \cup {c} /\ u.revision = t.revision
    BY <2>2
  <2>5. op.name # "csat" /\ op.name # "status"
    BY <1>7 DEF Appends
  <2>6. Stamped(u)
    <3>1. u.resolution = w.resolution
      BY <1>1, <1>4, <1>7, <2>4 DEF Effect, Copied
    <3>2. w.status = "closed" => u.closed = w.closed /\ u.reason = w.reason
      BY <1>1, <1>4, <1>7, <2>4 DEF Effect, Copied
    <3> QED
      BY <1>4, <1>5, <2>4, <3>1, <3>2 DEF Effect, Stamped
  <2> QED
    BY <1>1, <1>4, <1>5, <2>3, <2>4, <2>5, <2>6 DEF Follows, op
<1> QED
  BY <1>6, <1>7

-----------------------------------------------------------------------------
(* A call loads the ticket, whole or row first.                            *)
LEMMA LoadKeepsTicket ==
    ASSUME AggregateAssumption, AggregateInv, NEW c \in Caller, NEW op \in Ops, Load(c, op)
    PROVE  AggregateInv'
<1>1. call[c] = Unmade /\ ticket' = ticket
  BY DEF Load
<1>2. PICK v \in TicketCall :
         /\ call' = [call EXCEPT ![c] = v]
         /\ v.pc # "ok"
         /\ v.pc \in {"row", "loaded"} => ticket # Gone /\ v.copy = ticket
  <2>1. CASE ticket = Gone
    <3>1. Refused \in TicketCall /\ Refused.pc = "refused"
      BY DEF TicketCall, Refused
    <3> QED
      BY <2>1, <3>1 DEF Load
  <2>2. CASE ticket # Gone
    <3> DEFINE v == [op |-> op, pc |-> IF sqlite THEN "row" ELSE "loaded", copy |-> ticket]
    <3>1. v \in Pending
      BY <2>2, StoredTicket DEF Pending
    <3> QED
      BY <2>2, <3>1 DEF Load, TicketCall
  <2> QED
    BY <2>1, <2>2
<1>3. AggregateTyped'
  BY <1>1, <1>2 DEF AggregateInv, AggregateTyped
<1>4. CopiesBehind'
  <2> SUFFICES ASSUME NEW d \in Caller, call'[d].pc \in {"row", "loaded"}
               PROVE  /\ Stamped(call'[d].copy)
                      /\ ticket # Gone =>
                            /\ call'[d].copy.revision <= ticket.revision
                            /\ call'[d].copy.revision = ticket.revision =>
                                  Copied(call'[d].copy, ticket)
    BY <1>1 DEF CopiesBehind
  <2>1. CASE d = c
    <3>1. call'[d].copy = ticket /\ ticket # Gone
      BY <1>2, <2>1 DEF AggregateInv, AggregateTyped
    <3> QED
      BY <3>1, StoredTicket DEF Copied, Tickets
  <2>2. CASE d # c
    BY <1>2, <2>2 DEF AggregateInv, CopiesBehind
  <2> QED
    BY <2>1, <2>2
<1>5. \A d \in Caller : Succeeded(d)' => d # c /\ Succeeded(d) /\ call'[d] = call[d]
  BY <1>2 DEF Succeeded, AggregateInv, AggregateTyped
<1>6. NoReplyLost'
  BY <1>1, <1>5 DEF AggregateInv, NoReplyLost
<1>7. CsatOnce'
  BY <1>1, <1>5 DEF AggregateInv, CsatOnce
<1> QED
  BY <1>3, <1>4, <1>6, <1>7 DEF AggregateInv

LEMMA LoadMessagesKeepsTicket ==
    ASSUME AggregateInv, NEW c \in Caller, LoadMessages(c)
    PROVE  AggregateInv'
<1> DEFINE found == IF ticket = Gone THEN {} ELSE ticket.messages
<1>1. call[c] \in Pending /\ call[c].pc = "row" /\ ticket' = ticket
  BY PendingCall DEF LoadMessages
<1>2. PICK copy : copy = [call[c].copy EXCEPT !.messages = found]
  OBVIOUS
<1>3. found \in SUBSET Caller
  BY StoredTicket DEF Tickets
<1>4. /\ copy \in Tickets
      /\ copy.revision = call[c].copy.revision /\ copy.status = call[c].copy.status
      /\ copy.waiting = call[c].copy.waiting /\ copy.resolved = call[c].copy.resolved
      /\ copy.closed = call[c].copy.closed /\ copy.resolution = call[c].copy.resolution
      /\ copy.reason = call[c].copy.reason /\ copy.first = call[c].copy.first
      /\ copy.csat = call[c].copy.csat /\ copy.messages = found
  <2> HIDE DEF found
  <2> QED
    BY <1>1, <1>2, <1>3 DEF Pending, Tickets
<1>5. call' = [call EXCEPT ![c] = [op |-> call[c].op, pc |-> "loaded", copy |-> copy]]
  <2> DEFINE v == [op |-> call[c].op, pc |-> "loaded", copy |-> copy]
  <2>1. call'[c] = v
    BY <1>1, <1>2 DEF LoadMessages, Pending, AggregateInv, AggregateTyped
  <2>2. call \in [Caller -> TicketCall] /\ call' \in [Caller -> {call'[d] : d \in Caller}]
    BY DEF LoadMessages, AggregateInv, AggregateTyped
  <2>3. \A d \in Caller : d # c => call'[d] = call[d]
    BY DEF LoadMessages, AggregateInv, AggregateTyped
  <2> HIDE DEF v
  <2> QED
    BY <2>1, <2>2, <2>3 DEF v
<1>6. [op |-> call[c].op, pc |-> "loaded", copy |-> copy] \in TicketCall
  BY <1>1, <1>4 DEF TicketCall, Pending
<1> HIDE DEF found
<1>7. AggregateTyped'
  BY <1>1, <1>5, <1>6 DEF AggregateInv, AggregateTyped
<1>8. CopiesBehind'
  <2> SUFFICES ASSUME NEW d \in Caller, call'[d].pc \in {"row", "loaded"}
               PROVE  /\ Stamped(call'[d].copy)
                      /\ ticket # Gone =>
                            /\ call'[d].copy.revision <= ticket.revision
                            /\ call'[d].copy.revision = ticket.revision =>
                                  Copied(call'[d].copy, ticket)
    BY <1>1 DEF CopiesBehind
  <2>1. CASE d = c
    <3>1. call'[d].copy = copy
      BY <1>5, <2>1 DEF AggregateInv, AggregateTyped
    <3>2. ticket # Gone => found = ticket.messages
      BY DEF found
    <3>3. /\ Stamped(call[c].copy)
          /\ ticket # Gone =>
                /\ call[c].copy.revision <= ticket.revision
                /\ call[c].copy.revision = ticket.revision => Copied(call[c].copy, ticket)
      BY <1>1 DEF AggregateInv, CopiesBehind
    <3>4. Stamped(copy)
      BY <1>4, <3>3 DEF Stamped
    <3> QED
      BY <1>4, <3>1, <3>2, <3>3, <3>4 DEF Copied
  <2>2. CASE d # c
    BY <1>5, <2>2 DEF AggregateInv, CopiesBehind
  <2> QED
    BY <2>1, <2>2
<1>9. \A d \in Caller : Succeeded(d)' => d # c /\ Succeeded(d) /\ call'[d] = call[d]
  BY <1>5 DEF Succeeded, AggregateInv, AggregateTyped
<1>10. NoReplyLost'
  BY <1>1, <1>9 DEF AggregateInv, NoReplyLost
<1>11. CsatOnce'
  BY <1>1, <1>9 DEF AggregateInv, CsatOnce
<1> QED
  BY <1>7, <1>8, <1>10, <1>11 DEF AggregateInv

(* A call is refused.                                                      *)
LEMMA RefusalKeepsTicket ==
    ASSUME AggregateInv, NEW c \in Caller, ticket' = ticket,
           call' = [call EXCEPT ![c] = Refused]
    PROVE  AggregateInv'
<1>1. Refused \in TicketCall /\ Refused.pc = "refused"
  BY DEF Refused, TicketCall
<1>2. \A d \in Caller : call'[d] = IF d = c THEN Refused ELSE call[d]
  BY DEF AggregateInv, AggregateTyped
<1>3. AggregateTyped'
  BY <1>1 DEF AggregateInv, AggregateTyped
<1>4. CopiesBehind'
  BY <1>1, <1>2 DEF AggregateInv, CopiesBehind
<1>5. \A d \in Caller : Succeeded(d)' => d # c /\ Succeeded(d) /\ call'[d] = call[d]
  BY <1>1, <1>2 DEF Succeeded
<1>6. NoReplyLost'
  BY <1>5 DEF AggregateInv, NoReplyLost
<1>7. CsatOnce'
  BY <1>5 DEF AggregateInv, CsatOnce
<1> QED
  BY <1>3, <1>4, <1>6, <1>7 DEF AggregateInv

(* A call succeeds with what it wrote.                                     *)
LEMMA SuccessKeepsTicket ==
    ASSUME AggregateAssumption, AggregateInv, NEW c \in Caller, NEW n \in OpNames,
           ticket # Gone, ~Succeeded(c), Follows(ticket'),
           call' = [call EXCEPT ![c] = Answered([name |-> n])],
           n \in {"agent_reply", "requester_reply", "internal_note", "status"} =>
              c \in ticket'.messages,
           n = "csat" => ticket'.csat = c /\ ticket.csat = NoOne,
           n # "csat" => ticket'.csat = ticket.csat
    PROVE  AggregateInv'
<1> DEFINE v == Answered([name |-> n])
<1>1. v \in TicketCall /\ v.pc = "ok" /\ v.op.name = n
  BY DEF Answered, TicketCall
<1> HIDE DEF v
<1>2. \A d \in Caller : call'[d] = IF d = c THEN v ELSE call[d]
  BY DEF AggregateInv, AggregateTyped, v
<1>3. ticket' \in Tickets /\ Stamped(ticket') /\ ticket' # Gone
  BY TicketIsThere DEF Follows
<1>4. AggregateTyped'
  <2>1. call' \in [Caller -> TicketCall]
    BY <1>1 DEF AggregateInv, AggregateTyped, v
  <2>2. Stamped(ticket)'
    BY <1>3 DEF Stamped
  <2> QED
    BY <1>3, <2>1, <2>2 DEF AggregateTyped
<1>5. CopiesBehind'
  <2> SUFFICES ASSUME NEW d \in Caller, call'[d].pc \in {"row", "loaded"}
               PROVE  /\ Stamped(call'[d].copy)
                      /\ call'[d].copy.revision <= ticket'.revision
                      /\ call'[d].copy.revision # ticket'.revision
    BY DEF CopiesBehind, Stamped
  <2>1. d # c /\ call'[d] = call[d]
    BY <1>1, <1>2
  <2>2. /\ Stamped(call[d].copy) /\ call[d].copy.revision <= ticket.revision
        /\ call[d].copy.revision \in Nat
    BY <2>1, PendingCall DEF AggregateInv, CopiesBehind, Pending, Tickets
  <2>3. ticket.revision \in Nat /\ ticket'.revision = ticket.revision + 1
    BY StoredTicket DEF Follows, Tickets
  <2> QED
    BY <2>1, <2>2, <2>3
<1>6. NoReplyLost'
  <2> SUFFICES ASSUME NEW d \in Caller, Succeeded(d)',
                      call'[d].op.name = "status" \/ Appends(call'[d].op)
               PROVE  d \in ticket'.messages
    BY DEF NoReplyLost
  <2>1. CASE d = c
    BY <1>1, <1>2, <2>1 DEF Appends
  <2>2. CASE d # c
    <3>1. d \in ticket.messages
      BY <1>2, <2>2 DEF AggregateInv, NoReplyLost, Succeeded
    <3> QED
      BY <3>1 DEF Follows
  <2> QED
    BY <2>1, <2>2
<1>7. CsatOnce'
  <2>1. \A d \in Caller : Succeeded(d)' /\ call'[d].op.name = "csat" =>
           ticket'.csat = d /\ d # NoOne
    <3> SUFFICES ASSUME NEW d \in Caller, Succeeded(d)', call'[d].op.name = "csat"
                 PROVE  ticket'.csat = d
      BY DEF AggregateAssumption
    <3>1. CASE d = c
      BY <1>1, <1>2, <3>1
    <3>2. CASE d # c
      <4>1. ticket.csat = d
        BY <1>2, <3>2 DEF AggregateInv, CsatOnce, Succeeded
      <4> QED
        BY <4>1 DEF AggregateAssumption
    <3> QED
      BY <3>1, <3>2
  <2> QED
    BY <2>1 DEF CsatOnce
<1> QED
  BY <1>4, <1>5, <1>6, <1>7 DEF AggregateInv

LEMMA CommitKeepsTicket ==
    ASSUME AggregateAssumption, AggregateInv, NEW c \in Caller, Commit(c)
    PROVE  AggregateInv'
<1>1. CASE Fresh(call[c].copy.revision)
  <2>1. PICK t : t = Apply(call[c].copy, call[c].op, c)
    OBVIOUS
  <2>2. /\ call[c].pc = "loaded" /\ Allowed(call[c].copy, call[c].op)
        /\ ticket' = IF Appends(call[c].op) THEN AppendResult(t, c) ELSE t
        /\ call' = [call EXCEPT ![c] = Answered([name |-> call[c].op.name])]
    BY <1>1, <2>1 DEF Commit, Answered
  <2>3. /\ Follows(ticket')
        /\ Appends(call[c].op) \/ call[c].op.name = "status" => c \in ticket'.messages
        /\ call[c].op.name = "csat" => ticket'.csat = c /\ ticket.csat = NoOne
        /\ call[c].op.name # "csat" => ticket'.csat = ticket.csat
    BY <1>1, <2>1, <2>2, CommitFollows
  <2>4. PICK n : n = call[c].op.name
    OBVIOUS
  <2>5. n \in OpNames
    BY <2>2, <2>4, PendingCall, OpValues DEF Pending
  <2>6. /\ n \in {"agent_reply", "requester_reply", "internal_note", "status"} =>
              c \in ticket'.messages
        /\ n = "csat" => ticket'.csat = c /\ ticket.csat = NoOne
        /\ n # "csat" => ticket'.csat = ticket.csat
    BY <2>3, <2>4 DEF Appends
  <2>7. ticket # Gone /\ ~Succeeded(c)
    BY <1>1, <2>2 DEF Fresh, Succeeded
  <2>8. call' = [call EXCEPT ![c] = Answered([name |-> n])]
    BY <2>2, <2>4
  <2> QED
    BY <2>3, <2>5, <2>6, <2>7, <2>8, SuccessKeepsTicket
<1>2. CASE ~Fresh(call[c].copy.revision)
  BY <1>2, RefusalKeepsTicket DEF Commit
<1> QED
  BY <1>1, <1>2

LEMMA AssignKeepsTicket ==
    ASSUME AggregateAssumption, AggregateInv, NEW c \in Caller, AssignFromPool(c)
    PROVE  AggregateInv'
<1>1. /\ call[c] = Unmade /\ ticket # Gone
      /\ ticket' = touch(ticket)
      /\ call' = [call EXCEPT ![c] = Answered([name |-> "update"])]
  BY DEF AssignFromPool, Apply
<1>2. ticket \in Tickets /\ Stamped(ticket)
  BY <1>1, StoredTicket
<1>3. Follows(ticket') /\ ticket'.csat = ticket.csat
  <2>1. PICK u : u = touch(ticket)
    OBVIOUS
  <2>2. Follows(u) /\ u.csat = ticket.csat
    BY <1>2, <2>1, Touched DEF Follows, Stamped
  <2> QED
    BY <1>1, <2>1, <2>2
<1>4. "update" \in OpNames /\ ~Succeeded(c)
  BY <1>1 DEF OpNames, Succeeded, Unmade
<1> QED
  BY <1>1, <1>3, <1>4, SuccessKeepsTicket

LEMMA AgeKeepsTicket ==
    ASSUME AggregateInv, Age
    PROVE  AggregateInv'
<1>1. /\ ticket \in Tickets /\ Stamped(ticket) /\ ticket # Gone /\ call' = call
      /\ ticket' = [ticket EXCEPT !.aged = TRUE]
  BY StoredTicket DEF Age
<1>2. /\ ticket' \in Tickets /\ ticket'.revision = ticket.revision
      /\ ticket'.status = ticket.status /\ ticket'.waiting = ticket.waiting
      /\ ticket'.resolved = ticket.resolved /\ ticket'.closed = ticket.closed
      /\ ticket'.resolution = ticket.resolution /\ ticket'.reason = ticket.reason
      /\ ticket'.first = ticket.first /\ ticket'.csat = ticket.csat
      /\ ticket'.messages = ticket.messages
  BY <1>1 DEF Tickets
<1>3. AggregateTyped'
  BY <1>1, <1>2 DEF AggregateInv, AggregateTyped, Stamped
<1>4. CopiesBehind'
  BY <1>1, <1>2 DEF AggregateInv, CopiesBehind, Copied
<1>5. NoReplyLost'
  BY <1>1, <1>2 DEF AggregateInv, NoReplyLost, Succeeded
<1>6. CsatOnce'
  BY <1>1, <1>2 DEF AggregateInv, CsatOnce, Succeeded
<1> QED
  BY <1>3, <1>4, <1>5, <1>6 DEF AggregateInv

LEMMA ErasureKeepsTicket ==
    ASSUME AggregateInv, call' = call, ticket' \in {ticket, Gone}
    PROVE  AggregateInv'
<1>1. AggregateTyped'
  BY DEF AggregateInv, AggregateTyped, Stamped
<1>2. CopiesBehind'
  BY DEF AggregateInv, CopiesBehind
<1>3. NoReplyLost'
  BY DEF AggregateInv, NoReplyLost, Succeeded
<1>4. CsatOnce'
  BY DEF AggregateInv, CsatOnce, Succeeded
<1> QED
  BY <1>1, <1>2, <1>3, <1>4 DEF AggregateInv

LEMMA AggregateStep ==
    ASSUME AggregateAssumption, AggregateInv, [AggregateNext]_aggregateVars
    PROVE  AggregateInv'
<1>1. CASE UNCHANGED aggregateVars
  BY <1>1, ErasureKeepsTicket DEF aggregateVars
<1>2. ASSUME NEW c \in Caller,
             (\E op \in Ops : Load(c, op)) \/ LoadMessages(c) \/ Refuse(c) \/ Commit(c)
                \/ AssignFromPool(c)
      PROVE  AggregateInv'
  <2>1. CASE Refuse(c)
    BY <2>1, RefusalKeepsTicket DEF Refuse
  <2> QED
    BY <1>2, <2>1, LoadKeepsTicket, LoadMessagesKeepsTicket, CommitKeepsTicket, AssignKeepsTicket
<1>3. CASE EraseSelect \/ EraseDelete
  BY <1>3, ErasureKeepsTicket DEF EraseSelect, EraseDelete
<1> QED
  BY <1>1, <1>2, <1>3, AgeKeepsTicket DEF AggregateNext

LEMMA AggregateInitially ==
    ASSUME AggregateInit
    PROVE  AggregateInv
<1>1. Created \in Tickets /\ Stamped(Created)
  BY DEF Created, Tickets, Stamped
<1>2. Created # Gone
  BY <1>1, TicketIsThere
<1>3. Unmade \in TicketCall /\ Unmade.pc = "idle"
  BY DEF TicketCall, Unmade
<1> QED
  BY <1>1, <1>2, <1>3 DEF AggregateInit, AggregateInv, AggregateTyped, CopiesBehind,
     NoReplyLost, CsatOnce, Succeeded

LEMMA AggregateInvImplies ==
    ASSUME AggregateInv
    PROVE  AggregateSound /\ AggregateTypeOK
BY DEF AggregateInv, AggregateTyped, AggregateSound, AggregateTypeOK, StampsAgree, Stamped

HIDE DEF TicketStatus, Stopped, Waiting

-----------------------------------------------------------------------------
(* Inbound mail: the jobs.                                                 *)

Identity == [ticket : Mail, digest : Digest]
Thread ==
    [status : {"open"}, requester : {Sender(m) : m \in Mail},
     mails : {[n \in D |-> 1] : D \in SUBSET Mail}]
IntakeJob ==
    [status : {"queued", "committed", "done", "failed", "exhausted"},
     target : Mail \cup {NoMail}, digest : Digest, tries : 1..MaxTries]

IntakeTyped ==
    /\ external \in [Mail -> Identity \cup {NoMail}]
    /\ tickets \in [Mail -> Thread \cup {NoTicket, Erased}]
    /\ job \in [Mail -> IntakeJob \cup {NoJob}]
    /\ failures \in Nat

(* A mail is in the conversation its identity names, and no other; the     *)
(* mail that opened a ticket has an identity.                              *)
IdentitiesMatch ==
    /\ \A m, t \in Mail : In(m, t) => external[m] # NoMail /\ external[m].ticket = t
    /\ \A m \in Mail : external[m] # NoMail =>
          /\ tickets[external[m].ticket] # NoTicket
          /\ Open(external[m].ticket) => In(m, external[m].ticket)
    /\ \A t \in Mail : tickets[t] # NoTicket => external[t] # NoMail

Kept(m) == \E t \in Mail : In(m, t) \/ tickets[t] = Erased

(* What the end of an execution says of its mail.                          *)
JobTells(m, j) ==
    /\ j.target # NoMail => tickets[j.target] # NoTicket
    /\ j.status \in {"committed", "done"} => Kept(m)
    /\ j.status = "exhausted" /\ ~SqlStore =>
          failures > 0 \/ \E t \in Mail : tickets[t] = Erased

JobsTell == \A m \in Mail : job[m] # NoJob => JobTells(m, job[m])

(* In SQLite a job opens no ticket.                                        *)
SqlOpensNone == SqlStore => \A t \in Mail : tickets[t] = NoTicket

IntakeInv ==
    IntakeTyped /\ IdentitiesMatch /\ JobsTell /\ OnlyRequesterWrites /\ SqlOpensNone

(* The jobs keep their records: a mail that has a job keeps it.            *)
JobsStay == \A m \in Mail : job[m] # NoJob => job'[m] # NoJob

LEMMA ThreadStates ==
    ASSUME IntakeInv, NEW t \in Mail
    PROVE  /\ Open(t) => tickets[t] \in Thread
           /\ ~Open(t) /\ tickets[t] # NoTicket => tickets[t] = Erased
           /\ tickets[t] \in {NoTicket, Erased} => ~Open(t)
BY DEF IntakeInv, IntakeTyped, Thread, Open, NoTicket, Erased

(* A mail that counts counts once.                                         *)
LEMMA CountedOnce ==
    ASSUME IntakeInv, NEW m \in Mail, NEW t \in Mail, In(m, t)
    PROVE  Count(t, m) = 1
<1>1. tickets[t] \in Thread
  BY ThreadStates DEF In
<1> PICK D \in SUBSET Mail : tickets[t].mails = [n \in D |-> 1]
  BY <1>1 DEF Thread
<1> QED
  BY DEF Count, In

(* The job of a mail moves on, and nothing else does.                      *)
LEMMA JobMoves ==
    ASSUME IntakeInv, NEW m \in Mail, NEW w \in IntakeJob, job' = [job EXCEPT ![m] = w],
           external' = external, tickets' = tickets, failures' \in {failures, failures + 1},
           JobTells(m, w) \/ (failures' > 0 /\ w.status = "exhausted" /\
                              (w.target # NoMail => tickets[w.target] # NoTicket))
    PROVE  IntakeInv' /\ JobsStay
<1>1. \A n \in Mail : job'[n] = IF n = m THEN w ELSE job[n]
  BY DEF IntakeInv, IntakeTyped
<1>2. w # NoJob
  BY DEF IntakeJob, NoJob
<1>3. IntakeTyped'
  BY <1>1 DEF IntakeInv, IntakeTyped
<1>4. failures > 0 => failures' > 0
  BY DEF IntakeInv, IntakeTyped
<1>5. JobsTell'
  <2> SUFFICES ASSUME NEW n \in Mail, job'[n] # NoJob
               PROVE  /\ job'[n].target # NoMail => tickets[job'[n].target] # NoTicket
                      /\ job'[n].status \in {"committed", "done"} => Kept(n)
                      /\ job'[n].status = "exhausted" /\ ~SqlStore =>
                            failures' > 0 \/ \E t \in Mail : tickets[t] = Erased
    BY DEF JobsTell, JobTells, Kept, In, Open
  <2>1. CASE n = m
    BY <1>1, <1>4, <2>1 DEF JobTells
  <2>2. CASE n # m
    BY <1>1, <1>4, <2>2 DEF IntakeInv, JobsTell, JobTells
  <2> QED
    BY <2>1, <2>2
<1>6. IdentitiesMatch' /\ OnlyRequesterWrites' /\ SqlOpensNone'
  BY DEF IntakeInv, IdentitiesMatch, OnlyRequesterWrites, SqlOpensNone, In, Open
<1>7. JobsStay
  BY <1>1, <1>2 DEF JobsStay
<1> QED
  BY <1>3, <1>5, <1>6, <1>7 DEF IntakeInv

LEMMA JobThere ==
    ASSUME IntakeInv, NEW m \in Mail, job[m] # NoJob
    PROVE  job[m] \in IntakeJob /\ JobTells(m, job[m])
BY DEF IntakeInv, IntakeTyped, JobsTell

LEMMA SubmitKeepsIntake ==
    ASSUME IntakeAssumption, IntakeInv, NEW m \in Mail, NEW d \in Digest, Submit(m, d)
    PROVE  IntakeInv' /\ JobsStay
<1> PICK w : w = [status |-> "queued", target |-> find_ticket(m), digest |-> d, tries |-> 1]
  OBVIOUS
<1>1. find_ticket(m) \in Mail \cup {NoMail}
      /\ (find_ticket(m) # NoMail => tickets[find_ticket(m)] # NoTicket)
  BY DEF IntakeAssumption, find_ticket, IntakeInv, IntakeTyped, Identity, IdentitiesMatch
<1>2. w \in IntakeJob
  BY <1>1 DEF IntakeAssumption, IntakeJob
<1>3. JobTells(m, w)
  BY <1>1 DEF JobTells
<1>4. /\ job' = [job EXCEPT ![m] = w] /\ external' = external /\ tickets' = tickets
      /\ failures' = failures
  BY DEF Submit
<1> QED
  BY <1>2, <1>3, <1>4, JobMoves

(* Settle, with nothing committed.                                         *)
LEMMA SettleKeepsIntake ==
    ASSUME IntakeInv, NEW m \in Mail, job[m] # NoJob,
           NEW status \in {"committed", "done", "failed"}, Settle(m, status),
           status # "failed" => Kept(m),
           external' = external, tickets' = tickets, failures' = failures
    PROVE  IntakeInv' /\ JobsStay
<1> PICK w : w = [job[m] EXCEPT !.status = status]
  OBVIOUS
<1>1. job[m] \in IntakeJob /\ JobTells(m, job[m])
  BY JobThere
<1>2. w \in IntakeJob /\ w.status = status /\ w.target = job[m].target
  BY <1>1 DEF IntakeJob
<1>3. JobTells(m, w)
  BY <1>1, <1>2 DEF JobTells
<1>4. job' = [job EXCEPT ![m] = w]
  BY DEF Settle
<1> QED
  BY <1>2, <1>3, <1>4, JobMoves

(* An attempt is spent: after a failure, in SQLite, or for an erased       *)
(* ticket.                                                                 *)
LEMMA RetryKeepsIntake ==
    ASSUME IntakeAssumption, IntakeInv, NEW m \in Mail, job[m] # NoJob, Retry(m),
           external' = external, tickets' = tickets, failures' \in {failures, failures + 1},
           SqlStore \/ failures' = failures + 1 \/ \E t \in Mail : tickets[t] = Erased
    PROVE  IntakeInv' /\ JobsStay
<1> PICK w : w = IF job[m].tries < MaxTries
                 THEN [job[m] EXCEPT !.status = "queued", !.tries = job[m].tries + 1]
                 ELSE [job[m] EXCEPT !.status = "exhausted"]
  OBVIOUS
<1>1. job[m] \in IntakeJob /\ JobTells(m, job[m])
  BY JobThere
<1>2. /\ w \in IntakeJob /\ w.target = job[m].target
      /\ w.status \in {"queued", "exhausted"}
  <2>1. CASE job[m].tries < MaxTries
    <3>1. w = [job[m] EXCEPT !.status = "queued", !.tries = job[m].tries + 1]
      BY <2>1
    <3>2. job[m].tries + 1 \in 1..MaxTries
      BY <1>1, <2>1 DEF IntakeAssumption, IntakeJob
    <3> QED
      BY ONLY <1>1, <3>1, <3>2 DEF IntakeJob
  <2>2. CASE ~(job[m].tries < MaxTries)
    <3>1. w = [job[m] EXCEPT !.status = "exhausted"]
      BY <2>2
    <3> QED
      BY ONLY <1>1, <3>1 DEF IntakeJob
  <2> QED
    BY <2>1, <2>2
<1>3. job' = [job EXCEPT ![m] = w]
  <2>1. CASE job[m].tries < MaxTries
    <3>1. w = [job[m] EXCEPT !.status = "queued", !.tries = job[m].tries + 1]
      BY <2>1
    <3> QED
      BY <1>1, <2>1, <3>1 DEF Retry, IntakeJob
  <2>2. CASE ~(job[m].tries < MaxTries)
    <3>1. w = [job[m] EXCEPT !.status = "exhausted"]
      BY <2>2
    <3> QED
      BY <2>2, <3>1 DEF Retry
  <2> QED
    BY <2>1, <2>2
<1>4. failures \in Nat
  BY DEF IntakeInv, IntakeTyped
<1>5. JobTells(m, w) \/ (failures' > 0 /\ w.status = "exhausted" /\
                         (w.target # NoMail => tickets[w.target] # NoTicket))
  BY <1>1, <1>2, <1>4 DEF JobTells
<1> QED
  BY <1>2, <1>3, <1>5, JobMoves

LEMMA RepeatKeepsIntake ==
    ASSUME IntakeAssumption, IntakeInv, NEW m \in Mail, job[m] # NoJob, Repeat(m)
    PROVE  IntakeInv' /\ JobsStay
<1>1. /\ external[m] # NoMail /\ external[m].ticket \in Mail
      /\ tickets[external[m].ticket] # NoTicket
      /\ Open(external[m].ticket) => Kept(m)
      /\ external' = external /\ tickets' = tickets /\ failures' = failures
  BY DEF Repeat, IntakeInv, IdentitiesMatch, IntakeTyped, Identity, Kept
<1>2. CASE external[m].digest # job[m].digest
  BY <1>1, <1>2, SettleKeepsIntake DEF Repeat
<1>3. CASE external[m].digest = job[m].digest /\ Open(external[m].ticket)
  BY <1>1, <1>3, SettleKeepsIntake DEF Repeat
<1>4. CASE external[m].digest = job[m].digest /\ ~Open(external[m].ticket)
  <2>1. tickets[external[m].ticket] = Erased
    BY <1>1, <1>4, ThreadStates
  <2> QED
    BY <1>1, <1>4, <2>1, RetryKeepsIntake DEF Repeat
<1> QED
  BY <1>2, <1>3, <1>4

(* A mail becomes a message of an open ticket, and gets its identity.      *)
Registered(m, t) ==
    /\ external' \in [Mail -> Identity \cup {NoMail}]
    /\ external'[m] # NoMail /\ external'[m].ticket = t
    /\ \A n \in Mail : n # m => external'[n] = external[n]

Appended(m, t) ==
    /\ tickets' \in [Mail -> Thread \cup {NoTicket, Erased}]
    /\ tickets'[t] \in Thread /\ tickets'[t].requester = Sender(m)
    /\ \A n \in Mail : In(n, t)' <=> In(n, t) \/ n = m
    /\ \A u \in Mail : u # t => tickets'[u] = tickets[u]

Committed(m) ==
    /\ job' \in [Mail -> IntakeJob \cup {NoJob}]
    /\ \A n \in Mail :
          /\ job'[n] # NoJob <=> job[n] # NoJob
          /\ job'[n].target = job[n].target
          /\ job'[n].status = job[n].status \/ (n = m /\ job'[n].status = "committed")

LEMMA MessageKeeps ==
    ASSUME IntakeInv, NEW m \in Mail, NEW t \in Mail, external[m] = NoMail, ~SqlStore,
           Registered(m, t), Appended(m, t), Committed(m), failures' = failures,
           \/ Open(t) /\ tickets[t].requester = Sender(m)
           \/ tickets[t] = NoTicket /\ t = m
    PROVE  IntakeInv' /\ JobsStay
<1>1. /\ external'[m] # NoMail /\ external'[m].ticket = t
      /\ \A n \in Mail : n # m => external'[n] = external[n]
  BY DEF Registered
<1>2. tickets'[t] \in Thread /\ \A u \in Mail : u # t => tickets'[u] = tickets[u]
  BY DEF Appended
<1>3. /\ Open(t)' /\ (Open(t) <=> tickets[t] # NoTicket) /\ tickets[t] # Erased
      /\ tickets'[t] # NoTicket
  BY <1>2, ThreadStates DEF Thread, Open, NoTicket, Erased
<1>4. \A n, u \in Mail : In(n, u)' <=> In(n, u) \/ (n = m /\ u = t)
  <2> SUFFICES ASSUME NEW n \in Mail, NEW u \in Mail
               PROVE  In(n, u)' <=> In(n, u) \/ (n = m /\ u = t)
    OBVIOUS
  <2>1. CASE u = t
    BY <2>1 DEF Appended
  <2>2. CASE u # t
    BY <1>2, <2>2 DEF In, Open
  <2> QED
    BY <2>1, <2>2
<1>5. \A n \in Mail : Kept(n) => Kept(n)'
  <2> SUFFICES ASSUME NEW n \in Mail, NEW u \in Mail, In(n, u) \/ tickets[u] = Erased
               PROVE  In(n, u)' \/ tickets'[u] = Erased
    BY DEF Kept
  <2> QED
    BY <1>2, <1>3, <1>4
<1>6. Kept(m)'
  BY <1>4 DEF Kept
<1>8. \A n \in Mail : job'[n] # NoJob =>
         /\ job[n] # NoJob /\ job'[n] \in IntakeJob /\ job'[n].target = job[n].target
         /\ job'[n].status = job[n].status \/ (n = m /\ job'[n].status = "committed")
  BY DEF Committed
<1>9. IntakeTyped'
  BY DEF Registered, Appended, Committed, IntakeInv, IntakeTyped
<1>10. IdentitiesMatch'
  <2>1. \A n, u \in Mail : In(n, u)' => external'[n] # NoMail /\ external'[n].ticket = u
    BY <1>1, <1>4 DEF IntakeInv, IdentitiesMatch
  <2>2. ASSUME NEW n \in Mail, external'[n] # NoMail, NEW u \in Mail, u = external'[n].ticket
        PROVE  tickets'[u] # NoTicket /\ (Open(u)' => In(n, u)')
    <3>1. CASE n = m
      BY <1>1, <1>3, <1>4, <2>2, <3>1
    <3>2. CASE n # m
      <4>1. external'[n] = external[n]
        BY <1>1, <3>2
      <4>2. tickets[u] # NoTicket /\ (Open(u) => In(n, u))
        BY <2>2, <4>1 DEF IntakeInv, IdentitiesMatch
      <4>3. CASE u = t
        BY <1>3, <1>4, <4>2, <4>3
      <4>4. CASE u # t
        BY <1>2, <1>4, <4>2, <4>4 DEF Open
      <4> QED
        BY <4>3, <4>4
    <3> QED
      BY <3>1, <3>2
  <2>3. \A n \in Mail : external'[n] # NoMail => external'[n].ticket \in Mail
    BY <1>9 DEF IntakeTyped, Identity
  <2>4. ASSUME NEW u \in Mail, tickets'[u] # NoTicket
        PROVE  external'[u] # NoMail
    <3>1. CASE u = m
      BY <1>1, <3>1
    <3>2. CASE u # m
      <4>1. tickets[u] # NoTicket
        BY <1>2, <2>4, <3>2, <1>3
      <4> QED
        BY <1>1, <3>2, <4>1 DEF IntakeInv, IdentitiesMatch
    <3> QED
      BY <3>1, <3>2
  <2> QED
    BY <2>1, <2>2, <2>3, <2>4 DEF IdentitiesMatch
<1>11. JobsTell'
  <2> SUFFICES ASSUME NEW n \in Mail, job'[n] # NoJob
               PROVE  /\ job'[n].target # NoMail => tickets'[job'[n].target] # NoTicket
                      /\ job'[n].status \in {"committed", "done"} => Kept(n)'
                      /\ job'[n].status = "exhausted" /\ ~SqlStore =>
                            failures' > 0 \/ \E u \in Mail : tickets'[u] = Erased
    BY DEF JobsTell, JobTells
  <2>1. JobTells(n, job[n])
    BY <1>8, JobThere
  <2>2. \A u \in Mail : /\ tickets[u] # NoTicket => tickets'[u] # NoTicket
                        /\ tickets[u] = Erased => tickets'[u] = Erased
    BY <1>2, <1>3
  <2>3. job'[n].target \in Mail \cup {NoMail}
    BY <1>8 DEF IntakeJob
  <2>4. job'[n].target # NoMail => tickets'[job'[n].target] # NoTicket
    BY <1>8, <2>1, <2>2, <2>3 DEF JobTells
  <2>5. job'[n].status \in {"committed", "done"} => Kept(n)'
    BY <1>5, <1>6, <1>8, <2>1 DEF JobTells
  <2>6. job'[n].status = "exhausted" /\ ~SqlStore =>
           failures' > 0 \/ \E u \in Mail : tickets'[u] = Erased
    BY <1>8, <2>1, <2>2 DEF JobTells
  <2> QED
    BY <2>4, <2>5, <2>6
<1>12. OnlyRequesterWrites'
  <2> SUFFICES ASSUME NEW n \in Mail, NEW u \in Mail, In(n, u)'
               PROVE  Sender(n) = tickets'[u].requester
    BY DEF OnlyRequesterWrites
  <2>1. CASE u = t
    <3>1. In(n, t) => Sender(n) = tickets[t].requester /\ Open(t)
      BY DEF IntakeInv, OnlyRequesterWrites, In
    <3> QED
      BY <1>3, <1>4, <2>1, <3>1 DEF Appended
  <2>2. CASE u # t
    BY <1>2, <1>4, <2>2 DEF IntakeInv, OnlyRequesterWrites
  <2> QED
    BY <2>1, <2>2
<1>13. JobsStay
  BY DEF Committed, JobsStay
<1> QED
  BY <1>9, <1>10, <1>11, <1>12, <1>13 DEF IntakeInv, SqlOpensNone

LEMMA IdentityWritten ==
    ASSUME IntakeAssumption, IntakeInv, NEW m \in Mail, NEW t \in Mail, NEW d \in Digest,
           external' = [external EXCEPT ![m] = [ticket |-> t, digest |-> d]]
    PROVE  Registered(m, t)
<1> PICK i : i = [ticket |-> t, digest |-> d]
  OBVIOUS
<1>1. i \in Identity /\ i # NoMail /\ i.ticket = t
  BY DEF IntakeAssumption, Identity
<1> QED
  BY <1>1 DEF Registered, IntakeInv, IntakeTyped

LEMMA JobCommitted ==
    ASSUME IntakeInv, NEW m \in Mail, job[m] # NoJob, Settle(m, "committed")
    PROVE  Committed(m)
<1> PICK w : w = [job[m] EXCEPT !.status = "committed"]
  OBVIOUS
<1>1. w \in IntakeJob /\ w.target = job[m].target /\ w.status = "committed"
  BY JobThere DEF IntakeJob
<1>2. w # NoJob
  BY <1>1 DEF IntakeJob, NoJob
<1> QED
  BY <1>1, <1>2 DEF Settle, Committed, IntakeInv, IntakeTyped

(* What With leaves: the conversation of an open ticket has one more mail. *)
LEMMA MailAppended ==
    ASSUME IntakeInv, NEW m \in Mail, NEW t \in Mail, Open(t), external[m] = NoMail,
           tickets[t].requester = Sender(m), tickets' = With(t, m)
    PROVE  Appended(m, t)
<1>1. tickets[t] \in Thread /\ m \notin DOMAIN tickets[t].mails
  BY ThreadStates DEF IntakeInv, IdentitiesMatch, In
<1> PICK D \in SUBSET Mail : tickets[t].mails = [n \in D |-> 1]
  BY <1>1 DEF Thread
<1> PICK mails : mails = [n \in D \cup {m} |-> 1]
  OBVIOUS
<1>2. mails = [n \in DOMAIN tickets[t].mails \cup {m} |->
                  IF n = m THEN Count(t, m) + 1 ELSE tickets[t].mails[n]]
  BY <1>1 DEF Count
<1> PICK w : w = [tickets[t] EXCEPT !.mails = mails]
  OBVIOUS
<1>3. tickets' = [tickets EXCEPT ![t] = w]
  BY <1>2 DEF With
<1>4. w \in Thread /\ w.requester = tickets[t].requester /\ w.mails = mails
  BY <1>1 DEF Thread
<1>5. DOMAIN mails = {m} \cup DOMAIN tickets[t].mails
  OBVIOUS
<1>6. /\ tickets' \in [Mail -> Thread \cup {NoTicket, Erased}] /\ tickets'[t] = w
      /\ \A u \in Mail : u # t => tickets'[u] = tickets[u]
  BY <1>3, <1>4 DEF IntakeInv, IntakeTyped
<1>7. w.status = "open"
  BY <1>4 DEF Thread
<1>8. \A n \in Mail : In(n, t)' <=> In(n, t) \/ n = m
  BY <1>4, <1>5, <1>6, <1>7 DEF In, Open
<1> QED
  BY <1>4, <1>6, <1>8 DEF Appended

LEMMA OpenTicketKeepsIntake ==
    ASSUME IntakeAssumption, IntakeInv, NEW m \in Mail, job[m] # NoJob, OpenTicket(m)
    PROVE  IntakeInv' /\ JobsStay
<1>1. external[m] = NoMail /\ failures' = failures /\ tickets[m] = NoTicket
  BY DEF OpenTicket, IntakeInv, IdentitiesMatch
<1>2. CASE SqlStore
  BY <1>1, <1>2, RetryKeepsIntake DEF OpenTicket
<1>3. CASE ~SqlStore
  <2> PICK mails : mails = [n \in {m} |-> 1]
    OBVIOUS
  <2> PICK w : w = [status |-> "open", requester |-> Sender(m), mails |-> mails]
    OBVIOUS
  <2>1. w \in Thread /\ w.requester = Sender(m) /\ DOMAIN w.mails = {m}
    BY DEF Thread
  <2>2. tickets' = [tickets EXCEPT ![m] = w] /\ Settle(m, "committed")
    BY <1>3 DEF OpenTicket
  <2>3. Registered(m, m)
    <3>1. job[m].digest \in Digest
      BY JobThere DEF IntakeJob
    <3>2. external' = [external EXCEPT ![m] = [ticket |-> m, digest |-> job[m].digest]]
      BY <1>3 DEF OpenTicket, Register
    <3> QED
      BY <3>1, <3>2, IdentityWritten
  <2>4. Appended(m, m)
    <3>1. /\ tickets' \in [Mail -> Thread \cup {NoTicket, Erased}] /\ tickets'[m] = w
          /\ \A u \in Mail : u # m => tickets'[u] = tickets[u]
      BY <2>1, <2>2 DEF IntakeInv, IntakeTyped
    <3>2. ~Open(m) /\ w.status = "open"
      BY <1>1, <2>1, ThreadStates DEF Thread
    <3> QED
      BY <2>1, <3>1, <3>2 DEF Appended, In, Open
  <2> QED
    BY <1>1, <1>3, <2>2, <2>3, <2>4, JobCommitted, MessageKeeps
<1> QED
  BY <1>2, <1>3

LEMMA IngestKeepsIntake ==
    ASSUME IntakeAssumption, IntakeInv, NEW m \in Mail, job[m] # NoJob, job[m].target # NoMail,
           Open(job[m].target), SenderAllowed(m), Ingest(m)
    PROVE  IntakeInv' /\ JobsStay
<1> PICK t : t = job[m].target
  OBVIOUS
<1>1. t \in Mail /\ job[m].digest \in Digest
  BY JobThere DEF IntakeJob
<1>2. Open(t) /\ ~SqlStore
  BY <1>1 DEF Open, NoTicket, IntakeInv, SqlOpensNone
<1>3. /\ external[m] = NoMail /\ failures' = failures /\ tickets' = With(t, m)
      /\ external' = [external EXCEPT ![m] = [ticket |-> t, digest |-> job[m].digest]]
      /\ Settle(m, "committed") /\ tickets[t].requester = Sender(m)
  BY DEF Ingest, Register, SenderAllowed
<1>4. Registered(m, t)
  BY <1>1, <1>3, IdentityWritten
<1>5. Appended(m, t)
  BY <1>1, <1>2, <1>3, MailAppended
<1>6. Committed(m)
  BY <1>3, JobCommitted
<1> QED
  BY <1>1, <1>2, <1>3, <1>4, <1>5, <1>6, MessageKeeps

LEMMA PostKeepsIntake ==
    ASSUME IntakeAssumption, IntakeInv, NEW m \in Mail, NEW d \in Digest, NEW t \in Mail,
           Post(m, d, t)
    PROVE  IntakeInv' /\ JobsStay
<1>1. /\ external[m] = NoMail /\ failures' = failures /\ tickets' = With(t, m)
      /\ external' = [external EXCEPT ![m] = [ticket |-> t, digest |-> d]]
      /\ job' = job /\ tickets[t].requester = Sender(m) /\ Open(t)
  BY DEF Post
<1>2. ~SqlStore
  BY <1>1 DEF Open, NoTicket, IntakeInv, SqlOpensNone
<1>3. Registered(m, t)
  BY <1>1, IdentityWritten
<1>4. Appended(m, t)
  BY <1>1, MailAppended
<1>5. Committed(m)
  BY <1>1 DEF Committed, IntakeInv, IntakeTyped
<1> QED
  BY <1>1, <1>2, <1>3, <1>4, <1>5, MessageKeeps

LEMMA ProcessKeepsIntake ==
    ASSUME IntakeAssumption, IntakeInv, NEW m \in Mail, Process(m)
    PROVE  IntakeInv' /\ JobsStay
<1>1. job[m] # NoJob /\ job[m].target \in Mail \cup {NoMail}
  <2>1. job[m] # NoJob
    BY DEF Process, NoJob
  <2> QED
    BY <2>1, JobThere DEF IntakeJob
<1>2. CASE job[m].target = NoMail
  BY <1>1, <1>2, RepeatKeepsIntake, OpenTicketKeepsIntake DEF Process
<1>3. CASE job[m].target # NoMail /\ ~Open(job[m].target)
  <2>1. tickets[job[m].target] = Erased
    BY <1>1, <1>3, JobThere, ThreadStates DEF JobTells
  <2>2. /\ Retry(m) /\ external' = external /\ tickets' = tickets /\ failures' = failures
    BY <1>3 DEF Process
  <2> QED
    BY <1>1, <1>3, <2>1, <2>2, RetryKeepsIntake
<1>4. CASE job[m].target # NoMail /\ Open(job[m].target) /\ ~SenderAllowed(m)
  BY <1>1, <1>4, SettleKeepsIntake DEF Process
<1>5. CASE job[m].target # NoMail /\ Open(job[m].target) /\ SenderAllowed(m)
  BY <1>1, <1>5, RepeatKeepsIntake, IngestKeepsIntake DEF Process
<1> QED
  BY <1>2, <1>3, <1>4, <1>5

LEMMA FinishKeepsIntake ==
    ASSUME IntakeInv, NEW m \in Mail, Finish(m)
    PROVE  IntakeInv' /\ JobsStay
<1>1. job[m] # NoJob /\ job[m].status = "committed"
  BY DEF Finish, NoJob
<1>2. Kept(m)
  BY <1>1, JobThere DEF JobTells
<1> QED
  BY <1>1, <1>2, SettleKeepsIntake DEF Finish

LEMMA LoseKeepsIntake ==
    ASSUME IntakeAssumption, IntakeInv, NEW m \in Mail, Lose(m)
    PROVE  IntakeInv' /\ JobsStay
<1>1. job[m] # NoJob
  BY DEF Lose, Active, NoJob
<1> QED
  BY <1>1, RetryKeepsIntake DEF Lose

LEMMA EraseKeepsIntake ==
    ASSUME IntakeInv, NEW t \in Mail, Erase(t)
    PROVE  IntakeInv' /\ JobsStay
<1>1. /\ ~SqlStore /\ external' = external /\ job' = job /\ failures' = failures
      /\ tickets' = [tickets EXCEPT ![t] = Erased]
  BY DEF Erase, Open, NoTicket, IntakeInv, SqlOpensNone
<1>2. \A u \in Mail : tickets'[u] = IF u = t THEN Erased ELSE tickets[u]
  BY <1>1 DEF IntakeInv, IntakeTyped
<1>3. /\ ~Open(t)' /\ Erased # NoTicket
      /\ \A u \in Mail : u # t => (Open(u)' <=> Open(u))
  BY <1>2 DEF Open, Erased, NoTicket
<1>4. \A n, u \in Mail : In(n, u)' <=> In(n, u) /\ u # t
  BY <1>2, <1>3 DEF In
<1>5. IntakeTyped'
  BY <1>1 DEF IntakeInv, IntakeTyped
<1>6. \A n \in Mail : external[n] # NoMail => external[n].ticket \in Mail
  BY DEF IntakeInv, IntakeTyped, Identity
<1>7. IdentitiesMatch'
  <2>1. \A u \in Mail : tickets'[u] # NoTicket <=> tickets[u] # NoTicket
    BY <1>2, <1>3 DEF Erase, Open, NoTicket
  <2>2. ASSUME NEW n \in Mail, external[n] # NoMail, NEW u \in Mail, u = external[n].ticket
        PROVE  tickets'[u] # NoTicket /\ (Open(u)' => In(n, u)')
    BY <1>3, <1>4, <2>1, <2>2 DEF IntakeInv, IdentitiesMatch
  <2>3. /\ \A n, u \in Mail : In(n, u)' => external'[n] # NoMail /\ external'[n].ticket = u
        /\ \A u \in Mail : tickets'[u] # NoTicket => external'[u] # NoMail
    BY <1>1, <1>4, <2>1 DEF IntakeInv, IdentitiesMatch
  <2> QED
    BY <1>1, <1>6, <2>2, <2>3 DEF IdentitiesMatch
<1>8. JobsTell'
  <2> SUFFICES ASSUME NEW n \in Mail, job[n] # NoJob
               PROVE  /\ job[n].target # NoMail => tickets'[job[n].target] # NoTicket
                      /\ job[n].status \in {"committed", "done"} => Kept(n)'
                      /\ job[n].status = "exhausted" /\ ~SqlStore =>
                            failures > 0 \/ \E u \in Mail : tickets'[u] = Erased
    BY <1>1 DEF JobsTell, JobTells
  <2>1. tickets'[t] = Erased
    BY <1>2
  <2>2. job[n].target # NoMail => job[n].target \in Mail /\ tickets[job[n].target] # NoTicket
    BY JobThere DEF JobTells, IntakeJob
  <2>3. Kept(n)'
    BY <2>1 DEF Kept
  <2> QED
    BY <1>2, <1>3, <2>1, <2>2, <2>3
<1>9. OnlyRequesterWrites'
  BY <1>2, <1>4 DEF IntakeInv, OnlyRequesterWrites
<1> QED
  BY <1>1, <1>5, <1>7, <1>8, <1>9 DEF IntakeInv, SqlOpensNone, JobsStay

LEMMA IntakeStands ==
    ASSUME IntakeInv, UNCHANGED intakeVars
    PROVE  IntakeInv' /\ JobsStay
BY DEF intakeVars, IntakeInv, IntakeTyped, IdentitiesMatch, JobsTell, JobTells, Kept,
       OnlyRequesterWrites, SqlOpensNone, In, Open, JobsStay

LEMMA IntakeStep ==
    ASSUME IntakeAssumption, IntakeInv, [IntakeNext]_intakeVars
    PROVE  IntakeInv' /\ JobsStay
<1>1. CASE UNCHANGED intakeVars
  BY <1>1, IntakeStands
<1>2. CASE IntakeNext
  BY <1>2, SubmitKeepsIntake, ProcessKeepsIntake, FinishKeepsIntake, LoseKeepsIntake,
     PostKeepsIntake, EraseKeepsIntake DEF IntakeNext
<1> QED
  BY <1>1, <1>2

LEMMA IntakeInitially ==
    ASSUME IntakeInit
    PROVE  IntakeInv
<1>1. \A m \in Mail : ~Open(m)
  BY DEF IntakeInit, Open, NoTicket
<1> QED
  BY <1>1 DEF IntakeInit, IntakeInv, IntakeTyped, IdentitiesMatch, JobsTell,
              OnlyRequesterWrites, SqlOpensNone, In

LEMMA IntakeInvImplies ==
    ASSUME IntakeInv
    PROVE  /\ IntakeTypeOK /\ OneMessagePerMail /\ DoneIsKept /\ OnlyRequesterWrites
           /\ ~SqlStore => ExhaustedByFailure
<1>1. IntakeTypeOK
  <2>1. \A t \in Mail : Open(t) => DOMAIN tickets[t].mails \subseteq Mail
    BY ThreadStates DEF Thread
  <2>2. \A m \in Mail : job[m] # NoJob => job[m].tries \in 1..MaxTries
    BY JobThere DEF IntakeJob
  <2> QED
    BY <2>1, <2>2 DEF IntakeInv, IntakeTyped, Identity, IntakeTypeOK
<1>2. OneMessagePerMail
  BY CountedOnce DEF OneMessagePerMail, IntakeInv, IdentitiesMatch
<1>3. DoneIsKept
  BY JobThere DEF DoneIsKept, JobTells, Kept, NoJob
<1>4. ~SqlStore => ExhaustedByFailure
  BY JobThere DEF ExhaustedByFailure, JobTells, NoJob
<1> QED
  BY <1>1, <1>2, <1>3, <1>4 DEF IntakeInv

-----------------------------------------------------------------------------
(* Inbound mail: the notifications.                                        *)

WakeTyped ==
    /\ queue \in [Message -> [place : {"waiting", "held", "deleted", "dead"},
                              receives : 0..MaxReceives]]
    /\ \A n \in Message : queue[n].place = "waiting" => queue[n].receives < MaxReceives
    /\ \A i \in Invocation : \A n \in Messages(i) :
          n \in Message /\ batch[i][n] \in Rejected..Handled(n)

(* A message is with one invocation.                                       *)
HeldOnce ==
    /\ DOMAIN batch = Invocation
    /\ \A n \in Message : queue[n].place = "held" <=> \E i \in Invocation : n \in Messages(i)
    /\ \A i, j \in Invocation : \A n \in Messages(i) : n \in Messages(j) => i = j

(* The mails an invocation is past have their jobs.                        *)
PastIsQueued ==
    \A i \in Invocation : \A n \in Messages(i) : \A k \in 1..Len(Mails(n)) :
        k < batch[i][n] => job[Mails(n)[k]] # NoJob

(* On a FIFO queue: an invocation has the messages of a group that are not *)
(* over, from the first on, and handles them in their order.               *)
FifoInOrder ==
    fifo => \A i \in Invocation : \A n \in Messages(i) :
       /\ \A k \in Earlier(n) : k \in Messages(i) \/ queue[k].place \in {"deleted", "dead"}
       /\ batch[i][n] # Todo =>
             \A k \in Messages(i) : k < n => batch[i][k] = Handled(k)

WakeInv ==
    WakeTyped /\ HeldOnce /\ PastIsQueued /\ DeletedIsQueued /\ FifoInOrder

LEMMA MailsNamed ==
    ASSUME WakeAssumption, NEW n \in Message
    PROVE  /\ Len(Mails(n)) \in Nat \ {0} /\ Handled(n) \in Nat /\ Handled(n) > 1
           /\ Handled(n) = Len(Mails(n)) + 1 /\ n \in Nat
           /\ \A k \in 1..Len(Mails(n)) : Mails(n)[k] \in Mail
<1>1. Mails(n) \in Seq(Mail) /\ Mails(n) # <<>> /\ n \in Nat
  BY DEF WakeAssumption
<1>2. Len(Mails(n)) \in Nat /\ Len(Mails(n)) # 0
      /\ \A k \in 1..Len(Mails(n)) : Mails(n)[k] \in Mail
  BY <1>1
<1> QED
  BY <1>1, <1>2 DEF Handled

(* What the other protocols of the mail do to the notifications.           *)
LEMMA WakeStands ==
    ASSUME WakeAssumption, WakeInv, JobsStay, UNCHANGED workerVars
    PROVE  WakeInv'
<1>1. batch' = batch /\ queue' = queue /\ fifo' = fifo
  BY DEF workerVars
<1>2. PastIsQueued'
  BY <1>1, MailsNamed DEF WakeInv, WakeTyped, PastIsQueued, JobsStay, Messages
<1>3. DeletedIsQueued'
  BY <1>1, MailsNamed DEF WakeInv, DeletedIsQueued, JobsStay
<1>4. WakeTyped' /\ HeldOnce'
  BY <1>1 DEF WakeInv, WakeTyped, HeldOnce, Messages
<1>5. FifoInOrder'
  BY <1>1 DEF WakeInv, FifoInOrder, Messages, Earlier
<1> QED
  BY <1>2, <1>3, <1>4, <1>5 DEF WakeInv

(* A message is taken a step further.                                      *)
LEMMA MessageMoves ==
    ASSUME WakeAssumption, WakeInv, JobsStay, NEW i \in Invocation, NEW n \in Messages(i),
           NEW p \in Rejected..Handled(n), batch' = [batch EXCEPT ![i][n] = p],
           queue' = queue, fifo' = fifo, batch[i][n] # Handled(n),
           \A k \in 1..Len(Mails(n)) : k < p => job'[Mails(n)[k]] # NoJob,
           fifo => batch[i][n] # Todo \/ \A k \in Messages(i) : k < n => batch[i][k] = Handled(k)
    PROVE  WakeInv'
<1>1. /\ DOMAIN batch' = Invocation
      /\ \A j \in Invocation : Messages(j)' = Messages(j)
      /\ \A j \in Invocation : \A m \in Messages(j) :
            batch'[j][m] = IF j = i /\ m = n THEN p ELSE batch[j][m]
  <2>1. DOMAIN batch = Invocation
    BY DEF WakeInv, HeldOnce
  <2>2. batch'[i] = [batch[i] EXCEPT ![n] = p] /\ \A j \in Invocation : j # i => batch'[j] = batch[j]
    BY <2>1
  <2> QED
    BY <2>1, <2>2 DEF Messages
<1>2. WakeTyped'
  BY <1>1 DEF WakeInv, WakeTyped
<1>3. HeldOnce'
  BY <1>1 DEF WakeInv, HeldOnce
<1>4. PastIsQueued'
  <2> SUFFICES ASSUME NEW j \in Invocation, NEW m \in Messages(j), NEW k \in 1..Len(Mails(m)),
                      k < batch'[j][m]
               PROVE  job'[Mails(m)[k]] # NoJob
    BY <1>1 DEF PastIsQueued
  <2>1. CASE j = i /\ m = n
    BY <1>1, <2>1
  <2>2. CASE ~(j = i /\ m = n)
    <3>1. job[Mails(m)[k]] # NoJob
      BY <1>1, <2>2 DEF WakeInv, PastIsQueued
    <3>2. Mails(m)[k] \in Mail
      BY MailsNamed DEF WakeInv, WakeTyped
    <3> QED
      BY <3>1, <3>2 DEF JobsStay
  <2> QED
    BY <2>1, <2>2
<1>5. DeletedIsQueued'
  BY MailsNamed DEF WakeInv, DeletedIsQueued, JobsStay
<1>6. FifoInOrder'
  <2> SUFFICES ASSUME fifo, NEW j \in Invocation, NEW m \in Messages(j)
               PROVE  /\ \A k \in Earlier(m) :
                            k \in Messages(j) \/ queue[k].place \in {"deleted", "dead"}
                      /\ batch'[j][m] # Todo =>
                            \A k \in Messages(j) : k < m => batch'[j][k] = Handled(k)
    BY <1>1 DEF FifoInOrder, Earlier
  <2>1. \A k \in Earlier(m) : k \in Messages(j) \/ queue[k].place \in {"deleted", "dead"}
    BY DEF WakeInv, FifoInOrder
  <2>2. ASSUME batch'[j][m] # Todo, NEW k \in Messages(j), k < m
        PROVE  batch'[j][k] = Handled(k)
    <3>1. batch[j][k] = Handled(k)
      <4>1. CASE j = i /\ m = n
        BY <2>2, <4>1 DEF WakeInv, FifoInOrder
      <4>2. CASE ~(j = i /\ m = n)
        BY <1>1, <2>2, <4>2 DEF WakeInv, FifoInOrder
      <4> QED
        BY <4>1, <4>2
    <3> QED
      BY <1>1, <3>1
  <2> QED
    BY <2>1, <2>2
<1> QED
  BY <1>2, <1>3, <1>4, <1>5, <1>6 DEF WakeInv

LEMMA MessageThere ==
    ASSUME WakeAssumption, WakeInv, NEW i \in Invocation, NEW n \in Messages(i)
    PROVE  /\ n \in Message /\ batch[i][n] \in Rejected..Handled(n)
           /\ Len(Mails(n)) \in Nat \ {0} /\ Handled(n) = Len(Mails(n)) + 1
           /\ Rejected = -1 /\ Todo = 0
           /\ Running(i, n) => batch[i][n] \in 1..Len(Mails(n))
BY MailsNamed DEF WakeInv, WakeTyped, Rejected, Todo, Running

LEMMA StartKeepsWake ==
    ASSUME WakeAssumption, WakeInv, JobsStay, NEW i \in Invocation, NEW n \in Messages(i),
           Start(i, n)
    PROVE  WakeInv'
<1>1. /\ batch[i][n] = Todo /\ batch' = [batch EXCEPT ![i][n] = 1]
      /\ queue' = queue /\ fifo' = fifo
  BY DEF Start
<1>2. 1 \in Rejected..Handled(n) /\ batch[i][n] # Handled(n)
      /\ \A k \in 1..Len(Mails(n)) : ~(k < 1)
  BY <1>1, MessageThere
<1>3. fifo => \A k \in Messages(i) : k < n => batch[i][k] = Handled(k)
  BY DEF Start, MayStart
<1> QED
  BY <1>1, <1>2, <1>3, MessageMoves

LEMMA HandleFailsKeepsWake ==
    ASSUME WakeAssumption, WakeInv, JobsStay, NEW i \in Invocation, NEW n \in Messages(i),
           Running(i, n), HandleFails(i, n), queue' = queue, fifo' = fifo
    PROVE  WakeInv'
<1>1. batch' = [batch EXCEPT ![i][n] = Rejected]
  BY DEF HandleFails
<1>2. /\ Rejected \in Rejected..Handled(n) /\ batch[i][n] # Handled(n) /\ batch[i][n] # Todo
      /\ \A k \in 1..Len(Mails(n)) : ~(k < Rejected)
  BY MessageThere
<1> QED
  BY <1>1, <1>2, MessageMoves

LEMMA AdvanceKeepsWake ==
    ASSUME WakeAssumption, WakeInv, JobsStay, NEW i \in Invocation, NEW n \in Messages(i),
           Running(i, n), Advance(i, n), queue' = queue, fifo' = fifo,
           job'[Mails(n)[batch[i][n]]] # NoJob
    PROVE  WakeInv'
<1> PICK p : p = batch[i][n] + 1
  OBVIOUS
<1>1. batch' = [batch EXCEPT ![i][n] = p]
  BY DEF Advance
<1>2. /\ p \in Rejected..Handled(n) /\ batch[i][n] # Handled(n) /\ batch[i][n] # Todo
      /\ batch[i][n] \in Int
  BY MessageThere
<1>3. \A k \in 1..Len(Mails(n)) : k < p => job'[Mails(n)[k]] # NoJob
  <2> SUFFICES ASSUME NEW k \in 1..Len(Mails(n)), k < p
               PROVE  job'[Mails(n)[k]] # NoJob
    OBVIOUS
  <2>1. CASE k = batch[i][n]
    BY <2>1
  <2>2. CASE k # batch[i][n]
    <3>1. k < batch[i][n]
      BY <1>2, <2>2
    <3>2. job[Mails(n)[k]] # NoJob
      BY <3>1 DEF WakeInv, PastIsQueued
    <3>3. Mails(n)[k] \in Mail
      BY MailsNamed, MessageThere
    <3> QED
      BY <3>2, <3>3 DEF JobsStay
  <2> QED
    BY <2>1, <2>2
<1> QED
  BY <1>1, <1>2, <1>3, MessageMoves

LEMMA ReceiveKeepsWake ==
    ASSUME WakeAssumption, WakeInv, JobsStay, NEW i \in Invocation, NEW taken \in SUBSET Message,
           Receive(i, taken)
    PROVE  WakeInv'
<1> PICK b : b = [n \in taken |-> Todo]
  OBVIOUS
<1>1. /\ batch' = [batch EXCEPT ![i] = b] /\ fifo' = fifo /\ Messages(i) = {}
      /\ \A n \in taken : queue[n].place = "waiting"
      /\ queue' = [n \in Message |->
            IF n \in taken THEN [place |-> "held", receives |-> queue[n].receives + 1]
            ELSE queue[n]]
  BY DEF Receive
<1>2. /\ DOMAIN batch' = Invocation /\ Messages(i)' = taken
      /\ \A n \in taken : batch'[i][n] = Todo
      /\ \A j \in Invocation : j # i => batch'[j] = batch[j] /\ Messages(j)' = Messages(j)
  BY <1>1 DEF WakeInv, HeldOnce, Messages
<1>3. \A j \in Invocation : j # i => Messages(j) \cap taken = {}
  BY <1>1 DEF WakeInv, WakeTyped, HeldOnce
<1>4. \A n \in Message :
         /\ n \in taken => queue[n].receives < MaxReceives /\ queue'[n].place = "held"
                           /\ queue'[n].receives = queue[n].receives + 1
         /\ n \notin taken => queue'[n] = queue[n]
  BY <1>1 DEF WakeInv, WakeTyped
<1>5. WakeTyped'
  <2>1. queue' \in [Message -> [place : {"waiting", "held", "deleted", "dead"},
                                receives : 0..MaxReceives]]
    BY <1>1, <1>4 DEF WakeInv, WakeTyped, WakeAssumption
  <2>2. \A j \in Invocation : \A n \in Messages(j)' :
           n \in Message /\ batch'[j][n] \in Rejected..Handled(n)
    <3>1. \A n \in taken : Todo \in Rejected..Handled(n)
      BY MailsNamed DEF Todo, Rejected
    <3> QED
      BY <1>2, <3>1 DEF WakeInv, WakeTyped
  <2>3. \A n \in Message : queue'[n].place = "waiting" => queue'[n].receives < MaxReceives
    BY <1>4 DEF WakeInv, WakeTyped
  <2> QED
    BY <2>1, <2>2, <2>3 DEF WakeTyped
<1>6. HeldOnce'
  <2>1. ASSUME NEW n \in Message
        PROVE  queue'[n].place = "held" <=> \E j \in Invocation : n \in Messages(j)'
    <3>1. CASE n \in taken
      BY <1>2, <1>4, <3>1
    <3>2. CASE n \notin taken
      <4>1. \A j \in Invocation : n \in Messages(j)' <=> n \in Messages(j)
        BY <1>1, <1>2, <3>2
      <4> QED
        BY <1>4, <3>2, <4>1 DEF WakeInv, HeldOnce
    <3> QED
      BY <3>1, <3>2
  <2>2. ASSUME NEW j \in Invocation, NEW l \in Invocation, NEW n \in Messages(j)',
               n \in Messages(l)'
        PROVE  j = l
    <3>1. CASE j = i \/ l = i
      BY <1>2, <1>3, <2>2, <3>1
    <3>2. CASE j # i /\ l # i
      BY <1>2, <2>2, <3>2 DEF WakeInv, HeldOnce
    <3> QED
      BY <3>1, <3>2
  <2> QED
    BY <1>2, <2>1, <2>2 DEF HeldOnce
<1>7. PastIsQueued'
  <2> SUFFICES ASSUME NEW j \in Invocation, NEW n \in Messages(j)', NEW k \in 1..Len(Mails(n)),
                      k < batch'[j][n]
               PROVE  job'[Mails(n)[k]] # NoJob
    BY DEF PastIsQueued
  <2>0. n \in Message /\ k \in Nat \ {0} /\ Mails(n)[k] \in Mail
    <3>1. n \in Message
      BY <1>5 DEF WakeTyped
    <3> QED
      BY <3>1, MailsNamed
  <2>1. j # i
    BY <1>2, <2>0 DEF Todo
  <2>2. job[Mails(n)[k]] # NoJob /\ Mails(n)[k] \in Mail
    BY <1>2, <2>0, <2>1 DEF WakeInv, PastIsQueued
  <2> QED
    BY <2>2 DEF JobsStay
<1>8. DeletedIsQueued'
  BY <1>4, MailsNamed DEF WakeInv, DeletedIsQueued, JobsStay
<1>9. FifoInOrder'
  <2> SUFFICES ASSUME fifo, NEW j \in Invocation, NEW n \in Messages(j)'
               PROVE  /\ \A k \in Earlier(n) :
                            k \in Messages(j)' \/ queue'[k].place \in {"deleted", "dead"}
                      /\ batch'[j][n] # Todo =>
                            \A k \in Messages(j)' : k < n => batch'[j][k] = Handled(k)
    BY <1>1 DEF FifoInOrder, Earlier
  <2>1. Earlier(n) \subseteq Message
    BY DEF Earlier
  <2>2. \A k \in Message : queue[k].place \in {"deleted", "dead"} =>
                           queue'[k].place \in {"deleted", "dead"}
    BY <1>1, <1>4
  <2>3. CASE j = i
    <3>1. \A k \in Earlier(n) \ taken : queue[k].place \in {"deleted", "dead"}
      BY <1>2, <2>3 DEF Receive
    <3> QED
      BY <1>2, <2>1, <2>2, <2>3, <3>1
  <2>4. CASE j # i
    <3>1. /\ \A k \in Earlier(n) : k \in Messages(j) \/ queue[k].place \in {"deleted", "dead"}
          /\ batch[j][n] # Todo => \A k \in Messages(j) : k < n => batch[j][k] = Handled(k)
      BY <1>2, <2>4 DEF WakeInv, FifoInOrder
    <3> QED
      BY <1>2, <2>1, <2>2, <2>4, <3>1
  <2> QED
    BY <2>3, <2>4
<1> QED
  BY <1>5, <1>6, <1>7, <1>8, <1>9 DEF WakeInv

(* An invocation is over: what was handled may be deleted, the rest is not.*)
LEMMA ReturnKeepsWake ==
    ASSUME WakeAssumption, WakeInv, JobsStay, NEW i \in Invocation,
           NEW deleted \in SUBSET Messages(i), \A n \in deleted : batch[i][n] = Handled(n),
           Return(Messages(i) \ deleted, deleted), batch' = [batch EXCEPT ![i] = <<>>],
           fifo' = fifo
    PROVE  WakeInv'
<1>1. /\ DOMAIN batch' = Invocation /\ Messages(i)' = {}
      /\ \A j \in Invocation : j # i => batch'[j] = batch[j] /\ Messages(j)' = Messages(j)
  BY DEF WakeInv, HeldOnce, Messages
<1>2. \A n \in Message :
         /\ n \notin Messages(i) => queue'[n] = queue[n]
         /\ n \in Messages(i) =>
               /\ queue'[n].receives = queue[n].receives
               /\ n \in deleted => queue'[n].place = "deleted"
               /\ n \notin deleted =>
                     queue'[n].place = IF queue[n].receives < MaxReceives THEN "waiting" ELSE "dead"
  BY DEF Return, WakeInv, WakeTyped
<1>3. WakeTyped'
  <2>1. queue' \in [Message -> [place : {"waiting", "held", "deleted", "dead"},
                                receives : 0..MaxReceives]]
    BY DEF Return, WakeInv, WakeTyped
  <2>2. \A n \in Message : queue'[n].place = "waiting" => queue'[n].receives < MaxReceives
    BY <1>2 DEF WakeInv, WakeTyped
  <2> QED
    BY <1>1, <2>1, <2>2 DEF WakeInv, WakeTyped
<1>4. HeldOnce'
  <2>1. \A n \in Message : queue'[n].place = "held" <=>
                           queue[n].place = "held" /\ n \notin Messages(i)
    BY <1>2 DEF WakeInv, WakeTyped, HeldOnce
  <2>2. \A n : (\E j \in Invocation : n \in Messages(j)') <=>
               (n \notin Messages(i) /\ \E j \in Invocation : n \in Messages(j))
    BY <1>1 DEF WakeInv, HeldOnce
  <2> QED
    BY <1>1, <2>1, <2>2 DEF WakeInv, HeldOnce
<1>5. PastIsQueued'
  <2> SUFFICES ASSUME NEW j \in Invocation, NEW n \in Messages(j)', NEW k \in 1..Len(Mails(n)),
                      k < batch'[j][n]
               PROVE  job'[Mails(n)[k]] # NoJob
    BY DEF PastIsQueued
  <2>0. n \in Message
    BY <1>3 DEF WakeTyped
  <2>1. job[Mails(n)[k]] # NoJob /\ Mails(n)[k] \in Mail
    BY <1>1, <2>0, MailsNamed DEF WakeInv, PastIsQueued
  <2> QED
    BY <2>1 DEF JobsStay
<1>6. DeletedIsQueued'
  <2> SUFFICES ASSUME NEW n \in Message, queue'[n].place = "deleted",
                      NEW k \in 1..Len(Mails(n))
               PROVE  job'[Mails(n)[k]] # NoJob
    BY DEF DeletedIsQueued
  <2>1. job[Mails(n)[k]] # NoJob
    <3>1. CASE n \in deleted
      <4>1. k < batch[i][n]
        BY <3>1, MailsNamed
      <4> QED
        BY <3>1, <4>1 DEF WakeInv, PastIsQueued
    <3>2. CASE n \notin deleted
      BY <1>2, <3>2 DEF WakeInv, DeletedIsQueued
    <3> QED
      BY <3>1, <3>2
  <2> QED
    BY <2>1, MailsNamed DEF JobsStay
<1>7. FifoInOrder'
  <2> SUFFICES ASSUME fifo, NEW j \in Invocation, NEW n \in Messages(j)'
               PROVE  /\ \A k \in Earlier(n) :
                            k \in Messages(j)' \/ queue'[k].place \in {"deleted", "dead"}
                      /\ batch'[j][n] # Todo =>
                            \A k \in Messages(j)' : k < n => batch'[j][k] = Handled(k)
    BY DEF FifoInOrder, Earlier
  <2>1. j # i /\ Earlier(n) \subseteq Message
    BY <1>1 DEF Earlier
  <2>2. /\ \A k \in Earlier(n) : k \in Messages(j) \/ queue[k].place \in {"deleted", "dead"}
        /\ batch[j][n] # Todo => \A k \in Messages(j) : k < n => batch[j][k] = Handled(k)
    BY <1>1, <2>1 DEF WakeInv, FifoInOrder
  <2>3. \A k \in Message : queue[k].place \in {"deleted", "dead"} => queue'[k] = queue[k]
    BY <1>2 DEF WakeInv, HeldOnce
  <2> QED
    BY <1>1, <2>1, <2>2, <2>3
<1> QED
  BY <1>3, <1>4, <1>5, <1>6, <1>7 DEF WakeInv

LEMMA RespondKeepsWake ==
    ASSUME WakeAssumption, WakeInv, JobsStay, NEW i \in Invocation, Respond(i)
    PROVE  WakeInv'
<1> PICK deleted : deleted = Messages(i) \ Failures(i)
  OBVIOUS
<1>1. /\ deleted \in SUBSET Messages(i) /\ Failures(i) = Messages(i) \ deleted
      /\ \A n \in deleted : batch[i][n] = Handled(n)
  BY DEF Failures
<1>2. /\ Return(Messages(i) \ deleted, deleted) /\ batch' = [batch EXCEPT ![i] = <<>>]
      /\ fifo' = fifo
  BY <1>1 DEF Respond
<1> QED
  BY <1>1, <1>2, ReturnKeepsWake

LEMMA InvocationLostKeepsWake ==
    ASSUME WakeAssumption, WakeInv, JobsStay, NEW i \in Invocation, InvocationLost(i)
    PROVE  WakeInv'
<1> PICK deleted : deleted = {}
  OBVIOUS
<1>1. deleted \in SUBSET Messages(i) /\ Messages(i) \ deleted = Messages(i)
      /\ \A n \in deleted : batch[i][n] = Handled(n)
  OBVIOUS
<1>2. /\ Return(Messages(i) \ deleted, deleted) /\ batch' = [batch EXCEPT ![i] = <<>>]
      /\ fifo' = fifo
  BY <1>1 DEF InvocationLost
<1> QED
  BY <1>1, <1>2, ReturnKeepsWake

LEMMA DeliveredAgainKeepsWake ==
    ASSUME WakeAssumption, WakeInv, JobsStay, NEW n \in Message, DeliveredAgain(n)
    PROVE  WakeInv'
<1>1. /\ ~fifo /\ fifo' = fifo /\ batch' = batch /\ queue[n].place = "deleted"
      /\ queue[n].receives < MaxReceives
      /\ queue' = [queue EXCEPT ![n].place = "waiting"]
  BY DEF DeliveredAgain
<1>2. \A m \in Message :
         /\ m # n => queue'[m] = queue[m]
         /\ m = n => queue'[m].place = "waiting" /\ queue'[m].receives = queue[m].receives
  BY <1>1 DEF WakeInv, WakeTyped
<1>3. WakeTyped'
  <2>1. queue' \in [Message -> [place : {"waiting", "held", "deleted", "dead"},
                                receives : 0..MaxReceives]]
    BY <1>1 DEF WakeInv, WakeTyped
  <2> QED
    BY <1>1, <1>2, <2>1 DEF WakeInv, WakeTyped, Messages
<1>4. HeldOnce'
  BY <1>1, <1>2 DEF WakeInv, HeldOnce, Messages
<1>5. PastIsQueued'
  BY <1>1, MailsNamed DEF WakeInv, WakeTyped, PastIsQueued, JobsStay, Messages
<1>6. DeletedIsQueued'
  BY <1>2, MailsNamed DEF WakeInv, DeletedIsQueued, JobsStay
<1> QED
  BY <1>1, <1>3, <1>4, <1>5, <1>6 DEF WakeInv, FifoInOrder

LEMMA WorkerKeepsWake ==
    ASSUME IntakeAssumption, WakeAssumption, IntakeInv, WakeInv, WorkerNext
    PROVE  IntakeInv' /\ WakeInv'
<1>1. ASSUME UNCHANGED intakeVars
      PROVE  IntakeInv' /\ JobsStay
  BY <1>1, IntakeStands
<1>2. ASSUME NEW i \in Invocation, NEW taken \in SUBSET Message, Receive(i, taken)
      PROVE  IntakeInv' /\ WakeInv'
  BY <1>1, <1>2, ReceiveKeepsWake DEF Receive
<1>3. ASSUME NEW i \in Invocation, NEW n \in Messages(i), Start(i, n)
      PROVE  IntakeInv' /\ WakeInv'
  BY <1>1, <1>3, StartKeepsWake DEF Start
<1>4. ASSUME NEW i \in Invocation, NEW n \in Messages(i), WakeFails(i, n)
      PROVE  IntakeInv' /\ WakeInv'
  BY <1>1, <1>4, HandleFailsKeepsWake DEF WakeFails
<1>5. ASSUME NEW i \in Invocation, NEW n \in Messages(i), NEW d \in Digest, WakeQueues(i, n, d)
      PROVE  IntakeInv' /\ WakeInv'
  <2> PICK m : m = Mails(n)[batch[i][n]]
    OBVIOUS
  <2>1. /\ Running(i, n) /\ Submit(m, d) /\ Advance(i, n) /\ queue' = queue /\ fifo' = fifo
    BY <1>5 DEF WakeQueues
  <2>2. m \in Mail
    BY <2>1, MessageThere, MailsNamed
  <2>3. IntakeInv' /\ JobsStay
    BY <2>1, <2>2, SubmitKeepsIntake
  <2>4. job'[m] # NoJob
    BY <2>1, <2>2 DEF Submit, NoJob, IntakeInv, IntakeTyped
  <2> QED
    BY <2>1, <2>3, <2>4, AdvanceKeepsWake
<1>6. ASSUME NEW i \in Invocation, NEW n \in Messages(i), NEW d \in Digest, WakeAgain(i, n, d)
      PROVE  IntakeInv' /\ WakeInv'
  <2> PICK m : m = Mails(n)[batch[i][n]]
    OBVIOUS
  <2>1. /\ Running(i, n) /\ (Threadless(m) \/ job[m] # NoJob)
        /\ UNCHANGED intakeVars /\ queue' = queue /\ fifo' = fifo
        /\ IF ~Threadless(m) /\ job[m].digest = d /\ job[m].target = find_ticket(m)
           THEN Advance(i, n) ELSE HandleFails(i, n)
    BY <1>6 DEF WakeAgain
  <2>2. Running(i, n) /\ job' = job
    BY <1>6 DEF WakeAgain, intakeVars
  <2>3. CASE Advance(i, n) /\ ~Threadless(m)
    BY <1>1, <2>1, <2>2, <2>3, AdvanceKeepsWake
  <2>4. CASE HandleFails(i, n)
    BY <1>1, <2>1, <2>2, <2>4, HandleFailsKeepsWake
  <2> QED
    BY <2>1, <2>3, <2>4
<1>7. ASSUME NEW i \in Invocation, Respond(i) \/ InvocationLost(i)
      PROVE  IntakeInv' /\ WakeInv'
  BY <1>1, <1>7, RespondKeepsWake, InvocationLostKeepsWake DEF Respond, InvocationLost
<1>8. ASSUME NEW n \in Message, DeliveredAgain(n)
      PROVE  IntakeInv' /\ WakeInv'
  BY <1>1, <1>8, DeliveredAgainKeepsWake DEF DeliveredAgain
<1> QED
  BY <1>2, <1>3, <1>4, <1>5, <1>6, <1>7, <1>8 DEF WorkerNext

LEMMA JobsKeepIntake ==
    ASSUME IntakeAssumption, IntakeInv, JobsNext
    PROVE  IntakeInv' /\ JobsStay
BY ProcessKeepsIntake, FinishKeepsIntake, LoseKeepsIntake, EraseKeepsIntake DEF JobsNext

(* The notifications are taken, or jobs and connectors work beside.        *)
LEMMA InboundStep ==
    ASSUME IntakeAssumption, WakeAssumption, IntakeInv, WakeInv,
           [WakeNext \/ (IntakeNext /\ UNCHANGED workerVars)]_wakeVars
    PROVE  IntakeInv' /\ WakeInv'
<1>1. CASE UNCHANGED wakeVars
  <2>1. UNCHANGED intakeVars /\ UNCHANGED workerVars
    BY <1>1 DEF wakeVars
  <2> QED
    BY <2>1, IntakeStands, WakeStands
<1>2. CASE WorkerNext
  BY <1>2, WorkerKeepsWake
<1>3. CASE JobsNext /\ UNCHANGED workerVars
  BY <1>3, JobsKeepIntake, WakeStands
<1>4. CASE IntakeNext /\ UNCHANGED workerVars
  BY <1>4, IntakeStep, WakeStands
<1> QED
  BY <1>1, <1>2, <1>3, <1>4 DEF WakeNext

LEMMA InboundInitially ==
    ASSUME WakeAssumption, WakeInit
    PROVE  IntakeInv /\ WakeInv
<1>1. IntakeInv
  BY IntakeInitially DEF WakeInit
<1>2. /\ DOMAIN batch = Invocation /\ \A i \in Invocation : Messages(i) = {}
      /\ queue = [n \in Message |-> [place |-> "waiting", receives |-> 0]]
  BY DEF WakeInit, Messages
<1> QED
  BY <1>1, <1>2 DEF WakeAssumption, WakeInv, WakeTyped, HeldOnce, PastIsQueued,
                    DeletedIsQueued, FifoInOrder

LEMMA WakeInvImplies ==
    ASSUME WakeAssumption, WakeInv
    PROVE  WakeTypeOK /\ WakeSound
<1>1. WakeTypeOK
  BY DEF WakeInv, WakeTyped, HeldOnce, WakeTypeOK
<1>2. GroupsInOrder
  <2> SUFFICES ASSUME fifo, NEW i \in Invocation, NEW n \in Messages(i),
                      batch[i][n] = Handled(n), NEW k \in Earlier(n)
               PROVE  \/ queue[k].place \in {"deleted", "dead"}
                      \/ k \in Messages(i) /\ batch[i][k] = Handled(k)
    BY DEF GroupsInOrder
  <2>1. batch[i][n] # Todo
    BY MessageThere
  <2>2. k < n
    BY DEF Earlier
  <2> QED
    BY <2>1, <2>2 DEF WakeInv, FifoInOrder
<1> QED
  BY <1>1, <1>2 DEF WakeInv, WakeSound

-----------------------------------------------------------------------------
(* The provisioning of the workspace.                                      *)

Policies == {c.profiles[i] : c \in Config, i \in Profile}
StoredProfile == [policy : Policies, digest : Policies, enabled : BOOLEAN]
Registry ==
    [binding : Pin \cup Instance \cup {Unset}, projects : SUBSET Project,
     profiles : [Profile -> StoredProfile \cup {Unset}], history : SUBSET Profile,
     grants : SUBSET UNION {c.grants : c \in Config}]
Pass ==
    [pc : {"projects", "profiles", "history", "grants", "commit", "refused", "provisioned",
           "failed"},
     config : Config, binds : BOOLEAN, workspace : Pin \cup Instance, seen : Registry]

Started == {n \in Instance : provision[n].pc # "idle"}

ProvisionTyped ==
    /\ registry \in Registry
    /\ provision \in [Instance -> Pass \cup {NotStarted}]
    /\ removed \in [Profile -> {"no", "quietly", "raced"}]

(* The binding is made once, by a pass that found none; a pass that found  *)
(* one works for it.                                                       *)
BoundOnce ==
    /\ registry.binding = Unset => registry = EmptyRegistry
    /\ \A n \in Started :
          /\ ~provision[n].binds => provision[n].workspace = registry.binding
          /\ provision[n].binds =>
                /\ provision[n].seen = EmptyRegistry
                /\ provision[n].pc \in {"commit", "refused", "provisioned", "failed"}
    /\ \A n \in Provisioned : provision[n].workspace = registry.binding
    /\ registry.binding # Unset => \E n \in Provisioned : provision[n].binds
    /\ \A m, n \in Provisioned : provision[m].binds /\ provision[n].binds => m = n

(* Projects, grants and history only grow, so what was seen is there.      *)
SeenIsThere ==
    \A n \in Started :
       /\ provision[n].seen.projects \subseteq registry.projects
       /\ provision[n].seen.grants \subseteq registry.grants
       /\ \A i \in Profile : provision[n].seen.profiles[i] # Unset => i \in registry.history

TablesAgree ==
    /\ \A i \in Profile :
          /\ registry.profiles[i] # Unset =>
                /\ i \in registry.history
                /\ registry.profiles[i].policy.project \in registry.projects
          /\ i \in registry.history /\ registry.profiles[i] = Unset => removed[i] # "no"
          /\ removed[i] # "no" => i \in registry.history
    /\ \A g \in registry.grants : g.project \in registry.projects

DoneIsThere ==
    \A n \in Provisioned :
       /\ provision[n].config.projects \subseteq registry.projects
       /\ provision[n].config.grants \subseteq registry.grants
       /\ Configured(provision[n].config) \subseteq registry.history

(* What the check of the history still guarantees when the pass commits.   *)
CheckHolds ==
    \A n \in Started : provision[n].pc \in {"grants", "commit"} /\ ~provision[n].binds =>
        \A i \in Configured(provision[n].config) :
           IF provision[n].seen.profiles[i] = Unset
           THEN i \in registry.history => registry.profiles[i] # Unset \/ removed[i] = "raced"
           ELSE provision[n].seen.profiles[i].digest = provision[n].config.profiles[i]

(* The digests a profile is known by: in the table, to those who have read *)
(* it and to those who were configured with it.                            *)
Known(i, d) ==
    \/ registry.profiles[i] # Unset /\ registry.profiles[i].digest = d
    \/ \E n \in Started :
          provision[n].seen.profiles[i] # Unset /\ provision[n].seen.profiles[i].digest = d
    \/ \E n \in Provisioned :
          i \in Configured(provision[n].config) /\ provision[n].config.profiles[i] = d

OneDigest ==
    \A i \in Profile : removed[i] # "raced" =>
        \A d, e \in Policies : Known(i, d) /\ Known(i, e) => d = e

ProvisionInv ==
    /\ ProvisionTyped /\ BoundOnce /\ SeenIsThere /\ TablesAgree /\ DoneIsThere /\ CheckHolds
    /\ OneDigest /\ RemovedStaysAway

(* What has to be said of a pass that moves on without committing.         *)
PassOK(v) ==
    /\ v \in Pass /\ v.pc # "provisioned"
    /\ ~v.binds => v.workspace = registry.binding
    /\ v.binds => v.seen = EmptyRegistry /\ v.pc \in {"commit", "refused", "failed"}
    /\ v.seen.projects \subseteq registry.projects
    /\ v.seen.grants \subseteq registry.grants
    /\ \A i \in Profile : v.seen.profiles[i] # Unset =>
          i \in registry.history /\ Known(i, v.seen.profiles[i].digest)
    /\ v.pc \in {"grants", "commit"} /\ ~v.binds =>
          \A i \in Configured(v.config) :
             IF v.seen.profiles[i] = Unset
             THEN i \in registry.history => registry.profiles[i] # Unset \/ removed[i] = "raced"
             ELSE v.seen.profiles[i].digest = v.config.profiles[i]

LEMMA PassMoves ==
    ASSUME ProvisionInv, NEW n \in Instance, NEW v, PassOK(v),
           provision[n].pc # "provisioned", provision' = [provision EXCEPT ![n] = v],
           registry' = registry, removed' = removed
    PROVE  ProvisionInv'
<1>1. /\ \A m \in Instance : provision'[m] = IF m = n THEN v ELSE provision[m]
      /\ v.pc # "idle" /\ v.pc # "provisioned" /\ v \in Pass
  BY DEF ProvisionInv, ProvisionTyped, PassOK, Pass
<1>2. /\ Provisioned' = Provisioned
      /\ \A m \in Provisioned : provision'[m] = provision[m]
      /\ \A m \in Started' : m # n => m \in Started /\ provision'[m] = provision[m]
  BY <1>1 DEF Provisioned, Started
<1>3. ProvisionTyped'
  BY <1>1 DEF ProvisionInv, ProvisionTyped
<1>4. BoundOnce'
  <2>1. \A m \in Started' :
          /\ ~provision'[m].binds => provision'[m].workspace = registry.binding
          /\ provision'[m].binds =>
                /\ provision'[m].seen = EmptyRegistry
                /\ provision'[m].pc \in {"commit", "refused", "provisioned", "failed"}
    BY <1>1, <1>2 DEF ProvisionInv, BoundOnce, PassOK, Started
  <2> QED
    BY <1>2, <2>1 DEF ProvisionInv, BoundOnce
<1>5. SeenIsThere'
  BY <1>1, <1>2 DEF ProvisionInv, SeenIsThere, PassOK, Started
<1>6. TablesAgree'
  BY DEF ProvisionInv, TablesAgree
<1>7. DoneIsThere'
  BY <1>2 DEF ProvisionInv, DoneIsThere
<1>8. CheckHolds'
  <2> SUFFICES ASSUME NEW m \in Started', provision'[m].pc \in {"grants", "commit"},
                      ~provision'[m].binds, NEW i \in Configured(provision'[m].config)
               PROVE  IF provision'[m].seen.profiles[i] = Unset
                      THEN i \in registry.history =>
                              registry.profiles[i] # Unset \/ removed[i] = "raced"
                      ELSE provision'[m].seen.profiles[i].digest = provision'[m].config.profiles[i]
    BY DEF CheckHolds
  <2>1. CASE m = n
    BY <1>1, <2>1 DEF PassOK, Started
  <2>2. CASE m # n
    BY <1>2, <2>2 DEF ProvisionInv, CheckHolds
  <2> QED
    BY <2>1, <2>2
<1>9. \A i \in Profile : \A d : Known(i, d)' => Known(i, d)
  <2> SUFFICES ASSUME NEW i \in Profile, NEW d, Known(i, d)'
               PROVE  Known(i, d)
    OBVIOUS
  <2>1. CASE registry.profiles[i] # Unset /\ registry.profiles[i].digest = d
    BY <2>1 DEF Known
  <2>2. ASSUME NEW m \in Started', provision'[m].seen.profiles[i] # Unset,
               provision'[m].seen.profiles[i].digest = d
        PROVE  Known(i, d)
    <3>1. CASE m = n
      BY <1>1, <2>2, <3>1 DEF PassOK, Started
    <3>2. CASE m # n
      BY <1>2, <2>2, <3>2 DEF Known
    <3> QED
      BY <3>1, <3>2
  <2>3. ASSUME NEW m \in Provisioned', i \in Configured(provision'[m].config),
               provision'[m].config.profiles[i] = d
        PROVE  Known(i, d)
    BY <1>2, <2>3 DEF Known
  <2> QED
    BY <2>1, <2>2, <2>3 DEF Known
<1>10. OneDigest'
  BY <1>9 DEF ProvisionInv, OneDigest
<1>11. RemovedStaysAway'
  BY DEF ProvisionInv, RemovedStaysAway
<1> QED
  BY <1>3, <1>4, <1>5, <1>6, <1>7, <1>8, <1>10, <1>11 DEF ProvisionInv

PassState ==
    {"projects", "profiles", "history", "grants", "commit", "refused", "provisioned", "failed"}

LEMMA StartedPass ==
    ASSUME ProvisionInv, NEW n \in Instance, provision[n].pc # "idle"
    PROVE  provision[n] \in Pass /\ n \in Started
BY DEF ProvisionInv, ProvisionTyped, NotStarted, Started

LEMMA EmptyIsRegistry ==
    /\ EmptyRegistry \in Registry
    /\ EmptyRegistry.projects = {} /\ EmptyRegistry.grants = {} /\ EmptyRegistry.history = {}
    /\ \A i \in Profile : EmptyRegistry.profiles[i] = Unset
BY DEF EmptyRegistry, Registry

LEMMA ReadBindingKeeps ==
    ASSUME ProvisioningAssumption, ProvisionInv, NEW n \in Instance, NEW c \in Config,
           ReadBinding(n, c)
    PROVE  ProvisionInv'
<1> DEFINE known == registry.binding
           workspace == IF known = Unset THEN (IF c.pin # Unset THEN c.pin ELSE n) ELSE known
           pc == IF known = Unset THEN "commit"
                 ELSE IF c.pin \notin {Unset, known} THEN "refused" ELSE "projects"
           binds == known = Unset
           v == [pc |-> pc, config |-> c, binds |-> binds, workspace |-> workspace,
                 seen |-> EmptyRegistry]
<1>1. /\ provision[n].pc = "idle" /\ registry' = registry /\ removed' = removed
      /\ provision' = [provision EXCEPT ![n] = v]
  BY DEF ReadBinding, NotStarted
<1>2. workspace \in Pin \cup Instance
  BY DEF ProvisioningAssumption, ProvisionInv, ProvisionTyped, Registry
<1>3. binds \in BOOLEAN /\ pc \in {"commit", "refused", "projects"}
  OBVIOUS
<1>4. (known # Unset => workspace = registry.binding) /\ (known = Unset => pc = "commit")
  OBVIOUS
<1>5. binds <=> known = Unset
  OBVIOUS
<1>6. known # Unset => pc # "commit"
  OBVIOUS
<1> HIDE DEF workspace, pc, binds, known
<1>7. PassOK(v)
  <2>1. v \in Pass
    BY <1>2, <1>3, EmptyIsRegistry DEF Pass
  <2>2. ~binds => workspace = registry.binding /\ pc # "commit"
    BY <1>4, <1>5, <1>6
  <2>3. binds => pc = "commit"
    BY <1>4, <1>5
  <2> QED
    BY <1>3, <2>1, <2>2, <2>3, EmptyIsRegistry DEF PassOK
<1> HIDE DEF v
<1> QED
  BY <1>1, <1>7, PassMoves

(* A pass reads a table: it sees no more than there is.                    *)
LEMMA ReadKeeps ==
    ASSUME ProvisionInv, NEW n \in Instance, NEW at \in {"projects", "profiles", "grants"},
           NEW pc \in {"profiles", "history", "commit"}, NEW seen \in Registry,
           Reads(n, at, pc, seen),
           seen.projects \subseteq registry.projects, seen.grants \subseteq registry.grants,
           \A i \in Profile : seen.profiles[i] # Unset =>
              i \in registry.history /\ Known(i, seen.profiles[i].digest),
           pc = "commit" => at = "grants" /\ seen.profiles = provision[n].seen.profiles
    PROVE  ProvisionInv'
<1> PICK v : v = [provision[n] EXCEPT !.pc = pc, !.seen = seen]
  OBVIOUS
<1>1. /\ v \in Pass /\ v.pc = pc /\ v.seen = seen
      /\ v.config = provision[n].config /\ v.binds = provision[n].binds
      /\ v.workspace = provision[n].workspace
  <2>1. pc \in PassState /\ provision[n] \in Pass
    BY StartedPass DEF Reads, PassState
  <2> QED
    BY ONLY <2>1, seen \in Registry, v = [provision[n] EXCEPT !.pc = pc, !.seen = seen]
    DEF Pass, PassState
<1>2. provision' = [provision EXCEPT ![n] = v] /\ provision[n].pc = at
      /\ registry' = registry /\ removed' = removed
  BY DEF Reads, ProvisionInv, ProvisionTyped
<1>3. n \in Started /\ provision[n].pc \notin {"idle", "commit", "refused", "provisioned", "failed"}
  BY <1>2 DEF Started
<1>4. ~v.binds /\ v.workspace = registry.binding
  BY <1>1, <1>3, StartedPass DEF ProvisionInv, BoundOnce, Pass
<1>5. v.pc = "commit" =>
         \A i \in Configured(v.config) :
            IF v.seen.profiles[i] = Unset
            THEN i \in registry.history => registry.profiles[i] # Unset \/ removed[i] = "raced"
            ELSE v.seen.profiles[i].digest = v.config.profiles[i]
  BY <1>1, <1>2, <1>3, <1>4 DEF ProvisionInv, CheckHolds
<1>6. PassOK(v)
  BY <1>1, <1>4, <1>5 DEF PassOK
<1> QED
  BY <1>2, <1>3, <1>6, PassMoves

LEMMA SeenKnown ==
    ASSUME ProvisionInv, NEW n \in Started
    PROVE  /\ provision[n] \in Pass /\ provision[n].seen \in Registry
           /\ provision[n].seen.projects \subseteq registry.projects
           /\ provision[n].seen.grants \subseteq registry.grants
           /\ \A i \in Profile : provision[n].seen.profiles[i] # Unset =>
                 i \in registry.history /\ Known(i, provision[n].seen.profiles[i].digest)
<1>1. provision[n] \in Pass
  BY StartedPass DEF Started
<1> QED
  BY <1>1 DEF Pass, ProvisionInv, SeenIsThere, Known

LEMMA ReadTableKeeps ==
    ASSUME ProvisionInv, NEW n \in Instance, ReadProjects(n) \/ ReadProfiles(n) \/ ReadGrants(n)
    PROVE  ProvisionInv'
<1>1. n \in Started
  BY DEF ReadProjects, ReadProfiles, ReadGrants, Reads, Started
<1>2. registry \in Registry
  BY DEF ProvisionInv, ProvisionTyped
<1>3. CASE ReadProjects(n)
  <2> PICK seen : seen = [provision[n].seen EXCEPT !.projects = registry.projects]
    OBVIOUS
  <2>1. /\ seen \in Registry /\ seen.projects = registry.projects
        /\ seen.grants = provision[n].seen.grants /\ seen.profiles = provision[n].seen.profiles
    BY <1>1, <1>2, SeenKnown DEF Registry
  <2>2. Reads(n, "projects", "profiles", seen)
    BY <1>3 DEF ReadProjects
  <2> QED
    BY <1>1, <2>1, <2>2, SeenKnown, ReadKeeps
<1>4. CASE ReadProfiles(n)
  <2> PICK seen : seen = [provision[n].seen EXCEPT !.profiles = registry.profiles]
    OBVIOUS
  <2>1. /\ seen \in Registry /\ seen.projects = provision[n].seen.projects
        /\ seen.grants = provision[n].seen.grants /\ seen.profiles = registry.profiles
    BY <1>1, <1>2, SeenKnown DEF Registry
  <2>2. Reads(n, "profiles", "history", seen)
    BY <1>4 DEF ReadProfiles
  <2>3. \A i \in Profile : registry.profiles[i] # Unset =>
           i \in registry.history /\ Known(i, registry.profiles[i].digest)
    BY DEF ProvisionInv, TablesAgree, Known
  <2> QED
    BY <1>1, <2>1, <2>2, <2>3, SeenKnown, ReadKeeps
<1>5. CASE ReadGrants(n)
  <2> PICK seen : seen = [provision[n].seen EXCEPT !.grants = registry.grants]
    OBVIOUS
  <2>1. /\ seen \in Registry /\ seen.projects = provision[n].seen.projects
        /\ seen.grants = registry.grants /\ seen.profiles = provision[n].seen.profiles
    BY <1>1, <1>2, SeenKnown DEF Registry
  <2>2. Reads(n, "grants", "commit", seen)
    BY <1>5 DEF ReadGrants
  <2> QED
    BY <1>1, <2>1, <2>2, SeenKnown, ReadKeeps
<1> QED
  BY <1>3, <1>4, <1>5

(* A pass goes on, is refused or fails with what it has read.              *)
LEMMA ProvisionsKeeps ==
    ASSUME ProvisionInv, NEW n \in Instance, NEW pc \in {"grants", "refused", "failed"},
           provision[n].pc \notin {"idle", "provisioned"},
           Provisions(n, pc), registry' = registry, removed' = removed,
           pc = "grants" =>
              /\ provision[n].pc = "history"
              /\ \A i \in Configured(provision[n].config) :
                    IF provision[n].seen.profiles[i] = Unset THEN i \notin registry.history
                    ELSE provision[n].seen.profiles[i].digest = provision[n].config.profiles[i]
    PROVE  ProvisionInv'
<1> PICK v : v = [provision[n] EXCEPT !.pc = pc]
  OBVIOUS
<1>1. n \in Started /\ provision[n] \in Pass
  BY StartedPass
<1>2. /\ v \in Pass /\ v.pc = pc /\ v.seen = provision[n].seen
      /\ v.config = provision[n].config /\ v.binds = provision[n].binds
      /\ v.workspace = provision[n].workspace
  BY <1>1 DEF Pass
<1>3. PassOK(v)
  BY <1>1, <1>2, SeenKnown DEF PassOK, ProvisionInv, BoundOnce
<1>4. provision' = [provision EXCEPT ![n] = v]
  BY DEF Provisions
<1> QED
  BY <1>3, <1>4, PassMoves

LEMMA ReadHistoryKeeps ==
    ASSUME ProvisionInv, NEW n \in Instance, ReadHistory(n)
    PROVE  ProvisionInv'
<1>1. provision[n].pc = "history" /\ registry' = registry /\ removed' = removed
  BY DEF ReadHistory
<1>2. CASE Reconcilable(n, registry.history)
  <2>1. \A i \in Configured(provision[n].config) :
           IF provision[n].seen.profiles[i] = Unset THEN i \notin registry.history
           ELSE provision[n].seen.profiles[i].digest = provision[n].config.profiles[i]
    BY <1>2 DEF Reconcilable, Configured
  <2>2. Provisions(n, "grants")
    BY <1>2 DEF ReadHistory
  <2> QED
    BY <1>1, <2>1, <2>2, ProvisionsKeeps
<1>3. CASE ~Reconcilable(n, registry.history)
  BY <1>1, <1>3, ProvisionsKeeps DEF ReadHistory
<1> QED
  BY <1>2, <1>3

LEMMA FailsKeeps ==
    ASSUME ProvisionInv, NEW n \in Instance, Fails(n)
    PROVE  ProvisionInv'
BY ProvisionsKeeps DEF Fails

-----------------------------------------------------------------------------
(* The commit of a plan.                                                   *)

LEMMA ProfileWritten ==
    ASSUME ProvisioningAssumption, NEW c \in Config, NEW i \in Configured(c)
    PROVE  /\ FromSpec(c.profiles[i]) \in StoredProfile
           /\ FromSpec(c.profiles[i]).digest = c.profiles[i]
           /\ FromSpec(c.profiles[i]).policy.project \in c.projects
           /\ c.profiles[i] \in Policies
BY DEF ProvisioningAssumption, Configured, FromSpec, StoredProfile, Policies

LEMMA StoredIsSet ==
    ASSUME ProvisioningAssumption, NEW s \in StoredProfile
    PROVE  s # Unset
<1> PICK c \in Config, i \in Profile, d \in Config, j \in Profile :
       s.policy = c.profiles[i] /\ s.digest = d.profiles[j]
  BY DEF StoredProfile, Policies
<1>1. s = [policy |-> c.profiles[i], digest |-> d.profiles[j], enabled |-> s.enabled]
      /\ s.enabled \in BOOLEAN
  BY DEF StoredProfile
<1>2. \A b \in BOOLEAN :
         [policy |-> c.profiles[i], digest |-> d.profiles[j], enabled |-> b] # Unset
  BY DEF ProvisioningAssumption
<1> QED
  BY ONLY <1>1, <1>2

(* A digest that is known has been stored.                                 *)
LEMMA KnownIsPast ==
    ASSUME ProvisionInv, NEW i \in Profile, NEW d, Known(i, d)
    PROVE  i \in registry.history
BY DEF ProvisionInv, TablesAgree, SeenIsThere, DoneIsThere, Known

(* What a committed plan leaves in the tables.                             *)
LEMMA PlanWritten ==
    ASSUME ProvisioningAssumption, ProvisionInv, NEW n \in Instance,
           provision[n].pc = "commit", ~Conflicting(provision[n]), CommitPlan(n),
           NEW p, p = provision[n], NEW new, new = NewProfiles(p)
    PROVE  /\ p \in Pass /\ n \in Started /\ new \subseteq Configured(p.config)
           /\ registry' \in Registry /\ registry'.binding = p.workspace
           /\ registry'.projects = registry.projects \cup NewProjects(p)
           /\ registry'.history = registry.history \cup new
           /\ registry'.grants = registry.grants \cup NewGrants(p)
           /\ \A i \in new :
                 /\ registry'.profiles[i] = FromSpec(p.config.profiles[i])
                 /\ registry'.profiles[i] # Unset
                 /\ p.seen.profiles[i] = Unset /\ registry.profiles[i] = Unset
                 /\ removed[i] # "raced" => i \notin registry.history
           /\ \A i \in Profile \ new : registry'.profiles[i] = registry.profiles[i]
           /\ \A i \in Configured(p.config) \ new : p.seen.profiles[i] # Unset
           /\ removed' = removed
           /\ provision' = [provision EXCEPT ![n] = [p EXCEPT !.pc = "provisioned"]]
<1>1. /\ p \in Pass /\ n \in Started /\ new \subseteq Configured(p.config)
      /\ new \subseteq Profile
      /\ registry \in Registry /\ p.config \in Config
  BY StartedPass DEF NewProfiles, Configured, ProvisionInv, ProvisionTyped, Pass
<1>2. /\ removed' = removed
      /\ provision' = [provision EXCEPT ![n] = [p EXCEPT !.pc = "provisioned"]]
      /\ registry' = [binding |-> p.workspace,
                      projects |-> registry.projects \cup NewProjects(p),
                      profiles |-> [i \in Profile |->
                         IF i \in new THEN FromSpec(p.config.profiles[i])
                         ELSE registry.profiles[i]],
                      history |-> registry.history \cup new,
                      grants |-> registry.grants \cup NewGrants(p)]
  BY DEF CommitPlan, Provisions
<1>3. \A i \in new : FromSpec(p.config.profiles[i]) \in StoredProfile
  BY <1>1, ProfileWritten
<1>4. registry' \in Registry
  <2>1. p.workspace \in Pin \cup Instance
    BY <1>1 DEF Pass
  <2>2. registry.projects \cup NewProjects(p) \in SUBSET Project
    BY <1>1 DEF Registry, NewProjects, ProvisioningAssumption
  <2>3. registry.grants \cup NewGrants(p) \in SUBSET UNION {c.grants : c \in Config}
    BY <1>1 DEF Registry, NewGrants
  <2>4. registry.history \cup new \in SUBSET Profile
    BY <1>1 DEF Registry
  <2>5. [i \in Profile |-> IF i \in new THEN FromSpec(p.config.profiles[i])
                           ELSE registry.profiles[i]]
           \in [Profile -> StoredProfile \cup {Unset}]
    BY <1>1, <1>3 DEF Registry
  <2> QED
    BY <1>2, <2>1, <2>2, <2>3, <2>4, <2>5 DEF Registry
<1>5. \A i \in new :
         /\ registry'.profiles[i] = FromSpec(p.config.profiles[i])
         /\ registry'.profiles[i] # Unset
         /\ p.seen.profiles[i] = Unset /\ registry.profiles[i] = Unset
  <2> SUFFICES ASSUME NEW i \in new
               PROVE  /\ registry'.profiles[i] = FromSpec(p.config.profiles[i])
                      /\ registry'.profiles[i] # Unset
                      /\ p.seen.profiles[i] = Unset /\ registry.profiles[i] = Unset
    OBVIOUS
  <2>1. registry'.profiles[i] = FromSpec(p.config.profiles[i])
    BY <1>1, <1>2
  <2>2. FromSpec(p.config.profiles[i]) # Unset
    BY <1>3, StoredIsSet
  <2>3. p.seen.profiles[i] = Unset /\ registry.profiles[i] = Unset
    BY DEF NewProfiles, Conflicting
  <2> QED
    BY <2>1, <2>2, <2>3
<1>6. \A i \in new : removed[i] # "raced" => i \notin registry.history
  <2>1. CASE p.binds
    BY <2>1, EmptyIsRegistry DEF ProvisionInv, BoundOnce, Conflicting
  <2>2. CASE ~p.binds
    BY <1>1, <1>5, <2>2 DEF ProvisionInv, CheckHolds
  <2> QED
    BY <2>1, <2>2
<1>7. /\ registry'.binding = p.workspace
      /\ registry'.projects = registry.projects \cup NewProjects(p)
      /\ registry'.history = registry.history \cup new
      /\ registry'.grants = registry.grants \cup NewGrants(p)
      /\ \A i \in Profile \ new : registry'.profiles[i] = registry.profiles[i]
  BY <1>2
<1>8. \A i \in Configured(p.config) \ new : p.seen.profiles[i] # Unset
  BY DEF NewProfiles
<1> QED
  BY <1>1, <1>2, <1>4, <1>5, <1>6, <1>7, <1>8

LEMMA CommitKeeps ==
    ASSUME ProvisioningAssumption, ProvisionInv, NEW n \in Instance,
           provision[n].pc = "commit", ~Conflicting(provision[n]), CommitPlan(n)
    PROVE  ProvisionInv'
<1> PICK p : p = provision[n]
  OBVIOUS
<1> PICK new : new = NewProfiles(p)
  OBVIOUS
<1> PICK v : v = [p EXCEPT !.pc = "provisioned"]
  OBVIOUS
<1>1. /\ p \in Pass /\ n \in Started /\ new \subseteq Configured(p.config)
      /\ registry' \in Registry /\ registry'.binding = p.workspace
      /\ registry'.projects = registry.projects \cup NewProjects(p)
      /\ registry'.history = registry.history \cup new
      /\ registry'.grants = registry.grants \cup NewGrants(p)
      /\ \A i \in new :
            /\ registry'.profiles[i] = FromSpec(p.config.profiles[i])
            /\ registry'.profiles[i] # Unset
            /\ p.seen.profiles[i] = Unset /\ registry.profiles[i] = Unset
            /\ removed[i] # "raced" => i \notin registry.history
      /\ \A i \in Profile \ new : registry'.profiles[i] = registry.profiles[i]
      /\ \A i \in Configured(p.config) \ new : p.seen.profiles[i] # Unset
      /\ removed' = removed
      /\ provision' = [provision EXCEPT ![n] = v]
  BY PlanWritten
<1>2. /\ v \in Pass /\ v.pc = "provisioned" /\ v.config = p.config /\ v.seen = p.seen
      /\ v.binds = p.binds /\ v.workspace = p.workspace /\ p.pc = "commit"
      /\ p.config \in Config /\ p.binds \in BOOLEAN /\ p.workspace \in Pin \cup Instance
  BY <1>1 DEF Pass
<1>3. \A m \in Instance : provision'[m] = IF m = n THEN v ELSE provision[m]
  BY <1>1 DEF ProvisionInv, ProvisionTyped
<1>4. /\ Started' = Started /\ Provisioned' = Provisioned \cup {n}
      /\ n \notin Provisioned /\ Started \subseteq Instance
      /\ \A m \in Started : provision'[m].seen = provision[m].seen
                            /\ provision'[m].config = provision[m].config
                            /\ provision'[m].binds = provision[m].binds
                            /\ provision'[m].workspace = provision[m].workspace
  <2>1. /\ \A m \in Instance : provision'[m].pc # "idle" <=> provision[m].pc # "idle"
        /\ \A m \in Instance :
              provision'[m].pc = "provisioned" <=> m = n \/ provision[m].pc = "provisioned"
        /\ provision[n].pc # "provisioned"
    BY <1>2, <1>3, p = provision[n]
  <2>2. \A m \in Started : provision'[m].seen = provision[m].seen
                            /\ provision'[m].config = provision[m].config
                            /\ provision'[m].binds = provision[m].binds
                            /\ provision'[m].workspace = provision[m].workspace
    BY <1>2, <1>3, p = provision[n] DEF Started
  <2> QED
    BY <2>1, <2>2 DEF Started, Provisioned
<1>5. ProvisionTyped'
  BY <1>1, <1>2 DEF ProvisionInv, ProvisionTyped
<1>6. BoundOnce'
  <2>1. p.workspace # Unset
    BY <1>2 DEF ProvisioningAssumption
  <2>2. CASE p.binds
    <3>1. registry.binding = Unset
      BY <2>2 DEF Conflicting
    <3>2. Provisioned = {} /\ \A m \in Started : provision[m].binds
      <4>1. \A m \in Started : provision[m].workspace # Unset
        BY SeenKnown DEF Pass, ProvisioningAssumption
      <4>2. Provisioned \subseteq Started
        BY DEF Provisioned, Started
      <4> QED
        BY <3>1, <4>1, <4>2 DEF ProvisionInv, BoundOnce
    <3>3. Provisioned' = {n} /\ provision'[n].binds /\ provision'[n].workspace = registry'.binding
      BY <1>1, <1>2, <1>3, <1>4, <2>2, <3>2
    <3>4. \A m \in Started' :
             /\ provision'[m].seen = EmptyRegistry
             /\ provision'[m].pc \in {"commit", "refused", "provisioned", "failed"}
             /\ provision'[m].binds
      <4> SUFFICES ASSUME NEW m \in Started'
                   PROVE  /\ provision'[m].seen = EmptyRegistry
                          /\ provision'[m].pc \in {"commit", "refused", "provisioned", "failed"}
                          /\ provision'[m].binds
        OBVIOUS
      <4>1. /\ m \in Started /\ m \in Instance /\ provision[m].binds
            /\ provision[m].seen = EmptyRegistry
            /\ provision[m].pc \in {"commit", "refused", "provisioned", "failed"}
        BY <1>4, <3>2 DEF ProvisionInv, BoundOnce
      <4> QED
        BY <1>2, <1>3, <1>4, <4>1
    <3> QED
      BY <1>1, <2>1, <3>3, <3>4 DEF BoundOnce
  <2>3. CASE ~p.binds
    <3>1. registry.binding = p.workspace /\ registry'.binding = registry.binding
      BY <1>1, <2>3 DEF ProvisionInv, BoundOnce
    <3>2. \A m \in Started' :
             /\ ~provision'[m].binds => provision'[m].workspace = registry'.binding
             /\ provision'[m].binds =>
                   /\ provision'[m].seen = EmptyRegistry
                   /\ provision'[m].pc \in {"commit", "refused", "provisioned", "failed"}
      BY <1>2, <1>3, <1>4, <2>3, <3>1 DEF ProvisionInv, BoundOnce
    <3>3. \A m \in Provisioned' :
             /\ provision'[m].workspace = registry'.binding
             /\ provision'[m].binds => m \in Provisioned /\ provision[m].binds
      BY <1>1, <1>2, <1>3, <1>4, <2>3, <3>1 DEF ProvisionInv, BoundOnce
    <3>4. \E m \in Provisioned' : provision'[m].binds
      <4> PICK m \in Provisioned : provision[m].binds
        BY <2>1, <3>1 DEF ProvisionInv, BoundOnce
      <4>1. m \in Started
        BY DEF Provisioned, Started
      <4> QED
        BY <1>4, <4>1
    <3>5. \A l, m \in Provisioned' : provision'[l].binds /\ provision'[m].binds => l = m
      BY <3>3 DEF ProvisionInv, BoundOnce
    <3> QED
      BY <1>1, <2>1, <3>2, <3>3, <3>4, <3>5 DEF BoundOnce
  <2> QED
    BY <2>2, <2>3
<1>7. SeenIsThere'
  BY <1>1, <1>4 DEF ProvisionInv, SeenIsThere
<1>8. p.config.projects \subseteq registry'.projects /\ p.config.grants \subseteq registry'.grants
  BY <1>1 DEF ProvisionInv, SeenIsThere, NewProjects, NewGrants
<1>9. TablesAgree'
  <2>1. \A i \in new : registry'.profiles[i].policy.project \in registry'.projects
    BY <1>1, <1>2, <1>8, ProfileWritten
  <2>2. \A g \in registry'.grants : g.project \in registry'.projects
    <3> SUFFICES ASSUME NEW g \in registry'.grants
                 PROVE  g.project \in registry'.projects
      OBVIOUS
    <3>1. CASE g \in registry.grants
      BY <1>1, <3>1 DEF ProvisionInv, TablesAgree
    <3>2. CASE g \in p.config.grants
      BY <1>2, <1>8, <3>2 DEF ProvisioningAssumption
    <3> QED
      BY <1>1, <3>1, <3>2 DEF NewGrants
  <2>3. \A i \in Profile :
           /\ registry'.profiles[i] # Unset => i \in registry'.history
           /\ registry'.profiles[i] # Unset =>
                 registry'.profiles[i].policy.project \in registry'.projects
           /\ i \in registry'.history /\ registry'.profiles[i] = Unset => removed'[i] # "no"
           /\ removed'[i] # "no" => i \in registry'.history
    <3> SUFFICES ASSUME NEW i \in Profile
                 PROVE  /\ registry'.profiles[i] # Unset => i \in registry'.history
                        /\ registry'.profiles[i] # Unset =>
                              registry'.profiles[i].policy.project \in registry'.projects
                        /\ i \in registry'.history /\ registry'.profiles[i] = Unset =>
                              removed'[i] # "no"
                        /\ removed'[i] # "no" => i \in registry'.history
      OBVIOUS
    <3>1. CASE i \in new
      BY <1>1, <2>1, <3>1
    <3>2. CASE i \notin new
      BY <1>1, <3>2 DEF ProvisionInv, TablesAgree
    <3> QED
      BY <3>1, <3>2
  <2> QED
    BY <2>2, <2>3 DEF TablesAgree
<1>10. DoneIsThere'
  <2>1. Configured(p.config) \subseteq registry'.history
    BY <1>1 DEF ProvisionInv, SeenIsThere, Configured
  <2>2. \A m \in Provisioned : m \in Started
    BY DEF Provisioned, Started
  <2>3. \A m \in Provisioned' : m = n \/ (m \in Provisioned /\ provision'[m] = provision[m])
    BY <1>3, <1>4, <2>2 DEF Started
  <2>4. \A m \in Provisioned :
           /\ provision[m].config.projects \subseteq registry'.projects
           /\ provision[m].config.grants \subseteq registry'.grants
           /\ Configured(provision[m].config) \subseteq registry'.history
    BY <1>1 DEF ProvisionInv, DoneIsThere
  <2>5. provision'[n].config = p.config
    BY <1>2, <1>3
  <2> QED
    BY <1>8, <2>1, <2>3, <2>4, <2>5 DEF DoneIsThere
<1>11. CheckHolds'
  <2> SUFFICES ASSUME NEW m \in Started', provision'[m].pc \in {"grants", "commit"},
                      ~provision'[m].binds, NEW i \in Configured(provision'[m].config)
               PROVE  IF provision'[m].seen.profiles[i] = Unset
                      THEN i \in registry'.history =>
                              registry'.profiles[i] # Unset \/ removed'[i] = "raced"
                      ELSE provision'[m].seen.profiles[i].digest = provision'[m].config.profiles[i]
    BY DEF CheckHolds
  <2>1. m # n /\ m \in Started /\ provision'[m] = provision[m] /\ i \in Profile
    BY <1>2, <1>3, <1>4 DEF Configured
  <2>2. IF provision[m].seen.profiles[i] = Unset
        THEN i \in registry.history => registry.profiles[i] # Unset \/ removed[i] = "raced"
        ELSE provision[m].seen.profiles[i].digest = provision[m].config.profiles[i]
    BY <2>1 DEF ProvisionInv, CheckHolds
  <2>3. CASE i \in new
    BY <1>1, <2>1, <2>2, <2>3
  <2>4. CASE i \notin new
    BY <1>1, <2>1, <2>2, <2>4
  <2> QED
    BY <2>3, <2>4
<1>12. OneDigest'
  <2> SUFFICES ASSUME NEW i \in Profile, removed[i] # "raced", NEW d \in Policies,
                      NEW e \in Policies, Known(i, d)', Known(i, e)'
               PROVE  d = e
    BY <1>1 DEF OneDigest
  <2>1. \A b : Known(i, b)' =>
           Known(i, b) \/ (i \in new /\ b = p.config.profiles[i])
    <3> SUFFICES ASSUME NEW b, Known(i, b)'
                 PROVE  Known(i, b) \/ (i \in new /\ b = p.config.profiles[i])
      OBVIOUS
    <3>1. CASE registry'.profiles[i] # Unset /\ registry'.profiles[i].digest = b
      <4>1. CASE i \in new
        BY <1>1, <1>2, <3>1, <4>1, ProfileWritten
      <4>2. CASE i \notin new
        BY <1>1, <3>1, <4>2 DEF Known
      <4> QED
        BY <4>1, <4>2
    <3>2. ASSUME NEW m \in Started', provision'[m].seen.profiles[i] # Unset,
                 provision'[m].seen.profiles[i].digest = b
          PROVE  Known(i, b)
      BY <1>4, <3>2 DEF Known
    <3>3. ASSUME NEW m \in Provisioned', i \in Configured(provision'[m].config),
                 provision'[m].config.profiles[i] = b
          PROVE  Known(i, b) \/ (i \in new /\ b = p.config.profiles[i])
      <4>1. CASE m = n
        <5>1. i \in Configured(p.config) /\ b = p.config.profiles[i]
          BY <1>2, <1>3, <3>3, <4>1
        <5>2. CASE i \notin new
          <6>1. p.seen.profiles[i] # Unset
            BY <1>1, <5>1, <5>2
          <6>2. ~p.binds
            BY <1>1, <6>1, EmptyIsRegistry DEF ProvisionInv, BoundOnce
          <6>3. p.seen.profiles[i].digest = b
            BY <1>1, <1>2, <5>1, <6>1, <6>2 DEF ProvisionInv, CheckHolds
          <6> QED
            BY <1>1, <6>1, <6>3 DEF Known
        <5> QED
          BY <5>1, <5>2
      <4>2. CASE m # n
        BY <1>3, <1>4, <3>3, <4>2 DEF Known, Provisioned
      <4> QED
        BY <4>1, <4>2
    <3> QED
      BY <3>1, <3>2, <3>3 DEF Known
  <2>2. CASE i \in new
    <3>1. \A b : ~Known(i, b)
      BY <1>1, <2>2, KnownIsPast
    <3> QED
      BY <2>1, <3>1
  <2>3. CASE i \notin new
    BY <2>1, <2>3 DEF ProvisionInv, OneDigest
  <2> QED
    BY <2>2, <2>3
<1>13. RemovedStaysAway'
  <2> SUFFICES ASSUME NEW i \in Profile, removed[i] = "quietly"
               PROVE  registry'.profiles[i] = Unset
    BY <1>1 DEF RemovedStaysAway
  <2>1. i \in registry.history /\ registry.profiles[i] = Unset
    BY DEF ProvisionInv, TablesAgree, RemovedStaysAway
  <2>2. i \notin new
    BY <1>1, <2>1
  <2> QED
    BY <1>1, <2>1, <2>2
<1> QED
  BY <1>5, <1>6, <1>7, <1>9, <1>10, <1>11, <1>12, <1>13 DEF ProvisionInv

-----------------------------------------------------------------------------
(* What operators do to the profiles.                                      *)

(* A profile that is there keeps its digest and the project of its policy. *)
LEMMA EditKeeps ==
    ASSUME ProvisioningAssumption, ProvisionInv, NEW i \in Profile,
           registry.profiles[i] # Unset, NEW row \in StoredProfile,
           row.digest = registry.profiles[i].digest,
           row.policy.project = registry.profiles[i].policy.project,
           Edit(i, row), removed' = removed
    PROVE  ProvisionInv'
<1> PICK profiles : profiles = [registry.profiles EXCEPT ![i] = row]
  OBVIOUS
<1>1. /\ registry' = [registry EXCEPT !.profiles = profiles] /\ provision' = provision
      /\ registry \in Registry
  BY DEF Edit, ProvisionInv, ProvisionTyped
<1>2. /\ profiles \in [Profile -> StoredProfile \cup {Unset}]
      /\ profiles[i] = row /\ row # Unset
      /\ \A j \in Profile : j # i => profiles[j] = registry.profiles[j]
  BY <1>1, StoredIsSet DEF Registry
<1>3. /\ registry' \in Registry /\ registry'.profiles = profiles
      /\ registry'.binding = registry.binding /\ registry'.projects = registry.projects
      /\ registry'.history = registry.history /\ registry'.grants = registry.grants
  BY ONLY <1>1, <1>2 DEF Registry
<1>4. Started' = Started /\ Provisioned' = Provisioned
  BY <1>1 DEF Started, Provisioned
<1>5. \A j \in Profile :
         /\ registry'.profiles[j] # Unset <=> registry.profiles[j] # Unset
         /\ registry.profiles[j] # Unset =>
               /\ registry'.profiles[j].digest = registry.profiles[j].digest
               /\ registry'.profiles[j].policy.project = registry.profiles[j].policy.project
  BY <1>2, <1>3
<1>6. ProvisionTyped'
  BY <1>1, <1>3 DEF ProvisionInv, ProvisionTyped
<1>7. BoundOnce'
  <2>1. registry.binding # Unset
    BY EmptyIsRegistry DEF ProvisionInv, BoundOnce
  <2> QED
    BY <1>1, <1>3, <1>4, <2>1 DEF ProvisionInv, BoundOnce
<1>8. SeenIsThere'
  BY <1>1, <1>3, <1>4 DEF ProvisionInv, SeenIsThere
<1>9. TablesAgree'
  BY <1>3, <1>5 DEF ProvisionInv, TablesAgree
<1>10. DoneIsThere'
  BY <1>1, <1>3, <1>4 DEF ProvisionInv, DoneIsThere
<1>11. CheckHolds'
  BY <1>1, <1>3, <1>4, <1>5 DEF ProvisionInv, CheckHolds, Configured
<1>12. \A j \in Profile : \A d : Known(j, d)' => Known(j, d)
  BY <1>1, <1>4, <1>5 DEF Known
<1>13. OneDigest'
  BY <1>12 DEF ProvisionInv, OneDigest
<1>14. RemovedStaysAway'
  BY <1>5 DEF ProvisionInv, RemovedStaysAway
<1> QED
  BY <1>6, <1>7, <1>8, <1>9, <1>10, <1>11, <1>13, <1>14 DEF ProvisionInv

LEMMA DisableKeeps ==
    ASSUME ProvisioningAssumption, ProvisionInv, NEW i \in Profile, Disable(i)
    PROVE  ProvisionInv'
<1> PICK row : row = [registry.profiles[i] EXCEPT !.enabled = FALSE]
  OBVIOUS
<1>1. registry.profiles[i] \in StoredProfile /\ registry.profiles[i] # Unset
  BY DEF Disable, Present, ProvisionInv, ProvisionTyped, Registry
<1>2. /\ row \in StoredProfile /\ row.digest = registry.profiles[i].digest
      /\ row.policy = registry.profiles[i].policy
  BY ONLY <1>1, row = [registry.profiles[i] EXCEPT !.enabled = FALSE] DEF StoredProfile
<1>3. Edit(i, row) /\ removed' = removed
  BY DEF Disable
<1> QED
  BY <1>1, <1>2, <1>3, EditKeeps

LEMMA DriftKeeps ==
    ASSUME ProvisioningAssumption, ProvisionInv, NEW i \in Profile, Drift(i)
    PROVE  ProvisionInv'
<1> PICK c \in Config :
       /\ c.profiles[i].project = registry.profiles[i].policy.project
       /\ Edit(i, [registry.profiles[i] EXCEPT !.policy = c.profiles[i]])
  BY DEF Drift
<1> PICK policy : policy = c.profiles[i]
  OBVIOUS
<1> PICK row : row = [registry.profiles[i] EXCEPT !.policy = policy]
  OBVIOUS
<1>1. registry.profiles[i] \in StoredProfile /\ registry.profiles[i] # Unset
  BY DEF Drift, Present, ProvisionInv, ProvisionTyped, Registry
<1>2. policy \in Policies
  BY DEF Policies
<1>3. /\ row \in StoredProfile /\ row.digest = registry.profiles[i].digest
      /\ row.policy = policy
  BY ONLY <1>1, <1>2, row = [registry.profiles[i] EXCEPT !.policy = policy] DEF StoredProfile
<1>4. Edit(i, row) /\ removed' = removed
  BY DEF Drift
<1>5. row.policy.project = registry.profiles[i].policy.project
  BY <1>3
<1> QED
  BY <1>1, <1>3, <1>4, <1>5, EditKeeps

(* A removed profile leaves its history, and a pass that has looked for it *)
(* in vain is accounted for.                                               *)
LEMMA RemoveKeeps ==
    ASSUME ProvisioningAssumption, ProvisionInv, NEW i \in Profile, RemoveProfile(i)
    PROVE  ProvisionInv'
<1> PICK profiles : profiles = [registry.profiles EXCEPT ![i] = Unset]
  OBVIOUS
<1> PICK mark : mark = IF removed[i] = "raced" \/ \E n \in Instance : Unaware(n, i)
                       THEN "raced" ELSE "quietly"
  OBVIOUS
<1>1. /\ registry' = [registry EXCEPT !.profiles = profiles] /\ provision' = provision
      /\ registry \in Registry /\ registry.profiles[i] # Unset
      /\ removed' = [removed EXCEPT ![i] = mark] /\ mark \in {"raced", "quietly"}
      /\ removed \in [Profile -> {"no", "quietly", "raced"}]
  BY DEF RemoveProfile, Present, Edit, ProvisionInv, ProvisionTyped
<1>2. /\ profiles \in [Profile -> StoredProfile \cup {Unset}] /\ profiles[i] = Unset
      /\ \A j \in Profile : j # i => profiles[j] = registry.profiles[j]
  BY <1>1 DEF Registry
<1>3. /\ registry' \in Registry /\ registry'.profiles = profiles
      /\ registry'.binding = registry.binding /\ registry'.projects = registry.projects
      /\ registry'.history = registry.history /\ registry'.grants = registry.grants
  BY ONLY <1>1, <1>2 DEF Registry
<1>4. Started' = Started /\ Provisioned' = Provisioned
  BY <1>1 DEF Started, Provisioned
<1>5. /\ removed'[i] = mark /\ (removed[i] = "raced" => mark = "raced")
      /\ \A j \in Profile : j # i => removed'[j] = removed[j]
      /\ i \in registry.history
  BY <1>1 DEF ProvisionInv, TablesAgree
<1>6. ProvisionTyped'
  BY <1>1, <1>3 DEF ProvisionInv, ProvisionTyped
<1>7. BoundOnce'
  <2>1. registry.binding # Unset
    BY <1>1, EmptyIsRegistry DEF ProvisionInv, BoundOnce
  <2> QED
    BY <1>1, <1>3, <1>4, <2>1 DEF ProvisionInv, BoundOnce
<1>8. SeenIsThere'
  BY <1>1, <1>3, <1>4 DEF ProvisionInv, SeenIsThere
<1>9. TablesAgree'
  BY <1>1, <1>2, <1>3, <1>5 DEF ProvisionInv, TablesAgree
<1>10. DoneIsThere'
  BY <1>1, <1>3, <1>4 DEF ProvisionInv, DoneIsThere
<1>11. CheckHolds'
  <2> SUFFICES ASSUME NEW m \in Started, provision[m].pc \in {"grants", "commit"},
                      ~provision[m].binds, NEW j \in Configured(provision[m].config)
               PROVE  IF provision[m].seen.profiles[j] = Unset
                      THEN j \in registry'.history =>
                              registry'.profiles[j] # Unset \/ removed'[j] = "raced"
                      ELSE provision[m].seen.profiles[j].digest = provision[m].config.profiles[j]
    BY <1>1, <1>4 DEF CheckHolds
  <2>1. /\ m \in Instance /\ j \in Profile
        /\ IF provision[m].seen.profiles[j] = Unset
           THEN j \in registry.history => registry.profiles[j] # Unset \/ removed[j] = "raced"
           ELSE provision[m].seen.profiles[j].digest = provision[m].config.profiles[j]
    BY DEF ProvisionInv, CheckHolds, Configured, Started
  <2>2. CASE j = i
    <3>1. provision[m].seen.profiles[i] = Unset => Unaware(m, i)
      BY <2>2 DEF Unaware, NewProfiles
    <3>2. provision[m].seen.profiles[i] = Unset => mark = "raced"
      BY <2>1, <3>1
    <3> QED
      BY <1>5, <2>1, <2>2, <3>2
  <2>3. CASE j # i
    BY <1>2, <1>3, <1>5, <2>1, <2>3
  <2> QED
    BY <2>2, <2>3
<1>12. \A j \in Profile : \A d : Known(j, d)' => Known(j, d)
  BY <1>1, <1>2, <1>3, <1>4 DEF Known
<1>13. OneDigest'
  BY <1>5, <1>12 DEF ProvisionInv, OneDigest
<1>14. RemovedStaysAway'
  BY <1>2, <1>3, <1>5 DEF ProvisionInv, RemovedStaysAway
<1> QED
  BY <1>6, <1>7, <1>8, <1>9, <1>10, <1>11, <1>13, <1>14 DEF ProvisionInv

-----------------------------------------------------------------------------

LEMMA ProvisionStep ==
    ASSUME ProvisioningAssumption, ProvisionInv, [ProvisionNext]_provisionVars
    PROVE  ProvisionInv'
<1>1. CASE UNCHANGED provisionVars
  <2>1. registry' = registry /\ provision' = provision /\ removed' = removed
    BY <1>1 DEF provisionVars
  <2> QED
    BY <2>1 DEF ProvisionInv, ProvisionTyped, BoundOnce, SeenIsThere, TablesAgree, DoneIsThere,
                CheckHolds, OneDigest, Known, RemovedStaysAway, Started, Provisioned
<1>2. ASSUME NEW n \in Instance, NEW c \in Config, ReadBinding(n, c)
      PROVE  ProvisionInv'
  BY <1>2, ReadBindingKeeps
<1>3. ASSUME NEW n \in Instance, ReadProjects(n) \/ ReadProfiles(n) \/ ReadGrants(n)
      PROVE  ProvisionInv'
  BY <1>3, ReadTableKeeps
<1>4. ASSUME NEW n \in Instance, ReadHistory(n)
      PROVE  ProvisionInv'
  BY <1>4, ReadHistoryKeeps
<1>5. ASSUME NEW n \in Instance, CommitPlan(n)
      PROVE  ProvisionInv'
  <2>1. provision[n].pc = "commit" /\ removed' = removed
    BY <1>5 DEF CommitPlan
  <2>2. CASE Conflicting(provision[n])
    <3>1. Provisions(n, "refused") /\ registry' = registry
      BY <1>5, <2>2 DEF CommitPlan
    <3> QED
      BY <2>1, <3>1, ProvisionsKeeps
  <2>3. CASE ~Conflicting(provision[n])
    BY <1>5, <2>1, <2>3, CommitKeeps
  <2> QED
    BY <2>2, <2>3
<1>6. ASSUME NEW n \in Instance, Fails(n)
      PROVE  ProvisionInv'
  BY <1>6, FailsKeeps
<1>7. ASSUME NEW i \in Profile, Disable(i) \/ Drift(i) \/ RemoveProfile(i)
      PROVE  ProvisionInv'
  BY <1>7, DisableKeeps, DriftKeeps, RemoveKeeps
<1> QED
  BY <1>1, <1>2, <1>3, <1>4, <1>5, <1>6, <1>7 DEF ProvisionNext

LEMMA ProvisionInitially ==
    ASSUME ProvisionInit
    PROVE  ProvisionInv
<1>1. /\ registry = EmptyRegistry /\ registry \in Registry /\ Started = {} /\ Provisioned = {}
      /\ \A i \in Profile : removed[i] = "no"
  BY EmptyIsRegistry DEF ProvisionInit, NotStarted, Started, Provisioned
<1>2. ProvisionTyped
  BY <1>1 DEF ProvisionInit, ProvisionTyped
<1>3. registry.binding = Unset /\ registry.grants = {}
  BY <1>1 DEF EmptyRegistry
<1> QED
  BY <1>1, <1>2, <1>3, EmptyIsRegistry
  DEF ProvisionInv, BoundOnce, SeenIsThere, TablesAgree, DoneIsThere, CheckHolds, OneDigest,
      Known, RemovedStaysAway

LEMMA ProvisionInvImplies ==
    ASSUME ProvisioningAssumption, ProvisionInv
    PROVE  ProvisioningSound /\ ProvisionTypeOK
<1>1. OneWorkspace
  <2>1. \A n \in Provisioned : provision[n].workspace = registry.binding
    BY DEF ProvisionInv, BoundOnce
  <2>2. ASSUME Provisioned # {}
        PROVE  Cardinality({n \in Provisioned : provision[n].binds}) = 1
    <3>1. registry.binding # Unset
      <4> PICK n \in Provisioned : TRUE
        BY <2>2
      <4>1. provision[n] \in Pass
        BY SeenKnown DEF Provisioned, Started
      <4> QED
        BY <2>1, <4>1 DEF Pass, ProvisioningAssumption
    <3> PICK b \in Provisioned : provision[b].binds
      BY <3>1 DEF ProvisionInv, BoundOnce
    <3>2. {n \in Provisioned : provision[n].binds} = {b}
      BY DEF ProvisionInv, BoundOnce
    <3>3. Cardinality({b}) = 1
      BY FS_Singleton
    <3> QED
      BY ONLY <3>2, <3>3
  <2> QED
    BY <2>1, <2>2 DEF OneWorkspace
<1>2. PassesAgree
  <2> SUFFICES ASSUME NEW m \in Provisioned, NEW n \in Provisioned,
                      NEW i \in Configured(provision[m].config)
                                \cap Configured(provision[n].config),
                      removed[i] # "raced"
               PROVE  provision[m].config.profiles[i] = provision[n].config.profiles[i]
    BY DEF PassesAgree
  <2>1. provision[m] \in Pass /\ provision[n] \in Pass /\ i \in Profile
    BY SeenKnown DEF Provisioned, Started, Configured
  <2>2. /\ provision[m].config.profiles[i] \in Policies
        /\ provision[n].config.profiles[i] \in Policies
    BY <2>1 DEF Pass, Policies
  <2>3. Known(i, provision[m].config.profiles[i]) /\ Known(i, provision[n].config.profiles[i])
    BY DEF Known
  <2> QED
    BY <2>1, <2>2, <2>3 DEF ProvisionInv, OneDigest
<1>3. ConfiguredIsThere
  BY DEF ProvisionInv, DoneIsThere, TablesAgree, ConfiguredIsThere, Configured
<1>4. ProvisionTypeOK
  BY DEF ProvisionInv, ProvisionTyped, BoundOnce, TablesAgree, Registry, ProvisionTypeOK
<1> QED
  BY <1>1, <1>2, <1>3, <1>4 DEF ProvisioningSound, ProvisionInv

-----------------------------------------------------------------------------
(* The desk: a step of it is a step of each protocol or leaves it alone.   *)

LEMMA DeskSteps ==
    /\ DeskInit => AggregateInit /\ ReviewInit /\ WakeInit /\ MailInit /\ ProvisionInit
    /\ [DeskNext]_deskVars =>
          /\ [AggregateNext]_aggregateVars /\ [ReviewNext]_reviewVars
          /\ [WakeNext \/ (IntakeNext /\ UNCHANGED workerVars)]_wakeVars
          /\ [MailNext]_mailVars /\ [ProvisionNext]_provisionVars
BY DEF DeskInit, DeskNext, deskVars

(* The aggregate: whatever the operations that overlap on a ticket, its    *)
(* fields agree with its status, no acknowledged reply is lost and the     *)
(* requester rates it once.                                                *)
THEOREM AggregateAlwaysSound == DeskSpec => [](AggregateSound /\ AggregateTypeOK)
<1>1. DeskInit => AggregateInv
  BY DeskSteps, AggregateInitially
<1>2. AggregateInv /\ [DeskNext]_deskVars => AggregateInv'
  BY DeskSteps, AggregateStep, AggregateAssumption
<1>3. AggregateInv => AggregateSound /\ AggregateTypeOK
  BY AggregateInvImplies
<1> QED
  BY <1>1, <1>2, <1>3, PTL DEF DeskSpec

LEMMA ReviewsStay == DeskSpec => []ReviewTypeOK
<1>1. DeskInit => ReviewInv
  BY DeskSteps, ReviewInitially, ReviewAssumption
<1>2. ReviewInv /\ [DeskNext]_deskVars => ReviewInv'
  BY DeskSteps, ReviewStep, ReviewAssumption
<1>3. ReviewInv => ReviewTypeOK
  BY ReviewInvImplies
<1> QED
  BY <1>1, <1>2, <1>3, PTL DEF DeskSpec

LEMMA MailShapeStays == DeskSpec => []MailTypeOK
<1>1. DeskInit => MailTyped
  BY DeskSteps, ShapeInitially, MailAssumption
<1>2. MailTyped /\ [DeskNext]_deskVars => MailTyped'
  BY DeskSteps, ShapeKept, MailAssumption
<1>3. MailTyped => MailTypeOK
  BY ShapeImplies
<1> QED
  BY <1>1, <1>2, <1>3, PTL DEF DeskSpec

LEMMA MailStays == OperatorWaits => (DeskSpec => []MailInv)
<1> SUFFICES ASSUME OperatorWaits
             PROVE  DeskSpec => []MailInv
  OBVIOUS
<1>1. DeskInit => MailInv
  BY DeskSteps, MailInitially, MailAssumption
<1>2. MailInv /\ [DeskNext]_deskVars => MailInv'
  BY DeskSteps, MailStep, MailAssumption
<1> QED
  BY <1>1, <1>2, PTL DEF DeskSpec

(* The delivery of a reply: however runs are retried, crash or take the    *)
(* delivery over from each other, the mail is sent once at most - if the   *)
(* operator resolves a send only when no run is at it any more.            *)
THEOREM MailIsSentOnce == OperatorWaits => (DeskSpec => []NoDuplicateSend)
<1>1. MailInv => NoDuplicateSend
  BY MailInvImplies
<1> QED
  BY <1>1, MailStays, PTL

(* What a run that ended well or gave up, the intent and the operator's    *)
(* resolution say of the mail is true of it, under the same hypothesis.    *)
THEOREM MailOutcomesAreTrue ==
    OperatorWaits => (DeskSpec => [](OutcomeIsTrue /\ MailTypeOK))
<1>1. MailInv => OutcomeIsTrue /\ MailTypeOK
  BY MailInvImplies
<1> QED
  BY <1>1, MailStays, PTL

LEMMA InboundStays == DeskSpec => [](IntakeInv /\ WakeInv)
<1>1. DeskInit => IntakeInv /\ WakeInv
  BY DeskSteps, InboundInitially, WakeAssumption
<1>2. (IntakeInv /\ WakeInv) /\ [DeskNext]_deskVars => (IntakeInv /\ WakeInv)'
  BY DeskSteps, InboundStep, IntakeAssumption, WakeAssumption
<1> QED
  BY <1>1, <1>2, PTL DEF DeskSpec

(* Inbound mail: however its notifications are repeated, reordered, failed *)
(* or lost, and its jobs retried, a notification is deleted only when its  *)
(* mails have jobs, and each mail is one message of its requester's        *)
(* ticket, not given up without a failure.  (A job in SQLite cannot open a *)
(* ticket, so there attempts run out without one.)                         *)
THEOREM InboundAlwaysSound == ~SqlStore => (DeskSpec => []InboundSound)
<1> SUFFICES ASSUME ~SqlStore
             PROVE  DeskSpec => []InboundSound
  OBVIOUS
<1>1. IntakeInv /\ WakeInv => InboundSound
  BY IntakeInvImplies, WakeInvImplies, WakeAssumption DEF IntakeSound, InboundSound
<1> QED
  BY <1>1, InboundStays, PTL

(* ... and the rest of that in either store.                               *)
THEOREM MailIsKept ==
    DeskSpec => [](OneMessagePerMail /\ DoneIsKept /\ OnlyRequesterWrites /\ WakeSound)
<1>1. IntakeInv /\ WakeInv
         => OneMessagePerMail /\ DoneIsKept /\ OnlyRequesterWrites /\ WakeSound
  BY IntakeInvImplies, WakeInvImplies, WakeAssumption
<1> QED
  BY <1>1, InboundStays, PTL

(* The workspace: the instances that came up work for one workspace that   *)
(* one of them bound, agree on the profiles they share, have what they     *)
(* were configured with, and have not brought back what was removed.       *)
THEOREM ProvisioningAlwaysSound == DeskSpec => [](ProvisioningSound /\ ProvisionTypeOK)
<1>1. DeskInit => ProvisionInv
  BY DeskSteps, ProvisionInitially
<1>2. ProvisionInv /\ [DeskNext]_deskVars => ProvisionInv'
  BY DeskSteps, ProvisionStep, ProvisioningAssumption
<1>3. ProvisionInv => ProvisioningSound /\ ProvisionTypeOK
  BY ProvisionInvImplies, ProvisioningAssumption
<1> QED
  BY <1>1, <1>2, <1>3, PTL DEF DeskSpec

(* The records of the desk keep their shapes, whichever calls overlap and  *)
(* whenever the operator reconciles.                                       *)
THEOREM DeskTypeCorrect == DeskSpec => []DeskTypeOK
<1>1. AggregateTypeOK /\ ReviewTypeOK /\ MailTypeOK /\ ProvisionTypeOK /\ IntakeInv /\ WakeInv
         => DeskTypeOK
  BY IntakeInvImplies, WakeInvImplies, WakeAssumption DEF DeskTypeOK
<1> QED
  BY <1>1, AggregateAlwaysSound, ReviewsStay, MailShapeStays, ProvisioningAlwaysSound,
     InboundStays, PTL
=============================================================================
