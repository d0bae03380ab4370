---------------------------- MODULE DeskReviews ----------------------------
(***************************************************************************)
(* The records beside a ticket that people decide on: a clarification      *)
(* (draft, sent, answered) and the proposals of a development automation   *)
(* run. Each decision reads the record, checks its state in the domain and *)
(* writes it back by identifier, with no condition on what is stored; and  *)
(* calls overlap as they come.  (The overlap key of the automation job     *)
(* holds as long as a lease does, and is left out.)                        *)
(***************************************************************************)
EXTENDS Naturals, FiniteSets

CONSTANTS
    Review,         \* the calls, and the executions of the automation command
    None,
    MaxChanges      \* bound: changes of the ticket

ASSUME ReviewAssumption == None \notin Review /\ MaxChanges \in Nat

VARIABLES
    clarification,  \* state and answers
    revision,       \* of the ticket
    proposals,      \* AutomationProposal::state by the execution that made it
    review          \* the calls: where each is, of which kind, what it read

reviewVars == <<clarification, revision, proposals, review>>

ClarificationState == {"draft", "sent", "answered", "withdrawn"}
AutomationProposalState == {"awaiting_review", "accepted", "rejected"}

Unreviewed == [pc |-> "idle"]
Busy(c, kind) == review[c].pc = "read" /\ review[c].kind = kind

(* The command was submitted for revision 0.                               *)
BoundRevision == 0

ReviewInit ==
    /\ clarification = [state |-> "draft", answers |-> None]
    /\ revision = BoundRevision
    /\ proposals = [r \in Review |-> None]
    /\ review = [c \in Review |-> Unreviewed]

Reading(kind, copy) == [pc |-> "read", kind |-> kind, copy |-> copy]
Over(kind, pc) == [pc |-> pc, kind |-> kind]
Become(c, v) == review' = [review EXCEPT ![c] = v]

-----------------------------------------------------------------------------
(* Clarifications.                                                         *)

(* get_clarification, then the domain check: a draft is sent, a sent one   *)
(* answered; the requester of a draft is told it does not exist.           *)
Takes(kind) == IF kind = "send" THEN "draft" ELSE "sent"

ReadClarification(c, kind) ==
    /\ review[c] = Unreviewed
    /\ Become(c, IF clarification.state = Takes(kind)
                 THEN Reading(kind, clarification) ELSE Over(kind, "refused"))
    /\ UNCHANGED <<clarification, revision, proposals>>

(* update_clarification writes the whole copy.                             *)
WriteSend(c) ==
    /\ Busy(c, "send")
    /\ clarification' = [review[c].copy EXCEPT !.state = "sent"]
    /\ Become(c, Over("send", "ok"))
    /\ UNCHANGED <<revision, proposals>>

WriteReply(c) ==
    /\ Busy(c, "reply")
    /\ clarification' = [review[c].copy EXCEPT !.state = "answered", !.answers = c]
    /\ Become(c, Over("reply", "ok"))
    /\ UNCHANGED <<revision, proposals>>

-----------------------------------------------------------------------------
(* Automation proposals.                                                   *)

(* The ticket changes under another call.                                  *)
ChangeTicket ==
    /\ revision < MaxChanges
    /\ revision' = revision + 1
    /\ UNCHANGED <<clarification, proposals, review>>

(* run_development_automation: load the ticket and compare its revision    *)
(* with the one the command is bound to.                                   *)
LoadTicket(r) ==
    /\ review[r] = Unreviewed
    /\ Become(r, IF revision = BoundRevision
                 THEN Reading("run", [revision |-> revision]) ELSE Over("run", "superseded"))
    /\ UNCHANGED <<clarification, revision, proposals>>

(* The proposal is stored; the store may fail, and the execution is lost   *)
(* or retried by another one.                                              *)
StoreProposal(r) ==
    /\ Busy(r, "run")
    /\ \/ /\ proposals' = [proposals EXCEPT ![r] = "awaiting_review"]
          /\ \E pc \in {"ok", "lost"} : Become(r, Over("run", pc))
       \/ Become(r, Over("run", "lost")) /\ UNCHANGED proposals
    /\ UNCHANGED <<clarification, revision>>

(* get_automation_proposal and decide.                                     *)
ReadProposal(c) ==
    /\ review[c] = Unreviewed
    /\ \E r \in Review :
          /\ proposals[r] # None
          /\ Become(c, IF proposals[r] = "awaiting_review"
                       THEN Reading("decide", r) ELSE Over("decide", "refused"))
    /\ UNCHANGED <<clarification, revision, proposals>>

(* update_automation_proposal writes the state of the copy.                *)
WriteDecision(c) ==
    LET r == review[c].copy IN
    /\ Busy(c, "decide")
    /\ \E s \in {"accepted", "rejected"} :
          /\ proposals' = [proposals EXCEPT ![r] = s]
          /\ Become(c, Over("decide", "ok"))
    /\ UNCHANGED <<clarification, revision>>

ReviewNext ==
    \/ \E c \in Review :
          \/ ReadClarification(c, "send") \/ WriteSend(c)
          \/ ReadClarification(c, "reply") \/ WriteReply(c)
          \/ LoadTicket(c) \/ StoreProposal(c)
          \/ ReadProposal(c) \/ WriteDecision(c)
    \/ ChangeTicket

ReviewSpec == ReviewInit /\ [][ReviewNext]_reviewVars

-----------------------------------------------------------------------------
(* Type invariant of the two records: a proposal is in a state of its      *)
(* domain, and whoever overwrites a clarification leaves one that has      *)
(* answers exactly when it is answered (update_clarification writes state  *)
(* and answers together).                                                  *)
ReviewTypeOK ==
    /\ clarification \in [state : ClarificationState, answers : Review \cup {None}]
    /\ proposals \in [Review -> AutomationProposalState \cup {None}]
    /\ clarification.state = "answered" <=> clarification.answers # None

Acknowledged(c, kind) == review[c].pc = "ok" /\ review[c].kind = kind

(* "The requester answers exactly once" (reply_to_clarification): one      *)
(* reply to a clarification is acknowledged.                               *)
AnsweredOnce ==
    \A c, d \in Review :
        Acknowledged(c, "reply") /\ Acknowledged(d, "reply") => c = d
=============================================================================
