---------------------------- MODULE WaffoActions ----------------------------
(***************************************************************************)
(* WaffoClient::execute_action: a mutating call to the payment provider    *)
(* under an idempotency claim of the process's own store.  The key of the  *)
(* claim is the digest of the whole scope, path and body included, so a    *)
(* fingerprint and its key are one.                                        *)
(***************************************************************************)
EXTENDS Idempotency

CONSTANTS
    ActionKey,      \* the scopes of this client in the store
    EphemeralKey    \* those whose path is ISSUE_SESSION_TOKEN_PATH

ASSUME WaffoAssumption ==
    EphemeralKey \subseteq ActionKey /\ ActionKey \subseteq Key \cap Fingerprint

VARIABLES
    action,     \* the calls of execute_action
    received    \* external: the requests the provider received, oldest first

waffoVars == <<entries, now, action, received>>

NotCalled == [pc |-> "idle"]

WaffoInit ==
    /\ StoreInit
    /\ action = [c \in Request |-> NotCalled]
    /\ received = [k \in ActionKey |-> {}]

CallTo(c, pc) == action' = [action EXCEPT ![c].pc = pc]
CallReturn(c, pc, v) == action' = [action EXCEPT ![c] = [@ EXCEPT !.pc = pc, !.value = v]]

Ephemeral(c) == action[c].key \in EphemeralKey

(* begin, in the store's two statements; a replay of a scope that carries  *)
(* a secret is refused, and so is a call while another is in progress.     *)
CallBegin(c, k) ==
    /\ action[c] = NotCalled
    /\ IF InsertClaims(k)
       THEN /\ begin(k, k, c)
            /\ action' = [action EXCEPT
                  ![c] = [pc |-> "claimed", key |-> k, value |-> c, began |-> now]]
       ELSE /\ action' = [action EXCEPT
                  ![c] = [pc |-> "begin", key |-> k, value |-> c, began |-> now]]
            /\ UNCHANGED entries
    /\ UNCHANGED <<now, received>>

BeginFound(c) ==
    LET k == action[c].key IN
    /\ action[c].pc = "begin"
    /\ \/ InsertClaims(k) /\ CallReturn(c, "error", c) /\ UNCHANGED entries
       \/ ~InsertClaims(k) /\ BeginOutcome(k, k) = "started"
             /\ begin(k, k, c)
             /\ action' = [action EXCEPT ![c] = [@ EXCEPT !.pc = "claimed", !.began = now]]
       \/ ~InsertClaims(k) /\ BeginOutcome(k, k) = "in_progress"
             /\ CallReturn(c, "error", c) /\ UNCHANGED entries
       \/ ~InsertClaims(k) /\ BeginOutcome(k, k) = "replay"
             /\ CallReturn(c, "ok", entries[k].response) /\ UNCHANGED entries
    /\ UNCHANGED <<now, received>>

(* post_signed: one attempt, which the provider may or may not receive.    *)
(* An answer is parsed; everything else, a timeout included, is an error.  *)
PostSigned(c) ==
    LET k == action[c].key IN
    /\ action[c].pc = "claimed"
    /\ \/ received' = [received EXCEPT ![k] = @ \cup {c}] /\ CallTo(c, "answered")
       \/ received' = [received EXCEPT ![k] = @ \cup {c}] /\ CallTo(c, "failed")
       \/ received' = received /\ CallTo(c, "failed")
    /\ UNCHANGED <<entries, now>>

(* A success is completed into the store - unless it carries a secret,     *)
(* when the claim is released - and neither may have lost the claim.       *)
SettleAction(c) ==
    LET k == action[c].key IN
    /\ action[c].pc = "answered"
    /\ IF Ephemeral(c) THEN abort(k, k, c) ELSE complete(k, k, c, c)
    /\ CallReturn(c, IF Holds(k, k, c) THEN "ok" ELSE "error", c)
    /\ UNCHANGED <<now, received>>

(* Any error of the attempt releases the claim.                            *)
Release(c) ==
    /\ action[c].pc = "failed"
    /\ abort(action[c].key, action[c].key, c)
    /\ CallReturn(c, "error", c)
    /\ UNCHANGED <<now, received>>

CallLost(c) ==
    /\ action[c].pc \in {"claimed", "answered", "failed"}
    /\ CallTo(c, "lost")
    /\ UNCHANGED <<entries, now, received>>

WaffoNext ==
    \/ \E c \in Request :
          \/ \E k \in ActionKey : CallBegin(c, k)
          \/ BeginFound(c) \/ PostSigned(c) \/ SettleAction(c) \/ Release(c) \/ CallLost(c)
    \/ Tick /\ UNCHANGED <<action, received>>

WaffoSpec == WaffoInit /\ [][WaffoNext]_waffoVars

-----------------------------------------------------------------------------
(* Every variable keeps its shape.                                         *)
WaffoTypeOK ==
    /\ StoreTypeOK
    /\ \A c \in Request : action[c] # NotCalled =>
          action[c].key \in ActionKey /\ action[c].value \in Request /\ action[c].began \in 0..now
    /\ received \in [ActionKey -> SUBSET Request]

(* All successful answers of execute_action for one scope are the answer   *)
(* of one attempt at the provider: the completed record is never replaced, *)
(* not even by a slow call whose claim was taken over.                     *)
OneAnswerPerScope ==
    \A c, d \in Request :
       /\ action[c].pc = "ok" /\ action[d].pc = "ok"
       /\ action[c].key = action[d].key /\ ~Ephemeral(c)
       => action[c].value = action[d].value

(* The provider hears one scope twice only when the first attempt failed   *)
(* or was lost, or was older than the claim timeout when the second began. *)
SecondSendHasCause ==
    \A k \in ActionKey \ EphemeralKey : \A c, d \in received[k] :
       /\ action[c].pc \in {"answered", "ok"}
       /\ action[d].pc \in {"answered", "ok"}
       /\ c # d
       => \/ action[c].began + StaleAfter <= action[d].began
          \/ action[d].began + StaleAfter <= action[c].began

(* One scope is one payment, as far as the process can tell: its successes *)
(* agree, and a repeated send has a cause.                                 *)
ActionAnsweredOnce == OneAnswerPerScope /\ SecondSendHasCause

(* Once a call of a scope succeeded, execute_action starts no other        *)
(* attempt for it: later calls replay the record.                          *)
NoStartAfterSuccess ==
    [][\A c \in Request :
          action[c].pc # "claimed" /\ action'[c].pc = "claimed" /\ action'[c].key \notin EphemeralKey
          => \A d \in Request : action[d].pc = "ok" => action[d].key # action'[c].key]_waffoVars
=============================================================================
