-------------------------- MODULE IdempotentRequests --------------------------
(***************************************************************************)
(* The three callers of the idempotency store: the payment client, the     *)
(* requester's reply and the portal's session exchange.  Their keys differ *)
(* in scope and prefix, so that callers of two kinds share no entry; a     *)
(* behaviour is that of the requests of one kind.                          *)
(***************************************************************************)
EXTENDS WaffoActions, RequesterReply, SessionExchange

ASSUME ClientsAssumption ==
    ActionKey \cap ReplyKey = {} /\ key \notin ActionKey \cup ReplyKey

VARIABLE client

clientVars == <<entries, now, action, received, thread, receipts, reply, replyFailures,
                exchangeOwn, client>>

ClientsInit ==
    /\ WaffoInit /\ ReplyInit /\ ExchangeInit
    /\ client \in {"waffo", "reply", "exchange"}

ClientsNext ==
    /\ \/ client = "waffo" /\ WaffoNext
             /\ UNCHANGED <<thread, receipts, reply, replyFailures, exchangeOwn>>
       \/ client = "reply" /\ ReplyNext
             /\ UNCHANGED <<action, received, exchangeOwn>>
       \/ client = "exchange" /\ ExchangeNext
             /\ UNCHANGED <<action, received, thread, receipts, reply, replyFailures>>
    /\ UNCHANGED client

ClientsSpec == ClientsInit /\ [][ClientsNext]_clientVars

(* The shapes of the store and of the three callers.                       *)
ClientsTypeOK == WaffoTypeOK /\ ReplyTypeOK /\ ExchangeTypeOK
=============================================================================
