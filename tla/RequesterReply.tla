--------------------------- MODULE RequesterReply ---------------------------
(***************************************************************************)
(* The requester's reply to a ticket over HTTP with an Idempotency-Key     *)
(* (requester_reply): the claim on the key, the recovery through the       *)
(* operation receipt, and the append that commits message and receipt.     *)
(* Requests race each other and another writer of the ticket, lose their   *)
(* answers, crash and retry.                                               *)
(***************************************************************************)
EXTENDS Idempotency

CONSTANTS
    ReplyKey,           \* the effective keys of this client in the store
    Body,
    ReceiptLife,        \* receipt.expires_at - now in reply_as_requester_with_receipt
    MaxRevision,        \* bound: the last revision of the ticket
    MaxReplyFailures    \* bound: complete and abort calls the store refuses

ASSUME ReplyAssumption ==
    /\ ReceiptLife \in Nat /\ MaxRevision \in Nat /\ MaxReplyFailures \in Nat
    /\ ReplyKey \subseteq Key
    /\ [body : Body, revision : 0..MaxRevision] \subseteq Fingerprint

VARIABLES
    thread,     \* its revision and the replies committed
    receipts,   \* OperationReceipt by effective key
    reply,      \* the requests
    replyFailures

replyVars == <<entries, now, thread, receipts, reply, replyFailures>>

Print_(b, rev) == [body |-> b, revision |-> rev]
Prints == [body : Body, revision : 0..MaxRevision]

NoReceipt == [response |-> "none"]
Receipt(f, r) ==
    [fingerprint |-> f, response |-> r, expires_at |-> now + ReceiptLife]

NoReply == [pc |-> "idle"]

At(pc, k, f) ==
    [pc |-> pc, key |-> k, fp |-> f, status |-> "none", value |-> "none"]

(* The answers to a request: 200 with a result, or a problem.              *)
Problems ==
    {"conflict", "too_early", "internal", "persist_uncertain", "stale", "refused"}

Ok(r) == reply[r].pc = "answered" /\ reply[r].status = "ok"

ReplyInit ==
    /\ StoreInit
    /\ thread = [revision |-> 0, messages |-> {}]
    /\ receipts = [k \in ReplyKey |-> NoReceipt]
    /\ reply = [r \in Request |-> NoReply]
    /\ replyFailures = 0

ReplyTo(r, pc) == reply' = [reply EXCEPT ![r].pc = pc]
Answer(r, status, v) ==
    reply' = [reply EXCEPT ![r] =
                 [@ EXCEPT !.pc = "answered", !.status = status, !.value = v]]

-----------------------------------------------------------------------------
(* The handler.                                                            *)

(* The request arrives with its key, a body and the If-Match revision of   *)
(* a ticket the client has read; begin inserts the claim, or finds a row.  *)
Arrive(r, k, b, rev) ==
    /\ reply[r] = NoReply /\ rev <= thread.revision
    /\ IF InsertClaims(k)
       THEN begin(k, Print_(b, rev), r) /\
            reply' = [reply EXCEPT ![r] = At("receipt", k, Print_(b, rev))]
       ELSE reply' = [reply EXCEPT ![r] = At("begin", k, Print_(b, rev))] /\
            UNCHANGED entries
    /\ UNCHANGED <<now, thread, receipts, replyFailures>>

(* begin decides under the row lock; a row aborted meanwhile is an error.  *)
ReplyBegin(r) ==
    LET k == reply[r].key
        f == reply[r].fp
        outcome == BeginOutcome(k, f)
    IN
    /\ reply[r].pc = "begin"
    /\ \/ InsertClaims(k) /\ Answer(r, "internal", r) /\ UNCHANGED entries
       \/ ~InsertClaims(k) /\ outcome = "replay"
             /\ Answer(r, "ok", entries[k].response) /\ UNCHANGED entries
       \/ ~InsertClaims(k) /\ outcome \in {"conflict", "in_progress"}
             /\ Answer(r, IF outcome = "conflict" THEN "conflict" ELSE "too_early", r)
             /\ UNCHANGED entries
       \/ ~InsertClaims(k) /\ outcome = "started"
             /\ begin(k, f, r) /\ ReplyTo(r, "receipt")
    /\ UNCHANGED <<now, thread, receipts, replyFailures>>

(* The receipt of an earlier attempt answers for it when its scope and     *)
(* fingerprint match and it has not expired.                               *)
Recoverable(k, f) ==
    /\ receipts[k] # NoReceipt
    /\ receipts[k].fingerprint = f
    /\ receipts[k].expires_at > now

ReadReceipt(r) ==
    /\ reply[r].pc = "receipt"
    /\ IF Recoverable(reply[r].key, reply[r].fp)
       THEN reply' = [reply EXCEPT ![r] =
               [@ EXCEPT !.pc = "recovered", !.value = receipts[reply[r].key].response]]
       ELSE ReplyTo(r, "load")
    /\ UNCHANGED <<entries, now, thread, receipts, replyFailures>>

(* complete's result is ignored: the receipt is the authority.             *)
AnswerFromReceipt(r) ==
    /\ reply[r].pc = "recovered"
    /\ \/ complete(reply[r].key, reply[r].fp, r, reply[r].value) /\ UNCHANGED replyFailures
       \/ replyFailures < MaxReplyFailures /\ replyFailures' = replyFailures + 1 /\ UNCHANGED entries
    /\ Answer(r, "ok", reply[r].value)
    /\ UNCHANGED <<now, thread, receipts>>

(* reply_as_requester_with_receipt: load and require_revision; the other   *)
(* refusals (requester, body, status) are the second disjunct's.           *)
LoadThread(r) ==
    /\ reply[r].pc = "load"
    /\ \/ thread.revision = reply[r].fp.revision /\ ReplyTo(r, "append")
       \/ thread.revision # reply[r].fp.revision /\ ReplyTo(r, "stale")
       \/ ReplyTo(r, "refused")
    /\ UNCHANGED <<entries, now, thread, receipts, replyFailures>>

(* Mutant: the append is a blind write.                                    *)
AppendBlind(r) ==
    LET k == reply[r].key
        f == reply[r].fp
    IN
    /\ reply[r].pc = "append"
    /\ thread.revision < MaxRevision
    /\ thread' = [revision |-> thread.revision + 1,
                  messages |-> thread.messages \cup {[key |-> k, fp |-> f, by |-> r]}]
    /\ receipts' = [receipts EXCEPT ![k] = Receipt(f, r)]
    /\ ReplyTo(r, "complete")
    /\ UNCHANGED <<entries, now, replyFailures>>

(* append_ticket_message: the SQL transaction commits message and receipt  *)
(* together, and refuses a second receipt of the key.                      *)
append_ticket_message(r) ==
    LET k == reply[r].key
        f == reply[r].fp
        current == thread.revision = f.revision
        commits == current /\ receipts[k] = NoReceipt
    IN
    /\ reply[r].pc = "append"
    /\ commits => thread.revision < MaxRevision
    /\ thread' = IF commits
                 THEN [revision |-> thread.revision + 1,
                       messages |-> thread.messages \cup {[key |-> k, fp |-> f, by |-> r]}]
                 ELSE thread
    /\ receipts' = IF commits THEN [receipts EXCEPT ![k] = Receipt(f, r)] ELSE receipts
    /\ ReplyTo(r, IF commits THEN "complete" ELSE IF current THEN "refused" ELSE "stale")
    /\ UNCHANGED <<entries, now, replyFailures>>

(* A completion that fails, or finds the claim taken over, is surfaced.    *)
ReplyComplete(r) ==
    /\ reply[r].pc = "complete"
    /\ \/ complete(reply[r].key, reply[r].fp, r, r)
             /\ Answer(r, IF Holds(reply[r].key, reply[r].fp, r)
                          THEN "ok" ELSE "persist_uncertain", r)
             /\ UNCHANGED replyFailures
       \/ replyFailures < MaxReplyFailures /\ replyFailures' = replyFailures + 1
             /\ Answer(r, "persist_uncertain", r) /\ UNCHANGED entries
    /\ UNCHANGED <<now, thread, receipts>>

AbortClaim(r) ==
    /\ reply[r].pc \in {"stale", "refused"}
    /\ \/ abort(reply[r].key, reply[r].fp, r) /\ UNCHANGED replyFailures
       \/ replyFailures < MaxReplyFailures /\ replyFailures' = replyFailures + 1 /\ UNCHANGED entries
    /\ Answer(r, reply[r].pc, r)
    /\ UNCHANGED <<now, thread, receipts>>

(* The process of a request dies; what it held stays.                      *)
ReplyLost(r) ==
    /\ reply[r].pc \notin {"idle", "answered", "lost"}
    /\ ReplyTo(r, "lost")
    /\ UNCHANGED <<entries, now, thread, receipts, replyFailures>>

(* Another writer of the ticket.                                           *)
OtherWrite ==
    /\ thread.revision < MaxRevision
    /\ thread' = [thread EXCEPT !.revision = @ + 1]
    /\ UNCHANGED <<entries, now, receipts, reply, replyFailures>>

ReplyStep(r) ==
    \/ \E k \in ReplyKey, b \in Body, rev \in 0..MaxRevision : Arrive(r, k, b, rev)
    \/ ReplyBegin(r) \/ ReadReceipt(r) \/ AnswerFromReceipt(r)
    \/ LoadThread(r) \/ append_ticket_message(r) \/ ReplyComplete(r)
    \/ AbortClaim(r) \/ ReplyLost(r)

ReplyNext ==
    \/ \E r \in Request : ReplyStep(r)
    \/ OtherWrite
    \/ Tick /\ UNCHANGED <<thread, receipts, reply, replyFailures>>

ReplySpec == ReplyInit /\ [][ReplyNext]_replyVars

-----------------------------------------------------------------------------
(* Every variable keeps its shape.                                         *)
ReplyTypeOK ==
    /\ StoreTypeOK
    /\ thread.revision \in 0..MaxRevision
    /\ thread.messages \subseteq [key : ReplyKey, fp : Prints, by : Request]
    /\ \A r \in Request : reply[r].pc = "answered" =>
          reply[r].status \in Problems \cup {"ok"} /\ reply[r].value \in Request
    /\ replyFailures \in 0..MaxReplyFailures

(* A reply that was answered 200 is in the ticket: "the mutation and its   *)
(* receipt are committed" (http.rs) whichever path gave the answer - the   *)
(* append, a replay, or the receipt after a takeover.  With ReplyOnce, all *)
(* the 200 answers of a key and fingerprint are the same.                  *)
OkIsCommitted ==
    \A r \in Request : Ok(r) =>
       \E m \in thread.messages :
          m.key = reply[r].key /\ m.fp = reply[r].fp /\ m.by = reply[r].value

(* However many requests retry one key, and whoever takes a claim over, a  *)
(* reply is in the ticket once: append_ticket_message compares the         *)
(* revision the fingerprint names.                                         *)
ReplyOnce ==
    \A m, n \in thread.messages : m.key = n.key /\ m.fp = n.fp => m = n

(* A 200 and the ticket agree: what is answered is committed, and once.    *)
ReplyCommittedOnce == OkIsCommitted /\ ReplyOnce
=============================================================================
