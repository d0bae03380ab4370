-------------------------- MODULE TicketAggregate --------------------------
(***************************************************************************)
(* One ticket and the calls that change it: each loads the aggregate,      *)
(* applies a domain operation to its copy and commits the copy under the   *)
(* revision it loaded, either whole (save) or as one message and a few     *)
(* columns (append_ticket_message). Retention erases old stopped tickets.  *)
(* A message, a rating and a call share the name of the caller.            *)
(***************************************************************************)
EXTENDS Naturals, FiniteSets

CONSTANTS
    Caller,         \* the calls; each is made once
    NoOne,          \* no message, no rating
    Targets         \* bound: the statuses change_status is called with

ASSUME AggregateAssumption ==
    /\ NoOne \notin Caller
    /\ Targets \subseteq {"new", "open", "pending_requester", "pending_internal",
                            "on_hold", "resolved", "closed"}

VARIABLES
    ticket,     \* the stored aggregate, or Gone
    call,       \* the calls: where each is and its copy of the ticket
    doomed,     \* TRUE: the erasure has selected the ticket
    sqlite      \* the store: SqliteTicketingStore, or MemoryTicketingStore

aggregateVars == <<ticket, call, doomed, sqlite>>

TicketStatus ==
    {"new", "open", "pending_requester", "pending_internal", "on_hold", "resolved", "closed"}
Stopped == {"resolved", "closed"}       \* TicketClockState::Stopped
Waiting == {"pending_requester", "on_hold"}

can_transition_to(s, t) ==
    \/ s \in TicketStatus \ Stopped /\ t \in TicketStatus \ {"new", "closed", s}
    \/ s = "resolved" /\ t \in {"open", "closed"}
    \/ s = "closed" /\ t = "open"

Gone == [status |-> "gone"]
Created ==
    [revision |-> 0, status |-> "new", waiting |-> FALSE, resolved |-> FALSE,
     closed |-> FALSE, resolution |-> FALSE, reason |-> FALSE,
     first |-> NoOne, csat |-> NoOne, messages |-> {}, aged |-> FALSE]

Tickets ==
    [revision : Nat, status : TicketStatus, waiting : BOOLEAN, resolved : BOOLEAN,
     closed : BOOLEAN, resolution : BOOLEAN, reason : BOOLEAN,
     first : Caller \cup {NoOne}, csat : Caller \cup {NoOne},
     messages : SUBSET Caller, aged : BOOLEAN]

(* What a call asks for; "update" is any operation that changes neither    *)
(* status nor messages: assignment, queue, priority, attachment, links.    *)
Ops ==
    [name : {"agent_reply", "requester_reply", "internal_note", "csat", "update"}]
        \cup {op \in [name : {"status"}, status : Targets, resolution : BOOLEAN, reason : BOOLEAN] :
                  /\ op.resolution => op.status \in Stopped
                  /\ op.reason => op.status = "closed"}
Appends(op) == op.name \in {"agent_reply", "requester_reply", "internal_note"}

Unmade == [pc |-> "idle"]
Refused == [pc |-> "refused"]
Answered(op) == [pc |-> "ok", op |-> [name |-> op.name]]

AggregateInit ==
    /\ ticket = Created
    /\ call = [c \in Caller |-> Unmade]
    /\ doomed = FALSE
    /\ sqlite \in BOOLEAN

-----------------------------------------------------------------------------
(* The domain operations on a copy (model.rs).                             *)

touch(t) == [t EXCEPT !.revision = @ + 1, !.aged = FALSE]

StatusAllowed(t, s, resolution, reason) ==
    /\ can_transition_to(t.status, s)
    /\ s \in Stopped => resolution \/ t.resolution
    /\ s = "closed" => reason

apply_status(t, s, resolution, reason) ==
    [t EXCEPT !.status = s,
              !.waiting = s \in Waiting,
              !.resolved = IF s = "closed" THEN @ ELSE s = "resolved",
              !.closed = s = "closed" \/ (@ /\ s # "open"),
              !.reason = IF s = "closed" THEN reason ELSE @ /\ s # "open",
              !.resolution = @ \/ (s \in Stopped /\ resolution)]

Reopens(t) == t.status \in {"pending_requester"} \cup Stopped

(* TRUE when the operation does not return a TicketValidationError.        *)
Allowed(t, op) ==
    IF op.name = "status" THEN StatusAllowed(t, op.status, op.resolution, op.reason)
    ELSE op.name = "csat" => t.status \in Stopped /\ t.csat = NoOne

reply_as_requester_message(t, c) ==
    [(IF Reopens(t) THEN apply_status(t, "open", FALSE, FALSE) ELSE t)
        EXCEPT !.messages = @ \cup {c}]

Answering(t) == IF t.status = "new" THEN apply_status(t, "open", FALSE, FALSE) ELSE t

reply_as_agent_message(t, c) ==
    [Answering(t) EXCEPT !.messages = @ \cup {c}, !.first = IF @ = NoOne THEN c ELSE @]

internal_note_message(t, c) == [t EXCEPT !.messages = @ \cup {c}]

(* Mutant: the revision is stored where the rating belongs.                *)
CsatStoresRevision(t, c) == [t EXCEPT !.csat = t.revision]

submit_csat(t, c) == [t EXCEPT !.csat = c]

(* The status and the system message that records it.                      *)
change_status(t, op, c) ==
    [apply_status(t, op.status, op.resolution, op.reason) EXCEPT !.messages = @ \cup {c}]

Apply(t, op, c) ==
    touch(CASE op.name = "requester_reply" -> reply_as_requester_message(t, c)
            [] op.name = "agent_reply" -> reply_as_agent_message(t, c)
            [] op.name = "internal_note" -> internal_note_message(t, c)
            [] op.name = "csat" -> submit_csat(t, c)
            [] op.name = "update" -> t
            [] op.name = "status" -> change_status(t, op, c))

-----------------------------------------------------------------------------
(* The store's two writes; both compare the revision the call loaded.      *)

Fresh(expected) == ticket # Gone /\ ticket.revision = expected

(* Mutant: resolved_at is not among the columns.                           *)
AppendForgetsResolved(t, c) ==
    [ticket EXCEPT !.messages = @ \cup {c}, !.status = t.status, !.first = t.first,
                   !.waiting = t.waiting, !.revision = t.revision, !.aged = FALSE]

(* append_ticket_message: the columns it lists and the one message.        *)
AppendResult(t, c) ==
    [ticket EXCEPT !.messages = @ \cup {c}, !.status = t.status, !.first = t.first,
                   !.waiting = t.waiting, !.resolved = t.resolved,
                   !.revision = t.revision, !.aged = FALSE]

-----------------------------------------------------------------------------
(* A call loads the ticket. SQLite reads the row, then the child rows,     *)
(* outside a transaction; the memory store clones the aggregate.           *)
Load(c, op) ==
    /\ call[c] = Unmade
    /\ IF ticket = Gone
       THEN call' = [call EXCEPT ![c] = Refused]
       ELSE call' = [call EXCEPT ![c] =
               [op |-> op, pc |-> IF sqlite THEN "row" ELSE "loaded", copy |-> ticket]]
    /\ UNCHANGED <<ticket, doomed, sqlite>>

(* Mutant: the child rows are read before the row.                         *)
MessagesFirst(c) ==
    /\ call[c].pc = "row" /\ ticket # Gone
    /\ call' = [call EXCEPT ![c] =
          [@ EXCEPT !.pc = "loaded",
                    !.copy = [ticket EXCEPT !.messages = call[c].copy.messages]]]
    /\ UNCHANGED <<ticket, doomed, sqlite>>

LoadMessages(c) ==
    /\ call[c].pc = "row"
    /\ call' = [call EXCEPT ![c] =
          [@ EXCEPT !.pc = "loaded",
                    !.copy.messages = IF ticket = Gone THEN {} ELSE ticket.messages]]
    /\ UNCHANGED <<ticket, doomed, sqlite>>

(* require_revision fails, or the domain operation is refused.             *)
Refuse(c) ==
    /\ call[c].pc = "loaded"
    /\ \/ ~Allowed(call[c].copy, call[c].op)
       \/ call[c].op.name # "csat"
    /\ call' = [call EXCEPT ![c] = Refused]
    /\ UNCHANGED <<ticket, doomed, sqlite>>

(* save or append_ticket_message with the revision of the copy.            *)
Commit(c) ==
    LET t == Apply(call[c].copy, call[c].op, c)
        written == IF Appends(call[c].op) THEN AppendResult(t, c) ELSE t
    IN
    /\ call[c].pc = "loaded" /\ Allowed(call[c].copy, call[c].op)
    /\ IF Fresh(call[c].copy.revision)
       THEN ticket' = written /\ call' = [call EXCEPT ![c] = Answered(@.op)]
       ELSE UNCHANGED ticket /\ call' = [call EXCEPT ![c] = Refused]
    /\ UNCHANGED <<doomed, sqlite>>

(* assign_ticket_atomically: load, cursor or workload and write in one     *)
(* transaction.                                                            *)
AssignFromPool(c) ==
    /\ call[c] = Unmade /\ ticket # Gone
    /\ ticket' = Apply(ticket, [name |-> "update"], c)
    /\ call' = [call EXCEPT ![c] = Answered([name |-> "update"])]
    /\ UNCHANGED <<doomed, sqlite>>

(* The last update falls behind the retention cutoff.                      *)
Age ==
    /\ ticket # Gone /\ ~ticket.aged
    /\ ticket' = [ticket EXCEPT !.aged = TRUE]
    /\ UNCHANGED <<call, doomed, sqlite>>

-----------------------------------------------------------------------------
Erasable == ticket # Gone /\ ticket.status \in Stopped /\ ticket.aged

(* erase_tickets_resolved_before: SQLite selects the identifiers and then  *)
(* deletes each row by its identifier; the memory store holds its lock.    *)
EraseSelect ==
    /\ Erasable /\ ~doomed
    /\ IF sqlite THEN doomed' = TRUE /\ UNCHANGED ticket
                   ELSE ticket' = Gone /\ UNCHANGED doomed
    /\ UNCHANGED <<call, sqlite>>

EraseDelete ==
    /\ doomed /\ ticket # Gone
    /\ ticket' = Gone
    /\ doomed' = FALSE
    /\ UNCHANGED <<call, sqlite>>

AggregateNext ==
    \/ \E c \in Caller : \/ \E op \in Ops : Load(c, op)
                         \/ LoadMessages(c) \/ Refuse(c) \/ Commit(c) \/ AssignFromPool(c)
    \/ Age \/ EraseSelect \/ EraseDelete

AggregateSpec == AggregateInit /\ [][AggregateNext]_aggregateVars

-----------------------------------------------------------------------------
(* Type invariant: every value stored by an operation is one the ticket    *)
(* can hold.                                                               *)
AggregateTypeOK ==
    /\ ticket \in Tickets \cup {Gone}

Succeeded(c) == call[c].pc = "ok"

(* A message whose call was answered with success stays in the             *)
(* conversation, whatever the concurrent calls that rewrite all of it      *)
(* (replace_children) do.                                                  *)
NoReplyLost ==
    ticket # Gone =>
        \A c \in Caller :
           Succeeded(c) /\ (call[c].op.name = "status" \/ Appends(call[c].op)) => c \in ticket.messages

(* The stamps a service-level clock is computed from agree with the status *)
(* after any mix of whole saves and column appends: waiting_since while    *)
(* the requester is waited for, resolved_at while stopped, and a stopped   *)
(* ticket has its resolution.                                              *)
StampsAgree ==
    ticket # Gone =>
        /\ ticket.waiting <=> ticket.status \in Waiting
        /\ ticket.resolved <=> ticket.status \in Stopped
        /\ ticket.status \in Stopped => ticket.resolution
        /\ ticket.status = "closed" => ticket.closed /\ ticket.reason

(* "The requester's one-shot CSAT": one rating call at most succeeds, and  *)
(* the ticket keeps it through every later change.                         *)
CsatOnce ==
    \A c \in Caller :
        Succeeded(c) /\ call[c].op.name = "csat" =>
            /\ \A d \in Caller : Succeeded(d) /\ call[d].op.name = "csat" => d = c
            /\ ticket # Gone => ticket.csat = c

(* The ticket as a whole: no acknowledged message is lost, stamps follow   *)
(* the status, and the one rating stays.                                   *)
AggregateSound == NoReplyLost /\ StampsAgree /\ CsatOnce
=============================================================================
