----------------------------- MODULE MailIntake -----------------------------
(***************************************************************************)
(* Inbound mail becomes conversation: submit_inbound_email resolves the    *)
(* thread and queues one job per external identity, process_inbound_email  *)
(* checks the sender and commits the message and its identity in one       *)
(* transaction. Notifications of a mail repeat and come in any order, jobs *)
(* are lost and retried, tickets are erased. A ticket is named by the mail *)
(* that opened it; the job store is that of JobStore, seen from outside.   *)
(***************************************************************************)
EXTENDS Naturals, FiniteSets

CONSTANTS
    Mail, NoMail,
    Digest,         \* the contents a notification can name for a mail
    Sender(_),      \* the verified From address
    InReplyTo(_),   \* the mail a mail answers, or NoMail
    FirstContact,   \* inbound_email_first_contact
    SqlStore,       \* TRUE: SqliteTicketingStore; FALSE: MemoryTicketingStore
    MaxTries,       \* attempts of a job (RetryPolicy)
    MaxLosses       \* bound: transient store failures and lost executions

ASSUME IntakeAssumption ==
    /\ NoMail \notin Mail
    /\ \A t \in Mail : \A d \in Digest : [ticket |-> t, digest |-> d] # NoMail
    /\ FirstContact \in BOOLEAN /\ SqlStore \in BOOLEAN
    /\ MaxTries \in Nat \ {0} /\ MaxLosses \in Nat
    /\ \A m \in Mail : InReplyTo(m) \in (Mail \cup {NoMail}) \ {m}

VARIABLES
    external,   \* external_messages: the ticket and content of a mail
    tickets,    \* the mails in each ticket's conversation, with repetitions
    job,        \* the job of a mail
    failures

intakeVars == <<external, tickets, job, failures>>

NoTicket == [status |-> "none"]
Erased == [status |-> "erased"]
Open(t) == tickets[t].status = "open"

NoJob == [status |-> "none"]
Active(m) == job[m].status \in {"queued", "committed"}

IntakeInit ==
    /\ external = [m \in Mail |-> NoMail]
    /\ tickets = [t \in Mail |-> NoTicket]
    /\ job = [m \in Mail |-> NoJob]
    /\ failures = 0

-----------------------------------------------------------------------------
(* find_ticket_by_message_identity joins the identity with its ticket.     *)
find_ticket(m) ==
    IF InReplyTo(m) # NoMail /\ external[InReplyTo(m)] # NoMail
       /\ Open(external[InReplyTo(m)].ticket)
    THEN external[InReplyTo(m)].ticket ELSE NoMail

(* A notification: the thread is resolved and one job queued; the dedupe   *)
(* key of the identity makes every later notification a duplicate.         *)
Submit(m, d) ==
    /\ find_ticket(m) # NoMail \/ FirstContact
    /\ job[m] = NoJob
    /\ job' = [job EXCEPT ![m] =
          [status |-> "queued", target |-> find_ticket(m), digest |-> d, tries |-> 1]]
    /\ UNCHANGED <<external, tickets, failures>>

-----------------------------------------------------------------------------
(* One execution of the job.                                               *)

Settle(m, status) == job' = [job EXCEPT ![m] = [@ EXCEPT !.status = status]]

(* A retryable failure spends an attempt.                                  *)
Retry(m) ==
    job' = [job EXCEPT ![m] = IF @.tries < MaxTries
                              THEN [@ EXCEPT !.status = "queued", !.tries = job[m].tries + 1]
                              ELSE [@ EXCEPT !.status = "exhausted"]]

(* A mail appended to a conversation.                                      *)
Count(t, m) == IF m \in DOMAIN tickets[t].mails THEN tickets[t].mails[m] ELSE 0
With(t, m) ==
    [tickets EXCEPT ![t].mails =
        [n \in DOMAIN @ \cup {m} |-> IF n = m THEN Count(t, m) + 1 ELSE @[n]]]

(* Mutant: a known identity does not stop an execution.                    *)
RepeatUnnoticed(m) ==
    /\ external[m] # NoMail
    /\ IF Open(external[m].ticket)
       THEN tickets' = With(external[m].ticket, m) /\ Settle(m, "committed")
       ELSE Retry(m) /\ UNCHANGED tickets
    /\ UNCHANGED <<external, failures>>

(* The identity is known: the same content is a repeat, another a conflict.*)
Repeat(m) ==
    /\ external[m] # NoMail
    /\ IF external[m].digest # job[m].digest THEN Settle(m, "failed")
       ELSE IF Open(external[m].ticket) THEN Settle(m, "committed") ELSE Retry(m)
    /\ UNCHANGED <<external, tickets, failures>>

Register(m, t) ==
    external' = [external EXCEPT ![m] = [ticket |-> t, digest |-> job[m].digest]]

(* create_ticket_from_external. SQLite inserts the identity before the     *)
(* ticket it references, and its foreign key is checked at once.           *)
OpenTicket(m) ==
    /\ external[m] = NoMail
    /\ IF SqlStore
       THEN Retry(m) /\ UNCHANGED <<external, tickets>>
       ELSE /\ Register(m, m)
            /\ tickets' = [tickets EXCEPT ![m] =
                  [status |-> "open", requester |-> Sender(m), mails |-> [n \in {m} |-> 1]]]
            /\ Settle(m, "committed")
    /\ UNCHANGED failures

SenderAllowed(m) == tickets[job[m].target].requester = Sender(m)

(* ingest_external_message: the message and its identity.                  *)
Ingest(m) ==
    /\ external[m] = NoMail
    /\ Register(m, job[m].target)
    /\ tickets' = With(job[m].target, m)
    /\ Settle(m, "committed")
    /\ UNCHANGED failures

(* process_inbound_email: a stranger's reply is refused, a mail whose      *)
(* ticket is gone is retried.                                              *)
Process(m) ==
    /\ job[m].status = "queued"
    /\ IF job[m].target = NoMail THEN Repeat(m) \/ OpenTicket(m)
       ELSE IF ~Open(job[m].target)
            THEN Retry(m) /\ UNCHANGED <<external, tickets, failures>>
       ELSE IF ~SenderAllowed(m)
            THEN Settle(m, "failed") /\ UNCHANGED <<external, tickets, failures>>
       ELSE Repeat(m) \/ Ingest(m)

(* POST /ingress/messages: a connector that has checked the sender commits *)
(* a message itself; a repeat and a conflict change nothing.               *)
Post(m, d, t) ==
    /\ Open(t) /\ Sender(m) = tickets[t].requester
    /\ external[m] = NoMail
    /\ external' = [external EXCEPT ![m] = [ticket |-> t, digest |-> d]]
    /\ tickets' = With(t, m)
    /\ UNCHANGED <<job, failures>>

(* The execution is recorded as succeeded, or lost after its commit.       *)
Finish(m) ==
    /\ job[m].status = "committed"
    /\ Settle(m, "done")
    /\ UNCHANGED <<external, tickets, failures>>

Lose(m) ==
    /\ Active(m) /\ failures < MaxLosses
    /\ failures' = failures + 1
    /\ Retry(m)
    /\ UNCHANGED <<external, tickets>>

(* Retention: the identities of the ticket's mails go with it in SQLite.   *)
Erase(t) ==
    /\ Open(t)
    /\ tickets' = [tickets EXCEPT ![t] = Erased]
    /\ external' = IF SqlStore
                   THEN [m \in Mail |-> IF external[m] # NoMail /\ external[m].ticket = t
                                        THEN NoMail ELSE external[m]]
                   ELSE external
    /\ UNCHANGED <<job, failures>>

IntakeNext ==
    \/ \E m \in Mail : (\E d \in Digest : Submit(m, d)) \/ Process(m) \/ Finish(m) \/ Lose(m)
    \/ \E m, t \in Mail, d \in Digest : Post(m, d, t)
    \/ \E t \in Mail : Erase(t)

IntakeSpec == IntakeInit /\ [][IntakeNext]_intakeVars
-----------------------------------------------------------------------------
(* Type invariant: every conversation is a bag of mails, every identity    *)
(* names a ticket and a content, attempts stay within the policy.          *)
IntakeTypeOK ==
    /\ \A m \in Mail :
          /\ external[m] \in [ticket : Mail, digest : Digest] \cup {NoMail}
          /\ job[m] # NoJob => job[m].tries \in 1..MaxTries
    /\ \A t \in Mail : Open(t) => DOMAIN tickets[t].mails \subseteq Mail

In(m, t) == Open(t) /\ m \in DOMAIN tickets[t].mails

(* However often a mail is notified, its job retried or lost after its     *)
(* commit, it is one message of one ticket.                                *)
OneMessagePerMail ==
    \A m, t \in Mail : In(m, t) =>
        Count(t, m) = 1 /\ \A u \in Mail : In(m, u) => u = t

(* A job that succeeded left its mail in a conversation that only          *)
(* retention takes away.                                                   *)
DoneIsKept ==
    \A m \in Mail : job[m].status = "done" =>
        \E t \in Mail : In(m, t) \/ tickets[t] = Erased

(* "a stranger who learned the thread identity is quarantined, never       *)
(* appended": a conversation holds mail of its requester alone.            *)
OnlyRequesterWrites ==
    \A m, t \in Mail : In(m, t) => Sender(m) = tickets[t].requester

(* Verified mail is not given up while the store answers: attempts run out *)
(* only after a failure or when the ticket of the mail has been erased.    *)
ExhaustedByFailure ==
    \A m \in Mail : job[m].status = "exhausted" =>
        failures > 0 \/ \E t \in Mail : tickets[t] = Erased

(* Inbound mail as a whole: each mail is one message, of its requester's   *)
(* ticket, and is neither dropped after success nor given up without a     *)
(* failure.                                                                *)
IntakeSound ==
    OneMessagePerMail /\ DoneIsKept /\ OnlyRequesterWrites /\ ExhaustedByFailure
=============================================================================
