------------------------------ MODULE MailWake ------------------------------
(***************************************************************************)
(* How inbound mail gets to submit_inbound_email: the notifications of new *)
(* objects wait in a queue, an invocation of the SQS worker takes a batch  *)
(* of them, TicketingMailWakeHandler takes the mails of each in order, and *)
(* the response names the messages the queue has to deliver again.  Jobs   *)
(* run, and tickets are erased, meanwhile.                                 *)
(***************************************************************************)
EXTENDS MailIntake, Integers, Sequences

CONSTANTS
    Message,        \* the notifications in the queue, numbered as sent
    Mails(_),       \* the mails a notification names
    Group(_),       \* MessageGroupId, on a FIFO queue
    Invocation,
    BatchSize,      \* of the event source mapping (max_batch_size)
    MaxConcurrency,
    MaxReceives,    \* WAKE_MAX_RECEIVE_COUNT
    MaxIncidents    \* bound: lost invocations, unreadable objects

ASSUME WakeAssumption ==
    /\ Message \subseteq Nat /\ IsFiniteSet(Message)
    /\ \A n \in Message : Mails(n) \in Seq(Mail) /\ Mails(n) # <<>>
    /\ BatchSize \in Nat \ {0} /\ MaxConcurrency \in 1..BatchSize
    /\ MaxReceives \in Nat \ {0} /\ MaxIncidents \in Nat

VARIABLES
    fifo,           \* the kind of queue
    queue,          \* where each message is, and how often it was received
    batch,          \* the messages an invocation has, each with its progress
    incidents

workerVars == <<fifo, queue, batch, incidents>>
wakeVars == <<intakeVars, workerVars>>

(* Progress of a message: not begun, the mail to take next, or how handle  *)
(* ended.                                                                  *)
Todo == 0
Rejected == -1
Handled(n) == Len(Mails(n)) + 1
Running(i, n) == batch[i][n] \in 1..Len(Mails(n))

WakeInit ==
    /\ IntakeInit
    /\ fifo \in BOOLEAN
    /\ queue = [n \in Message |-> [place |-> "waiting", receives |-> 0]]
    /\ batch = [i \in Invocation |-> <<>>]
    /\ incidents = 0

Messages(i) == DOMAIN batch[i]

Earlier(n) == {k \in Message : k < n /\ Group(k) = Group(n)}

-----------------------------------------------------------------------------
(* The queue hands out waiting messages; a FIFO queue those of a group in  *)
(* order, and none while others of the group are with an invocation.       *)
Receive(i, taken) ==
    /\ Messages(i) = {}
    /\ taken # {} /\ Cardinality(taken) <= BatchSize
    /\ \A n \in taken : queue[n].place = "waiting"
    /\ fifo => \A n \in taken : \A k \in Earlier(n) \ taken :
                  queue[k].place \in {"deleted", "dead"}
    /\ batch' = [batch EXCEPT ![i] = [n \in taken |-> Todo]]
    /\ queue' = [n \in Message |->
          IF n \in taken THEN [place |-> "held", receives |-> queue[n].receives + 1]
          ELSE queue[n]]
    /\ UNCHANGED <<intakeVars, fifo, incidents>>

(* What an invocation does not answer for goes back, or to the dead        *)
(* letters once it has been received often enough.                         *)
Return(returned, deleted) ==
    queue' = [n \in Message |->
       IF n \in deleted THEN [queue[n] EXCEPT !.place = "deleted"]
       ELSE IF n \notin returned THEN queue[n]
       ELSE [queue[n] EXCEPT !.place =
               IF queue[n].receives < MaxReceives THEN "waiting" ELSE "dead"]]

-----------------------------------------------------------------------------
(* process_fifo stops at the first failure; process_standard starts a      *)
(* message while fewer than max_concurrency run.                           *)
Halted(i) == \E n \in Messages(i) : batch[i][n] = Rejected

MayStart(i, n) ==
    LET before == {k \in Messages(i) : k < n} IN
    IF fifo THEN \A k \in before : batch[i][k] = Handled(k)
    ELSE /\ \A k \in before : batch[i][k] # Todo
         /\ Cardinality({k \in Messages(i) : Running(i, k)}) < MaxConcurrency

Start(i, n) ==
    /\ n \in Messages(i) /\ batch[i][n] = Todo /\ MayStart(i, n)
    /\ batch' = [batch EXCEPT ![i][n] = 1]
    /\ UNCHANGED <<intakeVars, fifo, queue, incidents>>

(* A mail is done with, after the last one the message is; an error ends   *)
(* the message where it is.                                                *)
Advance(i, n) == batch' = [batch EXCEPT ![i][n] = @ + 1]
HandleFails(i, n) == batch' = [batch EXCEPT ![i][n] = Rejected]

(* wake_inbound_email: a job is queued ...                                 *)
WakeQueues(i, n, d) ==
    /\ Running(i, n)
    /\ Submit(Mails(n)[batch[i][n]], d)
    /\ Advance(i, n)
    /\ UNCHANGED <<fifo, queue, incidents>>

(* ... or there is one with the dedupe key: a duplicate if the content is  *)
(* the same and the thread resolves as it did, for the ticket is part of   *)
(* the payload and so of the fingerprint; else a conflict.  Unthreaded     *)
(* mail is refused unless it may open a ticket.                            *)
Threadless(m) == find_ticket(m) = NoMail /\ ~FirstContact

WakeAgain(i, n, d) ==
    LET m == Mails(n)[batch[i][n]] IN
    /\ Running(i, n)
    /\ Threadless(m) \/ job[m] # NoJob
    /\ IF ~Threadless(m) /\ job[m].digest = d /\ job[m].target = find_ticket(m)
       THEN Advance(i, n) ELSE HandleFails(i, n)
    /\ UNCHANGED <<intakeVars, fifo, queue, incidents>>

(* The object cannot be read or the job not be stored.                     *)
WakeFails(i, n) ==
    /\ Running(i, n) /\ incidents < MaxIncidents
    /\ HandleFails(i, n)
    /\ incidents' = incidents + 1
    /\ UNCHANGED <<intakeVars, fifo, queue>>

-----------------------------------------------------------------------------
(* Mutant: the messages a FIFO batch did not get to are not named.         *)
FailuresOnly(i) == {n \in Messages(i) : batch[i][n] = Rejected}

(* process_sqs_event answers with the messages that failed and, on a FIFO  *)
(* queue, those behind the first of them; the queue deletes the others.    *)
Failures(i) == {n \in Messages(i) : batch[i][n] # Handled(n)}

Respond(i) ==
    /\ Messages(i) # {}
    /\ \A n \in Messages(i) : batch[i][n] \in {Handled(n), Rejected} \/ (fifo /\ Halted(i))
    /\ Return(Failures(i), Messages(i) \ Failures(i))
    /\ batch' = [batch EXCEPT ![i] = <<>>]
    /\ UNCHANGED <<intakeVars, fifo, incidents>>

(* The invocation fails as a whole or is lost: nothing is deleted.         *)
InvocationLost(i) ==
    /\ Messages(i) # {} /\ incidents < MaxIncidents
    /\ Return(Messages(i), {})
    /\ batch' = [batch EXCEPT ![i] = <<>>]
    /\ incidents' = incidents + 1
    /\ UNCHANGED <<intakeVars, fifo>>

(* A standard queue delivers a deleted message again.                      *)
DeliveredAgain(n) ==
    /\ ~fifo /\ queue[n].place = "deleted" /\ queue[n].receives < MaxReceives
    /\ queue' = [queue EXCEPT ![n].place = "waiting"]
    /\ UNCHANGED <<intakeVars, fifo, batch, incidents>>

WorkerNext ==
    \/ \E i \in Invocation :
          \/ \E taken \in SUBSET Message : Receive(i, taken)
          \/ \E n \in Messages(i) :
                \/ Start(i, n) \/ WakeFails(i, n)
                \/ \E d \in Digest : WakeQueues(i, n, d) \/ WakeAgain(i, n, d)
          \/ Respond(i) \/ InvocationLost(i)
    \/ \E n \in Message : DeliveredAgain(n)

(* Jobs and retention beside the worker.                                   *)
JobsNext ==
    \/ \E m \in Mail : Process(m) \/ Finish(m) \/ Lose(m)
    \/ \E t \in Mail : Erase(t)

WakeNext == WorkerNext \/ (JobsNext /\ UNCHANGED workerVars)

WakeSpec == WakeInit /\ [][WakeNext]_wakeVars
-----------------------------------------------------------------------------
(* Messages are where an invocation, or none, has them.                    *)
WakeTypeOK ==
    /\ queue \in [Message -> [place : {"waiting", "held", "deleted", "dead"},
                              receives : 0..MaxReceives]]
    /\ \A i \in Invocation : \A n \in Messages(i) :
          batch[i][n] \in Rejected..Handled(n)
    /\ \A n \in Message : queue[n].place = "held" <=> \E i \in Invocation : n \in Messages(i)

(* "Every bounded notification record becomes exactly one                  *)
(* wake_inbound_email call": the queue forgets a notification only when    *)
(* each of its mails has a job, whatever failed in its batch before.       *)
DeletedIsQueued ==
    \A n \in Message : queue[n].place = "deleted" =>
        \A k \in 1..Len(Mails(n)) : job[Mails(n)[k]] # NoJob

(* A FIFO queue's messages of a group are handled in order: none is over   *)
(* before the ones sent earlier are, or have been given up.                *)
GroupsInOrder ==
    fifo => \A i \in Invocation : \A n \in Messages(i) : batch[i][n] = Handled(n) =>
        \A k \in Earlier(n) : \/ queue[k].place \in {"deleted", "dead"}
                              \/ k \in Messages(i) /\ batch[i][k] = Handled(k)

WakeSound == DeletedIsQueued /\ GroupsInOrder
=============================================================================
