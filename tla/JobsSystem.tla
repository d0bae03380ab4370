----------------------------- MODULE JobsSystem -----------------------------
(***************************************************************************)
(* The durable job system: the workers of JobExecutor inside               *)
(* JobMessageHandler::handle, a publisher that runs dispatch_due_once, the *)
(* queue between them and the scheduler that sends triggers to it.         *)
(***************************************************************************)
EXTENDS JobExecutor

CONSTANTS
    Scheduled,              \* jobs a worker may mint for a scheduler trigger
    Triggers,               \* dedupe keys (schedule_id:scheduled_time) that fire
    PublicationLease,       \* lease of dispatch_due_once
    PublicationRetryDelay,  \* PUBLICATION_RETRY_DELAY
    MaxSendFailures,        \* bound: passes lost and sends that fail
    Scenarios               \* bound: the sets of events a behaviour may have

ASSUME SystemAssumption ==
    /\ Scheduled \subseteq Job
    /\ Triggers \subseteq DedupeKey
    /\ PublicationLease \in Nat \ {0} /\ PublicationRetryDelay \in Nat
    /\ MaxSendFailures \in Nat
    /\ Scenarios \subseteq
          SUBSET {"submissions", "triggers", "operators", "crashes", "failures"}
    /\ \A t \in 0..Horizon :
          {t + PublicationLease, t + PublicationRetryDelay} \subseteq Instant

VARIABLES
    queue,      \* messages on the transport, received or not
    inflight,   \* the message each invocation is handling
    fired,      \* triggers the scheduler has sent
    publisher,  \* the dispatch_due_once pass
    sendFailures,
    scenario    \* the events of this behaviour

vars == <<execVars, queue, inflight, fired, publisher, sendFailures, scenario>>

-----------------------------------------------------------------------------
(* Messages: a job envelope sent for one generation, or a trigger.         *)

Delivery(j, g, attempt) ==
    [job |-> j, generation |-> g, attempt |-> attempt, key |-> NoKey]

Trigger(k) == [job |-> NoJob, generation |-> 0, attempt |-> 1, key |-> k]

NoMessage == Trigger(NoKey)

IsTrigger(m) == m.key # NoKey

(* decode_transport_body: JobEnvelope::validate refuses an envelope whose  *)
(* attempt is outside 1..maximum_attempts, on every receive: whether it is *)
(* still on the queue or with the dead letters makes no difference.        *)
Decodable(m) ==
    ~IsTrigger(m) =>
        m.attempt \in 1..MaximumAttempts[jobs[m.job].fingerprint]

(* The stored job a message leads to: the one it names, or the one minted  *)
(* for its occurrence.                                                     *)
JobOf(m) == IF IsTrigger(m) THEN fingerprints[m.key] ELSE m.job

-----------------------------------------------------------------------------
(* JobMessageHandler::handle.                                              *)

KeepTransport == UNCHANGED <<queue, fired, publisher, sendFailures, scenario>>

(* SQS delivers at least once: a message stays receivable until the        *)
(* deletion that acknowledges it takes effect.                             *)
Receive(w) ==
    \E m \in queue :
        /\ Is(w, "idle") /\ inflight[w] = NoMessage
        /\ Decodable(m)
        /\ inflight' = [inflight EXCEPT ![w] = m]
        /\ UNCHANGED execVars /\ KeepTransport

(* A trigger whose occurrence is not in the store yet is ingested as a new *)
(* durable job that is already delivered.                                  *)
Ingest(w) ==
    /\ Is(w, "idle") /\ IsTrigger(inflight[w])
    /\ \E j \in Scheduled :
          /\ KeyOf[j] = inflight[w].key
          /\ ingest_existing_delivery(j, KeyOf[j], FingerprintOf[j], clock)
    /\ UNCHANGED <<clock, worker, crashes, inflight>> /\ KeepTransport

(* The executor runs the stored job, which the trigger may have found.     *)
Execute(w) ==
    /\ inflight[w] # NoMessage /\ JobOf(inflight[w]) # NoJob
    /\ Begin(w, JobOf(inflight[w]))
    /\ UNCHANGED inflight /\ KeepTransport

(* A step of run.  One that ends the invocation with an error leaves the   *)
(* message on the queue.                                                   *)
RunStep(w) ==
    /\ Run(w)
    /\ inflight' = IF worker'[w].pc = "idle"
                   THEN [inflight EXCEPT ![w] = NoMessage] ELSE inflight
    /\ KeepTransport

(* The deletion may be lost: the message then comes back as a duplicate.   *)
Acknowledge(w) ==
    /\ Ack(w)
    /\ queue' \in {queue, queue \ {inflight[w]}}
    /\ inflight' = [inflight EXCEPT ![w] = NoMessage]
    /\ UNCHANGED <<fired, publisher, sendFailures, scenario>>

(* The invocation is lost, while run executes or before it is called.      *)
WorkerCrash(w) ==
    /\ "crashes" \in scenario
    /\ \/ Crash(w)
       \/ /\ Is(w, "idle") /\ inflight[w] # NoMessage
          /\ crashes < MaxCrashes
          /\ crashes' = crashes + 1
          /\ UNCHANGED <<storeVars, clock, worker>>
    /\ inflight' = [inflight EXCEPT ![w] = NoMessage]
    /\ KeepTransport

(* EventBridge Scheduler sends the trigger of an occurrence to the queue.  *)
Fire(k) ==
    /\ "triggers" \in scenario
    /\ k \in Triggers \ fired
    /\ fired' = fired \cup {k}
    /\ queue' = queue \cup {Trigger(k)}
    /\ UNCHANGED <<execVars, inflight, publisher, sendFailures, scenario>>

-----------------------------------------------------------------------------
(* The publisher: one dispatch_due_once pass after another.                *)

IdlePublisher == [pc |-> "idle", now |-> 0, lease |-> NoLease, batch |-> {},
                  id |-> <<NoJob, 0>>, attempt |-> 0]

KeepWorkers == UNCHANGED <<clock, worker, crashes, inflight, fired, scenario>>

(* The pass reads the clock and recovers expired claims.                   *)
PassStart ==
    /\ publisher.pc = "idle"
    /\ \/ recover_expired_claims(clock)
       \/ /\ \A id \in PublicationId : ~ClaimExpired(Publication(id), clock)
          /\ UNCHANGED storeVars
    /\ publisher' = [publisher EXCEPT !.pc = "claim", !.now = clock]
    /\ UNCHANGED <<queue, sendFailures>> /\ KeepWorkers

PassClaim ==
    /\ publisher.pc = "claim"
    /\ \/ \E batch \in SUBSET PublicationId :
             /\ claim_due(batch, DispatchLimit,
                          publisher.now + PublicationLease, publisher.now)
             /\ publisher' = [publisher EXCEPT !.pc = "next", !.batch = batch,
                                               !.lease = FreshLease]
       \/ /\ \A id \in PublicationId : ~Due(Publication(id), publisher.now)
          /\ publisher' = IdlePublisher
          /\ UNCHANGED storeVars
    /\ UNCHANGED <<queue, sendFailures>> /\ KeepWorkers

(* Mutant: attempts are counted from zero.                                 *)
MutantReadAttemptFromZero ==
    /\ publisher.pc = "next"
    /\ \E id \in publisher.batch :
          LET r == jobs[id[1]]
          IN  publisher' = [publisher EXCEPT
                 !.id = id, !.batch = @ \ {id},
                 !.pc = IF r.status \in TerminalStatus THEN "mark" ELSE "send",
                 !.attempt = r.attempt_count - 1]
    /\ UNCHANGED <<storeVars, queue, sendFailures>> /\ KeepWorkers

(* get: a terminal job needs no delivery; otherwise the envelope carries   *)
(* the attempt count read here.                                            *)
PassRead ==
    /\ publisher.pc = "next"
    /\ \E id \in publisher.batch :
          LET r == jobs[id[1]]
          IN  publisher' = [publisher EXCEPT
                 !.id = id, !.batch = @ \ {id},
                 !.pc = IF r.status \in TerminalStatus THEN "mark" ELSE "send",
                 !.attempt = IF r.attempt_count = 0 THEN 1 ELSE r.attempt_count]
    /\ UNCHANGED <<storeVars, queue, sendFailures>> /\ KeepWorkers

(* dispatch succeeds, or fails although the message may have been sent.    *)
PassSend ==
    LET m == Delivery(publisher.id[1], publisher.id[2], publisher.attempt)
    IN  /\ publisher.pc = "send"
        /\ \/ /\ queue' = queue \cup {m}
              /\ publisher' = [publisher EXCEPT !.pc = "mark"]
              /\ UNCHANGED sendFailures
           \/ /\ "failures" \in scenario
              /\ sendFailures < MaxSendFailures
              /\ sendFailures' = sendFailures + 1
              /\ queue' \in {queue, queue \cup {m}}
              /\ publisher' = [publisher EXCEPT !.pc = "fail"]
        /\ UNCHANGED storeVars /\ KeepWorkers

(* The generation in hand is marked.  A mark that is fenced out ends the   *)
(* pass with an error and leaves the rest of the batch claimed.            *)
PassMark ==
    LET id == publisher.id
        held == Publication(id).lease_id = publisher.lease
        rest == IF publisher.batch = {} THEN IdlePublisher
                ELSE [publisher EXCEPT !.pc = "next"]
    IN  /\ \/ /\ publisher.pc = "mark"
              /\ mark_published(id[1], id[2], publisher.lease)
              /\ publisher' = rest
           \/ /\ publisher.pc = "fail"
              /\ mark_failed(id[1], id[2], publisher.lease,
                             publisher.now + PublicationRetryDelay)
              /\ publisher' = rest
           \/ /\ publisher.pc \in {"mark", "fail"} /\ ~held
              /\ publisher' = IdlePublisher
              /\ UNCHANGED storeVars
        /\ UNCHANGED <<queue, sendFailures>> /\ KeepWorkers

(* The pass is lost between two of its steps.                              *)
PassCrash ==
    /\ publisher.pc # "idle"
    /\ "failures" \in scenario
    /\ sendFailures < MaxSendFailures
    /\ sendFailures' = sendFailures + 1
    /\ publisher' = IdlePublisher
    /\ UNCHANGED <<storeVars, queue>> /\ KeepWorkers

-----------------------------------------------------------------------------
(* The whole.                                                              *)

KeepSystem ==
    UNCHANGED <<queue, inflight, fired, publisher, sendFailures, scenario>>

Init ==
    /\ ExecInit
    /\ queue = {}
    /\ inflight = [w \in Worker |-> NoMessage]
    /\ fired = {}
    /\ publisher = IdlePublisher
    /\ sendFailures = 0
    /\ scenario \in Scenarios

Next ==
    \/ \E w \in Worker :
          \/ Receive(w) \/ Ingest(w) \/ Execute(w) \/ RunStep(w)
          \/ Acknowledge(w) \/ WorkerCrash(w)
    \/ PassStart \/ PassClaim \/ PassRead \/ PassSend \/ PassMark \/ PassCrash
    \/ \E k \in DedupeKey : Fire(k)
    \/ "submissions" \in scenario /\ \E j \in Job : Submit(j) /\ KeepSystem
    \/ "operators" \in scenario /\ Operate /\ KeepSystem
    \/ Tick /\ KeepSystem

Spec == Init /\ [][Next]_vars

-----------------------------------------------------------------------------
(* Properties.                                                             *)

Message ==
    [job : Job \cup {NoJob}, generation : Nat, attempt : Nat,
     key : DedupeKey \cup {NoKey}]

(* The queue, the invocations' messages and the publisher's pass keep      *)
(* their shape, on top of the executor's and the store's.                  *)
SystemTypeOK ==
    /\ ExecTypeOK
    /\ queue \subseteq Message
    /\ inflight \in [Worker -> Message]
    /\ fired \subseteq Triggers
    /\ publisher \in
          [pc : {"idle", "claim", "next", "send", "mark", "fail"}, now : Nat,
           lease : Nat, batch : SUBSET PublicationId,
           id : (Job \cup {NoJob}) \X Nat, attempt : Nat]
    /\ sendFailures \in 0..MaxSendFailures
    /\ scenario \in Scenarios

(* Something will still bring the job to a worker: a generation that is    *)
(* not published yet, or a message that leads to it.                       *)
Undelivered(j) ==
    \E g \in 1..Len(publications[j]) : publications[j][g].status # "published"

OnTransport(j) == \E m \in queue : JobOf(m) = j /\ Decodable(m)

(* An accepted job is not lost while it waits: a pending job has a         *)
(* generation still to be published, or a message on the transport that    *)
(* will find it available.  Acknowledging a message never gives up the     *)
(* last trace of a pending job, whatever was reordered, sent twice, marked *)
(* failed, skipped as terminal or lost with a crash.                       *)
PendingHasDelivery ==
    \A j \in Job : jobs[j].status = "pending" =>
        Undelivered(j) \/ (jobs[j].available_at <= clock /\ OnTransport(j))

(* A running job is not lost either: a worker executes it under the lease  *)
(* of its record, or a delivery will come back to it when the lease is     *)
(* over ("expired claims are recovered deterministically", ADR 0048).      *)
RunningIsRecoverable ==
    \A j \in Job : jobs[j].status = "running" =>
        \/ \E w \in Worker : worker[w].job = j /\ LeaseHeld(j, worker[w].lease)
        \/ Undelivered(j)
        \/ OnTransport(j)

(* While no invocation has been lost, a running job is in hand or will be  *)
(* delivered again: stale claims, fenced-out results, busy locks and       *)
(* scheduler duplicates never strand it.                                   *)
RunningIsRecoverableUnlessLost == crashes = 0 => RunningIsRecoverable

(* The newest generation of a pending job is never due before the job is,  *)
(* not even after failed sends and recovered claims: its delivery is not   *)
(* acknowledged as NotYetAvailable.                                        *)
NewestIntentNotEarly ==
    \A j \in Job :
        jobs[j].status = "pending" =>
            publications[j][Len(publications[j])].available_at >=
                jobs[j].available_at

(* Workers, publisher, operators and crashes together change the durable   *)
(* state only as the store's operations do: every step of the system is    *)
(* one call of the store or leaves it alone, so what is proved of the      *)
(* store holds under the executor and the publisher.                       *)
ImplementsStore ==
    StoreInit /\ [][storeVars' # storeVars => StoreNext]_storeVars
=============================================================================
