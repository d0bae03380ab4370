# Minco: TLA+ models and proofs

Minco is a Rust application framework: a core, plugins with ports, and
extensions that implement the ports on SQL databases and AWS. Most of its
150 000 lines translate data - configuration, plans, templates, HTTP - inside one
process and one call. This project models the rest: the parts in which
processes race, crash, retry and read what another has changed meanwhile.

* **Durable work** (ADR 0048): typed jobs stored with their publication intent,
  published to a queue, executed under leases and overlap locks; over an
  abstract store and over the two SQL adapters, statement by statement.
* **Outboxes**: domain events, activity intents, audit records.
* **Idempotent callers**: payment actions, requester replies, session exchange.
* **The support desk**: the ticket aggregate, the decisions beside it, mail in
  and out, the mail worker, the provisioning of the workspace.
* **The development supervisor** and the local services it starts in container
  runtimes.

TLC checks every model on small instances; TLAPS proves nearly every safety
property of the runs for all values of the constants: of the job store, the
executor and the whole job path, the idempotent callers, the outboxes and the
audit ledger, the support desk, the development machine.

## 1. Inventory

| Component | State | Operations | Hard behaviour | Correct when |
|---|---|---|---|---|
| Job store (`minco-plugin-jobs`: `memory.rs`, `ports.rs`) | records, dedupe index, publication generations, overlap locks | submit, ingest, claim, complete, fail, retry, cancel, rerun, recover; claim/mark/recover publications; acquire/refresh/release/recover locks | stale clocks, late claims, old revisions | only the current lease settles a job, once; every return to pending leaves one new intent; a key names one job; a revision names one state |
| Executor (`services.rs`, `JobExecutor::run`) | claim, clock reading, overlap lock in hand | claim, preflight, lock, handler, settle, release | awaits between every two store calls, timeouts, deadlines, crashes | no two handlers of a job or of an overlap key at once |
| Publisher (`dispatch_due_once`), worker (`minco-aws-worker/src/jobs.rs`) | claimed batch; message in hand | recover, claim, read, send, mark; decode, ingest, run, acknowledge | ambiguous sends, lost passes, at-least-once delivery | an accepted job never loses its last trace |
| SQL job adapters (`minco-sqlx-postgres`, `minco-sqlx-sqlite`: `jobs.rs`) | tables, open transactions | the store's ports as SQL | READ COMMITTED, `SKIP LOCKED`, savepoints, text comparison of instants | they implement the store |
| SQS batch worker and mail wake (`minco-aws-worker`) | queue, batch in hand | standard and FIFO processing, partial batch response | a lost invocation, one failed message in a group | what failed and what is behind it comes again; nothing is queued twice |
| Events outbox (`minco-plugin-events`), activity dispatch, request-assisted publication | outbox records, intents | enqueue, claim, publish, mark, recover | claims fenced by worker name, slow passes | settled by the claimant, delivered at least once, twice only with a cause |
| Idempotency (`minco-plugin-idempotency`) and its callers (payments, reply, session exchange) | claims and answers; receipts; grants and sessions | begin, complete, abort around a side effect | takeover of a request that still runs, lost answers, partial undo | answers agree; a 200 is committed once; one bearer lives |
| Audit journal, relay and ledger (`minco-plugin-audit`) | journal entries, segments | enqueue, claim, append, mark, recover, rotate, archive | a lost ledger answer, expired claims | nothing accepted is lost; segments stay within thresholds |
| Ticketing (`minco-plugin-ticketing`) | tickets, messages, clarifications, proposals, identities, send intents, evidence | domain commands, retention, automation, inbound and outbound mail, reconciliation | load-modify-save under a revision, check-then-write without one, jobs that repeat | no reply lost, decisions hold, one message per mail, one send per reply |
| Workspace (`minco-plugin-workspace`) | binding, projects, profiles, grants | `provision` at every start | instances with different configurations at once | one workspace; a removed profile stays away |
| Development supervisor (`minco-dev`) | started services, children | start, prepare, spawn, watch, stop | every failure and interruption in between | nothing is left behind; a shutdown ends |
| Local service runtimes (`minco-cli`: `service_runtime.rs`) | receipt below `target/`, lock file; containers in two runtimes | start, stop | runtimes that go down, stall and return; killed operations; commands that act late | a service stays in one runtime; a failed start removes only its own; a stop that succeeds is true |
| Sessions, feedback, notifications, object storage, realtime | records behind single calls | issue/revoke; CRUD; send; sign | - | section 5 |
| Database lifecycle, core, HTTP, config, contract, plan, deploy, release, CLI, MCP, workbench, test kit | none that outlives a command or a request | - | sequential | section 5 |

How they interact. An application calls `submit_durable`, which writes the job
and generation 1 of its publication in one transaction. A publisher pass claims
due generations, reads the job, sends an envelope to SQS and marks the
generation. A worker receives the envelope (or a scheduler trigger, which it
ingests as a job already delivered), claims the job, takes the overlap lock, runs
the handler under a timeout and settles the claim; a retry writes a new
generation. Ticketing queues jobs for mail in both directions and for
automation; the mail worker turns notifications of new objects into such jobs.
Its mutations commit activity intents, which a pass publishes through the event
outbox, and audit records, which the relay moves to the ledger. Its HTTP
handlers, and the payment client, put an idempotency claim around what they do.
On a developer's machine `cargo minco dev` supervises the processes of a plan;
the start and stop commands of its services are `cargo minco __local-service`,
which a developer's terminals may run as well.

The hazards this code is exposed to, each at its line and with the properties
that would catch it, are in `PROJECT.json`.

## 2. Modules

| Module | Models |
|---|---|
| `JobLifecycle` | abstract specification: what a durable job promises, without clocks, expiry, revisions or publication claims |
| `JobStore` | the store under the most general client |
| `JobExecutor` | `JobExecutor::run` in several workers, over `JobStore` |
| `JobsSystem` | message handler, queue, publisher and scheduler around `JobExecutor` |
| `SqlTransactions` | transactions over the store's tables: what a connection has written and not committed |
| `PostgresJobs`, `SqliteJobs`, `SqlJobs` | the two adapters, statement by statement, and the choice between them |
| `EventOutbox`, `ActivityDispatch` | the event outbox and its passes; the ticketing activity pass on top |
| `Idempotency` | the claim store |
| `WaffoActions`, `RequesterReply`, `SessionExchange`, `IdempotentRequests` | its three callers, and the choice between them |
| `AuditLedger`, `AuditRelay` | the segmented ledger; the journal and the relay |
| `BackgroundWork` | the choice between relay and outbox, with their fairness |
| `DevSupervisor` | `Supervisor::run_until` |
| `LocalServices` | start and stop of one service in Apple Container or Docker |
| `DevelopmentMachine` | the supervisor whose service is such a local service; or two terminals that use it |
| `TicketAggregate` | calls on one ticket over both stores, with retention |
| `DeskReviews` | clarifications and automation proposals |
| `MailIntake`, `MailWake` | inbound mail as jobs; its way there through the SQS worker |
| `TicketMail` | delivery of a reply by mail, its evidence, reconciliation |
| `WorkspaceProvisioning` | `WorkspaceService::provision` in several instances |
| `SupportDesk` | the choice between the desk's six protocols |
| `JobStoreProofs`, `JobExecutorProofs`, `JobsSystemProofs` | theorems and proofs about the job store, the workers over it, the whole path |
| `SqlJobsProofs` | ... about the two adapters |
| `IdempotentRequestsProofs` | ... about the claim store and its three callers |
| `BackgroundWorkProofs` | ... about the outbox and its passes, the relay and the ledger |
| `SupportDeskProofs` | ... about the desk's six protocols |
| `DevelopmentMachineProofs` | ... about supervisor and local services |
| `MC*` | instances for TLC |

Conventions. An action is a whole handler step: what the code does between two
awaits that other processes can fall between; a port method is one action with
the method's name when it is one critical section, one transaction or one
statement. A `pc` names the await a process stands before, and what it read
before that await is kept in its record, as in the code. A refused call is a
stutter or a step of the caller alone. Crashes, lost answers, operators and
time are actions of the environment; those that could go on for ever have a
bound (`Max...`). Identifiers minted with `Uuid::now_v7` are a counter, or the
name of the caller that minted them. Payloads, texts, metadata and timestamps
that nothing reads back are left out.

Composition. `JobExecutor` EXTENDS `JobStore` and `JobsSystem` EXTENDS
`JobExecutor`: they interact through the store's variables. `IdempotentRequests`,
`SupportDesk`, `BackgroundWork` and `SqlJobs` put side by side what has no state
in common - the claim keys of the three callers differ in scope and prefix, the
desk's protocols work on records of their own - so a variable fixed in the
initial state (`client`, `protocol`, `machine`, `adapter`) says which one a
behaviour follows. `MCSupportDesk` does the same once more (`work`) with the
desk and the idempotent callers, which share a run and no state. `DevelopmentMachine` joins supervisor and operation: a spawned
command takes the lock, its result is the exit code the supervisor reads, and
the supervisor's signal kills the operation wherever it is. In `JobsSystem` the
variable `scenario` says which parts of the environment act: submissions with
operators and failed sends, or triggers with crashes; in the violation runs
`jobs_crash` and `jobs_overlap_poison` it is all of them together.

**JobStore.** `jobs`, `fingerprints`, `publications` and `locks` are the maps of
`MemoryState`; `publications[j]` is a sequence whose index is the generation
number; `minted` stands for the leases given out. The client is as general as
the ports allow: any clock reading, any lease ever minted, any revision.
Recoveries may be partial: the SQL adapters recover at most a limit.

**JobExecutor, JobsSystem.** `now` is the reading `run` keeps, `clock` the true
time. `PreflightFail` may happen to any claimed job, since the data it depends on
is left out. Any worker may be started for any stored job at any time, which
covers duplicated and reordered delivery. An envelope with an attempt outside
`1..maximum_attempts` is not decodable (`JobEnvelope::validate`) on any
receive; that the queue's redrive policy moves it away is left out. `Tick` does not let a handler outlive its timeout, nor
a worker need more than `StartDelay` from its reading to its handler; the
assumption `StartDelay + ExecutionTimeout < ExecutionLease` keeps handlers inside
their leases. With the defaults (300 s and 15 min) it holds unless a worker is
stopped for ten minutes between claim and handler; the code never refreshes a
lease, and the exclusion of handlers rests on it.

**SQL adapters.** The variables of `JobStore` are the committed rows. PostgreSQL
runs READ COMMITTED: every statement sees what is committed when it starts, waits
for a row another transaction has written and then looks at the row as committed;
a dedupe collision rolls back to a savepoint; a deadlock is a rollback. SQLite
begins IMMEDIATE, so one transaction is open at a time; instants are RFC 3339
text with `+00:00` compared as text, which `SqliteJobs` models by what the
formatting does (a fraction has as many groups of digits as it takes). A batch of
claims shares one lease where the code mints one per row. Publications are
claimed and marked one statement at a time; a transaction inserts one job.
`ImplementsPorts` says that the committed rows change only as `StoreSpec` allows.

**Outboxes.** A claim may lapse at any moment after it was made and a delay may
end at any moment, so a pass can be arbitrarily slow. Workers have names of
their own (`OwnNames`): the fences compare names, and two passes under one name
settle each other's claims.

**Idempotent callers.** `entries` and the clock `now` are the store; each caller
module adds what the handler does between `begin` and `complete`. With
`SlowRequests = FALSE` a session exchange does not outlive its claim, the
assumption behind `stale_after`.

**Support desk.** `TicketAggregate` keeps for each call its copy of the ticket;
`save` writes it whole, `append_ticket_message` a message and a few columns, both
under the revision loaded. `DeskReviews` has no revision to rely on: the code
checks a state and writes by identifier. In `MailIntake` a message of the
requester is posted only by the requester's connector. The queue of `MailWake` is
SQS with and without FIFO; the FIFO queue gives out no message of a group behind
one in flight, and the response of an invocation returns what failed. `TicketMail`
fences each send by an attempt committed before the provider is called.
`WorkspaceProvisioning` reads table by table and commits a plan of what it read.

**DevSupervisor.** A child is a process group: a leader and what it has spawned.
A leader may ignore signals (`GivenUp`); a start or lifecycle command may never
end. The whole plan is traversed with every failure: a command that cannot be
spawned, fails or is interrupted, a probe that times out, a process that exits,
a receiver of events that is gone, a process whose state cannot be read (`Watch`;
the last two pass `stop_topology` by, `Leaves`). `finish_log_tasks`
(`supervisor.rs:498`) awaits the readers of a child's output without a limit; a
descendant that has left the process group and keeps the pipe open is outside the
model.

**LocalServices, DevelopmentMachine.** `resource[r]` is the container of the
service's name in runtime `r`: the program's own (with the ownership labels) or
foreign. `power[r]` says whether the runtime is missing, up, down (its containers
have stopped; those of Apple run with `--rm` and may be gone) or stalled (its
containers run on and every command times out). Each command an operation runs
is a step that can fail before, halfway through and after it takes effect; the
probes of a selection and the inspection that follows are one step each. A
killed command may take effect later, once in a behaviour (`late`), under the
supervisor as between terminals: the runtime's command line has handed it to a
daemon by the time the process group is killed. `raised` remembers the runtimes
in which the container that now runs was brought up by such a command; it is a
history and no action reads it. `cargo clean` does not happen under an operation. The scene
of the supervisor ends when `run_until` returns. A command of the supervisor
that is told to end dies of the signal.

## 3. Runs

`CHECK_DEADLOCK FALSE` is set where a bounded system really may stop: all jobs
settled, all calls made, a bound reached. Bounds are guards of the next-state
relation, in the modules or, where only the instance needs them (`Small`,
`SmallWake`, `LongOrWide`, `OneFails`), in the MC module. Symmetry is used where jobs,
workers or callers are interchangeable, and never with liveness.

| Run | Checks | What it shows, and on what |
|---|---|---|
| `job_store` | `TypeOK`, `LeasesAreUnique`, `OneJobPerKey`, `LeasesFollowStatus`, `EachLeaseSettlesOnce`, `PublishedIsFinal`, `RevisionNamesState`, `ImplementsLifecycle` | Fencing under the most general client. One job through four leases, seven revisions and three generations with a history cap small enough to be reached, or two jobs with one key through shorter histories. |
| `job_executor` | `NoOverlappingHandlers`, `HandlerHoldsLease` | Two workers, two jobs with one overlap key, a crash, lease recovery. |
| `jobs_system` | `SystemTypeOK`, `PendingHasDelivery`, `RunningIsRecoverableUnlessLost`, `NewestIntentNotEarly`, `NoConcurrentHandlers`, `ImplementsStore` | The whole path with failed and ambiguous sends, lost passes, lost acknowledgements, operators, a trigger delivered to two workers. All of them use the store only through its operations, so what is proved of the store holds in the system; the jobs have no overlap key here, and for overlap locks that is only proved. |
| `sql_jobs` | `TransactionsAreSound`, `ImplementsPorts` | Both adapters on two connections: what transactions commit is what one operation does at once, and no caller loses what it was told. One job with a long history or two that meet; keys and locks while there is little else. |
| `background` | `BackgroundTypeOK`, `AuditSound`, `EventsSound`, `SealedIsFrozen`, `SettledByClaimant`, `BackgroundSettles` | Two relay passes over four records of which two share an ID and one is too large; two activity passes and an application that dispatches and publishes itself, over two events, an activity batch being one intent; one disruption each. Liveness of both. |
| `development` | `MachineTypeOK`, `ShutdownIsClean`, `ServicesKept`, `RunEnds` | The supervisor with two services of which one is local, one lifecycle command and two processes, while runtimes come and go, one at a time (`OneFails`), and one command of a killed operation acts late; two operations at terminals. Every failure or interrupt leads to the end of the run (liveness). |
| `desk` | `DeskTypeOK`, `AggregateSound`, `InboundSound`, `NoDuplicateSend`, `OutcomeIsTrue`, `ProvisioningSound`, `ClientsTypeOK`, `ActionAnsweredOnce`, `ReplyCommittedOnce`, `BearersAreFenced`, `NoStartAfterSuccess` | Three calls of any kind on a ticket over both stores; calls that overlap on the records beside it; three mails, two notifications of one group and two invocations; four runs of a delivery with two crashes, failures and verdicts; three instances with three configurations and two edits. Three requests of one kind under a claim that is stale after two of four instants: they race, fail, are lost and take each other's claims over. |

Why these sizes. A race needs two actors; a third shows what a late one does to
a state two others have made (a takeover of a takeover, a conflict after a
retry). Two jobs are the fewest that share a key, three mails the fewest with a
first contact, an answer and a stranger. Every disruption bound is at least one
and every mutant - a plausible bug in a mapped definition, written as an operator
before it - is found under the run's own bounds.

Properties that are conjunctions of named parts: `AggregateSound` (no reply
lost, stamps agree with the status, one rating), `InboundSound`
(`IntakeSound`: one message per mail, what is done is kept, only the requester
writes, attempts are exhausted by failures; `WakeSound`: a deleted notification
has all its mails queued or dead-lettered, in order), `BearersAreFenced` (one
bearer, the recorded one, and none after logout), `TransactionsAreSound`,
`ProvisioningSound` (one workspace, passes that succeed agree, a removed profile
stays away, what is configured is there), `AuditSound`, `EventsSound` (marks
follow delivery, a second delivery has a cause), `ShutdownIsClean` (nothing is
left behind, things stop in order, what was stopped is down) and `ServicesKept`
(a lifecycle stays in its runtime, a failed start removes only what it made, a
stop that succeeds is true). That a stop is true means: the service runs in
neither runtime, except where the late command of a killed start brought it up.
The code cannot see that command (gaps). The exception also excuses a stop that looked in the receipt's runtime alone while
such a command had raised the container in the other.

Batches of the activity pass. `pending_activity_intents` returns the first
`limit` intents that are not marked, and the pass skips, and does not mark, one
whose event it cannot claim because it is published already. As many of those as
the limit (`Stuck`) shut out every later intent (`CrowdedOut`), so delivery is
promised to the others only: `DeliveredUnlessCrowdedOut`, which is part of
`BackgroundSettles`. `background` and `activity_starves` have a limit of one,
where one such intent is enough to shut out another.
`activity_starves` asks for every intent, with nothing going wrong, and finds one
that is never enqueued.

`jobs_system` has one publisher pass at a time. A pass that is fenced out of its
claims by another one is a matter of the store alone (`job_store`).

Fairness. `BackgroundSpec` and `MachineSpec` assume weak fairness only:
of the steps of a pass (passes are scheduled again and again, which is how the
application runs them), of the lapse of a claim nobody works under and the end
of a delay (time goes on), of the supervisor's own steps, and of the progress of a
*stop* command (the code waits for it without a limit, and each command a stop
runs has a timeout of its own). Nothing is assumed of
handlers, of start or lifecycle commands, of processes that are told to end, or
of the absence of disruptions; those are bounded in number. The job system has
no liveness property: a busy overlap lock consumes attempts without bound and
the envelope refuses the one beyond the maximum, so no fairness of workers and
publisher makes a pending job run (`jobs_overlap_poison`).

These runs show where the code and what is said of it disagree; each finding in
`PROJECT.json` quotes both.

| Run | Violates | Shows |
|---|---|---|
| `jobs_crash` | `RunningIsRecoverable` | a redelivery that meets the live lease of a lost worker is acknowledged; nothing calls `recover_expired_leases` afterwards |
| `jobs_overlap_poison` | `PendingHasDelivery` | after repeated busy locks a job is published with an attempt its own decoder refuses |
| `job_deadline` | `StartedBeforeDeadline` | the deadline is compared with a reading taken before the claim |
| `review_answers` | `AnsweredOnce` | two replies to a clarification in flight are both acknowledged, and the later write replaces the answers of the first |
| `activity_starves` | `EveryIntentIsPublished` | intents published without being marked fill the batch of every later pass |

### Assumptions a reader can drop

`SlowRequests = TRUE` lets an exchange outlive its claim, and `BearersAreFenced`
fails. `OperatorWaits = FALSE` lets an operator reconcile while a run is at the
provider, and `NoDuplicateSend` fails. One name for several passes (`NameOf`, `WorkerOf`) lets a slow
pass settle another's claim. `SqlStore = TRUE` shows first-contact mail failing
over SQLite (below).

### Gaps seen while modelling

What the models do, or exclude with a named assumption, and a maintainer may want
to look at. Paths are relative to `src/plugins/minco-plugin-ticketing/src` unless
they say otherwise.

* `persistence.rs:1915`: `create_ticket_from_external` inserts the identity before
  the ticket it refers to, under an immediate foreign key
  (`migrations/sqlite/0001_ticketing.sql:94`): over SQLite a first-contact mail
  spends its attempts.
* `persistence.rs:2478`: retention deletes what it selected by identifier alone,
  and a ticket reopened in between is erased.
* `store.rs:2004`: the memory store's `append_ticket_message` keeps the receipt
  before it finds the ticket and checks the revision, so a refused append leaves a
  receipt without its message. `service.rs:820`: a receipt expires after 300 s, and
  a retry later than that finds none.
* `store.rs:2024`: an append writes no `closed_at`; a reopened ticket keeps it.
* `service.rs:1551`, `service.rs:1665`: replies to a clarification and decisions
  on a proposal are check-then-write by identifier: two that are in flight
  together are both acknowledged, and the later write stays (`review_answers`; the
  two decisions have the same window). Withdrawing a clarification is a domain
  operation no service calls.
* `jobs.rs:1074`: the freshness check of the automation command precedes the
  insert of its proposals: the ticket may move in between, and a proposal is
  stored over the change.
* `service.rs:2164`: the thread of a mail is resolved when it is submitted. The
  resolved ticket is part of the payload and its fingerprint, so a repeated
  notification whose thread resolves otherwise is a `DuplicateSubmissionConflict`
  that stops the records behind it, while
  `src/extensions/minco-aws-worker/src/ticketing_wake.rs:176` says "Earlier
  records are durable-idempotent under replay".
* `service.rs:2257`, `service.rs:2278`: the activity pass recovers no claims: an
  intent waits until some `dispatch_once` pass does. `service.rs:2277`,
  `store.rs:2349`: an intent it skips is never marked and keeps its place in the
  batch (`activity_starves`).
* `service.rs:1341`: a reconciliation that overlaps a run can be overwritten.
* `service.rs:2544`, `:2584`, `:2752`, `store.rs:1614`: a rotation staged before a
  logout completes after it; a takeover of a slow exchange leaves a second
  session; a failed undo leaves one until it expires; the replay deadline is read
  once.
* `src/plugins/minco-plugin-audit/src/journal.rs:335`: a claim is recognised by
  the worker's name.
* `src/plugins/minco-plugin-jobs/src/services.rs:194`: busy locks reschedule
  beyond `maximum_attempts`.
* `src/plugins/minco-plugin-workspace/src/service.rs:337`, `:408`: a pass past its
  reading of the history inserts a profile that was provisioned and removed
  meanwhile, while ADR 0076 says "startup never [...] recreates deleted
  profiles"; passes that add the same project at once end in
  `ReconciliationRequired`.
* `src/crates/minco-dev/src/supervisor.rs:119`, `:161`, `:197`: when the renderer of
  the events has ended (its output was closed), `events.send(..)?` returns at
  once: services stay up and descendants of killed leaders run on, while
  `docs/development/local-development.md:158` says "shutdown includes
  descendants. Selected local services are stopped in reverse order". An error
  of `try_wait` (`:260`) returns likewise.
* `src/crates/minco-cli/src/service_runtime.rs:1565`: an `auto` start without a
  receipt looks only at runtimes that are ready, where a stop (`:1521`) insists that
  every installed one answers. A stop removes the receipt (`:1630`), so when the
  runtime of the last lifecycle is down the next start begins in the other one,
  with an empty volume. `docs/adrs/0044-apple-container-default.md:48` says
  "Existing projects do not change runtimes mid-lifecycle"; `LifecycleStaysPut`
  checks it from receipt to stop, where it holds.
* `src/crates/minco-cli/src/service_runtime.rs:1298`, `:1611`: after an ambiguity the advice is to stop one
  runtime explicitly; a stopped Docker container still counts as owned, so
  `auto` refuses until it is removed by hand.
* `src/crates/minco-cli/src/service_runtime.rs:663`: a command killed at its timeout has been handed to a
  daemon, and may act after a later operation has reported success. So may one
  that dies with its start at an interrupt (`supervisor.rs:459`): the container
  comes up behind a stop that has succeeded and `run_until` returns Ok, while
  `docs/adrs/0023-graph-driven-development-supervisor.md:18` says a development
  command "must not [...] report successful shutdown while a child process or
  selected Compose service remains active". A runtime whose `--version` times out counts as not installed
  (`:775`).

## 4. Proofs

Every theorem holds for all values of the constants - any number of jobs, workers,
passes, requests, callers and entries of a plan, any bound - under the assumptions
the modules state about their constants (sorts, reserved values) and the
hypotheses the table names. A hypothesis is a restriction under which the code
keeps the property and without which it does not ("Assumptions a reader can
drop"); a theorem without one needs none.

| Module | Theorem | Run property | Hypothesis |
|---|---|---|---|
| `JobStoreProofs` | `TypeCorrect`, `LeaseOnlyWhileHeld`, `LeaseSettlesOnce`, `LeaseNamesOneJob`, `KeyNamesOneJob`, `PublishedStaysPublished`, `RevisionIsCurrent`, `StoreImplementsLifecycle` | all of `job_store` | |
| `JobExecutorProofs` | `HandlersHoldTheirLease`, `HandlersNeverOverlap`, `ExecutorUsesStore` | all of `job_executor` | |
| `JobsSystemProofs` | `SystemTypeCorrect`, `SystemHandlersNeverConcurrent`, `IntentsAreNotEarly`, `RunningJobsAreRecoverable`, `SystemUsesStore`, `SystemImplementsLifecycle` | all of `jobs_system` but `PendingHasDelivery` | |
| | `PendingJobsAreDelivered` | `PendingHasDelivery` | `[]PendingWithinLimit` |
| | `PendingJobsAlwaysDelivered` | `PendingHasDelivery` | `OnlyRetriesReopen` |
| `SqlJobsProofs` | `TransactionsAlwaysSound`, `SqlImplementsPorts`, `SqlKeepsStorePromises` | all of `sql_jobs`, and `job_store` for the tables | |
| `IdempotentRequestsProofs` | `ClientsTypeCorrect`, `ActionsAreAnsweredOnce`, `SuccessIsFinal`, `RepliesAreCommittedOnce` | `ClientsTypeOK`, `ActionAnsweredOnce`, `NoStartAfterSuccess`, `ReplyCommittedOnce` of `desk` | |
| | `BearersStayFenced` | `BearersAreFenced` | `~SlowRequests` |
| `BackgroundWorkProofs` | `BackgroundTypeCorrect`, `EventsAlwaysSound`, `SealedStaysFrozen` | `background` | |
| | `OnlyTheClaimantSettles` | `SettledByClaimant` | `OwnDispatcherName` |
| | `AuditAlwaysSound` | `AuditSound` | `OwnWorker` |
| `DevelopmentMachineProofs` | `MachineTypeCorrect`, `ShutdownAlwaysClean`, `ServicesAreKept`, `SupervisorShutsDown`, `TerminalsKeepServices` | all of `development` but `RunEnds` | |
| `SupportDeskProofs` | `DeskTypeCorrect`, `AggregateAlwaysSound`, `ProvisioningAlwaysSound`, `MailIsKept` | `DeskTypeOK`, `AggregateSound`, `ProvisioningSound` | |
| | `MailIsSentOnce`, `MailOutcomesAreTrue` | `NoDuplicateSend`, `OutcomeIsTrue` | `OperatorWaits` |
| | `InboundAlwaysSound` | `InboundSound` | `~SqlStore` |

A nested update of a function of records is written
`[f EXCEPT ![x] = [@ EXCEPT !.a = ...]]` throughout. For two components of one entry
TLA+ also allows `[f EXCEPT ![x].a = ..., ![x].b = ...]`, but tlapm 1.4.5 does not
translate that form to the backends as it is defined (obligations that are false
come out as proved), so no module with a proof, and none it uses, contains it.

The arguments, component by component. None of the properties is inductive as it
stands; each proof names what has to be known besides.

**Job store.** A claim mints `minted + 1`, and that it is larger than every lease
on record must be known. `StoreInv` adds it record by record (`RecordOK`: every
lease in a record or its history is at most `minted`, the history is increasing
and below the current lease). `PublicationOK` does the same for generations: the
lease exists exactly while the generation is claimed, which is why `mark_failed`,
whose fence looks at the lease alone, cannot reopen a published one. `KeysOK` ties
the dedupe index to the records in both directions. Each action changes the
record of one job (in recovery, of any subset of the expired ones), and the
lemmas about `Transition`, `Settled`, `Claimed` and `record_attempt` say what
becomes of it. For the refinement, each action is one abstract action of the
mapped state, or a stutter.

**Workers.** That handlers exclude each other follows from the times. A worker
before or in its handler holds a lease and a lock that end `ExecutionLease` after
its reading, and the true time is short of that, by
`StartDelay + ExecutionTimeout < ExecutionLease` (`LeaseOutlivesHandler`).
Readings never run ahead of the clock, so no claim, recovery or acquisition of
another worker takes them away (`Spared`). `WorkerOK` says the first, worker by
worker; with `LeasesApart` it makes `ExecInv`.

**The whole path.** Workers keep `ExecInv`; what is new is the publisher's pass,
which acts on generations it read in earlier steps. `PassOK` says what is still
true of them, `ClaimsDated` that those still under the pass's lease were due at
its reading: a failed send cannot move a generation before its job.
`SystemUsesStore` is the refinement `ImplementsStore`, so what is proved of the
store, and `ImplementsLifecycle`, holds of the system by transitivity.

*A pending job has a delivery.* Once its newest generation is published, one
message on the queue must bring the job to a claim (`Carried`). It does because
the publisher takes only generations that are due, and a generation is not due
before its job (`ClaimsDated`, `IntentsOK`): the message is sent when the job is
available (`Sent`, `PassCarries`), so an invocation that has received it and not
executed it will claim the job and not skip it (`WillClaim`, `HandOK`), and only
then is it acknowledged. A trigger carries the job it was minted for until that
job has a second generation (`Names`). This is `DeliveryInv`, and one lemma per
action shows that it stays. It needs that no job is pending with more attempts than its policy
allows (`PendingWithinLimit`), because the decoder refuses such a delivery, and
`jobs_overlap_poison` violates exactly that. Busy locks and
`recover_expired_leases` reopen a job whatever its attempt count, a retry only
below the maximum. So for jobs without overlap keys, and without the recovery
that nothing in the repository calls (`OnlyRetriesReopen`, as in `jobs_system`),
`PendingWithinLimit` follows: an invocation's count is the record's as long as it
holds the lease (`Counted`).

**SQL adapters.** What a transaction has written it decided on rows that may have
changed by the time it commits. `SqlInv` says they have not: what an open
transaction has written is ONE operation of the store - a submission, a retry, a
rerun, a recovery of some - that is still enabled on the committed rows
(`Submits`, `Updates`), with the publications that belong to it and their next
numbers (`Intends`, `Numbered`), step by step (`StepOK`). A step of another
transaction or statement keeps that because it spares it (`Spares`): it changes
no row it has written and no dedupe key of one. In PostgreSQL that follows from
the rows being locked (`RowFree`, `Unlocked`) and the unique key being waited for
(`KeyFree`); in SQLite from `WriteLock`, under which a SELECT still holds for the
UPDATE after it (`Claims`, `ClaimsDue`, `Locks`). So a commit is that operation
(`CommitRefines`), and everything else is one operation or none. SQLite compares
instants as text: `TextOrder` proves, for every instant, that texts are in the
order of the instants they stand for. By refinement all that is proved of
the store holds of the committed rows.

**Idempotent callers.** A slow holder is not told that it was taken over until it
settles. The answers agree because a request that may still succeed holds the
entry or began `StaleAfter` before now (`HoldsOrLate`), because a completed entry
is never replaced (`AnswerKept`), and because the fingerprint of a reply names the
revision it was based on (`MessagesOld`). A session exchange has no such fence:
one request at a time is in a first exchange (`FirstExchange`), and a rotation
needs the record the first one leaves (`Rotation`); both need that no request
outlives its claim (`stale_after` is five minutes).

**Outboxes.** As long as nothing has gone wrong with an event, the pass that is
going to publish it, or has just done so, has the claim, and there is one such
pass (`WorkOK`), so the event is delivered at most once (`RecordOK`); what a lapsed
claim or a failed publish may do is left to `disturbed`. That the pass of a claim
settles it needs names of their own.

**Audit.** An entry a pass still has the claim of is the entry it read, and what
the ledger said it appended it has (`BatchIsCurrent`): what is deleted from the
journal is in the ledger. `claim_pending` takes at most `RelayLimit` because ranks
among the eligible entries are an injection (`SelectedBounded`). The segments hold
the records (`Hold`: each record in one of them, sizes that count, the last one
active), and `Place` keeps that for one record more (`PlaceHolds`) and leaves what
it has sealed (`Extends`). A batch is placed by a function that is recursive over
the naturals; that it unfolds, and induction about it, are derived from the
library's well-founded minimum (`LeastNatural`, `InductionOverNat`,
`RecursionOverNat`), as is what the sum of the encoded sizes does when a record is
added (`SizeAdds`).

**Development machine.** The supervisor takes its plan down as it brought it up:
the processes it watches are a prefix of the plan (`ProcessesInOrder`), a service
that may be up is on the list of those to stop, and above the entry it is at
every service has been seen to (`ServiceOK`, `TakenDown`). The operations of a
local service are fenced by its lock and by the port: one container runs at a
time, and it is the receipt's (`RunsOK`, `OpOK`). Under the supervisor there is at
most one start before the stop, so its container is in one runtime, and that is
where the stop looks (`OneHome`); a command that lands later may raise it again
there (`raised`).

**Support desk.** *Ticket*: the copy an operation works on is behind the ticket
or equals it (`CopiesBehind`), so the revision the commit compares tells whether
anything was missed. *Reviews*: only the shapes, which every write keeps, overlap or
not. *Inbound mail*: a mail is in
the conversation its identity names and no other (`IdentitiesMatch`), a job tells
what has become of it (`JobsTell`), the mails an invocation is past have jobs
(`PastIsQueued`), on a FIFO queue in order (`FifoInOrder`). `MailIsKept` is the
part that either store keeps; a SQLite job cannot open a ticket (gaps). *Outbound
mail*: one run at a time has the right to send (`InitialAlone`, `ProviderFenced`),
and what intent, evidence, run and operator say of the mail is true of it
(`...TellsSent`). *Workspace*: the binding is made by one pass (`BoundOnce`), the
tables a pass has read only grow (`SeenIsThere`), the check of the history holds
until the commit (`CheckHolds`), a profile is known by one digest (`OneDigest`).

Only model-checked:

* `BackgroundSettles` (with `DeliveredUnlessCrowdedOut`) and `RunEnds`: liveness
  under fairness is out of the prover's reach, as is ENABLED.

## 5. Not modelled

* *Sequential translation*, by far the largest part: command line, contract,
  plan, deployment and release tools, configuration, templates, MCP, workbench,
  test kit. One process, one call; what can be wrong is the data, and the
  repository's golden and unit tests state it. No model of states and steps says
  more, which is why the definitions here cover a small share of all lines.
* *Queries, views, search, knowledge, macros, routing, feedback items,
  notification preferences*: single reads and single writes of a record.
* *Object storage and realtime*: validation and signing around a provider that
  keeps the state. *Sessions*: beyond issue and revoke, expiry and lookups.
* *Database lifecycle*: migrations run under an advisory lock or a lock file and
  a ledger that belong to `sqlx`; a seed plan is one transaction or a list of
  independent statements.
* *Provider adapters* (AWS, DynamoDB, Lambda) are modelled where a port is: from
  how its callers use it.
* `submit_queued` and `submit_inline` keep no durable state. Length and range
  checks that only refuse more calls are left out. Clock skew is covered in
  `JobStore` (any reading) and not in `JobsSystem` (one clock).

## 6. Plan

1. Clock skew between publisher and workers.
2. The PostgreSQL audit ledger and the remaining plugin adapters as transactions.
