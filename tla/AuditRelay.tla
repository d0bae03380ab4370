----------------------------- MODULE AuditRelay -----------------------------
(***************************************************************************)
(* The audit journal (AuditJournalStore) that commits with the domain      *)
(* change, and the relay passes (AuditRelay::dispatch_once) that move its  *)
(* entries to the ledger: passes overlap, crash, are slower than their     *)
(* claim, lose the ledger's answer.  Time is the two events it decides: a  *)
(* claim expires, a retry becomes available.                               *)
(***************************************************************************)
EXTENDS AuditLedger

CONSTANTS
    Written,        \* the records producers enqueue: [id, content]
    RelayPass,           \* relay processes
    WorkerOf,       \* their worker_id
    RelayLimit,          \* entries per pass
    MaxAgain,       \* bound: enqueues of a record accepted before
    MaxRelayDisruptions  \* bound: failed ledger calls, lost passes, claims that
                    \* expire under a pass still running

ASSUME RelayAssumption ==
    /\ Written \subseteq [id : AuditEvent, content : Nat \ {0}]
    /\ RelayLimit \in Nat \ {0} /\ \A p \in RelayPass : WorkerOf[p] # "none"
    /\ MaxAgain \in Nat /\ MaxRelayDisruptions \in Nat

VARIABLES
    journal,    \* AuditJournalEntry by event
    relay,       \* the relay processes
    accepted,   \* the records enqueue has accepted
    spent       \* of the two bounds

vars == <<records, segments, journal, relay, accepted, spent>>

AuditJournalStatus == {"pending", "claimed", "failed", "quarantined"}
NoEntry ==
    [status |-> "absent", content |-> NoContent, by |-> "none", expired |-> FALSE, available |-> TRUE]
Entry(c) ==
    [NoEntry EXCEPT !.status = "pending", !.content = c]
Resting == [pc |-> "idle", batch |-> {}, outcome |-> "none"]

RelayInit ==
    /\ LedgerInit
    /\ journal = [e \in AuditEvent |-> NoEntry]
    /\ relay = [p \in RelayPass |-> Resting]
    /\ accepted = {}
    /\ spent = [again |-> 0, disruptions |-> 0]

RelayDisrupted ==
    /\ spent.disruptions < MaxRelayDisruptions
    /\ spent' = [spent EXCEPT !.disruptions = @ + 1]

-----------------------------------------------------------------------------
(* The journal.                                                            *)

EnqueueRecord(w) ==
    /\ journal[w.id].content \in {NoContent, w.content}
    /\ journal' = IF journal[w.id] = NoEntry
                  THEN [journal EXCEPT ![w.id] = Entry(w.content)] ELSE journal
    /\ accepted' = accepted \cup {w}
    /\ w \in accepted => spent.again < MaxAgain
    /\ spent' = IF w \in accepted THEN [spent EXCEPT !.again = @ + 1] ELSE spent
    /\ UNCHANGED <<records, segments, relay>>

Eligible ==
    {e \in AuditEvent : journal[e].status \in {"pending", "failed"} /\ journal[e].available}

(* The first entries in the order of the map.                              *)
Selected ==
    {e \in Eligible : Cardinality({f \in Eligible : f < e}) < RelayLimit}

(* require_claims: the batch is marked whole or not at all.                *)
HoldsClaims(p) ==
    \A x \in relay[p].batch :
       journal[x.id].status = "claimed" /\ journal[x.id].by = WorkerOf[p]

Unclaimed(entry, status, available) ==
    [entry EXCEPT !.status = status, !.by = "none", !.expired = FALSE, !.available = available]

Marked(p, status, available) ==
    [e \in AuditEvent |-> IF \E x \in relay[p].batch : x.id = e
                     THEN Unclaimed(journal[e], status, available) ELSE journal[e]]

MarkedDelivered(p) ==
    [e \in AuditEvent |-> IF \E x \in relay[p].batch : x.id = e THEN NoEntry ELSE journal[e]]

-----------------------------------------------------------------------------
(* dispatch_once.                                                          *)

(* Mutant: claims whose lease is over stay as they are.                    *)
RecoverNothing(p) ==
    /\ relay[p].pc = "idle"
    /\ journal' = journal
    /\ relay' = [relay EXCEPT ![p].pc = "claim"]
    /\ UNCHANGED <<records, segments, accepted, spent>>

(* Mutant: a recovered entry keeps its claim.                              *)
RecoverKeepsClaim(p) ==
    /\ relay[p].pc = "idle"
    /\ journal' = [e \in AuditEvent |->
          IF journal[e].status = "claimed" /\ journal[e].expired
          THEN [journal[e] EXCEPT !.status = "failed"] ELSE journal[e]]
    /\ relay' = [relay EXCEPT ![p].pc = "claim"]
    /\ UNCHANGED <<records, segments, accepted, spent>>

recover_expired_claims(p) ==
    /\ relay[p].pc = "idle"
    /\ journal' = [e \in AuditEvent |->
          IF journal[e].status = "claimed" /\ journal[e].expired
          THEN Unclaimed(journal[e], "failed", TRUE) ELSE journal[e]]
    /\ relay' = [relay EXCEPT ![p].pc = "claim"]
    /\ UNCHANGED <<records, segments, accepted, spent>>

(* A pass that finds nothing ends.                                         *)
claim_pending(p) ==
    /\ relay[p].pc = "claim"
    /\ journal' = [e \in AuditEvent |->
          IF e \in Selected
          THEN [journal[e] EXCEPT !.status = "claimed", !.by = WorkerOf[p], !.expired = FALSE]
          ELSE journal[e]]
    /\ relay' = [relay EXCEPT ![p] =
          IF Selected = {} THEN Resting
          ELSE [pc |-> "append", outcome |-> "none",
                batch |-> {[id |-> e, content |-> journal[e].content] : e \in Selected}]]
    /\ UNCHANGED <<records, segments, accepted, spent>>

(* The ledger appends the batch or refuses it; an infrastructure error     *)
(* comes before or after its commit.                                       *)
AppendBatch(p) ==
    /\ relay[p].pc = "append"
    /\ \/ /\ append_batch(relay[p].batch)
          /\ relay' = [relay EXCEPT ![p] =
                [@ EXCEPT !.pc = "mark", !.outcome = AppendOutcome(relay[p].batch)]]
          /\ UNCHANGED spent
       \/ /\ RelayDisrupted
          /\ append_batch(relay[p].batch) \/ UNCHANGED ledgerVars
          /\ relay' = [relay EXCEPT ![p] = [@ EXCEPT !.pc = "mark", !.outcome = "infrastructure"]]
    /\ UNCHANGED <<journal, accepted>>

(* Mutant: whatever the ledger said, the entries are done.                 *)
MarkAlwaysDelivered(p) ==
    /\ relay[p].pc = "mark"
    /\ journal' = IF HoldsClaims(p) THEN MarkedDelivered(p) ELSE journal
    /\ relay' = [relay EXCEPT ![p] = Resting]
    /\ UNCHANGED <<records, segments, accepted, spent>>

(* mark_delivered, mark_retry or quarantine: every error of the ledger but *)
(* the infrastructure's is permanent for the whole batch.                  *)
Mark(p) ==
    LET outcome == relay[p].outcome IN
    /\ relay[p].pc = "mark"
    /\ journal' = CASE ~HoldsClaims(p) -> journal
                    [] HoldsClaims(p) /\ outcome = "appended" -> MarkedDelivered(p)
                    [] HoldsClaims(p) /\ outcome = "infrastructure" -> Marked(p, "failed", FALSE)
                    [] OTHER -> Marked(p, "quarantined", TRUE)
    /\ relay' = [relay EXCEPT ![p] = Resting]
    /\ UNCHANGED <<records, segments, accepted, spent>>

-----------------------------------------------------------------------------
(* The environment.                                                        *)

Crash(p) ==
    /\ relay[p].pc # "idle"
    /\ RelayDisrupted
    /\ relay' = [relay EXCEPT ![p] = Resting]
    /\ UNCHANGED <<records, segments, journal, accepted>>

Running(e) == \E p \in RelayPass : WorkerOf[p] = journal[e].by /\ \E x \in relay[p].batch : x.id = e

(* The lease of a claim ends: that of a dead pass surely, that of a running*)
(* one now and then.                                                       *)
ClaimExpires(e) ==
    /\ journal[e].status = "claimed" /\ ~journal[e].expired
    /\ IF Running(e) THEN RelayDisrupted ELSE UNCHANGED spent
    /\ journal' = [journal EXCEPT ![e].expired = TRUE]
    /\ UNCHANGED <<records, segments, relay, accepted>>

RetryComes(e) ==
    /\ journal[e].status = "failed" /\ ~journal[e].available
    /\ journal' = [journal EXCEPT ![e].available = TRUE]
    /\ UNCHANGED <<records, segments, relay, accepted, spent>>

Archive ==
    /\ \E i \in DOMAIN segments : mark_archived(i)
    /\ UNCHANGED <<journal, relay, accepted, spent>>

Step(p) == recover_expired_claims(p) \/ claim_pending(p) \/ AppendBatch(p) \/ Mark(p)

RelayNext ==
    \/ \E w \in Written : EnqueueRecord(w)
    \/ \E p \in RelayPass : Step(p) \/ Crash(p)
    \/ \E e \in AuditEvent : ClaimExpires(e) \/ RetryComes(e)
    \/ Archive

RelaySpec == RelayInit /\ [][RelayNext]_vars

-----------------------------------------------------------------------------
(* Journal, passes and segments are well formed: an entry is claimed by a  *)
(* worker or by nobody, and a pass holds at most RelayLimit entries.       *)
RelayTypeOK ==
    /\ \A e \in AuditEvent :
          journal[e] # NoEntry =>
             /\ journal[e].status \in AuditJournalStatus
             /\ journal[e].status = "claimed" <=> journal[e].by # "none"
             /\ journal[e].status # "claimed" => ~journal[e].expired
    /\ \A p \in RelayPass :
          /\ relay[p].batch \in Batch /\ Cardinality(relay[p].batch) <= RelayLimit
          /\ relay[p].pc \in {"append", "mark"} <=> relay[p].batch # {}

(* "Relay deletes only after idempotent ledger commit": a record that was  *)
(* accepted is in the journal or in the ledger, with its own content.      *)
NothingLost ==
    \A w \in accepted :
       \/ records[w.id] = w.content
       \/ journal[w.id].content = w.content

(* Every accepted record reaches the ledger or the quarantine in the end,  *)
(* and stays there.                                                        *)
EveryRecordSettles ==
    <>[](\A w \in accepted :
            records[w.id] = w.content \/ journal[w.id].status = "quarantined")
=============================================================================
