----------------------------- MODULE Idempotency -----------------------------
(***************************************************************************)
(* minco-plugin-idempotency: the store that lends a key to one request at  *)
(* a time and keeps its answer.  The modules of the callers extend it with *)
(* the protocol begin, side effect, complete or abort.                     *)
(*                                                                         *)
(* A lease identifier is the request that minted it: each begins once.     *)
(***************************************************************************)
EXTENDS Naturals

CONSTANTS
    Key, Fingerprint,
    Request,        \* HTTP requests or calls, each with a fresh lease_id
    Response,       \* stored responses
    StaleAfter,     \* IdempotencyService::stale_after
    Horizon         \* bound: the last instant of the clock

(* A response is named by the request that produced it.                    *)
ASSUME IdempotencyAssumption ==
    /\ StaleAfter \in Nat \ {0} /\ Horizon \in Nat
    /\ Request \subseteq Response /\ "none" \notin Request

VARIABLES entries, now

storeVars == <<entries, now>>

AbsentEntry == [state |-> "absent"]

(* Mutant: the claim stores the end of its lease for its start.            *)
ClaimDatedByLease(f, r) ==
    [state |-> "in_progress", fingerprint |-> f, lease |-> r,
     started_at |-> now + StaleAfter]

InProgress(f, r) ==
    [state |-> "in_progress", fingerprint |-> f, lease |-> r, started_at |-> now]

Completed(f, v) == [state |-> "completed", fingerprint |-> f, response |-> v]

StoreTypeOK ==
    /\ now \in 0..Horizon
    /\ \A k \in Key :
          entries[k] \in
             {AbsentEntry}
             \cup [state : {"in_progress"}, fingerprint : Fingerprint,
                   lease : Request, started_at : 0..Horizon]
             \cup [state : {"completed"}, fingerprint : Fingerprint,
                   response : Response]

StoreInit == entries = [k \in Key |-> AbsentEntry] /\ now = 0

(* Mutant: the claim timeout is forgotten.                                 *)
StaleAtOnce(e) == e.started_at <= now

(* A claim is stale once stale_after has passed since it started.          *)
Stale(e) == e.started_at + StaleAfter <= now

(* Mutant: begin does not look for a completed record.                     *)
BeginRestarts(k, f) ==
    LET e == entries[k] IN
    IF e = AbsentEntry THEN "started"
    ELSE IF e.fingerprint # f THEN "conflict"
    ELSE IF e.state = "in_progress" /\ ~Stale(e) THEN "in_progress" ELSE "started"

(* What begin finds: a completed record and a claim both refuse another    *)
(* fingerprint; a stale claim is taken over.                               *)
BeginOutcome(k, f) ==
    LET e == entries[k] IN
    IF e = AbsentEntry THEN "started"
    ELSE IF e.fingerprint # f THEN "conflict"
    ELSE IF e.state = "completed" THEN "replay"
    ELSE IF Stale(e) THEN "started" ELSE "in_progress"

begin(k, f, r) ==
    entries' = IF BeginOutcome(k, f) = "started"
               THEN [entries EXCEPT ![k] = InProgress(f, r)]
               ELSE entries

(* The first statement of the PostgreSQL begin: INSERT ... ON CONFLICT DO  *)
(* NOTHING.  When it inserts nothing, the row is locked by a second        *)
(* statement and another request may come between.                         *)
InsertClaims(k) == entries[k] = AbsentEntry

(* complete and abort touch only the claim of this lease.                  *)
Holds(k, f, r) ==
    /\ entries[k].state = "in_progress"
    /\ entries[k].lease = r
    /\ entries[k].fingerprint = f

complete(k, f, r, v) ==
    entries' = IF Holds(k, f, r)
               THEN [entries EXCEPT ![k] = Completed(f, v)] ELSE entries

abort(k, f, r) ==
    entries' = IF Holds(k, f, r)
               THEN [entries EXCEPT ![k] = AbsentEntry] ELSE entries

Tick == now < Horizon /\ now' = now + 1 /\ UNCHANGED entries
=============================================================================
