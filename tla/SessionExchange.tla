--------------------------- MODULE SessionExchange ---------------------------
(***************************************************************************)
(* The requester portal's session exchange: one support handoff, consumed  *)
(* by requests that race, retry and crash.  The first exchange mints a     *)
(* session and records a grant; a replay of the completed exchange rotates *)
(* the session (rotate_session_exchange); logout ends the grant.           *)
(*                                                                         *)
(* There is one exchange key and one fingerprint: exchanges of different   *)
(* handoffs share nothing.  A session is named by the request that minted  *)
(* it.                                                                     *)
(***************************************************************************)
EXTENDS Idempotency

CONSTANTS
    key, print,     \* ticketing.session.<handoff digest>, the portal origin
    ReplayWindow,   \* grant.expires_at - now at the exchange
    SlowRequests,   \* whether a running request may outlive its claim
    MaxExchangeFailures     \* bound: store calls that fail

ASSUME ExchangeAssumption ==
    /\ key \in Key /\ print \in Fingerprint
    /\ ReplayWindow \in Nat /\ SlowRequests \in BOOLEAN /\ MaxExchangeFailures \in Nat

VARIABLES
    grant,      \* SessionExchangeGrant of the key
    consumed,   \* the handoff has been consumed
    session,    \* "none", "live" or "revoked", by the request that minted it
    exchange,   \* the exchange requests
    logout,     \* the logout requests, by the session they carry
    exchangeFailures

exchangeOwn == <<grant, consumed, session, exchange, logout, exchangeFailures>>
exchangeVars == <<entries, now, exchangeOwn>>

NoGrant == [session |-> "none", generation |-> 0, revoked |-> FALSE,
            staged |-> "none", expires_at |-> 0]

(* `seen` is the grant a request has read; `late`, whether it arrived      *)
(* after a logout had returned.                                            *)
NoExchange == [pc |-> "idle", seen |-> NoGrant, late |-> FALSE]

ExchangeInit ==
    /\ StoreInit
    /\ grant = NoGrant /\ consumed = FALSE
    /\ session = [r \in Request |-> "none"]
    /\ exchange = [r \in Request |-> NoExchange]
    /\ logout = [s \in Request |-> "idle"]
    /\ exchangeFailures = 0

Ended == {"idle", "answered", "refused", "crashed"}

ExchangeTo(r, pc) == exchange' = [exchange EXCEPT ![r].pc = pc]
ExchangeToSeeing(r, pc, g) == exchange' = [exchange EXCEPT ![r] = [@ EXCEPT !.pc = pc, !.seen = g]]

(* A store call of the exchange fails and changes nothing.                 *)
ExchangeFails(r, pc) ==
    /\ exchangeFailures < MaxExchangeFailures /\ exchangeFailures' = exchangeFailures + 1
    /\ ExchangeTo(r, pc)
    /\ UNCHANGED <<entries, grant, consumed, session>>

Revoke(s) ==
    session' = IF session[s] = "live" THEN [session EXCEPT ![s] = "revoked"] ELSE session

-----------------------------------------------------------------------------
(* requester_session_exchange.                                             *)

ExchangeBegin(r) ==
    LET outcome == BeginOutcome(key, print) IN
    /\ exchange[r].pc = "idle"
    /\ begin(key, print, r)
    /\ exchange' = [exchange EXCEPT
          ![r] = [pc |-> IF outcome = "started" THEN "consume"
                         ELSE IF outcome = "replay" THEN "read" ELSE "refused",
                  seen |-> NoGrant,
                  late |-> \E s \in Request : logout[s] = "done"]]
    /\ UNCHANGED <<grant, consumed, session, exchangeFailures>>

(* consume_handoff_identity is repeatable for one fingerprint; only the    *)
(* first consumption can find the handoff unknown, foreign or expired.     *)
Consume(r) ==
    /\ exchange[r].pc = "consume"
    /\ \/ consumed' = TRUE /\ ExchangeTo(r, "issue")
       \/ ~consumed /\ consumed' = consumed /\ ExchangeTo(r, "abort")
    /\ UNCHANGED <<entries, grant, session, exchangeFailures>>

Issue(r) ==
    /\ exchange[r].pc = "issue"
    /\ \/ /\ session' = [session EXCEPT ![r] = "live"]
          /\ ExchangeTo(r, "read_current")
          /\ UNCHANGED <<entries, grant, consumed, exchangeFailures>>
       \/ ExchangeFails(r, "abort")

(* record_session_exchange_grant: read the current grant, record mine if   *)
(* its generation still matches, revoke the session it replaced.           *)
ReadCurrent(r) ==
    /\ exchange[r].pc = "read_current"
    /\ ExchangeToSeeing(r, "record", grant)
    /\ UNCHANGED <<entries, grant, consumed, session, exchangeFailures>>

Recordable(seen) ==
    \/ grant = NoGrant /\ seen = NoGrant
    \/ /\ grant # NoGrant /\ seen # NoGrant
       /\ grant.generation = seen.generation
       /\ ~grant.revoked /\ grant.staged = "none"

Record(r) ==
    LET seen == exchange[r].seen
        mine == [NoGrant EXCEPT
                   !.session = r, !.expires_at = now + ReplayWindow,
                   !.generation = IF seen = NoGrant THEN 0 ELSE grant.generation + 1]
    IN
    /\ exchange[r].pc = "record"
    /\ \/ /\ grant' = IF Recordable(seen) THEN mine ELSE grant
          /\ ExchangeTo(r, IF ~Recordable(seen) THEN "abandon"
                     ELSE IF seen = NoGrant THEN "complete" ELSE "replace")
          /\ UNCHANGED <<entries, consumed, session, exchangeFailures>>
       \/ ExchangeFails(r, "abandon")

RevokeReplaced(r) ==
    /\ exchange[r].pc = "replace"
    /\ \/ /\ Revoke(exchange[r].seen.session)
          /\ ExchangeTo(r, "complete")
          /\ UNCHANGED <<entries, grant, consumed, exchangeFailures>>
       \/ ExchangeFails(r, "abandon")

(* The replay record is completed; if it is not, the exchange is undone.   *)
ExchangeComplete(r) ==
    /\ exchange[r].pc = "complete"
    /\ \/ /\ complete(key, print, r, r)
          /\ ExchangeTo(r, IF Holds(key, print, r) THEN "answered" ELSE "abandon")
          /\ UNCHANGED <<grant, consumed, session, exchangeFailures>>
       \/ ExchangeFails(r, "abandon")

(* abandon_session_exchange: revoke my session, remove the grant if it is  *)
(* still mine; abort the claim whatever became of it.                      *)
AbandonSession(r) ==
    /\ exchange[r].pc = "abandon"
    /\ \/ /\ Revoke(r)
          /\ ExchangeTo(r, "remove")
          /\ UNCHANGED <<entries, grant, consumed, exchangeFailures>>
       \/ ExchangeFails(r, "abort")

AbandonGrant(r) ==
    /\ exchange[r].pc = "remove"
    /\ \/ /\ grant' = IF grant.session = r THEN NoGrant ELSE grant
          /\ ExchangeTo(r, "abort")
          /\ UNCHANGED <<entries, consumed, session, exchangeFailures>>
       \/ ExchangeFails(r, "abort")

Abort(r) ==
    /\ exchange[r].pc = "abort"
    /\ \/ /\ abort(key, print, r)
          /\ ExchangeTo(r, "refused")
          /\ UNCHANGED <<grant, consumed, session, exchangeFailures>>
       \/ ExchangeFails(r, "refused")

-----------------------------------------------------------------------------
(* rotate_session_exchange.                                                *)

ReadGrant(r) ==
    /\ exchange[r].pc = "read"
    /\ ExchangeToSeeing(r, IF grant = NoGrant \/ grant.revoked \/ grant.expires_at <= now
                        THEN "refused"
                     ELSE IF grant.staged # "none" THEN "retire_staged" ELSE "revoke",
                  grant)
    /\ UNCHANGED <<entries, grant, consumed, session, exchangeFailures>>

(* A staged marker is an interrupted rotation: retire its mint, clear it.  *)
RetireStaged(r) ==
    /\ exchange[r].pc = "retire_staged"
    /\ \/ /\ Revoke(exchange[r].seen.staged)
          /\ ExchangeTo(r, "clear")
          /\ UNCHANGED <<entries, grant, consumed, exchangeFailures>>
       \/ ExchangeFails(r, "refused")

StagedIs(seen, s) == grant.session = seen.session /\ grant.staged = s

ClearStaged(r) ==
    LET seen == exchange[r].seen
        mine == StagedIs(seen, seen.staged)
    IN
    /\ exchange[r].pc = "clear"
    /\ \/ /\ grant' = IF mine THEN [grant EXCEPT !.staged = "none"] ELSE grant
          /\ ExchangeTo(r, IF mine THEN "revoke" ELSE "refused")
          /\ UNCHANGED <<entries, consumed, session, exchangeFailures>>
       \/ ExchangeFails(r, "refused")

(* Mutant: the previous bearer is not revoked before the mint.             *)
MintBeforeRevoke(r) ==
    /\ exchange[r].pc = "revoke"
    /\ \/ /\ UNCHANGED session
          /\ ExchangeTo(r, "mint")
          /\ UNCHANGED <<entries, grant, consumed, exchangeFailures>>
       \/ ExchangeFails(r, "refused")

(* The previous bearer dies before the next is minted.                     *)
RevokePrevious(r) ==
    /\ exchange[r].pc = "revoke"
    /\ \/ /\ Revoke(exchange[r].seen.session)
          /\ ExchangeTo(r, "mint")
          /\ UNCHANGED <<entries, grant, consumed, exchangeFailures>>
       \/ ExchangeFails(r, "refused")

Mint(r) ==
    /\ exchange[r].pc = "mint"
    /\ \/ /\ session' = [session EXCEPT ![r] = "live"]
          /\ ExchangeTo(r, "stage")
          /\ UNCHANGED <<entries, grant, consumed, exchangeFailures>>
       \/ ExchangeFails(r, "refused")

Stageable(seen) ==
    grant.session = seen.session /\ ~grant.revoked /\ grant.staged = "none"

Stage(r) ==
    LET mine == Stageable(exchange[r].seen) IN
    /\ exchange[r].pc = "stage"
    /\ \/ /\ grant' = IF mine THEN [grant EXCEPT !.staged = r] ELSE grant
          /\ ExchangeTo(r, IF mine THEN "swap" ELSE "retire")
          /\ UNCHANGED <<entries, consumed, session, exchangeFailures>>
       \/ ExchangeFails(r, "retire")

CompleteRotation(r) ==
    LET mine == StagedIs(exchange[r].seen, r) IN
    /\ exchange[r].pc = "swap"
    /\ \/ /\ grant' = IF mine
                      THEN [grant EXCEPT !.session = r, !.staged = "none",
                                         !.generation = @ + 1]
                      ELSE grant
          /\ ExchangeTo(r, IF mine THEN "answered" ELSE "retire")
          /\ UNCHANGED <<entries, consumed, session, exchangeFailures>>
       \/ ExchangeFails(r, "retire")

RetireMint(r) ==
    /\ exchange[r].pc = "retire"
    /\ \/ /\ Revoke(r)
          /\ ExchangeTo(r, "refused")
          /\ UNCHANGED <<entries, grant, consumed, exchangeFailures>>
       \/ ExchangeFails(r, "refused")

ExchangeLost(r) ==
    /\ exchange[r].pc \notin Ended
    /\ ExchangeTo(r, "crashed")
    /\ UNCHANGED <<entries, grant, consumed, session, exchangeFailures>>

ExchangeStep(r) ==
    /\ \/ ExchangeBegin(r) \/ Consume(r) \/ Issue(r) \/ ReadCurrent(r) \/ Record(r)
       \/ RevokeReplaced(r) \/ ExchangeComplete(r)
       \/ AbandonSession(r) \/ AbandonGrant(r) \/ Abort(r)
       \/ ReadGrant(r) \/ RetireStaged(r) \/ ClearStaged(r) \/ RevokePrevious(r)
       \/ Mint(r) \/ Stage(r) \/ CompleteRotation(r) \/ RetireMint(r)
       \/ ExchangeLost(r)
    /\ UNCHANGED <<now, logout>>

-----------------------------------------------------------------------------
(* requester_logout, by the holder of a session: the grant's replay        *)
(* authority first, and only then the session.                             *)

LogoutArrives(s) ==
    /\ logout[s] = "idle"
    /\ exchange[s].pc = "answered" /\ session[s] = "live"
    /\ logout' = [logout EXCEPT ![s] = "revoke_grant"]
    /\ UNCHANGED <<grant, session>>

LogoutRevokesGrant(s) ==
    /\ logout[s] = "revoke_grant"
    /\ grant' = IF grant = NoGrant THEN grant ELSE [grant EXCEPT !.revoked = TRUE]
    /\ logout' = [logout EXCEPT ![s] = "revoke_session"]
    /\ UNCHANGED session

LogoutRevokesSession(s) ==
    /\ logout[s] = "revoke_session"
    /\ Revoke(s)
    /\ logout' = [logout EXCEPT ![s] = "done"]
    /\ UNCHANGED grant

Logout(s) ==
    /\ LogoutArrives(s) \/ LogoutRevokesGrant(s) \/ LogoutRevokesSession(s)
    /\ UNCHANGED <<entries, now, consumed, exchange, exchangeFailures>>

(* Unless requests may be slow, a claim only grows old under a request     *)
(* that has ended: stale_after is five minutes.                            *)
TimePasses ==
    /\ ~SlowRequests /\ entries[key].state = "in_progress"
          => exchange[entries[key].lease].pc \in Ended
    /\ Tick
    /\ UNCHANGED exchangeOwn

ExchangeNext ==
    \/ \E r \in Request : ExchangeStep(r) \/ Logout(r)
    \/ TimePasses

ExchangeSpec == ExchangeInit /\ [][ExchangeNext]_exchangeVars

-----------------------------------------------------------------------------
Delivered(r) == exchange[r].pc = "answered"

(* Every variable keeps its shape; a staged mint is not yet the grant's.   *)
ExchangeTypeOK ==
    /\ StoreTypeOK
    /\ grant.session \in Request \cup {"none"} /\ grant.staged \in Request \cup {"none"}
    /\ grant = NoGrant \/ grant.session # grant.staged
    /\ session \in [Request -> {"none", "live", "revoked"}]
    /\ exchangeFailures \in 0..MaxExchangeFailures

(* The exchange never hands out two bearers that are live together: a      *)
(* rotation revokes the previous one before it mints, and an exchange that *)
(* was taken over undoes itself, whatever fails or crashes.                *)
SingleBearer ==
    \A r, s \in Request :
       Delivered(r) /\ Delivered(s) /\ session[r] = "live" /\ session[s] = "live" => r = s

(* The live bearer a browser holds is the one the grant names, so that the *)
(* next rotation revokes it: "a stale worker that lost its lease observes  *)
(* a newer generation and leaves the winner's grant untouched"             *)
(* (service.rs), and no loser of a race removes it.                        *)
BearerIsRecorded ==
    \A r \in Request : Delivered(r) /\ session[r] = "live" => grant.session = r

(* A request that arrives after a logout has returned gets no session: the *)
(* handoff token's holder cannot mint a new one.                           *)
LogoutClosesReplay ==
    \A r \in Request : Delivered(r) => ~exchange[r].late

(* The exchange's bearers: one live at a time, known to the grant, and     *)
(* none for who comes after a logout.                                      *)
BearersAreFenced == SingleBearer /\ BearerIsRecorded /\ LogoutClosesReplay
=============================================================================
