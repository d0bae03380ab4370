----------------------- MODULE IdempotentRequestsProofs -----------------------
(***************************************************************************)
(* Proofs about the callers of the idempotency store, for any number of    *)
(* requests, keys and instants.                                            *)
(*                                                                         *)
(* A claim is only as good as its age: a slow holder is not told that it   *)
(* was taken over until it settles.  What makes the answers agree all the  *)
(* same is that a request that may still succeed either holds the entry or *)
(* began StaleAfter before now (HoldsOrLate), that a completed entry is    *)
(* never replaced (AnswerKept), and that a reply's fingerprint names the   *)
(* revision it was based on (MessagesOld).                                 *)
(*                                                                         *)
(* A session exchange has no such fence: there the argument is that one    *)
(* request at a time is in a first exchange, as long as none outlives its  *)
(* claim, and that a rotation needs the record the first exchange leaves.  *)
(***************************************************************************)
EXTENDS IdempotentRequests, TLAPS

-----------------------------------------------------------------------------
(* The store.                                                              *)

InProgressEntry ==
    [state : {"in_progress"}, fingerprint : Fingerprint, lease : Request,
     started_at : 0..Horizon]

CompletedEntry ==
    [state : {"completed"}, fingerprint : Fingerprint, response : Response]

Entry_ == {AbsentEntry} \cup InProgressEntry \cup CompletedEntry

StoreTyped == now \in 0..Horizon /\ entries \in [Key -> Entry_]

(* The values an entry can be set to.                                      *)
LEMMA EntryValues ==
    ASSUME now \in 0..Horizon, NEW f \in Fingerprint, NEW r \in Request, NEW v \in Response
    PROVE  /\ InProgress(f, r) \in Entry_
           /\ Completed(f, v) \in Entry_
           /\ AbsentEntry \in Entry_
           /\ InProgress(f, r) # AbsentEntry
           /\ Completed(f, v) # AbsentEntry
BY DEF InProgress, Completed, AbsentEntry, Entry_, InProgressEntry, CompletedEntry

(* An entry is absent, a claim or a record, and its fields tell which.     *)
LEMMA EntryKinds ==
    ASSUME NEW e \in Entry_
    PROVE  /\ e.state \in {"absent", "in_progress", "completed"}
           /\ e.state = "absent" <=> e = AbsentEntry
           /\ e.state = "in_progress" =>
                 e.fingerprint \in Fingerprint /\ e.lease \in Request /\ e.started_at \in 0..Horizon
           /\ e.state = "completed" =>
                 /\ e.fingerprint \in Fingerprint /\ e.response \in Response
                 /\ e = Completed(e.fingerprint, e.response)
BY DEF AbsentEntry, Entry_, InProgressEntry, CompletedEntry, Completed

(* A step of the store touches one entry; a claim is made by begin, a      *)
(* record by the holder of the claim.                                      *)
Touches(k) ==
    /\ now' = now
    /\ \A i \in Key : i # k => entries'[i] = entries[i]

LEMMA BeginStep ==
    ASSUME StoreTyped, NEW k \in Key, NEW f \in Fingerprint, NEW r \in Request,
           begin(k, f, r), now' = now
    PROVE  /\ StoreTyped' /\ Touches(k)
           /\ BeginOutcome(k, f) = "started" => entries'[k] = InProgress(f, r)
           /\ BeginOutcome(k, f) # "started" => entries' = entries
<1>1. InProgress(f, r) \in Entry_
  BY EntryValues, IdempotencyAssumption DEF StoreTyped
<1> QED
  BY <1>1 DEF begin, StoreTyped, Touches

LEMMA CompleteStep ==
    ASSUME StoreTyped, NEW k \in Key, NEW f \in Fingerprint, NEW r \in Request,
           NEW v \in Response, complete(k, f, r, v), now' = now
    PROVE  /\ StoreTyped' /\ Touches(k)
           /\ Holds(k, f, r) => entries'[k] = Completed(f, v)
           /\ ~Holds(k, f, r) => entries' = entries
<1>1. Completed(f, v) \in Entry_
  BY EntryValues, IdempotencyAssumption DEF StoreTyped
<1> QED
  BY <1>1 DEF complete, StoreTyped, Touches

LEMMA AbortStep ==
    ASSUME StoreTyped, NEW k \in Key, NEW f \in Fingerprint, NEW r \in Request,
           abort(k, f, r), now' = now
    PROVE  /\ StoreTyped' /\ Touches(k)
           /\ Holds(k, f, r) => entries'[k] = AbsentEntry
           /\ ~Holds(k, f, r) => entries' = entries
<1>1. AbsentEntry \in Entry_
  BY DEF Entry_
<1> QED
  BY <1>1 DEF abort, StoreTyped, Touches

LEMMA StoreTypedIsTypeOK == StoreTyped => StoreTypeOK
BY DEF StoreTyped, StoreTypeOK, Entry_, InProgressEntry, CompletedEntry

(* What begin decides, by the entry it finds.                              *)
LEMMA BeginCases ==
    ASSUME StoreTyped, NEW k \in Key, NEW f \in Fingerprint
    PROVE  /\ BeginOutcome(k, f) \in {"started", "conflict", "replay", "in_progress"}
           /\ BeginOutcome(k, f) = "started" =>
                 \/ entries[k] = AbsentEntry
                 \/ entries[k].state = "in_progress" /\ Stale(entries[k])
           /\ BeginOutcome(k, f) = "replay" =>
                 entries[k].state = "completed" /\ entries[k].fingerprint = f
           /\ entries[k] = AbsentEntry => BeginOutcome(k, f) = "started"
<1>1. entries[k] \in Entry_
  BY DEF StoreTyped
<1> QED
  BY <1>1, EntryKinds DEF BeginOutcome, AbsentEntry

-----------------------------------------------------------------------------
(* WaffoActions.                                                           *)

CallPc == {"begin", "claimed", "answered", "failed", "ok", "error", "lost"}

CallRecord(t) ==
    {NotCalled} \cup [pc : CallPc, key : ActionKey, value : Request, began : 0..t]

(* A call that may yet report what its own attempt was answered.           *)
Sending(c) ==
    \/ action[c].pc \in {"claimed", "answered"}
    \/ action[c].pc = "ok" /\ c \in received[action[c].key]

(* An entry of this client is a claim of the call that made it, or the     *)
(* record of a scope that carries no secret.                               *)
EntryOfCall(k) ==
    /\ entries[k] # AbsentEntry => entries[k].fingerprint = k
    /\ entries[k].state = "in_progress" =>
          LET c == entries[k].lease IN
          /\ action[c].pc \in {"claimed", "answered", "failed", "lost"}
          /\ action[c].key = k /\ action[c].began = entries[k].started_at
    /\ entries[k].state = "completed" => entries[k].response \in Request

(* Who may still succeed holds the claim or has had it for too long.       *)
HoldsOrLate(c) ==
    action[c].pc \in {"claimed", "answered"} =>
        \/ Holds(action[c].key, action[c].key, c)
        \/ action[c].began + StaleAfter <= now

(* The record of a success stays, and is what every success reports.       *)
AnswerKept(c) ==
    action[c].pc = "ok" /\ action[c].key \notin EphemeralKey =>
        entries[action[c].key] = Completed(action[c].key, action[c].value)

Apart(c, d) ==
    \/ action[c].began + StaleAfter <= action[d].began
    \/ action[d].began + StaleAfter <= action[c].began

SendingApart ==
    \A c, d \in Request :
        /\ c # d /\ Sending(c) /\ Sending(d)
        /\ action[c].key = action[d].key /\ action[c].key \notin EphemeralKey
        => Apart(c, d)

SentByCalls ==
    \A k \in ActionKey : \A c \in received[k] :
        /\ action[c] # NotCalled /\ action[c].key = k
        /\ action[c].pc \in {"answered", "failed", "ok", "error", "lost"}

WaffoInv ==
    /\ StoreTyped
    /\ action \in [Request -> CallRecord(now)]
    /\ received \in [ActionKey -> SUBSET Request]
    /\ \A k \in ActionKey : EntryOfCall(k)
    /\ \A c \in Request : HoldsOrLate(c) /\ AnswerKept(c)
    /\ SendingApart
    /\ SentByCalls

LEMMA CallKinds ==
    ASSUME NEW t \in Nat, NEW x \in CallRecord(t)
    PROVE  /\ x = NotCalled <=> x.pc = "idle"
           /\ x # NotCalled =>
                 x \in [pc : CallPc, key : ActionKey, value : Request, began : 0..t]
BY DEF CallRecord, NotCalled, CallPc

LEMMA WaffoInitInv == WaffoInit => WaffoInv
<1> SUFFICES ASSUME WaffoInit PROVE WaffoInv
  OBVIOUS
<1> USE DEF WaffoInit, StoreInit
<1>1. StoreTyped
  BY IdempotencyAssumption DEF StoreTyped, Entry_
<1>2. \A c \in Request : action[c] = NotCalled /\ action[c].pc = "idle"
  BY DEF NotCalled
<1>3. \A k \in ActionKey : entries[k] = AbsentEntry /\ entries[k].state = "absent"
  BY WaffoAssumption DEF AbsentEntry
<1>4. action \in [Request -> CallRecord(now)] /\ received \in [ActionKey -> SUBSET Request]
  BY DEF CallRecord
<1>5. \A k \in ActionKey : EntryOfCall(k)
  BY <1>3 DEF EntryOfCall
<1>6. \A c \in Request : ~Sending(c) /\ HoldsOrLate(c) /\ AnswerKept(c)
  BY <1>2 DEF Sending, HoldsOrLate, AnswerKept
<1>7. SendingApart /\ SentByCalls
  BY <1>6 DEF SendingApart, SentByCalls
<1> QED
  BY <1>1, <1>4, <1>5, <1>6, <1>7 DEF WaffoInv

(* What a caller's step leaves alone, if it touches one call and one entry *)
(* and sends nothing: the rest of the invariant is about others.           *)
LEMMA OthersKept ==
    ASSUME WaffoInv, NEW c \in Request, NEW k \in ActionKey,
           StoreTyped', Touches(k), UNCHANGED received,
           NEW x \in CallRecord(now), action' = [action EXCEPT ![c] = x]
    PROVE  /\ action' \in [Request -> CallRecord(now)]'
           /\ (received \in [ActionKey -> SUBSET Request])'
           /\ \A d \in Request : d # c =>
                 /\ action'[d] = action[d]
                 /\ Sending(d)' <=> Sending(d)
           /\ \A i \in ActionKey : i # k =>
                 /\ entries'[i] = entries[i]
                 /\ (entries[i].state = "in_progress" => entries[i].lease # c)
                       => EntryOfCall(i)'
           /\ \A d \in Request : d # c /\ (action[d] # NotCalled => action[d].key # k) =>
                 HoldsOrLate(d)' /\ AnswerKept(d)'
<1> k \in Key
  BY WaffoAssumption
<1>1. /\ action' \in [Request -> CallRecord(now)]'
      /\ (received \in [ActionKey -> SUBSET Request])'
  BY DEF WaffoInv, Touches
<1>2. \A d \in Request : d # c => action'[d] = action[d] /\ (Sending(d)' <=> Sending(d))
  BY DEF WaffoInv, Sending
<1>3. \A i \in ActionKey : i # k =>
         /\ entries'[i] = entries[i]
         /\ (entries[i].state = "in_progress" => entries[i].lease # c) => EntryOfCall(i)'
  <2> SUFFICES ASSUME NEW i \in ActionKey, i # k
               PROVE  /\ entries'[i] = entries[i]
                      /\ (entries[i].state = "in_progress" => entries[i].lease # c)
                            => EntryOfCall(i)'
    OBVIOUS
  <2>1. entries'[i] = entries[i] /\ entries[i] \in Entry_
    BY WaffoAssumption DEF Touches, WaffoInv, StoreTyped
  <2> QED
    BY <1>2, <2>1, EntryKinds DEF WaffoInv, EntryOfCall
<1>4. ASSUME NEW d \in Request, d # c, action[d] # NotCalled => action[d].key # k
      PROVE  HoldsOrLate(d)' /\ AnswerKept(d)'
  <2>1. CASE action[d] = NotCalled
    BY <1>2, <1>4, <2>1 DEF HoldsOrLate, AnswerKept, NotCalled
  <2>2. CASE action[d] # NotCalled
    <3>1. action[d].key \in ActionKey
      BY <2>2, CallKinds DEF WaffoInv, StoreTyped
    <3>2. entries'[action[d].key] = entries[action[d].key]
      BY <1>3, <1>4, <2>2, <3>1
    <3> QED
      BY <1>2, <1>4, <3>2 DEF WaffoInv, HoldsOrLate, AnswerKept, Holds, Touches
  <2> QED
    BY <2>1, <2>2
<1> QED
  BY <1>1, <1>2, <1>3, <1>4

(* A call that claims its entry: nobody else may still succeed under it,   *)
(* or has had the time.                                                    *)
LEMMA ClaimPreserves ==
    ASSUME WaffoInv, NEW c \in Request, NEW k \in ActionKey, NEW v \in Request,
           action[c] # NotCalled => action[c].pc = "begin" /\ action[c].key = k,
           BeginOutcome(k, k) = "started", begin(k, k, c),
           action' = [action EXCEPT
               ![c] = [pc |-> "claimed", key |-> k, value |-> v, began |-> now]],
           UNCHANGED <<now, received>>
    PROVE  WaffoInv'
<1> DEFINE x == [pc |-> "claimed", key |-> k, value |-> v, began |-> now]
<1>0. /\ k \in Key /\ k \in Fingerprint /\ StoreTyped /\ now \in Nat
      /\ entries[k] \in Entry_ /\ x \in CallRecord(now)
  BY WaffoAssumption, IdempotencyAssumption
  DEF WaffoInv, StoreTyped, CallRecord, CallPc
<1>1. StoreTyped' /\ Touches(k) /\ entries'[k] = InProgress(k, c)
  BY <1>0, BeginStep
<1>2. action'[c] = x /\ action[c] \in CallRecord(now)
  BY DEF WaffoInv
<1>3. /\ action[c].pc \in {"idle", "begin"}
      /\ \A i \in ActionKey : c \notin received[i]
  BY <1>2 DEF NotCalled, WaffoInv, SentByCalls
<1>4. /\ entries[k] # AbsentEntry =>
            entries[k].state = "in_progress" /\ Stale(entries[k])
      /\ entries[k].state # "completed"
  <2>1. \/ entries[k] = AbsentEntry
        \/ entries[k].state = "in_progress" /\ Stale(entries[k])
    BY <1>0, BeginCases
  <2> QED
    BY <2>1 DEF AbsentEntry
<1>11. \A d \in Request : ~(action[d].pc = "ok" /\ action[d].key = k /\ k \notin EphemeralKey)
  <2> SUFFICES ASSUME NEW d \in Request, action[d].pc = "ok", action[d].key = k, k \notin EphemeralKey
               PROVE  FALSE
    OBVIOUS
  <2>1. AnswerKept(d)
    BY DEF WaffoInv
  <2>2. entries[k] = Completed(k, action[d].value)
    BY <2>1 DEF AnswerKept
  <2> QED
    BY <1>4, <2>2 DEF Completed
<1> HIDE DEF x
<1>5. /\ action' \in [Request -> CallRecord(now)]'
      /\ (received \in [ActionKey -> SUBSET Request])'
      /\ \A d \in Request : d # c => action'[d] = action[d] /\ (Sending(d)' <=> Sending(d))
      /\ \A i \in ActionKey : i # k =>
            /\ entries'[i] = entries[i]
            /\ (entries[i].state = "in_progress" => entries[i].lease # c) => EntryOfCall(i)'
      /\ \A d \in Request : d # c /\ (action[d] # NotCalled => action[d].key # k) =>
            HoldsOrLate(d)' /\ AnswerKept(d)'
  BY <1>0, <1>1, OthersKept DEF x
<1>6. \A i \in ActionKey : EntryOfCall(i)'
  <2>1. EntryOfCall(k)'
    BY <1>1, <1>2 DEF EntryOfCall, InProgress, x
  <2>2. \A i \in ActionKey : entries[i].state = "in_progress" => entries[i].lease # c
    BY <1>3 DEF WaffoInv, EntryOfCall
  <2> QED
    BY <1>5, <2>1, <2>2
<1>7. ASSUME NEW d \in Request, d # c, action[d] # NotCalled, action[d].key = k,
             action[d].pc \in {"claimed", "answered"}
      PROVE  action[d].began + StaleAfter <= now
  <2>1. HoldsOrLate(d)
    BY DEF WaffoInv
  <2>2. CASE Holds(k, k, d)
    <3>1. entries[k].state = "in_progress" /\ entries[k].lease = d
      BY <2>2 DEF Holds
    <3>2. Stale(entries[k]) /\ action[d].began = entries[k].started_at
      BY <1>4, <3>1 DEF WaffoInv, EntryOfCall, AbsentEntry
    <3> QED
      BY <3>2 DEF Stale
  <2> QED
    BY <1>7, <2>1, <2>2 DEF HoldsOrLate
<1>8. \A d \in Request : HoldsOrLate(d)' /\ AnswerKept(d)'
  <2> TAKE d \in Request
  <2>1. CASE d = c
    BY <1>1, <1>2, <2>1 DEF HoldsOrLate, AnswerKept, Holds, InProgress, x
  <2>2. CASE d # c /\ action[d] # NotCalled /\ action[d].key = k
    <3>1. HoldsOrLate(d)'
      BY <1>5, <1>7, <2>2 DEF HoldsOrLate
    <3>2. ~(action[d].pc = "ok" /\ k \notin EphemeralKey)
      BY <1>11, <2>2
    <3> QED
      BY <1>5, <2>2, <3>1, <3>2 DEF AnswerKept
  <2> QED
    BY <1>5, <2>1, <2>2
<1>9. SendingApart'
  <2>1. ASSUME NEW d \in Request, d # c, Sending(d), action[d].key = k, k \notin EphemeralKey
        PROVE  action[d].began + StaleAfter <= now
    <3>1. ~(action[d].pc = "ok")
      BY <1>11, <2>1
    <3> QED
      BY <1>7, <2>1, <3>1 DEF Sending, NotCalled
  <2> SUFFICES ASSUME NEW d \in Request, NEW e \in Request, d # e, Sending(d)', Sending(e)',
                      action'[d].key = action'[e].key, action'[d].key \notin EphemeralKey
               PROVE  Apart(d, e)'
    BY DEF SendingApart
  <2>2. CASE d # c /\ e # c
    BY <1>5, <2>2 DEF WaffoInv, SendingApart, Apart
  <2>3. CASE d = c
    BY <1>2, <1>5, <2>1, <2>3 DEF Apart, x
  <2>4. CASE e = c
    BY <1>2, <1>5, <2>1, <2>4 DEF Apart, x
  <2> QED
    BY <2>2, <2>3, <2>4
<1>10. SentByCalls'
  BY <1>3, <1>5 DEF WaffoInv, SentByCalls
<1> QED
  BY <1>1, <1>5, <1>6, <1>8, <1>9, <1>10 DEF WaffoInv

(* A call that moves on and leaves the store alone: it keeps what it       *)
(* claimed, and reports a success only from the record.                    *)
LEMMA MovePreserves ==
    ASSUME WaffoInv, NEW c \in Request, NEW k \in ActionKey, NEW x \in CallRecord(now),
           x # NotCalled, x.key = k,
           action[c] # NotCalled => action[c].key = k /\ action[c].began = x.began,
           action[c].pc \in {"claimed", "answered", "failed", "lost"}
                => x.pc \in {"claimed", "answered", "failed", "lost"},
           x.pc \in {"claimed", "answered"} => action[c].pc \in {"claimed", "answered"},
           x.pc = "ok" => c \notin received[k] /\ entries[k] = Completed(k, x.value),
           received' \in [ActionKey -> SUBSET Request],
           \A i \in ActionKey : \A d \in Request : d # c => (d \in received'[i] <=> d \in received[i]),
           \A i \in ActionKey : i # k => (c \in received'[i] <=> c \in received[i]),
           x.pc = "ok" => c \notin received'[k],
           c \in received'[k] => x.pc \in {"answered", "failed", "ok", "error", "lost"},
           action' = [action EXCEPT ![c] = x], UNCHANGED <<entries, now>>
    PROVE  WaffoInv'
<1>1. action' \in [Request -> CallRecord(now)] /\ action'[c] = x /\ action[c] \in CallRecord(now)
  BY DEF WaffoInv
<1>2. \A d \in Request : d # c => action'[d] = action[d]
  BY DEF WaffoInv
<1>3. now \in Nat /\ (\A d \in Request : action[d] # NotCalled => action[d].key \in ActionKey)
  BY CallKinds, IdempotencyAssumption DEF WaffoInv, StoreTyped
<1>4. \A i \in ActionKey : EntryOfCall(i)'
  <2> TAKE i \in ActionKey
  <2>1. EntryOfCall(i)
    BY DEF WaffoInv
  <2>2. CASE entries[i].state = "in_progress" /\ entries[i].lease = c
    <3>1. /\ action[c].pc \in {"claimed", "answered", "failed", "lost"}
          /\ action[c].key = i /\ action[c].began = entries[i].started_at
      BY <2>1, <2>2 DEF EntryOfCall
    <3>2. action[c] # NotCalled
      BY <3>1 DEF NotCalled
    <3> QED
      BY <1>1, <2>1, <2>2, <3>1, <3>2 DEF EntryOfCall, AbsentEntry
  <2>3. CASE entries[i].state = "in_progress" /\ entries[i].lease # c
    <3>1. entries[i] \in Entry_
      BY WaffoAssumption DEF WaffoInv, StoreTyped
    <3>2. entries[i].lease \in Request
      BY <2>3, <3>1, EntryKinds
    <3> QED
      BY <1>2, <2>1, <2>3, <3>2 DEF EntryOfCall
  <2>4. CASE entries[i].state # "in_progress"
    BY <2>1, <2>4 DEF EntryOfCall
  <2> QED
    BY <2>2, <2>3, <2>4
<1>5. \A d \in Request : HoldsOrLate(d)' /\ AnswerKept(d)'
  <2> TAKE d \in Request
  <2>1. HoldsOrLate(d) /\ AnswerKept(d)
    BY DEF WaffoInv
  <2>2. CASE d # c
    BY <1>2, <2>1, <2>2 DEF HoldsOrLate, AnswerKept, Holds
  <2>3. CASE d = c
    <3>1. AnswerKept(c)'
      BY <1>1 DEF AnswerKept
    <3>2. HoldsOrLate(c)'
      <4>1. CASE x.pc \in {"claimed", "answered"}
        <5>1. action[c] # NotCalled
          BY <4>1 DEF NotCalled
        <5> QED
          BY <1>1, <2>1, <2>3, <4>1, <5>1 DEF HoldsOrLate, Holds
      <4>2. CASE x.pc \notin {"claimed", "answered"}
        BY <1>1, <4>2 DEF HoldsOrLate
      <4> QED
        BY <4>1, <4>2
    <3> QED
      BY <2>3, <3>1, <3>2
  <2> QED
    BY <2>2, <2>3
<1>6. \A d \in Request : Sending(d)' => Sending(d) /\ action'[d].key = action[d].key
                                          /\ action'[d].began = action[d].began
  <2> SUFFICES ASSUME NEW d \in Request, Sending(d)'
               PROVE  Sending(d) /\ action'[d].key = action[d].key /\ action'[d].began = action[d].began
    OBVIOUS
  <2>1. CASE d # c
    <3>1. action'[d] = action[d] /\ action[d] # NotCalled
      BY <1>2, <2>1 DEF Sending, NotCalled
    <3> QED
      BY <1>3, <2>1, <3>1 DEF Sending
  <2>2. CASE d = c
    <3>1. x.pc \in {"claimed", "answered"}
      BY <1>1, <2>2 DEF Sending
    <3>2. action[c] # NotCalled
      BY <3>1 DEF NotCalled
    <3> QED
      BY <1>1, <2>2, <3>1, <3>2 DEF Sending
  <2> QED
    BY <2>1, <2>2
<1>7. SendingApart'
  BY <1>6 DEF WaffoInv, SendingApart, Apart
<1>8. SentByCalls'
  <2> SUFFICES ASSUME NEW i \in ActionKey, NEW d \in received'[i]
               PROVE  /\ action'[d] # NotCalled /\ action'[d].key = i
                      /\ action'[d].pc \in {"answered", "failed", "ok", "error", "lost"}
    BY DEF SentByCalls
  <2>0. d \in Request
    OBVIOUS
  <2>1. CASE d # c
    BY <1>2, <2>0, <2>1 DEF WaffoInv, SentByCalls
  <2>2. CASE d = c /\ i = k
    BY <1>1, <2>2
  <2>3. CASE d = c /\ i # k
    BY <2>3 DEF WaffoInv, SentByCalls
  <2> QED
    BY <2>1, <2>2, <2>3
<1> QED
  BY <1>1, <1>4, <1>5, <1>7, <1>8 DEF WaffoInv, StoreTyped

(* A call that settles its claim, if it still has it: the entry is         *)
(* released, or becomes the record of a scope that may be replayed.        *)
LEMMA SettlePreserves ==
    ASSUME WaffoInv, NEW c \in Request, action[c].pc \in {"answered", "failed"},
           NEW k \in ActionKey, action[c].key = k,
           NEW x \in CallRecord(now), x.key = k, x.began = action[c].began, x.value = c,
           x.pc \in {"ok", "error"}, x.pc = "ok" => action[c].pc = "answered",
           StoreTyped', Touches(k),
           Holds(k, k, c) => \/ /\ entries'[k] = AbsentEntry
                                /\ x.pc = "ok" => k \in EphemeralKey
                             \/ entries'[k] = Completed(k, c),
           ~Holds(k, k, c) => entries' = entries /\ x.pc = "error",
           action' = [action EXCEPT ![c] = x], UNCHANGED received
    PROVE  WaffoInv'
<1>0. /\ action'[c] = x /\ action[c] \in CallRecord(now) /\ action[c] # NotCalled
      /\ x # NotCalled /\ now \in Nat /\ now' = now /\ k \in Key /\ entries[k] \in Entry_
  BY WaffoAssumption, IdempotencyAssumption
  DEF WaffoInv, NotCalled, Touches, StoreTyped
<1>1. /\ action' \in [Request -> CallRecord(now)]'
      /\ (received \in [ActionKey -> SUBSET Request])'
      /\ \A d \in Request : d # c => action'[d] = action[d] /\ (Sending(d)' <=> Sending(d))
      /\ \A i \in ActionKey : i # k =>
            /\ entries'[i] = entries[i]
            /\ (entries[i].state = "in_progress" => entries[i].lease # c) => EntryOfCall(i)'
      /\ \A d \in Request : d # c /\ (action[d] # NotCalled => action[d].key # k) =>
            HoldsOrLate(d)' /\ AnswerKept(d)'
  BY OthersKept
<1>2. /\ entries[k].state = "in_progress" /\ entries[k].lease = c => Holds(k, k, c)
      /\ \A i \in ActionKey : i # k /\ entries[i].state = "in_progress" => entries[i].lease # c
  BY DEF WaffoInv, EntryOfCall, Holds, AbsentEntry
<1>3. \A i \in ActionKey : EntryOfCall(i)'
  <2>1. CASE Holds(k, k, c)
    <3>1. EntryOfCall(k)'
      BY <2>1 DEF EntryOfCall, Completed, AbsentEntry
    <3> QED
      BY <1>1, <1>2, <3>1
  <2>2. CASE ~Holds(k, k, c)
    <3>1. entries'[k] = entries[k] /\ EntryOfCall(k)
      BY <2>2 DEF WaffoInv
    <3>2. entries[k].state = "in_progress" => entries[k].lease \in Request \ {c}
      BY <1>0, <1>2, <2>2, EntryKinds
    <3>3. EntryOfCall(k)'
      BY <1>1, <3>1, <3>2 DEF EntryOfCall
    <3> QED
      BY <1>1, <1>2, <3>3
  <2> QED
    BY <2>1, <2>2
<1>4. \A d \in Request : HoldsOrLate(d)' /\ AnswerKept(d)'
  <2> TAKE d \in Request
  <2>0. HoldsOrLate(d) /\ AnswerKept(d)
    BY DEF WaffoInv
  <2>1. CASE d = c
    <3>1. HoldsOrLate(c)'
      BY <1>0 DEF HoldsOrLate
    <3>2. AnswerKept(c)'
      BY <1>0 DEF AnswerKept
    <3> QED
      BY <2>1, <3>1, <3>2
  <2>2. CASE d # c /\ action[d] # NotCalled /\ action[d].key = k
    <3>1. CASE Holds(k, k, c)
      <4>1. ~Holds(k, k, d) /\ entries[k].state = "in_progress"
        BY <2>2, <3>1 DEF Holds
      <4>2. ~(action[d].pc = "ok" /\ k \notin EphemeralKey)
        BY <2>0, <2>2, <4>1 DEF AnswerKept, Completed
      <4> QED
        BY <1>0, <1>1, <2>0, <2>2, <4>1, <4>2 DEF HoldsOrLate, AnswerKept
    <3>2. CASE ~Holds(k, k, c)
      BY <1>0, <1>1, <2>0, <2>2, <3>2 DEF HoldsOrLate, AnswerKept, Holds
    <3> QED
      BY <3>1, <3>2
  <2> QED
    BY <1>1, <2>1, <2>2
<1>5. SendingApart'
  <2>1. \A d \in Request : Sending(d)' => Sending(d) /\ action'[d].key = action[d].key
                                           /\ action'[d].began = action[d].began
    <3> SUFFICES ASSUME NEW d \in Request, Sending(d)'
                 PROVE  Sending(d) /\ action'[d].key = action[d].key /\ action'[d].began = action[d].began
      OBVIOUS
    <3>1. CASE d # c
      BY <1>1, <3>1
    <3>2. CASE d = c
      BY <1>0, <3>2 DEF Sending
    <3> QED
      BY <3>1, <3>2
  <2> QED
    BY <2>1 DEF WaffoInv, SendingApart, Apart
<1>6. SentByCalls'
  <2> SUFFICES ASSUME NEW i \in ActionKey, NEW d \in received[i]
               PROVE  /\ action'[d] # NotCalled /\ action'[d].key = i
                      /\ action'[d].pc \in {"answered", "failed", "ok", "error", "lost"}
    BY DEF SentByCalls
  <2>1. d \in Request /\ action[d] # NotCalled /\ action[d].key = i
        /\ action[d].pc \in {"answered", "failed", "ok", "error", "lost"}
    BY DEF WaffoInv, SentByCalls
  <2> QED
    BY <1>0, <1>1, <2>1
<1> QED
  BY <1>1, <1>3, <1>4, <1>5, <1>6 DEF WaffoInv

(* Time makes late holders of more of them, and nothing else.              *)
LEMMA TickPreserves ==
    ASSUME WaffoInv, Tick, UNCHANGED <<action, received>>
    PROVE  WaffoInv'
<1>1. now \in Nat /\ now' = now + 1 /\ now' \in 0..Horizon /\ entries' = entries
  BY IdempotencyAssumption DEF WaffoInv, StoreTyped, Tick
<1>2. action' \in [Request -> CallRecord(now')]
  <2>1. CallRecord(now) \subseteq CallRecord(now')
    BY <1>1 DEF CallRecord
  <2> QED
    BY <2>1 DEF WaffoInv
<1>3. ASSUME NEW d \in Request
      PROVE  HoldsOrLate(d)' /\ AnswerKept(d)'
  <2>1. HoldsOrLate(d) /\ AnswerKept(d) /\ action[d] \in CallRecord(now)
    BY DEF WaffoInv
  <2>2. action[d].pc \in {"claimed", "answered"} => action[d].began \in Nat
    BY <1>1, <2>1 DEF CallRecord, NotCalled
  <2> QED
    BY <1>1, <2>1, <2>2, IdempotencyAssumption DEF HoldsOrLate, AnswerKept, Holds
<1> QED
  BY <1>1, <1>2, <1>3
  DEF WaffoInv, StoreTyped, EntryOfCall, SendingApart, Apart, Sending, SentByCalls

(* A later stage of a call keeps what it was called for.                   *)
LEMMA CallMoves ==
    ASSUME WaffoInv, NEW c \in Request, action[c] # NotCalled, NEW pc \in CallPc, NEW v \in Request,
           CallReturn(c, pc, v) \/ (CallTo(c, pc) /\ v = action[c].value)
    PROVE  /\ action[c].key \in ActionKey
           /\ \E x \in CallRecord(now) :
                 /\ action' = [action EXCEPT ![c] = x] /\ x # NotCalled
                 /\ x.pc = pc /\ x.value = v /\ x.key = action[c].key /\ x.began = action[c].began
<1>1. action[c] \in [pc : CallPc, key : ActionKey, value : Request, began : 0..now]
  BY CallKinds DEF WaffoInv, CallRecord
<1>2. action \in [Request -> CallRecord(now)]
  BY DEF WaffoInv
<1> DEFINE x == [pc |-> pc, key |-> action[c].key, value |-> v, began |-> action[c].began]
<1>3. x \in CallRecord(now) /\ x # NotCalled
  BY <1>1 DEF CallRecord, NotCalled
<1>4. action' = [action EXCEPT ![c] = x]
  BY <1>1, <1>2 DEF CallReturn, CallTo
<1> QED
  BY <1>1, <1>3, <1>4

(* What a call is between its first and last step.                         *)
LEMMA CallFields ==
    ASSUME WaffoInv, NEW c \in Request, action[c].pc # "idle"
    PROVE  /\ action[c] # NotCalled /\ action[c].pc \in CallPc
           /\ action[c].key \in ActionKey /\ action[c].value \in Request /\ action[c].began \in 0..now
           /\ action[c].key \in Key /\ action[c].key \in Fingerprint
           /\ StoreTyped /\ action \in [Request -> CallRecord(now)]
           /\ received \in [ActionKey -> SUBSET Request]
<1>1. action[c] \in [pc : CallPc, key : ActionKey, value : Request, began : 0..now]
  BY CallKinds DEF WaffoInv, CallRecord, NotCalled
<1> QED
  BY <1>1, WaffoAssumption DEF WaffoInv, NotCalled

LEMMA CallBeginPreserves ==
    ASSUME WaffoInv, NEW c \in Request, NEW k \in ActionKey, CallBegin(c, k)
    PROVE  WaffoInv'
<1>0. k \in Key /\ k \in Fingerprint /\ now \in Nat /\ StoreTyped /\ action[c] = NotCalled
  BY WaffoAssumption, IdempotencyAssumption DEF WaffoInv, StoreTyped, CallBegin
<1>1. CASE InsertClaims(k)
  <2>1. BeginOutcome(k, k) = "started"
    BY <1>0, <1>1, BeginCases DEF InsertClaims
  <2> QED
    BY <1>1, <2>1, ClaimPreserves DEF CallBegin
<1>2. CASE ~InsertClaims(k)
  <2> DEFINE x == [pc |-> "begin", key |-> k, value |-> c, began |-> now]
  <2>1. x \in CallRecord(now) /\ x # NotCalled /\ x.pc = "begin" /\ x.key = k
    BY <1>0 DEF CallRecord, CallPc, NotCalled
  <2>2. /\ action' = [action EXCEPT ![c] = x]
        /\ UNCHANGED <<entries, now, received>>
    BY <1>2 DEF CallBegin
  <2>3. action[c].pc = "idle" /\ (\A i \in ActionKey : c \notin received[i])
    BY <1>0 DEF WaffoInv, SentByCalls, NotCalled
  <2> HIDE DEF x
  <2> QED
    BY <1>0, <2>1, <2>2, <2>3, MovePreserves DEF WaffoInv
<1> QED
  BY <1>1, <1>2

LEMMA BeginFoundPreserves ==
    ASSUME WaffoInv, NEW c \in Request, BeginFound(c)
    PROVE  WaffoInv'
<1> DEFINE k == action[c].key
<1>0. /\ action[c].pc = "begin" /\ action[c] # NotCalled /\ k \in ActionKey
      /\ action[c].value \in Request /\ k \in Key /\ k \in Fingerprint
      /\ StoreTyped /\ entries[k] \in Entry_
      /\ \A i \in ActionKey : c \notin received[i]
  <2>1. action[c].pc = "begin" /\ action[c] # NotCalled /\ action[c] \in CallRecord(now)
    BY DEF BeginFound, NotCalled, WaffoInv
  <2>2. k \in ActionKey /\ action[c].value \in Request
    BY <2>1 DEF CallRecord
  <2> QED
    BY <2>1, <2>2, WaffoAssumption DEF WaffoInv, SentByCalls, StoreTyped
<1>1. ASSUME NEW pc \in {"error", "ok"}, NEW v \in Request, CallReturn(c, pc, v),
             UNCHANGED <<entries, now, received>>,
             pc = "ok" => entries[k] = Completed(k, v)
      PROVE  WaffoInv'
  <2>0. pc \in CallPc
    BY DEF CallPc
  <2>1. PICK x \in CallRecord(now) :
          /\ action' = [action EXCEPT ![c] = x] /\ x # NotCalled
          /\ x.pc = pc /\ x.value = v /\ x.key = k /\ x.began = action[c].began
    BY <1>0, <1>1, <2>0, CallMoves
  <2> HIDE DEF k
  <2> QED
    BY <1>0, <1>1, <2>1, MovePreserves DEF WaffoInv, k
<1>2. CASE InsertClaims(k) /\ CallReturn(c, "error", c) /\ UNCHANGED <<entries, now, received>>
  BY <1>1, <1>2
<1>3. CASE CallReturn(c, "error", c) /\ UNCHANGED <<entries, now, received>>
  BY <1>1, <1>3
<1>4. CASE /\ BeginOutcome(k, k) = "replay"
           /\ CallReturn(c, "ok", entries[k].response) /\ UNCHANGED <<entries, now, received>>
  <2>1. entries[k].state = "completed" /\ entries[k].fingerprint = k
    BY <1>0, <1>4, BeginCases
  <2>2. entries[k] = Completed(k, entries[k].response) /\ entries[k].response \in Request
    BY <1>0, <2>1, EntryKinds DEF WaffoInv, EntryOfCall
  <2> QED
    BY <1>1, <1>4, <2>2
<1>5. CASE /\ BeginOutcome(k, k) = "started" /\ begin(k, k, c)
           /\ action' = [action EXCEPT ![c] = [@ EXCEPT !.pc = "claimed", !.began = now]]
           /\ UNCHANGED <<now, received>>
  <2>1. action[c] \in [pc : CallPc, key : ActionKey, value : Request, began : 0..now]
    BY <1>0, CallKinds DEF WaffoInv, CallRecord
  <2>3. action \in [Request -> CallRecord(now)]
    BY DEF WaffoInv
  <2>2. action' = [action EXCEPT
            ![c] = [pc |-> "claimed", key |-> k, value |-> action[c].value, began |-> now]]
    <3> DEFINE x == [pc |-> "claimed", key |-> k, value |-> action[c].value, began |-> now]
    <3>1. x \in [pc : CallPc, key : ActionKey, value : Request, began : 0..now]
      BY <1>0, <2>1, IdempotencyAssumption DEF CallPc, StoreTyped
    <3>2. action' = [action EXCEPT ![c] = [@ EXCEPT !.pc = "claimed", !.began = now]]
      BY <1>5
    <3>3. action'[c] = x
      BY <2>1, <2>3, <3>2
    <3> HIDE DEF x
    <3> QED
      BY <2>3, <3>2, <3>3 DEF x
  <2> HIDE DEF k
  <2> QED
    BY <1>0, <1>5, <2>2, ClaimPreserves DEF k
<1> QED
  BY <1>2, <1>3, <1>4, <1>5 DEF BeginFound

LEMMA PostSignedPreserves ==
    ASSUME WaffoInv, NEW c \in Request, PostSigned(c)
    PROVE  WaffoInv'
<1> DEFINE k == action[c].key
<1>0. /\ action[c].pc = "claimed" /\ action[c] # NotCalled /\ k \in ActionKey
      /\ received \in [ActionKey -> SUBSET Request] /\ action[c].value \in Request
  BY CallFields DEF PostSigned
<1>1. ASSUME NEW pc \in {"answered", "failed"}, CallTo(c, pc), UNCHANGED <<entries, now>>,
             received' = [received EXCEPT ![k] = @ \cup {c}] \/ (pc = "failed" /\ received' = received)
      PROVE  WaffoInv'
  <2>0. pc \in CallPc
    BY DEF CallPc
  <2>1. PICK x \in CallRecord(now) :
          /\ action' = [action EXCEPT ![c] = x] /\ x # NotCalled
          /\ x.pc = pc /\ x.key = k /\ x.began = action[c].began
    BY <1>0, <1>1, <2>0, CallMoves
  <2>2. /\ received' \in [ActionKey -> SUBSET Request]
        /\ \A i \in ActionKey : \A d \in Request : d # c => (d \in received'[i] <=> d \in received[i])
        /\ \A i \in ActionKey : i # k => (c \in received'[i] <=> c \in received[i])
    BY <1>0, <1>1
  <2> HIDE DEF k
  <2> QED
    BY <1>0, <1>1, <2>1, <2>2, MovePreserves DEF k
<1> QED
  BY <1>1 DEF PostSigned

LEMMA SettleOrReleasePreserves ==
    ASSUME WaffoInv, NEW c \in Request, SettleAction(c) \/ Release(c)
    PROVE  WaffoInv'
<1> DEFINE k == action[c].key
<1>0. /\ action[c].pc \in {"answered", "failed"} /\ action[c] # NotCalled
      /\ k \in ActionKey /\ k \in Key /\ k \in Fingerprint /\ c \in Response
      /\ StoreTyped /\ UNCHANGED <<now, received>>
  <2>1. action[c].pc \in {"answered", "failed"} /\ UNCHANGED <<now, received>>
    BY DEF SettleAction, Release
  <2> QED
    BY <2>1, CallFields, IdempotencyAssumption
<1>1. ASSUME NEW pc \in {"ok", "error"}, CallReturn(c, pc, c),
             pc = "ok" => action[c].pc = "answered",
             StoreTyped', Touches(k),
             Holds(k, k, c) => \/ /\ entries'[k] = AbsentEntry
                                  /\ pc = "ok" => k \in EphemeralKey
                               \/ entries'[k] = Completed(k, c),
             ~Holds(k, k, c) => entries' = entries /\ pc = "error"
      PROVE  WaffoInv'
  <2>0. pc \in CallPc
    BY DEF CallPc
  <2>1. PICK x \in CallRecord(now) :
          /\ action' = [action EXCEPT ![c] = x]
          /\ x.pc = pc /\ x.value = c /\ x.key = k /\ x.began = action[c].began
    BY <1>0, <1>1, <2>0, CallMoves
  <2> HIDE DEF k
  <2> QED
    BY <1>0, <1>1, <2>1, SettlePreserves DEF k
<1>2. CASE SettleAction(c) /\ Ephemeral(c)
  <2>1. abort(k, k, c) /\ CallReturn(c, IF Holds(k, k, c) THEN "ok" ELSE "error", c)
        /\ action[c].pc = "answered" /\ k \in EphemeralKey
    BY <1>2 DEF SettleAction, Ephemeral
  <2>2. /\ StoreTyped' /\ Touches(k)
        /\ Holds(k, k, c) => entries'[k] = AbsentEntry
        /\ ~Holds(k, k, c) => entries' = entries
    BY <1>0, <2>1, AbortStep
  <2> QED
    BY <1>1, <2>1, <2>2
<1>3. CASE SettleAction(c) /\ ~Ephemeral(c)
  <2>1. complete(k, k, c, c) /\ CallReturn(c, IF Holds(k, k, c) THEN "ok" ELSE "error", c)
        /\ action[c].pc = "answered"
    BY <1>3 DEF SettleAction
  <2>2. /\ StoreTyped' /\ Touches(k)
        /\ Holds(k, k, c) => entries'[k] = Completed(k, c)
        /\ ~Holds(k, k, c) => entries' = entries
    BY <1>0, <2>1, CompleteStep
  <2> QED
    BY <1>1, <2>1, <2>2
<1>4. CASE Release(c)
  <2>1. abort(k, k, c) /\ CallReturn(c, "error", c)
    BY <1>4 DEF Release
  <2>2. /\ StoreTyped' /\ Touches(k)
        /\ Holds(k, k, c) => entries'[k] = AbsentEntry
        /\ ~Holds(k, k, c) => entries' = entries
    BY <1>0, <2>1, AbortStep
  <2> QED
    BY <1>1, <2>1, <2>2
<1> QED
  BY <1>2, <1>3, <1>4

LEMMA CallLostPreserves ==
    ASSUME WaffoInv, NEW c \in Request, CallLost(c)
    PROVE  WaffoInv'
<1> DEFINE k == action[c].key
<1>1. /\ action[c].pc \in {"claimed", "answered", "failed"} /\ action[c] # NotCalled
      /\ k \in ActionKey /\ action[c].value \in Request
      /\ CallTo(c, "lost") /\ UNCHANGED <<entries, now, received>>
  BY CallFields DEF CallLost
<1>2. PICK x \in CallRecord(now) :
        /\ action' = [action EXCEPT ![c] = x] /\ x # NotCalled
        /\ x.pc = "lost" /\ x.key = k /\ x.began = action[c].began
  BY <1>1, CallMoves DEF CallPc
<1> HIDE DEF k
<1> QED
  BY <1>1, <1>2, MovePreserves DEF WaffoInv, k

LEMMA WaffoStep ==
    ASSUME WaffoInv, [WaffoNext]_waffoVars
    PROVE  WaffoInv'
<1>1. CASE WaffoNext
  BY <1>1, CallBeginPreserves, BeginFoundPreserves, PostSignedPreserves,
     SettleOrReleasePreserves, CallLostPreserves, TickPreserves DEF WaffoNext
<1>2. CASE UNCHANGED waffoVars
  BY <1>2 DEF waffoVars, WaffoInv, StoreTyped, EntryOfCall, HoldsOrLate, Holds, AnswerKept,
              SendingApart, Sending, Apart, SentByCalls
<1> QED
  BY <1>1, <1>2

(* What the invariant says of the answers.                                 *)
LEMMA WaffoAnswers ==
    ASSUME WaffoInv
    PROVE  WaffoTypeOK /\ ActionAnsweredOnce
<1>1. WaffoTypeOK
  BY StoreTypedIsTypeOK, CallFields, CallKinds DEF WaffoTypeOK, WaffoInv, StoreTyped, CallRecord
<1>2. OneAnswerPerScope
  <2> SUFFICES ASSUME NEW c \in Request, NEW d \in Request, action[c].pc = "ok", action[d].pc = "ok",
                      action[c].key = action[d].key, ~Ephemeral(c)
               PROVE  action[c].value = action[d].value
    BY DEF OneAnswerPerScope
  <2>1. /\ entries[action[c].key] = Completed(action[c].key, action[c].value)
        /\ entries[action[c].key] = Completed(action[c].key, action[d].value)
    BY DEF WaffoInv, AnswerKept, Ephemeral
  <2> QED
    BY <2>1 DEF Completed
<1>3. SecondSendHasCause
  <2> SUFFICES ASSUME NEW k \in ActionKey \ EphemeralKey, NEW c \in received[k], NEW d \in received[k],
                      action[c].pc \in {"answered", "ok"}, action[d].pc \in {"answered", "ok"}, c # d
               PROVE  Apart(c, d)
    BY DEF SecondSendHasCause, Apart
  <2>1. c \in Request /\ d \in Request /\ action[c].key = k /\ action[d].key = k
    BY DEF WaffoInv, SentByCalls
  <2>2. Sending(c) /\ Sending(d)
    BY <2>1 DEF Sending
  <2> QED
    BY <2>1, <2>2 DEF WaffoInv, SendingApart
<1> QED
  BY <1>1, <1>2, <1>3 DEF ActionAnsweredOnce

(* Once a scope has its record no call of it is claimed again.             *)
LEMMA NoStart ==
    ASSUME WaffoInv, [WaffoNext]_waffoVars, NEW c \in Request, NEW d \in Request,
           action[c].pc # "claimed", action'[c].pc = "claimed", action'[c].key \notin EphemeralKey,
           action[d].pc = "ok"
    PROVE  action[d].key # action'[c].key
<1>0. action \in [Request -> CallRecord(now)] /\ StoreTyped
  BY DEF WaffoInv
<1>1. action' # action
  OBVIOUS
<1>2. PICK e \in Request :
        \/ \E k \in ActionKey : CallBegin(e, k)
        \/ BeginFound(e) \/ PostSigned(e) \/ SettleAction(e) \/ Release(e) \/ CallLost(e)
  BY <1>1 DEF WaffoNext, waffoVars
<1>3. \E k \in ActionKey : BeginOutcome(k, k) = "started" /\ action'[c].key = k
  <2>1. CASE \E k \in ActionKey : CallBegin(e, k)
    <3>1. PICK k \in ActionKey : CallBegin(e, k)
      BY <2>1
    <3>2. InsertClaims(k) /\ action'[c].key = k
      BY <1>0, <3>1 DEF CallBegin
    <3>3. BeginOutcome(k, k) = "started"
      BY <1>0, <3>2, BeginCases, WaffoAssumption DEF InsertClaims
    <3> QED
      BY <3>2, <3>3
  <2>2. CASE BeginFound(e)
    <3>1. action[e].pc = "begin" /\ action[e].key \in ActionKey
      BY <2>2, CallFields DEF BeginFound
    <3>5. \A pc \in {"error", "ok"} : \A v : ~CallReturn(e, pc, v)
      <4> SUFFICES ASSUME NEW pc \in {"error", "ok"}, NEW v, CallReturn(e, pc, v)
                   PROVE  FALSE
        OBVIOUS
      <4>1. action[e] \in [pc : CallPc, key : ActionKey, value : Request, began : 0..now]
        BY <1>0, <3>1 DEF CallRecord, NotCalled
      <4>2. action'[c].pc = IF c = e THEN pc ELSE action[c].pc
        BY <1>0, <4>1 DEF CallReturn
      <4> QED
        BY <4>2
    <3>6. /\ BeginOutcome(action[e].key, action[e].key) = "started"
          /\ action' = [action EXCEPT ![e] = [@ EXCEPT !.pc = "claimed", !.began = now]]
      BY <2>2, <3>5 DEF BeginFound
    <3>7. action'[c].pc = IF c = e THEN action'[e].pc ELSE action[c].pc
      BY <1>0, <3>6
    <3>2. e = c /\ BeginOutcome(action[e].key, action[e].key) = "started"
          /\ action' = [action EXCEPT ![e] = [@ EXCEPT !.pc = "claimed", !.began = now]]
      BY <3>6, <3>7
    <3>3. action[e] \in [pc : CallPc, key : ActionKey, value : Request, began : 0..now]
      BY <1>0, <3>1 DEF CallRecord, NotCalled
    <3>4. action'[c].key = action[e].key
      BY <1>0, <3>2, <3>3
    <3> QED
      BY <3>1, <3>2, <3>4
  <2>3. CASE PostSigned(e) \/ SettleAction(e) \/ Release(e) \/ CallLost(e)
    <3>1. action[e].pc # "idle"
      BY <2>3 DEF PostSigned, SettleAction, Release, CallLost
    <3>2. PICK pc \in {"answered", "failed", "ok", "error", "lost"} :
            CallTo(e, pc) \/ CallReturn(e, pc, e)
      BY <2>3 DEF PostSigned, SettleAction, Release, CallLost
    <3>3. action[e] \in [pc : CallPc, key : ActionKey, value : Request, began : 0..now]
      BY <1>0, <3>1 DEF CallRecord, NotCalled
    <3>4. action'[c].pc = IF c = e THEN pc ELSE action[c].pc
      BY <1>0, <3>2, <3>3 DEF CallTo, CallReturn
    <3> QED
      BY <3>4
  <2> QED
    BY <1>2, <2>1, <2>2, <2>3
<1>4. PICK k \in ActionKey : BeginOutcome(k, k) = "started" /\ action'[c].key = k
  BY <1>3
<1>5. entries[k].state # "completed"
  BY <1>0, <1>4, BeginCases, WaffoAssumption DEF AbsentEntry
<1>6. AnswerKept(d)
  BY DEF WaffoInv
<1>7. action[d].key = k => entries[k] = Completed(k, action[d].value)
  BY <1>4, <1>6 DEF AnswerKept
<1> QED
  BY <1>4, <1>5, <1>7 DEF Completed

-----------------------------------------------------------------------------
(* RequesterReply.                                                         *)

ReplyPc ==
    {"begin", "receipt", "recovered", "load", "append", "stale", "refused", "complete",
     "answered", "lost"}

PendingReply ==
    [pc : ReplyPc, key : ReplyKey, fp : Prints,
     status : Problems \cup {"ok", "none"}, value : Request \cup {"none"}]

ReplyRecord == {NoReply} \cup PendingReply

Message == [key : ReplyKey, fp : Prints, by : Request]

ReceiptRecord ==
    {NoReceipt} \cup [fingerprint : Prints, response : Request, expires_at : Nat]

(* The reply of a key and fingerprint is committed, as the work of v.      *)
Committed(k, f, v) == [key |-> k, fp |-> f, by |-> v] \in thread.messages

(* A request that has a result in its hands has a committed one.           *)
RequestOK(r, x) ==
    /\ x.pc = "recovered" => Committed(x.key, x.fp, x.value)
    /\ x.pc = "complete" => Committed(x.key, x.fp, r)
    /\ x.pc = "answered" => x.status \in Problems \cup {"ok"} /\ x.value \in Request
    /\ x.pc = "answered" /\ x.status = "ok" => Committed(x.key, x.fp, x.value)

(* So have a receipt and a replay record.                                  *)
ReceiptOK(k) ==
    receipts[k] # NoReceipt => Committed(k, receipts[k].fingerprint, receipts[k].response)

RecordCommitted(k) ==
    entries[k].state = "completed" =>
        Committed(k, entries[k].fingerprint, entries[k].response)

(* A fingerprint names the revision it was based on, and the append of it  *)
(* made a later one.                                                       *)
MessagesOld == \A m \in thread.messages : m.fp.revision < thread.revision

ReplyInv ==
    /\ StoreTyped
    /\ thread \in [revision : 0..MaxRevision, messages : SUBSET Message]
    /\ receipts \in [ReplyKey -> ReceiptRecord]
    /\ reply \in [Request -> ReplyRecord]
    /\ replyFailures \in 0..MaxReplyFailures
    /\ MessagesOld /\ ReplyOnce
    /\ \A k \in ReplyKey : ReceiptOK(k) /\ RecordCommitted(k)
    /\ \A r \in Request : RequestOK(r, reply[r])

LEMMA ReplyInitInv == ReplyInit => ReplyInv
<1> SUFFICES ASSUME ReplyInit PROVE ReplyInv
  OBVIOUS
<1> USE DEF ReplyInit, StoreInit
<1>1. StoreTyped
  BY IdempotencyAssumption DEF StoreTyped, Entry_
<1>2. /\ thread \in [revision : 0..MaxRevision, messages : SUBSET Message]
      /\ receipts \in [ReplyKey -> ReceiptRecord]
      /\ reply \in [Request -> ReplyRecord]
      /\ replyFailures \in 0..MaxReplyFailures
  BY ReplyAssumption DEF ReceiptRecord, ReplyRecord
<1>3. MessagesOld /\ ReplyOnce
  BY DEF MessagesOld, ReplyOnce
<1>4. \A k \in ReplyKey : ReceiptOK(k) /\ RecordCommitted(k)
  BY ReplyAssumption DEF ReceiptOK, RecordCommitted, AbsentEntry
<1>5. \A r \in Request : RequestOK(r, reply[r])
  BY DEF RequestOK, NoReply
<1> QED
  BY <1>1, <1>2, <1>3, <1>4, <1>5 DEF ReplyInv

(* A step of one request that touches at most its entry, which becomes a   *)
(* record only of what is committed.                                       *)
LEMMA ReplyStepPreserves ==
    ASSUME ReplyInv, NEW r \in Request, NEW x \in ReplyRecord,
           reply' = [reply EXCEPT ![r] = x], RequestOK(r, x),
           NEW k \in ReplyKey, StoreTyped', Touches(k),
           entries'[k] = entries[k] \/ RecordCommitted(k)',
           UNCHANGED <<thread, receipts>>, replyFailures' \in 0..MaxReplyFailures
    PROVE  ReplyInv'
<1>1. reply' \in [Request -> ReplyRecord]
  BY DEF ReplyInv
<1>2. \A q \in Request : RequestOK(q, reply[q])'
  <2>1. \A q \in Request : reply'[q] = IF q = r THEN x ELSE reply[q]
    BY DEF ReplyInv
  <2> QED
    BY <2>1 DEF ReplyInv, RequestOK, Committed
<1>3. \A i \in ReplyKey : ReceiptOK(i)'
  BY DEF ReplyInv, ReceiptOK, Committed
<1>4. \A i \in ReplyKey : RecordCommitted(i)'
  BY ReplyAssumption DEF ReplyInv, RecordCommitted, Committed, Touches
<1> QED
  BY <1>1, <1>2, <1>3, <1>4 DEF ReplyInv, MessagesOld, ReplyOnce

(* What a request is between its first and last step, and what becomes of  *)
(* it.                                                                     *)
LEMMA ReplyFields ==
    ASSUME ReplyInv, NEW r \in Request, reply[r].pc # "idle"
    PROVE  /\ reply[r] \in PendingReply
           /\ reply[r].key \in ReplyKey /\ reply[r].key \in Key
           /\ reply[r].fp \in Prints /\ reply[r].fp \in Fingerprint
           /\ entries[reply[r].key] \in Entry_ /\ StoreTyped
           /\ RequestOK(r, reply[r]) /\ r \in Response
<1>1. reply[r] \in PendingReply
  BY DEF ReplyInv, ReplyRecord, NoReply
<1> QED
  BY <1>1, ReplyAssumption, IdempotencyAssumption DEF ReplyInv, PendingReply, Prints, StoreTyped

LEMMA ReplyMoves ==
    ASSUME ReplyInv, NEW r \in Request, reply[r].pc # "idle", NEW pc \in ReplyPc, ReplyTo(r, pc)
    PROVE  \E x \in ReplyRecord :
              /\ reply' = [reply EXCEPT ![r] = x] /\ x.pc = pc
              /\ x.key = reply[r].key /\ x.fp = reply[r].fp /\ x.value = reply[r].value
<1> DEFINE x == [reply[r] EXCEPT !.pc = pc]
<1>1. reply[r] \in PendingReply
  BY ReplyFields
<1>2. x \in PendingReply /\ x.pc = pc
      /\ x.key = reply[r].key /\ x.fp = reply[r].fp /\ x.value = reply[r].value
  BY <1>1 DEF PendingReply
<1>3. reply' = [reply EXCEPT ![r] = x]
  BY DEF ReplyTo, ReplyInv
<1> QED
  BY <1>2, <1>3 DEF ReplyRecord

LEMMA ReplyAnswers ==
    ASSUME ReplyInv, NEW r \in Request, reply[r].pc # "idle", NEW v \in Request,
           NEW status \in Problems \cup {"ok"}, Answer(r, status, v)
    PROVE  \E x \in ReplyRecord :
              /\ reply' = [reply EXCEPT ![r] = x] /\ x.pc = "answered"
              /\ x.key = reply[r].key /\ x.fp = reply[r].fp
              /\ x.status = status /\ x.value = v
<1> DEFINE x == [pc |-> "answered", key |-> reply[r].key, fp |-> reply[r].fp,
                 status |-> status, value |-> v]
<1>1. reply[r] \in PendingReply /\ reply \in [Request -> ReplyRecord]
  BY ReplyFields DEF ReplyInv
<1>2. x \in PendingReply
  BY <1>1 DEF PendingReply, ReplyPc
<1>3. reply'[r] = x
  BY <1>1 DEF Answer, PendingReply
<1>4. x.pc = "answered" /\ x.key = reply[r].key /\ x.fp = reply[r].fp
      /\ x.status = status /\ x.value = v
  OBVIOUS
<1> HIDE DEF x
<1>5. reply' = [reply EXCEPT ![r] = x]
  BY <1>1, <1>3 DEF Answer
<1> QED
  BY <1>2, <1>4, <1>5 DEF ReplyRecord

LEMMA ArrivePreserves ==
    ASSUME ReplyInv, NEW r \in Request, NEW k \in ReplyKey, NEW b \in Body,
           NEW rev \in 0..MaxRevision, Arrive(r, k, b, rev)
    PROVE  ReplyInv'
<1> DEFINE f == Print_(b, rev)
           x(pc) == At(pc, k, f)
<1>1. /\ f \in Prints /\ f \in Fingerprint /\ k \in Key /\ StoreTyped
      /\ replyFailures \in 0..MaxReplyFailures
  BY ReplyAssumption DEF Print_, Prints, ReplyInv
<1>2. \A pc \in {"receipt", "begin"} : x(pc) \in ReplyRecord /\ RequestOK(r, x(pc))
  BY <1>1 DEF At, ReplyRecord, PendingReply, ReplyPc, RequestOK
<1>3. CASE InsertClaims(k)
  <2>1. begin(k, f, r) /\ reply' = [reply EXCEPT ![r] = x("receipt")]
        /\ UNCHANGED <<now, thread, receipts, replyFailures>>
    BY <1>3 DEF Arrive
  <2>2. StoreTyped' /\ Touches(k)
        /\ (entries'[k] = entries[k] \/ entries'[k] = InProgress(f, r))
    BY <1>1, <2>1, BeginStep
  <2>3. entries'[k] = entries[k] \/ RecordCommitted(k)'
    BY <2>2 DEF RecordCommitted, InProgress
  <2> HIDE DEF f, x
  <2> QED
    BY <1>1, <1>2, <2>1, <2>2, <2>3, ReplyStepPreserves
<1>4. CASE ~InsertClaims(k)
  <2>1. reply' = [reply EXCEPT ![r] = x("begin")]
        /\ UNCHANGED <<entries, now, thread, receipts, replyFailures>>
    BY <1>4 DEF Arrive
  <2>2. StoreTyped' /\ Touches(k)
    BY <1>1, <2>1 DEF StoreTyped, Touches
  <2> HIDE DEF f, x
  <2> QED
    BY <1>1, <1>2, <2>1, <2>2, ReplyStepPreserves
<1> QED
  BY <1>3, <1>4

(* A step that leaves the store alone.                                     *)
LEMMA ReplyQuietPreserves ==
    ASSUME ReplyInv, NEW r \in Request, reply[r].pc # "idle", NEW x \in ReplyRecord,
           reply' = [reply EXCEPT ![r] = x], RequestOK(r, x),
           UNCHANGED <<entries, now, thread, receipts>>, replyFailures' \in 0..MaxReplyFailures
    PROVE  ReplyInv'
<1>1. reply[r].key \in ReplyKey /\ StoreTyped
  BY ReplyFields
<1>2. StoreTyped' /\ Touches(reply[r].key)
  BY <1>1 DEF StoreTyped, Touches
<1> QED
  BY <1>1, <1>2, ReplyStepPreserves

LEMMA ReplyBeginPreserves ==
    ASSUME ReplyInv, NEW r \in Request, ReplyBegin(r)
    PROVE  ReplyInv'
<1> DEFINE k == reply[r].key
           f == reply[r].fp
<1>0. /\ reply[r].pc # "idle" /\ UNCHANGED <<now, thread, receipts, replyFailures>>
      /\ replyFailures' \in 0..MaxReplyFailures
  BY DEF ReplyBegin, ReplyInv
<1>1. /\ k \in ReplyKey /\ k \in Key /\ f \in Fingerprint /\ StoreTyped
      /\ entries[k] \in Entry_
  BY <1>0, ReplyFields
<1>2. ASSUME NEW status \in Problems, Answer(r, status, r), UNCHANGED entries
      PROVE  ReplyInv'
  <2>0. status # "ok"
    BY DEF Problems
  <2>1. PICK x \in ReplyRecord :
           /\ reply' = [reply EXCEPT ![r] = x] /\ x.pc = "answered"
           /\ x.key = k /\ x.fp = f /\ x.status = status /\ x.value = r
    BY <1>0, <1>2, ReplyAnswers
  <2>2. RequestOK(r, x)
    BY <2>0, <2>1 DEF RequestOK
  <2> QED
    BY <1>0, <1>2, <2>1, <2>2, ReplyQuietPreserves
<1>3. CASE BeginOutcome(k, f) = "replay" /\ Answer(r, "ok", entries[k].response)
           /\ UNCHANGED entries
  <2>1. entries[k].state = "completed" /\ entries[k].fingerprint = f
    BY <1>1, <1>3, BeginCases
  <2>2. Committed(k, f, entries[k].response)
    BY <1>1, <2>1 DEF ReplyInv, RecordCommitted
  <2>3. entries[k].response \in Request
    BY <2>2 DEF Committed, ReplyInv, Message
  <2>4. PICK x \in ReplyRecord :
           /\ reply' = [reply EXCEPT ![r] = x] /\ x.pc = "answered"
           /\ x.key = k /\ x.fp = f /\ x.status = "ok" /\ x.value = entries[k].response
    BY <1>0, <1>3, <2>3, ReplyAnswers
  <2>5. RequestOK(r, x)
    BY <2>2, <2>3, <2>4 DEF RequestOK
  <2> QED
    BY <1>0, <1>3, <2>4, <2>5, ReplyQuietPreserves
<1>4. CASE BeginOutcome(k, f) = "started" /\ begin(k, f, r) /\ ReplyTo(r, "receipt")
  <2>1. StoreTyped' /\ Touches(k) /\ entries'[k] = InProgress(f, r)
    BY <1>0, <1>1, <1>4, BeginStep
  <2>2. PICK i \in ReplyKey : i = k
    BY <1>1
  <2>3. RecordCommitted(i)'
    BY <2>1, <2>2 DEF RecordCommitted, InProgress
  <2>4. PICK x \in ReplyRecord : reply' = [reply EXCEPT ![r] = x] /\ x.pc = "receipt"
    BY <1>0, <1>4, ReplyMoves DEF ReplyPc
  <2>5. RequestOK(r, x)
    BY <2>4 DEF RequestOK
  <2> HIDE DEF k, f
  <2> QED
    BY <1>0, <2>1, <2>2, <2>3, <2>4, <2>5, ReplyStepPreserves
<1>5. \/ \E status \in Problems : Answer(r, status, r) /\ UNCHANGED entries
      \/ BeginOutcome(k, f) = "replay" /\ Answer(r, "ok", entries[k].response)
            /\ UNCHANGED entries
      \/ BeginOutcome(k, f) = "started" /\ begin(k, f, r) /\ ReplyTo(r, "receipt")
  BY DEF ReplyBegin, Problems
<1> QED
  BY <1>2, <1>3, <1>4, <1>5

LEMMA ReadReceiptPreserves ==
    ASSUME ReplyInv, NEW r \in Request, ReadReceipt(r)
    PROVE  ReplyInv'
<1>0. /\ reply[r].pc # "idle" /\ UNCHANGED <<entries, now, thread, receipts>>
      /\ replyFailures' \in 0..MaxReplyFailures
  BY DEF ReadReceipt, ReplyInv
<1>1. CASE Recoverable(reply[r].key, reply[r].fp)
  <2> DEFINE v == receipts[reply[r].key].response
             x == [pc |-> "recovered", key |-> reply[r].key, fp |-> reply[r].fp,
                   status |-> reply[r].status, value |-> v]
  <2>1. reply[r] \in PendingReply /\ reply[r].key \in ReplyKey
        /\ reply \in [Request -> ReplyRecord] /\ receipts \in [ReplyKey -> ReceiptRecord]
    BY <1>0, ReplyFields DEF ReplyInv
  <2>2. Committed(reply[r].key, reply[r].fp, v)
    BY <1>1, <2>1 DEF ReplyInv, ReceiptOK, Recoverable
  <2>3. v \in Request
    BY <2>2 DEF Committed, ReplyInv, Message
  <2>4. x \in ReplyRecord /\ RequestOK(r, x)
    BY <2>1, <2>2, <2>3 DEF ReplyRecord, PendingReply, ReplyPc, RequestOK
  <2>5. reply'[r] = x
    BY <1>1, <2>1 DEF ReadReceipt, PendingReply
  <2> HIDE DEF x
  <2>6. reply' = [reply EXCEPT ![r] = x]
    BY <1>1, <2>1, <2>5 DEF ReadReceipt
  <2> QED
    BY <1>0, <2>4, <2>6, ReplyQuietPreserves
<1>2. CASE ~Recoverable(reply[r].key, reply[r].fp)
  <2>1. PICK x \in ReplyRecord : reply' = [reply EXCEPT ![r] = x] /\ x.pc = "load"
    BY <1>0, <1>2, ReplyMoves DEF ReadReceipt, ReplyPc
  <2>2. RequestOK(r, x)
    BY <2>1 DEF RequestOK
  <2> QED
    BY <1>0, <2>1, <2>2, ReplyQuietPreserves
<1> QED
  BY <1>1, <1>2

(* complete, with what is committed, or a call that fails; the answer ok   *)
(* is given for what is committed only.                                    *)
LEMMA ReplyCompletesPreserves ==
    ASSUME ReplyInv, NEW r \in Request, reply[r].pc # "idle", NEW v \in Request,
           Committed(reply[r].key, reply[r].fp, v),
           \/ complete(reply[r].key, reply[r].fp, r, v) /\ UNCHANGED replyFailures
           \/ /\ replyFailures < MaxReplyFailures /\ replyFailures' = replyFailures + 1
              /\ UNCHANGED entries,
           NEW status \in Problems \cup {"ok"}, Answer(r, status, v),
           UNCHANGED <<now, thread, receipts>>
    PROVE  ReplyInv'
<1>0. PICK k \in ReplyKey : k = reply[r].key
  BY ReplyFields
<1>1. /\ k \in Key /\ reply[r].fp \in Fingerprint /\ StoreTyped
      /\ r \in Response /\ v \in Response
  BY <1>0, ReplyFields, IdempotencyAssumption
<1>2. PICK x \in ReplyRecord :
         /\ reply' = [reply EXCEPT ![r] = x] /\ x.pc = "answered"
         /\ x.key = k /\ x.fp = reply[r].fp /\ x.status = status /\ x.value = v
  BY <1>0, ReplyAnswers
<1>3. RequestOK(r, x)
  BY <1>0, <1>2 DEF RequestOK
<1>4. replyFailures' \in 0..MaxReplyFailures
  BY ReplyAssumption DEF ReplyInv
<1>5. CASE complete(reply[r].key, reply[r].fp, r, v)
  <2>1. StoreTyped' /\ Touches(k)
        /\ (entries'[k] = entries[k] \/ entries'[k] = Completed(reply[r].fp, v))
    BY <1>0, <1>1, <1>5, CompleteStep
  <2>2. entries'[k] = entries[k] \/ RecordCommitted(k)'
    BY <1>0, <2>1 DEF RecordCommitted, Completed, Committed
  <2> QED
    BY <1>2, <1>3, <1>4, <2>1, <2>2, ReplyStepPreserves
<1>6. CASE UNCHANGED entries
  BY <1>2, <1>3, <1>4, <1>6, ReplyQuietPreserves
<1> QED
  BY <1>5, <1>6

LEMMA FromReceiptPreserves ==
    ASSUME ReplyInv, NEW r \in Request, AnswerFromReceipt(r) \/ ReplyComplete(r)
    PROVE  ReplyInv'
<1>0. reply[r].pc \in {"recovered", "complete"} /\ UNCHANGED <<now, thread, receipts>>
  BY DEF AnswerFromReceipt, ReplyComplete
<1>1. reply[r].pc # "idle" /\ RequestOK(r, reply[r])
  BY <1>0 DEF ReplyInv
<1>2. CASE AnswerFromReceipt(r)
  <2>1. Committed(reply[r].key, reply[r].fp, reply[r].value)
    BY <1>1, <1>2 DEF AnswerFromReceipt, RequestOK
  <2>2. reply[r].value \in Request
    BY <2>1 DEF Committed, ReplyInv, Message
  <2> QED
    BY <1>0, <1>1, <1>2, <2>1, <2>2, ReplyCompletesPreserves DEF AnswerFromReceipt
<1>3. CASE ReplyComplete(r)
  <2>1. Committed(reply[r].key, reply[r].fp, r)
    BY <1>1, <1>3 DEF ReplyComplete, RequestOK
  <2>2. PICK status \in {"ok", "persist_uncertain"} :
          /\ Answer(r, status, r)
          /\ \/ complete(reply[r].key, reply[r].fp, r, r) /\ UNCHANGED replyFailures
             \/ /\ replyFailures < MaxReplyFailures /\ replyFailures' = replyFailures + 1
                /\ UNCHANGED entries
    BY <1>3 DEF ReplyComplete
  <2>3. status \in Problems \cup {"ok"}
    BY DEF Problems
  <2> QED
    BY <1>0, <1>1, <2>1, <2>2, <2>3, ReplyCompletesPreserves
<1> QED
  BY <1>2, <1>3

LEMMA LoadOrLostPreserves ==
    ASSUME ReplyInv, NEW r \in Request, LoadThread(r) \/ ReplyLost(r)
    PROVE  ReplyInv'
<1>1. PICK pc \in {"append", "stale", "refused", "lost"} : ReplyTo(r, pc)
  BY DEF LoadThread, ReplyLost
<1>2. /\ reply[r].pc # "idle" /\ UNCHANGED <<entries, now, thread, receipts>>
      /\ replyFailures' \in 0..MaxReplyFailures
  BY DEF LoadThread, ReplyLost, ReplyInv
<1>3. pc \in ReplyPc
  BY DEF ReplyPc
<1>4. PICK x \in ReplyRecord : reply' = [reply EXCEPT ![r] = x] /\ x.pc = pc
  BY <1>1, <1>2, <1>3, ReplyMoves
<1>5. RequestOK(r, x)
  BY <1>4 DEF RequestOK
<1> QED
  BY <1>2, <1>4, <1>5, ReplyQuietPreserves

LEMMA AbortClaimPreserves ==
    ASSUME ReplyInv, NEW r \in Request, AbortClaim(r)
    PROVE  ReplyInv'
<1>0. PICK k \in ReplyKey : k = reply[r].key /\ reply[r].pc # "idle"
  BY ReplyFields DEF AbortClaim
<1>1. k \in Key /\ reply[r].fp \in Fingerprint /\ StoreTyped
  BY <1>0, ReplyFields
<1>2. /\ reply[r].pc \in Problems /\ reply[r].pc # "ok" /\ Answer(r, reply[r].pc, r)
      /\ UNCHANGED <<now, thread, receipts>> /\ replyFailures' \in 0..MaxReplyFailures
  BY ReplyAssumption DEF AbortClaim, Problems, ReplyInv
<1>3. PICK x \in ReplyRecord :
         reply' = [reply EXCEPT ![r] = x] /\ x.pc = "answered" /\ x.status = reply[r].pc
         /\ x.value = r
  BY <1>0, <1>2, ReplyAnswers
<1>4. RequestOK(r, x)
  BY <1>2, <1>3 DEF RequestOK
<1>5. CASE abort(reply[r].key, reply[r].fp, r)
  <2>1. StoreTyped' /\ Touches(k) /\ (entries'[k] = entries[k] \/ entries'[k] = AbsentEntry)
    BY <1>0, <1>1, <1>2, <1>5, AbortStep
  <2>2. entries'[k] = entries[k] \/ RecordCommitted(k)'
    BY <2>1 DEF RecordCommitted, AbsentEntry
  <2> QED
    BY <1>2, <1>3, <1>4, <2>1, <2>2, ReplyStepPreserves
<1>6. CASE UNCHANGED entries
  BY <1>0, <1>2, <1>3, <1>4, <1>6, ReplyQuietPreserves
<1> QED
  BY <1>5, <1>6 DEF AbortClaim

(* The append: the revision it is based on is current, so no message of    *)
(* its fingerprint is there, and message and receipt appear together.      *)
LEMMA AppendPreserves ==
    ASSUME ReplyInv, NEW r \in Request, append_ticket_message(r)
    PROVE  ReplyInv'
<1>0. PICK k \in ReplyKey : k = reply[r].key
  BY ReplyFields DEF append_ticket_message
<1>1. PICK f \in Prints : f = reply[r].fp
  BY ReplyFields DEF append_ticket_message
<1>2. /\ reply[r].pc # "idle" /\ UNCHANGED <<entries, now, replyFailures>>
      /\ now \in Nat /\ StoreTyped
  BY IdempotencyAssumption DEF append_ticket_message, ReplyInv, StoreTyped
<1> DEFINE commits == thread.revision = f.revision /\ receipts[k] = NoReceipt
           message == [key |-> k, fp |-> f, by |-> r]
<1>3. CASE ~commits
  <2>1. PICK pc \in {"refused", "stale"} : ReplyTo(r, pc)
    BY <1>0, <1>1, <1>3 DEF append_ticket_message
  <2>2. pc \in ReplyPc
    BY DEF ReplyPc
  <2>3. PICK x \in ReplyRecord : reply' = [reply EXCEPT ![r] = x] /\ x.pc = pc
    BY <1>2, <2>1, <2>2, ReplyMoves
  <2>4. RequestOK(r, x)
    BY <2>3 DEF RequestOK
  <2>5. UNCHANGED <<thread, receipts>> /\ replyFailures' \in 0..MaxReplyFailures
    BY <1>0, <1>1, <1>2, <1>3 DEF append_ticket_message, ReplyInv
  <2> QED
    BY <1>2, <2>3, <2>4, <2>5, ReplyQuietPreserves
<1>4. CASE commits
  <2>1. /\ thread.revision < MaxRevision
        /\ thread' = [revision |-> thread.revision + 1,
                      messages |-> thread.messages \cup {message}]
        /\ receipts' = [receipts EXCEPT ![k] = Receipt(f, r)]
        /\ ReplyTo(r, "complete")
    BY <1>0, <1>1, <1>4 DEF append_ticket_message
  <2>2. PICK x \in ReplyRecord :
           /\ reply' = [reply EXCEPT ![r] = x] /\ x.pc = "complete"
           /\ x.key = k /\ x.fp = f
    BY <1>0, <1>1, <1>2, <2>1, ReplyMoves DEF ReplyPc
  <2>3. message \in Message /\ Receipt(f, r) \in ReceiptRecord /\ Receipt(f, r) # NoReceipt
    BY <1>2, ReplyAssumption DEF Message, Receipt, ReceiptRecord, NoReceipt
  <2>4. /\ thread \in [revision : 0..MaxRevision, messages : SUBSET Message]
        /\ receipts \in [ReplyKey -> ReceiptRecord] /\ reply \in [Request -> ReplyRecord]
        /\ MessagesOld /\ ReplyOnce
    BY DEF ReplyInv
  <2> HIDE DEF message
  <2>5. thread' \in [revision : 0..MaxRevision, messages : SUBSET Message]
    BY <2>1, <2>3, <2>4, ReplyAssumption
  <2>6. receipts' \in [ReplyKey -> ReceiptRecord] /\ reply' \in [Request -> ReplyRecord]
    BY <2>1, <2>2, <2>3, <2>4
  <2>7. /\ thread'.revision = thread.revision + 1 /\ thread.revision \in Nat
        /\ thread'.messages = thread.messages \cup {message}
        /\ \A m \in thread.messages : m.fp.revision \in Nat
    BY <2>1, <2>4, ReplyAssumption DEF Message, Prints
  <2>8. message.fp = f /\ message.key = k /\ f.revision = thread.revision
    BY <1>4 DEF message
  <2>9. MessagesOld'
    BY <2>4, <2>7, <2>8 DEF MessagesOld
  <2>10. ReplyOnce'
    <3>1. \A m \in thread.messages : m.fp # f
      BY <2>4, <2>7, <2>8 DEF MessagesOld
    <3> QED
      BY <2>4, <2>7, <2>8, <3>1 DEF ReplyOnce
  <2>11. message \in thread'.messages /\ thread.messages \subseteq thread'.messages
    BY <2>7
  <2>12. \A i \in ReplyKey : ReceiptOK(i)' /\ RecordCommitted(i)'
    <3> TAKE i \in ReplyKey
    <3>1. ReceiptOK(i) /\ RecordCommitted(i)
      BY DEF ReplyInv
    <3>2. receipts'[i] = IF i = k THEN Receipt(f, r) ELSE receipts[i]
      BY <2>1, <2>4
    <3>3. ReceiptOK(i)'
      BY <2>11, <3>1, <3>2 DEF ReceiptOK, Committed, Receipt, message
    <3>4. RecordCommitted(i)'
      BY <1>2, <2>11, <3>1 DEF RecordCommitted, Committed
    <3> QED
      BY <3>3, <3>4
  <2>13. \A q \in Request : RequestOK(q, reply[q])'
    <3> TAKE q \in Request
    <3>1. CASE q = r
      <4>1. reply'[q] = x /\ Committed(k, f, q)'
        BY <2>2, <2>4, <2>11, <3>1 DEF Committed, message
      <4> QED
        BY <2>2, <4>1 DEF RequestOK
    <3>2. CASE q # r
      <4>1. reply'[q] = reply[q] /\ RequestOK(q, reply[q])
        BY <2>2, <2>4, <3>2 DEF ReplyInv
      <4> QED
        BY <2>11, <4>1 DEF RequestOK, Committed
    <3> QED
      BY <3>1, <3>2
  <2> QED
    BY <1>2, <2>5, <2>6, <2>9, <2>10, <2>12, <2>13 DEF ReplyInv, StoreTyped
<1> QED
  BY <1>3, <1>4

LEMMA ReplyNextPreserves ==
    ASSUME ReplyInv, [ReplyNext]_replyVars
    PROVE  ReplyInv'
<1>1. CASE \E r \in Request : ReplyStep(r)
  BY <1>1, ArrivePreserves, ReplyBeginPreserves, ReadReceiptPreserves, FromReceiptPreserves,
     LoadOrLostPreserves, AppendPreserves, AbortClaimPreserves DEF ReplyStep
<1>2. CASE OtherWrite
  <2>1. /\ thread'.revision = thread.revision + 1 /\ thread'.messages = thread.messages
        /\ thread' \in [revision : 0..MaxRevision, messages : SUBSET Message]
        /\ thread.revision \in Nat /\ \A m \in thread.messages : m.fp.revision \in Nat
        /\ UNCHANGED <<entries, now, receipts, reply, replyFailures>>
    BY <1>2, ReplyAssumption DEF OtherWrite, ReplyInv, Message, Prints
  <2>2. MessagesOld'
    BY <2>1 DEF ReplyInv, MessagesOld
  <2> QED
    BY <2>1, <2>2
    DEF ReplyInv, StoreTyped, ReplyOnce, ReceiptOK, RecordCommitted, RequestOK, Committed
<1>3. CASE Tick /\ UNCHANGED <<thread, receipts, reply, replyFailures>>
  <2>1. StoreTyped' /\ UNCHANGED <<entries, thread, receipts, reply, replyFailures>>
    BY <1>3, IdempotencyAssumption DEF Tick, StoreTyped, ReplyInv
  <2> QED
    BY <2>1
    DEF ReplyInv, MessagesOld, ReplyOnce, ReceiptOK, RecordCommitted, RequestOK, Committed
<1>4. CASE UNCHANGED replyVars
  BY <1>4 DEF replyVars, ReplyInv, StoreTyped, MessagesOld, ReplyOnce, ReceiptOK,
              RecordCommitted, RequestOK, Committed
<1> QED
  BY <1>1, <1>2, <1>3, <1>4 DEF ReplyNext

LEMMA ReplyIsSound ==
    ASSUME ReplyInv
    PROVE  ReplyTypeOK /\ ReplyCommittedOnce
<1>1. ReplyTypeOK
  BY StoreTypedIsTypeOK DEF ReplyInv, ReplyTypeOK, RequestOK, Message
<1>2. OkIsCommitted
  BY DEF ReplyInv, OkIsCommitted, Ok, RequestOK, Committed
<1> QED
  BY <1>1, <1>2 DEF ReplyCommittedOnce, ReplyInv

-----------------------------------------------------------------------------
(* SessionExchange.                                                        *)

(* The steps of a first exchange, which holds the claim, and of a rotation,*)
(* which needs the completed record.                                       *)
FirstExchange ==
    {"consume", "issue", "read_current", "record", "replace", "complete",
     "abandon", "remove", "abort"}
Rotation ==
    {"read", "retire_staged", "clear", "revoke", "mint", "stage", "swap", "retire"}

(* A request there has minted its session, or will never.                  *)
PastMint ==
    {"replace", "complete", "answered", "abandon", "remove", "abort", "refused", "crashed"}

Grant ==
    [session : Request \cup {"none"}, generation : Nat, revoked : BOOLEAN,
     staged : Request \cup {"none"}, expires_at : Nat]

ExchangeRecord ==
    [pc : Ended \cup FirstExchange \cup Rotation, seen : Grant, late : BOOLEAN]

GrantOK(g) == g = NoGrant \/ (g.session \in Request /\ g.session # g.staged)

Minted(s, X) == s # "none" => X[s].pc \in PastMint

ExchangeShape ==
    /\ StoreTyped
    /\ grant \in Grant /\ GrantOK(grant)
    /\ session \in [Request -> {"none", "live", "revoked"}]
    /\ exchange \in [Request -> ExchangeRecord]
    /\ logout \in [Request -> {"idle", "revoke_grant", "revoke_session", "done"}]
    /\ exchangeFailures \in 0..MaxExchangeFailures
    /\ Minted(grant.session, exchange)
    /\ \A r \in Request :
          /\ Minted(exchange[r].seen.session, exchange)
          /\ exchange[r].pc \in Rotation \ {"read"} => exchange[r].seen.session \in Request

(* The request r, in x, under grant g, with the sessions S and the entry e.*)
(* A first exchange has the claim, so there is one at a time; a rotation   *)
(* mints only once the bearer it has seen is dead; the live bearer that    *)
(* was handed out is the grant's; and who comes late finds the grant       *)
(* revoked.                                                                *)
ExchangeOK(r, x, g, S, e) ==
    /\ x.pc \in FirstExchange => e.state = "in_progress" /\ e.lease = r
    /\ x.pc \in Rotation \cup {"answered"} => e.state = "completed"
    /\ x.pc \in {"replace", "complete"} => g.session = r
    /\ x.pc \in {"mint", "stage", "swap"} => S[x.seen.session] # "live"
    /\ x.pc = "answered" /\ S[r] = "live" => g.session = r
    /\ x.late =>
          e.state = "completed" /\ g.revoked /\ x.pc \in {"read", "refused", "crashed"}

(* A claim that has grown old belongs to a request that has ended.         *)
ClaimFresh ==
    entries[key].state = "in_progress" =>
        entries[key].started_at = now \/ exchange[entries[key].lease].pc \in Ended

(* The grant of a completed exchange is never taken back, and a logout     *)
(* that got to it has revoked it.                                          *)
GrantKept ==
    /\ entries[key] # AbsentEntry => entries[key].fingerprint = print
    /\ entries[key].state = "completed" => grant.session \in Request
    /\ \A s \in Request :
          /\ logout[s] # "idle" => entries[key].state = "completed"
          /\ logout[s] \in {"revoke_session", "done"} => grant.revoked

ExchangeInv ==
    /\ ClaimFresh /\ GrantKept
    /\ \A r \in Request : ExchangeOK(r, exchange[r], grant, session, entries[key])

LEMMA ExchangeInitInv == ExchangeInit => ExchangeShape /\ ExchangeInv
<1> SUFFICES ASSUME ExchangeInit PROVE ExchangeShape /\ ExchangeInv
  OBVIOUS
<1> USE DEF ExchangeInit, StoreInit
<1>1. StoreTyped /\ key \in Key /\ entries[key] = AbsentEntry /\ entries[key].state = "absent"
  BY IdempotencyAssumption, ExchangeAssumption DEF StoreTyped, Entry_, AbsentEntry
<1>2. NoGrant \in Grant /\ NoGrant.session = "none"
  BY DEF NoGrant, Grant
<1>3. NoExchange \in ExchangeRecord /\ NoExchange.seen = NoGrant /\ NoExchange.pc = "idle"
      /\ NoExchange.late = FALSE
  BY <1>2 DEF NoExchange, ExchangeRecord, Ended
<1>4. ExchangeShape
  BY <1>1, <1>2, <1>3, ExchangeAssumption DEF ExchangeShape, GrantOK, Minted, Rotation
<1>5. \A r \in Request : ExchangeOK(r, exchange[r], grant, session, entries[key])
  BY <1>3 DEF ExchangeOK, FirstExchange, Rotation
<1> QED
  BY <1>1, <1>4, <1>5 DEF ExchangeInv, ClaimFresh, GrantKept

(* A step of one request: what is seen is seen of the grant, and a grant   *)
(* that is set names a session that is not minted again.                   *)
LEMMA ShapeMoves ==
    ASSUME ExchangeShape, NEW r \in Request, NEW x \in ExchangeRecord,
           exchange' = [exchange EXCEPT ![r] = x],
           exchange[r].pc \in PastMint => x.pc \in PastMint,
           x.seen.session \in {"none", grant.session, exchange[r].seen.session},
           x.pc \in Rotation \ {"read"} => x.seen.session \in Request,
           grant' \in Grant, GrantOK(grant'),
           grant'.session \in {"none", grant.session}
              \/ (grant'.session = r /\ x.pc \in PastMint),
           session' \in [Request -> {"none", "live", "revoked"}],
           StoreTyped', exchangeFailures' \in 0..MaxExchangeFailures, UNCHANGED logout
    PROVE  ExchangeShape'
<1>1. exchange' \in [Request -> ExchangeRecord] /\ exchange'[r] = x
      /\ \A q \in Request : q # r => exchange'[q] = exchange[q]
  BY DEF ExchangeShape
<1>2. \A s \in Request \cup {"none"} : Minted(s, exchange) => Minted(s, exchange')
  BY <1>1 DEF Minted
<1>3. /\ \A q \in Request : exchange[q].seen.session \in Request \cup {"none"}
      /\ grant.session \in Request \cup {"none"} /\ grant'.session \in Request \cup {"none"}
  BY DEF ExchangeShape, ExchangeRecord, Grant
<1>4. Minted(grant.session, exchange) /\ \A q \in Request : Minted(exchange[q].seen.session, exchange)
  BY DEF ExchangeShape
<1>5. Minted("none", exchange')
  BY DEF Minted
<1>6. Minted(grant'.session, exchange')
  BY <1>1, <1>2, <1>3, <1>4, <1>5 DEF Minted
<1>7. \A q \in Request : Minted(exchange'[q].seen.session, exchange')
  BY <1>1, <1>2, <1>3, <1>4, <1>5
<1>9. \A q \in Request : exchange'[q].pc \in Rotation \ {"read"} => exchange'[q].seen.session \in Request
  BY <1>1 DEF ExchangeShape
<1>8. UNCHANGED logout /\ grant' \in Grant /\ GrantOK(grant')
      /\ logout \in [Request -> {"idle", "revoke_grant", "revoke_session", "done"}]
  BY DEF ExchangeShape
<1> QED
  BY <1>1, <1>6, <1>7, <1>8, <1>9 DEF ExchangeShape, GrantOK, Minted

(* The fields of a request that moves.                                     *)
ExchangePc == Ended \cup FirstExchange \cup Rotation

LEMMA ExchangeMoves ==
    ASSUME exchange \in [Request -> ExchangeRecord], NEW r \in Request,
           NEW pc \in ExchangePc, ExchangeTo(r, pc)
    PROVE  \E x \in ExchangeRecord :
              /\ exchange' = [exchange EXCEPT ![r] = x]
              /\ x.pc = pc /\ x.seen = exchange[r].seen /\ x.late = exchange[r].late
<1> DEFINE x == [exchange[r] EXCEPT !.pc = pc]
<1>1. /\ x \in ExchangeRecord
      /\ x.pc = pc /\ x.seen = exchange[r].seen /\ x.late = exchange[r].late
  BY DEF ExchangeRecord, ExchangePc
<1>2. exchange' = [exchange EXCEPT ![r] = x]
  BY DEF ExchangeTo
<1> QED
  BY <1>1, <1>2

LEMMA ExchangeSees ==
    ASSUME exchange \in [Request -> ExchangeRecord], NEW r \in Request,
           NEW pc \in ExchangePc, NEW g \in Grant, ExchangeToSeeing(r, pc, g)
    PROVE  \E x \in ExchangeRecord :
              /\ exchange' = [exchange EXCEPT ![r] = x]
              /\ x.pc = pc /\ x.seen = g /\ x.late = exchange[r].late
<1> DEFINE x == [pc |-> pc, seen |-> g, late |-> exchange[r].late]
<1>1. /\ x \in ExchangeRecord
      /\ x.pc = pc /\ x.seen = g /\ x.late = exchange[r].late
  BY DEF ExchangeRecord, ExchangePc
<1>2. exchange' = [exchange EXCEPT ![r] = x]
  <2>1. exchange'[r] = x
    BY DEF ExchangeToSeeing, ExchangeRecord
  <2> HIDE DEF x
  <2> QED
    BY <2>1 DEF ExchangeToSeeing
<1> QED
  BY <1>1, <1>2

(* A revocation only takes bearers away.                                   *)
LEMMA RevokeEnds ==
    ASSUME session \in [Request -> {"none", "live", "revoked"}], NEW s, Revoke(s)
    PROVE  /\ session' \in [Request -> {"none", "live", "revoked"}]
           /\ \A q \in Request : session'[q] = "live" => session[q] = "live"
           /\ s \in Request => session'[s] # "live"
BY DEF Revoke

LEMMA ShapeTo ==
    ASSUME ExchangeShape, NEW r \in Request, NEW pc \in ExchangePc, ExchangeTo(r, pc),
           exchange[r].pc \in PastMint => pc \in PastMint,
           pc \in Rotation \ {"read"} => exchange[r].pc \in Rotation \ {"read"},
           grant' \in Grant, GrantOK(grant'),
           grant'.session \in {"none", grant.session}
              \/ (grant'.session = r /\ pc \in PastMint),
           session' \in [Request -> {"none", "live", "revoked"}],
           StoreTyped', exchangeFailures' \in 0..MaxExchangeFailures, UNCHANGED logout
    PROVE  ExchangeShape'
<1>1. PICK x \in ExchangeRecord :
        /\ exchange' = [exchange EXCEPT ![r] = x]
        /\ x.pc = pc /\ x.seen = exchange[r].seen
  BY ExchangeMoves DEF ExchangeShape
<1> QED
  BY <1>1, ShapeMoves DEF ExchangeShape

(* Steps that leave the grant alone.                                       *)
LEMMA ShapeKeepsGrant ==
    ASSUME ExchangeShape, NEW r \in Request, NEW pc \in ExchangePc, ExchangeTo(r, pc),
           exchange[r].pc \in PastMint => pc \in PastMint,
           pc \in Rotation \ {"read"} => exchange[r].pc \in Rotation \ {"read"},
           session' \in [Request -> {"none", "live", "revoked"}],
           StoreTyped', exchangeFailures' \in 0..MaxExchangeFailures, UNCHANGED <<grant, logout>>
    PROVE  ExchangeShape'
BY ShapeTo DEF ExchangeShape

LEMMA FailsShape ==
    ASSUME ExchangeShape, NEW r \in Request, NEW pc \in ExchangePc, ExchangeFails(r, pc),
           exchange[r].pc \in PastMint => pc \in PastMint,
           pc \in Rotation \ {"read"} => exchange[r].pc \in Rotation \ {"read"}, UNCHANGED <<now, logout>>
    PROVE  ExchangeShape'
<1>1. exchangeFailures' \in 0..MaxExchangeFailures
  BY ExchangeAssumption DEF ExchangeFails, ExchangeShape
<1>2. StoreTyped' /\ session' \in [Request -> {"none", "live", "revoked"}] /\ ExchangeTo(r, pc)
      /\ UNCHANGED <<grant, logout>>
  BY DEF ExchangeFails, ExchangeShape, StoreTyped
<1> QED
  BY <1>1, <1>2, ShapeKeepsGrant

LEMMA RevokeShape ==
    ASSUME ExchangeShape, NEW r \in Request, NEW pc \in ExchangePc, ExchangeTo(r, pc),
           exchange[r].pc \in PastMint => pc \in PastMint,
           pc \in Rotation \ {"read"} => exchange[r].pc \in Rotation \ {"read"},
           NEW s, Revoke(s),
           UNCHANGED <<entries, grant, consumed, exchangeFailures, now, logout>>
    PROVE  ExchangeShape'
<1>1. session' \in [Request -> {"none", "live", "revoked"}]
  BY RevokeEnds DEF ExchangeShape
<1>2. StoreTyped' /\ exchangeFailures' \in 0..MaxExchangeFailures /\ UNCHANGED <<grant, logout>>
  BY DEF ExchangeShape, StoreTyped
<1> QED
  BY <1>1, <1>2, ShapeKeepsGrant

LEMMA ExchangePcs ==
    /\ Ended \subseteq ExchangePc /\ FirstExchange \subseteq ExchangePc
    /\ Rotation \subseteq ExchangePc /\ PastMint \subseteq ExchangePc
    /\ Ended \cap FirstExchange = {} /\ Ended \cap Rotation = {}
    /\ FirstExchange \cap Rotation = {} /\ PastMint \cap Rotation = {}
BY DEF ExchangePc, Ended, FirstExchange, Rotation, PastMint

(* The steps of a first exchange keep the shapes.                          *)
LEMMA FirstShape ==
    ASSUME ExchangeShape, NEW r \in Request, UNCHANGED <<now, logout>>,
           \/ Consume(r) \/ Issue(r) \/ ReadCurrent(r) \/ Record(r) \/ RevokeReplaced(r)
           \/ ExchangeComplete(r) \/ AbandonSession(r) \/ AbandonGrant(r) \/ Abort(r)
    PROVE  ExchangeShape'
<1> USE DEF FirstExchange, Rotation, Ended, PastMint, ExchangePc
<1>0. /\ StoreTyped /\ key \in Key /\ print \in Fingerprint /\ r \in Response
      /\ grant \in Grant /\ GrantOK(grant)
      /\ session \in [Request -> {"none", "live", "revoked"}]
      /\ exchangeFailures \in 0..MaxExchangeFailures
      /\ exchange \in [Request -> ExchangeRecord]
  BY ExchangeAssumption, IdempotencyAssumption DEF ExchangeShape
<1>1. \A pc \in {"abort", "abandon", "refused"} : ExchangeFails(r, pc) => ExchangeShape'
  BY FailsShape
<1>2. CASE Consume(r)
  <2>1. StoreTyped' /\ UNCHANGED <<grant, session, exchangeFailures>>
    BY <1>0, <1>2 DEF Consume, StoreTyped
  <2>2. exchange[r].pc = "consume" /\ (ExchangeTo(r, "issue") \/ ExchangeTo(r, "abort"))
    BY <1>2 DEF Consume
  <2> QED
    BY <1>0, <2>1, <2>2, ShapeKeepsGrant
<1>3. CASE Issue(r)
  <2>1. CASE ExchangeFails(r, "abort")
    BY <1>1, <1>3, <2>1 DEF Issue
  <2>2. CASE ~ExchangeFails(r, "abort")
    <3>1. /\ exchange[r].pc = "issue" /\ ExchangeTo(r, "read_current")
          /\ session' \in [Request -> {"none", "live", "revoked"}]
          /\ StoreTyped' /\ UNCHANGED <<grant, exchangeFailures>>
      BY <1>0, <1>3, <2>2 DEF Issue, StoreTyped
    <3> QED
      BY <1>0, <3>1, ShapeKeepsGrant
  <2> QED
    BY <2>1, <2>2
<1>4. CASE ReadCurrent(r)
  <2>1. PICK x \in ExchangeRecord :
          exchange' = [exchange EXCEPT ![r] = x] /\ x.pc = "record" /\ x.seen = grant
    BY <1>0, <1>4, ExchangeSees DEF ReadCurrent
  <2>2. exchange[r].pc = "read_current" /\ StoreTyped'
        /\ UNCHANGED <<grant, session, exchangeFailures>>
    BY <1>0, <1>4 DEF ReadCurrent, StoreTyped
  <2> QED
    BY <1>0, <2>1, <2>2, ShapeMoves
<1>5. CASE Record(r)
  <2>1. CASE ExchangeFails(r, "abandon")
    BY <1>1, <1>5, <2>1 DEF Record
  <2>2. CASE ~ExchangeFails(r, "abandon")
    <3> DEFINE seen == exchange[r].seen
               mine == [NoGrant EXCEPT
                   !.session = r, !.expires_at = now + ReplayWindow,
                   !.generation = IF seen = NoGrant THEN 0 ELSE grant.generation + 1]
    <3>1. /\ exchange[r].pc = "record" /\ StoreTyped'
          /\ UNCHANGED <<session, exchangeFailures>>
      BY <1>0, <1>5, <2>2 DEF Record, StoreTyped
    <3>2. mine \in Grant /\ mine.session = r /\ GrantOK(mine)
      <4>1. now + ReplayWindow \in Nat /\ grant.generation + 1 \in Nat
        BY <1>0, ExchangeAssumption, IdempotencyAssumption DEF StoreTyped, Grant
      <4>2. r # "none"
        BY IdempotencyAssumption
      <4>3. NoGrant \in Grant /\ NoGrant.staged = "none"
        BY DEF NoGrant, Grant
      <4>4. mine \in Grant
        BY <4>1, <4>3 DEF Grant
      <4>5. mine.session = r /\ mine.staged = "none"
        BY <4>3 DEF Grant
      <4> QED
        BY <4>2, <4>4, <4>5 DEF GrantOK
    <3> HIDE DEF mine
    <3>3. \/ grant' = mine /\ (ExchangeTo(r, "complete") \/ ExchangeTo(r, "replace"))
          \/ grant' = grant /\ ExchangeTo(r, "abandon")
      BY <1>5, <2>2 DEF Record, mine
    <3> QED
      BY <1>0, <3>1, <3>2, <3>3, ShapeTo, ShapeKeepsGrant
  <2> QED
    BY <2>1, <2>2
<1>6. CASE RevokeReplaced(r)
  BY <1>1, <1>6, RevokeShape DEF RevokeReplaced
<1>7. CASE ExchangeComplete(r)
  <2>1. CASE ExchangeFails(r, "abandon")
    BY <1>1, <1>7, <2>1 DEF ExchangeComplete
  <2>2. CASE ~ExchangeFails(r, "abandon")
    <3>1. complete(key, print, r, r) /\ exchange[r].pc = "complete"
          /\ (ExchangeTo(r, "answered") \/ ExchangeTo(r, "abandon"))
          /\ UNCHANGED <<grant, session, exchangeFailures>>
      BY <1>7, <2>2 DEF ExchangeComplete
    <3>2. StoreTyped'
      BY <1>0, <3>1, CompleteStep
    <3> QED
      BY <1>0, <3>1, <3>2, ShapeKeepsGrant
  <2> QED
    BY <2>1, <2>2
<1>8. CASE AbandonSession(r)
  BY <1>1, <1>8, RevokeShape DEF AbandonSession
<1>9. CASE AbandonGrant(r)
  <2>1. CASE ExchangeFails(r, "abort")
    BY <1>1, <1>9, <2>1 DEF AbandonGrant
  <2>2. CASE ~ExchangeFails(r, "abort")
    <3>1. /\ exchange[r].pc = "remove" /\ ExchangeTo(r, "abort") /\ StoreTyped'
          /\ UNCHANGED <<session, exchangeFailures>> /\ grant' \in {NoGrant, grant}
      BY <1>0, <1>9, <2>2 DEF AbandonGrant, StoreTyped
    <3>2. NoGrant \in Grant /\ GrantOK(NoGrant) /\ NoGrant.session = "none"
      BY DEF NoGrant, Grant, GrantOK
    <3> QED
      BY <1>0, <3>1, <3>2, ShapeTo
  <2> QED
    BY <2>1, <2>2
<1>10. CASE Abort(r)
  <2>1. CASE ExchangeFails(r, "refused")
    BY <1>1, <1>10, <2>1 DEF Abort
  <2>2. CASE ~ExchangeFails(r, "refused")
    <3>1. abort(key, print, r) /\ exchange[r].pc = "abort" /\ ExchangeTo(r, "refused")
          /\ UNCHANGED <<grant, session, exchangeFailures>>
      BY <1>10, <2>2 DEF Abort
    <3>2. StoreTyped'
      BY <1>0, <3>1, AbortStep
    <3> QED
      BY <1>0, <3>1, <3>2, ShapeKeepsGrant
  <2> QED
    BY <2>1, <2>2
<1> QED
  BY <1>2, <1>3, <1>4, <1>5, <1>6, <1>7, <1>8, <1>9, <1>10

(* So do those of a rotation, ...                                          *)
LEMMA RotationShape ==
    ASSUME ExchangeShape, NEW r \in Request, UNCHANGED <<now, logout>>,
           \/ ReadGrant(r) \/ RetireStaged(r) \/ ClearStaged(r) \/ RevokePrevious(r)
           \/ Mint(r) \/ Stage(r) \/ CompleteRotation(r) \/ RetireMint(r)
    PROVE  ExchangeShape'
<1> USE DEF FirstExchange, Rotation, Ended, PastMint, ExchangePc
<1>0. /\ StoreTyped /\ grant \in Grant /\ GrantOK(grant)
      /\ session \in [Request -> {"none", "live", "revoked"}]
      /\ exchangeFailures \in 0..MaxExchangeFailures
      /\ exchange \in [Request -> ExchangeRecord]
      /\ r # "none"
  BY IdempotencyAssumption DEF ExchangeShape
<1>1. ExchangeFails(r, "refused") => ExchangeShape'
  BY FailsShape
<1>2. ExchangeFails(r, "retire") /\ exchange[r].pc \in {"stage", "swap"} => ExchangeShape'
  BY FailsShape
<1>3. CASE ReadGrant(r)
  <2>1. PICK pc \in {"refused", "retire_staged", "revoke"} :
          ExchangeToSeeing(r, pc, grant) /\ (pc # "refused" => grant.session \in Request)
    BY <1>0, <1>3 DEF ReadGrant, GrantOK
  <2>2. PICK x \in ExchangeRecord :
          exchange' = [exchange EXCEPT ![r] = x] /\ x.pc = pc /\ x.seen = grant
    BY <1>0, <2>1, ExchangeSees
  <2>3. exchange[r].pc = "read" /\ StoreTyped' /\ UNCHANGED <<grant, session, exchangeFailures>>
    BY <1>0, <1>3 DEF ReadGrant, StoreTyped
  <2>4. x.pc \in Rotation \ {"read"} => x.seen.session \in Request
    BY <2>1, <2>2
  <2>5. exchange[r].pc \notin PastMint
    BY <2>3
  <2> HIDE DEF FirstExchange, Rotation, Ended, PastMint, ExchangePc
  <2> QED
    BY <1>0, <2>2, <2>3, <2>4, <2>5, ShapeMoves
<1>4. CASE RetireStaged(r)
  BY <1>1, <1>4, RevokeShape DEF RetireStaged
<1>5. CASE ClearStaged(r)
  <2>1. CASE ~ExchangeFails(r, "refused")
    <3>1. /\ exchange[r].pc = "clear" /\ StoreTyped' /\ UNCHANGED <<session, exchangeFailures>>
          /\ ExchangeTo(r, "revoke") \/ ExchangeTo(r, "refused")
          /\ grant' \in {grant, [grant EXCEPT !.staged = "none"]}
      BY <1>0, <1>5, <2>1 DEF ClearStaged, StoreTyped
    <3>2. /\ grant' \in Grant /\ grant'.session = grant.session
          /\ grant' = grant \/ grant'.staged = "none"
      BY <1>0, <3>1 DEF Grant
    <3>3. GrantOK(grant')
      <4>1. grant.session \in Request \/ grant = NoGrant
        BY <1>0 DEF GrantOK
      <4>2. CASE grant = NoGrant
        <5>1. NoGrant \in Grant /\ NoGrant.staged = "none"
          BY DEF NoGrant, Grant
        <5>2. [NoGrant EXCEPT !.staged = "none"] = NoGrant
          BY <5>1 DEF Grant
        <5> QED
          BY <3>1, <4>2, <5>2 DEF GrantOK
      <4>3. CASE grant.session \in Request
        BY <1>0, <3>2, <4>3, IdempotencyAssumption DEF GrantOK
      <4> QED
        BY <4>1, <4>2, <4>3
    <3> QED
      BY <1>0, <3>1, <3>2, <3>3, ShapeTo
  <2> QED
    BY <1>1, <1>5, <2>1
<1>6. CASE RevokePrevious(r)
  BY <1>1, <1>6, RevokeShape DEF RevokePrevious
<1>7. CASE Mint(r)
  <2>1. CASE ~ExchangeFails(r, "refused")
    <3>1. /\ exchange[r].pc = "mint" /\ ExchangeTo(r, "stage") /\ StoreTyped'
          /\ session' \in [Request -> {"none", "live", "revoked"}]
          /\ UNCHANGED <<grant, exchangeFailures>>
      BY <1>0, <1>7, <2>1 DEF Mint, StoreTyped
    <3> QED
      BY <1>0, <3>1, ShapeKeepsGrant
  <2> QED
    BY <1>1, <1>7, <2>1
<1>8. CASE Stage(r)
  <2>1. CASE ~ExchangeFails(r, "retire")
    <3>1. /\ exchange[r].pc = "stage" /\ StoreTyped' /\ UNCHANGED <<session, exchangeFailures>>
          /\ ExchangeTo(r, "swap") \/ ExchangeTo(r, "retire")
          /\ grant' = grant
             \/ (grant' = [grant EXCEPT !.staged = r] /\ Stageable(exchange[r].seen))
      BY <1>0, <1>8, <2>1 DEF Stage, StoreTyped
    <3>2. CASE grant' = grant
      BY <1>0, <3>1, <3>2, ShapeTo
    <3>3. CASE grant' = [grant EXCEPT !.staged = r] /\ Stageable(exchange[r].seen)
      <4>1. /\ grant' \in Grant /\ grant'.session = grant.session /\ grant'.staged = r
        BY <1>0, <3>3 DEF Grant
      <4>2. exchange[r].seen.session \in Request /\ Minted(grant.session, exchange)
        BY <3>1 DEF ExchangeShape
      <4>3. grant.session \in Request /\ grant.session # r
        BY <1>0, <3>1, <3>3, <4>2 DEF Stageable, Minted
      <4>4. GrantOK(grant')
        BY <4>1, <4>3 DEF GrantOK
      <4> QED
        BY <1>0, <3>1, <4>1, <4>4, ShapeTo
    <3> QED
      BY <3>1, <3>2, <3>3
  <2> QED
    BY <1>2, <1>8, <2>1 DEF Stage
<1>9. CASE CompleteRotation(r)
  <2>1. CASE ~ExchangeFails(r, "retire")
    <3> DEFINE swapped == [grant EXCEPT !.session = r, !.staged = "none", !.generation = @ + 1]
    <3>1. /\ exchange[r].pc = "swap" /\ StoreTyped' /\ UNCHANGED <<session, exchangeFailures>>
          /\ \/ grant' = grant /\ ExchangeTo(r, "retire")
             \/ grant' = swapped /\ ExchangeTo(r, "answered")
      BY <1>0, <1>9, <2>1 DEF CompleteRotation, StoreTyped
    <3>2. swapped \in Grant /\ swapped.session = r /\ swapped.staged = "none"
      <4>1. grant.generation + 1 \in Nat
        BY <1>0 DEF Grant
      <4> QED
        BY <1>0, <4>1 DEF Grant
    <3>3. GrantOK(swapped)
      BY <1>0, <3>2 DEF GrantOK
    <3> HIDE DEF swapped
    <3> QED
      BY <1>0, <3>1, <3>2, <3>3, ShapeTo
  <2> QED
    BY <1>2, <1>9, <2>1 DEF CompleteRotation
<1>10. CASE RetireMint(r)
  BY <1>1, <1>10, RevokeShape DEF RetireMint
<1> QED
  BY <1>3, <1>4, <1>5, <1>6, <1>7, <1>8, <1>9, <1>10

(* ... a request that begins, or is lost, and a logout.                    *)
LEMMA BeginLostShape ==
    ASSUME ExchangeShape, NEW r \in Request, UNCHANGED <<now, logout>>,
           ExchangeBegin(r) \/ ExchangeLost(r)
    PROVE  ExchangeShape'
<1>0. /\ StoreTyped /\ grant \in Grant /\ GrantOK(grant)
      /\ session \in [Request -> {"none", "live", "revoked"}]
      /\ exchangeFailures \in 0..MaxExchangeFailures
      /\ exchange \in [Request -> ExchangeRecord]
      /\ key \in Key /\ print \in Fingerprint
  BY ExchangeAssumption DEF ExchangeShape
<1>1. CASE ExchangeBegin(r)
  <2>1. /\ exchange[r].pc = "idle" /\ begin(key, print, r)
        /\ UNCHANGED <<grant, session, exchangeFailures>>
    BY <1>1 DEF ExchangeBegin
  <2>2. StoreTyped'
    BY <1>0, <2>1, BeginStep
  <2>3. PICK pc \in {"consume", "read", "refused"}, l \in BOOLEAN :
          exchange' = [exchange EXCEPT ![r] = [pc |-> pc, seen |-> NoGrant, late |-> l]]
    BY <1>1 DEF ExchangeBegin
  <2>4. NoGrant \in Grant /\ NoGrant.session = "none"
    BY DEF NoGrant, Grant
  <2> DEFINE x == [pc |-> pc, seen |-> NoGrant, late |-> l]
  <2>5. x \in ExchangeRecord /\ x.pc = pc /\ x.seen.session = "none"
    BY <2>4 DEF ExchangeRecord, FirstExchange, Rotation, Ended
  <2>6. exchange[r].pc \notin PastMint /\ exchange' = [exchange EXCEPT ![r] = x]
        /\ x.pc \notin Rotation \ {"read"}
    BY <2>1, <2>3 DEF PastMint, Rotation
  <2> HIDE DEF x
  <2> QED
    BY <1>0, <2>1, <2>2, <2>5, <2>6, ShapeMoves
<1>2. CASE ExchangeLost(r)
  <2>1. StoreTyped' /\ ExchangeTo(r, "crashed") /\ UNCHANGED <<grant, session, exchangeFailures>>
    BY <1>0, <1>2 DEF ExchangeLost, StoreTyped
  <2> QED
    BY <1>0, <2>1, ShapeKeepsGrant DEF ExchangePc, Ended, PastMint, Rotation
<1> QED
  BY <1>1, <1>2

LEMMA LogoutShape ==
    ASSUME ExchangeShape, NEW s \in Request, Logout(s)
    PROVE  ExchangeShape'
<1>1. StoreTyped' /\ UNCHANGED <<exchange, exchangeFailures>>
  BY DEF Logout, ExchangeShape, StoreTyped
<1>2. logout' \in [Request -> {"idle", "revoke_grant", "revoke_session", "done"}]
  BY DEF Logout, LogoutArrives, LogoutRevokesGrant, LogoutRevokesSession, ExchangeShape
<1>3. session' \in [Request -> {"none", "live", "revoked"}]
  BY RevokeEnds DEF Logout, LogoutArrives, LogoutRevokesGrant, LogoutRevokesSession, ExchangeShape
<1>4. grant' = grant \/ (grant # NoGrant /\ grant' = [grant EXCEPT !.revoked = TRUE])
  BY DEF Logout, LogoutArrives, LogoutRevokesGrant, LogoutRevokesSession
<1>5. grant' \in Grant /\ grant'.session = grant.session /\ GrantOK(grant')
  BY <1>4 DEF ExchangeShape, Grant, GrantOK
<1> QED
  BY <1>1, <1>2, <1>3, <1>5 DEF ExchangeShape, GrantOK

LEMMA ExchangeStepShape ==
    ASSUME ExchangeShape, [ExchangeNext]_exchangeVars
    PROVE  ExchangeShape'
<1>1. ASSUME NEW r \in Request, ExchangeStep(r) PROVE ExchangeShape'
  BY <1>1, FirstShape, RotationShape, BeginLostShape DEF ExchangeStep
<1>2. ASSUME NEW s \in Request, Logout(s) PROVE ExchangeShape'
  BY <1>2, LogoutShape
<1>3. CASE TimePasses
  <2>1. StoreTyped' /\ UNCHANGED exchangeOwn
    BY <1>3, IdempotencyAssumption DEF TimePasses, Tick, StoreTyped, ExchangeShape
  <2> QED
    BY <2>1 DEF exchangeOwn, ExchangeShape, GrantOK
<1>4. CASE UNCHANGED exchangeVars
  BY <1>4 DEF exchangeVars, exchangeOwn, ExchangeShape, GrantOK, StoreTyped
<1> QED
  BY <1>1, <1>2, <1>3, <1>4 DEF ExchangeNext

LEMMA ShapeIsType == ExchangeShape => ExchangeTypeOK
BY StoreTypedIsTypeOK DEF ExchangeShape, ExchangeTypeOK, Grant, GrantOK

(* A request that has nothing in hand is right whatever happens.           *)
Bystander(x) == x.pc \in {"idle", "refused", "crashed"} /\ ~x.late

LEMMA BystanderOK ==
    ASSUME NEW r, NEW x, NEW g, NEW S, NEW e, Bystander(x)
    PROVE  ExchangeOK(r, x, g, S, e)
BY DEF Bystander, ExchangeOK, FirstExchange, Rotation

(* While there is no record, only the claim's holder is at work.           *)
LEMMA NoRecordYet ==
    ASSUME ExchangeShape, ExchangeInv, entries[key].state # "completed", NEW q \in Request,
           entries[key].state = "in_progress" /\ entries[key].lease = q =>
              exchange[q].pc \in Ended
    PROVE  Bystander(exchange[q]) /\ logout[q] = "idle"
<1>1. /\ ExchangeOK(q, exchange[q], grant, session, entries[key])
      /\ exchange[q] \in ExchangeRecord /\ GrantKept
      /\ logout[q] \in {"idle", "revoke_grant", "revoke_session", "done"}
  BY DEF ExchangeInv, ExchangeShape
<1>2. exchange[q].pc \notin FirstExchange
  BY <1>1 DEF ExchangeOK, FirstExchange, Ended
<1>3. exchange[q].pc \notin Rotation \cup {"answered"} /\ ~exchange[q].late
  BY <1>1 DEF ExchangeOK
<1>4. exchange[q].pc \in Ended
  BY <1>1, <1>2, <1>3 DEF ExchangeRecord
<1> QED
  BY <1>1, <1>3, <1>4 DEF Bystander, Ended, GrantKept

(* A step of a first exchange: it alone is at work.                        *)
LEMMA FirstPreserves ==
    ASSUME ExchangeShape, ExchangeInv, NEW r \in Request, exchange[r].pc \in FirstExchange,
           NEW x, exchange' = [exchange EXCEPT ![r] = x], UNCHANGED <<now, logout>>,
           ExchangeOK(r, x, grant', session', entries'[key]),
           \/ entries' = entries
           \/ entries'[key] = AbsentEntry
           \/ /\ entries'[key].state = "completed" /\ entries'[key].fingerprint = print
              /\ grant'.session \in Request
    PROVE  ExchangeInv'
<1>1. entries[key].state = "in_progress" /\ entries[key].lease = r
  BY DEF ExchangeInv, ExchangeOK
<1>2. /\ exchange \in [Request -> ExchangeRecord] /\ exchange'[r] = x
      /\ \A q \in Request : q # r => exchange'[q] = exchange[q] /\ Bystander(exchange[q])
      /\ \A q \in Request : logout[q] = "idle"
  <2>1. \A q \in Request : logout[q] = "idle"
    BY <1>1, NoRecordYet DEF ExchangeInv, GrantKept, ExchangeShape
  <2>2. \A q \in Request : q # r => Bystander(exchange[q])
    BY <1>1, NoRecordYet
  <2> QED
    BY <2>1, <2>2 DEF ExchangeShape
<1>3. \A q \in Request : ExchangeOK(q, exchange'[q], grant', session', entries'[key])
  BY <1>2, BystanderOK
<1>4. exchange[r].pc \notin Ended /\ AbsentEntry.state = "absent"
  BY DEF FirstExchange, Ended, AbsentEntry
<1>5. ClaimFresh'
  <2>1. entries[key].started_at = now
    BY <1>1, <1>4 DEF ExchangeInv, ClaimFresh
  <2> QED
    BY <1>1, <1>4, <2>1 DEF ClaimFresh
<1>6. GrantKept'
  BY <1>1, <1>2, <1>4 DEF GrantKept, ExchangeInv
<1> QED
  BY <1>3, <1>5, <1>6 DEF ExchangeInv

(* A step of a rotation: it moves the grant only off a bearer that is dead,*)
(* and only its own mint comes to life.                                    *)
LEMMA RotationPreserves ==
    ASSUME ExchangeShape, ExchangeInv, NEW r \in Request, exchange[r].pc \in Rotation,
           NEW x, exchange' = [exchange EXCEPT ![r] = x], UNCHANGED <<entries, now, logout>>,
           ExchangeOK(r, x, grant', session', entries[key]),
           grant'.session \in Request, grant.revoked => grant'.revoked,
           grant'.session = grant.session \/ session[grant.session] # "live",
           \A q \in Request : session'[q] = "live" => session[q] = "live" \/ q = r
    PROVE  ExchangeInv'
<1>1. entries[key].state = "completed" /\ exchange[r].pc \notin Ended \cup PastMint
  <2>1. Rotation \cap (Ended \cup PastMint) = {}
    BY DEF Rotation, Ended, PastMint
  <2> QED
    BY <2>1 DEF ExchangeInv, ExchangeOK
<1>2. /\ exchange'[r] = x
      /\ \A q \in Request : q # r => exchange'[q] = exchange[q]
  BY DEF ExchangeShape
<1>3. ASSUME NEW q \in Request, q # r
      PROVE  ExchangeOK(q, exchange[q], grant', session', entries[key])
  <2>1. ExchangeOK(q, exchange[q], grant, session, entries[key])
    BY DEF ExchangeInv
  <2>2. exchange[q].pc \notin FirstExchange
    BY <1>1, <2>1 DEF ExchangeOK
  <2>3. exchange[q].pc \notin {"replace", "complete"}
    BY <2>2 DEF FirstExchange
  <2>4. exchange[q].pc \in {"mint", "stage", "swap"} =>
           session'[exchange[q].seen.session] # "live"
    <3> SUFFICES ASSUME exchange[q].pc \in {"mint", "stage", "swap"}
                 PROVE  session'[exchange[q].seen.session] # "live"
      OBVIOUS
    <3>1. exchange[q].pc \in Rotation \ {"read"}
      BY DEF Rotation
    <3>2. /\ exchange[q].seen.session \in Request
          /\ Minted(exchange[q].seen.session, exchange)
      BY <3>1 DEF ExchangeShape
    <3>3. exchange[q].seen.session # r
      BY <1>1, <3>2, IdempotencyAssumption DEF Minted
    <3> QED
      BY <2>1, <3>2, <3>3 DEF ExchangeOK
  <2>5. exchange[q].pc = "answered" /\ session'[q] = "live" => grant'.session = q
    BY <1>3, <2>1 DEF ExchangeOK
  <2>6. exchange[q].late =>
           /\ entries[key].state = "completed" /\ grant'.revoked
           /\ exchange[q].pc \in {"read", "refused", "crashed"}
    BY <2>1 DEF ExchangeOK
  <2> QED
    BY <1>1, <2>2, <2>3, <2>4, <2>5, <2>6 DEF ExchangeOK
<1>4. \A q \in Request : ExchangeOK(q, exchange'[q], grant', session', entries'[key])
  BY <1>2, <1>3
<1>5. ClaimFresh'
  BY <1>1 DEF ClaimFresh
<1>6. GrantKept'
  BY DEF GrantKept, ExchangeInv
<1> QED
  BY <1>4, <1>5, <1>6 DEF ExchangeInv

(* One of the two is where every step of a request belongs.                *)
LEMMA QuietPreserves ==
    ASSUME ExchangeShape, ExchangeInv, NEW r \in Request, NEW x \in ExchangeRecord,
           exchange[r].pc \in FirstExchange \cup Rotation,
           exchange' = [exchange EXCEPT ![r] = x],
           UNCHANGED <<entries, now, grant, logout>>,
           \A q \in Request : session'[q] = "live" => session[q] = "live" \/ q = r,
           ExchangeOK(r, x, grant, session', entries[key])
    PROVE  ExchangeInv'
<1>1. CASE exchange[r].pc \in FirstExchange
  BY <1>1, FirstPreserves
<1>2. CASE exchange[r].pc \in Rotation
  <2>1. grant.session \in Request
    BY <1>2 DEF ExchangeInv, ExchangeOK, GrantKept
  <2> QED
    BY <1>2, <2>1, RotationPreserves
<1> QED
  BY <1>1, <1>2

(* A failed call, a revocation and a crash leave the record and the grant. *)
LEMMA FailsPreserves ==
    ASSUME ExchangeShape, ExchangeInv, NEW r \in Request, NEW pc \in ExchangePc, ExchangeFails(r, pc),
           UNCHANGED <<now, logout>>,
           \/ exchange[r].pc \in FirstExchange /\ pc \in {"abandon", "abort", "refused"}
           \/ exchange[r].pc \in Rotation \ {"read"} /\ pc \in {"retire", "refused"}
    PROVE  ExchangeInv'
<1>1. PICK x \in ExchangeRecord :
        /\ exchange' = [exchange EXCEPT ![r] = x]
        /\ x.pc = pc /\ x.seen = exchange[r].seen /\ x.late = exchange[r].late
  BY ExchangeMoves DEF ExchangeFails, ExchangeShape
<1>2. ExchangeOK(r, exchange[r], grant, session, entries[key])
  BY DEF ExchangeInv
<1>3. ExchangeOK(r, x, grant, session, entries[key])
  BY <1>1, <1>2 DEF ExchangeOK, FirstExchange, Rotation
<1> QED
  BY <1>1, <1>3, QuietPreserves DEF ExchangeFails

LEMMA RevokePreserves ==
    ASSUME ExchangeShape, ExchangeInv, NEW r \in Request, NEW pc \in ExchangePc,
           ExchangeTo(r, pc), NEW s, Revoke(s),
           UNCHANGED <<entries, grant, consumed, exchangeFailures, now, logout>>,
           \/ exchange[r].pc = "replace" /\ pc = "complete"
           \/ exchange[r].pc = "abandon" /\ pc = "remove"
           \/ exchange[r].pc = "retire_staged" /\ pc = "clear"
           \/ exchange[r].pc = "revoke" /\ pc = "mint" /\ s = exchange[r].seen.session
           \/ exchange[r].pc = "retire" /\ pc = "refused"
    PROVE  ExchangeInv'
<1> USE DEF FirstExchange, Rotation
<1>1. PICK x \in ExchangeRecord :
        /\ exchange' = [exchange EXCEPT ![r] = x]
        /\ x.pc = pc /\ x.seen = exchange[r].seen /\ x.late = exchange[r].late
  BY ExchangeMoves DEF ExchangeShape
<1>2. ExchangeOK(r, exchange[r], grant, session, entries[key])
      /\ session \in [Request -> {"none", "live", "revoked"}]
      /\ (exchange[r].pc = "revoke" => exchange[r].seen.session \in Request)
  BY DEF ExchangeInv, ExchangeShape
<1>3. /\ \A q \in Request : session'[q] = "live" => session[q] = "live"
      /\ s \in Request => session'[s] # "live"
  BY <1>2, RevokeEnds
<1>4. exchange[r].pc \in FirstExchange \cup Rotation
  OBVIOUS
<1>5. ExchangeOK(r, x, grant, session', entries[key])
  BY <1>1, <1>2, <1>3 DEF ExchangeOK
<1> QED
  BY <1>1, <1>3, <1>4, <1>5, QuietPreserves

LEMMA LostPreserves ==
    ASSUME ExchangeShape, ExchangeInv, NEW r \in Request, ExchangeLost(r), UNCHANGED <<now, logout>>
    PROVE  ExchangeInv'
<1>1. PICK x \in ExchangeRecord :
        /\ exchange' = [exchange EXCEPT ![r] = x]
        /\ x.pc = "crashed" /\ x.late = exchange[r].late
  BY ExchangeMoves DEF ExchangeLost, ExchangeShape, ExchangePc, Ended
<1>2. exchange[r].pc \in FirstExchange \cup Rotation
  BY DEF ExchangeLost, ExchangeShape, ExchangeRecord
<1>3. ExchangeOK(r, exchange[r], grant, session, entries[key])
  BY DEF ExchangeInv
<1>4. ExchangeOK(r, x, grant, session, entries[key])
  BY <1>1, <1>3 DEF ExchangeOK, FirstExchange, Rotation
<1> QED
  BY <1>1, <1>2, <1>4, QuietPreserves DEF ExchangeLost

(* A request begins: it takes the claim when nobody is at work, or it is   *)
(* shown the record.                                                       *)
LEMMA ExchangeBeginPreserves ==
    ASSUME ExchangeShape, ExchangeInv, NEW r \in Request, ExchangeBegin(r),
           UNCHANGED <<now, logout>>
    PROVE  ExchangeInv'
<1> DEFINE outcome == BeginOutcome(key, print)
           late == \E s \in Request : logout[s] = "done"
           x == [pc |-> IF outcome = "started" THEN "consume"
                        ELSE IF outcome = "replay" THEN "read" ELSE "refused",
                 seen |-> NoGrant, late |-> late]
<1>0. /\ StoreTyped /\ key \in Key /\ print \in Fingerprint
      /\ entries[key] \in Entry_ /\ AbsentEntry.state = "absent"
  BY ExchangeAssumption DEF ExchangeShape, StoreTyped, AbsentEntry
<1>1. /\ exchange[r].pc = "idle" /\ begin(key, print, r)
      /\ exchange' = [exchange EXCEPT ![r] = x] /\ UNCHANGED <<grant, session>>
  BY DEF ExchangeBegin
<1>2. /\ outcome = "started" => entries'[key] = InProgress(print, r)
      /\ outcome # "started" => entries' = entries
  BY <1>0, <1>1, BeginStep
<1>3. late => entries[key].state = "completed" /\ grant.revoked
  BY DEF ExchangeInv, GrantKept
<1> HIDE DEF late
<1>4. /\ exchange'[r] = x /\ \A q \in Request : q # r => exchange'[q] = exchange[q]
  BY <1>1 DEF ExchangeShape
<1>5. CASE outcome = "started"
  <2>1. /\ x.pc = "consume" /\ x.late = late
        /\ entries'[key].state = "in_progress" /\ entries'[key].lease = r
        /\ entries'[key].fingerprint = print /\ entries'[key].started_at = now
    BY <1>2, <1>5 DEF InProgress
  <2>2. /\ entries[key].state # "completed"
        /\ entries[key].state = "in_progress" => exchange[entries[key].lease].pc \in Ended
    <3>1. \/ entries[key] = AbsentEntry
          \/ entries[key].state = "in_progress" /\ Stale(entries[key])
      BY <1>0, <1>5, BeginCases
    <3>2. entries[key].state = "in_progress" /\ Stale(entries[key]) =>
            entries[key].started_at # now
      BY <1>0, EntryKinds, IdempotencyAssumption DEF Stale, StoreTyped
    <3> QED
      BY <1>0, <3>1, <3>2 DEF ExchangeInv, ClaimFresh
  <2>3. \A q \in Request : Bystander(exchange[q]) /\ logout[q] = "idle"
    BY <2>2, NoRecordYet
  <2>4. ExchangeOK(r, x, grant', session', entries'[key])
    BY <1>3, <2>1, <2>2 DEF ExchangeOK, Rotation
  <2> HIDE DEF x
  <2>5. \A q \in Request : ExchangeOK(q, exchange'[q], grant', session', entries'[key])
    BY <1>4, <2>3, <2>4, BystanderOK
  <2>6. ClaimFresh' /\ GrantKept'
    BY <2>1, <2>3 DEF ClaimFresh, GrantKept
  <2> QED
    BY <2>5, <2>6 DEF ExchangeInv
<1>6. CASE outcome # "started"
  <2>1. /\ x.pc \in {"read", "refused"} /\ x.late = late
        /\ x.pc = "read" => entries[key].state = "completed"
    BY <1>0, <1>6, BeginCases
  <2>2. ExchangeOK(r, x, grant, session, entries[key])
    BY <1>3, <2>1 DEF ExchangeOK, FirstExchange, Rotation
  <2> HIDE DEF x
  <2>3. \A q \in Request : ExchangeOK(q, exchange'[q], grant', session', entries'[key])
    BY <1>1, <1>2, <1>4, <1>6, <2>2 DEF ExchangeInv
  <2>4. ClaimFresh' /\ GrantKept'
    <3>1. entries[key].state = "in_progress" => entries[key].lease # r \/ x.pc \in Ended
      BY <2>1 DEF Ended
    <3>2. entries[key].state = "in_progress" => entries[key].lease \in Request
      BY <1>0, EntryKinds
    <3> QED
      BY <1>1, <1>2, <1>4, <1>6, <3>1, <3>2 DEF ClaimFresh, GrantKept, ExchangeInv
  <2> QED
    BY <2>3, <2>4 DEF ExchangeInv
<1> QED
  BY <1>5, <1>6

LEMMA FirstStepPreserves ==
    ASSUME ExchangeShape, ExchangeInv, NEW r \in Request, UNCHANGED <<now, logout>>,
           \/ Consume(r) \/ Issue(r) \/ ReadCurrent(r) \/ Record(r) \/ RevokeReplaced(r)
           \/ ExchangeComplete(r) \/ AbandonSession(r) \/ AbandonGrant(r) \/ Abort(r)
    PROVE  ExchangeInv'
<1>0. /\ StoreTyped /\ key \in Key /\ print \in Fingerprint /\ r \in Response
      /\ grant \in Grant /\ exchange \in [Request -> ExchangeRecord]
      /\ session \in [Request -> {"none", "live", "revoked"}]
      /\ ExchangeOK(r, exchange[r], grant, session, entries[key])
  BY ExchangeAssumption, IdempotencyAssumption DEF ExchangeShape, ExchangeInv
<1>1. \A pc \in {"abort", "abandon", "refused"} :
         ExchangeFails(r, pc) /\ exchange[r].pc \in FirstExchange => ExchangeInv'
  BY FailsPreserves DEF ExchangePc, FirstExchange, Ended
<1> USE DEF FirstExchange, Rotation
<1>2. \A pc \in ExchangePc : ExchangeTo(r, pc) =>
        \E x \in ExchangeRecord :
           /\ exchange' = [exchange EXCEPT ![r] = x]
           /\ x.pc = pc /\ x.seen = exchange[r].seen /\ x.late = exchange[r].late
  BY <1>0, ExchangeMoves
<1>3. CASE Consume(r)
  <2>1. PICK pc \in {"issue", "abort"} : ExchangeTo(r, pc)
    BY <1>3 DEF Consume
  <2>2. PICK x \in ExchangeRecord :
          exchange' = [exchange EXCEPT ![r] = x] /\ x.pc = pc /\ x.late = exchange[r].late
    BY <1>2, <2>1 DEF ExchangePc
  <2>3. exchange[r].pc = "consume" /\ UNCHANGED <<entries, grant, session>>
    BY <1>3 DEF Consume
  <2>4. ExchangeOK(r, x, grant, session, entries[key])
    BY <1>0, <2>2, <2>3 DEF ExchangeOK
  <2> QED
    BY <2>2, <2>3, <2>4, QuietPreserves
<1>4. CASE Issue(r)
  <2>1. CASE ~ExchangeFails(r, "abort")
    <3>1. /\ exchange[r].pc = "issue" /\ ExchangeTo(r, "read_current")
          /\ UNCHANGED <<entries, grant>> /\ session' = [session EXCEPT ![r] = "live"]
      BY <1>4, <2>1 DEF Issue
    <3>2. PICK x \in ExchangeRecord :
            exchange' = [exchange EXCEPT ![r] = x] /\ x.pc = "read_current"
            /\ x.late = exchange[r].late
      BY <1>2, <3>1 DEF ExchangePc
    <3>3. ExchangeOK(r, x, grant, session', entries[key])
      BY <1>0, <3>1, <3>2 DEF ExchangeOK
    <3>4. \A q \in Request : session'[q] = "live" => session[q] = "live" \/ q = r
      BY <1>0, <3>1
    <3> QED
      BY <3>1, <3>2, <3>3, <3>4, QuietPreserves
  <2> QED
    BY <1>1, <1>4, <2>1 DEF Issue
<1>5. CASE ReadCurrent(r)
  <2>1. PICK x \in ExchangeRecord :
          exchange' = [exchange EXCEPT ![r] = x] /\ x.pc = "record" /\ x.late = exchange[r].late
    <3>1. ExchangeToSeeing(r, "record", grant) /\ "record" \in ExchangePc
      BY <1>5 DEF ReadCurrent, ExchangePc
    <3> QED
      BY <1>0, <3>1, ExchangeSees
  <2>2. exchange[r].pc = "read_current" /\ UNCHANGED <<entries, grant, session>>
    BY <1>5 DEF ReadCurrent
  <2>3. ExchangeOK(r, x, grant, session, entries[key])
    BY <1>0, <2>1, <2>2 DEF ExchangeOK
  <2> QED
    BY <2>1, <2>2, <2>3, QuietPreserves
<1>6. CASE Record(r)
  <2>1. CASE ~ExchangeFails(r, "abandon")
    <3>1. PICK pc \in {"abandon", "complete", "replace"} :
            ExchangeTo(r, pc) /\ (pc # "abandon" => Recordable(exchange[r].seen))
      BY <1>6, <2>1 DEF Record
    <3>2. exchange[r].pc = "record" /\ UNCHANGED <<entries, session>>
      BY <1>6, <2>1 DEF Record
    <3>3. pc # "abandon" => grant'.session = r
      <4>1. NoGrant \in Grant
        BY DEF NoGrant, Grant
      <4> QED
        BY <1>6, <2>1, <3>1, <4>1 DEF Record, Grant
    <3>4. PICK x \in ExchangeRecord :
            exchange' = [exchange EXCEPT ![r] = x] /\ x.pc = pc /\ x.late = exchange[r].late
      BY <1>2, <3>1 DEF ExchangePc
    <3>5. ExchangeOK(r, x, grant', session', entries'[key])
      BY <1>0, <3>2, <3>3, <3>4 DEF ExchangeOK
    <3> QED
      BY <3>2, <3>4, <3>5, FirstPreserves
  <2> QED
    BY <1>1, <1>6, <2>1 DEF Record
<1>7. CASE RevokeReplaced(r)
  BY <1>1, <1>7, RevokePreserves DEF RevokeReplaced, ExchangePc
<1>8. CASE ExchangeComplete(r)
  <2>1. CASE ~ExchangeFails(r, "abandon")
    <3>1. /\ exchange[r].pc = "complete" /\ complete(key, print, r, r)
          /\ UNCHANGED <<grant, session>>
          /\ ExchangeTo(r, IF Holds(key, print, r) THEN "answered" ELSE "abandon")
      BY <1>8, <2>1 DEF ExchangeComplete
    <3>2. entries[key].state = "in_progress" /\ entries[key].lease = r /\ grant.session = r
      BY <1>0, <3>1 DEF ExchangeOK
    <3>3. entries[key].fingerprint = print
      BY <3>2 DEF ExchangeInv, GrantKept, AbsentEntry
    <3>4. entries'[key] = Completed(print, r) /\ ExchangeTo(r, "answered")
      BY <1>0, <3>1, <3>2, <3>3, CompleteStep DEF Holds
    <3>5. PICK x \in ExchangeRecord :
            exchange' = [exchange EXCEPT ![r] = x] /\ x.pc = "answered"
            /\ x.late = exchange[r].late
      BY <1>2, <3>4 DEF ExchangePc, Ended
    <3>6. entries'[key].state = "completed" /\ entries'[key].fingerprint = print
      BY <3>4 DEF Completed
    <3>7. ExchangeOK(r, x, grant', session', entries'[key])
      BY <1>0, <3>1, <3>2, <3>5, <3>6 DEF ExchangeOK
    <3> QED
      BY <3>1, <3>2, <3>5, <3>6, <3>7, FirstPreserves
  <2> QED
    BY <1>1, <1>8, <2>1 DEF ExchangeComplete
<1>9. CASE AbandonSession(r)
  BY <1>1, <1>9, RevokePreserves DEF AbandonSession, ExchangePc
<1>10. CASE AbandonGrant(r)
  <2>1. CASE ~ExchangeFails(r, "abort")
    <3>1. exchange[r].pc = "remove" /\ ExchangeTo(r, "abort") /\ UNCHANGED <<entries, session>>
      BY <1>10, <2>1 DEF AbandonGrant
    <3>2. PICK x \in ExchangeRecord :
            exchange' = [exchange EXCEPT ![r] = x] /\ x.pc = "abort" /\ x.late = exchange[r].late
      BY <1>2, <3>1 DEF ExchangePc
    <3>3. ExchangeOK(r, x, grant', session', entries'[key])
      BY <1>0, <3>1, <3>2 DEF ExchangeOK
    <3> QED
      BY <3>1, <3>2, <3>3, FirstPreserves
  <2> QED
    BY <1>1, <1>10, <2>1 DEF AbandonGrant
<1>11. CASE Abort(r)
  <2>1. CASE ~ExchangeFails(r, "refused")
    <3>1. /\ exchange[r].pc = "abort" /\ ExchangeTo(r, "refused") /\ UNCHANGED <<grant, session>>
          /\ abort(key, print, r)
      BY <1>11, <2>1 DEF Abort
    <3>2. entries' = entries \/ entries'[key] = AbsentEntry
      BY <1>0, <3>1, AbortStep
    <3>3. PICK x \in ExchangeRecord :
            exchange' = [exchange EXCEPT ![r] = x] /\ x.pc = "refused"
            /\ x.late = exchange[r].late
      BY <1>2, <3>1 DEF ExchangePc, Ended
    <3>4. ExchangeOK(r, x, grant', session', entries'[key])
      BY <1>0, <3>1, <3>3 DEF ExchangeOK
    <3> QED
      BY <3>1, <3>2, <3>3, <3>4, FirstPreserves
  <2> QED
    BY <1>1, <1>11, <2>1 DEF Abort
<1> QED
  BY <1>3, <1>4, <1>5, <1>6, <1>7, <1>8, <1>9, <1>10, <1>11

LEMMA RotationStepPreserves ==
    ASSUME ExchangeShape, ExchangeInv, NEW r \in Request, UNCHANGED <<now, logout>>,
           \/ ReadGrant(r) \/ RetireStaged(r) \/ ClearStaged(r) \/ RevokePrevious(r)
           \/ Mint(r) \/ Stage(r) \/ CompleteRotation(r) \/ RetireMint(r)
    PROVE  ExchangeInv'
<1>0. /\ grant \in Grant /\ exchange \in [Request -> ExchangeRecord]
      /\ session \in [Request -> {"none", "live", "revoked"}]
      /\ ExchangeOK(r, exchange[r], grant, session, entries[key])
      /\ exchange[r].pc \in Rotation \ {"read"} => exchange[r].seen.session \in Request
      /\ Minted(exchange[r].seen.session, exchange)
      /\ r # "none"
  BY IdempotencyAssumption DEF ExchangeShape, ExchangeInv
<1>1. \A pc \in {"retire", "refused"} :
         ExchangeFails(r, pc) /\ exchange[r].pc \in Rotation \ {"read"} => ExchangeInv'
  BY FailsPreserves DEF ExchangePc, Rotation, Ended
<1>2. exchange[r].pc \in Rotation => entries[key].state = "completed" /\ grant.session \in Request
  BY <1>0 DEF ExchangeOK, ExchangeInv, GrantKept
<1> USE DEF FirstExchange, Rotation
<1>3. \A pc \in ExchangePc : ExchangeTo(r, pc) =>
        \E x \in ExchangeRecord :
           /\ exchange' = [exchange EXCEPT ![r] = x]
           /\ x.pc = pc /\ x.seen = exchange[r].seen /\ x.late = exchange[r].late
  BY <1>0, ExchangeMoves
<1>4. CASE ReadGrant(r)
  <2>1. PICK pc \in {"refused", "retire_staged", "revoke"} :
          ExchangeToSeeing(r, pc, grant) /\ (grant.revoked => pc = "refused")
    BY <1>4 DEF ReadGrant
  <2>2. PICK x \in ExchangeRecord :
          exchange' = [exchange EXCEPT ![r] = x] /\ x.pc = pc /\ x.late = exchange[r].late
    <3>1. pc \in ExchangePc
      BY DEF ExchangePc, Ended
    <3> QED
      BY <1>0, <2>1, <3>1, ExchangeSees
  <2>3. exchange[r].pc = "read" /\ UNCHANGED <<entries, grant, session>>
    BY <1>4 DEF ReadGrant
  <2>4. ExchangeOK(r, x, grant, session, entries[key])
    BY <1>0, <2>1, <2>2, <2>3 DEF ExchangeOK
  <2> QED
    BY <2>2, <2>3, <2>4, QuietPreserves
<1>5. CASE RetireStaged(r)
  BY <1>1, <1>5, RevokePreserves DEF RetireStaged, ExchangePc
<1>6. CASE ClearStaged(r)
  <2>1. CASE ~ExchangeFails(r, "refused")
    <3>1. PICK pc \in {"revoke", "refused"} : ExchangeTo(r, pc)
      BY <1>6, <2>1 DEF ClearStaged
    <3>2. exchange[r].pc = "clear" /\ UNCHANGED <<entries, session>>
          /\ grant' \in {grant, [grant EXCEPT !.staged = "none"]}
      BY <1>6, <2>1 DEF ClearStaged
    <3>3. grant'.session = grant.session /\ grant'.revoked = grant.revoked
      BY <1>0, <3>2 DEF Grant
    <3>4. PICK x \in ExchangeRecord :
            exchange' = [exchange EXCEPT ![r] = x] /\ x.pc = pc /\ x.late = exchange[r].late
      BY <1>3, <3>1 DEF ExchangePc, Ended
    <3>5. ExchangeOK(r, x, grant', session', entries[key])
      BY <1>0, <3>2, <3>3, <3>4 DEF ExchangeOK
    <3> QED
      BY <1>2, <3>2, <3>3, <3>4, <3>5, RotationPreserves
  <2> QED
    BY <1>1, <1>6, <2>1 DEF ClearStaged
<1>7. CASE RevokePrevious(r)
  BY <1>1, <1>7, RevokePreserves DEF RevokePrevious, ExchangePc
<1>8. CASE Mint(r)
  <2>1. CASE ~ExchangeFails(r, "refused")
    <3>1. /\ exchange[r].pc = "mint" /\ ExchangeTo(r, "stage")
          /\ UNCHANGED <<entries, grant>> /\ session' = [session EXCEPT ![r] = "live"]
      BY <1>8, <2>1 DEF Mint
    <3>2. PICK x \in ExchangeRecord :
            /\ exchange' = [exchange EXCEPT ![r] = x] /\ x.pc = "stage"
            /\ x.seen = exchange[r].seen /\ x.late = exchange[r].late
      BY <1>3, <3>1 DEF ExchangePc
    <3>3. exchange[r].seen.session # r
      BY <1>0, <3>1 DEF Minted, PastMint
    <3>4. ExchangeOK(r, x, grant, session', entries[key])
      BY <1>0, <3>1, <3>2, <3>3 DEF ExchangeOK
    <3>5. \A q \in Request : session'[q] = "live" => session[q] = "live" \/ q = r
      BY <1>0, <3>1
    <3> QED
      BY <3>1, <3>2, <3>4, <3>5, QuietPreserves
  <2> QED
    BY <1>1, <1>8, <2>1 DEF Mint
<1>9. CASE Stage(r)
  <2>1. CASE ~ExchangeFails(r, "retire")
    <3>1. PICK pc \in {"swap", "retire"} : ExchangeTo(r, pc)
      BY <1>9, <2>1 DEF Stage
    <3>2. exchange[r].pc = "stage" /\ UNCHANGED <<entries, session>>
          /\ grant' \in {grant, [grant EXCEPT !.staged = r]}
      BY <1>9, <2>1 DEF Stage
    <3>3. grant'.session = grant.session /\ grant'.revoked = grant.revoked
      BY <1>0, <3>2 DEF Grant
    <3>4. PICK x \in ExchangeRecord :
            /\ exchange' = [exchange EXCEPT ![r] = x] /\ x.pc = pc
            /\ x.seen = exchange[r].seen /\ x.late = exchange[r].late
      BY <1>3, <3>1 DEF ExchangePc
    <3>5. ExchangeOK(r, x, grant', session', entries[key])
      BY <1>0, <3>2, <3>3, <3>4 DEF ExchangeOK
    <3> QED
      BY <1>2, <3>2, <3>3, <3>4, <3>5, RotationPreserves
  <2> QED
    BY <1>1, <1>9, <2>1 DEF Stage
<1>10. CASE CompleteRotation(r)
  <2>1. CASE ~ExchangeFails(r, "retire")
    <3> DEFINE swapped == [grant EXCEPT !.session = r, !.staged = "none", !.generation = @ + 1]
    <3>1. /\ exchange[r].pc = "swap" /\ UNCHANGED <<entries, session>>
          /\ \/ grant' = grant /\ ExchangeTo(r, "retire")
             \/ /\ grant' = swapped /\ ExchangeTo(r, "answered")
                /\ grant.session = exchange[r].seen.session
      BY <1>10, <2>1 DEF CompleteRotation, StagedIs
    <3>2. swapped.session = r /\ swapped.revoked = grant.revoked
      BY <1>0 DEF Grant
    <3> HIDE DEF swapped
    <3>3. CASE grant' = grant /\ ExchangeTo(r, "retire")
      <4>1. PICK x \in ExchangeRecord :
              exchange' = [exchange EXCEPT ![r] = x] /\ x.pc = "retire"
              /\ x.late = exchange[r].late
        BY <1>3, <3>3 DEF ExchangePc
      <4>2. ExchangeOK(r, x, grant, session, entries[key])
        BY <1>0, <3>1, <4>1 DEF ExchangeOK
      <4> QED
        BY <3>1, <3>3, <4>1, <4>2, QuietPreserves
    <3>4. CASE /\ grant' = swapped /\ ExchangeTo(r, "answered")
               /\ grant.session = exchange[r].seen.session
      <4>1. PICK x \in ExchangeRecord :
              exchange' = [exchange EXCEPT ![r] = x] /\ x.pc = "answered"
              /\ x.late = exchange[r].late
        BY <1>3, <3>4 DEF ExchangePc, Ended
      <4>2. ExchangeOK(r, x, grant', session', entries[key])
        BY <1>0, <3>1, <3>2, <3>4, <4>1 DEF ExchangeOK
      <4>3. session[grant.session] # "live"
        BY <1>0, <3>1, <3>4 DEF ExchangeOK
      <4> QED
        BY <1>2, <3>1, <3>2, <3>4, <4>1, <4>2, <4>3, RotationPreserves
    <3> QED
      BY <3>1, <3>3, <3>4
  <2> QED
    BY <1>1, <1>10, <2>1 DEF CompleteRotation
<1>11. CASE RetireMint(r)
  BY <1>1, <1>11, RevokePreserves DEF RetireMint, ExchangePc, Ended
<1> QED
  BY <1>4, <1>5, <1>6, <1>7, <1>8, <1>9, <1>10, <1>11

(* A logout closes the grant, and only takes a bearer away.                *)
LEMMA LogoutPreserves ==
    ASSUME ExchangeShape, ExchangeInv, NEW s \in Request, Logout(s)
    PROVE  ExchangeInv'
<1> USE DEF Logout, LogoutArrives, LogoutRevokesGrant, LogoutRevokesSession
<1>0. /\ grant \in Grant /\ session \in [Request -> {"none", "live", "revoked"}]
      /\ logout \in [Request -> {"idle", "revoke_grant", "revoke_session", "done"}]
      /\ exchange \in [Request -> ExchangeRecord]
      /\ GrantKept /\ UNCHANGED <<entries, now, exchange>>
      /\ \A q \in Request : ExchangeOK(q, exchange[q], grant, session, entries[key])
  BY DEF ExchangeShape, ExchangeInv
<1>1. entries[key].state = "completed"
  BY <1>0 DEF ExchangeOK, GrantKept
<1>2. grant.session \in Request /\ grant # NoGrant
  BY <1>0, <1>1, IdempotencyAssumption DEF GrantKept, NoGrant
<1>3. grant'.session = grant.session /\ (grant.revoked => grant'.revoked)
      /\ (logout'[s] \in {"revoke_session", "done"} => grant'.revoked)
  <2>1. CASE LogoutArrives(s)
    BY <1>0, <2>1
  <2>2. CASE LogoutRevokesGrant(s)
    BY <1>0, <1>2, <2>2 DEF Grant
  <2>3. CASE LogoutRevokesSession(s)
    BY <1>0, <2>3 DEF GrantKept
  <2> QED
    BY <2>1, <2>2, <2>3
<1>4. \A q \in Request : session'[q] = "live" => session[q] = "live"
  BY <1>0, RevokeEnds
<1>5. \A q \in Request : q # s => logout'[q] = logout[q]
  BY <1>0
<1>6. \A q \in Request : ExchangeOK(q, exchange[q], grant', session', entries[key])
  <2> SUFFICES ASSUME NEW q \in Request
               PROVE  ExchangeOK(q, exchange[q], grant', session', entries[key])
    OBVIOUS
  <2>1. exchange[q].pc \in {"mint", "stage", "swap"} => exchange[q].seen.session \in Request
    BY DEF ExchangeShape, Rotation
  <2> QED
    BY <1>0, <1>3, <1>4, <2>1 DEF ExchangeOK
<1>7. GrantKept' /\ ClaimFresh'
  BY <1>0, <1>1, <1>3, <1>5 DEF GrantKept, ClaimFresh, ExchangeInv
<1> QED
  BY <1>0, <1>6, <1>7 DEF ExchangeInv

(* Together.  A running request does not outlive its claim.                *)
LEMMA ExchangeStepInv ==
    ASSUME ~SlowRequests, ExchangeShape, ExchangeInv, [ExchangeNext]_exchangeVars
    PROVE  ExchangeInv'
<1>1. ASSUME NEW r \in Request, ExchangeStep(r) PROVE ExchangeInv'
  BY <1>1, FirstStepPreserves, RotationStepPreserves, ExchangeBeginPreserves, LostPreserves
  DEF ExchangeStep
<1>2. ASSUME NEW s \in Request, Logout(s) PROVE ExchangeInv'
  BY <1>2, LogoutPreserves
<1>3. CASE TimePasses
  <2>1. UNCHANGED <<entries, exchangeOwn>>
        /\ (entries[key].state = "in_progress" => exchange[entries[key].lease].pc \in Ended)
    BY <1>3 DEF TimePasses, Tick
  <2> QED
    BY <2>1 DEF exchangeOwn, ExchangeInv, ClaimFresh, GrantKept
<1>4. CASE UNCHANGED exchangeVars
  BY <1>4 DEF exchangeVars, exchangeOwn, ExchangeInv, ClaimFresh, GrantKept
<1> QED
  BY <1>1, <1>2, <1>3, <1>4 DEF ExchangeNext

LEMMA InvFencesBearers ==
    ASSUME ExchangeInv
    PROVE  BearersAreFenced
<1>1. BearerIsRecorded /\ LogoutClosesReplay
  BY DEF ExchangeInv, ExchangeOK, BearerIsRecorded, LogoutClosesReplay, Delivered
<1>2. SingleBearer
  BY <1>1 DEF BearerIsRecorded, SingleBearer
<1> QED
  BY <1>1, <1>2 DEF BearersAreFenced

-----------------------------------------------------------------------------
(* The callers together: one kind is at work, the others are at rest.      *)

WaffoAtRest ==
    action = [c \in Request |-> NotCalled] /\ received = [k \in ActionKey |-> {}]

ReplyAtRest ==
    /\ thread = [revision |-> 0, messages |-> {}]
    /\ receipts = [k \in ReplyKey |-> NoReceipt]
    /\ reply = [r \in Request |-> NoReply] /\ replyFailures = 0

ExchangeAtRest == exchange = [r \in Request |-> NoExchange]

ClientsInv ==
    /\ client \in {"waffo", "reply", "exchange"}
    /\ IF client = "waffo" THEN WaffoInv ELSE WaffoAtRest
    /\ IF client = "reply" THEN ReplyInv ELSE ReplyAtRest
    /\ ExchangeShape /\ (client # "exchange" => ExchangeAtRest)

(* What holds of the exchange besides, when claims do not expire under it. *)
ClientsFenced == client = "exchange" => ExchangeInv

LEMMA ClientsStep ==
    ASSUME ClientsInv, [ClientsNext]_clientVars
    PROVE  ClientsInv' /\ (~SlowRequests /\ ClientsFenced => ClientsFenced')
<1>0. client' = client /\ client \in {"waffo", "reply", "exchange"}
  BY DEF ClientsInv, ClientsNext, clientVars
<1>1. ASSUME UNCHANGED exchangeOwn, StoreTyped' PROVE ExchangeShape'
  BY <1>1 DEF ClientsInv, ExchangeShape, GrantOK, exchangeOwn
<1>2. CASE client = "waffo"
  <2>1. [WaffoNext]_waffoVars /\ UNCHANGED <<thread, receipts, reply, replyFailures, exchangeOwn>>
    BY <1>2 DEF ClientsNext, clientVars, waffoVars
  <2>2. WaffoInv'
    BY <1>2, <2>1, WaffoStep DEF ClientsInv
  <2>3. ReplyAtRest' /\ ExchangeAtRest'
    BY <1>2, <2>1 DEF ClientsInv, ReplyAtRest, ExchangeAtRest, exchangeOwn
  <2>4. ExchangeShape'
    BY <1>1, <2>1, <2>2 DEF WaffoInv
  <2> QED
    BY <1>0, <1>2, <2>2, <2>3, <2>4 DEF ClientsInv, ClientsFenced
<1>3. CASE client = "reply"
  <2>1. [ReplyNext]_replyVars /\ UNCHANGED <<action, received, exchangeOwn>>
    BY <1>3 DEF ClientsNext, clientVars, replyVars
  <2>2. ReplyInv'
    BY <1>3, <2>1, ReplyNextPreserves DEF ClientsInv
  <2>3. WaffoAtRest' /\ ExchangeAtRest'
    BY <1>3, <2>1 DEF ClientsInv, WaffoAtRest, ExchangeAtRest, exchangeOwn
  <2>4. ExchangeShape'
    BY <1>1, <2>1, <2>2 DEF ReplyInv
  <2> QED
    BY <1>0, <1>3, <2>2, <2>3, <2>4 DEF ClientsInv, ClientsFenced
<1>4. CASE client = "exchange"
  <2>1. [ExchangeNext]_exchangeVars
        /\ UNCHANGED <<action, received, thread, receipts, reply, replyFailures>>
    BY <1>4 DEF ClientsNext, clientVars, exchangeVars
  <2>2. ExchangeShape'
    BY <2>1, ExchangeStepShape DEF ClientsInv
  <2>3. WaffoAtRest' /\ ReplyAtRest'
    BY <1>4, <2>1 DEF ClientsInv, WaffoAtRest, ReplyAtRest
  <2>4. ~SlowRequests /\ ClientsFenced => ClientsFenced'
    BY <1>4, <2>1, ExchangeStepInv DEF ClientsInv, ClientsFenced
  <2> QED
    BY <1>0, <1>4, <2>2, <2>3, <2>4 DEF ClientsInv
<1> QED
  BY <1>0, <1>2, <1>3, <1>4

LEMMA ClientsInitInv == ClientsInit => ClientsInv /\ ClientsFenced
<1> SUFFICES ASSUME ClientsInit PROVE ClientsInv /\ ClientsFenced
  OBVIOUS
<1>1. WaffoInv /\ WaffoAtRest
  BY WaffoInitInv DEF ClientsInit, WaffoInit, WaffoAtRest
<1>2. ReplyInv /\ ReplyAtRest
  BY ReplyInitInv DEF ClientsInit, ReplyInit, ReplyAtRest
<1>3. ExchangeShape /\ ExchangeInv /\ ExchangeAtRest
  BY ExchangeInitInv DEF ClientsInit, ExchangeInit, ExchangeAtRest
<1> QED
  BY <1>1, <1>2, <1>3 DEF ClientsInit, ClientsInv, ClientsFenced

LEMMA RestIsSound ==
    ASSUME StoreTyped
    PROVE  /\ WaffoAtRest => WaffoTypeOK /\ ActionAnsweredOnce
           /\ ReplyAtRest => ReplyTypeOK /\ ReplyCommittedOnce
           /\ ExchangeAtRest => BearersAreFenced
<1>1. ASSUME WaffoAtRest PROVE WaffoTypeOK /\ ActionAnsweredOnce
  <2>1. \A c \in Request : action[c] = NotCalled /\ action[c].pc = "idle"
    BY <1>1 DEF WaffoAtRest, NotCalled
  <2>2. \A k \in ActionKey : received[k] = {}
    BY <1>1 DEF WaffoAtRest
  <2>3. received \in [ActionKey -> SUBSET Request]
    BY <1>1 DEF WaffoAtRest
  <2> QED
    BY <2>1, <2>2, <2>3, StoreTypedIsTypeOK
    DEF WaffoTypeOK, ActionAnsweredOnce, OneAnswerPerScope, SecondSendHasCause
<1>2. ASSUME ReplyAtRest PROVE ReplyTypeOK /\ ReplyCommittedOnce
  <2>1. /\ \A r \in Request : reply[r].pc = "idle"
        /\ thread.revision = 0 /\ thread.messages = {} /\ replyFailures = 0
    BY <1>2 DEF ReplyAtRest, NoReply
  <2> QED
    BY <2>1, StoreTypedIsTypeOK, ReplyAssumption
    DEF ReplyTypeOK, ReplyCommittedOnce, ReplyOnce, OkIsCommitted, Ok
<1>3. ASSUME ExchangeAtRest PROVE BearersAreFenced
  <2>1. \A r \in Request : ~Delivered(r)
    BY <1>3 DEF ExchangeAtRest, NoExchange, Delivered
  <2> QED
    BY <2>1 DEF BearersAreFenced, SingleBearer, BearerIsRecorded, LogoutClosesReplay
<1> QED
  BY <1>1, <1>2, <1>3

LEMMA ClientsAreSound ==
    ASSUME ClientsInv
    PROVE  ClientsTypeOK /\ ActionAnsweredOnce /\ ReplyCommittedOnce
           /\ (ClientsFenced => BearersAreFenced)
<1>1. StoreTyped
  BY DEF ClientsInv, ExchangeShape
<1>2. WaffoTypeOK /\ ActionAnsweredOnce
  BY <1>1, WaffoAnswers, RestIsSound DEF ClientsInv
<1>3. ReplyTypeOK /\ ReplyCommittedOnce
  BY <1>1, ReplyIsSound, RestIsSound DEF ClientsInv
<1>4. ExchangeTypeOK
  BY ShapeIsType DEF ClientsInv
<1>5. ClientsFenced => BearersAreFenced
  BY <1>1, InvFencesBearers, RestIsSound DEF ClientsInv, ClientsFenced
<1> QED
  BY <1>2, <1>3, <1>4, <1>5 DEF ClientsTypeOK

(* The callers keep their invariants, whichever of them is at work.        *)
THEOREM ClientsInvariant == ClientsSpec => []ClientsInv
<1>1. ClientsInit => ClientsInv
  BY ClientsInitInv
<1>2. ClientsInv /\ [ClientsNext]_clientVars => ClientsInv'
  BY ClientsStep
<1> QED
  BY <1>1, <1>2, PTL DEF ClientsSpec

(* The store and its callers keep their shape.                             *)
THEOREM ClientsTypeCorrect == ClientsSpec => []ClientsTypeOK
<1>1. ClientsInv => ClientsTypeOK
  BY ClientsAreSound
<1> QED
  BY <1>1, ClientsInvariant, PTL

(* execute_action: all successes of one scope are the answer of one        *)
(* attempt at the provider, and a scope is sent twice only after a claim   *)
(* has lived out its time.                                                 *)
THEOREM ActionsAreAnsweredOnce == ClientsSpec => []ActionAnsweredOnce
<1>1. ClientsInv => ActionAnsweredOnce
  BY ClientsAreSound
<1> QED
  BY <1>1, ClientsInvariant, PTL

(* And once a call of a scope succeeded none of that scope is started.     *)
THEOREM SuccessIsFinal == ClientsSpec => NoStartAfterSuccess
<1> DEFINE Started ==
      \A c \in Request :
         action[c].pc # "claimed" /\ action'[c].pc = "claimed" /\ action'[c].key \notin EphemeralKey
         => \A d \in Request : action[d].pc = "ok" => action[d].key # action'[c].key
<1>1. ClientsInv /\ [ClientsNext]_clientVars => [Started]_waffoVars
  <2> SUFFICES ASSUME ClientsInv, [ClientsNext]_clientVars, action' # action
               PROVE  Started
    OBVIOUS
  <2>1. client = "waffo" /\ [WaffoNext]_waffoVars
    BY DEF ClientsNext, clientVars
  <2>2. WaffoInv
    BY <2>1 DEF ClientsInv
  <2> QED
    BY <2>1, <2>2, NoStart
<1>2. ClientsSpec => [][Started]_waffoVars
  BY <1>1, ClientsInvariant, PTL DEF ClientsSpec
<1> QED
  BY <1>2 DEF NoStartAfterSuccess

(* The requester's reply: a reply that was answered 200 is in the ticket,  *)
(* and the replies of one key and fingerprint are there once.              *)
THEOREM RepliesAreCommittedOnce == ClientsSpec => []ReplyCommittedOnce
<1>1. ClientsInv => ReplyCommittedOnce
  BY ClientsAreSound
<1> QED
  BY <1>1, ClientsInvariant, PTL

(* The session exchange, while no request outlives its claim: one live     *)
(* bearer at a time, the grant knows it, and none after a logout.          *)
THEOREM BearersStayFenced == ASSUME ~SlowRequests PROVE ClientsSpec => []BearersAreFenced
<1>1. ClientsInit => ClientsInv /\ ClientsFenced
  BY ClientsInitInv
<1>2. ClientsInv /\ ClientsFenced /\ [ClientsNext]_clientVars => (ClientsInv /\ ClientsFenced)'
  BY ClientsStep
<1>3. ClientsInv /\ ClientsFenced => BearersAreFenced
  BY ClientsAreSound
<1> QED
  BY <1>1, <1>2, <1>3, PTL DEF ClientsSpec
=============================================================================
