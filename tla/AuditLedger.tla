----------------------------- MODULE AuditLedger -----------------------------
(***************************************************************************)
(* The segmented audit ledger (MemoryAuditLedger): records by event ID in  *)
(* segments that are sealed by size and archived.  A batch is appended     *)
(* whole or not at all; the same ID with the same content is a duplicate.  *)
(***************************************************************************)
EXTENDS Naturals, Sequences, SequencesExt, FiniteSets

CONSTANTS
    AuditEvent,      \* event IDs, ordered as the BTreeMap of the code orders them
    RotateAt,   \* AuditSizePolicy
    RejectAt

ASSUME LedgerAssumption ==
    /\ AuditEvent \subseteq Nat
    /\ RotateAt \in Nat /\ RejectAt \in Nat /\ 0 < RotateAt /\ RotateAt < RejectAt

VARIABLES
    records,    \* content of an event; a content is its encoded size
    segments    \* MemorySegment, the active one last

ledgerVars == <<records, segments>>

NoContent == 0
ActiveSegment == [state |-> "active", ids |-> {}, bytes |-> 0]

LedgerInit ==
    /\ records = [e \in AuditEvent |-> NoContent]
    /\ segments = <<ActiveSegment>>

Batch == {b \in SUBSET [id : AuditEvent, content : Nat \ {0}] :
             \A x, y \in b : x.id = y.id => x = y}

Conflicts(batch) ==
    \E x \in batch : records[x.id] \notin {NoContent, x.content}
NewRecords(batch) == {x \in batch : records[x.id] = NoContent}

(* Mutant: a full segment is sealed with the record that filled it.        *)
PlaceThenSeal(segs, x) ==
    LET active == Last(segs)
        sealed == active.ids # {} /\ active.bytes + x.content > RotateAt
        open == IF sealed
                THEN Append(Front(segs) \o
                       <<[active EXCEPT !.state = "sealed", !.ids = @ \cup {x.id}]>>, ActiveSegment)
                ELSE segs
        last == Last(open)
    IN
    IF last.bytes + x.content > RejectAt THEN <<>>
    ELSE Front(open) \o <<[last EXCEPT !.ids = @ \cup {x.id}, !.bytes = @ + x.content]>>

(* Mutant: a record that fits the first segment goes there, sealed or not.  *)
PlaceFirstFit(segs, x) ==
    LET active == Last(segs)
        fits == segs[1].bytes + x.content <= RotateAt
        sealed == ~fits /\ active.ids # {} /\ active.bytes + x.content > RotateAt
        open == IF sealed
                THEN Append(Front(segs) \o <<[active EXCEPT !.state = "sealed"]>>, ActiveSegment)
                ELSE segs
        i == IF fits THEN 1 ELSE Len(open)
    IN
    IF open[i].bytes + x.content > RejectAt THEN <<>>
    ELSE [open EXCEPT ![i] =
              [open[i] EXCEPT !.ids = open[i].ids \cup {x.id}, !.bytes = open[i].bytes + x.content]]

(* The planned segments after one more record: a non-empty segment it would*)
(* fill beyond RotateAt is sealed first; <<>> is StorageLimitExceeded.     *)
Place(segs, x) ==
    LET active == Last(segs)
        sealed == active.ids # {} /\ active.bytes + x.content > RotateAt
        open == IF sealed
                THEN Append(Front(segs) \o <<[active EXCEPT !.state = "sealed"]>>, ActiveSegment)
                ELSE segs
        last == Last(open)
    IN
    IF last.bytes + x.content > RejectAt THEN <<>>
    ELSE Front(open) \o <<[last EXCEPT !.ids = @ \cup {x.id}, !.bytes = @ + x.content]>>

(* The new records are placed in the order of their IDs: the plan with the *)
(* record of the next one.                                                 *)
PlaceNext(new, id, segs) ==
    IF segs = <<>> \/ ~\E x \in new : x.id = id THEN segs
    ELSE Place(segs, CHOOSE x \in new : x.id = id)

(* The plan with the new records below an ID.                              *)
Placing(new) ==
    LET placed[id \in Nat] ==
            IF id = 0 THEN segments ELSE PlaceNext(new, id - 1, placed[id - 1])
    IN  placed

Planned(batch) == Placing(NewRecords(batch))[Max({x.id : x \in batch}) + 1]

AppendOutcome(batch) ==
    CASE Conflicts(batch) -> "event_conflict"
      [] ~Conflicts(batch) /\ Planned(batch) = <<>> -> "storage_limit"
      [] OTHER -> "appended"

append_batch(batch) ==
    IF AppendOutcome(batch) = "appended"
    THEN /\ records' = [e \in AuditEvent |->
                IF \E x \in batch : x.id = e
                THEN (CHOOSE x \in batch : x.id = e).content ELSE records[e]]
         /\ segments' = Planned(batch)
    ELSE UNCHANGED ledgerVars

(* mark_archived: only a sealed segment, with its receipt.                 *)
mark_archived(i) ==
    /\ segments[i].state = "sealed"
    /\ segments' = [segments EXCEPT ![i].state = "archived"]
    /\ UNCHANGED records

-----------------------------------------------------------------------------
(* The encoded size of the records below an ID, and of all of them.        *)
SizeBelow(contents, ids) ==
    LET size[id \in Nat] ==
            IF id = 0 THEN 0
            ELSE size[id - 1] + (IF id - 1 \in ids THEN contents[id - 1] ELSE 0)
    IN  size
Size(contents, ids) == IF ids = {} THEN 0 ELSE SizeBelow(contents, ids)[Max(ids) + 1]

(* The segments partition the records: every one is in one segment, the    *)
(* sizes add up, the last segment alone is active.                         *)
SegmentsPartition ==
    /\ \A e \in AuditEvent :
          Cardinality({i \in DOMAIN segments : e \in segments[i].ids})
            = IF records[e] = NoContent THEN 0 ELSE 1
    /\ \A i \in DOMAIN segments :
          /\ segments[i].bytes = Size(records, segments[i].ids)
          /\ segments[i].state = "active" <=> i = Len(segments)

(* No segment passes the reject threshold, and one that holds more than a  *)
(* record keeps within the rotation threshold.                             *)
SegmentsBounded ==
    \A i \in DOMAIN segments :
       /\ segments[i].bytes <= RejectAt
       /\ Cardinality(segments[i].ids) > 1 => segments[i].bytes <= RotateAt

(* The ledger's segments as a whole: every record in one of them, none     *)
(* over its thresholds.                                                    *)
SegmentsSound == SegmentsPartition /\ SegmentsBounded

(* What is sealed stays as it is, and what is archived stays archived:     *)
(* an archive receipt describes the segment for good.                      *)
SealedIsFrozen ==
    [][\A i \in DOMAIN segments :
          segments[i].state # "active" =>
             /\ segments'[i].ids = segments[i].ids /\ segments'[i].bytes = segments[i].bytes
             /\ segments'[i].state \in {segments[i].state, "archived"}]_ledgerVars
=============================================================================
