--------------------------- MODULE MCSupportDesk ---------------------------
(* Three calls on a ticket; four calls on the records beside it; four runs *)
(* of a delivery; and three mails: a first contact, an answer of the same  *)
(* sender to it, and an answer of a stranger to it.  Two notifications of  *)
(* one group name them: the first contact, and the two answers.  Three     *)
(* instances have configurations of which one pins a workspace, two differ *)
(* in the policy of a profile, and each grants something else.  Or three   *)
(* requests of one kind that go through the idempotency store.             *)
EXTENDS SupportDesk, IdempotentRequests, TLC

CONSTANTS first, answer, stranger, pinned, charge, token, k1, b1

VARIABLE work   \* what a behaviour is about: the records, or the requests

MCSender(m) == IF m = stranger THEN "stranger" ELSE "customer"
MCInReplyTo(m) == IF m = first THEN NoMail ELSE first

MCMails(n) == IF n = 1 THEN <<first>> ELSE <<answer, stranger>>
MCGroup(n) == "inbox"

(* Bound of the wake protocol: each mail's first content is 1, and its job *)
(* is not lost (the intake protocol loses jobs).                           *)
SmallWake ==
    protocol = "wake" =>
        failures' = 0 /\ \A m \in Mail : job'[m] # NoJob => job'[m].digest = 1

MCFingerprints == ActionKey \cup Prints \cup {print}

MCProfile(ceiling) == [desk |-> [project |-> "support", ceiling |-> ceiling]]
MCGrant(project) == {[subject |-> "agent", project |-> project]}
MCConfig ==
    {[pin |-> Unset, projects |-> {"support"},
      profiles |-> MCProfile("read"), grants |-> {}],
     [pin |-> Unset, projects |-> {"support", "sales"},
      profiles |-> MCProfile("write"), grants |-> MCGrant("sales")],
     [pin |-> pinned, projects |-> {"support"},
      profiles |-> [desk |-> Unset], grants |-> MCGrant("support")]}

MCInit ==
    /\ DeskInit /\ ClientsInit
    /\ \/ work = "records" /\ client = "reply"
       \/ work = "requests" /\ protocol = "reviews"

MCNext ==
    /\ \/ work = "records" /\ DeskNext /\ SmallWake /\ UNCHANGED clientVars
       \/ work = "requests" /\ ClientsNext /\ UNCHANGED deskVars
    /\ UNCHANGED work

MCSpec == MCInit /\ [][MCNext]_<<deskVars, clientVars, work>>

Symmetry == Permutations(Caller)
=============================================================================
