---------------------------- MODULE WebhookDebt ----------------------------
(***************************************************************************)
(* What the webhook outbox promises of each message, with the rows, the    *)
(* backoff, the slots and the pump left out.                               *)
(*                                                                         *)
(* A message is delivered at once, or owed until it is delivered or given  *)
(* up on.  Only a message that was never owed can be lost, only a dead     *)
(* letter can be thrown away, and what is over never comes back.           *)
(***************************************************************************)
CONSTANT Entry

VARIABLE phase

Phases == {"new", "refused", "trying", "lost", "owed", "dead", "delivered", "discarded"}

TypeOK == phase \in [Entry -> Phases]

Init == phase = [e \in Entry |-> "new"]

Move(e, from, to) == phase[e] \in from /\ phase' = [phase EXCEPT ![e] = to]

\* The first delivery is tried, or turned away when too many are under way.
Accept(e) == Move(e, {"new"}, "trying")
Refuse(e) == Move(e, {"new"}, "refused")

Deliver(e) == Move(e, {"trying", "owed", "dead"}, "delivered")

\* A delivery that was still under way may fail after the message was given up on, and
\* then it is owed again.
Owe(e) == Move(e, {"trying", "dead"}, "owed")

GiveUp(e) == Move(e, {"owed"}, "dead")

\* The disk takes no rows, or the process ends, before the message was ever owed.
Lose(S) ==
    /\ \A e \in S : phase[e] = "trying"
    /\ phase' = [e \in Entry |-> IF e \in S THEN "lost" ELSE phase[e]]

\* The user clears the dead letters.
Discard ==
    phase' = [e \in Entry |-> IF phase[e] = "dead" THEN "discarded" ELSE phase[e]]

Next == \/ \E e \in Entry : Accept(e) \/ Refuse(e) \/ Deliver(e) \/ Owe(e) \/ GiveUp(e)
        \/ \E S \in SUBSET Entry : Lose(S)
        \/ Discard

Spec == Init /\ [][Next]_phase
=============================================================================
