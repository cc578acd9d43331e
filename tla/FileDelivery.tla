---------------------------- MODULE FileDelivery ----------------------------
(***************************************************************************)
(* What one file transfer promises to the two people watching it, with the *)
(* chunks, retransmissions, timers and background tasks left out.          *)
(*                                                                         *)
(*   phase    what became of the transfer on the receiving machine         *)
(*   settled  the first final status the sending machine reported          *)
(*                                                                         *)
(* A transfer is opened once and ends once, as a saved file or as nothing. *)
(* The sender may give up at any time, but it is told "delivered" only of  *)
(* a file the receiver did save.                                           *)
(***************************************************************************)
VARIABLES phase, settled

vars == <<phase, settled>>

Phases == {"waiting", "open", "saved", "dropped"}

Verdicts == {"delivered", "failed", "cancelled", "confirm_timeout"}

TypeOK == /\ phase \in Phases
          /\ settled \in Verdicts \cup {"pending"}

Init == /\ phase = "waiting"
        /\ settled = "pending"

\* The receiver learns of the transfer.
Open == /\ phase = "waiting"
        /\ phase' = "open"
        /\ UNCHANGED settled

\* The verified file reaches the download directory.
Save == /\ phase = "open"
        /\ phase' = "saved"
        /\ UNCHANGED settled

\* Cancelled, rejected, timed out, damaged or impossible to write.
Drop == /\ phase = "open"
        /\ phase' = "dropped"
        /\ UNCHANGED settled

\* The sender reports an outcome; only a saved file counts as delivered.
Settle(v) == /\ settled = "pending"
             /\ v = "delivered" => phase = "saved"
             /\ settled' = v
             /\ UNCHANGED phase

Next == Open \/ Save \/ Drop \/ \E v \in Verdicts : Settle(v)

Spec == Init /\ [][Next]_vars
=============================================================================
