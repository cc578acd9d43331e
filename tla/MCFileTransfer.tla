--------------------------- MODULE MCFileTransfer ---------------------------
(***************************************************************************)
(* Small instances of FileTransfer for TLC.  Each names the faults it      *)
(* allows: every one multiplies the states, and no question needs them all *)
(* at once.                                                                *)
(***************************************************************************)
EXTENDS FileTransfer

\* Everything that can damage a file or confuse its two rows, except for pauses (which
\* touch neither) and dropped messages (which look like a slow link that never ends).
HostileFaults == FaultKinds \ {"pause", "toggle"}

\* Users of both machines change their minds while messages are lost.
UserFaults == {"cancel", "reject", "toggle"}

PauseFaults == {"pause"}

RejectFaults == {"reject"}

CancelFaults == {"cancel"}
=============================================================================
