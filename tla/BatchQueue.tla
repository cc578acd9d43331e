----------------------------- MODULE BatchQueue -----------------------------
(***************************************************************************)
(* The sending side of the file page: the batch that sends files one after *)
(* the other (hooks/useBatchSender, BatchSender) and the rows that follow  *)
(* what the backend tells of each transfer (hooks/useTransfers,            *)
(* TransferQueue).                                                         *)
(*                                                                         *)
(* The batch waits for a row to reach a state that ends a send.  The       *)
(* answer to start_send_file and the progress events travel apart; React   *)
(* commits what several events have set at once, and effects see only what *)
(* was committed.  Of the backend, what a send tells, and when: its stream *)
(* goes on whatever verdict has come meanwhile (FileTransfer has the rest).*)
(***************************************************************************)
EXTENDS Integers, Sequences, SequencesExt

CONSTANTS
    None,      \* a model value: nothing there
    MaxSends,  \* bound: transfers started
    MaxFiles,  \* bound: files in the batch
    MaxEvents, \* bound: progress events under way
    MaxClicks  \* bound: what the user does

Transfer == 1 .. MaxSends
\* SEND_TERMINAL, and the statuses of a send.
SendTerminal == {"delivered", "failed", "cancelled", "confirm_timeout"}

VARIABLES
    files,     \* batchFiles: a status, and the transfer it is about
    loop,      \* the batch under way: the queue it read, its place in it, what it waits for
    cancelRef,
    rows,      \* transfers as set by the events
    shown,     \* and as committed: what is drawn, and transfersRef
    events,    \* progress events under way
    phase,     \* the send in the backend, from "none" by "asked", "hashing", "streaming" to "sent"
    held,      \* outgoing_transfers has it
    paused, cancelled,
    receipts,  \* history: sends whose peer confirmed
    clicks

vars == <<files, loop, cancelRef, rows, shown, events, phase, held, paused, cancelled, receipts, clicks>>
window == <<files, loop, cancelRef, rows, shown>>
backend == <<phase, held, paused, cancelled, receipts>>

\* Up to MaxFiles files have been picked.
Init ==
    /\ \E n \in 0 .. MaxFiles : files = [k \in 1 .. n |-> [status |-> "pending", tr |-> None]]
    /\ loop = None /\ cancelRef = FALSE
    /\ rows = [t \in Transfer |-> None] /\ shown = rows /\ events = <<>>
    /\ phase = [t \in Transfer |-> "none"] /\ held = {} /\ paused = {} /\ cancelled = {}
    /\ receipts = {} /\ clicks = 0

Click == clicks < MaxClicks /\ clicks' = clicks + 1

-----------------------------------------------------------------------------
(* The batch                                                               *)

\* Transfers the bound leaves; a batch under way gets those it needs.
Spare == Cardinality({t \in Transfer : phase[t] = "none"})
             - (IF loop = None THEN 0 ELSE Len(loop.queue) - loop.i)

\* start_send_file is called.
Invoke(t) ==
    /\ phase[t] = "none" /\ \A u \in Transfer : u < t => phase[u] # "none"
    /\ phase' = [phase EXCEPT ![t] = "asked"]

\* The loop from the i-th file of the queue on, with fs for the files by then.
Proceed(fs, queue, i, stop) ==
    LET rest == {j \in i .. Len(queue) : queue[j].status # "completed"} IN
    IF rest = {} \/ stop
    THEN /\ files' = IF rest = {} THEN fs
                     ELSE [k \in DOMAIN fs |-> IF k >= Min(rest) THEN [fs[k] EXCEPT !.status = "failed"] ELSE fs[k]]
         /\ loop' = None /\ UNCHANGED phase
    ELSE \E t \in Transfer :
            /\ Invoke(t) /\ files' = [fs EXCEPT ![Min(rest)].status = "sending"]
            /\ loop' = [queue |-> queue, i |-> Min(rest), at |-> "calling", tr |-> t]

\* The buttons below and above the list.
ActionBar == [clear |-> files # <<>> /\ loop = None, send |-> files # <<>> /\ loop = None, cancel |-> loop # None]

startSendBatch ==
    /\ Click /\ ActionBar.send /\ Len(files) <= Spare /\ cancelRef' = FALSE
    /\ Proceed(files, files, 1, FALSE)
    /\ UNCHANGED <<rows, shown, events, held, paused, cancelled, receipts>>

\* Variant: all chunks gone out counts as done.
OutcomeOfSent(s) == IF s \in {"delivered", "sent"} THEN "completed"
                    ELSE IF s = "confirm_timeout" THEN "unconfirmed" ELSE "failed"
\* "Only a receipt counts as success."
Outcome(s) == IF s = "delivered" THEN "completed"
              ELSE IF s \in {"confirm_timeout", "sent"} THEN "unconfirmed" ELSE "failed"

\* What the batch waited for has come to the end s.
Settle(s) ==
    Proceed([files EXCEPT ![loop.i] = [status |-> Outcome(s), tr |-> loop.tr]], loop.queue, loop.i + 1, cancelRef)

\* The answer of start_send_file; waitForSendComplete looks at what was committed by then.
Answered ==
    /\ loop # None /\ loop.at = "calling" /\ phase[loop.tr] \notin {"asked", "hashing"}
    /\ IF phase[loop.tr] = "refused"
       THEN Proceed([files EXCEPT ![loop.i].status = "failed"], loop.queue, loop.i + 1, cancelRef)
       ELSE IF shown[loop.tr] \in SendTerminal THEN Settle(shown[loop.tr])
       ELSE loop' = [loop EXCEPT !.at = "waiting"] /\ UNCHANGED <<files, phase>>
    /\ UNCHANGED <<cancelRef, rows, shown, events, held, paused, cancelled, receipts, clicks>>

Deliver ==
    /\ events # <<>> /\ events' = Tail(events)
    /\ rows' = [rows EXCEPT ![Head(events)[1]] = Head(events)[2]]
    /\ UNCHANGED <<files, loop, cancelRef, shown, backend, clicks>>

\* React commits; the effect settles the wait.
Commit ==
    /\ shown # rows /\ shown' = rows
    /\ IF loop # None /\ loop.at = "waiting" /\ rows[loop.tr] \in SendTerminal
       THEN Settle(rows[loop.tr]) ELSE UNCHANGED <<files, loop, phase>>
    /\ UNCHANGED <<cancelRef, rows, events, held, paused, cancelled, receipts, clicks>>

\* Thirty minutes: "Safety net for a lost event, not the normal exit".
SafetyNet ==
    /\ loop # None /\ loop.at = "waiting"
    /\ Settle(IF shown[loop.tr] = None THEN "failed" ELSE shown[loop.tr])
    /\ UNCHANGED <<cancelRef, rows, shown, events, held, paused, cancelled, receipts, clicks>>

-----------------------------------------------------------------------------
(* The user                                                                *)

addBatchFiles == files' = Append(files, [status |-> "pending", tr |-> None])

\* Picked, or dropped on the window: a batch under way does not keep them out.
addPaths ==
    /\ Click /\ Len(files) < MaxFiles /\ addBatchFiles
    /\ UNCHANGED <<loop, cancelRef, rows, shown, events, backend>>

\* The list of files, and the button a file has.
FileRow(k) == [status |-> files[k].status, current |-> loop # None /\ loop.i = k, removable |-> loop = None]

removeBatchFile(k) ==
    /\ Click /\ k \in DOMAIN files /\ FileRow(k).removable /\ files' = RemoveAt(files, k)
    /\ UNCHANGED <<loop, cancelRef, rows, shown, events, backend>>

clearBatchFiles ==
    /\ Click /\ ActionBar.clear /\ files' = <<>>
    /\ UNCHANGED <<loop, cancelRef, rows, shown, events, backend>>

requestBatchCancel ==
    /\ Click /\ ActionBar.cancel /\ cancelRef' = TRUE
    /\ UNCHANGED <<files, loop, rows, shown, events, backend>>

\* The buttons a row of the queue offers.
TransferRow(t) ==
    [pause |-> shown[t] = "transferring", resume |-> shown[t] = "paused",
     cancel |-> shown[t] \in {"transferring", "paused"}, resend |-> shown[t] \in {"confirm_timeout", "failed"}]
Finished == {t \in Transfer : shown[t] \in SendTerminal}

\* A send the backend no longer has is an error that is only shown.
pauseTransfer(t) ==
    /\ Click /\ TransferRow(t).pause /\ paused' = paused \cup ({t} \cap held)
    /\ UNCHANGED <<window, events, phase, held, cancelled, receipts>>

resumeTransfer(t) ==
    /\ Click /\ TransferRow(t).resume /\ paused' = paused \ ({t} \cap held)
    /\ UNCHANGED <<window, events, phase, held, cancelled, receipts>>

cancelTransfer(t) ==
    /\ Click /\ TransferRow(t).cancel
    /\ cancelled' = cancelled \cup ({t} \cap held) /\ paused' = paused \ ({t} \cap held)
    /\ UNCHANGED <<window, events, phase, held, receipts>>

\* A new transfer, which no batch waits for.
resendTransfer(t) ==
    /\ Click /\ TransferRow(t).resend /\ Spare > 0 /\ \E u \in Transfer : Invoke(u)
    /\ UNCHANGED <<window, events, held, paused, cancelled, receipts>>

clearFinished ==
    /\ Click /\ Finished # {}
    /\ rows' = [t \in Transfer |-> IF rows[t] \in SendTerminal THEN None ELSE rows[t]]
    /\ UNCHANGED <<files, loop, cancelRef, shown, events, backend>>

-----------------------------------------------------------------------------
(* A send in the backend                                                   *)

emit_progress(t, s) ==
    /\ Len(events) < MaxEvents /\ events' = Append(events, <<t, s>>)

\* send_file: hashing is announced once the file and the client are there; it, or the
\* publication of the META, may still fail.
SendBegins(t) ==
    /\ phase[t] = "asked" /\ phase' = [phase EXCEPT ![t] = "hashing"] /\ emit_progress(t, "verifying")
    /\ UNCHANGED <<window, held, paused, cancelled, receipts, clicks>>
SendRefused(t) ==
    /\ phase[t] \in {"asked", "hashing"} /\ phase' = [phase EXCEPT ![t] = "refused"]
    /\ UNCHANGED <<window, events, held, paused, cancelled, receipts, clicks>>
SendStarts(t) ==
    /\ phase[t] = "hashing" /\ phase' = [phase EXCEPT ![t] = "streaming"] /\ held' = held \cup {t}
    /\ UNCHANGED <<window, events, paused, cancelled, receipts, clicks>>

\* The stream, a chunk at a time.
StreamEnds(t) ==
    /\ phase[t] \in {"streaming", "holding"} /\ phase' = [phase EXCEPT ![t] = "stopped"]
    /\ \/ t \in cancelled /\ emit_progress(t, "cancelled")
       \/ t \notin cancelled /\ phase[t] = "streaming" /\ emit_progress(t, "failed")
    /\ UNCHANGED <<window, held, paused, cancelled, receipts, clicks>>
Holds(t) ==
    /\ t \notin cancelled
    /\ \/ /\ phase[t] = "streaming" /\ t \in paused /\ phase' = [phase EXCEPT ![t] = "holding"]
          /\ emit_progress(t, "paused")
       \/ /\ phase[t] = "holding" /\ t \notin paused /\ phase' = [phase EXCEPT ![t] = "streaming"]
          /\ UNCHANGED events
    /\ UNCHANGED <<window, held, paused, cancelled, receipts, clicks>>
Streams(t) ==
    /\ phase[t] = "streaming" /\ t \notin paused \cup cancelled
    /\ \/ emit_progress(t, "transferring") /\ UNCHANGED phase
       \/ phase' = [phase EXCEPT ![t] = "published"] /\ UNCHANGED events
    /\ UNCHANGED <<window, held, paused, cancelled, receipts, clicks>>
StreamDone(t) ==
    /\ phase[t] = "published" /\ phase' = [phase EXCEPT ![t] = "sent"] /\ emit_progress(t, "sent")
    /\ UNCHANGED <<window, held, paused, cancelled, receipts, clicks>>

\* The peer's receipts, and the time allowed for one.
Completed(t) ==
    /\ t \in held /\ phase[t] \in {"published", "sent"}
    /\ held' = held \ {t} /\ receipts' = receipts \cup {t} /\ emit_progress(t, "delivered")
    /\ UNCHANGED <<window, phase, paused, cancelled, clicks>>
Error(t) ==
    /\ t \in held /\ held' = held \ {t} /\ emit_progress(t, "failed")
    /\ UNCHANGED <<window, phase, paused, cancelled, receipts, clicks>>
ConfirmTimeout(t) ==
    /\ t \in held /\ phase[t] = "sent" /\ held' = held \ {t} /\ emit_progress(t, "confirm_timeout")
    /\ UNCHANGED <<window, phase, paused, cancelled, receipts, clicks>>
\* Five minutes after it started, the send is forgotten.
Cleanup(t) ==
    /\ t \in held /\ held' = held \ {t}
    /\ UNCHANGED <<window, events, phase, paused, cancelled, receipts, clicks>>

-----------------------------------------------------------------------------
User ==
    \/ startSendBatch \/ addPaths \/ clearBatchFiles \/ requestBatchCancel \/ clearFinished
    \/ \E k \in 1 .. MaxFiles : removeBatchFile(k)
    \/ \E t \in Transfer : pauseTransfer(t) \/ resumeTransfer(t) \/ cancelTransfer(t) \/ resendTransfer(t)
SendFile(t) == SendBegins(t) \/ SendRefused(t) \/ SendStarts(t)
Sends(t) ==
    \/ SendFile(t) \/ StreamEnds(t) \/ Holds(t) \/ Streams(t) \/ StreamDone(t)
    \/ Completed(t) \/ Error(t) \/ ConfirmTimeout(t) \/ Cleanup(t)
Next == User \/ Answered \/ Deliver \/ Commit \/ SafetyNet \/ \E t \in Transfer : Sends(t)

Spec == Init /\ [][Next]_vars

-----------------------------------------------------------------------------
(* A file is shown as completed only if its peer has said so, whatever     *)
(* order the answer, the events and the commits come in.                   *)
CompletedHasReceipt == \A k \in DOMAIN files : files[k].status = "completed" => files[k].tr \in receipts
=============================================================================
