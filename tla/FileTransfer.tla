---------------------------- MODULE FileTransfer ----------------------------
(***************************************************************************)
(* One file transfer between two DropQTT peers over an MQTT broker, as     *)
(* src/src-tauri/src/mqtt_manager.rs carries it out.                       *)
(*                                                                         *)
(* The sender announces the file with a META message, streams its chunks,  *)
(* and serves NACKs until a COMPLETED or ERROR receipt or a timer ends the *)
(* transfer.  The receiver writes chunks to a temporary file; when it has  *)
(* them all, a background task checks the hash and either delivers the     *)
(* file or parks it for approval.  A watchdog asks for missing chunks and  *)
(* eventually gives up.                                                    *)
(*                                                                         *)
(* The finalize task, the commands, the watchdog, the stream task and the  *)
(* timers share the two transfer tables and the temporary file, and        *)
(* interleave at every await at which one can change what another reads.   *)
(* Deleting the file, answering the sender and reporting the row, which    *)
(* end a transfer one after the other on one task, are one step.           *)
(***************************************************************************)
EXTENDS Integers, FiniteSets

CONSTANTS
    Total,      \* chunks in the file (TransferMeta.total_chunks)
    MaxNack,    \* NACK rounds the receiver's watchdog asks for (7 in the code)
    MaxServe,   \* NACK rounds the sender answers (8 in the code)
    NackBatch,  \* chunks one NACK may name (1024 in the code)
    MaxGens,    \* bound: META deliveries that may open the transfer
    MaxLoss,    \* bound: messages the network may drop
    Faults      \* what users, disks and links may do in this instance

FaultKinds == {"pause", "cancel", "reject", "toggle", "edit", "disk",
               "disconnect", "duplicate", "slow"}

ASSUME TransferAssumption ==
    /\ Total \in Nat \ {0}
    /\ MaxNack \in Nat /\ MaxServe \in Nat /\ NackBatch \in Nat \ {0}
    /\ MaxGens \in Nat \ {0} /\ MaxLoss \in Nat
    /\ Faults \subseteq FaultKinds

Chunk == 0 .. Total - 1
Gens == 1 .. MaxGens
Cell == {"hole", "good", "bad"}

VARIABLES
    net,         \* messages the broker holds for either peer
    losses,      \* messages dropped so far
    \* ---- sender
    spc,         \* progress of send_file and its stream task
    next,        \* next chunk the stream task publishes
    source,      \* the file on the sender's disk since it was hashed
    registered,  \* the transfer is in outgoing_transfers
    listening,   \* subscribed to the transfer's ctrl topic
    paused, cancelled,   \* the flags the stream task polls
    served,      \* ActiveOutgoing.nack_rounds, saturated at MaxServe
    resend,      \* chunks the resend tasks still have to publish
    confirm,     \* the confirmation deadline started after the last chunk
    cleanup,     \* the 300 s cleanup task
    srow,        \* status of the sender's row (last transfer-progress event)
    settled,     \* first final status: what waitForSendComplete resolves to
    \* ---- receiver
    istate,      \* the entry of incoming_transfers, "absent" without one
    got,         \* received_chunks
    rounds,      \* nack_rounds
    ipaused,     \* the entry's paused flag
    linked,      \* the entry's file handle is still the file at the temp path
    onDisk,      \* a file exists at the temp path
    temp,        \* and what it holds, chunk by chunk
    dog,         \* a watchdog task watches the entry
    gens,        \* times a META opened the transfer
    fin,         \* the finalize task of each opening, and the approval that follows
    rejecting,   \* openings whose reject still has to delete the file and report
    saved,       \* what each opening left in the download directory
    auto,        \* auto_receive
    rrow         \* status of the receiver's row

senderVars == <<spc, next, source, registered, listening, paused, cancelled, served,
                resend, confirm, cleanup, srow, settled>>
receiverVars == <<istate, got, rounds, ipaused, linked, onDisk, temp, dog, gens, fin,
                  rejecting, saved, auto, rrow>>
vars == <<net, losses, senderVars, receiverVars>>

-----------------------------------------------------------------------------
(* Messages *)

Meta == [type |-> "META"]
ChunkMsg(c, q) == [type |-> "CHUNK", idx |-> c, data |-> q]
Nack(missing) == [type |-> "NACK", missing |-> missing]
Ctrl(t) == [type |-> t]

CtrlKinds == {"PAUSE", "RESUME", "CANCEL", "COMPLETED", "ERROR"}

Message ==
    {Meta} \cup [type : {"CHUNK"}, idx : Chunk, data : {"good", "bad"}]
           \cup [type : {"NACK"}, missing : SUBSET Chunk]
           \cup [type : CtrlKinds]

\* Who sees a message act on its state: the stream of the protocol is one way each.
ToReceiver(m) == m.type \in {"META", "CHUNK", "PAUSE", "RESUME", "CANCEL"}
ToSender(m) == m.type \in {"NACK", "COMPLETED", "ERROR"}

Send(m) == net' = net \cup {m}

\* A delivered message is gone, or the broker delivers it again (QoS 1).
MayRepeat(m) == IF m.type = "META" THEN gens + 1 < MaxGens ELSE "duplicate" \in Faults
Take(m) == /\ m \in net
           /\ \/ net' = net \ {m}
              \/ MayRepeat(m) /\ net' = net

-----------------------------------------------------------------------------
(* Types and the initial state *)

SendSteps == {"idle", "announced", "registered", "streaming", "holding", "committed", "over"}
SendTerminal == {"delivered", "failed", "cancelled", "confirm_timeout"}
SendRows == SendTerminal \cup {"none", "verifying", "transferring", "paused", "sent"}
EntryStates == {"absent", "streaming", "verifying", "awaiting"}
FinSteps == {"off", "spawned", "hashing", "good", "bad", "parked", "save", "receipt", "complain",
             "unlink"}
ReceiveTerminal == {"completed", "failed", "cancelled"}
ReceiveRows == ReceiveTerminal \cup {"none", "transferring", "verifying", "awaiting_approval"}
TimerStates == {"off", "armed", "fired"}

NothingWritten == [c \in Chunk |-> "hole"]

TypeOK ==
    /\ net \subseteq Message
    /\ losses \in 0 .. MaxLoss
    /\ spc \in SendSteps
    /\ next \in 0 .. Total
    /\ source \in {"intact", "edited"}
    /\ registered \in BOOLEAN /\ listening \in BOOLEAN
    /\ paused \in BOOLEAN /\ cancelled \in BOOLEAN
    /\ served \in 0 .. MaxServe
    /\ resend \subseteq Chunk
    /\ confirm \in TimerStates /\ cleanup \in TimerStates
    /\ srow \in SendRows
    /\ settled \in SendTerminal \cup {"pending"}
    /\ istate \in EntryStates
    /\ got \subseteq Chunk
    /\ rounds \in 0 .. MaxNack
    /\ ipaused \in BOOLEAN /\ linked \in BOOLEAN /\ onDisk \in BOOLEAN
    /\ temp \in [Chunk -> Cell]
    /\ dog \in BOOLEAN
    /\ gens \in 0 .. MaxGens
    /\ fin \in [Gens -> FinSteps]
    /\ rejecting \subseteq Gens
    /\ saved \in [Gens -> {"none", "intact", "damaged"}]
    /\ auto \in BOOLEAN
    /\ rrow \in ReceiveRows

Init ==
    /\ net = {} /\ losses = 0
    /\ spc = "idle" /\ next = 0 /\ source = "intact"
    /\ registered = FALSE /\ listening = FALSE
    /\ paused = FALSE /\ cancelled = FALSE
    /\ served = 0 /\ resend = {}
    /\ confirm = "off" /\ cleanup = "off"
    /\ srow = "none" /\ settled = "pending"
    /\ istate = "absent" /\ got = {} /\ rounds = 0
    /\ ipaused = FALSE /\ linked = FALSE /\ onDisk = FALSE
    /\ temp = NothingWritten
    /\ dog = FALSE /\ gens = 0
    /\ fin = [g \in Gens |-> "off"]
    /\ rejecting = {}
    /\ saved = [g \in Gens |-> "none"]
    /\ auto \in BOOLEAN
    /\ rrow = "none"

-----------------------------------------------------------------------------
(* Sender: send_file and the stream task *)

\* A transfer-progress event of the sending side.
SenderRow(r) == /\ srow' = r
                /\ settled' = IF settled = "pending" /\ r \in SendTerminal THEN r ELSE settled

SenderSame == UNCHANGED <<losses, receiverVars>>

\* The file is hashed and META published; nothing is registered yet.
Announce ==
    /\ spc = "idle"
    /\ \/ /\ spc' = "announced"
          /\ Send(Meta)
       \/ /\ spc' = "over"          \* publishing META failed: an Err and no more
          /\ "disk" \in Faults
          /\ UNCHANGED net
    /\ SenderRow("verifying")
    /\ UNCHANGED <<next, source, registered, listening, paused, cancelled, served, resend,
                   confirm, cleanup>>
    /\ SenderSame

Register ==
    /\ spc = "announced"
    /\ spc' = "registered"
    /\ registered' = TRUE
    /\ UNCHANGED <<net, next, source, listening, paused, cancelled, served, resend, confirm,
                   cleanup, srow, settled>>
    /\ SenderSame

\* Variant: the sender never listens to the topic its peer answers on.
ListenDeaf ==
    /\ spc = "registered"
    /\ spc' = "streaming"
    /\ cleanup' = "armed"
    /\ UNCHANGED <<net, next, source, registered, listening, paused, cancelled, served, resend,
                   confirm, srow, settled>>
    /\ SenderSame

\* Subscribe to the ctrl topic, start the 300 s cleanup and the stream task.
Listen ==
    /\ spc = "registered"
    /\ spc' = "streaming"
    /\ listening' = TRUE
    /\ cleanup' = "armed"
    /\ UNCHANGED <<net, next, source, registered, paused, cancelled, served, resend, confirm,
                   srow, settled>>
    /\ SenderSame

streamSame == <<source, registered, listening, paused, cancelled, served, resend, cleanup>>

\* Top of the chunk loop: both flags are clear, so this chunk will be read and published.
CommitChunk ==
    /\ spc = "streaming" /\ ~cancelled /\ ~paused
    /\ spc' = "committed"
    /\ UNCHANGED <<net, next, confirm, srow, settled, streamSame>>
    /\ SenderSame

\* Top of the chunk loop, or the pause loop, sees the cancel flag.  (The pause loop reads
\* the pause flag first, and cancel_transfer clears that one last: it may see either.)
NoticeCancel ==
    /\ spc \in {"streaming", "holding"} /\ cancelled
    /\ spc' = "over"
    /\ SenderRow("cancelled")
    /\ UNCHANGED <<net, next, confirm, streamSame>>
    /\ SenderSame

NoticePause ==
    /\ spc = "streaming" /\ ~cancelled /\ paused
    /\ spc' = "holding"
    /\ SenderRow("paused")
    /\ UNCHANGED <<net, next, confirm, streamSame>>
    /\ SenderSame

\* The pause loop ends when the pause flag clears, and goes straight on to the chunk.
HoldEnds ==
    /\ spc = "holding" /\ ~paused
    /\ spc' = "committed"
    /\ UNCHANGED <<net, next, confirm, srow, settled, streamSame>>
    /\ SenderSame

\* What a read of the file returns now: the hash was taken before the first chunk.
FileData == IF source = "intact" THEN "good" ELSE "bad"

\* Publish the next chunk.  Progress events are throttled, except after the last chunk,
\* which also starts the confirmation deadline.
StreamChunk ==
    /\ spc = "committed" /\ next < Total
    /\ Send(ChunkMsg(next, FileData))
    /\ next' = next + 1
    /\ \/ /\ next + 1 = Total
          /\ spc' = "over"
          /\ confirm' = "armed"
          /\ SenderRow("sent")
       \/ /\ next + 1 < Total
          /\ spc' = "streaming"
          /\ SenderRow("transferring") \/ UNCHANGED <<srow, settled>>
          /\ UNCHANGED confirm
    /\ UNCHANGED streamSame
    /\ SenderSame

\* The file cannot be opened, or a chunk of it read (the file shrank) or published.
StreamFails ==
    /\ spc = "committed" \/ (spc = "streaming" /\ next = 0)
    /\ "disk" \in Faults
    /\ spc' = "over"
    /\ SenderRow("failed")
    /\ UNCHANGED <<net, next, confirm, streamSame>>
    /\ SenderSame

timerSame == <<spc, next, source, paused, cancelled, served, resend>>

\* confirm_grace_secs after the last chunk, whatever is being repaired by then: no receipt
\* removed the entry, so give up.
ConfirmDeadline ==
    /\ confirm = "armed"
    /\ confirm' = "fired"
    /\ registered' = FALSE
    /\ IF registered THEN SenderRow("confirm_timeout") ELSE UNCHANGED <<srow, settled>>
    /\ UNCHANGED <<net, cleanup, listening, timerSame>>
    /\ SenderSame

\* 300 s after the start: forget the transfer and unsubscribe, whatever state it is in.
Cleanup ==
    /\ cleanup = "armed"
    /\ cleanup' = "fired"
    /\ registered' = FALSE
    /\ listening' = FALSE
    /\ UNCHANGED <<net, confirm, srow, settled, timerSame>>
    /\ SenderSame

-----------------------------------------------------------------------------
(* Sender: the user's controls, and the receiver's answers *)

controlSame == <<spc, next, source, registered, listening, served, resend, confirm, cleanup,
                 srow, settled>>

PauseTransfer ==
    /\ "pause" \in Faults /\ registered
    /\ paused' = TRUE
    /\ Send(Ctrl("PAUSE"))
    /\ UNCHANGED <<cancelled, controlSame>>
    /\ SenderSame

ResumeTransfer ==
    /\ "pause" \in Faults /\ registered
    /\ paused' = FALSE
    /\ Send(Ctrl("RESUME"))
    /\ UNCHANGED <<cancelled, controlSame>>
    /\ SenderSame

\* The cancel flag is raised, then the pause flag cleared so that a held stream wakes up.
CancelTransfer ==
    /\ "cancel" \in Faults /\ registered
    /\ cancelled' = TRUE
    /\ paused' = FALSE
    /\ Send(Ctrl("CANCEL"))
    /\ UNCHANGED controlSame
    /\ SenderSame

answerSame == <<spc, next, source, listening, paused, cancelled, cleanup>>

\* A receipt ends the outgoing transfer; the stream task is not told.  The handler looks
\* the entry up and removes it under two locks: the deadline may come in between.
OnReceipt(kind, row) ==
    /\ Take(Ctrl(kind))
    /\ listening /\ registered
    /\ registered' = FALSE
    /\ \/ SenderRow(row) /\ UNCHANGED confirm
       \/ /\ confirm = "armed"
          /\ confirm' = "fired"
          /\ srow' = row
          /\ settled' = IF settled = "pending" THEN "confirm_timeout" ELSE settled
    /\ UNCHANGED <<served, resend, answerSame>>
    /\ SenderSame

OnCompleted == OnReceipt("COMPLETED", "delivered")
OnError == OnReceipt("ERROR", "failed")

\* Variant: every NACK is served.
OnNackUnbounded(m) ==
    /\ m.type = "NACK" /\ m.missing # {}
    /\ Take(m)
    /\ listening /\ registered
    /\ served' = served + 1
    /\ resend' = resend \cup m.missing
    /\ UNCHANGED <<registered, confirm, srow, settled, answerSame>>
    /\ SenderSame

\* Variant: a NACK that meets the pause flag is dropped.
OnNackUnlessPaused(m) ==
    /\ m.type = "NACK" /\ m.missing # {}
    /\ Take(m)
    /\ listening /\ registered
    /\ \/ /\ served < MaxServe /\ ~paused
          /\ served' = served + 1
          /\ resend' = resend \cup m.missing
       \/ /\ served = MaxServe \/ paused
          /\ UNCHANGED <<served, resend>>
    /\ UNCHANGED <<registered, confirm, srow, settled, answerSame>>
    /\ SenderSame

\* A NACK starts a resend task, for a bounded number of rounds.
OnNack(m) ==
    /\ m.type = "NACK" /\ m.missing # {}
    /\ Take(m)
    /\ listening /\ registered
    /\ \/ /\ served < MaxServe
          /\ served' = served + 1
          /\ resend' = resend \cup m.missing
       \/ /\ served = MaxServe
          /\ UNCHANGED <<served, resend>>
    /\ UNCHANGED <<registered, confirm, srow, settled, answerSame>>
    /\ SenderSame

\* A resend task publishes one chunk, whatever the pause and cancel flags say, or skips
\* what it cannot read.
ResendChunk(c) ==
    /\ c \in resend
    /\ resend' = resend \ {c}
    /\ Send(ChunkMsg(c, FileData)) \/ ("disk" \in Faults /\ UNCHANGED net)
    /\ UNCHANGED <<served, registered, confirm, srow, settled, answerSame>>
    /\ SenderSame

SenderTask == Announce \/ Register \/ Listen \/ CommitChunk \/ NoticeCancel \/ NoticePause
              \/ HoldEnds \/ StreamChunk

SenderNext ==
    \/ SenderTask
    \/ StreamFails
    \/ ConfirmDeadline \/ Cleanup
    \/ PauseTransfer \/ ResumeTransfer \/ CancelTransfer
    \/ OnCompleted \/ OnError
    \/ \E m \in net : OnNack(m)
    \/ \E c \in Chunk : ResendChunk(c)

-----------------------------------------------------------------------------
(* Receiver: the entry of incoming_transfers and its temporary file *)

ReceiverSame == UNCHANGED <<losses, senderVars>>

entry == <<istate, got, rounds, ipaused>>
file == <<linked, onDisk, temp>>

RemoveEntry == istate' = "absent" /\ got' = {} /\ rounds' = 0 /\ ipaused' = FALSE

\* Remove the file at the temp path, whoever wrote it.
DeleteTemp == linked' = FALSE /\ onDisk' = FALSE /\ temp' = NothingWritten

Step(g, s) == fin' = [fin EXCEPT ![g] = s]

-----------------------------------------------------------------------------
(* Receiver: messages, handled one at a time by the session's event loop *)

\* A META nobody knows opens the transfer; File::create truncates what is at the temp path.
OnMeta ==
    /\ Take(Meta)
    /\ istate = "absent" /\ gens < MaxGens
    /\ istate' = "streaming" /\ got' = {} /\ rounds' = 0 /\ ipaused' = FALSE
    /\ linked' = TRUE /\ onDisk' = TRUE /\ temp' = NothingWritten
    /\ dog' = TRUE
    /\ gens' = gens + 1
    /\ rrow' = "transferring"
    /\ UNCHANGED <<fin, rejecting, saved, auto>>
    /\ ReceiverSame

AcceptsChunk(m) == istate = "streaming" /\ m.idx \notin got

\* A chunk is written once; the one that completes the set starts the finalize task.
OnChunk(m) ==
    /\ m.type = "CHUNK" /\ AcceptsChunk(m)
    /\ Take(m)
    /\ temp' = IF linked THEN [temp EXCEPT ![m.idx] = m.data] ELSE temp
    /\ got' = got \cup {m.idx}
    /\ IF got' = Chunk
         THEN istate' = "verifying" /\ Step(gens, "spawned") /\ rrow' = "verifying"
         ELSE rrow' = "transferring" /\ UNCHANGED <<istate, fin>>
    /\ UNCHANGED <<rounds, ipaused, linked, onDisk, dog, gens, rejecting, saved, auto>>
    /\ ReceiverSame

\* Seek or write fails: the transfer is dropped at once, and the sender is not told.
OnChunkFails(m) ==
    /\ m.type = "CHUNK" /\ AcceptsChunk(m) /\ "disk" \in Faults
    /\ Take(m)
    /\ RemoveEntry /\ DeleteTemp
    /\ rrow' = "failed"
    /\ UNCHANGED <<dog, gens, fin, rejecting, saved, auto>>
    /\ ReceiverSame

OnPause ==
    /\ Take(Ctrl("PAUSE")) /\ istate # "absent"
    /\ ipaused' = TRUE
    /\ UNCHANGED <<istate, got, rounds, file, dog, gens, fin, rejecting, saved, auto, rrow>>
    /\ ReceiverSame

OnResume ==
    /\ Take(Ctrl("RESUME")) /\ istate # "absent"
    /\ ipaused' = FALSE
    /\ UNCHANGED <<istate, got, rounds, file, dog, gens, fin, rejecting, saved, auto, rrow>>
    /\ ReceiverSame

\* Variant: CANCEL forgets the temporary file.
OnCancelLeaky ==
    /\ Take(Ctrl("CANCEL")) /\ istate # "absent"
    /\ RemoveEntry
    /\ rrow' = "cancelled"
    /\ UNCHANGED <<file, dog, gens, fin, rejecting, saved, auto>>
    /\ ReceiverSame

OnCancel ==
    /\ Take(Ctrl("CANCEL")) /\ istate # "absent"
    /\ RemoveEntry /\ DeleteTemp
    /\ rrow' = "cancelled"
    /\ UNCHANGED <<dog, gens, fin, rejecting, saved, auto>>
    /\ ReceiverSame

\* A message whose handler returns early.
Ignored(m) ==
    \/ m.type = "META" /\ (istate # "absent" \/ "disk" \in Faults)
    \/ m.type = "CHUNK" /\ ~AcceptsChunk(m)
    \/ m.type \in {"PAUSE", "RESUME", "CANCEL"} /\ istate = "absent"
    \/ m.type = "NACK" /\ m.missing = {}
    \/ ToSender(m) /\ ~(listening /\ registered)

Ignore(m) ==
    /\ m \in net /\ Ignored(m)
    /\ net' = net \ {m}
    /\ UNCHANGED <<losses, senderVars, receiverVars>>

-----------------------------------------------------------------------------
(* Receiver: the watchdog *)

\* Ten seconds without a chunk.  Unless the link is slow, that means nothing is on its way.
Stalled == \/ "slow" \in Faults
           \/ /\ spc = "over" \/ (spc = "holding" /\ paused)
              /\ resend = {}
              /\ \A m \in net : m.type \notin {"CHUNK", "NACK", "PAUSE", "RESUME"}

\* The watchdog finds the transfer stale; while it is paused the clock is reset instead.
WatchdogDue == dog /\ istate = "streaming" /\ ~ipaused /\ Stalled

\* The first NackBatch missing chunks, in order.
Missing == {c \in Chunk \ got : Cardinality({d \in Chunk \ got : d < c}) < NackBatch}

watchSame == <<gens, fin, rejecting, saved, auto>>

WatchdogNack ==
    /\ WatchdogDue
    /\ rounds < MaxNack
    /\ rounds' = rounds + 1
    /\ Send(Nack(Missing))
    /\ UNCHANGED <<istate, got, ipaused, file, dog, rrow, watchSame>>
    /\ ReceiverSame

\* Variant: one round too many is allowed for, and never comes.
WatchdogGivesUpLate ==
    /\ WatchdogDue
    /\ rounds > MaxNack
    /\ RemoveEntry /\ DeleteTemp
    /\ dog' = FALSE
    /\ rrow' = "failed"
    /\ UNCHANGED <<net, watchSame>>
    /\ ReceiverSame

WatchdogGivesUp ==
    /\ WatchdogDue
    /\ rounds = MaxNack
    /\ RemoveEntry /\ DeleteTemp
    /\ dog' = FALSE
    /\ rrow' = "failed"
    /\ UNCHANGED <<net, watchSame>>
    /\ ReceiverSame

WatchdogEnds ==
    /\ dog /\ istate # "streaming"
    /\ dog' = FALSE
    /\ UNCHANGED <<net, entry, file, rrow, watchSame>>
    /\ ReceiverSame

-----------------------------------------------------------------------------
(* Receiver: finalize_incoming and deliver_incoming, on a task of their own *)

finalSame == <<dog, gens, rejecting, auto>>

\* incoming_is_live
Live == istate \in {"streaming", "verifying"}

FinalizeChecks(g) ==
    /\ fin[g] = "spawned"
    /\ Step(g, IF Live THEN "hashing" ELSE "off")
    /\ UNCHANGED <<net, entry, file, saved, rrow, finalSame>>
    /\ ReceiverSame

Intact == onDisk /\ \A c \in Chunk : temp[c] = "good"

\* Variant: all chunks are there, so the file must be right.
FinalizeTrusts(g) ==
    /\ fin[g] = "hashing"
    /\ Step(g, IF onDisk THEN "good" ELSE "bad")
    /\ UNCHANGED <<net, entry, file, saved, rrow, finalSame>>
    /\ ReceiverSame

\* verify_sha256 of whatever is at the temp path; a read error counts as a mismatch.
FinalizeHashes(g) ==
    /\ fin[g] = "hashing"
    /\ \/ Step(g, IF Intact THEN "good" ELSE "bad")
       \/ "disk" \in Faults /\ Step(g, "bad")
    /\ UNCHANGED <<net, entry, file, saved, rrow, finalSame>>
    /\ ReceiverSame

\* Removing the entry is the claim on the outcome; without one there is nothing to report.
ClaimBad(g) ==
    /\ fin[g] = "bad"
    /\ IF istate # "absent" THEN RemoveEntry /\ linked' = FALSE /\ Step(g, "complain")
                            ELSE Step(g, "unlink") /\ UNCHANGED <<entry, linked>>
    /\ UNCHANGED <<net, onDisk, temp, saved, rrow, finalSame>>
    /\ ReceiverSame

\* Variant: the entry is not looked at again after the hash.
ClaimGoodBlindly(g) ==
    /\ fin[g] = "good" /\ auto
    /\ RemoveEntry /\ linked' = FALSE /\ Step(g, "save")
    /\ UNCHANGED <<net, onDisk, temp, saved, rrow, finalSame>>
    /\ ReceiverSame

\* Variant: the receipt goes out before the file is renamed.
ClaimGoodEarlyReceipt(g) ==
    /\ fin[g] = "good" /\ auto /\ istate # "absent"
    /\ RemoveEntry /\ linked' = FALSE /\ Step(g, "save")
    /\ Send(Ctrl("COMPLETED"))
    /\ UNCHANGED <<onDisk, temp, saved, rrow, finalSame>>
    /\ ReceiverSame

ClaimGood(g) ==
    /\ fin[g] = "good" /\ auto
    /\ IF istate # "absent" THEN RemoveEntry /\ linked' = FALSE /\ Step(g, "save")
                            ELSE Step(g, "off") /\ UNCHANGED <<entry, linked>>
    /\ UNCHANGED <<net, onDisk, temp, saved, rrow, finalSame>>
    /\ ReceiverSame

\* Variant: the file is parked whether or not the entry survived.
ParkBlindly(g) ==
    /\ fin[g] = "good" /\ ~auto
    /\ istate' = "awaiting" /\ Step(g, "parked")
    /\ UNCHANGED <<net, got, rounds, ipaused, file, saved, rrow, finalSame>>
    /\ ReceiverSame

\* Without auto_receive the verified file waits for the user ...
Park(g) ==
    /\ fin[g] = "good" /\ ~auto
    /\ IF Live THEN istate' = "awaiting" /\ Step(g, "parked")
               ELSE Step(g, "unlink") /\ UNCHANGED istate
    /\ UNCHANGED <<net, got, rounds, ipaused, file, saved, rrow, finalSame>>
    /\ ReceiverSame

\* ... who is told once the table is unlocked, whatever became of the entry meanwhile.
ParkReports(g) ==
    /\ fin[g] = "parked"
    /\ rrow' = "awaiting_approval"
    /\ Step(g, "off")
    /\ UNCHANGED <<net, entry, file, saved, finalSame>>
    /\ ReceiverSame

Complain(g) ==
    /\ fin[g] = "complain"
    /\ Send(Ctrl("ERROR"))
    /\ DeleteTemp
    /\ rrow' = "failed"
    /\ Step(g, "off")
    /\ UNCHANGED <<entry, saved, finalSame>>
    /\ ReceiverSame

Unlink(g) ==
    /\ fin[g] = "unlink"
    /\ DeleteTemp
    /\ Step(g, "off")
    /\ UNCHANGED <<net, entry, saved, rrow, finalSame>>
    /\ ReceiverSame

\* Rename the temp file into the download directory, whatever it holds by now.
Save(g) ==
    /\ fin[g] = "save" /\ onDisk
    /\ saved' = [saved EXCEPT ![g] = IF Intact THEN "intact" ELSE "damaged"]
    /\ DeleteTemp
    /\ Step(g, "receipt")
    /\ UNCHANGED <<net, entry, rrow, finalSame>>
    /\ ReceiverSame

SaveFails(g) ==
    /\ fin[g] = "save" /\ (~onDisk \/ "disk" \in Faults)
    /\ DeleteTemp
    /\ Send(Ctrl("ERROR"))
    /\ rrow' = "failed"
    /\ Step(g, "off")
    /\ UNCHANGED <<entry, saved, finalSame>>
    /\ ReceiverSame

Receipt(g) ==
    /\ fin[g] = "receipt"
    /\ Send(Ctrl("COMPLETED"))
    /\ rrow' = "completed"
    /\ Step(g, "off")
    /\ UNCHANGED <<entry, file, saved, finalSame>>
    /\ ReceiverSame

FinalizeTask(g) == FinalizeChecks(g) \/ FinalizeHashes(g) \/ ClaimBad(g) \/ ClaimGood(g)
                   \/ Park(g) \/ ParkReports(g) \/ Complain(g) \/ Unlink(g)
                   \/ Save(g) \/ SaveFails(g) \/ Receipt(g)

-----------------------------------------------------------------------------
(* Receiver: the user's controls and the end of the session *)

\* approve_transfer takes the entry out and goes on as the finalize task would have.  The
\* button is there once the row has said that the file is waiting.
ApproveTransfer(g) ==
    /\ istate = "awaiting" /\ g <= gens /\ fin[g] = "off"
    /\ RemoveEntry /\ linked' = FALSE
    /\ Step(g, "save")
    /\ UNCHANGED <<net, onDisk, temp, saved, rrow, finalSame>>
    /\ ReceiverSame

\* Variant: a transfer can be rejected although its file is being delivered.
RejectTransferUnchecked ==
    /\ "reject" \in Faults /\ gens > 0
    /\ RemoveEntry /\ linked' = FALSE
    /\ rejecting' = rejecting \cup {gens}
    /\ UNCHANGED <<net, onDisk, temp, dog, gens, fin, saved, auto, rrow>>
    /\ ReceiverSame

\* reject_transfer, also reached through cancel_transfer, takes any entry out ...
RejectTransfer ==
    /\ "reject" \in Faults /\ istate # "absent"
    /\ RemoveEntry /\ linked' = FALSE
    /\ rejecting' = rejecting \cup {gens}
    /\ UNCHANGED <<net, onDisk, temp, dog, gens, fin, saved, auto, rrow>>
    /\ ReceiverSame

\* ... and then deletes the file and tells the sender.
RejectReports(g) ==
    /\ g \in rejecting
    /\ rejecting' = rejecting \ {g}
    /\ DeleteTemp
    /\ Send(Ctrl("ERROR"))
    /\ rrow' = "cancelled"
    /\ UNCHANGED <<entry, dog, gens, fin, saved, auto>>
    /\ ReceiverSame

SetAutoReceive ==
    /\ "toggle" \in Faults
    /\ auto' = ~auto
    /\ UNCHANGED <<net, entry, file, dog, gens, fin, rejecting, saved, rrow>>
    /\ ReceiverSame

\* disconnect() drops the entry and its file; no progress event is emitted.
Disconnect ==
    /\ "disconnect" \in Faults /\ istate # "absent"
    /\ RemoveEntry /\ DeleteTemp
    /\ UNCHANGED <<net, dog, gens, fin, rejecting, saved, auto, rrow>>
    /\ ReceiverSame

ReceiverNext ==
    \/ OnMeta
    \/ \E m \in net : OnChunk(m) \/ OnChunkFails(m)
    \/ OnPause \/ OnResume \/ OnCancel
    \/ WatchdogNack \/ WatchdogGivesUp \/ WatchdogEnds
    \/ \E g \in Gens : FinalizeTask(g) \/ ApproveTransfer(g) \/ RejectReports(g)
    \/ RejectTransfer \/ SetAutoReceive \/ Disconnect

-----------------------------------------------------------------------------
(* Environment and specification *)

\* The user edits the file after it was hashed.
EditSource ==
    /\ "edit" \in Faults /\ source = "intact" /\ spc # "idle"
    /\ source' = "edited"
    /\ UNCHANGED <<net, losses, spc, next, registered, listening, paused, cancelled, served,
                   resend, confirm, cleanup, srow, settled, receiverVars>>

\* QoS 0, or a session that ends with the message undelivered.
Lose(m) ==
    /\ m \in net /\ losses < MaxLoss
    /\ net' = net \ {m}
    /\ losses' = losses + 1
    /\ UNCHANGED <<senderVars, receiverVars>>

Next == \/ SenderNext
        \/ ReceiverNext
        \/ EditSource
        \/ \E m \in net : Ignore(m) \/ Lose(m)

Spec == Init /\ [][Next]_vars

\* The broker delivers what it does not lose, and tasks keep running.  Of the sender's two
\* deadlines nothing is asked: they may pass at any time, or late.
Deliver(m) == Ignore(m) \/ OnNack(m) \/ OnChunk(m)

Fairness ==
    /\ WF_vars(SenderTask)
    /\ WF_vars(OnCompleted) /\ WF_vars(OnError) /\ WF_vars(OnMeta)
    /\ WF_vars(OnPause) /\ WF_vars(OnResume) /\ WF_vars(OnCancel)
    /\ \A m \in Message : WF_vars(Deliver(m))
    /\ \A c \in Chunk : WF_vars(ResendChunk(c))
    /\ WF_vars(WatchdogNack) /\ WF_vars(WatchdogGivesUp)
    /\ \A g \in Gens : WF_vars(FinalizeTask(g)) /\ WF_vars(RejectReports(g))

FairSpec == Spec /\ Fairness

-----------------------------------------------------------------------------
(* Safety *)

\* Nothing reaches the download directory but the announced file, whole: not a file the
\* user edited while it was streamed, and not a partial one (finalize_incoming).
SavedIsIntact == \A g \in Gens : saved[g] # "damaged"

\* "delivered" on the sender's side is proof that the receiver saved the file: a COMPLETED
\* receipt follows the rename (deliver_incoming, handle_ctrl).
DeliveredMeansSaved ==
    "delivered" \in {srow, settled} => \E g \in Gens : saved[g] # "none"

\* The receiver's row says what happened to the file, whichever of the finalize task, the
\* watchdog, CANCEL, reject and approve got to the entry first.
RowTellsOutcome ==
    /\ rrow = "completed" => \E g \in Gens : saved[g] # "none"
    /\ rrow \in {"failed", "cancelled"} => \A g \in Gens : saved[g] = "none"

\* Once every task has let go of the transfer, no temporary file is left behind.
NoTempLeft ==
    (istate = "absent" /\ rejecting = {} /\ \A g \in Gens : fin[g] = "off") => ~onDisk

\* A receiver row that reached a final status stays there, and so does what was saved: a
\* finalize task that lost its entry stays silent (finalize_incoming).  The one exception is
\* a file that was parked before its entry was taken away: it is announced all the same, by
\* then without an entry.
Belated == istate = "absent" /\ \E g \in Gens : ParkReports(g)
ReceiverRowFinal ==
    [][(rrow \in ReceiveTerminal) => ((rrow' = rrow \/ Belated) /\ saved' = saved)]_vars

-----------------------------------------------------------------------------
(* Liveness *)

\* No transfer stays half received for ever: it completes, parks for approval, fails, or
\* is held by a pause the sender asked for (run_watchdog bounds the NACK rounds).
ReceiverSettles == Live ~> (~Live \/ ipaused)

\* One of the sender's deadlines has passed: it has forgotten the transfer and serves no NACK.
GivenUp == "fired" \in {confirm, cleanup}

\* Left alone, a transfer that loses fewer messages than the watchdog has rounds ends with
\* the file saved, or verified and waiting for approval, unless a deadline of the sender
\* passes first: neither waits for repairs.  (One round is spare: chunks that outrun META
\* are dropped, and only a NACK brings them back.)
LeftAlone == ~(paused \/ ipaused \/ cancelled \/ rejecting # {} \/ rrow = "cancelled")
LossIsRepaired ==
    (istate = "streaming") ~> \/ ~LeftAlone \/ GivenUp \/ losses >= MaxNack \/ istate = "awaiting"
                              \/ \E g \in Gens : saved[g] = "intact"

\* Pausing costs a transfer nothing: once the user has resumed it and lets go of the
\* controls, it ends like one that was left alone, if the pause did not outlast a deadline.
\* (An overtaken PAUSE may leave the receiver's watchdog paused, which then asks for nothing.)
LetGo == ~paused /\ Ctrl("PAUSE") \notin net /\ Ctrl("RESUME") \notin net
PauseIsHarmless ==
    <>[]LetGo => ((istate = "streaming") ~> \/ cancelled \/ GivenUp
                                            \/ losses >= MaxNack \/ istate = "awaiting"
                                            \/ []ipaused
                                            \/ \E g \in Gens : saved[g] = "intact")

-----------------------------------------------------------------------------
(* The promise this implements *)

phase == IF \E g \in Gens : saved[g] # "none" THEN "saved"
         ELSE IF gens = 0 THEN "waiting"
         ELSE IF istate # "absent" \/ \E g \in Gens : fin[g] = "save" THEN "open"
         ELSE "dropped"

Delivery == INSTANCE FileDelivery WITH phase <- phase, settled <- settled

\* Every behaviour of the transfer is one FileDelivery allows.
DeliverySpec == Delivery!Spec
=============================================================================
