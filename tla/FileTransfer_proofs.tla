------------------------ MODULE FileTransfer_proofs ------------------------
(***************************************************************************)
(* What TLC checks of FileTransfer on small instances, proved for files of *)
(* any length, any limits on retransmission and any mixture of faults.     *)
(*                                                                         *)
(* A transfer whose META arrives once has one outcome: the file is saved   *)
(* whole or not at all, the receiver's row says which, and together the    *)
(* two machines keep the promise of FileDelivery.  (With a second META     *)
(* none of this holds; the run transfer_reopened shows why.)               *)
(***************************************************************************)
EXTENDS FileTransfer, TLAPS

-----------------------------------------------------------------------------
(* Messages are messages *)

\* Each constructor builds a message the type invariant admits.
LEMMA MessageTypes ==
    /\ Meta \in Message
    /\ \A c \in Chunk, q \in {"good", "bad"} : ChunkMsg(c, q) \in Message
    /\ \A s \in SUBSET Chunk : Nack(s) \in Message
    /\ \A t \in CtrlKinds : Ctrl(t) \in Message
BY DEF Meta, ChunkMsg, Nack, Ctrl, Message

\* A message that is taken, repeated or not, leaves a set of messages.
LEMMA TakeType ==
    ASSUME net \subseteq Message, NEW m, Take(m)
    PROVE  net' \subseteq Message /\ m \in Message
BY DEF Take

\* The fields of a chunk and of a NACK are what their names say.
LEMMA FieldTypes ==
    ASSUME NEW m \in Message
    PROVE  /\ m.type = "CHUNK" => m.idx \in Chunk /\ m.data \in {"good", "bad"}
           /\ m.type = "NACK" => m.missing \in SUBSET Chunk
BY DEF Meta, Message, CtrlKinds

-----------------------------------------------------------------------------
(* Types *)

\* A step of the sending side preserves the types.
LEMMA SenderTypes ==
    ASSUME TypeOK, SenderNext
    PROVE  TypeOK'
<1> USE TransferAssumption, MessageTypes
    DEF TypeOK, SenderSame, receiverVars, Send, SenderRow, SendSteps, SendTerminal, SendRows,
        TimerStates
<1>1. CASE Announce
  BY <1>1 DEF Announce
<1>2. CASE Register
  BY <1>2 DEF Register
<1>3. CASE Listen
  BY <1>3 DEF Listen
<1>4. CASE CommitChunk
  BY <1>4 DEF CommitChunk, streamSame
<1>5. CASE NoticeCancel
  BY <1>5 DEF NoticeCancel, streamSame
<1>6. CASE NoticePause
  BY <1>6 DEF NoticePause, streamSame
<1>7. CASE HoldEnds
  BY <1>7 DEF HoldEnds, streamSame
<1>8. CASE StreamChunk
  BY <1>8 DEF StreamChunk, streamSame, FileData, Chunk
<1>9. CASE StreamFails
  BY <1>9 DEF StreamFails, streamSame
<1>10. CASE ConfirmDeadline
  <2>1. registered' \in BOOLEAN
    BY <1>10 DEF ConfirmDeadline
  <2> QED
    BY <1>10, <2>1 DEF ConfirmDeadline, timerSame
<1>11. CASE Cleanup
  <2>1. registered' \in BOOLEAN /\ listening' \in BOOLEAN
    BY <1>11 DEF Cleanup
  <2> QED
    BY <1>11, <2>1 DEF Cleanup, timerSame
<1>12. CASE PauseTransfer
  BY <1>12 DEF PauseTransfer, controlSame, CtrlKinds
<1>13. CASE ResumeTransfer
  <2>1. paused' \in BOOLEAN
    BY <1>13 DEF ResumeTransfer
  <2> QED
    BY <1>13, <2>1 DEF ResumeTransfer, controlSame, CtrlKinds
<1>14. CASE CancelTransfer
  <2>1. paused' \in BOOLEAN
    BY <1>14 DEF CancelTransfer
  <2> QED
    BY <1>14, <2>1 DEF CancelTransfer, controlSame, CtrlKinds
<1>15. CASE OnCompleted
  <2>1. registered' \in BOOLEAN
    BY <1>15 DEF OnCompleted, OnReceipt
  <2> QED
    BY <1>15, <2>1, TakeType DEF OnCompleted, OnReceipt, answerSame
<1>16. CASE OnError
  <2>1. registered' \in BOOLEAN
    BY <1>16 DEF OnError, OnReceipt
  <2> QED
    BY <1>16, <2>1, TakeType DEF OnError, OnReceipt, answerSame
<1>17. CASE \E m \in net : OnNack(m)
  BY <1>17, TakeType, FieldTypes DEF OnNack, answerSame
<1>18. CASE \E c \in Chunk : ResendChunk(c)
  BY <1>18 DEF ResendChunk, answerSame, FileData
<1> QED
  BY <1>1, <1>2, <1>3, <1>4, <1>5, <1>6, <1>7, <1>8, <1>9, <1>10, <1>11, <1>12, <1>13, <1>14,
     <1>15, <1>16, <1>17, <1>18 DEF SenderNext, SenderTask

\* Letting an entry or a temporary file go leaves values of the right type.
LEMMA RemovalTypes ==
    /\ RemoveEntry => /\ istate' \in EntryStates /\ got' \subseteq Chunk
                      /\ rounds' \in 0 .. MaxNack /\ ipaused' \in BOOLEAN
    /\ DeleteTemp => linked' \in BOOLEAN /\ onDisk' \in BOOLEAN /\ temp' \in [Chunk -> Cell]
<1>1. ASSUME RemoveEntry PROVE ipaused' \in BOOLEAN
  BY <1>1 DEF RemoveEntry
<1>2. ASSUME RemoveEntry
      PROVE  istate' \in EntryStates /\ got' \subseteq Chunk /\ rounds' \in 0 .. MaxNack
  BY <1>2, TransferAssumption DEF RemoveEntry, EntryStates
<1>3. ASSUME DeleteTemp PROVE linked' \in BOOLEAN /\ onDisk' \in BOOLEAN
  BY <1>3 DEF DeleteTemp
<1>4. ASSUME DeleteTemp PROVE temp' \in [Chunk -> Cell]
  BY <1>4 DEF DeleteTemp, NothingWritten, Cell
<1> QED
  BY <1>1, <1>2, <1>3, <1>4

\* The variables a step of the finalize task may change keep their types.
LEMMA StepType ==
    ASSUME TypeOK, NEW g \in Gens, NEW s \in FinSteps, Step(g, s)
    PROVE  fin' \in [Gens -> FinSteps]
BY DEF TypeOK, Step

\* A step of the finalize task preserves the types.
LEMMA FinalizeTypes ==
    ASSUME TypeOK, NEW g \in Gens, FinalizeTask(g)
    PROVE  TypeOK'
<1> USE TransferAssumption, MessageTypes, RemovalTypes, StepType
    DEF TypeOK, ReceiverSame, senderVars, finalSame, Send, ReceiveRows, ReceiveTerminal, FinSteps
<1>1. CASE FinalizeChecks(g)
  BY <1>1 DEF FinalizeChecks, entry, file
<1>2. CASE FinalizeHashes(g)
  BY <1>2 DEF FinalizeHashes, entry, file
<1>3. CASE ClaimBad(g)
  <2>1. linked' \in BOOLEAN
    BY <1>3 DEF ClaimBad
  <2> QED
    BY <1>3, <2>1 DEF ClaimBad, entry
<1>4. CASE ClaimGood(g)
  <2>1. linked' \in BOOLEAN
    BY <1>4 DEF ClaimGood
  <2> QED
    BY <1>4, <2>1 DEF ClaimGood, entry
<1>5. CASE Park(g)
  BY <1>5 DEF Park, file, EntryStates
<1>6. CASE Complain(g)
  BY <1>6 DEF Complain, entry, CtrlKinds
<1>7. CASE Unlink(g)
  BY <1>7 DEF Unlink, entry
<1>8. CASE Save(g)
  BY <1>8 DEF Save, entry
<1>9. CASE SaveFails(g)
  BY <1>9 DEF SaveFails, entry, CtrlKinds
<1>10. CASE Receipt(g)
  BY <1>10 DEF Receipt, entry, file, CtrlKinds
<1>11. CASE ParkReports(g)
  BY <1>11 DEF ParkReports, entry, file
<1> QED
  BY <1>1, <1>2, <1>3, <1>4, <1>5, <1>6, <1>7, <1>8, <1>9, <1>10, <1>11 DEF FinalizeTask

\* An entry belongs to an opening that was counted; TypeOK needs this to be inductive,
\* because a reject records the number of the opening it took the entry from.
Opened == istate # "absent" => gens # 0

\* A step of the receiving side preserves the types.
LEMMA ReceiverTypes ==
    ASSUME TypeOK, Opened, ReceiverNext
    PROVE  TypeOK'
<1> USE TransferAssumption, MessageTypes, RemovalTypes, StepType
    DEF TypeOK, ReceiverSame, senderVars, Send, ReceiveRows, ReceiveTerminal
<1>1. CASE OnMeta
  <2>1. ipaused' \in BOOLEAN
    BY <1>1 DEF OnMeta
  <2>2. gens' \in 0 .. MaxGens
    BY <1>1 DEF OnMeta
  <2>3. temp' \in [Chunk -> Cell]
    BY <1>1 DEF OnMeta, NothingWritten, Cell
  <2> QED
    BY <1>1, <2>1, <2>2, <2>3, TakeType DEF OnMeta, EntryStates
<1>2. CASE \E m \in net : OnChunk(m)
  <2> PICK m \in net : OnChunk(m)
    BY <1>2
  <2>1. net' \subseteq Message /\ m.idx \in Chunk /\ m.data \in Cell
    BY TakeType, FieldTypes DEF OnChunk, Cell
  <2>2. temp' \in [Chunk -> Cell] /\ got' \subseteq Chunk
    BY <2>1 DEF OnChunk
  <2>3. fin' \in [Gens -> FinSteps]
    BY DEF OnChunk, Step, FinSteps
  <2> QED
    BY <2>1, <2>2, <2>3 DEF OnChunk, EntryStates
<1>3. CASE \E m \in net : OnChunkFails(m)
  BY <1>3, TakeType DEF OnChunkFails
<1>4. CASE OnPause
  BY <1>4, TakeType DEF OnPause, file
<1>5. CASE OnResume
  <2>1. ipaused' \in BOOLEAN
    BY <1>5 DEF OnResume
  <2> QED
    BY <1>5, <2>1, TakeType DEF OnResume, file
<1>6. CASE OnCancel
  BY <1>6, TakeType DEF OnCancel
<1>7. CASE WatchdogNack
  <2>1. Missing \in SUBSET Chunk
    BY DEF Missing
  <2>2. rounds' \in 0 .. MaxNack
    BY <1>7 DEF WatchdogNack
  <2> QED
    BY <1>7, <2>1, <2>2 DEF WatchdogNack, file, watchSame
<1>8. CASE WatchdogGivesUp
  <2>1. dog' \in BOOLEAN
    BY <1>8 DEF WatchdogGivesUp
  <2> QED
    BY <1>8, <2>1 DEF WatchdogGivesUp, watchSame
<1>9. CASE WatchdogEnds
  <2>1. dog' \in BOOLEAN
    BY <1>9 DEF WatchdogEnds
  <2> QED
    BY <1>9, <2>1 DEF WatchdogEnds, entry, file, watchSame
<1>10. CASE \E g \in Gens : FinalizeTask(g)
  BY <1>10, FinalizeTypes
<1>11. CASE \E g \in Gens : ApproveTransfer(g)
  <2> PICK g \in Gens : ApproveTransfer(g)
    BY <1>11
  <2>1. linked' \in BOOLEAN
    BY DEF ApproveTransfer
  <2> QED
    BY <2>1 DEF ApproveTransfer, finalSame, FinSteps
<1>12. CASE \E g \in Gens : RejectReports(g)
  BY <1>12 DEF RejectReports, entry, CtrlKinds
<1>13. CASE RejectTransfer
  <2>1. linked' \in BOOLEAN
    BY <1>13 DEF RejectTransfer
  <2>2. gens \in Gens
    BY <1>13 DEF RejectTransfer, Opened, Gens
  <2> QED
    BY <1>13, <2>1, <2>2 DEF RejectTransfer
<1>14. CASE SetAutoReceive
  <2>1. auto' \in BOOLEAN
    BY <1>14 DEF SetAutoReceive
  <2> QED
    BY <1>14, <2>1 DEF SetAutoReceive, entry, file
<1>15. CASE Disconnect
  BY <1>15 DEF Disconnect
<1> QED
  BY <1>1, <1>2, <1>3, <1>4, <1>5, <1>6, <1>7, <1>8, <1>9, <1>10, <1>11, <1>12, <1>13, <1>14,
     <1>15 DEF ReceiverNext

\* What the environment does, and a handler that returns early, preserve the types.
LEMMA OtherTypes ==
    ASSUME TypeOK, EditSource \/ \E m \in net : Ignore(m) \/ Lose(m)
    PROVE  TypeOK'
<1> USE TransferAssumption DEF TypeOK, senderVars, receiverVars
<1>1. CASE EditSource
  BY <1>1 DEF EditSource
<1>2. CASE \E m \in net : Ignore(m)
  BY <1>2 DEF Ignore
<1>3. CASE \E m \in net : Lose(m)
  BY <1>3 DEF Lose
<1> QED
  BY <1>1, <1>2, <1>3

\* Only META makes an entry appear, and it counts the opening.
LEMMA OpenedStep ==
    ASSUME TypeOK, Opened, [Next]_vars
    PROVE  Opened'
<1> USE DEF Opened, ReceiverSame
<1>1. CASE SenderNext
  BY <1>1 DEF SenderNext, SenderTask, SenderSame, receiverVars, Announce, Register, Listen,
     CommitChunk, NoticeCancel, NoticePause, HoldEnds, StreamChunk, StreamFails,
     ConfirmDeadline, Cleanup, PauseTransfer, ResumeTransfer, CancelTransfer, OnCompleted,
     OnError, OnReceipt, OnNack, ResendChunk
<1>2. CASE OnMeta
  BY <1>2 DEF OnMeta, TypeOK
<1>3. CASE \E m \in net : OnChunk(m) \/ OnChunkFails(m)
  BY <1>3 DEF OnChunk, OnChunkFails, AcceptsChunk, RemoveEntry
<1>4. CASE OnPause \/ OnResume \/ OnCancel
  BY <1>4 DEF OnPause, OnResume, OnCancel, RemoveEntry
<1>5. CASE WatchdogNack \/ WatchdogGivesUp \/ WatchdogEnds
  BY <1>5 DEF WatchdogNack, WatchdogGivesUp, WatchdogEnds, RemoveEntry, entry, watchSame
<1>6. CASE \E g \in Gens : FinalizeTask(g)
  BY <1>6 DEF FinalizeTask, FinalizeChecks, FinalizeHashes, ClaimBad, ClaimGood, Park,
     ParkReports, Complain, Unlink, Save, SaveFails, Receipt, Live, RemoveEntry, entry, finalSame
<1>7. CASE \E g \in Gens : ApproveTransfer(g) \/ RejectReports(g)
  BY <1>7 DEF ApproveTransfer, RejectReports, RemoveEntry, entry, finalSame
<1>8. CASE RejectTransfer \/ SetAutoReceive \/ Disconnect
  BY <1>8 DEF RejectTransfer, SetAutoReceive, Disconnect, RemoveEntry, entry
<1>9. CASE EditSource \/ (\E m \in net : Ignore(m) \/ Lose(m)) \/ UNCHANGED vars
  BY <1>9 DEF EditSource, Ignore, Lose, vars, receiverVars
<1> QED
  BY <1>1, <1>2, <1>3, <1>4, <1>5, <1>6, <1>7, <1>8, <1>9 DEF Next, ReceiverNext

\* Type correctness together with what it needs to be inductive.
TypeInv == TypeOK /\ Opened

\* The initial values are of the right types, and no entry exists before its META.
LEMMA TypeInvInit == Init => TypeInv
<1> SUFFICES ASSUME Init PROVE TypeInv
  OBVIOUS
<1>1. /\ registered \in BOOLEAN /\ listening \in BOOLEAN /\ paused \in BOOLEAN
      /\ cancelled \in BOOLEAN /\ ipaused \in BOOLEAN /\ linked \in BOOLEAN
      /\ onDisk \in BOOLEAN /\ dog \in BOOLEAN
  BY DEF Init
<1>2. net \subseteq Message /\ temp \in [Chunk -> Cell]
  BY DEF Init, NothingWritten, Cell
<1>3. /\ losses \in 0 .. MaxLoss /\ served \in 0 .. MaxServe /\ rounds \in 0 .. MaxNack
      /\ gens \in 0 .. MaxGens /\ next \in 0 .. Total
  BY TransferAssumption DEF Init
<1>4. fin \in [Gens -> FinSteps] /\ saved \in [Gens -> {"none", "intact", "damaged"}]
  BY DEF Init, FinSteps
<1> QED
  BY <1>1, <1>2, <1>3, <1>4 DEF Init, TypeInv, TypeOK, Opened, SendSteps, TimerStates,
     SendRows, EntryStates, ReceiveRows

\* Every step of the whole system preserves both.
LEMMA TypeInvStep == TypeInv /\ [Next]_vars => TypeInv'
<1> SUFFICES ASSUME TypeInv, [Next]_vars PROVE TypeInv'
  OBVIOUS
<1>1. Opened'
  BY OpenedStep DEF TypeInv
<1>2. CASE SenderNext
  BY <1>1, <1>2, SenderTypes DEF TypeInv
<1>3. CASE ReceiverNext
  BY <1>1, <1>3, ReceiverTypes DEF TypeInv
<1>4. CASE EditSource \/ \E m \in net : Ignore(m) \/ Lose(m)
  BY <1>1, <1>4, OtherTypes DEF TypeInv
<1>5. CASE UNCHANGED vars
  <2>1. TypeOK'
    BY <1>5 DEF TypeInv, TypeOK, vars, senderVars, receiverVars
  <2> QED
    BY <1>1, <2>1 DEF TypeInv
<1> QED
  BY <1>2, <1>3, <1>4, <1>5 DEF Next

\* Every reachable state is well typed, for a file of any length and any set of faults.
THEOREM TypeCorrect == Spec => []TypeOK
<1>1. TypeInv => TypeOK
  BY DEF TypeInv
<1> QED
  BY <1>1, TypeInvInit, TypeInvStep, PTL DEF Spec

-----------------------------------------------------------------------------
(* A delivery receipt means a saved file *)

\* No other message is mistaken for a delivery receipt.
LEMMA MessagesDiffer ==
    /\ Meta # Ctrl("COMPLETED")
    /\ \A c, q : ChunkMsg(c, q) # Ctrl("COMPLETED")
    /\ \A s : Nack(s) # Ctrl("COMPLETED")
    /\ \A t : t # "COMPLETED" => Ctrl(t) # Ctrl("COMPLETED")
<1>1. Ctrl("COMPLETED").type = "COMPLETED"
  BY DEF Ctrl
<1>2. /\ Meta.type = "META"
      /\ \A c, q : ChunkMsg(c, q).type = "CHUNK"
      /\ \A s : Nack(s).type = "NACK"
      /\ \A t : Ctrl(t).type = t
  BY DEF Meta, ChunkMsg, Nack, Ctrl
<1> QED
  BY <1>1, <1>2

\* Taking a message puts none on the network.
LEMMA TakeShrinks == ASSUME NEW m, Take(m) PROVE m \in net /\ net' \subseteq net
BY DEF Take

\* The sender publishes no COMPLETED, and calls a transfer delivered only on one.
LEMMA SenderReceipts ==
    ASSUME SenderNext
    PROVE  /\ receiverVars' = receiverVars
           /\ Ctrl("COMPLETED") \in net' => Ctrl("COMPLETED") \in net
           /\ "delivered" \in {srow', settled'} =>
                  "delivered" \in {srow, settled} \/ Ctrl("COMPLETED") \in net
<1> USE MessagesDiffer DEF SenderSame, Send, SenderRow
<1>1. CASE SenderTask
  BY <1>1 DEF SenderTask, Announce, Register, Listen, CommitChunk, NoticeCancel, NoticePause,
     HoldEnds, StreamChunk, streamSame
<1>2. CASE StreamFails \/ ConfirmDeadline \/ Cleanup
  BY <1>2 DEF StreamFails, ConfirmDeadline, Cleanup
<1>3. CASE PauseTransfer \/ ResumeTransfer \/ CancelTransfer
  BY <1>3 DEF PauseTransfer, ResumeTransfer, CancelTransfer, controlSame
<1>4. CASE OnCompleted \/ OnError
  BY <1>4, TakeShrinks DEF OnCompleted, OnError, OnReceipt
<1>5. CASE \E m \in net : OnNack(m)
  BY <1>5, TakeShrinks DEF OnNack
<1>6. CASE \E c \in Chunk : ResendChunk(c)
  BY <1>6 DEF ResendChunk
<1> QED
  BY <1>1, <1>2, <1>3, <1>4, <1>5, <1>6 DEF SenderNext

\* The receiver publishes COMPLETED only after Save, and forgets no saved file.
LEMMA ReceiverReceipts ==
    ASSUME TypeOK, ReceiverNext
    PROVE  /\ srow' = srow /\ settled' = settled
           /\ \A g \in Gens : saved[g] # "none" => saved'[g] # "none"
           /\ \A g \in Gens : fin'[g] = "receipt" => fin[g] = "receipt" \/ saved'[g] # "none"
           /\ Ctrl("COMPLETED") \in net' => \/ Ctrl("COMPLETED") \in net
                                           \/ \E g \in Gens : fin[g] = "receipt"
<1> USE MessagesDiffer DEF TypeOK, ReceiverSame, senderVars, Send, Step
<1>1. CASE OnMeta \/ OnPause \/ OnResume \/ OnCancel
  BY <1>1, TakeShrinks DEF OnMeta, OnPause, OnResume, OnCancel
<1>2. CASE \E m \in net : OnChunk(m) \/ OnChunkFails(m)
  BY <1>2, TakeShrinks DEF OnChunk, OnChunkFails
<1>3. CASE WatchdogNack \/ WatchdogGivesUp \/ WatchdogEnds
  BY <1>3 DEF WatchdogNack, WatchdogGivesUp, WatchdogEnds, watchSame
<1>4. CASE \E g \in Gens : Save(g)
  BY <1>4 DEF Save
<1>5. CASE \E g \in Gens : Receipt(g)
  BY <1>5 DEF Receipt
<1>6. CASE \E g \in Gens : \/ FinalizeChecks(g) \/ FinalizeHashes(g) \/ ClaimBad(g)
                          \/ ClaimGood(g) \/ Park(g) \/ ParkReports(g) \/ Complain(g)
                          \/ Unlink(g) \/ SaveFails(g)
  BY <1>6 DEF FinalizeChecks, FinalizeHashes, ClaimBad, ClaimGood, Park, ParkReports, Complain,
     Unlink, SaveFails
<1>7. CASE \E g \in Gens : ApproveTransfer(g) \/ RejectReports(g)
  BY <1>7 DEF ApproveTransfer, RejectReports
<1>8. CASE RejectTransfer \/ SetAutoReceive \/ Disconnect
  BY <1>8 DEF RejectTransfer, SetAutoReceive, Disconnect
<1> QED
  BY <1>1, <1>2, <1>3, <1>4, <1>5, <1>6, <1>7, <1>8 DEF ReceiverNext, FinalizeTask

\* A saved file backs every receipt: the one about to be sent, the one on its way and the
\* one the sender acted on.  DeliveredMeansSaved is its last part.
Kept == \E g \in Gens : saved[g] # "none"
Backed == /\ \A g \in Gens : fin[g] = "receipt" => saved[g] # "none"
          /\ Ctrl("COMPLETED") \in net => Kept
          /\ "delivered" \in {srow, settled} => Kept

\* Every step keeps each claim of delivery backed by a saved file.
LEMMA BackedStep == TypeOK /\ Backed /\ [Next]_vars => Backed'
<1> SUFFICES ASSUME TypeOK, Backed, [Next]_vars PROVE Backed'
  OBVIOUS
<1> USE DEF Backed, Kept
<1>1. CASE SenderNext
  BY <1>1, SenderReceipts DEF receiverVars
<1>2. CASE ReceiverNext
  BY <1>2, ReceiverReceipts
<1>3. CASE EditSource
  BY <1>3 DEF EditSource, receiverVars
<1>4. CASE \E m \in net : Ignore(m) \/ Lose(m)
  BY <1>4 DEF Ignore, Lose, senderVars, receiverVars
<1>5. CASE UNCHANGED vars
  BY <1>5 DEF vars, senderVars, receiverVars
<1> QED
  BY <1>1, <1>2, <1>3, <1>4, <1>5 DEF Next

\* Whatever is lost, duplicated, cancelled or restarted by a repeated META, the sender says
\* "delivered" only if the receiver saved a file.
THEOREM DeliveredIsSaved == Spec => []DeliveredMeansSaved
<1>1. Init => Backed
  BY DEF Init, Backed
<1>2. TypeInv => TypeOK
  BY DEF TypeInv
<1>3. Backed => DeliveredMeansSaved
  BY DEF Backed, Kept, DeliveredMeansSaved
<1> QED
  BY <1>1, <1>2, <1>3, TypeInvInit, TypeInvStep, BackedStep, PTL DEF Spec

-----------------------------------------------------------------------------
(* The outcome of a transfer that was opened once *)

\* Who holds the transfer.  While the entry is there nobody has an outcome to report, and
\* whoever takes it out - the finalize task, an approval or a reject - reports alone.
Custody ==
    /\ istate # "absent" =>
           /\ fin[1] \notin {"complain", "save", "receipt", "unlink"}
           /\ rejecting = {} /\ saved[1] = "none" /\ rrow \notin ReceiveTerminal
    /\ istate = "streaming" => fin[1] = "off"
    /\ istate = "awaiting" => fin[1] \in {"off", "parked"}
    /\ fin[1] = "parked" => istate \in {"absent", "awaiting"} /\ saved[1] = "none"
    /\ fin[1] \in {"complain", "save"} =>
           istate = "absent" /\ rejecting = {} /\ saved[1] = "none" /\ rrow \notin ReceiveTerminal
    /\ fin[1] = "receipt" =>
           istate = "absent" /\ rejecting = {} /\ saved[1] # "none" /\ rrow \notin ReceiveTerminal
    /\ rejecting # {} => istate = "absent" /\ saved[1] = "none" /\ rrow \notin ReceiveTerminal

\* The row and the download directory agree.
Agreement ==
    /\ saved[1] # "none" => fin[1] = "receipt" \/ (fin[1] = "off" /\ rrow = "completed")
    /\ rrow = "completed" => saved[1] # "none"

\* A temporary file has someone to remove it, and once hashed it stays as it was.
TempFile ==
    /\ onDisk => istate # "absent" \/ rejecting # {} \/ fin[1] \in {"complain", "save"}
    /\ onDisk /\ (fin[1] \in {"good", "save"} \/ istate = "awaiting") => Intact
    /\ saved[1] # "damaged"

\* Nothing has happened before the first META.
Untouched ==
    gens = 0 => /\ istate = "absent" /\ rejecting = {} /\ ~onDisk /\ rrow = "none"
                /\ fin[1] = "off" /\ saved[1] = "none"

Outcome == Custody /\ Agreement /\ TempFile /\ Untouched

-----------------------------------------------------------------------------
(* Outcome is inductive *)

\* One opening of the transfer means one finalize task.
LEMMA OneOpening == ASSUME MaxGens = 1 PROVE Gens = {1}
BY DEF Gens

\* What a task does to its own program counter is all that happens to fin.
LEMMA TaskStep ==
    ASSUME MaxGens = 1, TypeOK, NEW g \in Gens, NEW s, Step(g, s)
    PROVE  g = 1 /\ fin'[1] = s
BY OneOpening DEF TypeOK, Step

\* Before the META arrives nothing has been promised.
LEMMA OutcomeInit == ASSUME MaxGens = 1, Init PROVE Outcome
<1>1. 1 \in Gens
  BY OneOpening
<1> QED
  BY <1>1 DEF Init, Outcome, Custody, Agreement, TempFile, Untouched, ReceiveTerminal

\* A step that leaves the receiver alone leaves the outcome alone.
LEMMA OutcomeSame == ASSUME Outcome, UNCHANGED receiverVars PROVE Outcome'
BY DEF Outcome, Custody, Agreement, TempFile, Untouched, Intact, receiverVars

\* The finalize task.
LEMMA OutcomeFinalize ==
    ASSUME MaxGens = 1, TypeInv, Outcome, NEW g \in Gens, FinalizeTask(g)
    PROVE  Outcome'
<1> USE TaskStep DEF TypeInv, Opened, Outcome, Custody, Agreement, TempFile, Untouched,
        ReceiveTerminal, finalSame
<1>0. g = 1 /\ TypeOK /\ istate \in EntryStates /\ gens # 0
  <2>1. g = 1
    BY OneOpening
  <2>2. fin[1] # "off"
    BY <2>1 DEF FinalizeTask, FinalizeChecks, FinalizeHashes, ClaimBad, ClaimGood, Park,
       ParkReports, Complain, Unlink, Save, SaveFails, Receipt
  <2> QED
    BY <2>1, <2>2 DEF TypeOK
<1>1. CASE FinalizeChecks(g)
  BY <1>0, <1>1 DEF FinalizeChecks, Live, entry, file, Intact
<1>2. CASE FinalizeHashes(g)
  BY <1>0, <1>2 DEF FinalizeHashes, entry, file, Intact
<1>3. CASE ClaimBad(g)
  BY <1>0, <1>3 DEF ClaimBad, RemoveEntry, entry, Intact
<1>4. CASE ClaimGood(g)
  BY <1>0, <1>4 DEF ClaimGood, RemoveEntry, entry, Intact
<1>5. CASE Park(g)
  BY <1>0, <1>5 DEF Park, Live, EntryStates, file, Intact
<1>6. CASE Complain(g)
  BY <1>0, <1>6 DEF Complain, DeleteTemp, entry
<1>7. CASE Unlink(g)
  BY <1>0, <1>7 DEF Unlink, DeleteTemp, entry
<1>8. CASE Save(g)
  <2>1. saved'[1] = "intact"
    BY <1>0, <1>8, OneOpening DEF Save, TypeOK
  <2> QED
    BY <1>0, <1>8, <2>1 DEF Save, DeleteTemp, entry
<1>9. CASE SaveFails(g)
  BY <1>0, <1>9 DEF SaveFails, DeleteTemp, entry
<1>10. CASE Receipt(g)
  BY <1>0, <1>10 DEF Receipt, entry, file
<1>11. CASE ParkReports(g)
  BY <1>0, <1>11 DEF ParkReports, entry, file, Intact
<1> QED
  BY <1>1, <1>2, <1>3, <1>4, <1>5, <1>6, <1>7, <1>8, <1>9, <1>10, <1>11 DEF FinalizeTask

\* The messages, the watchdog and the user.
LEMMA OutcomeReceiver ==
    ASSUME MaxGens = 1, TypeInv, Outcome, ReceiverNext
    PROVE  Outcome'
<1> USE TaskStep DEF TypeInv, Opened, Outcome, Custody, Agreement, TempFile, Untouched,
        ReceiveTerminal
<1>0. TypeOK /\ istate \in EntryStates /\ gens \in {0, 1} /\ 1 \in Gens
  BY OneOpening DEF TypeOK
<1>1. CASE OnMeta
  BY <1>0, <1>1 DEF OnMeta
<1>2. CASE \E m \in net : OnChunk(m)
  <2> PICK m \in net : OnChunk(m)
    BY <1>2
  <2>1. gens = 1 /\ istate = "streaming"
    BY <1>0 DEF OnChunk, AcceptsChunk
  <2>2. CASE got' = Chunk
    BY <1>0, <2>1, <2>2 DEF OnChunk
  <2>3. CASE got' # Chunk
    BY <1>0, <2>1, <2>3 DEF OnChunk
  <2> QED
    BY <2>2, <2>3
<1>3. CASE \E m \in net : OnChunkFails(m)
  BY <1>0, <1>3 DEF OnChunkFails, AcceptsChunk, RemoveEntry, DeleteTemp
<1>4. CASE OnPause \/ OnResume
  BY <1>0, <1>4 DEF OnPause, OnResume, file, Intact
<1>5. CASE OnCancel
  BY <1>0, <1>5 DEF OnCancel, RemoveEntry, DeleteTemp
<1>6. CASE WatchdogNack
  BY <1>0, <1>6 DEF WatchdogNack, file, watchSame, Intact
<1>7. CASE WatchdogGivesUp
  BY <1>0, <1>7 DEF WatchdogGivesUp, WatchdogDue, RemoveEntry, DeleteTemp, watchSame
<1>8. CASE WatchdogEnds
  BY <1>0, <1>8 DEF WatchdogEnds, entry, file, watchSame, Intact
<1>9. CASE \E g \in Gens : FinalizeTask(g)
  BY <1>9, OutcomeFinalize
<1>10. CASE \E g \in Gens : ApproveTransfer(g)
  BY <1>0, <1>10 DEF ApproveTransfer, RemoveEntry, finalSame, Intact
<1>11. CASE \E g \in Gens : RejectReports(g)
  <2> PICK g \in Gens : RejectReports(g)
    BY <1>11
  <2>1. rejecting # {} /\ rejecting' = {}
    BY OneOpening DEF RejectReports, TypeOK
  <2> QED
    BY <1>0, <2>1 DEF RejectReports, DeleteTemp, entry
<1>12. CASE RejectTransfer
  BY <1>0, <1>12 DEF RejectTransfer, RemoveEntry, Intact
<1>13. CASE SetAutoReceive
  BY <1>0, <1>13 DEF SetAutoReceive, entry, file, Intact
<1>14. CASE Disconnect
  BY <1>0, <1>14 DEF Disconnect, RemoveEntry, DeleteTemp
<1> QED
  BY <1>1, <1>2, <1>3, <1>4, <1>5, <1>6, <1>7, <1>8, <1>9, <1>10, <1>11, <1>12, <1>13, <1>14
     DEF ReceiverNext

\* Every step of the whole system preserves the outcome invariant.
LEMMA OutcomeStep ==
    ASSUME MaxGens = 1
    PROVE  TypeInv /\ Outcome /\ [Next]_vars => Outcome'
<1> SUFFICES ASSUME TypeInv, Outcome, [Next]_vars PROVE Outcome'
  OBVIOUS
<1>1. CASE SenderNext
  BY <1>1, SenderReceipts, OutcomeSame
<1>2. CASE ReceiverNext
  BY <1>2, OutcomeReceiver
<1>3. CASE EditSource
  BY <1>3, OutcomeSame DEF EditSource
<1>4. CASE \E m \in net : Ignore(m) \/ Lose(m)
  BY <1>4, OutcomeSame DEF Ignore, Lose
<1>5. CASE UNCHANGED vars
  BY <1>5, OutcomeSame DEF vars
<1> QED
  BY <1>1, <1>2, <1>3, <1>4, <1>5 DEF Next

\* So the three invariants hold together in every reachable state.
LEMMA OutcomeHolds == ASSUME MaxGens = 1 PROVE Spec => [](TypeInv /\ Outcome /\ Backed)
<1>1. Init => TypeInv /\ Outcome /\ Backed
  BY TypeInvInit, OutcomeInit DEF Init, Backed
<1>2. TypeInv /\ Outcome /\ Backed /\ [Next]_vars => (TypeInv /\ Outcome /\ Backed)'
  BY TypeInvStep, OutcomeStep, BackedStep DEF TypeInv
<1> QED
  BY <1>1, <1>2, PTL DEF Spec

-----------------------------------------------------------------------------
(* What follows from it *)

\* Nothing but the announced file, whole, reaches the download directory, however the file
\* is edited meanwhile and whoever removes the entry.
THEOREM OnlyIntactFiles == ASSUME MaxGens = 1 PROVE Spec => []SavedIsIntact
<1>1. Outcome => SavedIsIntact
  BY OneOpening DEF Outcome, TempFile, SavedIsIntact
<1> QED
  BY <1>1, OutcomeHolds, PTL

\* The receiver's row never claims a file that was not saved, nor denies one that was.
THEOREM RowIsTrue == ASSUME MaxGens = 1 PROVE Spec => []RowTellsOutcome
<1>1. Outcome => RowTellsOutcome
  BY OneOpening DEF Outcome, Custody, Agreement, RowTellsOutcome, ReceiveTerminal
<1> QED
  BY <1>1, OutcomeHolds, PTL

\* No path out of a transfer leaves its temporary file behind.
THEOREM NothingLeftBehind == ASSUME MaxGens = 1 PROVE Spec => []NoTempLeft
<1>1. Outcome => NoTempLeft
  BY OneOpening DEF Outcome, TempFile, NoTempLeft
<1> QED
  BY <1>1, OutcomeHolds, PTL

\* A final row is overwritten by nothing but the belated announcement of a parked file, and
\* the download directory stays as the row said.
THEOREM FinalRowStays == ASSUME MaxGens = 1 PROVE Spec => ReceiverRowFinal
<1>1. TypeInv /\ Outcome /\ [Next]_vars
        => ((rrow \in ReceiveTerminal) => ((rrow' = rrow \/ Belated) /\ saved' = saved))
  <2> SUFFICES ASSUME TypeInv, Outcome, [Next]_vars, rrow \in ReceiveTerminal
               PROVE  (rrow' = rrow \/ Belated) /\ saved' = saved
    OBVIOUS
  <2>1. /\ istate = "absent" /\ rejecting = {} /\ gens = 1
        /\ fin[1] \notin {"complain", "save", "receipt"}
    BY OneOpening
       DEF Outcome, Custody, Untouched, TypeInv, TypeOK, ReceiveTerminal
  <2>2. CASE SenderNext
    BY <2>2, SenderReceipts DEF receiverVars
  <2>3. CASE ReceiverNext
    <3>0. CASE \E g \in Gens : ParkReports(g)
      BY <2>1, <3>0 DEF Belated, ParkReports
    <3>1. CASE \E g \in Gens : FinalizeTask(g) /\ ~ParkReports(g)
      BY <2>1, <3>1, OneOpening DEF FinalizeTask, FinalizeChecks, FinalizeHashes, ClaimBad,
         ClaimGood, Park, Live, Complain, Unlink, Save, SaveFails, Receipt
    <3>2. CASE \E g \in Gens : ApproveTransfer(g) \/ RejectReports(g)
      BY <2>1, <3>2 DEF ApproveTransfer, RejectReports
    <3>3. CASE OnMeta \/ OnPause \/ OnResume \/ OnCancel
      BY <2>1, <3>3 DEF OnMeta, OnPause, OnResume, OnCancel
    <3>4. CASE \E m \in net : OnChunk(m) \/ OnChunkFails(m)
      BY <2>1, <3>4 DEF OnChunk, OnChunkFails, AcceptsChunk
    <3>5. CASE WatchdogNack \/ WatchdogGivesUp \/ WatchdogEnds
      BY <2>1, <3>5 DEF WatchdogNack, WatchdogGivesUp, WatchdogEnds, WatchdogDue, watchSame
    <3>6. CASE RejectTransfer \/ SetAutoReceive \/ Disconnect
      BY <2>1, <3>6 DEF RejectTransfer, SetAutoReceive, Disconnect
    <3> QED
      BY <2>3, <3>0, <3>1, <3>2, <3>3, <3>4, <3>5, <3>6 DEF ReceiverNext
  <2>4. CASE EditSource
    BY <2>4 DEF EditSource, receiverVars
  <2>5. CASE \E m \in net : Ignore(m) \/ Lose(m)
    BY <2>5 DEF Ignore, Lose, receiverVars
  <2>6. CASE UNCHANGED vars
    BY <2>6 DEF vars, receiverVars
  <2> QED
    BY <2>2, <2>3, <2>4, <2>5, <2>6 DEF Next
<1> QED
  BY <1>1, OutcomeHolds, PTL DEF Spec, ReceiverRowFinal

-----------------------------------------------------------------------------
(* FileTransfer implements FileDelivery *)

\* The phase, with one opening to look at.
Phase(saving, kept) == IF kept THEN "saved" ELSE IF gens = 0 THEN "waiting"
                       ELSE IF istate # "absent" \/ saving THEN "open" ELSE "dropped"

\* With one opening, the abstract phase is read off the receiver's entry and finalize task.
LEMMA PhaseIs ==
    ASSUME MaxGens = 1
    PROVE  /\ phase = Phase(fin[1] = "save", saved[1] # "none")
           /\ phase' = Phase(fin[1] = "save", saved[1] # "none")'
<1>1. (\E g \in Gens : saved[g] # "none") <=> saved[1] # "none"
  BY OneOpening
<1>2. (\E g \in Gens : saved'[g] # "none") <=> saved'[1] # "none"
  BY OneOpening
<1>3. (\E g \in Gens : fin[g] = "save") <=> fin[1] = "save"
  BY OneOpening
<1>4. (\E g \in Gens : fin'[g] = "save") <=> fin'[1] = "save"
  BY OneOpening
<1> QED
  BY <1>1, <1>2, <1>3, <1>4, Zenon DEF phase, Phase

\* A step of the finalize task saves the file, gives it up or leaves the phase alone.
LEMMA FinalizePhase ==
    ASSUME MaxGens = 1, TypeInv, Outcome, NEW g \in Gens, FinalizeTask(g)
    PROVE  phase' = phase \/ (phase = "open" /\ phase' \in {"saved", "dropped"})
<1> USE TaskStep, PhaseIs
    DEF Phase, TypeInv, Outcome, Custody, Agreement, Untouched, finalSame, entry
<1>0. g = 1 /\ TypeOK
  BY OneOpening
<1>1. CASE FinalizeChecks(g) \/ FinalizeHashes(g) \/ Park(g) \/ ParkReports(g) \/ Unlink(g)
  BY <1>0, <1>1 DEF FinalizeChecks, FinalizeHashes, Park, ParkReports, Unlink, Live
<1>2. CASE ClaimBad(g) \/ ClaimGood(g)
  BY <1>0, <1>2 DEF ClaimBad, ClaimGood, RemoveEntry
<1>3. CASE Complain(g) \/ SaveFails(g) \/ Receipt(g)
  BY <1>0, <1>3 DEF Complain, SaveFails, Receipt
<1>4. CASE Save(g)
  <2>1. saved'[1] # "none"
    BY <1>0, <1>4, OneOpening DEF Save, TypeOK
  <2>2. phase = "open"
    BY <1>0, <1>4 DEF Save
  <2> QED
    BY <2>1, <2>2
<1> QED
  BY <1>1, <1>2, <1>3, <1>4 DEF FinalizeTask

\* Every other step of the receiver opens the transfer, gives it up or leaves the phase alone.
LEMMA ReceiverPhase ==
    ASSUME MaxGens = 1, TypeInv, Outcome, ReceiverNext
    PROVE  \/ phase' = phase
           \/ phase = "waiting" /\ phase' = "open"
           \/ phase = "open" /\ phase' \in {"saved", "dropped"}
<1> USE TaskStep, PhaseIs DEF Phase, TypeInv, Opened, Outcome, Custody, Agreement, Untouched
<1>0. TypeOK /\ gens \in {0, 1} /\ 1 \in Gens
  BY OneOpening DEF TypeOK
<1>1. CASE OnMeta
  BY <1>0, <1>1 DEF OnMeta
<1>2. CASE \E m \in net : OnChunk(m)
  <2> PICK m \in net : OnChunk(m)
    BY <1>2
  <2>1. gens = 1 /\ istate = "streaming"
    BY <1>0 DEF OnChunk, AcceptsChunk
  <2>2. fin'[1] # "save" /\ istate' # "absent"
    <3>1. CASE got' = Chunk
      BY <1>0, <2>1, <3>1 DEF OnChunk
    <3>2. CASE got' # Chunk
      BY <1>0, <2>1, <3>2 DEF OnChunk
    <3> QED
      BY <3>1, <3>2
  <2> QED
    BY <2>1, <2>2 DEF OnChunk
<1>3. CASE \E m \in net : OnChunkFails(m)
  BY <1>0, <1>3 DEF OnChunkFails, AcceptsChunk, RemoveEntry
<1>4. CASE OnPause \/ OnResume
  BY <1>0, <1>4 DEF OnPause, OnResume
<1>5. CASE OnCancel
  BY <1>0, <1>5 DEF OnCancel, RemoveEntry
<1>6. CASE WatchdogNack \/ WatchdogEnds
  BY <1>0, <1>6 DEF WatchdogNack, WatchdogEnds, entry, watchSame
<1>7. CASE WatchdogGivesUp
  BY <1>0, <1>7 DEF WatchdogGivesUp, WatchdogDue, RemoveEntry, watchSame
<1>8. CASE \E g \in Gens : FinalizeTask(g)
  BY <1>8, FinalizePhase
<1>9. CASE \E g \in Gens : ApproveTransfer(g)
  BY <1>0, <1>9 DEF ApproveTransfer, RemoveEntry, finalSame
<1>10. CASE \E g \in Gens : RejectReports(g)
  BY <1>0, <1>10 DEF RejectReports, entry
<1>11. CASE RejectTransfer
  BY <1>0, <1>11 DEF RejectTransfer, RemoveEntry
<1>12. CASE SetAutoReceive
  BY <1>0, <1>12 DEF SetAutoReceive, entry
<1>13. CASE Disconnect
  BY <1>0, <1>13 DEF Disconnect, RemoveEntry
<1> QED
  BY <1>1, <1>2, <1>3, <1>4, <1>5, <1>6, <1>7, <1>8, <1>9, <1>10, <1>11, <1>12, <1>13
     DEF ReceiverNext

\* The sender reports one first outcome, and "delivered" only on a receipt.
LEMMA SenderSettles ==
    ASSUME TypeOK, SenderNext
    PROVE  \/ settled' = settled
           \/ /\ settled = "pending" /\ settled' \in SendTerminal
              /\ settled' = "delivered" => Ctrl("COMPLETED") \in net
<1> USE DEF SenderRow, SendTerminal
<1>1. CASE SenderTask \/ StreamFails
  BY <1>1 DEF SenderTask, Announce, Register, Listen, CommitChunk, NoticeCancel, NoticePause,
     HoldEnds, StreamChunk, StreamFails
<1>2. CASE ConfirmDeadline \/ Cleanup
  BY <1>2 DEF ConfirmDeadline, Cleanup
<1>3. CASE PauseTransfer \/ ResumeTransfer \/ CancelTransfer
  BY <1>3 DEF PauseTransfer, ResumeTransfer, CancelTransfer, controlSame
<1>4. CASE OnCompleted \/ OnError
  BY <1>4, TakeShrinks DEF OnCompleted, OnError, OnReceipt
<1>5. CASE \/ \E m \in net : OnNack(m)
           \/ \E c \in Chunk : ResendChunk(c)
  BY <1>5 DEF OnNack, ResendChunk
<1> QED
  BY <1>1, <1>2, <1>3, <1>4, <1>5 DEF SenderNext

\* What leaves the receiver alone leaves the phase alone.
LEMMA PhaseSame == ASSUME UNCHANGED receiverVars PROVE phase' = phase
BY DEF receiverVars, phase

\* Every step of the two machines and the network is a step of FileDelivery or none.
LEMMA DeliveryStep ==
    ASSUME MaxGens = 1, TypeInv, Outcome, Backed, [Next]_vars
    PROVE  [Delivery!Next]_(Delivery!vars)
<1> USE DEF Delivery!Next, Delivery!vars, Delivery!Open, Delivery!Save, Delivery!Drop
<1>1. CASE SenderNext
  <2>1. phase' = phase
    BY <1>1, SenderReceipts, PhaseSame
  <2>2. CASE settled' = settled
    BY <2>1, <2>2
  <2>3. CASE settled' # settled
    <3>1. /\ settled = "pending" /\ settled' \in Delivery!Verdicts
          /\ settled' = "delivered" => Kept
      BY <1>1, <2>3, SenderSettles DEF TypeInv, Backed, SendTerminal, Delivery!Verdicts
    <3>2. Kept => phase = "saved"
      BY DEF Kept, phase
    <3>3. Delivery!Settle(settled')
      BY <2>1, <3>1, <3>2 DEF Delivery!Settle
    <3> QED
      BY <3>1, <3>3
  <2> QED
    BY <2>2, <2>3
<1>2. CASE ReceiverNext
  <2>1. settled' = settled
    BY <1>2, ReceiverReceipts DEF TypeInv
  <2> QED
    BY <1>2, <2>1, ReceiverPhase
<1>3. CASE EditSource
  BY <1>3, PhaseSame DEF EditSource
<1>4. CASE \E m \in net : Ignore(m) \/ Lose(m)
  BY <1>4, PhaseSame DEF Ignore, Lose, senderVars
<1>5. CASE UNCHANGED vars
  BY <1>5, PhaseSame DEF vars, senderVars
<1> QED
  BY <1>1, <1>2, <1>3, <1>4, <1>5 DEF Next

\* The protocol keeps the promise: one opening, one end, and "delivered" only of a saved file.
THEOREM TransferImplementsDelivery == ASSUME MaxGens = 1 PROVE Spec => DeliverySpec
<1>1. Init => Delivery!Init
  BY OneOpening DEF Init, phase, Delivery!Init
<1>2. TypeInv /\ Outcome /\ Backed /\ [Next]_vars => [Delivery!Next]_(Delivery!vars)
  BY DeliveryStep
<1> QED
  BY <1>1, <1>2, OutcomeHolds, PTL DEF Spec, DeliverySpec, Delivery!Spec
=============================================================================
