----------------------------- MODULE Desk_proofs -----------------------------
(***************************************************************************)
(* The whole window: its steps are those of the group of parts that is     *)
(* open, and leave the other groups alone.  So what is proved of each      *)
(* group is true of the window.                                            *)
(***************************************************************************)
EXTENDS Desk, DeskLists_proofs, DeskPanels_proofs

LEMMA HasPanels == Spec => PanelsSpec
<1>1. Init => PanelsInit
  BY DEF Init
<1>2. [Next]_vars => [PanelsStep]_<<part, clicks, panelVars>>
  BY DEF Next, vars, PanelsNext, ListsNext, CardsNext, PanelsStep, PanelsParts
<1> QED
  BY <1>1, <1>2, PTL DEF Spec, PanelsSpec

LEMMA HasLists == Spec => ListsSpec
<1>1. Init => ListsInit
  BY DEF Init
<1>2. [Next]_vars => [ListsStep]_<<part, clicks, listVars>>
  BY DEF Next, vars, PanelsNext, ListsNext, CardsNext, ListsStep, ListsParts
<1> QED
  BY <1>1, <1>2, PTL DEF Spec, ListsSpec

LEMMA HasCards == Spec => CardsSpec
<1>1. Init => CardsInit
  BY DEF Init
<1>2. [Next]_vars => [CardsStep]_<<part, clicks, cardVars>>
  BY DEF Next, vars, PanelsNext, ListsNext, CardsNext, CardsStep, CardsParts
<1> QED
  BY <1>1, <1>2, PTL DEF Spec, CardsSpec

-----------------------------------------------------------------------------
\* However the answers, the progress events and the commits interleave, and whatever the user
\* clicks meanwhile, a file of the batch is shown as completed only if its peer has confirmed it
\* (waitForSendComplete, hooks/useBatchSender.ts).
THEOREM CompletedOnReceipt == Spec => []CompletedHasReceipt
BY HasLists, CompletedOnReceiptInLists, PTL

\* However the loads overlap and in whatever order the archive answers them: a list that no
\* longer loads answers the filter above it, and an exported list names the question its rows
\* answer, but for a load that a clear or a retention ordered (HistoryPanel.tsx, requestRef).
THEOREM ListAnswersItsFilter == Spec => []ListIsNewest
BY HasLists, ListAnswersItsFilterInLists, PTL

\* Whatever arrives, however often the feed is paused, resumed and cleared, and wherever rows are
\* dropped, in the staging buffer of the backend or in the list of the window: a list with a hole
\* in it, or below what is held back, says so (useMqttMessages.ts:52-66).
THEOREM HolesAreTold == Spec => []GapIsTold
BY HasLists, HolesAreToldInLists, PTL

\* Whoever shares a stored password, whichever write or deletion fails, whatever the user edits
\* while one is under way, whether the move of older passwords at startup ends before the window
\* opens or goes on under it, key by key, and wherever the program is restarted: a reference in
\* the window or on disk leads to a password in the store. Excepted are passwords the user
\* cleared, and those deleted with the last profile that had them while only holders that
\* deleteProfile does not ask still did (secrets.ts, useBroker.ts, SettingsModal.tsx, useBridge.ts).
THEOREM NothingDangles == Spec => []NoDangling
BY HasLists, NothingDanglesInLists, PTL

\* Whatever fails, whoever shares it, whatever becomes of a rule while its save waits for the
\* store, and however late the move at startup writes the rules it had read: "a saved rule never
\* names a value the keychain does not have" (BridgePanel.tsx), in the window and on disk, but for
\* a value that was deleted while a form, a save or that move still had it (webhookHeaders.ts).
THEOREM HeadersKeepTheirValues == Spec => []HeaderHasValue
BY HasLists, HeadersKeepTheirValuesInLists, PTL

-----------------------------------------------------------------------------
\* Where no push overtook another: once the last is answered, the backend works with the set
\* the panel lists, or the panel says that it kept the previous one (useFaults.ts, useSilence.ts,
\* useResponder.ts, useAssertions.ts).
THEOREM PanelTellsOfRefusal == Spec => []ArmedOrSaidInOrder
BY HasPanels, PanelTellsOfRefusalInPanels, PTL

\* Whatever the order of the answers, and whoever asked: a verdict that comes on the screen is that
\* of the bar and the evidence at that moment.  It may stay beside newer ones until the next answer
\* (ScenarioPanel.tsx, the effect that judges).
THEOREM VerdictBesideItsEvidence == Spec => VerdictIsCurrent
BY HasPanels, VerdictBesideItsEvidenceInPanels, PTL

\* However late the sandbox answers: a decoded text was made by the script in force, or by one
\* that the key of the cache cannot tell from it, and a row that shows its bytes says that it
\* waits or that the script failed (useCodec.ts, codec.ts).
THEOREM DecodedByScriptInForce == Spec => []DecodedByKey
BY HasPanels, DecodedByScriptInForceInPanels, PTL

\* Nothing forwards on behind a card that offers to connect it, once nothing is under way, for
\* any connection whose calls never overlapped (bridge.rs, connect and emit_status; useBridge.ts).
THEOREM CardShowsItsLink == Spec => []NoneHidden
BY HasPanels, CardShowsItsLinkInPanels, PTL

\* Whatever became of the file - cut in a line or between two, lines moved or taken out, a time
\* lost - a replay publishes the events of the chosen direction that the file holds, in the order
\* of its lines, with the gaps between their times scaled and capped as asked, and nothing once it
\* was told to stop (ReplayPanel run, capture paceFor).  Of a file nobody edited that is what was
\* recorded, up to where the file was cut, if no two rows of the archive are of one time.
THEOREM ReplayPlaysAsRecorded == Spec => []PlaysAsRecorded
BY HasPanels, ReplayPlaysAsRecordedInPanels, PTL

-----------------------------------------------------------------------------
\* The table of a SenML pack that was parsed has a row for every value and every sum of the type
\* its label asks for, and no other, each under the base fields in force at its record, for packs
\* of any length and content; of another type, only a vd is warned of (senml.ts).
THEOREM TableResolvesEveryValue == Spec => []ValuesResolved
BY HasCards, TableResolvesEveryValueInCards, PTL

\* The delivery audit accuses nobody, for archives of any number of topics, publishers and rows:
\* what it lists as missing was sent and no readable row has it, its sums agree, every row that says
\* when it was sent is a latency or a skewed clock, and of rows that came in different milliseconds
\* it calls late those that were overtaken (deliveryAudit.ts).
THEOREM AuditAccusesNobody == Spec => []AuditTells
BY HasCards, AuditAccusesNobodyInCards, PTL
=============================================================================
