------------------------------ MODULE DeskCards ------------------------------
(***************************************************************************)
(* The two parts of the desktop window that only read: a SenML pack shown  *)
(* as a table, and the delivery audit of the rows on the history page.     *)
(* See Desk.                                                               *)
(***************************************************************************)
EXTENDS Integers, Sequences, FiniteSets, DeskPart

CONSTANTS
    \* a SenML pack as a table
    Packs,        \* the packs that arrive
    Threshold,    \* ABSOLUTE_EPOCH_THRESHOLD (2^28)
    Version,      \* SUPPORTED_VERSION (2)
    MaxPack,      \* records a pack may have to be taken for SenML (200)
    Now,          \* the reader's clock, in seconds
    \* the delivery audit
    Topics,       \* how many topics are published to
    ShownLimits,  \* how many rows the list may show
    Ahead,        \* how far the publishers' clock is ahead of ours
    ListCap,      \* listCap (200): the missing numbers that are listed
    Forms,        \* the forms a copy of a message may have in the archive
    MaxSent,      \* bound: messages published
    MaxStored,    \* bound: rows of the archive
    MaxClock      \* bound: milliseconds

VARIABLES
    \* a SenML pack as a table
    senmlPack, senmlShown,
    \* the delivery audit
    auditClock, auditSent, auditStored, auditRows, auditRun

senml == <<senmlPack, senmlShown>>
audit == <<auditClock, auditSent, auditStored, auditRows, auditRun>>
cardVars == <<senml, audit>>

Sheet == INSTANCE Senml
    WITH pack <- senmlPack, shown <- senmlShown
Card == INSTANCE DeliveryAudit
    WITH MaxClicks <- MaxClicks.audit, Limits <- ShownLimits, clock <- auditClock,
         sent <- auditSent, stored <- auditStored, rows <- auditRows, run <- auditRun

ASSUME CardsAssumption ==
    /\ \A p \in Packs : Sheet!IsPack(p)
    /\ Threshold \in Nat \ {0} /\ Now \in Int
    /\ Topics \in Nat /\ ShownLimits \subseteq Nat /\ Ahead \in Int /\ ListCap \in Nat

-----------------------------------------------------------------------------
\* A part that stays closed.
NoSheet == senmlPack = 0 /\ senmlShown = 0
NoCard == auditClock = 0 /\ auditSent = 0 /\ auditStored = 0 /\ auditRows = 0 /\ auditRun = 0

CardsInit ==
    /\ IF part = "senml" THEN Sheet!Init /\ clicks = 0 ELSE NoSheet
    /\ IF part = "audit" THEN Card!Init ELSE NoCard

CardsNext ==
    \/ part = "senml" /\ Sheet!Next /\ UNCHANGED <<clicks, audit>>
    \/ part = "audit" /\ Card!Next /\ UNCHANGED senml

CardsParts == {"senml", "audit"}

\* What these parts do, whatever another does.
CardsStep == part' = part /\ (CardsNext \/ (part \notin CardsParts /\ UNCHANGED cardVars))
CardsSpec == CardsInit /\ [][CardsStep]_<<part, clicks, cardVars>>

-----------------------------------------------------------------------------
\* The table of a pack has a row for each of its values, under the base fields in force, and no other.
ValuesResolved == part = "senml" => Sheet!ValuesResolved

\* The delivery audit reports the numbers that are missing, repeated or late, and no others.
AuditTells == part = "audit" => Card!AuditTells
=============================================================================
