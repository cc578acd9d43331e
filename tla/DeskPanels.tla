----------------------------- MODULE DeskPanels ------------------------------
(***************************************************************************)
(* The panels of the desktop window: each shows, or does by itself, what   *)
(* the backend works with.  See Desk.                                      *)
(***************************************************************************)
EXTENDS Integers, Sequences, FiniteSets, DeskPart

CONSTANTS
    \* a set of rules that the backend works with
    RuleIds,      \* ids newId() hands out, in order: 1 .. n
    MaxRules,     \* MAX_RULES of the backend's engines
    AlertCap,     \* ALERT_LOG_CAP (80)
    MaxSeen,      \* bound on the messages a rule counts
    MaxWaiting,   \* bound on the commands and on the answers under way
    \* scenarios and their verdicts
    Docs,         \* the files that may come with a ticket
    SharedRule,   \* what a responder rule or an assertion can be
    Tallies,      \* what the assertions may have counted
    MaxAsked,     \* bound: judgements asked for
    \* one row of the feed
    RowMessages,  \* the messages a behaviour may show
    Modes,        \* view modes the user picks from
    Scripts,      \* [id, len] of the codec scripts the user types; len 0 is no usable script
    CacheCap,     \* CACHE_CAP (200)
    \* the sessions of the bridge
    Endpoint,     \* broker configs
    Reach,        \* endpoints that can be built
    MaxEvents,    \* bound: status events under way
    MaxSessions,  \* bound: sessions ever started
    \* the replay of what was recorded
    Recorded,     \* what the archive may hold, in the order it was written
    Speeds,       \* SPEEDS (1, 2, 5, 10)
    GapCaps,      \* the longest gap the user allows; 0 is any
    MaxLoops      \* bound: replays

VARIABLES
    \* a set of rules that the backend works with
    kind, panelRules, pushes, armed, seen, answers, polled, stats, panelLastError, visible,
    confirmId, form, saving, formError, alerts, panelOverlapped,
    \* scenarios and their verdicts
    rig, evidence, isV5, open, scenarioPanel, asked, writing, scenarioSaved,
    \* one row of the feed
    msg, viewMode, connected, expanded, codecScript, cache, decoding, codec, marks, clipboard,
    rpcSent,
    \* the sessions of the bridge
    connections, remember, autoReconnect, booted, conns, busy, lastError, selected, armedConn,
    calls, linkEvents, table, sessions, up, started, overlapped,
    \* the replay of what was recorded
    replayArchive, mount, panel, reading, loops, session

rules == <<kind, panelRules, pushes, armed, seen, answers, polled, stats, panelLastError,
           visible, confirmId, form, saving, formError, alerts, panelOverlapped>>
scenario == <<rig, evidence, isV5, open, scenarioPanel, asked, writing, scenarioSaved>>
row == <<msg, viewMode, connected, expanded, codecScript, cache, decoding, codec, marks,
         clipboard, rpcSent>>
links == <<connections, remember, autoReconnect, booted, conns, busy, lastError, selected,
           armedConn, calls, linkEvents, table, sessions, up, started, overlapped>>
replay == <<replayArchive, mount, panel, reading, loops, session>>
panelVars == <<rules, scenario, row, links, replay>>

Rules == INSTANCE RulePanels
    WITH MaxClicks <- MaxClicks.rules, Ids <- RuleIds, rules <- panelRules,
         lastError <- panelLastError, overlapped <- panelOverlapped
Scene == INSTANCE Scenario
    WITH MaxClicks <- MaxClicks.scenario, Rule <- SharedRule, panel <- scenarioPanel,
         saved <- scenarioSaved
Row == INSTANCE MessageRow
    WITH MaxClicks <- MaxClicks.row, Rows <- RowMessages
Links == INSTANCE BridgeLinks
    WITH MaxClicks <- MaxClicks.links, None <- NoValue, events <- linkEvents
Player == INSTANCE Replay
    WITH MaxClicks <- MaxClicks.replay, archive <- replayArchive

ASSUME PanelsAssumption ==
    /\ CacheCap \in Nat \ {0} /\ \A s \in Scripts : s.id # Row!NoText
    /\ \A a \in Recorded : Player!InOrder(a)
    /\ Speeds \subseteq Nat \ {0} /\ GapCaps \subseteq Nat /\ \E c \in GapCaps : \A d \in GapCaps : c >= d

-----------------------------------------------------------------------------
\* A part that stays closed.
NoRules ==
    /\ kind = 0 /\ panelRules = 0 /\ pushes = 0 /\ armed = 0 /\ seen = 0 /\ answers = 0
    /\ polled = 0 /\ stats = 0 /\ panelLastError = 0 /\ visible = 0 /\ confirmId = 0
    /\ form = 0 /\ saving = 0 /\ formError = 0 /\ alerts = 0 /\ panelOverlapped = 0
NoScene ==
    /\ rig = 0 /\ evidence = 0 /\ isV5 = 0 /\ open = 0 /\ scenarioPanel = 0 /\ asked = 0
    /\ writing = 0 /\ scenarioSaved = 0
NoRow ==
    /\ msg = 0 /\ viewMode = 0 /\ connected = 0 /\ expanded = 0 /\ codecScript = 0 /\ cache = 0
    /\ decoding = 0 /\ codec = 0 /\ marks = 0 /\ clipboard = 0 /\ rpcSent = 0
NoLinks ==
    /\ connections = 0 /\ remember = 0 /\ autoReconnect = 0 /\ booted = 0 /\ conns = 0 /\ busy = 0
    /\ lastError = 0 /\ selected = 0 /\ armedConn = 0 /\ calls = 0 /\ linkEvents = 0 /\ table = 0
    /\ sessions = 0 /\ up = 0 /\ started = 0 /\ overlapped = 0
NoPlayer ==
    /\ replayArchive = 0 /\ mount = 0 /\ panel = 0 /\ reading = 0 /\ loops = 0 /\ session = 0

PanelsInit ==
    /\ IF part = "rules" THEN Rules!Init ELSE NoRules
    /\ IF part = "scenario" THEN Scene!Init ELSE NoScene
    /\ IF part = "row" THEN Row!Init ELSE NoRow
    /\ IF part = "links" THEN Links!Init ELSE NoLinks
    /\ IF part = "replay" THEN Player!Init ELSE NoPlayer

PanelsNext ==
    \/ part = "rules" /\ Rules!Next /\ UNCHANGED <<scenario, row, links, replay>>
    \/ part = "scenario" /\ Scene!Next /\ UNCHANGED <<rules, row, links, replay>>
    \/ part = "row" /\ Row!Next /\ UNCHANGED <<rules, scenario, links, replay>>
    \/ part = "links" /\ Links!Next /\ UNCHANGED <<rules, scenario, row, replay>>
    \/ part = "replay" /\ Player!Next /\ UNCHANGED <<rules, scenario, row, links>>

PanelsParts == {"rules", "scenario", "row", "links", "replay"}

\* What these parts do, whatever another does.
PanelsStep == part' = part /\ (PanelsNext \/ (part \notin PanelsParts /\ UNCHANGED panelVars))
PanelsSpec == PanelsInit /\ [][PanelsStep]_<<part, clicks, panelVars>>

-----------------------------------------------------------------------------
\* The backend works with the rules on the screen, or the panel says that it does not.
ArmedOrSaidInOrder == part = "rules" => Rules!ArmedOrSaidInOrder

\* A verdict that appears is that of the bar and the evidence beside it.
VerdictIsCurrent == [][part = "scenario" => Scene!ShowsCurrent]_<<part, panelVars>>

\* A decoded row was decoded by the script in force, or one its cache cannot tell from it.
DecodedByKey == part = "row" => Row!DecodedByKey

\* A bridge session that runs is on its card.
NoneHidden == part = "links" => Links!NoneHidden

\* A replay publishes what was recorded, when it is its turn, and nothing after it was stopped.
PlaysAsRecorded == part = "replay" => Player!PlaysAsRecorded

\* "Unmounting must not leave a loop publishing into a broker nobody is watching"
\* (ReplayPanel.tsx:73).
NobodyUnwatched == [][part = "replay" => Player!Watched]_<<part, panelVars>>
=============================================================================
