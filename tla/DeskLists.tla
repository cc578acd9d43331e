------------------------------ MODULE DeskLists ------------------------------
(***************************************************************************)
(* The lists of the desktop window that outlive a message: profiles with   *)
(* their passwords, bridge rules with their credential headers, the files  *)
(* that wait to be sent, the history page and the feed.  See Desk.         *)
(***************************************************************************)
EXTENDS Integers, Sequences, FiniteSets, DeskPart

CONSTANTS
    \* where broker passwords live
    Ref,          \* references that can be minted
    Id,           \* ids of profiles, and of bridge rules
    Host,         \* hosts that can be typed; it stands for all the form's other fields
    Link,         \* ids of connections of the bridge that remember a config
    Left,         \* configs with passwords that a run can start with
    \* the bridge rules with their credential headers
    SourceFilter, \* source filters that can be typed; it stands for the other fields of the form too
    Name,         \* names of credential headers that can be typed
    MaxSinks,     \* BRIDGE_MAX_EXTRA_SINKS, and the sink of the rule's own
    MaxHeaders,   \* bound: header lines of a sink
    OldRules,     \* rule sets a run can start with, before any header was moved to the store
    \* the files that wait to be sent
    MaxSends,     \* bound: transfers started
    MaxFiles,     \* bound: files in the batch
    MaxReports,   \* bound: progress events under way
    \* the history page
    Text,         \* what is searched for; "" is everything
    View,         \* direction, limit, window and staleDays, picked as one
    Token,        \* what is traced; "" is no token
    Days,         \* retention, in days
    Limit,        \* how many rows the list shows
    Whole,        \* the rows stored with all their bytes
    MaxRows,      \* bound: rows ever stored
    \* the feed of messages
    MessageKinds, \* [topic, dir, retain] of the messages of a behaviour
    BufferMax,    \* FEED_BUFFER_MAX (2000)
    BatchMax,     \* FEED_BATCH_MAX (200)
    MaxMessages,  \* MAX_MESSAGES (500)
    MaxTopics,    \* MAX_TOPICS of the autocomplete registry (200)
    MaxPresets,   \* MAX_FILTER_PRESETS (8)
    MaxArrivals   \* bound on the messages of a behaviour

VARIABLES
    \* where broker passwords live
    disk, saved, store, minted, available, boot, moving, dialog, status, present, report, commit,
    forget, drops, connecting, disowned,
    \* the bridge rules with their credential headers
    bridgeRules, bridgeDisk, bridgeConnections, bridgeBoot, staged, bridgeStore, bridgeMinted,
    bridgeAvailable, draft, texts, bridgeForm, bridgeSaving, bridgeDrops, pendingDelete, bridgeArmedConn, bridgeDisowned,
    \* the files that wait to be sent
    files, loop, cancelRef, rows, shown, events, phase, held, paused, cancelled, receipts,
    \* the history page
    archive, search, debouncedSearch, timer, view, autoRefresh, loads, loading, error,
    historyShown, retentionDraft, orders, expandedId, traceToken, tracing, traces, requested,
    trace, traceError, traceExpanded, timeline, exporting, file, published,
    \* the feed of messages
    arrived, buffer, dropped, flight, messages, pending, feedPaused, feedDropped, observed,
    feedSearch, direction, filterPresets, confirmPreset, compareOn, picked, armClear, retainOpen,
    clearing, feedExporting, timers

settings == <<disk, saved, store, minted, available, boot, moving, dialog, status, present,
              report, commit, forget, drops, connecting, disowned>>
bridge == <<bridgeRules, bridgeDisk, bridgeConnections, bridgeBoot, staged, bridgeStore,
            bridgeMinted, bridgeAvailable, draft, texts, bridgeForm, bridgeSaving, bridgeDrops, pendingDelete, bridgeArmedConn,
            bridgeDisowned>>
queue == <<files, loop, cancelRef, rows, shown, events, phase, held, paused, cancelled, receipts>>
history == <<archive, search, debouncedSearch, timer, view, autoRefresh, loads, loading, error,
             historyShown, retentionDraft, orders, expandedId, traceToken, tracing, traces,
             requested, trace, traceError, traceExpanded, timeline, exporting, file, published>>
feed == <<arrived, buffer, dropped, flight, messages, pending, feedPaused, feedDropped, observed,
          feedSearch, direction, filterPresets, confirmPreset, compareOn, picked, armClear,
          retainOpen, clearing, feedExporting, timers>>
listVars == <<settings, bridge, queue, history, feed>>

Settings == INSTANCE Credentials
    WITH MaxClicks <- MaxClicks.settings, None <- NoValue
Bridge == INSTANCE BridgeRules
    WITH MaxClicks <- MaxClicks.bridge, None <- NoValue, Filter <- SourceFilter,
         Stored <- OldRules, MaxRows <- MaxHeaders, rules <- bridgeRules, disk <- bridgeDisk,
         connections <- bridgeConnections, boot <- bridgeBoot, store <- bridgeStore, minted <- bridgeMinted,
         available <- bridgeAvailable, form <- bridgeForm, saving <- bridgeSaving,
         drops <- bridgeDrops, armedConn <- bridgeArmedConn, disowned <- bridgeDisowned
Queue == INSTANCE BatchQueue
    WITH MaxClicks <- MaxClicks.queue, None <- NoValue, MaxEvents <- MaxReports
Page == INSTANCE History
    WITH MaxClicks <- MaxClicks.history, shown <- historyShown
Feed == INSTANCE ConsoleFeed
    WITH MaxClicks <- MaxClicks.feed, Kinds <- MessageKinds, paused <- feedPaused,
         search <- feedSearch, exporting <- feedExporting

ASSUME ListsAssumption ==
    /\ NoValue \notin Settings!Cfg /\ NoValue # "delivered" /\ NoValue \notin Ref
    /\ 0 \notin Id \cup Link /\ Id \cap Link = {}
    /\ \A c \in Left : c \in Settings!Cfg /\ c.ref = NoValue
    /\ SourceFilter # {}
    /\ \A rs \in OldRules : rs \in [Id -> Bridge!Rule \cup {NoValue}] /\ Bridge!headerReferences(rs) = {}
    /\ BufferMax \in Nat \ {0} /\ BatchMax \in Nat \ {0} /\ MaxMessages \in Nat \ {0}

-----------------------------------------------------------------------------
\* A part that stays closed.
NoSettings ==
    /\ disk = 0 /\ saved = 0 /\ store = 0 /\ minted = 0 /\ available = 0 /\ boot = 0 /\ moving = 0
    /\ dialog = 0 /\ status = 0 /\ present = 0 /\ report = 0 /\ commit = 0 /\ forget = 0
    /\ drops = 0 /\ connecting = 0 /\ disowned = 0
NoBridge ==
    /\ bridgeRules = 0 /\ bridgeDisk = 0 /\ bridgeConnections = 0 /\ bridgeBoot = 0 /\ staged = 0 /\ bridgeStore = 0
    /\ bridgeMinted = 0 /\ bridgeAvailable = 0 /\ draft = 0 /\ texts = 0 /\ bridgeForm = 0
    /\ bridgeSaving = 0 /\ bridgeDrops = 0 /\ pendingDelete = 0 /\ bridgeArmedConn = 0
    /\ bridgeDisowned = 0
NoQueue ==
    /\ files = 0 /\ loop = 0 /\ cancelRef = 0 /\ rows = 0 /\ shown = 0 /\ events = 0 /\ phase = 0
    /\ held = 0 /\ paused = 0 /\ cancelled = 0 /\ receipts = 0
NoPage ==
    /\ archive = 0 /\ search = 0 /\ debouncedSearch = 0 /\ timer = 0 /\ view = 0
    /\ autoRefresh = 0 /\ loads = 0 /\ loading = 0 /\ error = 0 /\ historyShown = 0
    /\ retentionDraft = 0 /\ orders = 0 /\ expandedId = 0 /\ traceToken = 0 /\ tracing = 0
    /\ traces = 0 /\ requested = 0 /\ trace = 0 /\ traceError = 0 /\ traceExpanded = 0
    /\ timeline = 0 /\ exporting = 0 /\ file = 0 /\ published = 0
NoFeed ==
    /\ arrived = 0 /\ buffer = 0 /\ dropped = 0 /\ flight = 0 /\ messages = 0 /\ pending = 0
    /\ feedPaused = 0 /\ feedDropped = 0 /\ observed = 0 /\ feedSearch = 0 /\ direction = 0
    /\ filterPresets = 0 /\ confirmPreset = 0 /\ compareOn = 0 /\ picked = 0 /\ armClear = 0
    /\ retainOpen = 0 /\ clearing = 0 /\ feedExporting = 0 /\ timers = 0

ListsInit ==
    /\ IF part = "settings" THEN Settings!Init ELSE NoSettings
    /\ IF part = "bridge" THEN Bridge!Init ELSE NoBridge
    /\ IF part = "queue" THEN Queue!Init ELSE NoQueue
    /\ IF part = "history" THEN Page!Init ELSE NoPage
    /\ IF part = "feed" THEN Feed!Init ELSE NoFeed

ListsNext ==
    \/ part = "settings" /\ Settings!Next /\ UNCHANGED <<bridge, queue, history, feed>>
    \/ part = "bridge" /\ Bridge!Next /\ UNCHANGED <<settings, queue, history, feed>>
    \/ part = "queue" /\ Queue!Next /\ UNCHANGED <<settings, bridge, history, feed>>
    \/ part = "history" /\ Page!Next /\ UNCHANGED <<settings, bridge, queue, feed>>
    \/ part = "feed" /\ Feed!Next /\ UNCHANGED <<settings, bridge, queue, history>>

ListsParts == {"settings", "bridge", "queue", "history", "feed"}

\* What these parts do, whatever another does.
ListsStep == part' = part /\ (ListsNext \/ (part \notin ListsParts /\ UNCHANGED listVars))
ListsSpec == ListsInit /\ [][ListsStep]_<<part, clicks, listVars>>

-----------------------------------------------------------------------------
\* No saved config points to a password that is gone, unless the user had it deleted.
NoDangling == part = "settings" => Settings!NoDangling

\* A credential header of a saved rule has its value in the store, unless it was deleted while in use.
HeaderHasValue == part = "bridge" => Bridge!HeaderHasValue

\* A file is shown as completed only if its peer has said so.
CompletedHasReceipt == part = "queue" => Queue!CompletedHasReceipt

\* The history on the screen is the answer to the newest question.
ListIsNewest == part = "history" => Page!ListIsNewest

\* A feed with a hole in it says that messages were dropped.
GapIsTold == part = "feed" => Feed!GapIsTold
=============================================================================
