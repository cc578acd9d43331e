# DropQTT in TLA+

DropQTT is a desktop MQTT console: a Rust backend (`src-tauri/src`, tokio tasks
behind Tauri commands) with a TypeScript front end (`src`). It sends files peer
to peer over a broker, keeps a registry of subscriptions across reconnects, pairs
requests with their responses, bridges brokers and webhooks, and runs schedules,
alerts and load tests. This directory models the parts whose correctness depends
on the order in which tasks, timers, users, peers and the broker act, and the
algorithms that decide what the window shows. Every definition is translated from
the source; `PROJECT.json` gives, for each, the lines it stands for.

Contents: [the system](#the-system) · [the modules](#the-modules) ·
[the runs](#the-runs) · [fairness](#fairness) · [the proofs](#the-proofs) ·
[disagreements with the code's own words](#disagreements) ·
[what is not modelled](#what-is-not-modelled) · [plan](#plan)

## The system

The backend (`src-tauri/src`) is one `MqttManager` with a dozen independent
`Mutex`/`RwLock` fields. One task per session polls the MQTT library and handles its
events; each Tauri command, timer and file transfer runs on tasks of its own. No lock
is held across components, so anything may happen between two lock acquisitions of one
function.

The front end (`src`) is one React window. Its only processor is the event loop, so a
handler runs whole; but it holds copies, and the calls that refresh them (`invoke`) and
the events the backend emits are answered in any order. What a closure has read is as
old as the render it was made in; what is on disk is what some effect has written. That
is where the properties of the front end are aimed.

| Component | State | Operations | Hard behaviour |
|---|---|---|---|
| **File transfer** (`mqtt_manager.rs`, `protocol.rs`) | outgoing and incoming tables, temporary file, pause/cancel flags, NACK counters, rows of both users | `send_file`, stream task, `pause/resume/cancel_transfer`, `handle_meta`, `handle_chunk`, `handle_ctrl`, `run_watchdog`, `finalize_incoming`, `deliver_incoming`, `approve/reject_transfer`, `resend_chunks`, `disconnect` | the finalize task, the watchdog, CANCEL, reject, approve and disconnect race for one entry; messages are lost, repeated and overtaken; the sender's deadlines wait for no repair |
| **Session and ack attribution** (`mqtt_manager.rs`, `acks.rs`, `transport.rs`) | client handle, request channel of 100, subscription registry, ack slots, quarantine | CONNACK replay, `subscribe_topic`, `unsubscribe_topic`, `apply_sub_ack`, `handle_ack_rejected` | a SUBACK names no filter: pairing is by order, across two tasks; a refusal ends an MQTT 5 connection; the handler fills a channel only its own task drains |
| **Request/response** (`rpc.rs`, `mqtt_manager.rs`) | call list, reference counts on response topics, a timer task per call | `rpc_request`, `rpc_observe`, `rpc_clear_finished`, expiry in `disconnect` | answers, timers, retries and clearing race over three locks; who closes the topic? |
| **Webhook outbox** (`outbox.rs`, `bridge.rs`, `webhook.rs`) | SQLite queue with attempts and next-due times, four delivery slots, the rule in the backend and in the front end | `route`, `enqueue`, `pump_outbox`, `record_success`, `record_failure`, `flush_now`, `drop_dead`, `sync_rules` | deliveries of one row overlap and each writes its result over the row; restarts, failed writes and edits of the rule in between |
| **Connection and subscriptions bar** (`useBroker`, `useMqttMessages`, `useSubscriptionStats`, `SubscriptionsBar`) | status, chips, form, verdicts, polls | connect, register the list, add and remove a chip, poll, events | two connects at once; an answer to a poll undoes an event that overtook it; verdicts outlive the session they are about |
| **Console feed** (`push_feed`, `useMqttMessages`, `MessageStream`) | staging buffer, batches, the list and what is held back, filters, comparison | flush, pause, resume, clear, export, clear retained | three bounded buffers, each dropping at its own end |
| **Message row, codecs** (`MessageStream`, `useCodec`, `mqttCommand`, `cbor.ts`, `senml.ts`) | view, script, cache of decoded texts, marks | resolve a view, decode, copy, replay | the sandbox answers late; a cache keyed by less than it depends on; boundaries of widths; fields in force from an earlier record |
| **Topic traffic** (`record_topic`, `useTopicStats`, `topicTree`, `TopicTrafficPanel`, `TopicTreePanel`, `DevicePanel`) | counters with a cap, copies of polls, series | count, evict, reset, snapshot, filter, open branches | an answer that was asked for before a reset; three drawings of one copy |
| **Rule panels** (`useFaults`, `useSilence`, `useResponder`, `useAssertions`) | the rules on the screen, the set in the backend, pushes, polls | add, edit, toggle, remove, push, poll, alert | sets are pushed whole, and accepted or refused whole, while the user goes on |
| **Run panels** (`useBench`, `useSchedules`, `useRpc`, `bench.rs`, `scheduler.rs`) | the backend's runs, the list on the screen | preflight, start, stop, finish, clear, poll, event | limits checked before a run is registered; a poll against an event |
| **Bridge** (`useBridge`, `BridgePanel`, `webhookHeaders`, `bridge.rs`) | rules with sinks and headers, brokers, links, sessions, the status table | edit, save, import, connect, disconnect, autostart | saves, and a late startup, wait for the credential store; connects to one broker overlap; sessions outlive the table |
| **Credentials** (`secrets.ts`, `SettingsModal`, `useBroker`) | profiles, the live config, what the bridge used last, references to the store, three keys on disk | migrate, save, clear, delete, connect, forget | a reference and the value behind it are written in two steps, on two media; a startup that is late writes over the window's keys |
| **Batch sender and transfer queue** (`useBatchSender`, `useTransfers`, `TransferQueue`) | files, the loop, rows, the commit React has made | send, cancel, pause, resend, wait for an end | the answer, the events and the commits come in any order |
| **Message history** (`HistoryPanel`, `TimelineCard`, `RetainedCard`) | filter, list, traces, timeline, exports | load, clear, retain, trace, build, export | loads overlap; an order is followed by a load of the render it was confirmed in |
| **Comparison, field probe, audit** (`messageDiff`, `fieldSeries`, `deliveryAudit`) | rows and paths | compare, follow, audit | caps; rows that cannot be read; paths that are printed and parsed; order of rows of one instant |
| **Capture and replay** (`capture.ts`, `ReplayPanel`) | the file, the loop and its stop flag | capture, parse, play, stop | what became of the file meanwhile; the panel goes, the loop does not |
| **Scenario** (`scenario.ts`, `ScenarioPanel`, `scenario.rs`) | the rig, the bar, the verdict | collect, load, apply, judge, report | a verdict that was asked for under another bar |
| **Silence watchdog** (`silence.rs`) | rules, last-seen, fired | `observe`, `evaluate`, `set_connected` | four locks taken in two orders |
| **Responder, faults** (`responder.rs`, `faults.rs`) | sliding windows, strides | ceilings, injection | boundary arithmetic |
| **The rest** | assertions' predicates, metrics, diagnostics, TLS report, transform, command line, publisher form, themes and texts | | mostly data, I/O or display; see [what is not modelled](#what-is-not-modelled) |

Interaction: the event loop calls the transfer handlers, the ack tracker, the
call registry and the feed in turn, each under its own lock. A file transfer and
a call both use `subscribe_topic` for the topic their peer answers on, so both
depend on the session. The front end calls the backend by commands and hears of it by
events (`mqtt-messages`, `transfer-progress`, `rpc-update`, `bridge-status`, ...) and
polls; its panels share the feed and the archive but no state of their own, and none
waits for another.

What each modelled component owes its users:

* **File transfer**: only the announced file, whole, is ever saved; "delivered"
  means saved; the receiver's row is true and final; no temporary file stays; what
  is lost is asked for again; no transfer stays half received.
* **Session**: a refusal is blamed on the filter it is about; a refused filter
  does not flap the connection for ever; after a reconnect the registry is in
  force again.
* **Calls**: a call ends, once; its topic is open as long as it waits, and closed
  when the last call that uses it is done.
* **Outbox**: a message whose first delivery failed stays owed until it is delivered or
  has had its attempts; it is not owed for ever; it goes to the sink it was meant for.
* **The window**: what it shows is what is there, or it says that it is not; a wrong
  picture that a late answer left behind is corrected; what is saved refers to nothing
  that is gone; what runs can be seen and stopped; a decoder says what the bytes say.

## The modules

| Module | Models | Uses |
|---|---|---|
| `FileDelivery` | the promise of one transfer: opened once, saved or dropped, "delivered" only if saved | |
| `FileTransfer` | the protocol between two peers, with all its tasks | instances `FileDelivery` |
| `MCFileTransfer` | the sets of faults of the runs | `FileTransfer` |
| `FileTransfer_proofs` | types; delivered means saved; intact, true row, clean up, refinement | `FileTransfer` |
| `Session` | event loop, request channel, registry, ack tracker | |
| `Session_proofs` | attribution by order is exact during a replay | `Session` |
| `Rpc` | calls, timers, response topics | |
| `Rpc_proofs` | types; a call ends once; topics are open while needed and closed after | `Rpc` |
| `WebhookDebt` | the promise of the outbox: what may become of a message | |
| `Outbox` | the queue on disk, the pump, the slots, the rule | instances `WebhookDebt` |
| `Outbox_proofs` | types; dead letters are earned; refinement | `Outbox` |
| `Credentials`, `BatchQueue`, `History`, `BridgeLinks`, `BridgeRules`, `RulePanels`, `ConsoleFeed`, `MessageRow`, `Replay`, `Scenario`, `Senml`, `DeliveryAudit` | dialogs, lists, panels and cards of the window, a part each | |
| `DeskPart` | what the parts of the window have in common | |
| `DeskLists` | profiles, bridge rules, files, history and feed, side by side | `DeskPart`; instances `Credentials`, `BridgeRules`, `BatchQueue`, `History`, `ConsoleFeed` |
| `DeskPanels` | rule sets, scenarios, rows, links and replays, side by side | `DeskPart`; instances `RulePanels`, `Scenario`, `MessageRow`, `BridgeLinks`, `Replay` |
| `DeskCards` | the SenML table and the delivery audit, side by side | `DeskPart`; instances `Senml`, `DeliveryAudit` |
| `Desk` | the three groups, side by side, for any values of the constants | `DeskLists`, `DeskPanels`, `DeskCards` |
| `MCDesk` | the constants of the runs | `Desk` |
| `DeskCards_proofs` | a SenML table resolves its pack; the delivery audit accuses nobody; first, what choosing and sorting give | `DeskCards` |
| `DeskLists_proofs` | no reference to a password dangles; the headers of saved rules keep their values; completed only on the peer's receipt; the list answers its filter, a file names its question; a hole in the feed is told | `DeskLists`, `DeskCards_proofs` |
| `DeskPanels_proofs` | refused rules, hidden links, decoded rows, stale verdicts; a replay plays what was recorded | `DeskPanels`, `DeskCards_proofs` |
| `Desk_proofs` | what is proved of each group is true of the window | `Desk`, `DeskLists_proofs`, `DeskPanels_proofs` |
| `TopicTraffic`, `RunPanels`, `CborCodec`, `MessageDiff`, `Connection` | what the console computes and what must catch up, a part each | |
| `MCConsole` | these five, side by side | instances each |

An operator with "Variant" in its comment is not part of a specification: it is
the same operator with a plausible mistake, kept to show that the properties
notice it (`PROJECT.json`, `mutants`).

### FileTransfer

One transfer, one sender, one receiver, one broker between them.

* **State.** `net` is the set of messages the broker holds; a message is delivered
  in any order, may be delivered again, and may be lost up to `MaxLoss` times. The
  sender's side is `send_file`'s progress (`spc`, `next`), its table entry
  (`registered`, `served`), its subscription to the ctrl topic (`listening`), the
  two flags, the chunks resend tasks still owe (`resend`), the two timers, and the
  row (`srow`; `settled` is what `waitForSendComplete` resolves to). The
  receiver's side is the entry (`istate`, `got`, `rounds`, `ipaused`), the
  temporary file (`onDisk`, `temp`, `linked`), the watchdog, one finalize task
  per opening (`fin`), rejects in progress, the download directory (`saved`), the
  auto-receive switch and the row.
* **Data.** A chunk is a number and its content is "good" (as hashed) or "bad" (read
  after the user edited the file). The hash check is `Intact`: every chunk written
  and good.
* **Steps.** A task is cut wherever it awaits and another task can change what it
  reads next. `finalize_incoming` is five steps (liveness check, hash, claim of
  the entry, rename, receipt), and parking a file for approval is two: the entry is
  changed under the lock (`Park`) and the row is told after it (`ParkReports`).
  Deleting the file, publishing the receipt and emitting the row, which end a transfer
  one after the other on one task and read nothing back, are one step.
* **Faults.** `Faults` names what an instance allows: pauses, cancels, rejects,
  toggling auto-receive, edits of the source file, disk errors, disconnects,
  duplicates, and a watchdog that fires while messages are merely slow. The theorems
  hold for every set of faults.
* **Deadlines.** The sender waits 30 s and one second per MiB for its confirmation, and
  serves NACKs for 300 s after the last chunk. Neither asks whether a repair or a pause is
  under way, so in every run both may pass at any time after they were started.
* **Left out.** A sender that disconnects (`client` becomes `None`), transfers to
  oneself, and the watchdog's "complete but still streaming" branch, which no state
  reaches since `handle_chunk` changes the state in the same critical section.

### Session

The event loop is one task: while it handles an event (`loop # "poll"`) it does
not poll, and only polling (`Transmit`) takes requests out of `chan`. CONNACK is
three steps, for the three times the handler takes locks or awaits: the snapshot
of the registry (`Connected`), the slots for all answers (`ExpectAll`), and one
`RestoreOne` per SUBSCRIBE, which waits while the channel is full. The broker
answers `wire` in order. On 3.1.1 a refusal is a SUBACK, quarantined under a
second lock (`Quarantine`); on 5 it is the error that ends the connection
(`RefusedV5`). `subscribe_topic` is three steps (register, queue, take a slot) and
`unsubscribe_topic` three (unregister, forget and take a slot, queue). What the
library does with queued requests when the connection goes is left open: it may
forget them or send them first on the next one. `clean` is a history variable:
TRUE as long as only the CONNACK handler has used this connection and nothing was
left over from the last. Left out: `connect()` and `disconnect()` themselves,
downgraded QoS, subscription ids, and refused UNSUBACKs.

### Rpc

`rpc_request` is cut at each lock and await: reading `already_ours`, the
subscribe, the acquire, the publish, the record; then its timer task sleeps,
claims a retry or expires the call. `Observe` is the event loop with a reply:
pairing by correlation if it carries one, else with the oldest call on the topic
(`Exact`, `Oldest`). `Release` and `Unsubscribe` are what whoever finished the
call does next. `rpc_clear_finished` is four steps under three locks. The call's
correlation is the generated id, and the session is the set `subs`. A request
whose SUBSCRIBE cannot be queued fails with its topic still in the registry
(`"refused"`), as in the code.

### Outbox

One rule with several sinks, and messages for them; an `Entry` is one message for one
sink, since fan-out gives each sink a delivery and a row of its own.

* **State.** `row` is the table: a state, the attempts, and whether the backoff is over
  (`due`, which stands for the times). `fate` says what became of each message; it is
  "queued" exactly as long as there is a row. `batch` is what a tick of the pump read,
  with the attempts as they were. `flying` counts the deliveries under way, each with the
  attempts it was started with and the sink it goes to; `permits` is the semaphore.
  `rule` is the backend's copy of the rule and `setting` the front end's, which is the one
  that survives a restart. Sinks are named by their first positions, so that an edit that
  moves them can be seen. `owed`, `tries` and `excused` are history variables.
* **Steps.** The pump reads its batch in one step and looks at one row in each
  following step, as it awaits the lock on the rules for each. Nothing marks a row that is
  being delivered, so the next tick reads it again. A delivery ends by writing its result:
  `RecordFailure` is an UPDATE of a row that may have changed, or be gone, since.
* **Faults.** A restart forgets the deliveries and the rule; a write to the disk fails and
  its error is dropped, as in the code (`let _ = outbox...`); the user switches, removes or
  edits the rule.
* **Left out.** Bodies and their size limit, the length of a backoff, the limit of 32
  rows per tick, the lifetime counters, and a queue that cannot be opened.

### The window: Desk and MCConsole

The parts of the window are modules of their own, each with the part of the backend it
talks to. They share no variable in the code either: two panels meet only in the feed and
the archive, which they read and never write for each other. So no property is about two
of them, and one run checks them side by side: `Desk` and `MCConsole` choose one part at
the start and run it to the end, while the others stay closed. The states are the sum of the
parts' states, not their product, and nothing is lost, since an interleaving of two parts
that share nothing is, for each, a behaviour of its own.

`Desk` holds the parts whose properties are about what must never be lost or shown wrongly;
their constants stay open, so that theorems can be stated about them, and `MCDesk` gives
them values. It is put together from three groups, `DeskLists`, `DeskPanels` and `DeskCards`,
each with its own variables, initial states and steps. `MCConsole` holds what is only
model-checked: the tree of topics, the CBOR codec and the comparison, which are recursions over
data, and the two lists that are only promised to catch up. Their constants are given where they
are instantiated, and their variables are called `v1`, `v2`, ... .

All follow one pattern. A handler of React is one step, up to its `await`. A call under
way is an element of a sequence (`calls`, `loads`, `polls`, `pushes`, ...) and any of its
elements may be answered next; where the answer is used, it meets what the window has
become meanwhile, or what its closure remembers, as in the code. Events are a sequence too,
delivered in order, but at any moment between two answers. What the code keeps on disk
survives `Restart`; nothing else does. `clicks` counts what the user did, up to
`MaxClicks`; what follows from a click is not counted.

**Connection.** Of the backend what the window can see: the topics it replays on CONNACK
(`registry`), whether the link is up, the verdicts it remembers (`refused`, `capped`).
`connects` holds the connect calls, which may overlap and each register the list of chips
one by one; `calls` the subscribe and unsubscribe commands; `polls` the answers of
`get_subscription_stats`. `Session` has the other side.

**ConsoleFeed.** `push_feed` and `flush_feed` with the bound of the buffer and of a batch,
`OnBatch` with the bounds of the list, of what a pause holds back and of the topic
registry; then the filter with its presets, the comparison, clearing, export, and the
retained-message clearer that publishes topic by topic.

**MessageRow.** A payload is a sequence of classes of bytes, so that a text form, a hex
form and a length can be told apart; `resolveView` is the whole table of views and their
fallbacks. The script's answers come late (`decoding`) and may be of a script given up.
The cache is kept as the code keys it, by the length of the script.

**CborCodec.** `encodeCbor` and `decodeCbor` with `Short` for the 24 of the RFC: the layout
of every byte follows from it, and with `Short = 4` the numbers where an argument needs
one, two, four or eight octets are all small enough for TLC. Values are trees; the
recursion over them is a recursive function. A value is composed here, and is then JSON, is
encoded and shown; or it comes from other software (`Arrive`, external), which may take wider
arguments than it needs, leave lengths open, and send bytes, `undefined` and keys of any kind.
In either case every strict prefix of the bytes is decoded too.

**Senml.** `parseSenmlPack` is a recursive function of the number of records read, and its
table has the readings in order. The property finds the base fields in force by looking back
from a record, without recursion: the rows shown are those of its records, no more and no
fewer. A value has a type: a label whose value is not of the type it must have is not read, and
gives no row (a `vd` in JSON is a text, and never read).

**TopicTraffic.** `record_topic` with eviction and the per-second window; the poll, whose
answers may be older than a reset or a new cap; a reset, which the backend does first and the
copy follows when its call returns (`Cleared`); then the list, the tree (its sums, and which
branches are drawn) and the cards by depth, all computed from the copy. A topic is its
segments; the tree's index starts with the root under the empty path, so a leading empty segment
has no node of its own.

**RulePanels.** Four hooks of one shape in one module, `kind` telling them apart where the
code differs. A rule is its id, whether it is on, and whether the backend will take it.
`overlapped` is a history variable: a push was sent while another was under way, after
which the code promises nothing, since either may arrive last.

**RunPanels.** Likewise the lists of load runs, schedules and calls: the limit is checked
before a start is registered, the list is polled, single runs come as events, and what
ended is cleared.

**Credentials.** The three keys that may carry a password (the live config, the profiles, what
each connection of the bridge used last), each in memory and on disk, and the store. The
migration asks for the store, and then takes one key after the other: reads it, moves its
passwords, and writes back what it had read. The window mounts when that is done or when the
deadline has passed, so that `Mount` may come at any point of it, and what it writes late falls
on keys the window has written since. A write to the store may fail, a refusal may come from the
user. `disowned` is a history variable: references whose password the user deleted by the button,
or with a profile while somebody held them whom `deleteProfile` does not ask (`Held`).

**BridgeRules.** A sink is its headers: names in the clear and names with references. The
migration reads the stored rules once (`staged`), moves header by header, and stores its
snapshot, whether the window was mounted meanwhile or not. A save writes header by header while
the user goes on in the form (`saving`), and what no rule points at any more is deleted in the
background (`drops`). `disowned` as above.

**BridgeLinks.** `bridge_connect` is two steps, as it disconnects before it builds and
enters afterwards; `sessions` are the event loops that run, whether the table knows them or
not. `overlapped` are the connections that two calls were about at once.

**BatchQueue.** The loop of the batch, `waitForSendComplete` with its safety net, and what
`transfersRef` sees, which is what React has committed (`shown`), not what events have set
(`rows`). The backend's sending side is cut down to what a send tells and when.

**History.** A load that is not the newest is dropped, a trace and a timeline are not;
clears and retentions are followed by a load with the filter of the render that confirmed
them (`orders`). A row is its number; an archive is a set of them.

**MessageDiff.** The structural and the line comparison with their caps, and the probe of
one field over the list. The recursion over values is RECURSIVE, so nothing is proved here.
The properties use no part of the algorithm: they say what is at a path, and that a line
comparison keeps a longest common subsequence, found by trying all. Paths are texts, printed step by
step by the comparison and taken apart again by the probe, as in the code; a text is a sequence
of characters of which the dot and the brackets matter.

**DeliveryAudit**, **Replay**, **Scenario**. The way a message came to the archive is
external and may lose, repeat and reorder. The audit, the replay and the verdict are
compared with what really was sent, stored and counted. A row of the audit may be numbered and
dated, numbered alone, or truncated. A replay's file is one as it was written, or one of which
lines were cut off, taken out or moved, in which a time was lost, that was cut in the middle of
a line, or that is no capture at all. The audit's lists are choices
(`At`) and stable sorts (`SortedBy`, by the number of entries that come no later). A replay's loop knows the queue and
the panel it was started with; panels are numbered (`mount`), so that one that was opened
again is another.

## The runs

Every constant that bounds a run is named in the module. All passing runs set
`CHECK_DEADLOCK FALSE` because these systems do stop: a transfer ends, the user
need not start a call, the drops of a run are used up, and a panel may be left alone.

| Run | Question | Bounds | Distinct states |
|---|---|---|---|
| `transfer_safety` | what may any order of faults do to the file and its two rows? | 2 chunks, 1 NACK round of 1 chunk, every fault but pause, toggle and loss | 799 thousand |
| `transfer_repair` | is what was lost repaired, and does the receiver let go? | 2 chunks, 2 rounds, 2 losses; cancel, reject, toggle | 64 thousand |
| `transfer_pause` | does a pause cost anything? | 2 chunks, 2 rounds, 1 loss; any number of pauses | 197 thousand |
| `session_restore` | after reconnects, refusals and a command, is everybody blamed rightly and the registry in force? | 2 filters and the probe, one filter and the probe refused, 2 drops, 1 command, both protocol versions, every initial registry | 158 thousand |
| `rpc_calls` | do calls end once and topics close when they should? | 2 calls with a topic each, 2 sends, 2 answers, 1 finished call kept; disconnect, clear, failed sends | 432 thousand |
| `outbox_debts` | what may overlapping retries, and a restart, a failed write or an edit, do to what is owed? | 2 messages, 2 sinks, 2 slots, 2 attempts, 1 mishap | 155 thousand |
| `console` | is what the console computes so, and does it catch up? | in `MCConsole`, at each `INSTANCE` | 379 thousand |
| `desk` | is what is saved, listed, shown and judged so? | in `MCDesk` and `desk.cfg` | 1.70 million |
| `transfer_reopened`, `session_stuck`, `outbox_moved`, `replay_unwatched` | see [disagreements](#disagreements) | the least that shows each | |

Why the bounds are enough to meet the interesting cases:

* *Chunks.* Two let a file be partly received, partly good, completed by either
  chunk, and repaired in one round or two. What a third adds, the proofs cover.
* *NACK rounds.* The code's 7 asked and 8 answered differ by one so that the last
  request is answered; the runs use equal bounds of 1 or 2, which is harder on the
  protocol. With one chunk per NACK `transfer_safety` also has requests that cannot
  name all that is missing (1024 in the code).
* *Filters.* Two and the probe give every position of a refusal in the replay. Two
  drops give a replay disturbed by the one before and one after that.
* *Calls.* Two on topics of their own give every interleaving of one call's ending
  with another's beginning; with `Kept` 1 the list overflows as it does at 100.
* *Deliveries.* With two slots two deliveries of one row overlap, which is what lets one
  write over the other's result; two messages make them compete for the slots. Two
  attempts are the fewest that let a late result lower the count. One mishap at a time
  can fall between any two steps; several of them are left to the proofs, which have no
  bound.
* *Buffers, caps and lists of the window.* Each bound of the code (500 rows, 2000 staged,
  80 visible, 200 cached, 200 changes...) is 1, 2 or 3 here, so that it is met and passed.
* *Clicks.* Two to four: enough for an action, an edit of what it is about while it waits,
  and its repetition. What the backend, the timers and late answers do is not counted.
* *Data of the algorithms.* CBOR: every number at a boundary of a width, every kind of
  value in a list and a map, each of it also with arguments of each width and open lengths, and
  every strict prefix of what is sent. SenML: every combination of up to four fields in a
  first record, before every kind of second one, and packs in which one field is of another
  type. The audit: one topic (the proof has any number), three messages and three stored copies,
  in any form and order, in one or two milliseconds. Documents: all pairs of some twenty that
  differ in shape, depth, keys and order, documents with keys that read as paths, and all pairs
  of texts of up to three lines. Topics: a parent, its child, a stranger and one with a leading
  slash. Captures: every choice and order of the lines of a file, each time lost, each cut.

What the runs show, property by property, is in the comment above each property
and in `PROJECT.json`. Some need a word here.

* `ReceiverRowFinal` excepts one change: a file that was parked is announced as waiting for
  approval after the lock is released, and if the sender cancels or the user rejects just
  then, the announcement comes after the final row (`Belated`).
* `LossIsRepaired` asks for repair when fewer messages are lost than the watchdog
  has rounds: chunks that overtake META are dropped, which costs a round. It and
  `PauseIsHarmless` except a sender of which a deadline has passed (`GivenUp`): rounds are 10 s
  apart and there may be seven of them, a pause lasts as long as the user likes, and neither
  deadline waits.
* `PauseIsHarmless` also excepts a receiver that stays paused: PAUSE and RESUME travel
  as separate messages and may arrive in the wrong order, and the code has no
  sequence numbers on them.
* `RegistryRestored` is about connections that no user command touched. Otherwise
  a filter whose quarantine is lifted between the snapshot and its slots is not
  replayed until the next CONNACK.
* `DeadHadItsTries` excepts rows the pump could not try: a missing rule or sink makes a
  dead letter at once and a rule that is switched off costs an attempt per tick. After a
  restart the rule is missing until the front end has pushed it, and the pump's first tick
  comes after a second: what is due then is given up on.
* `DebtSpec` lets a dead letter be owed again. It happens when a delivery that was started
  before the row died fails after it: it writes its own count and "pending". Of
  two deliveries of one row that both reach the sink, it is delivered twice; the queue
  promises no more than that.
* `ArmedOrSaidInOrder` and `NoneHidden` except what two calls at once were about: the
  panels put no order on them, and the later answer wins, whichever was asked first.
* `NoDangling` excepts passwords that the user deleted: by the clear button, which leaves the
  reference in other profiles, or with the last profile that had it while it was held by someone
  `deleteProfile` does not ask: the form, a save or a connect under way, what the bridge used
  last, or a migration that is late.
* `HeaderHasValue` excepts credentials that were deleted, with the last rule that had them, while
  an open form, a save or the migration's snapshot still held them.
* `VerdictCatchesUp` is the most the chips promise. A late answer to a poll may undo an
  event, so that a chip says less than the backend knows until the next poll.
* `ListIsNewest` excepts the load that follows a clear: it has the filter of the render in
  which the user confirmed, and is the newest nevertheless.
* `PlaysAsRecorded` says of any file that is taken for a capture that what it holds is what is
  played. That this is what was recorded it says of files that nobody edited, up to where they were
  cut: a file cut between two lines is taken (the reader does not compare the header's count), and
  only the summary beside the header's count tells.
* `AuditTells` and, for what was recorded, `PlaysAsRecorded` are about the order of rows of
  different milliseconds. Rows of one millisecond come out in reverse; see below. Latencies are
  accounted for over the rows that have a time.
* `CardsAgree` promises that the probe finds what the comparison found only for documents whose
  keys are not empty and hold no dot and no bracket (`Clean`) and for paths that start with a
  key and have no two indices in a row (`Plain`); other paths do not survive being printed.
* `TreeTellsTable` excepts a topic with a leading slash from the cards of the first level: it is
  on none.
* `ValuesResolved` gives no row to a value of another type than its label must have.
* `VerdictIsCurrent` is about the step in which a verdict appears or changes; the verdict then
  stays, beside newer evidence, until the next answer.
* `DecodedByKey` takes scripts of one length for one, as the cache does.

## Fairness

* `FileTransfer`: the stream task, resend, finalize and reject tasks keep running
  (tokio schedules a ready task eventually); the broker delivers each message it
  does not lose; sleeps end, so timers and the watchdog fire. Weak fairness for
  each; users have none, so nobody has to approve or resume.
* `Session`: the event loop's handlers and commands keep running, the library sends
  and the broker answers. Lost connections and new commands have none. In
  `session_stuck` the loop's fairness does not help: its step is disabled.
* `Rpc`: a request that was started keeps running and its sleeps end. Answers have
  none: a peer may stay silent.
* `Outbox`: the pump ticks and works through its batch, a POST ends (the client has a
  timeout of 10 s), and backoffs end. Users, restarts and `sync_rules` have none. With
  fewer than 32 rows a tick reads all that is due; with more, the oldest come first.
* `RunPanels`, `Connection` (in `MCConsole`): the polling timer of a panel on the screen
  fires, the oldest answer under way is delivered, and so are events. Answers may still
  overtake each other any number of times. Users, runs and the broker have none. The
  conditions of `ListCatchesUp` and `VerdictCatchesUp` (the panel stays on the screen, and
  for the first the backend comes to rest) are part of the properties.

## The proofs

`tlapm` checks every theorem to the last leaf, for every value of the constants
that satisfies the module's assumption (`TransferAssumption`,
`SessionAssumption`, `OutboxAssumption`, `RpcAssumption`, and of the window's groups
`ConnAssumption`, `ListsAssumption`, `PanelsAssumption`, `CardsAssumption`).

The assumptions about the window say what the code's own constants and names are: the model's "nothing there"
is no config and not the word "delivered", the ids 0 and "no script" are nobody's, the two
connections every bridge starts with exist, and the caps of the code (`FEED_BUFFER_MAX`,
`FEED_BATCH_MAX`, `MAX_MESSAGES`, `CACHE_CAP`) are not zero. A rule's source filter can be
typed, a sink has finitely many headers, and the rules that a run starts with, saved before
any header was moved to the store, refer to nothing there. The archive is ordered as the page
asks for it (`ORDER BY ts DESC, rowid DESC`, turned around); a replay's speeds are positive,
and one of its gap caps is the highest. A SenML pack is a sequence of records whose labels hold
values of any type, numbers being integers; topics are counted, and the publishers' clock is off by
a whole number of milliseconds. The bounds that keep TLC finite (`MaxClicks`,
`MaxSends`, `MaxArrivals`, ...) are assumed of no value: the theorems hold of any.

The theorems about `Desk` all have one shape: an inductive invariant of one part, a lemma
that each set of that part's actions keeps it, and the observation that a step of its group
is a step of that part or leaves its variables alone. That gives the result for the group
(`...InLists`, `...InPanels`, `...InCards`, of `ListsSpec`, `PanelsSpec`, `CardsSpec`). The
window behaves, as far as the variables of a group go, as that group does (`HasLists`,
`HasPanels`, `HasCards`), so `Desk_proofs` states each result of `Spec`.

**FileTransfer, any number of META deliveries.** `TypeCorrect` needs, beside
`TypeOK`, that an entry exists only in an opened transfer (`Opened`): the actions
index `fin` and `saved` by the current opening. `DeliveredIsSaved` then follows
from `Backed`: each COMPLETED message in `net`, and each finalize task about to
send one, has a saved file behind it; the sender says "delivered" only on receipt of
such a message.

**FileTransfer, one META delivery** (`MaxGens = 1`, stated as an assumption of each
theorem). `OnlyIntactFiles`, `RowIsTrue`, `NothingLeftBehind` and `FinalRowStays`
are not inductive: whether the file that `Save` renames is intact depends on
nobody having touched it since the hash. The invariant is `Outcome`, in four
parts: `Custody` (who holds the transfer: as long as the entry is in the table
nobody has an outcome to report, and whoever takes it out reports alone),
`Agreement` (the row and the download directory), `TempFile` (a temporary file has
someone to remove it, and stays as hashed from the hash to the rename) and
`Untouched` (nothing before META). `FinalRowStays` has the exception of its property: the
belated announcement of a parked file. Each group of actions has a lemma that it keeps
`Outcome`; `OutcomeStep` puts them together. `TransferImplementsDelivery` shows that
every step maps to a `FileDelivery` step or a stutter, under the mapping `phase`.
The assumption is needed: `transfer_reopened` refutes `SavedIsIntact` without it.

**Session.** `SlotsAreAnswers` needs the invariant `SlotsInv`: queues hold topics
(`Sorted`), on a clean connection nothing but SUBSCRIBEs is under way and a refusal
being handled is about a refused filter (`Attribution`), and slots equal answers. The work
is in the lemmas on sequences: moving the head of one queue to the end of the
other leaves the concatenation of the names alone, and an answer takes its
head. `BlameIsRight` follows: on a clean connection the blamed filter is the
answered one.

**Outbox.** `DeadLettersAreEarned` needs to know, of everybody who holds a count of
attempts, that it is no higher than the retries that failed. That is `Custody`: there is
a row exactly as long as the message is queued (`Queued`), the row's count is covered
(`Counted`), and so are the copies in the pump's batch and in the deliveries, whose
messages were queued once (`Copied`); a first delivery is alone with its message
(`First`), which is what keeps `enqueue` from writing over a row. `DebtsAreKept` shows with the
same invariant that each step is a step of `WebhookDebt` or a stutter, under the mapping
`phase`. Both hold for any number of overlapping deliveries, restarts, failed writes and
edits.

**Rpc, whoever shares a topic.** `TypeCorrect` is not inductive by itself: that the count
of a topic stays within the number of calls needs `Counted` (a topic is counted no more
often than it is held), which needs `Control` (where a call is in its life: a pending call
is being closed by nobody, and only finished calls are cleared). `EndsOnce` follows from
`Control`, since a decided call leaves "pending" for good.

**Rpc, calls on topics of their own** (`"share" \notin Faults`). `OpenWhileNeeded` and
`NothingStaysOpen` rest on `Topics`: for each call, what its stage says of the count, the
owner of the subscription and the session's filter, and, once it is decided, who owes the
closing: the call's own task, the clearing, or both. Both may release; what saves a topic
of one's own is that the second release finds the count at zero. On a shared topic it does
not, and the second release takes a reference that belongs to another call: the hypothesis
is needed, and the [disagreements](#disagreements) quote what the code says of clearing.

**BatchQueue** (`DeskLists_proofs`). `CompletedOnReceipt`: the word "delivered" is sent on its
way only after the receipt, and `Sourced` follows it through the events, what they have set,
and what React has committed; the lemmas on the files show that the loop, wherever it
resumes, marks a file as completed only on that word.

**History** (`DeskLists_proofs`). `ListAnswersItsFilter`: the newest load asks what the window
asks (`Asking`), and what is installed is always the newest, so that a list that no longer
loads answers the filter (`Answering`), and so does the file that is written of it
(`Written`). Loads that a clear or a retention ordered are exempt, in the property as in the
proof.

**Credentials** (`DeskLists_proofs`). `NothingDangles`, for any number of profiles, connections
and references, wherever the migration is when the window mounts, and whatever it writes late.
The invariant (`SettingsInv`) says where a reference may be: in a config of the window or on disk,
in the form, in a connect under way, in what the migration has read, and there it leads to a
password or was given up; or in a save that waits for the store, where it has been minted (`Led`).
And of each password that is being deleted, none of these has the reference unless the user gave
it up (`Dropping`). The heart is `DeleteKeeps`: a password is dropped when neither the live config
nor another profile has it, and whoever else has it is in `Held`.

**BridgeRules** (`DeskLists_proofs`). `HeadersKeepTheirValues`, for any rules, sinks, headers
and references, with any write failing, sinks and rules duplicated (so that they share a
reference), and rules deleted while their save waits. The invariant follows one reference
(`Kept`): that of a rule in the window (`Pointed`), on disk or in the migration's snapshot
(`Filed`) leads to the store; that of the form is one of a saved rule; that
of a save under way is one of a saved rule, or one the save has minted, still to write or
written; a written one is in the store, and nobody's before the save ends; one whose value is
being deleted is nobody's any more. What breaks these is a deletion under an open form, a save
or a late migration, and the property exempts it (`bridgeDisowned`); the proof shows that nothing
else does. Before the window is mounted it has no rules and nothing under way (`Mounting`). The heart
is `FinalizeKeeps`: the sinks a save keeps, and the headers it plans for them, are picked with
`Ascending` from a set of positions, and every header either gets a minted reference or keeps
one that the sink had. That `Ascending` enumerates a finite set of positions is shown by
induction on its size, done as a search for the least size at which it fails (`LeastNat`,
`Climb`, in `DeskCards_proofs`), because the library's induction theorems cannot be instantiated.

**RulePanels** (`DeskPanels_proofs`). `PanelTellsOfRefusal`: as long as no push was sent before
the last was answered, the newest set is in one of three places (`RulesInv`): on its way
(`Underway`), on its way back in the only answer (`Returning`), or told (`Told`); and an answer
that clears the error is that of a set the backend works with. Polls may come at any time, any
number of them; they change no error.

**BridgeLinks** (`DeskPanels_proofs`). `CardShowsItsLink`: for each connection that two calls
were never about at once, the card shows what the table says once every event is there
(`Shows`), and at most one call is under way, of which a disconnect that ran leaves nothing
behind (`Single`).

**MessageRow** (`DeskPanels_proofs`). `DecodedByScriptInForce`: an entry of the cache was made
by a script of the length it is filed under, a decoding that runs belongs to the script it was
started with, and its answer is shown only if the row still asks for that script; so whatever
the order of edits and late answers, the text on screen is of the script in force or one of
its length.

**Scenario** (`DeskPanels_proofs`). `VerdictBesideItsEvidence` is an action property: the
invariant (`SceneInv`) says of the one judgement that is still listened to that it was asked of
what is on the screen, so that a verdict, at the step in which it appears, is that of the bar and
the evidence beside it. It may stay there beside newer evidence until the next answer.

**Replay** (`DeskPanels_proofs`). `ReplayPlaysAsRecorded`, for an archive of any length and every
file the model has. What the reader accepts is a header and a list of events that have
times, however they came to be there (`Accepted`, `LinesTaken`, `Taken`). What the direction
picks of it is enumerated by `Ascending` (`Picks`), so that a loop has those events for its queue
and the gaps between their times for its waits (`CueIs`). The invariant (`Playing`) says that it
has sent the head of that queue, has waited before each the gap of each, and has counted all but
the one it waits for; every step of a loop, and a stop at any time, keeps that, whatever becomes of
the panel, its file and its choices meanwhile (`PlaysTold`). If the file was not edited, its events
are the stored rows from the place its header's count tells (`ParsedHead`, `ReadIs`, `TapeIs`:
sorting the page by the number of rows that come before each row turns it around), what is picked of
both are the same positions (`Alike`), and so what was played is what was recorded (`PlaysWritten`).
Only there are two rows of one time in the way: they come out in reverse.

**ConsoleFeed** (`DeskLists_proofs`). `HolesAreTold`: what arrived is numbered, and the staging
buffer (`Staged`), the batch on its way and its count of drops (`Emitted`) and the list with
what a pause holds back are pieces of the sequence of numbers. Either something was lost and
the counter or a batch under way says so (`Lost`), or the pieces fit together without a hole
(`Unbroken`). Six bounded sequences are cut at one end and joined at the other; the work is in
lemmas on descending sequences of consecutive numbers, their prefixes and their joins.

**Senml** (`DeskCards_proofs`). `TableResolvesEveryValue`, for packs of any length. That the
recursive function exists is shown by climbing (`FedExists`). What the reader has accumulated
after n records is then compared with what looking back finds: the base in force (`InForceIs`),
the readings so far, which are those of the first n records (`StepReads`, `PackReads`), and each
row's name, unit, time and value. The table is a choice of these in order.

**DeliveryAudit** (`DeskCards_proofs`). `AuditAccusesNobody`, for any number of topics, messages,
copies and rows. The invariant (`AuditInv`) says that every stored copy is of a message its
publisher sent, and that the archive is in the order of time and the list in the reverse. The
card's samples are the readable rows of its topic, once each, in the order of time, and so is the
list of those rows in the order they came (`Timeline`, `SamplesAre`, `CameIs`); hence both have
the same numbers. From there each claim is counted: what is held and what is missing fill the
stretch from the least number to the greatest (`Gaps`); first copies and extra copies are the
samples, by a one-to-one list of pairs of a number and a place (`ExtraIs`); the times of the rows that have
one are measured or skewed (`LatencyIs`); and a row is late in either order exactly if one of an earlier millisecond
has a higher number (`OvertakenAre`), which is where rows of one millisecond have to be excepted.
That choosing and sorting give each entry once is proved first
(`AscendingPairs`, `CanSort`): ranks are one-to-one on a finite set, hence onto.

**Model-checked only.** All liveness (out of the prover's reach), everything about several
openings of a transfer except `DeliveredIsSaved`, sessions with user commands, calls that
share a response topic, and these properties of the window:

* `TreeTellsTable`, `RoundTrip` and `CardsAgree` are about what a recursion over trees returns:
  sums over the branches of the topics, an encoded value, the comparison of two documents. The
  library's induction theorems cannot be instantiated here. Climbing gives induction on numbers,
  as for SenML; on the depth of a tree it has not been carried out, and the traffic list is sorted
  and summed by library operators that take an operator, which the prover does not see through.
  The comparison is a RECURSIVE operator, of which the prover knows nothing.
* `ListCatchesUp` and `VerdictCatchesUp` are liveness.

## Disagreements

Four runs expect a violation. Each shows that the code does something its own
comments or documentation rule out; the lines are quoted in `PROJECT.json`.

* `transfer_reopened`. A META that is redelivered after the entry was taken out for
  delivery opens the transfer anew and truncates the temporary file that is about
  to be renamed; the damaged file is saved and confirmed.
* `session_stuck`. The CONNACK handler waits for room in a channel of 100 that only
  its own task drains: with more filters than that to replay, the session hangs.
  (The instance has 2 places and 3 filters.)
* `outbox_moved`. A row names its sink by position. When the user removes an extra sink,
  those behind it move up, and a row that was owed to the removed sink, or to one behind
  it, is posted to another: the very thing the comment in the pump rules out.
* `replay_unwatched`. The effect that should stop a replay when its panel goes has no
  cleanup: it raises the flag when a panel is mounted, and a new panel has a new flag. The
  loop goes on publishing, and the panel that is opened next does not know of it.

Others were met while modelling; they are findings without a run, and the models have the
behaviour of the code.

* A receiver that rejects mid-stream answers ERROR, which removes the outgoing entry and
  reports "failed" but does not stop the stream task; it reports "sent" after the last
  chunk, and the confirmation deadline it starts finds no entry: the row stays at "sent".
* `subscribe_topic` queues its SUBSCRIBE before it takes a slot, on a task of its own. One
  command during a replay shifts the pairing, and a filter the broker accepted is shown as
  refused and quarantined.
* Clearing finished calls releases their topic a second time; if a call that shares it
  still waits, it is unsubscribed under that call.
* The scenario panel warns that rules will be replaced only if the file has responders or
  assertions, but applying it replaces them anyway.
* A row picked for comparison that the list has dropped leaves one row to compare, and an
  undefined one.
* A capture whose last line was cut off is refused, though the format was chosen so that
  it need not be.
* Rows of one millisecond come newest first from the archive and are sorted stably by time:
  the audit calls them late, and a replay publishes them, in reverse.
* The series of a field is not cut at a silence as long as it has fewer than three samples.
* A file is announced as waiting for approval after the lock on its entry is released; if the
  transfer is cancelled or rejected just then, its row goes back from a final state to one that
  waits for a user who has nothing left to approve.
* The repair of a large loss takes longer than the sender's deadlines leave it: its row fails, or
  its file is forgotten, while the receiver is still asking for chunks.
* A migration of passwords that outlives the startup deadline writes what it read at the start
  over keys that the window has stored since.
* `deleteProfile` looks for other holders of a password in the live config and the profiles, and
  not in what the bridge's connections used last.
* A migration of webhook headers that outlives the deadline stores its snapshot over rules that
  the user has edited since.
* A capture cut between two lines is taken for a whole one; its header has the count, which is not
  compared.
* A SenML value `v` or `vs` of the wrong type vanishes from the table without the warning that a
  `vd` gets.
* A topic with a leading slash is on no device card of the first level.
* The comparison's paths can not all be copied into the field probe: keys with dots or brackets,
  documents that are lists, and lists in lists have prints that it does not take apart again.

## What is not modelled

* **Bridge forwarding** (`resync_subs`, hop limit, self-echo) and the **silence watchdog**:
  next in the [plan](#plan). The first needs `Session`'s tracker twice, the second the
  locks as state.
* **Publisher form** (`MessagePublisher`): the form's fields, its template counters and the
  debounce of its draft; what it publishes is modelled where it arrives.
* **Pacing and ceilings** of bench lab, scheduler, responder and faults: arithmetic on
  clocks. Their lists and limits are in `RunPanels` and `RulePanels`.
* **Assertions' predicates, topic matching, transform**: functions of payloads and strings,
  with little control; transforms are programs in an embedded engine.
* **The archive and the credential store** themselves: SQLite and the operating system.
  Both are sets here, which may refuse.
* **Metrics, diagnostics, TLS report, OPS panel**: read-only reports.
* **Environment bundle** (`environment.ts`): export and import of settings, without state
  of its own.
* **Command line, texts, themes, layout**: wording and rendering.
* **File names and paths**: the uniqueness of a name in the download directory is
  the file system's affair; each opening of a transfer has a name of its own.
* **Bytes** of chunks: their lengths are checked by the code and always right in the model,
  since both sides compute them from the same META. Floats and big integers of CBOR are
  carried as their octets.
* **Two panels at once**: they share nothing that either writes; see
  [the window](#the-window-desk-and-mcconsole).

## Plan

In the order of their importance to a user's data:

1. `Bridge`: `resync_subs` against reconnects and rule edits, reusing `Session`'s
   tracker; hop limit and self-echo over two brokers.
2. `Silence`: the locks as state; rules, timers and the link; deadlock is the first
   question.
3. The final drain of the feed, with the archive's own buffer, in `ConsoleFeed`.
4. `Limits`: the pure arithmetic of responder windows, fault strides, pacing and the
   outbox's backoff, with proofs, in one module checked against reference definitions.
   (`outbox.rs:18` speaks of an outage of over an hour; backoffs of 1 to 128 s before the
   eight attempts make about four minutes.)
5. Two sessions side by side across `disconnect()`/`connect()`, and refused
   UNSUBACKs, in `Session`.
