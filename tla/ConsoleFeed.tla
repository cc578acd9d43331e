---------------------------- MODULE ConsoleFeed ----------------------------
(***************************************************************************)
(* The message feed of the console: the backend stages rows and emits them *)
(* in batches (push_feed, flush_feed in mqtt_manager.rs), useMqttMessages  *)
(* keeps the newest of them and holds them back while the feed is paused,  *)
(* and MessageStream.tsx filters, compares, exports and clears the list.   *)
(* A message is [id, kind]: ids count up with arrival, kind is the part of *)
(* it the panel tells apart (topic, direction, retain flag).  A search     *)
(* text is a topic: it matches the messages of that topic.                 *)
(***************************************************************************)
EXTENDS Integers, Sequences, FiniteSets, SequencesExt, FiniteSetsExt

CONSTANTS
    Kinds,      \* [topic, dir, retain] of the messages of a behaviour
    BufferMax,  \* FEED_BUFFER_MAX (2000)
    BatchMax,   \* FEED_BATCH_MAX (200)
    MaxMessages,\* MAX_MESSAGES (500)
    MaxTopics,  \* MAX_TOPICS of the autocomplete registry (200)
    MaxPresets, \* MAX_FILTER_PRESETS (8)
    MaxArrivals,\* bound on the messages of a behaviour
    MaxClicks   \* bound on what the user does

VARIABLES
    arrived, buffer, dropped, \* the backend: messages so far, feed_buffer, feed_dropped
    flight,      \* batches emitted and not handled yet
    messages, pending, paused, feedDropped, \* useMqttMessages; newest first
    observed,    \* topics of the autocomplete registry, newest first
    search, direction, filterPresets, confirmPreset, \* the filter of the panel
    compareOn, picked,  \* the comparison of two rows
    armClear, retainOpen, clearing, exporting, \* clear, retained clearer, export
    timers,      \* timeouts under way, oldest first
    clicks

backend == <<arrived, buffer, dropped>>
feed == <<messages, pending, paused, feedDropped, observed>>
filter == <<search, direction, filterPresets, confirmPreset>>
compare == <<compareOn, picked>>
tools == <<armClear, retainOpen, clearing, exporting, timers>>
vars == <<backend, flight, feed, filter, compare, tools, clicks>>

None == <<>>
NoText == ""
Texts == {NoText} \cup {k.topic : k \in Kinds}
Newest(s, n) == SubSeq(s, 1, Min({n, Len(s)}))
Ids(s) == {s[i].id : i \in DOMAIN s}
TopicsOf(s) == {s[i].kind.topic : i \in DOMAIN s}

----------------------------------------------------------------------------
(* The backend's staging buffer.                                           *)

push_feed(k) ==
    LET full == Len(buffer) >= BufferMax IN
    /\ arrived < MaxArrivals
    /\ arrived' = arrived + 1
    /\ buffer' = Append(IF full THEN Tail(buffer) ELSE buffer, [id |-> arrived + 1, kind |-> k])
    /\ dropped' = IF full THEN dropped + 1 ELSE dropped
    /\ UNCHANGED <<flight, feed, filter, compare, tools, clicks>>

flush_feed ==
    /\ buffer # <<>>
    /\ flight' = Append(flight, [messages |-> Newest(buffer, BatchMax), dropped |-> dropped])
    /\ buffer' = SubSeq(buffer, BatchMax + 1, Len(buffer))
    /\ UNCHANGED <<arrived, dropped, feed, filter, compare, tools, clicks>>

----------------------------------------------------------------------------
(* useMqttMessages.                                                        *)

\* Each topic of the batch moves to the front of the registry; system topics stay out.
observeTopic(list, t) ==
    IF t = "$SYS" THEN list ELSE Newest(<<t>> \o SelectSeq(list, LAMBDA x : x # t), MaxTopics)

\* Variant: what overflows while the feed is paused is not counted.
OnBatchQuietly ==
    LET batch == Head(flight)
        incoming == Reverse(batch.messages)
    IN  /\ flight # <<>>
        /\ flight' = Tail(flight)
        /\ observed' = FoldLeft(LAMBDA list, m : observeTopic(list, m.kind.topic), observed, batch.messages)
        /\ feedDropped' = batch.dropped
        /\ IF paused THEN pending' = Newest(incoming \o pending, MaxMessages) /\ UNCHANGED messages
                     ELSE messages' = Newest(incoming \o messages, MaxMessages) /\ UNCHANGED pending
        /\ UNCHANGED <<backend, paused, filter, compare, tools, clicks>>

\* A batch: on top of the list, or of what is held back while the feed is paused.
\* What overflows there is added to the number of dropped rows the batch came with.
OnBatch ==
    LET batch == Head(flight)
        incoming == Reverse(batch.messages)
        merged == incoming \o pending
    IN  /\ flight # <<>>
        /\ flight' = Tail(flight)
        /\ observed' = FoldLeft(LAMBDA list, m : observeTopic(list, m.kind.topic), observed, batch.messages)
        /\ IF paused
           THEN /\ pending' = Newest(merged, MaxMessages)
                /\ feedDropped' = batch.dropped + (Len(merged) - Len(pending'))
                /\ UNCHANGED messages
           ELSE /\ messages' = Newest(incoming \o messages, MaxMessages)
                /\ feedDropped' = batch.dropped
                /\ UNCHANGED pending
        /\ UNCHANGED <<backend, paused, filter, compare, tools, clicks>>

Click == clicks < MaxClicks /\ clicks' = clicks + 1

resumeFeed ==
    /\ messages' = Newest(pending \o messages, MaxMessages)
    /\ pending' = <<>>

togglePaused ==
    /\ IF paused THEN resumeFeed ELSE UNCHANGED <<messages, pending>>
    /\ paused' = ~paused
    /\ Click
    /\ UNCHANGED <<backend, flight, feedDropped, observed, filter, compare, tools>>

----------------------------------------------------------------------------
(* What the panel shows of the list.                                       *)

Shown(m) ==
    /\ direction = "all" \/ m.kind.dir = direction
    /\ search = NoText \/ m.kind.topic = search

filteredMessages == SelectSeq(messages, Shown)

retainedTopics == TopicsOf(SelectSeq(messages, LAMBDA m : m.kind.retain))

\* The notices above the list, and the way out an empty list offers.
Notices ==
    {n \in {"paused", "dropped", "cap", "empty", "clearFilter", "pickTwo", "compare"} :
        CASE n = "paused" -> paused
          [] n = "dropped" -> feedDropped > 0
          [] n = "cap" -> Len(messages) >= MaxMessages
          [] n = "empty" -> messages = <<>>
          [] n = "clearFilter" -> messages # <<>> /\ filteredMessages = <<>>
          [] n = "pickTwo" -> filteredMessages # <<>> /\ compareOn /\ Len(picked) < 2
          [] n = "compare" -> filteredMessages # <<>> /\ compareOn /\ Len(picked) = 2}

\* The comparison is drawn over the rows found for the two picks.
Compared == SelectSeq(picked, LAMBDA i : i \in Ids(messages))

----------------------------------------------------------------------------
(* The toolbar.                                                            *)

setSearch(t) ==
    /\ search' = t
    /\ Click
    /\ UNCHANGED <<backend, flight, feed, direction, filterPresets, confirmPreset, compare, tools>>

setDirection(d) ==
    /\ d # direction /\ direction' = d
    /\ Click
    /\ UNCHANGED <<backend, flight, feed, search, filterPresets, confirmPreset, compare, tools>>

\* The button of an empty, filtered list.
clearFilter ==
    /\ "clearFilter" \in Notices
    /\ search' = NoText /\ direction' = "all"
    /\ Click
    /\ UNCHANGED <<backend, flight, feed, filterPresets, confirmPreset, compare, tools>>

savePreset ==
    /\ search # NoText /\ ~Contains(filterPresets, search)
    /\ LET all == Append(filterPresets, search)
       IN  filterPresets' = SubSeq(all, Max({1, Len(all) - MaxPresets + 1}), Len(all))
    /\ Click
    /\ UNCHANGED <<backend, flight, feed, search, direction, confirmPreset, compare, tools>>

\* The first click asks, the second removes the preset and the search it stands for.
removePreset(i) ==
    LET preset == filterPresets[i] IN
    /\ IF confirmPreset # preset
       THEN confirmPreset' = preset /\ UNCHANGED <<filterPresets, search>>
       ELSE /\ filterPresets' = RemoveAt(filterPresets, i)
            /\ confirmPreset' = NoText
            /\ search' = IF search = preset THEN NoText ELSE search
    /\ Click
    /\ UNCHANGED <<backend, flight, feed, direction, compare, tools>>

toggleCompare ==
    /\ compareOn' = ~compareOn /\ picked' = <<>>
    /\ Click
    /\ UNCHANGED <<backend, flight, feed, filter, tools>>

\* A third pick replaces the older of two.
pick(m) ==
    /\ compareOn
    /\ picked' = IF Contains(picked, m.id) THEN SelectSeq(picked, LAMBDA x : x # m.id)
                 ELSE SubSeq(picked, Max({1, Len(picked)}), Len(picked)) \o <<m.id>>
    /\ Click
    /\ UNCHANGED <<backend, flight, feed, filter, compareOn, tools>>

\* Two clicks: the first arms the button for four seconds.
clearMessages ==
    /\ armClear' = ~armClear
    /\ IF armClear THEN messages' = <<>> /\ UNCHANGED timers
                   ELSE timers' = Append(timers, "disarm") /\ UNCHANGED messages
    /\ Click
    /\ UNCHANGED <<backend, flight, pending, paused, feedDropped, observed, filter, compare,
                   retainOpen, clearing, exporting>>

Timeout ==
    /\ timers # <<>> /\ timers' = Tail(timers)
    /\ armClear' = FALSE
    /\ UNCHANGED <<backend, flight, feed, filter, compare, retainOpen, clearing, exporting, clicks>>

toggleRetained ==
    /\ retainedTopics # {} /\ retainOpen' = ~retainOpen
    /\ Click
    /\ UNCHANGED <<backend, flight, feed, filter, compare, armClear, clearing, exporting, timers>>

\* One empty retained publish for each topic that was listed when the button was pressed.
handleClearRetained ==
    /\ retainOpen /\ clearing = None /\ retainedTopics # {}
    /\ clearing' = SetToSeq(retainedTopics)
    /\ Click
    /\ UNCHANGED <<backend, flight, feed, filter, compare, armClear, retainOpen, exporting, timers>>

\* The publishes go out one after the other; the first that fails ends the clear with an error.
ClearedOne(ok) ==
    /\ clearing # None
    /\ clearing' = IF ok THEN Tail(clearing) ELSE None
    /\ retainOpen' = (IF ok /\ Len(clearing) = 1 THEN FALSE ELSE retainOpen)
    /\ UNCHANGED <<backend, flight, feed, filter, compare, armClear, exporting, timers, clicks>>

\* The list as it is now, oldest first, is written while the feed goes on.
handleExport ==
    /\ messages # <<>> /\ exporting = None
    /\ exporting' = Reverse(messages)
    /\ Click
    /\ UNCHANGED <<backend, flight, feed, filter, compare, armClear, retainOpen, clearing, timers>>

Exported ==
    /\ exporting # None /\ exporting' = None
    /\ UNCHANGED <<backend, flight, feed, filter, compare, armClear, retainOpen, clearing, timers, clicks>>

----------------------------------------------------------------------------
Init ==
    /\ arrived = 0 /\ buffer = <<>> /\ dropped = 0 /\ flight = <<>>
    /\ messages = <<>> /\ pending = <<>> /\ paused = FALSE /\ feedDropped = 0 /\ observed = <<>>
    /\ search = NoText /\ direction = "all" /\ filterPresets = <<>> /\ confirmPreset = NoText
    /\ compareOn = FALSE /\ picked = <<>>
    /\ armClear = FALSE /\ retainOpen = FALSE /\ clearing = None /\ exporting = None /\ timers = <<>>
    /\ clicks = 0

Next ==
    \/ \E k \in Kinds : push_feed(k)
    \/ flush_feed
    \/ OnBatch
    \/ togglePaused
    \/ \E t \in Texts : setSearch(t)
    \/ \E d \in {"all", "in", "out"} : setDirection(d)
    \/ clearFilter
    \/ savePreset
    \/ \E i \in DOMAIN filterPresets : removePreset(i)
    \/ toggleCompare
    \/ \E m \in Range(filteredMessages) : pick(m)
    \/ clearMessages
    \/ Timeout
    \/ toggleRetained
    \/ handleClearRetained
    \/ \E ok \in BOOLEAN : ClearedOne(ok)
    \/ handleExport
    \/ Exported

Spec == Init /\ [][Next]_vars

----------------------------------------------------------------------------
\* A list with a hole in it, or below what is held back, says that rows were dropped
\* (useMqttMessages.ts:56-58: overflow of the paused buffer "joins the same dropped counter
\* instead of vanishing quietly").
GapIsTold ==
    LET held == pending \o messages
    IN  (\E i \in 1 .. Len(held) - 1 : held[i].id # held[i + 1].id + 1) => "dropped" \in Notices
=============================================================================
