----------------------------- MODULE Connection -----------------------------
(***************************************************************************)
(* The window's side of the broker session: connecting (hooks/useBroker),  *)
(* the list of subscriptions (hooks/useMqttMessages, SubscriptionsBar),    *)
(* and the broker's verdicts on them (hooks/useSubscriptionStats).         *)
(*                                                                         *)
(* The window and the backend talk through calls, which are answered some  *)
(* time later, and through events, which arrive in the order they were     *)
(* sent but at any moment between two answers.  Session models what the    *)
(* backend does with its event loop and its request channel; here the      *)
(* backend is only what the window can see of it: the topics it replays on *)
(* every CONNACK, whether the link is up, and the verdicts it remembers.   *)
(***************************************************************************)
EXTENDS Integers, Sequences, FiniteSets, SequencesExt

CONSTANTS
    Raw,           \* filters that can be typed
    Saved,         \* lists of subscriptions a run can start with
    Group,         \* share groups that can be typed
    Refused,       \* topics the broker refuses
    Capped,        \* topics it grants at a lower QoS
    MaxConnects,   \* bound: connect calls in flight
    MaxPolls,      \* bound: polls in flight
    MaxEvents,     \* bound: events under way
    MaxDrops,      \* bound: times the link drops
    MaxClicks      \* bound: what the user does

None == "none"
Topic == [group : Group \cup {None}, raw : Raw]
Config == {"v3", "v5"}
NoAck == [rejected |-> {}, capped |-> {}]

VARIABLES
    \* the window
    config, status, isConnecting, connectionError,
    connects,      \* connect calls: waiting for the handshake, or registering topics
    subscriptions, \* the chips
    form,          \* the fields of SubscriptionsBar
    calls,         \* subscribe_topic and unsubscribe_topic calls under way
    console,       \* whether the console workspace is open
    caps,          \* shared subscriptions offered, as announced to the window
    ack, seen,     \* verdicts shown, verdicts already toasted
    polls,         \* answers to polls under way
    warned,        \* topics a toast said could not be subscribed
    \* the backend
    link, protocol, offered, registry, asked, refused, capped,
    events,        \* events on their way to the window
    drops, clicks

window == <<config, status, isConnecting, connectionError, connects, subscriptions, form,
            calls, console, caps, ack, seen, polls, warned>>
backend == <<link, protocol, offered, registry, asked, refused, capped, drops>>
vars == <<window, backend, events, clicks>>

Form == [raw : Raw \cup {None}, sharedOn : BOOLEAN, group : Group \cup {None}, error : BOOLEAN]

\* The list of subscriptions and the config come from the last run of the program.
Init ==
    /\ config \in Config /\ status = FALSE /\ isConnecting = FALSE /\ connectionError = FALSE
    /\ connects = <<>> /\ subscriptions \in Saved /\ calls = <<>>
    /\ form = [raw |-> None, sharedOn |-> FALSE, group |-> None, error |-> FALSE]
    /\ console = TRUE /\ caps = "unknown"
    /\ ack = NoAck /\ seen = NoAck /\ polls = <<>> /\ warned = {}
    /\ link = "none" /\ protocol = "v3" /\ offered \in BOOLEAN /\ registry = {} /\ asked = {} /\ refused = {} /\ capped = {}
    /\ events = <<>> /\ drops = 0 /\ clicks = 0

Click == clicks < MaxClicks /\ clicks' = clicks + 1
Emit(es) == Len(events) + Len(es) <= MaxEvents /\ events' = events \o es
Up == [kind |-> "status", connected |-> TRUE]
Down == [kind |-> "status", connected |-> FALSE]
Lost == [kind |-> "broker-disconnected"]

-----------------------------------------------------------------------------
(* The window: connecting                                                  *)

\* connect: from the bar's button or profile list (while not connecting), from the palette,
\* the error banner or the settings dialog (at any time).  The backend closes the session it
\* has, whose own connect call, if it still waits, fails.
connect(cfg) ==
    /\ Click /\ Len(connects) < MaxConnects
    /\ isConnecting' = TRUE /\ connectionError' = FALSE
    /\ connects' = Append([i \in 1 .. Len(connects) |->
                               IF connects[i].at = "asked" THEN [connects[i] EXCEPT !.at = "failed"]
                                                           ELSE connects[i]],
                          [cfg |-> cfg, at |-> "asked", todo |-> <<>>])
    /\ link' = "down" /\ protocol' = cfg /\ asked' = {}
    /\ UNCHANGED <<config, status, subscriptions, form, calls, console, caps, ack, seen, polls,
                   warned, offered, registry, refused, capped, drops, events>>

\* What a connect registers: one snapshot of the list, taken when the handshake is answered.
getTopicsToRegister == SetToSeq(subscriptions)

\* The answer of the i-th connect call.
Connected(i) ==
    /\ connects[i].at = "ok"
    /\ config' = connects[i].cfg
    /\ connects' = [connects EXCEPT ![i].at = "loop", ![i].todo = getTopicsToRegister]
    /\ UNCHANGED <<status, isConnecting, connectionError, subscriptions, form, calls, console,
                   caps, ack, seen, polls, warned, backend, events, clicks>>

ConnectFails(i) ==
    /\ connects[i].at = "failed"
    /\ connectionError' = TRUE /\ isConnecting' = FALSE
    /\ connects' = RemoveAt(connects, i)
    /\ UNCHANGED <<config, status, subscriptions, form, calls, console, caps, ack, seen, polls,
                   warned, backend, events, clicks>>

\* subscribe_topic: refused at once if the broker announced that it offers no shared
\* subscriptions; otherwise registered, and sent if there is a session.
Accepts(t) == t.group = None \/ offered \/ link # "up"
subscribe_topic(t) ==
    IF Accepts(t) THEN /\ registry' = registry \cup {t}
                       /\ asked' = IF link = "up" THEN asked \cup {t} ELSE asked
                       /\ warned' = warned
                  ELSE /\ warned' = warned \cup {t}
                       /\ UNCHANGED <<registry, asked>>

\* One turn of the loop that registers the list: a rejection is noted and the loop goes on.
Register(i) ==
    /\ connects[i].at = "loop" /\ connects[i].todo # <<>>
    /\ subscribe_topic(Head(connects[i].todo))
    /\ connects' = [connects EXCEPT ![i].todo = Tail(@)]
    /\ UNCHANGED <<config, status, isConnecting, connectionError, subscriptions, form, calls,
                   console, caps, ack, seen, polls, link, protocol, offered, refused, capped, drops, events,
                   clicks>>

\* The end of the loop: the toast, and the flag that any connect resets.
Registered(i) ==
    /\ connects[i].at = "loop" /\ connects[i].todo = <<>>
    /\ isConnecting' = FALSE
    /\ connects' = RemoveAt(connects, i)
    /\ UNCHANGED <<config, status, connectionError, subscriptions, form, calls, console, caps,
                   ack, seen, polls, warned, backend, events, clicks>>

\* What hangs on the connection in useSubscriptionStats and useBrokerCapabilities: an inactive
\* console forgets its verdicts, and announced limits do not outlive a session.
Activity(connected, open) ==
    /\ ack' = IF connected /\ open THEN ack ELSE NoAck
    /\ seen' = IF connected /\ open THEN seen ELSE NoAck
    /\ polls' = IF connected /\ open THEN polls ELSE <<>>
    /\ caps' = IF connected THEN caps ELSE "unknown"

disconnect ==
    /\ Click /\ status
    /\ status' = FALSE /\ Activity(FALSE, console)
    /\ link' = "none" /\ asked' = {}
    /\ connects' = [i \in 1 .. Len(connects) |->
                        IF connects[i].at = "asked" THEN [connects[i] EXCEPT !.at = "failed"]
                                                    ELSE connects[i]]
    /\ UNCHANGED <<config, isConnecting, connectionError, subscriptions, form, calls, console,
                   warned, protocol, offered, registry, refused, capped, drops,
                   events>>

\* The button of the bar and of the error banner.
toggleConnect == IF status THEN disconnect ELSE connect(config)
\* The bar's button and its list of profiles are disabled while a connect is under way.
BarConnects == ~isConnecting /\ (toggleConnect \/ \E cfg \in Config : connect(cfg))
\* The palette and the settings dialog are not.
PaletteConnects == toggleConnect \/ \E cfg \in Config : connect(cfg)

setActiveMode ==
    /\ Click /\ console' = ~console /\ Activity(status, ~console)
    /\ UNCHANGED <<config, status, isConnecting, connectionError, connects, subscriptions, form,
                   calls, warned, backend, events>>

-----------------------------------------------------------------------------
(* The window: subscriptions                                               *)

isV5 == config = "v5"
\* The form asks for MQTT 5's options only on MQTT 5, and for sharing only when it is offered.
editForm(f) ==
    /\ Click /\ f # form
    /\ Cardinality({k \in DOMAIN form : f[k] # form[k]}) = 1
    /\ (f.sharedOn # form.sharedOn) => (isV5 /\ caps # "unshared" /\ f.error = form.error)
    /\ (f.group # form.group) => (isV5 /\ form.sharedOn)
    /\ form' = [f EXCEPT !.error = IF f.group # None /\ f.group # form.group THEN FALSE
                                                                             ELSE form.error]
    /\ UNCHANGED <<config, status, isConnecting, connectionError, connects, subscriptions, calls,
                   console, caps, ack, seen, polls, warned, backend, events>>

composedTopic ==
    [group |-> IF isV5 /\ form.sharedOn THEN form.group ELSE None, raw |-> form.raw]

\* addSubscription: the chip at once; the call only while connected.
addSubscription(t) ==
    /\ subscriptions' = subscriptions \cup {t}
    /\ calls' = IF t \notin subscriptions /\ status
                THEN Append(calls, [op |-> "subscribe", topic |-> t]) ELSE calls

handleAdd ==
    /\ Click /\ form.raw # None
    /\ IF form.sharedOn /\ form.group = None
       THEN form' = [form EXCEPT !.error = TRUE] /\ UNCHANGED <<subscriptions, calls>>
       ELSE form' = [form EXCEPT !.error = FALSE, !.raw = None] /\ addSubscription(composedTopic)
    /\ UNCHANGED <<config, status, isConnecting, connectionError, connects, console, caps, ack,
                   seen, polls, warned, backend, events>>

removeSubscription(t) ==
    /\ Click /\ t \in subscriptions
    /\ subscriptions' = subscriptions \ {t}
    /\ calls' = IF status THEN Append(calls, [op |-> "unsubscribe", topic |-> t]) ELSE calls
    /\ UNCHANGED <<config, status, isConnecting, connectionError, connects, form, console, caps,
                   ack, seen, polls, warned, backend, events>>

\* The backend runs the i-th of the calls; a failure is toasted.
CallRuns(i) ==
    /\ IF calls[i].op = "subscribe"
       THEN subscribe_topic(calls[i].topic) /\ UNCHANGED <<refused, capped>>
       ELSE /\ registry' = registry \ {calls[i].topic} /\ asked' = asked \ {calls[i].topic}
            /\ refused' = refused \ {calls[i].topic} /\ capped' = capped \ {calls[i].topic}
            /\ UNCHANGED warned
    /\ calls' = RemoveAt(calls, i)
    /\ UNCHANGED <<config, status, isConnecting, connectionError, connects, subscriptions, form,
                   console, caps, ack, seen, polls, link, protocol, offered, drops, events, clicks>>

-----------------------------------------------------------------------------
(* The window: verdicts                                                    *)

Watching == status /\ console

Poll ==
    /\ Watching /\ Len(polls) < MaxPolls
    /\ polls' = Append(polls, [rejected |-> refused, capped |-> capped])
    /\ UNCHANGED <<config, status, isConnecting, connectionError, connects, subscriptions, form,
                   calls, console, caps, ack, seen, warned, backend, events, clicks>>

\* Variant: an answer adds to the verdicts shown.
AnswerAdds(i) ==
    /\ ack' = [rejected |-> ack.rejected \cup polls[i].rejected,
               capped |-> ack.capped \cup polls[i].capped]
    /\ seen' = [rejected |-> seen.rejected \cap polls[i].rejected,
                capped |-> seen.capped \cap polls[i].capped]
    /\ polls' = RemoveAt(polls, i)
    /\ UNCHANGED <<config, status, isConnecting, connectionError, connects, subscriptions, form,
                   calls, console, caps, warned, backend, events, clicks>>

\* fromState, and pruneVerdicts: what is no longer refused may be announced again.
Answer(i) ==
    /\ ack' = polls[i]
    /\ seen' = [rejected |-> seen.rejected \cap polls[i].rejected,
                capped |-> seen.capped \cap polls[i].capped]
    /\ polls' = RemoveAt(polls, i)
    /\ UNCHANGED <<config, status, isConnecting, connectionError, connects, subscriptions, form,
                   calls, console, caps, warned, backend, events, clicks>>

\* The capabilities answer one call per status event.
Announced == IF offered THEN "shared" ELSE "unshared"

\* The next event.  The verdict listeners stay up whether or not the console is active.
Deliver ==
    /\ events # <<>> /\ events' = Tail(events)
    /\ LET e == Head(events) IN
       \/ /\ e.kind = "status"
          /\ status' = e.connected
          /\ connectionError' = (connectionError /\ ~e.connected)
          /\ ack' = IF e.connected /\ console THEN ack ELSE NoAck
          /\ seen' = IF e.connected /\ console THEN seen ELSE NoAck
          /\ polls' = IF e.connected /\ console THEN polls ELSE <<>>
          /\ caps' = IF e.connected THEN Announced ELSE "unknown"
       \/ /\ e.kind = "broker-disconnected"
          /\ status' = FALSE /\ connectionError' = TRUE /\ Activity(FALSE, console)
       \/ /\ e.kind \in {"rejected", "capped"}
          /\ ack' = [ack EXCEPT ![e.kind] = @ \cup {e.topic}]
          /\ seen' = [seen EXCEPT ![e.kind] = @ \cup {e.topic}]
          /\ UNCHANGED <<status, connectionError, polls, caps>>
    /\ UNCHANGED <<config, isConnecting, connects, subscriptions, form, calls, console, warned,
                   backend, clicks>>

\* "A refused filter is the one case where the broker contradicts the green dot."
refusalNote(t) == t \in ack.rejected
\* What a chip says: the refusal, or the QoS it was capped at, or nothing.
chip(t) == IF refusalNote(t) THEN "refused" ELSE IF t \in ack.capped THEN "capped" ELSE None

-----------------------------------------------------------------------------
(* The backend                                                             *)

\* The handshake of the session that the last connect asked for, or an automatic reconnect.
\* Every CONNACK replays the registry, without what is quarantined.
Connack ==
    /\ link = "down" /\ link' = "up"
    /\ asked' = registry \ refused
    /\ connects' = [i \in 1 .. Len(connects) |->
                        IF connects[i].at = "asked" THEN [connects[i] EXCEPT !.at = "ok"]
                                                    ELSE connects[i]]
    /\ Emit(<<Up>>)
    /\ UNCHANGED <<config, status, isConnecting, connectionError, subscriptions, form, calls,
                   console, caps, ack, seen, polls, warned, protocol, offered, registry, refused, capped,
                   drops, clicks>>

Drop ==
    /\ link = "up" /\ drops < MaxDrops /\ drops' = drops + 1
    /\ link' = "down" /\ asked' = {}
    /\ Emit(<<Down, Lost>>)
    /\ UNCHANGED <<window, protocol, offered, registry, refused, capped, clicks>>

\* The answer to a SUBSCRIBE.  On MQTT 5 the library drops the session over a refusal.
Suback(t) ==
    /\ link = "up" /\ t \in asked
    /\ \/ /\ t \in Refused /\ refused' = refused \cup {t} /\ UNCHANGED capped
          /\ IF protocol = "v5"
             THEN link' = "down" /\ asked' = {}
                  /\ Emit(<<[kind |-> "rejected", topic |-> t], Down, Lost>>)
             ELSE UNCHANGED link /\ asked' = asked \ {t}
                  /\ Emit(<<[kind |-> "rejected", topic |-> t]>>)
       \/ /\ t \in Capped \ Refused /\ capped' = capped \cup {t}
          /\ asked' = asked \ {t} /\ UNCHANGED <<refused, link>>
          /\ Emit(<<[kind |-> "capped", topic |-> t]>>)
       \/ /\ t \notin Capped \cup Refused
          /\ asked' = asked \ {t} /\ UNCHANGED <<refused, capped, link, events>>
    /\ UNCHANGED <<window, protocol, offered, registry, drops, clicks>>

-----------------------------------------------------------------------------
Answers ==
    \/ \E i \in DOMAIN connects : Connected(i) \/ ConnectFails(i) \/ Register(i) \/ Registered(i)
    \/ \E i \in DOMAIN calls : CallRuns(i)
Verdicts == \E i \in DOMAIN polls : Answer(i)
\* The answer that has waited longest.
AnswerFirst == polls # <<>> /\ Answer(1)
User ==
    \/ BarConnects \/ PaletteConnects \/ setActiveMode \/ handleAdd
    \/ \E f \in Form : editForm(f)
    \/ \E t \in subscriptions : removeSubscription(t)
Broker == Connack \/ Drop \/ \E t \in asked : Suback(t)

Next == User \/ Answers \/ Poll \/ Verdicts \/ Deliver \/ Broker

Spec == Init /\ [][Next]_vars /\ WF_vars(Poll) /\ WF_vars(AnswerFirst) /\ WF_vars(Deliver)

-----------------------------------------------------------------------------
(* A chip's verdict is both polled and pushed; a late answer to a poll can *)
(* undo an event that overtook it.  While the console goes on watching,    *)
(* what every chip says is again and again what the backend remembers.     *)
Verdict(t) == IF t \in refused THEN "refused" ELSE IF t \in capped THEN "capped" ELSE None
ChipsTell == Watching => \A t \in Topic : chip(t) = Verdict(t)
VerdictCatchesUp == []<>ChipsTell
=============================================================================
