------------------------------ MODULE Session ------------------------------
(***************************************************************************)
(* The console's connection to its broker: the event loop, the bounded     *)
(* request channel between the app and the MQTT library, the registry of   *)
(* subscriptions that every CONNACK replays, and the tracker that pairs    *)
(* each SUBACK with the filter it answers                                  *)
(* (src/src-tauri/src/mqtt_manager.rs, acks.rs).                           *)
(*                                                                         *)
(* A SUBACK names no filter; the tracker relies on order alone.  A refusal *)
(* is quarantined, so that it is not replayed: on MQTT 5 the library drops *)
(* the connection over it, and a replay would do so for ever.              *)
(*                                                                         *)
(* The event loop is one task: while it handles an event it does not poll, *)
(* and only polling takes requests out of the channel.  User commands run  *)
(* on tasks of their own and interleave with it at every await.            *)
(***************************************************************************)
EXTENDS Integers, Sequences, FiniteSets, SequencesExt

CONSTANTS
    Filter,     \* topic filters the user may subscribe to
    Probe,      \* SYS_PROBE_FILTER, which the session adds by itself
    Denied,     \* filters the broker refuses
    Task,       \* tasks that run user commands
    Capacity,   \* requests the channel holds (100 in the code)
    MaxDrops,   \* bound: connections lost
    MaxCmds     \* bound: user commands started

ASSUME SessionAssumption ==
    /\ IsFiniteSet(Filter) /\ Probe \notin Filter
    /\ Denied \subseteq Filter \cup {Probe}
    /\ Capacity \in Nat \ {0}
    /\ MaxDrops \in Nat /\ MaxCmds \in Nat

Topic == Filter \cup {Probe}
Request == [kind : {"SUB", "UNSUB"}, filter : Topic]
Sub(f) == [kind |-> "SUB", filter |-> f]
Unsub(f) == [kind |-> "UNSUB", filter |-> f]

\* The filters that a queue of requests names, in order.
Filters(q) == [i \in 1 .. Len(q) |-> q[i].filter]

VARIABLES
    version,     \* "v3" or "v5" of the protocol
    link,        \* the connection, as the event loop knows it
    loop,        \* what the event loop is doing
    restoring,   \* filters the CONNACK handler still has to SUBSCRIBE
    verdict,     \* the filter whose refusal is being handled
    chan,        \* requests waiting in the channel
    wire,        \* requests sent, or kept to be sent first, and not answered yet
    active,      \* filters the broker delivers on
    registry,    \* MqttManager.subscriptions
    pendingSub, pendingUnsub,   \* AckTracker.pending_sub, pending_unsub
    rejected,    \* AckTracker.rejected_subs
    quarantined, \* AckTracker.quarantined
    cmd,         \* what each task is doing
    drops, cmds, \* counted against the bounds
    clean        \* only the CONNACK handler has used this connection so far

tracker == <<pendingSub, pendingUnsub, rejected, quarantined>>
vars == <<version, link, loop, restoring, verdict, chan, wire, active, registry, tracker,
          cmd, drops, cmds, clean>>

Idle == [at |-> "idle"]
CmdSteps == {"enqueue", "expect", "forget", "unsend"}

TypeOK ==
    /\ version \in {"v3", "v5"}
    /\ link \in {"up", "down"}
    /\ loop \in {"poll", "expect", "restore", "quarantine"}
    /\ restoring \in Seq(Topic)
    /\ verdict \in Topic
    /\ chan \in Seq(Request) /\ Len(chan) <= Capacity
    /\ wire \in Seq(Request)
    /\ active \subseteq Topic
    /\ registry \subseteq Filter
    /\ pendingSub \in Seq(Topic) /\ pendingUnsub \in Seq(Topic)
    /\ rejected \subseteq Topic /\ quarantined \subseteq Topic
    /\ cmd \in [Task -> {Idle} \cup [at : CmdSteps, filter : Filter]]
    /\ drops \in 0 .. MaxDrops /\ cmds \in 0 .. MaxCmds
    /\ clean \in BOOLEAN

Init ==
    /\ version \in {"v3", "v5"}
    /\ link = "down" /\ loop = "poll" /\ restoring = <<>> /\ verdict = Probe
    /\ chan = <<>> /\ wire = <<>> /\ active = {}
    /\ registry \in SUBSET Filter
    /\ pendingSub = <<>> /\ pendingUnsub = <<>> /\ rejected = {} /\ quarantined = {}
    /\ cmd = [t \in Task |-> Idle]
    /\ drops = 0 /\ cmds = 0 /\ clean = FALSE

-----------------------------------------------------------------------------
(* The event loop: CONNACK *)

AllIdle == \A t \in Task : cmd[t] = Idle

\* Variant: a filter with a red chip is left out of the replay, asked for again or not.
ConnectedSkipsRejected ==
    /\ loop = "poll" /\ link = "down"
    /\ link' = "up"
    /\ loop' = "expect"
    /\ restoring' \in SetToSeqs(registry \ rejected)
    /\ clean' = (wire = <<>> /\ chan = <<>> /\ AllIdle)
    /\ UNCHANGED <<version, verdict, chan, wire, active, registry, tracker, cmd, drops, cmds>>

\* CONNACK: take down what has to be replayed, in whatever order the map yields it.
Connected ==
    /\ loop = "poll" /\ link = "down"
    /\ link' = "up"
    /\ loop' = "expect"
    /\ restoring' \in SetToSeqs(registry \ quarantined)
    /\ clean' = (wire = <<>> /\ chan = <<>> /\ AllIdle)
    /\ UNCHANGED <<version, verdict, chan, wire, active, registry, tracker, cmd, drops, cmds>>

WithProbe(s) == IF Probe \in quarantined THEN s ELSE Append(s, Probe)

\* Variant: the answers the old connection owed are still waited for.
ExpectAllMore ==
    /\ loop = "expect"
    /\ loop' = "restore"
    /\ restoring' = WithProbe(restoring)
    /\ pendingSub' = pendingSub \o WithProbe(restoring)
    /\ pendingUnsub' = <<>>
    /\ UNCHANGED <<version, link, verdict, chan, wire, active, registry, rejected, cmd, drops,
                   cmds, clean>>
    /\ quarantined' = quarantined \ Range(restoring)

\* Every answer of the new connection gets its slot before the first request is queued.
ExpectAll ==
    /\ loop = "expect"
    /\ loop' = "restore"
    /\ restoring' = WithProbe(restoring)
    /\ pendingSub' = WithProbe(restoring)
    /\ pendingUnsub' = <<>>
    /\ quarantined' = quarantined \ Range(restoring)
    /\ UNCHANGED <<version, link, verdict, chan, wire, active, registry, rejected, cmd, drops,
                   cmds, clean>>

\* Queue the next SUBSCRIBE; with the channel full, the handler waits here.
RestoreOne ==
    /\ loop = "restore" /\ restoring # <<>>
    /\ Len(chan) < Capacity
    /\ chan' = Append(chan, Sub(Head(restoring)))
    /\ restoring' = Tail(restoring)
    /\ UNCHANGED <<version, link, loop, verdict, wire, active, registry, tracker, cmd, drops,
                   cmds, clean>>

RestoreDone ==
    /\ loop = "restore" /\ restoring = <<>>
    /\ loop' = "poll"
    /\ UNCHANGED <<version, link, restoring, verdict, chan, wire, active, registry, tracker,
                   cmd, drops, cmds, clean>>

-----------------------------------------------------------------------------
(* The event loop: poll *)

\* The library takes the next request out of the channel and sends it.
Transmit ==
    /\ loop = "poll" /\ link = "up" /\ chan # <<>>
    /\ wire' = Append(wire, Head(chan))
    /\ chan' = Tail(chan)
    /\ UNCHANGED <<version, link, loop, restoring, verdict, active, registry, tracker, cmd,
                   drops, cmds, clean>>

Answered(kind) == /\ loop = "poll" /\ link = "up" /\ wire # <<>>
                  /\ Head(wire).kind = kind

Refused == Head(wire).filter \in Denied

\* The filter the tracker holds the next SUBACK to be about.
Blamed == Head(pendingSub)

\* A granted SUBACK clears the verdict on the filter it is taken to answer.
Granted ==
    /\ Answered("SUB") /\ ~Refused
    /\ wire' = Tail(wire)
    /\ active' = active \cup {Head(wire).filter}
    /\ \/ pendingSub = <<>> /\ UNCHANGED <<pendingSub, rejected>>     \* unattributed
       \/ /\ pendingSub # <<>>
          /\ pendingSub' = Tail(pendingSub)
          /\ rejected' = rejected \ {Blamed}
    /\ UNCHANGED <<version, link, loop, restoring, verdict, chan, registry, pendingUnsub,
                   quarantined, cmd, drops, cmds, clean>>

\* On 3.1.1 a refusal is a SUBACK like any other, quarantined under a second lock ...
RefusedV3 ==
    /\ Answered("SUB") /\ Refused /\ version = "v3"
    /\ wire' = Tail(wire)
    /\ \/ pendingSub = <<>> /\ UNCHANGED <<loop, verdict, pendingSub, rejected>>
       \/ /\ pendingSub # <<>>
          /\ pendingSub' = Tail(pendingSub)
          /\ rejected' = rejected \cup {Blamed}
          /\ verdict' = Blamed
          /\ loop' = "quarantine"
    /\ UNCHANGED <<version, link, restoring, chan, active, registry, pendingUnsub, quarantined,
                   cmd, drops, cmds, clean>>

Quarantine ==
    /\ loop = "quarantine"
    /\ quarantined' = quarantined \cup {verdict}
    /\ loop' = "poll"
    /\ UNCHANGED <<version, link, restoring, verdict, chan, wire, active, registry, pendingSub,
                   pendingUnsub, rejected, cmd, drops, cmds, clean>>

\* What the library makes of the requests it holds when the connection goes: it forgets
\* them, or sends the ones still queued first on the next connection.
LinkLost == /\ link' = "down"
            /\ active' = {}
            /\ wire' \in {<<>>, chan}
            /\ chan' = <<>>

\* Variant: the refusal is reported but the filter stays in the replay.
RefusedV5Replayed ==
    /\ Answered("SUB") /\ Refused /\ version = "v5"
    /\ LinkLost
    /\ IF pendingSub # <<>>
         THEN /\ pendingSub' = Tail(pendingSub)
              /\ rejected' = rejected \cup {Blamed}
         ELSE UNCHANGED <<pendingSub, rejected>>
    /\ UNCHANGED <<version, loop, restoring, verdict, registry, pendingUnsub, quarantined, cmd,
                   drops, cmds, clean>>

\* ... on 5 it arrives as the error that ended the connection (handle_ack_rejected).
RefusedV5 ==
    /\ Answered("SUB") /\ Refused /\ version = "v5"
    /\ LinkLost
    /\ IF pendingSub # <<>>
         THEN /\ pendingSub' = Tail(pendingSub)
              /\ rejected' = rejected \cup {Blamed}
              /\ quarantined' = quarantined \cup {Blamed}
         ELSE UNCHANGED <<pendingSub, rejected, quarantined>>
    /\ UNCHANGED <<version, loop, restoring, verdict, registry, pendingUnsub, cmd, drops, cmds,
                   clean>>

UnsubAcked ==
    /\ Answered("UNSUB")
    /\ wire' = Tail(wire)
    /\ active' = active \ {Head(wire).filter}
    /\ pendingUnsub' = IF pendingUnsub = <<>> THEN <<>> ELSE Tail(pendingUnsub)
    /\ UNCHANGED <<version, link, loop, restoring, verdict, chan, registry, pendingSub, rejected,
                   quarantined, cmd, drops, cmds, clean>>

\* ConnectionError: the answers still owed will never come.
Dropped ==
    /\ loop = "poll" /\ link = "up" /\ drops < MaxDrops
    /\ LinkLost
    /\ pendingSub' = <<>> /\ pendingUnsub' = <<>>
    /\ drops' = drops + 1
    /\ UNCHANGED <<version, loop, restoring, verdict, registry, rejected, quarantined, cmd, cmds,
                   clean>>

-----------------------------------------------------------------------------
(* User commands *)

Goto(t, step, f) == cmd' = [cmd EXCEPT ![t] = [at |-> step, filter |-> f]]
Return(t) == cmd' = [cmd EXCEPT ![t] = Idle]
At(t, step) == cmd[t].at = step

Start(t) == /\ cmd[t] = Idle /\ cmds < MaxCmds
            /\ cmds' = cmds + 1

loopSame == <<version, link, loop, restoring, verdict, wire, active, drops>>

\* subscribe_topic: register, queue the request, and only then take a slot for its answer.
SubscribeTopic(t, f) ==
    /\ Start(t)
    /\ registry' = registry \cup {f}
    /\ Goto(t, "enqueue", f)
    /\ clean' = FALSE
    /\ UNCHANGED <<chan, tracker, loopSame>>

Enqueue(t) ==
    /\ At(t, "enqueue") /\ Len(chan) < Capacity
    /\ chan' = Append(chan, Sub(cmd[t].filter))
    /\ Goto(t, "expect", cmd[t].filter)
    /\ clean' = FALSE
    /\ UNCHANGED <<registry, tracker, cmds, loopSame>>

ExpectSub(t) ==
    /\ At(t, "expect")
    /\ pendingSub' = Append(pendingSub, cmd[t].filter)
    /\ quarantined' = quarantined \ {cmd[t].filter}
    /\ Return(t)
    /\ clean' = FALSE
    /\ UNCHANGED <<registry, chan, pendingUnsub, rejected, cmds, loopSame>>

\* unsubscribe_topic: unregister, forget the filter's verdicts and slots, queue the request.
UnsubscribeTopic(t, f) ==
    /\ Start(t)
    /\ registry' = registry \ {f}
    /\ Goto(t, "forget", f)
    /\ clean' = FALSE
    /\ UNCHANGED <<chan, tracker, loopSame>>

Forget(t) ==
    /\ At(t, "forget")
    /\ LET f == cmd[t].filter IN
         /\ pendingSub' = SelectSeq(pendingSub, LAMBDA p : p # f)
         /\ pendingUnsub' = Append(SelectSeq(pendingUnsub, LAMBDA p : p # f), f)
         /\ rejected' = rejected \ {f}
         /\ quarantined' = quarantined \ {f}
         /\ Goto(t, "unsend", f)
    /\ clean' = FALSE
    /\ UNCHANGED <<registry, chan, cmds, loopSame>>

Unsend(t) ==
    /\ At(t, "unsend") /\ Len(chan) < Capacity
    /\ chan' = Append(chan, Unsub(cmd[t].filter))
    /\ Return(t)
    /\ clean' = FALSE
    /\ UNCHANGED <<registry, tracker, cmds, loopSame>>

-----------------------------------------------------------------------------
(* Specification *)

EventLoop == \/ Connected \/ ExpectAll \/ RestoreOne \/ RestoreDone
             \/ Granted \/ RefusedV3 \/ Quarantine \/ RefusedV5 \/ UnsubAcked

CommandStep(t) == Enqueue(t) \/ ExpectSub(t) \/ Forget(t) \/ Unsend(t)

Next ==
    \/ EventLoop
    \/ Transmit
    \/ Dropped
    \/ \E t \in Task : \/ CommandStep(t)
                       \/ \E f \in Filter : SubscribeTopic(t, f) \/ UnsubscribeTopic(t, f)

Spec == Init /\ [][Next]_vars

\* The runtime keeps polling and running commands; the broker answers; the library sends.
FairSpec == Spec /\ WF_vars(EventLoop) /\ WF_vars(Transmit)
                 /\ \A t \in Task : WF_vars(CommandStep(t))

-----------------------------------------------------------------------------
(* Properties *)

\* As long as only the CONNACK handler uses a connection, the tracker's slots are the
\* answers the broker still owes, in order (AckTracker, ExpectAll before RestoreOne).
SlotsMatchAnswers ==
    (clean /\ link = "up" /\ loop # "expect") =>
        pendingSub = Filters(wire) \o Filters(chan) \o restoring

\* Then nobody is blamed, and dropped from the replay, for a refusal of another filter.
RestoreBlamesRight == [][clean => (quarantined' \ quarantined) \subseteq Denied]_vars

\* However user commands, answers and lost connections interleave, the session does not
\* flap for ever over a refused filter (handle_ack_rejected quarantines it).
LinkSettles == <>[](link = "up")

\* On a connection only the CONNACK handler used, every registered filter that is not
\* quarantined ends up delivered on, whatever happened on the connections before.
RegistryRestored == <>[](clean => registry \ quarantined \subseteq active)

\* The CONNACK handler comes back to polling.
RestoreFinishes == (loop = "restore") ~> (loop = "poll")
=============================================================================
