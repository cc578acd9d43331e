-------------------------------- MODULE Rpc --------------------------------
(***************************************************************************)
(* Request/response calls: rpc_request opens the response topic, publishes *)
(* the request and records the call; an answer, the call's timer or        *)
(* disconnect() finishes it, and whoever does lets go of the topic         *)
(* (src/src-tauri/src/rpc.rs, mqtt_manager.rs).                            *)
(*                                                                         *)
(* Three locks guard the call list (RpcRegistry), the reference counts on  *)
(* response topics (ResponseWatch) and the session's subscriptions.  They  *)
(* are taken one after the other, so that requests, timers, the event      *)
(* loop, disconnect() and "clear finished" interleave between any two.     *)
(*                                                                         *)
(* An answer may arrive any time after its request went out, more than     *)
(* once, or never; a reply on a topic nobody subscribes to is lost.        *)
(***************************************************************************)
EXTENDS Integers, FiniteSets

CONSTANTS
    Call,      \* requests the user makes
    Topic,     \* response topics
    Attempts,  \* numbers of sends the calls ask for (up to 5 in the code)
    Collect,   \* numbers of answers they wait for (up to 32 in the code)
    Kept,      \* finished calls kept in the list (100 in the code)
    Faults     \* what may go wrong, or be done at the wrong moment

FaultKinds == {"subscribe", "publish", "disconnect", "clear", "share"}

ASSUME RpcAssumption ==
    /\ IsFiniteSet(Call)
    /\ Attempts \subseteq Nat \ {0} /\ Collect \subseteq Nat \ {0} /\ Kept \in Nat \ {0}
    /\ Faults \subseteq FaultKinds

VARIABLES
    task,      \* progress of each rpc_request
    resp,      \* the call's response_topic
    ours,      \* already_ours
    attempts,  \* attempts_total
    expected,  \* answers that resolve the call
    asked,     \* calls whose request was published
    state,     \* RpcCall.state; "none" before record, "gone" once off the list
    rank,      \* position in RpcRegistry.order
    attempt,   \* RpcCall.attempt
    answers,   \* length of RpcCall.replies
    timer,     \* the task that waits for the call's timeout
    closing,   \* what whoever finished the call still has to do for its topic
    observing, \* calls the event loop is closing: it handles nothing else meanwhile
    watch,     \* ResponseWatch.entries; refs = 0 is no entry
    subs,      \* MqttManager.subscriptions
    byHand,    \* topics the user subscribed to before
    listed,    \* rpc_clear_finished took its list, and has not cleared the calls yet
    dropped,   \* listed calls whose topics it still has to release
    shutting   \* the topic it still has to unsubscribe

callVars == <<resp, ours, attempts, expected>>
rowVars == <<state, rank, attempt, answers>>
vars == <<task, callVars, asked, rowVars, timer, closing, observing, watch, subs, byHand,
          listed, dropped, shutting>>

Finished == {"resolved", "timeout"}

TypeOK ==
    /\ task \in [Call -> {"idle", "checked", "subscribed", "watching", "published", "over", "refused"}]
    /\ resp \in [Call -> Topic] /\ ours \in [Call -> BOOLEAN]
    /\ attempts \in [Call -> Attempts] /\ expected \in [Call -> Collect]
    /\ asked \subseteq Call
    /\ state \in [Call -> {"none", "pending", "gone"} \cup Finished]
    /\ rank \in [Call -> 0 .. Cardinality(Call)]
    /\ \A c \in Call : attempt[c] \in 0 .. attempts[c] - 1 /\ answers[c] \in 0 .. expected[c]
    /\ timer \in [Call -> {"off", "sleeping", "retrying", "expiring"}]
    /\ closing \in [Call -> {"no", "release", "unsubscribe"}]
    /\ observing \subseteq Call
    /\ watch \in [Topic -> [refs : 0 .. Cardinality(Call), mine : BOOLEAN]]
    /\ subs \subseteq Topic /\ byHand \subseteq Topic
    /\ listed \in BOOLEAN /\ dropped \subseteq Call /\ shutting \subseteq Topic

NoEntry == [refs |-> 0, mine |-> FALSE]

Init ==
    /\ task = [c \in Call |-> "idle"]
    /\ resp \in [Call -> Topic] /\ ours = [c \in Call |-> FALSE]
    /\ "share" \in Faults \/ \A c, d \in Call : resp[c] = resp[d] => c = d
    /\ attempts \in [Call -> Attempts] /\ expected \in [Call -> Collect]
    /\ asked = {}
    /\ state = [c \in Call |-> "none"] /\ rank = [c \in Call |-> 0]
    /\ attempt = [c \in Call |-> 0] /\ answers = [c \in Call |-> 0]
    /\ timer = [c \in Call |-> "off"]
    /\ closing = [c \in Call |-> "no"] /\ observing = {}
    /\ watch = [t \in Topic |-> NoEntry]
    /\ byHand \in SUBSET Topic /\ subs = byHand
    /\ listed = FALSE /\ dropped = {} /\ shutting = {}

-----------------------------------------------------------------------------
(* RpcRegistry *)

\* trim_finished: only the newest finished calls stay on the list.
Trim(s) == [c \in Call |->
    LET newer == {d \in Call : s[d] \in Finished /\ rank[d] > rank[c]} IN
      IF s[c] \in Finished /\ Cardinality(newer) >= Kept THEN "gone" ELSE s[c]]

Finish(c, how) == state' = Trim([state EXCEPT ![c] = how])

\* match_reply: the pending calls on the topic that an answer to c fits: by correlation it
\* is c alone; without correlation data, the oldest.
Pending(t) == {d \in Call : state[d] = "pending" /\ resp[d] = t}
Exact(c) == Pending(resp[c]) \cap {c}
Oldest(c) == {d \in Pending(resp[c]) : \A e \in Pending(resp[c]) : rank[d] <= rank[e]}

-----------------------------------------------------------------------------
(* ResponseWatch *)

Acquired(t, already) == [watch EXCEPT ![t] = [refs |-> @.refs + 1,
                                              mine |-> IF @.refs = 0 THEN ~already ELSE @.mine]]

\* The last reference removes the entry ...
Released(t) == [watch EXCEPT ![t] = IF @.refs > 1 THEN [refs |-> @.refs - 1, mine |-> @.mine]
                                       ELSE NoEntry]

\* ... and closes the topic, if the watch opened it.
Closes(t) == watch[t].refs = 1 /\ watch[t].mine

-----------------------------------------------------------------------------
(* rpc_request *)

Goto(c, step) == task' = [task EXCEPT ![c] = step]
rowSame == <<rowVars, timer>>
restSame == <<byHand, listed, dropped, shutting>>

Check(c) ==
    /\ task[c] = "idle"
    /\ Goto(c, "checked")
    /\ ours' = [ours EXCEPT ![c] = resp[c] \in subs]
    /\ UNCHANGED <<resp, attempts, expected, asked, rowSame, closing, observing, watch, subs,
                   restSame>>

Subscribe(c) ==
    /\ task[c] = "checked"
    /\ Goto(c, "subscribed")
    /\ subs' = subs \cup {resp[c]}
    /\ UNCHANGED <<callVars, asked, rowSame, closing, observing, watch, restSame>>

\* An invalid topic is refused first; a SUBSCRIBE that cannot be queued leaves the topic
\* registered for the next CONNACK, with nobody to take it out.
SubscribeFails(c) ==
    /\ task[c] = "checked" /\ "subscribe" \in Faults
    /\ Goto(c, "refused")
    /\ subs' \in {subs, subs \cup {resp[c]}}
    /\ UNCHANGED <<callVars, asked, rowSame, closing, observing, watch, restSame>>

Acquire(c) ==
    /\ task[c] = "subscribed"
    /\ Goto(c, "watching")
    /\ watch' = Acquired(resp[c], ours[c])
    /\ UNCHANGED <<callVars, asked, rowSame, closing, observing, subs, restSame>>

Publish(c) ==
    /\ task[c] = "watching"
    /\ Goto(c, "published")
    /\ asked' = asked \cup {c}
    /\ UNCHANGED <<callVars, rowSame, closing, observing, watch, subs, restSame>>

\* Variant: the failed request forgets the topic it opened.
PublishFailsLeaky(c) ==
    /\ task[c] = "watching" /\ "publish" \in Faults
    /\ Goto(c, "over")
    /\ UNCHANGED <<callVars, asked, rowSame, closing, observing, watch, subs, restSame>>

PublishFails(c) ==
    /\ task[c] = "watching" /\ "publish" \in Faults
    /\ Goto(c, "over")
    /\ closing' = [closing EXCEPT ![c] = "release"]
    /\ UNCHANGED <<callVars, asked, rowSame, observing, watch, subs, restSame>>

\* The call is recorded only after its request went out.
Record(c) ==
    /\ task[c] = "published"
    /\ Goto(c, "over")
    /\ state' = [state EXCEPT ![c] = "pending"]
    /\ rank' = [rank EXCEPT ![c] = 1 + Cardinality({d \in Call : rank[d] > 0})]
    /\ timer' = [timer EXCEPT ![c] = "sleeping"]
    /\ UNCHANGED <<callVars, asked, attempt, answers, closing, observing, watch, subs, restSame>>

-----------------------------------------------------------------------------
(* The timer task *)

Timer(c, step) == timer' = [timer EXCEPT ![c] = step]
requestSame == <<task, callVars>>

\* Variant: the first send is not counted.
RetrySlotLate(c) == attempt[c] < attempts[c]

\* retry_slot
RetrySlot(c) == attempt[c] + 1 < attempts[c]

TimerFires(c) ==
    /\ timer[c] = "sleeping"
    /\ \/ state[c] # "pending" /\ Timer(c, "off") /\ UNCHANGED attempt
       \/ /\ state[c] = "pending" /\ RetrySlot(c)
          /\ attempt' = [attempt EXCEPT ![c] = @ + 1]
          /\ Timer(c, "retrying")
       \/ /\ state[c] = "pending" /\ ~RetrySlot(c)
          /\ Timer(c, "expiring") /\ UNCHANGED attempt
    /\ UNCHANGED <<requestSame, asked, state, rank, answers, closing, observing, watch, subs,
                   restSame>>

Retry(c) ==
    /\ timer[c] = "retrying"
    /\ Timer(c, "sleeping")
    /\ UNCHANGED <<requestSame, asked, rowVars, closing, observing, watch, subs, restSame>>

\* Variant: a retry that cannot be sent ends the task and not the call.
RetryFailsQuietly(c) ==
    /\ timer[c] = "retrying" /\ "publish" \in Faults
    /\ Timer(c, "off")
    /\ UNCHANGED <<requestSame, asked, rowVars, closing, observing, watch, subs, restSame>>

RetryFails(c) ==
    /\ timer[c] = "retrying" /\ "publish" \in Faults
    /\ Timer(c, "expiring")
    /\ UNCHANGED <<requestSame, asked, rowVars, closing, observing, watch, subs, restSame>>

\* Variant: the verdict reached before the lock was let go is carried out.
ExpireBlindly(c) ==
    /\ timer[c] = "expiring"
    /\ Timer(c, "off")
    /\ Finish(c, "timeout")
    /\ closing' = [closing EXCEPT ![c] = "release"]
    /\ UNCHANGED <<requestSame, asked, rank, attempt, answers, observing, watch, subs, restSame>>

\* The answer may have won the race since the timer looked.
Expire(c) ==
    /\ timer[c] = "expiring"
    /\ Timer(c, "off")
    /\ IF state[c] = "pending"
         THEN Finish(c, "timeout") /\ closing' = [closing EXCEPT ![c] = "release"]
         ELSE UNCHANGED <<state, closing>>
    /\ UNCHANGED <<requestSame, asked, rank, attempt, answers, observing, watch, subs, restSame>>

-----------------------------------------------------------------------------
(* The event loop, disconnect(), and letting go of a topic *)

\* Variant: the first answer closes the topic, however many are awaited.
AnswerCloses(c, d) ==
    /\ answers' = [answers EXCEPT ![d] = @ + 1]
    /\ IF answers[d] + 1 >= expected[d] THEN Finish(d, "resolved") ELSE UNCHANGED state
    /\ closing' = [closing EXCEPT ![d] = "release"]
    /\ observing' = {d}

\* Call d takes an answer to call c; the last one it waits for closes it.
Answer(c, d) ==
    /\ answers' = [answers EXCEPT ![d] = @ + 1]
    /\ IF answers[d] + 1 >= expected[d]
         THEN /\ Finish(d, "resolved")
              /\ closing' = [closing EXCEPT ![d] = "release"]
              /\ observing' = {d}
         ELSE UNCHANGED <<state, closing, observing>>

\* rpc_observe
Observe(c) ==
    /\ c \in asked /\ resp[c] \in subs
    /\ observing = {}
    /\ \E d \in Exact(c) \cup Oldest(c) : Answer(c, d)
    /\ UNCHANGED <<requestSame, asked, rank, attempt, timer, watch, subs, restSame>>

\* disconnect() finishes every open call, and then lets go of their topics.
ExpireAll ==
    /\ "disconnect" \in Faults
    /\ LET open == {c \in Call : state[c] = "pending"} IN
         /\ open # {}
         /\ state' = Trim([c \in Call |-> IF c \in open THEN "timeout" ELSE state[c]])
         /\ closing' = [c \in Call |-> IF c \in open THEN "release" ELSE closing[c]]
    /\ UNCHANGED <<requestSame, asked, rank, attempt, answers, timer, observing, watch, subs,
                   restSame>>

Release(c) ==
    /\ closing[c] = "release"
    /\ watch' = Released(resp[c])
    /\ IF Closes(resp[c])
         THEN closing' = [closing EXCEPT ![c] = "unsubscribe"] /\ UNCHANGED observing
         ELSE closing' = [closing EXCEPT ![c] = "no"] /\ observing' = observing \ {c}
    /\ UNCHANGED <<requestSame, asked, rowSame, subs, restSame>>

Unsubscribe(c) ==
    /\ closing[c] = "unsubscribe"
    /\ closing' = [closing EXCEPT ![c] = "no"]
    /\ observing' = observing \ {c}
    /\ subs' = subs \ {resp[c]}
    /\ UNCHANGED <<requestSame, asked, rowSame, watch, restSame>>

-----------------------------------------------------------------------------
(* rpc_clear_finished *)

clearSame == <<requestSame, asked, rank, attempt, answers, timer, closing, observing, byHand>>

\* It lists the finished calls ...
ClearLists ==
    /\ "clear" \in Faults /\ ~listed /\ dropped = {} /\ shutting = {}
    /\ dropped' = {c \in Call : state[c] \in Finished}
    /\ dropped' # {}
    /\ listed' = TRUE
    /\ UNCHANGED <<clearSame, state, watch, subs, shutting>>

\* ... takes the finished ones off the list, which may be more by now ...
ClearRemoves ==
    /\ listed
    /\ state' = [c \in Call |-> IF state[c] \in Finished THEN "gone" ELSE state[c]]
    /\ listed' = FALSE
    /\ UNCHANGED <<clearSame, watch, subs, dropped, shutting>>

\* ... and releases, once more, the topic of each one it listed.
ClearReleases(c) ==
    /\ ~listed /\ c \in dropped /\ shutting = {}
    /\ dropped' = dropped \ {c}
    /\ watch' = Released(resp[c])
    /\ shutting' = IF Closes(resp[c]) THEN {resp[c]} ELSE {}
    /\ UNCHANGED <<clearSame, state, subs, listed>>

ClearUnsubscribes ==
    /\ shutting # {}
    /\ subs' = subs \ shutting
    /\ shutting' = {}
    /\ UNCHANGED <<clearSame, state, watch, listed, dropped>>

-----------------------------------------------------------------------------
(* Specification *)

Request(c) == Check(c) \/ Subscribe(c) \/ SubscribeFails(c) \/ Acquire(c) \/ Publish(c)
              \/ PublishFails(c) \/ Record(c)

Wait(c) == TimerFires(c) \/ Retry(c) \/ RetryFails(c) \/ Expire(c)

Close(c) == Release(c) \/ Unsubscribe(c)

Clear == ClearLists \/ ClearRemoves \/ ClearUnsubscribes \/ \E c \in Call : ClearReleases(c)

Next == \/ \E c \in Call : Request(c) \/ Wait(c) \/ Close(c) \/ Observe(c)
        \/ ExpireAll
        \/ Clear

Spec == Init /\ [][Next]_vars

\* The tasks of a request that was started keep running, and sleeps end; nobody has to
\* answer, and the user need not start a request.
FairSpec == Spec /\ \A c \in Call : WF_vars((task[c] # "idle" /\ Request(c)) \/ Wait(c))

-----------------------------------------------------------------------------
(* Properties *)

\* A call that needs its response topic: it holds a reference to it and is not finished.
Needs(c, t) == resp[c] = t /\ (task[c] \in {"watching", "published"} \/ state[c] = "pending")

\* While a call waits for answers on a topic of its own, the session subscribes to the
\* topic, whatever is retried, cleared or collected meanwhile (rpc_observe: a broadcast
\* request is not finished just because one answer came).
TopicOpen == \A c \in Call : Needs(c, resp[c]) => resp[c] \in subs

\* When nothing is under way any more and every request got its SUBSCRIBE queued, the
\* session subscribes to what the user subscribed to by hand, no less and no more, and
\* watches nothing (ResponseWatch).
AtRest == /\ \A c \in Call : task[c] \in {"idle", "over"} /\ closing[c] = "no"
                             /\ state[c] # "pending"
          /\ ~listed /\ dropped = {} /\ shutting = {}
NothingLeft == AtRest => subs = byHand /\ \A t \in Topic : watch[t] = NoEntry

\* A finished call is finished: an answer and the timer never both decide it (expire
\* returns None when the reply won the race).
FinishedOnce ==
    [][\A c \in Call : state[c] \in Finished => state'[c] \in {state[c], "gone"}]_vars

\* Every request that went out ends, answered or not, retried or not.
CallsFinish ==
    \A c \in Call : (task[c] = "published") ~> (state[c] \in Finished \cup {"gone"})
=============================================================================
