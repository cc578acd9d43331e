------------------------------ MODULE RunPanels ------------------------------
(***************************************************************************)
(* The three lists of things that run in the backend and are only watched  *)
(* from the front end: load runs (useBench.ts and the lab of               *)
(* TopicTrafficPanel.tsx), scheduled publishes (useSchedules.ts) and       *)
(* request/response calls (useRpc.ts, RpcPanel.tsx).  The front end polls  *)
(* the list, listens to events and issues commands; its copies are as old  *)
(* as the answer they came with, and answers overtake each other.          *)
(* A run is [st, n, err]: its status, what it sent or collected, and       *)
(* whether it tells a reason.  A call that is pending, resolved or timed   *)
(* out is "running", "finished" or "failed".                               *)
(***************************************************************************)
EXTENDS Integers, Sequences, FiniteSets, SequencesExt, Functions

CONSTANTS
    Ids,        \* ids of the runs a behaviour may start
    MaxRuns,    \* MAX_BENCH_RUNS, MAX_ACTIVE_RUNS
    MaxCount,   \* bound on what a run sends
    MaxWaiting, \* bound on the answers and events under way
    MaxClicks   \* bound on what the user does

VARIABLES
    kind,
    runs,      \* the backend's registry
    starting,  \* starts that passed the preflight and are not registered yet
    waiting,   \* answers and events on their way to the front end
    calls,     \* the list as the front end has it
    lastError, \* what the panel says went wrong
    active,    \* the panel is on screen: it polls and listens
    openBody,  \* the row whose answers are unfolded
    clicks

vars == <<kind, runs, starting, waiting, calls, lastError, active, openBody, clicks>>

None == <<>>
NoOne == 0
Kinds == {"bench", "schedule", "rpc"}
Settled == {"finished", "stopped", "failed"}
Fresh == [st |-> "running", n |-> 0, err |-> FALSE]
runningIds(list) == {i \in DOMAIN list : list[i].st = "running"}
With(list, i, r) == [j \in DOMAIN list \cup {i} |-> IF j = i THEN r ELSE list[j]]
Click == clicks < MaxClicks /\ clicks' = clicks + 1 /\ kind' = kind

----------------------------------------------------------------------------
(* What travels to the front end: a whole list, one call, a reason.        *)

\* Variant: what has ended is left out of the answer.
ListOfRunning(on) == [what |-> "list", list |-> Restrict(on, runningIds(on)), id |-> NoOne]

List(on) == [what |-> "list", list |-> on, id |-> NoOne]
Call(i) == [what |-> "call", list |-> [j \in {i} |-> runs'[i]], id |-> i]
Refusal == [what |-> "error", list |-> None, id |-> NoOne]

Send(m) == Len(waiting) < MaxWaiting /\ waiting' = Append(waiting, m)

\* A load run pushes the whole list, a schedule asks for one to be fetched, a call travels alone.
Emit(i) ==
    IF ~active THEN UNCHANGED waiting
    ELSE Send(IF kind = "rpc" THEN Call(i) ELSE List(runs'))

\* Rows of a call: replaced where they are, or put in front.
applyEvent(i, r) == With(calls, i, r)

\* A list that arrives replaces the copy and clears the error line.
Deliver(k) ==
    LET m == waiting[k] IN
    /\ waiting' = RemoveAt(waiting, k)
    /\ calls' = CASE m.what = "list" -> m.list
                  [] m.what = "call" -> applyEvent(m.id, m.list[m.id])
                  [] OTHER -> calls
    /\ lastError' = (IF m.what = "list" THEN FALSE ELSE lastError \/ m.what = "error")
    /\ UNCHANGED <<kind, runs, starting, active, openBody, clicks>>

Refresh ==
    /\ active /\ Send(List(runs))
    /\ UNCHANGED <<kind, runs, starting, calls, lastError, active, openBody, clicks>>

\* The panel appears: it fetches at once; a panel that goes takes its listener along.
setActive ==
    /\ active' = ~active
    /\ IF active THEN UNCHANGED waiting ELSE Send(List(runs))
    /\ Click
    /\ UNCHANGED <<runs, starting, calls, lastError, openBody>>

\* The verdict of a load run with a bar: none of it holds before the run is over.
benchVerdict(r) ==
    IF r.st = "running" THEN "pending" ELSE IF r.st = "failed" \/ r.n < MaxCount THEN "fail" ELSE "pass"

benchRow(r) == [dot |-> r.st, verdict |-> benchVerdict(r), stopButton |-> r.st = "running",
                reason |-> r.err]

----------------------------------------------------------------------------
(* The backend's registry.                                                 *)

\* Messages go out, answers come in.
Progress(i) ==
    /\ runs[i].st = "running" /\ runs[i].n < MaxCount
    /\ runs' = [runs EXCEPT ![i].n = @ + 1]
    /\ Emit(i)
    /\ UNCHANGED <<kind, starting, calls, lastError, active, openBody, clicks>>

Settle(i) ==
    /\ runs[i].st = "running"
    /\ \E st \in Settled \ {"stopped"} :
          runs' = [runs EXCEPT ![i].st = st, ![i].err = (st = "failed")]
    /\ Emit(i)
    /\ UNCHANGED <<kind, starting, calls, lastError, active, openBody, clicks>>

preflight == kind = "rpc" \/ Cardinality(runningIds(runs)) < MaxRuns

\* The answer to a start follows the registration: the call itself, or a fetched list.
start(i) ==
    /\ i \notin DOMAIN runs \cup starting /\ Click
    /\ IF preflight THEN starting' = starting \cup {i} /\ UNCHANGED waiting
                    ELSE Send(Refusal) /\ UNCHANGED starting
    /\ UNCHANGED <<runs, calls, lastError, active, openBody>>

register(i) ==
    /\ i \in starting
    /\ starting' = starting \ {i} /\ runs' = With(runs, i, Fresh)
    /\ Send(IF kind = "rpc" THEN Call(i) ELSE List(runs'))
    /\ UNCHANGED <<kind, calls, lastError, active, openBody, clicks>>

\* The connection went: no client to publish with.
startFails(i) ==
    /\ i \in starting /\ kind # "schedule"
    /\ starting' = starting \ {i} /\ Send(Refusal)
    /\ UNCHANGED <<kind, runs, calls, lastError, active, openBody, clicks>>

bench_stop(i) == runs' = [runs EXCEPT ![i].st = "stopped", ![i].err = FALSE]
schedule_stop(i) == runs' = IF runs[i].st = "running" THEN [runs EXCEPT ![i].st = "stopped"] ELSE runs

\* The button stands beside a row the panel still shows as running.
stop(i) ==
    /\ kind # "rpc" /\ i \in DOMAIN calls /\ benchRow(calls[i]).stopButton /\ Click
    /\ IF i \notin DOMAIN runs THEN UNCHANGED runs /\ Send(Refusal)
       ELSE /\ IF kind = "bench" THEN bench_stop(i) ELSE schedule_stop(i)
            /\ Send(List(runs'))
    /\ UNCHANGED <<starting, calls, lastError, active, openBody>>

\* Every schedule the panel shows as running; one that is gone fails the whole wait.
stopAll ==
    /\ kind = "schedule" /\ runningIds(calls) # {} /\ Click
    /\ runs' = [i \in DOMAIN runs |->
                  IF i \in runningIds(calls) /\ runs[i].st = "running"
                    THEN [runs[i] EXCEPT !.st = "stopped"] ELSE runs[i]]
    /\ IF runningIds(calls) \subseteq DOMAIN runs THEN Send(List(runs')) ELSE UNCHANGED waiting
    /\ UNCHANGED <<starting, calls, lastError, active, openBody>>

hasFinished == \E i \in DOMAIN calls : calls[i].st \in Settled

clearFinished ==
    /\ hasFinished /\ Click
    /\ runs' = Restrict(runs, runningIds(runs)) /\ Send(List(runs'))
    /\ UNCHANGED <<starting, calls, lastError, active, openBody>>

----------------------------------------------------------------------------
(* The rows.                                                               *)

\* A broadcast that collected some answers did not get "no reply".
rpcLabel(r) == IF r.st = "failed" /\ r.n > 0 THEN "partial" ELSE r.st

bodiesOf(r) == r.n

rpcRow(i) == [label |-> rpcLabel(calls[i]), bodies |-> bodiesOf(calls[i]),
              expanded |-> openBody = i /\ bodiesOf(calls[i]) > 0]

toggleBody(i) ==
    /\ kind = "rpc" /\ i \in DOMAIN calls /\ rpcRow(i).bodies > 0 /\ Click
    /\ openBody' = (IF openBody = i THEN NoOne ELSE i)
    /\ UNCHANGED <<runs, starting, waiting, calls, lastError, active>>

Init ==
    /\ kind \in Kinds
    /\ runs = None /\ starting = {} /\ waiting = <<List(None)>> /\ calls = None /\ lastError = FALSE
    /\ active = TRUE /\ openBody = NoOne /\ clicks = 0

DeliverFirst == waiting # <<>> /\ Deliver(1)

Next ==
    \/ \E k \in DOMAIN waiting : Deliver(k)
    \/ \E i \in DOMAIN runs : Progress(i) \/ Settle(i)
    \/ \E i \in Ids : start(i) \/ register(i) \/ startFails(i) \/ stop(i) \/ toggleBody(i)
    \/ Refresh \/ setActive \/ stopAll \/ clearFinished

\* The timer of a panel on screen fires again and again; the oldest message arrives.
Spec == Init /\ [][Next]_vars /\ WF_vars(Refresh) /\ WF_vars(DeliverFirst)

\* Whatever answers overtook each other: a panel that stays on screen while nothing happens
\* in the backend ends up showing the backend's list.
OnScreen == active /\ starting = {}
NothingHappens == UNCHANGED runs
CaughtUp == calls = runs
ListCatchesUp == (<>[]OnScreen /\ <>[][NothingHappens]_vars) => <>[]CaughtUp
=============================================================================
