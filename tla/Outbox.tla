------------------------------- MODULE Outbox -------------------------------
(***************************************************************************)
(* The webhook outbox: what a failed POST leaves in the queue on disk, and *)
(* the pump that tries it again (src/src-tauri/src/outbox.rs, bridge.rs,   *)
(* webhook.rs), for one rule with several sinks.                           *)
(*                                                                         *)
(* The pump reads the rows that are due, with their attempts, and starts   *)
(* deliveries on tasks of their own.  Nothing marks a row whose delivery   *)
(* is under way: the next tick reads it again, and each delivery records   *)
(* its result from the copy it was started with.                           *)
(*                                                                         *)
(* The front end keeps the rule and pushes it after every change and after *)
(* a start; the backend forgets it when the process ends.  A row names its *)
(* sink by position.  Position 1 is the primary webhook (index 0 in the    *)
(* code).                                                                  *)
(***************************************************************************)
EXTENDS Integers, FiniteSets, Sequences, SequencesExt

CONSTANTS
    Entry,       \* messages, one for each sink they go to
    Width,       \* sinks the rule starts with (up to 8 in the code), named by their positions
    MaxAttempts, \* MAX_ATTEMPTS (8 in the code)
    Slots,       \* webhook_slots (4 in the code)
    MaxMishaps,  \* bound on restarts, disk errors and edits of the rule
    Faults       \* what may go wrong

FaultKinds == {"restart", "disk", "edit"}

ASSUME OutboxAssumption ==
    /\ Width \in Nat \ {0}
    /\ MaxAttempts \in Nat \ {0} /\ Slots \in Nat \ {0} /\ MaxMishaps \in Nat
    /\ Faults \subseteq FaultKinds

VARIABLES
    fate,    \* what became of each message; "queued" is whatever its row says
    row,     \* its row of the table
    target,  \* position of the sink it goes to (target_index)
    owed,    \* that sink when the message came, which is not stored
    tries,   \* retries that failed since the row is there, up to MaxAttempts
    excused, \* messages the pump did not try because it had no rule or no sink for them
    batch,   \* rows the pump read as due and has not looked at yet
    permits, \* webhook_slots: free ones
    flying,  \* how many deliveries of each kind are under way
    rule,    \* BridgeManager.rules
    setting, \* the rule in the front end
    mishaps

history == <<target, owed, tries, excused>>
vars == <<fate, row, history, batch, permits, flying, rule, setting, mishaps>>

Sink == 1 .. Width

Blank == 0  \* no address

NoRow == [state |-> "none", attempts |-> 0, due |-> FALSE]

Rows == {NoRow} \cup [state : {"pending"}, attempts : 0 .. MaxAttempts - 1, due : BOOLEAN]
                \cup [state : {"dead"}, attempts : {MaxAttempts}, due : {FALSE}]

Copies == [entry : Entry, attempts : 0 .. MaxAttempts - 1]

Flights == [kind : {"first", "retry"}, entry : Entry, attempts : 0 .. MaxAttempts - 1, sink : Sink]

UnderWay == {f \in Flights : flying[f] > 0}

Rules == [mode : {"on", "off", "removed"}, sinks : Seq(Sink \cup {Blank})]

TypeOK ==
    /\ fate \in [Entry -> {"new", "refused", "trying", "lost", "queued", "delivered", "discarded"}]
    /\ row \in [Entry -> Rows]
    /\ target \in [Entry -> Nat] /\ owed \in [Entry -> Sink \cup {Blank}]
    /\ tries \in [Entry -> 0 .. MaxAttempts] /\ excused \subseteq Entry
    /\ batch \subseteq Copies /\ permits \in Nat /\ flying \in [Flights -> Nat]
    /\ rule \in Rules /\ setting \in Rules
    /\ mishaps \in 0 .. MaxMishaps

Init ==
    /\ fate = [e \in Entry |-> "new"] /\ row = [e \in Entry |-> NoRow]
    /\ target = [e \in Entry |-> 0] /\ owed = [e \in Entry |-> Blank]
    /\ tries = [e \in Entry |-> 0] /\ excused = {}
    /\ batch = {} /\ permits = Slots /\ flying = [f \in Flights |-> 0]
    /\ rule = [mode |-> "on", sinks |-> [i \in Sink |-> i]] /\ setting = rule
    /\ mishaps = 0

Mishap(kind) == kind \in Faults /\ mishaps < MaxMishaps /\ mishaps' = mishaps + 1

\* sink_at: a position the rule has lost, and a cleared primary, are no sink.
SinkAt(i) == IF i \in DOMAIN rule.sinks THEN rule.sinks[i] ELSE Blank

\* A permit is taken, or given back, with the task that holds it.
Launch(f) ==
    /\ permits > 0 /\ permits' = permits - 1
    /\ flying' = [flying EXCEPT ![f] = @ + 1]

Land(f) ==
    /\ permits' = permits + 1
    /\ flying' = [flying EXCEPT ![f] = @ - 1]

-----------------------------------------------------------------------------
(* The table *)

\* Variant: the row is written whether it is still there or not.
RecordFailureUpserts(e, n) ==
    row' = [row EXCEPT ![e] = [state |-> IF n + 1 >= MaxAttempts THEN "dead" ELSE "pending",
                               attempts |-> n + 1, due |-> FALSE]]

\* Variant: nothing is given up on.
RecordFailureNeverDead(e, n) ==
    row' = [row EXCEPT ![e] =
        IF @ = NoRow THEN @ ELSE [state |-> "pending", attempts |-> n + 1, due |-> FALSE]]

\* Variant: the failure is not counted.
RecordFailureUncounted(e, n) ==
    row' = [row EXCEPT ![e] =
        IF @ = NoRow THEN @ ELSE [state |-> "pending", attempts |-> n, due |-> FALSE]]

\* record_failure: the row of e, if there still is one, after the failure of a delivery
\* that was started when the row had n attempts.
RecordFailure(e, n) ==
    row' = [row EXCEPT ![e] =
        IF @ = NoRow THEN @
        ELSE [state |-> IF n + 1 >= MaxAttempts THEN "dead" ELSE "pending",
              attempts |-> n + 1, due |-> FALSE]]

-----------------------------------------------------------------------------
(* A message arrives *)

Arrive(e) ==
    /\ fate[e] = "new" /\ rule.mode = "on"
    /\ \E i \in DOMAIN rule.sinks :
         /\ SinkAt(i) # Blank
         /\ target' = [target EXCEPT ![e] = i]
         /\ owed' = [owed EXCEPT ![e] = SinkAt(i)]
         /\ Launch([kind |-> "first", entry |-> e, attempts |-> 0, sink |-> SinkAt(i)])
    /\ fate' = [fate EXCEPT ![e] = "trying"]
    /\ UNCHANGED <<row, tries, excused, batch, rule, setting, mishaps>>

\* No slot is free: the message is counted as dropped.
ArriveRefused(e) ==
    /\ fate[e] = "new" /\ rule.mode = "on" /\ permits = 0
    /\ \E i \in DOMAIN rule.sinks : SinkAt(i) # Blank
    /\ fate' = [fate EXCEPT ![e] = "refused"]
    /\ UNCHANGED <<row, history, batch, permits, flying, rule, setting, mishaps>>

landSame == <<target, owed, excused, batch, rule, setting>>

FirstOk(f) ==
    /\ f.kind = "first"
    /\ Land(f)
    /\ fate' = [fate EXCEPT ![f.entry] = "delivered"]
    /\ UNCHANGED <<row, tries, landSame, mishaps>>

\* Variant: the first delivery counts as a retry.
FirstFailsCounted(f) ==
    /\ f.kind = "first"
    /\ Land(f)
    /\ fate' = [fate EXCEPT ![f.entry] = "queued"]
    /\ row' = [row EXCEPT ![f.entry] =
                [state |-> "pending", attempts |-> 1, due |-> FALSE]]
    /\ UNCHANGED <<tries, landSame, mishaps>>

\* enqueue
FirstFails(f) ==
    /\ f.kind = "first"
    /\ Land(f)
    /\ fate' = [fate EXCEPT ![f.entry] = "queued"]
    /\ row' = [row EXCEPT ![f.entry] =
                [state |-> "pending", attempts |-> 0, due |-> FALSE]]
    /\ UNCHANGED <<tries, landSame, mishaps>>

\* The disk does not take the row, and the error is dropped.
FirstFailsUnqueued(f) ==
    /\ f.kind = "first" /\ Mishap("disk")
    /\ Land(f)
    /\ fate' = [fate EXCEPT ![f.entry] = "lost"]
    /\ UNCHANGED <<row, tries, landSame>>

-----------------------------------------------------------------------------
(* The pump *)

\* A tick reads what is due.
PumpStarts ==
    /\ batch = {}
    /\ batch' = {[entry |-> e, attempts |-> row[e].attempts] : e \in {d \in Entry : row[d].due}}
    /\ UNCHANGED <<fate, row, history, permits, flying, rule, setting, mishaps>>

Looked(b) == batch' = batch \ {b}
pumpSame == <<fate, target, owed, tries, rule, setting>>

\* The rule or the sink is gone: the row is given up on.  A rule that is off costs an attempt.
PumpUnfit(b) ==
    /\ b \in batch
    /\ \/ /\ rule.mode = "off" /\ RecordFailure(b.entry, b.attempts)
       \/ /\ rule.mode = "removed" \/ (rule.mode = "on" /\ SinkAt(target[b.entry]) = Blank)
          /\ RecordFailure(b.entry, MaxAttempts - 1)
    /\ excused' = excused \cup {b.entry}
    /\ Looked(b)
    /\ UNCHANGED <<pumpSame, permits, flying, mishaps>>

\* The result cannot be written: the row stays as it is, and due.
PumpUnfitUnwritten(b) ==
    /\ b \in batch /\ Mishap("disk")
    /\ rule.mode # "on" \/ SinkAt(target[b.entry]) = Blank
    /\ Looked(b)
    /\ UNCHANGED <<pumpSame, excused, row, permits, flying>>

Fit(b) == b \in batch /\ rule.mode = "on" /\ SinkAt(target[b.entry]) # Blank

PumpSends(b) ==
    /\ Fit(b)
    /\ Launch([kind |-> "retry", entry |-> b.entry, attempts |-> b.attempts,
               sink |-> SinkAt(target[b.entry])])
    /\ Looked(b)
    /\ UNCHANGED <<pumpSame, excused, row, mishaps>>

\* No slot is free: it is still due on the next tick.
PumpSkips(b) ==
    /\ Fit(b) /\ permits = 0
    /\ Looked(b)
    /\ UNCHANGED <<pumpSame, excused, row, permits, flying, mishaps>>

Pump(b) == PumpUnfit(b) \/ PumpSends(b) \/ PumpSkips(b)

-----------------------------------------------------------------------------
(* A retry ends *)

\* record_success: whoever delivers it first takes the row out.
RetryOk(f) ==
    /\ f.kind = "retry"
    /\ Land(f)
    /\ row' = [row EXCEPT ![f.entry] = NoRow]
    /\ tries' = [tries EXCEPT ![f.entry] = 0]
    /\ fate' = [fate EXCEPT ![f.entry] = IF @ = "queued" THEN "delivered" ELSE @]
    /\ UNCHANGED <<landSame, mishaps>>

RetryFails(f) ==
    /\ f.kind = "retry"
    /\ Land(f)
    /\ RecordFailure(f.entry, f.attempts)
    /\ tries' = [tries EXCEPT ![f.entry] =
                    IF row[f.entry] # NoRow /\ @ < MaxAttempts THEN @ + 1 ELSE @]
    /\ UNCHANGED <<fate, landSame, mishaps>>

\* The result, good or bad, cannot be written: the row stays as it is, and due.
RetryUnwritten(f) ==
    /\ f.kind = "retry" /\ Mishap("disk")
    /\ Land(f)
    /\ UNCHANGED <<fate, row, tries, landSame>>

-----------------------------------------------------------------------------
(* Time, the user and the process *)

tableSame == <<target, owed, excused, batch, permits, flying, rule, setting, mishaps>>

\* The backoff of a row is over.
Elapse(e) ==
    /\ row[e].state = "pending" /\ ~row[e].due
    /\ row' = [row EXCEPT ![e].due = TRUE]
    /\ UNCHANGED <<fate, tries, tableSame>>

\* flush_now
Flush ==
    /\ row' = [e \in Entry |-> [row[e] EXCEPT !.due = row[e].state = "pending"]]
    /\ UNCHANGED <<fate, tries, tableSame>>

\* drop_dead
DropDead ==
    /\ row' = [e \in Entry |-> IF row[e].state = "dead" THEN NoRow ELSE row[e]]
    /\ fate' = [e \in Entry |-> IF row[e].state = "dead" THEN "discarded" ELSE fate[e]]
    /\ tries' = [e \in Entry |-> IF row[e].state = "dead" THEN 0 ELSE tries[e]]
    /\ UNCHANGED tableSame

\* The user switches the rule on or off, removes it, clears the primary webhook or removes
\* an extra sink; what the form shows is what the front end keeps.
EditRule ==
    /\ Mishap("edit") /\ setting.mode # "removed"
    /\ \/ \E m \in {"on", "off", "removed"} : setting' = [setting EXCEPT !.mode = m]
       \/ /\ Len(setting.sinks) > 1
          /\ setting' = [setting EXCEPT !.sinks[1] = Blank]
       \/ \E i \in 2 .. Len(setting.sinks) : setting' = [setting EXCEPT !.sinks = RemoveAt(@, i)]
    /\ UNCHANGED <<fate, row, history, batch, permits, flying, rule>>

\* sync_rules, which refuses a rule that is on and has no sink (rule_error).
SyncRules ==
    /\ setting.mode = "on" => \E i \in DOMAIN setting.sinks : setting.sinks[i] # Blank
    /\ rule' = setting
    /\ UNCHANGED <<fate, row, history, batch, permits, flying, setting, mishaps>>

\* The process ends and is started again, without the rules: the front end pushes them when
\* it has loaded, which may be after the pump's first tick, and to the pump a rule that is not
\* there yet is one that was removed.
Restart ==
    /\ Mishap("restart")
    /\ fate' = [e \in Entry |-> IF fate[e] = "trying" THEN "lost" ELSE fate[e]]
    /\ batch' = {} /\ permits' = Slots /\ flying' = [f \in Flights |-> 0]
    /\ rule' = [mode |-> "removed", sinks |-> <<>>]
    /\ UNCHANGED <<row, history, setting>>

-----------------------------------------------------------------------------
(* Specification *)

End(f) == FirstOk(f) \/ FirstFails(f) \/ RetryOk(f) \/ RetryFails(f)

Unwritten(f) == FirstFailsUnqueued(f) \/ RetryUnwritten(f)

Next == \/ \E e \in Entry : Arrive(e) \/ ArriveRefused(e) \/ Elapse(e)
        \/ PumpStarts
        \/ \E b \in batch : Pump(b) \/ PumpUnfitUnwritten(b)
        \/ \E f \in UnderWay : End(f) \/ Unwritten(f)
        \/ Flush \/ DropDead \/ EditRule \/ SyncRules \/ Restart

Spec == Init /\ [][Next]_vars

\* The pump ticks and works through what it read, a POST is answered or times out, and
\* backoffs end.  (A tick reads up to 32 rows, MAX_DUE_PER_TICK; here there are fewer.)
FairSpec ==
    /\ Spec
    /\ WF_vars(PumpStarts) /\ WF_vars(\E b \in batch : Pump(b))
    /\ WF_vars(\E f \in UnderWay : End(f)) /\ WF_vars(\E e \in Entry : Elapse(e))

-----------------------------------------------------------------------------
(* Properties *)

\* The pump gives up on a message only after MAX_ATTEMPTS retries of it have failed, however
\* deliveries of one row overlap, unless it found the rule or the sink gone, or the rule
\* switched off (record_failure, outbox.rs).
DeadHadItsTries ==
    \A e \in Entry : row[e].state = "dead" => tries[e] = MaxAttempts \/ e \in excused

\* A queued message is not owed for ever: it is delivered, or becomes a dead letter, although
\* overlapping deliveries put back each other's count of attempts.
EveryDebtSettles ==
    \A e \in Entry : (row[e].state = "pending") ~> (row[e].state # "pending")

\* A message is only ever posted to the sink it was meant for (sink_at: a queued entry never
\* moves to a different sink).
NeverMoves ==
    \A f \in UnderWay : f.sink = owed[f.entry]

\* What WebhookDebt says of a message of which the code says this.
PhaseOf(f, r) == IF f # "queued" THEN f ELSE IF r.state = "dead" THEN "dead" ELSE "owed"

phase == [e \in Entry |-> PhaseOf(fate[e], row[e])]

Debt == INSTANCE WebhookDebt WITH Entry <- Entry, phase <- phase

\* The queue keeps the promise of WebhookDebt: a message that is owed stays owed until it is
\* delivered or given up on, through restarts and overlapping deliveries, and what was
\* delivered or discarded is not owed again.
DebtSpec == Debt!Spec
=============================================================================
