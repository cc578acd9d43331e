----------------------------- MODULE RulePanels -----------------------------
(***************************************************************************)
(* The four rule sets the user edits: faults, silence, responder and       *)
(* assertions (useFaults.ts, useSilence.ts, useResponder.ts,               *)
(* useAssertions.ts and their panels).  The front end owns the set, stores *)
(* every change and pushes the whole set with it; the backend takes a set  *)
(* whole or refuses it whole.  The commands are asynchronous on both       *)
(* sides: two pushes, or a push and a poll, overtake each other.           *)
(* A rule is [id, on, ok], ok the backend's judgement of its fields.       *)
(***************************************************************************)
EXTENDS Integers, Sequences, FiniteSets, SequencesExt, FiniteSetsExt

CONSTANTS
    Ids,        \* ids newId() hands out, in order: 1 .. n
    MaxRules,   \* MAX_RULES of the backend's engines
    AlertCap,   \* ALERT_LOG_CAP (80)
    MaxSeen,    \* bound on the messages a rule counts
    MaxWaiting, \* bound on the commands and on the answers under way
    MaxClicks   \* bound on what the user does

VARIABLES
    kind,       \* which of the four sets this is
    rules,      \* the stored set
    pushes,     \* whole sets on their way to the backend
    armed, seen, \* the backend: the set it works with, messages counted per rule
    answers,    \* answers of pushes on their way back
    polled,     \* and those of polls and resets: [reset, stats]
    stats, lastError, \* what the answers left in the hook
    visible,
    confirmId,  \* the rule whose delete button was pressed once
    form,       \* the open form: a rule being written
    saving,     \* the form as it was submitted, while the save waits
    formError, alerts,
    overlapped, \* history: a push was sent while another was under way
    clicks

hook == <<rules, pushes, overlapped>>
backend == <<armed, seen>>
replies == <<answers, polled>>
shown == <<stats, lastError>>
panel == <<confirmId, form, saving, formError>>
vars == <<kind, hook, backend, replies, shown, visible, panel, alerts, clicks>>

None == <<>>
Kinds == {"faults", "silence", "responder", "assertions"}

faultRule(i) == [id |-> i, on |-> TRUE, ok |-> TRUE]
responderRule(i) == [id |-> i, on |-> TRUE, ok |-> TRUE]
silenceRule(i) == [id |-> i, on |-> TRUE, ok |-> FALSE] \* blank until filled in
assertionDraft(i) == [id |-> i, on |-> TRUE, ok |-> FALSE]

At(id) == CHOOSE i \in DOMAIN rules : rules[i].id = id
HasId(id) == \E i \in DOMAIN rules : rules[i].id = id
Unused == Ids \ ({rules[i].id : i \in DOMAIN rules} \cup IF form = None THEN {} ELSE {form[1].id})
newId == Min(Unused)
Counted(set) == {set[i].id : i \in DOMAIN set}
Click == clicks < MaxClicks /\ clicks' = clicks + 1 /\ kind' = kind

----------------------------------------------------------------------------
(* The hooks.                                                              *)

\* Every change is stored and pushed whole.
setRules(new) ==
    /\ Len(pushes) < MaxWaiting
    /\ rules' = new
    /\ pushes' = Append(pushes, new)
    /\ overlapped' = (overlapped \/ pushes # <<>> \/ answers # <<>>)

addRule(r) == setRules(Append(rules, r))
updateRule(r) == setRules([i \in DOMAIN rules |-> IF rules[i].id = r.id THEN r ELSE rules[i]])
removeRule(id) == setRules(SelectSeq(rules, LAMBDA r : r.id # id))
toggleRule(id) == setRules([rules EXCEPT ![At(id)].on = ~@])

Acceptable(set) ==
    /\ Len(set) <= MaxRules \/ kind = "silence"
    /\ \A i \in DOMAIN set : set[i].ok
    /\ IsInjective([i \in DOMAIN set |-> set[i].id])

Room == Len(answers) + Len(polled) < MaxWaiting
Answered(err, s) == Append(answers, [err |-> err, stats |-> s])

\* A set is armed whole, in whatever order pushes run; faults and responder count anew.
sync_rules(i) ==
    LET set == pushes[i]
        fresh == [id \in Counted(set) |->
                    IF kind = "assertions" /\ id \in DOMAIN seen THEN seen[id] ELSE 0]
    IN  /\ Room
        /\ pushes' = RemoveAt(pushes, i)
        /\ IF Acceptable(set)
             THEN armed' = set /\ seen' = fresh /\ answers' = Answered(FALSE, fresh)
             ELSE UNCHANGED backend /\ answers' = Answered(TRUE, None)
        /\ UNCHANGED <<kind, rules, overlapped, polled, shown, visible, panel, alerts, clicks>>

Message(id) ==
    /\ id \in DOMAIN seen /\ seen[id] < MaxSeen
    /\ \E i \in DOMAIN armed : armed[i].id = id /\ armed[i].on
    /\ seen' = [seen EXCEPT ![id] = @ + 1]
    /\ UNCHANGED <<kind, hook, armed, replies, shown, visible, panel, alerts, clicks>>

\* Once a second while the panel is on screen; a violation asks at once.
Poll ==
    /\ visible /\ kind # "silence" /\ Room
    /\ polled' = Append(polled, [reset |-> FALSE, stats |-> seen])
    /\ UNCHANGED <<kind, hook, backend, answers, shown, visible, panel, alerts, clicks>>

\* Variant: a refused set leaves no trace.
ApplyQuietly(a) ==
    /\ stats' = IF a.err \/ kind = "silence" THEN stats ELSE a.stats
    /\ lastError' = FALSE

\* Silence keeps no counts.
Apply(a) ==
    /\ stats' = IF a.err \/ kind = "silence" THEN stats ELSE a.stats
    /\ lastError' = a.err

Answer(i) ==
    /\ Apply(answers[i])
    /\ answers' = RemoveAt(answers, i)
    /\ UNCHANGED <<kind, hook, backend, polled, visible, panel, alerts, clicks>>

\* Only the answer of a push clears an error.
Polled(i) ==
    /\ stats' = polled[i].stats /\ polled' = RemoveAt(polled, i)
    /\ UNCHANGED <<kind, hook, backend, answers, lastError, visible, panel, alerts, clicks>>

\* A reply that could not be published reaches the panel as an error of its own.
ResponderError ==
    /\ kind = "responder" /\ visible /\ ~lastError /\ lastError' = TRUE
    /\ UNCHANGED <<kind, hook, backend, replies, stats, visible, panel, alerts, clicks>>

SilenceAlert(id) ==
    /\ kind = "silence" /\ visible /\ id \in Counted(armed) /\ Len(alerts) < MaxSeen + AlertCap
    /\ LET next == Append(alerts, id)
       IN  alerts' = IF Len(next) > AlertCap THEN Tail(next) ELSE next
    /\ UNCHANGED <<kind, hook, backend, replies, shown, visible, panel, clicks>>

\* Answers of polls that reach a hidden panel are dropped.
setVisible ==
    /\ kind # "silence"
    /\ visible' = ~visible /\ Click
    /\ polled' = IF visible THEN SelectSeq(polled, LAMBDA a : a.reset) ELSE polled
    /\ UNCHANGED <<hook, backend, answers, shown, panel, alerts>>

\* Offered once something was counted; the answer carries the zeroed counts.
reset ==
    /\ kind # "silence" /\ \E id \in DOMAIN stats : stats[id] > 0
    /\ Room
    /\ seen' = [id \in DOMAIN seen |-> 0]
    /\ polled' = Append(polled, [reset |-> TRUE, stats |-> seen']) /\ Click
    /\ UNCHANGED <<hook, armed, answers, shown, visible, panel, alerts>>

clearAlerts ==
    /\ alerts # <<>> /\ alerts' = <<>> /\ Click
    /\ UNCHANGED <<hook, backend, replies, shown, visible, panel>>

----------------------------------------------------------------------------
(* The panels.                                                             *)

Idle == UNCHANGED <<backend, replies, shown, visible, alerts>>

\* A rule is valid on arrival, or the set it joins would be refused with it.
add ==
    /\ kind \in {"faults", "responder"} /\ Unused # {}
    /\ addRule(IF kind = "faults" THEN faultRule(newId) ELSE responderRule(newId))
    /\ formError' = FALSE /\ Click /\ Idle
    /\ UNCHANGED <<confirmId, form, saving>>

\* An edit of a fault that leaves every knob at zero is refused on the spot.
patchFault(id, knob, ok) ==
    /\ kind = "faults" /\ HasId(id)
    /\ IF ~knob THEN formError' = TRUE /\ UNCHANGED hook
       ELSE formError' = FALSE /\ updateRule([rules[At(id)] EXCEPT !.ok = ok])
    /\ Click /\ Idle
    /\ UNCHANGED <<confirmId, form, saving>>

\* The responder's fields are pushed as typed.
patchResponder(id, ok) ==
    /\ kind = "responder" /\ HasId(id)
    /\ updateRule([rules[At(id)] EXCEPT !.ok = ok]) /\ Click /\ Idle
    /\ UNCHANGED panel

toggle(id) == HasId(id) /\ toggleRule(id) /\ Click /\ Idle /\ UNCHANGED panel

\* Two clicks delete, one for a silence rule.
remove(id) ==
    /\ HasId(id)
    /\ IF kind = "silence" THEN removeRule(id) /\ UNCHANGED confirmId
       ELSE IF confirmId = <<id>> THEN removeRule(id) /\ confirmId' = None
       ELSE confirmId' = <<id>> /\ UNCHANGED hook
    /\ Click /\ Idle
    /\ UNCHANGED <<form, saving, formError>>

\* The forms of a silence rule (new or existing) and of an assertion (new).
openForm(r) ==
    /\ form' = <<r>> /\ formError' = FALSE /\ Click /\ Idle
    /\ UNCHANGED <<hook, confirmId, saving>>

startSilence == \/ Unused # {} /\ openForm(silenceRule(newId))
                \/ \E i \in DOMAIN rules : openForm(rules[i])
startAssertion == Unused # {} /\ openForm(assertionDraft(newId))

edit(ok) ==
    /\ form # None
    /\ form' = <<[form[1] EXCEPT !.ok = ok]>> /\ Click /\ Idle
    /\ UNCHANGED <<hook, confirmId, saving, formError>>

cancel ==
    /\ form # None /\ form' = None /\ Click /\ Idle
    /\ UNCHANGED <<hook, confirmId, saving, formError>>

canSubmit == form # None /\ saving = None

\* Fields missing: the form says so and nothing is sent.
submit ==
    /\ canSubmit
    /\ IF form[1].ok THEN saving' = form /\ UNCHANGED formError
       ELSE kind = "silence" /\ formError' = TRUE /\ UNCHANGED saving
    /\ Click /\ Idle
    /\ UNCHANGED <<hook, confirmId, form>>

\* The keychain stored the credentials, or refused; whatever form is open is closed.
planHeaders(stored) ==
    /\ kind = "silence" /\ saving # None
    /\ saving' = None
    /\ IF stored THEN /\ form' = None /\ UNCHANGED formError
                      /\ IF HasId(saving[1].id) THEN updateRule(saving[1]) ELSE addRule(saving[1])
       ELSE formError' = TRUE /\ UNCHANGED <<hook, form>>
    /\ Idle
    /\ UNCHANGED <<kind, confirmId, clicks>>

\* The backend parses the line before the rule joins the set.
assertions_parse_rule(parsed) ==
    /\ kind = "assertions" /\ saving # None
    /\ saving' = None
    /\ IF parsed THEN addRule(saving[1]) /\ form' = None /\ formError' = FALSE
       ELSE formError' = TRUE /\ UNCHANGED <<hook, form>>
    /\ Idle
    /\ UNCHANGED <<kind, confirmId, clicks>>

----------------------------------------------------------------------------
(* What the panels tell.                                                   *)

enabledCount == Cardinality({i \in DOMAIN rules : rules[i].on})

\* Faults and responder count the stored rules that are on, assertions what the backend armed.
armedChip == IF kind = "assertions" THEN Cardinality(DOMAIN stats) ELSE enabledCount

faultView ==
    [chip |-> armedChip, total |-> Len(rules), warning |-> enabledCount > 0,
     error |-> IF formError THEN "form" ELSE IF lastError THEN "previous set kept" ELSE "none",
     counts |-> [i \in DOMAIN rules |-> IF rules[i].id \in DOMAIN stats THEN stats[rules[i].id] ELSE -1]]

responderView == [faultView EXCEPT !.error = IF lastError THEN "previous set kept" ELSE "none"]
assertionView == [faultView EXCEPT !.warning = armedChip = 0]
silenceView == [faultView EXCEPT !.error = IF formError \/ lastError THEN "error" ELSE "none"]

view == CASE kind = "faults" -> faultView [] kind = "responder" -> responderView
          [] kind = "assertions" -> assertionView [] OTHER -> silenceView

Init ==
    /\ kind \in Kinds
    /\ rules \in {<<>>, <<[id |-> 1, on |-> TRUE, ok |-> TRUE]>>, <<[id |-> 1, on |-> TRUE, ok |-> FALSE]>>}
    /\ pushes = <<rules>> /\ overlapped = FALSE
    /\ armed = <<>> /\ seen = None /\ answers = <<>> /\ polled = <<>> /\ stats = None /\ lastError = FALSE
    /\ visible = TRUE /\ confirmId = None /\ form = None /\ saving = None /\ formError = FALSE
    /\ alerts = <<>> /\ clicks = 0

Next ==
    \/ \E i \in DOMAIN pushes : sync_rules(i)
    \/ \E i \in DOMAIN answers : Answer(i)
    \/ \E i \in DOMAIN polled : Polled(i)
    \/ Poll \/ ResponderError \/ setVisible \/ reset \/ clearAlerts \/ add
    \/ \E id \in Ids : Message(id) \/ SilenceAlert(id) \/ toggle(id) \/ remove(id)
    \/ \E id \in Ids, ok, knob \in BOOLEAN : patchFault(id, knob, ok) \/ patchResponder(id, ok)
    \/ (kind = "silence" /\ startSilence) \/ (kind = "assertions" /\ startAssertion)
    \/ \E b \in BOOLEAN : edit(b) \/ planHeaders(b) \/ assertions_parse_rule(b)
    \/ cancel \/ submit

Spec == Init /\ [][Next]_vars

Settled == pushes = <<>> /\ answers = <<>>

\* When the last push was answered, the backend works with the set the panel lists, rule for
\* rule, or the panel says that the previous set was kept, provided no push was sent before
\* the one before it was answered.
ArmedOrSaidInOrder == Settled /\ ~overlapped => armed = rules \/ view.error # "none"
=============================================================================
