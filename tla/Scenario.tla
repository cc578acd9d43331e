------------------------------ MODULE Scenario ------------------------------
(***************************************************************************)
(* The acceptance scenario (utils/scenario, ScenarioPanel): subscriptions, *)
(* responder rules, assertions and watchdogs in one file, applied to the   *)
(* rig and judged by what the rig did.                                     *)
(*                                                                         *)
(* The judgement is the backend's (scenario.rs, verdict.rs) and comes some *)
(* time after it was asked for, in any order.                              *)
(***************************************************************************)
EXTENDS Integers, Sequences, FiniteSets, SequencesExt, FiniteSetsExt

CONSTANTS
    Docs,       \* the files that may come with a ticket
    Rule,       \* what a responder rule or an assertion can be
    Tallies,    \* what the assertions may have counted
    MaxAsked,   \* bound: judgements asked for
    MaxClicks   \* bound: what the user does

VARIABLES
    rig,        \* the sets the console runs with
    evidence,   \* what the assertions counted, and how many subscriptions were refused
    isV5,
    open,       \* the console mode is on the screen
    panel,      \* what the panel shows
    asked,      \* the judgements under way, and the last that was asked for
    writing,    \* the files under way
    saved,      \* the last scenario that was written, as a sequence of at most one
    clicks

vars == <<rig, evidence, isV5, open, panel, asked, writing, saved, clicks>>

None == <<>>
Broken == "broken"      \* an entry without the fields that make it one

-----------------------------------------------------------------------------
(* The file                                                                *)

Doc(read, subs, responders, assertions, silence, bench) ==
    [read |-> read, subs |-> subs, responders |-> responders, assertions |-> assertions, silence |-> silence,
     bench |-> bench]

\* The rig as a file: whatever the watchdogs call stays at home.
collectScenario(silence) ==
    Doc("scenario", rig.subs, rig.responders, rig.assertions, {[w EXCEPT !.webhook = FALSE] : w \in silence}, None)

Holds(d) == d.subs # {} \/ d.responders # {} \/ d.assertions # {} \/ d.silence # {} \/ d.bench # None

\* What is no entry is dropped; a file with nothing left is refused, and every refusal has its reason.
parseScenario(d) ==
    LET kept == [d EXCEPT !.subs = @ \ {Broken}, !.responders = @ \ {Broken}, !.assertions = @ \ {Broken}]
    IN  IF d.read # "scenario" THEN [error |-> <<d.read>>, scenario |-> None]
        ELSE IF ~Holds(kept) THEN [error |-> <<"nothing">>, scenario |-> None]
        ELSE [error |-> None, scenario |-> <<kept>>]

\* What applying it will not do.
skipped(d) ==
    {n \in {"v3Responders", "strippedWebhooks", "noBar"} :
        CASE n = "v3Responders" -> ~isV5 /\ d.responders # {}
          [] n = "strippedWebhooks" -> d.silence # {}
          [] n = "noBar" -> d.bench # None /\ d.bench[1].expect = None}

-----------------------------------------------------------------------------
(* The judgement                                                           *)

tally(s) ==
    IF s.violated > 0 THEN "fail" ELSE IF s.matched = 0 \/ s.unevaluable > 0 THEN "unknown" ELSE "pass"

\* The panel never hands over a measurement: a bar it has was not run.
claims(expect, e) ==
    <<[id |-> IF expect = None THEN "noBarSet" ELSE "notRun", state |-> "unknown"],
      [id |-> "assertions", state |-> tally(e.stats)]>>
    \o IF e.refused > 0 THEN <<[id |-> "refusedSubscriptions", state |-> "fail"]>> ELSE <<>>

verdict_of(cs) ==
    LET states == {c.state : c \in ToSet(cs)}
    IN  IF "fail" \in states THEN "fail" ELSE IF "unknown" \in states \/ cs = <<>> THEN "unknown" ELSE "pass"

judge(expect, e) == [claims |-> claims(expect, e), overall |-> verdict_of(claims(expect, e))]

claimLabel(id) == IF id \in {"noBarSet", "notRun"} THEN "rate" ELSE id
claimLines(v) ==
    IF v = None THEN <<>>
    ELSE [i \in DOMAIN v[1].claims |-> [claim |-> claimLabel(v[1].claims[i].id), state |-> v[1].claims[i].state]]

\* A report is judged again; its labels are those of the lines on the screen, by position.
report(expect, e, lines) ==
    LET cs == claims(expect, e)
    IN  [i \in DOMAIN cs |-> [name |-> IF i \in DOMAIN lines THEN lines[i].claim ELSE cs[i].id, state |-> cs[i].state]]

-----------------------------------------------------------------------------
(* The panel                                                               *)

Fresh(silence) ==
    [loaded |-> None, error |-> None, notes |-> {}, silence |-> silence, verdict |-> None, busy |-> FALSE]

Expect(p) == IF p.loaded = None \/ p.loaded[1].bench = None THEN None ELSE p.loaded[1].bench[1].expect

Ask(p, e) ==
    LET n == asked.last + 1
    IN  /\ n <= MaxAsked
        /\ asked' = [last |-> n, alive |-> n, out |-> asked.out \cup {[n |-> n, verdict |-> judge(Expect(p), e)]}]

\* The effect runs again if what it reads has changed.
AskIfNew(p, e) == IF Expect(p) # Expect(panel) \/ e # evidence THEN Ask(p, e) ELSE UNCHANGED asked

Click == clicks < MaxClicks /\ clicks' = clicks + 1

\* Variant: whoever answers is believed.
AnsweredLast(n) == TRUE
\* Only the last that was asked for, by a panel that is still there, is listened to.
Alive(n) == n = asked.alive

\* A host without a backend answers nothing.
Judged(r, answers) ==
    /\ r \in asked.out /\ asked' = [asked EXCEPT !.out = @ \ {r}]
    /\ panel' = IF answers /\ Alive(r.n) THEN [panel EXCEPT !.verdict = <<r.verdict>>] ELSE panel
    /\ UNCHANGED <<rig, evidence, isV5, open, writing, saved, clicks>>

\* The watchdogs are read when the panel opens; another mode is where they are edited.
SwitchMode ==
    /\ Click /\ open' = ~open /\ panel' = Fresh(rig.silence)
    /\ IF open THEN asked' = [asked EXCEPT !.alive = 0] ELSE Ask(panel', evidence)
    /\ writing' = {[w EXCEPT !.here = FALSE] : w \in writing}
    /\ UNCHANGED <<rig, evidence, isV5, saved>>

EditSilence(silence) ==
    /\ Click /\ ~open /\ rig' = [rig EXCEPT !.silence = silence]
    /\ UNCHANGED <<evidence, isV5, open, panel, asked, writing, saved>>

\* The panels beside this one.
EditRules(responders, assertions) ==
    /\ Click /\ open /\ rig' = [rig EXCEPT !.responders = responders, !.assertions = assertions]
    /\ UNCHANGED <<evidence, isV5, open, panel, asked, writing, saved>>

\* The assertions judge a message, or the broker refuses a subscription.
Observe(e) ==
    /\ Click /\ evidence' = e /\ e # evidence
    /\ IF open THEN AskIfNew(panel, e) ELSE UNCHANGED asked
    /\ UNCHANGED <<rig, isV5, open, panel, writing, saved>>

\* From a file or pasted: what it holds is what the panel shows from then on.
Load(d) ==
    LET parsed == parseScenario(d)
    IN  /\ Click /\ open
        /\ panel' = [panel EXCEPT !.loaded = parsed.scenario, !.error = parsed.error,
                                  !.notes = IF parsed.error = None THEN {} ELSE @]
        /\ AskIfNew(panel', evidence)
        /\ UNCHANGED <<rig, evidence, isV5, open, writing, saved>>

apply ==
    LET d == panel.loaded[1]
    IN  /\ Click /\ open /\ panel.loaded # None
        /\ rig' = [rig EXCEPT !.responders = IF isV5 THEN d.responders ELSE {}, !.assertions = d.assertions,
                              !.subs = @ \cup d.subs]
        /\ panel' = [panel EXCEPT !.error = None,
                                  !.notes = skipped(d) \cup {n \in {"watchdogsElsewhere", "benchElsewhere"} :
                                        IF n = "benchElsewhere" THEN d.bench # None ELSE d.silence # {}}]
        /\ UNCHANGED <<evidence, isV5, open, asked, writing, saved>>

\* A scenario or a report on its way to a file.
Write(what, file) ==
    /\ Click /\ open /\ (what = "scenario" => ~panel.busy) /\ ~\E w \in writing : w.what = what
    /\ writing' = writing \cup {[what |-> what, file |-> file, here |-> TRUE]}
    /\ panel' = [panel EXCEPT !.busy = TRUE]
    /\ UNCHANGED <<rig, evidence, isV5, open, asked, saved>>

exportScenario == Write("scenario", <<collectScenario(panel.silence)>>)
writeReport == Write("report", report(Expect(panel), evidence, claimLines(panel.verdict)))

Written(w, ok) ==
    /\ w \in writing /\ writing' = writing \ {w}
    /\ saved' = IF ok /\ w.what = "scenario" THEN w.file ELSE saved
    /\ panel' = IF ~w.here THEN panel ELSE IF ok THEN [panel EXCEPT !.busy = FALSE]
                ELSE [panel EXCEPT !.busy = FALSE, !.error = <<"notWritten">>]
    /\ UNCHANGED <<rig, evidence, isV5, open, asked, clicks>>

-----------------------------------------------------------------------------
Watchdog == [webhook : {TRUE}]

Init ==
    /\ rig = [subs |-> {}, responders |-> {}, assertions |-> {}, silence |-> {}]
    /\ evidence \in {e \in [stats : Tallies, refused : {0}] : e.stats.matched = 0} /\ isV5 \in BOOLEAN
    /\ open = FALSE /\ panel = Fresh({}) /\ asked = [last |-> 0, alive |-> 0, out |-> {}]
    /\ writing = {} /\ saved = None /\ clicks = 0

Next ==
    \/ \E r \in asked.out, answers \in BOOLEAN : Judged(r, answers)
    \/ \E silence \in SUBSET Watchdog : EditSilence(silence)
    \/ \E responders, assertions \in SUBSET Rule : EditRules(responders, assertions)
    \/ \E e \in [stats : Tallies, refused : 0 .. 1] : Observe(e)
    \/ \E d \in Docs \cup ToSet(saved) : Load(d)
    \/ \E w \in writing, ok \in BOOLEAN : Written(w, ok)
    \/ SwitchMode \/ apply \/ exportScenario \/ writeReport

Spec == Init /\ [][Next]_vars

-----------------------------------------------------------------------------
\* The verdict that belongs to what is on the screen.
Current == judge(Expect(panel), evidence)

(* A verdict that comes on the screen belongs to the bar and the evidence  *)
(* beside it, whatever the order of the answers and whoever asked.         *)
ShowsCurrent == open /\ panel'.verdict # panel.verdict /\ panel'.verdict # None => panel'.verdict = <<Current>>
VerdictIsCurrent == [][ShowsCurrent]_vars
=============================================================================
