-------------------------- MODULE DeskPanels_proofs --------------------------
(***************************************************************************)
(* What a panel says of what the backend does, and what it does of itself: *)
(* what TLC checks of RulePanels, Scenario, MessageRow, BridgeLinks and    *)
(* Replay on small instances, proved for any number of rules, scripts,     *)
(* judgements, links, recorded messages, replays, calls and clicks.        *)
(***************************************************************************)
EXTENDS DeskPanels, DeskCards_proofs, FiniteSetTheorems, SequenceTheorems, TLAPS

-----------------------------------------------------------------------------
(* The rule sets: what the backend works with, and what the panel says of it. *)

\* Where no push overtook another, the newest is on its way there, or on its way back, or its
\* answer is on the screen.
Underway == pushes = <<panelRules>> /\ answers = <<>>
Returning == pushes = <<>> /\ \E a \in {answers[1]} : answers = <<a>> /\ (a.err \/ armed = panelRules)
RefusalTold == pushes = <<>> /\ answers = <<>> /\ (panelLastError \/ armed = panelRules)
RulesInv ==
    /\ kind \in Rules!Kinds
    /\ panelOverlapped \in BOOLEAN
    /\ ~panelOverlapped => Underway \/ Returning \/ RefusalTold

LEMMA RulesInit == Rules!Init => RulesInv
BY DEF Rules!Init, RulesInv, Underway

LEMMA RulesTold == RulesInv => Rules!ArmedOrSaidInOrder
<1>1. ASSUME RulesInv, Rules!Settled, ~panelOverlapped
      PROVE  RefusalTold
  <2>1. \A x : <<x>> # <<>>
    OBVIOUS
  <2> QED
    BY <1>1, <2>1 DEF RulesInv, Underway, Returning, Rules!Settled
<1>2. ASSUME RulesInv, panelLastError
      PROVE  Rules!view.error # "none"
  <2>1. Rules!faultView.error # "none" /\ Rules!responderView.error # "none" /\ Rules!silenceView.error # "none"
    BY <1>2 DEF Rules!faultView, Rules!responderView, Rules!silenceView
  <2>2. Rules!assertionView.error # "none"
    BY <1>2 DEF Rules!faultView, Rules!assertionView
  <2>3. \/ Rules!view = Rules!faultView \/ Rules!view = Rules!responderView
        \/ Rules!view = Rules!assertionView \/ Rules!view = Rules!silenceView
    BY <1>2 DEF Rules!view, RulesInv, Rules!Kinds
  <2> QED
    BY <2>1, <2>2, <2>3
<1>3. RefusalTold => panelLastError \/ armed = panelRules
  BY DEF RefusalTold
<1> QED
  BY <1>1, <1>2, <1>3 DEF Rules!ArmedOrSaidInOrder

LEMMA Alone ==
    ASSUME NEW x
    PROVE  Rules!RemoveAt(<<x>>, 1) = <<>>
BY DEF Rules!RemoveAt

\* A change of the set is pushed.
LEMMA PanelPushKeeps ==
    ASSUME RulesInv, kind' = kind, answers' = answers, armed' = armed, panelLastError' = panelLastError,
           \/ \E new \in {panelRules'} : Rules!setRules(new)
           \/ UNCHANGED <<panelRules, pushes, panelOverlapped>>
    PROVE  RulesInv'
<1>1. CASE Rules!setRules(panelRules')
  <2>1. pushes' = Append(pushes, panelRules') /\ (panelOverlapped' <=> panelOverlapped \/ pushes # <<>> \/ answers # <<>>)
    BY <1>1 DEF Rules!setRules
  <2>2. pushes = <<>> => Append(pushes, panelRules') = <<panelRules'>>
    OBVIOUS
  <2>3. panelOverlapped' \in BOOLEAN
    BY <1>1 DEF Rules!setRules, RulesInv
  <2> QED
    BY <2>1, <2>2, <2>3 DEF RulesInv, Underway
<1>2. CASE UNCHANGED <<panelRules, pushes, panelOverlapped>>
  BY <1>2 DEF RulesInv, Underway, Returning, RefusalTold
<1> QED
  BY <1>1, <1>2

LEMMA RulesStep == RulesInv /\ [Rules!Next]_(Rules!vars) => RulesInv'
<1> SUFFICES ASSUME RulesInv, [Rules!Next]_(Rules!vars)
             PROVE  RulesInv'
  OBVIOUS
<1>1. ASSUME NEW i \in DOMAIN pushes, Rules!sync_rules(i)
      PROVE  RulesInv'
  <2>1. CASE Underway
    <3>1. i = 1 /\ pushes' = <<>> /\ UNCHANGED <<kind, panelRules, panelOverlapped>>
      BY <1>1, <2>1, Alone DEF Rules!sync_rules, Underway
    <3>2. CASE Rules!Acceptable(pushes[i])
      BY <1>1, <2>1, <3>1, <3>2 DEF Rules!sync_rules, Rules!Answered, RulesInv, Underway, Returning
    <3>3. CASE ~Rules!Acceptable(pushes[i])
      BY <1>1, <2>1, <3>1, <3>3 DEF Rules!sync_rules, Rules!Answered, RulesInv, Underway, Returning
    <3> QED
      BY <3>2, <3>3
  <2>2. CASE panelOverlapped
    BY <1>1, <2>2 DEF Rules!sync_rules, RulesInv
  <2> QED
    BY <1>1, <2>1, <2>2 DEF RulesInv, Returning, RefusalTold
<1>2. ASSUME NEW i \in DOMAIN answers, Rules!Answer(i)
      PROVE  RulesInv'
  <2>1. CASE Returning
    BY <1>2, <2>1, Alone DEF Rules!Answer, Rules!Apply, Rules!hook, Rules!backend, RulesInv, Returning, RefusalTold
  <2>2. CASE panelOverlapped
    BY <1>2, <2>2 DEF Rules!Answer, Rules!hook, RulesInv
  <2> QED
    BY <1>2, <2>1, <2>2 DEF RulesInv, Underway, RefusalTold
<1>3. CASE Rules!ResponderError
  BY <1>3 DEF Rules!ResponderError, Rules!hook, Rules!backend, Rules!replies, RulesInv, Underway, Returning, RefusalTold
<1>4. CASE \/ \E i \in DOMAIN polled : Rules!Polled(i)
           \/ Rules!Poll \/ Rules!setVisible \/ Rules!reset \/ Rules!clearAlerts
           \/ \E id \in RuleIds : Rules!Message(id) \/ Rules!SilenceAlert(id)
           \/ UNCHANGED Rules!vars
  <2>1. UNCHANGED <<kind, panelRules, pushes, panelOverlapped, answers, armed, panelLastError>>
    <3>1. CASE \E i \in DOMAIN polled : Rules!Polled(i)
      BY <3>1 DEF Rules!Polled, Rules!hook, Rules!backend
    <3>2. CASE Rules!Poll \/ Rules!reset \/ Rules!clearAlerts \/ UNCHANGED Rules!vars
      BY <3>2 DEF Rules!Poll, Rules!reset, Rules!clearAlerts, Rules!Click, Rules!hook, Rules!backend, Rules!replies,
                  Rules!shown, Rules!vars
    <3>3. CASE Rules!setVisible
      BY <3>3 DEF Rules!setVisible, Rules!Click, Rules!hook, Rules!backend, Rules!shown
    <3>4. CASE \E id \in RuleIds : Rules!Message(id) \/ Rules!SilenceAlert(id)
      BY <3>4 DEF Rules!Message, Rules!SilenceAlert, Rules!hook, Rules!backend, Rules!replies, Rules!shown
    <3> QED
      BY <1>4, <3>1, <3>2, <3>3, <3>4
  <2> QED
    BY <2>1 DEF RulesInv, Underway, Returning, RefusalTold
<1>5. CASE \/ Rules!add \/ Rules!cancel \/ Rules!submit
           \/ \E id \in RuleIds : Rules!toggle(id) \/ Rules!remove(id)
           \/ \E id \in RuleIds, ok, knob \in BOOLEAN : Rules!patchFault(id, knob, ok) \/ Rules!patchResponder(id, ok)
           \/ Rules!startSilence \/ Rules!startAssertion
           \/ \E b \in BOOLEAN : Rules!edit(b) \/ Rules!planHeaders(b) \/ Rules!assertions_parse_rule(b)
  <2>1. kind' = kind /\ Rules!Idle
    BY <1>5 DEF Rules!add, Rules!cancel, Rules!submit, Rules!toggle, Rules!remove, Rules!patchFault,
                Rules!patchResponder, Rules!startSilence, Rules!startAssertion, Rules!openForm, Rules!edit,
                Rules!planHeaders, Rules!assertions_parse_rule, Rules!Click
  <2>2. (\E new \in {panelRules'} : Rules!setRules(new)) \/ UNCHANGED Rules!hook
    <3>1. ASSUME NEW new, Rules!setRules(new)
          PROVE  Rules!setRules(panelRules')
      BY <3>1 DEF Rules!setRules
    <3>2. CASE Rules!add \/ Rules!cancel \/ Rules!submit
      BY <3>1, <3>2 DEF Rules!add, Rules!cancel, Rules!submit, Rules!addRule
    <3>3. CASE \E id \in RuleIds : Rules!toggle(id) \/ Rules!remove(id)
      BY <3>1, <3>3 DEF Rules!toggle, Rules!remove, Rules!toggleRule, Rules!removeRule
    <3>4. CASE \E id \in RuleIds, ok, knob \in BOOLEAN : Rules!patchFault(id, knob, ok) \/ Rules!patchResponder(id, ok)
      BY <3>1, <3>4 DEF Rules!patchFault, Rules!patchResponder, Rules!updateRule
    <3>5. CASE \/ Rules!startSilence \/ Rules!startAssertion
               \/ \E b \in BOOLEAN : Rules!edit(b) \/ Rules!planHeaders(b) \/ Rules!assertions_parse_rule(b)
      BY <3>1, <3>5 DEF Rules!startSilence, Rules!startAssertion, Rules!openForm, Rules!edit, Rules!planHeaders,
                        Rules!assertions_parse_rule, Rules!updateRule, Rules!addRule
    <3> QED
      BY <1>5, <3>2, <3>3, <3>4, <3>5
  <2> QED
    BY <2>1, <2>2, PanelPushKeeps DEF Rules!Idle, Rules!backend, Rules!replies, Rules!shown, Rules!hook
<1> QED
  BY <1>1, <1>2, <1>3, <1>4, <1>5 DEF Rules!Next

\* A step of the desk is one of the part that is open, or changes nothing in it.
LEMMA RulesMoves == [PanelsStep]_<<part, clicks, panelVars>> => part' = part /\ (part = "rules" => [Rules!Next]_(Rules!vars))
BY DEF PanelsStep, PanelsNext, PanelsParts, panelVars, rules, Rules!vars, Rules!hook, Rules!backend, Rules!replies, Rules!shown, Rules!panel

\* Of these parts alone: see PanelTellsOfRefusal in Desk_proofs.
LEMMA PanelTellsOfRefusalInPanels ==
    PanelsSpec => []ArmedOrSaidInOrder
<1> DEFINE Holds == part = "rules" => RulesInv
<1>1. PanelsInit => Holds
  BY RulesInit DEF PanelsInit
<1>2. Holds /\ [PanelsStep]_<<part, clicks, panelVars>> => Holds'
  BY RulesStep, RulesMoves
<1>3. Holds => ArmedOrSaidInOrder
  BY RulesTold DEF ArmedOrSaidInOrder
<1> QED
  BY <1>1, <1>2, <1>3, PTL DEF PanelsSpec

-----------------------------------------------------------------------------
(* The scenario: the verdict on the screen is that of the bar and the evidence beside it. *)

\* The judgement that is listened to is of what the panel judges by now.
Judges(r) == r.verdict = Scene!judge(Scene!Expect(scenarioPanel), evidence)
Panel(p) ==
    p \in [loaded : {p.loaded}, error : {p.error}, notes : {p.notes}, silence : {p.silence},
           verdict : {p.verdict}, busy : {p.busy}]
Asked(a) == a \in [last : {a.last}, alive : {a.alive}, out : {a.out}] /\ a.last \in Nat /\ a.alive \in 0 .. a.last
Answers(a) == \A r \in a.out : r \in [n : 1 .. a.last, verdict : {r.verdict}]
SceneInv ==
    /\ Panel(scenarioPanel) /\ Asked(asked) /\ Answers(asked)
    /\ open \in BOOLEAN /\ (~open => asked.alive = 0)
    /\ \A r \in asked.out : r.n = asked.alive => Judges(r)

LEMMA SceneInit == Scene!Init => SceneInv
<1> SUFFICES ASSUME Scene!Init
             PROVE  SceneInv
  OBVIOUS
<1>1. Panel(scenarioPanel)
  BY DEF Scene!Init, Scene!Fresh, Panel
<1>2. asked = [last |-> 0, alive |-> 0, out |-> {}] /\ open = FALSE
  BY DEF Scene!Init
<1>3. Asked(asked) /\ asked.out = {} /\ asked.alive = 0
  BY <1>2 DEF Asked
<1> QED
  BY <1>1, <1>2, <1>3 DEF SceneInv, Answers

\* Whoever asks anew is listened to alone.
LEMMA AskKeeps ==
    ASSUME SceneInv, Scene!Ask(scenarioPanel', evidence'), open' = TRUE, Panel(scenarioPanel)'
    PROVE  SceneInv'
<1> DEFINE verdict == Scene!judge(Scene!Expect(scenarioPanel), evidence)
           r == [n |-> asked.last + 1, verdict |-> verdict']
<1>1. asked' = [last |-> asked.last + 1, alive |-> asked.last + 1, out |-> asked.out \cup {r}]
  BY DEF Scene!Ask, Scene!Expect, Scene!judge
<1>2. r \in [n : {asked.last + 1}, verdict : {r.verdict}] /\ r.verdict = verdict' /\ r.n = asked.last + 1
  OBVIOUS
<1> HIDE DEF r
<1>3. asked'.last = asked.last + 1 /\ asked'.alive = asked.last + 1 /\ asked'.out = asked.out \cup {r}
  BY <1>1
<1>4. Asked(asked)'
  BY <1>1, <1>3 DEF SceneInv, Asked
<1>5. Answers(asked)'
  BY <1>2, <1>3 DEF SceneInv, Asked, Answers
<1>6. \A s \in asked'.out : s.n = asked'.alive => s.verdict = verdict'
  BY <1>2, <1>3 DEF SceneInv, Asked, Answers
<1> QED
  BY <1>3, <1>4, <1>5, <1>6 DEF SceneInv, Judges

\* Nothing is asked, and what is judged by stays.
LEMMA StillJudges ==
    ASSUME SceneInv, asked' = asked, open' = open, Panel(scenarioPanel)',
           open => evidence' = evidence /\ Scene!Expect(scenarioPanel)' = Scene!Expect(scenarioPanel)
    PROVE  SceneInv'
<1>1. \A r \in asked.out : r.n = asked.alive => open
  BY DEF SceneInv, Asked, Answers
<1>2. ASSUME open
      PROVE  Scene!judge(Scene!Expect(scenarioPanel), evidence)' = Scene!judge(Scene!Expect(scenarioPanel), evidence)
  BY <1>2 DEF Scene!judge, Scene!claims
<1> QED
  BY <1>1, <1>2 DEF SceneInv, Judges, Asked, Answers

LEMMA AskIfNewKeeps ==
    ASSUME SceneInv, Scene!AskIfNew(scenarioPanel', evidence'), open, open' = TRUE, Panel(scenarioPanel)'
    PROVE  SceneInv'
<1>1. CASE Scene!Expect(scenarioPanel') # Scene!Expect(scenarioPanel) \/ evidence' # evidence
  BY <1>1, AskKeeps DEF Scene!AskIfNew
<1>2. CASE Scene!Expect(scenarioPanel') = Scene!Expect(scenarioPanel) /\ evidence' = evidence
  <2>1. Scene!Expect(scenarioPanel)' = Scene!Expect(scenarioPanel')
    BY DEF Scene!Expect
  <2> QED
    BY <1>2, <2>1, StillJudges DEF Scene!AskIfNew, SceneInv
<1> QED
  BY <1>1, <1>2

\* Applying and writing leave the verdict and the bar alone.
LEMMA Elsewhere ==
    ASSUME SceneInv,
           Scene!apply \/ Scene!exportScenario \/ Scene!writeReport \/ \E w \in writing, ok \in BOOLEAN : Scene!Written(w, ok)
    PROVE  /\ UNCHANGED <<asked, open, evidence>> /\ Panel(scenarioPanel)'
           /\ scenarioPanel'.loaded = scenarioPanel.loaded /\ scenarioPanel'.verdict = scenarioPanel.verdict
<1>1. CASE Scene!apply
  <2>1. UNCHANGED <<asked, open, evidence>>
    BY <1>1 DEF Scene!apply
  <2>2. \E notes : scenarioPanel' = [scenarioPanel EXCEPT !.error = Scene!None, !.notes = notes]
    BY <1>1 DEF Scene!apply
  <2> QED
    BY <2>1, <2>2 DEF SceneInv, Panel
<1>2. ASSUME NEW what, NEW text, Scene!Write(what, text)
      PROVE  UNCHANGED <<asked, open, evidence>> /\ scenarioPanel' = [scenarioPanel EXCEPT !.busy = TRUE]
  BY <1>2 DEF Scene!Write
<1>3. CASE Scene!exportScenario \/ Scene!writeReport
  <2>1. UNCHANGED <<asked, open, evidence>> /\ scenarioPanel' = [scenarioPanel EXCEPT !.busy = TRUE]
    BY <1>2, <1>3 DEF Scene!exportScenario, Scene!writeReport
  <2> QED
    BY <2>1 DEF SceneInv, Panel
<1>4. ASSUME NEW w \in writing, NEW ok \in BOOLEAN, Scene!Written(w, ok)
      PROVE  /\ UNCHANGED <<asked, open, evidence>> /\ Panel(scenarioPanel)'
             /\ scenarioPanel'.loaded = scenarioPanel.loaded /\ scenarioPanel'.verdict = scenarioPanel.verdict
  <2>1. UNCHANGED <<asked, open, evidence>>
    BY <1>4 DEF Scene!Written
  <2>2. \/ scenarioPanel' = scenarioPanel \/ scenarioPanel' = [scenarioPanel EXCEPT !.busy = FALSE]
        \/ scenarioPanel' = [scenarioPanel EXCEPT !.busy = FALSE, !.error = <<"notWritten">>]
    BY <1>4 DEF Scene!Written
  <2> QED
    BY <2>1, <2>2 DEF SceneInv, Panel
<1> QED
  BY <1>1, <1>3, <1>4

LEMMA SceneStep == SceneInv /\ [Scene!Next]_(Scene!vars) => SceneInv'
<1> SUFFICES ASSUME SceneInv, [Scene!Next]_(Scene!vars)
             PROVE  SceneInv'
  OBVIOUS
<1>1. ASSUME NEW r \in asked.out, NEW ok \in BOOLEAN, Scene!Judged(r, ok)
      PROVE  SceneInv'
  <2>1. asked' \in [last : {asked.last}, alive : {asked.alive}, out : {asked.out \ {r}}]
    BY <1>1 DEF Scene!Judged, SceneInv, Asked
  <2>2. Panel(scenarioPanel)' /\ scenarioPanel'.loaded = scenarioPanel.loaded
    BY <1>1 DEF Scene!Judged, SceneInv, Panel
  <2>3. Asked(asked)' /\ Answers(asked)' /\ asked'.alive = asked.alive /\ asked'.out \subseteq asked.out
    BY <2>1 DEF SceneInv, Asked, Answers
  <2>4. open' = open /\ evidence' = evidence /\ Scene!Expect(scenarioPanel)' = Scene!Expect(scenarioPanel)
    BY <1>1, <2>2 DEF Scene!Judged, Scene!Expect
  <2>5. Scene!judge(Scene!Expect(scenarioPanel), evidence)' = Scene!judge(Scene!Expect(scenarioPanel), evidence)
    BY <2>4 DEF Scene!judge, Scene!claims
  <2> QED
    BY <2>2, <2>3, <2>4, <2>5 DEF SceneInv, Judges
<1>2. CASE Scene!SwitchMode
  <2>1. Panel(scenarioPanel)'
    BY <1>2 DEF Scene!SwitchMode, Scene!Fresh, Panel
  <2>2. CASE open
    <3>1. asked' \in [last : {asked.last}, alive : {0}, out : {asked.out}] /\ open' = FALSE
      BY <1>2, <2>2 DEF Scene!SwitchMode, SceneInv, Asked
    <3>2. Asked(asked)' /\ Answers(asked)' /\ asked'.alive = 0
      BY <3>1 DEF SceneInv, Asked, Answers
    <3>3. \A r \in asked'.out : r.n # 0
      BY <3>2 DEF Asked, Answers
    <3> QED
      BY <2>1, <3>1, <3>2, <3>3 DEF SceneInv
  <2>3. CASE ~open
    BY <1>2, <2>1, <2>3, AskKeeps DEF Scene!SwitchMode, SceneInv
  <2> QED
    BY <2>2, <2>3
<1>3. ASSUME NEW e, Scene!Observe(e)
      PROVE  SceneInv'
  <2>1. Panel(scenarioPanel)' /\ open' = open /\ e = evidence' /\ scenarioPanel' = scenarioPanel
    BY <1>3 DEF Scene!Observe, SceneInv, Panel
  <2>2. CASE open
    BY <1>3, <2>1, <2>2, AskIfNewKeeps DEF Scene!Observe
  <2>3. CASE ~open
    BY <1>3, <2>1, <2>3, StillJudges DEF Scene!Observe
  <2> QED
    BY <2>2, <2>3 DEF SceneInv
<1>4. ASSUME NEW d, Scene!Load(d)
      PROVE  SceneInv'
  <2>1. Panel(scenarioPanel)'
    BY <1>4 DEF Scene!Load, SceneInv, Panel
  <2> QED
    BY <1>4, <2>1, AskIfNewKeeps DEF Scene!Load
<1>5. CASE Scene!apply \/ Scene!exportScenario \/ Scene!writeReport \/ \E w \in writing, ok \in BOOLEAN : Scene!Written(w, ok)
  BY <1>5, Elsewhere, StillJudges DEF Scene!Expect
<1>6. CASE \/ \E silence \in SUBSET Scene!Watchdog : Scene!EditSilence(silence)
           \/ \E responders, assertions \in SUBSET SharedRule : Scene!EditRules(responders, assertions)
           \/ UNCHANGED Scene!vars
  <2>1. ASSUME NEW silence, Scene!EditSilence(silence)
        PROVE  UNCHANGED <<asked, open, evidence, scenarioPanel>>
    BY <2>1 DEF Scene!EditSilence
  <2>2. ASSUME NEW responders, NEW assertions, Scene!EditRules(responders, assertions)
        PROVE  UNCHANGED <<asked, open, evidence, scenarioPanel>>
    BY <2>2 DEF Scene!EditRules
  <2>3. UNCHANGED <<asked, open, evidence, scenarioPanel>>
    BY <1>6, <2>1, <2>2 DEF Scene!vars
  <2> QED
    BY <2>3 DEF SceneInv, Judges, Panel, Asked, Answers, Scene!judge, Scene!claims, Scene!Expect
<1> QED
  BY <1>1, <1>2, <1>3, <1>4, <1>5, <1>6 DEF Scene!Next

LEMMA SceneTold == SceneInv /\ [Scene!Next]_(Scene!vars) => Scene!ShowsCurrent
<1> SUFFICES ASSUME SceneInv, Scene!Next, open, scenarioPanel'.verdict # scenarioPanel.verdict,
                    scenarioPanel'.verdict # Scene!None
             PROVE  scenarioPanel'.verdict = <<Scene!Current>>
  BY DEF Scene!ShowsCurrent, Scene!vars
<1>1. ASSUME NEW r \in asked.out, NEW ok \in BOOLEAN, Scene!Judged(r, ok)
      PROVE  scenarioPanel'.verdict = <<Scene!Current>>
  <2>1. r.n = asked.alive /\ scenarioPanel'.verdict = <<r.verdict>>
    BY <1>1 DEF Scene!Judged, Scene!Alive, SceneInv, Panel
  <2> QED
    BY <2>1 DEF SceneInv, Judges, Scene!Current
<1>2. CASE Scene!SwitchMode
  BY <1>2 DEF Scene!SwitchMode, Scene!Fresh
<1>3. ASSUME NEW d, Scene!Load(d)
      PROVE  scenarioPanel'.verdict = scenarioPanel.verdict
  BY <1>3 DEF Scene!Load, SceneInv, Panel
<1>4. ASSUME NEW silence, Scene!EditSilence(silence)
      PROVE  scenarioPanel' = scenarioPanel
  BY <1>4 DEF Scene!EditSilence
<1>5. ASSUME NEW responders, NEW assertions, Scene!EditRules(responders, assertions)
      PROVE  scenarioPanel' = scenarioPanel
  BY <1>5 DEF Scene!EditRules
<1>6. ASSUME NEW e, Scene!Observe(e)
      PROVE  scenarioPanel' = scenarioPanel
  BY <1>6 DEF Scene!Observe
<1> QED
  BY <1>1, <1>2, <1>3, <1>4, <1>5, <1>6, Elsewhere DEF Scene!Next

\* A step of the desk is one of the part that is open, or changes nothing in it.
LEMMA SceneMoves == [PanelsStep]_<<part, clicks, panelVars>> => part' = part /\ (part = "scenario" => [Scene!Next]_(Scene!vars))
BY DEF PanelsStep, PanelsNext, PanelsParts, panelVars, scenario, Scene!vars

\* Of these parts alone: see VerdictBesideItsEvidence in Desk_proofs.
LEMMA VerdictBesideItsEvidenceInPanels ==
    PanelsSpec => VerdictIsCurrent
<1> DEFINE Holds == part = "scenario" => SceneInv
<1>1. PanelsInit => Holds
  BY SceneInit DEF PanelsInit
<1>2. Holds /\ [PanelsStep]_<<part, clicks, panelVars>> => Holds'
  BY SceneStep, SceneMoves
<1>3. Holds /\ [PanelsStep]_<<part, clicks, panelVars>> => [part = "scenario" => Scene!ShowsCurrent]_<<part, panelVars>>
  BY SceneTold, SceneMoves
<1> QED
  BY <1>1, <1>2, <1>3, PTL DEF PanelsSpec, VerdictIsCurrent

-----------------------------------------------------------------------------
(* The row: a text it shows was made by the script in force. *)

\* What is left of a sequence was in it.
LEMMA RemovedFrom ==
    ASSUME NEW S, NEW s \in Seq(S), NEW i \in DOMAIN s
    PROVE  Row!RemoveAt(s, i) \in Seq(S) /\ \A j \in DOMAIN Row!RemoveAt(s, i) : \E k \in DOMAIN s : Row!RemoveAt(s, i)[j] = s[k]
<1> DEFINE l == SubSeq(s, 1, i - 1)
           r == SubSeq(s, i + 1, Len(s))
<1>1. i \in 1 .. Len(s) /\ Len(s) \in Nat
  OBVIOUS
<1>2. l \in Seq(S) /\ Len(l) = i - 1 /\ \A j \in 1 .. i - 1 : l[j] = s[j]
  BY <1>1
<1>3. r \in Seq(S) /\ Len(r) = Len(s) - i /\ \A j \in 1 .. Len(s) - i : r[j] = s[i + j]
  BY <1>1
<1> HIDE DEF l, r
<1>4. l \o r \in Seq(S) /\ Len(l \o r) = Len(s) - 1
      /\ \A j \in 1 .. Len(s) - 1 : (l \o r)[j] = IF j < i THEN s[j] ELSE s[j + 1]
  <2>1. l \o r \in Seq(S) /\ Len(l \o r) = Len(s) - 1
    BY <1>1, <1>2, <1>3
  <2>2. ASSUME NEW j \in 1 .. Len(s) - 1
        PROVE  (l \o r)[j] = IF j < i THEN s[j] ELSE s[j + 1]
    <3>1. CASE j < i
      <4>1. j \in 1 .. Len(l)
        BY <1>1, <1>2, <3>1
      <4>2. (l \o r)[j] = l[j]
        BY <1>2, <1>3, <4>1
      <4> QED
        BY <1>2, <3>1, <4>1, <4>2
    <3>2. CASE ~ (j < i)
      <4>1. j - Len(l) \in 1 .. Len(s) - i /\ i + (j - Len(l)) = j + 1
        BY <1>1, <1>2, <3>2
      <4>3. j \in 1 .. Len(l) + Len(r) /\ Len(l) \in Nat /\ Len(r) \in Nat /\ ~ (j <= Len(l))
        BY <1>1, <1>2, <1>3, <3>2
      <4>4. l \in Seq(S) /\ r \in Seq(S)
        BY <1>2, <1>3
      <4>2. (l \o r)[j] = r[j - Len(l)]
        BY <4>3, <4>4
      <4> QED
        BY <1>3, <3>2, <4>1, <4>2
    <3> QED
      BY <3>1, <3>2
  <2> QED
    BY <2>1, <2>2
<1>5. \A j \in DOMAIN (l \o r) : \E k \in DOMAIN s : (l \o r)[j] = s[k]
  <2> TAKE j \in DOMAIN (l \o r)
  <2>1. j \in 1 .. Len(s) - 1 /\ j \in DOMAIN s /\ j + 1 \in DOMAIN s
    BY <1>1, <1>4
  <2>2. (l \o r)[j] = s[j] \/ (l \o r)[j] = s[j + 1]
    BY <1>4, <2>1
  <2> QED
    BY <2>1, <2>2
<1> QED
  BY <1>4, <1>5 DEF Row!RemoveAt, l, r

Made == {[len |-> s.len, text |-> s.id] : s \in Scripts}
Call == [script : Scripts, live : BOOLEAN]
RowInv ==
    /\ codecScript \in Scripts
    /\ cache \in Seq(Made)
    /\ decoding \in Seq(Call) /\ \A i \in DOMAIN decoding : decoding[i].live => decoding[i].script = codecScript
    /\ codec \in [text : {codec.text}, error : BOOLEAN, pending : BOOLEAN]
    /\ codec.text # Row!NoText => \E s \in Scripts : s.id = codec.text /\ s.len = codecScript.len
    /\ Row!codecScriptUsable(codecScript) => codec.text # Row!NoText \/ codec.error \/ codec.pending

LEMMA RowInit == Row!Init => RowInv
BY DEF Row!Init, RowInv, Row!Idle, Row!codecScriptUsable, Made, Call

LEMMA RowTold == RowInv => Row!DecodedByKey
<1> SUFFICES ASSUME RowInv
             PROVE  Row!codecScriptUsable(codecScript) => codec.text # Row!NoText \/ Row!chips \cap {"pending", "failed"} # {}
  BY DEF RowInv, Row!DecodedByKey
<1>1. codec.error => "failed" \in Row!chips
  BY DEF Row!chips
<1>2. codec.pending /\ ~codec.error => "pending" \in Row!chips
  BY DEF Row!chips
<1> QED
  BY <1>1, <1>2 DEF RowInv

\* The answer of a script makes an entry of its own length.
LEMMA PutMade ==
    ASSUME RowInv, NEW s \in Scripts
    PROVE  Row!codecPut(s) \in Seq(Made)
<1> DEFINE room == IF Len(cache) >= CacheCap THEN Tail(cache) ELSE cache
           entry == [len |-> s.len, text |-> s.id]
<1>1. room \in Seq(Made)
  <2>1. Len(cache) >= CacheCap => cache # <<>>
    BY PanelsAssumption DEF RowInv
  <2> QED
    BY <2>1 DEF RowInv
<1>2. entry \in Made
  BY DEF Made
<1> HIDE DEF room, entry
<1>3. Append(room, entry) \in Seq(Made)
  BY <1>1, <1>2
<1>4. [i \in DOMAIN room |-> IF room[i].len = s.len THEN entry ELSE room[i]] \in Seq(Made)
  BY <1>1, <1>2
<1> QED
  BY <1>3, <1>4 DEF Row!codecPut, room, entry

LEMMA ScriptKeeps ==
    ASSUME RowInv, NEW s \in Scripts, Row!setCodecScript(s)
    PROVE  RowInv'
<1> DEFINE left == [i \in DOMAIN decoding |-> [decoding[i] EXCEPT !.live = FALSE]]
<1>1. left \in Seq(Call) /\ \A i \in DOMAIN left : ~left[i].live
  <2>1. \A i \in DOMAIN decoding : decoding[i] \in Call
    BY DEF RowInv
  <2>2. \A c \in Call : [c EXCEPT !.live = FALSE] \in Call /\ [c EXCEPT !.live = FALSE].live = FALSE
    BY DEF Call
  <2>3. \A i \in DOMAIN left : left[i] \in Call /\ ~left[i].live
    BY <2>1, <2>2
  <2>4. PICK n \in Nat : DOMAIN left = 1 .. n
    BY DEF RowInv
  <2>5. left = [i \in 1 .. n |-> left[i]]
    BY <2>4
  <2> HIDE DEF left
  <2>6. [i \in 1 .. n |-> left[i]] \in Seq(Call)
    BY <2>3, <2>4
  <2> QED
    BY <2>3, <2>5, <2>6
<1> HIDE DEF left
<1>2. codecScript' = s /\ cache' = cache
  BY DEF Row!setCodecScript
<1>3. CASE ~Row!codecScriptUsable(s)
  <2>1. codec' = [text |-> Row!NoText, error |-> FALSE, pending |-> FALSE] /\ decoding' = left
    BY <1>3 DEF Row!setCodecScript, Row!Idle, left
  <2> QED
    BY <1>1, <1>2, <1>3, <2>1 DEF RowInv
<1>4. CASE Row!codecScriptUsable(s) /\ Row!codecGet(s) # {}
  <2>1. PICK i \in DOMAIN cache : cache[i].len = s.len /\ codec' = [Row!Idle EXCEPT !.text = cache[i].text]
    BY <1>4 DEF Row!setCodecScript, Row!codecGet
  <2>2. codec' = [text |-> cache[i].text, error |-> FALSE, pending |-> FALSE] /\ decoding' = left
    BY <1>4, <2>1 DEF Row!setCodecScript, Row!Idle, left
  <2>3. cache[i] \in Made
    BY DEF RowInv
  <2>4. PICK z \in Scripts : z.id = cache[i].text /\ z.len = cache[i].len
    BY <2>3 DEF Made
  <2>5. codec'.text # Row!NoText /\ z.id = codec'.text /\ z.len = codecScript'.len
    BY <1>2, <2>1, <2>2, <2>4, PanelsAssumption
  <2> QED
    BY <1>1, <1>2, <2>2, <2>5 DEF RowInv
<1>5. CASE Row!codecScriptUsable(s) /\ Row!codecGet(s) = {}
  <2>1. codec' = [text |-> Row!NoText, error |-> FALSE, pending |-> TRUE]
        /\ decoding' = Append(left, [script |-> s, live |-> TRUE])
    BY <1>5 DEF Row!setCodecScript, Row!Idle, left
  <2>2. [script |-> s, live |-> TRUE] \in Call
    BY DEF Call
  <2>3. decoding' \in Seq(Call) /\ \A i \in DOMAIN decoding' : decoding'[i].live => decoding'[i].script = s
    BY <1>1, <2>1, <2>2
  <2> QED
    BY <1>2, <2>1, <2>3 DEF RowInv
<1> QED
  BY <1>3, <1>4, <1>5

LEMMA AnswerKeeps ==
    ASSUME RowInv, NEW i \in DOMAIN decoding, NEW ok \in BOOLEAN, Row!runCodec(i, ok)
    PROVE  RowInv'
<1>1. decoding[i] \in Call /\ (decoding[i].live => decoding[i].script = codecScript)
  BY DEF RowInv
<1>2. codecScript' = codecScript /\ cache' \in Seq(Made)
  BY <1>1, PutMade DEF Row!runCodec, Call, RowInv
<1>3. decoding' \in Seq(Call) /\ \A j \in DOMAIN decoding' : decoding'[j].live => decoding'[j].script = codecScript'
  <2>1. decoding' = Row!RemoveAt(decoding, i)
    BY DEF Row!runCodec
  <2> QED
    BY <1>2, <2>1, RemovedFrom DEF RowInv
<1>4. CASE ~decoding[i].live
  BY <1>2, <1>3, <1>4 DEF Row!runCodec, RowInv
<1>5. CASE decoding[i].live /\ ok
  <2>1. codec' = [text |-> codecScript.id, error |-> FALSE, pending |-> FALSE]
    BY <1>1, <1>5 DEF Row!runCodec, Row!Idle
  <2> QED
    BY <1>2, <1>3, <2>1, PanelsAssumption DEF RowInv
<1>6. CASE decoding[i].live /\ ~ok
  <2>1. codec' = [text |-> Row!NoText, error |-> TRUE, pending |-> FALSE]
    BY <1>1, <1>6 DEF Row!runCodec, Row!Idle
  <2> QED
    BY <1>2, <1>3, <2>1 DEF RowInv
<1> QED
  BY <1>1, <1>4, <1>5, <1>6 DEF Call

LEMMA RowStep == RowInv /\ [Row!Next]_(Row!vars) => RowInv'
<1> SUFFICES ASSUME RowInv, [Row!Next]_(Row!vars)
             PROVE  RowInv'
  OBVIOUS
<1>1. CASE \/ \E v \in Modes : Row!setViewMode(v)
           \/ Row!toggleExpanded \/ Row!Connection \/ Row!handleSendAsRpc
           \/ \E what \in {"row", "cmd"}, ok \in BOOLEAN : Row!handleCopy(what, ok)
           \/ \E what \in marks : Row!Unmark(what)
           \/ \E ok \in BOOLEAN : Row!handleReplay(ok)
           \/ UNCHANGED Row!vars
  <2>1. UNCHANGED <<codecScript, cache, decoding, codec>>
    BY <1>1 DEF Row!setViewMode, Row!toggleExpanded, Row!Connection, Row!handleSendAsRpc, Row!handleCopy, Row!Unmark,
                Row!handleReplay, Row!lens, Row!vars
  <2> QED
    BY <2>1 DEF RowInv
<1> QED
  BY <1>1, ScriptKeeps, AnswerKeeps DEF Row!Next

\* A step of the desk is one of the part that is open, or changes nothing in it.
LEMMA RowMoves == [PanelsStep]_<<part, clicks, panelVars>> => part' = part /\ (part = "row" => [Row!Next]_(Row!vars))
BY DEF PanelsStep, PanelsNext, PanelsParts, panelVars, row, Row!vars, Row!row, Row!lens, Row!out

\* Of these parts alone: see DecodedByScriptInForce in Desk_proofs.
LEMMA DecodedByScriptInForceInPanels ==
    PanelsSpec => []DecodedByKey
<1> DEFINE Holds == part = "row" => RowInv
<1>1. PanelsInit => Holds
  BY RowInit DEF PanelsInit
<1>2. Holds /\ [PanelsStep]_<<part, clicks, panelVars>> => Holds'
  BY RowStep, RowMoves
<1>3. Holds => DecodedByKey
  BY RowTold DEF DecodedByKey
<1> QED
  BY <1>1, <1>2, <1>3, PTL DEF PanelsSpec

-----------------------------------------------------------------------------
(* The cards of the bridge: a link that is there is on its card. *)

LEMMA Counted == \A S : Links!Cardinality(S) = Cardinality(S)
BY DEF Links!Cardinality, Cardinality

LEMMA Injective == \A f : Links!IsInjective(f) <=> IsInjective(f)
BY DEF Links!IsInjective, IsInjective

\* A finite set as a sequence has each element once.
LEMMA Listed ==
    ASSUME NEW S, IsFiniteSet(S)
    PROVE  Links!SetToSeq(S) \in Seq(S) /\ IsInjective(Links!SetToSeq(S))
<1>1. Links!SetToSeq(S) = CHOOSE f \in [1 .. Cardinality(S) -> S] : IsInjective(f)
  BY Counted, Injective DEF Links!SetToSeq
<1>2. PICK f \in [1 .. Cardinality(S) -> S] : IsInjective(f)
  BY FS_CardinalityType DEF ExistsBijection, Bijection, Injection
<1>3. Links!SetToSeq(S) \in [1 .. Cardinality(S) -> S] /\ IsInjective(Links!SetToSeq(S))
  BY <1>1, <1>2
<1>4. Cardinality(S) \in Nat
  BY FS_CardinalityType
<1> QED
  BY <1>3, <1>4

Shown == [Conn -> {"absent", "down", "up"}]
LinkCall == {call \in [op : {"connect", "disconnect"}, id : Conn, endpoint : Endpoint \cup {NoValue},
                      at : {"asked", "built", "failed", "ok"}] : call.at \in {"built", "failed"} => call.op = "connect"}
LinkTypes ==
    /\ connections \subseteq Conn /\ IsFiniteSet(connections)
    /\ remember \in [Conn -> Endpoint \cup {NoValue}]
    /\ conns \in Shown /\ linkEvents \in Seq(Shown) /\ calls \in Seq(LinkCall)
    /\ table \in [Conn -> Nat \cup {NoValue}] /\ started \in Nat

\* What a card will show once every event is there.
Final(c) == IF linkEvents = <<>> THEN conns[c] ELSE linkEvents[Len(linkEvents)][c]
CardShows(c) == Final(c) = "absent" => table[c] = NoValue
\* Calls about one connection that never overlapped: at most one is under way, and a disconnect
\* that ran leaves nothing behind.
Single(c) ==
    /\ \A k, l \in DOMAIN calls : calls[k].id = c /\ calls[l].id = c => k = l
    /\ \A k \in DOMAIN calls : calls[k].id = c /\ calls[k].op = "disconnect" /\ calls[k].at = "ok" => table[c] = NoValue
LinksInv == LinkTypes /\ \A c \in Conn \ overlapped : CardShows(c) /\ Single(c)

LEMMA LinksInit == Links!Init => LinksInv
<1> SUFFICES ASSUME Links!Init
             PROVE  LinksInv
  OBVIOUS
<1>1. IsFiniteSet({"src", "dst"})
  <2>1. IsFiniteSet({"src"}) /\ {"src"} \cup {"dst"} = {"src", "dst"}
    BY FS_Singleton
  <2> QED
    BY <2>1, FS_AddElement
<1>2. LinkTypes
  BY <1>1, ConnAssumption DEF Links!Init, LinkTypes, Shown
<1>3. linkEvents = <<>> /\ calls = <<>> /\ \A c \in Conn : table[c] = NoValue
  BY DEF Links!Init
<1> QED
  BY <1>2, <1>3 DEF LinksInv, CardShows, Single

LEMMA LinksTold == LinksInv => Links!NoneHidden
BY DEF LinksInv, LinkTypes, CardShows, Final, Links!NoneHidden, Links!Quiet

\* Calls that go out leave it so, but for the connections that have one already.
LEMMA Invoked ==
    ASSUME LinksInv, NEW cs \in Seq(LinkCall), Links!Invoke(cs), \A k \in DOMAIN cs : cs[k].at = "asked",
           \A k, l \in DOMAIN cs : cs[k].id = cs[l].id => k = l, table' = table
    PROVE  /\ calls' \in Seq(LinkCall) /\ overlapped \subseteq overlapped'
           /\ \A c \in Conn \ overlapped' : Single(c)'
<1>1. calls' = calls \o cs /\ calls \in Seq(LinkCall)
  BY DEF Links!Invoke, LinksInv, LinkTypes
<1>2. calls' \in Seq(LinkCall)
  BY <1>1
<1>3. overlapped \subseteq overlapped'
  BY DEF Links!Invoke
<1>4. ASSUME NEW c \in Conn \ overlapped'
      PROVE  Single(c)'
  <2>1. Single(c)
    BY <1>3, <1>4 DEF LinksInv
  <2>2. ~((\E k \in DOMAIN calls : calls[k].id = c) /\ (\E k \in DOMAIN cs : cs[k].id = c))
    BY <1>4 DEF Links!Invoke
  <2>3. PICK n \in Nat, m \in Nat : n = Len(calls) /\ m = Len(cs)
    BY <1>1
  <2>4. /\ DOMAIN calls = 1 .. n /\ DOMAIN cs = 1 .. m /\ DOMAIN calls' = 1 .. n + m
        /\ \A k \in 1 .. n : calls'[k] = calls[k]
        /\ \A k \in n + 1 .. n + m : calls'[k] = cs[k - n] /\ k - n \in 1 .. m
    BY <1>1, <2>3
  <2>5. CASE \A k \in DOMAIN cs : cs[k].id # c
    <3>1. \A k \in DOMAIN calls' : calls'[k].id = c => k \in DOMAIN calls /\ calls'[k] = calls[k]
      BY <2>4, <2>5
    <3> QED
      BY <2>1, <3>1 DEF Single
  <2>6. CASE \A k \in DOMAIN calls : calls[k].id # c
    <3>1. \A k \in DOMAIN calls' : calls'[k].id = c => k - n \in DOMAIN cs /\ calls'[k] = cs[k - n]
      BY <2>4, <2>6
    <3>2. \A k \in DOMAIN calls' : calls'[k].id = c => calls'[k].at = "asked"
      BY <3>1
    <3>3. \A k, l \in DOMAIN calls' : calls'[k].id = c /\ calls'[l].id = c => k = l
      <4> SUFFICES ASSUME NEW k \in DOMAIN calls', NEW l \in DOMAIN calls', calls'[k].id = c, calls'[l].id = c
                   PROVE  k = l
        OBVIOUS
      <4>1. k - n = l - n /\ k \in Int /\ l \in Int
        BY <2>4, <3>1
      <4> QED
        BY <4>1
    <3> QED
      BY <3>2, <3>3 DEF Single
  <2> QED
    BY <2>2, <2>5, <2>6
<1> QED
  BY <1>2, <1>3, <1>4

\* A status event that is sent is a copy of the table.
LEMMA TellsAll ==
    ASSUME LinksInv, NEW u, Links!emit_status(table', u), conns' = conns, table' \in [Conn -> Nat \cup {NoValue}]
    PROVE  linkEvents' \in Seq(Shown) /\ \A c \in Conn : CardShows(c)'
<1> DEFINE copy == Links!bridge_status(table', u)
<1>1. copy \in Shown /\ \A c \in Conn : copy[c] = "absent" => table'[c] = NoValue
  BY DEF Links!bridge_status, Shown
<1>2. linkEvents' = Append(linkEvents, copy)
  BY DEF Links!emit_status
<1> HIDE DEF copy
<1>3. linkEvents' \in Seq(Shown) /\ linkEvents' # <<>> /\ linkEvents'[Len(linkEvents')] = copy
  <2>1. linkEvents \in Seq(Shown)
    BY DEF LinksInv, LinkTypes
  <2> QED
    BY <1>1, <1>2, <2>1
<1> QED
  BY <1>1, <1>3 DEF CardShows, Final

\* A call gets on, and what it is about loses its link at most.
LEMMA CallKeeps ==
    ASSUME LinksInv, NEW k \in DOMAIN calls, NEW at \in {"built", "failed", "ok"},
           calls' = [calls EXCEPT ![k].at = at], UNCHANGED <<Links!window, linkEvents, overlapped, started>>,
           table' = table \/ table' = [table EXCEPT ![calls[k].id] = NoValue],
           at = "ok" => table' = [table EXCEPT ![calls[k].id] = NoValue], at # "ok" => calls[k].op = "connect"
    PROVE  LinksInv'
<1>1. calls[k] \in LinkCall
  BY DEF LinksInv, LinkTypes
<1>2. calls' \in Seq(LinkCall) /\ DOMAIN calls' = DOMAIN calls
      /\ \A l \in DOMAIN calls : calls'[l].id = calls[l].id /\ calls'[l].op = calls[l].op
                                 /\ (l # k => calls'[l].at = calls[l].at) /\ (l = k => calls'[l].at = at)
  <2>1. [calls[k] EXCEPT !.at = at] \in LinkCall /\ [calls[k] EXCEPT !.at = at].id = calls[k].id
        /\ [calls[k] EXCEPT !.at = at].op = calls[k].op /\ [calls[k] EXCEPT !.at = at].at = at
    BY <1>1 DEF LinkCall
  <2> QED
    BY <2>1 DEF LinksInv, LinkTypes
<1>3. table' \in [Conn -> Nat \cup {NoValue}] /\ \A c \in Conn : table[c] = NoValue => table'[c] = NoValue
  BY <1>1 DEF LinksInv, LinkTypes, LinkCall
<1>4. at = "ok" => table'[calls[k].id] = NoValue
  BY <1>1 DEF LinksInv, LinkTypes, LinkCall
<1>5. LinkTypes'
  BY <1>2, <1>3 DEF LinksInv, LinkTypes, Links!window
<1>6. ASSUME NEW c \in Conn \ overlapped
      PROVE  CardShows(c)' /\ Single(c)'
  <2>1. CardShows(c)'
    BY <1>3 DEF LinksInv, CardShows, Final, Links!window
  <2>2. Single(c)'
    BY <1>2, <1>3, <1>4 DEF LinksInv, Single
  <2> QED
    BY <2>1, <2>2
<1> QED
  BY <1>5, <1>6 DEF LinksInv

LEMMA EnterKeeps ==
    ASSUME LinksInv, NEW k \in DOMAIN calls, Links!ConnectEnters(k)
    PROVE  LinksInv'
<1>1. calls[k] \in LinkCall
  BY DEF LinksInv, LinkTypes
<1>2. calls' \in Seq(LinkCall) /\ DOMAIN calls' = DOMAIN calls
      /\ \A l \in DOMAIN calls : calls'[l].id = calls[l].id /\ calls'[l].op = calls[l].op
                                 /\ (l # k => calls'[l].at = calls[l].at)
  <2>1. [calls[k] EXCEPT !.at = "ok"] \in LinkCall /\ [calls[k] EXCEPT !.at = "ok"].id = calls[k].id
        /\ [calls[k] EXCEPT !.at = "ok"].op = calls[k].op
    BY <1>1 DEF LinkCall
  <2>2. calls' = [calls EXCEPT ![k].at = "ok"]
    BY DEF Links!ConnectEnters
  <2> QED
    BY <2>1, <2>2 DEF LinksInv, LinkTypes
<1>3. started' \in Nat /\ table' \in [Conn -> Nat \cup {NoValue}] /\ \A c \in Conn : c # calls[k].id => table'[c] = table[c]
  BY <1>1 DEF Links!ConnectEnters, LinksInv, LinkTypes, LinkCall
<1>4. linkEvents' \in Seq(Shown) /\ \A c \in Conn : CardShows(c)'
  BY <1>3, TellsAll DEF Links!ConnectEnters, Links!window
<1>5. UNCHANGED <<connections, remember, conns, overlapped>>
  BY DEF Links!ConnectEnters, Links!window
<1>6. ASSUME NEW c \in Conn \ overlapped
      PROVE  Single(c)'
  <2>1. Single(c)
    BY <1>6 DEF LinksInv
  <2>2. calls[k].op = "connect"
    BY <1>1 DEF Links!ConnectEnters, LinkCall
  <2>3. \A l \in DOMAIN calls' : calls'[l].id = c /\ calls'[l].op = "disconnect" /\ calls'[l].at = "ok" => l # k /\ c # calls[k].id
    BY <1>2, <2>1, <2>2 DEF Single
  <2> QED
    BY <1>2, <1>3, <2>1, <2>3 DEF Single
<1> QED
  BY <1>2, <1>3, <1>4, <1>5, <1>6 DEF LinksInv, LinkTypes

\* A sequence without its k-th element.
LEMMA LinkRemoved ==
    ASSUME NEW S, NEW s \in Seq(S), NEW k \in DOMAIN s
    PROVE  /\ Links!RemoveAt(s, k) \in Seq(S) /\ DOMAIN Links!RemoveAt(s, k) = 1 .. Len(s) - 1
           /\ \A j \in 1 .. Len(s) - 1 : Links!RemoveAt(s, k)[j] = IF j < k THEN s[j] ELSE s[j + 1]
<1> DEFINE l == SubSeq(s, 1, k - 1)
           r == SubSeq(s, k + 1, Len(s))
<1>1. k \in 1 .. Len(s) /\ Len(s) \in Nat
  OBVIOUS
<1>2. l \in Seq(S) /\ Len(l) = k - 1 /\ \A j \in 1 .. k - 1 : l[j] = s[j]
  BY <1>1
<1>3. r \in Seq(S) /\ Len(r) = Len(s) - k /\ \A j \in 1 .. Len(s) - k : r[j] = s[k + j]
  BY <1>1
<1> HIDE DEF l, r
<1>4. l \o r \in Seq(S) /\ Len(l \o r) = Len(s) - 1
      /\ \A j \in 1 .. Len(s) - 1 : (l \o r)[j] = IF j < k THEN s[j] ELSE s[j + 1]
  <2>1. l \o r \in Seq(S) /\ Len(l \o r) = Len(s) - 1
    BY <1>1, <1>2, <1>3
  <2>2. ASSUME NEW j \in 1 .. Len(s) - 1
        PROVE  (l \o r)[j] = IF j < k THEN s[j] ELSE s[j + 1]
    <3>1. CASE j < k
      <4>1. j \in 1 .. Len(l)
        BY <1>1, <1>2, <3>1
      <4>2. (l \o r)[j] = l[j]
        BY <1>2, <1>3, <4>1
      <4> QED
        BY <1>2, <3>1, <4>1, <4>2
    <3>2. CASE ~ (j < k)
      <4>1. j - Len(l) \in 1 .. Len(s) - k /\ k + (j - Len(l)) = j + 1
        BY <1>1, <1>2, <3>2
      <4>3. j \in 1 .. Len(l) + Len(r) /\ Len(l) \in Nat /\ Len(r) \in Nat /\ ~ (j <= Len(l))
        BY <1>1, <1>2, <1>3, <3>2
      <4>4. l \in Seq(S) /\ r \in Seq(S)
        BY <1>2, <1>3
      <4>2. (l \o r)[j] = r[j - Len(l)]
        BY <4>3, <4>4
      <4> QED
        BY <1>3, <3>2, <4>1, <4>2
    <3> QED
      BY <3>1, <3>2
  <2> QED
    BY <2>1, <2>2
<1>5. DOMAIN (l \o r) = 1 .. Len(s) - 1
  BY <1>4
<1> QED
  BY <1>4, <1>5 DEF Links!RemoveAt, l, r

LEMMA ReturnKeeps ==
    ASSUME LinksInv, NEW k \in DOMAIN calls, Links!Answered(k)
    PROVE  LinksInv'
<1>1. calls[k] \in LinkCall
  BY DEF LinksInv, LinkTypes
<1>2. calls' = Links!RemoveAt(calls, k) /\ UNCHANGED <<connections, linkEvents, table, started, overlapped>>
  BY DEF Links!Answered, Links!backend
<1>3. remember' \in [Conn -> Endpoint \cup {NoValue}]
  BY <1>1 DEF Links!Answered, LinksInv, LinkTypes, LinkCall
<1>4. \/ conns' = conns
      \/ conns' = [conns EXCEPT ![calls[k].id] = "absent"] /\ calls[k].op = "disconnect" /\ calls[k].at = "ok"
  BY DEF Links!Answered
<1>5. conns' \in Shown
  BY <1>1, <1>4 DEF LinksInv, LinkTypes, LinkCall, Shown
<1>6. PICK n \in Nat : n = Len(calls) /\ k \in 1 .. n
  BY DEF LinksInv, LinkTypes
<1>7. /\ calls' \in Seq(LinkCall) /\ DOMAIN calls' = 1 .. n - 1
      /\ \A j \in 1 .. n - 1 : calls'[j] = IF j < k THEN calls[j] ELSE calls[j + 1]
  <2>1. calls \in Seq(LinkCall)
    BY DEF LinksInv, LinkTypes
  <2>2. /\ Links!RemoveAt(calls, k) \in Seq(LinkCall) /\ DOMAIN Links!RemoveAt(calls, k) = 1 .. Len(calls) - 1
        /\ \A j \in 1 .. Len(calls) - 1 : Links!RemoveAt(calls, k)[j] = IF j < k THEN calls[j] ELSE calls[j + 1]
    BY <2>1, LinkRemoved
  <2> QED
    BY <1>2, <1>6, <2>2
<1>8. ASSUME NEW c \in Conn \ overlapped
      PROVE  CardShows(c)' /\ Single(c)'
  <2>1. CardShows(c) /\ Single(c)
    BY <1>8 DEF LinksInv
  <2>2. conns'[c] = conns[c] \/ table[c] = NoValue
    BY <1>4, <2>1 DEF Single, LinksInv, LinkTypes, Shown
  <2>3. CardShows(c)'
    BY <1>2, <2>1, <2>2 DEF CardShows, Final
  <2>4. DOMAIN calls = 1 .. n
    BY <1>6 DEF LinksInv, LinkTypes
  <2>5. ASSUME NEW i \in 1 .. n - 1, NEW j \in 1 .. n - 1, calls'[i].id = c, calls'[j].id = c
        PROVE  i = j
    <3> DEFINE i1 == IF i < k THEN i ELSE i + 1
               j1 == IF j < k THEN j ELSE j + 1
    <3>1. i1 \in DOMAIN calls /\ j1 \in DOMAIN calls /\ calls'[i] = calls[i1] /\ calls'[j] = calls[j1]
      BY <1>6, <1>7, <2>4
    <3>2. i1 = j1
      BY <2>1, <2>5, <3>1 DEF Single
    <3> QED
      BY <1>6, <3>2
  <2>6. ASSUME NEW j \in 1 .. n - 1, calls'[j].id = c, calls'[j].op = "disconnect", calls'[j].at = "ok"
        PROVE  table'[c] = NoValue
    <3> DEFINE j1 == IF j < k THEN j ELSE j + 1
    <3>1. j1 \in DOMAIN calls /\ calls'[j] = calls[j1]
      BY <1>6, <1>7, <2>4
    <3> QED
      BY <1>2, <2>1, <2>6, <3>1 DEF Single
  <2>7. Single(c)'
    BY <1>7, <2>5, <2>6 DEF Single
  <2> QED
    BY <2>3, <2>7
<1> QED
  BY <1>2, <1>3, <1>5, <1>7, <1>8 DEF LinksInv, LinkTypes

\* The window calls, or is not touched at all.
LEMMA CallsKeep ==
    ASSUME LinksInv, conns' = conns, linkEvents' = linkEvents, table' = table, started' = started,
           connections' \subseteq Conn, IsFiniteSet(connections)', remember' \in [Conn -> Endpoint \cup {NoValue}],
           \/ \E cs \in Seq(LinkCall) :
                 /\ Links!Invoke(cs) /\ \A k \in DOMAIN cs : cs[k].at = "asked"
                 /\ \A k, l \in DOMAIN cs : cs[k].id = cs[l].id => k = l
           \/ calls' = calls /\ overlapped' = overlapped
    PROVE  LinksInv'
<1>1. CASE \E cs \in Seq(LinkCall) : /\ Links!Invoke(cs) /\ \A k \in DOMAIN cs : cs[k].at = "asked"
                                    /\ \A k, l \in DOMAIN cs : cs[k].id = cs[l].id => k = l
  <2>1. calls' \in Seq(LinkCall) /\ overlapped \subseteq overlapped' /\ \A c \in Conn \ overlapped' : Single(c)'
    BY <1>1, Invoked
  <2> QED
    BY <2>1 DEF LinksInv, LinkTypes, CardShows, Final
<1>2. CASE calls' = calls /\ overlapped' = overlapped
  BY <1>2 DEF LinksInv, LinkTypes, CardShows, Final, Single
<1> QED
  BY <1>1, <1>2

LEMMA OneCall ==
    ASSUME NEW op \in {"connect", "disconnect"}, NEW c \in Conn, NEW e \in Endpoint \cup {NoValue}, Links!Invoke(<<Links!Ask(op, c, e)>>)
    PROVE  \E cs \in Seq(LinkCall) :
              /\ Links!Invoke(cs) /\ \A k \in DOMAIN cs : cs[k].at = "asked"
              /\ \A k, l \in DOMAIN cs : cs[k].id = cs[l].id => k = l
<1> DEFINE a == Links!Ask(op, c, e)
<1>1. a \in LinkCall /\ a.at = "asked"
  BY DEF Links!Ask, LinkCall
<1> HIDE DEF a
<1>2. <<a>> \in Seq(LinkCall) /\ DOMAIN <<a>> = {1} /\ <<a>>[1] = a
  BY <1>1
<1> QED
  BY <1>1, <1>2 DEF a

LEMMA AutostartKeeps == LinksInv /\ Links!Autostart => LinksInv'
<1> SUFFICES ASSUME LinksInv, Links!Autostart
             PROVE  LinksInv'
  OBVIOUS
<1> DEFINE S == {c \in connections : remember[c] # NoValue}
           ids == Links!SetToSeq(S)
           cs == [k \in DOMAIN ids |-> Links!Ask("connect", ids[k], remember[ids[k]])]
<1>1. ids \in Seq(S) /\ IsInjective(ids)
  <2>1. IsFiniteSet(S)
    BY FS_Subset DEF LinksInv, LinkTypes
  <2> QED
    BY <2>1, Listed
<1>2. Links!Invoke(cs) /\ UNCHANGED <<connections, remember, conns, linkEvents, table, started>>
  BY DEF Links!Autostart, Links!backend
<1> HIDE DEF ids
<1>3. \A k \in DOMAIN ids : ids[k] \in Conn /\ remember[ids[k]] \in Endpoint \cup {NoValue}
  BY <1>1 DEF LinksInv, LinkTypes
<1>4. \A k \in DOMAIN cs : cs[k] \in LinkCall /\ cs[k].at = "asked" /\ cs[k].id = ids[k]
  BY <1>3 DEF Links!Ask, LinkCall
<1>5. DOMAIN cs = DOMAIN ids
  OBVIOUS
<1>6. cs \in Seq(LinkCall)
  <2>1. PICK n \in Nat : DOMAIN cs = 1 .. n
    BY <1>1, <1>5
  <2>2. cs = [k \in 1 .. n |-> cs[k]]
    BY <2>1
  <2> HIDE DEF cs
  <2>3. [k \in 1 .. n |-> cs[k]] \in Seq(LinkCall)
    BY <1>4, <2>1
  <2> QED
    BY <2>2, <2>3
<1>7. \A k, l \in DOMAIN cs : cs[k].id = cs[l].id => k = l
  BY <1>1, <1>4, <1>5 DEF IsInjective
<1> HIDE DEF cs
<1> QED
  BY <1>2, <1>4, <1>6, <1>7, CallsKeep DEF LinksInv, LinkTypes

LEMMA LinkUserKeeps == LinksInv /\ Links!User => LinksInv'
<1> SUFFICES ASSUME LinksInv, Links!User
             PROVE  LinksInv'
  OBVIOUS
<1>1. ASSUME NEW c \in Conn, NEW e \in Endpoint, Links!ConnectCard(c, e)
      PROVE  LinksInv'
  BY <1>1, OneCall, CallsKeep DEF Links!ConnectCard, Links!connect, Links!backend, LinksInv, LinkTypes
<1>2. ASSUME NEW c \in Conn, Links!disconnect(c)
      PROVE  LinksInv'
  BY <1>2, OneCall, CallsKeep DEF Links!disconnect, Links!backend, Links!window, LinksInv, LinkTypes
<1>3. ASSUME NEW c \in Conn, Links!addConnection(c)
      PROVE  LinksInv'
  <2>1. connections' = connections \cup {c} /\ UNCHANGED <<remember, conns, calls, linkEvents, table, started, overlapped>>
    BY <1>3 DEF Links!addConnection, Links!backend
  <2>2. IsFiniteSet(connections')
    BY <2>1, FS_AddElement DEF LinksInv, LinkTypes
  <2> QED
    BY <2>1, <2>2, CallsKeep DEF LinksInv, LinkTypes
<1>4. ASSUME NEW c \in Conn, Links!removeConnection(c)
      PROVE  LinksInv'
  <2>1. connections' \subseteq connections /\ UNCHANGED <<conns, linkEvents, table, started>>
    BY <1>4 DEF Links!removeConnection, Links!backend
  <2>2. IsFiniteSet(connections') /\ connections' \subseteq Conn
    BY <2>1, FS_Subset DEF LinksInv, LinkTypes
  <2>3. remember' \in [Conn -> Endpoint \cup {NoValue}]
    BY <1>4 DEF Links!removeConnection, LinksInv, LinkTypes
  <2>4. (calls' = calls /\ overlapped' = overlapped) \/ Links!Invoke(<<Links!Ask("disconnect", c, NoValue)>>)
    BY <1>4 DEF Links!removeConnection
  <2> QED
    BY <2>1, <2>2, <2>3, <2>4, OneCall, CallsKeep
<1>5. CASE Links!setAutoReconnect \/ \E c \in Conn, e \in Endpoint : Links!setSelected(c, e)
  <2>1. UNCHANGED <<connections, remember, conns, calls, linkEvents, table, started, overlapped>>
    BY <1>5 DEF Links!setAutoReconnect, Links!setSelected, Links!backend
  <2> QED
    BY <2>1, CallsKeep DEF LinksInv, LinkTypes
<1>6. CASE Links!Restart
  <2>1. /\ conns' \in Shown /\ calls' = <<>> /\ linkEvents' = <<>>
        /\ table' \in [Conn -> Nat \cup {NoValue}] /\ \A c \in Conn : table'[c] = NoValue
        /\ UNCHANGED <<connections, remember, started, overlapped>>
    BY <1>6 DEF Links!Restart, Shown
  <2> QED
    BY <2>1 DEF LinksInv, LinkTypes, CardShows, Single
<1> QED
  BY <1>1, <1>2, <1>3, <1>4, <1>5, <1>6 DEF Links!User

LEMMA LinksStep == LinksInv /\ [Links!Next]_(Links!vars) => LinksInv'
<1> SUFFICES ASSUME LinksInv, [Links!Next]_(Links!vars)
             PROVE  LinksInv'
  OBVIOUS
<1>1. ASSUME NEW k \in DOMAIN calls, Links!DisconnectRuns(k) \/ Links!ConnectBegins(k) \/ Links!BuildFails(k)
      PROVE  LinksInv'
  <2>1. CASE Links!DisconnectRuns(k)
    BY <2>1, CallKeeps DEF Links!DisconnectRuns, Links!Disconnect
  <2>2. CASE Links!ConnectBegins(k)
    BY <2>2, CallKeeps DEF Links!ConnectBegins, Links!Disconnect
  <2>3. CASE Links!BuildFails(k)
    <3>1. calls[k].op = "connect"
      BY <2>3 DEF Links!BuildFails, LinksInv, LinkTypes, LinkCall
    <3> QED
      BY <2>3, <3>1, CallKeeps DEF Links!BuildFails, Links!backend
  <2> QED
    BY <1>1, <2>1, <2>2, <2>3
<1>2. ASSUME NEW k \in DOMAIN calls, Links!ConnectEnters(k)
      PROVE  LinksInv'
  BY <1>2, EnterKeeps
<1>3. ASSUME NEW s, Links!LinkChanges(s)
      PROVE  LinksInv'
  <2>1. UNCHANGED <<connections, remember, conns, calls, table, started, overlapped>>
    BY <1>3 DEF Links!LinkChanges, Links!window
  <2>2. linkEvents' \in Seq(Shown) /\ \A c \in Conn : CardShows(c)'
    BY <1>3, <2>1, TellsAll DEF Links!LinkChanges, LinksInv, LinkTypes
  <2> QED
    BY <2>1, <2>2 DEF LinksInv, LinkTypes, Single
<1>4. CASE Links!Deliver
  <2>1. UNCHANGED <<connections, remember, calls, table, started, overlapped>>
    BY <1>4 DEF Links!Deliver, Links!backend
  <2>2. linkEvents \in Seq(Shown) /\ linkEvents # <<>> /\ linkEvents' = Tail(linkEvents) /\ conns' = Head(linkEvents)
    BY <1>4 DEF Links!Deliver, LinksInv, LinkTypes
  <2>3. linkEvents' \in Seq(Shown) /\ conns' \in Shown
    BY <2>2
  <2>4. \A c \in Conn : Final(c)' = Final(c)
    <3>1. Len(Tail(linkEvents)) = Len(linkEvents) - 1 /\ Len(linkEvents) \in Nat \ {0} /\ Tail(linkEvents) \in Seq(Shown)
          /\ \A i \in 1 .. Len(Tail(linkEvents)) : Tail(linkEvents)[i] = linkEvents[i + 1]
      BY <2>2, HeadTailProperties
    <3>2. Tail(linkEvents) = <<>> <=> Len(Tail(linkEvents)) = 0
      BY <3>1, EmptySeq
    <3>3. Head(linkEvents) = linkEvents[1]
      BY <2>2
    <3>4. CASE Tail(linkEvents) = <<>>
      <4>1. Len(linkEvents) = 1
        BY <3>1, <3>2, <3>4
      <4> QED
        BY <2>2, <3>3, <3>4, <4>1 DEF Final
    <3>5. CASE Tail(linkEvents) # <<>>
      <4>1. Tail(linkEvents)[Len(Tail(linkEvents))] = linkEvents[Len(linkEvents)]
        <5>1. Len(linkEvents) - 1 # 0
          BY <3>1, <3>2, <3>5
        <5>2. Len(linkEvents) - 1 \in 1 .. Len(Tail(linkEvents)) /\ (Len(linkEvents) - 1) + 1 = Len(linkEvents)
          BY <3>1, <5>1
        <5> QED
          BY <3>1, <5>1, <5>2
      <4> QED
        BY <2>2, <3>5, <4>1 DEF Final
    <3> QED
      BY <3>4, <3>5
  <2> QED
    BY <2>1, <2>3, <2>4 DEF LinksInv, LinkTypes, Single, CardShows
<1>5. CASE Links!Lapse \/ UNCHANGED Links!vars
  <2>1. UNCHANGED <<connections, remember, conns, calls, linkEvents, table, started, overlapped>>
    BY <1>5 DEF Links!Lapse, Links!backend, Links!vars
  <2> QED
    BY <2>1, CallsKeep DEF LinksInv, LinkTypes
<1> QED
  BY <1>1, <1>2, <1>3, <1>4, <1>5, LinkUserKeeps, AutostartKeeps, ReturnKeeps DEF Links!Next, Links!Calls

\* A step of the desk is one of the part that is open, or changes nothing in it.
LEMMA LinksMoves == [PanelsStep]_<<part, clicks, panelVars>> => part' = part /\ (part = "links" => [Links!Next]_(Links!vars))
BY DEF PanelsStep, PanelsNext, PanelsParts, panelVars, links, Links!vars

\* Of these parts alone: see CardShowsItsLink in Desk_proofs.
LEMMA CardShowsItsLinkInPanels ==
    PanelsSpec => []NoneHidden
<1> DEFINE Holds == part = "links" => LinksInv
<1>1. PanelsInit => Holds
  BY LinksInit DEF PanelsInit
<1>2. Holds /\ [PanelsStep]_<<part, clicks, panelVars>> => Holds'
  BY LinksStep, LinksMoves
<1>3. Holds => NoneHidden
  BY LinksTold DEF NoneHidden
<1> QED
  BY <1>1, <1>2, <1>3, PTL DEF PanelsSpec

-----------------------------------------------------------------------------
(* Replays: what is picked of a list *)

LEMMA AtLeastZero ==
    ASSUME NEW d \in Int
    PROVE  Player!Max({0, d}) = IF d >= 0 THEN d ELSE 0
<1>1. \E x \in {0, d} : \A y \in {0, d} : x >= y
  OBVIOUS
<1>2. Player!Max({0, d}) \in {0, d} /\ \A y \in {0, d} : Player!Max({0, d}) >= y
  BY <1>1 DEF Player!Max
<1> QED
  BY <1>2

LEMMA AtMost ==
    ASSUME NEW x \in Nat, NEW c \in Nat
    PROVE  Player!Min({x, c}) \in Nat
<1>1. \E z \in {x, c} : \A y \in {x, c} : z <= y
  OBVIOUS
<1>2. Player!Min({x, c}) \in {x, c}
  BY <1>1 DEF Player!Min
<1> QED
  BY <1>2

LEMMA Quotient ==
    ASSUME NEW x \in Nat, NEW c \in Nat \ {0}
    PROVE  x \div c \in Nat
OBVIOUS

\* The m places that are picked of a list of n, and of every list that goes the same way.
PickedAt(order, m, n, s, w) ==
    /\ order \in [1 .. m -> 1 .. n] /\ \A i, j \in 1 .. m : i < j => order[i] < order[j]
    /\ \A t : DOMAIN t = 1 .. n /\ (\A i \in 1 .. n : t[i].direction = s[i].direction) =>
              Player!Picked(t, w) = [i \in 1 .. m |-> t[order[i]]]

LEMMA Picks ==
    ASSUME NEW n \in Nat, NEW s, DOMAIN s = 1 .. n, NEW w
    PROVE  \E order : \E m \in Nat : PickedAt(order, m, n, s, w)
<1> DEFINE P == {i \in DOMAIN s : w \in {"both", s[i].direction}}
           order == Player!Ascending(P)
           m == Cardinality(P)
<1>1. P \subseteq 1 .. n
  OBVIOUS
<1>2. m \in Nat /\ order \in [1 .. m -> P] /\ \A i, j \in 1 .. m : i < j => order[i] < order[j]
  <2> HIDE DEF P
  <2>1. PICK r : Enumerates(r, P)
    BY <1>1, CanAscend
  <2>2. Player!Cardinality(P) = Cardinality(P)
    BY DEF Player!Cardinality, Cardinality
  <2>3. \E q \in [1 .. Cardinality(P) -> P] : \A i, j \in DOMAIN q : i < j => q[i] < q[j]
    BY <2>1 DEF Enumerates
  <2>4. order \in [1 .. m -> P] /\ \A i, j \in DOMAIN order : i < j => order[i] < order[j]
    BY <2>2, <2>3 DEF Player!Ascending
  <2>5. m \in Nat
    BY <1>1, BoundedIsFinite, FS_CardinalityType
  <2> QED
    BY <2>4, <2>5
<1>3. ASSUME NEW t, DOMAIN t = 1 .. n, \A i \in 1 .. n : t[i].direction = s[i].direction
      PROVE  Player!Picked(t, w) = [i \in 1 .. m |-> t[order[i]]]
  <2>1. {i \in DOMAIN t : w \in {"both", t[i].direction}} = P
    BY <1>3
  <2>2. DOMAIN order = 1 .. m
    BY <1>2
  <2> QED
    BY <2>1, <2>2 DEF Player!Picked
<1> HIDE DEF P, order, m
<1>4. order \in [1 .. m -> 1 .. n]
  BY <1>1, <1>2
<1>5. PickedAt(order, m, n, s, w)
  BY <1>2, <1>3, <1>4 DEF PickedAt
<1> QED
  BY <1>2, <1>5

-----------------------------------------------------------------------------
(* Replays: the file *)

Size == Len(replayArchive)
Newest(n) == SubSeq(Player!Reverse(replayArchive), 1, n)
Capture(n, c) == Player!buildCapture(Newest(n), c)

\* The events of the file, and what is read of it.
Tape(n) == LET sorted == Player!Ordered(Newest(n))
           IN  [i \in DOMAIN Newest(n) |-> Player!EventAt(sorted[i], sorted[1].ts)]
\* What is read of its first k lines.
Begun(n, k) == [i \in 1 .. k |-> Tape(n)[i]]
Read(n, c, k) == [error |-> Player!None, header |-> <<Player!Header(Tape(n), c)>>, events |-> Begun(n, k)]

LEMMA WrittenIs ==
    ASSUME NEW n
    PROVE  Player!Written(n) = Capture(n, n < Size)
BY DEF Player!Written, Capture, Newest, Size

LEMMA NewestIs ==
    ASSUME Player!InOrder(replayArchive), NEW n \in 1 .. Size
    PROVE  /\ Size \in Nat /\ DOMAIN replayArchive = 1 .. Size
           /\ DOMAIN Newest(n) = 1 .. n /\ Len(Newest(n)) = n
           /\ \A i \in 1 .. n : Newest(n)[i] = replayArchive[Size - i + 1]
<1> DEFINE S == Player!ToSet(replayArchive)
           back == Player!Reverse(replayArchive)
<1>1. replayArchive \in Seq(S)
  BY DEF Player!InOrder
<1>2. Size \in Nat /\ DOMAIN replayArchive = 1 .. Size /\ \A i \in 1 .. Size : replayArchive[i] \in S
  <2> HIDE DEF S
  <2> QED
    BY <1>1, LenProperties, ElementOfSeq DEF Size
<1>3. back = [i \in 1 .. Size |-> replayArchive[(Size - i) + 1]]
  BY DEF Player!Reverse, Size
<1>4. \A i \in 1 .. n : back[i] = replayArchive[Size - i + 1] /\ back[i] \in S
  <2> TAKE i \in 1 .. n
  <2>1. i \in 1 .. Size /\ Size - i + 1 \in 1 .. Size
    BY <1>2
  <2> QED
    BY <1>2, <1>3, <2>1
<1> HIDE DEF back, S
<1>5. /\ Newest(n) \in Seq(S) /\ Len(Newest(n)) = n
      /\ \A i \in 1 .. n : Newest(n)[i] = back[i]
  <2>1. 1 \in Int /\ n \in Int /\ 1 <= n /\ n - 1 + 1 = n
    BY <1>2
  <2>2. Newest(n) = SubSeq(back, 1, n)
    BY DEF Newest, back
  <2>3. /\ SubSeq(back, 1, n) \in Seq(S)
        /\ Len(SubSeq(back, 1, n)) = IF 1 <= n THEN n - 1 + 1 ELSE 0
        /\ \A i \in 1 .. n - 1 + 1 : SubSeq(back, 1, n)[i] = back[1 + i - 1]
    BY <1>4, <2>1, SubSeqProperties
  <2> QED
    BY <2>1, <2>2, <2>3
<1>6. DOMAIN Newest(n) = 1 .. n
  BY <1>5, LenProperties
<1> QED
  BY <1>2, <1>4, <1>5, <1>6

LEMMA CaptureIs ==
    ASSUME Player!InOrder(replayArchive), NEW n \in 1 .. Size, NEW c
    PROVE  /\ Len(Capture(n, c)) = n + 1 /\ DOMAIN Capture(n, c) = 1 .. n + 1
           /\ Capture(n, c) \in Seq({Capture(n, c)[i] : i \in 1 .. n + 1})
           /\ Capture(n, c)[1] = [kind |-> "header", of |-> Player!Header(Tape(n), c)]
           /\ \A i \in 1 .. n : Capture(n, c)[i + 1] = [kind |-> "event", of |-> Tape(n)[i]]
<1> DEFINE h == [kind |-> "header", of |-> Player!Header(Tape(n), c)]
           line(i) == [kind |-> "event", of |-> Tape(n)[i]]
           body == [i \in 1 .. n |-> line(i)]
           S == {h} \cup {line(i) : i \in 1 .. n}
<1>1. DOMAIN Tape(n) = 1 .. n /\ n \in Nat
  BY NewestIs DEF Tape
<1>2. Capture(n, c) = <<h>> \o body
  <2>1. body = [i \in DOMAIN Tape(n) |-> [kind |-> "event", of |-> Tape(n)[i]]]
    BY <1>1
  <2> QED
    BY <2>1 DEF Capture, Player!buildCapture, Tape
<1>3. <<h>> \in Seq(S) /\ Len(<<h>>) = 1 /\ <<h>>[1] = h
  OBVIOUS
<1>4. body \in Seq(S) /\ Len(body) = n
  BY <1>1
<1>5. \A i \in 1 .. n : body[i] = line(i)
  OBVIOUS
<1> HIDE DEF h, body, S, line
<1>6. /\ <<h>> \o body \in Seq(S) /\ Len(<<h>> \o body) = Len(<<h>>) + Len(body)
      /\ \A i \in 1 .. Len(<<h>>) + Len(body) :
            (<<h>> \o body)[i] = IF i <= Len(<<h>>) THEN <<h>>[i] ELSE body[i - Len(<<h>>)]
  BY <1>3, <1>4, ConcatProperties
<1>7. Len(Capture(n, c)) = n + 1 /\ Capture(n, c) \in Seq(S)
      /\ \A i \in 1 .. n + 1 : Capture(n, c)[i] = IF i <= 1 THEN <<h>>[i] ELSE body[i - 1]
  BY <1>1, <1>2, <1>3, <1>4, <1>6
<1>8. DOMAIN Capture(n, c) = 1 .. n + 1
  BY <1>7, LenProperties
<1>9. Capture(n, c)[1] = h
  BY <1>1, <1>3, <1>7
<1>10. \A i \in 1 .. n : Capture(n, c)[i + 1] = line(i)
  <2> TAKE i \in 1 .. n
  <2>1. i + 1 \in 1 .. n + 1 /\ ~ (i + 1 <= 1) /\ (i + 1) - 1 = i
    BY <1>1
  <2> QED
    BY <1>5, <1>7, <2>1
<1>11. Capture(n, c) \in Seq({Capture(n, c)[i] : i \in 1 .. n + 1})
  <2> DEFINE R == {Capture(n, c)[i] : i \in 1 .. n + 1}
  <2>1. Capture(n, c) \in [1 .. n + 1 -> S]
    BY <1>7, LenProperties
  <2>2. Capture(n, c) \in [1 .. n + 1 -> R]
    BY <2>1
  <2>3. n + 1 \in Nat
    BY <1>1
  <2> HIDE DEF R
  <2>4. Capture(n, c) \in Seq(R)
    BY <2>2, <2>3
  <2> QED
    BY <2>4 DEF R
<1> QED
  BY <1>7, <1>8, <1>9, <1>10, <1>11 DEF h, line

\* What is taken for a capture.
LEMMA Accepted ==
    ASSUME NEW text, Player!parseCapture(text).error = Player!None
    PROVE  /\ text # <<>> /\ text[1].kind = "header" /\ text[1].of.format = "dropqtt-capture/1"
           /\ \A i \in 2 .. Len(text) : text[i].kind = "event"
           /\ Len(text) # 1
<1>1. \A why, line : Player!Reject(why, line).error # Player!None
  BY DEF Player!Reject, Player!None
<1>2. text # <<>> /\ text[1].kind = "header" /\ text[1].of.format = "dropqtt-capture/1"
  BY <1>1 DEF Player!parseCapture
<1>3. {i \in 2 .. Len(text) : text[i].kind # "event"} = {}
  BY <1>1, <1>2 DEF Player!parseCapture
<1>4. Len(text) # 1
  BY <1>1, <1>2, <1>3 DEF Player!parseCapture
<1> QED
  BY <1>2, <1>3, <1>4

\* By time, then as it is listed: every place of a list is taken.
LEMMA PlacesTaken ==
    ASSUME NEW n \in Nat, NEW s, DOMAIN s = 1 .. n, \A i \in 1 .. n : s[i].ts \in Nat, NEW k \in 1 .. n
    PROVE  \E i \in 1 .. n : Player!Place(s, i) = k
<1> DEFINE Before(i) == {j \in DOMAIN s : s[j].ts < s[i].ts \/ (s[j].ts = s[i].ts /\ j <= i)}
           f == [i \in 1 .. n |-> Cardinality(Before(i))]
<1>1. IsFiniteSet(1 .. n) /\ Cardinality(1 .. n) = n
  <2>1. 1 \in Int /\ n \in Int /\ ~ (1 > n) /\ n - 1 + 1 = n
    OBVIOUS
  <2> QED
    BY <2>1, FS_Interval
<1>2. ASSUME NEW i \in 1 .. n
      PROVE  /\ Before(i) \subseteq 1 .. n /\ i \in Before(i) /\ IsFiniteSet(Before(i))
             /\ Player!Place(s, i) = Cardinality(Before(i)) /\ Cardinality(Before(i)) \in 1 .. n
  <2>1. Before(i) \subseteq 1 .. n /\ i \in Before(i)
    OBVIOUS
  <2>2. Player!Place(s, i) = Cardinality(Before(i))
    BY DEF Player!Place, Player!Cardinality, Cardinality
  <2> HIDE DEF Before
  <2>3. IsFiniteSet(Before(i)) /\ Cardinality(Before(i)) <= n
    BY <1>1, <2>1, FS_Subset
  <2>4. Cardinality(Before(i)) \in Nat /\ Cardinality(Before(i)) # 0
    BY <2>1, <2>3, FS_CardinalityType, FS_EmptySet
  <2> QED
    BY <2>1, <2>2, <2>3, <2>4
<1>3. ASSUME NEW i \in 1 .. n, NEW j \in 1 .. n, s[i].ts < s[j].ts \/ (s[i].ts = s[j].ts /\ i < j)
      PROVE  Cardinality(Before(i)) # Cardinality(Before(j))
  <2>1. Before(i) \subseteq Before(j) /\ j \notin Before(i)
    <3>1. \A a, b, d \in Nat : (a < b /\ b < d => a < d) /\ (a < b => ~ (b < a) /\ b # a)
      OBVIOUS
    <3> QED
      BY <1>3, <3>1
  <2> HIDE DEF Before
  <2> QED
    BY <1>2, <2>1, FS_Subset
<1>4. ASSUME NEW i \in 1 .. n, NEW j \in 1 .. n, i # j
      PROVE  Cardinality(Before(i)) # Cardinality(Before(j))
  <2>1. \/ s[i].ts < s[j].ts \/ (s[i].ts = s[j].ts /\ i < j)
        \/ s[j].ts < s[i].ts \/ (s[j].ts = s[i].ts /\ j < i)
    BY <1>4
  <2> HIDE DEF Before
  <2> QED
    BY <1>3, <2>1
<1> HIDE DEF Before
<1>5. f \in Injection(1 .. n, 1 .. n)
  BY <1>2, <1>4 DEF Injection, IsInjective
<1>6. f \in Surjection(1 .. n, 1 .. n)
  <2> HIDE DEF f
  <2> QED
    BY <1>1, <1>5, FS_Injection
<1>7. \E i \in 1 .. n : f[i] = k
  BY <1>6 DEF Surjection
<1> QED
  BY <1>2, <1>7

\* A message with a time, what a tape holds, and what the lines of a file after the first do.
IsEvent(e) == {"id", "props", "t"} \subseteq DOMAIN e /\ e.t \in Int
Taped(e) == \E m \in Nat \ {0} : Len(e) = m /\ DOMAIN e = 1 .. m /\ \A i \in 1 .. m : IsEvent(e[i])
FileLines(text) == Len(text) \in Nat \ {0} /\ \A i \in 2 .. Len(text) : IsEvent(text[i].of)

LEMMA LinesTaken ==
    ASSUME NEW text, FileLines(text), Player!parseCapture(text).error = Player!None
    PROVE  Taped(Player!parseCapture(text).events)
<1> DEFINE Bad == {i \in 2 .. Len(text) : text[i].kind # "event"}
<1>1. /\ text # <<>> /\ text[1].kind = "header" /\ text[1].of.format = "dropqtt-capture/1"
      /\ Bad = {} /\ Len(text) # 1
  BY Accepted
<1>2. Player!parseCapture(text) = [error |-> Player!None, header |-> <<text[1].of>>,
                                   events |-> [k \in 1 .. Len(text) - 1 |-> text[k + 1].of]]
  BY <1>1 DEF Player!parseCapture
<1>3. Len(text) - 1 \in Nat \ {0} /\ \A k \in 1 .. Len(text) - 1 : k + 1 \in 2 .. Len(text)
  BY <1>1 DEF FileLines
<1>4. Player!parseCapture(text).events = [k \in 1 .. Len(text) - 1 |-> text[k + 1].of]
  BY <1>2
<1>5. Len(Player!parseCapture(text).events) = Len(text) - 1
  <2> DEFINE e == Player!parseCapture(text).events
  <2>1. e = [k \in 1 .. Len(text) - 1 |-> e[k]]
    BY <1>4
  <2> HIDE DEF e
  <2>2. Len(e) = Len(text) - 1
    BY <1>3, <2>1, ListIs
  <2> QED
    BY <2>2 DEF e
<1> QED
  BY <1>3, <1>4, <1>5 DEF Taped, FileLines

LEMMA TapeTyped ==
    ASSUME Player!InOrder(replayArchive), NEW n \in 1 .. Size
    PROVE  DOMAIN Tape(n) = 1 .. n /\ n \in Nat \ {0} /\ \A k \in 1 .. n : IsEvent(Tape(n)[k])
<1> DEFINE s == Newest(n)
           sorted == Player!Ordered(s)
<1>1. /\ Size \in Nat /\ n \in Nat \ {0} /\ n <= Size /\ DOMAIN replayArchive = 1 .. Size
      /\ DOMAIN s = 1 .. n /\ \A i \in 1 .. n : s[i] = replayArchive[Size - i + 1]
  BY NewestIs
<1>2. \A i \in 1 .. n : s[i].ts \in Nat
  <2> TAKE i \in 1 .. n
  <2>1. Size - i + 1 \in DOMAIN replayArchive
    BY <1>1
  <2>2. replayArchive[Size - i + 1].ts \in Nat
    BY <2>1, Zenon DEF Player!InOrder
  <2> QED
    BY <1>1, <2>2
<1> HIDE DEF s
<1>3. \A k \in 1 .. n : sorted[k].ts \in Nat
  <2> TAKE k \in 1 .. n
  <2>1. \E i \in 1 .. n : Player!Place(s, i) = k
    <3>1. n \in Nat /\ DOMAIN s = 1 .. n
      BY <1>1
    <3> HIDE DEF sorted
    <3> QED
      BY <1>2, <3>1, PlacesTaken
  <2>2. sorted[k] = s[CHOOSE i \in DOMAIN s : Player!Place(s, i) = k]
    BY <1>1 DEF Player!Ordered
  <2> QED
    BY <1>1, <1>2, <2>1, <2>2
<1>4. DOMAIN Tape(n) = 1 .. n /\ \A k \in 1 .. n : Tape(n)[k] = Player!EventAt(sorted[k], sorted[1].ts)
  BY <1>1 DEF Tape, s
<1> HIDE DEF sorted
<1>5. ASSUME NEW k \in 1 .. n
      PROVE  IsEvent(Tape(n)[k])
  <2> DEFINE d == sorted[k].ts - sorted[1].ts
  <2>1. 1 \in 1 .. n
    BY <1>1
  <2>2. d \in Int
    BY <1>3, <2>1
  <2>3. Tape(n)[k] = [t |-> Player!Max({0, d}), ts |-> sorted[k].ts, topic |-> sorted[k].topic,
                      id |-> sorted[k].id, direction |-> sorted[k].direction, props |-> sorted[k].props]
    BY <1>4 DEF Player!EventAt
  <2> HIDE DEF d
  <2>4. Player!Max({0, d}) \in Int
    BY <2>2, AtLeastZero
  <2> QED
    BY <2>3, <2>4 DEF IsEvent
<1> QED
  BY <1>1, <1>4, <1>5

LEMMA WholeLines ==
    ASSUME Player!InOrder(replayArchive), NEW n \in 1 .. Size, NEW c
    PROVE  /\ FileLines(Capture(n, c))
           /\ \A i \in 2 .. n + 1 : /\ IsEvent(Capture(n, c)[i].of) /\ Capture(n, c)[i].kind = "event"
                                    /\ DOMAIN Capture(n, c)[i] = {"kind", "of"}
<1>1. /\ n \in Nat \ {0} /\ Len(Capture(n, c)) = n + 1
      /\ \A i \in 1 .. n : Capture(n, c)[i + 1] = [kind |-> "event", of |-> Tape(n)[i]] /\ IsEvent(Tape(n)[i])
  BY CaptureIs, TapeTyped
<1>2. \A i \in 2 .. n + 1 : i - 1 \in 1 .. n /\ (i - 1) + 1 = i
  BY <1>1
<1>3. ASSUME NEW i \in 2 .. n + 1
      PROVE  /\ IsEvent(Capture(n, c)[i].of) /\ Capture(n, c)[i].kind = "event"
             /\ DOMAIN Capture(n, c)[i] = {"kind", "of"}
  <2>1. Capture(n, c)[i] = [kind |-> "event", of |-> Tape(n)[i - 1]] /\ IsEvent(Tape(n)[i - 1])
    BY <1>1, <1>2
  <2> QED
    BY <2>1
<1> QED
  BY <1>1, <1>3 DEF FileLines

\* A line before others.
LEMMA FirstAndRest ==
    ASSUME NEW S, NEW h \in S, NEW body \in Seq(S)
    PROVE  /\ Len(<<h>> \o body) = Len(body) + 1 /\ (<<h>> \o body)[1] = h
           /\ Len(body) \in Nat /\ \A i \in 2 .. Len(body) + 1 : (<<h>> \o body)[i] = body[i - 1]
<1>1. <<h>> \in Seq(S) /\ Len(<<h>>) = 1 /\ <<h>>[1] = h
  OBVIOUS
<1>2. Len(body) \in Nat
  BY LenProperties
<1>3. /\ Len(<<h>> \o body) = Len(<<h>>) + Len(body)
      /\ \A i \in 1 .. Len(<<h>>) + Len(body) :
            (<<h>> \o body)[i] = IF i <= Len(<<h>>) THEN <<h>>[i] ELSE body[i - Len(<<h>>)]
  BY <1>1, ConcatProperties
<1>4. \A i \in 1 .. Len(body) + 1 : (<<h>> \o body)[i] = IF i <= 1 THEN <<h>>[i] ELSE body[i - 1]
  BY <1>1, <1>2, <1>3
<1>5. 1 \in 1 .. Len(body) + 1
  BY <1>2
<1>6. \A i \in 2 .. Len(body) + 1 : i \in 1 .. Len(body) + 1 /\ ~ (i <= 1)
  BY <1>2
<1> QED
  BY <1>1, <1>2, <1>3, <1>4, <1>5, <1>6

\* What is taken for a capture, of all that a ticket may carry, holds messages with times.
LEMMA Taken ==
    ASSUME Player!InOrder(replayArchive), NEW text \in Player!Files, Player!parseCapture(text).error = Player!None
    PROVE  Taped(Player!parseCapture(text).events)
<1> DEFINE f == Capture(Size, FALSE)
           S == {f[i] : i \in 1 .. Size + 1}
           broken == [kind |-> "incomplete", of |-> f[2].of]
           other == [f[1] EXCEPT !.of.format = "another"]
<1>1. /\ text # <<>> /\ text[1].kind = "header" /\ text[1].of.format = "dropqtt-capture/1"
      /\ \A i \in 2 .. Len(text) : text[i].kind = "event"
      /\ Len(text) # 1
  BY Accepted
<1>2. Size \in Nat \ {0} /\ Size \in 1 .. Size
  <2>1. replayArchive \in Seq(Player!ToSet(replayArchive)) /\ replayArchive # <<>>
    BY DEF Player!InOrder
  <2> DEFINE R == Player!ToSet(replayArchive)
  <2> HIDE DEF R
  <2>2. replayArchive \in Seq(R)
    BY <2>1 DEF R
  <2> QED
    BY <2>1, <2>2, LenProperties, EmptySeq DEF Size
<1>3. /\ Len(f) = Size + 1 /\ DOMAIN f = 1 .. Size + 1 /\ f \in Seq(S)
      /\ f[1] = [kind |-> "header", of |-> Player!Header(Tape(Size), FALSE)]
      /\ \A i \in 2 .. Size + 1 : IsEvent(f[i].of) /\ f[i].kind = "event" /\ DOMAIN f[i] = {"kind", "of"}
  <2>1. /\ Len(f) = Size + 1 /\ DOMAIN f = 1 .. Size + 1
        /\ f \in Seq({f[i] : i \in 1 .. Size + 1})
        /\ f[1] = [kind |-> "header", of |-> Player!Header(Tape(Size), FALSE)]
    <3>1. ASSUME NEW n \in 1 .. Size, NEW c
          PROVE  /\ Len(Capture(n, c)) = n + 1 /\ DOMAIN Capture(n, c) = 1 .. n + 1
                 /\ Capture(n, c) \in Seq({Capture(n, c)[i] : i \in 1 .. n + 1})
                 /\ Capture(n, c)[1] = [kind |-> "header", of |-> Player!Header(Tape(n), c)]
      BY CaptureIs
    <3> QED
      BY <1>2, <3>1, Zenon
  <2>2. \A i \in 2 .. Size + 1 : IsEvent(f[i].of) /\ f[i].kind = "event" /\ DOMAIN f[i] = {"kind", "of"}
    BY <1>2, WholeLines
  <2> QED
    BY <2>1, <2>2
<1>4. Player!Written(Size) = f
  <2>1. (Size < Size) = FALSE
    BY <1>2
  <2> QED
    BY <2>1, WrittenIs
<1> HIDE DEF f
<1>5. \/ \E n \in 1 .. Size : text = Player!Written(n)
      \/ \E m \in 1 .. Size : \E p \in Player!Places(m, Size + 1) : text = <<f[1]>> \o [i \in 1 .. m |-> f[p[i]]]
      \/ \E i \in 2 .. Size + 1 : text = [f EXCEPT ![i].of.t = 0]
      \/ \E m \in 1 .. Size : text = SubSeq(f, 1, m) \o <<broken>>
      \/ text \in {<<f[1]>>, Tail(f), <<other>> \o Tail(f), <<f[1], [kind |-> "noTopic", of |-> f[2].of]>>}
  <2>1. Len(f) - 1 = Size /\ Len(f) = Size + 1 /\ Player!Written(Len(replayArchive)) = f
    BY <1>2, <1>3, <1>4 DEF Size
  <2> HIDE DEF S
  <2>2. \/ \E n \in 1 .. Size : text = Player!Written(n)
        \/ text \in Player!Rearranged(f)
        \/ text \in Player!Untimed(f)
        \/ \E m \in 1 .. Size : text = SubSeq(f, 1, m) \o <<broken>>
        \/ text \in {<<>>, <<f[1]>>, Tail(f), <<other>> \o Tail(f), <<f[1], [kind |-> "noTopic", of |-> f[2].of]>>}
    BY <2>1 DEF Player!Files, Size
  <2>3. text \in Player!Rearranged(f) =>
           \E m \in 1 .. Size : \E p \in Player!Places(m, Size + 1) : text = <<f[1]>> \o [i \in 1 .. m |-> f[p[i]]]
    <3> SUFFICES ASSUME text \in Player!Rearranged(f)
                 PROVE  \E m \in 1 .. Size : \E p \in Player!Places(m, Size + 1) :
                           text = <<f[1]>> \o [i \in 1 .. m |-> f[p[i]]]
      OBVIOUS
    <3>1. PICK m \in 1 .. Len(f) - 1 : text \in {<<f[1]>> \o [i \in 1 .. m |-> f[p[i]]] : p \in Player!Places(m, Len(f))}
      BY DEF Player!Rearranged
    <3>2. PICK p \in Player!Places(m, Len(f)) : text = <<f[1]>> \o [i \in 1 .. m |-> f[p[i]]]
      BY <3>1
    <3>3. m \in 1 .. Size /\ p \in Player!Places(m, Size + 1)
      BY <2>1
    <3> QED
      BY <3>2, <3>3
  <2>4. text \in Player!Untimed(f) => \E i \in 2 .. Size + 1 : text = [f EXCEPT ![i].of.t = 0]
    BY <2>1, Zenon DEF Player!Untimed
  <2> QED
    BY <1>1, <2>2, <2>3, <2>4
<1>6. CASE \E n \in 1 .. Size : text = Player!Written(n)
  <2>1. PICK n \in 1 .. Size : text = Player!Written(n)
    BY <1>6
  <2>2. FileLines(text)
    BY <2>1, WrittenIs, WholeLines
  <2> QED
    BY <2>2, LinesTaken
<1>7. CASE \E m \in 1 .. Size : \E p \in Player!Places(m, Size + 1) : text = <<f[1]>> \o [i \in 1 .. m |-> f[p[i]]]
  <2>1. PICK m \in 1 .. Size : \E p \in Player!Places(m, Size + 1) : text = <<f[1]>> \o [i \in 1 .. m |-> f[p[i]]]
    BY <1>7
  <2>2. PICK p \in [1 .. m -> 2 .. Size + 1] : text = <<f[1]>> \o [i \in 1 .. m |-> f[p[i]]]
    BY <2>1 DEF Player!Places
  <2> DEFINE body == [i \in 1 .. m |-> f[p[i]]]
  <2>3. m \in Nat /\ f[1] \in S /\ \A i \in 1 .. m : f[p[i]] \in S /\ IsEvent(f[p[i]].of)
    <3>1. 1 \in 1 .. Size + 1 /\ m \in Nat /\ \A i \in 1 .. m : p[i] \in 2 .. Size + 1 /\ p[i] \in 1 .. Size + 1
      BY <1>2
    <3> QED
      BY <1>3, <3>1
  <2> HIDE DEF S
  <2>4. body \in Seq(S) /\ Len(body) = m
    BY <2>3
  <2>5. \A i \in 1 .. m : body[i] = f[p[i]]
    OBVIOUS
  <2>6. text = <<f[1]>> \o body
    BY <2>2
  <2> HIDE DEF body
  <2>7. Len(text) = m + 1 /\ \A i \in 2 .. m + 1 : text[i] = body[i - 1]
    BY <2>3, <2>4, <2>6, FirstAndRest
  <2>8. \A i \in 2 .. m + 1 : i - 1 \in 1 .. m
    BY <2>3
  <2>9. \A i \in 2 .. m + 1 : IsEvent(text[i].of)
    BY <2>3, <2>5, <2>7, <2>8
  <2>10. FileLines(text)
    BY <2>3, <2>7, <2>9 DEF FileLines
  <2> QED
    BY <2>10, LinesTaken
<1>8. CASE \E i \in 2 .. Size + 1 : text = [f EXCEPT ![i].of.t = 0]
  <2>1. PICK i \in 2 .. Size + 1 : text = [f EXCEPT ![i].of.t = 0]
    BY <1>8
  <2>2. i \in DOMAIN f /\ IsEvent(f[i].of) /\ DOMAIN f[i] = {"kind", "of"} /\ "t" \in DOMAIN f[i].of
    BY <1>2, <1>3 DEF IsEvent
  <2>3. /\ DOMAIN text = 1 .. Size + 1
        /\ text[i].of = [f[i].of EXCEPT !.t = 0] /\ \A j \in 2 .. Size + 1 : j # i => text[j] = f[j]
    BY <1>3, <2>1, <2>2
  <2>4. IsEvent(text[i].of)
    BY <2>2, <2>3 DEF IsEvent
  <2>5. Len(text) = Size + 1
    <3>1. text = [j \in DOMAIN f |-> text[j]]
      BY <2>1
    <3>2. text = [j \in 1 .. Size + 1 |-> text[j]] /\ Size + 1 \in Nat
      BY <1>2, <1>3, <3>1
    <3> QED
      BY <3>2, ListIs
  <2>6. FileLines(text)
    BY <1>2, <1>3, <2>3, <2>4, <2>5 DEF FileLines
  <2> QED
    BY <2>6, LinesTaken
<1>9. ASSUME \E m \in 1 .. Size : text = SubSeq(f, 1, m) \o <<broken>>
      PROVE  FALSE
  <2>1. PICK m \in 1 .. Size : text = SubSeq(f, 1, m) \o <<broken>>
    BY <1>9
  <2> DEFINE s == SubSeq(f, 1, m)
             R == S \cup {broken}
  <2>2. s \in Seq(R) /\ Len(s) = m /\ m \in Nat \ {0}
    <3>1. 1 \in Int /\ m \in Int /\ 1 <= m /\ m - 1 + 1 = m /\ \A i \in 1 .. m : i \in 1 .. Size + 1
      BY <1>2
    <3>2. \A i \in 1 .. m : f[i] \in R
      BY <3>1
    <3> HIDE DEF S, R
    <3> QED
      BY <3>1, <3>2, SubSeqProperties
  <2>3. <<broken>> \in Seq(R) /\ Len(<<broken>>) = 1 /\ <<broken>>[1] = broken
    OBVIOUS
  <2>4. broken.kind = "incomplete" /\ text = s \o <<broken>>
    BY <2>1
  <2> HIDE DEF s, broken, R
  <2>5. Len(text) = m + 1 /\ text[m + 1] = broken
    <3>1. Len(s \o <<broken>>) = Len(s) + Len(<<broken>>)
          /\ \A i \in 1 .. Len(s) + Len(<<broken>>) :
                (s \o <<broken>>)[i] = IF i <= Len(s) THEN s[i] ELSE <<broken>>[i - Len(s)]
      BY <2>2, <2>3, ConcatProperties
    <3>2. m + 1 \in 1 .. Len(s) + Len(<<broken>>) /\ ~ (m + 1 <= Len(s)) /\ (m + 1) - Len(s) = 1
      BY <2>2, <2>3
    <3> QED
      BY <2>2, <2>3, <2>4, <3>1, <3>2
  <2>6. m + 1 \in 2 .. Len(text)
    BY <2>2, <2>5
  <2> QED
    BY <1>1, <2>4, <2>5, <2>6
<1>10. ASSUME text = <<f[1], [kind |-> "noTopic", of |-> f[2].of]>>
      PROVE  FALSE
  <2>1. Len(text) = 2 /\ text[2].kind = "noTopic"
    BY <1>10
  <2>2. 2 \in 2 .. Len(text)
    BY <2>1
  <2> QED
    BY <1>1, <2>1, <2>2
<1>11. ASSUME text = Tail(f)
      PROVE  FALSE
  <2>1. Tail(f)[1] = f[2] /\ 2 \in 2 .. Size + 1
    <3> HIDE DEF S
    <3>1. f # <<>>
      BY <1>2, <1>3, EmptySeq
    <3> QED
      BY <1>2, <1>3, <3>1
  <2> QED
    BY <1>1, <1>3, <1>11, <2>1
<1>12. ASSUME text = <<other>> \o Tail(f)
      PROVE  FALSE
  <2> DEFINE R == S \cup {other}
  <2>1. other.of.format = "another"
    <3>1. "format" \in DOMAIN Player!Header(Tape(Size), FALSE)
      BY DEF Player!Header
    <3> QED
      BY <1>3, <3>1
  <2>2. Tail(f) \in Seq(R) /\ other \in R
    <3>1. f # <<>> /\ S \subseteq R
      <4>1. Len(f) # 0
        BY <1>2, <1>3
      <4> QED
        BY <4>1, EmptySeq
    <3>2. other \in R
      OBVIOUS
    <3> HIDE DEF S, R, other
    <3> QED
      BY <1>3, <3>1, <3>2, HeadTailProperties, SeqMonotonic
  <2> HIDE DEF other, R
  <2>3. text[1] = other
    BY <1>12, <2>2, FirstAndRest
  <2> QED
    BY <1>1, <2>1, <2>3
<1>13. text # <<f[1]>>
  BY <1>1
<1> QED
  BY <1>5, <1>6, <1>7, <1>8, <1>9, <1>10, <1>11, <1>12, <1>13

\* What is read of a file as it was written, its tail cut off between two lines.
LEMMA ParsedHead ==
    ASSUME Player!InOrder(replayArchive), NEW n \in 1 .. Size, NEW c, NEW k \in 1 .. n
    PROVE  Player!parseCapture(SubSeq(Capture(n, c), 1, k + 1)) = Read(n, c, k)
<1> DEFINE f == Capture(n, c)
           text == SubSeq(f, 1, k + 1)
           S == {f[i] : i \in 1 .. n + 1}
           Bad == {i \in 2 .. Len(text) : text[i].kind # "event"}
<1>1. n \in Nat \ {0} /\ k \in Nat \ {0} /\ k <= n
  BY TapeTyped
<1>2. /\ f[1] = [kind |-> "header", of |-> Player!Header(Tape(n), c)]
      /\ \A i \in 1 .. n : f[i + 1] = [kind |-> "event", of |-> Tape(n)[i]]
  BY CaptureIs
<1> HIDE DEF f
<1>3. text \in Seq(S) /\ Len(text) = k + 1 /\ \A i \in 1 .. k + 1 : text[i] = f[i]
  <2>1. 1 \in Int /\ k + 1 \in Int /\ 1 <= k + 1 /\ k + 1 - 1 + 1 = k + 1 /\ \A i \in 1 .. k + 1 : i \in 1 .. n + 1
    BY <1>1
  <2>2. \A i \in 1 .. k + 1 : f[i] \in S
    BY <2>1
  <2> HIDE DEF S
  <2>3. /\ SubSeq(f, 1, k + 1) \in Seq(S)
        /\ Len(SubSeq(f, 1, k + 1)) = IF 1 <= k + 1 THEN k + 1 - 1 + 1 ELSE 0
        /\ \A i \in 1 .. k + 1 - 1 + 1 : SubSeq(f, 1, k + 1)[i] = f[1 + i - 1]
    BY <2>1, <2>2, SubSeqProperties
  <2> QED
    BY <2>1, <2>3
<1>4. text # <<>>
  <2>1. Len(text) # 0
    BY <1>1, <1>3
  <2> HIDE DEF text
  <2> QED
    BY <2>1, EmptySeq
<1> HIDE DEF S, text
<1>5. 1 \in 1 .. k + 1 /\ text[1] = [kind |-> "header", of |-> Player!Header(Tape(n), c)]
  BY <1>1, <1>2, <1>3
<1>6. text[1].kind = "header" /\ text[1].of = Player!Header(Tape(n), c) /\ text[1].of.format = "dropqtt-capture/1"
  BY <1>5 DEF Player!Header
<1>7. \A i \in 1 .. k : text[i + 1].kind = "event" /\ text[i + 1].of = Tape(n)[i]
  <2> TAKE i \in 1 .. k
  <2>1. i \in 1 .. n /\ i + 1 \in 1 .. k + 1
    BY <1>1
  <2>2. text[i + 1] = [kind |-> "event", of |-> Tape(n)[i]]
    BY <1>2, <1>3, <2>1
  <2> QED
    BY <2>2
<1>8. Bad = {} /\ Len(text) # 1 /\ Len(text) - 1 = k
  <2>1. \A i \in 2 .. k + 1 : i - 1 \in 1 .. k /\ (i - 1) + 1 = i
    BY <1>1
  <2>2. \A i \in 2 .. k + 1 : text[i].kind = "event"
    BY <1>7, <2>1
  <2> QED
    BY <1>1, <1>3, <2>2
<1>9. Player!parseCapture(text) = [error |-> Player!None, header |-> <<text[1].of>>,
                                   events |-> [i \in 1 .. Len(text) - 1 |-> text[i + 1].of]]
  BY <1>4, <1>6, <1>8 DEF Player!parseCapture
<1>10. [i \in 1 .. Len(text) - 1 |-> text[i + 1].of] = Begun(n, k)
  BY <1>7, <1>8 DEF Begun
<1> QED
  BY <1>6, <1>9, <1>10 DEF Read, text, f
-----------------------------------------------------------------------------
(* Replays: the order of the events *)

\* Of messages that came in different milliseconds, the file has the newest n in the order they came.
LEMMA TapeIs ==
    ASSUME Player!InOrder(replayArchive), Player!Apart, NEW n \in 1 .. Size
    PROVE  \A k \in 1 .. n : Tape(n)[k] = Player!EventAt(replayArchive[Size - n + k], replayArchive[Size - n + 1].ts)
<1> DEFINE s == Newest(n)
<1>1. /\ Size \in Nat /\ n \in Nat /\ 1 <= n /\ n <= Size /\ DOMAIN replayArchive = 1 .. Size
      /\ DOMAIN s = 1 .. n /\ \A i \in 1 .. n : s[i] = replayArchive[Size - i + 1]
  BY NewestIs
<1>2. \A i, j \in 1 .. Size : replayArchive[i].ts \in Nat /\ (i < j => replayArchive[i].ts < replayArchive[j].ts)
  <2>1. \A i, j \in DOMAIN replayArchive : replayArchive[i].ts \in Nat /\ (i < j => replayArchive[i].ts <= replayArchive[j].ts)
    BY Zenon DEF Player!InOrder
  <2>2. \A i, j \in DOMAIN replayArchive : replayArchive[i].ts = replayArchive[j].ts => i = j
    BY Zenon DEF Player!Apart
  <2> TAKE i, j \in 1 .. Size
  <2>3. replayArchive[i].ts \in Nat /\ replayArchive[j].ts \in Nat
    BY <1>1, <2>1
  <2>4. ASSUME i < j PROVE replayArchive[i].ts < replayArchive[j].ts
    <3>1. replayArchive[i].ts <= replayArchive[j].ts
      BY <1>1, <2>1, <2>4
    <3>2. replayArchive[i].ts # replayArchive[j].ts
      BY <1>1, <2>2, <2>4
    <3> QED
      BY <2>3, <3>1, <3>2
  <2> QED
    BY <2>3, <2>4
<1> HIDE DEF s
<1>3. \A i, j \in 1 .. n : s[i].ts \in Nat /\ (i < j => s[j].ts < s[i].ts)
  <2> TAKE i, j \in 1 .. n
  <2>1. Size - i + 1 \in 1 .. Size /\ Size - j + 1 \in 1 .. Size /\ (i < j => Size - j + 1 < Size - i + 1)
    BY <1>1
  <2> QED
    BY <1>1, <1>2, <2>1
<1>4. ASSUME NEW i \in 1 .. n
      PROVE  Player!Place(s, i) = n - i + 1
  <2> DEFINE P == {j \in DOMAIN s : s[j].ts < s[i].ts \/ (s[j].ts = s[i].ts /\ j <= i)}
  <2>1. P = i .. n
    <3>1. ASSUME NEW j \in 1 .. n
          PROVE  (s[j].ts < s[i].ts \/ (s[j].ts = s[i].ts /\ j <= i)) <=> i <= j
      <4>1. CASE i < j
        BY <1>1, <1>3, <4>1
      <4>2. CASE i = j
        BY <1>1, <1>3, <4>2
      <4>3. CASE j < i
        <5>1. s[i].ts < s[j].ts /\ s[i].ts \in Nat /\ s[j].ts \in Nat
          BY <1>3, <4>3
        <5> QED
          BY <1>1, <4>3, <5>1
      <4> QED
        BY <1>1, <4>1, <4>2, <4>3
    <3>2. \A j : j \in i .. n <=> j \in 1 .. n /\ i <= j
      BY <1>1
    <3> QED
      BY <1>1, <3>1, <3>2
  <2>2. Player!Place(s, i) = Player!Cardinality(P)
    BY DEF Player!Place
  <2>3. Player!Cardinality(P) = Cardinality(P)
    BY DEF Player!Cardinality, Cardinality
  <2> HIDE DEF P
  <2>4. Cardinality(i .. n) = n - i + 1
    <3>1. i \in Int /\ n \in Int /\ ~ (i > n)
      BY <1>1
    <3> QED
      BY <3>1, FS_Interval
  <2> QED
    BY <2>1, <2>2, <2>3, <2>4
<1>5. ASSUME NEW k \in 1 .. n
      PROVE  Player!Ordered(s)[k] = replayArchive[Size - n + k]
  <2>1. n - k + 1 \in 1 .. n /\ n - (n - k + 1) + 1 = k
    BY <1>1
  <2>2. Player!Place(s, n - k + 1) = k
    BY <1>4, <2>1
  <2>3. \A i \in 1 .. n : Player!Place(s, i) = k => i = n - k + 1
    BY <1>1, <1>4
  <2>4. (CHOOSE i \in DOMAIN s : Player!Place(s, i) = k) = n - k + 1
    BY <1>1, <2>1, <2>2, <2>3
  <2>5. Player!Ordered(s)[k] = s[n - k + 1]
    BY <1>1, <2>4 DEF Player!Ordered
  <2>6. s[n - k + 1] = replayArchive[Size - n + k]
    <3>1. Size - (n - k + 1) + 1 = Size - n + k
      BY <1>1
    <3> QED
      BY <1>1, <2>1, <3>1
  <2> QED
    BY <2>5, <2>6
<1> TAKE k \in 1 .. n
<1>6. 1 \in 1 .. n
  BY <1>1
<1>7. Tape(n)[k] = Player!EventAt(Player!Ordered(s)[k], Player!Ordered(s)[1].ts)
  BY <1>1 DEF Tape, s
<1> QED
  BY <1>5, <1>6, <1>7

\* What the first k events of a file of n messages were made of.
SourceOf(n, k, w) == Player!Picked(SubSeq(replayArchive, Size - n + 1, Size - n + k), w)

\* The chosen events are the chosen messages, one by one, and as far apart.
Follows(e, s, m) ==
    /\ Len(e) = m /\ DOMAIN e = 1 .. m /\ Len(s) = m
    /\ \A i \in 1 .. m :
          /\ e[i].id = s[i].id /\ e[i].props = s[i].props
          /\ i > 1 => /\ s[i].ts - s[i - 1].ts \in Nat
                      /\ Player!Max({0, e[i].t - e[i - 1].t}) = s[i].ts - s[i - 1].ts

LEMMA Alike ==
    ASSUME Player!InOrder(replayArchive), Player!Apart, NEW n \in 1 .. Size, NEW k \in 1 .. n, NEW w
    PROVE  \E m \in Nat : Follows(Player!Picked(Begun(n, k), w), SourceOf(n, k, w), m)
<1> DEFINE first == replayArchive[Size - n + 1].ts
           part_ == SubSeq(replayArchive, Size - n + 1, Size - n + k)
           at(i) == replayArchive[Size - n + i]
           tape == Begun(n, k)
           q == Player!Picked(tape, w)
           s == SourceOf(n, k, w)
<1>1. /\ Size \in Nat /\ n \in Nat /\ k \in Nat /\ 1 <= k /\ k <= n /\ n <= Size
      /\ DOMAIN replayArchive = 1 .. Size /\ DOMAIN Newest(n) = 1 .. n
  BY NewestIs
<1>2. \A i \in 1 .. k : Size - n + i \in 1 .. Size /\ i \in 1 .. n
  BY <1>1
<1>3. DOMAIN tape = 1 .. k /\ \A i \in 1 .. k : tape[i] = Player!EventAt(at(i), first)
  BY <1>2, TapeIs DEF Begun
<1>4. DOMAIN part_ = 1 .. k /\ \A i \in 1 .. k : part_[i] = at(i)
  <2> DEFINE S == Player!ToSet(replayArchive)
  <2>1. \A i \in Size - n + 1 .. Size - n + k : replayArchive[i] \in S
    <3> TAKE i \in Size - n + 1 .. Size - n + k
    <3>1. i \in DOMAIN replayArchive
      BY <1>1
    <3> QED
      BY <3>1 DEF Player!ToSet
  <2>2. /\ Size - n + 1 \in Int /\ Size - n + k \in Int /\ Size - n + 1 <= Size - n + k
        /\ (Size - n + k) - (Size - n + 1) + 1 = k
    BY <1>1
  <2> HIDE DEF S
  <2>3. /\ part_ \in Seq(S)
        /\ Len(part_) = IF Size - n + 1 <= Size - n + k THEN (Size - n + k) - (Size - n + 1) + 1 ELSE 0
        /\ \A i \in 1 .. (Size - n + k) - (Size - n + 1) + 1 : part_[i] = replayArchive[Size - n + 1 + i - 1]
    BY <2>1, <2>2, SubSeqProperties
  <2> HIDE DEF part_
  <2>4. DOMAIN part_ = 1 .. k
    BY <2>2, <2>3, LenProperties
  <2>5. \A i \in 1 .. k : part_[i] = at(i)
    <3> TAKE i \in 1 .. k
    <3>1. Size - n + 1 + i - 1 = Size - n + i
      BY <1>1
    <3> QED
      BY <2>2, <2>3, <3>1
  <2> QED
    BY <2>4, <2>5
<1>5. \A i, j \in 1 .. k : at(i).ts \in Nat /\ first \in Nat /\ first <= at(i).ts /\ (i < j => at(i).ts <= at(j).ts)
  <2>1. \A i, j \in DOMAIN replayArchive : replayArchive[i].ts \in Nat /\ (i < j => replayArchive[i].ts <= replayArchive[j].ts)
    BY Zenon DEF Player!InOrder
  <2> TAKE i, j \in 1 .. k
  <2>2. at(i).ts \in Nat /\ first \in Nat
    <3>1. Size - n + i \in 1 .. Size /\ Size - n + 1 \in 1 .. Size
      BY <1>1
    <3> QED
      BY <1>1, <2>1, <3>1
  <2>3. first <= at(i).ts
    <3>1. CASE i = 1
      BY <2>2, <3>1
    <3>2. CASE i # 1
      <4>1. Size - n + 1 < Size - n + i /\ Size - n + i \in 1 .. Size /\ Size - n + 1 \in 1 .. Size
        BY <1>1, <3>2
      <4> QED
        BY <1>1, <2>1, <4>1
    <3> QED
      BY <3>1, <3>2
  <2>4. i < j => at(i).ts <= at(j).ts
    <3>1. i < j => Size - n + i < Size - n + j /\ Size - n + i \in 1 .. Size /\ Size - n + j \in 1 .. Size
      BY <1>1
    <3> QED
      BY <1>1, <2>1, <3>1
  <2> QED
    BY <2>2, <2>3, <2>4
<1> HIDE DEF at, first, part_, tape
<1>6. \A i \in 1 .. k : /\ tape[i].direction = at(i).direction /\ tape[i].id = at(i).id
                        /\ tape[i].props = at(i).props /\ tape[i].t = at(i).ts - first
  <2> TAKE i \in 1 .. k
  <2>1. tape[i] = [t |-> Player!Max({0, at(i).ts - first}), ts |-> at(i).ts, topic |-> at(i).topic, id |-> at(i).id,
                   direction |-> at(i).direction, props |-> at(i).props]
    BY <1>3 DEF Player!EventAt
  <2>2. at(i).ts - first \in Int /\ at(i).ts - first >= 0
    BY <1>5
  <2>3. Player!Max({0, at(i).ts - first}) = at(i).ts - first
    BY <2>2, AtLeastZero
  <2> QED
    BY <2>1, <2>3
<1>7. PICK order : \E m \in Nat : PickedAt(order, m, k, tape, w)
  BY <1>1, <1>3, Picks
<1>8. PICK m \in Nat :
              /\ order \in [1 .. m -> 1 .. k] /\ \A i, j \in 1 .. m : i < j => order[i] < order[j]
              /\ \A u : DOMAIN u = 1 .. k /\ (\A i \in 1 .. k : u[i].direction = tape[i].direction) =>
                        Player!Picked(u, w) = [i \in 1 .. m |-> u[order[i]]]
  BY <1>7 DEF PickedAt
<1>9. q = [i \in 1 .. m |-> tape[order[i]]]
  BY <1>3, <1>8
<1>10. s = [i \in 1 .. m |-> part_[order[i]]]
  <2>1. \A i \in 1 .. k : part_[i].direction = tape[i].direction
    BY <1>4, <1>6
  <2>2. s = Player!Picked(part_, w)
    BY DEF SourceOf, part_
  <2> QED
    BY <1>4, <1>8, <2>1, <2>2
<1> HIDE DEF q, s
<1>11. Len(q) = m /\ DOMAIN q = 1 .. m /\ Len(s) = m
  <2>1. q = [i \in 1 .. m |-> q[i]] /\ s = [i \in 1 .. m |-> s[i]]
    BY <1>9, <1>10
  <2> QED
    BY <2>1, ListIs
<1>12. ASSUME NEW i \in 1 .. m
       PROVE  /\ order[i] \in 1 .. k /\ q[i] = tape[order[i]] /\ s[i] = at(order[i])
              /\ i > 1 => order[i - 1] \in 1 .. k /\ order[i - 1] < order[i]
                          /\ q[i - 1] = tape[order[i - 1]] /\ s[i - 1] = at(order[i - 1])
  <2>1. order[i] \in 1 .. k
    BY <1>8
  <2>2. i > 1 => i - 1 \in 1 .. m /\ i - 1 < i
    OBVIOUS
  <2>3. i > 1 => order[i - 1] \in 1 .. k /\ order[i - 1] < order[i]
    BY <1>8, <2>2
  <2> QED
    BY <1>4, <1>9, <1>10, <2>1, <2>2, <2>3
<1>13. ASSUME NEW i \in 1 .. m
       PROVE  /\ q[i].id = s[i].id /\ q[i].props = s[i].props
              /\ i > 1 => /\ s[i].ts - s[i - 1].ts \in Nat
                          /\ Player!Max({0, q[i].t - q[i - 1].t}) = s[i].ts - s[i - 1].ts
  <2>1. /\ q[i].id = s[i].id /\ q[i].props = s[i].props
    BY <1>6, <1>12
  <2>2. ASSUME i > 1
        PROVE  /\ s[i].ts - s[i - 1].ts \in Nat
               /\ Player!Max({0, q[i].t - q[i - 1].t}) = s[i].ts - s[i - 1].ts
    <3>1. q[i].t = s[i].ts - first /\ q[i - 1].t = s[i - 1].ts - first
      BY <1>6, <1>12, <2>2
    <3>2. s[i].ts \in Nat /\ s[i - 1].ts \in Nat /\ first \in Nat /\ s[i - 1].ts <= s[i].ts
      BY <1>5, <1>12, <2>2
    <3>3. q[i].t - q[i - 1].t = s[i].ts - s[i - 1].ts /\ s[i].ts - s[i - 1].ts \in Nat
      BY <3>1, <3>2
    <3>4. s[i].ts - s[i - 1].ts \in Int /\ s[i].ts - s[i - 1].ts >= 0
      BY <3>3
    <3> QED
      BY <3>3, <3>4, AtLeastZero
  <2> QED
    BY <2>1, <2>2
<1> QED
  BY <1>11, <1>13 DEF q, s, tape, Follows

-----------------------------------------------------------------------------
(* Replays: a loop *)

\* What the panel asks for, and the file it has.
Asks(p) ==
    /\ DOMAIN p = {"capture", "error", "which", "speed", "gapCap", "sent", "failed"}
    /\ p.speed \in Nat \ {0} /\ p.gapCap \in Nat
Loaded(p) == p.capture # Player!None => \E file : p.capture = <<file>> /\ Taped(file.events)

\* A loop plays what was picked of the file it was asked to play, with these gaps,
Cued(l) ==
    /\ DOMAIN l = {"mount", "stop", "queue", "isV5", "i", "gaps", "waited", "out", "at", "done", "bad", "asked"}
    /\ Asks(l.asked)
    /\ \E file : /\ l.asked.capture = <<file>> /\ Taped(file.events)
                 /\ l.queue = Player!Picked(file.events, l.asked.which)
    /\ l.gaps = Player!paceFor(l.queue, l.asked.speed, l.asked.gapCap)
\* and what it has sent is the head of that;
Sent(l) ==
    /\ l.out \in Seq({l.out[j] : j \in DOMAIN l.out})
    /\ \A j \in DOMAIN l.out :
          /\ l.out[j].of = Player!toParams(l.queue[j], l.isV5) /\ ~l.out[j].stopped /\ l.out[j].waited \in Nat
          /\ j > 1 => l.out[j].waited = l.out[j - 1].waited + l.gaps[j]
\* it counts what was answered,
Tallied(l) ==
    /\ l.i \in Nat \ {0} /\ l.i <= Len(l.queue) + 1 /\ l.waited \in Nat
    /\ l.done \in Nat /\ l.bad \in Nat /\ l.done + l.bad = l.i - 1
\* and is at the next message, or done.
Stage(l) ==
    /\ l.at \in {"waiting", "sending", "ended"}
    /\ l.at = "waiting" => /\ l.i <= Len(l.queue) /\ Len(l.out) = l.i - 1
                           /\ l.i > 1 => l.waited = l.out[l.i - 1].waited + l.gaps[l.i]
    /\ l.at = "sending" => l.i <= Len(l.queue) /\ Len(l.out) = l.i /\ l.waited = l.out[l.i].waited
    /\ l.at = "ended" => Len(l.out) = l.i - 1 /\ (~l.stop => l.i > Len(l.queue))
Playing(l) == Cued(l) /\ Sent(l) /\ Tallied(l) /\ Stage(l)

ReplayInv ==
    /\ Player!InOrder(replayArchive)
    /\ Asks(panel) /\ Loaded(panel)
    /\ \A r \in reading : r.text \in Player!Files
    /\ loops \in Seq({loops[k] : k \in DOMAIN loops})
    /\ \A k \in DOMAIN loops : Playing(loops[k])

\* A gap of the script, scaled and capped as the loop was asked.
Due(l, x) ==
    LET due == x \div l.asked.speed
    IN  IF l.asked.gapCap > 0 THEN Player!Min({due, l.asked.gapCap}) ELSE due

\* The queue of a loop, message by message.
LEMMA CueIs ==
    ASSUME NEW l, Cued(l)
    PROVE  /\ l.queue = Player!Script(l) /\ Len(l.queue) \in Nat
           /\ \A i \in 1 .. Len(l.queue) :
                 /\ l.gaps[i] \in Nat /\ {"id", "props"} \subseteq DOMAIN l.queue[i]
                 /\ i > 1 => l.gaps[i] = Due(l, Player!Max({0, l.queue[i].t - l.queue[i - 1].t}))
<1>1. PICK file : /\ l.asked.capture = <<file>> /\ Taped(file.events)
                  /\ l.queue = Player!Picked(file.events, l.asked.which)
  BY DEF Cued
<1> DEFINE e == file.events
           w == l.asked.which
           q == l.queue
           v == l.asked.speed
           g == l.asked.gapCap
<1>2. q = Player!Script(l)
  <2>1. l.asked.capture[1] = file
    BY <1>1
  <2> QED
    BY <1>1, <2>1 DEF Player!Script
<1>3. v \in Nat \ {0} /\ g \in Nat
  BY DEF Cued, Asks
<1>4. PICK n \in Nat : DOMAIN e = 1 .. n /\ \A i \in 1 .. n : IsEvent(e[i])
  BY <1>1 DEF Taped
<1>5. PICK order : \E m \in Nat : PickedAt(order, m, n, e, w)
  BY <1>4, Picks
<1>6. PICK m \in Nat :
         /\ order \in [1 .. m -> 1 .. n]
         /\ \A u : DOMAIN u = 1 .. n /\ (\A i \in 1 .. n : u[i].direction = e[i].direction) =>
                   Player!Picked(u, w) = [i \in 1 .. m |-> u[order[i]]]
  BY <1>5 DEF PickedAt
<1>7. q = [i \in 1 .. m |-> e[order[i]]]
  BY <1>1, <1>4, <1>6
<1>8. Len(q) = m
  <2>1. q = [i \in 1 .. m |-> q[i]]
    BY <1>7
  <2> HIDE DEF q
  <2> QED
    BY <2>1, ListIs
<1>9. \A i \in 1 .. m : IsEvent(q[i])
  BY <1>4, <1>6, <1>7
<1>10. l.gaps = Player!paceFor(q, v, g) /\ DOMAIN q = 1 .. m
  BY <1>7 DEF Cued
<1> HIDE DEF e, q, v, g, w
<1>11. ASSUME NEW i \in 1 .. m
       PROVE  /\ l.gaps[i] \in Nat
              /\ i > 1 => l.gaps[i] = Due(l, Player!Max({0, q[i].t - q[i - 1].t}))
  <2> DEFINE far == Player!Max({0, q[i].t - q[i - 1].t})
             gap == IF i = 1 THEN 0 ELSE far \div v
  <2>1. l.gaps[i] = IF g > 0 THEN Player!Min({gap, g}) ELSE gap
    BY <1>10 DEF Player!paceFor
  <2>2. i > 1 => far \in Nat
    <3>1. i > 1 => i - 1 \in 1 .. m /\ q[i].t \in Int /\ q[i - 1].t \in Int
      BY <1>9 DEF IsEvent
    <3>2. i > 1 => q[i].t - q[i - 1].t \in Int
      BY <3>1
    <3> QED
      BY <3>2, AtLeastZero
  <2> HIDE DEF far
  <2>3. gap \in Nat
    <3>1. CASE i = 1
      BY <3>1
    <3>2. CASE i # 1
      <4>1. far \in Nat
        BY <2>2, <3>2
      <4>2. far \div v \in Nat
        BY <1>3, <4>1, Quotient
      <4> QED
        BY <3>2, <4>2
    <3> QED
      BY <3>1, <3>2
  <2>4. i > 1 => gap = far \div v
    OBVIOUS
  <2>5. Due(l, far) = IF g > 0 THEN Player!Min({far \div v, g}) ELSE far \div v
    BY DEF Due, v, g
  <2> HIDE DEF gap
  <2>6. l.gaps[i] \in Nat
    BY <1>3, <2>1, <2>3, AtMost
  <2> QED
    BY <2>1, <2>4, <2>5, <2>6 DEF far
<1> QED
  BY <1>2, <1>8, <1>9, <1>11 DEF q, IsEvent

\* Sending keeps to the queue.
LEMMA SendsKeep ==
    ASSUME NEW l, Cued(l), Sent(l), Tallied(l),
           l.i <= Len(l.queue), Len(l.out) = l.i - 1, ~l.stop,
           l.i > 1 => l.waited = l.out[l.i - 1].waited + l.gaps[l.i]
    PROVE  Playing(Player!Sends(l))
<1> DEFINE e == [of |-> Player!toParams(l.queue[l.i], l.isV5), waited |-> l.waited, stopped |-> l.stop]
           s == l.out
           z == Append(s, e)
           t == Player!Sends(l)
           R == {s[j] : j \in DOMAIN s}
           S == R \cup {e}
<1>1. l.i \in Nat \ {0} /\ l.waited \in Nat /\ Len(s) = l.i - 1 /\ s \in Seq(R)
  BY DEF Tallied, Sent
<1>2. DOMAIN l = {"mount", "stop", "queue", "isV5", "i", "gaps", "waited", "out", "at", "done", "bad", "asked"}
  BY DEF Cued
<1>3. /\ t.at = "sending" /\ t.out = z /\ DOMAIN t = DOMAIN l
      /\ t.mount = l.mount /\ t.stop = l.stop /\ t.queue = l.queue /\ t.isV5 = l.isV5 /\ t.i = l.i
      /\ t.gaps = l.gaps /\ t.waited = l.waited /\ t.done = l.done /\ t.bad = l.bad /\ t.asked = l.asked
  <2>1. t = [l EXCEPT !.at = "sending", !.out = z]
    BY DEF Player!Sends
  <2> HIDE DEF t, z
  <2> QED
    BY <1>2, <2>1
<1>4. e.of = Player!toParams(l.queue[l.i], l.isV5) /\ e.waited = l.waited /\ ~e.stopped
  OBVIOUS
<1>5. DOMAIN s = 1 .. Len(s) /\ Len(s) \in Nat
  <2> HIDE DEF R
  <2> QED
    BY <1>1, LenProperties
<1>6. z \in Seq(S) /\ Len(z) = l.i /\ z[l.i] = e /\ \A j \in 1 .. l.i - 1 : z[j] = s[j]
  <2>1. s \in Seq(S) /\ e \in S
    <3>1. R \subseteq S
      OBVIOUS
    <3> HIDE DEF R, S
    <3>2. s \in Seq(S)
      BY <1>1, <3>1, SeqMonotonic
    <3> QED
      BY <3>2 DEF S
  <2> HIDE DEF S, R, e, s
  <2>2. Append(s, e) \in Seq(S) /\ Len(Append(s, e)) = Len(s) + 1
        /\ \A j \in 1 .. Len(s) : Append(s, e)[j] = s[j]
        /\ Append(s, e)[Len(s) + 1] = e
    BY <2>1, AppendProperties
  <2> QED
    BY <1>1, <2>2
<1> HIDE DEF S, R, e, z, t
<1>7. DOMAIN z = 1 .. l.i /\ z \in Seq({z[j] : j \in DOMAIN z})
  <2>1. DOMAIN z = 1 .. l.i /\ z \in [1 .. l.i -> S]
    BY <1>6, LenProperties
  <2> DEFINE T == {z[j] : j \in DOMAIN z}
  <2>2. z \in [1 .. l.i -> T] /\ l.i \in Nat
    BY <1>1, <2>1
  <2> HIDE DEF T
  <2>3. z \in Seq(T)
    BY <2>2
  <2> QED
    BY <2>1, <2>3 DEF T
<1>8. Cued(t)
  BY <1>2, <1>3 DEF Cued
<1>9. Sent(t)
  <2>1. ASSUME NEW j \in 1 .. l.i
        PROVE  /\ z[j].of = Player!toParams(l.queue[j], l.isV5) /\ ~z[j].stopped /\ z[j].waited \in Nat
               /\ j > 1 => z[j].waited = z[j - 1].waited + l.gaps[j]
    <3>1. CASE j = l.i
      <4>1. z[j] = e
        BY <1>6, <3>1
      <4>2. j > 1 => z[j - 1] = s[j - 1]
        BY <1>1, <1>6, <3>1
      <4> QED
        BY <1>1, <1>4, <3>1, <4>1, <4>2
    <3>2. CASE j # l.i
      <4>1. j \in 1 .. l.i - 1 /\ j \in DOMAIN s /\ z[j] = s[j]
        BY <1>1, <1>5, <1>6, <3>2
      <4>2. j > 1 => j - 1 \in 1 .. l.i - 1 /\ z[j - 1] = s[j - 1]
        BY <1>1, <1>6, <4>1
      <4> QED
        BY <4>1, <4>2 DEF Sent
    <3> QED
      BY <3>1, <3>2
  <2> QED
    BY <1>3, <1>7, <2>1 DEF Sent
<1>10. Tallied(t)
  BY <1>3 DEF Tallied
<1>11. Stage(t)
  BY <1>3, <1>4, <1>6 DEF Stage
<1> QED
  BY <1>8, <1>9, <1>10, <1>11 DEF Playing, t

\* The fields of a loop that say what it plays, and the list of what it sent.
SameCue(t, l) ==
    /\ DOMAIN t = DOMAIN l /\ t.asked = l.asked /\ t.queue = l.queue /\ t.gaps = l.gaps
    /\ t.out = l.out /\ t.isV5 = l.isV5

LEMMA CueKept ==
    ASSUME NEW l, NEW t, Cued(l), Sent(l), SameCue(t, l)
    PROVE  Cued(t) /\ Sent(t)
BY DEF SameCue, Cued, Sent

LEMMA TurnKeeps ==
    ASSUME NEW l, Cued(l), Sent(l), Tallied(l),
           Len(l.out) = l.i - 1, l.i > 1 => l.waited = l.out[l.i - 1].waited
    PROVE  Playing(Player!Turn(l))
<1>1. DOMAIN l = {"mount", "stop", "queue", "isV5", "i", "gaps", "waited", "out", "at", "done", "bad", "asked"}
  BY DEF Cued
<1>2. Len(l.queue) \in Nat /\ \A i \in 1 .. Len(l.queue) : l.gaps[i] \in Nat
  BY CueIs
<1>3. l.i \in Nat \ {0} /\ l.waited \in Nat
  BY DEF Tallied
<1>4. CASE l.i > Len(l.queue) \/ l.stop
  <2> DEFINE t == [l EXCEPT !.at = "ended"]
  <2>1. t.at = "ended" /\ SameCue(t, l) /\ t.i = l.i /\ t.waited = l.waited /\ t.done = l.done /\ t.bad = l.bad
        /\ t.stop = l.stop
    BY <1>1 DEF SameCue
  <2>2. Player!Turn(l) = t
    BY <1>4 DEF Player!Turn
  <2> HIDE DEF t
  <2>3. Cued(t) /\ Sent(t)
    BY <2>1, CueKept
  <2>4. Tallied(t) /\ Stage(t)
    BY <1>2, <1>3, <1>4, <2>1 DEF Tallied, Stage, SameCue
  <2> QED
    BY <2>2, <2>3, <2>4 DEF Playing
<1>5. CASE ~ (l.i > Len(l.queue) \/ l.stop)
  <2>1. l.i \in 1 .. Len(l.queue) /\ l.gaps[l.i] \in Nat
    BY <1>2, <1>3, <1>5
  <2>2. CASE l.gaps[l.i] > 0
    <3> DEFINE t == [l EXCEPT !.at = "waiting", !.waited = @ + l.gaps[l.i]]
    <3>1. /\ t.at = "waiting" /\ SameCue(t, l) /\ t.i = l.i /\ t.waited = l.waited + l.gaps[l.i]
          /\ t.done = l.done /\ t.bad = l.bad
      BY <1>1 DEF SameCue
    <3>2. Player!Turn(l) = t
      BY <1>5, <2>2 DEF Player!Turn
    <3> HIDE DEF t
    <3>3. Cued(t) /\ Sent(t)
      BY <3>1, CueKept
    <3>4. Tallied(t) /\ t.waited \in Nat
      BY <1>3, <2>1, <3>1 DEF Tallied, SameCue
    <3>5. Stage(t)
      BY <1>3, <2>1, <3>1 DEF Stage, SameCue
    <3> QED
      BY <3>2, <3>3, <3>4, <3>5 DEF Playing
  <2>3. CASE ~ (l.gaps[l.i] > 0)
    <3>1. Player!Turn(l) = Player!Sends(l)
      BY <1>5, <2>3 DEF Player!Turn
    <3>2. l.gaps[l.i] = 0
      BY <2>1, <2>3
    <3>3. l.i > 1 => l.waited = l.out[l.i - 1].waited + l.gaps[l.i]
      BY <1>3, <3>2
    <3>4. l.i <= Len(l.queue) /\ ~l.stop
      BY <1>5, <2>1
    <3> QED
      BY <3>1, <3>3, <3>4, SendsKeep
  <2> QED
    BY <2>2, <2>3
<1> QED
  BY <1>4, <1>5

LEMMA WaitedKeeps ==
    ASSUME NEW l, Playing(l), l.at = "waiting"
    PROVE  Playing(Player!Waited(l))
<1>1. DOMAIN l = {"mount", "stop", "queue", "isV5", "i", "gaps", "waited", "out", "at", "done", "bad", "asked"}
  BY DEF Playing, Cued
<1>2. CASE l.stop
  <2> DEFINE t == [l EXCEPT !.at = "ended"]
  <2>1. t.at = "ended" /\ SameCue(t, l) /\ t.i = l.i /\ t.waited = l.waited /\ t.done = l.done /\ t.bad = l.bad
        /\ t.stop = l.stop
    BY <1>1 DEF SameCue
  <2>2. Player!Waited(l) = t
    BY <1>2 DEF Player!Waited
  <2> HIDE DEF t
  <2>3. Cued(t) /\ Sent(t)
    BY <2>1, CueKept DEF Playing
  <2>4. Tallied(t) /\ Stage(t)
    BY <1>2, <2>1 DEF Playing, Tallied, Stage, SameCue
  <2> QED
    BY <2>2, <2>3, <2>4 DEF Playing
<1>3. CASE ~l.stop
  <2>1. Player!Waited(l) = Player!Sends(l)
    BY <1>3 DEF Player!Waited
  <2> QED
    BY <1>3, <2>1, SendsKeep DEF Playing, Stage
<1> QED
  BY <1>2, <1>3

\* An answer is counted, and the next message is due.
LEMMA AnsweredKeeps ==
    ASSUME NEW l, Playing(l), l.at = "sending", NEW ok \in BOOLEAN
    PROVE  Playing(Player!Turn([(IF ok THEN [l EXCEPT !.done = @ + 1] ELSE [l EXCEPT !.bad = @ + 1]) EXCEPT !.i = @ + 1]))
<1> DEFINE u == IF ok THEN [l EXCEPT !.done = @ + 1] ELSE [l EXCEPT !.bad = @ + 1]
           t == [u EXCEPT !.i = @ + 1]
<1>1. DOMAIN l = {"mount", "stop", "queue", "isV5", "i", "gaps", "waited", "out", "at", "done", "bad", "asked"}
  BY DEF Playing, Cued
<1>2. /\ SameCue(u, l) /\ u.i = l.i /\ u.waited = l.waited
      /\ \/ u.done = l.done + 1 /\ u.bad = l.bad
         \/ u.done = l.done /\ u.bad = l.bad + 1
  BY <1>1 DEF SameCue
<1> HIDE DEF u
<1>3. SameCue(t, u) /\ t.i = l.i + 1 /\ t.waited = l.waited /\ t.done = u.done /\ t.bad = u.bad
  BY <1>1, <1>2 DEF SameCue
<1> HIDE DEF t
<1>4. SameCue(t, l)
  BY <1>2, <1>3 DEF SameCue
<1>5. Cued(t) /\ Sent(t)
  BY <1>4, CueKept DEF Playing
<1>6. l.i \in Nat \ {0} /\ l.i <= Len(l.queue) /\ Len(l.queue) \in Nat /\ l.waited \in Nat
      /\ l.done \in Nat /\ l.bad \in Nat /\ l.done + l.bad = l.i - 1 /\ Len(l.out) = l.i /\ l.waited = l.out[l.i].waited
  <2>1. Len(l.queue) \in Nat
    BY CueIs DEF Playing
  <2> QED
    BY <2>1 DEF Playing, Tallied, Stage
<1>7. t.queue = l.queue /\ t.out = l.out
  BY <1>4 DEF SameCue
<1>8. Tallied(t)
  <2>1. t.done \in Nat /\ t.bad \in Nat /\ t.done + t.bad = t.i - 1
    <3>1. CASE u.done = l.done + 1 /\ u.bad = l.bad
      <4>1. t.done = l.done + 1 /\ t.bad = l.bad /\ t.i = l.i + 1
        BY <1>3, <3>1
      <4>2. l.done \in Nat /\ l.bad \in Nat /\ l.i \in Nat /\ l.done + l.bad = l.i - 1
        BY <1>6
      <4>3. l.done + 1 \in Nat /\ (l.done + 1) + l.bad = (l.i + 1) - 1
        BY <4>2
      <4> QED
        BY <4>1, <4>2, <4>3
    <3>2. CASE u.done = l.done /\ u.bad = l.bad + 1
      <4>1. t.done = l.done /\ t.bad = l.bad + 1 /\ t.i = l.i + 1
        BY <1>3, <3>2
      <4>2. l.done \in Nat /\ l.bad \in Nat /\ l.i \in Nat /\ l.done + l.bad = l.i - 1
        BY <1>6
      <4>3. l.bad + 1 \in Nat /\ l.done + (l.bad + 1) = (l.i + 1) - 1
        BY <4>2
      <4> QED
        BY <4>1, <4>2, <4>3
    <3> QED
      BY <1>2, <3>1, <3>2
  <2>2. t.i \in Nat \ {0} /\ t.i <= Len(l.queue) + 1 /\ t.waited \in Nat
    <3>1. t.i = l.i + 1 /\ t.waited = l.waited
      BY <1>3
    <3>2. l.i \in Nat /\ l.i <= Len(l.queue) /\ Len(l.queue) \in Nat /\ l.waited \in Nat
      BY <1>6
    <3>3. l.i + 1 \in Nat \ {0} /\ l.i + 1 <= Len(l.queue) + 1
      BY <3>2
    <3> QED
      BY <3>1, <3>2, <3>3
  <2> QED
    BY <1>7, <2>1, <2>2 DEF Tallied
<1>9. Len(t.out) = t.i - 1 /\ (t.i > 1 => t.waited = t.out[t.i - 1].waited)
  <2>1. t.i - 1 = l.i
    BY <1>3, <1>6
  <2> QED
    BY <1>3, <1>6, <1>7, <2>1
<1>10. Playing(Player!Turn(t))
  BY <1>5, <1>8, <1>9, TurnKeeps
<1> QED
  BY <1>10 DEF t, u

LEMMA StoppedKeeps ==
    ASSUME NEW l, Playing(l)
    PROVE  Playing([l EXCEPT !.stop = TRUE])
<1> DEFINE t == [l EXCEPT !.stop = TRUE]
<1>1. DOMAIN l = {"mount", "stop", "queue", "isV5", "i", "gaps", "waited", "out", "at", "done", "bad", "asked"}
  BY DEF Playing, Cued
<1>2. SameCue(t, l) /\ t.i = l.i /\ t.waited = l.waited /\ t.done = l.done /\ t.bad = l.bad /\ t.at = l.at
      /\ t.stop
  BY <1>1 DEF SameCue
<1> HIDE DEF t
<1>3. Cued(t) /\ Sent(t)
  BY <1>2, CueKept DEF Playing
<1>4. Tallied(t) /\ Stage(t)
  BY <1>2 DEF Playing, Tallied, Stage, SameCue
<1>5. Playing(t)
  BY <1>3, <1>4 DEF Playing
<1> QED
  BY <1>5 DEF t

-----------------------------------------------------------------------------
(* Replays: the steps *)

LEMMA InSeq ==
    ASSUME NEW S, NEW s \in Seq(S)
    PROVE  s \in Seq({s[j] : j \in DOMAIN s}) /\ DOMAIN s = 1 .. Len(s) /\ Len(s) \in Nat
<1> DEFINE T == {s[j] : j \in DOMAIN s}
<1>1. s \in [1 .. Len(s) -> S] /\ DOMAIN s = 1 .. Len(s) /\ Len(s) \in Nat
  BY LenProperties
<1>2. s \in [1 .. Len(s) -> T]
  BY <1>1
<1> HIDE DEF T
<1>3. s \in Seq(T)
  BY <1>1, <1>2
<1> QED
  BY <1>1, <1>3 DEF T

\* The archive is what it was, and so is what is made of it.
LEMMA Composed ==
    ASSUME ReplayInv, UNCHANGED replayArchive, Asks(panel'), Loaded(panel'),
           \A r \in reading' : r.text \in Player!Files,
           loops' \in Seq({loops'[k] : k \in DOMAIN loops'}),
           \A k \in DOMAIN loops' : Playing(loops'[k])
    PROVE  ReplayInv'
<1>1. Player!Files' = Player!Files
  BY DEF Player!Files, Player!Written, Player!Rearranged, Player!Untimed
<1>2. Player!InOrder(replayArchive)'
  BY DEF ReplayInv
<1>3. Asks(panel)' /\ Loaded(panel)'
  BY DEF Asks, Loaded
<1>4. ASSUME NEW k \in DOMAIN loops'
      PROVE  Playing(loops[k])'
  <2>1. Cued(loops'[k]) /\ Sent(loops'[k]) /\ Tallied(loops'[k]) /\ Stage(loops'[k])
    BY DEF Playing
  <2>2. Cued(loops[k])'
    BY <2>1 DEF Cued, Asks
  <2>3. Sent(loops[k])' /\ Tallied(loops[k])' /\ Stage(loops[k])'
    BY <2>1 DEF Sent, Tallied, Stage
  <2> QED
    BY <2>2, <2>3 DEF Playing
<1> QED
  BY <1>1, <1>2, <1>3, <1>4 DEF ReplayInv

\* Loops and files as they were.
LEMMA PanelKeeps ==
    ASSUME ReplayInv, UNCHANGED <<replayArchive, loops>>, reading' \subseteq reading, Asks(panel'), Loaded(panel')
    PROVE  ReplayInv'
<1>1. \A r \in reading' : r.text \in Player!Files
  BY DEF ReplayInv
<1>2. loops' \in Seq({loops'[k] : k \in DOMAIN loops'})
  BY DEF ReplayInv
<1>3. \A k \in DOMAIN loops' : Playing(loops'[k])
  BY DEF ReplayInv
<1> QED
  BY <1>1, <1>2, <1>3, Composed

LEMMA LoadsKeep ==
    ASSUME ReplayInv, NEW text \in Player!Files, Player!load(text)
    PROVE  ReplayInv'
<1>1. UNCHANGED <<replayArchive, panel, loops>> /\ reading' = reading \cup {[text |-> text, mount |-> mount]}
  BY DEF Player!load
<1>2. Asks(panel') /\ Loaded(panel')
  BY <1>1 DEF ReplayInv
<1>3. \A r \in reading' : r.text \in Player!Files
  BY <1>1 DEF ReplayInv
<1>4. loops' \in Seq({loops'[k] : k \in DOMAIN loops'})
  BY <1>1 DEF ReplayInv
<1>5. \A k \in DOMAIN loops' : Playing(loops'[k])
  BY <1>1 DEF ReplayInv
<1> QED
  BY <1>1, <1>2, <1>3, <1>4, <1>5, Composed

\* What is read holds messages with times, or is not taken for a capture.
LEMMA FileReadKeeps ==
    ASSUME ReplayInv, NEW r \in reading, NEW readable \in BOOLEAN, Player!FileRead(r, readable)
    PROVE  ReplayInv'
<1> DEFINE parsed == IF readable THEN Player!parseCapture(r.text) ELSE Player!Reject("unreadable", 0)
<1>1. UNCHANGED <<replayArchive, loops>> /\ reading' \subseteq reading
  BY DEF Player!FileRead
<1>2. panel' = IF r.mount # mount THEN panel
               ELSE IF parsed.error # Player!None
                    THEN [panel EXCEPT !.capture = Player!None, !.error = parsed.error]
                    ELSE [panel EXCEPT !.capture = <<parsed>>, !.error = Player!None, !.sent = 0, !.failed = 0]
  BY DEF Player!FileRead
<1>3. parsed.error = Player!None => Taped(parsed.events)
  <2> SUFFICES ASSUME parsed.error = Player!None
               PROVE  Taped(parsed.events)
    OBVIOUS
  <2>1. readable
    BY DEF Player!Reject, Player!None
  <2>2. r.text \in Player!Files /\ Player!InOrder(replayArchive)
    BY DEF ReplayInv
  <2>3. Player!parseCapture(r.text).error = Player!None
    BY <2>1
  <2> QED
    BY <2>1, <2>2, <2>3, Taken
<1> HIDE DEF parsed
<1>4. Asks(panel) /\ Loaded(panel)
  BY DEF ReplayInv
<1>5. Asks(panel')
  BY <1>2, <1>4 DEF Asks
<1>6. Loaded(panel')
  <2>1. CASE r.mount # mount
    BY <1>2, <1>4, <2>1
  <2>2. CASE r.mount = mount /\ parsed.error # Player!None
    <3>1. panel'.capture = Player!None
      BY <1>2, <1>4, <2>2 DEF Asks
    <3> QED
      BY <3>1 DEF Loaded
  <2>3. CASE r.mount = mount /\ parsed.error = Player!None
    <3>1. panel'.capture = <<parsed>>
      BY <1>2, <1>4, <2>3 DEF Asks
    <3> QED
      BY <1>3, <2>3, <3>1 DEF Loaded
  <2> QED
    BY <2>1, <2>2, <2>3
<1> QED
  BY <1>1, <1>5, <1>6, PanelKeeps

LEMMA ChooseKeeps ==
    ASSUME ReplayInv, NEW which, NEW speed \in Speeds, NEW cap \in GapCaps, Player!Choose(which, speed, cap)
    PROVE  ReplayInv'
<1>1. /\ UNCHANGED <<replayArchive, loops, reading>>
      /\ panel' = [panel EXCEPT !.which = which, !.speed = speed, !.gapCap = cap]
  BY DEF Player!Choose
<1>2. Asks(panel) /\ Loaded(panel)
  BY DEF ReplayInv
<1>3. speed \in Nat \ {0} /\ cap \in Nat
  BY PanelsAssumption
<1>4. Asks(panel') /\ panel'.capture = panel.capture
  BY <1>1, <1>2, <1>3 DEF Asks
<1>5. Loaded(panel')
  BY <1>2, <1>4 DEF Loaded
<1> QED
  BY <1>1, <1>4, <1>5, PanelKeeps

LEMMA FreshPanel == Asks(Player!Fresh) /\ Player!Fresh.capture = Player!None
<1>1. Player!Max(GapCaps) \in Nat
  BY PanelsAssumption DEF Player!Max
<1> QED
  BY <1>1 DEF Asks, Player!Fresh

LEMMA SwitchKeeps ==
    ASSUME ReplayInv, Player!SwitchMode
    PROVE  ReplayInv'
<1>1. UNCHANGED <<replayArchive, loops, reading>> /\ panel' = Player!Fresh
  BY DEF Player!SwitchMode
<1>2. Asks(panel') /\ Loaded(panel')
  BY <1>1, FreshPanel DEF Loaded
<1> QED
  BY <1>1, <1>2, PanelKeeps

LEMMA LinkKeeps ==
    ASSUME ReplayInv, UNCHANGED <<replayArchive, loops, reading, panel>>
    PROVE  ReplayInv'
<1>1. Asks(panel') /\ Loaded(panel')
  BY DEF ReplayInv
<1> QED
  BY <1>1, PanelKeeps

\* One loop goes on.
LEMMA OneKeeps ==
    ASSUME ReplayInv, NEW k \in DOMAIN loops, NEW e, loops' = [loops EXCEPT ![k] = e],
           UNCHANGED <<replayArchive, reading>>, Asks(panel'), Loaded(panel'), Playing(e)
    PROVE  ReplayInv'
<1> DEFINE S == {loops[j] : j \in DOMAIN loops} \cup {e}
           z == [loops EXCEPT ![k] = e]
<1>1. DOMAIN loops = 1 .. Len(loops) /\ Len(loops) \in Nat /\ loops \in Seq(S)
  <2> DEFINE R == {loops[j] : j \in DOMAIN loops}
  <2>1. loops \in Seq(R) /\ R \subseteq S
    BY DEF ReplayInv
  <2> HIDE DEF R, S
  <2> QED
    BY <2>1, InSeq, SeqMonotonic
<1>2. e \in S
  OBVIOUS
<1> HIDE DEF S
<1>3. z \in Seq(S)
  BY <1>1, <1>2, ExceptSeq
<1> HIDE DEF z
<1>4. z \in Seq({z[j] : j \in DOMAIN z})
  BY <1>3, InSeq
<1>5. loops' = z /\ \A j \in DOMAIN z : j \in DOMAIN loops /\ (j # k => z[j] = loops[j]) /\ (j = k => z[j] = e)
  BY DEF z
<1>6. \A r \in reading' : r.text \in Player!Files
  BY DEF ReplayInv
<1>7. \A j \in DOMAIN loops' : Playing(loops'[j])
  BY <1>5 DEF ReplayInv
<1>8. loops' \in Seq({loops'[j] : j \in DOMAIN loops'})
  BY <1>4, <1>5
<1> QED
  BY <1>6, <1>7, <1>8, Composed

LEMMA GapKeeps ==
    ASSUME ReplayInv, NEW k \in DOMAIN loops, Player!GapOver(k)
    PROVE  ReplayInv'
<1>1. /\ loops[k].at = "waiting" /\ loops' = [loops EXCEPT ![k] = Player!Waited(loops[k])]
      /\ UNCHANGED <<replayArchive, panel, reading>>
  BY DEF Player!GapOver
<1>2. Asks(panel') /\ Loaded(panel')
  BY <1>1 DEF ReplayInv
<1>3. Playing(Player!Waited(loops[k]))
  BY <1>1, WaitedKeeps DEF ReplayInv
<1> QED
  BY <1>1, <1>2, <1>3, OneKeeps

LEMMA PublishedKeeps ==
    ASSUME ReplayInv, NEW k \in DOMAIN loops, NEW ok \in BOOLEAN, Player!Published(k, ok)
    PROVE  ReplayInv'
<1> DEFINE u == IF ok THEN [loops[k] EXCEPT !.done = @ + 1] ELSE [loops[k] EXCEPT !.bad = @ + 1]
           t == [u EXCEPT !.i = @ + 1]
<1>1. /\ loops[k].at = "sending" /\ loops' = [loops EXCEPT ![k] = Player!Turn(t)]
      /\ UNCHANGED <<replayArchive, reading>>
      /\ panel' = IF u.mount # mount THEN panel
                  ELSE [panel EXCEPT !.sent = u.done, !.failed = u.bad,
                                     !.error = IF ok THEN @ ELSE <<[why |-> "rejected", line |-> 0]>>]
  BY DEF Player!Published
<1>2. Playing(Player!Turn(t))
  BY <1>1, AnsweredKeeps DEF ReplayInv
<1> HIDE DEF u, t
<1>3. Asks(panel') /\ panel'.capture = panel.capture
  BY <1>1 DEF ReplayInv, Asks
<1>4. Loaded(panel')
  BY <1>3 DEF ReplayInv, Loaded
<1> QED
  BY <1>1, <1>2, <1>3, <1>4, OneKeeps

LEMMA StopKeeps ==
    ASSUME ReplayInv, Player!stop
    PROVE  ReplayInv'
<1> DEFINE z == [k \in DOMAIN loops |-> IF loops[k].mount = mount THEN [loops[k] EXCEPT !.stop = TRUE] ELSE loops[k]]
           S == {z[k] : k \in DOMAIN z}
<1>1. UNCHANGED <<replayArchive, panel, reading>> /\ loops' = z
  BY DEF Player!stop
<1>2. z \in Seq(S)
  <2> DEFINE R == {loops[j] : j \in DOMAIN loops}
  <2>1. loops \in Seq(R)
    BY DEF ReplayInv
  <2> HIDE DEF R
  <2>2. DOMAIN loops = 1 .. Len(loops) /\ Len(loops) \in Nat
    BY <2>1, LenProperties
  <2>3. z \in [1 .. Len(loops) -> S]
    BY <2>2
  <2> HIDE DEF z, S
  <2> QED
    BY <2>2, <2>3
<1>3. \A k \in DOMAIN z : Playing(z[k])
  <2> SUFFICES ASSUME NEW k \in DOMAIN z
               PROVE  Playing(z[k])
    OBVIOUS
  <2>1. Playing(loops[k])
    BY DEF ReplayInv
  <2>2. CASE loops[k].mount = mount
    BY <2>1, <2>2, StoppedKeeps
  <2>3. CASE loops[k].mount # mount
    BY <2>1, <2>3
  <2> QED
    BY <2>2, <2>3
<1>4. \A r \in reading' : r.text \in Player!Files
  BY <1>1 DEF ReplayInv
<1>5. Asks(panel') /\ Loaded(panel')
  BY <1>1 DEF ReplayInv
<1>6. loops' \in Seq({loops'[k] : k \in DOMAIN loops'})
  BY <1>1, <1>2
<1>7. \A k \in DOMAIN loops' : Playing(loops'[k])
  BY <1>1, <1>3
<1> HIDE DEF z, S
<1> QED
  BY <1>1, <1>4, <1>5, <1>6, <1>7, Composed

\* A replay starts with what the panel has.
LEMMA RunKeeps ==
    ASSUME ReplayInv, Player!run
    PROVE  ReplayInv'
<1> DEFINE l == [mount |-> mount, stop |-> FALSE, queue |-> Player!queue, isV5 |-> session.isV5, i |-> 1,
                 gaps |-> Player!paceFor(Player!queue, panel.speed, panel.gapCap), waited |-> 0, out |-> <<>>,
                 at |-> "waiting", done |-> 0, bad |-> 0,
                 asked |-> [panel EXCEPT !.error = Player!None]]
           e == Player!Turn(l)
           S == {loops[j] : j \in DOMAIN loops} \cup {e}
           z == Append(loops, e)
<1>1. /\ panel.capture # Player!None /\ loops' = z
      /\ panel' = [panel EXCEPT !.sent = 0, !.failed = 0] /\ UNCHANGED <<replayArchive, reading>>
  BY DEF Player!run
<1>2. Asks(panel) /\ Loaded(panel) /\ Player!InOrder(replayArchive)
  BY DEF ReplayInv
<1>3. Asks(panel') /\ panel'.capture = panel.capture
  BY <1>1, <1>2 DEF Asks
<1>4. Loaded(panel')
  BY <1>2, <1>3 DEF Loaded
<1>5. /\ Asks(l.asked) /\ l.asked.capture = panel.capture /\ l.asked.which = panel.which
      /\ l.asked.speed = panel.speed /\ l.asked.gapCap = panel.gapCap
  BY <1>2 DEF Asks
<1>6. Cued(l)
  <2>1. PICK file : panel.capture = <<file>> /\ Taped(file.events)
    BY <1>1, <1>2 DEF Loaded
  <2>2. Player!queue = Player!Picked(file.events, panel.which)
    <3>1. panel.capture[1] = file
      BY <2>1
    <3> QED
      BY <1>1, <3>1 DEF Player!queue
  <2>3. l.queue = Player!queue /\ l.gaps = Player!paceFor(Player!queue, panel.speed, panel.gapCap)
        /\ DOMAIN l = {"mount", "stop", "queue", "isV5", "i", "gaps", "waited", "out", "at", "done", "bad", "asked"}
    OBVIOUS
  <2> HIDE DEF l
  <2> QED
    BY <1>5, <2>1, <2>2, <2>3 DEF Cued
<1>7. l.out = <<>> /\ l.i = 1 /\ l.waited = 0 /\ l.done = 0 /\ l.bad = 0
  OBVIOUS
<1> HIDE DEF l
<1>8. Sent(l)
  <2>1. DOMAIN <<>> = {} /\ \A R : <<>> \in Seq(R)
    BY EmptySeq
  <2> QED
    BY <1>7, <2>1 DEF Sent
<1>9. Playing(e)
  <2>1. Len(l.queue) \in Nat
    BY <1>2, <1>6, CueIs
  <2>2. Tallied(l)
    BY <1>7, <2>1 DEF Tallied
  <2>3. Len(l.out) = l.i - 1 /\ (l.i > 1 => l.waited = l.out[l.i - 1].waited)
    BY <1>7, EmptySeq
  <2> QED
    BY <1>2, <1>6, <1>8, <2>2, <2>3, TurnKeeps
<1> HIDE DEF e
<1>10. loops \in Seq(S) /\ DOMAIN loops = 1 .. Len(loops) /\ Len(loops) \in Nat
  <2> DEFINE R == {loops[j] : j \in DOMAIN loops}
  <2>1. loops \in Seq(R) /\ R \subseteq S
    BY DEF ReplayInv
  <2> HIDE DEF R, S
  <2> QED
    BY <2>1, InSeq, SeqMonotonic
<1>11. e \in S
  OBVIOUS
<1> HIDE DEF S
<1>12. z \in Seq(S) /\ Len(z) = Len(loops) + 1 /\ (\A j \in 1 .. Len(loops) : z[j] = loops[j]) /\ z[Len(loops) + 1] = e
  BY <1>10, <1>11, AppendProperties
<1> HIDE DEF z
<1>13. z \in Seq({z[j] : j \in DOMAIN z}) /\ DOMAIN z = 1 .. Len(z)
  BY <1>12, InSeq
<1>14. \A j \in DOMAIN z : Playing(z[j])
  <2> SUFFICES ASSUME NEW j \in 1 .. Len(loops) + 1
               PROVE  Playing(z[j])
    BY <1>12, <1>13
  <2>1. CASE j = Len(loops) + 1
    BY <1>9, <1>12, <2>1
  <2>2. CASE j # Len(loops) + 1
    <3>1. j \in 1 .. Len(loops)
      BY <1>10, <2>2
    <3> QED
      BY <1>10, <1>12, <3>1 DEF ReplayInv
  <2> QED
    BY <2>1, <2>2
<1>15. \A r \in reading' : r.text \in Player!Files
  BY <1>1 DEF ReplayInv
<1>16. loops' \in Seq({loops'[k] : k \in DOMAIN loops'})
  BY <1>1, <1>13
<1>17. \A k \in DOMAIN loops' : Playing(loops'[k])
  BY <1>1, <1>14
<1> QED
  BY <1>1, <1>3, <1>4, <1>15, <1>16, <1>17, Composed

\* The gaps of a list of events, and of a list of messages.
TapeGaps(e) == [i \in 2 .. Len(e) |-> Player!Max({0, e[i].t - e[i - 1].t})]
TimeGaps(s) == [i \in 2 .. Len(s) |-> s[i].ts - s[i - 1].ts]

\* A loop that keeps to its queue publishes what its file holds.
LEMMA PlaysTold ==
    ASSUME NEW l, Playing(l)
    PROVE  /\ Len(l.out) - (l.done + l.bad) \in {0, 1} /\ \A i \in DOMAIN l.out : ~l.out[i].stopped
           /\ DOMAIN l.out = 1 .. Len(l.out) /\ Len(l.out) \in Nat /\ Len(Player!Script(l)) \in Nat
           /\ Player!Plays(l, Player!Script(l), TapeGaps(Player!Script(l)))
<1> DEFINE q == l.queue
           m == Len(q)
           n == Len(l.out)
           gap == TapeGaps(q)
<1>1. Cued(l) /\ Sent(l) /\ Tallied(l) /\ Stage(l)
  BY DEF Playing
<1>2. /\ m \in Nat /\ q = Player!Script(l)
      /\ \A i \in 1 .. m :
            /\ l.gaps[i] \in Nat /\ {"id", "props"} \subseteq DOMAIN q[i]
            /\ i > 1 => l.gaps[i] = Due(l, Player!Max({0, q[i].t - q[i - 1].t}))
  BY <1>1, CueIs
<1>3. n \in Nat /\ DOMAIN l.out = 1 .. n
  <2> DEFINE R == {l.out[j] : j \in DOMAIN l.out}
  <2>1. l.out \in Seq(R)
    BY <1>1 DEF Sent
  <2> HIDE DEF R
  <2> QED
    BY <2>1, LenProperties
<1>4. n <= m /\ n - (l.done + l.bad) \in {0, 1} /\ (l.at = "ended" /\ ~l.stop => n = m)
  <2>1. l.i \in Nat \ {0} /\ l.i <= m + 1 /\ l.done + l.bad = l.i - 1
    BY <1>1 DEF Tallied
  <2>2. /\ n = l.i - 1 \/ (n = l.i /\ l.i <= m)
        /\ l.at = "ended" /\ ~l.stop => n = l.i - 1 /\ l.i > m
    BY <1>1 DEF Stage
  <2> HIDE DEF m, n
  <2> QED
    BY <1>2, <1>3, <2>1, <2>2
<1>5. \A i \in 1 .. m : i > 1 => gap[i] = Player!Max({0, q[i].t - q[i - 1].t})
  <2>1. \A i \in 1 .. m : i > 1 => i \in 2 .. m
    BY <1>2
  <2> QED
    BY <2>1 DEF TapeGaps
<1> HIDE DEF gap
<1>6. ASSUME NEW i \in 1 .. n
      PROVE  /\ ~l.out[i].stopped /\ l.out[i].of.id = q[i].id
             /\ l.out[i].of.props = IF l.isV5 THEN q[i].props ELSE {}
             /\ i > 1 => l.out[i].waited - l.out[i - 1].waited = Due(l, gap[i])
  <2>1. i \in 1 .. m
    BY <1>2, <1>3, <1>4
  <2>2. /\ l.out[i].of = Player!toParams(q[i], l.isV5) /\ ~l.out[i].stopped /\ l.out[i].waited \in Nat
        /\ i > 1 => l.out[i].waited = l.out[i - 1].waited + l.gaps[i]
    BY <1>1, <1>3 DEF Sent
  <2>3. /\ Player!toParams(q[i], l.isV5).id = q[i].id
        /\ Player!toParams(q[i], l.isV5).props = IF l.isV5 THEN q[i].props ELSE {}
    <3>1. {"id", "props"} \subseteq DOMAIN q[i]
      BY <1>2, <2>1
    <3> QED
      BY <3>1 DEF Player!toParams
  <2>4. i > 1 => l.out[i].waited - l.out[i - 1].waited = Due(l, gap[i])
    <3> SUFFICES ASSUME i > 1
                 PROVE  l.out[i].waited - l.out[i - 1].waited = Due(l, gap[i])
      OBVIOUS
    <3>1. i - 1 \in 1 .. n
      BY <1>3
    <3>2. l.out[i - 1].waited \in Nat
      BY <1>1, <1>3, <3>1 DEF Sent
    <3>3. l.gaps[i] \in Nat /\ l.gaps[i] = Due(l, gap[i])
      BY <1>2, <1>5, <2>1
    <3>4. l.out[i].waited = l.out[i - 1].waited + l.gaps[i]
      BY <2>2
    <3>5. \A a, b, d : a \in Nat /\ b \in Nat /\ d = a + b => d - a = b
      OBVIOUS
    <3> QED
      BY <3>2, <3>3, <3>4, <3>5
  <2> QED
    BY <2>2, <2>3, <2>4
<1> HIDE DEF q
<1>7. Player!Plays(l, q, gap)
  BY <1>3, <1>4, <1>6 DEF Player!Plays, Due
<1> QED
  BY <1>2, <1>3, <1>4, <1>6, <1>7 DEF gap

\* A file as it was written, or the head of one.
LEMMA WrittenHead ==
    ASSUME Player!InOrder(replayArchive), NEW file, Taped(file.events), Player!AsWritten(file)
    PROVE  \E n \in 1 .. Size, c \in BOOLEAN : \E k \in 1 .. n : file = Read(n, c, k) /\ Len(file.events) = k
<1>1. PICK k \in Nat \ {0} : Len(file.events) = k
  BY DEF Taped
<1>2. PICK n \in Len(file.events) .. Size :
         file = Player!parseCapture(SubSeq(Player!Written(n), 1, Len(file.events) + 1))
  BY DEF Player!AsWritten, Size
<1>3. ASSUME Len(file.events) = k
      PROVE  \E c \in BOOLEAN : n \in 1 .. Size /\ k \in 1 .. n /\ file = Read(n, c, k)
  <2>1. Size \in Nat
    <3> DEFINE R == Player!ToSet(replayArchive)
    <3>1. replayArchive \in Seq(R)
      BY DEF Player!InOrder
    <3> HIDE DEF R
    <3> QED
      BY <3>1, LenProperties DEF Size
  <2>2. n \in 1 .. Size /\ k \in 1 .. n /\ (n < Size) \in BOOLEAN
    BY <1>2, <1>3, <2>1
  <2>3. file = Player!parseCapture(SubSeq(Capture(n, n < Size), 1, k + 1))
    BY <1>2, <1>3, WrittenIs
  <2> QED
    BY <2>2, <2>3, ParsedHead
<1> QED
  BY <1>1, <1>3

LEMMA ReadIs ==
    ASSUME Player!InOrder(replayArchive), NEW n \in 1 .. Size, NEW c, NEW k \in 1 .. n
    PROVE  /\ Len(Read(n, c, k).events) = k /\ Read(n, c, k).events = Begun(n, k)
           /\ Read(n, c, k).header[1] = Player!Header(Tape(n), c) /\ Player!Header(Tape(n), c).count = n
           /\ n \in Nat /\ k \in Nat \ {0} /\ k <= n
           /\ k = n => Begun(n, k) = Tape(n) /\ Tape(n) # <<>>
<1>1. DOMAIN Tape(n) = 1 .. n /\ n \in Nat \ {0} /\ k \in Nat \ {0} /\ k <= n
  BY TapeTyped
<1>2. Tape(n) = [i \in 1 .. n |-> Tape(n)[i]]
  BY <1>1 DEF Tape
<1>3. Len(Tape(n)) = n
  BY <1>1, <1>2, ListIs
<1>4. Len(Begun(n, k)) = k
  <2>1. Begun(n, k) = [i \in 1 .. k |-> Begun(n, k)[i]]
    BY DEF Begun
  <2> QED
    BY <1>1, <2>1, ListIs
<1>5. 1 \in DOMAIN Tape(n)
  BY <1>1
<1>6. Tape(n) # <<>>
  BY <1>5, EmptySeq
<1>7. Player!Header(Tape(n), c).count = n
  BY <1>3 DEF Player!Header
<1>8. Read(n, c, k).events = Begun(n, k) /\ Read(n, c, k).header[1] = Player!Header(Tape(n), c)
  BY DEF Read
<1> QED
  BY <1>1, <1>2, <1>4, <1>6, <1>7, <1>8 DEF Begun

\* That is what was recorded, if nobody edited the file.
LEMMA PlaysWritten ==
    ASSUME Player!InOrder(replayArchive), Player!Apart, NEW l, Playing(l), Player!AsWritten(l.asked.capture[1])
    PROVE  Player!Plays(l, Player!Source(l), TimeGaps(Player!Source(l)))
<1> DEFINE e == Player!Script(l)
           s == Player!Source(l)
           w == l.asked.which
<1>1. PICK file : l.asked.capture = <<file>> /\ Taped(file.events)
  BY DEF Playing, Cued
<1>2. l.asked.capture[1] = file
  BY <1>1
<1>3. PICK n \in 1 .. Size, c \in BOOLEAN : \E k \in 1 .. n : file = Read(n, c, k) /\ Len(file.events) = k
  BY <1>1, <1>2, WrittenHead
<1>4. PICK k \in 1 .. n : file = Read(n, c, k)
  BY <1>3
<1>5. /\ n \in Nat /\ k \in Nat /\ file.events = Begun(n, k) /\ Len(file.events) = k /\ file.header[1].count = n
  BY <1>4, ReadIs
<1>6. Size \in Nat
  BY NewestIs
<1>7. e = Player!Picked(Begun(n, k), w) /\ s = SourceOf(n, k, w)
  BY <1>2, <1>5 DEF Player!Script, Player!Source, SourceOf, Size
<1>8. PICK m \in Nat :
         /\ Len(e) = m /\ DOMAIN e = 1 .. m /\ Len(s) = m
         /\ \A i \in 1 .. m :
               /\ e[i].id = s[i].id /\ e[i].props = s[i].props
               /\ i > 1 => /\ s[i].ts - s[i - 1].ts \in Nat
                           /\ Player!Max({0, e[i].t - e[i - 1].t}) = s[i].ts - s[i - 1].ts
  <2>1. \E m \in Nat : Follows(e, s, m)
    BY <1>7, Alike
  <2> HIDE DEF e, s
  <2> QED
    BY <2>1 DEF Follows
<1>9. Player!Plays(l, e, TapeGaps(e)) /\ DOMAIN l.out = 1 .. Len(l.out) /\ Len(l.out) \in Nat
  BY PlaysTold
<1> HIDE DEF e, s
<1>10. /\ Len(l.out) <= m /\ (l.at = "ended" /\ ~l.stop => Len(l.out) = m)
       /\ \A i \in 1 .. Len(l.out) :
             /\ l.out[i].of.id = e[i].id
             /\ l.out[i].of.props = IF l.isV5 THEN e[i].props ELSE {}
             /\ i > 1 => l.out[i].waited - l.out[i - 1].waited = Due(l, TapeGaps(e)[i])
  BY <1>8, <1>9 DEF Player!Plays, Due
<1>11. ASSUME NEW i \in 1 .. Len(l.out)
       PROVE  /\ l.out[i].of.id = s[i].id
              /\ l.out[i].of.props = IF l.isV5 THEN s[i].props ELSE {}
              /\ i > 1 => l.out[i].waited - l.out[i - 1].waited = Due(l, TimeGaps(s)[i])
  <2>1. i \in 1 .. m /\ (i > 1 => i \in 2 .. m)
    BY <1>8, <1>9, <1>10
  <2>2. i > 1 => TapeGaps(e)[i] = TimeGaps(s)[i]
    BY <1>8, <2>1 DEF TapeGaps, TimeGaps
  <2> QED
    BY <1>8, <1>10, <2>1, <2>2
<1> QED
  BY <1>8, <1>9, <1>10, <1>11 DEF Player!Plays, Due, s

LEMMA ReplayTold ==
    ASSUME ReplayInv
    PROVE  Player!PlaysAsRecorded
<1>1. Player!InOrder(replayArchive) /\ Loaded(panel)
  BY DEF ReplayInv
<1>2. ASSUME panel.capture # Player!None, Player!AsWritten(panel.capture[1])
      PROVE  LET header == panel.capture[1].header[1]
             IN  /\ Player!summary[1].count <= header.count
                 /\ Player!summary[1].count = header.count => Player!summary[1].spanMs = header.spanMs
  <2>1. PICK file : panel.capture = <<file>> /\ Taped(file.events)
    BY <1>1, <1>2 DEF Loaded
  <2>2. panel.capture[1] = file
    BY <2>1
  <2>3. PICK n \in 1 .. Size, c \in BOOLEAN : \E k \in 1 .. n : file = Read(n, c, k) /\ Len(file.events) = k
    BY <1>1, <1>2, <2>1, <2>2, WrittenHead
  <2>4. PICK k \in 1 .. n : file = Read(n, c, k)
    BY <2>3
  <2>5. /\ file.events = Begun(n, k) /\ Len(file.events) = k /\ n \in Nat /\ k \in Nat /\ k <= n
        /\ file.header[1] = Player!Header(Tape(n), c) /\ file.header[1].count = n
        /\ k = n => Begun(n, k) = Tape(n) /\ Tape(n) # <<>>
    BY <1>1, <2>4, ReadIs
  <2>6. Player!summary[1] = Player!summarizeCapture(file.events)
    BY <1>2, <2>2 DEF Player!summary
  <2>7. Player!summary[1].count = k /\ Player!summary[1].spanMs = Player!Last(file.events).t
    BY <2>5, <2>6 DEF Player!summarizeCapture
  <2>8. k = n => Player!Last(file.events).t = Player!Header(Tape(n), c).spanMs
    BY <2>5 DEF Player!Header
  <2> QED
    BY <2>2, <2>5, <2>7, <2>8
<1>3. ASSUME NEW k \in DOMAIN loops
      PROVE  LET l == loops[k]
                 script == Player!Script(l)
                 source == Player!Source(l)
             IN  /\ Len(l.out) - (l.done + l.bad) \in {0, 1} /\ \A i \in DOMAIN l.out : ~l.out[i].stopped
                 /\ Player!Plays(l, script, [i \in 2 .. Len(script) |-> Player!Max({0, script[i].t - script[i - 1].t})])
                 /\ Player!Apart /\ Player!AsWritten(l.asked.capture[1]) =>
                       Player!Plays(l, source, [i \in 2 .. Len(source) |-> source[i].ts - source[i - 1].ts])
  <2> DEFINE l == loops[k]
  <2>1. Playing(l)
    BY DEF ReplayInv
  <2> HIDE DEF l
  <2>2. /\ Len(l.out) - (l.done + l.bad) \in {0, 1} /\ \A i \in DOMAIN l.out : ~l.out[i].stopped
        /\ Player!Plays(l, Player!Script(l), TapeGaps(Player!Script(l)))
    BY <2>1, PlaysTold
  <2>3. ASSUME Player!Apart, Player!AsWritten(l.asked.capture[1])
        PROVE  Player!Plays(l, Player!Source(l), TimeGaps(Player!Source(l)))
    BY <1>1, <2>1, <2>3, PlaysWritten
  <2> QED
    BY <2>2, <2>3, Zenon DEF TapeGaps, TimeGaps, l
<1> QED
  BY <1>2, <1>3, Zenon DEF Player!PlaysAsRecorded

LEMMA ReplayInit ==
    ASSUME Player!Init
    PROVE  ReplayInv
<1>1. replayArchive \in Recorded /\ panel = Player!Fresh /\ reading = {} /\ loops = <<>>
  BY DEF Player!Init
<1>2. Player!InOrder(replayArchive)
  BY <1>1, PanelsAssumption
<1>3. Asks(panel) /\ Loaded(panel)
  BY <1>1, FreshPanel DEF Loaded
<1>4. loops \in Seq({loops[k] : k \in DOMAIN loops}) /\ DOMAIN loops = {}
  BY <1>1, EmptySeq
<1> QED
  BY <1>1, <1>2, <1>3, <1>4 DEF ReplayInv

LEMMA ReplayStep ==
    ASSUME ReplayInv, [Player!Next]_(Player!vars)
    PROVE  ReplayInv'
<1>1. CASE UNCHANGED Player!vars
  BY <1>1, LinkKeeps DEF Player!vars
<1>2. CASE \E text \in Player!Files : Player!load(text)
  BY <1>2, LoadsKeep
<1>3. CASE \E r \in reading, readable \in BOOLEAN : Player!FileRead(r, readable)
  BY <1>3, FileReadKeeps
<1>4. CASE \E which \in {"in", "out", "both"}, speed \in Speeds, cap \in GapCaps : Player!Choose(which, speed, cap)
  BY <1>4, ChooseKeeps
<1>5. CASE \E k \in DOMAIN loops : Player!GapOver(k) \/ \E ok \in BOOLEAN : Player!Published(k, ok)
  BY <1>5, GapKeeps, PublishedKeeps
<1>6. CASE \E c, v \in BOOLEAN : Player!SwitchSession(c, v)
  <2>1. UNCHANGED <<replayArchive, loops, reading, panel>>
    BY <1>6 DEF Player!SwitchSession
  <2> QED
    BY <2>1, LinkKeeps
<1>7. CASE Player!run
  BY <1>7, RunKeeps
<1>8. CASE Player!stop
  BY <1>8, StopKeeps
<1>9. CASE Player!SwitchMode
  BY <1>9, SwitchKeeps
<1> QED
  BY <1>1, <1>2, <1>3, <1>4, <1>5, <1>6, <1>7, <1>8, <1>9 DEF Player!Next

\* A step of the desk is one of the part that is open, or changes nothing in it.
LEMMA ReplayMoves == [PanelsStep]_<<part, clicks, panelVars>> => part' = part /\ (part = "replay" => [Player!Next]_(Player!vars))
BY DEF PanelsStep, PanelsNext, PanelsParts, panelVars, replay, Player!vars

\* Of these parts alone: see ReplayPlaysAsRecorded in Desk_proofs.
LEMMA ReplayPlaysAsRecordedInPanels == PanelsSpec => []PlaysAsRecorded
<1> DEFINE Holds == part = "replay" => ReplayInv
<1>1. PanelsInit => Holds
  BY ReplayInit DEF PanelsInit
<1>2. Holds /\ [PanelsStep]_<<part, clicks, panelVars>> => Holds'
  BY ReplayStep, ReplayMoves
<1>3. Holds => PlaysAsRecorded
  BY ReplayTold DEF PlaysAsRecorded
<1> QED
  BY <1>1, <1>2, <1>3, PTL DEF PanelsSpec
=============================================================================
