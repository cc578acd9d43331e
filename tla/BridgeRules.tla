---------------------------- MODULE BridgeRules ----------------------------
(***************************************************************************)
(* The bridge's rules in the window: the form that edits one (BridgePanel),*)
(* the connections they name (hooks/useBridge, utils/bridgeConns), and the *)
(* credentials among their webhook headers, which go to the operating      *)
(* system's credential store (utils/webhookHeaders) while the rule keeps   *)
(* a reference, and are deleted there when no rule points at them any more *)
(* (hooks/useReleasedHeaderSecrets).                                       *)
(*                                                                         *)
(* A save waits for the store, header by header, and the panel goes on     *)
(* meanwhile.  So does the move of the headers that an older build left in *)
(* the clear: the window waits four seconds for it, and no longer.         *)
(*                                                                         *)
(* A sink is what its headers are: names in the clear, and names with      *)
(* references.                                                             *)
(***************************************************************************)
EXTENDS Integers, Sequences, FiniteSets, SequencesExt

CONSTANTS
    Id,        \* ids of rules
    Conn,      \* ids of connections
    Filter,    \* source filters that can be typed; it stands for the other fields of the form too
    Name,      \* names of credential headers that can be typed
    Ref,       \* references that can be minted
    None,      \* a model value: nothing there
    MaxSinks,  \* BRIDGE_MAX_EXTRA_SINKS, and the sink of the rule's own
    MaxRows,   \* bound: header lines of a sink
    Stored,    \* rule sets a run can start with, before any header was moved to the store
    MaxClicks  \* bound: what the user does

Sink == [url : BOOLEAN, plain : {p \in SUBSET Name : IsFiniteSet(p)}, secrets : Seq(Name \X Ref)]
\* BridgeRule.  The target and the sinks both stay on the rule, whichever its kind makes count.
Rule == [source : Conn, target : Conn, http : BOOLEAN, filter : Filter \cup {None},
         enabled : BOOLEAN, sinks : Seq(Sink)]
\* A header line of the editor: a name and a new value, or the mark of a stored one.
Row == [name : Name, mark : BOOLEAN]

VARIABLES
    rules,       \* the rules of the window; none before it is mounted
    disk,        \* the stored rules
    connections, \* the list of connections
    boot,        \* [asked: the migration has yet to read the rules, up: the window is mounted]
    staged,      \* the migration's snapshot: [rules, moved: whether a header was]
    store, minted, available,
    draft, texts, \* the form: a rule, and the header lines of its sinks
    form,        \* [open, editing, error]
    saving,      \* the save under way: [rule, texts, editing, at, todo, done]
    drops,       \* references being deleted
    pendingDelete, armedConn,
    disowned,    \* history: references deleted while a form, a save or the snapshot had them
    clicks

vars == <<rules, disk, connections, boot, staged, store, minted, available, draft, texts, form,
          saving, drops, pendingDelete, armedConn, disowned, clicks>>
stored == <<rules, disk, drops, disowned>>
startup == <<boot, staged>>
vault == <<store, minted, available, drops, disowned>>
panel == <<draft, texts, form, saving, pendingDelete, armedConn>>

\* newSink, newRuleDraft.
newSink == [url |-> FALSE, plain |-> {}, secrets |-> <<>>]
newRuleDraft(s, t) == 
    [source |-> s, target |-> t, http |-> FALSE, filter |-> None, enabled |-> TRUE, sinks |-> <<newSink>>]
Closed == [open |-> FALSE, editing |-> None, error |-> FALSE]

RefsOfSinks(sinks) == UNION {{h[2] : h \in ToSet(s.secrets)} : s \in ToSet(sinks)}
\* headerReferences.
headerReferences(rs) == UNION {RefsOfSinks(rs[i].sinks) : i \in {i \in Id : rs[i] # None}}
\* formatSinkHeaders: what is stored comes as a mark.
formatSinkHeaders(s) ==
    [k \in 1 .. Cardinality(s.plain) |-> [name |-> SetToSeq(s.plain)[k], mark |-> FALSE]]
        \o [k \in DOMAIN s.secrets |-> [name |-> s.secrets[k][1], mark |-> TRUE]]

NoRules == [i \in Id |-> None]
Starting == [asked |-> TRUE, up |-> FALSE]
Init ==
    /\ rules = NoRules /\ disk \in Stored /\ connections = {"src", "dst"}
    /\ boot = Starting /\ staged = None /\ store = {} /\ minted = {} /\ available \in BOOLEAN
    /\ draft = newRuleDraft("src", "dst") /\ texts = << <<>> >>
    /\ form = Closed /\ saving = None /\ drops = {}
    /\ pendingDelete = None /\ armedConn = None /\ disowned = {} /\ clicks = 0

Click == boot.up /\ clicks < MaxClicks /\ clicks' = clicks + 1

-----------------------------------------------------------------------------
(* Startup                                                                 *)

\* migrateWebhookHeaders comes to the rules, once the passwords are through.
ReadRules ==
    /\ boot.asked /\ boot' = [boot EXCEPT !.asked = FALSE]
    /\ staged' = IF available THEN [rules |-> disk, moved |-> FALSE] ELSE None
    /\ UNCHANGED <<rules, disk, connections, vault, panel, clicks>>

\* moveSink: a failed write leaves the header as it was.
MoveHeader(i, k, n, r) ==
    /\ staged # None /\ staged.rules[i] # None
    /\ k \in DOMAIN staged.rules[i].sinks /\ n \in staged.rules[i].sinks[k].plain /\ r \in Ref \ minted
    /\ minted' = minted \cup {r} /\ store' = store \cup {r}
    /\ LET s == staged.rules[i].sinks[k] IN
       staged' = [rules |-> [staged.rules EXCEPT ![i].sinks[k] =
                                [s EXCEPT !.plain = s.plain \ {n},
                                          !.secrets = Append(s.secrets, <<n, r>>)]],
                  moved |-> TRUE]
    /\ UNCHANGED <<stored, connections, boot, available, panel, clicks>>

\* The migration is through the rules: its snapshot is what is stored now, whatever the window
\* has stored since.
WriteRules ==
    /\ staged # None /\ staged' = None
    /\ disk' = IF staged.moved THEN staged.rules ELSE disk
    /\ UNCHANGED <<rules, connections, boot, vault, panel, clicks>>

\* migrateBeforeRender: the migration has ended, or four seconds have passed.
MountWindow ==
    /\ ~boot.up /\ boot' = [boot EXCEPT !.up = TRUE] /\ rules' = disk
    /\ UNCHANGED <<disk, connections, staged, vault, panel, clicks>>

\* The program is started again; a migration, a save under way, and deletions, are lost.
Restart ==
    /\ Click /\ rules' = NoRules /\ boot' = Starting /\ staged' = None /\ available' \in BOOLEAN
    /\ draft' = newRuleDraft("src", "dst") /\ texts' = << <<>> >>
    /\ form' = Closed /\ saving' = None /\ drops' = {} /\ pendingDelete' = None /\ armedConn' = None
    /\ UNCHANGED <<disk, connections, store, minted, disowned>>

-----------------------------------------------------------------------------
(* What hangs on the rules                                                 *)

\* The references a form, a save or the migration holds.
HeldBy(d, s) ==
    RefsOfSinks(d.sinks) \cup (IF s = None THEN {} ELSE RefsOfSinks(s.rule.sinks))
        \cup (IF staged = None THEN {} ELSE headerReferences(staged.rules))

\* releasedReferences: "A reference shared by two rules stays until both are gone."
releasedReferences(before, after) == headerReferences(before) \ headerReferences(after)

\* setRules, and the effects that store the rules and delete what they have released.
setRules(rs) ==
    /\ rules' = rs /\ disk' = rs
    /\ LET released == releasedReferences(rules, rs) IN
       /\ drops' = drops \cup released
       /\ disowned' = disowned \cup (released \cap HeldBy(draft', saving'))

Dropped(r) ==
    /\ r \in drops /\ drops' = drops \ {r} /\ store' \in {store, store \ {r}}
    /\ UNCHANGED <<rules, disk, connections, startup, minted, available, disowned, panel, clicks>>

-----------------------------------------------------------------------------
(* The form                                                                *)

Still == UNCHANGED <<rules, disk, connections, startup, vault>>

\* The Add button opens the form on whatever draft there is.
showForm ==
    /\ Click /\ ~form.open /\ form' = [form EXCEPT !.open = TRUE]
    /\ UNCHANGED <<draft, texts, saving, pendingDelete, armedConn>> /\ Still

closeForm ==
    /\ Click /\ form.open /\ form' = Closed
    /\ UNCHANGED <<draft, texts, saving, pendingDelete, armedConn>> /\ Still

startEdit(i) ==
    /\ Click /\ rules[i] # None
    /\ draft' = rules[i] /\ texts' = [k \in DOMAIN rules[i].sinks |-> formatSinkHeaders(rules[i].sinks[k])]
    /\ form' = [open |-> TRUE, editing |-> i, error |-> FALSE]
    /\ UNCHANGED <<saving, pendingDelete, armedConn>> /\ Still

\* The recipes: a rule between the first two connections, or to a webhook.
startRecipe(kind) ==
    /\ Click
    /\ draft' = [newRuleDraft("src", "dst") EXCEPT
                    !.filter = CHOOSE f \in Filter : TRUE,
                    !.http = (kind # "broker"),
                    !.sinks = <<[newSink EXCEPT !.url = (kind # "broker")]>>]
    /\ texts' = << <<>> >> /\ form' = [open |-> TRUE, editing |-> None, error |-> FALSE]
    /\ UNCHANGED <<saving, pendingDelete, armedConn>> /\ Still

\* A select of the form.  connChoices offers the listed connections and the one the draft has.
connChoices(c) == connections \cup {c}
setField(f, s, t, http) ==
    /\ Click /\ form.open
    /\ s \in connChoices(draft.source) /\ t \in connChoices(draft.target) /\ (http => t = draft.target)
    /\ draft' = [draft EXCEPT !.filter = f, !.source = s, !.target = t, !.http = http] /\ draft' # draft
    /\ UNCHANGED <<texts, form, saving, pendingDelete, armedConn>> /\ Still

HttpForm == Click /\ form.open /\ draft.http

setSinkUrl(k) ==
    /\ HttpForm /\ k \in DOMAIN draft.sinks
    /\ draft' = [draft EXCEPT !.sinks[k].url = ~@]
    /\ UNCHANGED <<texts, form, saving, pendingDelete, armedConn>> /\ Still

\* The header box of a sink: a line typed, one renamed, or one removed.
setHeaderText(k, n) ==
    /\ HttpForm /\ k \in DOMAIN draft.sinks
    /\ LET rows == texts[k] IN
       \/ Len(rows) < MaxRows /\ texts' = [texts EXCEPT ![k] = Append(rows, [name |-> n, mark |-> FALSE])]
       \/ \E j \in DOMAIN rows : texts' = [texts EXCEPT ![k] = RemoveAt(rows, j)]
       \/ \E j \in DOMAIN rows : n # rows[j].name /\ texts' = [texts EXCEPT ![k][j].name = n]
    /\ UNCHANGED <<draft, form, saving, pendingDelete, armedConn>> /\ Still

addExtraSink ==
    /\ HttpForm /\ Len(draft.sinks) < MaxSinks
    /\ draft' = [draft EXCEPT !.sinks = Append(@, newSink)] /\ texts' = Append(texts, <<>>)
    /\ UNCHANGED <<form, saving, pendingDelete, armedConn>> /\ Still

removeExtraSink(k) ==
    /\ HttpForm /\ k \in 2 .. Len(draft.sinks)
    /\ draft' = [draft EXCEPT !.sinks = RemoveAt(@, k)] /\ texts' = RemoveAt(texts, k)
    /\ UNCHANGED <<form, saving, pendingDelete, armedConn>> /\ Still

-----------------------------------------------------------------------------
(* Saving                                                                  *)

\* The last step of submitDraft.  A rule that is gone is not updated.
Finish(rule, editing) ==
    /\ draft' = newRuleDraft(rule.source, rule.target) /\ texts' = << <<>> >> /\ form' = Closed
    /\ saving' = None
    /\ IF editing # None
       THEN IF rules[editing] = None THEN setRules(rules) ELSE setRules([rules EXCEPT ![editing] = rule])
       ELSE \E i \in {i \in Id : rules[i] = None} : setRules([rules EXCEPT ![i] = rule])

Refuse == form' = [form EXCEPT !.error = TRUE] /\ UNCHANGED <<draft, texts>>

\* Another rule that does the same.
clash(i) ==
    /\ i # form.editing /\ rules[i] # None
    /\ rules[i].source = draft.source /\ rules[i].filter = draft.filter /\ rules[i].http = draft.http
    /\ IF draft.http THEN rules[i].sinks[1].url = draft.sinks[1].url ELSE rules[i].target = draft.target

submitDraft ==
    /\ Click /\ form.open /\ saving = None
    /\ IF draft.filter = None \/ \E i \in Id : clash(i)
       THEN Refuse /\ UNCHANGED <<stored, saving>>
       ELSE IF draft.http
       THEN /\ saving' = [rule |-> draft, texts |-> texts, editing |-> form.editing, at |-> "status",
                          todo |-> {}, done |-> {}]
            /\ UNCHANGED <<stored, draft, texts, form>>
       ELSE Finish(draft, form.editing)
    /\ UNCHANGED <<connections, startup, store, minted, available, pendingDelete, armedConn>>

\* planSinkSecrets: a mark keeps the reference last stored under its name; a new value gets a
\* reference of its own, or stays in the clear without a store.
known(s, n) == {h[2] : h \in {h \in ToSet(s.secrets) : h[1] = n}}
KnownLast(s, n) == s.secrets[Max({j \in DOMAIN s.secrets : s.secrets[j][1] = n})][2]
Stale(s, rows) == \E j \in DOMAIN rows : rows[j].mark /\ known(s, rows[j].name) = {}
\* The numbers of a set, in ascending order.
Ascending(S) == CHOOSE s \in [1 .. Cardinality(S) -> S] : \A i, j \in DOMAIN s : i < j => s[i] < s[j]
\* m names the reference minted for each new line.
planSinkSecrets(s, rows, m) ==
    LET secret == Ascending({j \in DOMAIN rows : rows[j].mark \/ available}) IN
    [s EXCEPT !.plain = {rows[j].name : j \in {j \in DOMAIN rows : ~rows[j].mark /\ ~available}},
              !.secrets = [x \in DOMAIN secret |->
                               LET row == rows[secret[x]] IN
                               <<row.name, IF row.mark THEN KnownLast(s, row.name) ELSE m[secret[x]]>>]]

\* finalizeSinks up to the writes: the primary sink, and the extra ones that have an address.
Kept == {k \in DOMAIN saving.rule.sinks : k = 1 \/ saving.rule.sinks[k].url}
NewLines ==
    {l \in UNION {{k} \X DOMAIN saving.texts[k] : k \in DOMAIN saving.rule.sinks} :
        saving.rule.sinks[l[1]].url /\ ~saving.texts[l[1]][l[2]].mark /\ available}
PlanSinks(mint) ==
    [k \in DOMAIN saving.rule.sinks |->
        IF ~saving.rule.sinks[k].url THEN newSink
        ELSE planSinkSecrets(saving.rule.sinks[k], saving.texts[k],
                             [j \in DOMAIN saving.texts[k] |-> IF <<k, j>> \in DOMAIN mint
                                                               THEN mint[<<k, j>>] ELSE None])]
finalizeSinks ==
    /\ saving # None /\ saving.at = "status"
    /\ IF \/ \A k \in DOMAIN saving.rule.sinks : ~saving.rule.sinks[k].url
          \/ \E k \in Kept : saving.rule.sinks[k].url /\ Stale(saving.rule.sinks[k], saving.texts[k])
       THEN saving' = None /\ Refuse /\ UNCHANGED minted
       ELSE /\ \E mint \in [NewLines -> Ref \ minted] :
                 /\ \A a, b \in NewLines : a # b => mint[a] # mint[b]
                 /\ minted' = minted \cup {mint[a] : a \in NewLines}
                 /\ saving' = [saving EXCEPT
                        !.at = "writes", !.todo = {mint[a] : a \in NewLines},
                        !.rule.sinks = LET all == PlanSinks(mint)
                                           ks == Ascending(Kept)
                                       IN [x \in DOMAIN ks |-> all[ks[x]]]]
            /\ UNCHANGED <<draft, texts, form>>
    /\ UNCHANGED <<stored, connections, startup, store, available, pendingDelete, armedConn, clicks>>

\* Variant: the rule is saved even if a write fails.
CommitAnyway(r) ==
    /\ saving # None /\ saving.at = "writes" /\ r \in saving.todo
    /\ saving' = [saving EXCEPT !.todo = @ \ {r}] /\ store' \in {store, store \cup {r}}
    /\ UNCHANGED <<stored, connections, startup, minted, available, draft, texts, form,
                   pendingDelete, armedConn, clicks>>

\* commitSinkSecrets, a write at a time: one that fails takes back those that landed.
commitSinkSecrets(r) ==
    /\ saving # None /\ saving.at = "writes" /\ r \in saving.todo
    /\ \/ /\ saving' = [saving EXCEPT !.todo = @ \ {r}, !.done = @ \cup {r}]
          /\ store' = store \cup {r} /\ UNCHANGED <<draft, texts, form>>
       \/ saving' = None /\ store' = store \ saving.done /\ Refuse
    /\ UNCHANGED <<stored, connections, startup, minted, available, pendingDelete, armedConn, clicks>>

Saved ==
    /\ saving # None /\ saving.at = "writes" /\ saving.todo = {}
    /\ Finish(saving.rule, saving.editing)
    /\ UNCHANGED <<connections, startup, store, minted, available, pendingDelete, armedConn, clicks>>

-----------------------------------------------------------------------------
(* The list of rules, and the connections                                  *)

\* Two clicks delete; the first one lapses.
removeRule(i) ==
    /\ Click /\ rules[i] # None /\ UNCHANGED <<draft, texts, form, saving>>
    /\ IF pendingDelete = i
       THEN pendingDelete' = None /\ setRules([rules EXCEPT ![i] = None])
       ELSE pendingDelete' = i /\ UNCHANGED stored
    /\ UNCHANGED <<connections, startup, store, minted, available, armedConn>>

Lapse ==
    /\ \/ pendingDelete # None /\ pendingDelete' = None /\ UNCHANGED armedConn
       \/ armedConn # None /\ armedConn' = None /\ UNCHANGED pendingDelete
    /\ UNCHANGED <<draft, texts, form, saving, clicks>> /\ Still

toggleRule(i) ==
    /\ Click /\ rules[i] # None /\ UNCHANGED panel
    /\ setRules([rules EXCEPT ![i].enabled = ~@])
    /\ UNCHANGED <<connections, startup, store, minted, available>>

\* The list is replaced by what an export left of one of the rules: no addresses, no
\* credentials, and an id that no present rule has.
strippedSink(s) == newSink
importRules(i) ==
    /\ Click /\ rules[i] # None /\ UNCHANGED panel
    /\ \E j \in {j \in Id : rules[j] = None} :
          setRules([x \in Id |-> IF x = j
                                 THEN [rules[i] EXCEPT !.enabled = @ /\ ~rules[i].http,
                                                       !.sinks = [k \in DOMAIN rules[i].sinks |->
                                                                     strippedSink(rules[i].sinks[k])]]
                                 ELSE None])
    /\ UNCHANGED <<connections, startup, store, minted, available>>

\* nextConnId takes the first free id.
addConnection(c) ==
    /\ Click /\ c \in Conn \ (connections \cup {"src", "dst"}) /\ connections' = connections \cup {c}
    /\ UNCHANGED <<rules, disk, startup, vault, panel>>

\* The connections a rule forwards between.
Ends(rule) == {rule.source} \cup (IF rule.http THEN {} ELSE {rule.target})
rulesUsing(c) == {i \in Id : rules[i] # None /\ c \in Ends(rules[i])}
\* Two clicks again, and only for a connection that no rule names.
removeConnection(c) ==
    /\ Click /\ c \in connections /\ rulesUsing(c) = {}
    /\ IF armedConn = c THEN armedConn' = None /\ connections' = connections \ {c}
                        ELSE armedConn' = c /\ UNCHANGED connections
    /\ UNCHANGED <<rules, disk, startup, vault, draft, texts, form, saving, pendingDelete>>

-----------------------------------------------------------------------------
Startup == ReadRules \/ WriteRules \/ MountWindow
    \/ \E i \in Id, k \in 1 .. MaxSinks, n \in Name, r \in Ref : MoveHeader(i, k, n, r)
Background == finalizeSinks \/ Saved \/ Lapse \/ \E r \in Ref : commitSinkSecrets(r) \/ Dropped(r)
EditForm ==
    \/ showForm \/ closeForm \/ submitDraft \/ addExtraSink
    \/ \E i \in Id : startEdit(i)
    \/ \E kind \in {"telemetry", "alert", "broker"} : startRecipe(kind)
    \/ \E f \in Filter, s, t \in Conn, http \in BOOLEAN : setField(f, s, t, http)
    \/ \E k \in 1 .. MaxSinks : setSinkUrl(k) \/ removeExtraSink(k)
    \/ \E k \in 1 .. MaxSinks, n \in Name : setHeaderText(k, n)
EditList ==
    \/ \E i \in Id : removeRule(i) \/ toggleRule(i) \/ importRules(i)
    \/ \E c \in Conn : addConnection(c) \/ removeConnection(c)

Next == Startup \/ Background \/ EditForm \/ EditList \/ Restart
Spec == Init /\ [][Next]_vars

-----------------------------------------------------------------------------
(* But for a credential that was deleted while a form, a save or the       *)
(* migration still had it: "a saved rule never names a value the keychain  *)
(* does not have" (BridgePanel.tsx), in the window and on disk, whatever   *)
(* fails, whoever shares it, whatever becomes of the rule while its save   *)
(* waits for the store, and however late the migration writes its snapshot.*)
HeaderHasValue == headerReferences(rules) \cup headerReferences(disk) \subseteq store \cup disowned
=============================================================================
