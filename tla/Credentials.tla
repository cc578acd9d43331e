----------------------------- MODULE Credentials -----------------------------
(***************************************************************************)
(* Where broker passwords live: the settings dialog (SettingsModal), the   *)
(* saved profiles and the live config (hooks/useBroker), the endpoints     *)
(* that the bridge remembers (hooks/useBridge), each a key of localStorage *)
(* (usePersistentState), the operating system's credential store behind    *)
(* utils/secrets, and the move at startup of what older builds stored.     *)
(*                                                                         *)
(* A config carries a password, or a reference to one in the store, or     *)
(* neither.  Every call to the store takes its time, may fail, and may ask *)
(* the user; meanwhile the window goes on, and at startup it opens after a *)
(* deadline with the move still under way.  A key is written whenever the  *)
(* state it mirrors changes, without passwords that a reference covers,    *)
(* and by the move with what the move had read.                            *)
(***************************************************************************)
EXTENDS Integers, Sequences, FiniteSets, Functions

CONSTANTS
    Ref,        \* references that can be minted
    Id,         \* ids of profiles
    Link,       \* ids of connections of the bridge
    Host,       \* hosts that can be typed; it stands for all the form's other fields
    None,       \* a model value: nothing there
    Left,       \* configs that an older build may have left behind
    MaxClicks   \* bound: what the user does

\* BrokerConfig.
Cfg == [host : Host, plain : BOOLEAN, ref : Ref \cup {None}]
\* Where a config is kept: 0 for the live one, a profile, or what a connection of the bridge used last.
Slot == {0} \cup Id \cup Link
\* SECRET_BEARING_KEYS, in the order the migration takes them: the slots under each.
Key == <<{0}, Id, Link>>

VARIABLES
    disk,      \* localStorage: the configs kept there
    saved,     \* the same in the window's memory: config and profiles
    store,     \* references with a password in the credential store
    minted,    \* references handed out
    available, \* whether the store can be used
    boot,      \* "migrate" until the window is mounted
    moving,    \* the migration: the key it is at, what it has read there and still has to move
    dialog,    \* the settings dialog: [open, form, draft, editing, error]
    status,    \* secretStatus, as asked by the dialog
    present,   \* storedPresent
    report,    \* the TLS report shown, by the host it was made for
    commit,    \* a save whose password is on its way to the store: [to, next, target]
    forget,    \* the reference that handleClearStoredPassword is deleting
    drops,     \* references that deleteProfile is deleting
    connecting,\* a config on its way to connect(), or to the bridge: [slot, config]
    disowned,  \* history: references whose password the user deleted knowingly or not: by the
               \* button, or with the last profile that had it, where the live config had not but
               \* somebody had whom deleteProfile does not ask (see Held)
    clicks

vars == <<disk, saved, store, minted, available, boot, moving, dialog, status, present, report,
          commit, forget, drops, connecting, disowned, clicks>>
window == <<dialog, status, present, report, commit, forget, drops, connecting>>

Configs == [Slot -> Cfg \cup {None}]

\* dropCoveredPassword, for one config.
withoutStoredSecrets(c) == IF c = None THEN None ELSE [c EXCEPT !.plain = @ /\ c.ref = None]
Exposed(c) == c # None /\ c.plain /\ c.ref = None
Closed == [open |-> FALSE, form |-> [host |-> CHOOSE h \in Host : TRUE, plain |-> FALSE, ref |-> None],
           draft |-> FALSE, editing |-> None, error |-> FALSE]
\* Moved already: the copy goes.
Covered(c) == c # None /\ c.plain /\ c.ref # None
Fresh == Ref \ minted
\* newSecretRef: random, so it does not matter which.
NewRef == CHOOSE r \in Fresh : TRUE
\* The migration has asked whether there is a store, and read nothing.
Asked == [key |-> 0, todo |-> {}, snapshot |-> [s \in Slot |-> None]]

\* An older build has left configs with passwords in them, and no references.
Init ==
    /\ disk \in {d \in [Slot -> Left \cup {None}] : d[0] # None}
    /\ saved = disk /\ store = {} /\ minted = {} /\ available \in BOOLEAN
    /\ boot = "migrate" /\ moving = Asked
    /\ dialog = Closed /\ status = "checking" /\ present = "unknown" /\ report = None
    /\ commit = None /\ forget = None /\ drops = {} /\ connecting = None
    /\ disowned = {} /\ clicks = 0

Click == boot = "mounted" /\ clicks < MaxClicks /\ clicks' = clicks + 1

-----------------------------------------------------------------------------
(* Startup                                                                 *)

\* migrateStoredSecrets: the first key after k with a password to move, as it is read then.
From(k, d) ==
    LET due == {j \in (k + 1) .. 3 : \E s \in Key[j] : Exposed(d[s])}
        j == CHOOSE j \in due : \A i \in due : j <= i
    IN  IF due = {} THEN None
        ELSE [key |-> j, todo |-> {s \in Key[j] : Exposed(d[s])},
              snapshot |-> [s \in Slot |-> IF s \in Key[j] THEN d[s] ELSE None]]

\* secret_status has answered: without a store nothing is moved.
ReadStored ==
    /\ moving # None /\ moving.key = 0
    /\ moving' = IF available THEN From(0, disk) ELSE None
    /\ UNCHANGED <<disk, saved, store, minted, available, boot, window, clicks, disowned>>

\* moveWithin: a failed write leaves the config as it was.
Move(s) ==
    /\ moving # None /\ s \in moving.todo /\ Fresh # {}
    /\ minted' = minted \cup {NewRef}
    /\ \/ /\ store' = store \cup {NewRef}
          /\ moving' = [moving EXCEPT !.todo = @ \ {s}, !.snapshot[s].ref = NewRef]
       \/ /\ UNCHANGED store
          /\ moving' = [moving EXCEPT !.todo = @ \ {s}]
    /\ UNCHANGED <<disk, saved, available, boot, window, clicks, disowned>>

\* The configs of a key are through: it is rewritten from what was read, if anything was moved, and
\* the next is read, mounted or not.
WriteMoved ==
    /\ moving # None /\ moving.key # 0 /\ moving.todo = {}
    /\ disk' = IF \E s \in Key[moving.key] : Covered(moving.snapshot[s])
               THEN [s \in Slot |-> IF s \in Key[moving.key]
                                    THEN withoutStoredSecrets(moving.snapshot[s]) ELSE disk[s]]
               ELSE disk
    /\ moving' = From(moving.key, disk')
    /\ UNCHANGED <<saved, store, minted, available, boot, window, clicks, disowned>>

\* The window reads what is on disk: the migration is over, or the deadline has passed.
Mount ==
    /\ boot = "migrate" /\ boot' = "mounted"
    /\ saved' = disk
    /\ UNCHANGED <<disk, store, minted, available, moving, window, clicks, disowned>>

\* The program quits and starts again; what was under way is lost.
Restart ==
    /\ Click
    /\ boot' = "migrate" /\ moving' = Asked
    /\ dialog' = Closed /\ status' = "checking" /\ present' = "unknown" /\ report' = None
    /\ commit' = None /\ forget' = None /\ drops' = {} /\ connecting' = None
    /\ UNCHANGED <<disk, saved, store, minted, available, disowned>>

-----------------------------------------------------------------------------
(* The state the window keeps                                              *)

\* usePersistentState: the state, and the sanitized copy of its key on disk.
Keep(s, c) ==
    /\ saved' = [saved EXCEPT ![s] = c]
    /\ disk' = [x \in Slot |-> IF \E k \in 1 .. 3 : {s, x} \subseteq Key[k]
                               THEN withoutStoredSecrets(saved'[x]) ELSE disk[x]]

\* The dialog starts over whenever it opens, and whenever the live config changes under it.
Reset(c) == [open |-> TRUE, form |-> c, draft |-> FALSE, editing |-> None, error |-> FALSE]

openSettings ==
    /\ Click /\ ~dialog.open
    /\ dialog' = Reset(saved[0]) /\ present' = "unknown"
    /\ UNCHANGED <<disk, saved, store, minted, available, boot, moving, status, report, commit, forget,
                   drops, connecting, disowned>>

onClose ==
    /\ Click /\ dialog.open /\ dialog' = [dialog EXCEPT !.open = FALSE]
    /\ UNCHANGED <<disk, saved, store, minted, available, boot, moving, status, present, report,
                   commit, forget, drops, connecting, disowned>>

StatusAnswer ==
    /\ dialog.open /\ status = "checking"
    /\ status' = IF available THEN "yes" ELSE "no"
    /\ UNCHANGED <<disk, saved, store, minted, available, boot, moving, dialog, present, report, commit,
                   forget, drops, connecting, clicks, disowned>>

\* connect() has succeeded with the config: it becomes the live one, or the one that the
\* connection of the bridge used last.
ConnectDone ==
    /\ connecting # None /\ connecting' = None
    /\ Keep(connecting.slot, connecting.config)
    /\ IF dialog.open /\ connecting.slot = 0 /\ connecting.config # saved[0]
       THEN dialog' = Reset(connecting.config) /\ present' = "unknown"
       ELSE UNCHANGED <<dialog, present>>
    /\ UNCHANGED <<store, minted, available, boot, moving, status, report, commit, forget, drops, clicks, disowned>>

ConnectFails ==
    /\ connecting # None /\ connecting' = None
    /\ UNCHANGED <<disk, saved, store, minted, available, boot, moving, dialog, status, present, report,
                   commit, forget, drops, clicks, disowned>>

\* A card of the bridge (BridgePanel): with a profile, with what was used last, as autostart does
\* unasked, or with a host and port typed there.
bridgeConnect(l, c) ==
    /\ Click /\ ~dialog.open /\ connecting = None
    /\ \/ c \in {saved[s] : s \in Id \cup {l}} \ {None}
       \/ c \in [host : Host, plain : {FALSE}, ref : {None}]
    /\ connecting' = [slot |-> l, config |-> c]
    /\ UNCHANGED <<disk, saved, store, minted, available, boot, moving, dialog, status, present, report,
                   commit, forget, drops, disowned>>

\* Disconnecting, or removing, a connection of the bridge forgets its config.
bridgeForget(l) ==
    /\ Click /\ ~dialog.open /\ saved[l] # None
    /\ Keep(l, None)
    /\ UNCHANGED <<store, minted, available, boot, moving, dialog, status, present, report, commit, forget,
                   drops, connecting, disowned>>

-----------------------------------------------------------------------------
(* The form                                                                *)

handleApplyPreset(h) ==
    /\ Click /\ dialog.open
    /\ dialog' = [dialog EXCEPT !.form.host = h, !.editing = None]
    /\ UNCHANGED <<disk, saved, store, minted, available, boot, moving, status, present, report, commit,
                   forget, drops, connecting, disowned>>

handleApplyProfile(p) ==
    /\ Click /\ dialog.open /\ saved[p] # None
    /\ dialog' = [dialog EXCEPT !.form = saved[p], !.editing = p, !.draft = FALSE]
    /\ UNCHANGED <<disk, saved, store, minted, available, boot, moving, status, present, report, commit,
                   forget, drops, connecting, disowned>>

\* A field of the form.  Its TLS report stays as it was made.
editField(h) ==
    /\ Click /\ dialog.open /\ h # dialog.form.host
    /\ dialog' = [dialog EXCEPT !.form.host = h]
    /\ UNCHANGED <<disk, saved, store, minted, available, boot, moving, status, present, report, commit,
                   forget, drops, connecting, disowned>>

typePassword ==
    /\ Click /\ dialog.open
    /\ dialog' = [dialog EXCEPT !.draft = TRUE, !.error = FALSE]
    /\ UNCHANGED <<disk, saved, store, minted, available, boot, moving, status, present, report, commit,
                   forget, drops, connecting, disowned>>

saveAsNew ==
    /\ Click /\ dialog.open /\ dialog.editing # None
    /\ dialog' = [dialog EXCEPT !.editing = None]
    /\ UNCHANGED <<disk, saved, store, minted, available, boot, moving, status, present, report, commit,
                   forget, drops, connecting, disowned>>

checkStoredSecret ==
    /\ Click /\ dialog.open /\ status = "yes" /\ dialog.form.ref # None
    /\ present' = IF dialog.form.ref \in store THEN "yes" ELSE "no"
    /\ UNCHANGED <<disk, saved, store, minted, available, boot, moving, dialog, status, report, commit,
                   forget, drops, connecting, disowned>>

inspectTls ==
    /\ Click /\ dialog.open
    /\ report' \in {None, dialog.form.host}
    /\ UNCHANGED <<disk, saved, store, minted, available, boot, moving, dialog, status, present, commit,
                   forget, drops, connecting, disowned>>

-----------------------------------------------------------------------------
(* Saving, connecting, forgetting, deleting                                *)

editingProfile == IF dialog.editing # None /\ saved[dialog.editing] # None THEN dialog.editing ELSE None
Candidate == dialog.draft \/ dialog.form.plain

\* What becomes of a committed config.
Apply(to, c, target) ==
    IF to = "connect"
    THEN connecting' = [slot |-> 0, config |-> c] /\ UNCHANGED <<saved, disk>>
    ELSE /\ UNCHANGED connecting
         /\ IF target # None /\ saved[target] # None THEN Keep(target, c)
            ELSE IF target # None THEN UNCHANGED <<saved, disk>>
            ELSE \E p \in {p \in Id : saved[p] = None} : Keep(p, c)

\* commitDraft without a call to the store: nothing typed, no store, or none known of yet.
SaveAtOnce(to) ==
    /\ Click /\ dialog.open /\ commit = None /\ connecting = None
    /\ ~Candidate \/ status # "yes"
    /\ LET c == IF Candidate THEN [dialog.form EXCEPT !.plain = TRUE, !.ref = None] ELSE dialog.form IN
       Apply(to, c, editingProfile)
    /\ dialog' = [dialog EXCEPT !.draft = FALSE, !.open = (to = "profile")]
    /\ UNCHANGED <<store, minted, available, boot, moving, status, present, report, commit, forget,
                   drops, disowned>>

\* commitDraft with one: under the reference the form has, or a new one.
FormRef == IF dialog.form.ref # None THEN dialog.form.ref ELSE NewRef
SaveSecret(to) ==
    /\ Click /\ dialog.open /\ commit = None /\ connecting = None
    /\ Candidate /\ status = "yes"
    /\ dialog.form.ref # None \/ Fresh # {}
    /\ minted' = minted \cup {FormRef}
    /\ commit' = [to |-> to, target |-> editingProfile,
                  next |-> [dialog.form EXCEPT !.ref = FormRef, !.plain = FALSE]]
    /\ UNCHANGED <<disk, saved, store, available, boot, moving, dialog, status, present, report, forget,
                   drops, connecting, disowned>>

Stored ==
    /\ commit # None /\ commit' = None
    /\ store' = store \cup {commit.next.ref}
    /\ Apply(commit.to, commit.next, commit.target)
    /\ dialog' = [dialog EXCEPT !.draft = FALSE, !.open = @ /\ commit.to = "profile"]
    /\ present' = "yes"
    /\ UNCHANGED <<minted, available, boot, moving, status, report, forget, drops, clicks, disowned>>

NotStored ==
    /\ commit # None /\ commit' = None
    /\ dialog' = [dialog EXCEPT !.error = TRUE]
    /\ UNCHANGED <<disk, saved, store, minted, available, boot, moving, status, present, report, forget,
                   drops, connecting, clicks, disowned>>

handleClearStoredPassword ==
    /\ Click /\ dialog.open /\ forget = None /\ dialog.form.ref # None
    /\ forget' = dialog.form.ref /\ disowned' = disowned \cup {dialog.form.ref}
    /\ UNCHANGED <<disk, saved, store, minted, available, boot, moving, dialog, status, present, report,
                   commit, drops, connecting>>

\* The deletion's answer clears whatever the form holds by then.
Forgotten ==
    /\ forget # None /\ forget' = None
    /\ \/ /\ store' = store \ {forget}
          /\ dialog' = [dialog EXCEPT !.form.ref = None, !.form.plain = FALSE, !.draft = FALSE, !.error = FALSE]
          /\ present' = "unknown"
       \/ dialog' = [dialog EXCEPT !.error = TRUE] /\ UNCHANGED <<store, present>>
    /\ UNCHANGED <<disk, saved, minted, available, boot, moving, status, report, commit, drops,
                   connecting, clicks, disowned>>

\* Variant: the live config is not asked.
stillReferencedByProfiles(p) == \E q \in Id \ {p} : saved[q] # None /\ saved[q].ref = saved[p].ref
\* Who else points at the password of a profile.
stillReferenced(p) ==
    \/ saved[0].ref = saved[p].ref
    \/ \E q \in Id \ {p} : saved[q] # None /\ saved[q].ref = saved[p].ref
RefsOf(configs) == {c.ref : c \in configs \ {None}} \ {None}
\* Who may hold a reference and is not asked: the form, a save or a connect under way, what the
\* bridge used last, and a migration that is late, in its hands or written over the window's keys.
Held ==
    RefsOf({dialog.form} \cup {saved[l] : l \in Link} \cup {disk[s] : s \in Slot \ Id}
           \cup (IF commit = None THEN {} ELSE {commit.next})
           \cup (IF connecting = None THEN {} ELSE {connecting.config})
           \cup (IF moving = None THEN {} ELSE {moving.snapshot[s] : s \in Slot}))

deleteProfile(p) ==
    /\ Click /\ dialog.open /\ saved[p] # None
    /\ Keep(p, None)
    /\ drops' = IF saved[p].ref # None /\ ~stillReferenced(p) THEN drops \cup {saved[p].ref} ELSE drops
    /\ disowned' = disowned \cup (Held \cap (RefsOf({saved[p]}) \ RefsOf({saved[s] : s \in ({0} \cup Id) \ {p}})))
    /\ dialog' = [dialog EXCEPT !.editing = IF @ = p THEN None ELSE @]
    /\ UNCHANGED <<store, minted, available, boot, moving, status, present, report, commit, forget,
                   connecting>>

Dropped(r) ==
    /\ r \in drops /\ drops' = drops \ {r} /\ store' \in {store, store \ {r}}
    /\ UNCHANGED <<disk, saved, minted, available, boot, moving, dialog, status, present, report, commit,
                   forget, connecting, clicks, disowned>>

-----------------------------------------------------------------------------
Startup == ReadStored \/ WriteMoved \/ Mount \/ \E s \in Slot : Move(s)
Answers ==
    \/ StatusAnswer \/ ConnectDone \/ ConnectFails \/ Stored \/ NotStored \/ Forgotten
    \/ \E r \in drops : Dropped(r)
EditForm ==
    \/ openSettings \/ onClose \/ typePassword \/ saveAsNew \/ checkStoredSecret \/ inspectTls
    \/ \E h \in Host : handleApplyPreset(h) \/ editField(h)
    \/ \E p \in Id : handleApplyProfile(p)
Act ==
    \/ \E to \in {"profile", "connect"} : SaveAtOnce(to) \/ SaveSecret(to)
    \/ handleClearStoredPassword \/ Restart
    \/ \E p \in Id : deleteProfile(p)
    \/ \E l \in Link : bridgeForget(l) \/ \E c \in Cfg : bridgeConnect(l, c)

Next == Startup \/ Answers \/ EditForm \/ Act
Spec == Init /\ [][Next]_vars

-----------------------------------------------------------------------------
(* Whoever shares a stored password, whichever write fails and wherever a  *)
(* startup is late or cut short: a reference in the window or on disk      *)
(* leads to a password in the store ("a dangling reference would be        *)
(* worse", secrets.ts:187), and "deleting a profile must not quietly       *)
(* blindside the ones still pointing at it" (useBroker.ts:190).  That      *)
(* holds for the live config and the profiles; the exception is for        *)
(* passwords the user cleared, and those deleted while only the holders    *)
(* that deleteProfile does not ask still had them (disowned).              *)
NoDangling ==
    \A s \in Slot : RefsOf({disk[s], saved[s]}) \subseteq store \cup disowned
=============================================================================
